--------------------------- MODULE MCExchangeRates ---------------------------
(* Model values for ExchangeRates. *)
EXTENDS ExchangeRates, TLC

\* Both rates, the first alone and near to the first answer, the second alone and
\* too far from it beside an answer that makes no sense.
MCQuotes == {1 :> 100 @@ 2 :> 100, 1 :> 114, 1 :> 0 @@ 2 :> 130}

=============================================================================
