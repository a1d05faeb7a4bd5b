------------------------- MODULE OfferMonitor_proofs -------------------------
(***************************************************************************)
(* The safety of offer monitoring, for any number of listings, sweeps and  *)
(* refreshes and for all intervals.                                        *)
(*                                                                         *)
(* Two inductive invariants, the second on top of the first.  LockInv: a   *)
(* transaction has locked the rows it has come to, and committed rows bear *)
(* no claim.  SessionInv: rows and sessions are watched just while they    *)
(* are active, what was removed stays so, and the rows of a sweep are as   *)
(* it has read them, so that what it records follows from them.            *)
(***************************************************************************)
EXTENDS OfferMonitor, TLAPS

Steps == {"idle", "next", "wait", "crawl", "done"}

Unclaimed(r) == r.worker = NoProc /\ r.lease = Never

\* Where a transaction is in its batch.
Placed ==
    \A p \in Procs :
       /\ todo[p] \subseteq batch[p]
       /\ pc[p] = "crawl" => at[p] \in batch[p] \ todo[p]
       /\ pc[p] = "wait" => p \in Refreshes /\ at[p] \in todo[p]

\* A sweep has its batch locked, a refresh what it has come to; to the rest it
\* has done nothing.
Held ==
    \A p \in Procs, l \in Listings :
       /\ l \in batch[p] /\ (p \in Sweepers \/ l \notin todo[p]) => lock[l] = p
       /\ p \in Refreshes /\ l \in todo[p] => copy[p][l] = read[p][l]

\* Claims are seen by their transaction only, and given back by each check.
Private ==
    /\ \A l \in Listings : Unclaimed(row[l])
    /\ \A p \in Procs, l \in Listings :
          /\ Unclaimed(read[p][l])
          /\ l \in batch[p] \ todo[p] => Unclaimed(copy[p][l]) \/ (pc[p] = "crawl" /\ at[p] = l)

LockInv == TypeOK /\ Placed /\ Held /\ Private

-----------------------------------------------------------------------------
(* Listings. *)

LEMMA Names ==
    /\ Sweepers \cap Refreshes = {} /\ NoProc \notin Procs /\ NoListing \notin Listings
BY MonitorAssumption

\* The numbers that times are made of.
LEMMA Numbers ==
    /\ Batch \in Nat /\ Regular \in Nat /\ RetryBase \in Nat /\ RetryMax \in Nat
    /\ Lease \in Nat /\ Jitter \in Nat /\ Grace \in Nat /\ Never \in Nat
    /\ MaxTime \in Nat /\ MaxFaults \in Nat
    /\ MaxTime + Regular + Jitter < Never /\ MaxTime + RetryMax < Never
    /\ MaxTime + Lease < Never /\ MaxTime < Never
    /\ Expiries \subseteq 1 .. Never
BY MonitorAssumption

LEMMA NeverIsTime == Never \in Time /\ 0 \in Time
BY Numbers DEF Time

\* A listing stays one when columns of it are written.
LEMMA RowTypes ==
    ASSUME NEW r \in Row
    PROVE  /\ [r EXCEPT !.fails = 0] \in Row
           /\ [r EXCEPT !.status = "removed"] \in Row
           /\ \A w \in {"on", "off"}, n \in Time : [r EXCEPT !.watch = w, !.next = n] \in Row
           /\ \A k \in Nat, n \in Time : [r EXCEPT !.fails = k, !.next = n] \in Row
           /\ \A n \in Time : [r EXCEPT !.promo = "expired", !.next = n] \in Row
           /\ \A w \in Procs \cup {NoProc}, t \in Time :
                 [r EXCEPT !.worker = w, !.lease = t] \in Row
<1>1. [r EXCEPT !.fails = 0] \in Row
  BY DEF Row
<1>2. [r EXCEPT !.status = "removed"] \in Row
  BY DEF Row
<1>3. ASSUME NEW w \in {"on", "off"}, NEW n \in Time
      PROVE  [r EXCEPT !.watch = w, !.next = n] \in Row
  BY <1>3 DEF Row
<1>4. ASSUME NEW k \in Nat, NEW n \in Time
      PROVE  [r EXCEPT !.fails = k, !.next = n] \in Row
  BY <1>4 DEF Row
<1>5. ASSUME NEW n \in Time
      PROVE  [r EXCEPT !.promo = "expired", !.next = n] \in Row
  BY <1>5 DEF Row
<1>6. ASSUME NEW w \in Procs \cup {NoProc}, NEW t \in Time
      PROVE  [r EXCEPT !.worker = w, !.lease = t] \in Row
  BY <1>6 DEF Row
<1> QED
  BY <1>1, <1>2, <1>3, <1>4, <1>5, <1>6

LEMMA NextCheckType ==
    ASSUME NEW r \in Row, NEW t \in 0 .. MaxTime, NEW j \in 0 .. Jitter
    PROVE  NextCheck(r, t, j) \in Time /\ NextCheck(r, t, j) # Never
<1>1. r.expires \in Time
  BY DEF Row
<1>2. PICK a \in Nat : a = t + Regular + j /\ a < Never
  BY Numbers
<1>3. PICK b \in Nat : b = r.expires + Grace
  BY <1>1, Numbers DEF Time
<1>4. Least(a, b) \in Nat /\ Least(a, b) < Never
  BY <1>2, Numbers DEF Least
<1>5. NextCheck(r, t, j) \in {a, Least(a, b)}
  BY <1>2, <1>3 DEF NextCheck
<1> QED
  BY <1>2, <1>4, <1>5, Numbers DEF Time

LEMMA RetryDelayType ==
    ASSUME NEW n \in Nat
    PROVE  RetryDelay(n) \in Nat /\ RetryDelay(n) <= RetryMax
<1> DEFINE d == RetryBase * 2 ^ (n - 1)
<1>1. RetryDelay(n) = IF d \in RetryBase .. RetryMax THEN d ELSE RetryMax
  BY DEF RetryDelay
<1> HIDE DEF d
<1> QED
  BY <1>1, Numbers

\* What a promotion can become.
LEMMA ObservedFacts ==
    ASSUME NEW r \in Row, NEW t \in 0 .. MaxTime, NEW o \in Observed(r, t)
    PROVE  /\ o \in Row /\ o.status = r.status
           /\ r.promo = "active" => o.promo # "none"
           /\ o.promo = "expired" => o.expires <= t \/ (r.promo = "expired" /\ o.expires = r.expires)
<1>1. CASE o = Unseen(r, t)
  BY <1>1 DEF Unseen, PromoDue, Row
<1>2. CASE o = r
  BY <1>2
<1>3. ASSUME NEW e \in Expiries, o = Seen(r, e, t)
      PROVE  /\ o \in Row /\ o.status = r.status /\ o.promo # "none"
             /\ o.promo = "expired" => o.expires <= t
  <2>1. e \in Time
    BY Numbers DEF Time
  <2> QED
    BY <1>3, <2>1 DEF Seen, Row
<1> QED
  BY <1>1, <1>2, <1>3 DEF Observed, Ignored

\* A listing is watched just while it is active, and then has a next check.
Sound(r) ==
    /\ r.status = "active" <=> r.watch = "on"
    /\ r.watch = "on" => r.next # Never

\* How a check may leave a listing.
CheckedAs(r, o, t) ==
    /\ o \in Row /\ Unclaimed(o)
    /\ Sound(r) => Sound(o)
    /\ r.status = "removed" => o.status = "removed"
    /\ r.promo = "active" => o.promo # "none"
    /\ o.promo = "expired" => o.expires <= t \/ (r.promo = "expired" /\ o.expires = r.expires)

LEMMA ReleasedFacts ==
    ASSUME NEW r \in Row
    PROVE  /\ Released(r) \in Row /\ Unclaimed(Released(r))
           /\ Released(r).status = r.status /\ Released(r).watch = r.watch
           /\ Released(r).next = r.next
           /\ Released(r).promo = r.promo /\ Released(r).expires = r.expires
<1>1. PICK o \in Row : o = Released(r)
  BY RowTypes, NeverIsTime DEF Released
<1>2. o.worker = NoProc /\ o.lease = Never
  BY <1>1 DEF Released, Row
<1>3. o.status = r.status /\ o.watch = r.watch /\ o.next = r.next
  BY <1>1 DEF Released, Row
<1>4. o.promo = r.promo /\ o.expires = r.expires
  BY <1>1 DEF Released, Row
<1> QED
  BY <1>1, <1>2, <1>3, <1>4 DEF Unclaimed

LEMMA RemovedFacts ==
    ASSUME NEW r \in Row, r.status = "removed"
    PROVE  /\ MarkRemoved(r) \in Row /\ Unclaimed(MarkRemoved(r)) /\ Sound(MarkRemoved(r))
           /\ MarkRemoved(r).status = "removed"
           /\ MarkRemoved(r).promo = r.promo /\ MarkRemoved(r).expires = r.expires
<1>1. PICK m \in Row : m = [r EXCEPT !.watch = "off", !.next = Never]
  BY RowTypes, NeverIsTime
<1>2. /\ m.status = r.status /\ m.watch = "off"
      /\ m.promo = r.promo /\ m.expires = r.expires
  BY <1>1 DEF Row
<1>3. MarkRemoved(r) = Released(m)
  BY <1>1 DEF MarkRemoved
<1> QED
  BY <1>2, <1>3, ReleasedFacts DEF Sound

LEMMA SucceededFacts ==
    ASSUME NEW r \in Row, NEW t \in 0 .. MaxTime, NEW o \in Succeeded(r, t)
    PROVE  CheckedAs(r, o, t)
<1>1. PICK ok \in Row : ok = [r EXCEPT !.fails = 0]
  BY RowTypes
<1>2. ok.status = r.status /\ ok.promo = r.promo /\ ok.expires = r.expires
  BY <1>1 DEF Row
<1>3. CASE r.status = "removed"
  <2>1. o = MarkRemoved(ok)
    BY <1>1, <1>3 DEF Succeeded
  <2> QED
    BY <1>2, <1>3, <2>1, RemovedFacts DEF CheckedAs
<1>4. CASE r.status # "removed"
  <2>0. o \in {Watched(b, t, j) : b \in Observed(ok, t), j \in 0 .. Jitter}
    BY <1>1, <1>4 DEF Succeeded
  <2>1. PICK b \in Observed(ok, t), j \in 0 .. Jitter : o = Watched(b, t, j)
    BY <2>0
  <2>2. /\ b \in Row /\ b.status = r.status
        /\ r.promo = "active" => b.promo # "none"
        /\ b.promo = "expired" => b.expires <= t \/ (r.promo = "expired" /\ b.expires = r.expires)
    BY <1>2, ObservedFacts
  <2>3. PICK n \in Time : n = NextCheck(b, t, j) /\ n # Never
    BY <2>2, NextCheckType
  <2>4. PICK m \in Row : m = [b EXCEPT !.watch = "on", !.next = n]
    BY <2>2, RowTypes
  <2>5. m.watch = "on" /\ m.next = n
    BY <2>2, <2>4 DEF Row
  <2>6. m.status = b.status /\ m.promo = b.promo /\ m.expires = b.expires
    BY <2>2, <2>4 DEF Row
  <2>7. r.status = "active"
    BY <1>4 DEF Row
  <2>8. o = Released(m)
    BY <2>1, <2>3, <2>4 DEF Watched
  <2>9. /\ o \in Row /\ Unclaimed(o) /\ o.watch = "on" /\ o.next = n
        /\ o.status = b.status /\ o.promo = b.promo /\ o.expires = b.expires
    BY <2>5, <2>6, <2>8, ReleasedFacts
  <2> QED
    BY <2>2, <2>3, <2>7, <2>9 DEF CheckedAs, Sound
<1> QED
  BY <1>3, <1>4

LEMMA FailedFacts ==
    ASSUME NEW r \in Row, NEW t \in 0 .. MaxTime
    PROVE  CheckedAs(r, Failed(r, t), t)
<1>1. r.fails \in Nat
  BY DEF Row
<1>2. PICK k \in Nat : k = r.fails + 1
  BY <1>1
<1>3. PICK n \in Time : n = t + RetryDelay(k) /\ n # Never
  BY RetryDelayType, Numbers DEF Time
<1>4. PICK m \in Row : m = [r EXCEPT !.fails = k, !.next = n]
  BY RowTypes
<1>5. m.next = n /\ m.status = r.status /\ m.watch = r.watch
  BY <1>4 DEF Row
<1>6. m.promo = r.promo /\ m.expires = r.expires
  BY <1>4 DEF Row
<1>7. Failed(r, t) = Released(m)
  BY <1>2, <1>3, <1>4 DEF Failed
<1> QED
  BY <1>3, <1>5, <1>6, <1>7, ReleasedFacts DEF CheckedAs, Sound

LEMMA GoneFacts ==
    ASSUME NEW r \in Row, NEW t \in 0 .. MaxTime
    PROVE  CheckedAs(r, Gone(r), t)
<1>1. PICK g \in Row : g = [r EXCEPT !.status = "removed"]
  BY RowTypes
<1>2. g.status = "removed" /\ g.promo = r.promo /\ g.expires = r.expires
  BY <1>1 DEF Row
<1>3. Gone(r) = MarkRemoved(g)
  BY <1>1 DEF Gone
<1> QED
  BY <1>2, <1>3, RemovedFacts DEF CheckedAs

LEMMA OutcomeFacts ==
    ASSUME NEW r \in Row, NEW t \in 0 .. MaxTime, NEW o \in Outcomes(r, t)
    PROVE  CheckedAs(r, o, t)
BY SucceededFacts, FailedFacts, GoneFacts DEF Outcomes

LEMMA WallClockFacts ==
    ASSUME NEW r \in Row, NEW t \in 0 .. MaxTime
    PROVE  /\ WallClock(r, t) \in Row
           /\ Sound(r) => Sound(WallClock(r, t))
           /\ WallClock(r, t).status = r.status
           /\ r.promo = "active" => WallClock(r, t).promo # "none"
           /\ WallClock(r, t).promo = "expired" =>
                 \/ WallClock(r, t).expires <= t
                 \/ r.promo = "expired" /\ WallClock(r, t).expires = r.expires
<1>1. t \in Time /\ t # Never
  BY Numbers DEF Time
<1>2. PICK m \in Row : m = [r EXCEPT !.promo = "expired", !.next = t]
  BY <1>1, RowTypes
<1>3. m.status = r.status /\ m.watch = r.watch /\ m.next = t
  BY <1>2 DEF Row
<1>4. m.promo = "expired" /\ m.expires = r.expires
  BY <1>2 DEF Row
<1>5. CASE PromoDue(r, t)
  <2>1. WallClock(r, t) = m /\ r.expires <= t
    BY <1>2, <1>5 DEF WallClock, PromoDue
  <2> QED
    BY <1>1, <1>3, <1>4, <2>1 DEF Sound
<1>6. CASE ~PromoDue(r, t)
  <2>1. WallClock(r, t) = r
    BY <1>6 DEF WallClock
  <2> QED
    BY <2>1
<1> QED
  BY <1>5, <1>6

\* What a commit writes.
LEMMA MergedFacts ==
    ASSUME NEW p \in Procs, NEW l \in Listings, NEW a \in Row, NEW b \in Row, NEW r \in Row,
           a = read[p][l], b = copy[p][l], r = row[l]
    PROVE  /\ Merged(p, l) \in Row
           /\ Unclaimed(b) /\ Unclaimed(r) => Unclaimed(Merged(p, l))
           /\ Merged(p, l).status = IF b.status # a.status THEN b.status ELSE r.status
           /\ Merged(p, l).watch = IF b.watch # a.watch THEN b.watch ELSE r.watch
           /\ Merged(p, l).next \in {b.next, r.next}
           /\ b.status = a.status /\ r.next # Never /\ b.next # Never
                 => Merged(p, l).next # Never
<1> DEFINE Column(f) == IF b[f] # a[f] THEN b[f] ELSE r[f]
<1>1. PICK m : m = Merged(p, l)
  OBVIOUS
<1>2. m = [status |-> Column("status"), watch |-> Column("watch"), promo |-> Column("promo"),
           expires |-> Column("expires"), next |-> Column("next"), fails |-> Column("fails"),
           worker |-> Column("worker"), lease |-> Column("lease")]
  BY <1>1 DEF Merged
<1>3. m \in Row
  BY <1>2 DEF Row
<1>4. Unclaimed(b) /\ Unclaimed(r) => Unclaimed(m)
  BY <1>2 DEF Unclaimed
<1>5. /\ m.status = Column("status") /\ m.watch = Column("watch") /\ m.next = Column("next")
  BY <1>2
<1> QED
  BY <1>1, <1>3, <1>4, <1>5

LEMMA NewIsRow == New \in Row /\ Unclaimed(New) /\ Sound(New)
<1>1. New \in Row
  BY NeverIsTime DEF New, Row
<1> QED
  BY <1>1, Numbers DEF New, Unclaimed, Sound

LEMMA NewsType ==
    ASSUME NEW r, NEW q, NEW s \in Seq({"activated", "expired"})
    PROVE  s \o News(r, q) \in Seq({"activated", "expired"})
<1>1. News(r, q) \in {<<"activated">>, <<"expired">>, <<>>}
  BY Zenon DEF News
<1>2. News(r, q) \in Seq({"activated", "expired"})
  <2>1. /\ <<"activated">> \in Seq({"activated", "expired"})
        /\ <<"expired">> \in Seq({"activated", "expired"})
        /\ <<>> \in Seq({"activated", "expired"})
    OBVIOUS
  <2>2. CASE News(r, q) = <<>>
    BY <2>1, <2>2, Zenon
  <2> QED
    BY <1>1, <2>1, <2>2, Zenon
<1>3. PICK d \in Seq({"activated", "expired"}) : d = News(r, q)
  BY <1>2
<1>4. s \o d \in Seq({"activated", "expired"})
  OBVIOUS
<1> QED
  BY <1>3, <1>4

-----------------------------------------------------------------------------
(* Steps of a session. *)

Sessions == [Procs -> [Listings -> Row]]
Records  == [Procs -> [Listings -> Seq({"activated", "expired"})]]

\* Nobody else's session changes.
OthersKeep(p) ==
    \A q \in Procs \ {p} :
       /\ pc'[q] = pc[q] /\ at'[q] = at[q] /\ batch'[q] = batch[q] /\ todo'[q] = todo[q]
       /\ moment'[q] = moment[q] /\ read'[q] = read[q] /\ copy'[q] = copy[q]
       /\ news'[q] = news[q]

LEMMA EndFacts ==
    ASSUME TypeOK, NEW p \in Procs, End(p)
    PROVE  /\ lock' \in [Listings -> Procs \cup {NoProc}]
           /\ \A l \in Listings : lock'[l] = IF lock[l] = p THEN NoProc ELSE lock[l]
           /\ pc' \in [Procs -> Steps] /\ pc'[p] \in {"idle", "done"}
           /\ at' \in [Procs -> Listings \cup {NoListing}]
           /\ batch' \in [Procs -> SUBSET Listings] /\ batch'[p] = {}
           /\ todo' \in [Procs -> SUBSET Listings] /\ todo'[p] = {}
           /\ moment' \in [Procs -> 0 .. MaxTime] /\ moment'[p] = 0
           /\ read' \in Sessions /\ \A l \in Listings : read'[p][l] = New
           /\ copy' \in Sessions /\ \A l \in Listings : copy'[p][l] = New
           /\ news' \in Records /\ \A l \in Listings : news'[p][l] = <<>>
           /\ OthersKeep(p)
<1>1. PICK n \in Row : n = New
  BY NewIsRow
<1>2. /\ lock' \in [Listings -> Procs \cup {NoProc}]
      /\ \A l \in Listings : lock'[l] = IF lock[l] = p THEN NoProc ELSE lock[l]
  BY DEF TypeOK, End
<1>3. /\ pc' \in [Procs -> Steps] /\ pc'[p] \in {"idle", "done"}
      /\ at' \in [Procs -> Listings \cup {NoListing}]
  BY DEF TypeOK, End, Steps
<1>4. /\ batch' \in [Procs -> SUBSET Listings] /\ batch'[p] = {}
      /\ todo' \in [Procs -> SUBSET Listings] /\ todo'[p] = {}
      /\ moment' \in [Procs -> 0 .. MaxTime] /\ moment'[p] = 0
  BY Numbers DEF TypeOK, End
<1>5. /\ read' \in Sessions /\ \A l \in Listings : read'[p][l] = n
      /\ copy' \in Sessions /\ \A l \in Listings : copy'[p][l] = n
  BY <1>1 DEF TypeOK, End, Sessions
<1>6. news' \in Records /\ \A l \in Listings : news'[p][l] = <<>>
  BY DEF TypeOK, End, Records
<1>7. OthersKeep(p)
  BY DEF TypeOK, End, OthersKeep
<1> QED
  BY <1>1, <1>2, <1>3, <1>4, <1>5, <1>6, <1>7

\* A listing of the session is changed.
LEMMA CopyFacts ==
    ASSUME TypeOK, NEW p \in Procs, NEW l \in Listings, NEW r \in Row,
           copy' = [copy EXCEPT ![p][l] = r]
    PROVE  /\ copy' \in Sessions /\ copy'[p][l] = r
           /\ \A k \in Listings \ {l} : copy'[p][k] = copy[p][k]
           /\ \A q \in Procs \ {p} : copy'[q] = copy[q]
BY DEF TypeOK, Sessions

LEMMA NewsFacts ==
    ASSUME TypeOK, NEW p \in Procs, NEW l \in Listings, NEW r, NEW q,
           news' = [news EXCEPT ![p][l] = @ \o News(r, q)]
    PROVE  /\ news' \in Records /\ news'[p][l] = news[p][l] \o News(r, q)
           /\ \A k \in Listings \ {l} : news'[p][k] = news[p][k]
           /\ \A o \in Procs \ {p} : news'[o] = news[o]
<1>1. news[p][l] \o News(r, q) \in Seq({"activated", "expired"})
  BY NewsType DEF TypeOK
<1> QED
  BY <1>1 DEF TypeOK, Records

\* A crawl begins.
LEMMA CrawlsFacts ==
    ASSUME TypeOK, NEW p \in Procs, NEW l \in Listings, NEW r \in Row, Crawls(p, l, r)
    PROVE  /\ pc' \in [Procs -> Steps] /\ pc'[p] = "crawl"
           /\ at' \in [Procs -> Listings \cup {NoListing}] /\ at'[p] = l
           /\ todo' \in [Procs -> SUBSET Listings] /\ todo'[p] = todo[p] \ {l}
           /\ copy' \in Sessions
           /\ copy'[p][l] = [r EXCEPT !.worker = p, !.lease = Never]
           /\ \A k \in Listings \ {l} : copy'[p][k] = copy[p][k]
           /\ \A q \in Procs \ {p} :
                 /\ pc'[q] = pc[q] /\ at'[q] = at[q] /\ todo'[q] = todo[q]
                 /\ copy'[q] = copy[q]
<1>1. PICK c \in Row : c = [r EXCEPT !.worker = p, !.lease = Never]
  BY RowTypes, NeverIsTime
<1>2. copy' = [copy EXCEPT ![p][l] = c]
  BY <1>1 DEF Crawls
<1>3. /\ copy' \in Sessions /\ copy'[p][l] = c
      /\ \A k \in Listings \ {l} : copy'[p][k] = copy[p][k]
      /\ \A q \in Procs \ {p} : copy'[q] = copy[q]
  BY <1>2, CopyFacts
<1>4. /\ pc' \in [Procs -> Steps] /\ pc'[p] = "crawl"
      /\ at' \in [Procs -> Listings \cup {NoListing}] /\ at'[p] = l
      /\ todo' \in [Procs -> SUBSET Listings] /\ todo'[p] = todo[p] \ {l}
      /\ \A q \in Procs \ {p} : pc'[q] = pc[q] /\ at'[q] = at[q] /\ todo'[q] = todo[q]
  BY DEF TypeOK, Crawls, Steps
<1> QED
  BY <1>1, <1>3, <1>4

-----------------------------------------------------------------------------
(* LockInv. *)

LEMMA LockInit == Init => LockInv
<1> SUFFICES ASSUME Init PROVE LockInv
  OBVIOUS
<1>1. PICK n \in Row : n = New /\ Unclaimed(n)
  BY NewIsRow
<1>2. row = [l \in Listings |-> n] /\ read = [p \in Procs |-> [l \in Listings |-> n]]
      /\ copy = [p \in Procs |-> [l \in Listings |-> n]]
  BY <1>1 DEF Init
<1>3. TypeOK
  BY <1>2, Numbers DEF Init, TypeOK
<1>4. Placed /\ Held
  BY DEF Init, Placed, Held
<1>5. Private
  BY <1>1, <1>2 DEF Init, Private
<1> QED
  BY <1>3, <1>4, <1>5 DEF LockInv

\* A transaction ends.
LEMMA LockEnds ==
    ASSUME LockInv, NEW p \in Procs, End(p), row' \in [Listings -> Row],
           \A l \in Listings : Unclaimed(row'[l]), faults' \in 0 .. MaxFaults,
           UNCHANGED now
    PROVE  LockInv'
<1>1. TypeOK'
  BY EndFacts DEF LockInv, TypeOK, Steps, Sessions, Records
<1>2. Placed'
  BY EndFacts DEF LockInv, TypeOK, Placed, OthersKeep, Steps
<1>3. Held'
  <2>1. \A q \in Procs \ {p} : /\ batch'[q] = batch[q] /\ todo'[q] = todo[q]
                               /\ read'[q] = read[q] /\ copy'[q] = copy[q]
    BY EndFacts DEF LockInv, OthersKeep
  <2>2. batch'[p] = {} /\ todo'[p] = {}
    BY EndFacts DEF LockInv
  <2>3. \A l \in Listings : lock'[l] = IF lock[l] = p THEN NoProc ELSE lock[l]
    BY EndFacts DEF LockInv
  <2> QED
    BY <2>1, <2>2, <2>3, Names DEF LockInv, Held
<1>4. Private'
  <2>1. ASSUME NEW q \in Procs, NEW l \in Listings
        PROVE  /\ Unclaimed(read'[q][l])
               /\ l \in batch'[q] \ todo'[q] =>
                     Unclaimed(copy'[q][l]) \/ (pc'[q] = "crawl" /\ at'[q] = l)
    <3>1. CASE q = p
      BY <3>1, EndFacts, NewIsRow DEF LockInv
    <3>2. CASE q # p
      <4>1. /\ pc'[q] = pc[q] /\ at'[q] = at[q] /\ batch'[q] = batch[q]
            /\ todo'[q] = todo[q] /\ read'[q] = read[q] /\ copy'[q] = copy[q]
        BY <3>2, EndFacts DEF LockInv, OthersKeep
      <4> QED
        BY <4>1 DEF LockInv, Private
    <3> QED
      BY <3>1, <3>2
  <2> QED
    BY <2>1 DEF Private, Unclaimed
<1> QED
  BY <1>1, <1>2, <1>3, <1>4 DEF LockInv

LEMMA LockCommit ==
    ASSUME LockInv, NEW p \in Procs, Commit(p)
    PROVE  LockInv'
<1>1. ASSUME NEW l \in Listings PROVE row'[l] \in Row /\ Unclaimed(row'[l])
  <2>1. PICK a \in Row, b \in Row, r \in Row : a = read[p][l] /\ b = copy[p][l] /\ r = row[l]
    BY DEF LockInv, TypeOK
  <2>2. Unclaimed(r)
    BY <2>1 DEF LockInv, Private
  <2>3. CASE l \in batch[p]
    <3>1. Unclaimed(b)
      BY <2>1, <2>3 DEF LockInv, Private, Commit
    <3> QED
      BY <2>1, <2>2, <2>3, <3>1, MergedFacts DEF Commit
  <2>4. CASE l \notin batch[p]
    BY <2>1, <2>2, <2>4 DEF Commit
  <2> QED
    BY <2>3, <2>4
<1>2. row' \in [Listings -> Row]
  BY <1>1 DEF Commit
<1> QED
  BY <1>1, <1>2, LockEnds DEF Commit, LockInv, TypeOK

LEMMA LockRollback ==
    ASSUME LockInv, NEW p \in Procs, Abort(p) \/ GiveUp(p)
    PROVE  LockInv'
<1>1. End(p) /\ UNCHANGED <<now, row>> /\ faults' \in 0 .. MaxFaults
  BY Numbers DEF Abort, GiveUp, Rollback, LockInv, TypeOK
<1> QED
  BY <1>1, LockEnds DEF LockInv, TypeOK, Private

LEMMA LockFinish ==
    ASSUME LockInv, NEW p \in Procs, Finish(p)
    PROVE  LockInv'
<1>1. PICK l \in Listings : l = at[p] /\ l \in batch[p]
  BY DEF Finish, LockInv, TypeOK, Placed
<1>2. PICK o \in Outcomes(copy[p][l], now) :
        /\ copy' = [copy EXCEPT ![p][l] = o]
        /\ news' = [news EXCEPT ![p][l] = @ \o News(copy[p][l], o)]
  BY <1>1 DEF Finish
<1>3. o \in Row /\ Unclaimed(o)
  <2>1. PICK b \in Row : b = copy[p][l]
    BY DEF LockInv, TypeOK
  <2>2. now \in 0 .. MaxTime
    BY DEF LockInv, TypeOK
  <2> QED
    BY <1>2, <2>1, <2>2, OutcomeFacts DEF CheckedAs
<1>4. /\ copy' \in Sessions /\ copy'[p][l] = o
      /\ \A k \in Listings \ {l} : copy'[p][k] = copy[p][k]
      /\ \A q \in Procs \ {p} : copy'[q] = copy[q]
  BY <1>2, <1>3, CopyFacts DEF LockInv
<1>5. news' \in Records
  BY <1>2, NewsFacts DEF LockInv
<1>6. /\ pc' \in [Procs -> Steps] /\ pc'[p] = "next"
      /\ at' \in [Procs -> Listings \cup {NoListing}] /\ at'[p] = NoListing
      /\ \A q \in Procs \ {p} : pc'[q] = pc[q] /\ at'[q] = at[q]
  BY DEF Finish, LockInv, TypeOK, Steps
<1>7. UNCHANGED <<now, row, lock, batch, todo, moment, read, faults>>
  BY DEF Finish
<1>8. TypeOK'
  BY <1>4, <1>5, <1>6, <1>7 DEF LockInv, TypeOK, Steps, Sessions, Records
<1>9. Placed'
  BY <1>6, <1>7 DEF LockInv, Placed
<1>10. Held'
  BY <1>1, <1>4, <1>7 DEF LockInv, Held, Placed, Finish
<1>11. Private'
  BY <1>1, <1>3, <1>4, <1>6, <1>7 DEF LockInv, Private, Unclaimed
<1> QED
  BY <1>8, <1>9, <1>10, <1>11 DEF LockInv

\* A crawl of a listing of the batch that is locked.
LEMMA LockCrawls ==
    ASSUME LockInv, NEW p \in Procs, NEW l \in todo[p], NEW r \in Row, Crawls(p, l, r),
           pc[p] # "crawl", lock' \in [Listings -> Procs \cup {NoProc}], lock'[l] = p, lock[l] \in {p, NoProc},
           \A k \in Listings \ {l} : lock'[k] = lock[k],
           news' \in Records, UNCHANGED <<now, row, batch, moment, read, faults>>
    PROVE  LockInv'
<1>1. l \in Listings /\ l \in batch[p]
  BY DEF LockInv, TypeOK, Placed
<1>2. TypeOK'
  BY <1>1, CrawlsFacts DEF LockInv, TypeOK, Steps, Sessions, Records
<1>3. /\ pc'[p] = "crawl" /\ at'[p] = l /\ todo'[p] = todo[p] \ {l}
      /\ \A k \in Listings \ {l} : copy'[p][k] = copy[p][k]
      /\ \A q \in Procs \ {p} : /\ pc'[q] = pc[q] /\ at'[q] = at[q] /\ todo'[q] = todo[q]
                               /\ copy'[q] = copy[q]
  BY <1>1, CrawlsFacts DEF LockInv
<1>4. Placed'
  BY <1>1, <1>3 DEF LockInv, Placed
<1>5. Held'
  <2>1. ASSUME NEW q \in Procs, NEW k \in Listings
        PROVE  /\ k \in batch'[q] /\ (q \in Sweepers \/ k \notin todo'[q]) => lock'[k] = q
               /\ q \in Refreshes /\ k \in todo'[q] => copy'[q][k] = read'[q][k]
    <3>1. CASE q = p
      BY <1>1, <1>3, <3>1 DEF LockInv, Held
    <3>2. CASE q # p
      BY <1>1, <1>3, <3>2, Names DEF LockInv, Held
    <3> QED
      BY <3>1, <3>2
  <2> QED
    BY <2>1 DEF Held
<1>6. Private'
  BY <1>3 DEF LockInv, Private, Unclaimed
<1> QED
  BY <1>2, <1>4, <1>5, <1>6 DEF LockInv

LEMMA LockLook ==
    ASSUME LockInv, NEW s \in Sweepers, Look(s)
    PROVE  LockInv'
<1>1. s \in Procs /\ pc[s] = "next"
  BY DEF Look, Procs
<1>2. PICK l \in todo[s] :
        /\ Crawls(s, l, WallClock(copy[s][l], moment[s]))
        /\ news' = [news EXCEPT ![s][l] = @ \o News(copy[s][l], WallClock(copy[s][l], moment[s]))]
  BY DEF Look
<1>3. l \in Listings /\ l \in batch[s] /\ lock[l] = s
  BY <1>1 DEF LockInv, TypeOK, Placed, Held
<1>4. PICK r \in Row : r = WallClock(copy[s][l], moment[s])
  <2>1. PICK b \in Row, t \in 0 .. MaxTime : b = copy[s][l] /\ t = moment[s]
    BY <1>1, <1>3 DEF LockInv, TypeOK
  <2> QED
    BY <2>1, WallClockFacts
<1>5. news' \in Records
  BY <1>1, <1>2, <1>3, NewsFacts DEF LockInv
<1> QED
  BY <1>1, <1>2, <1>3, <1>4, <1>5, LockCrawls DEF Look, LockInv, TypeOK

\* No claim is ever seen, so no refresh defers to one.
LEMMA LockLock ==
    ASSUME LockInv, NEW c \in Refreshes, Lock(c)
    PROVE  LockInv'
<1>1. c \in Procs /\ pc[c] = "wait"
  BY DEF Lock, Procs
<1>2. PICK l \in todo[c] : l = at[c] /\ l \in Listings /\ lock[l] = NoProc
  BY <1>1 DEF Lock, LockInv, TypeOK, Placed
<1>3. PICK r \in Row : r = copy[c][l] /\ r.lease = Never
  BY <1>1, <1>2 DEF LockInv, TypeOK, Held, Private, Unclaimed
<1>4. /\ lock' = [lock EXCEPT ![l] = c] /\ Crawls(c, l, r)
      /\ UNCHANGED <<now, row, batch, moment, read, news, faults>>
  BY <1>2, <1>3 DEF Lock
<1> QED
  BY <1>1, <1>2, <1>3, <1>4, LockCrawls DEF LockInv, TypeOK, Records

\* A transaction begins.
LEMMA LoadsFacts ==
    ASSUME TypeOK, NEW p \in Procs, NEW B \in SUBSET Listings, Loads(p, B)
    PROVE  /\ pc' \in [Procs -> Steps] /\ pc'[p] = "next"
           /\ batch' \in [Procs -> SUBSET Listings] /\ batch'[p] = B
           /\ todo' \in [Procs -> SUBSET Listings] /\ todo'[p] = B
           /\ read' \in Sessions
           /\ \A l \in Listings : read'[p][l] = IF l \in B THEN row[l] ELSE New
           /\ \A q \in Procs \ {p} : /\ pc'[q] = pc[q] /\ batch'[q] = batch[q]
                                     /\ todo'[q] = todo[q] /\ read'[q] = read[q]
<1>1. PICK n \in Row : n = New
  BY NewIsRow
<1>2. [l \in Listings |-> IF l \in B THEN row[l] ELSE n] \in [Listings -> Row]
  BY DEF TypeOK
<1>3. PICK f \in [Listings -> Row] : f = [l \in Listings |-> IF l \in B THEN row[l] ELSE n]
  BY <1>2
<1>4. read' = [read EXCEPT ![p] = f]
  BY <1>1, <1>3 DEF Loads
<1>5. read' \in Sessions /\ read'[p] = f /\ \A q \in Procs \ {p} : read'[q] = read[q]
  BY <1>4 DEF TypeOK, Sessions
<1>6. \A l \in Listings : read'[p][l] = IF l \in B THEN row[l] ELSE New
  BY <1>1, <1>3, <1>5
<1>7. /\ pc' \in [Procs -> Steps] /\ pc'[p] = "next"
      /\ batch' \in [Procs -> SUBSET Listings] /\ batch'[p] = B
      /\ todo' \in [Procs -> SUBSET Listings] /\ todo'[p] = B
      /\ \A q \in Procs \ {p} : pc'[q] = pc[q] /\ batch'[q] = batch[q] /\ todo'[q] = todo[q]
  BY DEF TypeOK, Loads, Steps
<1> QED
  BY <1>5, <1>6, <1>7

LEMMA LockLoads ==
    ASSUME LockInv, NEW p \in Procs, NEW B \in SUBSET Listings, Loads(p, B),
           lock' \in [Listings -> Procs \cup {NoProc}],
           p \in Sweepers => \A l \in B : lock[l] = NoProc /\ lock'[l] = p,
           \A l \in Listings : lock'[l] = lock[l] \/ (p \in Sweepers /\ l \in B),
           copy' \in Sessions, \A q \in Procs \ {p} : copy'[q] = copy[q],
           p \in Refreshes => copy'[p] = read'[p],
           moment' \in [Procs -> 0 .. MaxTime], UNCHANGED <<now, row, at, news, faults>>
    PROVE  LockInv'
<1>1. /\ pc'[p] = "next" /\ batch'[p] = B /\ todo'[p] = B
      /\ \A q \in Procs \ {p} : /\ pc'[q] = pc[q] /\ batch'[q] = batch[q]
                                /\ todo'[q] = todo[q] /\ read'[q] = read[q]
  BY LoadsFacts DEF LockInv
<1>2. \A l \in Listings : Unclaimed(read'[p][l])
  <2>1. ASSUME NEW l \in Listings PROVE Unclaimed(read'[p][l])
    <3>1. read'[p][l] \in {row[l], New}
      BY LoadsFacts DEF LockInv
    <3>2. Unclaimed(row[l]) /\ Unclaimed(New)
      BY NewIsRow DEF LockInv, Private
    <3> QED
      BY <3>1, <3>2
  <2> QED
    BY <2>1
<1>3. TypeOK'
  BY LoadsFacts DEF LockInv, TypeOK, Steps, Sessions
<1>4. Placed'
  BY <1>1 DEF LockInv, Placed
<1>5. Held'
  <2>1. ASSUME NEW q \in Procs, NEW k \in Listings
        PROVE  /\ k \in batch'[q] /\ (q \in Sweepers \/ k \notin todo'[q]) => lock'[k] = q
               /\ q \in Refreshes /\ k \in todo'[q] => copy'[q][k] = read'[q][k]
    <3>1. CASE q = p
      BY <1>1, <3>1
    <3>2. CASE q # p
      BY <1>1, <3>2, Names DEF LockInv, Held
    <3> QED
      BY <3>1, <3>2
  <2> QED
    BY <2>1 DEF Held
<1>6. Private'
  BY <1>1, <1>2 DEF LockInv, Private, Unclaimed
<1> QED
  BY <1>3, <1>4, <1>5, <1>6 DEF LockInv

LEMMA LockClaim ==
    ASSUME LockInv, NEW s \in Sweepers, Claim(s)
    PROVE  LockInv'
<1>1. s \in Procs /\ s \notin Refreshes /\ UNCHANGED <<now, row, at, news, faults>>
  BY Names DEF Claim, Procs
<1>2. PICK B \in SUBSET Listings :
        /\ B \subseteq Available /\ Loads(s, B)
        /\ lock' = [l \in Listings |-> IF l \in B THEN s ELSE lock[l]]
        /\ copy' = [copy EXCEPT ![s] =
               [l \in Listings |->
                   IF l \in B THEN [row[l] EXCEPT !.worker = s, !.lease = now + Lease]
                              ELSE New]]
  BY DEF Claim, Available
<1>3. /\ lock' \in [Listings -> Procs \cup {NoProc}]
      /\ \A l \in B : lock[l] = NoProc /\ lock'[l] = s
      /\ \A l \in Listings : lock'[l] = lock[l] \/ l \in B
  BY <1>1, <1>2 DEF Available, LockInv, TypeOK
<1>4. copy' \in Sessions /\ \A q \in Procs \ {s} : copy'[q] = copy[q]
  <2> DEFINE f == [l \in Listings |->
                      IF l \in B THEN [row[l] EXCEPT !.worker = s, !.lease = now + Lease]
                                 ELSE New]
  <2>1. PICK t \in Time : t = now + Lease
    BY Numbers DEF LockInv, TypeOK, Time
  <2>2. ASSUME NEW l \in Listings PROVE f[l] \in Row
    <3>1. PICK r \in Row : r = row[l]
      BY DEF LockInv, TypeOK
    <3>2. [r EXCEPT !.worker = s, !.lease = t] \in Row /\ New \in Row
      BY <1>1, RowTypes, NewIsRow
    <3>3. f[l] \in {[r EXCEPT !.worker = s, !.lease = t], New}
      BY <2>1, <3>1
    <3> HIDE DEF f
    <3> QED
      BY <3>2, <3>3
  <2>3. f \in [Listings -> Row]
    BY <2>2
  <2> HIDE DEF f
  <2>4. copy' = [copy EXCEPT ![s] = f]
    BY <1>2 DEF f
  <2> QED
    BY <1>1, <2>3, <2>4 DEF LockInv, TypeOK, Sessions
<1>5. moment' \in [Procs -> 0 .. MaxTime]
  BY DEF Claim, LockInv, TypeOK
<1> QED
  BY <1>1, <1>2, <1>3, <1>4, <1>5, LockLoads

LEMMA LockLoad ==
    ASSUME LockInv, NEW c \in Refreshes, Load(c)
    PROVE  LockInv'
<1>1. c \in Procs /\ c \notin Sweepers /\ UNCHANGED <<now, row, lock, at, moment, news, faults>>
  BY Names DEF Load, Procs
<1>2. PICK B \in SUBSET Listings : Loads(c, B) /\ copy' = [copy EXCEPT ![c] = read'[c]]
  BY MonitorAssumption DEF Load
<1>3. read' \in Sessions
  BY <1>1, <1>2, LoadsFacts DEF LockInv
<1>4. /\ copy' \in Sessions /\ copy'[c] = read'[c]
      /\ \A q \in Procs \ {c} : copy'[q] = copy[q]
  BY <1>1, <1>2, <1>3 DEF LockInv, TypeOK, Sessions
<1> QED
  BY <1>1, <1>2, <1>4, LockLoads DEF LockInv, TypeOK

LEMMA LockChoose ==
    ASSUME LockInv, NEW c \in Refreshes, Choose(c)
    PROVE  LockInv'
<1>1. c \in Procs /\ pc[c] = "next"
      /\ UNCHANGED <<now, row, lock, batch, todo, moment, read, copy, news, faults>>
  BY DEF Choose, Procs
<1>2. PICK l \in todo[c] : l \in Listings /\ at' = [at EXCEPT ![c] = l]
  BY <1>1 DEF Choose, LockInv, TypeOK
<1>3. /\ pc' \in [Procs -> Steps] /\ pc'[c] = "wait"
      /\ at' \in [Procs -> Listings \cup {NoListing}] /\ at'[c] = l
      /\ \A q \in Procs \ {c} : pc'[q] = pc[q] /\ at'[q] = at[q]
  BY <1>1, <1>2 DEF Choose, LockInv, TypeOK, Steps
<1>4. TypeOK'
  BY <1>1, <1>3 DEF LockInv, TypeOK, Steps
<1>5. Placed' /\ Held'
  BY <1>1, <1>3 DEF LockInv, Placed, Held
<1>6. Private'
  BY <1>1, <1>3 DEF LockInv, Private, Unclaimed
<1> QED
  BY <1>4, <1>5, <1>6 DEF LockInv

LEMMA LockNext == LockInv /\ [Next]_vars => LockInv'
<1> SUFFICES ASSUME LockInv, [Next]_vars PROVE LockInv'
  OBVIOUS
<1>1. CASE Tick
  <2>1. now' \in 0 .. MaxTime
    BY <1>1, Numbers DEF Tick, LockInv, TypeOK
  <2>2. TypeOK'
    BY <1>1, <2>1 DEF Tick, LockInv, TypeOK, process
  <2>3. Placed' /\ Held' /\ Private'
    BY <1>1 DEF Tick, LockInv, Placed, Held, Private, Unclaimed, process
  <2> QED
    BY <2>2, <2>3 DEF LockInv
<1>2. ASSUME NEW s \in Sweepers, SweepStep(s) PROVE LockInv'
  BY <1>2, LockClaim, LockLook, LockFinish, LockCommit DEF SweepStep, Procs
<1>3. ASSUME NEW c \in Refreshes, Load(c) \/ CallStep(c) PROVE LockInv'
  BY <1>3, LockLoad, LockChoose, LockLock, LockRollback, LockFinish, LockCommit
     DEF CallStep, Procs
<1>4. ASSUME NEW p \in Procs, Abort(p) PROVE LockInv'
  BY <1>4, LockRollback
<1>5. CASE UNCHANGED vars
  BY <1>5 DEF LockInv, TypeOK, Placed, Held, Private, Unclaimed, vars, process
<1> QED
  BY <1>1, <1>2, <1>3, <1>4, <1>5 DEF Next, EmptySweep

\* The variables of the monitor keep their types: a next check is a time that
\* comes, or none.
THEOREM TypeCorrect == Spec => []TypeOK
<1>1. LockInv => TypeOK
  BY DEF LockInv
<1> QED
  BY <1>1, LockInit, LockNext, PTL DEF Spec

\* Two processes never look at the page of one listing at a time, and no claim
\* outlives the transaction that made it.
THEOREM ChecksExclusive == Spec => []ChecksAreExclusive
<1>1. LockInv => ChecksAreExclusive
  BY DEF LockInv, TypeOK, Placed, Held, Private, Unclaimed, ChecksAreExclusive,
         CrawlsAreExclusive, ClaimsStayPrivate
<1> QED
  BY <1>1, LockInit, LockNext, PTL DEF Spec

-----------------------------------------------------------------------------
(* SessionInv. *)

\* A listing that a session read (a), has now (b), and that the row is now (r):
\* what was removed stays removed.
Watches(a, b, r) ==
    /\ Sound(a) /\ Sound(b)
    /\ a.status = "removed" => b.status = "removed" /\ r.status = "removed"

\* A promotion that the session has expired has ended by t.
Ended(a, b, t) == b.promo = "expired" /\ a.promo # "expired" => b.expires <= t

\* The first event recorded says what the promotion was.
Told(a, b, n) ==
    /\ n = <<>> => (b.promo = "active" <=> a.promo = "active")
    /\ n # <<>> => (Head(n) = "expired" <=> a.promo = "active")

\* The rows of a sweep are as it has read them.
Session(p, l) ==
    /\ Watches(read[p][l], copy[p][l], row[l])
    /\ l \notin batch[p] => news[p][l] = <<>>
    /\ p \in Sweepers => /\ l \in batch[p] => row[l] = read[p][l]
                         /\ Ended(read[p][l], copy[p][l], now)
                         /\ Told(read[p][l], copy[p][l], news[p][l])

SessionInv ==
    /\ LockInv
    /\ \A l \in Listings : Sound(row[l])
    /\ \A p \in Procs : moment[p] <= now /\ (pc[p] \in {"idle", "done"} => batch[p] = {})
    /\ \A p \in Procs, l \in Listings : Session(p, l)

\* Sessions that a step leaves alone, and those that begin.
LEMMA SessionStays ==
    ASSUME SessionInv, LockInv', NEW q \in Procs, NEW l \in Listings,
           read'[q] = read[q], copy'[q] = copy[q], news'[q] = news[q], batch'[q] = batch[q],
           now' \in {now, now + 1},
           row'[l] = row[l] \/ /\ lock[l] # q
                               /\ row[l].status = "removed" => row'[l].status = "removed"
    PROVE  Session(q, l)'
<1>1. PICK a \in Row, b \in Row, r \in Row : a = read[q][l] /\ b = copy[q][l] /\ r = row[l]
  BY DEF SessionInv, LockInv, TypeOK
<1>2. q \in Sweepers /\ l \in batch[q] => row'[l] = row[l]
  BY DEF SessionInv, LockInv, Held
<1>3. Watches(a, b, row'[l])
  BY <1>1 DEF SessionInv, Session, Watches
<1>4. q \in Sweepers => Ended(a, b, now')
  <2>1. q \in Sweepers => Ended(a, b, now)
    BY <1>1 DEF SessionInv, Session
  <2>2. now \in Nat /\ b.expires \in Nat
    BY Numbers DEF SessionInv, LockInv, TypeOK, Row, Time
  <2> QED
    BY <2>1, <2>2 DEF Ended
<1>5. q \in Sweepers => Told(a, b, news[q][l])
  BY <1>1 DEF SessionInv, Session
<1> QED
  BY <1>1, <1>2, <1>3, <1>4, <1>5 DEF SessionInv, Session, Watches, Ended, Told

LEMMA SessionBegins ==
    ASSUME LockInv', NEW p \in Procs, NEW l \in Listings, NEW a \in Row, NEW b \in Row,
           NEW r \in Row, a = read'[p][l], b = copy'[p][l], r = row'[l],
           Sound(a), b.status = a.status, b.watch = a.watch, b.next = a.next,
           b.promo = a.promo, a.status = "removed" => r.status = "removed",
           news'[p][l] = <<>>, p \in Sweepers /\ l \in batch'[p] => r = a
    PROVE  Session(p, l)'
<1>1. Watches(a, b, r)
  BY DEF Watches, Sound
<1>2. Ended(a, b, now') /\ Told(a, b, <<>>)
  BY DEF Ended, Told
<1> QED
  BY <1>1, <1>2 DEF Session, Watches, Ended, Told, Sound

\* A transaction ends.
LEMMA SessionEnds ==
    ASSUME SessionInv, LockInv', NEW p \in Procs, End(p), UNCHANGED now,
           \A l \in Listings :
              /\ Sound(row'[l])
              /\ \/ row'[l] = row[l]
                 \/ lock[l] = p /\ (row[l].status = "removed" => row'[l].status = "removed")
    PROVE  SessionInv'
<1>1. ASSUME NEW q \in Procs
      PROVE  moment'[q] <= now' /\ (pc'[q] \in {"idle", "done"} => batch'[q] = {})
  <2>1. CASE q = p
    BY <2>1, EndFacts, Numbers DEF SessionInv, LockInv, TypeOK
  <2>2. CASE q # p
    BY <2>2, EndFacts DEF SessionInv, LockInv, OthersKeep
  <2> QED
    BY <2>1, <2>2
<1>2. ASSUME NEW q \in Procs, NEW l \in Listings PROVE Session(q, l)'
  <2>1. CASE q = p
    <3>1. /\ read'[p][l] = New /\ copy'[p][l] = New /\ news'[p][l] = <<>> /\ batch'[p] = {}
      BY EndFacts DEF SessionInv, LockInv
    <3>2. PICK n \in Row : n = New /\ Sound(n) /\ n.status = "active"
      BY NewIsRow DEF New
    <3>3. PICK r \in Row : r = row'[l]
      BY DEF LockInv, TypeOK
    <3> QED
      BY <2>1, <3>1, <3>2, <3>3, SessionBegins
  <2>2. CASE q # p
    <3>1. /\ read'[q] = read[q] /\ copy'[q] = copy[q] /\ news'[q] = news[q]
          /\ batch'[q] = batch[q]
      BY <2>2, EndFacts DEF SessionInv, LockInv, OthersKeep
    <3>2. row'[l] = row[l] \/ /\ lock[l] # q
                              /\ row[l].status = "removed" => row'[l].status = "removed"
      BY <2>2
    <3> QED
      BY <3>1, <3>2, SessionStays
  <2> QED
    BY <2>1, <2>2
<1>3. \A l \in Listings : Sound(row[l])'
  BY DEF Sound
<1> QED
  BY <1>1, <1>2, <1>3 DEF SessionInv

LEMMA SessionCommit ==
    ASSUME SessionInv, LockInv', NEW p \in Procs, Commit(p)
    PROVE  SessionInv'
<1>1. ASSUME NEW l \in Listings
      PROVE  /\ Sound(row'[l])
             /\ \/ row'[l] = row[l]
                \/ lock[l] = p /\ (row[l].status = "removed" => row'[l].status = "removed")
  <2>1. CASE l \notin batch[p]
    BY <2>1 DEF Commit, SessionInv
  <2>2. CASE l \in batch[p]
    <3>1. PICK a \in Row, b \in Row, r \in Row : a = read[p][l] /\ b = copy[p][l] /\ r = row[l]
      BY DEF SessionInv, LockInv, TypeOK
    <3>2. Sound(r) /\ Watches(a, b, r)
      BY <3>1 DEF SessionInv, Session
    <3>3. PICK m \in Row : m = Merged(p, l)
      BY <3>1, MergedFacts
    <3>4. /\ m.status = IF b.status # a.status THEN b.status ELSE r.status
          /\ m.watch = IF b.watch # a.watch THEN b.watch ELSE r.watch
          /\ b.status = a.status /\ r.next # Never /\ b.next # Never => m.next # Never
      BY <3>1, <3>3, MergedFacts
    <3>5. /\ a.status \in {"active", "removed"} /\ a.watch \in {"on", "off"}
          /\ b.status \in {"active", "removed"} /\ b.watch \in {"on", "off"}
          /\ r.status \in {"active", "removed"} /\ r.watch \in {"on", "off"}
      BY DEF Row
    <3>6. Sound(m) /\ (r.status = "removed" => m.status = "removed")
      BY <3>2, <3>4, <3>5 DEF Watches, Sound
    <3>7. row'[l] = m /\ lock[l] = p
      BY <2>2, <3>3 DEF Commit, SessionInv, LockInv, Held
    <3> QED
      BY <3>1, <3>6, <3>7
  <2> QED
    BY <2>1, <2>2
<1> QED
  BY <1>1, SessionEnds DEF Commit

LEMMA SessionRollback ==
    ASSUME SessionInv, LockInv', NEW p \in Procs, Abort(p) \/ GiveUp(p)
    PROVE  SessionInv'
<1>1. End(p) /\ UNCHANGED <<now, row>>
  BY DEF Abort, GiveUp, Rollback
<1> QED
  BY <1>1, SessionEnds DEF SessionInv

\* A session changes one listing of its batch.
LEMMA SessionChanges ==
    ASSUME SessionInv, LockInv', NEW p \in Procs, NEW l \in Listings, pc'[p] \in {"next", "crawl"},
           Session(p, l)',
           \A k \in Listings \ {l} : copy'[p][k] = copy[p][k] /\ news'[p][k] = news[p][k],
           \A q \in Procs \ {p} : copy'[q] = copy[q] /\ news'[q] = news[q] /\ pc'[q] = pc[q],
           UNCHANGED <<now, row, batch, moment, read>>
    PROVE  SessionInv'
<1>1. ASSUME NEW q \in Procs, NEW k \in Listings PROVE Session(q, k)'
  <2>1. CASE q = p /\ k = l
    BY <2>1
  <2>2. CASE q = p /\ k # l
    <3>1. Session(q, k)
      BY DEF SessionInv
    <3>2. copy'[q][k] = copy[q][k] /\ news'[q][k] = news[q][k]
      BY <2>2
    <3> QED
      BY <3>1, <3>2 DEF Session, Watches, Ended, Told, Sound
  <2>3. CASE q # p
    BY <2>3, SessionStays
  <2> QED
    BY <2>1, <2>2, <2>3
<1>2. \A k \in Listings : Sound(row[k])'
  BY DEF SessionInv, Sound
<1>3. \A q \in Procs : moment'[q] <= now' /\ (pc'[q] \in {"idle", "done"} => batch'[q] = {})
  BY DEF SessionInv
<1> QED
  BY <1>1, <1>2, <1>3 DEF SessionInv

\* How the session's listing b may become c, when n is recorded.
LEMMA SessionAdvances ==
    ASSUME SessionInv, NEW p \in Procs, NEW l \in batch[p], l \in Listings, NEW b \in Row,
           NEW c \in Row, b = copy[p][l], c = copy'[p][l],
           Sound(b) => Sound(c), b.status = "removed" => c.status = "removed",
           b.promo = "active" => c.promo # "none",
           p \in Sweepers =>
              /\ news'[p][l] = news[p][l] \o News(b, c)
              /\ c.promo = "expired" =>
                    c.expires <= now \/ (b.promo = "expired" /\ c.expires = b.expires),
           UNCHANGED <<now, row, batch, read>>
    PROVE  Session(p, l)'
<1>1. PICK a \in Row, r \in Row : a = read[p][l] /\ r = row[l]
  BY DEF SessionInv, LockInv, TypeOK
<1>2. Watches(a, b, r)
  BY <1>1 DEF SessionInv, Session
<1>3. Watches(a, c, r)
  BY <1>2 DEF Watches
<1>4. ASSUME p \in Sweepers PROVE r = a /\ Ended(a, c, now) /\ Told(a, c, news'[p][l])
  <2>1. r = a /\ Ended(a, b, now) /\ Told(a, b, news[p][l])
    BY <1>1, <1>4 DEF SessionInv, Session
  <2>2. Ended(a, c, now)
    BY <1>4, <2>1 DEF Ended
  <2>3. PICK n \in Seq({"activated", "expired"}) : n = news[p][l]
    BY DEF SessionInv, LockInv, TypeOK
  <2>4. /\ News(b, c) = <<"activated">> /\ b.promo # "active" /\ c.promo = "active"
        \/ /\ News(b, c) = <<"expired">> /\ b.promo = "active" /\ c.promo = "expired"
        \/ /\ News(b, c) = <<>> /\ (b.promo = "active" <=> c.promo = "active")
    <3>1. c.promo \in {"none", "active", "expired"}
      BY DEF Row
    <3> QED
      BY <3>1, Zenon DEF News
  <2>5. Told(a, c, n \o News(b, c))
    <3>1. CASE n = <<>>
      <4>1. n \o News(b, c) = News(b, c)
        BY <2>4, <3>1
      <4>2. Told(a, b, <<>>)
        BY <2>1, <2>3, <3>1
      <4>3. <<"activated">> # <<>> /\ <<"expired">> # <<>>
            /\ Head(<<"activated">>) = "activated" /\ Head(<<"expired">>) = "expired"
        OBVIOUS
      <4> QED
        BY <2>4, <4>1, <4>2, <4>3 DEF Told
    <3>2. CASE n # <<>>
      <4>1. n \o News(b, c) # <<>> /\ Head(n \o News(b, c)) = Head(n)
        BY <2>4, <3>2
      <4> QED
        BY <2>1, <2>3, <3>2, <4>1 DEF Told
    <3> QED
      BY <3>1, <3>2
  <2> QED
    BY <1>4, <2>1, <2>2, <2>3, <2>5
<1> QED
  BY <1>1, <1>3, <1>4 DEF Session, Watches, Ended, Told, Sound

\* The steps of a crawl.
LEMMA SessionFinish ==
    ASSUME SessionInv, LockInv', NEW p \in Procs, Finish(p)
    PROVE  SessionInv'
<1>0. TypeOK
  BY DEF SessionInv, LockInv
<1>1. PICK l \in Listings : l = at[p] /\ l \in batch[p]
  BY DEF Finish, SessionInv, LockInv, TypeOK, Placed
<1>2. PICK o \in Outcomes(copy[p][l], now) :
        /\ copy' = [copy EXCEPT ![p][l] = o]
        /\ news' = [news EXCEPT ![p][l] = @ \o News(copy[p][l], o)]
  BY <1>1 DEF Finish
<1>3. PICK b \in Row, t \in 0 .. MaxTime : b = copy[p][l] /\ t = now
  BY DEF SessionInv, LockInv, TypeOK
<1>4. /\ o \in Row
      /\ Sound(b) => Sound(o)
      /\ b.status = "removed" => o.status = "removed"
      /\ b.promo = "active" => o.promo # "none"
      /\ o.promo = "expired" => o.expires <= now \/ (b.promo = "expired" /\ o.expires = b.expires)
  <2>1. CheckedAs(b, o, t)
    BY <1>2, <1>3, OutcomeFacts
  <2> QED
    BY <1>3, <2>1 DEF CheckedAs
<1>5. /\ copy'[p][l] = o
      /\ \A k \in Listings \ {l} : copy'[p][k] = copy[p][k]
      /\ \A q \in Procs \ {p} : copy'[q] = copy[q]
  <2>1. o \in Row
    BY <1>4
  <2> QED
    BY <1>0, <1>2, <2>1 DEF TypeOK
<1>6. /\ news'[p][l] = news[p][l] \o News(b, o)
      /\ \A k \in Listings \ {l} : news'[p][k] = news[p][k]
      /\ \A q \in Procs \ {p} : news'[q] = news[q]
  BY <1>0, <1>2, <1>3 DEF TypeOK
<1>7. UNCHANGED <<now, row, batch, moment, read>>
  BY DEF Finish
<1>8. Session(p, l)'
  <2>1. o \in Row /\ o = copy'[p][l] /\ l \in batch[p] /\ b = copy[p][l]
    BY <1>1, <1>3, <1>4, <1>5
  <2>2. /\ Sound(b) => Sound(o)
        /\ b.status = "removed" => o.status = "removed"
        /\ b.promo = "active" => o.promo # "none"
        /\ o.promo = "expired" =>
              o.expires <= now \/ (b.promo = "expired" /\ o.expires = b.expires)
    BY <1>4
  <2>3. /\ news'[p][l] = news[p][l] \o News(b, o)
        /\ UNCHANGED <<now, row, batch, read>>
    BY <1>6, <1>7
  <2> QED
    BY <2>1, <2>2, <2>3, SessionAdvances, ZenonT(60)
<1>9. pc'[p] = "next" /\ \A q \in Procs \ {p} : pc'[q] = pc[q]
  BY <1>0 DEF Finish, TypeOK
<1> QED
  BY <1>5, <1>6, <1>7, <1>8, <1>9, SessionChanges

\* The crawl of a listing that the session has changed to r.
LEMMA SessionCrawls ==
    ASSUME SessionInv, LockInv', NEW p \in Procs, NEW l \in todo[p], NEW b \in Row,
           NEW r \in Row, b = copy[p][l], Crawls(p, l, r),
           Sound(b) => Sound(r), b.status = "removed" => r.status = "removed",
           b.promo = "active" => r.promo # "none",
           p \in Sweepers =>
              /\ news' = [news EXCEPT ![p][l] = @ \o News(b, r)]
              /\ r.promo = "expired" =>
                    r.expires <= now \/ (b.promo = "expired" /\ r.expires = b.expires),
           p \notin Sweepers => UNCHANGED news,
           UNCHANGED <<now, row, batch, moment, read>>
    PROVE  SessionInv'
<1>0. TypeOK
  BY DEF SessionInv, LockInv
<1>1. l \in Listings /\ l \in batch[p]
  BY DEF SessionInv, LockInv, TypeOK, Placed
<1>2. PICK c \in Row : c = [r EXCEPT !.worker = p, !.lease = Never]
  BY RowTypes, NeverIsTime
<1>3. c.status = r.status /\ c.watch = r.watch /\ c.next = r.next
  BY <1>2 DEF Row
<1>4. c.promo = r.promo /\ c.expires = r.expires
  BY <1>2 DEF Row
<1>5. /\ pc'[p] = "crawl" /\ copy'[p][l] = c
      /\ \A k \in Listings \ {l} : copy'[p][k] = copy[p][k]
      /\ \A q \in Procs \ {p} : pc'[q] = pc[q] /\ copy'[q] = copy[q]
  <2>1. copy' = [copy EXCEPT ![p][l] = c] /\ pc' = [pc EXCEPT ![p] = "crawl"]
    BY <1>2 DEF Crawls
  <2> QED
    BY <1>0, <1>1, <2>1 DEF TypeOK
<1>6. News(b, c) = News(b, r)
  BY <1>4, Zenon DEF News
<1>7. p \in Sweepers => /\ news'[p][l] = news[p][l] \o News(b, c)
                        /\ \A k \in Listings \ {l} : news'[p][k] = news[p][k]
                        /\ \A q \in Procs \ {p} : news'[q] = news[q]
  <2> SUFFICES ASSUME p \in Sweepers
               PROVE  /\ news'[p][l] = news[p][l] \o News(b, c)
                      /\ \A k \in Listings \ {l} : news'[p][k] = news[p][k]
                      /\ \A q \in Procs \ {p} : news'[q] = news[q]
    OBVIOUS
  <2>1. PICK n : n = news[p][l] \o News(b, r)
    OBVIOUS
  <2>2. news' = [news EXCEPT ![p][l] = n]
    BY <2>1
  <2>3. news \in [Procs -> [Listings -> Seq({"activated", "expired"})]]
    BY <1>0 DEF TypeOK
  <2> QED
    BY <1>1, <1>6, <2>1, <2>2, <2>3
<1>8. /\ \A k \in Listings \ {l} : news'[p][k] = news[p][k]
      /\ \A q \in Procs \ {p} : news'[q] = news[q]
  BY <1>7
<1>9. /\ Sound(b) => Sound(c)
      /\ b.status = "removed" => c.status = "removed"
      /\ b.promo = "active" => c.promo # "none"
  BY <1>3, <1>4 DEF Sound
<1>10. p \in Sweepers =>
          (c.promo = "expired" =>
              c.expires <= now \/ (b.promo = "expired" /\ c.expires = b.expires))
  BY <1>4
<1>11. Session(p, l)'
  <2>1. l \in batch[p] /\ l \in Listings /\ c = copy'[p][l] /\ UNCHANGED <<now, row, batch, read>>
    BY <1>1, <1>5
  <2>2. p \in Sweepers =>
              /\ news'[p][l] = news[p][l] \o News(b, c)
              /\ c.promo = "expired" =>
                    c.expires <= now \/ (b.promo = "expired" /\ c.expires = b.expires)
    BY <1>7, <1>10
  <2>3. b = copy[p][l]
    OBVIOUS
  <2> QED
    BY <1>9, <2>1, <2>2, <2>3, SessionAdvances, ZenonT(60)
<1> QED
  BY <1>1, <1>5, <1>8, <1>11, SessionChanges

LEMMA SessionLook ==
    ASSUME SessionInv, LockInv', NEW s \in Sweepers, Look(s)
    PROVE  SessionInv'
<1>1. s \in Procs /\ UNCHANGED <<now, row, batch, moment, read>>
  BY DEF Look, Procs
<1>2. PICK l \in todo[s] :
        /\ Crawls(s, l, WallClock(copy[s][l], moment[s]))
        /\ news' = [news EXCEPT ![s][l] = @ \o News(copy[s][l], WallClock(copy[s][l], moment[s]))]
  BY DEF Look
<1>3. PICK b \in Row, t \in 0 .. MaxTime : b = copy[s][l] /\ t = moment[s]
  BY <1>1 DEF SessionInv, LockInv, TypeOK
<1>4. PICK r \in Row : r = WallClock(b, t)
  BY WallClockFacts
<1>5. /\ Sound(b) => Sound(r)
      /\ r.status = b.status
      /\ b.promo = "active" => r.promo # "none"
      /\ r.promo = "expired" => r.expires <= t \/ (b.promo = "expired" /\ r.expires = b.expires)
  BY <1>4, WallClockFacts
<1>6. r.promo = "expired" => r.expires <= now \/ (b.promo = "expired" /\ r.expires = b.expires)
  <2>1. t <= now /\ now \in Nat /\ r.expires \in Nat
    BY <1>1, <1>3, Numbers DEF SessionInv, LockInv, TypeOK, Row, Time
  <2> QED
    BY <1>5, <2>1
<1> QED
  BY <1>1, <1>2, <1>3, <1>4, <1>5, <1>6, SessionCrawls

LEMMA SessionLock ==
    ASSUME SessionInv, LockInv', NEW c \in Refreshes, Lock(c)
    PROVE  SessionInv'
<1>1. c \in Procs /\ c \notin Sweepers /\ pc[c] = "wait"
      /\ UNCHANGED <<now, row, batch, moment, read, news>>
  BY Names DEF Lock, Procs
<1>2. PICK l \in todo[c] : l = at[c] /\ l \in Listings
  BY <1>1 DEF SessionInv, LockInv, TypeOK, Placed
<1>3. PICK r \in Row : r = copy[c][l] /\ r.lease = Never
  BY <1>1, <1>2 DEF SessionInv, LockInv, TypeOK, Held, Private, Unclaimed
<1>4. Crawls(c, l, r)
  BY <1>2, <1>3 DEF Lock
<1>5. r.promo = "active" => r.promo # "none"
  OBVIOUS
<1> QED
  BY <1>1, <1>3, <1>4, <1>5, SessionCrawls

\* A transaction begins.
LEMMA SessionLoads ==
    ASSUME SessionInv, LockInv', NEW p \in Procs, pc[p] = "idle", NEW B \in SUBSET Listings,
           Loads(p, B), moment'[p] <= now,
           \A q \in Procs \ {p} : copy'[q] = copy[q] /\ moment'[q] = moment[q],
           \A l \in Listings : \E a \in Row, b \in Row :
              /\ a = read'[p][l] /\ b = copy'[p][l]
              /\ b.status = a.status /\ b.watch = a.watch /\ b.next = a.next
              /\ b.promo = a.promo,
           UNCHANGED <<now, row, news>>
    PROVE  SessionInv'
<1>1. /\ pc'[p] = "next" /\ batch'[p] = B
      /\ \A l \in Listings : read'[p][l] = IF l \in B THEN row[l] ELSE New
      /\ \A q \in Procs \ {p} : /\ pc'[q] = pc[q] /\ batch'[q] = batch[q]
                                /\ read'[q] = read[q]
  BY LoadsFacts DEF SessionInv, LockInv
<1>2. ASSUME NEW l \in Listings PROVE Session(p, l)'
  <2>1. PICK a \in Row, b \in Row : /\ a = read'[p][l] /\ b = copy'[p][l]
                                    /\ b.status = a.status /\ b.watch = a.watch
                                    /\ b.next = a.next /\ b.promo = a.promo
    OBVIOUS
  <2>2. PICK r \in Row, n \in Row :
          /\ r = row'[l] /\ Sound(r)
          /\ n = New /\ Sound(n) /\ n.status = "active"
    BY NewIsRow DEF SessionInv, LockInv, TypeOK, New
  <2>3. (l \in B /\ a = r) \/ (l \notin B /\ a = n)
    BY <1>1, <2>1, <2>2
  <2>4. news'[p][l] = <<>>
    BY DEF SessionInv, Session
  <2>5. Sound(a) /\ (a.status = "removed" => r.status = "removed")
    BY <2>2, <2>3
  <2> QED
    BY <1>1, <2>1, <2>2, <2>3, <2>4, <2>5, SessionBegins
<1>3. ASSUME NEW q \in Procs \ {p}, NEW l \in Listings PROVE Session(q, l)'
  BY <1>1, SessionStays
<1>4. \A q \in Procs : moment'[q] <= now' /\ (pc'[q] \in {"idle", "done"} => batch'[q] = {})
  BY <1>1 DEF SessionInv
<1>5. \A k \in Listings : Sound(row[k])'
  BY DEF SessionInv, Sound
<1> QED
  BY <1>2, <1>3, <1>4, <1>5 DEF SessionInv

LEMMA SessionClaim ==
    ASSUME SessionInv, LockInv', NEW s \in Sweepers, Claim(s)
    PROVE  SessionInv'
<1>0. TypeOK
  BY DEF SessionInv, LockInv
<1>1. s \in Procs /\ pc[s] = "idle" /\ UNCHANGED <<now, row, at, news, faults>>
  BY DEF Claim, Procs
<1>2. PICK B \in SUBSET Listings :
        /\ Loads(s, B)
        /\ copy' = [copy EXCEPT ![s] =
               [l \in Listings |->
                   IF l \in B THEN [row[l] EXCEPT !.worker = s, !.lease = now + Lease]
                              ELSE New]]
  BY DEF Claim, Available
<1>3. /\ \A l \in Listings : copy'[s][l] = IF l \in B THEN [row[l] EXCEPT !.worker = s, !.lease = now + Lease]
                              ELSE New
      /\ \A q \in Procs \ {s} : copy'[q] = copy[q]
  BY <1>1, <1>2 DEF SessionInv, LockInv, TypeOK
<1>4. \A l \in Listings : read'[s][l] = IF l \in B THEN row[l] ELSE New
  BY <1>0, <1>1, <1>2 DEF Loads, TypeOK
<1>5. ASSUME NEW l \in Listings
      PROVE  \E a \in Row, b \in Row :
                /\ a = read'[s][l] /\ b = copy'[s][l]
                /\ b.status = a.status /\ b.watch = a.watch /\ b.next = a.next
                /\ b.promo = a.promo
  <2>1. CASE l \in B
    <3>1. PICK r \in Row, t \in Time : r = row[l] /\ t = now + Lease
      BY Numbers DEF SessionInv, LockInv, TypeOK, Time
    <3>2. PICK b \in Row : b = [r EXCEPT !.worker = s, !.lease = t]
      BY <1>1, RowTypes
    <3>3. b.status = r.status /\ b.watch = r.watch
      BY <3>2 DEF Row
    <3>4. b.next = r.next /\ b.promo = r.promo
      BY <3>2 DEF Row
    <3>5. r = read'[s][l] /\ b = copy'[s][l]
      BY <1>3, <1>4, <2>1, <3>1, <3>2
    <3> QED
      BY <3>3, <3>4, <3>5
  <2>2. CASE l \notin B
    <3>1. PICK n \in Row : n = New
      BY NewIsRow
    <3> QED
      BY <1>3, <1>4, <2>2, <3>1
  <2> QED
    BY <2>1, <2>2
<1>6. moment'[s] = now /\ \A q \in Procs \ {s} : moment'[q] = moment[q]
  BY <1>1 DEF Claim, SessionInv, LockInv, TypeOK
<1>7. now <= now
  BY Numbers DEF SessionInv, LockInv, TypeOK
<1> QED
  BY <1>1, <1>2, <1>3, <1>5, <1>6, <1>7, SessionLoads

LEMMA SessionLoad ==
    ASSUME SessionInv, LockInv', NEW c \in Refreshes, Load(c)
    PROVE  SessionInv'
<1>1. c \in Procs /\ pc[c] = "idle" /\ UNCHANGED <<now, row, lock, at, moment, news, faults>>
  BY DEF Load, Procs
<1>2. PICK B \in SUBSET Listings : Loads(c, B) /\ copy' = [copy EXCEPT ![c] = read'[c]]
  BY MonitorAssumption DEF Load
<1>3. copy'[c] = read'[c] /\ \A q \in Procs \ {c} : copy'[q] = copy[q]
  BY <1>1, <1>2 DEF SessionInv, LockInv, TypeOK
<1>4. ASSUME NEW l \in Listings
      PROVE  \E a \in Row, b \in Row :
                /\ a = read'[c][l] /\ b = copy'[c][l]
                /\ b.status = a.status /\ b.watch = a.watch /\ b.next = a.next
                /\ b.promo = a.promo
  <2>1. PICK a \in Row : a = read'[c][l]
    BY <1>1 DEF LockInv, TypeOK
  <2> QED
    BY <1>3, <2>1
<1>5. moment'[c] <= now
  BY <1>1 DEF SessionInv
<1> QED
  BY <1>1, <1>2, <1>3, <1>4, <1>5, SessionLoads

\* Steps that leave every listing of every session alone.
LEMMA SessionRests ==
    ASSUME SessionInv, LockInv', now' \in {now, now + 1},
           UNCHANGED <<row, batch, moment, read, copy, news>>,
           \A p \in Procs : pc'[p] \in {"idle", "done"} => pc[p] \in {"idle", "done"}
    PROVE  SessionInv'
<1>1. \A p \in Procs : moment'[p] <= now' /\ (pc'[p] \in {"idle", "done"} => batch'[p] = {})
  <2>1. now \in Nat /\ \A p \in Procs : moment[p] \in Nat
    BY Numbers DEF SessionInv, LockInv, TypeOK
  <2> QED
    BY <2>1 DEF SessionInv
<1>2. \A k \in Listings : Sound(row[k])'
  BY DEF SessionInv, Sound
<1>3. ASSUME NEW p \in Procs, NEW l \in Listings PROVE Session(p, l)'
  BY SessionStays
<1> QED
  BY <1>1, <1>2, <1>3 DEF SessionInv

LEMMA SessionInit == Init => SessionInv
<1> SUFFICES ASSUME Init PROVE SessionInv
  OBVIOUS
<1>1. PICK n \in Row : n = New /\ Sound(n) /\ n.status = "active"
  BY NewIsRow DEF New
<1>2. /\ \A l \in Listings : row[l] = n
      /\ \A p \in Procs, l \in Listings :
            read[p][l] = n /\ copy[p][l] = n /\ news[p][l] = <<>>
      /\ \A p \in Procs : batch[p] = {} /\ moment[p] = 0
  BY <1>1 DEF Init
<1>3. now = 0
  BY DEF Init
<1>4. \A p \in Procs, l \in Listings : Session(p, l)
  BY <1>1, <1>2 DEF Session, Watches, Ended, Told
<1> QED
  BY <1>1, <1>2, <1>3, <1>4, LockInit DEF SessionInv

LEMMA SessionNext == SessionInv /\ [Next]_vars => SessionInv'
<1> SUFFICES ASSUME SessionInv, [Next]_vars PROVE SessionInv'
  OBVIOUS
<1>1. LockInv'
  BY LockNext DEF SessionInv
<1>2. CASE Tick \/ UNCHANGED vars
  BY <1>1, <1>2, SessionRests DEF Tick, vars, process
<1>3. ASSUME NEW s \in Sweepers, SweepStep(s) PROVE SessionInv'
  BY <1>1, <1>3, SessionClaim, SessionLook, SessionFinish, SessionCommit DEF SweepStep, Procs
<1>4. ASSUME NEW c \in Refreshes, Load(c) \/ CallStep(c) PROVE SessionInv'
  <2>1. CASE Choose(c)
    <3>1. \A p \in Procs : pc'[p] \in {"idle", "done"} => pc[p] \in {"idle", "done"}
      BY <2>1 DEF Choose, SessionInv, LockInv, TypeOK
    <3> QED
      BY <1>1, <2>1, <3>1, SessionRests DEF Choose
  <2> QED
    BY <1>1, <1>4, <2>1, SessionLoad, SessionLock, SessionRollback, SessionFinish, SessionCommit
       DEF CallStep, Procs
<1>5. ASSUME NEW p \in Procs, Abort(p) PROVE SessionInv'
  BY <1>1, <1>5, SessionRollback
<1> QED
  BY <1>2, <1>3, <1>4, <1>5 DEF Next, EmptySweep

\* No listing is lost to the scheduler and none comes back, whatever sweeps and
\* stale refreshes write over each other.
THEOREM WatchedScheduled == Spec => []WatchedIsScheduled
<1>1. SessionInv => WatchedIsScheduled
  BY DEF SessionInv, WatchedIsScheduled, Sound
<1> QED
  BY <1>1, SessionInit, SessionNext, PTL DEF Spec

\* The events that a sweep is about to commit continue the history.
THEOREM EventsContinue == Spec => []EventsContinueHistory
<1>1. SessionInv => EventsContinueHistory
  <2> SUFFICES ASSUME SessionInv, NEW s \in Sweepers, NEW l \in Listings, news[s][l] # <<>>
               PROVE  Head(news[s][l]) = "expired" <=> row[l].promo = "active"
    BY DEF EventsContinueHistory
  <2>1. Session(s, l)
    BY DEF SessionInv, Procs
  <2> QED
    BY <2>1 DEF Session, Told, Procs
<1> QED
  BY <1>1, SessionInit, SessionNext, PTL DEF Spec

\* A sweep marks a promotion expired only once its end has passed.
THEOREM SweepsKeepToTheEnd == Spec => SweepsExpireEnded
<1>1. SessionInv /\ [Next]_vars => SweepsExpireEndedStep
  <2> SUFFICES ASSUME SessionInv, [Next]_vars, NEW s \in Sweepers, NEW l \in Listings,
                      lock[l] = s, row[l].promo # "expired", row'[l].promo = "expired"
               PROVE  row'[l].expires <= now
    BY DEF SweepsExpireEndedStep
  <2>1. PICK p \in Procs : Commit(p) /\ l \in batch[p]
    <3>1. UNCHANGED row \/ \E p \in Procs : Commit(p)
      BY DEF Next, SweepStep, CallStep, Tick, EmptySweep, vars, Claim, Look, Load, Choose, Lock,
             Finish, Abort, GiveUp, Rollback, Procs
    <3> QED
      BY <3>1 DEF Commit
  <2>2. p = s
    BY <2>1 DEF Commit, SessionInv, LockInv, Held
  <2>3. PICK a \in Row, b \in Row, r \in Row : a = read[s][l] /\ b = copy[s][l] /\ r = row[l]
    BY <2>2 DEF SessionInv, LockInv, TypeOK
  <2>4. r = a /\ Ended(a, b, now)
    BY <2>1, <2>2, <2>3 DEF SessionInv, Session
  <2>5. row'[l] = Merged(s, l)
    BY <2>1, <2>2 DEF Commit
  <2>6. Merged(s, l).promo = b.promo /\ Merged(s, l).expires = b.expires
    BY <2>3, <2>4 DEF Merged
  <2>7. PICK m : m = Merged(s, l)
    OBVIOUS
  <2>8. m = row'[l] /\ m.promo = b.promo /\ m.expires = b.expires
    BY <2>5, <2>6, <2>7
  <2> QED
    BY <2>3, <2>4, <2>8 DEF Ended
<1> QED
  BY <1>1, SessionInit, SessionNext, PTL DEF Spec, SweepsExpireEnded

=============================================================================
