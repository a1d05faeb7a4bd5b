----------------------------- MODULE ImageQueue -----------------------------
(***************************************************************************)
(* The images of one product: how each gets its original and its AVIF into *)
(* Google Drive, by a queue that is kept in the rows of the images.        *)
(*                                                                         *)
(* A worker claims due images for a lease, commits, and gives each to a    *)
(* job with a session of its own.  The jobs of a product take turns by an  *)
(* advisory lock, which every commit gives back.  Requests register, add,  *)
(* retry and delete images without that lock.  Nobody asks whose a claim   *)
(* is, so which worker a job belongs to makes no difference, and a batch   *)
(* is as many claims.                                                      *)
(*                                                                         *)
(* A session works on a copy of the row.  It reads the copy again after a  *)
(* commit, not after it has waited for a lock, and it writes the columns   *)
(* that it changed.                                                        *)
(***************************************************************************)
EXTENDS Naturals, FiniteSets

CONSTANTS Images,
          Imported,    \* those registered with their product
          Twins,       \* those that turn out to have the same bytes
          Jobs,        \* jobs that the executors hold at a time
          Calls,       \* requests, each made once
          MaxFaults    \* bound: crashes, and errors of Drive when it deletes

Procs == Jobs \cup Calls

NoProc  == "no process"
NoImage == "no image"

ASSUME ImageAssumption ==
    /\ Imported \subseteq Images /\ Twins \subseteq Images
    /\ Jobs \cap Calls = {} /\ NoProc \notin Procs /\ NoImage \notin Images
    /\ MaxFaults \in Nat

\* Files are named after the image they were made for and what they are.
File == Images \X {"original", "avif"}

\* A row names its files by the image they were made for.
Row == [orig  : {"pending", "downloading", "ready", "failed"},    \* original_status
        file  : Images \cup {NoImage},             \* original_drive_file_id
        sha   : {"none", "known"},                 \* original_sha256
        opt   : {"pending", "processing", "ready", "failed"},   \* optimized_status
        avif  : Images \cup {NoImage},             \* optimized_drive_file_id
        lease : {"none", "live", "expired"}]       \* optimization_claim_expires_at

VARIABLES unborn,     \* images that nobody has asked for yet
          present,    \* images that have a row
          row,
          drive,      \* the files in Drive
          rowlock,    \* the request that has the row locked
          lock,       \* the job that has the product's advisory lock
          pc, at,     \* where a process is, and its image
          read,       \* the row as the session read it
          copy,       \* the row in the session
          faults,
          overrun,    \* history: those whose lease ended, in time or by a request,
                      \* while a job may have had them
          purged      \* history: those whose deletion has begun in Drive

process == <<pc, at, read, copy>>
history == <<overrun, purged>>
vars    == <<unborn, present, row, drive, rowlock, lock, process, faults, history>>

New == [orig |-> "pending", file |-> NoImage, sha |-> "none", opt |-> "pending",
        avif |-> NoImage, lease |-> "none"]

Waiting == {"checkpoint", "preserve", "optimize", "again"}
Working == {"mark", "download", "save", "convert", "finish"}

TypeOK ==
    /\ unborn \subseteq Images /\ present \subseteq Images
    /\ row \in [Images -> Row]
    /\ drive \subseteq File
    /\ rowlock \in [Images -> Calls \cup {NoProc}]
    /\ lock \in Jobs \cup {NoProc}
    /\ pc \in [Procs -> {"idle", "open", "schedule", "commit", "delete", "purge",
                         "remove", "insert", "done"} \cup Waiting \cup Working]
    /\ at \in [Procs -> Images \cup {NoImage}]
    /\ read \in [Procs -> Row]
    /\ copy \in [Procs -> Row]
    /\ faults \in 0 .. MaxFaults
    /\ overrun \subseteq Images /\ purged \subseteq Images

Init ==
    /\ unborn = Images /\ present = {}
    /\ row = [i \in Images |-> New]
    /\ drive = {}
    /\ rowlock = [i \in Images |-> NoProc]
    /\ lock = NoProc
    /\ pc = [p \in Procs |-> "idle"]
    /\ at = [p \in Procs |-> NoImage]
    /\ read = [p \in Procs |-> New]
    /\ copy = [p \in Procs |-> New]
    /\ faults = 0
    /\ overrun = {} /\ purged = {}

-----------------------------------------------------------------------------
(* Rows.                                                                   *)

SameBytes(i, k) == i = k \/ {i, k} \subseteq Twins

Preserved(r) == r.orig = "ready" /\ r.file # NoImage
Optimized(r) == r.opt = "ready" /\ r.avif # NoImage

FilesOf(r) ==
    {f \in File : f = <<r.file, "original">> \/ f = <<r.avif, "avif">>}

Released(r) == [r EXCEPT !.lease = "none"]

\* Mutants: leases are not looked at; images in process are never due.
DueLeased(r) ==
    /\ r.orig \in {"pending", "downloading"} \/ Preserved(r)
    /\ r.opt \in {"pending", "processing"}

DuePending(r) ==
    /\ r.orig \in {"pending", "downloading"} \/ Preserved(r)
    /\ r.opt = "pending"
    /\ r.lease # "live"

Due(r) ==
    /\ r.orig \in {"pending", "downloading"} \/ Preserved(r)
    /\ r.opt \in {"pending", "processing"}
    /\ r.lease # "live"

\* schedule_optimization
Scheduled(r) == IF Optimized(r) THEN r ELSE Released([r EXCEPT !.opt = "pending"])

\* Mutant: the word of import_status.
FailedError(r) ==
    Released([r EXCEPT !.orig = IF @ = "ready" THEN @ ELSE "failed", !.opt = "error"])

\* The handler of process_claimed_image.
Failed(r) ==
    Released([r EXCEPT !.orig = IF @ = "ready" THEN @ ELSE "failed", !.opt = "failed"])

\* The handler of preserve_original.
Lost(r) == [Failed(r) EXCEPT !.orig = "failed"]

\* The image that has preserved the bytes of i under their hash.
Holders(i) == {k \in present : row[k].sha = "known" /\ SameBytes(i, k)}

\* find_ready_optimization
Reusable(i, r) ==
    {k \in present \ {i} : row[k].file = r.file /\ Optimized(row[k])}

\* The columns that p changed, over the row as it is now.
Merged(p) ==
    LET Column(c) == IF copy[p][c] # read[p][c] THEN copy[p][c] ELSE row[at[p]][c]
    IN  [orig |-> Column("orig"), file |-> Column("file"), sha |-> Column("sha"),
         opt |-> Column("opt"), avif |-> Column("avif"), lease |-> Column("lease")]

Write(i, r) == row' = [row EXCEPT ![i] = r]

\* p goes on at step s with the session (r, c); a step that does not work for
\* the product has committed, and gives the advisory lock back.
Goto(p, s, r, c) ==
    /\ pc' = [pc EXCEPT ![p] = s]
    /\ read' = [read EXCEPT ![p] = r]
    /\ copy' = [copy EXCEPT ![p] = c]
    /\ lock' = IF s \in Working THEN p ELSE IF lock = p THEN NoProc ELSE lock

\* Mutant: no advisory lock.
TurnAtOnce(j) == TRUE

\* lock_processing
Turn(j) == lock = NoProc

\* Mutant: one folder and one name for both.
UploadedToOne(i, kind) == drive' = drive \cup {<<i, "original">>}

\* upload_bytes takes the file that is there, if any.
Uploaded(i, kind) == drive' = drive \cup {<<i, kind>>}

\* p commits or rolls back, and is done with its image.
End(p) ==
    /\ Goto(p, IF p \in Jobs THEN "idle" ELSE "done", New, New)
    /\ at' = [at EXCEPT ![p] = NoImage]
    /\ rowlock' = [i \in Images |-> IF rowlock[i] = p THEN NoProc ELSE rowlock[i]]

Unlocked(i) == rowlock[i] = NoProc

-----------------------------------------------------------------------------
(* Jobs.                                                                   *)

Claim(j) ==
    /\ pc[j] = "idle"
    /\ \E i \in present :
           /\ Due(row[i]) /\ Unlocked(i)
           /\ Write(i, [row[i] EXCEPT !.opt = "processing", !.lease = "live"])
           /\ at' = [at EXCEPT ![j] = i]
    /\ Goto(j, "open", New, New)
    /\ UNCHANGED <<unborn, present, drive, rowlock, faults, history>>

\* A job finds nothing to do, or fails in a way that leaves its transaction
\* unusable for the handler: no change of it survives.
Quit(j) == End(j) /\ UNCHANGED <<unborn, present, row, drive>>

Open(j) ==
    LET i == at[j] IN
    /\ pc[j] = "open"
    /\ \/ i \notin present /\ Quit(j)
       \/ /\ i \in present /\ Optimized(row[i]) /\ Unlocked(i)
          /\ Write(i, Released(row[i]))
          /\ End(j)
          /\ UNCHANGED <<unborn, present, drive>>
       \/ /\ i \in present /\ ~Optimized(row[i])
          /\ Goto(j, IF row[i].orig = "ready" THEN "again" ELSE "checkpoint", row[i], row[i])
          /\ UNCHANGED <<unborn, present, row, drive, rowlock, at>>
    /\ UNCHANGED <<faults, history>>

\* An earlier job may have written "downloading": then there is nothing to write.
Checkpoint(j) ==
    /\ pc[j] = "checkpoint" /\ Turn(j)
    /\ Goto(j, IF copy[j].orig = "downloading" THEN "preserve" ELSE "mark", New, New)
    /\ UNCHANGED <<unborn, present, row, drive, rowlock, at, faults, history>>

\* The row is not read again after the wait for the advisory lock, which is held
\* while the job waits for the row.
Mark(j) ==
    LET i == at[j] IN
    /\ pc[j] = "mark"
    /\ \/ i \notin present /\ Quit(j)
       \/ /\ i \in present /\ Unlocked(i)
          /\ Write(i, [row[i] EXCEPT !.orig = "downloading"])
          /\ Goto(j, "preserve", New, New)
          /\ UNCHANGED <<unborn, present, drive, rowlock, at>>
    /\ UNCHANGED <<faults, history>>

Preserve(j) ==
    LET i == at[j] IN
    /\ pc[j] = "preserve" /\ Turn(j)
    /\ \/ i \notin present /\ Quit(j)
       \/ /\ i \in present
          /\ IF Preserved(row[i]) THEN Goto(j, "optimize", New, New)
             ELSE Goto(j, "download", row[i], row[i])
          /\ UNCHANGED <<unborn, present, row, drive, rowlock, at>>
    /\ UNCHANGED <<faults, history>>

Downloads(p, s) ==
    LET i == at[p] IN
    \/ /\ \E k \in Holders(i) \ {i} :
              Goto(p, s, read[p], [copy[p] EXCEPT !.orig = "ready", !.file = row[k].file])
       /\ UNCHANGED drive
    \/ /\ Holders(i) \subseteq {i}
       /\ Goto(p, s, read[p], [copy[p] EXCEPT !.orig = "ready", !.file = i, !.sha = "known"])
       /\ Uploaded(i, "original")

\* preserve_original: the download or the upload fails, another image has the
\* same bytes, or the file goes to Drive.
Download(j) ==
    /\ pc[j] = "download"
    /\ \/ Goto(j, "save", read[j], Lost(copy[j])) /\ UNCHANGED drive
       \/ Downloads(j, "save")
    /\ UNCHANGED <<unborn, present, row, rowlock, at, faults, history>>

\* The hash is unique in a product.
HashTaken(p) ==
    copy[p].sha # read[p].sha /\ Holders(at[p]) \ {at[p]} # {}

\* The commit after the original; after a failure it is the job's last.
Save(j) ==
    LET i == at[j] IN
    /\ pc[j] = "save"
    /\ \/ (i \notin present \/ HashTaken(j)) /\ Quit(j)
       \/ /\ i \in present /\ ~HashTaken(j) /\ Unlocked(i)
          /\ Write(i, Merged(j))
          /\ IF copy[j].orig = "failed" THEN End(j)
             ELSE Goto(j, "optimize", New, New) /\ UNCHANGED <<rowlock, at>>
          /\ UNCHANGED <<unborn, present, drive>>
    /\ UNCHANGED <<faults, history>>

\* Only what was committed by the job itself is read again.
Optimize(j) ==
    LET i == at[j]
        r == IF pc[j] = "again" THEN copy[j] ELSE row[i]
        known == IF pc[j] = "again" THEN read[j] ELSE row[i] IN
    /\ pc[j] \in {"optimize", "again"} /\ Turn(j)
    /\ \/ pc[j] = "optimize" /\ i \notin present /\ Quit(j)
       \/ /\ pc[j] = "again" \/ i \in present
          /\ \/ ~Preserved(r) /\ Goto(j, "finish", known, Failed(r))
             \/ /\ Preserved(r) /\ Optimized(r)
                /\ Goto(j, "finish", known, Released(r))
             \/ /\ Preserved(r) /\ ~Optimized(r)
                /\ \E k \in Reusable(i, r) :
                       Goto(j, "finish", known,
                            Released([r EXCEPT !.opt = "ready", !.avif = row[k].avif]))
             \/ /\ Preserved(r) /\ ~Optimized(r) /\ Reusable(i, r) = {}
                /\ Goto(j, "convert", known, r)
          /\ UNCHANGED <<unborn, present, row, drive, rowlock, at>>
    /\ UNCHANGED <<faults, history>>

Convert(j) ==
    LET i == at[j]
        r == copy[j] IN
    /\ pc[j] = "convert"
    /\ \/ /\ Goto(j, "finish", read[j], Released([r EXCEPT !.opt = "failed"]))
          /\ UNCHANGED drive
       \/ /\ <<r.file, "original">> \in drive
          /\ Uploaded(i, "avif")
          /\ Goto(j, "finish", read[j], Released([r EXCEPT !.opt = "ready", !.avif = i]))
    /\ UNCHANGED <<unborn, present, row, rowlock, at, faults, history>>

Finish(j) ==
    LET i == at[j] IN
    /\ pc[j] = "finish"
    /\ \/ i \notin present /\ UNCHANGED row
       \/ i \in present /\ Unlocked(i) /\ Write(i, Merged(j))
    /\ End(j)
    /\ UNCHANGED <<unborn, present, drive, faults, history>>

-----------------------------------------------------------------------------
(* Requests.                                                               *)

\* POST /products, whose registrations exclude each other.
Register ==
    /\ Imported \subseteq unborn /\ Imported # {}
    /\ unborn' = unborn \ Imported
    /\ present' = present \cup Imported
    /\ UNCHANGED <<row, drive, rowlock, lock, process, faults, history>>

\* An UPDATE locks the row of c's image, until c commits.
LockRow(c, s) ==
    /\ Unlocked(at[c])
    /\ \/ at[c] \notin present /\ End(c)
       \/ /\ at[c] \in present
          /\ rowlock' = [rowlock EXCEPT ![at[c]] = c]
          /\ Goto(c, s, read[c], copy[c])
          /\ UNCHANGED at
    /\ UNCHANGED <<unborn, present, row, drive, faults, history>>

RetryRead(c) ==
    /\ pc[c] = "idle"
    /\ \E i \in present :
           LET r == row[i] IN
           /\ r.orig = "failed" \/ (Preserved(r) /\ ~Optimized(r))
           /\ Goto(c, "schedule", r,
                   Scheduled([r EXCEPT !.orig = IF @ = "failed" THEN "pending" ELSE @]))
           /\ at' = [at EXCEPT ![c] = i]
    /\ UNCHANGED <<unborn, present, row, drive, rowlock, faults, history>>

ScheduleLock(c) == pc[c] = "schedule" /\ LockRow(c, "commit")

CallCommit(c) ==
    /\ pc[c] = "commit"
    /\ Write(at[c], Merged(c))
    /\ overrun' = overrun \cup {at[c]}
    /\ End(c)
    /\ UNCHANGED <<unborn, present, drive, faults, purged>>

\* add_image: the row is not seen before the commit.  If another image has the
\* bytes, it is scheduled instead.
AddDownload(c) ==
    /\ pc[c] = "idle"
    /\ \E i \in unborn \ Imported :
           /\ unborn' = unborn \ {i}
           /\ \/ \E k \in Holders(i) \ {i} :
                     LET r == row[k] IN
                     IF Preserved(r) /\ r.opt \notin {"ready", "processing"}
                     THEN /\ Goto(c, "schedule", r, Scheduled(r))
                          /\ at' = [at EXCEPT ![c] = k]
                          /\ UNCHANGED <<rowlock, drive>>
                     ELSE End(c) /\ UNCHANGED drive
              \/ /\ Holders(i) = {}
                 /\ Goto(c, "insert", New,
                         [New EXCEPT !.orig = "ready", !.file = i, !.sha = "known"])
                 /\ at' = [at EXCEPT ![c] = i]
                 /\ Uploaded(i, "original")
                 /\ UNCHANGED rowlock
              \/ End(c) /\ UNCHANGED drive
    /\ UNCHANGED <<present, row, faults, history>>

Insert(c) ==
    LET i == at[c] IN
    /\ pc[c] = "insert"
    /\ \/ HashTaken(c) /\ UNCHANGED <<present, row>>
       \/ /\ ~HashTaken(c)
          /\ present' = present \cup {i}
          /\ Write(i, copy[c])
    /\ End(c)
    /\ UNCHANGED <<unborn, drive, faults, history>>

DeleteRead(c) ==
    /\ pc[c] = "idle"
    /\ \E i \in present :
           /\ Goto(c, "delete", row[i], row[i])
           /\ at' = [at EXCEPT ![c] = i]
    /\ UNCHANGED <<unborn, present, row, drive, rowlock, faults, history>>

\* The row is marked "deleting", which nobody else sees, and so locked.
DeleteLock(c) == pc[c] = "delete" /\ LockRow(c, "purge")

Purge(c) ==
    /\ pc[c] = "purge"
    /\ drive' = drive \ FilesOf(copy[c])
    /\ purged' = purged \cup {at[c]}
    /\ Goto(c, "remove", read[c], copy[c])
    /\ UNCHANGED <<unborn, present, row, rowlock, at, faults, overrun>>

\* Drive fails after the first file, and the deletion is rolled back.
PurgeFails(c) ==
    /\ pc[c] = "purge" /\ faults < MaxFaults
    /\ faults' = faults + 1
    /\ drive' = drive \ {<<copy[c].avif, "avif">>}
    /\ purged' = purged \cup {at[c]}
    /\ End(c)
    /\ UNCHANGED <<unborn, present, row, overrun>>

\* The images that remain are numbered again, which nothing here depends on.
Remove(c) ==
    LET i == at[c] IN
    /\ pc[c] = "remove"
    /\ present' = present \ {i}
    /\ Write(i, New)
    /\ End(c)
    /\ UNCHANGED <<unborn, drive, faults, history>>

-----------------------------------------------------------------------------
(* Time and faults.                                                        *)

\* p waits for the lock of its row, or of those that it numbers again.
WaitsForRow(p) ==
    \/ /\ \/ pc[p] \in {"mark", "save", "finish", "schedule", "delete"}
          \/ pc[p] = "open" /\ Optimized(row[at[p]])
       /\ ~Unlocked(at[p])
    \/ pc[p] = "remove" /\ \E i \in Images \ {at[p]} : ~Unlocked(i)

\* statement_timeout, while another has the lock; of two that wait for each other
\* the database ends one at once.
GiveUp(p) ==
    /\ (pc[p] \in Waiting /\ lock # NoProc) \/ WaitsForRow(p)
    /\ Quit(p)
    /\ UNCHANGED <<faults, history>>

LeaseExpires(i) ==
    /\ i \in present /\ row[i].lease = "live"
    /\ Write(i, [row[i] EXCEPT !.lease = "expired"])
    /\ overrun' = IF \E j \in Jobs : at[j] = i THEN overrun \cup {i} ELSE overrun
    /\ UNCHANGED <<unborn, present, drive, rowlock, lock, process, faults, purged>>

\* A process ends, and its transaction is rolled back.
Crash(p) ==
    /\ pc[p] \notin {"idle", "done"} /\ faults < MaxFaults
    /\ faults' = faults + 1
    /\ End(p)
    /\ UNCHANGED <<unborn, present, row, drive, history>>

JobStep(j) ==
    \/ Claim(j) \/ Open(j) \/ Checkpoint(j) \/ Mark(j) \/ Preserve(j) \/ Download(j)
    \/ Save(j) \/ Optimize(j) \/ Convert(j) \/ Finish(j)

CallStep(c) ==
    \/ ScheduleLock(c) \/ CallCommit(c) \/ Insert(c)
    \/ DeleteLock(c) \/ Purge(c) \/ Remove(c)

Request(c) == RetryRead(c) \/ AddDownload(c) \/ DeleteRead(c)

Next ==
    \/ Register
    \/ \E j \in Jobs : JobStep(j)
    \/ \E c \in Calls : Request(c) \/ CallStep(c) \/ PurgeFails(c)
    \/ \E i \in Images : LeaseExpires(i)
    \/ \E p \in Procs : GiveUp(p) \/ Crash(p)

\* Workers sweep for ever, requests and leases end; the lock goes to those who
\* wait for it.
Fairness ==
    /\ \A j \in Jobs : SF_vars(JobStep(j))
    /\ \A c \in Calls : WF_vars(CallStep(c))
    /\ \A i \in Images : WF_vars(LeaseExpires(i))

Spec == Init /\ [][Next]_vars /\ Fairness

-----------------------------------------------------------------------------
(* Properties.                                                             *)

\* What import_status counts as "ready" or "error".
Settled(r) == "failed" \in {r.orig, r.opt} \/ r.opt = "ready"

\* The jobs of a product take turns with its Drive folder, as docs/adr/0048
\* decides; and as long as no lease is withdrawn or runs out under a job, an
\* image is in one job (docs/adr/0031: "Duas réplicas não convertem a mesma
\* imagem (lease)").
JobsAreExclusive ==
    /\ \A j \in Jobs : pc[j] \in Working <=> lock = j
    /\ \A j, k \in Jobs :
           j # k /\ at[j] = at[k] => at[j] \in overrun \cup {NoImage}

\* What a row names in Drive has its bytes, and is there, until the image, or
\* one of the same bytes, is being deleted: whatever jobs and requests crossed.
FilesAreKept ==
    \A i \in present, f \in File :
        f \in FilesOf(row[i]) =>
            /\ SameBytes(i, f[1])
            /\ f \in drive \/ \E k \in purged : SameBytes(i, k)

\* Every image that is pending or in process is ready or an error in the end,
\* or deleted, whatever workers crash, leases expire and requests interfere.
EveryImageSettles ==
    \A i \in Images :
        i \in present /\ ~Settled(row[i]) ~> i \notin present \/ Settled(row[i])

-----------------------------------------------------------------------------
(* What the documentation says and the code does not do.                   *)

\* In docs/adr/0031 the above is said of every lease.  But results carry no
\* claim: a job that outran its lease, or whose row was scheduled again, goes on, and
\* the image that another job has made ready is converted again, or failed.
ReadyIsKept ==
    [][\A i \in present \cap present' : Optimized(row[i]) => row'[i].opt = "ready"]_vars

\* From docs/adr/0048: a failure may be retried.  A job writes "downloading" over a
\* row that failed while it waited, and may then give up.
FailuresAreRetried ==
    \A i \in present :
        row[i].opt = "failed" /\ (\A j \in Jobs : at[j] # i) =>
            Preserved(row[i]) \/ row[i].orig = "failed"

\* From docs/persistence/product-images.md: "O original nunca é apagado após AVIF".
\* But an image shares the file of another one with the same bytes, and
\* whichever is deleted takes it away.
OriginalsStay ==
    \A i \in present :
        /\ Preserved(row[i])
        /\ \A c \in Calls : at[c] # i
        => <<row[i].file, "original">> \in drive

=============================================================================
