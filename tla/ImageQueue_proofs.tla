-------------------------- MODULE ImageQueue_proofs --------------------------
(***************************************************************************)
(* The safety of the image queue, for any number of images, jobs and       *)
(* requests.                                                               *)
(*                                                                         *)
(* Three inductive invariants, each on top of the one before.  ShapeInv:   *)
(* where a process is says whether it has an image and the advisory lock,  *)
(* and an image that is being added belongs to nobody else.  LeaseInv: as  *)
(* long as no lease of it has been lost, the image of a job is under a     *)
(* live lease.  FileInv: what a row or a session names in Drive has the    *)
(* bytes of its image, and is there until a deletion.                      *)
(***************************************************************************)
EXTENDS ImageQueue, TLAPS

Steps == {"idle", "open", "schedule", "commit", "delete", "purge", "remove", "insert",
          "done"} \cup Waiting \cup Working

\* The job that works for the product has its lock.
Locked == \A p \in Procs : pc[p] \in Working <=> lock = p

\* Who is at work has an image, which somebody has asked for.
Placed ==
    /\ present \cap unborn = {}
    /\ \A p \in Procs :
          /\ pc[p] \in {"idle", "done"} <=> at[p] = NoImage
          /\ at[p] \notin unborn

\* Nobody else knows an image before the commit that adds it.
Inserted ==
    \A c \in Procs : pc[c] = "insert" =>
       /\ at[c] \notin present
       /\ \A p \in Procs : at[p] = at[c] => p = c

\* A job changes the lease of its image only when it ends.
Keeps ==
    \A p \in Procs :
       /\ pc[p] = "download" => copy[p] = read[p]
       /\ pc[p] = "save" /\ copy[p].orig # "failed" => copy[p].lease = read[p].lease

ShapeInv == TypeOK /\ Locked /\ Placed /\ Inserted /\ Keeps

-----------------------------------------------------------------------------
(* Rows and sessions. *)

\* A row stays one when columns of it are written.
LEMMA RowTypes ==
    ASSUME NEW r \in Row
    PROVE  /\ New \in Row
           /\ Released(r) \in Row /\ Scheduled(r) \in Row
           /\ Failed(r) \in Row
           /\ Lost(r) \in Row /\ Lost(r).orig = "failed"
           /\ \A o \in {"pending", "downloading", "ready", "failed"},
                 f \in Images \cup {NoImage}, h \in {"none", "known"} :
                 /\ [r EXCEPT !.orig = o, !.file = f, !.sha = h] \in Row
                 /\ [r EXCEPT !.orig = o, !.file = f, !.sha = h].lease = r.lease
           /\ \A o \in {"pending", "downloading", "ready", "failed"} :
                 [r EXCEPT !.orig = o] \in Row
           /\ \A o \in {"pending", "downloading", "ready", "failed"},
                 f \in Images \cup {NoImage} :
                 /\ [r EXCEPT !.orig = o, !.file = f] \in Row
                 /\ [r EXCEPT !.orig = o, !.file = f].lease = r.lease
           /\ \A o \in {"pending", "processing", "ready", "failed"},
                 f \in Images \cup {NoImage} :
                 [r EXCEPT !.opt = o, !.avif = f] \in Row
           /\ \A o \in {"pending", "processing", "ready", "failed"},
                 l \in {"none", "live", "expired"} :
                 [r EXCEPT !.opt = o, !.lease = l] \in Row
           /\ \A o \in {"pending", "processing", "ready", "failed"} :
                 [r EXCEPT !.opt = o] \in Row
           /\ \A l \in {"none", "live", "expired"} : [r EXCEPT !.lease = l] \in Row
<1>1. Failed(r) \in Row
  BY DEF Row, Released, Failed
<1>2. \A q \in Row : [q EXCEPT !.orig = "failed"] \in Row
                     /\ [q EXCEPT !.orig = "failed"].orig = "failed"
  BY DEF Row
<1>3. Lost(r) \in Row /\ Lost(r).orig = "failed"
  BY <1>1, <1>2 DEF Lost
<1>4. /\ New \in Row
      /\ Released(r) \in Row /\ Scheduled(r) \in Row
  BY DEF Row, New, Released, Scheduled
<1>5. /\ \A o \in {"pending", "downloading", "ready", "failed"},
            f \in Images \cup {NoImage}, h \in {"none", "known"} :
            /\ [r EXCEPT !.orig = o, !.file = f, !.sha = h] \in Row
            /\ [r EXCEPT !.orig = o, !.file = f, !.sha = h].lease = r.lease
      /\ \A o \in {"pending", "downloading", "ready", "failed"},
            f \in Images \cup {NoImage} :
            /\ [r EXCEPT !.orig = o, !.file = f] \in Row
            /\ [r EXCEPT !.orig = o, !.file = f].lease = r.lease
  BY DEF Row
<1>6. /\ \A o \in {"pending", "downloading", "ready", "failed"} :
            [r EXCEPT !.orig = o] \in Row
      /\ \A o \in {"pending", "processing", "ready", "failed"},
            f \in Images \cup {NoImage} :
            [r EXCEPT !.opt = o, !.avif = f] \in Row
      /\ \A o \in {"pending", "processing", "ready", "failed"},
            l \in {"none", "live", "expired"} :
            [r EXCEPT !.opt = o, !.lease = l] \in Row
      /\ \A o \in {"pending", "processing", "ready", "failed"} :
            [r EXCEPT !.opt = o] \in Row
      /\ \A l \in {"none", "live", "expired"} : [r EXCEPT !.lease = l] \in Row
  BY DEF Row
<1> QED
  BY <1>1, <1>3, <1>4, <1>5, <1>6

\* So does what a session writes at its commit.
LEMMA MergedType ==
    ASSUME TypeOK, NEW p \in Procs, NEW i \in Images, at[p] = i
    PROVE  Merged(p) \in Row
<1>1. PICK a \in Row, b \in Row, r \in Row : a = copy[p] /\ b = read[p] /\ r = row[i]
  BY DEF TypeOK
<1> QED
  BY <1>1 DEF Merged, Row

\* Where a process goes.
LEMMA GotoTypes ==
    ASSUME TypeOK, NEW p \in Procs, NEW s \in Steps, NEW r \in Row, NEW c \in Row,
           s \in Working => p \in Jobs, Goto(p, s, r, c)
    PROVE  /\ pc' \in [Procs -> Steps] /\ read' \in [Procs -> Row] /\ copy' \in [Procs -> Row]
           /\ lock' \in Jobs \cup {NoProc}
           /\ pc'[p] = s /\ read'[p] = r /\ copy'[p] = c
           /\ \A q \in Procs \ {p} :
                 pc'[q] = pc[q] /\ read'[q] = read[q] /\ copy'[q] = copy[q]
BY DEF TypeOK, Goto, Steps

\* Locks follow the processes.
LEMMA GotoLocks ==
    ASSUME ShapeInv, NEW p \in Procs, NEW s \in Steps, NEW r \in Row, NEW c \in Row,
           s \in Working => p \in Jobs /\ lock \in {p, NoProc}, Goto(p, s, r, c)
    PROVE  Locked'
<1>1. pc'[p] = s /\ \A q \in Procs \ {p} : pc'[q] = pc[q]
  BY GotoTypes DEF ShapeInv
<1> QED
  BY <1>1, ImageAssumption DEF ShapeInv, Locked, Goto, TypeOK, Procs

\* The end of a transaction.
LEMMA EndTypes ==
    ASSUME ShapeInv, NEW p \in Procs, End(p)
    PROVE  /\ pc' \in [Procs -> Steps] /\ read' \in [Procs -> Row] /\ copy' \in [Procs -> Row]
           /\ lock' \in Jobs \cup {NoProc}
           /\ at' \in [Procs -> Images \cup {NoImage}]
           /\ rowlock' \in [Images -> Calls \cup {NoProc}]
           /\ pc'[p] \in {"idle", "done"} /\ at'[p] = NoImage
           /\ read'[p] = New /\ copy'[p] = New
           /\ \A q \in Procs \ {p} :
                 /\ pc'[q] = pc[q] /\ read'[q] = read[q] /\ copy'[q] = copy[q]
                 /\ at'[q] = at[q]
           /\ Locked'
<1>1. PICK s \in {"idle", "done"} : s = IF p \in Jobs THEN "idle" ELSE "done"
  OBVIOUS
<1>2. Goto(p, s, New, New) /\ s \in Steps /\ s \notin Working
  BY <1>1 DEF End, Steps, Working
<1>3. New \in Row
  BY DEF New, Row
<1> HIDE DEF New
<1> QED
  BY <1>2, <1>3, GotoTypes, GotoLocks DEF End, ShapeInv, TypeOK

\* A row is written.
LEMMA WriteTypes ==
    ASSUME TypeOK, NEW i \in Images, NEW r \in Row, Write(i, r)
    PROVE  /\ row' \in [Images -> Row] /\ row'[i] = r
           /\ \A k \in Images \ {i} : row'[k] = row[k]
BY DEF TypeOK, Write

\* A process goes on with its image.
LEMMA MoveShape ==
    ASSUME ShapeInv, NEW p \in Procs, NEW s \in Steps, NEW r \in Row, NEW c \in Row,
           s \in Working => p \in Jobs /\ lock \in {p, NoProc}, Goto(p, s, r, c),
           pc[p] \notin {"idle", "done"}, s \notin {"idle", "done", "insert"},
           s = "download" => c = r,
           s = "save" /\ c.orig # "failed" => c.lease = r.lease,
           UNCHANGED <<at, unborn, present>>
    PROVE  Locked' /\ Placed' /\ Inserted' /\ Keeps'
<1>1. /\ pc'[p] = s /\ read'[p] = r /\ copy'[p] = c
      /\ \A q \in Procs \ {p} :
            pc'[q] = pc[q] /\ read'[q] = read[q] /\ copy'[q] = copy[q]
  BY GotoTypes DEF ShapeInv
<1>2. Locked'
  BY GotoLocks
<1>3. Placed' /\ Inserted'
  BY <1>1 DEF ShapeInv, Placed, Inserted
<1>4. Keeps'
  BY <1>1 DEF ShapeInv, Keeps
<1> QED
  BY <1>2, <1>3, <1>4

\* A process is done with its image.
LEMMA EndShape ==
    ASSUME ShapeInv, NEW p \in Procs, End(p),
           unborn' \subseteq unborn, present' \subseteq present \cup {at[p]}
    PROVE  Locked' /\ Placed' /\ Inserted' /\ Keeps'
<1>1. /\ pc'[p] \in {"idle", "done"} /\ at'[p] = NoImage
      /\ \A q \in Procs \ {p} :
            /\ pc'[q] = pc[q] /\ read'[q] = read[q] /\ copy'[q] = copy[q]
            /\ at'[q] = at[q]
      /\ Locked'
  BY EndTypes
<1>2. Placed'
  BY <1>1, ImageAssumption DEF ShapeInv, TypeOK, Placed
<1>3. Inserted'
  BY <1>1, ImageAssumption DEF ShapeInv, TypeOK, Placed, Inserted
<1>4. Keeps'
  BY <1>1 DEF ShapeInv, Keeps
<1> QED
  BY <1>1, <1>2, <1>3, <1>4

-----------------------------------------------------------------------------
(* ShapeInv. *)

LEMMA ShapeInit == Init => ShapeInv
<1> SUFFICES ASSUME Init PROVE ShapeInv
  OBVIOUS
<1>1. TypeOK
  <2>1. New \in Row
    BY DEF New, Row
  <2> HIDE DEF New
  <2> QED
    BY <2>1, ImageAssumption DEF Init, TypeOK
<1>2. Locked /\ Placed /\ Inserted /\ Keeps
  BY ImageAssumption DEF Init, Locked, Placed, Inserted, Keeps, Working, Procs
<1> QED
  BY <1>1, <1>2 DEF ShapeInv

\* Where a process that is at work has its image.
LEMMA AtWork ==
    ASSUME ShapeInv, NEW p \in Procs, pc[p] \notin {"idle", "done"}
    PROVE  at[p] \in Images /\ row[at[p]] \in Row /\ copy[p] \in Row /\ read[p] \in Row
BY DEF ShapeInv, TypeOK, Placed

\* Quit leaves everything else as it is.
LEMMA QuitShape ==
    ASSUME ShapeInv, NEW p \in Procs, Quit(p), UNCHANGED <<faults, history>>
    PROVE  ShapeInv'
<1>1. Locked' /\ Placed' /\ Inserted' /\ Keeps'
  BY EndShape DEF Quit
<1>2. TypeOK'
  BY EndTypes DEF Quit, ShapeInv, TypeOK, Steps, history
<1> QED
  BY <1>1, <1>2 DEF ShapeInv

\* Claims, the first of which takes an image that is present.
LEMMA ShapeClaim ==
    ASSUME ShapeInv, NEW j \in Jobs, Claim(j)
    PROVE  ShapeInv'
<1> USE DEF ShapeInv
<1>1. PICK i \in present :
        /\ Write(i, [row[i] EXCEPT !.opt = "processing", !.lease = "live"])
        /\ at' = [at EXCEPT ![j] = i]
  BY DEF Claim
<1>2. i \in Images /\ j \in Procs /\ row[i] \in Row /\ New \in Row
  BY RowTypes DEF TypeOK, Procs
<1>3. [row[i] EXCEPT !.opt = "processing", !.lease = "live"] \in Row
  BY <1>2, RowTypes
<1>4. row' \in [Images -> Row]
  BY <1>1, <1>2, <1>3, WriteTypes
<1>5. Goto(j, "open", New, New) /\ "open" \in Steps /\ "open" \notin Working
  BY DEF Claim, Steps, Working
<1> HIDE DEF New
<1>6. /\ pc' \in [Procs -> Steps] /\ read' \in [Procs -> Row] /\ copy' \in [Procs -> Row]
      /\ lock' \in Jobs \cup {NoProc}
      /\ pc'[j] = "open"
      /\ \A q \in Procs \ {j} :
            pc'[q] = pc[q] /\ read'[q] = read[q] /\ copy'[q] = copy[q]
  BY <1>2, <1>5, GotoTypes
<1>7. TypeOK'
  BY <1>1, <1>2, <1>4, <1>6 DEF TypeOK, Claim, Steps, history
<1>8. Locked'
  BY <1>2, <1>5, GotoLocks
<1>9. Placed'
  <2>1. i \notin unborn
    BY DEF Placed
  <2> QED
    BY <1>1, <1>2, <1>6, <2>1, ImageAssumption DEF Placed, TypeOK, Claim
<1>10. Inserted'
  BY <1>1, <1>2, <1>6, ImageAssumption DEF Inserted, Placed, TypeOK, Claim
<1>11. Keeps'
  BY <1>6 DEF Keeps
<1> QED
  BY <1>7, <1>8, <1>9, <1>10, <1>11

LEMMA ShapeOpen ==
    ASSUME ShapeInv, NEW j \in Jobs, Open(j)
    PROVE  ShapeInv'
<1>1. j \in Procs /\ pc[j] \notin {"idle", "done"}
  BY DEF Open, Procs
<1>2. PICK i \in Images : i = at[j] /\ row[i] \in Row
  BY <1>1, AtWork
<1>3. CASE i \notin present /\ Quit(j)
  BY <1>1, <1>3, QuitShape DEF Open
<1>4. CASE Write(i, Released(row[i])) /\ End(j) /\ UNCHANGED <<unborn, present, drive>>
  <2>1. row' \in [Images -> Row]
    BY <1>2, <1>4, RowTypes, WriteTypes DEF ShapeInv
  <2>2. TypeOK'
    BY <1>1, <1>4, <2>1, EndTypes DEF ShapeInv, TypeOK, Open, history, Steps
  <2> QED
    BY <1>1, <1>4, <2>2, EndShape DEF ShapeInv
<1>5. ASSUME NEW s \in {"again", "checkpoint"}, Goto(j, s, row[i], row[i]),
             UNCHANGED <<unborn, present, row, drive, rowlock, at>>
      PROVE  ShapeInv'
  <2>1. s \in Steps /\ s \notin Working \cup {"idle", "done", "insert", "download", "save"}
    BY DEF Steps, Waiting, Working
  <2>2. TypeOK'
    BY <1>1, <1>2, <1>5, <2>1, GotoTypes DEF ShapeInv, TypeOK, Open, history, Steps
  <2> QED
    BY <1>1, <1>2, <1>5, <2>1, <2>2, MoveShape DEF ShapeInv
<1> QED
  BY <1>2, <1>3, <1>4, <1>5 DEF Open

LEMMA ShapeCheckpoint ==
    ASSUME ShapeInv, NEW j \in Jobs, Checkpoint(j)
    PROVE  ShapeInv'
<1>1. j \in Procs /\ pc[j] \notin {"idle", "done"} /\ lock = NoProc /\ New \in Row
  BY DEF Checkpoint, Procs, Turn, New, Row
<1>2. PICK s \in {"preserve", "mark"} : Goto(j, s, New, New)
  BY DEF Checkpoint
<1>3. /\ s \in Steps /\ s \notin {"idle", "done", "insert", "download", "save"}
      /\ UNCHANGED <<unborn, present, row, drive, rowlock, at, faults, history>>
  BY DEF Steps, Waiting, Working, Checkpoint
<1> HIDE DEF New
<1>4. TypeOK'
  BY <1>1, <1>2, <1>3, GotoTypes DEF ShapeInv, TypeOK, history, Steps
<1> QED
  BY <1>1, <1>2, <1>3, <1>4, MoveShape DEF ShapeInv

LEMMA ShapeMark ==
    ASSUME ShapeInv, NEW j \in Jobs, Mark(j)
    PROVE  ShapeInv'
<1>1. j \in Procs /\ pc[j] \notin {"idle", "done"}
  BY DEF Mark, Procs
<1>2. PICK i \in Images : i = at[j] /\ row[i] \in Row
  BY <1>1, AtWork
<1>3. CASE Quit(j)
  BY <1>1, <1>3, QuitShape DEF Mark
<1>4. CASE /\ Goto(j, "preserve", New, New)
           /\ Write(i, [row[i] EXCEPT !.orig = "downloading"])
           /\ UNCHANGED <<unborn, present, drive, rowlock, at>>
  <2>1. /\ "preserve" \in Steps /\ New \in Row
        /\ "preserve" \notin Working \cup {"idle", "done", "insert", "download", "save"}
    BY <1>2, RowTypes DEF Steps, Waiting, Working
  <2>2. [row[i] EXCEPT !.orig = "downloading"] \in Row
    BY <1>2, RowTypes
  <2>3. row' \in [Images -> Row]
    BY <1>4, <2>2, WriteTypes DEF ShapeInv
  <2> HIDE DEF New
  <2>4. TypeOK'
    BY <1>1, <1>4, <2>1, <2>3, GotoTypes DEF ShapeInv, TypeOK, Mark, history, Steps
  <2> QED
    BY <1>1, <1>4, <2>1, <2>4, MoveShape DEF ShapeInv
<1> QED
  BY <1>2, <1>3, <1>4 DEF Mark

LEMMA ShapePreserve ==
    ASSUME ShapeInv, NEW j \in Jobs, Preserve(j)
    PROVE  ShapeInv'
<1>1. j \in Procs /\ pc[j] \notin {"idle", "done"} /\ lock = NoProc
  BY DEF Preserve, Procs, Turn
<1>2. PICK i \in Images : i = at[j] /\ row[i] \in Row
  BY <1>1, AtWork
<1>3. CASE Quit(j)
  BY <1>1, <1>3, QuitShape DEF Preserve
<1>4. ASSUME NEW s \in {"optimize", "download"}, NEW r \in Row, Goto(j, s, r, r),
             UNCHANGED <<unborn, present, row, drive, rowlock, at>>
      PROVE  ShapeInv'
  <2>1. s \in Steps /\ s \notin {"idle", "done", "insert", "save"}
    BY DEF Steps, Waiting, Working
  <2>2. TypeOK'
    BY <1>1, <1>4, <2>1, GotoTypes DEF ShapeInv, TypeOK, Preserve, history, Steps
  <2> QED
    BY <1>1, <1>4, <2>1, <2>2, MoveShape DEF ShapeInv
<1>5. New \in Row
  BY <1>2, RowTypes
<1> HIDE DEF New
<1> QED
  BY <1>2, <1>3, <1>4, <1>5 DEF Preserve

LEMMA ShapeDownload ==
    ASSUME ShapeInv, NEW j \in Jobs, Download(j)
    PROVE  ShapeInv'
<1>1. j \in Procs /\ pc[j] = "download" /\ lock = j
  BY DEF Download, Procs, ShapeInv, Locked, Working
<1>2. PICK i \in Images, q \in Row : i = at[j] /\ q = copy[j] /\ read[j] = q
  BY <1>1, AtWork DEF ShapeInv, Keeps
<1>3. drive' \subseteq File
  <2>1. drive' = drive \/ drive' = drive \cup {<<i, "original">>}
    BY <1>2 DEF Download, Downloads, Uploaded
  <2> QED
    BY <2>1 DEF ShapeInv, TypeOK, File
<1>4. ASSUME NEW r \in Row, Goto(j, "save", read[j], r),
             r.orig # "failed" => r.lease = q.lease
      PROVE  ShapeInv'
  <2>1. /\ "save" \in Steps /\ "save" \in Working /\ read[j] \in Row
        /\ UNCHANGED <<unborn, present, row, rowlock, at, faults, history>>
    BY <1>2 DEF Steps, Working, Download
  <2>2. TypeOK'
    BY <1>1, <1>3, <1>4, <2>1, GotoTypes DEF ShapeInv, TypeOK, history, Steps
  <2> QED
    BY <1>1, <1>2, <1>4, <2>1, <2>2, MoveShape DEF ShapeInv
<1>5. CASE Goto(j, "save", read[j], Lost(q))
  BY <1>4, <1>5, RowTypes
<1>6. ASSUME NEW k \in Holders(i),
             Goto(j, "save", read[j], [q EXCEPT !.orig = "ready", !.file = row[k].file])
      PROVE  ShapeInv'
  <2>1. PICK r \in Row : r = row[k]
    BY DEF Holders, ShapeInv, TypeOK
  <2>2. r.file \in Images \cup {NoImage}
    BY <2>1 DEF Row
  <2> QED
    BY <1>4, <1>6, <2>1, <2>2, RowTypes
<1>7. CASE Goto(j, "save", read[j], [q EXCEPT !.orig = "ready", !.file = i, !.sha = "known"])
  BY <1>4, <1>7, RowTypes
<1> QED
  BY <1>2, <1>5, <1>6, <1>7 DEF Download, Downloads

LEMMA ShapeSave ==
    ASSUME ShapeInv, NEW j \in Jobs, Save(j)
    PROVE  ShapeInv'
<1>1. j \in Procs /\ pc[j] \notin {"idle", "done"}
  BY DEF Save, Procs
<1>2. PICK i \in Images : i = at[j] /\ row[i] \in Row
  BY <1>1, AtWork
<1>3. CASE Quit(j)
  BY <1>1, <1>3, QuitShape DEF Save
<1>4. CASE Write(i, Merged(j)) /\ UNCHANGED <<unborn, present, drive>>
  <2>1. Merged(j) \in Row
    BY <1>1, <1>2, MergedType DEF ShapeInv
  <2>2. row' \in [Images -> Row]
    BY <1>4, <2>1, WriteTypes DEF ShapeInv
  <2>3. CASE End(j)
    <3>1. TypeOK'
      BY <1>1, <1>4, <2>2, <2>3, EndTypes DEF ShapeInv, TypeOK, Save, history, Steps
    <3> QED
      BY <1>1, <1>4, <2>3, <3>1, EndShape DEF ShapeInv
  <2>4. CASE Goto(j, "optimize", New, New) /\ UNCHANGED <<rowlock, at>>
    <3>1. /\ "optimize" \in Steps /\ New \in Row
          /\ "optimize" \notin Working \cup {"idle", "done", "insert", "download", "save"}
      BY <1>2, RowTypes DEF Steps, Waiting, Working
    <3> HIDE DEF New
    <3>2. TypeOK'
      BY <1>1, <1>4, <2>2, <2>4, <3>1, GotoTypes DEF ShapeInv, TypeOK, Save, history, Steps
    <3> QED
      BY <1>1, <1>4, <2>4, <3>1, <3>2, MoveShape DEF ShapeInv
  <2> QED
    BY <1>2, <1>4, <2>3, <2>4, <1>3 DEF Save
<1> QED
  BY <1>2, <1>3, <1>4 DEF Save

\* The steps of a job that leave the row alone and go on to the end.
LEMMA ShapeWork ==
    ASSUME ShapeInv, NEW j \in Jobs, NEW s \in {"finish", "convert"}, NEW r \in Row,
           NEW c \in Row, Goto(j, s, r, c), pc[j] \notin {"idle", "done"},
           lock \in {j, NoProc}, drive' \subseteq File,
           UNCHANGED <<unborn, present, row, rowlock, at, faults, history>>
    PROVE  ShapeInv'
<1>1. j \in Procs /\ s \in Steps /\ s \notin {"idle", "done", "insert", "download", "save"}
  BY DEF Procs, Steps, Working
<1>2. TypeOK'
  BY <1>1, GotoTypes DEF ShapeInv, TypeOK, history, Steps
<1> QED
  BY <1>1, <1>2, MoveShape DEF ShapeInv

LEMMA ShapeOptimize ==
    ASSUME ShapeInv, NEW j \in Jobs, Optimize(j)
    PROVE  ShapeInv'
<1>1. j \in Procs /\ pc[j] \notin {"idle", "done"} /\ lock = NoProc
  BY DEF Optimize, Procs, Turn
<1>2. PICK i \in Images : i = at[j]
  BY <1>1, AtWork
<1>3. CASE Quit(j)
  BY <1>1, <1>3, QuitShape DEF Optimize
<1>4. PICK r \in Row, known \in Row :
        /\ r = IF pc[j] = "again" THEN copy[j] ELSE row[i]
        /\ known = IF pc[j] = "again" THEN read[j] ELSE row[i]
  BY <1>1, <1>2, AtWork
<1>5. ASSUME NEW s \in {"finish", "convert"}, NEW c \in Row, Goto(j, s, known, c),
             UNCHANGED <<unborn, present, row, drive, rowlock, at>>
      PROVE  ShapeInv'
  BY <1>1, <1>5, ShapeWork DEF Optimize, ShapeInv, TypeOK
<1>6. Failed(r) \in Row /\ Released(r) \in Row
  BY RowTypes
<1>7. \A k \in Reusable(i, r) :
         Released([r EXCEPT !.opt = "ready", !.avif = row[k].avif]) \in Row
  <2> TAKE k \in Reusable(i, r)
  <2>1. PICK o \in Row : o = row[k]
    BY DEF Reusable, ShapeInv, TypeOK
  <2>2. o.avif \in Images \cup {NoImage}
    BY DEF Row
  <2>3. PICK q \in Row : q = [r EXCEPT !.opt = "ready", !.avif = row[k].avif]
    BY <2>1, <2>2, RowTypes
  <2> QED
    BY <2>3, RowTypes
<1> QED
  BY <1>2, <1>3, <1>4, <1>5, <1>6, <1>7 DEF Optimize

LEMMA ShapeConvert ==
    ASSUME ShapeInv, NEW j \in Jobs, Convert(j)
    PROVE  ShapeInv'
<1>1. j \in Procs /\ pc[j] = "convert" /\ lock = j
  BY DEF Convert, Procs, ShapeInv, Locked, Working
<1>2. PICK i \in Images, r \in Row : i = at[j] /\ r = copy[j] /\ read[j] \in Row
  BY <1>1, AtWork
<1>3. drive' \subseteq File
  <2>1. drive' = drive \/ drive' = drive \cup {<<i, "avif">>}
    BY <1>2 DEF Convert, Uploaded
  <2> QED
    BY <2>1 DEF ShapeInv, TypeOK, File
<1>4. PICK q \in Row, o \in Row :
        q = [r EXCEPT !.opt = "failed"] /\ o = [r EXCEPT !.opt = "ready", !.avif = i]
  BY RowTypes
<1>5. Released(q) \in Row /\ Released(o) \in Row
  BY RowTypes
<1> QED
  BY <1>1, <1>2, <1>3, <1>4, <1>5, ShapeWork DEF Convert

LEMMA ShapeFinish ==
    ASSUME ShapeInv, NEW j \in Jobs, Finish(j)
    PROVE  ShapeInv'
<1>1. j \in Procs /\ pc[j] \notin {"idle", "done"}
  BY DEF Finish, Procs
<1>2. PICK i \in Images : i = at[j]
  BY <1>1, AtWork
<1>3. row' \in [Images -> Row]
  BY <1>1, <1>2, MergedType, WriteTypes DEF Finish, ShapeInv, TypeOK
<1>4. TypeOK'
  BY <1>1, <1>3, EndTypes DEF ShapeInv, TypeOK, Finish, history, Steps
<1> QED
  BY <1>1, <1>4, EndShape DEF ShapeInv, Finish

-----------------------------------------------------------------------------
\* The requests.
LEMMA ShapeRegister == ShapeInv /\ Register => ShapeInv'
<1> SUFFICES ASSUME ShapeInv, Register PROVE ShapeInv'
  OBVIOUS
<1>1. TypeOK'
  BY DEF ShapeInv, TypeOK, Register, process, history
<1>2. Locked' /\ Keeps'
  BY DEF ShapeInv, Locked, Keeps, Register, process
<1>3. Placed' /\ Inserted'
  <2>1. \A p \in Procs : at[p] \notin Imported
    BY DEF ShapeInv, Placed, Register
  <2> QED
    BY <2>1 DEF ShapeInv, Placed, Inserted, Register, process
<1> QED
  BY <1>1, <1>2, <1>3 DEF ShapeInv

\* A request finds an image and remembers what it read.
LEMMA ShapeRead ==
    ASSUME ShapeInv, NEW c \in Calls, NEW i \in present, NEW s \in {"schedule", "delete"},
           NEW r \in Row, NEW q \in Row, Goto(c, s, r, q), pc[c] = "idle",
           at' = [at EXCEPT ![c] = i], unborn' \subseteq unborn,
           UNCHANGED <<present, row, drive, rowlock, faults, history>>
    PROVE  ShapeInv'
<1>1. /\ c \in Procs /\ i \in Images /\ s \in Steps
      /\ s \notin Working \cup {"idle", "done", "insert", "download", "save"}
  BY DEF Procs, Steps, Waiting, Working, ShapeInv, TypeOK
<1>2. /\ pc' \in [Procs -> Steps] /\ read' \in [Procs -> Row] /\ copy' \in [Procs -> Row]
      /\ lock' \in Jobs \cup {NoProc}
      /\ pc'[c] = s
      /\ \A p \in Procs \ {c} :
            pc'[p] = pc[p] /\ read'[p] = read[p] /\ copy'[p] = copy[p]
  BY <1>1, GotoTypes DEF ShapeInv
<1>3. TypeOK'
  BY <1>1, <1>2 DEF ShapeInv, TypeOK, Steps, history
<1>4. Locked'
  BY <1>1, GotoLocks
<1>5. Placed'
  BY <1>1, <1>2, ImageAssumption DEF ShapeInv, Placed, TypeOK
<1>6. Inserted'
  BY <1>1, <1>2, ImageAssumption DEF ShapeInv, Inserted, Placed, TypeOK
<1>7. Keeps'
  BY <1>1, <1>2 DEF ShapeInv, Keeps
<1> QED
  BY <1>3, <1>4, <1>5, <1>6, <1>7 DEF ShapeInv

LEMMA ShapeReads ==
    ASSUME ShapeInv, NEW c \in Calls, RetryRead(c) \/ DeleteRead(c)
    PROVE  ShapeInv'
<1>1. CASE RetryRead(c)
  <2>1. PICK i \in present :
          /\ Goto(c, "schedule", row[i],
                  Scheduled([row[i] EXCEPT !.orig = IF @ = "failed" THEN "pending" ELSE @]))
          /\ at' = [at EXCEPT ![c] = i]
    BY <1>1 DEF RetryRead
  <2>2. PICK r \in Row : r = row[i]
    BY DEF ShapeInv, TypeOK
  <2>3. PICK q \in Row : q = [r EXCEPT !.orig = IF @ = "failed" THEN "pending" ELSE @]
    BY DEF Row
  <2>4. Scheduled(q) \in Row
    BY RowTypes
  <2> QED
    BY <1>1, <2>1, <2>2, <2>3, <2>4, ShapeRead DEF RetryRead
<1>2. CASE DeleteRead(c)
  <2>1. PICK i \in present : Goto(c, "delete", row[i], row[i]) /\ at' = [at EXCEPT ![c] = i]
    BY <1>2 DEF DeleteRead
  <2>2. row[i] \in Row
    BY DEF ShapeInv, TypeOK
  <2> QED
    BY <1>2, <2>1, <2>2, ShapeRead DEF DeleteRead
<1> QED
  BY <1>1, <1>2

LEMMA ShapeCommit ==
    ASSUME ShapeInv, NEW c \in Calls, CallCommit(c)
    PROVE  ShapeInv'
<1>1. c \in Procs /\ pc[c] \notin {"idle", "done"}
  BY DEF CallCommit, Procs
<1>2. PICK i \in Images : i = at[c]
  BY <1>1, AtWork
<1>3. row' \in [Images -> Row]
  BY <1>1, <1>2, MergedType, WriteTypes DEF CallCommit, ShapeInv, TypeOK
<1>4. TypeOK'
  BY <1>1, <1>2, <1>3, EndTypes DEF ShapeInv, TypeOK, CallCommit, Steps
<1> QED
  BY <1>1, <1>4, EndShape DEF ShapeInv, CallCommit

LEMMA ShapeAdd ==
    ASSUME ShapeInv, NEW c \in Calls, AddDownload(c)
    PROVE  ShapeInv'
<1> DEFINE added(i) == [New EXCEPT !.orig = "ready", !.file = i, !.sha = "known"]
<1>1. c \in Procs /\ pc[c] = "idle" /\ UNCHANGED <<present, row, faults, history>>
  BY DEF AddDownload, Procs
<1>2. PICK i \in unborn \ Imported :
        /\ unborn' = unborn \ {i}
        /\ \/ \E k \in Holders(i) \ {i} :
                 IF Preserved(row[k]) /\ row[k].opt \notin {"ready", "processing"}
                 THEN /\ Goto(c, "schedule", row[k], Scheduled(row[k]))
                      /\ at' = [at EXCEPT ![c] = k]
                      /\ UNCHANGED <<rowlock, drive>>
                 ELSE End(c) /\ UNCHANGED drive
           \/ /\ Goto(c, "insert", New, added(i))
              /\ at' = [at EXCEPT ![c] = i]
              /\ Uploaded(i, "original")
              /\ UNCHANGED rowlock
           \/ End(c) /\ UNCHANGED drive
  BY DEF AddDownload
<1>3. i \in Images /\ i \notin present /\ \A p \in Procs : at[p] # i
  BY DEF ShapeInv, TypeOK, Placed
<1>4. CASE End(c) /\ UNCHANGED drive
  <2>1. TypeOK'
    BY <1>1, <1>2, <1>4, EndTypes DEF ShapeInv, TypeOK, history, Steps
  <2> QED
    BY <1>1, <1>2, <1>4, <2>1, EndShape DEF ShapeInv
<1>5. ASSUME NEW k \in Holders(i), Goto(c, "schedule", row[k], Scheduled(row[k])),
             at' = [at EXCEPT ![c] = k], UNCHANGED <<rowlock, drive>>
      PROVE  ShapeInv'
  <2>1. PICK r \in Row : r = row[k] /\ k \in present
    BY DEF Holders, ShapeInv, TypeOK
  <2>2. Scheduled(r) \in Row
    BY RowTypes
  <2> QED
    BY <1>1, <1>2, <1>5, <2>1, <2>2, ShapeRead
<1>6. CASE Goto(c, "insert", New, added(i)) /\ at' = [at EXCEPT ![c] = i]
             /\ Uploaded(i, "original") /\ UNCHANGED rowlock
  <2>1. PICK n \in Row, q \in Row : n = New /\ q = added(i)
    BY <1>3 DEF New, Row
  <2>2. Goto(c, "insert", n, q) /\ "insert" \in Steps /\ "insert" \notin Working
    BY <1>6, <2>1 DEF Steps, Working
  <2>3. /\ pc' \in [Procs -> Steps] /\ read' \in [Procs -> Row] /\ copy' \in [Procs -> Row]
        /\ lock' \in Jobs \cup {NoProc}
        /\ pc'[c] = "insert"
        /\ \A p \in Procs \ {c} :
              pc'[p] = pc[p] /\ read'[p] = read[p] /\ copy'[p] = copy[p]
    BY <1>1, <2>2, GotoTypes DEF ShapeInv
  <2>4. drive' \subseteq File
    BY <1>3, <1>6 DEF Uploaded, File, ShapeInv, TypeOK
  <2>5. TypeOK'
    BY <1>1, <1>2, <1>3, <1>6, <2>3, <2>4 DEF ShapeInv, TypeOK, Steps, history
  <2>6. Locked'
    BY <1>1, <2>2, GotoLocks
  <2>7. Placed'
    BY <1>1, <1>2, <1>3, <1>6, <2>3, ImageAssumption DEF ShapeInv, Placed, TypeOK
  <2>8. Inserted'
    BY <1>1, <1>2, <1>3, <1>6, <2>3 DEF ShapeInv, Inserted, Placed, TypeOK
  <2>9. Keeps'
    BY <1>1, <2>3 DEF ShapeInv, Keeps
  <2> QED
    BY <2>5, <2>6, <2>7, <2>8, <2>9 DEF ShapeInv
<1> HIDE DEF added
<1> QED
  BY <1>2, <1>4, <1>5, <1>6

LEMMA ShapeInsert ==
    ASSUME ShapeInv, NEW c \in Calls, Insert(c)
    PROVE  ShapeInv'
<1>1. c \in Procs /\ pc[c] \notin {"idle", "done"}
  BY DEF Insert, Procs
<1>2. PICK i \in Images : i = at[c] /\ copy[c] \in Row
  BY <1>1, AtWork
<1>3. row' \in [Images -> Row] /\ present' \subseteq present \cup {i}
  BY <1>2, WriteTypes DEF Insert, ShapeInv, TypeOK
<1>4. TypeOK'
  BY <1>1, <1>2, <1>3, EndTypes DEF ShapeInv, TypeOK, Insert, history, Steps
<1> QED
  BY <1>1, <1>2, <1>3, <1>4, EndShape DEF ShapeInv, Insert

LEMMA ShapeDelete ==
    ASSUME ShapeInv, NEW c \in Calls,
           ScheduleLock(c) \/ DeleteLock(c) \/ Purge(c) \/ PurgeFails(c) \/ Remove(c)
    PROVE  ShapeInv'
<1>1. c \in Procs /\ pc[c] \notin {"idle", "done"}
  BY DEF ScheduleLock, DeleteLock, Purge, PurgeFails, Remove, Procs
<1>2. PICK i \in Images : i = at[c] /\ copy[c] \in Row /\ read[c] \in Row
  BY <1>1, AtWork
<1>3. CASE End(c) /\ \E s \in {"commit", "purge"} : LockRow(c, s)
  <2>1. TypeOK'
    BY <1>1, <1>3, EndTypes DEF ShapeInv, TypeOK, LockRow, history, Steps
  <2> QED
    BY <1>1, <1>3, <2>1, EndShape DEF ShapeInv, LockRow
<1>4. ASSUME NEW s \in {"commit", "purge", "remove"}, Goto(c, s, read[c], copy[c]),
             rowlock' \in [Images -> Calls \cup {NoProc}],
             drive' \subseteq File, purged' \subseteq Images,
             UNCHANGED <<unborn, present, row, at, faults, overrun>>
      PROVE  ShapeInv'
  <2>1. /\ s \in Steps
        /\ s \notin Working \cup {"idle", "done", "insert", "download", "save"}
    BY DEF Steps, Waiting, Working
  <2>2. TypeOK'
    BY <1>1, <1>2, <1>4, <2>1, GotoTypes DEF ShapeInv, TypeOK, Steps
  <2> QED
    BY <1>1, <1>2, <1>4, <2>1, <2>2, MoveShape DEF ShapeInv
<1>5. CASE ~End(c) /\ \E s \in {"commit", "purge"} : LockRow(c, s)
  BY <1>2, <1>4, <1>5 DEF LockRow, ShapeInv, TypeOK, history
<1>6. CASE Purge(c)
  BY <1>2, <1>4, <1>6 DEF Purge, ShapeInv, TypeOK
<1>7. CASE PurgeFails(c)
  <2>1. TypeOK'
    BY <1>1, <1>2, <1>7, EndTypes, ImageAssumption
       DEF ShapeInv, TypeOK, PurgeFails, Steps
  <2> QED
    BY <1>1, <1>7, <2>1, EndShape DEF ShapeInv, PurgeFails
<1>8. CASE Remove(c)
  <2>1. row' \in [Images -> Row]
    BY <1>2, <1>8, RowTypes, WriteTypes DEF Remove, ShapeInv
  <2>2. TypeOK'
    BY <1>1, <1>8, <2>1, EndTypes DEF ShapeInv, TypeOK, Remove, history, Steps
  <2> QED
    BY <1>1, <1>8, <2>2, EndShape DEF ShapeInv, Remove
<1> QED
  BY <1>3, <1>5, <1>6, <1>7, <1>8 DEF ScheduleLock, DeleteLock

\* The clock, and processes that end.
LEMMA ShapeExpires ==
    ASSUME ShapeInv, NEW i \in Images, LeaseExpires(i)
    PROVE  ShapeInv'
<1>1. [row[i] EXCEPT !.lease = "expired"] \in Row
  <2>1. PICK r \in Row : r = row[i]
    BY DEF ShapeInv, TypeOK
  <2> QED
    BY <2>1, RowTypes
<1>2. row' \in [Images -> Row]
  BY <1>1, WriteTypes DEF LeaseExpires, ShapeInv
<1>3. TypeOK'
  BY <1>2 DEF ShapeInv, TypeOK, LeaseExpires, process
<1>4. Locked' /\ Placed' /\ Inserted' /\ Keeps'
  BY DEF ShapeInv, Locked, Placed, Inserted, Keeps, LeaseExpires, process
<1> QED
  BY <1>3, <1>4 DEF ShapeInv

LEMMA ShapeCrash ==
    ASSUME ShapeInv, NEW p \in Procs, Crash(p)
    PROVE  ShapeInv'
<1>1. TypeOK'
  BY EndTypes, ImageAssumption DEF ShapeInv, TypeOK, Crash, history, Steps
<1> QED
  BY <1>1, EndShape DEF ShapeInv, Crash

LEMMA ShapeNext == ShapeInv /\ [Next]_vars => ShapeInv'
<1> SUFFICES ASSUME ShapeInv, [Next]_vars PROVE ShapeInv'
  OBVIOUS
<1>1. CASE Register
  BY <1>1, ShapeRegister
<1>2. ASSUME NEW j \in Jobs, JobStep(j) PROVE ShapeInv'
  BY <1>2, ShapeClaim, ShapeOpen, ShapeCheckpoint, ShapeMark, ShapePreserve,
     ShapeDownload, ShapeSave, ShapeOptimize, ShapeConvert, ShapeFinish DEF JobStep
<1>3. ASSUME NEW c \in Calls, Request(c) \/ CallStep(c) \/ PurgeFails(c) PROVE ShapeInv'
  BY <1>3, ShapeReads, ShapeCommit, ShapeAdd, ShapeInsert, ShapeDelete DEF Request, CallStep
<1>4. ASSUME NEW i \in Images, LeaseExpires(i) PROVE ShapeInv'
  BY <1>4, ShapeExpires
<1>5. ASSUME NEW p \in Procs, GiveUp(p) \/ Crash(p) PROVE ShapeInv'
  BY <1>5, ShapeCrash, QuitShape DEF GiveUp
<1>6. CASE UNCHANGED vars
  BY <1>6 DEF ShapeInv, TypeOK, Locked, Placed, Inserted, Keeps, vars, process, history
<1> QED
  BY <1>1, <1>2, <1>3, <1>4, <1>5, <1>6 DEF Next

\* The variables of the queue keep their types.
THEOREM TypeCorrect == Spec => []TypeOK
<1>1. ShapeInv => TypeOK
  BY DEF ShapeInv
<1> QED
  BY <1>1, ShapeInit, ShapeNext, PTL DEF Spec

-----------------------------------------------------------------------------
(* LeaseInv. *)

\* The image of a job is under a live lease, unless a lease of it was lost.
Leased ==
    \A j \in Jobs : at[j] \in present \ overrun => row[at[j]].lease = "live"

Alone ==
    \A j, k \in Jobs :
       j # k /\ at[j] = at[k] => at[j] \in overrun \cup {NoImage}

LeaseInv == ShapeInv /\ Leased /\ Alone

LEMMA LeaseInit == Init => LeaseInv
BY ShapeInit, ImageAssumption DEF Init, LeaseInv, Leased, Alone, Procs

\* Jobs only part with images, and the leases of those they have are kept.
LEMMA LeaseKept ==
    ASSUME LeaseInv, ShapeInv',
           \A j \in Jobs : at'[j] = at[j] \/ at'[j] = NoImage,
           overrun \subseteq overrun',
           \A j \in Jobs : at'[j] = at[j] /\ at[j] \in present' \ overrun' =>
              at[j] \in present /\ row'[at[j]].lease = row[at[j]].lease
    PROVE  LeaseInv'
<1>1. NoImage \notin present'
  BY ImageAssumption DEF ShapeInv, TypeOK
<1>2. Leased'
  BY <1>1 DEF LeaseInv, Leased
<1>3. Alone'
  BY DEF LeaseInv, Alone
<1> QED
  BY <1>2, <1>3 DEF LeaseInv

\* A process ends, and writes at most the row of its image.
LEMMA LeaseEnds ==
    ASSUME LeaseInv, ShapeInv', NEW p \in Procs, End(p), overrun \subseteq overrun',
           present' \subseteq present \cup {at[p]},
           pc[p] = "insert" \/ present' \subseteq present,
           \A i \in Images \ {at[p]} : row'[i] = row[i],
           p \in Jobs \/ pc[p] = "insert" \/ at[p] \in overrun' \/ at[p] \notin present'
              \/ UNCHANGED row
    PROVE  LeaseInv'
<1>1. at'[p] = NoImage /\ \A q \in Procs \ {p} : at'[q] = at[q]
  BY EndTypes DEF LeaseInv
<1>2. ASSUME NEW j \in Jobs, at'[j] = at[j], at[j] \in present' \ overrun'
      PROVE  at[j] \in present /\ row'[at[j]].lease = row[at[j]].lease
  <2>1. at[j] \in Images /\ at[j] # NoImage /\ j \in Procs
    BY <1>2, ImageAssumption DEF LeaseInv, ShapeInv, TypeOK, Procs
  <2>2. j # p
    BY <1>1, <1>2, <2>1
  <2>3. CASE at[j] = at[p]
    <3>1. p \notin Jobs
      BY <1>2, <2>1, <2>2, <2>3 DEF LeaseInv, Alone
    <3>2. pc[p] # "insert"
      BY <2>1, <2>2, <2>3 DEF LeaseInv, ShapeInv, Inserted
    <3> QED
      BY <1>2, <2>3, <3>1, <3>2
  <2>4. CASE at[j] # at[p]
    BY <1>2, <2>1, <2>4
  <2> QED
    BY <2>3, <2>4
<1>3. \A j \in Jobs : at'[j] = at[j] \/ at'[j] = NoImage
  BY <1>1 DEF Procs
<1> QED
  BY <1>2, <1>3, LeaseKept

\* A job goes on with its image, whose lease it does not touch.
LEMMA LeaseStays ==
    ASSUME LeaseInv, ShapeInv', UNCHANGED <<at, present, overrun>>,
           \A i \in Images : row'[i].lease = row[i].lease
    PROVE  LeaseInv'
<1>1. \A j \in Jobs : at[j] \in present => at[j] \in Images
  BY DEF LeaseInv, ShapeInv, TypeOK
<1> QED
  BY <1>1, LeaseKept

LEMMA LeaseClaim ==
    ASSUME LeaseInv, ShapeInv', NEW j \in Jobs, Claim(j)
    PROVE  LeaseInv'
<1>1. PICK i \in present :
        /\ Due(row[i])
        /\ Write(i, [row[i] EXCEPT !.opt = "processing", !.lease = "live"])
        /\ at' = [at EXCEPT ![j] = i]
  BY DEF Claim
<1>2. PICK r \in Row : r = row[i]
  BY DEF LeaseInv, ShapeInv, TypeOK
<1>3. PICK q \in Row : q = [r EXCEPT !.opt = "processing", !.lease = "live"]
  BY RowTypes
<1>4. q.lease = "live"
  BY <1>3 DEF Row
<1>5. i \in Images /\ row'[i] = q /\ \A k \in Images \ {i} : row'[k] = row[k]
  BY <1>1, <1>2, <1>3, WriteTypes DEF LeaseInv, ShapeInv, TypeOK
<1>6. /\ at'[j] = i /\ \A k \in Jobs \ {j} : at'[k] = at[k]
      /\ UNCHANGED <<present, overrun>>
  BY <1>1 DEF LeaseInv, ShapeInv, TypeOK, Procs, Claim, history
<1>7. Leased'
  BY <1>4, <1>5, <1>6 DEF LeaseInv, Leased, ShapeInv, TypeOK
<1>8. \A k \in Jobs \ {j} : at[k] = i => i \in overrun
  BY <1>1 DEF Due, LeaseInv, Leased
<1>9. Alone'
  BY <1>6, <1>8 DEF LeaseInv, Alone
<1> QED
  BY <1>7, <1>9 DEF LeaseInv

\* The steps of a job after its claim.
LEMMA LeaseJob ==
    ASSUME LeaseInv, ShapeInv', NEW j \in Jobs, JobStep(j), ~Claim(j)
    PROVE  LeaseInv'
<1>1. j \in Procs /\ pc[j] \notin {"idle", "done"} /\ UNCHANGED history
  BY DEF JobStep, Open, Checkpoint, Mark, Preserve, Download, Save, Optimize, Convert,
         Finish, Procs
<1>2. PICK i \in Images, r \in Row : i = at[j] /\ r = row[i]
  BY <1>1, AtWork DEF LeaseInv
<1>3. CASE Quit(j)
  BY <1>1, <1>3, LeaseEnds DEF Quit, history
<1>4. ASSUME NEW q \in Row, Write(i, q), End(j), UNCHANGED present
      PROVE  LeaseInv'
  BY <1>1, <1>2, <1>4, WriteTypes, LeaseEnds DEF LeaseInv, ShapeInv, history
<1>5. ASSUME UNCHANGED <<at, present, row>> PROVE LeaseInv'
  BY <1>1, <1>5, LeaseStays DEF history
<1>6. ASSUME NEW q \in Row, q.lease = r.lease, Write(i, q), UNCHANGED <<at, present>>
      PROVE  LeaseInv'
  <2>1. \A k \in Images : row'[k].lease = row[k].lease
    BY <1>2, <1>6, WriteTypes DEF LeaseInv, ShapeInv
  <2> QED
    BY <1>1, <1>6, <2>1, LeaseStays DEF history
<1>7. CASE Open(j)
  BY <1>2, <1>3, <1>4, <1>5, <1>7, RowTypes DEF Open
<1>8. CASE Mark(j)
  <2>1. PICK q \in Row : q = [r EXCEPT !.orig = "downloading"]
    BY RowTypes
  <2>2. q.lease = r.lease
    BY <2>1 DEF Row
  <2> QED
    BY <1>2, <1>3, <1>6, <1>8, <2>1, <2>2 DEF Mark
<1>9. CASE Save(j)
  <2>1. Merged(j) \in Row
    BY <1>1, <1>2, MergedType DEF LeaseInv, ShapeInv
  <2>2. copy[j].orig # "failed" => Merged(j).lease = r.lease
    BY <1>1, <1>2, <1>9 DEF Save, LeaseInv, ShapeInv, Keeps, Merged
  <2> QED
    BY <1>2, <1>3, <1>4, <1>6, <1>9, <2>1, <2>2 DEF Save
<1>10. CASE Finish(j)
  BY <1>1, <1>2, <1>4, <1>10, MergedType, LeaseEnds DEF Finish, LeaseInv, ShapeInv, history
<1>11. CASE Checkpoint(j) \/ Preserve(j) \/ Download(j) \/ Optimize(j) \/ Convert(j)
  BY <1>3, <1>5, <1>11 DEF Checkpoint, Preserve, Download, Optimize, Convert
<1> QED
  BY <1>7, <1>8, <1>9, <1>10, <1>11 DEF JobStep

\* The steps of a request.
LEMMA LeaseCall ==
    ASSUME LeaseInv, ShapeInv', NEW c \in Calls, Request(c) \/ CallStep(c) \/ PurgeFails(c)
    PROVE  LeaseInv'
<1>1. c \in Procs /\ c \notin Jobs
  BY ImageAssumption DEF Procs
<1>2. ASSUME UNCHANGED <<present, row, overrun>>, \A p \in Procs \ {c} : at'[p] = at[p]
      PROVE  LeaseInv'
  BY <1>1, <1>2, LeaseKept DEF Procs
<1>3. \A i \in Images : at' = [at EXCEPT ![c] = i] => \A p \in Procs \ {c} : at'[p] = at[p]
  BY DEF LeaseInv, ShapeInv, TypeOK
<1>4. End(c) => \A p \in Procs \ {c} : at'[p] = at[p]
  BY <1>1, EndTypes DEF LeaseInv
<1>5. CASE RetryRead(c) \/ DeleteRead(c)
  <2>1. PICK i \in present : at' = [at EXCEPT ![c] = i]
    BY <1>5 DEF RetryRead, DeleteRead
  <2>2. i \in Images
    BY DEF LeaseInv, ShapeInv, TypeOK
  <2> QED
    BY <1>2, <1>3, <1>5, <2>1, <2>2 DEF RetryRead, DeleteRead, history
<1>6. CASE AddDownload(c)
  <2>1. \/ End(c)
        \/ \E i \in present : at' = [at EXCEPT ![c] = i]
        \/ \E i \in unborn : at' = [at EXCEPT ![c] = i]
    BY <1>6 DEF AddDownload, Holders
  <2>2. present \subseteq Images /\ unborn \subseteq Images
    BY DEF LeaseInv, ShapeInv, TypeOK
  <2>3. \A p \in Procs \ {c} : at'[p] = at[p]
    BY <1>3, <1>4, <2>1, <2>2
  <2> QED
    BY <1>2, <1>6, <2>3 DEF AddDownload, history
<1>7. CASE ScheduleLock(c) \/ DeleteLock(c)
  BY <1>2, <1>4, <1>7 DEF ScheduleLock, DeleteLock, LockRow, history
<1>8. CASE Purge(c)
  BY <1>2, <1>8 DEF Purge
<1>9. CASE PurgeFails(c)
  BY <1>2, <1>4, <1>9 DEF PurgeFails
<1>10. CASE CallCommit(c) \/ Insert(c) \/ Remove(c)
  <2>1. pc[c] \notin {"idle", "done"}
    BY <1>10 DEF CallCommit, Insert, Remove
  <2>2. PICK i \in Images : i = at[c]
    BY <1>1, <2>1, AtWork DEF LeaseInv
  <2>3. \A k \in Images \ {i} : row'[k] = row[k]
    BY <1>10, <2>2 DEF CallCommit, Insert, Remove, Write, LeaseInv, ShapeInv, TypeOK
  <2> QED
    BY <1>1, <1>10, <2>2, <2>3, LeaseEnds DEF CallCommit, Insert, Remove, history
<1> QED
  BY <1>5, <1>6, <1>7, <1>8, <1>9, <1>10 DEF Request, CallStep

LEMMA LeaseNext == LeaseInv /\ [Next]_vars => LeaseInv'
<1> SUFFICES ASSUME LeaseInv, [Next]_vars PROVE LeaseInv'
  OBVIOUS
<1>0. ShapeInv'
  BY ShapeNext DEF LeaseInv
<1>1. CASE Register
  <2>1. \A j \in Jobs : at[j] \notin Imported
    BY <1>1 DEF Register, LeaseInv, ShapeInv, Placed, Procs
  <2> QED
    BY <1>0, <1>1, <2>1, LeaseKept DEF Register, process, history
<1>2. ASSUME NEW j \in Jobs, JobStep(j) PROVE LeaseInv'
  BY <1>0, <1>2, LeaseClaim, LeaseJob
<1>3. ASSUME NEW c \in Calls, Request(c) \/ CallStep(c) \/ PurgeFails(c) PROVE LeaseInv'
  BY <1>0, <1>3, LeaseCall
<1>4. ASSUME NEW i \in Images, LeaseExpires(i) PROVE LeaseInv'
  <2>1. \A k \in Images \ {i} : row'[k] = row[k]
    BY <1>4 DEF LeaseExpires, Write, LeaseInv, ShapeInv, TypeOK
  <2>2. \A j \in Jobs : at[j] = i => i \in overrun'
    BY <1>4 DEF LeaseExpires
  <2>3. present \subseteq Images
    BY DEF LeaseInv, ShapeInv, TypeOK
  <2> QED
    BY <1>0, <1>4, <2>1, <2>2, <2>3, LeaseKept DEF LeaseExpires, process
<1>5. ASSUME NEW p \in Procs, GiveUp(p) \/ Crash(p) PROVE LeaseInv'
  BY <1>0, <1>5, LeaseEnds DEF GiveUp, Quit, Crash, history
<1>6. CASE UNCHANGED vars
  BY <1>0, <1>6 DEF LeaseInv, Leased, Alone, vars, process, history
<1> QED
  BY <1>1, <1>2, <1>3, <1>4, <1>5, <1>6 DEF Next

\* The jobs of a product take turns, and as long as no lease of it is lost an
\* image is in one job.
THEOREM JobsExclusive == Spec => []JobsAreExclusive
<1>1. LeaseInv => JobsAreExclusive
  BY DEF LeaseInv, ShapeInv, Locked, Alone, JobsAreExclusive, Procs
<1> QED
  BY <1>1, LeaseInit, LeaseNext, PTL DEF Spec

-----------------------------------------------------------------------------
(* FileInv. *)

\* File f, of a kind, may be named for image i: it has its bytes, and is in
\* Drive, or an image of these bytes is being deleted.
There(i, f, kind) ==
    f = NoImage \/ /\ f \in Images /\ SameBytes(i, f)
                   /\ <<f, kind>> \in drive \/ \E k \in purged : SameBytes(i, k)

Named(i, r) == There(i, r.file, "original") /\ There(i, r.avif, "avif")

FileInv ==
    /\ ShapeInv
    /\ \A i \in Images : Named(i, row[i])
    /\ \A p \in Procs : at[p] \in Images => Named(at[p], copy[p])

\* What may be named before a step may be named after it.
FilesRemain ==
    \A i \in Images, f \in Images \cup {NoImage}, kind \in {"original", "avif"} :
        There(i, f, kind) => There(i, f, kind)'

\* The rows after a step are those before it, or name their files.
RowsNamed ==
    \A i \in Images :
        \/ row'[i] = row[i]
        \/ \E q \in Row : q = row'[i] /\ Named(i, q)'

LEMMA SameBytesEquivalence ==
    /\ \A i : SameBytes(i, i)
    /\ \A i, k : SameBytes(i, k) => SameBytes(k, i)
    /\ \A i, k, l : SameBytes(i, k) /\ SameBytes(k, l) => SameBytes(i, l)
BY DEF SameBytes


\* Uploads and deletions.
LEMMA RemainGrown ==
    ASSUME drive \subseteq drive', purged \subseteq purged'
    PROVE  FilesRemain
BY DEF FilesRemain, There

LEMMA RemainPurged ==
    ASSUME FileInv, NEW c \in Procs, at[c] \in Images, drive \ FilesOf(copy[c]) \subseteq drive',
           purged' = purged \cup {at[c]}
    PROVE  FilesRemain
<1> SUFFICES ASSUME NEW i \in Images, NEW f \in Images, NEW kind \in {"original", "avif"},
                    SameBytes(i, f),
                    <<f, kind>> \in drive \/ \E k \in purged : SameBytes(i, k),
                    <<f, kind>> \notin drive'
             PROVE  \E k \in purged' : SameBytes(i, k)
  BY DEF FilesRemain, There
<1>1. CASE \E k \in purged : SameBytes(i, k)
  BY <1>1
<1>2. CASE <<f, kind>> \in drive
  <2>1. <<f, kind>> \in FilesOf(copy[c])
    BY <1>2
  <2>2. f = copy[c].file \/ f = copy[c].avif
    BY <2>1 DEF FilesOf
  <2>3. SameBytes(at[c], f)
    BY <2>2, ImageAssumption DEF FileInv, Named, There
  <2>4. SameBytes(i, at[c])
    BY <2>3, SameBytesEquivalence
  <2> QED
    BY <2>4
<1> QED
  BY <1>1, <1>2

\* Named rows stay named.
LEMMA NamedRemain ==
    ASSUME FilesRemain, NEW i \in Images, NEW r \in Row, Named(i, r)
    PROVE  Named(i, r)'
<1>1. r.file \in Images \cup {NoImage} /\ r.avif \in Images \cup {NoImage}
  BY DEF Row
<1> QED
  BY <1>1 DEF FilesRemain, Named

LEMMA NamedAlike ==
    ASSUME NEW i, NEW r, NEW q, q.file = r.file, q.avif = r.avif, Named(i, r)
    PROVE  Named(i, q)
BY DEF Named

\* So do the rows.
LEMMA RowsRemain ==
    ASSUME FileInv, FilesRemain, RowsNamed, NEW k \in Images
    PROVE  Named(k, row[k])'
<1>1. CASE row'[k] = row[k]
  <2>1. PICK q \in Row : q = row[k] /\ Named(k, q)
    BY <1>1 DEF FileInv, ShapeInv, TypeOK
  <2>2. Named(k, q)'
    BY <2>1, NamedRemain
  <2> QED
    BY <1>1, <2>1, <2>2 DEF Named
<1>2. CASE \E q \in Row : q = row'[k] /\ Named(k, q)'
  BY <1>2 DEF Named
<1> QED
  BY <1>1, <1>2 DEF RowsNamed

\* A session that ends, and one that goes on.
LEMMA FileEnds ==
    ASSUME FileInv, ShapeInv', FilesRemain, RowsNamed, NEW p \in Procs, End(p)
    PROVE  FileInv'
<1>1. \A k \in Images : Named(k, row[k])'
  BY RowsRemain
<1>2. ASSUME NEW o \in Procs, at'[o] \in Images PROVE Named(at[o], copy[o])'
  <2>1. o # p /\ at'[o] = at[o] /\ copy'[o] = copy[o]
    BY <1>2, EndTypes, ImageAssumption DEF FileInv
  <2>2. PICK i \in Images, r \in Row : i = at[o] /\ r = copy[o] /\ Named(i, r)
    BY <1>2, <2>1 DEF FileInv, ShapeInv, TypeOK
  <2>3. Named(i, r)'
    BY <2>2, NamedRemain
  <2> QED
    BY <2>1, <2>2, <2>3 DEF Named
<1> QED
  BY <1>1, <1>2 DEF FileInv

LEMMA FileGoes ==
    ASSUME FileInv, ShapeInv', FilesRemain, RowsNamed, NEW p \in Procs, NEW s, NEW r,
           NEW c \in Row, NEW i \in Images, Goto(p, s, r, c), Named(i, c)',
           at' = [at EXCEPT ![p] = i]
    PROVE  FileInv'
<1>1. \A k \in Images : Named(k, row[k])'
  BY RowsRemain
<1>2. ASSUME NEW o \in Procs, at'[o] \in Images PROVE Named(at[o], copy[o])'
  <2>1. CASE o = p
    <3>1. at'[o] = i /\ copy'[o] = c
      BY <2>1 DEF Goto, FileInv, ShapeInv, TypeOK
    <3> QED
      BY <3>1 DEF Named
  <2>2. CASE o # p
    <3>1. at'[o] = at[o] /\ copy'[o] = copy[o]
      BY <2>2 DEF Goto, FileInv, ShapeInv, TypeOK
    <3>2. PICK k \in Images, q \in Row : k = at[o] /\ q = copy[o] /\ Named(k, q)
      BY <1>2, <3>1 DEF FileInv, ShapeInv, TypeOK
    <3>3. Named(k, q)'
      BY <3>2, NamedRemain
    <3> QED
      BY <3>1, <3>2, <3>3 DEF Named
  <2> QED
    BY <2>1, <2>2
<1> QED
  BY <1>1, <1>2 DEF FileInv

\* Rows that are written, and those that are not.
LEMMA RowsWritten ==
    ASSUME FileInv, NEW i \in Images, NEW q \in Row, Write(i, q), Named(i, q)'
    PROVE  RowsNamed
BY WriteTypes DEF RowsNamed, FileInv, ShapeInv, TypeOK

LEMMA RowsUnwritten ==
    ASSUME UNCHANGED row
    PROVE  RowsNamed
BY DEF RowsNamed

\* Most columns are not about files.
LEMMA FilesOfRow ==
    ASSUME NEW r \in Row
    PROVE  /\ Released(r).file = r.file /\ Released(r).avif = r.avif
           /\ Scheduled(r).file = r.file /\ Scheduled(r).avif = r.avif
           /\ Failed(r).file = r.file /\ Failed(r).avif = r.avif
           /\ Lost(r).file = r.file /\ Lost(r).avif = r.avif
           /\ New.file = NoImage /\ New.avif = NoImage
<1>1. Released(r).file = r.file /\ Released(r).avif = r.avif
  BY DEF Row, Released
<1>2. Scheduled(r).file = r.file /\ Scheduled(r).avif = r.avif
  BY DEF Row, Released, Scheduled
<1>3. Failed(r) \in Row /\ Failed(r).file = r.file /\ Failed(r).avif = r.avif
  BY DEF Row, Released, Failed
<1>4. Lost(r).file = r.file /\ Lost(r).avif = r.avif
  BY <1>3 DEF Row, Lost
<1> QED
  BY <1>1, <1>2, <1>3, <1>4 DEF New

LEMMA NewNamed ==
    ASSUME NEW i
    PROVE  Named(i, New) /\ Named(i, New)'
BY DEF New, Named, There

LEMMA FileInit == Init => FileInv
<1> SUFFICES ASSUME Init PROVE FileInv
  OBVIOUS
<1>1. \A i \in Images : row[i] = New
  BY DEF Init
<1>2. \A i \in Images : Named(i, row[i])
  BY <1>1, NewNamed DEF Named
<1> QED
  BY <1>2, ShapeInit, ImageAssumption DEF Init, FileInv

LEMMA MergedNamed ==
    ASSUME FileInv, NEW p \in Procs, at[p] \in Images
    PROVE  Named(at[p], Merged(p))
<1>1. PICK i \in Images, c \in Row, r \in Row, d \in Row :
        i = at[p] /\ c = copy[p] /\ r = row[i] /\ d = read[p]
  BY DEF FileInv, ShapeInv, TypeOK
<1>2. Named(i, c) /\ Named(i, r)
  BY <1>1 DEF FileInv
<1>3. Merged(p).file \in {c.file, r.file} /\ Merged(p).avif \in {c.avif, r.avif}
  BY <1>1 DEF Merged
<1> QED
  BY <1>1, <1>2, <1>3 DEF Named

-----------------------------------------------------------------------------
LEMMA FileQuit ==
    ASSUME FileInv, ShapeInv', NEW p \in Procs, End(p), drive \subseteq drive',
           purged \subseteq purged', UNCHANGED row
    PROVE  FileInv'
BY FileEnds, RemainGrown, RowsUnwritten

LEMMA FileClaim ==
    ASSUME FileInv, ShapeInv', NEW j \in Jobs, Claim(j)
    PROVE  FileInv'
<1>1. PICK i \in present :
        /\ Write(i, [row[i] EXCEPT !.opt = "processing", !.lease = "live"])
        /\ at' = [at EXCEPT ![j] = i]
  BY DEF Claim
<1>2. PICK r \in Row : r = row[i] /\ Named(i, r) /\ i \in Images /\ j \in Procs
  BY DEF FileInv, ShapeInv, TypeOK, Procs
<1>3. PICK q \in Row : q = [r EXCEPT !.opt = "processing", !.lease = "live"]
  BY RowTypes
<1>4. q.file = r.file /\ q.avif = r.avif
  BY <1>3 DEF Row
<1>5. FilesRemain
  BY RemainGrown DEF Claim, history
<1>6. Named(i, q)'
  BY <1>2, <1>4, <1>5, NamedAlike, NamedRemain
<1>7. RowsNamed
  BY <1>1, <1>2, <1>3, <1>6, RowsWritten DEF Claim
<1>8. Goto(j, "open", New, New) /\ New \in Row
  BY <1>2, RowTypes DEF Claim
<1> HIDE DEF New
<1> QED
  BY <1>1, <1>2, <1>5, <1>7, <1>8, NewNamed, FileGoes

\* A process stays with its image.
LEMMA FileStays ==
    ASSUME FileInv, ShapeInv', FilesRemain, RowsNamed, NEW p \in Procs, NEW s, NEW r,
           NEW c \in Row, NEW i \in Images, i = at[p], Goto(p, s, r, c), Named(i, c)',
           UNCHANGED at
    PROVE  FileInv'
<1>1. at' = [at EXCEPT ![p] = i]
  BY DEF FileInv, ShapeInv, TypeOK
<1> QED
  BY <1>1, FileGoes

\* The steps that upload nothing.
LEMMA FileQuiet ==
    ASSUME FileInv, ShapeInv', NEW j \in Jobs,
           Open(j) \/ Checkpoint(j) \/ Mark(j) \/ Preserve(j) \/ Save(j) \/ Finish(j)
    PROVE  FileInv'
<1>1. j \in Procs /\ pc[j] \notin {"idle", "done"} /\ UNCHANGED history
  BY DEF Open, Checkpoint, Mark, Preserve, Save, Finish, Procs
<1>2. PICK i \in Images, r \in Row : i = at[j] /\ r = row[i] /\ (i \in present => Named(i, r))
  BY <1>1, AtWork DEF FileInv
<1>3. CASE Quit(j)
  BY <1>1, <1>3, FileQuit DEF Quit, history
<1>4. UNCHANGED drive => FilesRemain
  BY <1>1, RemainGrown DEF history
<1>5. ASSUME NEW q \in Row, Write(i, q), Named(i, q), UNCHANGED drive
      PROVE  RowsNamed
  <2>1. Named(i, q)'
    BY <1>4, <1>5, NamedRemain
  <2> QED
    BY <1>5, <2>1, RowsWritten
<1>6. ASSUME NEW q \in Row, Write(i, q), Named(i, q), End(j), UNCHANGED drive
      PROVE  FileInv'
  BY <1>1, <1>4, <1>5, <1>6, FileEnds
<1>7. ASSUME NEW s, RowsNamed, Goto(j, s, New, New), UNCHANGED <<drive, at>>
      PROVE  FileInv'
  <2>1. New \in Row
    BY <1>2, RowTypes
  <2> HIDE DEF New
  <2> QED
    BY <1>1, <1>2, <1>4, <1>7, <2>1, NewNamed, FileStays
<1>8. ASSUME NEW s, i \in present, RowsNamed, Goto(j, s, r, r), UNCHANGED <<drive, at>>
      PROVE  FileInv'
  <2>1. Named(i, r)'
    BY <1>2, <1>4, <1>8, NamedRemain
  <2> QED
    BY <1>1, <1>2, <1>4, <1>8, <2>1, FileStays
<1>9. UNCHANGED row => RowsNamed
  BY RowsUnwritten
<1>10. CASE Open(j)
  <2>1. CASE Write(i, Released(r)) /\ End(j) /\ i \in present /\ UNCHANGED <<drive, present>>
    <3>1. PICK q \in Row : q = Released(r)
      BY RowTypes
    <3>2. q.file = r.file /\ q.avif = r.avif
      BY <3>1, FilesOfRow
    <3>3. Named(i, q)
      BY <1>2, <2>1, <3>2, NamedAlike
    <3> QED
      BY <1>6, <2>1, <3>1, <3>3
  <2>2. CASE i \in present /\ UNCHANGED <<present, row, drive, at>>
              /\ Goto(j, IF r.orig = "ready" THEN "again" ELSE "checkpoint", r, r)
    BY <1>8, <1>9, <2>2
  <2> QED
    BY <1>2, <1>3, <1>10, <2>1, <2>2 DEF Open
<1>11. CASE Mark(j)
  <2>1. CASE Goto(j, "preserve", New, New) /\ UNCHANGED <<present, drive, at>>
              /\ i \in present /\ Write(i, [r EXCEPT !.orig = "downloading"])
    <3>1. PICK q \in Row : q = [r EXCEPT !.orig = "downloading"]
      BY RowTypes
    <3>2. q.file = r.file /\ q.avif = r.avif
      BY <3>1 DEF Row
    <3>3. Named(i, q)
      BY <1>2, <2>1, <3>2, NamedAlike
    <3> QED
      BY <1>5, <1>7, <2>1, <3>1, <3>3
  <2> QED
    BY <1>2, <1>3, <1>11, <2>1 DEF Mark
<1>12. CASE Checkpoint(j) \/ Preserve(j)
  BY <1>2, <1>3, <1>7, <1>8, <1>9, <1>12 DEF Checkpoint, Preserve
<1>13. ASSUME i \in present PROVE Merged(j) \in Row /\ Named(i, Merged(j))
  BY <1>1, <1>2, <1>13, MergedType, MergedNamed DEF FileInv, ShapeInv
<1>14. CASE Save(j)
  BY <1>2, <1>3, <1>5, <1>6, <1>7, <1>13, <1>14 DEF Save
<1>15. CASE Finish(j)
  <2>1. CASE UNCHANGED row
    BY <1>1, <1>15, <2>1, FileQuit DEF Finish, history
  <2> QED
    BY <1>2, <1>6, <1>13, <1>15, <2>1 DEF Finish
<1> QED
  BY <1>10, <1>11, <1>12, <1>14, <1>15

\* Uploads, and files that are taken over.
LEMMA FileDownload ==
    ASSUME FileInv, ShapeInv', NEW j \in Jobs, Download(j)
    PROVE  FileInv'
<1>1. /\ j \in Procs /\ pc[j] \notin {"idle", "done"}
      /\ UNCHANGED <<unborn, present, row, rowlock, at, faults, history>>
  BY DEF Download, Procs
<1>2. PICK i \in Images, q \in Row : i = at[j] /\ q = copy[j] /\ Named(i, q)
  BY <1>1, AtWork DEF FileInv
<1>3. FilesRemain
  BY <1>1, RemainGrown DEF Download, Downloads, Uploaded, history
<1>4. RowsNamed
  BY <1>1, RowsUnwritten
<1>5. ASSUME NEW c \in Row, Goto(j, "save", read[j], c), Named(i, c)'
      PROVE  FileInv'
  BY <1>1, <1>2, <1>3, <1>4, <1>5, FileStays
<1>6. CASE Goto(j, "save", read[j], Lost(q))
  <2>1. Lost(q) \in Row /\ Named(i, Lost(q))
    BY <1>2, RowTypes, FilesOfRow, NamedAlike
  <2> QED
    BY <1>3, <1>5, <1>6, <2>1, NamedRemain
<1>7. ASSUME NEW k \in Holders(i),
             Goto(j, "save", read[j], [q EXCEPT !.orig = "ready", !.file = row[k].file])
      PROVE  FileInv'
  <2>1. PICK r \in Row : r = row[k] /\ Named(k, r) /\ SameBytes(i, k)
    BY DEF Holders, FileInv, ShapeInv, TypeOK
  <2>0. r.file \in Images \cup {NoImage}
    BY DEF Row
  <2>2. PICK c \in Row : c = [q EXCEPT !.orig = "ready", !.file = r.file]
    BY <2>0, RowTypes
  <2>3. c.file = r.file /\ c.avif = q.avif
    BY <2>2 DEF Row
  <2>4. There(i, r.file, "original")
    BY <2>1, SameBytesEquivalence DEF Named, There
  <2>5. Named(i, c)
    BY <1>2, <2>3, <2>4 DEF Named
  <2> QED
    BY <1>3, <1>5, <1>7, <2>1, <2>2, <2>5, NamedRemain
<1>8. CASE Goto(j, "save", read[j], [q EXCEPT !.orig = "ready", !.file = i, !.sha = "known"])
           /\ Uploaded(i, "original")
  <2>1. PICK c \in Row : c = [q EXCEPT !.orig = "ready", !.file = i, !.sha = "known"]
    BY RowTypes
  <2>2. c.file = i /\ c.avif = q.avif
    BY <2>1 DEF Row
  <2>3. Named(i, q)'
    BY <1>2, <1>3, NamedRemain
  <2>4. Named(i, c)'
    BY <1>8, <2>2, <2>3, SameBytesEquivalence DEF Named, There, Uploaded
  <2> QED
    BY <1>5, <1>8, <2>1, <2>4
<1> QED
  BY <1>2, <1>6, <1>7, <1>8 DEF Download, Downloads

LEMMA FileOptimize ==
    ASSUME FileInv, ShapeInv', NEW j \in Jobs, Optimize(j)
    PROVE  FileInv'
<1>1. /\ j \in Procs /\ pc[j] \notin {"idle", "done"} /\ UNCHANGED <<faults, history>>
      /\ UNCHANGED <<present, row, drive>>
  BY DEF Optimize, Procs, Quit
<1>2. PICK i \in Images, c \in Row : i = at[j] /\ c = copy[j] /\ Named(i, c)
  BY <1>1, AtWork DEF FileInv
<1>3. FilesRemain /\ RowsNamed
  BY <1>1, RemainGrown, RowsUnwritten DEF history
<1>4. CASE Quit(j)
  BY <1>1, <1>4, FileQuit DEF Quit, history
<1>5. CASE ~Quit(j)
  <2>1. PICK r \in Row : r = (IF pc[j] = "again" THEN copy[j] ELSE row[i])
                         /\ Named(i, r) /\ UNCHANGED at
    BY <1>1, <1>2, <1>5 DEF Optimize, FileInv, ShapeInv, TypeOK
  <2>2. ASSUME NEW s, NEW known, NEW q \in Row, Goto(j, s, known, q), Named(i, q)
        PROVE  FileInv'
    <3>1. Named(i, q)'
      BY <1>3, <2>2, NamedRemain
    <3> QED
      BY <1>1, <1>2, <1>3, <2>1, <2>2, <3>1, FileStays
  <2>3. PICK f \in Row, l \in Row : f = Failed(r) /\ l = Released(r)
    BY RowTypes
  <2>4. Named(i, f) /\ Named(i, l)
    <3>1. f.file = r.file /\ f.avif = r.avif /\ l.file = r.file /\ l.avif = r.avif
      BY <2>3, FilesOfRow
    <3> QED
      BY <2>1, <3>1, NamedAlike
  <2>5. ASSUME NEW k \in Reusable(i, r), Preserved(r), NEW known,
               Goto(j, "finish", known,
                    Released([r EXCEPT !.opt = "ready", !.avif = row[k].avif]))
        PROVE  FileInv'
    <3>1. PICK o \in Row : o = row[k] /\ k \in Images /\ Named(k, o) /\ o.file = r.file
      BY DEF Reusable, FileInv, ShapeInv, TypeOK
    <3>2. o.avif \in Images \cup {NoImage}
      BY DEF Row
    <3>3. PICK q \in Row : q = [r EXCEPT !.opt = "ready", !.avif = o.avif]
      BY <3>2, RowTypes
    <3>4. q.file = r.file /\ q.avif = o.avif
      BY <3>3 DEF Row
    <3>5. PICK e \in Row : e = Released(q)
      BY RowTypes
    <3>6. e.file = r.file /\ e.avif = o.avif
      BY <3>4, <3>5, FilesOfRow
    <3>7. SameBytes(i, k)
      BY <2>1, <2>5, <3>1, SameBytesEquivalence DEF Preserved, Named, There
    <3>8. There(i, o.avif, "avif")
      BY <3>1, <3>7, SameBytesEquivalence DEF Named, There
    <3>9. Named(i, e)
      BY <2>1, <3>6, <3>8 DEF Named
    <3> QED
      BY <2>2, <2>5, <3>1, <3>3, <3>5, <3>9
  <2> QED
    BY <1>2, <1>5, <2>1, <2>2, <2>3, <2>4, <2>5 DEF Optimize
<1> QED
  BY <1>4, <1>5

LEMMA FileConvert ==
    ASSUME FileInv, ShapeInv', NEW j \in Jobs, Convert(j)
    PROVE  FileInv'
<1>1. /\ j \in Procs /\ pc[j] \notin {"idle", "done"}
      /\ UNCHANGED <<unborn, present, row, rowlock, at, faults, history>>
  BY DEF Convert, Procs
<1>2. PICK i \in Images, r \in Row : i = at[j] /\ r = copy[j] /\ Named(i, r)
  BY <1>1, AtWork DEF FileInv
<1>3. FilesRemain
  BY <1>1, RemainGrown DEF Convert, Uploaded, history
<1>4. RowsNamed
  BY <1>1, RowsUnwritten
<1>5. ASSUME NEW q \in Row, Goto(j, "finish", read[j], Released(q)), Named(i, q)'
      PROVE  FileInv'
  <2>1. PICK e \in Row : e = Released(q)
    BY RowTypes
  <2>2. e.file = q.file /\ e.avif = q.avif
    BY <2>1, FilesOfRow
  <2>3. Named(i, e)'
    BY <1>5, <2>2 DEF Named
  <2> QED
    BY <1>1, <1>2, <1>3, <1>4, <1>5, <2>1, <2>3, FileStays
<1>6. Named(i, r)'
  BY <1>2, <1>3, NamedRemain
<1>7. CASE Goto(j, "finish", read[j], Released([r EXCEPT !.opt = "failed"]))
  <2>1. PICK q \in Row : q = [r EXCEPT !.opt = "failed"]
    BY RowTypes
  <2>2. q.file = r.file /\ q.avif = r.avif
    BY <2>1 DEF Row
  <2>3. Named(i, q)'
    BY <1>6, <2>2 DEF Named
  <2> QED
    BY <1>5, <1>7, <2>1, <2>3
<1>8. CASE Goto(j, "finish", read[j], Released([r EXCEPT !.opt = "ready", !.avif = i]))
           /\ Uploaded(i, "avif")
  <2>1. PICK q \in Row : q = [r EXCEPT !.opt = "ready", !.avif = i]
    BY RowTypes
  <2>2. q.file = r.file /\ q.avif = i
    BY <2>1 DEF Row
  <2>3. Named(i, q)'
    BY <1>6, <1>8, <2>2, SameBytesEquivalence DEF Named, There, Uploaded
  <2> QED
    BY <1>5, <1>8, <2>1, <2>3
<1> QED
  BY <1>2, <1>7, <1>8 DEF Convert

-----------------------------------------------------------------------------
LEMMA FileRead ==
    ASSUME FileInv, ShapeInv', NEW c \in Calls, RetryRead(c) \/ DeleteRead(c)
    PROVE  FileInv'
<1>1. /\ c \in Procs /\ UNCHANGED <<present, row, drive, history>>
  BY DEF RetryRead, DeleteRead, Procs
<1>2. FilesRemain /\ RowsNamed
  BY <1>1, RemainGrown, RowsUnwritten DEF history
<1>3. ASSUME NEW i \in present, NEW s, NEW r, NEW q \in Row, Goto(c, s, r, q),
             q.file = row[i].file, q.avif = row[i].avif, at' = [at EXCEPT ![c] = i]
      PROVE  FileInv'
  <2>1. i \in Images /\ Named(i, row[i])
    BY DEF FileInv, ShapeInv, TypeOK
  <2>2. Named(i, q)
    BY <1>3, <2>1, NamedAlike
  <2>3. Named(i, q)'
    BY <1>2, <2>1, <2>2, NamedRemain
  <2> QED
    BY <1>1, <1>2, <1>3, <2>1, <2>3, FileGoes
<1>4. CASE RetryRead(c)
  <2>1. PICK i \in present :
          /\ Goto(c, "schedule", row[i],
                  Scheduled([row[i] EXCEPT !.orig = IF @ = "failed" THEN "pending" ELSE @]))
          /\ at' = [at EXCEPT ![c] = i]
    BY <1>4 DEF RetryRead
  <2>2. PICK r \in Row : r = row[i]
    BY DEF FileInv, ShapeInv, TypeOK
  <2>3. PICK q \in Row : q = [r EXCEPT !.orig = IF @ = "failed" THEN "pending" ELSE @]
    BY DEF Row
  <2>4. q.file = r.file /\ q.avif = r.avif
    BY <2>3 DEF Row
  <2>5. PICK e \in Row : e = Scheduled(q)
    BY RowTypes
  <2>6. e.file = r.file /\ e.avif = r.avif
    BY <2>4, <2>5, FilesOfRow
  <2> QED
    BY <1>3, <2>1, <2>2, <2>3, <2>5, <2>6
<1>5. CASE DeleteRead(c)
  <2>1. PICK i \in present : Goto(c, "delete", row[i], row[i]) /\ at' = [at EXCEPT ![c] = i]
    BY <1>5 DEF DeleteRead
  <2>2. PICK r \in Row : r = row[i]
    BY DEF FileInv, ShapeInv, TypeOK
  <2> QED
    BY <1>3, <2>1, <2>2
<1> QED
  BY <1>4, <1>5

LEMMA FileCommit ==
    ASSUME FileInv, ShapeInv', NEW c \in Calls, CallCommit(c)
    PROVE  FileInv'
<1>1. c \in Procs /\ pc[c] \notin {"idle", "done"} /\ End(c) /\ UNCHANGED <<drive, purged>>
  BY DEF CallCommit, Procs
<1>2. PICK i \in Images : i = at[c]
  BY <1>1, AtWork DEF FileInv
<1>3. PICK q \in Row : q = Merged(c) /\ Named(i, q) /\ Write(i, q)
  BY <1>1, <1>2, MergedType, MergedNamed DEF CallCommit, FileInv, ShapeInv
<1>4. FilesRemain
  BY <1>1, RemainGrown
<1>5. RowsNamed
  BY <1>3, <1>4, NamedRemain, RowsWritten
<1> QED
  BY <1>1, <1>4, <1>5, FileEnds

LEMMA FileAdd ==
    ASSUME FileInv, ShapeInv', NEW c \in Calls, AddDownload(c)
    PROVE  FileInv'
<1> DEFINE added(i) == [New EXCEPT !.orig = "ready", !.file = i, !.sha = "known"]
<1>1. c \in Procs /\ UNCHANGED <<present, row, history>>
  BY DEF AddDownload, Procs
<1>2. PICK i \in Images :
        \/ \E k \in Holders(i) \ {i} :
              IF Preserved(row[k]) /\ row[k].opt \notin {"ready", "processing"}
              THEN /\ Goto(c, "schedule", row[k], Scheduled(row[k]))
                   /\ at' = [at EXCEPT ![c] = k]
                   /\ UNCHANGED <<rowlock, drive>>
              ELSE End(c) /\ UNCHANGED drive
        \/ /\ Goto(c, "insert", New, added(i))
           /\ at' = [at EXCEPT ![c] = i]
           /\ Uploaded(i, "original")
        \/ End(c) /\ UNCHANGED drive
  BY DEF AddDownload, FileInv, ShapeInv, TypeOK
<1>3. FilesRemain /\ RowsNamed
  BY <1>1, <1>2, RemainGrown, RowsUnwritten DEF Uploaded, history
<1>4. CASE End(c) /\ UNCHANGED drive
  BY <1>1, <1>3, <1>4, FileEnds
<1>5. ASSUME NEW k \in Holders(i), Goto(c, "schedule", row[k], Scheduled(row[k])),
             at' = [at EXCEPT ![c] = k]
      PROVE  FileInv'
  <2>1. PICK r \in Row : r = row[k] /\ k \in Images /\ Named(k, r)
    BY DEF Holders, FileInv, ShapeInv, TypeOK
  <2>2. PICK q \in Row : q = Scheduled(r)
    BY RowTypes
  <2>3. Named(k, q)
    BY <2>1, <2>2, FilesOfRow, NamedAlike
  <2>4. Named(k, q)'
    BY <1>3, <2>1, <2>3, NamedRemain
  <2> QED
    BY <1>1, <1>3, <1>5, <2>1, <2>2, <2>4, FileGoes
<1>6. CASE Goto(c, "insert", New, added(i)) /\ at' = [at EXCEPT ![c] = i]
             /\ Uploaded(i, "original")
  <2>1. PICK q \in Row : q = added(i)
    BY DEF New, Row
  <2>2. q.file = i /\ q.avif = NoImage
    BY <2>1 DEF New
  <2>3. Named(i, q)'
    BY <1>6, <2>2, SameBytesEquivalence DEF Named, There, Uploaded
  <2> HIDE DEF New, added
  <2> QED
    BY <1>1, <1>3, <1>6, <2>1, <2>3, FileGoes
<1> HIDE DEF added
<1> QED
  BY <1>2, <1>4, <1>5, <1>6

LEMMA FileInsert ==
    ASSUME FileInv, ShapeInv', NEW c \in Calls, Insert(c)
    PROVE  FileInv'
<1>1. c \in Procs /\ pc[c] \notin {"idle", "done"} /\ End(c) /\ UNCHANGED <<drive, history>>
  BY DEF Insert, Procs
<1>2. PICK i \in Images, q \in Row : i = at[c] /\ q = copy[c] /\ Named(i, q)
  BY <1>1, AtWork DEF FileInv
<1>3. FilesRemain
  BY <1>1, RemainGrown DEF history
<1>4. CASE UNCHANGED row
  BY <1>1, <1>3, <1>4, RowsUnwritten, FileEnds
<1>5. CASE Write(i, q)
  BY <1>1, <1>2, <1>3, <1>5, NamedRemain, RowsWritten, FileEnds
<1> QED
  BY <1>2, <1>4, <1>5 DEF Insert

LEMMA FileDelete ==
    ASSUME FileInv, ShapeInv', NEW c \in Calls,
           ScheduleLock(c) \/ DeleteLock(c) \/ Purge(c) \/ PurgeFails(c) \/ Remove(c)
    PROVE  FileInv'
<1>1. c \in Procs /\ pc[c] \notin {"idle", "done"}
  BY DEF ScheduleLock, DeleteLock, Purge, PurgeFails, Remove, Procs
<1>2. PICK i \in Images, q \in Row : i = at[c] /\ q = copy[c] /\ Named(i, q)
  BY <1>1, AtWork DEF FileInv
<1>3. ASSUME NEW s, FilesRemain, UNCHANGED <<row, at>>, Goto(c, s, read[c], q)
      PROVE  FileInv'
  BY <1>1, <1>2, <1>3, NamedRemain, RowsUnwritten, FileStays
<1>4. CASE \E s \in {"commit", "purge"} : LockRow(c, s)
  <2>1. FilesRemain /\ RowsNamed
    BY <1>4, RemainGrown, RowsUnwritten DEF LockRow, history
  <2> QED
    BY <1>1, <1>2, <1>3, <1>4, <2>1, FileEnds DEF LockRow
<1>5. CASE Purge(c)
  <2>1. FilesRemain
    BY <1>1, <1>2, <1>5, RemainPurged DEF Purge
  <2> QED
    BY <1>2, <1>3, <1>5, <2>1 DEF Purge
<1>6. CASE PurgeFails(c)
  <2>1. drive \ FilesOf(copy[c]) \subseteq drive'
    BY <1>6 DEF PurgeFails, FilesOf, FileInv, ShapeInv, TypeOK
  <2>2. FilesRemain /\ RowsNamed
    BY <1>1, <1>2, <1>6, <2>1, RemainPurged, RowsUnwritten DEF PurgeFails
  <2> QED
    BY <1>1, <1>6, <2>2, FileEnds DEF PurgeFails
<1>7. CASE Remove(c)
  <2>1. PICK n \in Row : n = New
    BY <1>2, RowTypes
  <2>2. Named(i, n)'
    BY <2>1, NewNamed
  <2>3. Write(i, n) /\ End(c)
    BY <1>2, <1>7, <2>1 DEF Remove
  <2>4. FilesRemain /\ RowsNamed
    BY <1>7, <2>2, <2>3, RemainGrown, RowsWritten DEF Remove, history
  <2> QED
    BY <1>1, <2>3, <2>4, FileEnds
<1> QED
  BY <1>4, <1>5, <1>6, <1>7 DEF ScheduleLock, DeleteLock

\* Steps of no session.
LEMMA FileStands ==
    ASSUME FileInv, ShapeInv', FilesRemain, RowsNamed, UNCHANGED <<at, copy>>
    PROVE  FileInv'
<1>1. ASSUME NEW p \in Procs, at'[p] \in Images PROVE Named(at[p], copy[p])'
  <2>1. PICK i \in Images, r \in Row : i = at[p] /\ r = copy[p] /\ Named(i, r)
    BY <1>1 DEF FileInv, ShapeInv, TypeOK
  <2>2. Named(i, r)'
    BY <2>1, NamedRemain
  <2> QED
    BY <2>1, <2>2 DEF Named
<1> QED
  BY <1>1, RowsRemain DEF FileInv

LEMMA FileExpires ==
    ASSUME FileInv, ShapeInv', NEW i \in Images, LeaseExpires(i)
    PROVE  FileInv'
<1>1. PICK r \in Row : r = row[i] /\ Named(i, r)
  BY DEF FileInv, ShapeInv, TypeOK
<1>2. PICK q \in Row : q = [r EXCEPT !.lease = "expired"]
  BY RowTypes
<1>3. q.file = r.file /\ q.avif = r.avif
  BY <1>2 DEF Row
<1>4. FilesRemain
  BY RemainGrown DEF LeaseExpires
<1>5. Named(i, q)'
  BY <1>1, <1>3, <1>4, NamedAlike, NamedRemain
<1>6. RowsNamed
  BY <1>1, <1>2, <1>5, RowsWritten DEF LeaseExpires
<1> QED
  BY <1>4, <1>6, FileStands DEF LeaseExpires, process

LEMMA FileNext == FileInv /\ [Next]_vars => FileInv'
<1> SUFFICES ASSUME FileInv, [Next]_vars PROVE FileInv'
  OBVIOUS
<1>1. ShapeInv'
  BY ShapeNext DEF FileInv
<1>2. CASE Register \/ UNCHANGED vars
  <2>1. UNCHANGED <<row, drive, history, at, copy>>
    BY <1>2 DEF Register, vars, process
  <2> QED
    BY <1>1, <2>1, RemainGrown, RowsUnwritten, FileStands DEF history
<1>3. ASSUME NEW j \in Jobs, JobStep(j) PROVE FileInv'
  BY <1>1, <1>3, FileClaim, FileQuiet, FileDownload, FileOptimize, FileConvert DEF JobStep
<1>4. ASSUME NEW c \in Calls, Request(c) \/ CallStep(c) \/ PurgeFails(c) PROVE FileInv'
  BY <1>1, <1>4, FileRead, FileCommit, FileAdd, FileInsert, FileDelete DEF Request, CallStep
<1>5. ASSUME NEW i \in Images, LeaseExpires(i) PROVE FileInv'
  BY <1>1, <1>5, FileExpires
<1>6. ASSUME NEW p \in Procs, GiveUp(p) \/ Crash(p) PROVE FileInv'
  BY <1>1, <1>6, FileQuit DEF GiveUp, Quit, Crash, history
<1> QED
  BY <1>2, <1>3, <1>4, <1>5, <1>6 DEF Next

\* A file that a row names has the bytes of its image, and is in Drive until an
\* image of these bytes is deleted, whatever jobs and requests cross.
THEOREM FilesKept == Spec => []FilesAreKept
<1>1. FileInv => FilesAreKept
  <2> SUFFICES ASSUME FileInv, NEW i \in present, NEW f \in File, f \in FilesOf(row[i])
               PROVE  /\ SameBytes(i, f[1])
                      /\ f \in drive \/ \E k \in purged : SameBytes(i, k)
    BY DEF FilesAreKept
  <2>1. PICK r \in Row : r = row[i] /\ i \in Images /\ Named(i, r)
    BY DEF FileInv, ShapeInv, TypeOK
  <2>2. f[1] \in Images
    BY DEF File
  <2>3. CASE f = <<r.file, "original">>
    BY <2>1, <2>2, <2>3, ImageAssumption DEF Named, There
  <2>4. CASE f = <<r.avif, "avif">>
    BY <2>1, <2>2, <2>4, ImageAssumption DEF Named, There
  <2> QED
    BY <2>1, <2>3, <2>4 DEF FilesOf
<1> QED
  BY <1>1, FileInit, FileNext, PTL DEF Spec

=============================================================================
