--------------------------- MODULE RomUpdateProofs ---------------------------
(***************************************************************************)
(* Proofs about RomUpdate, for any partitions, builds, images, chunk sizes *)
(* and command lines and for any number of runs: a capture always explains *)
(* what an interrupted update has left, data is destroyed only under a     *)
(* complete new build, and success is reported only when it is true.       *)
(***************************************************************************)
EXTENDS RomUpdate, SequenceTheorems, TLAPS

\* The run in progress was started with legal arguments; a rollback names an
\* earlier run, whose capture it has checked before it leaves "offline".
RunInv ==
  pc # "idle" =>
    /\ ValidArgs(arg)
    /\ arg.mode = "rollback" => arg.capture \in 1..(n - 1)
    /\ arg.mode = "rollback" /\ pc # "offline" => IsUpdateCapture(arg.capture)

\* Before the manifest is written nothing has been written.
FreshInv ==
  pc \in {"offline", "hash", "identify"} =>
    backup[n] = NoBackup /\ \A p \in Part : writes[n][p] = "none"

\* The write-ahead rule: the partition that is being programmed is reported so.
CurInv ==
  cur # NoPart => pc = "program" /\ cur \in todo /\ writes[n][cur] = "attempted"

\* What the report of an update says about the phone, until a later run writes.
CaptureInv ==
  \A c \in 1..n : IsUpdateCapture(c) /\ ~LaterWrites(c) =>
    \A p \in Part :
      /\ writes[c][p] = "none" => disk[p] = backup[c][p]
      /\ writes[c][p] = "verified" => Holds(disk[p], Image[args[c].to][p])

\* The snapshot of an update without --reflash is the build it was staged against.
SnapshotInv ==
  \A c \in 1..n : IsUpdateCapture(c) /\ ~args[c].reflash =>
    \A p \in Part : Holds(backup[c][p], Image[args[c].from][p])

\* The partitions that a run leaves alone hold the new image.
PlanInv ==
  pc \in {"program", "readback"} =>
    /\ arg.mode # "backup-only"
    /\ \A p \in Part \ plan : arg.mode = "update" /\ Holds(disk[p], Image[arg.to][p])

\* The partitions that the readback loop has done hold what was sent.
ReadbackInv ==
  pc = "readback" => \A p \in plan \ todo : Holds(disk[p], Payload(p))

\* After the readback every partition does.
ImagesInv ==
  pc \in {"zero", "zeroback", "final"} =>
    /\ arg.mode = "update" => Installed(arg.to)
    /\ arg.mode = "rollback" => \A p \in Part : Holds(disk[p], Payload(p))

\* The progress of the wipe.
ZeroInv ==
  /\ pc \in {"zero", "zeroback"} => arg.wipe /\ arg.mode = "update"
  /\ pc = "zeroback" => \A h \in DataPart \ todo : head[h] = "zero"
  /\ pc = "final" /\ arg.mode = "update" /\ arg.wipe => \A h \in DataPart : head[h] = "zero"

IInv ==
  /\ TypeOK
  /\ RunInv
  /\ FreshInv
  /\ CurInv
  /\ CaptureInv
  /\ SnapshotInv
  /\ PlanInv
  /\ ReadbackInv
  /\ ImagesInv
  /\ ZeroInv

-----------------------------------------------------------------------------
(* Facts about the operators *)

\* A disk has, in every partition, a function from its chunks to blocks.
LEMMA DiskElement ==
  ASSUME NEW d
  PROVE  d \in Disk <=> /\ d = [p \in Part |-> d[p]]
                        /\ \A p \in Part : d[p] \in [1..Size[p] -> Block]
<1>1. ASSUME d \in Disk
      PROVE  d = [p \in Part |-> d[p]] /\ \A p \in Part : d[p] \in [1..Size[p] -> Block]
  BY <1>1 DEF Disk
<1>2. ASSUME d = [p \in Part |-> d[p]], \A p \in Part : d[p] \in [1..Size[p] -> Block]
      PROVE  d \in Disk
  <2>1. \A p \in Part : d[p] \in UNION {[1..Size[q] -> Block] : q \in Part}
    BY <1>2
  <2>2. d \in [Part -> UNION {[1..Size[q] -> Block] : q \in Part}]
    BY <1>2, <2>1
  <2> QED BY <1>2, <2>2 DEF Disk
<1> QED BY <1>1, <1>2

\* An image fits in its partition.
LEMMA ImageFits ==
  ASSUME NEW b \in Build, NEW p \in Part
  PROVE  \A k \in DOMAIN Image[b][p] : k \in 1..Size[p] /\ Image[b][p][k] \in Block
<1>1. PICK len \in 1..Size[p] : Image[b][p] \in [1..len -> Block]
  BY ConstantsAssumption
<1>2. Size[p] \in Nat
  BY ConstantsAssumption
<1> QED BY <1>1, <1>2

\* Two partition contents of the full size of which one holds the other are equal.
LEMMA HoldsFull ==
  ASSUME NEW d \in Disk, NEW e \in Disk, \A p \in Part : Holds(d[p], e[p])
  PROVE  d = e
<1>1. ASSUME NEW p \in Part PROVE d[p] = e[p]
  <2>1. d[p] \in [1..Size[p] -> Block] /\ e[p] \in [1..Size[p] -> Block]
    BY DiskElement
  <2> QED BY <2>1 DEF Holds
<1>2. d = [p \in Part |-> d[p]] /\ e = [p \in Part |-> e[p]]
  BY DiskElement
<1> QED BY <1>1, <1>2

\* The report entry of one partition of the current run is replaced.
LEMMA WritesUpdate ==
  ASSUME TypeOK, pc # "idle", NEW p \in Part, NEW w \in WriteState,
         writes' = [writes EXCEPT ![n][p] = w]
  PROVE  /\ writes' \in Seq([Part -> WriteState]) /\ Len(writes') = n
         /\ \A c \in 1..n, q \in Part :
               writes'[c][q] = IF c = n /\ q = p THEN w ELSE writes[c][q]
<1> DEFINE e == [writes[n] EXCEPT ![p] = w]
<1>1. n \in 1..Len(writes) /\ writes \in Seq([Part -> WriteState]) /\ Len(writes) = n
  BY DEF TypeOK, n
<1>2. writes[n] \in [Part -> WriteState]
  BY <1>1
<1>3. e \in [Part -> WriteState]
  BY <1>2
<1>4. writes' = [writes EXCEPT ![n] = e]
  OBVIOUS
<1>5. /\ writes' \in Seq([Part -> WriteState]) /\ Len(writes') = Len(writes)
      /\ \A c \in 1..Len(writes) : writes'[c] = IF c = n THEN e ELSE writes[c]
  <2> DEFINE S == [Part -> WriteState]
  <2>1. n \in 1..Len(writes) /\ writes \in Seq(S) /\ e \in S
    BY <1>1, <1>3
  <2> HIDE DEF e, S
  <2>2. /\ [writes EXCEPT ![n] = e] \in Seq(S)
        /\ Len([writes EXCEPT ![n] = e]) = Len(writes)
        /\ \A c \in 1..Len(writes) : [writes EXCEPT ![n] = e][c] = IF c = n THEN e ELSE writes[c]
    BY <2>1, ExceptSeq
  <2> QED BY <1>4, <2>2 DEF S
<1> QED BY <1>1, <1>2, <1>5

\* The status of the current run is replaced.
LEMMA StatusUpdate ==
  ASSUME TypeOK, pc # "idle", NEW s \in {"ok", "stopped"},
         status' = [status EXCEPT ![n] = s]
  PROVE  /\ status' \in Seq({"running", "ok", "stopped"}) /\ Len(status') = n
         /\ \A c \in 1..n : status'[c] = IF c = n THEN s ELSE status[c]
<1>1. n \in 1..Len(status) /\ status \in Seq({"running", "ok", "stopped"}) /\ Len(status) = n
  BY DEF TypeOK, n
<1> HIDE DEF n
<1> QED BY <1>1, ExceptSeq

-----------------------------------------------------------------------------
(* The captures *)

\* Steps that change neither the partitions nor the captures.
LEMMA CaptureFrame ==
  ASSUME CaptureInv, SnapshotInv, UNCHANGED <<disk, args, writes, backup>>
  PROVE  CaptureInv' /\ SnapshotInv'
BY DEF CaptureInv, SnapshotInv, IsUpdateCapture, LaterWrites, n

\* Steps that report a write of the current run: to a later run's report the
\* captures before it have nothing to say any more.
LEMMA CaptureReport ==
  ASSUME TypeOK, pc # "idle", CaptureInv, SnapshotInv,
         NEW p \in Part, NEW w \in WriteState \ {"none"},
         writes' = [writes EXCEPT ![n][p] = w], UNCHANGED <<disk, args, backup>>,
         w = "verified" /\ arg.mode = "update" => Holds(disk[p], Image[arg.to][p])
  PROVE  CaptureInv' /\ SnapshotInv'
<1>1. /\ \A c \in 1..n, q \in Part :
            writes'[c][q] = IF c = n /\ q = p THEN w ELSE writes[c][q]
      /\ n \in Nat /\ n > 0 /\ n' = n
  BY WritesUpdate DEF TypeOK, n
<1>2. SnapshotInv'
  BY DEF SnapshotInv, IsUpdateCapture, n
<1>3. ASSUME NEW c \in 1..n, IsUpdateCapture(c), ~LaterWrites(c)'
      PROVE  c = n
  <2>1. ASSUME c # n PROVE FALSE
    <3>1. n \in (c + 1)..n /\ writes'[n][p] = w
      BY <1>1, <2>1
    <3> QED BY <1>1, <1>3, <3>1 DEF LaterWrites
  <2> QED BY <2>1
<1>4. ~LaterWrites(n)
  BY <1>1 DEF LaterWrites
<1>5. ASSUME IsUpdateCapture(n), NEW q \in Part
      PROVE  /\ writes'[n][q] = "none" => disk[q] = backup[n][q]
             /\ writes'[n][q] = "verified" => Holds(disk[q], Image[args[n].to][q])
  <2>1. n \in 1..n
    BY <1>1
  <2>2. /\ writes[n][q] = "none" => disk[q] = backup[n][q]
        /\ writes[n][q] = "verified" => Holds(disk[q], Image[args[n].to][q])
    BY <1>4, <1>5, <2>1 DEF CaptureInv
  <2>3. writes'[n][q] = IF q = p THEN w ELSE writes[n][q]
    BY <1>1, <2>1
  <2> QED BY <1>5, <2>2, <2>3 DEF IsUpdateCapture, arg
<1>6. ASSUME NEW c \in 1..n, IsUpdateCapture(c)', ~LaterWrites(c)', NEW q \in Part
      PROVE  /\ writes'[c][q] = "none" => disk'[q] = backup'[c][q]
             /\ writes'[c][q] = "verified" => Holds(disk'[q], Image[args'[c].to][q])
  <2>1. IsUpdateCapture(c)
    BY <1>6 DEF IsUpdateCapture
  <2> QED BY <1>3, <1>5, <1>6, <2>1
<1> QED BY <1>1, <1>2, <1>6 DEF CaptureInv

\* What a run sends to a partition fits in it.
LEMMA PayloadFits ==
  ASSUME TypeOK, RunInv, pc \notin {"idle", "offline"}, NEW p \in Part
  PROVE  \A k \in DOMAIN Payload(p) : k \in 1..Size[p] /\ Payload(p)[k] \in Block
<1>1. n \in Nat /\ n > 0 /\ arg \in Arg
  BY DEF TypeOK, n, arg
<1>2. CASE arg.mode = "rollback"
  <2>1. arg.capture \in 1..(n - 1) /\ backup[arg.capture] # NoBackup
    BY <1>2 DEF RunInv, IsUpdateCapture
  <2>2. backup[arg.capture] \in Disk
    BY <1>1, <2>1 DEF TypeOK
  <2>3. backup[arg.capture][p] \in [1..Size[p] -> Block]
    BY <2>2, DiskElement
  <2> QED BY <1>2, <2>3 DEF Payload
<1>3. CASE arg.mode # "rollback"
  <2>1. arg.to \in Build
    BY <1>1 DEF Arg
  <2> QED BY <1>3, <2>1, ImageFits DEF Payload
<1> QED BY <1>2, <1>3

\* A chunk lands (or does not): the disk stays a disk and changes in cur only.
LEMMA ChunkLands ==
  ASSUME TypeOK, RunInv, WriteChunk
  PROVE  /\ cur \in Part
         /\ disk' \in Disk
         /\ \A p \in Part \ {cur} : disk'[p] = disk[p]
<1>1. cur \in Part /\ Junk \in Block
  BY ConstantsAssumption DEF TypeOK, WriteChunk
<1>2. PICK x \in {Payload(cur)[off + 1], Junk} : disk' = [disk EXCEPT ![cur][off + 1] = x]
  BY DEF WriteChunk
<1>3. x \in Block /\ off + 1 \in 1..Size[cur]
  BY <1>1, <1>2, PayloadFits DEF WriteChunk
<1>4. disk = [p \in Part |-> disk[p]] /\ \A p \in Part : disk[p] \in [1..Size[p] -> Block]
  BY DiskElement DEF TypeOK
<1>5. disk' = [p \in Part |-> IF p = cur THEN [disk[p] EXCEPT ![off + 1] = x] ELSE disk[p]]
  BY <1>2, <1>4
<1>6. \A p \in Part : disk'[p] \in [1..Size[p] -> Block]
  BY <1>3, <1>4, <1>5
<1>7. disk' \in Disk
  BY <1>5, <1>6, DiskElement
<1> QED BY <1>1, <1>5, <1>7

\* WriteChunk: only the current run's capture still speaks of the phone, and it
\* says "attempted" of the partition that changes.
LEMMA CaptureChunk ==
  ASSUME TypeOK, RunInv, CurInv, CaptureInv, SnapshotInv, WriteChunk
  PROVE  CaptureInv' /\ SnapshotInv'
<1>1. /\ cur \in Part /\ writes[n][cur] = "attempted" /\ n \in Nat /\ n > 0
      /\ \A p \in Part \ {cur} : disk'[p] = disk[p]
  BY ChunkLands DEF CurInv, TypeOK, n, WriteChunk
<1>2. UNCHANGED <<args, writes, backup>> /\ n' = n
  BY DEF WriteChunk, capture, n
<1>3. SnapshotInv'
  BY <1>2 DEF SnapshotInv, IsUpdateCapture
<1>4. ASSUME NEW c \in 1..n, ~LaterWrites(c) PROVE c = n
  <2>1. ASSUME c # n PROVE FALSE
    <3>1. n \in (c + 1)..n
      BY <1>1, <2>1
    <3> QED BY <1>1, <1>4, <3>1 DEF LaterWrites
  <2> QED BY <2>1
<1>5. \A c \in 1..n : /\ IsUpdateCapture(c) <=> IsUpdateCapture(c)'
                      /\ (LaterWrites(c) <=> LaterWrites(c)')
  BY <1>2 DEF IsUpdateCapture, LaterWrites
<1>6. ASSUME NEW c \in 1..n, IsUpdateCapture(c), ~LaterWrites(c), NEW p \in Part
      PROVE  /\ writes[c][p] = "none" => disk'[p] = backup[c][p]
             /\ writes[c][p] = "verified" => Holds(disk'[p], Image[args[c].to][p])
  <2>1. CASE p = cur
    BY <1>1, <1>4, <1>6, <2>1
  <2>2. CASE p # cur
    BY <1>1, <1>6, <2>2 DEF CaptureInv
  <2> QED BY <2>1, <2>2
<1> QED BY <1>2, <1>3, <1>5, <1>6 DEF CaptureInv

\* IdentifyBuild: the snapshot of the manifest is what is on the phone, and
\* nothing has been written yet.
LEMMA CaptureSnapshot ==
  ASSUME TypeOK, FreshInv, CaptureInv, SnapshotInv, IdentifyBuild
  PROVE  /\ backup' \in Seq(Disk \cup {NoBackup}) /\ Len(backup') = n
         /\ \A c \in 1..n : c # n => backup'[c] = backup[c]
         /\ CaptureInv' /\ SnapshotInv'
<1> DEFINE e == IF arg.policy = "snapshot" THEN disk ELSE NoBackup
           S == Disk \cup {NoBackup}
<1>1. /\ n \in Nat /\ n > 0 /\ n' = n /\ UNCHANGED <<disk, args, writes>>
      /\ backup \in Seq(S) /\ Len(backup) = n /\ n \in 1..Len(backup) /\ e \in S
  BY DEF TypeOK, IdentifyBuild, n, phone
<1>2. backup' = [backup EXCEPT ![n] = e]
  BY DEF IdentifyBuild
<1>3. /\ backup' \in Seq(S) /\ Len(backup') = n
      /\ \A c \in 1..n : backup'[c] = IF c = n THEN e ELSE backup[c]
  <2> HIDE DEF e, S
  <2> QED BY <1>1, <1>2, ExceptSeq
<1>4. \A p \in Part : writes[n][p] = "none"
  BY DEF FreshInv, IdentifyBuild
<1>5. \A c \in 1..n : LaterWrites(c) <=> LaterWrites(c)'
  BY <1>1 DEF LaterWrites
<1>6. \A c \in 1..n : c # n => (IsUpdateCapture(c) <=> IsUpdateCapture(c)')
  BY <1>1, <1>3 DEF IsUpdateCapture
<1>7. \A c \in 1..n : c = n /\ IsUpdateCapture(c)' => backup'[c] = disk
  BY <1>1, <1>3 DEF IsUpdateCapture
<1>8. ASSUME ~arg.reflash, NEW p \in Part PROVE Holds(disk[p], Image[arg.from][p])
  <2>1. {identify(q) : q \in Part} = {"prev"}
    BY <1>8 DEF IdentifyBuild, PredecessorOK
  <2>2. identify(p) = "prev"
    BY <2>1
  <2> QED BY <2>2 DEF identify
<1>9. CaptureInv'
  <2>1. ASSUME NEW c \in 1..n, IsUpdateCapture(c)', ~LaterWrites(c)', NEW p \in Part
        PROVE  /\ writes[c][p] = "none" => disk[p] = backup'[c][p]
               /\ writes[c][p] = "verified" => Holds(disk[p], Image[args[c].to][p])
    <3>1. CASE c = n
      BY <1>4, <1>7, <2>1, <3>1
    <3>2. CASE c # n
      BY <1>3, <1>5, <1>6, <2>1, <3>2 DEF CaptureInv
    <3> QED BY <3>1, <3>2
  <2> QED BY <1>1, <2>1 DEF CaptureInv
<1>10. SnapshotInv'
  <2>1. ASSUME NEW c \in 1..n, IsUpdateCapture(c)', ~args[c].reflash, NEW p \in Part
        PROVE  Holds(backup'[c][p], Image[args[c].from][p])
    <3>1. CASE c = n
      BY <1>7, <1>8, <2>1, <3>1 DEF arg
    <3>2. CASE c # n
      BY <1>3, <1>6, <2>1, <3>2 DEF SnapshotInv
    <3> QED BY <3>1, <3>2
  <2> QED BY <1>1, <2>1 DEF SnapshotInv
<1> QED BY <1>3, <1>9, <1>10

\* Launch: the logs grow by one run that has no snapshot and no writes.
LEMMA CaptureLaunch ==
  ASSUME TypeOK, CaptureInv, SnapshotInv, NEW a \in Arg, Launch(a)
  PROVE  /\ n \in Nat /\ n' = n + 1
         /\ args' \in Seq(Arg)
         /\ status' \in Seq({"running", "ok", "stopped"}) /\ Len(status') = n'
         /\ writes' \in Seq([Part -> WriteState]) /\ Len(writes') = n'
         /\ backup' \in Seq(Disk \cup {NoBackup}) /\ Len(backup') = n'
         /\ arg' = a /\ backup'[n'] = NoBackup /\ \A p \in Part : writes'[n'][p] = "none"
         /\ \A c \in 1..n : args'[c] = args[c] /\ backup'[c] = backup[c] /\ writes'[c] = writes[c]
                             /\ status'[c] = status[c]
         /\ CaptureInv' /\ SnapshotInv'
<1> DEFINE w == [p \in Part |-> "none"]
<1>1. /\ n \in Nat /\ w \in [Part -> WriteState] /\ Len(status) = n /\ Len(writes) = n
      /\ Len(backup) = n
  BY DEF TypeOK, n, WriteState
<1>2. /\ args' \in Seq(Arg) /\ Len(args') = n + 1 /\ args'[n + 1] = a
      /\ \A c \in 1..n : args'[c] = args[c]
  BY AppendProperties DEF TypeOK, Launch, n
<1>3. /\ status' \in Seq({"running", "ok", "stopped"}) /\ Len(status') = n + 1
      /\ \A c \in 1..n : status'[c] = status[c]
  BY <1>1, AppendProperties DEF TypeOK, Launch
<1>4. /\ writes' \in Seq([Part -> WriteState]) /\ Len(writes') = n + 1 /\ writes'[n + 1] = w
      /\ \A c \in 1..n : writes'[c] = writes[c]
  <2>1. writes' = Append(writes, w) /\ writes \in Seq([Part -> WriteState])
    BY DEF TypeOK, Launch
  <2> HIDE DEF w
  <2> QED BY <1>1, <2>1, AppendProperties
<1>5. /\ /\ backup' \in Seq(Disk \cup {NoBackup}) /\ Len(backup') = n + 1
      /\ backup'[n + 1] = NoBackup
      /\ \A c \in 1..n : backup'[c] = backup[c]
  BY <1>1, AppendProperties DEF TypeOK, Launch
<1>6. n' = n + 1 /\ arg' = a /\ disk' = disk /\ 1..n' = 1..n \cup {n'}
  BY <1>1, <1>2 DEF n, arg, Launch, phone
<1>7. \A c \in 1..n' : c = n' => ~IsUpdateCapture(c)'
  BY <1>5, <1>6 DEF IsUpdateCapture
<1>8. \A c \in 1..n : IsUpdateCapture(c)' <=> IsUpdateCapture(c)
  BY <1>2, <1>5 DEF IsUpdateCapture
<1>9. ASSUME NEW c \in 1..n, LaterWrites(c) PROVE LaterWrites(c)'
  BY <1>1, <1>4, <1>6, <1>9 DEF LaterWrites
<1>10. CaptureInv'
  BY <1>2, <1>4, <1>5, <1>6, <1>7, <1>8, <1>9 DEF CaptureInv
<1>11. SnapshotInv'
  BY <1>2, <1>5, <1>6, <1>7, <1>8 DEF SnapshotInv
<1> QED BY <1>1, <1>2, <1>3, <1>4, <1>5, <1>6, <1>10, <1>11

-----------------------------------------------------------------------------
(* The inductive invariant *)

\* The inductive invariant holds at the start: no run, an installed build.
LEMMA InitIInv == Init => IInv
<1> SUFFICES ASSUME Init PROVE IInv
  OBVIOUS
<1>1. n = 0
  BY DEF Init, n
<1>2. disk \in Disk
  <2>1. ASSUME NEW p \in Part PROVE disk[p] \in [1..Size[p] -> Block]
    BY ImageFits, ConstantsAssumption DEF Init
  <2>2. disk = [p \in Part |-> disk[p]]
    BY DEF Init
  <2> QED BY <2>1, <2>2, DiskElement
<1>3. TypeOK
  BY <1>1, <1>2, ConstantsAssumption DEF Init, TypeOK
<1> QED BY <1>1, <1>3 DEF Init, IInv, RunInv, FreshInv, CurInv, CaptureInv, SnapshotInv,
                          PlanInv, ReadbackInv, ImagesInv, ZeroInv

\* In a step that launches no run the current run stays the current run.
LEMMA SameRun ==
  ASSUME TypeOK, UNCHANGED args
  PROVE  n \in Nat /\ n' = n /\ arg' = arg
BY DEF TypeOK, n, arg

\* Every step preserves the inductive invariant.
LEMMA NextIInv == IInv /\ [Next]_vars => IInv'
<1> SUFFICES ASSUME IInv, [Next]_vars PROVE IInv'
  OBVIOUS
<1>0. /\ TypeOK /\ RunInv /\ FreshInv /\ CurInv /\ CaptureInv /\ SnapshotInv
      /\ PlanInv /\ ReadbackInv /\ ImagesInv /\ ZeroInv
  BY DEF IInv
<1>1. ASSUME NEW a \in Launches, Launch(a) PROVE IInv'
  <2>1. a \in Arg /\ ValidArgs(a)
    BY <1>1, ConstantsAssumption DEF Launch
  <2>2. /\ n \in Nat /\ n' = n + 1
        /\ args' \in Seq(Arg)
        /\ status' \in Seq({"running", "ok", "stopped"}) /\ Len(status') = n'
        /\ writes' \in Seq([Part -> WriteState]) /\ Len(writes') = n'
        /\ backup' \in Seq(Disk \cup {NoBackup}) /\ Len(backup') = n'
        /\ arg' = a /\ backup'[n'] = NoBackup /\ \A p \in Part : writes'[n'][p] = "none"
        /\ CaptureInv' /\ SnapshotInv'
    BY <1>0, <1>1, <2>1, CaptureLaunch
  <2>3. /\ pc = "idle" /\ pc' = "offline"
        /\ UNCHANGED <<disk, head, prot, todo, plan, cur, off, invBefore>>
    BY <1>1 DEF Launch, phone
  <2>4. TypeOK'
    BY <1>0, <2>2, <2>3 DEF TypeOK
  <2>5. RunInv' /\ FreshInv' /\ CurInv'
    BY <1>0, <1>1, <2>1, <2>2, <2>3 DEF Launch, RunInv, ValidArgs, FreshInv, CurInv
  <2>6. PlanInv' /\ ReadbackInv' /\ ImagesInv' /\ ZeroInv'
    BY <2>3 DEF PlanInv, ReadbackInv, ImagesInv, ZeroInv
  <2> QED BY <2>2, <2>4, <2>5, <2>6 DEF IInv
<1>2. CASE OfflineChecks
  <2>1. n \in Nat /\ n' = n /\ arg' = arg
    BY <1>0, <1>2, SameRun DEF OfflineChecks, phone, capture
  <2>2. TypeOK'
    BY <1>0, <1>2, <2>1 DEF OfflineChecks, phone, capture, TypeOK
  <2>3. RunInv' /\ FreshInv' /\ CurInv'
    BY <1>0, <1>2, <2>1 DEF OfflineChecks, phone, capture, RunInv, ValidArgs, FreshInv,
         IsUpdateCapture, CurInv
  <2>4. CaptureInv' /\ SnapshotInv'
    BY <1>0, <1>2, CaptureFrame DEF OfflineChecks, phone, capture
  <2>5. PlanInv' /\ ReadbackInv'
    BY <1>0, <1>2, <2>1 DEF OfflineChecks, phone, capture, PlanInv, ReadbackInv, Payload
  <2>6. ImagesInv' /\ ZeroInv'
    BY <1>0, <1>2, <2>1 DEF OfflineChecks, phone, capture, ImagesInv, ZeroInv, Payload, Installed
  <2> QED BY <2>2, <2>3, <2>4, <2>5, <2>6 DEF IInv
<1>3. CASE HashInvariants
  <2>1. n \in Nat /\ n' = n /\ arg' = arg
    BY <1>0, <1>3, SameRun DEF HashInvariants, phone, capture
  <2>2. TypeOK'
    BY <1>0, <1>3, <2>1 DEF HashInvariants, phone, capture, TypeOK
  <2>3. RunInv' /\ FreshInv' /\ CurInv'
    BY <1>0, <1>3, <2>1 DEF HashInvariants, phone, capture, RunInv, ValidArgs, FreshInv,
         IsUpdateCapture, CurInv
  <2>4. CaptureInv' /\ SnapshotInv'
    BY <1>0, <1>3, CaptureFrame DEF HashInvariants, phone, capture
  <2>5. PlanInv' /\ ReadbackInv'
    BY <1>0, <1>3, <2>1 DEF HashInvariants, phone, capture, PlanInv, ReadbackInv, Payload
  <2>6. ImagesInv' /\ ZeroInv'
    BY <1>0, <1>3, <2>1 DEF HashInvariants, phone, capture, ImagesInv, ZeroInv, Payload, Installed
  <2> QED BY <2>2, <2>3, <2>4, <2>5, <2>6 DEF IInv
<1>4. CASE IdentifyBuild
  <2>1. n \in Nat /\ n' = n /\ arg' = arg
    BY <1>0, <1>4, SameRun DEF IdentifyBuild, phone
  <2>2. /\ backup' \in Seq(Disk \cup {NoBackup}) /\ Len(backup') = n
        /\ \A c \in 1..n : c # n => backup'[c] = backup[c]
        /\ CaptureInv' /\ SnapshotInv'
    BY <1>0, <1>4, CaptureSnapshot
  <2>3. TypeOK'
    BY <1>0, <1>4, <2>1, <2>2 DEF IdentifyBuild, phone, TypeOK
  <2>4. RunInv' /\ FreshInv' /\ CurInv'
    BY <1>0, <1>4, <2>1, <2>2 DEF IdentifyBuild, phone, RunInv, ValidArgs, FreshInv,
         IsUpdateCapture, CurInv
  <2>5. CaptureInv' /\ SnapshotInv'
    BY <2>2
  <2>6. PlanInv' /\ ReadbackInv'
    <3>1. arg \in Arg /\ arg.mode # "rollback" /\ UNCHANGED disk
      BY <1>0, <1>4, <2>1 DEF IdentifyBuild, TypeOK, arg, n, phone
    <3>2. ASSUME NEW p \in Unchanged PROVE Holds(disk[p], Image[arg.to][p])
      BY <3>2 DEF Unchanged, Same, identify
    <3>3. /\ pc' # "readback"
          /\ (pc' = "program" => arg.mode # "backup-only" /\ plan' = Part \ Unchanged)
      BY <1>4 DEF IdentifyBuild
    <3>4. pc' = "program" => arg.mode = "update"
      BY <3>1, <3>3 DEF Arg
    <3> QED BY <2>1, <3>1, <3>2, <3>3, <3>4 DEF PlanInv, ReadbackInv
  <2>7. ImagesInv' /\ ZeroInv'
    BY <1>0, <1>4, <2>1, <2>2 DEF IdentifyBuild, phone, ImagesInv, ZeroInv, Payload, Installed
  <2> QED BY <2>3, <2>4, <2>5, <2>6, <2>7 DEF IInv
<1>5. CASE IdentifyRollback
  <2>1. n \in Nat /\ n' = n /\ arg' = arg
    BY <1>0, <1>5, SameRun DEF IdentifyRollback, phone, capture
  <2>2. TypeOK'
    BY <1>0, <1>5, <2>1 DEF IdentifyRollback, phone, capture, TypeOK
  <2>3. RunInv' /\ FreshInv' /\ CurInv'
    BY <1>0, <1>5, <2>1 DEF IdentifyRollback, phone, capture, RunInv, ValidArgs, FreshInv,
         IsUpdateCapture, CurInv
  <2>4. CaptureInv' /\ SnapshotInv'
    BY <1>0, <1>5, CaptureFrame DEF IdentifyRollback, phone, capture
  <2>5. PlanInv' /\ ReadbackInv'
    BY <1>0, <1>5, <2>1 DEF IdentifyRollback, phone, capture, PlanInv, ReadbackInv, Payload
  <2>6. ImagesInv' /\ ZeroInv'
    BY <1>0, <1>5, <2>1 DEF IdentifyRollback, phone, capture, ImagesInv, ZeroInv, Payload,
         Installed
  <2> QED BY <2>2, <2>3, <2>4, <2>5, <2>6 DEF IInv
<1>6. ASSUME NEW p \in Part, BeginProgram(p) PROVE IInv'
  <2>1. n \in Nat /\ n' = n /\ arg' = arg
    BY <1>0, <1>6, SameRun DEF BeginProgram, phone, IsNext
  <2>2. /\ p \in Part /\ pc # "idle" /\ writes' = [writes EXCEPT ![n][p] = "attempted"]
        /\ UNCHANGED <<disk, args, backup>>
    BY <1>0, <1>6 DEF BeginProgram, IsNext, TypeOK, phone
  <2>3. /\ writes' \in Seq([Part -> WriteState]) /\ Len(writes') = n
        /\ \A c \in 1..n, q \in Part :
              writes'[c][q] = IF c = n /\ q = p THEN "attempted" ELSE writes[c][q]
    BY <1>0, <2>2, WritesUpdate DEF WriteState
  <2>4. TypeOK'
    BY <1>0, <1>6, <2>1, <2>2, <2>3 DEF BeginProgram, phone, IsNext, TypeOK
  <2>5. RunInv' /\ FreshInv' /\ CurInv'
    BY <1>0, <1>6, <2>1, <2>2, <2>3 DEF BeginProgram, phone, IsNext, RunInv, ValidArgs,
         FreshInv, IsUpdateCapture, CurInv
  <2>6. CaptureInv' /\ SnapshotInv'
    BY <1>0, <2>2, CaptureReport DEF WriteState
  <2>7. PlanInv' /\ ReadbackInv'
    BY <1>0, <1>6, <2>1, <2>2, <2>3 DEF BeginProgram, phone, IsNext, PlanInv, ReadbackInv, Payload
  <2>8. ImagesInv' /\ ZeroInv'
    BY <1>0, <1>6, <2>1, <2>2, <2>3 DEF BeginProgram, phone, IsNext, ImagesInv, ZeroInv,
         Payload, Installed
  <2> QED BY <2>4, <2>5, <2>6, <2>7, <2>8 DEF IInv
<1>7. CASE WriteChunk
  <2>1. n \in Nat /\ n' = n /\ arg' = arg
    BY <1>0, <1>7, SameRun DEF WriteChunk, capture
  <2>2. /\ disk' \in Disk /\ cur \in plan /\ \A p \in Part \ {cur} : disk'[p] = disk[p]
        /\ cur \in Part /\ UNCHANGED <<args, status, writes, backup>>
    BY <1>0, <1>7, ChunkLands DEF WriteChunk, CurInv, TypeOK, capture
  <2>3. TypeOK'
    BY <1>0, <1>7, <2>1, <2>2 DEF WriteChunk, capture, TypeOK
  <2>4. RunInv' /\ FreshInv' /\ CurInv'
    BY <1>0, <1>7, <2>1, <2>2 DEF WriteChunk, capture, RunInv, ValidArgs, FreshInv,
         IsUpdateCapture, CurInv
  <2>5. CaptureInv' /\ SnapshotInv'
    BY <1>0, <1>7, <2>2, CaptureChunk DEF WriteChunk, capture
  <2>6. PlanInv' /\ ReadbackInv'
    BY <1>0, <1>7, <2>1, <2>2 DEF WriteChunk, capture, PlanInv, ReadbackInv, Payload
  <2>7. ImagesInv' /\ ZeroInv'
    BY <1>0, <1>7, <2>1, <2>2 DEF WriteChunk, capture, ImagesInv, ZeroInv, Payload, Installed
  <2> QED BY <2>3, <2>4, <2>5, <2>6, <2>7 DEF IInv
<1>8. CASE EndProgram
  <2>1. n \in Nat /\ n' = n /\ arg' = arg
    BY <1>0, <1>8, SameRun DEF EndProgram, phone
  <2>2. /\ cur \in Part /\ pc # "idle" /\ writes' = [writes EXCEPT ![n][cur] = "acknowledged"]
        /\ UNCHANGED <<disk, args, backup>>
    BY <1>0, <1>8 DEF EndProgram, IsNext, TypeOK, phone
  <2>3. /\ writes' \in Seq([Part -> WriteState]) /\ Len(writes') = n
        /\ \A c \in 1..n, q \in Part :
              writes'[c][q] = IF c = n /\ q = cur THEN "acknowledged" ELSE writes[c][q]
    BY <1>0, <2>2, WritesUpdate DEF WriteState
  <2>4. TypeOK'
    BY <1>0, <1>8, <2>1, <2>2, <2>3 DEF EndProgram, phone, TypeOK
  <2>5. RunInv' /\ FreshInv' /\ CurInv'
    BY <1>0, <1>8, <2>1, <2>2, <2>3 DEF EndProgram, phone, RunInv, ValidArgs, FreshInv,
         IsUpdateCapture, CurInv
  <2>6. CaptureInv' /\ SnapshotInv'
    BY <1>0, <2>2, CaptureReport DEF WriteState
  <2>7. PlanInv' /\ ReadbackInv'
    BY <1>0, <1>8, <2>1, <2>2, <2>3 DEF EndProgram, phone, PlanInv, ReadbackInv, Payload
  <2>8. ImagesInv' /\ ZeroInv'
    BY <1>0, <1>8, <2>1, <2>2, <2>3 DEF EndProgram, phone, ImagesInv, ZeroInv, Payload, Installed
  <2> QED BY <2>4, <2>5, <2>6, <2>7, <2>8 DEF IInv
<1>9. CASE AllProgrammed
  <2>1. n \in Nat /\ n' = n /\ arg' = arg
    BY <1>0, <1>9, SameRun DEF AllProgrammed, phone, capture
  <2>2. TypeOK'
    BY <1>0, <1>9, <2>1 DEF AllProgrammed, phone, capture, TypeOK
  <2>3. RunInv' /\ FreshInv' /\ CurInv'
    BY <1>0, <1>9, <2>1 DEF AllProgrammed, phone, capture, RunInv, ValidArgs, FreshInv,
         IsUpdateCapture, CurInv
  <2>4. CaptureInv' /\ SnapshotInv'
    BY <1>0, <1>9, CaptureFrame DEF AllProgrammed, phone, capture
  <2>5. PlanInv' /\ ReadbackInv'
    BY <1>0, <1>9, <2>1 DEF AllProgrammed, phone, capture, PlanInv, ReadbackInv, Payload
  <2>6. ImagesInv' /\ ZeroInv'
    BY <1>0, <1>9, <2>1 DEF AllProgrammed, phone, capture, ImagesInv, ZeroInv, Payload, Installed
  <2> QED BY <2>2, <2>3, <2>4, <2>5, <2>6 DEF IInv
<1>10. ASSUME NEW p \in Part, VerifyWritten(p) PROVE IInv'
  <2>1. n \in Nat /\ n' = n /\ arg' = arg
    BY <1>0, <1>10, SameRun DEF VerifyWritten, phone, IsNext
  <2>2. /\ p \in Part /\ pc # "idle" /\ writes' = [writes EXCEPT ![n][p] = "verified"]
        /\ UNCHANGED <<disk, args, backup>>
    BY <1>0, <1>10 DEF VerifyWritten, IsNext, TypeOK, phone
  <2>3. /\ writes' \in Seq([Part -> WriteState]) /\ Len(writes') = n
        /\ \A c \in 1..n, q \in Part :
              writes'[c][q] = IF c = n /\ q = p THEN "verified" ELSE writes[c][q]
    BY <1>0, <2>2, WritesUpdate DEF WriteState
  <2>4. TypeOK'
    BY <1>0, <1>10, <2>1, <2>2, <2>3 DEF VerifyWritten, phone, IsNext, TypeOK
  <2>5. RunInv' /\ FreshInv' /\ CurInv'
    BY <1>0, <1>10, <2>1, <2>2, <2>3 DEF VerifyWritten, phone, IsNext, RunInv, ValidArgs,
         FreshInv, IsUpdateCapture, CurInv
  <2>6. CaptureInv' /\ SnapshotInv'
    BY <1>0, <1>10, <2>2, CaptureReport DEF VerifyWritten, Payload, WriteState
  <2>7. PlanInv' /\ ReadbackInv'
    BY <1>0, <1>10, <2>1, <2>2, <2>3 DEF VerifyWritten, phone, IsNext, PlanInv, ReadbackInv,
         Payload
  <2>8. ImagesInv' /\ ZeroInv'
    BY <1>0, <1>10, <2>1, <2>2, <2>3 DEF VerifyWritten, phone, IsNext, ImagesInv, ZeroInv,
         Payload, Installed
  <2> QED BY <2>4, <2>5, <2>6, <2>7, <2>8 DEF IInv
<1>11. ASSUME NEW p \in Part, ReadbackDiffers(p) PROVE IInv'
  <2>1. n \in Nat /\ n' = n /\ arg' = arg
    BY <1>0, <1>11, SameRun DEF ReadbackDiffers, EndRun, phone, IsNext
  <2>2. /\ p \in Part /\ pc # "idle" /\ writes' = [writes EXCEPT ![n][p] = "differs"]
        /\ UNCHANGED <<disk, args, backup>>
    BY <1>0, <1>11 DEF ReadbackDiffers, IsNext, TypeOK, phone
  <2>3. /\ writes' \in Seq([Part -> WriteState]) /\ Len(writes') = n
        /\ \A c \in 1..n, q \in Part :
              writes'[c][q] = IF c = n /\ q = p THEN "differs" ELSE writes[c][q]
    BY <1>0, <2>2, WritesUpdate DEF WriteState
  <2>4. status' \in Seq({"running", "ok", "stopped"}) /\ Len(status') = n
    BY <1>0, <1>11, StatusUpdate DEF ReadbackDiffers, EndRun
  <2>5. TypeOK'
    BY <1>0, <1>11, <2>1, <2>2, <2>3, <2>4, ConstantsAssumption DEF ReadbackDiffers, EndRun,
         phone, TypeOK
  <2>6. RunInv' /\ FreshInv' /\ CurInv'
    BY <1>0, <1>11, <2>1, <2>2, <2>3, <2>4 DEF ReadbackDiffers, EndRun, phone, IsNext, RunInv,
         ValidArgs, FreshInv, IsUpdateCapture, CurInv
  <2>7. CaptureInv' /\ SnapshotInv'
    BY <1>0, <2>2, CaptureReport DEF WriteState
  <2>8. PlanInv' /\ ReadbackInv'
    BY <1>0, <1>11, <2>1, <2>2, <2>3, <2>4 DEF ReadbackDiffers, EndRun, phone, IsNext, PlanInv,
         ReadbackInv, Payload
  <2>9. ImagesInv' /\ ZeroInv'
    BY <1>0, <1>11, <2>1, <2>2, <2>3, <2>4 DEF ReadbackDiffers, EndRun, phone, IsNext,
         ImagesInv, ZeroInv, Payload, Installed
  <2> QED BY <2>5, <2>6, <2>7, <2>8, <2>9 DEF IInv
<1>12. CASE AllVerified
  <2>1. n \in Nat /\ n' = n /\ arg' = arg
    BY <1>0, <1>12, SameRun DEF AllVerified, phone, capture
  <2>2. TypeOK'
    BY <1>0, <1>12, <2>1 DEF AllVerified, phone, capture, TypeOK
  <2>3. RunInv' /\ FreshInv' /\ CurInv'
    BY <1>0, <1>12, <2>1 DEF AllVerified, phone, capture, RunInv, ValidArgs, FreshInv,
         IsUpdateCapture, CurInv
  <2>4. CaptureInv' /\ SnapshotInv'
    BY <1>0, <1>12, CaptureFrame DEF AllVerified, phone, capture
  <2>5. PlanInv' /\ ReadbackInv'
    BY <1>0, <1>12, <2>1 DEF AllVerified, phone, capture, PlanInv, ReadbackInv, Payload
  <2>6. ImagesInv' /\ ZeroInv'
    <3>1. \A p \in Part : IF p \in plan THEN Holds(disk[p], Payload(p))
                          ELSE arg.mode = "update" /\ Holds(disk[p], Image[arg.to][p])
      BY <1>0, <1>12 DEF AllVerified, PlanInv, ReadbackInv
    <3>2. arg.mode \in {"update", "rollback"} /\ (arg.wipe => arg.mode = "update")
      <4>1. arg \in Arg /\ pc = "readback"
        BY <1>0, <1>12 DEF AllVerified, TypeOK, arg, n
      <4> QED BY <1>0, <4>1 DEF Arg, RunInv, ValidArgs, PlanInv
    <3>3. UNCHANGED <<disk, args, backup>> /\ pc' \in {"zero", "final"}
          /\ (pc' = "zero" => arg.wipe) /\ (pc' = "final" => ~arg.wipe)
      BY <1>12 DEF AllVerified, phone, capture
    <3>4. arg.mode = "update" => Installed(arg.to)
      BY <3>1 DEF Payload, Installed
    <3>5. arg.mode = "rollback" => \A p \in Part : Holds(disk[p], Payload(p))
      BY <3>1
    <3>6. ImagesInv'
      BY <2>1, <3>3, <3>4, <3>5 DEF ImagesInv, Installed, Payload
    <3>7. ZeroInv'
      BY <2>1, <3>2, <3>3 DEF ZeroInv
    <3> QED BY <3>6, <3>7
  <2> QED BY <2>2, <2>3, <2>4, <2>5, <2>6 DEF IInv
<1>13. ASSUME NEW h \in DataPart, ZeroHead(h) PROVE IInv'
  <2>1. n \in Nat /\ n' = n /\ arg' = arg
    BY <1>0, <1>13, SameRun DEF ZeroHead, phone, capture
  <2>2. TypeOK'
    BY <1>0, <1>13, <2>1 DEF ZeroHead, phone, capture, TypeOK
  <2>3. RunInv' /\ FreshInv' /\ CurInv'
    BY <1>0, <1>13, <2>1 DEF ZeroHead, phone, capture, RunInv, ValidArgs, FreshInv,
         IsUpdateCapture, CurInv
  <2>4. CaptureInv' /\ SnapshotInv'
    BY <1>0, <1>13, CaptureFrame DEF ZeroHead, phone, capture
  <2>5. PlanInv' /\ ReadbackInv'
    BY <1>0, <1>13, <2>1 DEF ZeroHead, phone, capture, PlanInv, ReadbackInv, Payload
  <2>6. ImagesInv' /\ ZeroInv'
    BY <1>0, <1>13, <2>1 DEF ZeroHead, phone, capture, ImagesInv, ZeroInv, Payload, Installed
  <2> QED BY <2>2, <2>3, <2>4, <2>5, <2>6 DEF IInv
<1>14. CASE AllZeroed
  <2>1. n \in Nat /\ n' = n /\ arg' = arg
    BY <1>0, <1>14, SameRun DEF AllZeroed, phone, capture
  <2>2. TypeOK'
    BY <1>0, <1>14, <2>1 DEF AllZeroed, phone, capture, TypeOK
  <2>3. RunInv' /\ FreshInv' /\ CurInv'
    BY <1>0, <1>14, <2>1 DEF AllZeroed, phone, capture, RunInv, ValidArgs, FreshInv,
         IsUpdateCapture, CurInv
  <2>4. CaptureInv' /\ SnapshotInv'
    BY <1>0, <1>14, CaptureFrame DEF AllZeroed, phone, capture
  <2>5. PlanInv' /\ ReadbackInv'
    BY <1>0, <1>14, <2>1 DEF AllZeroed, phone, capture, PlanInv, ReadbackInv, Payload
  <2>6. ImagesInv' /\ ZeroInv'
    BY <1>0, <1>14, <2>1 DEF AllZeroed, phone, capture, ImagesInv, ZeroInv, Payload, Installed
  <2> QED BY <2>2, <2>3, <2>4, <2>5, <2>6 DEF IInv
<1>15. ASSUME NEW h \in DataPart, VerifyZero(h) PROVE IInv'
  <2>1. n \in Nat /\ n' = n /\ arg' = arg
    BY <1>0, <1>15, SameRun DEF VerifyZero, phone, capture
  <2>2. TypeOK'
    BY <1>0, <1>15, <2>1 DEF VerifyZero, phone, capture, TypeOK
  <2>3. RunInv' /\ FreshInv' /\ CurInv'
    BY <1>0, <1>15, <2>1 DEF VerifyZero, phone, capture, RunInv, ValidArgs, FreshInv,
         IsUpdateCapture, CurInv
  <2>4. CaptureInv' /\ SnapshotInv'
    BY <1>0, <1>15, CaptureFrame DEF VerifyZero, phone, capture
  <2>5. PlanInv' /\ ReadbackInv'
    BY <1>0, <1>15, <2>1 DEF VerifyZero, phone, capture, PlanInv, ReadbackInv, Payload
  <2>6. ImagesInv' /\ ZeroInv'
    BY <1>0, <1>15, <2>1 DEF VerifyZero, phone, capture, ImagesInv, ZeroInv, Payload, Installed
  <2> QED BY <2>2, <2>3, <2>4, <2>5, <2>6 DEF IInv
<1>16. CASE Power
  <2>1. n \in Nat /\ n' = n /\ arg' = arg
    BY <1>0, <1>16, SameRun DEF Power, EndRun, phone
  <2>2. status' \in Seq({"running", "ok", "stopped"}) /\ Len(status') = n
    BY <1>0, <1>16, StatusUpdate DEF Power, EndRun
  <2>3. TypeOK'
    BY <1>0, <1>16, <2>1, <2>2, ConstantsAssumption DEF Power, EndRun, phone, TypeOK
  <2>4. RunInv' /\ FreshInv' /\ CurInv'
    BY <1>0, <1>16, <2>1, <2>2 DEF Power, EndRun, phone, RunInv, ValidArgs, FreshInv,
         IsUpdateCapture, CurInv
  <2>5. CaptureInv' /\ SnapshotInv'
    BY <1>0, <1>16, <2>2, CaptureFrame DEF Power, EndRun, phone
  <2>6. PlanInv' /\ ReadbackInv'
    BY <1>0, <1>16, <2>1, <2>2 DEF Power, EndRun, phone, PlanInv, ReadbackInv, Payload
  <2>7. ImagesInv' /\ ZeroInv'
    BY <1>0, <1>16, <2>1, <2>2 DEF Power, EndRun, phone, ImagesInv, ZeroInv, Payload, Installed
  <2> QED BY <2>3, <2>4, <2>5, <2>6, <2>7 DEF IInv
<1>17. CASE Stop
  <2>1. n \in Nat /\ n' = n /\ arg' = arg
    BY <1>0, <1>17, SameRun DEF Stop, EndRun, phone
  <2>2. status' \in Seq({"running", "ok", "stopped"}) /\ Len(status') = n
    BY <1>0, <1>17, StatusUpdate DEF Stop, EndRun
  <2>3. TypeOK'
    BY <1>0, <1>17, <2>1, <2>2, ConstantsAssumption DEF Stop, EndRun, phone, TypeOK
  <2>4. RunInv' /\ FreshInv' /\ CurInv'
    BY <1>0, <1>17, <2>1, <2>2 DEF Stop, EndRun, phone, RunInv, ValidArgs, FreshInv,
         IsUpdateCapture, CurInv
  <2>5. CaptureInv' /\ SnapshotInv'
    BY <1>0, <1>17, <2>2, CaptureFrame DEF Stop, EndRun, phone
  <2>6. PlanInv' /\ ReadbackInv'
    BY <1>0, <1>17, <2>1, <2>2 DEF Stop, EndRun, phone, PlanInv, ReadbackInv, Payload
  <2>7. ImagesInv' /\ ZeroInv'
    BY <1>0, <1>17, <2>1, <2>2 DEF Stop, EndRun, phone, ImagesInv, ZeroInv, Payload, Installed
  <2> QED BY <2>3, <2>4, <2>5, <2>6, <2>7 DEF IInv
<1>18. CASE Touch
  <2>1. n \in Nat /\ n' = n /\ arg' = arg
    BY <1>0, <1>18, SameRun DEF Touch, phone, capture, worker
  <2>2. TypeOK'
    BY <1>0, <1>18, <2>1, ConstantsAssumption DEF Touch, phone, capture, worker, TypeOK
  <2>3. RunInv' /\ FreshInv' /\ CurInv'
    BY <1>0, <1>18, <2>1 DEF Touch, phone, capture, worker, RunInv, ValidArgs, FreshInv,
         IsUpdateCapture, CurInv
  <2>4. CaptureInv' /\ SnapshotInv'
    BY <1>0, <1>18, CaptureFrame DEF Touch, phone, capture, worker
  <2>5. PlanInv' /\ ReadbackInv'
    BY <1>0, <1>18, <2>1 DEF Touch, phone, capture, worker, PlanInv, ReadbackInv, Payload
  <2>6. ImagesInv' /\ ZeroInv'
    BY <1>0, <1>18, <2>1 DEF Touch, phone, capture, worker, ImagesInv, ZeroInv, Payload, Installed
  <2> QED BY <2>2, <2>3, <2>4, <2>5, <2>6 DEF IInv
<1>19. ASSUME NEW b \in Build, Boot(b) PROVE IInv'
  <2>1. n \in Nat /\ n' = n /\ arg' = arg
    BY <1>0, <1>19, SameRun DEF Boot, phone, capture, worker
  <2>2. TypeOK'
    BY <1>0, <1>19, <2>1 DEF Boot, phone, capture, worker, TypeOK
  <2>3. RunInv' /\ FreshInv' /\ CurInv'
    BY <1>0, <1>19, <2>1 DEF Boot, phone, capture, worker, RunInv, ValidArgs, FreshInv,
         IsUpdateCapture, CurInv
  <2>4. CaptureInv' /\ SnapshotInv'
    BY <1>0, <1>19, CaptureFrame DEF Boot, phone, capture, worker
  <2>5. PlanInv' /\ ReadbackInv'
    BY <1>0, <1>19, <2>1 DEF Boot, phone, capture, worker, PlanInv, ReadbackInv, Payload
  <2>6. ImagesInv' /\ ZeroInv'
    BY <1>0, <1>19, <2>1 DEF Boot, phone, capture, worker, ImagesInv, ZeroInv, Payload, Installed
  <2> QED BY <2>2, <2>3, <2>4, <2>5, <2>6 DEF IInv
<1>20. CASE UNCHANGED vars
  <2>1. /\ UNCHANGED <<disk, head, prot, args, status, writes, backup>>
        /\ UNCHANGED <<pc, todo, plan, cur, off, invBefore>>
    BY <1>20 DEF vars, phone, capture, worker
  <2>2. CaptureInv' /\ SnapshotInv'
    BY <1>0, <2>1, CaptureFrame
  <2>3. TypeOK' /\ RunInv' /\ FreshInv' /\ CurInv'
    BY <1>0, <2>1 DEF TypeOK, RunInv, FreshInv, CurInv, ValidArgs, IsUpdateCapture, arg, n
  <2>4. PlanInv' /\ ReadbackInv' /\ ImagesInv' /\ ZeroInv'
    BY <1>0, <2>1 DEF PlanInv, ReadbackInv, ImagesInv, ZeroInv, Payload, Installed, arg, n
  <2> QED BY <2>2, <2>3, <2>4 DEF IInv
<1> QED
  BY <1>1, <1>2, <1>3, <1>4, <1>5, <1>6, <1>7, <1>8, <1>9, <1>10, <1>11, <1>12,
     <1>13, <1>14, <1>15, <1>16, <1>17, <1>18, <1>19, <1>20 DEF Next, Worker

-----------------------------------------------------------------------------
(* The theorems *)

\* The inductive invariant holds in every behaviour.
THEOREM Invariant == Spec => []IInv
BY InitIInv, NextIInv, PTL DEF Spec

\* The phone, the captures and the worker keep their types.
THEOREM TypeCorrect == Spec => []TypeOK
<1>1. IInv => TypeOK
  BY DEF IInv
<1> QED BY <1>1, Invariant, PTL

\* run_rollback accepts every partition that an update with snapshots has left,
\* wherever it stopped and whatever it tore, until another run writes.
THEOREM RollbackAlwaysAdmitted == Spec => []RollbackAdmitted
<1>1. IInv => RollbackAdmitted
  <2> SUFFICES ASSUME IInv, NEW c \in 1..n, IsUpdateCapture(c), ~LaterWrites(c), NEW p \in Part
               PROVE  rollbackState(c, p) # "other"
    BY DEF RollbackAdmitted
  <2>1. writes[c][p] \in WriteState
    BY DEF IInv, TypeOK, n
  <2>2. /\ writes[c][p] = "none" => disk[p] = backup[c][p]
        /\ writes[c][p] = "verified" => Holds(disk[p], Image[args[c].to][p])
    BY DEF IInv, CaptureInv
  <2> QED BY <2>1, <2>2 DEF rollbackState, attempted, WriteState
<1> QED BY <1>1, Invariant, PTL

\* The wipe of run_update destroys a head only under the complete new build.
THEOREM WipeOnlyAfterImages == Spec => WipeAfterImages
<1>1. IInv /\ [Next]_vars =>
        [pc # "idle" /\ head' # head =>
           arg.wipe /\ arg.mode = "update" /\ Installed(arg.to)]_vars
  <2> SUFFICES ASSUME IInv, Next, pc # "idle", head' # head
               PROVE  arg.wipe /\ arg.mode = "update" /\ Installed(arg.to)
    BY DEF vars
  <2>1. PICK h \in DataPart : ZeroHead(h)
    BY DEF Next, Worker, Launch, OfflineChecks, HashInvariants, IdentifyBuild, IdentifyRollback,
           BeginProgram, WriteChunk, EndProgram, AllProgrammed, VerifyWritten, ReadbackDiffers,
           AllVerified, AllZeroed, VerifyZero, Power, Stop, Touch, Boot, phone
  <2>2. pc = "zero"
    BY <2>1 DEF ZeroHead
  <2> QED BY <2>2 DEF IInv, ImagesInv, ZeroInv
<1> QED BY <1>1, Invariant, PTL DEF Spec, WipeAfterImages

\* A run whose last readback has passed has done what it promises.
LEMMA FinalIsDone ==
  ASSUME IInv, Power
  PROVE  Done
<1>1. pc = "final" /\ prot = invBefore /\ n \in Nat /\ n > 0
  BY DEF Power, IInv, TypeOK, n
<1>2. arg.mode = "update" => Installed(arg.to)
  BY <1>1 DEF IInv, ImagesInv
<1>3. arg.mode = "update" /\ arg.wipe => \A h \in DataPart : head[h] = "zero"
  BY <1>1 DEF IInv, ZeroInv
<1>4. ASSUME arg.mode = "rollback"
      PROVE  /\ disk = backup[arg.capture]
             /\ ~args[arg.capture].reflash => Installed(args[arg.capture].from)
  <2>1. arg.capture \in 1..n /\ IsUpdateCapture(arg.capture)
    BY <1>1, <1>4 DEF IInv, RunInv
  <2>2. disk \in Disk /\ backup[arg.capture] \in Disk
    BY <2>1 DEF IInv, TypeOK, IsUpdateCapture
  <2>3. \A p \in Part : Holds(disk[p], backup[arg.capture][p])
    BY <1>1, <1>4 DEF IInv, ImagesInv, Payload
  <2>4. disk = backup[arg.capture]
    BY <2>2, <2>3, HoldsFull
  <2> QED BY <2>1, <2>4 DEF IInv, SnapshotInv, Installed
<1> QED BY <1>1, <1>2, <1>3, <1>4 DEF Done

\* The phone is powered, and success reported, only when it is true: of the
\* partitions that were skipped, of both heads, of the protected regions and of
\* a rollback too.
THEOREM PowerIsEarned == Spec => PowerOnlyWhenDone
<1>1. IInv /\ [Next]_vars =>
        [\A r \in 1..n : status[r] = "running" /\ status'[r] = "ok" => Done]_vars
  <2> SUFFICES ASSUME IInv, Next, NEW r \in 1..n, status[r] = "running", status'[r] = "ok"
               PROVE  Done
    BY DEF vars
  <2>1. CASE Power
    BY <2>1, FinalIsDone
  <2>2. ASSUME NEW a \in Launches, Launch(a) PROVE FALSE
    <3>1. a \in Arg
      BY ConstantsAssumption
    <3>2. status'[r] = status[r]
      BY <2>2, <3>1, CaptureLaunch DEF IInv
    <3> QED BY <3>2
  <2>3. ASSUME pc # "idle", status' = [status EXCEPT ![n] = "stopped"] PROVE FALSE
    BY <2>3, StatusUpdate DEF IInv
  <2>4. CASE UNCHANGED status
    BY <2>4
  <2> QED
    BY <2>1, <2>2, <2>3, <2>4
       DEF Next, Worker, OfflineChecks, HashInvariants, IdentifyBuild, IdentifyRollback,
           BeginProgram, WriteChunk, EndProgram, AllProgrammed, VerifyWritten, ReadbackDiffers,
           AllVerified, ZeroHead, AllZeroed, VerifyZero, Stop, EndRun, Touch, Boot, capture
<1> QED BY <1>1, Invariant, PTL DEF Spec, PowerOnlyWhenDone

-----------------------------------------------------------------------------
(* The refinement of AtomicUpdate *)

\* A build that is installed is, for the operator, complete.
LEMMA CompleteIs ==
  ASSUME TypeOK, NEW b \in Build, Installed(b)
  PROVE  disk \in Complete[b]
<1> DEFINE S == {d \in Disk : \A p \in Part : Holds(d[p], Image[b][p])}
<1>1. disk \in S
  BY DEF TypeOK, Installed
<1>2. Complete[b] = S
  BY Zenon DEF Complete
<1> QED  BY <1>1, <1>2

\* When every partition holds what the run sends, the run has what it was asked for.
LEMMA ReachedFrom ==
  ASSUME TypeOK, RunInv, pc \notin {"idle", "offline"},
         arg.mode = "update" => Installed(arg.to),
         arg.mode = "rollback" => \A p \in Part : Holds(disk[p], Payload(p))
  PROVE  Update!Reached
<1>1. n \in Nat /\ n > 0 /\ arg \in Arg
  BY DEF TypeOK, n, arg
<1>2. arg.mode = "update" => disk \in Complete[arg.to]
  BY <1>1, CompleteIs DEF Arg
<1>3. ASSUME arg.mode = "rollback" PROVE disk = backup[arg.capture]
  <2>1. arg.capture \in 1..n /\ IsUpdateCapture(arg.capture)
    BY <1>1, <1>3 DEF RunInv
  <2>2. disk \in Disk /\ backup[arg.capture] \in Disk
    BY <2>1 DEF TypeOK, IsUpdateCapture
  <2>3. \A p \in Part : Holds(disk[p], backup[arg.capture][p])
    BY <1>3 DEF Payload
  <2> QED  BY <2>2, <2>3, HoldsFull
<1> QED  BY <1>2, <1>3 DEF Update!Reached, Update!request, Update!r, arg, n

\* It has it when the readback is over,
LEMMA FinalReached ==
  ASSUME IInv, pc \in {"zero", "zeroback", "final"}
  PROVE  Update!Reached
BY ReachedFrom DEF IInv, ImagesInv

\* and when the readback has nothing left to do.
LEMMA ReadbackReached ==
  ASSUME IInv, pc = "readback", todo = {}
  PROVE  Update!Reached
<1>1. plan \subseteq Part /\ arg.mode # "backup-only"
  BY DEF IInv, TypeOK, PlanInv
<1>2. \A p \in plan : Holds(disk[p], Payload(p))
  BY DEF IInv, ReadbackInv
<1>3. \A p \in Part \ plan : arg.mode = "update" /\ Holds(disk[p], Image[arg.to][p])
  BY DEF IInv, PlanInv
<1>4. arg.mode = "update" => Installed(arg.to)
  BY <1>2, <1>3 DEF Payload, Installed
<1> QED  BY <1>2, <1>3, <1>4, ReachedFrom DEF IInv

\* The phone starts with one complete build and its data.
LEMMA InitAtomic == Init => Update!Init
<1> SUFFICES ASSUME Init PROVE Update!Init
  OBVIOUS
<1>1. Installed0 \in Build /\ TypeOK
  BY InitIInv, ConstantsAssumption DEF IInv
<1>2. Installed(Installed0)
  <2>1. ASSUME NEW p \in Part, NEW k \in DOMAIN Image[Installed0][p]
        PROVE  disk[p][k] = Image[Installed0][p][k]
    BY <1>1, ImageFits DEF Init
  <2> QED  BY <2>1 DEF Installed, Holds
<1>3. head = [b \in Build |-> Heads(b)][Installed0]
  BY <1>1 DEF Init, Heads
<1>4. Stage = "none"
  BY DEF Init, Stage
<1> QED  BY <1>1, <1>2, <1>3, <1>4, CompleteIs DEF Init, Update!Init

\* Of a run in progress.
LEMMA RunFacts ==
  ASSUME IInv, pc # "idle"
  PROVE  /\ arg \in Arg /\ TypeOK /\ Update!request = arg /\ Update!r = n
         /\ Update!Wipes <=> (arg.mode = "update" /\ arg.wipe)
BY DEF IInv, TypeOK, arg, n, Update!request, Update!r, Update!Wipes

\* Identification is the run's preparation: the snapshot is of what the run found.
LEMMA PrepareStep ==
  ASSUME IInv, IdentifyBuild \/ IdentifyRollback
  PROVE  Update!Prepare
<1>1. /\ pc = "identify" /\ UNCHANGED <<disk, head, args, status>>
      /\ pc' = IF arg.mode = "backup-only" THEN "final" ELSE "program"
  BY DEF IdentifyBuild, IdentifyRollback, phone, capture
<1>2. /\ Update!request = arg /\ Update!r = n /\ TypeOK /\ arg \in Arg
  BY <1>1, RunFacts
<1>3. Stage = "reading" /\ Stage' = IF arg.mode = "backup-only" THEN "complete" ELSE "writing"
  BY <1>1 DEF Stage
<1>4. CASE IdentifyBuild
  <2>1. arg.mode # "rollback" /\ backup' = [backup EXCEPT ![n] = IF arg.policy = "snapshot" THEN disk ELSE NoBackup]
    BY <1>4 DEF IdentifyBuild
  <2>2. arg.policy # "snapshot" => backup' = backup
    <3>1. n \in DOMAIN backup /\ backup[n] = NoBackup
      BY <1>1, <1>2 DEF IInv, FreshInv, TypeOK, n
    <3> QED  BY <1>2, <2>1, <3>1 DEF TypeOK
  <2> QED  BY <1>1, <1>2, <1>3, <2>1, <2>2 DEF Update!Prepare
<1>5. CASE IdentifyRollback
  <2>1. arg.mode = "rollback" /\ backup' = backup
    BY <1>5 DEF IdentifyRollback, capture
  <2>2. IsUpdateCapture(arg.capture)
    BY <1>1, <2>1 DEF IInv, RunInv
  <2> QED  BY <1>1, <1>2, <1>3, <2>1, <2>2 DEF Update!Prepare, IsUpdateCapture
<1> QED  BY <1>4, <1>5

\* A run begins with its entries in the captures.
LEMMA BeginStep ==
  ASSUME IInv, NEW a \in Launches, Launch(a)
  PROVE  Update!Begin(a)
<1>1. Stage = "none" /\ Stage' = "reading"
  BY DEF Launch, Stage
<1> QED  BY <1>1 DEF Launch, phone, Update!Begin

\* The medium takes a chunk, or something else.
LEMMA WriteStep ==
  ASSUME IInv, WriteChunk
  PROVE  Update!Write
<1>1. disk' \in Disk
  BY ChunkLands DEF IInv
<1>2. Stage = "writing" /\ Stage' = "writing" /\ UNCHANGED <<head, args, backup, status>>
  BY DEF WriteChunk, Stage, capture
<1> QED  BY <1>1, <1>2 DEF Update!Write

\* Behind the readback the partitions do not change any more.
LEMMA SealStep ==
  ASSUME IInv, AllVerified
  PROVE  Update!Seal
<1>1. pc = "readback" /\ pc' \in {"zero", "final"} /\ UNCHANGED <<disk, head, args, status, backup>>
  BY DEF AllVerified, phone, capture
<1>2. Update!Reached
  BY ReadbackReached DEF AllVerified
<1>3. Stage = "writing" /\ Stage' = "complete"
  BY <1>1 DEF Stage
<1> QED  BY <1>1, <1>2, <1>3 DEF Update!Seal

\* A head is zeroed, or torn, under the complete build.
LEMMA EraseStep ==
  ASSUME IInv, NEW h \in DataPart, ZeroHead(h)
  PROVE  Update!Erase
<1>1. pc = "zero" /\ pc' = "zero" /\ UNCHANGED <<disk, args, status, backup>>
  BY DEF ZeroHead, capture
<1>2. Update!Reached /\ Update!Wipes
  BY <1>1, FinalReached, RunFacts DEF IInv, ZeroInv
<1>3. head' \in [DataPart -> Build \cup {"zero", "torn"}]
  BY DEF IInv, TypeOK, ZeroHead
<1>4. Stage = "complete" /\ Stage' = "complete"
  BY <1>1 DEF Stage
<1> QED  BY <1>1, <1>2, <1>3, <1>4 DEF Update!Erase

\* Success is reported of what is there.
LEMMA SucceedStep ==
  ASSUME IInv, Power
  PROVE  Update!Succeed
<1>1. pc = "final" /\ pc' = "idle" /\ status' = [status EXCEPT ![n] = "ok"] /\ UNCHANGED <<disk, head, args, backup>>
  BY DEF Power, EndRun, phone
<1>2. Update!Reached /\ Update!r = n
  BY <1>1, FinalReached, RunFacts
<1>3. Update!Wipes => head = Heads("zero")
  <2>1. Update!Wipes => \A h \in DataPart : head[h] = "zero"
    BY <1>1, RunFacts DEF IInv, ZeroInv
  <2>2. head = [h \in DataPart |-> head[h]]
    BY DEF IInv, TypeOK
  <2> QED  BY <2>1, <2>2 DEF Heads
<1>4. Stage = "complete" /\ Stage' = "none"
  BY <1>1 DEF Stage
<1> QED  BY <1>1, <1>2, <1>3, <1>4 DEF Update!Succeed, Update!End

\* A run may end anywhere else.
LEMMA GiveUpStep ==
  ASSUME IInv, Stop \/ \E p \in Part : ReadbackDiffers(p)
  PROVE  Update!GiveUp
<1>1. /\ pc # "idle" /\ pc' = "idle" /\ status' = [status EXCEPT ![n] = "stopped"]
      /\ UNCHANGED <<disk, head, args, backup>>
  BY DEF Stop, ReadbackDiffers, EndRun, phone
<1>2. Stage # "none" /\ Stage' = "none"
  BY <1>1 DEF IInv, TypeOK, Stage
<1>3. Update!r = n
  BY <1>1, RunFacts
<1> QED  BY <1>1, <1>2, <1>3 DEF Update!GiveUp, Update!End

\* Between runs a complete build may take the data.
LEMMA BootStep ==
  ASSUME IInv, NEW b \in Build, Boot(b)
  PROVE  Update!Boot(b)
<1>1. disk \in Complete[b]
  BY CompleteIs DEF Boot, Installed, IInv
<1>2. head' = [c \in Build |-> Heads(c)][b]
  BY DEF Boot, Heads
<1>3. Stage = "none" /\ Stage' = "none"
  BY DEF Boot, Stage, worker
<1> QED  BY <1>1, <1>2, <1>3 DEF Boot, capture, Update!Boot

\* The operator does not see the other steps.
LEMMA SilentStep ==
  ASSUME IInv,
         \/ OfflineChecks \/ HashInvariants \/ EndProgram \/ AllProgrammed \/ AllZeroed \/ Touch
         \/ \E p \in Part : BeginProgram(p) \/ VerifyWritten(p)
         \/ \E h \in DataPart : VerifyZero(h)
         \/ UNCHANGED vars
  PROVE  UNCHANGED <<disk, head, args, backup, status, Stage>>
<1>1. UNCHANGED <<disk, head, args, backup, status>>
  BY DEF OfflineChecks, HashInvariants, EndProgram, AllProgrammed, AllZeroed, Touch, BeginProgram,
         VerifyWritten, VerifyZero, vars, phone, capture
<1>2. Stage' = Stage
  BY DEF OfflineChecks, HashInvariants, EndProgram, AllProgrammed, AllZeroed, Touch, BeginProgram,
         VerifyWritten, VerifyZero, vars, worker, Stage
<1> QED  BY <1>1, <1>2

\* With any partitions, builds, command lines and number of runs, and wherever they fail,
\* the worker and its captures do what AtomicUpdate promises.
THEOREM UpdateRefines == Spec => UpdateIsAtomic
<1>1. IInv /\ [Next]_vars => [Update!Next]_(Update!vars)
  <2> SUFFICES ASSUME IInv, [Next]_vars PROVE [Update!Next]_(Update!vars)
    OBVIOUS
  <2>1. CASE \E a \in Launches : Launch(a)
    BY <2>1, BeginStep DEF Update!Next
  <2>2. CASE IdentifyBuild \/ IdentifyRollback
    BY <2>2, PrepareStep DEF Update!Next
  <2>3. CASE WriteChunk
    BY <2>3, WriteStep DEF Update!Next
  <2>4. CASE AllVerified
    BY <2>4, SealStep DEF Update!Next
  <2>5. CASE \E h \in DataPart : ZeroHead(h)
    BY <2>5, EraseStep DEF Update!Next
  <2>6. CASE Power
    BY <2>6, SucceedStep DEF Update!Next
  <2>7. CASE Stop \/ \E p \in Part : ReadbackDiffers(p)
    BY <2>7, GiveUpStep DEF Update!Next
  <2>8. CASE \E b \in Build : Boot(b)
    BY <2>8, BootStep DEF Update!Next
  <2>9. CASE \/ OfflineChecks \/ HashInvariants \/ EndProgram \/ AllProgrammed \/ AllZeroed \/ Touch
             \/ \E p \in Part : BeginProgram(p) \/ VerifyWritten(p)
             \/ \E h \in DataPart : VerifyZero(h)
             \/ UNCHANGED vars
    BY <2>9, SilentStep DEF Update!vars
  <2> QED  BY <2>1, <2>2, <2>3, <2>4, <2>5, <2>6, <2>7, <2>8, <2>9 DEF Next, Worker
<1> QED  BY <1>1, InitAtomic, Invariant, PTL DEF Spec, UpdateIsAtomic, Update!Spec
=============================================================================
