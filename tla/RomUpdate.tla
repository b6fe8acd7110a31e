------------------------------ MODULE RomUpdate ------------------------------
(***************************************************************************)
(* The "preserve userdata" update engine (tools/RomUpdateEngineV1.py) run  *)
(* by the worker (tools/Write-LaptopRomUpdateV1.py) on the phone's eMMC.   *)
(*                                                                         *)
(* A run is one worker process: it checks the phone, records what it is    *)
(* about to do in its capture directory, programs the partitions chunk by  *)
(* chunk, reads them back and powers the phone.  It may stop after any of  *)
(* its steps (a failed check, a lost transfer, the deadline, a kill) and   *)
(* is never resumed: the operator launches another run.  The capture       *)
(* directories (manifest, saved partitions, report.json) outlive the runs  *)
(* and are what a rollback reads.                                          *)
(*                                                                         *)
(* A partition is a sequence of transfer chunks; an image covers a prefix  *)
(* of its partition.  A sha256 comparison is equality of the bytes hashed. *)
(***************************************************************************)
EXTENDS Naturals, Sequences

CONSTANTS
  Part,         \* U.UPDATE_WRITABLE: boot, dtbo, vendor, system
  Rank,         \* position of a partition in the write order
  Size,         \* chunks of a partition
  Build,        \* the builds that kits are made of
  Image,        \* Image[b][p]: the chunks of build b's image of partition p
  Block, Junk,  \* chunk contents; Junk is what a torn or lost write leaves
  Compat,       \* Compat[a][b]: may b boot the /data of a ("ok"), only after
                \* a wipe ("wipe"), or is the change refused ("no")
  Installed0,   \* the build on the phone at the start
  Launches,     \* the worker command lines the operator may use
  MaxRuns,      \* bound: runs of the worker
  MaxTouch,     \* bound: foreign writes to protected regions
  NoBackup,     \* model value: a capture without partition snapshots
  NoPart        \* model value: no partition is being programmed

DataPart == {"metadata", "userdata"}     \* U.WIPE_ZERO

Arg == [mode    : {"update", "backup-only", "rollback"},
        policy  : {"snapshot", "hash-only"},
        wipe    : BOOLEAN,
        reflash : BOOLEAN,
        from    : Build,                 \* the predecessor the kit was staged against
        to      : Build,                 \* the build the kit installs
        capture : 0..MaxRuns]            \* rollback: the update run whose capture is used

Disk == {d \in [Part -> UNION {[1..Size[p] -> Block] : p \in Part}] :
            \A p \in Part : d[p] \in [1..Size[p] -> Block]}

\* Does the partition content d start with the image img?
Holds(d, img) == \A k \in DOMAIN img : d[k] = img[k]

ASSUME ConstantsAssumption ==
  /\ Rank \in [Part -> Nat]
  /\ \A p, q \in Part : Rank[p] = Rank[q] => p = q
  /\ NoPart \notin Part
  /\ Size \in [Part -> Nat \ {0}]
  /\ Junk \in Block
  /\ \A b \in Build, p \in Part :
        \E len \in 1..Size[p] : Image[b][p] \in [1..len -> Block]
  /\ Compat \in [Build -> [Build -> {"ok", "wipe", "no"}]]
  /\ Build \cap {"zero", "torn"} = {}
  /\ Installed0 \in Build
  /\ NoBackup \notin Disk
  /\ Launches \subseteq Arg
  /\ MaxRuns \in Nat
  /\ MaxTouch \in Nat

VARIABLES
  \* the phone
  disk,       \* content of the writable partitions
  head,       \* first MiB of metadata/userdata: the build whose file system it
              \* holds, "zero" (formatted at the next boot), or "torn"
  prot,       \* version of the protected (invariant) regions
  \* the captures: what the runs have saved to the laptop's disk
  args,       \* command line of each run; the last run may be in progress
  status,     \* "running", "ok" (the phone was powered), "stopped"
  writes,     \* report['writes'][p] of each run
  backup,     \* the partition snapshots of a 'rom-update' manifest
  \* the worker in progress
  pc,         \* phase of the run
  todo,       \* partitions (or heads) of the current loop still to do
  plan,       \* partitions this run writes
  cur, off,   \* partition being programmed, chunks already sent
  invBefore   \* hash of the protected regions before the first write

phone   == <<disk, head, prot>>
capture == <<args, status, writes, backup>>
worker  == <<pc, todo, plan, cur, off, invBefore>>
vars    == <<phone, capture, worker>>

-----------------------------------------------------------------------------
(* Helpers *)

n   == Len(args)
arg == args[n]

\* The bytes the current run programs into p: the kit's image, or the saved
\* full partition of the capture that is rolled back.
Payload(p) == IF arg.mode = "rollback" THEN backup[arg.capture][p]
                                       ELSE Image[arg.to][p]

\* for name in ('boot', 'dtbo', 'vendor', 'system')
IsNext(p, S) == p \in S /\ \A q \in S : Rank[p] <= Rank[q]

\* identify(): which build does the head of p hold?
identify(p) == IF Holds(disk[p], Image[arg.from][p]) THEN "prev"
               ELSE IF Holds(disk[p], Image[arg.to][p]) THEN "new"
               ELSE "other"

Same == {p \in Part : Image[arg.from][p] = Image[arg.to][p]}

\* The StopRun conditions on the installed build.
PredecessorOK ==
  /\ {identify(p) : p \in Part \ Same} = {"new"} => arg.reflash
  /\ ~arg.reflash => {identify(p) : p \in Part} = {"prev"}
  /\ arg.reflash => {identify(p) : p \in Part} \subseteq {"prev", "new"}

\* Partitions that already hold the new image and are left alone.
Unchanged == {p \in Same : ~arg.reflash /\ identify(p) = "prev"}

attempted(w) == w \in {"attempted", "acknowledged", "verified", "differs"}

\* run_rollback: what p holds, judged from the capture of update run c.
rollbackState(c, p) ==
  IF disk[p] = backup[c][p] THEN "saved"
  ELSE IF attempted(writes[c][p]) /\ Holds(disk[p], Image[args[c].to][p]) THEN "update"
  ELSE IF attempted(writes[c][p]) /\ writes[c][p] # "verified" THEN "failed-write"
  ELSE "other"

\* The captures run_rollback accepts.
IsUpdateCapture(c) ==
  /\ args[c].mode = "update"
  /\ backup[c] # NoBackup
  /\ ~args[c].wipe

\* Argument checks of run_update and wipe_args_check.
ValidArgs(a) ==
  /\ a.policy = "hash-only" => a.mode = "update"
  /\ a.wipe => a.mode # "rollback"
  /\ a.wipe /\ a.mode = "update" => a.policy = "hash-only"

\* The kit's data-compatibility rule: compat_problems, or wipe_compat.
CompatOK(a) == Compat[a.from][a.to] \in (IF a.wipe THEN {"ok", "wipe"} ELSE {"ok"})

\* Every way a run ends: the process is gone, its capture stays.
EndRun(s) ==
  /\ status' = [status EXCEPT ![n] = s]
  /\ pc' = "idle"
  /\ todo' = {} /\ plan' = {} /\ cur' = NoPart /\ off' = 0 /\ invBefore' = 0

-----------------------------------------------------------------------------
(* The worker *)

Init ==
  /\ disk = [p \in Part |-> [k \in 1..Size[p] |->
               IF k \in DOMAIN Image[Installed0][p] THEN Image[Installed0][p][k] ELSE Junk]]
  /\ head = [h \in DataPart |-> Installed0]
  /\ prot = 0
  /\ args = <<>> /\ status = <<>> /\ writes = <<>> /\ backup = <<>>
  /\ pc = "idle"
  /\ todo = {} /\ plan = {} /\ cur = NoPart /\ off = 0 /\ invBefore = 0

\* Mutant of Launch: the report of the run starts without a 'writes' entry.
LaunchNoWrites(a) ==
  /\ pc = "idle" /\ n < MaxRuns
  /\ ValidArgs(a)
  /\ a.mode = "rollback" => a.capture \in 1..n
  /\ args' = Append(args, a)
  /\ status' = Append(status, "running")
  /\ backup' = Append(backup, NoBackup)
  /\ pc' = "offline"
  /\ UNCHANGED <<phone, writes, todo, plan, cur, off, invBefore>>

\* A new worker process with a capture directory of its own.
Launch(a) ==
  /\ pc = "idle" /\ n < MaxRuns
  /\ ValidArgs(a)
  /\ a.mode = "rollback" => a.capture \in 1..n
  /\ args' = Append(args, a)
  /\ status' = Append(status, "running")
  /\ writes' = Append(writes, [p \in Part |-> "none"])
  /\ backup' = Append(backup, NoBackup)
  /\ pc' = "offline"
  /\ UNCHANGED <<phone, todo, plan, cur, off, invBefore>>

\* The checks before any device access: data compatibility of the kit, or the
\* kind of the capture to roll back.
OfflineChecks ==
  /\ pc = "offline"
  /\ IF arg.mode = "rollback" THEN IsUpdateCapture(arg.capture) ELSE CompatOK(arg)
  /\ pc' = "hash"
  /\ UNCHANGED <<phone, capture, todo, plan, cur, off, invBefore>>

\* _pre_checks and the first hash_invariants.
HashInvariants ==
  /\ pc = "hash"
  /\ invBefore' = prot
  /\ pc' = "identify"
  /\ UNCHANGED <<phone, capture, todo, plan, cur, off>>

\* update and backup-only: the installed build must be the expected one; the
\* manifest (with the snapshots of that policy) is written before any write.
IdentifyBuild ==
  /\ pc = "identify" /\ arg.mode # "rollback"
  /\ PredecessorOK
  /\ backup' = [backup EXCEPT ![n] = IF arg.policy = "snapshot" THEN disk ELSE NoBackup]
  /\ IF arg.mode = "backup-only"
       THEN pc' = "final" /\ UNCHANGED <<todo, plan>>
       ELSE pc' = "program" /\ plan' = Part \ Unchanged /\ todo' = plan'
  /\ UNCHANGED <<phone, args, status, writes, cur, off, invBefore>>

\* rollback: every partition must be explained by the update's capture.
IdentifyRollback ==
  /\ pc = "identify" /\ arg.mode = "rollback"
  /\ \A p \in Part : rollbackState(arg.capture, p) # "other"
  /\ pc' = "program" /\ plan' = Part /\ todo' = Part
  /\ UNCHANGED <<phone, capture, cur, off, invBefore>>

\* Mutant of BeginProgram: the attempt is not saved before the transfer.
BeginProgramNoSave(p) ==
  /\ pc = "program" /\ cur = NoPart /\ IsNext(p, todo)
  /\ cur' = p /\ off' = 0
  /\ UNCHANGED <<phone, capture, pc, todo, plan, invBefore>>

\* Session.program: the attempt is on the laptop's disk before the first byte
\* is on the phone.
BeginProgram(p) ==
  /\ pc = "program" /\ cur = NoPart /\ IsNext(p, todo)
  /\ writes' = [writes EXCEPT ![n][p] = "attempted"]
  /\ cur' = p /\ off' = 0
  /\ UNCHANGED <<phone, args, status, backup, pc, todo, plan, invBefore>>

\* One chunk of dev.program.  The medium may lose or tear what it was sent.
WriteChunk ==
  /\ pc = "program" /\ cur # NoPart /\ off + 1 \in DOMAIN Payload(cur)
  /\ \E x \in {Payload(cur)[off + 1], Junk} : disk' = [disk EXCEPT ![cur][off + 1] = x]
  /\ off' = off + 1
  /\ UNCHANGED <<head, prot, capture, pc, todo, plan, cur, invBefore>>

\* Mutant of EndProgram: the loop does not advance.
EndProgramStays ==
  /\ pc = "program" /\ cur # NoPart /\ off + 1 \notin DOMAIN Payload(cur)
  /\ writes' = [writes EXCEPT ![n][cur] = "acknowledged"]
  /\ cur' = NoPart /\ off' = 0
  /\ UNCHANGED <<phone, args, status, backup, pc, todo, plan, invBefore>>

EndProgram ==
  /\ pc = "program" /\ cur # NoPart /\ off + 1 \notin DOMAIN Payload(cur)
  /\ writes' = [writes EXCEPT ![n][cur] = "acknowledged"]
  /\ todo' = todo \ {cur}
  /\ cur' = NoPart /\ off' = 0
  /\ UNCHANGED <<phone, args, status, backup, pc, plan, invBefore>>

\* Mutant of AllProgrammed: a wipe zeroes the heads before the readback.
ZeroBeforeReadback ==
  /\ pc = "program" /\ cur = NoPart /\ todo = {}
  /\ IF arg.wipe THEN pc' = "zero" /\ todo' = DataPart
                 ELSE pc' = "readback" /\ todo' = plan
  /\ UNCHANGED <<phone, capture, plan, cur, off, invBefore>>

AllProgrammed ==
  /\ pc = "program" /\ cur = NoPart /\ todo = {}
  /\ pc' = "readback" /\ todo' = plan
  /\ UNCHANGED <<phone, capture, plan, cur, off, invBefore>>

\* Mutant of VerifyWritten: the digest is recorded but not compared.
VerifyWrittenBlind(p) ==
  /\ pc = "readback" /\ IsNext(p, todo)
  /\ writes' = [writes EXCEPT ![n][p] = "verified"]
  /\ todo' = todo \ {p}
  /\ UNCHANGED <<phone, args, status, backup, pc, plan, cur, off, invBefore>>

\* Session.verify_written of one image.
VerifyWritten(p) ==
  /\ pc = "readback" /\ IsNext(p, todo)
  /\ Holds(disk[p], Payload(p))
  /\ writes' = [writes EXCEPT ![n][p] = "verified"]
  /\ todo' = todo \ {p}
  /\ UNCHANGED <<phone, args, status, backup, pc, plan, cur, off, invBefore>>

ReadbackDiffers(p) ==
  /\ pc = "readback" /\ IsNext(p, todo)
  /\ ~Holds(disk[p], Payload(p))
  /\ writes' = [writes EXCEPT ![n][p] = "differs"]
  /\ EndRun("stopped")
  /\ UNCHANGED <<phone, args, backup>>

AllVerified ==
  /\ pc = "readback" /\ todo = {}
  /\ IF arg.wipe THEN pc' = "zero" /\ todo' = DataPart
                 ELSE pc' = "final" /\ todo' = {}
  /\ UNCHANGED <<phone, capture, plan, cur, off, invBefore>>

\* wipe-data: zero the first MiB of metadata, then of userdata.
ZeroHead(h) ==
  /\ pc = "zero" /\ h \in todo
  /\ h = "userdata" => "metadata" \notin todo
  /\ \E x \in {"zero", "torn"} : head' = [head EXCEPT ![h] = x]
  /\ todo' = todo \ {h}
  /\ UNCHANGED <<disk, prot, capture, pc, plan, cur, off, invBefore>>

\* Mutant of AllZeroed: the userdata head is not read back.
ReadBackMetadataOnly ==
  /\ pc = "zero" /\ todo = {}
  /\ pc' = "zeroback" /\ todo' = {"metadata"}
  /\ UNCHANGED <<phone, capture, plan, cur, off, invBefore>>

AllZeroed ==
  /\ pc = "zero" /\ todo = {}
  /\ pc' = "zeroback" /\ todo' = DataPart
  /\ UNCHANGED <<phone, capture, plan, cur, off, invBefore>>

\* verify_written of one zeroed head, against the hash of zeroes.
VerifyZero(h) ==
  /\ pc = "zeroback" /\ h \in todo
  /\ h = "userdata" => "metadata" \notin todo
  /\ head[h] = "zero"
  /\ todo' = todo \ {h}
  /\ pc' = IF todo' = {} THEN "final" ELSE "zeroback"
  /\ UNCHANGED <<phone, capture, plan, cur, off, invBefore>>

\* The protected regions hash as before, the phone is powered, the report says so.
Power ==
  /\ pc = "final"
  /\ prot = invBefore
  /\ EndRun("ok")
  /\ UNCHANGED <<phone, args, writes, backup>>

\* A failed check, a failed transfer, the 5400-second alarm or a kill.
Stop ==
  /\ pc # "idle"
  /\ EndRun("stopped")
  /\ UNCHANGED <<phone, args, writes, backup>>

Worker ==
  \/ OfflineChecks \/ HashInvariants \/ IdentifyBuild \/ IdentifyRollback
  \/ \E p \in Part : BeginProgram(p) \/ VerifyWritten(p) \/ ReadbackDiffers(p)
  \/ WriteChunk \/ EndProgram \/ AllProgrammed \/ AllVerified
  \/ \E h \in DataPart : ZeroHead(h) \/ VerifyZero(h)
  \/ AllZeroed \/ Power \/ Stop

-----------------------------------------------------------------------------
(* The phone (external) *)

\* Something other than the worker changes a protected region during a run.
Touch ==
  /\ pc # "idle" /\ prot < MaxTouch
  /\ prot' = prot + 1
  /\ UNCHANGED <<disk, head, capture, worker>>

\* May build b mount what metadata and userdata hold?
Mountable(b) ==
  \A h \in DataPart : \/ head[h] = "zero"
                      \/ head[h] \in Build /\ Compat[head[h]][b] = "ok"

\* A complete build boots: zeroed heads are formatted, /data becomes b's.
Boot(b) ==
  /\ pc = "idle"
  /\ \A p \in Part : Holds(disk[p], Image[b][p])
  /\ Mountable(b)
  /\ head' = [h \in DataPart |-> b]
  /\ UNCHANGED <<disk, prot, capture, worker>>

Next == \/ \E a \in Launches : Launch(a)
        \/ Worker
        \/ Touch
        \/ \E b \in Build : Boot(b)

Spec == Init /\ [][Next]_vars
FairSpec == Spec /\ WF_vars(Worker)

-----------------------------------------------------------------------------
(* Properties *)

WriteState == {"none", "attempted", "acknowledged", "verified", "differs"}

\* Types of the state; the four capture logs grow together.
TypeOK ==
  /\ disk \in Disk
  /\ head \in [DataPart -> Build \cup {"zero", "torn"}]
  /\ prot \in 0..MaxTouch
  /\ args \in Seq(Arg)
  /\ status \in Seq({"running", "ok", "stopped"}) /\ Len(status) = n
  /\ writes \in Seq([Part -> WriteState]) /\ Len(writes) = n
  /\ backup \in Seq(Disk \cup {NoBackup}) /\ Len(backup) = n
  /\ pc \in {"idle", "offline", "hash", "identify", "program", "readback",
             "zero", "zeroback", "final"}
  /\ pc # "idle" => n > 0
  /\ todo \subseteq (IF pc \in {"zero", "zeroback"} THEN DataPart ELSE plan)
  /\ plan \subseteq Part
  /\ cur \in Part \cup {NoPart}
  /\ off \in Nat
  /\ invBefore \in 0..MaxTouch

Installed(b) == \A p \in Part : Holds(disk[p], Image[b][p])

\* Has a run after c sent bytes to the phone?
LaterWrites(c) == \E r \in (c + 1)..n : \E p \in Part : writes[r][p] # "none"

\* Wherever an update with snapshots stops (and whatever it tore), a rollback of
\* its capture accepts every partition, until another run has written.
\* (run_rollback's state table against the write-ahead report of Session.program.)
RollbackAdmitted ==
  \A c \in 1..n : IsUpdateCapture(c) /\ ~LaterWrites(c) =>
    \A p \in Part : rollbackState(c, p) # "other"

\* What must be on the phone when run n reports success.
Done ==
  /\ prot = invBefore
  /\ arg.mode = "update" => Installed(arg.to)
  /\ arg.mode = "update" /\ arg.wipe => \A h \in DataPart : head[h] = "zero"
  /\ arg.mode = "rollback" => disk = backup[arg.capture]
  /\ arg.mode = "rollback" /\ ~args[arg.capture].reflash => Installed(args[arg.capture].from)

\* The phone is powered and the report says success only when every partition
\* (the skipped ones too) holds what the run promises, both heads are zero after
\* a wipe, and no protected region has changed since the first hash.
PowerOnlyWhenDone ==
  [][\A r \in 1..n : status[r] = "running" /\ status'[r] = "ok" => Done]_vars

\* wipe-data destroys /metadata or /data only when the complete new build is on
\* the phone ("only after every image is written AND read back").
WipeAfterImages ==
  [][pc # "idle" /\ head' # head => arg.wipe /\ arg.mode = "update" /\ Installed(arg.to)]_vars

\* Every run ends, however its steps fail.
EveryRunEnds == [](pc # "idle" => <>(pc = "idle"))

\* What an operator sees of the worker: it looks, it writes, or the partitions
\* are as they will be.
Stage == CASE pc = "idle" -> "none"
           [] pc \in {"offline", "hash", "identify"} -> "reading"
           [] pc \in {"program", "readback"} -> "writing"
           [] OTHER -> "complete"

Complete == [b \in Build |-> {d \in Disk : \A p \in Part : Holds(d[p], Image[b][p])}]
Heads(x) == [h \in DataPart |-> x]

Update == INSTANCE AtomicUpdate WITH
  Content <- Disk, Build <- Build, Complete <- Complete,
  Data <- [DataPart -> Build \cup {"zero", "torn"}],
  DataOf <- [b \in Build |-> Heads(b)], Erased <- Heads("zero"),
  Request <- Launches, None <- NoBackup,
  content <- disk, data <- head, asked <- args, saved <- backup, result <- status, stage <- Stage

\* Chunk by chunk, in whatever way the runs fail and follow each other, the worker does
\* what AtomicUpdate promises: a snapshot is of the phone as the run found it and stays
\* so, data goes only under the complete build, and success is the build, or the very
\* content that was saved (run_update, run_rollback, Session).
UpdateIsAtomic == Update!Spec

\* "Reasons why /data of prev must not be booted by new": after a keep-data
\* update that reports success, the /data on the phone suits the new build.
KeepDataBootable ==
  [][\A r \in 1..n : status[r] = "running" /\ status'[r] = "ok"
        /\ arg.mode = "update" /\ ~arg.wipe => Mountable(arg.to)]_vars
=============================================================================
