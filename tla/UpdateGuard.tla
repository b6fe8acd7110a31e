----------------------------- MODULE UpdateGuard -----------------------------
(***************************************************************************)
(* What may reach the eMMC during an update: the plan check of             *)
(* RomUpdateLayoutV1 and the two transports that run it again on the exact *)
(* range they send, UpdateGuard/FirehoseDevice (EDL) and                   *)
(* AdbRecoveryDevice (adb).                                                *)
(*                                                                         *)
(* The engine above is not trusted here: it may ask for any plan and any   *)
(* range in Request, in any order, and a transfer may break off after any  *)
(* number of sectors.  A range is <<start, sectors>>.                      *)
(***************************************************************************)
EXTENDS Naturals

CONSTANTS
  Name,          \* L.PARTITIONS: partition names
  PART,          \* PART[n]: its range
  Writable,      \* UPDATE_WRITABLE
  Programmable,  \* L.PROGRAMMABLE
  ZeroLen,       \* METADATA_HEAD_ZERO = USERDATA_HEAD_ZERO
  ZeroPart,      \* WIPE_ZERO.values(): metadata, userdata
  Gpt,           \* {GPT_PRIMARY, GPT_TAIL}
  Sector,        \* sectors of the disk
  Request,       \* ranges the engine may ask for
  Plans,         \* plans the worker may ask for (sets of ranges)
  PrevLen,       \* PrevLen[n]: sectors of the installed build's image of n
  NewLen,        \* NewLen[n]: sectors of the new build's image of n
  NoPlan         \* model value: guard.update_plan is None

Range(r) == r \in Nat \X Nat

ASSUME ConstantsAssumption ==
  /\ \A n \in Name : Range(PART[n])
  /\ Writable \subseteq Name
  /\ ZeroPart \subseteq Name \ Writable       \* the assert of RomUpdateLayoutV1
  /\ Programmable \subseteq Name
  /\ \A g \in Gpt : Range(g)
  /\ ZeroLen \in Nat
  /\ Sector \subseteq Nat
  /\ \A r \in Request : Range(r)
  /\ \A P \in Plans : \A r \in P : Range(r)
  /\ NoPlan \notin Plans

VARIABLES
  transport, \* --transport: "edl" or "adb"
  wipe,      \* --wipe-data
  sector,    \* sector[s]: "old", "new" (payload) or "zero" (wipe payload)
  plan,      \* guard.update_plan
  programs,  \* guard.programs: the transfer in progress
  ready,     \* adb preflight done
  blocked,   \* report['blocked_xml_not_sent']: a read the guard refused
  running    \* no StopRun yet

options == <<transport, wipe>>
vars == <<options, sector, plan, programs, ready, blocked, running>>

-----------------------------------------------------------------------------
(* RomUpdateLayoutV1 *)

\* start < ps + pn and ps < end
Overlaps(r, q) == r[1] < q[1] + q[2] /\ q[1] < r[1] + r[2]

partition_at(r) == {n \in Name : Overlaps(r, PART[n])}

\* A label is the partition name, or <<"zero", name>> for 'metadata-zero' and
\* 'userdata-zero'.
ZeroLabel(n) == <<"zero", n>>
wipe_zero_range(n) == <<PART[n][1], ZeroLen>>

\* The branch for the two zero ranges of a wipe.
ZeroWriteOK(label, r, n) ==
  /\ n \in ZeroPart
  /\ label = ZeroLabel(n)
  /\ r = wipe_zero_range(n)
  /\ \A g \in Gpt : ~Overlaps(r, g)

\* The branch for an image.
ImageWriteOK(label, r, n) ==
  /\ n \in Writable
  /\ r[1] = PART[n][1] /\ r[1] + r[2] <= PART[n][1] + PART[n][2]
  /\ label = n
  /\ \A g \in Gpt : ~Overlaps(r, g)

\* One iteration of check_update_plan.
WriteOK(label, r, wiping) ==
  /\ r[2] > 0
  /\ \E n \in Name :
       /\ partition_at(r) = {n}
       /\ IF wiping /\ (n \in ZeroPart \/ \E z \in ZeroPart : label = ZeroLabel(z))
            THEN ZeroWriteOK(label, r, n)
            ELSE ImageWriteOK(label, r, n)

\* check_update_plan(labelled(ranges)): each range carries the name of the one
\* partition it lies in, and no partition is written twice.
check_update_plan(P) ==
  /\ \A r \in P : \E n \in Name : partition_at(r) = {n} /\ WriteOK(n, r, FALSE)
  /\ \A r, q \in P : r # q => partition_at(r) # partition_at(q)

\* RomFlashLayoutV1.check_plan: inside exactly one programmable partition.
Inside(r, q) == q[1] <= r[1] /\ r[1] + r[2] <= q[1] + q[2]
check_plan(P) ==
  \A r \in P : r[2] > 0 /\ \E n \in Programmable :
                 {m \in Programmable : Inside(r, PART[m])} = {n}

-----------------------------------------------------------------------------
Init ==
  /\ transport \in {"edl", "adb"}
  /\ wipe \in BOOLEAN /\ (wipe => transport = "adb")      \* wipe_args_check
  /\ sector = [s \in Sector |-> "old"]
  /\ plan = NoPlan
  /\ programs = {}
  /\ ready = FALSE
  /\ blocked = FALSE
  /\ running = TRUE

\* The first k sectors of r get payload of kind v.
Transfer(r, k, v) ==
  sector' = [s \in Sector |-> IF r[1] <= s /\ s < r[1] + k THEN v ELSE sector[s]]

(* EDL *)

\* UpdateGuard.set_plan
SetPlan(P) ==
  /\ running /\ transport = "edl" /\ plan = NoPlan
  /\ check_update_plan(P) /\ check_plan(P)
  /\ plan' = P
  /\ UNCHANGED <<options, sector, programs, ready, blocked, running>>

\* Mutant of EdlProgramBegin: it registers whatever it is asked to program.
EdlRegistersAnything(r) ==
  /\ running /\ transport = "edl" /\ programs = {}
  /\ programs' = {r}
  /\ UNCHANGED <<options, sector, plan, ready, blocked, running>>

\* FirehoseDevice.program registers the range of the transfer.
EdlProgramBegin(r) ==
  /\ running /\ transport = "edl" /\ programs = {}
  /\ plan # NoPlan /\ r \in plan
  /\ programs' = {r}
  /\ UNCHANGED <<options, sector, plan, ready, blocked, running>>

\* Guard.check and UpdateGuard.check of a <program>.
ProgramXmlOK(r) ==
  /\ plan # NoPlan /\ r \in plan /\ r \in programs
  /\ check_update_plan({r})

\* The <program> is sent and k sectors follow; a short transfer stops the run.
EdlProgram(r, k) ==
  /\ running /\ transport = "edl"
  /\ ProgramXmlOK(r)
  /\ k <= r[2]
  /\ Transfer(r, k, "new")
  /\ programs' = IF k = r[2] THEN {} ELSE programs
  /\ running' = (k = r[2])
  /\ UNCHANGED <<options, plan, ready, blocked>>

\* Write-LaptopRomUpdateV1.main: the reads the guard is given.
allowed_reads ==
  {PART[n] : n \in Name} \cup Gpt \cup {<<PART[n][1], NewLen[n]>> : n \in Writable}

\* The reads of run_update with the hash-only policy.
EngineReads ==
  {<<PART[n][1], PrevLen[n]>> : n \in Writable} \cup {<<PART[n][1], NewLen[n]>> : n \in Writable}

EdlRead(r) ==
  /\ running /\ transport = "edl"
  /\ blocked' = (r \notin allowed_reads)
  /\ running' = (r \in allowed_reads)
  /\ UNCHANGED <<options, sector, plan, programs, ready>>

(* adb *)

AdbPreflight ==
  /\ running /\ transport = "adb" /\ ~ready
  /\ ready' = TRUE
  /\ UNCHANGED <<options, sector, plan, programs, blocked, running>>

\* check_program: is r one of the two zero ranges, or an image of the partition
\* it starts at?
IsZeroRange(r) == wipe /\ \E n \in ZeroPart : r = wipe_zero_range(n)
check_program(r) ==
  /\ ready
  /\ \E n \in Name :
       /\ {m \in Name : PART[m][1] = r[1]} = {n}
       /\ IF IsZeroRange(r) THEN \E z \in ZeroPart : /\ r = wipe_zero_range(z)
                                                     /\ WriteOK(ZeroLabel(z), r, TRUE)
                            ELSE WriteOK(n, r, FALSE)

\* Mutant of AdbProgram: any payload goes into a zero range.
AdbProgramAnyPayload(r, k, v) ==
  /\ running /\ transport = "adb"
  /\ check_program(r)
  /\ k <= r[2]
  /\ Transfer(r, k, v)
  /\ running' = (k = r[2])
  /\ UNCHANGED <<options, plan, programs, ready, blocked>>

\* AdbRecoveryDevice.program; _zeros_only lets nothing but zeroes into a zero range.
AdbProgram(r, k, v) ==
  /\ running /\ transport = "adb"
  /\ check_program(r)
  /\ IsZeroRange(r) => v = "zero"
  /\ k <= r[2]
  /\ Transfer(r, k, v)
  /\ running' = (k = r[2])
  /\ UNCHANGED <<options, plan, programs, ready, blocked>>

\* A request that a check refuses, a read that fails, a kill: nothing more is sent.
Stop ==
  /\ running
  /\ running' = FALSE
  /\ UNCHANGED <<options, sector, plan, programs, ready, blocked>>

Next ==
  \/ \E P \in Plans : SetPlan(P)
  \/ \E r \in Request : EdlProgramBegin(r)
  \/ \E r \in Request : \E k \in 0..r[2] : EdlProgram(r, k)
  \/ \E r \in EngineReads : EdlRead(r)
  \/ AdbPreflight
  \/ Stop
  \/ \E r \in Request : \E k \in 0..r[2], v \in {"new", "zero"} : AdbProgram(r, k, v)

Spec == Init /\ [][Next]_vars

-----------------------------------------------------------------------------
(* Properties *)

In(s, q) == q[1] <= s /\ s < q[1] + q[2]

\* Types of the state.
TypeOK ==
  /\ transport \in {"edl", "adb"} /\ wipe \in BOOLEAN
  /\ sector \in [Sector -> {"old", "new", "zero"}]
  /\ plan \in Plans \cup {NoPlan}
  /\ programs \subseteq (IF plan = NoPlan THEN {} ELSE plan)
  /\ ready \in BOOLEAN /\ blocked \in BOOLEAN /\ running \in BOOLEAN

\* A sector an image may be written to: of a writable partition, of no other
\* partition of the layout, outside the GPT.
ImageSector(s) ==
  /\ \E n \in Writable : In(s, PART[n])
  /\ \A n \in Name \ Writable : ~In(s, PART[n])
  /\ \A g \in Gpt : ~In(s, g)

\* A sector a wipe may zero: in the first MiB of metadata or userdata, of no
\* third partition, outside the GPT.
WipeSector(s) ==
  /\ wipe
  /\ \E n \in ZeroPart : In(s, wipe_zero_range(n)) /\ \A m \in Name \ {n} : ~In(s, PART[m])
  /\ \A g \in Gpt : ~In(s, g)

\* Whatever ranges the engine asks for, no sector of userdata, metadata, persist,
\* the EFS, misc, recovery, vbmeta, devinfo or the GPT changes, except that a wipe
\* may put zeroes, and only zeroes, in the first MiB of metadata and userdata.
ProtectedUntouched ==
  \A s \in Sector : /\ sector[s] = "new" => ImageSector(s)
                    /\ sector[s] = "zero" => ImageSector(s) \/ WipeSector(s)
=============================================================================
