----------------------------- MODULE HostControl -----------------------------
(***************************************************************************)
(* tools/a6l-host-control.py: the root helper that masks fwupd and         *)
(* ModemManager while the phone is flashed over EDL, and the coordinators  *)
(* that call it (Run-LaptopRomInstall-v1, Run-LaptopRomRestore-v1,         *)
(* Run-LaptopRomUpdate-v1 --transport edl): status, pause, EDL, worker,    *)
(* and resume in a `finally`.                                              *)
(*                                                                         *)
(* Every helper call is a process of its own that takes a non-blocking     *)
(* file lock and works from /run/a6l-host-control/state.json, so between   *)
(* two of its steps it may die (a systemctl call that fails or times out,  *)
(* a kill) and leave a half-done pause or resume behind.  A coordinator    *)
(* waits for its helper, so one program counter serves for both.           *)
(***************************************************************************)
EXTENDS Naturals

CONSTANTS
  Coord,        \* coordinator processes
  Operator,     \* the person who runs `a6l-host-control resume` by hand
  Unit,         \* UNITS: fwupd.service, ModemManager.service
  Rank,         \* position in UNITS
  Kind,         \* Kind[c]: "install", "restore" or "update"
  Phone0,       \* what is on port 3-2 at the start
  NoRec,        \* model value: state.json does not exist
  NoUnit,       \* model value: no pending / restoring unit
  Free          \* model value: the lock is free

ASSUME ConstantsAssumption ==
  /\ Operator \notin Coord
  /\ Free \notin Coord \cup {Operator}
  /\ NoUnit \notin Unit
  /\ Rank \in [Unit -> Nat]
  /\ \A u, v \in Unit : Rank[u] = Rank[v] => u = v
  /\ Kind \in [Coord -> {"install", "restore", "update"}]
  /\ Phone0 \in {"stock", "lineage", "edl", "none"}

Proc == Coord \cup {Operator}

\* state.json.  owned is a list in the order of UNITS; the set is enough.
Record == [initial : [Unit -> BOOLEAN], owned : SUBSET Unit,
           pending : Unit \cup {NoUnit}, restoring : Unit \cup {NoUnit}]

ASSUME NoRecAssumption == NoRec \notin Record

VARIABLES
  phone,    \* USB device on port 3-2: stock Android, LineageOS, EDL or nothing
  mask,     \* mask[u]: /run/systemd/system/<u> is a link to /dev/null
  active,   \* active[u]: ActiveState
  rec,      \* state.json
  lock,     \* holder of the flock
  pc,       \* step of each process
  unit,     \* unit of the loop iteration in progress
  restored  \* report['services_restored'] of each coordinator

vars == <<phone, mask, active, rec, lock, pc, unit, restored>>

\* devices(): a development USB device (9008, fastboot, diagnostic gadget).
devices == phone = "edl"

First(S, u) == u \in S /\ \A v \in S : Rank[u] <= Rank[v]
Last(S, u)  == u \in S /\ \A v \in S : Rank[v] <= Rank[u]

Goto(p, l) == pc' = [pc EXCEPT ![p] = l]

Init ==
  /\ phone = Phone0
  /\ mask = [u \in Unit |-> FALSE]
  /\ active \in [Unit -> BOOLEAN]
  /\ rec = NoRec
  /\ lock = Free
  /\ pc = [p \in Proc |-> "idle"]
  /\ unit = [p \in Proc |-> NoUnit]
  /\ restored = [c \in Coord |-> FALSE]

-----------------------------------------------------------------------------
(* The coordinator *)

\* What the coordinator itself asks of the phone before it touches the host:
\* install wants stock Android; update wants LineageOS, or EDL with
\* --already-in-edl; restore asks nothing.
Start(c) ==
  /\ pc[c] = "idle"
  /\ Kind[c] = "install" => phone = "stock"
  /\ Kind[c] = "update" => phone \in {"lineage", "edl"}
  /\ Goto(c, "status")
  /\ UNCHANGED <<phone, mask, active, rec, lock, unit, restored>>

\* a6l-host-control status: no earlier pause may be recorded.
Status(c) ==
  /\ pc[c] = "status" /\ lock = Free
  /\ Goto(c, IF rec = NoRec THEN "pause" ELSE "done")
  /\ restored' = [restored EXCEPT ![c] = rec # NoRec]       \* restored = not paused
  /\ UNCHANGED <<phone, mask, active, rec, lock, unit>>

\* The EDL device has appeared on port 3-2: the worker runs.
WorkBegin(c) ==
  /\ pc[c] = "wait" /\ phone = "edl"
  /\ Goto(c, "work")
  /\ UNCHANGED <<phone, mask, active, rec, lock, unit, restored>>

\* The worker has ended, or EDL did not appear in time: the finally block.
Finally(c) ==
  /\ pc[c] \in {"wait", "work"}
  /\ Goto(c, "resume")
  /\ UNCHANGED <<phone, mask, active, rec, lock, unit, restored>>

\* Mutant of Verify: the exit code of resume is taken for the state.
VerifyNothing(c) ==
  /\ pc[c] = "verify" /\ lock = Free
  /\ restored' = [restored EXCEPT ![c] = TRUE]
  /\ Goto(c, "done")
  /\ UNCHANGED <<phone, mask, active, rec, lock, unit>>

\* a6l-host-control status after a resume that exited 0.
Verify(c) ==
  /\ pc[c] = "verify" /\ lock = Free
  /\ restored' = [restored EXCEPT ![c] = (rec = NoRec)]
  /\ Goto(c, "done")
  /\ UNCHANGED <<phone, mask, active, rec, lock, unit>>

-----------------------------------------------------------------------------
(* The helper: pause *)

\* The conditions on which pause goes ahead.
PauseOK == rec = NoRec /\ phone = "stock" /\ ~devices /\ \A u \in Unit : ~mask[u]

\* Take the lock, check, save an empty record of the initial states.
PauseBegin(c) ==
  /\ pc[c] = "pause" /\ lock = Free
  /\ PauseOK
  /\ rec' = [initial |-> active, owned |-> {}, pending |-> NoUnit, restoring |-> NoUnit]
  /\ lock' = c
  /\ Goto(c, "masking")
  /\ UNCHANGED <<phone, mask, active, unit, restored>>

\* Mutant of SavePending: the unit is masked before it is recorded.
SavePendingLate(c, u) ==
  /\ pc[c] = "masking" /\ unit[c] = NoUnit /\ First(Unit \ rec.owned, u)
  /\ unit' = [unit EXCEPT ![c] = u]
  /\ UNCHANGED <<phone, mask, active, rec, lock, pc, restored>>

\* recorded['pending'] = unit, saved before systemctl mask.
SavePending(c, u) ==
  /\ pc[c] = "masking" /\ unit[c] = NoUnit /\ First(Unit \ rec.owned, u)
  /\ rec' = [rec EXCEPT !.pending = u]
  /\ unit' = [unit EXCEPT ![c] = u]
  /\ UNCHANGED <<phone, mask, active, lock, pc, restored>>

\* systemctl mask --runtime ...
Mask(c) ==
  /\ pc[c] = "masking" /\ unit[c] # NoUnit
  /\ mask' = [mask EXCEPT ![unit[c]] = TRUE]
  /\ Goto(c, "masked")
  /\ UNCHANGED <<phone, active, rec, lock, unit, restored>>

\* ... --now: the stop may fail after the mask is there.
StopUnit(c) ==
  /\ pc[c] = "masked"
  /\ active' = [active EXCEPT ![unit[c]] = FALSE]
  /\ Goto(c, "stopped")
  /\ UNCHANGED <<phone, mask, rec, lock, unit, restored>>

SaveOwned(c) ==
  /\ pc[c] = "stopped"
  /\ rec' = [rec EXCEPT !.owned = @ \cup {unit[c]}, !.pending = NoUnit]
  /\ unit' = [unit EXCEPT ![c] = NoUnit]
  /\ Goto(c, "masking")
  /\ UNCHANGED <<phone, mask, active, lock, restored>>

\* Mutant of PauseEnd: success after the first unit.
PauseEndEarly(c) ==
  /\ pc[c] = "masking" /\ unit[c] = NoUnit /\ rec.owned # {}
  /\ lock' = Free
  /\ Goto(c, "wait")
  /\ UNCHANGED <<phone, mask, active, rec, unit, restored>>

PauseEnd(c) ==
  /\ pc[c] = "masking" /\ unit[c] = NoUnit /\ rec.owned = Unit
  /\ lock' = Free
  /\ Goto(c, "wait")
  /\ UNCHANGED <<phone, mask, active, rec, unit, restored>>

-----------------------------------------------------------------------------
(* The helper: resume *)

\* The operator resumes by hand what a dead coordinator left.
OperatorStart ==
  /\ pc[Operator] = "idle" /\ rec # NoRec
  /\ \A c \in Coord : pc[c] \in {"idle", "done", "dead"}
  /\ Goto(Operator, "resume")
  /\ UNCHANGED <<phone, mask, active, rec, lock, unit, restored>>

NothingToRestore(p) ==
  /\ pc[p] = "resume" /\ lock = Free /\ rec = NoRec
  /\ Goto(p, IF p = Operator THEN "idle" ELSE "verify")
  /\ UNCHANGED <<phone, mask, active, rec, lock, unit, restored>>

\* Mutant of ResumeBegin: a pending unit is forgotten.
ResumeBeginForgets(p) ==
  /\ pc[p] = "resume" /\ lock = Free /\ rec # NoRec
  /\ ~devices
  /\ rec' = [rec EXCEPT !.pending = NoUnit]
  /\ lock' = p
  /\ Goto(p, "restoring")
  /\ UNCHANGED <<phone, mask, active, unit, restored>>

\* Mutant of ResumeBegin: the pending entry is taken for owned unseen.
ResumeBeginTrusts(p) ==
  /\ pc[p] = "resume" /\ lock = Free /\ rec # NoRec
  /\ ~devices
  /\ rec' = [rec EXCEPT !.pending = NoUnit, !.owned = @ \cup {rec.pending}]
  /\ lock' = p
  /\ Goto(p, "restoring")
  /\ UNCHANGED <<phone, mask, active, unit, restored>>

\* Take the lock, refuse while a development device is present, settle the
\* unit that an interrupted pause left pending.
ResumeBegin(p) ==
  /\ pc[p] = "resume" /\ lock = Free /\ rec # NoRec
  /\ ~devices
  /\ rec' = [rec EXCEPT !.pending = NoUnit,
                        !.owned = IF rec.pending # NoUnit /\ mask[rec.pending]
                                  THEN @ \cup {rec.pending} ELSE @]
  /\ lock' = p
  /\ Goto(p, "restoring")
  /\ UNCHANGED <<phone, mask, active, unit, restored>>

\* Mutant of SaveRestoring: 'restoring' is not saved before the unmask.
SaveRestoringLate(p, u) ==
  /\ pc[p] = "restoring" /\ unit[p] = NoUnit /\ Last(rec.owned, u)
  /\ mask[u] \/ rec.restoring = u
  /\ unit' = [unit EXCEPT ![p] = u]
  /\ UNCHANGED <<phone, mask, active, rec, lock, pc, restored>>

\* for unit in reversed(owned): the mask is there, or an interrupted resume had
\* already removed it.
SaveRestoring(p, u) ==
  /\ pc[p] = "restoring" /\ unit[p] = NoUnit /\ Last(rec.owned, u)
  /\ mask[u] \/ rec.restoring = u
  /\ rec' = [rec EXCEPT !.restoring = u]
  /\ unit' = [unit EXCEPT ![p] = u]
  /\ UNCHANGED <<phone, mask, active, lock, pc, restored>>

Unmask(p) ==
  /\ pc[p] = "restoring" /\ unit[p] # NoUnit
  /\ mask' = [mask EXCEPT ![unit[p]] = FALSE]
  /\ Goto(p, "unmasked")
  /\ UNCHANGED <<phone, active, rec, lock, unit, restored>>

\* systemctl start, if it was active before the pause
StartUnit(p) ==
  /\ pc[p] = "unmasked"
  /\ active' = [active EXCEPT ![unit[p]] = @ \/ rec.initial[unit[p]]]
  /\ Goto(p, "started")
  /\ UNCHANGED <<phone, mask, rec, lock, unit, restored>>

\* The unit is as it was: drop it from the record.
SaveRestored(p) ==
  /\ pc[p] = "started"
  /\ active[unit[p]] = rec.initial[unit[p]]
  /\ rec' = [rec EXCEPT !.owned = @ \ {unit[p]}, !.restoring = NoUnit]
  /\ unit' = [unit EXCEPT ![p] = NoUnit]
  /\ Goto(p, "restoring")
  /\ UNCHANGED <<phone, mask, active, lock, restored>>

\* path.unlink()
Unlink(p) ==
  /\ pc[p] = "restoring" /\ unit[p] = NoUnit /\ rec.owned = {}
  /\ rec' = NoRec
  /\ lock' = Free
  /\ Goto(p, IF p = Operator THEN "idle" ELSE "verify")
  /\ UNCHANGED <<phone, mask, active, unit, restored>>

-----------------------------------------------------------------------------
(* Failure *)

Pausing   == {"pause", "masking", "masked", "stopped"}
Resuming  == {"resume", "restoring", "unmasked", "started", "verify"}

\* The helper ends with an error: a condition not met, the lock taken, a
\* systemctl call failed.  The file lock goes with the process.
HelperFails(p) ==
  /\ pc[p] \in Pausing \cup Resuming \cup {"status"}
  /\ Goto(p, IF p = Operator THEN "idle"
             ELSE IF pc[p] \in Pausing THEN "resume" ELSE "done")
  /\ restored' = IF pc[p] = "status" THEN [restored EXCEPT ![p] = TRUE] ELSE restored
  /\ lock' = IF lock = p THEN Free ELSE lock
  /\ unit' = [unit EXCEPT ![p] = NoUnit]
  /\ UNCHANGED <<phone, mask, active, rec>>

\* The whole terminal session dies: no finally block, no resume.
Kill(c) ==
  /\ pc[c] \notin {"idle", "done", "dead"}
  /\ Goto(c, "dead")
  /\ lock' = IF lock = c THEN Free ELSE lock
  /\ unit' = [unit EXCEPT ![c] = NoUnit]
  /\ UNCHANGED <<phone, mask, active, rec, restored>>

-----------------------------------------------------------------------------
(* The phone and the host (external) *)

\* The phone is rebooted, plugged, unplugged; EDL is also entered by hand.
PhoneMoves ==
  /\ phone' \in {"stock", "lineage", "edl", "none"} \ {phone}
  /\ UNCHANGED <<mask, active, rec, lock, pc, unit, restored>>

\* D-Bus activation of a unit that is not masked.
Activate(u) ==
  /\ ~mask[u] /\ ~active[u]
  /\ active' = [active EXCEPT ![u] = TRUE]
  /\ UNCHANGED <<phone, mask, rec, lock, pc, unit, restored>>

CoordStep(c) ==
  \/ Start(c) \/ Status(c) \/ WorkBegin(c) \/ Finally(c) \/ Verify(c) \/ Kill(c)
  \/ PauseBegin(c) \/ Mask(c) \/ StopUnit(c) \/ SaveOwned(c) \/ PauseEnd(c)
  \/ \E u \in Unit : SavePending(c, u)

HelperStep(p) ==
  \/ NothingToRestore(p) \/ ResumeBegin(p) \/ Unmask(p) \/ StartUnit(p)
  \/ SaveRestored(p) \/ Unlink(p) \/ HelperFails(p)
  \/ \E u \in Unit : SaveRestoring(p, u)

Next == \/ \E c \in Coord : CoordStep(c)
        \/ \E p \in Proc : HelperStep(p)
        \/ OperatorStart \/ PhoneMoves
        \/ \E u \in Unit : Activate(u)

Spec == Init /\ [][Next]_vars

-----------------------------------------------------------------------------
(* Properties *)

\* Types of the state; a unit is in progress only inside the helper's loops.
TypeOK ==
  /\ phone \in {"stock", "lineage", "edl", "none"}
  /\ mask \in [Unit -> BOOLEAN]
  /\ active \in [Unit -> BOOLEAN]
  /\ rec \in Record \cup {NoRec}
  /\ lock \in Proc \cup {Free}
  /\ pc \in [Proc -> {"idle", "status", "pause", "masking", "masked", "stopped", "wait",
                      "work", "resume", "restoring", "unmasked", "started", "verify", "done", "dead"}]
  /\ unit \in [Proc -> Unit \cup {NoUnit}]
  /\ restored \in [Coord -> BOOLEAN]

\* Wherever a pause or a resume dies, every mask it has left behind is in
\* state.json, as owned or as pending: a later resume knows of it, and when the
\* record is gone no mask is.  (The order of save() and systemctl in main.)
MaskRecorded ==
  \A u \in Unit : mask[u] => rec # NoRec /\ (u \in rec.owned \/ rec.pending = u)

\* A resume never finds an 'Owned runtime mask changed' of its own making: an
\* owned unit is still masked, or is the one that an interrupted resume was at.
OwnedRestorable ==
  rec # NoRec => \A u \in rec.owned : mask[u] \/ (rec.restoring = u /\ Last(rec.owned, u))

\* The record goes away only when every unit is unmasked and every unit that was
\* active before the pause is active again.
ServicesBack ==
  [][rec # NoRec /\ rec' = NoRec =>
       \A u \in Unit : ~mask'[u] /\ (rec.initial[u] => active'[u])]_vars

\* "Keep services paused while development USB is present": while a worker talks
\* to the phone in EDL, neither service can run.
PausedWhileWorking == \A c \in Coord : pc[c] = "work" => \A u \in Unit : mask[u]

\* The same while no other coordinator has been started, wherever its helper
\* fails: pause ends with every unit masked, or the worker never starts.
SoleCoordinatorPauses ==
  \A c \in Coord : (\A d \in Coord \ {c} : pc[d] = "idle") /\ pc[c] = "work" =>
    \A u \in Unit : mask[u]

\* A coordinator that reports services_restored after a pause of its own has left
\* no mask of its pause behind.
RestoredMeansUnmasked ==
  [][\A c \in Coord : pc[c] = "verify" /\ restored'[c] => \A u \in Unit : ~mask[u]]_vars
=============================================================================
