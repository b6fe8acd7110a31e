------------------------------ MODULE UsbGadget ------------------------------
(***************************************************************************)
(* usb/gadget: the USB gadget HAL.  A request names a set of functions;    *)
(* the Controller tears the configfs gadget down, links the new            *)
(* composition one function after the other, and binds the controller      *)
(* (UDC) once the FunctionFS daemons have written their descriptors.  It   *)
(* gives up its lock in three places: while D+ is held low after an unbind *)
(* (setFunctions and reset) and while a request waits for the bind.  The   *)
(* monitor thread and newer requests come in there.  Daemons, the kernel   *)
(* and init, whose early-adb rule may still be running on the same         *)
(* configfs tree, know nothing of the lock and come in everywhere.         *)
(***************************************************************************)
EXTENDS Naturals, Sequences, FiniteSets

CONSTANTS
  Client,     \* threads that call the HAL
  Requests,   \* the sets of functions the framework may ask for
  Available,  \* functions/<fn> directories that exist
  Ffs,        \* functions served by a FunctionFS daemon
  Down,       \* model value: no UDC is bound
  MaxGen,     \* bound: calls of setFunctions
  MaxFaults   \* bound: failed writes and daemon deaths

Main == {"mtp", "ptp", "rndis", "midi", "ncm"}

ASSUME GadgetAssumption ==
  /\ "adb" \in Ffs /\ Ffs \subseteq {"adb", "mtp", "ptp"}
  /\ Down \notin Seq(Main \cup {"adb"})
  /\ MaxGen \in Nat /\ MaxFaults \in Nat

\* compose(): at most one main function, then adb; NONE links nothing.
Supported(S) == /\ S \subseteq Main \cup {"adb"}
                /\ \A f, g \in S \cap Main : f = g
Links(S) == LET main == S \cap Main
            IN  (IF main = {} THEN <<>> ELSE <<CHOOSE f \in main : TRUE>>)
                  \o (IF "adb" \in S THEN <<"adb">> ELSE <<>>)

\* Mutant of Pid: the product id does not tell whether adb is on.
PidOfMain(S) == S \cap Main
\* idProduct, one to one with the set of functions.
Pid(S) == S

VARIABLES
  links,      \* the functions linked in configs/b.1, in the order of f1, f2
  pid,        \* idProduct, as the function set it belongs to
  bus,        \* the functions the bound gadget presents, or Down
  ready,      \* ready[f]: the endpoint files of FunctionFS f exist
  ffsProp,    \* sys.usb.ffs.ready = 1
  hal,        \* vendor.a6l.usb.hal = 1 (always equal to mTookOver)
  due,        \* a property event that can start init's early-adb rule is queued
  init,       \* step of that rule
  functions, comp, armed, applied, generation,  \* Controller
  pc, req, gen,                                 \* the calls in progress
  answer,                                       \* result of the latest call that returned
  lost,       \* history: adbd has closed the gadget since the controller last looked
  left,       \* history: the links are what a failed unlinkAll left behind
  faults

gadget  == <<links, pid, bus, left>>
owner   == <<hal, due, init>>
control == <<functions, comp, armed, applied, generation, lost>>
calls   == <<pc, req, gen, answer>>
env     == <<ready, ffsProp>>
vars    == <<gadget, owner, control, calls, env, faults>>

bound == bus # Down
Fns(l) == {l[i] : i \in DOMAIN l}
matches(S)  == bound /\ pid = Pid(S) /\ links = Links(S)
FfsReady(S) == \A f \in S \cap Ffs : ready[f]
CanApply(S) == Supported(S) /\ S \subseteq Available

Fault   == faults < MaxFaults /\ faults' = faults + 1
NoFault == UNCHANGED faults

\* mLock: a call that is between two writes of apply() holds it.
LockFree == \A q \in Client : pc[q] \notin {"apply", "link"}

Init ==
  /\ links = <<>> /\ pid = {"adb"} /\ bus = Down   \* the skeleton of init.a6l.usb.rc
  /\ ready = [f \in Ffs |-> FALSE] /\ ffsProp = FALSE
  /\ hal = FALSE /\ due = FALSE /\ init = "idle"
  /\ functions = {} /\ comp = {} /\ armed = FALSE /\ applied = FALSE /\ generation = 0
  /\ pc = [p \in Client |-> "idle"]
  /\ req = [p \in Client |-> {}]
  /\ gen = [p \in Client |-> 0]
  /\ answer = "none"
  /\ lost = FALSE /\ left = FALSE
  /\ faults = 0

-----------------------------------------------------------------------------
(* tryBindLocked() with mArmed, for the composition S linked as l *)

\* Mutant of TryBind: what was applied once is taken for bound.
TryBindTrusts(S, l) ==
  /\ lost' = FALSE
  /\ \/ (bound \/ applied) /\ applied' = TRUE /\ UNCHANGED bus /\ NoFault
     \/ ~bound /\ ~applied /\ FfsReady(S) /\ bus' = l /\ applied' = TRUE /\ NoFault
     \/ ~bound /\ ~applied /\ ~FfsReady(S) /\ UNCHANGED <<bus, applied, faults>>

\* Whatever is bound counts; otherwise it binds once the daemons are there.
TryBind(S, l) ==
  /\ lost' = FALSE
  /\ \/ bound /\ applied' = TRUE /\ UNCHANGED bus /\ NoFault
     \/ ~bound /\ FfsReady(S) /\ bus' = l /\ applied' = TRUE /\ NoFault
     \/ /\ ~bound /\ applied' = FALSE /\ UNCHANGED bus
        /\ IF FfsReady(S) THEN Fault ELSE NoFault               \* bind() failed

-----------------------------------------------------------------------------
(* Setting the functions *)

\* The call of p ends with result r; kApplyFailed hands the gadget back to init.
Return(p, r) ==
  /\ pc' = [pc EXCEPT ![p] = "idle"]
  /\ req' = [req EXCEPT ![p] = {}]
  /\ gen' = [gen EXCEPT ![p] = 0]
  /\ answer' = r
  /\ hal' = (hal /\ r # "applyFailed")
  /\ due' = (due \/ (r = "applyFailed" /\ ffsProp))

\* The call goes on at l, with the lock ("apply", "link") or without it.
GoOn(p, l) ==
  /\ pc' = [pc EXCEPT ![p] = l]
  /\ gen' = [gen EXCEPT ![p] = generation']
  /\ UNCHANGED <<req, answer, hal, due>>

\* setCurrentUsbFunctions takes the gadget over before it asks for the lock.
Enter(p, S) ==
  /\ pc[p] = "idle" /\ generation < MaxGen
  /\ pc' = [pc EXCEPT ![p] = "called"]
  /\ req' = [req EXCEPT ![p] = S]
  /\ hal' = TRUE
  /\ UNCHANGED <<gadget, due, init, control, gen, answer, env, faults>>

Begin(p) ==
  /\ pc[p] = "called" /\ LockFree /\ generation < MaxGen
  /\ generation' = generation + 1
  /\ functions' = req[p] /\ lost' = FALSE
  /\ UNCHANGED <<env, init>>

CanAdopt(S) == Supported(S) /\ S # {} /\ matches(S)

\* An identical gadget that is already bound is kept as it is.
Adopt(p) ==
  /\ Begin(p)
  /\ CanAdopt(req[p])
  /\ comp' = req[p] /\ armed' = TRUE /\ applied' = TRUE
  /\ Return(p, "success")
  /\ UNCHANGED <<gadget, faults>>

\* What a failing unlinkAll() may leave; f2 alone is told from f1 by the
\* product id, which is still that of the pair.
Rests == {<<>>, links} \cup {<<f>> : f \in Fns(links)}

\* The kernel unbinds a gadget that loses a link.
Unlink(rest, b) ==
  /\ links' = rest /\ left' = (rest # <<>>)
  /\ bus' = IF rest = links THEN b ELSE Down

\* Otherwise unbind and unlink, and either may fail.  D+ stays low for a while
\* when the gadget was bound.  This is one step although init may come in: a
\* link or a bind of its rule before the unlink is undone by it, and one after
\* it might as well come after the whole.
TearDown(p) ==
  /\ Begin(p)
  /\ ~CanAdopt(req[p])
  /\ comp' = {} /\ armed' = FALSE /\ UNCHANGED pid
  /\ \/ /\ Unlink(<<>>, Down) /\ NoFault
        /\ applied' = (CanApply(req[p]) /\ ~bound /\ req[p] = {})
        /\ \/ ~CanApply(req[p]) /\ Return(p, "notSupported")
           \/ CanApply(req[p]) /\ bound /\ GoOn(p, "sleep")
           \/ CanApply(req[p]) /\ ~bound /\ req[p] # {} /\ GoOn(p, "apply")
           \/ CanApply(req[p]) /\ ~bound /\ req[p] = {} /\ Return(p, "success")
     \/ /\ Fault /\ applied' = FALSE
        /\ \E rest \in Rests, b \in {bus, Down} :
             /\ rest = <<>> => bound \/ links = <<>>      \* unbind(), or opendir(), failed
             /\ Unlink(rest, b)
        /\ Return(p, IF CanApply(req[p]) THEN "applyFailed" ELSE "notSupported")

setFunctions(p) == Adopt(p) \/ TearDown(p)

\* apply() failed, on a broken write or on what it found; it is unlinked again,
\* as far as that works.
ApplyFails(p, broken) ==
  /\ \E rest \in Rests :
       /\ Unlink(rest, bus)
       /\ IF broken \/ rest # <<>> THEN Fault ELSE NoFault
  /\ UNCHANGED <<comp, armed, applied, lost>>
  /\ Return(p, "applyFailed")

\* apply(), the attributes and f1, which exists when init's rule has linked adb.
apply(p) ==
  \/ /\ links = <<>> /\ NoFault
     /\ links' = <<Head(Links(req[p]))>> /\ pid' = Pid(req[p])
     /\ GoOn(p, "link")
     /\ UNCHANGED <<bus, left, comp, armed, applied, lost>>
  \/ \E broken \in BOOLEAN :
       /\ broken \/ links # <<>>
       /\ pid' \in {Pid(req[p])} \cup (IF broken THEN {pid} ELSE {})
       /\ ApplyFails(p, broken)

Apply(p) ==
  /\ pc[p] = "apply"
  /\ UNCHANGED <<functions, generation, env, init>>
  /\ apply(p)

\* The rest of apply(), f2, which the kernel may refuse on a gadget that init's
\* rule has bound meanwhile; then the first attempt to bind and the first test
\* of the wait.
Arm(p) ==
  /\ pc[p] = "link"
  /\ UNCHANGED <<pid, functions, generation, env, init>>
  /\ \/ /\ links' = Links(req[p])
        /\ comp' = req[p] /\ armed' = TRUE
        /\ TryBind(req[p], Links(req[p]))
        /\ \/ applied' /\ Return(p, "success")
           \/ ~applied' /\ GoOn(p, "wait")
        /\ UNCHANGED left
     \/ Len(Links(req[p])) = 2 /\ ApplyFails(p, ~bound)

\* Only charging: nothing is linked by the HAL.
ChargeOnly(p) ==
  /\ req[p] = {} /\ applied' = TRUE
  /\ Return(p, "success")
  /\ UNCHANGED <<gadget, comp, armed, lost, faults>>

\* Mutant of Resume: the superseded request goes on.
ResumeAnyway(p) ==
  /\ pc[p] = "sleep" /\ LockFree
  /\ UNCHANGED <<functions, generation, env, init>>
  /\ ChargeOnly(p) \/ (req[p] # {} /\ apply(p))

\* The lock is taken again after the wait; a superseded request gives up.
Resume(p) ==
  /\ pc[p] = "sleep" /\ LockFree
  /\ UNCHANGED <<functions, generation, env, init>>
  /\ \/ /\ gen[p] # generation
        /\ Return(p, "error") /\ UNCHANGED <<gadget, comp, armed, applied, lost, faults>>
     \/ /\ gen[p] = generation
        /\ ChargeOnly(p) \/ (req[p] # {} /\ apply(p))

\* Mutant of EndWait: another request's bind counts.
EndWaitAnyBind(p) ==
  /\ pc[p] = "wait" /\ LockFree
  /\ Return(p, IF applied THEN "success" ELSE "error")
  /\ UNCHANGED <<gadget, control, env, init, faults>>

\* wait_for returns: superseded, applied, or out of time.
EndWait(p) ==
  /\ pc[p] = "wait" /\ LockFree
  /\ Return(p, IF gen[p] = generation /\ applied THEN "success" ELSE "error")
  /\ UNCHANGED <<gadget, control, env, init, faults>>

-----------------------------------------------------------------------------
(* The monitor thread, and reset *)

\* monitorLoop: an inotify event or a poll timeout.
Monitor ==
  /\ LockFree /\ armed /\ TryBind(comp, links)
  /\ UNCHANGED <<links, pid, left, owner, functions, comp, armed, generation, calls, env>>

\* reset(): refused when nothing is applied.
reset(p) ==
  /\ pc[p] = "idle" /\ LockFree /\ armed /\ applied
  /\ bus' = Down /\ applied' = FALSE
  /\ pc' = [pc EXCEPT ![p] = "resetting"]
  /\ gen' = [gen EXCEPT ![p] = generation]
  /\ UNCHANGED <<links, pid, left, owner, functions, comp, armed, generation, lost, req, answer, env, faults>>

EndReset(p) ==
  /\ pc[p] = "resetting" /\ LockFree
  /\ pc' = [pc EXCEPT ![p] = "idle"]
  /\ gen' = [gen EXCEPT ![p] = 0]
  /\ IF gen[p] = generation /\ armed
     THEN TryBind(comp, links)
     ELSE UNCHANGED <<bus, applied, lost, faults>>
  /\ UNCHANGED <<links, pid, left, owner, functions, comp, armed, generation, req, answer, env>>

-----------------------------------------------------------------------------
(* FunctionFS daemons, the kernel, and init's early-adb rule *)

\* A daemon dies: its endpoints go, and the kernel unbinds a gadget that presents
\* it unless the FunctionFS is mounted no_disconnect (mtp, ptp).  With the HAL
\* out of charge init notes the restart of adbd.
DaemonDies(f) ==
  /\ ready[f] /\ Fault
  /\ ready' = [ready EXCEPT ![f] = FALSE]
  /\ IF bound /\ f = "adb" /\ "adb" \in Fns(bus)
     THEN bus' = Down /\ lost' = TRUE
     ELSE UNCHANGED <<bus, lost>>
  /\ ffsProp' = (ffsProp /\ (f # "adb" \/ hal))
  /\ UNCHANGED <<links, pid, left, owner, functions, comp, armed, applied, generation, calls>>

DaemonReady(f) ==
  /\ ~ready[f]
  /\ ready' = [ready EXCEPT ![f] = TRUE]
  /\ ffsProp' = (ffsProp \/ f = "adb")
  /\ due' = (due \/ (f = "adb" /\ ~ffsProp))
  /\ UNCHANGED <<gadget, hal, init, control, calls, faults>>

\* init takes the event from its queue, tests the properties, and runs the
\* commands of the rule one by one.
RuleFires ==
  /\ init = "idle" /\ due
  /\ due' = FALSE
  /\ init' = IF ffsProp /\ ~hal THEN "link" ELSE "idle"
  /\ UNCHANGED <<gadget, hal, control, calls, env, faults>>

RuleLinks ==
  /\ init = "link" /\ init' = "bind"
  /\ links' = IF links = <<>> THEN <<"adb">> ELSE links
  /\ UNCHANGED <<pid, bus, left, hal, due, control, calls, env, faults>>

\* The UDC write fails when it is bound, nothing is linked, or a daemon is away.
RuleBinds ==
  /\ init = "bind" /\ init' = "idle"
  /\ bus' = IF ~bound /\ links # <<>> /\ FfsReady(Fns(links))
            THEN links ELSE bus
  /\ UNCHANGED <<links, pid, left, hal, due, control, calls, env, faults>>

-----------------------------------------------------------------------------
Call(p) == (\E S \in Requests : Enter(p, S)) \/ reset(p)
GoesOn(p) == setFunctions(p) \/ Apply(p) \/ Arm(p) \/ Resume(p) \/ EndWait(p) \/ EndReset(p)

Next ==
  \/ \E p \in Client : Call(p) \/ GoesOn(p)
  \/ Monitor
  \/ \E f \in Ffs : DaemonDies(f) \/ DaemonReady(f)
  \/ RuleFires \/ RuleLinks \/ RuleBinds

\* The monitor polls for ever and every wait has a timeout; nobody promises
\* that a request comes or that a daemon comes back.
Fairness ==
  /\ WF_vars(Monitor)
  /\ \A p \in Client : WF_vars(GoesOn(p))
  /\ WF_vars(RuleFires) /\ WF_vars(RuleLinks) /\ WF_vars(RuleBinds)

Spec == Init /\ [][Next]_vars /\ Fairness

-----------------------------------------------------------------------------
(* Correctness *)

Results == {"none", "success", "error", "notSupported", "applyFailed"}
Compositions == Seq(Main \cup {"adb"})
Setting == {"called", "sleep", "apply", "link", "wait"}   \* within setCurrentUsbFunctions
Phases == Setting \cup {"idle", "resetting"}

\* Every variable has its type.
TypeOK ==
  /\ links \in Compositions /\ bus \in Compositions \cup {Down}
  /\ pid \in Requests \cup {{}, {"adb"}}
  /\ ready \in [Ffs -> BOOLEAN] /\ ffsProp \in BOOLEAN
  /\ hal \in BOOLEAN /\ due \in BOOLEAN /\ init \in {"idle", "link", "bind"}
  /\ functions \in Requests \cup {{}} /\ comp \in Requests \cup {{}}
  /\ armed \in BOOLEAN /\ applied \in BOOLEAN
  /\ lost \in BOOLEAN /\ left \in BOOLEAN
  /\ generation \in 0..MaxGen /\ faults \in 0..MaxFaults
  /\ pc \in [Client -> Phases]
  /\ req \in [Client -> Requests \cup {{}}]
  /\ gen \in [Client -> 0..generation]
  /\ answer \in Results

\* What the host may be shown of the links l: all of them, or f1 without f2.
Shown(l) == {l, <<Head(l)>>}

\* While a composition is armed, configfs carries exactly the functions that
\* were asked for last, under their own product id: no superseded request,
\* monitor step, reset or early-adb rule leaves its links behind.  What is
\* bound is what is linked, but for an adb that was linked after init's rule
\* had bound the gadget.  And with nothing armed, only init's adb is bound, or
\* the first link of the call that is about to arm, or what a failed unlink
\* left (Controller::setFunctions, reset, tryBindLocked; init.a6l.usb.rc).
Coherent ==
  /\ armed => /\ comp = functions /\ functions # {}
              /\ links = Links(functions) /\ pid = functions
  /\ bound => links # <<>> /\ bus \in Shown(links)
  /\ bound /\ ~armed => \/ bus = <<"adb">> \/ left
                        \/ \E p \in Client : pc[p] = "link" /\ bus = <<Head(Links(req[p]))>>

\* A call that returns kSuccess, by whichever path, leaves the gadget set to what
\* it asked for, whoever has had the lock since it began: its functions linked
\* under their product id and bound, unless adbd closed the gadget after the
\* controller last looked; and after NONE nothing of the HAL's, but perhaps the
\* adb of init's rule (setFunctions).
SuccessIsTrue ==
  [][\A p \in Client :
       pc[p] \in Setting /\ pc'[p] = "idle" /\ answer' = "success"
         => /\ functions' = req[p]
            /\ IF req[p] = {}
               THEN /\ ~armed' /\ links' \in {<<>>, <<"adb">>}
                    /\ bus' \in {Down, <<"adb">>}
               ELSE /\ armed' /\ links' = Links(req[p]) /\ pid' = req[p]
                    /\ bus' \in Shown(links') \/ lost']_vars

\* An armed composition whose daemons are all there gets bound, after a slow
\* start, a daemon restart, a reset or a failed bind (monitorLoop).
Rebinds ==
  armed /\ FfsReady(comp) ~> bound \/ ~armed \/ ~FfsReady(comp)
=============================================================================
