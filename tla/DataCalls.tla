------------------------------ MODULE DataCalls ------------------------------
(***************************************************************************)
(* radio/qmi DataCallManager and the data half of the radio HAL: mobile    *)
(* data calls of one slot.  Four kinds of threads work on a call: the data *)
(* executor (setup, deactivation, loss, reconfiguration), the QMI          *)
(* dispatcher of every leg, the worker of ModemCore, which passes losses   *)
(* and reconfigurations on and resets the calls after a modem crash, and   *)
(* ModemCore's own dispatcher and connect loop.  A call is known by its    *)
(* cid, which is used again at once, and its generation, which is not.     *)
(***************************************************************************)
EXTENDS Naturals, Sequences, FiniteSets

CONSTANTS
  Cid,       \* mux ids
  Fam,       \* IP families: 4, 6
  MaxGen,    \* bound: setups that get a mux id
  MaxAsked,  \* bound: setups Android asks for
  MaxModem,  \* bound: sessions the network ends or changes
  MaxCrash   \* bound: crashes of the modem

ASSUME ConstantsAssumption ==
  /\ Cid \subseteq Nat \ {0} /\ Fam \subseteq Nat
  /\ MaxGen \in Nat /\ MaxAsked \in Nat /\ MaxModem \in Nat /\ MaxCrash \in Nat

VARIABLES
  execQ, step, task, todo, fresh, \* mExec: queue, running task and its step, legs to do, settings read
  workQ, worker,                  \* the worker's queue, and its step
  calls, links, nextGen,          \* mCalls, rmnet links, mNextGeneration
  format,                         \* mFormatDone: 0, or the start of the modem the format was sent to
  leg,                            \* per generation and family: client, session and LegState
  base,                           \* Android's list: the generation shown for a cid, or 0
  ready, gone,                    \* mReady, and crashes ModemCore has not heard of yet
  epoch,                          \* starts of the modem
  asked, modem                    \* counts for MaxAsked and MaxModem

execVars == <<step, task, todo, fresh>>
coreVars == <<ready, gone, epoch>>
vars == <<execQ, execVars, workQ, worker, calls, links, nextGen, format, leg, base, coreVars, asked, modem>>

Gen == 1..MaxGen

Setup(F)     == [kind |-> "setup", fams |-> F, cid |-> 0, gen |-> 0]
Deact(c)     == [kind |-> "deact", fams |-> {}, cid |-> c, gen |-> 0]
Loss(c, g)   == [kind |-> "loss", fams |-> {}, cid |-> c, gen |-> g]
Reconf(c, g) == [kind |-> "reconf", fams |-> {}, cid |-> c, gen |-> g]
Reset        == [kind |-> "reset", fams |-> {}, cid |-> 0, gen |-> 0]
ModemLost    == [kind |-> "lost", fams |-> {}, cid |-> 0, gen |-> 0]

NoLeg == [open |-> FALSE, cid |-> 0, up |-> FALSE, val |-> 0, read |-> 0, ended |-> FALSE,
          reconfig |-> FALSE, published |-> FALSE, inds |-> <<>>, cb |-> "idle"]
Legs(g) == {f \in Fam : leg[g][f].open}
Least(S) == CHOOSE x \in S : \A y \in S : x <= y
Elements(q) == {q[i] : i \in DOMAIN q}

Init ==
  /\ execQ = <<>> /\ step = "idle" /\ task = ModemLost /\ todo = {} /\ fresh = [f \in Fam |-> 0]
  /\ workQ = <<>> /\ worker = "run"
  /\ calls = [c \in Cid |-> 0] /\ links = {} /\ nextGen = 0 /\ format = 0
  /\ leg = [g \in Gen |-> [f \in Fam |-> NoLeg]]
  /\ base = [c \in Cid |-> 0]
  /\ ready = TRUE /\ gone = 0 /\ epoch = 1 /\ asked = 0 /\ modem = 0

-----------------------------------------------------------------------------
(* Android, which knows a call by its cid alone *)

Ask(F) ==
  /\ asked < MaxAsked /\ asked' = asked + 1
  /\ execQ' = Append(execQ, Setup(F))
  /\ UNCHANGED <<execVars, workQ, worker, calls, links, nextGen, format, leg, base, coreVars, modem>>

Deactivate(c) ==
  /\ base[c] # 0 /\ Deact(c) \notin Elements(execQ)
  /\ execQ' = Append(execQ, Deact(c))
  /\ UNCHANGED <<execVars, workQ, worker, calls, links, nextGen, format, leg, base, coreVars, asked, modem>>

-----------------------------------------------------------------------------
(* The executor: setup *)

\* mLock is held over these steps; deactivations and modemReset are one step.
Locked == step \in {"start", "settings", "link", "check", "publish", "insert", "refresh", "decide"}

Done  == step' = "idle" /\ task' = ModemLost /\ todo' = {} /\ fresh' = [f \in Fam |-> 0]
Go(s) == step' = s /\ UNCHANGED <<task, todo, fresh>>

\* stopLeg: Client::stop waits for the callback that runs; those to come find
\* stopping set.
StopLegs(g, F) ==
  /\ \A f \in F : leg[g][f].cb = "idle"
  /\ leg' = [leg EXCEPT ![g] = [f \in Fam |-> IF f \in F THEN [NoLeg EXCEPT !.ended = leg[g][f].ended]
                                               ELSE leg[g][f]]]

\* Mutant: the rmnet link stays.
stopEntryKeepsLink(c, g) == StopLegs(g, Legs(g)) /\ UNCHANGED links

stopEntry(c, g) == StopLegs(g, Legs(g)) /\ links' = links \ {c}

\* The modem is not ready, or data roaming is not allowed, or the setup goes on.
TakeSetup(t) ==
  /\ t.kind = "setup"
  /\ \/ Done
     \/ ready /\ step' = "ask" /\ task' = t /\ UNCHANGED <<todo, fresh>>
  /\ UNCHANGED <<calls, links, nextGen, format, leg, base>>

\* The data format is sent once; then the call needs a mux id that is free.
SetupBegins ==
  /\ step = "ask" /\ nextGen < MaxGen
  /\ \/ Done /\ UNCHANGED <<nextGen, format>>
     \/ /\ format' = IF format = 0 THEN epoch ELSE format
        /\ LET free == {c \in Cid : calls[c] = 0} IN
           IF free = {} THEN Done /\ UNCHANGED nextGen
           ELSE /\ nextGen' = nextGen + 1
                /\ task' = [task EXCEPT !.cid = Least(free), !.gen = nextGen + 1]
                /\ todo' = task.fams /\ step' = "start" /\ UNCHANGED fresh
  /\ UNCHANGED <<calls, links, leg, base>>

\* startLeg: the observers are there before START; with what follows START it is
\* the next step.
StartLeg ==
  /\ step = "start"
  /\ IF todo = {}
     THEN (IF Legs(task.gen) = {} THEN Done ELSE Go("link")) /\ UNCHANGED leg
     ELSE \/ todo' = todo \ {Least(todo)} /\ UNCHANGED <<step, task, fresh, leg>>
          \/ /\ leg' = [leg EXCEPT ![task.gen][Least(todo)] =
                          [NoLeg EXCEPT !.open = TRUE, !.up = TRUE, !.cid = task.cid]]
             /\ Go("settings")
  /\ UNCHANGED <<calls, links, nextGen, format, base>>

Settings ==
  /\ step = "settings" /\ step' = "start"
  /\ LET f == Least(todo) IN
     /\ \/ /\ leg[task.gen][f].up
           /\ leg' = [leg EXCEPT ![task.gen][f].read = leg[task.gen][f].val]
        \/ StopLegs(task.gen, {f})
     /\ todo' = todo \ {f}
  /\ UNCHANGED <<task, fresh, calls, links, nextGen, format, base>>

\* Mutant: the link is named after the generation.
LinkByGeneration ==
  /\ step = "link"
  /\ \/ stopEntry(task.cid, task.gen) /\ Done
     \/ UNCHANGED leg /\ links' = links \cup {task.gen} /\ Go("check")
  /\ UNCHANGED <<calls, nextGen, format, base>>

\* configureLink: a family whose address is refused is dropped.
Link ==
  /\ step = "link"
  /\ \/ stopEntry(task.cid, task.gen) /\ Done
     \/ /\ \E F \in SUBSET Legs(task.gen) : F # Legs(task.gen) /\ StopLegs(task.gen, F)
        /\ links' = links \cup {task.cid} /\ Go("check")
  /\ UNCHANGED <<calls, nextGen, format, base>>

Check ==
  /\ step = "check"
  /\ IF \E f \in Legs(task.gen) : leg[task.gen][f].ended
     THEN stopEntry(task.cid, task.gen) /\ Done
     ELSE Go("publish") /\ UNCHANGED <<leg, links>>
  /\ UNCHANGED <<calls, nextGen, format, base>>

Publish ==
  /\ step = "publish" /\ Go("insert")
  /\ leg' = [leg EXCEPT ![task.gen] =
               [f \in Fam |-> IF f \in Legs(task.gen) THEN [leg[task.gen][f] EXCEPT !.published = TRUE]
                              ELSE leg[task.gen][f]]]
  /\ UNCHANGED <<calls, links, nextGen, format, base>>

\* Mutant: a change flagged before the call was published is forgotten.
InsertDropsFlag ==
  /\ step = "insert" /\ Go("show")
  /\ calls' = [calls EXCEPT ![task.cid] = task.gen]
  /\ UNCHANGED <<workQ, links, nextGen, format, leg, base>>

Insert ==
  /\ step = "insert" /\ Go("show")
  /\ calls' = [calls EXCEPT ![task.cid] = task.gen]
  /\ workQ' = IF \E f \in Legs(task.gen) : leg[task.gen][f].reconfig
              THEN Append(workQ, Reconf(task.cid, task.gen)) ELSE workQ
  /\ UNCHANGED <<links, nextGen, format, leg, base>>

\* setupDataCallBase
Show ==
  /\ step = "show" /\ Done
  /\ base' = [base EXCEPT ![task.cid] = task.gen]
  /\ UNCHANGED <<calls, links, nextGen, format, leg>>

-----------------------------------------------------------------------------
(* The executor: deactivation, loss, reconfiguration *)

\* The call at c goes, and Android's entry for it next.
TearDown(c) ==
  /\ stopEntry(c, calls[c])
  /\ calls' = [calls EXCEPT ![c] = 0]

TakeDeact(t) ==
  /\ t.kind = "deact"
  /\ IF calls[t.cid] = 0 THEN UNCHANGED <<calls, links, leg>> ELSE TearDown(t.cid)
  /\ step' = "hide" /\ task' = t
  /\ UNCHANGED <<todo, fresh, nextGen, format, base>>

\* Mutants: the generation is not compared; Android is not told.
deactivateByCid(t) ==
  IF calls[t.cid] # 0
  THEN TearDown(t.cid) /\ step' = "hide" /\ task' = t /\ UNCHANGED <<todo, fresh>>
  ELSE Done /\ UNCHANGED <<calls, links, leg>>

deactivateQuietly(t) ==
  IF calls[t.cid] = t.gen THEN TearDown(t.cid) /\ Done
  ELSE Done /\ UNCHANGED <<calls, links, leg>>

deactivateIfCurrent(t) ==
  IF calls[t.cid] = t.gen
  THEN TearDown(t.cid) /\ step' = "hide" /\ task' = t /\ UNCHANGED <<todo, fresh>>
  ELSE Done /\ UNCHANGED <<calls, links, leg>>

TakeLoss(t) ==
  /\ t.kind = "loss"
  /\ deactivateIfCurrent(t)
  /\ UNCHANGED <<nextGen, format, base>>

\* deactivateDataCallBase
Hide ==
  /\ step = "hide" /\ Done
  /\ base' = [base EXCEPT ![task.cid] = 0]
  /\ UNCHANGED <<calls, links, nextGen, format, leg>>

TakeReconf(t) ==
  /\ t.kind = "reconf"
  /\ IF calls[t.cid] = t.gen
     THEN step' = "refresh" /\ task' = t /\ todo' = Legs(t.gen) /\ UNCHANGED fresh
     ELSE Done
  /\ UNCHANGED <<calls, links, nextGen, format, leg, base>>

\* refresh reads the settings of every leg; a read may fail.
Refresh ==
  /\ step = "refresh"
  /\ LET f == Least(todo) IN
     /\ leg' = [leg EXCEPT ![task.gen][f].reconfig = FALSE]
     /\ todo' = todo \ {f}
     /\ \/ /\ leg[task.gen][f].up
           /\ fresh' = [fresh EXCEPT ![f] = leg[task.gen][f].val]
           /\ step' = IF todo' = {} THEN "decide" ELSE "refresh"
        \/ step' = "invalidate" /\ UNCHANGED fresh
  /\ UNCHANGED <<task, calls, links, nextGen, format, base>>

\* Changed addresses invalidate the call; anything else is shown to Android.
Decide ==
  /\ step = "decide"
  /\ LET g == task.gen IN
     IF \A f \in Legs(g) : fresh[f] = leg[g][f].read THEN Done /\ UNCHANGED leg
     ELSE \/ Go("invalidate") /\ UNCHANGED leg
          \/ /\ Go("show")
             /\ leg' = [leg EXCEPT ![g] = [f \in Fam |-> IF f \in Legs(g) THEN [leg[g][f] EXCEPT !.read = fresh[f]]
                                                         ELSE leg[g][f]]]
  /\ UNCHANGED <<calls, links, nextGen, format, base>>

Invalidate ==
  /\ step = "invalidate"
  /\ deactivateIfCurrent(task)
  /\ UNCHANGED <<nextGen, format, base>>

\* onModemLost of the data radio.
TakeLost(t) ==
  /\ t.kind = "lost"
  /\ base' = [c \in Cid |-> 0]
  /\ Done
  /\ UNCHANGED <<calls, links, nextGen, format, leg>>

Take ==
  /\ step = "idle" /\ execQ # <<>> /\ execQ' = Tail(execQ)
  /\ LET t == Head(execQ)
     IN  TakeSetup(t) \/ TakeDeact(t) \/ TakeLoss(t) \/ TakeReconf(t) \/ TakeLost(t)

Work == SetupBegins \/ StartLeg \/ Settings \/ Link \/ Check \/ Publish \/ Show
        \/ Hide \/ Refresh \/ Decide \/ Invalidate

Executor ==
  /\ \/ Take /\ UNCHANGED workQ
     \/ Work /\ UNCHANGED <<execQ, workQ>>
     \/ Insert /\ UNCHANGED execQ
  /\ UNCHANGED <<worker, coreVars, asked, modem>>

-----------------------------------------------------------------------------
(* The worker of ModemCore *)

Forward ==
  /\ worker = "run" /\ workQ # <<>> /\ Head(workQ) # Reset
  /\ workQ' = Tail(workQ) /\ execQ' = Append(execQ, Head(workQ))
  /\ UNCHANGED <<execVars, worker, calls, links, nextGen, format, leg, base, coreVars, asked, modem>>

\* Mutant: the HAL is not told.
modemResetQuietly ==
  /\ worker = "run" /\ workQ # <<>> /\ Head(workQ) = Reset /\ ~Locked
  /\ LET old == {calls[c] : c \in Cid} IN
     leg' = [g \in Gen |-> IF g \in old THEN [f \in Fam |-> NoLeg] ELSE leg[g]]
  /\ links' = {c \in links : calls[c] = 0}
  /\ calls' = [c \in Cid |-> 0] /\ format' = 0
  /\ workQ' = Tail(workQ)
  /\ UNCHANGED <<execQ, execVars, worker, nextGen, base, coreVars, asked, modem>>

\* modemReset, which joins the dispatchers of the legs.
modemReset ==
  /\ worker = "run" /\ workQ # <<>> /\ Head(workQ) = Reset /\ ~Locked
  /\ LET old == {calls[c] : c \in Cid} IN
     /\ \A g \in old \ {0} : \A f \in Legs(g) : leg[g][f].cb = "idle"
     /\ leg' = [g \in Gen |-> IF g \in old THEN [f \in Fam |-> NoLeg] ELSE leg[g]]
  /\ links' = {c \in links : calls[c] = 0}
  /\ calls' = [c \in Cid |-> 0] /\ format' = 0
  /\ workQ' = Tail(workQ) /\ worker' = "tell"
  /\ UNCHANGED <<execQ, execVars, nextGen, base, coreVars, asked, modem>>

onModemLost ==
  /\ worker = "tell" /\ worker' = "run"
  /\ execQ' = Append(execQ, ModemLost)
  /\ UNCHANGED <<execVars, workQ, calls, links, nextGen, format, leg, base, coreVars, asked, modem>>

Worker == Forward \/ modemReset \/ onModemLost

-----------------------------------------------------------------------------
(* The dispatcher of a leg: its callback *)

Observe(g, f) ==
  LET l == leg[g][f] IN
  /\ l.open /\ l.inds # <<>> /\ l.cb = "idle"
  /\ leg' = [leg EXCEPT ![g][f] =
       IF Head(l.inds) = "reconf" THEN [l EXCEPT !.inds = Tail(l.inds), !.reconfig = TRUE, !.cb = "reconf"]
       ELSE [l EXCEPT !.inds = Tail(l.inds), !.ended = TRUE, !.cb = IF l.ended THEN "idle" ELSE "down"]]
  /\ UNCHANGED workQ

\* Mutant: a loss is held back until the call is published, as a change is.
ReportPublished(g, f) ==
  LET l == leg[g][f] IN
  /\ l.cb # "idle"
  /\ leg' = [leg EXCEPT ![g][f].cb = "idle"]
  /\ workQ' = IF ~l.published THEN workQ
              ELSE Append(workQ, IF l.cb = "down" THEN Loss(l.cid, g) ELSE Reconf(l.cid, g))

\* mLost or mReconfig, which post to the worker.
Report(g, f) ==
  LET l == leg[g][f] IN
  /\ l.cb # "idle"
  /\ leg' = [leg EXCEPT ![g][f].cb = "idle"]
  /\ workQ' = IF l.cb = "down" THEN Append(workQ, Loss(l.cid, g))
              ELSE IF l.published THEN Append(workQ, Reconf(l.cid, g)) ELSE workQ

Dispatch(g, f) ==
  /\ Observe(g, f) \/ Report(g, f)
  /\ UNCHANGED <<execQ, execVars, worker, calls, links, nextGen, format, base, coreVars, asked, modem>>

-----------------------------------------------------------------------------
(* The modem, and what ModemCore makes of its crashes *)

Ended(l) == [l EXCEPT !.up = FALSE, !.inds = Append(l.inds, "down")]

\* The network ends a session, or changes its settings.
Network(g, f) ==
  /\ leg[g][f].up /\ modem < MaxModem /\ modem' = modem + 1
  /\ \/ leg' = [leg EXCEPT ![g][f] = Ended(leg[g][f])]
     \/ leg' = [leg EXCEPT ![g][f].val = leg[g][f].val + 1, ![g][f].inds = Append(leg[g][f].inds, "reconf")]
  /\ UNCHANGED <<execQ, execVars, workQ, worker, calls, links, nextGen, format, base, coreVars, asked>>

\* Every client hears that its service is gone, in its own time.
Crash ==
  /\ epoch <= MaxCrash /\ epoch' = epoch + 1 /\ gone' = gone + 1
  /\ leg' = [g \in Gen |-> [f \in Fam |-> IF leg[g][f].up THEN Ended(leg[g][f]) ELSE leg[g][f]]]
  /\ UNCHANGED <<execQ, execVars, workQ, worker, calls, links, nextGen, format, base, ready, asked, modem>>

\* onServiceChange: only a modem that was ready has calls to reset.
Notice ==
  /\ gone > 0 /\ gone' = gone - 1
  /\ ready' = FALSE
  /\ workQ' = IF ready THEN Append(workQ, Reset) ELSE workQ
  /\ UNCHANGED <<execQ, execVars, worker, calls, links, nextGen, format, leg, base, epoch, asked, modem>>

\* connectLoop: initModem went through, and no crash was noticed meanwhile.
Ready ==
  /\ ~ready /\ ready' = TRUE
  /\ UNCHANGED <<execQ, execVars, workQ, worker, calls, links, nextGen, format, leg, base, gone, epoch, asked, modem>>

-----------------------------------------------------------------------------
Next ==
  \/ \E F \in SUBSET Fam \ {{}} : Ask(F)
  \/ \E c \in Cid : Deactivate(c)
  \/ Executor \/ Worker \/ Crash \/ Notice \/ Ready
  \/ \E g \in Gen, f \in Fam : Dispatch(g, f) \/ Network(g, f)

\* Every thread runs on: all waits in it are bounded.
Fairness ==
  /\ WF_vars(Executor) /\ WF_vars(Worker) /\ WF_vars(Notice)
  /\ \A g \in Gen, f \in Fam : WF_vars(Dispatch(g, f))

Spec == Init /\ [][Next]_vars /\ Fairness

-----------------------------------------------------------------------------
(* Correctness *)

Steps == {"idle", "ask", "start", "settings", "link", "check", "publish", "insert", "show",
          "refresh", "decide", "invalidate", "hide"}
Tasks == [kind : {"setup", "deact", "loss", "reconf", "reset", "lost"}, fams : SUBSET Fam,
          cid : Cid \cup {0}, gen : Gen \cup {0}]
LegRec == [open : BOOLEAN, cid : Cid \cup {0}, up : BOOLEAN, val : 0..MaxModem, read : 0..MaxModem,
           ended : BOOLEAN, reconfig : BOOLEAN, published : BOOLEAN, inds : Seq({"down", "reconf"}),
           cb : {"idle", "down", "reconf"}]

\* Every variable has its type.
TypeOK ==
  /\ execQ \in Seq(Tasks) /\ step \in Steps /\ task \in Tasks /\ todo \in SUBSET Fam
  /\ fresh \in [Fam -> 0..MaxModem]
  /\ workQ \in Seq(Tasks) /\ worker \in {"run", "tell"}
  /\ calls \in [Cid -> Gen \cup {0}] /\ links \in SUBSET Cid /\ nextGen \in 0..MaxGen
  /\ format \in 0..epoch
  /\ leg \in [Gen -> [Fam -> LegRec]]
  /\ base \in [Cid -> Gen \cup {0}]
  /\ ready \in BOOLEAN /\ gone \in Nat /\ epoch \in 1..(MaxCrash + 1)
  /\ asked \in 0..MaxAsked /\ modem \in 0..MaxModem

Coming(t) == t \in Elements(execQ) \cup Elements(workQ)
Doing(S, c, g) == step \in S /\ task.cid = c /\ task.gen = g

\* A session that has ended does not stay in the list of calls for good: the
\* call is not published if the latch was set before, and a notice of this
\* generation is on its way if after (startLeg, setup, onDataCallLost).
EndedIsNoticed ==
  \A c \in Cid : calls[c] # 0 =>
    \A f \in Legs(calls[c]) :
      LET g == calls[c]  l == leg[g][f] IN
      ~l.up => "down" \in Elements(l.inds) \/ l.cb = "down" \/ Coming(Loss(c, g))

\* Settings the modem has changed are read again: those flagged before the
\* call was published, too (LegState, setup, refresh).
SettingsFresh ==
  \A c \in Cid : calls[c] # 0 =>
    \A f \in Legs(calls[c]) :
      LET g == calls[c]  l == leg[g][f] IN
      l.up /\ l.read # l.val =>
        \/ "reconf" \in Elements(l.inds) \/ l.cb = "reconf" \/ Coming(Reconf(c, g))
        \/ Doing({"refresh"}, c, g) /\ f \in todo
        \/ Doing({"refresh", "decide"}, c, g) /\ fresh[f] = l.val
        \/ Doing({"invalidate"}, c, g)

\* Android is shown no call that is not there, or it is told so next: nothing
\* that removes a call forgets Android's entry (deactivate, modemReset).
ShownIsTracked ==
  \A c \in Cid : base[c] # 0 /\ calls[c] # base[c] =>
    worker = "tell" \/ Coming(ModemLost) \/ (step = "hide" /\ task.cid = c)

\* A setup that fails, wherever it fails, leaves no link and no leg, and no
\* call is without its link (setup, stopEntry, modemReset).
NothingLeft ==
  ~Locked => /\ links = {c \in Cid : calls[c] # 0}
             /\ \A g \in Gen : Legs(g) # {} <=> \E c \in Cid : calls[c] = g

\* A call goes when Android says so, when a session of its own has ended, when its
\* settings cannot be used, or with the modem: never for the loss of an earlier
\* call that had its cid (deactivateIfCurrent).
NoStaleTearDown ==
  [][\A c \in Cid : calls[c] # 0 /\ calls'[c] = 0 =>
       \/ worker' = "tell" \/ task' = Deact(c) \/ step = "invalidate"
       \/ \E f \in Fam : leg[calls[c]][f].ended]_vars

\* Android is not shown for good a call that is gone, or one with a session that
\* has ended (onDataCallLost, deactivateDataCallBase).
EndedIsHidden ==
  \A c \in Cid :
    []<>(base[c] # 0 => Legs(base[c]) # {} /\ \A f \in Legs(base[c]) : leg[base[c]][f].up)

\* DataCall: "The cid (= mux id) is reused right after a teardown; delayed work ...
\* never touches a newer connection with the same cid": Android keeps its entry of
\* every call in mCalls.
EntryIsKept ==
  \A c \in Cid : calls[c] # 0 => base[c] = calls[c] \/ Doing({"show"}, c, calls[c])
=============================================================================
