--------------------------- MODULE DataCallsProofs ---------------------------
(***************************************************************************)
(* Proofs about DataCalls, for any mux ids, families, numbers of setups,   *)
(* sessions and crashes: nothing is left behind by a setup or a teardown,  *)
(* no stale notice takes a newer call down, and no ending or change of a   *)
(* session is missed, however the four threads and the modem interleave.   *)
(***************************************************************************)
EXTENDS DataCalls, SequenceTheorems, WellFoundedInduction, TLAPS

SetupSteps == {"start", "settings", "link", "check", "publish", "insert"}
InSetup == step \in SetupSteps

\* What the two queues hold.
Notices == {Loss(c, g) : c \in Cid, g \in Gen} \cup {Reconf(c, g) : c \in Cid, g \in Gen}
ExecTasks == {Setup(F) : F \in SUBSET Fam} \cup {Deact(c) : c \in Cid} \cup {ModemLost} \cup Notices
WorkTasks == Notices \cup {Reset}

QueueInv == Elements(execQ) \subseteq ExecTasks /\ Elements(workQ) \subseteq WorkTasks

\* What the running task is about, at each of its steps.
TaskInv ==
  /\ InSetup => /\ task.cid \in Cid /\ task.gen = nextGen /\ nextGen > 0 /\ calls[task.cid] = 0
                /\ \A c \in Cid : calls[c] # task.gen
  /\ step \in {"hide", "show"} => task.cid \in Cid
  /\ step = "show" => task.gen \in Gen
  /\ step \in {"refresh", "decide", "invalidate"} => task.cid \in Cid /\ task.gen \in Gen
  /\ step \in {"refresh", "decide"} => calls[task.cid] = task.gen
  /\ step = "refresh" => todo \subseteq Legs(task.gen)
  /\ step \in {"settings", "refresh"} => todo # {}
  /\ step = "decide" => todo = {}

\* A generation is one call's.
CallsInv ==
  /\ \A c \in Cid : calls[c] <= nextGen
  /\ \A c, d \in Cid : calls[c] = calls[d] /\ calls[c] # 0 => c = d

\* NothingLeft at every step: the setup in progress may have a link and legs.
LinksInv == links = {c \in Cid : calls[c] # 0 \/ (step \in {"check", "publish", "insert"} /\ c = task.cid)}

LegsInv ==
  /\ \A g \in Gen : ~(InSetup /\ g = task.gen) => (Legs(g) # {} <=> \E c \in Cid : calls[c] = g)
  /\ step \in {"link", "check", "publish", "insert"} => Legs(task.gen) # {}

\* The legs the setup has not opened yet, and the call a leg belongs to.
Unborn == IF step = "start" THEN todo ELSE IF step = "settings" THEN todo \ {Least(todo)} ELSE {}
Owner(c, g) == calls[c] = g \/ (InSetup /\ task.cid = c /\ task.gen = g)

Closed(e) == [NoLeg EXCEPT !.ended = e]

LegInv ==
  \A g \in Gen, f \in Fam :
    LET l == leg[g][f] IN
    /\ ~l.open => ~l.up /\ l.inds = <<>> /\ l.cb = "idle"
    /\ l.cb = "down" => l.ended
    /\ l.val <= modem
    /\ l.open => l.cid \in Cid
    /\ g > nextGen => ~l.open /\ ~l.ended
    /\ InSetup /\ g = task.gen /\ f \in Unborn => ~l.open /\ ~l.ended
    /\ \A c \in Cid : l.open /\ Owner(c, g) => l.cid = c

IInv == TypeOK /\ QueueInv /\ TaskInv /\ CallsInv /\ LinksInv /\ LegsInv /\ LegInv

-----------------------------------------------------------------------------
(* The model's operators *)

\* An empty queue holds nothing.
LEMMA EmptyElements == Elements(<<>>) = {}
BY DEF Elements

\* Append adds one element.
LEMMA ElementsAppend ==
  ASSUME NEW S, NEW q \in Seq(S), NEW t \in S
  PROVE  Append(q, t) \in Seq(S) /\ Elements(Append(q, t)) = Elements(q) \cup {t}
<1> DEFINE p == Append(q, t)
<1>1. /\ p \in Seq(S) /\ Len(p) = Len(q) + 1
      /\ \A i \in 1..Len(q) : p[i] = q[i]
      /\ p[Len(q) + 1] = t
  BY AppendProperties
<1>2. /\ Len(q) \in Nat /\ DOMAIN q = 1..Len(q) /\ DOMAIN p = 1..Len(p)
  BY <1>1, LenProperties
<1>3. DOMAIN p = 1..Len(q) \cup {Len(q) + 1}
  BY <1>1, <1>2
<1> HIDE DEF p
<1>4. Elements(p) = {p[i] : i \in 1..Len(q)} \cup {p[Len(q) + 1]}
  BY <1>3 DEF Elements
<1>5. Elements(p) = {q[i] : i \in 1..Len(q)} \cup {t}
  BY <1>1, <1>4
<1> QED  BY <1>1, <1>2, <1>5 DEF Elements, p

\* Taking the head removes one occurrence of it at most.
LEMMA ElementsTail ==
  ASSUME NEW S, NEW q \in Seq(S), q # <<>>
  PROVE  /\ Head(q) \in S /\ Tail(q) \in Seq(S)
         /\ Elements(q) = {Head(q)} \cup Elements(Tail(q))
<1> DEFINE r == Tail(q)
<1>1. /\ Head(q) \in S /\ r \in Seq(S) /\ Len(r) = Len(q) - 1
      /\ \A i \in 1..Len(r) : r[i] = q[i + 1]
  BY HeadTailProperties
<1>2. /\ Len(q) \in Nat \ {0} /\ DOMAIN q = 1..Len(q) /\ DOMAIN r = 1..Len(r)
      /\ Head(q) = q[1]
  BY <1>1, LenProperties, EmptySeq
<1> HIDE DEF r
<1>3. ASSUME NEW x \in Elements(q)  PROVE x \in {Head(q)} \cup Elements(r)
  <2>1. PICK i \in 1..Len(q) : x = q[i]
    BY <1>2 DEF Elements
  <2>2. CASE i = 1
    BY <1>2, <2>1, <2>2
  <2>3. CASE i # 1
    <3>1. i - 1 \in 1..Len(r) /\ (i - 1) + 1 = i
      BY <1>1, <1>2, <2>3
    <3>2. x = r[i - 1]
      BY <1>1, <2>1, <3>1
    <3> QED  BY <1>2, <3>1, <3>2 DEF Elements
  <2> QED  BY <2>2, <2>3
<1>4. ASSUME NEW x \in Elements(r)  PROVE x \in Elements(q)
  <2>1. PICK i \in 1..Len(r) : x = r[i]
    BY <1>2, <1>4 DEF Elements
  <2>2. i + 1 \in 1..Len(q) /\ x = q[i + 1]
    BY <1>1, <1>2, <2>1
  <2> QED  BY <1>2, <2>2 DEF Elements
<1>5. Head(q) \in Elements(q)
  BY <1>2 DEF Elements
<1> QED  BY <1>1, <1>3, <1>4, <1>5 DEF r

\* Least chooses a member.
LEMMA LeastIsMember ==
  ASSUME NEW S \in SUBSET Nat, S # {}
  PROVE  Least(S) \in S
<1> DEFINE R == {ss \in Nat \X Nat : ss[1] < ss[2]}
<1>1. R = OpToRel(<, Nat)
  BY SMT DEF OpToRel
<1>2. IsWellFoundedOn(R, Nat)
  BY NatLessThanWellFounded, <1>1, Zenon
<1>3. \A x, y \in Nat : y < x => <<y, x>> \in R
  OBVIOUS
<1> HIDE DEF R
<1>4. PICK x \in S : \A y \in S : ~(<<y, x>> \in R)
  BY <1>2, WFMin, Zenon
<1>5. \A y \in S : x <= y
  <2> TAKE y \in S
  <2>1. x \in Nat /\ y \in Nat /\ ~(y < x)
    BY <1>3, <1>4
  <2> QED  BY <2>1
<1> QED  BY <1>5 DEF Least

-----------------------------------------------------------------------------
(* Tasks and legs *)

\* A task of a queue is what its kind says.
LEMMA TaskShapes ==
  /\ ExecTasks \subseteq Tasks /\ WorkTasks \subseteq Tasks
  /\ Notices \subseteq ExecTasks \cap WorkTasks
  /\ \A t \in ExecTasks :
       /\ t.kind = "deact" => t.cid \in Cid /\ t = Deact(t.cid)
       /\ t.kind = "loss" => t.cid \in Cid /\ t.gen \in Gen /\ t = Loss(t.cid, t.gen)
       /\ t.kind = "reconf" => t.cid \in Cid /\ t.gen \in Gen /\ t = Reconf(t.cid, t.gen)
       /\ t.kind = "lost" => t = ModemLost
  /\ \A t \in WorkTasks : t # Reset => t \in Notices
  /\ \A c \in Cid, g \in Gen : Loss(c, g) \in Notices /\ Reconf(c, g) \in Notices
<1>1. /\ \A F \in SUBSET Fam : Setup(F) \in Tasks /\ Setup(F).kind = "setup"
      /\ \A c \in Cid : Deact(c) \in Tasks /\ Deact(c).kind = "deact" /\ Deact(c).cid = c
      /\ \A c \in Cid, g \in Gen : /\ Loss(c, g) \in Tasks /\ Loss(c, g).kind = "loss"
                                   /\ Loss(c, g).cid = c /\ Loss(c, g).gen = g
                                   /\ Reconf(c, g) \in Tasks /\ Reconf(c, g).kind = "reconf"
                                   /\ Reconf(c, g).cid = c /\ Reconf(c, g).gen = g
      /\ ModemLost \in Tasks /\ ModemLost.kind = "lost" /\ Reset \in Tasks /\ Reset.kind = "reset"
  BY DEF Setup, Deact, Loss, Reconf, ModemLost, Reset, Tasks
<1>2. ASSUME NEW t \in ExecTasks
      PROVE  \/ \E F \in SUBSET Fam : t = Setup(F)
             \/ \E c \in Cid : t = Deact(c)
             \/ t = ModemLost
             \/ \E c \in Cid, g \in Gen : t = Loss(c, g) \/ t = Reconf(c, g)
  BY DEF ExecTasks, Notices
<1>3. ASSUME NEW t \in WorkTasks
      PROVE  \/ t = Reset
             \/ \E c \in Cid, g \in Gen : t = Loss(c, g) \/ t = Reconf(c, g)
  BY DEF WorkTasks, Notices
<1>4. ExecTasks \subseteq Tasks /\ WorkTasks \subseteq Tasks
  BY <1>1, <1>2, <1>3
<1>5. ASSUME NEW t \in ExecTasks
      PROVE  /\ t.kind = "deact" => t.cid \in Cid /\ t = Deact(t.cid)
             /\ t.kind = "loss" => t.cid \in Cid /\ t.gen \in Gen /\ t = Loss(t.cid, t.gen)
             /\ t.kind = "reconf" => t.cid \in Cid /\ t.gen \in Gen /\ t = Reconf(t.cid, t.gen)
             /\ t.kind = "lost" => t = ModemLost
  BY <1>1, <1>2
<1> HIDE <1>1
<1> QED  BY <1>4, <1>5 DEF ExecTasks, WorkTasks, Notices

\* A closed leg is a leg, idle and quiet.
LEMMA ClosedLeg ==
  /\ NoLeg \in LegRec /\ ~NoLeg.open /\ ~NoLeg.up /\ ~NoLeg.ended /\ NoLeg.val = 0 /\ NoLeg.read = 0
  /\ ~NoLeg.reconfig /\ NoLeg.inds = <<>> /\ NoLeg.cb = "idle"
  /\ \A e \in BOOLEAN :
       /\ Closed(e) \in LegRec /\ ~Closed(e).open /\ ~Closed(e).up /\ Closed(e).ended = e
       /\ Closed(e).val = 0 /\ Closed(e).inds = <<>> /\ Closed(e).cb = "idle"
<1>1. <<>> \in Seq({"down", "reconf"}) /\ 0 \in 0..MaxModem
  BY ConstantsAssumption
<1>2. NoLeg \in LegRec
  BY <1>1 DEF NoLeg, LegRec
<1>3. ASSUME NEW e \in BOOLEAN
      PROVE  /\ Closed(e) \in LegRec /\ ~Closed(e).open /\ ~Closed(e).up /\ Closed(e).ended = e
             /\ Closed(e).val = 0 /\ Closed(e).inds = <<>> /\ Closed(e).cb = "idle"
  <2>1. Closed(e) \in LegRec
    BY <1>2 DEF Closed, LegRec
  <2>2. /\ ~Closed(e).open /\ ~Closed(e).up /\ Closed(e).ended = e
        /\ Closed(e).val = 0 /\ Closed(e).inds = <<>> /\ Closed(e).cb = "idle"
    BY DEF Closed, NoLeg
  <2> QED  BY <2>1, <2>2
<1>4. /\ ~NoLeg.open /\ ~NoLeg.up /\ ~NoLeg.ended /\ NoLeg.val = 0 /\ NoLeg.read = 0
      /\ ~NoLeg.reconfig /\ NoLeg.inds = <<>> /\ NoLeg.cb = "idle"
  BY DEF NoLeg
<1> QED  BY <1>2, <1>3, <1>4, Zenon

\* A leg and its fields.
LEMMA LegTyped ==
  ASSUME TypeOK, NEW g \in Gen, NEW f \in Fam
  PROVE  LET l == leg[g][f] IN
         /\ l \in LegRec /\ l.ended \in BOOLEAN /\ l.open \in BOOLEAN /\ l.up \in BOOLEAN
         /\ l.inds \in Seq({"down", "reconf"}) /\ l.cb \in {"idle", "down", "reconf"}
         /\ l.val \in 0..MaxModem /\ l.val \in Nat /\ l.cid \in Cid \cup {0}
         /\ l.reconfig \in BOOLEAN /\ l.published \in BOOLEAN /\ l.read \in 0..MaxModem
<1>1. leg[g][f] \in LegRec
  BY DEF TypeOK
<1> QED  BY <1>1, ConstantsAssumption DEF LegRec

\* stopLeg leaves the other legs alone.
LEMMA StopLegsFacts ==
  ASSUME TypeOK, NEW g \in Gen, NEW F \in SUBSET Fam, StopLegs(g, F)
  PROVE  /\ leg' \in [Gen -> [Fam -> LegRec]]
         /\ \A h \in Gen, f \in Fam :
              leg'[h][f] = IF h = g /\ f \in F THEN Closed(leg[h][f].ended) ELSE leg[h][f]
<1> DEFINE new == [f \in Fam |-> IF f \in F THEN [NoLeg EXCEPT !.ended = leg[g][f].ended] ELSE leg[g][f]]
<1>1. leg \in [Gen -> [Fam -> LegRec]] /\ leg' = [leg EXCEPT ![g] = new]
  BY DEF TypeOK, StopLegs
<1>2. \A f \in Fam : new[f] = IF f \in F THEN Closed(leg[g][f].ended) ELSE leg[g][f]
  BY DEF Closed
<1>3. \A f \in Fam : Closed(leg[g][f].ended) \in LegRec
  BY ClosedLeg, LegTyped
<1>4. new \in [Fam -> LegRec]
  BY <1>1, <1>3 DEF Closed
<1> HIDE DEF new
<1>5. leg' \in [Gen -> [Fam -> LegRec]] /\ \A h \in Gen : leg'[h] = IF h = g THEN new ELSE leg[h]
  BY <1>1, <1>4
<1> QED  BY <1>2, <1>5

-----------------------------------------------------------------------------
(* The initial state *)

\* The managers start with no call, link or leg.
LEMMA InitHolds == Init => IInv
<1> SUFFICES ASSUME Init PROVE IInv
  OBVIOUS
<1>1. /\ NoLeg \in LegRec /\ ~NoLeg.open /\ ~NoLeg.up /\ NoLeg.val = 0 /\ ~NoLeg.ended
      /\ NoLeg.inds = <<>> /\ NoLeg.cb = "idle"
  BY ClosedLeg
<1>2. leg \in [Gen -> [Fam -> LegRec]] /\ \A g \in Gen, f \in Fam : leg[g][f] = NoLeg
  BY <1>1 DEF Init
<1>3. ModemLost \in Tasks /\ execQ \in Seq(Tasks) /\ workQ \in Seq(Tasks)
  BY TaskShapes DEF Init, ExecTasks
<1>4. TypeOK
  BY <1>2, <1>3, ConstantsAssumption DEF Init, TypeOK, Steps
<1>5. QueueInv
  BY EmptyElements DEF Init, QueueInv
<1>6. ~InSetup /\ step = "idle" /\ nextGen = 0 /\ \A c \in Cid : calls[c] = 0
  BY DEF Init, InSetup, SetupSteps
<1>7. TaskInv /\ CallsInv /\ LinksInv
  BY <1>6 DEF TaskInv, CallsInv, LinksInv, Init
<1>8. LegsInv
  <2>1. \A g \in Gen : Legs(g) = {} /\ g # 0
    BY <1>1, <1>2 DEF Legs, Gen
  <2> QED  BY <1>6, <2>1 DEF LegsInv
<1>9. LegInv
  <2>1. modem = 0
    BY DEF Init
  <2> QED  BY <1>1, <1>2, <1>6, <2>1 DEF LegInv
<1> QED  BY <1>4, <1>5, <1>7, <1>8, <1>9 DEF IInv

-----------------------------------------------------------------------------
(* Steps that open and close no leg *)

\* What such a step may do to a leg: to an open one only, and it stays as it is
\* to the rest of IInv.
LegKept(l, m) ==
  /\ m.open = l.open /\ m.cid = l.cid
  /\ m.cb = "down" => m.ended
  /\ m.val <= modem'
  /\ ~l.open => m = l

Late == step \in {"check", "publish", "insert"}

\* IInv holds on if the calls stay and the legs are kept.
LEMMA Frame ==
  ASSUME IInv, TypeOK', QueueInv', TaskInv', UNCHANGED <<calls, links, nextGen>>,
         InSetup' <=> InSetup, Late' <=> Late, step' = "link" => step = "link",
         InSetup => task' = task /\ Unborn' \subseteq Unborn,
         \A g \in Gen, f \in Fam : LegKept(leg[g][f], leg'[g][f])
  PROVE  IInv'
<1> USE DEF IInv
<1>1. CallsInv'
  BY DEF CallsInv
<1>2. LinksInv'
  BY DEF LinksInv, Late, InSetup, SetupSteps
<1>3. \A g \in Gen : Legs(g)' = Legs(g)
  BY DEF Legs, LegKept
<1>4. LegsInv'
  <2>1. ASSUME NEW g \in Gen, ~(InSetup /\ g = task.gen)'
        PROVE  (Legs(g) # {} <=> \E c \in Cid : calls[c] = g)'
    BY <1>3, <2>1 DEF LegsInv
  <2>2. ASSUME step' \in {"link", "check", "publish", "insert"}
        PROVE  Legs(task.gen)' # {}
    <3>1. step \in {"link", "check", "publish", "insert"} /\ InSetup
      BY <2>2 DEF Late, InSetup, SetupSteps
    <3>2. task.gen \in Gen /\ task' = task
      BY <3>1 DEF TaskInv, TypeOK, Gen
    <3> QED  BY <1>3, <3>1, <3>2 DEF LegsInv
  <2> QED  BY <2>1, <2>2 DEF LegsInv
<1>5. LegInv'
  <2> SUFFICES ASSUME NEW g \in Gen, NEW f \in Fam
               PROVE  LET l == leg'[g][f] IN
                      /\ ~l.open => ~l.up /\ l.inds = <<>> /\ l.cb = "idle"
                      /\ l.cb = "down" => l.ended
                      /\ l.val <= modem'
                      /\ l.open => l.cid \in Cid
                      /\ g > nextGen' => ~l.open /\ ~l.ended
                      /\ (InSetup /\ g = task.gen /\ f \in Unborn)' => ~l.open /\ ~l.ended
                      /\ \A c \in Cid : l.open /\ Owner(c, g)' => l.cid = c
    BY DEF LegInv
  <2> DEFINE l == leg[g][f]  m == leg'[g][f]
  <2>1. /\ m.open = l.open /\ m.cid = l.cid /\ (m.cb = "down" => m.ended) /\ m.val <= modem'
        /\ ~l.open => m = l
    BY DEF LegKept
  <2>2. /\ ~l.open => ~l.up /\ l.inds = <<>> /\ l.cb = "idle"
        /\ l.open => l.cid \in Cid
        /\ g > nextGen => ~l.open /\ ~l.ended
        /\ InSetup /\ g = task.gen /\ f \in Unborn => ~l.open /\ ~l.ended
        /\ \A c \in Cid : l.open /\ Owner(c, g) => l.cid = c
    BY DEF LegInv
  <2>3. \A c \in Cid : Owner(c, g)' => Owner(c, g)
    BY DEF Owner
  <2>4. (InSetup /\ g = task.gen /\ f \in Unborn)' => InSetup /\ g = task.gen /\ f \in Unborn
    OBVIOUS
  <2> HIDE DEF l, m
  <2>5. /\ ~m.open => ~m.up /\ m.inds = <<>> /\ m.cb = "idle"
        /\ m.open => m.cid \in Cid
        /\ g > nextGen => ~m.open /\ ~m.ended
        /\ InSetup /\ g = task.gen /\ f \in Unborn => ~m.open /\ ~m.ended
        /\ \A c \in Cid : m.open /\ Owner(c, g)' => m.cid = c
    BY <2>1, <2>2, <2>3
  <2> QED  BY <2>1, <2>4, <2>5 DEF m
<1> QED  BY <1>1, <1>2, <1>4, <1>5

\* The legs as they are are kept.
LEMMA SameLegs ==
  ASSUME IInv, UNCHANGED leg, modem' \in Nat, modem' >= modem
  PROVE  \A g \in Gen, f \in Fam : LegKept(leg[g][f], leg'[g][f])
<1> TAKE g \in Gen, f \in Fam
<1>1. leg[g][f].cb = "down" => leg[g][f].ended
  BY DEF IInv, LegInv
<1>2. leg[g][f].val <= modem /\ leg[g][f].val \in Nat /\ modem \in Nat
  BY LegTyped, ConstantsAssumption DEF IInv, LegInv, TypeOK
<1> QED  BY <1>1, <1>2 DEF LegKept

\* A task more in a queue.
LEMMA ExecGrows ==
  ASSUME IInv, NEW t \in ExecTasks, execQ' = Append(execQ, t)
  PROVE  execQ' \in Seq(Tasks) /\ Elements(execQ') \subseteq ExecTasks
         /\ Elements(execQ') = Elements(execQ) \cup {t}
<1>1. execQ \in Seq(Tasks) /\ t \in Tasks /\ Elements(execQ) \subseteq ExecTasks
  BY TaskShapes DEF IInv, TypeOK, QueueInv
<1> QED  BY <1>1, ElementsAppend

\* What is queued for the worker is one of its tasks.
LEMMA WorkGrows ==
  ASSUME IInv, NEW t \in WorkTasks, workQ' = Append(workQ, t)
  PROVE  workQ' \in Seq(Tasks) /\ Elements(workQ') \subseteq WorkTasks
         /\ Elements(workQ') = Elements(workQ) \cup {t}
<1>1. workQ \in Seq(Tasks) /\ t \in Tasks /\ Elements(workQ) \subseteq WorkTasks
  BY TaskShapes DEF IInv, TypeOK, QueueInv
<1> QED  BY <1>1, ElementsAppend

\* The executor's next task is the head of its queue.
LEMMA ExecHead ==
  ASSUME IInv, execQ # <<>>
  PROVE  /\ Head(execQ) \in ExecTasks /\ Tail(execQ) \in Seq(Tasks)
         /\ Elements(execQ) = {Head(execQ)} \cup Elements(Tail(execQ))
         /\ Elements(Tail(execQ)) \subseteq ExecTasks
BY ElementsTail DEF IInv, TypeOK, QueueInv

\* The worker's next task is the head of its queue.
LEMMA WorkHead ==
  ASSUME IInv, workQ # <<>>
  PROVE  /\ Head(workQ) \in WorkTasks /\ Tail(workQ) \in Seq(Tasks)
         /\ Elements(workQ) = {Head(workQ)} \cup Elements(Tail(workQ))
         /\ Elements(Tail(workQ)) \subseteq WorkTasks
BY ElementsTail DEF IInv, TypeOK, QueueInv

-----------------------------------------------------------------------------
(* Android, the worker and the dispatchers *)

\* The executor, the calls and the legs stay; the queues grow.
LEMMA QueueStep ==
  ASSUME IInv, UNCHANGED <<execVars, calls, nextGen, links, leg, format, base, modem>>,
         execQ' \in Seq(Tasks), Elements(execQ') \subseteq ExecTasks,
         workQ' \in Seq(Tasks), Elements(workQ') \subseteq WorkTasks,
         worker' \in {"run", "tell"}, ready' \in BOOLEAN, gone' \in Nat, epoch' = epoch, asked' \in 0..MaxAsked
  PROVE  IInv'
<1>1. TypeOK'
  BY DEF IInv, TypeOK, execVars
<1>2. QueueInv'
  BY DEF QueueInv
<1>3. TaskInv'
  BY DEF IInv, TaskInv, InSetup, Legs, execVars
<1>4. \A g \in Gen, f \in Fam : LegKept(leg[g][f], leg'[g][f])
  BY SameLegs DEF IInv, TypeOK
<1> QED  BY <1>1, <1>2, <1>3, <1>4, Frame DEF InSetup, Late, Unborn, execVars

\* Android asks, the core forwards a notice or hears of a loss: only queues change.
LEMMA SimpleSteps ==
  ASSUME IInv,
         \/ \E F \in SUBSET Fam \ {{}} : Ask(F)
         \/ \E c \in Cid : Deactivate(c)
         \/ Forward \/ onModemLost \/ Notice \/ Ready
  PROVE  IInv'
<1>1. /\ execQ \in Seq(Tasks) /\ Elements(execQ) \subseteq ExecTasks
      /\ workQ \in Seq(Tasks) /\ Elements(workQ) \subseteq WorkTasks
      /\ worker \in {"run", "tell"} /\ ready \in BOOLEAN /\ gone \in Nat /\ asked \in 0..MaxAsked
  BY DEF IInv, TypeOK, QueueInv
<1>2. CASE \E F \in SUBSET Fam \ {{}} : Ask(F)
  <2>1. PICK F \in SUBSET Fam \ {{}} : Ask(F)
    BY <1>2
  <2>2. Setup(F) \in ExecTasks
    BY DEF ExecTasks
  <2>3. execQ' \in Seq(Tasks) /\ Elements(execQ') \subseteq ExecTasks
    BY <2>1, <2>2, ExecGrows DEF Ask
  <2>4. asked' \in 0..MaxAsked
    BY <1>1, <2>1, ConstantsAssumption DEF Ask
  <2> QED  BY <1>1, <2>1, <2>3, <2>4, QueueStep DEF Ask, coreVars
<1>3. CASE \E c \in Cid : Deactivate(c)
  <2>1. PICK c \in Cid : Deactivate(c)
    BY <1>3
  <2>2. Deact(c) \in ExecTasks
    BY DEF ExecTasks
  <2>3. execQ' \in Seq(Tasks) /\ Elements(execQ') \subseteq ExecTasks
    BY <2>1, <2>2, ExecGrows DEF Deactivate
  <2> QED  BY <1>1, <2>1, <2>3, QueueStep DEF Deactivate, coreVars
<1>4. CASE Forward
  <2>1. workQ # <<>> /\ Head(workQ) # Reset /\ workQ' = Tail(workQ) /\ execQ' = Append(execQ, Head(workQ))
    BY <1>4 DEF Forward
  <2>2. workQ' \in Seq(Tasks) /\ Elements(workQ') \subseteq WorkTasks /\ Head(workQ) \in ExecTasks
    BY <2>1, WorkHead, TaskShapes
  <2>3. execQ' \in Seq(Tasks) /\ Elements(execQ') \subseteq ExecTasks
    BY <2>1, <2>2, ExecGrows
  <2> QED  BY <1>1, <1>4, <2>2, <2>3, QueueStep DEF Forward, coreVars
<1>5. CASE onModemLost
  <2>1. ModemLost \in ExecTasks
    BY DEF ExecTasks
  <2>2. execQ' \in Seq(Tasks) /\ Elements(execQ') \subseteq ExecTasks
    BY <1>5, <2>1, ExecGrows DEF onModemLost
  <2> QED  BY <1>1, <1>5, <2>2, QueueStep DEF onModemLost, coreVars
<1>6. CASE Notice
  <2>1. Reset \in WorkTasks
    BY DEF WorkTasks
  <2>2. workQ' \in Seq(Tasks) /\ Elements(workQ') \subseteq WorkTasks
    BY <1>1, <1>6, <2>1, WorkGrows DEF Notice
  <2>3. gone \in Nat /\ gone > 0 /\ gone' = gone - 1
    BY <1>1, <1>6 DEF Notice
  <2>4. gone' \in Nat
    BY <2>3
  <2>5. ready' \in BOOLEAN
    BY <1>6 DEF Notice
  <2> QED  BY <1>1, <1>6, <2>2, <2>4, <2>5, QueueStep DEF Notice
<1>7. CASE Ready
  BY <1>1, <1>7, QueueStep DEF Ready
<1> QED  BY <1>2, <1>3, <1>4, <1>5, <1>6, <1>7

\* Steps of a leg's own: its dispatcher's, the network's and a crash.
LEMMA LegStep ==
  ASSUME IInv, UNCHANGED <<execQ, execVars, worker, calls, nextGen, links, format, base, ready, asked>>,
         workQ' \in Seq(Tasks), Elements(workQ') \subseteq WorkTasks,
         gone' \in Nat, epoch' \in 1..(MaxCrash + 1), epoch' >= epoch, modem' \in 0..MaxModem,
         leg' \in [Gen -> [Fam -> LegRec]],
         \A g \in Gen, f \in Fam : LegKept(leg[g][f], leg'[g][f])
  PROVE  IInv'
<1>1. format' \in 0..epoch'
  BY DEF IInv, TypeOK
<1>2. TypeOK'
  BY <1>1 DEF IInv, TypeOK, execVars
<1>3. QueueInv'
  BY DEF QueueInv, IInv
<1>4. \A g \in Gen : Legs(g)' = Legs(g)
  BY DEF Legs, LegKept
<1>5. TaskInv'
  BY <1>4 DEF IInv, TaskInv, InSetup, execVars
<1> QED  BY <1>2, <1>3, <1>5, Frame DEF InSetup, Late, Unborn, execVars

\* What the dispatcher of a leg does to it.
LEMMA ObserveFacts ==
  ASSUME IInv, NEW g \in Gen, NEW f \in Fam, Observe(g, f)
  PROVE  LET l == leg[g][f]  m == leg'[g][f] IN
         /\ leg' \in [Gen -> [Fam -> LegRec]]
         /\ \A h \in Gen, e \in Fam : ~(h = g /\ e = f) => leg'[h][e] = leg[h][e]
         /\ l.open /\ l.cb = "idle" /\ UNCHANGED workQ
         /\ m.open /\ m.cid = l.cid /\ m.up = l.up /\ m.val = l.val /\ m.read = l.read /\ m.published = l.published
         /\ \/ /\ m.reconfig /\ m.cb = "reconf" /\ m.ended = l.ended
               /\ Elements(l.inds) = {"reconf"} \cup Elements(m.inds)
            \/ /\ m.reconfig = l.reconfig /\ m.ended /\ m.cb = IF l.ended THEN "idle" ELSE "down"
               /\ Elements(l.inds) = {"down"} \cup Elements(m.inds)
<1> DEFINE l == leg[g][f]  m == leg'[g][f]
           one == [l EXCEPT !.inds = Tail(l.inds), !.reconfig = TRUE, !.cb = "reconf"]
           two == [l EXCEPT !.inds = Tail(l.inds), !.ended = TRUE, !.cb = IF l.ended THEN "idle" ELSE "down"]
<1>1. TypeOK /\ l \in LegRec /\ l.inds \in Seq({"down", "reconf"})
  BY LegTyped DEF IInv
<1>0. leg \in [Gen -> [Fam -> LegRec]]
  BY DEF IInv, TypeOK
<1>2. /\ l.open /\ l.inds # <<>> /\ l.cb = "idle" /\ UNCHANGED workQ
      /\ leg' = [leg EXCEPT ![g][f] = IF Head(l.inds) = "reconf" THEN one ELSE two]
  BY DEF Observe
<1>3. /\ Head(l.inds) \in {"down", "reconf"} /\ Tail(l.inds) \in Seq({"down", "reconf"})
      /\ Elements(l.inds) = {Head(l.inds)} \cup Elements(Tail(l.inds))
  BY <1>1, <1>2, ElementsTail
<1>4. /\ one \in LegRec /\ one.open = l.open /\ one.cid = l.cid /\ one.up = l.up /\ one.val = l.val
      /\ one.read = l.read /\ one.published = l.published /\ one.reconfig = TRUE /\ one.cb = "reconf"
      /\ one.ended = l.ended /\ one.inds = Tail(l.inds)
  BY <1>1, <1>3 DEF LegRec
<1>5. /\ two \in LegRec /\ two.open = l.open /\ two.cid = l.cid /\ two.up = l.up /\ two.val = l.val
      /\ two.read = l.read /\ two.published = l.published /\ two.reconfig = l.reconfig
      /\ two.cb = (IF l.ended THEN "idle" ELSE "down")
      /\ two.ended = TRUE /\ two.inds = Tail(l.inds)
  BY <1>1, <1>3 DEF LegRec
<1> HIDE DEF one, two
<1>6. CASE Head(l.inds) = "reconf"
  <2>1. leg' = [leg EXCEPT ![g][f] = one]
    BY <1>2, <1>6
  <2>2. /\ leg' \in [Gen -> [Fam -> LegRec]] /\ m = one
        /\ \A h \in Gen, e \in Fam : ~(h = g /\ e = f) => leg'[h][e] = leg[h][e]
    BY <1>0, <1>4, <2>1
  <2> HIDE DEF l, m
  <2> QED  BY <1>2, <1>3, <1>4, <1>6, <2>2 DEF l, m
<1>7. CASE Head(l.inds) # "reconf"
  <2>1. leg' = [leg EXCEPT ![g][f] = two]
    BY <1>2, <1>7
  <2>2. /\ leg' \in [Gen -> [Fam -> LegRec]] /\ m = two
        /\ \A h \in Gen, e \in Fam : ~(h = g /\ e = f) => leg'[h][e] = leg[h][e]
    BY <1>0, <1>5, <2>1
  <2> QED  BY <1>2, <1>3, <1>5, <1>7, <2>2
<1> QED  BY <1>6, <1>7

\* A callback ends; its leg is idle again, and may have told the worker.
LEMMA ReportFacts ==
  ASSUME IInv, NEW g \in Gen, NEW f \in Fam, Report(g, f)
  PROVE  LET l == leg[g][f]  m == leg'[g][f] IN
         /\ leg' \in [Gen -> [Fam -> LegRec]]
         /\ \A h \in Gen, e \in Fam : ~(h = g /\ e = f) => leg'[h][e] = leg[h][e]
         /\ l.open /\ l.cb # "idle" /\ l.cid \in Cid
         /\ m.open /\ m.cid = l.cid /\ m.up = l.up /\ m.val = l.val /\ m.read = l.read /\ m.published = l.published
         /\ m.reconfig = l.reconfig /\ m.ended = l.ended /\ m.inds = l.inds /\ m.cb = "idle"
         /\ workQ' \in Seq(Tasks) /\ Elements(workQ') \subseteq WorkTasks
         /\ Elements(workQ') = Elements(workQ) \cup
              (IF l.cb = "down" THEN {Loss(l.cid, g)} ELSE IF l.published THEN {Reconf(l.cid, g)} ELSE {})
<1> DEFINE l == leg[g][f]  m == leg'[g][f]  new == [l EXCEPT !.cb = "idle"]
<1>1. TypeOK /\ l \in LegRec /\ l.open \in BOOLEAN
  BY LegTyped DEF IInv
<1>0. leg \in [Gen -> [Fam -> LegRec]]
  BY DEF IInv, TypeOK
<1>2. l.cb # "idle" /\ leg' = [leg EXCEPT ![g][f] = new]
  BY DEF Report
<1>3. l.open /\ l.cid \in Cid
  BY <1>2 DEF IInv, LegInv
<1>4. /\ new \in LegRec /\ new.open = l.open /\ new.cid = l.cid /\ new.up = l.up /\ new.val = l.val
      /\ new.read = l.read /\ new.published = l.published /\ new.reconfig = l.reconfig
      /\ new.ended = l.ended /\ new.inds = l.inds /\ new.cb = "idle"
  BY <1>1 DEF LegRec
<1> HIDE DEF new
<1>5. /\ leg' \in [Gen -> [Fam -> LegRec]] /\ m = new
      /\ \A h \in Gen, e \in Fam : ~(h = g /\ e = f) => leg'[h][e] = leg[h][e]
  BY <1>0, <1>2, <1>4
<1>6. Loss(l.cid, g) \in WorkTasks /\ Reconf(l.cid, g) \in WorkTasks
  BY <1>3, TaskShapes
<1>7. /\ workQ' \in Seq(Tasks) /\ Elements(workQ') \subseteq WorkTasks
      /\ Elements(workQ') = Elements(workQ) \cup
           (IF l.cb = "down" THEN {Loss(l.cid, g)} ELSE IF l.published THEN {Reconf(l.cid, g)} ELSE {})
  <2>1. CASE l.cb = "down"
    <3>1. workQ' = Append(workQ, Loss(l.cid, g))
      BY <2>1 DEF Report
    <3> QED  BY <1>6, <2>1, <3>1, WorkGrows
  <2>2. CASE l.cb # "down" /\ l.published
    <3>1. workQ' = Append(workQ, Reconf(l.cid, g))
      BY <2>2 DEF Report
    <3> QED  BY <1>6, <2>2, <3>1, WorkGrows
  <2>3. CASE l.cb # "down" /\ ~l.published
    <3>1. workQ' = workQ
      BY <2>3 DEF Report
    <3> QED  BY <2>3, <3>1 DEF IInv, TypeOK, QueueInv
  <2> QED  BY <2>1, <2>2, <2>3
<1> QED  BY <1>2, <1>3, <1>4, <1>5, <1>7

\* A dispatcher takes an indication or ends its callback.
LEMMA DispatchStep ==
  ASSUME IInv, NEW g \in Gen, NEW f \in Fam, Dispatch(g, f)
  PROVE  IInv'
<1>0. Observe(g, f) \/ Report(g, f)
  BY DEF Dispatch
<1>1. /\ leg' \in [Gen -> [Fam -> LegRec]] /\ workQ' \in Seq(Tasks) /\ Elements(workQ') \subseteq WorkTasks
      /\ \A h \in Gen, e \in Fam : ~(h = g /\ e = f) => leg'[h][e] = leg[h][e]
      /\ leg[g][f].open /\ leg'[g][f].open /\ leg'[g][f].cid = leg[g][f].cid
      /\ leg'[g][f].val = leg[g][f].val /\ (leg'[g][f].cb = "down" => leg'[g][f].ended)
  <2>1. CASE Observe(g, f)
    <3>1. workQ' \in Seq(Tasks) /\ Elements(workQ') \subseteq WorkTasks
      BY <2>1, ObserveFacts DEF IInv, TypeOK, QueueInv
    <3> QED  BY <2>1, <3>1, ObserveFacts
  <2>2. CASE Report(g, f)
    BY <2>2, ReportFacts
  <2> QED  BY <1>0, <2>1, <2>2
<1>2. modem' = modem /\ modem \in 0..MaxModem /\ gone' = gone /\ gone \in Nat
      /\ epoch' = epoch /\ epoch \in 1..(MaxCrash + 1)
  BY DEF Dispatch, coreVars, IInv, TypeOK
<1>3. \A h \in Gen, e \in Fam : LegKept(leg[h][e], leg'[h][e])
  <2> TAKE h \in Gen, e \in Fam
  <2>1. leg[h][e].val <= modem /\ (leg[h][e].cb = "down" => leg[h][e].ended)
    BY DEF IInv, LegInv
  <2>2. CASE h = g /\ e = f
    BY <1>1, <1>2, <2>1, <2>2 DEF LegKept
  <2>3. CASE ~(h = g /\ e = f)
    BY <1>1, <1>2, <2>1, <2>3 DEF LegKept
  <2> QED  BY <2>2, <2>3
<1> QED  BY <1>1, <1>2, <1>3, LegStep DEF Dispatch, coreVars

-----------------------------------------------------------------------------
(* The modem *)

\* A session that ends sends its leg one notice more.
LEMMA EndedLeg ==
  ASSUME NEW l \in LegRec
  PROVE  /\ Ended(l) \in LegRec /\ ~Ended(l).up /\ Ended(l).open = l.open /\ Ended(l).cid = l.cid
         /\ Ended(l).val = l.val /\ Ended(l).ended = l.ended /\ Ended(l).cb = l.cb
         /\ Ended(l).reconfig = l.reconfig /\ Ended(l).published = l.published
         /\ Elements(Ended(l).inds) = Elements(l.inds) \cup {"down"}
<1>1. l.inds \in Seq({"down", "reconf"})
  BY DEF LegRec
<1>2. /\ Append(l.inds, "down") \in Seq({"down", "reconf"})
      /\ Elements(Append(l.inds, "down")) = Elements(l.inds) \cup {"down"}
  BY <1>1, ElementsAppend
<1> QED  BY <1>2 DEF Ended, LegRec

\* The network ends one session or changes its settings.
LEMMA NetworkFacts ==
  ASSUME IInv, NEW g \in Gen, NEW f \in Fam, Network(g, f)
  PROVE  LET l == leg[g][f]  m == leg'[g][f] IN
         /\ leg' \in [Gen -> [Fam -> LegRec]] /\ modem' \in 0..MaxModem /\ modem' = modem + 1
         /\ \A h \in Gen, e \in Fam : ~(h = g /\ e = f) => leg'[h][e] = leg[h][e]
         /\ l.up /\ l.open /\ m.open /\ m.cid = l.cid /\ m.cb = l.cb /\ m.ended = l.ended
         /\ m.reconfig = l.reconfig /\ m.published = l.published
         /\ \/ m = Ended(l)
            \/ /\ m.up = l.up /\ m.val = l.val + 1 /\ m.read = l.read
               /\ Elements(m.inds) = Elements(l.inds) \cup {"reconf"}
<1> DEFINE l == leg[g][f]  m == leg'[g][f]
           new == [l EXCEPT !.val = l.val + 1, !.inds = Append(l.inds, "reconf")]
<1>1. /\ leg \in [Gen -> [Fam -> LegRec]] /\ modem \in 0..MaxModem
      /\ l \in LegRec /\ l.inds \in Seq({"down", "reconf"}) /\ l.val \in Nat
  BY LegTyped DEF IInv, TypeOK
<1>2. /\ l.up /\ modem < MaxModem /\ modem' = modem + 1
      /\ leg' = [leg EXCEPT ![g][f] = Ended(l)] \/ leg' = [leg EXCEPT ![g][f] = new]
  BY DEF Network
<1>3. modem' \in 0..MaxModem /\ l.val + 1 \in 0..MaxModem /\ l.open
  BY <1>1, <1>2, ConstantsAssumption DEF IInv, LegInv
<1>4. /\ Append(l.inds, "reconf") \in Seq({"down", "reconf"})
      /\ Elements(Append(l.inds, "reconf")) = Elements(l.inds) \cup {"reconf"}
  BY <1>1, ElementsAppend
<1>5. CASE leg' = [leg EXCEPT ![g][f] = Ended(l)]
  <2>1. /\ Ended(l) \in LegRec /\ Ended(l).open = l.open /\ Ended(l).cid = l.cid
        /\ Ended(l).cb = l.cb /\ Ended(l).ended = l.ended
        /\ Ended(l).reconfig = l.reconfig /\ Ended(l).published = l.published
    BY <1>1, EndedLeg
  <2>2. /\ leg' \in [Gen -> [Fam -> LegRec]] /\ m = Ended(l)
        /\ \A h \in Gen, e \in Fam : ~(h = g /\ e = f) => leg'[h][e] = leg[h][e]
    BY <1>1, <1>5, <2>1
  <2> QED  BY <1>2, <1>3, <2>1, <2>2
<1>6. CASE leg' = [leg EXCEPT ![g][f] = new]
  <2>1. /\ new \in LegRec /\ new.open = l.open /\ new.cid = l.cid /\ new.up = l.up /\ new.val = l.val + 1
        /\ new.read = l.read /\ new.published = l.published /\ new.reconfig = l.reconfig
        /\ new.ended = l.ended /\ new.inds = Append(l.inds, "reconf") /\ new.cb = l.cb
    BY <1>1, <1>3, <1>4 DEF LegRec
  <2> HIDE DEF new
  <2>2. /\ leg' \in [Gen -> [Fam -> LegRec]] /\ m = new
        /\ \A h \in Gen, e \in Fam : ~(h = g /\ e = f) => leg'[h][e] = leg[h][e]
    BY <1>1, <1>6, <2>1
  <2> QED  BY <1>2, <1>3, <1>4, <2>1, <2>2
<1> QED  BY <1>2, <1>5, <1>6

\* A leg that is up hears of both.
LEMMA NetworkStep ==
  ASSUME IInv, NEW g \in Gen, NEW f \in Fam, Network(g, f)
  PROVE  IInv'
<1>1. /\ leg' \in [Gen -> [Fam -> LegRec]] /\ modem' \in 0..MaxModem /\ modem' = modem + 1
      /\ \A h \in Gen, e \in Fam : ~(h = g /\ e = f) => leg'[h][e] = leg[h][e]
      /\ leg[g][f].open /\ leg'[g][f].open /\ leg'[g][f].cid = leg[g][f].cid
      /\ leg'[g][f].cb = leg[g][f].cb /\ leg'[g][f].ended = leg[g][f].ended
      /\ leg'[g][f] = Ended(leg[g][f]) \/ leg'[g][f].val = leg[g][f].val + 1
  BY NetworkFacts
<1>2. workQ \in Seq(Tasks) /\ Elements(workQ) \subseteq WorkTasks /\ modem \in Nat
      /\ gone \in Nat /\ epoch \in 1..(MaxCrash + 1)
  BY DEF IInv, TypeOK, QueueInv
<1>3. \A h \in Gen, e \in Fam : LegKept(leg[h][e], leg'[h][e])
  <2> TAKE h \in Gen, e \in Fam
  <2>1. /\ leg[h][e].val <= modem /\ (leg[h][e].cb = "down" => leg[h][e].ended)
        /\ leg[h][e] \in LegRec /\ leg[h][e].val \in Nat
    BY LegTyped DEF IInv, LegInv
  <2>2. CASE h = g /\ e = f
    <3>1. Ended(leg[g][f]).val = leg[g][f].val
      BY <2>1, <2>2, EndedLeg
    <3>2. leg'[g][f].val = leg[g][f].val \/ leg'[g][f].val = leg[g][f].val + 1
      BY <1>1, <3>1
    <3>3. leg'[g][f].val <= modem'
      BY <1>1, <1>2, <2>1, <2>2, <3>2
    <3> QED  BY <1>1, <2>1, <2>2, <3>3, Zenon DEF LegKept
  <2>3. CASE ~(h = g /\ e = f)
    BY <1>1, <1>2, <2>1, <2>3 DEF LegKept
  <2> QED  BY <2>2, <2>3
<1> QED  BY <1>1, <1>2, <1>3, LegStep DEF Network, coreVars

\* A crash ends every session that was up.
LEMMA CrashFacts ==
  ASSUME IInv, Crash
  PROVE  /\ leg' \in [Gen -> [Fam -> LegRec]]
         /\ \A g \in Gen, f \in Fam :
              leg'[g][f] = IF leg[g][f].up THEN Ended(leg[g][f]) ELSE leg[g][f]
<1>1. leg' = [g \in Gen |-> [f \in Fam |-> IF leg[g][f].up THEN Ended(leg[g][f]) ELSE leg[g][f]]]
  BY DEF Crash
<1>2. \A g \in Gen, f \in Fam : leg[g][f] \in LegRec /\ Ended(leg[g][f]) \in LegRec
  BY LegTyped, EndedLeg DEF IInv
<1> QED  BY <1>1, <1>2

\* The crash leaves calls and links to the executor.
LEMMA CrashStep ==
  ASSUME IInv, Crash
  PROVE  IInv'
<1>1. workQ \in Seq(Tasks) /\ Elements(workQ) \subseteq WorkTasks /\ modem \in 0..MaxModem /\ modem' = modem
      /\ gone' = gone + 1 /\ gone \in Nat /\ epoch' = epoch + 1 /\ epoch \in 1..(MaxCrash + 1) /\ epoch <= MaxCrash
      /\ workQ' = workQ
  BY DEF IInv, TypeOK, QueueInv, Crash
<1>2. gone' \in Nat /\ epoch' \in 1..(MaxCrash + 1) /\ epoch' >= epoch
  BY <1>1, ConstantsAssumption
<1>3. \A g \in Gen, f \in Fam : LegKept(leg[g][f], leg'[g][f])
  <2> TAKE g \in Gen, f \in Fam
  <2> DEFINE l == leg[g][f]
  <2>1. /\ l.val <= modem /\ (l.cb = "down" => l.ended) /\ (~l.open => ~l.up) /\ l \in LegRec
    BY LegTyped DEF IInv, LegInv
  <2>2. leg'[g][f] = IF l.up THEN Ended(l) ELSE l
    BY CrashFacts
  <2>3. /\ Ended(l).open = l.open /\ Ended(l).cid = l.cid
        /\ Ended(l).val = l.val /\ Ended(l).ended = l.ended /\ Ended(l).cb = l.cb
    BY <2>1, EndedLeg
  <2> HIDE DEF l
  <2> QED  BY <1>1, <2>1, <2>2, <2>3 DEF LegKept, l
<1> QED  BY <1>1, <1>2, <1>3, CrashFacts, LegStep DEF Crash

-----------------------------------------------------------------------------
(* The executor outside a setup *)

RestVars == <<worker, coreVars, asked, modem>>

\* The executor's own variables after Done.
LEMMA DoneFacts ==
  ASSUME Done
  PROVE  /\ step' = "idle" /\ step' \in Steps /\ task' \in Tasks /\ todo' \in SUBSET Fam
         /\ fresh' \in [Fam -> 0..MaxModem]
         /\ ~InSetup' /\ ~Late' /\ TaskInv'
<1>1. /\ step' = "idle" /\ task' = ModemLost /\ todo' = {} /\ fresh' = [f \in Fam |-> 0]
  BY DEF Done
<1>2. ModemLost \in Tasks
  BY TaskShapes DEF ExecTasks
<1>3. fresh' \in [Fam -> 0..MaxModem]
  BY <1>1, ConstantsAssumption
<1> QED  BY <1>1, <1>2, <1>3 DEF Steps, InSetup, SetupSteps, Late, TaskInv

\* A move from one step outside a setup to another.
LEMMA Move ==
  ASSUME IInv, ~InSetup, ~InSetup', UNCHANGED <<RestVars, workQ, calls, links, nextGen, leg>>,
         execQ' \in Seq(Tasks), Elements(execQ') \subseteq ExecTasks,
         step' \in Steps, task' \in Tasks, todo' \in SUBSET Fam, fresh' \in [Fam -> 0..MaxModem],
         base' \in [Cid -> Gen \cup {0}], format' \in 0..epoch, TaskInv'
  PROVE  IInv'
<1>1. TypeOK'
  BY DEF IInv, TypeOK, RestVars, coreVars
<1>2. QueueInv'
  BY DEF IInv, QueueInv
<1>3. \A g \in Gen, f \in Fam : LegKept(leg[g][f], leg'[g][f])
  BY SameLegs DEF IInv, TypeOK, RestVars
<1>4. ~Late /\ ~Late' /\ step' # "link"
  BY DEF InSetup, Late, SetupSteps
<1> QED  BY <1>1, <1>2, <1>3, <1>4, Frame

\* The types of what the executor may leave alone.
LEMMA ExecTyped ==
  ASSUME IInv
  PROVE  /\ execQ \in Seq(Tasks) /\ Elements(execQ) \subseteq ExecTasks
         /\ workQ \in Seq(Tasks) /\ Elements(workQ) \subseteq WorkTasks
         /\ step \in Steps /\ task \in Tasks /\ todo \in SUBSET Fam /\ fresh \in [Fam -> 0..MaxModem]
         /\ base \in [Cid -> Gen \cup {0}] /\ format \in 0..epoch /\ epoch \in Nat
         /\ calls \in [Cid -> Gen \cup {0}] /\ links \in SUBSET Cid
         /\ nextGen \in 0..MaxGen /\ nextGen \in Nat /\ modem \in Nat
         /\ leg \in [Gen -> [Fam -> LegRec]]
BY ConstantsAssumption DEF IInv, TypeOK, QueueInv

\* A call goes with its legs and its link.
LEMMA TearDownStep ==
  ASSUME IInv, ~InSetup, NEW c \in Cid, calls[c] # 0, TearDown(c),
         step' = "hide", task' \in Tasks, task'.cid \in Cid, UNCHANGED <<todo, fresh>>,
         UNCHANGED <<RestVars, workQ, nextGen, format, base>>,
         execQ' \in Seq(Tasks), Elements(execQ') \subseteq ExecTasks
  PROVE  IInv'
<1> DEFINE g0 == calls[c]
<1>1. g0 \in Gen /\ Legs(g0) \in SUBSET Fam /\ TypeOK
  BY DEF IInv, TypeOK, Legs
<1>2. StopLegs(g0, Legs(g0)) /\ links' = links \ {c} /\ calls' = [calls EXCEPT ![c] = 0]
  BY DEF TearDown, stopEntry
<1>3. /\ leg' \in [Gen -> [Fam -> LegRec]]
      /\ \A h \in Gen, f \in Fam :
           leg'[h][f] = IF h = g0 /\ f \in Legs(g0) THEN Closed(leg[h][f].ended) ELSE leg[h][f]
  BY <1>1, <1>2, StopLegsFacts
<1>4. /\ calls' \in [Cid -> Gen \cup {0}] /\ \A d \in Cid : calls'[d] = IF d = c THEN 0 ELSE calls[d]
  BY <1>2, ExecTyped
<1>5. ~InSetup' /\ ~Late /\ ~Late' /\ step' \in Steps
  BY DEF InSetup, SetupSteps, Steps, Late
<1>6. TypeOK'
  BY <1>2, <1>3, <1>4, <1>5, ExecTyped DEF IInv, TypeOK, RestVars, coreVars
<1>7. QueueInv'
  BY ExecTyped DEF QueueInv
<1>8. TaskInv'
  BY <1>5 DEF TaskInv
<1>9. CallsInv'
  <2>1. /\ \A d \in Cid : calls[d] <= nextGen
        /\ \A d, e \in Cid : calls[d] = calls[e] /\ calls[d] # 0 => d = e
    BY DEF IInv, CallsInv
  <2>2. nextGen \in Nat /\ nextGen' = nextGen
    BY ExecTyped
  <2>3. \A d \in Cid : calls'[d] <= nextGen'
    BY <1>4, <2>1, <2>2
  <2>4. \A d, e \in Cid : calls'[d] = calls'[e] /\ calls'[d] # 0 => d = e
    BY <1>4, <2>1
  <2> QED  BY <2>3, <2>4 DEF CallsInv
<1>10. LinksInv'
  <2>1. links = {d \in Cid : calls[d] # 0}
    BY <1>5 DEF IInv, LinksInv, Late
  <2> QED  BY <1>2, <1>4, <1>5, <2>1 DEF LinksInv, Late
<1>11. \A d \in Cid : calls[d] = g0 => d = c
  BY DEF IInv, CallsInv
<1>12. LegsInv'
  <2> SUFFICES ASSUME NEW h \in Gen
               PROVE  Legs(h)' # {} <=> \E d \in Cid : calls'[d] = h
    BY <1>5 DEF LegsInv, InSetup, SetupSteps
  <2>1. h \in Nat \ {0}
    BY DEF Gen
  <2>2. Legs(h) # {} <=> \E d \in Cid : calls[d] = h
    BY DEF IInv, LegsInv
  <2>3. CASE h = g0
    <3>1. \A f \in Fam : ~leg'[h][f].open
      <4> TAKE f \in Fam
      <4>1. f \in Legs(h) <=> leg[h][f].open
        BY DEF Legs
      <4>2. leg[h][f].ended \in BOOLEAN
        BY <1>1, LegTyped
      <4> QED  BY <1>3, <2>3, <4>1, <4>2, ClosedLeg
    <3> QED  BY <1>4, <1>11, <2>1, <2>3, <3>1 DEF Legs
  <2>4. CASE h # g0
    <3>1. Legs(h)' = Legs(h)
      BY <1>3, <2>4 DEF Legs
    <3>2. \A d \in Cid : calls'[d] = h <=> calls[d] = h
      BY <1>4, <2>1, <2>4
    <3> QED  BY <2>2, <3>1, <3>2
  <2> QED  BY <2>3, <2>4
<1>13. LegInv'
  <2> SUFFICES ASSUME NEW h \in Gen, NEW f \in Fam
               PROVE  LET l == leg'[h][f] IN
                      /\ ~l.open => ~l.up /\ l.inds = <<>> /\ l.cb = "idle"
                      /\ l.cb = "down" => l.ended
                      /\ l.val <= modem
                      /\ l.open => l.cid \in Cid
                      /\ h > nextGen => ~l.open /\ ~l.ended
                      /\ \A d \in Cid : l.open /\ calls'[d] = h => l.cid = d
    BY <1>5 DEF LegInv, Owner, RestVars
  <2> DEFINE l == leg[h][f]
  <2>1. /\ ~l.open => ~l.up /\ l.inds = <<>> /\ l.cb = "idle"
        /\ l.cb = "down" => l.ended
        /\ l.val <= modem
        /\ l.open => l.cid \in Cid
        /\ h > nextGen => ~l.open /\ ~l.ended
        /\ \A d \in Cid : l.open /\ calls[d] = h => l.cid = d
    BY DEF IInv, LegInv, Owner
  <2>2. l.ended \in BOOLEAN /\ h # 0 /\ modem \in Nat
    BY <1>1, LegTyped, ExecTyped DEF Gen
  <2>3. /\ ~Closed(l.ended).open /\ ~Closed(l.ended).up /\ Closed(l.ended).ended = l.ended
        /\ Closed(l.ended).val = 0 /\ Closed(l.ended).inds = <<>> /\ Closed(l.ended).cb = "idle"
    BY <2>2, ClosedLeg
  <2>4. leg'[h][f] = Closed(l.ended) \/ leg'[h][f] = l
    BY <1>3
  <2>5. \A d \in Cid : calls'[d] = h => calls[d] = h
    BY <1>4, <2>2
  <2> HIDE DEF l
  <2>6. CASE leg'[h][f] = l
    BY <2>1, <2>5, <2>6
  <2>7. CASE leg'[h][f] = Closed(l.ended)
    <3>1. Closed(l.ended).val <= modem
      BY <2>2, <2>3
    <3> QED  BY <2>1, <2>3, <2>7, <3>1
  <2> QED  BY <2>4, <2>6, <2>7
<1> QED  BY <1>6, <1>7, <1>8, <1>9, <1>10, <1>12, <1>13 DEF IInv

\* deactivateIfCurrent, for a notice as well as for a call to invalidate.
LEMMA IfCurrentStep ==
  ASSUME IInv, ~InSetup, NEW t \in Tasks, t.cid \in Cid, t.gen \in Gen, deactivateIfCurrent(t),
         UNCHANGED <<RestVars, workQ, nextGen, format, base>>,
         execQ' \in Seq(Tasks), Elements(execQ') \subseteq ExecTasks
  PROVE  IInv'
<1>1. CASE calls[t.cid] = t.gen
  <2>1. calls[t.cid] # 0
    BY <1>1 DEF Gen
  <2>2. TearDown(t.cid) /\ step' = "hide" /\ task' = t /\ UNCHANGED <<todo, fresh>>
    BY <1>1 DEF deactivateIfCurrent
  <2> QED  BY <2>1, <2>2, TearDownStep
<1>2. CASE calls[t.cid] # t.gen
  <2>1. Done /\ UNCHANGED <<calls, links, leg>>
    BY <1>2 DEF deactivateIfCurrent
  <2> QED  BY <2>1, DoneFacts, ExecTyped, Move
<1> QED  BY <1>1, <1>2

\* What Take leaves of the queue.
LEMMA TakeFacts ==
  ASSUME IInv, Take
  PROVE  /\ step = "idle" /\ ~InSetup /\ execQ # <<>> /\ execQ' = Tail(execQ)
         /\ execQ' \in Seq(Tasks) /\ Elements(execQ') \subseteq ExecTasks
         /\ Head(execQ) \in ExecTasks /\ Head(execQ) \in Tasks
<1>1. step = "idle" /\ execQ # <<>> /\ execQ' = Tail(execQ)
  BY DEF Take
<1> QED  BY <1>1, ExecHead, TaskShapes DEF InSetup, SetupSteps

\* The executor takes a task that fits the calls as they are.
LEMMA TakeStep ==
  ASSUME IInv, Take, UNCHANGED <<RestVars, workQ>>
  PROVE  IInv'
<1> DEFINE t == Head(execQ)
<1>1. /\ step = "idle" /\ ~InSetup /\ execQ' \in Seq(Tasks) /\ Elements(execQ') \subseteq ExecTasks
      /\ t \in ExecTasks /\ t \in Tasks
  BY TakeFacts
<1>2. TakeSetup(t) \/ TakeDeact(t) \/ TakeLoss(t) \/ TakeReconf(t) \/ TakeLost(t)
  BY DEF Take
<1> HIDE DEF t
<1>3. CASE TakeSetup(t)
  <2>1. UNCHANGED <<calls, links, nextGen, format, leg, base>>
    BY <1>3 DEF TakeSetup
  <2>2. CASE Done
    BY <1>1, <2>1, <2>2, DoneFacts, ExecTyped, Move
  <2>3. CASE step' = "ask" /\ task' = t /\ UNCHANGED <<todo, fresh>>
    <3>1. ~InSetup' /\ step' \in Steps /\ TaskInv'
      BY <2>3 DEF InSetup, SetupSteps, Steps, TaskInv
    <3> QED  BY <1>1, <2>1, <2>3, <3>1, ExecTyped, Move
  <2> QED  BY <1>3, <2>2, <2>3 DEF TakeSetup
<1>4. CASE TakeDeact(t)
  <2>1. /\ t.cid \in Cid /\ step' = "hide" /\ task' = t /\ UNCHANGED <<todo, fresh, nextGen, format, base>>
    BY <1>1, <1>4, TaskShapes DEF TakeDeact
  <2>2. CASE calls[t.cid] = 0
    <3>1. ~InSetup' /\ step' \in Steps /\ TaskInv' /\ UNCHANGED <<calls, links, leg>>
      BY <1>4, <2>1, <2>2 DEF InSetup, SetupSteps, Steps, TaskInv, TakeDeact
    <3> QED  BY <1>1, <2>1, <3>1, ExecTyped, Move
  <2>3. CASE calls[t.cid] # 0
    <3>1. TearDown(t.cid)
      BY <1>4, <2>3 DEF TakeDeact
    <3> QED  BY <1>1, <2>1, <2>3, <3>1, TearDownStep
  <2> QED  BY <2>2, <2>3
<1>5. CASE TakeLoss(t)
  <2>1. t.cid \in Cid /\ t.gen \in Gen /\ deactivateIfCurrent(t) /\ UNCHANGED <<nextGen, format, base>>
    BY <1>1, <1>5, TaskShapes DEF TakeLoss
  <2> QED  BY <1>1, <2>1, IfCurrentStep
<1>6. CASE TakeReconf(t)
  <2>1. t.cid \in Cid /\ t.gen \in Gen /\ UNCHANGED <<calls, links, nextGen, format, leg, base>>
    BY <1>1, <1>6, TaskShapes DEF TakeReconf
  <2>2. CASE calls[t.cid] = t.gen
    <3>1. step' = "refresh" /\ task' = t /\ todo' = Legs(t.gen) /\ UNCHANGED fresh
      BY <1>6, <2>2 DEF TakeReconf
    <3>2. Legs(t.gen) # {} /\ Legs(t.gen) \in SUBSET Fam /\ Legs(task.gen)' = Legs(t.gen)
      <4>1. Legs(t.gen) # {}
        BY <1>1, <2>1, <2>2 DEF IInv, LegsInv
      <4> QED  BY <2>1, <3>1, <4>1 DEF Legs
    <3>3. ~InSetup' /\ step' \in Steps
      BY <3>1 DEF InSetup, SetupSteps, Steps
    <3>4. TaskInv'
      <4>1. task'.cid \in Cid /\ task'.gen \in Gen /\ calls'[task'.cid] = task'.gen /\ todo' # {}
            /\ todo' \subseteq Legs(task.gen)'
        BY <2>1, <2>2, <3>1, <3>2
      <4> QED  BY <3>1, <3>3, <4>1 DEF TaskInv
    <3> QED  BY <1>1, <2>1, <3>1, <3>2, <3>3, <3>4, ExecTyped, Move
  <2>3. CASE calls[t.cid] # t.gen
    <3>1. Done
      BY <1>6, <2>3 DEF TakeReconf
    <3> QED  BY <1>1, <2>1, <3>1, DoneFacts, ExecTyped, Move
  <2> QED  BY <2>2, <2>3
<1>7. CASE TakeLost(t)
  <2>1. Done /\ base' = [c \in Cid |-> 0] /\ UNCHANGED <<calls, links, nextGen, format, leg>>
    BY <1>7 DEF TakeLost
  <2>2. base' \in [Cid -> Gen \cup {0}]
    BY <2>1
  <2> QED  BY <1>1, <2>1, <2>2, DoneFacts, ExecTyped, Move
<1> QED  BY <1>2, <1>3, <1>4, <1>5, <1>6, <1>7

\* What Android is told, and the calls that are torn down for their settings.
LEMMA AfterSteps ==
  ASSUME IInv, Show \/ Hide \/ Invalidate, UNCHANGED <<RestVars, execQ, workQ>>
  PROVE  IInv'
<1>1. CASE Show
  <2>1. /\ step = "show" /\ Done /\ base' = [base EXCEPT ![task.cid] = task.gen]
        /\ UNCHANGED <<calls, links, nextGen, format, leg>>
    BY <1>1 DEF Show
  <2>2. task.gen \in Gen /\ ~InSetup
    BY <2>1 DEF IInv, TaskInv, InSetup, SetupSteps
  <2>3. base' \in [Cid -> Gen \cup {0}]
    BY <2>1, <2>2, ExecTyped
  <2> QED  BY <2>1, <2>2, <2>3, DoneFacts, ExecTyped, Move
<1>2. CASE Hide
  <2>1. /\ step = "hide" /\ Done /\ base' = [base EXCEPT ![task.cid] = 0]
        /\ UNCHANGED <<calls, links, nextGen, format, leg>>
    BY <1>2 DEF Hide
  <2>2. ~InSetup
    BY <2>1 DEF InSetup, SetupSteps
  <2>3. base' \in [Cid -> Gen \cup {0}]
    BY <2>1, ExecTyped
  <2> QED  BY <2>1, <2>2, <2>3, DoneFacts, ExecTyped, Move
<1>3. CASE Invalidate
  <2>1. step = "invalidate" /\ deactivateIfCurrent(task) /\ UNCHANGED <<nextGen, format, base>>
    BY <1>3 DEF Invalidate
  <2>2. task.cid \in Cid /\ task.gen \in Gen /\ ~InSetup
    BY <2>1 DEF IInv, TaskInv, InSetup, SetupSteps
  <2> QED  BY <2>1, <2>2, ExecTyped, IfCurrentStep
<1> QED  BY <1>1, <1>2, <1>3

\* A step of the executor that opens and closes no leg.
LEMMA ExecKept ==
  ASSUME IInv, UNCHANGED <<RestVars, execQ, workQ, calls, links, nextGen, format, base>>,
         leg' \in [Gen -> [Fam -> LegRec]],
         step' \in Steps, task' \in Tasks, todo' \in SUBSET Fam, fresh' \in [Fam -> 0..MaxModem],
         InSetup' <=> InSetup, Late' <=> Late, step' = "link" => step = "link",
         InSetup => task' = task /\ Unborn' \subseteq Unborn, TaskInv',
         \A g \in Gen, f \in Fam : LegKept(leg[g][f], leg'[g][f])
  PROVE  IInv'
<1>1. TypeOK'
  BY DEF IInv, TypeOK, RestVars, coreVars
<1>2. QueueInv'
  BY DEF IInv, QueueInv
<1> QED  BY <1>1, <1>2, Frame

\* refresh reads one leg more, or gives the call up.
LEMMA RefreshFacts ==
  ASSUME IInv, Refresh
  PROVE  LET g == task.gen  f == Least(todo)  l == leg[g][f]  m == leg'[g][f] IN
         /\ step = "refresh" /\ g \in Gen /\ f \in todo /\ todo \subseteq Legs(g) /\ todo' = todo \ {f}
         /\ task' = task /\ leg' \in [Gen -> [Fam -> LegRec]]
         /\ \A h \in Gen, e \in Fam : ~(h = g /\ e = f) => leg'[h][e] = leg[h][e]
         /\ l.open /\ m.open /\ m.cid = l.cid /\ m.up = l.up /\ m.val = l.val /\ m.read = l.read
         /\ m.published = l.published /\ m.ended = l.ended /\ m.inds = l.inds /\ m.cb = l.cb
         /\ fresh' \in [Fam -> 0..MaxModem]
         /\ \A e \in Fam : e # f => fresh'[e] = fresh[e]
         /\ \/ l.up /\ fresh'[f] = l.val /\ step' = (IF todo' = {} THEN "decide" ELSE "refresh")
            \/ step' = "invalidate"
<1> DEFINE g == task.gen  f == Least(todo)  l == leg[g][f]  m == leg'[g][f]
           new == [l EXCEPT !.reconfig = FALSE]
<1>1. step = "refresh" /\ g \in Gen /\ todo # {} /\ todo \subseteq Legs(g) /\ todo \subseteq Fam
  BY DEF Refresh, IInv, TaskInv, TypeOK
<1>2. f \in todo
  BY <1>1, LeastIsMember, ConstantsAssumption
<1> HIDE DEF f
<1>3. f \in Fam /\ l.open /\ l \in LegRec /\ l.val \in 0..MaxModem
  BY <1>1, <1>2, LegTyped DEF IInv, Legs
<1>4. /\ new \in LegRec /\ new.open = l.open /\ new.cid = l.cid /\ new.up = l.up /\ new.val = l.val
      /\ new.read = l.read /\ new.published = l.published /\ new.ended = l.ended /\ new.inds = l.inds
      /\ new.cb = l.cb
  BY <1>3 DEF LegRec
<1>5. /\ leg' = [leg EXCEPT ![g][f] = new] /\ todo' = todo \ {f} /\ task' = task
      /\ \/ l.up /\ fresh' = [fresh EXCEPT ![f] = l.val] /\ step' = (IF todo' = {} THEN "decide" ELSE "refresh")
         \/ step' = "invalidate" /\ UNCHANGED fresh
  BY DEF Refresh, f
<1> HIDE DEF new
<1>6. /\ leg' \in [Gen -> [Fam -> LegRec]] /\ m = new
      /\ \A h \in Gen, e \in Fam : ~(h = g /\ e = f) => leg'[h][e] = leg[h][e]
  BY <1>1, <1>3, <1>4, <1>5, ExecTyped
<1>7. /\ fresh' \in [Fam -> 0..MaxModem]
      /\ \A e \in Fam : e # f => fresh'[e] = fresh[e]
      /\ \/ l.up /\ fresh'[f] = l.val /\ step' = (IF todo' = {} THEN "decide" ELSE "refresh")
         \/ step' = "invalidate"
  BY <1>3, <1>5, ExecTyped
<1> HIDE DEF l, m
<1>8. l.open /\ m.open
  BY <1>3, <1>4, <1>6
<1> QED  BY <1>1, <1>2, <1>4, <1>5, <1>6, <1>7, <1>8 DEF f, l, m

\* One family of the call is read again.
LEMMA RefreshStep ==
  ASSUME IInv, Refresh, UNCHANGED <<RestVars, execQ, workQ>>
  PROVE  IInv'
<1> DEFINE g == task.gen  f == Least(todo)
<1>1. /\ step = "refresh" /\ g \in Gen /\ f \in todo /\ todo \subseteq Legs(g) /\ todo' = todo \ {f}
      /\ task' = task /\ leg' \in [Gen -> [Fam -> LegRec]]
      /\ \A h \in Gen, e \in Fam : ~(h = g /\ e = f) => leg'[h][e] = leg[h][e]
      /\ leg[g][f].open /\ leg'[g][f].open /\ leg'[g][f].cid = leg[g][f].cid
      /\ leg'[g][f].val = leg[g][f].val /\ leg'[g][f].ended = leg[g][f].ended /\ leg'[g][f].cb = leg[g][f].cb
      /\ fresh' \in [Fam -> 0..MaxModem]
      /\ step' = (IF todo' = {} THEN "decide" ELSE "refresh") \/ step' = "invalidate"
  BY RefreshFacts
<1> HIDE DEF f
<1>2. UNCHANGED <<calls, links, nextGen, format, base>>
  BY DEF Refresh
<1>3. /\ ~InSetup /\ ~InSetup' /\ ~Late /\ ~Late' /\ step' # "link" /\ step' \in Steps
      /\ todo' \in SUBSET Fam
  BY <1>1, ExecTyped DEF InSetup, SetupSteps, Late, Steps
<1>4. \A h \in Gen, e \in Fam : LegKept(leg[h][e], leg'[h][e])
  <2> TAKE h \in Gen, e \in Fam
  <2>1. leg[h][e].val <= modem /\ (leg[h][e].cb = "down" => leg[h][e].ended)
    BY DEF IInv, LegInv
  <2>2. CASE h = g /\ e = f
    BY <1>1, <2>1, <2>2 DEF LegKept, RestVars
  <2>3. CASE ~(h = g /\ e = f)
    BY <1>1, <2>1, <2>3 DEF LegKept, RestVars
  <2> QED  BY <2>2, <2>3
<1>5. Legs(g)' = Legs(g)
  <2>1. \A e \in Fam : leg'[g][e].open <=> leg[g][e].open
    BY <1>1
  <2> QED  BY <1>1, <2>1 DEF Legs
<1>6. TaskInv'
  BY <1>1, <1>2, <1>3, <1>5 DEF IInv, TaskInv
<1> QED  BY <1>1, <1>2, <1>3, <1>4, <1>6, ExecTyped, ExecKept

\* refresh ends: nothing has changed, or the call goes, or Android is told.
LEMMA DecideFacts ==
  ASSUME IInv, Decide
  PROVE  LET g == task.gen IN
         /\ step = "decide" /\ g \in Gen /\ todo = {}
         /\ \/ Done /\ leg' = leg /\ \A f \in Legs(g) : fresh[f] = leg[g][f].read
            \/ step' = "invalidate" /\ UNCHANGED <<task, todo, fresh, leg>>
            \/ /\ step' = "show" /\ UNCHANGED <<task, todo, fresh>>
               /\ leg' \in [Gen -> [Fam -> LegRec]]
               /\ \A h \in Gen, f \in Fam : ~(h = g /\ f \in Legs(g)) => leg'[h][f] = leg[h][f]
               /\ \A f \in Legs(g) : LET l == leg[g][f]  m == leg'[g][f] IN
                    /\ m.open /\ m.cid = l.cid /\ m.up = l.up /\ m.val = l.val /\ m.read = fresh[f]
                    /\ m.published = l.published /\ m.ended = l.ended /\ m.inds = l.inds /\ m.cb = l.cb
                    /\ m.reconfig = l.reconfig
<1> DEFINE g == task.gen
           new == [f \in Fam |-> IF f \in Legs(g) THEN [leg[g][f] EXCEPT !.read = fresh[f]] ELSE leg[g][f]]
<1>1. step = "decide" /\ g \in Gen /\ todo = {}
  BY DEF Decide, IInv, TaskInv
<1>2. \/ Done /\ leg' = leg /\ \A f \in Legs(g) : fresh[f] = leg[g][f].read
      \/ step' = "invalidate" /\ UNCHANGED <<task, todo, fresh, leg>>
      \/ step' = "show" /\ UNCHANGED <<task, todo, fresh>> /\ leg' = [leg EXCEPT ![g] = new]
  BY DEF Decide, Go
<1>3. CASE step' = "show" /\ UNCHANGED <<task, todo, fresh>> /\ leg' = [leg EXCEPT ![g] = new]
  <2>1. ASSUME NEW f \in Fam
        PROVE  /\ leg[g][f] \in LegRec /\ fresh[f] \in 0..MaxModem
               /\ new[f] = IF f \in Legs(g) THEN [leg[g][f] EXCEPT !.read = fresh[f]] ELSE leg[g][f]
    BY <1>1, LegTyped, ExecTyped DEF IInv
  <2>2. ASSUME NEW f \in Legs(g)
        PROVE  LET l == leg[g][f]  m == new[f] IN
               /\ m \in LegRec /\ m.open /\ m.cid = l.cid /\ m.up = l.up /\ m.val = l.val /\ m.read = fresh[f]
               /\ m.published = l.published /\ m.ended = l.ended /\ m.inds = l.inds /\ m.cb = l.cb
               /\ m.reconfig = l.reconfig
    <3> DEFINE l == leg[g][f]  m == [l EXCEPT !.read = fresh[f]]
    <3>1. f \in Fam /\ l \in LegRec /\ l.open /\ fresh[f] \in 0..MaxModem /\ new[f] = m
      BY <2>1, <2>2 DEF Legs
    <3>2. /\ m \in LegRec /\ m.open = l.open /\ m.cid = l.cid /\ m.up = l.up /\ m.val = l.val /\ m.read = fresh[f]
          /\ m.published = l.published /\ m.ended = l.ended /\ m.inds = l.inds /\ m.cb = l.cb
          /\ m.reconfig = l.reconfig
      BY <3>1 DEF LegRec
    <3> HIDE DEF l, m, new
    <3>3. m.open
      BY <3>1, <3>2
    <3> QED  BY <3>1, <3>2, <3>3 DEF l
  <2>3. \A f \in Fam : f \notin Legs(g) => new[f] = leg[g][f]
    BY <2>1
  <2>4. new \in [Fam -> LegRec]
    <3>1. \A f \in Fam : new[f] \in LegRec
      BY <2>1, <2>2, <2>3
    <3> QED  BY <3>1
  <2> HIDE DEF new
  <2>5. leg' \in [Gen -> [Fam -> LegRec]] /\ leg'[g] = new /\ \A h \in Gen : h # g => leg'[h] = leg[h]
    BY <1>1, <1>3, <2>4, ExecTyped
  <2>6. \A h \in Gen, f \in Fam : ~(h = g /\ f \in Legs(g)) => leg'[h][f] = leg[h][f]
    BY <2>3, <2>5
  <2> QED  BY <1>1, <1>3, <2>2, <2>5, <2>6
<1> QED  BY <1>1, <1>2, <1>3

\* After the last one the call is kept or given up.
LEMMA DecideStep ==
  ASSUME IInv, Decide, UNCHANGED <<RestVars, execQ, workQ>>
  PROVE  IInv'
<1> DEFINE g == task.gen
<1>1. step = "decide" /\ g \in Gen /\ todo = {} /\ UNCHANGED <<calls, links, nextGen, format, base>>
  BY DecideFacts DEF Decide
<1>2. ~InSetup /\ ~Late
  BY <1>1 DEF InSetup, SetupSteps, Late
<1>3. CASE Done /\ leg' = leg
  BY <1>1, <1>2, <1>3, DoneFacts, ExecTyped, Move
<1>4. CASE step' = "invalidate" /\ UNCHANGED <<task, todo, fresh, leg>>
  <2>1. ~InSetup' /\ step' \in Steps
    BY <1>4 DEF InSetup, SetupSteps, Steps
  <2>2. TaskInv'
    BY <1>1, <1>4, <2>1 DEF IInv, TaskInv
  <2> QED  BY <1>1, <1>2, <1>4, <2>1, <2>2, ExecTyped, Move
<1>5. CASE /\ step' = "show" /\ UNCHANGED <<task, todo, fresh>>
           /\ leg' \in [Gen -> [Fam -> LegRec]]
           /\ \A h \in Gen, f \in Fam : ~(h = g /\ f \in Legs(g)) => leg'[h][f] = leg[h][f]
           /\ \A f \in Legs(g) : LET l == leg[g][f]  m == leg'[g][f] IN
                /\ m.open /\ m.cid = l.cid /\ m.up = l.up /\ m.val = l.val /\ m.read = fresh[f]
                /\ m.published = l.published /\ m.ended = l.ended /\ m.inds = l.inds /\ m.cb = l.cb
  <2>1. ~InSetup' /\ ~Late' /\ step' \in Steps /\ step' # "link"
    BY <1>5 DEF InSetup, SetupSteps, Steps, Late
  <2>2. TaskInv'
    BY <1>1, <1>5, <2>1 DEF IInv, TaskInv
  <2>3. \A h \in Gen, f \in Fam : LegKept(leg[h][f], leg'[h][f])
    <3> TAKE h \in Gen, f \in Fam
    <3>1. leg[h][f].val <= modem /\ (leg[h][f].cb = "down" => leg[h][f].ended) /\ modem' = modem
      BY DEF IInv, LegInv, RestVars
    <3>2. CASE h = g /\ f \in Legs(g)
      <4>1. leg[g][f].open
        BY <3>2 DEF Legs
      <4> QED  BY <1>5, <3>1, <3>2, <4>1 DEF LegKept
    <3>3. CASE ~(h = g /\ f \in Legs(g))
      BY <1>5, <3>1, <3>3 DEF LegKept
    <3> QED  BY <3>2, <3>3
  <2> QED  BY <1>1, <1>2, <1>5, <2>1, <2>2, <2>3, ExecTyped, ExecKept
<1> QED  BY <1>3, <1>4, <1>5, DecideFacts

-----------------------------------------------------------------------------
(* The executor in a setup *)

\* The setup in progress is about a call that is not in the list.
LEMMA InSetupFacts ==
  ASSUME IInv, InSetup
  PROVE  /\ task.cid \in Cid /\ task.gen \in Gen /\ task.gen = nextGen /\ nextGen \in Nat /\ calls[task.cid] = 0
         /\ \A c \in Cid : calls[c] # task.gen
         /\ ~Late => links \ {task.cid} = links
         /\ links \ {task.cid} = {c \in Cid : calls[c] # 0}
         /\ Legs(task.gen) \in SUBSET Fam /\ TypeOK
<1>1. /\ task.cid \in Cid /\ task.gen = nextGen /\ nextGen > 0 /\ calls[task.cid] = 0
      /\ \A c \in Cid : calls[c] # task.gen
  BY DEF IInv, TaskInv
<1>2. task.gen \in Gen /\ nextGen \in Nat
  BY <1>1, ExecTyped, ConstantsAssumption DEF Gen
<1>3. links = {c \in Cid : calls[c] # 0 \/ (Late /\ c = task.cid)}
  BY DEF IInv, LinksInv, Late
<1>4. links \ {task.cid} = {c \in Cid : calls[c] # 0}
  BY <1>1, <1>3
<1>5. ~Late => links \ {task.cid} = links
  BY <1>1, <1>3
<1> QED  BY <1>1, <1>2, <1>4, <1>5 DEF Legs, IInv

\* A leg of the setup, as IInv wants it.
SetupLeg(l) ==
  /\ ~l.open => ~l.up /\ l.inds = <<>> /\ l.cb = "idle"
  /\ l.cb = "down" => l.ended
  /\ l.val <= modem
  /\ l.open => l.cid = task.cid

\* Its legs are its own.
LEMMA SetupLegs ==
  ASSUME IInv, InSetup, NEW f \in Fam
  PROVE  SetupLeg(leg[task.gen][f])
<1>1. task.gen \in Gen /\ task.cid \in Cid
  BY InSetupFacts
<1>2. Owner(task.cid, task.gen)
  BY DEF Owner
<1> QED  BY <1>1, <1>2 DEF IInv, LegInv, SetupLeg

\* The setup goes on: its own legs may change, and its link.
LEMMA SetupGoesOn ==
  ASSUME IInv, InSetup, InSetup', UNCHANGED <<RestVars, execQ, workQ, calls, nextGen, format, base, task, fresh>>,
         step' \in Steps, todo' \in SUBSET Fam, links' \in SUBSET Cid, LinksInv',
         leg' \in [Gen -> [Fam -> LegRec]],
         \A h \in Gen, f \in Fam : h # task.gen => leg'[h][f] = leg[h][f],
         \A f \in Fam : SetupLeg(leg'[task.gen][f]),
         \A f \in Unborn' : ~leg'[task.gen][f].open /\ ~leg'[task.gen][f].ended,
         step' \in {"link", "check", "publish", "insert"} => \E f \in Fam : leg'[task.gen][f].open,
         step' = "settings" => todo' # {}
  PROVE  IInv'
<1> DEFINE g == task.gen
<1>1. /\ task.cid \in Cid /\ g \in Gen /\ g = nextGen /\ calls[task.cid] = 0 /\ \A c \in Cid : calls[c] # g
  BY InSetupFacts
<1>2. TypeOK'
  BY ExecTyped DEF IInv, TypeOK, RestVars, coreVars
<1>3. QueueInv'
  BY DEF IInv, QueueInv
<1>4. TaskInv'
  <2>1. step' \notin {"hide", "show", "refresh", "decide", "invalidate"}
    BY DEF InSetup, SetupSteps
  <2>2. nextGen > 0
    BY DEF IInv, TaskInv
  <2> QED  BY <1>1, <2>1, <2>2 DEF TaskInv
<1>5. CallsInv'
  BY DEF IInv, CallsInv
<1>6. LegsInv'
  <2>1. ASSUME NEW h \in Gen, h # g
        PROVE  Legs(h)' # {} <=> \E c \in Cid : calls'[c] = h
    <3>1. Legs(h)' = Legs(h)
      BY <2>1 DEF Legs
    <3>2. Legs(h) # {} <=> \E c \in Cid : calls[c] = h
      BY <2>1 DEF IInv, LegsInv
    <3> QED  BY <3>1, <3>2
  <2>2. step' \in {"link", "check", "publish", "insert"} => Legs(task.gen)' # {}
    BY DEF Legs
  <2> QED  BY <2>1, <2>2 DEF LegsInv
<1>7. LegInv'
  <2> SUFFICES ASSUME NEW h \in Gen, NEW f \in Fam
               PROVE  LET l == leg'[h][f] IN
                      /\ ~l.open => ~l.up /\ l.inds = <<>> /\ l.cb = "idle"
                      /\ l.cb = "down" => l.ended
                      /\ l.val <= modem'
                      /\ l.open => l.cid \in Cid
                      /\ h > nextGen' => ~l.open /\ ~l.ended
                      /\ (InSetup /\ h = task.gen /\ f \in Unborn)' => ~l.open /\ ~l.ended
                      /\ \A c \in Cid : l.open /\ Owner(c, h)' => l.cid = c
    BY DEF LegInv
  <2>1. modem' = modem /\ nextGen' = nextGen /\ task' = task
    BY DEF RestVars
  <2>2. CASE h = g
    <3>1. SetupLeg(leg'[h][f])
      BY <2>2
    <3>2. ~(h > nextGen')
      BY <1>1, <2>1, <2>2, ExecTyped
    <3>3. \A c \in Cid : Owner(c, h)' => c = task.cid
      BY <1>1, <2>2 DEF Owner
    <3>4. (InSetup /\ h = task.gen /\ f \in Unborn)' => ~leg'[h][f].open /\ ~leg'[h][f].ended
      BY <2>2
    <3> QED  BY <1>1, <2>1, <3>1, <3>2, <3>3, <3>4 DEF SetupLeg
  <2>3. CASE h # g
    <3>1. leg'[h][f] = leg[h][f]
      BY <2>3
    <3>2. \A c \in Cid : Owner(c, h)' => Owner(c, h)
      BY <2>3 DEF Owner
    <3>3. ~(h = task.gen)'
      BY <2>1, <2>3
    <3> QED  BY <2>1, <3>1, <3>2, <3>3 DEF IInv, LegInv
  <2> QED  BY <2>2, <2>3
<1> QED  BY <1>2, <1>3, <1>4, <1>5, <1>6, <1>7 DEF IInv

\* The setup fails: nothing of it is left.
LEMMA SetupGivesUp ==
  ASSUME IInv, InSetup, Done, UNCHANGED <<RestVars, execQ, workQ, calls, nextGen, format, base>>,
         links' = links \ {task.cid},
         leg' \in [Gen -> [Fam -> LegRec]],
         \A h \in Gen, f \in Fam : h # task.gen => leg'[h][f] = leg[h][f],
         \A f \in Fam : leg'[task.gen][f] = IF leg[task.gen][f].open THEN Closed(leg[task.gen][f].ended)
                                            ELSE leg[task.gen][f]
  PROVE  IInv'
<1> DEFINE g == task.gen
<1>1. /\ task.cid \in Cid /\ g \in Gen /\ g = nextGen /\ calls[task.cid] = 0 /\ \A c \in Cid : calls[c] # g
      /\ links' = {c \in Cid : calls[c] # 0} /\ nextGen \in Nat
  BY InSetupFacts
<1>2. /\ step' = "idle" /\ step' \in Steps /\ task' \in Tasks /\ todo' \in SUBSET Fam
      /\ fresh' \in [Fam -> 0..MaxModem] /\ ~InSetup' /\ ~Late' /\ TaskInv'
  BY DoneFacts
<1>3. TypeOK'
  BY <1>1, <1>2, ExecTyped DEF IInv, TypeOK, RestVars, coreVars
<1>4. QueueInv'
  BY DEF IInv, QueueInv
<1>5. CallsInv' /\ LinksInv'
  BY <1>1, <1>2 DEF IInv, CallsInv, LinksInv, Late
<1>6. ASSUME NEW f \in Fam
      PROVE  ~leg'[g][f].open /\ SetupLeg(leg'[g][f])
  <2> DEFINE l == leg[g][f]
  <2>1. SetupLeg(l) /\ l.ended \in BOOLEAN /\ modem \in Nat
    BY <1>1, SetupLegs, LegTyped, ExecTyped DEF IInv
  <2>2. leg'[g][f] = IF l.open THEN Closed(l.ended) ELSE l
    OBVIOUS
  <2>3. /\ ~Closed(l.ended).open /\ ~Closed(l.ended).up /\ Closed(l.ended).ended = l.ended
        /\ Closed(l.ended).val = 0 /\ Closed(l.ended).inds = <<>> /\ Closed(l.ended).cb = "idle"
    BY <2>1, ClosedLeg
  <2> HIDE DEF l
  <2>4. CASE l.open
    <3>1. Closed(l.ended).val <= modem
      BY <2>1, <2>3
    <3> QED  BY <2>2, <2>3, <2>4, <3>1 DEF SetupLeg
  <2>5. CASE ~l.open
    BY <2>1, <2>2, <2>5
  <2> QED  BY <2>4, <2>5
<1>7. LegsInv'
  <2> SUFFICES ASSUME NEW h \in Gen
               PROVE  Legs(h)' # {} <=> \E c \in Cid : calls'[c] = h
    BY <1>2 DEF LegsInv, InSetup, SetupSteps
  <2>1. CASE h = g
    BY <1>1, <1>6, <2>1 DEF Legs
  <2>2. CASE h # g
    <3>1. Legs(h)' = Legs(h)
      BY <2>2 DEF Legs
    <3>2. Legs(h) # {} <=> \E c \in Cid : calls[c] = h
      BY <2>2 DEF IInv, LegsInv
    <3> QED  BY <3>1, <3>2
  <2> QED  BY <2>1, <2>2
<1>8. LegInv'
  <2> SUFFICES ASSUME NEW h \in Gen, NEW f \in Fam
               PROVE  LET l == leg'[h][f] IN
                      /\ ~l.open => ~l.up /\ l.inds = <<>> /\ l.cb = "idle"
                      /\ l.cb = "down" => l.ended
                      /\ l.val <= modem
                      /\ l.open => l.cid \in Cid
                      /\ h > nextGen => ~l.open /\ ~l.ended
                      /\ \A c \in Cid : l.open /\ calls[c] = h => l.cid = c
    BY <1>2 DEF LegInv, Owner, RestVars
  <2>1. CASE h = g
    <3>1. ~leg'[h][f].open /\ SetupLeg(leg'[h][f])
      BY <1>6, <2>1
    <3>2. ~(h > nextGen)
      BY <1>1, <2>1
    <3> QED  BY <3>1, <3>2 DEF SetupLeg
  <2>2. CASE h # g
    <3>1. leg'[h][f] = leg[h][f]
      BY <2>2
    <3>2. \A c \in Cid : calls[c] = h => Owner(c, h)
      BY DEF Owner
    <3> QED  BY <3>1, <3>2 DEF IInv, LegInv
  <2> QED  BY <2>1, <2>2
<1> QED  BY <1>2, <1>3, <1>4, <1>5, <1>7, <1>8 DEF IInv

\* stopEntry for the setup.
LEMMA StopEntryFacts ==
  ASSUME IInv, InSetup, stopEntry(task.cid, task.gen)
  PROVE  /\ links' = links \ {task.cid} /\ leg' \in [Gen -> [Fam -> LegRec]]
         /\ \A h \in Gen, f \in Fam : h # task.gen => leg'[h][f] = leg[h][f]
         /\ \A f \in Fam : leg'[task.gen][f] = IF leg[task.gen][f].open THEN Closed(leg[task.gen][f].ended)
                                               ELSE leg[task.gen][f]
<1>1. links' = links \ {task.cid} /\ StopLegs(task.gen, Legs(task.gen))
  BY DEF stopEntry
<1>2. task.gen \in Gen /\ Legs(task.gen) \in SUBSET Fam /\ TypeOK
  BY InSetupFacts
<1>3. /\ leg' \in [Gen -> [Fam -> LegRec]]
      /\ \A h \in Gen, f \in Fam :
           leg'[h][f] = IF h = task.gen /\ f \in Legs(task.gen) THEN Closed(leg[h][f].ended) ELSE leg[h][f]
  BY <1>1, <1>2, StopLegsFacts
<1>4. \A f \in Fam : f \in Legs(task.gen) <=> leg[task.gen][f].open
  BY DEF Legs
<1> QED  BY <1>1, <1>2, <1>3, <1>4

\* A setup begins with a free mux id and the next generation.
LEMMA BeginStep ==
  ASSUME IInv, SetupBegins, UNCHANGED <<RestVars, execQ, workQ>>
  PROVE  IInv'
<1> DEFINE free == {c \in Cid : calls[c] = 0}  new == nextGen + 1
<1>1. /\ step = "ask" /\ nextGen < MaxGen /\ UNCHANGED <<calls, links, leg, base>>
      /\ \/ Done /\ UNCHANGED <<nextGen, format>>
         \/ /\ format' = IF format = 0 THEN epoch ELSE format
            /\ IF free = {} THEN Done /\ UNCHANGED nextGen
               ELSE /\ nextGen' = new /\ task' = [task EXCEPT !.cid = Least(free), !.gen = new]
                    /\ todo' = task.fams /\ step' = "start" /\ UNCHANGED fresh
  BY DEF SetupBegins
<1>2. ~InSetup /\ ~Late
  BY <1>1 DEF InSetup, SetupSteps, Late
<1>3. format' \in 0..epoch
  BY <1>1, ExecTyped
<1>4. CASE Done /\ UNCHANGED nextGen
  BY <1>1, <1>2, <1>3, <1>4, DoneFacts, ExecTyped, Move
<1>5. CASE /\ free # {} /\ nextGen' = new /\ task' = [task EXCEPT !.cid = Least(free), !.gen = new]
           /\ todo' = task.fams /\ step' = "start" /\ UNCHANGED fresh
  <2>1. Least(free) \in Cid /\ calls[Least(free)] = 0
    <3>1. free \in SUBSET Nat
      BY ConstantsAssumption
    <3>2. Least(free) \in free
      BY <1>5, <3>1, LeastIsMember
    <3> QED  BY <3>2
  <2> HIDE DEF free
  <2>2. new \in Gen /\ new \in 0..MaxGen /\ nextGen \in Nat /\ new > nextGen /\ new > 0
    BY <1>1, ExecTyped, ConstantsAssumption DEF Gen
  <2>3. /\ task' \in Tasks /\ task'.cid = Least(free) /\ task'.gen = new /\ todo' \in SUBSET Fam
    BY <1>5, <2>1, <2>2, ExecTyped DEF Tasks
  <2>4. InSetup' /\ step' \in Steps /\ step' = "start"
    BY <1>5 DEF InSetup, SetupSteps, Steps
  <2>5. TypeOK'
    BY <1>1, <1>3, <1>5, <2>2, <2>3, <2>4, ExecTyped DEF IInv, TypeOK, RestVars, coreVars
  <2>6. QueueInv'
    BY DEF IInv, QueueInv
  <2>7. \A c \in Cid : calls[c] <= nextGen /\ calls[c] \in Nat
    BY ExecTyped DEF IInv, CallsInv, Gen
  <2>8. \A c \in Cid : calls'[c] # new
    BY <1>1, <2>2, <2>7
  <2>9. TaskInv'
    BY <1>1, <1>5, <2>1, <2>2, <2>3, <2>4, <2>8 DEF TaskInv
  <2>10. CallsInv'
    <3>1. \A c \in Cid : calls'[c] <= nextGen'
      BY <1>1, <1>5, <2>2, <2>7
    <3> QED  BY <1>1, <3>1 DEF IInv, CallsInv
  <2>11. LinksInv'
    BY <1>1, <1>2, <2>4 DEF IInv, LinksInv, Late
  <2>12. LegsInv'
    BY <1>1, <1>2, <2>4 DEF IInv, LegsInv, Legs
  <2>13. LegInv'
    <3> SUFFICES ASSUME NEW h \in Gen, NEW f \in Fam
                 PROVE  LET l == leg[h][f] IN
                        /\ ~l.open => ~l.up /\ l.inds = <<>> /\ l.cb = "idle"
                        /\ l.cb = "down" => l.ended
                        /\ l.val <= modem
                        /\ l.open => l.cid \in Cid
                        /\ h > new => ~l.open /\ ~l.ended
                        /\ h = new => ~l.open /\ ~l.ended
                        /\ \A c \in Cid : l.open /\ (calls[c] = h \/ h = new) => l.cid = c
      BY <1>1, <1>5, <2>3 DEF LegInv, Owner, RestVars
    <3> DEFINE l == leg[h][f]
    <3>1. /\ ~l.open => ~l.up /\ l.inds = <<>> /\ l.cb = "idle"
          /\ l.cb = "down" => l.ended
          /\ l.val <= modem
          /\ l.open => l.cid \in Cid
          /\ h > nextGen => ~l.open /\ ~l.ended
          /\ \A c \in Cid : l.open /\ calls[c] = h => l.cid = c
      BY DEF IInv, LegInv, Owner
    <3>2. /\ h > new => h > nextGen
          /\ h = new => h > nextGen
      BY <2>2 DEF Gen
    <3> HIDE DEF l, new
    <3> QED  BY <3>1, <3>2 DEF l
  <2> QED  BY <2>5, <2>6, <2>9, <2>10, <2>11, <2>12, <2>13 DEF IInv
<1> QED  BY <1>1, <1>4, <1>5

\* startLeg: one leg more is tried, or the legs are done.
LEMMA StartFacts ==
  ASSUME IInv, StartLeg
  PROVE  LET g == task.gen  f == Least(todo) IN
         /\ step = "start" /\ InSetup /\ ~Late /\ g \in Gen
         /\ \/ todo = {} /\ Legs(g) = {} /\ Done /\ leg' = leg
            \/ todo = {} /\ Legs(g) # {} /\ Go("link") /\ leg' = leg
            \/ f \in todo /\ todo' = todo \ {f} /\ UNCHANGED <<step, task, fresh, leg>>
            \/ /\ f \in todo /\ Go("settings") /\ leg' \in [Gen -> [Fam -> LegRec]]
               /\ \A h \in Gen, e \in Fam : ~(h = g /\ e = f) => leg'[h][e] = leg[h][e]
               /\ LET m == leg'[g][f] IN
                  /\ m.open /\ m.up /\ m.cid = task.cid /\ ~m.ended /\ m.cb = "idle"
                  /\ m.val = 0 /\ m.read = 0 /\ m.inds = <<>> /\ ~m.reconfig
<1> DEFINE g == task.gen  f == Least(todo)
           new == [NoLeg EXCEPT !.open = TRUE, !.up = TRUE, !.cid = task.cid]
<1>1. step = "start" /\ InSetup /\ ~Late
  BY DEF StartLeg, InSetup, SetupSteps, Late
<1>2. g \in Gen /\ task.cid \in Cid
  BY <1>1, InSetupFacts
<1>3. CASE todo = {}
  BY <1>1, <1>2, <1>3 DEF StartLeg
<1>4. CASE todo # {}
  <2>1. f \in todo
    BY <1>4, LeastIsMember, ExecTyped, ConstantsAssumption
  <2>2. f \in Fam
    BY <2>1, ExecTyped
  <2>3. \/ todo' = todo \ {f} /\ UNCHANGED <<step, task, fresh, leg>>
        \/ leg' = [leg EXCEPT ![g][f] = new] /\ Go("settings")
    BY <1>4 DEF StartLeg
  <2> HIDE DEF f
  <2>4. CASE leg' = [leg EXCEPT ![g][f] = new] /\ Go("settings")
    <3>1. /\ new \in LegRec /\ new.open /\ new.up /\ new.cid = task.cid
          /\ new.ended = NoLeg.ended /\ new.cb = NoLeg.cb /\ new.val = NoLeg.val /\ new.read = NoLeg.read
          /\ new.inds = NoLeg.inds /\ new.reconfig = NoLeg.reconfig
      <4>1. NoLeg \in LegRec /\ task.cid \in Cid \cup {0}
        BY <1>2, ClosedLeg
      <4> QED  BY <4>1 DEF LegRec
    <3> HIDE DEF new
    <3>2. /\ leg' \in [Gen -> [Fam -> LegRec]] /\ leg'[g][f] = new
          /\ \A h \in Gen, e \in Fam : ~(h = g /\ e = f) => leg'[h][e] = leg[h][e]
      BY <1>2, <2>2, <2>4, <3>1, ExecTyped
    <3> QED  BY <1>1, <1>2, <2>1, <2>4, <3>1, <3>2, ClosedLeg DEF f
  <2> QED  BY <1>1, <1>2, <2>1, <2>3, <2>4 DEF f
<1> QED  BY <1>3, <1>4

\* A family starts, or ends the setup if none has.
LEMMA StartStep ==
  ASSUME IInv, StartLeg, UNCHANGED <<RestVars, execQ, workQ>>
  PROVE  IInv'
<1> DEFINE g == task.gen  f == Least(todo)
<1>1. /\ step = "start" /\ InSetup /\ ~Late /\ g \in Gen /\ UNCHANGED <<calls, links, nextGen, format, base>>
  BY StartFacts DEF StartLeg
<1>2. /\ links \ {task.cid} = links /\ links = {c \in Cid : calls[c] # 0} /\ links \in SUBSET Cid
  BY <1>1, InSetupFacts, ExecTyped
<1>3. \A e \in todo : ~leg[g][e].open /\ ~leg[g][e].ended
  BY <1>1, ExecTyped DEF IInv, LegInv, Unborn
<1>4. CASE todo = {} /\ Legs(g) = {} /\ Done /\ leg' = leg
  <2>1. \A e \in Fam : ~leg[g][e].open
    BY <1>4 DEF Legs
  <2> QED  BY <1>1, <1>2, <1>4, <2>1, ExecTyped, SetupGivesUp
<1>5. CASE todo = {} /\ Legs(g) # {} /\ Go("link") /\ leg' = leg
  <2>1. step' = "link" /\ step' \in Steps /\ InSetup' /\ Unborn' = {} /\ UNCHANGED <<task, todo, fresh>>
    BY <1>5 DEF Go, Steps, InSetup, SetupSteps, Unborn
  <2>2. LinksInv'
    BY <1>1, <1>2, <2>1 DEF LinksInv
  <2>3. \A e \in Fam : SetupLeg(leg'[g][e])
    BY <1>1, <1>5, SetupLegs
  <2>4. \E e \in Fam : leg'[g][e].open
    BY <1>5 DEF Legs
  <2> QED  BY <1>1, <1>2, <1>5, <2>1, <2>2, <2>3, <2>4, ExecTyped, SetupGoesOn
<1>6. CASE f \in todo /\ todo' = todo \ {f} /\ UNCHANGED <<step, task, fresh, leg>>
  <2>1. step' = "start" /\ step' \in Steps /\ InSetup' /\ Unborn' = todo' /\ todo' \in SUBSET Fam
    BY <1>1, <1>6, ExecTyped DEF Steps, InSetup, SetupSteps, Unborn
  <2>2. LinksInv'
    BY <1>1, <1>2, <2>1 DEF LinksInv
  <2>3. \A e \in Fam : SetupLeg(leg'[g][e])
    BY <1>1, <1>6, SetupLegs
  <2>4. \A e \in Unborn' : ~leg'[g][e].open /\ ~leg'[g][e].ended
    BY <1>3, <1>6, <2>1
  <2> QED  BY <1>1, <1>2, <1>6, <2>1, <2>2, <2>3, <2>4, ExecTyped, SetupGoesOn
<1>7. CASE /\ f \in todo /\ Go("settings") /\ leg' \in [Gen -> [Fam -> LegRec]]
           /\ \A h \in Gen, e \in Fam : ~(h = g /\ e = f) => leg'[h][e] = leg[h][e]
           /\ LET m == leg'[g][f] IN
              /\ m.open /\ m.up /\ m.cid = task.cid /\ ~m.ended /\ m.cb = "idle"
              /\ m.val = 0 /\ m.read = 0 /\ m.inds = <<>> /\ ~m.reconfig
  <2>1. /\ step' = "settings" /\ step' \in Steps /\ InSetup' /\ Unborn' = todo \ {f}
        /\ UNCHANGED <<task, todo, fresh>> /\ todo # {}
    BY <1>7 DEF Go, Steps, InSetup, SetupSteps, Unborn
  <2> HIDE DEF f
  <2>2. LinksInv'
    BY <1>1, <1>2, <2>1 DEF LinksInv
  <2>3. \A e \in Fam : SetupLeg(leg'[g][e])
    <3> TAKE e \in Fam
    <3>1. SetupLeg(leg[g][e]) /\ modem \in Nat
      BY <1>1, SetupLegs, ExecTyped
    <3>2. CASE e = f
      BY <1>7, <3>1, <3>2 DEF SetupLeg
    <3>3. CASE e # f
      BY <1>1, <1>7, <3>1, <3>3
    <3> QED  BY <3>2, <3>3
  <2>4. \A e \in Unborn' : ~leg'[g][e].open /\ ~leg'[g][e].ended
    BY <1>1, <1>3, <1>7, <2>1, ExecTyped
  <2>5. \A h \in Gen, e \in Fam : h # g => leg'[h][e] = leg[h][e]
    BY <1>7
  <2> QED  BY <1>1, <1>2, <1>7, <2>1, <2>2, <2>3, <2>4, <2>5, ExecTyped, SetupGoesOn
<1> QED  BY <1>4, <1>5, <1>6, <1>7, StartFacts

\* The first read of a leg's settings, or the leg is stopped.
LEMMA SettingsFacts ==
  ASSUME IInv, Settings
  PROVE  LET g == task.gen  f == Least(todo)  l == leg[g][f]  m == leg'[g][f] IN
         /\ step = "settings" /\ step' = "start" /\ InSetup /\ ~Late /\ g \in Gen
         /\ f \in todo /\ f \in Fam /\ todo' = todo \ {f} /\ UNCHANGED <<task, fresh>>
         /\ leg' \in [Gen -> [Fam -> LegRec]]
         /\ \A h \in Gen, e \in Fam : ~(h = g /\ e = f) => leg'[h][e] = leg[h][e]
         /\ \/ /\ m.open = l.open /\ m.cid = l.cid /\ m.up = l.up /\ m.val = l.val /\ m.read = l.val
               /\ m.ended = l.ended /\ m.inds = l.inds /\ m.cb = l.cb /\ m.reconfig = l.reconfig
               /\ m.published = l.published
            \/ m = Closed(l.ended)
<1> DEFINE g == task.gen  f == Least(todo)  l == leg[g][f]  m == leg'[g][f]
           new == [l EXCEPT !.read = l.val]
<1>1. step = "settings" /\ step' = "start" /\ InSetup /\ ~Late
  BY DEF Settings, InSetup, SetupSteps, Late
<1>2. g \in Gen /\ todo # {} /\ todo \in SUBSET Fam
  BY <1>1, InSetupFacts, ExecTyped DEF IInv, TaskInv
<1>3. f \in todo /\ f \in Fam
  BY <1>2, LeastIsMember, ConstantsAssumption
<1>4. /\ todo' = todo \ {f} /\ UNCHANGED <<task, fresh>>
      /\ leg' = [leg EXCEPT ![g][f] = new] \/ StopLegs(g, {f})
  BY DEF Settings
<1> HIDE DEF f
<1>5. CASE leg' = [leg EXCEPT ![g][f] = new]
  <2>1. l \in LegRec /\ l.val \in 0..MaxModem
    BY <1>2, <1>3, LegTyped DEF IInv
  <2>2. /\ new \in LegRec /\ new.open = l.open /\ new.cid = l.cid /\ new.up = l.up /\ new.val = l.val
        /\ new.read = l.val /\ new.ended = l.ended /\ new.inds = l.inds /\ new.cb = l.cb
        /\ new.reconfig = l.reconfig /\ new.published = l.published
    BY <2>1 DEF LegRec
  <2> HIDE DEF new
  <2>3. /\ leg' \in [Gen -> [Fam -> LegRec]] /\ m = new
        /\ \A h \in Gen, e \in Fam : ~(h = g /\ e = f) => leg'[h][e] = leg[h][e]
    BY <1>2, <1>3, <1>5, <2>2, ExecTyped
  <2> QED  BY <1>1, <1>2, <1>3, <1>4, <2>2, <2>3 DEF f
<1>6. CASE StopLegs(g, {f})
  <2>1. {f} \in SUBSET Fam /\ TypeOK
    BY <1>3 DEF IInv
  <2>2. /\ leg' \in [Gen -> [Fam -> LegRec]]
        /\ \A h \in Gen, e \in Fam :
             leg'[h][e] = IF h = g /\ e \in {f} THEN Closed(leg[h][e].ended) ELSE leg[h][e]
    BY <1>2, <1>6, <2>1, StopLegsFacts
  <2>3. /\ m = Closed(l.ended)
        /\ \A h \in Gen, e \in Fam : ~(h = g /\ e = f) => leg'[h][e] = leg[h][e]
    BY <1>2, <1>3, <2>2
  <2> QED  BY <1>1, <1>2, <1>3, <1>4, <2>2, <2>3 DEF f
<1> QED  BY <1>4, <1>5, <1>6

\* A leg of the setup that stays, or is closed.
LEMMA ClosedSetupLeg ==
  ASSUME IInv, InSetup, NEW f \in Fam
  PROVE  SetupLeg(Closed(leg[task.gen][f].ended))
<1> DEFINE e == leg[task.gen][f].ended
<1>1. e \in BOOLEAN /\ modem \in Nat
  BY InSetupFacts, LegTyped, ExecTyped
<1> HIDE DEF e
<1>2. /\ ~Closed(e).open /\ ~Closed(e).up /\ Closed(e).val = 0 /\ Closed(e).inds = <<>> /\ Closed(e).cb = "idle"
  BY <1>1, ClosedLeg
<1>3. Closed(e).val <= modem
  BY <1>1, <1>2
<1> QED  BY <1>2, <1>3 DEF SetupLeg, e

\* A family has its settings, or the setup is given up.
LEMMA SettingsStep ==
  ASSUME IInv, Settings, UNCHANGED <<RestVars, execQ, workQ>>
  PROVE  IInv'
<1> DEFINE g == task.gen  f == Least(todo)  l == leg[g][f]  m == leg'[g][f]
<1>1. /\ step = "settings" /\ step' = "start" /\ InSetup /\ ~Late /\ g \in Gen
      /\ f \in todo /\ f \in Fam /\ todo' = todo \ {f} /\ UNCHANGED <<task, fresh>>
      /\ leg' \in [Gen -> [Fam -> LegRec]]
      /\ \A h \in Gen, e \in Fam : ~(h = g /\ e = f) => leg'[h][e] = leg[h][e]
      /\ \/ /\ m.open = l.open /\ m.cid = l.cid /\ m.up = l.up /\ m.val = l.val
            /\ m.ended = l.ended /\ m.inds = l.inds /\ m.cb = l.cb
         \/ m = Closed(l.ended)
  BY SettingsFacts
<1>2. UNCHANGED <<calls, links, nextGen, format, base>>
  BY DEF Settings
<1>3. /\ links \ {task.cid} = links /\ links = {c \in Cid : calls[c] # 0} /\ links \in SUBSET Cid
  BY <1>1, InSetupFacts, ExecTyped
<1>4. \A e \in todo \ {f} : ~leg[g][e].open /\ ~leg[g][e].ended
  BY <1>1, ExecTyped DEF IInv, LegInv, Unborn
<1>5. SetupLeg(l) /\ SetupLeg(Closed(l.ended))
  BY <1>1, SetupLegs, ClosedSetupLeg
<1> HIDE DEF f
<1>6. step' \in Steps /\ InSetup' /\ Unborn' = todo' /\ todo' \in SUBSET Fam
  BY <1>1, ExecTyped DEF Steps, InSetup, SetupSteps, Unborn
<1>7. LinksInv'
  BY <1>1, <1>2, <1>3 DEF LinksInv
<1>8. \A e \in Fam : SetupLeg(leg'[g][e])
  <2> TAKE e \in Fam
  <2>1. CASE e = f
    <3> HIDE DEF l, m
    <3>1. SetupLeg(m)
      BY <1>1, <1>5 DEF SetupLeg
    <3> QED  BY <2>1, <3>1 DEF m
  <2>2. CASE e # f
    BY <1>1, <2>2, SetupLegs
  <2> QED  BY <2>1, <2>2
<1>9. \A e \in Unborn' : ~leg'[g][e].open /\ ~leg'[g][e].ended
  BY <1>1, <1>4, <1>6
<1>10. \A h \in Gen, e \in Fam : h # g => leg'[h][e] = leg[h][e]
  BY <1>1
<1> QED  BY <1>1, <1>2, <1>3, <1>6, <1>7, <1>8, <1>9, <1>10, ExecTyped, SetupGoesOn

\* configureLink drops families, never all of them, or the setup fails.
LEMMA LinkFacts ==
  ASSUME IInv, Link
  PROVE  LET g == task.gen IN
         /\ step = "link" /\ InSetup /\ ~Late /\ g \in Gen
         /\ \/ stopEntry(task.cid, g) /\ Done
            \/ /\ Go("check") /\ links' = links \cup {task.cid}
               /\ leg' \in [Gen -> [Fam -> LegRec]]
               /\ \A h \in Gen, f \in Fam : h # g => leg'[h][f] = leg[h][f]
               /\ \A f \in Fam : leg'[g][f] \in {leg[g][f], Closed(leg[g][f].ended)}
               /\ \E f \in Fam : leg[g][f].open /\ leg'[g][f] = leg[g][f]
<1> DEFINE g == task.gen
<1>1. step = "link" /\ InSetup /\ ~Late
  BY DEF Link, InSetup, SetupSteps, Late
<1>2. g \in Gen /\ TypeOK
  BY <1>1, InSetupFacts
<1>3. CASE stopEntry(task.cid, g) /\ Done
  BY <1>1, <1>2, <1>3
<1>4. CASE (\E F \in SUBSET Legs(g) : F # Legs(g) /\ StopLegs(g, F)) /\ links' = links \cup {task.cid} /\ Go("check")
  <2>1. PICK F \in SUBSET Legs(g) : F # Legs(g) /\ StopLegs(g, F)
    BY <1>4
  <2>2. F \in SUBSET Fam
    BY DEF Legs
  <2>3. /\ leg' \in [Gen -> [Fam -> LegRec]]
        /\ \A h \in Gen, f \in Fam :
             leg'[h][f] = IF h = g /\ f \in F THEN Closed(leg[h][f].ended) ELSE leg[h][f]
    BY <1>2, <2>1, <2>2, StopLegsFacts
  <2>4. PICK f \in Legs(g) : f \notin F
    BY <2>1
  <2>5. f \in Fam /\ leg[g][f].open /\ leg'[g][f] = leg[g][f]
    BY <1>2, <2>3, <2>4 DEF Legs
  <2>6. \A e \in Fam : leg'[g][e] \in {leg[g][e], Closed(leg[g][e].ended)}
    BY <1>2, <2>3
  <2> QED  BY <1>1, <1>2, <1>4, <2>3, <2>5, <2>6
<1> QED  BY <1>3, <1>4 DEF Link

\* The link is made, or the legs are stopped.
LEMMA LinkStep ==
  ASSUME IInv, Link, UNCHANGED <<RestVars, execQ, workQ>>
  PROVE  IInv'
<1> DEFINE g == task.gen
<1>1. step = "link" /\ InSetup /\ ~Late /\ g \in Gen /\ UNCHANGED <<calls, nextGen, format, base>>
  BY LinkFacts DEF Link
<1>2. CASE stopEntry(task.cid, g) /\ Done
  BY <1>1, <1>2, StopEntryFacts, SetupGivesUp
<1>3. CASE /\ Go("check") /\ links' = links \cup {task.cid}
           /\ leg' \in [Gen -> [Fam -> LegRec]]
           /\ \A h \in Gen, f \in Fam : h # g => leg'[h][f] = leg[h][f]
           /\ \A f \in Fam : leg'[g][f] \in {leg[g][f], Closed(leg[g][f].ended)}
           /\ \E f \in Fam : leg[g][f].open /\ leg'[g][f] = leg[g][f]
  <2>1. step' = "check" /\ step' \in Steps /\ InSetup' /\ Unborn' = {} /\ UNCHANGED <<task, todo, fresh>>
    BY <1>3 DEF Go, Steps, InSetup, SetupSteps, Unborn
  <2>2. LinksInv' /\ links' \in SUBSET Cid
    <3>1. links = {c \in Cid : calls[c] # 0} /\ task.cid \in Cid
      BY <1>1, InSetupFacts
    <3> QED  BY <1>1, <1>3, <2>1, <3>1 DEF LinksInv
  <2>3. \A f \in Fam : SetupLeg(leg'[g][f])
    BY <1>1, <1>3, SetupLegs, ClosedSetupLeg
  <2>4. \E f \in Fam : leg'[g][f].open
    BY <1>3
  <2> QED  BY <1>1, <1>3, <2>1, <2>2, <2>3, <2>4, ExecTyped, SetupGoesOn
<1> QED  BY <1>2, <1>3, LinkFacts

\* A setup whose leg has ended takes link and legs down.
LEMMA CheckStep ==
  ASSUME IInv, Check, UNCHANGED <<RestVars, execQ, workQ>>
  PROVE  IInv'
<1> DEFINE g == task.gen
<1>1. step = "check" /\ InSetup /\ UNCHANGED <<calls, nextGen, format, base>>
  BY DEF Check, InSetup, SetupSteps
<1>2. CASE stopEntry(task.cid, g) /\ Done
  BY <1>1, <1>2, StopEntryFacts, SetupGivesUp
<1>3. CASE Go("publish") /\ UNCHANGED <<leg, links>>
  <2>1. step' = "publish" /\ step' \in Steps /\ InSetup' /\ Unborn' = {} /\ UNCHANGED <<task, todo, fresh>>
    BY <1>3 DEF Go, Steps, InSetup, SetupSteps, Unborn
  <2>2. LinksInv'
    BY <1>1, <1>3, <2>1 DEF IInv, LinksInv
  <2>3. \A f \in Fam : SetupLeg(leg'[g][f])
    BY <1>1, <1>3, SetupLegs
  <2>4. \E f \in Fam : leg'[g][f].open
    <3>1. Legs(g) # {}
      BY <1>1 DEF IInv, LegsInv
    <3> QED  BY <1>3, <3>1 DEF Legs
  <2> QED  BY <1>1, <1>3, <2>1, <2>2, <2>3, <2>4, ExecTyped, SetupGoesOn
<1> QED  BY <1>2, <1>3 DEF Check

\* Publishing marks the open legs and nothing else.
LEMMA PublishFacts ==
  ASSUME IInv, Publish
  PROVE  LET g == task.gen IN
         /\ step = "publish" /\ InSetup /\ g \in Gen /\ step' = "insert" /\ UNCHANGED <<task, todo, fresh>>
         /\ leg' \in [Gen -> [Fam -> LegRec]]
         /\ \A h \in Gen, f \in Fam : ~(h = g /\ f \in Legs(g)) => leg'[h][f] = leg[h][f]
         /\ \A f \in Legs(g) : LET l == leg[g][f]  m == leg'[g][f] IN
              /\ m.open /\ m.cid = l.cid /\ m.up = l.up /\ m.val = l.val /\ m.read = l.read
              /\ m.published /\ m.ended = l.ended /\ m.inds = l.inds /\ m.cb = l.cb /\ m.reconfig = l.reconfig
<1> DEFINE g == task.gen
           new == [f \in Fam |-> IF f \in Legs(g) THEN [leg[g][f] EXCEPT !.published = TRUE] ELSE leg[g][f]]
<1>1. step = "publish" /\ InSetup /\ step' = "insert" /\ UNCHANGED <<task, todo, fresh>>
      /\ leg' = [leg EXCEPT ![g] = new]
  BY DEF Publish, Go, InSetup, SetupSteps
<1>2. g \in Gen
  BY <1>1, InSetupFacts
<1>3. ASSUME NEW f \in Fam
      PROVE  /\ leg[g][f] \in LegRec
             /\ new[f] = IF f \in Legs(g) THEN [leg[g][f] EXCEPT !.published = TRUE] ELSE leg[g][f]
  BY <1>2, LegTyped DEF IInv
<1>4. ASSUME NEW f \in Legs(g)
      PROVE  LET l == leg[g][f]  m == new[f] IN
             /\ m \in LegRec /\ m.open /\ m.cid = l.cid /\ m.up = l.up /\ m.val = l.val /\ m.read = l.read
             /\ m.published /\ m.ended = l.ended /\ m.inds = l.inds /\ m.cb = l.cb /\ m.reconfig = l.reconfig
  <2> DEFINE l == leg[g][f]  m == [l EXCEPT !.published = TRUE]
  <2>1. f \in Fam /\ l \in LegRec /\ l.open /\ new[f] = m
    BY <1>3, <1>4 DEF Legs
  <2>2. /\ m \in LegRec /\ m.open = l.open /\ m.cid = l.cid /\ m.up = l.up /\ m.val = l.val /\ m.read = l.read
        /\ m.published /\ m.ended = l.ended /\ m.inds = l.inds /\ m.cb = l.cb /\ m.reconfig = l.reconfig
    BY <2>1 DEF LegRec
  <2> HIDE DEF l, m, new
  <2>3. m.open
    BY <2>1, <2>2
  <2> QED  BY <2>1, <2>2, <2>3 DEF l
<1>5. \A f \in Fam : f \notin Legs(g) => new[f] = leg[g][f]
  BY <1>3
<1>6. new \in [Fam -> LegRec]
  <2>1. \A f \in Fam : new[f] \in LegRec
    BY <1>3, <1>4, <1>5
  <2> QED  BY <2>1
<1> HIDE DEF new
<1>7. leg' \in [Gen -> [Fam -> LegRec]] /\ leg'[g] = new /\ \A h \in Gen : h # g => leg'[h] = leg[h]
  BY <1>1, <1>2, <1>6, ExecTyped
<1>8. \A h \in Gen, f \in Fam : ~(h = g /\ f \in Legs(g)) => leg'[h][f] = leg[h][f]
  BY <1>5, <1>7
<1> QED  BY <1>1, <1>2, <1>4, <1>7, <1>8

\* Publishing comes before the entry.
LEMMA PublishStep ==
  ASSUME IInv, Publish, UNCHANGED <<RestVars, execQ, workQ>>
  PROVE  IInv'
<1> DEFINE g == task.gen
<1>1. /\ step = "publish" /\ InSetup /\ g \in Gen /\ step' = "insert" /\ UNCHANGED <<task, todo, fresh>>
      /\ leg' \in [Gen -> [Fam -> LegRec]]
      /\ \A h \in Gen, f \in Fam : ~(h = g /\ f \in Legs(g)) => leg'[h][f] = leg[h][f]
      /\ \A f \in Legs(g) : LET l == leg[g][f]  m == leg'[g][f] IN
           /\ m.open /\ m.cid = l.cid /\ m.up = l.up /\ m.val = l.val
           /\ m.ended = l.ended /\ m.inds = l.inds /\ m.cb = l.cb
  BY PublishFacts
<1>2. UNCHANGED <<calls, links, nextGen, format, base>>
  BY DEF Publish
<1>3. step' \in Steps /\ InSetup' /\ Unborn' = {}
  BY <1>1 DEF Steps, InSetup, SetupSteps, Unborn
<1>4. LinksInv' /\ links' \in SUBSET Cid
  BY <1>1, <1>2, ExecTyped DEF IInv, LinksInv
<1>5. \A f \in Fam : SetupLeg(leg'[g][f])
  <2> TAKE f \in Fam
  <2>1. SetupLeg(leg[g][f])
    BY <1>1, SetupLegs
  <2>2. CASE f \in Legs(g)
    <3>1. leg[g][f].open
      BY <2>2 DEF Legs
    <3> QED  BY <1>1, <2>1, <2>2, <3>1 DEF SetupLeg
  <2>3. CASE f \notin Legs(g)
    BY <1>1, <2>1, <2>3
  <2> QED  BY <2>2, <2>3
<1>6. \E f \in Fam : leg'[g][f].open
  <2>1. PICK f \in Legs(g) : TRUE
    BY <1>1 DEF IInv, LegsInv
  <2> QED  BY <1>1, <2>1 DEF Legs
<1> QED  BY <1>1, <1>2, <1>3, <1>4, <1>5, <1>6, ExecTyped, SetupGoesOn

\* The call becomes one of Android's; what was flagged before is posted.
LEMMA InsertFacts ==
  ASSUME IInv, Insert
  PROVE  /\ step = "insert" /\ InSetup /\ task.cid \in Cid /\ task.gen \in Gen
         /\ step' = "show" /\ UNCHANGED <<task, todo, fresh, links, nextGen, format, leg, base>>
         /\ calls' \in [Cid -> Gen \cup {0}] /\ calls'[task.cid] = task.gen
         /\ \A c \in Cid : c # task.cid => calls'[c] = calls[c]
         /\ workQ' \in Seq(Tasks) /\ Elements(workQ') \subseteq WorkTasks
         /\ Elements(workQ') = Elements(workQ) \cup
              (IF \E f \in Legs(task.gen) : leg[task.gen][f].reconfig THEN {Reconf(task.cid, task.gen)} ELSE {})
<1>1. /\ step = "insert" /\ InSetup /\ step' = "show"
      /\ UNCHANGED <<task, todo, fresh, links, nextGen, format, leg, base>>
      /\ calls' = [calls EXCEPT ![task.cid] = task.gen]
  BY DEF Insert, Go, InSetup, SetupSteps
<1>2. task.cid \in Cid /\ task.gen \in Gen
  BY <1>1, InSetupFacts
<1>3. /\ calls' \in [Cid -> Gen \cup {0}] /\ calls'[task.cid] = task.gen
      /\ \A c \in Cid : c # task.cid => calls'[c] = calls[c]
  BY <1>1, <1>2, ExecTyped
<1>4. Reconf(task.cid, task.gen) \in WorkTasks
  BY <1>2, TaskShapes
<1>5. /\ workQ' \in Seq(Tasks) /\ Elements(workQ') \subseteq WorkTasks
      /\ Elements(workQ') = Elements(workQ) \cup
           (IF \E f \in Legs(task.gen) : leg[task.gen][f].reconfig THEN {Reconf(task.cid, task.gen)} ELSE {})
  <2>1. CASE \E f \in Legs(task.gen) : leg[task.gen][f].reconfig
    <3>1. workQ' = Append(workQ, Reconf(task.cid, task.gen))
      BY <2>1 DEF Insert
    <3> QED  BY <1>4, <2>1, <3>1, WorkGrows
  <2>2. CASE ~\E f \in Legs(task.gen) : leg[task.gen][f].reconfig
    <3>1. workQ' = workQ
      BY <2>2 DEF Insert
    <3> QED  BY <2>2, <3>1, ExecTyped
  <2> QED  BY <2>1, <2>2
<1> QED  BY <1>1, <1>2, <1>3, <1>5

\* The call is entered: link and legs are now those of an entry.
LEMMA InsertStep ==
  ASSUME IInv, Insert, UNCHANGED <<RestVars, execQ>>
  PROVE  IInv'
<1> DEFINE g == task.gen
<1>1. /\ step = "insert" /\ InSetup /\ step' = "show"
      /\ UNCHANGED <<task, todo, fresh, links, nextGen, format, leg, base>>
      /\ calls' \in [Cid -> Gen \cup {0}] /\ calls'[task.cid] = g
      /\ \A c \in Cid : c # task.cid => calls'[c] = calls[c]
      /\ workQ' \in Seq(Tasks) /\ Elements(workQ') \subseteq WorkTasks
  BY InsertFacts
<1>2. /\ task.cid \in Cid /\ g \in Gen /\ g = nextGen /\ nextGen \in Nat /\ g # 0 /\ calls[task.cid] = 0
      /\ \A c \in Cid : calls[c] # g
  BY <1>1, InSetupFacts DEF Gen
<1>3. step' \in Steps /\ ~InSetup' /\ ~Late' /\ Late
  BY <1>1 DEF Steps, InSetup, SetupSteps, Late
<1>4. TypeOK'
  BY <1>1, <1>3, ExecTyped DEF IInv, TypeOK, RestVars, coreVars
<1>5. QueueInv'
  BY <1>1 DEF IInv, QueueInv
<1>6. TaskInv'
  BY <1>1, <1>2, <1>3 DEF TaskInv
<1>7. CallsInv'
  <2>1. /\ \A c \in Cid : calls[c] <= nextGen
        /\ \A c, d \in Cid : calls[c] = calls[d] /\ calls[c] # 0 => c = d
    BY DEF IInv, CallsInv
  <2>2. \A c \in Cid : calls'[c] <= nextGen'
    <3> TAKE c \in Cid
    <3>1. CASE c = task.cid
      BY <1>1, <1>2, <3>1
    <3>2. CASE c # task.cid
      BY <1>1, <2>1, <3>2
    <3> QED  BY <3>1, <3>2
  <2>3. \A c, d \in Cid : calls'[c] = calls'[d] /\ calls'[c] # 0 => c = d
    BY <1>1, <1>2, <2>1
  <2> QED  BY <2>2, <2>3 DEF CallsInv
<1>8. LinksInv'
  <2>1. links = {c \in Cid : calls[c] # 0 \/ c = task.cid}
    BY <1>3 DEF IInv, LinksInv, Late
  <2>2. \A c \in Cid : calls'[c] # 0 <=> calls[c] # 0 \/ c = task.cid
    BY <1>1, <1>2
  <2> QED  BY <1>1, <1>3, <2>1, <2>2 DEF LinksInv, Late
<1>9. \A c \in Cid, h \in Gen : Owner(c, h)' => Owner(c, h)
  BY <1>1, <1>3 DEF Owner
<1>10. LegsInv'
  <2> SUFFICES ASSUME NEW h \in Gen
               PROVE  Legs(h) # {} <=> \E c \in Cid : calls'[c] = h
    BY <1>1, <1>3 DEF LegsInv, Legs
  <2>1. CASE h = g
    <3>1. Legs(g) # {}
      BY <1>1 DEF IInv, LegsInv
    <3> QED  BY <1>1, <1>2, <2>1, <3>1
  <2>2. CASE h # g
    <3>1. Legs(h) # {} <=> \E c \in Cid : calls[c] = h
      BY <2>2 DEF IInv, LegsInv
    <3>2. h # 0
      BY DEF Gen
    <3>3. \A c \in Cid : calls'[c] = h <=> calls[c] = h
      BY <1>1, <1>2, <2>2, <3>2
    <3> QED  BY <3>1, <3>3
  <2> QED  BY <2>1, <2>2
<1>11. LegInv'
  <2> SUFFICES ASSUME NEW h \in Gen, NEW f \in Fam
               PROVE  LET l == leg[h][f] IN
                      /\ ~l.open => ~l.up /\ l.inds = <<>> /\ l.cb = "idle"
                      /\ l.cb = "down" => l.ended
                      /\ l.val <= modem
                      /\ l.open => l.cid \in Cid
                      /\ h > nextGen => ~l.open /\ ~l.ended
                      /\ \A c \in Cid : l.open /\ Owner(c, h)' => l.cid = c
    BY <1>1, <1>3 DEF LegInv, RestVars
  <2> QED  BY <1>9 DEF IInv, LegInv
<1> QED  BY <1>4, <1>5, <1>6, <1>7, <1>8, <1>10, <1>11 DEF IInv

-----------------------------------------------------------------------------
(* The reset of the calls after a crash *)

\* modemReset drops every call, and the legs of each.
LEMMA ResetFacts ==
  ASSUME IInv, modemReset
  PROVE  /\ ~InSetup /\ step \notin {"start", "settings", "link", "check", "publish", "insert", "refresh", "decide"}
         /\ UNCHANGED <<execQ, execVars, nextGen, base, coreVars, asked, modem>>
         /\ worker' = "tell" /\ \A c \in Cid : calls'[c] = 0
         /\ workQ # <<>> /\ Head(workQ) = Reset /\ workQ' = Tail(workQ)
         /\ leg' \in [Gen -> [Fam -> LegRec]]
         /\ \A g \in Gen, f \in Fam : leg'[g][f] = IF \E c \in Cid : calls[c] = g THEN NoLeg ELSE leg[g][f]
<1> DEFINE old == {calls[c] : c \in Cid}
<1>1. /\ ~Locked /\ leg' = [g \in Gen |-> IF g \in old THEN [f \in Fam |-> NoLeg] ELSE leg[g]]
      /\ UNCHANGED <<execQ, execVars, nextGen, base, coreVars, asked, modem>>
      /\ worker' = "tell" /\ calls' = [c \in Cid |-> 0]
      /\ workQ # <<>> /\ Head(workQ) = Reset /\ workQ' = Tail(workQ)
  BY DEF modemReset
<1>2. leg \in [Gen -> [Fam -> LegRec]] /\ NoLeg \in LegRec
  BY ExecTyped, ClosedLeg
<1>3. \A g \in Gen : g \in old <=> \E c \in Cid : calls[c] = g
  OBVIOUS
<1> HIDE DEF old
<1>4. /\ leg' \in [Gen -> [Fam -> LegRec]]
      /\ \A g \in Gen, f \in Fam : leg'[g][f] = IF g \in old THEN NoLeg ELSE leg[g][f]
  BY <1>1, <1>2
<1> QED  BY <1>1, <1>3, <1>4 DEF Locked, InSetup, SetupSteps

\* No setup is in progress when it runs.
LEMMA ResetStep ==
  ASSUME IInv, modemReset
  PROVE  IInv'
<1>1. /\ ~InSetup /\ step \notin {"start", "settings", "link", "check", "publish", "insert", "refresh", "decide"}
      /\ UNCHANGED <<execQ, execVars, nextGen, base, coreVars, asked, modem>>
      /\ worker' = "tell" /\ \A c \in Cid : calls'[c] = 0
      /\ workQ # <<>> /\ workQ' = Tail(workQ)
      /\ leg' \in [Gen -> [Fam -> LegRec]]
      /\ \A g \in Gen, f \in Fam : leg'[g][f] = IF \E c \in Cid : calls[c] = g THEN NoLeg ELSE leg[g][f]
  BY ResetFacts
<1>2. workQ' \in Seq(Tasks) /\ Elements(workQ') \subseteq WorkTasks
  BY <1>1, WorkHead
<1>3. calls' = [c \in Cid |-> 0] /\ links' = {c \in links : calls[c] = 0} /\ format' = 0
  BY DEF modemReset
<1>4. TypeOK'
  <2>1. calls' \in [Cid -> Gen \cup {0}] /\ links' \in SUBSET Cid
    BY <1>3, ExecTyped
  <2>2. format' \in 0..epoch
    BY <1>3, ExecTyped
  <2> QED  BY <1>1, <1>2, <2>1, <2>2 DEF IInv, TypeOK, execVars, coreVars
<1>5. QueueInv'
  BY <1>1, <1>2 DEF IInv, QueueInv
<1>6. ~InSetup' /\ ~Late /\ ~Late'
  BY <1>1 DEF InSetup, SetupSteps, Late, execVars
<1>7. TaskInv'
  BY <1>1, <1>6 DEF IInv, TaskInv, execVars
<1>8. CallsInv'
  BY <1>1, ExecTyped DEF CallsInv
<1>9. LinksInv'
  <2>1. links = {c \in Cid : calls[c] # 0}
    BY <1>6 DEF IInv, LinksInv, Late
  <2>2. links' = {}
    BY <1>3, <2>1
  <2> QED  BY <1>1, <1>6, <2>2 DEF LinksInv, Late
<1>10. \A g \in Gen, f \in Fam : ~leg'[g][f].open
  <2> TAKE g \in Gen, f \in Fam
  <2>1. CASE \E c \in Cid : calls[c] = g
    BY <1>1, <2>1, ClosedLeg
  <2>2. CASE ~\E c \in Cid : calls[c] = g
    <3>1. Legs(g) = {}
      BY <1>1, <2>2 DEF IInv, LegsInv
    <3> QED  BY <1>1, <2>2, <3>1 DEF Legs
  <2> QED  BY <2>1, <2>2
<1>11. LegsInv'
  <2>1. \A g \in Gen : Legs(g)' = {} /\ g # 0
    BY <1>10 DEF Legs, Gen
  <2> QED  BY <1>1, <1>6, <2>1 DEF LegsInv, InSetup, SetupSteps
<1>12. LegInv'
  <2> SUFFICES ASSUME NEW g \in Gen, NEW f \in Fam
               PROVE  LET l == leg'[g][f] IN
                      /\ ~l.up /\ l.inds = <<>> /\ l.cb = "idle"
                      /\ l.val <= modem
                      /\ g > nextGen => ~l.ended
    BY <1>1, <1>6, <1>10 DEF LegInv
  <2>1. CASE leg'[g][f] = NoLeg
    <3>1. modem \in Nat
      BY ExecTyped
    <3> QED  BY <2>1, <3>1, ClosedLeg
  <2>2. CASE leg'[g][f] = leg[g][f]
    BY <1>10, <2>2 DEF IInv, LegInv
  <2> QED  BY <1>1, <2>1, <2>2
<1> QED  BY <1>4, <1>5, <1>7, <1>8, <1>9, <1>11, <1>12 DEF IInv

-----------------------------------------------------------------------------
(* The invariant, and what follows from it at once *)

\* IInv is inductive: one case per action.
LEMMA NextStep == IInv /\ [Next]_vars => IInv'
<1> SUFFICES ASSUME IInv, [Next]_vars PROVE IInv'
  OBVIOUS
<1>1. CASE \/ \E F \in SUBSET Fam \ {{}} : Ask(F)
           \/ \E c \in Cid : Deactivate(c)
           \/ Forward \/ onModemLost \/ Notice \/ Ready
  BY <1>1, SimpleSteps
<1>2. CASE Executor
  <2>1. UNCHANGED RestVars
    BY <1>2 DEF Executor, RestVars
  <2>2. CASE Take /\ UNCHANGED workQ
    BY <2>1, <2>2, TakeStep
  <2>3. CASE Work /\ UNCHANGED <<execQ, workQ>>
    BY <2>1, <2>3, BeginStep, StartStep, SettingsStep, LinkStep, CheckStep, PublishStep, AfterSteps,
       RefreshStep, DecideStep DEF Work
  <2>4. CASE Insert /\ UNCHANGED execQ
    BY <2>1, <2>4, InsertStep
  <2> QED  BY <1>2, <2>2, <2>3, <2>4 DEF Executor
<1>3. CASE modemReset
  BY <1>3, ResetStep
<1>4. CASE Crash
  BY <1>4, CrashStep
<1>5. CASE \E g \in Gen, f \in Fam : Dispatch(g, f) \/ Network(g, f)
  BY <1>5, DispatchStep, NetworkStep
<1>6. CASE UNCHANGED vars
  <2>1. UNCHANGED <<execVars, calls, nextGen, links, leg, format, base, modem, execQ, workQ, worker, ready, gone, epoch,
                    asked>>
    BY <1>6 DEF vars, coreVars
  <2>2. worker \in {"run", "tell"} /\ ready \in BOOLEAN /\ gone \in Nat /\ asked \in 0..MaxAsked
    BY DEF IInv, TypeOK
  <2> QED  BY <2>1, <2>2, ExecTyped, QueueStep
<1> QED  BY <1>1, <1>2, <1>3, <1>4, <1>5, <1>6 DEF Next, Worker

\* IInv holds throughout.
LEMMA Invariance == Spec => []IInv
BY InitHolds, NextStep, PTL DEF Spec

\* Every variable has its type.
THEOREM TypeCorrect == Spec => []TypeOK
<1>1. IInv => TypeOK
  BY DEF IInv
<1> QED  BY <1>1, Invariance, PTL

\* A setup that fails, wherever it fails, leaves no link and no leg, and no call is
\* without its link: for any mux ids, families and generations (NothingLeft).
THEOREM NothingIsLeft == Spec => []NothingLeft
<1>1. ASSUME IInv PROVE NothingLeft
  <2> SUFFICES ASSUME ~Locked
               PROVE  /\ links = {c \in Cid : calls[c] # 0}
                      /\ \A g \in Gen : Legs(g) # {} <=> \E c \in Cid : calls[c] = g
    BY DEF NothingLeft
  <2>1. ~InSetup /\ ~Late
    BY DEF Locked, InSetup, SetupSteps, Late
  <2> QED  BY <1>1, <2>1 DEF IInv, LinksInv, LegsInv, Late
<1> QED  BY <1>1, Invariance, PTL

-----------------------------------------------------------------------------
(* Who a leg belongs to *)

\* Only the executor and the reset change what the executor and the calls are at.
LEMMA Others ==
  ASSUME [Next]_vars
  PROVE  Executor \/ modemReset \/ UNCHANGED <<execVars, calls, nextGen, base>>
<1>1. CASE \E F \in SUBSET Fam \ {{}} : Ask(F)
  BY <1>1 DEF Ask
<1>2. CASE \E d \in Cid : Deactivate(d)
  BY <1>2 DEF Deactivate
<1>3. CASE Forward \/ onModemLost \/ Crash \/ Notice \/ Ready
  BY <1>3 DEF Forward, onModemLost, Crash, Notice, Ready
<1>4. CASE \E h \in Gen, f \in Fam : Dispatch(h, f) \/ Network(h, f)
  BY <1>4 DEF Dispatch, Network
<1>5. CASE UNCHANGED vars
  BY <1>5 DEF vars
<1> QED  BY <1>1, <1>2, <1>3, <1>4, <1>5 DEF Next, Worker

\* The call that goes, if one does, in deactivateIfCurrent.
LEMMA IfCurrentCalls ==
  ASSUME IInv, NEW t \in Tasks, t.cid \in Cid, deactivateIfCurrent(t)
  PROVE  /\ step' \in {"idle", "hide"} /\ ~InSetup'
         /\ \A d \in Cid : calls'[d] \in {calls[d], 0}
<1>1. CASE calls[t.cid] = t.gen
  BY <1>1, ExecTyped DEF deactivateIfCurrent, TearDown, InSetup, SetupSteps
<1>2. CASE calls[t.cid] # t.gen
  BY <1>2, DoneFacts DEF deactivateIfCurrent
<1> QED  BY <1>1, <1>2

\* A cid and a generation belong together from the setup on, and a generation that
\* belongs to no call never does again.
LEMMA OwnerMoves ==
  ASSUME IInv, [Next]_vars, NEW c \in Cid, NEW g \in Gen, Owner(c, g)'
  PROVE  Owner(c, g) \/ g > nextGen
<1>0. g # 0
  BY DEF Gen
<1>1. CASE UNCHANGED <<execVars, calls, nextGen, base>>
  BY <1>1 DEF Owner, InSetup, execVars
<1>2. CASE Executor
  <2>1. CASE Take
    <3> DEFINE t == Head(execQ)
    <3>1. t \in ExecTasks /\ t \in Tasks
      BY <2>1, TakeFacts
    <3>2. TakeSetup(t) \/ TakeDeact(t) \/ TakeLoss(t) \/ TakeReconf(t) \/ TakeLost(t)
      BY <2>1 DEF Take
    <3> HIDE DEF t
    <3>3. CASE TakeSetup(t) \/ TakeReconf(t) \/ TakeLost(t)
      <4>1. UNCHANGED calls /\ step' \in {"idle", "ask", "refresh"}
        BY <3>3 DEF TakeSetup, TakeReconf, TakeLost, Done
      <4> QED  BY <4>1 DEF Owner, InSetup, SetupSteps
    <3>4. CASE TakeDeact(t)
      <4>1. \A d \in Cid : calls'[d] \in {calls[d], 0}
        BY <3>4, ExecTyped DEF TakeDeact, TearDown
      <4>2. ~InSetup'
        BY <3>4 DEF TakeDeact, InSetup, SetupSteps
      <4> QED  BY <1>0, <4>1, <4>2 DEF Owner
    <3>5. CASE TakeLoss(t)
      <4>1. t.cid \in Cid /\ deactivateIfCurrent(t)
        BY <3>1, <3>5, TaskShapes DEF TakeLoss
      <4> QED  BY <1>0, <3>1, <4>1, IfCurrentCalls DEF Owner
    <3> QED  BY <3>2, <3>3, <3>4, <3>5
  <2>2. CASE SetupBegins
    <3>1. UNCHANGED calls /\ nextGen \in Nat
      BY <2>2, ExecTyped DEF SetupBegins
    <3>2. CASE Done
      BY <3>1, <3>2, DoneFacts DEF Owner
    <3>3. CASE task' = [task EXCEPT !.cid = Least({d \in Cid : calls[d] = 0}), !.gen = nextGen + 1]
      <4>1. task'.gen = nextGen + 1
        BY <3>3, ExecTyped DEF Tasks
      <4> QED  BY <3>1, <4>1 DEF Owner
    <3> QED  BY <2>2, <3>2, <3>3 DEF SetupBegins
  <2>3. CASE StartLeg \/ Settings \/ Link \/ Check \/ Publish
    <3>1. UNCHANGED calls /\ InSetup
      BY <2>3 DEF StartLeg, Settings, Link, Check, Publish, InSetup, SetupSteps
    <3>2. task' = task \/ Done
      BY <2>3 DEF StartLeg, Settings, Link, Check, Publish, Go
    <3> QED  BY <3>1, <3>2, DoneFacts DEF Owner
  <2>4. CASE Show \/ Hide \/ Refresh \/ Decide
    <3>1. UNCHANGED calls /\ step' \in {"idle", "refresh", "decide", "invalidate", "show"}
      BY <2>4 DEF Show, Hide, Refresh, Decide, Done, Go
    <3> QED  BY <3>1 DEF Owner, InSetup, SetupSteps
  <2>5. CASE Invalidate
    <3>1. task.cid \in Cid /\ task \in Tasks /\ deactivateIfCurrent(task)
      BY <2>5, ExecTyped DEF Invalidate, IInv, TaskInv
    <3> QED  BY <1>0, <3>1, IfCurrentCalls DEF Owner
  <2>6. CASE Insert
    <3>1. /\ InSetup /\ step' = "show" /\ calls'[task.cid] = task.gen
          /\ \A d \in Cid : d # task.cid => calls'[d] = calls[d]
      BY <2>6, InsertFacts
    <3> QED  BY <3>1 DEF Owner, InSetup, SetupSteps
  <2> QED  BY <1>2, <2>1, <2>2, <2>3, <2>4, <2>5, <2>6 DEF Executor, Work
<1>3. CASE modemReset
  BY <1>0, <1>3, ResetFacts DEF Owner, InSetup, execVars
<1> QED  BY <1>1, <1>2, <1>3, Others

-----------------------------------------------------------------------------
(* What becomes of a leg *)

\* Nothing its dispatcher or the network would do; the settings are read by the
\* steps that read them.
Calm(l, m) ==
  /\ m.ended = l.ended
  /\ m.open => /\ l.open /\ m.up = l.up /\ m.inds = l.inds /\ m.cb = l.cb /\ m.val = l.val
               /\ l.published => m.published
               /\ m.read = l.read \/ Decide \/ (Settings /\ m.read = m.val)
               /\ m.reconfig = l.reconfig \/ Refresh

\* A leg that stays is calm.
LEMMA CalmSame == \A l : Calm(l, l)
BY DEF Calm

\* So is one that is closed.
LEMMA CalmClosed == \A l : l.ended \in BOOLEAN => Calm(l, Closed(l.ended))
<1> TAKE l
<1> HAVE l.ended \in BOOLEAN
<1>1. ~Closed(l.ended).open /\ Closed(l.ended).ended = l.ended
  BY ClosedLeg
<1> QED  BY <1>1 DEF Calm

\* The step that opens a leg.
Opens(g, f) ==
  /\ StartLeg /\ InSetup /\ g = task.gen /\ task' = task /\ InSetup'
  /\ ~leg[g][f].open /\ ~leg[g][f].ended
  /\ LET m == leg'[g][f] IN
     /\ m.open /\ m.up /\ m.cid = task.cid /\ ~m.ended /\ m.cb = "idle"
     /\ m.val = 0 /\ m.read = 0 /\ m.inds = <<>> /\ ~m.reconfig
  /\ \A h \in Gen, e \in Fam : ~(h = g /\ e = f) => leg'[h][e] = leg[h][e]

\* stopEntry of a call.
LEMMA StopEntryCalm ==
  ASSUME IInv, NEW c, NEW g \in Gen, stopEntry(c, g)
  PROVE  \A h \in Gen, f \in Fam : leg'[h][f] \in {leg[h][f], Closed(leg[h][f].ended)}
<1>1. StopLegs(g, Legs(g)) /\ Legs(g) \in SUBSET Fam /\ TypeOK
  BY DEF stopEntry, Legs, IInv
<1> QED  BY <1>1, StopLegsFacts

\* deactivateIfCurrent closes legs or leaves them alone.
LEMMA IfCurrentCalm ==
  ASSUME IInv, NEW t \in Tasks, t.cid \in Cid, t.gen \in Gen, deactivateIfCurrent(t)
  PROVE  \A h \in Gen, f \in Fam : leg'[h][f] \in {leg[h][f], Closed(leg[h][f].ended)}
<1>1. CASE calls[t.cid] = t.gen
  <2>1. stopEntry(t.cid, t.gen)
    BY <1>1 DEF deactivateIfCurrent, TearDown
  <2> QED  BY <2>1, StopEntryCalm
<1>2. CASE calls[t.cid] # t.gen
  BY <1>2 DEF deactivateIfCurrent
<1> QED  BY <1>1, <1>2

\* A step of the executor leaves every leg calm, or opens one.
LEMMA ExecutorCalm ==
  ASSUME IInv, Executor
  PROVE  \/ \A g \in Gen, f \in Fam : Calm(leg[g][f], leg'[g][f])
         \/ \E g \in Gen, f \in Fam : Opens(g, f)
<1>0. ASSUME \A g \in Gen, f \in Fam : leg'[g][f] \in {leg[g][f], Closed(leg[g][f].ended)}
      PROVE  \A g \in Gen, f \in Fam : Calm(leg[g][f], leg'[g][f])
  <2> TAKE g \in Gen, f \in Fam
  <2>1. leg[g][f].ended \in BOOLEAN
    BY LegTyped DEF IInv
  <2> QED  BY <1>0, <2>1, CalmSame, CalmClosed
<1>1. CASE Take
  <2> DEFINE t == Head(execQ)
  <2>1. t \in ExecTasks /\ t \in Tasks
    BY <1>1, TakeFacts
  <2>2. TakeSetup(t) \/ TakeDeact(t) \/ TakeLoss(t) \/ TakeReconf(t) \/ TakeLost(t)
    BY <1>1 DEF Take
  <2> HIDE DEF t
  <2>3. CASE TakeSetup(t) \/ TakeReconf(t) \/ TakeLost(t)
    BY <1>0, <2>3 DEF TakeSetup, TakeReconf, TakeLost
  <2>4. CASE TakeDeact(t)
    <3>1. t.cid \in Cid
      BY <2>1, <2>4, TaskShapes DEF TakeDeact
    <3>2. CASE calls[t.cid] = 0
      BY <1>0, <2>4, <3>2 DEF TakeDeact
    <3>3. CASE calls[t.cid] # 0
      <4>1. stopEntry(t.cid, calls[t.cid]) /\ calls[t.cid] \in Gen
        BY <2>4, <3>1, <3>3, ExecTyped DEF TakeDeact, TearDown
      <4> QED  BY <1>0, <4>1, StopEntryCalm
    <3> QED  BY <3>2, <3>3
  <2>5. CASE TakeLoss(t)
    <3>1. t.cid \in Cid /\ t.gen \in Gen /\ deactivateIfCurrent(t)
      BY <2>1, <2>5, TaskShapes DEF TakeLoss
    <3> QED  BY <1>0, <2>1, <3>1, IfCurrentCalm
  <2> QED  BY <2>2, <2>3, <2>4, <2>5
<1>2. CASE SetupBegins \/ Show \/ Hide \/ Insert
  BY <1>0, <1>2 DEF SetupBegins, Show, Hide, Insert
<1>3. CASE StartLeg
  <2> DEFINE g == task.gen  f == Least(todo)
  <2>1. CASE leg' = leg
    BY <1>0, <2>1
  <2>2. CASE /\ f \in todo /\ Go("settings") /\ leg' \in [Gen -> [Fam -> LegRec]]
             /\ \A h \in Gen, e \in Fam : ~(h = g /\ e = f) => leg'[h][e] = leg[h][e]
             /\ LET m == leg'[g][f] IN
                /\ m.open /\ m.up /\ m.cid = task.cid /\ ~m.ended /\ m.cb = "idle"
                /\ m.val = 0 /\ m.read = 0 /\ m.inds = <<>> /\ ~m.reconfig
    <3>1. step = "start" /\ InSetup /\ g \in Gen
      BY <1>3, StartFacts
    <3>2. f \in Fam /\ ~leg[g][f].open /\ ~leg[g][f].ended
      BY <2>2, <3>1, ExecTyped DEF IInv, LegInv, Unborn
    <3>3. task' = task /\ InSetup'
      BY <2>2 DEF Go, InSetup, SetupSteps
    <3> HIDE DEF f
    <3>4. Opens(g, f)
      BY <1>3, <2>2, <3>1, <3>2, <3>3 DEF Opens
    <3> QED  BY <3>1, <3>2, <3>4
  <2> QED  BY <1>3, <2>1, <2>2, StartFacts
<1>4. CASE Settings
  <2> DEFINE g == task.gen  f == Least(todo)
  <2>1. /\ g \in Gen /\ f \in Fam
        /\ \A h \in Gen, e \in Fam : ~(h = g /\ e = f) => leg'[h][e] = leg[h][e]
        /\ LET l == leg[g][f]  m == leg'[g][f] IN
           \/ /\ m.open = l.open /\ m.up = l.up /\ m.val = l.val /\ m.read = l.val
              /\ m.ended = l.ended /\ m.inds = l.inds /\ m.cb = l.cb
              /\ m.reconfig = l.reconfig /\ m.published = l.published
           \/ m = Closed(l.ended)
    BY <1>4, SettingsFacts
  <2> HIDE DEF f
  <2>2. ASSUME NEW h \in Gen, NEW e \in Fam
        PROVE  Calm(leg[h][e], leg'[h][e])
    <3>0. leg[h][e].ended \in BOOLEAN
      BY LegTyped DEF IInv
    <3>1. CASE h = g /\ e = f
      <4>1. CASE leg'[g][f] = Closed(leg[g][f].ended)
        BY <3>0, <3>1, <4>1, CalmClosed
      <4>2. CASE leg'[g][f] # Closed(leg[g][f].ended)
        BY <1>4, <2>1, <3>1, <4>2 DEF Calm
      <4> QED  BY <4>1, <4>2
    <3>2. CASE ~(h = g /\ e = f)
      BY <2>1, <3>2, CalmSame
    <3> QED  BY <3>1, <3>2
  <2> QED  BY <2>2
<1>5. CASE Link
  <2>1. task.gen \in Gen
    BY <1>5, LinkFacts
  <2>2. CASE stopEntry(task.cid, task.gen)
    BY <1>0, <2>1, <2>2, StopEntryCalm
  <2>3. CASE /\ \A h \in Gen, f \in Fam : h # task.gen => leg'[h][f] = leg[h][f]
             /\ \A f \in Fam : leg'[task.gen][f] \in {leg[task.gen][f], Closed(leg[task.gen][f].ended)}
    BY <1>0, <2>3
  <2> QED  BY <1>5, <2>2, <2>3, LinkFacts
<1>6. CASE Check
  <2>1. task.gen \in Gen
    <3>1. InSetup
      BY <1>6 DEF Check, InSetup, SetupSteps
    <3> QED  BY <3>1, InSetupFacts
  <2>2. CASE stopEntry(task.cid, task.gen)
    BY <1>0, <2>1, <2>2, StopEntryCalm
  <2>3. CASE UNCHANGED leg
    BY <1>0, <2>3
  <2> QED  BY <1>6, <2>2, <2>3 DEF Check
<1>7. CASE Publish
  <2>1. ASSUME NEW h \in Gen, NEW e \in Fam
        PROVE  Calm(leg[h][e], leg'[h][e])
    <3>1. CASE h = task.gen /\ e \in Legs(task.gen)
      BY <1>7, <3>1, PublishFacts DEF Calm, Legs
    <3>2. CASE ~(h = task.gen /\ e \in Legs(task.gen))
      BY <1>7, <3>2, PublishFacts, CalmSame
    <3> QED  BY <3>1, <3>2
  <2> QED  BY <2>1
<1>8. CASE Refresh
  <2> DEFINE g == task.gen  f == Least(todo)
  <2>1. /\ \A h \in Gen, e \in Fam : ~(h = g /\ e = f) => leg'[h][e] = leg[h][e]
        /\ LET l == leg[g][f]  m == leg'[g][f] IN
           /\ l.open /\ m.open /\ m.up = l.up /\ m.val = l.val /\ m.read = l.read
           /\ m.published = l.published /\ m.ended = l.ended /\ m.inds = l.inds /\ m.cb = l.cb
    BY <1>8, RefreshFacts
  <2> HIDE DEF f
  <2>2. ASSUME NEW h \in Gen, NEW e \in Fam
        PROVE  Calm(leg[h][e], leg'[h][e])
    <3>1. CASE h = g /\ e = f
      BY <1>8, <2>1, <3>1 DEF Calm
    <3>2. CASE ~(h = g /\ e = f)
      BY <2>1, <3>2, CalmSame
    <3> QED  BY <3>1, <3>2
  <2> QED  BY <2>2
<1>9. CASE Decide
  <2>1. CASE leg' = leg
    BY <1>0, <2>1
  <2>2. CASE leg' # leg
    <3>1. ASSUME NEW h \in Gen, NEW e \in Fam
          PROVE  Calm(leg[h][e], leg'[h][e])
      <4>1. CASE h = task.gen /\ e \in Legs(task.gen)
        BY <1>9, <2>2, <4>1, DecideFacts DEF Calm, Legs
      <4>2. CASE ~(h = task.gen /\ e \in Legs(task.gen))
        BY <1>9, <2>2, <4>2, DecideFacts, CalmSame
      <4> QED  BY <4>1, <4>2
    <3> QED  BY <3>1
  <2> QED  BY <2>1, <2>2
<1>10. CASE Invalidate
  <2>1. task.cid \in Cid /\ task.gen \in Gen /\ task \in Tasks /\ deactivateIfCurrent(task)
    BY <1>10, ExecTyped DEF Invalidate, IInv, TaskInv
  <2> QED  BY <1>0, <2>1, IfCurrentCalm
<1> QED  BY <1>1, <1>2, <1>3, <1>4, <1>5, <1>6, <1>7, <1>8, <1>9, <1>10 DEF Executor, Work

\* The steps there are: those of an executor that leaves legs calm, and the others.
LEMMA LegMoves ==
  ASSUME IInv, [Next]_vars
  PROVE  \/ \A g \in Gen, f \in Fam : Calm(leg[g][f], leg'[g][f])
         \/ \E g \in Gen, f \in Fam : Opens(g, f)
         \/ modemReset \/ Crash
         \/ \E g \in Gen, f \in Fam : Dispatch(g, f) \/ Network(g, f)
<1>1. CASE UNCHANGED leg
  BY <1>1, CalmSame
<1>2. CASE Executor
  BY <1>2, ExecutorCalm
<1> QED
  <2>1. CASE \E F \in SUBSET Fam \ {{}} : Ask(F)
    BY <1>1, <2>1 DEF Ask
  <2>2. CASE \E d \in Cid : Deactivate(d)
    BY <1>1, <2>2 DEF Deactivate
  <2>3. CASE Forward \/ onModemLost \/ Notice \/ Ready
    BY <1>1, <2>3 DEF Forward, onModemLost, Notice, Ready
  <2>4. CASE UNCHANGED vars
    BY <1>1, <2>4 DEF vars
  <2> QED  BY <1>2, <2>1, <2>2, <2>3, <2>4 DEF Next, Worker

\* The latch stays set, but for a reset of the call.
LEMMA EndedKept ==
  ASSUME IInv, [Next]_vars, NEW g \in Gen, NEW f \in Fam, leg[g][f].ended
  PROVE  leg'[g][f].ended \/ (modemReset /\ \E c \in Cid : calls[c] = g)
<1>1. CASE \A h \in Gen, e \in Fam : Calm(leg[h][e], leg'[h][e])
  BY <1>1 DEF Calm
<1>2. CASE \E h \in Gen, e \in Fam : Opens(h, e)
  BY <1>2 DEF Opens
<1>3. CASE modemReset
  BY <1>3, ResetFacts
<1>4. CASE Crash
  <2>1. Ended(leg[g][f]).ended = leg[g][f].ended
    BY EndedLeg, LegTyped DEF IInv
  <2> QED  BY <1>4, <2>1, CrashFacts
<1>5. CASE \E h \in Gen, e \in Fam : Dispatch(h, e) \/ Network(h, e)
  <2>1. PICK h \in Gen, e \in Fam : Dispatch(h, e) \/ Network(h, e)
    BY <1>5
  <2>2. CASE Network(h, e)
    BY <2>2, NetworkFacts
  <2>3. CASE Observe(h, e)
    BY <2>3, ObserveFacts
  <2>4. CASE Report(h, e)
    BY <2>4, ReportFacts
  <2> QED  BY <2>1, <2>2, <2>3, <2>4 DEF Dispatch
<1> QED  BY <1>1, <1>2, <1>3, <1>4, <1>5, LegMoves

\* Generations only grow.
LEMMA NextGenGrows ==
  ASSUME IInv, [Next]_vars
  PROVE  nextGen' \in Nat /\ nextGen \in Nat /\ nextGen' >= nextGen
<1>0. nextGen \in Nat
  BY ExecTyped
<1>1. nextGen' = nextGen \/ nextGen' = nextGen + 1
  <2>1. CASE SetupBegins
    BY <2>1 DEF SetupBegins
  <2>2. CASE Executor /\ ~SetupBegins
    <3>1. CASE Take
      BY <3>1 DEF Take, TakeSetup, TakeDeact, TakeLoss, TakeReconf, TakeLost
    <3>2. CASE Insert
      BY <3>2 DEF Insert
    <3>3. CASE StartLeg \/ Settings \/ Link \/ Check \/ Publish \/ Show
      BY <3>3 DEF StartLeg, Settings, Link, Check, Publish, Show
    <3>4. CASE Hide \/ Refresh \/ Decide \/ Invalidate
      BY <3>4 DEF Hide, Refresh, Decide, Invalidate
    <3> QED  BY <2>2, <3>1, <3>2, <3>3, <3>4 DEF Executor, Work
  <2>3. CASE modemReset \/ UNCHANGED <<execVars, calls, nextGen, base>>
    BY <2>3 DEF modemReset
  <2> QED  BY <2>1, <2>2, <2>3, Others
<1> QED  BY <1>0, <1>1

-----------------------------------------------------------------------------
(* What is on its way *)

\* Tasks of different kinds, calls or generations differ.
LEMMA TasksDiffer ==
  /\ \A c \in Cid, g \in Gen, d \in Cid, h \in Gen :
       /\ Loss(c, g) = Loss(d, h) => c = d /\ g = h
       /\ Reconf(c, g) = Reconf(d, h) => c = d /\ g = h
       /\ Loss(c, g) # Reconf(d, h)
  /\ \A c \in Cid, g \in Gen :
       /\ Loss(c, g) # Reset /\ Reconf(c, g) # Reset /\ Loss(c, g) # ModemLost /\ Reconf(c, g) # ModemLost
       /\ \A F \in SUBSET Fam : Loss(c, g) # Setup(F) /\ Reconf(c, g) # Setup(F)
       /\ \A d \in Cid : Loss(c, g) # Deact(d) /\ Reconf(c, g) # Deact(d)
  /\ ModemLost # Reset
<1>1. ASSUME NEW c \in Cid, NEW g \in Gen
      PROVE  /\ Loss(c, g).kind = "loss" /\ Loss(c, g).cid = c /\ Loss(c, g).gen = g
             /\ Reconf(c, g).kind = "reconf" /\ Reconf(c, g).cid = c /\ Reconf(c, g).gen = g
  BY DEF Loss, Reconf
<1>2. /\ \A F \in SUBSET Fam : Setup(F).kind = "setup"
      /\ \A c \in Cid : Deact(c).kind = "deact"
      /\ ModemLost.kind = "lost" /\ Reset.kind = "reset"
  BY DEF Setup, Deact, ModemLost, Reset
<1>3. \A c \in Cid, g \in Gen, d \in Cid, h \in Gen :
        /\ Loss(c, g) = Loss(d, h) => c = d /\ g = h
        /\ Reconf(c, g) = Reconf(d, h) => c = d /\ g = h
        /\ Loss(c, g) # Reconf(d, h)
  <2> TAKE c \in Cid, g \in Gen, d \in Cid, h \in Gen
  <2> QED  BY <1>1
<1>4. \A c \in Cid, g \in Gen :
        /\ Loss(c, g) # Reset /\ Reconf(c, g) # Reset /\ Loss(c, g) # ModemLost /\ Reconf(c, g) # ModemLost
        /\ \A F \in SUBSET Fam : Loss(c, g) # Setup(F) /\ Reconf(c, g) # Setup(F)
        /\ \A d \in Cid : Loss(c, g) # Deact(d) /\ Reconf(c, g) # Deact(d)
  <2> TAKE c \in Cid, g \in Gen
  <2> QED  BY <1>1, <1>2
<1>5. ModemLost # Reset
  BY <1>2
<1> QED  BY <1>3, <1>4, <1>5

\* A queued task stays queued until the executor takes it, or the worker resets.
LEMMA ComingKept ==
  ASSUME IInv, [Next]_vars, NEW t, t # Reset, Coming(t)
  PROVE  Coming(t)' \/ (Take /\ t = Head(execQ))
<1>0. t \in Elements(execQ) \/ t \in Elements(workQ)
  BY DEF Coming
<1> SUFFICES \/ t \in Elements(execQ') \cup Elements(workQ')
             \/ Take /\ t = Head(execQ)
  BY DEF Coming
<1>1. CASE UNCHANGED <<execQ, workQ>>
  BY <1>0, <1>1
<1>2. CASE \E F \in SUBSET Fam \ {{}} : Ask(F)
  <2>1. PICK F \in SUBSET Fam \ {{}} : Ask(F)
    BY <1>2
  <2>2. Setup(F) \in ExecTasks
    BY DEF ExecTasks
  <2> QED  BY <1>0, <2>1, <2>2, ExecGrows DEF Ask
<1>3. CASE \E c \in Cid : Deactivate(c)
  <2>1. PICK c \in Cid : Deactivate(c)
    BY <1>3
  <2>2. Deact(c) \in ExecTasks
    BY DEF ExecTasks
  <2> QED  BY <1>0, <2>1, <2>2, ExecGrows DEF Deactivate
<1>4. CASE Executor
  <2>1. CASE Take /\ UNCHANGED workQ
    BY <1>0, <2>1, TakeFacts, ExecHead
  <2>2. CASE Insert /\ UNCHANGED execQ
    BY <1>0, <2>2, InsertFacts
  <2> QED  BY <1>1, <1>4, <2>1, <2>2 DEF Executor
<1>5. CASE Forward
  <2>1. workQ # <<>> /\ Head(workQ) # Reset /\ workQ' = Tail(workQ) /\ execQ' = Append(execQ, Head(workQ))
    BY <1>5 DEF Forward
  <2>2. Elements(workQ) = {Head(workQ)} \cup Elements(workQ') /\ Head(workQ) \in ExecTasks
    BY <2>1, WorkHead, TaskShapes
  <2>3. Elements(execQ') = Elements(execQ) \cup {Head(workQ)}
    BY <2>1, <2>2, ExecGrows
  <2> QED  BY <1>0, <2>2, <2>3
<1>6. CASE modemReset
  <2>1. workQ # <<>> /\ Head(workQ) = Reset /\ workQ' = Tail(workQ) /\ execQ' = execQ
    BY <1>6, ResetFacts
  <2>2. Elements(workQ) = {Reset} \cup Elements(workQ')
    BY <2>1, WorkHead
  <2> QED  BY <1>0, <2>1, <2>2
<1>7. CASE onModemLost
  <2>1. ModemLost \in ExecTasks
    BY DEF ExecTasks
  <2> QED  BY <1>0, <1>7, <2>1, ExecGrows DEF onModemLost
<1>8. CASE Notice
  <2>1. Reset \in WorkTasks
    BY DEF WorkTasks
  <2>2. Elements(workQ) \subseteq Elements(workQ')
    BY <1>8, <2>1, WorkGrows DEF Notice
  <2> QED  BY <1>0, <1>8, <2>2 DEF Notice
<1>9. CASE \E g \in Gen, f \in Fam : Dispatch(g, f)
  <2>1. PICK g \in Gen, f \in Fam : Dispatch(g, f)
    BY <1>9
  <2>2. Elements(workQ) \subseteq Elements(workQ')
    BY <2>1, ObserveFacts, ReportFacts DEF Dispatch
  <2> QED  BY <1>0, <2>1, <2>2 DEF Dispatch
<1>10. CASE Crash \/ Ready \/ \E g \in Gen, f \in Fam : Network(g, f)
  BY <1>1, <1>10 DEF Crash, Ready, Network
<1>11. CASE UNCHANGED vars
  BY <1>1, <1>11 DEF vars
<1> QED  BY <1>2, <1>3, <1>4, <1>5, <1>6, <1>7, <1>8, <1>9, <1>10, <1>11 DEF Next, Worker

\* A loss is posted by the callback that saw the session end.
LEMMA LossComes ==
  ASSUME IInv, [Next]_vars, NEW c \in Cid, NEW g \in Gen, Coming(Loss(c, g))', ~Coming(Loss(c, g))
  PROVE  \E f \in Fam : Dispatch(g, f) /\ Report(g, f) /\ leg[g][f].cb = "down"
<1> DEFINE t == Loss(c, g)
<1>0. t \in Elements(execQ') \cup Elements(workQ') /\ t \notin Elements(execQ) \cup Elements(workQ)
  BY DEF Coming
<1>d. /\ \A d \in Cid, h \in Gen : (t = Loss(d, h) => d = c /\ h = g) /\ t # Reconf(d, h)
      /\ t # Reset /\ t # ModemLost
      /\ \A F \in SUBSET Fam : t # Setup(F)
      /\ \A d \in Cid : t # Deact(d)
  BY TasksDiffer
<1> HIDE DEF t
<1>1. CASE UNCHANGED <<execQ, workQ>>
  BY <1>0, <1>1
<1>2. CASE \E F \in SUBSET Fam \ {{}} : Ask(F)
  <2>1. PICK F \in SUBSET Fam \ {{}} : Ask(F)
    BY <1>2
  <2>2. Setup(F) \in ExecTasks /\ t # Setup(F)
    BY <1>d DEF ExecTasks
  <2> QED  BY <1>0, <2>1, <2>2, ExecGrows DEF Ask
<1>3. CASE \E d \in Cid : Deactivate(d)
  <2>1. PICK d \in Cid : Deactivate(d)
    BY <1>3
  <2>2. Deact(d) \in ExecTasks /\ t # Deact(d)
    BY <1>d DEF ExecTasks
  <2> QED  BY <1>0, <2>1, <2>2, ExecGrows DEF Deactivate
<1>4. CASE Executor
  <2>1. CASE Take /\ UNCHANGED workQ
    BY <1>0, <2>1, TakeFacts, ExecHead
  <2>2. CASE Insert /\ UNCHANGED execQ
    <3>1. t # Reconf(task.cid, task.gen)
      BY <1>d, <2>2, InsertFacts
    <3> QED  BY <1>0, <2>2, <3>1, InsertFacts
  <2> QED  BY <1>1, <1>4, <2>1, <2>2 DEF Executor
<1>5. CASE Forward
  <2>1. workQ # <<>> /\ Head(workQ) # Reset /\ workQ' = Tail(workQ) /\ execQ' = Append(execQ, Head(workQ))
    BY <1>5 DEF Forward
  <2>2. Elements(workQ) = {Head(workQ)} \cup Elements(workQ') /\ Head(workQ) \in ExecTasks
    BY <2>1, WorkHead, TaskShapes
  <2>3. Elements(execQ') = Elements(execQ) \cup {Head(workQ)}
    BY <2>1, <2>2, ExecGrows
  <2> QED  BY <1>0, <2>2, <2>3
<1>6. CASE modemReset
  <2>1. workQ # <<>> /\ workQ' = Tail(workQ) /\ execQ' = execQ
    BY <1>6, ResetFacts
  <2> QED  BY <1>0, <2>1, WorkHead
<1>7. CASE onModemLost
  <2>1. ModemLost \in ExecTasks
    BY DEF ExecTasks
  <2> QED  BY <1>0, <1>d, <1>7, <2>1, ExecGrows DEF onModemLost
<1>8. CASE Notice
  <2>1. Reset \in WorkTasks
    BY DEF WorkTasks
  <2> QED  BY <1>0, <1>d, <1>8, <2>1, WorkGrows DEF Notice
<1>9. CASE \E h \in Gen, f \in Fam : Dispatch(h, f)
  <2>1. PICK h \in Gen, f \in Fam : Dispatch(h, f)
    BY <1>9
  <2>2. Report(h, f) /\ execQ' = execQ
    BY <1>0, <2>1, ObserveFacts DEF Dispatch
  <2>3. leg[h][f].cid \in Cid
    BY <2>2, ReportFacts
  <2>4. leg[h][f].cb = "down" /\ t = Loss(leg[h][f].cid, h)
    <3>1. t \in (IF leg[h][f].cb = "down" THEN {Loss(leg[h][f].cid, h)}
                 ELSE IF leg[h][f].published THEN {Reconf(leg[h][f].cid, h)} ELSE {})
      BY <1>0, <2>2, ReportFacts
    <3>2. t # Reconf(leg[h][f].cid, h)
      BY <1>d, <2>3
    <3> QED  BY <3>1, <3>2
  <2>5. h = g
    BY <1>d, <2>3, <2>4
  <2> QED  BY <2>1, <2>2, <2>4, <2>5
<1>10. CASE Crash \/ Ready \/ \E h \in Gen, f \in Fam : Network(h, f)
  BY <1>1, <1>10 DEF Crash, Ready, Network
<1>11. CASE UNCHANGED vars
  BY <1>1, <1>11 DEF vars
<1> QED  BY <1>2, <1>3, <1>4, <1>5, <1>6, <1>7, <1>8, <1>9, <1>10, <1>11 DEF Next, Worker

-----------------------------------------------------------------------------
(* NoStaleTearDown *)

\* A generation that was a call's, or a setup's, and is no more.
Over(g) == g <= nextGen /\ \A c \in Cid : ~Owner(c, g)

\* A loss that is on its way is one of a session that has ended, or of a call that is gone.
LossInv ==
  \A c \in Cid, g \in Gen : Coming(Loss(c, g)) => (\E f \in Fam : leg[g][f].ended) \/ Over(g)

\* LossInv is inductive with IInv: a generation that is over stays over.
LEMMA LossStep == IInv /\ LossInv /\ [Next]_vars => LossInv'
<1> SUFFICES ASSUME IInv, LossInv, [Next]_vars, NEW c \in Cid, NEW g \in Gen, Coming(Loss(c, g))'
             PROVE  (\E f \in Fam : leg'[g][f].ended) \/ Over(g)'
  BY DEF LossInv
<1>1. /\ g \in Nat /\ nextGen \in Nat /\ nextGen' \in Nat /\ nextGen' >= nextGen
  BY NextGenGrows DEF Gen
<1>2. \A d \in Cid : Owner(d, g)' => Owner(d, g) \/ g > nextGen
  BY OwnerMoves
<1>3. ASSUME NEW f \in Fam, leg[g][f].ended
      PROVE  leg'[g][f].ended \/ Over(g)'
  <2>1. CASE leg'[g][f].ended
    BY <2>1
  <2>2. CASE modemReset
    <3>1. \A d \in Cid : calls'[d] = 0
      BY <2>2, ResetFacts
    <3>2. ~InSetup'
      BY <2>2, ResetFacts DEF InSetup, execVars
    <3>3. g <= nextGen
      BY <1>1, <1>3 DEF IInv, LegInv
    <3>4. g <= nextGen' /\ g # 0
      BY <1>1, <3>3 DEF Gen
    <3> QED  BY <3>1, <3>2, <3>4 DEF Over, Owner
  <2> QED  BY <1>3, <2>1, <2>2, EndedKept
<1>4. CASE Coming(Loss(c, g))
  <2>1. CASE \E f \in Fam : leg[g][f].ended
    BY <1>3, <2>1
  <2>2. CASE Over(g)
    <3>1. g <= nextGen /\ \A d \in Cid : ~Owner(d, g)
      BY <2>2 DEF Over
    <3>2. g <= nextGen' /\ ~(g > nextGen)
      BY <1>1, <3>1
    <3> QED  BY <1>2, <3>1, <3>2 DEF Over
  <2> QED  BY <1>4, <2>1, <2>2 DEF LossInv
<1>5. CASE ~Coming(Loss(c, g))
  <2>1. PICK f \in Fam : leg[g][f].cb = "down"
    BY <1>5, LossComes
  <2>2. leg[g][f].ended
    BY <2>1 DEF IInv, LegInv
  <2> QED  BY <1>3, <2>2
<1> QED  BY <1>4, <1>5

\* LossInv holds throughout.
LEMMA LossInvariance == Spec => []LossInv
<1>1. Init => LossInv
  BY EmptyElements DEF Init, LossInv, Coming
<1> QED  BY <1>1, LossStep, Invariance, PTL DEF Spec

\* The call that deactivateIfCurrent takes down is the one the task is about.
LEMMA IfCurrentTakes ==
  ASSUME IInv, NEW t \in Tasks, t.cid \in Cid, t.gen \in Gen, deactivateIfCurrent(t),
         NEW c \in Cid, calls[c] # 0, calls'[c] = 0
  PROVE  c = t.cid /\ calls[c] = t.gen
<1>1. CASE calls[t.cid] = t.gen
  <2>1. calls' = [calls EXCEPT ![t.cid] = 0]
    BY <1>1 DEF deactivateIfCurrent, TearDown
  <2> QED  BY <1>1, <2>1, ExecTyped
<1>2. CASE calls[t.cid] # t.gen
  BY <1>2 DEF deactivateIfCurrent
<1> QED  BY <1>1, <1>2

\* One step of NoStaleTearDown.
LEMMA TearDownReason ==
  ASSUME IInv, LossInv, [Next]_vars, NEW c \in Cid, calls[c] # 0, calls'[c] = 0
  PROVE  \/ worker' = "tell" \/ task' = Deact(c) \/ step = "invalidate"
         \/ \E f \in Fam : leg[calls[c]][f].ended
<1>1. CASE UNCHANGED calls
  BY <1>1
<1>2. CASE Executor
  <2>1. CASE Take
    <3> DEFINE t == Head(execQ)
    <3>1. t \in ExecTasks /\ t \in Tasks /\ execQ # <<>>
      BY <2>1, TakeFacts
    <3>2. t \in Elements(execQ)
      BY <3>1, ExecHead
    <3>3. TakeSetup(t) \/ TakeDeact(t) \/ TakeLoss(t) \/ TakeReconf(t) \/ TakeLost(t)
      BY <2>1 DEF Take
    <3> HIDE DEF t
    <3>4. CASE TakeSetup(t) \/ TakeReconf(t) \/ TakeLost(t)
      BY <1>1, <3>4 DEF TakeSetup, TakeReconf, TakeLost
    <3>5. CASE TakeDeact(t)
      <4>1. t.cid \in Cid /\ t = Deact(t.cid) /\ task' = t
        BY <3>1, <3>5, TaskShapes DEF TakeDeact
      <4>2. calls' = calls \/ calls' = [calls EXCEPT ![t.cid] = 0]
        BY <3>5 DEF TakeDeact, TearDown
      <4>3. c = t.cid
        BY <4>1, <4>2, ExecTyped
      <4> QED  BY <4>1, <4>3
    <3>6. CASE TakeLoss(t)
      <4>1. t.cid \in Cid /\ t.gen \in Gen /\ t = Loss(t.cid, t.gen) /\ deactivateIfCurrent(t)
        BY <3>1, <3>6, TaskShapes DEF TakeLoss
      <4>2. c = t.cid /\ calls[c] = t.gen
        BY <3>1, <4>1, IfCurrentTakes
      <4>3. Coming(Loss(t.cid, t.gen))
        BY <3>2, <4>1 DEF Coming
      <4>4. ~Over(t.gen)
        BY <4>2 DEF Over, Owner
      <4> QED  BY <4>1, <4>2, <4>3, <4>4 DEF LossInv
    <3> QED  BY <3>3, <3>4, <3>5, <3>6
  <2>2. CASE SetupBegins \/ StartLeg \/ Settings \/ Link \/ Check \/ Publish
    BY <1>1, <2>2 DEF SetupBegins, StartLeg, Settings, Link, Check, Publish
  <2>3. CASE Show \/ Hide \/ Refresh \/ Decide
    BY <1>1, <2>3 DEF Show, Hide, Refresh, Decide
  <2>4. CASE Invalidate
    BY <2>4 DEF Invalidate
  <2>5. CASE Insert
    <3>1. task.gen # 0 /\ calls'[task.cid] = task.gen /\ \A d \in Cid : d # task.cid => calls'[d] = calls[d]
      BY <2>5, InsertFacts DEF Gen
    <3> QED  BY <3>1
  <2> QED  BY <1>2, <2>1, <2>2, <2>3, <2>4, <2>5 DEF Executor, Work
<1>3. CASE modemReset
  BY <1>3, ResetFacts
<1> QED  BY <1>1, <1>2, <1>3, Others

\* A call goes when Android says so, when a session of its own has ended, when its
\* settings cannot be used, or with the modem, and never for the late loss of an
\* earlier call with its cid, however long the loss was queued (NoStaleTearDown).
THEOREM NoStaleLoss == Spec => NoStaleTearDown
<1> DEFINE Reasoned == \A c \in Cid : calls[c] # 0 /\ calls'[c] = 0 =>
                         \/ worker' = "tell" \/ task' = Deact(c) \/ step = "invalidate"
                         \/ \E f \in Fam : leg[calls[c]][f].ended
<1>1. ASSUME IInv, LossInv, [Next]_vars PROVE Reasoned
  BY <1>1, TearDownReason
<1>2. IInv /\ LossInv /\ [Next]_vars => [Reasoned]_vars
  BY <1>1
<1>3. Spec => [][Reasoned]_vars
  BY <1>2, Invariance, LossInvariance, PTL DEF Spec
<1> QED  BY <1>3 DEF NoStaleTearDown

-----------------------------------------------------------------------------
(* ShownIsTracked *)

\* Between the entry in mCalls and Android's, the call may go with the modem only.
ShowInv == step = "show" => calls[task.cid] = task.gen \/ worker = "tell" \/ Coming(ModemLost)

Tracked(c) == base[c] # 0 /\ calls[c] # base[c] =>
                worker = "tell" \/ Coming(ModemLost) \/ (step = "hide" /\ task.cid = c)

\* The news of the modem's crash do not get lost on the way to the executor.
LEMMA LostKept ==
  ASSUME IInv, [Next]_vars, worker = "tell" \/ Coming(ModemLost)
  PROVE  \/ worker' = "tell" \/ Coming(ModemLost)'
         \/ Take /\ Head(execQ) = ModemLost
<1>1. CASE Coming(ModemLost)
  BY <1>1, ComingKept, TasksDiffer
<1>2. CASE worker = "tell"
  <2>1. CASE onModemLost
    <3>1. ModemLost \in ExecTasks
      BY DEF ExecTasks
    <3>2. ModemLost \in Elements(execQ')
      BY <2>1, <3>1, ExecGrows DEF onModemLost
    <3> QED  BY <3>2 DEF Coming
  <2>2. CASE worker' = worker
    BY <1>2, <2>2
  <2>3. CASE modemReset
    BY <2>3, ResetFacts
  <2>4. CASE \E F \in SUBSET Fam \ {{}} : Ask(F)
    BY <2>2, <2>4 DEF Ask
  <2>5. CASE \E d \in Cid : Deactivate(d)
    BY <2>2, <2>5 DEF Deactivate
  <2>6. CASE Executor \/ Forward \/ Crash \/ Notice \/ Ready
    BY <2>2, <2>6 DEF Executor, Forward, Crash, Notice, Ready
  <2>7. CASE \E h \in Gen, f \in Fam : Dispatch(h, f) \/ Network(h, f)
    BY <2>2, <2>7 DEF Dispatch, Network
  <2>8. CASE UNCHANGED vars
    BY <2>2, <2>8 DEF vars
  <2> QED  BY <2>1, <2>3, <2>4, <2>5, <2>6, <2>7, <2>8 DEF Next, Worker
<1> QED  BY <1>1, <1>2

\* The executor that takes it clears Android's list.
LEMMA LostTaken ==
  ASSUME Take, Head(execQ) = ModemLost
  PROVE  step' = "idle" /\ base' = [c \in Cid |-> 0]
<1>1. ModemLost.kind = "lost"
  BY DEF ModemLost
<1> QED  BY <1>1 DEF Take, TakeSetup, TakeDeact, TakeLoss, TakeReconf, TakeLost, Done

\* A call taken down is hidden next.
LEMMA IfCurrentHides ==
  ASSUME IInv, NEW t \in Tasks, t.cid \in Cid, t.gen \in Gen, deactivateIfCurrent(t),
         NEW c \in Cid, calls'[c] # calls[c]
  PROVE  step' = "hide" /\ task'.cid = c
<1>1. CASE calls[t.cid] = t.gen
  <2>1. calls' = [calls EXCEPT ![t.cid] = 0] /\ step' = "hide" /\ task' = t
    BY <1>1 DEF deactivateIfCurrent, TearDown
  <2> QED  BY <2>1, ExecTyped
<1>2. CASE calls[t.cid] # t.gen
  BY <1>2 DEF deactivateIfCurrent
<1> QED  BY <1>1, <1>2

\* ShowInv and ShownIsTracked are inductive together.
LEMMA ShowStep == IInv /\ ShowInv /\ ShownIsTracked /\ [Next]_vars => ShowInv' /\ ShownIsTracked'
<1> SUFFICES ASSUME IInv, ShowInv, ShownIsTracked, [Next]_vars
             PROVE  ShowInv' /\ \A c \in Cid : Tracked(c)'
  BY DEF ShownIsTracked, Tracked
<1> DEFINE Told == worker = "tell" \/ Coming(ModemLost)
<1>1. ASSUME Told
      PROVE  Told' \/ (step' = "idle" /\ \A c \in Cid : base'[c] = 0)
  BY <1>1, LostKept, LostTaken
<1>2. ASSUME NEW c \in Cid
      PROVE  base[c] # 0 /\ calls[c] # base[c] => Told \/ (step = "hide" /\ task.cid = c)
  BY DEF ShownIsTracked
<1>3. ASSUME Told' \/ (step' = "idle" /\ \A c \in Cid : base'[c] = 0)
      PROVE  ShowInv' /\ \A c \in Cid : Tracked(c)'
  BY <1>3 DEF ShowInv, Tracked
<1>4. ASSUME NEW c \in Cid, ~Told, step # "hide"
      PROVE  base[c] # 0 => calls[c] = base[c]
  BY <1>2, <1>4
<1> HIDE DEF Told
<1>5. CASE Told
  BY <1>1, <1>3, <1>5
<1>6. CASE ~Told
  <2>0. step = "show" => calls[task.cid] = task.gen
    BY <1>6 DEF ShowInv, Told
  <2>1. CASE UNCHANGED <<execVars, calls, nextGen, base>>
    BY <1>2, <1>6, <2>0, <2>1 DEF ShowInv, Tracked, execVars
  <2>2. CASE Executor
    <3>1. CASE Take
      <4> DEFINE t == Head(execQ)
      <4>1. t \in ExecTasks /\ t \in Tasks /\ step = "idle"
        BY <3>1, TakeFacts
      <4>2. TakeSetup(t) \/ TakeDeact(t) \/ TakeLoss(t) \/ TakeReconf(t) \/ TakeLost(t)
        BY <3>1 DEF Take
      <4> HIDE DEF t
      <4>3. \A c \in Cid : base[c] # 0 => calls[c] = base[c]
        BY <1>4, <1>6, <4>1
      <4>4. CASE TakeSetup(t) \/ TakeReconf(t)
        <5>1. UNCHANGED <<calls, base>> /\ step' \in {"idle", "ask", "refresh"}
          BY <4>4 DEF TakeSetup, TakeReconf, Done
        <5> QED  BY <4>3, <5>1 DEF ShowInv, Tracked
      <4>5. CASE TakeLost(t)
        <5>1. step' = "idle" /\ \A c \in Cid : base'[c] = 0
          BY <4>5 DEF TakeLost, Done
        <5> QED  BY <5>1 DEF ShowInv, Tracked
      <4>6. CASE TakeDeact(t)
        <5>1. /\ UNCHANGED base /\ step' = "hide" /\ task' = t
              /\ calls' = calls \/ calls' = [calls EXCEPT ![t.cid] = 0]
          BY <4>6 DEF TakeDeact, TearDown
        <5>2. \A c \in Cid : c # t.cid => calls'[c] = calls[c]
          BY <5>1, ExecTyped
        <5> QED  BY <4>3, <5>1, <5>2 DEF ShowInv, Tracked
      <4>7. CASE TakeLoss(t)
        <5>1. UNCHANGED base /\ t.cid \in Cid /\ t.gen \in Gen /\ deactivateIfCurrent(t)
          BY <4>1, <4>7, TaskShapes DEF TakeLoss
        <5>2. step' # "show"
          BY <4>1, <5>1, IfCurrentCalls
        <5>3. \A c \in Cid : calls'[c] # calls[c] => step' = "hide" /\ task'.cid = c
          BY <4>1, <5>1, IfCurrentHides
        <5> QED  BY <4>3, <5>1, <5>2, <5>3 DEF ShowInv, Tracked
      <4> QED  BY <4>2, <4>4, <4>5, <4>6, <4>7
    <3>2. CASE SetupBegins \/ StartLeg \/ Settings \/ Link \/ Check \/ Publish \/ Refresh
      <4>1. UNCHANGED <<calls, base>> /\ step # "hide"
        BY <3>2 DEF SetupBegins, StartLeg, Settings, Link, Check, Publish, Refresh
      <4>2. step' # "show"
        BY <3>2 DEF SetupBegins, StartLeg, Settings, Link, Check, Publish, Refresh, Go, Done
      <4> QED  BY <1>4, <1>6, <4>1, <4>2 DEF ShowInv, Tracked
    <3>3. CASE Insert
      <4>1. /\ step = "insert" /\ step' = "show" /\ UNCHANGED <<task, base>>
            /\ calls'[task.cid] = task.gen /\ \A c \in Cid : c # task.cid => calls'[c] = calls[c]
            /\ task.cid \in Cid /\ calls[task.cid] = 0
        BY <3>3, InsertFacts, InSetupFacts
      <4>2. \A c \in Cid : base[c] # 0 => calls[c] = base[c]
        BY <1>4, <1>6, <4>1
      <4> QED  BY <4>1, <4>2 DEF ShowInv, Tracked
    <3>4. CASE Show
      <4>1. step = "show" /\ step' = "idle" /\ UNCHANGED calls /\ base' = [base EXCEPT ![task.cid] = task.gen]
        BY <3>4 DEF Show, Done
      <4>2. task.cid \in Cid
        BY <4>1 DEF IInv, TaskInv
      <4>3. /\ base'[task.cid] = task.gen /\ \A c \in Cid : c # task.cid => base'[c] = base[c]
        BY <4>1, <4>2, ExecTyped
      <4>4. \A c \in Cid : base[c] # 0 => calls[c] = base[c]
        BY <1>4, <1>6, <4>1
      <4> QED  BY <2>0, <4>1, <4>3, <4>4 DEF ShowInv, Tracked
    <3>5. CASE Hide
      <4>1. step = "hide" /\ step' = "idle" /\ UNCHANGED calls /\ base' = [base EXCEPT ![task.cid] = 0]
        BY <3>5 DEF Hide, Done
      <4>2. task.cid \in Cid
        BY <4>1 DEF IInv, TaskInv
      <4>3. /\ base'[task.cid] = 0 /\ \A c \in Cid : c # task.cid => base'[c] = base[c]
        BY <4>1, <4>2, ExecTyped
      <4>4. \A c \in Cid : c # task.cid /\ base[c] # 0 => calls[c] = base[c]
        BY <1>2, <1>6
      <4> QED  BY <4>1, <4>3, <4>4 DEF ShowInv, Tracked
    <3>6. CASE Decide
      <4>1. step = "decide" /\ UNCHANGED <<calls, base>> /\ (step' = "show" => task' = task)
        BY <3>6 DEF Decide, Go, Done
      <4>2. calls[task.cid] = task.gen
        BY <4>1 DEF IInv, TaskInv
      <4>3. \A c \in Cid : base[c] # 0 => calls[c] = base[c]
        BY <1>4, <1>6, <4>1
      <4> QED  BY <4>1, <4>2, <4>3 DEF ShowInv, Tracked
    <3>7. CASE Invalidate
      <4>1. step = "invalidate" /\ UNCHANGED base /\ deactivateIfCurrent(task)
        BY <3>7 DEF Invalidate
      <4>2. task.cid \in Cid /\ task.gen \in Gen /\ task \in Tasks
        BY <4>1, ExecTyped DEF IInv, TaskInv
      <4>3. step' # "show"
        BY <4>1, <4>2, IfCurrentCalls
      <4>4. \A c \in Cid : calls'[c] # calls[c] => step' = "hide" /\ task'.cid = c
        BY <4>1, <4>2, IfCurrentHides
      <4>5. \A c \in Cid : base[c] # 0 => calls[c] = base[c]
        BY <1>4, <1>6, <4>1
      <4> QED  BY <4>1, <4>3, <4>4, <4>5 DEF ShowInv, Tracked
    <3> QED  BY <2>2, <3>1, <3>2, <3>3, <3>4, <3>5, <3>6, <3>7 DEF Executor, Work
  <2>3. CASE modemReset
    <3>1. worker' = "tell"
      BY <2>3, ResetFacts
    <3> QED  BY <3>1 DEF ShowInv, Tracked
  <2> QED  BY <2>1, <2>2, <2>3, Others
<1> QED  BY <1>5, <1>6

\* Nothing that removes a call, a modem's crash least of all, forgets Android's entry
\* of it: for any number of crashes and setups (ShownIsTracked).
THEOREM EntriesFollow == Spec => []ShownIsTracked
<1>1. Init => ShowInv /\ ShownIsTracked
  BY DEF Init, ShowInv, ShownIsTracked
<1>2. Spec => [](ShowInv /\ ShownIsTracked)
  BY <1>1, ShowStep, Invariance, PTL DEF Spec
<1> QED  BY <1>2, PTL

-----------------------------------------------------------------------------
(* EndedIsNoticed *)

\* Of every leg of a call, and of a setup: its end is in its own queue of notices,
\* and once it has been seen there, with its callback or on its way as a loss.
EndInv ==
  \A c \in Cid, g \in Gen : Owner(c, g) =>
    \A f \in Fam : LET l == leg[g][f] IN
      l.open => /\ l.up \/ l.ended \/ "down" \in Elements(l.inds)
                /\ l.ended => l.cb = "down" \/ Coming(Loss(c, g))

\* A loss that the executor takes is not of a call afterwards.
LEMMA LossTaken ==
  ASSUME IInv, NEW c \in Cid, NEW g \in Gen, Take, Head(execQ) = Loss(c, g)
  PROVE  ~Owner(c, g)'
<1> DEFINE t == Head(execQ)
<1>1. /\ t \in Tasks /\ t.kind = "loss" /\ t.cid = c /\ t.gen = g /\ ~InSetup /\ g # 0
  BY TakeFacts DEF Loss, Gen
<1> HIDE DEF t
<1>2. TakeLoss(t)
  BY <1>1 DEF t, Take, TakeSetup, TakeDeact, TakeReconf, TakeLost
<1>3. deactivateIfCurrent(t)
  BY <1>2 DEF TakeLoss
<1>4. ~InSetup'
  BY <1>1, <1>3, IfCurrentCalls
<1>5. CASE calls[c] = g
  <2>1. calls' = [calls EXCEPT ![c] = 0]
    BY <1>1, <1>3, <1>5 DEF deactivateIfCurrent, TearDown
  <2> QED  BY <1>1, <1>4, <2>1, ExecTyped DEF Owner
<1>6. CASE calls[c] # g
  <2>1. calls' = calls
    BY <1>1, <1>3, <1>6 DEF deactivateIfCurrent
  <2> QED  BY <1>4, <1>6, <2>1 DEF Owner
<1> QED  BY <1>5, <1>6

\* EndInv is inductive with IInv.
LEMMA EndStep == IInv /\ EndInv /\ [Next]_vars => EndInv'
<1> SUFFICES ASSUME IInv, EndInv, [Next]_vars, NEW c \in Cid, NEW g \in Gen, Owner(c, g)', NEW f \in Fam,
                    leg'[g][f].open
             PROVE  LET m == leg'[g][f] IN
                    /\ m.up \/ m.ended \/ "down" \in Elements(m.inds)
                    /\ m.ended => m.cb = "down" \/ Coming(Loss(c, g))'
  BY DEF EndInv
<1> DEFINE l == leg[g][f]  m == leg'[g][f]
<1>1. ASSUME l.open
      PROVE  /\ Owner(c, g)
             /\ l.up \/ l.ended \/ "down" \in Elements(l.inds)
             /\ l.ended => l.cb = "down" \/ Coming(Loss(c, g))
             /\ l \in LegRec /\ l.cid = c
  <2>1. ~(g > nextGen)
    BY <1>1 DEF IInv, LegInv
  <2>2. Owner(c, g)
    BY <2>1, OwnerMoves
  <2>3. l \in LegRec /\ l.cid = c
    BY <1>1, <2>2, LegTyped DEF IInv, LegInv
  <2> QED  BY <1>1, <2>2, <2>3 DEF EndInv
<1>2. Coming(Loss(c, g)) => Coming(Loss(c, g))'
  BY ComingKept, LossTaken, TasksDiffer
<1> HIDE DEF l, m
<1> SUFFICES /\ m.up \/ m.ended \/ "down" \in Elements(m.inds)
             /\ m.ended => m.cb = "down" \/ Coming(Loss(c, g))'
  BY DEF m
<1>3. CASE Calm(l, m)
  <2>1. l.open /\ m.ended = l.ended /\ m.up = l.up /\ m.inds = l.inds /\ m.cb = l.cb
    BY <1>3 DEF Calm, m
  <2> QED  BY <1>1, <1>2, <2>1
<1>4. CASE \E h \in Gen, e \in Fam : Opens(h, e)
  <2>1. PICK h \in Gen, e \in Fam : Opens(h, e)
    BY <1>4
  <2>2. CASE h = g /\ e = f
    BY <2>1, <2>2 DEF Opens, m
  <2>3. CASE ~(h = g /\ e = f)
    <3>1. m = l
      BY <2>1, <2>3 DEF Opens, m, l
    <3> QED  BY <1>3, <3>1, CalmSame
  <2> QED  BY <2>2, <2>3
<1>5. CASE modemReset
  <2>1. CASE \E d \in Cid : calls[d] = g
    BY <1>5, <2>1, ResetFacts, ClosedLeg
  <2>2. CASE ~\E d \in Cid : calls[d] = g
    <3>1. m = l
      BY <1>5, <2>2, ResetFacts DEF l, m
    <3> QED  BY <1>3, <3>1, CalmSame
  <2> QED  BY <2>1, <2>2
<1>6. CASE Crash
  <2>1. l \in LegRec /\ m = (IF l.up THEN Ended(l) ELSE l)
    BY <1>6, CrashFacts, LegTyped DEF IInv, l, m
  <2>2. CASE l.up
    <3>1. /\ m.open = l.open /\ m.ended = l.ended /\ m.cb = l.cb
          /\ Elements(m.inds) = Elements(l.inds) \cup {"down"}
      BY <2>1, <2>2, EndedLeg
    <3>2. l.open
      BY <3>1 DEF m
    <3> QED  BY <1>1, <1>2, <3>1, <3>2
  <2>3. CASE ~l.up
    BY <1>3, <2>1, <2>3, CalmSame
  <2> QED  BY <2>2, <2>3
<1>7. CASE \E h \in Gen, e \in Fam : Dispatch(h, e) \/ Network(h, e)
  <2>1. PICK h \in Gen, e \in Fam : Dispatch(h, e) \/ Network(h, e)
    BY <1>7
  <2>2. CASE h = g /\ e = f
    <3>1. CASE Network(g, f)
      <4>1. /\ l.up /\ l.open /\ m.cb = l.cb /\ m.ended = l.ended
            /\ m = Ended(l) \/ m.up = l.up
        BY <3>1, NetworkFacts DEF l, m
      <4>2. m = Ended(l) => "down" \in Elements(m.inds)
        BY <1>1, <4>1, EndedLeg
      <4> QED  BY <1>1, <1>2, <4>1, <4>2
    <3>2. CASE Observe(g, f)
      <4>1. /\ l.open /\ l.cb = "idle" /\ m.up = l.up
            /\ \/ m.ended = l.ended /\ Elements(l.inds) = {"reconf"} \cup Elements(m.inds)
               \/ m.ended /\ m.cb = IF l.ended THEN "idle" ELSE "down"
        BY <3>2, ObserveFacts DEF l, m
      <4> QED  BY <1>1, <1>2, <4>1
    <3>3. CASE Dispatch(g, f) /\ Report(g, f)
      <4>1. /\ l.open /\ m.up = l.up /\ m.ended = l.ended /\ m.inds = l.inds
            /\ l.cb = "down" => Loss(l.cid, g) \in Elements(workQ')
        BY <3>3, ReportFacts DEF l, m
      <4>2. l.cb = "down" => Coming(Loss(c, g))'
        BY <1>1, <4>1 DEF Coming
      <4> QED  BY <1>1, <1>2, <4>1, <4>2
    <3> QED  BY <2>1, <2>2, <3>1, <3>2, <3>3 DEF Dispatch
  <2>3. CASE ~(h = g /\ e = f)
    <3>1. m = l
      BY <2>1, <2>3, NetworkFacts, ObserveFacts, ReportFacts DEF Dispatch, l, m
    <3> QED  BY <1>3, <3>1, CalmSame
  <2> QED  BY <2>2, <2>3
<1>8. CASE \A h \in Gen, e \in Fam : Calm(leg[h][e], leg'[h][e])
  BY <1>3, <1>8 DEF l, m
<1> QED  BY <1>4, <1>5, <1>6, <1>7, <1>8, LegMoves

\* No session ends unnoticed: the one that ends while its call is set up is on its way
\* to the executor when the call is published (EndedIsNoticed).
THEOREM EndsAreNoticed == Spec => []EndedIsNoticed
<1>1. Init => EndInv
  BY ClosedLeg DEF Init, EndInv
<1>2. Spec => []EndInv
  BY <1>1, EndStep, Invariance, PTL DEF Spec
<1>3. ASSUME IInv, EndInv PROVE EndedIsNoticed
  <2> SUFFICES ASSUME NEW c \in Cid, calls[c] # 0, NEW f \in Legs(calls[c]), ~leg[calls[c]][f].up
               PROVE  LET g == calls[c]  l == leg[g][f] IN
                      "down" \in Elements(l.inds) \/ l.cb = "down" \/ Coming(Loss(c, g))
    BY DEF EndedIsNoticed
  <2>1. calls[c] \in Gen /\ Owner(c, calls[c]) /\ f \in Fam /\ leg[calls[c]][f].open
    BY <1>3, ExecTyped DEF Owner, Legs
  <2> QED  BY <1>3, <2>1 DEF EndInv
<1> QED  BY <1>2, <1>3, Invariance, PTL

-----------------------------------------------------------------------------
(* SettingsFresh *)

\* A change of a leg's settings is on its way to the executor.
Told(c, g, f) == "reconf" \in Elements(leg[g][f].inds) \/ leg[g][f].cb = "reconf" \/ Coming(Reconf(c, g))

\* The executor is reading them again, or gives the call up.
Rereading(c, g, f) ==
  \/ Doing({"refresh"}, c, g) /\ f \in todo
  \/ Doing({"refresh", "decide"}, c, g) /\ fresh[f] = leg[g][f].val
  \/ Doing({"invalidate"}, c, g)

\* Before the call is published, the flag of the leg stands for the notice.
SetupFresh ==
  InSetup => \A f \in Fam : LET l == leg[task.gen][f] IN
    l.open => /\ l.up /\ l.read # l.val => "reconf" \in Elements(l.inds) \/ l.reconfig
              /\ step = "insert" => l.published

PublishedInv == \A c \in Cid : calls[c] # 0 => \A f \in Legs(calls[c]) : leg[calls[c]][f].published

\* What the refresh has read is what there is, or it will be asked to read again.
ReadFresh ==
  step \in {"refresh", "decide"} =>
    \A f \in Legs(task.gen) \ todo :
      leg[task.gen][f].up => fresh[f] = leg[task.gen][f].val \/ Told(task.cid, task.gen, f)

FreshInv == SetupFresh /\ PublishedInv /\ ReadFresh /\ SettingsFresh

\* A setup goes on, or begins with a generation that has no legs.
LEMMA SetupMoves ==
  ASSUME IInv, [Next]_vars, InSetup'
  PROVE  \/ InSetup /\ task' = task /\ (step' = "insert" => step = "insert" \/ Publish)
         \/ task'.gen = nextGen + 1 /\ UNCHANGED leg
<1>1. CASE UNCHANGED <<execVars, calls, nextGen, base>>
  BY <1>1 DEF InSetup, execVars
<1>2. CASE modemReset
  BY <1>2, ResetFacts DEF InSetup, execVars
<1>3. CASE Executor
  <2>1. CASE Take
    <3> DEFINE t == Head(execQ)
    <3>1. t \in ExecTasks /\ t \in Tasks
      BY <2>1, TakeFacts
    <3>2. TakeSetup(t) \/ TakeDeact(t) \/ TakeLoss(t) \/ TakeReconf(t) \/ TakeLost(t)
      BY <2>1 DEF Take
    <3> HIDE DEF t
    <3>3. CASE TakeSetup(t) \/ TakeDeact(t) \/ TakeReconf(t) \/ TakeLost(t)
      BY <3>3 DEF TakeSetup, TakeDeact, TakeReconf, TakeLost, Done, InSetup, SetupSteps
    <3>4. CASE TakeLoss(t)
      <4>1. t.cid \in Cid /\ deactivateIfCurrent(t)
        BY <3>1, <3>4, TaskShapes DEF TakeLoss
      <4> QED  BY <3>1, <4>1, IfCurrentCalls
    <3> QED  BY <3>2, <3>3, <3>4
  <2>2. CASE SetupBegins
    <3>1. UNCHANGED leg /\ ~Done
      BY <2>2, DoneFacts DEF SetupBegins
    <3>2. task' = [task EXCEPT !.cid = Least({d \in Cid : calls[d] = 0}), !.gen = nextGen + 1]
      BY <2>2, <3>1 DEF SetupBegins
    <3>3. task'.gen = nextGen + 1
      BY <3>2, ExecTyped DEF Tasks
    <3> QED  BY <3>1, <3>3
  <2>3. CASE StartLeg \/ Settings \/ Link \/ Check \/ Publish
    <3>1. InSetup /\ ~Done
      BY <2>3, DoneFacts DEF StartLeg, Settings, Link, Check, Publish, InSetup, SetupSteps
    <3>2. task' = task /\ (step' = "insert" => Publish)
      BY <2>3, <3>1 DEF StartLeg, Settings, Link, Check, Publish, Go
    <3> QED  BY <3>1, <3>2
  <2>4. CASE Show \/ Hide \/ Refresh \/ Decide \/ Insert
    BY <2>4 DEF Show, Hide, Refresh, Decide, Insert, Done, Go, InSetup, SetupSteps
  <2>5. CASE Invalidate
    <3>1. task.cid \in Cid /\ task \in Tasks /\ deactivateIfCurrent(task)
      BY <2>5, ExecTyped DEF Invalidate, IInv, TaskInv
    <3> QED  BY <3>1, IfCurrentCalls
  <2> QED  BY <1>3, <2>1, <2>2, <2>3, <2>4, <2>5 DEF Executor, Work
<1> QED  BY <1>1, <1>2, <1>3, Others

\* A call comes into the list by the insertion of the one set up, and no other way.
LEMMA CallMoves ==
  ASSUME IInv, [Next]_vars, NEW c \in Cid, calls'[c] # 0
  PROVE  calls[c] = calls'[c] \/ (Insert /\ Executor /\ c = task.cid)
<1>1. CASE UNCHANGED calls
  BY <1>1
<1>2. CASE modemReset
  BY <1>2, ResetFacts
<1>3. CASE Executor
  <2>1. CASE Take
    <3> DEFINE t == Head(execQ)
    <3>1. t \in ExecTasks /\ t \in Tasks
      BY <2>1, TakeFacts
    <3>2. TakeSetup(t) \/ TakeDeact(t) \/ TakeLoss(t) \/ TakeReconf(t) \/ TakeLost(t)
      BY <2>1 DEF Take
    <3> HIDE DEF t
    <3>3. CASE TakeSetup(t) \/ TakeReconf(t) \/ TakeLost(t)
      BY <1>1, <3>3 DEF TakeSetup, TakeReconf, TakeLost
    <3>4. CASE TakeDeact(t)
      BY <3>4, ExecTyped DEF TakeDeact, TearDown
    <3>5. CASE TakeLoss(t)
      <4>1. t.cid \in Cid /\ deactivateIfCurrent(t)
        BY <3>1, <3>5, TaskShapes DEF TakeLoss
      <4>2. calls'[c] \in {calls[c], 0}
        BY <3>1, <4>1, IfCurrentCalls
      <4> QED  BY <4>2
    <3> QED  BY <3>2, <3>3, <3>4, <3>5
  <2>2. CASE SetupBegins \/ StartLeg \/ Settings \/ Link \/ Check \/ Publish
    BY <1>1, <2>2 DEF SetupBegins, StartLeg, Settings, Link, Check, Publish
  <2>3. CASE Show \/ Hide \/ Refresh \/ Decide
    BY <1>1, <2>3 DEF Show, Hide, Refresh, Decide
  <2>4. CASE Invalidate
    <3>1. task.cid \in Cid /\ task \in Tasks /\ deactivateIfCurrent(task)
      BY <2>4, ExecTyped DEF Invalidate, IInv, TaskInv
    <3>2. calls'[c] \in {calls[c], 0}
      BY <3>1, IfCurrentCalls
    <3> QED  BY <3>2
  <2>5. CASE Insert
    BY <1>3, <2>5, InsertFacts
  <2> QED  BY <1>3, <2>1, <2>2, <2>3, <2>4, <2>5 DEF Executor, Work
<1> QED  BY <1>1, <1>2, <1>3, Others

\* A step of an open leg that is a call's or a setup's: what it keeps, and what a
\* change of the settings leaves behind.
LEMMA LegOnward ==
  ASSUME IInv, [Next]_vars, NEW c \in Cid, NEW g \in Gen, NEW f \in Fam, Owner(c, g), leg[g][f].open, leg'[g][f].open
  PROVE  LET l == leg[g][f]  m == leg'[g][f] IN
         /\ m.up => l.up /\ (m.val = l.val \/ "reconf" \in Elements(m.inds))
         /\ l.published => m.published
         /\ m.read = l.read \/ Decide \/ (Settings /\ m.read = m.val)
         /\ l.reconfig => m.reconfig \/ Refresh
         /\ "reconf" \in Elements(l.inds) => "reconf" \in Elements(m.inds) \/ (m.reconfig /\ m.cb = "reconf")
         /\ l.cb = "reconf" => m.cb = "reconf" \/ (l.published => Coming(Reconf(c, g))')
<1> DEFINE l == leg[g][f]  m == leg'[g][f]
<1>0. l \in LegRec /\ l.open /\ m.open /\ l.cid = c
  BY LegTyped DEF IInv, LegInv
<1> HIDE DEF l, m
<1> SUFFICES /\ m.up => l.up /\ (m.val = l.val \/ "reconf" \in Elements(m.inds))
             /\ l.published => m.published
             /\ m.read = l.read \/ Decide \/ (Settings /\ m.read = m.val)
             /\ l.reconfig => m.reconfig \/ Refresh
             /\ "reconf" \in Elements(l.inds) => "reconf" \in Elements(m.inds) \/ (m.reconfig /\ m.cb = "reconf")
             /\ l.cb = "reconf" => m.cb = "reconf" \/ (l.published => Coming(Reconf(c, g))')
  BY DEF l, m
<1>1. CASE Calm(l, m)
  BY <1>0, <1>1 DEF Calm
<1>2. CASE m = l
  BY <1>1, <1>2, CalmSame
<1>3. CASE \E h \in Gen, e \in Fam : Opens(h, e)
  <2>1. PICK h \in Gen, e \in Fam : Opens(h, e)
    BY <1>3
  <2> QED  BY <1>0, <1>2, <2>1 DEF Opens, l, m
<1>4. CASE modemReset
  <2>1. CASE \E d \in Cid : calls[d] = g
    <3>1. ~m.open
      BY <1>4, <2>1, ResetFacts, ClosedLeg DEF m
    <3> QED  BY <1>0, <3>1
  <2>2. CASE ~\E d \in Cid : calls[d] = g
    BY <1>2, <1>4, <2>2, ResetFacts DEF l, m
  <2> QED  BY <2>1, <2>2
<1>5. ASSUME m = Ended(l), Crash \/ \E h \in Gen, e \in Fam : Network(h, e)
      PROVE  /\ m.up => l.up /\ (m.val = l.val \/ "reconf" \in Elements(m.inds))
             /\ l.published => m.published
             /\ m.read = l.read
             /\ l.reconfig => m.reconfig
             /\ "reconf" \in Elements(l.inds) => "reconf" \in Elements(m.inds)
             /\ m.cb = l.cb
  <2>1. Ended(l).read = l.read
    BY <1>0 DEF Ended, LegRec
  <2> QED  BY <1>0, <1>5, <2>1, EndedLeg
<1>6. CASE Crash
  <2>1. m = IF l.up THEN Ended(l) ELSE l
    BY <1>6, CrashFacts DEF l, m
  <2> QED  BY <1>2, <1>5, <1>6, <2>1
<1>7. CASE \E h \in Gen, e \in Fam : Dispatch(h, e) \/ Network(h, e)
  <2>1. PICK h \in Gen, e \in Fam : Dispatch(h, e) \/ Network(h, e)
    BY <1>7
  <2>2. CASE h = g /\ e = f
    <3>1. CASE Network(g, f)
      <4>1. /\ m.published = l.published /\ m.reconfig = l.reconfig /\ m.cb = l.cb
            /\ \/ m = Ended(l)
               \/ m.up = l.up /\ m.read = l.read /\ Elements(m.inds) = Elements(l.inds) \cup {"reconf"}
        BY <3>1, NetworkFacts DEF l, m
      <4>2. CASE m = Ended(l)
        BY <1>5, <3>1, <4>2
      <4>3. CASE m.up = l.up /\ m.read = l.read /\ Elements(m.inds) = Elements(l.inds) \cup {"reconf"}
        BY <4>1, <4>3
      <4> QED  BY <4>1, <4>2, <4>3
    <3>2. CASE Observe(g, f)
      <4>0. /\ l.cb = "idle" /\ m.up = l.up /\ m.val = l.val /\ m.read = l.read /\ m.published = l.published
        BY <3>2, ObserveFacts, Zenon DEF l, m
      <4>1. \/ m.reconfig /\ m.cb = "reconf"
            \/ m.reconfig = l.reconfig /\ Elements(l.inds) = {"down"} \cup Elements(m.inds)
        <5>1. \/ m.reconfig /\ m.cb = "reconf" /\ m.ended = l.ended /\ Elements(l.inds) = {"reconf"} \cup Elements(m.inds)
              \/ /\ m.reconfig = l.reconfig /\ m.ended /\ m.cb = IF l.ended THEN "idle" ELSE "down"
                 /\ Elements(l.inds) = {"down"} \cup Elements(m.inds)
          BY <3>2, ObserveFacts DEF l, m
        <5> QED  BY <5>1, Zenon
      <4>2. "reconf" \in Elements(l.inds) => "reconf" \in Elements(m.inds) \/ (m.reconfig /\ m.cb = "reconf")
        <5>1. CASE Elements(l.inds) = {"down"} \cup Elements(m.inds)
          BY <5>1
        <5> QED  BY <4>1, <5>1, Zenon
      <4>3. l.reconfig => m.reconfig
        BY <4>0, <4>1, Zenon
      <4>4. l.published => m.published
        BY <4>0, <4>1, Zenon
      <4>5. (m.up => l.up) /\ l.cb # "reconf"
        BY <4>0, <4>1, Zenon
      <4> QED  BY <4>0, <4>1, <4>2, <4>3, <4>4, <4>5, Zenon
    <3>3. CASE Dispatch(g, f) /\ Report(g, f)
      <4>1. /\ m.up = l.up /\ m.val = l.val /\ m.read = l.read /\ m.published = l.published
            /\ m.reconfig = l.reconfig /\ m.inds = l.inds
            /\ l.cb = "reconf" /\ l.published => Reconf(l.cid, g) \in Elements(workQ')
        BY <3>3, ReportFacts DEF l, m
      <4>2. l.cb = "reconf" /\ l.published => Coming(Reconf(c, g))'
        BY <1>0, <4>1 DEF Coming
      <4> QED  BY <4>1, <4>2
    <3> QED  BY <2>1, <2>2, <3>1, <3>2, <3>3 DEF Dispatch
  <2>3. CASE ~(h = g /\ e = f)
    <3>1. m = l
      BY <2>1, <2>3, NetworkFacts, ObserveFacts, ReportFacts DEF Dispatch, l, m
    <3> QED  BY <1>2, <3>1
  <2> QED  BY <2>2, <2>3
<1>8. CASE \A h \in Gen, e \in Fam : Calm(leg[h][e], leg'[h][e])
  BY <1>1, <1>8 DEF l, m
<1> QED  BY <1>3, <1>4, <1>6, <1>7, <1>8, LegMoves

\* A leg that is open was, or is opened by the step.
LEMMA Opened ==
  ASSUME IInv, [Next]_vars, NEW g \in Gen, NEW f \in Fam, leg'[g][f].open, ~leg[g][f].open
  PROVE  Opens(g, f)
<1> DEFINE l == leg[g][f]  m == leg'[g][f]
<1>0. l \in LegRec
  BY LegTyped DEF IInv
<1>1. CASE \A h \in Gen, e \in Fam : Calm(leg[h][e], leg'[h][e])
  BY <1>1 DEF Calm
<1>2. CASE \E h \in Gen, e \in Fam : Opens(h, e)
  BY <1>2 DEF Opens
<1>3. CASE modemReset
  <2>1. m = NoLeg \/ m = l
    BY <1>3, ResetFacts
  <2> QED  BY <2>1, ClosedLeg
<1>4. CASE Crash
  BY <1>0, <1>4, CrashFacts, EndedLeg
<1>5. CASE \E h \in Gen, e \in Fam : Dispatch(h, e) \/ Network(h, e)
  BY <1>5, NetworkFacts, ObserveFacts, ReportFacts DEF Dispatch
<1> QED  BY <1>1, <1>2, <1>3, <1>4, <1>5, LegMoves

\* The legs of a call were there before.
LEMMA CallLegs ==
  ASSUME IInv, [Next]_vars, NEW c \in Cid, NEW g \in Gen, calls[c] = g, NEW f \in Fam, leg'[g][f].open
  PROVE  leg[g][f].open
<1>1. ASSUME ~leg[g][f].open PROVE FALSE
  <2>1. InSetup /\ g = task.gen
    BY <1>1, Opened DEF Opens
  <2> QED  BY <2>1, InSetupFacts
<1> QED  BY <1>1

\* SetupFresh is inductive with IInv.
LEMMA SetupFreshStep == IInv /\ SetupFresh /\ [Next]_vars => SetupFresh'
<1> SUFFICES ASSUME IInv, SetupFresh, [Next]_vars, InSetup', NEW f \in Fam, leg'[task'.gen][f].open
             PROVE  LET m == leg'[task'.gen][f] IN
                    /\ m.up /\ m.read # m.val => "reconf" \in Elements(m.inds) \/ m.reconfig
                    /\ step' = "insert" => m.published
  BY DEF SetupFresh
<1>1. CASE task'.gen = nextGen + 1 /\ UNCHANGED leg
  <2>1. task'.gen \in Gen /\ nextGen + 1 > nextGen
    BY NextStep, ExecTyped, InSetupFacts DEF IInv, TaskInv, TypeOK, Tasks, Gen
  <2>2. ~leg[task'.gen][f].open
    BY <1>1, <2>1 DEF IInv, LegInv
  <2> QED  BY <1>1, <2>2
<1>2. CASE InSetup /\ task' = task /\ (step' = "insert" => step = "insert" \/ Publish)
  <2> DEFINE g == task.gen  c == task.cid  l == leg[g][f]  m == leg'[g][f]
  <2>1. g \in Gen /\ c \in Cid /\ Owner(c, g) /\ step \in SetupSteps
    BY <1>2, InSetupFacts DEF Owner, InSetup
  <2>2. ~Decide /\ ~Refresh
    BY <2>1 DEF Decide, Refresh, SetupSteps
  <2>3. m.open /\ task'.gen = g
    BY <1>2
  <2>4. CASE l.open
    <3>1. /\ m.up => l.up /\ (m.val = l.val \/ "reconf" \in Elements(m.inds))
          /\ l.published => m.published
          /\ m.read = l.read \/ m.read = m.val
          /\ l.reconfig => m.reconfig
          /\ "reconf" \in Elements(l.inds) => "reconf" \in Elements(m.inds) \/ m.reconfig
      BY <2>1, <2>2, <2>3, <2>4, LegOnward
    <3>2. /\ l.up /\ l.read # l.val => "reconf" \in Elements(l.inds) \/ l.reconfig
          /\ step = "insert" => l.published
      BY <1>2, <2>4 DEF SetupFresh
    <3>3. Publish => m.published
      <4>1. f \in Legs(g)
        BY <2>4 DEF Legs
      <4> QED  BY <4>1, PublishFacts
    <3> HIDE DEF l, m
    <3>4. m.up /\ m.read # m.val => "reconf" \in Elements(m.inds) \/ m.reconfig
      BY <3>1, <3>2
    <3>5. step' = "insert" => m.published
      BY <1>2, <3>1, <3>2, <3>3
    <3> QED  BY <2>3, <3>4, <3>5 DEF m
  <2>5. CASE ~l.open
    <3>1. Opens(g, f)
      BY <2>1, <2>3, <2>5, Opened
    <3>2. m.read = 0 /\ m.val = 0 /\ StartLeg
      BY <3>1 DEF Opens
    <3>3. step' # "insert"
      BY <1>2, <3>2 DEF StartLeg, Publish
    <3> QED  BY <2>3, <3>2, <3>3
  <2> QED  BY <2>4, <2>5
<1> QED  BY <1>1, <1>2, SetupMoves

\* PublishedInv is inductive with SetupFresh.
LEMMA PublishedStep == IInv /\ SetupFresh /\ PublishedInv /\ [Next]_vars => PublishedInv'
<1> SUFFICES ASSUME IInv, SetupFresh, PublishedInv, [Next]_vars, NEW c \in Cid, calls'[c] # 0,
                    NEW f \in Fam, leg'[calls'[c]][f].open
             PROVE  leg'[calls'[c]][f].published
  BY DEF PublishedInv, Legs
<1>1. CASE calls[c] = calls'[c]
  <2> DEFINE g == calls[c]
  <2>1. g \in Gen /\ Owner(c, g) /\ leg'[g][f].open
    BY <1>1, ExecTyped DEF Owner
  <2>2. leg[g][f].open
    BY <1>1, <2>1, CallLegs
  <2>3. leg[g][f].published
    BY <1>1, <2>1, <2>2 DEF PublishedInv, Legs
  <2>4. leg'[g][f].published
    BY <2>1, <2>2, <2>3, LegOnward
  <2> QED  BY <1>1, <2>4
<1>2. CASE Insert /\ Executor /\ c = task.cid
  <2>1. InSetup /\ step = "insert" /\ leg' = leg /\ calls'[c] = task.gen
    BY <1>2, InsertFacts
  <2> QED  BY <2>1 DEF SetupFresh
<1> QED  BY <1>1, <1>2, CallMoves

\* A notice of changed settings reaches the executor.
LEMMA ToldKept ==
  ASSUME IInv, PublishedInv, [Next]_vars, NEW c \in Cid, NEW g \in Gen, NEW f \in Fam,
         calls[c] = g, leg[g][f].open, leg'[g][f].open, Told(c, g, f)
  PROVE  Told(c, g, f)' \/ (Take /\ Reconf(c, g) = Head(execQ))
<1> DEFINE l == leg[g][f]  m == leg'[g][f]
<1>1. Owner(c, g) /\ l.published
  BY DEF Owner, PublishedInv, Legs, Gen
<1>2. /\ "reconf" \in Elements(l.inds) => "reconf" \in Elements(m.inds) \/ m.cb = "reconf"
      /\ l.cb = "reconf" => m.cb = "reconf" \/ Coming(Reconf(c, g))'
  BY <1>1, LegOnward
<1>3. Coming(Reconf(c, g)) => Coming(Reconf(c, g))' \/ (Take /\ Reconf(c, g) = Head(execQ))
  BY ComingKept, TasksDiffer
<1> QED  BY <1>2, <1>3 DEF Told

\* The executor that takes it reads every leg of the call again.
LEMMA ToldTaken ==
  ASSUME IInv, NEW c \in Cid, NEW g \in Gen, calls[c] = g, Take, Head(execQ) = Reconf(c, g)
  PROVE  step' = "refresh" /\ task' = Reconf(c, g) /\ todo' = Legs(g) /\ leg' = leg
<1> DEFINE t == Head(execQ)
<1>1. t.kind = "reconf" /\ t.cid = c /\ t.gen = g /\ t = Reconf(c, g)
  BY DEF Reconf
<1> HIDE DEF t
<1>2. TakeReconf(t)
  BY <1>1 DEF t, Take, TakeSetup, TakeDeact, TakeLoss, TakeLost
<1> QED  BY <1>1, <1>2 DEF TakeReconf

\* ReadFresh is inductive with PublishedInv.
LEMMA ReadStep == IInv /\ PublishedInv /\ ReadFresh /\ [Next]_vars => ReadFresh'
<1> SUFFICES ASSUME IInv, PublishedInv, ReadFresh, [Next]_vars, step' \in {"refresh", "decide"},
                    NEW f \in Fam, leg'[task'.gen][f].open, f \notin todo', leg'[task'.gen][f].up
             PROVE  fresh'[f] = leg'[task'.gen][f].val \/ Told(task.cid, task.gen, f)'
  BY DEF ReadFresh, Legs
<1> DEFINE c == task.cid  g == task.gen  l == leg[g][f]  m == leg'[g][f]
<1>1. ASSUME step \in {"refresh", "decide"}, task' = task, ~Take
      PROVE  /\ c \in Cid /\ g \in Gen /\ calls[c] = g /\ l.open /\ l.up
             /\ m.val = l.val \/ Told(c, g, f)'
             /\ Told(c, g, f) => Told(c, g, f)'
  <2>1. c \in Cid /\ g \in Gen /\ calls[c] = g
    BY <1>1 DEF IInv, TaskInv
  <2>2. Owner(c, g) /\ m.open /\ m.up
    BY <1>1, <2>1 DEF Owner
  <2>3. l.open
    BY <2>1, <2>2, CallLegs
  <2>4. m.up => l.up /\ (m.val = l.val \/ "reconf" \in Elements(m.inds))
    BY <2>1, <2>2, <2>3, LegOnward
  <2>5. Told(c, g, f) => Told(c, g, f)'
    BY <1>1, <2>1, <2>2, <2>3, ToldKept
  <2> QED  BY <1>1, <2>1, <2>2, <2>3, <2>4, <2>5 DEF Told
<1>2. ASSUME step \in {"refresh", "decide"}, task' = task, ~Take, f \notin todo, fresh'[f] = fresh[f]
      PROVE  fresh'[f] = leg'[task'.gen][f].val \/ Told(task.cid, task.gen, f)'
  <2>1. f \in Legs(g) \ todo /\ l.up
    BY <1>1, <1>2 DEF Legs
  <2>2. fresh[f] = l.val \/ Told(c, g, f)
    BY <1>2, <2>1 DEF ReadFresh
  <2>3. Told(c, g, f)' => Told(task.cid, task.gen, f)'
    BY <1>2 DEF Told
  <2> QED  BY <1>1, <1>2, <2>2, <2>3
<1>3. CASE UNCHANGED <<execVars, calls, nextGen, base>>
  <2>1. UNCHANGED <<step, task, todo, fresh>> /\ step # "idle"
    BY <1>3 DEF execVars
  <2>2. ~Take
    BY <2>1 DEF Take
  <2> QED  BY <1>2, <2>1, <2>2
<1>4. CASE modemReset
  BY <1>4, ResetFacts DEF execVars
<1>5. CASE Executor
  <2>1. CASE Take
    <3> DEFINE t == Head(execQ)
    <3>1. t \in ExecTasks /\ t \in Tasks
      BY <2>1, TakeFacts
    <3>2. TakeSetup(t) \/ TakeDeact(t) \/ TakeLoss(t) \/ TakeReconf(t) \/ TakeLost(t)
      BY <2>1 DEF Take
    <3> HIDE DEF t
    <3>3. CASE TakeSetup(t) \/ TakeDeact(t) \/ TakeLost(t)
      BY <3>3 DEF TakeSetup, TakeDeact, TakeLost, Done
    <3>4. CASE TakeLoss(t)
      <4>1. t.cid \in Cid /\ deactivateIfCurrent(t)
        BY <3>1, <3>4, TaskShapes DEF TakeLoss
      <4> QED  BY <3>1, <4>1, IfCurrentCalls
    <3>5. CASE TakeReconf(t)
      <4>1. task' = t /\ todo' = Legs(t.gen) /\ leg' = leg
        BY <3>5 DEF TakeReconf, Done
      <4> QED  BY <4>1 DEF Legs
    <3> QED  BY <3>2, <3>3, <3>4, <3>5
  <2>2. CASE Refresh
    <3> DEFINE e == Least(todo)
    <3>1. /\ step = "refresh" /\ task' = task /\ todo' = todo \ {e} /\ e \in todo
          /\ \A d \in Fam : d # e => fresh'[d] = fresh[d]
          /\ fresh'[e] = leg[g][e].val /\ leg'[g][e].val = leg[g][e].val
      BY <2>2, RefreshFacts
    <3>2. ~Take
      BY <3>1 DEF Take
    <3> HIDE DEF e
    <3>3. CASE f = e
      BY <3>1, <3>3
    <3>4. CASE f # e
      BY <1>2, <3>1, <3>2, <3>4
    <3> QED  BY <3>3, <3>4
  <2>3. CASE SetupBegins \/ StartLeg \/ Settings \/ Link \/ Check \/ Publish
    BY <2>3 DEF SetupBegins, StartLeg, Settings, Link, Check, Publish, Go, Done
  <2>4. CASE Show \/ Hide \/ Decide \/ Insert
    BY <2>4 DEF Show, Hide, Decide, Insert, Go, Done
  <2>5. CASE Invalidate
    <3>1. task.cid \in Cid /\ task \in Tasks /\ deactivateIfCurrent(task)
      BY <2>5, ExecTyped DEF Invalidate, IInv, TaskInv
    <3> QED  BY <3>1, IfCurrentCalls
  <2> QED  BY <1>5, <2>1, <2>2, <2>3, <2>4, <2>5 DEF Executor, Work
<1> QED  BY <1>3, <1>4, <1>5, Others

\* What the executor is reading again stays so until it has been read.
LEMMA RereadKept ==
  ASSUME IInv, [Next]_vars, ~Decide, NEW c \in Cid, NEW g \in Gen, NEW f \in Fam,
         calls[c] = g, calls'[c] = g, leg'[g][f].val = leg[g][f].val, Rereading(c, g, f)
  PROVE  Rereading(c, g, f)'
<1>0. step \in {"refresh", "decide", "invalidate"} /\ task.cid = c /\ task.gen = g /\ g # 0
  BY DEF Rereading, Doing, Gen
<1>1. CASE UNCHANGED <<execVars, calls, nextGen, base>>
  BY <1>1 DEF Rereading, Doing, execVars
<1>2. CASE modemReset
  BY <1>0, <1>2, ResetFacts
<1>3. CASE Executor
  <2>1. Refresh \/ Invalidate
    BY <1>0, <1>3 DEF Executor, Take, Work, SetupBegins, StartLeg, Settings, Link, Check, Publish, Insert, Show, Hide
  <2>2. CASE Invalidate
    <3>1. calls' = [calls EXCEPT ![c] = 0]
      BY <1>0, <2>2 DEF Invalidate, deactivateIfCurrent, TearDown
    <3> QED  BY <1>0, <3>1, ExecTyped
  <2>3. CASE Refresh
    <3> DEFINE e == Least(todo)
    <3>1. /\ step = "refresh" /\ task' = task /\ todo' = todo \ {e} /\ e \in todo
          /\ \A d \in Fam : d # e => fresh'[d] = fresh[d]
          /\ \/ fresh'[e] = leg[g][e].val /\ step' = IF todo' = {} THEN "decide" ELSE "refresh"
             \/ step' = "invalidate"
      BY <1>0, <2>3, RefreshFacts
    <3> HIDE DEF e
    <3>2. CASE step' = "invalidate"
      BY <1>0, <3>1, <3>2 DEF Rereading, Doing
    <3>3. CASE fresh'[e] = leg[g][e].val /\ step' = (IF todo' = {} THEN "decide" ELSE "refresh") /\ f = e
      BY <1>0, <3>1, <3>3 DEF Rereading, Doing
    <3>4. CASE step' = (IF todo' = {} THEN "decide" ELSE "refresh") /\ f # e
      <4>1. f \in todo \/ fresh[f] = leg[g][f].val
        BY <3>1 DEF Rereading, Doing
      <4> QED  BY <1>0, <3>1, <3>4, <4>1 DEF Rereading, Doing
    <3> QED  BY <3>1, <3>2, <3>3, <3>4
  <2> QED  BY <2>1, <2>2, <2>3
<1> QED  BY <1>1, <1>2, <1>3, Others

\* The parts of FreshInv keep SettingsFresh.
LEMMA FreshStep == IInv /\ FreshInv /\ [Next]_vars => SettingsFresh'
<1> SUFFICES ASSUME IInv, FreshInv, [Next]_vars, NEW c \in Cid, NEW g \in Gen, calls'[c] = g, NEW f \in Fam,
                    leg'[g][f].open, leg'[g][f].up, leg'[g][f].read # leg'[g][f].val, ~Told(c, g, f)'
             PROVE  Rereading(c, g, f)'
  <2> SUFFICES ASSUME IInv, FreshInv, [Next]_vars, NEW c \in Cid, calls'[c] # 0, NEW f \in Fam,
                      leg'[calls'[c]][f].open, leg'[calls'[c]][f].up,
                      leg'[calls'[c]][f].read # leg'[calls'[c]][f].val
               PROVE  \/ "reconf" \in Elements(leg'[calls'[c]][f].inds) \/ leg'[calls'[c]][f].cb = "reconf"
                      \/ Coming(Reconf(c, calls[c]))'
                      \/ (Doing({"refresh"}, c, calls[c]) /\ f \in todo)'
                      \/ (Doing({"refresh", "decide"}, c, calls[c]) /\ fresh[f] = leg[calls[c]][f].val)'
                      \/ Doing({"invalidate"}, c, calls[c])'
    BY DEF SettingsFresh, Legs
  <2>1. calls'[c] \in Gen
    BY NextStep DEF IInv, TypeOK
  <2>2. PICK g \in Gen : g = calls'[c]
    BY <2>1
  <2>3. Told(c, g, f)' \/ Rereading(c, g, f)'
    BY <2>2
  <2> QED  BY <2>2, <2>3 DEF Told, Rereading, Doing, Coming, Reconf
<1> DEFINE l == leg[g][f]  m == leg'[g][f]
<1>0. g # 0
  BY DEF Gen
<1>1. CASE Insert /\ Executor /\ c = task.cid
  <2>1. /\ InSetup /\ leg' = leg /\ g = task.gen
        /\ Elements(workQ') = Elements(workQ) \cup
             (IF \E e \in Legs(task.gen) : leg[task.gen][e].reconfig THEN {Reconf(task.cid, task.gen)} ELSE {})
    BY <1>1, InsertFacts
  <2>2. "reconf" \in Elements(l.inds) \/ l.reconfig
    BY <2>1 DEF FreshInv, SetupFresh
  <2>3. CASE "reconf" \in Elements(l.inds)
    BY <2>1, <2>3 DEF Told
  <2>4. CASE l.reconfig
    <3>1. f \in Legs(task.gen)
      BY <2>1 DEF Legs
    <3>2. Reconf(c, g) \in Elements(workQ')
      BY <1>1, <2>1, <2>4, <3>1
    <3>3. Coming(Reconf(c, g))'
      BY <3>2 DEF Coming
    <3> QED  BY <3>3 DEF Told
  <2> QED  BY <2>2, <2>3, <2>4
<1>2. CASE calls[c] = g
  <2>1. Owner(c, g) /\ m.open /\ m.up /\ m.read # m.val
    BY <1>2 DEF Owner
  <2>2. l.open
    BY <1>2, <2>1, CallLegs
  <2>3. /\ l.up /\ (m.val = l.val \/ "reconf" \in Elements(m.inds))
        /\ m.read = l.read \/ Decide
    BY <2>1, <2>2, LegOnward
  <2>4. m.val = l.val
    BY <2>3 DEF Told
  <2>5. ASSUME ~Told(c, g, f), l.read # l.val
        PROVE  Rereading(c, g, f)
    <3>1. FreshInv => \A d \in Cid : calls[d] # 0 => \A e \in Legs(calls[d]) :
                        /\ leg[calls[d]][e].up /\ leg[calls[d]][e].read # leg[calls[d]][e].val
                        => Told(d, calls[d], e) \/ Rereading(d, calls[d], e)
      BY DEF FreshInv, SettingsFresh, Told, Rereading
    <3> QED  BY <1>0, <1>2, <2>2, <2>3, <2>5, <3>1 DEF Legs
  <2>6. CASE Told(c, g, f)
    <3>1. Take /\ Reconf(c, g) = Head(execQ)
      BY <1>2, <2>1, <2>2, <2>6, ToldKept DEF FreshInv
    <3>2. step' = "refresh" /\ task' = Reconf(c, g) /\ todo' = Legs(g)
      BY <1>2, <3>1, ToldTaken
    <3>3. task'.cid = c /\ task'.gen = g /\ f \in todo'
      BY <2>2, <3>2 DEF Reconf, Legs
    <3> QED  BY <3>2, <3>3 DEF Rereading, Doing
  <2>7. CASE ~Told(c, g, f) /\ Decide
    <3>1. step = "decide" /\ todo = {} /\ task.cid \in Cid /\ calls[task.cid] = task.gen /\ task.gen \in Gen
      BY <2>7, DecideFacts DEF IInv, TaskInv
    <3>2. CASE task.cid # c
      <4>1. g # task.gen
        BY <1>0, <1>2, <3>1, <3>2 DEF IInv, CallsInv
      <4>2. m = l
        BY <2>7, <4>1, DecideFacts
      <4>3. Rereading(c, g, f)
        BY <2>1, <2>5, <2>7, <4>2
      <4> QED  BY <3>2, <4>3 DEF Rereading, Doing
    <3>3. CASE task.cid = c
      <4>1. g = task.gen /\ f \in Legs(g)
        BY <1>2, <2>2, <3>1, <3>3 DEF Legs
      <4>2. fresh[f] = l.val
        BY <2>3, <2>7, <3>1, <3>3, <4>1 DEF FreshInv, ReadFresh
      <4>3. m.read = l.val \/ (step' = "invalidate" /\ task' = task)
        BY <2>7, <4>1, <4>2, DecideFacts
      <4>4. step' = "invalidate" /\ task' = task
        BY <2>1, <2>4, <4>3
      <4> QED  BY <3>3, <4>1, <4>4 DEF Rereading, Doing
    <3> QED  BY <3>2, <3>3
  <2>8. CASE ~Told(c, g, f) /\ ~Decide
    <3>1. Rereading(c, g, f)
      BY <2>1, <2>3, <2>4, <2>5, <2>8
    <3> QED  BY <1>2, <2>4, <2>8, <3>1, RereadKept
  <2> QED  BY <2>6, <2>7, <2>8
<1> QED  BY <1>0, <1>1, <1>2, CallMoves

\* No change of a call's settings stays unread: not one that came while the call was
\* set up, nor one that came while an earlier one was read (SettingsFresh).
THEOREM ChangesAreRead == Spec => []SettingsFresh
<1>1. Init => FreshInv
  <2> SUFFICES ASSUME Init PROVE FreshInv
    OBVIOUS
  <2>1. step = "idle" /\ \A c \in Cid : calls[c] = 0
    BY DEF Init
  <2> QED  BY <2>1 DEF FreshInv, SetupFresh, PublishedInv, ReadFresh, SettingsFresh, InSetup, SetupSteps
<1>2. IInv /\ FreshInv /\ [Next]_vars => FreshInv'
  BY SetupFreshStep, PublishedStep, ReadStep, FreshStep DEF FreshInv
<1>3. IInv /\ FreshInv => SettingsFresh
  BY DEF FreshInv
<1> QED  BY <1>1, <1>2, <1>3, Invariance, PTL DEF Spec
=====
