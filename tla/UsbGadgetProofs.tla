--------------------------- MODULE UsbGadgetProofs ---------------------------
(***************************************************************************)
(* Proofs about UsbGadget, for any number of callers, any requests, any    *)
(* set of available functions and any number of calls and faults, with     *)
(* init's rule between any two writes of apply(): an armed composition is  *)
(* exactly the latest request, and kSuccess is true.                       *)
(***************************************************************************)
EXTENDS UsbGadget, TLAPS

Holding == {"apply", "link"}
Current == {"sleep", "apply", "link"}
Busy    == {"sleep", "apply", "link", "wait"}

\* A call whose generation is still current finds the controller as it left it,
\* and a call that holds the lock is current.
CallInv ==
  /\ \A p \in Client : pc[p] \in Setting => req[p] \in Requests
  /\ \A p \in Client : pc[p] \in Current => CanApply(req[p])
  /\ \A p \in Client :
       pc[p] \in Current /\ gen[p] = generation => ~armed /\ ~left /\ functions = req[p]
  /\ \A p \in Client :
       pc[p] = "wait" /\ gen[p] = generation => armed /\ functions = req[p]
  /\ \A p \in Client : pc[p] \in Holding => gen[p] = generation /\ req[p] # {}
  /\ \A p, q \in Client : p # q /\ pc[p] \in Busy /\ pc[q] \in Busy => gen[p] # gen[q]

ArmedInv ==
  /\ armed => /\ comp = functions /\ functions # {}
              /\ links = Links(functions) /\ pid = functions /\ links # <<>>
  /\ ~armed => comp = {}

BusInv == bound => links # <<>> /\ bus \in Shown(links)

\* What counts as applied is bound, unless adbd has died since; and with nothing
\* armed it is known who has made the links.
LinkInv ==
  /\ armed /\ applied => bound \/ lost
  /\ \A p \in Client : pc[p] = "link" => links = <<Head(Links(req[p]))>> /\ pid = req[p]
  /\ ~armed /\ ~left => links \in {<<>>, <<"adb">>} \/ \E p \in Client : pc[p] = "link"

IInv == TypeOK /\ CallInv /\ ArmedInv /\ BusInv /\ LinkInv

-----------------------------------------------------------------------------
(* The links of a request *)

\* compose() yields a list of function directories.
LEMMA LinksType ==
  ASSUME NEW S
  PROVE  Links(S) \in Compositions
<1> DEFINE f == CHOOSE x \in S \cap Main : TRUE
<1>1. S \cap Main # {} => f \in Main
  OBVIOUS
<1>2. <<>> \in Compositions /\ <<"adb">> \in Compositions
  BY DEF Compositions
<1>3. S \cap Main # {} => <<f>> \in Compositions
  BY <1>1 DEF Compositions
<1>4. Links(S) = (IF S \cap Main = {} THEN <<>> ELSE <<f>>) \o (IF "adb" \in S THEN <<"adb">> ELSE <<>>)
  BY DEF Links
<1>5. \A s, t \in Compositions : s \o t \in Compositions
  BY DEF Compositions
<1> HIDE DEF f
<1> QED BY <1>2, <1>3, <1>4, <1>5

\* Only charging links nothing.
LEMMA LinksNonEmpty ==
  ASSUME NEW S, CanApply(S), S # {}
  PROVE  Links(S) # <<>>
<1> DEFINE f == CHOOSE x \in S \cap Main : TRUE
<1>1. S \subseteq Main \cup {"adb"}
  BY DEF CanApply, Supported
<1>2. Links(S) = (IF S \cap Main = {} THEN <<>> ELSE <<f>>) \o (IF "adb" \in S THEN <<"adb">> ELSE <<>>)
  BY DEF Links
<1> HIDE DEF f
<1>3. CASE S \cap Main = {}
  <2>1. "adb" \in S
    BY <1>1, <1>3
  <2>2. Links(S) = <<>> \o <<"adb">>
    BY <1>2, <1>3, <2>1
  <2> QED BY <2>2
<1>4. CASE S \cap Main # {} /\ "adb" \in S
  <2>1. Links(S) = <<f>> \o <<"adb">>
    BY <1>2, <1>4
  <2> QED BY <2>1
<1>5. CASE S \cap Main # {} /\ "adb" \notin S
  <2>1. Links(S) = <<f>> \o <<>>
    BY <1>2, <1>5
  <2> QED BY <2>1
<1> QED BY <1>3, <1>4, <1>5

-----------------------------------------------------------------------------
(* The calls in progress *)

\* A step of one call keeps CallInv, if whoever else is under way is superseded,
\* or finds the controller unchanged by a call that has not begun.
LEMMA CallStep ==
  ASSUME TypeOK, CallInv, NEW p \in Client, NEW l \in Phases,
         NEW S \in Requests \cup {{}}, NEW g \in Nat,
         pc' = [pc EXCEPT ![p] = l],
         req' = [req EXCEPT ![p] = S],
         gen' = [gen EXCEPT ![p] = g],
         generation' \in {generation, generation + 1},
         l \in Setting => S \in Requests,
         l \in Current => CanApply(S) /\ ~armed' /\ ~left' /\ functions' = S,
         l \in Holding => S # {},
         l = "wait" => armed' /\ functions' = S,
         l \in Busy => g = generation',
         \A q \in Client \ {p} : pc[q] \in Busy
            => \/ pc[q] \notin Holding /\ gen[q] # generation'
               \/ l \notin Busy /\ UNCHANGED <<generation, armed, left, functions>>
  PROVE  CallInv'
<1>1. \A q \in Client : q # p => pc'[q] = pc[q] /\ req'[q] = req[q] /\ gen'[q] = gen[q]
  BY DEF TypeOK
<1>2. pc'[p] = l /\ req'[p] = S /\ gen'[p] = g
  BY DEF TypeOK
<1> DEFINE One(q) ==
      /\ pc'[q] \in Setting => req'[q] \in Requests
      /\ pc'[q] \in Current => CanApply(req'[q])
      /\ pc'[q] \in Current /\ gen'[q] = generation' => ~armed' /\ ~left' /\ functions' = req'[q]
      /\ pc'[q] = "wait" /\ gen'[q] = generation' => armed' /\ functions' = req'[q]
      /\ pc'[q] \in Holding => gen'[q] = generation' /\ req'[q] # {}
<1>3. One(p)
  BY <1>2 DEF Holding, Current, Busy
<1>4. ASSUME NEW q \in Client, q # p
      PROVE  One(q)
  <2>1. CASE pc[q] \notin Busy
    BY <1>1, <1>4, <2>1 DEF CallInv, Holding, Current, Busy
  <2>2. CASE pc[q] \in Busy /\ pc[q] \notin Holding /\ gen[q] # generation'
    BY <1>1, <1>4, <2>2 DEF CallInv, Holding, Current, Busy
  <2>3. CASE pc[q] \in Busy /\ UNCHANGED <<generation, armed, left, functions>>
    BY <1>1, <1>4, <2>3 DEF CallInv, Holding, Current, Busy
  <2> QED BY <1>4, <2>1, <2>2, <2>3
<1>5. ASSUME NEW q \in Client, NEW r \in Client, q # r, pc'[q] \in Busy, pc'[r] \in Busy
      PROVE  gen'[q] # gen'[r]
  <2>1. CASE q # p /\ r # p
    BY <1>1, <1>5, <2>1 DEF CallInv
  <2>2. CASE q = p
    BY <1>1, <1>2, <1>5, <2>2
  <2>3. CASE r = p
    BY <1>1, <1>2, <1>5, <2>3
  <2> QED BY <2>1, <2>2, <2>3
<1>6. \A q \in Client : One(q)
  BY <1>3, <1>4
<1> QED BY <1>5, <1>6 DEF CallInv, CanApply

\* A call outside setCurrentUsbFunctions has nothing to find.
LEMMA CallLeaves ==
  ASSUME TypeOK, CallInv, NEW p \in Client, NEW l \in {"idle", "resetting"},
         NEW S, NEW g,
         pc' = [pc EXCEPT ![p] = l],
         req' = [req EXCEPT ![p] = S],
         gen' = [gen EXCEPT ![p] = g],
         UNCHANGED <<generation, armed, left, functions>>
  PROVE  CallInv'
<1>1. \A q \in Client : q # p => pc'[q] = pc[q] /\ req'[q] = req[q] /\ gen'[q] = gen[q]
  BY DEF TypeOK
<1>2. pc'[p] = l
  BY DEF TypeOK
<1>3. l \notin Setting /\ l \notin Current /\ l \notin Holding /\ l \notin Busy /\ l # "wait"
  BY DEF Setting, Current, Holding, Busy
<1> QED BY <1>1, <1>2, <1>3 DEF CallInv, CanApply

\* A step that starts or ends no call and leaves the latest request alone.
LEMMA CallUnchanged ==
  ASSUME CallInv, UNCHANGED <<pc, req, gen, generation, armed, left, functions>>
  PROVE  CallInv'
BY DEF CallInv, CanApply

\* The lock excludes, whether it is held or just taken.
LEMMA Exclusive ==
  ASSUME IInv, NEW p \in Client, LockFree \/ pc[p] \in Holding
  PROVE  /\ \A q \in Client \ {p} : pc[q] \notin Holding
         /\ pc[p] \in Busy /\ gen[p] = generation
              => \A q \in Client \ {p} : pc[q] \in Busy => gen[q] # generation
BY DEF IInv, CallInv, LockFree, Holding, Busy

\* A step of the call that has the lock says itself what is linked.
LEMMA LinkStep ==
  ASSUME TypeOK, NEW p \in Client, NEW l, NEW S,
         \A q \in Client \ {p} : pc[q] \notin Holding,
         pc' = [pc EXCEPT ![p] = l],
         req' = [req EXCEPT ![p] = S],
         l = "link" => links' = <<Head(Links(S))>> /\ pid' = S,
         armed' /\ applied' => bus' # Down \/ lost',
         ~armed' /\ ~left' => links' \in {<<>>, <<"adb">>} \/ l = "link"
  PROVE  LinkInv'
<1>1. \A q \in Client : q # p => pc'[q] = pc[q]
  BY DEF TypeOK
<1>2. pc'[p] = l /\ req'[p] = S
  BY DEF TypeOK
<1>3. ASSUME NEW q \in Client, pc'[q] = "link"
      PROVE  links' = <<Head(Links(req'[q]))>> /\ pid' = req'[q]
  <2>1. q = p
    BY <1>1, <1>3 DEF Holding
  <2> QED BY <1>2, <1>3, <2>1
<1>4. ~armed' /\ ~left' => links' \in {<<>>, <<"adb">>} \/ \E q \in Client : pc'[q] = "link"
  BY <1>2
<1> QED BY <1>3, <1>4 DEF LinkInv, bound, Links

-----------------------------------------------------------------------------
(* Types *)

CallTypes ==
  /\ pc \in [Client -> Phases]
  /\ req \in [Client -> Requests \cup {{}}]
  /\ gen \in [Client -> 0..generation]
  /\ generation \in 0..MaxGen
  /\ answer \in Results
  /\ hal \in BOOLEAN /\ due \in BOOLEAN

GadgetTypes ==
  /\ links \in Compositions /\ bus \in Compositions \cup {Down}
  /\ pid \in Requests \cup {{}, {"adb"}}
  /\ comp \in Requests \cup {{}} /\ armed \in BOOLEAN /\ applied \in BOOLEAN
  /\ lost \in BOOLEAN /\ left \in BOOLEAN

EnvTypes ==
  /\ ready \in [Ffs -> BOOLEAN] /\ ffsProp \in BOOLEAN
  /\ init \in {"idle", "link", "bind"}
  /\ functions \in Requests \cup {{}}
  /\ faults \in 0..MaxFaults

LEMMA Types == TypeOK <=> CallTypes /\ GadgetTypes /\ EnvTypes
BY DEF TypeOK, CallTypes, GadgetTypes, EnvTypes

LEMMA FaultType ==
  ASSUME faults \in 0..MaxFaults, Fault \/ NoFault
  PROVE  faults' \in 0..MaxFaults
BY GadgetAssumption DEF Fault, NoFault

\* Returning leaves the call idle.
LEMMA Returned ==
  ASSUME CallTypes, NEW p \in Client, NEW r \in Results, Return(p, r),
         generation' \in 0..MaxGen, generation' \in {generation, generation + 1},
         ffsProp \in BOOLEAN
  PROVE  /\ CallTypes'
         /\ pc' = [pc EXCEPT ![p] = "idle"]
         /\ req' = [req EXCEPT ![p] = {}]
         /\ gen' = [gen EXCEPT ![p] = 0]
<1>1. hal' \in BOOLEAN /\ due' \in BOOLEAN
  BY DEF Return, CallTypes
<1>2. "idle" \in Phases
  BY DEF Phases
<1> QED BY <1>1, <1>2 DEF Return, CallTypes

\* Going on records the generation of the call.
LEMMA WentOn ==
  ASSUME CallTypes, NEW p \in Client, NEW l \in Phases, GoOn(p, l),
         generation' \in 0..MaxGen, generation' \in {generation, generation + 1}
  PROVE  /\ CallTypes'
         /\ pc' = [pc EXCEPT ![p] = l]
         /\ req' = [req EXCEPT ![p] = req[p]]
         /\ gen' = [gen EXCEPT ![p] = generation']
BY DEF GoOn, CallTypes

LEMMA RestsType ==
  ASSUME links \in Compositions, NEW rest \in Rests
  PROVE  rest \in Compositions
<1>1. <<>> \in Compositions
  BY DEF Compositions
<1>2. ASSUME NEW f \in Fns(links)
      PROVE  <<f>> \in Compositions
  <2>1. PICK i \in DOMAIN links : f = links[i]
    BY DEF Fns
  <2>2. f \in Main \cup {"adb"}
    BY <2>1 DEF Compositions
  <2> QED BY <2>2 DEF Compositions
<1> QED BY <1>1, <1>2 DEF Rests

\* Whatever an unlinkAll() leaves, the bus shows no more than that.
LEMMA Unlinked ==
  ASSUME GadgetTypes, BusInv, NEW rest \in Rests, NEW b \in {bus, Down}, Unlink(rest, b)
  PROVE  /\ links' \in Compositions /\ bus' \in Compositions \cup {Down} /\ left' \in BOOLEAN
         /\ BusInv' /\ (~left' => links' = <<>>)
<1>1. links' = rest /\ left' = (rest # <<>>) /\ bus' = IF rest = links THEN b ELSE Down
  BY DEF Unlink
<1>2. links' \in Compositions
  BY <1>1, RestsType DEF GadgetTypes
<1>3. bus' \in {bus, Down} /\ (bus' # Down => bus' = bus /\ links' = links)
  BY <1>1
<1>4. BusInv'
  BY <1>3 DEF BusInv, bound, Shown
<1> QED BY <1>1, <1>2, <1>3, <1>4 DEF GadgetTypes

-----------------------------------------------------------------------------
(* The first half of setFunctions *)

LEMMA EnterStep ==
  ASSUME IInv, NEW p \in Client, NEW S \in Requests, Enter(p, S)
  PROVE  IInv'
<1>1. CallTypes /\ GadgetTypes /\ EnvTypes
  BY Types DEF IInv
<1>2. "called" \in Phases /\ "called" \in Setting /\ "called" \notin Busy
  BY DEF Phases, Setting, Busy
<1>3. CallTypes' /\ GadgetTypes' /\ EnvTypes'
  <2>1. CallTypes'
    BY <1>1, <1>2 DEF Enter, CallTypes, control
  <2>2. GadgetTypes' /\ EnvTypes'
    BY <1>1 DEF Enter, GadgetTypes, EnvTypes, gadget, control, env
  <2> QED BY <2>1, <2>2
<1>4. /\ pc' = [pc EXCEPT ![p] = "called"] /\ req' = [req EXCEPT ![p] = S]
      /\ gen' = [gen EXCEPT ![p] = gen[p]] /\ gen[p] \in Nat
      /\ UNCHANGED <<gadget, control>>
  <2>1. gen[p] \in 0..generation /\ generation \in Nat
    BY <1>1 DEF CallTypes
  <2> QED BY <1>1, <2>1 DEF Enter, CallTypes
<1>5. CallInv'
  BY <1>2, <1>4, CallStep DEF IInv, Current, Holding, Busy, control, gadget
<1>6. ArmedInv' /\ BusInv'
  BY <1>4 DEF IInv, ArmedInv, BusInv, bound, Shown, control, gadget
<1>7. LinkInv'
  <2>1. \A q \in Client : pc'[q] = "link" <=> pc[q] = "link"
    BY <1>1, <1>4 DEF Enter, CallTypes
  <2>2. \A q \in Client : pc[q] = "link" => req'[q] = req[q]
    BY <1>1, <1>4 DEF Enter, CallTypes
  <2> QED BY <1>4, <2>1, <2>2 DEF IInv, LinkInv, bound, control, gadget
<1> QED BY <1>3, <1>5, <1>6, <1>7, Types, PTL DEF IInv

\* Beginning a call makes every other generation an old one.
LEMMA Begun ==
  ASSUME IInv, NEW p \in Client, Begin(p)
  PROVE  /\ generation' \in 0..MaxGen /\ generation' = generation + 1
         /\ \A q \in Client : gen[q] # generation' /\ pc[q] \notin Holding
         /\ functions' = req[p] /\ req[p] \in Requests /\ lost' = FALSE
         /\ ready' \in [Ffs -> BOOLEAN] /\ ffsProp' \in BOOLEAN /\ init' \in {"idle", "link", "bind"}
<1>1. req[p] \in Requests
  BY DEF Begin, IInv, CallInv, Setting
<1>2. \A q \in Client : gen[q] \in 0..generation
  BY DEF IInv, TypeOK
<1>3. \A q \in Client : pc[q] \notin Holding
  BY DEF Begin, LockFree, Holding
<1> QED BY <1>1, <1>2, <1>3, GadgetAssumption DEF Begin, IInv, TypeOK, env

\* An adopted gadget is what was asked for.
LEMMA AdoptStep ==
  ASSUME IInv, NEW p \in Client, Adopt(p)
  PROVE  IInv'
<1>1. CallTypes /\ GadgetTypes /\ EnvTypes
  BY Types DEF IInv
<1>2. /\ generation' \in 0..MaxGen /\ generation' = generation + 1
      /\ \A q \in Client : gen[q] # generation' /\ pc[q] \notin Holding
      /\ functions' = req[p] /\ req[p] \in Requests /\ lost' = FALSE
      /\ ready' \in [Ffs -> BOOLEAN] /\ ffsProp' \in BOOLEAN /\ init' \in {"idle", "link", "bind"}
  BY Begun DEF Adopt
<1>3. "success" \in Results
  BY DEF Results
<1>4. /\ CallTypes'
      /\ pc' = [pc EXCEPT ![p] = "idle"]
      /\ req' = [req EXCEPT ![p] = {}]
      /\ gen' = [gen EXCEPT ![p] = 0]
  BY <1>1, <1>2, <1>3, Returned DEF Adopt, EnvTypes
<1>5. GadgetTypes' /\ EnvTypes'
  BY <1>1, <1>2 DEF GadgetTypes, EnvTypes, Adopt, gadget
<1>6. /\ bound /\ pid = req[p] /\ links = Links(req[p]) /\ req[p] # {}
      /\ UNCHANGED gadget /\ comp' = req[p] /\ armed' = TRUE
  BY DEF Adopt, CanAdopt, matches, Pid
<1>7. ArmedInv' /\ BusInv'
  BY <1>2, <1>6 DEF IInv, ArmedInv, BusInv, bound, Shown, gadget
<1>8. LinkInv'
  BY <1>2, <1>4, <1>6, LinkStep DEF IInv, bound, gadget
<1>9. CallInv'
  BY <1>2, <1>4, CallStep DEF IInv, Phases, Setting, Current, Holding, Busy
<1> QED BY <1>4, <1>5, <1>7, <1>8, <1>9, Types, PTL DEF IInv

\* Unbinding and unlinking, as far as they work.
LEMMA TearDownStep ==
  ASSUME IInv, NEW p \in Client, TearDown(p)
  PROVE  IInv'
<1>1. CallTypes /\ GadgetTypes /\ EnvTypes
  BY Types DEF IInv
<1>2. /\ generation' \in 0..MaxGen /\ generation' = generation + 1
      /\ \A q \in Client : gen[q] # generation' /\ pc[q] \notin Holding
      /\ functions' = req[p] /\ req[p] \in Requests /\ lost' = FALSE
      /\ ready' \in [Ffs -> BOOLEAN] /\ ffsProp' \in BOOLEAN /\ init' \in {"idle", "link", "bind"}
  BY Begun DEF TearDown
<1>3. {"idle", "sleep", "apply"} \subseteq Phases
  BY DEF Phases, Setting
<1>4. comp' = {} /\ armed' = FALSE /\ pid' = pid
  BY DEF TearDown
<1>5. /\ links' \in Compositions /\ bus' \in Compositions \cup {Down} /\ left' \in BOOLEAN
      /\ BusInv' /\ (~left' => links' = <<>>)
      /\ applied' \in BOOLEAN /\ (Fault \/ NoFault)
  <2>1. CASE Unlink(<<>>, Down) /\ NoFault /\ applied' = (CanApply(req[p]) /\ ~bound /\ req[p] = {})
    <3>1. <<>> \in Rests
      BY DEF Rests
    <3> QED BY <1>1, <2>1, <3>1, Unlinked DEF IInv
  <2>2. CASE Fault /\ applied' = FALSE /\ \E rest \in Rests, b \in {bus, Down} : Unlink(rest, b)
    BY <1>1, <2>2, Unlinked DEF IInv
  <2> QED BY <2>1, <2>2 DEF TearDown
<1>6. GadgetTypes' /\ EnvTypes'
  BY <1>1, <1>2, <1>4, <1>5, FaultType DEF GadgetTypes, EnvTypes
<1>7. ArmedInv'
  BY <1>4 DEF ArmedInv
<1>8. \/ \E r \in Results : Return(p, r)
      \/ \E l \in {"sleep", "apply"} : GoOn(p, l) /\ CanApply(req[p]) /\ ~left' /\ (l = "apply" => req[p] # {})
  <2>1. {"success", "applyFailed", "notSupported"} \subseteq Results
    BY DEF Results
  <2>2. Unlink(<<>>, Down) => ~left'
    BY DEF Unlink
  <2> QED BY <2>1, <2>2, Zenon DEF TearDown
<1>9. CASE \E r \in Results : Return(p, r)
  <2>1. /\ CallTypes'
        /\ pc' = [pc EXCEPT ![p] = "idle"]
        /\ req' = [req EXCEPT ![p] = {}]
        /\ gen' = [gen EXCEPT ![p] = 0]
    BY <1>1, <1>2, <1>9, Returned DEF EnvTypes
  <2>2. CallInv'
    BY <1>2, <1>3, <2>1, CallStep DEF IInv, Setting, Current, Holding, Busy
  <2>3. LinkInv'
    BY <1>2, <1>4, <1>5, <2>1, LinkStep DEF IInv
  <2> QED BY <1>5, <1>6, <1>7, <2>1, <2>2, <2>3, Types, PTL DEF IInv
<1>10. ASSUME NEW l \in {"sleep", "apply"}, GoOn(p, l), CanApply(req[p]), ~left',
              l = "apply" => req[p] # {}
       PROVE  IInv'
  <2>1. /\ CallTypes'
        /\ pc' = [pc EXCEPT ![p] = l]
        /\ req' = [req EXCEPT ![p] = req[p]]
        /\ gen' = [gen EXCEPT ![p] = generation']
    BY <1>1, <1>2, <1>3, <1>10, WentOn
  <2>2. generation' \in Nat /\ l \in Phases
    BY <1>2, <1>3, GadgetAssumption
  <2>3. CallInv'
    BY <1>2, <1>4, <1>10, <2>1, <2>2, CallStep DEF IInv, Holding
  <2>4. LinkInv'
    BY <1>2, <1>4, <1>5, <2>1, LinkStep DEF IInv
  <2> QED BY <1>5, <1>6, <1>7, <2>1, <2>3, <2>4, Types, PTL DEF IInv
<1> QED BY <1>8, <1>9, <1>10

-----------------------------------------------------------------------------
(* The second half of setFunctions *)

\* The call that has the lock, and is the latest one.
HasLock(p) ==
  /\ pc[p] \in Current /\ gen[p] = generation
  /\ \A q \in Client \ {p} : pc[q] \notin Holding
  /\ UNCHANGED <<functions, generation, env, init>>

LEMMA LockFacts ==
  ASSUME IInv, NEW p \in Client, HasLock(p)
  PROVE  /\ CallTypes /\ GadgetTypes /\ EnvTypes
         /\ generation' = generation /\ generation' \in 0..MaxGen /\ generation' \in Nat
         /\ functions' = functions /\ functions = req[p] /\ ~armed /\ ~left
         /\ req[p] \in Requests /\ CanApply(req[p])
         /\ ready' \in [Ffs -> BOOLEAN] /\ ffsProp' \in BOOLEAN /\ init' \in {"idle", "link", "bind"}
         /\ \A q \in Client \ {p} : pc[q] \notin Holding /\ (pc[q] \in Busy => gen[q] # generation')
<1>1. CallTypes /\ GadgetTypes /\ EnvTypes
  BY Types DEF IInv
<1>2. generation' = generation /\ generation' \in 0..MaxGen /\ generation' \in Nat
  BY <1>1, GadgetAssumption DEF HasLock, CallTypes
<1>3. functions' = functions /\ functions = req[p] /\ ~armed /\ ~left
      /\ req[p] \in Requests /\ CanApply(req[p])
  BY DEF HasLock, IInv, CallInv, Current, Setting
<1>4. ready' \in [Ffs -> BOOLEAN] /\ ffsProp' \in BOOLEAN /\ init' \in {"idle", "link", "bind"}
  BY <1>1 DEF HasLock, env, EnvTypes
<1>5. \A q \in Client \ {p} : pc[q] \notin Holding /\ (pc[q] \in Busy => gen[q] # generation')
  BY <1>2 DEF HasLock, IInv, CallInv, Current, Busy
<1> QED BY <1>1, <1>2, <1>3, <1>4, <1>5

\* A call that ends with nothing armed, and tells what it leaves.
LEMMA EndsUnarmed ==
  ASSUME IInv, NEW p \in Client, HasLock(p), NEW r \in Results, Return(p, r),
         UNCHANGED <<comp, armed, lost>>, applied' \in BOOLEAN, GadgetTypes', BusInv',
         ~left' => links' \in {<<>>, <<"adb">>}, Fault \/ NoFault
  PROVE  IInv'
<1>1. /\ CallTypes /\ GadgetTypes /\ EnvTypes
      /\ generation' = generation /\ generation' \in 0..MaxGen /\ generation' \in Nat
      /\ functions' = functions /\ functions = req[p] /\ ~armed /\ ~left
      /\ req[p] \in Requests /\ CanApply(req[p])
      /\ ready' \in [Ffs -> BOOLEAN] /\ ffsProp' \in BOOLEAN /\ init' \in {"idle", "link", "bind"}
      /\ \A q \in Client \ {p} : pc[q] \notin Holding /\ (pc[q] \in Busy => gen[q] # generation')
  BY LockFacts
<1>2. /\ CallTypes'
      /\ pc' = [pc EXCEPT ![p] = "idle"]
      /\ req' = [req EXCEPT ![p] = {}]
      /\ gen' = [gen EXCEPT ![p] = 0]
  BY <1>1, Returned DEF EnvTypes
<1>3. EnvTypes'
  BY <1>1, FaultType DEF EnvTypes
<1>4. CallInv'
  BY <1>1, <1>2, CallStep DEF IInv, Phases, Setting, Current, Holding, Busy
<1>5. ArmedInv'
  BY <1>1 DEF IInv, ArmedInv
<1>6. LinkInv'
  BY <1>1, <1>2, LinkStep DEF IInv
<1> QED BY <1>2, <1>3, <1>4, <1>5, <1>6, Types, PTL DEF IInv

LEMMA ApplyFailsStep ==
  ASSUME IInv, NEW p \in Client, HasLock(p), NEW broken \in BOOLEAN, ApplyFails(p, broken),
         pid' \in Requests \cup {{}, {"adb"}}
  PROVE  IInv'
<1>1. GadgetTypes
  BY Types DEF IInv
<1>2. PICK rest \in Rests : Unlink(rest, bus) /\ IF broken \/ rest # <<>> THEN Fault ELSE NoFault
  BY DEF ApplyFails
<1>3. UNCHANGED <<comp, armed, applied, lost>> /\ Return(p, "applyFailed") /\ "applyFailed" \in Results
  BY DEF ApplyFails, Results
<1>4. /\ links' \in Compositions /\ bus' \in Compositions \cup {Down} /\ left' \in BOOLEAN
      /\ BusInv' /\ (~left' => links' = <<>>)
  BY <1>1, <1>2, Unlinked DEF IInv
<1>5. GadgetTypes'
  BY <1>1, <1>3, <1>4 DEF GadgetTypes
<1>6. applied' \in BOOLEAN /\ (Fault \/ NoFault)
  BY <1>2, <1>5 DEF GadgetTypes
<1> QED BY <1>3, <1>4, <1>5, <1>6, EndsUnarmed

\* The product id and f1.
LEMMA ApplyLinks ==
  ASSUME IInv, NEW p \in Client, HasLock(p), req[p] # {}, apply(p)
  PROVE  IInv'
<1>1. /\ CallTypes /\ GadgetTypes /\ EnvTypes
      /\ generation' = generation /\ generation' \in 0..MaxGen /\ generation' \in Nat
      /\ functions' = functions /\ functions = req[p] /\ ~armed /\ ~left
      /\ req[p] \in Requests /\ CanApply(req[p])
      /\ ready' \in [Ffs -> BOOLEAN] /\ ffsProp' \in BOOLEAN /\ init' \in {"idle", "link", "bind"}
      /\ \A q \in Client \ {p} : pc[q] \notin Holding /\ (pc[q] \in Busy => gen[q] # generation')
  BY LockFacts
<1>2. CASE \E broken \in BOOLEAN :
             /\ pid' \in {Pid(req[p])} \cup (IF broken THEN {pid} ELSE {})
             /\ ApplyFails(p, broken)
  <2>1. PICK broken \in BOOLEAN :
             /\ pid' \in {Pid(req[p])} \cup (IF broken THEN {pid} ELSE {})
             /\ ApplyFails(p, broken)
    BY <1>2
  <2>2. pid' \in Requests \cup {{}, {"adb"}}
    BY <1>1, <2>1 DEF Pid, GadgetTypes
  <2> QED BY <2>1, <2>2, ApplyFailsStep
<1>3. CASE /\ links = <<>> /\ NoFault
           /\ links' = <<Head(Links(req[p]))>> /\ pid' = Pid(req[p])
           /\ GoOn(p, "link")
           /\ UNCHANGED <<bus, left, comp, armed, applied, lost>>
  <2>1. "link" \in Phases /\ "link" \in Setting /\ "link" \in Current /\ "link" \in Holding
    BY DEF Phases, Setting, Current, Holding
  <2>2. /\ CallTypes'
        /\ pc' = [pc EXCEPT ![p] = "link"]
        /\ req' = [req EXCEPT ![p] = req[p]]
        /\ gen' = [gen EXCEPT ![p] = generation']
    BY <1>1, <1>3, <2>1, WentOn
  <2>3. links' \in Compositions
    <3>1. Links(req[p]) \in Compositions /\ Links(req[p]) # <<>>
      BY <1>1, LinksType, LinksNonEmpty
    <3>2. Head(Links(req[p])) \in Main \cup {"adb"}
      BY <3>1 DEF Compositions
    <3> QED BY <1>3, <3>2 DEF Compositions
  <2>4. GadgetTypes' /\ EnvTypes'
    BY <1>1, <1>3, <2>3, FaultType DEF GadgetTypes, EnvTypes, Pid
  <2>5. CallInv'
    BY <1>1, <1>3, <2>1, <2>2, CallStep DEF IInv
  <2>6. ArmedInv' /\ BusInv'
    BY <1>1, <1>3 DEF IInv, ArmedInv, BusInv, bound
  <2>7. LinkInv'
    BY <1>1, <1>3, <2>2, LinkStep DEF IInv, Pid
  <2> QED BY <2>2, <2>4, <2>5, <2>6, <2>7, Types, PTL DEF IInv
<1> QED BY <1>2, <1>3 DEF apply

LEMMA ApplyStep ==
  ASSUME IInv, NEW p \in Client, Apply(p)
  PROVE  IInv'
<1>1. pc[p] \in Holding /\ pc[p] \in Current /\ apply(p) /\ UNCHANGED <<functions, generation, env, init>>
  BY DEF Apply, Holding, Current
<1>2. gen[p] = generation /\ req[p] # {}
  BY <1>1 DEF IInv, CallInv
<1>3. HasLock(p)
  BY <1>1, <1>2, Exclusive DEF HasLock
<1> QED BY <1>1, <1>2, <1>3, ApplyLinks

\* tryBindLocked() shows what is linked, or leaves what is bound.
LEMMA Tried ==
  ASSUME NEW S, NEW l, TryBind(S, l)
  PROVE  /\ lost' = FALSE /\ applied' \in BOOLEAN /\ (Fault \/ NoFault)
         /\ \/ bound /\ bus' = bus /\ applied'
            \/ bus' = l /\ applied'
            \/ ~bound /\ bus' = bus /\ ~applied'
BY DEF TryBind

\* f2, and the first attempt to bind: init's rule may have bound f1 alone.
LEMMA ArmStep ==
  ASSUME IInv, NEW p \in Client, Arm(p)
  PROVE  IInv'
<1>0. /\ pc[p] = "link" /\ pc[p] \in Holding /\ pc[p] \in Current
      /\ pid' = pid /\ UNCHANGED <<functions, generation, env, init>>
  BY DEF Arm, Holding, Current
<1>1. HasLock(p) /\ req[p] # {}
  <2>1. gen[p] = generation /\ req[p] # {}
    BY <1>0 DEF IInv, CallInv
  <2> QED BY <1>0, <2>1, Exclusive DEF HasLock
<1>2. /\ CallTypes /\ GadgetTypes /\ EnvTypes
      /\ generation' = generation /\ generation' \in 0..MaxGen /\ generation' \in Nat
      /\ functions' = functions /\ functions = req[p] /\ ~armed /\ ~left
      /\ req[p] \in Requests /\ CanApply(req[p])
      /\ ready' \in [Ffs -> BOOLEAN] /\ ffsProp' \in BOOLEAN /\ init' \in {"idle", "link", "bind"}
      /\ \A q \in Client \ {p} : pc[q] \notin Holding /\ (pc[q] \in Busy => gen[q] # generation')
  BY <1>1, LockFacts
<1>3. CASE ApplyFails(p, ~bound)
  <2>1. (~bound) \in BOOLEAN /\ pid' \in Requests \cup {{}, {"adb"}}
    BY <1>0, <1>2 DEF GadgetTypes
  <2> QED BY <1>1, <1>3, <2>1, ApplyFailsStep
<1>4. CASE /\ links' = Links(req[p])
           /\ comp' = req[p] /\ armed' = TRUE
           /\ TryBind(req[p], Links(req[p]))
           /\ \/ applied' /\ Return(p, "success")
              \/ ~applied' /\ GoOn(p, "wait")
           /\ UNCHANGED left
  <2> DEFINE S == req[p]
             L == Links(S)
  <2>1. L \in Compositions /\ L # <<>>
    BY <1>1, <1>2, LinksType, LinksNonEmpty
  <2>2. links = <<Head(L)>> /\ pid = S
    BY <1>0 DEF IInv, LinkInv
  <2>3. /\ lost' = FALSE /\ applied' \in BOOLEAN /\ (Fault \/ NoFault)
        /\ \/ bound /\ bus' = bus /\ applied'
           \/ bus' = L /\ applied'
           \/ ~bound /\ bus' = bus /\ ~applied'
    BY <1>4, Tried
  <2> HIDE DEF S, L
  <2>4. bound => bus = <<Head(L)>>
    BY <2>2 DEF IInv, BusInv, Shown
  <2>5. bus' # Down => bus' \in Shown(L)
    BY <2>3, <2>4 DEF bound, Shown
  <2>6. links' = L /\ comp' = S /\ armed' /\ left' = left
    BY <1>4 DEF S, L
  <2>7. GadgetTypes' /\ EnvTypes'
    <3>1. S \in Requests /\ functions' = S
      BY <1>2 DEF S
    <3>2. bus' \in Compositions \cup {Down}
      BY <1>2, <2>1, <2>3 DEF GadgetTypes
    <3> QED BY <1>0, <1>2, <2>1, <2>3, <2>6, <3>1, <3>2, FaultType DEF GadgetTypes, EnvTypes
  <2>8. ArmedInv' /\ BusInv'
    <3>1. functions' = S /\ S # {} /\ pid' = S /\ L = Links(S)
      BY <1>0, <1>1, <1>2, <2>2 DEF S, L
    <3>2. ArmedInv'
      BY <2>1, <2>6, <3>1 DEF ArmedInv
    <3>3. BusInv'
      BY <2>1, <2>5, <2>6 DEF BusInv, bound, Shown
    <3> QED BY <3>2, <3>3
  <2>9. applied' => bus' # Down
    <3>1. L # Down
      BY <2>1, GadgetAssumption DEF Compositions
    <3> QED BY <2>3, <3>1 DEF bound
  <2>10. CASE applied' /\ Return(p, "success")
    <3>1. "success" \in Results
      BY DEF Results
    <3>2. /\ CallTypes'
          /\ pc' = [pc EXCEPT ![p] = "idle"]
          /\ req' = [req EXCEPT ![p] = {}]
          /\ gen' = [gen EXCEPT ![p] = 0]
      BY <1>2, <2>10, <3>1, Returned DEF EnvTypes
    <3>3. CallInv'
      BY <1>2, <3>2, CallStep DEF IInv, Phases, Setting, Current, Holding, Busy
    <3>4. LinkInv'
      BY <1>2, <2>6, <2>9, <3>2, LinkStep DEF IInv
    <3> QED BY <2>7, <2>8, <3>2, <3>3, <3>4, Types, PTL DEF IInv
  <2>11. CASE ~applied' /\ GoOn(p, "wait")
    <3>1. "wait" \in Phases /\ "wait" \notin Current /\ "wait" \notin Holding
      BY DEF Phases, Setting, Current, Holding
    <3>2. /\ CallTypes'
          /\ pc' = [pc EXCEPT ![p] = "wait"]
          /\ req' = [req EXCEPT ![p] = req[p]]
          /\ gen' = [gen EXCEPT ![p] = generation']
      BY <1>2, <2>11, <3>1, WentOn
    <3>3. CallInv'
      BY <1>2, <2>6, <3>1, <3>2, CallStep DEF IInv
    <3>4. LinkInv'
      BY <1>2, <2>6, <2>11, <3>2, LinkStep DEF IInv
    <3> QED BY <2>7, <2>8, <3>2, <3>3, <3>4, Types, PTL DEF IInv
  <2> QED BY <1>4, <2>10, <2>11
<1> QED BY <1>3, <1>4 DEF Arm

\* The lock is taken again after the wait for the host.
LEMMA ResumeStep ==
  ASSUME IInv, NEW p \in Client, Resume(p)
  PROVE  IInv'
<1>1. CallTypes /\ GadgetTypes /\ EnvTypes
  BY Types DEF IInv
<1>2. /\ generation' = generation /\ generation' \in 0..MaxGen /\ functions' = functions
      /\ ready' \in [Ffs -> BOOLEAN] /\ ffsProp' \in BOOLEAN /\ init' \in {"idle", "link", "bind"}
  BY <1>1 DEF Resume, env, EnvTypes, CallTypes
<1>3. pc[p] \in Current /\ \A q \in Client \ {p} : pc[q] \notin Holding
  BY Exclusive DEF Resume, Current
<1>4. CASE gen[p] # generation /\ Return(p, "error") /\ UNCHANGED <<gadget, comp, armed, applied, lost, faults>>
  <2>1. "error" \in Results
    BY DEF Results
  <2>2. /\ CallTypes'
        /\ pc' = [pc EXCEPT ![p] = "idle"]
        /\ req' = [req EXCEPT ![p] = {}]
        /\ gen' = [gen EXCEPT ![p] = 0]
    BY <1>1, <1>2, <1>4, <2>1, Returned DEF EnvTypes
  <2>3. CallInv'
    BY <1>2, <1>4, <2>2, CallLeaves DEF IInv, gadget, Resume
  <2>4. EnvTypes' /\ GadgetTypes' /\ ArmedInv' /\ BusInv'
    BY <1>1, <1>2, <1>4 DEF EnvTypes, GadgetTypes, IInv, ArmedInv, BusInv, Shown, gadget, bound
  <2>5. LinkInv'
    <3>1. \A q \in Client : pc[q] # "link"
      BY <1>3 DEF Resume, Holding
    <3> QED BY <1>3, <1>4, <2>2, <3>1, LinkStep DEF IInv, LinkInv, gadget, bound
  <2> QED BY <2>2, <2>3, <2>4, <2>5, Types, PTL DEF IInv
<1>5. CASE gen[p] = generation /\ (ChargeOnly(p) \/ (req[p] # {} /\ apply(p)))
  <2>1. HasLock(p)
    BY <1>3, <1>5 DEF HasLock, Resume
  <2>2. CASE req[p] # {} /\ apply(p)
    BY <2>1, <2>2, ApplyLinks
  <2>3. CASE ChargeOnly(p)
    <3>1. UNCHANGED <<gadget, comp, armed, lost>> /\ applied' = TRUE /\ NoFault
          /\ Return(p, "success") /\ "success" \in Results
      BY <2>3 DEF ChargeOnly, NoFault, Results
    <3>2. GadgetTypes' /\ BusInv'
      BY <1>1, <3>1 DEF GadgetTypes, IInv, BusInv, Shown, gadget, bound
    <3>3. \A q \in Client : pc[q] # "link"
      BY <1>3 DEF Resume, Holding
    <3>4. ~left' => links' \in {<<>>, <<"adb">>}
      BY <2>1, <3>1, <3>3, LockFacts DEF IInv, LinkInv, gadget
    <3> QED BY <2>1, <3>1, <3>2, <3>4, EndsUnarmed
  <2> QED BY <1>5, <2>2, <2>3
<1> QED BY <1>4, <1>5 DEF Resume

\* The end of the wait for the bind.
LEMMA EndWaitStep ==
  ASSUME IInv, NEW p \in Client, EndWait(p)
  PROVE  IInv'
<1>1. CallTypes /\ GadgetTypes /\ EnvTypes
  BY Types DEF IInv
<1>2. UNCHANGED <<gadget, control, env, init, faults>>
  BY DEF EndWait
<1>3. \E r \in Results : Return(p, r)
  BY DEF EndWait, Results
<1>4. /\ CallTypes'
      /\ pc' = [pc EXCEPT ![p] = "idle"]
      /\ req' = [req EXCEPT ![p] = {}]
      /\ gen' = [gen EXCEPT ![p] = 0]
  BY <1>1, <1>2, <1>3, Returned DEF EnvTypes, CallTypes, control
<1>5. CallInv'
  BY <1>2, <1>4, CallLeaves DEF IInv, gadget, control
<1>6. EnvTypes' /\ GadgetTypes' /\ ArmedInv' /\ BusInv'
  BY <1>1, <1>2 DEF EnvTypes, GadgetTypes, IInv, ArmedInv, BusInv, Shown, gadget, control, env, bound
<1>7. LinkInv'
  <2>1. \A q \in Client : pc[q] \notin Holding
    BY DEF EndWait, LockFree, Holding
  <2> QED BY <1>2, <1>4, <2>1, LinkStep DEF IInv, LinkInv, Holding, gadget, control, bound
<1> QED BY <1>4, <1>5, <1>6, <1>7, Types, PTL DEF IInv

-----------------------------------------------------------------------------
(* The monitor thread, and reset *)

\* tryBindLocked() binds what is armed.
LEMMA TryBindStep ==
  ASSUME IInv, armed, TryBind(comp, links),
         UNCHANGED <<links, pid, left, owner, functions, comp, armed, generation, env>>
  PROVE  EnvTypes' /\ GadgetTypes' /\ ArmedInv' /\ BusInv' /\ (applied' => bus' # Down)
<1>1. CallTypes /\ GadgetTypes /\ EnvTypes
  BY Types DEF IInv
<1>2. /\ lost' = FALSE /\ applied' \in BOOLEAN /\ (Fault \/ NoFault)
      /\ \/ bound /\ bus' = bus /\ applied'
         \/ bus' = links /\ applied'
         \/ ~bound /\ bus' = bus /\ ~applied'
  BY Tried
<1>3. EnvTypes' /\ GadgetTypes'
  BY <1>1, <1>2, FaultType DEF EnvTypes, GadgetTypes, env, owner
<1>4. links # Down
  BY <1>1, GadgetAssumption DEF GadgetTypes, Compositions
<1>5. ArmedInv' /\ BusInv'
  BY <1>2 DEF IInv, ArmedInv, BusInv, bound, Shown
<1> QED BY <1>2, <1>3, <1>4, <1>5 DEF bound

LEMMA MonitorStep ==
  ASSUME IInv, Monitor
  PROVE  IInv'
<1>1. EnvTypes' /\ GadgetTypes' /\ ArmedInv' /\ BusInv' /\ (applied' => bus' # Down)
  BY TryBindStep DEF Monitor
<1>2. CallTypes'
  BY Types DEF IInv, CallTypes, Monitor, calls, owner
<1>3. CallInv'
  BY CallUnchanged DEF IInv, Monitor, calls
<1>4. LinkInv'
  BY <1>1 DEF IInv, LinkInv, Monitor, calls, bound
<1> QED BY <1>1, <1>2, <1>3, <1>4, Types, PTL DEF IInv

LEMMA ResetStep ==
  ASSUME IInv, NEW p \in Client, reset(p)
  PROVE  IInv'
<1>1. CallTypes /\ GadgetTypes /\ EnvTypes
  BY Types DEF IInv
<1>2. CallTypes' /\ EnvTypes' /\ GadgetTypes'
  <2>1. CallTypes'
    BY <1>1 DEF reset, CallTypes, owner, Phases
  <2>2. EnvTypes' /\ GadgetTypes'
    BY <1>1 DEF reset, EnvTypes, GadgetTypes, owner, env
  <2> QED BY <2>1, <2>2
<1>3. ArmedInv' /\ BusInv'
  BY DEF reset, IInv, ArmedInv, BusInv, bound
<1>4. /\ req' = [req EXCEPT ![p] = req[p]] /\ req[p] \in Requests \cup {{}}
      /\ gen' = [gen EXCEPT ![p] = generation] /\ generation \in Nat
      /\ pc' = [pc EXCEPT ![p] = "resetting"] /\ armed /\ ~applied'
      /\ UNCHANGED <<generation, armed, left, functions, links>>
      /\ \A q \in Client : pc[q] \notin Holding
  BY <1>1, GadgetAssumption DEF reset, CallTypes, LockFree, Holding
<1>5. CallInv'
  BY <1>4, CallLeaves DEF IInv
<1>6. LinkInv'
  BY <1>4, LinkStep DEF IInv
<1> QED BY <1>2, <1>3, <1>5, <1>6, Types, PTL DEF IInv

LEMMA EndResetStep ==
  ASSUME IInv, NEW p \in Client, EndReset(p)
  PROVE  IInv'
<1>1. CallTypes /\ GadgetTypes /\ EnvTypes
  BY Types DEF IInv
<1>2. CallTypes'
  BY <1>1, GadgetAssumption DEF EndReset, CallTypes, owner, Phases
<1>3. EnvTypes' /\ GadgetTypes' /\ ArmedInv' /\ BusInv' /\ (armed' /\ applied' => bus' # Down \/ lost')
  <2>1. CASE gen[p] = generation /\ armed
    BY <2>1, TryBindStep DEF EndReset
  <2>2. CASE ~(gen[p] = generation /\ armed)
    BY <1>1, <2>2 DEF EndReset, EnvTypes, GadgetTypes, IInv, ArmedInv, BusInv, LinkInv, Shown, bound, env, owner
  <2> QED BY <2>1, <2>2
<1>4. /\ req' = [req EXCEPT ![p] = req[p]] /\ req[p] \in Requests \cup {{}}
      /\ gen' = [gen EXCEPT ![p] = 0]
      /\ pc' = [pc EXCEPT ![p] = "idle"]
      /\ UNCHANGED <<generation, armed, left, functions, links>>
      /\ \A q \in Client : pc[q] \notin Holding
  BY <1>1 DEF EndReset, CallTypes, LockFree, Holding
<1>5. CallInv'
  BY <1>4, CallLeaves DEF IInv
<1>6. LinkInv'
  <2>1. ~armed' /\ ~left' => links' \in {<<>>, <<"adb">>}
    BY <1>4 DEF IInv, LinkInv, Holding
  <2> QED BY <1>3, <1>4, <2>1, LinkStep DEF IInv
<1> QED BY <1>2, <1>3, <1>5, <1>6, Types, PTL DEF IInv

-----------------------------------------------------------------------------
(* Daemons, kernel and init, with or without the lock held *)

\* Only the death of adbd unbinds what is armed.
LEMMA DaemonDiesStep ==
  ASSUME IInv, NEW f \in Ffs, DaemonDies(f)
  PROVE  IInv'
<1>1. CallTypes /\ GadgetTypes /\ EnvTypes
  BY Types DEF IInv
<1>2. faults' \in 0..MaxFaults
  BY <1>1, FaultType DEF DaemonDies, EnvTypes
<1>3. \/ bus' = Down /\ lost' = TRUE
      \/ UNCHANGED <<bus, lost>>
  BY DEF DaemonDies
<1>4. CallTypes' /\ EnvTypes' /\ GadgetTypes'
  BY <1>1, <1>2, <1>3 DEF DaemonDies, CallTypes, EnvTypes, GadgetTypes, owner, calls
<1>5. CallInv'
  BY CallUnchanged DEF IInv, DaemonDies, calls
<1>6. ArmedInv' /\ BusInv' /\ LinkInv'
  BY <1>3 DEF IInv, DaemonDies, ArmedInv, BusInv, LinkInv, Shown, bound, calls
<1> QED BY <1>4, <1>5, <1>6, Types, PTL DEF IInv

LEMMA DaemonReadyStep ==
  ASSUME IInv, NEW f \in Ffs, DaemonReady(f)
  PROVE  IInv'
<1>1. CallTypes /\ GadgetTypes /\ EnvTypes
  BY Types DEF IInv
<1>2. CallTypes' /\ EnvTypes' /\ GadgetTypes'
  BY <1>1 DEF DaemonReady, CallTypes, EnvTypes, GadgetTypes, gadget, control, calls
<1>3. CallInv'
  BY CallUnchanged DEF IInv, DaemonReady, calls, control, gadget
<1>4. ArmedInv' /\ BusInv' /\ LinkInv'
  BY DEF IInv, DaemonReady, ArmedInv, BusInv, LinkInv, Shown, bound, calls, control, gadget
<1> QED BY <1>2, <1>3, <1>4, Types, PTL DEF IInv

\* init's early-adb rule cannot link over anything, and binds what is linked,
\* whoever is in the middle of linking it.
LEMMA RuleStep ==
  ASSUME IInv, RuleFires \/ RuleLinks \/ RuleBinds
  PROVE  IInv'
<1>1. CallTypes /\ GadgetTypes /\ EnvTypes
  BY Types DEF IInv
<1>2. <<"adb">> \in Compositions
  BY DEF Compositions
<1>3. CASE RuleFires
  <2>1. CallTypes' /\ EnvTypes' /\ GadgetTypes'
    BY <1>1, <1>3 DEF RuleFires, CallTypes, EnvTypes, GadgetTypes, gadget, control, calls, env
  <2>2. CallInv'
    BY <1>3, CallUnchanged DEF IInv, RuleFires, calls, control, gadget
  <2>3. ArmedInv' /\ BusInv' /\ LinkInv'
    BY <1>3 DEF IInv, RuleFires, ArmedInv, BusInv, LinkInv, Shown, bound, calls, control, gadget
  <2> QED BY <2>1, <2>2, <2>3, Types, PTL DEF IInv
<1>4. CASE RuleLinks
  <2>1. CallTypes' /\ EnvTypes' /\ GadgetTypes'
    BY <1>1, <1>2, <1>4 DEF RuleLinks, CallTypes, EnvTypes, GadgetTypes, control, calls, env
  <2>2. CallInv'
    BY <1>4, CallUnchanged DEF IInv, RuleLinks, calls, control
  <2>3. links # <<>> => links' = links
    BY <1>4 DEF RuleLinks
  <2>4. links = <<>> => links' = <<"adb">> /\ ~armed /\ ~bound /\ \A p \in Client : pc[p] # "link"
    BY <1>4 DEF RuleLinks, IInv, ArmedInv, BusInv, LinkInv
  <2>5. ArmedInv' /\ BusInv'
    BY <1>4, <2>3, <2>4 DEF IInv, RuleLinks, ArmedInv, BusInv, Shown, bound, control
  <2>6. LinkInv'
    BY <1>4, <2>3, <2>4 DEF IInv, RuleLinks, LinkInv, bound, control, calls
  <2> QED BY <2>1, <2>2, <2>5, <2>6, Types, PTL DEF IInv
<1>5. CASE RuleBinds
  <2>1. bus' = bus \/ (links # <<>> /\ bus' = links)
    BY <1>5 DEF RuleBinds
  <2>2. bound => bus' = bus
    BY <1>5 DEF RuleBinds
  <2>3. CallTypes' /\ EnvTypes' /\ GadgetTypes'
    BY <1>1, <1>5, <2>1 DEF RuleBinds, CallTypes, EnvTypes, GadgetTypes, control, calls, env
  <2>4. CallInv'
    BY <1>5, CallUnchanged DEF IInv, RuleBinds, calls, control
  <2>5. ArmedInv' /\ BusInv'
    BY <1>5, <2>1 DEF IInv, RuleBinds, ArmedInv, BusInv, Shown, bound, control
  <2>6. LinkInv'
    BY <1>5, <2>2 DEF IInv, RuleBinds, LinkInv, bound, control, calls
  <2> QED BY <2>3, <2>4, <2>5, <2>6, Types, PTL DEF IInv
<1> QED BY <1>3, <1>4, <1>5

-----------------------------------------------------------------------------
(* kSuccess *)

Kept(p) ==
  /\ functions' = req[p]
  /\ IF req[p] = {}
     THEN /\ ~armed' /\ links' \in {<<>>, <<"adb">>}
          /\ bus' \in {Down, <<"adb">>}
     ELSE /\ armed' /\ links' = Links(req[p]) /\ pid' = req[p]
          /\ bus' \in Shown(links') \/ lost'

\* Only the call itself ends.
LEMMA OwnStep ==
  ASSUME IInv, Next, NEW p \in Client, pc[p] \in Setting, pc'[p] = "idle"
  PROVE  GoesOn(p) /\ ~EndReset(p)
<1>1. CallTypes
  BY Types DEF IInv
<1>2. ASSUME NEW q \in Client, q # p, NEW l, pc' = [pc EXCEPT ![q] = l]
      PROVE  FALSE
  BY <1>1, <1>2 DEF CallTypes, Setting
<1>3. ASSUME NEW q \in Client, q # p, Call(q) \/ GoesOn(q)
      PROVE  \E l : pc' = [pc EXCEPT ![q] = l]
  <2>1. CASE \E r : Return(q, r)
    BY <2>1 DEF Return
  <2>2. CASE \E l : GoOn(q, l)
    BY <2>2 DEF GoOn
  <2>3. CASE \E S \in Requests : Enter(q, S)
    BY <2>3 DEF Enter
  <2>4. CASE Adopt(q)
    BY <2>4, <2>1 DEF Adopt
  <2>5. CASE TearDown(q)
    BY <2>5, <2>1, <2>2, Zenon DEF TearDown
  <2>6. CASE \E broken \in BOOLEAN : ApplyFails(q, broken)
    BY <2>6, <2>1 DEF ApplyFails
  <2>7. CASE apply(q)
    BY <2>7, <2>2, <2>6, Zenon DEF apply
  <2>8. CASE Arm(q)
    BY <2>8, <2>1, <2>2, Zenon DEF Arm, ApplyFails
  <2>9. CASE Resume(q)
    BY <2>9, <2>1, <2>7, Zenon DEF Resume, ChargeOnly
  <2>10. CASE EndWait(q)
    BY <2>10, <2>1 DEF EndWait
  <2>11. CASE reset(q) \/ EndReset(q)
    BY <2>11 DEF reset, EndReset
  <2> QED BY <1>3, <2>3, <2>4, <2>5, <2>7, <2>8, <2>9, <2>10, <2>11 DEF Call, GoesOn, setFunctions, Apply
<1>4. ~Call(p) /\ ~EndReset(p)
  BY DEF Call, Enter, reset, EndReset, Setting
<1>5. pc' # pc
  BY DEF Setting
<1>6. ~Monitor /\ ~RuleFires /\ ~RuleLinks /\ ~RuleBinds
      /\ \A f \in Ffs : ~DaemonDies(f) /\ ~DaemonReady(f)
  BY <1>5 DEF Monitor, RuleFires, RuleLinks, RuleBinds, DaemonDies, DaemonReady, calls
<1> QED BY <1>2, <1>3, <1>4, <1>6 DEF Next

\* What a successful call leaves behind, on each of its paths.
LEMMA SuccessStep ==
  ASSUME IInv, IInv', [Next]_vars, NEW p \in Client,
         pc[p] \in Setting, pc'[p] = "idle", answer' = "success"
  PROVE  Kept(p)
<1>1. Next
  BY DEF vars, calls, Setting
<1>2. GoesOn(p) /\ ~EndReset(p)
  BY <1>1, OwnStep
<1>3. \A l : GoOn(p, l) => pc'[p] = l
  BY DEF GoOn, IInv, TypeOK
<1>4. ~GoOn(p, "sleep") /\ ~GoOn(p, "apply") /\ ~GoOn(p, "link") /\ ~GoOn(p, "wait")
  BY <1>3
<1>5. \A r : Return(p, r) => r = "success"
  BY DEF Return
<1>6. ~Return(p, "applyFailed") /\ ~Return(p, "notSupported") /\ ~Return(p, "error")
  BY <1>5
<1>7. \A broken \in BOOLEAN : ~ApplyFails(p, broken)
  BY <1>6 DEF ApplyFails
<1>8. ~apply(p)
  BY <1>4, <1>7, Zenon DEF apply
<1>9. bus' # Down => bus' \in Shown(links')
  BY DEF IInv, BusInv, bound, Shown
<1>10. CASE Adopt(p)
  BY <1>9, <1>10 DEF Adopt, Begin, CanAdopt, matches, Kept, Pid, gadget, bound
<1>11. CASE TearDown(p)
  <2>1. /\ Begin(p) /\ armed' = FALSE
        /\ Unlink(<<>>, Down) /\ req[p] = {}
    BY <1>4, <1>6, <1>11, Zenon DEF TearDown
  <2>2. functions' = req[p] /\ links' = <<>> /\ bus' = Down
    BY <2>1 DEF Begin, Unlink
  <2> QED BY <2>1, <2>2 DEF Kept
<1>12. CASE Arm(p)
  <2>1. /\ links' = Links(req[p]) /\ armed' = TRUE /\ applied'
        /\ UNCHANGED <<pid, functions, generation>> /\ pc[p] = "link"
    BY <1>4, <1>7, <1>12 DEF Arm
  <2>2. gen[p] = generation /\ req[p] # {} /\ pid = req[p] /\ functions = req[p]
    BY <2>1 DEF IInv, CallInv, LinkInv, Holding, Current
  <2>3. bus' # Down \/ lost'
    BY <2>1 DEF IInv, LinkInv, bound
  <2> QED BY <1>9, <2>1, <2>2, <2>3 DEF Kept
<1>13. CASE Resume(p)
  <2>1. /\ gen[p] = generation /\ ChargeOnly(p) /\ functions' = functions
        /\ pc[p] = "sleep" /\ LockFree
    BY <1>6, <1>8, <1>13, Zenon DEF Resume
  <2>2. ~armed /\ ~left /\ functions = req[p]
    BY <2>1 DEF IInv, CallInv, Current
  <2>3. links \in {<<>>, <<"adb">>}
    BY <2>1, <2>2 DEF IInv, LinkInv, LockFree
  <2>4. req[p] = {} /\ UNCHANGED <<links, bus, armed>>
    BY <2>1 DEF ChargeOnly, gadget
  <2>5. bus \in {Down, <<"adb">>}
    BY <2>3 DEF IInv, BusInv, bound, Shown
  <2> QED BY <2>1, <2>2, <2>3, <2>4, <2>5 DEF Kept
<1>14. CASE EndWait(p)
  <2>1. pc[p] = "wait" /\ gen[p] = generation /\ applied /\ UNCHANGED <<gadget, control>>
    BY <1>6, <1>14 DEF EndWait
  <2>2. armed /\ functions = req[p]
    BY <2>1 DEF IInv, CallInv
  <2>3. /\ req[p] # {} /\ links = Links(req[p]) /\ pid = req[p]
        /\ bus # Down \/ lost
    BY <2>1, <2>2 DEF IInv, ArmedInv, LinkInv, bound
  <2> QED BY <1>9, <2>1, <2>2, <2>3 DEF Kept, gadget, control
<1> QED BY <1>2, <1>8, <1>10, <1>11, <1>12, <1>13, <1>14 DEF GoesOn, setFunctions, Apply

-----------------------------------------------------------------------------
(* The theorems *)

LEMMA InitInv ==
  Init => IInv
<1> SUFFICES ASSUME Init PROVE IInv
  OBVIOUS
<1>1. <<>> \in Compositions /\ "none" \in Results /\ "idle" \in Phases
  BY DEF Compositions, Results, Phases
<1>2. 0 \in 0..MaxGen /\ 0 \in 0..MaxFaults /\ 0 \in 0..0
  BY GadgetAssumption
<1>3. CallTypes
  BY <1>1, <1>2 DEF Init, CallTypes
<1>4. GadgetTypes
  BY <1>1 DEF Init, GadgetTypes
<1>5. EnvTypes
  BY <1>2 DEF Init, EnvTypes
<1>6. TypeOK
  BY <1>3, <1>4, <1>5, Types
<1>7. \A p \in Client : pc[p] = "idle"
  BY DEF Init
<1>8. CallInv
  BY <1>7 DEF CallInv, Setting, Current, Holding, Busy
<1>9. ArmedInv /\ BusInv
  BY DEF Init, ArmedInv, BusInv, bound
<1>10. LinkInv
  BY <1>7 DEF Init, LinkInv
<1> QED BY <1>6, <1>8, <1>9, <1>10 DEF IInv

LEMMA StutterInv ==
  ASSUME IInv, UNCHANGED vars
  PROVE  IInv'
<1> USE DEF vars, gadget, owner, control, calls, env
<1>1. TypeOK'
  BY DEF IInv, TypeOK, Compositions, Results, Phases, Setting
<1>2. CallInv'
  BY CallUnchanged DEF IInv
<1>3. ArmedInv' /\ BusInv' /\ LinkInv'
  BY DEF IInv, ArmedInv, BusInv, LinkInv, Shown, bound
<1> QED BY <1>1, <1>2, <1>3 DEF IInv

\* Every step of the system keeps the invariant.
LEMMA NextInv ==
  IInv /\ [Next]_vars => IInv'
<1> SUFFICES ASSUME IInv, [Next]_vars PROVE IInv'
  OBVIOUS
<1>1. CASE UNCHANGED vars
  BY <1>1, StutterInv
<1>2. ASSUME NEW p \in Client, Call(p)
      PROVE  IInv'
  BY <1>2, EnterStep, ResetStep DEF Call
<1>3. ASSUME NEW p \in Client, GoesOn(p)
      PROVE  IInv'
  BY <1>3, AdoptStep, TearDownStep, ApplyStep, ArmStep, ResumeStep, EndWaitStep, EndResetStep
     DEF GoesOn, setFunctions
<1>4. CASE Monitor
  BY <1>4, MonitorStep
<1>5. ASSUME NEW f \in Ffs, DaemonDies(f) \/ DaemonReady(f)
      PROVE  IInv'
  BY <1>5, DaemonDiesStep, DaemonReadyStep
<1>6. CASE RuleFires \/ RuleLinks \/ RuleBinds
  BY <1>6, RuleStep
<1> QED BY <1>1, <1>2, <1>3, <1>4, <1>5, <1>6 DEF Next

\* Who has bound what, when nothing is armed.
LEMMA BoundIsKnown ==
  IInv => Coherent
<1> SUFFICES ASSUME IInv PROVE Coherent
  OBVIOUS
<1>1. ASSUME bound, ~armed, ~left
      PROVE  bus = <<"adb">> \/ \E p \in Client : pc[p] = "link" /\ bus = <<Head(Links(req[p]))>>
  <2>1. links # <<>> /\ bus \in Shown(links)
    BY <1>1 DEF IInv, BusInv
  <2>2. CASE links = <<"adb">>
    BY <2>1, <2>2 DEF Shown
  <2>3. CASE \E p \in Client : pc[p] = "link"
    <3>1. PICK p \in Client : pc[p] = "link"
      BY <2>3
    <3> DEFINE h == Head(Links(req[p]))
    <3>2. links = <<h>>
      BY <3>1 DEF IInv, LinkInv
    <3> HIDE DEF h
    <3>3. bus = <<h>>
      BY <2>1, <3>2 DEF Shown
    <3> QED BY <3>1, <3>3 DEF h
  <2> QED BY <1>1, <2>1, <2>2, <2>3 DEF IInv, LinkInv
<1> QED BY <1>1 DEF IInv, ArmedInv, BusInv, Coherent

THEOREM Invariant == Spec => []IInv
<1> QED BY InitInv, NextInv, PTL DEF Spec

\* Every variable keeps its type, in any interleaving of callers, monitor,
\* daemons and init.
THEOREM TypeCorrect == Spec => []TypeOK
<1> QED BY Invariant, PTL DEF IInv

\* No superseded request, monitor step, reset or early-adb rule leaves its links
\* under an armed composition, and what else is bound is init's adb, f1 of a
\* call under way or left by a failed unlink (Controller::setFunctions).
THEOREM GadgetCoherent == Spec => []Coherent
<1> QED BY Invariant, BoundIsKnown, PTL

\* kSuccess means that the gadget is set to what the call asked for, whoever
\* had the lock in between, NONE included (Controller::setFunctions).
THEOREM SuccessTrue == Spec => SuccessIsTrue
<1> DEFINE A == \A p \in Client :
                  pc[p] \in Setting /\ pc'[p] = "idle" /\ answer' = "success" => Kept(p)
<1>1. IInv /\ IInv' /\ [Next]_vars => A
  BY SuccessStep
<1>2. IInv /\ IInv' /\ [Next]_vars => [A]_vars
  BY <1>1
<1>3. SuccessIsTrue <=> [][A]_vars
  BY DEF SuccessIsTrue, Kept
<1> QED BY <1>2, <1>3, Invariant, PTL DEF Spec
=============================================================================
