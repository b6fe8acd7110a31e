--------------------------- MODULE QmiClientProofs ---------------------------
(***************************************************************************)
(* Proofs about QmiClient, for any number of requesters, servers and       *)
(* services, any number of calls and failures and any size of transaction  *)
(* numbers: its calls are calls of QmiCalls, none waits in vain, and the   *)
(* observers of the services miss nothing.                                 *)
(***************************************************************************)
EXTENDS QmiClient, SequenceTheorems, FiniteSetTheorems, TLAPS

\* The client is open exactly while its owner watches it; a reader that runs
\* has a transport, and servers are known only through a transport that works.
\* A thread that posts or delivers has something to.
SessionInv ==
  /\ owner = "watch" <=> running
  /\ owner \in {"sweep", "join", "clear"} => failed
  /\ owner \in {"clear", "closed"} => reader = "off"
  /\ reader = "run" => ~failed
  /\ servers # {} => running /\ ~failed
  /\ reader = "post" => unposted # <<>>
  /\ disp = "deliver" => batch # <<>>

\* The requests and answers under way, by service, number and call.
Triple(s, n, c) == [svc |-> s, txn |-> n, call |-> c]
AtRequester == {Triple(slot[r].svc, slot[r].num, call[r]) : r \in {r \in Requester : Pending(r)}}
AtServer    == {Triple(SvcOf[q.to], q.txn, q.call) : q \in sent}
Queued      == {p \in Elements(inbox) : p.kind = "answer"}
AtReader    == {Triple(SvcOf[p.from], p.txn, p.call) : p \in Queued}
Outstanding == AtRequester \cup AtServer \cup AtReader

\* A number stands for one call of its service, wherever it is found.
NumberInv ==
  \A x, y \in Outstanding : x.svc = y.svc /\ x.txn = y.txn => x.call = y.call

\* A call that has not left yet is nowhere; one on its way has not been served,
\* and travels once; an answer in the queue, or taken from it, was served.
CallInv ==
  /\ \A r \in Requester : pc[r] = "idle" <=> call[r] = 0
  /\ \A r, o \in Requester : call[r] = call[o] /\ call[r] # 0 => r = o
  /\ \A q \in sent : q.call <= calls /\ q.call \notin served
  /\ \A q, o \in sent : q.call = o.call => q = o
  /\ \A p \in Queued : p.call \in served
  /\ \A r \in Requester :
       pc[r] \in {"register", "send"} =>
         /\ call[r] \notin served /\ slot[r].status # "answered"
         /\ \A q \in sent : q.call # call[r]
  /\ \A r \in Requester :
       pc[r] = "send" =>
         slot[r].num # 0 /\ \E a \in Server : slot[r].to = {a} /\ SvcOf[a] = slot[r].svc
  /\ \A r \in Requester :
       pc[r] = "wait" /\ slot[r].status = "answered" => call[r] \in served

IInv == TypeOK /\ SessionInv /\ WaitsForSomeone /\ NumberInv /\ CallInv

-----------------------------------------------------------------------------
(* Sequences and events *)

\* The listings of a set of services become events.
LEMMA EventsOf ==
  ASSUME NEW S \in SUBSET Service, NEW f \in Orders(S), NEW up \in BOOLEAN
  PROVE  [i \in DOMAIN f |-> SvcEvent(f[i], up)] \in Seq(Events)
<1>1. Cardinality(S) \in Nat
  BY FS_Subset, FS_CardinalityType, ConstantsAssumption
<1>2. f \in [1..Cardinality(S) -> S]
  BY DEF Orders
<1>3. \A i \in 1..Cardinality(S) : SvcEvent(f[i], up) \in Events
  BY <1>2 DEF SvcEvent, Events
<1> QED BY <1>1, <1>2, <1>3

\* The listings of the servers that are up become packets.
LEMMA PacketsOf ==
  ASSUME NEW S \in SUBSET Server, NEW f \in Orders(S)
  PROVE  LET q == [i \in DOMAIN f |-> New(f[i])]
         IN  q \in Seq(Packets) /\ \A i \in DOMAIN q : q[i].kind = "new"
<1>1. Cardinality(S) \in Nat
  BY FS_Subset, FS_CardinalityType, ConstantsAssumption
<1>2. f \in [1..Cardinality(S) -> S]
  BY DEF Orders
<1>3. \A i \in 1..Cardinality(S) : New(f[i]) \in Packets
  BY <1>2 DEF New, Packets
<1> QED BY <1>1, <1>2, <1>3 DEF New

LEMMA ElementsAppend ==
  ASSUME NEW T, NEW q \in Seq(T), NEW e \in T
  PROVE  Elements(Append(q, e)) = Elements(q) \cup {e}
<1>1. DOMAIN Append(q, e) = 1..(Len(q) + 1) /\ DOMAIN q = 1..Len(q)
  OBVIOUS
<1>2. \A i \in DOMAIN Append(q, e) : Append(q, e)[i] = IF i <= Len(q) THEN q[i] ELSE e
  OBVIOUS
<1>3. Len(q) \in Nat
  OBVIOUS
<1>4. \A x : x \in Elements(Append(q, e)) => x \in Elements(q) \cup {e}
  BY <1>1, <1>2, <1>3 DEF Elements
<1>5. \A x \in Elements(q) : x \in Elements(Append(q, e))
  <2> SUFFICES ASSUME NEW i \in DOMAIN q PROVE q[i] \in Elements(Append(q, e))
    BY DEF Elements
  <2>1. i \in DOMAIN Append(q, e) /\ Append(q, e)[i] = q[i]
    BY <1>1, <1>2, <1>3
  <2> QED BY <2>1 DEF Elements
<1>6. e \in Elements(Append(q, e))
  <2>1. Len(q) + 1 \in DOMAIN Append(q, e) /\ Append(q, e)[Len(q) + 1] = e
    BY <1>1, <1>2, <1>3
  <2> QED BY <2>1 DEF Elements
<1> QED BY <1>4, <1>5, <1>6

LEMMA ElementsTail ==
  ASSUME NEW T, NEW q \in Seq(T), q # <<>>
  PROVE  /\ Elements(Tail(q)) \subseteq Elements(q) /\ Head(q) \in Elements(q)
         /\ Tail(q) \in Seq(T) /\ Head(q) \in T
<1>1. \A i \in DOMAIN Tail(q) : i + 1 \in DOMAIN q /\ Tail(q)[i] = q[i + 1]
  OBVIOUS
<1>2. 1 \in DOMAIN q /\ Head(q) = q[1]
  OBVIOUS
<1>3. Tail(q) \in Seq(T) /\ Head(q) \in T
  OBVIOUS
<1> QED BY <1>1, <1>2, <1>3 DEF Elements

LEMMA ElementsIn ==
  ASSUME NEW T, NEW q \in Seq(T)
  PROVE  Elements(q) \subseteq T
<1> QED BY DEF Elements

\* What completing requests changes: their status.
LEMMA CompleteEffect ==
  ASSUME TypeOK, NEW R \in SUBSET {r \in Requester : Pending(r)}, NEW s \in Statuses, Complete(R, s)
  PROVE  /\ slot' \in [Requester -> Slots \cup {NoSlot}]
         /\ \A r \in Requester : slot'[r] = NoSlot <=> slot[r] = NoSlot
         /\ \A r \in Requester : pc[r] # "idle" =>
              /\ slot'[r].svc = slot[r].svc /\ slot'[r].to = slot[r].to /\ slot'[r].num = slot[r].num
              /\ slot'[r].status = IF r \in R THEN s ELSE slot[r].status
<1> USE DEF TypeOK
<1>1. \A r \in Requester : slot[r] \in Slots \/ (slot[r] = NoSlot /\ r \notin R)
  BY DEF Pending
<1>2. \A r \in Requester : pc[r] # "idle" => slot[r] \in Slots
  BY <1>1
<1>3. \A r \in Requester : slot'[r] = IF r \in R THEN [slot[r] EXCEPT !.status = s] ELSE slot[r]
  BY DEF Complete
<1>4. DOMAIN slot' = Requester
  BY DEF Complete
<1>5. \A r \in R : /\ slot'[r] \in Slots /\ slot'[r].status = s
                   /\ slot'[r].svc = slot[r].svc /\ slot'[r].to = slot[r].to /\ slot'[r].num = slot[r].num
  BY <1>1, <1>3 DEF Slots
<1>6. slot' = [r \in Requester |-> slot'[r]]
  BY DEF Complete
<1>7. slot' \in [Requester -> Slots \cup {NoSlot}]
  BY <1>1, <1>3, <1>5, <1>6
<1>8. \A r \in R : slot[r] # NoSlot /\ pc[r] # "idle"
  BY DEF Pending
<1>9. \A r \in R : slot'[r] # NoSlot
  BY <1>5, NoSlotAssumption
<1> QED BY <1>3, <1>5, <1>7, <1>8, <1>9

-----------------------------------------------------------------------------
(* What groups of steps have in common *)

\* No number is given out: what is under way is still told apart by it.
LEMMA Fewer ==
  ASSUME NumberInv, Outstanding' \subseteq Outstanding
  PROVE  NumberInv'
<1>1. \A x \in Outstanding' : x \in Outstanding
  OBVIOUS
<1> QED BY <1>1 DEF NumberInv

\* A step that touches no request, answer or number.
LEMMA RestInv ==
  ASSUME NumberInv, CallInv, UNCHANGED <<pc, slot, calls, call, served, txn, sent, inbox>>
  PROVE  NumberInv' /\ CallInv'
<1>1. Outstanding' = Outstanding /\ Queued' = Queued
  BY DEF Outstanding, AtRequester, AtServer, AtReader, Queued, Triple, Pending, Elements
<1>2. NumberInv'
  BY <1>1, Fewer
<1>3. CallInv'
  BY <1>1 DEF CallInv
<1> QED BY <1>2, <1>3

\* A step that completes requests of R and takes from the queue.
LEMMA StatusInv ==
  ASSUME IInv, NEW R \in SUBSET {r \in Requester : Pending(r)}, NEW s \in Statuses, Complete(R, s),
         UNCHANGED <<pc, calls, call, served, txn, sent>>, Queued' \subseteq Queued,
         s = "answered" => \A r \in R : call[r] \in served
  PROVE  NumberInv' /\ CallInv'
<1>1. TypeOK /\ NumberInv /\ CallInv
  BY DEF IInv
<1>2. \A r \in Requester : pc[r] # "idle" =>
        /\ slot'[r].svc = slot[r].svc /\ slot'[r].to = slot[r].to /\ slot'[r].num = slot[r].num
        /\ slot'[r].status = IF r \in R THEN s ELSE slot[r].status
  BY <1>1, CompleteEffect
<1>3. AtRequester' = AtRequester
  <2>1. \A r \in Requester : Pending(r)' <=> Pending(r)
    BY DEF Pending
  <2>2. \A r \in {r \in Requester : Pending(r)} :
          Triple(slot[r].svc, slot[r].num, call[r])' = Triple(slot[r].svc, slot[r].num, call[r])
    BY <1>2 DEF Pending, Triple
  <2> QED BY <2>1, <2>2 DEF AtRequester
<1>4. AtServer' = AtServer
  BY DEF AtServer, Triple
<1>5. AtReader' \subseteq AtReader
  BY DEF AtReader, Triple
<1>6. NumberInv'
  BY <1>1, <1>3, <1>4, <1>5, Fewer DEF Outstanding
<1>7. \A r \in R : pc[r] \in {"send", "wait"}
  BY DEF Pending
<1>8. \A r \in Requester :
        pc[r] \in {"register", "send"} => slot'[r].status # "answered"
  BY <1>1, <1>2 DEF CallInv
<1>9. \A r \in Requester :
        pc[r] = "send" =>
          slot'[r].num # 0 /\ \E a \in Server : slot'[r].to = {a} /\ SvcOf[a] = slot'[r].svc
  BY <1>1, <1>2 DEF CallInv
<1>10. \A r \in Requester :
         pc[r] = "wait" /\ slot'[r].status = "answered" => call[r] \in served
  BY <1>1, <1>2 DEF CallInv
<1>11. CallInv'
  BY <1>1, <1>8, <1>9, <1>10 DEF CallInv
<1> QED BY <1>6, <1>11

\* A call that returns takes its entry along.
LEMMA ReturnInv ==
  ASSUME IInv, NEW r \in Requester, NEW s, Return(r, s), pc[r] # "idle",
         s = "answered" => call[r] \in served,
         UNCHANGED <<running, failed, servers, txn, served, sent, inbox>>
  PROVE  /\ pc' \in [Requester -> {"idle", "register", "send", "wait"}]
         /\ slot' \in [Requester -> Slots \cup {NoSlot}]
         /\ \A o \in Requester : slot'[o] = NoSlot <=> pc'[o] = "idle"
         /\ call' \in [Requester -> 0..calls'] /\ answered' \in SUBSET (1..calls')
         /\ WaitsForSomeone' /\ NumberInv' /\ CallInv'
<1> USE DEF Return
<1>1. TypeOK /\ NumberInv /\ CallInv /\ WaitsForSomeone
  BY DEF IInv
<1>2. \A o \in Requester : o # r => slot'[o] = slot[o] /\ call'[o] = call[o] /\ pc'[o] = pc[o]
  BY <1>1 DEF TypeOK
<1>3. slot'[r] = NoSlot /\ call'[r] = 0 /\ pc'[r] = "idle"
  BY <1>1 DEF TypeOK
<1>4. call[r] \in 1..calls /\ call[r] # 0
  BY <1>1 DEF TypeOK, CallInv
<1>5. pc' \in [Requester -> {"idle", "register", "send", "wait"}]
  BY <1>1 DEF TypeOK
<1>6. slot' \in [Requester -> Slots \cup {NoSlot}]
  BY <1>1 DEF TypeOK
<1>7. \A o \in Requester : slot'[o] = NoSlot <=> pc'[o] = "idle"
  BY <1>1, <1>2, <1>3 DEF TypeOK
<1>8. 0 \in 0..calls
  BY <1>1, ConstantsAssumption DEF TypeOK
<1>9. call' \in [Requester -> 0..calls'] /\ answered' \in SUBSET (1..calls')
  BY <1>1, <1>4, <1>8 DEF TypeOK
<1>10. \A o \in Requester : Pending(o)' => o # r /\ Pending(o)
  BY <1>2, <1>3 DEF Pending
<1>11. \A o \in Requester : Waits(o)' => o # r /\ Waits(o)
  BY <1>2, <1>10 DEF Waits
<1>12. WaitsForSomeone'
  BY <1>1, <1>2, <1>11 DEF WaitsForSomeone, Has
<1>13. AtRequester' \subseteq AtRequester
  BY <1>2, <1>10 DEF AtRequester, Triple
<1>14. AtServer' = AtServer /\ AtReader' = AtReader /\ Queued' = Queued
  BY DEF AtServer, AtReader, Queued, Triple, Elements
<1>15. NumberInv'
  BY <1>1, <1>13, <1>14, Fewer DEF Outstanding
<1>16. \A o \in Requester : pc'[o] # "idle" => o # r
  BY <1>3
<1>17. CallInv'
  BY <1>1, <1>2, <1>3, <1>14, <1>16 DEF CallInv
<1> QED BY <1>5, <1>6, <1>7, <1>9, <1>12, <1>15, <1>17

-----------------------------------------------------------------------------
(* The steps of a request *)

LEMMA InitInv ==
  Init => IInv
<1> SUFFICES ASSUME Init PROVE IInv
  OBVIOUS
<1> USE DEF Init
<1>0. 0 \in 0..0 /\ 0 \in 0..TxnMax /\ 0 \in 0..MaxCalls /\ 0 \in 0..MaxFails /\ 0 \in 0..MaxModem
  BY ConstantsAssumption
<1>1. <<>> \in Seq(Events) /\ <<>> \in Seq(Packets)
  OBVIOUS
<1>2. TypeOK
  BY <1>0, <1>1 DEF TypeOK
<1>3. SessionInv
  BY DEF SessionInv
<1>4. \A r \in Requester : ~Pending(r)
  BY DEF Pending
<1>5. WaitsForSomeone
  BY <1>4 DEF WaitsForSomeone, Waits
<1>6. Elements(inbox) = {}
  BY DEF Elements
<1>7. Outstanding = {}
  BY <1>4, <1>6 DEF Outstanding, AtRequester, AtServer, AtReader, Queued
<1>8. NumberInv
  BY <1>7 DEF NumberInv
<1>9. CallInv
  BY <1>6 DEF CallInv, Queued
<1> QED BY <1>2, <1>3, <1>5, <1>8, <1>9 DEF IInv

LEMMA BeginStep ==
  ASSUME IInv, NEW r \in Requester, NEW s \in Service, Begin(r, s)
  PROVE  IInv'
<1> USE DEF Begin
<1>1. TypeOK /\ SessionInv /\ NumberInv /\ CallInv /\ WaitsForSomeone
  BY DEF IInv
<1>2. /\ \A o \in Requester : o # r => slot'[o] = slot[o] /\ call'[o] = call[o] /\ pc'[o] = pc[o]
      /\ slot'[r] = [svc |-> s, to |-> {}, num |-> 0, status |-> "open"]
      /\ call'[r] = calls + 1 /\ pc'[r] = "register"
  BY <1>1 DEF TypeOK
<1>3. slot'[r] \in Slots
  BY <1>2, ConstantsAssumption DEF Slots, Statuses
<1>4. slot'[r] # NoSlot
  BY <1>3, NoSlotAssumption
<1>5. slot' \in [Requester -> Slots \cup {NoSlot}]
  BY <1>1, <1>2, <1>3 DEF TypeOK
<1>6. calls' \in 0..MaxCalls /\ 0..calls \subseteq 0..calls' /\ calls' \in 0..calls' /\ 1..calls \subseteq 1..calls'
  BY <1>1, ConstantsAssumption DEF TypeOK
<1>7. call' \in [Requester -> 0..calls'] /\ served' \in SUBSET (1..calls') /\ answered' \in SUBSET (1..calls')
  BY <1>1, <1>6 DEF TypeOK, callVars
<1>8. \A o \in Requester : slot'[o] = NoSlot <=> pc'[o] = "idle"
  BY <1>1, <1>2, <1>4 DEF TypeOK
<1>9. TypeOK'
  BY <1>1, <1>5, <1>6, <1>7, <1>8 DEF TypeOK, ownerVars, readerVars, dispVars, modemVars
<1>10. SessionInv'
  BY <1>1 DEF SessionInv, ownerVars, readerVars, dispVars
<1>11. \A o \in Requester : Pending(o)' => o # r /\ Pending(o)
  BY <1>2 DEF Pending
<1>12. WaitsForSomeone'
  BY <1>1, <1>2, <1>11 DEF WaitsForSomeone, Waits, Has, ownerVars
<1>13. AtRequester' \subseteq AtRequester
  BY <1>2, <1>11 DEF AtRequester, Triple
<1>14. AtServer' = AtServer /\ AtReader' = AtReader /\ Queued' = Queued
  BY DEF AtServer, AtReader, Queued, Triple, Elements
<1>15. NumberInv'
  BY <1>1, <1>13, <1>14, Fewer DEF Outstanding
<1>16. /\ \A o \in Requester : call[o] # calls + 1
       /\ calls + 1 \notin served /\ \A q \in sent : q.call # calls + 1
       /\ calls + 1 # 0 /\ \A q \in sent : q.call <= calls => q.call <= calls + 1
  BY <1>1, ConstantsAssumption DEF TypeOK, CallInv, Sends
<1>17. slot'[r].status = "open"
  BY <1>2
<1>18. \A o, p \in Requester : call'[o] = call'[p] /\ call'[o] # 0 => o = p
  BY <1>1, <1>2, <1>16 DEF CallInv
<1>19. \A o \in Requester : pc'[o] = "idle" <=> call'[o] = 0
  BY <1>1, <1>2, <1>16 DEF CallInv
<1>20. \A o \in Requester :
         pc'[o] \in {"register", "send"} =>
           /\ call'[o] \notin served /\ slot'[o].status # "answered"
           /\ \A q \in sent : q.call # call'[o]
  BY <1>1, <1>2, <1>16, <1>17 DEF CallInv
<1>21. CallInv'
  BY <1>1, <1>2, <1>14, <1>16, <1>18, <1>19, <1>20 DEF CallInv
<1> QED BY <1>9, <1>10, <1>12, <1>15, <1>21 DEF IInv

\* The number a request gets is one nothing of its service has.
LEMMA RegisterStep ==
  ASSUME IInv, NEW r \in Requester, Register(r)
  PROVE  IInv'
<1> DEFINE s == slot[r].svc
           n == NextTxn(s)
<1>1. TypeOK /\ SessionInv /\ NumberInv /\ CallInv /\ WaitsForSomeone
  BY DEF IInv
<1>2. slot[r] \in Slots /\ s \in Service /\ pc[r] = "register"
  BY <1>1 DEF TypeOK, Register, Slots
<1>3. UNCHANGED <<ownerVars, failed, readerVars, dispVars, servers, served, sock, inbox, modemVars, sent, fails>>
  BY DEF Register
<1>4. SessionInv'
  BY <1>1, <1>3 DEF SessionInv, ownerVars, readerVars, dispVars
<1>5. CASE Return(r, "noService") /\ UNCHANGED txn
  <2>1. /\ pc' \in [Requester -> {"idle", "register", "send", "wait"}]
        /\ slot' \in [Requester -> Slots \cup {NoSlot}]
        /\ \A o \in Requester : slot'[o] = NoSlot <=> pc'[o] = "idle"
        /\ call' \in [Requester -> 0..calls'] /\ answered' \in SUBSET (1..calls')
        /\ WaitsForSomeone' /\ NumberInv' /\ CallInv'
    BY <1>2, <1>3, <1>5, ReturnInv DEF ownerVars
  <2>2. calls' = calls
    BY <1>5 DEF Return
  <2>3. TypeOK'
    BY <1>1, <1>3, <1>5, <2>1, <2>2 DEF TypeOK, ownerVars, readerVars, dispVars, modemVars
  <2> QED BY <1>4, <2>1, <2>3 DEF IInv
<1>6. ASSUME NEW a \in addrFor(s), addrFor(s) # {}, InWindow(s),
             slot' = [slot EXCEPT ![r] = [svc |-> s, to |-> {a}, num |-> n, status |-> "open"]],
             txn' = [txn EXCEPT ![s] = n], pc' = [pc EXCEPT ![r] = "send"],
             UNCHANGED <<calls, call, answered>>
      PROVE  IInv'
  <2>1. a \in servers /\ a \in Server /\ SvcOf[a] = s
    BY <1>1 DEF addrFor, TypeOK
  <2>2. n \in 1..TxnMax
    BY <1>1, <1>2, ConstantsAssumption DEF NextTxn, TypeOK
  <2>3. n \in 0..TxnMax
    BY <2>2, ConstantsAssumption
  <2> HIDE DEF s, n
  <2>4. /\ \A o \in Requester : o # r => slot'[o] = slot[o] /\ pc'[o] = pc[o]
        /\ slot'[r] = [svc |-> s, to |-> {a}, num |-> n, status |-> "open"] /\ pc'[r] = "send"
    BY <1>1, <1>6 DEF TypeOK
  <2>5. slot'[r] \in Slots
    BY <1>2, <2>1, <2>3, <2>4 DEF Slots, Statuses
  <2>6. slot'[r] # NoSlot
    BY <2>5, NoSlotAssumption
  <2>7. slot' \in [Requester -> Slots \cup {NoSlot}]
    BY <1>1, <1>6, <2>4, <2>5 DEF TypeOK
  <2>8. \A o \in Requester : slot'[o] = NoSlot <=> pc'[o] = "idle"
    BY <1>1, <2>4, <2>6 DEF TypeOK
  <2>9. pc' \in [Requester -> {"idle", "register", "send", "wait"}] /\ txn' \in [Service -> 0..TxnMax]
    BY <1>1, <1>2, <1>6, <2>3 DEF TypeOK
  <2>10. TypeOK'
    BY <1>1, <1>3, <1>6, <2>7, <2>8, <2>9 DEF TypeOK, ownerVars, readerVars, dispVars, modemVars
  <2>11. running /\ ~failed /\ Has(s, servers)
    BY <1>1, <2>1 DEF SessionInv, Has
  <2>12. \A o \in Requester : Waits(o)' /\ o # r => Waits(o)
    BY <2>4 DEF Waits, Pending
  <2>13. WaitsForSomeone'
    BY <1>1, <1>3, <2>4, <2>11, <2>12 DEF WaitsForSomeone, ownerVars, Has
  <2> DEFINE mine == Triple(s, n, call[r])
  <2>14. AtServer' = AtServer /\ AtReader' = AtReader /\ Queued' = Queued
    BY <1>3 DEF AtServer, AtReader, Queued, Triple, Elements
  <2>15. AtRequester' \subseteq AtRequester \cup {mine}
    <3>1. \A o \in Requester : Pending(o)' => o = r \/ Pending(o)
      BY <2>4 DEF Pending
    <3>2. \A o \in Requester : o # r =>
            Triple(slot[o].svc, slot[o].num, call[o])' = Triple(slot[o].svc, slot[o].num, call[o])
      BY <1>6, <2>4 DEF Triple
    <3>3. Triple(slot[r].svc, slot[r].num, call[r])' = mine
      BY <1>6, <2>4 DEF Triple
    <3> QED BY <3>1, <3>2, <3>3 DEF AtRequester
  <2>16. \A x \in Outstanding' : x \in Outstanding \/ x = mine
    BY <2>14, <2>15 DEF Outstanding
  <2>17. mine.svc = s /\ mine.txn = n /\ mine.call = call[r]
    BY DEF Triple
  <2>18. \A x \in Outstanding : x.svc = s => x.txn \in InUse(s)
    <3>1. \A x \in AtRequester : x.svc = s => x.txn \in InUse(s)
      BY DEF AtRequester, InUse, Triple
    <3>2. \A x \in AtServer : x.svc = s => x.txn \in InUse(s)
      BY DEF AtServer, InUse, Triple
    <3>3. \A x \in AtReader : x.svc = s => x.txn \in InUse(s)
      BY DEF AtReader, Queued, InUse, Triple
    <3> QED BY <3>1, <3>2, <3>3 DEF Outstanding
  <2>24. \A x \in Outstanding : x.svc = s => x.txn # n
    <3>1. n \notin InUse(s)
      BY <1>6 DEF InWindow, n
    <3> QED BY <2>18, <3>1
  <2>25. \A x, y \in Outstanding' : x.svc = y.svc /\ x.txn = y.txn => x.call = y.call
    BY <1>1, <2>16, <2>17, <2>24 DEF NumberInv
  <2>26. NumberInv'
    BY <2>25 DEF NumberInv
  <2>27. slot'[r].status = "open" /\ slot'[r].to = {a} /\ slot'[r].svc = s
    BY <2>4
  <2>28. \A o \in Requester : pc'[o] = "idle" <=> call'[o] = 0
    BY <1>1, <1>2, <1>6, <2>4 DEF CallInv
  <2>29. \A o \in Requester :
           pc'[o] \in {"register", "send"} =>
             /\ call'[o] \notin served' /\ slot'[o].status # "answered"
             /\ \A q \in sent' : q.call # call'[o]
    BY <1>1, <1>2, <1>3, <1>6, <2>4, <2>27 DEF CallInv
  <2>30. \A o \in Requester :
           pc'[o] = "send" =>
             slot'[o].num # 0 /\ \E b \in Server : slot'[o].to = {b} /\ SvcOf[b] = slot'[o].svc
    BY <1>1, <2>1, <2>2, <2>4, <2>27 DEF CallInv
  <2>31. CallInv'
    BY <1>1, <1>2, <1>3, <1>6, <2>4, <2>14, <2>28, <2>29, <2>30 DEF CallInv
  <2> QED BY <1>4, <2>10, <2>13, <2>26, <2>31 DEF IInv
<1> QED BY <1>5, <1>6 DEF Register

\* A request that is sent takes its number along, to one server.
LEMMA SendStep ==
  ASSUME IInv, NEW r \in Requester, Send(r)
  PROVE  IInv'
<1>1. TypeOK /\ SessionInv /\ NumberInv /\ CallInv /\ WaitsForSomeone
  BY DEF IInv
<1>2. slot[r] \in Slots /\ pc[r] = "send"
  BY <1>1 DEF TypeOK, Send
<1>3. UNCHANGED <<ownerVars, failed, readerVars, dispVars, servers, txn, served, sock, inbox, modemVars, fails>>
  BY DEF Send
<1>4. SessionInv'
  BY <1>1, <1>3 DEF SessionInv, ownerVars, readerVars, dispVars
<1>5. CASE Return(r, "transportError") /\ UNCHANGED sent
  <2>1. /\ pc' \in [Requester -> {"idle", "register", "send", "wait"}]
        /\ slot' \in [Requester -> Slots \cup {NoSlot}]
        /\ \A o \in Requester : slot'[o] = NoSlot <=> pc'[o] = "idle"
        /\ call' \in [Requester -> 0..calls'] /\ answered' \in SUBSET (1..calls')
        /\ WaitsForSomeone' /\ NumberInv' /\ CallInv'
    BY <1>2, <1>3, <1>5, ReturnInv DEF ownerVars
  <2>2. calls' = calls
    BY <1>5 DEF Return
  <2>3. TypeOK'
    BY <1>1, <1>3, <1>5, <2>1, <2>2 DEF TypeOK, ownerVars, readerVars, dispVars, modemVars
  <2> QED BY <1>4, <2>1, <2>3 DEF IInv
<1>6. ASSUME sent' = sent \cup {[to |-> a, txn |-> slot[r].num, call |-> call[r], mine |-> TRUE] :
                                a \in slot[r].to \cap alive},
             pc' = [pc EXCEPT ![r] = "wait"], slot' = [slot EXCEPT ![r].to = {}],
             UNCHANGED <<calls, call, answered>>
      PROVE  IInv'
  <2>1. PICK a \in Server : slot[r].to = {a} /\ SvcOf[a] = slot[r].svc
    BY <1>1, <1>2 DEF CallInv
  <2> DEFINE new == [to |-> a, txn |-> slot[r].num, call |-> call[r], mine |-> TRUE]
  <2>2. sent' \subseteq sent \cup {new}
    BY <1>6, <2>1
  <2>3. /\ \A o \in Requester : o # r => slot'[o] = slot[o] /\ pc'[o] = pc[o]
        /\ slot'[r] = [slot[r] EXCEPT !.to = {}] /\ pc'[r] = "wait"
    BY <1>1, <1>6 DEF TypeOK
  <2>4. /\ slot'[r] \in Slots /\ slot'[r].svc = slot[r].svc /\ slot'[r].num = slot[r].num
        /\ slot'[r].status = slot[r].status
    BY <1>2, <2>3 DEF Slots
  <2>5. slot'[r] # NoSlot
    BY <2>4, NoSlotAssumption
  <2>6. slot' \in [Requester -> Slots \cup {NoSlot}]
    BY <1>1, <1>6, <2>3, <2>4 DEF TypeOK
  <2>7. \A o \in Requester : slot'[o] = NoSlot <=> pc'[o] = "idle"
    BY <1>1, <2>3, <2>5 DEF TypeOK
  <2>8. pc' \in [Requester -> {"idle", "register", "send", "wait"}]
    BY <1>1, <1>6 DEF TypeOK
  <2>9. call[r] \in 1..calls /\ call[r] # 0 /\ call[r] <= calls /\ call[r] \in 1..MaxCalls
    BY <1>1, <1>2, ConstantsAssumption DEF TypeOK, CallInv
  <2> DEFINE mine == Triple(slot[r].svc, slot[r].num, call[r])
  <2>10. mine \in AtRequester
    BY <1>2 DEF AtRequester, Pending
  <2>11. \A q \in sent' : q \in sent \/ q = new
    BY <2>2
  <2>12. new \in Sends
    <3>1. slot[r].num \in 0..TxnMax /\ slot[r].num # 0
      BY <1>1, <1>2 DEF Slots, CallInv
    <3>2. slot[r].num \in 1..TxnMax
      BY <3>1, ConstantsAssumption
    <3> QED BY <2>9, <3>2 DEF Sends
  <2>13. TypeOK'
    <3>1. sent' \in SUBSET Sends
      BY <1>1, <2>11, <2>12 DEF TypeOK
    <3> QED BY <1>1, <1>3, <1>6, <2>6, <2>7, <2>8, <3>1
            DEF TypeOK, ownerVars, readerVars, dispVars, modemVars
  <2>14. AtRequester' \subseteq AtRequester
    BY <1>6, <2>3, <2>4, <1>2 DEF AtRequester, Pending, Triple
  <2>15. AtServer' \subseteq AtServer \cup {mine}
    BY <2>1, <2>11 DEF AtServer, Triple
  <2>16. AtReader' = AtReader /\ Queued' = Queued
    BY <1>3 DEF AtReader, Queued, Triple, Elements
  <2>17. NumberInv'
    BY <1>1, <1>3, <2>10, <2>14, <2>15, <2>16, Fewer DEF Outstanding
  <2>18. WaitsForSomeone'
    <3>1. \A o \in Requester : Waits(o)' => Waits(o) /\ slot'[o].svc = slot[o].svc
      BY <1>2, <2>3, <2>4 DEF Waits, Pending
    <3> QED BY <1>1, <1>3, <3>1 DEF WaitsForSomeone, Has, ownerVars
  <2>19. slot[r].status # "answered" /\ call[r] \notin served /\ \A q \in sent : q.call # call[r]
    BY <1>1, <1>2 DEF CallInv
  <2>20. \A q, o \in sent' : q.call = o.call => q = o
    <3>1. new.call = call[r]
      OBVIOUS
    <3> HIDE DEF new
    <3>2. \A q, o \in sent : q.call = o.call => q = o
      BY <1>1 DEF CallInv
    <3> QED BY <2>11, <2>19, <3>1, <3>2
  <2>21. \A q \in sent' : q.call <= calls /\ q.call \notin served
    BY <1>1, <2>9, <2>11, <2>19 DEF CallInv
  <2>22. \A o \in Requester :
           pc'[o] \in {"register", "send"} =>
             /\ call[o] \notin served /\ slot'[o].status # "answered"
             /\ \A q \in sent' : q.call # call[o]
    <3> SUFFICES ASSUME NEW o \in Requester, pc'[o] \in {"register", "send"}
                 PROVE  /\ call[o] \notin served /\ slot'[o].status # "answered"
                        /\ \A q \in sent' : q.call # call[o]
      OBVIOUS
    <3>1. o # r /\ pc[o] \in {"register", "send"} /\ slot'[o] = slot[o]
      BY <2>3
    <3>2. call[o] # call[r]
      BY <1>1, <2>9, <3>1 DEF CallInv
    <3> QED BY <1>1, <2>11, <3>1, <3>2 DEF CallInv
  <2>23. \A o \in Requester : pc'[o] = "idle" <=> call[o] = 0
    BY <1>1, <1>2, <2>3 DEF CallInv
  <2>24. \A o \in Requester :
           pc'[o] = "send" =>
             slot'[o].num # 0 /\ \E b \in Server : slot'[o].to = {b} /\ SvcOf[b] = slot'[o].svc
    BY <1>1, <2>3 DEF CallInv
  <2>25. \A o \in Requester : pc'[o] = "wait" /\ slot'[o].status = "answered" => call[o] \in served
    BY <1>1, <2>3, <2>4, <2>19 DEF CallInv
  <2>26. CallInv'
    BY <1>1, <1>3, <1>6, <2>16, <2>20, <2>21, <2>22, <2>23, <2>24, <2>25 DEF CallInv
  <2> QED BY <1>4, <2>13, <2>17, <2>18, <2>26 DEF IInv
<1> QED BY <1>5, <1>6 DEF Send

LEMMA FinishStep ==
  ASSUME IInv, NEW r \in Requester, Finish(r)
  PROVE  IInv'
<1> DEFINE s == IF slot[r].status # "open" THEN slot[r].status ELSE IF running THEN "timeout" ELSE "stopped"
<1>1. TypeOK /\ SessionInv /\ NumberInv /\ CallInv /\ WaitsForSomeone
  BY DEF IInv
<1>2. pc[r] = "wait" /\ Return(r, s)
  BY DEF Finish
<1>3. UNCHANGED <<ownerVars, failed, readerVars, dispVars, servers, txn, served, sock, inbox, modemVars, sent, fails>>
  BY DEF Finish
<1>4. s = "answered" => call[r] \in served
  BY <1>1, <1>2 DEF CallInv
<1> HIDE DEF s
<1>5. SessionInv'
  BY <1>1, <1>3 DEF SessionInv, ownerVars, readerVars, dispVars
<1>6. /\ pc' \in [Requester -> {"idle", "register", "send", "wait"}]
      /\ slot' \in [Requester -> Slots \cup {NoSlot}]
      /\ \A o \in Requester : slot'[o] = NoSlot <=> pc'[o] = "idle"
      /\ call' \in [Requester -> 0..calls'] /\ answered' \in SUBSET (1..calls')
      /\ WaitsForSomeone' /\ NumberInv' /\ CallInv'
  BY <1>2, <1>3, <1>4, ReturnInv DEF ownerVars
<1>7. calls' = calls
  BY <1>2 DEF Return
<1>8. TypeOK'
  BY <1>1, <1>3, <1>6, <1>7 DEF TypeOK, ownerVars, readerVars, dispVars, modemVars
<1> QED BY <1>5, <1>6, <1>8 DEF IInv

-----------------------------------------------------------------------------
(* The steps of the reader and the dispatcher *)

LEMMA ReaderRuns ==
  ASSUME SessionInv, TypeOK, reader = "run"
  PROVE  running /\ ~failed
<1> QED BY DEF SessionInv, TypeOK

LEMMA ReadStep ==
  ASSUME IInv, Read
  PROVE  IInv'
<1> DEFINE p == Head(inbox)
<1>1. TypeOK /\ SessionInv /\ NumberInv /\ CallInv /\ WaitsForSomeone
  BY DEF IInv
<1>2. inbox \in Seq(Packets) /\ inbox # <<>> /\ reader = "run" /\ inbox' = Tail(inbox)
  BY <1>1 DEF TypeOK, Read
<1>3. UNCHANGED <<ownerVars, failed, dispVars, txn, callVars, served, sock, modemVars, sent, fails>>
  BY DEF Read
<1>4. Elements(Tail(inbox)) \subseteq Elements(inbox) /\ p \in Elements(inbox) /\ inbox' \in Seq(Packets) /\ p \in Packets
  BY <1>2, ElementsTail
<1>5. Queued' \subseteq Queued
  BY <1>2, <1>4 DEF Queued, Elements
<1>6. running /\ ~failed
  BY <1>1, <1>2, ReaderRuns
<1> HIDE DEF p
<1>7. UNCHANGED <<running, owner, failed, disp, events, batch, told, txn, pc, calls, call, answered, served,
                  sock, alive, modem, sent, fails>>
  BY <1>3 DEF ownerVars, dispVars, callVars, modemVars
<1>8. p.kind \in {"new", "gone"} => p.srv \in SUBSET Server
  BY <1>4 DEF Packets
<1>9. ASSUME servers' \in SUBSET Server, unposted' \in Seq(Events), reader' \in {"off", "run", "post"},
             reader' # "off", reader' = "post" => unposted' # <<>>, slot' \in [Requester -> Slots \cup {NoSlot}],
             \A r \in Requester : slot'[r] = NoSlot <=> slot[r] = NoSlot
      PROVE  TypeOK' /\ SessionInv'
  <2>1. TypeOK'
    BY <1>1, <1>4, <1>7, <1>9 DEF TypeOK
  <2>2. SessionInv'
    BY <1>1, <1>2, <1>6, <1>7, <1>9 DEF SessionInv
  <2> QED BY <2>1, <2>2
<1>10. ASSUME NEW es \in Seq(Events), ThenPost(es, failed)
       PROVE  unposted' \in Seq(Events) /\ reader' \in {"off", "run", "post"} /\ reader' # "off" /\ (reader' = "post" => unposted' # <<>>)
  BY <1>6, <1>10 DEF ThenPost
<1>11. CASE NewServer(p)
  <2>1. servers' = servers \cup p.srv /\ slot' = slot /\ servers' \in SUBSET Server
    BY <1>1, <1>8, <1>11 DEF NewServer, TypeOK
  <2>2. unposted' \in Seq(Events) /\ reader' \in {"off", "run", "post"} /\ reader' # "off" /\ (reader' = "post" => unposted' # <<>>)
    <3> DEFINE S == {s \in Service : Has(s, p.srv) /\ ~Has(s, servers)}
    <3>1. PICK up \in Orders(S) : ThenPost([i \in DOMAIN up |-> SvcEvent(up[i], TRUE)], failed)
      BY <1>11 DEF NewServer
    <3>2. S \in SUBSET Service
      OBVIOUS
    <3> HIDE DEF S
    <3>3. [i \in DOMAIN up |-> SvcEvent(up[i], TRUE)] \in Seq(Events)
      BY <3>2, EventsOf
    <3> QED BY <1>10, <3>1, <3>3
  <2>3. TypeOK' /\ SessionInv'
    BY <1>1, <1>9, <2>1, <2>2 DEF TypeOK
  <2>4. WaitsForSomeone'
    BY <1>1, <1>7, <2>1 DEF WaitsForSomeone, Waits, Pending, Has
  <2>5. Complete({}, "timeout")
    BY <1>1, <2>1 DEF Complete, TypeOK
  <2>6. NumberInv' /\ CallInv'
    BY <1>5, <1>7, <2>5, StatusInv DEF Statuses
  <2> QED BY <2>3, <2>4, <2>6 DEF IInv
<1>12. CASE ServersGone(p)
  <2> DEFINE lost == {s \in Service : Has(s, servers) /\ ~Has(s, servers \ p.srv)}
             R == {r \in Requester : Waits(r) /\ slot[r].svc \in lost}
  <2>1. servers' = servers \ p.srv /\ servers' \in SUBSET Server /\ Complete(R, "noService")
    BY <1>1, <1>12 DEF ServersGone, TypeOK
  <2>2. PICK down \in Orders(lost) : ThenPost([i \in DOMAIN down |-> SvcEvent(down[i], FALSE)], failed)
    BY <1>12 DEF ServersGone
  <2>3. lost \in SUBSET Service /\ R \in SUBSET {r \in Requester : Pending(r)}
    BY DEF Waits
  <2>4. \A s \in Service : Has(s, servers) => s \in lost \/ Has(s, servers')
    BY <2>1
  <2>5. \A r \in Requester : Waits(r) => r \in R \/ Has(slot[r].svc, servers')
    <3>1. \A r \in Requester : Waits(r) => slot[r] \in Slots
      BY <1>1 DEF Waits, Pending, TypeOK
    <3>2. \A r \in Requester : Waits(r) => slot[r].svc \in Service
      BY <3>1 DEF Slots
    <3> QED BY <1>1, <2>4, <3>2 DEF WaitsForSomeone
  <2> HIDE DEF lost, R
  <2>6. [i \in DOMAIN down |-> SvcEvent(down[i], FALSE)] \in Seq(Events)
    BY <2>3, EventsOf
  <2>7. unposted' \in Seq(Events) /\ reader' \in {"off", "run", "post"} /\ reader' # "off" /\ (reader' = "post" => unposted' # <<>>)
    BY <1>10, <2>2, <2>6
  <2>8. "noService" \in Statuses
    BY DEF Statuses
  <2>9. /\ slot' \in [Requester -> Slots \cup {NoSlot}]
        /\ \A r \in Requester : slot'[r] = NoSlot <=> slot[r] = NoSlot
        /\ \A r \in Requester : pc[r] # "idle" =>
             /\ slot'[r].svc = slot[r].svc
             /\ slot'[r].status = IF r \in R THEN "noService" ELSE slot[r].status
    BY <1>1, <2>1, <2>3, <2>8, CompleteEffect
  <2>10. TypeOK' /\ SessionInv'
    BY <1>9, <2>1, <2>7, <2>9
  <2>11. \A r \in Requester : Waits(r)' => Waits(r) /\ r \notin R /\ slot'[r].svc = slot[r].svc
    BY <1>7, <2>9 DEF Waits, Pending
  <2>12. WaitsForSomeone'
    BY <1>6, <1>7, <2>5, <2>11 DEF WaitsForSomeone, Has
  <2>13. NumberInv' /\ CallInv'
    BY <1>5, <1>7, <2>1, <2>3, <2>8, StatusInv
  <2> QED BY <2>10, <2>12, <2>13 DEF IInv
<1>13. CASE Data(p) /\ p.kind = "answer"
  <2> DEFINE R == {r \in Requester : p.from \in servers /\ Matches(r, p)}
  <2>1. Complete(R, "answered") /\ ThenPost(<<>>, failed) /\ servers' = servers
    BY <1>13 DEF Data
  <2>2. R \in SUBSET {r \in Requester : Pending(r)} /\ "answered" \in Statuses
    BY DEF Matches, Waits, Statuses
  <2>3. \A r \in R : call[r] = p.call /\ call[r] \in served
    <3> SUFFICES ASSUME NEW r \in R PROVE call[r] = p.call /\ call[r] \in served
      OBVIOUS
    <3>1. r \in Requester /\ Pending(r) /\ slot[r].svc = SvcOf[p.from] /\ slot[r].num = p.txn
      BY DEF Matches, Waits
    <3>2. p \in Queued
      BY <1>4, <1>13 DEF Queued
    <3>3. Triple(SvcOf[p.from], p.txn, p.call) \in Outstanding
      BY <3>2 DEF Outstanding, AtReader
    <3>4. Triple(slot[r].svc, slot[r].num, call[r]) \in Outstanding
      BY <3>1 DEF Outstanding, AtRequester
    <3>5. call[r] = p.call
      BY <1>1, <3>1, <3>3, <3>4 DEF NumberInv, Triple
    <3> QED BY <1>1, <3>2, <3>5 DEF CallInv
  <2> HIDE DEF R
  <2>4. unposted' \in Seq(Events) /\ reader' \in {"off", "run", "post"} /\ reader' # "off" /\ (reader' = "post" => unposted' # <<>>)
    <3>1. <<>> \in Seq(Events)
      OBVIOUS
    <3> QED BY <1>10, <2>1, <3>1
  <2>5. /\ slot' \in [Requester -> Slots \cup {NoSlot}]
        /\ \A r \in Requester : slot'[r] = NoSlot <=> slot[r] = NoSlot
        /\ \A r \in Requester : pc[r] # "idle" =>
             /\ slot'[r].svc = slot[r].svc
             /\ slot'[r].status = IF r \in R THEN "answered" ELSE slot[r].status
    BY <1>1, <2>1, <2>2, CompleteEffect
  <2>6. TypeOK' /\ SessionInv'
    BY <1>1, <1>9, <2>1, <2>4, <2>5 DEF TypeOK
  <2>7. \A r \in Requester : Waits(r)' => Waits(r) /\ slot'[r].svc = slot[r].svc
    BY <1>7, <2>5 DEF Waits, Pending
  <2>8. WaitsForSomeone'
    BY <1>1, <1>7, <2>1, <2>7 DEF WaitsForSomeone, Has
  <2>9. NumberInv' /\ CallInv'
    BY <1>5, <1>7, <2>1, <2>2, <2>3, StatusInv
  <2> QED BY <2>6, <2>8, <2>9 DEF IInv
<1>14. CASE Data(p) /\ p.kind = "indication"
  <2> DEFINE es == IF p.from \in servers THEN <<IndEvent(SvcOf[p.from])>> ELSE <<>>
  <2>1. ThenPost(es, failed) /\ servers' = servers /\ slot' = slot
    BY <1>14 DEF Data
  <2>2. p.from \in Server
    BY <1>4, <1>14 DEF Packets
  <2>3. IndEvent(SvcOf[p.from]) \in Events
    BY <2>2, ConstantsAssumption DEF IndEvent, Events
  <2>4. es \in Seq(Events)
    BY <2>3
  <2>5. unposted' \in Seq(Events) /\ reader' \in {"off", "run", "post"} /\ reader' # "off" /\ (reader' = "post" => unposted' # <<>>)
    <3> HIDE DEF es
    <3> QED BY <1>10, <2>1, <2>4
  <2>6. TypeOK' /\ SessionInv'
    BY <1>1, <1>9, <2>1, <2>5 DEF TypeOK
  <2>7. WaitsForSomeone'
    BY <1>1, <1>7, <2>1 DEF WaitsForSomeone, Waits, Pending, Has
  <2>8. Complete({}, "timeout")
    BY <1>1, <2>1 DEF Complete, TypeOK
  <2>9. NumberInv' /\ CallInv'
    BY <1>5, <1>7, <2>8, StatusInv DEF Statuses
  <2> QED BY <2>6, <2>7, <2>9 DEF IInv
<1> QED BY <1>11, <1>12, <1>13, <1>14 DEF Read, Data, p

\* Everyone who waits is told.
LEMMA RecvFailsStep ==
  ASSUME IInv, RecvFails
  PROVE  IInv'
<1> DEFINE S == {s \in Service : Has(s, servers)}
           R == {r \in Requester : Waits(r)}
<1>1. TypeOK /\ SessionInv /\ NumberInv /\ CallInv /\ WaitsForSomeone
  BY DEF IInv
<1>2. UNCHANGED <<running, owner, disp, events, batch, told, txn, pc, calls, call, answered, served,
                  sock, inbox, alive, modem, sent>>
  BY DEF RecvFails, ownerVars, dispVars, callVars, modemVars
<1>3. reader = "run" /\ failed' = TRUE /\ servers' = {} /\ fails' \in 0..MaxFails /\ Complete(R, "transportError")
  BY <1>1, ConstantsAssumption DEF RecvFails, TypeOK
<1>4. PICK down \in Orders(S) : ThenPost([i \in DOMAIN down |-> SvcEvent(down[i], FALSE)], TRUE)
  BY DEF RecvFails
<1>5. S \in SUBSET Service /\ R \in SUBSET {r \in Requester : Pending(r)} /\ "transportError" \in Statuses
  BY DEF Waits, Statuses
<1>6. \A r \in Requester : Waits(r) => r \in R
  OBVIOUS
<1> HIDE DEF S, R
<1>7. [i \in DOMAIN down |-> SvcEvent(down[i], FALSE)] \in Seq(Events)
  BY <1>5, EventsOf
<1>8. unposted' \in Seq(Events) /\ reader' \in {"off", "post"} /\ (reader' = "post" => unposted' # <<>>)
  BY <1>4, <1>7 DEF ThenPost
<1>9. /\ slot' \in [Requester -> Slots \cup {NoSlot}]
      /\ \A r \in Requester : slot'[r] = NoSlot <=> slot[r] = NoSlot
      /\ \A r \in Requester : pc[r] # "idle" =>
           slot'[r].status = IF r \in R THEN "transportError" ELSE slot[r].status
  BY <1>1, <1>3, <1>5, CompleteEffect
<1>10. TypeOK'
  BY <1>1, <1>2, <1>3, <1>8, <1>9 DEF TypeOK
<1>11. SessionInv'
  BY <1>1, <1>2, <1>3, <1>8 DEF SessionInv
<1>12. \A r \in Requester : ~Waits(r)'
  BY <1>2, <1>6, <1>9 DEF Waits, Pending
<1>13. Queued' = Queued
  BY <1>2 DEF Queued, Elements
<1>14. NumberInv' /\ CallInv'
  BY <1>2, <1>3, <1>5, <1>13, StatusInv
<1> QED BY <1>10, <1>11, <1>12, <1>14 DEF IInv, WaitsForSomeone

LEMMA PostStep ==
  ASSUME IInv, Post
  PROVE  IInv'
<1>1. TypeOK /\ SessionInv /\ NumberInv /\ CallInv /\ WaitsForSomeone
  BY DEF IInv
<1>2. UNCHANGED <<running, owner, failed, disp, batch, told, servers, txn, pc, calls, call, answered, slot, served,
                  sock, inbox, alive, modem, sent, fails>>
  BY DEF Post, ownerVars, callVars, modemVars
<1>3. reader = "post" /\ unposted' = Tail(unposted) /\ events' = Append(events, Head(unposted))
  BY DEF Post, ThenPost
<1>4. /\ reader' \in {"off", "run", "post"} /\ (reader' = "run" => ~failed)
      /\ reader' = "post" => unposted' # <<>>
  BY <1>1 DEF Post, ThenPost, TypeOK
<1>5. CASE unposted # <<>>
  <2>1. unposted' \in Seq(Events) /\ events' \in Seq(Events)
    BY <1>1, <1>3, <1>5 DEF TypeOK
  <2>2. TypeOK'
    BY <1>1, <1>2, <1>4, <2>1 DEF TypeOK
  <2>3. SessionInv'
    BY <1>1, <1>2, <1>3, <1>4 DEF SessionInv
  <2>4. WaitsForSomeone'
    BY <1>1, <1>2 DEF WaitsForSomeone, Waits, Pending, Has
  <2>5. NumberInv' /\ CallInv'
    BY <1>1, <1>2, RestInv
  <2> QED BY <2>2, <2>3, <2>4, <2>5 DEF IInv
<1>6. unposted # <<>>
  BY <1>1, <1>3 DEF SessionInv
<1> QED BY <1>5, <1>6

LEMMA DispatchStep ==
  ASSUME IInv, Dispatch
  PROVE  IInv'
<1>1. TypeOK /\ SessionInv /\ NumberInv /\ CallInv /\ WaitsForSomeone
  BY DEF IInv
<1>2. UNCHANGED <<running, owner, failed, reader, unposted, servers, txn, pc, calls, call, answered, slot, served,
                  sock, inbox, alive, modem, sent, fails>>
  BY DEF Dispatch, ownerVars, readerVars, callVars, modemVars
<1>3. /\ disp' \in {"off", "wait", "deliver"} /\ events' \in Seq(Events)
      /\ batch' \in Seq(Events) /\ told' \in [Service -> BOOLEAN]
      /\ disp' = "deliver" => batch' # <<>>
  <2>1. CASE Take
    <3>1. <<>> \in Seq(Events)
      OBVIOUS
    <3> QED BY <1>1, <2>1, <3>1 DEF Take, TypeOK
  <2>3. CASE DispatcherExits
    BY <1>1, <2>3 DEF DispatcherExits, TypeOK
  <2>2. CASE Deliver
    <3>1. batch # <<>> /\ batch \in Seq(Events)
      BY <1>1, <2>2 DEF Deliver, SessionInv, TypeOK
    <3>2. Head(batch) \in Events /\ batch' \in Seq(Events)
      BY <2>2, <3>1 DEF Deliver
    <3>3. Head(batch).up \in BOOLEAN
      BY <3>2 DEF Events
    <3>4. told' \in [Service -> BOOLEAN]
      BY <1>1, <2>2, <3>3 DEF Deliver, TypeOK
    <3>5. events' = events /\ disp' \in {"off", "wait", "deliver"} /\ (disp' = "deliver" => batch' # <<>>)
      BY <2>2 DEF Deliver
    <3> QED BY <1>1, <3>2, <3>4, <3>5 DEF TypeOK
  <2> QED BY <2>1, <2>2, <2>3 DEF Dispatch
<1>4. TypeOK'
  BY <1>1, <1>2, <1>3 DEF TypeOK
<1>5. SessionInv'
  BY <1>1, <1>2, <1>3 DEF SessionInv
<1>6. WaitsForSomeone'
  BY <1>1, <1>2 DEF WaitsForSomeone, Waits, Pending, Has
<1>7. NumberInv' /\ CallInv'
  BY <1>1, <1>2, RestInv
<1> QED BY <1>4, <1>5, <1>6, <1>7 DEF IInv

-----------------------------------------------------------------------------
(* The steps of the owner and of the modem *)

LEMMA StopBeginStep ==
  ASSUME IInv, StopBegin
  PROVE  IInv'
<1>1. TypeOK /\ SessionInv /\ NumberInv /\ CallInv /\ WaitsForSomeone
  BY DEF IInv
<1>2. UNCHANGED <<failed, reader, unposted, disp, events, batch, told, servers, txn, pc, calls, call, answered,
                  slot, served, sock, inbox, alive, modem, sent, fails>>
  BY DEF StopBegin, readerVars, dispVars, callVars, modemVars
<1>3. failed /\ owner = "watch" /\ running' = FALSE /\ owner' = "sweep"
  BY DEF StopBegin
<1>4. TypeOK'
  BY <1>1, <1>2, <1>3 DEF TypeOK
<1>5. SessionInv'
  BY <1>1, <1>2, <1>3 DEF SessionInv
<1>6. \A r \in Requester : ~Waits(r)
  BY <1>1, <1>3 DEF WaitsForSomeone
<1>7. WaitsForSomeone'
  BY <1>2, <1>6 DEF WaitsForSomeone, Waits, Pending
<1>8. NumberInv' /\ CallInv'
  BY <1>1, <1>2, RestInv
<1> QED BY <1>4, <1>5, <1>7, <1>8 DEF IInv

LEMMA StopSweepStep ==
  ASSUME IInv, StopSweep
  PROVE  IInv'
<1> DEFINE R == {r \in Requester : Pending(r)}
<1>1. TypeOK /\ SessionInv /\ NumberInv /\ CallInv /\ WaitsForSomeone
  BY DEF IInv
<1>2. UNCHANGED <<running, failed, reader, unposted, disp, events, batch, told, servers, txn, pc, calls, call,
                  answered, served, sock, inbox, alive, modem, sent, fails>>
  BY DEF StopSweep, readerVars, dispVars, callVars, modemVars
<1>3. owner = "sweep" /\ owner' = "join" /\ Complete(R, "stopped") /\ "stopped" \in Statuses
  BY DEF StopSweep, Statuses
<1>4. /\ slot' \in [Requester -> Slots \cup {NoSlot}]
      /\ \A r \in Requester : slot'[r] = NoSlot <=> slot[r] = NoSlot
      /\ \A r \in Requester : pc[r] # "idle" =>
           slot'[r].status = IF r \in R THEN "stopped" ELSE slot[r].status
  BY <1>1, <1>3, CompleteEffect
<1>5. TypeOK'
  BY <1>1, <1>2, <1>3, <1>4 DEF TypeOK
<1>6. SessionInv'
  BY <1>1, <1>2, <1>3 DEF SessionInv
<1>7. \A r \in Requester : ~Waits(r)'
  BY <1>2, <1>4 DEF Waits, Pending
<1>8. Queued' = Queued
  BY <1>2 DEF Queued, Elements
<1>9. NumberInv' /\ CallInv'
  BY <1>2, <1>3, <1>8, StatusInv
<1> QED BY <1>5, <1>6, <1>7, <1>9 DEF IInv, WaitsForSomeone

LEMMA StopJoinStep ==
  ASSUME IInv, StopJoin
  PROVE  IInv'
<1>1. TypeOK /\ SessionInv /\ NumberInv /\ CallInv /\ WaitsForSomeone
  BY DEF IInv
<1>2. UNCHANGED <<running, failed, reader, unposted, disp, events, batch, told, servers, txn, pc, calls, call,
                  answered, slot, served, alive, modem, fails>>
  BY DEF StopJoin, readerVars, dispVars, callVars, modemVars
<1>3. /\ owner = "join" /\ owner' = "clear" /\ reader = "off" /\ sock' = FALSE /\ inbox' = <<>>
      /\ sent' = {[q EXCEPT !.mine = FALSE] : q \in sent}
  BY DEF StopJoin
<1>4. \A q \in sent' : \E o \in sent : /\ q.to = o.to /\ q.txn = o.txn /\ q.call = o.call
                                       /\ q = [o EXCEPT !.mine = FALSE] /\ q \in Sends
  <2>1. ASSUME NEW o \in sent
        PROVE  LET q == [o EXCEPT !.mine = FALSE]
               IN  q.to = o.to /\ q.txn = o.txn /\ q.call = o.call /\ q \in Sends
    <3>1. o \in Sends
      BY <1>1 DEF TypeOK
    <3> QED BY <3>1 DEF Sends
  <2> QED BY <1>3, <2>1
<1>5. <<>> \in Seq(Packets) /\ sent' \in SUBSET Sends
  BY <1>4
<1>6. TypeOK'
  BY <1>1, <1>2, <1>3, <1>5 DEF TypeOK
<1>7. SessionInv'
  BY <1>1, <1>2, <1>3 DEF SessionInv
<1>8. WaitsForSomeone'
  BY <1>1, <1>2 DEF WaitsForSomeone, Waits, Pending, Has
<1>9. Queued' = {} /\ AtReader' = {}
  BY <1>3 DEF Queued, AtReader, Elements
<1>10. AtServer' \subseteq AtServer /\ AtRequester' = AtRequester
  BY <1>2, <1>4 DEF AtServer, AtRequester, Pending, Triple
<1>11. NumberInv'
  BY <1>1, <1>2, <1>9, <1>10, Fewer DEF Outstanding
<1>12. ASSUME NEW q \in sent', NEW o \in sent', q.call = o.call
       PROVE  q = o
  <2>1. PICK q1 \in sent : q.call = q1.call /\ q = [q1 EXCEPT !.mine = FALSE]
    BY <1>4
  <2>2. PICK o1 \in sent : o.call = o1.call /\ o = [o1 EXCEPT !.mine = FALSE]
    BY <1>4
  <2>3. q1 = o1
    BY <1>1, <1>12, <2>1, <2>2 DEF CallInv
  <2> QED BY <2>1, <2>2, <2>3
<1>13. CallInv'
  BY <1>1, <1>2, <1>4, <1>9, <1>12 DEF CallInv
<1> QED BY <1>6, <1>7, <1>8, <1>11, <1>13 DEF IInv

LEMMA StopClearStep ==
  ASSUME IInv, StopClear
  PROVE  IInv'
<1>1. TypeOK /\ SessionInv /\ NumberInv /\ CallInv /\ WaitsForSomeone
  BY DEF IInv
<1>2. UNCHANGED <<running, failed, reader, unposted, disp, events, batch, told, txn, pc, calls, call, answered,
                  slot, served, sock, inbox, alive, modem, sent, fails>>
  BY DEF StopClear, readerVars, dispVars, callVars, modemVars
<1>3. owner = "clear" /\ owner' = "closed" /\ servers' = {}
  BY DEF StopClear
<1>4. TypeOK'
  BY <1>1, <1>2, <1>3 DEF TypeOK
<1>5. SessionInv'
  BY <1>1, <1>2, <1>3 DEF SessionInv
<1>6. \A r \in Requester : ~Waits(r)
  BY <1>1, <1>3 DEF WaitsForSomeone, SessionInv
<1>7. WaitsForSomeone'
  BY <1>2, <1>6 DEF WaitsForSomeone, Waits, Pending
<1>8. NumberInv' /\ CallInv'
  BY <1>1, <1>2, RestInv
<1> QED BY <1>4, <1>5, <1>7, <1>8 DEF IInv

LEMMA StartStep ==
  ASSUME IInv, Start
  PROVE  IInv'
<1>1. TypeOK /\ SessionInv /\ NumberInv /\ CallInv /\ WaitsForSomeone
  BY DEF IInv
<1>2. UNCHANGED <<unposted, events, batch, told, servers, txn, pc, calls, call, answered, slot, served, alive,
                  modem, sent, fails>>
  BY DEF Start, callVars, modemVars
<1>3. /\ owner = "closed" /\ owner' = "watch" /\ sock' = TRUE /\ failed' = FALSE /\ running' = TRUE
      /\ reader' = "run" /\ disp' = "wait"
  BY DEF Start
<1>4. PICK up \in Orders(alive) : inbox' = [i \in DOMAIN up |-> New(up[i])]
  BY DEF Start
<1>5. inbox' \in Seq(Packets) /\ \A i \in DOMAIN inbox' : inbox'[i].kind = "new"
  BY <1>1, <1>4, PacketsOf DEF TypeOK
<1>6. TypeOK'
  BY <1>1, <1>2, <1>3, <1>5 DEF TypeOK
<1>7. SessionInv'
  BY <1>1, <1>2, <1>3 DEF SessionInv
<1>8. WaitsForSomeone'
  BY <1>1, <1>2, <1>3 DEF WaitsForSomeone, Waits, Pending, Has
<1>9. Queued' = {} /\ AtReader' = {}
  BY <1>5 DEF Queued, AtReader, Elements
<1>10. AtServer' = AtServer /\ AtRequester' = AtRequester
  BY <1>2 DEF AtServer, AtRequester, Pending, Triple
<1>11. NumberInv'
  BY <1>1, <1>2, <1>9, <1>10, Fewer DEF Outstanding
<1>12. CallInv'
  BY <1>1, <1>2, <1>9 DEF CallInv
<1> QED BY <1>6, <1>7, <1>8, <1>11, <1>12 DEF IInv

\* What the modem does changes neither the client nor its requests.
ModemOnly == UNCHANGED <<running, owner, failed, reader, unposted, disp, events, batch, told, servers, txn,
                         pc, calls, call, answered, slot, sock, fails>>

LEMMA ModemInv ==
  ASSUME IInv, ModemOnly
  PROVE  SessionInv' /\ WaitsForSomeone' /\ AtRequester' = AtRequester
<1> USE DEF ModemOnly, IInv
<1>1. SessionInv'
  BY DEF SessionInv
<1>2. WaitsForSomeone'
  BY DEF WaitsForSomeone, Waits, Pending, Has
<1>3. AtRequester' = AtRequester
  BY DEF AtRequester, Pending, Triple
<1> QED BY <1>1, <1>2, <1>3

\* A packet that is no answer changes nothing of what is under way.
LEMMA AnnounceInv ==
  ASSUME IInv, ModemOnly, served' = served, sent' \subseteq sent,
         inbox' \in Seq(Packets), Queued' = Queued
  PROVE  NumberInv' /\ CallInv'
<1>1. NumberInv /\ CallInv /\ AtRequester' = AtRequester
  BY ModemInv DEF IInv
<1>2. AtServer' \subseteq AtServer /\ AtReader' = AtReader
  BY DEF AtServer, AtReader, Triple
<1>3. NumberInv'
  BY <1>1, <1>2, Fewer DEF Outstanding, ModemOnly
<1>4. CallInv'
  BY <1>1 DEF CallInv, ModemOnly
<1> QED BY <1>3, <1>4

LEMMA AnnouncedPacket ==
  ASSUME TypeOK, NEW p \in Packets, p.kind # "answer", inbox' = inbox \/ inbox' = Append(inbox, p)
  PROVE  inbox' \in Seq(Packets) /\ Queued' = Queued
<1>1. inbox \in Seq(Packets)
  BY DEF TypeOK
<1>2. CASE inbox' = inbox
  BY <1>1, <1>2 DEF Queued, Elements
<1>3. CASE inbox' = Append(inbox, p)
  <2>1. Elements(inbox)' = Elements(inbox) \cup {p}
    BY <1>1, <1>3, ElementsAppend DEF Elements
  <2> QED BY <1>1, <1>3, <2>1 DEF Queued
<1> QED BY <1>2, <1>3

LEMMA ServerUpStep ==
  ASSUME IInv, NEW a \in Server, ServerUp(a)
  PROVE  IInv'
<1>1. TypeOK
  BY DEF IInv
<1>2. ModemOnly /\ served' = served /\ sent' = sent
  BY DEF ServerUp, ModemOnly, ownerVars, readerVars, dispVars, callVars
<1>3. alive' \in SUBSET Server /\ modem' \in 0..MaxModem
  BY <1>1, ConstantsAssumption DEF ServerUp, TypeOK
<1>4. New(a) \in Packets /\ New(a).kind # "answer"
  BY DEF New, Packets
<1>5. inbox' = inbox \/ inbox' = Append(inbox, New(a))
  BY DEF ServerUp, Announce
<1>6. inbox' \in Seq(Packets) /\ Queued' = Queued
  BY <1>1, <1>4, <1>5, AnnouncedPacket
<1>7. TypeOK'
  BY <1>1, <1>2, <1>3, <1>6 DEF TypeOK, ModemOnly
<1> QED BY <1>2, <1>6, <1>7, ModemInv, AnnounceInv DEF IInv

LEMMA ServersDownStep ==
  ASSUME IInv, NEW S \in SUBSET Server, ServersDown(S)
  PROVE  IInv'
<1>1. TypeOK
  BY DEF IInv
<1>2. ModemOnly /\ served' = served /\ sent' \subseteq sent
  BY DEF ServersDown, ModemOnly, ownerVars, readerVars, dispVars, callVars
<1>3. alive' \in SUBSET Server /\ modem' \in 0..MaxModem
  BY <1>1, ConstantsAssumption DEF ServersDown, TypeOK
<1>4. Gone(S) \in Packets /\ Gone(S).kind # "answer"
  BY DEF Gone, Packets
<1>5. inbox' = inbox \/ inbox' = Append(inbox, Gone(S))
  BY DEF ServersDown, Announce
<1>6. inbox' \in Seq(Packets) /\ Queued' = Queued
  BY <1>1, <1>4, <1>5, AnnouncedPacket
<1>7. TypeOK'
  BY <1>1, <1>2, <1>3, <1>6 DEF TypeOK, ModemOnly
<1> QED BY <1>2, <1>6, <1>7, ModemInv, AnnounceInv DEF IInv

LEMMA IndicateStep ==
  ASSUME IInv, NEW a \in Server, Indicate(a)
  PROVE  IInv'
<1>1. TypeOK
  BY DEF IInv
<1>2. ModemOnly /\ served' = served /\ sent' = sent
  BY DEF Indicate, ModemOnly, ownerVars, readerVars, dispVars, callVars
<1>3. alive' = alive /\ modem' \in 0..MaxModem
  BY <1>1, ConstantsAssumption DEF Indicate, TypeOK
<1>4. Indication(a) \in Packets /\ Indication(a).kind # "answer"
  BY DEF Indication, Packets
<1>5. inbox' = Append(inbox, Indication(a))
  BY DEF Indicate
<1>6. inbox' \in Seq(Packets) /\ Queued' = Queued
  BY <1>1, <1>4, <1>5, AnnouncedPacket
<1>7. TypeOK'
  BY <1>1, <1>2, <1>3, <1>6 DEF TypeOK, ModemOnly
<1> QED BY <1>2, <1>6, <1>7, ModemInv, AnnounceInv DEF IInv

\* A call is served once, and its answer carries its number.
LEMMA ServeStep ==
  ASSUME IInv, NEW q \in sent, Serve(q)
  PROVE  IInv'
<1> DEFINE p == Answer(q.to, q.txn, q.call)
<1>1. TypeOK /\ SessionInv /\ NumberInv /\ CallInv /\ WaitsForSomeone
  BY DEF IInv
<1>2. ModemOnly /\ UNCHANGED <<alive, modem>>
  BY DEF Serve, ModemOnly, ownerVars, readerVars, dispVars, callVars, modemVars
<1>3. sent' = sent \ {q} /\ served' = served \cup {q.call}
  BY DEF Serve
<1>4. q \in Sends
  BY <1>1 DEF TypeOK
<1>5. p \in Packets /\ p.kind = "answer" /\ p.from = q.to /\ p.txn = q.txn /\ p.call = q.call
  BY <1>4 DEF Answer, Packets, Sends
<1>6. inbox' = inbox \/ inbox' = Append(inbox, p)
  BY DEF Serve
<1> HIDE DEF p
<1>7. inbox' \in Seq(Packets) /\ Elements(inbox)' \subseteq Elements(inbox) \cup {p}
  <2>1. inbox \in Seq(Packets)
    BY <1>1 DEF TypeOK
  <2>2. Elements(Append(inbox, p)) = Elements(inbox) \cup {p}
    BY <1>5, <2>1, ElementsAppend
  <2>3. Append(inbox, p) \in Seq(Packets)
    BY <1>5, <2>1
  <2> QED BY <1>6, <2>1, <2>2, <2>3 DEF Elements
<1>8. Queued' \subseteq Queued \cup {p}
  BY <1>7 DEF Queued
<1>9. q.call \in 1..calls
  BY <1>1, <1>4, ConstantsAssumption DEF CallInv, Sends, TypeOK
<1>10. TypeOK'
  BY <1>1, <1>2, <1>3, <1>7, <1>9 DEF TypeOK, ModemOnly
<1>11. AtRequester' = AtRequester /\ SessionInv' /\ WaitsForSomeone'
  BY <1>2, ModemInv
<1>12. AtServer' \subseteq AtServer
  BY <1>3 DEF AtServer, Triple
<1>13. AtReader' \subseteq AtReader \cup {Triple(SvcOf[q.to], q.txn, q.call)}
  BY <1>5, <1>8 DEF AtReader, Triple
<1>14. Triple(SvcOf[q.to], q.txn, q.call) \in AtServer
  BY DEF AtServer
<1>15. NumberInv'
  BY <1>1, <1>2, <1>11, <1>12, <1>13, <1>14, Fewer DEF Outstanding, ModemOnly
<1>16. \A o \in sent' : o.call # q.call
  BY <1>1, <1>3 DEF CallInv
<1>17. CallInv'
  BY <1>1, <1>2, <1>3, <1>5, <1>8, <1>16 DEF CallInv, ModemOnly
<1> QED BY <1>10, <1>11, <1>15, <1>17 DEF IInv

-----------------------------------------------------------------------------
(* The invariant *)

LEMMA NextInv ==
  IInv /\ [Next]_vars => IInv'
<1> SUFFICES ASSUME IInv, [Next]_vars PROVE IInv'
  OBVIOUS
<1>1. CASE UNCHANGED vars
  <2>1. ModemOnly /\ UNCHANGED <<served, inbox, alive, modem, sent>>
    BY <1>1 DEF vars, ModemOnly, ownerVars, readerVars, dispVars, callVars, modemVars
  <2>2. TypeOK' /\ SessionInv' /\ WaitsForSomeone'
    BY <2>1, ModemInv DEF IInv, TypeOK, ModemOnly
  <2>3. NumberInv' /\ CallInv'
    BY <2>1, RestInv DEF IInv, ModemOnly
  <2> QED BY <2>2, <2>3 DEF IInv
<1>2. ASSUME NEW r \in Requester, (\E s \in Service : Begin(r, s)) \/ Request(r)
      PROVE  IInv'
  BY <1>2, BeginStep, RegisterStep, SendStep, FinishStep DEF Request
<1>3. CASE Reader \/ RecvFails
  BY <1>3, ReadStep, PostStep, RecvFailsStep DEF Reader
<1>4. CASE Dispatch
  BY <1>4, DispatchStep
<1>5. CASE Owner
  BY <1>5, StopBeginStep, StopSweepStep, StopJoinStep, StopClearStep, StartStep DEF Owner
<1>6. ASSUME NEW a \in Server, ServerUp(a) \/ ServersDown({a}) \/ Indicate(a)
      PROVE  IInv'
  BY <1>6, ServerUpStep, ServersDownStep, IndicateStep
<1>7. CASE ServersDown(Remote)
  BY <1>7, ServersDownStep, ConstantsAssumption
<1>8. ASSUME NEW q \in sent, Serve(q)
      PROVE  IInv'
  BY <1>8, ServeStep
<1> QED BY <1>1, <1>2, <1>3, <1>4, <1>5, <1>6, <1>7, <1>8 DEF Next

THEOREM Invariant == Spec => []IInv
<1> QED BY InitInv, NextInv, PTL DEF Spec

\* Every variable keeps its type, in any interleaving of requests, reader,
\* dispatcher, owner and modem.
THEOREM TypeCorrect == Spec => []TypeOK
<1> QED BY Invariant, PTL DEF IInv

\* No request waits for a service that is gone or for a socket that has failed
\* (handleCtrl, failTransport, request).
THEOREM NoneWaitsInVain == Spec => []WaitsForSomeone
<1> QED BY Invariant, PTL DEF IInv

-----------------------------------------------------------------------------
(* The calls are calls of QmiCalls *)

\* A request that returns closes its call.
LEMMA ReturnCloses ==
  ASSUME IInv, NEW r \in Requester, NEW s, Return(r, s), pc[r] # "idle", served' = served,
         s = "answered" => call[r] \in served
  PROVE  Calls!Close(r)
<1>1. call[r] # 0
  BY DEF IInv, CallInv
<1> QED BY <1>1 DEF Return, Calls!Close

LEMMA StepRefines ==
  ASSUME IInv, Next
  PROVE  [Calls!Next]_Calls!vars
<1>1. ASSUME NEW r \in Requester, NEW s \in Service, Begin(r, s)
      PROVE  Calls!Open(r)
  <2>1. call[r] = 0
    BY <1>1 DEF Begin, IInv, CallInv
  <2> QED BY <1>1, <2>1 DEF Begin, Calls!Open
<1>2. ASSUME NEW r \in Requester, Register(r)
      PROVE  Calls!Close(r) \/ UNCHANGED Calls!vars
  <2>1. pc[r] = "register" /\ served' = served
    BY <1>2 DEF Register
  <2>2. CASE Return(r, "noService")
    BY <2>1, <2>2, ReturnCloses
  <2> QED BY <1>2, <2>1, <2>2 DEF Register, Calls!vars
<1>3. ASSUME NEW r \in Requester, Send(r)
      PROVE  Calls!Close(r) \/ UNCHANGED Calls!vars
  <2>1. pc[r] = "send" /\ served' = served
    BY <1>3 DEF Send
  <2>2. CASE Return(r, "transportError")
    BY <2>1, <2>2, ReturnCloses
  <2> QED BY <1>3, <2>1, <2>2 DEF Send, Calls!vars
<1>4. ASSUME NEW r \in Requester, Finish(r)
      PROVE  Calls!Close(r)
  <2> DEFINE s == IF slot[r].status # "open" THEN slot[r].status ELSE IF running THEN "timeout" ELSE "stopped"
  <2>1. pc[r] = "wait" /\ served' = served /\ Return(r, s)
    BY <1>4 DEF Finish
  <2>2. s = "answered" => call[r] \in served
    BY <2>1 DEF IInv, CallInv
  <2> HIDE DEF s
  <2> QED BY <2>1, <2>2, ReturnCloses
<1>5. ASSUME NEW q \in sent, Serve(q)
      PROVE  Calls!Serve(q.call)
  <2>1. q \in Sends /\ q.call <= calls /\ q.call \notin served /\ calls \in Nat
    BY <1>5 DEF IInv, TypeOK, CallInv
  <2>2. q.call \in (1..calls) \ served
    BY <2>1, ConstantsAssumption DEF Sends
  <2> QED BY <1>5, <2>2 DEF Serve, Calls!Serve, callVars
<1>6. CASE Reader \/ RecvFails
  BY <1>6 DEF Reader, Read, Post, RecvFails, callVars, Calls!vars
<1>7. CASE Dispatch \/ Owner
  BY <1>7 DEF Dispatch, Owner, StopBegin, StopSweep, StopJoin, StopClear, Start, callVars, Calls!vars
<1>8. ASSUME NEW a \in Server, ServerUp(a) \/ ServersDown({a}) \/ Indicate(a)
      PROVE  UNCHANGED Calls!vars
  BY <1>8 DEF ServerUp, ServersDown, Indicate, callVars, Calls!vars
<1>9. CASE ServersDown(Remote)
  BY <1>9 DEF ServersDown, callVars, Calls!vars
<1>10. ASSUME NEW q \in sent, Serve(q)
       PROVE  Calls!Next
  <2>1. q.call \in 1..calls
    BY <1>5, <1>10 DEF Calls!Serve
  <2> QED BY <1>5, <1>10, <2>1 DEF Calls!Next
<1> QED BY <1>1, <1>2, <1>3, <1>4, <1>6, <1>7, <1>8, <1>9, <1>10 DEF Next, Request, Calls!Next

\* The modem executes a call at most once, and an answer is the answer to its
\* call: every behaviour of the client is one of QmiCalls (request, handleData).
THEOREM ClientRefines == Spec => CallsAreOwn
<1>1. Init => Calls!Init
  BY DEF Init, Calls!Init
<1>2. IInv /\ [Next]_vars => [Calls!Next]_Calls!vars
  <2>1. UNCHANGED vars => UNCHANGED Calls!vars
    BY DEF vars, callVars, Calls!vars
  <2> QED BY <2>1, StepRefines
<1> QED BY <1>1, <1>2, Invariant, PTL DEF Spec, CallsAreOwn, Calls!Spec

-----------------------------------------------------------------------------
(* ObserversTrack *)

\* Heard and ObserversTrack of any queue q, observers that have heard t, and servers S.
HeardIn(q, t, s, i, up) ==
  \E j \in 0..(i - 1) :
    /\ IF j = 0 THEN t[s] = up ELSE q[j].svc = s /\ q[j].up = up
    /\ \A k \in (j + 1)..(i - 1) : q[k].svc # s

Expected(e) == IF e.kind = "svc" THEN ~e.up ELSE TRUE

Track(q, t, S) ==
  /\ \A s \in Service : HeardIn(q, t, s, Len(q) + 1, Has(s, S))
  /\ \A i \in DOMAIN q : HeardIn(q, t, q[i].svc, i, Expected(q[i]))
  /\ \A i \in DOMAIN q : q[i].kind = "ind" => q[i].up

\* The queues in between are empty while their thread has nothing to do.
QueuesInv ==
  /\ unposted # <<>> => reader = "post"
  /\ batch # <<>> => disp = "deliver"
  /\ owner \in {"clear", "closed"} => disp = "off"

\* Nothing that comes later changes what is heard before it.
LEMMA HeardPrefix ==
  ASSUME NEW q \in Seq(Events), NEW r \in Seq(Events), NEW t, NEW s, NEW i \in 1..(Len(q) + 1),
         NEW up, HeardIn(q, t, s, i, up)
  PROVE  HeardIn(q \o r, t, s, i, up)
<1> DEFINE p == q \o r
<1>1. \A k \in 1..Len(q) : p[k] = q[k]
  BY ConcatProperties
<1>2. Len(q) \in Nat
  BY LenProperties
<1> HIDE DEF p
<1>3. PICK j \in 0..(i - 1) : /\ IF j = 0 THEN t[s] = up ELSE q[j].svc = s /\ q[j].up = up
                              /\ \A k \in (j + 1)..(i - 1) : q[k].svc # s
  BY DEF HeardIn
<1>4. \A k \in (j + 1)..(i - 1) : k \in 1..Len(q)
  BY <1>2
<1>5. j # 0 => j \in 1..Len(q)
  BY <1>2
<1>6. HeardIn(p, t, s, i, up)
  BY <1>1, <1>3, <1>4, <1>5 DEF HeardIn
<1> QED  BY <1>6 DEF p

\* Events posted together, of different services, that tell what changed.
LEMMA TrackAppend ==
  ASSUME NEW q \in Seq(Events), NEW es \in Seq(Events), NEW t, NEW S, NEW R, Track(q, t, S),
         \A k, l \in DOMAIN es : es[k].svc = es[l].svc => k = l,
         \A k \in DOMAIN es : /\ es[k].up = Has(es[k].svc, R) /\ Expected(es[k]) = Has(es[k].svc, S)
                              /\ es[k].kind = "ind" => es[k].up,
         \A s \in Service : Has(s, R) = Has(s, S) \/ \E k \in DOMAIN es : es[k].svc = s
  PROVE  Track(q \o es, t, R)
<1> DEFINE p == q \o es  n == Len(q)  m == Len(es)
<1>1. /\ p \in Seq(Events) /\ Len(p) = n + m
      /\ \A k \in 1..n : p[k] = q[k]
      /\ \A k \in 1..m : p[n + k] = es[k]
  BY ConcatProperties
<1>2. n \in Nat /\ m \in Nat /\ DOMAIN q = 1..n /\ DOMAIN es = 1..m /\ DOMAIN p = 1..(n + m)
  BY <1>1, LenProperties
<1>3. \A s, up : \A i \in 1..(n + 1) : HeardIn(q, t, s, i, up) => HeardIn(p, t, s, i, up)
  BY HeardPrefix
<1> HIDE DEF p, n, m
<1>4. \A s \in Service : HeardIn(p, t, s, n + 1, Has(s, S))
  <2>1. \A s \in Service : HeardIn(q, t, s, n + 1, Has(s, S))
    BY DEF Track, n
  <2> QED  BY <1>2, <1>3, <2>1
\* What is heard before the new events stays heard up to the one of the same service.
<1>5. ASSUME NEW s \in Service, NEW i \in (n + 1)..(n + m + 1), \A k \in 1..m : n + k < i => es[k].svc # s
      PROVE  HeardIn(p, t, s, i, Has(s, S))
  <2>1. PICK j \in 0..n : /\ IF j = 0 THEN t[s] = Has(s, S) ELSE p[j].svc = s /\ p[j].up = Has(s, S)
                          /\ \A k \in (j + 1)..n : p[k].svc # s
    <3>1. (n + 1) - 1 = n
      BY <1>2
    <3> QED  BY <1>4, <3>1 DEF HeardIn
  <2>2. \A k \in (j + 1)..(i - 1) : p[k].svc # s
    <3> SUFFICES ASSUME NEW k \in (j + 1)..(i - 1) PROVE p[k].svc # s
      OBVIOUS
    <3>1. CASE k <= n
      BY <1>2, <2>1, <3>1
    <3>2. CASE k > n
      <4>1. k - n \in 1..m /\ n + (k - n) = k /\ n + (k - n) < i
        BY <1>2, <3>2
      <4> QED  BY <1>1, <1>5, <4>1
    <3> QED  BY <1>2, <3>1, <3>2
  <2>3. j \in 0..(i - 1)
    BY <1>2
  <2> QED  BY <2>1, <2>2, <2>3 DEF HeardIn
<1>6. \A k \in 1..m : es[k] \in Events /\ es[k].svc \in Service
  <2>1. \A k \in 1..m : es[k] \in Events
    BY <1>2, ElementOfSeq DEF m
  <2> QED  BY <2>1 DEF Events
<1>7. ASSUME NEW s \in Service
      PROVE  HeardIn(p, t, s, Len(p) + 1, Has(s, R))
  <2>1. CASE \E k \in 1..m : es[k].svc = s
    <3>1. PICK k \in 1..m : es[k].svc = s
      BY <2>1
    <3>2. p[n + k].svc = s /\ p[n + k].up = Has(s, R)
      BY <1>1, <1>2, <3>1
    <3>3. \A l \in (n + k + 1)..(n + m) : p[l].svc # s
      <4> SUFFICES ASSUME NEW l \in (n + k + 1)..(n + m) PROVE p[l].svc # s
        OBVIOUS
      <4>1. l - n \in 1..m /\ n + (l - n) = l /\ l - n # k
        BY <1>2
      <4>2. p[l] = es[l - n]
        BY <1>1, <4>1
      <4>3. es[l - n].svc # es[k].svc
        BY <1>2, <4>1
      <4> QED  BY <3>1, <4>2, <4>3
    <3>4. n + k \in 0..(n + m) /\ n + k # 0 /\ (n + m + 1) - 1 = n + m
      BY <1>2
    <3> QED  BY <1>1, <3>2, <3>3, <3>4 DEF HeardIn
  <2>2. CASE ~\E k \in 1..m : es[k].svc = s
    <3>1. Has(s, R) = Has(s, S)
      BY <1>2, <2>2
    <3>2. n + m + 1 \in (n + 1)..(n + m + 1)
      BY <1>2
    <3> QED  BY <1>1, <1>5, <2>2, <3>1, <3>2
  <2> QED  BY <2>1, <2>2
<1>8. ASSUME NEW i \in DOMAIN p
      PROVE  HeardIn(p, t, p[i].svc, i, Expected(p[i])) /\ (p[i].kind = "ind" => p[i].up)
  <2>1. CASE i <= n
    <3>1. i \in DOMAIN q /\ p[i] = q[i] /\ i \in 1..(n + 1)
      BY <1>1, <1>2, <2>1
    <3>2. HeardIn(q, t, q[i].svc, i, Expected(q[i])) /\ (q[i].kind = "ind" => q[i].up)
      BY <3>1 DEF Track
    <3> QED  BY <1>3, <3>1, <3>2
  <2>2. CASE i > n
    <3> DEFINE k == i - n
    <3>1. k \in 1..m /\ n + k = i /\ p[i] = es[k] /\ i \in (n + 1)..(n + m + 1)
      <4>1. k \in 1..m /\ n + k = i /\ i \in (n + 1)..(n + m + 1)
        BY <1>2, <2>2
      <4> QED  BY <1>1, <4>1
    <3>2. \A l \in 1..m : n + l < i => es[l].svc # es[k].svc
      <4> SUFFICES ASSUME NEW l \in 1..m, n + l < i PROVE es[l].svc # es[k].svc
        OBVIOUS
      <4>1. l # k
        BY <1>2, <3>1
      <4> QED  BY <1>2, <3>1, <4>1
    <3> HIDE DEF k
    <3>3. HeardIn(p, t, es[k].svc, i, Has(es[k].svc, S))
      BY <1>5, <1>6, <3>1, <3>2
    <3>4. Expected(es[k]) = Has(es[k].svc, S) /\ (es[k].kind = "ind" => es[k].up)
      BY <1>2, <3>1
    <3> QED  BY <3>1, <3>3, <3>4
  <2> QED  BY <1>2, <2>1, <2>2
<1> QED  BY <1>7, <1>8 DEF Track, p

\* The head of the queue is heard.
LEMMA TrackPop ==
  ASSUME NEW q \in Seq(Events), q # <<>>, NEW t \in [Service -> BOOLEAN], NEW S, Track(q, t, S)
  PROVE  LET e == Head(q) IN Track(Tail(q), IF e.kind = "svc" THEN [t EXCEPT ![e.svc] = e.up] ELSE t, S)
<1> DEFINE e == Head(q)  p == Tail(q)  n == Len(p)
           u == IF e.kind = "svc" THEN [t EXCEPT ![e.svc] = e.up] ELSE t
<1>1. /\ p \in Seq(Events) /\ Len(q) = n + 1 /\ n \in Nat /\ e = q[1] /\ e \in Events
      /\ \A i \in 1..n : p[i] = q[i + 1]
      /\ DOMAIN q = 1..(n + 1) /\ DOMAIN p = 1..n
  BY HeadTailProperties, LenProperties, EmptySeq
<1>2. e.svc \in Service /\ e.up \in BOOLEAN /\ e.kind \in {"svc", "ind"}
  BY <1>1 DEF Events
<1> HIDE DEF e, p, n
<1>3. e.kind = "ind" => t[e.svc] = TRUE /\ e.up = TRUE
  <2>1. 1 \in DOMAIN q
    BY <1>1
  <2>2. HeardIn(q, t, e.svc, 1, Expected(e)) /\ (e.kind = "ind" => e.up)
    BY <1>1, <2>1 DEF Track
  <2>3. t[e.svc] = Expected(e)
    BY <2>2 DEF HeardIn
  <2> QED  BY <1>2, <2>2, <2>3 DEF Expected
<1>4. u[e.svc] = e.up /\ \A s \in Service : s # e.svc => u[s] = t[s]
  BY <1>2, <1>3
<1> HIDE DEF u
<1>5. ASSUME NEW s \in Service, NEW i \in 1..(n + 1), NEW up, HeardIn(q, t, s, i + 1, up)
      PROVE  HeardIn(p, u, s, i, up)
  <2>1. PICK j \in 0..i : /\ IF j = 0 THEN t[s] = up ELSE q[j].svc = s /\ q[j].up = up
                          /\ \A k \in (j + 1)..i : q[k].svc # s
    <3>1. (i + 1) - 1 = i
      BY <1>1
    <3> QED  BY <1>5, <3>1 DEF HeardIn
  <2> DEFINE l == IF j = 0 THEN 0 ELSE j - 1
  <2>2. l \in 0..(i - 1)
    BY <1>1, <2>1
  <2>3. \A k \in (l + 1)..(i - 1) : p[k].svc # s
    <3> SUFFICES ASSUME NEW k \in (l + 1)..(i - 1) PROVE p[k].svc # s
      OBVIOUS
    <3>1. k + 1 \in (j + 1)..i /\ k \in 1..n
      BY <1>1
    <3>2. p[k] = q[k + 1]
      BY <1>1, <3>1
    <3> QED  BY <2>1, <3>1, <3>2
  <2>4. IF l = 0 THEN u[s] = up ELSE p[l].svc = s /\ p[l].up = up
    <3>1. CASE j = 0
      <4>1. q[1].svc # s /\ t[s] = up
        BY <1>1, <2>1, <3>1
      <4> QED  BY <1>1, <1>4, <3>1, <4>1
    <3>2. CASE j = 1
      BY <1>1, <1>4, <2>1, <3>2
    <3>3. CASE j > 1
      <4>1. l # 0 /\ l \in 1..n /\ l + 1 = j /\ j # 0
        BY <1>1, <3>3
      <4>2. p[l] = q[j]
        BY <1>1, <4>1
      <4> QED  BY <2>1, <4>1, <4>2
    <3> QED  BY <3>1, <3>2, <3>3
  <2> QED  BY <2>2, <2>3, <2>4 DEF HeardIn
<1>6. \A s \in Service : HeardIn(p, u, s, n + 1, Has(s, S))
  <2>1. n + 1 \in 1..(n + 1)
    BY <1>1
  <2>2. \A s \in Service : HeardIn(q, t, s, (n + 1) + 1, Has(s, S))
    BY <1>1 DEF Track
  <2> QED  BY <1>5, <2>1, <2>2
<1>7. ASSUME NEW i \in 1..n
      PROVE  HeardIn(p, u, p[i].svc, i, Expected(p[i])) /\ (p[i].kind = "ind" => p[i].up)
  <2>1. i + 1 \in DOMAIN q /\ p[i] = q[i + 1] /\ i \in 1..(n + 1) /\ p[i] \in Events
    BY <1>1
  <2>2. HeardIn(q, t, p[i].svc, i + 1, Expected(p[i])) /\ (p[i].kind = "ind" => p[i].up)
    BY <2>1 DEF Track
  <2>3. p[i].svc \in Service
    BY <2>1 DEF Events
  <2> QED  BY <1>5, <2>1, <2>2, <2>3
<1>8. Track(p, u, S)
  BY <1>1, <1>6, <1>7 DEF Track, n
<1> QED  BY <1>8 DEF p, u, e

\* A listing of a set of services names each of them once.
LEMMA ListsAll ==
  ASSUME NEW S \in SUBSET Service, NEW f \in Orders(S), NEW up \in BOOLEAN
  PROVE  LET es == [i \in DOMAIN f |-> SvcEvent(f[i], up)] IN
         /\ es \in Seq(Events)
         /\ \A k, l \in DOMAIN es : es[k].svc = es[l].svc => k = l
         /\ \A k \in DOMAIN es : es[k].kind = "svc" /\ es[k].up = up /\ es[k].svc \in S
         /\ \A s \in S : \E k \in DOMAIN es : es[k].svc = s
<1> DEFINE es == [i \in DOMAIN f |-> SvcEvent(f[i], up)]  n == Cardinality(S)
<1>1. IsFiniteSet(S) /\ n \in Nat
  BY FS_Subset, FS_CardinalityType, ConstantsAssumption
<1>2. f \in [1..n -> S] /\ \A i, j \in 1..n : f[i] = f[j] => i = j
  BY DEF Orders
<1>3. DOMAIN es = 1..n /\ \A k \in 1..n : es[k].kind = "svc" /\ es[k].svc = f[k] /\ es[k].up = up
  BY <1>2 DEF SvcEvent
<1>4. f \in Injection(1..n, S)
  BY <1>2 DEF Injection, IsInjective
<1>5. Cardinality(1..n) = n
  BY <1>1, FS_Interval
<1>6. f \in Surjection(1..n, S)
  BY <1>1, <1>4, <1>5, FS_Injection
<1>7. \A s \in S : \E k \in 1..n : f[k] = s
  BY <1>6 DEF Surjection
<1>8. es \in Seq(Events)
  BY EventsOf
<1> HIDE DEF es, n
<1>9. /\ \A k, l \in DOMAIN es : es[k].svc = es[l].svc => k = l
      /\ \A k \in DOMAIN es : es[k].kind = "svc" /\ es[k].up = up /\ es[k].svc \in S
      /\ \A s \in S : \E k \in DOMAIN es : es[k].svc = s
  BY <1>2, <1>3, <1>7
<1> QED  BY <1>8, <1>9 DEF es

\* The reader posts what changed.
LEMMA TrackListed ==
  ASSUME NEW q \in Seq(Events), NEW t, NEW A, NEW B, NEW S, NEW up \in BOOLEAN, Track(q, t, A),
         S = {s \in Service : Has(s, A) = ~up /\ Has(s, B) = up},
         \A s \in Service : s \in S \/ Has(s, B) = Has(s, A),
         NEW f \in Orders(S)
  PROVE  LET es == [i \in DOMAIN f |-> SvcEvent(f[i], up)]
         IN  es \in Seq(Events) /\ Track(q \o es, t, B)
<1> DEFINE es == [i \in DOMAIN f |-> SvcEvent(f[i], up)]
<1>1. /\ es \in Seq(Events)
      /\ \A k, l \in DOMAIN es : es[k].svc = es[l].svc => k = l
      /\ \A k \in DOMAIN es : es[k].kind = "svc" /\ es[k].up = up /\ es[k].svc \in S
      /\ \A s \in S : \E k \in DOMAIN es : es[k].svc = s
  BY ListsAll
<1> HIDE DEF es
<1>2. \A k \in DOMAIN es : /\ es[k].up = Has(es[k].svc, B) /\ Expected(es[k]) = Has(es[k].svc, A)
                           /\ es[k].kind = "ind" => es[k].up
  <2> TAKE k \in DOMAIN es
  <2>1. es[k].kind = "svc" /\ es[k].up = up /\ es[k].svc \in S
    BY <1>1
  <2>2. Has(es[k].svc, A) = ~up /\ Has(es[k].svc, B) = up
    BY <2>1
  <2>3. Expected(es[k]) = ~es[k].up
    BY <2>1 DEF Expected
  <2> QED  BY <2>1, <2>2, <2>3
<1>3. \A s \in Service : Has(s, B) = Has(s, A) \/ \E k \in DOMAIN es : es[k].svc = s
  BY <1>1
<1>4. Track(q \o es, t, B)
  BY <1>1, <1>2, <1>3, TrackAppend
<1> QED  BY <1>1, <1>4 DEF es

TrackInv == QueuesInv /\ Track(ToHear, told, servers)

LEMMA ToHearTyped ==
  ASSUME TypeOK
  PROVE  /\ batch \in Seq(Events) /\ events \in Seq(Events) /\ unposted \in Seq(Events)
         /\ batch \o events \in Seq(Events) /\ ToHear \in Seq(Events)
         /\ \A s \in Service : Has(s, servers) \in BOOLEAN
<1>1. batch \in Seq(Events) /\ events \in Seq(Events) /\ unposted \in Seq(Events)
  BY DEF TypeOK
<1>2. batch \o events \in Seq(Events)
  BY <1>1, ConcatProperties
<1>3. ToHear \in Seq(Events)
  BY <1>1, <1>2, ConcatProperties DEF ToHear
<1> QED  BY <1>1, <1>2, <1>3 DEF Has

\* The reader is between two packets: what it posts comes last.
LEMMA ReaderPosts ==
  ASSUME IInv, TrackInv, reader = "run", NEW es \in Seq(Events), NEW broken \in BOOLEAN,
         ThenPost(es, broken), UNCHANGED <<disp, events, batch, told, owner>>,
         Track(ToHear \o es, told, servers')
  PROVE  TrackInv'
<1>1. unposted = <<>>
  BY DEF TrackInv, QueuesInv
<1>2. ToHear = batch \o events
  BY <1>1, ToHearTyped, ConcatEmptySeq DEF ToHear, IInv
<1>3. ToHear' = ToHear \o es
  BY <1>2 DEF ToHear, ThenPost
<1>4. QueuesInv'
  BY DEF TrackInv, QueuesInv, ThenPost
<1>5. Track(ToHear', told', servers')
  BY <1>3
<1> QED  BY <1>4, <1>5 DEF TrackInv

LEMMA ReadTracks ==
  ASSUME IInv, TrackInv, Read
  PROVE  TrackInv'
<1> DEFINE p == Head(inbox)
<1>1. TypeOK /\ SessionInv /\ ToHear \in Seq(Events) /\ Track(ToHear, told, servers)
  BY ToHearTyped DEF IInv, TrackInv
<1>2. reader = "run" /\ failed \in BOOLEAN /\ UNCHANGED <<disp, events, batch, told, owner>>
  BY <1>1 DEF Read, ownerVars, dispVars, TypeOK
<1>3. p \in Packets
  BY <1>1, ElementsTail DEF Read, TypeOK
<1>4. NewServer(p) \/ ServersGone(p) \/ Data(p)
  BY DEF Read
<1> HIDE DEF p
<1>5. CASE NewServer(p)
  <2> DEFINE S == {s \in Service : Has(s, p.srv) /\ ~Has(s, servers)}
  <2>1. PICK up \in Orders(S) : ThenPost([i \in DOMAIN up |-> SvcEvent(up[i], TRUE)], failed)
    BY <1>5 DEF NewServer
  <2>2. servers' = servers \cup p.srv
    BY <1>5 DEF NewServer
  <2>3. \A s \in Service : Has(s, servers') <=> Has(s, servers) \/ Has(s, p.srv)
    BY <2>2 DEF Has
  <2>4. \A s \in Service : Has(s, servers') \in BOOLEAN /\ Has(s, servers) \in BOOLEAN
    BY DEF Has
  <2>5. S = {s \in Service : Has(s, servers) = ~TRUE /\ Has(s, servers') = TRUE}
    BY <2>3, <2>4
  <2>6. \A s \in Service : s \in S \/ Has(s, servers') = Has(s, servers)
    BY <2>3, <2>4
  <2> HIDE DEF S
  <2>7. /\ [i \in DOMAIN up |-> SvcEvent(up[i], TRUE)] \in Seq(Events)
        /\ Track(ToHear \o [i \in DOMAIN up |-> SvcEvent(up[i], TRUE)], told, servers')
    BY <1>1, <2>1, <2>5, <2>6, TrackListed
  <2> QED  BY <1>2, <2>1, <2>7, ReaderPosts
<1>6. CASE ServersGone(p)
  <2> DEFINE S == {s \in Service : Has(s, servers) /\ ~Has(s, servers \ p.srv)}
  <2>1. PICK down \in Orders(S) : ThenPost([i \in DOMAIN down |-> SvcEvent(down[i], FALSE)], failed)
    BY <1>6 DEF ServersGone
  <2>2. servers' = servers \ p.srv
    BY <1>6 DEF ServersGone
  <2>3. \A s \in Service : Has(s, servers') => Has(s, servers)
    BY <2>2 DEF Has
  <2>4. \A s \in Service : Has(s, servers') \in BOOLEAN /\ Has(s, servers) \in BOOLEAN
    BY DEF Has
  <2>5. S = {s \in Service : Has(s, servers) = ~FALSE /\ Has(s, servers') = FALSE}
    BY <2>2, <2>4
  <2>6. \A s \in Service : s \in S \/ Has(s, servers') = Has(s, servers)
    BY <2>2, <2>3, <2>4
  <2> HIDE DEF S
  <2>7. /\ [i \in DOMAIN down |-> SvcEvent(down[i], FALSE)] \in Seq(Events)
        /\ Track(ToHear \o [i \in DOMAIN down |-> SvcEvent(down[i], FALSE)], told, servers')
    BY <1>1, <2>1, <2>5, <2>6, TrackListed
  <2> QED  BY <1>2, <2>1, <2>7, ReaderPosts
<1>7. CASE Data(p)
  <2>1. servers' = servers
    BY <1>7 DEF Data
  <2>2. ASSUME ThenPost(<<>>, failed) PROVE TrackInv'
    <3>1. <<>> \in Seq(Events) /\ ToHear \o <<>> = ToHear
      BY <1>1, ConcatEmptySeq
    <3> QED  BY <1>1, <1>2, <2>1, <2>2, <3>1, ReaderPosts
  <2>3. ASSUME p.kind = "indication", p.from \in servers, ThenPost(<<IndEvent(SvcOf[p.from])>>, failed)
        PROVE  TrackInv'
    <3> DEFINE e == IndEvent(SvcOf[p.from])  es == <<e>>
    <3>1. p.from \in Server /\ SvcOf[p.from] \in Service
      BY <1>3, <2>3, ConstantsAssumption DEF Packets
    <3>2. e \in Events /\ e.kind = "ind" /\ e.up = TRUE /\ e.svc = SvcOf[p.from]
      BY <3>1 DEF IndEvent, Events
    <3>3. Has(e.svc, servers) = TRUE /\ Expected(e) = TRUE
      BY <2>3, <3>2 DEF Has, Expected
    <3> HIDE DEF e
    <3>4. es \in Seq(Events) /\ DOMAIN es = {1} /\ es[1] = e
      BY <3>2
    <3> HIDE DEF es
    <3>5. Track(ToHear \o es, told, servers)
      BY <1>1, <3>2, <3>3, <3>4, TrackAppend
    <3>6. ThenPost(es, failed)
      BY <2>3 DEF es, e
    <3> QED  BY <1>2, <2>1, <3>4, <3>5, <3>6, ReaderPosts
  <2> QED  BY <1>7, <2>2, <2>3 DEF Data
<1> QED  BY <1>4, <1>5, <1>6, <1>7

\* A transport that fails takes every service down.
LEMMA RecvFailsTracks ==
  ASSUME IInv, TrackInv, RecvFails
  PROVE  TrackInv'
<1> DEFINE S == {s \in Service : Has(s, servers)}
<1>1. TypeOK /\ ToHear \in Seq(Events) /\ Track(ToHear, told, servers)
  BY ToHearTyped DEF IInv, TrackInv
<1>2. reader = "run" /\ UNCHANGED <<disp, events, batch, told, owner>> /\ servers' = {}
  BY DEF RecvFails, ownerVars, dispVars
<1>3. PICK down \in Orders(S) : ThenPost([i \in DOMAIN down |-> SvcEvent(down[i], FALSE)], TRUE)
  BY DEF RecvFails
<1>4. \A s \in Service : Has(s, servers) \in BOOLEAN /\ Has(s, servers') = FALSE
  BY <1>2 DEF Has
<1>5. S = {s \in Service : Has(s, servers) = ~FALSE /\ Has(s, servers') = FALSE}
  BY <1>4
<1>6. \A s \in Service : s \in S \/ Has(s, servers') = Has(s, servers)
  BY <1>4
<1> HIDE DEF S
<1>7. /\ [i \in DOMAIN down |-> SvcEvent(down[i], FALSE)] \in Seq(Events)
      /\ Track(ToHear \o [i \in DOMAIN down |-> SvcEvent(down[i], FALSE)], told, servers')
  BY <1>1, <1>3, <1>5, <1>6, TrackListed
<1> QED  BY <1>2, <1>3, <1>7, ReaderPosts

\* Events go from queue to queue in their order.
LEMMA PostTracks ==
  ASSUME IInv, TrackInv, Post
  PROVE  TrackInv'
<1> DEFINE e == Head(unposted)
<1>1. TypeOK /\ SessionInv /\ Track(ToHear, told, servers)
  BY DEF IInv, TrackInv
<1>2. batch \in Seq(Events) /\ events \in Seq(Events) /\ unposted \in Seq(Events) /\ batch \o events \in Seq(Events)
  BY <1>1, ToHearTyped
<1>3. /\ unposted # <<>> /\ events' = Append(events, e) /\ unposted' = Tail(unposted)
      /\ UNCHANGED <<owner, disp, batch, told, servers>>
  BY <1>1 DEF Post, ThenPost, SessionInv, ownerVars
<1>4. e \in Events /\ Tail(unposted) \in Seq(Events) /\ <<e>> \in Seq(Events)
  BY <1>2, <1>3, HeadTailProperties
<1>5. unposted = <<e>> \o Tail(unposted)
  BY <1>2, <1>3
<1>6. events' = events \o <<e>>
  BY <1>2, <1>3, <1>4, AppendIsConcat
<1> HIDE DEF e
<1>7. batch \o (events \o <<e>>) = (batch \o events) \o <<e>>
  BY <1>2, <1>4, ConcatAssociative
<1>8. ((batch \o events) \o <<e>>) \o Tail(unposted) = (batch \o events) \o (<<e>> \o Tail(unposted))
  BY <1>2, <1>4, ConcatAssociative
<1>9. ToHear' = ToHear
  BY <1>3, <1>5, <1>6, <1>7, <1>8 DEF ToHear
<1>10. QueuesInv'
  BY <1>3 DEF Post, ThenPost, TrackInv, QueuesInv
<1> QED  BY <1>1, <1>3, <1>9, <1>10 DEF TrackInv

LEMMA DispatchTracks ==
  ASSUME IInv, TrackInv, Dispatch
  PROVE  TrackInv'
<1>1. TypeOK /\ SessionInv /\ QueuesInv /\ Track(ToHear, told, servers) /\ ToHear \in Seq(Events)
  BY ToHearTyped DEF IInv, TrackInv
<1>2. batch \in Seq(Events) /\ events \in Seq(Events) /\ unposted \in Seq(Events) /\ batch \o events \in Seq(Events)
  BY <1>1, ToHearTyped
<1>3. UNCHANGED <<running, owner, reader, unposted, servers>>
  BY DEF Dispatch, ownerVars, readerVars
<1>4. CASE Take
  <2>1. batch = <<>> /\ batch' = events /\ events' = <<>> /\ told' = told /\ disp' = "deliver" /\ disp = "wait"
    BY <1>1, <1>4 DEF Take, QueuesInv
  <2>2. batch \o events = events /\ events \o <<>> = events
    BY <1>2, <2>1, ConcatEmptySeq
  <2>3. ToHear' = ToHear
    BY <1>3, <2>1, <2>2 DEF ToHear
  <2>4. QueuesInv'
    BY <1>1, <1>3, <2>1 DEF QueuesInv
  <2> QED  BY <1>1, <1>3, <2>1, <2>3, <2>4 DEF TrackInv
<1>5. CASE Deliver
  <2> DEFINE e == Head(batch)  rest == events \o unposted
  <2>1. /\ batch # <<>> /\ disp = "deliver" /\ batch' = Tail(batch) /\ events' = events
        /\ told' = IF e.kind = "svc" THEN [told EXCEPT ![e.svc] = e.up] ELSE told
        /\ batch' # <<>> => disp' = "deliver"
    BY <1>1, <1>5 DEF Deliver, SessionInv
  <2>2. e \in Events /\ Tail(batch) \in Seq(Events) /\ <<e>> \in Seq(Events) /\ batch = <<e>> \o Tail(batch)
    BY <1>2, <2>1, HeadTailProperties
  <2>3. rest \in Seq(Events)
    BY <1>2, ConcatProperties
  <2>4. ToHear = batch \o rest /\ ToHear' = Tail(batch) \o rest
    <3>1. (batch \o events) \o unposted = batch \o (events \o unposted)
      BY <1>2, ConcatAssociative
    <3>2. (Tail(batch) \o events) \o unposted = Tail(batch) \o (events \o unposted)
      BY <1>2, <2>2, ConcatAssociative
    <3>3. ToHear' = (Tail(batch) \o events) \o unposted
      BY <1>3, <2>1 DEF ToHear
    <3> QED  BY <3>1, <3>2, <3>3 DEF ToHear
  <2>5. ToHear = <<e>> \o (Tail(batch) \o rest)
    <3> HIDE DEF e, rest
    <3> QED  BY <2>2, <2>3, <2>4, ConcatAssociative
  <2>6. Tail(batch) \o rest \in Seq(Events)
    BY <2>2, <2>3, ConcatProperties
  <2> HIDE DEF e, rest
  <2>7. ToHear # <<>> /\ Head(ToHear) = e /\ Tail(ToHear) = ToHear'
    <3> DEFINE u == Tail(batch) \o rest
    <3>1. u \in Seq(Events) /\ ToHear = <<e>> \o u /\ ToHear' = u
      BY <2>4, <2>5, <2>6
    <3> HIDE DEF u
    <3>2. <<e>> \o u # <<>> /\ Head(<<e>> \o u) = e /\ Tail(<<e>> \o u) = u
      BY <2>2, <3>1
    <3> QED  BY <3>1, <3>2
  <2>8. told \in [Service -> BOOLEAN]
    BY <1>1 DEF TypeOK
  <2>9. Track(ToHear', told', servers)
    BY <1>1, <2>1, <2>7, <2>8, TrackPop
  <2>10. QueuesInv'
    BY <1>1, <1>3, <2>1 DEF QueuesInv
  <2> QED  BY <1>3, <2>9, <2>10 DEF TrackInv
<1>6. CASE DispatcherExits
  <2>1. UNCHANGED <<events, batch, told>> /\ disp = "wait" /\ disp' = "off"
    BY <1>6 DEF DispatcherExits
  <2>2. ToHear' = ToHear
    BY <1>3, <2>1 DEF ToHear
  <2>3. QueuesInv'
    BY <1>1, <1>3, <2>1 DEF QueuesInv
  <2> QED  BY <1>1, <1>3, <2>1, <2>2, <2>3 DEF TrackInv
<1> QED  BY <1>4, <1>5, <1>6 DEF Dispatch

\* The owner starts a client whose queues are empty, and whose services are gone.
LEMMA OwnerTracks ==
  ASSUME IInv, TrackInv, Owner
  PROVE  TrackInv'
<1>1. SessionInv /\ QueuesInv /\ Track(ToHear, told, servers)
  BY DEF IInv, TrackInv
<1>2. UNCHANGED <<unposted, events, batch, told>>
  BY DEF Owner, StopBegin, StopSweep, StopJoin, StopClear, Start, readerVars, dispVars
<1>3. ToHear' = ToHear
  BY <1>2 DEF ToHear
<1>4. servers' = servers
  <2>1. CASE StopClear
    BY <1>1, <2>1 DEF StopClear, SessionInv
  <2>2. CASE StopBegin \/ StopSweep \/ StopJoin \/ Start
    BY <2>2 DEF StopBegin, StopSweep, StopJoin, Start
  <2> QED  BY <2>1, <2>2 DEF Owner
<1>5. QueuesInv'
  <2>1. CASE Start
    BY <1>1, <1>2, <2>1 DEF Start, SessionInv, QueuesInv
  <2>2. CASE StopBegin \/ StopSweep \/ StopClear
    BY <1>1, <1>2, <2>2 DEF StopBegin, StopSweep, StopClear, readerVars, dispVars, QueuesInv
  <2>3. CASE StopJoin
    BY <1>1, <1>2, <2>3 DEF StopJoin, readerVars, dispVars, QueuesInv
  <2> QED  BY <2>1, <2>2, <2>3 DEF Owner
<1> QED  BY <1>1, <1>2, <1>3, <1>4, <1>5 DEF TrackInv

LEMMA TrackStep == IInv /\ TrackInv /\ [Next]_vars => TrackInv'
<1> SUFFICES ASSUME IInv, TrackInv, [Next]_vars PROVE TrackInv'
  OBVIOUS
<1>1. CASE UNCHANGED <<owner, reader, unposted, disp, events, batch, told, servers>>
  <2>1. ToHear' = ToHear /\ QueuesInv'
    BY <1>1 DEF ToHear, TrackInv, QueuesInv
  <2> QED  BY <1>1, <2>1 DEF TrackInv
<1>2. CASE \E r \in Requester : (\E s \in Service : Begin(r, s)) \/ Request(r)
  BY <1>1, <1>2 DEF Begin, Request, Register, Send, Finish, ownerVars, readerVars, dispVars
<1>3. CASE \E a \in Server : ServerUp(a) \/ ServersDown({a}) \/ Indicate(a)
  BY <1>1, <1>3 DEF ServerUp, ServersDown, Indicate, ownerVars, readerVars, dispVars
<1>4. CASE ServersDown(Remote) \/ \E q \in sent : Serve(q)
  BY <1>1, <1>4 DEF ServersDown, Serve, ownerVars, readerVars, dispVars
<1>5. CASE UNCHANGED vars
  BY <1>1, <1>5 DEF vars, ownerVars, readerVars, dispVars
<1> QED  BY <1>2, <1>3, <1>4, <1>5, ReadTracks, PostTracks, RecvFailsTracks, DispatchTracks, OwnerTracks DEF Next, Reader

\* Observers hear of every change of every service, of none twice and of the last one
\* last, through any number of restarts of the modem and of the client (ObserversTrack).
THEOREM ObserversMissNothing == Spec => []ObserversTrack
<1>1. Init => TrackInv
  <2> SUFFICES ASSUME Init PROVE TrackInv
    OBVIOUS
  <2>1. batch = <<>> /\ events = <<>> /\ unposted = <<>> /\ servers = {} /\ told = [s \in Service |-> FALSE]
    BY DEF Init
  <2>2. ToHear = <<>>
    BY <2>1 DEF ToHear
  <2>3. Track(<<>>, told, servers)
    BY <2>1 DEF Track, HeardIn, Has
  <2> QED  BY <2>1, <2>2, <2>3 DEF Init, TrackInv, QueuesInv
<1>2. Spec => []TrackInv
  BY <1>1, TrackStep, Invariant, PTL DEF Spec
<1>3. IInv /\ TrackInv => ObserversTrack
  <2> SUFFICES ASSUME IInv, TrackInv PROVE ObserversTrack
    OBVIOUS
  <2>1. Track(ToHear, told, servers)
    BY DEF TrackInv
  <2>2. \A s, i, up : HeardIn(ToHear, told, s, i, up) <=> Heard(s, i, up)
    BY DEF HeardIn, Heard
  <2> QED  BY <2>1, <2>2 DEF Track, ObserversTrack, Expected
<1> QED  BY <1>2, <1>3, Invariant, PTL
=============================================================================
