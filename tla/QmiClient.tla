------------------------------ MODULE QmiClient ------------------------------
(***************************************************************************)
(* radio/qmi: one Client on one QRTR socket.  A reader thread keeps the    *)
(* table of servers and hands answers to the requests that wait for them;  *)
(* a dispatcher thread tells the observers which services come and go; the *)
(* owner (connectLoop of ModemCore) reopens a client whose reader died of  *)
(* a socket error.  The modem's servers come and go, requests and answers  *)
(* are late or lost, and requests may be between any two steps throughout. *)
(***************************************************************************)
EXTENDS Naturals, Sequences, FiniteSets

CONSTANTS
  Requester,  \* threads in request()
  Server,     \* QRTR addresses of servers
  Service,    \* services looked up by start()
  SvcOf,      \* SvcOf[a]: the service at a
  Remote,     \* the servers on the modem's node, whose BYE drops them all
  TxnMax,     \* the largest transaction number (65535)
  NoSlot,     \* model value: no request
  MaxCalls,   \* bound: requests
  MaxFails,   \* bound: fatal errors of the socket
  MaxModem    \* bound: servers that come or go

ASSUME ConstantsAssumption ==
  /\ IsFiniteSet(Server) /\ IsFiniteSet(Service)
  /\ SvcOf \in [Server -> Service] /\ Remote \subseteq Server
  /\ TxnMax \in Nat \ {0} /\ MaxCalls \in Nat /\ MaxFails \in Nat /\ MaxModem \in Nat

VARIABLES
  running, failed,              \* mRunning, mFailed
  owner,                        \* step of the owner in stop() and start()
  reader, unposted,             \* step of the reader, and events it has not posted yet
  disp, events, batch, told,    \* dispatcher, mEvents, the events it took, what observers heard
  servers,                      \* mServers, mAddrToSvc
  txn,                          \* mTxn
  pc, slot,                     \* requests: step, and service, address, number and Pending
  calls, call, served, answered, \* call numbers, calls the modem executed, calls that got an answer
  sock, inbox,                  \* the socket and its receive queue
  alive, sent,                  \* the servers that are up, requests on their way to them
  fails, modem

ownerVars  == <<running, owner>>
readerVars == <<reader, unposted>>
dispVars   == <<disp, events, batch, told>>
callVars   == <<pc, calls, call, answered>>
modemVars  == <<alive, modem>>
vars == <<ownerVars, failed, readerVars, dispVars, servers, txn, callVars, slot, served,
          sock, inbox, modemVars, sent, fails>>

\* The sequences that list a set, in any order.
Orders(S) == {f \in [1..Cardinality(S) -> S] : \A i, j \in DOMAIN f : f[i] = f[j] => i = j}
Elements(q) == {q[i] : i \in DOMAIN q}

Has(s, S)  == \E a \in S : SvcOf[a] = s
Pending(r) == pc[r] \in {"send", "wait"}                 \* the entries of mPending
Waits(r)   == Pending(r) /\ slot[r].status = "open"

\* Packets in the receive queue, and events for the observers.
New(a)          == [kind |-> "new", srv |-> {a}]
Gone(S)         == [kind |-> "gone", srv |-> S]
Answer(a, n, c) == [kind |-> "answer", from |-> a, txn |-> n, call |-> c]
Indication(a)   == [kind |-> "indication", from |-> a]
SvcEvent(s, up) == [kind |-> "svc", svc |-> s, up |-> up]
IndEvent(s)     == [kind |-> "ind", svc |-> s, up |-> TRUE]

Answers(a) == {p \in Elements(inbox) : p.kind = "answer" /\ p.from = a}

Init ==
  /\ running = FALSE /\ failed = FALSE /\ owner = "closed"
  /\ reader = "off" /\ unposted = <<>>
  /\ disp = "off" /\ events = <<>> /\ batch = <<>> /\ told = [s \in Service |-> FALSE]
  /\ servers = {} /\ txn = [s \in Service |-> 0]
  /\ pc = [r \in Requester |-> "idle"] /\ slot = [r \in Requester |-> NoSlot]
  /\ calls = 0 /\ call = [r \in Requester |-> 0] /\ served = {}
  /\ answered = {}
  /\ sock = FALSE /\ inbox = <<>>
  /\ alive = {} /\ sent = {} /\ fails = 0 /\ modem = 0

-----------------------------------------------------------------------------
(* request() *)

\* A call that finds the client stopped or failed returns at once and leaves
\* nothing behind; mRunning and mFailed are read without the lock.
Begin(r, s) ==
  /\ pc[r] = "idle" /\ calls < MaxCalls
  /\ running /\ ~failed
  /\ pc' = [pc EXCEPT ![r] = "register"]
  /\ slot' = [slot EXCEPT ![r] = [svc |-> s, to |-> {}, num |-> 0, status |-> "open"]]
  /\ calls' = calls + 1
  /\ call' = [call EXCEPT ![r] = calls + 1]
  /\ UNCHANGED <<ownerVars, failed, readerVars, dispVars, servers, txn, answered, served,
                 sock, inbox, modemVars, sent, fails>>

\* Mutant of Return: the entry stays in mPending.
ReturnKeepsEntry(r, s) ==
  /\ pc' = [pc EXCEPT ![r] = "idle"]
  /\ call' = [call EXCEPT ![r] = 0]
  /\ answered' = IF s = "answered" THEN answered \cup {call[r]} ELSE answered
  /\ UNCHANGED <<slot, calls>>

\* The entry leaves mPending and the call returns s.
Return(r, s) ==
  /\ pc' = [pc EXCEPT ![r] = "idle"]
  /\ slot' = [slot EXCEPT ![r] = NoSlot]
  /\ call' = [call EXCEPT ![r] = 0]
  /\ answered' = IF s = "answered" THEN answered \cup {call[r]} ELSE answered
  /\ UNCHANGED calls

\* addrFor: a server on the modem is preferred; which of several is left open.
addrFor(s) ==
  LET all == {a \in servers : SvcOf[a] = s}
  IN  IF all \cap Remote # {} THEN all \cap Remote ELSE all

\* Numbers of service s that are still in use anywhere.
InUse(s) ==
     {slot[r].num : r \in {r \in Requester : Pending(r) /\ slot[r].svc = s}}
  \cup {q.txn : q \in {q \in sent : SvcOf[q.to] = s}}
  \cup {p.txn : p \in {p \in Elements(inbox) : p.kind = "answer" /\ SvcOf[p.from] = s}}

\* The counter skips 0.
NextTxn(s) == IF txn[s] = TxnMax THEN 1 ELSE txn[s] + 1

\* Assumed, for the code has no such guard: when a number's turn comes again, the
\* call it was given to and its answer are long over.
InWindow(s) == NextTxn(s) \notin InUse(s)

Register(r) ==
  /\ pc[r] = "register"
  /\ LET s == slot[r].svc IN
     \/ /\ addrFor(s) = {} /\ Return(r, "noService") /\ UNCHANGED txn
     \/ /\ addrFor(s) # {} /\ InWindow(s)
        /\ \E a \in addrFor(s) :
             slot' = [slot EXCEPT ![r] = [svc |-> s, to |-> {a}, num |-> NextTxn(s), status |-> "open"]]
        /\ txn' = [txn EXCEPT ![s] = NextTxn(s)]
        /\ pc' = [pc EXCEPT ![r] = "send"]
        /\ UNCHANGED <<calls, call, answered>>
  /\ UNCHANGED <<ownerVars, failed, readerVars, dispVars, servers, served,
                 sock, inbox, modemVars, sent, fails>>

\* The socket may refuse at any time, and refuses when it is closed.
Send(r) ==
  /\ pc[r] = "send"
  /\ \/ /\ sock
        /\ sent' = sent \cup {[to |-> a, txn |-> slot[r].num, call |-> call[r], mine |-> TRUE] :
                              a \in slot[r].to \cap alive}
        /\ pc' = [pc EXCEPT ![r] = "wait"]
        /\ slot' = [slot EXCEPT ![r].to = {}]
        /\ UNCHANGED <<calls, call, answered>>
     \/ Return(r, "transportError") /\ UNCHANGED sent
  /\ UNCHANGED <<ownerVars, failed, readerVars, dispVars, servers, txn, served,
                 sock, inbox, modemVars, fails>>

\* wait_for returns: done, or stopped, or out of time.
Finish(r) ==
  /\ pc[r] = "wait"
  /\ Return(r, IF slot[r].status # "open" THEN slot[r].status
               ELSE IF running THEN "timeout" ELSE "stopped")
  /\ UNCHANGED <<ownerVars, failed, readerVars, dispVars, servers, txn, served,
                 sock, inbox, modemVars, sent, fails>>

-----------------------------------------------------------------------------
(* The reader *)

\* Done, for the entries of R that are not done yet.
Complete(R, s) ==
  slot' = [r \in Requester |-> IF r \in R THEN [slot[r] EXCEPT !.status = s] ELSE slot[r]]

\* The events of a handler are posted after it gives up the lock; then the
\* reader goes on, or exits when the transport has failed.
ThenPost(es, broken) ==
  /\ unposted' = es
  /\ reader' = IF es # <<>> THEN "post" ELSE IF broken THEN "off" ELSE "run"

NewServer(p) ==
  /\ p.kind = "new"
  /\ servers' = servers \cup p.srv
  /\ \E up \in Orders({s \in Service : Has(s, p.srv) /\ ~Has(s, servers)}) :
       ThenPost([i \in DOMAIN up |-> SvcEvent(up[i], TRUE)], failed)
  /\ UNCHANGED slot

\* Mutant of ServersGone: the requests are left to their timeouts.
ServersGoneQuietly(p) ==
  /\ p.kind = "gone"
  /\ servers' = servers \ p.srv
  /\ \E down \in Orders({s \in Service : Has(s, servers) /\ ~Has(s, servers \ p.srv)}) :
       ThenPost([i \in DOMAIN down |-> SvcEvent(down[i], FALSE)], failed)
  /\ UNCHANGED slot

\* DEL_SERVER or BYE.
ServersGone(p) ==
  /\ p.kind = "gone"
  /\ servers' = servers \ p.srv
  /\ LET lost == {s \in Service : Has(s, servers) /\ ~Has(s, servers \ p.srv)} IN
     /\ \E down \in Orders(lost) : ThenPost([i \in DOMAIN down |-> SvcEvent(down[i], FALSE)], failed)
     /\ Complete({r \in Requester : Waits(r) /\ slot[r].svc \in lost}, "noService")

\* Mutant of Matches: the numbers of all services are one.
MatchesNumber(r, p) == Waits(r) /\ slot[r].num = p.txn
\* The entry of mPending an answer is for.
Matches(r, p) == Waits(r) /\ slot[r].svc = SvcOf[p.from] /\ slot[r].num = p.txn

\* A packet of an unknown server is dropped, and so is a stray answer.
Data(p) ==
  /\ \/ /\ p.kind = "answer"
        /\ Complete({r \in Requester : p.from \in servers /\ Matches(r, p)}, "answered")
        /\ ThenPost(<<>>, failed)
     \/ /\ p.kind = "indication"
        /\ ThenPost(IF p.from \in servers THEN <<IndEvent(SvcOf[p.from])>> ELSE <<>>, failed)
        /\ UNCHANGED slot
  /\ UNCHANGED servers

Read ==
  /\ reader = "run" /\ inbox # <<>>
  /\ NewServer(Head(inbox)) \/ ServersGone(Head(inbox)) \/ Data(Head(inbox))
  /\ inbox' = Tail(inbox)
  /\ UNCHANGED <<ownerVars, failed, dispVars, txn, callVars, served, sock, modemVars, sent, fails>>

\* Mutant of RecvFails: the services are forgotten without a word.
RecvFailsQuietly ==
  /\ reader = "run" /\ fails < MaxFails
  /\ fails' = fails + 1
  /\ failed' = TRUE
  /\ Complete({r \in Requester : Waits(r)}, "transportError")
  /\ servers' = {}
  /\ ThenPost(<<>>, TRUE)
  /\ UNCHANGED <<ownerVars, dispVars, txn, callVars, served, sock, inbox, modemVars, sent>>

\* recv() fails: failTransport.
RecvFails ==
  /\ reader = "run" /\ fails < MaxFails
  /\ fails' = fails + 1
  /\ failed' = TRUE
  /\ Complete({r \in Requester : Waits(r)}, "transportError")
  /\ servers' = {}
  /\ \E down \in Orders({s \in Service : Has(s, servers)}) :
       ThenPost([i \in DOMAIN down |-> SvcEvent(down[i], FALSE)], TRUE)
  /\ UNCHANGED <<ownerVars, dispVars, txn, callVars, served, sock, inbox, modemVars, sent>>

Post ==
  /\ reader = "post"
  /\ events' = Append(events, Head(unposted))
  /\ ThenPost(Tail(unposted), failed)
  /\ UNCHANGED <<ownerVars, failed, disp, batch, told, servers, txn, callVars, slot, served,
                 sock, inbox, modemVars, sent, fails>>

-----------------------------------------------------------------------------
(* The dispatcher *)

Take ==
  /\ disp = "wait" /\ events # <<>>
  /\ disp' = "deliver" /\ batch' = events /\ events' = <<>>
  /\ UNCHANGED told

Deliver ==
  /\ disp = "deliver"
  /\ LET e == Head(batch)
     IN  told' = IF e.kind = "svc" THEN [told EXCEPT ![e.svc] = e.up] ELSE told
  /\ batch' = Tail(batch)
  /\ disp' = IF Tail(batch) = <<>> THEN "wait" ELSE "deliver"
  /\ UNCHANGED events

DispatcherExits ==
  /\ disp = "wait" /\ ~running /\ events = <<>>
  /\ disp' = "off"
  /\ UNCHANGED <<events, batch, told>>

Dispatch ==
  /\ Take \/ Deliver \/ DispatcherExits
  /\ UNCHANGED <<ownerVars, failed, readerVars, servers, txn, callVars, slot, served,
                 sock, inbox, modemVars, sent, fails>>

-----------------------------------------------------------------------------
(* The owner: connectLoop stops a client that failed, and starts it again *)

StopBegin ==
  /\ owner = "watch" /\ failed
  /\ running' = FALSE /\ owner' = "sweep"
  /\ UNCHANGED <<failed, readerVars, dispVars, servers, txn, callVars, slot, served,
                 sock, inbox, modemVars, sent, fails>>

StopSweep ==
  /\ owner = "sweep" /\ owner' = "join"
  /\ Complete({r \in Requester : Pending(r)}, "stopped")
  /\ UNCHANGED <<running, failed, readerVars, dispVars, servers, txn, callVars, served,
                 sock, inbox, modemVars, sent, fails>>

StopJoin ==
  /\ owner = "join" /\ reader = "off" /\ disp = "off"
  /\ owner' = "clear"
  /\ sock' = FALSE /\ inbox' = <<>>
  /\ sent' = {[q EXCEPT !.mine = FALSE] : q \in sent}      \* their answers find no socket
  /\ UNCHANGED <<running, failed, readerVars, dispVars, servers, txn, callVars, slot, served,
                 modemVars, fails>>

StopClear ==
  /\ owner = "clear" /\ owner' = "closed"
  /\ servers' = {}
  /\ UNCHANGED <<running, failed, readerVars, dispVars, txn, callVars, slot, served,
                 sock, inbox, modemVars, sent, fails>>

\* Mutant of Start: mFailed stays set.
StartStillFailed ==
  /\ owner = "closed" /\ owner' = "watch"
  /\ sock' = TRUE
  /\ running' = TRUE /\ UNCHANGED failed
  /\ reader' = "run" /\ disp' = "wait"
  /\ \E up \in Orders(alive) :
       inbox' = [i \in DOMAIN up |-> New(up[i])]
  /\ UNCHANGED <<unposted, events, batch, told, servers, txn, callVars, slot, served, modemVars, sent, fails>>

\* Every lookup is answered with the servers that are up.  (One whose send
\* failed is only logged: to this client its servers are not up.)
Start ==
  /\ owner = "closed" /\ owner' = "watch"
  /\ sock' = TRUE
  /\ failed' = FALSE /\ running' = TRUE
  /\ reader' = "run" /\ disp' = "wait"
  /\ \E up \in Orders(alive) :
       inbox' = [i \in DOMAIN up |-> New(up[i])]
  /\ UNCHANGED <<unposted, events, batch, told, servers, txn, callVars, slot, served, modemVars, sent, fails>>

-----------------------------------------------------------------------------
(* The modem and the name service *)

Announce(p) == inbox' = IF sock THEN Append(inbox, p) ELSE inbox

ServerUp(a) ==
  /\ a \notin alive /\ modem < MaxModem
  /\ alive' = alive \cup {a} /\ modem' = modem + 1
  /\ Announce(New(a))
  /\ UNCHANGED <<ownerVars, failed, readerVars, dispVars, servers, txn, callVars, slot, served,
                 sock, sent, fails>>

\* Requests that have not been served are lost with their servers.
ServersDown(S) ==
  /\ S \cap alive # {} /\ modem < MaxModem
  /\ alive' = alive \ S /\ modem' = modem + 1
  /\ sent' = {q \in sent : q.to \notin S}
  /\ Announce(Gone(S))
  /\ UNCHANGED <<ownerVars, failed, readerVars, dispVars, servers, txn, callVars, slot, served,
                 sock, fails>>

\* The answer goes to the socket the request came from.
Serve(q) ==
  /\ q \in sent
  /\ sent' = sent \ {q}
  /\ served' = served \cup {q.call}
  /\ inbox' = IF q.mine THEN Append(inbox, Answer(q.to, q.txn, q.call)) ELSE inbox
  /\ UNCHANGED <<ownerVars, failed, readerVars, dispVars, servers, txn, callVars, slot,
                 sock, modemVars, fails>>

Indicate(a) ==
  /\ a \in alive /\ sock /\ modem < MaxModem
  /\ modem' = modem + 1
  /\ inbox' = Append(inbox, Indication(a))
  /\ UNCHANGED <<ownerVars, failed, readerVars, dispVars, servers, txn, callVars, slot, served,
                 sock, alive, sent, fails>>

-----------------------------------------------------------------------------
Request(r) == Register(r) \/ Send(r) \/ Finish(r)
Reader == Read \/ Post
Owner  == StopBegin \/ StopSweep \/ StopJoin \/ StopClear \/ Start

Next ==
  \/ \E r \in Requester : (\E s \in Service : Begin(r, s)) \/ Request(r)
  \/ Reader \/ RecvFails \/ Dispatch \/ Owner
  \/ \E a \in Server : ServerUp(a) \/ ServersDown({a}) \/ Indicate(a)
  \/ ServersDown(Remote)
  \/ \E q \in sent : Serve(q)

\* The threads run, every wait has a timeout, and a socket can be opened
\* again; the modem promises nothing.
Fairness ==
  /\ \A r \in Requester : WF_vars(Request(r))
  /\ WF_vars(Reader) /\ WF_vars(Dispatch) /\ WF_vars(Owner)

Spec == Init /\ [][Next]_vars /\ Fairness

-----------------------------------------------------------------------------
(* Correctness *)

Statuses == {"open", "answered", "timeout", "noService", "transportError", "stopped"}
Slots == [svc : Service, to : SUBSET Server, num : 0..TxnMax, status : Statuses]
ASSUME NoSlotAssumption == NoSlot \notin Slots
Packets == [kind : {"new", "gone"}, srv : SUBSET Server]
      \cup [kind : {"answer"}, from : Server, txn : 1..TxnMax, call : 1..MaxCalls]
      \cup [kind : {"indication"}, from : Server]
Events == [kind : {"svc", "ind"}, svc : Service, up : BOOLEAN]
Sends == [to : Server, txn : 1..TxnMax, call : 1..MaxCalls, mine : BOOLEAN]

\* Every variable has its type, and a request has a slot as long as it runs.
TypeOK ==
  /\ running \in BOOLEAN /\ failed \in BOOLEAN
  /\ owner \in {"watch", "sweep", "join", "clear", "closed"}
  /\ reader \in {"off", "run", "post"} /\ unposted \in Seq(Events)
  /\ disp \in {"off", "wait", "deliver"} /\ events \in Seq(Events) /\ batch \in Seq(Events)
  /\ told \in [Service -> BOOLEAN]
  /\ servers \in SUBSET Server /\ txn \in [Service -> 0..TxnMax]
  /\ pc \in [Requester -> {"idle", "register", "send", "wait"}]
  /\ slot \in [Requester -> Slots \cup {NoSlot}]
  /\ \A r \in Requester : slot[r] = NoSlot <=> pc[r] = "idle"
  /\ calls \in 0..MaxCalls /\ call \in [Requester -> 0..calls] /\ served \in SUBSET (1..calls)
  /\ answered \in SUBSET (1..calls)
  /\ sock \in BOOLEAN /\ inbox \in Seq(Packets)
  /\ alive \in SUBSET Server /\ sent \in SUBSET Sends
  /\ fails \in 0..MaxFails /\ modem \in 0..MaxModem

\* request(): the modem executes a call at most once, and an answer is the
\* answer to this call, through timeouts, restarts of the modem and of the
\* client, and the wrap of the transaction numbers.
Calls == INSTANCE QmiCalls WITH
  Requester <- Requester, MaxCalls <- MaxCalls,
  calls <- calls, call <- call, served <- served, answered <- answered
CallsAreOwn == Calls!Spec

\* What the observers have yet to hear of, in order; when the i-th of it comes, the
\* last they have heard of service s is that it is up, or that it is not.
ToHear == batch \o events \o unposted
Heard(s, i, up) ==
  \E j \in 0..(i - 1) :
    /\ IF j = 0 THEN told[s] = up ELSE ToHear[j].svc = s /\ ToHear[j].up = up
    /\ \A k \in (j + 1)..(i - 1) : ToHear[k].svc # s

\* Observers hear of every change and of no change twice, of the last one last,
\* and an indication of a service only while it is up: the table is changed
\* under the lock and its events are posted after it, through failures of the
\* transport and restarts (handleCtrl, failTransport, stop).
ObserversTrack ==
  /\ \A s \in Service : Heard(s, Len(ToHear) + 1, Has(s, servers))
  /\ \A i \in DOMAIN ToHear : LET e == ToHear[i] IN
       Heard(e.svc, i, IF e.kind = "svc" THEN ~e.up ELSE TRUE)

\* No request waits for a service that is gone or for a socket that has failed:
\* it is told at once, wherever it was between its first test and its wait
\* (handleCtrl, failTransport, request).
WaitsForSomeone ==
  \A r \in Requester : Waits(r) => running /\ ~failed /\ Has(slot[r].svc, servers)

\* A client whose reader died is reopened: stop() can join both threads, and
\* start() leaves nothing of the old session (connectLoop).
Reopens == failed ~> running /\ ~failed
=============================================================================
