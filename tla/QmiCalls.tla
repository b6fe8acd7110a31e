------------------------------- MODULE QmiCalls -------------------------------
(***************************************************************************)
(* What Client::request promises its callers, whatever happens to the      *)
(* modem, the socket and the threads behind it: the modem executes a call  *)
(* at most once, and an answer is the answer to this call.  A call that    *)
(* ends otherwise may or may not have been executed, or may be, later.     *)
(***************************************************************************)
EXTENDS Naturals

CONSTANTS Requester, MaxCalls

VARIABLES
  calls,   \* number of calls made
  call,    \* call[r]: the call of r that is open, or 0
  served,  \* calls the modem has executed
  answered \* calls that returned an answer

vars == <<calls, call, served, answered>>

Init ==
  /\ calls = 0
  /\ call = [r \in Requester |-> 0]
  /\ served = {} /\ answered = {}

Open(r) ==
  /\ call[r] = 0 /\ calls < MaxCalls
  /\ calls' = calls + 1
  /\ call' = [call EXCEPT ![r] = calls + 1]
  /\ UNCHANGED <<served, answered>>

Serve(c) ==
  /\ c \in (1..calls) \ served
  /\ served' = served \cup {c}
  /\ UNCHANGED <<calls, call, answered>>

\* With the answer to this call, or without one.
Close(r) ==
  /\ call[r] # 0
  /\ \/ call[r] \in served /\ answered' = answered \cup {call[r]}
     \/ UNCHANGED answered
  /\ call' = [call EXCEPT ![r] = 0]
  /\ UNCHANGED <<calls, served>>

Next ==
  \/ \E r \in Requester : Open(r) \/ Close(r)
  \/ \E c \in 1..calls : Serve(c)

Spec == Init /\ [][Next]_vars
=============================================================================
