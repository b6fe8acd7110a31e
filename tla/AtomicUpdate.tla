----------------------------- MODULE AtomicUpdate -----------------------------
(***************************************************************************)
(* What the update tools promise an operator, with the partitions as one   *)
(* value: what a run is about to overwrite is saved first, if it is to be  *)
(* saved; /data is erased only under the complete new build; success means *)
(* the complete build, or exactly the saved content that was asked for.  A *)
(* run that ends otherwise may leave anything on the partitions, and has   *)
(* lost nothing of what was saved.                                         *)
(***************************************************************************)
EXTENDS Naturals, Sequences

CONSTANTS
  Content,   \* what the partitions may hold
  Build,
  Complete,  \* Complete[b]: the contents that are build b
  Data,      \* states of /data and /metadata
  DataOf,    \* DataOf[b]: the data of b
  Erased,
  Request,   \* what an operator may ask for (the command lines of the worker)
  None       \* nothing is saved

VARIABLES
  content, data,  \* the phone
  asked,          \* one entry per run: what it was asked for,
  saved,          \* the content it saved,
  result,         \* and how it ended
  stage           \* the run in progress: "none", "reading", "writing", "complete"

vars == <<content, data, asked, saved, result, stage>>

r       == Len(asked)
request == asked[r]

\* The content is what the run in progress was asked for.
Reached ==
  /\ request.mode = "update" => content \in Complete[request.to]
  /\ request.mode = "rollback" => content = saved[request.capture]

Wipes == request.mode = "update" /\ request.wipe

Init ==
  /\ \E b \in Build : content \in Complete[b] /\ data = DataOf[b]
  /\ asked = <<>> /\ saved = <<>> /\ result = <<>>
  /\ stage = "none"

Begin(a) ==
  /\ stage = "none" /\ stage' = "reading"
  /\ asked' = Append(asked, a)
  /\ saved' = Append(saved, None)
  /\ result' = Append(result, "running")
  /\ UNCHANGED <<content, data>>

\* A run that updates saves what there is, before its first write; a rollback
\* needs what an update saved.
Prepare ==
  /\ stage = "reading"
  /\ stage' = IF request.mode = "backup-only" THEN "complete" ELSE "writing"
  /\ IF request.mode # "rollback" /\ request.policy = "snapshot"
     THEN saved' = [saved EXCEPT ![r] = content]
     ELSE UNCHANGED saved
  /\ request.mode = "rollback" =>
       asked[request.capture].mode = "update" /\ saved[request.capture] # None
  /\ UNCHANGED <<content, data, asked, result>>

Write ==
  /\ stage = "writing" /\ content' \in Content
  /\ UNCHANGED <<data, asked, saved, result, stage>>

Seal ==
  /\ stage = "writing" /\ Reached /\ stage' = "complete"
  /\ UNCHANGED <<content, data, asked, saved, result>>

Erase ==
  /\ stage = "complete" /\ Wipes /\ Reached
  /\ data' \in Data
  /\ UNCHANGED <<content, asked, saved, result, stage>>

End(s) ==
  /\ stage' = "none"
  /\ result' = [result EXCEPT ![r] = s]
  /\ UNCHANGED <<content, data, asked, saved>>

Succeed == stage = "complete" /\ Reached /\ (Wipes => data = Erased) /\ End("ok")
GiveUp  == stage # "none" /\ End("stopped")

\* A complete build takes the data over, or makes its own.
Boot(b) ==
  /\ stage = "none" /\ content \in Complete[b] /\ data' = DataOf[b]
  /\ UNCHANGED <<content, asked, saved, result, stage>>

Next ==
  \/ \E a \in Request : Begin(a)
  \/ Prepare \/ Write \/ Seal \/ Erase \/ Succeed \/ GiveUp
  \/ \E b \in Build : Boot(b)

Spec == Init /\ [][Next]_vars
=============================================================================
