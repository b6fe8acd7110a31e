-------------------------- MODULE HostControlProofs --------------------------
(***************************************************************************)
(* Proofs about HostControl, for any number of coordinators and of units:  *)
(* wherever a helper dies, its masks are in state.json, the next resume is *)
(* not locked out, and the record disappears only with the services back.  *)
(***************************************************************************)
EXTENDS HostControl, TLAPS

PauseLoop  == {"masking", "masked", "stopped"}
ResumeLoop == {"restoring", "unmasked", "started"}
InLoop(p)  == pc[p] \in PauseLoop \cup ResumeLoop

\* The lock holder, and nobody else, is inside one of the two loops.
LockInv ==
  \A p \in Proc : /\ InLoop(p) <=> lock = p
                  /\ ~InLoop(p) => unit[p] = NoUnit

\* What the record says while p is inside a loop: 'pending' is the unit that a
\* pause is at, 'restoring' the unit that a resume is at.
LoopInv(p) ==
  /\ InLoop(p) => rec # NoRec
  /\ pc[p] \in PauseLoop => rec.pending = unit[p] /\ rec.restoring = NoUnit
  /\ pc[p] \in {"masked", "stopped"} => unit[p] # NoUnit /\ mask[unit[p]]
  /\ pc[p] \in ResumeLoop => rec.pending = NoUnit
  /\ pc[p] \in ResumeLoop /\ unit[p] # NoUnit =>
       rec.restoring = unit[p] /\ Last(rec.owned, unit[p])
  /\ pc[p] \in {"unmasked", "started"} => unit[p] # NoUnit /\ ~mask[unit[p]]

\* A pause that died (pending) and a resume that died (restoring) exclude each other.
RecordInv == rec # NoRec /\ rec.restoring # NoUnit => rec.pending = NoUnit

\* A unit that is neither owned nor masked has not been stopped.
ActiveInv ==
  rec # NoRec => \A u \in Unit : rec.initial[u] /\ u \notin rec.owned /\ ~mask[u] => active[u]

\* A coordinator has its report's services_restored only at its end.
RestoredInv == \A c \in Coord : restored[c] => pc[c] = "done"

IInv ==
  /\ TypeOK
  /\ LockInv
  /\ \A p \in Proc : LoopInv(p)
  /\ RecordInv
  /\ MaskRecorded
  /\ OwnedRestorable
  /\ ActiveInv
  /\ RestoredInv

USE DEF Proc

-----------------------------------------------------------------------------
\* The last of the owned units is unique: reversed(owned) is a definite order.
LEMMA LastUnique ==
  ASSUME NEW S \in SUBSET Unit, NEW u, NEW v, Last(S, u), Last(S, v)
  PROVE  u = v
<1>1. u \in Unit /\ v \in Unit /\ Rank[u] <= Rank[v] /\ Rank[v] <= Rank[u]
  BY DEF Last
<1> QED BY <1>1, ConstantsAssumption

\* save() after an assignment to two entries: the record keeps its shape.
LEMMA RecordUpdate ==
  ASSUME NEW r \in Record, NEW O \in SUBSET Unit, NEW q \in Unit \cup {NoUnit}
  PROVE  /\ [r EXCEPT !.owned = O, !.pending = q] \in Record
         /\ [r EXCEPT !.pending = q, !.owned = O] \in Record
         /\ [r EXCEPT !.owned = O, !.restoring = q] \in Record
BY DEF Record

\* The inductive invariant holds at the start: no record, nothing masked.
LEMMA InitIInv == Init => IInv
BY ConstantsAssumption, NoRecAssumption
   DEF Init, IInv, TypeOK, LockInv, LoopInv, InLoop, PauseLoop, ResumeLoop, RecordInv,
       MaskRecorded, OwnedRestorable, ActiveInv, RestoredInv

\* Every step of every process preserves the inductive invariant.
LEMMA NextIInv == IInv /\ [Next]_vars => IInv'
<1> SUFFICES ASSUME IInv, [Next]_vars PROVE IInv'
  OBVIOUS
<1> USE ConstantsAssumption, NoRecAssumption
<1> USE DEF IInv, TypeOK, LockInv, LoopInv, InLoop, PauseLoop, ResumeLoop, RecordInv,
            MaskRecorded, OwnedRestorable, ActiveInv, RestoredInv, Record, Goto
<1>1. ASSUME NEW c \in Coord, Start(c) PROVE IInv'
  BY <1>1 DEF Start
<1>2. ASSUME NEW c \in Coord, Status(c) PROVE IInv'
  BY <1>2 DEF Status
<1>3. ASSUME NEW c \in Coord, WorkBegin(c) PROVE IInv'
  BY <1>3 DEF WorkBegin
<1>4. ASSUME NEW c \in Coord, Finally(c) PROVE IInv'
  BY <1>4 DEF Finally
<1>5. ASSUME NEW c \in Coord, Verify(c) PROVE IInv'
  BY <1>5 DEF Verify
<1>6. ASSUME NEW c \in Coord, Kill(c) PROVE IInv'
  BY <1>6 DEF Kill
<1>7. ASSUME NEW c \in Coord, PauseBegin(c) PROVE IInv'
  <2>1. /\ rec' \in Record /\ rec' # NoRec /\ rec'.pending = NoUnit
        /\ rec'.restoring = NoUnit /\ rec'.owned = {} /\ rec'.initial = active
    BY <1>7 DEF PauseBegin
  <2>2. \A u \in Unit : ~mask[u]
    BY <1>7 DEF PauseBegin, PauseOK
  <2>3. \A q \in Proc : ~InLoop(q) /\ unit[q] = NoUnit
    BY <1>7 DEF PauseBegin
  <2>4. TypeOK'
    BY <1>7, <2>1, <2>2, <2>3 DEF PauseBegin
  <2>5. LockInv'
    BY <1>7, <2>1, <2>2, <2>3 DEF PauseBegin
  <2>6. \A q \in Proc : LoopInv(q)'
    BY <1>7, <2>1, <2>2, <2>3 DEF PauseBegin
  <2>7. RecordInv'
    BY <1>7, <2>1, <2>2, <2>3 DEF PauseBegin
  <2>8. MaskRecorded'
    BY <1>7, <2>1, <2>2, <2>3 DEF PauseBegin
  <2>9. OwnedRestorable'
    BY <1>7, <2>1, <2>2, <2>3 DEF PauseBegin
  <2>10. ActiveInv'
    BY <1>7, <2>1, <2>2, <2>3 DEF PauseBegin
  <2>11. RestoredInv'
    BY <1>7, <2>1, <2>2, <2>3 DEF PauseBegin
  <2> QED BY <2>4, <2>5, <2>6, <2>7, <2>8, <2>9, <2>10, <2>11
<1>8. ASSUME NEW c \in Coord, Mask(c) PROVE IInv'
  BY <1>8 DEF Mask
<1>9. ASSUME NEW c \in Coord, StopUnit(c) PROVE IInv'
  BY <1>9 DEF StopUnit
<1>10. ASSUME NEW c \in Coord, SaveOwned(c) PROVE IInv'
  <2>1. /\ lock = c /\ rec \in Record /\ unit[c] \in Unit /\ mask[unit[c]]
        /\ rec.pending = unit[c] /\ rec.restoring = NoUnit
    BY <1>10 DEF SaveOwned
  <2>2. /\ rec' \in Record /\ rec' # NoRec /\ rec'.pending = NoUnit
        /\ rec'.restoring = NoUnit /\ rec'.owned = rec.owned \cup {unit[c]}
        /\ rec'.initial = rec.initial
    <3>1. rec' \in Record
      <4>1. rec.owned \cup {unit[c]} \in SUBSET Unit
        BY <2>1
      <4>2. rec' = [rec EXCEPT !.owned = rec.owned \cup {unit[c]}, !.pending = NoUnit]
        BY <1>10 DEF SaveOwned
      <4> HIDE DEF Record
      <4> QED BY <2>1, <4>1, <4>2, RecordUpdate
    <3> QED BY <1>10, <2>1, <3>1 DEF SaveOwned
  <2>3. \A q \in Proc \ {c} : ~InLoop(q) /\ ~InLoop(q)' /\ unit[q] = NoUnit
    BY <1>10, <2>1 DEF SaveOwned
  <2>4. TypeOK'
    BY <1>10, <2>1, <2>2, <2>3 DEF SaveOwned
  <2>5. LockInv'
    BY <1>10, <2>1, <2>2, <2>3 DEF SaveOwned
  <2>6. \A q \in Proc : LoopInv(q)'
    BY <1>10, <2>1, <2>2, <2>3 DEF SaveOwned
  <2>7. RecordInv'
    BY <1>10, <2>1, <2>2, <2>3 DEF SaveOwned
  <2>8. MaskRecorded'
    BY <1>10, <2>1, <2>2, <2>3 DEF SaveOwned
  <2>9. OwnedRestorable'
    BY <1>10, <2>1, <2>2, <2>3 DEF SaveOwned
  <2>10. ActiveInv'
    BY <1>10, <2>1, <2>2, <2>3 DEF SaveOwned
  <2>11. RestoredInv'
    BY <1>10, <2>1, <2>2, <2>3 DEF SaveOwned
  <2> QED BY <2>4, <2>5, <2>6, <2>7, <2>8, <2>9, <2>10, <2>11
<1>11. ASSUME NEW c \in Coord, PauseEnd(c) PROVE IInv'
  BY <1>11 DEF PauseEnd
<1>12. ASSUME NEW c \in Coord, NEW u \in Unit, SavePending(c, u) PROVE IInv'
  BY <1>12 DEF SavePending
<1>13. ASSUME NEW p \in Proc, NothingToRestore(p) PROVE IInv'
  BY <1>13 DEF NothingToRestore
<1>14. ASSUME NEW p \in Proc, ResumeBegin(p) PROVE IInv'
  <2>1. lock = Free /\ rec \in Record /\ \A q \in Proc : ~InLoop(q) /\ unit[q] = NoUnit
    BY <1>14 DEF ResumeBegin
  <2>2. /\ rec' \in Record /\ rec' # NoRec /\ rec'.pending = NoUnit
        /\ rec'.restoring = rec.restoring /\ rec'.initial = rec.initial
    <3>1. rec' \in Record
      <4> DEFINE O == IF rec.pending # NoUnit /\ mask[rec.pending]
                      THEN rec.owned \cup {rec.pending} ELSE rec.owned
      <4>1. O \in SUBSET Unit
        BY <2>1
      <4>2. rec' = [rec EXCEPT !.pending = NoUnit, !.owned = O]
        BY <1>14 DEF ResumeBegin
      <4> HIDE DEF Record
      <4> QED BY <2>1, <4>1, <4>2, RecordUpdate
    <3> QED BY <1>14, <2>1, <3>1 DEF ResumeBegin
  <2>3. rec'.owned = IF rec.pending # NoUnit /\ mask[rec.pending]
                     THEN rec.owned \cup {rec.pending} ELSE rec.owned
    BY <1>14, <2>1 DEF ResumeBegin
  <2>4. rec.pending # NoUnit => rec.restoring = NoUnit
    BY <2>1
  <2>5. TypeOK'
    BY <1>14, <2>1, <2>2, <2>3, <2>4 DEF ResumeBegin
  <2>6. LockInv'
    BY <1>14, <2>1, <2>2, <2>3, <2>4 DEF ResumeBegin
  <2>7. \A q \in Proc : LoopInv(q)'
    BY <1>14, <2>1, <2>2, <2>3, <2>4 DEF ResumeBegin
  <2>8. RecordInv'
    BY <1>14, <2>1, <2>2, <2>3, <2>4 DEF ResumeBegin
  <2>9. MaskRecorded'
    BY <1>14, <2>1, <2>2, <2>3, <2>4 DEF ResumeBegin
  <2>10. OwnedRestorable'
    BY <1>14, <2>1, <2>2, <2>3, <2>4 DEF ResumeBegin
  <2>11. ActiveInv'
    BY <1>14, <2>1, <2>2, <2>3, <2>4 DEF ResumeBegin
  <2>12. RestoredInv'
    BY <1>14, <2>1, <2>2, <2>3, <2>4 DEF ResumeBegin
  <2> QED BY <2>5, <2>6, <2>7, <2>8, <2>9, <2>10, <2>11, <2>12
<1>15. ASSUME NEW p \in Proc, Unmask(p) PROVE IInv'
  BY <1>15 DEF Unmask
<1>16. ASSUME NEW p \in Proc, StartUnit(p) PROVE IInv'
  BY <1>16 DEF StartUnit
<1>17. ASSUME NEW p \in Proc, SaveRestored(p) PROVE IInv'
  <2>1. /\ lock = p /\ rec \in Record /\ unit[p] \in Unit /\ ~mask[unit[p]]
        /\ rec.pending = NoUnit /\ rec.restoring = unit[p]
    BY <1>17 DEF SaveRestored
  <2>2. /\ rec' \in Record /\ rec' # NoRec /\ rec'.pending = NoUnit
        /\ rec'.restoring = NoUnit /\ rec'.owned = rec.owned \ {unit[p]}
        /\ rec'.initial = rec.initial
    <3>1. rec' \in Record
      <4>1. rec.owned \ {unit[p]} \in SUBSET Unit
        BY <2>1
      <4>2. rec' = [rec EXCEPT !.owned = rec.owned \ {unit[p]}, !.restoring = NoUnit]
        BY <1>17 DEF SaveRestored
      <4> HIDE DEF Record
      <4> QED BY <2>1, <4>1, <4>2, RecordUpdate
    <3> QED BY <1>17, <2>1, <3>1 DEF SaveRestored
  <2>3. \A q \in Proc \ {p} : ~InLoop(q) /\ ~InLoop(q)' /\ unit[q] = NoUnit
    BY <1>17, <2>1 DEF SaveRestored
  <2>4. TypeOK'
    BY <1>17, <2>1, <2>2, <2>3 DEF SaveRestored
  <2>5. LockInv'
    BY <1>17, <2>1, <2>2, <2>3 DEF SaveRestored
  <2>6. \A q \in Proc : LoopInv(q)'
    BY <1>17, <2>1, <2>2, <2>3 DEF SaveRestored
  <2>7. RecordInv'
    BY <1>17, <2>1, <2>2, <2>3 DEF SaveRestored
  <2>8. MaskRecorded'
    BY <1>17, <2>1, <2>2, <2>3 DEF SaveRestored
  <2>9. OwnedRestorable'
    BY <1>17, <2>1, <2>2, <2>3 DEF SaveRestored
  <2>10. ActiveInv'
    BY <1>17, <2>1, <2>2, <2>3 DEF SaveRestored
  <2>11. RestoredInv'
    BY <1>17, <2>1, <2>2, <2>3 DEF SaveRestored
  <2> QED BY <2>4, <2>5, <2>6, <2>7, <2>8, <2>9, <2>10, <2>11
<1>18. ASSUME NEW p \in Proc, Unlink(p) PROVE IInv'
  BY <1>18 DEF Unlink
<1>19. ASSUME NEW p \in Proc, HelperFails(p) PROVE IInv'
  <2>1. /\ pc'[p] \in {"idle", "resume", "done"}
        /\ \A q \in Proc \ {p} : pc'[q] = pc[q] /\ unit'[q] = unit[q]
    BY <1>19 DEF HelperFails, Pausing, Resuming
  <2>2. /\ restored' \in [Coord -> BOOLEAN]
        /\ \A c \in Coord : restored'[c] => restored[c] \/ (p = c /\ pc[p] = "status")
    <3>1. CASE pc[p] = "status"
      <4>1. restored' = [restored EXCEPT ![p] = TRUE]
        BY <1>19, <3>1 DEF HelperFails
      <4>2. restored \in [Coord -> BOOLEAN]
        OBVIOUS
      <4> HIDE DEF IInv
      <4>3. restored' \in [Coord -> BOOLEAN]
        BY <4>1, <4>2
      <4>4. \A c \in Coord : restored'[c] => restored[c] \/ p = c
        BY <4>1, <4>2
      <4> QED BY <3>1, <4>3, <4>4
    <3>2. CASE pc[p] # "status"
      <4>1. restored' = restored
        BY <1>19, <3>2 DEF HelperFails
      <4> QED BY <4>1
    <3> QED BY <3>1, <3>2
  <2>3. TypeOK'
    BY <1>19, <2>1, <2>2 DEF HelperFails, Pausing, Resuming
  <2>4. LockInv'
    BY <1>19, <2>1, <2>2 DEF HelperFails, Pausing, Resuming
  <2>5. \A q \in Proc : LoopInv(q)'
    BY <1>19, <2>1, <2>2 DEF HelperFails, Pausing, Resuming
  <2>6. RecordInv'
    BY <1>19, <2>1, <2>2 DEF HelperFails, Pausing, Resuming
  <2>7. MaskRecorded'
    BY <1>19, <2>1, <2>2 DEF HelperFails, Pausing, Resuming
  <2>8. OwnedRestorable'
    BY <1>19, <2>1, <2>2 DEF HelperFails, Pausing, Resuming
  <2>9. ActiveInv'
    BY <1>19, <2>1, <2>2 DEF HelperFails, Pausing, Resuming
  <2>10. RestoredInv'
    BY <1>19, <2>1, <2>2 DEF HelperFails, Pausing, Resuming
  <2> QED BY <2>3, <2>4, <2>5, <2>6, <2>7, <2>8, <2>9, <2>10
<1>20. ASSUME NEW p \in Proc, NEW u \in Unit, SaveRestoring(p, u) PROVE IInv'
  BY <1>20, LastUnique DEF SaveRestoring
<1>21. CASE OperatorStart
  BY <1>21 DEF OperatorStart
<1>22. CASE PhoneMoves
  BY <1>22 DEF PhoneMoves
<1>23. ASSUME NEW u \in Unit, Activate(u) PROVE IInv'
  BY <1>23 DEF Activate
<1>24. CASE UNCHANGED vars
  BY <1>24 DEF vars
<1> QED
  BY <1>1, <1>2, <1>3, <1>4, <1>5, <1>6, <1>7, <1>8, <1>9, <1>10, <1>11, <1>12, <1>13, <1>14,
       <1>15, <1>16, <1>17, <1>18, <1>19, <1>20, <1>21, <1>22, <1>23, <1>24 DEF Next, CoordStep,
       HelperStep

-----------------------------------------------------------------------------
\* The inductive invariant holds in every behaviour.
THEOREM Invariant == Spec => []IInv
BY InitIInv, NextIInv, PTL DEF Spec

\* The state of the helper and of its callers keeps its types.
THEOREM TypeCorrect == Spec => []TypeOK
<1>1. IInv => TypeOK
  BY DEF IInv
<1> QED BY <1>1, Invariant, PTL

\* Wherever a pause or a resume dies, each mask it has left is in state.json.
THEOREM MaskAlwaysRecorded == Spec => []MaskRecorded
<1>1. IInv => MaskRecorded
  BY DEF IInv
<1> QED BY <1>1, Invariant, PTL

\* No resume stops at 'Owned runtime mask changed' because of an earlier one.
THEOREM OwnedAlwaysRestorable == Spec => []OwnedRestorable
<1>1. IInv => OwnedRestorable
  BY DEF IInv
<1> QED BY <1>1, Invariant, PTL

\* path.unlink() is reached only with every unit unmasked and every unit that was
\* active before the pause active again.
THEOREM ServicesComeBack == Spec => ServicesBack
<1>1. IInv /\ [Next]_vars =>
        [rec # NoRec /\ rec' = NoRec =>
           \A u \in Unit : ~mask'[u] /\ (rec.initial[u] => active'[u])]_vars
  <2> SUFFICES ASSUME IInv, Next, rec # NoRec, rec' = NoRec, NEW u \in Unit
               PROVE  ~mask'[u] /\ (rec.initial[u] => active'[u])
    BY DEF vars
  <2>1. \A p \in Proc : ~InLoop(p)'
    <3>1. IInv'
      BY NextIInv
    <3> QED BY <3>1 DEF IInv, LoopInv
  <2>2. PICK p \in Proc : Unlink(p)
    <3> USE DEF IInv, TypeOK, InLoop, PauseLoop, ResumeLoop, Goto
    <3>1. ASSUME NEW c \in Coord, CoordStep(c) PROVE FALSE
      BY <2>1, <3>1 DEF CoordStep, Start, Status, WorkBegin, Finally, Verify, Kill, PauseBegin,
                        Mask, StopUnit, SaveOwned, PauseEnd, SavePending
    <3>2. ASSUME NEW p \in Proc, HelperStep(p) PROVE Unlink(p)
      BY <2>1, <3>2 DEF HelperStep, NothingToRestore, ResumeBegin, Unmask, StartUnit,
                        SaveRestored, HelperFails, SaveRestoring
    <3>3. ~OperatorStart /\ ~PhoneMoves /\ \A v \in Unit : ~Activate(v)
      BY DEF OperatorStart, PhoneMoves, Activate
    <3> QED BY <3>1, <3>2, <3>3 DEF Next
  <2>3. rec.owned = {} /\ rec.pending = NoUnit /\ UNCHANGED <<mask, active>>
    BY <2>2 DEF Unlink, IInv, LoopInv, ResumeLoop
  <2>4. ~mask[u]
    BY <2>3, ConstantsAssumption DEF IInv, MaskRecorded
  <2> QED BY <2>3, <2>4 DEF IInv, ActiveInv
<1> QED BY <1>1, Invariant, PTL DEF Spec, ServicesBack

\* A coordinator that reports services_restored after its resume has left no mask.
THEOREM RestoredIsUnmasked == Spec => RestoredMeansUnmasked
<1>1. IInv /\ [Next]_vars =>
        [\A c \in Coord : pc[c] = "verify" /\ restored'[c] => \A u \in Unit : ~mask[u]]_vars
  <2> SUFFICES ASSUME IInv, Next, NEW c \in Coord, pc[c] = "verify", restored'[c]
               PROVE  \A u \in Unit : ~mask[u]
    BY DEF vars
  <2>1. ~restored[c]
    BY DEF IInv, RestoredInv
  <2>2. restored' # restored
    BY <2>1
  <2>3. PICK p \in Proc : Status(p) \/ Verify(p) \/ HelperFails(p)
    BY <2>2 DEF Next, CoordStep, HelperStep, Start, WorkBegin, Finally, Kill, PauseBegin, Mask,
                StopUnit, SaveOwned, PauseEnd, SavePending, NothingToRestore, ResumeBegin, Unmask,
                StartUnit, SaveRestored, Unlink, SaveRestoring, OperatorStart, PhoneMoves, Activate
  <2>4. p = c
    BY <2>1, <2>3 DEF Status, Verify, HelperFails, IInv, TypeOK
  <2>5. Verify(c)
    BY <2>2, <2>3, <2>4 DEF Status, HelperFails
  <2>6. rec = NoRec
    BY <2>5 DEF Verify, IInv, TypeOK
  <2> QED BY <2>6 DEF IInv, MaskRecorded
<1> QED BY <1>1, Invariant, PTL DEF Spec, RestoredMeansUnmasked

-----------------------------------------------------------------------------
\* While c is the only coordinator that was ever started: the operator finds
\* something to resume only after c, and the loop of its pause ends with every
\* unit masked.
Sole(c) == \A d \in Coord \ {c} : pc[d] = "idle"

SoleInv ==
  \A c \in Coord : Sole(c) =>
    /\ pc[c] \notin {"done", "dead"} => pc[Operator] = "idle"
    /\ pc[c] = "idle" => rec = NoRec
    /\ pc[c] \in {"wait", "work"} => \A u \in Unit : mask[u]

\* Only c's own steps count while c is alone.
LEMMA NextSole == IInv /\ SoleInv /\ [Next]_vars => SoleInv'
<1> SUFFICES ASSUME IInv, SoleInv, [Next]_vars, NEW c \in Coord, Sole(c)'
             PROVE  /\ pc'[c] \notin {"done", "dead"} => pc'[Operator] = "idle"
                    /\ pc'[c] = "idle" => rec' = NoRec
                    /\ pc'[c] \in {"wait", "work"} => \A u \in Unit : mask'[u]
  BY DEF SoleInv
<1> USE ConstantsAssumption
<1>1. pc = [p \in Proc |-> pc[p]] /\ Operator \notin Coord
  BY DEF IInv, TypeOK
<1>2. ASSUME NEW d \in Coord, CoordStep(d) PROVE pc'[d] # "idle"
  BY <1>1, <1>2 DEF CoordStep, Goto, Start, Status, WorkBegin, Finally, Verify, Kill, PauseBegin,
                    Mask, StopUnit, SaveOwned, PauseEnd, SavePending
<1>3. ASSUME NEW d \in Coord, HelperStep(d) PROVE pc'[d] # "idle"
  BY <1>1, <1>3 DEF HelperStep, Goto, NothingToRestore, ResumeBegin, Unmask, StartUnit,
                    SaveRestored, Unlink, HelperFails, SaveRestoring, Resuming, Pausing
<1>4. CASE CoordStep(c)
  <2>1. Sole(c) /\ pc'[Operator] = pc[Operator] /\ pc[c] \notin {"done", "dead"}
    BY <1>1, <1>4 DEF Sole, CoordStep, Goto, Start, Status, WorkBegin, Finally, Verify, Kill,
                      PauseBegin, Mask, StopUnit, SaveOwned, PauseEnd, SavePending
  <2>2. pc[Operator] = "idle"
    BY <2>1 DEF SoleInv
  <2>3. ASSUME pc'[c] \in {"wait", "work"} PROVE \A u \in Unit : mask'[u]
    <3>1. mask' = mask /\ (WorkBegin(c) \/ PauseEnd(c))
      BY <1>1, <1>4, <2>3 DEF CoordStep, Goto, Start, Status, WorkBegin, Finally, Verify, Kill,
                        PauseBegin, Mask, StopUnit, SaveOwned, PauseEnd, SavePending
    <3>2. CASE WorkBegin(c)
      BY <2>1, <3>1, <3>2 DEF WorkBegin, SoleInv
    <3>3. CASE PauseEnd(c)
      BY <3>1, <3>3 DEF PauseEnd, IInv, LoopInv, InLoop, PauseLoop, OwnedRestorable
    <3> QED BY <3>1, <3>2, <3>3
  <2> QED BY <1>2, <1>4, <2>1, <2>2, <2>3
<1>5. CASE HelperStep(c)
  <2>1. /\ Sole(c) /\ pc'[Operator] = pc[Operator] /\ pc[c] \notin {"done", "dead"}
        /\ pc'[c] \notin {"wait", "work"}
    BY <1>1, <1>5 DEF Sole, HelperStep, Goto, NothingToRestore, ResumeBegin, Unmask, StartUnit,
                      SaveRestored, Unlink, HelperFails, SaveRestoring, Resuming, Pausing
  <2> QED BY <1>3, <1>5, <2>1 DEF SoleInv
<1>6. CASE HelperStep(Operator)
  <2>1. Sole(c) /\ pc'[c] = pc[c] /\ pc[Operator] # "idle"
    BY <1>1, <1>6 DEF Sole, HelperStep, Goto, NothingToRestore, ResumeBegin, Unmask, StartUnit,
                      SaveRestored, Unlink, HelperFails, SaveRestoring, Resuming, Pausing
  <2> QED BY <2>1 DEF SoleInv
<1>7. CASE OperatorStart
  <2>1. Sole(c) /\ pc'[c] = pc[c] /\ pc[c] \in {"idle", "done", "dead"} /\ rec # NoRec
    BY <1>1, <1>7 DEF Sole, OperatorStart, Goto
  <2> QED BY <2>1 DEF SoleInv
<1>8. CASE PhoneMoves \/ (\E u \in Unit : Activate(u)) \/ UNCHANGED vars
  <2>1. Sole(c) /\ UNCHANGED <<pc, rec, mask>>
    BY <1>8 DEF Sole, PhoneMoves, Activate, vars
  <2> QED BY <2>1 DEF SoleInv
<1>9. ASSUME NEW d \in Coord \ {c}, CoordStep(d) \/ HelperStep(d) PROVE FALSE
  BY <1>2, <1>3, <1>9 DEF Sole
<1> QED BY <1>4, <1>5, <1>6, <1>7, <1>8, <1>9 DEF Next

\* With one coordinator started, wherever its helper fails: while its
\* worker talks to the phone in EDL every service is masked.
THEOREM SoleAlwaysPauses == Spec => []SoleCoordinatorPauses
<1>1. Init => SoleInv
  BY ConstantsAssumption DEF Init, SoleInv
<1>2. Spec => []SoleInv
  BY <1>1, NextSole, Invariant, PTL DEF Spec
<1>3. SoleInv => SoleCoordinatorPauses
  BY DEF SoleInv, Sole, SoleCoordinatorPauses
<1> QED BY <1>2, <1>3, PTL
=============================================================================
