-------------------------- MODULE UpdateGuardProofs --------------------------
(***************************************************************************)
(* Proofs about UpdateGuard: for every partition table, every allowlist    *)
(* that satisfies the assertion of RomUpdateLayoutV1, every plan and every *)
(* order of requests, no transfer leaves the sectors it may write.         *)
(***************************************************************************)
EXTENDS UpdateGuard, TLAPS

\* check_update_plan: a range that passes as an image covers image sectors only.
\* (It overlaps one partition of the layout, which is writable, and no GPT.)
LEMMA ImageRange ==
  ASSUME NEW label, NEW r \in Nat \X Nat, NEW s \in Nat,
         WriteOK(label, r, FALSE), r[1] <= s, s < r[1] + r[2]
  PROVE  ImageSector(s)
<1>1. PICK m \in Name : partition_at(r) = {m} /\ ImageWriteOK(label, r, m)
  BY DEF WriteOK
<1>2. Range(PART[m]) /\ \A n \in Name : Range(PART[n])
  BY <1>1, ConstantsAssumption
<1>3. m \in Writable /\ In(s, PART[m])
  BY <1>1, <1>2 DEF ImageWriteOK, In, Range
<1>4. ASSUME NEW n \in Name \ Writable PROVE ~In(s, PART[n])
  <2>1. n \notin partition_at(r)
    BY <1>1, <1>3
  <2>2. ~Overlaps(r, PART[n])
    BY <2>1 DEF partition_at
  <2> QED BY <2>2, <1>2 DEF Overlaps, In, Range
<1>5. ASSUME NEW g \in Gpt PROVE ~In(s, g)
  <2>1. Range(g) /\ ~Overlaps(r, g)
    BY <1>1, ConstantsAssumption DEF ImageWriteOK
  <2> QED BY <2>1 DEF Overlaps, In, Range
<1> QED BY <1>3, <1>4, <1>5 DEF ImageSector

\* check_update_plan(wipe=True): a zero range that passes covers nothing but the
\* first MiB of metadata or userdata.
LEMMA ZeroRange ==
  ASSUME NEW z \in ZeroPart, NEW r \in Nat \X Nat, NEW s \in Nat, wipe,
         WriteOK(ZeroLabel(z), r, TRUE), r[1] <= s, s < r[1] + r[2]
  PROVE  WipeSector(s)
<1>1. PICK m \in Name : partition_at(r) = {m} /\ ZeroWriteOK(ZeroLabel(z), r, m)
  BY DEF WriteOK
<1>2. m \in ZeroPart /\ In(s, wipe_zero_range(m))
  BY <1>1 DEF ZeroWriteOK, In
<1>3. ASSUME NEW n \in Name \ {m} PROVE ~In(s, PART[n])
  <2>1. Range(PART[n]) /\ ~Overlaps(r, PART[n])
    BY <1>1, ConstantsAssumption DEF partition_at
  <2> QED BY <2>1 DEF Overlaps, In, Range
<1>4. ASSUME NEW g \in Gpt PROVE ~In(s, g)
  <2>1. Range(g) /\ ~Overlaps(r, g)
    BY <1>1, ConstantsAssumption DEF ZeroWriteOK
  <2> QED BY <2>1 DEF Overlaps, In, Range
<1> QED BY <1>2, <1>3, <1>4 DEF WipeSector

-----------------------------------------------------------------------------
\* The state of UpdateGuard keeps its types, and a transfer in progress is always
\* one of the ranges of the fixed plan.
THEOREM TypeCorrect == Spec => []TypeOK
<1>1. Init => TypeOK
  BY DEF Init, TypeOK
<1>2. TypeOK /\ [Next]_vars => TypeOK'
  <2> SUFFICES ASSUME TypeOK, [Next]_vars PROVE TypeOK'
    OBVIOUS
  <2> USE DEF TypeOK, options
  <2>1. ASSUME NEW P \in Plans, SetPlan(P) PROVE TypeOK'
    BY <2>1, ConstantsAssumption DEF SetPlan
  <2>2. ASSUME NEW r \in Request, EdlProgramBegin(r) PROVE TypeOK'
    BY <2>2 DEF EdlProgramBegin
  <2>3. ASSUME NEW r \in Request, NEW k \in 0..r[2], EdlProgram(r, k) PROVE TypeOK'
    <3>1. sector' \in [Sector -> {"old", "new", "zero"}]
      BY <2>3 DEF EdlProgram, Transfer
    <3>2. programs' \subseteq programs /\ running' \in BOOLEAN
      BY <2>3 DEF EdlProgram
    <3> QED BY <2>3, <3>1, <3>2 DEF EdlProgram
  <2>4. ASSUME NEW r \in EngineReads, EdlRead(r) PROVE TypeOK'
    BY <2>4 DEF EdlRead
  <2>5. CASE AdbPreflight
    BY <2>5 DEF AdbPreflight
  <2>6. CASE Stop
    BY <2>6 DEF Stop
  <2>7. ASSUME NEW r \in Request, NEW k \in 0..r[2], NEW v \in {"new", "zero"},
               AdbProgram(r, k, v)
        PROVE  TypeOK'
    <3>1. sector' \in [Sector -> {"old", "new", "zero"}]
      BY <2>7 DEF AdbProgram, Transfer
    <3> QED BY <2>7, <3>1 DEF AdbProgram
  <2>8. CASE UNCHANGED vars
    BY <2>8 DEF vars
  <2> QED BY <2>1, <2>2, <2>3, <2>4, <2>5, <2>6, <2>7, <2>8 DEF Next
<1> QED BY <1>1, <1>2, PTL DEF Spec

\* The EDL guard: the first k sectors of an accepted <program> are image sectors.
LEMMA EdlTransfer ==
  ASSUME TypeOK, ProtectedUntouched,
         NEW r \in Request, NEW k \in 0..r[2], EdlProgram(r, k)
  PROVE  ProtectedUntouched'
<1>1. r \in Nat \X Nat /\ Sector \subseteq Nat
  BY ConstantsAssumption DEF Range
<1>2. PICK n : WriteOK(n, r, FALSE)
  BY DEF EdlProgram, ProgramXmlOK, check_update_plan
<1>3. ASSUME NEW s \in Sector, r[1] <= s, s < r[1] + k PROVE ImageSector(s)
  <2>1. s \in Nat /\ s < r[1] + r[2]
    BY <1>1, <1>3
  <2> QED BY <1>1, <1>2, <1>3, <2>1, ImageRange
<1>4. ASSUME NEW s \in Sector
      PROVE  sector'[s] = IF r[1] <= s /\ s < r[1] + k THEN "new" ELSE sector[s]
  BY DEF EdlProgram, Transfer
<1>5. \A s \in Nat : (ImageSector(s) <=> ImageSector(s)') /\ (WipeSector(s) <=> WipeSector(s)')
  BY DEF EdlProgram, options, ImageSector, WipeSector, In, wipe_zero_range
<1> QED BY <1>1, <1>3, <1>4, <1>5 DEF ProtectedUntouched

\* The adb transport: the first k sectors of an accepted program are image
\* sectors, or sectors of a zero range that get zeroes.
LEMMA AdbTransfer ==
  ASSUME TypeOK, ProtectedUntouched,
         NEW r \in Request, NEW k \in 0..r[2], NEW v \in {"new", "zero"}, AdbProgram(r, k, v)
  PROVE  ProtectedUntouched'
<1>1. r \in Nat \X Nat /\ Sector \subseteq Nat
  BY ConstantsAssumption DEF Range
<1>2. ASSUME NEW s \in Sector, r[1] <= s, s < r[1] + k
      PROVE  ImageSector(s) \/ (v = "zero" /\ WipeSector(s))
  <2>1. s \in Nat /\ s < r[1] + r[2]
    BY <1>1, <1>2
  <2>2. CASE IsZeroRange(r)
    <3>1. wipe /\ v = "zero"
      BY <2>2 DEF IsZeroRange, AdbProgram
    <3>2. PICK z \in ZeroPart : WriteOK(ZeroLabel(z), r, TRUE)
      BY <2>2 DEF AdbProgram, check_program
    <3> QED BY <1>1, <1>2, <2>1, <3>1, <3>2, ZeroRange
  <2>3. CASE ~IsZeroRange(r)
    <3>1. PICK n \in Name : WriteOK(n, r, FALSE)
      BY <2>3 DEF AdbProgram, check_program
    <3> QED BY <1>1, <1>2, <2>1, <3>1, ImageRange
  <2> QED BY <2>2, <2>3
<1>4. ASSUME NEW s \in Sector
      PROVE  sector'[s] = IF r[1] <= s /\ s < r[1] + k THEN v ELSE sector[s]
  BY DEF AdbProgram, Transfer
<1>5. \A s \in Nat : (ImageSector(s) <=> ImageSector(s)') /\ (WipeSector(s) <=> WipeSector(s)')
  BY DEF AdbProgram, options, ImageSector, WipeSector, In, wipe_zero_range
<1> QED BY <1>1, <1>2, <1>4, <1>5 DEF ProtectedUntouched

\* Whatever the engine asks for, on any partition table: no protected sector ever
\* changes, except that a wipe may zero the first MiB of metadata and userdata.
THEOREM ProtectedAlwaysUntouched == Spec => []ProtectedUntouched
<1>1. Init => ProtectedUntouched
  BY DEF Init, ProtectedUntouched
<1>2. TypeOK /\ ProtectedUntouched /\ [Next]_vars => ProtectedUntouched'
  <2> SUFFICES ASSUME TypeOK, ProtectedUntouched, [Next]_vars PROVE ProtectedUntouched'
    OBVIOUS
  <2>1. ASSUME NEW r \in Request, NEW k \in 0..r[2], EdlProgram(r, k)
        PROVE  ProtectedUntouched'
    BY <2>1, EdlTransfer
  <2>2. ASSUME NEW r \in Request, NEW k \in 0..r[2], NEW v \in {"new", "zero"},
               AdbProgram(r, k, v)
        PROVE  ProtectedUntouched'
    BY <2>2, AdbTransfer
  <2>3. CASE UNCHANGED <<options, sector>>
    BY <2>3 DEF ProtectedUntouched, options, ImageSector, WipeSector, In, wipe_zero_range
  <2> QED BY <2>1, <2>2, <2>3
       DEF Next, vars, options, SetPlan, EdlProgramBegin, EdlRead, AdbPreflight, Stop
<1> QED BY <1>1, <1>2, TypeCorrect, PTL DEF Spec
=============================================================================
