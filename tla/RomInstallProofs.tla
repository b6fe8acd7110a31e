-------------------------- MODULE RomInstallProofs --------------------------
(***************************************************************************)
(* The backup of an install is faithful, and a restore or an install that  *)
(* reports success has done what it says, for any set of ROM-writable      *)
(* regions and any number of runs and faults.                              *)
(***************************************************************************)
EXTENDS RomInstall, TLAPS

Writing == {"write", "program", "transfer", "readback"}

\* No capture directory: nothing was read or attempted.
NoCapture ==
  ~exists => /\ ~manifest /\ attempted = {}
             /\ file = [r \in Region |-> NoFile]
             /\ digest = [r \in Region |-> NoFile]

\* Which run is in which phase, and what it has already made sure of.
Phases ==
  /\ pc # "idle" => result = "none" /\ exists
  /\ pc \in {"backup", "second"} =>
        /\ mode = "install" /\ ~manifest /\ attempted = {} /\ disk = before
  /\ pc \in {"files", "compare"} => mode = "restore" /\ manifest
  /\ pc \in Writing => manifest /\ todo \subseteq plan
  /\ attempted # {} => manifest /\ exists

\* What was read is what the phone holds, or wrong; a second read or a pin
\* decides which.
ReadSoFar ==
  /\ pc = "backup" =>
        /\ \A r \in todo : digest[r] = NoFile
        /\ \A r \in Region \ todo :
              digest[r] \in {before[r], Wrong} /\ file[r] \in Content
  /\ pc = "second" =>
        /\ \A r \in Region : digest[r] \in {before[r], Wrong} /\ file[r] \in Content
        /\ \A r \in (Region \ Once) \ todo : digest[r] = before[r]
  /\ manifest =>
        /\ \A r \in Region : digest[r] \in Content /\ file[r] \in Content
        /\ \A r \in Verified : digest[r] = before[r]

\* What is not planned needs no write.
Unplanned ==
  /\ pc \in Writing /\ mode = "install" =>
        /\ plan = install_writes
        /\ \A r \in Region \ plan : disk[r] = before[r]
  /\ pc = "compare" =>
        /\ todo \subseteq MayWrite /\ restore_writes \subseteq plan
        /\ \A r \in MayWrite \ (todo \cup plan) : disk[r] = digest[r]
  /\ pc \in Writing /\ mode = "restore" =>
        /\ restore_writes \subseteq plan
        /\ \A r \in Region \ plan : disk[r] = digest[r]

ReadBack == pc = "readback" => \A r \in plan \ todo : disk[r] = Expected(r)

IInv == TypeOK /\ NoCapture /\ Phases /\ ReadSoFar /\ Unplanned /\ ReadBack
               /\ RestoreExact /\ InstallExact

\* The strengthening implies what is promised about the backup.
LEMMA Enough == IInv => BackupFaithful
BY DEF IInv, Phases, ReadSoFar, BackupFaithful

LEMMA InitOK == Init => IInv
<1> SUFFICES ASSUME Init PROVE IInv
  OBVIOUS
<1>1. TypeOK
  <2>1. disk \in [Region -> Content] /\ before \in [Region -> Content]
    BY ConstantsAssumption DEF Init
  <2>2. runs \in 0..MaxRuns /\ faults \in 0..MaxFaults
    BY ConstantsAssumption DEF Init
  <2>3. /\ file \in [Region -> Content \cup {NoFile}]
        /\ digest \in [Region -> Content \cup {NoFile}]
    BY DEF Init
  <2> QED
    BY <2>1, <2>2, <2>3 DEF Init, TypeOK
<1>2. NoCapture /\ Phases /\ ReadSoFar
  BY DEF Init, NoCapture, Phases, ReadSoFar, Writing
<1>3. Unplanned /\ ReadBack /\ RestoreExact /\ InstallExact
  BY DEF Init, Unplanned, ReadBack, RestoreExact, InstallExact, Writing
<1> QED
  BY <1>1, <1>2, <1>3 DEF IInv

\* The plans are sets of regions that the backup covers.
LEMMA Regions ==
  /\ Part \subseteq Region /\ MayWrite \subseteq Region /\ User \subseteq Region
  /\ Once \subseteq Pinned /\ Pinned \subseteq Part
  /\ User \cap Once = {} /\ User \cap Part = {} /\ MayWrite \cap Part = {}
  /\ MayWrite \cap User = {}
  /\ install_writes \subseteq Region /\ restore_writes \subseteq Region
  /\ Region = MayWrite \cup restore_writes
  /\ Verified \subseteq Region /\ User \subseteq Verified
BY ConstantsAssumption
   DEF Part, Pinned, Once, User, Region, install_writes, restore_writes, Verified

LEMMA LaunchInstallOK == ASSUME NEW ns \in BOOLEAN, IInv, LaunchInstall(ns) PROVE IInv'
BY ConstantsAssumption
   DEF LaunchInstall, IInv, TypeOK, NoCapture, Phases, ReadSoFar, Unplanned,
       ReadBack, RestoreExact, InstallExact, Writing

LEMMA ReadRegionOK == ASSUME NEW r \in Region, IInv, ReadRegion(r) PROVE IInv'
BY ConstantsAssumption
   DEF ReadRegion, IsNext, Reads, Spend, IInv, TypeOK, NoCapture, Phases,
       ReadSoFar, Unplanned, ReadBack, RestoreExact, InstallExact, Writing

LEMMA BackupReadOK == ASSUME IInv, BackupRead PROVE IInv'
BY ConstantsAssumption
   DEF BackupRead, capture, IInv, TypeOK, NoCapture, Phases, ReadSoFar, Unplanned,
       ReadBack, RestoreExact, InstallExact, Writing

LEMMA SecondReadOK == ASSUME NEW r \in Region, IInv, SecondRead(r) PROVE IInv'
BY ConstantsAssumption
   DEF SecondRead, IsNext, Reads, Spend, capture, IInv, TypeOK, NoCapture, Phases,
       ReadSoFar, Unplanned, ReadBack, RestoreExact, InstallExact, Writing

LEMMA LaunchRestoreOK ==
  ASSUME NEW ud \in {"zero", "original"}, IInv, LaunchRestore(ud) PROVE IInv'
BY ConstantsAssumption
   DEF LaunchRestore, capture, IInv, TypeOK, NoCapture, Phases, ReadSoFar,
       Unplanned, ReadBack, RestoreExact, InstallExact, Writing, Verified

LEMMA StopOK == ASSUME IInv, Stop PROVE IInv'
BY ConstantsAssumption
   DEF Stop, capture, IInv, TypeOK, NoCapture, Phases, ReadSoFar, Unplanned,
       ReadBack, RestoreExact, InstallExact, Writing, Verified

LEMMA WriteManifestOK == ASSUME IInv, WriteManifest PROVE IInv'
<1> USE DEF WriteManifest, IInv
<1>1. \A r \in Verified' : digest'[r] = before'[r]
  <2> SUFFICES ASSUME NEW r \in Verified' PROVE digest[r] = before[r]
    OBVIOUS
  <2>1. CASE r \notin Once
    BY <2>1 DEF ReadSoFar, Verified
  <2>2. CASE r \in Once
    BY <2>2, Regions, ConstantsAssumption DEF ReadSoFar, Verified, PredecessorOK
  <2> QED
    BY <2>1, <2>2
<1>2. TypeOK'
  BY Regions DEF TypeOK
<1>3. NoCapture' /\ Phases'
  BY DEF NoCapture, Phases, Writing, TypeOK
<1>4. ReadSoFar'
  BY <1>1, ConstantsAssumption DEF ReadSoFar, TypeOK
<1>5. Unplanned' /\ ReadBack'
  BY DEF Unplanned, ReadBack, Writing, Phases
<1>6. RestoreExact' /\ InstallExact'
  BY DEF RestoreExact, InstallExact, Phases
<1> QED
  BY <1>2, <1>3, <1>4, <1>5, <1>6

LEMMA CheckFilesOK == ASSUME IInv, CheckFiles PROVE IInv'
BY Regions
   DEF CheckFiles, capture, IInv, TypeOK, NoCapture, Phases, ReadSoFar, Unplanned,
       ReadBack, RestoreExact, InstallExact, Writing, Verified

LEMMA CompareOK == ASSUME NEW r \in Region, IInv, Compare(r) PROVE IInv'
BY ConstantsAssumption
   DEF Compare, IsNext, Reads, Spend, capture, IInv, TypeOK, NoCapture, Phases,
       ReadSoFar, Unplanned, ReadBack, RestoreExact, InstallExact, Writing, Verified

LEMMA PlanRestoreOK == ASSUME IInv, PlanRestore PROVE IInv'
BY Regions
   DEF PlanRestore, capture, IInv, TypeOK, NoCapture, Phases, ReadSoFar, Unplanned,
       ReadBack, RestoreExact, InstallExact, Writing, Verified

LEMMA BeginProgramOK == ASSUME NEW r \in Region, IInv, BeginProgram(r) PROVE IInv'
BY Regions
   DEF BeginProgram, IsNext, IInv, TypeOK, NoCapture, Phases, ReadSoFar, Unplanned,
       ReadBack, RestoreExact, InstallExact, Writing, Verified

LEMMA TransferOK == ASSUME NEW r \in Region, IInv, Transfer(r) PROVE IInv'
BY ConstantsAssumption
   DEF Transfer, IsNext, capture, IInv, TypeOK, NoCapture, Phases, ReadSoFar,
       Unplanned, ReadBack, RestoreExact, InstallExact, Writing, Verified

LEMMA AcknowledgeOK == ASSUME NEW r \in Region, IInv, Acknowledge(r) PROVE IInv'
<1>1. Payload(r) \in Content
  BY ConstantsAssumption
     DEF Acknowledge, IInv, Phases, ReadSoFar, Payload, Writing
<1>2. /\ disk' \in [Region -> Content] /\ faults' \in 0..MaxFaults
      /\ \A q \in Region \ {r} : disk'[q] = disk[q]
  BY <1>1, ConstantsAssumption DEF Acknowledge, IInv, TypeOK
<1>3. r \in plan /\ todo' \subseteq plan
  BY DEF Acknowledge, IsNext, IInv, Phases, Writing
<1>4. TypeOK' /\ NoCapture' /\ Phases' /\ ReadSoFar' /\ ReadBack'
  BY <1>2, <1>3
     DEF Acknowledge, capture, IInv, TypeOK, NoCapture, Phases, ReadSoFar, ReadBack,
         Writing, Verified
<1>5. Unplanned' /\ RestoreExact' /\ InstallExact'
  BY <1>2, <1>3
     DEF Acknowledge, capture, IInv, Phases, Unplanned, RestoreExact, InstallExact,
         Writing
<1> QED
  BY <1>4, <1>5 DEF IInv

LEMMA AllWrittenOK == ASSUME IInv, AllWritten PROVE IInv'
BY DEF AllWritten, capture, IInv, TypeOK, NoCapture, Phases, ReadSoFar, Unplanned,
       ReadBack, RestoreExact, InstallExact, Writing, Verified

LEMMA VerifyWrittenOK == ASSUME NEW r \in Region, IInv, VerifyWritten(r) PROVE IInv'
<1>1. Expected(r) # Wrong \/ Expected(r) = digest[r]
  BY ConstantsAssumption DEF Expected
<1>2. disk[r] = Expected(r)
  BY <1>1 DEF VerifyWritten, Reads
<1> QED
  BY <1>2
     DEF VerifyWritten, IsNext, Reads, Spend, Expected, capture, IInv, TypeOK,
         NoCapture, Phases, ReadSoFar, Unplanned, ReadBack, RestoreExact,
         InstallExact, Writing, Verified

LEMMA PowerOK == ASSUME IInv, Power PROVE IInv'
<1> USE DEF Power, IInv
<1>1. \A r \in plan : disk[r] = Expected(r)
  BY DEF ReadBack
<1>2. InstallExact'
  BY <1>1, Regions DEF InstallExact, Unplanned, Writing, Expected, install_writes
<1>3. RestoreExact'
  <2> SUFFICES ASSUME mode = "restore" PROVE RestoreExact'
    BY DEF RestoreExact
  <2>1. \A r \in Verified : digest[r] = before[r]
    BY DEF Phases, ReadSoFar, Writing
  <2>2. \A r \in Region \ User : disk[r] = digest[r]
    BY <1>1 DEF Unplanned, Writing, Expected
  <2>3. \A r \in User : disk[r] = IF userdata = "zero" THEN Zero ELSE digest[r]
    BY <1>1, Regions DEF Unplanned, Writing, Expected, restore_writes
  <2> QED
    BY <2>1, <2>2, <2>3, Regions DEF RestoreExact, capture, Verified
<1>4. /\ TypeOK' /\ NoCapture' /\ Phases' /\ ReadSoFar' /\ Unplanned' /\ ReadBack'
  BY DEF capture, TypeOK, NoCapture, Phases, ReadSoFar, Unplanned, ReadBack,
         Writing, Verified
<1> QED
  BY <1>2, <1>3, <1>4

LEMMA MoveAsideOK == ASSUME IInv, MoveAside PROVE IInv'
BY DEF MoveAside, IInv, TypeOK, NoCapture, Phases, ReadSoFar, Unplanned, ReadBack,
       RestoreExact, InstallExact, Writing, Verified

LEMMA DamageOK == ASSUME NEW r \in Region, IInv, Damage(r) PROVE IInv'
BY ConstantsAssumption
   DEF Damage, IInv, TypeOK, NoCapture, Phases, ReadSoFar, Unplanned, ReadBack,
       RestoreExact, InstallExact, Writing, Verified, Expected

LEMMA BootOK == ASSUME NEW S \in BootWrites, IInv, Boot(S) PROVE IInv'
BY ConstantsAssumption
   DEF Boot, capture, IInv, TypeOK, NoCapture, Phases, ReadSoFar, Unplanned,
       ReadBack, RestoreExact, InstallExact, Writing, Verified

LEMMA StutterOK == ASSUME IInv, UNCHANGED vars PROVE IInv'
BY DEF vars, capture, IInv, TypeOK, NoCapture, Phases, ReadSoFar, Unplanned,
       ReadBack, RestoreExact, InstallExact, Writing, Verified, Expected

\* Every step of the worker, the phone, the laptop and the operator keeps the
\* invariant.
LEMMA StepOK == IInv /\ [Next]_vars => IInv'
<1> SUFFICES ASSUME IInv, [Next]_vars PROVE IInv'
  OBVIOUS
<1>1. CASE Next
  BY <1>1, LaunchInstallOK, LaunchRestoreOK, BackupReadOK, WriteManifestOK,
     CheckFilesOK, PlanRestoreOK, AllWrittenOK, PowerOK, StopOK, MoveAsideOK,
     ReadRegionOK, SecondReadOK, CompareOK, BeginProgramOK, TransferOK,
     AcknowledgeOK, VerifyWrittenOK, DamageOK, BootOK DEF Next
<1>2. CASE UNCHANGED vars
  BY <1>2, StutterOK
<1> QED
  BY <1>1, <1>2

\* The invariant holds in every reachable state.
THEOREM Invariance == Spec => []IInv
BY InitOK, StepOK, PTL DEF Spec

\* Every variable keeps its type: no run programs a region from a file that
\* was never read.
THEOREM TypeCorrect == Spec => []TypeOK
<1>1. IInv => TypeOK
  BY DEF IInv
<1> QED
  BY <1>1, Invariance, PTL

\* No misread becomes the backup: once run_install programs anything, its
\* manifest is there and records every verified region as it was.
THEOREM BackupAlwaysFaithful == Spec => []BackupFaithful
BY Enough, Invariance, PTL

\* run_restore reports success only over the phone as it was.
THEOREM RestoreAlwaysExact == Spec => []RestoreExact
<1>1. IInv => RestoreExact
  BY DEF IInv
<1> QED
  BY <1>1, Invariance, PTL

\* run_install reports success only over exactly the planned change.
THEOREM InstallAlwaysExact == Spec => []InstallExact
<1>1. IInv => InstallExact
  BY DEF IInv
<1> QED
  BY <1>1, Invariance, PTL
=============================================================================
