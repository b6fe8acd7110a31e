----------------------------- MODULE RomInstall -----------------------------
(***************************************************************************)
(* The wipe install and the restore (tools/RomFlashEngineV1.py, run by     *)
(* tools/Write-LaptopRomV1.py over EDL).                                   *)
(*                                                                         *)
(* An install reads every region that it, or the ROM it installs, may      *)
(* change into the one capture directory capture-rom-v1-install, verifies  *)
(* what it read, writes the manifest and only then programs the phone.  A  *)
(* restore programs the phone from that directory.  A run may stop after   *)
(* any step and is never resumed.  Between runs the phone may boot, and    *)
(* the system that boots writes to its own regions; a read may deliver     *)
(* wrong bytes, a program may be acknowledged and not be there, and a      *)
(* saved file may go bad on the laptop.                                    *)
(*                                                                         *)
(* The content of a region is one value and a sha256 comparison is         *)
(* equality.  The checks of GPT, vbmeta, devinfo and payload hashes read   *)
(* what no step of the model changes: failing one is Stop.                 *)
(***************************************************************************)
EXTENDS Naturals

CONSTANTS
  MayWrite,   \* L.ROM_MAY_WRITE: misc, metadata, modem EFS, persist
  Rank,       \* position of a region in the write order
  Content,    \* contents of a region
  Pin,        \* pins['stock']: the verified stock system, vendor and dtbo
  Image,      \* the images of the ROM
  KnownBcb,   \* L.EMPTY_BCB, L.BOOTLOADER_BCB
  Zero,       \* zeroed head (or footer)
  Torn,       \* what an incomplete or lost program leaves
  Used,       \* what a booted system leaves in the regions it writes
  Wrong,      \* what a faulty transfer or a damaged file holds
  BootWrites, \* sets of regions that a booting system may write to
  Disk0,      \* possible contents of the phone at the start
  MaxRuns,    \* bound: runs of the worker
  MaxFaults,  \* bound: misreads, lost programs and damaged files
  NoFile      \* model value: not read yet

Part   == {"boot", "dtbo", "vendor", "system"}
Pinned == {"system", "vendor", "dtbo"}
Once   == {"system", "vendor"}                \* no second read
User   == {"userdata-head", "userdata-tail"}
Region == Part \cup MayWrite \cup User        \* L.backup_regions()

ASSUME ConstantsAssumption ==
  /\ {"misc", "metadata"} \subseteq MayWrite
  /\ MayWrite \cap (Part \cup User) = {}
  /\ Rank \in [Region -> Nat]
  /\ \A q, r \in Region : Rank[q] = Rank[r] => q = r
  /\ Pin \in [Pinned -> Content]
  /\ Image \in [Part -> Content]
  /\ {Zero, Torn, Used, Wrong} \subseteq Content
  /\ BootWrites \subseteq SUBSET (MayWrite \cup User)
  /\ Disk0 \subseteq [Region -> Content]
  /\ NoFile \notin Content
  /\ MaxRuns \in Nat /\ MaxFaults \in Nat
  \* Wrong bytes hash to none of the fixed digests: the stock pins, the images
  \* and the zeroes.
  /\ \A p \in Pinned : Pin[p] # Wrong
  /\ \A p \in Part : Image[p] # Wrong
  /\ Zero # Wrong

VARIABLES
  disk,       \* the phone
  \* capture-rom-v1-install
  exists,     \* the directory is there
  nonstock,   \* --allow-nonstock of the install that made it
  file,       \* <label>.bin
  digest,     \* report['reads'][label]['sha256']
  manifest,   \* backup-manifest.json is written; it holds digest
  attempted,  \* report['writes'] of the install
  \* the run in progress, or the last one
  mode, userdata,   \* command line
  pc, todo, plan,
  result,     \* "ok": power acknowledged; "stopped"; "none": booted since
  runs, faults,
  before      \* history: the phone when the install was launched

capture == <<exists, nonstock, file, digest, manifest, attempted>>
vars == <<disk, capture, mode, userdata, pc, todo, plan, result, runs, faults, before>>

-----------------------------------------------------------------------------
(* Helpers *)

IsNext(r) == r \in todo /\ \A q \in todo : Rank[r] <= Rank[q]

\* One read of r (FirehoseDevice.read): the content, or wrong bytes, but not
\* the same wrong bytes in two reads of one region.
Reads(r) == {disk[r]} \cup
            (IF faults < MaxFaults /\ digest[r] # Wrong THEN {Wrong} ELSE {})

Spend(r, v) == faults' = IF v = disk[r] THEN faults ELSE faults + 1

\* install_writes: the images and the two zeroed heads.
install_writes == Part \cup {"metadata", "userdata-head"}

\* restore_writes without the changed regions, which Compare adds.
restore_writes == Part \cup User

\* The bytes that program() streams, read from the file as it is now.
Payload(r) ==
  IF mode = "install" THEN IF r \in Part THEN Image[r] ELSE Zero
  ELSE IF r \in User /\ userdata = "zero" THEN Zero ELSE file[r]

\* expected[label]: the hash that the readback is compared with.
Expected(r) ==
  IF mode = "install" THEN IF r \in Part THEN Image[r] ELSE Zero
  ELSE IF r \in User /\ userdata = "zero" THEN Zero ELSE digest[r]

-----------------------------------------------------------------------------
Init ==
  /\ disk \in Disk0 /\ before = disk
  /\ exists = FALSE /\ nonstock = FALSE /\ manifest = FALSE /\ attempted = {}
  /\ file = [r \in Region |-> NoFile] /\ digest = [r \in Region |-> NoFile]
  /\ mode = "install" /\ userdata = "zero" /\ pc = "idle"
  /\ todo = {} /\ plan = {} /\ result = "none" /\ runs = 0 /\ faults = 0

(* Install *)

\* mkdir(exist_ok=False), payload hashes, plan, identity checks.
LaunchInstall(ns) ==
  /\ pc = "idle" /\ runs < MaxRuns /\ ~exists
  /\ exists' = TRUE /\ nonstock' = ns
  /\ mode' = "install" /\ userdata' = "zero"
  /\ pc' = "backup" /\ todo' = Region /\ plan' = {}
  /\ before' = disk /\ result' = "none" /\ runs' = runs + 1
  /\ UNCHANGED <<disk, file, digest, manifest, attempted, faults>>

ReadRegion(r) ==
  /\ pc = "backup" /\ IsNext(r)
  /\ \E v \in Reads(r) :
        /\ file' = [file EXCEPT ![r] = v]
        /\ digest' = [digest EXCEPT ![r] = v]
        /\ Spend(r, v)
  /\ todo' = todo \ {r}
  /\ UNCHANGED <<disk, exists, nonstock, manifest, attempted, mode, userdata,
                 pc, plan, result, runs, before>>

\* Mutant of BackupRead: second reads of the regions it writes only.
BackupReadShort ==
  /\ pc = "backup" /\ todo = {}
  /\ file["misc"] \in KnownBcb
  /\ pc' = "second" /\ todo' = install_writes \ Once
  /\ UNCHANGED <<disk, capture, mode, userdata, plan, result, runs, faults, before>>

\* The boot message in misc is known; then the second reads.
BackupRead ==
  /\ pc = "backup" /\ todo = {}
  /\ file["misc"] \in KnownBcb
  /\ pc' = "second" /\ todo' = Region \ Once
  /\ UNCHANGED <<disk, capture, mode, userdata, plan, result, runs, faults, before>>

SecondRead(r) ==
  /\ pc = "second" /\ IsNext(r)
  /\ \E v \in Reads(r) : v = digest[r] /\ Spend(r, v)
  /\ todo' = todo \ {r}
  /\ UNCHANGED <<disk, capture, mode, userdata, pc, plan, result, runs, before>>

PredecessorOK == nonstock \/ \A p \in Pinned : digest[p] = Pin[p]

WriteManifest ==
  /\ pc = "second" /\ todo = {}
  /\ PredecessorOK
  /\ manifest' = TRUE
  /\ pc' = "write" /\ plan' = install_writes /\ todo' = install_writes
  /\ UNCHANGED <<disk, exists, nonstock, file, digest, attempted, mode, userdata,
                 result, runs, faults, before>>

(* Restore *)

\* Mutant of LaunchRestore: no manifest is required.
LaunchRestoreAnyway(ud) ==
  /\ pc = "idle" /\ runs < MaxRuns /\ exists
  /\ mode' = "restore" /\ userdata' = ud
  /\ pc' = "files" /\ todo' = {} /\ plan' = {}
  /\ result' = "none" /\ runs' = runs + 1
  /\ UNCHANGED <<disk, capture, faults, before>>

\* The restore's own capture directory is new in every run: the operator
\* moves the earlier one aside.
LaunchRestore(ud) ==
  /\ pc = "idle" /\ runs < MaxRuns /\ exists /\ manifest
  /\ mode' = "restore" /\ userdata' = ud
  /\ pc' = "files" /\ todo' = {} /\ plan' = {}
  /\ result' = "none" /\ runs' = runs + 1
  /\ UNCHANGED <<disk, capture, faults, before>>

\* Every file is hashed and compared with the manifest; then GPT and layout.
CheckFiles ==
  /\ pc = "files"
  /\ \A r \in Region : file[r] = digest[r]
  /\ pc' = "compare" /\ todo' = MayWrite /\ plan' = restore_writes
  /\ UNCHANGED <<disk, capture, mode, userdata, result, runs, faults, before>>

\* Is the region as it was?
Compare(r) ==
  /\ pc = "compare" /\ IsNext(r)
  /\ \E v \in Reads(r) :
        /\ plan' = IF v # digest[r] THEN plan \cup {r} ELSE plan
        /\ Spend(r, v)
  /\ todo' = todo \ {r}
  /\ UNCHANGED <<disk, capture, mode, userdata, pc, result, runs, before>>

PlanRestore ==
  /\ pc = "compare" /\ todo = {}
  /\ pc' = "write" /\ todo' = plan
  /\ UNCHANGED <<disk, capture, mode, userdata, plan, result, runs, faults, before>>

(* Write and readback, of both modes *)

\* Session.program: the report entry is saved before anything is sent.
BeginProgram(r) ==
  /\ pc = "write" /\ IsNext(r)
  /\ attempted' = IF mode = "install" THEN attempted \cup {r} ELSE attempted
  /\ pc' = "program"
  /\ UNCHANGED <<disk, exists, nonstock, file, digest, manifest, mode, userdata,
                 todo, plan, result, runs, faults, before>>

\* The first sectors arrive.
Transfer(r) ==
  /\ pc = "program" /\ IsNext(r)
  /\ disk' = [disk EXCEPT ![r] = Torn]
  /\ pc' = "transfer"
  /\ UNCHANGED <<capture, mode, userdata, todo, plan, result, runs, faults, before>>

\* The last sectors and the final acknowledgment, which may be untrue.
Acknowledge(r) ==
  /\ pc = "transfer" /\ IsNext(r)
  /\ \/ disk' = [disk EXCEPT ![r] = Payload(r)] /\ UNCHANGED faults
     \/ faults < MaxFaults /\ faults' = faults + 1 /\ UNCHANGED disk
  /\ pc' = "write" /\ todo' = todo \ {r}
  /\ UNCHANGED <<capture, mode, userdata, plan, result, runs, before>>

\* Mutant of AllWritten: only the images are read back.
AllWrittenImages ==
  /\ pc = "write" /\ todo = {}
  /\ pc' = "readback" /\ todo' = plan \cap Part
  /\ UNCHANGED <<disk, capture, mode, userdata, plan, result, runs, faults, before>>

AllWritten ==
  /\ pc = "write" /\ todo = {}
  /\ pc' = "readback" /\ todo' = plan
  /\ UNCHANGED <<disk, capture, mode, userdata, plan, result, runs, faults, before>>

\* Mutant of VerifyWritten: compared with the bytes that were streamed.
VerifyWrittenAsSent(r) ==
  /\ pc = "readback" /\ IsNext(r)
  /\ \E v \in Reads(r) : v = Payload(r) /\ Spend(r, v)
  /\ todo' = todo \ {r}
  /\ UNCHANGED <<disk, capture, mode, userdata, pc, plan, result, runs, before>>

\* verify_written.
VerifyWritten(r) ==
  /\ pc = "readback" /\ IsNext(r)
  /\ \E v \in Reads(r) : v = Expected(r) /\ Spend(r, v)
  /\ todo' = todo \ {r}
  /\ UNCHANGED <<disk, capture, mode, userdata, pc, plan, result, runs, before>>

Power ==
  /\ pc = "readback" /\ todo = {}
  /\ pc' = "idle" /\ result' = "ok"
  /\ UNCHANGED <<disk, capture, mode, userdata, todo, plan, runs, faults, before>>

(* A failed check, a lost connection, the deadline, a kill *)
Stop ==
  /\ pc # "idle"
  /\ pc' = "idle" /\ result' = "stopped" /\ todo' = {} /\ plan' = {}
  /\ UNCHANGED <<disk, capture, mode, userdata, runs, faults, before>>

(* The environment *)

\* Some system boots and writes to regions of its own.
Boot(S) ==
  /\ pc = "idle"
  /\ disk' = [r \in Region |-> IF r \in S THEN Used ELSE disk[r]]
  /\ result' = "none"
  /\ UNCHANGED <<capture, mode, userdata, pc, todo, plan, runs, faults, before>>

\* The operator moves the capture of an install that wrote nothing aside.
MoveAside ==
  /\ pc = "idle" /\ exists /\ attempted = {}
  /\ exists' = FALSE /\ manifest' = FALSE
  /\ file' = [r \in Region |-> NoFile] /\ digest' = [r \in Region |-> NoFile]
  /\ UNCHANGED <<disk, nonstock, attempted, mode, userdata, pc, todo, plan, result,
                 runs, faults, before>>

\* A saved file goes bad on the laptop.
Damage(r) ==
  /\ faults < MaxFaults /\ faults' = faults + 1
  /\ file[r] # NoFile
  /\ file' = [file EXCEPT ![r] = Wrong]
  /\ UNCHANGED <<disk, exists, nonstock, digest, manifest, attempted, mode, userdata,
                 pc, todo, plan, result, runs, before>>

Next ==
  \/ \E ns \in BOOLEAN : LaunchInstall(ns)
  \/ \E ud \in {"zero", "original"} : LaunchRestore(ud)
  \/ BackupRead \/ WriteManifest \/ CheckFiles \/ PlanRestore
  \/ AllWritten \/ Power \/ Stop \/ MoveAside
  \/ \E r \in Region : \/ ReadRegion(r) \/ SecondRead(r) \/ Compare(r)
                       \/ BeginProgram(r) \/ Transfer(r) \/ Acknowledge(r)
                       \/ VerifyWritten(r) \/ Damage(r)
  \/ \E S \in BootWrites : Boot(S)

Spec == Init /\ [][Next]_vars

-----------------------------------------------------------------------------
(* Properties *)

\* Every variable is in its type; no region is ever programmed from a file
\* that was never read.
TypeOK ==
  /\ disk \in [Region -> Content] /\ before \in [Region -> Content]
  /\ exists \in BOOLEAN /\ nonstock \in BOOLEAN /\ manifest \in BOOLEAN
  /\ file \in [Region -> Content \cup {NoFile}]
  /\ digest \in [Region -> Content \cup {NoFile}]
  /\ attempted \subseteq install_writes
  /\ mode \in {"install", "restore"} /\ userdata \in {"zero", "original"}
  /\ pc \in {"idle", "backup", "second", "files", "compare", "write", "program",
             "transfer", "readback"}
  /\ todo \subseteq Region /\ plan \subseteq Region
  /\ result \in {"none", "ok", "stopped"}
  /\ runs \in 0..MaxRuns /\ faults \in 0..MaxFaults

\* The regions whose saved bytes an install has verified: all of them, but
\* with --allow-nonstock system and vendor are read once and compared with
\* nothing.
Verified == IF nonstock THEN Region \ Once ELSE Region

\* From the first program of an install on there is a manifest, and it records
\* every verified region as it was before the install, whatever the reads of
\* the backup delivered: misreads never become the stock backup.
BackupFaithful ==
  attempted # {} =>
    /\ exists /\ manifest
    /\ \A r \in Verified : digest[r] = before[r]

\* A restore that reports success has put every verified region back to what
\* it was before the install, and left userdata to be formatted (or as it
\* was), however many runs stopped, systems booted, transfers failed or saved
\* files went bad in between: "every partition except userdata is
\* byte-identical to the moment before the install".
RestoreExact ==
  result = "ok" /\ mode = "restore" =>
    /\ \A r \in Verified \ User : disk[r] = before[r]
    /\ \A r \in User : disk[r] = IF userdata = "zero" THEN Zero ELSE before[r]

\* An install that reports success has changed the phone exactly as planned:
\* the images, the two zeroed heads, and no other byte.
InstallExact ==
  result = "ok" /\ mode = "install" =>
    \A r \in Region : disk[r] = IF r \in Part THEN Image[r]
                                ELSE IF r \in install_writes THEN Zero
                                ELSE before[r]
=============================================================================
