------------------------------ MODULE CliStorage ------------------------------
(***************************************************************************)
(* What the command line program keeps on disk: identity.pem, written once *)
(* when it does not exist, and paired-v2.json, rewritten by every change   *)
(* of the paired devices.  The program may die, or a write may fail, at    *)
(* any moment.  Instanced by CliApp.                                       *)
(***************************************************************************)
EXTENDS Naturals

CONSTANTS
    Devices,    \* fingerprints of other devices
    Addresses   \* addresses they are reachable at, numbers above NoChannel

VARIABLES
    file,       \* paired-v2.json
    paired,     \* PairedDevices.file.devices, as the running program has it
    identity,   \* identity.pem
    device,     \* the certificate the running program uses, 0 while it is off
    made,       \* certificates generated so far
    unsaved     \* the program reported that it could not save `paired`

storageVars == <<file, paired, identity, device, made, unsaved>>

Unpaired == 0
NoChannel == 1      \* paired while no address was known
Contents == [Devices -> {Unpaired, NoChannel} \cup Addresses]
Paired(d) == paired[d] # Unpaired

StorageType ==
    /\ file \in [whole : BOOLEAN, devices : Contents]
    /\ paired \in Contents
    /\ identity \in [state : {"absent", "cut", "whole"}, cert : Nat]
    /\ device \in Nat /\ made \in Nat /\ unsaved \in BOOLEAN

Install(devices) ==
    /\ file = [whole |-> TRUE, devices |-> devices]
    /\ paired = [d \in Devices |-> Unpaired]
    /\ identity = [state |-> "absent", cert |-> 0]
    /\ device = 0 /\ made = 0 /\ unsaved = FALSE

-----------------------------------------------------------------------------
Written(whole) == file' = [whole |-> whole, devices |-> paired'] /\ unsaved' = FALSE
NotWritten == UNCHANGED file /\ unsaved' = TRUE

\* Broken variant: nothing is written.
SaveForgotten(faulty) == UNCHANGED file /\ unsaved' = FALSE

\* save of paired.rs: a temporary file is written and then renamed, so that
\* a failure leaves the file as it was.  Memory was changed before.
Save(faulty) == Written(TRUE) \/ (faulty /\ NotWritten)

\* PairedDevices::insert, with the channels discovery knows.
Insert(d, address, faulty) ==
    /\ paired' = [paired EXCEPT ![d] = IF address = 0 THEN NoChannel ELSE address]
    /\ Save(faulty)
    /\ UNCHANGED <<identity, device, made>>

\* PairedDevices::update: saves only when something changed.
Update(d, address, faulty) ==
    IF Paired(d) /\ paired[d] # address
    THEN /\ paired' = [paired EXCEPT ![d] = address]
         /\ Save(faulty)
         /\ UNCHANGED <<identity, device, made>>
    ELSE UNCHANGED storageVars

\* PairedDevices::remove.
Remove(d, faulty) ==
    /\ paired' = [paired EXCEPT ![d] = Unpaired]
    /\ IF Paired(d) THEN Save(faulty) ELSE UNCHANGED <<file, unsaved>>
    /\ UNCHANGED <<identity, device, made>>

-----------------------------------------------------------------------------
\* Identity::generate and Identity::save, whose create_new never overwrites.
Generate ==
    /\ identity.state = "absent"
    /\ made' = made + 1
    /\ identity' = [state |-> "whole", cert |-> made']
    /\ device' = made'

\* Identity::from_pem
Reuse ==
    /\ identity.state = "whole"
    /\ device' = identity.cert
    /\ UNCHANGED <<identity, made>>

LoadOrGenerate == Generate \/ Reuse

\* PairedDevices::load: only a whole file can be parsed.
LoadPaired ==
    /\ file.whole
    /\ paired' = file.devices /\ unsaved' = FALSE

\* Repository::load: the paired devices, then the identity; an error ends the
\* program.
Load ==
    /\ LoadPaired
    /\ LoadOrGenerate
    /\ UNCHANGED file

\* The first run fails or dies while it writes identity.pem.
LoadDies ==
    /\ file.whole /\ identity.state = "absent"
    /\ identity' \in {[state |-> "cut", cert |-> 0], identity}
    /\ UNCHANGED <<file, paired, device, made, unsaved>>

\* The user follows the error message.
DeleteIdentity ==
    /\ identity.state = "cut"
    /\ identity' = [state |-> "absent", cert |-> 0]
    /\ UNCHANGED <<file, paired, device, made, unsaved>>

\* The program ends or is killed: only the files are left.
Unload ==
    /\ paired' = [d \in Devices |-> Unpaired]
    /\ device' = 0 /\ unsaved' = FALSE
    /\ UNCHANGED <<file, identity, made>>

-----------------------------------------------------------------------------
(* "Write-then-rename so a crash cannot leave a truncated file": whatever    *)
(* failed and whenever the program died, the paired devices can be read.     *)
FileWhole == file.whole

(* Whenever the program did not report a failed save, the next run would    *)
(* load exactly the pairings this run has in memory.                        *)
DiskCurrent == device # 0 /\ ~unsaved => file.devices = paired

(* The identity a run shows to other devices, which they pair with, is the  *)
(* one on disk, so that the next run is the same device to them.            *)
IdentityKept == device # 0 => identity = [state |-> "whole", cert |-> device]
=============================================================================
