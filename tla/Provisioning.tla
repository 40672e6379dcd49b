---------------------------- MODULE Provisioning ----------------------------
(***************************************************************************)
(* How a secured device gets its software: hipos-prepare-sd.sh on a host,  *)
(* or prepare_sdcard of hiposprovisioning on the device itself, lay out    *)
(* the card; the provisioning initramfs mounts it for production; the      *)
(* field initramfs encrypts it (hiposencrypt) and then mounts it at every  *)
(* boot (hiposmount).  One action is one command, or one pass of a list of *)
(* like commands; the scripts run without "set -e".                        *)
(***************************************************************************)
EXTENDS Naturals, Sequences

CONSTANTS
  Cards,      \* how cards start: "blank" on the host, "image" on a device
  BootSlots,  \* the slots U-Boot may boot
  MaxCuts,    \* bound: power cuts and aborted preparations
  MaxKeys     \* bound: keys that caam-keygen creates

ASSUME ProvisioningAssumption ==
  /\ Cards \subseteq {"blank", "image"}
  /\ BootSlots \subseteq {"a", "b"}
  /\ MaxCuts \in Nat
  /\ MaxKeys \in Nat \ {0}

VARIABLES
  part4,     \* the fourth partition: "blank", "artifacts" or "pv"
  group,     \* the name of the volume group in it, or "none"
  vol,       \* vol[l]: what logical volume l holds, under which key (0: none)
  keystore,  \* the file system of volume keystore
  boot,      \* boot[s]: the two fitImages of a boot partition
  at,        \* whether the card is in the "host" or in the "device"
  pc,        \* the place in the script that is running
  n,         \* the next of a list of commands
  slot,      \* the slot that was booted
  arts,      \* whether the artifacts are at hand
  ring,      \* the key in the kernel's keyring
  keys,      \* the keys created so far
  cuts       \* power cuts and aborts so far

card == <<part4, group, vol, keystore, boot>>
memory == <<slot, arts, ring>>
vars == <<card, at, pc, n, memory, keys, cuts>>

Slots == {"a", "b"}
Volumes == <<"rootfs_a", "rootfs_b", "userdata_a", "userdata_b", "keystore", "provisioning",
             "datastore", "pvsn_rootfs", "pvsn_userdata", "pvsn_provisioning", "pvsn_datastore">>
LVs == {Volumes[i] : i \in 1 .. 11}
SizedByRootfs == {"rootfs_a", "rootfs_b", "pvsn_rootfs"}
Formatted == <<"pvsn_userdata", "pvsn_provisioning", "pvsn_datastore">>
Targets == <<"provisioning", "datastore", "userdata_a", "userdata_b", "rootfs_a">>
Source == [provisioning |-> "pvsn_provisioning", datastore |-> "pvsn_datastore",
           userdata_a |-> "pvsn_userdata", userdata_b |-> "pvsn_userdata",
           rootfs_a |-> "pvsn_rootfs"]
SlipRootfsLast == <<"pvsn_userdata", "pvsn_provisioning", "pvsn_datastore", "pvsn_rootfs">>
Removed == <<"pvsn_rootfs", "pvsn_userdata", "pvsn_provisioning", "pvsn_datastore">>

(* "part" is a copy that was interrupted; a formatted volume is an "fs".    *)
Content == [what : {"absent", "junk", "fs", "part", "data"}, key : 0 .. MaxKeys]
Plain(w) == [what |-> w, key |-> 0]
NoVolumes == [l \in LVs |-> Plain("absent")]
Exists(l) == vol[l].what # "absent"
NoKeystore == [fs |-> FALSE, verity |-> "none", key |-> 0]
NoBoot == [s \in Slots |-> [fit |-> "none", deploy |-> "none"]]

Rootfs(s) == IF s = "a" THEN "rootfs_a" ELSE "rootfs_b"
Userdata(s) == IF s = "a" THEN "userdata_a" ELSE "userdata_b"

-----------------------------------------------------------------------------
Init ==
  /\ \E c \in Cards :
       IF c = "blank"
       THEN part4 = "blank" /\ boot = NoBoot /\ at = "host" /\ pc = "idle"
       ELSE /\ part4 = "artifacts" /\ at = "device" /\ pc = "off"
            /\ boot = [NoBoot EXCEPT !["a"].fit = "provisioning"]
  /\ group = "none"
  /\ vol = NoVolumes
  /\ keystore = NoKeystore
  /\ n = 1 /\ slot = "a" /\ arts = FALSE /\ ring = 0 /\ keys = 0 /\ cuts = 0

Go(p) == pc' = p /\ n' = 1
(* The n-th command of a list of k: the next one, or on to p after the last. *)
NextOf(k, p) == IF n < k THEN pc' = pc /\ n' = n + 1 ELSE Go(p)

(* hipos-prepare-sd.sh removes what an earlier run left and partitions anew. *)
CleanCard ==
  /\ pc = "idle"
  /\ part4' = "blank" /\ group' = "none"
  /\ vol' = NoVolumes /\ keystore' = NoKeystore /\ boot' = NoBoot
  /\ arts' = TRUE
  /\ Go("group")
  /\ UNCHANGED <<at, slot, ring, keys, cuts>>

(* hiposprovisioning_run: a card with the group is taken to be prepared.    *)
CheckGroup ==
  /\ pc = "vgs"
  /\ Go(IF group = "hydralvm" THEN "mount" ELSE "artifacts")
  /\ UNCHANGED <<card, at, memory, keys, cuts>>

(* prepare_sdcard copies the artifacts of p4 into memory, if there are any. *)
CopyArtifacts ==
  /\ pc = "artifacts"
  /\ arts' = (part4 = "artifacts")
  /\ Go("pv")
  /\ UNCHANGED <<card, at, slot, ring, keys, cuts>>

CreatePhysicalVolume ==
  /\ pc = "pv"
  /\ part4' = "pv" /\ group' = "none" /\ vol' = NoVolumes /\ keystore' = NoKeystore
  /\ Go("group")
  /\ UNCHANGED <<boot, at, memory, keys, cuts>>

CreateGroup ==
  /\ pc = "group"
  /\ part4' = "pv"
  /\ group' = IF at = "host" THEN "hydralvm_provisioning" ELSE "hydralvm"
  /\ Go(IF at = "host" THEN "boot" ELSE "volumes")
  /\ UNCHANGED <<vol, keystore, boot, at, memory, keys, cuts>>

WriteBoot ==
  /\ pc = "boot"
  /\ boot' = [boot EXCEPT !["a"] = [fit |-> "provisioning", deploy |-> "whole"]]
  /\ Go("volumes")
  /\ UNCHANGED <<part4, group, vol, keystore, at, memory, keys, cuts>>

CreateVolume ==
  /\ pc = "volumes"
  /\ IF Volumes[n] \in SizedByRootfs /\ ~arts THEN UNCHANGED vol
     ELSE vol' = [vol EXCEPT ![Volumes[n]] = Plain("junk")]
  /\ NextOf(11, "keystore")
  /\ UNCHANGED <<part4, group, keystore, boot, at, memory, keys, cuts>>

FormatKeystore ==
  /\ pc = "keystore"
  /\ keystore' = [fs |-> TRUE, verity |-> "none", key |-> 0]
  /\ Go("verity")
  /\ UNCHANGED <<part4, group, vol, boot, at, memory, keys, cuts>>

CopyVerity ==
  /\ pc = "verity"
  /\ keystore' = [keystore EXCEPT !.verity = IF arts THEN "whole" ELSE "none"]
  /\ Go("rootfs")
  /\ UNCHANGED <<part4, group, vol, boot, at, memory, keys, cuts>>

WriteRootfs ==
  /\ pc = "rootfs"
  /\ IF arts THEN vol' = [vol EXCEPT !["pvsn_rootfs"] = Plain("data")] ELSE UNCHANGED vol
  /\ Go("format")
  /\ UNCHANGED <<part4, group, keystore, boot, at, memory, keys, cuts>>

FormatVolume ==
  /\ pc = "format"
  /\ vol' = [vol EXCEPT ![Formatted[n]] = Plain("fs")]
  /\ NextOf(3, IF at = "host" THEN "rename" ELSE "fitimages")
  /\ UNCHANGED <<part4, group, keystore, boot, at, memory, keys, cuts>>

(* copy_fitimage, first for p2 and then for p1. *)
BootPartition == IF n = 1 THEN "b" ELSE "a"
CopyFitimage ==
  /\ pc = "fitimages"
  /\ IF arts THEN boot' = [boot EXCEPT ![BootPartition].deploy = "whole"] ELSE UNCHANGED boot
  /\ NextOf(2, "mount")
  /\ UNCHANGED <<part4, group, vol, keystore, at, memory, keys, cuts>>

(* The group gets its name last; then the card goes into the device. *)
RenameGroup ==
  /\ pc = "rename"
  /\ group' = "hydralvm"
  /\ at' = "device" /\ Go("off")
  /\ UNCHANGED <<part4, vol, keystore, boot, memory, keys, cuts>>

(* verify_mount_rootfs and the other mounts; without a root fs init fails.  *)
RootfsVerified(l, k) == keystore.fs /\ keystore.verity = "whole" /\ vol[l] = [what |-> "data", key |-> k]

MountForProduction ==
  /\ pc = "mount"
  /\ Go(IF RootfsVerified("pvsn_rootfs", 0) THEN "production" ELSE "panic")
  /\ UNCHANGED <<card, at, memory, keys, cuts>>

(* The production software fills the volumes, then puts the field fitImage *)
(* in place as finalize_fitimage does, slot b's before slot a's.            *)
Produce ==
  /\ pc = "production"
  /\ \E l \in {"pvsn_userdata", "pvsn_provisioning", "pvsn_datastore"} :
       vol[l] = Plain("fs") /\ vol' = [vol EXCEPT ![l] = Plain("data")]
  /\ UNCHANGED <<part4, group, keystore, boot, at, pc, n, memory, keys, cuts>>

Produced == \A i \in 1 .. 3 : vol[Formatted[i]] = Plain("data")

finalize_fitimage(s) ==
  /\ boot[s].deploy # "none"
  /\ boot' = [boot EXCEPT ![s] =
       [fit |-> IF boot[s].deploy = "whole" THEN "field" ELSE "torn", deploy |-> "none"]]

Finalize ==
  /\ pc = "production" /\ Produced
  /\ \/ finalize_fitimage("b")
     \/ boot["b"].deploy = "none" /\ finalize_fitimage("a")
  /\ UNCHANGED <<part4, group, vol, keystore, at, pc, n, memory, keys, cuts>>

LeaveProduction ==
  /\ pc = "production"
  /\ boot["a"].fit # "provisioning"
  /\ Go("off")
  /\ UNCHANGED <<card, at, memory, keys, cuts>>

-----------------------------------------------------------------------------
(* U-Boot starts the fitImage of a slot; memory is empty then.             *)
PowerOn ==
  /\ pc = "off"
  /\ \E s \in BootSlots :
       /\ slot' = s
       /\ Go(CASE boot[s].fit = "provisioning" -> "vgs"
            [] boot[s].fit = "field" -> "enabled"
            [] OTHER -> "panic")
  /\ arts' = FALSE /\ ring' = 0
  /\ UNCHANGED <<card, at, keys, cuts>>

(* The encryption runs as long as the first preparation volume is there.   *)
SlipLastVolume == Exists("pvsn_datastore")
hiposencrypt_enabled == Exists("pvsn_rootfs")

CheckEnabled ==
  /\ pc = "enabled"
  /\ Go(IF hiposencrypt_enabled THEN "key" ELSE "open")
  /\ UNCHANGED <<card, at, memory, keys, cuts>>

(* Every run creates a key of its own; without the keystore there is none. *)
SlipKeepsKey(k) == keystore' = [keystore EXCEPT !.key = IF @ = 0 THEN k ELSE @]
SlipNextKey(k) == keystore' = [keystore EXCEPT !.key = k + 1]
StoreKey(k) == keystore' = [keystore EXCEPT !.key = k]

CreateKey ==
  /\ pc = "key" /\ keys < MaxKeys
  /\ IF keystore.fs
     THEN StoreKey(keys + 1) /\ ring' = keys + 1 /\ keys' = keys + 1
     ELSE UNCHANGED <<keystore, ring, keys>>
  /\ Go("copy")
  /\ UNCHANGED <<part4, group, vol, boot, at, slot, arts, cuts>>

(* encrypt_and_populate formats its target before it copies; without its   *)
(* source it leaves an empty file system.  encrypt_and_clone copies blocks. *)
(* Without a key there is no device to copy to.                             *)
Copied(t) ==
  IF ring = 0 THEN vol[t]
  ELSE IF t # "rootfs_a" /\ ~Exists(Source[t]) THEN [what |-> "fs", key |-> ring]
  ELSE IF ~Exists(Source[t]) THEN vol[t]
  ELSE [what |-> vol[Source[t]].what, key |-> ring]

Encrypt ==
  /\ pc = "copy"
  /\ vol' = [vol EXCEPT ![Targets[n]] = Copied(Targets[n])]
  /\ NextOf(5, "remove")
  /\ UNCHANGED <<part4, group, keystore, boot, at, memory, keys, cuts>>

RemoveVolume ==
  /\ pc = "remove"
  /\ vol' = [vol EXCEPT ![Removed[n]] = Plain("absent")]
  /\ NextOf(4, "open")
  /\ UNCHANGED <<part4, group, keystore, boot, at, memory, keys, cuts>>

(* hiposmount: keystore, signature and key.  Only slot a has artifacts.    *)
(* A key that is not in the keystore leaves the keyring as it is.          *)
ImportedKey == IF keystore.key = 0 THEN ring ELSE keystore.key

OpenKeystore ==
  /\ pc = "open"
  /\ IF keystore.fs /\ keystore.verity = "whole" /\ slot = "a"
     THEN ring' = ImportedKey /\ Go("rootfs_mount")
     ELSE UNCHANGED ring /\ Go("panic")
  /\ UNCHANGED <<card, at, slot, arts, keys, cuts>>

MountRootfs ==
  /\ pc = "rootfs_mount"
  /\ Go(IF RootfsVerified(Rootfs(slot), ring) THEN "running" ELSE "panic")
  /\ UNCHANGED <<card, at, memory, keys, cuts>>

Reboot ==
  /\ pc \in {"production", "running", "panic"}
  /\ Go("off")
  /\ UNCHANGED <<card, at, memory, keys, cuts>>

(* What a command leaves when it is cut off.                                *)
Interrupted ==
  \/ UNCHANGED card
  \/ /\ pc = "verity" /\ arts
     /\ keystore' = [keystore EXCEPT !.verity = "part"]
     /\ UNCHANGED <<part4, group, vol, boot>>
  \/ /\ pc = "rootfs" /\ arts
     /\ vol' = [vol EXCEPT !["pvsn_rootfs"] = Plain("part")]
     /\ UNCHANGED <<part4, group, keystore, boot>>
  \/ /\ pc = "fitimages" /\ arts
     /\ boot' = [boot EXCEPT ![BootPartition].deploy = "part"]
     /\ UNCHANGED <<part4, group, vol, keystore>>
  \/ /\ pc = "key" /\ keystore.fs
     /\ keystore' = [keystore EXCEPT !.key = 0]
     /\ UNCHANGED <<part4, group, vol, boot>>
  \/ /\ pc = "copy" /\ ring # 0
     /\ vol' = [vol EXCEPT ![Targets[n]] = [what |-> "part", key |-> ring]]
     /\ UNCHANGED <<part4, group, keystore, boot>>

PowerCut ==
  /\ pc \notin {"off", "idle"} /\ cuts < MaxCuts
  /\ cuts' = cuts + 1
  /\ Go(IF at = "host" THEN "idle" ELSE "off")
  /\ Interrupted
  /\ UNCHANGED <<at, memory, keys>>

Preparation == CleanCard \/ CopyArtifacts \/ CreatePhysicalVolume \/ CreateGroup \/ WriteBoot
  \/ CreateVolume \/ FormatKeystore \/ CopyVerity \/ WriteRootfs \/ FormatVolume
  \/ CopyFitimage \/ RenameGroup
Production == CheckGroup \/ MountForProduction \/ Produce \/ Finalize \/ LeaveProduction
Field == CheckEnabled \/ CreateKey \/ Encrypt \/ RemoveVolume \/ OpenKeystore \/ MountRootfs

Next == Preparation \/ Production \/ PowerOn \/ Field \/ Reboot \/ PowerCut
Spec == Init /\ [][Next]_vars

(* Scripts run to their end, an aborted preparation is started again, the  *)
(* production does its work although it may reboot, and a device is        *)
(* switched on again; U-Boot does not keep to slot b for ever, which has   *)
(* no firmware yet.                                                         *)
FairSpec ==
  /\ Spec
  /\ WF_vars(Preparation \/ CheckGroup \/ MountForProduction \/ PowerOn \/ Field)
  /\ SF_vars(PowerOn /\ slot' = "a")
  /\ SF_vars(Produce \/ Finalize \/ LeaveProduction)
  /\ WF_vars(pc = "panic" /\ Reboot)

-----------------------------------------------------------------------------
(* Type invariant of the card and of the scripts' state. *)
TypeOK ==
  /\ part4 \in {"blank", "artifacts", "pv"}
  /\ group \in {"none", "hydralvm_provisioning", "hydralvm"}
  /\ vol \in [LVs -> Content]
  /\ keystore \in [fs : BOOLEAN, verity : {"none", "part", "whole"}, key : 0 .. MaxKeys]
  /\ boot \in [Slots -> [fit : {"none", "provisioning", "field", "torn"},
                         deploy : {"none", "part", "whole"}]]
  /\ at \in {"host", "device"}
  /\ pc \in {"idle", "group", "boot", "volumes", "keystore", "verity", "rootfs", "format",
             "fitimages", "rename", "off", "vgs", "artifacts", "pv", "mount", "production",
             "enabled", "key", "copy", "remove", "open", "rootfs_mount", "running", "panic"}
  /\ n \in 1 .. 11
  /\ slot \in Slots /\ arts \in BOOLEAN
  /\ ring \in 0 .. MaxKeys /\ keys \in 0 .. MaxKeys
  /\ cuts \in 0 .. MaxCuts

Kept(t) == vol[Source[t]] = Plain("data") \/ vol[t] = [what |-> "data", key |-> keystore.key]

(* From the moment the field fitImage is in place, what production put on  *)
(* a volume is there, in the preparation volume or encrypted with the      *)
(* stored key: hiposencrypt may be cut off anywhere and start again with a  *)
(* new key.                                                                 *)
NothingLost == boot["a"].fit = "field" => \A i \in 1 .. 5 : Kept(Targets[i])

(* The field system runs only with a signed and verified root fs, and then *)
(* its other volumes hold data under the key that opened the root fs.      *)
MountsWhatWasSigned ==
  pc = "running" =>
    /\ keystore.verity = "whole" /\ ring = keystore.key /\ ring # 0
    /\ \A l \in {Rootfs(slot), Userdata(slot), "datastore", "provisioning"} :
         vol[l] = [what |-> "data", key |-> ring]

(* A card whose group is there is in the state that sd-preparation leaves: *)
(* "this will run when sd-img was used - create the same setup as          *)
(* sd-preparation" (hiposprovisioning:151).                                 *)
GroupMeansPrepared ==
  pc = "mount" =>
    /\ \A l \in LVs : Exists(l)
    /\ RootfsVerified("pvsn_rootfs", 0)
    /\ \A i \in 1 .. 3 : vol[Formatted[i]].what \in {"fs", "data"}
    /\ boot["a"].deploy = "whole"

(* Every card that hipos-prepare-sd.sh prepares ends up in a device that   *)
(* boots into the field system again and again, whenever power is cut.     *)
RunsInField == at = "host" => []<>(pc = "running")
=============================================================================
