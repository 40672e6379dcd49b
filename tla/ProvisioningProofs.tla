------------------------- MODULE ProvisioningProofs -------------------------
(* Theorems about Provisioning: for any slots, any number of power cuts and *)
(* of keys.                                                                 *)
EXTENDS Provisioning, TLAPS

(* The next command of a list is one of the list. *)
InList ==
  /\ pc = "format" => n \in 1 .. 3
  /\ pc = "copy" => n \in 1 .. 5
  /\ pc = "remove" => n \in 1 .. 4

TypeInv == TypeOK /\ InList

(* The field fitImage is in slot a.  Then no preparation runs any more, and *)
(* the keystore is there.                                                   *)
InField == boot["a"].fit = "field"
Preparing ==
  {"group", "boot", "volumes", "keystore", "verity", "rootfs", "format", "fitimages",
   "rename", "vgs", "artifacts", "pv", "mount"}
SourcesWhole ==
  /\ vol["pvsn_rootfs"] = Plain("data")
  /\ vol["pvsn_userdata"] = Plain("data")
  /\ vol["pvsn_provisioning"] = Plain("data")
  /\ vol["pvsn_datastore"] = Plain("data")
Encrypted(t) == vol[t] = [what |-> "data", key |-> keystore.key]
AllEncrypted ==
  Encrypted("provisioning") /\ Encrypted("datastore") /\ Encrypted("userdata_a")
    /\ Encrypted("userdata_b") /\ Encrypted("rootfs_a")

(* The conjuncts of the inductive invariant.  The preparation is over once *)
(* the field fitImage is there, and slot b is never given a provisioning one. *)
PreparedBefore == InField => pc \notin Preparing /\ keystore.fs
OnlySlotA == boot["b"].fit # "provisioning"
ProductionHasRootfs == pc = "production" => vol["pvsn_rootfs"] = Plain("data") /\ keystore.fs
(* The first volume that is removed tells whether all sources are whole. *)
FirstTellsAll ==
  InField => SourcesWhole \/ (vol["pvsn_rootfs"] = Plain("absent") /\ AllEncrypted)
(* A new key is made only while the sources are whole, and what was copied *)
(* since then is encrypted with it.                                         *)
KeyFromSources == InField /\ pc \in {"key", "copy"} => SourcesWhole
CopiedSoFar ==
  InField /\ pc = "copy" =>
    /\ ring = keystore.key /\ ring # 0
    /\ n > 1 => Encrypted("provisioning")
    /\ n > 2 => Encrypted("datastore")
    /\ n > 3 => Encrypted("userdata_a")
    /\ n > 4 => Encrypted("userdata_b")
(* Nothing is removed before everything is copied. *)
CopiedAll ==
  InField /\ pc = "remove" =>
    AllEncrypted /\ (n > 1 => vol["pvsn_rootfs"] = Plain("absent"))

KeepInv ==
  /\ TypeInv
  /\ PreparedBefore
  /\ OnlySlotA
  /\ ProductionHasRootfs
  /\ FirstTellsAll
  /\ KeyFromSources
  /\ CopiedSoFar
  /\ CopiedAll

(* What MountsWhatWasSigned needs in addition.  A field system in slot a     *)
(* runs on a card that has the field fitImage there.                        *)
FieldPlaces == {"enabled", "key", "copy", "remove", "open", "rootfs_mount", "running"}
FieldFromA == pc \in FieldPlaces /\ slot = "a" => InField
(* The key is in the keystore before the first source is removed. *)
KeyStored ==
  InField /\ (vol["pvsn_rootfs"] = Plain("absent") \/ pc = "remove") => keystore.key # 0
(* The keystore is opened only after that. *)
RemovedBeforeOpen ==
  InField /\ pc \in {"open", "rootfs_mount", "running"} => vol["pvsn_rootfs"] = Plain("absent")
(* The root fs is mounted in slot a only, with the key of the keystore. *)
OpenedWithKey ==
  pc \in {"rootfs_mount", "running"} =>
    slot = "a" /\ keystore.verity = "whole" /\ ring = keystore.key

MountInv == KeepInv /\ FieldFromA /\ KeyStored /\ RemovedBeforeOpen /\ OpenedWithKey

-----------------------------------------------------------------------------
USE ProvisioningAssumption DEF Slots

LEMMA LVsAre ==
  LVs = {"rootfs_a", "rootfs_b", "userdata_a", "userdata_b", "keystore", "provisioning",
         "datastore", "pvsn_rootfs", "pvsn_userdata", "pvsn_provisioning", "pvsn_datastore"}
  BY DEF LVs, Volumes

LEMMA ContentTyped ==
  ASSUME NEW w \in {"absent", "junk", "fs", "part", "data"}, NEW k \in 0 .. MaxKeys
  PROVE  [what |-> w, key |-> k] \in Content /\ Plain(w) \in Content
  BY DEF Content, Plain

LEMMA ZeroKey == 0 \in 0 .. MaxKeys /\ 0 \in 0 .. MaxCuts /\ 1 \in 1 .. 11
  OBVIOUS

LEMMA NoVolumesTyped == NoVolumes \in [LVs -> Content]
  BY ZeroKey, ContentTyped DEF NoVolumes

LEMMA VolumeTyped ==
  ASSUME vol \in [LVs -> Content], NEW l, NEW c \in Content
  PROVE  [vol EXCEPT ![l] = c] \in [LVs -> Content]
  OBVIOUS

LEMMA BootTyped ==
  ASSUME TypeOK, NEW s,
         NEW f \in {"none", "provisioning", "field", "torn"}, NEW d \in {"none", "part", "whole"}
  PROVE  [boot EXCEPT ![s] = [fit |-> f, deploy |-> d]]
           \in [Slots -> [fit : {"none", "provisioning", "field", "torn"},
                          deploy : {"none", "part", "whole"}]]
  BY DEF TypeOK

LEMMA EmptyKeystore ==
  [fs |-> TRUE, verity |-> "none", key |-> 0]
    \in [fs : BOOLEAN, verity : {"none", "part", "whole"}, key : 0 .. MaxKeys]
  OBVIOUS

(* Before the field fitImage is there, only the type is left to show. *)
LEMMA NotInField ==
  ASSUME TypeInv', ~InField', OnlySlotA', ProductionHasRootfs'
  PROVE  KeepInv'
  BY DEF KeepInv, PreparedBefore, FirstTellsAll, KeyFromSources, CopiedSoFar, CopiedAll

LEMMA PreparationType == ASSUME TypeInv, Preparation PROVE TypeInv'
  <1> USE DEF TypeInv, TypeOK, InList, memory, card, Go, NextOf
  <1>1. CASE CleanCard BY <1>1, NoVolumesTyped DEF CleanCard, NoKeystore, NoBoot
  <1>2. CASE CopyArtifacts BY <1>2 DEF CopyArtifacts
  <1>3. CASE CreatePhysicalVolume
    BY <1>3, NoVolumesTyped DEF CreatePhysicalVolume, NoKeystore
  <1>4. CASE CreateGroup BY <1>4 DEF CreateGroup
  <1>5. CASE WriteBoot BY <1>5, BootTyped DEF WriteBoot
  <1>6. CASE CreateVolume
    <2>1. vol' \in [LVs -> Content]
      BY <1>6, ContentTyped, VolumeTyped DEF CreateVolume
    <2>2. pc' \in {"volumes", "keystore"} /\ n' \in 1 .. 11
      BY <1>6 DEF CreateVolume
    <2> QED BY <1>6, <2>1, <2>2 DEF CreateVolume
  <1>7. CASE FormatKeystore
    <2>1. keystore' \in [fs : BOOLEAN, verity : {"none", "part", "whole"}, key : 0 .. MaxKeys]
      BY <1>7, EmptyKeystore DEF FormatKeystore
    <2> QED BY <1>7, <2>1 DEF FormatKeystore
  <1>8. CASE CopyVerity BY <1>8 DEF CopyVerity
  <1>9. CASE WriteRootfs
    <2>1. vol' \in [LVs -> Content]
      BY <1>9, ContentTyped, VolumeTyped DEF WriteRootfs
    <2> QED BY <1>9, <2>1 DEF WriteRootfs
  <1>10. CASE FormatVolume
    <2>1. vol' \in [LVs -> Content]
      BY <1>10, ContentTyped, VolumeTyped DEF FormatVolume
    <2>2. pc' \in {"format", "rename", "fitimages"} /\ n' \in 1 .. 3
      BY <1>10 DEF FormatVolume
    <2> QED BY <1>10, <2>1, <2>2 DEF FormatVolume
  <1>11. CASE CopyFitimage BY <1>11 DEF CopyFitimage, BootPartition
  <1>12. CASE RenameGroup BY <1>12 DEF RenameGroup
  <1> QED BY <1>1, <1>2, <1>3, <1>4, <1>5, <1>6, <1>7, <1>8, <1>9, <1>10, <1>11, <1>12
          DEF Preparation

LEMMA ProductionType == ASSUME TypeInv, Production PROVE TypeInv'
  <1> USE DEF TypeInv, TypeOK, InList, memory, card, Go
  <1>1. CASE CheckGroup BY <1>1 DEF CheckGroup
  <1>2. CASE MountForProduction BY <1>2 DEF MountForProduction
  <1>3. CASE Produce
    <2>1. vol' \in [LVs -> Content]
      BY <1>3, ContentTyped, VolumeTyped DEF Produce
    <2> QED BY <1>3, <2>1 DEF Produce
  <1>4. CASE Finalize
    <2>1. boot' \in [Slots -> [fit : {"none", "provisioning", "field", "torn"},
                               deploy : {"none", "part", "whole"}]]
      BY <1>4, BootTyped DEF Finalize, finalize_fitimage
    <2> QED BY <1>4, <2>1 DEF Finalize
  <1>5. CASE LeaveProduction BY <1>5 DEF LeaveProduction
  <1> QED BY <1>1, <1>2, <1>3, <1>4, <1>5 DEF Production

LEMMA CopiedTyped ==
  ASSUME TypeInv, NEW i \in 1 .. 5
  PROVE  Targets[i] \in LVs /\ Copied(Targets[i]) \in Content
  <1>1. Targets[i] \in LVs /\ Source[Targets[i]] \in LVs
    BY LVsAre DEF Targets, Source
  <1>2. vol[Targets[i]] \in Content /\ vol[Source[Targets[i]]].what \in {"absent", "junk", "fs", "part", "data"}
    BY <1>1 DEF TypeInv, TypeOK, Content
  <1>3. ring \in 0 .. MaxKeys
    BY DEF TypeInv, TypeOK
  <1> QED BY <1>1, <1>2, <1>3, ContentTyped DEF Copied

LEMMA FieldType == ASSUME TypeInv, Field PROVE TypeInv'
  <1> USE DEF TypeInv, TypeOK, InList, memory, card, Go, NextOf
  <1>1. CASE CheckEnabled BY <1>1 DEF CheckEnabled
  <1>2. CASE CreateKey BY <1>2 DEF CreateKey, StoreKey
  <1>3. CASE Encrypt
    <2>1. vol' \in [LVs -> Content]
      BY <1>3, CopiedTyped, VolumeTyped DEF Encrypt
    <2>2. pc' \in {"copy", "remove"} /\ n' \in 1 .. 5 /\ (pc' = "remove" => n' = 1)
      BY <1>3 DEF Encrypt
    <2> QED BY <1>3, <2>1, <2>2 DEF Encrypt
  <1>4. CASE RemoveVolume
    <2>1. vol' \in [LVs -> Content]
      BY <1>4, ContentTyped, VolumeTyped DEF RemoveVolume
    <2>2. pc' \in {"remove", "open"} /\ n' \in 1 .. 4
      BY <1>4 DEF RemoveVolume
    <2> QED BY <1>4, <2>1, <2>2 DEF RemoveVolume
  <1>5. CASE OpenKeystore BY <1>5 DEF OpenKeystore, ImportedKey
  <1>6. CASE MountRootfs BY <1>6 DEF MountRootfs
  <1> QED BY <1>1, <1>2, <1>3, <1>4, <1>5, <1>6 DEF Field

LEMMA PowerOnType == ASSUME TypeInv, PowerOn PROVE TypeInv'
  <1>1. slot' \in Slots /\ pc' \in {"vgs", "enabled", "panic"} /\ n' = 1
    BY DEF PowerOn, Go
  <1>2. UNCHANGED <<card, at, keys, cuts>> /\ arts' = FALSE /\ ring' = 0
    BY DEF PowerOn
  <1>3. TypeOK'
    BY <1>1, <1>2, ZeroKey DEF TypeInv, TypeOK, card
  <1> QED BY <1>1, <1>3 DEF TypeInv, InList

LEMMA RebootType == ASSUME TypeInv, Reboot PROVE TypeInv'
  BY DEF TypeInv, TypeOK, InList, card, memory, Go, Reboot

LEMMA InterruptedType ==
  ASSUME TypeInv, Interrupted
  PROVE  /\ part4' \in {"blank", "artifacts", "pv"}
         /\ group' \in {"none", "hydralvm_provisioning", "hydralvm"}
         /\ vol' \in [LVs -> Content]
         /\ keystore' \in [fs : BOOLEAN, verity : {"none", "part", "whole"}, key : 0 .. MaxKeys]
         /\ boot' \in [Slots -> [fit : {"none", "provisioning", "field", "torn"},
                                 deploy : {"none", "part", "whole"}]]
  <1> USE DEF TypeInv, TypeOK
  <1>1. CASE UNCHANGED card BY <1>1 DEF card
  <1>2. CASE keystore' = [keystore EXCEPT !.verity = "part"] /\ UNCHANGED <<part4, group, vol, boot>>
    BY <1>2
  <1>3. CASE vol' = [vol EXCEPT !["pvsn_rootfs"] = Plain("part")] /\ UNCHANGED <<part4, group, keystore, boot>>
    BY <1>3, ContentTyped, VolumeTyped
  <1>4. CASE boot' = [boot EXCEPT ![BootPartition].deploy = "part"] /\ UNCHANGED <<part4, group, vol, keystore>>
    BY <1>4 DEF BootPartition
  <1>5. CASE keystore' = [keystore EXCEPT !.key = 0] /\ UNCHANGED <<part4, group, vol, boot>>
    BY <1>5
  <1>6. CASE vol' = [vol EXCEPT ![Targets[n]] = [what |-> "part", key |-> ring]]
             /\ UNCHANGED <<part4, group, keystore, boot>>
    BY <1>6, ContentTyped, VolumeTyped
  <1> QED BY <1>1, <1>2, <1>3, <1>4, <1>5, <1>6 DEF Interrupted

LEMMA PowerCutType == ASSUME TypeInv, PowerCut PROVE TypeInv'
  BY InterruptedType DEF TypeInv, TypeOK, InList, memory, Go, PowerCut

LEMMA TypeInit == Init => TypeInv
  <1> SUFFICES ASSUME Init PROVE TypeInv
    OBVIOUS
  <1>2. PICK c \in Cards : IF c = "blank"
       THEN part4 = "blank" /\ boot = NoBoot /\ at = "host" /\ pc = "idle"
       ELSE /\ part4 = "artifacts" /\ at = "device" /\ pc = "off"
            /\ boot = [NoBoot EXCEPT !["a"].fit = "provisioning"]
    BY DEF Init
  <1>3. part4 \in {"blank", "artifacts"} /\ at \in {"host", "device"} /\ pc \in {"idle", "off"}
    BY <1>2
  <1>4. boot = NoBoot \/ boot = [NoBoot EXCEPT !["a"].fit = "provisioning"]
    BY <1>2
  <1>5. boot \in [Slots -> [fit : {"none", "provisioning", "field", "torn"},
                           deploy : {"none", "part", "whole"}]]
    BY <1>4 DEF NoBoot
  <1>6. keystore \in [fs : BOOLEAN, verity : {"none", "part", "whole"}, key : 0 .. MaxKeys]
    BY ZeroKey DEF Init, NoKeystore
  <1>7. vol \in [LVs -> Content]
    BY NoVolumesTyped DEF Init
  <1>8. /\ group \in {"none", "hydralvm_provisioning", "hydralvm"} /\ n \in 1 .. 11
        /\ slot \in Slots /\ arts \in BOOLEAN
        /\ ring \in 0 .. MaxKeys /\ keys \in 0 .. MaxKeys /\ cuts \in 0 .. MaxCuts
    BY ZeroKey DEF Init
  <1> QED BY <1>3, <1>5, <1>6, <1>7, <1>8 DEF TypeInv, TypeOK, InList

LEMMA TypeStep == TypeInv /\ [Next]_vars => TypeInv'
  <1> SUFFICES ASSUME TypeInv, [Next]_vars PROVE TypeInv'
    OBVIOUS
  <1>1. CASE UNCHANGED vars
    BY <1>1 DEF vars, card, memory, TypeInv, TypeOK, InList
  <1>2. CASE Next
    BY <1>2, PreparationType, ProductionType, FieldType, PowerOnType, RebootType, PowerCutType
       DEF Next
  <1> QED BY <1>1, <1>2

(* The card and the scripts keep their types: no command is started for a  *)
(* volume that is not one of the eleven.                                    *)
THEOREM ProvisioningTypeCorrect == Spec => []TypeOK
  <1>1. TypeInv => TypeOK BY DEF TypeInv
  <1> QED BY <1>1, TypeInit, TypeStep, PTL DEF Spec

-----------------------------------------------------------------------------
LEMMA KeepInit == Init => KeepInv
  <1> SUFFICES ASSUME Init PROVE KeepInv
    OBVIOUS
  <1>1. boot = NoBoot \/ boot = [NoBoot EXCEPT !["a"].fit = "provisioning"]
    BY DEF Init
  <1>2. ~InField /\ OnlySlotA /\ pc # "production"
    BY <1>1 DEF Init, NoBoot, InField, OnlySlotA
  <1> QED BY <1>2, TypeInit DEF KeepInv, PreparedBefore, ProductionHasRootfs, FirstTellsAll,
          KeyFromSources, CopiedSoFar, CopiedAll

(* Preparing does not put the field fitImage in place. *)
LEMMA PreparationIsBefore ==
  ASSUME KeepInv, Preparation
  PROVE  ~InField' /\ OnlySlotA' /\ pc' \in Preparing \cup {"off"}
  <1> USE DEF KeepInv, InField, OnlySlotA, PreparedBefore, Preparing, Go, NextOf
  <1>1. CASE CleanCard BY <1>1 DEF CleanCard, NoBoot
  <1>2. CASE CopyArtifacts BY <1>2 DEF CopyArtifacts, card
  <1>3. CASE CreatePhysicalVolume BY <1>3 DEF CreatePhysicalVolume
  <1>4. CASE CreateGroup BY <1>4 DEF CreateGroup
  <1>5. CASE WriteBoot BY <1>5 DEF WriteBoot, TypeInv, TypeOK
  <1>6. CASE CreateVolume BY <1>6 DEF CreateVolume
  <1>7. CASE FormatKeystore BY <1>7 DEF FormatKeystore
  <1>8. CASE CopyVerity BY <1>8 DEF CopyVerity
  <1>9. CASE WriteRootfs BY <1>9 DEF WriteRootfs
  <1>10. CASE FormatVolume BY <1>10 DEF FormatVolume
  <1>11. CASE CopyFitimage BY <1>11 DEF CopyFitimage, BootPartition, TypeInv, TypeOK
  <1>12. CASE RenameGroup BY <1>12 DEF RenameGroup
  <1> QED BY <1>1, <1>2, <1>3, <1>4, <1>5, <1>6, <1>7, <1>8, <1>9, <1>10, <1>11, <1>12
          DEF Preparation

LEMMA PreparationKeeps == ASSUME KeepInv, Preparation PROVE KeepInv'
  <1>1. TypeInv'
    BY PreparationType DEF KeepInv
  <1>2. pc' # "production"
    BY PreparationIsBefore DEF Preparing
  <1> QED BY <1>1, <1>2, PreparationIsBefore, NotInField DEF ProductionHasRootfs

(* The places where only the card matters. *)
LEMMA SameCard ==
  ASSUME KeepInv, TypeInv', UNCHANGED card, NEW p, pc' = p,
         p \notin Preparing, p \notin {"production", "key", "copy", "remove"}
  PROVE  KeepInv'
  BY DEF KeepInv, card, PreparedBefore, OnlySlotA, ProductionHasRootfs, FirstTellsAll,
         KeyFromSources, CopiedSoFar, CopiedAll, InField, SourcesWhole, AllEncrypted, Encrypted

LEMMA FinalizeKeeps == ASSUME KeepInv, Finalize PROVE KeepInv'
  <1> USE DEF KeepInv
  <1>1. TypeInv'
    BY ProductionType DEF Production
  <1>2. SourcesWhole /\ keystore.fs /\ pc = "production"
    BY DEF Finalize, Produced, Formatted, SourcesWhole, ProductionHasRootfs
  <1>3. SourcesWhole' /\ keystore'.fs /\ pc' = "production"
    BY <1>2 DEF Finalize, SourcesWhole
  <1>4. OnlySlotA'
    BY DEF Finalize, finalize_fitimage, OnlySlotA, TypeInv, TypeOK
  <1>5. ProductionHasRootfs' /\ FirstTellsAll' /\ PreparedBefore'
    BY <1>3 DEF ProductionHasRootfs, FirstTellsAll, PreparedBefore, Preparing, SourcesWhole
  <1> QED BY <1>1, <1>3, <1>4, <1>5 DEF KeyFromSources, CopiedSoFar, CopiedAll

LEMMA ProductionKeeps == ASSUME KeepInv, Production PROVE KeepInv'
  <1> USE DEF KeepInv
  <1>1. TypeInv'
    BY ProductionType
  <1>2. CASE CheckGroup
    <2>1. ~InField' /\ OnlySlotA' /\ pc' # "production"
      BY <1>2 DEF CheckGroup, card, Go, InField, OnlySlotA, PreparedBefore, Preparing
    <2> QED BY <1>1, <2>1, NotInField DEF ProductionHasRootfs
  <1>3. CASE MountForProduction
    <2>1. ~InField' /\ OnlySlotA'
      BY <1>3 DEF MountForProduction, card, InField, OnlySlotA, PreparedBefore, Preparing
    <2>2. ProductionHasRootfs'
      BY <1>3 DEF MountForProduction, card, Go, RootfsVerified, ProductionHasRootfs, Plain
    <2> QED BY <1>1, <2>1, <2>2, NotInField
  <1>4. CASE Produce
    <2>1. pc = "production" /\ pc' = "production" /\ boot' = boot /\ keystore' = keystore
      BY <1>4 DEF Produce
    <2>2. vol["pvsn_rootfs"] = Plain("data") /\ vol'["pvsn_rootfs"] = vol["pvsn_rootfs"]
      BY <1>4, LVsAre DEF Produce, ProductionHasRootfs, TypeInv, TypeOK
    <2>3. ~InField
      BY <1>4, <2>2 DEF Produce, FirstTellsAll, SourcesWhole, Plain
    <2>4. ~InField' /\ OnlySlotA' /\ ProductionHasRootfs'
      BY <2>1, <2>2, <2>3 DEF InField, OnlySlotA, ProductionHasRootfs
    <2> QED BY <1>1, <2>4, NotInField
  <1>5. CASE Finalize BY <1>5, FinalizeKeeps
  <1>6. CASE LeaveProduction
    <2>1. UNCHANGED card /\ pc' = "off"
      BY <1>6 DEF LeaveProduction, Go
    <2> QED BY <1>1, <2>1, SameCard DEF Preparing
  <1> QED BY <1>2, <1>3, <1>4, <1>5, <1>6 DEF Production

LEMMA PowerOnKeeps == ASSUME KeepInv, PowerOn PROVE KeepInv'
  <1> USE DEF KeepInv
  <1>1. TypeInv'
    BY PowerOnType
  <1>2. UNCHANGED card /\ pc' \in {"vgs", "enabled", "panic"}
    BY DEF PowerOn, Go
  <1>3. CASE pc' = "vgs"
    <2>1. ~InField
      BY <1>3 DEF PowerOn, Go, OnlySlotA, InField
    <2>2. ~InField' /\ OnlySlotA' /\ ProductionHasRootfs'
      BY <1>2, <1>3, <2>1 DEF card, InField, OnlySlotA, ProductionHasRootfs
    <2> QED BY <1>1, <2>2, NotInField
  <1>4. CASE pc' # "vgs"
    <2>1. pc' \notin Preparing /\ pc' \notin {"production", "key", "copy", "remove"}
      BY <1>2, <1>4 DEF Preparing
    <2> QED BY <1>1, <1>2, <2>1, SameCard
  <1> QED BY <1>3, <1>4

(* The encryption starts only while all sources are whole. *)
LEMMA CheckEnabledKeeps == ASSUME KeepInv, CheckEnabled PROVE KeepInv'
  <1> USE DEF KeepInv
  <1>1. TypeInv'
    BY FieldType DEF Field
  <1>2. UNCHANGED card
    BY DEF CheckEnabled
  <1>3. CASE pc' = "open"
    BY <1>1, <1>2, <1>3, SameCard DEF Preparing
  <1>4. CASE pc' = "key" /\ Exists("pvsn_rootfs")
    <2>1. InField => SourcesWhole
      BY <1>4 DEF FirstTellsAll, Exists, Plain
    <2> QED BY <1>1, <1>2, <1>4, <2>1 DEF card, PreparedBefore, Preparing, OnlySlotA, CheckEnabled,
            ProductionHasRootfs, FirstTellsAll, KeyFromSources, CopiedSoFar, CopiedAll, InField,
            SourcesWhole, AllEncrypted, Encrypted
  <1> QED BY <1>3, <1>4 DEF CheckEnabled, Go, hiposencrypt_enabled

(* A new key leaves what was encrypted before without its key, but the     *)
(* sources are whole.                                                      *)
LEMMA CreateKeyKeeps == ASSUME KeepInv, CreateKey PROVE KeepInv'
  <1> USE DEF KeepInv
  <1>1. TypeInv'
    BY FieldType DEF Field
  <1>2. pc = "key" /\ pc' = "copy" /\ n' = 1 /\ UNCHANGED <<vol, boot>>
    BY DEF CreateKey, Go
  <1>3. OnlySlotA' /\ ProductionHasRootfs'
    BY <1>2 DEF OnlySlotA, ProductionHasRootfs
  <1>4. CASE ~InField
    <2>1. ~InField'
      BY <1>2, <1>4 DEF InField
    <2> QED BY <1>1, <1>3, <2>1, NotInField
  <1>5. CASE InField
    <2>1. SourcesWhole /\ SourcesWhole'
      BY <1>2, <1>5 DEF KeyFromSources, SourcesWhole
    <2>2. keystore.fs
      BY <1>5 DEF PreparedBefore
    <2>3. ring' = keys + 1 /\ keystore' = [keystore EXCEPT !.key = keys + 1]
      BY <2>2 DEF CreateKey, StoreKey
    <2>4. keystore'.fs /\ ring' = keystore'.key /\ ring' # 0
      BY <2>2, <2>3 DEF TypeInv, TypeOK
    <2> QED BY <1>1, <1>2, <1>3, <2>1, <2>4 DEF PreparedBefore, Preparing, FirstTellsAll,
            KeyFromSources, CopiedSoFar, CopiedAll
  <1> QED BY <1>4, <1>5

(* The n-th copy makes the n-th target hold the data under the stored key. *)
LEMMA EncryptKeeps == ASSUME KeepInv, Encrypt PROVE KeepInv'
  <1> USE DEF KeepInv
  <1>1. TypeInv'
    BY FieldType DEF Field
  <1>2. pc = "copy" /\ pc' \in {"copy", "remove"} /\ n \in 1 .. 5 /\ UNCHANGED <<keystore, boot, ring>>
    BY DEF Encrypt, NextOf, Go, memory, TypeInv, InList
  <1>3. OnlySlotA' /\ ProductionHasRootfs'
    BY <1>2 DEF OnlySlotA, ProductionHasRootfs
  <1>4. CASE ~InField
    <2>1. ~InField'
      BY <1>2, <1>4 DEF InField
    <2> QED BY <1>1, <1>3, <2>1, NotInField
  <1>5. CASE InField
    <2>1. SourcesWhole /\ ring = keystore.key /\ ring # 0
      BY <1>2, <1>5 DEF KeyFromSources, CopiedSoFar
    <2>2. \A i \in 1 .. 5 : Copied(Targets[i]) = [what |-> "data", key |-> keystore.key]
      BY <2>1 DEF Copied, Targets, Source, SourcesWhole, Plain, Exists
    <2>3. vol' = [vol EXCEPT ![Targets[n]] = [what |-> "data", key |-> keystore.key]]
      BY <1>2, <2>2 DEF Encrypt
    <2>4. Targets[n] \in {"provisioning", "datastore", "userdata_a", "userdata_b", "rootfs_a"}
      BY <1>2 DEF Targets
    <2>5. SourcesWhole'
      BY <2>1, <2>3, <2>4, LVsAre DEF SourcesWhole, TypeInv, TypeOK
    <2>6. /\ Encrypted("provisioning") \/ n = 1 => Encrypted("provisioning")'
          /\ Encrypted("datastore") \/ n = 2 => Encrypted("datastore")'
          /\ Encrypted("userdata_a") \/ n = 3 => Encrypted("userdata_a")'
          /\ Encrypted("userdata_b") \/ n = 4 => Encrypted("userdata_b")'
          /\ Encrypted("rootfs_a") \/ n = 5 => Encrypted("rootfs_a")'
      BY <1>2, <2>3, LVsAre DEF Encrypted, Targets, TypeInv, TypeOK
    <2>7. CopiedSoFar' /\ CopiedAll'
      BY <1>2, <1>5, <2>1, <2>6 DEF Encrypt, NextOf, Go, CopiedSoFar, CopiedAll, AllEncrypted
    <2>8. PreparedBefore' /\ FirstTellsAll' /\ KeyFromSources'
      BY <1>2, <1>5, <2>5 DEF PreparedBefore, Preparing, FirstTellsAll, KeyFromSources
    <2> QED BY <1>1, <1>3, <2>7, <2>8
  <1> QED BY <1>4, <1>5

(* Once the first source is gone, every target is encrypted. *)
LEMMA RemovedIsEncrypted ==
  ASSUME KeepInv, RemoveVolume, InField
  PROVE  AllEncrypted' /\ vol'["pvsn_rootfs"] = Plain("absent")
  <1> USE DEF KeepInv
  <1>1. pc = "remove" /\ n \in 1 .. 4 /\ UNCHANGED <<keystore, boot>>
    BY DEF RemoveVolume, TypeInv, InList
  <1>2. AllEncrypted /\ (n > 1 => vol["pvsn_rootfs"] = Plain("absent"))
    BY <1>1 DEF CopiedAll
  <1>3. Removed[n] \in {"pvsn_rootfs", "pvsn_userdata", "pvsn_provisioning", "pvsn_datastore"}
        /\ (n = 1 <=> Removed[n] = "pvsn_rootfs")
    BY <1>1 DEF Removed
  <1>4. vol' = [vol EXCEPT ![Removed[n]] = Plain("absent")]
    BY DEF RemoveVolume
  <1>5. AllEncrypted'
    BY <1>1, <1>2, <1>3, <1>4, LVsAre DEF AllEncrypted, Encrypted, TypeInv, TypeOK
  <1>6. vol'["pvsn_rootfs"] = Plain("absent")
    BY <1>1, <1>2, <1>3, <1>4, LVsAre DEF TypeInv, TypeOK
  <1> QED BY <1>5, <1>6

LEMMA RemoveVolumeKeeps == ASSUME KeepInv, RemoveVolume PROVE KeepInv'
  <1> USE DEF KeepInv
  <1>1. TypeInv'
    BY FieldType DEF Field
  <1>2. pc = "remove" /\ pc' \in {"remove", "open"} /\ UNCHANGED <<keystore, boot>>
    BY DEF RemoveVolume, NextOf, Go
  <1>3. OnlySlotA' /\ ProductionHasRootfs'
    BY <1>2 DEF OnlySlotA, ProductionHasRootfs
  <1>4. CASE ~InField
    <2>1. ~InField'
      BY <1>2, <1>4 DEF InField
    <2> QED BY <1>1, <1>3, <2>1, NotInField
  <1>5. CASE InField
    <2>1. AllEncrypted' /\ vol'["pvsn_rootfs"] = Plain("absent")
      BY <1>5, RemovedIsEncrypted
    <2> QED BY <1>1, <1>2, <1>3, <1>5, <2>1 DEF PreparedBefore, Preparing, FirstTellsAll,
            KeyFromSources, CopiedSoFar, CopiedAll, Plain
  <1> QED BY <1>4, <1>5

LEMMA FieldKeeps == ASSUME KeepInv, Field PROVE KeepInv'
  <1>1. TypeInv'
    BY FieldType DEF KeepInv
  <1>2. CASE OpenKeystore
    <2>1. UNCHANGED card /\ pc' \in {"rootfs_mount", "panic"}
      BY <1>2 DEF OpenKeystore, Go
    <2> QED BY <1>1, <2>1, SameCard DEF Preparing
  <1>3. CASE MountRootfs
    <2>1. UNCHANGED card /\ pc' \in {"running", "panic"}
      BY <1>3 DEF MountRootfs, Go
    <2> QED BY <1>1, <2>1, SameCard DEF Preparing
  <1> QED BY <1>2, <1>3, CheckEnabledKeeps, CreateKeyKeeps, EncryptKeeps, RemoveVolumeKeeps DEF Field

LEMMA RebootKeeps == ASSUME KeepInv, Reboot PROVE KeepInv'
  <1>1. TypeInv' /\ UNCHANGED card /\ pc' = "off"
    BY RebootType DEF KeepInv, Reboot, Go
  <1> QED BY <1>1, SameCard DEF Preparing

(* A command that is cut off spoils only what it writes: the keystore's key *)
(* or the target of the copy, and then the sources are whole.               *)
LEMMA PowerCutKeeps == ASSUME KeepInv, PowerCut PROVE KeepInv'
  <1> USE DEF KeepInv
  <1>1. TypeInv'
    BY PowerCutType
  <1>2. pc' \in {"idle", "off"} /\ Interrupted
    BY DEF PowerCut, Go
  <1>3. CASE UNCHANGED card
    <2>1. pc' \notin Preparing /\ pc' \notin {"production", "key", "copy", "remove"}
      BY <1>2 DEF Preparing
    <2> QED BY <1>1, <1>3, <2>1, SameCard
  <1>4. CASE pc \in {"verity", "rootfs", "fitimages"} /\ ~UNCHANGED card
    <2>1. ~InField
      BY <1>4 DEF PreparedBefore, Preparing
    <2>2. ~InField' /\ OnlySlotA'
      BY <1>2, <1>4, <2>1 DEF Interrupted, InField, OnlySlotA, BootPartition, TypeInv, TypeOK
    <2> QED BY <1>1, <1>2, <2>2, NotInField DEF ProductionHasRootfs
  <1>5. CASE pc \in {"key", "copy"} /\ ~UNCHANGED card
    <2>1. UNCHANGED boot /\ keystore'.fs = keystore.fs
      BY <1>2, <1>5 DEF Interrupted, TypeInv, TypeOK
    <2>2. OnlySlotA'
      BY <2>1 DEF OnlySlotA
    <2>3. CASE ~InField
      <3>1. ~InField'
        BY <2>1, <2>3 DEF InField
      <3> QED BY <1>1, <1>2, <2>2, <3>1, NotInField DEF ProductionHasRootfs
    <2>4. CASE InField
      <3>1. SourcesWhole
        BY <1>5, <2>4 DEF KeyFromSources
      <3>2. CASE vol' = vol
        BY <1>1, <1>2, <2>1, <2>2, <2>4, <3>1, <3>2 DEF SourcesWhole, PreparedBefore, Preparing,
           FirstTellsAll, KeyFromSources, CopiedSoFar, CopiedAll, ProductionHasRootfs
      <3>3. CASE pc = "copy" /\ vol' = [vol EXCEPT ![Targets[n]] = [what |-> "part", key |-> ring]]
        <4>1. Targets[n] \in {"provisioning", "datastore", "userdata_a", "userdata_b", "rootfs_a"}
          BY <3>3 DEF Targets, TypeInv, InList
        <4>2. SourcesWhole'
          BY <3>1, <3>3, <4>1, LVsAre DEF SourcesWhole, TypeInv, TypeOK
        <4> QED BY <1>1, <1>2, <2>1, <2>2, <2>4, <4>2 DEF PreparedBefore, Preparing,
             FirstTellsAll, KeyFromSources, CopiedSoFar, CopiedAll, ProductionHasRootfs
      <3> QED BY <1>2, <1>5, <3>2, <3>3 DEF Interrupted, card
    <2> QED BY <2>3, <2>4
  <1> QED BY <1>2, <1>3, <1>4, <1>5 DEF Interrupted

LEMMA KeepStep == KeepInv /\ [Next]_vars => KeepInv'
  <1> SUFFICES ASSUME KeepInv, [Next]_vars PROVE KeepInv'
    OBVIOUS
  <1>1. CASE UNCHANGED vars
    <2>1. TypeInv'
      BY <1>1, TypeStep DEF KeepInv
    <2> QED BY <1>1, <2>1 DEF vars, card, memory, KeepInv, PreparedBefore, OnlySlotA,
            ProductionHasRootfs, FirstTellsAll, KeyFromSources, CopiedSoFar, CopiedAll, InField,
            SourcesWhole, AllEncrypted, Encrypted
  <1>2. CASE Next
    BY <1>2, PreparationKeeps, ProductionKeeps, FieldKeeps, PowerOnKeeps, RebootKeeps, PowerCutKeeps
       DEF Next
  <1> QED BY <1>1, <1>2

(* What production wrote survives the encryption, wherever power fails and *)
(* however often the encryption starts again with a new key.               *)
THEOREM NothingIsLost == Spec => []NothingLost
  <1>1. KeepInv => NothingLost
    BY DEF KeepInv, FirstTellsAll, InField, SourcesWhole, AllEncrypted, Encrypted, NothingLost, Kept,
           Targets, Source
  <1> QED BY <1>1, KeepInit, KeepStep, PTL DEF Spec

-----------------------------------------------------------------------------
(* Outside the field system only the stored key matters. *)
LEMMA NotInFieldPlace ==
  ASSUME KeepInv', KeyStored', pc' \notin FieldPlaces
  PROVE  MountInv'
  BY DEF MountInv, FieldFromA, RemovedBeforeOpen, OpenedWithKey, FieldPlaces

LEMMA MountInit == Init => MountInv
  <1> SUFFICES ASSUME Init PROVE MountInv
    OBVIOUS
  <1>1. pc \in {"idle", "off"} /\ (boot = NoBoot \/ boot = [NoBoot EXCEPT !["a"].fit = "provisioning"])
    BY DEF Init
  <1>2. ~InField
    BY <1>1 DEF NoBoot, InField
  <1> QED BY <1>1, <1>2, KeepInit DEF MountInv, FieldFromA, KeyStored, RemovedBeforeOpen,
          OpenedWithKey, FieldPlaces

(* While the root fs of production is there nothing is asked of the key. *)
LEMMA WholeNeedsNoKey ==
  ASSUME KeepInv', vol'["pvsn_rootfs"] = Plain("data"), pc' \notin FieldPlaces
  PROVE  MountInv'
  <1>1. vol'["pvsn_rootfs"] # Plain("absent") /\ pc' # "remove"
    BY DEF Plain, FieldPlaces
  <1> QED BY <1>1, NotInFieldPlace DEF KeyStored

LEMMA SameCardMounts ==
  ASSUME MountInv, KeepInv', UNCHANGED card, pc' \notin FieldPlaces
  PROVE  MountInv'
  <1>1. KeyStored'
    BY DEF MountInv, KeyStored, FieldPlaces, card, InField
  <1> QED BY <1>1, NotInFieldPlace

LEMMA BeforeFieldMounts ==
  ASSUME MountInv, Preparation \/ Production
  PROVE  MountInv'
  <1>1. KeepInv /\ KeepInv'
    BY PreparationKeeps, ProductionKeeps DEF MountInv
  <1>2. CASE Preparation
    <2>1. ~InField' /\ pc' \notin FieldPlaces
      BY <1>1, <1>2, PreparationIsBefore DEF Preparing, FieldPlaces
    <2> QED BY <1>1, <2>1, NotInFieldPlace DEF KeyStored
  <1>3. CASE CheckGroup \/ MountForProduction \/ LeaveProduction
    <2>1. UNCHANGED card /\ pc' \notin FieldPlaces
      BY <1>3 DEF CheckGroup, MountForProduction, LeaveProduction, Go, FieldPlaces
    <2> QED BY <1>1, <2>1, SameCardMounts
  <1>4. CASE Produce \/ Finalize
    <2>1. pc' = "production"
      BY <1>4 DEF Produce, Finalize
    <2>2. vol'["pvsn_rootfs"] = Plain("data")
      BY <1>1, <2>1 DEF KeepInv, ProductionHasRootfs
    <2> QED BY <1>1, <2>1, <2>2, WholeNeedsNoKey DEF FieldPlaces
  <1> QED BY <1>2, <1>3, <1>4 DEF Production

(* Slot a leads to the field system only with the field fitImage. *)
LEMMA PowerOnMounts == ASSUME MountInv, PowerOn PROVE MountInv'
  <1>1. KeepInv' /\ UNCHANGED card /\ pc' \in {"vgs", "enabled", "panic"}
    BY PowerOnKeeps DEF MountInv, PowerOn, Go
  <1>2. CASE pc' # "enabled"
    BY <1>1, <1>2, SameCardMounts DEF FieldPlaces
  <1>3. CASE pc' = "enabled"
    <2>1. slot' = "a" => InField'
      BY <1>1, <1>3 DEF PowerOn, Go, InField, card
    <2>2. KeyStored'
      BY <1>1, <1>3 DEF MountInv, KeyStored, card, InField
    <2> QED BY <1>1, <1>3, <2>1, <2>2 DEF MountInv, FieldFromA, RemovedBeforeOpen, OpenedWithKey
  <1> QED BY <1>2, <1>3

(* A power cut spoils a key or a target only while the sources are whole. *)
LEMMA PowerCutMounts == ASSUME MountInv, PowerCut PROVE MountInv'
  <1> USE DEF MountInv
  <1>1. KeepInv' /\ Interrupted /\ pc' \in {"idle", "off"} /\ pc' \notin FieldPlaces
    BY PowerCutKeeps DEF PowerCut, Go, FieldPlaces
  <1>2. CASE UNCHANGED card
    BY <1>1, <1>2, SameCardMounts
  <1>3. CASE pc \in {"verity", "rootfs", "fitimages"}
    <2>1. ~InField
      BY <1>3 DEF KeepInv, PreparedBefore, Preparing
    <2>2. ~InField'
      BY <1>1, <1>3, <2>1 DEF Interrupted, InField, card, BootPartition, KeepInv, TypeInv, TypeOK
    <2> QED BY <1>1, <2>2, NotInFieldPlace DEF KeyStored
  <1>4. CASE pc \in {"key", "copy"} /\ ~UNCHANGED card
    <2>1. UNCHANGED boot
      BY <1>1, <1>4 DEF Interrupted
    <2>2. CASE ~InField
      <3>1. ~InField'
        BY <2>1, <2>2 DEF InField
      <3> QED BY <1>1, <3>1, NotInFieldPlace DEF KeyStored
    <2>3. CASE InField
      <3>1. vol["pvsn_rootfs"] = Plain("data")
        BY <1>4, <2>3 DEF KeepInv, KeyFromSources, SourcesWhole
      <3>2. ASSUME pc = "copy" PROVE Targets[n] # "pvsn_rootfs"
        BY <3>2 DEF Targets, KeepInv, TypeInv, InList
      <3>3. vol'["pvsn_rootfs"] = vol["pvsn_rootfs"]
        BY <1>1, <1>4, <3>2, LVsAre DEF Interrupted, KeepInv, TypeInv, TypeOK
      <3> QED BY <1>1, <3>1, <3>3, WholeNeedsNoKey
    <2> QED BY <2>2, <2>3
  <1> QED BY <1>1, <1>2, <1>3, <1>4 DEF Interrupted

(* The field system: key, copies, removal, keystore, root fs. *)
LEMMA FieldMounts == ASSUME MountInv, Field PROVE MountInv'
  <1> USE DEF MountInv
  <1>1. KeepInv' /\ UNCHANGED <<boot, slot>> /\ InField' = InField
    BY FieldKeeps DEF Field, CheckEnabled, CreateKey, Encrypt, RemoveVolume, OpenKeystore, MountRootfs,
                      card, memory, InField
  <1>2. FieldFromA'
    <2>1. pc \in FieldPlaces
      BY DEF Field, CheckEnabled, CreateKey, Encrypt, RemoveVolume, OpenKeystore, MountRootfs, FieldPlaces
    <2> QED BY <1>1, <2>1 DEF FieldFromA
  <1>3. CASE CheckEnabled
    <2>1. UNCHANGED card /\ pc' \in {"key", "open"} /\ (pc' = "open" => ~Exists("pvsn_rootfs"))
      BY <1>3 DEF CheckEnabled, Go, hiposencrypt_enabled
    <2>2. InField /\ pc' = "open" => vol["pvsn_rootfs"] = Plain("absent")
      BY <2>1 DEF KeepInv, FirstTellsAll, SourcesWhole, Exists, Plain
    <2> QED BY <1>1, <1>2, <2>1, <2>2 DEF card, KeyStored, RemovedBeforeOpen, OpenedWithKey
  <1>4. CASE CreateKey
    <2>1. pc = "key" /\ pc' = "copy" /\ vol' = vol
      BY <1>4 DEF CreateKey, Go
    <2>2. InField => vol["pvsn_rootfs"] # Plain("absent")
      BY <2>1 DEF KeepInv, KeyFromSources, SourcesWhole, Plain
    <2> QED BY <1>1, <1>2, <2>1, <2>2 DEF KeyStored, RemovedBeforeOpen, OpenedWithKey
  <1>5. CASE Encrypt
    <2>1. pc = "copy" /\ pc' \in {"copy", "remove"} /\ keystore' = keystore
      BY <1>5 DEF Encrypt, NextOf, Go
    <2>2. InField => keystore.key # 0
      BY <2>1 DEF KeepInv, CopiedSoFar
    <2> QED BY <1>1, <1>2, <2>1, <2>2 DEF KeyStored, RemovedBeforeOpen, OpenedWithKey
  <1>6. CASE RemoveVolume
    <2>1. pc = "remove" /\ pc' \in {"remove", "open"} /\ keystore' = keystore
      BY <1>6 DEF RemoveVolume, NextOf, Go
    <2>2. InField => keystore.key # 0 /\ vol'["pvsn_rootfs"] = Plain("absent")
      BY <1>6, <2>1, RemovedIsEncrypted DEF KeyStored
    <2> QED BY <1>1, <1>2, <2>1, <2>2 DEF KeyStored, RemovedBeforeOpen, OpenedWithKey
  <1>7. CASE OpenKeystore
    <2>1. /\ pc = "open" /\ UNCHANGED card /\ pc' \in {"rootfs_mount", "panic"}
          /\ pc' = "rootfs_mount" => /\ keystore.verity = "whole" /\ slot = "a"
                                     /\ ring' = ImportedKey
      BY <1>7 DEF OpenKeystore, Go
    <2>2. slot = "a" => keystore.key # 0
      BY <2>1 DEF FieldFromA, FieldPlaces, RemovedBeforeOpen, KeyStored
    <2>3. OpenedWithKey'
      BY <1>1, <2>1, <2>2 DEF OpenedWithKey, ImportedKey, card
    <2> QED BY <1>1, <1>2, <2>1, <2>3 DEF card, KeyStored, RemovedBeforeOpen
  <1>8. CASE MountRootfs
    <2>1. pc = "rootfs_mount" /\ UNCHANGED <<card, memory>> /\ pc' \in {"running", "panic"}
      BY <1>8 DEF MountRootfs, Go
    <2> QED BY <1>1, <1>2, <2>1 DEF card, memory, KeyStored, RemovedBeforeOpen, OpenedWithKey
  <1> QED BY <1>3, <1>4, <1>5, <1>6, <1>7, <1>8 DEF Field

LEMMA MountStep == MountInv /\ [Next]_vars => MountInv'
  <1> SUFFICES ASSUME MountInv, [Next]_vars PROVE MountInv'
    OBVIOUS
  <1>1. KeepInv'
    BY KeepStep DEF MountInv
  <1>2. CASE UNCHANGED vars
    BY <1>1, <1>2 DEF vars, card, memory, MountInv, FieldFromA, KeyStored, RemovedBeforeOpen,
                      OpenedWithKey, InField
  <1>3. CASE Reboot
    <2>1. UNCHANGED card /\ pc' \notin FieldPlaces
      BY <1>3 DEF Reboot, Go, FieldPlaces
    <2> QED BY <1>1, <2>1, SameCardMounts
  <1> QED BY <1>2, <1>3, BeforeFieldMounts, PowerOnMounts, PowerCutMounts, FieldMounts DEF Next

(* The field system runs only on what was signed: verified root fs, and the  *)
(* other volumes under the key that opened it, for any number of power cuts  *)
(* and new keys; slot b, booted before slot a is finished, never gets there. *)
THEOREM SignedIsMounted == Spec => []MountsWhatWasSigned
  <1>1. MountInv => MountsWhatWasSigned
    <2> SUFFICES ASSUME MountInv, pc = "running"
                 PROVE  /\ keystore.verity = "whole" /\ ring = keystore.key /\ ring # 0
                        /\ \A l \in {Rootfs(slot), Userdata(slot), "datastore", "provisioning"} :
                             vol[l] = [what |-> "data", key |-> ring]
      BY DEF MountsWhatWasSigned
    <2>1. slot = "a" /\ keystore.verity = "whole" /\ ring = keystore.key
      BY DEF MountInv, OpenedWithKey
    <2>2. InField /\ vol["pvsn_rootfs"] = Plain("absent")
      BY <2>1 DEF MountInv, FieldFromA, FieldPlaces, RemovedBeforeOpen
    <2>3. AllEncrypted /\ keystore.key # 0
      BY <2>2 DEF MountInv, KeepInv, FirstTellsAll, SourcesWhole, Plain, KeyStored
    <2> QED BY <2>1, <2>3 DEF Rootfs, Userdata, AllEncrypted, Encrypted
  <1> QED BY <1>1, MountInit, MountStep, PTL DEF Spec
=============================================================================
