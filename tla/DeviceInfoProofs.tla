-------------------------- MODULE DeviceInfoProofs ---------------------------
(* Theorems about DeviceInfo: for any identities the controller may be given, *)
(* any number of changes to it and any number of power cuts.                 *)
EXTENDS DeviceInfo, TLAPS

(* The places of the script: after DEVID_FILE was sourced for the last time, *)
(* and after the types were pruned.                                          *)
Pruning == {"hostname", "echo", "real", "link", "done"}
Typing == {"type", "prune"} \cup Pruning

(* What the script has fetched, and what its variables hold. *)
Fetching ==
  /\ pc = "fetch" => tmp = NoFile
  /\ pc \in {"fix", "compare", "move", "copy"} => tmp \in Identity
  /\ pc \in {"fetch", "fix", "compare"} => shell = Empty
  /\ pc = "echo" => serial_valid(shell.serial)

(* The link of the old layout leads to a file.  That file is left behind     *)
(* only by the mv that replaces the link.                                   *)
Layout == /\ real.kind = "link" => conf.kind = "file"
          /\ conf.kind = "file" => copied \/ real.kind = "link"

(* The script goes on to the end with a DEVID_FILE. *)
Present ==
  /\ pc = "copy" => real.kind = "none"
  /\ pc \in {"source"} \cup Typing => Exists
  /\ pc \in {"link", "done"} => real.kind = "file"
  /\ pc = "done" => conf.kind # "none"

(* A valid identity is not replaced by one that is not. *)
BeforeKept ==
  pc # "off" /\ serial_valid(before.serial) /\ ~serial_valid(tmp.serial) =>
    Content = before /\ pc \notin {"move", "copy"}

(* The type is the one in DEVID_FILE, if that has one. *)
TypeRead == pc \in Typing => Content.device = "" \/ shell.device = Content.device
FlagsPruned ==
  /\ pc = "prune" => Type(shell) \in flags
  /\ pc \in Pruning => flags = {Type(shell)}

InfoInv ==
  /\ TypeOK
  /\ Fetching
  /\ Layout
  /\ Present
  /\ BeforeKept
  /\ TypeRead
  /\ FlagsPruned

-----------------------------------------------------------------------------
(* Facts about the operators. *)
LEMMA EmptyType == Empty \in Identity
  BY DEF Empty, Identity

LEMMA NoFileFact == NoFile \notin Identity /\ NoFile.device = "none" /\ ~serial_valid(NoFile.serial)
  BY DEF NoFile, Identity, serial_valid, ValidSerials, Serials, Devices, Dummy

LEMMA SourcedType ==
  ASSUME NEW sh \in Identity, NEW f \in Identity \cup {NoFile}
  PROVE  Sourced(sh, f) \in Identity
<1>1. CASE f = NoFile
  BY <1>1 DEF Sourced, NoFile, Identity
<1>2. CASE f \in Identity
  BY <1>2 DEF Sourced, Identity
<1> QED
  BY <1>1, <1>2

(* A line that is there sets its variable; a serial that is not there is none. *)
LEMMA SourcedFact ==
  ASSUME NEW sh \in Identity, NEW f \in Identity
  PROVE  /\ f.device = "" \/ Sourced(sh, f).device = f.device
         /\ serial_valid(f.serial) => Sourced(sh, f).serial = f.serial
         /\ sh = Empty /\ ~serial_valid(f.serial) => ~serial_valid(Sourced(sh, f).serial)
<1>1. f.device # "none"
  BY DEF Identity, Devices
<1>2. \A s \in ValidSerials : s \notin {"", "none"}
  BY DEF ValidSerials, Dummy
<1>3. f.device = "" \/ Sourced(sh, f).device = f.device
  BY <1>1 DEF Sourced
<1>4. serial_valid(f.serial) => Sourced(sh, f).serial = f.serial
  BY <1>2 DEF Sourced, serial_valid
<1>5. Sourced(sh, f).serial \in {sh.serial, f.serial}
  BY DEF Sourced
<1>6. ~serial_valid(Empty.serial)
  BY <1>2 DEF Empty, serial_valid
<1> QED
  BY <1>3, <1>4, <1>5, <1>6

(* The file that DEVID_FILE leads to. *)
LEMMA ContentFact ==
  ASSUME TypeOK
  PROVE  /\ Content \in Identity \cup {NoFile}
         /\ Exists => Content \in Identity
         /\ serial_valid(Content.serial) => Exists
<1>1. DevId.info \in Identity
  BY DEF TypeOK, DevId
<1> QED
  BY <1>1, NoFileFact DEF Content

LEMMA ContentKept ==
  ASSUME UNCHANGED <<real, conf>>
  PROVE  Content' = Content /\ Exists' = Exists
  BY DEF Content, Exists, DevId

(* The types, apart from that of pc. *)
Places ==
  {"off", "fetch", "fix", "compare", "move", "copy", "source", "type", "prune",
   "hostname", "echo", "real", "link", "done"}
Files ==
  /\ real \in [kind : {"none", "file", "link"}, info : Identity]
  /\ conf \in [kind : {"none", "file", "link"}, info : Identity]
  /\ flags \subseteq Devices \cup {"unknown", "cut"}
  /\ hostname \in ValidSerials \cup {"none", "hikirk", ""}
Outside ==
  /\ bctrl \in Identity \cup {NoFile} /\ sorted \in BOOLEAN /\ changes \in 0 .. MaxChanges
  /\ copied \in BOOLEAN /\ cuts \in 0 .. MaxCuts
Variables ==
  tmp \in Identity \cup {NoFile} /\ before \in Identity \cup {NoFile} /\ shell \in Identity

LEMMA TypeParts ==
  /\ TypeOK <=> Files /\ Outside /\ Variables /\ pc \in Places
  /\ TypeOK' <=> Files' /\ Outside' /\ Variables' /\ pc' \in Places
  BY DEF TypeOK, Files, Outside, Variables, Places

LEMMA PartsKept ==
  /\ Files /\ UNCHANGED disk => Files'
  /\ Outside /\ UNCHANGED <<controller, copied, cuts>> => Outside'
  /\ Variables /\ UNCHANGED run => Variables'
<1>1. Files /\ UNCHANGED disk => Files'
  BY DEF Files, disk
<1>2. Outside /\ UNCHANGED <<controller, copied, cuts>> => Outside'
  BY DEF Outside, controller
<1>3. Variables /\ UNCHANGED run => Variables'
  BY DEF Variables, run
<1> QED
  BY <1>1, <1>2, <1>3

-----------------------------------------------------------------------------
LEMMA InitInfo == Init => InfoInv
<1> SUFFICES ASSUME Init PROVE InfoInv
  OBVIOUS
<1>1. bctrl \in Identity \cup {NoFile} /\ \A j \in Identities : j \in Identity
  BY DeviceInfoAssumption DEF Init
<1>2. /\ real \in [kind : {"none", "file", "link"}, info : Identity]
      /\ conf \in [kind : {"none", "file", "link"}, info : Identity]
      /\ Layout /\ copied = FALSE
  <2> DEFINE Kinds == [kind : {"none", "file", "link"}, info : Identity]
  <2>1. /\ Absent \in Kinds /\ Absent.kind = "none"
        /\ Link \in Kinds /\ Link.kind = "link"
        /\ \A j \in Identities : File(j) \in Kinds /\ File(j).kind = "file"
    BY <1>1, EmptyType DEF File, Link, Absent
  <2>2. /\ copied = FALSE
        /\ \/ real = Absent /\ conf = Absent
           \/ \E j \in Identities : \/ real = File(j) /\ conf = Link
                                    \/ real = Link /\ conf = File(j)
    BY DEF Init
  <2> HIDE DEF Kinds
  <2> QED
    BY <2>1, <2>2 DEF Layout, Kinds
<1>3. flags \subseteq Devices \cup {"unknown", "cut"}
  BY <1>1 DEF Init, Identity
<1>4. Content \in Identity \cup {NoFile}
  BY <1>2 DEF Content, DevId
<1>5. /\ 0 \in 0 .. MaxChanges /\ 0 \in 0 .. MaxCuts
      /\ {"none", "hikirk", Dummy} \subseteq ValidSerials \cup {"none", "hikirk", ""}
  BY DeviceInfoAssumption DEF ValidSerials
<1>6. TypeOK
  BY <1>1, <1>2, <1>3, <1>4, <1>5, EmptyType DEF Init, TypeOK
<1> QED
  BY <1>2, <1>6
     DEF Init, InfoInv, Fetching, Present, BeforeKept, TypeRead, FlagsPruned, Typing, Pruning

(* A boot starts over with what is there. *)
LEMMA BootKeeps == ASSUME InfoInv, Boot PROVE InfoInv'
<1>1. Content' = Content /\ Exists' = Exists
  BY ContentKept DEF Boot, disk
<1>2. TypeOK'
  BY ContentFact, EmptyType DEF InfoInv, TypeOK, Boot, disk, controller
<1>3. (Fetching /\ Layout)'
  BY DEF InfoInv, Boot, disk, Fetching, Layout
<1> QED
  BY <1>1, <1>2, <1>3 DEF InfoInv, Boot, Present, BeforeKept, TypeRead, FlagsPruned, Typing, Pruning

(* What the controller answers is compared with the file. *)
LEMMA FetchKeeps == ASSUME InfoInv, Fetch PROVE InfoInv'
<1>1. Content' = Content /\ Exists' = Exists
  BY ContentKept DEF Fetch, disk
<1>2. bctrl \in Identity /\ ~serial_valid(tmp.serial)
  BY NoFileFact DEF InfoInv, TypeOK, Fetch, Fetching
<1>3. TypeOK'
  BY <1>2 DEF InfoInv, TypeOK, Fetch, disk, controller
<1>4. (Fetching /\ Layout)'
  BY <1>2 DEF InfoInv, Fetch, disk, Fetching, Layout
<1> QED
  BY <1>1, <1>2, <1>3, <1>4
     DEF InfoInv, Fetch, Present, BeforeKept, TypeRead, FlagsPruned, Typing, Pruning

(* Without an answer, there is at least an empty file. *)
LEMMA FetchFailsKeeps == ASSUME InfoInv, FetchFails PROVE InfoInv'
<1>1. /\ pc = "fetch" /\ pc' = "source"
      /\ UNCHANGED <<controller, flags, hostname, run, copied, cuts>>
  BY DEF FetchFails
<1>2. CASE Exists
  <2>1. UNCHANGED <<real, conf>>
    BY <1>2 DEF FetchFails, Touched
  <2>2. Content' = Content /\ Exists' = Exists
    BY <2>1, ContentKept
  <2>3. TypeOK'
    BY <1>1, <2>1 DEF InfoInv, TypeOK, controller, run
  <2> QED
    BY <1>1, <1>2, <2>1, <2>2, <2>3
       DEF InfoInv, Fetching, Layout, Present, BeforeKept, TypeRead, FlagsPruned, Typing, Pruning, run
<1>3. CASE ~Exists
  <2>1. real.kind # "link"
    BY <1>3 DEF InfoInv, Layout, Exists, DevId
  <2>2. real' = File(Empty) /\ conf' = conf
    BY <1>3, <2>1 DEF FetchFails, Touched
  <2>3. Exists' /\ real'.kind = "file" /\ real' \in [kind : {"none", "file", "link"}, info : Identity]
    BY <2>2, EmptyType DEF Exists, DevId, File
  <2>4. ~serial_valid(Content.serial)
    BY <1>3, ContentFact DEF InfoInv
  <2>5. ~serial_valid(before.serial) \/ serial_valid(tmp.serial)
    BY <1>1, <2>4 DEF InfoInv, BeforeKept
  <2> QED
    BY <1>1, <2>1, <2>2, <2>3, <2>5
       DEF InfoInv, TypeOK, Fetching, Layout, Present, BeforeKept, TypeRead, FlagsPruned, Typing, Pruning,
           controller, run
<1> QED
  BY <1>2, <1>3

(* Steps that leave the files alone. *)
LEMMA CompareKeeps == ASSUME InfoInv, Compare PROVE InfoInv'
<1> DEFINE fetched == Sourced(shell, tmp)
           both == IF serial_valid(fetched.serial) THEN fetched ELSE Sourced(fetched, Content)
<1>1. /\ pc = "compare" /\ shell' = both /\ pc' = IF Replaces(both) THEN "move" ELSE "source"
      /\ UNCHANGED <<disk, controller, tmp, before, copied, cuts>>
  BY DEF Compare
<1>2. Content' = Content /\ Exists' = Exists
  BY <1>1, ContentKept DEF disk
<1>3. tmp \in Identity /\ shell = Empty /\ shell \in Identity
  BY <1>1 DEF InfoInv, TypeOK, Fetching
<1>4. fetched \in Identity
  BY <1>3, SourcedType
<1>5. both \in Identity
  BY <1>4, ContentFact, SourcedType DEF InfoInv
<1>6. TypeOK'
  BY <1>1, <1>5 DEF InfoInv, TypeOK, disk, controller
<1>7. ASSUME serial_valid(before.serial), ~serial_valid(tmp.serial)
      PROVE  Content = before /\ ~Replaces(both)
  <2>1. Content = before /\ Exists
    BY <1>1, <1>7, ContentFact DEF InfoInv, BeforeKept
  <2>2. ~serial_valid(fetched.serial)
    BY <1>3, <1>7, SourcedFact
  <2>3. Content \in Identity
    BY <2>1, ContentFact DEF InfoInv
  <2>4. Sourced(fetched, Content).serial = Content.serial
    BY <1>4, <1>7, <2>1, <2>3, SourcedFact
  <2>5. serial_valid(both.serial)
    BY <1>7, <2>1, <2>2, <2>4
  <2> QED
    BY <1>7, <2>1, <2>5 DEF Replaces
<1>8. ~Replaces(both) => Exists
  BY DEF Replaces
<1> HIDE DEF both
<1> QED
  BY <1>1, <1>2, <1>3, <1>6, <1>7, <1>8
     DEF InfoInv, Fetching, Layout, Present, BeforeKept, TypeRead, FlagsPruned, Typing, Pruning, disk

(* DEVID_FILE is replaced only by one with a valid serial, or if its own is not. *)
LEMMA MoveKeeps == ASSUME InfoInv, MoveUnlink \/ MoveCopy PROVE InfoInv'
<1>1. CASE MoveUnlink
  <2>1. real' \in [kind : {"none", "file", "link"}, info : Identity] /\ real'.kind = "none"
    BY <1>1, EmptyType DEF MoveUnlink, Absent
  <2>2. /\ pc = "move" /\ pc' = "copy" /\ UNCHANGED <<conf, flags, hostname, controller, run, cuts>>
        /\ copied' = (copied \/ real.kind = "link")
    BY <1>1 DEF MoveUnlink
  <2>3. copied' \in BOOLEAN /\ (conf.kind = "file" => copied' = TRUE)
    BY <2>2 DEF InfoInv, TypeOK, Layout
  <2>4. TypeOK'
    BY <2>1, <2>2, <2>3 DEF InfoInv, TypeOK, controller, run
  <2>5. (Fetching /\ Layout /\ BeforeKept)'
    BY <2>1, <2>2, <2>3 DEF InfoInv, Fetching, Layout, BeforeKept, run
  <2> QED
    BY <2>1, <2>2, <2>4, <2>5 DEF InfoInv, Present, TypeRead, FlagsPruned, Typing, Pruning
<1>2. CASE MoveCopy
  <2>1. tmp \in Identity
    BY <1>2 DEF MoveCopy, InfoInv, Fetching
  <2>2. /\ real' \in [kind : {"none", "file", "link"}, info : Identity] /\ real'.kind = "file"
        /\ Exists'
    BY <1>2, <2>1 DEF MoveCopy, File, Exists, DevId
  <2>3. pc = "copy" /\ pc' = "source" /\ UNCHANGED <<conf, flags, hostname, controller, run, copied, cuts>>
    BY <1>2 DEF MoveCopy
  <2>4. TypeOK'
    BY <2>2, <2>3 DEF InfoInv, TypeOK, controller, run
  <2>5. (Fetching /\ Layout /\ BeforeKept)'
    BY <2>2, <2>3 DEF InfoInv, Fetching, Layout, Present, BeforeKept, run
  <2> QED
    BY <2>2, <2>3, <2>4, <2>5 DEF InfoInv, Present, TypeRead, FlagsPruned, Typing, Pruning
<1> QED
  BY <1>1, <1>2

LEMMA SourceKeeps == ASSUME InfoInv, SourceFile PROVE InfoInv'
<1>1. /\ pc = "source" /\ pc' = "type" /\ shell' = Sourced(shell, Content)
      /\ UNCHANGED <<disk, controller, tmp, before, copied, cuts>>
  BY DEF SourceFile
<1>2. Content' = Content /\ Exists' = Exists
  BY <1>1, ContentKept DEF disk
<1>3. Exists /\ Content \in Identity /\ shell \in Identity
  BY <1>1, ContentFact DEF InfoInv, TypeOK, Present
<1>4. shell' \in Identity /\ (Content.device = "" \/ shell'.device = Content.device)
  BY <1>1, <1>3, SourcedType, SourcedFact
<1>5. TypeOK'
  BY <1>1, <1>4 DEF InfoInv, TypeOK, disk, controller
<1> QED
  BY <1>1, <1>2, <1>3, <1>4, <1>5
     DEF InfoInv, Fetching, Layout, Present, BeforeKept, TypeRead, FlagsPruned, Typing, Pruning, disk

(* The flag of the type is there before any other goes. *)
LEMMA TypeKeeps == ASSUME InfoInv, TouchType \/ RemoveType \/ Pruned PROVE InfoInv'
<1>1. /\ pc \in {"type", "prune"} /\ pc' \in {"prune", "hostname"}
      /\ UNCHANGED <<real, conf, hostname, controller, run, copied, cuts>>
  BY DEF TouchType, RemoveType, Pruned, disk
<1>2. Content' = Content /\ Exists' = Exists
  BY <1>1, ContentKept
<1>3. Type(shell) \in Devices \cup {"unknown", "cut"}
  BY DEF InfoInv, TypeOK, Identity, Type
<1>4. /\ flags' \subseteq flags \cup {Type(shell)} /\ Type(shell) \in flags'
      /\ pc' = "hostname" => flags' = {Type(shell)}
  BY DEF TouchType, RemoveType, Pruned, Others, disk, InfoInv, FlagsPruned
<1>5. TypeOK'
  <2>1. flags' \subseteq Devices \cup {"unknown", "cut"}
    BY <1>3, <1>4 DEF InfoInv, TypeOK
  <2>2. Files' /\ pc' \in Places
    BY <1>1, <2>1, TypeParts DEF InfoInv, Files, Places
  <2> QED
    BY <1>1, <2>2, TypeParts, PartsKept DEF InfoInv
<1>6. Type(shell)' = Type(shell)
  BY <1>1 DEF Type, run
<1> QED
  BY <1>1, <1>2, <1>4, <1>5, <1>6
     DEF InfoInv, Fetching, Layout, Present, BeforeKept, TypeRead, FlagsPruned, Typing, Pruning, run

(* The host name has no part in it. *)
LEMMA HostnameKeeps == ASSUME InfoInv, TruncateHostname \/ KeepHostname \/ WriteHostname PROVE InfoInv'
<1>1. /\ pc \in {"hostname", "echo"} /\ pc' \in {"echo", "real"}
      /\ UNCHANGED <<real, conf, flags, controller, run, copied, cuts>>
  BY DEF TruncateHostname, KeepHostname, WriteHostname, disk
<1>2. Content' = Content /\ Exists' = Exists /\ Type(shell)' = Type(shell)
  BY <1>1, ContentKept DEF Type, run
<1>3. hostname' \in ValidSerials \cup {"none", "hikirk", ""}
  BY DEF TruncateHostname, KeepHostname, WriteHostname, disk, InfoInv, TypeOK, Fetching, serial_valid
<1>4. pc' = "echo" => serial_valid(shell.serial)
  BY DEF TruncateHostname, KeepHostname, WriteHostname
<1>5. TypeOK'
  BY <1>1, <1>3 DEF InfoInv, TypeOK, controller, run
<1> QED
  BY <1>1, <1>2, <1>4, <1>5
     DEF InfoInv, Fetching, Layout, Present, BeforeKept, TypeRead, FlagsPruned, Typing, Pruning, run

(* Turning the layout round keeps the file that the name leads to. *)
LEMMA LinkKeeps == ASSUME InfoInv, MakeReal \/ MakeLink PROVE InfoInv'
<1>1. /\ pc \in {"real", "link"} /\ pc' \in {"link", "done"}
      /\ UNCHANGED <<flags, hostname, controller, run, copied, cuts>>
  BY DEF MakeReal, MakeLink
<1>2. Exists
  BY <1>1 DEF InfoInv, Present, Typing, Pruning
<1>3. /\ real' \in [kind : {"none", "file", "link"}, info : Identity] /\ real'.kind = "file"
      /\ conf' \in [kind : {"none", "file", "link"}, info : Identity]
      /\ DevId' = DevId /\ (conf'.kind = "file" => copied) /\ (pc' = "done" => conf'.kind # "none")
  <2>1. /\ real \in [kind : {"none", "file", "link"}, info : Identity]
        /\ conf \in [kind : {"none", "file", "link"}, info : Identity]
        /\ DevId.kind = "file" /\ (conf.kind = "file" => copied \/ real.kind = "link")
        /\ (pc = "link" => real.kind = "file")
    BY <1>2 DEF Exists, InfoInv, TypeOK, Layout, Present
  <2>2. CASE MakeReal
    <3>1. CASE real.kind = "link"
      BY <2>1, <2>2, <3>1, EmptyType DEF MakeReal, RealFile, DevId, Absent
    <3>2. CASE real.kind # "link"
      BY <2>1, <2>2, <3>2 DEF MakeReal, DevId
    <3> QED
      BY <3>1, <3>2
  <2>3. CASE MakeLink
    BY <2>1, <2>3, EmptyType DEF MakeLink, DevId, Link
  <2> QED
    BY <2>2, <2>3
<1>4. Content' = Content /\ Exists' /\ Type(shell)' = Type(shell)
  BY <1>1, <1>2, <1>3 DEF Content, Exists, Type, run
<1>5. TypeOK'
  BY <1>1, <1>3 DEF InfoInv, TypeOK, controller, run
<1> QED
  BY <1>1, <1>3, <1>4, <1>5
     DEF InfoInv, Fetching, Layout, Present, BeforeKept, TypeRead, FlagsPruned, Typing, Pruning, run

(* The controller's duplicates are fixed while the script waits for nothing. *)
LEMMA FixKeeps == ASSUME InfoInv, FixDuplicates PROVE InfoInv'
<1>1. Content' = Content /\ Exists' = Exists
  BY ContentKept DEF FixDuplicates, disk
<1>2. TypeOK'
  BY DEF InfoInv, TypeOK, FixDuplicates, disk, run
<1> QED
  BY <1>1, <1>2
     DEF InfoInv, FixDuplicates, disk, run, Fetching, Layout, Present, BeforeKept, TypeRead, FlagsPruned,
         Typing, Pruning

(* Reboots, and the technician. *)
LEMMA OutsideKeeps == ASSUME InfoInv, Reboot \/ Program PROVE InfoInv'
<1>1. pc' \in {pc, "off"} /\ UNCHANGED <<disk, run, copied, cuts>>
  BY DEF Reboot, Program
<1>2. bctrl' \in Identity \cup {NoFile} /\ sorted' \in BOOLEAN /\ changes' \in 0 .. MaxChanges
  <2>1. CASE Reboot
    BY <2>1 DEF Reboot, controller, InfoInv, TypeOK
  <2>2. CASE Program
    <3>1. bctrl' \in Identity /\ sorted' \in BOOLEAN
      BY <2>2, DeviceInfoAssumption DEF Program
    <3>2. changes \in 0 .. MaxChanges /\ changes < MaxChanges /\ changes' = changes + 1
      BY <2>2 DEF Program, InfoInv, TypeOK
    <3>3. changes' \in 0 .. MaxChanges
      BY <3>2, DeviceInfoAssumption
    <3> QED
      BY <3>1, <3>3
  <2> QED
    BY <2>1, <2>2
<1>3. Content' = Content /\ Exists' = Exists /\ Type(shell)' = Type(shell)
  BY <1>1, ContentKept DEF disk, run, Type
<1>4. TypeOK'
  <2>1. pc' \in Places
    BY <1>1, TypeParts DEF InfoInv, Places
  <2>2. Outside'
    BY <1>1, <1>2, TypeParts DEF InfoInv, Outside
  <2> QED
    BY <1>1, <2>1, <2>2, TypeParts, PartsKept DEF InfoInv
<1>5. (Fetching /\ Layout /\ BeforeKept)'
  BY <1>1, <1>3 DEF InfoInv, disk, run, Fetching, Layout, BeforeKept
<1>6. (Present /\ TypeRead /\ FlagsPruned)'
  BY <1>1, <1>3 DEF InfoInv, disk, run, Present, TypeRead, FlagsPruned, Typing, Pruning
<1> QED
  BY <1>4, <1>5, <1>6 DEF InfoInv

(* What a power cut leaves of the file is no link. *)
LEMMA PowerCutKeeps == ASSUME InfoInv, PowerCut PROVE InfoInv'
<1>1. real' \in [kind : {"none", "file", "link"}, info : Identity] /\ real'.kind \in {real.kind, "none", "file"}
  <2>1. CASE pc = "copy"
    <3>1. tmp \in Identity
      BY <2>1 DEF InfoInv, Fetching
    <3>2. \A t \in Torn(tmp) : t \in Identity
      <4>1. \A d \in Devices \cup {"", "cut"}, c \in {"", "cut"} : [device |-> d, serial |-> c] \in Identity
        BY DEF Identity
      <4>2. tmp.device \in Devices \cup {"", "cut"}
        BY <3>1 DEF Identity
      <4> QED
        BY <4>1, <4>2, EmptyType DEF Torn
    <3>3. real' = Absent \/ \E t \in Torn(tmp) : real' = File(t)
      BY <2>1 DEF PowerCut
    <3> QED
      BY <3>2, <3>3, EmptyType DEF Absent, File
  <2>2. CASE pc # "copy"
    BY <2>2 DEF PowerCut, InfoInv, TypeOK
  <2> QED
    BY <2>1, <2>2
<1>2. cuts' \in 0 .. MaxCuts
  <2>1. cuts \in 0 .. MaxCuts /\ cuts < MaxCuts /\ cuts' = cuts + 1
    BY DEF PowerCut, InfoInv, TypeOK
  <2> QED
    BY <2>1, DeviceInfoAssumption
<1>3. pc' = "off" /\ UNCHANGED <<conf, flags, hostname, controller, run, copied>>
  BY DEF PowerCut
<1>4. TypeOK'
  BY <1>1, <1>2, <1>3 DEF InfoInv, TypeOK, controller, run
<1>5. Layout'
  <2>1. real' = real \/ (real.kind = "none" /\ real'.kind \in {"none", "file"})
    BY <1>1 DEF PowerCut, InfoInv, Present
  <2> QED
    BY <1>3, <2>1 DEF InfoInv, Layout
<1> QED
  BY <1>1, <1>3, <1>4, <1>5
     DEF InfoInv, Fetching, Layout, Present, BeforeKept, TypeRead, FlagsPruned, Typing, Pruning

LEMMA InfoStep == InfoInv /\ [Next]_vars => InfoInv'
<1> SUFFICES ASSUME InfoInv, [Next]_vars PROVE InfoInv'
  OBVIOUS
<1>1. CASE Boot
  BY <1>1, BootKeeps
<1>2. CASE Script
  BY <1>2, FetchKeeps, FetchFailsKeeps, FixKeeps, CompareKeeps, MoveKeeps, SourceKeeps, TypeKeeps,
     HostnameKeeps, LinkKeeps DEF Script
<1>3. CASE Reboot \/ Program
  BY <1>3, OutsideKeeps
<1>4. CASE PowerCut
  BY <1>4, PowerCutKeeps
<1>5. CASE UNCHANGED vars
  <2>1. Content' = Content /\ Exists' = Exists /\ Type(shell)' = Type(shell)
    BY <1>5, ContentKept DEF vars, Type
  <2>2. TypeOK'
    BY <1>5, TypeParts, PartsKept DEF vars, InfoInv, disk, controller, run
  <2>3. (Fetching /\ Layout /\ BeforeKept)'
    BY <1>5, <2>1 DEF vars, InfoInv, Fetching, Layout, BeforeKept
  <2>4. (Present /\ TypeRead /\ FlagsPruned)'
    BY <1>5, <2>1 DEF vars, InfoInv, Present, TypeRead, FlagsPruned
  <2> QED
    BY <2>2, <2>3, <2>4 DEF InfoInv
<1> QED
  BY <1>1, <1>2, <1>3, <1>4, <1>5 DEF Next

LEMMA InfoAlways == Spec => []InfoInv
  BY InitInfo, InfoStep, PTL DEF Spec

-----------------------------------------------------------------------------
(* The controller's file, the files of the device and the variables of       *)
(* hipos-device-info.sh keep their types.                                    *)
THEOREM DeviceInfoTypeCorrect == Spec => []TypeOK
<1>1. InfoInv => TypeOK
  BY DEF InfoInv
<1> QED
  BY <1>1, InfoAlways, PTL

(* hipos-device-info.sh:6: a valid identity of the root file system is never *)
(* replaced by one of the controller that is not valid.                      *)
THEOREM LocalIsKept == Spec => []LocalKept
<1>1. InfoInv => LocalKept
  BY DEF InfoInv, BeforeKept, LocalKept
<1> QED
  BY <1>1, InfoAlways, PTL

(* update_device_type: when the script is done, there is one flag file, and  *)
(* it is that of the device in DEVID_FILE, whatever power cuts left before.  *)
THEOREM OneTypeIsLeft == Spec => []OneType
<1>1. InfoInv => OneType
  <2> SUFFICES ASSUME InfoInv, pc = "done"
               PROVE  /\ \E f \in flags : flags = {f}
                      /\ Content.device # "" => flags = {Content.device}
    BY DEF OneType
  <2>1. flags = {Type(shell)} /\ (Content.device = "" \/ shell.device = Content.device)
    BY DEF InfoInv, FlagsPruned, TypeRead, Typing, Pruning
  <2> QED
    BY <2>1 DEF Type
<1> QED
  BY <1>1, InfoAlways, PTL

(* The end of hipos-device-info.sh: both names lead to one file, though the  *)
(* old layout is turned round in two steps and power cuts come in between,   *)
(* unless a new identity was moved over the old layout's link.               *)
THEOREM BothNamesLead == Spec => []SecondName
<1>1. InfoInv => SecondName
  BY DEF InfoInv, TypeOK, Layout, Present, SecondName
<1> QED
  BY <1>1, InfoAlways, PTL
=============================================================================
