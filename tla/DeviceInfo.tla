----------------------------- MODULE DeviceInfo -----------------------------
(***************************************************************************)
(* hipos-device-info.sh, the service that copies the identity of the       *)
(* device from the board controller to the root file system at every boot: *)
(* the file DEVID_FILE, the flag file hipos-device.<type> that systemd     *)
(* conditions look for, the host name, and the second name of DEVID_FILE   *)
(* in /etc/hipos.                                                          *)
(*                                                                         *)
(* An identity is its device and its serial; "" is a line that is not      *)
(* there, and "cut" the value of a line that a power cut ended early.      *)
(***************************************************************************)
EXTENDS Integers

CONSTANTS
  Identities,   \* what the board controller may hold
  MaxChanges,   \* bound: identities that are written to the controller
  MaxCuts       \* bound: power cuts

Devices == {"recorder", "monitor"}
Dummy == "dummy"                          \* 4080-0-00000, of the production
ValidSerials == {"s1", "s2", Dummy}
Serials == ValidSerials \cup {"bad"}
Identity == [device : Devices \cup {"", "cut"}, serial : Serials \cup {"", "cut"}]
Empty == [device |-> "", serial |-> ""]

ASSUME DeviceInfoAssumption ==
  /\ Identities \subseteq Identity \ {Empty}
  /\ MaxChanges \in Nat /\ MaxCuts \in Nat

VARIABLES
  bctrl,      \* the controller's file: an identity, or NoFile
  sorted,     \* that file is sorted and has no line twice
  real,       \* DEVID_FILE: /etc/hydraip-devid
  conf,       \* /etc/hipos/hipos-devid
  flags,      \* the types with a file /etc/hipos/hipos-device.<type>
  hostname,   \* what is in /etc/hostname
  pc,         \* where the script is
  tmp,        \* TMP_DEVID_FILE
  shell,      \* the shell variables "device" and "serial"
  before,     \* history: DEVID_FILE when the script started
  copied,     \* history: a mv has put a new file in the place of the old layout's link
  changes, cuts

disk == <<real, conf, flags, hostname>>
controller == <<bctrl, sorted, changes>>
run == <<tmp, shell, before>>
vars == <<bctrl, sorted, real, conf, flags, hostname, pc, tmp, shell, before,
          copied, changes, cuts>>

NoFile == [device |-> "none", serial |-> "none"]
File(i) == [kind |-> "file", info |-> i]
Link == [kind |-> "link", info |-> Empty]
Absent == [kind |-> "none", info |-> Empty]

(* test -e and the contents of DEVID_FILE, through the link of the old layout. *)
DevId == IF real.kind = "link" THEN conf ELSE real
Exists == DevId.kind = "file"
Content == IF Exists THEN DevId.info ELSE NoFile

serial_valid(s) == s \in ValidSerials

(* A file is sourced: the lines it has set their variables. *)
Sourced(sh, i) ==
  [device |-> IF i.device \in {"", "none"} THEN sh.device ELSE i.device,
   serial |-> IF i.serial \in {"", "none"} THEN sh.serial ELSE i.serial]

(* What a power cut may leave of a file while it is written: the sorted     *)
(* lines up to some place.                                                  *)
Torn(i) ==
  {Empty, [device |-> "cut", serial |-> ""], [device |-> i.device, serial |-> ""],
   [device |-> i.device, serial |-> "cut"]}

-----------------------------------------------------------------------------
(* A new root file system, one that has been in use, and one of the layout *)
(* in which /etc/hydraip-devid is a link.                                  *)
Init ==
  /\ bctrl \in Identities \cup {NoFile}
  /\ sorted \in BOOLEAN
  /\ \/ real = Absent /\ conf = Absent /\ flags = {}
     \/ \E i \in Identities :
          /\ flags = {IF i.device = "" THEN "unknown" ELSE i.device}
          /\ \/ real = File(i) /\ conf = Link
             \/ real = Link /\ conf = File(i)
  /\ copied = FALSE
  /\ hostname \in {"none", "hikirk", Dummy}
  /\ pc = "off"
  /\ tmp = NoFile
  /\ shell = Empty
  /\ before = Content
  /\ changes = 0 /\ cuts = 0

Boot ==
  /\ pc = "off"
  /\ pc' = "fetch"
  /\ tmp' = NoFile /\ shell' = Empty /\ before' = Content
  /\ UNCHANGED <<disk, controller, copied, cuts>>

(* fetch_info: the controller answers with its file, or there is none. *)
Fetch ==
  /\ pc = "fetch" /\ bctrl # NoFile
  /\ tmp' = bctrl
  /\ pc' = IF sorted THEN "compare" ELSE "fix"
  /\ UNCHANGED <<disk, controller, shell, before, copied, cuts>>

SlipTouch == real' = File(Empty) /\ UNCHANGED conf
Touched ==
  IF Exists THEN UNCHANGED <<real, conf>>
  ELSE IF real.kind = "link" THEN conf' = File(Empty) /\ UNCHANGED real
  ELSE real' = File(Empty) /\ UNCHANGED conf

FetchFails ==
  /\ pc = "fetch"
  /\ Touched
  /\ pc' = "source"
  /\ UNCHANGED <<controller, flags, hostname, run, copied, cuts>>

(* "Fix dublicated entries": the sorted file is written back, if that works. *)
FixDuplicates ==
  /\ pc = "fix"
  /\ sorted' \in BOOLEAN
  /\ pc' = "compare"
  /\ UNCHANGED <<bctrl, changes, disk, run, copied, cuts>>

(* Both files are sourced when the controller's serial is no good, so that *)
(* a valid one of the old file is preferred.                               *)
SlipTrustsController(sh) == ~Exists \/ tmp # Content
Replaces(sh) == ~Exists \/ (tmp # Content /\ (serial_valid(tmp.serial) \/ ~serial_valid(sh.serial)))

Compare ==
  /\ pc = "compare"
  /\ LET fetched == Sourced(shell, tmp)
         both == IF serial_valid(fetched.serial) THEN fetched ELSE Sourced(fetched, Content)
     IN  /\ shell' = both
         /\ pc' = IF Replaces(both) THEN "move" ELSE "source"
  /\ UNCHANGED <<disk, controller, tmp, before, copied, cuts>>

(* mv from the file system of /tmp: the old name goes, the new file is filled. *)
MoveUnlink ==
  /\ pc = "move"
  /\ real' = Absent
  /\ copied' = (copied \/ real.kind = "link")
  /\ pc' = "copy"
  /\ UNCHANGED <<conf, flags, hostname, controller, run, cuts>>

MoveCopy ==
  /\ pc = "copy"
  /\ real' = File(tmp)
  /\ pc' = "source"
  /\ UNCHANGED <<conf, flags, hostname, controller, run, copied, cuts>>

SourceFile ==
  /\ pc = "source"
  /\ shell' = Sourced(shell, Content)
  /\ pc' = "type"
  /\ UNCHANGED <<disk, controller, tmp, before, copied, cuts>>

(* update_device_type: the new flag first, then the others go one by one. *)
Type(sh) == IF sh.device = "" THEN "unknown" ELSE sh.device

TouchType ==
  /\ pc = "type"
  /\ flags' = flags \cup {Type(shell)}
  /\ pc' = "prune"
  /\ UNCHANGED <<real, conf, hostname, controller, run, copied, cuts>>

SlipKeepsUnknown == flags \ {Type(shell), "unknown"}
Others == flags \ {Type(shell)}

RemoveType ==
  /\ pc = "prune"
  /\ \E f \in Others : flags' = flags \ {f}
  /\ UNCHANGED <<real, conf, hostname, pc, controller, run, copied, cuts>>

Pruned ==
  /\ pc = "prune" /\ Others = {}
  /\ pc' = "hostname"
  /\ UNCHANGED <<disk, controller, run, copied, cuts>>

(* update_hostname: the shell empties the file before echo writes to it. *)
Defaults == {"none", "hikirk", Dummy}

TruncateHostname ==
  /\ pc = "hostname" /\ serial_valid(shell.serial) /\ hostname \in Defaults
  /\ hostname' = ""
  /\ pc' = "echo"
  /\ UNCHANGED <<real, conf, flags, controller, run, copied, cuts>>

KeepHostname ==
  /\ pc = "hostname" /\ ~(serial_valid(shell.serial) /\ hostname \in Defaults)
  /\ pc' = "real"
  /\ UNCHANGED <<disk, controller, run, copied, cuts>>

WriteHostname ==
  /\ pc = "echo"
  /\ hostname' = shell.serial
  /\ pc' = "real"
  /\ UNCHANGED <<real, conf, flags, controller, run, copied, cuts>>

(* The end of the script: "'real' file is /etc/hydraip-devid." *)
SlipSwapped == conf' = real /\ real' = Absent
RealFile == real' = conf /\ conf' = Absent

MakeReal ==
  /\ pc = "real"
  /\ IF real.kind = "link" THEN RealFile ELSE UNCHANGED <<real, conf>>
  /\ pc' = "link"
  /\ UNCHANGED <<flags, hostname, controller, run, copied, cuts>>

MakeLink ==
  /\ pc = "link"
  /\ conf' = IF conf.kind = "none" THEN Link ELSE conf
  /\ pc' = "done"
  /\ UNCHANGED <<real, flags, hostname, controller, run, copied, cuts>>

-----------------------------------------------------------------------------
Reboot ==
  /\ pc = "done"
  /\ pc' = "off"
  /\ UNCHANGED <<disk, controller, run, copied, cuts>>

(* A service technician or the production writes the controller's file. *)
Program ==
  /\ pc \in {"off", "done"} /\ changes < MaxChanges
  /\ bctrl' \in Identities /\ sorted' \in BOOLEAN
  /\ changes' = changes + 1
  /\ UNCHANGED <<disk, pc, run, copied, cuts>>

PowerCut ==
  /\ pc # "off" /\ cuts < MaxCuts
  /\ IF pc = "copy" THEN real' \in {Absent} \cup {File(t) : t \in Torn(tmp)}
                    ELSE UNCHANGED real
  /\ pc' = "off"
  /\ cuts' = cuts + 1
  /\ UNCHANGED <<conf, flags, hostname, controller, run, copied>>

Script ==
  \/ Fetch \/ FetchFails \/ FixDuplicates \/ Compare \/ MoveUnlink \/ MoveCopy
  \/ SourceFile \/ TouchType \/ RemoveType \/ Pruned \/ TruncateHostname
  \/ KeepHostname \/ WriteHostname \/ MakeReal \/ MakeLink

Next == Boot \/ Script \/ Reboot \/ Program \/ PowerCut
Spec == Init /\ [][Next]_vars

(* systemd starts the service in every boot, and the script does not wait  *)
(* for anything.                                                           *)
FairSpec == Spec /\ WF_vars(Boot) /\ WF_vars(Script)

-----------------------------------------------------------------------------
(* Type invariant of the controller, the files and the script. *)
TypeOK ==
  /\ bctrl \in Identity \cup {NoFile} /\ sorted \in BOOLEAN
  /\ real \in [kind : {"none", "file", "link"}, info : Identity]
  /\ conf \in [kind : {"none", "file", "link"}, info : Identity]
  /\ flags \subseteq Devices \cup {"unknown", "cut"}
  /\ hostname \in ValidSerials \cup {"none", "hikirk", ""}
  /\ pc \in {"off", "fetch", "fix", "compare", "move", "copy", "source", "type", "prune",
             "hostname", "echo", "real", "link", "done"}
  /\ tmp \in Identity \cup {NoFile} /\ before \in Identity \cup {NoFile}
  /\ shell \in Identity
  /\ copied \in BOOLEAN /\ changes \in 0 .. MaxChanges /\ cuts \in 0 .. MaxCuts

(* "An update is not executed if the serial number from BCC is invalid but *)
(* the info on local root is valid" (hipos-device-info.sh:6): the file     *)
(* that the script found is still there when it ends.                      *)
LocalKept ==
  pc = "done" /\ serial_valid(before.serial) /\ ~serial_valid(tmp.serial) => Content = before

(* Exactly one flag file is left: services of two types never start in one *)
(* boot after the script is done, and it is the type in DEVID_FILE.        *)
OneType ==
  pc = "done" =>
    /\ \E f \in flags : flags = {f}
    /\ Content.device # "" => flags = {Content.device}

(* DEVID_FILE is a file and its second name leads to it, on root file       *)
(* systems of either layout and whichever run was cut off between the two   *)
(* steps that turn the old layout round.  Only where a new identity was     *)
(* moved over the link of the old layout the second name stays an old copy, *)
(* which "test -f" takes for the link (hipos-device-info.sh:173).           *)
SecondName ==
  pc = "done" => real.kind = "file" /\ (conf.kind = "link" \/ (copied /\ conf.kind = "file"))

(* If the controller answers again and again, the file ends up with what   *)
(* the controller has, and stays so through boots in which it is silent.   *)
Answered == pc = "compare"
Settles == []<>Answered => <>[](serial_valid(bctrl.serial) => Content = bctrl)
=============================================================================
