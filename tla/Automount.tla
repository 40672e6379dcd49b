------------------------------ MODULE Automount ------------------------------
(***************************************************************************)
(* mount.sh of udev-extraconf, which udev runs for every USB block device  *)
(* that is added or removed, on a system with systemd: automount_systemd,  *)
(* rm_dir and the removal.  Around it, as far as the script relies on      *)
(* them, udev, which handles the events of one device one after the other  *)
(* and those of several devices at the same time, and systemd, which hears *)
(* of an event when its handler is over, and mounts without the script     *)
(* waiting for it.                                                         *)
(*                                                                         *)
(* Blacklisted devices, swap and devices of /etc/fstab are left out: the   *)
(* script ends for them before it does anything.  A file system that is    *)
(* busy when it is unmounted is left out as well.                          *)
(***************************************************************************)
EXTENDS Integers, Sequences, FiniteSets

CONSTANTS
  Devs,        \* block devices, all of them with a file system that has files
  Prefixes,    \* the pairs of them in which one name begins with the other
  MaxEvents    \* bound: devices that are plugged, unplugged or triggered

VARIABLES
  present,     \* the device is plugged
  queue,       \* its events that udev has not done with
  pc,          \* where the handler of the first of them is
  unit,        \* its transient mount unit
  known,       \* systemd takes the device for present
  dir,         \* the directory /run/media/<name> is there
  marker,      \* the file /tmp/.automount-<name> is there
  todo,        \* mounts that the handler of a remove event has yet to undo
  files,       \* what is on the medium
  events

handler == <<queue, pc, todo>>
outside == <<present, known, events>>
traces == <<dir, marker, files>>
vars == <<present, queue, pc, unit, known, dir, marker, todo, files, events>>

Init ==
  /\ present = [d \in Devs |-> FALSE]
  /\ queue = [d \in Devs |-> <<>>]
  /\ pc = [d \in Devs |-> "idle"]
  /\ unit = [d \in Devs |-> "none"]
  /\ known = [d \in Devs |-> FALSE]
  /\ dir = [d \in Devs |-> FALSE]
  /\ marker = [d \in Devs |-> FALSE]
  /\ todo = [d \in Devs |-> {}]
  /\ files = [d \in Devs |-> "kept"]
  /\ events = 0

At(d, label) == pc[d] = label
Goto(d, label) == pc' = [pc EXCEPT ![d] = label]
Set(f, d, x) == [f EXCEPT ![d] = x]

-----------------------------------------------------------------------------
(* What happens to a device.  A plug comes when udev and systemd have done *)
(* with the device; an add event is repeated when systemd-udev-trigger, or *)
(* somebody else, asks for it.                                             *)
Event(d, e) ==
  /\ events < MaxEvents /\ events' = events + 1
  /\ queue' = [queue EXCEPT ![d] = Append(@, e)]

Plug(d) ==
  /\ ~present[d] /\ queue[d] = <<>> /\ unit[d] \in {"none", "failed"}
  /\ present' = Set(present, d, TRUE)
  /\ Event(d, "add")
  /\ UNCHANGED <<pc, unit, known, traces, todo>>

Unplug(d) ==
  /\ present[d]
  /\ present' = Set(present, d, FALSE)
  /\ Event(d, "remove")
  /\ UNCHANGED <<pc, unit, known, traces, todo>>

Trigger(d) ==
  /\ present[d]
  /\ Event(d, "add")
  /\ UNCHANGED <<present, pc, unit, known, traces, todo>>

Handle(d) ==
  /\ At(d, "idle") /\ queue[d] # <<>>
  /\ Goto(d, Head(queue[d]))
  /\ UNCHANGED <<outside, queue, unit, traces, todo>>

(* The handler is over, and systemd is told.  A mount of a device that is   *)
(* gone is given up.                                                       *)
Handled(d) ==
  /\ At(d, "over")
  /\ known' = Set(known, d, Head(queue[d]) = "add")
  /\ IF Head(queue[d]) = "remove" /\ unit[d] # "none"
     THEN \E u \in {"none", "failed"} : unit' = Set(unit, d, u)
     ELSE UNCHANGED unit
  /\ queue' = Set(queue, d, Tail(queue[d]))
  /\ Goto(d, "idle")
  /\ UNCHANGED <<present, events, traces, todo>>

(* The mount unit starts once systemd knows the device: the mount point is  *)
(* made, then mount is executed, which needs the device and the mount point. *)
MountStarts(d) ==
  /\ unit[d] = "activating" /\ known[d]
  /\ unit' = Set(unit, d, "mounting")
  /\ dir' = Set(dir, d, TRUE)
  /\ UNCHANGED <<outside, handler, marker, files>>

MountLands(d) ==
  /\ unit[d] = "mounting" /\ present[d] /\ dir[d]
  /\ unit' = Set(unit, d, "active")
  /\ UNCHANGED <<outside, handler, traces>>

MountFails(d) ==
  /\ unit[d] = "mounting" /\ ~(present[d] /\ dir[d])
  /\ unit' = Set(unit, d, "failed")
  /\ UNCHANGED <<outside, handler, traces>>

-----------------------------------------------------------------------------
(* automount_systemd: an active unit is left alone, and one that failed is *)
(* reset, so that systemd-mount can make it again.                         *)
SlipNoReset(d) == unit
Reset(d) == IF unit[d] = "failed" THEN Set(unit, d, "none") ELSE unit

SkipMounted(d) ==
  /\ At(d, "add") /\ unit[d] = "active"
  /\ Goto(d, "over")
  /\ UNCHANGED <<outside, queue, unit, traces, todo>>

MakeDir(d) ==
  /\ At(d, "add") /\ unit[d] # "active"
  /\ unit' = Reset(d)
  /\ dir' = Set(dir, d, TRUE)
  /\ Goto(d, "mount")
  /\ UNCHANGED <<outside, queue, marker, files, todo>>

(* systemd-mount --no-block refuses a unit that there already is. *)
SystemdMount(d) ==
  /\ At(d, "mount") /\ unit[d] = "none"
  /\ unit' = Set(unit, d, "activating")
  /\ marker' = Set(marker, d, TRUE)
  /\ Goto(d, "over")
  /\ UNCHANGED <<outside, queue, dir, files, todo>>

SystemdMountFails(d) ==
  /\ At(d, "mount") /\ unit[d] # "none"
  /\ Goto(d, "find")
  /\ UNCHANGED <<outside, queue, unit, traces, todo>>

(* rm_dir: first find counts, then rm -r removes what is there by then.  The *)
(* directory itself stays while a file system is mounted on it.             *)
Mounted(d) == unit[d] = "active"
Populated(d) == Mounted(d) /\ present[d] /\ files[d] = "kept"

rm_dir(d) ==
  /\ At(d, "find")
  /\ Goto(d, IF dir[d] /\ ~Populated(d) THEN "rm" ELSE "over")
  /\ UNCHANGED <<outside, queue, unit, traces, todo>>

RmDir(d) ==
  /\ At(d, "rm")
  /\ files' = IF Populated(d) THEN Set(files, d, "deleted") ELSE files
  /\ dir' = Set(dir, d, Mounted(d))
  /\ Goto(d, "over")
  /\ UNCHANGED <<outside, queue, unit, marker, todo>>

(* The removal unmounts every line of /proc/mounts that grep finds the      *)
(* device name in, its own and those that only begin with it.              *)
Matches(d) == {e \in Devs : Mounted(e) /\ (e = d \/ <<d, e>> \in Prefixes)}

ReadMounts(d) ==
  /\ At(d, "remove")
  /\ todo' = Set(todo, d, Matches(d))
  /\ Goto(d, "umount")
  /\ UNCHANGED <<outside, queue, unit, traces>>

Umount(d) ==
  /\ At(d, "umount")
  /\ \E e \in todo[d] :
       /\ todo' = Set(todo, d, todo[d] \ {e})
       /\ unit' = IF Mounted(e) THEN Set(unit, e, "none") ELSE unit
  /\ UNCHANGED <<outside, queue, pc, traces>>

Umounted(d) ==
  /\ At(d, "umount") /\ todo[d] = {}
  /\ Goto(d, IF marker[d] THEN "find" ELSE "over")
  /\ UNCHANGED <<outside, queue, unit, traces, todo>>

Script(d) == SkipMounted(d) \/ MakeDir(d) \/ SystemdMount(d) \/ SystemdMountFails(d) \/ rm_dir(d)
             \/ RmDir(d) \/ ReadMounts(d) \/ Umount(d) \/ Umounted(d)
Udev(d) == Handle(d) \/ Handled(d)
Systemd(d) == MountStarts(d) \/ MountLands(d) \/ MountFails(d)
User(d) == Plug(d) \/ Unplug(d) \/ Trigger(d)

Next == \E d \in Devs : Script(d) \/ Udev(d) \/ Systemd(d) \/ User(d)
Spec == Init /\ [][Next]_vars

(* udev, its handlers and systemd do their work for every device. *)
FairSpec ==
  Spec /\ \A d \in Devs : WF_vars(Script(d) \/ Udev(d)) /\ WF_vars(Systemd(d))

-----------------------------------------------------------------------------
(* The values of the variables. *)
TypeOK ==
  /\ present \in [Devs -> BOOLEAN] /\ known \in [Devs -> BOOLEAN]
  /\ \A d \in Devs : queue[d] \in Seq({"add", "remove"})
  /\ pc \in [Devs -> {"idle", "add", "mount", "find", "rm", "remove", "umount", "over"}]
  /\ unit \in [Devs -> {"none", "activating", "mounting", "active", "failed"}]
  /\ dir \in [Devs -> BOOLEAN] /\ marker \in [Devs -> BOOLEAN]
  /\ todo \in [Devs -> SUBSET Devs]
  /\ files \in [Devs -> {"kept", "deleted"}]
  /\ events \in 0 .. MaxEvents

(* A medium that stays plugged ends up mounted, whatever an earlier plug    *)
(* left of its mount unit and however add events are repeated.  Two things   *)
(* are excepted: the removal of a device whose name it begins with, and the  *)
(* rm -r of a repeated event that takes the mount point away when mount is   *)
(* about to be executed, after which the unit is failed and nobody retries.  *)
Undermined(d) == present[d] /\ At(d, "rm") /\ unit[d] = "mounting"
Remounts ==
  \A d \in Devs :
    (\A e \in Devs : <<e, d>> \notin Prefixes) =>
      ([]~Undermined(d) => (<>[]present[d] => <>[]Mounted(d)))

(* "We do not want to rm -r populated directories" (mount.sh:131). *)
PopulatedKept == \A d \in Devs : files[d] = "kept"
=============================================================================
