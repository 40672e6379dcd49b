-------------------------- MODULE WatchdogService ---------------------------
(***************************************************************************)
(* The two services that may end a running system: hipos-watchdog.sh,      *)
(* which a timer starts a second after its last run has ended and which    *)
(* keeps the board controller from cutting the power, and                  *)
(* hipos-usb-check.sh, which powers off once when the USB controller was    *)
(* resumed too often.  The board controller and systemd are modelled as    *)
(* far as the scripts rely on them.                                        *)
(*                                                                         *)
(* One tick is a minute.  A run of the script takes a second, so time only *)
(* passes when a run has ended since the last tick, when nothing starts    *)
(* another one, or when the run hangs.                                     *)
(***************************************************************************)
EXTENDS Integers

CONSTANTS
  MaxUptime,    \* bound: minutes of uptime that are told apart
  MaxFaults,    \* bound: runs that are killed or hang, shutdowns that hang
  Resumes       \* what the count of resumes may be found to be

ASSUME WatchdogAssumption == MaxUptime \in Nat /\ MaxFaults \in Nat /\ Resumes \subseteq Nat

Heartbeat == 3      \* "heartbeat 180"
MaxResumes == 8
Never == -1         \* the controller has not been asked to watch

VARIABLES
  powered, ignition,
  uptime,
  left,         \* minutes until the controller cuts the power
  lock,         \* /var/run/lock/hipos-watchdog.lock
  wpc,          \* where hipos-watchdog.sh is
  ran,          \* a run has ended since the last tick
  stopping,     \* who asked systemd for the power-off
  stuck,        \* the shutdown hangs
  upc,          \* where hipos-usb-check.sh is
  opmode,       \* whether there is a target to wait for, and it is reached
  broken,       \* history: a run of this boot was killed or hangs
  faults

vars == <<powered, ignition, uptime, left, lock, wpc, ran, stopping, stuck, upc,
          opmode, broken, faults>>
watchdog == <<lock, wpc, ran>>
system == <<powered, stopping, stuck, broken>>
usb == <<upc, opmode>>
world == <<ignition, uptime, faults>>

Off ==
  /\ powered' = FALSE /\ uptime' = 0 /\ left' = Never
  /\ lock' = FALSE /\ wpc' = "idle" /\ ran' = FALSE
  /\ stopping' = "no" /\ stuck' = FALSE
  /\ upc' = "wait" /\ opmode' = "none" /\ broken' = FALSE

Init ==
  /\ powered = FALSE /\ ignition = FALSE /\ uptime = 0 /\ left = Never
  /\ lock = FALSE /\ wpc = "idle" /\ ran = FALSE
  /\ stopping = "no" /\ stuck = FALSE
  /\ upc = "wait" /\ opmode = "none"
  /\ broken = FALSE /\ faults = 0

(* The controller switches the device on with the ignition. *)
PowerOn ==
  /\ ~powered /\ ignition
  /\ powered' = TRUE
  /\ opmode' \in {"none", "wait"}
  /\ UNCHANGED <<world, left, watchdog, stopping, stuck, broken, upc>>

Ignition ==
  /\ ignition' = ~ignition
  /\ UNCHANGED <<system, left, watchdog, usb, uptime, faults>>

-----------------------------------------------------------------------------
(* hipos-watchdog.sh. *)
Start ==
  /\ powered /\ wpc = "idle" /\ ~ran
  /\ wpc' = "start"
  /\ UNCHANGED <<system, world, left, lock, ran, usb>>

Locked ==
  /\ wpc = "start" /\ lock
  /\ wpc' = "idle" /\ ran' = TRUE
  /\ UNCHANGED <<system, world, left, lock, usb>>

TouchLock ==
  /\ wpc = "start" /\ ~lock
  /\ lock' = TRUE
  /\ wpc' = "gets"
  /\ UNCHANGED <<system, world, left, ran, usb>>

(* grep for "Ignition: off" in the answer. *)
SlipOtherText == FALSE
IgnitionOff == ~ignition

(* An answer that does not come counts as one that the ignition is on. *)
GetsOff ==
  /\ wpc = "gets" /\ IgnitionOff
  /\ wpc' = "poweroff"
  /\ UNCHANGED <<system, world, left, lock, ran, usb>>

GetsOn ==
  /\ wpc = "gets" /\ (~IgnitionOff \/ faults < MaxFaults)
  /\ faults' = IF IgnitionOff THEN faults + 1 ELSE faults
  /\ wpc' = "heartbeat"
  /\ UNCHANGED <<system, ignition, uptime, left, lock, ran, usb>>

Poweroff(who) == stopping' = IF stopping = "no" THEN who ELSE stopping

(* The run ends with the lock in place. *)
SlipUnlocks == FALSE
LockAfterPoweroff == lock

RequestPoweroff ==
  /\ wpc = "poweroff"
  /\ Poweroff("watchdog")
  /\ lock' = LockAfterPoweroff
  /\ wpc' = "idle" /\ ran' = TRUE
  /\ UNCHANGED <<world, powered, stuck, broken, left, usb>>

SendHeartbeat ==
  /\ wpc = "heartbeat"
  /\ left' = Heartbeat
  /\ wpc' = "rm"
  /\ UNCHANGED <<system, world, lock, ran, usb>>

SlipKeepsLock == lock
LockAfterRun == FALSE

RemoveLock ==
  /\ wpc = "rm"
  /\ lock' = LockAfterRun
  /\ wpc' = "idle" /\ ran' = TRUE
  /\ UNCHANGED <<system, world, left, usb>>

-----------------------------------------------------------------------------
(* hipos-usb-check.sh. *)
OpmodeReached ==
  /\ powered /\ opmode = "wait"
  /\ opmode' = "reached"
  /\ UNCHANGED <<system, world, left, watchdog, upc>>

CountResumes ==
  /\ powered /\ upc = "wait" /\ opmode # "wait"
  /\ \E n \in Resumes : upc' = IF n >= MaxResumes THEN "delay" ELSE "ok"
  /\ UNCHANGED <<system, world, left, watchdog, opmode>>

LongEnough == uptime >= 3

UsbPoweroff ==
  /\ powered /\ upc = "delay" /\ LongEnough
  /\ Poweroff("usb")
  /\ upc' = "asked"
  /\ UNCHANGED <<world, powered, stuck, broken, left, watchdog, opmode>>

-----------------------------------------------------------------------------
(* systemd shuts down, unless something hangs in it. *)
ShutDown ==
  /\ powered /\ stopping # "no" /\ ~stuck
  /\ Off
  /\ UNCHANGED <<ignition, faults>>

Hang ==
  /\ powered /\ stopping # "no" /\ ~stuck /\ faults < MaxFaults
  /\ stuck' = TRUE /\ faults' = faults + 1
  /\ UNCHANGED <<powered, stopping, broken, ignition, uptime, left, watchdog, usb>>

(* A run of the script is killed, or hangs for ever. *)
Kill ==
  /\ wpc \notin {"idle", "hung"} /\ faults < MaxFaults
  /\ wpc' \in {"idle", "hung"} /\ ran' = TRUE
  /\ faults' = faults + 1 /\ broken' = TRUE
  /\ UNCHANGED <<powered, stopping, stuck, ignition, uptime, left, lock, usb>>

(* A minute passes, and the watch runs down.  When systemd shuts down it     *)
(* stops the timer at some time, so a minute may pass without a run.         *)
Waits == upc = "delay" /\ LongEnough
Tick ==
  /\ powered /\ (ran \/ wpc = "hung" \/ stopping # "no") /\ ~Waits
  /\ left # 0
  /\ uptime' = IF uptime < MaxUptime THEN uptime + 1 ELSE uptime
  /\ left' = IF left = Never THEN Never ELSE left - 1
  /\ ran' = FALSE
  /\ UNCHANGED <<system, ignition, faults, lock, wpc, usb>>

Cut ==
  /\ powered /\ left = 0
  /\ Off
  /\ UNCHANGED <<ignition, faults>>

Watchdog == Start \/ Locked \/ TouchLock \/ GetsOff \/ GetsOn \/ RequestPoweroff
            \/ SendHeartbeat \/ RemoveLock
UsbCheck == CountResumes \/ UsbPoweroff
Next == PowerOn \/ Ignition \/ Watchdog \/ OpmodeReached \/ UsbCheck \/ ShutDown \/ Hang
        \/ Kill \/ Tick \/ Cut
Spec == Init /\ [][Next]_vars

(* Time passes; the timer starts the script until a shutdown, and systemd    *)
(* and the controller do what they are asked for.                           *)
FairSpec ==
  /\ Spec
  /\ WF_vars(stopping = "no" /\ Watchdog) /\ WF_vars(UsbCheck)
  /\ WF_vars(ShutDown) /\ WF_vars(Tick) /\ WF_vars(Cut)

-----------------------------------------------------------------------------
(* The values of the variables. *)
TypeOK ==
  /\ powered \in BOOLEAN /\ ignition \in BOOLEAN /\ uptime \in 0 .. MaxUptime
  /\ left \in Never .. Heartbeat /\ lock \in BOOLEAN
  /\ wpc \in {"idle", "start", "gets", "poweroff", "heartbeat", "rm", "hung"}
  /\ ran \in BOOLEAN /\ stopping \in {"no", "watchdog", "usb"} /\ stuck \in BOOLEAN
  /\ upc \in {"wait", "ok", "delay", "asked"} /\ opmode \in {"none", "wait", "reached"}
  /\ broken \in BOOLEAN /\ faults \in 0 .. MaxFaults

(* The controller cuts the power only of a device that shuts down, or whose  *)
(* script was killed or hangs: as long as runs come to their end, the lock   *)
(* never keeps the next one from its heartbeat.                             *)
HealthyIsNotCut == left = 0 => broken \/ stopping # "no"

(* Once the script has asked for the power-off, no run renews the watch, so  *)
(* a shutdown that hangs is cut off, even if the ignition is back on.        *)
NoBeatAfterPoweroff ==
  [][powered' /\ stopping = "watchdog" => left' <= left]_vars

(* Without ignition a device that is watched goes off, if need be by the     *)
(* controller; and with too many resumes it goes off unless that hangs.      *)
PowerEnds ==
  /\ powered /\ left # Never ~> ~powered \/ ignition
  /\ upc = "delay" ~> ~powered \/ stuck
=============================================================================
