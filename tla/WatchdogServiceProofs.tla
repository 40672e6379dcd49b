----------------------- MODULE WatchdogServiceProofs ------------------------
(* Theorems about WatchdogService: for any number of killed and hanging runs *)
(* and of hanging shutdowns, and whatever the count of resumes.              *)
EXTENDS WatchdogService, TLAPS

(* The places of a run that holds the lock. *)
Holding == {"gets", "poweroff", "heartbeat", "rm"}

(* A device without power runs nothing. *)
OffIsIdle ==
  ~powered => /\ left = Never /\ wpc = "idle" /\ ~ran /\ ~lock
              /\ stopping = "no" /\ ~stuck /\ upc = "wait" /\ ~broken

(* No run gets past the lock without holding it. *)
HoldersLock == wpc \in Holding => lock

(* As long as runs come to their end and nobody asked for the power-off, the *)
(* lock is that of a run under way, and every run that has ended has just    *)
(* sent its heartbeat; so a tick always follows one.                         *)
Healthy == ~broken /\ stopping = "no"
LockIsHeld == Healthy => wpc # "hung" /\ (lock => wpc \in Holding)
RunsBeat ==
  Healthy => /\ wpc # "idle" => ~ran
             /\ ran \/ wpc = "rm" => left = Heartbeat
             /\ left \in {Never, Heartbeat - 1, Heartbeat}

(* The run that asked for the power-off left its lock, and no other run gets *)
(* past it.                                                                  *)
LockIsLeft == stopping = "watchdog" => lock /\ wpc \in {"idle", "start", "hung"}

WatchInv ==
  /\ TypeOK
  /\ OffIsIdle
  /\ HoldersLock
  /\ LockIsHeld
  /\ RunsBeat
  /\ LockIsLeft

USE DEF Heartbeat, Never, Holding, Healthy

LEMMA Zeros == 0 \in 0 .. MaxUptime /\ 0 \in 0 .. MaxFaults /\ Never \in Never .. Heartbeat
  BY WatchdogAssumption

LEMMA InitWatch == Init => WatchInv
<1>1. Init => TypeOK
  BY Zeros DEF Init, TypeOK
<1>2. Init => OffIsIdle /\ HoldersLock /\ LockIsHeld /\ RunsBeat /\ LockIsLeft
  BY DEF Init, OffIsIdle, HoldersLock, LockIsHeld, RunsBeat, LockIsLeft
<1> QED
  BY <1>1, <1>2 DEF WatchInv

(* What ends with the power leaves the initial state of a boot. *)
LEMMA OffKeeps ==
  ASSUME WatchInv, Off, UNCHANGED <<ignition, faults>>
  PROVE  WatchInv'
<1>1. TypeOK'
  BY Zeros DEF Off, WatchInv, TypeOK
<1>2. (OffIsIdle /\ HoldersLock /\ LockIsHeld /\ RunsBeat /\ LockIsLeft)'
  BY DEF Off, OffIsIdle, HoldersLock, LockIsHeld, RunsBeat, LockIsLeft
<1> QED
  BY <1>1, <1>2 DEF WatchInv

(* Power and ignition. *)
LEMMA PowerKeeps == ASSUME WatchInv, PowerOn \/ Ignition PROVE WatchInv'
<1>1. CASE PowerOn
  BY <1>1 DEF PowerOn, world, watchdog, WatchInv, TypeOK, OffIsIdle, HoldersLock, LockIsHeld, RunsBeat, LockIsLeft
<1>2. CASE Ignition
  BY <1>2 DEF Ignition, system, watchdog, usb, WatchInv, TypeOK, OffIsIdle, HoldersLock, LockIsHeld, RunsBeat, LockIsLeft
<1> QED
  BY <1>1, <1>2

(* The steps of hipos-watchdog.sh. *)
LEMMA WatchdogKeeps == ASSUME WatchInv, Watchdog PROVE WatchInv'
<1> USE DEF WatchInv, system, world, usb, watchdog
<1>1. CASE Start
  BY <1>1 DEF Start, TypeOK, OffIsIdle, HoldersLock, LockIsHeld, RunsBeat, LockIsLeft
<1>2. CASE Locked
  BY <1>2 DEF Locked, TypeOK, OffIsIdle, HoldersLock, LockIsHeld, RunsBeat, LockIsLeft
<1>3. CASE TouchLock
  BY <1>3 DEF TouchLock, TypeOK, OffIsIdle, HoldersLock, LockIsHeld, RunsBeat, LockIsLeft
<1>4. CASE GetsOff
  BY <1>4 DEF GetsOff, TypeOK, OffIsIdle, HoldersLock, LockIsHeld, RunsBeat, LockIsLeft
<1>5. CASE GetsOn
  BY <1>5, WatchdogAssumption
     DEF GetsOn, TypeOK, OffIsIdle, HoldersLock, LockIsHeld, RunsBeat, LockIsLeft
<1>6. CASE RequestPoweroff
  BY <1>6 DEF RequestPoweroff, Poweroff, LockAfterPoweroff, TypeOK, OffIsIdle, HoldersLock, LockIsHeld,
              RunsBeat, LockIsLeft
<1>7. CASE SendHeartbeat
  BY <1>7 DEF SendHeartbeat, TypeOK, OffIsIdle, HoldersLock, LockIsHeld, RunsBeat, LockIsLeft
<1>8. CASE RemoveLock
  BY <1>8 DEF RemoveLock, LockAfterRun, TypeOK, OffIsIdle, HoldersLock, LockIsHeld, RunsBeat, LockIsLeft
<1> QED
  BY <1>1, <1>2, <1>3, <1>4, <1>5, <1>6, <1>7, <1>8 DEF Watchdog

(* The steps of hipos-usb-check.sh, and the target it waits for. *)
LEMMA UsbKeeps == ASSUME WatchInv, OpmodeReached \/ UsbCheck PROVE WatchInv'
<1> USE DEF WatchInv, system, world, usb, watchdog
<1>1. CASE OpmodeReached
  BY <1>1 DEF OpmodeReached, TypeOK, OffIsIdle, HoldersLock, LockIsHeld, RunsBeat, LockIsLeft
<1>2. CASE CountResumes
  <2>1. powered /\ upc' \in {"delay", "ok"} /\ UNCHANGED <<system, world, left, watchdog, opmode>>
    BY <1>2 DEF CountResumes
  <2> QED
    BY <2>1 DEF TypeOK, OffIsIdle, HoldersLock, LockIsHeld, RunsBeat, LockIsLeft
<1>3. CASE UsbPoweroff
  BY <1>3 DEF UsbPoweroff, Poweroff, TypeOK, OffIsIdle, HoldersLock, LockIsHeld, RunsBeat, LockIsLeft
<1> QED
  BY <1>1, <1>2, <1>3 DEF UsbCheck

(* Shutdown, faults and time.  A healthy system ticks only after a run, which *)
(* sent its heartbeat; so there are two minutes left for the next one.        *)
LEMMA SystemKeeps == ASSUME WatchInv, ShutDown \/ Hang \/ Kill \/ Tick \/ Cut PROVE WatchInv'
<1> USE DEF WatchInv, system, world, usb, watchdog
<1>1. CASE ShutDown \/ Cut
  BY <1>1, OffKeeps DEF ShutDown, Cut
<1>2. CASE Hang
  BY <1>2, WatchdogAssumption
     DEF Hang, TypeOK, OffIsIdle, HoldersLock, LockIsHeld, RunsBeat, LockIsLeft
<1>3. CASE Kill
  <2>1. faults' \in 0 .. MaxFaults
    BY <1>3, WatchdogAssumption DEF Kill, TypeOK
  <2>2. TypeOK'
    BY <1>3, <2>1 DEF Kill, TypeOK
  <2>3. (OffIsIdle /\ HoldersLock /\ LockIsHeld /\ RunsBeat /\ LockIsLeft)'
    BY <1>3 DEF Kill, OffIsIdle, HoldersLock, LockIsHeld, RunsBeat, LockIsLeft
  <2> QED
    BY <2>2, <2>3
<1>4. CASE Tick
  <2>1. powered /\ uptime \in 0 .. MaxUptime /\ left \in Never .. Heartbeat /\ left # 0
    BY <1>4 DEF Tick, TypeOK
  <2>2. uptime' \in 0 .. MaxUptime
    <3>1. \/ uptime < MaxUptime /\ uptime' = uptime + 1
          \/ uptime' = uptime
      BY <1>4 DEF Tick
    <3> QED
      BY <2>1, <3>1, WatchdogAssumption
  <2>3. left' \in Never .. Heartbeat /\ (left = Never => left' = Never)
        /\ (left # Never => left' = left - 1)
    BY <1>4, <2>1 DEF Tick
  <2>4. ran' = FALSE /\ (ran \/ wpc = "hung" \/ stopping # "no")
        /\ UNCHANGED <<system, ignition, faults, lock, wpc, usb>>
    BY <1>4 DEF Tick
  <2>5. TypeOK'
    <3>1. /\ powered' \in BOOLEAN /\ ignition' \in BOOLEAN /\ lock' \in BOOLEAN /\ ran' \in BOOLEAN
          /\ stuck' \in BOOLEAN /\ broken' \in BOOLEAN /\ faults' \in 0 .. MaxFaults
      BY <2>4 DEF TypeOK
    <3>2. /\ wpc' \in {"idle", "start", "gets", "poweroff", "heartbeat", "rm", "hung"}
          /\ stopping' \in {"no", "watchdog", "usb"}
          /\ upc' \in {"wait", "ok", "delay", "asked"} /\ opmode' \in {"none", "wait", "reached"}
      BY <2>4 DEF TypeOK
    <3> QED
      BY <2>2, <2>3, <3>1, <3>2 DEF TypeOK
  <2>6. (OffIsIdle /\ HoldersLock /\ LockIsHeld /\ LockIsLeft)'
    BY <2>1, <2>4 DEF OffIsIdle, HoldersLock, LockIsHeld, LockIsLeft
  <2>7. RunsBeat'
    BY <2>3, <2>4 DEF RunsBeat, LockIsHeld
  <2> QED
    BY <2>5, <2>6, <2>7
<1> QED
  BY <1>1, <1>2, <1>3, <1>4

LEMMA WatchStep == WatchInv /\ [Next]_vars => WatchInv'
<1> SUFFICES ASSUME WatchInv, [Next]_vars PROVE WatchInv'
  OBVIOUS
<1>1. CASE Next
  BY <1>1, PowerKeeps, WatchdogKeeps, UsbKeeps, SystemKeeps DEF Next
<1>2. CASE UNCHANGED vars
  BY <1>2 DEF vars, WatchInv, TypeOK, OffIsIdle, HoldersLock, LockIsHeld, RunsBeat, LockIsLeft
<1> QED
  BY <1>1, <1>2

LEMMA WatchAlways == Spec => []WatchInv
  BY InitWatch, WatchStep, PTL DEF Spec

-----------------------------------------------------------------------------
(* The variables of the services, the controller and systemd keep their      *)
(* types.                                                                    *)
THEOREM WatchdogTypeCorrect == Spec => []TypeOK
<1>1. WatchInv => TypeOK
  BY DEF WatchInv
<1> QED
  BY <1>1, WatchAlways, PTL

(* hipos-watchdog.sh: as long as no run was killed or hangs and nobody asked  *)
(* for the power-off, the controller never cuts the power, for the lock of a  *)
(* run that has ended is gone when the timer starts the next one.             *)
THEOREM HealthyRunsOn == Spec => []HealthyIsNotCut
<1>1. WatchInv => HealthyIsNotCut
  BY DEF WatchInv, RunsBeat, HealthyIsNotCut
<1> QED
  BY <1>1, WatchAlways, PTL

(* hipos-watchdog.sh exits with its lock in place after it asked for the      *)
(* power-off, so that no later run renews the controller's watch.             *)
THEOREM LastBeatWasSent == Spec => NoBeatAfterPoweroff
<1>1. ASSUME WatchInv, [Next]_vars
      PROVE  powered' /\ stopping = "watchdog" => left' <= left
  <2> SUFFICES ASSUME powered', stopping = "watchdog" PROVE left' <= left
    OBVIOUS
  <2>1. left \in Never .. Heartbeat /\ powered /\ wpc \notin Holding
    BY <1>1 DEF WatchInv, TypeOK, OffIsIdle, LockIsLeft
  <2>2. CASE Tick
    BY <2>1, <2>2 DEF Tick
  <2>3. CASE UNCHANGED left
    BY <2>1, <2>3
  <2>4. ~(Off \/ PowerOn \/ SendHeartbeat)
    BY <2>1 DEF Off, PowerOn, SendHeartbeat
  <2> QED
    BY <1>1, <2>2, <2>3, <2>4
       DEF Next, Ignition, Watchdog, Start, Locked, TouchLock, GetsOff, GetsOn, RequestPoweroff, RemoveLock,
           OpmodeReached, UsbCheck, CountResumes, UsbPoweroff, ShutDown, Hang, Kill, Cut, vars
<1> QED
  BY <1>1, WatchAlways, PTL DEF Spec, NoBeatAfterPoweroff
=============================================================================
