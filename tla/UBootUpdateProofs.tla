-------------------------- MODULE UBootUpdateProofs --------------------------
(* Theorems about UBootUpdate. *)
EXTENDS UBootUpdate, TLAPS

(* The three environments that are ever stored, seen from the proven slot. *)
Idle(e) == e.upgrade_available = 0 /\ e.firmware = proven
New(e) == e.upgrade_available = 1 /\ e.ustate = 1 /\ e.firmware = proven /\ e.bootcount = 0
Trial(e) == e.upgrade_available = 1 /\ e.ustate = 2 /\ e.firmware = Other(proven)

StoreClass == Idle(store) \/ New(store) \/ Trial(store)

(* Late init starts from what is stored, and leaves no environment New. *)
EnvBefore == pc \in {"late_init", "generate"} => env = store
EnvAfter ==
  pc \in {"count", "autoboot"} =>
    /\ \/ Idle(env) /\ Idle(store)
       \/ Trial(env) /\ (New(store) \/ Trial(store))
    /\ cmd.boot = env.firmware /\ cmd.alt = Other(env.firmware)
CountKept ==
  env.upgrade_available = 1 =>
    /\ pc = "count" => env.bootcount = store.bootcount
    /\ pc = "autoboot" =>
         /\ store.bootcount <= env.bootcount /\ env.bootcount <= store.bootcount + 1
         /\ env.bootcount <= BootLimit =>
              /\ tries + 1 <= store.bootcount + lost
              /\ image[Other(proven)] # Torn

(* The slot in use is the proven one unless this is a counted trial boot;  *)
(* it is the proven one for certain when no upgrade is stored.             *)
SlotInUse ==
  pc \in {"fitboot", "legacyboot", "linux"} =>
    /\ using.slot = proven \/ (~using.alt /\ env.upgrade_available = 1)
    /\ store.upgrade_available = 0 => using.slot = proven
    /\ using.slot = proven /\ Trial(store) => store.bootcount >= BootLimit
    /\ image[using.slot] # Torn

WritesUnproven ==
  writing # "no" =>
    /\ pc = "linux" /\ kernel.image.works /\ using.slot = proven
    /\ Idle(store) \/ (Trial(store) /\ store.bootcount >= BootLimit)
    /\ writing = "ended" => image[Other(proven)] # Torn

SlotsWhole ==
  /\ image[proven] # Torn
  /\ New(store) \/ (Trial(store) /\ store.bootcount < BootLimit) => image[Other(proven)] # Torn

Counts ==
  /\ tries <= BootLimit + lost
  /\ store.upgrade_available = 1 => tries <= store.bootcount + lost

UpdateInv ==
  /\ TypeOK
  /\ StoreClass
  /\ EnvBefore
  /\ EnvAfter
  /\ CountKept
  /\ SlotInUse
  /\ WritesUnproven
  /\ SlotsWhole
  /\ Counts

-----------------------------------------------------------------------------
USE UpdateAssumption DEF Slots, Other, Idle, New, Trial, disk, board, history

LEMMA TornIsImage == Torn \in Image
  BY DEF Torn, Image

Kernel == [from : Slots \cup {-1}, image : Image, uImage : BOOLEAN, told : {-1, 0, 1}]

LEMMA KernelTyped ==
  ASSUME NEW f \in Slots \cup {-1}, NEW i \in Image, NEW u \in BOOLEAN, NEW h \in {-1, 0, 1}
  PROVE  [from |-> f, image |-> i, uImage |-> u, told |-> h] \in Kernel
  BY Zenon DEF Kernel

LEMMA HabTyped == ASSUME NEW r PROVE ft_board_setup(r) \in {-1, 0, 1}
  BY DEF ft_board_setup, get_hab_state

LEMMA EnvironmentSwitched ==
  ASSUME NEW e \in Environment, NEW s \in Slots
  PROVE  LET switched == [e EXCEPT !.firmware = s, !.ustate = 2] IN
         /\ switched \in Environment /\ switched.firmware = s /\ switched.ustate = 2
         /\ switched.upgrade_available = e.upgrade_available
         /\ switched.bootcount = e.bootcount
  BY DEF Environment

(* A cold start reads the stored environment. *)
LEMMA PowerOnKeeps == ASSUME UpdateInv, PowerOn PROVE UpdateInv'
  <1>1. TypeOK'
    BY TornIsImage DEF UpdateInv, TypeOK, PowerOn, StartUBoot, NoFit, NoCmd, NoCommand, NoKernel
  <1>2. (StoreClass /\ EnvBefore /\ EnvAfter /\ CountKept)'
    BY DEF UpdateInv, TypeOK, PowerOn, StartUBoot, Environment, StoreClass, EnvBefore, EnvAfter, CountKept, SlotInUse
  <1>3. (SlotInUse /\ WritesUnproven /\ SlotsWhole /\ Counts)'
    BY DEF UpdateInv, TypeOK, PowerOn, StartUBoot, Environment, StoreClass, EnvAfter, CountKept, SlotInUse, WritesUnproven, SlotsWhole, Counts
  <1> QED BY <1>1, <1>2, <1>3 DEF UpdateInv

(* So does a warm one; memory may survive it. *)
LEMMA ResetKeeps == ASSUME UpdateInv, Reset PROVE UpdateInv'
  <1>1. TypeOK'
    BY TornIsImage DEF UpdateInv, TypeOK, Reset, StartUBoot, NoFit, NoCmd, NoCommand, NoKernel
  <1>2. (StoreClass /\ EnvBefore /\ EnvAfter /\ CountKept)'
    BY DEF UpdateInv, TypeOK, Reset, StartUBoot, Environment, StoreClass, EnvBefore, EnvAfter, CountKept, SlotInUse
  <1>3. (SlotInUse /\ WritesUnproven /\ SlotsWhole /\ Counts)'
    BY DEF UpdateInv, TypeOK, Reset, StartUBoot, Environment, StoreClass, EnvAfter, CountKept, SlotInUse, WritesUnproven, SlotsWhole, Counts
  <1> QED BY <1>1, <1>2, <1>3 DEF UpdateInv

(* The HAB state plays no part in the choice of the slot. *)
LEMMA BoardLateInitKeeps == ASSUME UpdateInv, BoardLateInit PROVE UpdateInv'
  <1>1. TypeOK'
    BY TornIsImage DEF UpdateInv, TypeOK, BoardLateInit, get_hab_state
  <1>2. (StoreClass /\ EnvBefore /\ EnvAfter /\ CountKept)'
    BY DEF UpdateInv, TypeOK, BoardLateInit, Environment, StoreClass, EnvBefore, EnvAfter, CountKept, SlotInUse
  <1>3. (SlotInUse /\ WritesUnproven /\ SlotsWhole /\ Counts)'
    BY DEF UpdateInv, TypeOK, BoardLateInit, Environment, StoreClass, EnvAfter, CountKept, SlotInUse, WritesUnproven, SlotsWhole, Counts
  <1> QED BY <1>1, <1>2, <1>3 DEF UpdateInv

(* The switch turns New into Trial in memory, and on the eMMC unless the save fails. *)
LEMMA GenerateSwitchKeeps == ASSUME UpdateInv, GenerateSwitch PROVE UpdateInv'
  <1>1. env = store /\ New(env) /\ env \in Environment
    BY DEF UpdateInv, TypeOK, EnvBefore, StoreClass, GenerateSwitch, Untried
  <1>2. /\ Switched(env) \in Environment /\ Trial(Switched(env))
        /\ Switched(env).bootcount = 0
    <2>1. Other(env.firmware) \in Slots BY <1>1 DEF Environment
    <2>2. Switched(env) = [env EXCEPT !.firmware = Other(env.firmware), !.ustate = 2]
      BY DEF Switched
    <2>3. \A s \in Slots :
            LET e == [env EXCEPT !.firmware = s, !.ustate = 2] IN
            /\ e \in Environment /\ e.firmware = s /\ e.ustate = 2
            /\ e.upgrade_available = env.upgrade_available /\ e.bootcount = env.bootcount
      BY <1>1, EnvironmentSwitched
    <2>4. /\ Switched(env) \in Environment
          /\ Switched(env).firmware = Other(env.firmware) /\ Switched(env).ustate = 2
          /\ Switched(env).upgrade_available = env.upgrade_available
          /\ Switched(env).bootcount = env.bootcount
      BY <2>1, <2>2, <2>3
    <2> QED BY <1>1, <2>4
  <1>3. /\ env' = Switched(env) /\ store' \in {store, Switched(env)}
        /\ pc = "generate" /\ pc' = "count"
        /\ cmd'.boot = env'.firmware /\ cmd'.alt = Other(env'.firmware)
    BY DEF GenerateSwitch, env_save, Generated
  <1>4. TypeOK'
    BY <1>2, TornIsImage DEF UpdateInv, TypeOK, GenerateSwitch, env_save, Generated, MayFail, Environment
  <1>5. (StoreClass /\ EnvBefore /\ EnvAfter /\ CountKept)'
    BY <1>1, <1>2, <1>3 DEF GenerateSwitch, StoreClass, EnvBefore, EnvAfter, CountKept
  <1>6. (SlotInUse /\ WritesUnproven /\ SlotsWhole)'
    BY <1>1, <1>2, <1>3 DEF UpdateInv, GenerateSwitch, SlotInUse, WritesUnproven, SlotsWhole
  <1>7. Counts'
    BY <1>1, <1>2 DEF UpdateInv, TypeOK, GenerateSwitch, env_save, Counts
  <1> QED BY <1>4, <1>5, <1>6, <1>7 DEF UpdateInv

(* What is not New stays as it is. *)
LEMMA GenerateSameKeeps == ASSUME UpdateInv, GenerateSame PROVE UpdateInv'
  <1>1. TypeOK'
    BY TornIsImage DEF UpdateInv, TypeOK, GenerateSame, Generated, Environment
  <1>2. (StoreClass /\ EnvBefore /\ EnvAfter /\ CountKept)'
    BY DEF UpdateInv, TypeOK, GenerateSame, Generated, Untried, Environment, StoreClass, EnvBefore, EnvAfter, CountKept, SlotInUse
  <1>3. (SlotInUse /\ WritesUnproven /\ SlotsWhole /\ Counts)'
    BY DEF UpdateInv, TypeOK, GenerateSame, Generated, Untried, Environment, StoreClass, EnvAfter, CountKept, SlotInUse, WritesUnproven, SlotsWhole, Counts
  <1> QED BY <1>1, <1>2, <1>3 DEF UpdateInv

(* A trial is counted before it boots; a lost count is in "lost". *)
LEMMA CountTrialKeeps == ASSUME UpdateInv, CountTrial PROVE UpdateInv'
  <1> DEFINE counted == [env EXCEPT !.bootcount = Counted(@)]
  <1>1. Trial(env) /\ (New(store) \/ Trial(store)) /\ env.bootcount = store.bootcount
    BY DEF UpdateInv, EnvAfter, CountKept, CountTrial
  <1>2. /\ counted \in Environment /\ Trial(counted)
        /\ counted.bootcount = IF env.bootcount > BootLimit THEN env.bootcount
                               ELSE env.bootcount + 1
    BY <1>1 DEF UpdateInv, TypeOK, Counted, Environment
  <1>3. /\ env' = counted /\ pc = "count" /\ pc' = "autoboot"
        /\ \/ store' = counted /\ lost' = lost
           \/ store' = store /\ lost' = lost + 1
    BY DEF CountTrial, env_save
  <1>4. TypeOK'
    BY <1>2, TornIsImage DEF UpdateInv, TypeOK, CountTrial, env_save, MayFail
  <1>5. (StoreClass /\ EnvBefore /\ EnvAfter)'
    BY <1>1, <1>2, <1>3 DEF UpdateInv, CountTrial, StoreClass, EnvBefore, EnvAfter
  <1>6. CountKept'
    BY <1>1, <1>2, <1>3 DEF UpdateInv, TypeOK, CountTrial, CountKept, SlotsWhole, Counts, Environment
  <1>7. (SlotInUse /\ WritesUnproven /\ SlotsWhole /\ Counts)'
    BY <1>1, <1>2, <1>3 DEF UpdateInv, TypeOK, CountTrial, SlotInUse, WritesUnproven, SlotsWhole, Counts, Environment
  <1> QED BY <1>4, <1>5, <1>6, <1>7 DEF UpdateInv

(* Without an upgrade nothing is stored. *)
LEMMA CountOtherKeeps == ASSUME UpdateInv, CountOther PROVE UpdateInv'
  <1>1. TypeOK'
    BY TornIsImage DEF UpdateInv, TypeOK, CountOther, Environment
  <1>2. (StoreClass /\ EnvBefore /\ EnvAfter /\ CountKept)'
    BY DEF UpdateInv, TypeOK, CountOther, Environment, StoreClass, EnvBefore, EnvAfter, CountKept, SlotInUse
  <1>3. (SlotInUse /\ WritesUnproven /\ SlotsWhole /\ Counts)'
    BY DEF UpdateInv, TypeOK, CountOther, Environment, StoreClass, EnvAfter, CountKept, SlotInUse, WritesUnproven, SlotsWhole, Counts
  <1> QED BY <1>1, <1>2, <1>3 DEF UpdateInv

(* altbootcmd is taken only when the counter ran over, bootcmd only before. *)
LEMMA AutobootKeeps == ASSUME UpdateInv, Autoboot PROVE UpdateInv'
  <1>1. TypeOK'
    <2>1. using' \in [slot : Slots, alt : BOOLEAN, legacy : BOOLEAN]
      <3>1. cmd.boot \in Slots /\ cmd.alt \in Slots /\ cmd.legacy \in BOOLEAN
        BY DEF UpdateInv, TypeOK
      <3>2. \/ using' = [slot |-> cmd.alt, alt |-> TRUE, legacy |-> cmd.legacy]
            \/ using' = [slot |-> cmd.boot, alt |-> FALSE, legacy |-> FALSE]
        BY DEF Autoboot
      <3>3. /\ [slot |-> cmd.alt, alt |-> TRUE, legacy |-> cmd.legacy]
                  \in [slot : Slots, alt : BOOLEAN, legacy : BOOLEAN]
            /\ [slot |-> cmd.boot, alt |-> FALSE, legacy |-> FALSE]
                  \in [slot : Slots, alt : BOOLEAN, legacy : BOOLEAN]
        BY <3>1
      <3> QED BY <3>2, <3>3
    <2>2. tries' \in 0 .. MaxTries
      BY DEF UpdateInv, TypeOK, Autoboot, MaxTries
    <2> QED BY <2>1, <2>2 DEF UpdateInv, TypeOK, Autoboot
  <1>2. (StoreClass /\ EnvBefore /\ EnvAfter /\ CountKept)'
    BY DEF UpdateInv, TypeOK, Autoboot, bootcount_error, Environment, StoreClass, EnvBefore, EnvAfter, CountKept, SlotInUse
  <1>3. (SlotInUse /\ WritesUnproven /\ SlotsWhole /\ Counts)'
    BY DEF UpdateInv, TypeOK, Autoboot, bootcount_error, Environment, StoreClass, EnvAfter, CountKept, SlotInUse, WritesUnproven, SlotsWhole, Counts
  <1> QED BY <1>1, <1>2, <1>3 DEF UpdateInv

(* The scripts choose no other slot. *)
LEMMA DoFitbootKeeps == ASSUME UpdateInv, DoFitboot PROVE UpdateInv'
  <1>1. TypeOK'
    <2>1. LoadedFit \in [from : Slots \cup {-1}, image : Image]
      BY DEF UpdateInv, TypeOK, LoadedFit
    <2>2. kernel' \in Kernel
      <3>1. LoadedFit.from \in Slots \cup {-1} /\ LoadedFit.image \in Image
        BY <2>1
      <3>2. \/ \E r \in Reports : kernel' = [from |-> LoadedFit.from, image |-> LoadedFit.image, uImage |-> FALSE,
                                told |-> ft_board_setup(r)]
            \/ kernel' = kernel
        BY DEF DoFitboot
      <3>3. kernel \in Kernel
        BY DEF UpdateInv, TypeOK, Kernel
      <3>4. \A r : [from |-> LoadedFit.from, image |-> LoadedFit.image, uImage |-> FALSE,
                                told |-> ft_board_setup(r)] \in Kernel
        BY <3>1, HabTyped, KernelTyped, Zenon
      <3> QED BY <3>2, <3>3, <3>4, Zenon
    <2> QED BY <2>1, <2>2 DEF UpdateInv, TypeOK, DoFitboot, Kernel
  <1>2. (StoreClass /\ EnvBefore /\ EnvAfter /\ CountKept)'
    BY DEF UpdateInv, TypeOK, DoFitboot, Environment, StoreClass, EnvBefore, EnvAfter, CountKept, SlotInUse
  <1>3. (SlotInUse /\ WritesUnproven /\ SlotsWhole /\ Counts)'
    BY DEF UpdateInv, TypeOK, DoFitboot, Environment, StoreClass, EnvAfter, CountKept, SlotInUse, WritesUnproven, SlotsWhole, Counts
  <1> QED BY <1>1, <1>2, <1>3 DEF UpdateInv

(* The scripts choose no other slot. *)
LEMMA DoLegacybootKeeps == ASSUME UpdateInv, DoLegacyboot PROVE UpdateInv'
  <1>1. TypeOK'
    <2>1. kernel' \in Kernel
      <3>1. using.slot \in Slots \cup {-1} /\ image[using.slot] \in Image
        BY DEF UpdateInv, TypeOK
      <3>2. \/ \E r \in Reports : kernel' = [from |-> using.slot, image |-> image[using.slot], uImage |-> TRUE,
                                told |-> ft_board_setup(r)]
            \/ kernel' = kernel
        BY DEF DoLegacyboot
      <3>3. kernel \in Kernel
        BY DEF UpdateInv, TypeOK, Kernel
      <3>4. \A r : [from |-> using.slot, image |-> image[using.slot], uImage |-> TRUE,
                                told |-> ft_board_setup(r)] \in Kernel
        BY <3>1, HabTyped, KernelTyped, Zenon
      <3> QED BY <3>2, <3>3, <3>4, Zenon
    <2> QED BY <2>1 DEF UpdateInv, TypeOK, DoLegacyboot, Kernel
  <1>2. (StoreClass /\ EnvBefore /\ EnvAfter /\ CountKept)'
    BY DEF UpdateInv, TypeOK, DoLegacyboot, Environment, StoreClass, EnvBefore, EnvAfter, CountKept, SlotInUse
  <1>3. (SlotInUse /\ WritesUnproven /\ SlotsWhole /\ Counts)'
    BY DEF UpdateInv, TypeOK, DoLegacyboot, Environment, StoreClass, EnvAfter, CountKept, SlotInUse, WritesUnproven, SlotsWhole, Counts
  <1> QED BY <1>1, <1>2, <1>3 DEF UpdateInv

(* The agent writes the slot that is not proven. *)
LEMMA BeginInstallKeeps == ASSUME UpdateInv, BeginInstall PROVE UpdateInv'
  <1>1. TypeOK'
    BY TornIsImage DEF UpdateInv, TypeOK, BeginInstall, Running, FellBack
  <1>2. (StoreClass /\ EnvBefore /\ EnvAfter /\ CountKept)'
    BY DEF UpdateInv, TypeOK, BeginInstall, Running, FellBack, Environment, StoreClass, EnvBefore, EnvAfter, CountKept, SlotInUse
  <1>3. (SlotInUse /\ WritesUnproven /\ SlotsWhole /\ Counts)'
    BY DEF UpdateInv, TypeOK, BeginInstall, Running, FellBack, Environment, StoreClass, EnvAfter, CountKept, SlotInUse, WritesUnproven, SlotsWhole, Counts
  <1> QED BY <1>1, <1>2, <1>3 DEF UpdateInv

(* The agent writes the slot that is not proven. *)
LEMMA EndInstallKeeps == ASSUME UpdateInv, EndInstall PROVE UpdateInv'
  <1>1. TypeOK'
    BY TornIsImage DEF UpdateInv, TypeOK, EndInstall, Running
  <1>2. (StoreClass /\ EnvBefore /\ EnvAfter /\ CountKept)'
    BY DEF UpdateInv, TypeOK, EndInstall, Running, Environment, StoreClass, EnvBefore, EnvAfter, CountKept, SlotInUse
  <1>3. (SlotInUse /\ WritesUnproven /\ SlotsWhole /\ Counts)'
    BY DEF UpdateInv, TypeOK, EndInstall, Running, Environment, StoreClass, EnvAfter, CountKept, SlotInUse, WritesUnproven, SlotsWhole, Counts
  <1> QED BY <1>1, <1>2, <1>3 DEF UpdateInv

(* An activation makes the stored environment New. *)
LEMMA ActivateKeeps == ASSUME UpdateInv, Activate PROVE UpdateInv'
  <1>1. TypeOK'
    BY TornIsImage DEF UpdateInv, TypeOK, Activate, Running, Stored, Environment, MaxTries
  <1>2. (StoreClass /\ EnvBefore /\ EnvAfter /\ CountKept)'
    BY DEF UpdateInv, TypeOK, Activate, Running, Stored, Environment, StoreClass, EnvBefore, EnvAfter, CountKept, SlotInUse, WritesUnproven
  <1>3. (SlotInUse /\ WritesUnproven /\ SlotsWhole /\ Counts)'
    BY DEF UpdateInv, TypeOK, Activate, Running, Stored, Environment, StoreClass, EnvAfter, CountKept, SlotInUse, WritesUnproven, SlotsWhole, Counts
  <1> QED BY <1>1, <1>2, <1>3 DEF UpdateInv

(* A confirmation moves the proof to the slot on trial. *)
LEMMA ConfirmKeeps == ASSUME UpdateInv, Confirm PROVE UpdateInv'
  <1>1. TypeOK'
    BY TornIsImage DEF UpdateInv, TypeOK, Confirm, Running, OnTrial, Stored, Environment, MaxTries
  <1>2. (StoreClass /\ EnvBefore /\ EnvAfter /\ CountKept)'
    BY DEF UpdateInv, TypeOK, Confirm, Running, OnTrial, Stored, Environment, StoreClass, EnvBefore, EnvAfter, CountKept, SlotInUse
  <1>3. (SlotInUse /\ WritesUnproven /\ SlotsWhole /\ Counts)'
    BY DEF UpdateInv, TypeOK, Confirm, Running, OnTrial, Stored, Environment, StoreClass, EnvAfter, CountKept, SlotInUse, WritesUnproven, SlotsWhole, Counts
  <1> QED BY <1>1, <1>2, <1>3 DEF UpdateInv

(* Dropping an update keeps the slot that is running, which is proven. *)
LEMMA DropKeeps == ASSUME UpdateInv, Drop PROVE UpdateInv'
  <1>1. TypeOK'
    BY TornIsImage DEF UpdateInv, TypeOK, Drop, Running, FellBack, Stored, Environment, MaxTries
  <1>2. (StoreClass /\ EnvBefore /\ EnvAfter /\ CountKept)'
    BY DEF UpdateInv, TypeOK, Drop, Running, FellBack, Stored, Environment, StoreClass, EnvBefore, EnvAfter, CountKept, SlotInUse
  <1>3. (SlotInUse /\ WritesUnproven /\ SlotsWhole /\ Counts)'
    BY DEF UpdateInv, TypeOK, Drop, Running, FellBack, Stored, Environment, StoreClass, EnvAfter, CountKept, SlotInUse, WritesUnproven, SlotsWhole, Counts
  <1> QED BY <1>1, <1>2, <1>3 DEF UpdateInv

(* Leaving Linux changes nothing that is stored. *)
LEMMA RebootKeeps == ASSUME UpdateInv, Reboot PROVE UpdateInv'
  <1>1. TypeOK'
    BY TornIsImage DEF UpdateInv, TypeOK, Reboot
  <1>2. (StoreClass /\ EnvBefore /\ EnvAfter /\ CountKept)'
    BY DEF UpdateInv, TypeOK, Reboot, Environment, StoreClass, EnvBefore, EnvAfter, CountKept, SlotInUse
  <1>3. (SlotInUse /\ WritesUnproven /\ SlotsWhole /\ Counts)'
    BY DEF UpdateInv, TypeOK, Reboot, Environment, StoreClass, EnvAfter, CountKept, SlotInUse, WritesUnproven, SlotsWhole, Counts
  <1> QED BY <1>1, <1>2, <1>3 DEF UpdateInv

(* Leaving Linux changes nothing that is stored. *)
LEMMA WatchdogKeeps == ASSUME UpdateInv, Watchdog PROVE UpdateInv'
  <1>1. TypeOK'
    BY TornIsImage DEF UpdateInv, TypeOK, Watchdog
  <1>2. (StoreClass /\ EnvBefore /\ EnvAfter /\ CountKept)'
    BY DEF UpdateInv, TypeOK, Watchdog, Environment, StoreClass, EnvBefore, EnvAfter, CountKept, SlotInUse
  <1>3. (SlotInUse /\ WritesUnproven /\ SlotsWhole /\ Counts)'
    BY DEF UpdateInv, TypeOK, Watchdog, Environment, StoreClass, EnvAfter, CountKept, SlotInUse, WritesUnproven, SlotsWhole, Counts
  <1> QED BY <1>1, <1>2, <1>3 DEF UpdateInv

(* A power cut changes nothing that is stored. *)
LEMMA PowerCutKeeps == ASSUME UpdateInv, PowerCut PROVE UpdateInv'
  <1>1. TypeOK'
    BY TornIsImage DEF UpdateInv, TypeOK, PowerCut, MayFail
  <1>2. (StoreClass /\ EnvBefore /\ EnvAfter /\ CountKept)'
    BY DEF UpdateInv, TypeOK, PowerCut, Environment, StoreClass, EnvBefore, EnvAfter, CountKept, SlotInUse
  <1>3. (SlotInUse /\ WritesUnproven /\ SlotsWhole /\ Counts)'
    BY DEF UpdateInv, TypeOK, PowerCut, Environment, StoreClass, EnvAfter, CountKept, SlotInUse, WritesUnproven, SlotsWhole, Counts
  <1> QED BY <1>1, <1>2, <1>3 DEF UpdateInv

-----------------------------------------------------------------------------
LEMMA InitEstablishes == ASSUME Init PROVE UpdateInv
  <1>1. image[0] \in Image \ {Torn} /\ image \in [Slots -> Image]
    <2> DEFINE signed == [fit |-> "signed", uImage |-> FALSE, works |-> TRUE]
               legacy == [fit |-> "none", uImage |-> TRUE, works |-> TRUE]
    <2>1. signed \in Image \ {Torn} /\ legacy \in Image \ {Torn}
      BY DEF Image, Torn
    <2>2. \E x \in {signed, legacy}, y \in Image :
            image = [s \in Slots |-> IF s = 0 THEN x ELSE y]
      BY <2>1, TornIsImage DEF Init, Fresh, Migrated
    <2> QED BY <2>1, <2>2
  <1>2. /\ store \in Environment /\ proven = 0
        /\ Idle(store) \/ (New(store) /\ image[1] # Torn)
    BY DEF Init, Fresh, Migrated, Stored, Environment
  <1>3. TypeOK
    BY <1>1, <1>2, TornIsImage DEF Init, TypeOK, NoCmd, NoCommand, NoFit, NoKernel, MaxTries
  <1>4. StoreClass /\ EnvBefore /\ EnvAfter /\ CountKept /\ SlotInUse /\ WritesUnproven
    BY <1>2 DEF Init, StoreClass, EnvBefore, EnvAfter, CountKept, SlotInUse, WritesUnproven
  <1>5. SlotsWhole /\ Counts
    BY <1>1, <1>2, <1>3 DEF Init, TypeOK, SlotsWhole, Counts, Environment
  <1> QED BY <1>3, <1>4, <1>5 DEF UpdateInv

LEMMA StepKeeps == ASSUME UpdateInv, [Next]_vars PROVE UpdateInv'
  <1>1. CASE UBoot
    BY <1>1, PowerOnKeeps, ResetKeeps, BoardLateInitKeeps, GenerateSwitchKeeps, GenerateSameKeeps,
       CountTrialKeeps, CountOtherKeeps, AutobootKeeps, DoFitbootKeeps, DoLegacybootKeeps DEF UBoot
  <1>2. CASE Agent
    BY <1>2, BeginInstallKeeps, EndInstallKeeps, ActivateKeeps, ConfirmKeeps, DropKeeps, RebootKeeps
       DEF Agent
  <1>3. CASE Watchdog BY <1>3, WatchdogKeeps
  <1>4. CASE PowerCut BY <1>4, PowerCutKeeps
  <1>5. CASE UNCHANGED vars
    BY <1>5 DEF UpdateInv, TypeOK, StoreClass, EnvBefore, EnvAfter, CountKept, SlotInUse,
                WritesUnproven, SlotsWhole, Counts, vars
  <1> QED BY <1>1, <1>2, <1>3, <1>4, <1>5 DEF Next

LEMMA UpdateInvariant == Spec => []UpdateInv
  <1>1. Init => UpdateInv BY InitEstablishes
  <1>2. UpdateInv /\ [Next]_vars => UpdateInv' BY StepKeeps
  <1> QED BY <1>1, <1>2, PTL DEF Spec

(* Every variable keeps its type, whatever the agent installs.             *)
THEOREM UpdateTypeCorrect == Spec => []TypeOK
  BY UpdateInvariant, PTL DEF UpdateInv

(* board_generate_bootcmd gives a firmware on trial at most BootLimit      *)
(* boots and one for each failed env_save, however often power is cut.     *)
THEOREM TrialsAreBounded == Spec => []TrialsBounded
  <1>1. UpdateInv => TrialsBounded BY DEF UpdateInv, Counts, TrialsBounded
  <1> QED BY <1>1, UpdateInvariant, PTL

(* altbootcmd, and bootcmd when no upgrade is under way, boot the slot     *)
(* that last ran confirmed.                                                *)
THEOREM FallbackIsCorrect == Spec => []FallbackIsProven
  <1>1. UpdateInv => FallbackIsProven BY DEF UpdateInv, SlotInUse, FallbackIsProven
  <1> QED BY <1>1, UpdateInvariant, PTL

(* No generated command boots a slot that an installation left half        *)
(* written.                                                                *)
THEOREM OnlyWholeSlotsBoot == Spec => []NeverBootsHalfWritten
  <1>1. UpdateInv => NeverBootsHalfWritten BY DEF UpdateInv, SlotInUse, NeverBootsHalfWritten
  <1> QED BY <1>1, UpdateInvariant, PTL

-----------------------------------------------------------------------------
(* Linux learns the HAB state with the kernel, and a legacy kernel starts  *)
(* from an altbootcmd that this boot generated.                            *)
Told == kernel.told = 1 => hardware.closed /\ kernel.image.fit = "signed" /\ ~kernel.uImage

OpenUpgrade == cached_hab_state = 0 /\ env.upgrade_available = 1
LegacyAllowed ==
  /\ pc \in {"count", "autoboot"} /\ cmd.legacy => OpenUpgrade
  /\ pc \in {"fitboot", "legacyboot", "linux"} /\ using.legacy => OpenUpgrade
  /\ pc = "legacyboot" => using.legacy
  /\ pc = "linux" /\ kernel.uImage => using.legacy

LEMMA ToldKept == ASSUME Told, [Next]_vars PROVE Told'
  <1>1. CASE PowerOn \/ Reset BY <1>1 DEF Told, PowerOn, Reset, StartUBoot, NoKernel
  <1>2. CASE DoFitboot
    BY <1>2 DEF Told, DoFitboot, Authentic, ft_board_setup, get_hab_state
  <1>3. CASE DoLegacyboot
    BY <1>3 DEF Told, DoLegacyboot, ft_board_setup, get_hab_state
  <1>4. CASE UNCHANGED <<kernel, hardware>> BY <1>4 DEF Told
  <1> QED
    BY <1>1, <1>2, <1>3, <1>4
       DEF Next, UBoot, Agent, BoardLateInit, GenerateSwitch, GenerateSame, CountTrial, CountOther,
           Autoboot, BeginInstall, EndInstall, Activate, Confirm, Drop, Reboot, Watchdog, PowerCut, vars

LEMMA LegacyKept == ASSUME UpdateInv, LegacyAllowed, [Next]_vars PROVE LegacyAllowed'
  <1> USE DEF LegacyAllowed, OpenUpgrade
  <1>1. CASE PowerOn \/ Reset BY <1>1 DEF PowerOn, Reset, StartUBoot
  <1>2. CASE BoardLateInit BY <1>2 DEF BoardLateInit
  <1>3. CASE GenerateSwitch
    BY <1>3 DEF GenerateSwitch, env_save, Switched, Generated, UpdateInv, TypeOK, Environment
  <1>4. CASE GenerateSame BY <1>4 DEF GenerateSame, Generated
  <1>5. CASE CountTrial
    BY <1>5 DEF CountTrial, env_save, UpdateInv, TypeOK, Environment
  <1>6. CASE CountOther
    BY <1>6 DEF CountOther, UpdateInv, TypeOK, Environment
  <1>7. CASE Autoboot BY <1>7 DEF Autoboot
  <1>8. CASE DoFitboot
    <2>1. /\ kernel'.uImage = FALSE \/ pc' # "linux"
          /\ pc' \in {"linux", "legacyboot", "reset"}
          /\ pc' = "legacyboot" => using.legacy
          /\ UNCHANGED <<env, cached_hab_state, using>> /\ pc = "fitboot"
      BY <1>8 DEF DoFitboot
    <2> QED BY <2>1
  <1>9. CASE DoLegacyboot BY <1>9 DEF DoLegacyboot
  <1>10. CASE Agent
    BY <1>10 DEF Agent, BeginInstall, EndInstall, Activate, Confirm, Drop, Reboot
  <1>11. CASE Watchdog \/ PowerCut BY <1>11 DEF Watchdog, PowerCut
  <1>12. CASE UNCHANGED vars BY <1>12 DEF vars
  <1> QED
    BY <1>1, <1>2, <1>3, <1>4, <1>5, <1>6, <1>7, <1>8, <1>9, <1>10, <1>11, <1>12 DEF Next, UBoot

(* ft_board_setup tells Linux that the board is secure only when bootm     *)
(* authenticated the kernel.                                               *)
THEOREM SecureKernelsAreSigned == Spec => []SecureMeansSigned
  <1>1. Init => Told BY DEF Init, Told, NoKernel
  <1>2. Told /\ [Next]_vars => Told' BY ToldKept
  <1>3. Told => SecureMeansSigned BY DEF Told, SecureMeansSigned
  <1> QED BY <1>1, <1>2, <1>3, PTL DEF Spec

(* A legacy kernel runs only if HAB reported an open board before the      *)
(* commands of this boot were generated, with an upgrade under way.        *)
THEOREM LegacyNeedsOpenBoard == Spec => []LegacyOnlyOnOpenBoard
  <1>1. Init => LegacyAllowed BY DEF Init, LegacyAllowed
  <1>2. UpdateInv /\ LegacyAllowed /\ [Next]_vars => LegacyAllowed' BY LegacyKept
  <1>3. LegacyAllowed => LegacyOnlyOnOpenBoard
    BY DEF LegacyAllowed, OpenUpgrade, LegacyOnlyOnOpenBoard
  <1> QED BY <1>1, <1>2, <1>3, UpdateInvariant, PTL DEF Spec
-----------------------------------------------------------------------------
(* do_fitboot starts what is at fit_addr even if the load has failed.  An    *)
(* update brings a fitImage, so a load fails only in a slot with the legacy   *)
(* firmware of an open board, which is never on trial and, once the switch is *)
(* made, is reached by altbootcmd only.                                     *)
ImagesHaveFit == \A i \in Images : i.fit # "none"

LegacySlot(s) == image[s].fit = "none" /\ image[s] # Torn
LegacyIsOpen == hardware.closed => \A s \in Slots : ~LegacySlot(s)
LegacyIsProven ==
  /\ Idle(store) => ~LegacySlot(proven)
  /\ New(store) \/ Trial(store) => ~LegacySlot(Other(proven))
  /\ writing = "ended" => ~LegacySlot(Other(proven))
LegacyByAlt ==
  pc \in {"fitboot", "legacyboot", "linux"} => using.alt \/ ~LegacySlot(using.slot)
MemoryIsNew ==
  pc \in {"late_init", "generate", "count", "autoboot", "fitboot"} => hardware.retains \/ ram = NoFit
MatchInv == LegacyIsOpen /\ LegacyIsProven /\ LegacyByAlt /\ MemoryIsNew /\ KernelMatchesSlot

LEMMA MatchInitially == ASSUME ImagesHaveFit, Init PROVE MatchInv
  <1>1. LegacyIsOpen /\ LegacyIsProven
    <2>1. CASE Fresh
      BY <2>1 DEF Init, Fresh, LegacyIsOpen, LegacyIsProven, LegacySlot, Stored, Torn
    <2>2. CASE Migrated
      BY <2>2 DEF Init, Migrated, ImagesHaveFit, LegacyIsOpen, LegacyIsProven, LegacySlot, Stored
    <2> QED BY <2>1, <2>2 DEF Init
  <1> QED BY <1>1 DEF Init, MatchInv, LegacyByAlt, MemoryIsNew, KernelMatchesSlot

LEMMA FitbootMatches == ASSUME UpdateInv, MatchInv, DoFitboot PROVE MatchInv'
  <1>1. /\ using.slot \in Slots /\ image[using.slot] # Torn
        /\ hardware.retains \/ ram = NoFit
        /\ LegacySlot(using.slot) => using.alt /\ ~hardware.closed
    BY DEF UpdateInv, TypeOK, SlotInUse, MatchInv, MemoryIsNew, LegacyByAlt, LegacyIsOpen, DoFitboot
  <1>2. LoadedFit # NoFit =>
          LoadedFit.from = using.slot \/ (LegacyFallback /\ ~hardware.closed /\ hardware.retains)
    BY <1>1 DEF LoadedFit, LegacySlot, LegacyFallback
  <1>3. pc' = "linux" => LoadedFit # NoFit /\ kernel'.from = LoadedFit.from
    BY DEF DoFitboot
  <1>4. pc = "fitboot" /\ pc' \in {"linux", "legacyboot", "reset"}
        /\ UNCHANGED <<hardware, store, proven, writing, image, using>>
    BY DEF DoFitboot
  <1>5. KernelMatchesSlot'
    BY <1>2, <1>3, <1>4 DEF KernelMatchesSlot, LegacyFallback
  <1>6. (LegacyIsOpen /\ LegacyIsProven /\ LegacyByAlt /\ MemoryIsNew)'
    BY <1>4 DEF MatchInv, LegacyIsOpen, LegacyIsProven, LegacyByAlt, MemoryIsNew, LegacySlot
  <1> QED BY <1>5, <1>6 DEF MatchInv

(* What is installed has a fitImage, and what is confirmed or dropped too. *)
LEMMA AgentMatches == ASSUME ImagesHaveFit, UpdateInv, MatchInv, Agent PROVE MatchInv'
  <1> DEFINE s == using.slot
  <1>1. /\ pc = "linux" /\ pc' \in {"linux", "reset"} /\ UNCHANGED <<hardware, using, kernel>>
    BY DEF Agent, BeginInstall, EndInstall, Activate, Confirm, Drop, Reboot, Running
  <1>2. image' = image \/ \E i \in Images \cup {Torn} : image' = [image EXCEPT ![Other(s)] = i]
    BY DEF Agent, BeginInstall, EndInstall, Activate, Confirm, Drop, Reboot
  <1>3. image \in [Slots -> Image] /\ s \in Slots /\ proven \in Slots
    BY DEF UpdateInv, TypeOK
  <1>4. image'[s] = image[s]
    BY <1>2, <1>3
  <1>5. \A t \in Slots : LegacySlot(t)' => LegacySlot(t)
    BY <1>2, <1>3 DEF LegacySlot, ImagesHaveFit
  <1>6. LegacyIsProven'
    <2>1. CASE Reboot
      BY <2>1 DEF Reboot, MatchInv, LegacyIsProven, LegacySlot
    <2>2. CASE BeginInstall
      BY <1>3, <1>5, <2>2 DEF BeginInstall, MatchInv, LegacyIsProven
    <2>3. CASE EndInstall
      <3>1. s = proven /\ UNCHANGED <<store, proven>>
        BY <2>3 DEF EndInstall, UpdateInv, WritesUnproven
      <3>2. ~LegacySlot(Other(proven))'
        BY <1>3, <2>3, <3>1 DEF EndInstall, ImagesHaveFit, LegacySlot
      <3> QED BY <1>3, <1>5, <3>1, <3>2 DEF MatchInv, LegacyIsProven
    <2>4. CASE Activate
      <3>1. s = proven /\ writing = "ended" /\ UNCHANGED <<image, proven>> /\ store' = Stored(s, 1, 1)
        BY <2>4 DEF Activate, UpdateInv, WritesUnproven
      <3> QED BY <1>3, <2>4, <3>1 DEF Activate, MatchInv, LegacyIsProven, LegacySlot, Stored
    <2>5. CASE Confirm
      <3>1. Trial(store) /\ s = Other(proven) /\ UNCHANGED <<image, writing>> /\ proven' = s
            /\ store' = Stored(s, 0, 0)
        BY <2>5 DEF Confirm, OnTrial, UpdateInv, StoreClass
      <3>2. writing # "ended"
        BY <1>3, <3>1 DEF UpdateInv, WritesUnproven
      <3> QED BY <1>3, <3>1, <3>2 DEF MatchInv, LegacyIsProven, LegacySlot, Stored
    <2>6. CASE Drop
      <3>1. s = proven /\ UNCHANGED <<image, proven, writing>> /\ store' = Stored(s, 0, 0)
            /\ image[s].fit # "none" /\ writing = "no"
        BY <1>3, <2>6 DEF Drop, FellBack, UpdateInv, StoreClass
      <3> QED BY <3>1 DEF LegacyIsProven, LegacySlot, Stored
    <2> QED BY <2>1, <2>2, <2>3, <2>4, <2>5, <2>6 DEF Agent
  <1>7. (LegacyIsOpen /\ MemoryIsNew)'
    BY <1>1, <1>5 DEF MatchInv, LegacyIsOpen, MemoryIsNew
  <1>8. (LegacyByAlt /\ KernelMatchesSlot)'
    BY <1>1, <1>3, <1>4, <1>5 DEF MatchInv, LegacyByAlt, KernelMatchesSlot, LegacyFallback
  <1> QED BY <1>6, <1>7, <1>8 DEF MatchInv

(* bootcmd leads to a legacy slot only before the switch. *)
LEMMA AutobootMatches == ASSUME UpdateInv, MatchInv, Autoboot PROVE MatchInv'
  <1>1. /\ pc = "autoboot" /\ pc' = "fitboot" /\ UNCHANGED <<hardware, store, proven, writing, image, ram>>
        /\ using'.alt \/ using'.slot = cmd.boot
    BY DEF Autoboot
  <1>2. ~LegacySlot(cmd.boot)
    BY <1>1 DEF UpdateInv, TypeOK, EnvAfter, StoreClass, MatchInv, LegacyIsProven
  <1>3. LegacyByAlt'
    BY <1>1, <1>2 DEF LegacyByAlt, LegacySlot
  <1> QED BY <1>1, <1>3 DEF MatchInv, LegacyIsOpen, LegacyIsProven, MemoryIsNew, KernelMatchesSlot, LegacySlot

LEMMA MatchKept == ASSUME ImagesHaveFit, UpdateInv, MatchInv, [Next]_vars PROVE MatchInv'
  <1> USE DEF MatchInv, LegacyIsOpen, LegacyIsProven, LegacyByAlt, MemoryIsNew, KernelMatchesSlot, LegacyFallback,
              LegacySlot
  <1>1. CASE PowerOn \/ Reset
    <2>1. (ram' = NoFit \/ hardware.retains) /\ pc' = "late_init"
          /\ UNCHANGED <<hardware, store, proven, writing, image>>
      BY <1>1 DEF PowerOn, Reset, StartUBoot
    <2> QED BY <2>1
  <1>2. CASE BoardLateInit \/ GenerateSame \/ CountOther
    <2>1. /\ pc \in {"late_init", "generate", "count"}
          /\ pc' \in {"generate", "count", "autoboot"}
          /\ UNCHANGED <<hardware, store, proven, writing, image, ram>>
      BY <1>2 DEF BoardLateInit, GenerateSame, CountOther
    <2> QED BY <2>1
  <1>3. CASE GenerateSwitch \/ CountTrial
    <2>1. /\ pc \in {"generate", "count"} /\ pc' \in {"count", "autoboot"}
          /\ UNCHANGED <<hardware, proven, writing, image, ram>>
      BY <1>3 DEF GenerateSwitch, CountTrial, env_save
    <2>2. (New(store) \/ Trial(store)) /\ ~Idle(store)'
      <3>1. store.upgrade_available = 1 /\ env.upgrade_available = 1
        BY <1>3 DEF GenerateSwitch, CountTrial, Untried, UpdateInv, EnvBefore, EnvAfter
      <3>2. store' = store \/ store'.upgrade_available = 1
        BY <1>3, <3>1 DEF GenerateSwitch, CountTrial, env_save, Switched, UpdateInv, TypeOK, Environment
      <3> QED BY <3>1, <3>2 DEF UpdateInv, StoreClass
    <2> QED BY <2>1, <2>2
  <1>4. CASE Autoboot BY <1>4, AutobootMatches
  <1>5. CASE DoFitboot BY <1>5, FitbootMatches
  <1>6. CASE DoLegacyboot
    <2>1. /\ pc = "legacyboot" /\ pc' = "linux" => kernel'.from = using.slot
          /\ pc' \in {"linux", "reset"} /\ UNCHANGED <<hardware, store, proven, writing, image, using>>
      BY <1>6 DEF DoLegacyboot
    <2> QED BY <1>6, <2>1 DEF DoLegacyboot
  <1>7. CASE Agent BY <1>7, AgentMatches
  <1>8. CASE Watchdog BY <1>8 DEF Watchdog
  <1>9. CASE PowerCut BY <1>9 DEF PowerCut
  <1>10. CASE UNCHANGED vars BY <1>10 DEF vars
  <1> QED BY <1>1, <1>2, <1>3, <1>4, <1>5, <1>6, <1>7, <1>8, <1>9, <1>10 DEF Next, UBoot

(* The slot that the kernel is told on its command line is the one that it   *)
(* was loaded from, whatever memory keeps over resets, except in the fallback *)
(* of an open board to its legacy slot.                                     *)
THEOREM KernelsMatchTheirSlot == ASSUME ImagesHaveFit PROVE Spec => []KernelMatchesSlot
  <1>1. Init => MatchInv BY MatchInitially
  <1>2. UpdateInv /\ MatchInv /\ [Next]_vars => MatchInv' BY MatchKept
  <1>3. MatchInv => KernelMatchesSlot BY DEF MatchInv
  <1> QED BY <1>1, <1>2, <1>3, UpdateInvariant, PTL DEF Spec
=============================================================================
