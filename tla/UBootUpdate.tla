----------------------------- MODULE UBootUpdate -----------------------------
(***************************************************************************)
(* The A/B boot selection of the secured himx0294 boards: board_late_init  *)
(* in hipos-cyber-security/himx0294.c, the boot scripts of himx0294.h, and *)
(* around them the parts that are not in this repository but that the code *)
(* is written for: U-Boot's boot counter and autoboot, the stored          *)
(* environment, and the update agent that runs under Linux.                *)
(*                                                                         *)
(* A slot is the number the variable "firmware" holds: 0 is a, 1 is b.     *)
(***************************************************************************)
EXTENDS Integers

CONSTANTS
  BootLimit,    \* CONFIG_BOOTCOUNT_BOOTLIMIT
  Images,       \* the images an update may install
  Hardwares,    \* the boards: is the fuse that imx_hab_is_enabled reads blown,
                \* and may memory survive a reset without a power cut
  Reports,      \* what hab_rvt_report_status may answer
  MaxFaults     \* bound: power cuts and failed env_save calls in a behaviour

Slots == {0, 1}
Other(s) == 1 - s

(* What a boot partition and its root fs volume hold. *)
Image == [fit : {"none", "signed", "unsigned"}, uImage : BOOLEAN, works : BOOLEAN]
Torn == [fit |-> "none", uImage |-> FALSE, works |-> FALSE]

HabReport == [result : {"success", "other"}, config : {"open", "closed", "other"},
              state : {"nonsecure", "trusted", "other"}]

ASSUME UpdateAssumption ==
  /\ BootLimit \in Nat \ {0}
  /\ MaxFaults \in Nat
  /\ Hardwares \subseteq [closed : BOOLEAN, retains : BOOLEAN]
  /\ Images \subseteq Image \ {Torn}
  /\ Reports \subseteq HabReport

VARIABLES
  hardware,          \* the board, which never changes
  store,             \* the environment on the eMMC
  env,               \* the environment in memory
  cached_hab_state,
  cmd,               \* bootcmd and altbootcmd, as generated
  ram,               \* what is at fit_addr: a slot's fitImage, or nothing useful
  pc,                \* how far the board is
  using,             \* the boot command that was chosen
  kernel,            \* the kernel that was started
  image,             \* image[s]: the contents of slot s
  writing,           \* what the update agent has done to the other slot
  proven,            \* history: the slot that last ran confirmed
  tries,             \* history: trial boots since the last activation
  lost,              \* history: env_save calls that failed
  cuts               \* power cuts so far

vars == <<hardware, store, env, cached_hab_state, cmd, ram, pc, using, kernel, image,
          writing, proven, tries, lost, cuts>>
disk == <<hardware, store, image>>
board == <<env, cached_hab_state, cmd, ram, using, kernel>>
history == <<proven, tries, lost, cuts>>

(* The boot counter only matters up to the first value above the limit. *)
Counted(n) == IF n > BootLimit THEN n ELSE n + 1
Environment == [firmware : Slots, upgrade_available : {0, 1}, ustate : {0, 1, 2},
                bootcount : 0 .. BootLimit + 1]
Stored(firmware, upgrade_available, ustate) ==
  [firmware |-> firmware, upgrade_available |-> upgrade_available,
   ustate |-> ustate, bootcount |-> 0]

NoCmd == [boot |-> 0, alt |-> 0, legacy |-> FALSE]
NoCommand == [slot |-> 0, alt |-> FALSE, legacy |-> FALSE]
NoFit == [from |-> -1, image |-> Torn]
NoKernel == [from |-> -1, image |-> Torn, uImage |-> FALSE, told |-> -1]

(* One more power cut or failed save is within the bound. *)
MayFail == lost + cuts < MaxFaults

-----------------------------------------------------------------------------
(* A board that left the factory with firmware in slot a only; or an open  *)
(* board whose legacy firmware in slot a has just installed this boot      *)
(* loader and the first signed firmware in slot b.                         *)
Fresh ==
  /\ store = Stored(0, 0, 0)
  /\ image = [s \in Slots |->
                IF s = 0 THEN [fit |-> "signed", uImage |-> FALSE, works |-> TRUE] ELSE Torn]

Migrated ==
  /\ ~hardware.closed
  /\ store = Stored(0, 1, 1)
  /\ \E i \in Images :
       image = [s \in Slots |->
                  IF s = 0 THEN [fit |-> "none", uImage |-> TRUE, works |-> TRUE] ELSE i]

Init ==
  /\ hardware \in Hardwares
  /\ Fresh \/ Migrated
  /\ env = store
  /\ cached_hab_state = -1
  /\ cmd = NoCmd
  /\ ram = NoFit
  /\ pc = "off"
  /\ using = NoCommand
  /\ kernel = NoKernel
  /\ writing = "no"
  /\ proven = 0
  /\ tries = 0
  /\ lost = 0
  /\ cuts = 0

(* U-Boot starts: the environment is loaded and the statics are as built. *)
StartUBoot ==
  /\ env' = store
  /\ cached_hab_state' = -1
  /\ cmd' = NoCmd
  /\ using' = NoCommand
  /\ kernel' = NoKernel
  /\ pc' = "late_init"
  /\ UNCHANGED <<disk, writing, history>>

PowerOn == pc = "off" /\ StartUBoot /\ ram' = NoFit
Reset == pc = "reset" /\ StartUBoot /\ ram' \in {NoFit} \cup (IF hardware.retains THEN {ram} ELSE {})

(* board_late_init: the HAB state is cached before the commands are generated. *)
SlipFuse(r) ==
  CASE r = [result |-> "success", config |-> "open", state |-> "nonsecure"] -> 0
    [] r = [result |-> "success", config |-> "closed", state |-> "trusted"] -> 1
    [] OTHER -> -1
get_hab_state(r) ==
  CASE ~hardware.closed /\ r = [result |-> "success", config |-> "open", state |-> "nonsecure"] -> 0
    [] hardware.closed /\ r = [result |-> "success", config |-> "closed", state |-> "trusted"] -> 1
    [] OTHER -> -1

BoardLateInit ==
  /\ pc = "late_init"
  /\ \E r \in Reports : cached_hab_state' = get_hab_state(r)
  /\ pc' = "generate"
  /\ UNCHANGED <<disk, env, cmd, ram, using, kernel, writing, history>>

(* env_save: the redundant copy makes it all or nothing; nobody reads its result. *)
env_save(e) ==
  /\ env' = e
  /\ \/ store' = e /\ UNCHANGED lost
     \/ MayFail /\ lost' = lost + 1 /\ UNCHANGED store

SlipKeepsUstate(e) == [e EXCEPT !.firmware = Other(@)]
SlipNextSlot(e) == [e EXCEPT !.firmware = @ + 1, !.ustate = 2]
Switched(e) == [e EXCEPT !.firmware = Other(@), !.ustate = 2]

SlipLegacyUnknown(e, hab) == [boot |-> e.firmware, alt |-> Other(e.firmware),
                              legacy |-> e.upgrade_available = 1 /\ hab # 1]
SlipNoLegacy(e, hab) == [boot |-> e.firmware, alt |-> Other(e.firmware), legacy |-> FALSE]
Generated(e, hab) ==
  [boot |-> e.firmware, alt |-> Other(e.firmware),
   legacy |-> e.upgrade_available = 1 /\ hab = 0]

SlipIgnoresUstate(e) == e.upgrade_available = 1
Untried(e) == e.upgrade_available = 1 /\ e.ustate = 1

GenerateSwitch ==
  /\ pc = "generate" /\ Untried(env)
  /\ env_save(Switched(env))
  /\ cmd' = Generated(Switched(env), cached_hab_state)
  /\ pc' = "count"
  /\ UNCHANGED <<cached_hab_state, ram, using, kernel, hardware, image,
                 writing, proven, tries, cuts>>

GenerateSame ==
  /\ pc = "generate" /\ ~Untried(env)
  /\ cmd' = Generated(env, cached_hab_state)
  /\ pc' = "count"
  /\ UNCHANGED <<disk, env, cached_hab_state, ram, using, kernel, writing, history>>

(* bootcount_inc: with no upgrade under way the counter is not stored. *)
CountTrial ==
  /\ pc = "count" /\ env.upgrade_available = 1
  /\ env_save([env EXCEPT !.bootcount = Counted(@)])
  /\ pc' = "autoboot"
  /\ UNCHANGED <<cached_hab_state, cmd, ram, using, kernel, hardware, image,
                 writing, proven, tries, cuts>>

CountOther ==
  /\ pc = "count" /\ env.upgrade_available = 0
  /\ env' = [env EXCEPT !.bootcount = 1]
  /\ pc' = "autoboot"
  /\ UNCHANGED <<disk, cached_hab_state, cmd, ram, using, kernel, writing, history>>

SlipLateLimit(e) == e.upgrade_available = 1 /\ e.bootcount > BootLimit + 1
bootcount_error(e) == e.upgrade_available = 1 /\ e.bootcount > BootLimit

MaxTries == BootLimit + MaxFaults + 1

Autoboot ==
  /\ pc = "autoboot"
  /\ IF bootcount_error(env)
     THEN /\ using' = [slot |-> cmd.alt, alt |-> TRUE, legacy |-> cmd.legacy]
          /\ UNCHANGED tries
     ELSE /\ using' = [slot |-> cmd.boot, alt |-> FALSE, legacy |-> FALSE]
          /\ tries' = IF env.upgrade_available = 1 /\ tries < MaxTries THEN tries + 1 ELSE tries
  /\ pc' = "fitboot"
  /\ UNCHANGED <<disk, env, cached_hab_state, cmd, ram, kernel, writing, proven, lost, cuts>>

(* bootm of a closed board starts only what is signed. *)
Authentic(i) == hardware.closed => i.fit = "signed"

(* bootm asks HAB once more, and writes what it makes of the answer into   *)
(* the device tree as /chosen iris,hab-state: 1 for secure, 0 for insecure. *)
ft_board_setup(r) == get_hab_state(r)

(* do_fitboot: a load that fails leaves at fit_addr what was there, and    *)
(* bootm is run in either case.                                            *)
SlipPartA == IF image[0].fit = "none" THEN ram ELSE [from |-> 0, image |-> image[0]]
LoadedFit == IF image[using.slot].fit = "none" THEN ram
             ELSE [from |-> using.slot, image |-> image[using.slot]]

DoFitboot ==
  /\ pc = "fitboot"
  /\ ram' = LoadedFit
  /\ IF LoadedFit # NoFit /\ Authentic(LoadedFit.image)
     THEN /\ \E r \in Reports :
               kernel' = [from |-> LoadedFit.from, image |-> LoadedFit.image, uImage |-> FALSE,
                          told |-> ft_board_setup(r)]
          /\ pc' = "linux"
     ELSE /\ pc' = IF using.legacy THEN "legacyboot" ELSE "reset"
          /\ UNCHANGED kernel
  /\ UNCHANGED <<disk, env, cached_hab_state, cmd, using, writing, history>>

DoLegacyboot ==
  /\ pc = "legacyboot"
  /\ IF image[using.slot].uImage /\ ~hardware.closed
     THEN /\ \E r \in Reports :
               kernel' = [from |-> using.slot, image |-> image[using.slot], uImage |-> TRUE,
                          told |-> ft_board_setup(r)]
          /\ pc' = "linux"
     ELSE pc' = "reset" /\ UNCHANGED kernel
  /\ UNCHANGED <<disk, env, cached_hab_state, cmd, ram, using, writing, history>>

-----------------------------------------------------------------------------
(* Linux and the update agent, as far as the boot loader relies on them.   *)
Running == pc = "linux" /\ kernel.image.works
FellBack == store.upgrade_available = 1 /\ store.ustate = 2 /\ using.slot # store.firmware
OnTrial == store.upgrade_available = 1 /\ store.ustate = 2 /\ using.slot = store.firmware

(* The agent writes the other slot, when the running one is confirmed. *)
BeginInstall ==
  /\ Running /\ writing = "no"
  /\ (store.upgrade_available = 0 \/ FellBack)
  /\ image' = [image EXCEPT ![Other(using.slot)] = Torn]
  /\ writing' = "begun"
  /\ UNCHANGED <<hardware, store, board, pc, history>>

EndInstall ==
  /\ Running /\ writing = "begun"
  /\ \E i \in Images : image' = [image EXCEPT ![Other(using.slot)] = i]
  /\ writing' = "ended"
  /\ UNCHANGED <<hardware, store, board, pc, history>>

Activate ==
  /\ Running /\ writing = "ended"
  /\ store' = Stored(using.slot, 1, 1)
  /\ writing' = "no"
  /\ tries' = 0
  /\ UNCHANGED <<hardware, image, board, pc, proven, lost, cuts>>

(* The firmware on trial reports success; or the old one drops the update,  *)
(* which it cannot do in a legacy slot: bootcmd never boots it.              *)
Confirm ==
  /\ Running /\ OnTrial
  /\ store' = Stored(using.slot, 0, 0)
  /\ proven' = using.slot
  /\ tries' = 0
  /\ UNCHANGED <<hardware, image, board, pc, writing, lost, cuts>>

Drop ==
  /\ Running /\ FellBack /\ image[using.slot].fit # "none" /\ writing = "no"
  /\ store' = Stored(using.slot, 0, 0)
  /\ tries' = 0
  /\ UNCHANGED <<hardware, image, board, pc, writing, proven, lost, cuts>>

Reboot ==
  /\ Running
  /\ pc' = "reset" /\ writing' = "no"
  /\ UNCHANGED <<disk, board, history>>

(* The watchdog ends a kernel that does not come up. *)
Watchdog ==
  /\ pc = "linux" /\ ~kernel.image.works
  /\ pc' = "reset"
  /\ UNCHANGED <<disk, board, writing, history>>

PowerCut ==
  /\ pc # "off" /\ MayFail
  /\ pc' = "off" /\ writing' = "no"
  /\ cuts' = cuts + 1
  /\ UNCHANGED <<disk, board, proven, tries, lost>>

UBoot == PowerOn \/ Reset \/ BoardLateInit \/ GenerateSwitch \/ GenerateSame \/ CountTrial
         \/ CountOther \/ Autoboot \/ DoFitboot \/ DoLegacyboot
Agent == BeginInstall \/ EndInstall \/ Activate \/ Confirm \/ Drop \/ Reboot

Next == UBoot \/ Agent \/ Watchdog \/ PowerCut
Spec == Init /\ [][Next]_vars

(* The boot loader runs, and the hardware watchdog does its work.  Nothing  *)
(* obliges the agent to do anything.                                        *)
FairSpec == Spec /\ WF_vars(UBoot) /\ WF_vars(Watchdog)

-----------------------------------------------------------------------------
(* Type invariant of the boot loader's and the update's state. *)
TypeOK ==
  /\ hardware \in Hardwares
  /\ store \in Environment /\ env \in Environment
  /\ cached_hab_state \in {-1, 0, 1}
  /\ cmd \in [boot : Slots, alt : Slots, legacy : BOOLEAN]
  /\ ram \in [from : Slots \cup {-1}, image : Image]
  /\ pc \in {"off", "late_init", "generate", "count", "autoboot", "fitboot",
             "legacyboot", "linux", "reset"}
  /\ using \in [slot : Slots, alt : BOOLEAN, legacy : BOOLEAN]
  /\ kernel \in [from : Slots \cup {-1}, image : Image, uImage : BOOLEAN,
                 told : {-1, 0, 1}]
  /\ image \in [Slots -> Image]
  /\ writing \in {"no", "begun", "ended"}
  /\ proven \in Slots
  /\ tries \in 0 .. MaxTries
  /\ lost \in Nat /\ cuts \in Nat /\ lost + cuts <= MaxFaults

(* A firmware on trial gets BootLimit boots, and one more for each         *)
(* env_save that failed: the switch and the counter survive power cuts at  *)
(* any place, and a second late init does not start the trial anew.        *)
TrialsBounded == tries <= BootLimit + lost

(* What boots is the slot that last ran confirmed, except for the counted  *)
(* boots of a trial: altbootcmd leads there, and so does bootcmd when no   *)
(* upgrade is under way.                                                   *)
FallbackIsProven ==
  pc \in {"fitboot", "legacyboot", "linux"} =>
    \/ using.slot = proven
    \/ ~using.alt /\ env.upgrade_available = 1

(* A slot that an interrupted installation left half written is not booted. *)
NeverBootsHalfWritten == pc = "fitboot" => image[using.slot] # Torn

(* A legacy kernel runs only on a board that reported itself open in this  *)
(* boot, while an upgrade is under way.                                    *)
LegacyOnlyOnOpenBoard ==
  pc = "linux" /\ kernel.uImage => cached_hab_state = 0 /\ env.upgrade_available = 1

(* The kernel comes from the slot whose name it gets on its command line.  A *)
(* load that fails lets bootm start what an earlier boot left in memory: that *)
(* stays with the fallback of an open board to its legacy slot.  No trial and *)
(* no closed board mixes two slots.                                         *)
LegacyFallback == using.alt /\ image[using.slot].fit = "none"
KernelMatchesSlot ==
  pc = "linux" =>
    \/ kernel.from = using.slot
    \/ LegacyFallback /\ ~hardware.closed /\ hardware.retains

(* Linux is told "secure" only if what runs was authenticated: the answer  *)
(* is taken anew after bootm, with whatever HAB then reports.              *)
SecureMeansSigned ==
  pc = "linux" /\ kernel.told = 1 => kernel.image.fit = "signed" /\ ~kernel.uImage

(* Whatever is installed and whenever power fails, the board comes back to *)
(* a firmware that works.  An open board may need its legacy kernel, so HAB *)
(* must report it open again and again, in boots that find no fitImage in    *)
(* memory: do_fitboot would start that first.                               *)
ReportedOpen == pc = "autoboot" /\ cached_hab_state = 0 /\ ram = NoFit
Recovers == hardware.closed \/ []<>ReportedOpen => []<>Running
=============================================================================
