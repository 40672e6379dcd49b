------------------------------ MODULE BoardEnv ------------------------------
(***************************************************************************)
(* The U-Boot environment of the boards and what follows it: device tree   *)
(* detection in board_late_init, the boot scripts of the board headers,    *)
(* and under Linux hipos-net-check.py, which writes the device's network   *)
(* parameters into the environment.  Environment, identity file and boot   *)
(* partitions are on a card that may be moved to another device.           *)
(***************************************************************************)
EXTENDS Integers, Sequences

CONSTANTS
  Devices,      \* the devices that the card is put into
  Boards,       \* the boards whose code is tried
  HasParam,     \* HasParam[d]: the parameters that the identity of d names
  MaxMoves,     \* bound: how often the card moves, or a touch screen is (un)plugged
  MaxFaults     \* bound: power cuts, failed saveenv calls, unanswered requests

AllBoards == {"imoc", "ivap", "dvmon", "impec", "himx8", "secured"}
Params == {"ethaddr", "lanspeed"}
Fdts == {"default", "alt", "alt_P"}
Files == Fdts \cup {"kernel", "overlay", "fit"}
(* A software release knows the alternative device tree or is too old for it. *)
Releases == {Files, Files \ {"alt"}}
Parts == {"A", "B", "usb"}
None == "none"                      \* no device, no partition
Past == "past"                      \* some partition, in an earlier boot
Hardware == [pin : {0, 1}, qp : BOOLEAN, touch : BOOLEAN]
(* The hardware that a board's code looks at; the rest stays at a default.  *)
HardwareOf(b) ==
  {h \in Hardware : /\ b \notin {"ivap", "secured", "impec"} => h.pin = 1
                    /\ b \notin {"ivap", "secured"} \/ h.pin = 1 => ~h.qp
                    /\ b # "dvmon" => ~h.touch}

ASSUME BoardAssumption ==
  /\ Devices # {} /\ None \notin Devices
  /\ Boards \subseteq AllBoards
  /\ HasParam \in [Devices -> SUBSET Params]
  /\ MaxMoves \in Nat /\ MaxFaults \in Nat

VARIABLES
  board,     \* the board whose U-Boot runs, the same for all devices
  hw,        \* hw[d]: strap pin, processor and touch screen of device d
  device,    \* where the card is
  files,     \* files[p]: what boot partition p holds
  stored,    \* the environment on the card
  env,       \* the environment in memory
  mem,       \* what is at kernel_addr and at fdt_addr (or fit_addr)
  booted,    \* what bootm started, and the root on its command line
  devid,     \* devid[p]: whose identity /etc/hydraip-devid of partition p holds
  printed,   \* what net-check has read from fw_printenv
  pc,
  auto,      \* history: nobody has typed a command since U-Boot started
  changed,   \* history: moved or plugged since the environment was first saved
  checked,   \* history: net-check went through for this device
  moves, faults

vars == <<board, hw, device, files, stored, env, mem, booted, devid, printed, pc,
          auto, changed, checked, moves, faults>>
card == <<files, stored, devid>>
ram == <<env, mem, booted, printed>>
world == <<board, hw, device, moves>>
history == <<auto, changed, checked, faults>>

Environment == [bootcmd : {"first", "A", "B"}, fdt : Fdts, bt : BOOLEAN,
                par : [Params -> Devices \cup {None}]]
(* CFG_EXTRA_ENV_SETTINGS; an environment that was never saved reads the same. *)
Default == [bootcmd |-> "first", fdt |-> "default", bt |-> FALSE,
            par |-> [p \in Params |-> None]]
Empty == [file |-> None, part |-> None, bt |-> FALSE]
NoMem == [kernel |-> Empty, fdt |-> Empty]
NoBoot == [kernel |-> None, fdt |-> Empty, root |-> None]
Origins == Parts \cup {Past, None}
Contents == [file : Files \cup {None}, part : Origins, bt : BOOLEAN]

MayFail == faults < MaxFaults
Reliable == UNCHANGED faults
Faulty == MayFail /\ faults' = faults + 1

-----------------------------------------------------------------------------
(* board_late_init of the himx0294 boards: a strap pin tells DVREC from     *)
(* IVAP, a touch controller that answers on i2c the touch DVMON.           *)
AltHimx0294(b, h) ==
  CASE b = "ivap" /\ h.pin = 0 -> IF h.qp THEN "alt_P" ELSE "alt"
    [] b = "dvmon" /\ h.touch -> "alt"
    [] OTHER -> "default"

(* The secured boards' copy of the same code. *)
AltSecured(h) == AltHimx0294("ivap", h)

(* board_late_init of himx0432.c: the pin is high on revision 1. *)
AltHimx0432(h) == IF h.pin = 1 THEN "alt" ELSE "default"

Detected(h) ==
  CASE board = "impec" -> AltHimx0432(h)
    [] board = "secured" -> AltSecured(h)
    [] OTHER -> AltHimx0294(board, h)

(* The alternative replaces the default device tree only. *)
FdtFile(fdt, h) == IF fdt = "default" THEN Detected(h) ELSE fdt

(* Secured boards load the update's variables only (CFG_ENV_FLAGS_LIST_STATIC). *)
SlipLoadsAll(s) == s
Loaded(s) == IF board = "secured" THEN Default ELSE s

(* board_generate_fit_conf: the configuration is named after the device tree. *)
fit_conf == env.fdt

(* A new card; a secured board may have been an open one whose U-Boot saved  *)
(* its whole environment.                                                   *)
Init ==
  /\ board \in Boards
  /\ hw \in [Devices -> HardwareOf(board)]
  /\ device \in Devices
  /\ \E a \in Releases, b \in Releases \cup {{}} :
       files = [p \in Parts |-> CASE p = "A" -> a [] p = "B" -> b [] OTHER -> Files]
  /\ \/ stored = Default
     \/ board = "secured" /\ \E f \in Fdts : stored = [Default EXCEPT !.bootcmd = "A", !.fdt = f]
  /\ env = Default
  /\ mem = NoMem /\ booted = NoBoot
  /\ devid = [p \in Parts |-> None]
  /\ printed = Default.par
  /\ pc = "off"
  /\ auto = TRUE /\ changed = FALSE /\ checked = FALSE
  /\ moves = 0 /\ faults = 0

PowerOn ==
  /\ pc = "off"
  /\ env' = Loaded(stored)
  /\ pc' = "late_init"
  /\ UNCHANGED <<world, card, mem, booted, printed, history>>

(* On secured boards late init also generates bootcmd; the slot is chosen   *)
(* by UBootUpdate, and is a whole one (NeverBootsHalfWritten).              *)
BoardLateInit ==
  /\ pc = "late_init"
  /\ \E c \in IF board = "secured" THEN {p \in {"A", "B"} : files[p] # {}} ELSE {env.bootcmd} :
       env' = [env EXCEPT !.fdt = FdtFile(@, hw[device]), !.bootcmd = c]
  /\ pc' = "autoboot"
  /\ UNCHANGED <<world, card, mem, booted, printed, history>>

(* CONFIG_BOOTCOMMAND: setenv bootcmd run x_bootA; saveenv; boot.  Nothing   *)
(* looks at the result of saveenv.                                          *)
FirstBoot(e) == [e EXCEPT !.bootcmd = "A"]

FirstBootCommand ==
  /\ pc = "autoboot" /\ env.bootcmd = "first"
  /\ env' = [env EXCEPT !.bootcmd = "A"]
  /\ \/ stored' = FirstBoot(env) /\ changed' = FALSE /\ Reliable
     \/ Faulty /\ UNCHANGED <<stored, changed>>
  /\ UNCHANGED <<world, files, mem, booted, devid, printed, pc, auto, checked>>

(* load_kernel, load_fdt: an ext4load that fails leaves memory as it was. *)
Load(file, p, old) == IF file \in files[p] THEN [file |-> file, part |-> p, bt |-> FALSE]
                      ELSE old

(* do_boot of himx0294.h and himx0432.h. *)
SlipRootA(p) ==
  [kernel |-> Load("kernel", p, mem.kernel), fdt |-> Load(env.fdt, p, mem.fdt), root |-> "A"]
DoBootArm(p) ==
  [kernel |-> Load("kernel", p, mem.kernel), fdt |-> Load(env.fdt, p, mem.fdt), root |-> p]

(* do_boot of imx8mp_evk.h: the overlay goes through loadaddr before the image. *)
Overlay(p) == env.bt /\ "overlay" \in files[p]
SlipOverlayLast(p) ==
  LET fdt == Load("default", p, mem.fdt)
  IN  [kernel |-> IF Overlay(p) THEN Load("overlay", p, mem.kernel) ELSE Load("kernel", p, mem.kernel),
       fdt |-> [fdt EXCEPT !.bt = @ \/ (Overlay(p) /\ fdt # Empty)],
       root |-> p]
DoBootHimx8(p) ==
  LET fdt == Load("default", p, mem.fdt)
      scratch == IF Overlay(p) THEN Load("overlay", p, mem.kernel) ELSE mem.kernel
  IN  [kernel |-> Load("kernel", p, scratch),
       fdt |-> [fdt EXCEPT !.bt = @ \/ (Overlay(p) /\ fdt # Empty)],
       root |-> p]

(* do_fitboot of the secured boards: one file brings the kernel and every    *)
(* device tree of its release, and bootm takes the configuration it is told; *)
(* a file that an earlier boot left is taken to have it.                    *)
DoFitboot(p) ==
  LET fit == Load("fit", p, mem.kernel)
      has == fit # Empty /\ (fit.part = p => fit_conf \in files[p])
  IN  [kernel |-> fit,
       fdt |-> IF has THEN [file |-> fit_conf, part |-> fit.part, bt |-> FALSE] ELSE Empty,
       root |-> p]

DoBoot(p) == CASE board = "secured" -> DoFitboot(p)
               [] board = "himx8" -> DoBootHimx8(p)
               [] OTHER -> DoBootArm(p)

(* The commands are joined by semicolons: bootm runs whatever was loaded,   *)
(* and starts Linux when there is a kernel and a device tree in memory.     *)
RunDoBoot(p) ==
  LET b == DoBoot(p)
  IN  /\ mem' = [kernel |-> b.kernel, fdt |-> b.fdt]
      /\ IF b.kernel.file \in {"kernel", "fit"} /\ b.fdt # Empty
         THEN /\ booted' = [kernel |-> b.kernel.part, fdt |-> b.fdt, root |-> b.root]
              /\ pc' = "linux"
         ELSE booted' = NoBoot /\ pc' = "prompt"

XBoot ==
  /\ pc = "autoboot" /\ env.bootcmd # "first"
  /\ RunDoBoot(env.bootcmd)
  /\ UNCHANGED <<world, card, env, printed, history>>

(* At the prompt somebody may run x_bootA, x_bootB or boot_usb. *)
UserBoot ==
  /\ pc = "prompt" /\ board # "secured"
  /\ \E p \in Parts : RunDoBoot(p)
  /\ auto' = FALSE
  /\ UNCHANGED <<world, card, env, printed, changed, checked, faults>>

-----------------------------------------------------------------------------
(* Linux.  hipos-device-info.sh fetches the identity from the board         *)
(* controller; one that does not answer leaves the file as it was.          *)
DeviceInfo ==
  /\ pc = "linux"
  /\ \/ devid' = [devid EXCEPT ![booted.root] = device] /\ Reliable
     \/ Faulty /\ UNCHANGED devid
  /\ pc' = "net_check"
  /\ UNCHANGED <<world, files, stored, ram, auto, changed, checked>>

Identity == devid[booted.root]

(* main of hipos-net-check.py: no file, or no environment: the end. *)
NetCheckReads ==
  /\ pc = "net_check"
  /\ printed' = stored.par
  /\ pc' = IF Identity = None \/ stored.bootcmd = "first" THEN "up" ELSE "ethaddr"
  /\ checked' = (checked /\ Identity \in {None, device})
  /\ UNCHANGED <<world, card, env, mem, booted, auto, changed, faults>>

SlipOnlyAddress(p) == p = "ethaddr" /\ p \in HasParam[Identity] /\ printed[p] # Identity
SlipStoresUnset(p) == p \in HasParam[Identity] /\ printed[p] = None
Differs(p) == p \in HasParam[Identity] /\ printed[p] # Identity

(* fw_setenv replaces one of two redundant copies, all or nothing. *)
NetCheckStores(p, next) ==
  /\ pc = p
  /\ stored' = IF Differs(p) THEN [stored EXCEPT !.par[p] = Identity] ELSE stored
  /\ pc' = next
  /\ checked' = (checked \/ (next = "up" /\ Identity = device))
  /\ printed' = IF next = "up" THEN Default.par ELSE printed
  /\ UNCHANGED <<world, files, devid, env, mem, booted, auto, changed, faults>>

(* Software installed into the other partition, then made the one to boot;  *)
(* bt_enabled is set with fw_setenv, too.                                   *)
Install ==
  /\ pc = "up"
  /\ \E p \in {"A", "B"} \ {booted.root} :
       \/ /\ \E f \in Releases : files' = [files EXCEPT ![p] = f]
          /\ UNCHANGED stored
       \/ /\ files[p] # {} /\ stored.bootcmd \notin {"first", p}
          /\ stored' = [stored EXCEPT !.bootcmd = p] /\ UNCHANGED files
  /\ UNCHANGED <<world, devid, ram, pc, history>>

EnableBt ==
  /\ pc = "up" /\ board = "himx8" /\ stored.bootcmd # "first" /\ ~stored.bt
  /\ stored' = [stored EXCEPT !.bt = TRUE]
  /\ UNCHANGED <<world, files, devid, ram, pc, history>>

(* What was loaded may survive a reset, and even a short power cut; it is of *)
(* the past then, whatever becomes of the partition that it came from.      *)
Survivors(c) == {Empty} \cup (IF c = Empty THEN {} ELSE {[c EXCEPT !.part = Past]})

Off ==
  /\ env' = Default /\ booted' = NoBoot /\ printed' = Default.par
  /\ mem' \in [kernel : Survivors(mem.kernel), fdt : Survivors(mem.fdt)]
  /\ pc' = "off" /\ auto' = TRUE
  /\ UNCHANGED <<world, card, changed, checked>>

Reboot == pc = "up" /\ Off /\ UNCHANGED faults

(* bootcmd of the secured boards ends with a reset.                         *)
Reset == pc = "prompt" /\ board = "secured" /\ Off /\ UNCHANGED faults

PowerCut ==
  /\ pc # "off" /\ Faulty
  /\ Off

(* A card is moved, and a screen plugged, without power for long. *)
Move ==
  /\ pc = "off" /\ moves < MaxMoves
  /\ device' \in Devices \ {device}
  /\ mem' = NoMem
  /\ changed' = TRUE /\ checked' = FALSE
  /\ moves' = moves + 1
  /\ UNCHANGED <<board, hw, card, env, booted, printed, pc, auto, faults>>

Plug ==
  /\ board = "dvmon" /\ pc = "off" /\ moves < MaxMoves
  /\ hw' = [hw EXCEPT ![device].touch = ~@]
  /\ mem' = NoMem
  /\ changed' = TRUE
  /\ moves' = moves + 1
  /\ UNCHANGED <<board, device, card, env, booted, printed, pc, auto, checked, faults>>

UBoot == PowerOn \/ BoardLateInit \/ FirstBootCommand \/ XBoot \/ Reset
NetCheck == NetCheckReads \/ NetCheckStores("ethaddr", "lanspeed") \/ NetCheckStores("lanspeed", "up")
Next == UBoot \/ UserBoot \/ DeviceInfo \/ NetCheck \/ Install \/ EnableBt \/ Reboot
        \/ PowerCut \/ Move \/ Plug
Spec == Init /\ [][Next]_vars

(* U-Boot and the services run; the device is rebooted now and then. *)
FairSpec == Spec /\ WF_vars(UBoot) /\ WF_vars(DeviceInfo \/ NetCheck) /\ WF_vars(Reboot)

-----------------------------------------------------------------------------
(* Type invariant of environment, memory and card. *)
TypeOK ==
  /\ board \in Boards /\ hw \in [Devices -> Hardware] /\ device \in Devices
  /\ files \in [Parts -> SUBSET Files]
  /\ stored \in Environment /\ env \in Environment
  /\ mem \in [kernel : Contents, fdt : Contents]
  /\ booted \in [kernel : Origins, fdt : Contents, root : Parts \cup {None}]
  /\ devid \in [Parts -> Devices \cup {None}]
  /\ printed \in [Params -> Devices \cup {None}]
  /\ pc \in {"off", "late_init", "autoboot", "prompt", "linux", "net_check", "up"} \cup Params
  /\ auto \in BOOLEAN /\ changed \in BOOLEAN /\ checked \in BOOLEAN
  /\ moves \in 0 .. MaxMoves /\ faults \in 0 .. MaxFaults

LinuxRuns == pc \in {"linux", "net_check", "up"} \cup Params

(* Linux runs with the device tree that fits the device: on secured boards  *)
(* always, because fdt_file is not loaded; on open boards until the card    *)
(* moves or a screen is plugged, because fdt_file is saved once and kept.   *)
FdtFits ==
  LinuxRuns /\ auto /\ (board = "secured" \/ ~changed) => booted.fdt.file = Detected(hw[device])

(* What autoboot starts comes from one partition, though do_boot goes on     *)
(* after a load that failed, on what an earlier boot left in memory: the     *)
(* kernel is the root's own, and the device tree, too, unless the release of *)
(* an open board lacks the one that is asked for.                           *)
OneSlot ==
  LinuxRuns /\ auto =>
    /\ booted.kernel = booted.root
    /\ \/ booted.fdt.part = booted.root
       \/ board # "secured" /\ booted.fdt.part = Past /\ env.fdt \notin files[booted.root]

(* Autoboot stops at the prompt only if the partition lacks a file it needs, *)
(* with the overlay of imx8mp_evk.h enabled or not.                          *)
StopsForMissingFile ==
  pc = "prompt" /\ auto =>
    {IF board = "secured" THEN "fit" ELSE "kernel", env.fdt} \ files[env.bootcmd] # {}

(* After a complete net-check for this device the stored parameters that its *)
(* identity names are its own, whatever power cuts and moves came before.    *)
NetFollowsDevice ==
  checked => \A p \in HasParam[device] : stored.par[p] = device

(* The network parameters settle: however often the card moved and power     *)
(* failed, U-Boot of an open board ends up using the device's own.           *)
Follows == pc # "off" => \A p \in HasParam[device] : env.par[p] = device
NetSettles == board # "secured" /\ []<>(pc = "up" /\ stored.bootcmd # "first") => <>[]Follows
=============================================================================
