--------------------------- MODULE BoardEnvProofs ---------------------------
(***************************************************************************)
(* Proofs about BoardEnv: one invariant carries the types, the device tree *)
(* from the first saveenv to bootm, what an autoboot finds in memory and   *)
(* in the partition it starts, and the network parameters of a device, for *)
(* any devices, boards and numbers of moves and faults.                    *)
(***************************************************************************)
EXTENDS BoardEnv, TLAPS

(* What do_boot loads first. *)
KernelFile == IF board = "secured" THEN "fit" ELSE "kernel"

(* A device tree that memory still holds before do_boot is of an earlier boot. *)
OfThePast ==
  pc \in {"off", "late_init", "autoboot"} => mem.fdt = Empty \/ mem.fdt.part = Past

(* On an open board it fits the device, until a change; and as long as the   *)
(* environment was never saved, since each boot then detects anew.          *)
StaleFits ==
  board # "secured" /\ (~changed \/ stored.bootcmd = "first") =>
    mem.fdt = Empty \/ mem.fdt.file = Detected(hw[device])

(* A partition is empty or holds a release, and one that is booted a release. *)
FilesWhole == (\A p \in Parts : files[p] = {} \/ files[p] \in Releases) /\ files["A"] # {}
Bootable ==
  /\ stored.bootcmd # "first" => files[stored.bootcmd] # {}
  /\ pc = "autoboot" /\ env.bootcmd # "first" => files[env.bootcmd] # {}

(* Nothing is written to an environment before its first saveenv.           *)
NeverSaved == stored.bootcmd = "first" => stored = Default

(* The environment between env_load and board_late_init.                    *)
JustLoaded == pc = "late_init" => env = Loaded(stored)

(* CONFIG_BOOTCOMMAND still to run: on an open board, with the compiled      *)
(* environment and the device tree of this device.                          *)
FirstTime ==
  pc = "autoboot" /\ env.bootcmd = "first" =>
    /\ board # "secured" /\ stored = Default
    /\ env.fdt = Detected(hw[device]) /\ env.par = Default.par

(* The device tree in the environment fits the device, before bootm, too.   *)
FdtChosen ==
  /\ pc \notin {"off", "late_init"}
  /\ board = "secured" \/ ~changed \/ stored.bootcmd = "first"
  => env.fdt = Detected(hw[device])

(* What an open board has saved is the default or fits, until a change.     *)
SavedFits == board # "secured" /\ ~changed => stored.fdt \in {"default", Detected(hw[device])}

(* imx8mp_evk.c detects nothing.                                            *)
OneTree == board = "himx8" => stored.fdt = "default" /\ env.fdt = "default"

(* Linux has a root partition. *)
Rooted == LinuxRuns => booted.root \in Parts

(* hipos-net-check writes only with an identity and into an environment that *)
(* was saved, and a check that still stands is for the device that this      *)
(* identity names.                                                          *)
IdentityKnown ==
  pc \in Params =>
    Identity \in Devices /\ stored.bootcmd # "first" /\ (checked => Identity = device)

(* What was printed is what is stored, for the parameters still to compare. *)
PrintedStands ==
  /\ pc = "ethaddr" => printed = stored.par
  /\ pc = "lanspeed" =>
       /\ printed["lanspeed"] = stored.par["lanspeed"]
       /\ "ethaddr" \in HasParam[Identity] => stored.par["ethaddr"] = Identity

SlotInv == FilesWhole /\ Bootable
BootInv == /\ OfThePast /\ StaleFits /\ NeverSaved /\ JustLoaded /\ FirstTime /\ FdtChosen
           /\ SavedFits /\ OneTree /\ FdtFits /\ OneSlot /\ StopsForMissingFile
NetInv == Rooted /\ IdentityKnown /\ PrintedStands /\ NetFollowsDevice
BoardEnvInv == TypeOK /\ SlotInv /\ BootInv /\ NetInv

(* The parts of the type invariant. *)
WorldOK == board \in Boards /\ hw \in [Devices -> Hardware] /\ device \in Devices /\ moves \in 0 .. MaxMoves
CardOK == /\ files \in [Parts -> SUBSET Files]
          /\ stored \in Environment
          /\ devid \in [Parts -> Devices \cup {None}]
RamOK == /\ env \in Environment
         /\ mem \in [kernel : Contents, fdt : Contents]
         /\ booted \in [kernel : Origins, fdt : Contents, root : Parts \cup {None}]
         /\ printed \in [Params -> Devices \cup {None}]
StepOK == /\ pc \in {"off", "late_init", "autoboot", "prompt", "linux", "net_check", "up"} \cup Params
          /\ auto \in BOOLEAN /\ changed \in BOOLEAN /\ checked \in BOOLEAN
FaultsOK == faults \in 0 .. MaxFaults

LEMMA TypeParts ==
  /\ TypeOK <=> WorldOK /\ CardOK /\ RamOK /\ StepOK /\ FaultsOK
  /\ TypeOK' <=> WorldOK' /\ CardOK' /\ RamOK' /\ StepOK' /\ FaultsOK'
  BY DEF TypeOK, WorldOK, CardOK, RamOK, StepOK, FaultsOK

LEMMA PartsKept ==
  /\ WorldOK /\ UNCHANGED world => WorldOK'
  /\ CardOK /\ UNCHANGED card => CardOK'
  /\ RamOK /\ UNCHANGED ram => RamOK'
  /\ FaultsOK /\ Reliable => FaultsOK'
<1>1. WorldOK /\ UNCHANGED world => WorldOK'
  BY DEF WorldOK, world
<1>2. CardOK /\ UNCHANGED card => CardOK'
  BY DEF CardOK, card
<1>3. RamOK /\ UNCHANGED ram => RamOK'
  BY DEF RamOK, ram
<1>4. FaultsOK /\ Reliable => FaultsOK'
  BY DEF FaultsOK, Reliable
<1> QED BY <1>1, <1>2, <1>3, <1>4

LEMMA FaultsBounded == FaultsOK /\ Faulty => FaultsOK'
<1> SUFFICES ASSUME faults \in 0 .. MaxFaults, faults < MaxFaults, faults' = faults + 1
             PROVE faults' \in 0 .. MaxFaults
  BY DEF FaultsOK, Faulty, MayFail
<1> QED BY BoardAssumption DEF BoardAssumption

(* What the device trees of the boards are. *)
LEMMA DetectedTyped ==
  /\ \A h \in Hardware : Detected(h) \in Fdts
  /\ board = "himx8" => \A h \in Hardware : Detected(h) = "default"
<1>1. ASSUME NEW b, NEW h \in Hardware
      PROVE AltHimx0294(b, h) \in Fdts /\ (b = "himx8" => AltHimx0294(b, h) = "default")
  BY <1>1 DEF AltHimx0294, Fdts, Hardware
<1>2. ASSUME NEW h \in Hardware PROVE AltHimx0432(h) \in Fdts /\ AltSecured(h) \in Fdts
  BY <1>1, <1>2 DEF AltHimx0432, AltSecured, Fdts
<1> QED BY <1>1, <1>2 DEF Detected

LEMMA DetectedKept ==
  board' = board /\ hw' = hw /\ device' = device => Detected(hw[device])' = Detected(hw[device])
  BY DEF Detected, AltSecured, AltHimx0294, AltHimx0432

(* The values that variables start from and return to. *)
LEMMA DefaultsTyped ==
  /\ Default \in Environment
  /\ Default.bootcmd = "first" /\ Default.fdt = "default"
  /\ Default.par \in [Params -> Devices \cup {None}]
  /\ Empty \in Contents
  /\ NoMem \in [kernel : Contents, fdt : Contents]
  /\ NoBoot \in [kernel : Origins, fdt : Contents, root : Parts \cup {None}]
<1>1. Default.par = [p \in Params |-> None] /\ Default.bootcmd = "first" /\ Default.fdt = "default"
  BY DEF Default
<1>2. Default \in Environment
  BY DEF Default, Environment, Fdts
<1>3. Empty \in Contents
  BY DEF Empty, Contents, Origins
<1>4. NoMem \in [kernel : Contents, fdt : Contents]
  BY <1>3 DEF NoMem
<1>5. NoBoot \in [kernel : Origins, fdt : Contents, root : Parts \cup {None}]
  BY <1>3 DEF NoBoot, Origins
<1> QED BY <1>1, <1>2, <1>3, <1>4, <1>5

LEMMA LoadedTyped == stored \in Environment => Loaded(stored) \in Environment
  BY DefaultsTyped DEF Loaded

-----------------------------------------------------------------------------
(* ext4load: the file of this partition, or what was there before. *)
LEMMA LoadGives ==
  ASSUME NEW file \in Files, NEW p \in Parts, NEW old \in Contents
  PROVE  /\ Load(file, p, old) \in Contents
         /\ file \in files[p] =>
              /\ Load(file, p, old).file = file /\ Load(file, p, old).part = p
              /\ Load(file, p, old) # Empty
         /\ file \notin files[p] => Load(file, p, old) = old
<1>1. [file |-> file, part |-> p, bt |-> FALSE] \in Contents
  BY DEF Contents, Origins
<1>2. [file |-> file, part |-> p, bt |-> FALSE].file # Empty.file
  BY DEF Files, Fdts, Empty, None
<1> QED BY <1>1, <1>2 DEF Load

(* The three boot scripts, with Load named: every image that bootm may start *)
(* is a file of some partition or empty, and where it comes from.           *)
LEMMA DoBootTyped ==
  ASSUME CardOK, RamOK, NEW p \in Parts
  PROVE  DoBoot(p).kernel \in Contents /\ DoBoot(p).fdt \in Contents /\ DoBoot(p).root \in Parts
<1>1. mem.kernel \in Contents /\ mem.fdt \in Contents /\ env.fdt \in Fdts
  BY DEF RamOK, Environment
<1>2. {"kernel", "overlay", "default", "fit"} \subseteq Files /\ Fdts \subseteq Files
  BY DEF Files, Fdts
<1>3. DoBootArm(p).kernel \in Contents /\ DoBootArm(p).fdt \in Contents /\ DoBootArm(p).root \in Parts
  BY <1>1, <1>2, LoadGives DEF DoBootArm
<1>4. DoBootHimx8(p).kernel \in Contents /\ DoBootHimx8(p).fdt \in Contents /\ DoBootHimx8(p).root \in Parts
  <2>1. Load("default", p, mem.fdt) \in Contents /\ Load("overlay", p, mem.kernel) \in Contents
    BY <1>1, <1>2, LoadGives
  <2>2. \A c \in Contents, b \in BOOLEAN : [c EXCEPT !.bt = @ \/ b] \in Contents
    BY DEF Contents
  <2>3. (Overlay(p) /\ Load("default", p, mem.fdt) # Empty) \in BOOLEAN
    BY DEF Overlay
  <2>4. DoBootHimx8(p).fdt \in Contents /\ DoBootHimx8(p).root \in Parts
    BY <2>1, <2>2, <2>3 DEF DoBootHimx8
  <2>5. \A scratch \in Contents : Load("kernel", p, scratch) \in Contents
    BY <1>2, LoadGives
  <2>6. DoBootHimx8(p).kernel \in Contents
    BY <1>1, <2>1, <2>5 DEF DoBootHimx8
  <2> QED BY <2>4, <2>6
<1>5. DoFitboot(p).kernel \in Contents /\ DoFitboot(p).fdt \in Contents /\ DoFitboot(p).root \in Parts
  <2> DEFINE fit == Load("fit", p, mem.kernel)
  <2>1. fit \in Contents
    BY <1>1, <1>2, LoadGives
  <2> HIDE DEF fit
  <2>2. [file |-> fit_conf, part |-> fit.part, bt |-> FALSE] \in Contents
    BY <1>1, <1>2, <2>1 DEF Contents, fit_conf
  <2>3. /\ DoFitboot(p).kernel = fit /\ DoFitboot(p).root = p
        /\ DoFitboot(p).fdt \in {[file |-> fit_conf, part |-> fit.part, bt |-> FALSE], Empty}
    BY DEF DoFitboot, fit
  <2> QED BY <2>1, <2>2, <2>3, DefaultsTyped
<1> QED BY <1>3, <1>4, <1>5 DEF DoBoot

(* A script that finds the kernel starts it; the device tree is the one that *)
(* is asked for, or on an open board what memory held, for want of a file.  *)
BootsFrom(b, p) ==
  /\ b.root = p
  /\ KernelFile \in files[p] => b.kernel.file = KernelFile /\ b.kernel.part = p
  /\ b.fdt = Empty => {KernelFile, env.fdt} \ files[p] # {}
  /\ b.fdt # Empty /\ (board = "secured" => KernelFile \in files[p]) =>
       \/ b.fdt.part = p /\ b.fdt.file = env.fdt
       \/ /\ board # "secured" /\ env.fdt \notin files[p] /\ mem.fdt # Empty
          /\ b.fdt.part = mem.fdt.part /\ b.fdt.file = mem.fdt.file

LEMMA ScriptsLoad ==
  ASSUME CardOK, RamOK, OneTree, NEW p \in Parts
  PROVE  BootsFrom(DoBoot(p), p)
<1>1. mem.kernel \in Contents /\ mem.fdt \in Contents
  BY DEF RamOK
<1>2. env.fdt \in Files /\ {"kernel", "overlay", "default", "fit"} \subseteq Files
  BY DEF RamOK, Environment, Files, Fdts
<1>3. ASSUME NEW b, NEW old \in Contents, b.root = p, board # "secured",
             b.kernel = Load("kernel", p, old),
             b.fdt = Empty <=> Load(env.fdt, p, mem.fdt) = Empty,
             /\ b.fdt.part = Load(env.fdt, p, mem.fdt).part
             /\ b.fdt.file = Load(env.fdt, p, mem.fdt).file
      PROVE  BootsFrom(b, p)
  <2>1. KernelFile = "kernel"
    BY <1>3 DEF KernelFile
  <2>2. "kernel" \in files[p] => b.kernel.file = "kernel" /\ b.kernel.part = p
    BY <1>2, <1>3, LoadGives
  <2>3. CASE env.fdt \in files[p]
    <3>1. b.fdt # Empty /\ b.fdt.part = p /\ b.fdt.file = env.fdt
      BY <1>1, <1>2, <1>3, <2>3, LoadGives
    <3> QED BY <1>3, <2>1, <2>2, <3>1 DEF BootsFrom
  <2>4. CASE env.fdt \notin files[p]
    <3>1. /\ b.fdt.part = mem.fdt.part /\ b.fdt.file = mem.fdt.file
          /\ b.fdt = Empty <=> mem.fdt = Empty
      BY <1>1, <1>2, <1>3, <2>4, LoadGives
    <3>2. {KernelFile, env.fdt} \ files[p] # {}
      BY <2>4
    <3> QED BY <1>3, <2>1, <2>2, <2>4, <3>1, <3>2 DEF BootsFrom
  <2> QED BY <2>3, <2>4
<1>4. ASSUME board = "secured" PROVE BootsFrom(DoFitboot(p), p)
  <2> DEFINE fit == Load("fit", p, mem.kernel)
             asked == [file |-> fit_conf, part |-> fit.part, bt |-> FALSE]
  <2>1. /\ DoFitboot(p).kernel = fit /\ DoFitboot(p).root = p
        /\ DoFitboot(p).fdt = IF fit # Empty /\ (fit.part = p => env.fdt \in files[p])
                              THEN asked ELSE Empty
    BY DEF DoFitboot, fit_conf
  <2>2. asked.part = fit.part /\ asked.file = env.fdt
    BY DEF fit_conf
  <2>3. "fit" \in files[p] => fit.file = "fit" /\ fit.part = p /\ fit # Empty
    BY <1>1, <1>2, LoadGives
  <2>4. asked # Empty
    <3>1. env.fdt # None
      BY DEF RamOK, Environment, Fdts, None
    <3> QED BY <2>2, <3>1 DEF Empty
  <2>5. KernelFile = "fit"
    BY <1>4 DEF KernelFile
  <2> HIDE DEF fit, asked
  <2>6. "fit" \in files[p] /\ env.fdt \in files[p] => DoFitboot(p).fdt = asked
    BY <2>1, <2>3
  <2>7. DoFitboot(p).fdt = Empty => {KernelFile, env.fdt} \ files[p] # {}
    <3>1. ASSUME {KernelFile, env.fdt} \ files[p] = {} PROVE "fit" \in files[p] /\ env.fdt \in files[p]
      BY <2>5, <3>1
    <3> QED BY <2>4, <2>6, <3>1
  <2>8. DoFitboot(p).fdt # Empty /\ "fit" \in files[p] =>
          DoFitboot(p).fdt.part = p /\ DoFitboot(p).fdt.file = env.fdt
    BY <2>1, <2>2, <2>3
  <2>9. KernelFile \in files[p] => DoFitboot(p).kernel.file = KernelFile /\ DoFitboot(p).kernel.part = p
    BY <2>1, <2>3, <2>5
  <2> QED BY <1>4, <2>1, <2>5, <2>7, <2>8, <2>9 DEF BootsFrom
<1>5. ASSUME board \notin {"secured", "himx8"} PROVE BootsFrom(DoBootArm(p), p)
  <2>1. /\ DoBootArm(p).kernel = Load("kernel", p, mem.kernel)
        /\ DoBootArm(p).fdt = Load(env.fdt, p, mem.fdt)
        /\ DoBootArm(p).root = p
    BY DEF DoBootArm
  <2> QED BY <1>1, <1>2, <1>3, <1>5, <2>1
<1>6. ASSUME board = "himx8" PROVE BootsFrom(DoBootHimx8(p), p)
  <2> DEFINE fdt == Load("default", p, mem.fdt)
             scratch == IF Overlay(p) THEN Load("overlay", p, mem.kernel) ELSE mem.kernel
             tree == [fdt EXCEPT !.bt = @ \/ (Overlay(p) /\ fdt # Empty)]
  <2>1. env.fdt = "default" /\ board # "secured"
    BY <1>6 DEF OneTree
  <2>2. scratch \in Contents /\ fdt \in Contents
    BY <1>1, <1>2, LoadGives
  <2>3. /\ DoBootHimx8(p).kernel = Load("kernel", p, scratch)
        /\ DoBootHimx8(p).fdt = tree
        /\ DoBootHimx8(p).root = p
    BY DEF DoBootHimx8
  <2>4. tree.part = fdt.part /\ tree.file = fdt.file
    BY <2>2 DEF Contents
  <2>5. fdt # Empty => tree # Empty
    <3>1. ASSUME fdt # Empty, tree = Empty PROVE FALSE
      <4>1. fdt.part = Empty.part /\ fdt.file = Empty.file
        BY <2>4, <3>1
      <4>2. tree.bt = FALSE
        BY <3>1 DEF Empty
      <4>3. fdt.bt = FALSE
        BY <2>2, <4>2 DEF Contents
      <4> QED BY <2>2, <3>1, <4>1, <4>3 DEF Contents, Empty
    <3> QED BY <3>1
  <2>6. fdt = Empty => tree = Empty
    <3>1. ASSUME fdt = Empty PROVE tree = Empty
      <4>1. (Overlay(p) /\ fdt # Empty) = FALSE
        BY <3>1
      <4>2. fdt.bt = FALSE
        BY <3>1 DEF Empty
      <4>3. \A c \in Contents : c.bt = FALSE => [c EXCEPT !.bt = @ \/ FALSE] = c
        BY DEF Contents
      <4>4. tree = fdt
        BY <2>2, <4>1, <4>2, <4>3
      <4> QED BY <3>1, <4>4
    <3> QED BY <3>1
  <2>7. Load(env.fdt, p, mem.fdt) = fdt
    BY <2>1
  <2> HIDE DEF fdt, scratch, tree
  <2> QED BY <1>2, <1>3, <2>1, <2>2, <2>3, <2>4, <2>5, <2>6, <2>7
<1> QED BY <1>4, <1>5, <1>6 DEF DoBoot

-----------------------------------------------------------------------------
(* Types: a step at a time. *)
LEMMA OffTyped ==
  ASSUME WorldOK, CardOK, RamOK, StepOK, Off
  PROVE  WorldOK' /\ CardOK' /\ RamOK' /\ StepOK'
<1>1. WorldOK' /\ CardOK'
  BY PartsKept DEF Off
<1>2. RamOK'
  <2>1. mem.kernel \in Contents /\ mem.fdt \in Contents
    BY DEF RamOK
  <2>2. \A c \in Contents : Survivors(c) \subseteq Contents
    BY DefaultsTyped DEF Survivors, Contents, Origins
  <2>3. mem' \in [kernel : Contents, fdt : Contents]
    BY <2>1, <2>2 DEF Off
  <2> QED BY <2>3, DefaultsTyped DEF Off, RamOK
<1>3. StepOK'
  BY DEF Off, StepOK
<1> QED BY <1>1, <1>2, <1>3

LEMMA RunDoBootTyped ==
  ASSUME CardOK, RamOK, StepOK, NEW p \in Parts, RunDoBoot(p), env' = env, printed' = printed
  PROVE  /\ RamOK'
         /\ pc' \in {"linux", "prompt"}
         /\ pc' = "linux" => booted'.root \in Parts
<1> DEFINE b == DoBoot(p)
<1>1. b.kernel \in Contents /\ b.fdt \in Contents /\ b.root \in Parts
  BY DoBootTyped
<1>2. /\ mem' = [kernel |-> b.kernel, fdt |-> b.fdt]
      /\ \/ booted' = [kernel |-> b.kernel.part, fdt |-> b.fdt, root |-> b.root] /\ pc' = "linux"
         \/ booted' = NoBoot /\ pc' = "prompt"
  BY DEF RunDoBoot
<1> HIDE DEF b
<1>3. mem' \in [kernel : Contents, fdt : Contents]
  BY <1>1, <1>2
<1>4. [kernel |-> b.kernel.part, fdt |-> b.fdt, root |-> b.root]
        \in [kernel : Origins, fdt : Contents, root : Parts \cup {None}]
  <2>1. b.kernel.part \in Origins
    BY <1>1 DEF Contents
  <2> QED BY <1>1, <2>1
<1>5. booted' \in [kernel : Origins, fdt : Contents, root : Parts \cup {None}]
  BY <1>2, <1>4, DefaultsTyped
<1>6. env' \in Environment /\ printed' \in [Params -> Devices \cup {None}]
  BY DEF RamOK
<1>7. RamOK'
  BY <1>3, <1>5, <1>6 DEF RamOK
<1> QED BY <1>1, <1>2, <1>7

LEMMA UBootTyped ==
  ASSUME TypeOK, PowerOn \/ BoardLateInit \/ FirstBootCommand \/ XBoot \/ UserBoot
  PROVE  TypeOK'
<1> USE TypeParts
<1>1. ASSUME PowerOn PROVE TypeOK'
  <2>1. WorldOK' /\ CardOK' /\ FaultsOK'
    BY <1>1, PartsKept DEF PowerOn, history, Reliable
  <2>2. StepOK'
    BY <1>1 DEF PowerOn, StepOK, history
  <2>3. stored \in Environment
    BY DEF CardOK
  <2>4. RamOK'
    BY <1>1, <2>3, LoadedTyped DEF PowerOn, RamOK
  <2> QED BY <2>1, <2>2, <2>4
<1>2. ASSUME BoardLateInit PROVE TypeOK'
  <2>1. WorldOK' /\ CardOK' /\ FaultsOK'
    BY <1>2, PartsKept DEF BoardLateInit, history, Reliable
  <2>2. StepOK'
    BY <1>2 DEF BoardLateInit, StepOK, history
  <2>3. hw[device] \in Hardware /\ env \in Environment
    BY DEF WorldOK, RamOK
  <2>4. FdtFile(env.fdt, hw[device]) \in Fdts
    BY <2>3, DetectedTyped DEF FdtFile, Environment
  <2>5. PICK c \in {"A", "B", env.bootcmd} :
          env' = [env EXCEPT !.fdt = FdtFile(@, hw[device]), !.bootcmd = c]
    BY <1>2 DEF BoardLateInit
  <2>6. c \in {"first", "A", "B"}
    BY <2>3 DEF Environment
  <2>7. env' \in Environment
    BY <2>3, <2>4, <2>5, <2>6 DEF Environment
  <2>8. RamOK'
    BY <1>2, <2>7 DEF BoardLateInit, RamOK
  <2> QED BY <2>1, <2>2, <2>8
<1>3. ASSUME FirstBootCommand PROVE TypeOK'
  <2>1. WorldOK' /\ StepOK'
    BY <1>3 DEF FirstBootCommand, world, WorldOK, StepOK
  <2>2. FaultsOK'
    BY <1>3, PartsKept, FaultsBounded DEF FirstBootCommand
  <2>3. [env EXCEPT !.bootcmd = "A"] \in Environment
    BY DEF RamOK, Environment
  <2>4. CardOK'
    BY <1>3, <2>3 DEF FirstBootCommand, FirstBoot, CardOK
  <2>5. RamOK'
    BY <1>3, <2>3 DEF FirstBootCommand, RamOK
  <2> QED BY <2>1, <2>2, <2>4, <2>5
<1>4. ASSUME XBoot PROVE TypeOK'
  <2>1. WorldOK' /\ CardOK' /\ FaultsOK'
    BY <1>4, PartsKept DEF XBoot, history, Reliable
  <2>2. env.bootcmd \in Parts
    BY <1>4 DEF XBoot, RamOK, Environment, Parts
  <2>3. RamOK' /\ pc' \in {"linux", "prompt"}
    BY <1>4, <2>2, RunDoBootTyped DEF XBoot
  <2>4. StepOK'
    BY <1>4, <2>3 DEF XBoot, StepOK, history
  <2> QED BY <2>1, <2>3, <2>4
<1>5. ASSUME UserBoot PROVE TypeOK'
  <2>1. WorldOK' /\ CardOK' /\ FaultsOK'
    BY <1>5, PartsKept DEF UserBoot, Reliable
  <2>2. RamOK' /\ pc' \in {"linux", "prompt"}
    BY <1>5, RunDoBootTyped DEF UserBoot
  <2>3. StepOK'
    BY <1>5, <2>2 DEF UserBoot, StepOK
  <2> QED BY <2>1, <2>2, <2>3
<1> QED BY <1>1, <1>2, <1>3, <1>4, <1>5

LEMMA LinuxTyped ==
  ASSUME TypeOK, Rooted, IdentityKnown,
         DeviceInfo \/ NetCheck \/ Install \/ EnableBt
  PROVE  TypeOK'
<1> USE TypeParts
<1>1. ASSUME DeviceInfo PROVE TypeOK'
  <2>1. WorldOK' /\ RamOK' /\ FaultsOK'
    BY <1>1, PartsKept, FaultsBounded DEF DeviceInfo
  <2>2. device \in Devices /\ devid \in [Parts -> Devices \cup {None}]
    BY DEF WorldOK, CardOK
  <2>3. devid' \in [Parts -> Devices \cup {None}]
    BY <1>1, <2>2 DEF DeviceInfo
  <2>4. CardOK' /\ StepOK'
    BY <1>1, <2>3 DEF DeviceInfo, CardOK, StepOK
  <2> QED BY <2>1, <2>4
<1>2. ASSUME NetCheckReads PROVE TypeOK'
  <2>1. WorldOK' /\ CardOK' /\ FaultsOK'
    BY <1>2, PartsKept DEF NetCheckReads, Reliable
  <2>2. stored.par \in [Params -> Devices \cup {None}]
    BY DEF CardOK, Environment
  <2>3. RamOK'
    BY <1>2, <2>2 DEF NetCheckReads, RamOK
  <2>4. StepOK'
    BY <1>2 DEF NetCheckReads, StepOK, Params
  <2> QED BY <2>1, <2>3, <2>4
<1>3. ASSUME NEW p \in Params, NEW next \in {"lanspeed", "up"}, NetCheckStores(p, next) PROVE TypeOK'
  <2>1. WorldOK' /\ FaultsOK'
    BY <1>3, PartsKept DEF NetCheckStores, Reliable
  <2>2. Identity \in Devices
    BY <1>3 DEF NetCheckStores, IdentityKnown
  <2>3. [stored EXCEPT !.par[p] = Identity] \in Environment
    BY <1>3, <2>2 DEF CardOK, Environment
  <2>4. CardOK'
    BY <1>3, <2>3 DEF NetCheckStores, CardOK
  <2>5. RamOK'
    BY <1>3, DefaultsTyped DEF NetCheckStores, RamOK
  <2>6. StepOK'
    <3>1. (checked \/ (next = "up" /\ Identity = device)) \in BOOLEAN
      BY DEF StepOK
    <3>2. pc' \in {"up"} \cup Params
      BY <1>3 DEF NetCheckStores, Params
    <3> QED BY <1>3, <3>1, <3>2 DEF NetCheckStores, StepOK
  <2> QED BY <2>1, <2>4, <2>5, <2>6
<1>4. ASSUME Install PROVE TypeOK'
  <2>1. WorldOK' /\ RamOK' /\ FaultsOK' /\ pc' = pc
    BY <1>4, PartsKept DEF Install, Reliable, history
  <2>2. \A f \in Releases : f \in SUBSET Files
    BY DEF Releases
  <2>3. \A p \in {"A", "B"} : p \in Parts /\ [stored EXCEPT !.bootcmd = p] \in Environment
    BY DEF CardOK, Environment, Parts
  <2>4. CardOK'
    BY <1>4, <2>2, <2>3 DEF Install, CardOK
  <2>5. StepOK'
    BY <1>4 DEF Install, StepOK, history
  <2> QED BY <2>1, <2>4, <2>5
<1>5. ASSUME EnableBt PROVE TypeOK'
  <2>1. WorldOK' /\ RamOK' /\ FaultsOK'
    BY <1>5, PartsKept DEF EnableBt, Reliable, history
  <2>2. [stored EXCEPT !.bt = TRUE] \in Environment
    BY DEF CardOK, Environment
  <2>3. CardOK' /\ StepOK'
    BY <1>5, <2>2 DEF EnableBt, CardOK, StepOK, history
  <2> QED BY <2>1, <2>3
<1>6. ASSUME NetCheck PROVE TypeOK'
  BY <1>2, <1>3, <1>6 DEF NetCheck, Params
<1> QED BY <1>1, <1>4, <1>5, <1>6

LEMMA OutsideTyped ==
  ASSUME TypeOK, Reboot \/ Reset \/ PowerCut \/ Move \/ Plug
  PROVE  TypeOK'
<1> USE TypeParts
<1>1. ASSUME Reboot \/ Reset PROVE TypeOK'
  BY <1>1, OffTyped, PartsKept DEF Reboot, Reset, Reliable
<1>2. ASSUME PowerCut PROVE TypeOK'
  BY <1>2, OffTyped, FaultsBounded DEF PowerCut
<1>3. ASSUME moves < MaxMoves, moves' = moves + 1 PROVE moves' \in 0 .. MaxMoves
  <2>1. moves \in Nat /\ MaxMoves \in Nat
    BY BoardAssumption DEF WorldOK, BoardAssumption
  <2> QED BY <1>3, <2>1
<1>4. ASSUME Move PROVE TypeOK'
  <2>1. WorldOK'
    BY <1>3, <1>4 DEF Move, WorldOK
  <2>2. CardOK' /\ RamOK' /\ FaultsOK'
    BY <1>4, PartsKept, DefaultsTyped DEF Move, Reliable, RamOK
  <2>3. StepOK'
    BY <1>4 DEF Move, StepOK
  <2> QED BY <2>1, <2>2, <2>3
<1>5. ASSUME Plug PROVE TypeOK'
  <2>1. \A h \in Hardware : [h EXCEPT !.touch = ~@] \in Hardware
    BY DEF Hardware
  <2>2. hw' = [hw EXCEPT ![device] = [hw[device] EXCEPT !.touch = ~@]]
    BY <1>5 DEF Plug
  <2>3. hw' \in [Devices -> Hardware]
    BY <2>1, <2>2 DEF WorldOK
  <2>4. WorldOK'
    BY <1>3, <1>5, <2>3 DEF Plug, WorldOK
  <2>5. CardOK' /\ RamOK' /\ FaultsOK'
    BY <1>5, PartsKept, DefaultsTyped DEF Plug, Reliable, RamOK
  <2>6. StepOK'
    BY <1>5 DEF Plug, StepOK
  <2> QED BY <2>4, <2>5, <2>6
<1> QED BY <1>1, <1>2, <1>4, <1>5

-----------------------------------------------------------------------------
(* A partition that is made the one to boot holds a release, and stays so.  *)
LEMMA ReleasesWhole == \A f \in Releases : "kernel" \in f /\ "fit" \in f /\ f # {}
  BY DEF Releases, Files, Fdts

LEMMA FirstSlots ==
  ASSUME TypeOK, Init
  PROVE  SlotInv
<1>1. PICK a \in Releases, b \in Releases \cup {{}} :
        files = [p \in Parts |-> CASE p = "A" -> a [] p = "B" -> b [] OTHER -> Files]
  BY DEF Init
<1>2. Files \in Releases
  BY DEF Releases
<1>3. files["A"] = a /\ files["B"] = b /\ files["usb"] = Files
  BY <1>1 DEF Parts
<1>4. FilesWhole
  BY <1>1, <1>2, <1>3, ReleasesWhole DEF FilesWhole, Parts
<1>5. stored.bootcmd \in {"first", "A"} /\ pc = "off"
  BY DefaultsTyped DEF Init, Default
<1>6. Bootable
  BY <1>4, <1>5 DEF Bootable, FilesWhole
<1> QED BY <1>4, <1>6 DEF SlotInv

LEMMA UBootSlots ==
  ASSUME TypeOK, SlotInv, BootInv,
         PowerOn \/ BoardLateInit \/ FirstBootCommand \/ XBoot \/ UserBoot
  PROVE  SlotInv'
<1>1. files' = files
  BY DEF PowerOn, BoardLateInit, FirstBootCommand, XBoot, UserBoot, card
<1>2. FilesWhole'
  BY <1>1 DEF SlotInv, FilesWhole
<1>3. ASSUME PowerOn \/ XBoot \/ UserBoot PROVE Bootable'
  <2>1. stored' = stored /\ pc' # "autoboot"
    BY <1>3 DEF PowerOn, XBoot, UserBoot, RunDoBoot, card
  <2> QED BY <1>1, <2>1 DEF SlotInv, Bootable
<1>4. ASSUME BoardLateInit PROVE Bootable'
  <2>1. stored' = stored /\ env \in Environment /\ env = Loaded(stored)
    BY <1>4 DEF BoardLateInit, card, TypeOK, BootInv, JustLoaded
  <2>2. PICK c \in IF board = "secured" THEN {p \in {"A", "B"} : files[p] # {}} ELSE {env.bootcmd} :
          env' = [env EXCEPT !.fdt = FdtFile(@, hw[device]), !.bootcmd = c]
    BY <1>4 DEF BoardLateInit
  <2>3. env'.bootcmd = c
    BY <2>1, <2>2 DEF Environment
  <2>4. c # "first" => files[c] # {}
    BY <2>1, <2>2 DEF Loaded, SlotInv, Bootable
  <2> QED BY <1>1, <2>1, <2>3, <2>4 DEF SlotInv, Bootable
<1>5. ASSUME FirstBootCommand PROVE Bootable'
  <2>1. env'.bootcmd = "A" /\ (stored'.bootcmd = "A" \/ stored' = stored)
    BY <1>5 DEF FirstBootCommand, FirstBoot, TypeOK, Environment
  <2> QED BY <1>1, <2>1 DEF SlotInv, Bootable, FilesWhole
<1> QED BY <1>2, <1>3, <1>4, <1>5 DEF SlotInv

LEMMA OutsideSlots ==
  ASSUME TypeOK, SlotInv, Reboot \/ Reset \/ PowerCut \/ Move \/ Plug
  PROVE  SlotInv'
<1>1. files' = files /\ stored' = stored /\ pc' = "off"
  BY DEF Reboot, Reset, PowerCut, Off, Move, Plug, card
<1> QED BY <1>1 DEF SlotInv, FilesWhole, Bootable

LEMMA LinuxSlots ==
  ASSUME TypeOK, SlotInv, IdentityKnown, DeviceInfo \/ NetCheck \/ Install \/ EnableBt
  PROVE  SlotInv'
<1>1. pc' # "autoboot"
  BY DEF DeviceInfo, NetCheck, NetCheckReads, NetCheckStores, Install, EnableBt, Params
<1>2. ASSUME files' = files, stored'.bootcmd = stored.bootcmd PROVE SlotInv'
  BY <1>1, <1>2 DEF SlotInv, FilesWhole, Bootable
<1>3. CASE DeviceInfo \/ NetCheck \/ EnableBt
  <2>1. files' = files
    BY <1>3 DEF DeviceInfo, NetCheck, NetCheckReads, NetCheckStores, EnableBt, card
  <2>2. stored'.bootcmd = stored.bootcmd
    BY <1>3 DEF DeviceInfo, NetCheck, NetCheckReads, NetCheckStores, EnableBt, card, TypeOK, Environment
  <2> QED BY <1>2, <2>1, <2>2
<1>4. CASE Install
  <2>1. PICK p \in {"A", "B"} \ {booted.root} :
          \/ (\E f \in Releases : files' = [files EXCEPT ![p] = f]) /\ stored' = stored
          \/ /\ files[p] # {} /\ stored' = [stored EXCEPT !.bootcmd = p] /\ files' = files
    BY <1>4 DEF Install
  <2>2. CASE \E f \in Releases : files' = [files EXCEPT ![p] = f] /\ stored' = stored
    <3>1. PICK f \in Releases : files' = [files EXCEPT ![p] = f] /\ stored' = stored
      BY <2>2
    <3>2. \A q \in Parts : files'[q] = IF q = p THEN f ELSE files[q]
      BY <3>1 DEF TypeOK
    <3>3. FilesWhole' /\ (\A q \in Parts : files[q] # {} => files'[q] # {})
      BY <3>2, ReleasesWhole DEF SlotInv, FilesWhole, Parts
    <3>4. stored.bootcmd # "first" => stored.bootcmd \in Parts
      BY DEF TypeOK, Environment, Parts
    <3>5. Bootable'
      BY <1>1, <3>1, <3>3, <3>4 DEF SlotInv, Bootable
    <3> QED BY <3>3, <3>5 DEF SlotInv
  <2>3. CASE files[p] # {} /\ stored' = [stored EXCEPT !.bootcmd = p] /\ files' = files
    <3>1. stored'.bootcmd = p
      BY <2>3 DEF TypeOK, Environment
    <3> QED BY <1>1, <2>3, <3>1 DEF SlotInv, FilesWhole, Bootable
  <2> QED BY <2>1, <2>2, <2>3
<1> QED BY <1>3, <1>4

-----------------------------------------------------------------------------
(* The boot: from the device tree in the environment to what bootm starts.  *)
LEMMA FirstEnvironments ==
  ASSUME TypeOK, Init
  PROVE  BootInv /\ NetInv
<1>1. hw[device] \in Hardware
  BY DEF TypeOK
<1>2. pc = "off" /\ mem = NoMem /\ env = Default /\ changed = FALSE /\ checked = FALSE
  BY DEF Init
<1>3. \/ stored = Default
      \/ board = "secured" /\ \E f \in Fdts : stored = [Default EXCEPT !.bootcmd = "A", !.fdt = f]
  BY DEF Init
<1>4. NeverSaved
  <2>1. \A f \in Fdts : [Default EXCEPT !.bootcmd = "A", !.fdt = f].bootcmd = "A"
    BY DEF Default
  <2> QED BY <1>3, <2>1 DEF NeverSaved
<1>5. SavedFits /\ OneTree
  BY <1>2, <1>3, DefaultsTyped DEF SavedFits, OneTree
<1>6. OfThePast /\ StaleFits /\ JustLoaded /\ FirstTime /\ FdtChosen
  BY <1>2 DEF NoMem, OfThePast, StaleFits, JustLoaded, FirstTime, FdtChosen
<1>7. FdtFits /\ OneSlot /\ StopsForMissingFile
  BY <1>2 DEF FdtFits, OneSlot, StopsForMissingFile, LinuxRuns, Params
<1>8. NetInv
  BY <1>2 DEF NetInv, Rooted, IdentityKnown, PrintedStands, NetFollowsDevice, LinuxRuns, Params
<1> QED BY <1>4, <1>5, <1>6, <1>7, <1>8 DEF BootInv

LEMMA PowerOnBoots ==
  ASSUME TypeOK, BootInv, PowerOn
  PROVE  BootInv'
<1> DEFINE Fit == Detected(hw[device])
<1>1. Fit' = Fit /\ board' = board /\ changed' = changed /\ stored' = stored /\ mem' = mem
  BY DetectedKept DEF PowerOn, world, history, card
<1>2. pc = "off" /\ pc' = "late_init" /\ env' = Loaded(stored)
  BY DEF PowerOn
<1>3. Loaded(stored)' = Loaded(stored)
  BY <1>1 DEF Loaded
<1>4. OfThePast' /\ NeverSaved' /\ JustLoaded' /\ FirstTime' /\ FdtChosen'
  BY <1>1, <1>2, <1>3 DEF BootInv, OfThePast, NeverSaved, JustLoaded, FirstTime, FdtChosen
<1>5. OneTree'
  BY <1>1, <1>2 DEF BootInv, OneTree, Loaded
<1>6. SavedFits' /\ StaleFits'
  BY <1>1 DEF BootInv, SavedFits, StaleFits
<1>7. FdtFits' /\ OneSlot' /\ StopsForMissingFile'
  BY <1>2 DEF FdtFits, OneSlot, StopsForMissingFile, LinuxRuns, Params
<1> QED BY <1>4, <1>5, <1>6, <1>7 DEF BootInv

(* board_late_init leaves a device tree that fits, unless one that an open   *)
(* board has saved comes from before a change.                              *)
LEMMA LateInitBoots ==
  ASSUME TypeOK, BootInv, BoardLateInit
  PROVE  BootInv'
<1> DEFINE Fit == Detected(hw[device])
<1>1. Fit' = Fit /\ board' = board /\ changed' = changed /\ stored' = stored /\ mem' = mem
  BY DetectedKept DEF BoardLateInit, world, history, card
<1>2. /\ pc = "late_init" /\ pc' = "autoboot" /\ env = Loaded(stored)
      /\ env \in Environment /\ stored \in Environment /\ hw[device] \in Hardware
  BY DEF BoardLateInit, BootInv, JustLoaded, TypeOK
<1>3. PICK c \in {"A", "B", env.bootcmd} :
        /\ env' = [env EXCEPT !.fdt = FdtFile(@, hw[device]), !.bootcmd = c]
        /\ board = "secured" => c # "first"
        /\ board # "secured" => c = env.bootcmd
  BY DEF BoardLateInit
<1>4. env'.fdt = (IF env.fdt = "default" THEN Fit ELSE env.fdt) /\ env'.bootcmd = c
  BY <1>2, <1>3 DEF FdtFile, Environment
<1> HIDE DEF Fit
<1>5. board = "secured" \/ ~changed \/ stored.bootcmd = "first" => env'.fdt = Fit
  <2>1. CASE board = "secured"
    BY <1>2, <1>4, <2>1, DefaultsTyped DEF Loaded
  <2>2. CASE board # "secured" /\ ~changed
    <3>1. env.fdt \in {"default", Fit}
      BY <1>2, <2>2 DEF Loaded, BootInv, SavedFits, Fit
    <3> QED BY <1>4, <3>1
  <2>3. CASE board # "secured" /\ stored.bootcmd = "first"
    <3>1. env = Default
      BY <1>2, <2>3, DefaultsTyped DEF Loaded, BootInv, NeverSaved
    <3> QED BY <1>4, <3>1, DefaultsTyped
  <2> QED BY <2>1, <2>2, <2>3
<1>6. FdtChosen'
  BY <1>1, <1>2, <1>5 DEF FdtChosen, Fit
<1>7. FirstTime'
  <2> SUFFICES ASSUME env'.bootcmd = "first"
               PROVE /\ board' # "secured" /\ stored' = Default
                     /\ env'.fdt = Fit' /\ env'.par = Default.par
    BY DEF FirstTime, Fit
  <2>1. board # "secured" /\ c = env.bootcmd /\ env = stored
    BY <1>2, <1>3, <1>4 DEF Loaded
  <2>2. stored = Default /\ env = Default
    BY <1>4, <2>1 DEF BootInv, NeverSaved
  <2>3. env'.par = env.par
    BY <1>2, <1>3 DEF Environment
  <2>4. env'.fdt = Fit
    BY <1>4, <2>2, DefaultsTyped
  <2> QED BY <1>1, <2>1, <2>2, <2>3, <2>4
<1>8. OneTree'
  <2>1. board = "himx8" => Fit = "default"
    BY <1>2, DetectedTyped DEF Fit
  <2> QED BY <1>1, <1>4, <2>1 DEF BootInv, OneTree
<1>9. OfThePast' /\ StaleFits' /\ NeverSaved' /\ JustLoaded' /\ SavedFits'
  BY <1>1, <1>2 DEF BootInv, OfThePast, StaleFits, NeverSaved, JustLoaded, SavedFits, Fit
<1>10. FdtFits' /\ OneSlot' /\ StopsForMissingFile'
  BY <1>2 DEF FdtFits, OneSlot, StopsForMissingFile, LinuxRuns, Params
<1> QED BY <1>6, <1>7, <1>8, <1>9, <1>10 DEF BootInv

(* The first saveenv keeps what was just detected; one that fails leaves an  *)
(* environment that was never saved.                                        *)
LEMMA FirstBootBoots ==
  ASSUME TypeOK, BootInv, FirstBootCommand
  PROVE  BootInv'
<1> DEFINE Fit == Detected(hw[device])
<1>1. Fit' = Fit /\ board' = board /\ mem' = mem /\ pc = "autoboot" /\ pc' = pc
  BY DetectedKept DEF FirstBootCommand, world
<1>2. /\ board # "secured" /\ stored = Default /\ env.fdt = Fit
      /\ env \in Environment /\ env' = [env EXCEPT !.bootcmd = "A"]
      /\ stored' = env' \/ UNCHANGED <<stored, changed>>
  BY DEF FirstBootCommand, FirstBoot, BootInv, FirstTime, TypeOK
<1>3. env'.fdt = Fit /\ env'.bootcmd = "A"
  BY <1>2 DEF Environment
<1>4. \/ stored'.fdt = Fit /\ stored'.bootcmd = "A"
      \/ stored' = stored /\ changed' = changed
  BY <1>2, <1>3
<1>5. board = "himx8" => Fit = "default"
  BY DetectedTyped DEF TypeOK
<1> HIDE DEF Fit
<1>6. OneTree'
  BY <1>1, <1>3, <1>4, <1>5 DEF BootInv, OneTree
<1>7. NeverSaved'
  BY <1>4 DEF BootInv, NeverSaved
<1>8. SavedFits'
  BY <1>1, <1>4 DEF BootInv, SavedFits, Fit
<1>9. OfThePast' /\ JustLoaded' /\ FirstTime' /\ FdtChosen'
  BY <1>1, <1>3 DEF BootInv, OfThePast, JustLoaded, FirstTime, FdtChosen, Fit
<1>11. StaleFits'
  <2>1. mem.fdt = Empty \/ mem.fdt.file = Fit
    BY <1>2, DefaultsTyped DEF BootInv, StaleFits, Fit
  <2> QED BY <1>1, <2>1 DEF StaleFits, Fit
<1>10. FdtFits' /\ OneSlot' /\ StopsForMissingFile'
  BY <1>1 DEF FdtFits, OneSlot, StopsForMissingFile, LinuxRuns, Params
<1> QED BY <1>6, <1>7, <1>8, <1>9, <1>10, <1>11 DEF BootInv

(* Steps that leave the board, the environment and its saved device tree    *)
(* alone keep what holds of them, wherever they lead after board_late_init. *)
LEMMA TreesKept ==
  ASSUME BootInv, pc \notin {"off", "late_init"}, pc' \notin {"off", "late_init", "autoboot"},
         board' = board, hw' = hw, device' = device, env' = env, changed' = changed,
         stored'.fdt = stored.fdt, stored'.bootcmd = "first" => stored' = stored
  PROVE  /\ OfThePast' /\ NeverSaved' /\ JustLoaded' /\ FirstTime' /\ FdtChosen'
         /\ SavedFits' /\ OneTree'
<1> DEFINE Fit == Detected(hw[device])
<1>1. Fit' = Fit
  BY DetectedKept
<1>2. OfThePast' /\ NeverSaved' /\ JustLoaded' /\ FirstTime'
  BY DEF BootInv, OfThePast, NeverSaved, JustLoaded, FirstTime
<1>3. FdtChosen' /\ SavedFits'
  BY <1>1 DEF BootInv, FdtChosen, SavedFits
<1>4. OneTree'
  BY DEF BootInv, OneTree
<1> QED BY <1>2, <1>3, <1>4

(* What a script leaves in memory fits, if what it found there did.         *)
LEMMA ScriptsFit ==
  ASSUME TypeOK, BootInv, NEW p \in Parts, RunDoBoot(p), pc \in {"autoboot", "prompt"},
         board' = board, hw' = hw, device' = device, changed' = changed, stored' = stored
  PROVE  StaleFits'
<1> DEFINE Fit == Detected(hw[device])
           b == DoBoot(p)
<1>1. Fit' = Fit /\ mem'.fdt = b.fdt
  BY DetectedKept DEF RunDoBoot
<1>2. BootsFrom(b, p)
  BY TypeParts, ScriptsLoad DEF BootInv
<1> HIDE DEF Fit, b
<1>3. ASSUME board # "secured", ~changed \/ stored.bootcmd = "first"
      PROVE  b.fdt = Empty \/ b.fdt.file = Fit
  <2>1. env.fdt = Fit /\ (mem.fdt = Empty \/ mem.fdt.file = Fit)
    BY <1>3 DEF BootInv, FdtChosen, StaleFits, Fit
  <2> QED BY <1>2, <1>3, <2>1 DEF BootsFrom
<1> QED BY <1>1, <1>3 DEF StaleFits, Fit

(* The boot itself: the kernel is of the root, the device tree fits, and it  *)
(* is of the root, too, or what memory held.                                *)
LEMMA XBootBoots ==
  ASSUME TypeOK, SlotInv, BootInv, XBoot
  PROVE  BootInv'
<1> DEFINE Fit == Detected(hw[device])
           p == env.bootcmd
           b == DoBoot(p)
<1>1. /\ Fit' = Fit /\ board' = board /\ hw' = hw /\ device' = device /\ files' = files
      /\ env' = env /\ stored' = stored /\ changed' = changed /\ auto' = auto
      /\ pc = "autoboot"
  BY DetectedKept DEF XBoot, world, history, card
<1>2. \/ /\ b.kernel.file \in {"kernel", "fit"} /\ b.fdt # Empty
         /\ booted' = [kernel |-> b.kernel.part, fdt |-> b.fdt, root |-> b.root] /\ pc' = "linux"
      \/ ~(b.kernel.file \in {"kernel", "fit"} /\ b.fdt # Empty) /\ pc' = "prompt"
  BY DEF XBoot, RunDoBoot
<1>3. p \in Parts /\ p # "first"
  BY DEF XBoot, TypeOK, Environment, Parts
<1>4. BootsFrom(b, p)
  BY <1>3, TypeParts, ScriptsLoad DEF BootInv
<1>5. KernelFile \in files[p] /\ KernelFile \in {"kernel", "fit"}
  BY <1>1, <1>3, ReleasesWhole DEF SlotInv, FilesWhole, Bootable, KernelFile
<1>6. StaleFits'
  BY <1>1, <1>3, ScriptsFit DEF XBoot
<1> HIDE DEF Fit, b
<1>7. /\ OfThePast' /\ NeverSaved' /\ JustLoaded' /\ FirstTime' /\ FdtChosen'
      /\ SavedFits' /\ OneTree'
  <2>1. pc' \notin {"off", "late_init", "autoboot"}
    BY <1>2
  <2> QED BY <1>1, <2>1, TreesKept
<1>8. ASSUME pc' = "linux"
      PROVE  /\ booted'.kernel = p /\ booted'.root = p /\ booted'.fdt = b.fdt
             /\ \/ b.fdt.part = p /\ b.fdt.file = env.fdt
                \/ /\ board # "secured" /\ env.fdt \notin files[p]
                   /\ b.fdt.part = Past /\ mem.fdt # Empty /\ b.fdt.file = mem.fdt.file
  <2>1. /\ b.fdt # Empty
        /\ booted' = [kernel |-> b.kernel.part, fdt |-> b.fdt, root |-> b.root]
    BY <1>2, <1>8
  <2>2. mem.fdt # Empty => mem.fdt.part = Past
    BY <1>1 DEF BootInv, OfThePast
  <2> QED BY <1>4, <1>5, <2>1, <2>2 DEF BootsFrom
<1>9. LinuxRuns' => pc' = "linux"
  BY <1>2 DEF LinuxRuns, Params
<1>10. FdtFits'
  <2> SUFFICES ASSUME pc' = "linux", board = "secured" \/ ~changed
               PROVE booted'.fdt.file = Fit
    BY <1>1, <1>9 DEF FdtFits, Fit
  <2>1. env.fdt = Fit
    BY <1>1 DEF BootInv, FdtChosen, Fit
  <2>2. board # "secured" => mem.fdt = Empty \/ mem.fdt.file = Fit
    BY DEF BootInv, StaleFits, Fit
  <2> QED BY <1>8, <2>1, <2>2
<1>11. OneSlot'
  BY <1>1, <1>8, <1>9 DEF OneSlot
<1>12. StopsForMissingFile'
  <2> SUFFICES ASSUME pc' = "prompt" PROVE {KernelFile, env.fdt} \ files[p] # {}
    BY <1>1 DEF StopsForMissingFile, KernelFile
  <2>1. b.fdt = Empty
    BY <1>2, <1>4, <1>5 DEF BootsFrom
  <2> QED BY <1>4, <2>1 DEF BootsFrom
<1> QED BY <1>6, <1>7, <1>10, <1>11, <1>12 DEF BootInv

LEMMA UserBootBoots ==
  ASSUME TypeOK, BootInv, UserBoot
  PROVE  BootInv'
<1>1. /\ board' = board /\ hw' = hw /\ device' = device /\ env' = env /\ stored' = stored
      /\ changed' = changed /\ auto' = FALSE /\ pc = "prompt" /\ pc' \in {"linux", "prompt"}
  BY DEF UserBoot, world, card, RunDoBoot
<1>2. FdtFits' /\ OneSlot' /\ StopsForMissingFile'
  BY <1>1 DEF FdtFits, OneSlot, StopsForMissingFile
<1>3. StaleFits'
  BY <1>1, ScriptsFit DEF UserBoot
<1> QED BY <1>1, <1>2, <1>3, TreesKept DEF BootInv

(* Under Linux the boot is history; what is stored changes, the saved device *)
(* tree does not.                                                           *)
LEMMA LinuxBoots ==
  ASSUME TypeOK, BootInv, Rooted, IdentityKnown, DeviceInfo \/ NetCheck \/ Install \/ EnableBt
  PROVE  BootInv'
<1>1. /\ board' = board /\ hw' = hw /\ device' = device /\ env' = env /\ booted' = booted
      /\ mem' = mem /\ changed' = changed /\ auto' = auto
  BY DEF DeviceInfo, NetCheck, NetCheckReads, NetCheckStores, Install, EnableBt, world, card, ram, history
<1>2. LinuxRuns /\ LinuxRuns'
  BY DEF DeviceInfo, NetCheck, NetCheckReads, NetCheckStores, Install, EnableBt, LinuxRuns, Params
<1>3. stored'.fdt = stored.fdt /\ (stored' # stored => stored'.bootcmd # "first")
  <2> stored \in Environment
    BY DEF TypeOK
  <2>1. ASSUME DeviceInfo \/ NetCheckReads PROVE stored' = stored
    BY <2>1 DEF DeviceInfo, NetCheckReads, card
  <2>2. ASSUME NEW p \in Params, NEW next, NetCheckStores(p, next)
        PROVE stored'.fdt = stored.fdt /\ stored'.bootcmd # "first"
    <3>1. stored.bootcmd # "first"
      BY <2>2 DEF NetCheckStores, IdentityKnown
    <3> QED BY <2>2, <3>1 DEF NetCheckStores, Environment
  <2>3. ASSUME Install
        PROVE stored'.fdt = stored.fdt /\ (stored' # stored => stored'.bootcmd # "first")
    BY <2>3 DEF Install, Environment
  <2>4. ASSUME EnableBt PROVE stored'.fdt = stored.fdt /\ stored'.bootcmd # "first"
    BY <2>4 DEF EnableBt, Environment
  <2> QED BY <2>1, <2>2, <2>3, <2>4 DEF NetCheck, Params
<1>4. StaleFits'
  BY <1>1, <1>3, DetectedKept DEF BootInv, StaleFits
<1>5. pc \notin {"off", "late_init", "autoboot", "prompt"} /\ pc' \notin {"off", "late_init", "autoboot", "prompt"}
  BY <1>2 DEF LinuxRuns, Params
<1>6. /\ OfThePast' /\ NeverSaved' /\ JustLoaded' /\ FirstTime' /\ FdtChosen'
      /\ SavedFits' /\ OneTree'
  BY <1>1, <1>3, <1>5, TreesKept
<1>7. OneSlot'
  <2>1. files'[booted.root] = files[booted.root]
    <3>1. CASE Install
      <4>1. PICK p \in {"A", "B"} \ {booted.root} :
              files' = files \/ \E f \in Releases : files' = [files EXCEPT ![p] = f]
        BY <3>1 DEF Install
      <4>2. booted.root \in Parts
        BY <1>2 DEF Rooted
      <4> QED BY <4>1, <4>2 DEF TypeOK
    <3>2. CASE DeviceInfo \/ NetCheck \/ EnableBt
      BY <3>2 DEF DeviceInfo, NetCheck, NetCheckReads, NetCheckStores, EnableBt, card
    <3> QED BY <3>1, <3>2
  <2> QED BY <1>1, <1>2, <2>1 DEF BootInv, OneSlot
<1>9. StopsForMissingFile'
  BY <1>5 DEF StopsForMissingFile
<1>8. FdtFits'
  BY <1>1, <1>2, DetectedKept DEF BootInv, FdtFits
<1> QED BY <1>4, <1>6, <1>7, <1>8, <1>9 DEF BootInv

(* Power off, and what happens while it is: another device or screen counts  *)
(* as a change, so that nothing is claimed of what an open board has saved.  *)
LEMMA OffBoots ==
  ASSUME TypeOK, BootInv, Off
  PROVE  BootInv'
<1>1. /\ board' = board /\ hw' = hw /\ device' = device /\ stored' = stored /\ changed' = changed
      /\ env' = Default /\ pc' = "off"
  BY DEF Off, world, card
<1>6. mem'.fdt = Empty \/ (mem.fdt # Empty /\ mem'.fdt.part = Past /\ mem'.fdt.file = mem.fdt.file)
  <2>1. mem'.fdt = Empty \/ (mem.fdt # Empty /\ mem'.fdt = [mem.fdt EXCEPT !.part = Past])
    BY DEF Off, Survivors
  <2> QED BY <2>1 DEF TypeOK, Contents
<1>7. OfThePast' /\ StaleFits'
  BY <1>1, <1>6, DetectedKept DEF BootInv, OfThePast, StaleFits
<1>2. SavedFits'
  BY <1>1, DetectedKept DEF BootInv, SavedFits
<1>3. OneTree'
  BY <1>1, DefaultsTyped DEF BootInv, OneTree
<1>4. NeverSaved' /\ JustLoaded' /\ FirstTime' /\ FdtChosen'
  BY <1>1 DEF BootInv, NeverSaved, JustLoaded, FirstTime, FdtChosen
<1>5. FdtFits' /\ OneSlot' /\ StopsForMissingFile'
  BY <1>1 DEF FdtFits, OneSlot, StopsForMissingFile, LinuxRuns, Params
<1> QED BY <1>2, <1>3, <1>4, <1>5, <1>7 DEF BootInv

LEMMA OutsideBoots ==
  ASSUME TypeOK, BootInv, Move \/ Plug
  PROVE  BootInv'
<1>1. /\ board' = board /\ stored' = stored /\ mem' = NoMem /\ env' = env
      /\ changed' = TRUE /\ pc = "off" /\ pc' = "off"
  BY DEF Move, Plug, card
<1>2. SavedFits' /\ OneTree' /\ OfThePast' /\ StaleFits'
  BY <1>1 DEF BootInv, SavedFits, OneTree, OfThePast, StaleFits, NoMem
<1>3. NeverSaved' /\ JustLoaded' /\ FirstTime' /\ FdtChosen'
  BY <1>1 DEF BootInv, NeverSaved, JustLoaded, FirstTime, FdtChosen
<1>4. FdtFits' /\ OneSlot' /\ StopsForMissingFile'
  BY <1>1 DEF FdtFits, OneSlot, StopsForMissingFile, LinuxRuns, Params
<1> QED BY <1>2, <1>3, <1>4 DEF BootInv

-----------------------------------------------------------------------------
(* Network parameters: a check that stands survives every step that neither  *)
(* stores parameters nor moves the card.                                     *)
LEMMA CheckKept ==
  ASSUME NetInv, Rooted', pc' \notin Params,
         checked' => checked /\ device' = device /\ stored'.par = stored.par
  PROVE  NetInv'
<1>1. IdentityKnown' /\ PrintedStands'
  BY DEF IdentityKnown, PrintedStands, Params
<1>2. NetFollowsDevice'
  BY DEF NetInv, NetFollowsDevice
<1> QED BY <1>1, <1>2 DEF NetInv

LEMMA UBootChecks ==
  ASSUME TypeOK, BootInv, NetInv,
         PowerOn \/ BoardLateInit \/ FirstBootCommand \/ XBoot \/ UserBoot
  PROVE  NetInv'
<1>1. device' = device /\ checked' = checked
  BY DEF PowerOn, BoardLateInit, FirstBootCommand, XBoot, UserBoot, world, history
<1>2. stored'.par = stored.par
  <2>1. ASSUME FirstBootCommand PROVE stored'.par = stored.par
    <3>1. stored = Default /\ env.par = Default.par /\ env \in Environment
      BY <2>1 DEF FirstBootCommand, BootInv, FirstTime, TypeOK
    <3>2. stored' = [env EXCEPT !.bootcmd = "A"] \/ stored' = stored
      BY <2>1 DEF FirstBootCommand, FirstBoot
    <3> QED BY <3>1, <3>2 DEF Environment
  <2> QED BY <2>1 DEF PowerOn, BoardLateInit, XBoot, UserBoot, card
<1>3. pc' \in {"late_init", "autoboot", "linux", "prompt"} /\ Rooted'
  <2>1. ASSUME PowerOn \/ BoardLateInit \/ FirstBootCommand PROVE pc' \in {"late_init", "autoboot"}
    BY <2>1 DEF PowerOn, BoardLateInit, FirstBootCommand
  <2>2. ASSUME NEW p \in Parts, RunDoBoot(p), env' = env, printed' = printed
        PROVE  pc' \in {"linux", "prompt"} /\ (pc' = "linux" => booted'.root \in Parts)
    BY <2>2, RunDoBootTyped, TypeParts
  <2>3. ASSUME XBoot PROVE pc' \in {"linux", "prompt"} /\ (pc' = "linux" => booted'.root \in Parts)
    <3>1. env.bootcmd \in Parts
      BY <2>3 DEF XBoot, TypeOK, Environment, Parts
    <3> QED BY <2>2, <2>3, <3>1 DEF XBoot
  <2>4. ASSUME UserBoot PROVE pc' \in {"linux", "prompt"} /\ (pc' = "linux" => booted'.root \in Parts)
    BY <2>2, <2>4 DEF UserBoot
  <2>5. /\ pc' \in {"late_init", "autoboot", "linux", "prompt"}
        /\ pc' = "linux" => booted'.root \in Parts
    BY <2>1, <2>3, <2>4
  <2> QED BY <2>5 DEF Rooted, LinuxRuns, Params
<1> QED BY <1>1, <1>2, <1>3, CheckKept DEF Params

LEMMA OutsideChecks ==
  ASSUME TypeOK, NetInv, Reboot \/ Reset \/ PowerCut \/ Move \/ Plug
  PROVE  NetInv'
<1>1. pc' = "off" /\ stored' = stored
  BY DEF Reboot, Reset, PowerCut, Off, Move, Plug, card
<1>2. checked' => checked /\ device' = device
  BY DEF Reboot, Reset, PowerCut, Off, Move, Plug, world
<1>3. Rooted'
  BY <1>1 DEF Rooted, LinuxRuns, Params
<1> QED BY <1>1, <1>2, <1>3, CheckKept DEF Params

LEMMA ServicesCheck ==
  ASSUME TypeOK, NetInv, DeviceInfo \/ Install \/ EnableBt
  PROVE  NetInv'
<1>1. pc' \in {"net_check", "up"} /\ LinuxRuns
  BY DEF DeviceInfo, Install, EnableBt, LinuxRuns
<1>2. device' = device /\ checked' = checked /\ booted' = booted
  BY DEF DeviceInfo, Install, EnableBt, world, history, ram
<1>3. stored'.par = stored.par
  BY DEF DeviceInfo, Install, EnableBt, card, TypeOK, Environment
<1>4. Rooted'
  BY <1>1, <1>2 DEF NetInv, Rooted
<1> QED BY <1>1, <1>2, <1>3, <1>4, CheckKept DEF Params

(* The read: an identity of another device ends the check that stood.       *)
LEMMA ReadChecks ==
  ASSUME TypeOK, NetInv, NetCheckReads
  PROVE  NetInv'
<1>1. /\ stored' = stored /\ device' = device /\ booted' = booted /\ devid' = devid
      /\ printed' = stored.par /\ checked' = (checked /\ Identity \in {None, device})
  BY DEF NetCheckReads, world, card
<1>2. LinuxRuns /\ (pc' = "up" \/ (pc' = "ethaddr" /\ Identity # None /\ stored.bootcmd # "first"))
  BY DEF NetCheckReads, LinuxRuns
<1>3. booted.root \in Parts /\ Identity \in Devices \cup {None} /\ Identity' = Identity
  BY <1>1, <1>2 DEF NetInv, Rooted, TypeOK, Identity
<1>4. Rooted'
  BY <1>1, <1>3 DEF Rooted
<1>5. IdentityKnown'
  BY <1>1, <1>2, <1>3 DEF IdentityKnown, Params
<1>6. PrintedStands'
  BY <1>1, <1>2 DEF PrintedStands
<1>7. NetFollowsDevice'
  BY <1>1 DEF NetInv, NetFollowsDevice
<1> QED BY <1>4, <1>5, <1>6, <1>7 DEF NetInv

(* One parameter stored: when it is the last, all that the identity names   *)
(* are its own.                                                             *)
LEMMA StoreChecks ==
  ASSUME TypeOK, NetInv, NEW p \in Params, NEW next,
         <<p, next>> \in {<<"ethaddr", "lanspeed">>, <<"lanspeed", "up">>}, NetCheckStores(p, next)
  PROVE  NetInv'
<1>1. /\ device' = device /\ booted' = booted /\ devid' = devid /\ pc = p /\ pc' = next
      /\ stored' = IF Differs(p) THEN [stored EXCEPT !.par[p] = Identity] ELSE stored
      /\ checked' = (checked \/ (next = "up" /\ Identity = device))
      /\ next # "up" => printed' = printed
  BY DEF NetCheckStores, world
<1>2. Identity \in Devices /\ stored.bootcmd # "first" /\ (checked => Identity = device)
  BY <1>1 DEF NetInv, IdentityKnown
<1>3. /\ stored.par \in [Params -> Devices \cup {None}] /\ device \in Devices
      /\ printed \in [Params -> Devices \cup {None}] /\ stored \in Environment
  BY DEF TypeOK, Environment
<1>4. Identity' = Identity /\ booted.root \in Parts
  BY <1>1 DEF Identity, NetInv, Rooted, LinuxRuns
<1>5. printed[p] = stored.par[p]
  BY <1>1 DEF NetInv, PrintedStands, Params
<1>6. /\ stored'.bootcmd = stored.bootcmd
      /\ stored'.par = IF Differs(p) THEN [stored.par EXCEPT ![p] = Identity] ELSE stored.par
  BY <1>1, <1>3 DEF Environment
<1>7. /\ p \in HasParam[Identity] => stored'.par[p] = Identity
      /\ \A q \in Params \ {p} : stored'.par[q] = stored.par[q]
  BY <1>3, <1>5, <1>6 DEF Differs
<1>8. Rooted'
  BY <1>1, <1>4 DEF Rooted
<1>9. IdentityKnown'
  BY <1>1, <1>2, <1>4, <1>6 DEF IdentityKnown
<1>10. PrintedStands'
  <2>1. CASE next = "up"
    BY <1>1, <2>1 DEF PrintedStands
  <2>2. CASE p = "ethaddr" /\ next = "lanspeed"
    <3>1. printed = stored.par
      BY <1>1, <2>2 DEF NetInv, PrintedStands
    <3>2. printed'["lanspeed"] = stored'.par["lanspeed"]
      BY <1>1, <1>7, <2>2, <3>1 DEF Params
    <3>3. "ethaddr" \in HasParam[Identity] => stored'.par["ethaddr"] = Identity
      BY <1>7, <2>2
    <3> QED BY <1>1, <1>4, <2>2, <3>2, <3>3 DEF PrintedStands
  <2> QED BY <2>1, <2>2
<1>11. NetFollowsDevice'
  <2> SUFFICES ASSUME checked', NEW q \in HasParam[device] PROVE stored'.par[q] = device
    BY <1>1 DEF NetFollowsDevice
  <2>1. Identity = device /\ q \in Params
    BY <1>1, <1>2, <1>3, BoardAssumption DEF BoardAssumption
  <2>2. CASE q = p
    BY <1>7, <2>1, <2>2
  <2>3. CASE q # p /\ checked
    BY <1>7, <2>1, <2>3 DEF NetInv, NetFollowsDevice
  <2>4. CASE q # p /\ ~checked
    <3>1. p = "lanspeed" /\ q = "ethaddr"
      BY <1>1, <2>1, <2>4 DEF Params
    <3>2. stored.par["ethaddr"] = Identity
      BY <1>1, <2>1, <3>1 DEF NetInv, PrintedStands
    <3> QED BY <1>7, <2>1, <3>1, <3>2
  <2> QED BY <2>2, <2>3, <2>4
<1> QED BY <1>8, <1>9, <1>10, <1>11 DEF NetInv

-----------------------------------------------------------------------------
LEMMA BoardEnvInvInit == Init => BoardEnvInv
<1> SUFFICES ASSUME Init PROVE BoardEnvInv
  OBVIOUS
<1>0. 0 \in 0 .. MaxMoves /\ 0 \in 0 .. MaxFaults
  <2>1. MaxMoves \in Nat /\ MaxFaults \in Nat
    BY BoardAssumption DEF BoardAssumption
  <2> QED BY <2>1
<1>1. WorldOK
  <2>1. hw \in [Devices -> Hardware]
    BY DEF Init, HardwareOf
  <2>2. board \in Boards /\ device \in Devices /\ moves = 0
    BY DEF Init
  <2> QED BY <1>0, <2>1, <2>2 DEF WorldOK
<1>2. CardOK
  <2>1. Releases \cup {{}} \subseteq SUBSET Files /\ Files \in SUBSET Files
    BY DEF Releases
  <2>2. PICK a \in Releases, b \in Releases \cup {{}} :
          files = [p \in Parts |-> CASE p = "A" -> a [] p = "B" -> b [] OTHER -> Files]
    BY DEF Init
  <2>3. files \in [Parts -> SUBSET Files]
    BY <2>1, <2>2
  <2>4. \/ stored = Default
        \/ board = "secured" /\ \E f \in Fdts : stored = [Default EXCEPT !.bootcmd = "A", !.fdt = f]
    BY DEF Init
  <2>5. \A f \in Fdts : [Default EXCEPT !.bootcmd = "A", !.fdt = f] \in Environment
    BY DEF Default, Environment, Fdts
  <2>6. stored \in Environment
    BY <2>4, <2>5, DefaultsTyped
  <2>7. devid \in [Parts -> Devices \cup {None}]
    BY DEF Init
  <2> QED BY <2>3, <2>6, <2>7 DEF CardOK
<1>3. RamOK
  BY DefaultsTyped DEF Init, RamOK
<1>4. StepOK
  BY DEF Init, StepOK
<1>5. FaultsOK
  <2>1. faults = 0
    BY DEF Init
  <2> QED BY <1>0, <2>1 DEF FaultsOK
<1>6. TypeOK
  BY <1>1, <1>2, <1>3, <1>4, <1>5, TypeParts
<1> QED BY <1>6, FirstSlots, FirstEnvironments DEF BoardEnvInv

LEMMA StuttersKeep == BoardEnvInv /\ UNCHANGED vars => BoardEnvInv'
<1> SUFFICES ASSUME BoardEnvInv, UNCHANGED vars PROVE BoardEnvInv'
  OBVIOUS
<1>1. TypeOK'
  BY DEF vars, BoardEnvInv, TypeOK
<1>2. Detected(hw[device])' = Detected(hw[device])
  BY DetectedKept DEF vars
<1>3. /\ OfThePast' /\ StaleFits' /\ NeverSaved' /\ JustLoaded' /\ FirstTime' /\ FdtChosen'
      /\ SavedFits' /\ OneTree'
  BY <1>2 DEF vars, BoardEnvInv, BootInv, OfThePast, StaleFits, NeverSaved, JustLoaded, Loaded,
              FirstTime, FdtChosen, SavedFits, OneTree
<1>4. FdtFits' /\ OneSlot' /\ StopsForMissingFile'
  BY <1>2 DEF vars, BoardEnvInv, BootInv, FdtFits, OneSlot, StopsForMissingFile, LinuxRuns
<1>5. NetInv'
  BY DEF vars, BoardEnvInv, NetInv, Rooted, IdentityKnown, PrintedStands, NetFollowsDevice, Identity,
         LinuxRuns
<1>6. SlotInv'
  BY DEF vars, BoardEnvInv, SlotInv, FilesWhole, Bootable
<1> QED BY <1>1, <1>3, <1>4, <1>5, <1>6 DEF BoardEnvInv, BootInv

LEMMA BoardEnvInvNext == BoardEnvInv /\ [Next]_vars => BoardEnvInv'
<1> SUFFICES ASSUME TypeOK, SlotInv, BootInv, NetInv, Next
             PROVE  TypeOK' /\ SlotInv' /\ BootInv' /\ NetInv'
  BY StuttersKeep DEF BoardEnvInv
<1>1. Rooted /\ IdentityKnown
  BY DEF NetInv
<1>2. CASE PowerOn \/ BoardLateInit \/ FirstBootCommand \/ XBoot \/ UserBoot
  <2>1. BootInv'
    BY <1>2, PowerOnBoots, LateInitBoots, FirstBootBoots, XBootBoots, UserBootBoots
  <2> QED BY <1>2, <2>1, UBootTyped, UBootSlots, UBootChecks
<1>3. CASE Reboot \/ Reset \/ PowerCut \/ Move \/ Plug
  <2>1. BootInv'
    BY <1>3, OffBoots, OutsideBoots DEF Reboot, Reset, PowerCut
  <2> QED BY <1>3, <2>1, OutsideTyped, OutsideSlots, OutsideChecks
<1>4. CASE DeviceInfo \/ Install \/ EnableBt
  BY <1>1, <1>4, LinuxTyped, LinuxSlots, LinuxBoots, ServicesCheck
<1>5. CASE NetCheck
  <2>1. TypeOK' /\ SlotInv' /\ BootInv'
    BY <1>1, <1>5, LinuxTyped, LinuxSlots, LinuxBoots
  <2>2. NetInv'
    <3>1. CASE NetCheckReads
      BY <3>1, ReadChecks
    <3>2. CASE NetCheckStores("ethaddr", "lanspeed")
      BY <3>2, StoreChecks DEF Params
    <3>3. CASE NetCheckStores("lanspeed", "up")
      BY <3>3, StoreChecks DEF Params
    <3> QED BY <1>5, <3>1, <3>2, <3>3 DEF NetCheck
  <2> QED BY <2>1, <2>2
<1> QED BY <1>2, <1>3, <1>4, <1>5 DEF Next, UBoot

THEOREM BoardEnvInvariant == Spec => []BoardEnvInv
  BY BoardEnvInvInit, BoardEnvInvNext, PTL DEF Spec

(* The environment, memory and card of U-Boot keep their types.             *)
THEOREM BoardEnvTypeCorrect == Spec => []TypeOK
<1>1. BoardEnvInv => TypeOK
  BY DEF BoardEnvInv
<1> QED BY <1>1, BoardEnvInvariant, PTL

(* Linux runs with the device tree of its device: always on secured boards,  *)
(* on open ones as long as neither the card moved nor a screen was plugged   *)
(* since the first saveenv.                                                  *)
THEOREM DeviceTreeFits == Spec => []FdtFits
<1>1. BoardEnvInv => FdtFits
  BY DEF BoardEnvInv, BootInv
<1> QED BY <1>1, BoardEnvInvariant, PTL

(* The kernel of an autoboot is its root's own though memory survives resets *)
(* and ext4load fails silently, and so is the device tree, unless the        *)
(* release of an open board lacks it: then one of an earlier boot is used.   *)
THEOREM AutobootStaysInSlot == Spec => []OneSlot
<1>1. BoardEnvInv => OneSlot
  BY DEF BoardEnvInv, BootInv
<1> QED BY <1>1, BoardEnvInvariant, PTL

(* The prompt is reached only for want of a file of the partition to boot.   *)
THEOREM PromptMeansMissingFile == Spec => []StopsForMissingFile
<1>1. BoardEnvInv => StopsForMissingFile
  BY DEF BoardEnvInv, BootInv
<1> QED BY <1>1, BoardEnvInvariant, PTL

(* After hipos-net-check went through, the stored parameters are the         *)
(* device's own, for any devices, moves and faults.                          *)
THEOREM ParametersFollow == Spec => []NetFollowsDevice
<1>1. BoardEnvInv => NetFollowsDevice
  BY DEF BoardEnvInv, NetInv
<1> QED BY <1>1, BoardEnvInvariant, PTL
=============================================================================
