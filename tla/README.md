# Verification of the HIPOS boot, update and device services

meta-hipos is a Yocto layer.  Most of its 417 files are recipes, patches,
device trees, defconfigs, keys and tables; the code of its own is the boot
configuration tool, the U-Boot board files, the initramfs scripts of the
secured devices and a set of small services.  This directory models the parts
that decide what a device boots, how its board is brought up, how it falls back,
who it takes itself for and what may stop it; TLC checks the models and TLAPS
proves theorems about them.

## The system's parts

| part | state it keeps | operations | hard behaviour | what makes it correct |
|---|---|---|---|---|
| bootconfig (`recipes-hipos/bootconfig`) | erase blocks of `/dev/mtd1`, one `struct btblock` each; a copy in the memory of each running instance | scan, select the current block, set kernel / root fs, mark kernel / root fs healthy, print | power cuts, erase and write errors, bad blocks, read errors, two instances without a lock | the selected configuration is always the old or the new one; a reported set is what the NAND selects |
| healthy.service | none | runs the two healthy commands after boot | an update tool may run at the same time | both flags of the booted configuration get cleared |
| U-Boot A/B selection (`hipos-cyber-security/himx0294.c`, `.h`) | environment: `upgrade_available`, `ustate`, `firmware`, `bootcount`; `cached_hab_state` | late init swaps the firmware once, generates `bootcmd` and `altbootcmd`; boot scripts | power cuts around `env_save`, failing boots, boot counter limit, order of the late-init calls | a trial is bounded and falls back to the firmware that worked; unsigned kernels only on open boards |
| board initialisation (`himx0294.c`, `himx0432.c`) | pins, PMIC, USB hub, display path | the board functions that U-Boot calls one after the other | a pin does nothing until it is muxed, requested and given a direction, and errors are not looked at | what is reset or probed really is |
| Ethernet switch (`board_phy_config`, `switch_init`) | switch registers, PHY registers | indirect reads and writes of PHY registers, speed and reset of each port | the switch works while U-Boot goes on; loops without timeout | ports get the speed `lanspeed` tells |
| boot scripts and environment of the boards, hipos-net-check | stored and loaded environment, network parameters | device tree detection, first boot command, boot scripts, `fw_setenv` | the card moves to another device, saves fail, power is cut | kernel, device tree and root fit each other and the device; network parameters become the device's own |
| initramfs provisioning (`hiposprovisioning`, `hiposencrypt`, `hiposmount`), SD preparation | partitions, LVM volumes, encryption key, verity artifacts | prepare the SD card, mount for production, encrypt, mount in the field | a power cut between any two commands, failing commands that are ignored | nothing is mounted unverified; no source is removed before its copy is complete |
| hipos-device-info.sh | `/etc/hydraip-devid`, `/etc/hipos`, `/etc/hostname` | fetch the identity from the board controller, update type and host name | partial data, power cuts between and within writes | local data never replaced by an invalid one |
| udev `mount.sh` | mounts, `/tmp/.automount-*`, directories | add and remove events | the mount is asynchronous, events of devices whose names begin alike | media get mounted, nothing on them is deleted |
| hipos-watchdog.sh, hipos-usb-check.sh | lock file, heartbeat of the board controller | timer runs, power-off | a run killed while it holds the lock; a shutdown that hangs | a healthy device is not cut off, one without ignition goes off |
| set-time.sh, hip-machinfo | none that outlives a run | pick a time source; look up a serial number | retries | pure decisions |
| network and modem scripts, gpsd init, ifupdown, tuning, vmstat | configuration files | start and stop | ordering of services | not stated |
| kernel, multimedia, Qt, image recipes, `fitimage.bbclass`, keys, distro and machine configuration | build time only | build | none at run time | out of scope |

The parts interact through persistent state only: bootconfig and the boot
loader share the NAND; U-Boot shares the environment with the update agent and
with hipos-net-check; hipos-net-check reads the identity that
hipos-device-info keeps; U-Boot hands the slot to the initramfs on the kernel
command line (`firmwareslot=`); provisioning leaves volumes that the field
initramfs mounts.

## Modules

| module | models | state and code |
|---|---|---|
| `BootConfig` | `lowlevel.c` and `main.c`, any number of instances of the tool on one NAND partition | `flash`, `bad`: the partition; per instance `mem` is `bc->blocks`, `cur` / `new` / `scan` the loop variables, `pc` the place in the code.  One action is one access to the chip (`mtd_is_bad`, `mtd_read`, `mtd_erase`, `mtd_write`) or one decision between two accesses |
| `BootRegister` | what the store promises: a register for at most one configuration, commands that take effect as a whole or not at all | abstract specification, implemented by `BootConfig` under `config <- Config(Nand)` |
| `UBootUpdate` | `board_late_init`, `board_generate_bootcmd`, the boot scripts of the secured boards and `bootm`'s authentication; around them boot counter, autoboot, stored environment and update agent, which are not in the repository | `store` / `env`: the environment on the eMMC and in memory; `cmd`: `bootcmd` and `altbootcmd` as generated; `ram`: what is at `fit_addr`; `image[s]`: the slots.  One action is one function of the boot loader or one step of the agent |
| `SwitchPhy` | `marvell_phy_read`, `marvell_phy_write`, `set_phy_speed`, `phy_speed`, `board_phy_config`, and `switch_init` of `imx8mp_evk.h` | `smi`: data and command register and busy bit; `phy[p]`: the registers of a PHY and its speed in effect; `call`: the running read or write, one MDIO access a step; `spc`, `i`: where the caller is.  The switch carries operations out, and PHYs leave their reset, in steps of their own |
| `BoardInit` | `board_early_init_f`, `board_init` (both files), panel choice, `misc_init_r`, `board_late_init`'s detection, `board_ehci_hcd_init`, with the network start of `SwitchPhy` among them | extends `SwitchPhy`; `gpio`: pins muxed, requested and their direction; `hub`, `pmic`, `video`: what they lead to; `bpc`: the board function that is next |
| `BoardEnv` | device tree detection, boot scripts and the environment of all boards, `hipos-net-check.py`; a card that moves between devices | `stored` / `env`: environment on the card and in memory; `mem`: what was loaded; `booted`: what Linux runs with; `printed`: what the script knows; `pc` |
| `Provisioning` | `hipos-prepare-sd.sh` and the initramfs scripts on one card | `part4`, `group`, `vol`, `keystore`, `boot`: the card; `slot`, `arts`, `ring`: memory of the initramfs; `pc`, `n`: the command that is next.  One action is one command, or one pass of a list of like commands |
| `DeviceInfo` | `hipos-device-info.sh` | `real`, `conf`, `flags`, `hostname`: its files; `tmp`, `shell`: its temporary file and variables; `bctrl`: the board controller's file; `pc` |
| `Automount` | `automount_systemd`, `rm_dir` and the removal of `mount.sh`, one handler per device, with udev and systemd as far as the script relies on them | `queue`, `pc`: events and handlers; `unit`: systemd's mount units; `dir`, `marker`: the script's traces; `files`: the medium |
| `WatchdogService` | `hipos-watchdog.sh`, its timer, `hipos-usb-check.sh`, the board controller's watch and the shutdown | `left`: minutes until the controller cuts the power; `lock`; `wpc`, `upc`: where the scripts are; `stopping`, `stuck`: the shutdown |
| `BootConfigPair` | `BootConfig` with a history variable that notes the commands that overlapped with no other one | `alone`; no code of its own |
| `MC...` | instances for TLC: boards, images, identities, configurations | no code |
| `BootConfigProofs`, `UBootUpdateProofs`, `ProvisioningProofs`, `SwitchPhyProofs`, `BoardInitProofs`, `BoardEnvProofs`, `DeviceInfoProofs`, `WatchdogServiceProofs` | theorems | no code |

`BoardInit` composes the switch with the rest of U-Boot's start; the others
share no state at run time.  The boards with NAND use bootconfig, the secured
boards with eMMC the U-Boot selection and the initramfs.  Between the last two
only the slot passes; `Provisioning` takes it as an input (`BootSlots`), and
`KernelMatchesSlot` of `UBootUpdate` says that it names the partition the kernel
came from.  `BoardEnv` takes the identity file as given, and `DeviceInfo` says
what becomes of it.

The open and the secured board file (`himx0294/` and `hipos-cyber-security/`)
are the same code up to `has_i2c_device`; the map names either.

An operator named `Slip...` is a variant of the operator after it with a
plausible slip in it.  It is used by no specification; replacing the real
operator by it makes TLC report the property that `PROJECT.json` names beside
it, which shows that the property can fail.

### What the models abstract from

* `BootConfig`: the timestamp, the texts and the logging.  A page that no error
  correction can repair carries the magic `ecc!`; a page programmed twice with
  contents that differ in more than flags is such a page, because the bits of
  both remain.  Opening the device and allocating the block array succeed.
  `EUCLEAN` is a successful read.  The boot loader is not in the repository;
  what is known of it is that it selects like `bc_ll_get_current` and clears
  `n_booted`.
* `UBootUpdate`: the update agent follows the contract that the variables of
  `CFG_ENV_FLAGS_LIST_STATIC` imply: it writes the slot that is not running, and
  only from a confirmed system or after a fallback; it activates by storing
  `firmware` = running slot, `upgrade_available` = 1, `ustate` = 1 and a boot
  counter of 0 in one write of the redundant environment.  It never drops an
  update while the running slot has no fitImage, which `bootcmd` could not start
  again.  A fitImage that is there can be read.  A kernel that runs with the
  root of the other slot works if it works with its own.  A stale legacy kernel
  at `kernel_addr` is left out.  The boot counter stays at
  the first value above the limit.
* `SwitchPhy`: a word of the data register is one of a few values and the reset
  bit.  The switch takes any time over an operation and a PHY over its reset,
  but both end.  A read of the command register does not fail.  The boot script
  of the himx8 board sleeps where the C code polls; 0.1 s is several hundred
  times what an operation takes, so the model lets it continue when the
  operation is over.
* `BoardInit`: SPI and SATA pads, the Ethernet clock, DRAM size and names that
  are printed.  A probe of a device that is there may fail `MaxNacks` times.
* `BoardEnv`: file contents are a partition and a name; `hw` says what the
  board's detection would see.  What the identity names for a device is
  `HasParam`.  A file that is there can be loaded, so a load fails for want of
  the file.  What was loaded may survive a reset or a short power cut, each
  address for itself (`Survivors`), and is then of no partition but of the past
  (`Past`); it does not survive the time that a card takes to move.  A slot is
  made the one to boot only when it holds a release, perhaps one that is too old
  for the alternative device tree.
* `Provisioning`: a volume is absent, has unknown contents (`junk`), an empty
  file system, a partial copy or the data that belongs there, in plain or under
  a numbered key.  A command does its work unless its input is missing; that a
  command fails for another reason is not modelled, and nothing in the scripts
  would notice it (see the hazards).  A power cut leaves a command undone or
  half done as `Interrupted` says, and the same action stands for an aborted
  `hipos-prepare-sd.sh`.  The production software is outside the repository: it
  fills the three preparation volumes and then puts the field fitImages in place
  as `finalize_fitimage` does, slot a's last.  Only slot a has verity artifacts,
  because only one set is copied to the keystore.
* `DeviceInfo`: an identity is a device and a serial; a line that a cut ended is
  `cut`.  `hip-fix-hydraip-devid` is optional and not in the repository.
* `Automount`: blacklist, fstab, swap, busy file systems and images without
  systemd.  A device is plugged again only when systemd has noticed that it was
  gone (`Plug`).
* `WatchdogService`: one tick is a minute; a run takes a second, so time passes
  only between runs or when one hangs.  A heartbeat that `drbcc` fails to send
  is left out.

Every module but `BootRegister` and the MC modules has a type invariant.  The
runs check it for `BootConfig`, `UBootUpdate` and `Provisioning`; it is proved
for every module but `BoardInit` and `Automount`, where it documents the
variables.

## Runs

| run | specification and bounds | states | what it shows |
|---|---|---|---|
| `boot_one` | `FairSpec`, one instance, 3 blocks, epochs to 2, every kind of command, erase, write and bad-block-check errors, power cuts | 683 936 | `ImplementsRegister`: the store is an atomic register; `SetKeepsBase`, `SetTakesEffect`, `HealthyTakesEffect`, `DuplicatesAgree`; `Terminates`: the loops over blocks end whatever refuses |
| `boot_pair` | `PairSpec`, two instances in every interleaving | 2.3 million | `UndisturbedTakesEffect`: what overlapping commands leave behind never spoils a later command that runs alone |
| `boot_stale` | `Spec`, set and print commands | | **violated** `SetPrintsNand`: after a set whose writes failed the tool prints what it could not store |
| `update` | `FairSpec`, open boards whose memory is lost or survives resets and a closed one whose memory survives, limit 3, three kinds of image, two faults, every HAB report | 111 413 | trials counted, fallback to the proven slot, no half-written slot booted, legacy kernels only where allowed, kernel and command line agree on closed boards and on trials (`KernelMatchesSlot`), `SecureMeansSigned`, and `Recovers` |
| `prov_safe` | `FairSpec`, both kinds of card, both slots, 3 cuts, 4 keys | 19 258 | `NothingLost`, `MountsWhatWasSigned`, `RunsInField` |
| `prov_group` | card from sd-img, one cut | | **violated** `GroupMeansPrepared` |
| `env_net` | `FairSpec`, six boards whose memory may survive resets, two devices, two moves, two faults | 4 338 507 | `FdtFits`, `OneSlot`, `StopsForMissingFile`, `NetFollowsDevice`, `NetSettles` |
| `board` | `FairBoardSpec`, five boards, three values of `lanspeed`, both external PHYs, one further reset, five missed probes | 727 200 | `OneOperation`, `BmcrKept`, `SpeedAsTold`, `HubResetBeforeUse`, `DetectionTrue`, `DevicesReady`, `ConfigEnds` |
| `identity` | `FairSpec`, four identities, two changes, two cuts | 827 726 | `LocalKept`, `OneType`, `SecondName`, `Settles` |
| `watchdog` | `FairSpec`, two faults, 7 or 8 resumes | 12 080 | `HealthyIsNotCut`, `NoBeatAfterPoweroff`, `PowerEnds` |
| `automount` | `FairSpec`, `sda1` and `sda10`, six events | 81 884 | `Remounts` |
| `automount_rm` | `Spec`, one device, three events | | **violated** `PopulatedKept` |

Each passing run takes between a few seconds and two or three minutes.

### Bounds, and why they are enough

* Three blocks are the smallest partition in which a set can meet the block in
  force, a block that fails and one that takes the write.  The epoch grows from
  0 to `EpochLimit` (no set starts beyond it): two epochs give the first
  configuration, a successor and duplicates of either.  `EpochMod` is larger,
  so the wrap that takes 2^32 sets is not met.  With `PtrSize` 4 `bc_ll_reread`
  clears 12 bytes, less than one block: one block is forgotten and the others
  keep what was in memory, as on a larger partition.
* `BootLimit` 3 leaves room for trials on both sides of the limit.  Two faults
  let a failed `env_save` and a power cut, or two of either, fall into the same
  trial.  Installations are not bounded.
* Three power cuts can interrupt the preparation, the encryption and its
  repetition; four keys are one for each encryption that these cuts can start.
* Two moves bring the card to another device and back; `d2` names no `lanspeed`,
  so a parameter of the other device may have to stay.  Two faults can hit
  `saveenv` and the following boot.
* One reset beyond the first lands in every state of the start, switch
  operations and PHY resets under way included.  Five missed probes exhaust one
  retry loop; `DetectionTrue` is stated for fewer.  `lanspeed` is unset, shorter
  than the ports or as long; the theorems below cover every length.
* Two changes of identity and two power cuts let an interrupted run be followed
  by another with other data; the identities are a valid one, the dummy serial,
  one without a device and one with an invalid serial.
* Six events plug, unplug and trigger two devices once more than once each.
* A heartbeat lasts three ticks; four minutes of uptime cover the delays of both
  scripts, two faults a hanging run and a hanging shutdown.

`CHECK_DEADLOCK FALSE` stands where the system may stop: a board at the prompt
with its resets used up, and no more events for the automounter.

### Disagreements between the code and what is said of it

Each violating run stands for an entry under `findings` in `PROJECT.json`, with
the line that says otherwise.

* `bc_ll_reread` clears `sizeof(bc->blocks)` bytes, a pointer's size, per block
  instead of a block's 16 bytes.  Blocks that cannot be read again keep what a
  failed set prepared (`boot_stale`).
* `hiposprovisioning` looks only for the volume group, which is the first thing
  `prepare_sdcard` creates (`prov_group`).  A cut after that leaves a card that
  is never completed; `RunsInField` is therefore stated for cards that a host
  prepared, where the group gets its name last.
* `rm_dir` counts the files of the mount point and removes it with `rm -r`
  afterwards, while an asynchronous mount may arrive in between
  (`automount_rm`).

### Observations

What the models also do, or reading for them showed, without a run of its own:

* bootconfig: a read error in the first scan makes a set give the epoch out
  again, and the lower block number decides (`SetTakesEffect` fails with `read`
  in `Faults`).  The tool takes no lock; of two overlapping sets both exit with
  0 and one is lost.  The result of `bc_ll_set_partition` is ignored.  After
  2^32 sets the epoch is 0, which is never selected.
* U-Boot: `do_fitboot` joins its commands with semicolons, so after a failed
  load `bootm` starts what an earlier boot left at `fit_addr`.  On an open board
  whose memory survives, the fallback to the legacy slot, which has no fitImage,
  starts the kernel of the trial that failed, with the legacy slot's root
  (`LegacyFallback` in `KernelMatchesSlot`); if that kernel hangs, the legacy
  kernel is reached only once memory has been lost.  `get_hab_state` is asked
  twice per boot and may answer differently.  `fit_conf` has 32 bytes for the
  name of a device tree.
* Board start: `imoc` never requests the pins of the hub and of the OTG supply,
  so its hub reset has no effect; nor is the backlight's pin requested.  On
  `impec` the switch's reset line is pulled low around the PMIC writes
  (`himx0432.c:112`), but its pad is in `pinctrl_enet1`, which is muxed when
  `fec1` is probed: whether the switch is in reset then depends on the pad's
  state before, which the sources do not tell.  The
  polling loops have no timeout and ignore the result of `miiphy_read`.  Without
  its PMIC the reset line is not touched at all.
* Boot scripts: `fdt_file` is saved on the first boot of an open board and no
  longer fits after the card moved (`himx0294.h:88`); `FdtFits` is stated
  accordingly.  `do_boot` goes on after a load that failed: if the release of an
  open board lacks the alternative device tree, Linux starts with one that an
  earlier boot, of either slot, left at `fdt_addr`, or the prompt is reached
  once memory has lost it (the exception in `OneSlot`).
* Provisioning: a cut at `hiposencrypt:99-104` can leave the other preparation
  volumes in place, unencrypted, because `pvsn_rootfs` goes first.
* hipos-device-info: on a root file system of the old layout
  `/etc/hipos/hipos-devid` stays an old regular file, although the script checks
  "the link" (line 172), once a new identity was moved over the link that
  `/etc/hydraip-devid` was.  A power cut between emptying and filling
  `/etc/hostname` leaves an empty name, which is never replaced.
* `mount.sh`: `grep` takes `sda10` for `sda1`, so removing `sda1` unmounts both.
  A device replugged before systemd noticed its removal may stay unmounted.  An
  add event that is repeated while the mount is under way may remove the mount
  point between systemd's mkdir and its mount: the mount fails although the
  medium is there, and nobody tries again (`Undermined`).
* Watchdog: a run killed before its first heartbeat leaves the lock and no
  watch; such a device stays on without ignition.  The USB check may wait for
  its target for ever.
* `set-time.sh:20`: the loop runs in the subshell of a pipeline, so what it
  finds out does not reach the rest of the script.

### Fairness

* `BootConfig`: weak fairness of each instance's `Step`.  The tool waits for
  nobody; the operating system schedules it.  Nothing obliges anyone to start a
  command, to cut power or to boot.
* `UBootUpdate`: weak fairness of `UBoot`, as the boot loader runs by itself and
  a board without power gets it back, and of `Watchdog`, the hardware that ends
  a kernel that hangs.  The agent has no obligation.  `Recovers` assumes in
  addition that an open board reports itself open again and again, in boots that
  find no fitImage in memory (`ReportedOpen`), because only then the legacy
  kernel is reachable.
* `Provisioning`: weak fairness of the scripts and of power-on.  Strong fairness
  of booting slot a: before the first update slot b holds no root file system,
  and `UBootUpdate` shows that the boot loader comes back to the slot that
  works.  Strong fairness of the production steps, because the production may
  be rebooted any number of times between them.  Weak fairness of leaving a
  panic, where the kernel reboots.
* `BoardEnv`: weak fairness of U-Boot, of the two services under Linux and of
  the next boot.  `NetSettles` assumes that boots come through to the end again
  and again.
* `BoardInit`: weak fairness of U-Boot, of the switch and of each PHY, which
  are hardware running by itself.  Resets are bounded and not obliged.
* `DeviceInfo`: weak fairness of booting and of the script.  `Settles` assumes
  that the controller answers again and again.
* `Automount`: weak fairness of each device's handler and of udev, and of
  systemd for each device.  Nobody has to plug anything.
* `WatchdogService`: weak fairness of the timer's runs while the system is not
  stopping, of the USB check, of the shutdown (unless it hangs), of time and of
  the controller.

## What is proved

Every invariant and every action property that a passing run checks is a
theorem, and so is the refinement `ImplementsRegister`.  The theorems hold for
every value of the constants, under the assumptions the modules name:
`GeometryAssumption`, `EpochAssumption`, `FaultAssumption` and
`IssuedAssumption` (a partition has a block, an epoch has a value, commands are
commands), `UpdateAssumption` (a limit of at least one, images that are no torn
ones), `ProvisioningAssumption`, `SwitchAssumption` (known boards and PHYs,
letters g and f), `InitAssumption`, `BoardAssumption`, `DeviceInfoAssumption`
and `WatchdogAssumption` (the types of sets and bounds).  A theorem that supposes
more states it after `ASSUME`, and the list says why the code needs it.

**`BootConfigProofs`**

* `TypeCorrect`: `TypeOK`, for any number of instances and any faults.
  `LoopCommand` is added: only commands with a checked partition reach the loop.
  It says that every index stays inside the partition.
* `BaseIsKept`: `SetKeepsBase` for one instance at a time, read errors
  included.  `SetKeepsBase` alone is not inductive: `ReadFromNand` says that what
  the first scan put into memory is on the NAND, and `LoopAvoidsBase` that the
  loop has not come back to the current block; `OffIsClean` starts an instance
  with empty memory.
* `SetIsInForce`, `HealthyIsInForce`, `EqualEpochsAgree`: `SetTakesEffect`,
  `HealthyTakesEffect` and `DuplicatesAgree` for one instance at a time
  (`OneInstance`), for any number of blocks, whatever writes, block checks and
  power fail.  `ReadsAndEpochsLast` is supposed: reads of good blocks succeed,
  because a scan that misses the current block makes a set give an epoch out
  twice, and the epoch does not wrap, because epoch 0 is never selected.
* `UndisturbedIsInForce`: `UndisturbedTakesEffect` for any number of instances
  that overlap in any way; `alone` implies that nobody else runs.
* `StoreIsRegister`: `ImplementsRegister`, step by step.  `AtomicOverwrite` is
  supposed, because a healthy command programs the one page in force: a page
  torn beyond repair would drop the configuration.  The other three theorems do
  not need it.

  The last five share one argument, the invariant `SoloInv(p)` of an instance
  that nobody disturbs.  `Scanned` makes memory at dispatch equal to the NAND.
  In the loop `Based` ties the entry copied from to the NAND, `OldOrNew` says
  that every block holds either the entry being written or something older
  (`IsOld`), and `NewIsBehind` that blocks a failed write left complete lie
  between the source and the block in hand, so the erase that comes next never
  takes away what is in force already.  `Writing` and `Marking` say what the
  page under an operation holds.  `TearStores` and `StepStores` reduce every
  access to the chip, complete or torn, to one relation `Stores`, from which
  agreement of equal epochs and the step of the register follow.
  `CurrentFound` (some block is current unless none holds a configuration)
  rests on the well-ordering of the natural numbers, `LeastNumber`;
  `CurrentUnique` makes `Config` a set of at most one.

**`UBootUpdateProofs`**

* `TrialsAreBounded`, `FallbackIsCorrect`, `OnlyWholeSlotsBoot`,
  `SecureKernelsAreSigned`, `LegacyNeedsOpenBoard`, `UpdateTypeCorrect`.  Seen
  from the slot that last ran confirmed, only three kinds of environment are ever
  stored (`StoreClass`: no upgrade, an upgrade not yet tried, a trial);
  `EnvBefore` and `EnvAfter` relate memory to it while U-Boot runs; `CountKept`
  and `Counts` relate the trials to the stored counter and to the saves that
  failed; `SlotInUse`, `WritesUnproven` and `SlotsWhole` keep the agent off the
  proven slot and the boot loader off a torn one.
* `KernelsMatchTheirSlot`: `KernelMatchesSlot`, for boards whose memory survives
  resets as well, supposing `ImagesHaveFit`: every update brings a fitImage, as
  `bootcmd` starts nothing else.  `LegacyIsProven` says that a slot with only a
  legacy kernel is the proven one and not yet confirmed or dropped by an agent,
  so `bootcmd` never leads there (`LegacyByAlt`), `LegacyIsOpen` that no closed
  board has one, and `MemoryIsNew` that a board that loses its memory finds
  nothing at `fit_addr`.

**`ProvisioningProofs`**

* `NothingIsLost` and `ProvisioningTypeCorrect`.  The key of the argument is
  `FirstTellsAll`: in the field, either all preparation volumes are whole or
  `pvsn_rootfs` is gone and everything is encrypted under the stored key.  It
  needs `KeyFromSources` (a key is replaced only while the sources are whole),
  `CopiedSoFar` and `CopiedAll` (how far the run has come), and
  `PreparedBefore`, `OnlySlotA` and `ProductionHasRootfs` for the time before.
* `SignedIsMounted`: `MountsWhatWasSigned`.  It adds that a field system comes
  from slot a (`FieldFromA`), that a key is stored before it is used
  (`KeyStored`), that the removal of the sources comes before any volume is
  opened (`RemovedBeforeOpen`) and that the open volume has its key
  (`OpenedWithKey`).

**`SwitchPhyProofs`, `BoardInitProofs`**

* `OneOperationAtATime`, `ControlRegistersKept`, `PortsRunAsTold`,
  `SwitchTypeCorrect`: for `lanspeed` of any length, every board and any timing
  of switch and PHYs.  `OneOperation` and `BmcrKept` rest on `BusyIsPolled` (the
  switch works only while a call polls it, or before the start),
  `RegistersOfCall` (what the call has put there) and `ControlWords`.  For
  `SpeedAsTold`, `InTurn` says that the ports before the one in turn are set and
  out of reset, which nothing disturbs because different letters are for
  different ports; `CtrlStep`, `BmcrStep`, `ResetStep` and `WaitStep` say how far
  the port in turn has come.  `Restarted` is the heart of it: once the reset is
  written, a PHY either is still in reset or runs with what it was told.
* `BoardRunsSwitch`: U-Boot's start implements the switch model, so that
  `BoardPortsRunAsTold` follows for the composition.  `HubIsReset` follows
  from `PinsInv`, which says which pins are muxed, requested and driven by the
  time the code relies on them; `DevicesAreReady` from it and `VideoInv`, which
  follows gpr2 from `setup_display` to the panel; `DetectionIsTrue` from
  `DetectInv`, which adds that the touch controller has its supply when it
  is probed, that every missed probe is counted, and that nothing is decided
  before.

**`BoardEnvProofs`**

* `DeviceTreeFits`, `AutobootStaysInSlot`, `PromptMeansMissingFile`,
  `ParametersFollow`, `BoardEnvTypeCorrect`: `FdtFits`, `OneSlot`,
  `StopsForMissingFile`, `NetFollowsDevice` for any devices, boards, parameters,
  moves and faults, without a further hypothesis.  The boot scripts may find
  anything in memory that `OfThePast` and `StaleFits` allow: a device tree of an
  earlier boot, which fits as long as nothing has changed.  The kernel is always
  loaded anew because the partition that is booted holds a release
  (`FilesWhole`, `Bootable`); `ScriptsLoad` says of all three scripts what they
  start.  `JustLoaded`, `NeverSaved` and `FirstTime` tie the environment of the
  first boot to what is stored, `FdtChosen` and `SavedFits` say where the name
  of the device tree comes from.  For the network parameters,
  `IdentityKnown` and `PrintedStands` say that what the script has compared is
  still so when it writes; `Rooted` that it runs under Linux only.

**`DeviceInfoProofs`, `WatchdogServiceProofs`**

* `LocalIsKept`, `OneTypeIsLeft`, `BothNamesLead`, `DeviceInfoTypeCorrect`: for
  any identities of the controller and any number of power cuts.  `BeforeKept`
  says that a valid identity is not on its way to be replaced by an invalid one,
  `TypeRead` and `FlagsPruned` follow the device type from the file to its flag,
  `Layout` and `Present` say what a cut between the steps of turning the old
  layout round may leave, and that only a `mv` over the old layout's link
  (`copied`) leaves a second file.
* `HealthyRunsOn`, `LastBeatWasSent`, `WatchdogTypeCorrect`: `LockIsHeld` says that
  on a healthy system a lock belongs to a run under way, `RunsBeat` that every run
  of the timer leaves a full watch behind, `LockIsLeft` that the run that asked for
  the power-off leaves its lock to stop the next one.

Only model-checked are the liveness properties (`Terminates`, `Recovers`,
`RunsInField`, `NetSettles`, `ConfigEnds`, `Settles`, `PowerEnds`, `Remounts`),
since TLAPS does not reason about fairness or `ENABLED`.  No module uses a
recursive definition.

## Not modelled, and the plan

Left out for good:

* `set-time.sh` and `hip-machinfo`: one pass over the clocks at boot and lookups
  in files of `/proc`; nothing runs beside them and nothing is kept.
* DDR timing (generated), the bootable USB and SD card scripts (interactive,
  sequential, started again after a failure), network, modem, GPS, tuning and
  statistics scripts (sequences of writes without state of their own).
* Recipes, images, keys, kernels, patches and configuration (build time).

What would come next:

1. An abstract specification of an update (proven slot, trial with a budget),
   implemented by `UBootUpdate`.
2. `DeviceInfo` and `BoardEnv` composed: the identity file as one service leaves
   it, read by the other.
3. The branch of `mount.sh` without systemd.
