----------------------------- MODULE BootConfig -----------------------------
(***************************************************************************)
(* The boot configuration store of recipes-hipos/bootconfig: the library   *)
(* lowlevel.c and the command line tool main.c on top of it.               *)
(*                                                                         *)
(* The configuration lives in /dev/mtd1, a NAND partition of EbCnt erase   *)
(* blocks.  Each block holds at most one struct btblock; the block with    *)
(* the highest epoch is the current configuration.  A set writes the next  *)
(* usable block, so the block it replaces stays readable; a "healthy" flag *)
(* is cleared in place, because its bit is negated and NAND can turn ones  *)
(* into zeros without an erase.                                            *)
(*                                                                         *)
(* Several instances of the tool (Procs) run without a lock.  One action   *)
(* is one access to the NAND chip or one decision between two accesses.    *)
(*                                                                         *)
(* An operator whose name begins with Slip is not part of the model: it is *)
(* a plausible slip in the code that the operator after it stands for, to  *)
(* show that the properties can tell the difference.                       *)
(***************************************************************************)
EXTENDS Integers

CONSTANTS
  Procs,            \* instances of the bootconfig tool
  EbCnt,            \* info.eb_cnt: erase blocks of the partition
  PtrSize,          \* sizeof(bc->blocks): 4 or 8 bytes
  EpochMod,         \* the width of the epoch, 2^32 in the code
  EpochLimit,       \* bound: no set starts once the NAND holds this epoch
  Issued,           \* bound: the command lines that are given
  Faults,           \* what may go wrong: a subset of FaultKinds
  AtomicOverwrite   \* an in-place program leaves the old or the new page

(* A good block that a scan misses, a mtd_is_bad that fails for a bad block  *)
(* or before a write, an erase or a write that fails, a power cut.          *)
FaultKinds == {"read", "check", "program", "power"}

ASSUME GeometryAssumption ==
  /\ EbCnt \in Nat \ {0}
  /\ PtrSize \in Nat
ASSUME EpochAssumption ==
  /\ EpochMod \in Nat \ {0}
  /\ EpochLimit \in Nat
ASSUME FaultAssumption ==
  /\ Faults \subseteq FaultKinds
  /\ AtomicOverwrite \in BOOLEAN

Blocks == 0 .. EbCnt - 1
Epochs == 0 .. EpochMod - 1
Images == {"kernel", "rootfs"}
Partitions == {0, 1}
IllegalPartition == 2
Bit == {0, 1}

-----------------------------------------------------------------------------
(* struct btinfo and struct btblock.  The timestamp is for display only.   *)
(* The magic "ecc!" stands for a page that the driver cannot correct.      *)

Info == [partition : Partitions, n_booted : Bit, n_healthy : Bit]
Fresh(p) == [partition |-> p, n_booted |-> 1, n_healthy |-> 1]

BtBlock == [magic : {"Boot", "BAD!", "none", "ecc!"}, epoch : Epochs,
            kernel : Info, rootfs : Info]

\* The dummy of bc_ll_set_partition: zeroed memory with all flags set to 1.
Dummy == [magic |-> "none", epoch |-> 0, kernel |-> Fresh(0), rootfs |-> Fresh(0)]
Zeroed == Dummy           \* memory without the magic: no field of it is used
Blank == Dummy            \* an erased block reads without the magic as well
Uncorrectable == [Dummy EXCEPT !.magic = "ecc!"]

HasConfig(b) == b.magic = "Boot" /\ b.epoch > 0

\* bc_ll_get_current: the highest epoch; of equal epochs the lowest block.
IsCurrent(blocks, i) ==
  /\ HasConfig(blocks[i])
  /\ \A j \in Blocks :
       HasConfig(blocks[j]) =>
         \/ blocks[j].epoch < blocks[i].epoch
         \/ blocks[j].epoch = blocks[i].epoch /\ i <= j
NoCurrent(blocks) == \A i \in Blocks : ~HasConfig(blocks[i])

SlipSameEpoch(old, which, p) ==
  IF which = "kernel" THEN [old EXCEPT !.magic = "Boot", !.kernel = Fresh(p)]
                      ELSE [old EXCEPT !.magic = "Boot", !.rootfs = Fresh(p)]
SlipEpochOnce(old, which, p) ==
  LET next == [old EXCEPT !.magic = "Boot", !.epoch = IF @ = 0 THEN 1 ELSE @]
  IN  IF which = "kernel" THEN [next EXCEPT !.kernel = Fresh(p)]
                          ELSE [next EXCEPT !.rootfs = Fresh(p)]
SlipNoCopy(old, which, p) ==
  LET next == [Dummy EXCEPT !.magic = "Boot", !.epoch = (old.epoch + 1) % EpochMod]
  IN  IF which = "kernel" THEN [next EXCEPT !.kernel = Fresh(p)]
                          ELSE [next EXCEPT !.rootfs = Fresh(p)]

\* _update_bootblock: the block a set prepares from the current one.
Updated(old, which, p) ==
  LET next == [old EXCEPT !.magic = "Boot",
                          !.epoch = (old.epoch + 1) % EpochMod]
  IN  IF which = "kernel" THEN [next EXCEPT !.kernel = Fresh(p)]
                          ELSE [next EXCEPT !.rootfs = Fresh(p)]

SlipOtherBit(b, which) ==
  IF which = "kernel" THEN [b EXCEPT !.kernel.n_booted = 0]
                      ELSE [b EXCEPT !.rootfs.n_booted = 0]
ClearHealthy(b, which) ==
  IF which = "kernel" THEN [b EXCEPT !.kernel.n_healthy = 0]
                      ELSE [b EXCEPT !.rootfs.n_healthy = 0]
ClearBooted(b, which) ==
  IF which = "kernel" THEN [b EXCEPT !.kernel.n_booted = 0]
                      ELSE [b EXCEPT !.rootfs.n_booted = 0]

\* mtd_write can only clear bits: two blocks that differ in more than their
\* flags leave the bits of both, which no error correction code matches.
SameButFlags(x, y) ==
  /\ x.magic = "Boot" /\ y.magic = "Boot" /\ x.epoch = y.epoch
  /\ x.kernel.partition = y.kernel.partition
  /\ x.rootfs.partition = y.rootfs.partition
And(a, b) == IF a = 1 THEN b ELSE 0
BothFlags(x, y) == [x EXCEPT !.n_booted = And(@, y.n_booted),
                             !.n_healthy = And(@, y.n_healthy)]
Programmed(page, b) ==
  IF page.magic = "none" THEN b
  ELSE IF SameButFlags(page, b)
       THEN [b EXCEPT !.kernel = BothFlags(@, page.kernel),
                      !.rootfs = BothFlags(@, page.rootfs)]
       ELSE Uncorrectable

-----------------------------------------------------------------------------
(* The command line: set-kernel and set-rootfs with an mtd number, the two *)
(* healthy commands, and the commands that only print.                     *)
Commands ==
  [op : {"set"}, which : Images, part : Partitions \cup {IllegalPartition}]
    \cup [op : {"healthy"}, which : Images, part : {0}]
    \cup [op : {"show"}, which : {"kernel"}, part : {0}]
NoCommand == [op |-> "show", which |-> "kernel", part |-> 0]
ASSUME IssuedAssumption == Issued \subseteq Commands

VARIABLES
  flash,   \* the pages of the partition: block -> contents
  bad,     \* the blocks the driver reports as bad
  pc,      \* where each instance is in the code
  cmd,     \* the command line of each instance
  mem,     \* bc->blocks of each instance
  cur,     \* curr_bc_idx, or the block index passed to the healthy calls
  new,     \* new_bc_idx
  scan,    \* the loop variable of _read_bootconfig
  sound,   \* not (broken == eb_cnt): some block has been read
  ret      \* result of bc_ll_set_partition / bc_ll_set_*_healthy

nand == <<flash, bad>>
vars == <<flash, bad, pc, cmd, mem, cur, new, scan, sound, ret>>

NoMemory == [b \in Blocks |-> Zeroed]

Init ==
  /\ flash = [b \in Blocks |-> Blank]
  /\ bad \in SUBSET Blocks
  /\ pc = [p \in Procs |-> "off"]
  /\ cmd = [p \in Procs |-> NoCommand]
  /\ mem = [p \in Procs |-> NoMemory]
  /\ cur = [p \in Procs |-> 0]
  /\ new = [p \in Procs |-> 0]
  /\ scan = [p \in Procs |-> 0]
  /\ sound = [p \in Procs |-> FALSE]
  /\ ret = [p \in Procs |-> 0]

Goto(p, label) == pc' = [pc EXCEPT ![p] = label]
Entry(p, b, magic) == [mem EXCEPT ![p][b].magic = magic]

-----------------------------------------------------------------------------
(* Start of an instance: main calls bc_ll_init, which zeroes the blocks.   *)
(* EpochLimit bounds the run: it stands for the 2^32 epochs of the code.   *)
Start(p, c) ==
  /\ pc[p] = "off"
  /\ c.op = "set" => \A b \in Blocks : flash[b].epoch < EpochLimit
  /\ Goto(p, "init")
  /\ cmd' = [cmd EXCEPT ![p] = c]
  /\ UNCHANGED <<flash, bad, mem, cur, new, scan, sound, ret>>

-----------------------------------------------------------------------------
(* _read_bootconfig: one block per step, from bc_ll_init, from the         *)
(* bc_ll_reread inside bc_ll_set_partition and from the one in main.       *)
Scanning(p) == pc[p] \in {"init", "reread", "main_reread"} /\ scan[p] < EbCnt

ScanNext(p) ==
  /\ scan' = [scan EXCEPT ![p] = @ + 1]
  /\ UNCHANGED <<flash, bad, pc, cmd, cur, new, ret>>

ScanBad(p) ==
  /\ Scanning(p)
  /\ scan[p] \in bad
  /\ mem' = Entry(p, scan[p], "BAD!")
  /\ ScanNext(p)
  /\ UNCHANGED sound

ScanRead(p) ==
  /\ Scanning(p)
  /\ scan[p] \notin bad
  /\ flash[scan[p]].magic # "ecc!"
  /\ mem' = [mem EXCEPT ![p][scan[p]] = flash[scan[p]]]
  /\ sound' = [sound EXCEPT ![p] = TRUE]
  /\ ScanNext(p)

\* mtd_is_bad or mtd_read fails: the entry keeps what it held before.
ScanFail(p) ==
  /\ Scanning(p)
  /\ IF scan[p] \in bad THEN "check" \in Faults
     ELSE flash[scan[p]].magic = "ecc!" \/ "read" \in Faults
  /\ ScanNext(p)
  /\ UNCHANGED <<mem, sound>>

\* The memset of bc_ll_reread takes the size of a pointer for that of a
\* block (16 bytes): only the first blocks lose their magic.
BlockSize == 16
Forgotten(blocks) ==
  [b \in Blocks |-> IF b * BlockSize < EbCnt * PtrSize THEN Zeroed ELSE blocks[b]]

Exit(p) ==
  /\ Goto(p, "off")
  /\ cmd' = [cmd EXCEPT ![p] = NoCommand]
  /\ mem' = [mem EXCEPT ![p] = NoMemory]
  /\ cur' = [cur EXCEPT ![p] = 0]
  /\ new' = [new EXCEPT ![p] = 0]
  /\ scan' = [scan EXCEPT ![p] = 0]
  /\ sound' = [sound EXCEPT ![p] = FALSE]
  /\ ret' = [ret EXCEPT ![p] = 0]

\* bc_ll_init: exit(1) when every block is broken.
InitDone(p) ==
  /\ pc[p] = "init" /\ scan[p] = EbCnt
  /\ \/ /\ ~sound[p]
        /\ Exit(p)
        /\ UNCHANGED nand
     \/ /\ sound[p]
        /\ Goto(p, "dispatch")
        /\ UNCHANGED <<flash, bad, cmd, mem, cur, new, scan, sound, ret>>

\* The result of either bc_ll_reread is ignored.
RereadDone(p) ==
  /\ pc[p] = "reread" /\ scan[p] = EbCnt
  /\ Goto(p, "main_reread")
  /\ scan' = [scan EXCEPT ![p] = 0]
  /\ mem' = [mem EXCEPT ![p] = Forgotten(@)]
  /\ UNCHANGED <<flash, bad, cmd, cur, new, sound, ret>>

MainRereadDone(p) ==
  /\ pc[p] = "main_reread" /\ scan[p] = EbCnt
  /\ Goto(p, "print")
  /\ UNCHANGED <<flash, bad, cmd, mem, cur, new, scan, sound, ret>>

-----------------------------------------------------------------------------
(* main: the commands that print, and a partition number _set refuses.     *)
DispatchShow(p) ==
  /\ pc[p] = "dispatch" /\ cmd[p].op = "show"
  /\ Goto(p, "print")
  /\ UNCHANGED <<flash, bad, cmd, mem, cur, new, scan, sound, ret>>

DispatchIllegal(p) ==
  /\ pc[p] = "dispatch" /\ cmd[p].op = "set" /\ cmd[p].part > 1
  /\ Exit(p)
  /\ UNCHANGED nand

(* bc_ll_set_partition: start behind the current block; without one, take  *)
(* the last block as a dummy.  A partition of one block has no next block. *)
SlipUnwrapped(p, c) ==
  /\ cur' = [cur EXCEPT ![p] = c]
  /\ new' = [new EXCEPT ![p] = c + 1]
  /\ Goto(p, "update")
  /\ UNCHANGED <<flash, bad, cmd, scan, sound, ret>>
EnterLoop(p, c) ==
  LET n == (c + 1) % EbCnt
  IN  /\ cur' = [cur EXCEPT ![p] = c]
      /\ new' = [new EXCEPT ![p] = n]
      /\ IF n = c THEN Goto(p, "failed") ELSE Goto(p, "update")
      /\ UNCHANGED <<flash, bad, cmd, scan, sound, ret>>

DispatchSet(p) ==
  /\ pc[p] = "dispatch" /\ cmd[p].op = "set" /\ cmd[p].part <= 1
  /\ \/ \E c \in Blocks :
          /\ IsCurrent(mem[p], c)
          /\ EnterLoop(p, c)
          /\ UNCHANGED mem
     \/ /\ NoCurrent(mem[p])
        /\ EnterLoop(p, EbCnt - 1)
        /\ mem' = [mem EXCEPT ![p][EbCnt - 1] = Dummy]

(* _set_kernel_healthy and _set_rootfs_healthy: only a flag that is still  *)
(* 1 is cleared; the entry in memory changes before the page is written.   *)
Flag(b, which) == IF which = "kernel" THEN b.kernel.n_healthy ELSE b.rootfs.n_healthy

DispatchHealthy(p) ==
  /\ pc[p] = "dispatch" /\ cmd[p].op = "healthy"
  /\ \/ \E c \in Blocks :
          /\ IsCurrent(mem[p], c)
          /\ cur' = [cur EXCEPT ![p] = c]
          /\ IF Flag(mem[p][c], cmd[p].which) = 1
             THEN /\ mem' = [mem EXCEPT ![p][c] = ClearHealthy(@, cmd[p].which)]
                  /\ Goto(p, "program")
             ELSE /\ UNCHANGED mem
                  /\ Goto(p, "print")
     \/ /\ NoCurrent(mem[p])
        /\ Goto(p, "print")
        /\ UNCHANGED <<mem, cur>>
  /\ UNCHANGED <<flash, bad, cmd, new, scan, sound, ret>>

-----------------------------------------------------------------------------
(* The loop of bc_ll_set_partition around _update_bootblock.               *)

SlipStopsAtFirstBlock(p) ==
  LET n == (new[p] + 1) % EbCnt
  IN  /\ new' = [new EXCEPT ![p] = n]
      /\ IF n = 0 THEN Goto(p, "failed") ELSE Goto(p, "update")
SlipNeverStops(p) ==
  /\ new' = [new EXCEPT ![p] = (@ + 1) % EbCnt]
  /\ Goto(p, "update")

\* Any result but 0: the loop takes the next block, up to the current one.
Advance(p) ==
  LET n == (new[p] + 1) % EbCnt
  IN  /\ new' = [new EXCEPT ![p] = n]
      /\ IF n = cur[p] THEN Goto(p, "failed") ELSE Goto(p, "update")

UpdateSkip(p) ==
  /\ pc[p] = "update"
  /\ mem[p][new[p]].magic = "BAD!"
  /\ Advance(p)
  /\ UNCHANGED <<flash, bad, cmd, mem, cur, scan, sound, ret>>

\* The entry in memory is overwritten first, then _check_block is asked.
UpdateEntry(p) == Updated(mem[p][cur[p]], cmd[p].which, cmd[p].part)

SlipNoErase(p) ==
  /\ pc[p] = "update"
  /\ mem[p][new[p]].magic # "BAD!"
  /\ new[p] \notin bad
  /\ mem' = [mem EXCEPT ![p][new[p]] = UpdateEntry(p)]
  /\ Goto(p, "write")
  /\ UNCHANGED <<flash, bad, cmd, cur, new, scan, sound, ret>>

UpdateGood(p) ==
  /\ pc[p] = "update"
  /\ mem[p][new[p]].magic # "BAD!"
  /\ new[p] \notin bad
  /\ mem' = [mem EXCEPT ![p][new[p]] = UpdateEntry(p)]
  /\ Goto(p, "erase")
  /\ UNCHANGED <<flash, bad, cmd, cur, new, scan, sound, ret>>

UpdateBad(p) ==
  /\ pc[p] = "update"
  /\ mem[p][new[p]].magic # "BAD!"
  /\ new[p] \in bad
  /\ mem' = [mem EXCEPT ![p][new[p]] = [UpdateEntry(p) EXCEPT !.magic = "BAD!"]]
  /\ Advance(p)
  /\ UNCHANGED <<flash, bad, cmd, cur, scan, sound, ret>>

UpdateUnknown(p) ==
  /\ "check" \in Faults
  /\ pc[p] = "update"
  /\ mem[p][new[p]].magic # "BAD!"
  /\ mem' = [mem EXCEPT ![p][new[p]] = UpdateEntry(p)]
  /\ Advance(p)
  /\ UNCHANGED <<flash, bad, cmd, cur, scan, sound, ret>>

\* What the page under the running operation may hold when the operation
\* fails or the power is lost in it.
Target(p) == IF pc[p] = "program" THEN cur[p] ELSE new[p]
Torn(p) ==
  LET old == flash[Target(p)]
      page == mem[p][Target(p)]
  IN  CASE pc[p] = "erase" -> {old, Blank, Uncorrectable}
        [] pc[p] = "write" -> {old, Programmed(old, page), Uncorrectable}
        [] pc[p] = "program" ->
             {old, Programmed(old, page)}
               \cup (IF AtomicOverwrite THEN {} ELSE {Uncorrectable})
        [] OTHER -> {old}

Tear(p) == \E c \in Torn(p) : flash' = [flash EXCEPT ![Target(p)] = c]

EraseOk(p) ==
  /\ pc[p] = "erase"
  /\ flash' = [flash EXCEPT ![new[p]] = Blank]
  /\ Goto(p, "write")
  /\ UNCHANGED <<bad, cmd, mem, cur, new, scan, sound, ret>>

WriteOk(p) ==
  /\ pc[p] = "write"
  /\ flash' = [flash EXCEPT ![new[p]] = Programmed(@, mem[p][new[p]])]
  /\ mem' = [mem EXCEPT ![p] = Forgotten(@)]
  /\ scan' = [scan EXCEPT ![p] = 0]
  /\ Goto(p, "reread")
  /\ UNCHANGED <<bad, cmd, cur, new, sound, ret>>

\* mtd_erase or mtd_write fails, and the block may have become a bad one.
EraseOrWriteFail(p) ==
  /\ "program" \in Faults
  /\ pc[p] \in {"erase", "write"}
  /\ Tear(p)
  /\ bad' \in {bad, bad \cup {new[p]}}
  /\ Goto(p, "check")
  /\ UNCHANGED <<cmd, mem, cur, new, scan, sound, ret>>

\* malloc of the page fails after the erase: no second check of the block.
PageAllocFail(p) ==
  /\ "program" \in Faults
  /\ pc[p] = "write"
  /\ Advance(p)
  /\ UNCHANGED <<flash, bad, cmd, mem, cur, scan, sound, ret>>

CheckAgain(p) ==
  /\ pc[p] = "check"
  /\ \/ new[p] \in bad /\ mem' = Entry(p, new[p], "BAD!")
     \/ new[p] \notin bad /\ UNCHANGED mem
     \/ "check" \in Faults /\ UNCHANGED mem
  /\ Advance(p)
  /\ UNCHANGED <<flash, bad, cmd, cur, scan, sound, ret>>

\* Every block refused: return -1 without a reread; main ignores it and
\* rereads itself.
SetFailed(p) ==
  /\ pc[p] = "failed"
  /\ ret' = [ret EXCEPT ![p] = -1]
  /\ mem' = [mem EXCEPT ![p] = Forgotten(@)]
  /\ scan' = [scan EXCEPT ![p] = 0]
  /\ Goto(p, "main_reread")
  /\ UNCHANGED <<flash, bad, cmd, cur, new, sound>>

-----------------------------------------------------------------------------
(* bc_ll_set_kernel_healthy and bc_ll_set_rootfs_healthy: one mtd_write    *)
(* over the page, no erase, no check of the block.                         *)
ProgramOk(p) ==
  /\ pc[p] = "program"
  /\ flash' = [flash EXCEPT ![cur[p]] = Programmed(@, mem[p][cur[p]])]
  /\ Goto(p, "print")
  /\ UNCHANGED <<bad, cmd, mem, cur, new, scan, sound, ret>>

ProgramFail(p) ==
  /\ "program" \in Faults
  /\ pc[p] = "program"
  /\ \/ Tear(p) /\ ret' = [ret EXCEPT ![p] = 1]
     \/ UNCHANGED flash /\ ret' = [ret EXCEPT ![p] = -1]
  /\ Goto(p, "print")
  /\ UNCHANGED <<bad, cmd, mem, cur, new, scan, sound>>

\* _print_config, then exit(0) whatever the library returned.
PrintConfig(p) ==
  /\ pc[p] = "print"
  /\ Exit(p)
  /\ UNCHANGED nand

-----------------------------------------------------------------------------
(* The surroundings.                                                       *)

\* Power is lost: every instance is gone, and the one operation the chip is
\* executing leaves its page torn.
PowerCut ==
  /\ "power" \in Faults
  /\ \E p \in Procs : pc[p] # "off"
  /\ \E p \in Procs : Tear(p)
  /\ pc' = [p \in Procs |-> "off"]
  /\ cmd' = [p \in Procs |-> NoCommand]
  /\ mem' = [p \in Procs |-> NoMemory]
  /\ cur' = [p \in Procs |-> 0]
  /\ new' = [p \in Procs |-> 0]
  /\ scan' = [p \in Procs |-> 0]
  /\ sound' = [p \in Procs |-> FALSE]
  /\ ret' = [p \in Procs |-> 0]
  /\ UNCHANGED bad

\* What a scan without errors would find.
Nand == [b \in Blocks |->
           IF b \in bad THEN [Zeroed EXCEPT !.magic = "BAD!"]
           ELSE IF flash[b].magic = "ecc!" THEN Zeroed ELSE flash[b]]

\* The boot loader (not in this repository) clears the n_booted flag of what
\* it boots, before any instance of the tool can run.
BootLoader ==
  /\ \A p \in Procs : pc[p] = "off"
  /\ \E which \in Images, c \in Blocks :
       /\ IsCurrent(Nand, c)
       /\ flash' = [flash EXCEPT ![c] = ClearBooted(@, which)]
  /\ UNCHANGED <<bad, pc, cmd, mem, cur, new, scan, sound, ret>>

-----------------------------------------------------------------------------
Scan(p) == ScanBad(p) \/ ScanRead(p) \/ ScanFail(p)
Dispatch(p) == DispatchShow(p) \/ DispatchIllegal(p) \/ DispatchSet(p) \/ DispatchHealthy(p)
Update(p) == UpdateSkip(p) \/ UpdateGood(p) \/ UpdateBad(p) \/ UpdateUnknown(p)
Store(p) == EraseOk(p) \/ WriteOk(p) \/ EraseOrWriteFail(p) \/ PageAllocFail(p) \/ CheckAgain(p)
Finish(p) == InitDone(p) \/ RereadDone(p) \/ MainRereadDone(p) \/ SetFailed(p) \/ PrintConfig(p)
Mark(p) == ProgramOk(p) \/ ProgramFail(p)

Step(p) == Scan(p) \/ Dispatch(p) \/ Update(p) \/ Store(p) \/ Finish(p) \/ Mark(p)

Next ==
  \/ \E p \in Procs : Step(p)
  \/ \E p \in Procs, c \in Issued : Start(p, c)
  \/ PowerCut
  \/ BootLoader

Spec == Init /\ [][Next]_vars

\* A running instance is scheduled: nothing in it waits for another one.
FairSpec == Spec /\ \A p \in Procs : WF_vars(Step(p))

-----------------------------------------------------------------------------
(* Properties.                                                             *)

\* Every variable stays in its type: blocks hold struct btblocks, indices are
\* block numbers, and pc names a place in lowlevel.c or main.c.
TypeOK ==
  /\ flash \in [Blocks -> BtBlock]
  /\ bad \in SUBSET Blocks
  /\ pc \in [Procs -> {"off", "init", "dispatch", "update", "erase", "write", "check",
                      "failed", "reread", "main_reread", "program", "print"}]
  /\ cmd \in [Procs -> Commands]
  /\ mem \in [Procs -> [Blocks -> BtBlock]]
  /\ cur \in [Procs -> Blocks]
  /\ new \in [Procs -> Blocks]
  /\ scan \in [Procs -> 0 .. EbCnt]
  /\ sound \in [Procs -> BOOLEAN]
  /\ ret \in [Procs -> {-1, 0, 1}]

\* {} or the set of the one configuration that the given blocks select.
Config(blocks) ==
  {[kernel |-> blocks[i].kernel, rootfs |-> blocks[i].rootfs] :
     i \in {j \in Blocks : IsCurrent(blocks, j)}}

\* While bc_ll_set_partition looks for a block that takes the new
\* configuration, the block it copied from is still on the NAND as it was
\* read: a power cut at any point of the loop finds a configuration.
InLoop(p) == pc[p] \in {"update", "erase", "write", "check", "failed"}
SetKeepsBase ==
  \A p \in Procs :
    InLoop(p) /\ HasConfig(mem[p][cur[p]]) => Nand[cur[p]] = mem[p][cur[p]]

\* Once bc_ll_set_partition has returned 0, the NAND selects the partition
\* asked for with fresh flags, and the other image as it was before.
SetTookEffect(p) ==
  /\ pc[p] \in {"reread", "main_reread", "print"}
  /\ cmd[p].op = "set" /\ ret[p] = 0
  => LET base == IF HasConfig(Nand[cur[p]]) THEN Nand[cur[p]] ELSE Dummy
         want == Updated(base, cmd[p].which, cmd[p].part)
     IN  Config(Nand) = {[kernel |-> want.kernel, rootfs |-> want.rootfs]}
SetTakesEffect == \A p \in Procs : SetTookEffect(p)

\* A healthy command whose library call returned 0 leaves no configuration
\* selected whose flag still says "not healthy".
HealthyTookEffect(p) ==
  pc[p] = "print" /\ cmd[p].op = "healthy" /\ ret[p] = 0
    => \A i \in Blocks : IsCurrent(Nand, i) => Flag(Nand[i], cmd[p].which) = 0
HealthyTakesEffect == \A p \in Procs : HealthyTookEffect(p)

\* Failed writes may leave several blocks of one epoch: they name the same
\* partitions, so it does not matter which one bc_ll_get_current picks.
DuplicatesAgree ==
  \A i, j \in Blocks :
    HasConfig(Nand[i]) /\ HasConfig(Nand[j]) /\ Nand[i].epoch = Nand[j].epoch
      => /\ Nand[i].kernel.partition = Nand[j].kernel.partition
         /\ Nand[i].rootfs.partition = Nand[j].rootfs.partition

\* What a set prints after its reread is what the NAND selects.
SetPrintsNand ==
  \A p \in Procs :
    pc[p] = "print" /\ cmd[p].op = "set" => Config(mem[p]) = Config(Nand)

\* Every instance comes to its end, whatever blocks refuse.
Terminates == \A p \in Procs : pc[p] # "off" ~> pc[p] = "off"

\* The store is the register that BootRegister describes: every command takes
\* effect as a whole or not at all, a power cut included.
Register == INSTANCE BootRegister WITH config <- Config(Nand), asked <- cmd
ImplementsRegister == Register!RSpec
=============================================================================
