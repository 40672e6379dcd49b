-------------------------- MODULE BootConfigProofs --------------------------
(***************************************************************************)
(* Theorems about BootConfig, for every number of blocks and epochs:       *)
(* types and the block that a set replaces under every fault, then what    *)
(* commands promise to an instance that runs alone, and last that the      *)
(* store implements BootRegister.                                          *)
(***************************************************************************)
EXTENDS BootConfigPair, WellFoundedInduction, TLAPS

\* The index arithmetic of the block loop stays inside the partition.
LEMMA NextBlock ==
  ASSUME NEW n \in Blocks
  PROVE  (n + 1) % EbCnt \in Blocks
BY GeometryAssumption DEF Blocks

LEMMA BlocksInt == Blocks \subseteq Int /\ EbCnt \in Nat /\ EbCnt - 1 \in Blocks /\ 0 \in Blocks
BY GeometryAssumption DEF Blocks

\* The values the code builds from a struct btblock are struct btblocks.
LEMMA DummyType == Dummy \in BtBlock /\ \A p \in Partitions : Fresh(p) \in Info
BY EpochAssumption DEF Dummy, BtBlock, Fresh, Info, Partitions, Bit, Epochs

LEMMA UpdatedType ==
  ASSUME NEW old \in BtBlock, NEW which, NEW p \in Partitions
  PROVE  Updated(old, which, p) \in BtBlock
<1>1. (old.epoch + 1) % EpochMod \in Epochs
  BY EpochAssumption DEF BtBlock, Epochs
<1>2. Fresh(p) \in Info
  BY DummyType
<1> QED BY <1>1, <1>2 DEF Updated, BtBlock

LEMMA ClearType ==
  ASSUME NEW b \in BtBlock, NEW which
  PROVE  ClearHealthy(b, which) \in BtBlock /\ ClearBooted(b, which) \in BtBlock
BY DEF ClearHealthy, ClearBooted, BtBlock, Info, Bit

LEMMA ProgrammedType ==
  ASSUME NEW page \in BtBlock, NEW b \in BtBlock
  PROVE  Programmed(page, b) \in BtBlock
<1>1. \A x, y \in Info : BothFlags(x, y) \in Info
  BY DEF BothFlags, And, Info, Bit
<1>2. Uncorrectable \in BtBlock
  BY DummyType DEF Uncorrectable, BtBlock
<1> QED BY <1>1, <1>2 DEF Programmed, BtBlock

LEMMA MagicType ==
  ASSUME NEW b \in BtBlock, NEW magic \in {"Boot", "BAD!", "none", "ecc!"}
  PROVE  [b EXCEPT !.magic = magic] \in BtBlock
BY DEF BtBlock

\* pc and cmd belong together: an instance in the block loop was given a
\* partition that main has checked.
LoopCommand ==
  \A p \in Procs : InLoop(p) => cmd[p].op = "set" /\ cmd[p].part \in Partitions
TypeInv == TypeOK /\ LoopCommand

LEMMA TypeInit == Init => TypeInv
BY DummyType, BlocksInt
   DEF Init, TypeInv, TypeOK, LoopCommand, InLoop, NoMemory, NoCommand, Commands,
       Images, Zeroed, Blank

\* The type of one entry of memory or of one page carries over to the whole.
LEMMA EntryType ==
  ASSUME TypeOK, NEW p \in Procs, NEW b \in Blocks, NEW e \in BtBlock
  PROVE  [mem EXCEPT ![p][b] = e] \in [Procs -> [Blocks -> BtBlock]]
BY DEF TypeOK

LEMMA MagicEntryType ==
  ASSUME TypeOK, NEW p \in Procs, NEW b \in Blocks,
         NEW magic \in {"Boot", "BAD!", "none", "ecc!"}
  PROVE  Entry(p, b, magic) \in [Procs -> [Blocks -> BtBlock]]
<1>1. mem[p][b] \in BtBlock
  BY DEF TypeOK
<1>2. [mem[p][b] EXCEPT !.magic = magic] \in BtBlock
  BY <1>1, MagicType
<1>3. Entry(p, b, magic) = [mem EXCEPT ![p][b] = [mem[p][b] EXCEPT !.magic = magic]]
  BY DEF TypeOK, Entry
<1> QED BY <1>2, <1>3, EntryType

LEMMA ForgottenType ==
  ASSUME NEW m \in [Blocks -> BtBlock]
  PROVE  Forgotten(m) \in [Blocks -> BtBlock]
BY DummyType DEF Forgotten, Zeroed

LEMMA StartType ==
  ASSUME TypeInv, NEW p \in Procs, NEW c \in Issued, Start(p, c)
  PROVE  TypeInv'
BY IssuedAssumption DEF TypeInv, TypeOK, LoopCommand, InLoop, Start, Goto

LEMMA ScanType ==
  ASSUME TypeInv, NEW p \in Procs, Scan(p)
  PROVE  TypeInv'
<1> USE DEF TypeInv, TypeOK, LoopCommand, InLoop
<1>1. scan[p] \in Blocks /\ scan[p] + 1 \in 0 .. EbCnt
  BY GeometryAssumption DEF Scan, ScanBad, ScanRead, ScanFail, Scanning, Blocks
<1>2. CASE ScanBad(p)
  <2>1. mem' \in [Procs -> [Blocks -> BtBlock]]
    BY <1>1, <1>2, MagicEntryType DEF ScanBad
  <2> QED BY <2>1, <1>1, <1>2 DEF ScanBad, ScanNext
<1>3. CASE ScanRead(p)
  <2>1. mem' \in [Procs -> [Blocks -> BtBlock]]
    BY <1>1, <1>3, EntryType DEF ScanRead
  <2> QED BY <2>1, <1>1, <1>3 DEF ScanRead, ScanNext
<1>4. CASE ScanFail(p)
  BY <1>1, <1>4 DEF ScanFail, ScanNext
<1> QED BY <1>2, <1>3, <1>4 DEF Scan

LEMMA ExitType ==
  ASSUME TypeInv, NEW p \in Procs, Exit(p), UNCHANGED nand
  PROVE  TypeInv'
<1>1. NoMemory \in [Blocks -> BtBlock] /\ NoCommand \in Commands
  BY DummyType DEF NoMemory, NoCommand, Zeroed, Commands, Images
<1> QED
  BY <1>1, BlocksInt DEF Exit, Goto, nand, TypeInv, TypeOK, LoopCommand, InLoop

\* Steps that leave memory and NAND alone.
LEMMA FinishType ==
  ASSUME TypeInv, NEW p \in Procs, Finish(p)
  PROVE  TypeInv'
<1>1. CASE InitDone(p)
  <2>1. CASE Exit(p) /\ UNCHANGED nand
    BY <2>1, ExitType
  <2>2. CASE /\ Goto(p, "dispatch")
             /\ UNCHANGED <<flash, bad, cmd, mem, cur, new, scan, sound, ret>>
    BY <2>2 DEF Goto, TypeInv, TypeOK, LoopCommand, InLoop
  <2> QED BY <1>1, <2>1, <2>2 DEF InitDone
<1>2. CASE RereadDone(p) \/ SetFailed(p)
  <2>1. /\ mem[p] \in [Blocks -> BtBlock]
        /\ mem \in [Procs -> [Blocks -> BtBlock]] /\ scan \in [Procs -> 0 .. EbCnt]
    BY DEF TypeInv, TypeOK
  <2>2. Forgotten(mem[p]) \in [Blocks -> BtBlock]
    BY <2>1, ForgottenType
  <2>3. 0 \in 0 .. EbCnt
    BY GeometryAssumption
  <2>4. mem' \in [Procs -> [Blocks -> BtBlock]] /\ scan' \in [Procs -> 0 .. EbCnt]
    <3>1. mem' = [mem EXCEPT ![p] = Forgotten(mem[p])] /\ scan' = [scan EXCEPT ![p] = 0]
      BY <1>2 DEF RereadDone, SetFailed
    <3>2. mem' \in [Procs -> [Blocks -> BtBlock]]
      BY <2>1, <2>2, <3>1
    <3>3. scan' \in [Procs -> 0 .. EbCnt]
      BY <2>1, <2>3, <3>1
    <3> QED BY <3>2, <3>3
  <2>5. CASE RereadDone(p)
    BY <2>4, <2>5 DEF RereadDone, Goto, TypeInv, TypeOK, LoopCommand, InLoop
  <2>6. CASE SetFailed(p)
    BY <2>4, <2>6 DEF SetFailed, Goto, TypeInv, TypeOK, LoopCommand, InLoop
  <2> QED BY <1>2, <2>5, <2>6
<1>3. CASE MainRereadDone(p)
  BY <1>3 DEF MainRereadDone, Goto, TypeInv, TypeOK, LoopCommand, InLoop
<1>4. CASE PrintConfig(p)
  BY <1>4, ExitType DEF PrintConfig
<1> QED BY <1>1, <1>2, <1>3, <1>4 DEF Finish

LEMMA EnterLoopType ==
  ASSUME TypeInv, NEW p \in Procs, NEW c \in Blocks, EnterLoop(p, c),
         cmd[p].op = "set", cmd[p].part \in Partitions,
         mem' \in [Procs -> [Blocks -> BtBlock]]
  PROVE  TypeInv'
<1>1. (c + 1) % EbCnt \in Blocks
  BY NextBlock
<1> QED
  BY <1>1 DEF EnterLoop, Goto, TypeInv, TypeOK, LoopCommand, InLoop

LEMMA DispatchType ==
  ASSUME TypeInv, NEW p \in Procs, Dispatch(p)
  PROVE  TypeInv'
<1>1. CASE DispatchShow(p)
  BY <1>1 DEF DispatchShow, Goto, TypeInv, TypeOK, LoopCommand, InLoop
<1>2. CASE DispatchIllegal(p)
  BY <1>2, ExitType DEF DispatchIllegal
<1>3. CASE DispatchSet(p)
  <2>1. cmd[p].op = "set" /\ cmd[p].part \in Partitions
    <3>1. cmd[p] \in Commands
      BY DEF TypeInv, TypeOK
    <3> QED BY <1>3, <3>1 DEF DispatchSet, Commands, Partitions, IllegalPartition
  <2>2. ASSUME NEW c \in Blocks, EnterLoop(p, c), UNCHANGED mem
        PROVE  TypeInv'
    <3>1. mem' \in [Procs -> [Blocks -> BtBlock]]
      BY <2>2 DEF TypeInv, TypeOK
    <3> QED BY <2>1, <2>2, <3>1, EnterLoopType
  <2>3. CASE /\ EnterLoop(p, EbCnt - 1)
             /\ mem' = [mem EXCEPT ![p][EbCnt - 1] = Dummy]
    <3>1. mem' \in [Procs -> [Blocks -> BtBlock]]
      BY <2>3, EntryType, DummyType, BlocksInt DEF TypeInv
    <3> QED BY <2>1, <2>3, <3>1, BlocksInt, EnterLoopType
  <2> QED BY <1>3, <2>2, <2>3 DEF DispatchSet
<1>4. CASE DispatchHealthy(p)
  <2>1. ASSUME NEW c \in Blocks
        PROVE  [mem EXCEPT ![p][c] = ClearHealthy(@, cmd[p].which)]
                 \in [Procs -> [Blocks -> BtBlock]]
    <3>1. ClearHealthy(mem[p][c], cmd[p].which) \in BtBlock
      BY ClearType DEF TypeInv, TypeOK
    <3> QED BY <3>1, EntryType DEF TypeInv, TypeOK
  <2>2. mem' \in [Procs -> [Blocks -> BtBlock]] /\ cur' \in [Procs -> Blocks]
    <3>1. CASE NoCurrent(mem[p]) /\ UNCHANGED <<mem, cur>>
      BY <3>1 DEF TypeInv, TypeOK
    <3>2. ASSUME NEW c \in Blocks, cur' = [cur EXCEPT ![p] = c],
                 \/ mem' = [mem EXCEPT ![p][c] = ClearHealthy(@, cmd[p].which)]
                 \/ UNCHANGED mem
          PROVE  mem' \in [Procs -> [Blocks -> BtBlock]] /\ cur' \in [Procs -> Blocks]
      BY <2>1, <3>2 DEF TypeInv, TypeOK
    <3> QED BY <1>4, <3>1, <3>2 DEF DispatchHealthy
  <2>3. pc[p] = "dispatch" /\ (Goto(p, "program") \/ Goto(p, "print"))
    BY <1>4 DEF DispatchHealthy
  <2>4. UNCHANGED <<flash, bad, cmd, new, scan, sound, ret>>
    BY <1>4 DEF DispatchHealthy
  <2> QED
    BY <2>2, <2>3, <2>4 DEF Goto, TypeInv, TypeOK, LoopCommand, InLoop
<1> QED BY <1>1, <1>2, <1>3, <1>4 DEF Dispatch

LEMMA AdvanceType ==
  ASSUME TypeInv, NEW p \in Procs, Advance(p), InLoop(p),
         mem' \in [Procs -> [Blocks -> BtBlock]],
         bad' \in SUBSET Blocks,
         UNCHANGED <<flash, cmd, cur, scan, sound, ret>>
  PROVE  TypeInv'
<1>1. (new[p] + 1) % EbCnt \in Blocks
  BY NextBlock DEF TypeInv, TypeOK
<1> QED
  BY <1>1 DEF Advance, Goto, TypeInv, TypeOK, LoopCommand, InLoop

LEMMA UpdateType ==
  ASSUME TypeInv, NEW p \in Procs, Update(p)
  PROVE  TypeInv'
<1>1. pc[p] = "update" /\ InLoop(p)
  BY DEF Update, UpdateSkip, UpdateGood, UpdateBad, UpdateUnknown, InLoop
<1>2. UpdateEntry(p) \in BtBlock
  <2>1. mem[p][cur[p]] \in BtBlock /\ cmd[p].part \in Partitions
    BY <1>1 DEF TypeInv, TypeOK, LoopCommand
  <2> QED BY <2>1, UpdatedType DEF UpdateEntry
<1>3. [UpdateEntry(p) EXCEPT !.magic = "BAD!"] \in BtBlock
  BY <1>2, MagicType
<1>4. new[p] \in Blocks
  BY DEF TypeInv, TypeOK
<1>5. CASE UpdateSkip(p)
  <2>1. mem' \in [Procs -> [Blocks -> BtBlock]] /\ bad' \in SUBSET Blocks
    BY <1>5 DEF UpdateSkip, TypeInv, TypeOK
  <2> QED BY <2>1, <1>1, <1>5, AdvanceType DEF UpdateSkip
<1>6. CASE UpdateGood(p)
  <2>1. mem' \in [Procs -> [Blocks -> BtBlock]]
    BY <1>2, <1>4, <1>6, EntryType DEF UpdateGood, TypeInv
  <2> QED
    BY <2>1, <1>1, <1>6 DEF UpdateGood, Goto, TypeInv, TypeOK, LoopCommand, InLoop
<1>7. CASE UpdateBad(p)
  <2>1. mem' \in [Procs -> [Blocks -> BtBlock]]
    BY <1>3, <1>4, <1>7, EntryType DEF UpdateBad, TypeInv
  <2>2. bad' \in SUBSET Blocks
    BY <1>7 DEF UpdateBad, TypeInv, TypeOK
  <2> QED BY <2>1, <2>2, <1>1, <1>7, AdvanceType DEF UpdateBad
<1>8. CASE UpdateUnknown(p)
  <2>1. mem' \in [Procs -> [Blocks -> BtBlock]]
    BY <1>2, <1>4, <1>8, EntryType DEF UpdateUnknown, TypeInv
  <2>2. bad' \in SUBSET Blocks
    BY <1>8 DEF UpdateUnknown, TypeInv, TypeOK
  <2> QED BY <2>1, <2>2, <1>1, <1>8, AdvanceType DEF UpdateUnknown
<1> QED BY <1>5, <1>6, <1>7, <1>8 DEF Update

LEMMA TearType ==
  ASSUME TypeInv, NEW p \in Procs, Tear(p)
  PROVE  flash' \in [Blocks -> BtBlock]
<1>1. Target(p) \in Blocks
  BY DEF Target, TypeInv, TypeOK
<1>2. flash[Target(p)] \in BtBlock /\ mem[p][Target(p)] \in BtBlock
  BY <1>1 DEF TypeInv, TypeOK
<1>3. Programmed(flash[Target(p)], mem[p][Target(p)]) \in BtBlock
  BY <1>2, ProgrammedType
<1>4. Blank \in BtBlock /\ Uncorrectable \in BtBlock
  BY DummyType, MagicType DEF Blank, Uncorrectable
<1>5. Torn(p) \subseteq BtBlock
  BY <1>2, <1>3, <1>4 DEF Torn
<1> QED BY <1>1, <1>5 DEF Tear, TypeInv, TypeOK

LEMMA ProgramType ==
  ASSUME TypeInv, NEW p \in Procs, NEW b \in Blocks,
         flash' = [flash EXCEPT ![b] = Programmed(@, mem[p][b])]
  PROVE  flash' \in [Blocks -> BtBlock]
<1>1. flash[b] \in BtBlock /\ mem[p][b] \in BtBlock
  BY DEF TypeInv, TypeOK
<1>2. Programmed(flash[b], mem[p][b]) \in BtBlock
  BY <1>1, ProgrammedType
<1> QED BY <1>2 DEF TypeInv, TypeOK

LEMMA StoreType ==
  ASSUME TypeInv, NEW p \in Procs, Store(p)
  PROVE  TypeInv'
<1>1. new[p] \in Blocks /\ mem[p] \in [Blocks -> BtBlock]
  BY DEF TypeInv, TypeOK
<1>2. CASE EraseOk(p)
  <2>1. Blank \in BtBlock
    BY DummyType DEF Blank
  <2> QED
    BY <1>1, <1>2, <2>1 DEF EraseOk, Goto, TypeInv, TypeOK, LoopCommand, InLoop
<1>3. CASE WriteOk(p)
  <2>1. flash' \in [Blocks -> BtBlock]
    BY <1>1, <1>3, ProgramType DEF WriteOk
  <2>2. Forgotten(mem[p]) \in [Blocks -> BtBlock]
    BY <1>1, ForgottenType
  <2>3. mem' \in [Procs -> [Blocks -> BtBlock]] /\ scan' \in [Procs -> 0 .. EbCnt]
    BY <1>3, <2>2, GeometryAssumption DEF WriteOk, TypeInv, TypeOK
  <2> QED
    BY <1>3, <2>1, <2>3 DEF WriteOk, Goto, TypeInv, TypeOK, LoopCommand, InLoop
<1>4. CASE EraseOrWriteFail(p)
  <2>1. flash' \in [Blocks -> BtBlock]
    BY <1>4, TearType DEF EraseOrWriteFail
  <2>2. bad' \in SUBSET Blocks
    BY <1>1, <1>4 DEF EraseOrWriteFail, TypeInv, TypeOK
  <2> QED
    BY <1>4, <2>1, <2>2
       DEF EraseOrWriteFail, Goto, TypeInv, TypeOK, LoopCommand, InLoop
<1>5. CASE PageAllocFail(p)
  <2>1. mem' \in [Procs -> [Blocks -> BtBlock]] /\ bad' \in SUBSET Blocks /\ InLoop(p)
    BY <1>5 DEF PageAllocFail, TypeInv, TypeOK, InLoop
  <2> QED BY <1>5, <2>1, AdvanceType DEF PageAllocFail
<1>6. CASE CheckAgain(p)
  <2>1. mem' \in [Procs -> [Blocks -> BtBlock]]
    <3>1. CASE mem' = Entry(p, new[p], "BAD!")
      BY <1>1, <3>1, MagicEntryType DEF TypeInv
    <3>2. CASE UNCHANGED mem
      BY <3>2 DEF TypeInv, TypeOK
    <3> QED BY <1>6, <3>1, <3>2 DEF CheckAgain
  <2>2. bad' \in SUBSET Blocks /\ InLoop(p)
    BY <1>6 DEF CheckAgain, TypeInv, TypeOK, InLoop
  <2> QED BY <1>6, <2>1, <2>2, AdvanceType DEF CheckAgain
<1> QED BY <1>2, <1>3, <1>4, <1>5, <1>6 DEF Store

LEMMA MarkType ==
  ASSUME TypeInv, NEW p \in Procs, Mark(p)
  PROVE  TypeInv'
<1>1. cur[p] \in Blocks
  BY DEF TypeInv, TypeOK
<1>2. CASE ProgramOk(p)
  <2>1. flash' \in [Blocks -> BtBlock]
    BY <1>1, <1>2, ProgramType DEF ProgramOk
  <2> QED
    BY <1>2, <2>1 DEF ProgramOk, Goto, TypeInv, TypeOK, LoopCommand, InLoop
<1>3. CASE ProgramFail(p)
  <2>1. flash' \in [Blocks -> BtBlock]
    <3>1. CASE Tear(p)
      BY <3>1, TearType
    <3>2. CASE UNCHANGED flash
      BY <3>2 DEF TypeInv, TypeOK
    <3> QED BY <1>3, <3>1, <3>2 DEF ProgramFail
  <2>2. ret' \in [Procs -> {-1, 0, 1}]
    BY <1>3 DEF ProgramFail, TypeInv, TypeOK
  <2> QED
    BY <1>3, <2>1, <2>2 DEF ProgramFail, Goto, TypeInv, TypeOK, LoopCommand, InLoop
<1> QED BY <1>2, <1>3 DEF Mark

LEMMA PowerCutType ==
  ASSUME TypeInv, PowerCut
  PROVE  TypeInv'
<1>1. flash' \in [Blocks -> BtBlock]
  BY TearType DEF PowerCut
<1>2. NoMemory \in [Blocks -> BtBlock] /\ NoCommand \in Commands
  BY DummyType DEF NoMemory, NoCommand, Zeroed, Commands, Images
<1> QED
  BY <1>1, <1>2, BlocksInt DEF PowerCut, TypeInv, TypeOK, LoopCommand, InLoop

LEMMA BootLoaderType ==
  ASSUME TypeInv, BootLoader
  PROVE  TypeInv'
<1>1. PICK which \in Images, c \in Blocks :
        flash' = [flash EXCEPT ![c] = ClearBooted(@, which)]
  BY DEF BootLoader
<1>2. ClearBooted(flash[c], which) \in BtBlock
  BY ClearType DEF TypeInv, TypeOK
<1> QED
  BY <1>1, <1>2 DEF BootLoader, TypeInv, TypeOK, LoopCommand, InLoop

LEMMA TypeStep == TypeInv /\ [Next]_vars => TypeInv'
<1> SUFFICES ASSUME TypeInv, [Next]_vars PROVE TypeInv'
  OBVIOUS
<1>1. ASSUME NEW p \in Procs, Step(p) PROVE TypeInv'
  BY <1>1, ScanType, DispatchType, UpdateType, StoreType, FinishType, MarkType DEF Step
<1>2. CASE UNCHANGED vars
  BY <1>2 DEF vars, TypeInv, TypeOK, LoopCommand, InLoop
<1> QED
  BY <1>1, <1>2, StartType, PowerCutType, BootLoaderType DEF Next

\* Every variable keeps its type in every run of any number of instances:
\* indices stay inside the partition and only struct btblocks reach the NAND.
THEOREM TypeCorrect == Spec => []TypeOK
<1>1. TypeInv => TypeOK
  BY DEF TypeInv
<1> QED BY <1>1, TypeInit, TypeStep, PTL DEF Spec

-----------------------------------------------------------------------------
(* One instance at a time.  What it believes to be a configuration was     *)
(* read from the NAND, and its loop never comes back to that block.        *)

OneInstance == \A p, q \in Procs : p = q

OffIsClean == \A p \in Procs : pc[p] = "off" => mem[p] = NoMemory
ReadFromNand ==
  \A p \in Procs : pc[p] \in {"init", "dispatch"} =>
    \A b \in Blocks : HasConfig(mem[p][b]) => Nand[b] = mem[p][b]
LoopAvoidsBase ==
  \A p \in Procs : pc[p] \in {"update", "erase", "write", "check"} => new[p] # cur[p]
BaseInv == TypeInv /\ OffIsClean /\ ReadFromNand /\ LoopAvoidsBase /\ SetKeepsBase

LEMMA NoConfigInZeroed ==
  /\ ~HasConfig(Zeroed) /\ ~HasConfig(Dummy)
  /\ \A b \in Blocks : ~HasConfig(NoMemory[b])
BY DEF HasConfig, Zeroed, Dummy, NoMemory

\* A step that leaves block b and its mark alone leaves what a scan finds there.
LEMMA NandSame ==
  ASSUME NEW b \in Blocks, flash'[b] = flash[b], b \in bad' <=> b \in bad
  PROVE  Nand'[b] = Nand[b]
BY DEF Nand

LEMMA BaseInit == Init => BaseInv
<1> SUFFICES ASSUME Init PROVE BaseInv
  OBVIOUS
<1>1. TypeInv
  BY TypeInit
<1> QED
  BY <1>1 DEF Init, BaseInv, OffIsClean, ReadFromNand, LoopAvoidsBase, SetKeepsBase, InLoop

LEMMA BaseScan ==
  ASSUME OneInstance, BaseInv, NEW p \in Procs, Scan(p), TypeInv'
  PROVE  BaseInv'
<1>1. scan[p] \in Blocks
  BY GeometryAssumption
     DEF Scan, ScanBad, ScanRead, ScanFail, Scanning, Blocks, BaseInv, TypeInv, TypeOK
<1>2. pc[p] \in {"init", "reread", "main_reread"} /\ UNCHANGED <<flash, bad, pc, cur, new>>
  BY DEF Scan, ScanBad, ScanRead, ScanFail, Scanning, ScanNext
<1>3. Nand' = Nand
  BY <1>2 DEF Nand
<1>4. ASSUME pc[p] = "init", NEW b \in Blocks, HasConfig(mem'[p][b])
      PROVE  Nand'[b] = mem'[p][b]
  <2>1. mem[p] \in [Blocks -> BtBlock] /\ mem \in [Procs -> [Blocks -> BtBlock]]
    BY DEF BaseInv, TypeInv, TypeOK
  <2>2. HasConfig(mem[p][b]) => Nand[b] = mem[p][b]
    BY <1>4 DEF BaseInv, ReadFromNand
  <2>3. CASE ScanBad(p)
    <3>1. mem'[p][b] = IF b = scan[p] THEN [mem[p][b] EXCEPT !.magic = "BAD!"] ELSE mem[p][b]
      BY <2>1, <2>3, <1>1 DEF ScanBad, Entry
    <3>2. b # scan[p]
      BY <3>1, <1>4, <2>1 DEF HasConfig, BtBlock
    <3> QED BY <3>1, <3>2, <2>2, <1>3, <1>4
  <2>4. CASE ScanRead(p)
    <3>1. mem'[p][b] = IF b = scan[p] THEN flash[b] ELSE mem[p][b]
      BY <2>1, <2>4, <1>1 DEF ScanRead
    <3>2. b = scan[p] => Nand[b] = flash[b]
      BY <2>4 DEF ScanRead, Nand
    <3> QED BY <3>1, <3>2, <2>2, <1>3, <1>4
  <2>5. CASE ScanFail(p)
    BY <2>5, <2>2, <1>3, <1>4 DEF ScanFail
  <2> QED BY <2>3, <2>4, <2>5 DEF Scan
<1> QED
  BY <1>2, <1>4
     DEF OneInstance, BaseInv, OffIsClean, ReadFromNand, LoopAvoidsBase, SetKeepsBase, InLoop

LEMMA BaseFinish ==
  ASSUME OneInstance, BaseInv, NEW p \in Procs, Finish(p), TypeInv'
  PROVE  BaseInv'
<1>1. UNCHANGED nand
  BY DEF Finish, InitDone, RereadDone, MainRereadDone, SetFailed, PrintConfig, Exit, nand
<1>2. Nand' = Nand
  BY <1>1 DEF Nand, nand
<1>3. \/ pc'[p] = "off" /\ mem'[p] = NoMemory
      \/ pc'[p] \in {"main_reread", "print"}
      \/ pc[p] = "init" /\ pc'[p] = "dispatch" /\ UNCHANGED mem
  BY DEF Finish, InitDone, RereadDone, MainRereadDone, SetFailed, PrintConfig, Exit, Goto,
         BaseInv, TypeInv, TypeOK
<1> QED
  BY <1>2, <1>3
     DEF OneInstance, BaseInv, OffIsClean, ReadFromNand, LoopAvoidsBase, SetKeepsBase, InLoop

LEMMA BaseStart ==
  ASSUME OneInstance, BaseInv, NEW p \in Procs, NEW c \in Issued, Start(p, c), TypeInv'
  PROVE  BaseInv'
<1>1. pc'[p] = "init" /\ mem'[p] = NoMemory
  BY DEF Start, Goto, BaseInv, TypeInv, TypeOK, OffIsClean
<1> QED
  BY <1>1, NoConfigInZeroed
     DEF OneInstance, BaseInv, OffIsClean, ReadFromNand, LoopAvoidsBase, SetKeepsBase, InLoop

LEMMA BaseDispatch ==
  ASSUME OneInstance, BaseInv, NEW p \in Procs, Dispatch(p), TypeInv'
  PROVE  BaseInv'
<1> USE DEF OneInstance, BaseInv, OffIsClean, ReadFromNand, LoopAvoidsBase, SetKeepsBase,
            InLoop
<1>1. CASE DispatchIllegal(p)
  BY <1>1 DEF DispatchIllegal, Exit, Goto, TypeInv, TypeOK
<1>2. CASE DispatchShow(p) \/ DispatchHealthy(p)
  <2>1. pc'[p] \in {"print", "program"}
    BY <1>2 DEF DispatchShow, DispatchHealthy, Goto, TypeInv, TypeOK
  <2> QED BY <2>1
<1>3. ASSUME NEW c \in Blocks, EnterLoop(p, c),
             HasConfig(mem'[p][c]) => Nand[c] = mem'[p][c]
      PROVE  BaseInv'
  <2>1. Nand' = Nand
    BY <1>3 DEF EnterLoop, Nand
  <2>2. cur'[p] = c /\ new'[p] = (c + 1) % EbCnt
    BY <1>3 DEF EnterLoop, TypeInv, TypeOK
  <2>3. pc'[p] = "failed" \/ (pc'[p] = "update" /\ new'[p] # cur'[p])
    BY <1>3, <2>2 DEF EnterLoop, Goto, TypeInv, TypeOK
  <2> QED BY <1>3, <2>1, <2>2, <2>3
<1>4. CASE DispatchSet(p)
  <2>1. pc[p] = "dispatch"
    BY <1>4 DEF DispatchSet
  <2>2. ASSUME NEW c \in Blocks, EnterLoop(p, c), UNCHANGED mem PROVE BaseInv'
    BY <1>3, <2>1, <2>2
  <2>3. CASE /\ EnterLoop(p, EbCnt - 1)
             /\ mem' = [mem EXCEPT ![p][EbCnt - 1] = Dummy]
    <3>1. mem'[p][EbCnt - 1] = Dummy
      BY <2>3, BlocksInt DEF TypeInv, TypeOK
    <3> QED BY <2>3, <3>1, <1>3, BlocksInt, NoConfigInZeroed
  <2> QED BY <1>4, <2>2, <2>3 DEF DispatchSet
<1> QED BY <1>1, <1>2, <1>4 DEF Dispatch

\* The loop: Advance either reaches the base and gives up, or stays beside it.
LEMMA BaseAdvance ==
  ASSUME OneInstance, BaseInv, NEW p \in Procs, InLoop(p), Advance(p), TypeInv',
         UNCHANGED cur, mem'[p][cur[p]] = mem[p][cur[p]],
         Nand'[cur[p]] = Nand[cur[p]]
  PROVE  BaseInv'
<1>1. \/ pc'[p] = "failed"
      \/ pc'[p] = "update" /\ new'[p] # cur[p]
  BY DEF Advance, Goto, BaseInv, TypeInv, TypeOK
<1> QED
  BY <1>1
     DEF OneInstance, BaseInv, OffIsClean, ReadFromNand, LoopAvoidsBase, SetKeepsBase, InLoop

LEMMA BaseUpdate ==
  ASSUME OneInstance, BaseInv, NEW p \in Procs, Update(p), TypeInv'
  PROVE  BaseInv'
<1>1. pc[p] = "update" /\ UNCHANGED <<flash, bad, cur>>
  BY DEF Update, UpdateSkip, UpdateGood, UpdateBad, UpdateUnknown
<1>2. new[p] # cur[p] /\ new[p] \in Blocks /\ cur[p] \in Blocks
  BY <1>1 DEF BaseInv, LoopAvoidsBase, TypeInv, TypeOK
<1>3. mem'[p][cur[p]] = mem[p][cur[p]]
  BY <1>2 DEF Update, UpdateSkip, UpdateGood, UpdateBad, UpdateUnknown,
              BaseInv, TypeInv, TypeOK
<1>4. Nand' = Nand
  BY <1>1 DEF Nand
<1>5. CASE UpdateGood(p)
  <2>1. pc'[p] = "erase" /\ new'[p] # cur'[p]
    BY <1>2, <1>5 DEF UpdateGood, Goto, BaseInv, TypeInv, TypeOK
  <2> QED
    BY <2>1, <1>1, <1>3, <1>4
       DEF OneInstance, BaseInv, OffIsClean, ReadFromNand, LoopAvoidsBase, SetKeepsBase, InLoop
<1>6. CASE Advance(p)
  BY <1>1, <1>3, <1>4, <1>6, BaseAdvance DEF InLoop
<1> QED
  BY <1>5, <1>6 DEF Update, UpdateSkip, UpdateBad, UpdateUnknown

\* Erases, writes and their failures touch the new block only.
LEMMA BaseStore ==
  ASSUME OneInstance, BaseInv, NEW p \in Procs, Store(p), TypeInv'
  PROVE  BaseInv'
<1>1. pc[p] \in {"erase", "write", "check"} /\ UNCHANGED <<cur>> /\ InLoop(p)
  BY DEF Store, EraseOk, WriteOk, EraseOrWriteFail, PageAllocFail, CheckAgain, InLoop
<1>2. new[p] # cur[p] /\ new[p] \in Blocks /\ cur[p] \in Blocks
  BY <1>1 DEF BaseInv, LoopAvoidsBase, TypeInv, TypeOK
<1>3. flash'[cur[p]] = flash[cur[p]] /\ (cur[p] \in bad' <=> cur[p] \in bad)
  BY <1>1, <1>2 DEF Store, EraseOk, WriteOk, EraseOrWriteFail, PageAllocFail, CheckAgain,
              Tear, Target, BaseInv, TypeInv, TypeOK
<1>4. Nand'[cur[p]] = Nand[cur[p]]
  BY <1>2, <1>3, NandSame
<1>5. CASE WriteOk(p)
  <2>1. pc'[p] = "reread"
    BY <1>5 DEF WriteOk, Goto, BaseInv, TypeInv, TypeOK
  <2> QED
    BY <2>1
       DEF OneInstance, BaseInv, OffIsClean, ReadFromNand, LoopAvoidsBase, SetKeepsBase, InLoop
<1>6. CASE EraseOk(p) \/ EraseOrWriteFail(p)
  <2>1. pc'[p] \in {"write", "check"} /\ UNCHANGED <<mem, new>>
    BY <1>6 DEF EraseOk, EraseOrWriteFail, Goto, BaseInv, TypeInv, TypeOK
  <2> QED
    BY <2>1, <1>1, <1>2, <1>4
       DEF OneInstance, BaseInv, OffIsClean, ReadFromNand, LoopAvoidsBase, SetKeepsBase, InLoop
<1>7. CASE PageAllocFail(p) \/ CheckAgain(p)
  <2>1. mem'[p][cur[p]] = mem[p][cur[p]] /\ Advance(p)
    BY <1>2, <1>7 DEF PageAllocFail, CheckAgain, Entry, BaseInv, TypeInv, TypeOK
  <2> QED BY <2>1, <1>1, <1>4, BaseAdvance
<1> QED BY <1>5, <1>6, <1>7 DEF Store

LEMMA BaseMark ==
  ASSUME OneInstance, BaseInv, NEW p \in Procs, Mark(p), TypeInv'
  PROVE  BaseInv'
<1>1. pc'[p] = "print"
  BY DEF Mark, ProgramOk, ProgramFail, Goto, BaseInv, TypeInv, TypeOK
<1> QED
  BY <1>1
     DEF OneInstance, BaseInv, OffIsClean, ReadFromNand, LoopAvoidsBase, SetKeepsBase, InLoop

LEMMA BaseSurroundings ==
  ASSUME BaseInv, PowerCut \/ BootLoader, TypeInv'
  PROVE  BaseInv'
<1>1. \A p \in Procs : pc'[p] = "off" /\ mem'[p] = NoMemory
  BY DEF PowerCut, BootLoader, BaseInv, OffIsClean, TypeInv, TypeOK
<1> QED
  BY <1>1 DEF BaseInv, OffIsClean, ReadFromNand, LoopAvoidsBase, SetKeepsBase, InLoop

LEMMA BaseStep == OneInstance /\ BaseInv /\ [Next]_vars => BaseInv'
<1> SUFFICES ASSUME OneInstance, BaseInv, [Next]_vars PROVE BaseInv'
  OBVIOUS
<1>1. TypeInv'
  BY TypeStep DEF BaseInv
<1>2. ASSUME NEW p \in Procs, Step(p) PROVE BaseInv'
  BY <1>1, <1>2, BaseScan, BaseDispatch, BaseUpdate, BaseStore, BaseFinish, BaseMark DEF Step
<1>3. CASE UNCHANGED vars
  BY <1>1, <1>3
     DEF vars, BaseInv, OffIsClean, ReadFromNand, LoopAvoidsBase, SetKeepsBase, InLoop, Nand
<1> QED
  BY <1>1, <1>2, <1>3, BaseStart, BaseSurroundings DEF Next

\* While one instance writes a new configuration, whatever blocks refuse and
\* whatever reads fail, the configuration it replaces stays on the NAND.
THEOREM BaseIsKept == OneInstance => (Spec => []SetKeepsBase)
<1> SUFFICES ASSUME OneInstance PROVE Spec => []SetKeepsBase
  OBVIOUS
<1>1. BaseInv => SetKeepsBase
  BY DEF BaseInv
<1>2. BaseInv /\ [Next]_vars => BaseInv'
  BY BaseStep
<1> QED BY <1>1, <1>2, BaseInit, PTL DEF Spec

-----------------------------------------------------------------------------
(* bc_ll_get_current: of a set of configurations one is in force.           *)
LEMMA LeastNumber ==
  ASSUME NEW T, T \subseteq Nat, T # {}
  PROVE  \E x \in T : \A y \in T : x <= y
<1>1. IsWellFoundedOn(OpToRel(<, Nat), Nat)
  BY NatLessThanWellFounded
<1>2. PICK x \in T : \A y \in T : ~(<<y, x>> \in OpToRel(<, Nat))
  BY <1>1, WFMin
<1>3. \A y \in T : ~(y < x)
  BY <1>2 DEF OpToRel
<1> QED BY <1>3

LEMMA CurrentFound ==
  ASSUME NEW N \in [Blocks -> BtBlock]
  PROVE  NoCurrent(N) \/ \E i \in Blocks : IsCurrent(N, i)
<1> SUFFICES ASSUME NEW h \in Blocks, HasConfig(N[h])
             PROVE  \E i \in Blocks : IsCurrent(N, i)
  BY DEF NoCurrent
<1> DEFINE Rest(i) == EpochMod - N[i].epoch
           Rests == {Rest(i) : i \in {j \in Blocks : HasConfig(N[j])}}
<1>1. \A i \in Blocks : N[i].epoch \in Nat /\ Rest(i) \in Nat
  <2>1. \A i \in Blocks : N[i].epoch \in 0 .. EpochMod - 1
    BY DEF BtBlock, Epochs
  <2> QED BY <2>1, EpochAssumption
<1>2. Rests \subseteq Nat /\ Rests # {}
  BY <1>1
<1>3. PICK r \in Rests : \A y \in Rests : r <= y
  BY <1>2, LeastNumber
<1> DEFINE Firsts == {i \in Blocks : HasConfig(N[i]) /\ Rest(i) = r}
<1>4. Firsts \subseteq Nat /\ Firsts # {}
  BY <1>3 DEF Blocks
<1>5. PICK i \in Firsts : \A y \in Firsts : i <= y
  BY <1>4, LeastNumber
<1>6. ASSUME NEW j \in Blocks, HasConfig(N[j])
      PROVE  N[j].epoch < N[i].epoch \/ (N[j].epoch = N[i].epoch /\ i <= j)
  <2>1. Rest(i) = r /\ r <= Rest(j)
    BY <1>3, <1>6
  <2>2. CASE Rest(j) = r
    <3>1. i <= j
      BY <1>5, <1>6, <2>2
    <3> QED BY <1>1, <2>1, <2>2, <3>1, EpochAssumption
  <2>3. CASE Rest(j) # r
    BY <1>1, <2>1, <2>3, EpochAssumption
  <2> QED BY <2>2, <2>3
<1> QED BY <1>5, <1>6 DEF IsCurrent

(* No two blocks are in force. *)
LEMMA CurrentUnique ==
  ASSUME NEW N \in [Blocks -> BtBlock], NEW i \in Blocks, NEW j \in Blocks,
         IsCurrent(N, i), IsCurrent(N, j)
  PROVE  i = j
<1>1. N[i].epoch \in Int /\ N[j].epoch \in Int /\ i \in Int /\ j \in Int
  BY BlocksInt DEF BtBlock, Epochs
<1> QED BY <1>1 DEF IsCurrent

Shown(b) == [kernel |-> b.kernel, rootfs |-> b.rootfs]

LEMMA ConfigIs ==
  ASSUME NEW N \in [Blocks -> BtBlock]
  PROVE  /\ NoCurrent(N) => Config(N) = {}
         /\ \A i \in Blocks : IsCurrent(N, i) => Config(N) = {Shown(N[i])}
<1>1. NoCurrent(N) => Config(N) = {}
  BY DEF NoCurrent, Config, IsCurrent
<1>2. ASSUME NEW i \in Blocks, IsCurrent(N, i) PROVE Config(N) = {Shown(N[i])}
  <2>1. {j \in Blocks : IsCurrent(N, j)} = {i}
    BY <1>2, CurrentUnique
  <2> QED BY <2>1 DEF Config, Shown
<1> QED BY <1>1, <1>2

(* The page of a healthy command differs from the one below it in one flag. *)
LEMMA MarkedPage ==
  ASSUME NEW x \in BtBlock, x.magic = "Boot", NEW which
  PROVE  Programmed(x, ClearHealthy(x, which)) = ClearHealthy(x, which)
<1> DEFINE y == ClearHealthy(x, which)
<1>1. /\ y \in BtBlock /\ y.magic = x.magic /\ y.epoch = x.epoch
      /\ y.kernel.partition = x.kernel.partition /\ y.rootfs.partition = x.rootfs.partition
  BY ClearType DEF ClearHealthy, BtBlock, Info
<1>2. ASSUME NEW a \in Info, NEW c \in Info, a.partition = c.partition,
             a.n_booted = c.n_booted, a.n_healthy = c.n_healthy \/ a.n_healthy = 0
      PROVE  BothFlags(a, c) = a
  BY <1>2 DEF BothFlags, And, Info, Bit
<1>3. x.kernel \in Info /\ x.rootfs \in Info /\ y.kernel \in Info /\ y.rootfs \in Info
  BY <1>1 DEF BtBlock
<1>4. /\ y.kernel.n_booted = x.kernel.n_booted /\ y.rootfs.n_booted = x.rootfs.n_booted
      /\ y.kernel.n_healthy = x.kernel.n_healthy \/ y.kernel.n_healthy = 0
      /\ y.rootfs.n_healthy = x.rootfs.n_healthy \/ y.rootfs.n_healthy = 0
  BY DEF ClearHealthy, BtBlock, Info
<1> HIDE DEF y
<1>5. BothFlags(y.kernel, x.kernel) = y.kernel /\ BothFlags(y.rootfs, x.rootfs) = y.rootfs
  BY <1>1, <1>2, <1>3, <1>4
<1>6. SameButFlags(x, y)
  BY <1>1 DEF SameButFlags
<1>7. Programmed(x, y) = [y EXCEPT !.kernel = y.kernel, !.rootfs = y.rootfs]
  BY <1>5, <1>6 DEF Programmed, BtBlock
<1>8. [y EXCEPT !.kernel = y.kernel, !.rootfs = y.rootfs] = y
  BY <1>1 DEF BtBlock
<1>9. Programmed(x, y) = y
  BY <1>7, <1>8
<1> QED BY <1>9 DEF y

-----------------------------------------------------------------------------
(* An instance that no other one disturbs, with no read that fails and an   *)
(* epoch that does not wrap.                                                *)

Alone(p) == \A q \in Procs \ {p} : pc[q] = "off"
Resting == \A p \in Procs : pc[p] = "off" => mem[p] = NoMemory /\ scan[p] = 0

CommandOf(p) ==
  /\ pc[p] \in {"reread", "main_reread"} => cmd[p].op = "set"
  /\ pc[p] = "program" => cmd[p].op = "healthy"

\* The scan has found every configuration below scan[p], and nothing else.
Scanned(p) ==
  pc[p] \in {"init", "dispatch"} =>
    \A b \in Blocks :
      /\ HasConfig(mem[p][b]) => mem[p][b] = Nand[b]
      /\ HasConfig(Nand[b]) /\ (b < scan[p] \/ pc[p] = "dispatch") => mem[p][b] = Nand[b]

EpochLeft(p) ==
  pc[p] \in {"init", "dispatch"} /\ cmd[p].op = "set" =>
    \A b \in Blocks : flash[b].epoch < EpochLimit

\* What a set copies from: the current configuration or the dummy.
Source(p) == IF HasConfig(Nand[cur[p]]) THEN Nand[cur[p]] ELSE Dummy
Based(p) ==
  InLoop(p) => mem[p][cur[p]] = Source(p) /\ Source(p).epoch < EpochLimit
Beside(p) == pc[p] \in {"update", "erase", "write", "check"} => new[p] # cur[p]

\* The block b holds nothing newer than the source of the set.
IsOld(p, b) ==
  \/ Nand[b].epoch < Source(p).epoch
  \/ Nand[b].epoch = Source(p).epoch /\ cur[p] <= b
OldOrNew(p) ==
  InLoop(p) =>
    \A b \in Blocks : HasConfig(Nand[b]) => Nand[b] = UpdateEntry(p) \/ IsOld(p, b)

Writing(p) ==
  /\ pc[p] \in {"erase", "write"} => new[p] \notin bad /\ mem[p][new[p]] = UpdateEntry(p)
  /\ pc[p] = "write" => flash[new[p]] = Blank
Marking(p) ==
  pc[p] = "program" =>
    /\ IsCurrent(Nand, cur[p])
    /\ mem[p][cur[p]] = ClearHealthy(Nand[cur[p]], cmd[p].which)

\* The blocks between the source and the block in hand, which the loop has
\* left behind: only they may hold the new configuration already.
Between(c, n, b) == IF c < n THEN c < b /\ b < n ELSE c < b \/ b < n
Behind(p, b) == Between(cur[p], new[p], b)
NewIsBehind(p) ==
  pc[p] \in {"update", "erase", "write", "check"} =>
    \A b \in Blocks :
      Nand[b] = UpdateEntry(p) => Behind(p, b) \/ (pc[p] = "check" /\ b = new[p])

SoloInv(p) ==
  /\ CommandOf(p) /\ Scanned(p) /\ EpochLeft(p)
  /\ Based(p) /\ Beside(p) /\ OldOrNew(p) /\ Writing(p) /\ NewIsBehind(p)
  /\ Marking(p)
  /\ SetTookEffect(p) /\ HealthyTookEffect(p)

\* What the theorems about undisturbed instances suppose: no read of a good
\* block fails, and the epochs do not come round.
ReadsAndEpochsLast == "read" \notin Faults /\ EpochLimit < EpochMod

LEMMA NandType ==
  /\ TypeOK => Nand \in [Blocks -> BtBlock]
  /\ TypeOK' => Nand' \in [Blocks -> BtBlock]
<1>1. Zeroed \in BtBlock /\ [Zeroed EXCEPT !.magic = "BAD!"] \in BtBlock
  BY DummyType, MagicType DEF Zeroed
<1> QED BY <1>1 DEF Nand, TypeOK

\* An instance that is not running has no duties.
LEMMA SoloOff ==
  ASSUME NEW p \in Procs
  PROVE  /\ pc[p] = "off" => SoloInv(p)
         /\ pc'[p] = "off" => SoloInv(p)'
BY DEF SoloInv, CommandOf, Scanned, EpochLeft, InLoop, Based, Beside, OldOrNew, Writing,
       NewIsBehind, Marking, SetTookEffect, HealthyTookEffect

LEMMA NextIs ==
  ASSUME NEW n \in Blocks
  PROVE  (n + 1) % EbCnt = IF n + 1 = EbCnt THEN 0 ELSE n + 1
BY GeometryAssumption DEF Blocks

\* What the loop has left behind stays behind when it takes the next block.
LEMMA BetweenNext ==
  ASSUME NEW c \in Blocks, NEW n \in Blocks, NEW b \in Blocks, n # c,
         (n + 1) % EbCnt # c, Between(c, n, b) \/ b = n
  PROVE  Between(c, (n + 1) % EbCnt, b)
<1>1. n \in Nat /\ c \in Nat /\ b \in Nat /\ n < EbCnt /\ c < EbCnt /\ b < EbCnt /\ EbCnt \in Nat
  BY GeometryAssumption DEF Blocks
<1>2. CASE n + 1 = EbCnt
  <2>1. (n + 1) % EbCnt = 0 /\ c # 0
    BY <1>2, NextIs
  <2> QED BY <2>1, <1>1, <1>2 DEF Between
<1>3. CASE n + 1 # EbCnt
  <2>1. (n + 1) % EbCnt = n + 1 /\ n + 1 # c
    BY <1>3, NextIs
  <2> QED BY <2>1, <1>1, <1>3 DEF Between
<1> QED BY <1>2, <1>3

LEMMA UpdatedFacts ==
  ASSUME NEW old \in BtBlock, NEW which, NEW p \in Partitions,
         old.epoch < EpochLimit, EpochLimit < EpochMod
  PROVE  /\ Updated(old, which, p).epoch = old.epoch + 1
         /\ HasConfig(Updated(old, which, p))
<1>1. old.epoch \in Nat /\ (old.epoch + 1) % EpochMod = old.epoch + 1
  <2>1. old.epoch \in 0 .. EpochMod - 1
    BY DEF BtBlock, Epochs
  <2> QED BY <2>1, EpochAssumption
<1>2. /\ Updated(old, which, p).epoch = (old.epoch + 1) % EpochMod
      /\ Updated(old, which, p).magic = "Boot"
  BY DEF Updated, BtBlock
<1> QED BY <1>1, <1>2 DEF HasConfig

\* The entry a set prepares is newer than everything else on the NAND.
LEMMA EntryIsNewer ==
  ASSUME ReadsAndEpochsLast, TypeInv, NEW p \in Procs, InLoop(p), Based(p)
  PROVE  /\ UpdateEntry(p) \in BtBlock /\ HasConfig(UpdateEntry(p))
         /\ UpdateEntry(p) = Updated(Source(p), cmd[p].which, cmd[p].part)
         /\ UpdateEntry(p).epoch = Source(p).epoch + 1
         /\ Source(p).epoch \in Nat
         /\ \A b \in Blocks :
              Nand[b].epoch \in Nat /\ (IsOld(p, b) => Nand[b].epoch < UpdateEntry(p).epoch)
<1>1. /\ mem[p][cur[p]] \in BtBlock /\ cmd[p].part \in Partitions
      /\ mem[p][cur[p]] = Source(p) /\ Source(p).epoch < EpochLimit
  BY DEF TypeInv, TypeOK, LoopCommand, Based
<1>2. UpdateEntry(p) = Updated(Source(p), cmd[p].which, cmd[p].part)
  BY <1>1 DEF UpdateEntry
<1>3. /\ UpdateEntry(p) \in BtBlock /\ HasConfig(UpdateEntry(p))
      /\ UpdateEntry(p).epoch = Source(p).epoch + 1
  BY <1>1, <1>2, UpdatedType, UpdatedFacts DEF ReadsAndEpochsLast
<1>4. \A x \in BtBlock : x.epoch \in Nat
  BY EpochAssumption DEF BtBlock, Epochs
<1>5. \A b \in Blocks : Nand[b].epoch \in Nat
  BY <1>4, NandType DEF TypeInv
<1>6. Source(p).epoch \in Nat
  BY <1>1, <1>4
<1>7. ASSUME NEW b \in Blocks, IsOld(p, b) PROVE Nand[b].epoch < UpdateEntry(p).epoch
  BY <1>3, <1>5, <1>6, <1>7 DEF IsOld
<1> QED BY <1>2, <1>3, <1>5, <1>6, <1>7

\* A loop that leaves its source alone and writes nothing but its own entry
\* keeps what is known of the blocks.
LEMMA LoopKeeps ==
  ASSUME NEW p \in Procs, InLoop(p), Based(p), OldOrNew(p), UNCHANGED <<cur, cmd>>,
         mem'[p][cur[p]] = mem[p][cur[p]], Nand'[cur[p]] = Nand[cur[p]],
         \A b \in Blocks : \/ Nand'[b] = Nand[b]
                           \/ ~HasConfig(Nand'[b])
                           \/ Nand'[b] = UpdateEntry(p)
  PROVE  /\ Source(p)' = Source(p) /\ UpdateEntry(p)' = UpdateEntry(p)
         /\ Based(p)' /\ OldOrNew(p)'
<1>1. Source(p)' = Source(p) /\ UpdateEntry(p)' = UpdateEntry(p)
  BY DEF Source, UpdateEntry
<1>2. Based(p)'
  BY <1>1 DEF Based
<1>3. ASSUME NEW b \in Blocks, HasConfig(Nand'[b])
      PROVE  Nand'[b] = UpdateEntry(p) \/ IsOld(p, b)'
  BY <1>1, <1>3 DEF OldOrNew, IsOld
<1> QED BY <1>1, <1>2, <1>3 DEF OldOrNew

LEMMA SoloStart ==
  ASSUME TypeInv, Resting, NEW p \in Procs, NEW c \in Issued, Start(p, c)
  PROVE  SoloInv(p)'
<1>1. pc'[p] = "init" /\ mem'[p] = NoMemory /\ scan'[p] = 0 /\ cmd'[p] = c
  BY DEF Start, Goto, TypeInv, TypeOK, Resting
<1>2. Scanned(p)'
  BY <1>1, NoConfigInZeroed, BlocksInt DEF Scanned, Blocks
<1>3. EpochLeft(p)'
  BY <1>1 DEF EpochLeft, Start
<1> QED
  BY <1>1, <1>2, <1>3
     DEF SoloInv, CommandOf, InLoop, Based, Beside, OldOrNew, Writing, NewIsBehind, Marking,
         SetTookEffect, HealthyTookEffect

LEMMA SoloScan ==
  ASSUME ReadsAndEpochsLast, TypeInv, NEW p \in Procs, SoloInv(p), Scan(p)
  PROVE  SoloInv(p)'
<1>1. /\ pc[p] \in {"init", "reread", "main_reread"} /\ scan[p] \in Blocks
      /\ UNCHANGED <<flash, bad, pc, cmd, cur, new, ret>>
  BY GeometryAssumption
     DEF Scan, ScanBad, ScanRead, ScanFail, Scanning, ScanNext, Blocks, TypeInv, TypeOK
<1>2. Nand' = Nand
  BY <1>1 DEF Nand
<1>3. /\ mem \in [Procs -> [Blocks -> BtBlock]] /\ mem[p] \in [Blocks -> BtBlock]
      /\ scan'[p] = scan[p] + 1
  BY DEF TypeInv, TypeOK, Scan, ScanBad, ScanRead, ScanFail, ScanNext
<1>4. ASSUME NEW b \in Blocks, b # scan[p] PROVE mem'[p][b] = mem[p][b]
  BY <1>1, <1>3, <1>4 DEF Scan, ScanBad, ScanRead, ScanFail, Entry
<1>5. \/ mem'[p][scan[p]] = Nand[scan[p]]
      \/ ~HasConfig(Nand[scan[p]]) /\ ~HasConfig(mem'[p][scan[p]])
      \/ ~HasConfig(Nand[scan[p]]) /\ mem'[p][scan[p]] = mem[p][scan[p]]
  <2>1. CASE ScanBad(p)
    <3>1. mem'[p][scan[p]] = [mem[p][scan[p]] EXCEPT !.magic = "BAD!"]
      BY <1>1, <1>3, <2>1 DEF ScanBad, Entry
    <3>2. mem[p][scan[p]] \in BtBlock /\ scan[p] \in bad
      BY <1>1, <1>3, <2>1 DEF ScanBad
    <3>3. ~HasConfig(mem'[p][scan[p]])
      BY <3>1, <3>2 DEF HasConfig, BtBlock
    <3>4. ~HasConfig(Nand[scan[p]])
      BY <1>1, <3>2 DEF Nand, HasConfig, Zeroed, Dummy
    <3> QED BY <3>3, <3>4
  <2>2. CASE ScanRead(p)
    BY <1>1, <1>3, <2>2 DEF ScanRead, Nand
  <2>3. CASE ScanFail(p)
    <3>1. scan[p] \in bad \/ flash[scan[p]].magic = "ecc!"
      BY <2>3 DEF ScanFail, ReadsAndEpochsLast
    <3>2. ~HasConfig(Nand[scan[p]])
      BY <1>1, <3>1 DEF Nand, HasConfig, Zeroed, Dummy
    <3> QED BY <2>3, <3>2 DEF ScanFail
  <2> QED BY <2>1, <2>2, <2>3 DEF Scan
<1>6. Scanned(p)'
  <2> SUFFICES ASSUME pc[p] = "init", NEW b \in Blocks
               PROVE  /\ HasConfig(mem'[p][b]) => mem'[p][b] = Nand[b]
                      /\ HasConfig(Nand[b]) /\ b < scan[p] + 1 => mem'[p][b] = Nand[b]
    BY <1>1, <1>2, <1>3 DEF Scanned
  <2>1. /\ HasConfig(mem[p][b]) => mem[p][b] = Nand[b]
        /\ HasConfig(Nand[b]) /\ b < scan[p] => mem[p][b] = Nand[b]
    BY DEF SoloInv, Scanned
  <2>2. CASE b = scan[p]
    BY <1>5, <2>1, <2>2
  <2>3. CASE b # scan[p]
    <3>1. b \in Int /\ scan[p] \in Int
      BY <1>1, BlocksInt
    <3>2. b < scan[p] + 1 => b < scan[p]
      BY <2>3, <3>1
    <3> QED BY <1>4, <2>1, <2>3, <3>2
  <2> QED BY <2>2, <2>3
<1>7. EpochLeft(p)' /\ CommandOf(p)'
  BY <1>1 DEF SoloInv, EpochLeft, CommandOf
<1>8. SetTookEffect(p)' /\ HealthyTookEffect(p)'
  BY <1>1, <1>2 DEF SoloInv, SetTookEffect, HealthyTookEffect
<1> QED
  BY <1>1, <1>6, <1>7, <1>8
     DEF SoloInv, InLoop, Based, Beside, OldOrNew, Writing, NewIsBehind, Marking

LEMMA SoloFinish ==
  ASSUME TypeInv, NEW p \in Procs, SoloInv(p), Finish(p)
  PROVE  SoloInv(p)'
<1>1. UNCHANGED nand /\ Nand' = Nand
  BY DEF Finish, InitDone, RereadDone, MainRereadDone, SetFailed, PrintConfig, Exit, nand, Nand
<1>2. CASE pc'[p] = "off"
  BY <1>2, SoloOff
<1>3. CASE InitDone(p) /\ pc'[p] = "dispatch"
  <2>1. scan[p] = EbCnt /\ pc[p] = "init" /\ UNCHANGED <<flash, cmd, mem>>
    BY <1>3 DEF InitDone, Exit, Goto, TypeInv, TypeOK
  <2>2. \A b \in Blocks : b < scan[p]
    BY <2>1, GeometryAssumption DEF Blocks
  <2>3. Scanned(p)'
    BY <1>1, <1>3, <2>1, <2>2 DEF SoloInv, Scanned
  <2>4. EpochLeft(p)'
    BY <2>1 DEF SoloInv, EpochLeft
  <2> QED
    BY <1>3, <2>3, <2>4
       DEF SoloInv, CommandOf, InLoop, Based, Beside, OldOrNew, Writing, NewIsBehind, Marking,
           SetTookEffect, HealthyTookEffect
<1>4. CASE RereadDone(p) \/ MainRereadDone(p)
  <2>1. /\ pc[p] \in {"reread", "main_reread"} /\ pc'[p] \in {"main_reread", "print"}
        /\ UNCHANGED <<cmd, cur, ret>>
    BY <1>4 DEF RereadDone, MainRereadDone, Goto, TypeInv, TypeOK
  <2>2. cmd[p].op = "set" /\ cmd'[p].op = "set"
    BY <2>1 DEF SoloInv, CommandOf
  <2>3. SetTookEffect(p)'
    BY <1>1, <2>1 DEF SoloInv, SetTookEffect
  <2> QED
    BY <2>1, <2>2, <2>3
       DEF SoloInv, CommandOf, Scanned, EpochLeft, InLoop, Based, Beside, OldOrNew, Writing,
           NewIsBehind, Marking, HealthyTookEffect
<1>5. CASE SetFailed(p)
  <2>1. pc'[p] = "main_reread" /\ ret'[p] = -1 /\ cmd'[p].op = "set"
    BY <1>5 DEF SetFailed, Goto, TypeInv, TypeOK, LoopCommand, InLoop
  <2> QED
    BY <2>1
       DEF SoloInv, CommandOf, Scanned, EpochLeft, InLoop, Based, Beside, OldOrNew, Writing,
           NewIsBehind, Marking, SetTookEffect, HealthyTookEffect
<1>6. pc'[p] = "off" \/ (InitDone(p) /\ pc'[p] = "dispatch") \/ RereadDone(p)
        \/ MainRereadDone(p) \/ SetFailed(p)
  BY DEF Finish, InitDone, PrintConfig, Exit, Goto, TypeInv, TypeOK
<1> QED BY <1>2, <1>3, <1>4, <1>5, <1>6

\* At dispatch memory and NAND name the same current block.
LEMMA ScanIsTrue ==
  ASSUME TypeInv, NEW p \in Procs, SoloInv(p), pc[p] = "dispatch"
  PROVE  /\ \A b \in Blocks : HasConfig(mem[p][b]) <=> HasConfig(Nand[b])
         /\ \A b \in Blocks : HasConfig(Nand[b]) => mem[p][b] = Nand[b]
         /\ \A c \in Blocks : IsCurrent(mem[p], c) <=> IsCurrent(Nand, c)
         /\ NoCurrent(mem[p]) <=> NoCurrent(Nand)
<1>1. \A b \in Blocks : HasConfig(mem[p][b]) <=> HasConfig(Nand[b])
  BY DEF SoloInv, Scanned
<1>2. \A b \in Blocks : HasConfig(Nand[b]) => mem[p][b] = Nand[b]
  BY DEF SoloInv, Scanned
<1>3. \A c \in Blocks : IsCurrent(mem[p], c) <=> IsCurrent(Nand, c)
  BY <1>1, <1>2 DEF IsCurrent
<1>4. NoCurrent(mem[p]) <=> NoCurrent(Nand)
  BY <1>1 DEF NoCurrent
<1> QED BY <1>1, <1>2, <1>3, <1>4

\* bc_ll_set_partition enters its loop with the block it copies from.
LEMMA SoloEnter ==
  ASSUME ReadsAndEpochsLast, TypeInv, NEW p \in Procs, NEW c \in Blocks,
         pc[p] = "dispatch", cmd[p].op = "set", cmd[p].part \in Partitions,
         EnterLoop(p, c), TypeInv',
         mem'[p][c] = IF HasConfig(Nand[c]) THEN Nand[c] ELSE Dummy,
         mem'[p][c].epoch < EpochLimit,
         \A b \in Blocks : HasConfig(Nand[b]) =>
           \/ Nand[b].epoch < mem'[p][c].epoch
           \/ Nand[b].epoch = mem'[p][c].epoch /\ c <= b
  PROVE  SoloInv(p)'
<1>1. /\ cur'[p] = c /\ new'[p] = (c + 1) % EbCnt /\ UNCHANGED <<flash, bad, cmd>>
      /\ pc'[p] = "failed" \/ (pc'[p] = "update" /\ new'[p] # c)
  BY DEF EnterLoop, Goto, TypeInv, TypeOK
<1>2. Nand' = Nand
  BY <1>1 DEF Nand
<1>3. Source(p)' = mem'[p][c]
  BY <1>1, <1>2 DEF Source
<1>4. InLoop(p)'
  BY <1>1 DEF InLoop
<1>5. Based(p)'
  BY <1>1, <1>3 DEF Based
<1>6. \A b \in Blocks : HasConfig(Nand[b]) => IsOld(p, b)'
  BY <1>1, <1>2, <1>3 DEF IsOld
<1>7. OldOrNew(p)'
  BY <1>2, <1>6 DEF OldOrNew
<1>8. \A b \in Blocks : Nand'[b] # UpdateEntry(p)'
  <2>1. mem'[p][c] \in BtBlock
    BY DEF TypeInv, TypeOK
  <2>2. UpdateEntry(p)' = Updated(mem'[p][c], cmd[p].which, cmd[p].part)
    BY <1>1 DEF UpdateEntry
  <2>3. /\ UpdateEntry(p)'.epoch = mem'[p][c].epoch + 1 /\ HasConfig(UpdateEntry(p)')
        /\ mem'[p][c].epoch \in Nat
    <3>1. mem'[p][c].epoch \in Nat
      BY <2>1, EpochAssumption DEF BtBlock, Epochs
    <3> QED BY <2>1, <2>2, <3>1, UpdatedFacts DEF ReadsAndEpochsLast
  <2>4. ASSUME NEW b \in Blocks, Nand[b] = UpdateEntry(p)' PROVE FALSE
    BY <2>3, <2>4
  <2> QED BY <1>2, <2>4
<1>9. NewIsBehind(p)'
  BY <1>8 DEF NewIsBehind
<1> QED
  BY <1>1, <1>5, <1>7, <1>9
     DEF SoloInv, CommandOf, Scanned, EpochLeft, Beside, Writing, Marking,
         SetTookEffect, HealthyTookEffect

LEMMA SoloDispatch ==
  ASSUME ReadsAndEpochsLast, TypeInv, NEW p \in Procs, SoloInv(p), Dispatch(p), TypeInv'
  PROVE  SoloInv(p)'
<1>1. pc[p] = "dispatch" /\ mem \in [Procs -> [Blocks -> BtBlock]] /\ mem[p] \in [Blocks -> BtBlock]
  BY DEF Dispatch, DispatchShow, DispatchIllegal, DispatchSet, DispatchHealthy, TypeInv, TypeOK
<1>2. CASE DispatchShow(p)
  <2>1. pc'[p] = "print" /\ cmd'[p].op = "show"
    BY <1>2 DEF DispatchShow, Goto, TypeInv, TypeOK
  <2> QED
    BY <2>1
       DEF SoloInv, CommandOf, Scanned, EpochLeft, InLoop, Based, Beside, OldOrNew, Writing,
           NewIsBehind, Marking, SetTookEffect, HealthyTookEffect
<1>3. CASE DispatchIllegal(p)
  <2>1. pc'[p] = "off"
    BY <1>3 DEF DispatchIllegal, Exit, Goto, TypeInv, TypeOK
  <2> QED BY <2>1, SoloOff
<1>4. CASE DispatchSet(p)
  <2>1. cmd[p].op = "set" /\ cmd[p].part \in Partitions
    <3>1. cmd[p] \in Commands
      BY DEF TypeInv, TypeOK
    <3> QED BY <1>4, <3>1 DEF DispatchSet, Commands, Partitions, IllegalPartition
  <2>2. \A b \in Blocks : Nand[b].epoch < EpochLimit
    <3>1. \A b \in Blocks : flash[b].epoch < EpochLimit
      BY <1>1, <2>1 DEF SoloInv, EpochLeft
    <3>2. \A b \in Blocks : flash[b].epoch \in Nat
      BY EpochAssumption DEF TypeInv, TypeOK, BtBlock, Epochs
    <3>3. 0 < EpochLimit
      BY <3>1, <3>2, BlocksInt, EpochAssumption
    <3> QED BY <3>1, <3>3 DEF Nand, Zeroed, Dummy
  <2>3. ASSUME NEW c \in Blocks, IsCurrent(mem[p], c), EnterLoop(p, c), UNCHANGED mem
        PROVE  SoloInv(p)'
    <3>1. IsCurrent(Nand, c) /\ mem[p][c] = Nand[c]
      BY <1>1, <2>3, ScanIsTrue DEF IsCurrent
    <3> QED BY <1>1, <2>1, <2>2, <2>3, <3>1, SoloEnter DEF IsCurrent
  <2>4. ASSUME NoCurrent(mem[p]), EnterLoop(p, EbCnt - 1),
               mem' = [mem EXCEPT ![p][EbCnt - 1] = Dummy]
        PROVE  SoloInv(p)'
    <3>1. mem'[p][EbCnt - 1] = Dummy /\ EbCnt - 1 \in Blocks
      BY <1>1, <2>4, BlocksInt
    <3>2. \A b \in Blocks : ~HasConfig(Nand[b])
      BY <1>1, <2>4, ScanIsTrue DEF NoCurrent
    <3>3. Dummy.epoch < EpochLimit
      <4>1. 0 \in Blocks /\ Nand[0].epoch < EpochLimit /\ Nand[0].epoch \in Nat
        BY <2>2, BlocksInt, NandType, EpochAssumption DEF BtBlock, Epochs, TypeInv
      <4> QED BY <4>1, EpochAssumption DEF Dummy
    <3> QED BY <1>1, <2>1, <2>4, <3>1, <3>2, <3>3, SoloEnter
  <2> QED BY <1>4, <2>3, <2>4 DEF DispatchSet
<1>5. CASE DispatchHealthy(p)
  <2>1. cmd[p].op = "healthy" /\ UNCHANGED <<flash, bad, cmd, new, scan, sound, ret>>
    BY <1>5 DEF DispatchHealthy
  <2>2. Nand' = Nand
    BY <2>1 DEF Nand
  <2>3. ASSUME NEW c \in Blocks, IsCurrent(mem[p], c), cur' = [cur EXCEPT ![p] = c],
               mem' = [mem EXCEPT ![p][c] = ClearHealthy(@, cmd[p].which)],
               Goto(p, "program")
        PROVE  SoloInv(p)'
    <3>1. IsCurrent(Nand, c) /\ mem[p][c] = Nand[c]
      BY <1>1, <2>3, ScanIsTrue DEF IsCurrent
    <3>2. pc'[p] = "program" /\ cur'[p] = c /\ mem'[p][c] = ClearHealthy(Nand[c], cmd[p].which)
      BY <1>1, <2>3, <3>1 DEF Goto, TypeInv, TypeOK
    <3> QED
      BY <2>1, <2>2, <3>1, <3>2
         DEF SoloInv, CommandOf, Scanned, EpochLeft, InLoop, Based, Beside, OldOrNew, Writing,
             NewIsBehind, Marking, SetTookEffect, HealthyTookEffect
  <2>4. ASSUME Goto(p, "print"),
               \A i \in Blocks : IsCurrent(Nand, i) => Flag(Nand[i], cmd[p].which) = 0
        PROVE  SoloInv(p)'
    <3>1. pc'[p] = "print"
      BY <2>4 DEF Goto, TypeInv, TypeOK
    <3>2. HealthyTookEffect(p)'
      BY <2>1, <2>2, <2>4 DEF HealthyTookEffect
    <3> QED
      BY <2>1, <3>1, <3>2
         DEF SoloInv, CommandOf, Scanned, EpochLeft, InLoop, Based, Beside, OldOrNew, Writing,
             NewIsBehind, Marking, SetTookEffect
  <2>5. ASSUME NEW c \in Blocks, IsCurrent(mem[p], c), Flag(mem[p][c], cmd[p].which) # 1
        PROVE  \A i \in Blocks : IsCurrent(Nand, i) => Flag(Nand[i], cmd[p].which) = 0
    <3>1. IsCurrent(Nand, c) /\ mem[p][c] = Nand[c] /\ Nand \in [Blocks -> BtBlock]
      BY <1>1, <2>5, ScanIsTrue, NandType DEF IsCurrent, TypeInv
    <3>2. Flag(Nand[c], cmd[p].which) = 0
      BY <2>5, <3>1 DEF Flag, BtBlock, Info, Bit
    <3>3. \A i \in Blocks : IsCurrent(Nand, i) => i = c
      BY <3>1, CurrentUnique
    <3> QED BY <3>2, <3>3
  <2>6. ASSUME NoCurrent(mem[p])
        PROVE  \A i \in Blocks : ~IsCurrent(Nand, i)
    BY <1>1, <2>6, ScanIsTrue DEF NoCurrent, IsCurrent
  <2> QED BY <1>5, <2>3, <2>4, <2>5, <2>6 DEF DispatchHealthy
<1> QED BY <1>2, <1>3, <1>4, <1>5 DEF Dispatch

\* The loop takes the next block: the one in hand is left behind.
LEMMA SoloAdvance ==
  ASSUME TypeInv, NEW p \in Procs, SoloInv(p), pc[p] \in {"update", "write", "check"},
         Advance(p), Nand' = Nand, UNCHANGED <<cur, cmd>>,
         mem'[p][cur[p]] = mem[p][cur[p]]
  PROVE  SoloInv(p)'
<1>1. InLoop(p) /\ cur[p] \in Blocks /\ new[p] \in Blocks /\ new[p] # cur[p]
  BY DEF InLoop, SoloInv, Beside, TypeInv, TypeOK
<1>2. UpdateEntry(p)' = UpdateEntry(p) /\ Based(p)' /\ OldOrNew(p)'
  BY <1>1, LoopKeeps DEF SoloInv
<1>3. /\ new'[p] = (new[p] + 1) % EbCnt
      /\ pc'[p] = "failed" \/ (pc'[p] = "update" /\ new'[p] # cur[p])
  BY DEF Advance, Goto, TypeInv, TypeOK
<1>4. NewIsBehind(p)'
  <2> SUFFICES ASSUME new'[p] # cur[p], NEW b \in Blocks, Nand[b] = UpdateEntry(p)
               PROVE  Between(cur[p], new'[p], b)
    BY <1>2, <1>3 DEF NewIsBehind, Behind
  <2>1. Between(cur[p], new[p], b) \/ b = new[p]
    BY <1>1 DEF SoloInv, NewIsBehind, Behind
  <2> QED BY <1>1, <1>3, <2>1, BetweenNext
<1> QED
  BY <1>2, <1>3, <1>4
     DEF SoloInv, CommandOf, Scanned, EpochLeft, Beside, Writing, Marking,
         SetTookEffect, HealthyTookEffect

LEMMA SoloUpdate ==
  ASSUME TypeInv, NEW p \in Procs, SoloInv(p), Update(p)
  PROVE  SoloInv(p)'
<1>1. pc[p] = "update" /\ UNCHANGED <<flash, bad, cur, cmd>>
  BY DEF Update, UpdateSkip, UpdateGood, UpdateBad, UpdateUnknown
<1>2. new[p] # cur[p] /\ new[p] \in Blocks /\ cur[p] \in Blocks
  BY <1>1 DEF SoloInv, Beside, TypeInv, TypeOK
<1>3. mem'[p][cur[p]] = mem[p][cur[p]]
  BY <1>2 DEF Update, UpdateSkip, UpdateGood, UpdateBad, UpdateUnknown, TypeInv, TypeOK
<1>4. Nand' = Nand
  BY <1>1 DEF Nand
<1>5. CASE Advance(p)
  BY <1>1, <1>3, <1>4, <1>5, SoloAdvance
<1>6. CASE UpdateGood(p)
  <2>1. /\ pc'[p] = "erase" /\ new[p] \notin bad /\ UNCHANGED new
        /\ mem'[p][new[p]] = UpdateEntry(p)
    BY <1>2, <1>6 DEF UpdateGood, Goto, TypeInv, TypeOK
  <2>2. UpdateEntry(p)' = UpdateEntry(p) /\ Based(p)' /\ OldOrNew(p)'
    BY <1>1, <1>3, <1>4, LoopKeeps DEF SoloInv, InLoop
  <2>3. NewIsBehind(p)' /\ Writing(p)' /\ Beside(p)'
    BY <1>1, <1>2, <1>4, <2>1, <2>2 DEF SoloInv, NewIsBehind, Behind, Writing, Beside
  <2> QED
    BY <2>1, <2>2, <2>3
       DEF SoloInv, CommandOf, Scanned, EpochLeft, Marking, SetTookEffect, HealthyTookEffect
<1> QED BY <1>5, <1>6 DEF Update, UpdateSkip, UpdateBad, UpdateUnknown

\* What an erase, a write or an in-place program does to the NAND, complete or
\* torn: no other block changes, and the one it works on holds what it held,
\* what it should hold, or no configuration.
Stores(p, torn) ==
  \/ Nand' = Nand
  \/ /\ pc[p] \in {"erase", "write"}
     /\ \A b \in Blocks \ {new[p]} : Nand'[b] = Nand[b]
     /\ ~HasConfig(Nand'[new[p]]) \/ (pc[p] = "write" /\ Nand'[new[p]] = UpdateEntry(p))
  \/ /\ pc[p] = "program"
     /\ \A b \in Blocks \ {cur[p]} : Nand'[b] = Nand[b]
     /\ \/ Nand'[cur[p]] = ClearHealthy(Nand[cur[p]], cmd[p].which)
        \/ torn /\ ~HasConfig(Nand'[cur[p]])

\* What the page under the operation holds before it, and after it.
LEMMA PageFacts ==
  ASSUME TypeInv, NEW p \in Procs, SoloInv(p)
  PROVE  /\ pc[p] = "write" =>
              Programmed(flash[new[p]], mem[p][new[p]]) = UpdateEntry(p)
         /\ pc[p] = "program" =>
              /\ flash[cur[p]] = Nand[cur[p]] /\ cur[p] \notin bad
              /\ Programmed(flash[cur[p]], mem[p][cur[p]])
                   = ClearHealthy(Nand[cur[p]], cmd[p].which)
              /\ ClearHealthy(Nand[cur[p]], cmd[p].which).magic = "Boot"
<1>1. CASE pc[p] = "write"
  BY <1>1 DEF SoloInv, Writing, Programmed, Blank, Dummy
<1>2. CASE pc[p] = "program"
  <2>1. /\ cur[p] \in Blocks /\ HasConfig(Nand[cur[p]])
        /\ mem[p][cur[p]] = ClearHealthy(Nand[cur[p]], cmd[p].which)
    BY <1>2 DEF SoloInv, Marking, IsCurrent, TypeInv, TypeOK
  <2>2. flash[cur[p]] = Nand[cur[p]] /\ cur[p] \notin bad
    BY <2>1 DEF Nand, HasConfig, Zeroed, Dummy
  <2>3. Nand[cur[p]] \in BtBlock /\ Nand[cur[p]].magic = "Boot"
    BY <2>1, NandType DEF HasConfig, TypeInv
  <2>4. ClearHealthy(Nand[cur[p]], cmd[p].which).magic = "Boot"
    BY <2>3 DEF ClearHealthy, BtBlock
  <2> QED BY <1>2, <2>1, <2>2, <2>3, <2>4, MarkedPage
<1> QED BY <1>1, <1>2

\* One page is replaced by page; the driver may mark its block bad.
LEMMA OnePage ==
  ASSUME TypeOK, NEW b \in Blocks, NEW page, flash' = [flash EXCEPT ![b] = page],
         bad' \in {bad, bad \cup {b}}
  PROVE  /\ \A x \in Blocks \ {b} : Nand'[x] = Nand[x]
         /\ ~HasConfig(page) => ~HasConfig(Nand'[b])
         /\ Nand'[b] = page \/ ~HasConfig(Nand'[b])
         /\ b \notin bad' /\ page.magic = "Boot" => Nand'[b] = page
         /\ page = flash[b] /\ bad' = bad => Nand' = Nand
<1>1. flash'[b] = page /\ \A x \in Blocks \ {b} : flash'[x] = flash[x] /\ (x \in bad' <=> x \in bad)
  BY DEF TypeOK
<1>2. \A x \in Blocks \ {b} : Nand'[x] = Nand[x]
  BY <1>1, NandSame
<1>3. Nand'[b] = IF b \in bad' THEN [Zeroed EXCEPT !.magic = "BAD!"]
                 ELSE IF page.magic = "ecc!" THEN Zeroed ELSE page
  BY <1>1 DEF Nand
<1>4. ~HasConfig(Zeroed) /\ ~HasConfig([Zeroed EXCEPT !.magic = "BAD!"])
  BY DEF HasConfig, Zeroed, Dummy
<1>5. page = flash[b] /\ bad' = bad => Nand' = Nand
  <2>1. page = flash[b] => flash' = flash
    BY DEF TypeOK
  <2> QED BY <2>1 DEF Nand
<1> QED BY <1>2, <1>3, <1>4, <1>5

LEMMA EmptyPages == ~HasConfig(Blank) /\ ~HasConfig(Uncorrectable)
BY DEF HasConfig, Blank, Dummy, Uncorrectable

LEMMA TearStores ==
  ASSUME TypeInv, NEW p \in Procs, SoloInv(p), Tear(p),
         bad' = bad \/ (pc[p] \in {"erase", "write"} /\ bad' = bad \cup {new[p]})
  PROVE  Stores(p, ~AtomicOverwrite)
<1>1. PICK page \in Torn(p) : flash' = [flash EXCEPT ![Target(p)] = page]
  BY DEF Tear
<1>2. new[p] \in Blocks /\ cur[p] \in Blocks /\ TypeOK
  BY DEF TypeInv, TypeOK
<1>3. CASE pc[p] \in {"erase", "write"}
  <2>1. /\ flash' = [flash EXCEPT ![new[p]] = page] /\ bad' \in {bad, bad \cup {new[p]}}
    BY <1>1, <1>3 DEF Target
  <2>2. \A b \in Blocks \ {new[p]} : Nand'[b] = Nand[b]
    BY <1>2, <2>1, OnePage
  <2>3. CASE page = flash[new[p]] /\ bad' = bad
    BY <1>2, <2>1, <2>3, OnePage DEF Stores
  <2>4. CASE page = flash[new[p]] /\ bad' = bad \cup {new[p]}
    <3>1. ~HasConfig(Nand'[new[p]])
      BY <1>2, <2>4 DEF Nand, HasConfig, Zeroed, Dummy
    <3> QED BY <1>3, <2>2, <3>1 DEF Stores
  <2>5. CASE ~HasConfig(page)
    BY <1>2, <1>3, <2>1, <2>2, <2>5, OnePage DEF Stores
  <2>6. CASE pc[p] = "write" /\ page = UpdateEntry(p)
    BY <1>2, <2>1, <2>2, <2>6, OnePage DEF Stores
  <2>7. \/ page \in {flash[new[p]], Blank, Uncorrectable}
        \/ pc[p] = "write" /\ page = UpdateEntry(p)
    BY <1>1, <1>3, PageFacts DEF Torn, Target
  <2> QED BY <2>1, <2>3, <2>4, <2>5, <2>6, <2>7, EmptyPages
<1>4. CASE pc[p] = "program"
  <2>1. flash' = [flash EXCEPT ![cur[p]] = page] /\ bad' = bad
    BY <1>1, <1>4 DEF Target
  <2>2. \A b \in Blocks \ {cur[p]} : Nand'[b] = Nand[b]
    BY <1>2, <2>1, OnePage
  <2>3. CASE page = flash[cur[p]]
    BY <1>2, <2>1, <2>3, OnePage DEF Stores
  <2>4. CASE page = ClearHealthy(Nand[cur[p]], cmd[p].which)
    <3>1. Nand'[cur[p]] = page
      BY <1>2, <1>4, <2>1, <2>4, OnePage, PageFacts
    <3> QED BY <1>4, <2>2, <2>4, <3>1 DEF Stores
  <2>5. CASE ~AtomicOverwrite /\ page = Uncorrectable
    <3>1. ~HasConfig(Nand'[cur[p]])
      BY <1>2, <2>1, <2>5, OnePage, EmptyPages
    <3> QED BY <1>4, <2>2, <2>5, <3>1 DEF Stores
  <2>6. \/ page = flash[cur[p]] \/ page = ClearHealthy(Nand[cur[p]], cmd[p].which)
        \/ ~AtomicOverwrite /\ page = Uncorrectable
    BY <1>1, <1>4, PageFacts, FaultAssumption DEF Torn, Target
  <2> QED BY <2>3, <2>4, <2>5, <2>6
<1>5. CASE pc[p] \notin {"erase", "write", "program"}
  <2>1. page = flash[Target(p)] /\ Target(p) \in Blocks /\ bad' = bad
    BY <1>1, <1>2, <1>5 DEF Torn, Target
  <2>2. Nand' = Nand
    BY <1>1, <1>2, <2>1, OnePage
  <2> QED BY <2>2 DEF Stores
<1> QED BY <1>3, <1>4, <1>5

LEMMA StepStores ==
  ASSUME TypeInv, NEW p \in Procs, SoloInv(p), Step(p)
  PROVE  Stores(p, ~AtomicOverwrite)
<1>1. new[p] \in Blocks /\ cur[p] \in Blocks /\ TypeOK
  BY DEF TypeInv, TypeOK
<1>2. CASE UNCHANGED nand
  BY <1>2 DEF Stores, Nand, nand
<1>3. CASE EraseOk(p)
  <2>1. pc[p] = "erase" /\ flash' = [flash EXCEPT ![new[p]] = Blank] /\ bad' = bad
    BY <1>3 DEF EraseOk
  <2> QED BY <1>1, <2>1, OnePage, EmptyPages DEF Stores
<1>4. CASE WriteOk(p)
  <2>1. pc[p] = "write" /\ flash' = [flash EXCEPT ![new[p]] = UpdateEntry(p)] /\ bad' = bad
    BY <1>4, PageFacts DEF WriteOk
  <2> QED BY <1>1, <2>1, OnePage DEF Stores
<1>5. CASE ProgramOk(p)
  <2>1. /\ pc[p] = "program" /\ bad' = bad
        /\ flash' = [flash EXCEPT ![cur[p]] = ClearHealthy(Nand[cur[p]], cmd[p].which)]
    BY <1>5, PageFacts DEF ProgramOk
  <2>2. Nand'[cur[p]] = ClearHealthy(Nand[cur[p]], cmd[p].which)
    BY <1>1, <2>1, OnePage, PageFacts
  <2> QED BY <1>1, <2>1, <2>2, OnePage DEF Stores
<1>6. CASE EraseOrWriteFail(p)
  BY <1>6, TearStores DEF EraseOrWriteFail
<1>7. CASE ProgramFail(p) /\ Tear(p)
  BY <1>7, TearStores DEF ProgramFail
<1>8. \/ UNCHANGED nand \/ EraseOk(p) \/ WriteOk(p) \/ ProgramOk(p)
      \/ EraseOrWriteFail(p) \/ (ProgramFail(p) /\ Tear(p))
  BY DEF Step, Scan, ScanBad, ScanRead, ScanFail, ScanNext, Dispatch, DispatchShow,
         DispatchIllegal, DispatchSet, DispatchHealthy, EnterLoop, Update, UpdateSkip,
         UpdateGood, UpdateBad, UpdateUnknown, Store, PageAllocFail, CheckAgain, Finish,
         InitDone, RereadDone, MainRereadDone, SetFailed, PrintConfig, Mark, ProgramFail, nand
<1> QED BY <1>2, <1>3, <1>4, <1>5, <1>6, <1>7, <1>8

\* An erase, a write or a failure of one keeps what the loop knows.
LEMMA LoopStores ==
  ASSUME ReadsAndEpochsLast, TypeInv, NEW p \in Procs, SoloInv(p),
         pc[p] \in {"erase", "write"}, Stores(p, ~AtomicOverwrite),
         UNCHANGED <<cur, cmd, mem>>
  PROVE  /\ Source(p)' = Source(p) /\ UpdateEntry(p)' = UpdateEntry(p)
         /\ Based(p)' /\ OldOrNew(p)'
         /\ \A b \in Blocks : Nand'[b] = UpdateEntry(p) => Behind(p, b) \/ b = new[p]
<1>1. InLoop(p) /\ cur[p] \in Blocks /\ new[p] \in Blocks /\ new[p] # cur[p]
  BY DEF InLoop, SoloInv, Beside, TypeInv, TypeOK
<1>2. \A b \in Blocks \ {new[p]} : Nand'[b] = Nand[b]
  BY <1>1 DEF Stores
<1>3. \/ Nand'[new[p]] = Nand[new[p]] \/ ~HasConfig(Nand'[new[p]])
      \/ Nand'[new[p]] = UpdateEntry(p)
  BY DEF Stores
<1>4. \A b \in Blocks : \/ Nand'[b] = Nand[b] \/ ~HasConfig(Nand'[b])
                        \/ Nand'[b] = UpdateEntry(p)
  BY <1>2, <1>3
<1>5. Nand'[cur[p]] = Nand[cur[p]] /\ mem'[p][cur[p]] = mem[p][cur[p]]
  BY <1>1, <1>2
<1>6. /\ Source(p)' = Source(p) /\ UpdateEntry(p)' = UpdateEntry(p)
      /\ Based(p)' /\ OldOrNew(p)'
  BY <1>1, <1>4, <1>5, LoopKeeps DEF SoloInv
<1>7. ASSUME NEW b \in Blocks, b # new[p], Nand'[b] = UpdateEntry(p) PROVE Behind(p, b)
  BY <1>2, <1>7 DEF SoloInv, NewIsBehind
<1> QED BY <1>6, <1>7

\* The new configuration is in force as soon as it is written.
LEMMA WrittenIsCurrent ==
  ASSUME ReadsAndEpochsLast, TypeInv, TypeInv', NEW p \in Procs, SoloInv(p), InLoop(p),
         Nand'[new[p]] = UpdateEntry(p), \A b \in Blocks \ {new[p]} : Nand'[b] = Nand[b]
  PROVE  Config(Nand') = {Shown(UpdateEntry(p))}
<1>1. /\ HasConfig(UpdateEntry(p)) /\ UpdateEntry(p).epoch \in Nat
      /\ \A b \in Blocks :
           Nand[b].epoch \in Nat /\ (IsOld(p, b) => Nand[b].epoch < UpdateEntry(p).epoch)
  BY EpochAssumption, EntryIsNewer DEF SoloInv, BtBlock, Epochs
<1>2. new[p] \in Blocks /\ Nand' \in [Blocks -> BtBlock]
  BY NandType DEF TypeInv, TypeOK
<1>3. ASSUME NEW i \in Blocks, IsCurrent(Nand', i) PROVE Nand'[i] = UpdateEntry(p)
  <2> SUFFICES ASSUME i # new[p] PROVE Nand'[i] = UpdateEntry(p)
    OBVIOUS
  <2>1. HasConfig(Nand[i]) /\ Nand'[i] = Nand[i]
    BY <1>3 DEF IsCurrent
  <2>2. ASSUME IsOld(p, i) PROVE FALSE
    <3>1. Nand'[i].epoch < UpdateEntry(p).epoch /\ Nand'[i].epoch \in Nat
      BY <1>1, <2>1, <2>2
    <3>2. \/ UpdateEntry(p).epoch < Nand'[i].epoch
          \/ UpdateEntry(p).epoch = Nand'[i].epoch
      BY <1>1, <1>2, <1>3 DEF IsCurrent
    <3> QED BY <1>1, <3>1, <3>2
  <2> QED BY <2>1, <2>2 DEF SoloInv, OldOrNew
<1>4. ~NoCurrent(Nand')
  BY <1>1, <1>2 DEF NoCurrent
<1>5. PICK i \in Blocks : IsCurrent(Nand', i)
  BY <1>2, <1>4, CurrentFound
<1> QED BY <1>2, <1>3, <1>5, ConfigIs

LEMMA SoloStore ==
  ASSUME ReadsAndEpochsLast, TypeInv, NEW p \in Procs, SoloInv(p), Store(p), TypeInv'
  PROVE  SoloInv(p)'
<1>1. /\ pc[p] \in {"erase", "write", "check"} /\ UNCHANGED <<cur, cmd>> /\ InLoop(p)
      /\ cmd[p].op = "set"
  BY DEF Store, EraseOk, WriteOk, EraseOrWriteFail, PageAllocFail, CheckAgain, InLoop,
         TypeInv, LoopCommand
<1>2. new[p] # cur[p] /\ new[p] \in Blocks /\ cur[p] \in Blocks /\ TypeOK
  BY <1>1 DEF SoloInv, Beside, TypeInv, TypeOK
<1>3. Stores(p, ~AtomicOverwrite)
  BY StepStores DEF Step
<1>4. CASE EraseOk(p)
  <2>1. /\ pc'[p] = "write" /\ flash'[new[p]] = Blank /\ pc[p] = "erase"
        /\ UNCHANGED <<bad, cur, cmd, mem, new>>
    BY <1>2, <1>4 DEF EraseOk, Goto, TypeOK
  <2>2. UpdateEntry(p)' = UpdateEntry(p) /\ Based(p)' /\ OldOrNew(p)'
    BY <1>3, <2>1, LoopStores
  <2>3. Writing(p)' /\ Beside(p)'
    BY <1>2, <2>1, <2>2 DEF SoloInv, Writing, Beside
  <2>4. Nand'[new[p]] # UpdateEntry(p)
    <3>1. flash'[new[p]] = Blank /\ HasConfig(UpdateEntry(p))
      BY <1>1, <2>1, EntryIsNewer DEF SoloInv
    <3> QED BY <1>2, <3>1 DEF Nand, HasConfig, Blank, Zeroed, Dummy
  <2>5. NewIsBehind(p)'
    <3>1. \A b \in Blocks : Nand'[b] = UpdateEntry(p) => Behind(p, b)
      BY <1>3, <2>1, <2>4, LoopStores
    <3> QED BY <2>1, <2>2, <3>1 DEF NewIsBehind, Behind
  <2> QED
    BY <2>1, <2>2, <2>3, <2>5
       DEF SoloInv, CommandOf, Scanned, EpochLeft, Marking, SetTookEffect, HealthyTookEffect
<1>5. CASE EraseOrWriteFail(p)
  <2>1. /\ pc'[p] = "check" /\ pc[p] \in {"erase", "write"} /\ UNCHANGED <<cur, cmd, mem, new>>
    BY <1>5 DEF EraseOrWriteFail, Goto, TypeInv, TypeOK
  <2>2. UpdateEntry(p)' = UpdateEntry(p) /\ Based(p)' /\ OldOrNew(p)'
    BY <1>3, <2>1, LoopStores
  <2>3. \A b \in Blocks : Nand'[b] = UpdateEntry(p) => Behind(p, b) \/ b = new[p]
    BY <1>3, <2>1, LoopStores
  <2>4. NewIsBehind(p)' /\ Beside(p)'
    BY <1>2, <2>1, <2>2, <2>3 DEF NewIsBehind, Behind, Beside
  <2> QED
    BY <2>1, <2>2, <2>4
       DEF SoloInv, CommandOf, Scanned, EpochLeft, Writing, Marking,
           SetTookEffect, HealthyTookEffect
<1>6. CASE PageAllocFail(p) \/ CheckAgain(p)
  <2>1. /\ pc[p] \in {"write", "check"} /\ Advance(p) /\ UNCHANGED <<flash, bad>>
        /\ mem'[p][cur[p]] = mem[p][cur[p]]
    BY <1>2, <1>6 DEF PageAllocFail, CheckAgain, Entry, TypeOK
  <2>2. Nand' = Nand
    BY <2>1 DEF Nand
  <2> QED BY <1>1, <2>1, <2>2, SoloAdvance
<1>7. CASE WriteOk(p)
  <2>1. /\ pc'[p] = "reread" /\ pc[p] = "write" /\ UNCHANGED <<bad, cur, cmd, new, ret>>
        /\ flash' = [flash EXCEPT ![new[p]] = UpdateEntry(p)] /\ new[p] \notin bad
    BY <1>7, PageFacts DEF WriteOk, Goto, TypeInv, TypeOK, SoloInv, Writing
  <2>2. HasConfig(UpdateEntry(p)) /\ UpdateEntry(p) = Updated(Source(p), cmd[p].which, cmd[p].part)
    BY <1>1, EntryIsNewer DEF SoloInv
  <2>3. /\ Nand'[new[p]] = UpdateEntry(p)
        /\ \A b \in Blocks \ {new[p]} : Nand'[b] = Nand[b]
    BY <1>2, <2>1, <2>2, OnePage DEF HasConfig
  <2>5. Config(Nand') = {Shown(UpdateEntry(p))}
    BY <1>1, <2>3, WrittenIsCurrent
  <2>6. SetTookEffect(p)'
    <3>1. Source(p)' = Source(p)
      BY <1>2, <2>1, <2>3 DEF Source
    <3>2. Source(p)' = IF HasConfig(Nand'[cur'[p]]) THEN Nand'[cur'[p]] ELSE Dummy
      BY DEF Source
    <3> QED BY <2>1, <2>2, <2>5, <3>1, <3>2 DEF SetTookEffect, Shown
  <2> QED
    BY <1>1, <2>1, <2>6
       DEF SoloInv, CommandOf, Scanned, EpochLeft, InLoop, Based, Beside, OldOrNew, Writing,
           NewIsBehind, Marking, HealthyTookEffect
<1> QED BY <1>4, <1>5, <1>6, <1>7 DEF Store

\* A flag cleared in place changes neither the order of the blocks nor which
\* of them is current.
LEMMA SameOrder ==
  ASSUME NEW M, NEW N, NEW c \in Blocks,
         M[c].magic = N[c].magic, M[c].epoch = N[c].epoch,
         M[c].kernel.partition = N[c].kernel.partition,
         M[c].rootfs.partition = N[c].rootfs.partition,
         \A b \in Blocks \ {c} : M[b] = N[b]
  PROVE  \A b \in Blocks :
           /\ HasConfig(M[b]) <=> HasConfig(N[b])
           /\ M[b].epoch = N[b].epoch
           /\ M[b].kernel.partition = N[b].kernel.partition
           /\ M[b].rootfs.partition = N[b].rootfs.partition
           /\ IsCurrent(M, b) <=> IsCurrent(N, b)
<1>1. \A b \in Blocks : (HasConfig(M[b]) <=> HasConfig(N[b])) /\ M[b].epoch = N[b].epoch
  BY DEF HasConfig
<1>2. \A b \in Blocks : /\ M[b].kernel.partition = N[b].kernel.partition
                        /\ M[b].rootfs.partition = N[b].rootfs.partition
  OBVIOUS
<1>3. \A b \in Blocks : IsCurrent(M, b) <=> IsCurrent(N, b)
  BY <1>1 DEF IsCurrent
<1> QED BY <1>1, <1>2, <1>3

LEMMA OnlyFlags ==
  ASSUME NEW b \in BtBlock, NEW which, NEW c \in {ClearHealthy(b, which), ClearBooted(b, which)}
  PROVE  /\ c.magic = b.magic /\ c.epoch = b.epoch
         /\ c.kernel.partition = b.kernel.partition
         /\ c.rootfs.partition = b.rootfs.partition
BY DEF ClearHealthy, ClearBooted, BtBlock, Info

LEMMA SoloMark ==
  ASSUME TypeInv, NEW p \in Procs, SoloInv(p), Mark(p), TypeInv'
  PROVE  SoloInv(p)'
<1>1. /\ pc[p] = "program" /\ pc'[p] = "print" /\ UNCHANGED <<cur, cmd, mem>>
      /\ cmd[p].op = "healthy"
  BY DEF Mark, ProgramOk, ProgramFail, Goto, TypeInv, TypeOK, SoloInv, CommandOf
<1>2. cur[p] \in Blocks /\ TypeOK /\ Nand \in [Blocks -> BtBlock] /\ Nand' \in [Blocks -> BtBlock]
  BY NandType DEF TypeInv, TypeOK
<1>3. CASE ProgramFail(p)
  <2>1. ret'[p] # 0
    BY <1>3 DEF ProgramFail, TypeInv, TypeOK
  <2> QED
    BY <1>1, <2>1
       DEF SoloInv, CommandOf, Scanned, EpochLeft, InLoop, Based, Beside, OldOrNew, Writing,
           NewIsBehind, Marking, SetTookEffect, HealthyTookEffect
<1>4. CASE ProgramOk(p)
  <2>1. /\ flash' = [flash EXCEPT ![cur[p]] = ClearHealthy(Nand[cur[p]], cmd[p].which)]
        /\ bad' = bad
    BY <1>1, <1>4, PageFacts DEF ProgramOk
  <2>2. /\ Nand'[cur[p]] = ClearHealthy(Nand[cur[p]], cmd[p].which)
        /\ \A b \in Blocks \ {cur[p]} : Nand'[b] = Nand[b]
    BY <1>1, <1>2, <2>1, OnePage, PageFacts
  <2>3. \A b \in Blocks : IsCurrent(Nand', b) <=> IsCurrent(Nand, b)
    <3> DEFINE M == Nand'
               N == Nand
               c == cur[p]
    <3>1. c \in Blocks /\ N[c] \in BtBlock /\ \A b \in Blocks \ {c} : M[b] = N[b]
      BY <1>2, <2>2
    <3>2. M[c] = ClearHealthy(N[c], cmd[p].which)
      BY <2>2
    <3> HIDE DEF M, N, c
    <3>3. \A b \in Blocks : IsCurrent(M, b) <=> IsCurrent(N, b)
      BY <3>1, <3>2, SameOrder, OnlyFlags
    <3> QED BY <3>3 DEF M, N
  <2>4. \A i \in Blocks : IsCurrent(Nand', i) => i = cur[p]
    BY <1>1, <1>2, <2>3, CurrentUnique DEF SoloInv, Marking
  <2>5. Flag(Nand'[cur[p]], cmd[p].which) = 0
    BY <1>2, <2>2 DEF Flag, ClearHealthy, BtBlock, Info
  <2>6. HealthyTookEffect(p)'
    BY <1>1, <2>4, <2>5 DEF HealthyTookEffect
  <2> QED
    BY <1>1, <2>6
       DEF SoloInv, CommandOf, Scanned, EpochLeft, InLoop, Based, Beside, OldOrNew, Writing,
           NewIsBehind, Marking, SetTookEffect
<1> QED BY <1>3, <1>4 DEF Mark

\* Every step of an instance that no other one disturbs keeps its invariant.
LEMMA SoloStep ==
  ASSUME ReadsAndEpochsLast, TypeInv, NEW p \in Procs, SoloInv(p), Step(p), TypeInv'
  PROVE  SoloInv(p)'
BY SoloScan, SoloDispatch, SoloUpdate, SoloStore, SoloFinish, SoloMark DEF Step

LEMMA SoloSame ==
  ASSUME UNCHANGED vars, NEW p \in Procs, SoloInv(p)
  PROVE  SoloInv(p)'
<1> USE DEF vars
<1>1. Nand' = Nand
  BY DEF Nand
<1>2. CommandOf(p)' /\ Scanned(p)' /\ EpochLeft(p)' /\ Beside(p)'
  BY <1>1 DEF SoloInv, CommandOf, Scanned, EpochLeft, Beside
<1>3. Source(p)' = Source(p) /\ UpdateEntry(p)' = UpdateEntry(p)
  BY <1>1 DEF Source, UpdateEntry
<1>4. Based(p)' /\ OldOrNew(p)' /\ Writing(p)' /\ NewIsBehind(p)'
  BY <1>1, <1>3 DEF SoloInv, InLoop, Based, OldOrNew, IsOld, Writing, NewIsBehind, Behind
<1>5. Marking(p)' /\ SetTookEffect(p)' /\ HealthyTookEffect(p)'
  BY <1>1 DEF SoloInv, Marking, SetTookEffect, HealthyTookEffect
<1> QED BY <1>2, <1>4, <1>5 DEF SoloInv

\* A step of p is taken by a running instance and moves no other one.
LEMMA OwnStep ==
  ASSUME TypeInv, NEW p \in Procs, Step(p)
  PROVE  /\ pc[p] # "off"
         /\ \A q \in Procs \ {p} : pc'[q] = pc[q] /\ mem'[q] = mem[q] /\ scan'[q] = scan[q]
         /\ pc'[p] = "off" => mem'[p] = NoMemory /\ scan'[p] = 0
<1> USE DEF TypeInv, TypeOK, Goto
<1>1. CASE Scan(p)
  BY <1>1 DEF Scan, ScanBad, ScanRead, ScanFail, Scanning, ScanNext, Entry
<1>2. CASE Dispatch(p)
  BY <1>2 DEF Dispatch, DispatchShow, DispatchIllegal, DispatchSet, DispatchHealthy, EnterLoop,
              Exit
<1>3. CASE Update(p)
  BY <1>3 DEF Update, UpdateSkip, UpdateGood, UpdateBad, UpdateUnknown, Advance
<1>4. CASE Store(p)
  BY <1>4 DEF Store, EraseOk, WriteOk, EraseOrWriteFail, PageAllocFail, CheckAgain, Advance, Entry
<1>5. CASE Finish(p)
  BY <1>5 DEF Finish, InitDone, RereadDone, MainRereadDone, SetFailed, PrintConfig, Exit
<1>6. CASE Mark(p)
  BY <1>6 DEF Mark, ProgramOk, ProgramFail
<1> QED BY <1>1, <1>2, <1>3, <1>4, <1>5, <1>6 DEF Step

LEMMA RestingStep ==
  ASSUME TypeInv, Resting, [Next]_vars
  PROVE  Resting'
<1>1. ASSUME NEW p \in Procs, Step(p) PROVE Resting'
  BY <1>1, OwnStep DEF Resting
<1>2. ASSUME NEW p \in Procs, NEW c \in Issued, Start(p, c) PROVE Resting'
  BY <1>2 DEF Resting, Start, Goto, TypeInv, TypeOK
<1>3. CASE PowerCut
  BY <1>3 DEF Resting, PowerCut
<1>4. CASE BootLoader
  BY <1>4 DEF Resting, BootLoader
<1>5. CASE UNCHANGED vars
  BY <1>5 DEF Resting, vars
<1> QED BY <1>1, <1>2, <1>3, <1>4, <1>5 DEF Next

\* Blocks of one epoch agree as long as those that a step leaves alone do, and
\* the one it changes has lost its configuration or kept epoch and partitions.
LEMMA AgreementKept ==
  ASSUME NEW c \in Blocks, \A b \in Blocks \ {c} : Nand'[b] = Nand[b], DuplicatesAgree,
         \/ ~HasConfig(Nand'[c])
         \/ /\ HasConfig(Nand[c]) /\ Nand'[c].epoch = Nand[c].epoch
            /\ Nand'[c].kernel.partition = Nand[c].kernel.partition
            /\ Nand'[c].rootfs.partition = Nand[c].rootfs.partition
  PROVE  DuplicatesAgree'
<1>1. ASSUME NEW b \in Blocks, HasConfig(Nand'[b])
      PROVE  /\ HasConfig(Nand[b]) /\ Nand'[b].epoch = Nand[b].epoch
             /\ Nand'[b].kernel.partition = Nand[b].kernel.partition
             /\ Nand'[b].rootfs.partition = Nand[b].rootfs.partition
  BY <1>1
<1> QED BY <1>1 DEF DuplicatesAgree

LEMMA AgreementStores ==
  ASSUME ReadsAndEpochsLast, TypeInv, NEW p \in Procs, SoloInv(p), DuplicatesAgree,
         NEW torn, Stores(p, torn)
  PROVE  DuplicatesAgree'
<1>1. new[p] \in Blocks /\ cur[p] \in Blocks /\ Nand \in [Blocks -> BtBlock]
  BY NandType DEF TypeInv, TypeOK
<1>2. CASE Nand' = Nand
  BY <1>2 DEF DuplicatesAgree
<1>3. CASE /\ pc[p] \in {"erase", "write"}
           /\ \A b \in Blocks \ {new[p]} : Nand'[b] = Nand[b]
           /\ ~HasConfig(Nand'[new[p]])
  BY <1>1, <1>3, AgreementKept
<1>4. CASE /\ pc[p] = "write"
           /\ \A b \in Blocks \ {new[p]} : Nand'[b] = Nand[b]
           /\ Nand'[new[p]] = UpdateEntry(p)
  <2>1. InLoop(p)
    BY <1>4 DEF InLoop
  <2>2. /\ UpdateEntry(p).epoch \in Nat
        /\ \A b \in Blocks :
             Nand[b].epoch \in Nat /\ (IsOld(p, b) => Nand[b].epoch < UpdateEntry(p).epoch)
    BY <2>1, EpochAssumption, EntryIsNewer DEF SoloInv, BtBlock, Epochs
  <2>3. ASSUME NEW b \in Blocks, HasConfig(Nand'[b]), Nand'[b].epoch = UpdateEntry(p).epoch
        PROVE  Nand'[b] = UpdateEntry(p)
    <3> SUFFICES ASSUME b # new[p], IsOld(p, b) PROVE FALSE
      BY <1>4, <2>1, <2>3 DEF SoloInv, OldOrNew
    <3> QED BY <1>4, <2>2, <2>3
  <2>4. ASSUME NEW i \in Blocks, NEW j \in Blocks, HasConfig(Nand'[i]), HasConfig(Nand'[j]),
               Nand'[i].epoch = Nand'[j].epoch
        PROVE  /\ Nand'[i].kernel.partition = Nand'[j].kernel.partition
               /\ Nand'[i].rootfs.partition = Nand'[j].rootfs.partition
    <3>1. CASE i = new[p] \/ j = new[p]
      <4>1. Nand'[i] = UpdateEntry(p) /\ Nand'[j] = UpdateEntry(p)
        BY <1>4, <2>3, <2>4, <3>1
      <4> QED BY <4>1
    <3>2. CASE i # new[p] /\ j # new[p]
      <4>1. Nand'[i] = Nand[i] /\ Nand'[j] = Nand[j]
        BY <1>4, <3>2
      <4> QED BY <2>4, <4>1 DEF DuplicatesAgree
    <3> QED BY <3>1, <3>2
  <2> QED BY <2>4 DEF DuplicatesAgree
<1>5. CASE /\ pc[p] = "program"
           /\ \A b \in Blocks \ {cur[p]} : Nand'[b] = Nand[b]
           /\ Nand'[cur[p]] = ClearHealthy(Nand[cur[p]], cmd[p].which) \/ ~HasConfig(Nand'[cur[p]])
  <2>1. HasConfig(Nand[cur[p]])
    BY <1>1, <1>5 DEF SoloInv, Marking, IsCurrent
  <2>2. CASE ~HasConfig(Nand'[cur[p]])
    BY <1>1, <1>5, <2>2, AgreementKept
  <2>3. CASE Nand'[cur[p]] = ClearHealthy(Nand[cur[p]], cmd[p].which)
    <3>1. /\ Nand'[cur[p]].epoch = Nand[cur[p]].epoch
          /\ Nand'[cur[p]].kernel.partition = Nand[cur[p]].kernel.partition
          /\ Nand'[cur[p]].rootfs.partition = Nand[cur[p]].rootfs.partition
      BY <1>1, <2>3, OnlyFlags
    <3> QED BY <1>1, <1>5, <2>1, <3>1, AgreementKept
  <2> QED BY <1>5, <2>2, <2>3
<1> QED BY <1>2, <1>3, <1>4, <1>5 DEF Stores

\* The boot loader clears a flag of the current block and nothing else.
LEMMA BootLoaderMarks ==
  ASSUME TypeInv, BootLoader
  PROVE  \E which \in Images, c \in Blocks :
           /\ IsCurrent(Nand, c)
           /\ Nand'[c] = ClearBooted(Nand[c], which)
           /\ \A b \in Blocks \ {c} : Nand'[b] = Nand[b]
<1>1. PICK which \in Images, c \in Blocks :
        IsCurrent(Nand, c) /\ flash' = [flash EXCEPT ![c] = ClearBooted(@, which)]
  BY DEF BootLoader
<1>2. HasConfig(Nand[c]) /\ flash[c] = Nand[c] /\ c \notin bad /\ flash[c] \in BtBlock
  BY <1>1 DEF IsCurrent, Nand, HasConfig, Zeroed, Dummy, TypeInv, TypeOK
<1>3. /\ ClearBooted(Nand[c], which).magic = "Boot" /\ bad' = bad
      /\ flash' = [flash EXCEPT ![c] = ClearBooted(Nand[c], which)]
  BY <1>1, <1>2, OnlyFlags DEF HasConfig, BootLoader
<1>4. Nand'[c] = ClearBooted(Nand[c], which) /\ \A b \in Blocks \ {c} : Nand'[b] = Nand[b]
  BY <1>2, <1>3, OnePage DEF TypeInv
<1> QED BY <1>1, <1>4

LEMMA AgreementBootLoader ==
  ASSUME TypeInv, DuplicatesAgree, BootLoader
  PROVE  DuplicatesAgree'
<1>1. PICK which \in Images, c \in Blocks :
        /\ IsCurrent(Nand, c)
        /\ Nand'[c] = ClearBooted(Nand[c], which)
        /\ \A b \in Blocks \ {c} : Nand'[b] = Nand[b]
  BY BootLoaderMarks
<1>2. Nand[c] \in BtBlock /\ HasConfig(Nand[c])
  BY <1>1, NandType DEF IsCurrent, TypeInv
<1>3. /\ Nand'[c].epoch = Nand[c].epoch
      /\ Nand'[c].kernel.partition = Nand[c].kernel.partition
      /\ Nand'[c].rootfs.partition = Nand[c].rootfs.partition
  BY <1>1, <1>2, OnlyFlags
<1> QED BY <1>1, <1>2, <1>3, AgreementKept

-----------------------------------------------------------------------------
(* One instance at a time: every command does what it reports.              *)

StoreInv ==
  TypeInv /\ Resting /\ DuplicatesAgree /\ (\A p \in Procs : SoloInv(p))

LEMMA StoreInit == Init => StoreInv
<1> SUFFICES ASSUME Init PROVE StoreInv
  OBVIOUS
<1>1. TypeInv /\ Resting
  BY TypeInit DEF Init, Resting
<1>2. \A b \in Blocks : ~HasConfig(Nand[b])
  BY DEF Init, Nand, HasConfig, Blank, Zeroed, Dummy
<1>3. \A p \in Procs : SoloInv(p)
  BY SoloOff DEF Init
<1> QED BY <1>1, <1>2, <1>3 DEF StoreInv, DuplicatesAgree

LEMMA StoreStep ==
  ASSUME OneInstance, ReadsAndEpochsLast, StoreInv, [Next]_vars
  PROVE  StoreInv'
<1> USE DEF StoreInv
<1>1. TypeInv' /\ Resting'
  BY TypeStep, RestingStep
<1>2. ASSUME NEW p \in Procs, Step(p) PROVE StoreInv'
  <2>1. SoloInv(p)'
    BY <1>1, <1>2, SoloStep
  <2>2. DuplicatesAgree'
    BY <1>2, StepStores, AgreementStores
  <2> QED BY <1>1, <2>1, <2>2 DEF OneInstance
<1>3. ASSUME NEW p \in Procs, NEW c \in Issued, Start(p, c) PROVE StoreInv'
  <2>1. SoloInv(p)'
    BY <1>3, SoloStart
  <2>2. DuplicatesAgree'
    BY <1>3 DEF Start, Nand, DuplicatesAgree
  <2> QED BY <1>1, <2>1, <2>2 DEF OneInstance
<1>4. CASE PowerCut
  <2>1. \A p \in Procs : SoloInv(p)'
    BY <1>4, SoloOff DEF PowerCut
  <2>2. PICK p \in Procs : Tear(p) /\ bad' = bad
    BY <1>4 DEF PowerCut
  <2>3. DuplicatesAgree'
    BY <2>2, TearStores, AgreementStores
  <2> QED BY <1>1, <2>1, <2>3
<1>5. CASE BootLoader
  <2>1. \A p \in Procs : SoloInv(p)'
    BY <1>5, SoloOff DEF BootLoader
  <2> QED BY <1>1, <1>5, <2>1, AgreementBootLoader
<1>6. CASE UNCHANGED vars
  <2>1. DuplicatesAgree'
    BY <1>6 DEF vars, Nand, DuplicatesAgree
  <2> QED BY <1>1, <1>6, <2>1, SoloSame
<1> QED BY <1>2, <1>3, <1>4, <1>5, <1>6 DEF Next

\* The inductive invariant of one instance at a time.
THEOREM StoreInvariant ==
  ASSUME OneInstance, ReadsAndEpochsLast
  PROVE  Spec => []StoreInv
<1>1. StoreInv /\ [Next]_vars => StoreInv'
  BY StoreStep
<1> QED BY <1>1, StoreInit, PTL DEF Spec

\* With one instance at a time a set that reports success has put the new
\* partition in force and kept the other image, whatever writes failed before.
THEOREM SetIsInForce ==
  ASSUME OneInstance, ReadsAndEpochsLast
  PROVE  Spec => []SetTakesEffect
<1>1. StoreInv => SetTakesEffect
  BY DEF StoreInv, SoloInv, SetTakesEffect
<1> QED BY <1>1, StoreInvariant, PTL

\* With one instance at a time a healthy command that reports success leaves
\* the image that is in force marked healthy.
THEOREM HealthyIsInForce ==
  ASSUME OneInstance, ReadsAndEpochsLast
  PROVE  Spec => []HealthyTakesEffect
<1>1. StoreInv => HealthyTakesEffect
  BY DEF StoreInv, SoloInv, HealthyTakesEffect
<1> QED BY <1>1, StoreInvariant, PTL

\* With one instance at a time the blocks that failed writes leave with one
\* epoch name the same partitions.
THEOREM EqualEpochsAgree ==
  ASSUME OneInstance, ReadsAndEpochsLast
  PROVE  Spec => []DuplicatesAgree
<1>1. StoreInv => DuplicatesAgree
  BY DEF StoreInv
<1> QED BY <1>1, StoreInvariant, PTL

-----------------------------------------------------------------------------
(* Any number of instances: one that no other has overlapped with.          *)

PairInv ==
  /\ TypeInv /\ Resting
  /\ \A p \in Procs : alone[p] => pc[p] # "off" /\ Alone(p) /\ SoloInv(p)

LEMMA PairStep ==
  ASSUME ReadsAndEpochsLast, PairInv, [PairNext]_<<vars, alone>>
  PROVE  PairInv'
<1>1. [Next]_vars
  BY DEF PairNext
<1>2. TypeInv' /\ Resting'
  BY <1>1, TypeStep, RestingStep DEF PairInv
<1>3. ASSUME UNCHANGED <<vars, alone>>, NEW p \in Procs, alone'[p]
      PROVE  pc'[p] # "off" /\ Alone(p)' /\ SoloInv(p)'
  <2>1. UNCHANGED vars /\ alone[p] /\ pc' = pc
    BY <1>3 DEF vars
  <2> QED BY <2>1, SoloSame DEF PairInv, Alone
<1>4. ASSUME PairNext, NEW p \in Procs, alone'[p]
      PROVE  pc'[p] # "off" /\ Alone(p)' /\ SoloInv(p)'
  <2>1. /\ pc'[p] # "off"
        /\ pc[p] = "off" => Alone(p)
        /\ pc[p] # "off" => alone[p] /\ \A q \in Procs \ {p} : pc[q] = "off" => pc'[q] = "off"
    BY <1>4 DEF PairNext, Off, Joins, Alone
  <2>2. Alone(p)
    BY <2>1 DEF PairInv
  <2>3. ASSUME NEW q \in Procs, Step(q)
        PROVE  Alone(p)' /\ SoloInv(p)'
    <3>1. q = p
      BY <2>2, <2>3, OwnStep DEF Alone, PairInv
    <3>2. alone[p] /\ SoloInv(p)
      BY <2>1, <2>3, <3>1, OwnStep DEF PairInv
    <3>3. Alone(p)'
      BY <2>2, <2>3, <3>1, OwnStep DEF Alone, PairInv
    <3> QED BY <1>2, <2>3, <3>1, <3>2, <3>3, SoloStep DEF PairInv
  <2>4. ASSUME NEW q \in Procs, NEW c \in Issued, Start(q, c)
        PROVE  Alone(p)' /\ SoloInv(p)'
    <3>1. pc[q] = "off" /\ pc'[q] # "off" /\ \A r \in Procs \ {q} : pc'[r] = pc[r]
      BY <2>4 DEF Start, Goto, PairInv, TypeInv, TypeOK
    <3>2. q = p
      BY <2>1, <3>1
    <3>3. Alone(p)'
      BY <2>2, <3>1, <3>2 DEF Alone
    <3> QED BY <2>4, <3>2, <3>3, SoloStart DEF PairInv
  <2>5. ~PowerCut /\ ~BootLoader
    BY <2>1 DEF PowerCut, BootLoader
  <2> QED BY <1>4, <2>1, <2>3, <2>4, <2>5 DEF PairNext, Next
<1> QED BY <1>2, <1>3, <1>4 DEF PairInv

\* Whatever overlapping commands have left on the NAND, a set or a healthy
\* command that runs with no other one does what it reports.
THEOREM UndisturbedIsInForce ==
  ASSUME ReadsAndEpochsLast
  PROVE  PairSpec => []UndisturbedTakesEffect
<1>1. PairInit => PairInv
  BY TypeInit DEF PairInit, PairInv, Init, Resting
<1>2. PairInv /\ [PairNext]_<<vars, alone>> => PairInv'
  BY PairStep
<1>3. PairInv => UndisturbedTakesEffect
  BY DEF PairInv, UndisturbedTakesEffect, SoloInv
<1> QED BY <1>1, <1>2, <1>3, PTL DEF PairSpec

-----------------------------------------------------------------------------
(* The store implements the register of BootRegister.                       *)

\* The current block of a loop is the one it copies from or one it has written.
LEMMA CurrentOfLoop ==
  ASSUME ReadsAndEpochsLast, TypeInv, NEW p \in Procs, SoloInv(p), InLoop(p),
         NEW i \in Blocks, IsCurrent(Nand, i), Nand[i] # UpdateEntry(p)
  PROVE  i = cur[p] /\ Source(p) = Nand[i]
<1>1. HasConfig(Nand[i]) /\ IsOld(p, i)
  BY DEF IsCurrent, SoloInv, OldOrNew
<1>2. /\ cur[p] \in Blocks /\ i \in Int /\ cur[p] \in Int
      /\ Nand[i].epoch \in Nat /\ Nand[cur[p]].epoch \in Nat
  BY BlocksInt, EntryIsNewer DEF TypeInv, TypeOK, SoloInv
<1>3. HasConfig(Nand[cur[p]])
  <2> SUFFICES ASSUME Source(p) = Dummy PROVE FALSE
    BY DEF Source
  <2> QED BY <1>1, <1>2 DEF IsOld, Dummy, HasConfig
<1>4. Source(p) = Nand[cur[p]]
  BY <1>3 DEF Source
<1>5. Nand[cur[p]].epoch < Nand[i].epoch \/ (Nand[cur[p]].epoch = Nand[i].epoch /\ i <= cur[p])
  BY <1>2, <1>3 DEF IsCurrent
<1>6. Nand[i].epoch < Nand[cur[p]].epoch \/ (Nand[i].epoch = Nand[cur[p]].epoch /\ cur[p] <= i)
  BY <1>1, <1>4 DEF IsOld
<1>7. i = cur[p]
  BY <1>2, <1>5, <1>6
<1> QED BY <1>4, <1>7

\* A block that is not current may lose what it holds.
LEMMA OtherBlockLost ==
  ASSUME NEW M \in [Blocks -> BtBlock], NEW N \in [Blocks -> BtBlock], NEW c \in Blocks,
         \A b \in Blocks \ {c} : M[b] = N[b], ~HasConfig(M[c]), ~IsCurrent(N, c)
  PROVE  Config(M) = Config(N)
<1>1. CASE NoCurrent(N)
  <2>1. NoCurrent(M)
    BY <1>1 DEF NoCurrent
  <2> QED BY <1>1, <2>1, ConfigIs
<1>2. ASSUME NEW i \in Blocks, IsCurrent(N, i) PROVE Config(M) = Config(N)
  <2>1. M[i] = N[i]
    BY <1>2
  <2>2. \A b \in Blocks : HasConfig(M[b]) => M[b] = N[b]
    OBVIOUS
  <2>3. IsCurrent(M, i)
    BY <1>2, <2>1, <2>2 DEF IsCurrent
  <2> QED BY <1>2, <2>1, <2>3, ConfigIs
<1> QED BY <1>1, <1>2, CurrentFound

\* The register's set on a configuration is the store's update of its block.
LEMMA AppliedSet ==
  ASSUME NEW a, a.op = "set", a.part \in Partitions, NEW b \in BtBlock
  PROVE  /\ Register!Applied({Shown(b)}, a) = {Shown(Updated(b, a.which, a.part))}
         /\ Register!Applied({}, a) = {Shown(Updated(Dummy, a.which, a.part))}
<1>1. \A x \in BtBlock :
        Register!WithSet(Shown(x), a.which, a.part) = Shown(Updated(x, a.which, a.part))
  <2> SUFFICES ASSUME NEW x \in BtBlock
               PROVE  Register!WithSet(Shown(x), a.which, a.part)
                        = Shown(Updated(x, a.which, a.part))
    OBVIOUS
  <2> QED BY DEF Register!WithSet, Register!Fresh, Shown, Updated, Fresh, BtBlock
<1>2. Dummy \in BtBlock /\ Register!Factory = Shown(Dummy)
  BY DummyType DEF Register!Factory, Register!Fresh, Shown, Dummy, Fresh
<1>3. a.part \in Register!Bit
  BY DEF Register!Bit, Partitions
<1>4. \A cs : Register!Applied(cs, a) =
        {Register!WithSet(c, a.which, a.part) :
           c \in (IF cs = {} THEN {Register!Factory} ELSE cs)}
  BY <1>3 DEF Register!Applied
<1>5. Register!Applied({Shown(b)}, a) = {Register!WithSet(Shown(b), a.which, a.part)}
  BY <1>4
<1>6. Register!Applied({}, a) = {Register!WithSet(Register!Factory, a.which, a.part)}
  BY <1>4
<1> QED BY <1>1, <1>2, <1>5, <1>6

LEMMA AppliedHealthy ==
  ASSUME NEW a, a.op = "healthy", NEW b \in BtBlock
  PROVE  Register!Applied({Shown(b)}, a) = {Shown(ClearHealthy(b, a.which))}
<1>1. Register!WithHealthy(Shown(b), a.which) = Shown(ClearHealthy(b, a.which))
  BY DEF Register!WithHealthy, Shown, ClearHealthy, BtBlock, Info
<1>2. Register!Applied({Shown(b)}, a) = {Register!WithHealthy(c, a.which) : c \in {Shown(b)}}
  BY DEF Register!Applied
<1> QED BY <1>1, <1>2

\* What a command does to the NAND, complete or torn, is to take effect or not.
LEMMA StoresApplies ==
  ASSUME ReadsAndEpochsLast, TypeInv, TypeInv', NEW p \in Procs, SoloInv(p),
         Stores(p, FALSE)
  PROVE  \/ Config(Nand') = Config(Nand)
         \/ Config(Nand') = Register!Applied(Config(Nand), cmd[p])
<1>1. /\ new[p] \in Blocks /\ cur[p] \in Blocks
      /\ Nand \in [Blocks -> BtBlock] /\ Nand' \in [Blocks -> BtBlock]
  BY NandType DEF TypeInv, TypeOK
<1>2. CASE Nand' = Nand
  BY <1>2
<1>3. CASE /\ pc[p] \in {"erase", "write"}
           /\ \A b \in Blocks \ {new[p]} : Nand'[b] = Nand[b]
           /\ ~HasConfig(Nand'[new[p]])
  <2>1. ~IsCurrent(Nand, new[p])
    <3> SUFFICES ASSUME IsCurrent(Nand, new[p]) PROVE FALSE
      OBVIOUS
    <3>1. InLoop(p) /\ new[p] # cur[p]
      BY <1>3 DEF InLoop, SoloInv, Beside
    <3>2. Nand[new[p]] = UpdateEntry(p)
      BY <1>1, <3>1, CurrentOfLoop
    <3>3. Between(cur[p], new[p], new[p])
      BY <1>1, <1>3, <3>2 DEF SoloInv, NewIsBehind, Behind
    <3>4. new[p] \in Int /\ cur[p] \in Int
      BY <1>1, BlocksInt
    <3> QED BY <3>3, <3>4 DEF Between
  <2> QED BY <1>1, <1>3, <2>1, OtherBlockLost
<1>4. CASE /\ pc[p] = "write"
           /\ \A b \in Blocks \ {new[p]} : Nand'[b] = Nand[b]
           /\ Nand'[new[p]] = UpdateEntry(p)
  <2>1. InLoop(p)
    BY <1>4 DEF InLoop
  <2>2. cmd[p].op = "set" /\ cmd[p].part \in Partitions
    BY <2>1 DEF TypeInv, LoopCommand
  <2>3. /\ UpdateEntry(p) = Updated(Source(p), cmd[p].which, cmd[p].part)
        /\ UpdateEntry(p) \in BtBlock
    BY <2>1, EntryIsNewer DEF SoloInv
  <2>4. Config(Nand') = {Shown(UpdateEntry(p))}
    BY <1>4, <2>1, WrittenIsCurrent
  <2>5. CASE NoCurrent(Nand)
    <3>1. Config(Nand) = {} /\ Source(p) = Dummy
      BY <1>1, <2>5, ConfigIs DEF NoCurrent, Source
    <3> QED BY <2>2, <2>3, <2>4, <3>1, AppliedSet, DummyType
  <2>6. ASSUME NEW i \in Blocks, IsCurrent(Nand, i)
        PROVE  \/ Config(Nand') = Config(Nand)
               \/ Config(Nand') = Register!Applied(Config(Nand), cmd[p])
    <3>1. Config(Nand) = {Shown(Nand[i])} /\ Nand[i] \in BtBlock
      BY <1>1, <2>6, ConfigIs
    <3>2. CASE Nand[i] = UpdateEntry(p)
      BY <2>4, <3>1, <3>2
    <3>3. CASE Nand[i] # UpdateEntry(p)
      <4>1. Source(p) = Nand[i]
        BY <2>1, <2>6, <3>3, CurrentOfLoop
      <4> QED BY <2>2, <2>3, <2>4, <3>1, <4>1, AppliedSet
    <3> QED BY <3>2, <3>3
  <2> QED BY <1>1, <2>5, <2>6, CurrentFound
<1>5. CASE /\ pc[p] = "program"
           /\ \A b \in Blocks \ {cur[p]} : Nand'[b] = Nand[b]
           /\ Nand'[cur[p]] = ClearHealthy(Nand[cur[p]], cmd[p].which)
  <2>1. IsCurrent(Nand, cur[p]) /\ cmd[p].op = "healthy" /\ Nand[cur[p]] \in BtBlock
    BY <1>1, <1>5 DEF SoloInv, Marking, CommandOf
  <2>2. IsCurrent(Nand', cur[p])
    <3> DEFINE M == Nand'
               N == Nand
               c == cur[p]
    <3>1. c \in Blocks /\ N[c] \in BtBlock /\ \A b \in Blocks \ {c} : M[b] = N[b]
      BY <1>1, <1>5
    <3>2. M[c] = ClearHealthy(N[c], cmd[p].which) /\ IsCurrent(N, c)
      BY <1>5, <2>1
    <3> HIDE DEF M, N, c
    <3>3. IsCurrent(M, c)
      BY <3>1, <3>2, SameOrder, OnlyFlags
    <3> QED BY <3>3 DEF M, c
  <2>3. /\ Config(Nand) = {Shown(Nand[cur[p]])}
        /\ Config(Nand') = {Shown(ClearHealthy(Nand[cur[p]], cmd[p].which))}
    BY <1>1, <1>5, <2>1, <2>2, ConfigIs
  <2> QED BY <2>1, <2>3, AppliedHealthy
<1> QED BY <1>2, <1>3, <1>4, <1>5 DEF Stores

\* A running instance keeps its command, or leaves without a change.
LEMMA StepCommand ==
  ASSUME NEW p \in Procs, Step(p)
  PROVE  \/ UNCHANGED cmd
         \/ cmd' = [cmd EXCEPT ![p] = NoCommand] /\ UNCHANGED nand
<1>1. CASE Scan(p)
  BY <1>1 DEF Scan, ScanBad, ScanRead, ScanFail, ScanNext
<1>2. CASE Dispatch(p)
  BY <1>2 DEF Dispatch, DispatchShow, DispatchIllegal, DispatchSet, DispatchHealthy, EnterLoop,
              Exit
<1>3. CASE Update(p)
  BY <1>3 DEF Update, UpdateSkip, UpdateGood, UpdateBad, UpdateUnknown
<1>4. CASE Store(p)
  BY <1>4 DEF Store, EraseOk, WriteOk, EraseOrWriteFail, PageAllocFail, CheckAgain
<1>5. CASE Finish(p)
  BY <1>5 DEF Finish, InitDone, RereadDone, MainRereadDone, SetFailed, PrintConfig, Exit
<1>6. CASE Mark(p)
  BY <1>6 DEF Mark, ProgramOk, ProgramFail
<1> QED BY <1>1, <1>2, <1>3, <1>4, <1>5, <1>6 DEF Step

LEMMA BootLoaderBooted ==
  ASSUME TypeInv, TypeInv', BootLoader
  PROVE  Register!Booted
<1>1. PICK which \in Images, c \in Blocks :
        /\ IsCurrent(Nand, c)
        /\ Nand'[c] = ClearBooted(Nand[c], which)
        /\ \A b \in Blocks \ {c} : Nand'[b] = Nand[b]
  BY BootLoaderMarks
<1>2. Nand \in [Blocks -> BtBlock] /\ Nand' \in [Blocks -> BtBlock] /\ Nand[c] \in BtBlock
  BY NandType DEF TypeInv
<1>3. IsCurrent(Nand', c)
  <2> DEFINE M == Nand'
             N == Nand
  <2>1. N[c] \in BtBlock /\ M[c] = ClearBooted(N[c], which) /\ IsCurrent(N, c)
        /\ \A b \in Blocks \ {c} : M[b] = N[b]
    BY <1>1, <1>2
  <2> HIDE DEF M, N
  <2>2. IsCurrent(M, c)
    BY <2>1, SameOrder, OnlyFlags
  <2> QED BY <2>2 DEF M
<1>4. /\ Config(Nand) = {Shown(Nand[c])}
      /\ Config(Nand') = {Shown(ClearBooted(Nand[c], which))}
  BY <1>1, <1>2, <1>3, ConfigIs
<1>5. Register!WithBooted(Shown(Nand[c]), which) = Shown(ClearBooted(Nand[c], which))
  BY <1>2 DEF Register!WithBooted, Shown, ClearBooted, BtBlock, Info
<1>6. Config(Nand') = {Register!WithBooted(x, which) : x \in Config(Nand)}
  BY <1>4, <1>5
<1>7. Config(Nand)' = Config(Nand')
  BY DEF Config
<1> QED BY <1>6, <1>7 DEF Register!Booted, Register!Images, Images, BootLoader

LEMMA RegisterStep ==
  ASSUME OneInstance, ReadsAndEpochsLast, AtomicOverwrite, StoreInv, StoreInv', [Next]_vars
  PROVE  [Register!RNext]_(Register!rvars)
<1>1. Config(Nand)' = Config(Nand')
  BY DEF Config
<1>2. ASSUME NEW p \in Procs, Stores(p, ~AtomicOverwrite)
      PROVE  \/ Config(Nand') = Config(Nand)
             \/ Config(Nand') = Register!Applied(Config(Nand), cmd[p])
  BY <1>2, StoresApplies DEF StoreInv
<1>3. ASSUME NEW p \in Procs, Step(p) PROVE [Register!RNext]_(Register!rvars)
  <2>1. CASE UNCHANGED cmd
    <3>1. Register!TakeEffect(p) \/ UNCHANGED Register!rvars
      BY <1>1, <1>2, <1>3, <2>1, StepStores DEF StoreInv, Register!TakeEffect, Register!rvars
    <3> QED BY <3>1 DEF Register!RNext
  <2>2. CASE cmd' = [cmd EXCEPT ![p] = NoCommand] /\ UNCHANGED nand
    <3>1. Config(Nand') = Config(Nand)
      BY <2>2 DEF Nand, nand
    <3>2. Register!Leave(p)
      BY <1>1, <2>2, <3>1 DEF Register!Leave, Register!Nothing, NoCommand
    <3> QED BY <3>2 DEF Register!RNext
  <2> QED BY <1>3, <2>1, <2>2, StepCommand
<1>4. ASSUME NEW p \in Procs, NEW c \in Issued, Start(p, c)
      PROVE  [Register!RNext]_(Register!rvars)
  <2>1. c \in Register!Commands
    BY IssuedAssumption
       DEF Commands, Register!Commands, Images, Register!Images, Register!Nothing,
           Partitions, IllegalPartition
  <2>2. Config(Nand') = Config(Nand)
    BY <1>4 DEF Start, Nand
  <2>3. Register!Ask(p)
    BY <1>1, <1>4, <2>1, <2>2 DEF Start, Register!Ask
  <2> QED BY <2>3 DEF Register!RNext
<1>5. CASE PowerCut
  <2>1. PICK p \in Procs : Tear(p) /\ bad' = bad
    BY <1>5 DEF PowerCut
  <2>2. \/ Config(Nand') = Config(Nand)
        \/ Config(Nand') = Register!Applied(Config(Nand), cmd[p])
    BY <1>2, <2>1, TearStores DEF StoreInv
  <2>3. cmd' = Register!Idle
    BY <1>5 DEF PowerCut, Register!Idle, Register!Nothing, NoCommand
  <2>4. Register!LosePower
    BY <1>1, <2>2, <2>3 DEF Register!LosePower
  <2> QED BY <2>4 DEF Register!RNext
<1>6. CASE BootLoader
  BY <1>6, BootLoaderBooted DEF StoreInv, Register!RNext
<1>7. CASE UNCHANGED vars
  BY <1>7 DEF vars, Register!rvars, Nand
<1> QED BY <1>3, <1>4, <1>5, <1>6, <1>7 DEF Next

\* With one instance at a time, and an in-place program that leaves the old or
\* the new page, every command takes effect as a whole or not at all, in spite
\* of failing writes, bad blocks and power cuts at any step.
THEOREM StoreIsRegister ==
  ASSUME OneInstance, ReadsAndEpochsLast, AtomicOverwrite
  PROVE  Spec => ImplementsRegister
<1>1. Init => Register!RInit
  <2> SUFFICES ASSUME Init PROVE Register!RInit
    OBVIOUS
  <2>1. \A b \in Blocks : ~HasConfig(Nand[b])
    BY DEF Init, Nand, HasConfig, Blank, Zeroed, Dummy
  <2>2. Config(Nand) = {}
    BY <2>1 DEF Config, IsCurrent
  <2> QED BY <2>2 DEF Init, Register!RInit, Register!Idle, Register!Nothing, NoCommand
<1>2. StoreInv /\ StoreInv' /\ [Next]_vars => [Register!RNext]_(Register!rvars)
  BY RegisterStep
<1> QED BY <1>1, <1>2, StoreInvariant, PTL DEF Spec, ImplementsRegister, Register!RSpec
=============================================================================
