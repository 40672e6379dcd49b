---------------------------- MODULE MCBootConfig ----------------------------
(* Instances of BootConfig for TLC: one or two runs of the tool on a       *)
(* partition of three erase blocks.                                        *)
EXTENDS BootConfig

CONSTANTS p1, p2
OneProc == {p1}
TwoProcs == {p1, p2}
NoFaults == {}
WritesFail == {"check", "program", "power"}
SetKernel(p) == [op |-> "set", which |-> "kernel", part |-> p]
KernelCommands ==
  {SetKernel(0), SetKernel(1), [op |-> "healthy", which |-> "kernel", part |-> 0]}
MixedCommands ==
  {SetKernel(1), [op |-> "set", which |-> "rootfs", part |-> 1],
   [op |-> "healthy", which |-> "rootfs", part |-> 0]}
\* Every kind of command; the two images are treated alike, so not every one
\* is given for both of them.
EveryKind ==
  MixedCommands \cup
  {SetKernel(0), SetKernel(IllegalPartition), [op |-> "show", which |-> "kernel", part |-> 0]}
=============================================================================
