---------------------------- MODULE BootRegister ----------------------------
(***************************************************************************)
(* What the boot configuration store promises to its users: a register     *)
(* that holds at most one configuration.  A command that runs takes        *)
(* effect as a whole or not at all; a power cut drops the running          *)
(* commands, and at most one of them still takes effect.                   *)
(***************************************************************************)
EXTENDS Integers

CONSTANT Procs     \* those who run a command

VARIABLES
  config,          \* {} or the set of the one configuration stored
  asked            \* the command that each of Procs runs

Images == {"kernel", "rootfs"}
Bit == {0, 1}
Info == [partition : Bit, n_booted : Bit, n_healthy : Bit]
Fresh(p) == [partition |-> p, n_booted |-> 1, n_healthy |-> 1]
Factory == [kernel |-> Fresh(0), rootfs |-> Fresh(0)]

Nothing == [op |-> "show", which |-> "kernel", part |-> 0]
Commands ==
  [op : {"set"}, which : Images, part : {0, 1, 2}]
    \cup [op : {"healthy"}, which : Images, part : {0}] \cup {Nothing}

\* A set replaces one image and its flags and keeps the other image.
WithSet(c, which, p) ==
  IF which = "kernel" THEN [c EXCEPT !.kernel = Fresh(p)]
                      ELSE [c EXCEPT !.rootfs = Fresh(p)]
WithHealthy(c, which) ==
  IF which = "kernel" THEN [c EXCEPT !.kernel.n_healthy = 0]
                      ELSE [c EXCEPT !.rootfs.n_healthy = 0]
WithBooted(c, which) ==
  IF which = "kernel" THEN [c EXCEPT !.kernel.n_booted = 0]
                      ELSE [c EXCEPT !.rootfs.n_booted = 0]

Applied(cs, a) ==
  CASE a.op = "set" /\ a.part \in Bit ->
         {WithSet(c, a.which, a.part) : c \in (IF cs = {} THEN {Factory} ELSE cs)}
    [] a.op = "healthy" -> {WithHealthy(c, a.which) : c \in cs}
    [] OTHER -> cs

rvars == <<config, asked>>
Idle == [p \in Procs |-> Nothing]

RInit == config = {} /\ asked = Idle

Ask(p) == (\E c \in Commands : asked' = [asked EXCEPT ![p] = c]) /\ UNCHANGED config
TakeEffect(p) == config' = Applied(config, asked[p]) /\ UNCHANGED asked
Leave(p) == asked' = [asked EXCEPT ![p] = Nothing] /\ UNCHANGED config

LosePower ==
  /\ asked' = Idle
  /\ \/ UNCHANGED config
     \/ \E p \in Procs : config' = Applied(config, asked[p])

\* The boot loader notes that an image has been started.
Booted ==
  /\ \E which \in Images : config' = {WithBooted(c, which) : c \in config}
  /\ UNCHANGED asked

RNext ==
  \/ \E p \in Procs : Ask(p) \/ TakeEffect(p) \/ Leave(p)
  \/ LosePower
  \/ Booted

RSpec == RInit /\ [][RNext]_rvars
=============================================================================
