----------------------------- MODULE SwitchPhy -----------------------------
(***************************************************************************)
(* The speed of the network ports: board_phy_config of himx0294.c sets the *)
(* PHYs inside a Marvell switch as the variable lanspeed says, and the     *)
(* boot script switch_init of imx8mp_evk.h sets one port of its switch.    *)
(* The PHYs are reached through two registers of the switch: a command     *)
(* starts an operation, a busy bit shows that it is under way, and the     *)
(* switch and its PHYs work while U-Boot polls or sleeps.                  *)
(***************************************************************************)
EXTENDS Integers, Sequences

CONSTANTS
  SwitchBoards,   \* the boards tried
  Lanspeeds,      \* the values of lanspeed tried, << >> when it is not set
  Port6Phys       \* what may be on port 6 of the ivap board

(* "impec" and "dvmon" have no code for the switch in board_phy_config.      *)
AllSwitchBoards == {"imoc", "ivap", "dvmon", "impec", "himx8"}
Ports == 0 .. 6
Speeds == {"fast", "gig"}                   \* 0x0 and 0xe00 in MII_CTRL1000
Phys == {"KSZ9031", "KSZ9131"}
(* A word of the data register; reset is bit BMCR_RESET of it. *)
Values == Speeds \cup {"bmcr"} \cup Phys
Words == [word : Values, reset : BOOLEAN]
Word(w) == [word |-> w, reset |-> FALSE]
Registers == {"CTRL1000", "BMCR", "ID"}
PortBits == {"tx_delay", "rx_delay", "flow", "other"}

ASSUME SwitchAssumption ==
  /\ SwitchBoards \subseteq AllSwitchBoards
  /\ Lanspeeds \subseteq Seq({"g", "f"})
  /\ Port6Phys \subseteq Phys

VARIABLES
  sboard,     \* the board
  lanspeed,   \* the variable of the environment
  marvell,    \* whether register 3 of device 0x10 names a known switch
  port6,      \* the PHY on port 6
  smi,        \* the switch: data and command register, busy bit
  phy,        \* phy[p]: MII_CTRL1000, MII_BMCR and the speed in effect
  control,    \* register 1 of the CPU port and of port 6
  call,       \* the running marvell_phy_read or marvell_phy_write
  i,          \* index into lanspeed
  spc         \* where board_phy_config or the script is

switch == <<smi, phy>>
given == <<sboard, lanspeed, marvell, port6>>
svars == <<given, switch, control, call, i, spc>>

Call == [op : {"read", "write"}, port : Ports, reg : Registers, data : Words,
         stage : {"data", "command", "poll", "fetch", "idle"}]
Read(p, r) == [op |-> "read", port |-> p, reg |-> r, data |-> Word("bmcr"), stage |-> "command"]
Write(p, r, w) == [op |-> "write", port |-> p, reg |-> r, data |-> w, stage |-> "data"]
NoCall == [Read(0, "BMCR") EXCEPT !.stage = "idle"]
Returned == call.stage = "idle"

(* phy_speed: which port the i-th letter is for, and how many letters count. *)
PortOf(n) == IF sboard # "ivap" THEN n
             ELSE CASE n = 3 -> 4 [] n = 4 -> 3 [] n = 5 -> 6 [] OTHER -> n
Last == IF sboard = "ivap" THEN 5 ELSE 1
Told(n) == IF n < Len(lanspeed) /\ lanspeed[n + 1] = "g" THEN "gig" ELSE "fast"

SwitchInit ==
  /\ sboard \in SwitchBoards
  /\ lanspeed \in Lanspeeds
  /\ marvell \in BOOLEAN
  /\ port6 \in Port6Phys
  /\ smi = [data |-> Word("bmcr"), op |-> "read", port |-> 0, reg |-> "BMCR", busy |-> FALSE]
  /\ phy = [p \in Ports |-> [ctrl |-> "gig", bmcr |-> Word("bmcr"), speed |-> "gig"]]
  /\ control = [cpu |-> {"other"}, port6 |-> {"other"}]
  /\ call = NoCall
  /\ i = 0
  /\ spc = "off"

-----------------------------------------------------------------------------
(* The switch: it carries the command out, and clears busy.                 *)
Content(p, r) ==
  CASE r = "CTRL1000" -> Word(phy[p].ctrl)
    [] r = "BMCR" -> phy[p].bmcr
    [] r = "ID" -> Word(port6)

Carried(p, r, w) ==
  CASE r = "CTRL1000" -> [phy EXCEPT ![p].ctrl = w.word]
    [] r = "BMCR" -> [phy EXCEPT ![p].bmcr = w]
    [] OTHER -> phy

SmiDone ==
  /\ smi.busy
  /\ IF smi.op = "write"
     THEN /\ phy' = Carried(smi.port, smi.reg, smi.data)
          /\ smi' = [smi EXCEPT !.busy = FALSE]
     ELSE /\ smi' = [smi EXCEPT !.busy = FALSE, !.data = Content(smi.port, smi.reg)]
          /\ UNCHANGED phy
  /\ UNCHANGED <<given, control, call, i, spc>>

(* A PHY leaves its reset and negotiates with what it is told by then.      *)
PhyResetDone(p) ==
  /\ phy[p].bmcr.reset
  /\ phy' = [phy EXCEPT ![p].bmcr.reset = FALSE, ![p].speed = phy[p].ctrl]
  /\ UNCHANGED <<given, smi, control, call, i, spc>>

(* marvell_phy_read and marvell_phy_write, one MDIO access a step.          *)
marvell_phy_data ==
  /\ call.stage = "data"
  /\ smi' = [smi EXCEPT !.data = call.data]
  /\ call' = [call EXCEPT !.stage = "command"]
  /\ UNCHANGED <<given, phy, control, i, spc>>

marvell_phy_command ==
  /\ call.stage = "command"
  /\ smi' = [smi EXCEPT !.op = call.op, !.port = call.port, !.reg = call.reg, !.busy = TRUE]
  /\ call' = [call EXCEPT !.stage = "poll"]
  /\ UNCHANGED <<given, phy, control, i, spc>>

(* The loop reads the command register until the busy bit is clear.         *)
SlipNoPoll(busy) == TRUE
Ready(busy) == ~busy

marvell_phy_poll ==
  /\ call.stage = "poll" /\ Ready(smi.busy)
  /\ call' = [call EXCEPT !.stage = IF call.op = "read" THEN "fetch" ELSE "idle"]
  /\ UNCHANGED <<given, switch, control, i, spc>>

marvell_phy_fetch ==
  /\ call.stage = "fetch"
  /\ call' = [call EXCEPT !.data = smi.data, !.stage = "idle"]
  /\ UNCHANGED <<given, switch, control, i, spc>>

-----------------------------------------------------------------------------
(* board_phy_config: only a switch that is known is set up.                 *)
SetPort(n) ==
  /\ i' = n /\ spc' = "ctrl"
  /\ call' = Write(PortOf(n), "CTRL1000", Word(Told(n)))

PhyConfig ==
  /\ spc = "config" /\ sboard # "himx8"
  /\ IF marvell /\ sboard \in {"imoc", "ivap"} THEN SetPort(0) ELSE spc' = "done" /\ UNCHANGED <<i, call>>
  /\ UNCHANGED <<given, switch, control>>

NextPort ==
  IF i < Last THEN SetPort(i + 1) ELSE spc' = "cpu" /\ UNCHANGED <<i, call>>

Goto(label, c) == spc' = label /\ call' = c /\ UNCHANGED i

(* set_phy_speed: the external PHY on port 6 is not reset.                  *)
SpeedWritten ==
  /\ spc = "ctrl" /\ Returned
  /\ IF PortOf(i) = 6 THEN NextPort ELSE Goto("read", Read(PortOf(i), "BMCR"))
  /\ UNCHANGED <<given, switch, control>>

SlipOnlyReset(w) == [word |-> "fast", reset |-> TRUE]
WithReset(w) == [w EXCEPT !.reset = TRUE]

BmcrRead ==
  /\ spc = "read" /\ Returned
  /\ Goto("reset", Write(PortOf(i), "BMCR", WithReset(call.data)))
  /\ UNCHANGED <<given, switch, control>>

ResetWritten ==
  /\ spc = "reset" /\ Returned
  /\ Goto("wait", Read(PortOf(i), "BMCR"))
  /\ UNCHANGED <<given, switch, control>>

SlipReady(w) == FALSE
SlipOtherBit(w) == w.word = "bmcr"
InReset(w) == w.reset

ResetPolled ==
  /\ spc = "wait" /\ Returned
  /\ IF InReset(call.data) THEN Goto("wait", Read(PortOf(i), "BMCR")) ELSE NextPort
  /\ UNCHANGED <<given, switch, control>>

(* Delays and flow control of the CPU port: bits are added.                 *)
Added(old, bits) == old \cup bits

CpuPort ==
  /\ spc = "cpu"
  /\ control' = [control EXCEPT !.cpu = Added(@, {"tx_delay", "rx_delay", "flow"})]
  /\ IF sboard = "ivap" THEN Goto("id", Read(6, "ID")) ELSE Goto("done", call)
  /\ UNCHANGED <<given, switch>>

(* Port 6 with its external PHY; the newer one gets no receive delay.       *)
Port6Bits(w) == IF w.word = "KSZ9131" THEN {"tx_delay", "flow"} ELSE {"tx_delay", "rx_delay", "flow"}
ExternalPort ==
  /\ spc = "id" /\ Returned
  /\ control' = [control EXCEPT !.port6 = Added(@, Port6Bits(call.data))]
  /\ Goto("done", call)
  /\ UNCHANGED <<given, switch>>

-----------------------------------------------------------------------------
(* switch_init of imx8mp_evk.h.  switch_reset pulls the reset line of the   *)
(* switch; switch_ctrl replaces whole registers; switch_speed_port2 writes  *)
(* the registers by hand and sleeps 0.1 s instead of polling, which is      *)
(* several hundred times what an operation takes.                           *)
switch_reset ==
  /\ spc = "config" /\ sboard = "himx8"
  /\ smi' = [smi EXCEPT !.busy = FALSE]
  /\ phy' = [p \in Ports |-> [ctrl |-> "gig", bmcr |-> Word("bmcr"), speed |-> "gig"]]
  /\ Goto("switch_ctrl", call)
  /\ UNCHANGED <<given, control>>

switch_ctrl ==
  /\ spc = "switch_ctrl"
  /\ control' = [cpu |-> PortBits, port6 |-> PortBits]
  /\ Goto("speed_port2", Write(2, "CTRL1000", Word("fast")))
  /\ UNCHANGED <<given, switch>>

switch_speed_port2 ==
  /\ spc = "speed_port2" /\ Returned
  /\ Goto("reset_port2", Write(2, "BMCR", [word |-> "bmcr", reset |-> TRUE]))
  /\ UNCHANGED <<given, switch, control>>

(* Nothing waits for the reset of the port: the script goes on booting.     *)
switch_done ==
  /\ spc = "reset_port2" /\ Returned
  /\ Goto("done", call)
  /\ UNCHANGED <<given, switch, control>>

(* The network starts; after a reset that takes longer than an operation of  *)
(* the switch, but a PHY may still be in its reset.                          *)
SwitchStart ==
  /\ spc = "off" /\ ~smi.busy
  /\ spc' = "config"
  /\ lanspeed' \in Lanspeeds
  /\ UNCHANGED <<sboard, marvell, port6, switch, control, call, i>>

(* A reset of the processor at any time; the switch goes on with its work.   *)
SwitchReset ==
  /\ spc' = "off" /\ call' = NoCall /\ i' = 0
  /\ UNCHANGED <<given, switch, control>>

MarvellPhy == marvell_phy_data \/ marvell_phy_command \/ marvell_phy_poll \/ marvell_phy_fetch
PhyDriver == MarvellPhy \/ PhyConfig \/ SpeedWritten \/ BmcrRead \/ ResetWritten \/ ResetPolled
             \/ CpuPort \/ ExternalPort
             \/ switch_reset \/ switch_ctrl \/ switch_speed_port2 \/ switch_done
SwitchStep == SmiDone \/ \E p \in Ports : PhyResetDone(p)

SwitchNext == PhyDriver \/ SwitchStep \/ SwitchStart \/ SwitchReset
SwitchSpec == SwitchInit /\ [][SwitchNext]_svars

-----------------------------------------------------------------------------
SwitchTypeOK ==
  /\ sboard \in SwitchBoards /\ lanspeed \in Lanspeeds /\ marvell \in BOOLEAN
  /\ port6 \in Phys
  /\ smi \in [data : Words, op : {"read", "write"}, port : Ports, reg : Registers, busy : BOOLEAN]
  /\ phy \in [Ports -> [ctrl : Values, bmcr : Words, speed : Values]]
  /\ control \in [cpu : SUBSET PortBits, port6 : SUBSET PortBits]
  /\ call \in Call
  /\ i \in 0 .. 5
  /\ spc \in {"off", "config", "ctrl", "read", "reset", "wait", "cpu", "id",
              "switch_ctrl", "speed_port2", "reset_port2", "done"}

(* Data and command register are written only while no operation runs: one  *)
(* written earlier would change the operation under way.                    *)
OneOperation == call.stage \in {"data", "command", "fetch"} => ~smi.busy

(* The control register of a PHY keeps its value but for the reset bit: what *)
(* set_phy_speed writes back is what it read, and not a left-over word.      *)
BmcrKept == \A p \in Ports : phy[p].bmcr.word = "bmcr"

(* After board_phy_config every port that lanspeed has a letter for is told  *)
(* its speed and, but for the external PHY, has it in effect; ports without  *)
(* a letter run at 100.                                                      *)
SpeedAsTold ==
  spc = "done" /\ sboard \in {"imoc", "ivap"} /\ marvell =>
    \A n \in 0 .. Last :
      /\ phy[PortOf(n)].ctrl = Told(n)
      /\ PortOf(n) # 6 => phy[PortOf(n)].speed = Told(n)

(* Every start comes to an end although the polling loops have no timeout:   *)
(* the switch answers and a PHY leaves its reset.                            *)
ConfigEnds == spc = "config" ~> spc \in {"done", "off"}
=============================================================================
