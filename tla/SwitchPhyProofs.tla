-------------------------- MODULE SwitchPhyProofs ---------------------------
(* Theorems about SwitchPhy, for every set of boards, lanspeed and PHYs. *)
EXTENDS SwitchPhy, TLAPS

(* Where board_phy_config and the script have no call under way. *)
NoCallUnderWay == spc \in {"off", "config", "cpu", "switch_ctrl", "done"} => Returned

(* The switch is busy only while a call polls it, or before the start. *)
BusyIsPolled == smi.busy => call.stage = "poll" \/ spc = "off"

(* What a call has put into the registers of the switch. *)
RegistersOfCall ==
  /\ call.op = "write" /\ call.stage \in {"command", "poll"} => smi.data = call.data
  /\ call.stage = "poll" => smi.op = call.op /\ smi.port = call.port /\ smi.reg = call.reg
  /\ call.stage = "fetch" => call.op = "read"

(* Control words are never anything else, on either side of the registers.  *)
ControlWords ==
  /\ call.reg = "BMCR" => call.data.word = "bmcr"
  /\ spc = "read" => call.reg = "BMCR"
  /\ smi.busy /\ smi.op = "write" /\ smi.reg = "BMCR" => smi.data.word = "bmcr"
  /\ call.reg = "BMCR" /\ call.op = "read" /\ call.stage \in {"poll", "fetch"} /\ ~smi.busy =>
       smi.data.word = "bmcr"

SwitchInv ==
  /\ SwitchTypeOK
  /\ NoCallUnderWay
  /\ BusyIsPolled
  /\ RegistersOfCall
  /\ ControlWords
  /\ BmcrKept

(* Ports, speeds, words and calls of the model. *)
LEMMA PortsAndSpeeds ==
  ASSUME NEW n \in 0 .. 5
  PROVE  PortOf(n) \in Ports /\ Told(n) \in Speeds /\ Last \in 0 .. 5
BY DEF PortOf, Told, Last, Ports, Speeds

LEMMA WordTypes ==
  /\ \A v \in Values : Word(v) \in Words
  /\ Word("bmcr") \in Words /\ Word("fast") \in Words /\ Word("gig") \in Words
  /\ [word |-> "bmcr", reset |-> TRUE] \in Words
BY DEF Word, Words, Values, Speeds

LEMMA CallTypes ==
  ASSUME NEW p \in Ports, NEW r \in Registers, NEW w \in Words
  PROVE  /\ Read(p, r) \in Call
         /\ Write(p, r, w) \in Call
         /\ NoCall \in Call
<1>1. Word("bmcr") \in Words
  BY WordTypes DEF Values
<1>2. 0 \in Ports /\ "BMCR" \in Registers
  BY DEF Ports, Registers
<1>3. \A q \in Ports, s \in Registers : Read(q, s) \in Call
  BY <1>1, Zenon DEF Read, Call
<1>4. NoCall \in Call
  BY <1>2, <1>3 DEF NoCall, Call
<1>5. Write(p, r, w) \in Call
  BY Zenon DEF Write, Call
<1> QED
  BY <1>3, <1>4, <1>5

(* The smaller facts about records that the steps need. *)
LEMMA CallFields ==
  ASSUME NEW p \in Ports, NEW r \in Registers, NEW w \in Words
  PROVE  /\ Read(p, r).op = "read" /\ Read(p, r).port = p /\ Read(p, r).reg = r
         /\ Read(p, r).stage = "command" /\ Read(p, r).data.word = "bmcr"
         /\ Write(p, r, w).op = "write" /\ Write(p, r, w).port = p /\ Write(p, r, w).reg = r
         /\ Write(p, r, w).stage = "data" /\ Write(p, r, w).data = w
         /\ NoCall.op = "read" /\ NoCall.stage = "idle" /\ NoCall.reg = "BMCR"
         /\ NoCall.data.word = "bmcr"
BY DEF Read, Write, NoCall, Word

Smi == [data : Words, op : {"read", "write"}, port : Ports, reg : Registers, busy : BOOLEAN]
Phy == [ctrl : Values, bmcr : Words, speed : Values]

LEMMA SwitchInvInit == SwitchInit => SwitchInv
<1> SUFFICES ASSUME SwitchInit PROVE SwitchInv
  OBVIOUS
<1>1. Word("bmcr") \in Words /\ Word("bmcr").word = "bmcr"
  BY WordTypes DEF Values, Word
<1>2. 0 \in Ports /\ "BMCR" \in Registers
  BY DEF Ports, Registers
<1>3. smi \in Smi
  BY <1>1, <1>2 DEF SwitchInit, Smi
<1>4. phy \in [Ports -> Phy]
  BY <1>1 DEF SwitchInit, Phy, Values, Speeds
<1>5. call \in Call
  BY <1>1, <1>2, CallTypes DEF SwitchInit
<1>6. SwitchTypeOK
  BY <1>3, <1>4, <1>5, SwitchAssumption DEF SwitchInit, SwitchTypeOK, Smi, Phy, PortBits
<1>7. NoCallUnderWay /\ BusyIsPolled /\ RegistersOfCall /\ ControlWords
  BY <1>1, <1>2, CallFields DEF SwitchInit, NoCallUnderWay, BusyIsPolled, RegistersOfCall, ControlWords, Returned
<1>8. BmcrKept
  BY <1>1 DEF SwitchInit, BmcrKept
<1> QED
  BY <1>6, <1>7, <1>8 DEF SwitchInv

-----------------------------------------------------------------------------
(* The switch carries out a command, a PHY leaves its reset.                *)
LEMMA SmiDoneKeeps == ASSUME SwitchInv, SmiDone PROVE SwitchInv'
<1>1. /\ smi \in Smi /\ smi.busy /\ phy \in [Ports -> Phy] /\ call \in Call /\ port6 \in Values
      /\ UNCHANGED <<given, control, call, i, spc>>
  BY SwitchAssumption DEF SwitchInv, SwitchTypeOK, SmiDone, Smi, Phy, Values
<1>2. Content(smi.port, smi.reg) \in Words
  BY <1>1, WordTypes DEF Content, Smi, Phy, Registers
<1>3. smi' \in Smi /\ smi' = [smi EXCEPT !.busy = FALSE, !.data = smi'.data]
      /\ (smi.op = "write" => smi'.data = smi.data)
      /\ (smi.op = "read" => smi'.data = Content(smi.port, smi.reg))
  BY <1>1, <1>2 DEF SmiDone, Smi
<1>4. phy' = phy \/ (smi.op = "write" /\ phy' = Carried(smi.port, smi.reg, smi.data))
  BY DEF SmiDone
<1>5. phy' \in [Ports -> Phy]
  BY <1>1, <1>4 DEF Carried, Smi, Phy, Registers, Words
<1>6. SwitchTypeOK'
  BY <1>1, <1>3, <1>5 DEF SwitchInv, SwitchTypeOK, Smi, Phy, given
<1>7. BmcrKept'
  <2> SUFFICES ASSUME NEW p \in Ports PROVE phy'[p].bmcr.word = "bmcr"
    BY DEF BmcrKept
  <2>1. CASE phy' = phy
    BY <2>1 DEF SwitchInv, BmcrKept
  <2>2. CASE smi.op = "write" /\ phy' = Carried(smi.port, smi.reg, smi.data)
    BY <1>1, <2>2 DEF SwitchInv, BmcrKept, ControlWords, Carried, Smi, Phy, Registers
  <2> QED
    BY <1>4, <2>1, <2>2
<1>8. call.stage = "poll" \/ (spc = "off" /\ Returned)
  BY <1>1 DEF SwitchInv, BusyIsPolled, NoCallUnderWay
<1>9. smi.op = "read" /\ smi.reg = "BMCR" => smi'.data.word = "bmcr"
  BY <1>1, <1>3 DEF Content, Smi, SwitchInv, BmcrKept
<1>10. NoCallUnderWay' /\ BusyIsPolled'
  BY <1>1, <1>3 DEF SwitchInv, NoCallUnderWay, BusyIsPolled, Returned, Smi
<1>11. RegistersOfCall'
  BY <1>1, <1>3, <1>8 DEF SwitchInv, RegistersOfCall, Smi, Call, Returned
<1>12. ControlWords'
  BY <1>1, <1>3, <1>8, <1>9 DEF SwitchInv, ControlWords, RegistersOfCall, Smi, Call, Returned
<1> QED
  BY <1>6, <1>7, <1>10, <1>11, <1>12 DEF SwitchInv

LEMMA PhyResetDoneKeeps == ASSUME SwitchInv, NEW p \in Ports, PhyResetDone(p) PROVE SwitchInv'
<1>1. phy \in [Ports -> Phy] /\ UNCHANGED <<given, smi, control, call, i, spc>>
  BY DEF SwitchInv, SwitchTypeOK, PhyResetDone, Phy
<1>2. phy' \in [Ports -> Phy] /\ BmcrKept'
  <2> DEFINE done == [phy[p] EXCEPT !.bmcr = [phy[p].bmcr EXCEPT !.reset = FALSE],
                                    !.speed = phy[p].ctrl]
  <2>1. phy' = [phy EXCEPT ![p] = done]
    BY <1>1 DEF PhyResetDone
  <2>2. phy[p] \in Phy
    BY <1>1
  <2>3. done \in Phy /\ done.bmcr.word = phy[p].bmcr.word
    BY <2>2 DEF Phy, Words
  <2> HIDE DEF done
  <2>4. phy' \in [Ports -> Phy]
    BY <1>1, <2>1, <2>3
  <2>5. BmcrKept'
    BY <1>1, <2>1, <2>3 DEF SwitchInv, BmcrKept
  <2> QED
    BY <2>4, <2>5
<1>3. SwitchTypeOK'
  BY <1>1, <1>2 DEF SwitchInv, SwitchTypeOK, given, Phy
<1> QED
  BY <1>1, <1>2, <1>3 DEF SwitchInv, NoCallUnderWay, BusyIsPolled, RegistersOfCall, ControlWords, Returned

(* The accesses of a running call.                                          *)
LEMMA MarvellPhyKeeps == ASSUME SwitchInv, MarvellPhy PROVE SwitchInv'
<1>1. smi \in Smi /\ call \in Call /\ UNCHANGED <<given, phy, control, i, spc>>
  BY DEF SwitchInv, SwitchTypeOK, MarvellPhy, marvell_phy_data, marvell_phy_command,
         marvell_phy_poll, marvell_phy_fetch, Smi, switch
<1>2. spc # "off" /\ ~Returned
  BY DEF SwitchInv, NoCallUnderWay, MarvellPhy, marvell_phy_data, marvell_phy_command,
         marvell_phy_poll, marvell_phy_fetch, Returned
<1>3. ASSUME smi' \in Smi, call' \in Call
      PROVE  SwitchTypeOK' /\ BmcrKept' /\ NoCallUnderWay'
  BY <1>1, <1>2, <1>3 DEF SwitchInv, SwitchTypeOK, BmcrKept, NoCallUnderWay, Returned, given, Smi
<1>4. CASE marvell_phy_data
  <2>1. smi' \in Smi /\ call' \in Call /\ ~smi'.busy
        /\ smi'.data = call.data /\ call' = [call EXCEPT !.stage = "command"]
    BY <1>1, <1>2, <1>4 DEF marvell_phy_data, Smi, Call, SwitchInv, BusyIsPolled
  <2>2. BusyIsPolled' /\ RegistersOfCall'
    BY <1>1, <1>2, <2>1 DEF BusyIsPolled, RegistersOfCall, Call
  <2>3. ControlWords'
    BY <1>1, <1>4, <2>1 DEF SwitchInv, ControlWords, Call
  <2> QED
    BY <1>3, <2>1, <2>2, <2>3 DEF SwitchInv
<1>5. CASE marvell_phy_command
  <2>1. smi' \in Smi /\ call' \in Call /\ smi'.busy /\ smi'.data = smi.data
        /\ smi'.op = call.op /\ smi'.port = call.port /\ smi'.reg = call.reg
        /\ call.stage = "command" /\ call' = [call EXCEPT !.stage = "poll"]
    BY <1>1, <1>5 DEF marvell_phy_command, Smi, Call
  <2>2. BusyIsPolled' /\ RegistersOfCall'
    BY <1>1, <2>1 DEF SwitchInv, BusyIsPolled, RegistersOfCall, Call
  <2>3. ControlWords'
    BY <1>1, <2>1 DEF SwitchInv, ControlWords, RegistersOfCall, Call
  <2> QED
    BY <1>3, <2>1, <2>2, <2>3 DEF SwitchInv
<1>6. CASE marvell_phy_poll
  <2>1. ~smi.busy /\ UNCHANGED smi /\ call.stage = "poll" /\ call' \in Call
        /\ call' = [call EXCEPT !.stage = call'.stage]
        /\ call'.stage = IF call.op = "read" THEN "fetch" ELSE "idle"
    BY <1>1, <1>6 DEF marvell_phy_poll, Ready, switch, Call
  <2>2. BusyIsPolled' /\ RegistersOfCall'
    BY <1>1, <2>1 DEF SwitchInv, BusyIsPolled, RegistersOfCall, Call
  <2>3. ControlWords'
    BY <1>1, <2>1 DEF SwitchInv, ControlWords, Call
  <2> QED
    BY <1>1, <1>3, <2>1, <2>2, <2>3 DEF SwitchInv
<1>7. CASE marvell_phy_fetch
  <2>1. ~smi.busy /\ UNCHANGED smi /\ call.stage = "fetch" /\ call.op = "read" /\ call' \in Call
        /\ call' = [call EXCEPT !.data = smi.data, !.stage = "idle"]
    BY <1>1, <1>2, <1>7 DEF marvell_phy_fetch, switch, Call, Smi, SwitchInv, BusyIsPolled, RegistersOfCall
  <2>2. BusyIsPolled' /\ RegistersOfCall'
    BY <1>1, <2>1 DEF BusyIsPolled, RegistersOfCall, Call
  <2>3. ControlWords'
    BY <1>1, <2>1 DEF SwitchInv, ControlWords, Call
  <2> QED
    BY <1>1, <1>3, <2>1, <2>2, <2>3 DEF SwitchInv
<1> QED
  BY <1>4, <1>5, <1>6, <1>7 DEF MarvellPhy

-----------------------------------------------------------------------------
(* board_phy_config and the script start a call, or go on without one.      *)
Labels == {"off", "config", "ctrl", "read", "reset", "wait", "cpu", "id",
           "switch_ctrl", "speed_port2", "reset_port2", "done"}
Controls == [cpu : SUBSET PortBits, port6 : SUBSET PortBits]
Unoccupied == {"off", "config", "cpu", "switch_ctrl", "done"}

LEMMA CallStarts ==
  ASSUME SwitchInv, Returned, spc # "off", UNCHANGED <<given, switch>>,
         NEW p \in Ports, NEW r \in Registers, NEW w \in Words, r = "BMCR" => w.word = "bmcr",
         call' = Read(p, r) \/ call' = Write(p, r, w),
         control' \in Controls, i' \in 0 .. 5, spc' \in Labels \ Unoccupied,
         spc' = "read" => r = "BMCR"
  PROVE  SwitchInv'
<1>1. call' \in Call /\ call'.reg = r /\ (r = "BMCR" => call'.data.word = "bmcr")
      /\ \/ call'.op = "read" /\ call'.stage = "command"
         \/ call'.op = "write" /\ call'.stage = "data"
  BY CallTypes, CallFields
<1>2. SwitchTypeOK' /\ BmcrKept'
  BY <1>1 DEF SwitchInv, SwitchTypeOK, BmcrKept, given, switch, Labels, Controls
<1>3. NoCallUnderWay' /\ BusyIsPolled'
  BY DEF SwitchInv, NoCallUnderWay, BusyIsPolled, Returned, Unoccupied, switch
<1>4. RegistersOfCall'
  BY <1>1 DEF RegistersOfCall
<1>5. ControlWords'
  BY <1>1 DEF SwitchInv, ControlWords, switch
<1> QED
  BY <1>2, <1>3, <1>4, <1>5 DEF SwitchInv

LEMMA NoCallStarts ==
  ASSUME SwitchInv, Returned, spc # "off", UNCHANGED <<given, switch, call>>,
         control' \in Controls, i' \in 0 .. 5, spc' \in Labels \ {"read"}
  PROVE  SwitchInv'
<1>1. SwitchTypeOK' /\ BmcrKept'
  BY DEF SwitchInv, SwitchTypeOK, BmcrKept, given, switch, Labels, Controls
<1>2. NoCallUnderWay' /\ BusyIsPolled'
  BY DEF SwitchInv, NoCallUnderWay, BusyIsPolled, Returned, switch
<1>3. RegistersOfCall' /\ ControlWords'
  BY DEF SwitchInv, RegistersOfCall, ControlWords, Returned, switch
<1> QED
  BY <1>1, <1>2, <1>3 DEF SwitchInv

LEMMA PortSetUp ==
  ASSUME SwitchInv, Returned, spc # "off", UNCHANGED <<given, switch, control>>,
         NEW n \in 0 .. 5, SetPort(n)
  PROVE  SwitchInv'
<1>1. PortOf(n) \in Ports /\ "CTRL1000" \in Registers /\ Word(Told(n)) \in Words
  BY PortsAndSpeeds, WordTypes DEF Registers, Values
<1>2. control' \in Controls
  BY DEF SwitchInv, SwitchTypeOK, Controls
<1> QED
  BY <1>1, <1>2, CallStarts DEF SetPort, Labels, Unoccupied

LEMMA NextPortSetUp ==
  ASSUME SwitchInv, Returned, spc # "off", UNCHANGED <<given, switch, control>>, NextPort
  PROVE  SwitchInv'
<1>1. CASE i < Last
  <2>1. i + 1 \in 0 .. 5 /\ SetPort(i + 1)
    BY <1>1, PortsAndSpeeds DEF SwitchInv, SwitchTypeOK, NextPort, Last
  <2> QED
    BY <2>1, PortSetUp
<1>2. CASE ~(i < Last)
  BY <1>2, NoCallStarts DEF NextPort, SwitchInv, SwitchTypeOK, Controls, Labels
<1> QED
  BY <1>1, <1>2

LEMMA BoardPhyConfigKeeps ==
  ASSUME SwitchInv, PhyConfig \/ SpeedWritten \/ BmcrRead \/ ResetWritten \/ ResetPolled
                    \/ CpuPort \/ ExternalPort
  PROVE  SwitchInv'
<1>1. /\ i \in 0 .. 5 /\ control \in Controls /\ call.data \in Words /\ PortOf(i) \in Ports
      /\ "BMCR" \in Registers /\ "ID" \in Registers /\ 6 \in Ports /\ "ID" # "BMCR"
  BY PortsAndSpeeds DEF SwitchInv, SwitchTypeOK, Controls, Registers, Ports, Call
<1>0. Word("bmcr") \in Words /\ Word("bmcr").word = "bmcr"
  BY WordTypes DEF Word
<1>2. CASE PhyConfig
  <2>1. Returned /\ spc # "off" /\ UNCHANGED <<given, switch, control>>
    BY <1>2 DEF PhyConfig, SwitchInv, NoCallUnderWay
  <2>2. CASE SetPort(0)
    BY <2>1, <2>2, PortSetUp
  <2>3. CASE spc' = "done" /\ UNCHANGED <<i, call>>
    BY <1>1, <2>1, <2>3, NoCallStarts DEF Labels
  <2> QED
    BY <1>2, <2>2, <2>3 DEF PhyConfig
<1>3. CASE SpeedWritten
  <2>1. CASE NextPort
    BY <1>3, <2>1, NextPortSetUp DEF SpeedWritten
  <2>2. CASE Goto("read", Read(PortOf(i), "BMCR"))
    BY <1>1, <1>3, <2>2, <1>0, CallStarts DEF SpeedWritten, Goto, Labels, Unoccupied
  <2> QED
    BY <1>3, <2>1, <2>2 DEF SpeedWritten
<1>4. CASE BmcrRead
  <2>1. WithReset(call.data) \in Words /\ WithReset(call.data).word = "bmcr"
    BY <1>1, <1>4 DEF BmcrRead, WithReset, Words, SwitchInv, ControlWords
  <2> QED
    BY <1>1, <1>4, <2>1, CallStarts DEF BmcrRead, Goto, Labels, Unoccupied
<1>5. CASE ResetWritten
  BY <1>1, <1>5, <1>0, CallStarts DEF ResetWritten, Goto, Labels, Unoccupied
<1>6. CASE ResetPolled
  <2>1. CASE NextPort
    BY <1>6, <2>1, NextPortSetUp DEF ResetPolled
  <2>2. CASE Goto("wait", Read(PortOf(i), "BMCR"))
    BY <1>1, <1>0, <1>6, <2>2, CallStarts DEF ResetPolled, Goto, Labels, Unoccupied
  <2> QED
    BY <1>6, <2>1, <2>2 DEF ResetPolled
<1>7. CASE CpuPort
  <2>1. Returned /\ control' \in Controls /\ UNCHANGED <<given, switch>>
    BY <1>1, <1>7 DEF CpuPort, SwitchInv, NoCallUnderWay, Controls, Added, PortBits
  <2> QED
    BY <1>1, <1>7, <2>1, CallStarts, NoCallStarts DEF CpuPort, Goto, Labels, Unoccupied
<1>8. CASE ExternalPort
  <2>1. control' \in Controls /\ UNCHANGED <<given, switch>>
    BY <1>1, <1>8 DEF ExternalPort, Controls, Added, Port6Bits, PortBits
  <2> QED
    BY <1>1, <1>8, <2>1, NoCallStarts DEF ExternalPort, Goto, Labels
<1> QED
  BY <1>2, <1>3, <1>4, <1>5, <1>6, <1>7, <1>8

LEMMA SwitchInitScriptKeeps ==
  ASSUME SwitchInv, switch_reset \/ switch_ctrl \/ switch_speed_port2 \/ switch_done
  PROVE  SwitchInv'
<1>1. /\ i \in 0 .. 5 /\ control \in Controls /\ 2 \in Ports
      /\ "BMCR" \in Registers /\ "CTRL1000" \in Registers /\ Word("fast") \in Words
      /\ [word |-> "bmcr", reset |-> TRUE] \in Words
  BY WordTypes DEF SwitchInv, SwitchTypeOK, Controls, Registers, Ports, Values, Speeds
<1>2. CASE switch_reset
  <2>1. Returned /\ spc' = "switch_ctrl" /\ UNCHANGED <<given, control, call, i>>
        /\ ~smi'.busy /\ smi' = [smi EXCEPT !.busy = FALSE]
    BY <1>2 DEF switch_reset, Goto, SwitchInv, SwitchTypeOK, NoCallUnderWay
  <2>2. phy' \in [Ports -> Phy] /\ BmcrKept'
    BY <1>2, WordTypes DEF switch_reset, Phy, Values, Speeds, BmcrKept, Word
  <2>3. SwitchTypeOK'
    BY <2>1, <2>2 DEF SwitchInv, SwitchTypeOK, given, Phy
  <2>4. NoCallUnderWay' /\ BusyIsPolled' /\ RegistersOfCall' /\ ControlWords'
    BY <2>1 DEF NoCallUnderWay, BusyIsPolled, RegistersOfCall, ControlWords, Returned, SwitchInv
  <2> QED
    BY <2>2, <2>3, <2>4 DEF SwitchInv
<1>3. CASE switch_ctrl
  <2>1. Returned /\ control' \in Controls /\ UNCHANGED <<given, switch>>
    BY <1>3 DEF switch_ctrl, SwitchInv, NoCallUnderWay, Controls
  <2> QED
    BY <1>1, <1>3, <2>1, CallStarts DEF switch_ctrl, Goto, Labels, Unoccupied
<1>4. CASE switch_speed_port2
  BY <1>1, <1>4, CallStarts DEF switch_speed_port2, Goto, Labels, Unoccupied
<1>5. CASE switch_done
  BY <1>1, <1>5, NoCallStarts DEF switch_done, Goto, Labels
<1> QED
  BY <1>2, <1>3, <1>4, <1>5

LEMMA SwitchStartKeeps == ASSUME SwitchInv, SwitchStart PROVE SwitchInv'
<1>1. Returned /\ ~smi.busy /\ spc' = "config" /\ lanspeed' \in Lanspeeds
      /\ UNCHANGED <<sboard, marvell, port6, smi, phy, control, call, i>>
  BY DEF SwitchStart, SwitchInv, NoCallUnderWay, switch
<1>2. SwitchTypeOK' /\ BmcrKept'
  BY <1>1 DEF SwitchInv, SwitchTypeOK, BmcrKept
<1> QED
  BY <1>1, <1>2 DEF SwitchInv, NoCallUnderWay, BusyIsPolled, RegistersOfCall, ControlWords, Returned

LEMMA SwitchResetKeeps == ASSUME SwitchInv, SwitchReset PROVE SwitchInv'
<1>1. spc' = "off" /\ call' = NoCall /\ i' = 0 /\ UNCHANGED <<given, smi, phy, control>>
  BY DEF SwitchReset, switch
<1>2. 0 \in Ports /\ "BMCR" \in Registers /\ Word("bmcr") \in Words
  BY WordTypes DEF Ports, Registers, Values
<1>3. call' \in Call /\ call'.op = "read" /\ call'.stage = "idle" /\ call'.data.word = "bmcr"
  BY <1>1, <1>2, CallTypes, CallFields
<1>4. SwitchTypeOK' /\ BmcrKept'
  BY <1>1, <1>3 DEF SwitchInv, SwitchTypeOK, BmcrKept, given
<1>5. NoCallUnderWay' /\ BusyIsPolled' /\ RegistersOfCall'
  BY <1>1, <1>3 DEF NoCallUnderWay, BusyIsPolled, RegistersOfCall, Returned
<1>6. ControlWords'
  BY <1>1, <1>3 DEF SwitchInv, ControlWords
<1> QED
  BY <1>4, <1>5, <1>6 DEF SwitchInv

LEMMA SwitchInvNext == SwitchInv /\ [SwitchNext]_svars => SwitchInv'
<1> SUFFICES ASSUME SwitchInv, [SwitchNext]_svars PROVE SwitchInv'
  OBVIOUS
<1>1. CASE UNCHANGED svars
  BY <1>1 DEF svars, given, switch, SwitchInv, SwitchTypeOK, NoCallUnderWay, BusyIsPolled,
              RegistersOfCall, ControlWords, BmcrKept, Returned
<1>2. CASE SwitchNext
  BY <1>2, SmiDoneKeeps, PhyResetDoneKeeps, MarvellPhyKeeps, BoardPhyConfigKeeps,
     SwitchInitScriptKeeps, SwitchStartKeeps, SwitchResetKeeps
  DEF SwitchNext, PhyDriver, SwitchStep
<1> QED
  BY <1>1, <1>2

-----------------------------------------------------------------------------
(* For SpeedAsTold: the ports whose turn is over, and how far the port in    *)
(* turn has come.  CarriedOut: the switch has done what the call asked for.  *)
Known == sboard \in {"imoc", "ivap"} /\ marvell
CarriedOut == call.stage \in {"fetch", "idle"} \/ (call.stage = "poll" /\ ~smi.busy)
ReadWord == IF Returned THEN call.data ELSE smi.data
InEffect(n) == phy[PortOf(n)].speed = Told(n)
PortSet(n) ==
  /\ phy[PortOf(n)].ctrl = Told(n)
  /\ PortOf(n) # 6 => InEffect(n) /\ ~phy[PortOf(n)].bmcr.reset
Restarted(n) == phy[PortOf(n)].bmcr.reset \/ InEffect(n)

InTurn(n) ==
  /\ Known /\ n <= Last /\ call.port = PortOf(n)
  /\ \A m \in 0 .. n - 1 : PortSet(m)

CtrlStep(n) ==
  /\ call.op = "write" /\ call.reg = "CTRL1000" /\ call.data.word = Told(n)
  /\ CarriedOut => phy[PortOf(n)].ctrl = Told(n)
BmcrStep(n) == PortOf(n) # 6 /\ call.reg = "BMCR" /\ phy[PortOf(n)].ctrl = Told(n)
ReadStep == call.op = "read"
ResetStep(n) ==
  /\ call.op = "write" /\ call.data.reset
  /\ CarriedOut => Restarted(n)
WaitStep(n) ==
  /\ call.op = "read" /\ Restarted(n)
  /\ CarriedOut => ReadWord.reset \/ PortSet(n)

PortInTurn(n) ==
  /\ spc \in {"ctrl", "read", "reset", "wait"} => InTurn(n)
  /\ spc = "ctrl" => CtrlStep(n)
  /\ spc \in {"read", "reset", "wait"} => BmcrStep(n)
  /\ spc = "read" => ReadStep
  /\ spc = "reset" => ResetStep(n)
  /\ spc = "wait" => WaitStep(n)

AllPorts == spc \in {"cpu", "id", "done"} /\ Known => \A n \in 0 .. Last : PortSet(n)

OtherCalls ==
  /\ spc = "id" => call.op = "read"
  /\ spc \in {"switch_ctrl", "speed_port2", "reset_port2"} => sboard = "himx8"

SpeedInv ==
  /\ SwitchInv
  /\ \A n \in 0 .. 5 : i = n => PortInTurn(n)
  /\ AllPorts
  /\ OtherCalls

LEMMA PortFacts ==
  /\ Last \in 0 .. 5
  /\ \A n \in 0 .. 5 : PortOf(n) \in Ports /\ Told(n) \in Values
  /\ \A m, n \in 0 .. 5 : m # n => PortOf(m) # PortOf(n)
BY DEF PortOf, Last, Ports, Told, Values, Speeds

(* What depends on the board and lanspeed alone does not change. *)
LEMMA GivenKept ==
  ASSUME UNCHANGED given
  PROVE  /\ Last' = Last /\ (Known' <=> Known) /\ sboard' = sboard
         /\ \A n \in 0 .. 5 : PortOf(n)' = PortOf(n) /\ Told(n)' = Told(n)
BY DEF given, Last, Known, PortOf, Told

LEMMA PortsKept ==
  ASSUME UNCHANGED <<given, phy>>
  PROVE  \A n \in 0 .. 5 : (PortSet(n)' <=> PortSet(n)) /\ (Restarted(n)' <=> Restarted(n))
BY GivenKept, Zenon DEF PortSet, InEffect, Restarted

(* The accesses of a call disturb nothing. *)
LEMMA MarvellPhyKeepsSpeed == ASSUME SpeedInv, MarvellPhy PROVE SpeedInv'
<1>1. smi \in Smi /\ call \in Call /\ UNCHANGED <<given, phy, control, i, spc>>
  BY DEF SpeedInv, SwitchInv, SwitchTypeOK, MarvellPhy, marvell_phy_data, marvell_phy_command,
         marvell_phy_poll, marvell_phy_fetch, Smi, switch
<1>2. call'.op = call.op /\ call'.port = call.port /\ call'.reg = call.reg
      /\ (call.op = "write" => call'.data = call.data)
  BY <1>1 DEF MarvellPhy, marvell_phy_data, marvell_phy_command,
         marvell_phy_poll, marvell_phy_fetch, Call, SpeedInv, SwitchInv, RegistersOfCall
<1>3. CarriedOut' => CarriedOut /\ (call.op = "read" => ReadWord' = ReadWord)
  BY <1>1 DEF MarvellPhy, marvell_phy_data, marvell_phy_command, marvell_phy_poll,
         marvell_phy_fetch, Call, Smi, CarriedOut, ReadWord, Returned, Ready, switch
<1>4. SwitchInv'
  BY MarvellPhyKeeps DEF SpeedInv
<1>5. Last' = Last /\ Last \in 0 .. 5
  BY <1>1, GivenKept, PortFacts
<1>6. AllPorts'
  BY <1>1, <1>5, GivenKept, PortsKept DEF SpeedInv, AllPorts
<1>7. OtherCalls'
  BY <1>1, <1>2, GivenKept DEF SpeedInv, OtherCalls
<1>8. ASSUME NEW n \in 0 .. 5, i' = n PROVE PortInTurn(n)'
  <2>1. PortInTurn(n)
    BY <1>1, <1>8 DEF SpeedInv
  <2>2. InTurn(n) => InTurn(n)'
    BY <1>1, <1>2, <1>5, GivenKept, PortsKept DEF InTurn
  <2>3. (CtrlStep(n) => CtrlStep(n)') /\ (BmcrStep(n) => BmcrStep(n)')
    BY <1>1, <1>2, <1>3, GivenKept, Zenon DEF CtrlStep, BmcrStep
  <2>4. (ResetStep(n) => ResetStep(n)') /\ (ReadStep => ReadStep')
    BY <1>1, <1>2, <1>3, PortsKept, Zenon DEF ResetStep, ReadStep
  <2>5. WaitStep(n) => WaitStep(n)'
    BY <1>1, <1>2, <1>3, PortsKept, Zenon DEF WaitStep
  <2> QED
    BY <1>1, <2>1, <2>2, <2>3, <2>4, <2>5, Zenon DEF PortInTurn
<1> QED
  BY <1>4, <1>6, <1>7, <1>8 DEF SpeedInv

(* A PHY leaves its reset with the speed it was told. *)
LEMMA PhyResetDoneKeepsSpeed == ASSUME SpeedInv, NEW p \in Ports, PhyResetDone(p) PROVE SpeedInv'
<1>1. phy \in [Ports -> Phy] /\ phy[p].bmcr.reset /\ UNCHANGED <<given, smi, control, call, i, spc>>
  BY DEF SpeedInv, SwitchInv, SwitchTypeOK, PhyResetDone, Phy
<1>2. \A q \in Ports : q # p => phy'[q] = phy[q]
  BY <1>1 DEF PhyResetDone
<1>3. phy'[p].ctrl = phy[p].ctrl /\ phy'[p].speed = phy[p].ctrl /\ ~phy'[p].bmcr.reset
  BY <1>1 DEF PhyResetDone, Phy, Words
<1>4. SwitchInv' /\ Last' = Last /\ Last \in 0 .. 5
  BY <1>1, PhyResetDoneKeeps, GivenKept, PortFacts DEF SpeedInv
<1>5. \A n \in 0 .. 5 : /\ PortSet(n) => PortSet(n)'
                      /\ (phy[PortOf(n)].ctrl = Told(n) => phy'[PortOf(n)].ctrl = Told(n))
                      /\ (phy[PortOf(n)].ctrl = Told(n) /\ Restarted(n) => Restarted(n)')
  <2> SUFFICES ASSUME NEW n \in 0 .. 5
               PROVE  /\ PortSet(n) => PortSet(n)'
                      /\ (phy[PortOf(n)].ctrl = Told(n) => phy'[PortOf(n)].ctrl = Told(n))
                      /\ (phy[PortOf(n)].ctrl = Told(n) /\ Restarted(n) => Restarted(n)')
    OBVIOUS
  <2>1. PortOf(n) \in Ports /\ PortOf(n)' = PortOf(n) /\ Told(n)' = Told(n)
    BY <1>1, PortFacts, GivenKept
  <2> QED
    BY <1>1, <1>2, <1>3, <2>1, Zenon DEF PortSet, Restarted, InEffect
<1>6. AllPorts' /\ OtherCalls'
  BY <1>1, <1>4, <1>5, GivenKept DEF SpeedInv, AllPorts, OtherCalls
<1>7. ASSUME NEW n \in 0 .. 5, i' = n PROVE PortInTurn(n)'
  <2>1. PortInTurn(n) /\ PortOf(n)' = PortOf(n) /\ Told(n)' = Told(n)
        /\ CarriedOut' = CarriedOut /\ ReadWord' = ReadWord
    BY <1>1, <1>7, GivenKept DEF SpeedInv, CarriedOut, ReadWord, Returned
  <2>2. InTurn(n) => InTurn(n)'
    BY <1>1, <1>4, <1>5, GivenKept DEF InTurn
  <2>3. (CtrlStep(n) => CtrlStep(n)') /\ (BmcrStep(n) => BmcrStep(n)') /\ (ReadStep => ReadStep')
    BY <1>1, <1>5, <2>1, Zenon DEF CtrlStep, BmcrStep, ReadStep
  <2>4. BmcrStep(n) /\ ResetStep(n) => ResetStep(n)'
    BY <1>1, <1>5, <2>1, Zenon DEF ResetStep, BmcrStep
  <2>5. BmcrStep(n) /\ WaitStep(n) => WaitStep(n)'
    BY <1>1, <1>5, <2>1, Zenon DEF WaitStep, BmcrStep
  <2> QED
    BY <1>1, <2>1, <2>2, <2>3, <2>4, <2>5 DEF PortInTurn
<1> QED
  BY <1>4, <1>6, <1>7 DEF SpeedInv

(* The switch carries out what the call in turn asks for. *)
LEMMA SmiDoneKeepsSpeed == ASSUME SpeedInv, SmiDone PROVE SpeedInv'
<1>1. /\ smi \in Smi /\ smi.busy /\ phy \in [Ports -> Phy] /\ call \in Call
      /\ UNCHANGED <<given, control, call, i, spc>>
  BY DEF SpeedInv, SwitchInv, SwitchTypeOK, SmiDone, Smi, Phy
<1>2. SwitchInv' /\ Last' = Last /\ Last \in 0 .. 5
  BY <1>1, SmiDoneKeeps, GivenKept, PortFacts DEF SpeedInv
<1>3. CASE spc = "off"
  BY <1>1, <1>2, <1>3 DEF SpeedInv, AllPorts, OtherCalls, PortInTurn
<1>4. CASE spc # "off"
  <2>1. /\ call.stage = "poll" /\ smi.op = call.op /\ smi.port = call.port /\ smi.reg = call.reg
        /\ (call.op = "write" => smi.data = call.data)
        /\ spc \notin {"cpu", "done"}
    BY <1>1, <1>4 DEF SpeedInv, SwitchInv, BusyIsPolled, RegistersOfCall, NoCallUnderWay, Returned
  <2>2. call.op = "read" => /\ UNCHANGED phy
                            /\ smi'.data = Content(call.port, call.reg)
    BY <1>1, <2>1 DEF SmiDone, Smi
  <2>3. call.op = "write" => phy' = Carried(call.port, call.reg, call.data)
    BY <1>1, <2>1 DEF SmiDone
  <2>4. \A q \in Ports : q # call.port => phy'[q] = phy[q]
    BY <1>1, <2>2, <2>3 DEF Carried, Call
  <2>5. call.op = "write" /\ call.reg = "CTRL1000" => phy'[call.port].ctrl = call.data.word
    BY <1>1, <2>3 DEF Carried, Call, Phy
  <2>6. call.op = "write" /\ call.reg = "BMCR" =>
          phy'[call.port].bmcr = call.data /\ phy'[call.port].ctrl = phy[call.port].ctrl
    BY <1>1, <2>3 DEF Carried, Call, Phy
  <2>7. call.op = "read" /\ call.reg = "BMCR" => smi'.data = phy[call.port].bmcr
    BY <2>2 DEF Content
  <2>8. AllPorts' /\ OtherCalls'
    <3>1. spc = "id" => UNCHANGED phy
      BY <2>2 DEF SpeedInv, OtherCalls
    <3>2. spc = "id" => AllPorts'
      BY <1>1, <1>2, <3>1, GivenKept, PortsKept DEF SpeedInv, AllPorts
    <3> QED
      BY <1>1, <2>1, <3>2, GivenKept DEF SpeedInv, AllPorts, OtherCalls
  <2>9. ASSUME NEW n \in 0 .. 5, i' = n PROVE PortInTurn(n)'
    <3>1. PortInTurn(n) /\ PortOf(n)' = PortOf(n) /\ Told(n)' = Told(n) /\ PortOf(n) \in Ports
      BY <1>1, <2>9, GivenKept, PortFacts DEF SpeedInv
    <3>2. InTurn(n) => InTurn(n)'
      <4> SUFFICES ASSUME InTurn(n), NEW m \in 0 .. n - 1 PROVE PortSet(m)'
        BY <1>1, <1>2, <3>1, GivenKept DEF InTurn
      <4>1. m \in 0 .. 5 /\ PortOf(m) \in Ports /\ PortOf(m) # call.port /\ PortSet(m)
            /\ PortOf(m)' = PortOf(m) /\ Told(m)' = Told(m)
        BY <1>1, PortFacts, GivenKept DEF InTurn
      <4> QED
        BY <2>4, <4>1, Zenon DEF PortSet, InEffect
    <3>3. spc = "ctrl" => CtrlStep(n)'
      BY <1>1, <2>5, <3>1 DEF CtrlStep, PortInTurn, InTurn
    <3>4. spc \in {"read", "reset", "wait"} => BmcrStep(n)'
      BY <1>1, <2>2, <2>6, <3>1 DEF BmcrStep, ReadStep, ResetStep, WaitStep, PortInTurn, InTurn, Call
    <3>5. spc = "reset" => ResetStep(n)'
      BY <1>1, <2>6, <3>1 DEF BmcrStep, ResetStep, Restarted, PortInTurn, InTurn
    <3>6. spc = "wait" => WaitStep(n)'
      BY <1>1, <2>1, <2>2, <2>7, <3>1
      DEF BmcrStep, WaitStep, ReadWord, Returned, Restarted, PortSet, InEffect, PortInTurn, InTurn
    <3> QED
      BY <1>1, <3>1, <3>2, <3>3, <3>4, <3>5, <3>6 DEF PortInTurn, ReadStep
  <2> QED
    BY <1>2, <2>8, <2>9 DEF SpeedInv
<1> QED
  BY <1>3, <1>4

(* One port after the other: SetPort begins a turn when all before are set. *)
LEMMA PortBegins ==
  ASSUME SpeedInv, UNCHANGED <<given, switch>>, Known,
         NEW n \in 0 .. 5, n <= Last, SetPort(n), \A m \in 0 .. n - 1 : PortSet(m)
  PROVE  AllPorts' /\ OtherCalls' /\ \A k \in 0 .. 5 : i' = k => PortInTurn(k)'
<1>1. PortOf(n) \in Ports /\ Told(n) \in Values /\ Word(Told(n)) \in Words /\ "CTRL1000" \in Registers
      /\ Word(Told(n)).word = Told(n)
  BY PortFacts, WordTypes DEF Registers, Word
<1>2. call'.op = "write" /\ call'.port = PortOf(n) /\ call'.reg = "CTRL1000"
      /\ call'.stage = "data" /\ call'.data.word = Told(n) /\ i' = n /\ spc' = "ctrl"
  BY <1>1, CallFields DEF SetPort
<1>3. UNCHANGED phy /\ Last' = Last /\ Known' /\ Last \in 0 .. 5
      /\ PortOf(n)' = PortOf(n) /\ Told(n)' = Told(n)
  BY GivenKept, PortFacts DEF switch
<1>4. InTurn(n)'
  BY <1>2, <1>3, PortsKept DEF InTurn
<1>5. CtrlStep(n)'
  BY <1>2, <1>3 DEF CtrlStep, CarriedOut
<1> QED
  BY <1>2, <1>4, <1>5 DEF AllPorts, OtherCalls, PortInTurn

LEMMA NextPortBegins ==
  ASSUME SpeedInv, Returned, spc \in {"ctrl", "wait"}, UNCHANGED <<given, switch, control>>, NextPort,
         PortSet(i)
  PROVE  SpeedInv'
<1>1. i \in 0 .. 5 /\ Last \in 0 .. 5 /\ PortInTurn(i) /\ SwitchInv'
  BY NextPortSetUp, PortFacts DEF SpeedInv, SwitchInv, SwitchTypeOK
<1>2. InTurn(i)
  BY <1>1 DEF PortInTurn
<1>3. Known /\ i <= Last /\ \A m \in 0 .. i : PortSet(m)
  BY <1>1, <1>2 DEF InTurn
<1>4. CASE i < Last
  <2>1. i + 1 \in 0 .. 5 /\ i + 1 <= Last /\ SetPort(i + 1) /\ 0 .. (i + 1) - 1 = 0 .. i
    BY <1>1, <1>4 DEF NextPort
  <2>2. AllPorts' /\ OtherCalls' /\ \A k \in 0 .. 5 : i' = k => PortInTurn(k)'
    BY <1>3, <2>1, PortBegins
  <2> QED
    BY <1>1, <2>2 DEF SpeedInv
<1>5. CASE ~(i < Last)
  <2>1. spc' = "cpu" /\ Last = i /\ UNCHANGED <<given, phy>>
    BY <1>1, <1>3, <1>5 DEF NextPort, switch
  <2>2. AllPorts'
    BY <1>1, <1>3, <2>1, GivenKept, PortsKept DEF AllPorts
  <2> QED
    BY <1>1, <2>1, <2>2 DEF SpeedInv, OtherCalls, PortInTurn
<1> QED
  BY <1>4, <1>5

(* The calls of one turn. *)
LEMMA BmcrCallBegins ==
  ASSUME SpeedInv, Returned, spc \in {"ctrl", "read", "reset", "wait"},
         UNCHANGED <<given, switch, control, i>>, PortOf(i) # 6, phy[PortOf(i)].ctrl = Told(i),
         call'.port = PortOf(i), call'.reg = "BMCR", call'.stage \in {"data", "command"},
         \/ spc' = "read" /\ call'.op = "read"
         \/ spc' = "reset" /\ call'.op = "write" /\ call'.data.reset
         \/ spc' = "wait" /\ call'.op = "read" /\ Restarted(i),
         SwitchInv'
  PROVE  SpeedInv'
<1>1. i \in 0 .. 5 /\ Last \in 0 .. 5 /\ PortInTurn(i) /\ UNCHANGED <<given, phy, i>>
  BY PortFacts DEF SpeedInv, SwitchInv, SwitchTypeOK, switch
<1>2. InTurn(i) /\ ~CarriedOut'
  BY <1>1 DEF PortInTurn, CarriedOut
<1>3. ASSUME NEW n \in 0 .. 5, i' = n PROVE PortInTurn(n)'
  <2>1. PortOf(n)' = PortOf(n) /\ Told(n)' = Told(n) /\ i = n /\ (Restarted(n)' <=> Restarted(n))
    BY <1>1, <1>3, GivenKept, PortsKept
  <2>2. InTurn(n)'
    BY <1>1, <1>2, <2>1, GivenKept, PortsKept DEF InTurn
  <2>3. BmcrStep(n)'
    BY <1>1, <2>1 DEF BmcrStep
  <2>4. (spc' = "read" => ReadStep') /\ (spc' = "reset" => ResetStep(n)') /\ (spc' = "wait" => WaitStep(n)')
    BY <1>2, <2>1 DEF ReadStep, ResetStep, WaitStep
  <2> QED
    BY <2>2, <2>3, <2>4 DEF PortInTurn
<1>4. AllPorts' /\ OtherCalls'
  BY DEF AllPorts, OtherCalls
<1> QED
  BY <1>3, <1>4 DEF SpeedInv

LEMMA TurnOver ==
  ASSUME SpeedInv, SpeedWritten \/ BmcrRead \/ ResetWritten \/ ResetPolled
  PROVE  SpeedInv'
<1>1. /\ i \in 0 .. 5 /\ PortOf(i) \in Ports /\ PortInTurn(i) /\ Returned /\ CarriedOut /\ SwitchInv'
      /\ call \in Call /\ "BMCR" \in Registers /\ UNCHANGED <<given, switch, control>>
  BY PortFacts, BoardPhyConfigKeeps
  DEF SpeedInv, SwitchInv, SwitchTypeOK, SpeedWritten, BmcrRead, ResetWritten, ResetPolled,
      CarriedOut, Returned, Registers
<1>2. Word("bmcr") \in Words
  BY WordTypes
<1>3. Read(PortOf(i), "BMCR").port = PortOf(i) /\ Read(PortOf(i), "BMCR").reg = "BMCR"
      /\ Read(PortOf(i), "BMCR").op = "read" /\ Read(PortOf(i), "BMCR").stage = "command"
  BY <1>1, <1>2, CallFields
<1>4. CASE SpeedWritten
  <2>1. phy[PortOf(i)].ctrl = Told(i)
    BY <1>1, <1>4 DEF SpeedWritten, PortInTurn, CtrlStep
  <2>2. CASE PortOf(i) = 6
    BY <1>1, <1>4, <2>1, <2>2, NextPortBegins DEF SpeedWritten, PortSet
  <2>3. CASE PortOf(i) # 6
    BY <1>1, <1>3, <1>4, <2>1, <2>3, BmcrCallBegins DEF SpeedWritten, Goto
  <2> QED
    BY <2>2, <2>3
<1>5. CASE BmcrRead
  <2>1. WithReset(call.data) \in Words /\ WithReset(call.data).reset
    BY <1>1 DEF WithReset, Words, Call
  <2>2. call' = Write(PortOf(i), "BMCR", WithReset(call.data)) /\ spc = "read" /\ spc' = "reset" /\ UNCHANGED i
    BY <1>5 DEF BmcrRead, Goto
  <2>3. call'.port = PortOf(i) /\ call'.reg = "BMCR" /\ call'.op = "write" /\ call'.stage = "data"
        /\ call'.data.reset
    BY <1>1, <2>1, <2>2, CallFields
  <2> QED
    BY <1>1, <2>2, <2>3, BmcrCallBegins DEF PortInTurn, BmcrStep
<1>6. CASE ResetWritten
  BY <1>1, <1>3, <1>6, BmcrCallBegins DEF ResetWritten, Goto, PortInTurn, BmcrStep, ResetStep
<1>7. CASE ResetPolled
  <2>1. CASE InReset(call.data)
    BY <1>1, <1>3, <1>7, <2>1, BmcrCallBegins DEF ResetPolled, Goto, PortInTurn, BmcrStep, WaitStep
  <2>2. CASE ~InReset(call.data)
    <3>1. PortSet(i)
      BY <1>1, <1>7, <2>2 DEF ResetPolled, InReset, PortInTurn, WaitStep, ReadWord
    <3> QED
      BY <1>1, <1>7, <2>2, <3>1, NextPortBegins DEF ResetPolled
  <2> QED
    BY <2>1, <2>2
<1> QED
  BY <1>4, <1>5, <1>6, <1>7

LEMMA BeforeAndAfterTurns ==
  ASSUME SpeedInv, PhyConfig \/ CpuPort \/ ExternalPort
  PROVE  SpeedInv'
<1>1. SwitchInv' /\ Last \in 0 .. 5 /\ UNCHANGED <<given, switch, phy>>
  BY PortFacts, BoardPhyConfigKeeps DEF SpeedInv, PhyConfig, CpuPort, ExternalPort, switch
<1>2. CASE PhyConfig /\ Known
  <2>1. SetPort(0) /\ 0 .. 0 - 1 = {} /\ 0 <= Last
    BY <1>1, <1>2 DEF PhyConfig, Known
  <2>2. AllPorts' /\ OtherCalls' /\ \A k \in 0 .. 5 : i' = k => PortInTurn(k)'
    BY <1>1, <1>2, <2>1, PortBegins
  <2> QED
    BY <1>1, <2>2 DEF SpeedInv
<1>3. CASE PhyConfig /\ ~Known
  <2>1. spc' = "done" /\ ~Known'
    BY <1>1, <1>3, GivenKept DEF PhyConfig, Known
  <2> QED
    BY <1>1, <2>1 DEF SpeedInv, AllPorts, OtherCalls, PortInTurn
<1>4. CASE CpuPort \/ ExternalPort
  <2>1. spc \in {"cpu", "id"} /\ spc' \in {"id", "done"}
    BY <1>4 DEF CpuPort, ExternalPort, Goto
  <2>2. spc' = "id" => call'.op = "read"
    <3>1. 6 \in Ports /\ "ID" \in Registers /\ Word("bmcr") \in Words
      BY WordTypes DEF Ports, Registers
    <3>2. Read(6, "ID").op = "read"
      BY <3>1, CallFields
    <3> QED
      BY <1>4, <3>2 DEF CpuPort, ExternalPort, Goto
  <2>3. AllPorts'
    BY <1>1, <2>1, GivenKept, PortsKept DEF SpeedInv, AllPorts
  <2> QED
    BY <1>1, <2>1, <2>2, <2>3 DEF SpeedInv, OtherCalls, PortInTurn
<1> QED
  BY <1>2, <1>3, <1>4

LEMMA SwitchInitScriptKeepsSpeed ==
  ASSUME SpeedInv, switch_reset \/ switch_ctrl \/ switch_speed_port2 \/ switch_done
  PROVE  SpeedInv'
<1>1. SwitchInv' /\ sboard = "himx8" /\ UNCHANGED given
      /\ spc' \in {"switch_ctrl", "speed_port2", "reset_port2", "done"}
  BY SwitchInitScriptKeeps
  DEF SpeedInv, OtherCalls, switch_reset, switch_ctrl, switch_speed_port2, switch_done, Goto
<1>2. sboard' = "himx8" /\ ~Known'
  BY <1>1, GivenKept DEF Known
<1> QED
  BY <1>1, <1>2 DEF SpeedInv, AllPorts, OtherCalls, PortInTurn

LEMMA SpeedInvNext == SpeedInv /\ [SwitchNext]_svars => SpeedInv'
<1> SUFFICES ASSUME SpeedInv, [SwitchNext]_svars PROVE SpeedInv'
  OBVIOUS
<1>1. SwitchInv'
  BY SwitchInvNext DEF SpeedInv
<1>2. CASE UNCHANGED svars
  <2>1. Last' = Last /\ Last \in 0 .. 5 /\ UNCHANGED <<given, phy, smi, call, i, spc>>
    BY <1>2, GivenKept, PortFacts DEF svars, switch
  <2>2. AllPorts' /\ OtherCalls'
    BY <2>1, GivenKept, PortsKept DEF SpeedInv, AllPorts, OtherCalls
  <2>3. ASSUME NEW n \in 0 .. 5, i' = n PROVE PortInTurn(n)'
    <3>1. PortInTurn(n) /\ PortOf(n)' = PortOf(n) /\ Told(n)' = Told(n)
          /\ CarriedOut' = CarriedOut /\ ReadWord' = ReadWord
      BY <2>1, <2>3, GivenKept DEF SpeedInv, CarriedOut, ReadWord, Returned
    <3>2. InTurn(n) => InTurn(n)'
      BY <2>1, <3>1, GivenKept, PortsKept DEF InTurn
    <3>3. (CtrlStep(n) => CtrlStep(n)') /\ (BmcrStep(n) => BmcrStep(n)') /\ (ReadStep => ReadStep')
          /\ (ResetStep(n) => ResetStep(n)') /\ (WaitStep(n) => WaitStep(n)')
      BY <2>1, <3>1, PortsKept, Zenon DEF CtrlStep, BmcrStep, ReadStep, ResetStep, WaitStep
    <3> QED
      BY <2>1, <3>1, <3>2, <3>3 DEF PortInTurn
  <2> QED
    BY <1>1, <2>2, <2>3 DEF SpeedInv
<1>3. CASE SwitchStart \/ SwitchReset
  <2>1. spc' \in {"off", "config"}
    BY <1>3 DEF SwitchStart, SwitchReset
  <2> QED
    BY <1>1, <2>1 DEF SpeedInv, AllPorts, OtherCalls, PortInTurn
<1>4. CASE PhyDriver
  BY <1>4, MarvellPhyKeepsSpeed, TurnOver, BeforeAndAfterTurns, SwitchInitScriptKeepsSpeed DEF PhyDriver
<1>5. CASE SwitchStep
  BY <1>5, SmiDoneKeepsSpeed, PhyResetDoneKeepsSpeed DEF SwitchStep
<1> QED
  BY <1>2, <1>3, <1>4, <1>5 DEF SwitchNext

-----------------------------------------------------------------------------
(* Whatever the board, lanspeed and the switch, the invariant holds. *)
THEOREM SwitchInvariant == SwitchSpec => []SpeedInv
<1>1. SwitchInit => SpeedInv
  <2> SUFFICES ASSUME SwitchInit PROVE SpeedInv
    OBVIOUS
  <2>1. SwitchInv
    BY SwitchInvInit
  <2> QED
    BY <2>1 DEF SwitchInit, SpeedInv, PortInTurn, AllPorts, OtherCalls
<1> QED
  BY <1>1, SpeedInvNext, PTL DEF SwitchSpec

(* The variables of the model of board_phy_config keep their types.         *)
THEOREM SwitchTypeCorrect == SwitchSpec => []SwitchTypeOK
<1>1. SpeedInv => SwitchTypeOK
  BY DEF SpeedInv, SwitchInv
<1> QED
  BY <1>1, SwitchInvariant, PTL

(* marvell_phy_read and marvell_phy_write touch the registers of the switch *)
(* only while it is not at work.                                            *)
THEOREM OneOperationAtATime == SwitchSpec => []OneOperation
<1>1. SpeedInv => OneOperation
  BY DEF SpeedInv, SwitchInv, BusyIsPolled, NoCallUnderWay, OneOperation, Returned
<1> QED
  BY <1>1, SwitchInvariant, PTL

(* set_phy_speed leaves the control registers of the PHYs as they were but  *)
(* for the reset.                                                           *)
THEOREM ControlRegistersKept == SwitchSpec => []BmcrKept
<1>1. SpeedInv => BmcrKept
  BY DEF SpeedInv, SwitchInv
<1> QED
  BY <1>1, SwitchInvariant, PTL

(* After board_phy_config the ports have the speeds of lanspeed, whatever   *)
(* lanspeed holds and at whatever moments switch and PHYs do their work.    *)
THEOREM PortsRunAsTold == SwitchSpec => []SpeedAsTold
<1>1. SpeedInv => SpeedAsTold
  BY DEF SpeedInv, AllPorts, SpeedAsTold, Known, PortSet, InEffect
<1> QED
  BY <1>1, SwitchInvariant, PTL
=============================================================================
