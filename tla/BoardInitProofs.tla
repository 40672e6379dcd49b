-------------------------- MODULE BoardInitProofs --------------------------
(***************************************************************************)
(* U-Boot's start as a whole runs board_phy_config as SwitchPhy describes  *)
(* it, so that what is proved of SwitchPhy holds of BoardInit.             *)
(***************************************************************************)
EXTENDS BoardInit, SwitchPhyProofs

LEMMA BoardStepIsSwitchStep == BoardStep => [SwitchNext]_svars
<1>1. NetStart \/ NetStep => SwitchNext
  BY DEF NetStart, NetStep, SwitchNext
<1>2. get_i2c_device \/ HoldSwitch \/ SetRail("0x66", "0x6d") \/ SetRail("0x6d", "release")
      \/ ReleaseSwitch \/ OtherBoardInit \/ has_i2c_device => UNCHANGED svars
  BY DEF get_i2c_device, HoldSwitch, SetRail, ReleaseSwitch, OtherBoardInit, has_i2c_device
<1>3. board_early_init_f \/ board_init \/ ChoosePanel \/ misc_init_r \/ LateInitPins \/ NetDone
      => UNCHANGED svars
  BY DEF board_early_init_f, board_init, ChoosePanel, misc_init_r, LateInitPins, NetDone
<1> QED
  BY <1>1, <1>2, <1>3 DEF BoardStep

(* Every step of the start is a step of the switch model or leaves it alone. *)
THEOREM BoardRunsSwitch == BoardSpec => SwitchSpec
<1>1. BoardInitial => SwitchInit
  BY DEF BoardInitial
<1>2. [BoardNext]_bvars => [SwitchNext]_svars
  <2>1. UNCHANGED bvars => UNCHANGED svars
    BY DEF bvars
  <2>2. Hardwired => SwitchNext
    BY DEF Hardwired, SwitchNext, SwitchStep
  <2>3. Usb => UNCHANGED svars
    BY DEF Usb, board_ehci_hcd_init, ReleaseHub, Enumerate
  <2>4. Reset => SwitchNext
    BY DEF Reset, SwitchNext
  <2> QED
    BY <2>1, <2>2, <2>3, <2>4, BoardStepIsSwitchStep DEF BoardNext
<1> QED
  BY <1>1, <1>2, PTL DEF BoardSpec, SwitchSpec

(* What OneOperation, BmcrKept and SpeedAsTold say of board_phy_config holds *)
(* between the other board functions and across resets too.                 *)
THEOREM BoardPortsRunAsTold == BoardSpec => [](OneOperation /\ BmcrKept /\ SpeedAsTold)
BY BoardRunsSwitch, OneOperationAtATime, ControlRegistersKept, PortsRunAsTold, PTL

-----------------------------------------------------------------------------
(* Pins: what the reset lines of the Ethernet switch and of the USB hub need *)
(* has been done by the time the code relies on it.                          *)
Gpio == [muxed : SUBSET Pins, claimed : SUBSET Pins, dir : [Pins -> {"in", "low", "high"}]]
SwitchLine == IF bpc \in {"0x66", "0x6d", "release"} THEN "switch_rst" \in gpio.claimed
              ELSE gpio.dir["switch_rst"] # "low"
HubClaimed ==
  bpc \in {"late_init", "net", "net_runs", "prompt", "usb_release", "enumerate"} /\ sboard = "ivap" =>
    "hub_rst" \in gpio.claimed
HubHeld == bpc = "usb_release" /\ sboard = "ivap" => "hub_rst" \in gpio.muxed /\ hub = "reset"

PinsInv == gpio \in Gpio /\ SwitchLine /\ HubClaimed /\ HubHeld /\ HubResetBeforeUse

(* Muxing and requesting lose no pin, a direction concerns one pin. *)
LEMMA GpioTypes ==
  /\ \A g \in Gpio, S \in SUBSET Pins : Mux(g, S) \in Gpio /\ Request(g, S) \in Gpio
  /\ \A g \in Gpio, p \in Pins, d \in {"in", "low", "high"} :
       Direction(g, p, d) \in Gpio /\ Output(g, p, d) \in Gpio
BY DEF Mux, Request, Direction, Output, Gpio

LEMMA PinInput ==
  \A g \in Gpio, p \in Pins :
    p \in g.claimed => /\ Direction(g, p, "in").claimed = g.claimed
                       /\ Direction(g, p, "in").muxed = g.muxed
                       /\ Direction(g, p, "in").dir[p] = "in"
BY DEF Direction, Gpio

LEMMA OtherDirections ==
  \A g \in Gpio, p \in Pins, q \in Pins, d \in {"in", "low", "high"} :
    q # p => Output(g, p, d).dir[q] = g.dir[q] /\ Direction(g, p, d).dir[q] = g.dir[q]
BY DEF Direction, Output, Gpio

LEMMA PinEffects ==
  /\ \A g \in Gpio, S \in SUBSET Pins :
       /\ Mux(g, S).muxed = g.muxed \cup S /\ Mux(g, S).claimed = g.claimed
       /\ Request(g, S).claimed = g.claimed \cup S /\ Request(g, S).muxed = g.muxed
       /\ Mux(g, S).dir = g.dir /\ Request(g, S).dir = g.dir
  /\ \A g \in Gpio, p \in Pins, d \in {"in", "low", "high"} :
       /\ Direction(g, p, d).claimed = g.claimed /\ Direction(g, p, d).muxed = g.muxed
       /\ Output(g, p, d).claimed = g.claimed /\ Output(g, p, d).muxed = g.muxed
       /\ p \in g.claimed => Output(g, p, d).dir[p] = d
BY DEF Mux, Request, Direction, Output, Gpio

(* Steps that touch no pin and end where nothing is asked of the pins. *)
LEMMA PinsStay ==
  ASSUME PinsInv, UNCHANGED sboard, gpio' \in Gpio,
         gpio' = gpio \/ (gpio'.claimed = gpio.claimed /\ gpio'.dir = gpio.dir /\ sboard # "ivap"),
         \/ UNCHANGED <<bpc, hub>>
         \/ bpc = "board_init" /\ bpc' \in {"board_init", "video", "reset_low"}
         \/ bpc \in {"late_init", "net", "net_runs", "enumerate"}
            /\ bpc' \in {"net", "net_runs", "prompt"}
         \/ sboard # "ivap" /\ bpc \in {"board_init", "late_init"} /\ bpc' = "late_init"
         \/ bpc \in {"0x66", "0x6d"} /\ bpc' \in {"0x6d", "release"}
  PROVE  PinsInv'
BY DEF PinsInv, SwitchLine, HubClaimed, HubHeld, HubResetBeforeUse

LEMMA StartKeepsPins ==
  ASSUME PinsInv, board_early_init_f \/ board_init \/ ChoosePanel \/ misc_init_r \/ LateInitPins
  PROVE  PinsInv'
<1>1. /\ gpio \in Gpio /\ UNCHANGED sboard
      /\ "otg_pwr" \in Pins /\ "hub_rst" \in Pins /\ "dvrec" \in Pins /\ "usb_en" \in Pins
      /\ "touch" \in Pins /\ "unnamed" \in Pins /\ "backlight" \in Pins /\ "rev2" \in Pins
      /\ "switch_rst" \in Pins /\ bpc \notin {"0x66", "0x6d", "release"} /\ gpio.dir["switch_rst"] # "low"
  BY DEF PinsInv, SwitchLine, Step, Pins, board_early_init_f, board_init, ChoosePanel, misc_init_r, LateInitPins, svars, given
<1>2. misc_pads \in SUBSET Pins
  BY <1>1 DEF misc_pads
<1>3. ASSUME gpio' \in Gpio, gpio'.dir["switch_rst"] # "low", bpc' \in {"board_init", "video", "misc_init_r"} PROVE PinsInv'
  BY <1>3 DEF PinsInv, SwitchLine, HubClaimed, HubHeld, HubResetBeforeUse
<1>4. CASE board_early_init_f
  <2>1. Mux(gpio, {"backlight"}) \in Gpio
    BY <1>1, GpioTypes
  <2>2. gpio' = gpio \/ gpio' = Direction(Mux(gpio, {"backlight"}), "backlight", "in")
    BY <1>4 DEF board_early_init_f, setup_display
  <2>3. gpio' \in Gpio
    BY <1>1, <2>1, <2>2, GpioTypes
  <2>4. Mux(gpio, {"backlight"}).dir = gpio.dir
    BY <1>1, PinEffects
  <2>5. gpio'.dir["switch_rst"] # "low"
    BY <1>1, <2>1, <2>2, <2>4, OtherDirections
  <2> QED
    BY <1>3, <1>4, <2>3, <2>5 DEF board_early_init_f, Step
<1>5. CASE board_init
  <2>1. Mux(gpio, misc_pads) \in Gpio
    BY <1>1, <1>2, GpioTypes
  <2>2. \A g \in Gpio : BoardPins(g) \in Gpio /\ BoardPins(g).dir["switch_rst"] = g.dir["switch_rst"]
    <3> SUFFICES ASSUME NEW g \in Gpio
                 PROVE  BoardPins(g) \in Gpio /\ BoardPins(g).dir["switch_rst"] = g.dir["switch_rst"]
      OBVIOUS
    <3>1. Request(g, {"usb_en", "touch"}) \in Gpio /\ Request(g, {"unnamed"}) \in Gpio
      BY <1>1, GpioTypes
    <3>2. Output(Request(g, {"usb_en", "touch"}), "usb_en", "high") \in Gpio
          /\ Output(Request(g, {"unnamed"}), "unnamed", "high") \in Gpio
      BY <1>1, <3>1, GpioTypes
    <3>3. Output(Output(Request(g, {"usb_en", "touch"}), "usb_en", "high"), "touch", "low") \in Gpio
      BY <1>1, <3>2, GpioTypes
    <3>4. /\ Request(g, {"usb_en", "touch"}).dir = g.dir
          /\ Request(g, {"unnamed"}).dir = g.dir
      BY <1>1, PinEffects
    <3>5. Output(Request(g, {"unnamed"}), "unnamed", "high").dir["switch_rst"] = g.dir["switch_rst"]
      BY <1>1, <3>1, <3>4, OtherDirections
    <3>6. Output(Request(g, {"usb_en", "touch"}), "usb_en", "high").dir["switch_rst"] = g.dir["switch_rst"]
      BY <1>1, <3>1, <3>4, OtherDirections
    <3>7. Output(Output(Request(g, {"usb_en", "touch"}), "usb_en", "high"), "touch", "low").dir["switch_rst"]
            = g.dir["switch_rst"]
      BY <1>1, <3>2, <3>6, OtherDirections
    <3> QED
      BY <3>2, <3>3, <3>5, <3>7 DEF BoardPins
  <2>3. Mux(gpio, misc_pads).dir = gpio.dir
    BY <1>1, <1>2, PinEffects
  <2> QED
    BY <1>1, <1>3, <1>5, <2>1, <2>2, <2>3 DEF board_init, Step
<1>6. CASE ChoosePanel
  <2>1. Output(gpio, "backlight", "high") \in Gpio
    BY <1>1, GpioTypes
  <2>2. gpio' = gpio \/ gpio' = Output(gpio, "backlight", "high")
    BY <1>6 DEF ChoosePanel
  <2>3. gpio' \in Gpio /\ gpio'.dir["switch_rst"] # "low"
    BY <1>1, <2>1, <2>2, OtherDirections
  <2> QED
    BY <1>3, <1>6, <2>3 DEF ChoosePanel, Step
<1>7. CASE misc_init_r
  <2>1. {"dvrec", "otg_pwr", "hub_rst"} \in SUBSET Pins
    BY <1>1
  <2>2. gpio' = IF sboard = "ivap" THEN Request(gpio, {"dvrec", "otg_pwr", "hub_rst"}) ELSE gpio
    BY <1>7 DEF misc_init_r, MiscRequests
  <2>3. gpio' \in Gpio
    BY <1>1, <2>1, <2>2, GpioTypes
  <2>4. /\ sboard = "ivap" => gpio'.claimed = gpio.claimed \cup {"dvrec", "otg_pwr", "hub_rst"}
        /\ gpio'.dir = gpio.dir
    BY <1>1, <2>1, <2>2, PinEffects
  <2> QED
    BY <1>1, <1>7, <2>3, <2>4
    DEF PinsInv, SwitchLine, HubClaimed, HubHeld, HubResetBeforeUse, misc_init_r, Step
<1>8. CASE LateInitPins
  <2>1. {"rev2"} \in SUBSET Pins
    BY <1>1
  <2> DEFINE h == Request(gpio, {"rev2"})
  <2>2. h \in Gpio
    BY <1>1, <2>1, GpioTypes
  <2>3. h.dir = gpio.dir
    BY <1>1, <2>1, PinEffects
  <2>5. /\ sboard = "ivap" => gpio' = Direction(gpio, "dvrec", "in")
        /\ \/ gpio' = Direction(gpio, "dvrec", "in")
           \/ gpio' = Direction(h, "rev2", "in")
           \/ gpio' = gpio
    BY <1>8 DEF LateInitPins
  <2> HIDE DEF h
  <2>8. Direction(h, "rev2", "in") \in Gpio /\ Direction(gpio, "dvrec", "in") \in Gpio
    BY <1>1, <2>2, GpioTypes
  <2>9. Direction(h, "rev2", "in").dir["switch_rst"] # "low"
    BY <1>1, <2>2, <2>3, OtherDirections
  <2>4. Direction(gpio, "dvrec", "in").dir["switch_rst"] # "low"
    BY <1>1, OtherDirections
  <2>6. gpio' \in Gpio /\ gpio'.dir["switch_rst"] # "low"
    BY <1>1, <2>4, <2>5, <2>8, <2>9
  <2>7. sboard = "ivap" => gpio'.claimed = gpio.claimed
    BY <1>1, <2>5, PinEffects
  <2> QED
    BY <1>1, <1>8, <2>6, <2>7
    DEF PinsInv, SwitchLine, HubClaimed, HubHeld, HubResetBeforeUse, LateInitPins, Step
<1> QED
  BY <1>4, <1>5, <1>6, <1>7, <1>8

LEMMA SwitchResetKeepsPins ==
  ASSUME PinsInv, HoldSwitch \/ ReleaseSwitch
  PROVE  PinsInv'
<1>1. gpio \in Gpio /\ "switch_rst" \in Pins /\ {"switch_rst"} \in SUBSET Pins
  BY DEF PinsInv, Pins
<1>2. CASE HoldSwitch
  <2> DEFINE h == Request(gpio, {"switch_rst"})
  <2>1. gpio' = Output(h, "switch_rst", "low") /\ bpc' = "0x66"
    BY <1>2 DEF HoldSwitch, Step
  <2>2. h \in Gpio
    BY <1>1, GpioTypes
  <2>3. h.claimed = gpio.claimed \cup {"switch_rst"}
    BY <1>1, PinEffects
  <2> HIDE DEF h
  <2>4. gpio' \in Gpio
    BY <1>1, <2>1, <2>2, GpioTypes
  <2>5. gpio'.claimed = h.claimed
    BY <1>1, <2>1, <2>2, PinEffects
  <2> QED
    BY <2>1, <2>3, <2>4, <2>5 DEF PinsInv, SwitchLine, HubClaimed, HubHeld, HubResetBeforeUse
<1>3. CASE ReleaseSwitch
  <2>1. gpio' = Output(gpio, "switch_rst", "high") /\ "switch_rst" \in gpio.claimed /\ bpc' = "video"
    BY <1>3 DEF ReleaseSwitch, Step, PinsInv, SwitchLine
  <2>2. gpio' \in Gpio
    BY <1>1, <2>1, GpioTypes
  <2>3. gpio'.dir["switch_rst"] = "high"
    BY <1>1, <2>1, PinEffects
  <2> QED
    BY <2>1, <2>2, <2>3 DEF PinsInv, SwitchLine, HubClaimed, HubHeld, HubResetBeforeUse
<1> QED
  BY <1>2, <1>3

LEMMA UsbKeepsPins == ASSUME PinsInv, Usb PROVE PinsInv'
<1>1. gpio \in Gpio /\ "hub_rst" \in Pins /\ "otg_pwr" \in Pins /\ "usb_en" \in Pins
      /\ usb_pads \in SUBSET Pins /\ UNCHANGED sboard
      /\ "switch_rst" \in Pins /\ gpio.dir["switch_rst"] # "low"
  BY DEF PinsInv, SwitchLine, Step, Pins, usb_pads, Usb, board_ehci_hcd_init, ReleaseHub, Enumerate, svars, given
<1>2. CASE board_ehci_hcd_init
  <2> DEFINE g == Mux(gpio, usb_pads)
             h == Output(g, "otg_pwr", "high")
  <2>3. gpio' = IF sboard = "dvmon" THEN Output(g, "usb_en", "high") ELSE Output(h, "hub_rst", "low")
    BY <1>2 DEF board_ehci_hcd_init, UsbPins
  <2>1. g \in Gpio
    BY <1>1, GpioTypes
  <2>2. g.claimed = gpio.claimed /\ g.muxed = gpio.muxed \cup usb_pads /\ g.dir = gpio.dir
    BY <1>1, PinEffects
  <2> HIDE DEF g
  <2>6. h \in Gpio /\ Output(g, "usb_en", "high") \in Gpio
    BY <1>1, <2>1, GpioTypes
  <2>7. h.claimed = g.claimed /\ h.muxed = g.muxed
    BY <1>1, <2>1, PinEffects
  <2>9. h.dir["switch_rst"] # "low" /\ Output(g, "usb_en", "high").dir["switch_rst"] # "low"
    BY <1>1, <2>1, <2>2, OtherDirections
  <2> HIDE DEF h
  <2>8. gpio' \in Gpio /\ gpio'.dir["switch_rst"] # "low"
    BY <1>1, <2>3, <2>6, <2>9, GpioTypes, OtherDirections
  <2>4. bpc = "prompt" /\ bpc' = "usb_release" /\ hub' = HubAfter(gpio')
    BY <1>2 DEF board_ehci_hcd_init, Step
  <2>5. ASSUME sboard = "ivap"
        PROVE  "hub_rst" \in gpio'.claimed /\ "hub_rst" \in gpio'.muxed /\ hub' = "reset"
    <3>1. "hub_rst" \in gpio.claimed /\ "hub_rst" \in usb_pads
      BY <2>4, <2>5 DEF PinsInv, HubClaimed, usb_pads
    <3>2. gpio' = Output(h, "hub_rst", "low") /\ "hub_rst" \in h.claimed
      BY <2>2, <2>3, <2>5, <2>7, <3>1
    <3>3. gpio'.claimed = h.claimed /\ gpio'.muxed = h.muxed /\ gpio'.dir["hub_rst"] = "low"
      BY <1>1, <2>6, <3>2, PinEffects
    <3> QED
      BY <2>2, <2>4, <2>7, <3>1, <3>3 DEF HubAfter, Drives
  <2> QED
    BY <1>1, <2>4, <2>5, <2>8 DEF PinsInv, SwitchLine, HubClaimed, HubHeld, HubResetBeforeUse
<1>3. CASE ReleaseHub
  <2>1. gpio' \in Gpio /\ bpc = "usb_release" /\ bpc' = "enumerate" /\ hub' = HubAfter(gpio')
        /\ gpio'.dir["switch_rst"] # "low"
    BY <1>1, <1>3, GpioTypes, OtherDirections DEF ReleaseHub, Step
  <2>2. ASSUME sboard = "ivap" PROVE "hub_rst" \in gpio'.claimed /\ hub' = "fresh"
    <3>1. "hub_rst" \in gpio.claimed /\ "hub_rst" \in gpio.muxed /\ hub = "reset"
      BY <2>1, <2>2 DEF PinsInv, HubClaimed, HubHeld
    <3>2. gpio'.claimed = gpio.claimed /\ gpio'.muxed = gpio.muxed /\ gpio'.dir["hub_rst"] = "high"
      BY <1>1, <1>3, <2>2, <3>1, PinEffects DEF ReleaseHub
    <3> QED
      BY <2>1, <3>1, <3>2 DEF HubAfter, Drives
  <2> QED
    BY <1>1, <2>1, <2>2 DEF PinsInv, SwitchLine, HubClaimed, HubHeld, HubResetBeforeUse
<1>4. CASE Enumerate
  BY <1>1, <1>4, PinsStay DEF Enumerate, Step, PinsInv
<1> QED
  BY <1>2, <1>3, <1>4 DEF Usb

LEMMA PinsInvNext == PinsInv /\ [BoardNext]_bvars => PinsInv'
<1> SUFFICES ASSUME PinsInv, [BoardNext]_bvars PROVE PinsInv'
  OBVIOUS
<1>1. CASE UNCHANGED bvars
  BY <1>1, PinsStay DEF bvars, board, svars, given, PinsInv
<1>2. CASE OtherBoardInit \/ has_i2c_device \/ NetDone
  <2>1. UNCHANGED <<gpio, hub, sboard>> /\ gpio \in Gpio
    BY <1>2 DEF OtherBoardInit, has_i2c_device, NetDone, svars, given, PinsInv
  <2> QED
    BY <1>2, <2>1, PinsStay DEF OtherBoardInit, has_i2c_device, NetDone, Step
<1>6. CASE get_i2c_device \/ NetStart
  <2>1. UNCHANGED <<hub, sboard>> /\ gpio \in Gpio /\ {"rev2"} \in SUBSET Pins /\ {"switch_rst"} \in SUBSET Pins
    BY <1>6 DEF get_i2c_device, NetStart, SwitchStart, svars, given, PinsInv, Pins
  <2>2. gpio' = gpio \/ (sboard = "impec" /\ gpio' \in {Mux(gpio, {"rev2"}), Mux(gpio, {"switch_rst"})})
    BY <1>6 DEF get_i2c_device, NetStart
  <2>3. gpio' \in Gpio
    BY <2>1, <2>2, GpioTypes
  <2>4. gpio' = gpio \/ (gpio'.claimed = gpio.claimed /\ gpio'.dir = gpio.dir /\ sboard # "ivap")
    BY <2>1, <2>2, PinEffects
  <2> QED
    BY <1>6, <2>1, <2>3, <2>4, PinsStay DEF get_i2c_device, NetStart, Step
<1>3. CASE SetRail("0x66", "0x6d") \/ SetRail("0x6d", "release")
  BY <1>3, PinsStay DEF SetRail, Step, svars, given, PinsInv
<1>4. CASE NetStep \/ Hardwired
  <2>1. PhyDriver \/ SwitchStep => UNCHANGED sboard
    BY DEF PhyDriver, MarvellPhy, marvell_phy_data, marvell_phy_command, marvell_phy_poll,
           marvell_phy_fetch, PhyConfig, SpeedWritten, BmcrRead, ResetWritten, ResetPolled, CpuPort,
           ExternalPort, switch_reset, switch_ctrl, switch_speed_port2, switch_done,
           SwitchStep, SmiDone, PhyResetDone, given
  <2> QED
    BY <1>4, <2>1, PinsStay DEF NetStep, Hardwired, board, PinsInv
<1>5. CASE Reset
  BY <1>5 DEF Reset, NoGpio, Gpio, Pins, PinsInv, SwitchLine, HubClaimed, HubHeld, HubResetBeforeUse
<1> QED
  BY <1>1, <1>2, <1>3, <1>4, <1>5, <1>6, StartKeepsPins, SwitchResetKeepsPins, UsbKeepsPins
  DEF BoardNext, BoardStep

THEOREM PinsInvariant == BoardSpec => []PinsInv
<1>1. BoardInitial => PinsInv
  BY DEF BoardInitial, NoGpio, Gpio, Pins, PinsInv, SwitchLine, HubClaimed, HubHeld, HubResetBeforeUse
<1> QED
  BY <1>1, PinsInvNext, PTL DEF BoardSpec

(* On the ivap board the hub gets its reset pulse before each enumeration:   *)
(* misc_init_r has requested its pin long before board_ehci_hcd_init muxes it. *)
THEOREM HubIsReset == BoardSpec => []HubResetBeforeUse
<1>1. PinsInv => HubResetBeforeUse
  BY DEF PinsInv
<1> QED
  BY <1>1, PinsInvariant, PTL

(* The board, its straps, its devices and its environment are what they are. *)
LEMMA BoardOutside == [BoardNext]_bvars => UNCHANGED <<hw, vpanel, sboard>>
<1>1. PhyDriver \/ SwitchStep \/ SwitchStart \/ SwitchReset => UNCHANGED sboard
  BY DEF PhyDriver, MarvellPhy, marvell_phy_data, marvell_phy_command, marvell_phy_poll,
         marvell_phy_fetch, PhyConfig, SpeedWritten, BmcrRead, ResetWritten, ResetPolled, CpuPort,
         ExternalPort, switch_reset, switch_ctrl, switch_speed_port2, switch_done,
         SwitchStep, SmiDone, PhyResetDone, SwitchStart, SwitchReset, given
<1>2. NetStart \/ NetStep \/ NetDone \/ Hardwired \/ Reset => UNCHANGED <<hw, vpanel, sboard>>
  BY <1>1 DEF NetStart, NetStep, NetDone, Hardwired, Reset, outside, board, svars, given
<1>3. board_early_init_f \/ board_init \/ get_i2c_device \/ HoldSwitch \/ SetRail("0x66", "0x6d")
      \/ SetRail("0x6d", "release") \/ ReleaseSwitch \/ OtherBoardInit \/ ChoosePanel => UNCHANGED <<hw, vpanel, sboard>>
  BY DEF board_early_init_f, board_init, get_i2c_device, HoldSwitch, SetRail, ReleaseSwitch,
         OtherBoardInit, ChoosePanel, outside, svars, given
<1>4. misc_init_r \/ LateInitPins \/ has_i2c_device \/ Usb => UNCHANGED <<hw, vpanel, sboard>>
  BY DEF misc_init_r, LateInitPins, has_i2c_device, Usb, board_ehci_hcd_init, ReleaseHub, Enumerate,
         outside, svars, given
<1>5. UNCHANGED bvars => UNCHANGED <<hw, vpanel, sboard>>
  BY DEF bvars, board, svars, given
<1> QED
  BY <1>2, <1>3, <1>4, <1>5 DEF BoardNext, BoardStep

(* The LVDS panel: setup_display prepares it before anything else happens.   *)
VideoInv ==
  /\ video \in [routed : BOOLEAN, channel : BOOLEAN, width : {18, 24}, panel : Panels \cup {"none"}]
  /\ bpc # "early_init_f" /\ sboard \in Himx0294 => video.routed /\ video.channel
  /\ video.panel = "LDB-WXGA" => video.routed /\ video.channel /\ video.width = 24

(* What is enabled is one of the displays, and keeps what it found. *)
LEMMA PanelChosen ==
  ASSUME VideoInv, vpanel \in Panels \cup {"none"}, ChoosePanel
  PROVE  VideoInv'
<1>1. FirstDetected \in Panels
  BY DEF FirstDetected, displays, Panels, detect_i2c
<1>2. UNCHANGED sboard /\ bpc = "video"
  BY DEF ChoosePanel, Step, svars, given
<1>3. \A name \in Panels, v \in [routed : BOOLEAN, channel : BOOLEAN, width : {18, 24}, panel : Panels \cup {"none"}] :
        /\ Enabled(v, name) \in [routed : BOOLEAN, channel : BOOLEAN, width : {18, 24}, panel : Panels \cup {"none"}]
        /\ Enabled(v, name).routed = v.routed /\ Enabled(v, name).channel = v.channel
        /\ Enabled(v, name).panel = "LDB-WXGA" => Enabled(v, name).width = 24
  BY DEF Enabled, enable_lvds, Panels
<1>4. \/ UNCHANGED video
      \/ sboard \in Himx0294 /\ \E name \in Panels : video' = Enabled(video, name)
  BY <1>1 DEF ChoosePanel
<1>5. CASE UNCHANGED video
  BY <1>2, <1>5 DEF VideoInv
<1>6. CASE sboard \in Himx0294 /\ \E name \in Panels : video' = Enabled(video, name)
  BY <1>2, <1>3, <1>6 DEF VideoInv
<1> QED
  BY <1>4, <1>5, <1>6

LEMMA VideoNext ==
  VideoInv /\ vpanel \in Panels \cup {"none"} /\ [BoardNext]_bvars =>
    VideoInv' /\ (vpanel \in Panels \cup {"none"})'
<1> SUFFICES ASSUME VideoInv, vpanel \in Panels \cup {"none"}, [BoardNext]_bvars
             PROVE  VideoInv' /\ vpanel' = vpanel
  OBVIOUS
<1>1. vpanel' = vpanel /\ UNCHANGED sboard
  BY BoardOutside
<1>2. CASE board_early_init_f
  BY <1>1, <1>2 DEF board_early_init_f, setup_display, Step, VideoInv, NoVideo, Panels
<1>3. CASE Reset
  BY <1>1, <1>3 DEF Reset, NoVideo, VideoInv, Panels
<1>4. ASSUME UNCHANGED video, bpc # "early_init_f" \/ UNCHANGED bpc PROVE VideoInv'
  BY <1>1, <1>4 DEF VideoInv
<1>5. CASE \/ UNCHANGED bvars \/ NetStart \/ NetStep \/ NetDone \/ Hardwired \/ Usb \/ board_init
           \/ get_i2c_device \/ HoldSwitch \/ SetRail("0x66", "0x6d") \/ SetRail("0x6d", "release")
           \/ ReleaseSwitch \/ OtherBoardInit \/ misc_init_r \/ LateInitPins \/ has_i2c_device
  <2>1. UNCHANGED video
    BY <1>5 DEF bvars, NetStart, NetStep, NetDone, Hardwired, Usb, board_ehci_hcd_init, ReleaseHub, Enumerate,
                board_init, get_i2c_device, HoldSwitch, SetRail, ReleaseSwitch, OtherBoardInit, misc_init_r,
                LateInitPins, has_i2c_device, board
  <2>2. bpc # "early_init_f" \/ UNCHANGED bpc
    BY <1>5 DEF bvars, NetStart, NetStep, NetDone, Hardwired, Usb, board_ehci_hcd_init, ReleaseHub, Enumerate,
                board_init, get_i2c_device, HoldSwitch, SetRail, ReleaseSwitch, OtherBoardInit, misc_init_r,
                LateInitPins, has_i2c_device, board, Step
  <2> QED
    BY <1>1, <1>4, <2>1, <2>2
<1>6. CASE ChoosePanel
  BY <1>1, <1>6, PanelChosen
<1> QED
  BY <1>1, <1>2, <1>3, <1>5, <1>6 DEF BoardNext, BoardStep

(* The pad of the switch's reset line is muxed by the network's start, after *)
(* the line has been released, or was never touched because the PMIC did not *)
(* answer; the panel finds its clocks and its channel after every reset.     *)
THEOREM DevicesAreReady == BoardSpec => []DevicesReady
<1>1. BoardInitial => VideoInv /\ vpanel \in Panels \cup {"none"}
  <2> SUFFICES ASSUME BoardInitial PROVE VideoInv /\ vpanel \in Panels \cup {"none"}
    OBVIOUS
  <2>1. vpanel \in Panels \cup {"none"}
    BY DEF BoardInitial
  <2>2. VideoInv
    BY DEF BoardInitial, VideoInv, NoVideo
  <2> QED
    BY <2>1, <2>2
<1>2. PinsInv /\ VideoInv => DevicesReady
  BY DEF PinsInv, SwitchLine, VideoInv, DevicesReady, Drives
<1> QED
  BY <1>1, <1>2, VideoNext, PinsInvariant, PTL DEF BoardSpec
-----------------------------------------------------------------------------
(* Detection: what board_late_init looks at has been prepared by board_init  *)
(* and misc_init_r, and a retry loop gives up only after five missed probes. *)
Prepared == {"video", "misc_init_r", "late_init"}
Undecided == {"early_init_f", "board_init", "reset_low", "0x66", "0x6d", "release"} \cup Prepared
Decided == {"net", "net_runs", "prompt", "usb_release", "enumerate"}

BoardFits ==
  /\ hw \in Hardware
  /\ sboard # "dvmon" => ~hw.touch
SwitchSupplied == bpc \in {"reset_low", "0x66", "0x6d", "release"} => sboard = "impec"
SupplyOn == sboard = "dvmon" /\ bpc \in Prepared => Drives(gpio, "touch", "low")
StrapReady ==
  sboard = "ivap" => /\ bpc \in Prepared => "dvrec" \in gpio.muxed
                     /\ bpc = "late_init" => "dvrec" \in gpio.claimed
HogMuxed ==
  sboard = "impec" /\ bpc \in Undecided \ {"early_init_f", "board_init"} => "rev2" \in gpio.muxed
Counters == tries \in Nat /\ nacks \in Nat
(* A loop that is left begins with no probe, and what is there has missed    *)
(* each one that counts.                                                     *)
MissesCounted ==
  /\ bpc \notin {"board_init", "late_init"} => tries = 0
  /\ bpc = "board_init" /\ sboard # "impec" => tries = 0
  /\ bpc = "late_init" /\ sboard # "dvmon" => tries = 0
  /\ bpc = "late_init" /\ hw.touch => tries <= nacks
NotYet == bpc \in Undecided => detected = FALSE

DetectInv ==
  /\ BoardFits
  /\ SwitchSupplied
  /\ SupplyOn
  /\ StrapReady
  /\ HogMuxed
  /\ Counters
  /\ MissesCounted
  /\ NotYet
  /\ DetectionTrue

(* Steps that do not prepare, probe or decide anything. *)
LEMMA NothingProbed ==
  ASSUME DetectInv, UNCHANGED <<hw, sboard, detected, tries, nacks>>,
         \/ UNCHANGED <<gpio, bpc>>
         \/ bpc \in Decided /\ bpc' \in Decided
  PROVE  DetectInv'
<1>1. CASE UNCHANGED <<gpio, bpc>>
  BY <1>1 DEF DetectInv, BoardFits, SwitchSupplied, SupplyOn, StrapReady, HogMuxed, Counters, MissesCounted, NotYet, DetectionTrue, Drives
<1>2. CASE bpc \in Decided /\ bpc' \in Decided
  <2>1. bpc' \notin Undecided /\ bpc' \notin Prepared /\ bpc' \notin {"board_init", "late_init"} /\ tries = 0
    BY <1>2 DEF Decided, Undecided, Prepared, DetectInv, MissesCounted
  <2>2. DetectionTrue'
    BY <1>2 DEF Decided, DetectInv, DetectionTrue
  <2> QED
    BY <1>2, <2>1, <2>2
       DEF DetectInv, BoardFits, SwitchSupplied, SupplyOn, StrapReady, HogMuxed, Counters, MissesCounted, NotYet,
           Prepared, Decided
<1> QED
  BY <1>1, <1>2

(* Steps before anything is prepared, and those that need no pin. *)
LEMMA EarlyKeepsDetect ==
  ASSUME PinsInv, DetectInv, UNCHANGED <<hw, sboard>>,
         board_early_init_f \/ get_i2c_device \/ HoldSwitch \/ SetRail("0x66", "0x6d")
           \/ SetRail("0x6d", "release") \/ ReleaseSwitch \/ OtherBoardInit \/ Reset
  PROVE  DetectInv'
<1>1. /\ UNCHANGED detected \/ detected' = FALSE
      /\ tries \in Nat /\ nacks \in Nat /\ nacks' \in Nat /\ nacks' >= nacks
  BY DEF board_early_init_f, get_i2c_device, HoldSwitch, SetRail, ReleaseSwitch, OtherBoardInit, Reset,
         Answers, Silent, DetectInv, Counters
<1>4. HogMuxed'
  <2>1. CASE get_i2c_device
    BY <2>1 DEF get_i2c_device, HogMuxed, Mux, PinsInv, Gpio
  <2>2. CASE HoldSwitch \/ SetRail("0x66", "0x6d") \/ SetRail("0x6d", "release") \/ ReleaseSwitch
    <3>1. gpio'.muxed = gpio.muxed
      BY <2>2 DEF HoldSwitch, SetRail, ReleaseSwitch, Output, Direction, Request, PinsInv, Gpio
    <3>2. bpc \in {"reset_low", "0x66", "0x6d", "release"}
      BY <2>2 DEF HoldSwitch, SetRail, ReleaseSwitch, Step
    <3> QED
      BY <3>1, <3>2 DEF DetectInv, HogMuxed, Undecided
  <2>3. CASE board_early_init_f \/ OtherBoardInit \/ Reset
    BY <2>3 DEF board_early_init_f, OtherBoardInit, Reset, Step, HogMuxed
  <2> QED
    BY <2>1, <2>2, <2>3
<1>2. CASE get_i2c_device
  <2>1. bpc = "board_init" /\ sboard = "impec" /\ UNCHANGED detected
        /\ \/ bpc' \in {"reset_low", "video"} /\ tries' = 0
           \/ bpc' = "board_init" /\ tries' = tries + 1
    BY <1>2 DEF get_i2c_device
  <2> QED
    BY <1>1, <1>4, <2>1
       DEF DetectInv, BoardFits, SwitchSupplied, SupplyOn, StrapReady, Counters, MissesCounted, NotYet, DetectionTrue,
           Prepared, Undecided
<1>3. CASE ~get_i2c_device
  <2>1. /\ tries' = 0 /\ detected' = FALSE
        /\ \/ bpc' \in {"early_init_f", "board_init"}
           \/ bpc' \in {"0x66", "0x6d", "release", "video"} /\ sboard = "impec"
           \/ bpc' = "late_init" /\ sboard = "himx8"
    BY <1>3 DEF board_early_init_f, HoldSwitch, SetRail, ReleaseSwitch, OtherBoardInit, Reset, Step,
                DetectInv, SwitchSupplied, MissesCounted, NotYet, Undecided
  <2> QED
    BY <1>1, <1>4, <2>1
       DEF DetectInv, BoardFits, SwitchSupplied, SupplyOn, StrapReady, Counters, MissesCounted, NotYet, DetectionTrue,
           Prepared, Undecided
<1> QED
  BY <1>2, <1>3

(* board_init and misc_init_r prepare the pins, and the panel leaves them.   *)
LEMMA PreparedKeepsDetect ==
  ASSUME PinsInv, DetectInv, UNCHANGED <<hw, sboard>>, board_init \/ ChoosePanel \/ misc_init_r
  PROVE  DetectInv'
<1>1. /\ gpio \in Gpio /\ {"touch", "dvrec", "usb_en", "backlight", "otg_pwr", "hub_rst", "unnamed"} \subseteq Pins
      /\ UNCHANGED <<detected, nacks>> /\ tries' = 0 /\ detected = FALSE
      /\ \/ bpc = "board_init" /\ bpc' = "video" /\ sboard \in Himx0294
         \/ bpc = "video" /\ bpc' = "misc_init_r"
         \/ bpc = "misc_init_r" /\ bpc' = "late_init"
  BY DEF PinsInv, Pins, board_init, ChoosePanel, misc_init_r, Step, DetectInv, MissesCounted, NotYet,
         Undecided, Prepared, Himx0294
<1>2. /\ sboard = "dvmon" => Drives(gpio', "touch", "low")
      /\ sboard = "ivap" => /\ "dvrec" \in gpio'.muxed
                            /\ misc_init_r => "dvrec" \in gpio'.claimed
  <2>1. CASE board_init
    <3> DEFINE g == Mux(gpio, misc_pads)
               h == Request(g, {"usb_en", "touch"})
               k == Output(h, "usb_en", "high")
    <3>1. misc_pads \in SUBSET Pins /\ {"usb_en", "touch"} \in SUBSET Pins
          /\ ~misc_init_r /\ gpio' = BoardPins(g)
      BY <1>1, <2>1 DEF misc_pads, board_init, misc_init_r, Step
    <3>2. g \in Gpio
      BY <1>1, <3>1, GpioTypes
    <3>3. g.muxed = gpio.muxed \cup misc_pads
      BY <1>1, <3>1, PinEffects
    <3> HIDE DEF g
    <3>4. h \in Gpio
      BY <3>1, <3>2, GpioTypes
    <3>5. h.muxed = g.muxed /\ h.claimed = g.claimed \cup {"usb_en", "touch"}
      BY <3>1, <3>2, PinEffects
    <3> HIDE DEF h
    <3>6. k \in Gpio
      BY <1>1, <3>4, GpioTypes
    <3>7. k.muxed = h.muxed /\ k.claimed = h.claimed
      BY <1>1, <3>4, PinEffects
    <3> HIDE DEF k
    <3>8. CASE sboard = "dvmon"
      <4>1. gpio' = Output(k, "touch", "low")
        BY <3>1, <3>8 DEF BoardPins, h, k
      <4>2. "touch" \in k.muxed /\ "touch" \in k.claimed
        BY <3>3, <3>5, <3>7, <3>8 DEF misc_pads
      <4>3. gpio'.muxed = k.muxed /\ gpio'.dir["touch"] = "low"
        BY <1>1, <3>6, <4>1, <4>2, PinEffects
      <4> QED
        BY <3>8, <4>2, <4>3 DEF Drives
    <3>9. CASE sboard = "ivap"
      <4> DEFINE u == Request(g, {"unnamed"})
      <4>1. gpio' = Output(u, "unnamed", "high") /\ "dvrec" \in g.muxed
        BY <3>1, <3>3, <3>9 DEF BoardPins, misc_pads
      <4>2. {"unnamed"} \in SUBSET Pins
        BY <1>1
      <4>3. u \in Gpio
        BY <3>2, <4>2, GpioTypes
      <4>4. u.muxed = g.muxed
        BY <3>2, <4>2, PinEffects
      <4> HIDE DEF u
      <4>5. gpio'.muxed = u.muxed
        BY <1>1, <4>1, <4>3, PinEffects
      <4> QED
        BY <3>1, <3>9, <4>1, <4>4, <4>5
    <3> QED
      BY <3>8, <3>9
  <2>2. CASE ChoosePanel
    <3>1. gpio' = gpio \/ gpio' = Output(gpio, "backlight", "high")
      BY <2>2 DEF ChoosePanel
    <3>2. gpio'.muxed = gpio.muxed /\ gpio'.dir["touch"] = gpio.dir["touch"]
      BY <1>1, <3>1, PinEffects, OtherDirections
    <3>3. bpc \in Prepared /\ ~misc_init_r
      BY <2>2 DEF ChoosePanel, misc_init_r, Step, Prepared
    <3> QED
      BY <3>2, <3>3 DEF DetectInv, SupplyOn, StrapReady, Drives
  <2>3. CASE misc_init_r
    <3>1. gpio' = IF sboard = "ivap" THEN Request(gpio, {"dvrec", "otg_pwr", "hub_rst"}) ELSE gpio
      BY <2>3 DEF misc_init_r, MiscRequests
    <3>2. bpc \in Prepared
      BY <2>3 DEF misc_init_r, Step, Prepared
    <3>3. sboard = "ivap" => gpio'.muxed = gpio.muxed /\ "dvrec" \in gpio'.claimed
      BY <1>1, <3>1, PinEffects
    <3>4. sboard = "dvmon" => gpio' = gpio
      BY <3>1
    <3> QED
      BY <3>2, <3>3, <3>4 DEF DetectInv, SupplyOn, StrapReady
  <2> QED
    BY <2>1, <2>2, <2>3
<1>3. bpc' = "late_init" => misc_init_r
  BY <1>1 DEF board_init, ChoosePanel, misc_init_r, Step
<1>4. HogMuxed'
  <2>1. sboard = "impec" => bpc \in Undecided \ {"early_init_f", "board_init"}
    BY <1>1 DEF Himx0294, Undecided, Prepared
  <2>2. sboard = "impec" => gpio' = gpio
    BY <1>1 DEF board_init, ChoosePanel, misc_init_r, MiscRequests, Himx0294, Step
  <2> QED
    BY <1>1, <2>1, <2>2 DEF DetectInv, HogMuxed, Undecided, Prepared
<1> QED
  BY <1>1, <1>2, <1>3, <1>4
     DEF DetectInv, BoardFits, SwitchSupplied, SupplyOn, StrapReady, Counters, MissesCounted, NotYet,
         DetectionTrue, Prepared

(* A strap is read through a pin that reads it. *)
LEMMA LateInitDetects ==
  ASSUME PinsInv, DetectInv, UNCHANGED <<hw, sboard>>, LateInitPins
  PROVE  DetectInv'
<1>1. /\ gpio \in Gpio /\ "dvrec" \in Pins /\ "rev2" \in Pins /\ {"rev2"} \in SUBSET Pins
      /\ bpc = "late_init" /\ bpc' = "net" /\ sboard # "dvmon" /\ UNCHANGED <<nacks, tries>>
      /\ ~hw.touch /\ tries = 0
  BY DEF PinsInv, Pins, LateInitPins, Step, DetectInv, BoardFits, MissesCounted
<1>2. ASSUME sboard = "ivap" PROVE DetectionTrue'
  <2>1. /\ gpio' = Direction(gpio, "dvrec", "in") /\ "dvrec" \in gpio.claimed /\ "dvrec" \in gpio.muxed
        /\ detected' = (Level(gpio', "dvrec") = "low")
    BY <1>1, <1>2 DEF LateInitPins, DetectInv, StrapReady, Prepared
  <2>2. gpio'.claimed = gpio.claimed /\ gpio'.muxed = gpio.muxed /\ gpio'.dir["dvrec"] = "in"
    BY <1>1, <2>1, PinInput
  <2>3. Level(gpio', "dvrec") = hw.strap
    BY <2>1, <2>2 DEF Level
  <2> QED
    BY <1>2, <2>1, <2>3 DEF DetectionTrue
<1>3. ASSUME sboard = "impec" PROVE DetectionTrue'
  <2> DEFINE h == Request(gpio, {"rev2"})
  <2>1. gpio' = Direction(h, "rev2", "in") /\ detected' = (Level(gpio', "rev2") = "high")
    BY <1>3 DEF LateInitPins
  <2>3. "rev2" \in gpio.muxed
    BY <1>1, <1>3 DEF DetectInv, HogMuxed, Undecided, Prepared
  <2>4. h \in Gpio
    BY <1>1, GpioTypes
  <2>5. "rev2" \in h.muxed /\ "rev2" \in h.claimed
    BY <1>1, <2>3, PinEffects
  <2> HIDE DEF h
  <2>6. gpio'.claimed = h.claimed /\ gpio'.muxed = h.muxed /\ gpio'.dir["rev2"] = "in"
    BY <1>1, <2>1, <2>4, <2>5, PinInput
  <2>7. Level(gpio', "rev2") = hw.strap
    BY <2>5, <2>6 DEF Level
  <2> QED
    BY <1>3, <2>1, <2>7 DEF DetectionTrue
<1>4. ASSUME sboard \notin {"ivap", "impec"} PROVE DetectionTrue'
  <2>1. detected' = FALSE
    BY <1>1, <1>4 DEF LateInitPins
  <2> QED
    BY <1>1, <1>4, <2>1 DEF DetectionTrue, DetectInv, BoardFits, Hardware
<1>5. DetectionTrue'
  BY <1>2, <1>3, <1>4
<1> QED
  BY <1>1, <1>5
     DEF DetectInv, BoardFits, SwitchSupplied, SupplyOn, StrapReady, HogMuxed, Counters, MissesCounted, NotYet,
         Prepared, Undecided

(* A loop gives up on what is there only after five missed probes. *)
LEMMA TouchDetects ==
  ASSUME DetectInv, UNCHANGED <<hw, sboard>>, has_i2c_device
  PROVE  DetectInv'
<1>1. /\ bpc = "late_init" /\ sboard = "dvmon" /\ UNCHANGED gpio /\ detected = FALSE
      /\ TouchThere <=> hw.touch
      /\ tries \in Nat /\ nacks \in Nat /\ (hw.touch => tries <= nacks)
  BY DEF has_i2c_device, TouchThere, DetectInv, SupplyOn, MissesCounted, Counters, NotYet, Prepared, Undecided
<1>2. CASE Answers(TouchThere) /\ detected' = TRUE /\ tries' = 0 /\ bpc' = "net"
  BY <1>1, <1>2
     DEF Answers, DetectInv, BoardFits, SwitchSupplied, SupplyOn, StrapReady, HogMuxed, Counters, MissesCounted, NotYet,
         DetectionTrue, Prepared, Undecided
<1>3. CASE Silent(TouchThere) /\ UNCHANGED detected
           /\ IF Retry(tries) THEN tries' = tries + 1 /\ UNCHANGED bpc ELSE tries' = 0 /\ bpc' = "net"
  <2>1. nacks' \in Nat /\ (hw.touch => nacks' = nacks + 1)
    BY <1>1, <1>3 DEF Silent
  <2>2. CASE Retry(tries)
    <3>1. tries' = tries + 1 /\ bpc' = "late_init"
      BY <1>1, <1>3, <2>2
    <3> QED
      BY <1>1, <1>3, <2>1, <3>1
         DEF DetectInv, BoardFits, SwitchSupplied, SupplyOn, StrapReady, HogMuxed, Counters, MissesCounted, NotYet,
             DetectionTrue, Prepared, Undecided, Drives
  <2>3. CASE ~Retry(tries)
    <3>1. tries' = 0 /\ bpc' = "net" /\ (hw.touch => nacks' >= 5)
      BY <1>1, <1>3, <2>1, <2>3 DEF Retry
    <3>2. DetectionTrue'
      <4>1. CASE hw.touch
        BY <1>1, <2>1, <3>1, <4>1 DEF DetectionTrue
      <4>2. CASE ~hw.touch
        BY <1>1, <1>3, <4>2 DEF DetectInv, BoardFits, Hardware, DetectionTrue
      <4> QED
        BY <4>1, <4>2
    <3> QED
      BY <1>1, <1>3, <2>1, <3>1, <3>2
         DEF DetectInv, BoardFits, SwitchSupplied, SupplyOn, StrapReady, HogMuxed, Counters, MissesCounted, NotYet,
             Prepared, Undecided
  <2> QED
    BY <2>2, <2>3
<1> QED
  BY <1>2, <1>3 DEF has_i2c_device

LEMMA DetectNext == PinsInv /\ DetectInv /\ [BoardNext]_bvars => DetectInv'
<1> SUFFICES ASSUME PinsInv, DetectInv, [BoardNext]_bvars PROVE DetectInv'
  OBVIOUS
<1>1. UNCHANGED <<hw, sboard>>
  BY BoardOutside
<1>2. CASE UNCHANGED bvars
  BY <1>1, <1>2, NothingProbed DEF bvars, board
<1>3. CASE NetStart \/ NetStep \/ NetDone \/ Hardwired \/ Usb
  <2>1. UNCHANGED <<detected, tries, nacks>>
    BY <1>3 DEF NetStart, NetStep, NetDone, Hardwired, Usb, board_ehci_hcd_init, ReleaseHub, Enumerate, board
  <2>2. UNCHANGED <<gpio, bpc>> \/ (bpc \in Decided /\ bpc' \in Decided)
    BY <1>3 DEF NetStart, NetStep, NetDone, Hardwired, Usb, board_ehci_hcd_init, ReleaseHub, Enumerate, board,
                Step, Decided
  <2> QED
    BY <1>1, <2>1, <2>2, NothingProbed
<1>4. CASE board_init \/ ChoosePanel \/ misc_init_r \/ LateInitPins \/ has_i2c_device
  BY <1>1, <1>4, PreparedKeepsDetect, LateInitDetects, TouchDetects
<1>5. CASE board_early_init_f \/ get_i2c_device \/ HoldSwitch \/ SetRail("0x66", "0x6d")
           \/ SetRail("0x6d", "release") \/ ReleaseSwitch \/ OtherBoardInit \/ Reset
  BY <1>1, <1>5, EarlyKeepsDetect
<1> QED
  BY <1>2, <1>3, <1>4, <1>5 DEF BoardNext, BoardStep

LEMMA DetectInitially == BoardInitial => DetectInv
<1> SUFFICES ASSUME BoardInitial PROVE DetectInv
  OBVIOUS
<1>1. BoardFits
  BY DEF BoardInitial, BoardFits
<1> QED
  BY <1>1 DEF BoardInitial, DetectInv, SwitchSupplied, SupplyOn, StrapReady, HogMuxed, Counters, MissesCounted, NotYet,
              DetectionTrue, Prepared, Undecided

(* board_late_init of every board decides after what is really there: its    *)
(* pin was muxed and requested three board functions before, the touch       *)
(* controller was given its supply, and four missed probes do no harm.       *)
THEOREM DetectionIsTrue == BoardSpec => []DetectionTrue
<1>1. DetectInv => DetectionTrue
  BY DEF DetectInv
<1>2. BoardSpec => []DetectInv
  BY DetectInitially, DetectNext, PinsInvariant, PTL DEF BoardSpec
<1> QED
  BY <1>1, <1>2, PTL
=============================================================================
