----------------------------- MODULE BoardInit -----------------------------
(***************************************************************************)
(* From reset to the boot prompt: the board functions that U-Boot calls in *)
(* turn (board_early_init_f, board_init, the video driver's panel choice,  *)
(* misc_init_r, board_late_init, board_phy_config, board_ehci_hcd_init) of *)
(* himx0294.c and himx0432.c, on pins that have to be muxed, requested and *)
(* given a direction before they do anything.  The switch is SwitchPhy's.  *)
(***************************************************************************)
EXTENDS SwitchPhy

CONSTANTS
  MaxBoots,    \* bound: resets
  MaxNacks     \* bound: i2c probes that fail although the device is there

Himx0294 == {"imoc", "ivap", "dvmon"}
(* GPIOs (4,15) (1,4) (1,24) (3,31) (1,0) (4,4) (1,18) and (2,11) (4,22).    *)
Pins == {"otg_pwr", "hub_rst", "dvrec", "usb_en", "touch", "unnamed", "backlight",
         "switch_rst", "rev2"}
Panels == {"HDMI", "LDB-WXGA"}
Rails == {"0x66", "0x6d"}

ASSUME InitAssumption == MaxBoots \in Nat /\ MaxNacks \in Nat

VARIABLES
  hw,        \* the strap pin, the HDMI monitor, the touch screen and the PMIC
  vpanel,    \* the variable panel of the environment, "none" when it is not set
  gpio,      \* pins muxed to the GPIO block, requested, and their direction
  video,     \* LVDS path: clocks and mux, channel, data width; enabled panel
  hub,       \* the USB hub: "used", held in "reset", or "fresh" after it
  pmic,      \* rails set in the PMIC since power-on
  detected,  \* what board_late_init found
  tries,     \* probes of the running retry loop
  bpc,       \* the board function that runs next
  boots, nacks

board == <<hw, vpanel, gpio, video, hub, pmic, detected, tries, bpc, boots, nacks>>
bvars == <<svars, board>>
outside == <<hw, vpanel, boots>>

Hardware == [strap : {"low", "high"}, hdmi : BOOLEAN, touch : BOOLEAN, pmic : BOOLEAN]
NoGpio == [muxed |-> {}, claimed |-> {}, dir |-> [p \in Pins |-> "in"]]
NoVideo == [routed |-> FALSE, channel |-> FALSE, width |-> 18, panel |-> "none"]

(* With CONFIG_DM_GPIO a call for a pin that is not requested fails.        *)
Mux(g, S) == [g EXCEPT !.muxed = @ \cup S]
Request(g, S) == [g EXCEPT !.claimed = @ \cup S]
Direction(g, p, d) == IF p \in g.claimed THEN [g EXCEPT !.dir[p] = d] ELSE g
Output(g, p, level) == Direction(g, p, level)
Drives(g, p, level) == p \in g.muxed /\ g.dir[p] = level
(* gpio_get_value: the level of the strap, or an error, which is neither.   *)
Level(g, p) == IF p \in g.claimed /\ g.dir[p] = "in" /\ p \in g.muxed THEN hw.strap ELSE "busy"

(* The hub sees its reset line.                                             *)
HubAfter(g) == CASE Drives(g, "hub_rst", "low") -> "reset"
                 [] Drives(g, "hub_rst", "high") /\ hub = "reset" -> "fresh"
                 [] OTHER -> hub

BoardTypeOK ==
  /\ SwitchTypeOK
  /\ hw \in Hardware /\ vpanel \in Panels \cup {"none"}
  /\ gpio \in [muxed : SUBSET Pins, claimed : SUBSET Pins, dir : [Pins -> {"in", "low", "high"}]]
  /\ video \in [routed : BOOLEAN, channel : BOOLEAN, width : {18, 24}, panel : Panels \cup {"none"}]
  /\ hub \in {"used", "reset", "fresh"} /\ pmic \subseteq Rails
  /\ detected \in BOOLEAN /\ tries \in 0 .. 4
  /\ boots \in 0 .. MaxBoots /\ nacks \in 0 .. MaxNacks

BoardInitial ==
  /\ SwitchInit
  /\ hw \in {h \in Hardware : /\ sboard # "impec" => h.pmic
                              /\ sboard # "dvmon" => ~h.touch
                              /\ sboard \notin {"ivap", "impec"} => h.strap = "high"
                              /\ sboard \notin Himx0294 => ~h.hdmi}
  /\ vpanel \in IF sboard \in Himx0294 THEN Panels \cup {"none"} ELSE {"none"}
  /\ gpio = NoGpio /\ video = NoVideo
  /\ hub = "used" /\ pmic = {}
  /\ detected = FALSE /\ tries = 0
  /\ bpc = "early_init_f"
  /\ boots = 0 /\ nacks = 0

Step(from, to) == bpc = from /\ bpc' = to

(* dm_i2c_probe: a device that is there may miss a probe now and then.       *)
Answers(there) == there /\ UNCHANGED nacks
Silent(there) == IF there THEN nacks < MaxNacks /\ nacks' = nacks + 1 ELSE UNCHANGED nacks

(* Five probes, then the device counts as missing.                          *)
Retry(t) == t < 4

-----------------------------------------------------------------------------
(* setup_display: clocks and muxes of the LVDS path; the backlight is not    *)
(* requested, so the call for it does nothing.                              *)
setup_display ==
  /\ gpio' = Direction(Mux(gpio, {"backlight"}), "backlight", "in")
  /\ video' = [NoVideo EXCEPT !.routed = TRUE, !.channel = TRUE]

board_early_init_f ==
  /\ Step("early_init_f", "board_init")
  /\ IF sboard \in Himx0294 THEN setup_display ELSE UNCHANGED <<gpio, video>>
  /\ UNCHANGED <<svars, outside, hub, pmic, detected, tries, nacks>>

misc_pads == IF sboard = "dvmon" THEN {"touch", "usb_en"} ELSE {"dvrec"}

(* board_init of himx0294.c.                                                *)
SlipNoTouch(g) ==
  IF sboard = "dvmon" THEN Output(Output(Request(g, {"usb_en"}), "usb_en", "high"), "touch", "low")
  ELSE Output(Request(g, {"unnamed"}), "unnamed", "high")
BoardPins(g) ==
  IF sboard = "dvmon"
  THEN Output(Output(Request(g, {"usb_en", "touch"}), "usb_en", "high"), "touch", "low")
  ELSE Output(Request(g, {"unnamed"}), "unnamed", "high")

board_init ==
  /\ Step("board_init", "video") /\ sboard \in Himx0294
  /\ gpio' = BoardPins(Mux(gpio, misc_pads))
  /\ UNCHANGED <<svars, outside, video, hub, pmic, detected, tries, nacks>>

(* board_init of himx0432.c.  Its pins are muxed by the device tree: the hog *)
(* rev2 with the first device, here the i2c bus, the switch's reset line     *)
(* only with fec1, whose group it is in.                                    *)
get_i2c_device ==
  /\ bpc = "board_init" /\ sboard = "impec"
  /\ \/ Answers(hw.pmic) /\ bpc' = "reset_low" /\ tries' = 0
     \/ /\ Silent(hw.pmic)
        /\ IF Retry(tries) THEN tries' = tries + 1 /\ UNCHANGED bpc ELSE tries' = 0 /\ bpc' = "video"
  /\ gpio' = Mux(gpio, {"rev2"})
  /\ UNCHANGED <<svars, outside, video, hub, pmic, detected>>

HoldSwitch ==
  /\ Step("reset_low", "0x66")
  /\ gpio' = Output(Request(gpio, {"switch_rst"}), "switch_rst", "low")
  /\ UNCHANGED <<svars, outside, video, hub, pmic, detected, tries, nacks>>

(* The result of dm_i2c_write is not looked at.                             *)
SetRail(rail, next) ==
  /\ Step(rail, next)
  /\ \/ pmic' = pmic \cup {rail} /\ UNCHANGED nacks
     \/ UNCHANGED pmic /\ Silent(TRUE)
  /\ UNCHANGED <<svars, outside, gpio, video, hub, detected, tries>>

ReleaseSwitch ==
  /\ Step("release", "video")
  /\ gpio' = Output(gpio, "switch_rst", "high")
  /\ UNCHANGED <<svars, outside, video, hub, pmic, detected, tries, nacks>>

(* The boards of imx8mp_evk.h have their board_init elsewhere.              *)
OtherBoardInit ==
  /\ Step("board_init", "late_init") /\ sboard = "himx8"
  /\ UNCHANGED <<svars, outside, gpio, video, hub, pmic, detected, tries, nacks>>

(* The video driver takes the panel that is asked for, or the first of       *)
(* displays that detect_i2c finds, or the first of all, and calls enable.   *)
displays == <<[name |-> "HDMI", detect |-> TRUE], [name |-> "LDB-WXGA", detect |-> FALSE]>>
detect_i2c == hw.hdmi
SlipAssigns(v) == [NoVideo EXCEPT !.routed = v.routed, !.width = 24]
enable_lvds(v) == [v EXCEPT !.width = 24]
Enabled(v, name) ==
  IF name = "LDB-WXGA" THEN [enable_lvds(v) EXCEPT !.panel = name] ELSE [v EXCEPT !.panel = name]
FirstDetected ==
  IF \E k \in DOMAIN displays : displays[k].detect /\ detect_i2c
  THEN displays[CHOOSE k \in DOMAIN displays : displays[k].detect].name ELSE displays[1].name
(* novideo in the environment skips it all.                                 *)
board_cfb_skip == {TRUE, FALSE}

ChoosePanel ==
  /\ Step("video", "misc_init_r")
  /\ \E skip \in board_cfb_skip :
       IF sboard \in Himx0294 /\ ~skip
       THEN /\ video' = Enabled(video, IF vpanel # "none" THEN vpanel ELSE FirstDetected)
            /\ gpio' = IF video'.panel = "LDB-WXGA" THEN Output(gpio, "backlight", "high") ELSE gpio
       ELSE UNCHANGED <<video, gpio>>
  /\ UNCHANGED <<svars, outside, hub, pmic, detected, tries, nacks>>

SlipFewRequests(g) == IF sboard = "ivap" THEN Request(g, {"dvrec", "otg_pwr"}) ELSE g
MiscRequests(g) == IF sboard = "ivap" THEN Request(g, {"dvrec", "otg_pwr", "hub_rst"}) ELSE g

misc_init_r ==
  /\ Step("misc_init_r", "late_init")
  /\ gpio' = MiscRequests(gpio)
  /\ UNCHANGED <<svars, outside, video, hub, pmic, detected, tries, nacks>>

(* board_late_init: what it looks at before it chooses a device tree.  The  *)
(* touch controller is supplied by its enable pin, which is active low.     *)
LateInitPins ==
  /\ Step("late_init", "net") /\ sboard # "dvmon"
  /\ gpio' = CASE sboard = "ivap" -> Direction(gpio, "dvrec", "in")
               [] sboard = "impec" -> Direction(Request(gpio, {"rev2"}), "rev2", "in")
               [] OTHER -> gpio
  /\ detected' = CASE sboard = "ivap" -> Level(gpio', "dvrec") = "low"
                   [] sboard = "impec" -> Level(gpio', "rev2") = "high"
                   [] OTHER -> FALSE
  /\ UNCHANGED <<svars, outside, video, hub, pmic, tries, nacks>>

TouchThere == hw.touch /\ Drives(gpio, "touch", "low")
has_i2c_device ==
  /\ bpc = "late_init" /\ sboard = "dvmon"
  /\ \/ Answers(TouchThere) /\ detected' = TRUE /\ tries' = 0 /\ bpc' = "net"
     \/ /\ Silent(TouchThere)
        /\ UNCHANGED detected
        /\ IF Retry(tries) THEN tries' = tries + 1 /\ UNCHANGED bpc ELSE tries' = 0 /\ bpc' = "net"
  /\ UNCHANGED <<svars, outside, gpio, video, hub, pmic>>

-----------------------------------------------------------------------------
(* The network starts, which probes fec1, and on himx8 the boot script's     *)
(* switch_init.                                                             *)
NetStart ==
  /\ Step("net", "net_runs") /\ SwitchStart
  /\ gpio' = IF sboard = "impec" THEN Mux(gpio, {"switch_rst"}) ELSE gpio
  /\ UNCHANGED <<outside, video, hub, pmic, detected, tries, nacks>>

NetStep == bpc = "net_runs" /\ PhyDriver /\ UNCHANGED board
NetDone ==
  /\ Step("net_runs", "prompt") /\ spc = "done" /\ Returned
  /\ UNCHANGED <<svars, outside, gpio, video, hub, pmic, detected, tries, nacks>>
Hardwired == SwitchStep /\ UNCHANGED board

usb_pads == IF sboard = "dvmon" THEN {"usb_en"} ELSE {"hub_rst", "otg_pwr"}

(* board_ehci_hcd_init: the two values of the reset line are 2 ms apart.    *)
UsbPins(g) == IF sboard = "dvmon" THEN Output(g, "usb_en", "high")
              ELSE Output(Output(g, "otg_pwr", "high"), "hub_rst", "low")

board_ehci_hcd_init ==
  /\ Step("prompt", "usb_release") /\ sboard \in Himx0294
  /\ gpio' = UsbPins(Mux(gpio, usb_pads))
  /\ hub' = HubAfter(gpio')
  /\ UNCHANGED <<svars, outside, video, pmic, detected, tries, nacks>>

ReleaseHub ==
  /\ Step("usb_release", "enumerate")
  /\ gpio' = IF sboard = "dvmon" THEN gpio ELSE Output(gpio, "hub_rst", "high")
  /\ hub' = HubAfter(gpio')
  /\ UNCHANGED <<svars, outside, video, pmic, detected, tries, nacks>>

Enumerate ==
  /\ Step("enumerate", "prompt")
  /\ hub' = "used"
  /\ UNCHANGED <<svars, outside, gpio, video, pmic, detected, tries, nacks>>

(* A reset at any time: the processor starts afresh, switch, hub and PMIC    *)
(* keep what they have.                                                     *)
Reset ==
  /\ boots < MaxBoots /\ boots' = boots + 1
  /\ SwitchReset /\ bpc' = "early_init_f"
  /\ gpio' = NoGpio /\ video' = NoVideo /\ detected' = FALSE /\ tries' = 0
  /\ UNCHANGED <<hw, vpanel, hub, pmic, nacks>>

BoardStep ==
  \/ board_early_init_f \/ board_init \/ get_i2c_device \/ HoldSwitch
  \/ SetRail("0x66", "0x6d") \/ SetRail("0x6d", "release") \/ ReleaseSwitch
  \/ OtherBoardInit \/ ChoosePanel \/ misc_init_r \/ LateInitPins \/ has_i2c_device
  \/ NetStart \/ NetStep \/ NetDone
Usb == board_ehci_hcd_init \/ ReleaseHub \/ Enumerate

BoardNext == BoardStep \/ Hardwired \/ Usb \/ Reset
BoardSpec == BoardInitial /\ [][BoardNext]_bvars

(* The processor runs; the switch and each of its PHYs work by themselves.   *)
FairBoardSpec ==
  /\ BoardSpec /\ WF_bvars(BoardStep) /\ WF_bvars(SmiDone /\ UNCHANGED board)
  /\ \A p \in Ports : WF_bvars(PhyResetDone(p) /\ UNCHANGED board)

-----------------------------------------------------------------------------
(* On the ivap board USB is enumerated only after the hub got a reset pulse *)
(* since the last time: its reset pin needs a request in misc_init_r, its    *)
(* mux from usb_pads, and low before high.                                  *)
HubResetBeforeUse == bpc = "enumerate" /\ sboard = "ivap" => hub = "fresh"

(* What the panel and the network find.  The LVDS panel has its clocks, mux  *)
(* and channel from setup_display, before relocation, and its width from     *)
(* enable_lvds, which shares gpr2 with it.  The reset line of the impec      *)
(* switch, set without its pad, has been released when fec1's probe muxes    *)
(* that: nobody touches it again.                                           *)
DevicesReady ==
  /\ video.panel = "LDB-WXGA" => video.routed /\ video.channel /\ video.width = 24
  /\ bpc \notin {"0x66", "0x6d", "release"} => ~Drives(gpio, "switch_rst", "low")

(* board_late_init decides after what is there: the strap is read through a  *)
(* pin that is muxed, requested and an input, the touch controller has its  *)
(* supply on, and up to four missed probes do not matter.                   *)
DetectionTrue ==
  bpc \in {"net", "net_runs", "prompt", "usb_release", "enumerate"} /\ nacks < 5 =>
    detected = CASE sboard = "ivap" -> hw.strap = "low"
                 [] sboard = "impec" -> hw.strap = "high"
                 [] OTHER -> hw.touch
=============================================================================
