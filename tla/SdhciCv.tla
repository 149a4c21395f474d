------------------------------ MODULE SdhciCv ------------------------------
(***************************************************************************)
(* sdhci-cv181x: the operations the SD host core calls on a host of one of *)
(* the three kinds (sdhci_cv181x_{emmc,sd,sdio}_ops): resets, the bus      *)
(* speed mode, tuning, and for the SD card slot the power, the signal      *)
(* voltage and the pads. The core and the card are external: the core      *)
(* calls the operations one at a time (it holds the host), a card passes   *)
(* or fails at each of the delay line's taps.                              *)
(*                                                                         *)
(* Of the PHY registers the model keeps what they select together: the     *)
(* DS/HS setting or the delay line at a tap; -1 stands for the 0xFFFF0100  *)
(* that set_tap writes when a tuning found no tap.                         *)
(***************************************************************************)
EXTENDS Integers, FiniteSets

CONSTANTS
    TUNE_MAX_PHCODE,    \* taps of the delay line (128)
    TAP_WINDOW_THLD     \* the least width of a usable window (20)

Taps == 0 .. TUNE_MAX_PHCODE - 1
Ds == -2               \* the DS/HS setting: no tap

VARIABLES
    kind,       \* "emmc", "sd" or "sdio"
    uhs,        \* SDHCI_HOST_CONTROL2's UHS mode: "sdr12", "sdr50" or "sdr104"
    fast,       \* host->clock is above 100 MHz
    phy,        \* Ds, or what the delay line is set to
    inst,       \* the instance bits of MSHC_CTRL: "none", "mmc" or "sd1"
    tap,        \* cvi_host->final_tap, -1 for none
    fails,      \* taps the card failed in the last tuning
    slot        \* the SD card slot: [power, pads, pulls, sw: the power switch, v18]

vars == <<kind, uhs, fast, phy, inst, tap, fails, slot>>

(* What a reset writes of the tap, its seven bits: final_tap & 0x7F. *)
Field(t) == IF t = -1 THEN TUNE_MAX_PHCODE - 1 ELSE t

-----------------------------------------------------------------------------
(* sdhci_cvi_general_set_uhs_signaling(): below 100 MHz the feedback clock *)
(* replaces the tuned one.                                                 *)
SetUhsSignaling ==
    /\ \E m \in {"sdr12", "sdr50", "sdr104"}, f \in BOOLEAN :
        /\ fast' = f
        /\ uhs' = IF m = "sdr104" /\ ~f THEN "sdr12" ELSE m
    /\ UNCHANGED <<kind, phy, inst, tap, fails, slot>>

(* The scan for the median of the widest window of taps that passed; a     *)
(* window counts from TAP_WINDOW_THLD on, the first of equal ones wins.    *)

FinalTap(bad) ==
    LET scan[k \in 0 .. TUNE_MAX_PHCODE] ==
            IF k = 0 THEN [idx |-> -1, size |-> 0, max |-> 0, tap |-> -1]
            ELSE LET s == scan[k - 1]
                     idx == IF s.idx = -1 THEN k - 1 ELSE s.idx
                     size == s.size + 1
                     wider == size > s.max
                 IN  IF k - 1 \in bad THEN [s EXCEPT !.idx = -1, !.size = 0]
                     ELSE [idx |-> idx, size |-> size, max |-> IF wider THEN size ELSE s.max,
                           tap |-> IF wider /\ size >= TAP_WINDOW_THLD THEN idx + size \div 2
                                   ELSE s.tap]
    IN  scan[TUNE_MAX_PHCODE].tap

(* sdhci_cv181x_general_execute_tuning(): every tap is tried (a tap passes *)
(* when each of its 51 commands does), the chosen one is set, also when    *)
(* there is none (-1); the command that then decides changes nothing here. *)
(* The core may ask for it in any mode. The lead/lag width the function    *)
(* divides by can be 0 (line 562); the quotient is for a debug message.    *)
ExecuteTuning ==
    /\ fails' \in SUBSET Taps
    /\ tap' = FinalTap(fails')
    /\ phy' = tap'                              \* set_tap: BIT(8) | tap << 16
    /\ UNCHANGED <<kind, uhs, fast, inst, slot>>

-----------------------------------------------------------------------------
(* The resets. SDHCI_RESET_ALL clears HOST_CONTROL2 too; then the PHY is   *)
(* set up for the mode that is there.                                      *)
AfterReset(all) == IF all THEN "sdr12" ELSE uhs

PhyFor(mode) == IF mode = "sdr104" THEN Field(tap) ELSE Ds

Reset(all, bits) ==
    /\ uhs' = AfterReset(all)
    /\ phy' = PhyFor(uhs')
    /\ inst' = bits
    /\ UNCHANGED <<kind, fast, tap, fails, slot>>

EmmcReset == kind = "emmc" /\ \E all \in BOOLEAN : Reset(all, "mmc")
SdReset == kind = "sd" /\ \E all \in BOOLEAN : Reset(all, "none")
SdioReset == kind = "sdio" /\ \E all \in BOOLEAN : Reset(all, "sd1")

-----------------------------------------------------------------------------
(* The SD slot. *)

(* sdhci_cv181x_sd_voltage_switch(): the core asks for 1.8 V of a card     *)
(* that is on.                                                             *)
VoltageSwitch ==
    /\ kind = "sd" /\ slot.power
    /\ slot' = [slot EXCEPT !.sw = "1v8", !.v18 = TRUE]
    /\ UNCHANGED <<kind, uhs, fast, phy, inst, tap, fails>>

(* sdhci_cv181x_sd_voltage_restore() *)

(* Mutant: switching off leaves the 1.8 V flag. *)
VoltageRestoreKeeps(s, unplug) ==
    IF unplug THEN [s EXCEPT !.sw = "off"]
    ELSE IF s.v18 THEN s ELSE [s EXCEPT !.sw = "3v3"]

VoltageRestore(s, unplug) ==
    IF unplug THEN [s EXCEPT !.sw = "off", !.v18 = FALSE]
    ELSE IF s.v18 THEN s ELSE [s EXCEPT !.sw = "3v3"]

SetupPad(s, unplug) == [s EXCEPT !.pads = IF unplug THEN "gpio" ELSE "sdio"]
SetupIo(s, reset) == [s EXCEPT !.pulls = IF reset THEN "down" ELSE "up"]

(* sdhci_cv181x_sd_set_power(), called by every set_ios of the core: on    *)
(* only with a card, and each time back to the DS/HS setting.              *)
SetPowerOn ==
    /\ kind = "sd"
    /\ slot' = SetupIo(SetupPad(VoltageRestore([slot EXCEPT !.power = TRUE], FALSE), FALSE), FALSE)
    /\ phy' = Ds
    /\ UNCHANGED <<kind, uhs, fast, inst, tap, fails>>

SetPowerOff ==
    /\ kind = "sd"
    /\ slot' = [VoltageRestore(SetupIo(SetupPad(slot, TRUE), TRUE), TRUE) EXCEPT !.power = FALSE]
    /\ uhs' = "sdr12" /\ phy' = Ds     \* the core resets the host as well
    /\ UNCHANGED <<kind, fast, inst, tap, fails>>

-----------------------------------------------------------------------------
Init ==
    /\ kind \in {"emmc", "sd", "sdio"}
    /\ uhs = "sdr12" /\ fast = FALSE /\ phy = Ds /\ inst = "none"
    /\ tap = 0 /\ fails = {}
    /\ slot = [power |-> FALSE, pads |-> "gpio", pulls |-> "down", sw |-> "3v3", v18 |-> FALSE]

Next ==
    \/ SetUhsSignaling \/ ExecuteTuning \/ EmmcReset \/ SdReset \/ SdioReset
    \/ VoltageSwitch \/ SetPowerOn \/ SetPowerOff

-----------------------------------------------------------------------------
(* The core tunes again after an error and after a retune timer, and every *)
(* reset rewrites the PHY: the delay line never holds the tap of an        *)
(* earlier tuning, but the last one's - or, where that found none, the     *)
(* ones set_tap wrote or the seven of them a reset leaves. (Whether the    *)
(* last tap is there or the DS/HS setting is the mode's: a tap found while *)
(* the mode's bits are clear, or in the SD slot, goes with the next reset  *)
(* or set_ios.)                                                            *)
NoStaleTap == phy \in {Ds, tap, Field(tap)}

Passed(i, j) == i .. j \cap fails = {}
Widest == LET w == {p[2] - p[1] + 1 : p \in {q \in Taps \X Taps : q[1] <= q[2] /\ Passed(q[1], q[2])}}
          IN  IF w = {} THEN 0 ELSE CHOOSE n \in w : \A m \in w : m <= n

(* "Find a final tap as median of maximum window": the tap is in the       *)
(* middle of a widest run of taps that passed, so no other tap is further  *)
(* from one that failed, and there is none exactly when every run is       *)
(* narrower than the threshold.                                            *)
TapIsMedian ==
    tap # 0 \/ fails # {} =>
        IF Widest < TAP_WINDOW_THLD THEN tap = -1
        ELSE LET i == tap - Widest \div 2 IN i >= 0 /\ Passed(i, i + Widest - 1) /\ i + Widest <= TUNE_MAX_PHCODE

(* A card is first powered at 3.3 V, whatever the one before it had        *)
(* negotiated: the switch is at 1.8 V only after this card was asked, and  *)
(* the pads drive the slot only while it is powered.                       *)
FreshCardAt3V3 ==
    [][/\ slot.power = FALSE /\ slot'.power => slot'.sw = "3v3"
       /\ kind = "sd" => /\ slot'.pads = "sdio" <=> slot'.power
                         /\ slot'.sw = "1v8" <=> slot'.v18]_vars
=============================================================================
