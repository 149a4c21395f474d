---------------------------- MODULE DispBringup ----------------------------
(***************************************************************************)
(* The registers of lt8912b-bringup's do_bringup(): which PHY lanes are    *)
(* assigned, enabled and powered, the PLL, the lane count of the DSI MAC,  *)
(* and DISP_CFG, which is built up in g_disp_cfg and committed several     *)
(* times. The module parameters may be written at any time, and the files  *)
(* `pattern` and `vipinit` are used between and (pattern) during           *)
(* bring-ups. Lt8912b has the rest of the driver: the clock gate, the MAC, *)
(* the framebuffer's users and the unbinding.                              *)
(*                                                                         *)
(* External: the hardware. A block reset puts its registers back to zero   *)
(* or leaves them; what a bring-up finds is arbitrary.                     *)
(***************************************************************************)
EXTENDS Integers, FiniteSets

CONSTANTS PixClocks     \* values of pixclk_khz

VARIABLES
    par,        \* the parameters: [lanes, planar, useFb, pol]
    pc,         \* do_bringup()'s step
    nl,         \* [map: lm, n: nlanes]
    cfg,        \* DISP_CFG: [force, shrd, tgen, fmt, pol]
    tracked,    \* g_disp_cfg: [fmt, pol]
    phy,        \* [role: LANE_SEL, en: PHY_EN's data lanes, off: powered down, pll]
    dsi, pitch, win,    \* HS_0's lane count, the layout of PITCH and ADDR, SIZE is set
    ready,      \* a bring-up ended and nothing reset the display since
    flipped     \* planar was written inside disp_set_scanout() (history)

vars == <<par, pc, nl, cfg, tracked, phy, dsi, pitch, win, ready, flipped>>

Lanes == 0 .. 4
LANE_CLK == 0
LANE_OFF == 7
lane_map4 == [i \in Lanes |-> CASE i = 0 -> 1 [] i = 1 -> 2 [] i = 2 -> LANE_CLK [] i = 3 -> 3 [] i = 4 -> 4]
lane_map2 == [i \in Lanes |-> CASE i = 0 -> 1 [] i = 1 -> 2 [] i = 2 -> LANE_CLK [] OTHER -> LANE_OFF]
Used(m) == {i \in Lanes : m[i] <= 4}
DataRoles(m) == {m[i] : i \in Used(m)} \ {LANE_CLK}

-----------------------------------------------------------------------------
(* cal_pll_reg(): the VCO is the bit rate times a power of two, next to    *)
(* 2.5 GHz; rates in kHz.                                                  *)

VBITS == 24
ilog2(n) == CHOOSE k \in 0 .. 7 : 2 ^ k <= n /\ n < 2 ^ (k + 1)
RatioFor(vcor) == LET r == 25000000 \div vcor IN IF r < 1 THEN 1 ELSE r

Gain(vcor) == 2 ^ ilog2(RatioFor(vcor))

(* dphy_set_pll(): TXPLL's fields. *)
SetPll(clk, lanes) ==
    LET vcor == (clk * VBITS * 10) \div lanes
        gain == Gain(vcor)
        vcoc == (vcor * gain) \div 10
        dig == ilog2(gain)
        divout == IF dig > 3 THEN 3 ELSE dig
    IN  [clk |-> clk, lanes |-> lanes, vco |-> vcoc, disp_div |-> vcoc \div clk, divout |-> divout, div |-> dig - divout]

-----------------------------------------------------------------------------
Zero == [force |-> FALSE, shrd |-> FALSE, tgen |-> FALSE, fmt |-> 0, pol |-> 0]

(* vip_cold_init(): the resets of every display block are pulsed; with     *)
(* bits, FORCE_CLK and SHRD_SEL are set after it.                          *)
VipColdInit(bits) ==
    /\ \E c \in {cfg, Zero} : cfg' = [c EXCEPT !.force = @ \/ bits, !.shrd = @ \/ bits]
    /\ phy' \in {phy, [phy EXCEPT !.role = [i \in Lanes |-> 0], !.en = {}]}
    /\ dsi' \in {dsi, 0}
    /\ win' \in {win, FALSE}
    /\ UNCHANGED pitch

(* disp_cfg_commit(): under the mask 0xf071, then both promotions. *)
Commit(c, t) == [c EXCEPT !.fmt = t.fmt, !.pol = t.pol]

(* do_bringup(): lanes is read for the map and the count (two reads with   *)
(* nothing in between, taken as one), the tracked bits start afresh, then  *)
(* vip_cold_init, scl_top_init and the two FSBL bits.                      *)
Begin ==
    /\ pc = "idle" /\ pc' = "lanes"
    /\ nl' = [map |-> IF par.lanes = 2 THEN lane_map2 ELSE lane_map4, n |-> IF par.lanes = 2 THEN 2 ELSE 4]
    /\ tracked' = [fmt |-> 0, pol |-> 0]
    /\ VipColdInit(TRUE)
    /\ ready' = FALSE /\ flipped' = FALSE
    /\ UNCHANGED par

(* dphy_disable_lanes(), which zeroes the roles, then dphy_set_lane() or,  *)
(* for an unused lane, the role that powers it down.                       *)
Assign(m) == [i \in Lanes |-> m[i]]

(* ... dphy_lane_en() and dphy_set_pll(), for the pixclk_khz of now. *)
SetLanes ==
    /\ pc = "lanes" /\ pc' = "intf"
    /\ \E clk \in PixClocks :
        phy' = [phy EXCEPT !.role = Assign(nl.map), !.en = DataRoles(nl.map), !.pll = SetPll(clk, nl.n)]
    /\ UNCHANGED <<par, nl, cfg, tracked, dsi, pitch, win, ready, flipped>>

(* dphy_init_mipi(): a lane whose role is above 4 is powered down. *)
PoweredDown(role) == {i \in Lanes : role[i] > 4}

(* disp_set_intf_mipi() and dsi_config(). *)
SetIntf ==
    /\ pc = "intf" /\ pc' = "timing"
    /\ phy' = [phy EXCEPT !.off = PoweredDown(phy.role)]
    /\ dsi' = nl.n \div 2
    /\ UNCHANGED <<par, nl, cfg, tracked, pitch, win, ready, flipped>>

(* disp_set_timing(): the polarity, and a commit. *)
SetTiming ==
    /\ pc = "timing" /\ pc' = "source"
    /\ tracked' = [tracked EXCEPT !.pol = par.pol]
    /\ cfg' = Commit(cfg, tracked')
    /\ UNCHANGED <<par, nl, phy, dsi, pitch, win, ready, flipped>>

(* disp_set_pattern(): the window, the pattern, a commit. *)
Pattern == win' = TRUE /\ cfg' = Commit(cfg, tracked) /\ UNCHANGED <<tracked, pitch>>

(* The framebuffer's layout goes into the pitches and addresses ... *)
SetSource ==
    /\ pc = "source"
    /\ IF par.useFb
       THEN /\ win' = TRUE /\ pitch' = (IF par.planar THEN 2 ELSE 4) /\ pc' = "format"
            /\ UNCHANGED <<cfg, tracked>>
       ELSE Pattern /\ pc' = "tgen"
    /\ UNCHANGED <<par, nl, phy, dsi, ready, flipped>>

(* ... and, the parameter read again, into the format. *)
SetFormat ==
    /\ pc = "format" /\ pc' = "tgen"
    /\ tracked' = [tracked EXCEPT !.fmt = IF par.planar THEN 2 ELSE 4]
    /\ cfg' = Commit(cfg, tracked')
    /\ UNCHANGED <<par, nl, phy, dsi, pitch, win, ready, flipped>>

(* disp_tgen_enable(true): a live bit. *)
TgenEnable ==
    /\ pc = "tgen" /\ pc' = "idle"
    /\ cfg' = [cfg EXCEPT !.tgen = TRUE]
    /\ ready' = TRUE
    /\ UNCHANGED <<par, nl, tracked, phy, dsi, pitch, win, flipped>>

-----------------------------------------------------------------------------
(* pattern_write(): type OFF only clears PAT_CFG. *)
PatternWrite ==
    /\ Pattern
    /\ UNCHANGED <<par, pc, nl, phy, dsi, ready, flipped>>

(* vipinit_write() *)
VipinitWrite ==
    /\ pc = "idle"
    /\ VipColdInit(FALSE)
    /\ ready' = FALSE
    /\ UNCHANGED <<par, pc, nl, tracked, flipped>>

(* A write of a module parameter. *)
SetParam ==
    /\ \/ \E n \in {2, 4} : par' = [par EXCEPT !.lanes = n]
       \/ par' = [par EXCEPT !.planar = ~@]
       \/ par' = [par EXCEPT !.useFb = ~@]
       \/ \E p \in {0, 96} : par' = [par EXCEPT !.pol = p]
    /\ flipped' = (flipped \/ (pc = "format" /\ par'.planar # par.planar))
    /\ UNCHANGED <<pc, nl, cfg, tracked, phy, dsi, pitch, win, ready>>

-----------------------------------------------------------------------------
(* U-Boot's display may be up: its DISP_CFG has the timing generator on. *)
Init ==
    /\ par = [lanes |-> 4, planar |-> TRUE, useFb |-> TRUE, pol |-> 0]
    /\ pc = "idle" /\ nl = [map |-> lane_map4, n |-> 4]
    /\ cfg = [Zero EXCEPT !.tgen = TRUE] /\ tracked = [fmt |-> 0, pol |-> 0]
    /\ phy = [role |-> [i \in Lanes |-> 0], en |-> {}, off |-> {}, pll |-> SetPll(74250, 4)]
    /\ dsi = 0 /\ pitch = 0 /\ win = FALSE /\ ready = FALSE /\ flipped = FALSE

BringUp == Begin \/ SetLanes \/ SetIntf \/ SetTiming \/ SetSource \/ SetFormat \/ TgenEnable
Next == BringUp \/ PatternWrite \/ VipinitWrite \/ SetParam

-----------------------------------------------------------------------------
(* "marks PHY lanes 3/4 role 7 so dphy_init powers their drivers down":    *)
(* after any bring-up, from any earlier lane count and whatever happens to *)
(* the parameters meanwhile, the lanes that are powered are one clock lane *)
(* and the data lanes that are enabled, as many as the DSI MAC sends on.   *)
LanesAgree ==
    ready => LET on == Lanes \ phy.off
             IN  /\ {phy.role[i] : i \in on} = phy.en \cup {LANE_CLK}
                 /\ Cardinality(on) = Cardinality(phy.en) + 1
                 /\ 2 ^ dsi = Cardinality(phy.en)

(* DISP_CFG after a bring-up, and after any pattern written since: the     *)
(* bits "a whole-word write would zero" are set, the timing generator      *)
(* runs, and the format is the one the pitches were programmed for, unless *)
(* the parameter changed between its two reads.                            *)
CfgHolds ==
    ready => /\ cfg.force /\ cfg.shrd /\ cfg.tgen /\ win
             /\ cfg.fmt = tracked.fmt /\ cfg.pol = tracked.pol
             /\ cfg.fmt \in {0, pitch} \/ flipped

(* After a bring-up with any pixel clock and lane count the VCO is in its  *)
(* octave, the dividers bring it back to the bit rate of each lane the MAC *)
(* sends on and, by disp_div, to the pixel clock exactly, and each divider *)
(* fits its field.                                                         *)
PllExact ==
    ready => LET p == phy.pll
             IN  /\ p.vco <= 2500000 /\ 2 * p.vco > 2500000
                 /\ p.vco = ((p.clk * VBITS) \div Cardinality(phy.en)) * 2 ^ (p.divout + p.div)
                 /\ p.disp_div * p.clk = p.vco /\ p.disp_div <= 127 /\ p.div <= 1
=============================================================================
