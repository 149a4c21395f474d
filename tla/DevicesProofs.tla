---------------------------- MODULE DevicesProofs ----------------------------
(***************************************************************************)
(* Proofs about the badge's drivers and small programs, as MCDevices       *)
(* instantiates them: for every set of writers, every pixel clock in the   *)
(* PLL's range, every setting of the button's times and every line, the    *)
(* safety properties its run checks on small ones.                         *)
(***************************************************************************)
EXTENDS MCDevices, Integers, Sequences, FiniteSetTheorems, TLAPS

-----------------------------------------------------------------------------
(* Lt8912b: the driver's state is consistent with the step of              *)
(* bringup_remove() it is in, the scroller's work is running only over a   *)
(* live framebuffer and only while scroll_on is set or somebody waits for  *)
(* it in cancel_delayed_work_sync().                                       *)

WriterStates == {"idle", "mac", "cancel", "fillcancel", "mapcancel", "fill", "map"}
Painting == scroll.work \in {"running", "requeue"}

BridgeTypeOK ==
    /\ drv \in [bound : BOOLEAN, g : BOOLEAN, fb : {"none", "live"},
                leaving : {"no", "cancel", "free"}]
    /\ wr \in [Writers -> WriterStates]
    /\ scroll \in [on : BOOLEAN, work : {"idle", "queued", "running", "requeue"}]
    /\ hw \in [clk : Nat, gated : BOOLEAN, mac : {"idle", "hs"}]
    /\ runs \in Nat

(* g is published exactly while the driver is bound and not leaving; once   *)
(* the work was cancelled nobody queues it again.                          *)
DriverInv ==
    /\ drv.g = (drv.bound /\ drv.leaving = "no")
    /\ ~drv.bound => drv.leaving = "no"
    /\ ~drv.bound \/ drv.leaving = "free" => ~Painting /\ drv.fb = "none"

PaintInv ==
    Painting => /\ drv.fb = "live"
                /\ scroll.on \/ Bridge!Cancelling

MacInv == runs > 0 /\ (\A w \in Writers : wr[w] # "mac") => hw.mac = "hs"

BridgeInv ==
    BridgeTypeOK /\ DriverInv /\ PaintInv /\ MacInv /\ Bridge!DispSrcBalanced

-----------------------------------------------------------------------------
(* BtnWait: what prev, pressed_at and the last sample say of the finger and *)
(* of the contacts.                                                        *)

ButtonTypeOK ==
    /\ turn \in {"world", "btnwait"}
    /\ down \in BOOLEAN /\ on \in BOOLEAN /\ whole \in BOOLEAN
    /\ settle \in 0 .. BOUNCE /\ held \in Nat
    /\ bwLine \in {0, 1} /\ prev \in {0, 1}
    /\ at \in Int /\ at >= -1
    /\ seen \in {0, 1}

(* The line is quiet once the contacts have settled, and they settle       *)
(* BOUNCE ticks after an edge.                                             *)
LineInv ==
    /\ settle = 0 => bwLine = (IF down THEN 0 ELSE 1)
    /\ down /\ settle > 0 => settle + held = BOUNCE
    /\ down /\ settle = 0 => held >= BOUNCE

(* pressed_at is set exactly after a low sample, and is no earlier than    *)
(* the press.                                                              *)
SampleInv ==
    /\ at # -1 <=> prev = 0
    /\ ~on => at = -1 /\ ~whole
    /\ turn = "world" /\ on => prev = bwLine
    /\ at # -1 => at <= held + (IF down THEN 0 ELSE BOUNCE - settle)

(* A low level seen after the release is too brief to be another press. *)
ReportedInv ==
    seen = 1 => /\ ~down /\ held + BOUNCE >= DEBOUNCE
                /\ at <= BOUNCE - settle
                /\ last.whole => IF last.long THEN held + BOUNCE >= LONG ELSE held < LONG + BOUNCE

(* While a whole press is not reported, pressed_at is within the bounce of *)
(* its start, or a bounce of the release has cleared it, and then the      *)
(* press was too brief.                                                    *)
WholeInv ==
    whole /\ seen = 0 =>
        /\ down /\ settle = 0 /\ (turn = "world" \/ held > BOUNCE)
              => prev = 0 /\ at >= held - BOUNCE
        /\ ~down /\ held > BOUNCE
              => \/ prev = 0 /\ at >= held - BOUNCE
                 \/ held < DEBOUNCE + BOUNCE /\ at <= BOUNCE - settle

ButtonInv == ButtonTypeOK /\ LineInv /\ SampleInv /\ ReportedInv /\ WholeInv

-----------------------------------------------------------------------------
(* DispBringup: what each step of do_bringup() has established. *)

LaneMap == nl = [map |-> Disp!lane_map4, n |-> 4] \/ nl = [map |-> Disp!lane_map2, n |-> 2]

DispTypeOK ==
    /\ pc \in {"idle", "lanes", "intf", "timing", "source", "format", "tgen"}
    /\ par \in [lanes : {2, 4}, planar : BOOLEAN, useFb : BOOLEAN, pol : {0, 96}]
    /\ LaneMap
    /\ cfg \in [force : BOOLEAN, shrd : BOOLEAN, tgen : BOOLEAN, fmt : Int, pol : Int]
    /\ tracked \in [fmt : Int, pol : Int]
    /\ ready \in BOOLEAN /\ flipped \in BOOLEAN /\ win \in BOOLEAN
    /\ dbPhy = [role |-> dbPhy.role, en |-> dbPhy.en, off |-> dbPhy.off, pll |-> dbPhy.pll]

LanesSet ==
    /\ dbPhy.role = nl.map /\ dbPhy.en = Disp!DataRoles(nl.map)
    /\ \E clk \in PixClocks : dbPhy.pll = Disp!SetPll(clk, nl.n)

LanesOn ==
    /\ dbPhy.off = Disp!PoweredDown(nl.map)
    /\ dsi = nl.n \div 2

Past(steps) == pc \in steps \/ ready

DispInv ==
    /\ DispTypeOK
    /\ ready => pc = "idle"
    /\ Past({"intf", "timing", "source", "format", "tgen"}) => LanesSet
    /\ Past({"timing", "source", "format", "tgen"}) => LanesOn
    /\ pc # "idle" \/ ready => cfg.force /\ cfg.shrd
    /\ Past({"source", "format", "tgen"}) => cfg.fmt = tracked.fmt /\ cfg.pol = tracked.pol
    /\ pc \in {"lanes", "intf", "timing", "source", "format"} => tracked.fmt = 0
    /\ pc = "format" => pitch = (IF par.planar THEN 2 ELSE 4) \/ flipped
    /\ Past({"format", "tgen"}) => win
    /\ Past({"tgen"}) => tracked.fmt \in {0, pitch} \/ flipped
    /\ ready => cfg.tgen
-----------------------------------------------------------------------------
(* The driver starts unbound, its work idle and the MAC as U-Boot left it. *)
LEMMA BridgeInit == Bridge!Init => BridgeInv
<1> SUFFICES ASSUME Bridge!Init PROVE BridgeInv
  OBVIOUS
<1> USE DEF Bridge!Init, Bridge!HS
<1>1. wr \in [Writers -> WriterStates]
  BY DEF WriterStates
<1>6. hw \in [clk : Nat, gated : BOOLEAN, mac : {"idle", "hs"}]
  <2>1. {0} \subseteq Nat /\ {FALSE} \subseteq BOOLEAN
    OBVIOUS
  <2> QED
    BY <2>1
<1>7. drv \in [bound : BOOLEAN, g : BOOLEAN, fb : {"none", "live"}, leaving : {"no", "cancel", "free"}]
  OBVIOUS
<1>2. BridgeTypeOK
  BY <1>1, <1>6, <1>7 DEF BridgeTypeOK
<1>3. DriverInv /\ PaintInv
  BY DEF DriverInv, PaintInv, Painting
<1>4. MacInv
  BY DEF MacInv
<1>5. Bridge!DispSrcBalanced
  BY DEF Bridge!DispSrcBalanced
<1> QED
  BY <1>2, <1>3, <1>4, <1>5 DEF BridgeInv

(* do_bringup() gates disp-src only when it holds it and takes it back only *)
(* when it gave it away.                                                    *)
LEMMA GateStep ==
    ASSUME BridgeInv, drv.bound, NEW off \in BOOLEAN, Bridge!Gate(off)
    PROVE  /\ hw' \in [clk : Nat, gated : BOOLEAN, mac : {"idle", "hs"}]
           /\ hw'.clk = (IF hw'.gated THEN 0 ELSE 1)
<1>1. hw \in [clk : Nat, gated : BOOLEAN, mac : {"idle", "hs"}] /\ hw.clk = (IF hw.gated THEN 0 ELSE 1)
  BY DEF BridgeInv, BridgeTypeOK, Bridge!DispSrcBalanced
<1>2. CASE off /\ ~hw.gated
  <2>1. hw' = [hw EXCEPT !.clk = @ - 1, !.gated = TRUE]
    BY <1>2 DEF Bridge!Gate
  <2>2. hw.clk = 1 /\ hw'.clk = 0 /\ hw'.gated = TRUE
    BY <1>1, <1>2, <2>1
  <2>4. hw' = [hw EXCEPT !.clk = 0, !.gated = TRUE]
    BY <2>1, <2>2
  <2>3. hw' \in [clk : Nat, gated : BOOLEAN, mac : {"idle", "hs"}]
    BY <1>1, <2>4
  <2> QED
    BY <2>2, <2>3
<1>3. CASE ~off /\ hw.gated
  <2>1. hw' = [hw EXCEPT !.clk = @ + 1, !.gated = FALSE]
    BY <1>3 DEF Bridge!Gate
  <2>2. hw.clk = 0 /\ hw'.clk = 1 /\ hw'.gated = FALSE
    BY <1>1, <1>3, <2>1
  <2>4. hw' = [hw EXCEPT !.clk = 1, !.gated = FALSE]
    BY <2>1, <2>2
  <2>3. hw' \in [clk : Nat, gated : BOOLEAN, mac : {"idle", "hs"}]
    BY <1>1, <2>4
  <2> QED
    BY <2>2, <2>3
<1>4. CASE ~(off /\ ~hw.gated) /\ ~(~off /\ hw.gated)
  BY <1>1, <1>4 DEF Bridge!Gate
<1> QED
  BY <1>2, <1>3, <1>4

(* A step of the driver, of a writer or of the work keeps the types. *)
LEMMA BridgeTypeStep == BridgeInv /\ Bridge!Next => BridgeTypeOK'
<1> SUFFICES ASSUME BridgeInv, Bridge!Next PROVE BridgeTypeOK'
  OBVIOUS
<1>0. BridgeTypeOK
  BY DEF BridgeInv
<1> USE DEF BridgeTypeOK
<1>1. CASE Bridge!Probe
  <2>1. drv' \in [bound : BOOLEAN, g : BOOLEAN, fb : {"none", "live"}, leaving : {"no", "cancel", "free"}]
    BY <1>1 DEF Bridge!Probe
  <2>2. hw' \in [clk : Nat, gated : BOOLEAN, mac : {"idle", "hs"}]
    BY <1>0, <1>1 DEF Bridge!Probe
  <2>3. UNCHANGED <<wr, scroll, runs>>
    BY <1>1 DEF Bridge!Probe
  <2> QED
    BY <1>0, <2>1, <2>2, <2>3
<1>2. CASE Bridge!ScrollFn
  BY <1>0, <1>2 DEF Bridge!ScrollFn
<1>3. CASE Bridge!ScrollFnEnd
  BY <1>0, <1>3 DEF Bridge!ScrollFnEnd
<1>4. CASE Bridge!Unmap
  BY <1>0, <1>4 DEF Bridge!Unmap
<1>5. CASE Bridge!RemoveFiles
  BY <1>0, <1>5 DEF Bridge!RemoveFiles
<1>6. CASE Bridge!RemoveCancel
  BY <1>0, <1>6 DEF Bridge!RemoveCancel, Bridge!CancelSync
<1>7. CASE Bridge!RemoveClocks
  <2>1. drv' \in [bound : BOOLEAN, g : BOOLEAN, fb : {"none", "live"}, leaving : {"no", "cancel", "free"}]
    BY <1>0, <1>7 DEF Bridge!RemoveClocks
  <2>2. hw.clk \in Nat /\ hw' = [hw EXCEPT !.clk = IF hw.clk > 0 THEN hw.clk - 1 ELSE hw.clk]
    BY <1>0, <1>7 DEF Bridge!RemoveClocks
  <2>3. hw' \in [clk : Nat, gated : BOOLEAN, mac : {"idle", "hs"}]
    BY <1>0, <2>2
  <2>4. UNCHANGED <<wr, scroll, runs>>
    BY <1>7 DEF Bridge!RemoveClocks
  <2> QED
    BY <1>0, <2>1, <2>3, <2>4
<1>8. ASSUME NEW w \in Writers, Bridge!BringUp(w) PROVE BridgeTypeOK'
  <2>1. drv.bound
    BY <1>8 DEF Bridge!BringUp, BridgeInv, DriverInv
  <2>2. hw' \in [clk : Nat, gated : BOOLEAN, mac : {"idle", "hs"}]
    BY <1>8, <2>1, GateStep DEF Bridge!BringUp
  <2>3. wr' \in [Writers -> WriterStates] /\ runs' \in Nat
    BY <1>0, <1>8 DEF Bridge!BringUp, WriterStates
  <2>4. UNCHANGED <<drv, scroll>>
    BY <1>8 DEF Bridge!BringUp
  <2> QED
    BY <1>0, <2>2, <2>3, <2>4
<1>9. ASSUME NEW w \in Writers, Bridge!StartMac(w) PROVE BridgeTypeOK'
  BY <1>0, <1>9 DEF Bridge!StartMac, Bridge!SetModeHs, Bridge!SetModeIdle, Bridge!Written, Bridge!HS, WriterStates
<1>10. ASSUME NEW w \in Writers, Bridge!ScrollStart(w) PROVE BridgeTypeOK'
  BY <1>0, <1>10 DEF Bridge!ScrollStart, Bridge!Queued
<1>11. ASSUME NEW w \in Writers, Bridge!Stop(w) PROVE BridgeTypeOK'
  <2>1. wr' \in [Writers -> WriterStates]
    BY <1>0, <1>11 DEF Bridge!Stop, WriterStates
  <2>2. scroll' \in [on : BOOLEAN, work : {"idle", "queued", "running", "requeue"}]
    BY <1>0, <1>11 DEF Bridge!Stop
  <2>3. UNCHANGED <<drv, hw, runs>>
    BY <1>11 DEF Bridge!Stop
  <2> QED
    BY <1>0, <2>1, <2>2, <2>3
<1>12. ASSUME NEW w \in Writers, Bridge!StopCancel(w) PROVE BridgeTypeOK'
  BY <1>0, <1>12 DEF Bridge!StopCancel, Bridge!CancelSync, WriterStates
<1>13. ASSUME NEW w \in Writers, Bridge!Touch(w) PROVE BridgeTypeOK'
  BY <1>0, <1>13 DEF Bridge!Touch, WriterStates
<1> QED
  BY <1>1, <1>2, <1>3, <1>4, <1>5, <1>6, <1>7, <1>8, <1>9, <1>10, <1>11, <1>12, <1>13 DEF Bridge!Next

(* Unbinding: the framebuffer goes only after the work was cancelled, and   *)
(* from then on g keeps everybody from queueing it.                         *)
LEMMA DriverStep == BridgeInv /\ Bridge!Next => DriverInv'
<1> SUFFICES ASSUME BridgeInv, Bridge!Next PROVE DriverInv'
  OBVIOUS
<1>0. BridgeTypeOK /\ DriverInv
  BY DEF BridgeInv
<1> USE DEF DriverInv, Painting
<1>1. CASE Bridge!Probe
  <2>1. drv'.bound /\ drv'.g /\ drv'.leaving = "no" /\ UNCHANGED scroll
    BY <1>1 DEF Bridge!Probe
  <2> QED
    BY <1>0, <1>1, <2>1 DEF Bridge!Probe
<1>2. CASE Bridge!ScrollFn
  BY <1>0, <1>2 DEF Bridge!ScrollFn, Bridge!HasFb, BridgeTypeOK
<1>3. CASE Bridge!ScrollFnEnd
  BY <1>0, <1>3 DEF Bridge!ScrollFnEnd, BridgeTypeOK
<1>4. CASE Bridge!Unmap
  BY <1>0, <1>4 DEF Bridge!Unmap
<1>5. CASE Bridge!RemoveFiles
  BY <1>0, <1>5 DEF Bridge!RemoveFiles, BridgeTypeOK
<1>6. CASE Bridge!RemoveCancel
  BY <1>0, <1>6 DEF Bridge!RemoveCancel, Bridge!CancelSync, BridgeTypeOK
<1>7. CASE Bridge!RemoveClocks
  <2>1. drv.leaving = "free" /\ ~drv'.bound /\ drv'.leaving = "no" /\ drv'.g = drv.g /\ drv'.fb = drv.fb
    BY <1>0, <1>7 DEF Bridge!RemoveClocks, BridgeTypeOK
  <2>2. drv.fb = "none"
    BY <1>0, <2>1
  <2> QED
    BY <1>0, <1>7, <2>1, <2>2 DEF Bridge!RemoveClocks
<1>8. ASSUME NEW w \in Writers, Bridge!BringUp(w) PROVE DriverInv'
  BY <1>0, <1>8 DEF Bridge!BringUp
<1>9. ASSUME NEW w \in Writers, Bridge!StartMac(w) PROVE DriverInv'
  BY <1>0, <1>9 DEF Bridge!StartMac
<1>10. ASSUME NEW w \in Writers, Bridge!ScrollStart(w) PROVE DriverInv'
  BY <1>0, <1>10 DEF Bridge!ScrollStart, Bridge!Queued, Bridge!HasFb, BridgeTypeOK
<1>11. ASSUME NEW w \in Writers, Bridge!Stop(w) PROVE DriverInv'
  BY <1>0, <1>11 DEF Bridge!Stop, BridgeTypeOK
<1>12. ASSUME NEW w \in Writers, Bridge!StopCancel(w) PROVE DriverInv'
  BY <1>0, <1>12 DEF Bridge!StopCancel, Bridge!CancelSync, BridgeTypeOK
<1>13. ASSUME NEW w \in Writers, Bridge!Touch(w) PROVE DriverInv'
  BY <1>0, <1>13 DEF Bridge!Touch
<1> QED
  BY <1>1, <1>2, <1>3, <1>4, <1>5, <1>6, <1>7, <1>8, <1>9, <1>10, <1>11, <1>12, <1>13 DEF Bridge!Next

(* A work that runs was started with scroll_on set; whoever clears it goes  *)
(* on to wait for the work.                                                 *)
LEMMA PaintStep == BridgeInv /\ Bridge!Next => PaintInv'
<1> SUFFICES ASSUME BridgeInv, Bridge!Next PROVE PaintInv'
  OBVIOUS
<1>0. BridgeTypeOK /\ DriverInv /\ PaintInv
  BY DEF BridgeInv
<1> USE DEF PaintInv, Painting, Bridge!Cancelling
<1>1. CASE Bridge!Probe
  BY <1>0, <1>1 DEF Bridge!Probe, DriverInv
<1>2. CASE Bridge!ScrollFn
  BY <1>0, <1>2 DEF Bridge!ScrollFn, Bridge!HasFb, BridgeTypeOK
<1>3. CASE Bridge!ScrollFnEnd
  BY <1>0, <1>3 DEF Bridge!ScrollFnEnd, BridgeTypeOK
<1>4. CASE Bridge!Unmap
  BY <1>0, <1>4 DEF Bridge!Unmap
<1>5. CASE Bridge!RemoveFiles
  BY <1>0, <1>5 DEF Bridge!RemoveFiles, BridgeTypeOK
<1>6. CASE Bridge!RemoveCancel
  BY <1>0, <1>6 DEF Bridge!RemoveCancel, Bridge!CancelSync, BridgeTypeOK
<1>7. CASE Bridge!RemoveClocks
  BY <1>0, <1>7 DEF Bridge!RemoveClocks, BridgeTypeOK, DriverInv
<1>8. ASSUME NEW w \in Writers, Bridge!BringUp(w) PROVE PaintInv'
  BY <1>0, <1>8 DEF Bridge!BringUp, BridgeTypeOK
<1>9. ASSUME NEW w \in Writers, Bridge!StartMac(w) PROVE PaintInv'
  BY <1>0, <1>9 DEF Bridge!StartMac, BridgeTypeOK
<1>10. ASSUME NEW w \in Writers, Bridge!ScrollStart(w) PROVE PaintInv'
  BY <1>0, <1>10 DEF Bridge!ScrollStart, Bridge!Queued, BridgeTypeOK
<1>11. ASSUME NEW w \in Writers, Bridge!Stop(w) PROVE PaintInv'
  BY <1>0, <1>11 DEF Bridge!Stop, BridgeTypeOK
<1>12. ASSUME NEW w \in Writers, Bridge!StopCancel(w) PROVE PaintInv'
  BY <1>0, <1>12 DEF Bridge!StopCancel, Bridge!CancelSync, BridgeTypeOK
<1>13. ASSUME NEW w \in Writers, Bridge!Touch(w) PROVE PaintInv'
  BY <1>0, <1>13 DEF Bridge!Touch, BridgeTypeOK
<1> QED
  BY <1>1, <1>2, <1>3, <1>4, <1>5, <1>6, <1>7, <1>8, <1>9, <1>10, <1>11, <1>12, <1>13 DEF Bridge!Next

(* dsi_set_mode() turns HS on from either mode it may find. *)
LEMMA ModeHs == \A reg \in {"idle", "hs"} : Bridge!SetModeHs(reg) = "hs" /\ Bridge!SetModeIdle(reg) = "idle"
BY DEF Bridge!SetModeHs, Bridge!SetModeIdle, Bridge!Written, Bridge!HS

(* A bring-up ends by starting the MAC, and nobody else writes DSI_MAC_EN. *)
LEMMA MacStep == BridgeInv /\ Bridge!Next => MacInv'
<1> SUFFICES ASSUME BridgeInv, Bridge!Next PROVE MacInv'
  OBVIOUS
<1>0. BridgeTypeOK /\ MacInv
  BY DEF BridgeInv
<1> USE DEF MacInv
<1>1. CASE Bridge!Probe
  BY <1>0, <1>1 DEF Bridge!Probe, BridgeTypeOK
<1>2. CASE Bridge!ScrollFn \/ Bridge!ScrollFnEnd \/ Bridge!Unmap
  BY <1>0, <1>2 DEF Bridge!ScrollFn, Bridge!ScrollFnEnd, Bridge!Unmap
<1>5. CASE Bridge!RemoveFiles \/ Bridge!RemoveCancel
  BY <1>0, <1>5 DEF Bridge!RemoveFiles, Bridge!RemoveCancel
<1>7. CASE Bridge!RemoveClocks
  BY <1>0, <1>7 DEF Bridge!RemoveClocks, BridgeTypeOK
<1>8. ASSUME NEW w \in Writers, Bridge!BringUp(w) PROVE MacInv'
  <2>1. wr'[w] = "mac"
    BY <1>0, <1>8 DEF Bridge!BringUp, BridgeTypeOK
  <2> QED
    BY <2>1
<1>9. ASSUME NEW w \in Writers, Bridge!StartMac(w) PROVE MacInv'
  <2>1. hw.mac \in {"idle", "hs"}
    BY <1>0 DEF BridgeTypeOK
  <2>2. PICK lp11 \in BOOLEAN :
            hw' = [hw EXCEPT !.mac = Bridge!SetModeHs(IF lp11 THEN Bridge!SetModeIdle(hw.mac) ELSE hw.mac)]
    BY <1>0, <1>9 DEF Bridge!StartMac, BridgeTypeOK
  <2>3. (IF lp11 THEN Bridge!SetModeIdle(hw.mac) ELSE hw.mac) \in {"idle", "hs"}
    BY <2>1, ModeHs
  <2>4. hw'.mac = "hs"
    BY <1>0, <2>2, <2>3, ModeHs DEF BridgeTypeOK
  <2> QED
    BY <2>4
<1>10. ASSUME NEW w \in Writers, Bridge!ScrollStart(w) PROVE MacInv'
  BY <1>0, <1>10 DEF Bridge!ScrollStart
<1>11. ASSUME NEW w \in Writers, Bridge!Stop(w) PROVE MacInv'
  <2>1. wr[w] # "mac" /\ \A x \in Writers : x # w => wr'[x] = wr[x]
    BY <1>0, <1>11 DEF Bridge!Stop, BridgeTypeOK
  <2>2. UNCHANGED <<hw, runs>>
    BY <1>11 DEF Bridge!Stop
  <2> QED
    BY <1>0, <2>1, <2>2
<1>12. ASSUME NEW w \in Writers, Bridge!StopCancel(w) PROVE MacInv'
  BY <1>0, <1>12 DEF Bridge!StopCancel, BridgeTypeOK
<1>13. ASSUME NEW w \in Writers, Bridge!Touch(w) PROVE MacInv'
  BY <1>0, <1>13 DEF Bridge!Touch, BridgeTypeOK
<1> QED
  BY <1>1, <1>2, <1>5, <1>7, <1>8, <1>9, <1>10, <1>11, <1>12, <1>13 DEF Bridge!Next

(* Only do_bringup(), probe and remove touch the enable count. *)
LEMMA DispSrcStep == BridgeInv /\ Bridge!Next => Bridge!DispSrcBalanced'
<1> SUFFICES ASSUME BridgeInv, Bridge!Next PROVE Bridge!DispSrcBalanced'
  OBVIOUS
<1>0. BridgeTypeOK /\ DriverInv /\ Bridge!DispSrcBalanced
  BY DEF BridgeInv
<1> USE DEF Bridge!DispSrcBalanced
<1>1. CASE Bridge!Probe
  BY <1>0, <1>1 DEF Bridge!Probe, BridgeTypeOK
<1>2. CASE Bridge!ScrollFn \/ Bridge!ScrollFnEnd \/ Bridge!Unmap
  BY <1>0, <1>2 DEF Bridge!ScrollFn, Bridge!ScrollFnEnd, Bridge!Unmap
<1>5. CASE Bridge!RemoveFiles \/ Bridge!RemoveCancel
  BY <1>0, <1>5 DEF Bridge!RemoveFiles, Bridge!RemoveCancel, BridgeTypeOK
<1>7. CASE Bridge!RemoveClocks
  BY <1>0, <1>7 DEF Bridge!RemoveClocks, BridgeTypeOK
<1>8. ASSUME NEW w \in Writers, Bridge!BringUp(w) PROVE Bridge!DispSrcBalanced'
  <2>1. drv.bound
    BY <1>0, <1>8 DEF Bridge!BringUp, DriverInv
  <2> QED
    BY <1>8, <2>1, GateStep DEF Bridge!BringUp
<1>9. ASSUME NEW w \in Writers, Bridge!StartMac(w) PROVE Bridge!DispSrcBalanced'
  BY <1>0, <1>9 DEF Bridge!StartMac, BridgeTypeOK
<1>10. ASSUME NEW w \in Writers, Bridge!ScrollStart(w) \/ Bridge!Stop(w) \/ Bridge!StopCancel(w) \/ Bridge!Touch(w)
       PROVE  Bridge!DispSrcBalanced'
  BY <1>0, <1>10 DEF Bridge!ScrollStart, Bridge!Stop, Bridge!StopCancel, Bridge!Touch
<1> QED
  BY <1>1, <1>2, <1>5, <1>7, <1>8, <1>9, <1>10 DEF Bridge!Next

(* The driver's invariant is inductive. *)
LEMMA BridgeStep == BridgeInv /\ [Bridge!Next]_bridging => BridgeInv'
<1>1. BridgeInv /\ UNCHANGED bridging => BridgeInv'
  BY DEF bridging, BridgeInv, BridgeTypeOK, DriverInv, PaintInv, Painting, Bridge!Cancelling, MacInv,
         Bridge!DispSrcBalanced
<1> QED
  BY <1>1, BridgeTypeStep, DriverStep, PaintStep, MacStep, DispSrcStep DEF BridgeInv

(* What the run states of the driver follows from its invariant. *)
LEMMA BridgeSafe ==
    BridgeInv => Bridge!ScrollPaintsLive /\ Bridge!StopHolds /\ Bridge!DispSrcBalanced /\ Bridge!MacRuns
<1> SUFFICES ASSUME BridgeInv
             PROVE  Bridge!ScrollPaintsLive /\ Bridge!StopHolds /\ Bridge!DispSrcBalanced /\ Bridge!MacRuns
  OBVIOUS
<1>1. Bridge!ScrollPaintsLive
  BY DEF BridgeInv, PaintInv, Painting, Bridge!ScrollPaintsLive
<1>2. Bridge!StopHolds
  BY DEF BridgeInv, PaintInv, Painting, Bridge!Cancelling, Bridge!StopHolds, Bridge!Idle
<1>3. Bridge!MacRuns
  BY DEF BridgeInv, MacInv, Bridge!MacRuns, Bridge!Idle, Bridge!HS
<1> QED
  BY <1>1, <1>2, <1>3 DEF BridgeInv
-----------------------------------------------------------------------------
(* Nobody touches the button and no btnwait runs at first. *)
LEMMA ButtonInit == Button!Init => ButtonInv
<1> SUFFICES ASSUME Button!Init PROVE ButtonInv
  OBVIOUS
<1> USE DEF Button!Init
<1>1. ButtonTypeOK
  <2>1. settle \in 0 .. BOUNCE
    BY ButtonAssumption
  <2>2. down \in BOOLEAN /\ on \in BOOLEAN /\ whole \in BOOLEAN
    BY Zenon
  <2>3. at \in Int /\ at >= -1 /\ held \in Nat
    OBVIOUS
  <2> QED
    BY <2>1, <2>2, <2>3 DEF ButtonTypeOK
<1>2. LineInv /\ SampleInv
  BY ButtonAssumption DEF LineInv, SampleInv
<1>3. ReportedInv /\ WholeInv
  BY ButtonAssumption DEF ReportedInv, WholeInv
<1> QED
  BY <1>1, <1>2, <1>3 DEF ButtonInv

(* A tick of the world: the finger and the contacts move, pressed_at ages   *)
(* with the press.                                                          *)
LEMMA TickStep == ASSUME ButtonInv, NEW mv \in BOOLEAN, Button!Tick(mv) PROVE ButtonInv'
<1> USE ButtonAssumption
<1>0. ButtonTypeOK /\ LineInv /\ SampleInv /\ ReportedInv /\ WholeInv
  BY DEF ButtonInv
<1>1. ButtonTypeOK'
  BY <1>0 DEF ButtonTypeOK, Button!Tick, Button!Older
<1>a. mv /\ ~down => /\ down' /\ held' = 0 /\ settle' = BOUNCE /\ seen' = 0 /\ turn' = "btnwait"
                        /\ settle = 0
  BY <1>0 DEF ButtonTypeOK, Button!Tick
<1>b. mv /\ down => ~down' /\ held' = held + 1 /\ settle' = BOUNCE
  BY <1>0 DEF ButtonTypeOK, Button!Tick
<1>c. ~mv /\ down => /\ down' /\ held' = held + 1 /\ settle' = (IF settle > 0 THEN settle - 1 ELSE 0)
                        /\ seen' = seen /\ whole' = whole
  BY <1>0 DEF ButtonTypeOK, Button!Tick
<1>d. ~mv /\ ~down => ~down' /\ held' = held /\ settle' = (IF settle > 0 THEN settle - 1 ELSE 0)
  BY <1>0 DEF ButtonTypeOK, Button!Tick
<1>e. settle' = 0 => bwLine' = (IF down' THEN 0 ELSE 1)
  BY <1>1 DEF ButtonTypeOK, Button!Tick
<1>2. LineInv'
  <2>1. CASE mv /\ ~down
    BY <1>0, <1>e, <1>a, <2>1 DEF ButtonTypeOK, LineInv
  <2>2. CASE mv /\ down
    BY <1>0, <1>e, <1>b, <2>2 DEF ButtonTypeOK, LineInv
  <2>3. CASE ~mv /\ down
    BY <1>0, <1>e, <1>c, <2>3 DEF ButtonTypeOK, LineInv
  <2>4. CASE ~mv /\ ~down
    BY <1>0, <1>e, <1>d, <2>4 DEF ButtonTypeOK, LineInv
  <2> QED
    BY <2>1, <2>2, <2>3, <2>4
<1>3. SampleInv'
  BY <1>0, <1>1 DEF ButtonTypeOK, LineInv, SampleInv, Button!Tick, Button!Older
<1>4. ReportedInv'
  BY <1>0, <1>1 DEF ButtonTypeOK, LineInv, SampleInv, ReportedInv, Button!Tick, Button!Older
<1>5. WholeInv'
  <2>1. CASE mv /\ ~down
    BY <1>0, <1>a, <2>1 DEF WholeInv
  <2>2. CASE mv /\ down
    BY <1>0, <1>1, <2>2 DEF ButtonTypeOK, LineInv, SampleInv, WholeInv, Button!Tick, Button!Older
  <2>3. CASE ~mv /\ down
    <3>1. prev' = prev /\ at' = Button!Older(at) /\ turn' = "btnwait" /\ turn = "world"
      BY DEF Button!Tick
    <3>2. held' > BOUNCE => settle = 0
      BY <1>0, <1>c, <2>3 DEF ButtonTypeOK, LineInv
    <3>3. whole /\ seen = 0 /\ settle = 0 => prev = 0 /\ at >= held - BOUNCE
      BY <1>0, <2>3, <3>1 DEF WholeInv
    <3>4. at \in Int /\ held \in Nat
      BY <1>0 DEF ButtonTypeOK
    <3>5. at' = IF at = -1 THEN -1 ELSE at + 1
      BY <3>1 DEF Button!Older
    <3>6. held' = held + 1 /\ (held + 1 > BOUNCE => held - BOUNCE >= 0)
      BY <1>c, <2>3, <3>4
    <3>7. ASSUME whole', seen' = 0, held' > BOUNCE PROVE prev' = 0 /\ at' >= held' - BOUNCE
      <4>1. whole /\ seen = 0
        BY <1>c, <2>3, <3>7
      <4>2. prev = 0 /\ at >= held - BOUNCE
        BY <3>2, <3>3, <3>7, <4>1
      <4>3. at # -1
        BY <3>4, <3>6, <3>7, <4>2
      <4> QED
        BY <3>1, <3>4, <3>5, <3>6, <4>2, <4>3
    <3> QED
      BY <1>c, <2>3, <3>1, <3>7 DEF WholeInv
  <2>4. CASE ~mv /\ ~down
    BY <1>0, <1>1, <2>4 DEF ButtonTypeOK, LineInv, SampleInv, WholeInv, Button!Tick, Button!Older
  <2> QED
    BY <2>1, <2>2, <2>3, <2>4
<1> QED
  BY <1>1, <1>2, <1>3, <1>4, <1>5 DEF ButtonInv

(* A btnwait starts, or none does. *)
LEMMA LaunchStep == ButtonInv /\ (Button!Launch \/ Button!Idle) => ButtonInv'
<1> SUFFICES ASSUME ButtonInv, Button!Launch \/ Button!Idle PROVE ButtonInv'
  OBVIOUS
<1> USE ButtonAssumption
<1>0. ButtonTypeOK /\ LineInv /\ SampleInv /\ ReportedInv /\ WholeInv
  BY DEF ButtonInv
<1> USE DEF Button!Launch, Button!Idle, Button!button, Button!wait
<1>1. ButtonTypeOK'
  <2>1. down' \in BOOLEAN /\ on' \in BOOLEAN /\ whole' \in BOOLEAN
    BY <1>0, Zenon DEF ButtonTypeOK
  <2>2. at' \in Int /\ at' >= -1 /\ prev' \in {0, 1}
    BY <1>0 DEF ButtonTypeOK
  <2> QED
    BY <1>0, <2>1, <2>2 DEF ButtonTypeOK
<1>2. LineInv'
  BY <1>0 DEF LineInv
<1>3. SampleInv'
  BY <1>0 DEF ButtonTypeOK, LineInv, SampleInv
<1>4. ReportedInv'
  BY <1>0 DEF ButtonTypeOK, LineInv, SampleInv, ReportedInv
<1>5. WholeInv'
  BY <1>0 DEF ButtonTypeOK, SampleInv, WholeInv
<1> QED
  BY <1>1, <1>2, <1>3, <1>4, <1>5 DEF ButtonInv

(* One round of the sampling loop: a report is of a press that is over, and *)
(* a level that is dropped as a bounce was too brief.                       *)
LEMMA SampleStep == ButtonInv /\ Button!Sample => ButtonInv'
<1> SUFFICES ASSUME ButtonInv, Button!Sample PROVE ButtonInv'
  OBVIOUS
<1> USE ButtonAssumption
<1>0. ButtonTypeOK /\ LineInv /\ SampleInv /\ ReportedInv /\ WholeInv
  BY DEF ButtonInv
<1>c. turn = "btnwait" /\ on /\ turn' = "world" /\ UNCHANGED <<down, settle, held, presses, bwLine>>
  BY DEF Button!Sample, Button!button
<1>1. CASE prev = 0 /\ bwLine = 1 /\ at # -1 /\ Button!IsPress(at)
  <2>1. /\ seen' = seen + 1 /\ last' = [long |-> at >= LONG, whole |-> whole]
        /\ on' = FALSE /\ prev' = 1 /\ at' = -1 /\ whole' = FALSE
    BY <1>1 DEF Button!Sample, Button!Gone, Button!IsLong
  <2>2. at >= DEBOUNCE
    BY <1>1 DEF Button!IsPress
  <2>3. seen = 0
    BY <1>0, <2>2 DEF ButtonTypeOK, ReportedInv
  <2>4. ~down
    BY <1>0, <1>1, <2>2 DEF ButtonTypeOK, LineInv, SampleInv
  <2>5. last'.whole = whole /\ last'.long = (at >= LONG)
    BY <2>1
  <2>7. ButtonTypeOK'
    <3>1. down' \in BOOLEAN /\ on' \in BOOLEAN /\ whole' \in BOOLEAN
      BY <1>0, <1>c, <2>1, Zenon DEF ButtonTypeOK
    <3>2. at' \in Int /\ at' >= -1 /\ prev' \in {0, 1} /\ seen' \in {0, 1}
      BY <2>1, <2>3
    <3> QED
      BY <1>0, <1>c, <3>1, <3>2 DEF ButtonTypeOK
  <2>8. LineInv' /\ SampleInv' /\ WholeInv'
    BY <1>0, <1>c, <2>1 DEF LineInv, SampleInv, WholeInv
  <2>9. held + BOUNCE >= at
    BY <1>0, <1>1, <2>4 DEF ButtonTypeOK, SampleInv
  <2>10. whole => held <= at + BOUNCE
    BY <1>0, <1>1, <2>2, <2>3, <2>4 DEF ButtonTypeOK, WholeInv
  <2>11. ReportedInv'
    BY <1>0, <1>c, <2>1, <2>2, <2>4, <2>5, <2>9, <2>10 DEF ButtonTypeOK, ReportedInv
  <2> QED
    BY <2>7, <2>8, <2>11 DEF ButtonInv
<1>2. CASE ~(prev = 0 /\ bwLine = 1 /\ at # -1 /\ Button!IsPress(at))
  <2>1. /\ at' = IF prev = 1 /\ bwLine = 0 THEN 0 ELSE IF prev = 0 /\ bwLine = 1 THEN -1 ELSE at
        /\ prev' = bwLine /\ UNCHANGED <<on, seen, last, whole>>
    BY <1>2 DEF Button!Sample, Button!Falls
  <2>2. prev = 0 /\ bwLine = 1 => at < DEBOUNCE
    BY <1>0, <1>2 DEF ButtonTypeOK, SampleInv, Button!IsPress
  <2>3. ButtonTypeOK'
    BY <1>0, <1>c, <2>1 DEF ButtonTypeOK
  <2>4. LineInv'
    BY <1>0, <1>c DEF LineInv
  <2>5. SampleInv'
    BY <1>0, <1>c, <2>1 DEF ButtonTypeOK, LineInv, SampleInv
  <2>6. ReportedInv'
    BY <1>0, <1>c, <2>1 DEF ButtonTypeOK, LineInv, SampleInv, ReportedInv
  <2>7. WholeInv'
    BY <1>0, <1>c, <2>1, <2>2 DEF ButtonTypeOK, LineInv, SampleInv, WholeInv
  <2> QED
    BY <2>3, <2>4, <2>5, <2>6, <2>7 DEF ButtonInv
<1> QED
  BY <1>1, <1>2

(* timeout(1) takes what btnwait knew of the press with it. *)
LEMMA KillStep == ButtonInv /\ Button!Kill => ButtonInv'
<1> SUFFICES ASSUME ButtonInv, Button!Kill PROVE ButtonInv'
  OBVIOUS
<1> USE ButtonAssumption
<1>0. ButtonTypeOK /\ LineInv /\ SampleInv /\ ReportedInv
  BY DEF ButtonInv
<1>1. /\ turn' = "world" /\ on' = FALSE /\ prev' = 1 /\ at' = -1 /\ whole' = FALSE
      /\ UNCHANGED <<down, settle, held, bwLine, seen, last>>
  BY DEF Button!Kill, Button!Gone, Button!button
<1>2. ButtonTypeOK'
  <2>1. down' \in BOOLEAN /\ on' \in BOOLEAN /\ whole' \in BOOLEAN
    BY <1>0, <1>1, Zenon DEF ButtonTypeOK
  <2>2. at' \in Int /\ at' >= -1 /\ prev' \in {0, 1}
    BY <1>1
  <2> QED
    BY <1>0, <1>1, <2>1, <2>2 DEF ButtonTypeOK
<1>3. LineInv' /\ SampleInv' /\ WholeInv'
  BY <1>0, <1>1 DEF LineInv, SampleInv, WholeInv
<1>4. ReportedInv'
  BY <1>0, <1>1 DEF ButtonTypeOK, ReportedInv
<1> QED
  BY <1>2, <1>3, <1>4 DEF ButtonInv

(* The button's invariant is inductive. *)
LEMMA ButtonStep == ButtonInv /\ [Button!Next]_button => ButtonInv'
<1>1. ButtonInv /\ UNCHANGED button => ButtonInv'
  BY DEF button, ButtonInv, ButtonTypeOK, LineInv, SampleInv, ReportedInv, WholeInv
<1> QED
  BY <1>1, TickStep, LaunchStep, SampleStep, KillStep DEF Button!Next

(* What the run states of the button follows from its invariant. *)
LEMMA ButtonSafe == ButtonInv => ButtonSound
<1> SUFFICES ASSUME ButtonInv PROVE ButtonSound
  OBVIOUS
<1> USE ButtonAssumption
<1>0. ButtonTypeOK /\ LineInv /\ SampleInv /\ ReportedInv /\ WholeInv
  BY DEF ButtonInv
<1>1. Button!OneClipPerPress
  BY <1>0 DEF ButtonTypeOK, ReportedInv, Button!OneClipPerPress
<1>2. Button!PressReported
  BY <1>0 DEF ButtonTypeOK, LineInv, SampleInv, WholeInv, Button!PressReported
<1>3. Button!ReportsLength
  BY <1>0 DEF ReportedInv, Button!ReportsLength
<1> QED
  BY <1>1, <1>2, <1>3 DEF ButtonSound
-----------------------------------------------------------------------------
(* The powers of two the PLL's fields can stand for. *)
LEMMA Powers ==
    /\ 2 ^ 0 = 1 /\ 2 ^ 1 = 2 /\ 2 ^ 2 = 4 /\ 2 ^ 3 = 8 /\ 2 ^ 4 = 16
    /\ 2 ^ 5 = 32 /\ 2 ^ 6 = 64 /\ 2 ^ 7 = 128 /\ 2 ^ 8 = 256
OBVIOUS

(* ilog2() of a ratio is the octave it lies in. *)
LEMMA Ilog2 ==
    ASSUME NEW n \in Nat, NEW k \in 0 .. 4, 2 ^ k <= n, n < 2 ^ (k + 1)
    PROVE  Disp!ilog2(n) = k
<1> DEFINE P(j) == 2 ^ j <= n /\ n < 2 ^ (j + 1)
<1>1. /\ P(0) <=> 1 <= n /\ n < 2
      /\ P(1) <=> 2 <= n /\ n < 4
      /\ P(2) <=> 4 <= n /\ n < 8
      /\ P(3) <=> 8 <= n /\ n < 16
      /\ P(4) <=> 16 <= n /\ n < 32
      /\ P(5) <=> 32 <= n /\ n < 64
      /\ P(6) <=> 64 <= n /\ n < 128
      /\ P(7) <=> 128 <= n /\ n < 256
  OBVIOUS
<1>2. P(k)
  OBVIOUS
<1> HIDE DEF P
<1>3. ASSUME NEW j \in 0 .. 7, P(j) PROVE j = k
  <2>1. j \in {0, 1, 2, 3, 4, 5, 6, 7} /\ k \in {0, 1, 2, 3, 4}
    OBVIOUS
  <2>2. CASE k = 0
    BY <1>1, <1>2, <1>3, <2>1, <2>2
  <2>3. CASE k = 1
    BY <1>1, <1>2, <1>3, <2>1, <2>3
  <2>4. CASE k = 2
    BY <1>1, <1>2, <1>3, <2>1, <2>4
  <2>5. CASE k = 3
    BY <1>1, <1>2, <1>3, <2>1, <2>5
  <2>6. CASE k = 4
    BY <1>1, <1>2, <1>3, <2>1, <2>6
  <2> QED
    BY <2>1, <2>2, <2>3, <2>4, <2>5, <2>6
<1>4. k \in 0 .. 7
  OBVIOUS
<1>5. Disp!ilog2(n) = CHOOSE j \in 0 .. 7 : P(j)
  BY DEF Disp!ilog2, P
<1> QED
  BY <1>2, <1>3, <1>4, <1>5, Zenon

(* A multiple is divided exactly. *)
LEMMA DivExact == ASSUME NEW c \in Nat, NEW v \in Nat, v > 0 PROVE (c * v) \div v = c
OBVIOUS

(* 2.5 GHz, in units of 100 Hz. *)
Top == 25000000

(* The ratio is the largest one that keeps the VCO within 2.5 GHz. *)
LEMMA RatioBounds ==
    ASSUME NEW v \in Nat, v > 0, v <= Top
    PROVE  LET r == Disp!RatioFor(v)
           IN  r \in Nat /\ r >= 1 /\ r * v <= Top /\ Top < (r + 1) * v
<1> DEFINE r == Top \div v
<1>1. r \in Nat /\ r * v <= Top /\ Top < (r + 1) * v
  BY SMT DEF Top
<1>2. r >= 1
  BY <1>1, SMT DEF Top
<1>3. Disp!RatioFor(v) = r
  BY <1>1, <1>2, SMT DEF Disp!RatioFor, Top
<1> QED
  BY <1>1, <1>2, <1>3
(* The VCO is in its octave, and the dividers bring it back exactly. *)
PllOK(p, n) ==
    /\ p.vco <= 2500000 /\ 2 * p.vco > 2500000
    /\ p.vco = ((p.clk * Disp!VBITS) \div n) * 2 ^ (p.divout + p.div)
    /\ p.disp_div * p.clk = p.vco /\ p.disp_div <= 127 /\ p.div <= 1

(* g = 2^k is the gain for clk on n lanes, m * clk the bit rate of a lane   *)
(* in units of 100 Hz.                                                      *)
GainIs(clk, n, m, k, g) ==
    /\ clk \in Nat /\ clk > 0 /\ n \in {2, 4} /\ m \in {60, 120} /\ m * n = 240
    /\ k \in 0 .. 4 /\ g \in {1, 2, 4, 8, 16} /\ g = 2 ^ k /\ m * g <= 960
    /\ Disp!RatioFor(m * clk) \in Nat
    /\ g <= Disp!RatioFor(m * clk) /\ Disp!RatioFor(m * clk) < 2 * g
    /\ g * (m * clk) <= Top /\ Top < 2 * g * (m * clk)

(* With the gain 2^k the VCO is the bit rate times that gain and the        *)
(* dividers undo it.                                                        *)
LEMMA PllAtGain ==
    ASSUME NEW clk, NEW n, NEW m, NEW k, NEW g, GainIs(clk, n, m, k, g)
    PROVE  PllOK(Disp!SetPll(clk, n), n)
<1>0. /\ clk \in Nat /\ clk > 0 /\ n \in {2, 4} /\ m \in {60, 120} /\ m * n = 240
      /\ k \in 0 .. 4 /\ g \in {1, 2, 4, 8, 16} /\ g = 2 ^ k /\ m * g <= 960
      /\ Disp!RatioFor(m * clk) \in Nat
      /\ g <= Disp!RatioFor(m * clk) /\ Disp!RatioFor(m * clk) < 2 * g
      /\ g * (m * clk) <= Top /\ Top < 2 * g * (m * clk)
  BY DEF GainIs
<1> USE <1>0
<1> DEFINE v == m * clk
           c == (m \div 10) * g
<1>1. /\ \/ k = 0 /\ g = 1
         \/ k = 1 /\ g = 2
         \/ k = 2 /\ g = 4
         \/ k = 3 /\ g = 8
         \/ k = 4 /\ g = 16
      /\ 2 ^ (k + 1) = 2 * g
  <2>1. k \in {0, 1, 2, 3, 4}
    OBVIOUS
  <2>2. k = 0 => g = 1 /\ 2 ^ (k + 1) = 2
    BY Powers
  <2>3. k = 1 => g = 2 /\ 2 ^ (k + 1) = 4
    BY Powers
  <2>4. k = 2 => g = 4 /\ 2 ^ (k + 1) = 8
    BY Powers
  <2>5. k = 3 => g = 8 /\ 2 ^ (k + 1) = 16
    BY Powers
  <2>6. k = 4 => g = 16 /\ 2 ^ (k + 1) = 32
    BY Powers
  <2>7. CASE k = 0
    BY <2>2, <2>7
  <2>8. CASE k = 1
    BY <2>3, <2>8
  <2>9. CASE k = 2
    BY <2>4, <2>9
  <2>10. CASE k = 3
    BY <2>5, <2>10
  <2>11. CASE k = 4
    BY <2>6, <2>11
  <2> QED
    BY <2>1, <2>7, <2>8, <2>9, <2>10, <2>11
<1>2. Disp!Gain(v) = g
  <2>1. Disp!ilog2(Disp!RatioFor(v)) = k
    BY <1>1, Ilog2
  <2> QED
    BY <2>1 DEF Disp!Gain
<1>3. Disp!ilog2(g) = k
  <2>1. g \in Nat /\ g < 2 * g
    BY <1>1
  <2> QED
    BY <1>1, <2>1, Ilog2
<1>4. (clk * 24 * 10) \div n = v
  <2>1. (v * n) \div n = v
    BY DivExact
  <2>2. v * n = clk * 24 * 10
    OBVIOUS
  <2> QED
    BY <2>1, <2>2
<1>5. c \in Nat /\ c <= 96 /\ m * g = 10 * c
  BY <1>1
<1>6. (v * g) \div 10 = c * clk
  <2>1. v * g = (c * clk) * 10
    BY <1>1
  <2>2. c * clk \in Nat
    BY <1>5
  <2> QED
    BY <2>1, <2>2, DivExact
<1>7. (c * clk) \div clk = c
  BY <1>5, DivExact
<1> DEFINE divout == IF k > 3 THEN 3 ELSE k
<1>8. Disp!SetPll(clk, n) = [clk |-> clk, lanes |-> n, vco |-> c * clk, disp_div |-> c, divout |-> divout, div |-> k - divout]
  <2> HIDE DEF v, c
  <2> QED
    BY <1>2, <1>3, <1>4, <1>6, <1>7 DEF Disp!SetPll, Disp!VBITS
<1>9. c * clk <= 2500000 /\ 2 * (c * clk) > 2500000
  BY <1>1, SMT DEF Top
<1>10. ((clk * 24) \div n) * g = c * clk
  <2> DEFINE w == (m \div 10) * clk
  <2>1. w \in Nat /\ w * n = clk * 24
    <3>1. CASE m = 60 /\ n = 4
      BY <3>1
    <3>2. CASE m = 120 /\ n = 2
      BY <3>2
    <3> QED
      BY <3>1, <3>2
  <2>2. (w * n) \div n = w
    BY <2>1, DivExact
  <2> QED
    BY <1>1, <2>1, <2>2
<1>11. divout + (k - divout) = k /\ k - divout <= 1
  BY <1>1
<1> HIDE DEF c, divout
<1> QED
  BY <1>5, <1>8, <1>9, <1>10, <1>11, SMT DEF PllOK, Disp!VBITS

(* Every pixel clock in the PLL's reach has such a gain, on two lanes and   *)
(* on four.                                                                 *)
LEMMA PllExactAt ==
    ASSUME NEW clk \in PixClocks, NEW n \in {2, 4}
    PROVE  PllOK(Disp!SetPll(clk, n), n)
<1>1. clk \in Nat /\ clk >= 13021 /\ clk <= 208333
  BY PixClocksAssumption, SMT
<1>2. PICK m \in {60, 120} : m * n = 240 /\ (m = 60 => n = 4)
  <2>1. CASE n = 2
    BY <2>1
  <2>2. CASE n = 4
    BY <2>2
  <2> QED
    BY <2>1, <2>2
<1> DEFINE v == m * clk
           r == Disp!RatioFor(v)
<1>3. v \in Nat /\ v > 0 /\ v <= Top
  BY <1>1, SMT DEF Top
<1>4. r \in Nat /\ r >= 1 /\ r * v <= Top /\ Top < (r + 1) * v
  BY <1>3, RatioBounds
<1>5. r < 32 /\ (m = 120 => r < 16)
  <2>1. r * 781260 <= Top /\ (m = 120 => r * 1562520 <= Top)
    <3>1. v >= 781260 /\ (m = 120 => v >= 1562520)
      BY <1>1, SMT
    <3> HIDE DEF v, r
    <3> QED
      BY <1>3, <1>4, <3>1, SMT DEF Top
  <2> HIDE DEF v, r
  <2> QED
    BY <1>4, <2>1, SMT DEF Top
<1>6. ASSUME NEW g \in {1, 2, 4, 8, 16}, g <= r, r < 2 * g
      PROVE  g * v <= Top /\ Top < 2 * g * v
  <2> HIDE DEF v, r
  <2>1. g * v <= r * v /\ (r + 1) * v <= (2 * g) * v
    BY <1>3, <1>4, <1>6
  <2> QED
    BY <1>3, <1>4, <2>1, SMT DEF Top
<1>k. ASSUME NEW k \in 0 .. 4, NEW g \in {1, 2, 4, 8, 16}, g = 2 ^ k, g <= r, r < 2 * g, m * g <= 960
      PROVE  PllOK(Disp!SetPll(clk, n), n)
  <2>1. clk \in Nat /\ clk > 0
    BY <1>1, SMT
  <2>2. g * (m * clk) <= Top /\ Top < 2 * g * (m * clk)
    BY <1>6, <1>k
  <2>3. Disp!RatioFor(m * clk) \in Nat /\ g <= Disp!RatioFor(m * clk) /\ Disp!RatioFor(m * clk) < 2 * g
    BY <1>4, <1>k
  <2>4. GainIs(clk, n, m, k, g)
    BY <1>2, <1>k, <2>1, <2>2, <2>3 DEF GainIs
  <2> QED
    BY <2>4, PllAtGain, SMT
<1> HIDE DEF v, r
<1>7. CASE r < 2
  BY <1>k, <1>2, <1>4, <1>5, Powers, <1>7
<1>8. CASE 2 <= r /\ r < 4
  BY <1>k, <1>2, <1>4, <1>5, Powers, <1>8
<1>9. CASE 4 <= r /\ r < 8
  BY <1>k, <1>2, <1>4, <1>5, Powers, <1>9
<1>10. CASE 8 <= r /\ r < 16
  BY <1>k, <1>2, <1>4, <1>5, Powers, <1>10
<1>11. CASE 16 <= r /\ r < 32
  BY <1>k, <1>2, <1>4, <1>5, Powers, <1>11
<1> QED
  BY <1>4, <1>5, <1>7, <1>8, <1>9, <1>10, <1>11

(* lane_map4[] and lane_map2[]: what they assign, enable and power down. *)
LEMMA Map4 ==
    LET m == Disp!lane_map4
    IN  /\ Disp!DataRoles(m) = 1 .. 4 /\ Disp!PoweredDown(m) = {}
        /\ {m[i] : i \in 0 .. 4} = 0 .. 4
<1> DEFINE m == Disp!lane_map4
<1>1. m[0] = 1 /\ m[1] = 2 /\ m[2] = 0 /\ m[3] = 3 /\ m[4] = 4
  BY DEF Disp!lane_map4, Disp!Lanes, Disp!LANE_CLK
<1> HIDE DEF m
<1>2. Disp!Used(m) = 0 .. 4 /\ Disp!PoweredDown(m) = {}
  BY <1>1 DEF Disp!Used, Disp!PoweredDown, Disp!Lanes
<1>3. {m[i] : i \in 0 .. 4} = 0 .. 4
  BY <1>1
<1>4. Disp!DataRoles(m) = 1 .. 4
  BY <1>2, <1>3 DEF Disp!DataRoles, Disp!LANE_CLK
<1> QED
  BY <1>2, <1>3, <1>4 DEF m

LEMMA Map2 ==
    LET m == Disp!lane_map2
    IN  /\ Disp!DataRoles(m) = 1 .. 2 /\ (0 .. 4) \ Disp!PoweredDown(m) = 0 .. 2
        /\ {m[i] : i \in 0 .. 2} = 0 .. 2
<1> DEFINE m == Disp!lane_map2
<1>1. m[0] = 1 /\ m[1] = 2 /\ m[2] = 0 /\ m[3] = 7 /\ m[4] = 7
  BY DEF Disp!lane_map2, Disp!Lanes, Disp!LANE_CLK, Disp!LANE_OFF
<1> HIDE DEF m
<1>2. Disp!Used(m) = 0 .. 2 /\ (0 .. 4) \ Disp!PoweredDown(m) = 0 .. 2
  BY <1>1 DEF Disp!Used, Disp!PoweredDown, Disp!Lanes
<1>3. {m[i] : i \in 0 .. 2} = 0 .. 2
  BY <1>1
<1>4. Disp!DataRoles(m) = 1 .. 2
  BY <1>2, <1>3 DEF Disp!DataRoles, Disp!LANE_CLK
<1> QED
  BY <1>2, <1>3, <1>4 DEF m
-----------------------------------------------------------------------------
(* A block reset leaves a DISP_CFG of zeroes. *)
LEMMA ZeroType == Disp!Zero \in [force : BOOLEAN, shrd : BOOLEAN, tgen : BOOLEAN, fmt : Int, pol : Int]
BY DEF Disp!Zero

(* The instance's Cardinality is the standard one. *)
LEMMA DispCardinality == \A S : Disp!Cardinality(S) = Cardinality(S)
BY Zenon DEF Disp!Cardinality, Cardinality

(* How many lanes the two maps use. *)
LEMMA LaneCounts ==
    /\ Cardinality(1 .. 4) = 4 /\ Cardinality(0 .. 4) = 5
    /\ Cardinality(1 .. 2) = 2 /\ Cardinality(0 .. 2) = 3
<1>1. ASSUME NEW a \in Int, NEW b \in Int, NEW c \in Int, a <= b, c = b - a + 1
      PROVE  Cardinality(a .. b) = c
  BY <1>1, FS_Interval
<1>2. PICK z \in Int, o \in Int, t \in Int, th \in Int, f \in Int, v \in Int :
          z = 0 /\ o = 1 /\ t = 2 /\ th = 3 /\ f = 4 /\ v = 5
  OBVIOUS
<1>3. Cardinality(o .. f) = f /\ Cardinality(z .. f) = v /\ Cardinality(o .. t) = t /\ Cardinality(z .. t) = th
  <2>1. o <= f /\ z <= f /\ o <= t /\ z <= t /\ f = f - o + 1 /\ v = f - z + 1 /\ t = t - o + 1 /\ th = t - z + 1
    BY <1>2
  <2> QED
    BY <1>1, <2>1
<1> QED
  BY <1>2, <1>3, Zenon

(* No bring-up has run at first. *)
LEMMA DispInit == Disp!Init => DispInv
<1> SUFFICES ASSUME Disp!Init PROVE DispInv
  OBVIOUS
<1>1. /\ pc = "idle" /\ ready = FALSE /\ flipped = FALSE /\ win = FALSE
      /\ nl = [map |-> Disp!lane_map4, n |-> 4]
      /\ par = [lanes |-> 4, planar |-> TRUE, useFb |-> TRUE, pol |-> 0]
      /\ tracked = [fmt |-> 0, pol |-> 0]
  BY DEF Disp!Init
<1>2. cfg = [force |-> FALSE, shrd |-> FALSE, tgen |-> TRUE, fmt |-> 0, pol |-> 0]
  <2>1. cfg = [Disp!Zero EXCEPT !.tgen = TRUE]
    BY SMT DEF Disp!Init
  <2> QED
    BY <2>1 DEF Disp!Zero
<1>3. dbPhy = [role |-> dbPhy.role, en |-> dbPhy.en, off |-> dbPhy.off, pll |-> dbPhy.pll]
  <2>1. dbPhy = [role |-> [i \in Disp!Lanes |-> 0], en |-> {}, off |-> {}, pll |-> Disp!SetPll(74250, 4)]
    BY SMT DEF Disp!Init
  <2> QED
    BY <2>1, SMT
<1>4. ready \in BOOLEAN /\ flipped \in BOOLEAN /\ win \in BOOLEAN
  BY <1>1, Zenon
<1>5. par \in [lanes : {2, 4}, planar : BOOLEAN, useFb : BOOLEAN, pol : {0, 96}]
  BY <1>1
<1>6. cfg \in [force : BOOLEAN, shrd : BOOLEAN, tgen : BOOLEAN, fmt : Int, pol : Int]
  BY <1>2
<1>7. tracked \in [fmt : Int, pol : Int]
  BY <1>1
<1>8. DispTypeOK
  BY <1>1, <1>3, <1>4, <1>5, <1>6, <1>7 DEF DispTypeOK, LaneMap
<1> QED
  BY <1>1, <1>8 DEF DispInv, Past

(* lanes is read once: the map and the count agree. *)
LEMMA BeginStep == DispInv /\ Disp!Begin => DispInv'
<1> SUFFICES ASSUME DispInv, Disp!Begin PROVE DispInv'
  OBVIOUS
<1>0. DispTypeOK
  BY DEF DispInv
<1>1. /\ pc' = "lanes" /\ ready' = FALSE /\ flipped' = FALSE /\ UNCHANGED par
      /\ tracked' = [fmt |-> 0, pol |-> 0]
  BY DEF Disp!Begin
<1>2. LaneMap'
  BY DEF Disp!Begin, LaneMap
<1>3. /\ cfg' \in [force : BOOLEAN, shrd : BOOLEAN, tgen : BOOLEAN, fmt : Int, pol : Int]
      /\ cfg'.force /\ cfg'.shrd
  <2>1. PICK c \in {cfg, Disp!Zero} : cfg' = [c EXCEPT !.force = @ \/ TRUE, !.shrd = @ \/ TRUE]
    BY DEF Disp!Begin, Disp!VipColdInit
  <2>2. c \in [force : BOOLEAN, shrd : BOOLEAN, tgen : BOOLEAN, fmt : Int, pol : Int]
    BY <1>0, ZeroType DEF DispTypeOK
  <2> QED
    BY <2>1, <2>2
<1>4. dbPhy' = [role |-> dbPhy'.role, en |-> dbPhy'.en, off |-> dbPhy'.off, pll |-> dbPhy'.pll]
  BY <1>0 DEF DispTypeOK, Disp!Begin, Disp!VipColdInit
<1>5. ready' \in BOOLEAN /\ flipped' \in BOOLEAN
  BY <1>1, Zenon
<1>6. win' \in BOOLEAN
  BY <1>0, Zenon DEF DispTypeOK, Disp!Begin, Disp!VipColdInit
<1>7. tracked' \in [fmt : Int, pol : Int] /\ tracked'.fmt = 0
  BY <1>1
<1>8. DispTypeOK'
  BY <1>0, <1>1, <1>2, <1>3, <1>4, <1>5, <1>6, <1>7 DEF DispTypeOK
<1> QED
  BY <1>1, <1>3, <1>7, <1>8 DEF DispInv, Past

(* The lanes are assigned from the map of this bring-up and the PLL is set  *)
(* for its count.                                                           *)
LEMMA SetLanesStep == DispInv /\ Disp!SetLanes => DispInv'
<1> SUFFICES ASSUME DispInv, Disp!SetLanes PROVE DispInv'
  OBVIOUS
<1>0. DispTypeOK
  BY DEF DispInv
<1>1. /\ pc = "lanes" /\ pc' = "intf"
      /\ UNCHANGED <<par, nl, cfg, tracked, dsi, pitch, win, ready, flipped>>
  BY DEF Disp!SetLanes
<1>2. PICK clk \in PixClocks :
          dbPhy' = [dbPhy EXCEPT !.role = Disp!Assign(nl.map), !.en = Disp!DataRoles(nl.map),
                                 !.pll = Disp!SetPll(clk, nl.n)]
  BY DEF Disp!SetLanes
<1>3. Disp!Assign(nl.map) = nl.map
  BY <1>0 DEF DispTypeOK, LaneMap, Disp!Assign, Disp!lane_map4, Disp!lane_map2
<1>4. /\ dbPhy'.role = nl.map /\ dbPhy'.en = Disp!DataRoles(nl.map) /\ dbPhy'.pll = Disp!SetPll(clk, nl.n)
      /\ dbPhy' = [role |-> dbPhy'.role, en |-> dbPhy'.en, off |-> dbPhy'.off, pll |-> dbPhy'.pll]
  BY <1>0, <1>2, <1>3 DEF DispTypeOK
<1>5. LanesSet'
  BY <1>1, <1>4 DEF LanesSet
<1>6. DispTypeOK'
  BY <1>0, <1>1, <1>4 DEF DispTypeOK, LaneMap
<1> QED
  BY <1>1, <1>5, <1>6 DEF DispInv, Past

(* The unused lanes are powered down and the MAC gets the lane count. *)
LEMMA SetIntfStep == DispInv /\ Disp!SetIntf => DispInv'
<1> SUFFICES ASSUME DispInv, Disp!SetIntf PROVE DispInv'
  OBVIOUS
<1>0. DispTypeOK
  BY DEF DispInv
<1>1. /\ pc = "intf" /\ pc' = "timing" /\ dsi' = nl.n \div 2
      /\ UNCHANGED <<par, nl, cfg, tracked, pitch, win, ready, flipped>>
      /\ dbPhy' = [dbPhy EXCEPT !.off = Disp!PoweredDown(dbPhy.role)]
  BY DEF Disp!SetIntf
<1>2. LanesSet
  BY <1>1 DEF DispInv, Past
<1>3. /\ dbPhy'.off = Disp!PoweredDown(nl.map)
      /\ dbPhy'.role = dbPhy.role /\ dbPhy'.en = dbPhy.en /\ dbPhy'.pll = dbPhy.pll
      /\ dbPhy' = [role |-> dbPhy'.role, en |-> dbPhy'.en, off |-> dbPhy'.off, pll |-> dbPhy'.pll]
  BY <1>0, <1>1, <1>2 DEF DispTypeOK, LanesSet
<1>4. LanesSet' /\ LanesOn'
  BY <1>1, <1>2, <1>3 DEF LanesSet, LanesOn
<1>5. DispTypeOK'
  BY <1>0, <1>1, <1>3 DEF DispTypeOK, LaneMap
<1> QED
  BY <1>1, <1>4, <1>5 DEF DispInv, Past

(* A commit writes the tracked format and polarity and nothing else. *)
LEMMA CommitOK ==
    ASSUME NEW c \in [force : BOOLEAN, shrd : BOOLEAN, tgen : BOOLEAN, fmt : Int, pol : Int],
           NEW t \in [fmt : Int, pol : Int]
    PROVE  LET d == Disp!Commit(c, t)
           IN  /\ d \in [force : BOOLEAN, shrd : BOOLEAN, tgen : BOOLEAN, fmt : Int, pol : Int]
               /\ d.force = c.force /\ d.shrd = c.shrd /\ d.tgen = c.tgen /\ d.fmt = t.fmt /\ d.pol = t.pol
BY DEF Disp!Commit

(* What the steps after disp_set_intf_mipi() leave alone. *)
LEMMA LanesKept ==
    ASSUME LanesSet, LanesOn, UNCHANGED <<dbPhy, nl, dsi>>
    PROVE  LanesSet' /\ LanesOn'
BY DEF LanesSet, LanesOn

LEMMA SetTimingStep == DispInv /\ Disp!SetTiming => DispInv'
<1> SUFFICES ASSUME DispInv, Disp!SetTiming PROVE DispInv'
  OBVIOUS
<1>0. DispTypeOK
  BY DEF DispInv
<1>1. /\ pc = "timing" /\ pc' = "source" /\ UNCHANGED <<par, nl, dbPhy, dsi, pitch, win, ready, flipped>>
      /\ tracked' = [tracked EXCEPT !.pol = par.pol] /\ cfg' = Disp!Commit(cfg, tracked')
  BY DEF Disp!SetTiming
<1>2. tracked' \in [fmt : Int, pol : Int] /\ tracked'.fmt = tracked.fmt
  BY <1>0, <1>1 DEF DispTypeOK
<1>3. /\ cfg' \in [force : BOOLEAN, shrd : BOOLEAN, tgen : BOOLEAN, fmt : Int, pol : Int]
      /\ cfg'.force = cfg.force /\ cfg'.shrd = cfg.shrd
      /\ cfg'.fmt = tracked'.fmt /\ cfg'.pol = tracked'.pol
  BY <1>0, <1>1, <1>2, CommitOK DEF DispTypeOK
<1>4. LanesSet' /\ LanesOn'
  BY <1>1, LanesKept DEF DispInv, Past
<1>5. DispTypeOK'
  BY <1>0, <1>1, <1>2, <1>3 DEF DispTypeOK, LaneMap
<1> QED
  BY <1>1, <1>2, <1>3, <1>4, <1>5 DEF DispInv, Past

LEMMA SetSourceStep == DispInv /\ Disp!SetSource => DispInv'
<1> SUFFICES ASSUME DispInv, Disp!SetSource PROVE DispInv'
  OBVIOUS
<1>0. DispTypeOK
  BY DEF DispInv
<1>1. pc = "source" /\ UNCHANGED <<par, nl, dbPhy, dsi, ready, flipped, tracked>> /\ win' = TRUE
  BY DEF Disp!SetSource, Disp!Pattern
<1>2. LanesSet' /\ LanesOn'
  BY <1>1, LanesKept DEF DispInv, Past
<1>3. win' \in BOOLEAN
  BY <1>1, Zenon
<1>4. CASE par.useFb
  <2>1. pitch' = (IF par.planar THEN 2 ELSE 4) /\ pc' = "format" /\ UNCHANGED cfg
    BY <1>4 DEF Disp!SetSource
  <2>2. DispTypeOK'
    BY <1>0, <1>1, <1>3, <2>1 DEF DispTypeOK, LaneMap
  <2> QED
    BY <1>1, <1>2, <2>1, <2>2 DEF DispInv, Past
<1>5. CASE ~par.useFb
  <2>1. pc' = "tgen" /\ cfg' = Disp!Commit(cfg, tracked) /\ UNCHANGED pitch
    BY <1>5 DEF Disp!SetSource, Disp!Pattern
  <2>2. /\ cfg' \in [force : BOOLEAN, shrd : BOOLEAN, tgen : BOOLEAN, fmt : Int, pol : Int]
        /\ cfg'.force = cfg.force /\ cfg'.shrd = cfg.shrd
        /\ cfg'.fmt = tracked.fmt /\ cfg'.pol = tracked.pol
    BY <1>0, <2>1, CommitOK DEF DispTypeOK
  <2>3. DispTypeOK'
    BY <1>0, <1>1, <1>3, <2>1, <2>2 DEF DispTypeOK, LaneMap
  <2> QED
    BY <1>1, <1>2, <2>1, <2>2, <2>3 DEF DispInv, Past
<1> QED
  BY <1>4, <1>5

LEMMA SetFormatStep == DispInv /\ Disp!SetFormat => DispInv'
<1> SUFFICES ASSUME DispInv, Disp!SetFormat PROVE DispInv'
  OBVIOUS
<1>0. DispTypeOK
  BY DEF DispInv
<1>1. /\ pc = "format" /\ pc' = "tgen" /\ UNCHANGED <<par, nl, dbPhy, dsi, pitch, win, ready, flipped>>
      /\ tracked' = [tracked EXCEPT !.fmt = IF par.planar THEN 2 ELSE 4]
      /\ cfg' = Disp!Commit(cfg, tracked')
  BY DEF Disp!SetFormat
<1>2. tracked' \in [fmt : Int, pol : Int] /\ tracked'.fmt = (IF par.planar THEN 2 ELSE 4)
  BY <1>0, <1>1 DEF DispTypeOK
<1>3. /\ cfg' \in [force : BOOLEAN, shrd : BOOLEAN, tgen : BOOLEAN, fmt : Int, pol : Int]
      /\ cfg'.force = cfg.force /\ cfg'.shrd = cfg.shrd
      /\ cfg'.fmt = tracked'.fmt /\ cfg'.pol = tracked'.pol
  BY <1>0, <1>1, <1>2, CommitOK DEF DispTypeOK
<1>4. LanesSet' /\ LanesOn'
  BY <1>1, LanesKept DEF DispInv, Past
<1>5. DispTypeOK'
  BY <1>0, <1>1, <1>2, <1>3 DEF DispTypeOK, LaneMap
<1> QED
  BY <1>1, <1>2, <1>3, <1>4, <1>5 DEF DispInv, Past

LEMMA TgenStep == DispInv /\ Disp!TgenEnable => DispInv'
<1> SUFFICES ASSUME DispInv, Disp!TgenEnable PROVE DispInv'
  OBVIOUS
<1>0. DispTypeOK
  BY DEF DispInv
<1>1. /\ pc = "tgen" /\ pc' = "idle" /\ ready' = TRUE
      /\ UNCHANGED <<par, nl, tracked, dbPhy, dsi, pitch, win, flipped>>
      /\ cfg' = [cfg EXCEPT !.tgen = TRUE]
  BY DEF Disp!TgenEnable
<1>2. /\ cfg' \in [force : BOOLEAN, shrd : BOOLEAN, tgen : BOOLEAN, fmt : Int, pol : Int]
      /\ cfg'.force = cfg.force /\ cfg'.shrd = cfg.shrd /\ cfg'.tgen
      /\ cfg'.fmt = cfg.fmt /\ cfg'.pol = cfg.pol
  BY <1>0, <1>1 DEF DispTypeOK
<1>3. LanesSet' /\ LanesOn'
  BY <1>1, LanesKept DEF DispInv, Past
<1>4. ready' \in BOOLEAN
  BY <1>1, Zenon
<1>5. DispTypeOK'
  BY <1>0, <1>1, <1>2, <1>4 DEF DispTypeOK, LaneMap
<1> QED
  BY <1>1, <1>2, <1>3, <1>5 DEF DispInv, Past

(* `pattern' commits the tracked bits, at whatever step the bring-up is. *)
LEMMA PatternStep == DispInv /\ Disp!PatternWrite => DispInv'
<1> SUFFICES ASSUME DispInv, Disp!PatternWrite PROVE DispInv'
  OBVIOUS
<1>0. DispTypeOK
  BY DEF DispInv
<1>1. /\ UNCHANGED <<par, pc, nl, dbPhy, dsi, ready, flipped, tracked, pitch>> /\ win' = TRUE
      /\ cfg' = Disp!Commit(cfg, tracked)
  BY DEF Disp!PatternWrite, Disp!Pattern
<1>2. /\ cfg' \in [force : BOOLEAN, shrd : BOOLEAN, tgen : BOOLEAN, fmt : Int, pol : Int]
      /\ cfg'.force = cfg.force /\ cfg'.shrd = cfg.shrd /\ cfg'.tgen = cfg.tgen
      /\ cfg'.fmt = tracked.fmt /\ cfg'.pol = tracked.pol
  BY <1>0, <1>1, CommitOK DEF DispTypeOK
<1>3. (LanesSet => LanesSet') /\ (LanesOn => LanesOn')
  BY <1>1 DEF LanesSet, LanesOn
<1>4. win' \in BOOLEAN
  BY <1>1, Zenon
<1>5. DispTypeOK'
  BY <1>0, <1>1, <1>2, <1>4 DEF DispTypeOK, LaneMap
<1> QED
  BY <1>1, <1>2, <1>3, <1>5 DEF DispInv, Past

LEMMA VipinitStep == DispInv /\ Disp!VipinitWrite => DispInv'
<1> SUFFICES ASSUME DispInv, Disp!VipinitWrite PROVE DispInv'
  OBVIOUS
<1>0. DispTypeOK
  BY DEF DispInv
<1>1. pc = "idle" /\ ready' = FALSE /\ UNCHANGED <<par, pc, nl, tracked, flipped>>
  BY DEF Disp!VipinitWrite
<1>2. cfg' \in [force : BOOLEAN, shrd : BOOLEAN, tgen : BOOLEAN, fmt : Int, pol : Int]
  <2>1. PICK c \in {cfg, Disp!Zero} : cfg' = [c EXCEPT !.force = @ \/ FALSE, !.shrd = @ \/ FALSE]
    BY DEF Disp!VipinitWrite, Disp!VipColdInit
  <2>2. c \in [force : BOOLEAN, shrd : BOOLEAN, tgen : BOOLEAN, fmt : Int, pol : Int]
    BY <1>0, ZeroType DEF DispTypeOK
  <2> QED
    BY <2>1, <2>2
<1>3. dbPhy' = [role |-> dbPhy'.role, en |-> dbPhy'.en, off |-> dbPhy'.off, pll |-> dbPhy'.pll]
  BY <1>0 DEF DispTypeOK, Disp!VipinitWrite, Disp!VipColdInit
<1>4. ready' \in BOOLEAN
  BY <1>1, Zenon
<1>5. win' \in BOOLEAN
  BY <1>0, Zenon DEF DispTypeOK, Disp!VipinitWrite, Disp!VipColdInit
<1>6. DispTypeOK'
  BY <1>0, <1>1, <1>2, <1>3, <1>4, <1>5 DEF DispTypeOK, LaneMap
<1> QED
  BY <1>1, <1>6 DEF DispInv, Past

(* A write of a module parameter: flipped notes the one that falls between  *)
(* the two reads of planar.                                                 *)
LEMMA SetParamStep == DispInv /\ Disp!SetParam => DispInv'
<1> SUFFICES ASSUME DispInv, Disp!SetParam PROVE DispInv'
  OBVIOUS
<1>0. DispTypeOK
  BY DEF DispInv
<1>1. /\ UNCHANGED <<pc, nl, cfg, tracked, dbPhy, dsi, pitch, win, ready>>
      /\ flipped' = (flipped \/ (pc = "format" /\ par'.planar # par.planar))
  BY DEF Disp!SetParam
<1>2. par' \in [lanes : {2, 4}, planar : BOOLEAN, useFb : BOOLEAN, pol : {0, 96}]
  <2>0. par \in [lanes : {2, 4}, planar : BOOLEAN, useFb : BOOLEAN, pol : {0, 96}]
    BY <1>0 DEF DispTypeOK
  <2>1. CASE \E n \in {2, 4} : par' = [par EXCEPT !.lanes = n]
    BY <2>0, <2>1
  <2>2. CASE par' = [par EXCEPT !.planar = ~@]
    BY <2>0, <2>2
  <2>3. CASE par' = [par EXCEPT !.useFb = ~@]
    BY <2>0, <2>3
  <2>4. CASE \E p \in {0, 96} : par' = [par EXCEPT !.pol = p]
    BY <2>0, <2>4
  <2> QED
    BY <2>1, <2>2, <2>3, <2>4 DEF Disp!SetParam
<1>3. flipped' \in BOOLEAN /\ (flipped => flipped')
  BY <1>0, <1>1, Zenon DEF DispTypeOK
<1>4. pc = "format" /\ ~flipped' => par'.planar = par.planar
  BY <1>0, <1>1, Zenon DEF DispTypeOK
<1>5. (LanesSet => LanesSet') /\ (LanesOn => LanesOn')
  BY <1>1 DEF LanesSet, LanesOn
<1>6. DispTypeOK'
  BY <1>0, <1>1, <1>2, <1>3 DEF DispTypeOK, LaneMap
<1> QED
  BY <1>1, <1>3, <1>4, <1>5, <1>6 DEF DispInv, Past

(* The bring-up's invariant is inductive. *)
LEMMA DispStep == DispInv /\ [Disp!Next]_disp => DispInv'
<1>1. DispInv /\ UNCHANGED disp => DispInv'
  BY DEF disp, DispInv, DispTypeOK, LaneMap, LanesSet, LanesOn, Past
<1> QED
  BY <1>1, BeginStep, SetLanesStep, SetIntfStep, SetTimingStep, SetSourceStep, SetFormatStep, TgenStep,
     PatternStep, VipinitStep, SetParamStep DEF Disp!Next, Disp!BringUp

(* What the run states of a bring-up follows from its invariant. *)
LEMMA DispSafe == DispInv => Disp!LanesAgree /\ Disp!CfgHolds /\ Disp!PllExact
<1> SUFFICES ASSUME DispInv, ready PROVE Disp!LanesAgree /\ Disp!CfgHolds /\ Disp!PllExact
  BY DEF Disp!LanesAgree, Disp!CfgHolds, Disp!PllExact
<1>1. LaneMap /\ LanesSet /\ LanesOn
  BY DEF DispInv, DispTypeOK, Past
<1>2. Disp!CfgHolds
  BY DEF DispInv, Past, Disp!CfgHolds
<1>3. /\ nl.n \in {2, 4} /\ Cardinality(dbPhy.en) = nl.n
      /\ Disp!LanesAgree
  <2>1. CASE nl = [map |-> Disp!lane_map4, n |-> 4]
    <3>1. dbPhy.role = Disp!lane_map4 /\ dbPhy.en = 1 .. 4 /\ dbPhy.off = {} /\ dsi = 4 \div 2 /\ nl.n = 4
      BY <1>1, <2>1, Map4 DEF LanesSet, LanesOn
    <3>2. {dbPhy.role[i] : i \in 0 .. 4} = 0 .. 4
      BY <3>1, Map4
    <3>3. (0 .. 4) \ dbPhy.off = 0 .. 4 /\ (1 .. 4) \cup {0} = 0 .. 4 /\ 2 ^ dsi = 4
      BY <3>1, Powers
    <3>4. {dbPhy.role[i] : i \in (0 .. 4) \ dbPhy.off} = dbPhy.en \cup {0}
      BY <3>1, <3>2, <3>3, Zenon
    <3>5. Cardinality(dbPhy.en) = 4 /\ Cardinality((0 .. 4) \ dbPhy.off) = 5
      BY <3>1, <3>3, LaneCounts, Zenon
    <3>6. Cardinality((0 .. 4) \ dbPhy.off) = Cardinality(dbPhy.en) + 1 /\ 2 ^ dsi = Cardinality(dbPhy.en)
      BY <3>3, <3>5
    <3>7. Disp!LanesAgree
      BY <3>4, <3>6, DispCardinality, Zenon DEF Disp!LanesAgree, Disp!Lanes, Disp!LANE_CLK
    <3> QED
      BY <3>1, <3>5, <3>7
  <2>2. CASE nl = [map |-> Disp!lane_map2, n |-> 2]
    <3>1. /\ dbPhy.role = Disp!lane_map2 /\ dbPhy.en = 1 .. 2 /\ (0 .. 4) \ dbPhy.off = 0 .. 2
          /\ dsi = 2 \div 2 /\ nl.n = 2
      BY <1>1, <2>2, Map2 DEF LanesSet, LanesOn
    <3>2. {dbPhy.role[i] : i \in 0 .. 2} = 0 .. 2
      BY <3>1, Map2
    <3>3. (1 .. 2) \cup {0} = 0 .. 2 /\ 2 ^ dsi = 2
      BY <3>1, Powers
    <3>4. {dbPhy.role[i] : i \in (0 .. 4) \ dbPhy.off} = dbPhy.en \cup {0}
      BY <3>1, <3>2, <3>3, Zenon
    <3>5. Cardinality(dbPhy.en) = 2 /\ Cardinality((0 .. 4) \ dbPhy.off) = 3
      BY <3>1, LaneCounts, Zenon
    <3>6. Cardinality((0 .. 4) \ dbPhy.off) = Cardinality(dbPhy.en) + 1 /\ 2 ^ dsi = Cardinality(dbPhy.en)
      BY <3>3, <3>5
    <3>7. Disp!LanesAgree
      BY <3>4, <3>6, DispCardinality, Zenon DEF Disp!LanesAgree, Disp!Lanes, Disp!LANE_CLK
    <3> QED
      BY <3>1, <3>5, <3>7
  <2> QED
    BY <1>1, <2>1, <2>2 DEF LaneMap
<1>4. Disp!PllExact
  <2>1. PICK clk \in PixClocks : dbPhy.pll = Disp!SetPll(clk, nl.n)
    BY <1>1 DEF LanesSet
  <2>2. PllOK(dbPhy.pll, Cardinality(dbPhy.en))
    BY <1>3, <2>1, PllExactAt
  <2>3. dbPhy.pll.vco <= 2500000 /\ 2 * dbPhy.pll.vco > 2500000
    BY <2>2, SMT DEF PllOK
  <2>4. dbPhy.pll.vco = ((dbPhy.pll.clk * Disp!VBITS) \div Cardinality(dbPhy.en))
                            * 2 ^ (dbPhy.pll.divout + dbPhy.pll.div)
    BY <2>2, SMT DEF PllOK
  <2>5. /\ dbPhy.pll.disp_div * dbPhy.pll.clk = dbPhy.pll.vco
        /\ dbPhy.pll.disp_div <= 127 /\ dbPhy.pll.div <= 1
    BY <2>2, SMT DEF PllOK
  <2> QED
    BY <2>3, <2>4, <2>5, DispCardinality, SMT DEF Disp!PllExact
<1> QED
  BY <1>2, <1>3, <1>4

-----------------------------------------------------------------------------
(* lt8912b-bringup, for every set of writers and every pixel clock in the   *)
(* PLL's reach: the scroller paints only a live framebuffer, a stop holds,  *)
(* disp-src is balanced, and every bring-up ends with the MAC sending on    *)
(* the powered lanes, at the clock's exact ratio, under a whole DISP_CFG.   *)
THEOREM BringupSoundThm == MCSpec => []BringupSound
<1>1. MCInit => BridgeInv /\ DispInv
  BY BridgeInit, DispInit DEF MCInit
<1>2. BridgeInv /\ DispInv /\ [MCNext]_all => (BridgeInv /\ DispInv)'
  <2> SUFFICES ASSUME BridgeInv, DispInv, [MCNext]_all PROVE BridgeInv' /\ DispInv'
    OBVIOUS
  <2>1. [Bridge!Next]_bridging /\ [Disp!Next]_disp
    BY DEF MCNext, all
  <2> QED
    BY <2>1, BridgeStep, DispStep
<1>3. BridgeInv /\ DispInv => BringupSound
  BY BridgeSafe, DispSafe DEF BringupSound
<1> QED
  BY <1>1, <1>2, <1>3, PTL DEF MCSpec

(* The player's button, for every setting of its times with the bounce      *)
(* below the debouncing: one press moves by at most one clip, a press       *)
(* under a running btnwait is reported, and by its length.                  *)
THEOREM ButtonSoundThm == MCSpec => []ButtonSound
<1>1. MCInit => ButtonInv
  BY ButtonInit DEF MCInit
<1>2. ButtonInv /\ [MCNext]_all => ButtonInv'
  <2>1. [MCNext]_all => [Button!Next]_button
    BY DEF MCNext, all
  <2> QED
    BY <2>1, ButtonStep
<1>3. ButtonInv => ButtonSound
  BY ButtonSafe
<1> QED
  BY <1>1, <1>2, <1>3, PTL DEF MCSpec

-----------------------------------------------------------------------------
(* SophProbe: a bridge is bound only once the host is there, and a host     *)
(* that was left behind is followed by no attempt of the probe.             *)

ProbeInv ==
    /\ host \in {"none", "registered", "dangling"}
    /\ bridge = "bound" => host # "none"
    /\ host = "dangling" => spProbe = "none"
    /\ spLine \in Probing!Lines
    /\ Probing!LinkLeftAlone /\ Probing!ModesMonotonic

Ordered(m) == m.display <= m.start /\ m.start < m.end /\ m.end < m.total

(* A mode that soph_fill_mode() fills is ordered, wherever the sync is.     *)
LEMMA FillOrdered ==
  ASSUME NEW t \in Probing!Lines, t.total # 0, NEW w \in Nat, w <= Active
  PROVE  Ordered(Probing!Fill(t, w))
<1>1. /\ U16 \in Nat /\ U16 > 0 /\ Active \in Nat /\ Total \in Nat /\ Active + 2 < Total
  BY LineAssumption
<1>2. /\ t.total = Total - 1 /\ t.sync \in Int /\ t.syncEnd \in Int /\ t.fde \in Int
  <2>1. t # Probing!Unprogrammed
    BY DEF Probing!Unprogrammed
  <2> QED
    BY <1>1, <2>1 DEF Probing!Lines
<1>3. PICK start : start = (w + (t.sync - t.fde)) % U16
  OBVIOUS
<1>4. PICK end : end = (w + (t.syncEnd - t.fde)) % U16
  OBVIOUS
<1>5. start \in Int /\ end \in Int
  BY <1>1, <1>2, <1>3, <1>4
<1>6. PICK total : total = t.total + 1
  OBVIOUS
<1>7. total = Total
  BY <1>1, <1>2, <1>6
<1>8. Probing!Fill(t, w) =
        IF start < w \/ end <= start \/ total <= end
        THEN [display |-> w, start |-> w + 1, end |-> w + 2, total |-> total]
        ELSE [display |-> w, start |-> start, end |-> end, total |-> total]
  BY <1>3, <1>4, <1>6 DEF Probing!Fill
<1>9. CASE start < w \/ end <= start \/ total <= end
  BY <1>1, <1>7, <1>8, <1>9 DEF Ordered
<1>10. CASE ~(start < w \/ end <= start \/ total <= end)
  <2>1. w <= start /\ start < end /\ end < total
    BY <1>1, <1>5, <1>7, <1>10
  <2> QED
    BY <1>8, <1>10, <2>1 DEF Ordered
<1> QED
  BY <1>9, <1>10

(* The two modes, and half of a size. *)
LEMMA ModePair ==
  /\ DOMAIN <<>> = {}
  /\ \A a, b : DOMAIN <<a, b>> = {1, 2} /\ <<a, b>>[1] = a /\ <<a, b>>[2] = b
<1>1. DOMAIN <<>> = 1 .. 0
  OBVIOUS
<1>2. ASSUME NEW a, NEW b PROVE DOMAIN <<a, b>> = 1 .. 2 /\ <<a, b>>[1] = a /\ <<a, b>>[2] = b
  OBVIOUS
<1>3. 1 .. 0 = {} /\ 1 .. 2 = {1, 2}
  OBVIOUS
<1> QED
  BY <1>1, <1>2, <1>3

LEMMA HalfOf == \A a \in Nat : a \div 2 \in Nat /\ a \div 2 <= a
  BY SMTT(30)

LEMMA ProbeInit == Probing!Init => ProbeInv
  BY DEF Probing!Init, ProbeInv, Probing!NoModes, Probing!LinkLeftAlone, Probing!ModesMonotonic

LEMMA ProbeStep == ProbeInv /\ [Probing!Next]_probing => ProbeInv'
<1> SUFFICES ASSUME ProbeInv, [Probing!Next]_probing PROVE ProbeInv'
  OBVIOUS
<1>0. Active \in Nat /\ Active <= Active
  BY LineAssumption
<1> USE DEF ProbeInv, Probing!LinkLeftAlone
<1>1. ASSUME UNCHANGED <<host, link, bridge, spLine, modes>>, host # "dangling" \/ spProbe' = "none"
      PROVE  ProbeInv'
  BY <1>1 DEF Probing!ModesMonotonic
<1>2. CASE Probing!SophInit
  BY <1>1, <1>2 DEF Probing!SophInit
<1>3. CASE Probing!ProbeStart \/ Probing!ProbeBridge \/ Probing!Retry \/ Probing!ProbeCard
  BY <1>1, <1>3 DEF Probing!ProbeStart, Probing!ProbeBridge, Probing!Retry, Probing!ProbeCard
<1>4. CASE Probing!ProbeLink
  <2>1. host = "registered" => UNCHANGED link
    BY <1>4 DEF Probing!ProbeLink
  <2>2. host # "registered" => host = "none" /\ Probing!Raised = "up"
    BY <1>4 DEF Probing!ProbeLink, Probing!Raised
  <2>3. link' = link \/ link' = "up"
    BY <1>4, <2>1, <2>2 DEF Probing!ProbeLink
  <2> QED
    BY <1>4, <2>3 DEF Probing!ProbeLink, Probing!ModesMonotonic
<1>5. CASE Probing!ProbeHost
  BY <1>5 DEF Probing!ProbeHost, Probing!ModesMonotonic
<1>6. CASE Probing!BridgeProbe
  BY <1>6 DEF Probing!BridgeProbe, Probing!ModesMonotonic
<1>7. CASE Probing!SophExit
  <2>1. modes' = <<>>
    BY <1>7 DEF Probing!SophExit, Probing!NoModes
  <2>2. \A i \in DOMAIN modes' : FALSE
    BY <2>1, ModePair, Zenon
  <2>3. Probing!ModesMonotonic'
    BY <2>2 DEF Probing!ModesMonotonic
  <2> QED
    BY <1>7, <2>3 DEF Probing!SophExit
<1>8. CASE Probing!ReadMode
  <2>1. spProbe = "mode" /\ UNCHANGED <<host, link, bridge, spLine>>
    BY <1>8 DEF Probing!ReadMode
  <2>2. CASE spLine.total = 0 \/ spLine.fdeEnd <= spLine.fde
    <3>1. UNCHANGED modes
      BY <1>8, <2>2 DEF Probing!ReadMode
    <3> QED
      BY <2>1, <3>1 DEF Probing!ModesMonotonic
  <2>3. CASE ~(spLine.total = 0 \/ spLine.fdeEnd <= spLine.fde)
    <3>1. PICK w : w = spLine.fdeEnd - spLine.fde + 1
      OBVIOUS
    <3>2. modes' = <<Probing!Fill(spLine, w), Probing!Fill(spLine, w \div 2)>>
      BY <1>8, <2>3, <3>1 DEF Probing!ReadMode
    <3>3. w = Active
      <4>1. spLine.total # 0
        BY <2>3
      <4>2. spLine # Probing!Unprogrammed
        <5>1. Probing!Unprogrammed.total = 0
          BY DEF Probing!Unprogrammed
        <5> QED
          BY <4>1, <5>1, Zenon
      <4> QED
        BY <3>1, <4>2 DEF Probing!Lines
    <3>4. w \in Nat /\ w <= Active /\ w \div 2 \in Nat /\ w \div 2 <= Active
      BY <1>0, <3>3, HalfOf, Zenon
    <3>5. PICK a, b : a = Probing!Fill(spLine, w) /\ b = Probing!Fill(spLine, w \div 2)
      OBVIOUS
    <3>6. Ordered(a) /\ Ordered(b)
      BY <2>3, <3>4, <3>5, FillOrdered
    <3>7. modes' = <<a, b>>
      BY <3>2, <3>5
    <3>8. \A i \in DOMAIN modes' : Ordered(modes'[i])
      <4>1. DOMAIN modes' = {1, 2} /\ modes'[1] = a /\ modes'[2] = b
        BY <3>7, ModePair, Zenon
      <4> QED
        BY <3>6, <4>1, Zenon
    <3>9. Probing!ModesMonotonic'
      BY <3>8, Zenon DEF Probing!ModesMonotonic, Ordered
    <3> QED
      BY <2>1, <3>9
  <2> QED
    BY <2>2, <2>3
<1>9. CASE UNCHANGED probing
  BY <1>9 DEF probing, Probing!ModesMonotonic
<1> QED
  BY <1>2, <1>3, <1>4, <1>5, <1>6, <1>7, <1>8, <1>9 DEF Probing!Next, Probing!Probe

-----------------------------------------------------------------------------
(* SophUnderrun: a flag that is up in a cleaned session came up in it.      *)

StarveInv ==
    /\ since => ~stale
    /\ path = "native" /\ bw /\ ~stale => since
    /\ Underrun!StarvationReal

LEMMA StarveInit == Underrun!Init => StarveInv
  BY DEF Underrun!Init, StarveInv, Underrun!StarvationReal

LEMMA StarveStep == StarveInv /\ [Underrun!Next]_underrun => StarveInv'
<1> SUFFICES ASSUME StarveInv, [Underrun!Next]_underrun PROVE StarveInv'
  OBVIOUS
<1> USE DEF StarveInv, Underrun!StarvationReal
<1>1. CASE Underrun!Latch
  <2>1. UNCHANGED <<path, stale, starving, blind>>
    BY <1>1 DEF Underrun!Latch, Underrun!layer, Underrun!judged
  <2>2. CASE path = "native" /\ bw' = TRUE /\ since' = ~stale
    BY <2>1, <2>2, Zenon
  <2>3. CASE path # "native" /\ UNCHANGED since
    BY <2>1, <2>3
  <2>4. CASE UNCHANGED <<bw, since>>
    BY <2>1, <2>4
  <2> QED
    BY <1>1, <2>2, <2>3, <2>4 DEF Underrun!Latch
<1>2. CASE Underrun!FrameStart
  BY <1>2 DEF Underrun!FrameStart, Underrun!Vblank, Underrun!Check, Underrun!judged
<1>3. CASE Underrun!Fallback
  BY <1>3 DEF Underrun!Fallback, Underrun!Vblank, Underrun!Check, Underrun!judged, Underrun!layer
<1>4. CASE Underrun!Flip
  BY <1>4 DEF Underrun!Flip, Underrun!Load, Underrun!hw
<1>5. CASE Underrun!Enable
  BY <1>5 DEF Underrun!Enable, Underrun!hw
<1>6. CASE Underrun!Disable
  BY <1>6 DEF Underrun!Disable, Underrun!hw, Underrun!judged, Underrun!hist
<1>7. CASE UNCHANGED underrun
  BY <1>7 DEF underrun
<1> QED
  BY <1>1, <1>2, <1>3, <1>4, <1>5, <1>6, <1>7 DEF Underrun!Next

-----------------------------------------------------------------------------
(* WifiEnum: nothing is scanned before the host is added, and from then on  *)
(* only the AIC driver moves the line.                                      *)

WifiInv ==
    /\ mmc => weProbe = "bound"
    /\ work \/ card => weProbe \in {"added", "bound"}
    /\ level => aic \notin {"idle", "poll"}
    /\ Wifi!AbsentUntilPowered

LEMMA WifiInit == Wifi!Init => WifiInv
  BY DEF Wifi!Init, WifiInv, Wifi!AbsentUntilPowered

LEMMA WifiStep == WifiInv /\ [Wifi!Next]_wifi => WifiInv'
<1> SUFFICES ASSUME WifiInv, [Wifi!Next]_wifi PROVE WifiInv'
  OBVIOUS
<1> USE DEF WifiInv, Wifi!AbsentUntilPowered
<1>1. CASE Wifi!ProbeGpio
  BY <1>1 DEF Wifi!ProbeGpio
<1>2. CASE Wifi!ProbeAddHost
  BY <1>2 DEF Wifi!ProbeAddHost
<1>3. CASE Wifi!ProbePublish
  BY <1>3 DEF Wifi!ProbePublish
<1>4. CASE Wifi!AicStart
  BY <1>4 DEF Wifi!AicStart
<1>5. CASE Wifi!AicPower
  BY <1>5 DEF Wifi!AicPower
<1>6. CASE Wifi!SdioRescan
  BY <1>6 DEF Wifi!SdioRescan, Wifi!Detect
<1>7. CASE Wifi!RescanClear
  BY <1>7 DEF Wifi!RescanClear, Wifi!Clear, Wifi!Cleared
<1>8. CASE Wifi!MmcRescan
  BY <1>8 DEF Wifi!MmcRescan
<1>9. CASE Wifi!RescanStore
  BY <1>9 DEF Wifi!RescanStore, Wifi!Detect, Wifi!Clear
<1>10. CASE UNCHANGED wifi
  BY <1>10 DEF wifi
<1>11. CASE Wifi!ProbeDeferLate
  BY <1>11 DEF Wifi!ProbeDeferLate
<1>12. CASE Wifi!ProbeOther
  BY <1>12 DEF Wifi!ProbeOther
<1> QED
  BY <1>1, <1>2, <1>3, <1>4, <1>5, <1>6, <1>7, <1>8, <1>9, <1>10, <1>11, <1>12
  DEF Wifi!Next, Wifi!Probe, Wifi!Aic

-----------------------------------------------------------------------------
(* SdhciCv: the switch is at 1.8 V only for the card that was asked, and    *)
(* the slot's pads and voltage follow its power.                            *)

SdSlotInv ==
    /\ slot \in [power : BOOLEAN, pads : {"gpio", "sdio"}, pulls : {"down", "up"},
                 sw : {"off", "3v3", "1v8"}, v18 : BOOLEAN]
    /\ slot.v18 => slot.power
    /\ slot.pads = "sdio" <=> slot.power
    /\ slot.sw = "1v8" <=> slot.v18

SdhciInv == Sdhci!NoStaleTap /\ SdSlotInv

LEMMA SdhciInit == Sdhci!Init => SdhciInv
  BY DEF Sdhci!Init, SdhciInv, SdSlotInv, Sdhci!NoStaleTap

(* One step of an SD host, for a slot that is as SdSlotInv says.              *)
SlotStep ==
    /\ slot.power = FALSE /\ slot'.power => slot'.sw = "3v3"
    /\ slot'.pads = "sdio" <=> slot'.power
    /\ slot'.sw = "1v8" <=> slot'.v18

LEMMA SdhciStep == SdhciInv /\ [Sdhci!Next]_sdhci => SdhciInv' /\ SlotStep
<1> SUFFICES ASSUME SdhciInv, [Sdhci!Next]_sdhci PROVE SdhciInv' /\ SlotStep
  OBVIOUS
<1>1. /\ slot \in [power : BOOLEAN, pads : {"gpio", "sdio"}, pulls : {"down", "up"},
                   sw : {"off", "3v3", "1v8"}, v18 : BOOLEAN]
      /\ slot.v18 => slot.power
      /\ slot.pads = "sdio" <=> slot.power
      /\ slot.sw = "1v8" <=> slot.v18
  BY DEF SdhciInv, SdSlotInv
<1>2. ASSUME UNCHANGED slot PROVE SdSlotInv' /\ SlotStep
  BY <1>1, <1>2 DEF SdSlotInv, SlotStep
<1>3. sdPhy \in {Sdhci!Ds, tap, Sdhci!Field(tap)}
  BY DEF SdhciInv, Sdhci!NoStaleTap
<1>4. CASE Sdhci!SetUhsSignaling
  <2>1. UNCHANGED <<sdPhy, tap, slot>>
    BY <1>4 DEF Sdhci!SetUhsSignaling
  <2> QED
    BY <1>2, <1>3, <2>1 DEF SdhciInv, Sdhci!NoStaleTap, Sdhci!Field
<1>5. CASE Sdhci!ExecuteTuning
  <2>1. sdPhy' = tap' /\ UNCHANGED slot
    BY <1>5 DEF Sdhci!ExecuteTuning
  <2> QED
    BY <1>2, <2>1 DEF SdhciInv, Sdhci!NoStaleTap
<1>6. ASSUME NEW a \in BOOLEAN, NEW bits, Sdhci!Reset(a, bits) PROVE SdhciInv' /\ SlotStep
  <2>1. UNCHANGED <<tap, slot>> /\ sdPhy' \in {Sdhci!Ds, Sdhci!Field(tap)}
    BY <1>6 DEF Sdhci!Reset, Sdhci!PhyFor
  <2> QED
    BY <1>2, <2>1 DEF SdhciInv, Sdhci!NoStaleTap, Sdhci!Field
<1>7. CASE Sdhci!EmmcReset \/ Sdhci!SdReset \/ Sdhci!SdioReset
  BY <1>6, <1>7 DEF Sdhci!EmmcReset, Sdhci!SdReset, Sdhci!SdioReset
<1>8. CASE Sdhci!VoltageSwitch
  <2>1. /\ slot' = [slot EXCEPT !.sw = "1v8", !.v18 = TRUE] /\ slot.power
        /\ UNCHANGED <<sdPhy, tap>>
    BY <1>8 DEF Sdhci!VoltageSwitch
  <2>2. SdSlotInv' /\ SlotStep
    BY <1>1, <2>1 DEF SdSlotInv, SlotStep
  <2> QED
    BY <1>3, <2>1, <2>2 DEF SdhciInv, Sdhci!NoStaleTap, Sdhci!Field
<1>9. CASE Sdhci!SetPowerOn
  <2>1. sdPhy' = Sdhci!Ds
    BY <1>9 DEF Sdhci!SetPowerOn
  <2>2. slot' = [power |-> TRUE, pads |-> "sdio", pulls |-> "up",
                 sw |-> IF slot.v18 THEN slot.sw ELSE "3v3", v18 |-> slot.v18]
    BY <1>1, <1>9 DEF Sdhci!SetPowerOn, Sdhci!SetupIo, Sdhci!SetupPad, Sdhci!VoltageRestore
  <2>3. SdSlotInv' /\ SlotStep
    BY <1>1, <2>2 DEF SdSlotInv, SlotStep
  <2> QED
    BY <2>1, <2>3 DEF SdhciInv, Sdhci!NoStaleTap, Sdhci!Ds
<1>10. CASE Sdhci!SetPowerOff
  <2>1. sdPhy' = Sdhci!Ds
    BY <1>10 DEF Sdhci!SetPowerOff
  <2>2. slot' = [power |-> FALSE, pads |-> "gpio", pulls |-> "down", sw |-> "off", v18 |-> FALSE]
    BY <1>1, <1>10 DEF Sdhci!SetPowerOff, Sdhci!SetupIo, Sdhci!SetupPad, Sdhci!VoltageRestore
  <2>3. SdSlotInv' /\ SlotStep
    BY <1>1, <2>2 DEF SdSlotInv, SlotStep
  <2> QED
    BY <2>1, <2>3 DEF SdhciInv, Sdhci!NoStaleTap, Sdhci!Ds
<1>11. CASE UNCHANGED sdhci
  <2>1. UNCHANGED <<sdPhy, tap, slot>>
    BY <1>11 DEF sdhci
  <2> QED
    BY <1>2, <1>3, <2>1 DEF SdhciInv, Sdhci!NoStaleTap, Sdhci!Field
<1> QED
  BY <1>4, <1>5, <1>7, <1>8, <1>9, <1>10, <1>11 DEF Sdhci!Next

-----------------------------------------------------------------------------
(* The two probes of the display, in any order and with any failure: the    *)
(* DSI link is never raised under an attached bridge, and both modes that   *)
(* are read back are ordered, for any line with three pixels of blanking    *)
(* and any position of its sync.                                            *)
THEOREM ProbesKeepTheLink == MCSpec => [](Probing!LinkLeftAlone /\ Probing!ModesMonotonic)
<1>1. MCInit => ProbeInv
  BY ProbeInit DEF MCInit
<1>2. ProbeInv /\ [MCNext]_all => ProbeInv'
  <2>1. [MCNext]_all => [Probing!Next]_probing
    BY DEF MCNext, all
  <2> QED
    BY <2>1, ProbeStep
<1>3. ProbeInv => Probing!LinkLeftAlone /\ Probing!ModesMonotonic
  BY DEF ProbeInv
<1> QED
  BY <1>1, <1>2, <1>3, PTL DEF MCSpec

(* Starvation that soph_check_underrun() reports in a 1280x720 session came *)
(* in that session, whatever a session before left in the flags.            *)
THEOREM StarvationIsReal == MCSpec => []Underrun!StarvationReal
<1>1. MCInit => StarveInv
  BY StarveInit DEF MCInit
<1>2. StarveInv /\ [MCNext]_all => StarveInv'
  <2>1. [MCNext]_all => [Underrun!Next]_underrun
    BY DEF MCNext, all
  <2> QED
    BY <2>1, StarveStep
<1>3. StarveInv => Underrun!StarvationReal
  BY DEF StarveInv
<1> QED
  BY <1>1, <1>2, <1>3, PTL DEF MCSpec

(* The WiFi card is enumerated only under the AIC driver's power-on, in     *)
(* whatever order the host's probe, its rescans and that driver run.        *)
THEOREM WifiAbsentUntilPowered == MCSpec => []Wifi!AbsentUntilPowered
<1>1. MCInit => WifiInv
  BY WifiInit DEF MCInit
<1>2. WifiInv /\ [MCNext]_all => WifiInv'
  <2>1. [MCNext]_all => [Wifi!Next]_wifi
    BY DEF MCNext, all
  <2> QED
    BY <2>1, WifiStep
<1>3. WifiInv => Wifi!AbsentUntilPowered
  BY DEF WifiInv
<1> QED
  BY <1>1, <1>2, <1>3, PTL DEF MCSpec

(* The SD hosts, for any number of taps: the delay line never holds the tap *)
(* of an earlier tuning, and a card is first powered at 3.3 V, whatever the *)
(* one before it had negotiated.                                            *)
THEOREM SdHostsSafe == MCSpec => []Sdhci!NoStaleTap /\ Sdhci!FreshCardAt3V3
<1>1. MCInit => SdhciInv
  BY SdhciInit DEF MCInit
<1>2. SdhciInv /\ [MCNext]_all => SdhciInv' /\ SlotStep
  <2>1. [MCNext]_all => [Sdhci!Next]_sdhci
    BY DEF MCNext, all
  <2> QED
    BY <2>1, SdhciStep
<1>3. SdhciInv => Sdhci!NoStaleTap
  BY DEF SdhciInv
<1>4. SlotStep => [/\ slot.power = FALSE /\ slot'.power => slot'.sw = "3v3"
                   /\ kind = "sd" => /\ slot'.pads = "sdio" <=> slot'.power
                                     /\ slot'.sw = "1v8" <=> slot'.v18]_Sdhci!vars
  BY DEF SlotStep
<1> QED
  BY <1>1, <1>2, <1>3, <1>4, PTL DEF MCSpec, Sdhci!FreshCardAt3V3
=============================================================================
