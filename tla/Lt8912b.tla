------------------------------ MODULE Lt8912b ------------------------------
(***************************************************************************)
(* lt8912b-bringup, the hand-loaded display bring-up driver: probe and     *)
(* remove, the commands of its debugfs files, /dev/badgefb and the         *)
(* scroller, a delayed work that paints the scanout buffer and queues      *)
(* itself again. Nothing in the driver takes a lock: the writers of        *)
(* debugfs files, the work and the unbinding run side by side. (debugfs    *)
(* waits, in debugfs_remove_recursive, for the writers inside a file.)     *)
(*                                                                         *)
(* The register sequence of a bring-up is one step; of the registers only  *)
(* the ones whose writing depends on what is there are kept: the clock     *)
(* gate it takes or gives back and DSI_MAC_EN, whose set bits are cleared  *)
(* by writing them.                                                        *)
(***************************************************************************)
EXTENDS Naturals, FiniteSets

CONSTANTS
    Writers,        \* the processes that write debugfs files
    MaxBringups     \* bound: bring-ups in one behaviour

VARIABLES
    drv,    \* [bound, g, fb, leaving: the step of bringup_remove]
    wr,     \* [Writers -> what the writer is doing]
    scroll, \* [on: scroll_on, work: "idle" | "queued" | "running" | "requeue"]
    map,    \* a mapping of /dev/badgefb exists
    hw,     \* [clk: disp-src's enable count, gated: g->disp_src_gated, mac: DSI_MAC_EN]
    runs    \* bring-ups so far

vars == <<drv, wr, scroll, map, hw, runs>>

Idle == \A w \in Writers : wr[w] = "idle"
HS == "hs"

-----------------------------------------------------------------------------
(* bringup_probe(): the clocks are held, the framebuffer may not be had. *)
Probe ==
    /\ ~drv.bound
    /\ \E fb \in BOOLEAN :
        drv' = [bound |-> TRUE, g |-> TRUE, fb |-> IF fb THEN "live" ELSE "none", leaving |-> "no"]
    /\ hw' = [hw EXCEPT !.clk = 1, !.gated = FALSE]
    /\ UNCHANGED <<wr, scroll, map, runs>>

(* dsi_set_mode(): a mode that is on is cleared by writing it again. *)
Written(reg, mode) == IF reg = mode THEN "idle" ELSE mode
SetModeIdle(reg) == IF reg # "idle" THEN Written(reg, reg) ELSE reg

SetModeHs(reg) == Written(IF reg # "idle" THEN Written(reg, reg) ELSE reg, HS)

(* do_bringup(): the gate of clk_disp_src follows the parameter            *)
(* disp_src_off as it is now, once.                                        *)

Gate(off) ==
    IF off /\ ~hw.gated THEN hw' = [hw EXCEPT !.clk = @ - 1, !.gated = TRUE]
    ELSE IF ~off /\ hw.gated THEN hw' = [hw EXCEPT !.clk = @ + 1, !.gated = FALSE]
    ELSE UNCHANGED hw

(* bringup_write: everything up to disp_tgen_enable() ... One bring-up at  *)
(* a time: the driver would let two interleave their register writes.      *)
BringUp(w) ==
    /\ drv.g /\ wr[w] = "idle" /\ drv.leaving = "no" /\ runs < MaxBringups
    /\ \A x \in Writers : wr[x] # "mac"
    /\ \E off \in BOOLEAN : Gate(off)
    /\ wr' = [wr EXCEPT ![w] = "mac"]
    /\ runs' = runs + 1
    /\ UNCHANGED <<drv, scroll, map>>

(* ... and the MAC: with lp11, LP-11 is forced while the mode goes idle. *)
StartMac(w) ==
    /\ wr[w] = "mac"
    /\ \E lp11 \in BOOLEAN :
        hw' = [hw EXCEPT !.mac = SetModeHs(IF lp11 THEN SetModeIdle(@) ELSE @)]
    /\ wr' = [wr EXCEPT ![w] = "idle"]
    /\ UNCHANGED <<drv, scroll, map, runs>>

-----------------------------------------------------------------------------
(* The scroller. schedule_delayed_work does nothing when it is queued.     *)

HasFb == drv.g /\ drv.fb # "none"
Queued(s) == [s EXCEPT !.work = CASE @ = "idle" -> "queued"
                                  [] @ = "running" -> "requeue"
                                  [] OTHER -> @]

(* scroll_fn(): the checks and the load of g are one read ... *)
ScrollFn ==
    /\ scroll.work = "queued"
    /\ scroll' = [scroll EXCEPT !.work = IF scroll.on /\ HasFb THEN "running" ELSE "idle"]
    /\ UNCHANGED <<drv, wr, map, hw, runs>>

(* ... then scroll_render(), and the work queues itself again unless a     *)
(* cancel is waiting for it.                                               *)
Cancelling == drv.leaving = "cancel" \/ \E w \in Writers : wr[w] \in {"cancel", "fillcancel", "mapcancel"}

ScrollFnEnd ==
    /\ scroll.work \in {"running", "requeue"}
    /\ scroll' = [scroll EXCEPT !.work = IF Cancelling THEN "idle" ELSE "queued"]
    /\ UNCHANGED <<drv, wr, map, hw, runs>>

(* cancel_delayed_work_sync(): the queued work goes, the running one ends  *)
(* first.                                                                  *)
CancelSync ==
    /\ scroll.work \notin {"running", "requeue"}
    /\ scroll' = [scroll EXCEPT !.work = "idle"]

(* `echo 1 > scroll` *)
ScrollStart(w) ==
    /\ wr[w] = "idle" /\ HasFb /\ drv.leaving = "no"
    /\ scroll' = Queued([scroll EXCEPT !.on = TRUE])
    /\ UNCHANGED <<drv, wr, map, hw, runs>>

(* `echo 0 > scroll`, `fbfill`, an mmap() of /dev/badgefb: scroll_on is    *)
(* cleared, then the work is cancelled, then the buffer is filled or       *)
(* mapped. The device node is gone once misc_deregister() ran, an open     *)
(* file is not.                                                            *)
Stop(w) ==
    /\ wr[w] = "idle" /\ HasFb
    /\ \E to \in {"cancel", "fillcancel", "mapcancel"} :
        /\ to \in {"cancel", "fillcancel"} => drv.leaving = "no"
        /\ to = "mapcancel" => ~map /\ drv.leaving = "no"
        /\ wr' = [wr EXCEPT ![w] = to]
    /\ scroll' = [scroll EXCEPT !.on = FALSE]
    /\ UNCHANGED <<drv, map, hw, runs>>

StopCancel(w) ==
    /\ wr[w] \in {"cancel", "fillcancel", "mapcancel"}
    /\ CancelSync
    /\ wr' = [wr EXCEPT ![w] = CASE @ = "cancel" -> "idle"
                                 [] @ = "fillcancel" -> "fill"
                                 [] OTHER -> "map"]
    /\ UNCHANGED <<drv, map, hw, runs>>

(* fbfill's memset, or dma_mmap_coherent() and its fallback, for the       *)
(* driver there is now; without one it is a null pointer's oops.           *)
Touch(w) ==
    /\ wr[w] \in {"fill", "map"}
    /\ map' = (map \/ (wr[w] = "map" /\ drv.g))
    /\ wr' = [wr EXCEPT ![w] = "idle"]
    /\ UNCHANGED <<drv, scroll, hw, runs>>

Unmap ==
    /\ map /\ map' = FALSE
    /\ UNCHANGED <<drv, wr, scroll, hw, runs>>

-----------------------------------------------------------------------------
(* bringup_remove(). debugfs_remove_recursive() lets no new writer in and   *)
(* waits for the ones inside; misc_deregister() waits for nobody, and an   *)
(* mmap() of an open /dev/badgefb goes on beside what follows.             *)
RemoveFiles ==
    /\ drv.bound /\ drv.leaving = "no"
    /\ \A w \in Writers : wr[w] \in {"idle", "mapcancel", "map"}
    /\ drv' = [drv EXCEPT !.leaving = "cancel", !.g = FALSE]
    /\ scroll' = [scroll EXCEPT !.on = IF drv.fb = "live" THEN FALSE ELSE @]
    /\ UNCHANGED <<wr, map, hw, runs>>

(* Mutant: the buffer is freed while the work may still run. *)
RemoveFreeEarly ==
    /\ drv.leaving = "cancel"
    /\ drv' = [drv EXCEPT !.leaving = "free", !.fb = "none"]
    /\ UNCHANGED <<scroll, wr, map, hw, runs>>

RemoveCancel ==
    /\ drv.leaving = "cancel"
    /\ CancelSync
    /\ drv' = [drv EXCEPT !.leaving = "free", !.fb = "none"]     \* dma_free_coherent
    /\ UNCHANGED <<wr, map, hw, runs>>

(* clk_bulk_disable_unprepare(): every clock, the gated one included; the  *)
(* clock core refuses to go below zero.                                    *)
RemoveClocks ==
    /\ drv.leaving = "free"
    /\ hw' = [hw EXCEPT !.clk = IF @ > 0 THEN @ - 1 ELSE @]
    /\ drv' = [drv EXCEPT !.bound = FALSE, !.leaving = "no"]
    /\ UNCHANGED <<wr, scroll, map, runs>>

-----------------------------------------------------------------------------
Init ==
    /\ drv = [bound |-> FALSE, g |-> FALSE, fb |-> "none", leaving |-> "no"]
    /\ wr = [w \in Writers |-> "idle"]
    /\ scroll = [on |-> FALSE, work |-> "idle"]
    /\ map = FALSE /\ runs = 0
    /\ hw \in [clk : {0}, gated : {FALSE}, mac : {"idle", HS}]   \* U-Boot may leave the MAC on

Next ==
    \/ Probe \/ ScrollFn \/ ScrollFnEnd \/ Unmap
    \/ RemoveFiles \/ RemoveCancel \/ RemoveClocks
    \/ \E w \in Writers : BringUp(w) \/ StartMac(w) \/ ScrollStart(w) \/ Stop(w) \/ StopCancel(w) \/ Touch(w)

-----------------------------------------------------------------------------
(* The work paints only a framebuffer the driver still has: unbinding      *)
(* waits for a scroller that queues itself again and that any writer may   *)
(* have started in the meantime.                                           *)
ScrollPaintsLive == scroll.work \in {"running", "requeue"} => drv.fb = "live"

(* However often and with whatever parameters the bring-up is run, the     *)
(* driver holds disp-src exactly when it has not gated it.                 *)
DispSrcBalanced == drv.bound => hw.clk = (IF hw.gated THEN 0 ELSE 1)

(* A bring-up leaves the DSI MAC sending, the second as the first and      *)
(* whatever mode it found.                                                 *)
MacRuns == Idle /\ runs > 0 => hw.mac = HS

(* A stop holds: once every command is done and the last one left          *)
(* scroll_on clear, the work does not paint over a fill or under a mapping, *)
(* though it may have been queueing itself again meanwhile.                *)
StopHolds == Idle /\ drv.leaving = "no" /\ ~scroll.on => scroll.work \notin {"running", "requeue"}
=============================================================================
