---------------------------- MODULE SophUnderrun ----------------------------
(***************************************************************************)
(* soph_drm's judgement of DISP starvation: latching status flags, sampled *)
(* once a second by the vblank poller and cleared once per enable, while   *)
(* enables change the pixel path and flips change the layer's format       *)
(* (sophdrm.c). The module SophDrm has the flips themselves.               *)
(***************************************************************************)
EXTENDS Naturals

CONSTANTS SECOND    \* vblanks between two looks (60)

VARIABLES
    path,       \* "off", "gop" or "native": what is enabled
    fmt,        \* layer_fmt: "none", "RGB888" or "NV12"
    bw, osd, err,       \* the hardware's flags: bw_fail, osd_bw_fail, a chroma error
    staged, refill,     \* layer_staged, layer_refill
    stale, errOld,      \* dbg_stale, chroma_err_old
    starving, chromaBad,
    count,      \* vbl_count
    since, fresh,   \* bw_fail, a chroma error, came since the flags were last known clean
    blind       \* a look was taken before this session's first frame start

hw == <<bw, osd, err>>
layer == <<fmt, staged, refill>>
judged == <<starving, chromaBad>>
hist == <<since, fresh, blind>>
vars == <<path, layer, hw, stale, errOld, judged, count, hist>>

-----------------------------------------------------------------------------
(* The hardware. A video layer that is not fed (the GOP carries the plane) *)
(* raises bw_fail all the time; flags stay until they are cleared.         *)
Latch ==
    /\ \/ path = "native" /\ ~bw /\ bw' = TRUE /\ since' = ~stale /\ UNCHANGED <<osd, err, fresh>>
       \/ path = "gop" /\ ~bw /\ bw' = TRUE /\ UNCHANGED <<osd, err, since, fresh>>
       \/ path = "gop" /\ ~osd /\ osd' = TRUE /\ UNCHANGED <<bw, err, since, fresh>>
       \/ /\ path = "native" /\ fmt = "NV12" /\ ~err
          /\ err' = TRUE /\ fresh' = ~stale /\ UNCHANGED <<bw, osd, since>>
    /\ UNCHANGED <<path, layer, stale, errOld, judged, count, blind>>

-----------------------------------------------------------------------------
(* soph_check_underrun(), on the flags (b, o, e) it reads. The GOP's own   *)
(* flag is cleared by the read.                                            *)
Check(b, o, e, old, newLayer) ==
    IF path = "gop"
    THEN /\ starving' = o /\ UNCHANGED chromaBad
         /\ bw' = FALSE /\ osd' = FALSE /\ err' = FALSE
    ELSE /\ starving' = b
         /\ bw' = b /\ osd' = o /\ err' = e
         /\ \E empty \in BOOLEAN :
               LET errs == e /\ ~old
               IN  chromaBad' = IF fmt # "NV12" \/ (newLayer /\ ~errs) THEN chromaBad
                                ELSE empty \/ errs

(* A vblank of soph_vbl_fn() with the flags as they are then: every        *)
(* SECONDth one looks.                                                     *)
Vblank(b, o, e, old, newLayer, unsure) ==
    IF count + 1 < SECOND
    THEN count' = count + 1 /\ bw' = b /\ osd' = o /\ err' = e /\ UNCHANGED <<judged, blind>>
    ELSE count' = 0 /\ Check(b, o, e, old, newLayer) /\ blind' = (blind \/ unsure)

(* Mutant: what was old before the flags were cleared stays old. *)
FrameStartKeepsOld ==
    /\ path # "off"
    /\ refill' = staged /\ staged' = FALSE /\ stale' = FALSE
    /\ IF stale THEN Vblank(FALSE, FALSE, FALSE, errOld, staged, FALSE)
       ELSE Vblank(bw, osd, err, errOld, staged, FALSE)
    /\ UNCHANGED <<errOld, path, fmt, since, fresh>>

(* The poller sees a frame start. The first one since the enable clears    *)
(* every flag.                                                             *)
FrameStart ==
    /\ path # "off"
    /\ refill' = staged /\ staged' = FALSE
    /\ IF stale
       THEN /\ stale' = FALSE /\ errOld' = FALSE
            /\ Vblank(FALSE, FALSE, FALSE, FALSE, staged, FALSE)
       ELSE Vblank(bw, osd, err, errOld, staged, FALSE) /\ UNCHANGED <<stale, errOld>>
    /\ UNCHANGED <<path, fmt, since, fresh>>

(* None shows for two frames: a vblank without one. *)
Fallback ==
    /\ path # "off"
    /\ Vblank(bw, osd, err, errOld, refill, stale)
    /\ UNCHANGED <<path, layer, stale, errOld, since, fresh>>

-----------------------------------------------------------------------------
(* soph_video_load(): a new format restarts the chroma judgement and       *)
(* clears nothing.                                                         *)
Load(f) ==
    /\ IF f # fmt THEN chromaBad' = FALSE /\ errOld' = err ELSE UNCHANGED <<chromaBad, errOld>>
    /\ fresh' = (fresh /\ f = fmt)
    /\ fmt' = f /\ staged' = TRUE
    /\ UNCHANGED hw

(* A flip that is not to new addresses alone. *)
Flip ==
    /\ path = "native"
    /\ \E f \in {"RGB888", "NV12"} : Load(f)
    /\ UNCHANGED <<path, refill, stale, starving, count, since, blind>>

(* soph_pipe_enable(): the layer is loaded or parked, and everything is    *)
(* judged afresh.                                                          *)
Enable ==
    /\ path = "off"
    /\ \/ /\ path' = "native"
          /\ \E f \in {"RGB888", "NV12"} :
                fmt' = f /\ staged' = TRUE /\ errOld' = (IF f # fmt THEN err ELSE errOld)
       \/ path' = "gop" /\ fmt' = "none" /\ UNCHANGED <<staged, errOld>>
    /\ starving' = FALSE /\ chromaBad' = FALSE /\ stale' = TRUE
    /\ since' = FALSE /\ fresh' = FALSE /\ blind' = FALSE
    /\ UNCHANGED <<refill, hw, count>>

(* soph_pipe_disable(): the poller is stopped, the layer parked. *)
Disable ==
    /\ path # "off" /\ path' = "off" /\ fmt' = "none"
    /\ UNCHANGED <<staged, refill, hw, stale, errOld, judged, count, hist>>

Init ==
    /\ path = "off" /\ fmt = "none" /\ bw \in BOOLEAN /\ osd = FALSE /\ err = FALSE
    /\ staged = FALSE /\ refill = FALSE /\ stale = FALSE /\ errOld = FALSE
    /\ starving = FALSE /\ chromaBad = FALSE /\ count = 0
    /\ since = FALSE /\ fresh = FALSE /\ blind = FALSE

Next == Latch \/ FrameStart \/ Fallback \/ Flip \/ Enable \/ Disable

(* The display runs, and the poller sees its frames. *)
Fairness == WF_vars(FrameStart)

-----------------------------------------------------------------------------
(* "a switch from 640x360 to 1280x720 would report the GOP session as      *)
(* starvation. So the poller clears all the flags once": what is reported  *)
(* in a 1280x720 session happened in it - unless the look came with a      *)
(* vblank that had no frame start, before the first one.                   *)
StarvationReal == path = "native" /\ starving => since \/ blind

(* "a display that really starves latches the flag again on a later frame  *)
(* and is reported within a second", and a flip to another format never    *)
(* erases a bw_fail before it was sampled.                                 *)
StarvationReported == path = "native" /\ since ~> starving \/ path = "off"

(* An error of the chroma line buffer that latches on an NV12 layer is     *)
(* reported, errors of before the enable, which the clear forgot, not in   *)
(* its way - unless the layer's format changes first.                      *)
ChromaReported == path = "native" /\ fresh ~> chromaBad \/ ~fresh \/ path = "off"
=============================================================================
