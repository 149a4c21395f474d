------------------------------ MODULE SophDrm ------------------------------
(***************************************************************************)
(* soph_drm: page flips and modesets over the DISP's shadowed registers,   *)
(* and the vblank that is polled.                                          *)
(*                                                                         *)
(* A register write lands in the shadow bank.  A frame start, which the    *)
(* hardware takes between any two writes, copies the bank unless the       *)
(* shadow mask is on; sclr_disp_reg_force_up copies it at once.  Linux     *)
(* runs on one CPU, so the poller interrupts a commit between two steps    *)
(* and never under flip_lock.                                              *)
(***************************************************************************)
EXTENDS Naturals, Sequences

CONSTANTS
  VideoFbs,   \* framebuffers for 1280x720, which the video layer scans
  GopFbs,     \* framebuffers for 640x360, which the GOP scans
  Hows(_),    \* the format and input CSC a framebuffer may be scanned in
  Pitch(_),   \* its pitches
  Park,       \* the driver's own small buffer
  ParkPitch,  \* its pitch and geometry
  NoHow,      \* no format: SCL_FMT_MAX, and the GOP's one format
  Oversample, \* SOPH_VBL_OVERSAMPLE: polls in a frame
  MaxDiv      \* the largest vbl_div set

ASSUME DrmAssumption ==
  /\ Park \notin VideoFbs \cup GopFbs
  /\ VideoFbs \cap GopFbs = {}
  /\ \A f \in VideoFbs : Hows(f) # {} /\ NoHow \notin Hows(f)
  /\ Oversample \in Nat \ {0} /\ MaxDiv \in Nat \ {0}

VARIABLES
  shadow, working, \* the two register banks
  mask,            \* the shadow mask
  status,          \* INTR_STATUS bit 0: a frame has started
  tgen,            \* the timing generator runs
  steady,          \* and has run all along
  known,           \* layer_fmt, layer_csc and layer_pitch_*
  mode,            \* the active mode: "off", "video" or "gop"
  front, old,      \* the committed plane state, and the one it replaces until
                   \* its flip is done
  event,           \* the commit's event is armed
  vblank,          \* drm_crtc_vblank_on has run and the poller's timer is on
  miss, gate, div, \* vbl_miss, vbl_gate, and vbl_div with 0 taken as 1
  polls,           \* polls since the last frame start, for the timer's rate
  commit           \* the steps still to come, under flip_lock or not, and whether
                   \* a frame has started since vblanks are on

vars == <<shadow, working, mask, status, tgen, steady, known, mode, front, old, event,
          vblank, miss, gate, div, polls, commit>>

Fbs == VideoFbs \cup GopFbs

Path(f) == IF f \in VideoFbs THEN "video" ELSE "gop"

\* A plane state as soph_video_layer works it out of its framebuffer.
Layers(f) == IF f \in GopFbs
               THEN {[addr |-> f, how |-> NoHow, pitch |-> ParkPitch]}
               ELSE {[addr |-> f, how |-> h, pitch |-> Pitch(f)] : h \in Hows(f)}

NoLayer == [addr |-> Park, how |-> NoHow, pitch |-> ParkPitch]

AllLayers == {NoLayer} \cup UNION {Layers(f) : f \in Fbs}

Addrs   == Fbs \cup {Park}
AllHows == {NoHow} \cup UNION {Hows(f) : f \in VideoFbs}
Pitches == {ParkPitch} \cup {Pitch(f) : f \in VideoFbs}

Banks == [addr : Addrs, how : AllHows, pitch : Pitches, bg : BOOLEAN,
          gop : BOOLEAN, gopaddr : Addrs]

Steps == {"vbloff", "gopoff", "gopon", "bgon", "bgoff", "parkgeo", "parkaddr",
          "forceup", "stage", "geo", "addr", "how", "layer", "gop", "clear",
          "arm", "tgen", "vblon", "hwdone"}

TypeOK ==
  /\ shadow \in Banks /\ working \in Banks
  /\ mask \in BOOLEAN /\ status \in BOOLEAN /\ tgen \in BOOLEAN
  /\ steady \in BOOLEAN
  /\ known \in [how : AllHows, pitch : Pitches]
  /\ mode \in {"off", "video", "gop"}
  /\ front \in AllLayers /\ old \in AllLayers
  /\ event \in BOOLEAN
  /\ vblank \in [on : BOOLEAN, timer : BOOLEAN]
  /\ miss \in 0 .. 2 * Oversample /\ gate \in 0 .. MaxDiv /\ div \in 1 .. MaxDiv
  /\ polls \in 0 .. Oversample
  /\ commit \in [todo : Seq(Steps), locked : BOOLEAN, lit : BOOLEAN]

Commit(todo) == [todo |-> todo, locked |-> FALSE, lit |-> FALSE]

Init ==
  /\ \E hidden \in BOOLEAN :
       shadow = [addr |-> Park, how |-> NoHow, pitch |-> ParkPitch,
                 bg |-> hidden, gop |-> FALSE, gopaddr |-> Park]
  /\ working = shadow
  /\ mask = FALSE /\ status = FALSE /\ tgen = TRUE /\ steady = TRUE
  /\ known = [how |-> NoHow, pitch |-> ParkPitch]
  /\ mode = "off" /\ front = NoLayer /\ old = NoLayer /\ event = FALSE
  /\ vblank = [on |-> FALSE, timer |-> FALSE]
  /\ miss = 0 /\ gate = 0 /\ div = 1 /\ polls = 0
  /\ commit = Commit(<<>>)

-----------------------------------------------------------------------------
At(step) == commit.todo # <<>> /\ Head(commit.todo) = step

\* The hardware starts a frame.
FrameStart ==
  /\ tgen
  /\ working' = IF mask THEN working ELSE shadow
  /\ status' = TRUE /\ polls' = 0
  /\ commit' = [commit EXCEPT !.lit = At("hwdone")]
  /\ UNCHANGED <<shadow, mask, tgen, steady, known, mode, front, old, event, vblank,
                 miss, gate, div>>

\* "some unrelated vendor producer exits, tgen_en goes to 0".
TgenStop ==
  /\ tgen
  /\ tgen' = FALSE /\ steady' = FALSE
  /\ UNCHANGED <<shadow, working, mask, status, known, mode, front, old, event,
                 vblank, miss, gate, div, polls, commit>>

\* The module parameter is written; soph_vbl_fn takes 0 as 1.
SetVblDiv(n) ==
  /\ div' = IF n = 0 THEN 1 ELSE n
  /\ UNCHANGED <<shadow, working, mask, status, tgen, steady, known, mode, front, old,
                 event, vblank, miss, gate, polls, commit>>

\* Mutant of VblFn: the count of misses goes on past a reported vblank.
VblFnMissKept ==
  /\ vblank.timer /\ ~commit.locked
  /\ tgen => polls < Oversample
  /\ polls' = IF tgen THEN polls + 1 ELSE polls
  /\ status' = FALSE
  /\ LET vbl  == status \/ miss + 1 > 2 * Oversample
         done == vbl /\ gate + 1 >= div
     IN  /\ miss' = IF status THEN 0 ELSE miss + 1
         /\ gate' = IF done THEN 0 ELSE IF vbl THEN gate + 1 ELSE gate
         /\ event' = (event /\ ~done)
         /\ old' = IF event /\ done THEN NoLayer ELSE old
  /\ UNCHANGED <<shadow, working, mask, tgen, steady, known, mode, front, vblank, div,
                 commit>>

\* Mutant of VblFn: no vblank without a frame start.
VblFnNoFallback ==
  /\ vblank.timer /\ ~commit.locked
  /\ tgen => polls < Oversample
  /\ polls' = IF tgen THEN polls + 1 ELSE polls
  /\ status' = FALSE
  /\ LET done == status /\ gate + 1 >= div
     IN  /\ gate' = IF done THEN 0 ELSE IF status THEN gate + 1 ELSE gate
         /\ event' = (event /\ ~done)
         /\ old' = IF event /\ done THEN NoLayer ELSE old
  /\ UNCHANGED <<shadow, working, mask, tgen, steady, known, mode, front, vblank, div,
                 miss, commit>>

\* soph_vbl_fn.  The timer runs Oversample times a frame.
VblFn ==
  /\ vblank.timer /\ ~commit.locked
  /\ tgen => polls < Oversample
  /\ polls' = IF tgen THEN polls + 1 ELSE polls
  /\ status' = FALSE
  /\ LET vbl  == status \/ miss + 1 > 2 * Oversample
         done == vbl /\ gate + 1 >= div
     IN  /\ miss' = IF vbl THEN 0 ELSE miss + 1
         /\ gate' = IF done THEN 0 ELSE IF vbl THEN gate + 1 ELSE gate
         /\ event' = (event /\ ~done)
         /\ old' = IF event /\ done THEN NoLayer ELSE old
  /\ UNCHANGED <<shadow, working, mask, tgen, steady, known, mode, front, vblank, div,
                 commit>>

\* Somebody waits for a vblank: soph_enable_vblank.
EnableVblank ==
  /\ vblank.on /\ ~vblank.timer /\ ~commit.locked
  /\ vblank' = [vblank EXCEPT !.timer = TRUE]
  /\ UNCHANGED <<shadow, working, mask, status, tgen, steady, known, mode, front, old,
                 event, miss, gate, div, polls, commit>>

\* Nobody has waited for a while: soph_disable_vblank.
DisableVblank ==
  /\ vblank.timer /\ ~event /\ commit.todo = <<>>
  /\ vblank' = [vblank EXCEPT !.timer = FALSE]
  /\ UNCHANGED <<shadow, working, mask, status, tgen, steady, known, mode, front, old,
                 event, miss, gate, div, polls, commit>>

-----------------------------------------------------------------------------
\* What the helpers run for a commit, in the order they run it: disable, the
\* plane's update, enable.
PipeDisable == <<"vbloff", "gopoff", "bgon", "parkgeo", "parkaddr", "forceup">>

PipeEnable(m) ==
  IF m = "video"
    THEN <<"bgoff", "gopoff", "geo", "addr", "how", "layer",
           "tgen", "forceup", "vblon", "hwdone">>
    ELSE <<"bgon", "parkgeo", "parkaddr", "gop", "gopoff", "forceup", "gopon",
           "tgen", "forceup", "vblon", "hwdone">>

\* A commit begins once the one before it is done, its flip included.
Begin(layer, m, todo) ==
  /\ commit.todo = <<>> /\ ~event
  /\ old' = front /\ front' = layer
  /\ mode' = m
  /\ commit' = Commit(todo)
  /\ UNCHANGED <<shadow, working, mask, status, tgen, steady, known, event, vblank,
                 miss, gate, div, polls>>

\* soph_pipe_check holds each mode to its framebuffers.
Flip(f) ==
  /\ mode = Path(f)
  /\ \E l \in Layers(f) : Begin(l, mode, <<"stage", "arm">>)

Modeset(f) ==
  \E l \in Layers(f) :
    Begin(l, Path(f), (IF mode = "off" THEN <<>> ELSE PipeDisable)
                        \o <<"stage", "arm">> \o PipeEnable(Path(f)))

TurnOff ==
  /\ mode # "off"
  /\ Begin(NoLayer, "off", PipeDisable \o <<"arm">>)

-----------------------------------------------------------------------------
Ahead == commit' = [commit EXCEPT !.todo = Tail(commit.todo)]

\* The poller, its counters and the commit's plane states stay.
NoVblank == UNCHANGED <<steady, mode, front, old, event, vblank, miss, gate, div, polls>>

\* Mutant of VideoStage: a new input CSC alone is taken for no change.
VideoStageKeepsCsc ==
  IF mode = "gop" THEN <<"gop">>
  ELSE IF known.pitch = front.pitch THEN <<"geo", "addr">>
  ELSE <<"layer">>

\* soph_video_stage and soph_gop_set: what a new plane state is written with.
VideoStage ==
  IF mode = "gop" THEN <<"gop">>
  ELSE IF known = [how |-> front.how, pitch |-> front.pitch] THEN <<"geo", "addr">>
  ELSE <<"layer">>

\* Mutant of PipeUpdate: the frame starts so far are forgotten first.
PipeUpdateClearsFirst ==
  /\ At("stage")
  /\ commit' = [commit EXCEPT !.todo = <<"clear">> \o VideoStage \o Tail(@),
                              !.locked = TRUE]
  /\ UNCHANGED <<shadow, working, mask, status, tgen, known>> /\ NoVblank

\* soph_pipe_update, under flip_lock.
PipeUpdate ==
  /\ At("stage")
  /\ commit' = [commit EXCEPT !.todo = VideoStage \o <<"clear">> \o Tail(@),
                              !.locked = TRUE]
  /\ UNCHANGED <<shadow, working, mask, status, tgen, known>> /\ NoVblank

\* A masked window opens; its writes follow and it closes.
OpenWindow ==
  /\ \E s \in {"parkgeo", "parkaddr", "geo", "addr", "how", "layer"} : At(s)
  /\ ~mask /\ mask' = TRUE
  /\ UNCHANGED <<shadow, working, status, tgen, known, commit>> /\ NoVblank

\* What the driver takes the layer to hold after soph_video_load, and after
\* soph_video_park: nothing that the next stage may keep.
Loaded == [how |-> front.how, pitch |-> front.pitch]
Parked == [known EXCEPT !.how = NoHow]

\* sclr_disp_set_mem has one window for the geometry and the pitches and one
\* for the addresses, sclr_disp_set_cfg a third for the format and the CSC,
\* sclr_disp_set_layer one for all of them.
CloseWindow ==
  /\ mask /\ mask' = FALSE
  /\ \/ At("parkgeo")  /\ shadow' = [shadow EXCEPT !.pitch = ParkPitch]
     \/ At("parkaddr") /\ shadow' = [shadow EXCEPT !.addr = Park]
     \/ At("geo")      /\ shadow' = [shadow EXCEPT !.pitch = front.pitch]
     \/ At("addr")     /\ shadow' = [shadow EXCEPT !.addr = front.addr]
     \/ At("how")      /\ shadow' = [shadow EXCEPT !.how = front.how]
     \/ At("layer")    /\ shadow' = [shadow EXCEPT !.addr = front.addr, !.how = front.how,
                                                   !.pitch = front.pitch]
  /\ known' = IF At("parkaddr") THEN Parked ELSE IF At("layer") THEN Loaded ELSE known
  /\ Ahead
  /\ UNCHANGED <<working, status, tgen>> /\ NoVblank

\* The other register writes, none of them masked.
WriteRegister ==
  /\ \/ At("gopoff") /\ shadow' = [shadow EXCEPT !.gop = FALSE]
     \/ At("gopon")  /\ shadow' = [shadow EXCEPT !.gop = TRUE]
     \/ At("bgon")   /\ shadow' = [shadow EXCEPT !.bg = TRUE]
     \/ At("bgoff")  /\ shadow' = [shadow EXCEPT !.bg = FALSE]
     \/ At("gop")    /\ shadow' = [shadow EXCEPT !.gopaddr = front.addr]
  /\ Ahead
  /\ UNCHANGED <<working, mask, status, tgen, known>> /\ NoVblank

ForceUp ==
  /\ At("forceup")
  /\ working' = shadow
  /\ Ahead
  /\ UNCHANGED <<shadow, mask, status, tgen, known>> /\ NoVblank

TgenEnable ==
  /\ At("tgen")
  /\ tgen' = TRUE
  /\ Ahead
  /\ UNCHANGED <<shadow, working, mask, status, known>> /\ NoVblank

\* sclr_disp_frame_start_poll forgets the frame starts so far; the lock ends.
ClearStatus ==
  /\ At("clear")
  /\ status' = FALSE
  /\ commit' = [commit EXCEPT !.todo = Tail(@), !.locked = FALSE]
  /\ UNCHANGED <<shadow, working, mask, tgen, known>> /\ NoVblank

\* The event waits for the poller while vblanks are on, and else goes at once.
ArmEvent ==
  /\ At("arm")
  /\ IF vblank.on
       THEN event' = TRUE /\ vblank' = [vblank EXCEPT !.timer = TRUE] /\ old' = old
       ELSE event' = FALSE /\ vblank' = vblank /\ old' = NoLayer
  /\ Ahead
  /\ UNCHANGED <<shadow, working, mask, status, tgen, steady, known, mode, front, miss,
                 gate, div, polls>>

VblankOff ==
  /\ At("vbloff")
  /\ vblank' = [on |-> FALSE, timer |-> FALSE]
  /\ Ahead
  /\ UNCHANGED <<shadow, working, mask, status, tgen, steady, known, mode, front, old,
                 event, miss, gate, div, polls>>

VblankOn ==
  /\ At("vblon")
  /\ vblank' = [vblank EXCEPT !.on = TRUE]
  /\ Ahead
  /\ UNCHANGED <<shadow, working, mask, status, tgen, steady, known, mode, front, old,
                 event, miss, gate, div, polls>>

\* The bridge's enable takes many frames; then the commit is done, and the
\* helpers wait for a vblank before they let go of the old framebuffer.
HwDone ==
  /\ At("hwdone")
  /\ tgen => commit.lit /\ (vblank.timer => polls > 0)
  /\ vblank' = [vblank EXCEPT !.timer = TRUE]
  /\ commit' = [commit EXCEPT !.todo = Tail(@), !.lit = FALSE]
  /\ UNCHANGED <<shadow, working, mask, status, tgen, steady, known, mode, front,
                 old, event, miss, gate, div, polls>>

CommitStep ==
  \/ PipeUpdate \/ OpenWindow \/ CloseWindow \/ WriteRegister \/ ForceUp
  \/ TgenEnable \/ ClearStatus \/ ArmEvent \/ VblankOff \/ VblankOn \/ HwDone

Next ==
  \/ FrameStart \/ TgenStop \/ VblFn \/ EnableVblank \/ DisableVblank
  \/ \E n \in 0 .. MaxDiv : SetVblDiv(n)
  \/ \E f \in Fbs : Flip(f) \/ Modeset(f)
  \/ TurnOff \/ CommitStep

Spec == Init /\ [][Next]_vars

\* Frames go on while the generator runs, the timer fires while it is on, and
\* a commit that has begun runs to its end.
FairSpec == Spec /\ WF_vars(FrameStart) /\ WF_vars(VblFn) /\ WF_vars(CommitStep)

-----------------------------------------------------------------------------
Reads == {working.addr} \cup (IF working.gop THEN {working.gopaddr} ELSE {})

\* "the first moment the old buffer is no longer being read": while the
\* generator runs, the display reads the committed framebuffer, or the one
\* before it until its flip is done, or the driver's own; never one that the
\* compositor has back or has freed.
ReadsOnlyHeld == steady => Reads \subseteq {Park, front.addr, old.addr}

\* "format, CSC, pitches and addresses all latch at the same frame start and
\* no frame scans one buffer in the other's format" (soph_video_stage): while
\* the video layer is seen, what is scanned is one committed plane state.
ScansOnePlaneState ==
  steady /\ ~working.bg =>
    [addr |-> working.addr, how |-> working.how, pitch |-> working.pitch]
      \in {front, old}

\* "report a vblank anyway so the compositor cannot stall": an armed flip is
\* completed, whatever vbl_div is set to and though the generator stops.
FlipsComplete == event ~> ~event

-----------------------------------------------------------------------------
\* "a frame start the poller reports is always one that came after the write",
\* also once the generator has been stopped and a modeset has started it again.
ReadsOnlyHeldAfterStops == tgen => Reads \subseteq {Park, front.addr, old.addr}
=============================================================================
