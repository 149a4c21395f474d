----------------------------- MODULE CodaStream -----------------------------
(***************************************************************************)
(* The H.264 headers coda-cube writes, against the rules a decoder reads   *)
(* them by.  The black IDR and the K atlas pages become long-term          *)
(* references; then every frame is one render (a P-picture into the pages) *)
(* and, with --smooth, one B-picture (diag) or two (hv) that read the      *)
(* picture before them.  frame_num and pic_order_cnt_lsb are 16 bits wide  *)
(* and the stream never sends another IDR, so both wrap in a long run.     *)
(*                                                                         *)
(* The decoder's side (decoding order, picture order count type 0, the     *)
(* sliding window and the memory management operations) is external; only  *)
(* what these headers use of it is here.                                   *)
(***************************************************************************)
EXTENDS Integers, FiniteSets, Sequences

CONSTANTS U16,        \* 2^16: MaxFrameNum and MaxPicOrderCntLsb
          RenderWrap, \* 16000: a non-reference render's count starts over
          MAXREF,     \* 16: the most reference frames a stream may have
          Ks,         \* --pages
          Extras,     \* --dpb-extra
          MaxFrames   \* bound: frames of a run

VARIABLES K, smooth, extra,  \* the options of the run
          page,              \* pages sent
          n, k,              \* frame number, and picture of the frame (0 = the render)
          lt, maxLt,         \* long-term frame indices held, and the largest allowed
          st,                \* short-term references, in decoding order
          ref,               \* the last reference picture: frame_num and poc lsb
          last,              \* poc of the last picture, from ref's on
          pic                \* the last picture, as the decoder understood it

vars == <<K, smooth, extra, page, n, k, lt, maxLt, st, ref, last, pic>>
options == <<K, smooth, extra>>

(***************************************************************************)
(* The decoder.                                                            *)
(***************************************************************************)
\* How far lsb is from the last reference's picture order count: the nearest
\* of the two ways round.
PocFromRef(lsb) ==
    LET d == lsb - ref.lsb
    IN  IF d <= - (U16 \div 2) THEN d + U16 ELSE IF d > U16 \div 2 THEN d - U16 ELSE d

FrameNumWrap(f, fn) == IF f > fn THEN f - U16 ELSE f

\* max_num_ref_frames of the SPS.
MaxNumRefFrames == 1 + K + smooth + extra

\* The sliding window: a full buffer loses its oldest short-term picture.
SlidingWindow(fn) ==
    IF Len(st) + Cardinality(lt) >= MaxNumRefFrames /\ st # << >>
    THEN LET oldest == CHOOSE i \in DOMAIN st : \A j \in DOMAIN st :
                         FrameNumWrap(st[i], fn) <= FrameNumWrap(st[j], fn)
         IN  SubSeq(st, 1, oldest - 1) \o SubSeq(st, oldest + 1, Len(st))
    ELSE st

\* abs_diff_pic_num 1: the short-term picture whose PicNum is frame_num - 1, or
\* 0 when there is none.
Previous(fn) ==
    LET hits == {i \in DOMAIN st : FrameNumWrap(st[i], fn) = fn - 1}
    IN  IF hits = {} THEN 0 ELSE CHOOSE i \in hits : TRUE

\* A picture is decoded: frame_num fn, poc lsb, whether it is a reference,
\* whether it is a B-picture.
Decoded(fn, lsb, isRef, isB) ==
    /\ pic' = [fn |-> fn, after |-> ref.fn, poc |-> PocFromRef(lsb), prev |-> last,
               reads |-> IF isB THEN Previous(fn) = Len(st) /\ st # << >> ELSE TRUE]
    /\ IF isRef
       THEN /\ st' = Append(SlidingWindow(fn), fn)
            /\ ref' = [fn |-> fn, lsb |-> lsb]
            /\ last' = 0
       ELSE /\ last' = PocFromRef(lsb)
            /\ UNCHANGED <<st, ref>>

-----------------------------------------------------------------------------
(***************************************************************************)
(* The encoder.                                                            *)
(***************************************************************************)
\* The SPS, the PPS and the black IDR, a long-term reference with index 0.
Init ==
    /\ K \in Ks /\ smooth \in 0..2 /\ extra \in Extras
    /\ K + smooth <= MAXREF - 2
    /\ 1 + K + smooth + extra <= MAXREF
    /\ page = 0 /\ n = 0 /\ k = 0
    /\ lt = {0} /\ maxLt = 0
    /\ st = << >>
    /\ ref = [fn |-> 0, lsb |-> 0]
    /\ last = 0
    /\ pic = [fn |-> 1, after |-> 0, poc |-> 1, prev |-> 0, reads |-> TRUE]

\* Page p: frame_num p, poc 2p; page 1 first raises MaxLongTermFrameIdx to K, and
\* every page makes itself long-term picture p.
PcmPage ==
    /\ page < K
    /\ LET p == page + 1
       IN  /\ pic' = [fn |-> p, after |-> ref.fn, poc |-> PocFromRef(2 * p), prev |-> last, reads |-> TRUE]
           /\ maxLt' = IF p = 1 THEN K ELSE maxLt
           /\ lt' = IF p <= maxLt' THEN lt \cup {p} ELSE lt
           /\ ref' = [fn |-> p, lsb |-> 2 * p]
           /\ page' = p
    /\ last' = 0
    /\ UNCHANGED <<options, n, k, st>>

\* frame_num of frame n's render: a non-reference render keeps the one after the
\* pages, reference pictures count on.
RenderFrameNum == IF smooth # 0 THEN (K + 1 + smooth * n) % U16 ELSE 1 + K

\* Mutant: the count of a non-reference render does not start over.
RenderPocNoWrap == IF smooth # 0 THEN (2 * (K + 1) + 6 * n) % U16
                   ELSE (2 * (n + 1 + K)) % U16

\* poc of frame n's render.
RenderPoc == IF smooth # 0 THEN (2 * (K + 1) + 6 * n) % U16
             ELSE (2 * ((n % RenderWrap) + 1 + K)) % U16

\* frame_num of the frame's k-th B-picture.
BpicFrameNum == (RenderFrameNum + k) % U16

\* The render, then the B-pictures; only hv's first one is a reference.
GenFrame ==
    /\ page = K /\ n < MaxFrames
    /\ IF k = 0 THEN Decoded(RenderFrameNum, RenderPoc, smooth # 0, FALSE)
       ELSE Decoded(BpicFrameNum, (RenderPoc + 2 * k) % U16, smooth = 2 /\ k = 1, TRUE)
    /\ IF k < smooth THEN k' = k + 1 /\ n' = n ELSE k' = 0 /\ n' = n + 1
    /\ UNCHANGED <<options, page, lt, maxLt>>

Next == PcmPage \/ GenFrame

-----------------------------------------------------------------------------
\* Every page stays a reference for the whole run, whatever the sliding window
\* drops, and the references never outnumber what the SPS allows: a render may
\* name any page (encode_frame's reordering commands) at any time.
PagesKept == /\ lt = 0..page
             /\ Cardinality(lt) + Len(st) <= MaxNumRefFrames

\* gaps_in_frame_num is not allowed: every picture's frame_num is one more than
\* the last reference picture's, across the 16-bit wrap and for every --smooth.
FrameNumsFollow == pic.fn = (pic.after + 1) % U16

\* Picture order: every picture is later than all references, and later than the
\* picture before it although the counts wrap, but for one place: without --smooth
\* the render's count starts over every RenderWrap frames, with the first frame's
\* value. A decoder that reordered would see it go back there; vd_open() asks for
\* the few buffers that leave reordering off.
PicturesAdvance ==
    /\ pic.poc > 0
    /\ pic.poc > pic.prev \/ (smooth = 0 /\ pic.poc = 2)

\* A smoothing B-picture finds the picture decoded just before it: it is still
\* in the buffer and abs_diff_pic_num 1 selects it.
SmoothsTheRender == pic.reads
=============================================================================
