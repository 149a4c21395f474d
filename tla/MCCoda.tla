------------------------------- MODULE MCCoda -------------------------------
(***************************************************************************)
(* coda-cube's frame loop (CodaCube), the stream it writes (CodaStream) and *)
(* its NAL units (CodaNal). Each is a part of its own: a behaviour is one   *)
(* of them. MCVideo runs them; the other two parts of coda-cube run with    *)
(* MCSophIonMmap.                                                           *)
(***************************************************************************)
EXTENDS CodaCube, TLC

CONSTANTS
    U16, RenderWrap, MAXREF, Ks, Extras, StreamFrames, Bytes, WORD, MaxLen

(* Counters wide enough: a render's count starts over before it is half of  *)
(* the way round (16000 of 65536), and the references are few.              *)
ASSUME StreamAssumption ==
    /\ Ks \subseteq Nat /\ Extras \subseteq Nat /\ MAXREF \in Nat
    /\ U16 \in Nat /\ RenderWrap \in Nat \ {0}
    /\ 12 <= U16 /\ 4 * RenderWrap <= U16 /\ 2 * (RenderWrap + MAXREF) <= U16

ASSUME NalAssumption == Bytes \subseteq Nat /\ WORD \in Nat \ {0} /\ MaxLen \in Nat

VARIABLES
    which,  \* the program that runs
    pages, smooth, extra, page, tN, tK, lt, maxLt, st, ref, tLast, pic,
    rbsp, nI, nZ, out

Stream == INSTANCE CodaStream WITH
    K <- pages, n <- tN, k <- tK, last <- tLast, MaxFrames <- StreamFrames
Nal == INSTANCE CodaNal WITH
    i <- nI, z <- nZ

stream == <<pages, smooth, extra, page, tN, tK, lt, maxLt, st, ref, tLast, pic>>
nal == <<rbsp, nI, nZ, out>>
all == <<which, vars, stream, nal>>

(* Every program but the one that runs stays in one initial state. *)
MCInit ==
    /\ which \in {"cube", "stream", "nal"}
    /\ Init
    /\ which # "cube" => route = "shm" /\ ~pipeline /\ paceFrame
    /\ Stream!Init
    /\ which # "stream" => pages = 1 /\ smooth = 0 /\ extra = 0
    /\ IF which = "nal" THEN Nal!Init ELSE Nal!Start(<<>>)

(* A step of the program that runs. *)
MCNext ==
    /\ UNCHANGED which
    /\ \/ /\ which = "cube" /\ Next
          /\ UNCHANGED <<stream, nal>>
       \/ /\ which = "stream" /\ Stream!Next
          /\ UNCHANGED <<vars, nal>>
       \/ /\ which = "nal" /\ Nal!Next
          /\ UNCHANGED <<vars, stream>>
       \/ /\ which # "cube" \/ (route = "zero" /\ Starved)
          /\ UNCHANGED <<vars, stream, nal>>

MCSpec ==
    /\ MCInit /\ [][MCNext]_all
    /\ WF_vars(which = "cube" /\ Main) /\ WF_vars(which = "cube" /\ Decode)
    /\ WF_vars(which = "cube" /\ VdecDecode)

-----------------------------------------------------------------------------
(* A decoder can read the stream coda-cube writes, over the wraps of its    *)
(* counters: every page stays a reference and the SPS has room for all of   *)
(* them, frame_num follows the standard's rule from picture to picture,     *)
(* picture order goes back only where the default mode's count starts over, *)
(* a B-picture predicts from its frame's render, and a NAL unit reads back  *)
(* as its payload and has no start code inside.                             *)
StreamDecodes ==
    /\ Stream!PagesKept /\ Stream!FrameNumsFollow
    /\ Stream!PicturesAdvance /\ Stream!SmoothsTheRender
    /\ Nal!ReadsBack /\ Nal!NoStartCode

=============================================================================
