------------------------------ MODULE CodaCube ------------------------------
(***************************************************************************)
(* coda-cube's frame loop on the badge (coda-cube.c, present-dmabuf.c).    *)
(*                                                                         *)
(* Three parties share the decoder's frame buffers:                        *)
(*   - the VDEC driver (external) writes a picture into a free buffer,     *)
(*     queues it, hands it out with GET_FRAME and gets it back with        *)
(*     RELEASE_FRAME;                                                      *)
(*   - coda-cube: the main thread generates, presents and paces; the       *)
(*     decoder ioctls run in the same thread or, with --pipeline, in a     *)
(*     worker;                                                             *)
(*   - sway (external) shows buffers committed to it and releases them     *)
(*     over the Wayland socket.                                            *)
(*                                                                         *)
(* The routes: "shm" converts into the window surface (or to memory),      *)
(* "dmabuf" copies into one of DB_N dumb buffers, "zero" gives sway the    *)
(* decoder's own buffer. Pictures are numbered in the order they are sent:  *)
(* the texture pages of the setup, then the frames.                        *)
(***************************************************************************)
EXTENDS Naturals, Sequences, FiniteSets, SequencesExt

CONSTANTS
    Bufs,       \* the decoder's frame buffers beside its pinned reference pages
    DB_N,       \* dumb buffers of --dmabuf (4 in the code)
    MAX_HELD,   \* room of the release queues (32 in the code)
    NPages,     \* texture pages sent at setup, the black one included (1 + K)
    NAU,        \* access units per frame (1; 2 or 3 with --smooth)
    DRY_LIMIT,  \* frames in a row without a picture that end the run (8)
    Routes,     \* subset of {"shm", "dmabuf", "zero"}
    MaxFrames,  \* bound: --seconds ends the run after this many frames
    MaxInFlight,\* bound: access units the driver takes before a SEND waits
    FrameDone,  \* wl_surface.frame's done event
    None

ASSUME CodaAssumption ==
    /\ IsFiniteSet(Bufs) /\ None \notin Bufs
    /\ DB_N \in Nat \ {0} /\ ({None} \cup Bufs) \cap (0 .. DB_N - 1) = {}
    /\ FrameDone \notin (Bufs \cup (0 .. DB_N - 1) \cup {None})
    /\ NAU \in 1 .. 3 /\ DRY_LIMIT \in Nat \ {0}
    /\ MAX_HELD \in Nat /\ Cardinality(Bufs) < MAX_HELD   \* "the VDEC has fewer than this"
    /\ Routes \subseteq {"shm", "dmabuf", "zero"}
    /\ NPages \in Nat \ {0} /\ MaxFrames \in Nat /\ MaxInFlight \in Nat \ {0}

VARIABLES
    route, pipeline, paceFrame,     \* the options of this run
    \* the VDEC driver
    buf,        \* [Bufs -> "free" | "queued" | "out"]
    inflight,   \* pictures accepted by SEND_STREAM, not decoded yet
    outq,       \* decoded pictures waiting for GET_FRAME: [b, pts]
    \* the thread that issues the decoder ioctls
    dpc, au, job, fi, ok,
    \* the main thread
    pc, fnum, cur, aubuf, mfi, mok, slot, dry, rel,
    zknown, zbusy, dbusy, dbNext,
    \* the presenter and sway
    scan, pend, sock, privq, cb, dead, up,
    stop, last

vdec == <<buf, inflight, outq>>
agent == <<dpc, au, job, fi, ok>>
opts == <<route, pipeline, paceFrame>>
swayV == <<scan, pend, up>>
mainV == <<pc, fnum, cur, aubuf, mfi, mok, slot, dry>>
held == <<zknown, zbusy, dbusy, dbNext>>
conn == <<sock, privq, cb, dead>>
vars == <<opts, vdec, agent, mainV, rel, held, swayV, conn, stop, last>>

Pic(n) == NPages + n + 1             \* frame n's picture
NoPic == [b |-> None, pts |-> 0]
Slots == 0 .. DB_N - 1
Shareable == Bufs \cup Slots        \* what a wl_buffer can wrap
Free == {b \in Bufs : buf[b] = "free"}
DmaRoute == route \in {"dmabuf", "zero"}

-----------------------------------------------------------------------------
(* The VDEC driver, as the code in src/ uses it. *)

(* The decoder finishes a picture, some time after SEND_STREAM took it. *)
VdecDecode ==
    /\ inflight # <<>> /\ pc # "done"
    /\ \E b \in Free :
        /\ buf' = [buf EXCEPT ![b] = "queued"]
        /\ outq' = Append(outq, [b |-> b, pts |-> Head(inflight)])
    /\ inflight' = Tail(inflight)
    /\ UNCHANGED <<opts, agent, mainV, rel, held, swayV, conn, stop, last>>

(* GET_FRAME: the oldest picture waiting, handed out until it is released. *)
Handed(released) ==
    [b \in Bufs |-> IF b = Head(outq).b THEN "out"
                    ELSE IF b \in released THEN "free" ELSE buf[b]]

(* RELEASE_FRAME (vd_release): the buffer is the decoder's again. *)
Released(S) == [b \in Bufs |-> IF b \in S THEN "free" ELSE buf[b]]

-----------------------------------------------------------------------------
(* decode_aus() with the releases in front of it: rel_flush() in the main  *)
(* thread, the loop over w->rel in the worker. One step per ioctl.         *)

DecodeRelease ==
    /\ dpc = "rel"
    /\ IF job.rel # <<>>
       THEN /\ buf' = Released({Head(job.rel)})
            /\ job' = [job EXCEPT !.rel = Tail(@)]
            /\ UNCHANGED <<dpc, au>>
       ELSE /\ dpc' = "send" /\ au' = 1
            /\ UNCHANGED <<buf, job>>
    /\ UNCHANGED <<fi, ok, inflight, outq>>

(* vd_send(): the access unit the generator left in the job's buffer. The  *)
(* driver may refuse it; while it has no room the call waits, without a    *)
(* limit (s32MilliSec = -1) and over signals (x_ioctl retries EINTR).      *)
DecodeSend ==
    /\ dpc = "send" /\ Len(inflight) < MaxInFlight
    /\ \/ /\ inflight' = Append(inflight, job.pts)
          /\ dpc' = "get" /\ UNCHANGED ok
       \/ /\ dpc' = "idle" /\ ok' = FALSE        \* @drop: SEND_STREAM failed
          /\ UNCHANGED inflight
    /\ UNCHANGED <<au, job, fi, buf, outq>>

(* Mutant: GET_FRAME is asked again until a picture comes. *)
DecodeGetForever ==
    /\ dpc \in {"get", "get200"}
    /\ \/ /\ outq # <<>>
          /\ fi' = Head(outq) /\ outq' = Tail(outq)
          /\ buf' = Handed({})
          /\ dpc' = "drain"
       \/ /\ outq = <<>> /\ fi' = NoPic
          /\ dpc' = IF dpc = "get" THEN "get200" ELSE "get"
          /\ UNCHANGED <<buf, outq>>
    /\ UNCHANGED <<ok, au, job, inflight>>

(* vd_get_ms(fi, 0), then vd_get_ms(fi, 200) when nothing is queued yet. *)
DecodeGet ==
    /\ dpc \in {"get", "get200"}
    /\ \/ /\ outq # <<>>
          /\ fi' = Head(outq) /\ outq' = Tail(outq)
          /\ buf' = Handed({})
          /\ dpc' = "drain" /\ UNCHANGED ok
       \/ /\ outq = <<>> /\ fi' = NoPic
          /\ IF dpc = "get" THEN dpc' = "get200" /\ UNCHANGED ok
             ELSE dpc' = "idle" /\ ok' = FALSE   \* @drop: no picture within 200 ms
          /\ UNCHANGED <<buf, outq>>
    /\ UNCHANGED <<au, job, inflight>>

(* Anything queued behind it: release the older one, keep the newest. Then *)
(* the next access unit, or the picture of the last one is the result.     *)
DecodeDrain ==
    /\ dpc = "drain"
    /\ \/ /\ outq # <<>>
          /\ fi' = Head(outq) /\ outq' = Tail(outq)
          /\ buf' = Handed({fi.b})
          /\ UNCHANGED <<dpc, au, ok>>
       \/ /\ outq = <<>> /\ au < NAU
          /\ buf' = Released({fi.b})
          /\ au' = au + 1 /\ dpc' = "send"
          /\ UNCHANGED <<fi, ok, outq>>
       \/ /\ outq = <<>> /\ au = NAU
          /\ ok' = TRUE /\ dpc' = "idle"         \* w->ok = ok; w->busy = 0
          /\ UNCHANGED <<fi, au, buf, outq>>
    /\ UNCHANGED <<job, inflight>>

Decode ==
    /\ DecodeRelease \/ DecodeSend \/ DecodeGet \/ DecodeDrain
    /\ UNCHANGED <<opts, mainV, rel, held, swayV, conn, stop, last>>

(* worker_submit(), or the call of decode_aus() when there is no worker:   *)
(* the queue of releases becomes the job's.                                *)
Submit(buffer, n, queue) ==
    /\ job' = [au |-> buffer, pts |-> Pic(n), rel |-> queue]
    /\ dpc' = "rel"
    /\ rel' = <<>>
    /\ UNCHANGED <<au, fi, ok>>

-----------------------------------------------------------------------------
(* Setup in main(): each texture page is sent, its picture fetched and     *)
(* released, and so is whatever is queued behind it. A page whose picture  *)
(* does not come within 200 ms only earns a warning.                       *)

SetupSend ==
    /\ pc = "setup" /\ dpc = "page"
    /\ IF fnum = NPages \/ stop
       THEN /\ pc' = "start" /\ dpc' = "idle" /\ fnum' = 0
            /\ UNCHANGED inflight
       ELSE /\ Len(inflight) < MaxInFlight          \* vd_send() waits, as in DecodeSend
            /\ fnum' = fnum + 1 /\ dpc' = "pageget"
            /\ \/ inflight' = inflight              \* @warn send page failed
               \/ inflight' = Append(inflight, fnum + 1)
            /\ UNCHANGED pc
    /\ UNCHANGED <<opts, buf, outq, au, job, fi, ok, cur, aubuf, mfi, mok, slot, dry,
                   rel, held, swayV, conn, stop, last>>

SetupGet ==
    /\ pc = "setup" /\ dpc \in {"pageget", "pagedrain"}
    /\ IF outq # <<>>
       THEN /\ buf' = Released({Head(outq).b}) /\ outq' = Tail(outq)
            /\ dpc' = "pagedrain"
       ELSE dpc' = "page" /\ UNCHANGED <<buf, outq>>
    /\ UNCHANGED <<opts, inflight, au, job, fi, ok, mainV, rel, held, swayV, conn, stop, last>>

(* --pipeline primes the loop: frame 0 goes to the worker, frame 1 is      *)
(* generated into the second access-unit buffer.                           *)
Start ==
    /\ pc = "start"
    /\ pc' = "top"
    /\ IF pipeline
       THEN aubuf' = [aubuf EXCEPT ![cur] = Pic(0), ![1 - cur] = Pic(1)] /\ Submit(cur, 0, rel)
       ELSE UNCHANGED <<aubuf, agent, rel>>
    /\ UNCHANGED <<opts, vdec, fnum, cur, mfi, mok, slot, dry, held, swayV, conn, stop, last>>

-----------------------------------------------------------------------------
(* The frame loop. *)

(* while (!g_stop); without a worker, generate and decode in this thread. *)
LoopTop ==
    /\ pc = "top"
    /\ IF stop THEN pc' = "exit" /\ UNCHANGED <<aubuf, agent, rel>>
       ELSE /\ pc' = "wait"
            /\ IF pipeline THEN UNCHANGED <<aubuf, agent, rel>>
               ELSE aubuf' = [aubuf EXCEPT ![cur] = Pic(fnum)] /\ Submit(cur, fnum, rel)
    /\ UNCHANGED <<opts, vdec, fnum, cur, mfi, mok, slot, dry, held, swayV, conn, stop, last>>

(* Mutant: the main thread does not wait for the worker. *)
WorkerIdleNot == TRUE

(* worker_wait(): not before the worker is done. *)
WorkerIdle == dpc = "idle"

Wait ==
    /\ pc = "wait" /\ WorkerIdle
    /\ mfi' = fi /\ mok' = ok
    /\ pc' = "take"
    /\ UNCHANGED <<opts, vdec, agent, fnum, cur, aubuf, slot, dry, rel, held, swayV, conn, stop, last>>

(* The breaks of the loop: without a worker the frame goes back here, the  *)
(* worker's last picture is released after the loop.                       *)
Break ==
    /\ pc' = "exit"
    /\ buf' = IF pipeline \/ ~mok THEN buf ELSE Released({mfi.b})

(* zc_get(): known and not held, or exported and added on first sight. *)
ZcGet(b) == ~zbusy[b]

TakeZeroCopy ==
    /\ pc = "take" /\ mok /\ route = "zero"
    /\ dry' = 0
    /\ \/ /\ ZcGet(mfi.b)
          /\ zknown' = zknown \cup {mfi.b}
          /\ pc' = "submit" /\ UNCHANGED buf
       \/ /\ ~ZcGet(mfi.b) \/ mfi.b \notin zknown   \* held, or the export or the import failed
          /\ Break /\ UNCHANGED zknown
    /\ UNCHANGED <<opts, inflight, outq, agent, fnum, cur, aubuf, mfi, mok, slot, rel,
                   zbusy, dbusy, dbNext, swayV, conn, stop, last>>

TakeDrop ==
    /\ pc = "take" /\ ~mok
    /\ dry' = dry + 1
    /\ pc' = IF dry + 1 >= DRY_LIMIT THEN "exit" ELSE "submit"
    /\ UNCHANGED <<opts, vdec, agent, fnum, cur, aubuf, mfi, mok, slot, rel, held,
                   swayV, conn, stop, last>>

-----------------------------------------------------------------------------
(* present-dmabuf.c. The compositor's events wait in the socket until      *)
(* somebody reads it: the presenter, or SDL's event pump, which moves the  *)
(* presenter's events to its private queue.                                *)

(* zc_released() and db_released(), called by buf_release(), and           *)
(* frame_done().                                                           *)
Dispatch(E) ==
    LET mine == {b \in E \cap Bufs : zbusy[b]}
    IN  /\ cb' = (cb /\ FrameDone \notin E)
        /\ zbusy' = [b \in Bufs |-> zbusy[b] /\ b \notin mine]
        /\ rel' = SubSeq(rel \o SetToSeq(mine), 1,
                         IF Len(rel) + Cardinality(mine) > MAX_HELD THEN MAX_HELD
                         ELSE Len(rel) + Cardinality(mine))
        /\ dbusy' = [i \in Slots |-> dbusy[i] /\ i \notin E]

(* pump(): what is in the private queue, else one read of the socket. *)
Pump ==
    \/ /\ ~dead /\ privq # {}
       /\ Dispatch(privq) /\ privq' = {}
       /\ UNCHANGED <<sock, dead>>
    \/ /\ ~dead /\ privq = {} /\ up
       /\ Dispatch(sock) /\ sock' = {}
       /\ UNCHANGED <<privq, dead>>
    \/ /\ dead \/ (privq = {} /\ ~up)        \* lost(): the connection is gone
       /\ dead' = TRUE
       /\ UNCHANGED <<sock, privq, cb, zbusy, dbusy, rel>>

(* map_get(), then the conversion, or db_get()'s first look at the socket; *)
(* a frame that is converted goes back at once unless the worker has to    *)
(* release it.                                                             *)
TakeCopy ==
    /\ pc = "take" /\ mok /\ route # "zero"
    /\ dry' = 0
    /\ \/ Break /\ UNCHANGED <<conn, zbusy, dbusy, rel>>          \* cannot map the frame
       \/ /\ route = "dmabuf" /\ pc' = "dbget"
          /\ Pump /\ UNCHANGED buf
       \/ /\ route = "shm" /\ pc' = "submit"
          /\ buf' = IF pipeline THEN buf ELSE Released({mfi.b})
          /\ UNCHANGED <<conn, zbusy, dbusy, rel>>
    /\ UNCHANGED <<opts, inflight, outq, agent, fnum, cur, aubuf, mfi, mok, slot,
                   zknown, dbNext, swayV, stop, last>>

(* db_get(): a free dumb buffer, round robin, waiting for sway's releases; *)
(* then db_copy() and, without a worker, the frame's release.              *)
DbIndex(k) == (dbNext + k) % DB_N

DbGet ==
    /\ pc = "dbget" /\ \E i \in Slots : ~dbusy[i]
    /\ LET k == CHOOSE k \in Slots :
                    ~dbusy[DbIndex(k)] /\ \A j \in 0 .. k - 1 : dbusy[DbIndex(j)]
       IN  slot' = DbIndex(k) /\ dbNext' = (DbIndex(k) + 1) % DB_N
    /\ pc' = "submit"
    /\ buf' = IF pipeline THEN buf ELSE Released({mfi.b})
    /\ UNCHANGED <<opts, inflight, outq, agent, fnum, cur, aubuf, mfi, mok, dry, rel,
                   zknown, zbusy, dbusy, swayV, conn, stop, last>>

DbWait ==
    /\ pc = "dbget" /\ (\A i \in Slots : dbusy[i]) /\ ~stop
    /\ Pump
    /\ UNCHANGED <<opts, vdec, agent, mainV, zknown, dbNext, swayV, stop, last>>

(* g_stop, a dead connection, or no release within 2 s. *)
DbFail ==
    /\ pc = "dbget" /\ \A i \in Slots : dbusy[i]
    /\ Break
    /\ UNCHANGED <<opts, inflight, outq, agent, fnum, cur, aubuf, mfi, mok, slot, dry, rel,
                   held, swayV, conn, stop, last>>

(* Mutant: the frame given to sway is released before the next decode too. *)
SubmitNextReleases ==
    /\ pc = "submit"
    /\ pc' = "pace"
    /\ IF pipeline
       THEN /\ Submit(1 - cur, fnum + 1, IF mok THEN Append(rel, mfi.b) ELSE rel)
            /\ cur' = 1 - cur
       ELSE UNCHANGED <<agent, rel, cur>>
    /\ UNCHANGED <<opts, vdec, fnum, aubuf, mfi, mok, slot, dry, held, swayV, conn, stop, last>>

(* The frame shown joins the releases in front of the next decode, and the *)
(* worker gets the access units generated last.                            *)
SubmitNext ==
    /\ pc = "submit"
    /\ pc' = "pace"
    /\ IF pipeline
       THEN /\ Submit(1 - cur, fnum + 1, IF mok /\ route # "zero" THEN Append(rel, mfi.b) ELSE rel)
            /\ cur' = 1 - cur
       ELSE UNCHANGED <<agent, rel, cur>>
    /\ UNCHANGED <<opts, vdec, fnum, aubuf, mfi, mok, slot, dry, held, swayV, conn, stop, last>>

HasBuffer == (route = "zero" /\ mok) \/ slot # None

(* dmabuf_presenter_wait_frame(): pump until the last frame is shown ...   *)
PaceWait ==
    /\ pc = "pace" /\ paceFrame /\ HasBuffer /\ cb /\ ~dead
    /\ Pump
    /\ UNCHANGED <<opts, vdec, agent, mainV, zknown, dbNext, swayV, stop, last>>

(* ... or 100 ms have passed; a dead connection stops the loop. *)
PaceEnd ==
    /\ pc = "pace"
    /\ stop' = (stop \/ (paceFrame /\ HasBuffer /\ cb /\ dead))
    /\ pc' = "present"
    /\ UNCHANGED <<opts, vdec, agent, fnum, cur, aubuf, mfi, mok, slot, dry, rel, held, swayV,
                   conn, last>>

(* dmabuf_presenter_present(): attach, damage, commit, flush. sway gets    *)
(* the commit and drops the one it has not shown yet. Without a buffer     *)
(* (a dropped frame) there is nothing to present; shm updates the window.  *)
Present ==
    /\ pc = "present"
    /\ pc' = "poll"
    /\ IF ~HasBuffer
       THEN /\ last' = IF route = "shm" /\ mok THEN mfi.pts ELSE last
            /\ UNCHANGED <<zbusy, dbusy, scan, pend, sock, cb, dead, stop>>
       ELSE LET x == IF route = "zero" THEN mfi.b ELSE slot
            IN  /\ zbusy' = [b \in Bufs |-> zbusy[b] \/ b = x]
                /\ dbusy' = [i \in Slots |-> dbusy[i] \/ i = x]
                /\ IF up /\ ~dead
                   THEN /\ pend' = x
                        /\ sock' = sock \cup ({pend} \ {None})
                        /\ cb' = TRUE
                        /\ last' = mfi.pts
                        /\ UNCHANGED <<scan, dead, stop>>
                   ELSE /\ dead' = TRUE /\ stop' = TRUE
                        /\ cb' = (cb \/ ~dead)
                        /\ UNCHANGED <<scan, pend, sock, last>>
    /\ UNCHANGED <<opts, vdec, agent, fnum, cur, aubuf, mfi, mok, slot, dry, rel, zknown,
                   dbNext, up, privq>>

(* SDL_PollEvent(): reads the socket for every queue. A quit event or      *)
(* Escape sets g_stop as a signal does (Signal).                           *)
PollEvents ==
    /\ pc = "poll"
    /\ pc' = "dispatch"
    /\ \/ up /\ privq' = privq \cup sock /\ sock' = {}
       \/ UNCHANGED <<privq, sock>>
    /\ UNCHANGED <<opts, vdec, agent, fnum, cur, aubuf, mfi, mok, slot, dry, rel, held, swayV,
                   cb, dead, stop, last>>

(* dmabuf_presenter_dispatch(), then the next frame (with a worker: frame  *)
(* n + 2, while n + 1 is decoded); --seconds may end the loop.             *)
LoopEnd ==
    /\ pc = "dispatch"
    /\ IF DmaRoute THEN Pump ELSE UNCHANGED <<conn, zbusy, dbusy, rel>>
    /\ aubuf' = IF pipeline THEN [aubuf EXCEPT ![1 - cur] = Pic(fnum + 2)] ELSE aubuf
    /\ fnum' = fnum + 1
    /\ pc' = IF fnum + 1 >= MaxFrames THEN "exit" ELSE "top"
    /\ mfi' = NoPic /\ mok' = FALSE /\ slot' = None      \* locals of the iteration
    /\ UNCHANGED <<opts, vdec, agent, cur, dry, zknown, dbNext, swayV, stop, last>>

-----------------------------------------------------------------------------
(* After the loop: the worker's last picture goes back, the worker quits,  *)
(* the queued releases are flushed, then the channel and all its buffers   *)
(* go (vd_close), whatever sway still holds.                               *)
ExitRelease ==
    /\ pc = "exit" /\ WorkerIdle
    /\ buf' = Released(ToSet(rel) \cup (IF pipeline /\ ok THEN {fi.b} ELSE {}))
    /\ rel' = <<>>
    /\ pc' = "closed"
    /\ UNCHANGED <<opts, inflight, outq, agent, fnum, cur, aubuf, mfi, mok, slot, dry, held,
                   swayV, conn, stop, last>>

VdClose ==
    /\ pc = "closed"
    /\ pc' = "done"
    /\ UNCHANGED <<opts, vdec, agent, fnum, cur, aubuf, mfi, mok, slot, dry, rel, held,
                   swayV, conn, stop, last>>

Main ==
    \/ SetupSend \/ SetupGet \/ Start \/ LoopTop \/ Wait
    \/ TakeZeroCopy \/ TakeCopy \/ TakeDrop
    \/ DbGet \/ DbWait \/ DbFail
    \/ SubmitNext \/ PaceWait \/ PaceEnd \/ Present \/ PollEvents \/ LoopEnd
    \/ ExitRelease \/ VdClose

-----------------------------------------------------------------------------
(* sway, as the presenter uses it. *)

(* The committed buffer is shown: the one before it is released, and the   *)
(* frame callback fires.                                                   *)
SwayShow ==
    /\ up /\ pend # None /\ pc # "done"
    /\ scan' = pend /\ pend' = None
    /\ sock' = sock \cup ({scan} \ {None})
                    \cup (IF cb /\ FrameDone \notin privq THEN {FrameDone} ELSE {})
    /\ UNCHANGED <<opts, vdec, agent, mainV, rel, held, up, privq, cb, dead, stop, last>>

SwayDies ==
    /\ up /\ DmaRoute /\ pc # "done"
    /\ up' = FALSE /\ scan' = None /\ pend' = None /\ sock' = {}
    /\ UNCHANGED <<opts, vdec, agent, mainV, rel, held, privq, cb, dead, stop, last>>

(* SIGINT, SIGTERM or SIGHUP. *)
Signal ==
    /\ ~stop /\ pc # "done"
    /\ stop' = TRUE
    /\ UNCHANGED <<opts, vdec, agent, mainV, rel, held, swayV, conn, last>>

Finished ==
    /\ pc = "done"
    /\ UNCHANGED vars

Init ==
    /\ route \in Routes /\ pipeline \in BOOLEAN
    /\ paceFrame \in (IF route = "shm" THEN {TRUE} ELSE BOOLEAN)
    /\ buf = [b \in Bufs |-> "free"] /\ inflight = <<>> /\ outq = <<>>
    /\ dpc = "page" /\ au = 1 /\ job = [au |-> 0, pts |-> 0, rel |-> <<>>]
    /\ fi = NoPic /\ ok = FALSE
    /\ pc = "setup" /\ fnum = 0 /\ cur = 0 /\ aubuf = [i \in {0, 1} |-> 0]
    /\ mfi = NoPic /\ mok = FALSE /\ slot = None /\ dry = 0 /\ rel = <<>>
    /\ zknown = {} /\ zbusy = [b \in Bufs |-> FALSE]
    /\ dbusy = [i \in Slots |-> FALSE] /\ dbNext = 0
    /\ scan = None /\ pend = None /\ up = TRUE
    /\ sock = {} /\ privq = {} /\ cb = FALSE /\ dead = FALSE
    /\ stop = FALSE /\ last = 0

Next == Main \/ Decode \/ VdecDecode \/ SwayShow \/ SwayDies \/ Signal \/ Finished

(* Each thread runs, and a decoder that has an access unit and a free      *)
(* buffer decodes it.                                                      *)
Spec ==
    /\ Init /\ [][Next]_vars
    /\ WF_vars(Main) /\ WF_vars(Decode) /\ WF_vars(VdecDecode)
-----------------------------------------------------------------------------
(* Properties. *)

Out == {b \in Bufs : buf[b] = "out"}

(* Types of the state. *)
TypeOK ==
    /\ buf \in [Bufs -> {"free", "queued", "out"}]
    /\ inflight \in Seq(Nat) /\ Len(inflight) <= MaxInFlight
    /\ outq \in Seq([b : Bufs, pts : Nat])
    /\ dpc \in {"page", "pageget", "pagedrain", "idle", "rel", "send", "get", "get200", "drain"}
    /\ au \in 1 .. NAU /\ job \in [au : {0, 1}, pts : Nat, rel : Seq(Bufs)]
    /\ {fi, mfi} \subseteq [b : Bufs \cup {None}, pts : Nat]
    /\ ok \in BOOLEAN /\ mok \in BOOLEAN /\ stop \in BOOLEAN
    /\ pc \in {"setup", "start", "top", "wait", "take", "dbget", "submit", "pace", "present",
               "poll", "dispatch", "exit", "closed", "done"}
    /\ fnum \in Nat /\ cur \in {0, 1} /\ aubuf \in [{0, 1} -> Nat] /\ dry \in 0 .. DRY_LIMIT
    /\ slot \in Slots \cup {None} /\ rel \in Seq(Bufs) /\ last \in Nat
    /\ zknown \subseteq Bufs /\ zbusy \in [Bufs -> BOOLEAN]
    /\ dbusy \in [Slots -> BOOLEAN] /\ dbNext \in Slots
    /\ {scan, pend} \subseteq Shareable \cup {None}
    /\ sock \subseteq Shareable \cup {FrameDone} /\ privq \subseteq Shareable \cup {FrameDone}
    /\ cb \in BOOLEAN /\ dead \in BOOLEAN /\ up \in BOOLEAN

(* The picture the decoding thread has fetched and nobody released or took. *)
Fetched ==
    IF \/ dpc = "drain"
       \/ /\ dpc = "idle" /\ ok
          /\ IF pipeline THEN pc \notin {"setup", "start", "closed", "done"}
             ELSE pc \in {"wait", "take", "dbget"}
    THEN {fi.b} ELSE {}

(* The picture the main thread is about to give to sway (--zero-copy). *)
Taken ==
    IF mok /\ route = "zero" /\ (pc \in {"pace", "present"} \/ (pc = "submit" /\ ~pipeline))
    THEN {mfi.b} ELSE {}

(* Every frame buffer the decoder handed out is in exactly one place:      *)
(* fetched, on its way to sway, held by sway, or in one release queue,     *)
(* once. So none leaks (it "would hold a frame buffer for good and starve  *)
(* the decoder") and none is released twice, on any path through the       *)
(* loop's drops and breaks.                                                *)
FramesAccounted ==
    LET zheld == {b \in Bufs : zbusy[b]}
    IN  /\ Out = ToSet(job.rel) \cup ToSet(rel) \cup zheld \cup Fetched \cup Taken
        /\ Cardinality(Out) = Len(job.rel) + Len(rel) + Cardinality(zheld)
                              + Cardinality(Fetched) + Cardinality(Taken)

(* "While sway holds a buffer, its frame is not released, so the decoder   *)
(* cannot write into it", and the copy of --dmabuf never goes to a dumb    *)
(* buffer that sway shows or is about to show.                             *)
SwayReadsStable ==
    LET read == {scan, pend} \ {None}
    IN  /\ route = "zero" /\ pc # "done" => read \subseteq Out
        /\ route = "dmabuf" /\ pc \in {"submit", "pace", "present"} => slot \notin read

(* The worker sends the access units of the frame it was asked for: the    *)
(* generator never writes into the buffer the worker reads.                *)
AuStable ==
    dpc \in {"rel", "send", "get", "get200", "drain"} => aubuf[job.au] = job.pts

(* A picture goes on screen at most once and never after a newer one.      *)
FrameOrder ==
    [][/\ last' >= last
       /\ pc = "present" /\ mok /\ ~dead' => last' > last]_<<pc, last>>

(* SEND_STREAM waits for a decoder that has no buffer left to decode into. *)
(* Every release is issued by the thread that waits, so it waits for good. *)
Starved == dpc = "send" /\ Len(inflight) = MaxInFlight /\ Free = {}

(* A signal, a quit event or a dead compositor ends the run with the       *)
(* channel closed, wherever the two threads are, while the decoder works:  *)
(* with --dmabuf and on a window no order of late pictures, refused sends  *)
(* and breaks leaves SEND_STREAM waiting, and with --zero-copy only sway   *)
(* holding every buffer does (what --dpb-extra's spares are there for).    *)
StopExits == stop ~> pc = "done" \/ (route = "zero" /\ Starved)

(* Main thread, worker, decoder and sway hand the buffers round: each is   *)
(* with exactly one of them and within the bounds the code sets, what sway *)
(* reads is not written, and an access unit is not rewritten while the     *)
(* worker sends it.                                                        *)
BuffersOwned == TypeOK /\ FramesAccounted /\ SwayReadsStable /\ AuStable
=============================================================================
