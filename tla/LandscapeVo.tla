---------------------------- MODULE LandscapeVo ----------------------------
(***************************************************************************)
(* badge_landscape_vo: VDEC -> VO playback with four threads and no lock   *)
(* between them (badge_landscape_vo.c).                                    *)
(*   - the feeder sends access units to the decoder, changes the track     *)
(*     (resetting the channel) and spends credits;                         *)
(*   - the pump moves decoded frames to VO, releases each one a frame late *)
(*     and posts credits;                                                  *)
(*   - the watchdog resets the channel when nothing was fed for a while;   *)
(*   - main starts them, waits for the stop and tears down.                *)
(* The decoder and VO are external: the decoder has a few frame buffers,   *)
(* forgets every frame at a reset, and may hang until one.                 *)
(*                                                                         *)
(* g_vdec_gen counts resets. The pump only compares it with a value it     *)
(* sampled, so instead of the counter the model keeps, for each of the two *)
(* samples, whether it is still the current one (same, prevsame), and a    *)
(* frame of before a reset, which the decoder has forgotten, is Stale.     *)
(***************************************************************************)
EXTENDS Naturals, Sequences, FiniteSets

CONSTANTS
    Bufs,           \* VDEC_FRAME_BUF_CNT frame buffers
    CREDIT_MAX,     \* the credit window (32 in the code)
    STALL,          \* quiet looks before the watchdog resets (4)
    MaxIn,          \* bound: access units in the decoder's stream buffer
    NoFrame, Stale

ASSUME LandscapeAssumption ==
    /\ IsFiniteSet(Bufs) /\ NoFrame \notin Bufs /\ Stale \notin Bufs /\ NoFrame # Stale
    /\ {CREDIT_MAX, STALL, MaxIn} \subseteq Nat \ {0}

VARIABLES
    main,   \* main(): its step
    wpc, stuck,             \* the watchdog; quiet looks in a row
    fpc, switch, fed,       \* the feeder; g_switch; g_fed moved since the last look
    ppc, same, frame, prev, prevsame, \* the pump; its samples of g_vdec_gen, its two frames
    credits,
    chan, recv, inq, dq, out, hung,  \* the decoder's channel
    lost    \* buffers handed out, not known to the pump any more

thr == <<main, wpc, stuck, fpc, switch, fed>>
pump == <<ppc, same, frame, prev, prevsame>>
vdec == <<chan, recv, inq, dq, out, hung>>
vars == <<thr, pump, credits, vdec, lost>>

Stopping == main \notin {"up", "feeder", "wdog", "run"}     \* teardown() has begun
FeederStop == main \in {"joinfeeder", "joinpump", "destroy", "done"}
PumpStop == main \in {"joinpump", "destroy", "done"}
Gone(pc) == pc \in {"off", "exit"}
Crashed == main = "crashed"

-----------------------------------------------------------------------------
(* The decoder. *)

(* A picture comes out into a free buffer, or an access unit (parameter    *)
(* sets, SEI) makes none.                                                  *)
VdecDecode ==
    /\ chan /\ inq > 0 /\ ~hung /\ ~Crashed
    /\ inq' = inq - 1
    /\ LET free == Bufs \ (out \cup {dq[i] : i \in DOMAIN dq})
       IN  free # {} /\ dq' \in {dq, Append(dq, CHOOSE b \in free : TRUE)}
    /\ UNCHANGED <<thr, pump, credits, chan, recv, out, hung, lost>>

(* "The VDEC -> VO pipeline can hang in steady state". *)
VdecHangs ==
    /\ chan /\ ~hung /\ ~Crashed
    /\ hung' = TRUE
    /\ UNCHANGED <<thr, pump, credits, chan, recv, inq, dq, out, lost>>

(* CVI_VDEC_ResetChn: no frame handed out before it is known after it.     *)
ResetChn ==
    /\ inq' = 0 /\ dq' = <<>> /\ out' = {} /\ lost' = {} /\ hung' = FALSE
    /\ frame' = IF frame = NoFrame THEN frame ELSE Stale
    /\ prev' = IF prev = NoFrame THEN prev ELSE Stale

(* g_vdec_gen++ *)
BumpGen == same' = FALSE /\ prevsame' = FALSE

(* The reset of wdog_thread() and of the feeder's track change, in three   *)
(* steps: StopRecvStream and the bump, ResetChn, StartRecvStream and       *)
(* credit_reset().                                                         *)

ResetSteps == {"stop", "reset", "start"}
After(pc) == CASE pc = "stop" -> "reset" [] pc = "reset" -> "start" [] pc = "start" -> "top"

(* Mutant: the channel is stopped and started, not reset. *)
ResetStepSoft(pc) ==
    /\ recv' = (IF pc = "stop" THEN FALSE ELSE IF pc = "start" THEN TRUE ELSE recv)
    /\ credits' = IF pc = "start" THEN CREDIT_MAX ELSE credits
    /\ IF pc = "stop" THEN BumpGen ELSE UNCHANGED <<same, prevsame>>
    /\ UNCHANGED <<inq, dq, out, hung, frame, prev, lost>>

ResetStep(pc) ==
    /\ recv' = (IF pc = "stop" THEN FALSE ELSE IF pc = "start" THEN TRUE ELSE recv)
    /\ credits' = IF pc = "start" THEN CREDIT_MAX ELSE credits
    /\ IF pc = "stop" THEN BumpGen ELSE UNCHANGED <<same, prevsame>>
    /\ IF pc = "reset" THEN ResetChn ELSE UNCHANGED <<inq, dq, out, hung, frame, prev, lost>>

-----------------------------------------------------------------------------
(* wdog_thread(): a look a second at g_fed. *)

WdogLook ==
    /\ wpc = "top"
    /\ IF Stopping THEN wpc' = "exit" /\ UNCHANGED <<stuck, fed>>
       ELSE /\ fed' = FALSE
            /\ stuck' = IF fed \/ stuck + 1 >= STALL THEN 0 ELSE stuck + 1
            /\ wpc' = IF ~fed /\ stuck + 1 >= STALL THEN "stop" ELSE "top"
    /\ UNCHANGED <<main, fpc, switch, pump, credits, vdec, lost>>

WdogReset ==
    /\ wpc \in ResetSteps
    /\ ResetStep(wpc)
    /\ wpc' = After(wpc)
    /\ UNCHANGED <<main, stuck, fpc, switch, fed, ppc, chan>>

Wdog == ~Crashed /\ (WdogLook \/ WdogReset)

-----------------------------------------------------------------------------
(* feeder_thread() *)

(* The first open_current() and the buffer; without them the thread ends. *)
FeederOpen ==
    /\ fpc = "open"
    /\ fpc' \in {"top", "exit"}
    /\ UNCHANGED <<main, wpc, stuck, switch, fed, pump, credits, vdec, lost>>

(* A track change: the next file, then the reset. A file that does not     *)
(* open ends the loop, which closes the NULL it got (fclose: the process   *)
(* dies). With one clip the request is only cleared.                       *)
FeederTop ==
    /\ fpc = "top"
    /\ \/ FeederStop /\ fpc' = "exit" /\ UNCHANGED <<switch, main>>
       \/ /\ ~FeederStop /\ ~switch
          /\ fpc' \in {"take", "exit"}           \* an empty file ends the loop
          /\ UNCHANGED <<switch, main>>
       \/ /\ ~FeederStop /\ switch
          /\ switch' = FALSE
          /\ \/ fpc' = "stop" /\ UNCHANGED main
             \/ fpc' = "take" /\ UNCHANGED main
             \/ fpc' = "exit" /\ main' = "crashed"
    /\ UNCHANGED <<wpc, stuck, fed, pump, credits, vdec, lost>>

FeederReset ==
    /\ fpc \in ResetSteps
    /\ ResetStep(fpc)
    /\ fpc' = IF fpc = "start" THEN "take" ELSE After(fpc)
    /\ UNCHANGED <<main, wpc, stuck, switch, fed, ppc, chan>>

(* credit_take(): advisory, it gives up after 100 ms. *)
CreditTake ==
    /\ fpc = "take"
    /\ IF credits > 0 THEN credits' = credits - 1 ELSE UNCHANGED credits
    /\ fpc' = IF FeederStop THEN "exit" ELSE "send"
    /\ UNCHANGED <<main, wpc, stuck, switch, fed, pump, vdec, lost>>

(* CVI_VDEC_SendStream(-1): blocks while the decoder has no room, fails    *)
(* while it is not receiving; then g_fed, and the pace.                    *)
SendStream ==
    /\ fpc = "send"
    /\ \/ /\ recv /\ ~hung /\ inq < MaxIn
          /\ inq' = inq + 1 /\ fed' = TRUE /\ fpc' = "top"
       \/ ~recv /\ FeederStop /\ fpc' = "exit" /\ UNCHANGED <<inq, fed>>
    /\ UNCHANGED <<main, wpc, stuck, switch, pump, credits, chan, recv, dq, out, hung, lost>>

Feeder == ~Crashed /\ (FeederOpen \/ FeederTop \/ FeederReset \/ CreditTake \/ SendStream)

(* on_switch(): SIGUSR1 or SIGUSR2. *)
OnSwitch ==
    /\ main = "run" /\ ~switch
    /\ switch' = TRUE
    /\ UNCHANGED <<main, wpc, stuck, fpc, fed, pump, credits, vdec, lost>>

-----------------------------------------------------------------------------
(* pump_thread() *)

PumpTop ==
    /\ ppc = "top"
    /\ IF PumpStop THEN ppc' = "last" /\ UNCHANGED same
       ELSE ppc' = "get" /\ same' = TRUE                  \* gen = g_vdec_gen
    /\ UNCHANGED <<thr, frame, prev, prevsame, credits, vdec, lost>>

(* CVI_VDEC_GetFrame: "no frame yet" is a failure. *)
GetFrame ==
    /\ ppc = "get"
    /\ IF dq # <<>>
       THEN /\ frame' = Head(dq)
            /\ dq' = Tail(dq) /\ out' = out \cup {Head(dq)}
            /\ ppc' = "check" /\ UNCHANGED same
       ELSE ppc' = "top" /\ same' = FALSE /\ UNCHANGED <<frame, dq, out>>
    /\ UNCHANGED <<thr, prev, prevsame, credits, chan, recv, inq, hung, lost>>

Dropped(f) == lost \cup ({f} \cap Bufs)

(* The channel was reset while the frame was fetched: it is dropped, "VDEC *)
(* no longer tracks it".                                                   *)
PumpCheck ==
    /\ ppc = "check"
    /\ IF same THEN ppc' = "send" /\ UNCHANGED <<frame, lost>>
       ELSE ppc' = "top" /\ frame' = NoFrame /\ lost' = Dropped(frame)
    /\ UNCHANGED <<thr, same, prev, prevsame, credits, vdec>>

(* credit_post(): never above the window, though a reset refilled it while *)
(* frames of before it were still on their way to VO.                      *)
CreditPost == IF credits < CREDIT_MAX THEN credits + 1 ELSE credits

(* Mutant: the frame sent is released at once as well as a frame later. *)
SendFrameKeepsBoth ==
    /\ ppc = "send"
    /\ \/ ppc' = "rel" /\ UNCHANGED <<frame, prev, prevsame, lost, credits>>
       \/ /\ credits' = CreditPost
          /\ prev' = frame /\ prevsame' = same
          /\ ppc' = "rel" /\ UNCHANGED <<frame, lost>>
    /\ same' = FALSE
    /\ UNCHANGED <<thr, vdec>>

(* CVI_VO_SendFrame, four tries. A frame VO took stays with the pump for   *)
(* one more round; the one before it is released if no reset came between, *)
(* and forgotten otherwise. A frame VO refused is released now.            *)
SendFrame ==
    /\ ppc = "send"
    /\ \/ ppc' = "rel" /\ UNCHANGED <<frame, prev, prevsame, lost, credits>>
       \/ /\ credits' = CreditPost
          /\ prev' = frame /\ prevsame' = same
          /\ IF prev # NoFrame /\ prevsame
             THEN ppc' = "rel" /\ frame' = prev /\ UNCHANGED lost
             ELSE ppc' = "top" /\ frame' = NoFrame /\ lost' = Dropped(prev)
    /\ same' = FALSE
    /\ UNCHANGED <<thr, vdec>>

(* CVI_VDEC_ReleaseFrame: a frame of before a reset is refused. *)
ReleaseFrame ==
    /\ ppc = "rel"
    /\ out' = out \ {frame}
    /\ frame' = NoFrame /\ ppc' = "top"
    /\ UNCHANGED <<thr, same, prev, prevsame, credits, chan, recv, inq, dq, hung, lost>>

(* On the way out: the frame held back. *)
PumpLast ==
    /\ ppc = "last"
    /\ out' = IF prevsame THEN out \ {prev} ELSE out
    /\ lost' = IF prevsame THEN lost ELSE Dropped(prev)
    /\ prev' = NoFrame /\ prevsame' = FALSE /\ ppc' = "exit"
    /\ UNCHANGED <<thr, same, frame, credits, chan, recv, inq, dq, hung>>

Pump == ~Crashed /\ (PumpTop \/ GetFrame \/ PumpCheck \/ SendFrame \/ ReleaseFrame \/ PumpLast)

-----------------------------------------------------------------------------
(* main(): every stage is set up best-effort; without a channel, or a      *)
(* thread that does not start, it tears down. The watchdog may be missing. *)

MainUp ==
    /\ main = "up"
    /\ \/ /\ chan' = TRUE /\ recv' = TRUE
          /\ \/ ppc' = "top" /\ main' = "feeder"
             \/ main' = "joinwdog" /\ UNCHANGED ppc
       \/ main' = "destroy" /\ UNCHANGED <<chan, recv, ppc>>
    /\ UNCHANGED <<wpc, stuck, fpc, switch, fed, same, frame, prev, prevsame, credits, inq, dq, out,
                   hung, lost>>

MainFeeder ==
    /\ main = "feeder"
    /\ \/ fpc' = "open" /\ main' = "wdog"
       \/ main' = "joinwdog" /\ UNCHANGED fpc
    /\ UNCHANGED <<wpc, stuck, switch, fed, pump, credits, vdec, lost>>

MainWdog ==
    /\ main = "wdog"
    /\ wpc' \in {"top", "off"}
    /\ main' = "run"
    /\ UNCHANGED <<stuck, fpc, switch, fed, pump, credits, vdec, lost>>

(* wait_for_stop(): a newline, EOF on a terminal, SIGINT or SIGTERM. *)
MainStop ==
    /\ main = "run" /\ main' = "joinwdog"
    /\ UNCHANGED <<wpc, stuck, fpc, switch, fed, pump, credits, vdec, lost>>

(* teardown(): the watchdog first, then the feeder, then the pump. *)
MainJoin ==
    /\ \/ main = "joinwdog" /\ Gone(wpc) /\ main' = "joinfeeder"
       \/ main = "joinfeeder" /\ Gone(fpc) /\ main' = "joinpump"
       \/ main = "joinpump" /\ Gone(ppc) /\ main' = "destroy"
    /\ UNCHANGED <<wpc, stuck, fpc, switch, fed, pump, credits, vdec, lost>>

(* Stop, detach, reset and destroy the channel, then VO, the pools, SYS.   *)
MainDestroy ==
    /\ main = "destroy"
    /\ chan' = FALSE /\ recv' = FALSE /\ inq' = 0 /\ dq' = <<>> /\ out' = {} /\ lost' = {}
    /\ hung' = FALSE
    /\ main' = "done"
    /\ UNCHANGED <<wpc, stuck, fpc, switch, fed, pump, credits>>

Main == MainUp \/ MainFeeder \/ MainWdog \/ MainJoin \/ MainDestroy

Finished == main \in {"done", "crashed"} /\ UNCHANGED vars

-----------------------------------------------------------------------------
Init ==
    /\ main = "up" /\ wpc = "off" /\ stuck = 0
    /\ fpc = "off" /\ switch = FALSE /\ fed = FALSE
    /\ ppc = "off" /\ same = FALSE /\ frame = NoFrame /\ prev = NoFrame /\ prevsame = FALSE
    /\ credits = CREDIT_MAX
    /\ chan = FALSE /\ recv = FALSE /\ inq = 0 /\ dq = <<>> /\ out = {}
    /\ hung = FALSE /\ lost = {}

Next == Main \/ MainStop \/ OnSwitch \/ Wdog \/ Feeder \/ Pump \/ VdecDecode \/ VdecHangs \/ Finished

(* Each thread runs, and a decoder that is not hung decodes. *)
Spec ==
    /\ Init /\ [][Next]_vars
    /\ WF_vars(Main) /\ WF_vars(Wdog) /\ WF_vars(Feeder) /\ WF_vars(Pump) /\ WF_vars(VdecDecode)

-----------------------------------------------------------------------------
(* Types of the state. *)
TypeOK ==
    /\ main \in {"up", "feeder", "wdog", "run", "joinwdog", "joinfeeder", "joinpump", "destroy",
                 "done", "crashed"}
    /\ wpc \in {"off", "top", "exit"} \cup ResetSteps /\ stuck \in 0 .. STALL - 1
    /\ fpc \in {"off", "open", "top", "take", "send", "exit"} \cup ResetSteps
    /\ ppc \in {"off", "top", "get", "check", "send", "rel", "last", "exit"}
    /\ {switch, fed, same, prevsame, chan, recv, hung} \subseteq BOOLEAN
    /\ {frame, prev} \subseteq Bufs \cup {NoFrame, Stale}
    /\ credits \in 0 .. CREDIT_MAX /\ inq \in 0 .. MaxIn
    /\ dq \in Seq(Bufs) /\ out \subseteq Bufs /\ lost \subseteq Bufs

Held == {frame, prev} \cap Bufs

(* Each buffer the decoder handed out since its last reset is in exactly   *)
(* one of the pump's hands, or was dropped by it: none is released twice   *)
(* (it would be decoded into while it is shown) and none is in two hands,  *)
(* wherever a reset of either thread lands in the pump's round.            *)
OneHolder ==
    chan /\ ~Crashed =>
        /\ out = Held \cup lost /\ Held \cap lost = {}
        /\ frame \in Bufs => frame # prev

(* "The pump holds VDEC frames; it must be gone before the channel is":    *)
(* no thread is left to call the decoder once the channel is destroyed,    *)
(* also when one of them never started.                                    *)
TeardownOrder == ~chan /\ main # "up" => Gone(wpc) /\ Gone(fpc) /\ Gone(ppc)

(* A hang is recovered from, whatever the pump and the feeder were doing,  *)
(* as long as the watchdog runs and nobody stops the run.                  *)
HangRecovers == hung /\ wpc # "off" ~> ~hung \/ Stopping

(* A stop ends the run while the decoder can go on: it is not hung, and no *)
(* buffer was dropped to it, when the watchdog is gone.                    *)
StopEndsUnlessStuck == Stopping ~> main \in {"done", "crashed"} \/ hung \/ lost # {}

(* "`systemctl stop` is a clean stop": it ends the run, hung decoder or    *)
(* not. It does not: teardown() joins the watchdog, the only one to reset  *)
(* a hung channel, before the feeder, which waits in SendStream(-1).       *)
CleanStop == Stopping ~> main \in {"done", "crashed"}

(* What the four threads of badge_landscape_vo keep between them without a *)
(* lock: credits within their cap, one holder for every frame, and the     *)
(* channel there as long as somebody may call it.                          *)
PlayerSafe == TypeOK /\ OneHolder /\ TeardownOrder

(* A hung decoder is got going by the watchdog, and a stop ends the run    *)
(* wherever feeder, pump and watchdog wait, the decoder aside.             *)
PlayerLive == HangRecovers /\ StopEndsUnlessStuck
=============================================================================
