------------------------------ MODULE MCDevices ------------------------------
(***************************************************************************)
(* The badge's drivers and small programs, on small instances: soph_drm's   *)
(* probe and its starvation report, the WiFi card's enumeration, the SD     *)
(* hosts, the bench display driver's bring-ups and files, the video         *)
(* player's button and the v1 badge's cache proxy. They share nothing: a    *)
(* behaviour is one of them.                                                *)
(***************************************************************************)
EXTENDS Naturals, TLC

CONSTANTS
    None,
    U16, Active, Total, SECOND, MaxPolls,               \* soph_drm and the WiFi card
    TUNE_MAX_PHCODE, TAP_WINDOW_THLD,                   \* the SD hosts
    Writers, MaxBringups, PixClocks,                    \* the bench display driver
    DEBOUNCE, LONG, TIMEOUT, BOUNCE, MaxHeld, MaxGap, MaxPresses,    \* the button
    Badges, Clients, At, Tree, Chunks, MaxMoves,        \* the v1 mesh ...
    n1, n2, n3, c1, c2                                  \* ... of the run

(* The contacts settle before anything counts as a press, which is what     *)
(* btnwait's 30 ms are for.                                                 *)
ASSUME ButtonAssumption ==
    DEBOUNCE \in Nat /\ LONG \in Nat /\ BOUNCE \in Nat /\ BOUNCE < DEBOUNCE

(* pixclk_khz is within the PLL's reach: on either lane count the bit rate   *)
(* is at most 2.5 Gbit/s and more than a 32nd of it.                        *)
ASSUME PixClocksAssumption ==
    \A clk \in PixClocks : clk \in Nat /\ 13021 <= clk /\ clk <= 208333

(* The line has room for active video and three pixels of blanking. *)
ASSUME LineAssumption ==
    U16 \in Nat \ {0} /\ Active \in Nat \ {0} /\ Total \in Nat /\ Active + 2 < Total

(* Each client has its badge, each badge a parent or none. *)
ASSUME MeshAssumption ==
    /\ Badges \cap Clients = {} /\ {None, "upstream"} \cap (Badges \cup Clients) = {}
    /\ At \in [Clients -> Badges] /\ Tree \in [Badges -> Badges \cup {None}]
    /\ Chunks \in Nat

ThreeBadges == {n1, n2, n3}
TwoClients == {c1, c2}
TwoAndThree == (c1 :> n2) @@ (c2 :> n3)
Chain == (n1 :> None) @@ (n2 :> n1) @@ (n3 :> n2)

VARIABLES
    which,  \* the program that runs
    loaded, node, spProbe, host, link, bridge, spLine, modes,
    path, fmt, bw, osd, err, staged, refill, stale, errOld, starving,
    chromaBad, count, since, fresh, blind,
    weProbe, desc, mmc, level, work, entered, aic, polls, user, card, again,
    kind, uhs, fast, sdPhy, inst, tap, fails, slot,
    drv, wr, scroll, map, hw, runs,
    par, pc, nl, cfg, tracked, dbPhy, dsi, pitch, win, ready, flipped,
    turn, down, settle, held, presses, bwLine, on, age, gap, prev, at, seen,
    last, whole,
    p2p, parent, moves, queue, srv, conn

Probing == INSTANCE SophProbe WITH
    probe <- spProbe, line <- spLine
Underrun == INSTANCE SophUnderrun
Wifi == INSTANCE WifiEnum WITH
    probe <- weProbe
Sdhci == INSTANCE SdhciCv WITH
    phy <- sdPhy
Bridge == INSTANCE Lt8912b
Disp == INSTANCE DispBringup WITH
    phy <- dbPhy
Button == INSTANCE BtnWait WITH
    line <- bwLine
Cache == INSTANCE CacheV1

probing == <<loaded, node, spProbe, host, link, bridge, spLine, modes>>
underrun == <<path, fmt, bw, osd, err, staged, refill, stale, errOld,
              starving, chromaBad, count, since, fresh, blind>>
wifi == <<weProbe, desc, mmc, level, work, entered, aic, polls, user, card,
          again>>
sdhci == <<kind, uhs, fast, sdPhy, inst, tap, fails, slot>>
bridging == <<drv, wr, scroll, map, hw, runs>>
disp == <<par, pc, nl, cfg, tracked, dbPhy, dsi, pitch, win, ready, flipped>>
button == <<turn, down, settle, held, presses, bwLine, on, age, gap, prev, at,
            seen, last, whole>>
cache == <<p2p, parent, moves, queue, srv, conn>>
all == <<which, probing, underrun, wifi, sdhci, bridging, disp, button, cache>>

(* Every program but the one that runs stays in one initial state. *)
MCInit ==
    /\ which \in {"probe", "underrun", "wifi", "sdhci", "bridge", "disp", "button", "cache"}
    /\ Probing!Init
    /\ which # "probe" => ~node /\ spLine = Probing!Unprogrammed
    /\ Underrun!Init /\ (which # "underrun" => ~bw)
    /\ Wifi!Init
    /\ Sdhci!Init /\ (which # "sdhci" => kind = "emmc")
    /\ Bridge!Init /\ (which # "bridge" => hw.mac = "idle")
    /\ Disp!Init
    /\ Button!Init
    /\ Cache!Init /\ (which # "cache" => ~p2p)

(* A step of the program that runs. *)
MCNext ==
    /\ UNCHANGED which
    /\ \/ /\ which = "probe" /\ Probing!Next
          /\ UNCHANGED <<underrun, wifi, sdhci, bridging, disp, button, cache>>
       \/ /\ which = "underrun" /\ Underrun!Next
          /\ UNCHANGED <<probing, wifi, sdhci, bridging, disp, button, cache>>
       \/ /\ which = "wifi" /\ Wifi!Next
          /\ UNCHANGED <<probing, underrun, sdhci, bridging, disp, button, cache>>
       \/ /\ which = "sdhci" /\ Sdhci!Next
          /\ UNCHANGED <<probing, underrun, wifi, bridging, disp, button, cache>>
       \/ /\ which = "bridge" /\ Bridge!Next
          /\ UNCHANGED <<probing, underrun, wifi, sdhci, disp, button, cache>>
       \/ /\ which = "disp" /\ Disp!Next
          /\ UNCHANGED <<probing, underrun, wifi, sdhci, bridging, button, cache>>
       \/ /\ which = "button" /\ Button!Next
          /\ UNCHANGED <<probing, underrun, wifi, sdhci, bridging, disp, cache>>
       \/ /\ which = "cache" /\ Cache!Next
          /\ UNCHANGED <<probing, underrun, wifi, sdhci, bridging, disp, button>>

(* Each program's own fairness, while it is the one that runs. *)
MCSpec ==
    /\ MCInit /\ [][MCNext]_all
    /\ WF_probing(which = "probe" /\ Probing!Probe)
    /\ WF_probing(which = "probe" /\ Probing!Retry)
    /\ WF_probing(which = "probe" /\ Probing!BridgeProbe)
    /\ WF_underrun(which = "underrun" /\ Underrun!FrameStart)
    /\ WF_wifi(which = "wifi" /\ (Wifi!ProbeAddHost \/ Wifi!ProbePublish))
    /\ WF_wifi(which = "wifi" /\ (Wifi!AicPower \/ Wifi!SdioRescan \/ Wifi!RescanClear))
    /\ WF_wifi(which = "wifi" /\ Wifi!MmcRescan)
    /\ \A n \in Badges : WF_cache(which = "cache" /\ Cache!Handler(n))

-----------------------------------------------------------------------------
(* In whatever order soph_drm and the bridge's driver probe and defer, the  *)
(* card comes up; the DSI link is never raised under an attached bridge,    *)
(* and the modes read back are ordered for every position of the sync.      *)
DisplayComesUp ==
    Probing!CardComesUp /\ []Probing!LinkLeftAlone /\ []Probing!ModesMonotonic

(* soph_check_underrun reports what happened in this session and only that: *)
(* a 1280x720 session that starves is reported, flips or not, and a chroma  *)
(* error on an NV12 layer while the layer lasts.                            *)
StarvationSound ==
    []Underrun!StarvationReal /\ Underrun!StarvationReported /\ Underrun!ChromaReported

(* The SD hosts: the tap is the middle of a widest window and never that of *)
(* an earlier tuning; a card in the slot starts at 3.3 V, whatever the one  *)
(* before had; the WiFi card is enumerated only under the AIC driver's      *)
(* power-on, and a rescan that is lost leaves the next one to find it.      *)
SdHostsSound ==
    /\ []Sdhci!TapIsMedian /\ []Sdhci!NoStaleTap /\ Sdhci!FreshCardAt3V3
    /\ []Wifi!AbsentUntilPowered /\ Wifi!NextRescanFinds

(* lt8912b-bringup, with writers, the scroller and an unbinding side by     *)
(* side: the scroller paints only a framebuffer the driver still has, a     *)
(* stop holds, disp-src is held exactly when it is not gated; and every     *)
(* bring-up ends with the MAC sending, on the lanes that are powered, at    *)
(* the pixel clock's ratio and with a DISP_CFG no later write undoes.       *)
BringupSound ==
    /\ Bridge!ScrollPaintsLive /\ Bridge!StopHolds /\ Bridge!DispSrcBalanced
    /\ Bridge!MacRuns
    /\ Disp!LanesAgree /\ Disp!CfgHolds /\ Disp!PllExact

(* The player's button: one press moves by at most one clip, a press that   *)
(* began under a running btnwait is reported, and by its length.            *)
ButtonSound == Button!OneClipPerPress /\ Button!PressReported /\ Button!ReportsLength

(* The v1 proxy: every request ends, whatever the mesh does.                *)
CacheSound == Cache!EveryRequestEnds

=============================================================================
