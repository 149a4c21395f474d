----------------------------- MODULE SophProbe -----------------------------
(***************************************************************************)
(* How the display's card comes to be (sophdrm.c): soph_drm registers the  *)
(* DSI host the HDMI bridge's driver looks for, and looks for the bridge   *)
(* that driver adds. Each defers its probe while the other's half is       *)
(* missing, in threads of their own. The bridge's driver (lontium-lt8912b) *)
(* and the driver core, which tries a deferred probe again whenever some   *)
(* driver binds, are external.                                             *)
(*                                                                         *)
(* The probe's last part reads the modes back from the timing the DISP is  *)
(* running; U16 wraps the mode's fields.                                   *)
(***************************************************************************)
EXTENDS Integers

CONSTANTS
    U16,        \* 2^16: the range of a mode's fields
    Active,     \* active pixels of the line
    Total       \* bound: the longest line, htotal + 1

VARIABLES
    loaded,     \* soph_drm's module is in
    node,       \* the device tree has the DSI host's node
    probe,      \* soph_drm_probe(): its step
    host,       \* soph_dsi_host: "none", "registered" or "dangling"
    link,       \* the DSI link: "down", "up", or "raised over the bridge"
    bridge,     \* lt8912b's probe: "none", "deferred" or "bound"
    line,       \* the DISP's timing
    modes       \* native_mode and gop_mode

vars == <<loaded, node, probe, host, link, bridge, line, modes>>

NoModes == <<>>

-----------------------------------------------------------------------------
(* soph_drm_init(): without a node a device of its own, and no bridge. It   *)
(* is not followed here after a removal that left the host in the list:    *)
(* the host was the module's memory, and what a second load then does to   *)
(* that list is undefined.                                                 *)
SophInit ==
    /\ ~loaded /\ host = "none" /\ probe = "none"
    /\ loaded' = TRUE /\ probe' = "start"
    /\ UNCHANGED <<node, host, link, bridge, line, modes>>

(* The DRM device, the DMA mask, the park buffer. *)
ProbeStart ==
    /\ probe = "start"
    /\ probe' \in {"link", "failed"}
    /\ UNCHANGED <<loaded, node, host, link, bridge, line, modes>>

Raised == IF bridge = "bound" THEN "raised over the bridge" ELSE "up"

(* soph_mipi_tx_setup(), by the attempt that will publish the host. *)
ProbeLink ==
    /\ probe = "link"
    /\ IF host = "registered" THEN probe' = "host" /\ UNCHANGED link
       ELSE \/ link' = Raised /\ probe' = IF node THEN "host" ELSE "mode"
            \/ probe' = "failed" /\ UNCHANGED link
    /\ UNCHANGED <<loaded, node, host, bridge, line, modes>>

(* The host is published once and stays. *)
ProbeHost ==
    /\ probe = "host"
    /\ IF host = "registered" THEN probe' = "bridge" /\ UNCHANGED host
       ELSE \/ host' = "registered" /\ probe' = "bridge"
            \/ probe' = "failed" /\ UNCHANGED host
    /\ UNCHANGED <<loaded, node, link, bridge, line, modes>>

(* Mutant: an attempt that defers takes its host back. *)
ProbeBridgeUnregisters ==
    /\ probe = "bridge"
    /\ IF bridge = "bound" THEN probe' = "mode" /\ UNCHANGED host
       ELSE probe' = "deferred" /\ host' = "none"
    /\ UNCHANGED <<loaded, node, link, bridge, line, modes>>

(* devm_drm_of_get_bridge() *)
ProbeBridge ==
    /\ probe = "bridge"
    /\ probe' = IF bridge = "bound" THEN "mode" ELSE "deferred"
    /\ UNCHANGED <<loaded, node, host, link, bridge, line, modes>>

(* The driver core tries again. *)
Retry ==
    /\ probe = "deferred" /\ loaded
    /\ probe' = "start"
    /\ UNCHANGED <<loaded, node, host, link, bridge, line, modes>>

(* lt8912b's probe: the host by its node, the attach, the bridge. *)
BridgeProbe ==
    /\ node /\ bridge # "bound"
    /\ bridge' = IF host = "registered" THEN "bound" ELSE "deferred"
    /\ UNCHANGED <<loaded, node, probe, host, link, line, modes>>

-----------------------------------------------------------------------------
(* soph_fill_mode(), one axis: sync positions rebased on the start of      *)
(* active video, or put right after it when they come out in no order.     *)

Fill(t, active) ==
    LET start == (active + (t.sync - t.fde)) % U16
        end == (active + (t.syncEnd - t.fde)) % U16
        total == t.total + 1
    IN  IF start < active \/ end <= start \/ total <= end
        THEN [display |-> active, start |-> active + 1, end |-> active + 2, total |-> total]
        ELSE [display |-> active, start |-> start, end |-> end, total |-> total]

(* soph_read_mode(): a timing nobody programmed is refused; the GOP's mode *)
(* is the same line with half the active size.                             *)
ReadMode ==
    /\ probe = "mode"
    /\ IF line.total = 0 \/ line.fdeEnd <= line.fde
       THEN probe' = "failed" /\ UNCHANGED modes
       ELSE LET w == line.fdeEnd - line.fde + 1
            IN  probe' = "card" /\ modes' = <<Fill(line, w), Fill(line, w \div 2)>>
    /\ UNCHANGED <<loaded, node, host, link, bridge, line>>

(* ... and the rest of the probe: mode config, connector, pipe, colour     *)
(* properties, bridge attach, the card.                                    *)
ProbeCard ==
    /\ probe = "card"
    /\ probe' \in {"bound", "failed"}
    /\ UNCHANGED <<loaded, node, host, link, bridge, line, modes>>

(* soph_drm_exit() and the removal it causes leave the host registered. *)
SophExit ==
    /\ loaded /\ probe \in {"bound", "failed", "deferred"}
    /\ loaded' = FALSE /\ probe' = "none" /\ modes' = NoModes
    /\ host' = IF host = "registered" THEN "dangling" ELSE host
    /\ UNCHANGED <<node, link, bridge, line>>

-----------------------------------------------------------------------------
(* The lines the DSI profile can set up: active video and sync within the  *)
(* total, at least three pixels of blanking. Or it did not take.           *)
Unprogrammed == [total |-> 0, fde |-> 0, fdeEnd |-> 0, sync |-> 0, syncEnd |-> 0]
Lines == {Unprogrammed} \cup
         {t \in [total : {Total - 1}, fde : 0 .. Total - 1, fdeEnd : 0 .. Total - 1,
                 sync : 0 .. Total - 1, syncEnd : 0 .. Total - 1] :
            t.fdeEnd - t.fde + 1 = Active /\ t.sync <= t.syncEnd}

Begin == loaded = FALSE /\ probe = "none"

Init ==
    /\ Begin /\ node \in BOOLEAN /\ line \in Lines
    /\ host = "none" /\ link = "down" /\ bridge = "none" /\ modes = NoModes

Probe == ProbeStart \/ ProbeLink \/ ProbeHost \/ ProbeBridge \/ ReadMode \/ ProbeCard
Next == SophInit \/ Probe \/ Retry \/ BridgeProbe \/ SophExit

(* A probe that runs goes on, and what is deferred is tried again. *)
Fairness == WF_vars(Probe) /\ WF_vars(Retry) /\ WF_vars(BridgeProbe)

-----------------------------------------------------------------------------
(* "It also must not be unregistered when the bridge is not ready yet.     *)
(* Doing that is a deadlock": whatever order the two drivers probe in, the *)
(* card comes up, unless a step of the probe itself fails or the module    *)
(* goes.                                                                   *)
CardComesUp == loaded ~> probe \in {"bound", "failed"} \/ ~loaded

(* "bridge-attach happens after the pipe is already configured, so a       *)
(* second bring-up corrupts a working display": no attempt raises the link *)
(* under an attached bridge.                                               *)
LinkLeftAlone == link # "raised over the bridge"

(* "Keep the sequence monotonic even if the rebase above produced          *)
(* something odd; drm_mode_vrefresh() and userspace both assume it": both  *)
(* modes are ordered for every position of the sync pulse, sync ahead of   *)
(* active video (which wraps) included.                                    *)
ModesMonotonic ==
    \A i \in DOMAIN modes : LET m == modes[i]
                            IN  m.display <= m.start /\ m.start < m.end /\ m.end < m.total
=============================================================================
