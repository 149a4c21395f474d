----------------------------- MODULE WifiEnum -----------------------------
(***************************************************************************)
(* How the WiFi card is found: sdhci-cv181x's probe of the SDIO host, the  *)
(* MMC core's rescan work and the AIC driver's power-on, which run side by *)
(* side because the host "defers its probe". The probe publishes the       *)
(* WL_REG_ON descriptor first and the host last; the AIC driver waits for  *)
(* the descriptor only (aic8800-cvitek-sdio-enum.patch). The rescan work   *)
(* scans a non-removable host once: rescan_entered stops it from then on   *)
(* unless cvi_sdio_rescan() clears it.                                     *)
(*                                                                         *)
(* External: the MMC core's work and the AIC driver around its two calls.  *)
(***************************************************************************)
EXTENDS Naturals

CONSTANTS MaxPolls      \* times the AIC driver looks for the descriptor (300)

VARIABLES
    probe,      \* "none", "deferred", "desc", "added", "bound" or "failed"
    desc, mmc,  \* wifi_pwr_on_desc and wifi_mmc are set
    level,      \* WL_REG_ON is high
    work,       \* the rescan work is queued
    entered,    \* host->rescan_entered
    aic, polls, \* the AIC driver's step, its looks so far
    user,       \* a writer of the rescan file: "idle", "clear" or "oops"
    card,       \* the card is enumerated
    again       \* rescans with the line up (history): "none", one has "ended",
                \* another was "asked" for after that

vars == <<probe, desc, mmc, level, work, entered, aic, polls, user, card, again>>

-----------------------------------------------------------------------------
(* sdhci_cvi_probe(): WL_REG_ON is taken and driven low before anything    *)
(* else, so that a deferral leaks nothing.                                 *)
ProbeGpio ==
    /\ probe \in {"none", "deferred"}
    /\ \/ probe' = "deferred" /\ desc' = FALSE /\ UNCHANGED level     \* -EPROBE_DEFER
       \/ probe' = "desc" /\ desc' = TRUE /\ level' = FALSE
       \/ probe' = "desc" /\ desc' = FALSE /\ UNCHANGED level         \* another error: go on
    /\ UNCHANGED <<mmc, work, entered, aic, polls, user, card, again>>

(* ... the platform's part and mmc_of_parse(), which may defer as well: the *)
(* descriptor stays published, and the AIC driver may raise the line of a  *)
(* host that is probed again, and driven low, later ...                    *)
ProbeDeferLate ==
    /\ probe = "desc" /\ probe' = "deferred"
    /\ UNCHANGED <<desc, mmc, level, work, entered, aic, polls, user, card, again>>

(* ... sdhci_add_host(), which starts the first rescan ... *)
ProbeAddHost ==
    /\ probe = "desc"
    /\ \/ probe' = "added" /\ work' = TRUE
       \/ probe' = "failed" /\ UNCHANGED work
    /\ UNCHANGED <<desc, mmc, level, entered, aic, polls, user, card, again>>

(* ... and wifi_mmc with the rescan file. *)
ProbePublish ==
    /\ probe = "added"
    /\ probe' = "bound" /\ mmc' = TRUE
    /\ UNCHANGED <<desc, level, work, entered, aic, polls, user, card, again>>

(* ... where the probe of the eMMC's or the SD slot's host clears it.       *)
ProbeOther ==
    /\ mmc /\ mmc' = FALSE
    /\ UNCHANGED <<probe, desc, level, work, entered, aic, polls, user, card, again>>

(* The rescan work: a non-removable host is scanned once. *)
MmcRescan ==
    /\ work /\ work' = FALSE
    /\ entered' = TRUE
    /\ card' = (card \/ (~entered /\ level))
    /\ UNCHANGED <<probe, desc, mmc, level, aic, polls, user, again>>

-----------------------------------------------------------------------------
(* The AIC driver: the descriptor, the line, the rescan, the wait.         *)

AicStart ==
    /\ aic = "idle" /\ aic' = "poll"
    /\ UNCHANGED <<probe, desc, mmc, level, work, entered, polls, user, card, again>>

(* cvi_get_wifi_pwr_on_desc(), every 100 ms; without it the driver goes on. *)
AicPower ==
    /\ aic = "poll"
    /\ IF ~desc /\ polls < MaxPolls
       THEN polls' = polls + 1 /\ UNCHANGED <<aic, level>>
       ELSE aic' = "rescan" /\ level' = (level \/ desc) /\ UNCHANGED polls
    /\ UNCHANGED <<probe, desc, mmc, work, entered, user, card, again>>

(* cvi_sdio_rescan(): no host is an error nobody looks at; else the work   *)
(* is queued (mmc_detect_change) ...                                       *)
Detect ==
    /\ mmc /\ work' = TRUE
    /\ again' = IF again = "ended" /\ level THEN "asked" ELSE again

(* Mutant: the flag is left alone. *)
ClearNot ==
    /\ UNCHANGED entered
    /\ again' = IF mmc /\ level /\ again = "none" THEN "ended" ELSE again

(* ... and then the flag is cleared, through wifi_mmc read a second time.  *)
Clear ==
    /\ entered' = (entered /\ ~mmc)
    /\ again' = IF mmc /\ level /\ again = "none" THEN "ended" ELSE again

Cleared == IF mmc THEN "done" ELSE "oops"      \* a null pointer's

SdioRescan ==
    /\ aic = "rescan"
    /\ \/ Detect /\ aic' = "clear"
       \/ ~mmc /\ aic' = "done" /\ UNCHANGED <<work, again>>
    /\ UNCHANGED <<probe, desc, mmc, level, entered, polls, user, card>>

RescanClear ==
    /\ aic = "clear" /\ aic' = Cleared
    /\ Clear
    /\ UNCHANGED <<probe, desc, mmc, level, work, polls, user, card>>

(* A write to the rescan file, by anybody, while the host is up. *)
RescanStore ==
    /\ probe = "bound"
    /\ \/ user = "idle" /\ user' = "clear" /\ Detect /\ UNCHANGED entered
       \/ user = "clear" /\ user' = (IF mmc THEN "idle" ELSE "oops") /\ Clear /\ UNCHANGED work
    /\ UNCHANGED <<probe, desc, mmc, level, aic, polls, card>>

-----------------------------------------------------------------------------
Init ==
    /\ probe = "none" /\ desc = FALSE /\ mmc = FALSE /\ level = FALSE
    /\ work = FALSE /\ entered = FALSE
    /\ aic = "idle" /\ polls = 0 /\ user = "idle" /\ card = FALSE /\ again = "none"

Probe == ProbeGpio \/ ProbeDeferLate \/ ProbeAddHost \/ ProbePublish \/ ProbeOther
Aic == AicStart \/ AicPower \/ SdioRescan \/ RescanClear

Next == Probe \/ Aic \/ MmcRescan \/ RescanStore

(* The probe that started ends, the AIC driver's init goes on, queued work *)
(* runs.                                                                   *)
Fairness ==
    /\ WF_vars(ProbeAddHost \/ ProbePublish)
    /\ WF_vars(AicPower \/ SdioRescan \/ RescanClear)
    /\ WF_vars(MmcRescan)

-----------------------------------------------------------------------------
(* "The driver drives it low at probe so the card is absent at boot": the  *)
(* card is only ever enumerated under the AIC driver's power-on, in        *)
(* whatever order the probe's first scan and that driver's init run.       *)
AbsentUntilPowered == card => level /\ aic \notin {"idle", "poll"}

(* A rescan can be lost: its work may run before the flag is cleared       *)
(* (mmc_detect_change comes first in cvi_sdio_rescan), or the host is not  *)
(* published. But one that reached the host leaves the flag cleared, so    *)
(* that the next, whoever asks for it, enumerates the card - also when the *)
(* two of them, the probe's own scan and other hosts' probes overlap in    *)
(* any way.                                                                *)
NextRescanFinds == again = "asked" ~> card
=============================================================================
