------------------------------ MODULE BadgeBoot ------------------------------
(***************************************************************************)
(* A badge with an eMMC over its life: cards are flashed and booted, the   *)
(* installers run from SD and eMMC boots, U-Boot spends boot attempts, and *)
(* the power may go at any time.                                           *)
(***************************************************************************)
EXTENDS EmmcUpdate, EmmcInit, RaucInstall

\* nix-badge-install runs the installer --detect's exit status calls for.
NixBadgeInstall ==
  \/ Detect = 0 /\ StartUpdate
  \/ Detect \in {3, 4} /\ StartInit

\* nix-badge-emmc-init --yes by hand, whatever the eMMC holds.
EmmcInitByHand == StartInit

Next ==
  \/ PowerCut \/ JobFails \/ MarkGoodSd \/ MarkGood
  \/ \E i \in Images : BootSd(i)
  \/ \E up \in BOOLEAN : BootEmmc(up)
  \/ NixBadgeInstall \/ EmmcInitByHand
  \/ UpdateStep \/ InitStep
  \/ \E i, b \in Images : StartRauc(i, b)
  \/ RaucStep
  \/ \E c \in Cores, g \in Images : StartDeploy(c, g)
  \/ DeployStep

Spec == Init /\ [][Next]_vars

-----------------------------------------------------------------------------
\* Once an install or an update has run to its end, U-Boot never picks a slot
\* whose store, boot files and verity roots are not one build's, however many
\* installs and power cuts follow (write_slot's and hook.sh's order of steps:
\* unbootable, store, .prev removed, files, primary).
BootsWhole == installed /\ Pick # "none" => Whole(Pick)

\* The slot an update or a bundle is writing is never the one U-Boot would
\* boot if the power went now ("slot $new first while slot $active still
\* boots", emmc-update.sh), and for an update some slot always boots.
WritingSparesPick ==
  job.kind \in {"update", "rauc"} /\ job.step \notin {"again", "finish"} =>
    /\ Pick # job.slot
    /\ job.kind = "update" => Pick = Other(job.slot)

\* One fip serves both slots: the slot U-Boot picks holds images of the mode
\* the fip at offset 0 was built for, a secure one never beside unsigned
\* images (emmc-update.sh's, hook.sh's and the deploy's marker checks).
FipServesPick ==
  installed /\ Pick # "none" /\ fip.main # Torn =>
    Mode(fip.main) = Mode(store[Pick])

\* "If the new system fails to boot three times, U-Boot falls back to the
\* other slot": while a bundle installed from a system marked good has not
\* come up, the other slot is whole and has attempts left.
FallbackReady ==
  installed /\ trial # "none" =>
    Whole(Other(trial)) /\ left[Other(trial)] > 0

\* No step but a boot attempt takes away the last slot U-Boot can pick,
\* unless a bundle is installed by a system whose own slot has no attempt
\* left because it was not marked good yet.
KeepsAWayToBoot ==
  [][ (installed' /\ Pick # "none" /\ (power = "emmc" => left[booted] > 0))
      => (Pick' # "none" \/ power = "off") ]_vars

\* The scheme's promise: a slot's build is replaced only while U-Boot cannot
\* boot the slot, and what becomes bootable is a whole build.
Bootable == [s \in Slots |-> IF installed /\ left[s] > 0
                               THEN IF Whole(s) THEN store[s] ELSE Torn
                               ELSE NoFile]

Ab == INSTANCE AbSlots WITH boots <- Bootable, Nothing <- NoFile

KeepsThePromise == Ab!Spec

-----------------------------------------------------------------------------
(***************************************************************************)
(* The inductive invariant behind BootsWhole, WritingSparesPick and        *)
(* KeepsThePromise: who may run a job, what an installer has written by    *)
(* the step it is at, and that a slot with attempts left is whole.         *)
(***************************************************************************)
Blank(s) == \A c \in Cores : prev[s][c] = NoFile

Filled(s, i) == \A f \in FileIds \ job.todo : files[s][f] = i

JobsRunWhereTheyMay ==
  /\ power = "sd" => sdimage \in Images
  /\ job.kind # "none" => job.image \in Images
  /\ power = "emmc" => Whole(booted)
  /\ job.kind \in {"update", "init"} => power = "sd"
  /\ job.kind \in {"rauc", "deploy"} => power = "emmc"
  /\ job.kind = "rauc" => job.slot = Other(booted)
  /\ job.kind = "deploy" => job.slot = booted
  /\ job.kind = "init" => ~installed

SlotWriterSteps == {"check", "dd", "ddend", "clean", "files", "fip", "fipend",
                    "primary", "again", "finish"}

SlotProgress ==
  job.kind \in {"update", "rauc"} =>
    /\ job.step \in SlotWriterSteps
    /\ IF job.step = "again" THEN left[job.slot] > 0 ELSE left[job.slot] = 0
    /\ job.step \in {"clean", "files", "fip", "fipend", "primary", "again", "finish"} =>
         store[job.slot] = job.image
    /\ job.step \in {"files", "fip", "fipend", "primary", "again", "finish"} =>
         /\ job.boot = job.image
         /\ Blank(job.slot) /\ Filled(job.slot, job.image)
    /\ job.step \in {"fip", "fipend", "primary", "again", "finish"} => job.todo = {}
    /\ job.kind = "update" =>
         /\ job.boot = job.image
         /\ envok /\ left[Other(job.slot)] > 0
         /\ job.second => Whole(Other(job.slot))
         /\ job.step = "finish" => job.second
    /\ job.kind = "rauc" => job.step \notin {"again", "finish"}

InitProgress ==
  job.kind = "init" =>
    /\ job.boot = job.image
    /\ job.step \in {"factory", "factoryend", "env", "mkfs", "copy", "slotB", "dd",
                     "userdata"} => fip.main = job.image
    /\ job.step \in {"mkfs", "copy", "slotB", "dd", "userdata"} => envok
    /\ job.step \in {"copy", "slotB", "dd", "userdata"} => \A s \in Slots : Blank(s)
    /\ job.step \in {"dd", "userdata"} =>
         \A s \in Slots, f \in FileIds : files[s][f] = job.image
    /\ job.step = "dd" /\ job.slot = "B" => store["A"] = job.image
    /\ job.step = "userdata" => \A s \in Slots : store[s] = job.image
    /\ job.step \in {"gpt", "fip", "fipend", "factory", "factoryend", "env", "mkfs",
                     "copy", "slotB", "dd", "userdata"}

BootableIsWhole ==
  installed => envok /\ \A s \in Slots : left[s] > 0 => Whole(s)

\* Holds in every state of the badge's life and is kept by every step.
SlotInv ==
  /\ JobsRunWhereTheyMay
  /\ SlotProgress
  /\ InitProgress
  /\ BootableIsWhole

-----------------------------------------------------------------------------
\* "the factory copy at +1 MiB is the ROM's fallback if this write is torn"
\* (emmc-update.sh): on an installed eMMC the ROM always has a fip to boot.
FactoryFallback == installed => ActiveFip # Torn
=============================================================================
