------------------------------ MODULE EmmcState ------------------------------
(***************************************************************************)
(* What the eMMC of a Nix Badge keeps across power cuts, and U-Boot, which *)
(* is the only reader of it that matters: the partition table, the env     *)
(* (BOOT_ORDER and the BOOT_x_LEFT counters), the two store slots with     *)
(* their boot files on the BOOT FAT, the secure marker, the fip in boot    *)
(* area 1 and USERDATA.  The installers are modules of their own that      *)
(* extend this one; BadgeBoot composes them.                               *)
(*                                                                         *)
(* An element of Images is one build of BadgeOS.  A store, a boot.itb or a *)
(* vbmeta.itb is represented by the build its bytes come from.  A deployed *)
(* boot.itb counts as the build whose store its generation overlays.       *)
(***************************************************************************)
EXTENDS Naturals

CONSTANTS
  Cores,      \* the cores a build has boot files for
  Images,     \* the builds
  SignedOnes, \* the builds made with secureBoot: their fip boots only signed FITs
  BigOnes,    \* the builds whose store image does not fit a 2 GiB slot
  Torn,       \* what a store or a fip holds while it is written, or never was
  NoFile,     \* a file that is not on the BOOT FAT
  Tries       \* the boot attempts a slot made bootable gets

ASSUME ImagesAssumption ==
  /\ SignedOnes \subseteq Images
  /\ BigOnes \subseteq Images
  /\ Torn \notin Images
  /\ NoFile \notin Images
  /\ Torn # NoFile

ASSUME CoresAssumption == Cores \subseteq {"arm", "riscv"} /\ Cores # {}

ASSUME TriesAssumption == Tries \in Nat \ {0}

VARIABLES
  gpt,       \* the partition table: are its labels there, and where did it last
             \* put the slots ("none", "small" for 2 GiB ones, "large")
  envok,     \* does the env in boot area 2 have a good CRC and a BOOT_ORDER
  first,     \* the slot BOOT_ORDER names first; the other one follows it
  left,      \* BOOT_A_LEFT and BOOT_B_LEFT
  store,     \* the bytes of NIX_A and NIX_B
  files,     \* <core>/slot-<x>/boot.itb and vbmeta.itb
  prev,      \* <core>/slot-<x>/boot.itb.prev, which U-Boot tries after boot.itb
  marker,    \* BOOT's secure file
  fip,       \* boot area 1: the active fip at 0, the factory copy at +1 MiB
  userdata,  \* p5: "raw" bytes or an ext4 "fs"
  power,     \* what runs: "off", "sd" or "emmc"
  sdimage,   \* the build of the SD card an SD boot runs from
  booted,    \* the slot an eMMC boot runs from
  good,      \* has this boot been marked good in its own medium's env
  job,       \* the installer that runs, and how far it is
  installed, \* an installer has run to its end since the eMMC was erased
  trial      \* the slot a bundle just filled and that never came up, or "none"

disk  == <<gpt, envok, first, left, store, files, prev, marker, fip, userdata>>
run   == <<power, sdimage, booted, good>>
ghost == <<installed, trial>>
vars  == <<disk, run, job, ghost>>

Slots == {"A", "B"}

Other(s) == IF s = "A" THEN "B" ELSE "A"

\* The files of one slot on the BOOT FAT, in the order the scripts install
\* them: each core's boot.itb, then its vbmeta.itb.
FileIds == Cores \X {"boot.itb", "vbmeta.itb"}

Rank(f) == (IF f[1] = "arm" THEN 0 ELSE 2) + (IF f[2] = "boot.itb" THEN 0 ELSE 1)

IsNext(f, todo) == f \in todo /\ \A g \in todo : Rank(f) <= Rank(g)

Mode(i) == IF i \in SignedOnes THEN "signed" ELSE "unsigned"

\* The slot U-Boot boots: the first in BOOT_ORDER whose BOOT_x_LEFT is above 0.
Pick ==
  IF ~envok THEN "none"
  ELSE IF left[first] > 0 THEN first
  ELSE IF left[Other(first)] > 0 THEN Other(first)
  ELSE "none"

\* The ROM boots the fip at offset 0 and falls back to the copy at +1 MiB
\* when that one is torn.
ActiveFip == IF fip.main # Torn THEN fip.main ELSE fip.factory

\* A slot whose store, boot files and verity roots are one build's, with no
\* boot.itb.prev of another build beside them.
WholeAs(s, i) ==
  /\ i \in Images
  /\ store[s] = i
  /\ \A f \in FileIds : files[s][f] = i
  /\ \A c \in Cores : prev[s][c] \in {i, NoFile}

Whole(s) == WholeAs(s, store[s])

\* U-Boot checks signatures when its fip was built to.
Accepts(i) == Mode(ActiveFip) = "signed" => Mode(i) = "signed"

-----------------------------------------------------------------------------
NoJob == [kind |-> "none", step |-> "none", slot |-> "A", second |-> FALSE,
          todo |-> {}, image |-> NoFile, boot |-> NoFile]

Kinds == {"none", "update", "init", "rauc", "deploy"}

Steps == {"none", "check", "dd", "ddend", "clean", "files", "marker", "fip",
          "fipend", "primary", "again", "finish", "gpt", "factory", "factoryend",
          "env", "mkfs", "copy", "slotB", "verify", "userdata", "prev"}

Attempts == 0 .. Tries

Jobs == [kind : Kinds, step : Steps, slot : Slots, second : BOOLEAN,
         todo : SUBSET FileIds, image : Images \cup {NoFile},
         boot : Images \cup {NoFile}]

TypeOK ==
  /\ gpt \in [labels : BOOLEAN, layout : {"none", "small", "large"}]
  /\ envok \in BOOLEAN
  /\ first \in Slots
  /\ left \in [Slots -> Attempts]
  /\ store \in [Slots -> Images \cup {Torn}]
  /\ files \in [Slots -> [FileIds -> Images \cup {NoFile}]]
  /\ prev \in [Slots -> [Cores -> Images \cup {NoFile}]]
  /\ marker \in {"none", "signed", "unsigned"}
  /\ fip \in [main : Images \cup {Torn}, factory : Images \cup {Torn}]
  /\ userdata \in {"raw", "fs"}
  /\ power \in {"off", "sd", "emmc"}
  /\ sdimage \in Images \cup {NoFile}
  /\ booted \in Slots
  /\ good \in BOOLEAN
  /\ job \in Jobs
  /\ installed \in BOOLEAN
  /\ trial \in Slots \cup {"none"}

\* An eMMC as it leaves the factory.
BlankDisk ==
  /\ gpt = [labels |-> FALSE, layout |-> "none"]
  /\ envok = FALSE /\ first = "A" /\ left = [s \in Slots |-> 0]
  /\ store = [s \in Slots |-> Torn]
  /\ files = [s \in Slots |-> [f \in FileIds |-> NoFile]]
  /\ prev = [s \in Slots |-> [c \in Cores |-> NoFile]]
  /\ marker = "none"
  /\ fip = [main |-> Torn, factory |-> Torn]
  /\ userdata = "raw"
  /\ installed = FALSE

\* An eMMC an earlier BadgeOS laid out with 2 GiB slots.
OldDisk(i) ==
  /\ i \in Images \ BigOnes
  /\ gpt = [labels |-> TRUE, layout |-> "small"]
  /\ envok = TRUE /\ first = "A" /\ left = [s \in Slots |-> Tries]
  /\ store = [s \in Slots |-> i]
  /\ files = [s \in Slots |-> [f \in FileIds |-> i]]
  /\ prev = [s \in Slots |-> [c \in Cores |-> NoFile]]
  /\ marker = Mode(i)
  /\ fip = [main |-> i, factory |-> i]
  /\ userdata = "fs"
  /\ installed = TRUE

Init ==
  /\ BlankDisk \/ \E i \in Images : OldDisk(i)
  /\ power = "off" /\ sdimage = NoFile /\ booted = "A" /\ good = FALSE
  /\ job = NoJob
  /\ trial = "none"

-----------------------------------------------------------------------------
\* How the installers write one slot.  dd leaves the store neither build's
\* until its fsync returns.
StoreTorn(s) == store' = [store EXCEPT ![s] = Torn]

StoreWritten(s, i) == store' = [store EXCEPT ![s] = i]

\* rm -f of the slot's boot.itb.prev and of the temporaries, both cores.
DropPrev(s) == prev' = [prev EXCEPT ![s] = [c \in Cores |-> NoFile]]

\* <file>.new, sync, rename, sync: the slot holds the old file or the new one.
\* U-Boot reads no .new file, so those are left out.
FileWritten(s, f, i) == files' = [files EXCEPT ![s][f] = i]

\* Mutant of MadePrimary: one attempt too many.
MadePrimaryOverrun(s) ==
  /\ first' = s
  /\ left' = [left EXCEPT ![s] = Tries + 1]

\* fw_setenv writes the redundant copy: the old env or the new one.
MadePrimary(s) ==
  /\ first' = s
  /\ left' = [left EXCEPT ![s] = Tries]

\* The installer's position.
Goto(step) == job' = [job EXCEPT !.step = step]

At(kind, step) == job.kind = kind /\ job.step = step

-----------------------------------------------------------------------------
\* The power is cut, or a reset: whatever ran is gone, the eMMC keeps what
\* had reached it.
PowerCut ==
  /\ power # "off"
  /\ power' = "off" /\ sdimage' = NoFile /\ booted' = "A" /\ good' = FALSE
  /\ job' = NoJob
  /\ UNCHANGED <<disk, ghost>>

\* A command of the running installer fails: set -e ends it where it is.
JobFails ==
  /\ job.kind # "none"
  /\ job' = NoJob
  /\ UNCHANGED <<disk, run, ghost>>

\* A card flashed with build i boots.
BootSd(i) ==
  /\ power = "off"
  /\ power' = "sd" /\ sdimage' = i
  /\ UNCHANGED <<disk, booted, good, job, ghost>>

\* nix-badge-mark-good-sd, at multi-user.target of an SD boot: the card's own
\* BOOT_A_LEFT is Tries again.
MarkGoodSd ==
  /\ power = "sd" /\ ~good
  /\ good' = TRUE
  /\ UNCHANGED <<disk, power, sdimage, booted, job, ghost>>

\* U-Boot takes an attempt of the slot it picks and saves the env; the system
\* comes up, or it does not and the board resets.
BootEmmc(up) ==
  /\ power = "off" /\ ActiveFip # Torn /\ Pick # "none"
  /\ LET s == Pick IN
       /\ left' = [left EXCEPT ![s] = @ - 1]
       /\ up => Whole(s) /\ Accepts(store[s])
       /\ power' = IF up THEN "emmc" ELSE "off"
       /\ booted' = IF up THEN s ELSE "A"
       /\ trial' = IF trial # "none" /\ s # trial THEN "none" ELSE trial
  /\ UNCHANGED <<gpt, envok, first, store, files, prev, marker, fip, userdata,
                 sdimage, good, job, installed>>

\* Mutant of MarkGood: the slot's attempts are not restored.
MarkGoodKeepsCount ==
  /\ power = "emmc" /\ ~good
  /\ good' = TRUE
  /\ trial' = IF trial = booted THEN "none" ELSE trial
  /\ UNCHANGED <<disk, power, sdimage, booted, job, installed>>

\* rauc-mark-good, at multi-user.target of an eMMC boot (not rauc.external).
MarkGood ==
  /\ power = "emmc" /\ ~good
  /\ good' = TRUE
  /\ left' = [left EXCEPT ![booted] = Tries]
  /\ trial' = IF trial = booted THEN "none" ELSE trial
  /\ UNCHANGED <<gpt, envok, first, store, files, prev, marker, fip, userdata,
                 power, sdimage, booted, job, installed>>
=============================================================================
