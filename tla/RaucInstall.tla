----------------------------- MODULE RaucInstall -----------------------------
(***************************************************************************)
(* The installs that run from an eMMC boot.  rauc install writes the slot  *)
(* that is not booted: RAUC itself (external) makes it unbootable, writes  *)
(* the bundle's images in file order (boot, nix, fip) and makes it         *)
(* primary; the bundle's hook.sh does the checks and puts boot.tar's files *)
(* into the slot.  A deploy (nix-badge-install-bootloader) replaces the    *)
(* booted slot's boot.itb and the fip.                                     *)
(***************************************************************************)
EXTENDS EmmcState

\* hook.sh's check_secure: the bundle's word against the card's /secure.
CheckSecure(i) ==
  IF marker = "none" THEN Mode(i) = "unsigned" ELSE Mode(i) = marker

\* RAUC marks the target slot bad before it runs the first hook.  A bundle
\* carries store.img of build i and boot.tar of build b.
StartRauc(i, b) ==
  /\ power = "emmc" /\ job.kind = "none"
  /\ LET target == Other(booted) IN
       /\ left' = [left EXCEPT ![target] = 0]
       /\ job' = [kind |-> "rauc", step |-> "check", slot |-> target,
                  second |-> FALSE, todo |-> {}, image |-> i, boot |-> b]
  /\ trial' = "none"
  /\ UNCHANGED <<gpt, envok, first, store, files, prev, marker, fip, userdata,
                 run, installed>>

\* slot-install of class boot: checks only, then the store write begins, for
\* an image that fits the partition.
RaucCheck ==
  /\ At("rauc", "check")
  /\ CheckSecure(job.boot)
  /\ ~(job.image \in BigOnes /\ gpt.layout = "small")
  /\ StoreTorn(job.slot) /\ Goto("ddend")
  /\ UNCHANGED <<gpt, envok, first, left, files, prev, marker, fip, userdata,
                 run, ghost>>

RaucStoreEnd ==
  /\ At("rauc", "ddend")
  /\ StoreWritten(job.slot, job.image) /\ Goto("clean")
  /\ UNCHANGED <<gpt, envok, first, left, files, prev, marker, fip, userdata,
                 run, ghost>>

\* Mutant of RaucPostInstall: boot.tar is not checked against the store.
RaucPostInstallUnchecked ==
  /\ At("rauc", "clean")
  /\ CheckSecure(job.boot)
  /\ DropPrev(job.slot)
  /\ job' = [job EXCEPT !.step = "files", !.todo = FileIds]
  /\ UNCHANGED <<gpt, envok, first, left, store, files, marker, fip, userdata,
                 run, ghost>>

\* slot-post-install of class nix: every check again, boot.tar's store.sha256
\* against the store RAUC wrote, then the target slot's old files go.
RaucPostInstall ==
  /\ At("rauc", "clean")
  /\ CheckSecure(job.boot)
  /\ job.boot = job.image
  /\ DropPrev(job.slot)
  /\ job' = [job EXCEPT !.step = "files", !.todo = FileIds]
  /\ UNCHANGED <<gpt, envok, first, left, store, files, marker, fip, userdata,
                 run, ghost>>

RaucFile(f) ==
  /\ At("rauc", "files") /\ IsNext(f, job.todo)
  /\ FileWritten(job.slot, f, job.boot)
  /\ job' = [job EXCEPT !.todo = @ \ {f}]
  /\ UNCHANGED <<gpt, envok, first, left, store, prev, marker, fip, userdata,
                 run, ghost>>

\* The extlinux leftovers go, and a card without /secure gets the bundle's.
RaucMarker ==
  /\ At("rauc", "files") /\ job.todo = {}
  /\ marker' = IF marker = "none" THEN Mode(job.boot) ELSE marker
  /\ Goto("fip")
  /\ UNCHANGED <<gpt, envok, first, left, store, files, prev, fip, userdata,
                 run, ghost>>

\* [image.fip], the last section of the manifest.
RaucFip ==
  /\ At("rauc", "fip")
  /\ fip' = [fip EXCEPT !.main = Torn] /\ Goto("fipend")
  /\ UNCHANGED <<gpt, envok, first, left, store, files, prev, marker, userdata,
                 run, ghost>>

RaucFipEnd ==
  /\ At("rauc", "fipend")
  /\ fip' = [fip EXCEPT !.main = job.image] /\ Goto("primary")
  /\ UNCHANGED <<gpt, envok, first, left, store, files, prev, marker, userdata,
                 run, ghost>>

\* RAUC's uboot backend marks the slot primary.
RaucPrimary ==
  /\ At("rauc", "primary")
  /\ MadePrimary(job.slot) /\ job' = NoJob
  /\ trial' = IF good THEN job.slot ELSE "none"
  /\ UNCHANGED <<gpt, envok, store, files, prev, marker, fip, userdata,
                 run, installed>>

RaucStep ==
  \/ RaucCheck \/ RaucStoreEnd \/ RaucPostInstall \/ RaucMarker
  \/ RaucFip \/ RaucFipEnd \/ RaucPrimary
  \/ \E f \in FileIds : RaucFile(f)

-----------------------------------------------------------------------------
\* Activating generation g on core c: the refusals (no vbmeta.itb, a /secure
\* that is not the generation's), then the booted slot's leftovers go.
StartDeploy(c, g) ==
  /\ power = "emmc" /\ job.kind = "none"
  /\ files[booted][<<c, "vbmeta.itb">>] # NoFile
  /\ marker = Mode(g)
  /\ prev' = [prev EXCEPT ![booted][c] = NoFile]
  /\ job' = [NoJob EXCEPT !.kind = "deploy", !.step = "prev", !.slot = booted,
                          !.todo = {<<c, "boot.itb">>}, !.image = g]
  /\ UNCHANGED <<gpt, envok, first, left, store, files, marker, fip, userdata,
                 run, ghost>>

\* The old FIT becomes .prev, the generation's becomes boot.itb.
DeployFit(f) ==
  /\ At("deploy", "prev") /\ f \in job.todo
  /\ prev' = [prev EXCEPT ![job.slot][f[1]] = files[job.slot][f]]
  /\ files' = [files EXCEPT ![job.slot][f] = store[job.slot]]
  /\ job' = [job EXCEPT !.step = "fip", !.todo = {}]
  /\ UNCHANGED <<gpt, envok, first, left, store, marker, fip, userdata,
                 run, ghost>>

\* A fip that differs is written to boot area 1, offset 0 only.
DeployFip ==
  /\ At("deploy", "fip")
  /\ IF fip.main = job.image
       THEN fip' = fip /\ job' = NoJob
       ELSE fip' = [fip EXCEPT !.main = Torn] /\ Goto("fipend")
  /\ UNCHANGED <<gpt, envok, first, left, store, files, prev, marker, userdata,
                 run, ghost>>

DeployFipEnd ==
  /\ At("deploy", "fipend")
  /\ fip' = [fip EXCEPT !.main = job.image] /\ job' = NoJob
  /\ UNCHANGED <<gpt, envok, first, left, store, files, prev, marker, userdata,
                 run, ghost>>

DeployStep == DeployFip \/ DeployFipEnd \/ \E f \in FileIds : DeployFit(f)
=============================================================================
