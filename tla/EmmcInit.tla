------------------------------ MODULE EmmcInit ------------------------------
(***************************************************************************)
(* nix-badge-emmc-init: from an SD boot, erase the eMMC, lay it out like   *)
(* the SD and copy the SD's slot A into both of its slots.  What the eMMC  *)
(* held before stays readable until the command that overwrites it.        *)
(***************************************************************************)
EXTENDS EmmcState

\* sgdisk --zap-all, after every refusal.
StartInit ==
  /\ power = "sd" /\ job.kind = "none"
  /\ gpt' = [gpt EXCEPT !.labels = FALSE]
  /\ job' = [NoJob EXCEPT !.kind = "init", !.step = "gpt", !.image = sdimage,
                          !.boot = sdimage]
  /\ installed' = FALSE /\ trial' = "none"
  /\ UNCHANGED <<envok, first, left, store, files, prev, marker, fip, userdata,
                 run>>

\* The new table.  BOOT and NIX_A start where they did; NIX_B and USERDATA
\* move when the slots were smaller.
InitGpt ==
  /\ At("init", "gpt")
  /\ gpt' = [labels |-> TRUE, layout |-> "large"]
  /\ IF gpt.layout = "large"
       THEN UNCHANGED <<store, userdata>>
       ELSE StoreTorn("B") /\ userdata' = "raw"
  /\ Goto("fip")
  /\ UNCHANGED <<envok, first, left, files, prev, marker, fip, run, ghost>>

\* Boot area 1: the fip at 0, then its factory copy at +1 MiB.
InitFip ==
  /\ job.kind = "init"
  /\ \/ /\ job.step = "fip" /\ Goto("fipend")
        /\ fip' = [fip EXCEPT !.main = Torn]
     \/ /\ job.step = "fipend" /\ Goto("factory")
        /\ fip' = [fip EXCEPT !.main = job.image]
     \/ /\ job.step = "factory" /\ Goto("factoryend")
        /\ fip' = [fip EXCEPT !.factory = Torn]
     \/ /\ job.step = "factoryend" /\ Goto("env")
        /\ fip' = [fip EXCEPT !.factory = job.image]
  /\ UNCHANGED <<gpt, envok, first, left, store, files, prev, marker, userdata,
                 run, ghost>>

\* Boot area 2: the SD's live env, its own counters included: BOOT_A_LEFT is
\* below Tries while the SD boot is not marked good.
InitEnv ==
  /\ At("init", "env")
  /\ envok' = TRUE /\ first' = "A"
  /\ \E n \in Attempts :
       /\ good <=> n = Tries
       /\ left' = [s \in Slots |-> IF s = "A" THEN n ELSE Tries]
  /\ Goto("mkfs")
  /\ UNCHANGED <<gpt, store, files, prev, marker, fip, userdata, run, ghost>>

InitMkfs ==
  /\ At("init", "mkfs")
  /\ files' = [s \in Slots |-> [f \in FileIds |-> NoFile]]
  /\ prev' = [s \in Slots |-> [c \in Cores |-> NoFile]]
  /\ marker' = "none"
  /\ job' = [job EXCEPT !.step = "copy", !.todo = FileIds]
  /\ UNCHANGED <<gpt, envok, first, left, store, fip, userdata, run, ghost>>

\* cp -r of the SD's /boot in directory order, the order the image wrote it
\* in: the cores' files, then the secure marker; then slot B's directory is
\* replaced by slot A's files.
InitCopyFile(f) ==
  /\ At("init", "copy") /\ IsNext(f, job.todo)
  /\ FileWritten("A", f, job.boot)
  /\ job' = [job EXCEPT !.todo = @ \ {f}]
  /\ UNCHANGED <<gpt, envok, first, left, store, prev, marker, fip, userdata,
                 run, ghost>>

InitCopyMarker ==
  /\ At("init", "copy") /\ job.todo = {}
  /\ marker' = Mode(job.boot)
  /\ job' = [job EXCEPT !.step = "slotB", !.todo = FileIds]
  /\ UNCHANGED <<gpt, envok, first, left, store, files, prev, fip, userdata,
                 run, ghost>>

InitSlotB(f) ==
  /\ At("init", "slotB") /\ IsNext(f, job.todo)
  /\ FileWritten("B", f, job.boot)
  /\ job' = [job EXCEPT !.todo = @ \ {f}]
  /\ UNCHANGED <<gpt, envok, first, left, store, prev, marker, fip, userdata,
                 run, ghost>>

\* The boot files and the marker are read back; then NIX_A's dd begins.
InitVerify ==
  /\ At("init", "slotB") /\ job.todo = {}
  /\ \A s \in Slots, f \in FileIds : files[s][f] = job.boot
  /\ marker = Mode(job.boot)
  /\ StoreTorn("A")
  /\ job' = [job EXCEPT !.step = "dd", !.slot = "A"]
  /\ UNCHANGED <<gpt, envok, first, left, files, prev, marker, fip, userdata,
                 run, ghost>>

\* dd of NIX_A ends and NIX_B's begins, then that one ends.
InitStore ==
  /\ At("init", "dd")
  /\ IF job.slot = "A"
       THEN /\ store' = [store EXCEPT !["A"] = job.image, !["B"] = Torn]
            /\ job' = [job EXCEPT !.slot = "B"]
       ELSE /\ StoreWritten("B", job.image) /\ Goto("userdata")
  /\ UNCHANGED <<gpt, envok, first, left, files, prev, marker, fip, userdata,
                 run, ghost>>

\* mkfs.ext4 on USERDATA, the last command.
InitUserdata ==
  /\ At("init", "userdata")
  /\ userdata' = "fs"
  /\ job' = NoJob /\ installed' = TRUE
  /\ UNCHANGED <<gpt, envok, first, left, store, files, prev, marker, fip,
                 run, trial>>

InitStep ==
  \/ InitGpt \/ InitFip \/ InitEnv \/ InitMkfs \/ InitCopyMarker
  \/ InitVerify \/ InitStore \/ InitUserdata
  \/ \E f \in FileIds : InitCopyFile(f) \/ InitSlotB(f)
=============================================================================
