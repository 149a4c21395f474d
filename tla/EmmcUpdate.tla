----------------------------- MODULE EmmcUpdate -----------------------------
(***************************************************************************)
(* nix-badge-emmc-update: from an SD boot, the SD's slot A goes into both  *)
(* slots of an installed eMMC, the inactive one first.  One action per     *)
(* command whose effect a power cut can separate from the next one's.      *)
(***************************************************************************)
EXTENDS EmmcState

\* nix-badge-emmc-update --detect's exit status: 0 an install, 1 a refusal,
\* 3 no install, 4 an install whose slots are too small.  The checks run in
\* the script's order.
Detect ==
  IF ~gpt.labels \/ ~envok THEN 3
  ELSE IF Pick = "none" THEN 1
  ELSE IF marker = "none" THEN 3
  ELSE IF sdimage \in BigOnes /\ gpt.layout = "small" THEN 4
  ELSE 0

\* Mutant of StartUpdate: the slot U-Boot picks is written first.
StartUpdateActive ==
  /\ power = "sd" /\ job.kind = "none"
  /\ Detect = 0
  /\ marker = Mode(sdimage)
  /\ left' = [left EXCEPT ![Pick] = 0]
  /\ job' = [kind |-> "update", step |-> "dd", slot |-> Pick, second |-> FALSE,
             todo |-> {}, image |-> sdimage, boot |-> sdimage]
  /\ trial' = "none"
  /\ UNCHANGED <<gpt, envok, first, store, files, prev, marker, fip, userdata,
                 run, installed>>

\* Mutant of StartUpdate: the slot keeps its attempts while it is written.
StartUpdateBootable ==
  /\ power = "sd" /\ job.kind = "none"
  /\ Detect = 0
  /\ marker = Mode(sdimage)
  /\ job' = [kind |-> "update", step |-> "dd", slot |-> Other(Pick),
             second |-> FALSE, todo |-> {}, image |-> sdimage, boot |-> sdimage]
  /\ trial' = "none"
  /\ UNCHANGED <<disk, run, installed>>

\* Mutant of StartUpdate: the SD's mode is not compared with the marker.
StartUpdateAnyMode ==
  /\ power = "sd" /\ job.kind = "none"
  /\ Detect = 0
  /\ left' = [left EXCEPT ![Other(Pick)] = 0]
  /\ job' = [kind |-> "update", step |-> "dd", slot |-> Other(Pick),
             second |-> FALSE, todo |-> {}, image |-> sdimage, boot |-> sdimage]
  /\ trial' = "none"
  /\ UNCHANGED <<gpt, envok, first, store, files, prev, marker, fip, userdata,
                 run, installed>>

\* The last check before the first write, and write_slot's first command on
\* the slot U-Boot does not pick.
StartUpdate ==
  /\ power = "sd" /\ job.kind = "none"
  /\ Detect = 0
  /\ marker = Mode(sdimage)
  /\ LET new == Other(Pick) IN
       /\ left' = [left EXCEPT ![new] = 0]
       /\ job' = [kind |-> "update", step |-> "dd", slot |-> new, second |-> FALSE,
                  todo |-> {}, image |-> sdimage, boot |-> sdimage]
  /\ trial' = "none"
  /\ UNCHANGED <<gpt, envok, first, store, files, prev, marker, fip, userdata,
                 run, installed>>

UpdateDd ==
  /\ At("update", "dd")
  /\ StoreTorn(job.slot) /\ Goto("ddend")
  /\ UNCHANGED <<gpt, envok, first, left, files, prev, marker, fip, userdata,
                 run, ghost>>

UpdateDdEnd ==
  /\ At("update", "ddend")
  /\ StoreWritten(job.slot, job.image) /\ Goto("clean")
  /\ UNCHANGED <<gpt, envok, first, left, files, prev, marker, fip, userdata,
                 run, ghost>>

UpdateClean ==
  /\ At("update", "clean")
  /\ DropPrev(job.slot)
  /\ job' = [job EXCEPT !.step = "files", !.todo = FileIds]
  /\ UNCHANGED <<gpt, envok, first, left, store, files, marker, fip, userdata,
                 run, ghost>>

UpdateFile(f) ==
  /\ At("update", "files") /\ IsNext(f, job.todo)
  /\ FileWritten(job.slot, f, job.boot)
  /\ job' = [job EXCEPT !.todo = @ \ {f}]
  /\ UNCHANGED <<gpt, envok, first, left, store, prev, marker, fip, userdata,
                 run, ghost>>

\* The slot's extlinux leftovers go, which no FIT boot reads; write_slot ends.
UpdateSlotDone ==
  /\ At("update", "files") /\ job.todo = {}
  /\ Goto(IF job.second THEN "finish" ELSE "fip")
  /\ UNCHANGED <<disk, run, ghost>>

UpdateFip ==
  /\ At("update", "fip")
  /\ fip' = [fip EXCEPT !.main = Torn] /\ Goto("fipend")
  /\ UNCHANGED <<gpt, envok, first, left, store, files, prev, marker, userdata,
                 run, ghost>>

UpdateFipEnd ==
  /\ At("update", "fipend")
  /\ fip' = [fip EXCEPT !.main = job.image] /\ Goto("primary")
  /\ UNCHANGED <<gpt, envok, first, left, store, files, prev, marker, userdata,
                 run, ghost>>

\* BOOT_ORDER and BOOT_<new>_LEFT in one env write.
UpdatePrimary ==
  /\ At("update", "primary")
  /\ MadePrimary(job.slot) /\ Goto("again")
  /\ UNCHANGED <<gpt, envok, store, files, prev, marker, fip, userdata,
                 run, ghost>>

\* Mutant of UpdateAgain: the second slot stays bootable while it is written.
UpdateAgainBootable ==
  /\ At("update", "again")
  /\ job' = [job EXCEPT !.step = "dd", !.slot = Other(job.slot), !.second = TRUE]
  /\ UNCHANGED <<disk, run, ghost>>

\* write_slot's first command on the slot that was active.
UpdateAgain ==
  /\ At("update", "again")
  /\ LET active == Other(job.slot) IN
       /\ left' = [left EXCEPT ![active] = 0]
       /\ job' = [job EXCEPT !.step = "dd", !.slot = active, !.second = TRUE]
  /\ UNCHANGED <<gpt, envok, first, store, files, prev, marker, fip, userdata,
                 run, ghost>>

\* Mutant of UpdateFinish: the env of the finished eMMC has no attempts.
UpdateFinishSpent ==
  /\ At("update", "finish")
  /\ first' = "A" /\ left' = [s \in Slots |-> 0]
  /\ job' = NoJob /\ installed' = TRUE
  /\ UNCHANGED <<gpt, envok, store, files, prev, marker, fip, userdata,
                 run, trial>>

\* Both slots hold the same system: the env of a fresh card.
UpdateFinish ==
  /\ At("update", "finish")
  /\ first' = "A" /\ left' = [s \in Slots |-> Tries]
  /\ job' = NoJob /\ installed' = TRUE
  /\ UNCHANGED <<gpt, envok, store, files, prev, marker, fip, userdata,
                 run, trial>>

UpdateStep ==
  \/ UpdateDd \/ UpdateDdEnd \/ UpdateClean \/ UpdateSlotDone
  \/ UpdateFip \/ UpdateFipEnd \/ UpdatePrimary \/ UpdateAgain \/ UpdateFinish
  \/ \E f \in FileIds : UpdateFile(f)
=============================================================================
