--------------------------- MODULE BadgeBootProofs ---------------------------
(***************************************************************************)
(* Proofs about BadgeBoot, for every set of builds and of cores and every  *)
(* number of boot attempts.                                                *)
(***************************************************************************)
EXTENDS BadgeBoot, TLAPS

USE ImagesAssumption, CoresAssumption, TriesAssumption

\* The empty job is well typed.
LEMMA NoJobType == NoJob \in Jobs
BY DEF NoJob, Jobs, Kinds, Steps, Slots

\* The values the installers and U-Boot give an attempt counter are in range.
LEMMA AttemptsType ==
  0 \in Attempts /\ Tries \in Attempts /\ \A n \in Attempts : n > 0 => n - 1 \in Attempts
BY DEF Attempts

\* Other swaps the two slots.
LEMMA OtherType == \A s \in Slots : Other(s) \in Slots /\ Other(s) # s /\ Other(Other(s)) = s
BY DEF Other, Slots

\* A build is for one of the two modes.
LEMMA ModeType == \A i : Mode(i) \in {"signed", "unsigned"}
BY DEF Mode

\* The first part of a file's name is a core.
LEMMA FileIdsType == \A f \in FileIds : f[1] \in Cores
BY DEF FileIds

\* Every step keeps the types, in a state where SlotInv holds: a deploy copies
\* the booted slot's build into its files, which is one because the slot is whole.
LEMMA TypeStep == TypeOK /\ SlotInv /\ [Next]_vars => TypeOK'
<1> SUFFICES ASSUME TypeOK, SlotInv, [Next]_vars PROVE TypeOK'
  OBVIOUS
<1> USE DEF TypeOK, disk, run, ghost
<1>0. /\ job.slot \in Slots /\ job.boot \in Images \cup {NoFile}
      /\ job.kind # "none" => job.image \in Images
      /\ power = "sd" => sdimage \in Images
      /\ "A" \in Slots /\ "B" \in Slots
  BY DEF Jobs, SlotInv, JobsRunWhereTheyMay, Slots
<1>1. CASE PowerCut
  <2>1. job' \in Jobs /\ booted' \in Slots /\ sdimage' \in Images \cup {NoFile}
    BY <1>1, <1>0, NoJobType DEF PowerCut
  <2> QED
    BY <1>1, <2>1 DEF PowerCut
<1>2. CASE JobFails
  BY <1>2, NoJobType DEF JobFails
<1>3. CASE MarkGoodSd
  BY <1>3 DEF MarkGoodSd
<1>4. CASE MarkGood
  BY <1>4, AttemptsType DEF MarkGood
<1>5. ASSUME NEW i \in Images, BootSd(i) PROVE TypeOK'
  BY <1>5 DEF BootSd
<1>6. ASSUME NEW up \in BOOLEAN, BootEmmc(up) PROVE TypeOK'
  <2>1. Pick \in Slots /\ left[Pick] > 0
    BY <1>6, OtherType DEF BootEmmc, Pick, Slots
  <2>2. left' \in [Slots -> Attempts]
    BY <1>6, <2>1, AttemptsType DEF BootEmmc
  <2> QED
    BY <1>6, <1>0, <2>1, <2>2 DEF BootEmmc
<1>7. CASE StartUpdate
  <2>1. Pick \in Slots
    BY <1>7, OtherType DEF StartUpdate, Pick, Detect, Slots
  <2>2. job' \in Jobs
    BY <1>7, <1>0, <2>1, OtherType DEF StartUpdate, Jobs, Kinds, Steps
  <2> QED
    BY <1>7, <2>1, <2>2, OtherType, AttemptsType DEF StartUpdate
<1>8. CASE StartInit
  <2>1. job' \in Jobs
    BY <1>8, <1>0 DEF StartInit, Jobs, NoJob, Kinds, Steps, Slots
  <2> QED
    BY <1>8, <2>1 DEF StartInit
<1>9. CASE UpdateStep
  <2>1. CASE UpdateDd
    <3>1. job' \in Jobs
      BY <2>1 DEF UpdateDd, Goto, Jobs, Steps, Slots
    <3> QED
      BY <2>1, <3>1, <1>0 DEF UpdateDd, At, StoreTorn
  <2>2. CASE UpdateDdEnd
    <3>1. job' \in Jobs
      BY <2>2 DEF UpdateDdEnd, Goto, Jobs, Steps, Slots
    <3> QED
      BY <2>2, <3>1, <1>0 DEF UpdateDdEnd, At, StoreWritten
  <2>3. CASE UpdateClean
    <3>1. job' \in Jobs
      BY <2>3 DEF UpdateClean, Jobs, Steps, Slots
    <3> QED
      BY <2>3, <3>1, <1>0 DEF UpdateClean, At, DropPrev
  <2>4. CASE UpdateSlotDone
    <3>1. job' \in Jobs
      BY <2>4 DEF UpdateSlotDone, Goto, Jobs, Steps, Slots
    <3> QED
      BY <2>4, <3>1, <1>0 DEF UpdateSlotDone, At
  <2>5. CASE UpdateFip
    <3>1. job' \in Jobs
      BY <2>5 DEF UpdateFip, Goto, Jobs, Steps, Slots
    <3>2. fip' \in [main : Images \cup {Torn}, factory : Images \cup {Torn}]
      BY <2>5, <1>0 DEF UpdateFip, At
    <3> QED
      BY <2>5, <3>1, <3>2 DEF UpdateFip
  <2>6. CASE UpdateFipEnd
    <3>1. job' \in Jobs
      BY <2>6 DEF UpdateFipEnd, Goto, Jobs, Steps, Slots
    <3>2. fip' \in [main : Images \cup {Torn}, factory : Images \cup {Torn}]
      BY <2>6, <1>0 DEF UpdateFipEnd, At
    <3> QED
      BY <2>6, <3>1, <3>2 DEF UpdateFipEnd
  <2>7. CASE UpdatePrimary
    <3>1. job' \in Jobs
      BY <2>7 DEF UpdatePrimary, Goto, Jobs, Steps, Slots
    <3> QED
      BY <2>7, <3>1, AttemptsType, <1>0 DEF UpdatePrimary, At, MadePrimary
  <2>8. CASE UpdateAgain
    <3>1. job' \in Jobs
      BY <2>8, OtherType DEF UpdateAgain, Jobs, Steps, Slots
    <3> QED
      BY <2>8, <3>1, AttemptsType, OtherType, <1>0 DEF UpdateAgain, At
  <2>9. CASE UpdateFinish
    <3>1. job' \in Jobs
      BY <2>9, NoJobType DEF UpdateFinish
    <3> QED
      BY <2>9, <3>1, AttemptsType, <1>0 DEF UpdateFinish, At
  <2>10. ASSUME NEW f \in FileIds, UpdateFile(f) PROVE TypeOK'
    <3>1. job' \in Jobs
      BY <2>10 DEF UpdateFile, Jobs, Steps, Slots
    <3> QED
      BY <2>10, <3>1, <1>0 DEF UpdateFile, At, FileWritten
  <2> QED
    BY <1>9, <2>1, <2>2, <2>3, <2>4, <2>5, <2>6, <2>7, <2>8, <2>9, <2>10 DEF UpdateStep
<1>10. CASE InitStep
  <2>1. CASE InitGpt
    <3>1. job' \in Jobs
      BY <2>1 DEF InitGpt, Goto, Jobs, Steps, Slots
    <3>2. gpt' \in [labels : BOOLEAN, layout : {"none", "small", "large"}]
      BY <2>1 DEF InitGpt
    <3>3. store' \in [Slots -> Images \cup {Torn}] /\ userdata' \in {"raw", "fs"}
      BY <2>1, <1>0 DEF InitGpt, StoreTorn
    <3> QED
      BY <2>1, <3>1, <3>2, <3>3 DEF InitGpt
  <2>2. CASE InitFip
    <3>1. job' \in Jobs
      BY <2>2 DEF InitFip, Goto, Jobs, Steps, Slots
    <3>2. fip' \in [main : Images \cup {Torn}, factory : Images \cup {Torn}]
      <4>0. job.image \in Images
        BY <2>2, <1>0 DEF InitFip
      <4>1. CASE fip' = [fip EXCEPT !.main = Torn]
        BY <4>1
      <4>2. CASE fip' = [fip EXCEPT !.main = job.image]
        BY <4>0, <4>2
      <4>a. CASE fip' = [fip EXCEPT !.factory = Torn]
        BY <4>a
      <4>3. CASE fip' = [fip EXCEPT !.factory = job.image]
        BY <4>0, <4>3
      <4> QED
        BY <2>2, <4>1, <4>2, <4>a, <4>3 DEF InitFip
    <3> QED
      BY <2>2, <3>1, <3>2 DEF InitFip
  <2>3. CASE InitEnv
    <3>1. job' \in Jobs
      BY <2>3 DEF InitEnv, Goto, Jobs, Steps, Slots
    <3> QED
      BY <2>3, <3>1, AttemptsType, <1>0 DEF InitEnv, At
  <2>4. CASE InitMkfs
    <3>1. job' \in Jobs
      BY <2>4 DEF InitMkfs, Jobs, Steps, Slots
    <3> QED
      BY <2>4, <3>1, <1>0 DEF InitMkfs, At
  <2>5. CASE InitCopyMarker
    <3>1. job' \in Jobs
      BY <2>5 DEF InitCopyMarker, Jobs, Steps, Slots
    <3> QED
      BY <2>5, <3>1, ModeType, <1>0 DEF InitCopyMarker, At
  <2>6. CASE InitVerify
    <3>1. job' \in Jobs
      BY <2>6 DEF InitVerify, Jobs, Steps, Slots
    <3> QED
      BY <2>6, <3>1, ModeType, <1>0 DEF InitVerify, At, StoreTorn
  <2>7. CASE InitStore
    <3>1. job' \in Jobs
      BY <2>7 DEF InitStore, Goto, Jobs, Steps, Slots
    <3> QED
      BY SMTT(30), <2>7, <3>1, <1>0 DEF InitStore, At, StoreWritten
  <2>8. CASE InitUserdata
    <3>1. job' \in Jobs
      BY <2>8, NoJobType DEF InitUserdata
    <3> QED
      BY <2>8, <3>1, <1>0 DEF InitUserdata, At
  <2>9. ASSUME NEW f \in FileIds, InitCopyFile(f) PROVE TypeOK'
    <3>1. job' \in Jobs
      BY <2>9 DEF InitCopyFile, Jobs, Steps, Slots
    <3> QED
      BY <2>9, <3>1, <1>0 DEF InitCopyFile, At, FileWritten
  <2>10. ASSUME NEW f \in FileIds, InitSlotB(f) PROVE TypeOK'
    <3>1. job' \in Jobs
      BY <2>10 DEF InitSlotB, Jobs, Steps, Slots
    <3> QED
      BY <2>10, <3>1, <1>0 DEF InitSlotB, At, FileWritten
  <2> QED
    BY <1>10, <2>1, <2>2, <2>3, <2>4, <2>5, <2>6, <2>7, <2>8, <2>9, <2>10 DEF InitStep
<1>11. ASSUME NEW i \in Images, NEW b \in Images, StartRauc(i, b) PROVE TypeOK'
  <2>1. job' \in Jobs
    BY <1>11, OtherType DEF StartRauc, Jobs, Kinds, Steps
  <2> QED
    BY <1>11, <2>1, OtherType, AttemptsType DEF StartRauc
<1>12. CASE RaucStep
  <2>1. CASE RaucCheck
    <3>1. job' \in Jobs
      BY <2>1 DEF RaucCheck, Goto, Jobs, Steps, Slots
    <3> QED
      BY <2>1, <3>1, <1>0 DEF RaucCheck, At, StoreTorn
  <2>2. CASE RaucStoreEnd
    <3>1. job' \in Jobs
      BY <2>2 DEF RaucStoreEnd, Goto, Jobs, Steps, Slots
    <3> QED
      BY <2>2, <3>1, <1>0 DEF RaucStoreEnd, At, StoreWritten
  <2>3. CASE RaucPostInstall
    <3>1. job' \in Jobs
      BY <2>3 DEF RaucPostInstall, Jobs, Steps, Slots
    <3> QED
      BY <2>3, <3>1, <1>0 DEF RaucPostInstall, At, DropPrev
  <2>4. CASE RaucMarker
    <3>1. job' \in Jobs
      BY <2>4 DEF RaucMarker, Goto, Jobs, Steps, Slots
    <3> QED
      BY <2>4, <3>1, ModeType, <1>0 DEF RaucMarker, At
  <2>5. CASE RaucFip
    <3>1. job' \in Jobs
      BY <2>5 DEF RaucFip, Goto, Jobs, Steps, Slots
    <3>2. fip' \in [main : Images \cup {Torn}, factory : Images \cup {Torn}]
      BY <2>5, <1>0 DEF RaucFip, At
    <3> QED
      BY <2>5, <3>1, <3>2 DEF RaucFip
  <2>6. CASE RaucFipEnd
    <3>1. job' \in Jobs
      BY <2>6 DEF RaucFipEnd, Goto, Jobs, Steps, Slots
    <3>2. fip' \in [main : Images \cup {Torn}, factory : Images \cup {Torn}]
      BY <2>6, <1>0 DEF RaucFipEnd, At
    <3> QED
      BY <2>6, <3>1, <3>2 DEF RaucFipEnd
  <2>7. CASE RaucPrimary
    <3>1. job' \in Jobs
      BY <2>7, NoJobType DEF RaucPrimary
    <3> QED
      BY <2>7, <3>1, AttemptsType, <1>0 DEF RaucPrimary, At, MadePrimary
  <2>8. ASSUME NEW f \in FileIds, RaucFile(f) PROVE TypeOK'
    <3>1. job' \in Jobs
      BY <2>8 DEF RaucFile, Jobs, Steps, Slots
    <3> QED
      BY <2>8, <3>1, <1>0 DEF RaucFile, At, FileWritten
  <2> QED
    BY <1>12, <2>1, <2>2, <2>3, <2>4, <2>5, <2>6, <2>7, <2>8 DEF RaucStep
<1>13. ASSUME NEW c \in Cores, NEW g \in Images, StartDeploy(c, g) PROVE TypeOK'
  <2>1. job' \in Jobs
    <3>1. {<<c, "boot.itb">>} \in SUBSET FileIds
      BY DEF FileIds
    <3>2. job' = [kind |-> "deploy", step |-> "prev", slot |-> booted, second |-> FALSE,
                  todo |-> {<<c, "boot.itb">>}, image |-> g, boot |-> NoFile]
      BY <1>13 DEF StartDeploy, NoJob
    <3>3. booted \in Slots /\ g \in Images
      OBVIOUS
    <3> HIDE DEF TypeOK
    <3> QED
      BY <3>1, <3>2, <3>3 DEF Jobs, Kinds, Steps
  <2> QED
    BY <1>13, <2>1 DEF StartDeploy
<1>14. CASE DeployStep
  <2>1. CASE DeployFip
    <3>1. job' \in Jobs
      BY <2>1, NoJobType DEF DeployFip, Goto, Jobs, Steps, Slots
    <3>2. fip' \in [main : Images \cup {Torn}, factory : Images \cup {Torn}]
      BY <2>1, <1>0 DEF DeployFip, At
    <3> QED
      BY <2>1, <3>1, <3>2 DEF DeployFip
  <2>2. CASE DeployFipEnd
    <3>1. job' \in Jobs
      BY <2>2, NoJobType DEF DeployFipEnd, Jobs, Steps, Slots
    <3>2. fip' \in [main : Images \cup {Torn}, factory : Images \cup {Torn}]
      BY <2>2, <1>0 DEF DeployFipEnd, At
    <3> QED
      BY <2>2, <3>1, <3>2 DEF DeployFipEnd
  <2>3. ASSUME NEW f \in FileIds, DeployFit(f) PROVE TypeOK'
    <3>1. job' \in Jobs
      BY <2>3 DEF DeployFit, Jobs, Steps, Slots
    <3>2. f[1] \in Cores /\ files[job.slot][f] \in Images \cup {NoFile}
      BY FileIdsType, <1>0
    <3>3. store[job.slot] \in Images
      BY <2>3 DEF DeployFit, At, SlotInv, JobsRunWhereTheyMay, Whole, WholeAs
    <3> QED
      BY <2>3, <3>1, <1>0, <3>2, <3>3 DEF DeployFit, At
  <2> QED
    BY <1>14, <2>1, <2>2, <2>3 DEF DeployStep
<1>15. CASE UNCHANGED vars
  BY <1>15 DEF vars
<1> QED
  BY <1>1, <1>2, <1>3, <1>4, <1>5, <1>6, <1>7, <1>8, <1>9, <1>10, <1>11, <1>12,
     <1>13, <1>14, <1>15 DEF Next, NixBadgeInstall, EmmcInitByHand

\* Every first state is well typed.
LEMMA TypeInit == Init => TypeOK
<1> SUFFICES ASSUME Init PROVE TypeOK
  OBVIOUS
<1>1. CASE BlankDisk
  BY <1>1, NoJobType, AttemptsType DEF Init, TypeOK, BlankDisk, Slots
<1>2. ASSUME NEW i \in Images, OldDisk(i) PROVE TypeOK
  <2>1. Mode(i) \in {"signed", "unsigned"}
    BY ModeType
  <2> QED
    BY <1>2, <2>1, NoJobType, AttemptsType DEF Init, TypeOK, OldDisk, Slots
<1> QED
  BY <1>1, <1>2 DEF Init

\* A slot whose store and files a step leaves alone stays whole, or not.
LEMMA WholeFrame ==
  ASSUME NEW s \in Slots,
         store'[s] = store[s], files'[s] = files[s], prev'[s] = prev[s]
  PROVE  Whole(s)' <=> Whole(s)
BY DEF Whole, WholeAs

\* A step that changes no store and no file changes no slot.
LEMMA WholeSame ==
  UNCHANGED <<store, files, prev>> => \A s \in Slots : Whole(s)' <=> Whole(s)
BY DEF Whole, WholeAs

\* A slot with the files of its store's build and no boot.itb.prev is whole.
LEMMA WholeMade ==
  ASSUME NEW s \in Slots, store[s] \in Images, Blank(s),
         \A f \in FileIds : files[s][f] = store[s]
  PROVE  Whole(s)
BY DEF Whole, WholeAs, Blank

\* Every step keeps SlotInv.
LEMMA SlotStep == TypeOK /\ SlotInv /\ [Next]_vars => SlotInv'
<1> SUFFICES ASSUME TypeOK, SlotInv, [Next]_vars PROVE SlotInv'
  OBVIOUS
<1> USE DEF TypeOK, disk, run, ghost, Jobs
<1>0. /\ JobsRunWhereTheyMay /\ SlotProgress /\ InitProgress /\ BootableIsWhole
      /\ job.slot \in Slots /\ Slots = {"A", "B"}
  BY DEF SlotInv, Slots
<1>1. CASE PowerCut
  <2>1. \A s \in Slots : Whole(s)' <=> Whole(s)
    BY <1>1, WholeSame DEF PowerCut
  <2>2. JobsRunWhereTheyMay'
    BY <1>1, <1>0, <2>1, OtherType DEF PowerCut, JobsRunWhereTheyMay, NoJob
  <2>3. SlotProgress'
    BY <1>1, <1>0, <2>1, OtherType DEF PowerCut, SlotProgress, NoJob, SlotWriterSteps, Blank, Filled
  <2>4. InitProgress'
    BY <1>1, <1>0, <2>1, OtherType DEF PowerCut, InitProgress, NoJob, Blank
  <2>5. BootableIsWhole'
    BY <1>1, <1>0, <2>1, OtherType DEF PowerCut, BootableIsWhole
  <2> QED
    BY <2>2, <2>3, <2>4, <2>5 DEF SlotInv
<1>2. CASE JobFails
  <2>1. \A s \in Slots : Whole(s)' <=> Whole(s)
    BY <1>2, WholeSame DEF JobFails
  <2>2. JobsRunWhereTheyMay'
    BY <1>2, <1>0, <2>1, OtherType DEF JobFails, JobsRunWhereTheyMay, NoJob
  <2>3. SlotProgress'
    BY <1>2, <1>0, <2>1, OtherType DEF JobFails, SlotProgress, NoJob, SlotWriterSteps, Blank, Filled
  <2>4. InitProgress'
    BY <1>2, <1>0, <2>1, OtherType DEF JobFails, InitProgress, NoJob, Blank
  <2>5. BootableIsWhole'
    BY <1>2, <1>0, <2>1, OtherType DEF JobFails, BootableIsWhole
  <2> QED
    BY <2>2, <2>3, <2>4, <2>5 DEF SlotInv
<1>3. CASE MarkGoodSd
  <2>1. \A s \in Slots : Whole(s)' <=> Whole(s)
    BY <1>3, WholeSame DEF MarkGoodSd
  <2>2. JobsRunWhereTheyMay'
    BY <1>3, <1>0, <2>1, OtherType DEF MarkGoodSd, JobsRunWhereTheyMay, NoJob
  <2>3. SlotProgress'
    BY <1>3, <1>0, <2>1, OtherType DEF MarkGoodSd, SlotProgress, NoJob, SlotWriterSteps, Blank, Filled
  <2>4. InitProgress'
    BY <1>3, <1>0, <2>1, OtherType DEF MarkGoodSd, InitProgress, NoJob, Blank
  <2>5. BootableIsWhole'
    BY <1>3, <1>0, <2>1, OtherType DEF MarkGoodSd, BootableIsWhole
  <2> QED
    BY <2>2, <2>3, <2>4, <2>5 DEF SlotInv
<1>4. CASE MarkGood
  <2>1. \A s \in Slots : Whole(s)' <=> Whole(s)
    BY <1>4, WholeSame DEF MarkGood
  <2>2. JobsRunWhereTheyMay'
    BY <1>4, <1>0, <2>1, OtherType DEF MarkGood, JobsRunWhereTheyMay, NoJob
  <2>3. SlotProgress'
    BY <1>4, <1>0, <2>1, OtherType DEF MarkGood, SlotProgress, JobsRunWhereTheyMay, Blank, Filled
  <2>4. InitProgress'
    BY <1>4, <1>0, <2>1, OtherType DEF MarkGood, InitProgress, NoJob, Blank
  <2>5. BootableIsWhole'
    BY <1>4, <1>0, <2>1, OtherType DEF MarkGood, BootableIsWhole, SlotProgress, JobsRunWhereTheyMay
  <2> QED
    BY <2>2, <2>3, <2>4, <2>5 DEF SlotInv
<1>5. ASSUME NEW i \in Images, BootSd(i) PROVE SlotInv'
  <2>1. \A s \in Slots : Whole(s)' <=> Whole(s)
    BY <1>5, WholeSame DEF BootSd
  <2>2. JobsRunWhereTheyMay'
    BY <1>5, <1>0, <2>1, OtherType DEF BootSd, JobsRunWhereTheyMay, NoJob
  <2>3. SlotProgress'
    BY <1>5, <1>0, <2>1, OtherType DEF BootSd, SlotProgress, NoJob, SlotWriterSteps, Blank, Filled
  <2>4. InitProgress'
    BY <1>5, <1>0, <2>1, OtherType DEF BootSd, InitProgress, NoJob, Blank
  <2>5. BootableIsWhole'
    BY <1>5, <1>0, <2>1, OtherType DEF BootSd, BootableIsWhole
  <2> QED
    BY <2>2, <2>3, <2>4, <2>5 DEF SlotInv
<1>6. ASSUME NEW up \in BOOLEAN, BootEmmc(up) PROVE SlotInv'
  <2>1. \A s \in Slots : Whole(s)' <=> Whole(s)
    BY <1>6, WholeSame DEF BootEmmc
  <2>2. job.kind = "none" /\ Pick \in Slots
    BY <1>6, <1>0, OtherType DEF BootEmmc, JobsRunWhereTheyMay, Kinds, Pick
  <2>3. \A s \in Slots : left'[s] > 0 => left[s] > 0
    BY <1>6, <2>2 DEF BootEmmc, Attempts
  <2>4. JobsRunWhereTheyMay'
    BY <1>6, <2>1, <2>2 DEF BootEmmc, JobsRunWhereTheyMay
  <2>5. SlotProgress' /\ InitProgress'
    BY <1>6, <2>2 DEF BootEmmc, SlotProgress, InitProgress
  <2>6. BootableIsWhole'
    BY <1>6, <1>0, <2>1, <2>3 DEF BootEmmc, BootableIsWhole
  <2> QED
    BY <2>4, <2>5, <2>6 DEF SlotInv
<1>7. CASE StartUpdate
  <2>1. \A s \in Slots : Whole(s)' <=> Whole(s)
    BY <1>7, WholeSame DEF StartUpdate
  <2>2. JobsRunWhereTheyMay'
    BY <1>7, <1>0, <2>1, OtherType DEF StartUpdate, JobsRunWhereTheyMay, NoJob
  <2>3. SlotProgress'
    <3>1. Pick \in Slots /\ left[Pick] > 0 /\ envok
      BY <1>7, OtherType DEF StartUpdate, Detect, Pick
    <3>2. left'[Other(Pick)] = 0 /\ left'[Pick] = left[Pick]
      BY <1>7, <3>1, OtherType, AttemptsType DEF StartUpdate
    <3>3. /\ job' = [kind |-> "update", step |-> "dd", slot |-> Other(Pick), second |-> FALSE,
                     todo |-> {}, image |-> sdimage, boot |-> sdimage]
          /\ envok'
      BY <1>7, <3>1 DEF StartUpdate
    <3> QED
      BY <3>1, <3>2, <3>3, OtherType DEF SlotProgress, SlotWriterSteps
  <2>4. InitProgress'
    BY <1>7, <1>0, <2>1, OtherType DEF StartUpdate, InitProgress, NoJob, Blank
  <2>5. BootableIsWhole'
    BY <1>7, <1>0, <2>1, OtherType DEF StartUpdate, BootableIsWhole
  <2> QED
    BY <2>2, <2>3, <2>4, <2>5 DEF SlotInv
<1>8. CASE StartInit
  <2>1. \A s \in Slots : Whole(s)' <=> Whole(s)
    BY <1>8, WholeSame DEF StartInit
  <2>2. JobsRunWhereTheyMay'
    BY <1>8, <1>0, <2>1, OtherType DEF StartInit, JobsRunWhereTheyMay, NoJob
  <2>3. SlotProgress'
    BY <1>8, <1>0, <2>1, OtherType DEF StartInit, SlotProgress, NoJob, SlotWriterSteps, Blank, Filled
  <2>4. InitProgress'
    BY <1>8, <1>0, <2>1, OtherType DEF StartInit, InitProgress, NoJob, Blank
  <2>5. BootableIsWhole'
    BY <1>8, <1>0, <2>1, OtherType DEF StartInit, BootableIsWhole
  <2> QED
    BY <2>2, <2>3, <2>4, <2>5 DEF SlotInv
<1>9. CASE UpdateStep
  <2>1. CASE UpdateDd
    <3>1. \A s \in Slots : s # job.slot => (Whole(s)' <=> Whole(s))
      BY <2>1, <1>0, WholeFrame DEF UpdateDd, At, StoreTorn, Goto
    <3>2. JobsRunWhereTheyMay'
      BY <2>1, <1>0, <3>1, OtherType DEF UpdateDd, At, StoreTorn, Goto, JobsRunWhereTheyMay, NoJob
    <3>3. SlotProgress'
      BY <2>1, <1>0, <3>1, OtherType DEF UpdateDd, At, StoreTorn, Goto, SlotProgress, NoJob, SlotWriterSteps, Blank, Filled
    <3>4. InitProgress'
      BY <2>1, <1>0, <3>1, OtherType DEF UpdateDd, At, StoreTorn, Goto, InitProgress, NoJob, Blank
    <3>5. BootableIsWhole'
      BY <2>1, <1>0, <3>1, OtherType DEF UpdateDd, At, StoreTorn, Goto, BootableIsWhole, SlotProgress, JobsRunWhereTheyMay
    <3> QED
      BY <3>2, <3>3, <3>4, <3>5 DEF SlotInv
  <2>2. CASE UpdateDdEnd
    <3>1. \A s \in Slots : s # job.slot => (Whole(s)' <=> Whole(s))
      BY <2>2, <1>0, WholeFrame DEF UpdateDdEnd, At, StoreWritten, Goto
    <3>2. JobsRunWhereTheyMay'
      BY <2>2, <1>0, <3>1, OtherType DEF UpdateDdEnd, At, StoreWritten, Goto, JobsRunWhereTheyMay, NoJob
    <3>3. SlotProgress'
      BY <2>2, <1>0, <3>1, OtherType DEF UpdateDdEnd, At, StoreWritten, Goto, SlotProgress, NoJob, SlotWriterSteps, Blank, Filled
    <3>4. InitProgress'
      BY <2>2, <1>0, <3>1, OtherType DEF UpdateDdEnd, At, StoreWritten, Goto, InitProgress, NoJob, Blank
    <3>5. BootableIsWhole'
      BY <2>2, <1>0, <3>1, OtherType DEF UpdateDdEnd, At, StoreWritten, Goto, BootableIsWhole, SlotProgress, JobsRunWhereTheyMay
    <3> QED
      BY <3>2, <3>3, <3>4, <3>5 DEF SlotInv
  <2>3. CASE UpdateClean
    <3>1. \A s \in Slots : s # job.slot => (Whole(s)' <=> Whole(s))
      BY <2>3, <1>0, WholeFrame DEF UpdateClean, At, DropPrev
    <3>2. JobsRunWhereTheyMay'
      BY <2>3, <1>0, <3>1, OtherType DEF UpdateClean, At, DropPrev, JobsRunWhereTheyMay, NoJob
    <3>3. SlotProgress'
      BY <2>3, <1>0, <3>1, OtherType DEF UpdateClean, At, DropPrev, SlotProgress, NoJob, SlotWriterSteps, Blank, Filled
    <3>4. InitProgress'
      BY <2>3, <1>0, <3>1, OtherType DEF UpdateClean, At, DropPrev, InitProgress, NoJob, Blank
    <3>5. BootableIsWhole'
      BY <2>3, <1>0, <3>1, OtherType DEF UpdateClean, At, DropPrev, BootableIsWhole, SlotProgress, JobsRunWhereTheyMay
    <3> QED
      BY <3>2, <3>3, <3>4, <3>5 DEF SlotInv
  <2>4. CASE UpdateSlotDone
    <3>1. \A s \in Slots : Whole(s)' <=> Whole(s)
      BY <2>4, WholeSame DEF UpdateSlotDone
    <3>2. JobsRunWhereTheyMay'
      BY <2>4, <1>0, <3>1, OtherType DEF UpdateSlotDone, At, Goto, JobsRunWhereTheyMay, NoJob
    <3>3. SlotProgress'
      BY <2>4, <1>0, <3>1, OtherType DEF UpdateSlotDone, At, Goto, SlotProgress, NoJob, SlotWriterSteps, Blank, Filled
    <3>4. InitProgress'
      BY <2>4, <1>0, <3>1, OtherType DEF UpdateSlotDone, At, Goto, InitProgress, NoJob, Blank
    <3>5. BootableIsWhole'
      BY <2>4, <1>0, <3>1, OtherType DEF UpdateSlotDone, At, Goto, BootableIsWhole
    <3> QED
      BY <3>2, <3>3, <3>4, <3>5 DEF SlotInv
  <2>5. CASE UpdateFip
    <3>1. \A s \in Slots : Whole(s)' <=> Whole(s)
      BY <2>5, WholeSame DEF UpdateFip
    <3>2. JobsRunWhereTheyMay'
      BY <2>5, <1>0, <3>1, OtherType DEF UpdateFip, At, Goto, JobsRunWhereTheyMay, NoJob
    <3>3. SlotProgress'
      BY <2>5, <1>0, <3>1, OtherType DEF UpdateFip, At, Goto, SlotProgress, NoJob, SlotWriterSteps, Blank, Filled
    <3>4. InitProgress'
      BY <2>5, <1>0, <3>1, OtherType DEF UpdateFip, At, Goto, InitProgress, NoJob, Blank
    <3>5. BootableIsWhole'
      BY <2>5, <1>0, <3>1, OtherType DEF UpdateFip, At, Goto, BootableIsWhole
    <3> QED
      BY <3>2, <3>3, <3>4, <3>5 DEF SlotInv
  <2>6. CASE UpdateFipEnd
    <3>1. \A s \in Slots : Whole(s)' <=> Whole(s)
      BY <2>6, WholeSame DEF UpdateFipEnd
    <3>2. JobsRunWhereTheyMay'
      BY <2>6, <1>0, <3>1, OtherType DEF UpdateFipEnd, At, Goto, JobsRunWhereTheyMay, NoJob
    <3>3. SlotProgress'
      BY <2>6, <1>0, <3>1, OtherType DEF UpdateFipEnd, At, Goto, SlotProgress, NoJob, SlotWriterSteps, Blank, Filled
    <3>4. InitProgress'
      BY <2>6, <1>0, <3>1, OtherType DEF UpdateFipEnd, At, Goto, InitProgress, NoJob, Blank
    <3>5. BootableIsWhole'
      BY <2>6, <1>0, <3>1, OtherType DEF UpdateFipEnd, At, Goto, BootableIsWhole
    <3> QED
      BY <3>2, <3>3, <3>4, <3>5 DEF SlotInv
  <2>7. CASE UpdatePrimary
    <3>0. Whole(job.slot)
      BY <2>7, <1>0, WholeMade
      DEF UpdatePrimary, At, SlotProgress, JobsRunWhereTheyMay, Blank, Filled
    <3>1. \A s \in Slots : Whole(s)' <=> Whole(s)
      BY <2>7, WholeSame DEF UpdatePrimary
    <3>2. JobsRunWhereTheyMay'
      BY <2>7, <1>0, <3>1, OtherType DEF UpdatePrimary, At, MadePrimary, Goto, JobsRunWhereTheyMay, NoJob
    <3>3. SlotProgress'
      BY <2>7, <1>0, <3>1, <3>0, OtherType DEF UpdatePrimary, At, MadePrimary, Goto, SlotProgress, NoJob, SlotWriterSteps, Blank, Filled
    <3>4. InitProgress'
      BY <2>7, <1>0, <3>1, OtherType DEF UpdatePrimary, At, MadePrimary, Goto, InitProgress, NoJob, Blank
    <3>5. BootableIsWhole'
      BY <2>7, <1>0, <3>1, <3>0, OtherType DEF UpdatePrimary, At, MadePrimary, Goto, BootableIsWhole, SlotProgress, JobsRunWhereTheyMay
    <3> QED
      BY <3>2, <3>3, <3>4, <3>5 DEF SlotInv
  <2>8. CASE UpdateAgain
    <3>0. Whole(job.slot)
      BY <2>8, <1>0, WholeMade
      DEF UpdateAgain, At, SlotProgress, JobsRunWhereTheyMay, Blank, Filled
    <3>1. \A s \in Slots : Whole(s)' <=> Whole(s)
      BY <2>8, WholeSame DEF UpdateAgain
    <3>2. JobsRunWhereTheyMay'
      BY <2>8, <1>0, <3>1, OtherType DEF UpdateAgain, At, JobsRunWhereTheyMay, NoJob
    <3>3. SlotProgress'
      BY <2>8, <1>0, <3>1, <3>0, OtherType DEF UpdateAgain, At, SlotProgress, NoJob, SlotWriterSteps, Blank, Filled
    <3>4. InitProgress'
      BY <2>8, <1>0, <3>1, OtherType DEF UpdateAgain, At, InitProgress, NoJob, Blank
    <3>5. BootableIsWhole'
      BY <2>8, <1>0, <3>1, <3>0, OtherType DEF UpdateAgain, At, BootableIsWhole
    <3> QED
      BY <3>2, <3>3, <3>4, <3>5 DEF SlotInv
  <2>9. CASE UpdateFinish
    <3>0. Whole(job.slot)
      BY <2>9, <1>0, WholeMade
      DEF UpdateFinish, At, SlotProgress, JobsRunWhereTheyMay, Blank, Filled
    <3>1. \A s \in Slots : Whole(s)' <=> Whole(s)
      BY <2>9, WholeSame DEF UpdateFinish
    <3>2. JobsRunWhereTheyMay'
      BY <2>9, <1>0, <3>1, OtherType DEF UpdateFinish, At, JobsRunWhereTheyMay, NoJob
    <3>3. SlotProgress'
      BY <2>9, <1>0, <3>1, <3>0, OtherType DEF UpdateFinish, At, SlotProgress, NoJob, SlotWriterSteps, Blank, Filled
    <3>4. InitProgress'
      BY <2>9, <1>0, <3>1, OtherType DEF UpdateFinish, At, InitProgress, NoJob, Blank
    <3>5. BootableIsWhole'
      BY <2>9, <1>0, <3>1, <3>0, OtherType DEF UpdateFinish, At, BootableIsWhole, SlotProgress, JobsRunWhereTheyMay
    <3> QED
      BY <3>2, <3>3, <3>4, <3>5 DEF SlotInv
  <2>10. ASSUME NEW f \in FileIds, UpdateFile(f) PROVE SlotInv'
    <3>1. \A s \in Slots : s # job.slot => (Whole(s)' <=> Whole(s))
      BY <2>10, <1>0, WholeFrame DEF UpdateFile, At, FileWritten
    <3>2. JobsRunWhereTheyMay'
      BY <2>10, <1>0, <3>1, OtherType DEF UpdateFile, At, FileWritten, JobsRunWhereTheyMay, NoJob
    <3>3. SlotProgress'
      BY <2>10, <1>0, <3>1, OtherType DEF UpdateFile, At, FileWritten, SlotProgress, NoJob, SlotWriterSteps, Blank, Filled
    <3>4. InitProgress'
      BY <2>10, <1>0, <3>1, OtherType DEF UpdateFile, At, FileWritten, InitProgress, NoJob, Blank
    <3>5. BootableIsWhole'
      BY <2>10, <1>0, <3>1, OtherType DEF UpdateFile, At, FileWritten, BootableIsWhole, SlotProgress, JobsRunWhereTheyMay
    <3> QED
      BY <3>2, <3>3, <3>4, <3>5 DEF SlotInv
  <2> QED
    BY <1>9, <2>1, <2>2, <2>3, <2>4, <2>5, <2>6, <2>7, <2>8, <2>9, <2>10 DEF UpdateStep
<1>10. CASE InitStep
  <2>1. CASE InitGpt
    <3>2. JobsRunWhereTheyMay'
      BY <2>1, <1>0 DEF InitGpt, At, StoreTorn, Goto, JobsRunWhereTheyMay, NoJob
    <3>3. SlotProgress'
      BY <2>1, <1>0 DEF InitGpt, At, StoreTorn, Goto, SlotProgress, NoJob, SlotWriterSteps, Blank, Filled
    <3>4. InitProgress'
      BY <2>1, <1>0 DEF InitGpt, At, StoreTorn, Goto, InitProgress, NoJob, Blank
    <3>5. BootableIsWhole'
      BY <2>1, <1>0 DEF InitGpt, At, BootableIsWhole, JobsRunWhereTheyMay
    <3> QED
      BY <3>2, <3>3, <3>4, <3>5 DEF SlotInv
  <2>2. CASE InitFip
    <3>2. JobsRunWhereTheyMay'
      BY <2>2, <1>0 DEF InitFip, Goto, JobsRunWhereTheyMay, NoJob
    <3>3. SlotProgress'
      BY <2>2, <1>0 DEF InitFip, Goto, SlotProgress, NoJob, SlotWriterSteps, Blank, Filled
    <3>4. InitProgress'
      <4>1. CASE job.step \in {"factory", "factoryend"}
        BY <2>2, <1>0, <4>1 DEF InitFip, Goto, InitProgress, Blank
      <4>2. CASE job.step \in {"fip", "fipend"}
        BY <2>2, <1>0, <4>2 DEF InitFip, Goto, InitProgress
      <4> QED
        BY <2>2, <4>1, <4>2 DEF InitFip
    <3>5. BootableIsWhole'
      BY <2>2, <1>0 DEF InitFip, At, BootableIsWhole, JobsRunWhereTheyMay
    <3> QED
      BY <3>2, <3>3, <3>4, <3>5 DEF SlotInv
  <2>3. CASE InitEnv
    <3>2. JobsRunWhereTheyMay'
      BY <2>3, <1>0 DEF InitEnv, At, Goto, JobsRunWhereTheyMay, NoJob
    <3>3. SlotProgress'
      BY <2>3, <1>0 DEF InitEnv, At, Goto, SlotProgress, NoJob, SlotWriterSteps, Blank, Filled
    <3>4. InitProgress'
      BY <2>3, <1>0 DEF InitEnv, At, Goto, InitProgress, NoJob, Blank
    <3>5. BootableIsWhole'
      BY <2>3, <1>0 DEF InitEnv, At, BootableIsWhole, JobsRunWhereTheyMay
    <3> QED
      BY <3>2, <3>3, <3>4, <3>5 DEF SlotInv
  <2>4. CASE InitMkfs
    <3>2. JobsRunWhereTheyMay'
      BY <2>4, <1>0 DEF InitMkfs, At, JobsRunWhereTheyMay, NoJob
    <3>3. SlotProgress'
      BY <2>4, <1>0 DEF InitMkfs, At, SlotProgress, NoJob, SlotWriterSteps, Blank, Filled
    <3>4. InitProgress'
      BY <2>4, <1>0 DEF InitMkfs, At, InitProgress, NoJob, Blank
    <3>5. BootableIsWhole'
      BY <2>4, <1>0 DEF InitMkfs, At, BootableIsWhole, JobsRunWhereTheyMay
    <3> QED
      BY <3>2, <3>3, <3>4, <3>5 DEF SlotInv
  <2>5. CASE InitCopyMarker
    <3>2. JobsRunWhereTheyMay'
      BY <2>5, <1>0 DEF InitCopyMarker, At, JobsRunWhereTheyMay, NoJob
    <3>3. SlotProgress'
      BY <2>5, <1>0 DEF InitCopyMarker, At, SlotProgress, NoJob, SlotWriterSteps, Blank, Filled
    <3>4. InitProgress'
      BY <2>5, <1>0 DEF InitCopyMarker, At, InitProgress, NoJob, Blank
    <3>5. BootableIsWhole'
      BY <2>5, <1>0 DEF InitCopyMarker, At, BootableIsWhole, JobsRunWhereTheyMay
    <3> QED
      BY <3>2, <3>3, <3>4, <3>5 DEF SlotInv
  <2>6. CASE InitVerify
    <3>2. JobsRunWhereTheyMay'
      BY <2>6, <1>0 DEF InitVerify, At, StoreTorn, JobsRunWhereTheyMay, NoJob
    <3>3. SlotProgress'
      BY <2>6, <1>0 DEF InitVerify, At, StoreTorn, SlotProgress, NoJob, SlotWriterSteps, Blank, Filled
    <3>4. InitProgress'
      BY <2>6, <1>0 DEF InitVerify, At, StoreTorn, InitProgress, NoJob, Blank
    <3>5. BootableIsWhole'
      BY <2>6, <1>0 DEF InitVerify, At, BootableIsWhole, JobsRunWhereTheyMay
    <3> QED
      BY <3>2, <3>3, <3>4, <3>5 DEF SlotInv
  <2>7. CASE InitStore
    <3>2. JobsRunWhereTheyMay'
      BY <2>7, <1>0 DEF InitStore, At, StoreWritten, Goto, JobsRunWhereTheyMay, NoJob
    <3>3. SlotProgress'
      BY <2>7, <1>0 DEF InitStore, At, StoreWritten, Goto, SlotProgress, NoJob, SlotWriterSteps, Blank, Filled
    <3>4. InitProgress'
      BY <2>7, <1>0 DEF InitStore, At, StoreWritten, Goto, InitProgress, NoJob, Blank
    <3>5. BootableIsWhole'
      BY <2>7, <1>0 DEF InitStore, At, BootableIsWhole, JobsRunWhereTheyMay
    <3> QED
      BY <3>2, <3>3, <3>4, <3>5 DEF SlotInv
  <2>8. CASE InitUserdata
    <3>2. JobsRunWhereTheyMay'
      BY <2>8, <1>0 DEF InitUserdata, At, JobsRunWhereTheyMay, NoJob
    <3>3. SlotProgress'
      BY <2>8, <1>0 DEF InitUserdata, At, SlotProgress, NoJob, SlotWriterSteps, Blank, Filled
    <3>4. InitProgress'
      BY <2>8, <1>0 DEF InitUserdata, At, InitProgress, NoJob, Blank
    <3>5. BootableIsWhole'
      BY <2>8, <1>0, WholeMade DEF InitUserdata, At, BootableIsWhole, InitProgress, Whole, WholeAs, Blank
    <3> QED
      BY <3>2, <3>3, <3>4, <3>5 DEF SlotInv
  <2>9. ASSUME NEW f \in FileIds, InitCopyFile(f) PROVE SlotInv'
    <3>2. JobsRunWhereTheyMay'
      BY <2>9, <1>0 DEF InitCopyFile, At, FileWritten, JobsRunWhereTheyMay, NoJob
    <3>3. SlotProgress'
      BY <2>9, <1>0 DEF InitCopyFile, At, FileWritten, SlotProgress, NoJob, SlotWriterSteps, Blank, Filled
    <3>4. InitProgress'
      BY <2>9, <1>0 DEF InitCopyFile, At, FileWritten, InitProgress, NoJob, Blank
    <3>5. BootableIsWhole'
      BY <2>9, <1>0 DEF InitCopyFile, At, BootableIsWhole, JobsRunWhereTheyMay
    <3> QED
      BY <3>2, <3>3, <3>4, <3>5 DEF SlotInv
  <2>10. ASSUME NEW f \in FileIds, InitSlotB(f) PROVE SlotInv'
    <3>2. JobsRunWhereTheyMay'
      BY <2>10, <1>0 DEF InitSlotB, At, FileWritten, JobsRunWhereTheyMay, NoJob
    <3>3. SlotProgress'
      BY <2>10, <1>0 DEF InitSlotB, At, FileWritten, SlotProgress, NoJob, SlotWriterSteps, Blank, Filled
    <3>4. InitProgress'
      BY <2>10, <1>0 DEF InitSlotB, At, FileWritten, InitProgress, NoJob, Blank
    <3>5. BootableIsWhole'
      BY <2>10, <1>0 DEF InitSlotB, At, BootableIsWhole, JobsRunWhereTheyMay
    <3> QED
      BY <3>2, <3>3, <3>4, <3>5 DEF SlotInv
  <2> QED
    BY <1>10, <2>1, <2>2, <2>3, <2>4, <2>5, <2>6, <2>7, <2>8, <2>9, <2>10 DEF InitStep
<1>11. ASSUME NEW i \in Images, NEW b \in Images, StartRauc(i, b) PROVE SlotInv'
  <2>1. \A s \in Slots : Whole(s)' <=> Whole(s)
    BY <1>11, WholeSame DEF StartRauc
  <2>2. JobsRunWhereTheyMay'
    BY <1>11, <1>0, <2>1, OtherType DEF StartRauc, JobsRunWhereTheyMay, NoJob
  <2>3. SlotProgress'
    BY <1>11, <1>0, <2>1, OtherType DEF StartRauc, SlotProgress, NoJob, SlotWriterSteps, Blank, Filled
  <2>4. InitProgress'
    BY <1>11, <1>0, <2>1, OtherType DEF StartRauc, InitProgress, NoJob, Blank
  <2>5. BootableIsWhole'
    BY <1>11, <1>0, <2>1, OtherType DEF StartRauc, BootableIsWhole
  <2> QED
    BY <2>2, <2>3, <2>4, <2>5 DEF SlotInv
<1>12. CASE RaucStep
  <2>1. CASE RaucCheck
    <3>1. \A s \in Slots : s # job.slot => (Whole(s)' <=> Whole(s))
      BY <2>1, <1>0, WholeFrame DEF RaucCheck, At, StoreTorn, Goto
    <3>2. JobsRunWhereTheyMay'
      BY <2>1, <1>0, <3>1, OtherType DEF RaucCheck, At, StoreTorn, Goto, JobsRunWhereTheyMay, NoJob
    <3>3. SlotProgress'
      BY <2>1, <1>0, <3>1, OtherType DEF RaucCheck, At, StoreTorn, Goto, SlotProgress, NoJob, SlotWriterSteps, Blank, Filled
    <3>4. InitProgress'
      BY <2>1, <1>0, <3>1, OtherType DEF RaucCheck, At, StoreTorn, Goto, InitProgress, NoJob, Blank
    <3>5. BootableIsWhole'
      BY <2>1, <1>0, <3>1, OtherType DEF RaucCheck, At, StoreTorn, Goto, BootableIsWhole, SlotProgress, JobsRunWhereTheyMay
    <3> QED
      BY <3>2, <3>3, <3>4, <3>5 DEF SlotInv
  <2>2. CASE RaucStoreEnd
    <3>1. \A s \in Slots : s # job.slot => (Whole(s)' <=> Whole(s))
      BY <2>2, <1>0, WholeFrame DEF RaucStoreEnd, At, StoreWritten, Goto
    <3>2. JobsRunWhereTheyMay'
      BY <2>2, <1>0, <3>1, OtherType DEF RaucStoreEnd, At, StoreWritten, Goto, JobsRunWhereTheyMay, NoJob
    <3>3. SlotProgress'
      BY <2>2, <1>0, <3>1, OtherType DEF RaucStoreEnd, At, StoreWritten, Goto, SlotProgress, NoJob, SlotWriterSteps, Blank, Filled
    <3>4. InitProgress'
      BY <2>2, <1>0, <3>1, OtherType DEF RaucStoreEnd, At, StoreWritten, Goto, InitProgress, NoJob, Blank
    <3>5. BootableIsWhole'
      BY <2>2, <1>0, <3>1, OtherType DEF RaucStoreEnd, At, StoreWritten, Goto, BootableIsWhole, SlotProgress, JobsRunWhereTheyMay
    <3> QED
      BY <3>2, <3>3, <3>4, <3>5 DEF SlotInv
  <2>3. CASE RaucPostInstall
    <3>1. \A s \in Slots : s # job.slot => (Whole(s)' <=> Whole(s))
      BY <2>3, <1>0, WholeFrame DEF RaucPostInstall, At, DropPrev
    <3>2. JobsRunWhereTheyMay'
      BY <2>3, <1>0, <3>1, OtherType DEF RaucPostInstall, At, DropPrev, JobsRunWhereTheyMay, NoJob
    <3>3. SlotProgress'
      BY <2>3, <1>0, <3>1, OtherType DEF RaucPostInstall, At, DropPrev, SlotProgress, NoJob, SlotWriterSteps, Blank, Filled
    <3>4. InitProgress'
      BY <2>3, <1>0, <3>1, OtherType DEF RaucPostInstall, At, DropPrev, InitProgress, NoJob, Blank
    <3>5. BootableIsWhole'
      BY <2>3, <1>0, <3>1, OtherType DEF RaucPostInstall, At, DropPrev, BootableIsWhole, SlotProgress, JobsRunWhereTheyMay
    <3> QED
      BY <3>2, <3>3, <3>4, <3>5 DEF SlotInv
  <2>4. CASE RaucMarker
    <3>1. \A s \in Slots : Whole(s)' <=> Whole(s)
      BY <2>4, WholeSame DEF RaucMarker
    <3>2. JobsRunWhereTheyMay'
      BY <2>4, <1>0, <3>1, OtherType DEF RaucMarker, At, Goto, JobsRunWhereTheyMay, NoJob
    <3>3. SlotProgress'
      BY <2>4, <1>0, <3>1, OtherType DEF RaucMarker, At, Goto, SlotProgress, NoJob, SlotWriterSteps, Blank, Filled
    <3>4. InitProgress'
      BY <2>4, <1>0, <3>1, OtherType DEF RaucMarker, At, Goto, InitProgress, NoJob, Blank
    <3>5. BootableIsWhole'
      BY <2>4, <1>0, <3>1, OtherType DEF RaucMarker, At, Goto, BootableIsWhole
    <3> QED
      BY <3>2, <3>3, <3>4, <3>5 DEF SlotInv
  <2>5. CASE RaucFip
    <3>1. \A s \in Slots : Whole(s)' <=> Whole(s)
      BY <2>5, WholeSame DEF RaucFip
    <3>2. JobsRunWhereTheyMay'
      BY <2>5, <1>0, <3>1, OtherType DEF RaucFip, At, Goto, JobsRunWhereTheyMay, NoJob
    <3>3. SlotProgress'
      BY <2>5, <1>0, <3>1, OtherType DEF RaucFip, At, Goto, SlotProgress, NoJob, SlotWriterSteps, Blank, Filled
    <3>4. InitProgress'
      BY <2>5, <1>0, <3>1, OtherType DEF RaucFip, At, Goto, InitProgress, NoJob, Blank
    <3>5. BootableIsWhole'
      BY <2>5, <1>0, <3>1, OtherType DEF RaucFip, At, Goto, BootableIsWhole
    <3> QED
      BY <3>2, <3>3, <3>4, <3>5 DEF SlotInv
  <2>6. CASE RaucFipEnd
    <3>1. \A s \in Slots : Whole(s)' <=> Whole(s)
      BY <2>6, WholeSame DEF RaucFipEnd
    <3>2. JobsRunWhereTheyMay'
      BY <2>6, <1>0, <3>1, OtherType DEF RaucFipEnd, At, Goto, JobsRunWhereTheyMay, NoJob
    <3>3. SlotProgress'
      BY <2>6, <1>0, <3>1, OtherType DEF RaucFipEnd, At, Goto, SlotProgress, NoJob, SlotWriterSteps, Blank, Filled
    <3>4. InitProgress'
      BY <2>6, <1>0, <3>1, OtherType DEF RaucFipEnd, At, Goto, InitProgress, NoJob, Blank
    <3>5. BootableIsWhole'
      BY <2>6, <1>0, <3>1, OtherType DEF RaucFipEnd, At, Goto, BootableIsWhole
    <3> QED
      BY <3>2, <3>3, <3>4, <3>5 DEF SlotInv
  <2>7. CASE RaucPrimary
    <3>0. Whole(job.slot)
      BY <2>7, <1>0, WholeMade
      DEF RaucPrimary, At, SlotProgress, JobsRunWhereTheyMay, Blank, Filled
    <3>1. \A s \in Slots : Whole(s)' <=> Whole(s)
      BY <2>7, WholeSame DEF RaucPrimary
    <3>2. JobsRunWhereTheyMay'
      BY <2>7, <1>0, <3>1, OtherType DEF RaucPrimary, At, MadePrimary, JobsRunWhereTheyMay, NoJob
    <3>3. SlotProgress'
      BY <2>7, <1>0, <3>1, <3>0, OtherType DEF RaucPrimary, At, MadePrimary, SlotProgress, NoJob, SlotWriterSteps, Blank, Filled
    <3>4. InitProgress'
      BY <2>7, <1>0, <3>1, OtherType DEF RaucPrimary, At, MadePrimary, InitProgress, NoJob, Blank
    <3>5. BootableIsWhole'
      BY <2>7, <1>0, <3>1, <3>0, OtherType DEF RaucPrimary, At, MadePrimary, BootableIsWhole, SlotProgress, JobsRunWhereTheyMay
    <3> QED
      BY <3>2, <3>3, <3>4, <3>5 DEF SlotInv
  <2>8. ASSUME NEW f \in FileIds, RaucFile(f) PROVE SlotInv'
    <3>1. \A s \in Slots : s # job.slot => (Whole(s)' <=> Whole(s))
      BY <2>8, <1>0, WholeFrame DEF RaucFile, At, FileWritten
    <3>2. JobsRunWhereTheyMay'
      BY <2>8, <1>0, <3>1, OtherType DEF RaucFile, At, FileWritten, JobsRunWhereTheyMay, NoJob
    <3>3. SlotProgress'
      BY <2>8, <1>0, <3>1, OtherType DEF RaucFile, At, FileWritten, SlotProgress, NoJob, SlotWriterSteps, Blank, Filled
    <3>4. InitProgress'
      BY <2>8, <1>0, <3>1, OtherType DEF RaucFile, At, FileWritten, InitProgress, NoJob, Blank
    <3>5. BootableIsWhole'
      BY <2>8, <1>0, <3>1, OtherType DEF RaucFile, At, FileWritten, BootableIsWhole, SlotProgress, JobsRunWhereTheyMay
    <3> QED
      BY <3>2, <3>3, <3>4, <3>5 DEF SlotInv
  <2> QED
    BY <1>12, <2>1, <2>2, <2>3, <2>4, <2>5, <2>6, <2>7, <2>8 DEF RaucStep
<1>13. ASSUME NEW c \in Cores, NEW g \in Images, StartDeploy(c, g) PROVE SlotInv'
  <2>1. \A s \in Slots : Whole(s) => Whole(s)'
    BY <1>13 DEF StartDeploy, Whole, WholeAs
  <2>2. JobsRunWhereTheyMay'
    BY <1>13, <1>0, <2>1, OtherType DEF StartDeploy, JobsRunWhereTheyMay, NoJob
  <2>3. SlotProgress'
    BY <1>13, <1>0, <2>1, OtherType DEF StartDeploy, SlotProgress, NoJob, SlotWriterSteps, Blank, Filled
  <2>4. InitProgress'
    BY <1>13, <1>0, <2>1, OtherType DEF StartDeploy, InitProgress, NoJob, Blank
  <2>5. BootableIsWhole'
    BY <1>13, <1>0, <2>1, OtherType DEF StartDeploy, BootableIsWhole
  <2> QED
    BY <2>2, <2>3, <2>4, <2>5 DEF SlotInv
<1>14. CASE DeployStep
  <2>1. CASE DeployFip
    <3>1. \A s \in Slots : Whole(s)' <=> Whole(s)
      BY <2>1, WholeSame DEF DeployFip
    <3>2. JobsRunWhereTheyMay'
      BY <2>1, <1>0, <3>1, OtherType DEF DeployFip, At, Goto, JobsRunWhereTheyMay, NoJob
    <3>3. SlotProgress'
      BY <2>1, <1>0, <3>1, OtherType DEF DeployFip, At, Goto, SlotProgress, NoJob, SlotWriterSteps, Blank, Filled
    <3>4. InitProgress'
      BY <2>1, <1>0, <3>1, OtherType DEF DeployFip, At, Goto, InitProgress, NoJob, Blank
    <3>5. BootableIsWhole'
      BY <2>1, <1>0, <3>1, OtherType DEF DeployFip, At, Goto, BootableIsWhole
    <3> QED
      BY <3>2, <3>3, <3>4, <3>5 DEF SlotInv
  <2>2. CASE DeployFipEnd
    <3>1. \A s \in Slots : Whole(s)' <=> Whole(s)
      BY <2>2, WholeSame DEF DeployFipEnd
    <3>2. JobsRunWhereTheyMay'
      BY <2>2, <1>0, <3>1, OtherType DEF DeployFipEnd, At, JobsRunWhereTheyMay, NoJob
    <3>3. SlotProgress'
      BY <2>2, <1>0, <3>1, OtherType DEF DeployFipEnd, At, SlotProgress, NoJob, SlotWriterSteps, Blank, Filled
    <3>4. InitProgress'
      BY <2>2, <1>0, <3>1, OtherType DEF DeployFipEnd, At, InitProgress, NoJob, Blank
    <3>5. BootableIsWhole'
      BY <2>2, <1>0, <3>1, OtherType DEF DeployFipEnd, At, BootableIsWhole
    <3> QED
      BY <3>2, <3>3, <3>4, <3>5 DEF SlotInv
  <2>3. ASSUME NEW f \in FileIds, DeployFit(f) PROVE SlotInv'
    <3>1. \A s \in Slots : Whole(s) => Whole(s)'
      <4>1. job.slot = booted /\ Whole(booted) /\ f[1] \in Cores
        BY <2>3, <1>0, FileIdsType DEF DeployFit, At, JobsRunWhereTheyMay
      <4>2. Whole(booted)'
        BY <2>3, <4>1 DEF DeployFit, Whole, WholeAs
      <4>3. \A s \in Slots : s # booted => (Whole(s)' <=> Whole(s))
        BY <2>3, <4>1, WholeFrame DEF DeployFit
      <4>4. booted' = booted
        BY <2>3 DEF DeployFit
      <4> QED
        BY <4>2, <4>3, <4>4
    <3>2. JobsRunWhereTheyMay'
      BY <2>3, <1>0, <3>1, OtherType DEF DeployFit, At, JobsRunWhereTheyMay, NoJob
    <3>3. SlotProgress'
      BY <2>3, <1>0, <3>1, OtherType DEF DeployFit, At, SlotProgress, NoJob, SlotWriterSteps, Blank, Filled
    <3>4. InitProgress'
      BY <2>3, <1>0, <3>1, OtherType DEF DeployFit, At, InitProgress, NoJob, Blank
    <3>5. BootableIsWhole'
      BY <2>3, <1>0, <3>1, OtherType DEF DeployFit, At, BootableIsWhole
    <3> QED
      BY <3>2, <3>3, <3>4, <3>5 DEF SlotInv
  <2> QED
    BY <1>14, <2>1, <2>2, <2>3 DEF DeployStep
<1>15. CASE UNCHANGED vars
  <2>1. \A s \in Slots : Whole(s)' <=> Whole(s)
    BY <1>15, WholeSame DEF vars
  <2>2. JobsRunWhereTheyMay' /\ BootableIsWhole'
    BY <1>15, <1>0, <2>1 DEF vars, JobsRunWhereTheyMay, BootableIsWhole
  <2>3. SlotProgress'
    BY <1>15, <1>0, <2>1, OtherType DEF vars, SlotProgress, Blank, Filled
  <2>4. InitProgress'
    BY <1>15, <1>0 DEF vars, InitProgress, Blank
  <2> QED
    BY <2>2, <2>3, <2>4 DEF SlotInv
<1> QED
  BY <1>1, <1>2, <1>3, <1>4, <1>5, <1>6, <1>7, <1>8, <1>9, <1>10, <1>11, <1>12,
     <1>13, <1>14, <1>15 DEF Next, NixBadgeInstall, EmmcInitByHand

\* SlotInv holds of the factory's eMMC and of an older layout's.
LEMMA SlotInit == Init => SlotInv
<1> SUFFICES ASSUME Init PROVE SlotInv
  OBVIOUS
<1>1. CASE BlankDisk
  BY <1>1 DEF Init, BlankDisk, SlotInv, JobsRunWhereTheyMay, SlotProgress, InitProgress,
              BootableIsWhole, NoJob
<1>2. ASSUME NEW i \in Images, OldDisk(i) PROVE SlotInv
  BY <1>2 DEF Init, OldDisk, SlotInv, JobsRunWhereTheyMay, SlotProgress, InitProgress,
              BootableIsWhole, NoJob, Whole, WholeAs
<1> QED
  BY <1>1, <1>2 DEF Init

\* Over the badge's whole life every variable keeps its type, every installer
\* has written what its position says, and on an installed eMMC a slot with
\* boot attempts left is whole.
THEOREM SlotsSafe == Spec => [](TypeOK /\ SlotInv)
<1>1. Init => TypeOK /\ SlotInv
  BY TypeInit, SlotInit
<1>2. (TypeOK /\ SlotInv) /\ [Next]_vars => (TypeOK /\ SlotInv)'
  BY TypeStep, SlotStep
<1> QED
  BY <1>1, <1>2, PTL DEF Spec

\* Once an install or an update has run to its end, U-Boot never picks a slot
\* that is not one whole build.
THEOREM PickIsWhole == Spec => []BootsWhole
<1>1. TypeOK /\ SlotInv => BootsWhole
  BY OtherType DEF TypeOK, SlotInv, BootableIsWhole, BootsWhole, Pick
<1> QED
  BY <1>1, SlotsSafe, PTL

\* The slot an update or a bundle is writing is never the one U-Boot would boot.
THEOREM WriterSparesPick == Spec => []WritingSparesPick
<1>1. TypeOK /\ SlotInv => WritingSparesPick
  <2> SUFFICES ASSUME TypeOK, SlotInv, job.kind \in {"update", "rauc"},
                      job.step \notin {"again", "finish"}
               PROVE  Pick # job.slot /\ (job.kind = "update" => Pick = Other(job.slot))
    BY DEF WritingSparesPick
  <2>1. job.slot \in Slots /\ first \in Slots /\ Slots = {"A", "B"}
    BY DEF TypeOK, Jobs, Slots
  <2>2. left[job.slot] = 0
    BY DEF SlotInv, SlotProgress
  <2>3. job.kind = "update" => envok /\ left[Other(job.slot)] > 0
    BY DEF SlotInv, SlotProgress
  <2> QED
    BY <2>1, <2>2, <2>3 DEF Pick, Other
<1> QED
  BY <1>1, SlotsSafe, PTL

-----------------------------------------------------------------------------
(***************************************************************************)
(* The A/B scheme's promise: BadgeBoot implements AbSlots.                 *)
(***************************************************************************)
\* What a slot boots, where SlotInv holds.
LEMMA BootableValue ==
  ASSUME TypeOK, SlotInv
  PROVE  /\ \A s \in Slots : Bootable[s] = IF installed /\ left[s] > 0 THEN store[s] ELSE NoFile
         /\ \A s \in Slots : installed /\ left[s] > 0 => store[s] \in Images
BY DEF Bootable, SlotInv, BootableIsWhole, Whole, WholeAs

\* The same after a step.
LEMMA BootableValueNext ==
  ASSUME TypeOK', SlotInv'
  PROVE  /\ \A s \in Slots : Bootable'[s] = IF installed' /\ left'[s] > 0 THEN store'[s] ELSE NoFile
         /\ \A s \in Slots : installed' /\ left'[s] > 0 => store'[s] \in Images
BY DEF Bootable, SlotInv, BootableIsWhole, Whole, WholeAs

\* A step that only takes builds away is a Retire.
LEMMA RetireStep ==
  ASSUME \A s \in Slots : Bootable'[s] \in {Bootable[s], NoFile}
  PROVE  Ab!Next
<1> DEFINE S == {s \in Slots : Bootable'[s] = NoFile}
<1>1. Bootable' = [s \in Slots |-> IF s \in S THEN NoFile ELSE Bootable[s]]
  <2>1. Bootable' = [s \in Slots |-> Bootable'[s]]
    BY DEF Bootable
  <2> QED
    BY <2>1
<1>2. Ab!Retire(S)
  BY <1>1 DEF Ab!Retire
<1>3. S \in SUBSET Slots
  OBVIOUS
<1> QED
  BY <1>2, <1>3 DEF Ab!Next

\* A step that only gives builds to slots that boot nothing is a Publish.
LEMMA PublishStep ==
  ASSUME \A s \in Slots : \/ Bootable'[s] = Bootable[s]
                          \/ Bootable[s] = NoFile /\ Bootable'[s] \in Images
  PROVE  Ab!Next
<1>a. CASE Images = {}
  BY <1>a, RetireStep
<1> SUFFICES ASSUME Images # {} PROVE Ab!Next
  BY <1>a
<1> DEFINE S == {s \in Slots : Bootable'[s] # Bootable[s]}
<1>0. PICK i \in Images : TRUE
  OBVIOUS
<1> DEFINE new == [s \in Slots |-> IF s \in S THEN Bootable'[s] ELSE i]
<1>1. Bootable' = [s \in Slots |-> IF s \in S THEN new[s] ELSE Bootable[s]]
  <2>1. Bootable' = [s \in Slots |-> Bootable'[s]]
    BY DEF Bootable
  <2> QED
    BY <2>1
<1>2. \A s \in S : Bootable[s] = NoFile
  OBVIOUS
<1>3. new \in [Slots -> Images] /\ S \in SUBSET Slots
  BY <1>0
<1>4. Ab!Publish(S, new)
  BY <1>1, <1>2 DEF Ab!Publish
<1> QED
  BY <1>3, <1>4 DEF Ab!Next

\* The slots U-Boot may boot on an installed eMMC.
Live(s) == installed /\ left[s] > 0

\* A step after which the live slots were live before, with the same store.
LEMMA RetireWhen ==
  ASSUME TypeOK, SlotInv, TypeOK', SlotInv',
         \A s \in Slots : Live(s)' => Live(s) /\ store'[s] = store[s]
  PROVE  Ab!Next
<1>1. \A s \in Slots : Bootable'[s] \in {Bootable[s], NoFile}
  BY BootableValue, BootableValueNext DEF Live
<1> QED
  BY <1>1, RetireStep

\* A step after which every live slot is still live, with the same store.
LEMMA PublishWhen ==
  ASSUME TypeOK, SlotInv, TypeOK', SlotInv',
         \A s \in Slots : Live(s) => Live(s)' /\ store'[s] = store[s]
  PROVE  Ab!Next
<1>1. \A s \in Slots : \/ Bootable'[s] = Bootable[s]
                       \/ Bootable[s] = NoFile /\ Bootable'[s] \in Images
  BY BootableValue, BootableValueNext DEF Live
<1> QED
  BY <1>1, PublishStep

\* Every step is a Retire or a Publish of the abstract scheme.
LEMMA AbStep == TypeOK /\ SlotInv /\ TypeOK' /\ SlotInv' /\ [Next]_vars => Ab!Next
<1> SUFFICES ASSUME TypeOK, SlotInv, TypeOK', SlotInv', [Next]_vars PROVE Ab!Next
  OBVIOUS
<1> DEFINE Retires   == \A s \in Slots : Live(s)' => Live(s) /\ store'[s] = store[s]
           Publishes == \A s \in Slots : Live(s) => Live(s)' /\ store'[s] = store[s]
<1>0. /\ job.slot \in Slots /\ Slots = {"A", "B"}
      /\ left \in [Slots -> Attempts] /\ store \in [Slots -> Images \cup {Torn}]
      /\ booted \in Slots /\ first \in Slots
      /\ JobsRunWhereTheyMay /\ SlotProgress
  BY DEF TypeOK, Jobs, SlotInv, Slots
<1>1. CASE PowerCut \/ JobFails \/ MarkGoodSd \/ (\E i \in Images : BootSd(i)) \/ UNCHANGED vars
  <2>1. UNCHANGED <<installed, left, store>>
    BY <1>1 DEF PowerCut, JobFails, MarkGoodSd, BootSd, vars, disk, ghost
  <2> QED
    BY <2>1, RetireWhen DEF Live
<1>2. CASE MarkGood
  <2>1. Publishes
    BY <1>2, <1>0, TriesAssumption DEF MarkGood, Live
  <2> QED
    BY <2>1, PublishWhen
<1>3. ASSUME NEW up \in BOOLEAN, BootEmmc(up) PROVE Ab!Next
  <2>1. Pick \in Slots
    BY <1>3, <1>0, OtherType DEF BootEmmc, Pick
  <2>2. Retires
    BY <1>3, <1>0, <2>1 DEF BootEmmc, Live, Attempts
  <2> QED
    BY <2>2, RetireWhen
<1>4. CASE StartUpdate
  <2>1. Pick \in Slots
    BY <1>4, <1>0, OtherType DEF StartUpdate, Detect, Pick
  <2>2. Retires
    BY <1>4, <1>0, <2>1, OtherType DEF StartUpdate, Live
  <2> QED
    BY <2>2, RetireWhen
<1>5. CASE StartInit
  <2>1. Retires
    BY <1>5 DEF StartInit, Live
  <2> QED
    BY <2>1, RetireWhen
<1>6. ASSUME NEW i \in Images, NEW b \in Images, StartRauc(i, b) PROVE Ab!Next
  <2>1. Retires
    BY <1>6, <1>0, OtherType DEF StartRauc, Live
  <2> QED
    BY <2>1, RetireWhen
<1>7. CASE UpdateStep
  <2>1. Publishes \/ Retires
    <3>1. ASSUME UpdateDd PROVE Retires
      BY <3>1, <1>0, OtherType, TriesAssumption
      DEF UpdateDd, Live, At, SlotProgress, StoreTorn, StoreWritten, MadePrimary, disk, ghost
    <3>2. ASSUME UpdateDdEnd PROVE Retires
      BY <3>2, <1>0, OtherType, TriesAssumption
      DEF UpdateDdEnd, Live, At, SlotProgress, StoreTorn, StoreWritten, MadePrimary, disk, ghost
    <3>3. ASSUME UpdateClean PROVE Retires
      BY <3>3, <1>0, OtherType, TriesAssumption
      DEF UpdateClean, Live, At, SlotProgress, StoreTorn, StoreWritten, MadePrimary, disk, ghost
    <3>4. ASSUME UpdateSlotDone PROVE Retires
      BY <3>4, <1>0, OtherType, TriesAssumption
      DEF UpdateSlotDone, Live, At, SlotProgress, StoreTorn, StoreWritten, MadePrimary, disk, ghost
    <3>5. ASSUME UpdateFip PROVE Retires
      BY <3>5, <1>0, OtherType, TriesAssumption
      DEF UpdateFip, Live, At, SlotProgress, StoreTorn, StoreWritten, MadePrimary, disk, ghost
    <3>6. ASSUME UpdateFipEnd PROVE Retires
      BY <3>6, <1>0, OtherType, TriesAssumption
      DEF UpdateFipEnd, Live, At, SlotProgress, StoreTorn, StoreWritten, MadePrimary, disk, ghost
    <3>7. ASSUME UpdateAgain PROVE Retires
      BY <3>7, <1>0, OtherType, TriesAssumption
      DEF UpdateAgain, Live, At, SlotProgress, StoreTorn, StoreWritten, MadePrimary, disk, ghost
    <3>8. ASSUME NEW f \in FileIds, UpdateFile(f) PROVE Retires
      BY <3>8, <1>0, OtherType, TriesAssumption
      DEF UpdateFile, Live, At, SlotProgress, StoreTorn, StoreWritten, MadePrimary, disk, ghost
    <3>9. ASSUME UpdatePrimary PROVE Publishes
      BY <3>9, <1>0, OtherType, TriesAssumption
      DEF UpdatePrimary, Live, At, SlotProgress, StoreTorn, StoreWritten, MadePrimary, disk, ghost
    <3>10. ASSUME UpdateFinish PROVE Publishes
      BY <3>10, <1>0, OtherType, TriesAssumption
      DEF UpdateFinish, Live, At, SlotProgress, StoreTorn, StoreWritten, MadePrimary, disk, ghost
    <3> QED
      BY <1>7, <3>1, <3>2, <3>3, <3>4, <3>5, <3>6, <3>7, <3>8, <3>9, <3>10 DEF UpdateStep
  <2> QED
    BY <2>1, PublishWhen, RetireWhen
<1>8. CASE InitStep
  <2>1. Publishes \/ Retires
    <3>1. ASSUME InitGpt PROVE Retires
      BY <3>1, <1>0, OtherType, TriesAssumption
      DEF InitGpt, Live, At, JobsRunWhereTheyMay, StoreTorn, StoreWritten, MadePrimary, disk, ghost
    <3>2. ASSUME InitFip PROVE Retires
      BY <3>2, <1>0, OtherType, TriesAssumption
      DEF InitFip, Live, At, JobsRunWhereTheyMay, StoreTorn, StoreWritten, MadePrimary, disk, ghost
    <3>3. ASSUME InitEnv PROVE Retires
      BY <3>3, <1>0, OtherType, TriesAssumption
      DEF InitEnv, Live, At, JobsRunWhereTheyMay, StoreTorn, StoreWritten, MadePrimary, disk, ghost
    <3>4. ASSUME InitMkfs PROVE Retires
      BY <3>4, <1>0, OtherType, TriesAssumption
      DEF InitMkfs, Live, At, JobsRunWhereTheyMay, StoreTorn, StoreWritten, MadePrimary, disk, ghost
    <3>5. ASSUME InitCopyMarker PROVE Retires
      BY <3>5, <1>0, OtherType, TriesAssumption
      DEF InitCopyMarker, Live, At, JobsRunWhereTheyMay, StoreTorn, StoreWritten, MadePrimary, disk, ghost
    <3>6. ASSUME InitVerify PROVE Retires
      BY <3>6, <1>0, OtherType, TriesAssumption
      DEF InitVerify, Live, At, JobsRunWhereTheyMay, StoreTorn, StoreWritten, MadePrimary, disk, ghost
    <3>7. ASSUME InitStore PROVE Retires
      BY <3>7, <1>0, OtherType, TriesAssumption
      DEF InitStore, Live, At, JobsRunWhereTheyMay, StoreTorn, StoreWritten, MadePrimary, disk, ghost
    <3>8. ASSUME NEW f \in FileIds, InitCopyFile(f) PROVE Retires
      BY <3>8, <1>0, OtherType, TriesAssumption
      DEF InitCopyFile, Live, At, JobsRunWhereTheyMay, StoreTorn, StoreWritten, MadePrimary, disk, ghost
    <3>9. ASSUME NEW f \in FileIds, InitSlotB(f) PROVE Retires
      BY <3>9, <1>0, OtherType, TriesAssumption
      DEF InitSlotB, Live, At, JobsRunWhereTheyMay, StoreTorn, StoreWritten, MadePrimary, disk, ghost
    <3>10. ASSUME InitUserdata PROVE Publishes
      BY <3>10, <1>0, OtherType, TriesAssumption
      DEF InitUserdata, Live, At, JobsRunWhereTheyMay, StoreTorn, StoreWritten, MadePrimary, disk, ghost
    <3> QED
      BY <1>8, <3>1, <3>2, <3>3, <3>4, <3>5, <3>6, <3>7, <3>8, <3>9, <3>10 DEF InitStep
  <2> QED
    BY <2>1, PublishWhen, RetireWhen
<1>9. CASE RaucStep
  <2>1. Publishes \/ Retires
    <3>1. ASSUME RaucCheck PROVE Retires
      BY <3>1, <1>0, OtherType, TriesAssumption
      DEF RaucCheck, Live, At, SlotProgress, StoreTorn, StoreWritten, MadePrimary, disk, ghost
    <3>2. ASSUME RaucStoreEnd PROVE Retires
      BY <3>2, <1>0, OtherType, TriesAssumption
      DEF RaucStoreEnd, Live, At, SlotProgress, StoreTorn, StoreWritten, MadePrimary, disk, ghost
    <3>3. ASSUME RaucPostInstall PROVE Retires
      BY <3>3, <1>0, OtherType, TriesAssumption
      DEF RaucPostInstall, Live, At, SlotProgress, StoreTorn, StoreWritten, MadePrimary, disk, ghost
    <3>4. ASSUME RaucMarker PROVE Retires
      BY <3>4, <1>0, OtherType, TriesAssumption
      DEF RaucMarker, Live, At, SlotProgress, StoreTorn, StoreWritten, MadePrimary, disk, ghost
    <3>5. ASSUME RaucFip PROVE Retires
      BY <3>5, <1>0, OtherType, TriesAssumption
      DEF RaucFip, Live, At, SlotProgress, StoreTorn, StoreWritten, MadePrimary, disk, ghost
    <3>6. ASSUME RaucFipEnd PROVE Retires
      BY <3>6, <1>0, OtherType, TriesAssumption
      DEF RaucFipEnd, Live, At, SlotProgress, StoreTorn, StoreWritten, MadePrimary, disk, ghost
    <3>7. ASSUME NEW f \in FileIds, RaucFile(f) PROVE Retires
      BY <3>7, <1>0, OtherType, TriesAssumption
      DEF RaucFile, Live, At, SlotProgress, StoreTorn, StoreWritten, MadePrimary, disk, ghost
    <3>8. ASSUME RaucPrimary PROVE Publishes
      BY <3>8, <1>0, OtherType, TriesAssumption
      DEF RaucPrimary, Live, At, SlotProgress, StoreTorn, StoreWritten, MadePrimary, disk, ghost
    <3> QED
      BY <1>9, <3>1, <3>2, <3>3, <3>4, <3>5, <3>6, <3>7, <3>8 DEF RaucStep
  <2> QED
    BY <2>1, PublishWhen, RetireWhen
<1>10. CASE DeployStep \/ \E c \in Cores, g \in Images : StartDeploy(c, g)
  <2>1. UNCHANGED <<installed, left, store>>
    <3>1. ASSUME NEW f \in FileIds, DeployFit(f) PROVE UNCHANGED <<installed, left, store>>
      BY <3>1 DEF DeployFit, ghost
    <3>2. ASSUME NEW c \in Cores, NEW g \in Images, StartDeploy(c, g)
          PROVE  UNCHANGED <<installed, left, store>>
      BY <3>2 DEF StartDeploy, ghost
    <3>3. ASSUME DeployFip \/ DeployFipEnd PROVE UNCHANGED <<installed, left, store>>
      BY <3>3 DEF DeployFip, DeployFipEnd, ghost
    <3> QED
      BY <1>10, <3>1, <3>2, <3>3 DEF DeployStep
  <2> QED
    BY <2>1, RetireWhen DEF Live
<1> QED
  BY <1>1, <1>2, <1>3, <1>4, <1>5, <1>6, <1>7, <1>8, <1>9, <1>10
  DEF Next, NixBadgeInstall, EmmcInitByHand

\* A slot's build is replaced only while U-Boot cannot boot the slot, and what
\* becomes bootable is a whole build: the badge implements AbSlots.
THEOREM PromiseKept == Spec => KeepsThePromise
<1>1. Init => Ab!Init
  <2> SUFFICES ASSUME Init PROVE Ab!Init
    OBVIOUS
  <2>1. TypeOK /\ SlotInv
    BY TypeInit, SlotInit
  <2>2. Bootable \in [Slots -> Images \cup {NoFile}]
    BY <2>1 DEF Bootable, SlotInv, BootableIsWhole, Whole, WholeAs
  <2> QED
    BY <2>2 DEF Ab!Init
<1>2. TypeOK /\ SlotInv /\ TypeOK' /\ SlotInv' /\ [Next]_vars => [Ab!Next]_Bootable
  BY AbStep
<1> QED
  BY <1>1, <1>2, SlotsSafe, PTL DEF Spec, KeepsThePromise, Ab!Spec

-----------------------------------------------------------------------------
(***************************************************************************)
(* FallbackReady.  A bundle is put on trial only by a boot marked good,    *)
(* whose slot has its attempts back, and only a boot of that slot, which   *)
(* ends the trial, takes one of them.                                      *)
(***************************************************************************)
TrialInv ==
  /\ power = "off" => ~good
  /\ power = "emmc" /\ good => left[booted] > 0
  /\ job.kind \in {"update", "init", "rauc"} => trial = "none"
  /\ trial # "none" => left[Other(trial)] > 0

(***************************************************************************)
(* FipServesPick.  The marker on BOOT is the mode of an installed eMMC:    *)
(* every slot with attempts left, the fip and whatever is being installed  *)
(* are builds of that mode.                                                *)
(***************************************************************************)
ModeInv ==
  /\ installed =>
       /\ marker # "none"
       /\ \A s \in Slots : left[s] > 0 => Mode(store[s]) = marker
       /\ fip.main # Torn => Mode(fip.main) = marker
       /\ power = "emmc" => Mode(store[booted]) = marker
       /\ job.kind = "rauc" /\ job.step \in {"files", "fip", "fipend", "primary"} =>
            Mode(job.image) = marker
  /\ job.kind \in {"update", "deploy"} => Mode(job.image) = marker
  /\ job.kind = "update" =>
       /\ job.second \/ job.step \in {"primary", "again", "finish"} => fip.main = job.image
       /\ job.second => store[Other(job.slot)] = job.image
       /\ job.step \in {"fip", "fipend", "primary", "again"} => job.second = FALSE
  /\ job.kind = "init" /\ job.step \in {"slotB", "dd", "userdata"} =>
       marker = Mode(job.image)

\* A step that leaves counters, boot and trial alone, and starts no slot
\* writer, keeps TrialInv.
LEMMA TrialFrame ==
  ASSUME TrialInv, UNCHANGED <<left, trial, power, good, booted>>,
         job'.kind \in {job.kind, "none", "deploy"}
  PROVE  TrialInv'
BY DEF TrialInv

\* Every step keeps TrialInv.
LEMMA TrialStep == TypeOK /\ SlotInv /\ TrialInv /\ [Next]_vars => TrialInv'
<1> SUFFICES ASSUME TypeOK, SlotInv, TrialInv, [Next]_vars PROVE TrialInv'
  OBVIOUS
<1> USE DEF disk, run, ghost
<1>0. /\ Slots = {"A", "B"} /\ left \in [Slots -> Attempts] /\ booted \in Slots
      /\ job \in Jobs /\ job.slot \in Slots /\ trial \in Slots \cup {"none"}
      /\ Tries > 0 /\ \A s \in Slots : left[s] \in Nat
      /\ JobsRunWhereTheyMay /\ SlotProgress
  BY TriesAssumption DEF TypeOK, Jobs, Slots, Attempts, SlotInv
<1> DEFINE Frame == /\ UNCHANGED <<left, trial, power, good, booted>>
                    /\ job'.kind \in {job.kind, "none", "deploy"}
<1>1. CASE UNCHANGED vars
  BY <1>1, TrialFrame DEF vars
<1>2. CASE PowerCut
  BY <1>2 DEF PowerCut, TrialInv, NoJob
<1>3. CASE JobFails
  BY <1>3, TrialFrame DEF JobFails, NoJob
<1>4. CASE MarkGoodSd
  BY <1>4 DEF MarkGoodSd, TrialInv
<1>5. CASE MarkGood
  <2>1. /\ left' = [left EXCEPT ![booted] = Tries] /\ power = "emmc"
        /\ trial' \in {trial, "none"} /\ UNCHANGED <<power, booted, job>>
    BY <1>5 DEF MarkGood
  <2>2. left'[booted] > 0 /\ \A s \in Slots : left[s] > 0 => left'[s] > 0
    BY <2>1, <1>0
  <2>3. trial # "none" => Other(trial) \in Slots
    BY <1>0, OtherType
  <2> QED
    BY <2>1, <2>2, <2>3 DEF TrialInv
<1>6. ASSUME NEW i \in Images, BootSd(i) PROVE TrialInv'
  BY <1>6 DEF BootSd, TrialInv
<1>7. ASSUME NEW up \in BOOLEAN, BootEmmc(up) PROVE TrialInv'
  <2>1. Pick \in Slots
    BY <1>7, <1>0, OtherType DEF BootEmmc, Pick, TypeOK
  <2>2. /\ power = "off" /\ left' = [left EXCEPT ![Pick] = @ - 1]
        /\ trial' = IF trial # "none" /\ Pick # trial THEN "none" ELSE trial
        /\ UNCHANGED <<good, job>>
    BY <1>7 DEF BootEmmc
  <2>3. trial' # "none" => Pick = trial /\ Other(trial) \in Slots /\ Other(trial) # trial
    BY <2>2, <1>0, OtherType
  <2>4. trial' # "none" => left'[Other(trial')] > 0
    BY <2>2, <2>3, <1>0 DEF TrialInv
  <2> QED
    BY <2>2, <2>4 DEF TrialInv
<1>8. CASE StartUpdate
  BY <1>8, <1>0 DEF StartUpdate, TrialInv
<1>9. CASE StartInit
  BY <1>9, <1>0 DEF StartInit, TrialInv, NoJob
<1>10. CASE UpdateStep
  <2>1. CASE UpdateDd \/ UpdateDdEnd \/ UpdateClean \/ UpdateSlotDone \/ UpdateFip \/ UpdateFipEnd
    <3>1. Frame
      BY <2>1, <1>0 DEF UpdateDd, UpdateDdEnd, UpdateClean, UpdateSlotDone, UpdateFip,
                        UpdateFipEnd, Goto, Jobs
    <3> QED
      BY <3>1, TrialFrame
  <2>2. ASSUME NEW f \in FileIds, UpdateFile(f) PROVE TrialInv'
    <3>1. Frame
      BY <2>2, <1>0 DEF UpdateFile, Jobs
    <3> QED
      BY <3>1, TrialFrame
  <2>3. CASE UpdatePrimary \/ UpdateAgain \/ UpdateFinish
    <3>1. /\ power = "sd" /\ trial = "none" /\ UNCHANGED <<power, good, trial>>
          /\ job'.kind \in {"update", "none"}
      <4>1. job.kind = "update" /\ UNCHANGED <<power, good, trial>>
        BY <2>3 DEF UpdatePrimary, UpdateAgain, UpdateFinish, At
      <4>2. job'.kind \in {"update", "none"}
        <5>1. CASE UpdatePrimary
          BY <5>1, <4>1, <1>0 DEF UpdatePrimary, Goto, Jobs
        <5>2. CASE UpdateAgain
          BY <5>2, <4>1, <1>0 DEF UpdateAgain, Jobs
        <5>3. CASE UpdateFinish
          BY <5>3 DEF UpdateFinish, NoJob
        <5> QED
          BY <2>3, <5>1, <5>2, <5>3
      <4> QED
        BY <4>1, <4>2, <1>0 DEF JobsRunWhereTheyMay, TrialInv
    <3> QED
      BY <3>1 DEF TrialInv
  <2> QED
    BY <1>10, <2>1, <2>2, <2>3 DEF UpdateStep
<1>11. CASE InitStep
  <2>1. /\ power = "sd" /\ trial = "none" /\ UNCHANGED <<power, good, trial>>
        /\ job'.kind \in {"init", "none"}
    <3>1. ASSUME NEW f \in FileIds, InitCopyFile(f) \/ InitSlotB(f)
          PROVE  /\ job.kind = "init" /\ UNCHANGED <<power, good, trial>>
                 /\ job'.kind \in {"init", "none"}
      BY <3>1, <1>0 DEF InitCopyFile, InitSlotB, At, Jobs
    <3>2. ASSUME InitGpt \/ InitFip \/ InitEnv \/ InitMkfs \/ InitCopyMarker \/ InitVerify
          PROVE  /\ job.kind = "init" /\ UNCHANGED <<power, good, trial>>
                 /\ job'.kind \in {"init", "none"}
      BY <3>2, <1>0 DEF InitGpt, InitFip, InitEnv, InitMkfs, InitCopyMarker, InitVerify, At,
                        Goto, Jobs
    <3>3. ASSUME InitStore \/ InitUserdata
          PROVE  /\ job.kind = "init" /\ UNCHANGED <<power, good, trial>>
                 /\ job'.kind \in {"init", "none"}
      BY <3>3, <1>0 DEF InitStore, InitUserdata, At, Goto, NoJob, Jobs
    <3>4. /\ job.kind = "init" /\ UNCHANGED <<power, good, trial>>
          /\ job'.kind \in {"init", "none"}
      BY <1>11, <3>1, <3>2, <3>3 DEF InitStep
    <3> QED
      BY <3>4, <1>0 DEF JobsRunWhereTheyMay, TrialInv
  <2> QED
    BY <2>1 DEF TrialInv
<1>12. ASSUME NEW i \in Images, NEW b \in Images, StartRauc(i, b) PROVE TrialInv'
  <2>1. /\ left' = [left EXCEPT ![Other(booted)] = 0] /\ trial' = "none"
        /\ UNCHANGED <<power, good, booted>>
    BY <1>12 DEF StartRauc
  <2>2. left'[booted] = left[booted]
    BY <2>1, <1>0, OtherType
  <2> QED
    BY <2>1, <2>2 DEF TrialInv
<1>13. CASE RaucStep
  <2>1. CASE RaucCheck \/ RaucStoreEnd \/ RaucPostInstall \/ RaucMarker \/ RaucFip \/ RaucFipEnd
    <3>1. Frame
      BY <2>1, <1>0 DEF RaucCheck, RaucStoreEnd, RaucPostInstall, RaucMarker, RaucFip,
                        RaucFipEnd, Goto, Jobs
    <3> QED
      BY <3>1, TrialFrame
  <2>2. ASSUME NEW f \in FileIds, RaucFile(f) PROVE TrialInv'
    <3>1. Frame
      BY <2>2, <1>0 DEF RaucFile, Jobs
    <3> QED
      BY <3>1, TrialFrame
  <2>3. CASE RaucPrimary
    <3>1. /\ power = "emmc" /\ job.slot = Other(booted) /\ Other(job.slot) = booted
          /\ job.slot # booted
      BY <2>3, <1>0, OtherType DEF RaucPrimary, At, JobsRunWhereTheyMay
    <3>2. /\ left' = [left EXCEPT ![job.slot] = Tries]
          /\ trial' = IF good THEN job.slot ELSE "none"
          /\ job'.kind = "none" /\ UNCHANGED <<power, good, booted>>
      BY <2>3 DEF RaucPrimary, MadePrimary, NoJob
    <3>3. left'[booted] = left[booted]
      BY <3>1, <3>2, <1>0
    <3> QED
      BY <3>1, <3>2, <3>3 DEF TrialInv
  <2> QED
    BY <1>13, <2>1, <2>2, <2>3 DEF RaucStep
<1>14. CASE DeployStep \/ \E c \in Cores, g \in Images : StartDeploy(c, g)
  <2>1. Frame
    <3>1. ASSUME NEW f \in FileIds, DeployFit(f) PROVE Frame
      BY <3>1, <1>0 DEF DeployFit, Jobs
    <3>2. ASSUME NEW c \in Cores, NEW g \in Images, StartDeploy(c, g) PROVE Frame
      BY <3>2 DEF StartDeploy, NoJob
    <3>3. ASSUME DeployFip \/ DeployFipEnd PROVE Frame
      BY <3>3, <1>0 DEF DeployFip, DeployFipEnd, Goto, NoJob, Jobs
    <3> QED
      BY <1>14, <3>1, <3>2, <3>3 DEF DeployStep
  <2> QED
    BY <2>1, TrialFrame
<1> QED
  BY <1>1, <1>2, <1>3, <1>4, <1>5, <1>6, <1>7, <1>8, <1>9, <1>10, <1>11, <1>12, <1>13, <1>14
  DEF Next, NixBadgeInstall, EmmcInitByHand

\* While a bundle is on trial the slot it was installed from can still boot.
THEOREM FallbackKept == Spec => []FallbackReady
<1>1. Init => TrialInv
  BY DEF Init, TrialInv, NoJob
<1>2. TypeOK /\ SlotInv /\ TrialInv /\ [Next]_vars => TrialInv'
  BY TrialStep
<1>3. TypeOK /\ SlotInv /\ TrialInv => FallbackReady
  BY OtherType DEF TypeOK, SlotInv, BootableIsWhole, TrialInv, FallbackReady
<1> QED
  BY <1>1, <1>2, <1>3, SlotsSafe, PTL DEF Spec

\* Every variable keeps its type; the attempt counters in particular stay
\* between 0 and Tries.
THEOREM TypesKept == Spec => []TypeOK
<1>1. TypeOK /\ SlotInv => TypeOK
  OBVIOUS
<1> QED
  BY <1>1, SlotsSafe, PTL

\* U-Boot has a slot to boot when the env is good and one has attempts left.
LEMMA PickExists ==
  TypeOK => (Pick # "none" <=> envok /\ \E s \in Slots : left[s] > 0)
<1> SUFFICES ASSUME TypeOK PROVE Pick # "none" <=> envok /\ \E s \in Slots : left[s] > 0
  OBVIOUS
<1>1. first \in Slots /\ Slots = {"A", "B"} /\ "none" \notin Slots
  BY DEF TypeOK, Slots
<1>2. \A s \in Slots : s = first \/ s = Other(first)
  BY <1>1 DEF Other
<1> QED
  BY <1>1, <1>2, OtherType DEF Pick

\* The same after a step.
LEMMA PickExistsNext ==
  TypeOK' => ((Pick # "none")' <=> envok' /\ \E s \in Slots : left'[s] > 0)
<1> SUFFICES ASSUME TypeOK' PROVE (Pick # "none")' <=> envok' /\ \E s \in Slots : left'[s] > 0
  OBVIOUS
<1>1. first' \in Slots /\ Slots = {"A", "B"} /\ "none" \notin Slots
  BY DEF TypeOK, Slots
<1>2. \A s \in Slots : s = first' \/ s = Other(first')
  BY <1>1 DEF Other
<1>3. Pick' = IF ~envok' THEN "none"
              ELSE IF left'[first'] > 0 THEN first'
              ELSE IF left'[Other(first')] > 0 THEN Other(first')
              ELSE "none"
  BY DEF Pick, Other
<1> QED
  BY <1>1, <1>2, <1>3, OtherType

\* No step but a boot attempt takes the last slot away, unless the booted
\* system has no attempt left itself.
LEMMA SomeSlotStays ==
  ASSUME TypeOK, SlotInv, SlotInv', [Next]_vars, installed', power # "off",
         NEW r \in Slots, left[r] > 0, power = "emmc" => left[booted] > 0
  PROVE  \E s \in Slots : left'[s] > 0
<1> USE DEF disk, run, ghost
<1>0. /\ Slots = {"A", "B"} /\ left \in [Slots -> Attempts] /\ booted \in Slots
      /\ job.slot \in Slots /\ Tries > 0
      /\ JobsRunWhereTheyMay /\ SlotProgress
  BY TriesAssumption DEF TypeOK, Jobs, Slots, SlotInv
<1>1. CASE UNCHANGED left
  BY <1>1
<1>2. CASE MarkGood
  <2>1. left' = [left EXCEPT ![booted] = Tries]
    BY <1>2 DEF MarkGood
  <2> QED
    BY <2>1, <1>0
<1>3. CASE UpdatePrimary \/ RaucPrimary
  <2>1. left' = [left EXCEPT ![job.slot] = Tries]
    BY <1>3 DEF UpdatePrimary, RaucPrimary, MadePrimary
  <2> QED
    BY <2>1, <1>0
<1>4. CASE UpdateFinish
  <2>1. left' = [s \in Slots |-> Tries]
    BY <1>4 DEF UpdateFinish
  <2> QED
    BY <2>1, <1>0
<1>5. CASE UpdateAgain
  <2>1. left' = [left EXCEPT ![Other(job.slot)] = 0] /\ left[job.slot] > 0
    BY <1>5, <1>0 DEF UpdateAgain, At, SlotProgress
  <2>2. left'[job.slot] > 0
    BY <2>1, <1>0, OtherType
  <2> QED
    BY <2>2, <1>0
<1>6. CASE StartUpdate
  <2>1. Pick # "none" /\ left' = [left EXCEPT ![Other(Pick)] = 0]
    BY <1>6 DEF StartUpdate, Detect
  <2>2. Pick \in Slots /\ left[Pick] > 0
    BY <2>1, <1>0, OtherType DEF Pick, TypeOK
  <2>3. left'[Pick] > 0
    BY <2>1, <2>2, <1>0, OtherType
  <2> QED
    BY <2>2, <2>3
<1>7. ASSUME NEW i \in Images, NEW b \in Images, StartRauc(i, b)
      PROVE  \E s \in Slots : left'[s] > 0
  <2>1. power = "emmc" /\ left' = [left EXCEPT ![Other(booted)] = 0]
    BY <1>7 DEF StartRauc
  <2>2. left'[booted] > 0
    BY <2>1, <1>0, OtherType
  <2> QED
    BY <2>2, <1>0
<1>8. CASE InitStep
  <2>1. CASE InitUserdata
    BY <2>1, <1>1 DEF InitUserdata
  <2>2. ~InitUserdata => installed' = installed /\ job.kind = "init"
    <3>1. ASSUME NEW f \in FileIds, InitCopyFile(f) \/ InitSlotB(f)
          PROVE  installed' = installed /\ job.kind = "init"
      BY <3>1 DEF InitCopyFile, InitSlotB, At
    <3>2. ASSUME InitGpt \/ InitFip \/ InitEnv \/ InitMkfs \/ InitCopyMarker \/ InitVerify \/ InitStore
          PROVE  installed' = installed /\ job.kind = "init"
      BY <3>2 DEF InitGpt, InitFip, InitEnv, InitMkfs, InitCopyMarker, InitVerify, InitStore, At
    <3> QED
      BY <1>8, <3>1, <3>2 DEF InitStep
  <2> QED
    BY <2>1, <2>2, <1>0 DEF JobsRunWhereTheyMay
<1>9. CASE UNCHANGED vars \/ PowerCut \/ JobFails \/ MarkGoodSd \/ StartInit
  BY <1>9, <1>1 DEF vars, PowerCut, JobFails, MarkGoodSd, StartInit
<1>10. ASSUME NEW i \in Images, BootSd(i) PROVE \E s \in Slots : left'[s] > 0
  BY <1>10 DEF BootSd
<1>11. ASSUME NEW up \in BOOLEAN, BootEmmc(up) PROVE \E s \in Slots : left'[s] > 0
  BY <1>11 DEF BootEmmc
<1>12. CASE UpdateStep
  <2>1. CASE UpdateDd \/ UpdateDdEnd \/ UpdateClean \/ UpdateSlotDone \/ UpdateFip \/ UpdateFipEnd
    BY <2>1, <1>1 DEF UpdateDd, UpdateDdEnd, UpdateClean, UpdateSlotDone, UpdateFip, UpdateFipEnd
  <2>2. ASSUME NEW f \in FileIds, UpdateFile(f) PROVE UNCHANGED left
    BY <2>2 DEF UpdateFile
  <2> QED
    BY <1>12, <1>1, <1>3, <1>4, <1>5, <2>1, <2>2 DEF UpdateStep
<1>13. CASE RaucStep
  <2>1. CASE RaucCheck \/ RaucStoreEnd \/ RaucPostInstall \/ RaucMarker \/ RaucFip \/ RaucFipEnd
    BY <2>1, <1>1 DEF RaucCheck, RaucStoreEnd, RaucPostInstall, RaucMarker, RaucFip, RaucFipEnd
  <2>2. ASSUME NEW f \in FileIds, RaucFile(f) PROVE UNCHANGED left
    BY <2>2 DEF RaucFile
  <2> QED
    BY <1>13, <1>1, <1>3, <2>1, <2>2 DEF RaucStep
<1>14. CASE DeployStep \/ \E c \in Cores, g \in Images : StartDeploy(c, g)
  BY <1>14, <1>1 DEF DeployStep, DeployFip, DeployFipEnd, DeployFit, StartDeploy
<1> QED
  BY <1>2, <1>6, <1>7, <1>8, <1>9, <1>10, <1>11, <1>12, <1>13, <1>14
  DEF Next, NixBadgeInstall, EmmcInitByHand

\* On an installed eMMC only a boot attempt, or a bundle installed by a system
\* whose own slot has none left, takes the last bootable slot away.
THEOREM AWayToBootKept == Spec => KeepsAWayToBoot
<1> DEFINE Kept == (installed' /\ Pick # "none" /\ (power = "emmc" => left[booted] > 0))
                     => (Pick' # "none" \/ power = "off")
<1>1. ASSUME TypeOK, SlotInv, TypeOK', SlotInv', [Next]_vars PROVE Kept
  <2> SUFFICES ASSUME installed', Pick # "none", power = "emmc" => left[booted] > 0,
                      power # "off"
               PROVE  Pick' # "none"
    OBVIOUS
  <2>1. \E s \in Slots : left[s] > 0
    BY <1>1, PickExists
  <2>2. \E s \in Slots : left'[s] > 0
    BY <1>1, <2>1, SomeSlotStays
  <2>3. envok'
    BY <1>1 DEF SlotInv, BootableIsWhole
  <2> QED
    BY <1>1, <2>2, <2>3, PickExistsNext
<1>2. TypeOK /\ SlotInv /\ TypeOK' /\ SlotInv' /\ [Next]_vars => [Kept]_vars
  BY <1>1
<1> QED
  BY <1>2, SlotsSafe, PTL DEF Spec, KeepsAWayToBoot

\* A step that leaves the marker, the stores, the fip, the counters and what
\* runs alone, and ends the job or leaves it at a step that promises no more.
LEMMA ModeFrame ==
  ASSUME ModeInv, UNCHANGED <<marker, store, fip, left, power, booted, installed>>,
         job'.kind = "none" \/ UNCHANGED <<job>>
  PROVE  ModeInv'
BY DEF ModeInv

\* Every step keeps ModeInv.
LEMMA ModeStep == TypeOK /\ SlotInv /\ ModeInv /\ [Next]_vars => ModeInv'
<1> SUFFICES ASSUME TypeOK, SlotInv, ModeInv, [Next]_vars PROVE ModeInv'
  OBVIOUS
<1> USE DEF disk, run, ghost
<1>0. /\ Slots = {"A", "B"} /\ left \in [Slots -> Attempts] /\ booted \in Slots
      /\ store \in [Slots -> Images \cup {Torn}]
      /\ fip \in [main : Images \cup {Torn}, factory : Images \cup {Torn}]
      /\ job \in Jobs /\ job.slot \in Slots
      /\ JobsRunWhereTheyMay /\ SlotProgress /\ InitProgress /\ BootableIsWhole
  BY DEF TypeOK, Jobs, Slots, SlotInv
<1>1. CASE UNCHANGED vars
  BY <1>1, ModeFrame DEF vars
<1>2. CASE PowerCut
  BY <1>2 DEF PowerCut, ModeInv, NoJob
<1>3. CASE JobFails
  BY <1>3, ModeFrame DEF JobFails, NoJob
<1>4. CASE MarkGoodSd
  BY <1>4, ModeFrame DEF MarkGoodSd
<1>5. CASE MarkGood
  <2>1. /\ left' = [left EXCEPT ![booted] = Tries] /\ power = "emmc"
        /\ UNCHANGED <<marker, store, fip, power, booted, installed, job>>
    BY <1>5 DEF MarkGood
  <2>2. \A s \in Slots : s # booted => left'[s] = left[s]
    BY <2>1, <1>0
  <2> QED
    BY <2>1, <2>2 DEF ModeInv
<1>6. ASSUME NEW i \in Images, BootSd(i) PROVE ModeInv'
  BY <1>6 DEF BootSd, ModeInv
<1>7. ASSUME NEW up \in BOOLEAN, BootEmmc(up) PROVE ModeInv'
  <2>1. Pick \in Slots /\ left[Pick] > 0
    BY <1>7, <1>0, OtherType DEF BootEmmc, Pick, TypeOK
  <2>2. /\ left' = [left EXCEPT ![Pick] = @ - 1] /\ power' \in {"off", "emmc"}
        /\ power' = "emmc" => booted' = Pick
        /\ UNCHANGED <<marker, store, fip, installed, job>>
    BY <1>7 DEF BootEmmc
  <2>3. \A s \in Slots : left'[s] > 0 => left[s] > 0
    BY <2>1, <2>2, <1>0
  <2>4. job.kind \in {"none", "update", "init", "rauc", "deploy"} /\ power = "off"
    BY <1>7, <1>0 DEF BootEmmc, Jobs, Kinds
  <2>5. job.kind = "none"
    BY <2>4, <1>0 DEF JobsRunWhereTheyMay
  <2> QED
    BY <2>1, <2>2, <2>3, <2>5 DEF ModeInv
<1>8. CASE StartUpdate
  <2>1. /\ left' = [left EXCEPT ![Other(Pick)] = 0] /\ marker = Mode(sdimage)
        /\ job' = [kind |-> "update", step |-> "dd", slot |-> Other(Pick), second |-> FALSE,
                   todo |-> {}, image |-> sdimage, boot |-> sdimage]
        /\ UNCHANGED <<marker, store, fip, power, booted, installed>>
    BY <1>8 DEF StartUpdate
  <2>2. \A s \in Slots : left'[s] > 0 => left[s] > 0
    BY <2>1, <1>0
  <2> QED
    BY <2>1, <2>2 DEF ModeInv
<1>9. CASE StartInit
  <2>1. installed' = FALSE /\ job'.kind = "init" /\ job'.step = "gpt"
    BY <1>9 DEF StartInit, NoJob
  <2> QED
    BY <2>1 DEF ModeInv
<1>10. CASE UpdateStep
  <2>0. job.kind = "update" /\ power = "sd" /\ Mode(job.image) = marker
    BY <1>10, <1>0 DEF UpdateStep, UpdateDd, UpdateDdEnd, UpdateClean, UpdateSlotDone, UpdateFip,
       UpdateFipEnd, UpdatePrimary, UpdateAgain, UpdateFinish, UpdateFile, At, JobsRunWhereTheyMay,
       ModeInv
  <2>1. CASE UpdateDd \/ UpdateDdEnd
    <3>1. /\ UNCHANGED <<marker, fip, left, power, booted, installed>>
          /\ \A s \in Slots : s # job.slot => store'[s] = store[s]
          /\ job'.kind = "update" /\ job'.second = job.second /\ job'.image = job.image
          /\ job'.slot = job.slot /\ job'.step \in {"ddend", "clean"}
      BY <2>1, <2>0, <1>0 DEF UpdateDd, UpdateDdEnd, StoreTorn, StoreWritten, Goto, Jobs
    <3>2. left[job.slot] = 0 /\ Other(job.slot) \in Slots /\ Other(job.slot) # job.slot
      BY <2>1, <2>0, <1>0, OtherType DEF UpdateDd, UpdateDdEnd, At, SlotProgress
    <3> QED
      BY <3>1, <3>2, <2>0 DEF ModeInv
  <2>2. CASE UpdateClean \/ UpdateSlotDone
    <3>1. /\ UNCHANGED <<marker, store, fip, left, power, booted, installed>>
          /\ job'.kind = "update" /\ job'.second = job.second /\ job'.image = job.image
          /\ job'.slot = job.slot
          /\ job'.step = "files" \/ (job'.step = "fip" /\ job.second = FALSE)
                \/ (job'.step = "finish" /\ job.second = TRUE)
      BY <2>2, <2>0, <1>0 DEF UpdateClean, UpdateSlotDone, Goto, Jobs
    <3> QED
      BY <3>1, <2>0 DEF ModeInv
  <2>3. ASSUME NEW f \in FileIds, UpdateFile(f) PROVE ModeInv'
    <3>1. /\ UNCHANGED <<marker, store, fip, left, power, booted, installed>>
          /\ job'.kind = "update" /\ job'.second = job.second /\ job'.image = job.image
          /\ job'.slot = job.slot /\ job'.step = "files"
      BY <2>3, <2>0, <1>0 DEF UpdateFile, At, Jobs
    <3> QED
      BY <3>1, <2>0 DEF ModeInv
  <2>4. CASE UpdateFip
    <3>1. /\ UNCHANGED <<marker, store, left, power, booted, installed>> /\ fip'.main = Torn
          /\ job'.kind = "update" /\ job'.second = job.second /\ job'.image = job.image
          /\ job'.slot = job.slot /\ job'.step = "fipend"
      BY <2>4, <2>0, <1>0 DEF UpdateFip, Goto, Jobs
    <3>2. job.second = FALSE
      BY <2>4, <2>0 DEF UpdateFip, At, ModeInv
    <3> QED
      BY <3>1, <3>2, <2>0 DEF ModeInv
  <2>5. CASE UpdateFipEnd
    <3>1. /\ UNCHANGED <<marker, store, left, power, booted, installed>> /\ fip'.main = job.image
          /\ job'.kind = "update" /\ job'.second = job.second /\ job'.image = job.image
          /\ job'.slot = job.slot /\ job'.step = "primary" /\ job.step = "fipend"
      BY <2>5, <2>0, <1>0 DEF UpdateFipEnd, At, Goto, Jobs
    <3> QED
      BY <3>1, <2>0 DEF ModeInv
  <2>6. CASE UpdatePrimary
    <3>1. /\ UNCHANGED <<marker, store, fip, power, booted, installed>>
          /\ left' = [left EXCEPT ![job.slot] = Tries] /\ store[job.slot] = job.image
          /\ job'.kind = "update" /\ job'.second = job.second /\ job'.image = job.image
          /\ job'.slot = job.slot /\ job.step = "primary"
      BY <2>6, <2>0, <1>0 DEF UpdatePrimary, MadePrimary, At, Goto, Jobs, SlotProgress
    <3>2. \A s \in Slots : s # job.slot => left'[s] = left[s]
      BY <3>1, <1>0
    <3> QED
      BY <3>1, <3>2, <2>0 DEF ModeInv
  <2>7. CASE UpdateAgain
    <3>1. /\ UNCHANGED <<marker, store, fip, power, booted, installed>>
          /\ left' = [left EXCEPT ![Other(job.slot)] = 0] /\ store[job.slot] = job.image
          /\ job'.kind = "update" /\ job'.second = TRUE /\ job'.image = job.image
          /\ job'.slot = Other(job.slot) /\ job.step = "again" /\ job'.step = "dd"
      BY <2>7, <2>0, <1>0 DEF UpdateAgain, At, Jobs, SlotProgress
    <3>2. \A s \in Slots : left'[s] > 0 => left[s] > 0
      BY <3>1, <1>0
    <3>3. Other(job'.slot) = job.slot
      BY <3>1, <1>0, OtherType
    <3> QED
      BY <3>1, <3>2, <3>3, <2>0 DEF ModeInv
  <2>8. CASE UpdateFinish
    <3>1. /\ UNCHANGED <<marker, store, fip, power, booted>> /\ job'.kind = "none"
          /\ store[job.slot] = job.image /\ job.second /\ job.image \in Images
      BY <2>8, <2>0, <1>0 DEF UpdateFinish, At, NoJob, SlotProgress, JobsRunWhereTheyMay
    <3>2. fip.main = job.image /\ store[Other(job.slot)] = job.image
      BY <3>1, <2>0 DEF ModeInv
    <3>3. \A s \in Slots : store[s] = job.image
      BY <3>1, <3>2, <1>0 DEF Other
    <3>4. marker # "none"
      BY <2>0, ModeType
    <3> QED
      BY <3>1, <3>2, <3>3, <3>4, <2>0 DEF ModeInv
  <2> QED
    BY <1>10, <2>1, <2>2, <2>3, <2>4, <2>5, <2>6, <2>7, <2>8 DEF UpdateStep
<1>11. CASE InitStep
  <2>1. ASSUME NEW f \in FileIds, InitCopyFile(f) \/ InitSlotB(f) PROVE ModeInv'
    <3>1. /\ UNCHANGED <<marker, installed>> /\ job.kind = "init"
          /\ job'.kind = "init" /\ job'.image = job.image /\ job'.step = job.step
      BY <2>1, <1>0 DEF InitCopyFile, InitSlotB, At, Jobs
    <3> QED
      BY <3>1, <1>0 DEF ModeInv, JobsRunWhereTheyMay
  <2>2. CASE InitGpt \/ InitFip \/ InitEnv \/ InitMkfs
    <3>1. /\ UNCHANGED installed /\ job.kind = "init"
          /\ job'.kind = "init" /\ job'.step \notin {"slotB", "dd", "userdata"}
      BY <2>2, <1>0 DEF InitGpt, InitFip, InitEnv, InitMkfs, At, Goto, Jobs
    <3> QED
      BY <3>1, <1>0 DEF ModeInv, JobsRunWhereTheyMay
  <2>3. CASE InitCopyMarker
    <3>1. /\ UNCHANGED installed /\ job.kind = "init" /\ marker' = Mode(job.image)
          /\ job'.kind = "init" /\ job'.image = job.image
      BY <2>3, <1>0 DEF InitCopyMarker, At, Goto, Jobs, InitProgress
    <3> QED
      BY <3>1, <1>0 DEF ModeInv, JobsRunWhereTheyMay
  <2>4. CASE InitVerify \/ InitStore
    <3>1. /\ UNCHANGED <<marker, installed>> /\ job.kind = "init" /\ job.step \in {"slotB", "dd"}
          /\ job'.kind = "init" /\ job'.image = job.image
      BY <2>4, <1>0 DEF InitVerify, InitStore, At, Goto, Jobs
    <3> QED
      BY <3>1, <1>0 DEF ModeInv, JobsRunWhereTheyMay
  <2>5. CASE InitUserdata
    <3>1. /\ UNCHANGED <<marker, store, fip, power>> /\ job'.kind = "none" /\ job.kind = "init"
          /\ job.step = "userdata" /\ power = "sd"
      BY <2>5, <1>0 DEF InitUserdata, At, NoJob, JobsRunWhereTheyMay
    <3>2. fip.main = job.image /\ (\A s \in Slots : store[s] = job.image) /\ marker = Mode(job.image)
      BY <3>1, <1>0 DEF InitProgress, ModeInv
    <3> QED
      BY <3>1, <3>2, ModeType DEF ModeInv
  <2> QED
    BY <1>11, <2>1, <2>2, <2>3, <2>4, <2>5 DEF InitStep
<1>12. ASSUME NEW i \in Images, NEW b \in Images, StartRauc(i, b) PROVE ModeInv'
  <2>1. /\ left' = [left EXCEPT ![Other(booted)] = 0]
        /\ job'.kind = "rauc" /\ job'.step = "check"
        /\ UNCHANGED <<marker, store, fip, power, booted, installed>>
    BY <1>12 DEF StartRauc
  <2>2. \A s \in Slots : left'[s] > 0 => left[s] > 0
    BY <2>1, <1>0
  <2> QED
    BY <2>1, <2>2 DEF ModeInv
<1>13. CASE RaucStep
  <2>0. /\ job.kind = "rauc" /\ power = "emmc" /\ job.slot # booted
        /\ left[job.slot] = 0
    BY <1>13, <1>0, OtherType DEF RaucStep, RaucCheck, RaucStoreEnd, RaucPostInstall, RaucMarker,
       RaucFip, RaucFipEnd, RaucPrimary, RaucFile, At, JobsRunWhereTheyMay, SlotProgress
  <2>1. CASE RaucCheck \/ RaucStoreEnd
    <3>1. /\ UNCHANGED <<marker, fip, left, power, booted, installed>>
          /\ \A s \in Slots : s # job.slot => store'[s] = store[s]
          /\ job'.kind = "rauc" /\ job'.step \in {"ddend", "clean"}
      BY <2>1, <2>0, <1>0 DEF RaucCheck, RaucStoreEnd, StoreTorn, StoreWritten, Goto, Jobs
    <3> QED
      BY <3>1, <2>0, <1>0 DEF ModeInv
  <2>2. CASE RaucPostInstall
    <3>1. /\ UNCHANGED <<marker, store, fip, left, power, booted, installed>>
          /\ job'.kind = "rauc" /\ job'.image = job.image
          /\ marker # "none" => Mode(job.image) = marker
      BY <2>2, <2>0, <1>0 DEF RaucPostInstall, CheckSecure, Jobs
    <3> QED
      BY <3>1, <2>0 DEF ModeInv
  <2>3. ASSUME NEW f \in FileIds, RaucFile(f) PROVE ModeInv'
    <3>1. /\ UNCHANGED <<marker, store, fip, left, power, booted, installed>>
          /\ job'.kind = "rauc" /\ job'.image = job.image /\ job'.step = job.step
      BY <2>3, <2>0, <1>0 DEF RaucFile, Jobs
    <3> QED
      BY <3>1, <2>0 DEF ModeInv
  <2>4. CASE RaucMarker
    <3>1. /\ UNCHANGED <<store, fip, left, power, booted, installed>>
          /\ job.step = "files"
          /\ marker # "none" => marker' = marker
          /\ job'.kind = "rauc" /\ job'.image = job.image
      BY <2>4, <2>0, <1>0 DEF RaucMarker, At, Goto, Jobs
    <3> QED
      BY <3>1, <2>0 DEF ModeInv
  <2>5. CASE RaucFip \/ RaucFipEnd
    <3>1. /\ UNCHANGED <<marker, store, left, power, booted, installed>>
          /\ fip'.main \in {Torn, job.image} /\ job.step \in {"fip", "fipend"}
          /\ job'.kind = "rauc" /\ job'.image = job.image
      BY <2>5, <2>0, <1>0 DEF RaucFip, RaucFipEnd, At, Goto, Jobs
    <3> QED
      BY <3>1, <2>0 DEF ModeInv
  <2>6. CASE RaucPrimary
    <3>1. /\ UNCHANGED <<marker, store, fip, power, booted, installed>>
          /\ left' = [left EXCEPT ![job.slot] = Tries] /\ store[job.slot] = job.image
          /\ job'.kind = "none" /\ job.step = "primary"
      BY <2>6, <2>0, <1>0 DEF RaucPrimary, MadePrimary, At, NoJob, SlotProgress
    <3>2. \A s \in Slots : s # job.slot => left'[s] = left[s]
      BY <3>1, <1>0
    <3> QED
      BY <3>1, <3>2, <2>0 DEF ModeInv
  <2> QED
    BY <1>13, <2>1, <2>2, <2>3, <2>4, <2>5, <2>6 DEF RaucStep
<1>14. ASSUME NEW c \in Cores, NEW g \in Images, StartDeploy(c, g) PROVE ModeInv'
  <2>1. /\ UNCHANGED <<marker, store, fip, left, power, booted, installed>>
        /\ job'.kind = "deploy" /\ job'.image = g /\ marker = Mode(g)
    BY <1>14 DEF StartDeploy, NoJob
  <2> QED
    BY <2>1 DEF ModeInv
<1>15. CASE DeployStep
  <2>1. ASSUME NEW f \in FileIds, DeployFit(f) PROVE ModeInv'
    <3>1. /\ UNCHANGED <<marker, store, fip, left, power, booted, installed>>
          /\ job.kind = "deploy" /\ job'.kind = "deploy" /\ job'.image = job.image
      BY <2>1, <1>0 DEF DeployFit, At, Jobs
    <3> QED
      BY <3>1 DEF ModeInv
  <2>2. CASE DeployFip \/ DeployFipEnd
    <3>1. /\ UNCHANGED <<marker, store, left, power, booted, installed>>
          /\ job.kind = "deploy" /\ job'.kind \in {"none", "deploy"}
          /\ job'.kind = "deploy" => job'.image = job.image
          /\ fip'.main \in {Torn, fip.main, job.image}
      BY <2>2, <1>0 DEF DeployFip, DeployFipEnd, At, Goto, NoJob, Jobs
    <3> QED
      BY <3>1 DEF ModeInv
  <2> QED
    BY <1>15, <2>1, <2>2 DEF DeployStep
<1> QED
  BY <1>1, <1>2, <1>3, <1>4, <1>5, <1>6, <1>7, <1>8, <1>9, <1>10, <1>11, <1>12, <1>13, <1>14, <1>15
  DEF Next, NixBadgeInstall, EmmcInitByHand

\* The slot U-Boot picks holds a build of the mode the fip was built for.
THEOREM FipFitsPick == Spec => []FipServesPick
<1>1. Init => ModeInv
  <2> SUFFICES ASSUME Init PROVE ModeInv
    OBVIOUS
  <2>1. CASE BlankDisk
    BY <2>1 DEF Init, BlankDisk, ModeInv, NoJob
  <2>2. ASSUME NEW i \in Images, OldDisk(i) PROVE ModeInv
    BY <2>2, ModeType DEF Init, OldDisk, ModeInv, NoJob
  <2> QED
    BY <2>1, <2>2 DEF Init
<1>2. TypeOK /\ SlotInv /\ ModeInv /\ [Next]_vars => ModeInv'
  BY ModeStep
<1>3. TypeOK /\ SlotInv /\ ModeInv => FipServesPick
  BY OtherType DEF TypeOK, ModeInv, FipServesPick, Pick
<1> QED
  BY <1>1, <1>2, <1>3, SlotsSafe, PTL DEF Spec
=============================================================================
