------------------------------- MODULE Stage0 -------------------------------
(***************************************************************************)
(* Stage 0, the first process of an eMMC boot, over many boots, and what   *)
(* changes the state it looks at: deploys, reinstalled slots, factory      *)
(* resets, a data card that comes and goes, and power cuts between any two *)
(* of its commands.                                                        *)
(*                                                                         *)
(* A slot's Nix state is its store overlay's upper layer (the deployed     *)
(* generations in it), /nix/var (the database and the profile link) and    *)
(* the files stage 0 keeps beside them.  The squashfs is known by its      *)
(* verity root hash.                                                       *)
(***************************************************************************)
EXTENDS Naturals, FiniteSets

CONSTANTS
  Slots,   \* of the slots A and B, the ones booted
  Stamps,  \* verity root hashes of the squashfs
  Gens,    \* the generations that get deployed
  Image,   \* the image's own generation
  None,    \* a file that is not there
  Torn,    \* a file a power cut left empty
  MaxUuid, \* how often the eMMC's USERDATA is made anew
  MaxChanges \* how many deploys and new USERDATAs there are in all

ASSUME SlotsAssumption == Slots # {} /\ Slots \subseteq {"A", "B"}
ASSUME NamesAssumption == Image \notin Gens /\ None \notin Gens \cup Stamps
                            /\ Torn \notin Stamps /\ None # Torn
ASSUME FilesAssumption ==
  /\ {None, Torn} \cap [cid : {"this", "other"}, uuid : 0 .. MaxUuid] = {}
  /\ {None, Torn} \cap [stamp : Stamps, db : SUBSET Gens] = {}
ASSUME BoundsAssumption == MaxUuid \in Nat /\ MaxChanges \in Nat

VARIABLES
  image,   \* the squashfs in each slot
  fit,     \* the generation of the boot.itb in each slot of the eMMC's BOOT
  ud,      \* the eMMC's USERDATA: its UUID and each slot's Nix state
  cardin,  \* a data card is in the slot
  card,    \* the data card's EXT_USERDATA and BOOT
  made,    \* what lay under the upper layer when a generation was deployed
  at       \* the boot: how far it is and what stage 0 has decided

vars == <<image, fit, ud, cardin, card, made, at>>

Systems == Gens \cup {Image}

\* A slot's Nix state: .slot-stamp, upper, var ("part" while it is seeded or
\* removed), the generations its database lists and the profile link.
Layers == [stamp : Stamps \cup {None, Torn}, upper : SUBSET Gens,
           var : {"none", "part", "full"}, db : SUBSET Gens, prof : Systems]

NoLayer == [stamp |-> None, upper |-> {}, var |-> "none", db |-> {}, prof |-> Image]

\* What a data card records of the eMMC: .nixbadge-lower, and per slot.
Badges == {"this", "other"}
LowerFiles == [cid : Badges, uuid : 0 .. MaxUuid] \cup {None, Torn}
SeenFiles  == [stamp : Stamps, db : SUBSET Gens] \cup {None, Torn}

FreshCard(boot) ==
  [file |-> None, nix |-> [s \in Slots |-> NoLayer], seen |-> [s \in Slots |-> None],
   cardfit |-> {}, list |-> {}, fit |-> boot]

\* A BadgeOS card that nix-badge-make-data-card made a data card: its BOOT is
\* empty and its own system's Nix state is still there.
ConvertedCard(h) ==
  [FreshCard([s \in Slots |-> None]) EXCEPT
     !.nix = [s \in Slots |-> [stamp |-> h, upper |-> Gens, var |-> "full",
                               db |-> Gens, prof |-> Image]]]

NoBase == [stamp |-> None, uuid |-> 0, under |-> {}]

Off == [pc |-> "off", slot |-> CHOOSE s \in Slots : TRUE, found |-> FALSE,
        storage |-> "emmc", cardfit |-> FALSE, kernel |-> Image, cstate |-> "none",
        todo |-> {}, userland |-> Image, gen |-> Image]

Pcs == {"off", "find", "reset", "card", "clear", "upper", "var", "seen", "cardfit",
        "list", "lower", "lowerend", "record", "recordend", "slot", "slotupper",
        "slotvar", "seed", "seedend", "stamp", "stampend", "exec", "run", "copy",
        "profile", "fit", "mark"}

TypeOK ==
  /\ image \in [Slots -> Stamps]
  /\ fit \in [Slots -> Systems]
  /\ ud \in [uuid : 0 .. MaxUuid, nix : [Slots -> Layers]]
  /\ cardin \in BOOLEAN
  /\ card \in [file : LowerFiles, nix : [Slots -> Layers], seen : [Slots -> SeenFiles],
               cardfit : SUBSET Slots, list : SUBSET Slots,
               fit : [Slots -> Gens \cup {None}]]
  /\ made \in [Gens -> [stamp : Stamps \cup {None}, uuid : 0 .. MaxUuid,
                        under : SUBSET Gens]]
  /\ at \in [pc : Pcs, slot : Slots, found : BOOLEAN, storage : {"emmc", "card"},
             cardfit : BOOLEAN, kernel : Systems,
             cstate : {"none", "fresh", "same", "reset", "foreign"},
             todo : SUBSET Slots, userland : Systems, gen : Systems]

\* A badge fresh from an installer, and a card formatted or converted to be a
\* data card.
Init ==
  /\ image \in [Slots -> Stamps]
  /\ fit = [s \in Slots |-> Image]
  /\ ud = [uuid |-> 0, nix |-> [s \in Slots |-> NoLayer]]
  /\ cardin \in BOOLEAN
  /\ \/ card = FreshCard([s \in Slots |-> None])
     \/ \E h \in Stamps : card = ConvertedCard(h)
  /\ made = [g \in Gens |-> NoBase]
  /\ at = Off

-----------------------------------------------------------------------------
\* The Nix state stage 0 works on: $UD/nix-$slot.
Layer == IF at.storage = "card" THEN card.nix[at.slot] ELSE ud.nix[at.slot]

SetLayer(l) ==
  IF at.storage = "card"
    THEN card' = [card EXCEPT !.nix[at.slot] = l] /\ ud' = ud
    ELSE ud' = [ud EXCEPT !.nix[at.slot] = l] /\ card' = card

Goto(pc) == at' = [at EXCEPT !.pc = pc]

\* U-Boot boots a slot, with the card's boot.itb for it while the card marks
\* it as current; if that one does not boot, with the eMMC's.
PowerOn(s, viacard) ==
  /\ at.pc = "off"
  /\ viacard => cardin /\ s \in card.cardfit /\ card.fit[s] # None
  /\ at' = [Off EXCEPT !.pc = "find", !.slot = s, !.cardfit = viacard,
                       !.kernel = IF viacard THEN card.fit[s] ELSE fit[s]]
  /\ UNCHANGED <<image, fit, ud, cardin, card, made>>

\* The slot's state on the eMMC is this image's already.
LowerReady ==
  LET l == ud.nix[at.slot] IN l.var # "none" /\ l.stamp = image[at.slot]

\* Steps 2 to 3c: stage 0 looks once for a data card, which may be late or
\* badly seated; one it found counts when the eMMC's USERDATA mounts under it
\* and is ready.
FindStorage(found, mounts) ==
  /\ at.pc = "find"
  /\ found => cardin
  /\ at' = [at EXCEPT !.pc = "reset", !.found = found,
                      !.storage = IF found /\ mounts /\ LowerReady THEN "card" ELSE "emmc"]
  /\ UNCHANGED <<image, fit, ud, cardin, card, made>>

\* The bound on the deploys and resets of a history.
MayChange == ud.uuid + Cardinality({g \in Gens : made[g] # NoBase}) < MaxChanges

\* Mutant of ResetUserdata: the file system this boot uses is the one reset.
ResetUsedUserdata(done) ==
  /\ at.pc = "reset"
  /\ IF ~done THEN UNCHANGED <<ud, card>>
     ELSE IF at.storage = "card" THEN card' = FreshCard(card.fit) /\ ud' = ud
     ELSE /\ ud.uuid < MaxUuid /\ MayChange
          /\ ud' = [uuid |-> ud.uuid + 1, nix |-> [s \in Slots |-> NoLayer]]
          /\ card' = card
  /\ at' = [at EXCEPT !.found = FALSE,
                      !.pc = IF at.storage = "card" THEN "card" ELSE "slot"]
  /\ UNCHANGED <<image, fit, cardin, made>>

\* reset_userdata: with nixbadge.reset=userdata and a mkfs that succeeds, the
\* EXT_USERDATA of the card stage 0 found, else USERDATA.
ResetUserdata(done) ==
  /\ at.pc = "reset"
  /\ IF ~done THEN UNCHANGED <<ud, card>>
     ELSE IF at.found THEN card' = FreshCard(card.fit) /\ ud' = ud
     ELSE /\ ud.uuid < MaxUuid /\ MayChange
          /\ ud' = [uuid |-> ud.uuid + 1, nix |-> [s \in Slots |-> NoLayer]]
          /\ card' = card
  /\ at' = [at EXCEPT !.found = FALSE,
                      !.pc = IF at.storage = "card" THEN "card" ELSE "slot"]
  /\ UNCHANGED <<image, fit, cardin, made>>

-----------------------------------------------------------------------------
\* Mutant of Foreign: only an unreadable file is another badge's.
ForeignIfTorn == card.file = Torn

\* card_state: whose card it is, and whether the eMMC under it has changed.
Foreign == card.file = Torn \/ card.file.cid # "this"

NewLower == card.file.uuid # ud.uuid

\* Mutant of SlotChanged: the eMMC's database is not compared.
SlotChangedStamp ==
  LET seen == card.seen[at.slot] IN
    seen # None /\ (seen = Torn \/ seen.stamp # image[at.slot])

SlotChanged ==
  LET seen == card.seen[at.slot] IN
    /\ seen # None
    /\ \/ seen = Torn
       \/ seen # [stamp |-> image[at.slot], db |-> ud.nix[at.slot].db]

CardState(mounts) ==
  /\ at.pc = "card"
  /\ at' = IF ~mounts THEN [at EXCEPT !.pc = "slot", !.storage = "emmc"]
           ELSE IF card.file = None THEN [at EXCEPT !.pc = "clear", !.cstate = "fresh"]
           ELSE IF Foreign THEN [at EXCEPT !.pc = "slot", !.storage = "emmc",
                                           !.cstate = "foreign"]
           ELSE IF NewLower THEN [at EXCEPT !.pc = "upper", !.cstate = "reset",
                                            !.todo = Slots]
           ELSE IF SlotChanged THEN [at EXCEPT !.pc = "upper", !.cstate = "reset",
                                               !.todo = {at.slot}]
           ELSE [at EXCEPT !.pc = "lower", !.cstate = "same"]
  /\ UNCHANGED <<image, fit, ud, cardin, card, made>>

\* A fresh data card's own Nix state goes, generation by generation.
ClearCard(rest) ==
  /\ at.pc = "clear"
  /\ card' = [card EXCEPT !.nix = [s \in Slots |-> IF rest = {} THEN NoLayer
                                     ELSE [card.nix[s] EXCEPT !.upper = @ \cap rest]],
                          !.seen = [s \in Slots |-> None]]
  /\ Goto(IF rest = {} THEN "lower" ELSE "clear")
  /\ UNCHANGED <<image, fit, ud, cardin, made>>

\* card_reset_nix of the first slot to do, in the order of its arguments.
Doing == CHOOSE s \in at.todo : s = "A" \/ at.todo = {s}

CardResetUpper(rest) ==
  /\ at.pc = "upper"
  /\ rest \subseteq card.nix[Doing].upper
  /\ card' = [card EXCEPT !.nix[Doing] = [@ EXCEPT !.upper = rest]]
  /\ Goto(IF rest = {} THEN "var" ELSE "upper")
  /\ UNCHANGED <<image, fit, ud, cardin, made>>

\* Mutant of CardResetVar: the profile link dangles.
CardResetVarNoLink ==
  /\ at.pc = "var"
  /\ card' = [card EXCEPT !.nix[Doing] =
                [@ EXCEPT !.var = "none", !.db = {}, !.prof = None]]
  /\ Goto("seen")
  /\ UNCHANGED <<image, fit, ud, cardin, made>>

CardResetVar ==
  /\ at.pc = "var"
  /\ card' = [card EXCEPT !.nix[Doing] =
                [@ EXCEPT !.var = "none", !.db = {}, !.prof = Image]]
  /\ Goto("seen")
  /\ UNCHANGED <<image, fit, ud, cardin, made>>

CardResetSeen ==
  /\ at.pc = "seen"
  /\ card' = [card EXCEPT !.seen[Doing] = None]
  /\ Goto("cardfit")
  /\ UNCHANGED <<image, fit, ud, cardin, made>>

\* Mutant of CardResetFit: the mark for U-Boot stays.
CardResetFitKept ==
  /\ at.pc = "cardfit"
  /\ Goto("list")
  /\ UNCHANGED <<image, fit, ud, cardin, card, made>>

CardResetFit ==
  /\ at.pc = "cardfit"
  /\ card' = [card EXCEPT !.cardfit = @ \ {Doing}]
  /\ Goto("list")
  /\ UNCHANGED <<image, fit, ud, cardin, made>>

CardResetList ==
  /\ at.pc = "list"
  /\ card' = [card EXCEPT !.list = @ \cup {Doing}]
  /\ LET rest == at.todo \ {Doing} IN
       at' = [at EXCEPT !.todo = rest, !.pc = IF rest = {} THEN "lower" ELSE "upper"]
  /\ UNCHANGED <<image, fit, ud, cardin, made>>

\* The two fingerprints, each truncated and then written.
RecordLower ==
  /\ \/ /\ at.pc = "lower" /\ Goto("lowerend")
        /\ card' = [card EXCEPT !.file = Torn]
     \/ /\ at.pc = "lowerend" /\ Goto("record")
        /\ card' = [card EXCEPT !.file = [cid |-> "this", uuid |-> ud.uuid]]
     \/ /\ at.pc = "record" /\ Goto("recordend")
        /\ card' = [card EXCEPT !.seen[at.slot] = Torn]
     \/ /\ at.pc = "recordend" /\ Goto("slot")
        /\ card' = [card EXCEPT !.seen[at.slot] =
                      [stamp |-> image[at.slot], db |-> ud.nix[at.slot].db]]
  /\ UNCHANGED <<image, fit, ud, cardin, made>>

-----------------------------------------------------------------------------
\* slot_state: a new root hash resets the slot's Nix state.
SlotState ==
  /\ at.pc = "slot"
  /\ Goto(IF Layer.stamp # image[at.slot] THEN "slotupper" ELSE "seed")
  /\ UNCHANGED <<image, fit, ud, cardin, card, made>>

SlotUpper(rest) ==
  /\ at.pc = "slotupper"
  /\ rest \subseteq Layer.upper
  /\ SetLayer([Layer EXCEPT !.upper = rest])
  /\ Goto(IF rest = {} THEN "slotvar" ELSE "slotupper")
  /\ UNCHANGED <<image, fit, cardin, made>>

SlotVar ==
  /\ at.pc = "slotvar"
  /\ SetLayer([Layer EXCEPT !.var = "none", !.db = {}, !.prof = Image])
  /\ Goto("seed")
  /\ UNCHANGED <<image, fit, cardin, made>>

\* A new var gets the image's profiles, on a data card the eMMC slot's.
Seed ==
  /\ at.pc = "seed"
  /\ IF Layer.var # "none"
       THEN Goto("stamp") /\ UNCHANGED <<ud, card>>
       ELSE Goto("seedend") /\ SetLayer([Layer EXCEPT !.var = "part"])
  /\ UNCHANGED <<image, fit, cardin, made>>

\* A failed cp removes var again and leaves the stamp as it is.
SeedEnd(ok) ==
  /\ at.pc = "seedend"
  /\ LET prof == IF at.storage = "card" THEN ud.nix[at.slot].prof ELSE Image IN
       IF ok THEN SetLayer([Layer EXCEPT !.var = "full", !.prof = prof]) /\ Goto("stamp")
             ELSE SetLayer([Layer EXCEPT !.var = "none"]) /\ Goto("exec")
  /\ UNCHANGED <<image, fit, cardin, made>>

WriteStamp ==
  /\ \/ at.pc = "stamp" /\ SetLayer([Layer EXCEPT !.stamp = Torn]) /\ Goto("stampend")
     \/ /\ at.pc = "stampend" /\ Goto("exec")
        /\ SetLayer([Layer EXCEPT !.stamp = image[at.slot]])
  /\ UNCHANGED <<image, fit, cardin, made>>

\* follow_fit and choose_init: the profile link of the place the kernel came
\* from, if its generation is in the store, else the image's own.
Exec ==
  /\ at.pc = "exec"
  /\ LET lower == ud.nix[at.slot]
         link  == IF at.storage = "card" /\ ~at.cardfit THEN lower.prof ELSE Layer.prof
         store == Layer.upper \cup lower.upper
     IN  at' = [at EXCEPT !.pc = "run",
                          !.userland = IF link \in store THEN link ELSE Image]
  /\ UNCHANGED <<image, fit, ud, cardin, card, made>>

-----------------------------------------------------------------------------
\* A deploy: the closure and its database rows, the profile link, the boot
\* image, and on a data card the mark that makes U-Boot use it.
DeployCopy(g) ==
  /\ at.pc = "run" /\ Layer.var # "none" /\ made[g] = NoBase /\ MayChange
  /\ SetLayer([Layer EXCEPT !.upper = @ \cup {g}, !.db = @ \cup {g}])
  /\ made' = [made EXCEPT ![g] =
                [stamp |-> image[at.slot],
                 uuid  |-> IF at.storage = "card" THEN ud.uuid ELSE 0,
                 under |-> IF at.storage = "card" THEN ud.nix[at.slot].db ELSE {}]]
  /\ at' = [at EXCEPT !.pc = "profile", !.gen = g]
  /\ UNCHANGED <<image, fit, cardin>>

DeployProfile ==
  /\ at.pc = "profile"
  /\ SetLayer([Layer EXCEPT !.prof = at.gen])
  /\ Goto("fit")
  /\ UNCHANGED <<image, fit, cardin, made>>

DeployFit ==
  /\ at.pc = "fit"
  /\ IF at.storage = "card"
       THEN card' = [card EXCEPT !.fit[at.slot] = at.gen] /\ Goto("mark") /\ fit' = fit
       ELSE /\ fit' = [fit EXCEPT ![at.slot] = at.gen] /\ card' = card
            /\ at' = [at EXCEPT !.pc = "run", !.gen = Image]
  /\ UNCHANGED <<image, ud, cardin, made>>

DeployMark ==
  /\ at.pc = "mark"
  /\ card' = [card EXCEPT !.cardfit = @ \cup {at.slot}]
  /\ at' = [at EXCEPT !.pc = "run", !.gen = Image]
  /\ UNCHANGED <<image, fit, ud, cardin, made>>

\* nix-badge-card-boot-reset, once the card's BOOT is mounted and whatever else
\* runs: the listed slots' boot images go, then the list, unless the power goes
\* in between.
CardBootReset(cut) ==
  /\ at.pc \in {"run", "profile", "fit", "mark"} /\ at.storage = "card"
  /\ card.list # {}
  /\ card' = [card EXCEPT !.fit = [s \in Slots |-> IF s \in card.list THEN None ELSE @[s]],
                          !.list = IF cut THEN @ ELSE {}]
  /\ at' = IF cut THEN Off ELSE at
  /\ UNCHANGED <<image, fit, ud, cardin, made>>

-----------------------------------------------------------------------------
PowerCut ==
  /\ at.pc # "off"
  /\ at' = Off
  /\ UNCHANGED <<image, fit, ud, cardin, card, made>>

SwapCard ==
  /\ at.pc = "off"
  /\ cardin' = ~cardin
  /\ UNCHANGED <<image, fit, ud, card, made, at>>

\* Another badge made a fresh file system on the card, used it and may have
\* deployed to it.
CardUsedElsewhere(marks, g) ==
  /\ at.pc = "off" /\ ~cardin
  /\ card' = [FreshCard([s \in Slots |-> IF s \in marks THEN g ELSE card.fit[s]])
                EXCEPT !.file = [cid |-> "other", uuid |-> 0], !.cardfit = marks]
  /\ UNCHANGED <<image, fit, ud, cardin, made, at>>

\* An installer puts another image into a slot (BadgeBoot).
Reinstall(s, i) ==
  /\ at.pc = "off"
  /\ image' = [image EXCEPT ![s] = i]
  /\ fit' = [fit EXCEPT ![s] = Image]
  /\ UNCHANGED <<ud, cardin, card, made, at>>

CardStateStep ==
  \/ \E mounts \in BOOLEAN : CardState(mounts)
  \/ CardResetVar \/ CardResetSeen \/ CardResetFit \/ CardResetList
  \/ RecordLower
  \/ \E rest \in SUBSET Gens : ClearCard(rest) \/ CardResetUpper(rest)

SlotStateStep ==
  \/ SlotState \/ SlotVar \/ Seed \/ WriteStamp
  \/ \E rest \in SUBSET Gens : SlotUpper(rest)
  \/ \E ok \in BOOLEAN : SeedEnd(ok)

DeployStep ==
  \/ DeployProfile \/ DeployFit \/ DeployMark
  \/ \E g \in Gens : DeployCopy(g)

Next ==
  \/ \E s \in Slots, viacard \in BOOLEAN : PowerOn(s, viacard)
  \/ \E found, mounts \in BOOLEAN : FindStorage(found, mounts)
  \/ \E done \in BOOLEAN : ResetUserdata(done)
  \/ CardStateStep \/ SlotStateStep \/ Exec
  \/ DeployStep \/ \E cut \in BOOLEAN : CardBootReset(cut)
  \/ PowerCut \/ SwapCard
  \/ \E marks \in SUBSET Slots, g \in Gens : CardUsedElsewhere(marks, g)
  \/ \E s \in Slots, i \in Stamps : Reinstall(s, i)

Spec == Init /\ [][Next]_vars

-----------------------------------------------------------------------------
\* The store the system runs on is the one its generations were deployed on:
\* whatever cuts, reinstalls, resets and card swaps came before, no layer of
\* another squashfs, another USERDATA or another eMMC database is mounted
\* over what is there now (slot_state, lower_ready and card_state together).
RunsOnMatchingLayer ==
  at.pc = "run" =>
    \A g \in Layer.upper \cup Layer.db :
      made[g] = [stamp |-> image[at.slot],
                 uuid  |-> IF at.storage = "card" THEN ud.uuid ELSE 0,
                 under |-> IF at.storage = "card" THEN ud.nix[at.slot].db ELSE {}]

\* A factory reset of a boot that found a data card is the card's, "even when
\* this boot then cannot use the card" (reset_userdata), and with a data card
\* in use nothing changes the eMMC's USERDATA.
CardSparesEmmc ==
  [][(at.found /\ at.pc = "reset") \/ (at.storage = "card" /\ at.pc # "off")
     => ud' = ud]_vars

\* "Another badge's card is not used": between a card's first use on another
\* badge and a factory reset asked for here, no boot changes the card.
ForeignCardKept ==
  [][card.file = [cid |-> "other", uuid |-> 0] /\ at.pc \notin {"off", "reset"}
     => card' = card]_vars

\* On a card in use, U-Boot's marks are for boot images that were deployed
\* over the eMMC's USERDATA as it is now: whatever cuts came in between, a new
\* USERDATA takes the marks of both slots with it (card_state, card_reset_nix).
MarksOfThisUserdata ==
  at.pc = "run" /\ at.storage = "card" =>
    \A s \in card.cardfit : card.fit[s] # None => made[card.fit[s]].uuid = ud.uuid

-----------------------------------------------------------------------------
\* "A new root hash resets only this slot's state": a generation of the image
\* that is in the slot stays in its upper layer.
StateKept ==
  [][\A s \in Slots : \A g \in ud.nix[s].upper \ ud'.nix[s].upper :
       ud'.uuid # ud.uuid \/ made[g].stamp # image[s]]_vars
=============================================================================
