---------------------------- MODULE Stage0Proofs ----------------------------
(***************************************************************************)
(* Proofs about Stage0, for every set of slots, squashfs images and        *)
(* generations and every number of deploys and resets.                     *)
(***************************************************************************)
EXTENDS Stage0, TLAPS

USE SlotsAssumption, NamesAssumption, FilesAssumption, BoundsAssumption

-----------------------------------------------------------------------------
(***************************************************************************)
(* The inductive invariant.                                                *)
(***************************************************************************)
ResetPcs == {"upper", "var", "seen", "cardfit", "list"}
CardPcs  == {"card", "clear", "lower", "lowerend", "record", "recordend", "mark"} \cup ResetPcs
LayerPcs == {"seed", "seedend", "stamp", "stampend", "exec", "run", "profile", "fit", "mark"}
SlotPcs  == {"slot", "slotupper", "slotvar"} \cup LayerPcs
RunPcs   == {"run", "profile", "fit", "mark"}

\* Where a boot works: a card is used only while it is in.
WhereInv ==
  /\ at.pc \in {"off", "find"} => at.storage = "emmc"
  /\ at.storage = "card" => cardin
  /\ at.storage = "card" /\ at.pc = "reset" => at.found
  /\ at.pc \in CardPcs => at.storage = "card"

\* A slot's layer on the eMMC with a stamp was deployed on that squashfs.
UdInv ==
  \A s \in Slots : ud.nix[s].stamp \in Stamps =>
    \A g \in ud.nix[s].upper \cup ud.nix[s].db :
      made[g] = [stamp |-> ud.nix[s].stamp, uuid |-> 0, under |-> {}]

\* A slot a used card has no fingerprint for has nothing on the card.
SeenInv ==
  card.file # None => \A s \in Slots : card.seen[s] = None =>
    card.nix[s].upper = {} /\ card.nix[s].db = {}

\* A slot's layer on the card was deployed on the squashfs of its stamp, the
\* USERDATA u and, under it, the eMMC database d.
CardMade(s, u, d) ==
  card.nix[s].stamp \in Stamps =>
    \A g \in card.nix[s].upper \cup card.nix[s].db :
      made[g] = [stamp |-> card.nix[s].stamp, uuid |-> u, under |-> d]

\* The card's files tell the truth about its layers.
CardInv ==
  \A s \in Slots, u \in 0 .. MaxUuid, h \in Stamps, d \in SUBSET Gens :
    card.file = [cid |-> "this", uuid |-> u] /\ card.seen[s] = [stamp |-> h, db |-> d]
      => CardMade(s, u, d)

\* The same of this eMMC's USERDATA, while the files are rewritten.
CardGood(s) ==
  \A h \in Stamps, d \in SUBSET Gens :
    card.seen[s] = [stamp |-> h, db |-> d] => CardMade(s, ud.uuid, d)

\* What a boot's fingerprint of its slot says.
Now == [stamp |-> image[at.slot], db |-> ud.nix[at.slot].db]

\* The card's files at each step of card_state and after it.
FileInv ==
  /\ at.pc = "clear" => card.file = None /\ at.cstate = "fresh"
  /\ at.pc \in ResetPcs => card.file \notin {None, Torn} /\ card.file.cid = "this"
  /\ at.pc = "lower" => card.file # Torn /\ (card.file # None => card.file.cid = "this")
  /\ at.pc = "lowerend" => card.file = Torn
  /\ at.storage = "card" /\ at.pc \in {"record", "recordend"} \cup SlotPcs =>
       card.file = [cid |-> "this", uuid |-> ud.uuid]

\* How far card_reset_nix is with the slot it is doing.
DoingInv ==
  at.pc \in ResetPcs => \A s \in Slots : s = Doing =>
    /\ at.pc \in {"var", "seen", "cardfit", "list"} => card.nix[s].upper = {}
    /\ at.pc \in {"seen", "cardfit", "list"} => card.nix[s].db = {}
    /\ at.pc \in {"cardfit", "list"} => card.seen[s] = None
    /\ at.pc = "list" => s \notin card.cardfit

\* The card's slots at each step of card_state and after it.
FingerInv ==
  /\ at.pc \in ResetPcs =>
       /\ at.todo # {}
       /\ \A s \in Slots \ at.todo : CardGood(s)
       /\ at.slot \notin at.todo => card.seen[at.slot] = None
  /\ at.pc \in {"lower", "lowerend"} => \A s \in Slots : CardGood(s)
  /\ at.pc \in {"lower", "lowerend", "record"} => card.seen[at.slot] \in {None, Now}
  /\ at.pc = "recordend" =>
       /\ card.seen[at.slot] = Torn
       /\ CardMade(at.slot, ud.uuid, ud.nix[at.slot].db)
  /\ at.storage = "card" /\ at.pc \in SlotPcs => card.seen[at.slot] = Now

\* What a generation that is deployed now is deployed on.
Base == [stamp |-> image[at.slot],
         uuid  |-> IF at.storage = "card" THEN ud.uuid ELSE 0,
         under |-> IF at.storage = "card" THEN ud.nix[at.slot].db ELSE {}]

\* What slot_state and a deploy leave in the layer this boot uses.
LayerInv ==
  /\ at.pc = "slotvar" => Layer.upper = {}
  /\ at.pc \in LayerPcs =>
       \A g \in Layer.upper \cup Layer.db : made[g] = Base
  /\ at.pc \in {"exec"} \cup RunPcs /\ Layer.var # "none" => Layer.stamp = image[at.slot]
  /\ at.pc \in {"profile", "fit", "mark"} => Layer.var # "none"
  /\ at.pc \in {"profile", "fit"} => at.gen \in Layer.upper

\* Nothing of a fresh card's own system is left once stage 0 records the eMMC.
ClearedInv ==
  at.pc = "lower" => \A s \in Slots : card.seen[s] = None =>
    card.nix[s].upper = {} /\ card.nix[s].db = {}

Stage0Inv ==
  /\ TypeOK /\ WhereInv /\ UdInv /\ SeenInv /\ CardInv
  /\ FileInv /\ DoingInv /\ FingerInv /\ LayerInv /\ ClearedInv

-----------------------------------------------------------------------------
\* A badge that is off: Off and the initial layers are well typed.
LEMMA OffType ==
  /\ Off.slot \in Slots /\ NoLayer \in Layers /\ NoBase.stamp = None
  /\ Off.pc = "off" /\ Off.storage = "emmc"
<1>1. (CHOOSE s \in Slots : TRUE) \in Slots
  BY Zenon
<1> QED
  BY <1>1 DEF Off, NoLayer, Layers, Systems, NoBase

\* The slot card_reset_nix is doing is one of those to do.
LEMMA DoingType ==
  ASSUME at.todo # {}, at.todo \subseteq Slots
  PROVE  Doing \in at.todo
<1>1. \E s \in at.todo : s = "A" \/ at.todo = {s}
  <2>1. CASE "A" \in at.todo
    BY <2>1
  <2>2. CASE "A" \notin at.todo
    <3>1. \A s \in at.todo : s = "B"
      BY <2>2
    <3>2. PICK s \in at.todo : TRUE
      OBVIOUS
    <3> QED
      BY <3>1, <3>2
  <2> QED
    BY <2>1, <2>2
<1> QED
  BY <1>1, Zenon DEF Doing

\* A boot that uses no card, or has not got to it, promises nothing of it.
LEMMA NoCardYet ==
  ASSUME at'.pc \notin CardPcs \ {"card"}, at'.storage = "emmc" \/ at'.pc \notin SlotPcs
  PROVE  FileInv' /\ DoingInv' /\ FingerInv' /\ ClearedInv'
<1> USE DEF CardPcs, ResetPcs, SlotPcs, LayerPcs, RunPcs
<1>1. FileInv' /\ DoingInv'
  BY DEF FileInv, DoingInv
<1>2. FingerInv' /\ ClearedInv'
  BY DEF FingerInv, ClearedInv
<1> QED
  BY <1>1, <1>2

\* LayerInv speaks of slot_state and the steps after it only.
LEMMA NoLayerYet ==
  ASSUME at'.pc \notin LayerPcs \cup {"slotvar"}
  PROVE  LayerInv'
BY DEF LayerInv, LayerPcs, RunPcs

\* The records in the card's files are not the names for a missing or torn file.
LEMMA FileNames ==
  /\ \A h \in Stamps, d \in SUBSET Gens : [stamp |-> h, db |-> d] \notin {None, Torn}
  /\ \A u \in 0 .. MaxUuid, c \in Badges : [cid |-> c, uuid |-> u] \notin {None, Torn}
<1>1. \A h \in Stamps, d \in SUBSET Gens :
        [stamp |-> h, db |-> d] \in [stamp : Stamps, db : SUBSET Gens]
  OBVIOUS
<1>2. \A u \in 0 .. MaxUuid, c \in Badges :
        [cid |-> c, uuid |-> u] \in [cid : {"this", "other"}, uuid : 0 .. MaxUuid]
  BY DEF Badges
<1> QED
  BY <1>1, <1>2

\* UdInv is about the eMMC, SeenInv and CardInv about the card.
LEMMA UdFrame ==
  ASSUME UdInv, UNCHANGED <<ud, made>>
  PROVE  UdInv'
BY DEF UdInv

\* They stay while the card and what was deployed stay.
LEMMA CardFrame ==
  ASSUME SeenInv, CardInv, UNCHANGED <<card, made>>
  PROVE  SeenInv' /\ CardInv'
<1>1. SeenInv'
  BY DEF SeenInv
<1>2. \A s, u, d : CardMade(s, u, d) => CardMade(s, u, d)'
  BY DEF CardMade
<1>3. CardInv'
  BY <1>2 DEF CardInv
<1> QED
  BY <1>1, <1>3

\* While a system runs from the card its two files stay.
LEMMA InUseFrame ==
  ASSUME WhereInv, FileInv, FingerInv, at.storage = "card", at.pc \in SlotPcs,
         at'.storage = "card", at'.pc \in SlotPcs, at'.slot = at.slot,
         UNCHANGED <<image, ud, cardin>>, card'.file = card.file, card'.seen = card.seen
  PROVE  WhereInv' /\ FileInv' /\ DoingInv' /\ FingerInv'
<1> USE DEF SlotPcs, LayerPcs, ResetPcs, CardPcs
<1>1. at'.pc \notin ResetPcs \cup {"clear", "lower", "lowerend", "record", "recordend", "off", "find"}
  OBVIOUS
<1>2. WhereInv'
  BY <1>1 DEF WhereInv
<1>3. FileInv'
  BY <1>1 DEF FileInv
<1>4. DoingInv'
  BY <1>1 DEF DoingInv
<1>5. FingerInv'
  BY <1>1 DEF FingerInv, Now
<1> QED
  BY <1>2, <1>3, <1>4, <1>5

\* The layer in use, and what SetLayer makes of it.
LEMMA LayerType == TypeOK => Layer \in Layers
BY DEF TypeOK, Layer

\* On the card only the slot's layer changes.
LEMMA SetLayerCard ==
  ASSUME TypeOK, NEW l \in Layers, SetLayer(l), at.storage = "card"
  PROVE  /\ ud' = ud
         /\ card' \in [file : LowerFiles, nix : [Slots -> Layers], seen : [Slots -> SeenFiles],
                       cardfit : SUBSET Slots, list : SUBSET Slots,
                       fit : [Slots -> Gens \cup {None}]]
         /\ card'.file = card.file /\ card'.seen = card.seen /\ card'.cardfit = card.cardfit
         /\ card'.list = card.list /\ card'.fit = card.fit
         /\ card'.nix[at.slot] = l
         /\ \A s \in Slots : s # at.slot => card'.nix[s] = card.nix[s]
<1>1. card' = [card EXCEPT !.nix[at.slot] = l] /\ ud' = ud
  BY DEF SetLayer
<1> QED
  BY SMTT(30), <1>1 DEF TypeOK

\* So it does on the eMMC.
LEMMA SetLayerEmmc ==
  ASSUME TypeOK, NEW l \in Layers, SetLayer(l), at.storage = "emmc"
  PROVE  /\ card' = card /\ ud' \in [uuid : 0 .. MaxUuid, nix : [Slots -> Layers]]
         /\ ud'.uuid = ud.uuid /\ ud'.nix[at.slot] = l
         /\ \A s \in Slots : s # at.slot => ud'.nix[s] = ud.nix[s]
<1>1. ud' = [ud EXCEPT !.nix[at.slot] = l] /\ card' = card
  BY DEF SetLayer
<1> QED
  BY <1>1 DEF TypeOK

\* A layer that only loses generations, or gets the stamp of the image they
\* were deployed on, stays truthfully stamped.
LEMMA LayerKept ==
  ASSUME TypeOK, UdInv, SeenInv, CardInv, FileInv, FingerInv, LayerInv, at.pc \in SlotPcs,
         NEW l \in Layers, SetLayer(l), made' = made,
         l.upper \subseteq Layer.upper, l.db \subseteq Layer.db,
         \/ l.stamp \in {Layer.stamp, Torn}
         \/ l.stamp = image[at.slot] /\ at.pc \in LayerPcs
  PROVE  UdInv' /\ SeenInv' /\ CardInv'
<1>0. /\ at.slot \in Slots /\ at.storage \in {"emmc", "card"} /\ ud.uuid \in 0 .. MaxUuid
      /\ image[at.slot] \in Stamps /\ ud.nix[at.slot].db \in SUBSET Gens
      /\ at.pc \in LayerPcs => at.pc # "slotvar"
  BY DEF TypeOK, Layers, LayerPcs
<1>1. CASE at.storage = "emmc"
  <2>1. /\ card' = card /\ ud'.nix[at.slot] = l
        /\ \A s \in Slots : s # at.slot => ud'.nix[s] = ud.nix[s]
    BY <1>1, SetLayerEmmc
  <2>2. SeenInv' /\ CardInv'
    BY <2>1, CardFrame
  <2>3. ASSUME l.stamp \in Stamps, NEW g \in l.upper \cup l.db
        PROVE  made[g] = [stamp |-> l.stamp, uuid |-> 0, under |-> {}]
    <3>1. CASE l.stamp = Layer.stamp
      <4>1. Layer = ud.nix[at.slot]
        BY <1>1 DEF Layer
      <4>2. ud.nix[at.slot].stamp \in Stamps /\ g \in ud.nix[at.slot].upper \cup ud.nix[at.slot].db
        BY <4>1, <3>1, <2>3
      <4>3. made[g] = [stamp |-> ud.nix[at.slot].stamp, uuid |-> 0, under |-> {}]
        BY <4>2, <1>0 DEF UdInv
      <4> QED
        BY <4>1, <4>3, <3>1
    <3>2. CASE l.stamp = image[at.slot] /\ at.pc \in LayerPcs
      BY <3>2, <2>3, <1>0, <1>1 DEF LayerInv, Base
    <3> QED
      BY <3>1, <3>2, <2>3
  <2>4. ASSUME NEW s \in Slots, ud'.nix[s].stamp \in Stamps,
               NEW g \in ud'.nix[s].upper \cup ud'.nix[s].db
        PROVE  made'[g] = [stamp |-> ud'.nix[s].stamp, uuid |-> 0, under |-> {}]
    <3>1. CASE s = at.slot
      BY <3>1, <2>1, <2>3, <2>4
    <3>2. CASE s # at.slot
      BY <3>2, <2>1, <2>4 DEF UdInv
    <3> QED
      BY <3>1, <3>2
  <2>5. UdInv'
    BY <2>4 DEF UdInv
  <2> QED
    BY <2>2, <2>5
<1>2. CASE at.storage = "card"
  <2>1. /\ ud' = ud /\ card'.nix[at.slot] = l /\ card'.file = card.file /\ card'.seen = card.seen
        /\ \A s \in Slots : s # at.slot => card'.nix[s] = card.nix[s]
    BY <1>2, SetLayerCard
  <2>2. UdInv'
    BY <2>1, UdFrame
  <2>3. /\ card.file = [cid |-> "this", uuid |-> ud.uuid]
        /\ card.seen[at.slot] = [stamp |-> image[at.slot], db |-> ud.nix[at.slot].db]
    BY <1>2 DEF FileInv, FingerInv, Now
  <2>4. card.seen[at.slot] # None
    <3>1. card.seen[at.slot] \in [stamp : Stamps, db : SUBSET Gens]
      BY <2>3, <1>0
    <3> QED
      BY <3>1
  <2>5. SeenInv'
    BY <2>1, <2>4 DEF SeenInv
  <2>6. ASSUME l.stamp \in Stamps, NEW g \in l.upper \cup l.db
        PROVE  made[g] = [stamp |-> l.stamp, uuid |-> ud.uuid, under |-> ud.nix[at.slot].db]
    <3>1. CASE l.stamp = Layer.stamp
      <4>1. CardMade(at.slot, ud.uuid, ud.nix[at.slot].db)
        BY <2>3, <1>0, Zenon DEF CardInv
      <4> QED
        BY <4>1, <3>1, <2>6, <1>0, <1>2 DEF CardMade, Layer
    <3>2. CASE l.stamp = image[at.slot] /\ at.pc \in LayerPcs
      BY <3>2, <2>6, <1>0, <1>2 DEF LayerInv, Base
    <3> QED
      BY <3>1, <3>2, <2>6
  <2>7. ASSUME NEW s \in Slots, NEW u \in 0 .. MaxUuid, NEW h \in Stamps, NEW d \in SUBSET Gens,
               card'.file = [cid |-> "this", uuid |-> u],
               card'.seen[s] = [stamp |-> h, db |-> d],
               card'.nix[s].stamp \in Stamps,
               NEW g \in card'.nix[s].upper \cup card'.nix[s].db
        PROVE  made'[g] = [stamp |-> card'.nix[s].stamp, uuid |-> u, under |-> d]
    <3>1. CASE s = at.slot
      <4>1. u = ud.uuid /\ d = ud.nix[at.slot].db
        BY <3>1, <2>1, <2>3, <2>7
      <4> QED
        BY <3>1, <4>1, <2>1, <2>6, <2>7
    <3>2. CASE s # at.slot
      <4>1. card.file = [cid |-> "this", uuid |-> u] /\ card.seen[s] = [stamp |-> h, db |-> d]
            /\ card'.nix[s] = card.nix[s]
        BY <3>2, <2>1, <2>7
      <4>2. CardMade(s, u, d)
        BY <4>1 DEF CardInv
      <4> QED
        BY <4>1, <4>2, <2>7 DEF CardMade
    <3> QED
      BY <3>1, <3>2
  <2>8. CardInv'
    BY <2>7 DEF CardInv, CardMade
  <2> QED
    BY <2>2, <2>5, <2>8
<1> QED
  BY <1>0, <1>1, <1>2, Zenon

\* Every step keeps the types.
LEMMA TypeStep == TypeOK /\ FingerInv /\ LayerInv /\ [Next]_vars => TypeOK'
<1> SUFFICES ASSUME TypeOK, FingerInv, LayerInv, [Next]_vars PROVE TypeOK'
  OBVIOUS
<1> DEFINE CardType == [file : LowerFiles, nix : [Slots -> Layers], seen : [Slots -> SeenFiles],
                        cardfit : SUBSET Slots, list : SUBSET Slots,
                        fit : [Slots -> Gens \cup {None}]]
           UdType == [uuid : 0 .. MaxUuid, nix : [Slots -> Layers]]
           AtType == [pc : Pcs, slot : Slots, found : BOOLEAN, storage : {"emmc", "card"},
                      cardfit : BOOLEAN, kernel : Systems, cstate : {"none", "fresh", "same", "reset", "foreign"},
                      todo : SUBSET Slots, userland : Systems, gen : Systems]
           MadeType == [Gens -> [stamp : Stamps \cup {None}, uuid : 0 .. MaxUuid,
                                 under : SUBSET Gens]]
<1>0. /\ image \in [Slots -> Stamps] /\ fit \in [Slots -> Systems] /\ ud \in UdType
      /\ cardin \in BOOLEAN /\ card \in CardType /\ made \in MadeType /\ at \in AtType
      /\ at.slot \in Slots /\ Layer \in Layers /\ NoLayer \in Layers
  BY LayerType, OffType DEF TypeOK
<1>a. ASSUME image' \in [Slots -> Stamps], fit' \in [Slots -> Systems], ud' \in UdType,
             cardin' \in BOOLEAN, card' \in CardType, made' \in MadeType, at' \in AtType
      PROVE  TypeOK'
  BY <1>a DEF TypeOK
<1> DEFINE Same == UNCHANGED <<image, fit, cardin, made>>
<1>b. ASSUME NEW l \in Layers, SetLayer(l) PROVE ud' \in UdType /\ card' \in CardType
  BY <1>b, <1>0, SetLayerCard, SetLayerEmmc
<1>c. Off \in AtType
  BY OffType DEF Off, Pcs, Systems
<1>d. ASSUME NEW boot \in [Slots -> Gens \cup {None}] PROVE FreshCard(boot) \in CardType
  BY <1>0 DEF FreshCard, LowerFiles, SeenFiles
<1>e. ASSUME NEW pc \in Pcs, Goto(pc) PROVE at' \in AtType
  BY <1>e, <1>0 DEF Goto
<1>1. ASSUME NEW s \in Slots, NEW viacard \in BOOLEAN, PowerOn(s, viacard) PROVE TypeOK'
  <2>1. (IF viacard THEN card.fit[s] ELSE fit[s]) \in Systems
    BY <1>1, <1>0 DEF PowerOn, Systems
  <2>2. at' \in AtType
    BY <1>1, <1>c, <2>1 DEF PowerOn, Pcs
  <2> QED
    BY <1>1, <1>0, <1>a, <2>2 DEF PowerOn
<1>2. ASSUME NEW found \in BOOLEAN, NEW mounts \in BOOLEAN, FindStorage(found, mounts) PROVE TypeOK'
  <2>1. at' \in AtType
    BY <1>2, <1>0 DEF FindStorage, Pcs
  <2> QED
    BY <1>2, <1>0, <1>a, <2>1 DEF FindStorage
<1>3. ASSUME NEW done \in BOOLEAN, ResetUserdata(done) PROVE TypeOK'
  <2>1. at' \in AtType
    BY <1>3, <1>0 DEF ResetUserdata, Pcs
  <2>2. card' \in CardType
    BY <1>3, <1>0, <1>d DEF ResetUserdata
  <2>3. ud' \in UdType
    BY <1>3, <1>0 DEF ResetUserdata
  <2> QED
    BY <1>3, <1>0, <1>a, <2>1, <2>2, <2>3 DEF ResetUserdata
<1>4. CASE CardStateStep
  <2>1. ASSUME NEW mounts \in BOOLEAN, CardState(mounts) PROVE TypeOK'
    <3>1. at' \in AtType
      <4>1. CASE at' = [at EXCEPT !.pc = "slot", !.storage = "emmc"]
        BY <4>1, <1>0 DEF Pcs
      <4>2. CASE at' = [at EXCEPT !.pc = "clear", !.cstate = "fresh"]
        BY <4>2, <1>0 DEF Pcs
      <4>3. CASE at' = [at EXCEPT !.pc = "slot", !.storage = "emmc", !.cstate = "foreign"]
        BY <4>3, <1>0 DEF Pcs
      <4>4. CASE at' = [at EXCEPT !.pc = "upper", !.cstate = "reset", !.todo = Slots]
        BY <4>4, <1>0 DEF Pcs
      <4>5. CASE at' = [at EXCEPT !.pc = "upper", !.cstate = "reset", !.todo = {at.slot}]
        BY <4>5, <1>0 DEF Pcs
      <4>6. CASE at' = [at EXCEPT !.pc = "lower", !.cstate = "same"]
        BY <4>6, <1>0 DEF Pcs
      <4> QED
        BY <2>1, <4>1, <4>2, <4>3, <4>4, <4>5, <4>6, Zenon DEF CardState
    <3> QED
      BY <2>1, <1>0, <1>a, <3>1 DEF CardState
  <2>2. ASSUME NEW rest \in SUBSET Gens, ClearCard(rest) PROVE TypeOK'
    <3>0. ASSUME NEW s \in Slots
          PROVE  (IF rest = {} THEN NoLayer
                    ELSE [card.nix[s] EXCEPT !.upper = @ \cap rest]) \in Layers
      <4>1. card.nix[s] \in Layers
        BY <1>0
      <4> QED
        BY <4>1, <1>0 DEF Layers
    <3>1. card' \in CardType
      <4>1. PICK n \in [Slots -> Layers] :
              n = [s \in Slots |-> IF rest = {} THEN NoLayer
                                   ELSE [card.nix[s] EXCEPT !.upper = @ \cap rest]]
        BY <3>0
      <4>2. card' = [card EXCEPT !.nix = n, !.seen = [s \in Slots |-> None]]
        BY <2>2, <4>1 DEF ClearCard
      <4> QED
        BY <4>2, <1>0 DEF SeenFiles
    <3>2. at' \in AtType
      BY <2>2, <1>e DEF ClearCard, Pcs
    <3> QED
      BY <2>2, <1>0, <1>a, <3>1, <3>2 DEF ClearCard
  <2>3. ASSUME at.pc \in ResetPcs PROVE Doing \in Slots
    BY <2>3, <1>0, DoingType DEF FingerInv
  <2>4. CASE CardResetVar
    <3>1. PICK s \in Slots : s = Doing
      BY <2>3, <2>4 DEF CardResetVar, ResetPcs
    <3>2. card' = [card EXCEPT !.nix[s] =
                     [card.nix[s] EXCEPT !.var = "none", !.db = {}, !.prof = Image]]
      BY <2>4, <3>1 DEF CardResetVar
    <3>3. card' \in CardType
      <4>0. card.nix[s] \in Layers
        BY <1>0
      <4>1. PICK l \in Layers : l = [card.nix[s] EXCEPT !.var = "none", !.db = {}, !.prof = Image]
        BY <4>0 DEF Layers, Systems
      <4>2. card' = [card EXCEPT !.nix[s] = l]
        BY <4>1, <3>2
      <4> QED
        BY <4>2, <1>0
    <3>4. at' \in AtType
      BY <2>4, <1>e DEF CardResetVar, Pcs
    <3> QED
      BY <2>4, <1>0, <1>a, <3>3, <3>4 DEF CardResetVar
  <2>5. CASE CardResetSeen
    <3>1. PICK s \in Slots : s = Doing
      BY <2>3, <2>5 DEF CardResetSeen, ResetPcs
    <3>2. card' = [card EXCEPT !.seen[s] = None]
      BY <2>5, <3>1 DEF CardResetSeen
    <3>3. card' \in CardType
      BY <3>2, <1>0 DEF SeenFiles
    <3>4. at' \in AtType
      BY <2>5, <1>e DEF CardResetSeen, Pcs
    <3> QED
      BY <2>5, <1>0, <1>a, <3>3, <3>4 DEF CardResetSeen
  <2>6. CASE CardResetFit
    <3>1. card' \in CardType
      BY <2>6, <1>0 DEF CardResetFit
    <3>2. at' \in AtType
      BY <2>6, <1>e DEF CardResetFit, Pcs
    <3> QED
      BY <2>6, <1>0, <1>a, <3>1, <3>2 DEF CardResetFit
  <2>7. CASE CardResetList
    <3>1. PICK s \in Slots : s = Doing
      BY <2>3, <2>7 DEF CardResetList, ResetPcs
    <3>2. card' \in CardType
      BY <2>7, <3>1, <1>0 DEF CardResetList
    <3>3. at' \in AtType
      BY <2>7, <1>0 DEF CardResetList, Pcs
    <3> QED
      BY <2>7, <1>0, <1>a, <3>2, <3>3 DEF CardResetList
  <2>8. CASE RecordLower
    <3>1. at' \in AtType
      BY <2>8, <1>e DEF RecordLower, Pcs
    <3>2. [cid |-> "this", uuid |-> ud.uuid] \in LowerFiles
      BY <1>0 DEF LowerFiles, Badges
    <3>3. [stamp |-> image[at.slot], db |-> ud.nix[at.slot].db] \in SeenFiles
      BY <1>0 DEF SeenFiles, Layers
    <3>4. card' \in CardType
      <4>1. CASE at.pc = "lower"
        BY <4>1, <2>8, <1>0 DEF RecordLower, LowerFiles
      <4>2. CASE at.pc = "lowerend"
        BY <4>2, <2>8, <3>2, <1>0 DEF RecordLower
      <4>3. CASE at.pc = "record"
        BY SMTT(30), <4>3, <2>8, <1>0 DEF RecordLower, SeenFiles
      <4>4. CASE at.pc = "recordend"
        BY SMTT(30), <4>4, <2>8, <3>3, <1>0 DEF RecordLower
      <4> QED
        BY <2>8, <4>1, <4>2, <4>3, <4>4 DEF RecordLower
    <3> QED
      BY <2>8, <1>0, <1>a, <3>1, <3>4 DEF RecordLower
  <2>9. ASSUME NEW rest \in SUBSET Gens, CardResetUpper(rest) PROVE TypeOK'
    <3>1. PICK s \in Slots : s = Doing
      BY <2>3, <2>9 DEF CardResetUpper, ResetPcs
    <3>2. card' = [card EXCEPT !.nix[s] = [card.nix[s] EXCEPT !.upper = rest]]
      BY <2>9, <3>1 DEF CardResetUpper
    <3>3. card' \in CardType
      <4>0. card.nix[s] \in Layers
        BY <1>0
      <4>1. PICK l \in Layers : l = [card.nix[s] EXCEPT !.upper = rest]
        BY <4>0 DEF Layers
      <4>2. card' = [card EXCEPT !.nix[s] = l]
        BY <4>1, <3>2, <1>0
      <4> QED
        BY <4>2, <1>0
    <3>4. at' \in AtType
      BY <2>9, <1>e DEF CardResetUpper, Pcs
    <3> QED
      BY <2>9, <1>0, <1>a, <3>3, <3>4 DEF CardResetUpper
  <2> QED
    BY <1>4, <2>1, <2>2, <2>4, <2>5, <2>6, <2>7, <2>8, <2>9 DEF CardStateStep
<1>5. CASE SlotStateStep
  <2>1. CASE SlotState
    <3>1. at' \in AtType
      BY <2>1, <1>e DEF SlotState, Pcs
    <3> QED
      BY <2>1, <1>0, <1>a, <3>1 DEF SlotState
  <2>2. CASE SlotVar
    <3>1. [Layer EXCEPT !.var = "none", !.db = {}, !.prof = Image] \in Layers
      BY <1>0 DEF Layers, Systems
    <3>2. ud' \in UdType /\ card' \in CardType
      BY <2>2, <1>b, <3>1 DEF SlotVar
    <3>3. at' \in AtType
      BY <2>2, <1>e DEF SlotVar, Pcs
    <3> QED
      BY <2>2, <1>0, <1>a, <3>2, <3>3 DEF SlotVar
  <2>3. CASE Seed
    <3>1. [Layer EXCEPT !.var = "part"] \in Layers
      BY <1>0 DEF Layers
    <3>2. ud' \in UdType /\ card' \in CardType
      BY <2>3, <1>0, <1>b, <3>1 DEF Seed
    <3>3. at' \in AtType
      BY <2>3, <1>e DEF Seed, Pcs
    <3> QED
      BY <2>3, <1>0, <1>a, <3>2, <3>3 DEF Seed
  <2>4. CASE WriteStamp
    <3>1. [Layer EXCEPT !.stamp = Torn] \in Layers /\ [Layer EXCEPT !.stamp = image[at.slot]] \in Layers
      BY <1>0 DEF Layers
    <3>2. ud' \in UdType /\ card' \in CardType
      BY <2>4, <1>b, <3>1 DEF WriteStamp
    <3>3. at' \in AtType
      BY <2>4, <1>e DEF WriteStamp, Pcs
    <3> QED
      BY <2>4, <1>0, <1>a, <3>2, <3>3 DEF WriteStamp
  <2>5. ASSUME NEW rest \in SUBSET Gens, SlotUpper(rest) PROVE TypeOK'
    <3>1. [Layer EXCEPT !.upper = rest] \in Layers
      BY <1>0 DEF Layers
    <3>2. ud' \in UdType /\ card' \in CardType
      BY <2>5, <1>b, <3>1 DEF SlotUpper
    <3>3. at' \in AtType
      BY <2>5, <1>e DEF SlotUpper, Pcs
    <3> QED
      BY <2>5, <1>0, <1>a, <3>2, <3>3 DEF SlotUpper
  <2>6. ASSUME NEW ok \in BOOLEAN, SeedEnd(ok) PROVE TypeOK'
    <3>1. PICK p \in Systems : p = IF at.storage = "card" THEN ud.nix[at.slot].prof ELSE Image
      BY <1>0 DEF Layers, Systems
    <3>2. [Layer EXCEPT !.var = "full", !.prof = p] \in Layers /\ [Layer EXCEPT !.var = "none"] \in Layers
      BY <1>0 DEF Layers
    <3>3. ud' \in UdType /\ card' \in CardType
      BY <2>6, <1>b, <3>1, <3>2 DEF SeedEnd
    <3>4. at' \in AtType
      BY <2>6, <1>e DEF SeedEnd, Pcs
    <3> QED
      BY <2>6, <1>0, <1>a, <3>3, <3>4 DEF SeedEnd
  <2> QED
    BY <1>5, <2>1, <2>2, <2>3, <2>4, <2>5, <2>6 DEF SlotStateStep
<1>6. CASE Exec
  <2>1. Layer.upper \cup ud.nix[at.slot].upper \subseteq Systems /\ Image \in Systems
    BY <1>0 DEF Layers, Systems
  <2>2. PICK u \in Systems : at' = [at EXCEPT !.pc = "run", !.userland = u]
    BY <1>6, <2>1, Zenon DEF Exec
  <2>3. at' \in AtType
    BY <1>0, <2>2 DEF Pcs
  <2> QED
    BY <1>6, <1>0, <1>a, <2>3 DEF Exec
<1>7. CASE DeployStep
  <2>1. CASE DeployProfile
    <3>1. [Layer EXCEPT !.prof = at.gen] \in Layers
      BY <1>0 DEF Layers
    <3>2. ud' \in UdType /\ card' \in CardType
      BY <2>1, <1>b, <3>1 DEF DeployProfile
    <3>3. at' \in AtType
      BY <2>1, <1>e DEF DeployProfile, Pcs
    <3> QED
      BY <2>1, <1>0, <1>a, <3>2, <3>3 DEF DeployProfile
  <2>2. CASE DeployFit
    <3>0. at.gen \in Gens
      BY <2>2, <1>0 DEF DeployFit, LayerInv, Layers
    <3>1. at' \in AtType
      <4>1. CASE at.storage = "card"
        BY <4>1, <2>2, <1>e DEF DeployFit, Pcs
      <4>2. CASE at.storage # "card"
        <5>1. at' = [at EXCEPT !.pc = "run", !.gen = Image] /\ Image \in Systems
          BY <4>2, <2>2 DEF DeployFit, Systems
        <5> QED
          BY <5>1, <1>0 DEF Pcs
      <4> QED
        BY <4>1, <4>2
    <3>2. fit' \in [Slots -> Systems]
      BY <2>2, <1>0 DEF DeployFit
    <3>3. card' \in CardType
      BY <2>2, <1>0, <3>0 DEF DeployFit
    <3> QED
      BY <2>2, <1>0, <1>a, <3>1, <3>2, <3>3 DEF DeployFit
  <2>3. CASE DeployMark
    <3>1. at' \in AtType
      BY <2>3, <1>0 DEF DeployMark, Pcs, Systems
    <3>2. card' \in CardType
      BY <2>3, <1>0 DEF DeployMark
    <3> QED
      BY <2>3, <1>0, <1>a, <3>1, <3>2 DEF DeployMark
  <2>4. ASSUME NEW g \in Gens, DeployCopy(g) PROVE TypeOK'
    <3>1. [Layer EXCEPT !.upper = @ \cup {g}, !.db = @ \cup {g}] \in Layers
      BY <1>0 DEF Layers
    <3>2. ud' \in UdType /\ card' \in CardType
      BY <2>4, <1>b, <3>1 DEF DeployCopy
    <3>3. at' \in AtType
      BY <2>4, <1>0 DEF DeployCopy, Pcs, Systems
    <3>4. PICK h \in Stamps, u \in 0 .. MaxUuid, d \in SUBSET Gens :
            made' = [made EXCEPT ![g] = [stamp |-> h, uuid |-> u, under |-> d]]
      <4>1. image[at.slot] \in Stamps /\ ud.uuid \in 0 .. MaxUuid /\ 0 \in 0 .. MaxUuid
            /\ ud.nix[at.slot].db \in SUBSET Gens /\ {} \in SUBSET Gens
        <5>1. ud.nix[at.slot] \in Layers
          BY <1>0
        <5>2. ud.nix[at.slot].db \in SUBSET Gens
          BY <5>1 DEF Layers
        <5>3. 0 \in 0 .. MaxUuid
          OBVIOUS
        <5>4. ud.uuid \in 0 .. MaxUuid /\ image[at.slot] \in Stamps
          BY <1>0
        <5> QED
          BY <5>2, <5>3, <5>4
      <4> QED
        BY <4>1, <2>4, Zenon DEF DeployCopy
    <3>5. made' \in MadeType
      BY <1>0, <3>4
    <3> QED
      BY <2>4, <1>0, <1>a, <3>2, <3>3, <3>5 DEF DeployCopy
  <2> QED
    BY <1>7, <2>1, <2>2, <2>3, <2>4 DEF DeployStep
<1>8. ASSUME NEW cut \in BOOLEAN, CardBootReset(cut) PROVE TypeOK'
  <2>1. at' \in AtType
    BY <1>8, <1>0, <1>c DEF CardBootReset
  <2>2. card' \in CardType
    BY <1>8, <1>0 DEF CardBootReset
  <2> QED
    BY <1>8, <1>0, <1>a, <2>1, <2>2 DEF CardBootReset
<1>9. CASE PowerCut
  BY <1>9, <1>0, <1>a, <1>c DEF PowerCut
<1>10. CASE SwapCard
  BY <1>10, <1>0, <1>a DEF SwapCard
<1>11. ASSUME NEW marks \in SUBSET Slots, NEW g \in Gens, CardUsedElsewhere(marks, g)
       PROVE  TypeOK'
  <2>1. [cid |-> "other", uuid |-> 0] \in LowerFiles
    BY DEF LowerFiles, Badges
  <2>2. PICK boot \in [Slots -> Gens \cup {None}] :
          boot = [s \in Slots |-> IF s \in marks THEN g ELSE card.fit[s]]
    BY <1>0
  <2>a. PICK c \in CardType : c = FreshCard(boot)
    BY <1>d
  <2>b. card' = [c EXCEPT !.file = [cid |-> "other", uuid |-> 0], !.cardfit = marks]
    BY <1>11, <2>2, <2>a DEF CardUsedElsewhere
  <2>3. card' \in CardType
    BY <2>1, <2>a, <2>b
  <2> QED
    BY <1>11, <1>0, <1>a, <2>3 DEF CardUsedElsewhere
<1>12. ASSUME NEW s \in Slots, NEW i \in Stamps, Reinstall(s, i) PROVE TypeOK'
  <2>1. image' \in [Slots -> Stamps] /\ fit' \in [Slots -> Systems]
    BY <1>12, <1>0 DEF Reinstall, Systems
  <2> QED
    BY <1>12, <1>0, <1>a, <2>1 DEF Reinstall
<1>13. CASE UNCHANGED vars
  BY <1>13, <1>0, <1>a DEF vars
<1> QED
  BY <1>1, <1>2, <1>3, <1>4, <1>5, <1>6, <1>7, <1>8, <1>9, <1>10, <1>11, <1>12, <1>13 DEF Next

\* A step of slot_state: the layer only loses generations, or gets its stamp.
LEMMA LayerStep ==
  ASSUME Stage0Inv, NEW l \in Layers, SetLayer(l),
         at.pc \in SlotPcs \ RunPcs, at'.pc \in SlotPcs \ RunPcs,
         at'.slot = at.slot, at'.storage = at.storage, at'.cstate = at.cstate,
         UNCHANGED <<image, cardin, made>>,
         l.upper \subseteq Layer.upper, l.db \subseteq Layer.db,
         \/ l.stamp \in {Layer.stamp, Torn}
         \/ l.stamp = image[at.slot] /\ at.pc \in LayerPcs
  PROVE  /\ WhereInv' /\ UdInv' /\ SeenInv' /\ CardInv' /\ FileInv' /\ DoingInv' /\ FingerInv'
         /\ ClearedInv' /\ Layer' = l /\ Base' = Base
<1>0. /\ TypeOK /\ WhereInv /\ UdInv /\ SeenInv /\ CardInv /\ FileInv /\ DoingInv /\ FingerInv
      /\ LayerInv /\ ClearedInv
  BY DEF Stage0Inv
<1>1. UdInv' /\ SeenInv' /\ CardInv'
  BY <1>0, LayerKept, Zenon
<1>2. CASE at.storage = "card"
  <2>1. /\ ud' = ud /\ card'.file = card.file /\ card'.seen = card.seen
        /\ card'.cardfit = card.cardfit /\ card'.nix[at.slot] = l
    BY <1>0, <1>2, SetLayerCard
  <2>2. WhereInv' /\ FileInv' /\ DoingInv' /\ FingerInv'
    BY <1>0, <1>2, <2>1, InUseFrame
  <2>3. ClearedInv'
    BY <1>0, <1>2, <2>1 DEF ClearedInv, SlotPcs, LayerPcs, RunPcs, ResetPcs
  <2>4. Layer' = l
    BY <1>2, <2>1 DEF Layer
  <2>5. Base' = Base
    BY <1>2, <2>1 DEF Base
  <2> QED
    BY <1>1, <2>2, <2>3, <2>4, <2>5
<1>3. CASE at.storage = "emmc"
  <2>1. ud'.nix[at.slot] = l
    BY <1>0, <1>3, SetLayerEmmc
  <2>2. at'.pc \notin CardPcs /\ at'.pc \notin {"off", "find"}
    BY DEF SlotPcs, LayerPcs, RunPcs, ResetPcs, CardPcs
  <2>3. FileInv' /\ DoingInv' /\ FingerInv' /\ ClearedInv'
    BY <2>2, <1>3, NoCardYet
  <2>4. WhereInv'
    BY <2>2, <1>3 DEF WhereInv
  <2>5. Layer' = l
    BY <1>3, <2>1 DEF Layer
  <2>6. Base' = Base
    BY <1>3 DEF Base
  <2> QED
    BY <1>1, <2>3, <2>4, <2>5, <2>6
<1> QED
  BY <1>0, <1>2, <1>3 DEF TypeOK

\* Every step of slot_state keeps the invariant.
LEMMA SlotStep ==
  ASSUME Stage0Inv, SlotStateStep
  PROVE  /\ WhereInv' /\ UdInv' /\ SeenInv' /\ CardInv' /\ FileInv' /\ DoingInv' /\ FingerInv'
         /\ LayerInv' /\ ClearedInv'
<1>0. /\ TypeOK /\ WhereInv /\ UdInv /\ SeenInv /\ CardInv /\ FileInv /\ DoingInv /\ FingerInv
      /\ LayerInv /\ ClearedInv /\ Layer \in Layers
  BY LayerType DEF Stage0Inv
<1>a. /\ at \in [pc : Pcs, slot : Slots, found : BOOLEAN, storage : {"emmc", "card"},
                 cardfit : BOOLEAN, kernel : Systems, cstate : {"none", "fresh", "same", "reset", "foreign"},
                 todo : SUBSET Slots, userland : Systems, gen : Systems]
      /\ at.slot \in Slots /\ ud.uuid \in 0 .. MaxUuid /\ image[at.slot] \in Stamps
      /\ at.storage \in {"emmc", "card"}
  BY <1>0 DEF TypeOK
<1>b. ASSUME NEW pc, Goto(pc)
      PROVE  /\ at'.pc = pc /\ at'.slot = at.slot /\ at'.storage = at.storage
             /\ at'.cstate = at.cstate
  BY <1>a, <1>b DEF Goto
<1> USE DEF SlotPcs, LayerPcs, RunPcs
<1>1. CASE SlotState
  <2>1. /\ at.pc = "slot" /\ at'.pc \in {"slotupper", "seed"}
        /\ at'.slot = at.slot /\ at'.storage = at.storage /\ at'.cstate = at.cstate
        /\ at'.pc = "seed" => Layer.stamp = image[at.slot]
        /\ UNCHANGED <<image, fit, ud, cardin, card, made>>
    BY <1>1, <1>b DEF SlotState
  <2>2. UdInv' /\ SeenInv' /\ CardInv'
    BY <1>0, <2>1, UdFrame, CardFrame
  <2>3. WhereInv' /\ FileInv' /\ DoingInv' /\ FingerInv' /\ ClearedInv'
    <3>1. CASE at.storage = "card"
      <4>1. WhereInv' /\ FileInv' /\ DoingInv' /\ FingerInv'
        BY <1>0, <2>1, <3>1, InUseFrame
      <4>2. ClearedInv'
        BY <1>0, <2>1, <3>1 DEF ClearedInv, ResetPcs
      <4> QED
        BY <4>1, <4>2
    <3>2. CASE at.storage = "emmc"
      <4>1. at'.pc \notin CardPcs
        BY <2>1 DEF CardPcs, ResetPcs
      <4>2. WhereInv'
        BY <2>1, <3>2, <4>1 DEF WhereInv
      <4> QED
        BY <2>1, <3>2, <4>1, <4>2, NoCardYet
    <3> QED
      BY <3>1, <3>2, <1>a
  <2>4. LayerInv'
    <3>1. Layer' = Layer /\ Base' = Base
      BY <2>1 DEF Layer, Base
    <3>2. ASSUME at'.pc = "seed", NEW g \in Layer.upper \cup Layer.db PROVE made[g] = Base
      <4>1. Layer.stamp = image[at.slot] /\ Layer.stamp \in Stamps
        BY <2>1, <3>2, <1>a
      <4>2. CASE at.storage = "emmc"
        <5>1. Layer = ud.nix[at.slot]
          BY <4>2 DEF Layer
        <5>2. made[g] = [stamp |-> Layer.stamp, uuid |-> 0, under |-> {}]
          BY <5>1, <4>1, <3>2, <1>a, <1>0 DEF UdInv
        <5> QED
          BY <5>2, <4>1, <4>2 DEF Base
      <4>3. CASE at.storage = "card"
        <5>1. Layer = card.nix[at.slot]
          BY <4>3 DEF Layer
        <5>2. /\ card.file = [cid |-> "this", uuid |-> ud.uuid]
              /\ card.seen[at.slot] = [stamp |-> image[at.slot], db |-> ud.nix[at.slot].db]
          BY <4>3, <2>1, <1>0 DEF FileInv, FingerInv, Now
        <5>3. ud.nix[at.slot].db \in SUBSET Gens
          BY <1>0 DEF TypeOK, Layers
        <5>4. CardMade(at.slot, ud.uuid, ud.nix[at.slot].db)
          BY <5>2, <5>3, <1>a, <1>0, Zenon DEF CardInv
        <5>5. made[g] = [stamp |-> Layer.stamp, uuid |-> ud.uuid, under |-> ud.nix[at.slot].db]
          BY <5>1, <5>4, <4>1, <3>2 DEF CardMade
        <5> QED
          BY <5>5, <4>1, <4>3 DEF Base
      <4> QED
        BY <4>2, <4>3, <1>a
    <3> QED
      BY <2>1, <3>1, <3>2 DEF LayerInv
  <2> QED
    BY <2>2, <2>3, <2>4
<1>2. ASSUME NEW rest \in SUBSET Gens, SlotUpper(rest)
      PROVE  /\ WhereInv' /\ UdInv' /\ SeenInv' /\ CardInv' /\ FileInv' /\ DoingInv' /\ FingerInv'
             /\ LayerInv' /\ ClearedInv'
  <2>1. PICK l \in Layers : l = [Layer EXCEPT !.upper = rest]
    BY <1>0 DEF Layers
  <2>2. l.upper = rest /\ l.db = Layer.db /\ l.stamp = Layer.stamp
    BY <2>1, <1>0 DEF Layers
  <2>3. /\ at.pc = "slotupper" /\ at'.pc = (IF rest = {} THEN "slotvar" ELSE "slotupper")
        /\ at'.slot = at.slot /\ at'.storage = at.storage /\ at'.cstate = at.cstate
        /\ UNCHANGED <<image, cardin, made>> /\ SetLayer(l) /\ rest \subseteq Layer.upper
    BY <1>2, <1>b, <2>1 DEF SlotUpper
  <2>4. /\ WhereInv' /\ UdInv' /\ SeenInv' /\ CardInv' /\ FileInv' /\ DoingInv' /\ FingerInv'
        /\ ClearedInv' /\ Layer' = l /\ Base' = Base
    BY <2>2, <2>3, LayerStep
  <2>5. LayerInv'
    BY <2>2, <2>3, <2>4 DEF LayerInv
  <2> QED
    BY <2>4, <2>5
<1>3. CASE SlotVar
  <2>1. PICK l \in Layers : l = [Layer EXCEPT !.var = "none", !.db = {}, !.prof = Image]
    BY <1>0 DEF Layers, Systems
  <2>2. l.upper = Layer.upper /\ l.db = {} /\ l.stamp = Layer.stamp
    BY <2>1, <1>0 DEF Layers
  <2>3. /\ at.pc = "slotvar" /\ at'.pc = "seed"
        /\ at'.slot = at.slot /\ at'.storage = at.storage /\ at'.cstate = at.cstate
        /\ UNCHANGED <<image, cardin, made>> /\ SetLayer(l)
    BY <1>3, <1>b, <2>1 DEF SlotVar
  <2>4. /\ WhereInv' /\ UdInv' /\ SeenInv' /\ CardInv' /\ FileInv' /\ DoingInv' /\ FingerInv'
        /\ ClearedInv' /\ Layer' = l /\ Base' = Base
    BY <2>2, <2>3, LayerStep
  <2>5. l.upper = {}
    BY <2>2, <2>3, <1>0 DEF LayerInv
  <2>6. LayerInv'
    BY <2>2, <2>3, <2>4, <2>5 DEF LayerInv
  <2> QED
    BY <2>4, <2>6
<1>c. ASSUME NEW l \in Layers, SetLayer(l), l.upper = Layer.upper, l.db = Layer.db,
             at.pc \in LayerPcs \ RunPcs, at'.pc \in LayerPcs \ RunPcs,
             at'.slot = at.slot, at'.storage = at.storage, at'.cstate = at.cstate,
             UNCHANGED <<image, cardin, made>>,
             l.stamp \in {Layer.stamp, Torn, image[at.slot]},
             at'.pc = "exec" => l.var = "none" \/ l.stamp = image[at.slot]
      PROVE  /\ WhereInv' /\ UdInv' /\ SeenInv' /\ CardInv' /\ FileInv' /\ DoingInv' /\ FingerInv'
             /\ LayerInv' /\ ClearedInv'
  <2>1. /\ WhereInv' /\ UdInv' /\ SeenInv' /\ CardInv' /\ FileInv' /\ DoingInv' /\ FingerInv'
        /\ ClearedInv' /\ Layer' = l /\ Base' = Base
    BY <1>c, LayerStep
  <2>2. LayerInv'
    BY <1>c, <1>0, <2>1 DEF LayerInv
  <2> QED
    BY <2>1, <2>2
<1>4. CASE Seed /\ Layer.var # "none"
  <2>1. /\ at.pc = "seed" /\ at'.pc = "stamp"
        /\ at'.slot = at.slot /\ at'.storage = at.storage /\ at'.cstate = at.cstate
        /\ UNCHANGED <<image, ud, cardin, card, made>>
    BY <1>4, <1>b DEF Seed
  <2>2. UdInv' /\ SeenInv' /\ CardInv'
    BY <1>0, <2>1, UdFrame, CardFrame
  <2>3. WhereInv' /\ FileInv' /\ DoingInv' /\ FingerInv' /\ ClearedInv'
    <3>1. CASE at.storage = "card"
      <4>1. WhereInv' /\ FileInv' /\ DoingInv' /\ FingerInv'
        BY <1>0, <2>1, <3>1, InUseFrame
      <4>2. ClearedInv'
        BY <1>0, <2>1, <3>1 DEF ClearedInv, ResetPcs
      <4> QED
        BY <4>1, <4>2
    <3>2. CASE at.storage = "emmc"
      <4>1. at'.pc \notin CardPcs
        BY <2>1 DEF CardPcs, ResetPcs
      <4>2. WhereInv'
        BY <2>1, <3>2, <4>1 DEF WhereInv
      <4> QED
        BY <2>1, <3>2, <4>1, <4>2, NoCardYet
    <3> QED
      BY <3>1, <3>2, <1>a
  <2>4. Layer' = Layer /\ Base' = Base
    BY <2>1 DEF Layer, Base
  <2>5. LayerInv'
    BY <1>0, <2>1, <2>4 DEF LayerInv
  <2> QED
    BY <2>2, <2>3, <2>5
<1>5. CASE Seed /\ Layer.var = "none"
  <2>1. PICK l \in Layers : l = [Layer EXCEPT !.var = "part"]
    BY <1>0 DEF Layers
  <2>2. l.upper = Layer.upper /\ l.db = Layer.db /\ l.stamp = Layer.stamp
    BY <2>1, <1>0 DEF Layers
  <2>3. /\ at.pc = "seed" /\ at'.pc = "seedend"
        /\ at'.slot = at.slot /\ at'.storage = at.storage /\ at'.cstate = at.cstate
        /\ UNCHANGED <<image, cardin, made>> /\ SetLayer(l)
    BY <1>5, <1>b, <2>1 DEF Seed
  <2> QED
    BY <2>2, <2>3, <1>c
<1>6. ASSUME NEW ok \in BOOLEAN, SeedEnd(ok)
      PROVE  /\ WhereInv' /\ UdInv' /\ SeenInv' /\ CardInv' /\ FileInv' /\ DoingInv' /\ FingerInv'
             /\ LayerInv' /\ ClearedInv'
  <2>1. PICK p \in Systems : p = IF at.storage = "card" THEN ud.nix[at.slot].prof ELSE Image
    BY <1>0 DEF TypeOK, Layers, Systems
  <2>2. PICK l \in Layers : l = IF ok THEN [Layer EXCEPT !.var = "full", !.prof = p]
                                      ELSE [Layer EXCEPT !.var = "none"]
    BY <1>0 DEF Layers
  <2>3. l.upper = Layer.upper /\ l.db = Layer.db /\ l.stamp = Layer.stamp /\ (~ok => l.var = "none")
    BY <2>2, <1>0 DEF Layers
  <2>4. /\ at.pc = "seedend" /\ at'.pc = (IF ok THEN "stamp" ELSE "exec")
        /\ at'.slot = at.slot /\ at'.storage = at.storage /\ at'.cstate = at.cstate
        /\ UNCHANGED <<image, cardin, made>> /\ SetLayer(l)
    BY <1>6, <1>b, <2>1, <2>2 DEF SeedEnd
  <2> QED
    BY <2>3, <2>4, <1>c
<1>7. CASE WriteStamp
  <2>1. PICK h \in {Torn, image[at.slot]} :
          /\ SetLayer([Layer EXCEPT !.stamp = h])
          /\ at.pc \in {"stamp", "stampend"} /\ at'.pc \in {"stampend", "exec"}
          /\ at'.slot = at.slot /\ at'.storage = at.storage /\ at'.cstate = at.cstate
          /\ at'.pc = "exec" => h = image[at.slot]
          /\ UNCHANGED <<image, cardin, made>>
    BY <1>7, <1>b DEF WriteStamp
  <2>2. PICK l \in Layers : l = [Layer EXCEPT !.stamp = h]
    BY <1>0, <1>a DEF Layers
  <2>3. l.upper = Layer.upper /\ l.db = Layer.db /\ l.stamp = h
    BY <2>2, <1>0 DEF Layers
  <2> QED
    BY <2>1, <2>2, <2>3, <1>c
<1> QED
  BY <1>1, <1>2, <1>3, <1>4, <1>5, <1>6, <1>7 DEF SlotStateStep

\* Choosing the system to run, a deploy and the reset of the card's boot
\* images keep the invariant.
LEMMA RunStep ==
  ASSUME Stage0Inv, Exec \/ DeployStep \/ \E cut \in BOOLEAN : CardBootReset(cut)
  PROVE  /\ WhereInv' /\ UdInv' /\ SeenInv' /\ CardInv' /\ FileInv' /\ DoingInv' /\ FingerInv'
         /\ LayerInv' /\ ClearedInv'
<1> DEFINE Goal == /\ WhereInv' /\ UdInv' /\ SeenInv' /\ CardInv' /\ FileInv' /\ DoingInv'
                   /\ FingerInv' /\ LayerInv' /\ ClearedInv'
<1>0. /\ TypeOK /\ WhereInv /\ UdInv /\ SeenInv /\ CardInv /\ FileInv /\ DoingInv /\ FingerInv
      /\ LayerInv /\ ClearedInv /\ Layer \in Layers
  BY LayerType DEF Stage0Inv
<1>a. /\ at \in [pc : Pcs, slot : Slots, found : BOOLEAN, storage : {"emmc", "card"},
                 cardfit : BOOLEAN, kernel : Systems, cstate : {"none", "fresh", "same", "reset", "foreign"},
                 todo : SUBSET Slots, userland : Systems, gen : Systems]
      /\ at.slot \in Slots /\ ud.uuid \in 0 .. MaxUuid /\ image[at.slot] \in Stamps
      /\ at.storage \in {"emmc", "card"} /\ card.cardfit \subseteq Slots
      /\ card.fit \in [Slots -> Gens \cup {None}]
      /\ card \in [file : LowerFiles, nix : [Slots -> Layers], seen : [Slots -> SeenFiles],
                   cardfit : SUBSET Slots, list : SUBSET Slots,
                   fit : [Slots -> Gens \cup {None}]]
  BY <1>0 DEF TypeOK
<1>b. ASSUME NEW pc, Goto(pc)
      PROVE  /\ at'.pc = pc /\ at'.slot = at.slot /\ at'.storage = at.storage
             /\ at'.cstate = at.cstate /\ at'.gen = at.gen
  BY <1>a, <1>b DEF Goto
<1> USE DEF SlotPcs, LayerPcs, RunPcs
\* What stays around a system that runs.
<1>c. ASSUME at.pc \in {"exec"} \cup RunPcs, at'.pc \in RunPcs,
             at'.pc = "mark" => at.storage = "card",
             at'.slot = at.slot, at'.storage = at.storage, UNCHANGED <<image, cardin>>,
             at.storage = "card" => ud' = ud /\ card'.file = card.file /\ card'.seen = card.seen
      PROVE  /\ WhereInv' /\ FileInv' /\ DoingInv' /\ FingerInv' /\ Base' = Base
             /\ at.storage = "emmc" => ClearedInv'
  <2>1. CASE at.storage = "card"
    <3>1. WhereInv' /\ FileInv' /\ DoingInv' /\ FingerInv'
      BY <1>0, <1>c, <2>1, InUseFrame
    <3>2. Base' = Base
      BY <1>c, <2>1 DEF Base
    <3> QED
      BY <3>1, <3>2, <2>1
  <2>2. CASE at.storage = "emmc"
    <3>1. at'.pc \notin CardPcs
      BY <1>c, <2>2 DEF CardPcs, ResetPcs
    <3>2. WhereInv'
      BY <1>c, <2>2, <3>1 DEF WhereInv
    <3>3. Base' = Base
      BY <1>c, <2>2 DEF Base
    <3> QED
      BY <1>c, <2>2, <3>1, <3>2, <3>3, NoCardYet
  <2> QED
    BY <2>1, <2>2, <1>a
<1>1. ASSUME Exec PROVE Goal
  <2>1. /\ at.pc = "exec" /\ at'.pc = "run" /\ at'.slot = at.slot /\ at'.storage = at.storage
        /\ at'.cstate = at.cstate /\ UNCHANGED <<image, ud, cardin, card, made>>
    BY <1>1, <1>a DEF Exec
  <2>2. UdInv' /\ SeenInv' /\ CardInv'
    BY <1>0, <2>1, UdFrame, CardFrame
  <2>3. /\ WhereInv' /\ FileInv' /\ DoingInv' /\ FingerInv' /\ Base' = Base
        /\ at.storage = "emmc" => ClearedInv'
    BY <1>c, <2>1
  <2>4. at.storage = "card" => ClearedInv'
    BY <1>0, <2>1 DEF ClearedInv, ResetPcs
  <2>5. Layer' = Layer
    BY <2>1 DEF Layer
  <2>6. LayerInv'
    BY <1>0, <2>1, <2>3, <2>5 DEF LayerInv
  <2> QED
    BY <2>2, <2>3, <2>4, <2>6, <1>a
<1>2. ASSUME NEW g \in Gens, DeployCopy(g) PROVE Goal
  <2>1. PICK l \in Layers : l = [Layer EXCEPT !.upper = @ \cup {g}, !.db = @ \cup {g}]
    BY <1>0 DEF Layers
  <2>2. /\ l.upper = Layer.upper \cup {g} /\ l.db = Layer.db \cup {g} /\ l.stamp = Layer.stamp
        /\ l.var = Layer.var
    BY <2>1, <1>0 DEF Layers
  <2>3. /\ at.pc = "run" /\ at'.pc = "profile" /\ at'.slot = at.slot
        /\ at'.storage = at.storage /\ at'.cstate = at.cstate /\ at'.gen = g
        /\ UNCHANGED <<image, cardin>> /\ SetLayer(l) /\ Layer.var # "none" /\ made[g] = NoBase
    BY <1>2, <2>1, <1>a DEF DeployCopy
  <2>4. /\ made'[g] = Base
        /\ \A x \in Gens : x # g => made'[x] = made[x]
    BY <1>2, <1>0 DEF DeployCopy, Base, TypeOK
  <2>5. Layer.stamp = image[at.slot] /\ Layer.stamp \in Stamps /\ Base.stamp \in Stamps
    BY <2>3, <1>0, <1>a DEF LayerInv, Base
  <2>6. \A x \in Layer.upper \cup Layer.db : made[x] = Base
    BY <2>3, <1>0 DEF LayerInv
  <2>7. \A x \in l.upper \cup l.db : made'[x] = Base
    BY <2>2, <2>4, <2>6, <1>0 DEF Layers
  \* g was nowhere: a generation in a stamped layer has been made.
  <2>8. \A x \in Gens, h \in Stamps : \A u, d :
          made[x] = [stamp |-> h, uuid |-> u, under |-> d] => made'[x] = made[x]
    BY <2>3, <2>4 DEF NoBase
  <2>9. CASE at.storage = "emmc"
    <3>1. /\ card' = card /\ ud'.nix[at.slot] = l
          /\ \A s \in Slots : s # at.slot => ud'.nix[s] = ud.nix[s]
      BY <1>0, <2>3, <2>9, SetLayerEmmc
    <3>2. /\ WhereInv' /\ FileInv' /\ DoingInv' /\ FingerInv' /\ Base' = Base /\ ClearedInv'
      BY <1>c, <2>3, <2>9
    <3>3. Layer' = l
      BY <2>3, <2>9, <3>1 DEF Layer
    <3>4. LayerInv'
      BY <2>2, <2>3, <2>5, <2>7, <3>2, <3>3 DEF LayerInv
    <3>5. ASSUME NEW s \in Slots, ud'.nix[s].stamp \in Stamps,
                 NEW x \in ud'.nix[s].upper \cup ud'.nix[s].db
          PROVE  made'[x] = [stamp |-> ud'.nix[s].stamp, uuid |-> 0, under |-> {}]
      <4>1. CASE s = at.slot
        BY <4>1, <3>1, <3>5, <2>2, <2>5, <2>7, <2>9 DEF Base
      <4>2. CASE s # at.slot
        <5>1. /\ ud.nix[s].stamp \in Stamps /\ x \in ud.nix[s].upper \cup ud.nix[s].db
              /\ ud'.nix[s] = ud.nix[s]
          BY <3>1, <3>5, <4>2
        <5>2. made[x] = [stamp |-> ud.nix[s].stamp, uuid |-> 0, under |-> {}]
          BY <5>1, <1>0 DEF UdInv
        <5>3. x \in Gens
          BY <5>1, <1>0 DEF TypeOK, Layers
        <5> QED
          BY <5>1, <5>2, <5>3, <2>8
      <4> QED
        BY <4>1, <4>2
    <3>6. UdInv'
      BY <3>5 DEF UdInv
    <3>7. SeenInv'
      BY <3>1, <1>0 DEF SeenInv
    <3>8. CardInv'
      <4>1. ASSUME NEW s \in Slots, NEW u \in 0 .. MaxUuid, NEW h \in Stamps, NEW d \in SUBSET Gens,
                   card.file = [cid |-> "this", uuid |-> u],
                   card.seen[s] = [stamp |-> h, db |-> d], card.nix[s].stamp \in Stamps,
                   NEW x \in card.nix[s].upper \cup card.nix[s].db
            PROVE  made'[x] = [stamp |-> card.nix[s].stamp, uuid |-> u, under |-> d]
        <5>1. CardMade(s, u, d)
          BY <4>1, <1>0, Zenon DEF CardInv
        <5>2. made[x] = [stamp |-> card.nix[s].stamp, uuid |-> u, under |-> d]
          BY <4>1, <5>1 DEF CardMade
        <5>3. x \in Gens
          BY <4>1, <1>a DEF Layers
        <5> QED
          BY <4>1, <5>2, <5>3, <2>8
      <4> QED
        BY <3>1, <4>1 DEF CardInv, CardMade
    <3> QED
      BY <3>2, <3>4, <3>6, <3>7, <3>8
  <2>10. CASE at.storage = "card"
    <3>1. /\ ud' = ud /\ card'.nix[at.slot] = l /\ card'.file = card.file
          /\ card'.seen = card.seen /\ card'.cardfit = card.cardfit /\ card'.fit = card.fit
          /\ \A s \in Slots : s # at.slot => card'.nix[s] = card.nix[s]
      BY <1>0, <2>3, <2>10, SetLayerCard
    <3>2. /\ WhereInv' /\ FileInv' /\ DoingInv' /\ FingerInv' /\ Base' = Base
      BY <1>c, <2>3, <2>10, <3>1
    <3>3. Layer' = l /\ Layer = card.nix[at.slot]
      BY <2>3, <2>10, <3>1 DEF Layer
    <3>4. LayerInv'
      BY <2>2, <2>3, <2>5, <2>7, <3>2, <3>3 DEF LayerInv
    <3>5. ClearedInv'
      BY <2>2, <2>3, <2>10, <3>1, <3>3, <1>0 DEF ClearedInv, ResetPcs
    <3>6. UdInv'
      <4>1. ASSUME NEW s \in Slots, ud.nix[s].stamp \in Stamps,
                   NEW x \in ud.nix[s].upper \cup ud.nix[s].db
            PROVE  made'[x] = [stamp |-> ud.nix[s].stamp, uuid |-> 0, under |-> {}]
        <5>1. made[x] = [stamp |-> ud.nix[s].stamp, uuid |-> 0, under |-> {}]
          BY <4>1, <1>0 DEF UdInv
        <5>2. x \in Gens
          BY <4>1, <1>0 DEF TypeOK, Layers
        <5> QED
          BY <4>1, <5>1, <5>2, <2>8
      <4> QED
        BY <3>1, <4>1 DEF UdInv
    <3>7. /\ card.file = [cid |-> "this", uuid |-> ud.uuid]
          /\ card.seen[at.slot] = [stamp |-> image[at.slot], db |-> ud.nix[at.slot].db]
      BY <2>3, <2>10, <1>0 DEF FileInv, FingerInv, Now
    <3>8. ud.nix[at.slot].db \in SUBSET Gens
      BY <1>0 DEF TypeOK, Layers
    <3>9. card.seen[at.slot] # None
      BY <3>7, <3>8, <1>a, FileNames
    <3>10. SeenInv'
      BY <3>1, <3>9, <1>0 DEF SeenInv
    <3>11. ASSUME NEW s \in Slots, NEW u \in 0 .. MaxUuid, NEW h \in Stamps, NEW d \in SUBSET Gens,
                  card'.file = [cid |-> "this", uuid |-> u],
                  card'.seen[s] = [stamp |-> h, db |-> d], card'.nix[s].stamp \in Stamps,
                  NEW x \in card'.nix[s].upper \cup card'.nix[s].db
           PROVE  made'[x] = [stamp |-> card'.nix[s].stamp, uuid |-> u, under |-> d]
      <4>1. CASE s = at.slot
        <5>1. u = ud.uuid /\ d = ud.nix[at.slot].db
          BY <4>1, <3>1, <3>7, <3>11
        <5> QED
          BY <4>1, <5>1, <3>1, <3>11, <2>2, <2>5, <2>7, <2>10 DEF Base
      <4>2. CASE s # at.slot
        <5>1. /\ card.file = [cid |-> "this", uuid |-> u] /\ card.seen[s] = [stamp |-> h, db |-> d]
              /\ card'.nix[s] = card.nix[s]
          BY <4>2, <3>1, <3>11
        <5>2. CardMade(s, u, d)
          BY <5>1, <1>0, Zenon DEF CardInv
        <5>3. made[x] = [stamp |-> card.nix[s].stamp, uuid |-> u, under |-> d]
          BY <3>11, <5>1, <5>2 DEF CardMade
        <5>4. x \in Gens
          BY <3>11, <5>1, <1>a DEF Layers
        <5> QED
          BY <3>11, <5>1, <5>3, <5>4, <2>8
      <4> QED
        BY <4>1, <4>2
    <3>12. CardInv'
      BY <3>11 DEF CardInv, CardMade
    <3> QED
      BY <3>2, <3>4, <3>5, <3>6, <3>10, <3>12
  <2> QED
    BY <2>9, <2>10, <1>a
<1>3. ASSUME DeployProfile PROVE Goal
  <2>1. PICK l \in Layers : l = [Layer EXCEPT !.prof = at.gen]
    BY <1>0, <1>a DEF Layers
  <2>2. l.upper = Layer.upper /\ l.db = Layer.db /\ l.stamp = Layer.stamp /\ l.var = Layer.var
    BY <2>1, <1>0 DEF Layers
  <2>3. /\ at.pc = "profile" /\ at'.pc = "fit" /\ at'.slot = at.slot
        /\ at'.storage = at.storage /\ at'.cstate = at.cstate /\ at'.gen = at.gen
        /\ UNCHANGED <<image, cardin, made>> /\ SetLayer(l)
    BY <1>3, <2>1, <1>b DEF DeployProfile
  <2>4. UdInv' /\ SeenInv' /\ CardInv'
    BY <1>0, <2>2, <2>3, LayerKept
  <2>5. CASE at.storage = "emmc"
    <3>1. ud'.nix[at.slot] = l
      BY <1>0, <2>3, <2>5, SetLayerEmmc
    <3>2. /\ WhereInv' /\ FileInv' /\ DoingInv' /\ FingerInv' /\ Base' = Base /\ ClearedInv'
      BY <1>c, <2>3, <2>5
    <3>3. Layer' = l
      BY <2>3, <2>5, <3>1 DEF Layer
    <3>4. LayerInv'
      BY <1>0, <2>2, <2>3, <3>2, <3>3 DEF LayerInv
    <3> QED
      BY <2>4, <3>2, <3>4
  <2>6. CASE at.storage = "card"
    <3>1. /\ ud' = ud /\ card'.nix[at.slot] = l /\ card'.file = card.file
          /\ card'.seen = card.seen /\ card'.cardfit = card.cardfit /\ card'.fit = card.fit
      BY <1>0, <2>3, <2>6, SetLayerCard
    <3>2. /\ WhereInv' /\ FileInv' /\ DoingInv' /\ FingerInv' /\ Base' = Base
      BY <1>c, <2>3, <2>6, <3>1
    <3>3. Layer' = l /\ Layer = card.nix[at.slot]
      BY <2>3, <2>6, <3>1 DEF Layer
    <3>4. LayerInv'
      BY <1>0, <2>2, <2>3, <3>2, <3>3 DEF LayerInv
    <3>5. ClearedInv'
      BY <1>0, <2>2, <2>3, <2>6, <3>1, <3>3 DEF ClearedInv, ResetPcs
    <3> QED
      BY <2>4, <3>2, <3>4, <3>5
  <2> QED
    BY <2>5, <2>6, <1>a
\* The steps below change the card's boot images and marks only.
<1>d. ASSUME at.pc \in RunPcs, at'.pc \in RunPcs, at'.pc = "mark" => at.storage = "card",
             at'.slot = at.slot, at'.storage = at.storage,
             UNCHANGED <<image, ud, cardin, made>>, card'.nix = card.nix,
             card'.seen = card.seen, card'.file = card.file,
             at'.pc \in {"profile", "fit", "mark"} => at.pc \in {"profile", "fit", "mark"},
             at'.pc \in {"profile", "fit"} => at.pc \in {"profile", "fit"} /\ at'.gen = at.gen,
             at.storage = "card" => ClearedInv'
      PROVE  Goal
  <2>1. UdInv'
    BY <1>0, <1>d, UdFrame
  <2>2. SeenInv' /\ CardInv'
    <3>1. SeenInv'
      BY <1>0, <1>d DEF SeenInv
    <3>2. card'.nix = card.nix /\ card'.seen = card.seen /\ card'.file = card.file /\ made' = made
      BY <1>d
    <3>3. CardInv'
      <4>1. \A s, u, d : CardMade(s, u, d) => CardMade(s, u, d)'
        BY <3>2 DEF CardMade
      <4> QED
        BY <1>0, <3>2, <4>1 DEF CardInv
    <3> QED
      BY <3>1, <3>3
  <2>3. /\ WhereInv' /\ FileInv' /\ DoingInv' /\ FingerInv' /\ Base' = Base
        /\ at.storage = "emmc" => ClearedInv'
    BY <1>c, <1>d
  <2>4. Layer' = Layer
    BY <1>d DEF Layer
  <2>5. LayerInv'
    BY <1>0, <1>d, <2>3, <2>4 DEF LayerInv
  <2> QED
    BY <1>a, <1>d, <2>1, <2>2, <2>3, <2>5
<1>4. ASSUME DeployFit PROVE Goal
  <2>0. at.pc = "fit" /\ UNCHANGED <<image, ud, cardin, made>> /\ at.gen \in Layer.upper
    BY <1>4, <1>0 DEF DeployFit, LayerInv
  <2>1. CASE at.storage = "card"
    <3>1. /\ at'.pc = "mark" /\ at'.slot = at.slot /\ at'.storage = at.storage
      BY <1>4, <1>b, <2>1 DEF DeployFit
    <3>2. card' = [card EXCEPT !.fit[at.slot] = at.gen]
      BY <1>4, <2>1 DEF DeployFit
    <3>3. /\ card'.nix = card.nix /\ card'.seen = card.seen /\ card'.file = card.file
          /\ card'.fit[at.slot] = at.gen /\ Layer = card.nix[at.slot]
      BY <2>1, <3>2, <1>a DEF Layer
    <3>4. ClearedInv'
      BY <2>0, <3>1, <3>3 DEF ClearedInv, ResetPcs
    <3> QED
      BY <2>0, <2>1, <3>1, <3>3, <3>4, <1>d
  <2>2. CASE at.storage # "card"
    <3>0. at' = [at EXCEPT !.pc = "run", !.gen = Image] /\ card' = card
      BY <1>4, <2>2 DEF DeployFit
    <3>1. /\ at'.pc = "run" /\ at'.slot = at.slot /\ at'.storage = at.storage /\ card' = card
      BY <3>0, <1>a
    <3> QED
      BY <2>0, <2>2, <3>1, <1>d
  <2> QED
    BY <2>1, <2>2
<1>5. ASSUME DeployMark PROVE Goal
  <2>1. /\ at.pc = "mark" /\ at'.pc = "run" /\ at'.slot = at.slot /\ at'.storage = at.storage
        /\ at'.cstate = at.cstate /\ UNCHANGED <<image, ud, cardin, made>>
    BY <1>5, <1>a DEF DeployMark
  <2>2. /\ card'.nix = card.nix /\ card'.seen = card.seen /\ card'.file = card.file
        /\ card'.fit = card.fit
    BY <1>5, <1>a DEF DeployMark
  <2>3. ClearedInv'
    BY <1>0, <2>1, <2>2 DEF ClearedInv, ResetPcs
  <2> QED
    BY <2>1, <2>2, <2>3, <1>d
<1>6. ASSUME NEW cut \in BOOLEAN, CardBootReset(cut) PROVE Goal
  <2>0. /\ at.pc \in RunPcs /\ at.storage = "card" /\ UNCHANGED <<image, ud, cardin, made>>
    BY <1>6 DEF CardBootReset
  <2>1. /\ card'.nix = card.nix /\ card'.seen = card.seen /\ card'.file = card.file
        /\ card'.cardfit = card.cardfit
        /\ card'.fit = [s \in Slots |-> IF s \in card.list THEN None ELSE card.fit[s]]
    BY <1>6, <1>a DEF CardBootReset
  <2>2. card'.fit[at.slot] \in {None, card.fit[at.slot]}
    BY <2>1, <1>a
  <2>3. CASE at' = at
    <3>1. ClearedInv'
      BY <1>0, <2>0, <2>1, <2>2, <2>3 DEF ClearedInv, ResetPcs
    <3> QED
      BY <2>0, <2>1, <2>3, <3>1, <1>d
  <2>4. CASE at' = Off
    <3>1. at'.pc = "off" /\ at'.storage = "emmc"
      BY <2>4, OffType
    <3>2. UdInv'
      BY <1>0, <2>0, UdFrame
    <3>3. SeenInv' /\ CardInv'
      BY <1>0, <2>0, <2>1 DEF SeenInv, CardInv, CardMade
    <3>4. FileInv' /\ DoingInv' /\ FingerInv' /\ ClearedInv' /\ LayerInv' /\ WhereInv'
      BY <3>1, NoCardYet, NoLayerYet DEF CardPcs, ResetPcs, WhereInv
    <3> QED
      BY <3>2, <3>3, <3>4
  <2> QED
    BY <1>6, <2>3, <2>4 DEF CardBootReset
<1> QED
  BY <1>1, <1>2, <1>3, <1>4, <1>5, <1>6 DEF DeployStep

\* Switching on, finding the storage and resetting it, and what happens to a
\* badge that is off, keep the invariant.
LEMMA StartStep ==
  ASSUME Stage0Inv,
         \/ \E s \in Slots, viacard \in BOOLEAN : PowerOn(s, viacard)
         \/ \E found, mounts \in BOOLEAN : FindStorage(found, mounts)
         \/ \E done \in BOOLEAN : ResetUserdata(done)
         \/ PowerCut \/ SwapCard
         \/ \E marks \in SUBSET Slots, g \in Gens : CardUsedElsewhere(marks, g)
         \/ \E s \in Slots, i \in Stamps : Reinstall(s, i)
  PROVE  /\ WhereInv' /\ UdInv' /\ SeenInv' /\ CardInv' /\ FileInv' /\ DoingInv' /\ FingerInv'
         /\ LayerInv' /\ ClearedInv'
<1> DEFINE Goal == /\ WhereInv' /\ UdInv' /\ SeenInv' /\ CardInv' /\ FileInv' /\ DoingInv'
                   /\ FingerInv' /\ LayerInv' /\ ClearedInv'
<1>0. /\ TypeOK /\ WhereInv /\ UdInv /\ SeenInv /\ CardInv
  BY DEF Stage0Inv
<1>a. /\ at \in [pc : Pcs, slot : Slots, found : BOOLEAN, storage : {"emmc", "card"},
                 cardfit : BOOLEAN, kernel : Systems, cstate : {"none", "fresh", "same", "reset", "foreign"},
                 todo : SUBSET Slots, userland : Systems, gen : Systems]
      /\ at.storage \in {"emmc", "card"}
  BY <1>0 DEF TypeOK
<1> USE DEF SlotPcs, LayerPcs, RunPcs, CardPcs, ResetPcs
<1>b. ASSUME at'.pc \in {"off", "find"}, at'.storage = "emmc", UdInv', SeenInv', CardInv' PROVE Goal
  BY <1>b, NoCardYet, NoLayerYet DEF WhereInv
<1>c. ASSUME NEW boot, card' = FreshCard(boot) PROVE SeenInv' /\ CardInv'
  <2>1. \A s \in Slots : card'.nix[s].upper = {} /\ card'.nix[s].db = {}
    BY <1>c DEF FreshCard, NoLayer
  <2> QED
    BY <2>1 DEF SeenInv, CardInv, CardMade
<1>1. ASSUME NEW s \in Slots, NEW viacard \in BOOLEAN, PowerOn(s, viacard) PROVE Goal
  <2>1. at'.pc = "find" /\ at'.storage = "emmc" /\ UNCHANGED <<ud, card, made>>
    BY <1>1 DEF PowerOn, Off
  <2> QED
    BY <1>0, <2>1, <1>b, UdFrame, CardFrame
<1>2. ASSUME NEW found \in BOOLEAN, NEW mounts \in BOOLEAN, FindStorage(found, mounts) PROVE Goal
  <2>1. /\ at'.pc = "reset" /\ UNCHANGED <<ud, card, made, cardin>>
        /\ at'.storage = "card" => cardin /\ at'.found
    BY <1>2, <1>a DEF FindStorage
  <2>2. WhereInv'
    BY <2>1 DEF WhereInv
  <2> QED
    BY <1>0, <2>1, <2>2, NoCardYet, NoLayerYet, UdFrame, CardFrame
<1>3. ASSUME NEW done \in BOOLEAN, ResetUserdata(done) PROVE Goal
  <2>1. /\ at'.pc = (IF at.storage = "card" THEN "card" ELSE "slot") /\ at'.storage = at.storage
        /\ made' = made /\ cardin' = cardin
    BY <1>3, <1>a DEF ResetUserdata
  <2>2. WhereInv'
    BY <1>0, <2>1, <1>a DEF WhereInv
  <2>3. SeenInv' /\ CardInv'
    <3>1. CASE card' = card
      BY <3>1, <1>0, <2>1, CardFrame
    <3>2. CASE card' = FreshCard(card.fit)
      BY <3>2, <1>c
    <3> QED
      BY <1>3, <3>1, <3>2 DEF ResetUserdata
  <2>4. UdInv'
    <3>1. CASE ud' = ud
      BY <3>1, <1>0, <2>1, UdFrame
    <3>2. CASE ud' = [uuid |-> ud.uuid + 1, nix |-> [s \in Slots |-> NoLayer]]
      <4>1. \A s \in Slots : ud'.nix[s].upper = {} /\ ud'.nix[s].db = {}
        BY <3>2 DEF NoLayer
      <4> QED
        BY <4>1 DEF UdInv
    <3> QED
      BY <1>3, <3>1, <3>2 DEF ResetUserdata
  <2>5. FileInv' /\ DoingInv' /\ FingerInv' /\ ClearedInv' /\ LayerInv'
    BY <1>a, <2>1, NoCardYet, NoLayerYet
  <2> QED
    BY <2>2, <2>3, <2>4, <2>5
<1>4. ASSUME PowerCut PROVE Goal
  <2>1. at'.pc = "off" /\ at'.storage = "emmc" /\ UNCHANGED <<ud, card, made>>
    BY <1>4, OffType DEF PowerCut
  <2> QED
    BY <1>0, <2>1, <1>b, UdFrame, CardFrame
<1>5. ASSUME SwapCard PROVE Goal
  <2>1. at'.pc = "off" /\ at'.storage = "emmc" /\ UNCHANGED <<ud, card, made>>
    BY <1>5, <1>0 DEF SwapCard, WhereInv
  <2> QED
    BY <1>0, <2>1, <1>b, UdFrame, CardFrame
<1>6. ASSUME NEW marks \in SUBSET Slots, NEW g \in Gens, CardUsedElsewhere(marks, g)
      PROVE  Goal
  <2>1. at'.pc = "off" /\ at'.storage = "emmc" /\ UNCHANGED <<ud, made>>
    BY <1>6, <1>0 DEF CardUsedElsewhere, WhereInv
  <2>2. \A s \in Slots : card'.nix[s].upper = {} /\ card'.nix[s].db = {}
    BY <1>6 DEF CardUsedElsewhere, FreshCard, NoLayer
  <2>3. SeenInv' /\ CardInv'
    BY <2>2 DEF SeenInv, CardInv, CardMade
  <2> QED
    BY <1>0, <2>1, <2>3, <1>b, UdFrame
<1>7. ASSUME NEW s \in Slots, NEW i \in Stamps, Reinstall(s, i) PROVE Goal
  <2>1. at'.pc = "off" /\ at'.storage = "emmc" /\ UNCHANGED <<ud, card, made>>
    BY <1>7, <1>0 DEF Reinstall, WhereInv
  <2> QED
    BY <1>0, <2>1, <1>b, UdFrame, CardFrame
<1> QED
  BY <1>1, <1>2, <1>3, <1>4, <1>5, <1>6, <1>7

\* A step that takes from the card's layers, or forgets a slot that has
\* nothing left, leaves the card's files true.
LEMMA CardShrinks ==
  ASSUME SeenInv, CardInv, UNCHANGED <<ud, made>>, card'.file = card.file,
         \A s \in Slots :
           /\ card'.nix[s].stamp = card.nix[s].stamp
           /\ card'.nix[s].upper \subseteq card.nix[s].upper
           /\ card'.nix[s].db \subseteq card.nix[s].db
           /\ \/ card'.seen[s] = card.seen[s]
              \/ card'.nix[s].upper = {} /\ card'.nix[s].db = {}
  PROVE  /\ SeenInv' /\ CardInv'
         /\ \A s \in Slots : CardGood(s) => CardGood(s)'
<1>1. ASSUME NEW s \in Slots, NEW u, NEW d, CardMade(s, u, d) PROVE CardMade(s, u, d)'
  BY <1>1 DEF CardMade
<1>2. ASSUME NEW s \in Slots, NEW u, NEW d, card'.nix[s].upper = {}, card'.nix[s].db = {}
      PROVE  CardMade(s, u, d)'
  BY <1>2 DEF CardMade
<1>3. SeenInv'
  BY DEF SeenInv
<1>4. CardInv'
  BY <1>1, <1>2 DEF CardInv
<1>5. ASSUME NEW s \in Slots, CardGood(s) PROVE CardGood(s)'
  BY <1>1, <1>2, <1>5 DEF CardGood
<1> QED
  BY <1>3, <1>4, <1>5

\* Every step of card_state keeps the invariant.
LEMMA CardStep ==
  ASSUME Stage0Inv, CardStateStep
  PROVE  /\ WhereInv' /\ UdInv' /\ SeenInv' /\ CardInv' /\ FileInv' /\ DoingInv' /\ FingerInv'
         /\ LayerInv' /\ ClearedInv'
<1> DEFINE Goal == /\ WhereInv' /\ UdInv' /\ SeenInv' /\ CardInv' /\ FileInv' /\ DoingInv'
                   /\ FingerInv' /\ LayerInv' /\ ClearedInv'
<1>0. /\ TypeOK /\ WhereInv /\ UdInv /\ SeenInv /\ CardInv /\ FileInv /\ DoingInv /\ FingerInv
      /\ LayerInv /\ ClearedInv
  BY DEF Stage0Inv
<1>a. /\ at \in [pc : Pcs, slot : Slots, found : BOOLEAN, storage : {"emmc", "card"},
                 cardfit : BOOLEAN, kernel : Systems, cstate : {"none", "fresh", "same", "reset", "foreign"},
                 todo : SUBSET Slots, userland : Systems, gen : Systems]
      /\ at.slot \in Slots /\ ud.uuid \in 0 .. MaxUuid /\ image[at.slot] \in Stamps
      /\ at.todo \subseteq Slots /\ card.file \in LowerFiles
      /\ card \in [file : LowerFiles, nix : [Slots -> Layers], seen : [Slots -> SeenFiles],
                   cardfit : SUBSET Slots, list : SUBSET Slots,
                   fit : [Slots -> Gens \cup {None}]]
  BY <1>0 DEF TypeOK
<1>d. ud.nix[at.slot].db \in SUBSET Gens
  BY <1>0 DEF TypeOK, Layers
<1>b. ASSUME NEW pc, Goto(pc)
      PROVE  /\ at'.pc = pc /\ at'.slot = at.slot /\ at'.storage = at.storage
             /\ at'.cstate = at.cstate /\ at'.todo = at.todo
  BY <1>a, <1>b DEF Goto
<1> USE DEF SlotPcs, LayerPcs, RunPcs, CardPcs, ResetPcs
\* A step within card_state.
<1>c. ASSUME at.pc \in CardPcs \ {"mark"}, at'.pc \in (CardPcs \cup {"slot"}) \ {"mark"},
             at'.storage = at.storage, UNCHANGED <<ud, cardin, made>>
      PROVE  WhereInv' /\ UdInv' /\ LayerInv' /\ at.storage = "card"
  <2>1. at.storage = "card" /\ cardin
    BY <1>0, <1>c DEF WhereInv
  <2>2. WhereInv'
    BY <2>1, <1>c DEF WhereInv
  <2> QED
    BY <2>1, <2>2, <1>0, <1>c, UdFrame, NoLayerYet
<1>1. ASSUME NEW mounts \in BOOLEAN, CardState(mounts) PROVE Goal
  <2>0. at.pc = "card" /\ UNCHANGED <<image, ud, cardin, card, made>>
    BY <1>1 DEF CardState
  <2>1. UdInv' /\ SeenInv' /\ CardInv'
    BY <1>0, <2>0, UdFrame, CardFrame
  <2>2. ASSUME at'.pc = "slot", at'.storage = "emmc" PROVE Goal
    <3>1. WhereInv'
      BY <2>2 DEF WhereInv
    <3> QED
      BY <2>1, <2>2, <3>1, NoCardYet, NoLayerYet
  <2>3. CASE ~mounts
    <3>1. at' = [at EXCEPT !.pc = "slot", !.storage = "emmc"]
      BY <1>1, <2>3 DEF CardState
    <3> QED
      BY <2>2, <3>1, <1>a
  <2>4. CASE mounts /\ card.file = None
    <3>1. at' = [at EXCEPT !.pc = "clear", !.cstate = "fresh"]
      BY <1>1, <2>4 DEF CardState
    <3>2. at'.pc = "clear" /\ at'.cstate = "fresh" /\ at'.storage = at.storage
      BY <3>1, <1>a
    <3>3. FileInv' /\ DoingInv'
      BY <3>2, <2>0, <2>4 DEF FileInv, DoingInv
    <3>4. FingerInv' /\ ClearedInv'
      BY <3>2 DEF FingerInv, ClearedInv
    <3> QED
      BY <2>0, <2>1, <3>2, <3>3, <3>4, <1>c
  <2>5. CASE mounts /\ card.file # None /\ Foreign
    <3>1. at' = [at EXCEPT !.pc = "slot", !.storage = "emmc", !.cstate = "foreign"]
      BY <1>1, <2>5 DEF CardState
    <3> QED
      BY <2>2, <3>1, <1>a
  <2>6. ASSUME mounts, card.file # None, ~Foreign PROVE Goal
    <3>1. card.file # Torn /\ card.file.cid = "this"
      BY <2>6 DEF Foreign
    <3>2. card.file \in [cid : Badges, uuid : 0 .. MaxUuid]
      BY <2>6, <3>1, <1>a DEF LowerFiles
    <3>3. CASE NewLower
      <4>1. at' = [at EXCEPT !.pc = "upper", !.cstate = "reset", !.todo = Slots]
        BY <1>1, <2>6, <3>3, Zenon DEF CardState
      <4>2. /\ at'.pc = "upper" /\ at'.cstate = "reset" /\ at'.todo = Slots
            /\ at'.slot = at.slot /\ at'.storage = at.storage
        BY <4>1, <1>a
      <4>3. FileInv' /\ DoingInv'
        BY <4>2, <3>1, <2>0, <2>6 DEF FileInv, DoingInv
      <4>4. FingerInv' /\ ClearedInv'
        BY <4>2, <1>a DEF FingerInv, ClearedInv
      <4> QED
        BY <2>0, <2>1, <4>2, <4>3, <4>4, <1>c
    <3>4. ASSUME ~NewLower PROVE /\ card.file = [cid |-> "this", uuid |-> ud.uuid]
                                 /\ \A s \in Slots : CardGood(s)
      <4>1. card.file = [cid |-> "this", uuid |-> ud.uuid]
        BY <3>1, <3>2, <3>4 DEF NewLower
      <4>2. \A s \in Slots : CardGood(s)
        BY <4>1, <1>0, <1>a DEF CardInv, CardGood
      <4> QED
        BY <4>1, <4>2
    <3>5. \A s \in Slots : CardGood(s) => CardGood(s)'
      BY <2>0 DEF CardGood, CardMade
    <3>6. CASE ~NewLower /\ SlotChanged
      <4>1. at' = [at EXCEPT !.pc = "upper", !.cstate = "reset", !.todo = {at.slot}]
        BY <1>1, <2>6, <3>6, Zenon DEF CardState
      <4>2. /\ at'.pc = "upper" /\ at'.cstate = "reset" /\ at'.todo = {at.slot}
            /\ at'.slot = at.slot /\ at'.storage = at.storage
        BY <4>1, <1>a
      <4>3. FileInv' /\ DoingInv'
        BY <4>2, <3>1, <2>0, <2>6 DEF FileInv, DoingInv
      <4>4. FingerInv'
        BY <4>2, <3>4, <3>5, <3>6 DEF FingerInv
      <4>5. ClearedInv'
        BY <4>2, <1>a DEF ClearedInv
      <4> QED
        BY <2>0, <2>1, <4>2, <4>3, <4>4, <4>5, <1>c
    <3>7. CASE ~NewLower /\ ~SlotChanged
      <4>1. at' = [at EXCEPT !.pc = "lower", !.cstate = "same"]
        BY <1>1, <2>6, <3>7, Zenon DEF CardState
      <4>2. /\ at'.pc = "lower" /\ at'.cstate = "same" /\ at'.slot = at.slot
            /\ at'.storage = at.storage
        BY <4>1, <1>a
      <4>3. FileInv' /\ DoingInv'
        BY <4>2, <3>1, <2>0, <2>6 DEF FileInv, DoingInv
      <4>4. card.seen[at.slot] \in {None, Now} /\ Now' = Now
        BY <2>0, <3>7, <4>2 DEF SlotChanged, Now
      <4>5. FingerInv'
        BY <4>2, <4>4, <3>4, <3>5, <3>7, <2>0 DEF FingerInv
      <4>6. ClearedInv'
        BY <1>0, <2>0, <2>6 DEF SeenInv, ClearedInv
      <4> QED
        BY <2>0, <2>1, <4>2, <4>3, <4>5, <4>6, <1>c
    <3> QED
      BY <3>3, <3>6, <3>7
  <2> QED
    BY <2>3, <2>4, <2>5, <2>6
<1>2. ASSUME NEW rest \in SUBSET Gens, ClearCard(rest) PROVE Goal
  <2>1. /\ at.pc = "clear" /\ at'.pc = (IF rest = {} THEN "lower" ELSE "clear")
        /\ at'.slot = at.slot /\ at'.storage = at.storage
        /\ at'.cstate = at.cstate /\ UNCHANGED <<image, ud, cardin, made>>
    BY <1>2, <1>b DEF ClearCard
  <2>2. card'.file = None /\ \A s \in Slots : card'.seen[s] = None
    BY <1>0, <1>2, <1>a, <2>1 DEF ClearCard, FileInv
  <2>3. rest = {} => \A s \in Slots : card'.nix[s].upper = {} /\ card'.nix[s].db = {}
    BY <1>2, <1>a DEF ClearCard, NoLayer
  <2>4. SeenInv' /\ CardInv'
    BY <2>2, FileNames DEF SeenInv, CardInv, Badges
  <2>5. FileInv' /\ DoingInv'
    BY <1>0, <2>1, <2>2 DEF FileInv, DoingInv
  <2>6. FingerInv'
    <3>1. \A s \in Slots : rest = {} => CardGood(s)'
      BY <2>3 DEF CardGood, CardMade
    <3> QED
      BY <2>1, <2>2, <3>1, <1>a DEF FingerInv
  <2>7. ClearedInv'
    BY <2>1, <2>3 DEF ClearedInv
  <2> QED
    BY <2>1, <2>4, <2>5, <2>6, <2>7, <1>c
<1>3. ASSUME at.pc \in ResetPcs PROVE Doing \in at.todo /\ Doing \in Slots
  BY <1>0, <1>a, <1>3, DoingType DEF FingerInv
\* A step of card_reset_nix but its last.
<1>e. ASSUME NEW x \in Slots, x = Doing, at.pc \in ResetPcs, at'.pc \in ResetPcs,
             at'.slot = at.slot, at'.storage = at.storage, at'.cstate = at.cstate,
             at'.todo = at.todo, UNCHANGED <<image, ud, cardin, made>>, card'.file = card.file,
             \A s \in Slots :
               /\ card'.nix[s].stamp = card.nix[s].stamp
               /\ card'.nix[s].upper \subseteq card.nix[s].upper
               /\ card'.nix[s].db \subseteq card.nix[s].db
               /\ \/ card'.seen[s] = card.seen[s]
                  \/ card'.seen[s] = None /\ card'.nix[s].upper = {} /\ card'.nix[s].db = {},
             card'.cardfit \subseteq card.cardfit,
             at'.pc \in {"var", "seen", "cardfit", "list"} => card'.nix[x].upper = {},
             at'.pc \in {"seen", "cardfit", "list"} => card'.nix[x].db = {},
             at'.pc \in {"cardfit", "list"} => card'.seen[x] = None,
             at'.pc = "list" => x \notin card'.cardfit
      PROVE  Goal
  <2>1. SeenInv' /\ CardInv' /\ \A s \in Slots : CardGood(s) => CardGood(s)'
    BY <1>0, <1>e, CardShrinks
  <2>2. WhereInv' /\ UdInv' /\ LayerInv'
    BY <1>c, <1>e
  <2>3. FileInv'
    BY <1>0, <1>e DEF FileInv
  <2>4. Doing' = Doing
    BY <1>e DEF Doing
  <2>5. DoingInv'
    BY <1>e, <2>4 DEF DoingInv
  <2>6. FingerInv'
    <3>1. \A s \in Slots \ at.todo : CardGood(s)'
      BY <1>0, <1>e, <2>1 DEF FingerInv
    <3>2. at.todo # {} /\ (at.slot \notin at.todo => card.seen[at.slot] = None)
      BY <1>0, <1>e DEF FingerInv
    <3>3. at.slot \notin at.todo => card'.seen[at.slot] = None
      BY <3>2, <1>a, <1>e
    <3>4. at'.pc \notin {"lower", "lowerend", "record", "recordend"} \cup SlotPcs
      BY <1>e
    <3> QED
      BY <3>1, <3>2, <3>3, <3>4, <1>e DEF FingerInv
  <2>7. ClearedInv'
    BY <1>0, <1>e DEF ClearedInv
  <2> QED
    BY <2>1, <2>2, <2>3, <2>5, <2>6, <2>7
<1>4. ASSUME NEW rest \in SUBSET Gens, CardResetUpper(rest) PROVE Goal
  <2>1. PICK x \in Slots : x = Doing
    BY <1>3, <1>4 DEF CardResetUpper
  <2>2. /\ at.pc = "upper" /\ at'.pc = (IF rest = {} THEN "var" ELSE "upper")
        /\ at'.slot = at.slot /\ at'.storage = at.storage /\ at'.cstate = at.cstate
        /\ at'.todo = at.todo /\ UNCHANGED <<image, ud, cardin, made>>
        /\ rest \subseteq card.nix[x].upper
    BY <1>4, <1>b, <2>1 DEF CardResetUpper
  <2>3. PICK l : l = [card.nix[x] EXCEPT !.upper = rest]
    OBVIOUS
  <2>4. card.nix[x] \in Layers
    BY <1>a
  <2>5. l.stamp = card.nix[x].stamp /\ l.upper = rest /\ l.db = card.nix[x].db
    BY <2>3, <2>4 DEF Layers
  <2>6. card' = [card EXCEPT !.nix[x] = l]
    BY <1>4, <2>1, <2>3 DEF CardResetUpper
  <2>7. /\ card'.file = card.file /\ card'.seen = card.seen /\ card'.cardfit = card.cardfit
        /\ card'.nix[x] = l /\ \A s \in Slots : s # x => card'.nix[s] = card.nix[s]
    BY <2>6, <1>a
  <2> QED
    BY <2>1, <2>2, <2>5, <2>7, <1>e
<1>5. ASSUME CardResetVar PROVE Goal
  <2>1. PICK x \in Slots : x = Doing
    BY <1>3, <1>5 DEF CardResetVar
  <2>2. /\ at.pc = "var" /\ at'.pc = "seen"
        /\ at'.slot = at.slot /\ at'.storage = at.storage /\ at'.cstate = at.cstate
        /\ at'.todo = at.todo /\ UNCHANGED <<image, ud, cardin, made>>
    BY <1>5, <1>b DEF CardResetVar
  <2>3. PICK l : l = [card.nix[x] EXCEPT !.var = "none", !.db = {}, !.prof = Image]
    OBVIOUS
  <2>4. card.nix[x] \in Layers /\ card.nix[x].upper = {}
    BY <1>0, <1>a, <2>1, <2>2 DEF DoingInv
  <2>5. l.stamp = card.nix[x].stamp /\ l.upper = {} /\ l.db = {}
    BY <2>3, <2>4 DEF Layers
  <2>6. card' = [card EXCEPT !.nix[x] = l]
    BY <1>5, <2>1, <2>3 DEF CardResetVar
  <2>7. /\ card'.file = card.file /\ card'.seen = card.seen /\ card'.cardfit = card.cardfit
        /\ card'.nix[x] = l /\ \A s \in Slots : s # x => card'.nix[s] = card.nix[s]
    BY <2>6, <1>a
  <2> QED
    BY <2>1, <2>2, <2>4, <2>5, <2>7, <1>e
<1>6. ASSUME CardResetSeen PROVE Goal
  <2>1. PICK x \in Slots : x = Doing
    BY <1>3, <1>6 DEF CardResetSeen
  <2>2. /\ at.pc = "seen" /\ at'.pc = "cardfit"
        /\ at'.slot = at.slot /\ at'.storage = at.storage /\ at'.cstate = at.cstate
        /\ at'.todo = at.todo /\ UNCHANGED <<image, ud, cardin, made>>
    BY <1>6, <1>b DEF CardResetSeen
  <2>3. card.nix[x].upper = {} /\ card.nix[x].db = {}
    BY <1>0, <2>1, <2>2 DEF DoingInv
  <2>4. card' = [card EXCEPT !.seen[x] = None]
    BY <1>6, <2>1 DEF CardResetSeen
  <2>5. /\ card'.file = card.file /\ card'.nix = card.nix /\ card'.cardfit = card.cardfit
        /\ card'.seen[x] = None /\ \A s \in Slots : s # x => card'.seen[s] = card.seen[s]
    BY <2>4, <1>a
  <2> QED
    BY <2>1, <2>2, <2>3, <2>5, <1>e
<1>7. ASSUME CardResetFit PROVE Goal
  <2>1. PICK x \in Slots : x = Doing
    BY <1>3, <1>7 DEF CardResetFit
  <2>2. /\ at.pc = "cardfit" /\ at'.pc = "list"
        /\ at'.slot = at.slot /\ at'.storage = at.storage /\ at'.cstate = at.cstate
        /\ at'.todo = at.todo /\ UNCHANGED <<image, ud, cardin, made>>
    BY <1>7, <1>b DEF CardResetFit
  <2>3. card.nix[x].upper = {} /\ card.nix[x].db = {} /\ card.seen[x] = None
    BY <1>0, <2>1, <2>2 DEF DoingInv
  <2>4. card' = [card EXCEPT !.cardfit = @ \ {x}]
    BY <1>7, <2>1 DEF CardResetFit
  <2>5. /\ card'.file = card.file /\ card'.nix = card.nix /\ card'.seen = card.seen
        /\ card'.cardfit = card.cardfit \ {x}
    BY <2>4, <1>a
  <2> QED
    BY <2>1, <2>2, <2>3, <2>5, <1>e
<1>8. ASSUME CardResetList PROVE Goal
  <2>1. PICK x \in Slots : x = Doing
    BY <1>3, <1>8 DEF CardResetList
  <2>2. /\ at.pc = "list" /\ at'.todo = at.todo \ {x}
        /\ at'.pc = (IF at.todo \ {x} = {} THEN "lower" ELSE "upper")
        /\ at'.slot = at.slot /\ at'.storage = at.storage /\ at'.cstate = at.cstate
        /\ UNCHANGED <<image, ud, cardin, made>>
    BY <1>8, <1>a, <2>1 DEF CardResetList
  <2>3. /\ card'.file = card.file /\ card'.nix = card.nix /\ card'.seen = card.seen
        /\ card'.cardfit = card.cardfit
    BY <1>8, <1>a DEF CardResetList
  <2>4. /\ card.nix[x].upper = {} /\ card.nix[x].db = {} /\ card.seen[x] = None
        /\ x \notin card.cardfit
    BY <1>0, <2>1, <2>2 DEF DoingInv
  <2>5. SeenInv' /\ CardInv' /\ \A s \in Slots : CardGood(s) => CardGood(s)'
    BY <1>0, <2>2, <2>3, CardShrinks
  <2>6. WhereInv' /\ UdInv' /\ LayerInv'
    BY <1>c, <2>2
  <2>7. FileInv' /\ DoingInv'
    BY <1>0, <2>2, <2>3 DEF FileInv, DoingInv
  <2>8. CardGood(x)
    BY <2>4 DEF CardGood, CardMade
  <2>9. \A s \in Slots \ (at.todo \ {x}) : CardGood(s)'
    BY <1>0, <2>2, <2>5, <2>8 DEF FingerInv
  <2>10. at.slot \notin at.todo \ {x} => card'.seen[at.slot] = None
    BY <1>0, <2>2, <2>3, <2>4 DEF FingerInv
  <2>11. FingerInv'
    BY <2>2, <2>9, <2>10, <1>a DEF FingerInv
  <2>12. ClearedInv'
    BY <1>0, <2>2, <2>3 DEF SeenInv, FileInv, ClearedInv
  <2> QED
    BY <2>5, <2>6, <2>7, <2>11, <2>12
<1>9. ASSUME RecordLower PROVE Goal
  <2>0. UNCHANGED <<image, ud, cardin, made>>
    BY <1>9 DEF RecordLower
  <2>a. ASSUME at.pc \in {"lower", "lowerend", "record", "recordend"},
               at'.pc \in {"lowerend", "record", "recordend", "slot"},
               at'.slot = at.slot, at'.storage = at.storage, at'.cstate = at.cstate,
               card'.cardfit = card.cardfit
        PROVE  WhereInv' /\ UdInv' /\ LayerInv' /\ DoingInv' /\ ClearedInv' /\ Now' = Now
    <3>1. WhereInv' /\ UdInv' /\ LayerInv'
      BY <1>c, <2>0, <2>a
    <3>2. DoingInv' /\ ClearedInv'
      BY <1>0, <2>a DEF DoingInv, ClearedInv
    <3>3. Now' = Now
      BY <2>0, <2>a DEF Now
    <3> QED
      BY <3>1, <3>2, <3>3
  <2>b. [stamp |-> image[at.slot], db |-> ud.nix[at.slot].db] \notin {None, Torn}
    BY <1>a, <1>d, FileNames
  <2>1. CASE at.pc = "lower"
    <3>1. /\ at'.pc = "lowerend" /\ at'.slot = at.slot /\ at'.storage = at.storage
          /\ at'.cstate = at.cstate
      BY <1>9, <2>1, <1>b DEF RecordLower
    <3>2. /\ card'.file = Torn /\ card'.nix = card.nix /\ card'.seen = card.seen
          /\ card'.cardfit = card.cardfit
      BY <1>9, <2>1, <1>a DEF RecordLower
    <3>3. WhereInv' /\ UdInv' /\ LayerInv' /\ DoingInv' /\ ClearedInv' /\ Now' = Now
      BY <2>1, <2>a, <3>1, <3>2
    <3>4. SeenInv'
      BY <1>0, <2>1, <3>2 DEF SeenInv, ClearedInv
    <3>5. CardInv'
      BY <3>2, FileNames DEF CardInv, Badges
    <3>6. FileInv'
      BY <3>1, <3>2 DEF FileInv
    <3>7. \A s \in Slots : CardGood(s) => CardGood(s)'
      BY <2>0, <3>2 DEF CardGood, CardMade
    <3>8. FingerInv'
      BY <1>0, <2>1, <3>1, <3>2, <3>3, <3>7 DEF FingerInv
    <3> QED
      BY <3>3, <3>4, <3>5, <3>6, <3>8
  <2>2. CASE at.pc = "lowerend"
    <3>1. /\ at'.pc = "record" /\ at'.slot = at.slot /\ at'.storage = at.storage
          /\ at'.cstate = at.cstate
      BY <1>9, <2>2, <1>b DEF RecordLower
    <3>2. /\ card'.file = [cid |-> "this", uuid |-> ud.uuid] /\ card'.nix = card.nix
          /\ card'.seen = card.seen /\ card'.cardfit = card.cardfit
      BY <1>9, <2>2, <1>a DEF RecordLower
    <3>3. WhereInv' /\ UdInv' /\ LayerInv' /\ DoingInv' /\ ClearedInv' /\ Now' = Now
      BY <2>2, <2>a, <3>1, <3>2
    <3>4. SeenInv'
      BY <1>0, <2>2, <3>2 DEF SeenInv, FileInv
    <3>5. \A s \in Slots : CardGood(s)
      BY <1>0, <2>2 DEF FingerInv
    <3>6. CardInv'
      <4>1. ASSUME NEW s \in Slots, NEW u \in 0 .. MaxUuid, NEW h \in Stamps, NEW d \in SUBSET Gens,
                   card'.file = [cid |-> "this", uuid |-> u],
                   card'.seen[s] = [stamp |-> h, db |-> d]
            PROVE  CardMade(s, u, d)'
        <5>1. u = ud.uuid
          BY <4>1, <3>2
        <5>2. CardMade(s, ud.uuid, d)
          BY <4>1, <3>2, <3>5 DEF CardGood
        <5> QED
          BY <5>1, <5>2, <3>2, <2>0 DEF CardMade
      <4> QED
        BY <4>1 DEF CardInv
    <3>7. FileInv'
      BY <3>1, <3>2, <2>0 DEF FileInv
    <3>8. FingerInv'
      BY <1>0, <2>2, <3>1, <3>2, <3>3 DEF FingerInv
    <3> QED
      BY <3>3, <3>4, <3>6, <3>7, <3>8
  <2>3. CASE at.pc = "record"
    <3>1. /\ at'.pc = "recordend" /\ at'.slot = at.slot /\ at'.storage = at.storage
          /\ at'.cstate = at.cstate /\ at.storage = "card"
      BY <1>9, <2>3, <1>b, <1>0 DEF RecordLower, WhereInv
    <3>2. /\ card'.file = card.file /\ card'.nix = card.nix
          /\ card'.seen[at.slot] = Torn /\ card'.cardfit = card.cardfit
          /\ \A s \in Slots : s # at.slot => card'.seen[s] = card.seen[s]
      BY <1>9, <2>3, <1>a DEF RecordLower
    <3>3. WhereInv' /\ UdInv' /\ LayerInv' /\ DoingInv' /\ ClearedInv' /\ Now' = Now
      BY <2>3, <2>a, <3>1, <3>2
    <3>4. SeenInv'
      BY <1>0, <3>2 DEF SeenInv
    <3>5. CardInv'
      <4>1. ASSUME NEW s \in Slots, NEW u \in 0 .. MaxUuid, NEW h \in Stamps, NEW d \in SUBSET Gens,
                   card'.file = [cid |-> "this", uuid |-> u],
                   card'.seen[s] = [stamp |-> h, db |-> d]
            PROVE  CardMade(s, u, d)'
        <5>1. s # at.slot
          BY <4>1, <3>2, FileNames
        <5>2. CardMade(s, u, d)
          BY <4>1, <5>1, <3>2, <1>0 DEF CardInv
        <5> QED
          BY <5>2, <3>2, <2>0 DEF CardMade
      <4> QED
        BY <4>1 DEF CardInv
    <3>6. card.file = [cid |-> "this", uuid |-> ud.uuid]
      BY <1>0, <2>3, <3>1 DEF FileInv
    <3>7. FileInv'
      BY <3>1, <3>2, <3>6, <2>0 DEF FileInv
    <3>8. CardMade(at.slot, ud.uuid, ud.nix[at.slot].db)
      <4>1. CASE card.seen[at.slot] = None
        <5>1. card.file # None
          BY <3>6, <1>a, FileNames DEF Badges
        <5> QED
          BY <4>1, <5>1, <1>0, <1>a DEF SeenInv, CardMade
      <4>2. CASE card.seen[at.slot] = Now
        BY <4>2, <3>6, <1>0, <1>a, <1>d, Zenon DEF CardInv, Now
      <4> QED
        BY <4>1, <4>2, <1>0, <2>3 DEF FingerInv
    <3>9. FingerInv'
      BY <3>1, <3>2, <3>8, <2>0 DEF FingerInv, CardMade
    <3> QED
      BY <3>3, <3>4, <3>5, <3>7, <3>9
  <2>4. CASE at.pc = "recordend"
    <3>1. /\ at'.pc = "slot" /\ at'.slot = at.slot /\ at'.storage = at.storage
          /\ at'.cstate = at.cstate /\ at.storage = "card"
      BY <1>9, <2>4, <1>b, <1>0 DEF RecordLower, WhereInv
    <3>2. /\ card'.file = card.file /\ card'.nix = card.nix
          /\ card'.seen[at.slot] = [stamp |-> image[at.slot], db |-> ud.nix[at.slot].db]
          /\ card'.cardfit = card.cardfit
          /\ \A s \in Slots : s # at.slot => card'.seen[s] = card.seen[s]
      BY <1>9, <2>4, <1>a DEF RecordLower
    <3>3. WhereInv' /\ UdInv' /\ LayerInv' /\ DoingInv' /\ ClearedInv' /\ Now' = Now
      BY <2>4, <2>a, <3>1, <3>2
    <3>4. SeenInv'
      BY <1>0, <3>2, <2>b DEF SeenInv
    <3>5. card.file = [cid |-> "this", uuid |-> ud.uuid]
      BY <1>0, <2>4, <3>1 DEF FileInv
    <3>6. CardInv'
      <4>1. ASSUME NEW s \in Slots, NEW u \in 0 .. MaxUuid, NEW h \in Stamps, NEW d \in SUBSET Gens,
                   card'.file = [cid |-> "this", uuid |-> u],
                   card'.seen[s] = [stamp |-> h, db |-> d]
            PROVE  CardMade(s, u, d)'
        <5>1. CASE s = at.slot
          <6>1. u = ud.uuid /\ d = ud.nix[at.slot].db
            BY <4>1, <5>1, <3>2, <3>5
          <6>2. CardMade(at.slot, ud.uuid, ud.nix[at.slot].db)
            BY <1>0, <2>4 DEF FingerInv
          <6> QED
            BY <5>1, <6>1, <6>2, <3>2, <2>0 DEF CardMade
        <5>2. CASE s # at.slot
          <6>1. CardMade(s, u, d)
            BY <4>1, <5>2, <3>2, <1>0 DEF CardInv
          <6> QED
            BY <6>1, <3>2, <2>0 DEF CardMade
        <5> QED
          BY <5>1, <5>2
      <4> QED
        BY <4>1 DEF CardInv
    <3>7. FileInv'
      BY <3>1, <3>2, <3>5, <2>0 DEF FileInv
    <3>8. FingerInv'
      BY <3>1, <3>2, <3>3 DEF FingerInv, Now
    <3> QED
      BY <3>3, <3>4, <3>6, <3>7, <3>8
  <2> QED
    BY <1>9, <2>1, <2>2, <2>3, <2>4 DEF RecordLower
<1> QED
  BY <1>1, <1>2, <1>4, <1>5, <1>6, <1>7, <1>8, <1>9 DEF CardStateStep

\* The invariant holds of a new badge.
LEMMA InvInit == Init => Stage0Inv
<1> SUFFICES ASSUME Init PROVE Stage0Inv
  OBVIOUS
<1>1. at.pc = "off" /\ at.storage = "emmc"
  BY OffType DEF Init
<1>2. card.file = None /\ \A s \in Slots : ud.nix[s].upper = {} /\ ud.nix[s].db = {}
  BY DEF Init, FreshCard, ConvertedCard, NoLayer
<1>3. TypeOK
  <2>1. at \in [pc : Pcs, slot : Slots, found : BOOLEAN, storage : {"emmc", "card"},
                cardfit : BOOLEAN, kernel : Systems, cstate : {"none", "fresh", "same", "reset", "foreign"},
                todo : SUBSET Slots, userland : Systems, gen : Systems]
    BY OffType DEF Init, Off, Pcs, Systems
  <2>2. card \in [file : LowerFiles, nix : [Slots -> Layers], seen : [Slots -> SeenFiles],
                  cardfit : SUBSET Slots, list : SUBSET Slots, fit : [Slots -> Gens \cup {None}]]
    <3>1. CASE card = FreshCard([s \in Slots |-> None])
      BY <3>1, OffType DEF FreshCard, LowerFiles, SeenFiles
    <3>2. ASSUME NEW h \in Stamps, card = ConvertedCard(h)
          PROVE  card \in [file : LowerFiles, nix : [Slots -> Layers], seen : [Slots -> SeenFiles],
                           cardfit : SUBSET Slots, list : SUBSET Slots,
                           fit : [Slots -> Gens \cup {None}]]
      <4>1. PICK l \in Layers : l = [stamp |-> h, upper |-> Gens, var |-> "full", db |-> Gens,
                                     prof |-> Image]
        BY DEF Layers, Systems
      <4>2. card = [FreshCard([s \in Slots |-> None]) EXCEPT !.nix = [s \in Slots |-> l]]
        BY <3>2, <4>1 DEF ConvertedCard
      <4> QED
        BY <4>2, OffType DEF FreshCard, LowerFiles, SeenFiles
    <3> QED
      BY <3>1, <3>2 DEF Init
  <2>3. ud \in [uuid : 0 .. MaxUuid, nix : [Slots -> Layers]]
    BY OffType DEF Init
  <2>4. made \in [Gens -> [stamp : Stamps \cup {None}, uuid : 0 .. MaxUuid, under : SUBSET Gens]]
    BY DEF Init, NoBase
  <2>5. fit \in [Slots -> Systems]
    BY DEF Init, Systems
  <2> QED
    BY <2>1, <2>2, <2>3, <2>4, <2>5 DEF Init, TypeOK
<1>4. UdInv /\ SeenInv /\ CardInv
  BY <1>2, FileNames DEF UdInv, SeenInv, CardInv, Badges
<1> USE DEF SlotPcs, LayerPcs, RunPcs, CardPcs, ResetPcs
<1>5. WhereInv /\ FileInv /\ DoingInv
  BY <1>1 DEF WhereInv, FileInv, DoingInv
<1>6. FingerInv /\ LayerInv /\ ClearedInv
  BY <1>1 DEF FingerInv, LayerInv, ClearedInv
<1> QED
  BY <1>3, <1>4, <1>5, <1>6 DEF Stage0Inv

\* Every step keeps it.
LEMMA InvStep == Stage0Inv /\ [Next]_vars => Stage0Inv'
<1> SUFFICES ASSUME Stage0Inv, [Next]_vars PROVE Stage0Inv'
  OBVIOUS
<1>1. TypeOK'
  BY TypeStep DEF Stage0Inv
<1>2. CASE Next
  <2>1. /\ WhereInv' /\ UdInv' /\ SeenInv' /\ CardInv' /\ FileInv' /\ DoingInv' /\ FingerInv'
        /\ LayerInv' /\ ClearedInv'
    BY <1>2, StartStep, CardStep, SlotStep, RunStep DEF Next
  <2> QED
    BY <1>1, <2>1 DEF Stage0Inv
<1>3. CASE UNCHANGED vars
  <2> USE <1>3 DEF vars, Stage0Inv
  <2>1. WhereInv' /\ UdInv' /\ SeenInv' /\ CardInv'
    BY UdFrame, CardFrame DEF WhereInv
  <2>2. FileInv' /\ ClearedInv'
    BY DEF FileInv, ClearedInv
  <2>3. DoingInv'
    BY DEF DoingInv, Doing
  <2>4. FingerInv'
    BY DEF FingerInv, CardGood, CardMade, Now
  <2>5. LayerInv'
    BY DEF LayerInv, Layer, Base
  <2> QED
    BY <1>1, <2>1, <2>2, <2>3, <2>4, <2>5
<1> QED
  BY <1>2, <1>3

\* The invariant holds in every reachable state.
THEOREM Stage0Safe == Spec => []Stage0Inv
<1>1. Init => Stage0Inv
  BY InvInit
<1>2. Stage0Inv /\ [Next]_vars => Stage0Inv'
  BY InvStep
<1> QED
  BY <1>1, <1>2, PTL DEF Spec

-----------------------------------------------------------------------------
(***************************************************************************)
(* U-Boot's marks.                                                         *)
(***************************************************************************)
\* The boot image a slot is marked for was deployed over the USERDATA u.
Over(s, u) ==
  card.fit[s] # None => made[card.fit[s]] # NoBase /\ made[card.fit[s]].uuid = u

Marked(s, u) == s \in card.cardfit => Over(s, u)

\* The card's file names the USERDATA its marks are for; while the file and
\* the marks are rewritten, the marks that are done are for this eMMC's.
MarksInv ==
  /\ card.file = None => card.cardfit = {}
  /\ \A u \in 0 .. MaxUuid :
       card.file = [cid |-> "this", uuid |-> u] => \A s \in Slots : Marked(s, u)
  /\ at.pc \in ResetPcs => \A s \in Slots \ at.todo : Marked(s, ud.uuid)
  /\ at.pc \in {"lower", "lowerend"} => \A s \in Slots : Marked(s, ud.uuid)
  /\ at.pc = "mark" => Over(at.slot, ud.uuid)

\* A mark stays right while its boot image stays or goes.
LEMMA OverKept ==
  ASSUME NEW s \in Slots, NEW u, card'.fit[s] \in {None, card.fit[s]},
         card.fit[s] \in Gens \cup {None},
         \A g \in Gens : made[g] # NoBase => made'[g] = made[g]
  PROVE  /\ Over(s, u) => Over(s, u)'
         /\ (s \in card'.cardfit => s \in card.cardfit) /\ Marked(s, u) => Marked(s, u)'
<1>1. Over(s, u) => Over(s, u)'
  BY DEF Over
<1> QED
  BY <1>1 DEF Marked

\* The steps that give the card no mark and no boot image.
LEMMA MarksFrame ==
  ASSUME TypeOK, MarksInv, card'.file = card.file, card'.cardfit \subseteq card.cardfit,
         \A s \in Slots : card'.fit[s] \in {None, card.fit[s]},
         \A g \in Gens : made[g] # NoBase => made'[g] = made[g]
  PROVE  /\ \A s \in Slots, u \in 0 .. MaxUuid :
              (Marked(s, u) => Marked(s, u)') /\ (Over(s, u) => Over(s, u)')
         /\ at'.pc \notin ResetPcs \cup {"lower", "lowerend", "mark"} => MarksInv'
<1>1. ASSUME NEW s \in Slots, NEW u \in 0 .. MaxUuid
      PROVE  (Marked(s, u) => Marked(s, u)') /\ (Over(s, u) => Over(s, u)')
  <2>1. card.fit[s] \in Gens \cup {None}
    BY DEF TypeOK
  <2> QED
    BY <2>1, OverKept
<1>2. ASSUME NEW u \in 0 .. MaxUuid, card'.file = [cid |-> "this", uuid |-> u], NEW s \in Slots
      PROVE  Marked(s, u)'
  BY <1>1, <1>2 DEF MarksInv
<1>3. card'.file = None => card'.cardfit = {}
  BY DEF MarksInv
<1>4. at'.pc \notin ResetPcs \cup {"lower", "lowerend", "mark"} => MarksInv'
  BY <1>2, <1>3 DEF MarksInv
<1> QED
  BY <1>1, <1>4

\* The card's layers may change, its file, marks and boot images stay.
LEMMA LayerMarks ==
  ASSUME TypeOK, MarksInv, NEW l \in Layers, SetLayer(l),
         \A g \in Gens : made[g] # NoBase => made'[g] = made[g],
         at'.pc \notin ResetPcs \cup {"lower", "lowerend", "mark"}
  PROVE  MarksInv'
<1>1. card'.file = card.file /\ card'.cardfit = card.cardfit /\ card'.fit = card.fit
  BY SetLayerCard, SetLayerEmmc DEF TypeOK
<1> QED
  BY <1>1, MarksFrame

\* Every step keeps the marks.
LEMMA MarksStep == Stage0Inv /\ MarksInv /\ [Next]_vars => MarksInv'
<1> SUFFICES ASSUME Stage0Inv, MarksInv, [Next]_vars PROVE MarksInv'
  OBVIOUS
<1>0. /\ TypeOK /\ WhereInv /\ FileInv /\ DoingInv /\ FingerInv /\ LayerInv /\ Layer \in Layers
  BY LayerType DEF Stage0Inv
<1>a. /\ at \in [pc : Pcs, slot : Slots, found : BOOLEAN, storage : {"emmc", "card"},
                 cardfit : BOOLEAN, kernel : Systems,
                 cstate : {"none", "fresh", "same", "reset", "foreign"},
                 todo : SUBSET Slots, userland : Systems, gen : Systems]
      /\ at.slot \in Slots /\ ud.uuid \in 0 .. MaxUuid /\ at.todo \subseteq Slots
      /\ card \in [file : LowerFiles, nix : [Slots -> Layers], seen : [Slots -> SeenFiles],
                   cardfit : SUBSET Slots, list : SUBSET Slots,
                   fit : [Slots -> Gens \cup {None}]]
  BY <1>0 DEF TypeOK
<1> USE DEF ResetPcs
<1>b. ASSUME UNCHANGED <<card, made>>,
             at'.pc \notin ResetPcs \cup {"lower", "lowerend", "mark"}
      PROVE  MarksInv'
  BY <1>0, <1>b, MarksFrame
<1>c. ASSUME card'.file # None, card'.file = Torn \/ card'.file.cid = "other",
             at'.pc \notin ResetPcs \cup {"lower", "lowerend", "mark"}
      PROVE  MarksInv'
  <2>1. \A u \in 0 .. MaxUuid : card'.file # [cid |-> "this", uuid |-> u]
    BY <1>c, FileNames DEF Badges
  <2> QED
    BY <1>c, <2>1 DEF MarksInv
<1>d. ASSUME card'.file = None, card'.cardfit = {},
             at'.pc \notin ResetPcs \cup {"lower", "lowerend", "mark"}
      PROVE  MarksInv'
  BY <1>d, FileNames DEF MarksInv, Badges
<1>e. ASSUME NEW pc, Goto(pc)
      PROVE  at'.pc = pc /\ at'.slot = at.slot /\ at'.storage = at.storage /\ at'.todo = at.todo
  BY <1>a, <1>e DEF Goto
<1>1. ASSUME NEW s \in Slots, NEW viacard \in BOOLEAN, PowerOn(s, viacard) PROVE MarksInv'
  BY <1>1, <1>b DEF PowerOn, Off
<1>2. ASSUME NEW found \in BOOLEAN, NEW mounts \in BOOLEAN, FindStorage(found, mounts)
      PROVE  MarksInv'
  <2>1. at'.pc = "reset" /\ UNCHANGED <<card, made>>
    BY <1>2, <1>a DEF FindStorage
  <2> QED
    BY <2>1, <1>b
<1>3. ASSUME NEW done \in BOOLEAN, ResetUserdata(done) PROVE MarksInv'
  <2>1. at'.pc \in {"card", "slot"} /\ made' = made
    BY <1>3, <1>a DEF ResetUserdata
  <2>2. CASE card' = card
    BY <2>1, <2>2, <1>b
  <2>3. CASE card' = FreshCard(card.fit)
    BY <2>1, <2>3, <1>d DEF FreshCard
  <2> QED
    BY <1>3, <2>2, <2>3 DEF ResetUserdata
<1>4. ASSUME NEW mounts \in BOOLEAN, CardState(mounts) PROVE MarksInv'
  <2>0. UNCHANGED <<card, ud, made>>
    BY <1>4 DEF CardState
  <2>1. CASE at'.pc \in {"slot", "clear"}
    BY <2>0, <2>1, <1>b
  <2>2. ASSUME NEW s \in Slots, NEW u \in 0 .. MaxUuid
        PROVE  Marked(s, u) => Marked(s, u)'
    BY <2>0 DEF Marked, Over
  <2>3. \A u \in 0 .. MaxUuid :
          card'.file = [cid |-> "this", uuid |-> u] => \A s \in Slots : Marked(s, u)'
    BY <2>0, <2>2 DEF MarksInv
  <2>4. CASE at'.pc = "upper" /\ at'.todo = Slots
    BY <2>0, <2>3, <2>4 DEF MarksInv
  <2>5. CASE at'.pc \in {"upper", "lower"} /\ card.file = [cid |-> "this", uuid |-> ud.uuid]
    BY <2>0, <2>3, <2>5, <1>a DEF MarksInv
  <2>6. ASSUME mounts, card.file # None, ~Foreign, ~NewLower
        PROVE  card.file = [cid |-> "this", uuid |-> ud.uuid]
    <3>1. card.file # Torn /\ card.file.cid = "this" /\ card.file.uuid = ud.uuid
      BY <2>6 DEF Foreign, NewLower
    <3>2. card.file \in [cid : Badges, uuid : 0 .. MaxUuid]
      BY <2>6, <3>1, <1>a DEF LowerFiles
    <3> QED
      BY <3>1, <3>2
  <2>7. \/ at' = [at EXCEPT !.pc = "slot", !.storage = "emmc"]
        \/ at' = [at EXCEPT !.pc = "clear", !.cstate = "fresh"]
        \/ at' = [at EXCEPT !.pc = "slot", !.storage = "emmc", !.cstate = "foreign"]
        \/ at' = [at EXCEPT !.pc = "upper", !.cstate = "reset", !.todo = Slots]
        \/ /\ mounts /\ card.file # None /\ ~Foreign /\ ~NewLower
           /\ \/ at' = [at EXCEPT !.pc = "upper", !.cstate = "reset", !.todo = {at.slot}]
              \/ at' = [at EXCEPT !.pc = "lower", !.cstate = "same"]
    BY <1>4, Zenon DEF CardState
  <2>8. \/ at'.pc \in {"slot", "clear"}
        \/ at'.pc = "upper" /\ at'.todo = Slots
        \/ at'.pc \in {"upper", "lower"} /\ card.file = [cid |-> "this", uuid |-> ud.uuid]
    BY <2>6, <2>7, <1>a
  <2> QED
    BY <2>1, <2>4, <2>5, <2>8
<1>5. ASSUME NEW rest \in SUBSET Gens, ClearCard(rest) PROVE MarksInv'
  <2>1. /\ at'.pc \in {"clear", "lower"} /\ card'.file = None /\ card'.cardfit = {}
    BY <1>0, <1>5, <1>a, <1>e DEF ClearCard, FileInv, MarksInv
  <2> QED
    BY <2>1, FileNames DEF MarksInv, Marked, Badges
\* A step of card_reset_nix.
<1>f. ASSUME at.pc \in ResetPcs, at'.pc \in ResetPcs \cup {"lower"}, UNCHANGED <<ud, made>>,
             card'.file = card.file, card'.fit = card.fit, card'.cardfit \subseteq card.cardfit,
             \A s \in Slots : s \in (IF at'.pc = "lower" THEN {} ELSE at'.todo)
                                \/ s \notin at.todo \/ s \notin card'.cardfit
      PROVE  MarksInv'
  <2>1. ASSUME NEW s \in Slots, NEW u \in 0 .. MaxUuid PROVE Marked(s, u) => Marked(s, u)'
    BY <1>f DEF Marked, Over
  <2>2. \A u \in 0 .. MaxUuid :
          card'.file = [cid |-> "this", uuid |-> u] => \A s \in Slots : Marked(s, u)'
    BY <1>f, <2>1 DEF MarksInv
  <2>3. ASSUME NEW s \in Slots, s \notin (IF at'.pc = "lower" THEN {} ELSE at'.todo)
        PROVE  Marked(s, ud.uuid)'
    <3>1. CASE s \notin at.todo
      BY <1>a, <1>f, <2>1, <3>1 DEF MarksInv
    <3>2. CASE s \notin card'.cardfit
      BY <3>2 DEF Marked
    <3> QED
      BY <1>f, <2>3, <3>1, <3>2
  <2>4. card'.file = None => card'.cardfit = {}
    BY <1>f DEF MarksInv
  <2>5. ud' = ud
    BY <1>f
  <2>6. CASE at'.pc = "lower"
    BY <2>2, <2>3, <2>4, <2>5, <2>6 DEF MarksInv
  <2>7. CASE at'.pc # "lower"
    BY <2>2, <2>3, <2>4, <2>5, <2>7, <1>f DEF MarksInv
  <2> QED
    BY <2>6, <2>7
<1>6. ASSUME NEW rest \in SUBSET Gens, CardResetUpper(rest) PROVE MarksInv'
  <2>1. /\ at.pc = "upper" /\ at'.pc \in {"var", "upper"} /\ at'.todo = at.todo
        /\ UNCHANGED <<ud, made>>
    BY <1>6, <1>e DEF CardResetUpper
  <2>2. card'.file = card.file /\ card'.fit = card.fit /\ card'.cardfit = card.cardfit
    BY <1>6, <1>a DEF CardResetUpper
  <2> QED
    BY <2>1, <2>2, <1>f
<1>7. ASSUME CardResetVar PROVE MarksInv'
  <2>1. at.pc = "var" /\ at'.pc = "seen" /\ at'.todo = at.todo /\ UNCHANGED <<ud, made>>
    BY <1>7, <1>e DEF CardResetVar
  <2>2. card'.file = card.file /\ card'.fit = card.fit /\ card'.cardfit = card.cardfit
    BY <1>7, <1>a DEF CardResetVar
  <2> QED
    BY <2>1, <2>2, <1>f
<1>8. ASSUME CardResetSeen PROVE MarksInv'
  <2>1. at.pc = "seen" /\ at'.pc = "cardfit" /\ at'.todo = at.todo /\ UNCHANGED <<ud, made>>
    BY <1>8, <1>e DEF CardResetSeen
  <2>2. card'.file = card.file /\ card'.fit = card.fit /\ card'.cardfit = card.cardfit
    BY <1>8, <1>a DEF CardResetSeen
  <2> QED
    BY <2>1, <2>2, <1>f
<1>9. ASSUME CardResetFit PROVE MarksInv'
  <2>1. at.pc = "cardfit" /\ at'.pc = "list" /\ at'.todo = at.todo /\ UNCHANGED <<ud, made>>
    BY <1>9, <1>e DEF CardResetFit
  <2>2. card'.file = card.file /\ card'.fit = card.fit /\ card'.cardfit \subseteq card.cardfit
    BY <1>9, <1>a DEF CardResetFit
  <2> QED
    BY <2>1, <2>2, <1>f
<1>10. ASSUME CardResetList PROVE MarksInv'
  <2>0. at.pc = "list"
    BY <1>10 DEF CardResetList
  <2>1. PICK x \in Slots : x = Doing
    BY <1>0, <1>a, <2>0, DoingType DEF FingerInv
  <2>2. /\ at'.todo = at.todo \ {x} /\ at'.pc = (IF at.todo \ {x} = {} THEN "lower" ELSE "upper")
        /\ UNCHANGED <<ud, made>>
    BY <1>10, <1>a, <2>1 DEF CardResetList
  <2>3. card'.file = card.file /\ card'.fit = card.fit /\ card'.cardfit = card.cardfit
    BY <1>10, <1>a DEF CardResetList
  <2>4. x \notin card.cardfit
    BY <1>0, <2>0, <2>1 DEF DoingInv
  <2> QED
    BY <2>0, <2>2, <2>3, <2>4, <1>f
<1>11. ASSUME RecordLower PROVE MarksInv'
  <2>0. UNCHANGED <<ud, made>>
    BY <1>11 DEF RecordLower
  <2>1. CASE at.pc = "lower"
    <3>1. /\ at'.pc = "lowerend" /\ card'.file = Torn /\ card'.cardfit = card.cardfit
          /\ card'.fit = card.fit
      BY <1>11, <2>1, <1>a, <1>e DEF RecordLower
    <3>2. \A s \in Slots : Marked(s, ud.uuid)'
      BY <2>0, <2>1, <3>1 DEF MarksInv, Marked, Over
    <3>3. ud' = ud
      BY <2>0
    <3> QED
      BY <3>1, <3>2, <3>3, FileNames DEF MarksInv, Badges
  <2>2. CASE at.pc = "lowerend"
    <3>1. /\ at'.pc = "record" /\ card'.file = [cid |-> "this", uuid |-> ud.uuid]
          /\ card'.cardfit = card.cardfit /\ card'.fit = card.fit
      BY <1>11, <2>2, <1>a, <1>e DEF RecordLower
    <3>2. \A s \in Slots : Marked(s, ud.uuid)'
      BY <2>0, <2>2, <3>1 DEF MarksInv, Marked, Over
    <3>3. card'.file # None /\ \A u : card'.file = [cid |-> "this", uuid |-> u] => u = ud.uuid
      BY <3>1, <1>a, FileNames DEF Badges
    <3>4. ASSUME NEW u \in 0 .. MaxUuid, card'.file = [cid |-> "this", uuid |-> u]
          PROVE  \A s \in Slots : Marked(s, u)'
      BY <2>0, <3>2, <3>3, <3>4 DEF Marked, Over
    <3> QED
      BY <3>1, <3>3, <3>4 DEF MarksInv
  <2>3. CASE at.pc \in {"record", "recordend"}
    <3>1. /\ at'.pc \in {"recordend", "slot"} /\ card'.file = card.file
          /\ card'.cardfit = card.cardfit /\ card'.fit = card.fit
      BY <1>11, <2>3, <1>a, <1>e DEF RecordLower
    <3> QED
      BY <1>0, <2>0, <3>1, MarksFrame
  <2> QED
    BY <1>11, <2>1, <2>2, <2>3 DEF RecordLower
<1>12. CASE SlotState \/ Exec
  <2>1. at'.pc \in {"slotupper", "seed", "run"} /\ UNCHANGED <<card, made>>
    BY <1>12, <1>a, <1>e DEF SlotState, Exec
  <2> QED
    BY <2>1, <1>b
<1>13. CASE SlotVar \/ Seed \/ WriteStamp \/ DeployProfile
  <2>1. /\ made' = made /\ at'.pc \in {"seed", "stamp", "seedend", "stampend", "exec", "fit"}
    BY <1>13, <1>e DEF SlotVar, Seed, WriteStamp, DeployProfile
  <2>2. /\ [Layer EXCEPT !.var = "none", !.db = {}, !.prof = Image] \in Layers
        /\ [Layer EXCEPT !.var = "part"] \in Layers /\ [Layer EXCEPT !.stamp = Torn] \in Layers
        /\ [Layer EXCEPT !.stamp = image[at.slot]] \in Layers
        /\ [Layer EXCEPT !.prof = at.gen] \in Layers
    BY <1>0, <1>a DEF TypeOK, Layers, Systems
  <2>3. card' = card \/ \E l \in Layers : SetLayer(l)
    BY <1>13, <2>2, Zenon DEF SlotVar, Seed, WriteStamp, DeployProfile
  <2> QED
    BY <1>0, <1>b, <2>1, <2>3, LayerMarks
<1>14. ASSUME NEW rest \in SUBSET Gens, SlotUpper(rest) PROVE MarksInv'
  <2>1. [Layer EXCEPT !.upper = rest] \in Layers
    BY <1>0 DEF Layers
  <2>2. made' = made /\ at'.pc \in {"slotvar", "slotupper"}
    BY <1>14, <1>e DEF SlotUpper
  <2> QED
    BY <1>0, <1>14, <2>1, <2>2, LayerMarks DEF SlotUpper
<1>15. ASSUME NEW ok \in BOOLEAN, SeedEnd(ok) PROVE MarksInv'
  <2>1. PICK q \in Systems : q = IF at.storage = "card" THEN ud.nix[at.slot].prof ELSE Image
    BY <1>0 DEF TypeOK, Layers, Systems
  <2>2. [Layer EXCEPT !.var = "full", !.prof = q] \in Layers /\ [Layer EXCEPT !.var = "none"] \in Layers
    BY <1>0 DEF Layers
  <2>3. made' = made /\ at'.pc \in {"stamp", "exec"} /\ \E l \in Layers : SetLayer(l)
    BY <1>15, <1>e, <2>1, <2>2 DEF SeedEnd
  <2> QED
    BY <1>0, <2>3, LayerMarks
<1>16. ASSUME NEW g \in Gens, DeployCopy(g) PROVE MarksInv'
  <2>1. [Layer EXCEPT !.upper = @ \cup {g}, !.db = @ \cup {g}] \in Layers
    BY <1>0 DEF Layers
  <2>2. at'.pc = "profile"
    BY <1>16, <1>a DEF DeployCopy
  <2>3. \A x \in Gens : made[x] # NoBase => made'[x] = made[x]
    BY <1>0, <1>16 DEF DeployCopy, TypeOK
  <2> QED
    BY <1>0, <1>16, <2>1, <2>2, <2>3, LayerMarks DEF DeployCopy
<1>17. ASSUME DeployFit PROVE MarksInv'
  <2>0. at.pc = "fit" /\ UNCHANGED <<ud, made>>
    BY <1>17 DEF DeployFit
  <2>1. CASE at.storage # "card"
    <3>1. at' = [at EXCEPT !.pc = "run", !.gen = Image] /\ card' = card
      BY <1>17, <2>1 DEF DeployFit
    <3>2. at'.pc = "run"
      BY <3>1, <1>a
    <3> QED
      BY <2>0, <3>1, <3>2, <1>b
  <2>2. CASE at.storage = "card"
    <3>1. at'.pc = "mark" /\ at'.slot = at.slot
      BY <1>17, <2>2, <1>e DEF DeployFit
    <3>2. /\ card'.file = card.file /\ card'.cardfit = card.cardfit
          /\ card'.fit[at.slot] = at.gen
          /\ \A s \in Slots : s # at.slot => card'.fit[s] = card.fit[s]
      BY <1>17, <2>2, <1>a DEF DeployFit
    <3>3. made[at.gen] = Base /\ Base.uuid = ud.uuid /\ Base # NoBase
      <4>1. at.gen \in Layer.upper
        BY <1>0, <2>0 DEF LayerInv
      <4>2. made[at.gen] = Base
        BY <1>0, <2>0, <4>1 DEF LayerInv, LayerPcs
      <4>3. Base.uuid = ud.uuid
        BY <2>2 DEF Base
      <4>4. Base.stamp \in Stamps /\ NoBase.stamp = None
        BY <1>0, <1>a DEF Base, NoBase, TypeOK
      <4> QED
        BY <4>2, <4>3, <4>4
    <3>4. card.file = [cid |-> "this", uuid |-> ud.uuid]
      BY <1>0, <2>0, <2>2 DEF FileInv, SlotPcs, LayerPcs
    <3>5. card'.file # None /\ \A u : card'.file = [cid |-> "this", uuid |-> u] => u = ud.uuid
      BY <3>2, <3>4, <1>a, FileNames DEF Badges
    <3>6. Over(at.slot, ud.uuid)'
      BY <2>0, <3>1, <3>2, <3>3 DEF Over
    <3>7. ASSUME NEW s \in Slots PROVE Marked(s, ud.uuid)'
      <4>1. CASE s = at.slot
        BY <3>1, <3>6, <4>1 DEF Marked, Over
      <4>2. CASE s # at.slot
        BY <1>a, <2>0, <3>2, <3>4, <4>2 DEF MarksInv, Marked, Over
      <4> QED
        BY <4>1, <4>2
    <3>8. ASSUME NEW u \in 0 .. MaxUuid, card'.file = [cid |-> "this", uuid |-> u]
          PROVE  \A s \in Slots : Marked(s, u)'
      BY <2>0, <3>5, <3>7, <3>8 DEF Marked, Over
    <3> QED
      BY <3>1, <3>5, <3>6, <3>8 DEF MarksInv
  <2> QED
    BY <2>1, <2>2
<1>18. ASSUME DeployMark PROVE MarksInv'
  <2>1. at.pc = "mark" /\ at'.pc = "run" /\ UNCHANGED <<ud, made>> /\ at.storage = "card"
    BY <1>18, <1>0, <1>a DEF DeployMark, WhereInv, CardPcs
  <2>2. /\ card'.file = card.file /\ card'.cardfit = card.cardfit \cup {at.slot}
        /\ card'.fit = card.fit
    BY <1>18, <1>a DEF DeployMark
  <2>3. card.file = [cid |-> "this", uuid |-> ud.uuid]
    BY <1>0, <2>1 DEF FileInv, SlotPcs, LayerPcs
  <2>4. card'.file # None /\ \A u : card'.file = [cid |-> "this", uuid |-> u] => u = ud.uuid
    BY <2>2, <2>3, <1>a, FileNames DEF Badges
  <2>5. ASSUME NEW s \in Slots PROVE Marked(s, ud.uuid)'
    <3>1. CASE s = at.slot
      BY <2>1, <2>2, <3>1 DEF MarksInv, Marked, Over
    <3>2. CASE s # at.slot
      BY <1>a, <2>1, <2>2, <2>3, <3>2 DEF MarksInv, Marked, Over
    <3> QED
      BY <3>1, <3>2
  <2>6. ASSUME NEW u \in 0 .. MaxUuid, card'.file = [cid |-> "this", uuid |-> u]
        PROVE  \A s \in Slots : Marked(s, u)'
    BY <2>1, <2>4, <2>5, <2>6 DEF Marked, Over
  <2> QED
    BY <2>1, <2>4, <2>6 DEF MarksInv
<1>19. ASSUME NEW cut \in BOOLEAN, CardBootReset(cut) PROVE MarksInv'
  <2>0. UNCHANGED <<ud, made>> /\ (at' = Off \/ at' = at) /\ at.pc \in {"run", "profile", "fit", "mark"}
    BY <1>19 DEF CardBootReset
  <2>1. /\ card'.file = card.file /\ card'.cardfit = card.cardfit
        /\ \A s \in Slots : card'.fit[s] \in {None, card.fit[s]}
    BY <1>19, <1>a DEF CardBootReset
  <2>2. /\ \A s \in Slots, u \in 0 .. MaxUuid :
             (Marked(s, u) => Marked(s, u)') /\ (Over(s, u) => Over(s, u)')
        /\ at'.pc \notin ResetPcs \cup {"lower", "lowerend", "mark"} => MarksInv'
    BY <1>0, <2>0, <2>1, MarksFrame
  <2>3. CASE at'.pc # "mark"
    BY <2>0, <2>2, <2>3, OffType
  <2>4. CASE at'.pc = "mark"
    <3>1. at' = at /\ at.pc = "mark"
      BY <2>0, <2>4, OffType
    <3>2. Over(at.slot, ud.uuid)'
      <4>1. PICK t \in Slots, v \in 0 .. MaxUuid : t = at.slot /\ v = ud.uuid
        BY <1>a
      <4>2. Over(t, v)
        BY <3>1, <4>1 DEF MarksInv
      <4>3. Over(t, v)'
        BY <2>2, <4>2
      <4> QED
        BY <2>0, <3>1, <4>1, <4>3 DEF Over
    <3>3. \A u \in 0 .. MaxUuid :
            card'.file = [cid |-> "this", uuid |-> u] => \A s \in Slots : Marked(s, u)'
      BY <2>1, <2>2 DEF MarksInv
    <3> QED
      BY <2>1, <3>1, <3>2, <3>3 DEF MarksInv
  <2> QED
    BY <2>3, <2>4
<1>20. CASE PowerCut
  BY <1>20, <1>b, OffType DEF PowerCut
<1>21. CASE SwapCard
  BY <1>21, <1>b DEF SwapCard
<1>22. ASSUME NEW marks \in SUBSET Slots, NEW g \in Gens, CardUsedElsewhere(marks, g)
       PROVE  MarksInv'
  <2>1. card'.file = [cid |-> "other", uuid |-> 0] /\ at'.pc = "off"
    BY <1>22 DEF CardUsedElsewhere, FreshCard
  <2>2. card'.file # None /\ card'.file.cid = "other"
    BY <2>1, FileNames DEF Badges
  <2> QED
    BY <2>1, <2>2, <1>c
<1>23. ASSUME NEW s \in Slots, NEW i \in Stamps, Reinstall(s, i) PROVE MarksInv'
  BY <1>23, <1>b DEF Reinstall
<1>24. CASE UNCHANGED vars
  BY <1>24 DEF vars, MarksInv, Marked, Over
<1> QED
  BY <1>1, <1>2, <1>3, <1>4, <1>5, <1>6, <1>7, <1>8, <1>9, <1>10, <1>11, <1>12, <1>13, <1>14,
     <1>15, <1>16, <1>17, <1>18, <1>19, <1>20, <1>21, <1>22, <1>23, <1>24
  DEF Next, CardStateStep, SlotStateStep, DeployStep

-----------------------------------------------------------------------------
\* The types hold: above all, what stage 0 runs and what it records of a card
\* are always a generation, a squashfs or a file that can be there.
THEOREM TypesKept == Spec => []TypeOK
<1>1. Stage0Inv => TypeOK
  BY DEF Stage0Inv
<1> QED
  BY <1>1, Stage0Safe, PTL

\* Every generation in the layer a system runs on was deployed over the
\* squashfs, the USERDATA and the eMMC database that are under it now.
THEOREM LayersMatch == Spec => []RunsOnMatchingLayer
<1>1. Stage0Inv => RunsOnMatchingLayer
  BY DEF Stage0Inv, LayerInv, LayerPcs, Base, RunsOnMatchingLayer
<1> QED
  BY <1>1, Stage0Safe, PTL

\* On a card in use, U-Boot's marks are for boot images that were deployed
\* over the eMMC's USERDATA as it is now, whatever was cut short before.
THEOREM MarksFollowUserdata == Spec => []MarksOfThisUserdata
<1>1. Init => MarksInv
  <2> SUFFICES ASSUME Init PROVE MarksInv
    OBVIOUS
  <2>1. card.file = None /\ card.cardfit = {} /\ at.pc = "off"
    BY OffType DEF Init, FreshCard, ConvertedCard
  <2> QED
    BY <2>1, FileNames DEF MarksInv, ResetPcs, Badges
<1>2. Stage0Inv /\ MarksInv /\ [Next]_vars => MarksInv'
  BY MarksStep
<1>3. Stage0Inv /\ MarksInv => MarksOfThisUserdata
  <2> SUFFICES ASSUME Stage0Inv, MarksInv, at.pc = "run", at.storage = "card",
                      NEW s \in card.cardfit, card.fit[s] # None
               PROVE  made[card.fit[s]].uuid = ud.uuid
    BY DEF MarksOfThisUserdata
  <2>1. card.file = [cid |-> "this", uuid |-> ud.uuid]
    BY DEF Stage0Inv, FileInv, SlotPcs, LayerPcs
  <2>2. ud.uuid \in 0 .. MaxUuid /\ s \in Slots
    BY DEF Stage0Inv, TypeOK
  <2> QED
    BY <2>1, <2>2 DEF MarksInv, Marked, Over
<1> QED
  BY <1>1, <1>2, <1>3, Stage0Safe, PTL DEF Spec

\* A factory reset of a boot that found a data card is the card's, and while
\* the card is in use nothing changes the eMMC's USERDATA.
THEOREM EmmcSpared == Spec => CardSparesEmmc
<1>1. Stage0Inv /\ [Next]_vars =>
        [(at.found /\ at.pc = "reset") \/ (at.storage = "card" /\ at.pc # "off") => ud' = ud]_vars
  <2> SUFFICES ASSUME Stage0Inv, Next,
                      (at.found /\ at.pc = "reset") \/ (at.storage = "card" /\ at.pc # "off")
               PROVE  ud' = ud
    OBVIOUS
  <2>0. /\ TypeOK /\ WhereInv /\ Layer \in Layers /\ (at.storage = "card" /\ at.pc = "reset" => at.found)
        /\ at.pc \in {"off", "find"} => at.storage = "emmc"
    BY LayerType DEF Stage0Inv, WhereInv
  <2>1. ASSUME NEW l, SetLayer(l), at.pc # "reset" PROVE ud' = ud
    BY <2>1 DEF SetLayer
  <2>2. CASE CardStateStep
    BY <2>2 DEF CardStateStep, CardState, ClearCard, CardResetVar, CardResetSeen, CardResetFit,
       CardResetList, RecordLower, CardResetUpper
  <2>3. CASE SlotStateStep
    BY <2>1, <2>3 DEF SlotStateStep, SlotState, SlotVar, Seed, WriteStamp, SlotUpper, SeedEnd
  <2>4. CASE DeployStep
    BY <2>1, <2>4 DEF DeployStep, DeployProfile, DeployFit, DeployMark, DeployCopy
  <2>5. ASSUME NEW done \in BOOLEAN, ResetUserdata(done) PROVE ud' = ud
    BY <2>0, <2>5 DEF ResetUserdata
  <2> QED
    BY <2>2, <2>3, <2>4, <2>5
    DEF Next, PowerOn, FindStorage, Exec, CardBootReset, PowerCut, SwapCard, CardUsedElsewhere,
        Reinstall
<1> QED
  BY <1>1, Stage0Safe, PTL DEF Spec, CardSparesEmmc

\* No boot changes another badge's card but one asked to reset it.
THEOREM ForeignCardsKept == Spec => ForeignCardKept
<1>1. Stage0Inv /\ [Next]_vars =>
        [card.file = [cid |-> "other", uuid |-> 0] /\ at.pc \notin {"off", "reset"}
           => card' = card]_vars
  <2> SUFFICES ASSUME Stage0Inv, Next, card.file = [cid |-> "other", uuid |-> 0],
                      at.pc \notin {"off", "reset"}
               PROVE  card' = card
    OBVIOUS
  <2>0. /\ TypeOK /\ WhereInv /\ FileInv
    BY DEF Stage0Inv
  <2>1. card.file \notin {None, Torn} /\ card.file.cid # "this"
    BY FileNames DEF Badges
  <2>2. /\ at.pc \notin ResetPcs \cup {"clear", "lower", "lowerend"}
        /\ at.storage = "card" => at.pc \notin {"record", "recordend"} \cup SlotPcs
    BY <2>0, <2>1 DEF FileInv
  <2>3. at.pc \in {"record", "recordend", "mark"} => at.storage = "card"
    BY <2>0 DEF WhereInv, CardPcs
  <2>4. ASSUME NEW l, SetLayer(l), at.storage # "card" PROVE card' = card
    BY <2>4 DEF SetLayer
  <2>5. CASE CardStateStep
    BY <2>2, <2>3, <2>5 DEF CardStateStep, CardState, ClearCard, CardResetVar, CardResetSeen,
       CardResetFit, CardResetList, RecordLower, CardResetUpper, ResetPcs
  <2>6. CASE SlotStateStep
    BY <2>2, <2>4, <2>6 DEF SlotStateStep, SlotState, SlotVar, Seed, WriteStamp, SlotUpper, SeedEnd,
       SlotPcs, LayerPcs
  <2>7. CASE DeployStep
    BY <2>2, <2>3, <2>4, <2>7 DEF DeployStep, DeployProfile, DeployFit, DeployMark, DeployCopy,
       SlotPcs, LayerPcs
  <2>8. ASSUME NEW cut \in BOOLEAN, CardBootReset(cut) PROVE card' = card
    BY <2>2, <2>8 DEF CardBootReset, SlotPcs, LayerPcs
  <2> QED
    BY <2>5, <2>6, <2>7, <2>8
    DEF Next, PowerOn, FindStorage, ResetUserdata, Exec, PowerCut, SwapCard, CardUsedElsewhere,
        Reinstall
<1> QED
  BY <1>1, Stage0Safe, PTL DEF Spec, ForeignCardKept
=============================================================================
