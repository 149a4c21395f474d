---------------------------- MODULE SophIonProofs ----------------------------
(***************************************************************************)
(* soph_ion_compat counts references and bytes exactly, for any number of  *)
(* callers, buffers and dma-bufs, any lengths and any budget.              *)
(***************************************************************************)
EXTENDS MCVideo, FiniteSetTheorems, TLAPS

USE IonAssumption, HolderAssumption

\* The cardinality SophIon counts with.
LEMMA IonCardinality == \A S : Ion!Cardinality(S) = Cardinality(S)
BY DEF Ion!Cardinality, Cardinality

\* What a thread is working on: nothing when idle, and between the export and
\* the fd, or in the release, a dma-buf of its buffer that is its own.
CallsInv ==
  \A t \in Threads :
    /\ Ion!At(t, "idle") => th[t] = Ion!Idle
    /\ ~Ion!At(t, "idle") => th[t].buf \in IonBufs
    /\ th[t].pc \in {"fd", "release"} <=> th[t].db # Null
    /\ th[t].db # Null => /\ db[th[t].db].buf = th[t].buf
                          /\ db[th[t].db].files = IF Ion!At(t, "fd") THEN 1 ELSE 0
                          /\ \A u \in Threads : th[u].db = th[t].db => u = t

\* A buffer that is being made or given back is nobody else's, and unless it
\* is about to go on the list it has no holder.
EndsInv ==
  \A t \in Threads, b \in IonBufs : th[t].buf = b =>
    /\ th[t].pc \in {"dma", "add", "free", "account"} =>
         \A u \in Threads : th[u].buf = b => u = t
    /\ th[t].pc \in {"dma", "free", "account"} =>
         Ion!Holders(b) = {} /\ (iBuf[b].backed <=> Ion!At(t, "free"))
    /\ Ion!At(t, "add") => Ion!Holders(b) = {t}

DbsInv == \A d \in Dbs : db[d].buf = Null => db[d] = Ion!NoDb

\* A buffer that is not there is nobody's; one that is there is held, being
\* made or being given back.
BufsInv ==
  \A b \in IonBufs :
    /\ iBuf[b].size = 0 =>
         ~iBuf[b].backed /\ Ion!Holders(b) = {} /\ \A t \in Threads : th[t].buf # b
    /\ iBuf[b].size # 0 =>
         \/ Ion!Holders(b) # {}
         \/ \E t \in Threads : th[t].buf = b /\ th[t].pc \in {"dma", "free", "account"}

ExitInv ==
  ~loaded => /\ list = {}
             /\ \A t \in Threads : Ion!At(t, "idle")
             /\ \A d \in Dbs : db[d] = Ion!NoDb

\* The inductive invariant.
IonInv ==
  /\ Ion!TypeOK /\ CallsInv /\ EndsInv /\ DbsInv /\ BufsInv /\ ExitInv
  /\ Ion!HeldMemoryStays /\ Ion!UsedBytesExact

-----------------------------------------------------------------------------
\* The holders of a buffer are finitely many.
LEMMA HoldersFinite ==
  ASSUME NEW b
  PROVE  IsFiniteSet(Ion!Holders(b)) /\ Cardinality(Ion!Holders(b)) \in Nat
<1>1. IsFiniteSet({t \in Threads : th[t].buf = b /\ th[t].pc \in {"add", "put", "export"}})
  BY FS_Subset
<1>2. IsFiniteSet({d \in Dbs : db[d].buf = b})
  BY FS_Subset
<1>3. IsFiniteSet(IF b \in list THEN {"list"} ELSE {})
  BY FS_EmptySet, FS_Singleton
<1>4. IsFiniteSet(Ion!Holders(b))
  BY <1>1, <1>2, <1>3, FS_Union DEF Ion!Holders
<1> QED
  BY <1>4, FS_CardinalityType

\* A reference is taken: the count goes up by one.
LEMMA HolderAdded ==
  ASSUME NEW b, NEW x, x \notin Ion!Holders(b), Ion!Holders(b)' = Ion!Holders(b) \cup {x}
  PROVE  Cardinality(Ion!Holders(b)') = Cardinality(Ion!Holders(b)) + 1
BY HoldersFinite, FS_AddElement

\* A reference is put: the count goes down by one and was not 0.
LEMMA HolderDropped ==
  ASSUME NEW b, NEW x, x \in Ion!Holders(b), Ion!Holders(b)' = Ion!Holders(b) \ {x}
  PROVE  /\ Cardinality(Ion!Holders(b)') = Cardinality(Ion!Holders(b)) - 1
         /\ Cardinality(Ion!Holders(b)) # 0
         /\ Cardinality(Ion!Holders(b)) = 1 <=> Ion!Holders(b)' = {}
<1>1. Cardinality(Ion!Holders(b)) # 0
  BY HoldersFinite, FS_EmptySet
<1>2. Cardinality(Ion!Holders(b)') = Cardinality(Ion!Holders(b)) - 1
  BY HoldersFinite, FS_RemoveElement
<1>3. IsFiniteSet(Ion!Holders(b)')
  BY HoldersFinite, FS_RemoveElement
<1>4. Cardinality(Ion!Holders(b)') = 0 <=> Ion!Holders(b)' = {}
  BY <1>3, FS_EmptySet
<1> QED
  BY <1>1, <1>2, <1>4, HoldersFinite

\* A reference changes hands: the count stays.
LEMMA HolderSwapped ==
  ASSUME NEW b, NEW x, NEW y, x \in Ion!Holders(b), y \notin Ion!Holders(b),
         Ion!Holders(b)' = (Ion!Holders(b) \ {x}) \cup {y}
  PROVE  Cardinality(Ion!Holders(b)') = Cardinality(Ion!Holders(b))
<1>1. IsFiniteSet(Ion!Holders(b) \ {x}) /\ Cardinality(Ion!Holders(b) \ {x}) = Cardinality(Ion!Holders(b)) - 1
  BY HoldersFinite, FS_RemoveElement
<1>2. y \notin Ion!Holders(b) \ {x}
  OBVIOUS
<1>3. Cardinality(Ion!Holders(b)') = Cardinality(Ion!Holders(b) \ {x}) + 1
  BY <1>1, <1>2, FS_AddElement
<1> QED
  BY <1>1, <1>3, HoldersFinite

\* Lengths are natural numbers.
LEMMA SizeNat == Ion!TypeOK => \A b \in IonBufs : iBuf[b].size \in Nat
<1> SUFFICES ASSUME Ion!TypeOK, NEW b \in IonBufs PROVE iBuf[b].size \in Nat
  OBVIOUS
<1>1. iBuf[b].size \in Sizes \cup {0}
  BY DEF Ion!TypeOK
<1>2. \A n \in Sizes \cup {0} : n \in Nat
  OBVIOUS
<1> QED
  BY <1>1, <1>2, Zenon

\* So is what a buffer takes of the budget.
LEMMA SizeType == Ion!TypeOK => \A b \in IonBufs : Ion!Share(b) \in Nat
BY SizeNat DEF Ion!Share

\* The pages of one allocation are as many as its size.
LEMMA PagesOfBuffer ==
  ASSUME NEW b, NEW n \in Nat
  PROVE  IsFiniteSet({b} \X (1 .. n)) /\ Cardinality({b} \X (1 .. n)) = n
<1>1. IsFiniteSet(1 .. n) /\ Cardinality(1 .. n) = n
  BY FS_Interval
<1>2. IsFiniteSet({b}) /\ Cardinality({b}) = 1
  BY FS_Singleton
<1>3. /\ IsFiniteSet({b} \X (1 .. n))
      /\ Cardinality({b} \X (1 .. n)) = Cardinality({b}) * Cardinality(1 .. n)
  BY <1>1, <1>2, FS_Product, Zenon
<1>4. Cardinality({b}) * Cardinality(1 .. n) = n
  BY <1>1, <1>2
<1> QED
  BY <1>3, <1>4, Zenon

\* The counted pages are finitely many.
LEMMA PagesFinite ==
  ASSUME Ion!TypeOK
  PROVE  IsFiniteSet(Ion!CountedPages) /\ Cardinality(Ion!CountedPages) \in Nat
<1> DEFINE P(b) == {b} \X (1 .. Ion!Share(b))
           Ps == {P(b) : b \in IonBufs}
<1>1. \A b \in IonBufs : IsFiniteSet(P(b))
  BY SizeType, PagesOfBuffer
<1>2. IsFiniteSet(Ps)
  <2> DEFINE f == [b \in IonBufs |-> P(b)]
  <2>1. f \in Surjection(IonBufs, Ps)
    BY DEF Surjection
  <2> QED
    BY <2>1, FS_Surjection
<1>3. IsFiniteSet(UNION Ps)
  BY <1>1, <1>2, FS_UNION
<1>4. Ion!CountedPages = UNION Ps
  BY DEF Ion!CountedPages
<1> QED
  BY <1>3, <1>4, FS_CardinalityType

\* The shares give the pages.
LEMMA PagesSame ==
  ASSUME \A c \in IonBufs : Ion!Share(c)' = Ion!Share(c)
  PROVE  Ion!CountedPages' = Ion!CountedPages
BY DEF Ion!CountedPages

\* An allocation that is counted adds its size to the pages in use.
LEMMA PagesAdded ==
  ASSUME Ion!TypeOK, NEW b \in IonBufs, NEW n \in Nat, Ion!Share(b) = 0, Ion!Share(b)' = n,
         \A c \in IonBufs : c # b => Ion!Share(c)' = Ion!Share(c)
  PROVE  Cardinality(Ion!CountedPages') = Cardinality(Ion!CountedPages) + n
<1> DEFINE B == {b} \X (1 .. n)
<1>1. Ion!CountedPages \cap B = {} /\ Ion!CountedPages' = Ion!CountedPages \cup B
  BY DEF Ion!CountedPages
<1>2. IsFiniteSet(B) /\ Cardinality(B) = n
  BY PagesOfBuffer
<1> HIDE DEF B
<1>3. IsFiniteSet(Ion!CountedPages) /\ Cardinality(Ion!CountedPages) \in Nat
  BY PagesFinite
<1>4. Cardinality(Ion!CountedPages \cap B) = 0
  BY <1>1, FS_EmptySet
<1>5. Cardinality(Ion!CountedPages \cup B)
        = Cardinality(Ion!CountedPages) + Cardinality(B) - Cardinality(Ion!CountedPages \cap B)
  BY <1>2, <1>3, FS_Union, Zenon
<1> QED
  BY <1>1, <1>2, <1>3, <1>4, <1>5

\* One that is given back takes its size off, and was part of the count.
LEMMA PagesDropped ==
  ASSUME Ion!TypeOK, NEW b \in IonBufs, NEW n \in Nat, Ion!Share(b) = n, Ion!Share(b)' = 0,
         \A c \in IonBufs : c # b => Ion!Share(c)' = Ion!Share(c)
  PROVE  /\ Cardinality(Ion!CountedPages') = Cardinality(Ion!CountedPages) - n
         /\ n <= Cardinality(Ion!CountedPages)
<1> DEFINE B == {b} \X (1 .. n)
<1>1. Ion!CountedPages \cap B = B /\ B \in SUBSET Ion!CountedPages /\ Ion!CountedPages' = Ion!CountedPages \ B
  BY DEF Ion!CountedPages
<1>2. IsFiniteSet(B) /\ Cardinality(B) = n
  BY PagesOfBuffer
<1> HIDE DEF B
<1>3. IsFiniteSet(Ion!CountedPages) /\ Cardinality(Ion!CountedPages) \in Nat
  BY PagesFinite
<1>4. Cardinality(Ion!CountedPages \ B) = Cardinality(Ion!CountedPages) - n
  BY <1>1, <1>2, <1>3, FS_Difference
<1>5. n <= Cardinality(Ion!CountedPages)
  BY <1>1, <1>2, <1>3, FS_Subset
<1> QED
  BY <1>1, <1>4, <1>5

-----------------------------------------------------------------------------
\* The first state satisfies the invariant.
LEMMA IonInit == Ion!Init => IonInv
<1> SUFFICES ASSUME Ion!Init PROVE IonInv
  OBVIOUS
<1>1. Ion!TypeOK
  BY DEF Ion!Init, Ion!TypeOK, Ion!NoBuf, Ion!NoDb, Ion!Idle, Ion!Pcs
<1>2. \A b \in IonBufs : Ion!Holders(b) = {}
  BY DEF Ion!Init, Ion!Holders, Ion!NoDb, Ion!Idle
<1>3. Ion!HeldMemoryStays
  BY IonCardinality, <1>2, FS_EmptySet DEF Ion!HeldMemoryStays, Ion!Init
<1>4. Ion!CountedPages = {}
  BY DEF Ion!CountedPages, Ion!Share, Ion!Init, Ion!NoBuf, Ion!Idle
<1>5. Ion!UsedBytesExact
  BY IonCardinality, <1>4, FS_EmptySet DEF Ion!UsedBytesExact, Ion!Init
<1>6. CallsInv /\ EndsInv
  BY DEF Ion!Init, CallsInv, EndsInv, Ion!At, Ion!Idle
<1>7. BufsInv
  BY <1>2 DEF Ion!Init, BufsInv, Ion!NoBuf, Ion!Idle
<1> QED
  BY <1>1, <1>3, <1>5, <1>6, <1>7 DEF IonInv, DbsInv, ExitInv, Ion!Init

\* A caller inside the module works on a buffer that is there.
LEMMA CallFacts ==
  ASSUME IonInv, NEW t \in Threads, th[t].pc # "idle"
  PROVE  /\ loaded
         /\ th[t].buf \in IonBufs
         /\ iBuf[th[t].buf].size # 0 /\ iBuf[th[t].buf].size \in Nat
         /\ th[t].pc \notin {"fd", "release"} => th[t].db = Null
<1>1. loaded /\ th[t].buf \in IonBufs /\ (th[t].pc \notin {"fd", "release"} => th[t].db = Null)
  BY DEF IonInv, CallsInv, ExitInv, Ion!At
<1> QED
  BY <1>1, SizeNat DEF IonInv, BufsInv

\* Who makes a buffer or gives it back is alone with it.
LEMMA MakerFacts ==
  ASSUME IonInv, NEW t \in Threads, NEW b \in IonBufs, th[t].buf = b
  PROVE  /\ th[t].pc \in {"dma", "free", "account"} =>
              Ion!Holders(b) = {} /\ (iBuf[b].backed <=> th[t].pc = "free")
         /\ th[t].pc = "add" => Ion!Holders(b) = {t}
         /\ th[t].pc \in {"dma", "add", "free", "account"} =>
              \A u \in Threads : u # t => th[u].buf # b
BY DEF IonInv, EndsInv, Ion!At

\* A buffer with a holder that is not still making it is there, and nobody
\* makes it or gives it back.
LEMMA HeldFacts ==
  ASSUME IonInv, NEW b \in IonBufs, NEW x \in Ion!Holders(b), x \in Threads => th[x].pc # "add"
  PROVE  /\ iBuf[b].size # 0 /\ iBuf[b].backed
         /\ \A u \in Threads : th[u].buf = b => th[u].pc \notin {"dma", "add", "free", "account"}
<1>1. iBuf[b].size # 0 /\ iBuf[b].backed
  BY DEF IonInv, BufsInv, Ion!HeldMemoryStays
<1> QED
  BY <1>1, MakerFacts

\* A dma-buf a thread is exporting or releasing is one that is there.
LEMMA CallsDb ==
  ASSUME IonInv, NEW t \in Threads, th[t].db # Null
  PROVE  th[t].buf \in IonBufs /\ db[th[t].db].buf = th[t].buf
BY DEF IonInv, CallsInv, Ion!At, Ion!Idle

\* A thread that does not make or give back its buffer holds it, itself or
\* through its dma-buf.
LEMMA UserFacts ==
  ASSUME IonInv, NEW t \in Threads, NEW b \in IonBufs, th[t].buf = b,
         th[t].pc \notin {"dma", "free", "account"}
  PROVE  t \in Ion!Holders(b) \/ \E d \in Dbs : d \in Ion!Holders(b)
<1>1. CASE th[t].pc \in {"add", "put", "export"}
  BY <1>1 DEF Ion!Holders
<1>2. CASE th[t].pc \in {"fd", "release"}
  <2>1. th[t].db \in Dbs /\ db[th[t].db].buf = b
    <3>1. th[t].db # Null /\ db[th[t].db].buf = th[t].buf
      BY <1>2 DEF IonInv, CallsInv
    <3>2. th[t].db \in Dbs \cup {Null}
      BY DEF IonInv, Ion!TypeOK
    <3> QED
      BY <3>1, <3>2
  <2> QED
    BY <2>1 DEF Ion!Holders
<1>3. CASE th[t].pc = "idle"
  <2>1. th[t] = Ion!Idle
    BY <1>3 DEF IonInv, CallsInv, Ion!At
  <2>2. Ion!Idle.buf = Null
    BY DEF Ion!Idle
  <2> QED
    BY <2>1, <2>2
<1> QED
  BY <1>1, <1>2, <1>3 DEF IonInv, Ion!TypeOK, Ion!Pcs

\* An allocation begins.
LEMMA AllocCheckInv ==
  ASSUME IonInv, NEW t \in Threads, NEW b \in IonBufs, NEW n \in Sizes,
         Ion!AllocCheck(t, b, n)
  PROVE  IonInv'
<1> USE DEF IonInv
<1>a. iBuf[b].size = 0 /\ Ion!At(t, "idle")
  BY DEF Ion!AllocCheck, Ion!NoBuf
<1>1. /\ th[t] = Ion!Idle /\ iBuf[b].size = 0
      /\ Ion!Holders(b) = {} /\ \A u \in Threads : th[u].buf # b
  BY <1>a DEF CallsInv, BufsInv
<1>2. /\ th'[t].pc = "dma" /\ th'[t].buf = b /\ th'[t].db = Null
      /\ \A u \in Threads : u # t => th'[u] = th[u]
      /\ iBuf'[b].size = n /\ n # 0 /\ ~iBuf'[b].backed
      /\ \A c \in IonBufs : c # b => iBuf'[c] = iBuf[c]
      /\ loaded /\ UNCHANGED <<loaded, list, iRef, inuse, db>>
  BY DEF Ion!AllocCheck, Ion!TypeOK, Ion!NoBuf
<1>3. \A c \in IonBufs : Ion!Holders(c)' = Ion!Holders(c)
  BY <1>1, <1>2 DEF Ion!Holders, Ion!Idle
<1>4. Ion!HeldMemoryStays'
  BY <1>1, <1>2, <1>3 DEF Ion!HeldMemoryStays
<1>5. Ion!CountedPages' = Ion!CountedPages
  <2>1. \A c \in IonBufs : Ion!Share(c)' = Ion!Share(c)
    BY <1>1, <1>2 DEF Ion!Share, Ion!Idle
  <2> QED
    BY <2>1, PagesSame
<1>6. Ion!UsedBytesExact' /\ inuse' \in Nat
  BY <1>2, <1>5 DEF Ion!UsedBytesExact, Ion!TypeOK
<1>7. Ion!TypeOK'
  BY DEF Ion!AllocCheck, Ion!TypeOK, Ion!Pcs
<1>8. CallsInv'
  BY <1>1, <1>2 DEF CallsInv, Ion!At, Ion!Idle
<1>9. EndsInv'
  BY <1>1, <1>2, <1>3 DEF EndsInv, CallsInv, Ion!At, Ion!Idle
<1>10. BufsInv'
  BY <1>1, <1>2, <1>3 DEF BufsInv, CallsInv, Ion!Idle
<1>11. DbsInv' /\ ExitInv'
  BY <1>1, <1>2 DEF DbsInv, ExitInv, Ion!At, Ion!NoDb
<1> QED
  BY <1>4, <1>6, <1>7, <1>8, <1>9, <1>10, <1>11

\* The memory of an allocation is there.
LEMMA AllocDmaOkInv ==
  ASSUME IonInv, NEW t \in Threads, Ion!AllocDma(t, TRUE)
  PROVE  IonInv'
<1> USE DEF IonInv
<1> PICK b \in IonBufs : b = th[t].buf
  BY DEF Ion!AllocDma, CallsInv, Ion!At
<1>1. /\ th[t].pc = "dma" /\ th[t].buf = b /\ th[t].db = Null
      /\ Ion!Holders(b) = {} /\ iBuf[b].size # 0
      /\ \A u \in Threads : u # t => th[u].buf # b
  BY CallFacts, MakerFacts DEF Ion!AllocDma, Ion!At
<1>2. /\ th'[t].pc = "add" /\ th'[t].buf = b /\ th'[t].db = Null
      /\ \A u \in Threads : u # t => th'[u] = th[u]
      /\ iBuf'[b].size = iBuf[b].size /\ iBuf'[b].backed
      /\ \A c \in IonBufs : c # b => iBuf'[c] = iBuf[c]
      /\ iRef'[b] = 1 /\ \A c \in IonBufs : c # b => iRef'[c] = iRef[c]
      /\ UNCHANGED <<loaded, list, inuse, db>>
  BY SMTT(30), <1>1 DEF Ion!AllocDma, Ion!TypeOK, Ion!Goto
<1>3. /\ Ion!Holders(b)' = {t}
      /\ \A c \in IonBufs : c # b => Ion!Holders(c)' = Ion!Holders(c)
  BY <1>1, <1>2 DEF Ion!Holders, Ion!Idle
<1>4. Ion!HeldMemoryStays'
  <2>1. Cardinality(Ion!Holders(b)') = 1
    BY <1>3, FS_Singleton
  <2> QED
    BY IonCardinality, <1>1, <1>2, <1>3, <2>1 DEF Ion!HeldMemoryStays
<1>5. Ion!CountedPages' = Ion!CountedPages
  <2>1. \A c \in IonBufs : Ion!Share(c)' = Ion!Share(c)
    BY <1>1, <1>2 DEF Ion!Share, Ion!Idle
  <2> QED
    BY <2>1, PagesSame
<1>6. Ion!UsedBytesExact' /\ inuse' \in Nat
  BY <1>2, <1>5 DEF Ion!UsedBytesExact, Ion!TypeOK
<1>7. Ion!TypeOK'
  <2>1. iBuf' \in [IonBufs -> [size : Sizes \cup {0}, backed : BOOLEAN]]
    <3>1. iBuf' = [iBuf EXCEPT ![b] = [iBuf[b] EXCEPT !.backed = TRUE]]
      BY <1>1 DEF Ion!AllocDma
    <3>2. [iBuf[b] EXCEPT !.backed = TRUE] \in [size : Sizes \cup {0}, backed : BOOLEAN]
      <4>1. iBuf[b] \in [size : Sizes \cup {0}, backed : BOOLEAN]
        BY DEF Ion!TypeOK
      <4> QED
        BY <4>1
    <3> QED
      BY <3>1, <3>2 DEF Ion!TypeOK
  <2>2. th' \in [Threads -> [pc : Ion!Pcs, buf : IonBufs \cup {Null}, db : Dbs \cup {Null}]]
    BY <1>1 DEF Ion!AllocDma, Ion!TypeOK, Ion!Goto, Ion!Pcs
  <2>3. iRef' \in [IonBufs -> Nat]
    BY <1>1 DEF Ion!AllocDma, Ion!TypeOK
  <2> QED
    BY <1>2, <2>1, <2>2, <2>3 DEF Ion!TypeOK
<1>8. CallsInv'
  BY <1>1, <1>2 DEF CallsInv, Ion!At, Ion!Idle
<1>9. EndsInv'
  BY SMTT(30), <1>1, <1>2, <1>3 DEF EndsInv, CallsInv, Ion!At, Ion!Idle
<1>10. BufsInv'
  BY <1>1, <1>2, <1>3 DEF BufsInv, CallsInv, Ion!Idle
<1>11. DbsInv' /\ ExitInv'
  BY <1>1, <1>2 DEF DbsInv, ExitInv, Ion!At
<1> QED
  BY <1>4, <1>6, <1>7, <1>8, <1>9, <1>10, <1>11

\* There is no memory: the allocation is undone.
LEMMA AllocDmaFailsInv ==
  ASSUME IonInv, NEW t \in Threads, Ion!AllocDma(t, FALSE)
  PROVE  IonInv'
<1> USE DEF IonInv
<1> PICK b \in IonBufs : b = th[t].buf
  BY DEF Ion!AllocDma, CallsInv, Ion!At
<1>1. /\ th[t].pc = "dma" /\ th[t].buf = b /\ th[t].db = Null
      /\ Ion!Holders(b) = {} /\ iBuf[b].size # 0
      /\ \A u \in Threads : u # t => th[u].buf # b
  BY CallFacts, MakerFacts DEF Ion!AllocDma, Ion!At
<1>2. /\ th'[t] = Ion!Idle
      /\ \A u \in Threads : u # t => th'[u] = th[u]
      /\ iBuf'[b].size = 0 /\ ~iBuf'[b].backed
      /\ \A c \in IonBufs : c # b => iBuf'[c] = iBuf[c]
      /\ UNCHANGED <<loaded, list, iRef, inuse, db>>
  BY <1>1 DEF Ion!AllocDma, Ion!TypeOK, Ion!Done, Ion!NoBuf
<1>3. \A c \in IonBufs : Ion!Holders(c)' = Ion!Holders(c)
  BY <1>1, <1>2 DEF Ion!Holders, Ion!Idle
<1>4. Ion!HeldMemoryStays'
  BY <1>1, <1>2, <1>3 DEF Ion!HeldMemoryStays
<1>5. Ion!CountedPages' = Ion!CountedPages
  <2>1. \A c \in IonBufs : Ion!Share(c)' = Ion!Share(c)
    BY <1>1, <1>2 DEF Ion!Share, Ion!Idle
  <2> QED
    BY <2>1, PagesSame
<1>6. Ion!UsedBytesExact' /\ inuse' \in Nat
  BY <1>2, <1>5 DEF Ion!UsedBytesExact, Ion!TypeOK
<1>7. Ion!TypeOK'
  <2>1. iBuf' \in [IonBufs -> [size : Sizes \cup {0}, backed : BOOLEAN]]
    <3>1. iBuf' = [iBuf EXCEPT ![b] = Ion!NoBuf]
      BY <1>1 DEF Ion!AllocDma
    <3>2. Ion!NoBuf \in [size : Sizes \cup {0}, backed : BOOLEAN]
      BY DEF Ion!TypeOK, Ion!NoBuf
    <3> QED
      BY <3>1, <3>2 DEF Ion!TypeOK
  <2>2. th' \in [Threads -> [pc : Ion!Pcs, buf : IonBufs \cup {Null}, db : Dbs \cup {Null}]]
    BY <1>1 DEF Ion!AllocDma, Ion!TypeOK, Ion!Done, Ion!Pcs, Ion!Idle
  <2>3. iRef' \in [IonBufs -> Nat]
    BY <1>1 DEF Ion!AllocDma, Ion!TypeOK
  <2> QED
    BY <1>2, <2>1, <2>2, <2>3 DEF Ion!TypeOK
<1>8. CallsInv'
  BY <1>1, <1>2 DEF CallsInv, Ion!At, Ion!Idle
<1>9. EndsInv'
  BY <1>1, <1>2, <1>3 DEF EndsInv, CallsInv, Ion!At, Ion!Idle
<1>10. BufsInv'
  BY <1>1, <1>2, <1>3 DEF BufsInv, CallsInv, Ion!Idle
<1>11. DbsInv' /\ ExitInv'
  BY <1>1, <1>2 DEF DbsInv, ExitInv, Ion!At
<1> QED
  BY <1>4, <1>6, <1>7, <1>8, <1>9, <1>10, <1>11

\* The allocation goes on the list and is counted.
LEMMA AllocAddInv ==
  ASSUME IonInv, NEW t \in Threads, Ion!AllocAdd(t)
  PROVE  IonInv'
<1> USE DEF IonInv
<1> PICK b \in IonBufs : b = th[t].buf
  BY DEF Ion!AllocAdd, CallsInv, Ion!At
<1>1. /\ th[t].pc = "add" /\ th[t].buf = b /\ th[t].db = Null
      /\ Ion!Holders(b) = {t} /\ iBuf[b].size # 0 /\ iBuf[b].size \in Nat
      /\ \A u \in Threads : u # t => th[u].buf # b
  BY CallFacts, MakerFacts DEF Ion!AllocAdd, Ion!At
<1>2. /\ th'[t] = Ion!Idle
      /\ \A u \in Threads : u # t => th'[u] = th[u]
      /\ list' = list \cup {b} /\ inuse' = inuse + iBuf[b].size
      /\ UNCHANGED <<loaded, iBuf, iRef, db>>
  BY <1>1 DEF Ion!AllocAdd, Ion!TypeOK, Ion!Done
<1>3. /\ Ion!Holders(b)' = {"list"}
      /\ \A c \in IonBufs : c # b => Ion!Holders(c)' = Ion!Holders(c)
  BY <1>1, <1>2 DEF Ion!Holders, Ion!Idle
<1>4. Ion!HeldMemoryStays'
  <2>1. Cardinality(Ion!Holders(b)') = 1 /\ Cardinality(Ion!Holders(b)) = 1
    BY <1>1, <1>3, FS_Singleton
  <2> QED
    BY IonCardinality, <1>1, <1>2, <1>3, <2>1 DEF Ion!HeldMemoryStays
<1>5. Cardinality(Ion!CountedPages') = Cardinality(Ion!CountedPages) + iBuf[b].size
  <2>1. Ion!Share(b) = 0 /\ Ion!Share(b)' = iBuf[b].size /\ \A c \in IonBufs : c # b => Ion!Share(c)' = Ion!Share(c)
    BY <1>1, <1>2 DEF Ion!Share, Ion!Idle
  <2> QED
    BY <1>1, <2>1, PagesAdded
<1>6. Ion!UsedBytesExact' /\ inuse' \in Nat
  BY IonCardinality, <1>1, <1>2, <1>5, PagesFinite DEF Ion!UsedBytesExact, Ion!TypeOK
<1>7. Ion!TypeOK'
  BY <1>1, <1>2, <1>6 DEF Ion!AllocAdd, Ion!TypeOK, Ion!Done, Ion!Pcs, Ion!Idle
<1>8. CallsInv'
  BY <1>1, <1>2 DEF CallsInv, Ion!At, Ion!Idle
<1>9. EndsInv'
  BY SMTT(30), <1>1, <1>2, <1>3 DEF EndsInv, CallsInv, Ion!At, Ion!Idle
<1>10. BufsInv'
  BY <1>1, <1>2, <1>3 DEF BufsInv, CallsInv, Ion!Idle
<1>11. DbsInv' /\ ExitInv'
  BY <1>1, <1>2 DEF DbsInv, ExitInv, Ion!At
<1> QED
  BY <1>4, <1>6, <1>7, <1>8, <1>9, <1>10, <1>11

\* The owner takes its buffer off the list.
LEMMA FreeDelInv ==
  ASSUME IonInv, NEW t \in Threads, NEW b \in IonBufs, Ion!FreeDel(t, b)
  PROVE  IonInv'
<1> USE DEF IonInv
<1>1. /\ th[t] = Ion!Idle /\ loaded
      /\ t \notin Ion!Holders(b) /\ "list" \in Ion!Holders(b)
      /\ iBuf[b].size # 0
      /\ \A u \in Threads : th[u].buf = b => th[u].pc \notin {"dma", "add", "free", "account"}
  <2>1. loaded /\ th[t] = Ion!Idle /\ b \in list
    BY DEF Ion!FreeDel, CallsInv
  <2>2. t \notin Ion!Holders(b) /\ "list" \in Ion!Holders(b)
    BY <2>1 DEF Ion!Holders, Ion!Idle
  <2> QED
    BY <2>1, <2>2, HeldFacts
<1>2. /\ th'[t].pc = "put" /\ th'[t].buf = b /\ th'[t].db = Null
      /\ \A u \in Threads : u # t => th'[u] = th[u]
      /\ list' = list \ {b}
      /\ UNCHANGED <<loaded, iBuf, iRef, inuse, db>>
  BY <1>1 DEF Ion!FreeDel, Ion!TypeOK
<1>3. /\ Ion!Holders(b)' = (Ion!Holders(b) \ {"list"}) \cup {t}
      /\ \A c \in IonBufs : c # b => Ion!Holders(c)' = Ion!Holders(c)
  BY <1>1, <1>2 DEF Ion!Holders, Ion!Idle
<1>4. Ion!HeldMemoryStays'
  BY IonCardinality, <1>1, <1>2, <1>3, HolderSwapped DEF Ion!HeldMemoryStays
<1>5. Ion!CountedPages' = Ion!CountedPages
  <2>1. \A c \in IonBufs : Ion!Share(c)' = Ion!Share(c)
    BY <1>1, <1>2 DEF Ion!Share, Ion!Idle
  <2> QED
    BY <2>1, PagesSame
<1>6. Ion!UsedBytesExact' /\ inuse' \in Nat
  BY <1>2, <1>5 DEF Ion!UsedBytesExact, Ion!TypeOK
<1>7. Ion!TypeOK'
  BY <1>1 DEF Ion!FreeDel, Ion!TypeOK, Ion!Pcs
<1>8. CallsInv'
  BY <1>1, <1>2 DEF CallsInv, Ion!At, Ion!Idle
<1>9. EndsInv'
  BY <1>1, <1>2, <1>3 DEF EndsInv, CallsInv, Ion!At, Ion!Idle
<1>10. BufsInv'
  BY <1>1, <1>2, <1>3 DEF BufsInv, CallsInv, Ion!Idle
<1>11. DbsInv' /\ ExitInv'
  BY <1>1, <1>2 DEF DbsInv, ExitInv, Ion!At
<1> QED
  BY <1>4, <1>6, <1>7, <1>8, <1>9, <1>10, <1>11

\* A reference is put, and the last put starts the release.
LEMMA KrefPutInv ==
  ASSUME IonInv, NEW t \in Threads, Ion!KrefPut(t)
  PROVE  IonInv'
<1> USE DEF IonInv
<1> PICK b \in IonBufs : b = th[t].buf
  BY DEF Ion!KrefPut, CallsInv, Ion!At
<1>1. /\ th[t].pc = "put" /\ th[t].buf = b /\ th[t].db = Null
      /\ t \in Ion!Holders(b) /\ iBuf[b].size # 0 /\ iBuf[b].backed
      /\ \A u \in Threads : th[u].buf = b => th[u].pc \notin {"dma", "add", "free", "account"}
      /\ iRef[b] = Cardinality(Ion!Holders(b))
  <2>1. th[t].pc = "put" /\ th[t].buf = b
    BY DEF Ion!KrefPut, Ion!At
  <2>2. t \in Ion!Holders(b)
    BY <2>1 DEF Ion!Holders
  <2> QED
    BY IonCardinality, <2>1, <2>2, CallFacts, HeldFacts DEF Ion!HeldMemoryStays
<1>2. /\ IF iRef[b] = 1 THEN th'[t].pc = "free" /\ th'[t].buf = b /\ th'[t].db = Null ELSE th'[t] = Ion!Idle
      /\ \A u \in Threads : u # t => th'[u] = th[u]
      /\ iRef'[b] = iRef[b] - 1 /\ \A c \in IonBufs : c # b => iRef'[c] = iRef[c]
      /\ UNCHANGED <<loaded, iBuf, list, inuse, db>>
  BY <1>1 DEF Ion!KrefPut, Ion!TypeOK, Ion!Goto, Ion!Done
<1>3. /\ Ion!Holders(b)' = Ion!Holders(b) \ {t}
      /\ \A c \in IonBufs : c # b => Ion!Holders(c)' = Ion!Holders(c)
      /\ Cardinality(Ion!Holders(b)') = iRef[b] - 1 /\ iRef[b] # 0
      /\ iRef[b] = 1 <=> Ion!Holders(b)' = {}
  <2>1. /\ Ion!Holders(b)' = Ion!Holders(b) \ {t}
        /\ \A c \in IonBufs : c # b => Ion!Holders(c)' = Ion!Holders(c)
    BY <1>1, <1>2 DEF Ion!Holders, Ion!Idle
  <2> QED
    BY <1>1, <2>1, HolderDropped
<1>4. Ion!HeldMemoryStays'
  BY IonCardinality, <1>1, <1>2, <1>3 DEF Ion!HeldMemoryStays
<1>5. Ion!CountedPages' = Ion!CountedPages
  <2>1. \A c \in IonBufs : Ion!Share(c)' = Ion!Share(c)
    BY <1>1, <1>2 DEF Ion!Share, Ion!Idle
  <2> QED
    BY <2>1, PagesSame
<1>6. Ion!UsedBytesExact' /\ inuse' \in Nat
  BY <1>2, <1>5 DEF Ion!UsedBytesExact, Ion!TypeOK
<1>7. Ion!TypeOK'
  <2>1. iRef' \in [IonBufs -> Nat]
    BY <1>1, <1>3 DEF Ion!KrefPut, Ion!TypeOK
  <2>2. th' \in [Threads -> [pc : Ion!Pcs, buf : IonBufs \cup {Null}, db : Dbs \cup {Null}]]
    BY <1>1 DEF Ion!KrefPut, Ion!TypeOK, Ion!Goto, Ion!Done, Ion!Pcs, Ion!Idle
  <2> QED
    BY <1>2, <2>1, <2>2 DEF Ion!TypeOK
<1>8. CallsInv'
  BY <1>1, <1>2 DEF CallsInv, Ion!At, Ion!Idle
<1>9. EndsInv'
  <2> SUFFICES ASSUME NEW u \in Threads, NEW c \in IonBufs, th'[u].buf = c
               PROVE  /\ th'[u].pc \in {"dma", "add", "free", "account"} =>
                           \A v \in Threads : th'[v].buf = c => v = u
                      /\ th'[u].pc \in {"dma", "free", "account"} =>
                           Ion!Holders(c)' = {} /\ (iBuf'[c].backed <=> th'[u].pc = "free")
                      /\ th'[u].pc = "add" => Ion!Holders(c)' = {u}
    BY DEF EndsInv, Ion!At
  <2>1. CASE u = t /\ iRef[b] = 1
    <3>1. \A v \in Threads : v # t => th[v].buf # b
      BY <2>1, <1>1, <1>3, UserFacts
    <3> QED
      BY <2>1, <1>1, <1>2, <1>3, <3>1
  <2>2. CASE u = t /\ iRef[b] # 1
    BY <2>2, <1>1, <1>2, <1>3 DEF Ion!Idle
  <2>3. CASE u # t
    BY <2>3, <1>1, <1>2, <1>3 DEF EndsInv, CallsInv, Ion!At, Ion!Idle
  <2> QED
    BY <2>1, <2>2, <2>3
<1>10. BufsInv'
  BY <1>1, <1>2, <1>3 DEF BufsInv, CallsInv, Ion!Idle
<1>11. DbsInv' /\ ExitInv'
  BY <1>1, <1>2 DEF DbsInv, ExitInv, Ion!At
<1> QED
  BY <1>4, <1>6, <1>7, <1>8, <1>9, <1>10, <1>11

\* The memory goes back.
LEMMA ReleaseMemoryInv ==
  ASSUME IonInv, NEW t \in Threads, Ion!ReleaseMemory(t)
  PROVE  IonInv'
<1> USE DEF IonInv
<1> PICK b \in IonBufs : b = th[t].buf
  BY DEF Ion!ReleaseMemory, CallsInv, Ion!At
<1>1. /\ th[t].pc = "free" /\ th[t].buf = b /\ th[t].db = Null
      /\ Ion!Holders(b) = {} /\ iBuf[b].size # 0
      /\ \A u \in Threads : u # t => th[u].buf # b
  BY CallFacts, MakerFacts DEF Ion!ReleaseMemory, Ion!At
<1>2. /\ th'[t].pc = "account" /\ th'[t].buf = b /\ th'[t].db = Null
      /\ \A u \in Threads : u # t => th'[u] = th[u]
      /\ iBuf'[b].size = iBuf[b].size /\ ~iBuf'[b].backed
      /\ \A c \in IonBufs : c # b => iBuf'[c] = iBuf[c]
      /\ UNCHANGED <<loaded, list, iRef, inuse, db>>
  BY <1>1 DEF Ion!ReleaseMemory, Ion!TypeOK, Ion!Goto
<1>3. \A c \in IonBufs : Ion!Holders(c)' = Ion!Holders(c)
  BY <1>1, <1>2 DEF Ion!Holders, Ion!Idle
<1>4. Ion!HeldMemoryStays'
  BY <1>1, <1>2, <1>3 DEF Ion!HeldMemoryStays
<1>5. Ion!CountedPages' = Ion!CountedPages
  <2>1. \A c \in IonBufs : Ion!Share(c)' = Ion!Share(c)
    BY <1>1, <1>2 DEF Ion!Share, Ion!Idle
  <2> QED
    BY <2>1, PagesSame
<1>6. Ion!UsedBytesExact' /\ inuse' \in Nat
  BY <1>2, <1>5 DEF Ion!UsedBytesExact, Ion!TypeOK
<1>7. Ion!TypeOK'
  <2>1. iBuf' \in [IonBufs -> [size : Sizes \cup {0}, backed : BOOLEAN]]
    <3>1. iBuf' = [iBuf EXCEPT ![b] = [iBuf[b] EXCEPT !.backed = FALSE]]
      BY <1>1 DEF Ion!ReleaseMemory
    <3>2. [iBuf[b] EXCEPT !.backed = FALSE] \in [size : Sizes \cup {0}, backed : BOOLEAN]
      <4>1. iBuf[b] \in [size : Sizes \cup {0}, backed : BOOLEAN]
        BY DEF Ion!TypeOK
      <4> QED
        BY <4>1
    <3> QED
      BY <3>1, <3>2 DEF Ion!TypeOK
  <2>2. th' \in [Threads -> [pc : Ion!Pcs, buf : IonBufs \cup {Null}, db : Dbs \cup {Null}]]
    BY <1>1 DEF Ion!ReleaseMemory, Ion!TypeOK, Ion!Goto, Ion!Pcs
  <2>3. iRef' \in [IonBufs -> Nat]
    BY <1>1 DEF Ion!ReleaseMemory, Ion!TypeOK
  <2> QED
    BY <1>2, <2>1, <2>2, <2>3 DEF Ion!TypeOK
<1>8. CallsInv'
  BY <1>1, <1>2 DEF CallsInv, Ion!At, Ion!Idle
<1>9. EndsInv'
  BY <1>1, <1>2, <1>3 DEF EndsInv, CallsInv, Ion!At, Ion!Idle
<1>10. BufsInv'
  BY <1>1, <1>2, <1>3 DEF BufsInv, CallsInv, Ion!Idle
<1>11. DbsInv' /\ ExitInv'
  BY <1>1, <1>2 DEF DbsInv, ExitInv, Ion!At
<1> QED
  BY <1>4, <1>6, <1>7, <1>8, <1>9, <1>10, <1>11

\* The buffer's share of the budget goes back.
LEMMA ReleaseAccountInv ==
  ASSUME IonInv, NEW t \in Threads, Ion!ReleaseAccount(t)
  PROVE  IonInv'
<1> USE DEF IonInv
<1> PICK b \in IonBufs : b = th[t].buf
  BY DEF Ion!ReleaseAccount, CallsInv, Ion!At
<1>1. /\ th[t].pc = "account" /\ th[t].buf = b /\ th[t].db = Null /\ loaded
      /\ Ion!Holders(b) = {} /\ iBuf[b].size # 0 /\ iBuf[b].size \in Nat /\ ~iBuf[b].backed
      /\ \A u \in Threads : u # t => th[u].buf # b
  BY CallFacts, MakerFacts DEF Ion!ReleaseAccount, Ion!At
<1>2. /\ th'[t] = Ion!Idle
      /\ \A u \in Threads : u # t => th'[u] = th[u]
      /\ iBuf'[b].size = 0 /\ ~iBuf'[b].backed
      /\ \A c \in IonBufs : c # b => iBuf'[c] = iBuf[c]
      /\ inuse' = inuse - iBuf[b].size
      /\ UNCHANGED <<loaded, list, iRef, db>>
  BY <1>1 DEF Ion!ReleaseAccount, Ion!TypeOK, Ion!Done, Ion!NoBuf
<1>3. \A c \in IonBufs : Ion!Holders(c)' = Ion!Holders(c)
  BY <1>1, <1>2 DEF Ion!Holders, Ion!Idle
<1>4. Ion!HeldMemoryStays'
  BY <1>1, <1>2, <1>3 DEF Ion!HeldMemoryStays
<1>5. /\ Cardinality(Ion!CountedPages') = Cardinality(Ion!CountedPages) - iBuf[b].size
      /\ iBuf[b].size <= Cardinality(Ion!CountedPages)
  <2>1. Ion!Share(b) = iBuf[b].size /\ Ion!Share(b)' = 0 /\ \A c \in IonBufs : c # b => Ion!Share(c)' = Ion!Share(c)
    BY <1>1, <1>2 DEF Ion!Share, Ion!Idle
  <2> QED
    BY <1>1, <2>1, PagesDropped
<1>6. Ion!UsedBytesExact' /\ inuse' \in Nat
  BY IonCardinality, <1>1, <1>2, <1>5, PagesFinite DEF Ion!UsedBytesExact, Ion!TypeOK
<1>7. Ion!TypeOK'
  BY <1>1, <1>2, <1>6 DEF Ion!ReleaseAccount, Ion!TypeOK, Ion!Done, Ion!Pcs, Ion!Idle, Ion!NoBuf
<1>8. CallsInv'
  BY <1>1, <1>2 DEF CallsInv, Ion!At, Ion!Idle
<1>9. EndsInv'
  BY <1>1, <1>2, <1>3 DEF EndsInv, CallsInv, Ion!At, Ion!Idle
<1>10. BufsInv'
  BY <1>1, <1>2, <1>3 DEF BufsInv, CallsInv, Ion!Idle
<1>11. DbsInv' /\ ExitInv'
  BY <1>1, <1>2 DEF DbsInv, ExitInv, Ion!At
<1> QED
  BY <1>4, <1>6, <1>7, <1>8, <1>9, <1>10, <1>11

\* An export takes a reference of a buffer it finds on the list.
LEMMA ExportGetInv ==
  ASSUME IonInv, NEW t \in Threads, NEW b \in IonBufs, Ion!ExportGet(t, b)
  PROVE  IonInv'
<1> USE DEF IonInv
<1>1. /\ th[t] = Ion!Idle /\ loaded
      /\ t \notin Ion!Holders(b) /\ iBuf[b].size # 0 /\ iBuf[b].backed
      /\ \A u \in Threads : th[u].buf = b => th[u].pc \notin {"dma", "add", "free", "account"}
      /\ iRef[b] \in Nat /\ iRef[b] = Cardinality(Ion!Holders(b))
  <2>1. loaded /\ th[t] = Ion!Idle /\ b \in list
    BY DEF Ion!ExportGet, CallsInv
  <2>2. t \notin Ion!Holders(b) /\ "list" \in Ion!Holders(b)
    BY <2>1 DEF Ion!Holders, Ion!Idle
  <2> QED
    BY IonCardinality, <2>1, <2>2, HeldFacts DEF Ion!HeldMemoryStays, Ion!TypeOK
<1>2. /\ th'[t].pc = "export" /\ th'[t].buf = b /\ th'[t].db = Null
      /\ \A u \in Threads : u # t => th'[u] = th[u]
      /\ iRef'[b] = iRef[b] + 1 /\ \A c \in IonBufs : c # b => iRef'[c] = iRef[c]
      /\ UNCHANGED <<loaded, iBuf, list, inuse, db>>
  BY <1>1 DEF Ion!ExportGet, Ion!TypeOK
<1>3. /\ Ion!Holders(b)' = Ion!Holders(b) \cup {t}
      /\ \A c \in IonBufs : c # b => Ion!Holders(c)' = Ion!Holders(c)
  BY <1>1, <1>2 DEF Ion!Holders, Ion!Idle
<1>4. Ion!HeldMemoryStays'
  BY IonCardinality, <1>1, <1>2, <1>3, HolderAdded DEF Ion!HeldMemoryStays
<1>5. Ion!CountedPages' = Ion!CountedPages
  <2>1. \A c \in IonBufs : Ion!Share(c)' = Ion!Share(c)
    BY <1>1, <1>2 DEF Ion!Share, Ion!Idle
  <2> QED
    BY <2>1, PagesSame
<1>6. Ion!UsedBytesExact' /\ inuse' \in Nat
  BY <1>2, <1>5 DEF Ion!UsedBytesExact, Ion!TypeOK
<1>7. Ion!TypeOK'
  <2>1. th' \in [Threads -> [pc : Ion!Pcs, buf : IonBufs \cup {Null}, db : Dbs \cup {Null}]]
    BY <1>1 DEF Ion!ExportGet, Ion!TypeOK, Ion!Pcs
  <2>2. iRef' \in [IonBufs -> Nat]
    BY <1>1 DEF Ion!ExportGet, Ion!TypeOK
  <2> QED
    BY <1>2, <2>1, <2>2 DEF Ion!TypeOK
<1>8. CallsInv'
  BY <1>1, <1>2 DEF CallsInv, Ion!At, Ion!Idle
<1>9. EndsInv'
  BY <1>1, <1>2, <1>3 DEF EndsInv, CallsInv, Ion!At, Ion!Idle
<1>10. BufsInv'
  BY <1>1, <1>2, <1>3 DEF BufsInv, CallsInv, Ion!Idle
<1>11. DbsInv' /\ ExitInv'
  BY <1>1, <1>2 DEF DbsInv, ExitInv, Ion!At
<1> QED
  BY <1>4, <1>6, <1>7, <1>8, <1>9, <1>10, <1>11

\* The reference is handed to a dma-buf.
LEMMA ExportDmabufInv ==
  ASSUME IonInv, NEW t \in Threads, NEW d \in Dbs, Ion!ExportDmabuf(t, d)
  PROVE  IonInv'
<1> USE DEF IonInv
<1> PICK b \in IonBufs : b = th[t].buf
  BY DEF Ion!ExportDmabuf, CallsInv, Ion!At
<1>1. /\ th[t].pc = "export" /\ th[t].buf = b /\ th[t].db = Null /\ loaded
      /\ t \in Ion!Holders(b) /\ d \notin Ion!Holders(b) /\ db[d] = Ion!NoDb
      /\ iBuf[b].size # 0 /\ iBuf[b].backed
      /\ \A u \in Threads : th[u].db # d
      /\ \A u \in Threads : th[u].buf = b => th[u].pc \notin {"dma", "add", "free", "account"}
  <2>1. th[t].pc = "export" /\ th[t].buf = b /\ db[d] = Ion!NoDb
    BY DEF Ion!ExportDmabuf, Ion!At
  <2>2. Ion!NoDb.buf = Null /\ Null \notin IonBufs
    BY DEF Ion!NoDb
  <2>3. t \in Ion!Holders(b) /\ d \notin Ion!Holders(b)
    BY <2>1, <2>2 DEF Ion!Holders, Ion!TypeOK
  <2>4. \A u \in Threads : th[u].db # d
    BY <2>1, <2>2, CallsDb
  <2> QED
    BY <2>1, <2>3, <2>4, CallFacts, HeldFacts
<1>2. /\ th'[t].pc = "fd" /\ th'[t].buf = b /\ th'[t].db = d
      /\ \A u \in Threads : u # t => th'[u] = th[u]
      /\ db'[d].buf = b /\ db'[d].files = 1 /\ \A e \in Dbs : e # d => db'[e] = db[e]
      /\ UNCHANGED <<loaded, iBuf, list, iRef, inuse>>
  BY <1>1 DEF Ion!ExportDmabuf, Ion!TypeOK
<1>3. /\ Ion!Holders(b)' = (Ion!Holders(b) \ {t}) \cup {d}
      /\ \A c \in IonBufs : c # b => Ion!Holders(c)' = Ion!Holders(c)
  BY <1>1, <1>2 DEF Ion!Holders, Ion!NoDb
<1>4. Ion!HeldMemoryStays'
  BY IonCardinality, <1>1, <1>2, <1>3, HolderSwapped DEF Ion!HeldMemoryStays
<1>5. Ion!CountedPages' = Ion!CountedPages
  <2>1. \A c \in IonBufs : Ion!Share(c)' = Ion!Share(c)
    BY <1>1, <1>2 DEF Ion!Share, Ion!Idle
  <2> QED
    BY <2>1, PagesSame
<1>6. Ion!UsedBytesExact' /\ inuse' \in Nat
  BY <1>2, <1>5 DEF Ion!UsedBytesExact, Ion!TypeOK
<1>7. Ion!TypeOK'
  <2>1. th' \in [Threads -> [pc : Ion!Pcs, buf : IonBufs \cup {Null}, db : Dbs \cup {Null}]]
    BY <1>1 DEF Ion!ExportDmabuf, Ion!TypeOK, Ion!Pcs
  <2>2. db' \in [Dbs -> [buf : IonBufs \cup {Null}, files : 0 .. MaxFiles]]
    BY <1>1 DEF Ion!ExportDmabuf, Ion!TypeOK
  <2> QED
    BY <1>2, <2>1, <2>2 DEF Ion!TypeOK
<1>8. CallsInv'
  <2>1. \A u \in Threads : th[u].db \in Dbs \cup {Null}
    BY DEF Ion!TypeOK
  <2> QED
    BY <1>1, <1>2, <2>1 DEF CallsInv, Ion!At, Ion!Idle
<1>9. EndsInv'
  BY <1>1, <1>2, <1>3 DEF EndsInv, CallsInv, Ion!At, Ion!Idle
<1>10. BufsInv'
  BY <1>1, <1>2, <1>3 DEF BufsInv, CallsInv, Ion!Idle
<1>11. DbsInv' /\ ExitInv'
  BY <1>1, <1>2 DEF DbsInv, ExitInv, Ion!At, Ion!NoDb
<1> QED
  BY <1>4, <1>6, <1>7, <1>8, <1>9, <1>10, <1>11

\* The export fails and puts its reference.
LEMMA ExportFailsInv ==
  ASSUME IonInv, NEW t \in Threads, Ion!ExportFails(t)
  PROVE  IonInv'
<1> USE DEF IonInv
<1> PICK b \in IonBufs : b = th[t].buf
  BY DEF Ion!ExportFails, CallsInv, Ion!At
<1>1. /\ th[t].pc = "export" /\ th[t].buf = b /\ th[t].db = Null /\ loaded
  BY CallFacts DEF Ion!ExportFails, Ion!At
<1>2. /\ th'[t].pc = "put" /\ th'[t].buf = b /\ th'[t].db = Null
      /\ \A u \in Threads : u # t => th'[u] = th[u]
      /\ UNCHANGED <<loaded, iBuf, list, iRef, inuse, db>>
  BY <1>1 DEF Ion!ExportFails, Ion!TypeOK, Ion!Goto
<1>3. \A c \in IonBufs : Ion!Holders(c)' = Ion!Holders(c)
  BY <1>1, <1>2 DEF Ion!Holders
<1>4. Ion!HeldMemoryStays'
  BY <1>1, <1>2, <1>3 DEF Ion!HeldMemoryStays
<1>5. Ion!CountedPages' = Ion!CountedPages
  <2>1. \A c \in IonBufs : Ion!Share(c)' = Ion!Share(c)
    BY <1>1, <1>2 DEF Ion!Share, Ion!Idle
  <2> QED
    BY <2>1, PagesSame
<1>6. Ion!UsedBytesExact' /\ inuse' \in Nat
  BY <1>2, <1>5 DEF Ion!UsedBytesExact, Ion!TypeOK
<1>7. Ion!TypeOK'
  <2>1. th' \in [Threads -> [pc : Ion!Pcs, buf : IonBufs \cup {Null}, db : Dbs \cup {Null}]]
    BY <1>1 DEF Ion!ExportFails, Ion!TypeOK, Ion!Goto, Ion!Pcs
  <2>2. iRef' \in [IonBufs -> Nat]
    BY <1>1 DEF Ion!ExportFails, Ion!TypeOK
  <2> QED
    BY <1>2, <2>1, <2>2 DEF Ion!TypeOK
<1>8. CallsInv'
  BY <1>1, <1>2 DEF CallsInv, Ion!At, Ion!Idle
<1>9. EndsInv'
  BY <1>1, <1>2, <1>3 DEF EndsInv, CallsInv, Ion!At, Ion!Idle
<1>10. BufsInv'
  BY <1>1, <1>2, <1>3 DEF BufsInv, CallsInv, Ion!Idle
<1>11. DbsInv' /\ ExitInv'
  BY <1>1, <1>2 DEF DbsInv, ExitInv, Ion!At
<1> QED
  BY <1>4, <1>6, <1>7, <1>8, <1>9, <1>10, <1>11

\* The fd is installed: the dma-buf is user space's.
LEMMA ExportFdOkInv ==
  ASSUME IonInv, NEW t \in Threads, Ion!ExportFd(t, TRUE)
  PROVE  IonInv'
<1> USE DEF IonInv
<1> PICK b \in IonBufs : b = th[t].buf
  BY DEF Ion!ExportFd, CallsInv, Ion!At
<1>1. /\ th[t].pc = "fd" /\ th[t].buf = b /\ loaded
  BY CallFacts DEF Ion!ExportFd, Ion!At
<1>2. /\ th'[t] = Ion!Idle
      /\ \A u \in Threads : u # t => th'[u] = th[u]
      /\ UNCHANGED <<loaded, iBuf, list, iRef, inuse, db>>
  BY <1>1 DEF Ion!ExportFd, Ion!TypeOK, Ion!Done
<1>3. \A c \in IonBufs : Ion!Holders(c)' = Ion!Holders(c)
  BY <1>1, <1>2 DEF Ion!Holders, Ion!Idle
<1>4. Ion!HeldMemoryStays'
  BY <1>1, <1>2, <1>3 DEF Ion!HeldMemoryStays
<1>5. Ion!CountedPages' = Ion!CountedPages
  <2>1. \A c \in IonBufs : Ion!Share(c)' = Ion!Share(c)
    BY <1>1, <1>2 DEF Ion!Share, Ion!Idle
  <2> QED
    BY <2>1, PagesSame
<1>6. Ion!UsedBytesExact' /\ inuse' \in Nat
  BY <1>2, <1>5 DEF Ion!UsedBytesExact, Ion!TypeOK
<1>7. Ion!TypeOK'
  <2>1. th' \in [Threads -> [pc : Ion!Pcs, buf : IonBufs \cup {Null}, db : Dbs \cup {Null}]]
    BY <1>1 DEF Ion!ExportFd, Ion!TypeOK, Ion!Done, Ion!Pcs, Ion!Idle
  <2>2. iRef' \in [IonBufs -> Nat]
    BY <1>1 DEF Ion!ExportFd, Ion!TypeOK
  <2> QED
    BY <1>2, <2>1, <2>2 DEF Ion!TypeOK
<1>8. CallsInv'
  BY <1>1, <1>2 DEF CallsInv, Ion!At, Ion!Idle
<1>9. EndsInv'
  BY <1>1, <1>2, <1>3 DEF EndsInv, CallsInv, Ion!At, Ion!Idle
<1>10. BufsInv'
  BY <1>1, <1>2, <1>3 DEF BufsInv, CallsInv, Ion!Idle
<1>11. DbsInv' /\ ExitInv'
  BY <1>1, <1>2 DEF DbsInv, ExitInv, Ion!At
<1> QED
  BY <1>4, <1>6, <1>7, <1>8, <1>9, <1>10, <1>11

\* There is no fd: the only file reference of the dma-buf is dropped.
LEMMA ExportFdFailsInv ==
  ASSUME IonInv, NEW t \in Threads, Ion!ExportFd(t, FALSE)
  PROVE  IonInv'
<1> USE DEF IonInv
<1> PICK b \in IonBufs : b = th[t].buf
  BY DEF Ion!ExportFd, CallsInv, Ion!At
<1> PICK d \in Dbs : d = th[t].db
  BY DEF Ion!ExportFd, CallsInv, Ion!At, Ion!TypeOK
<1>1. /\ th[t].pc = "fd" /\ th[t].buf = b /\ th[t].db = d /\ loaded
      /\ db[d].buf = b /\ db[d].files = 1
      /\ \A u \in Threads : u # t => th[u].db # d
  <2>1. th[t].pc = "fd"
    BY DEF Ion!ExportFd, Ion!At
  <2> QED
    BY <2>1, CallFacts DEF CallsInv, Ion!At
<1>2. /\ th'[t].pc = "release" /\ th'[t].buf = b /\ th'[t].db = d
      /\ \A u \in Threads : u # t => th'[u] = th[u]
      /\ db'[d].buf = b /\ db'[d].files = 0 /\ \A e \in Dbs : e # d => db'[e] = db[e]
      /\ UNCHANGED <<loaded, iBuf, list, iRef, inuse>>
  BY <1>1 DEF Ion!ExportFd, Ion!TypeOK, Ion!Goto
<1>3. \A c \in IonBufs : Ion!Holders(c)' = Ion!Holders(c)
  BY <1>1, <1>2 DEF Ion!Holders
<1>4. Ion!HeldMemoryStays'
  BY <1>1, <1>2, <1>3 DEF Ion!HeldMemoryStays
<1>5. Ion!CountedPages' = Ion!CountedPages
  <2>1. \A c \in IonBufs : Ion!Share(c)' = Ion!Share(c)
    BY <1>1, <1>2 DEF Ion!Share, Ion!Idle
  <2> QED
    BY <2>1, PagesSame
<1>6. Ion!UsedBytesExact' /\ inuse' \in Nat
  BY <1>2, <1>5 DEF Ion!UsedBytesExact, Ion!TypeOK
<1>7. Ion!TypeOK'
  <2>1. th' \in [Threads -> [pc : Ion!Pcs, buf : IonBufs \cup {Null}, db : Dbs \cup {Null}]]
    BY <1>1 DEF Ion!ExportFd, Ion!TypeOK, Ion!Goto, Ion!Pcs
  <2>2. db' \in [Dbs -> [buf : IonBufs \cup {Null}, files : 0 .. MaxFiles]]
    BY <1>1 DEF Ion!ExportFd, Ion!TypeOK
  <2> QED
    BY <1>2, <2>1, <2>2 DEF Ion!TypeOK
<1>8. CallsInv'
  <2>1. \A u \in Threads : th[u].db \in Dbs \cup {Null}
    BY DEF Ion!TypeOK
  <2> QED
    BY <1>1, <1>2, <2>1 DEF CallsInv, Ion!At, Ion!Idle
<1>9. EndsInv'
  BY <1>1, <1>2, <1>3 DEF EndsInv, CallsInv, Ion!At, Ion!Idle
<1>10. BufsInv'
  BY <1>1, <1>2, <1>3 DEF BufsInv, CallsInv, Ion!Idle
<1>11. DbsInv' /\ ExitInv'
  BY <1>1, <1>2 DEF DbsInv, ExitInv, Ion!At, Ion!NoDb
<1> QED
  BY <1>4, <1>6, <1>7, <1>8, <1>9, <1>10, <1>11

\* The file gets one more reference.
LEMMA FileGetInv ==
  ASSUME IonInv, NEW d \in Dbs, Ion!FileGet(d)
  PROVE  IonInv'
<1> USE DEF IonInv
<1>1. /\ db[d].files \in Nat /\ db[d].files > 0
      /\ \A u \in Threads : th[u].db # d
  BY DEF Ion!FileGet, Ion!Installed, Ion!TypeOK
<1>2. /\ db'[d].buf = db[d].buf /\ db'[d].files = db[d].files + 1
      /\ \A e \in Dbs : e # d => db'[e] = db[e]
      /\ UNCHANGED <<loaded, iBuf, list, iRef, inuse, th>>
  BY <1>1 DEF Ion!FileGet, Ion!TypeOK
<1>3. \A c \in IonBufs : Ion!Holders(c)' = Ion!Holders(c)
  BY <1>1, <1>2 DEF Ion!Holders
<1>4. Ion!HeldMemoryStays'
  BY <1>1, <1>2, <1>3 DEF Ion!HeldMemoryStays
<1>5. Ion!CountedPages' = Ion!CountedPages
  <2>1. \A c \in IonBufs : Ion!Share(c)' = Ion!Share(c)
    BY <1>1, <1>2 DEF Ion!Share, Ion!Idle
  <2> QED
    BY <2>1, PagesSame
<1>6. Ion!UsedBytesExact' /\ inuse' \in Nat
  BY <1>2, <1>5 DEF Ion!UsedBytesExact, Ion!TypeOK
<1>7. Ion!TypeOK'
  <2>1. db[d].files + 1 \in 0 .. MaxFiles
    BY <1>1 DEF Ion!FileGet, Ion!TypeOK
  <2> QED
    BY <1>2, <2>1 DEF Ion!FileGet, Ion!TypeOK
<1>8. CallsInv'
  <2>1. \A u \in Threads : th[u].db \in Dbs \cup {Null}
    BY DEF Ion!TypeOK
  <2> QED
    BY <1>1, <1>2, <2>1 DEF CallsInv, Ion!At, Ion!Idle
<1>9. EndsInv'
  BY <1>1, <1>2, <1>3 DEF EndsInv, CallsInv, Ion!At, Ion!Idle
<1>10. BufsInv'
  BY <1>1, <1>2, <1>3 DEF BufsInv, CallsInv, Ion!Idle
<1>11. DbsInv' /\ ExitInv'
  BY <1>1, <1>2 DEF DbsInv, ExitInv, Ion!At, Ion!NoDb
<1> QED
  BY <1>4, <1>6, <1>7, <1>8, <1>9, <1>10, <1>11

\* A file reference is dropped, and the last one starts the release.
LEMMA FilePutInv ==
  ASSUME IonInv, NEW t \in Threads, NEW d \in Dbs, Ion!FilePut(t, d)
  PROVE  IonInv'
<1> USE DEF IonInv
<1> PICK b \in IonBufs : b = db[d].buf
  BY DEF Ion!FilePut, Ion!Installed, DbsInv, Ion!NoDb, Ion!TypeOK
<1>1. /\ db[d].buf = b /\ db[d].files \in Nat /\ db[d].files > 0 /\ db[d].files \in 0 .. MaxFiles
      /\ th[t] = Ion!Idle /\ loaded
      /\ d \in Ion!Holders(b)
      /\ \A u \in Threads : th[u].db # d
      /\ \A u \in Threads : th[u].buf = b => th[u].pc \notin {"dma", "add", "free", "account"}
      /\ iBuf[b].size # 0
  <2>1. /\ db[d].files \in 0 .. MaxFiles /\ db[d].files > 0
        /\ Ion!At(t, "idle") /\ \A u \in Threads : th[u].db # d
    BY DEF Ion!FilePut, Ion!Installed, Ion!TypeOK
  <2>2. d \in Ion!Holders(b)
    BY DEF Ion!Holders
  <2>3. loaded
    BY <2>1 DEF ExitInv, Ion!NoDb
  <2> QED
    BY <2>1, <2>2, <2>3, HeldFacts DEF CallsInv
<1>2. /\ db'[d].buf = b /\ db'[d].files = db[d].files - 1
      /\ \A e \in Dbs : e # d => db'[e] = db[e]
      /\ IF db[d].files = 1 THEN th'[t].pc = "release" /\ th'[t].buf = b /\ th'[t].db = d ELSE th'[t] = Ion!Idle
      /\ \A u \in Threads : u # t => th'[u] = th[u]
      /\ UNCHANGED <<loaded, iBuf, list, iRef, inuse>>
  BY <1>1 DEF Ion!FilePut, Ion!TypeOK
<1>3. \A c \in IonBufs : Ion!Holders(c)' = Ion!Holders(c)
  BY <1>1, <1>2 DEF Ion!Holders, Ion!Idle
<1>4. Ion!HeldMemoryStays'
  BY <1>1, <1>2, <1>3 DEF Ion!HeldMemoryStays
<1>5. Ion!CountedPages' = Ion!CountedPages
  <2>1. \A c \in IonBufs : Ion!Share(c)' = Ion!Share(c)
    BY <1>1, <1>2 DEF Ion!Share, Ion!Idle
  <2> QED
    BY <2>1, PagesSame
<1>6. Ion!UsedBytesExact' /\ inuse' \in Nat
  BY <1>2, <1>5 DEF Ion!UsedBytesExact, Ion!TypeOK
<1>7. Ion!TypeOK'
  <2>1. th' \in [Threads -> [pc : Ion!Pcs, buf : IonBufs \cup {Null}, db : Dbs \cup {Null}]]
    BY <1>1 DEF Ion!FilePut, Ion!TypeOK, Ion!Pcs
  <2>2. db[d].files - 1 \in 0 .. MaxFiles
    BY <1>1
  <2>3. db' \in [Dbs -> [buf : IonBufs \cup {Null}, files : 0 .. MaxFiles]]
    BY <2>2 DEF Ion!FilePut, Ion!TypeOK
  <2> QED
    BY <1>2, <2>1, <2>3 DEF Ion!TypeOK
<1>8. CallsInv'
  <2>1. \A u \in Threads : th[u].db \in Dbs \cup {Null}
    BY DEF Ion!TypeOK
  <2> QED
    BY <1>1, <1>2, <2>1 DEF CallsInv, Ion!At, Ion!Idle
<1>9. EndsInv'
  BY <1>1, <1>2, <1>3 DEF EndsInv, CallsInv, Ion!At, Ion!Idle
<1>10. BufsInv'
  BY <1>1, <1>2, <1>3 DEF BufsInv, CallsInv, Ion!Idle
<1>11. DbsInv' /\ ExitInv'
  BY <1>1, <1>2 DEF DbsInv, ExitInv, Ion!At, Ion!NoDb
<1> QED
  BY <1>4, <1>6, <1>7, <1>8, <1>9, <1>10, <1>11

\* The dma-buf goes and its reference is to be put.
LEMMA DmabufReleaseInv ==
  ASSUME IonInv, NEW t \in Threads, Ion!DmabufRelease(t)
  PROVE  IonInv'
<1> USE DEF IonInv
<1> PICK b \in IonBufs : b = th[t].buf
  BY DEF Ion!DmabufRelease, CallsInv, Ion!At
<1> PICK d \in Dbs : d = th[t].db
  BY DEF Ion!DmabufRelease, CallsInv, Ion!At, Ion!TypeOK
<1>1. /\ th[t].pc = "release" /\ th[t].buf = b /\ th[t].db = d /\ loaded
      /\ db[d].buf = b /\ db[d].files = 0
      /\ \A u \in Threads : u # t => th[u].db # d
      /\ d \in Ion!Holders(b) /\ t \notin Ion!Holders(b) /\ iBuf[b].size # 0 /\ iBuf[b].backed
      /\ \A u \in Threads : th[u].buf = b => th[u].pc \notin {"dma", "add", "free", "account"}
  <2>1. th[t].pc = "release"
    BY DEF Ion!DmabufRelease, Ion!At
  <2>2. db[d].buf = b /\ db[d].files = 0
    BY <2>1 DEF CallsInv, Ion!At
  <2>3. d \in Ion!Holders(b) /\ t \notin Ion!Holders(b)
    BY <2>1, <2>2 DEF Ion!Holders
  <2>4. \A u \in Threads : u # t => th[u].db # d
    BY DEF CallsInv
  <2> QED
    BY <2>1, <2>2, <2>3, <2>4, CallFacts, HeldFacts
<1>2. /\ th'[t].pc = "put" /\ th'[t].buf = b /\ th'[t].db = Null
      /\ \A u \in Threads : u # t => th'[u] = th[u]
      /\ db'[d] = Ion!NoDb /\ \A e \in Dbs : e # d => db'[e] = db[e]
      /\ UNCHANGED <<loaded, iBuf, list, iRef, inuse>>
  BY <1>1 DEF Ion!DmabufRelease, Ion!TypeOK
<1>3. /\ Ion!Holders(b)' = (Ion!Holders(b) \ {d}) \cup {t}
      /\ \A c \in IonBufs : c # b => Ion!Holders(c)' = Ion!Holders(c)
  BY <1>1, <1>2 DEF Ion!Holders, Ion!NoDb
<1>4. Ion!HeldMemoryStays'
  BY IonCardinality, <1>1, <1>2, <1>3, HolderSwapped DEF Ion!HeldMemoryStays
<1>5. Ion!CountedPages' = Ion!CountedPages
  <2>1. \A c \in IonBufs : Ion!Share(c)' = Ion!Share(c)
    BY <1>1, <1>2 DEF Ion!Share, Ion!Idle
  <2> QED
    BY <2>1, PagesSame
<1>6. Ion!UsedBytesExact' /\ inuse' \in Nat
  BY <1>2, <1>5 DEF Ion!UsedBytesExact, Ion!TypeOK
<1>7. Ion!TypeOK'
  <2>1. th' \in [Threads -> [pc : Ion!Pcs, buf : IonBufs \cup {Null}, db : Dbs \cup {Null}]]
    BY <1>1 DEF Ion!DmabufRelease, Ion!TypeOK, Ion!Pcs
  <2>2. db' \in [Dbs -> [buf : IonBufs \cup {Null}, files : 0 .. MaxFiles]]
    BY <1>1 DEF Ion!DmabufRelease, Ion!TypeOK, Ion!NoDb
  <2> QED
    BY <1>2, <2>1, <2>2 DEF Ion!TypeOK
<1>8. CallsInv'
  <2>1. \A u \in Threads : th[u].db \in Dbs \cup {Null}
    BY DEF Ion!TypeOK
  <2> QED
    BY <1>1, <1>2, <2>1 DEF CallsInv, Ion!At, Ion!Idle
<1>9. EndsInv'
  BY <1>1, <1>2, <1>3 DEF EndsInv, CallsInv, Ion!At, Ion!Idle
<1>10. BufsInv'
  BY <1>1, <1>2, <1>3 DEF BufsInv, CallsInv, Ion!Idle
<1>11. DbsInv' /\ ExitInv'
  BY <1>1, <1>2 DEF DbsInv, ExitInv, Ion!At, Ion!NoDb
<1> QED
  BY <1>4, <1>6, <1>7, <1>8, <1>9, <1>10, <1>11

\* The module goes with what is left on its list.
LEMMA ExitInvStep == ASSUME IonInv, Ion!Exit PROVE IonInv'
<1> USE DEF IonInv
<1>1. /\ \A t \in Threads : th[t] = Ion!Idle
      /\ \A d \in Dbs : db[d] = Ion!NoDb
      /\ \A b \in IonBufs : b \notin list => iBuf[b].size = 0 /\ ~iBuf[b].backed
  <2>1. /\ \A t \in Threads : Ion!At(t, "idle")
        /\ \A d \in Dbs : db[d] = Ion!NoDb
    BY DEF Ion!Exit, Ion!Unpinned
  <2>2. \A t \in Threads : th[t] = Ion!Idle
    BY <2>1 DEF CallsInv
  <2>3. \A b \in IonBufs : b \notin list => Ion!Holders(b) = {}
    BY <2>1, <2>2 DEF Ion!Holders, Ion!NoDb, Ion!Idle
  <2>4. \A b \in IonBufs : b \notin list => iBuf[b].size = 0
    BY <2>2, <2>3 DEF BufsInv, Ion!Idle
  <2> QED
    BY <2>1, <2>2, <2>4 DEF BufsInv
<1>2. /\ loaded' = FALSE /\ list' = {} /\ UNCHANGED <<inuse, db, th>>
      /\ \A b \in IonBufs : iBuf'[b].size = 0 /\ ~iBuf'[b].backed
  BY <1>1 DEF Ion!Exit, Ion!NoBuf
<1>3. \A b \in IonBufs : Ion!Holders(b)' = {}
  BY <1>1, <1>2 DEF Ion!Holders, Ion!NoDb, Ion!Idle
<1>4. \A b \in IonBufs : iRef'[b] = 0
  <2> SUFFICES ASSUME NEW b \in IonBufs PROVE iRef'[b] = 0
    OBVIOUS
  <2>1. b \notin list => Ion!Holders(b) = {}
    BY <1>1 DEF Ion!Holders, Ion!NoDb, Ion!Idle
  <2>2. b \notin list => iRef[b] = 0
    BY IonCardinality, <2>1, FS_EmptySet DEF Ion!HeldMemoryStays
  <2> QED
    BY <2>2 DEF Ion!Exit
<1>5. Ion!HeldMemoryStays'
  BY IonCardinality, <1>3, <1>4, FS_EmptySet DEF Ion!HeldMemoryStays
<1>6. Ion!UsedBytesExact'
  BY <1>2 DEF Ion!UsedBytesExact
<1>7. Ion!TypeOK'
  <2>1. iBuf' \in [IonBufs -> [size : Sizes \cup {0}, backed : BOOLEAN]]
    BY DEF Ion!Exit, Ion!TypeOK, Ion!NoBuf
  <2>2. iRef' \in [IonBufs -> Nat]
    BY DEF Ion!Exit, Ion!TypeOK
  <2> QED
    BY <1>2, <2>1, <2>2 DEF Ion!TypeOK
<1>8. CallsInv' /\ EndsInv' /\ DbsInv' /\ ExitInv'
  BY <1>1, <1>2 DEF CallsInv, EndsInv, DbsInv, ExitInv, Ion!At, Ion!Idle
<1>9. BufsInv'
  BY <1>1, <1>2, <1>3 DEF BufsInv, Ion!Idle
<1> QED
  BY <1>5, <1>6, <1>7, <1>8, <1>9

\* A module that is not loaded has nothing: no buffer and no reference.
LEMMA GoneIsEmpty ==
  ASSUME IonInv, ~loaded
  PROVE  \A b \in IonBufs : iBuf[b] = Ion!NoBuf /\ iRef[b] = 0 /\ Ion!Share(b) = 0
<1> SUFFICES ASSUME NEW b \in IonBufs PROVE iBuf[b] = Ion!NoBuf /\ iRef[b] = 0 /\ Ion!Share(b) = 0
  OBVIOUS
<1>1. list = {} /\ (\A t \in Threads : th[t] = Ion!Idle) /\ \A d \in Dbs : db[d] = Ion!NoDb
  BY DEF IonInv, ExitInv, CallsInv
<1>2. Ion!Holders(b) = {}
  BY <1>1 DEF Ion!Holders, Ion!NoDb, Ion!Idle
<1>3. iBuf[b].size = 0 /\ ~iBuf[b].backed
  BY <1>1, <1>2 DEF IonInv, BufsInv, Ion!Idle
<1>4. iBuf[b] \in [size : Sizes \cup {0}, backed : BOOLEAN]
  BY DEF IonInv, Ion!TypeOK
<1>5. iBuf[b] = Ion!NoBuf
  BY <1>3, <1>4 DEF Ion!NoBuf
<1>6. iRef[b] = 0
  BY IonCardinality, <1>2, FS_EmptySet DEF IonInv, Ion!HeldMemoryStays
<1> QED
  BY <1>3, <1>5, <1>6 DEF Ion!Share

\* The module comes back with its counter at 0.
LEMMA LoadInv == ASSUME IonInv, Ion!Load PROVE IonInv'
<1> USE DEF IonInv
<1>1. loaded' /\ ~loaded /\ inuse' = 0 /\ UNCHANGED <<iBuf, list, iRef, db, th>>
  BY DEF Ion!Load
<1>2. \A b \in IonBufs : Ion!Holders(b)' = Ion!Holders(b)
  BY <1>1 DEF Ion!Holders
<1>3. Ion!HeldMemoryStays' /\ BufsInv' /\ EndsInv'
  BY <1>1, <1>2 DEF Ion!HeldMemoryStays, BufsInv, EndsInv, Ion!At
<1>4. \A b \in IonBufs : Ion!Share(b)' = 0
  BY <1>1, GoneIsEmpty DEF Ion!Share
<1>5. Ion!CountedPages' = {}
  BY <1>4 DEF Ion!CountedPages
<1>6. Ion!UsedBytesExact'
  BY IonCardinality, <1>1, <1>5, FS_EmptySet DEF Ion!UsedBytesExact
<1>7. Ion!TypeOK' /\ CallsInv' /\ DbsInv' /\ ExitInv'
  BY <1>1 DEF Ion!TypeOK, CallsInv, DbsInv, ExitInv, Ion!At
<1> QED
  BY <1>3, <1>6, <1>7

\* A step that changes nothing keeps the invariant.
LEMMA StutterInv == ASSUME IonInv, UNCHANGED ion PROVE IonInv'
<1> USE DEF IonInv, ion
<1>1. \A b \in IonBufs : Ion!Holders(b)' = Ion!Holders(b) /\ Ion!Share(b)' = Ion!Share(b)
  BY DEF Ion!Holders, Ion!Share
<1>2. Ion!CountedPages' = Ion!CountedPages
  BY <1>1, PagesSame
<1>3. Ion!HeldMemoryStays' /\ BufsInv' /\ EndsInv'
  BY <1>1 DEF Ion!HeldMemoryStays, BufsInv, EndsInv, Ion!At
<1>4. Ion!UsedBytesExact'
  BY <1>2 DEF Ion!UsedBytesExact
<1>5. Ion!TypeOK' /\ CallsInv' /\ DbsInv' /\ ExitInv'
  BY DEF Ion!TypeOK, CallsInv, DbsInv, ExitInv, Ion!At
<1> QED
  BY <1>3, <1>4, <1>5

\* Every step keeps the invariant.
LEMMA IonStep == IonInv /\ [Ion!Next]_ion => IonInv'
<1> SUFFICES ASSUME IonInv, [Ion!Next]_ion PROVE IonInv'
  OBVIOUS
<1>1. ASSUME NEW t \in Threads, Ion!Step(t) PROVE IonInv'
  <2>1. ASSUME NEW good \in BOOLEAN, Ion!AllocDma(t, good) PROVE IonInv'
    <3>1. CASE good
      BY <2>1, <3>1, AllocDmaOkInv
    <3>2. CASE ~good
      BY <2>1, <3>2, AllocDmaFailsInv
    <3> QED
      BY <3>1, <3>2
  <2>2. ASSUME NEW good \in BOOLEAN, Ion!ExportFd(t, good) PROVE IonInv'
    <3>1. CASE good
      BY <2>2, <3>1, ExportFdOkInv
    <3>2. CASE ~good
      BY <2>2, <3>2, ExportFdFailsInv
    <3> QED
      BY <3>1, <3>2
  <2>3. ASSUME NEW d \in Dbs, Ion!ExportDmabuf(t, d) PROVE IonInv'
    BY <2>3, ExportDmabufInv
  <2>4. CASE Ion!AllocAdd(t)
    BY <2>4, AllocAddInv
  <2>5. CASE Ion!KrefPut(t)
    BY <2>5, KrefPutInv
  <2>6. CASE Ion!ReleaseMemory(t)
    BY <2>6, ReleaseMemoryInv
  <2>7. CASE Ion!ReleaseAccount(t)
    BY <2>7, ReleaseAccountInv
  <2>8. CASE Ion!ExportFails(t)
    BY <2>8, ExportFailsInv
  <2>9. CASE Ion!DmabufRelease(t)
    BY <2>9, DmabufReleaseInv
  <2> QED
    BY <1>1, <2>1, <2>2, <2>3, <2>4, <2>5, <2>6, <2>7, <2>8, <2>9 DEF Ion!Step
<1>2. ASSUME NEW t \in Threads, Ion!Call(t) PROVE IonInv'
  <2>1. ASSUME NEW b \in IonBufs, NEW n \in Sizes, Ion!AllocCheck(t, b, n) PROVE IonInv'
    BY <2>1, AllocCheckInv
  <2>2. ASSUME NEW b \in IonBufs, Ion!FreeDel(t, b) PROVE IonInv'
    BY <2>2, FreeDelInv
  <2>3. ASSUME NEW b \in IonBufs, Ion!ExportGet(t, b) PROVE IonInv'
    BY <2>3, ExportGetInv
  <2>4. ASSUME NEW d \in Dbs, Ion!FilePut(t, d) PROVE IonInv'
    BY <2>4, FilePutInv
  <2> QED
    BY <1>2, <2>1, <2>2, <2>3, <2>4 DEF Ion!Call
<1>3. ASSUME NEW d \in Dbs, Ion!FileGet(d) PROVE IonInv'
  BY <1>3, FileGetInv
<1>4. CASE Ion!Exit
  BY <1>4, ExitInvStep
<1>5. CASE Ion!Load
  BY <1>5, LoadInv
<1>6. CASE UNCHANGED ion
  BY <1>6, StutterInv
<1> QED
  BY <1>1, <1>2, <1>3, <1>4, <1>5, <1>6 DEF Ion!Next

-----------------------------------------------------------------------------
\* The invariant holds in every reachable state.
LEMMA IonSafe == VideoSpec => []IonInv
<1>1. VideoInit => IonInv
  BY IonInit DEF VideoInit
<1>2. IonInv /\ [VideoNext]_video => IonInv'
  <2>1. [VideoNext]_video => [Ion!Next]_ion
    BY DEF VideoNext, video
  <2> QED
    BY <2>1, IonStep
<1> QED
  BY <1>1, <1>2, PTL DEF VideoSpec

\* Every variable keeps its type; ion_in_use in particular never goes below 0.
THEOREM TypesKept == VideoSpec => []IonTypes
<1>1. IonInv => IonTypes
  BY DEF IonInv, IonTypes
<1> QED
  BY <1>1, IonSafe, PTL

\* b->ref is the number of holders and held memory is there, however frees,
\* closes, exports and their failures interleave.
THEOREM ReferencesExact == VideoSpec => []HeldMemoryStays
<1>1. IonInv => HeldMemoryStays
  BY DEF IonInv, HeldMemoryStays
<1> QED
  BY <1>1, IonSafe, PTL

\* ion_in_use is the number of pages allocated and counted and not yet given
\* back, whatever else is in flight.
THEOREM UsedBytesCounted == VideoSpec => []UsedBytesExact
<1>1. IonInv => UsedBytesExact
  BY DEF IonInv, UsedBytesExact
<1> QED
  BY <1>1, IonSafe, PTL

\* soph_ion_exit leaves no memory and no reference behind.
THEOREM NothingOutlivesTheModule == VideoSpec => []ExitLeavesNothing
<1>1. IonInv => ExitLeavesNothing
  BY GoneIsEmpty DEF Ion!ExitLeavesNothing, ExitLeavesNothing
<1> QED
  BY <1>1, IonSafe, PTL
=============================================================================
