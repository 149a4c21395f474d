------------------------------- MODULE SophIon -------------------------------
(***************************************************************************)
(* soph_ion_compat: the kernel's allocator for the display and the decoder *)
(* and the dma-bufs /dev/soph-ion exports of its buffers.  A thread is any *)
(* context that runs one of its calls.  ion_lock is held only within one   *)
(* action, so it is not a variable.  Lengths are in pages.                 *)
(***************************************************************************)
EXTENDS Naturals, FiniteSets, SophIonParams

VARIABLES
  loaded, \* the module is in the kernel
  buf,    \* a buffer: its size (0 once kfree'd) and whether it has its memory
  list,   \* ion_bufs
  ref,    \* b->ref
  inuse,  \* ion_in_use
  db,     \* a dma-buf: its buffer and the references to its file
  th      \* a thread: the step it is at, its buffer and its dma-buf

vars == <<loaded, buf, list, ref, inuse, db, th>>

NoBuf == [size |-> 0, backed |-> FALSE]
NoDb  == [buf |-> Null, files |-> 0]
Idle  == [pc |-> "idle", buf |-> Null, db |-> Null]

Pcs == {"idle", "dma", "add", "put", "free", "account", "export", "fd", "release"}

TypeOK ==
  /\ loaded \in BOOLEAN
  /\ buf \in [IonBufs -> [size : Sizes \cup {0}, backed : BOOLEAN]]
  /\ list \subseteq IonBufs
  /\ ref \in [IonBufs -> Nat]
  /\ inuse \in Nat
  /\ db \in [Dbs -> [buf : IonBufs \cup {Null}, files : 0 .. MaxFiles]]
  /\ th \in [Threads -> [pc : Pcs, buf : IonBufs \cup {Null}, db : Dbs \cup {Null}]]

Init ==
  /\ loaded = TRUE
  /\ buf = [b \in IonBufs |-> NoBuf]
  /\ list = {}
  /\ ref = [b \in IonBufs |-> 0]
  /\ inuse = 0
  /\ db = [d \in Dbs |-> NoDb]
  /\ th = [t \in Threads |-> Idle]

At(t, pc) == th[t].pc = pc

Goto(t, pc) == th' = [th EXCEPT ![t].pc = pc]

Done(t) == th' = [th EXCEPT ![t] = Idle]

-----------------------------------------------------------------------------
\* cvi_ion_alloc_nofd: the budget is looked at under the lock, the memory is
\* taken without it, and only then the allocation is counted.
AllocCheck(t, b, n) ==
  /\ loaded /\ At(t, "idle") /\ buf[b] = NoBuf
  /\ inuse + n <= Budget
  /\ buf' = [buf EXCEPT ![b].size = n]
  /\ th' = [th EXCEPT ![t] = [pc |-> "dma", buf |-> b, db |-> Null]]
  /\ UNCHANGED <<loaded, list, ref, inuse, db>>

AllocDma(t, ok) ==
  /\ At(t, "dma")
  /\ LET b == th[t].buf IN
       IF ok THEN /\ buf' = [buf EXCEPT ![b].backed = TRUE]
                  /\ ref' = [ref EXCEPT ![b] = 1]
                  /\ Goto(t, "add")
             ELSE /\ buf' = [buf EXCEPT ![b] = NoBuf]
                  /\ ref' = ref
                  /\ Done(t)
  /\ UNCHANGED <<loaded, list, inuse, db>>

\* Mutant of AllocAdd: the allocation is not counted.
AllocAddUncounted(t) ==
  /\ At(t, "add")
  /\ list' = list \cup {th[t].buf}
  /\ Done(t)
  /\ UNCHANGED <<loaded, buf, ref, inuse, db>>

AllocAdd(t) ==
  /\ At(t, "add")
  /\ list' = list \cup {th[t].buf}
  /\ inuse' = inuse + buf[th[t].buf].size
  /\ Done(t)
  /\ UNCHANGED <<loaded, buf, ref, db>>

\* cvi_ion_free_nofd by the allocation's owner: off the list, then the put.
FreeDel(t, b) ==
  /\ loaded /\ At(t, "idle") /\ b \in list
  /\ list' = list \ {b}
  /\ th' = [th EXCEPT ![t] = [pc |-> "put", buf |-> b, db |-> Null]]
  /\ UNCHANGED <<loaded, buf, ref, inuse, db>>

KrefPut(t) ==
  /\ At(t, "put")
  /\ LET b == th[t].buf IN
       /\ ref' = [ref EXCEPT ![b] = @ - 1]
       /\ IF ref[b] = 1 THEN Goto(t, "free") ELSE Done(t)
  /\ UNCHANGED <<loaded, buf, list, inuse, db>>

\* ion_buf_release: the memory goes back first, then its share of the budget.
ReleaseMemory(t) ==
  /\ At(t, "free")
  /\ buf' = [buf EXCEPT ![th[t].buf].backed = FALSE]
  /\ Goto(t, "account")
  /\ UNCHANGED <<loaded, list, ref, inuse, db>>

\* Mutant of ReleaseAccount: the budget is not given back.
ReleaseAccountKept(t) ==
  /\ At(t, "account")
  /\ buf' = [buf EXCEPT ![th[t].buf] = NoBuf]
  /\ Done(t)
  /\ UNCHANGED <<loaded, list, ref, inuse, db>>

ReleaseAccount(t) ==
  /\ At(t, "account")
  /\ LET b == th[t].buf IN
       /\ inuse' = inuse - buf[b].size
       /\ buf' = [buf EXCEPT ![b] = NoBuf]
  /\ Done(t)
  /\ UNCHANGED <<loaded, list, ref, db>>

-----------------------------------------------------------------------------
\* Mutant of ExportGet: the buffer is found but no reference is taken.
ExportGetUnreferenced(t, b) ==
  /\ loaded /\ At(t, "idle") /\ b \in list
  /\ th' = [th EXCEPT ![t] = [pc |-> "export", buf |-> b, db |-> Null]]
  /\ UNCHANGED <<loaded, buf, list, ref, inuse, db>>

\* SOPH_ION_IOC_EXPORT: the buffer on the list that holds the address, with a
\* reference taken under the lock.
ExportGet(t, b) ==
  /\ loaded /\ At(t, "idle") /\ b \in list
  /\ ref' = [ref EXCEPT ![b] = @ + 1]
  /\ th' = [th EXCEPT ![t] = [pc |-> "export", buf |-> b, db |-> Null]]
  /\ UNCHANGED <<loaded, buf, list, inuse, db>>

\* dma_buf_export hands the reference to a dma-buf, or fails and it is put.
ExportDmabuf(t, d) ==
  /\ At(t, "export") /\ db[d] = NoDb
  /\ db' = [db EXCEPT ![d] = [buf |-> th[t].buf, files |-> 1]]
  /\ th' = [th EXCEPT ![t].pc = "fd", ![t].db = d]
  /\ UNCHANGED <<loaded, buf, list, ref, inuse>>

\* Mutant of ExportFails: the reference is not put.
ExportFailsHolding(t) ==
  /\ At(t, "export")
  /\ Done(t)
  /\ UNCHANGED <<loaded, buf, list, ref, inuse, db>>

ExportFails(t) ==
  /\ At(t, "export")
  /\ Goto(t, "put")
  /\ UNCHANGED <<loaded, buf, list, ref, inuse, db>>

\* The fd is installed; or there is none, or the answer cannot be copied out,
\* and dma_buf_put drops the only file reference.
ExportFd(t, ok) ==
  /\ At(t, "fd")
  /\ IF ok THEN Done(t) /\ db' = db
           ELSE Goto(t, "release") /\ db' = [db EXCEPT ![th[t].db].files = 0]
  /\ UNCHANGED <<loaded, buf, list, ref, inuse>>

\* The fd has been installed: user space, VMAs and importers hold the file.
Installed(d) == db[d].files > 0 /\ \A t \in Threads : th[t].db # d

FileGet(d) ==
  /\ Installed(d) /\ db[d].files < MaxFiles
  /\ db' = [db EXCEPT ![d].files = @ + 1]
  /\ UNCHANGED <<loaded, buf, list, ref, inuse, th>>

FilePut(t, d) ==
  /\ At(t, "idle") /\ Installed(d)
  /\ db' = [db EXCEPT ![d].files = @ - 1]
  /\ th' = IF db[d].files = 1
             THEN [th EXCEPT ![t] = [pc |-> "release", buf |-> db[d].buf, db |-> d]]
             ELSE th
  /\ UNCHANGED <<loaded, buf, list, ref, inuse>>

\* soph_ion_dmabuf_release.
DmabufRelease(t) ==
  /\ At(t, "release")
  /\ db' = [db EXCEPT ![th[t].db] = NoDb]
  /\ th' = [th EXCEPT ![t].pc = "put", ![t].db = Null]
  /\ UNCHANGED <<loaded, buf, list, ref, inuse>>

-----------------------------------------------------------------------------
\* Mutant of Unpinned: a dma-buf does not pin the module.
UnpinnedByDmabufs == \A t \in Threads : At(t, "idle")

\* Nothing pins the module: no caller is in it and no dma-buf of it exists.
Unpinned ==
  /\ \A t \in Threads : At(t, "idle")
  /\ \A d \in Dbs : db[d] = NoDb

\* soph_ion_exit frees what is left on the list, past the references.
Exit ==
  /\ loaded /\ Unpinned
  /\ loaded' = FALSE
  /\ buf' = [b \in IonBufs |-> IF b \in list THEN NoBuf ELSE buf[b]]
  /\ ref' = [b \in IonBufs |-> IF b \in list THEN 0 ELSE ref[b]]
  /\ list' = {}
  /\ UNCHANGED <<inuse, db, th>>

\* soph_ion_init, with the statics of a freshly loaded module.
Load ==
  /\ ~loaded
  /\ loaded' = TRUE /\ inuse' = 0
  /\ UNCHANGED <<buf, list, ref, db, th>>

\* The rest of a call that has begun.
Step(t) ==
  \/ \E ok \in BOOLEAN : AllocDma(t, ok) \/ ExportFd(t, ok)
  \/ AllocAdd(t) \/ KrefPut(t) \/ ReleaseMemory(t) \/ ReleaseAccount(t)
  \/ \E d \in Dbs : ExportDmabuf(t, d)
  \/ ExportFails(t) \/ DmabufRelease(t)

Call(t) ==
  \/ \E b \in IonBufs, n \in Sizes : AllocCheck(t, b, n)
  \/ \E b \in IonBufs : FreeDel(t, b) \/ ExportGet(t, b)
  \/ \E d \in Dbs : FilePut(t, d)

Next ==
  \/ \E t \in Threads : Step(t) \/ Call(t)
  \/ \E d \in Dbs : FileGet(d)
  \/ Exit \/ Load

Spec == Init /\ [][Next]_vars

\* A call that has begun runs to its end.
FairSpec == Spec /\ \A t \in Threads : WF_vars(Step(t))

-----------------------------------------------------------------------------
\* Who holds a reference: the list for the allocation, each dma-buf, and a
\* thread between taking or inheriting one and its put.
Holders(b) ==
  {t \in Threads : th[t].buf = b /\ th[t].pc \in {"add", "put", "export"}}
    \cup {d \in Dbs : db[d].buf = b}
    \cup (IF b \in list THEN {"list"} ELSE {})

\* The count is the number of holders, through every failure path of an
\* export and every order of free, close and export, and memory that has a
\* holder is there (kref in ion_buf_get, cvi_ion_free_nofd, dmabuf_release).
HeldMemoryStays ==
  \A b \in IonBufs :
    /\ ref[b] = Cardinality(Holders(b))
    /\ Holders(b) # {} => buf[b].backed

\* What a buffer takes of the budget: its length, once AllocAdd has counted it.
Share(b) ==
  IF \E t \in Threads : th[t].buf = b /\ th[t].pc \in {"dma", "add"}
    THEN 0 ELSE buf[b].size

\* The pages of the allocations that have been counted and not given back.
CountedPages == UNION {{b} \X (1 .. Share(b)) : b \in IonBufs}

\* used_bytes is "Bytes of the budget in use, freed allocations a dma-buf
\* still holds included": what is allocated and was counted, until it is gone.
UsedBytesExact == loaded => inuse = Cardinality(CountedPages)

\* "An open dma-buf pins this module, so what is left holds only the
\* allocation's reference" (soph_ion_exit): no memory outlives the module and
\* nothing refers to it.
ExitLeavesNothing ==
  ~loaded => \A b \in IonBufs : buf[b] = NoBuf /\ ref[b] = 0

\* A buffer that is freed and whose dma-bufs are closed gives its memory and
\* its share of the budget back.
Reclaimed ==
  \A b \in IonBufs :
    (buf[b] # NoBuf /\ \A d \in Dbs : db[d].buf = b => db[d].files = 0)
      ~> (buf[b] = NoBuf \/ b \in list \/ \E d \in Dbs : db[d].buf = b /\ db[d].files > 0)

=============================================================================
