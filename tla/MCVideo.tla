------------------------------ MODULE MCVideo ------------------------------
(***************************************************************************)
(* coda-cube (MCCoda) and the allocator its frames come from,               *)
(* soph_ion_compat (SophIon). A behaviour is one of them.                   *)
(*                                                                         *)
(* soph_ion_compat: three callers over two buffers of one or two pages and  *)
(* two dma-bufs.                                                            *)
(***************************************************************************)
EXTENDS MCCoda, SophIonParams

CONSTANTS t1, t2, t3, i1, i2, d1, d2    \* callers, buffers, dma-bufs

ThreeThreads == {t1, t2, t3}
TwoIonBufs == {i1, i2}
TwoDbs == {d1, d2}
OneOrTwoPages == {1, 2}

VARIABLES
    part,   \* "coda" or "ion"
    loaded, iBuf, list, iRef, inuse, db, th

Ion == INSTANCE SophIon WITH
    buf <- iBuf, ref <- iRef

ion == <<loaded, iBuf, list, iRef, inuse, db, th>>
video == <<part, all, ion>>

(* Every part but the one that runs stays in one initial state. *)
VideoInit ==
    /\ part \in {"coda", "ion"}
    /\ MCInit /\ Ion!Init
    /\ part # "coda" => which = "cube" /\ route = "shm" /\ ~pipeline

(* A step of the part that runs. *)
VideoNext ==
    /\ UNCHANGED part
    /\ \/ /\ part = "coda" /\ MCNext
          /\ UNCHANGED ion
       \/ /\ part = "ion" /\ Ion!Next
          /\ UNCHANGED all

(* Each part's own fairness, while it is the one that runs. *)
VideoSpec ==
    /\ VideoInit /\ [][VideoNext]_video
    /\ WF_vars(part = "coda" /\ which = "cube" /\ Main)
    /\ WF_vars(part = "coda" /\ which = "cube" /\ Decode)
    /\ WF_vars(part = "coda" /\ which = "cube" /\ VdecDecode)
    /\ \A t \in Threads : WF_ion(part = "ion" /\ Ion!Step(t))

-----------------------------------------------------------------------------
(* soph_ion_compat: types of its state; reference counts are holders,       *)
(* through every order of free, export, failed export and close; the byte   *)
(* count is exact; nothing is left when the module goes; what is freed and  *)
(* closed comes back.                                                       *)
IonTypes == Ion!TypeOK
HeldMemoryStays == Ion!HeldMemoryStays
UsedBytesExact == Ion!UsedBytesExact
ExitLeavesNothing == Ion!ExitLeavesNothing
Reclaimed == Ion!Reclaimed

=============================================================================
