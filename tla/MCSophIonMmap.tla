---------------------------- MODULE MCSophIonMmap ----------------------------
(***************************************************************************)
(* soph_ion's mappings (SophIonMmap), and the programs that use what it and *)
(* soph_drm offer: coda-cube's runs (CodaSession), what coda-cube opens and *)
(* maps (CodaMaps) and badge-kms-check (KmsCheck). A behaviour is one of    *)
(* them.                                                                    *)
(*                                                                         *)
(* Three mappings, so that one can be forked while another one is made and  *)
(* closed, two readers and three frames; two runs of coda-cube; three       *)
(* allocations behind one another, the last as short as a chroma plane.     *)
(***************************************************************************)
EXTENDS SophIonMmap, TLC

CONSTANTS
    v1, v2, v3, r1, r2,
    p1, p2, Procs, None, Allocs, Bases, YLEN, CLEN, DB_N, MAXMAPS, MAXZC, MaxFd,
    Count, Hops, Memory

(* No run is the absence of one. *)
ASSUME SessionAssumption == None \notin Procs

(* badge-kms-check's numbers: flips, hops of the walk, addresses. *)
ASSUME CheckAssumption == Count \in Nat /\ Hops \in Nat /\ Memory \in Nat

(* coda-cube's memory: allocations that are not empty and share no byte,    *)
(* planes that are not empty, addresses as mmap returns them.               *)
ASSUME MapsAssumption ==
    /\ Allocs \subseteq [start : Nat, size : Nat \ {0}]
    /\ \A a, b \in Allocs : a # b => a.start + a.size <= b.start \/ b.start + b.size <= a.start
    /\ Bases \subseteq Nat /\ YLEN \in Nat \ {0} /\ CLEN \in Nat \ {0}
    /\ DB_N \in Nat \ {0} /\ MAXMAPS \in Nat /\ MAXZC \in Nat /\ MaxFd \in Nat

ThreeVmas == {v1, v2, v3}
TwoReaders == {r1, r2}
TwoProcs == {p1, p2}
ThreeAllocs == {[start |-> 0, size |-> 3], [start |-> 3, size |-> 3], [start |-> 6, size |-> 1]}
ThreeBases == {10, 13, 20}
Symmetry == Permutations(TwoReaders) \cup Permutations(TwoProcs)

VARIABLES
    which,  \* the program that runs
    param, chan, run, base, before, dirty,
    route, uncached, mPc, fdt, drm, ion, mapion, db, dumb, pres, zc, maps,
    frame, yp, cp, mShown, sync,
    cmd, fault, kPc, stop, ret, slot, live, id, screen, colour, found, props,
    row, add, test, failed, done, kShown, broke, allocs, phys

Session == INSTANCE CodaSession
Maps == INSTANCE CodaMaps WITH
    pc <- mPc, shown <- mShown
Check == INSTANCE KmsCheck WITH
    pc <- kPc, shown <- kShown

session == <<param, chan, run, base, before, dirty>>
mapping == <<route, uncached, mPc, fdt, drm, ion, mapion, db, dumb, pres, zc,
             maps, frame, yp, cp, mShown, sync>>
check == <<cmd, fault, kPc, stop, ret, slot, live, id, screen, colour, found,
           props, row, add, test, failed, done, kShown, broke, allocs, phys>>
all == <<which, vars, session, mapping, check>>

(* Every program but the one that runs stays in one initial state. *)
MCInit ==
    /\ which \in {"mmap", "session", "maps", "check"}
    /\ Init
    /\ Session!Init /\ param = [i \in 0 .. Session!NCOLOR - 1 |-> "other"]
    /\ Maps!Init /\ (which # "maps" => route = "shm" /\ ~uncached)
    /\ Check!Rest
    /\ IF which = "check" THEN Check!Start
       ELSE cmd = "none" /\ kPc = "idle" /\ stop = FALSE /\ fault = "none" /\ allocs = {} /\ phys = 0

(* A step of the program that runs. *)
MCNext ==
    /\ UNCHANGED which
    /\ \/ /\ which = "mmap" /\ Next
          /\ UNCHANGED <<session, mapping, check>>
       \/ /\ which = "session" /\ Session!Next
          /\ UNCHANGED <<vars, mapping, check>>
       \/ /\ which = "maps" /\ Maps!Next
          /\ UNCHANGED <<vars, session, check>>
       \/ /\ which = "check" /\ Check!Next
          /\ UNCHANGED <<vars, session, mapping>>

MCSpec == MCInit /\ [][MCNext]_all

-----------------------------------------------------------------------------
(* Runs of coda-cube leave the badge as they found it, in any overlap that  *)
(* does not cross and with any failure: the VDEC channel is its creator's   *)
(* and goes with it, soph_drm's colour parameters go back, and --user gives *)
(* up root only after everything that needs it is open.                     *)
RunsLeaveTheBadge ==
    Session!ChannelOwned /\ Session!ColoursRestored /\ Session!DropAfterOpens

(* coda-cube reads a frame through its own memory and inside its SYNC       *)
(* brackets, what sway imports for a zero-copy frame is that frame, and     *)
(* descriptors are closed once and only coda-cube's own, whichever step of  *)
(* the set-up failed.                                                       *)
MapsRight == Maps!FdsOwned /\ Maps!ReadsBracketed /\ Maps!ShownIsFrame

(* badge-kms-check can be trusted: `reject', `ion-reject' and `flip' exit 0 *)
(* exactly when the driver did what they ask, for every fault they are      *)
(* meant to find, and whatever fails or interrupts them, the colour         *)
(* properties are put back and no buffer is left.                           *)
ChecksHonest ==
    /\ Check!RejectFindsFaults /\ Check!IonFindsFaults /\ Check!FlipCounts
    /\ Check!ColoursBack /\ Check!BuffersFreed

=============================================================================
