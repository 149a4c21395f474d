----------------------------- MODULE KmsCheck -----------------------------
(***************************************************************************)
(* badge-kms-check: the badge's own test of soph_drm's primary plane and   *)
(* of soph_ion's exports (badge-kms-check.c), run against a driver that    *)
(* may have one of the faults it is meant to find.                         *)
(*   - reject test-commits one layout per row;                             *)
(*   - bars shows a picture, flip swaps two framebuffers;                  *)
(*   - ion-reject walks the exports of live allocations.                   *)
(* Any allocation, AddFB2 or commit may fail, and a signal may come at any *)
(* time. External: DRM core, whose RmFB of the buffer on screen turns the  *)
(* plane off.                                                              *)
(***************************************************************************)
EXTENDS Integers, Sequences, FiniteSets

CONSTANTS
    Count,      \* flip --count
    Hops,       \* allocations ion_end_bound walks (64 in the code)
    Memory      \* addresses 1 .. Memory hold the ION allocations

NATIVE_W == 1280
NATIVE_H == 720
U16_MAX == 65535
NoFb == 2       \* no framebuffer on screen

VARIABLES
    cmd,        \* "none" (not run), "reject", "bars", "flip" or "ion"
    fault,      \* what the driver does wrong, or "none"
    pc, stop, ret,
    slot, live, id,     \* the framebuffer at hand; GEM objects and fb ids of the two
    screen, colour, found, props,   \* the plane; what kms_open saw; it has colour properties
    row, add, test, failed, done, shown,    \* reject's rows, flip's counts
    broke,      \* a call failed that the driver's checks do not explain (history)
    allocs, phys        \* the live ION allocations; where the walk is

frames == <<slot, live, id>>
plane == <<screen, colour, found, props>>
counts == <<row, add, test, failed, done, shown>>
ion == <<allocs, phys>>
vars == <<cmd, fault, pc, stop, ret, frames, plane, counts, broke, ion>>

-----------------------------------------------------------------------------
(* soph_pipe_check(): what the driver scans at the CRTC's mode. A fault    *)
(* leaves one check out, or refuses a layout that is fine.                 *)

Layout(accept, gop, fmt, w, h, p0, p1, o1, nobj) ==
    [accept |-> accept, gop |-> gop, fmt |-> fmt, w |-> w, h |-> h, p0 |-> p0, p1 |-> p1,
     o1 |-> o1, nobj |-> nobj]

reject_cases == <<
    Layout(TRUE, FALSE, "RGB888", 1280, 720, 3840, 0, 0, 1),
    Layout(TRUE, FALSE, "NV12", 1280, 720, 1280, 1280, 942080, 1),
    Layout(TRUE, FALSE, "NV12", 1280, 720, 1280, 1280, 0, 2),
    Layout(FALSE, FALSE, "NV12", 1280, 720, 1288, 1280, 942080, 1),
    Layout(FALSE, FALSE, "NV12", 1280, 720, 1280, 1280, 942096, 1),
    Layout(TRUE, TRUE, "XRGB8888", 640, 360, 2560, 0, 0, 1),
    Layout(FALSE, TRUE, "NV12", 640, 360, 640, 640, 245760, 1),
    Layout(FALSE, FALSE, "XRGB8888", 1280, 720, 5120, 0, 0, 1)>>

RejectFaults == {"no pitch check", "no address check", "GOP takes NV12", "native takes XRGB",
                 "no NV12", "no second object"}

Size(l) == l.w = NATIVE_W /\ l.h = NATIVE_H
Aligned(n, check) == fault = check \/ n % 32 = 0

PipeCheck(l) ==
    IF ~l.gop
    THEN \/ l.fmt = "RGB888" /\ Size(l) /\ l.p0 % 32 = 0 /\ l.p0 <= U16_MAX
         \/ /\ l.fmt = "NV12" /\ fault # "no NV12" /\ Size(l)
            /\ Aligned(l.p0, "no pitch check") /\ Aligned(l.p1, "no pitch check")
            /\ l.p0 <= U16_MAX /\ l.p1 <= U16_MAX
            /\ Aligned(l.o1, "no address check")
            /\ l.nobj = 2 => fault # "no second object"
         \/ l.fmt = "XRGB8888" /\ fault = "native takes XRGB"
    ELSE \/ l.fmt = "XRGB8888" /\ l.w <= NATIVE_W
         \/ l.fmt = "NV12" /\ fault = "GOP takes NV12"

-----------------------------------------------------------------------------
(* kms_lookup_props(): a plane without colour properties, or with values   *)
(* that cannot be read, is used without them.                              *)
LookupProps == found' = colour /\ props' \in BOOLEAN

(* kms_open(): every early failure exits 2 with nothing changed. *)
KmsOpen ==
    /\ pc = "open" /\ cmd # "ion"
    /\ \/ pc' = "exit" /\ ret' = 2 /\ broke' = TRUE /\ UNCHANGED <<found, props>>
       \/ pc' = "alloc" /\ LookupProps /\ UNCHANGED <<ret, broke>>
    /\ UNCHANGED <<cmd, fault, stop, frames, screen, colour, counts, ion>>

Needed == IF cmd = "reject" THEN reject_cases[row].nobj ELSE 1

(* fb_alloc(): dumb_create() may fail before or after it got its handle. *)
Alloc ==
    /\ pc = "alloc"
    /\ \/ /\ live' = [live EXCEPT ![slot] = @ + 1]
          /\ pc' = IF live[slot] + 1 < Needed THEN "alloc" ELSE "add"
          /\ UNCHANGED <<ret, broke>>
       \/ /\ \/ live' = live
             \/ live' = [live EXCEPT ![slot] = @ + 1]
          /\ ret' = 2 /\ broke' = TRUE /\ pc' = "free"
    /\ UNCHANGED <<cmd, fault, stop, slot, id, plane, counts, ion>>

(* fb_add(); flip prepares its second framebuffer next. *)
Add ==
    /\ pc = "add"
    /\ \/ /\ id' = [id EXCEPT ![slot] = TRUE]
          /\ pc' = CASE cmd = "reject" -> "test"
                     [] cmd = "flip" /\ slot = 0 -> "alloc"
                     [] OTHER -> "commit"
          /\ slot' = IF cmd = "flip" THEN 1 ELSE slot
          /\ add' = TRUE /\ UNCHANGED <<ret, broke>>
       \/ /\ pc' = "free" /\ broke' = TRUE /\ add' = FALSE
          /\ ret' = IF cmd = "reject" THEN ret ELSE 2
          /\ UNCHANGED <<id, slot>>
    /\ UNCHANGED <<cmd, fault, stop, live, plane, row, test, failed, done, shown, ion>>

(* fb_destroy(): the framebuffer, then its objects. *)
Destroyed(s) ==
    /\ id' = [id EXCEPT ![s] = FALSE]
    /\ live' = [live EXCEPT ![s] = 0]
    /\ screen' = IF screen = s THEN NoFb ELSE screen

(* bars and flip: from the last framebuffer to the first, then kms_close. *)
Free ==
    /\ pc = "free" /\ cmd # "reject"
    /\ Destroyed(slot)
    /\ IF slot = 1 THEN slot' = 0 /\ UNCHANGED pc ELSE pc' = "close" /\ UNCHANGED slot
    /\ UNCHANGED <<cmd, fault, stop, ret, colour, found, props, counts, broke, ion>>

-----------------------------------------------------------------------------
(* cmd_reject(): a TEST_ONLY commit per row. EINVAL is the driver's word;  *)
(* any other error is a failure of the commit.                             *)
Test ==
    /\ pc = "test" /\ pc' = "free"
    /\ \/ test' = (IF PipeCheck(reject_cases[row]) THEN "ok" ELSE "EINVAL") /\ UNCHANGED broke
       \/ test' = "error" /\ broke' = TRUE
    /\ UNCHANGED <<cmd, fault, stop, ret, frames, plane, row, add, failed, done, shown, ion>>

RowOk(c) == add /\ IF test = "ok" THEN c.accept ELSE ~c.accept /\ test = "EINVAL"

RejectRow ==
    /\ pc = "free" /\ cmd = "reject"
    /\ Destroyed(slot)
    /\ LET bad == failed + (IF RowOk(reject_cases[row]) THEN 0 ELSE 1)
       IN  CASE ret = 2 -> pc' = "close" /\ UNCHANGED <<row, failed, ret>>
             [] ret # 2 /\ row < Len(reject_cases) -> /\ row' = row + 1 /\ failed' = bad /\ pc' = "alloc"
                                         /\ UNCHANGED ret
             [] OTHER -> /\ failed' = bad /\ ret' = (IF bad > 0 THEN 1 ELSE 0) /\ pc' = "close"
                         /\ UNCHANGED row
    /\ test' = "ok" /\ add' = FALSE
    /\ UNCHANGED <<cmd, fault, stop, slot, colour, found, props, done, shown, broke, ion>>

-----------------------------------------------------------------------------
(* cmd_bars() and cmd_flip(): the modeset, with the colour properties for  *)
(* an NV12 picture (bars) or always (flip).                                *)
Commit ==
    /\ pc = "commit"
    /\ \/ /\ screen' = 0
          /\ \E nv12 \in BOOLEAN :
                colour' = IF props /\ (nv12 \/ cmd = "flip") THEN "test" ELSE colour
          /\ pc' = IF cmd = "bars" THEN "show" ELSE "settle"
          /\ UNCHANGED <<ret, broke>>
       \/ ret' = 1 /\ pc' = "free" /\ broke' = TRUE /\ UNCHANGED <<screen, colour>>
    /\ UNCHANGED <<cmd, fault, stop, frames, found, props, counts, ion>>

(* sleep_s(): the time is up, or a signal came. *)
Show ==
    /\ pc = "show" /\ pc' = "free"
    /\ UNCHANGED <<cmd, fault, stop, ret, frames, plane, counts, broke, ion>>

Settle ==
    /\ pc = "settle"
    /\ IF stop THEN pc' = "free" /\ ret' = 1 ELSE pc' = "flip" /\ UNCHANGED ret
    /\ UNCHANGED <<cmd, fault, stop, frames, plane, counts, broke, ion>>

(* One flip: a plane update; a failed one is counted and the loop goes on. *)
Flip ==
    /\ pc = "flip" /\ done < Count /\ ~stop
    /\ done' = done + 1
    /\ \/ screen' = (done + 1) % 2 /\ shown' = shown + 1 /\ UNCHANGED <<failed, broke>>
       \/ failed' = failed + 1 /\ broke' = TRUE /\ UNCHANGED <<screen, shown>>
    /\ UNCHANGED <<cmd, fault, pc, stop, ret, frames, colour, found, props, row, add, test, ion>>

FlipResult == IF failed > 0 \/ done < Count THEN 1 ELSE 0

FlipEnd ==
    /\ pc = "flip" /\ (done = Count \/ stop)
    /\ ret' = FlipResult /\ pc' = "free"
    /\ UNCHANGED <<cmd, fault, stop, frames, plane, counts, broke, ion>>

(* kms_restore_color(): a plane update of the two properties alone, which  *)
(* is only reported when it fails.                                         *)
Restored == IF props THEN found ELSE colour

KmsClose ==
    /\ pc = "close"
    /\ \/ colour' = Restored /\ pc' = "exit"
       \/ colour' = colour /\ pc' = "unrestored"
    /\ UNCHANGED <<cmd, fault, stop, ret, frames, screen, found, props, counts, broke, ion>>

Ended == pc \in {"exit", "unrestored"}

(* on_signal() *)
Signal ==
    /\ ~Ended /\ pc # "idle" /\ cmd # "ion" /\ ~stop /\ stop' = TRUE
    /\ UNCHANGED <<cmd, fault, pc, ret, frames, plane, counts, broke, ion>>

-----------------------------------------------------------------------------
(* cmd_ion_reject() with --live. SOPH_ION_IOC_EXPORT finds the allocation  *)
(* an address is in; a faulty one is wrong by one at the end, exports what *)
(* it must refuse or gives the wrong access.                               *)

IonFaults == {"end included", "last byte refused", "any address", "flags ignored", "not read-write",
              "writable read-only"}

Covers(a, p) ==
    /\ a.base <= p
    /\ p < a.base + a.size + (CASE fault = "end included" -> 1
                                [] fault = "last byte refused" -> 0 - 1
                                [] OTHER -> 0)

(* Every address is refused, or exported as part of an allocation. *)
Exports(p) == {a \in allocs : Covers(a, p)}

(* ion_refused(): addresses that are no allocation's, and unknown flags. *)
IonRefused == fault \notin {"any address", "flags ignored"} /\ Exports(0) = {} /\ Exports(Memory + 2) = {}

(* ion_exported() and ion_exported_rdonly(), of the live allocation. *)
IonExported == Exports(phys) # {} /\ fault \notin {"not read-write", "writable read-only"}

(* cmd_ion_reject(): every check is made, and counts. *)
IonChecks ==
    /\ cmd = "ion" /\ pc = "open" /\ pc' = "walk"
    /\ failed' = IF IonRefused /\ IonExported THEN 0 ELSE 1
    /\ UNCHANGED <<cmd, fault, stop, ret, frames, plane, row, add, test, done, shown, broke, ion>>

IonFail == ret' = 1 /\ pc' = "exit" /\ UNCHANGED <<phys, row>>

(* The byte after the end: EINVAL, or the start of the next allocation. *)
AfterEnd(next) ==
    IF Exports(next) = {} THEN ret' = failed /\ pc' = "exit" /\ UNCHANGED <<phys, row>>
    ELSE \E b \in Exports(next) :
            IF b.base # next \/ row = Hops THEN IonFail
            ELSE phys' = next /\ row' = row + 1 /\ UNCHANGED <<ret, pc>>

(* Mutant: that the byte before the bound exports is not tried. *)
LastByteAnyhow(a, last) == {TRUE}

(* The last byte must export as part of the same allocation. *)
LastByte(a, last) == IF Exports(last) = {} THEN {FALSE} ELSE {b = a : b \in Exports(last)}

(* ion_end_bound(): one allocation of the walk. *)
IonHop ==
    /\ cmd = "ion" /\ pc = "walk"
    /\ IF Exports(phys) = {} THEN IonFail
       ELSE \E a \in Exports(phys) :
              LET last == a.base + a.size - 1
              IN  \E ok \in LastByte(a, last) : IF ok THEN AfterEnd(last + 1) ELSE IonFail
    /\ UNCHANGED <<cmd, fault, stop, frames, plane, add, test, failed, done, shown, broke, allocs>>

-----------------------------------------------------------------------------
Layouts == {S \in SUBSET {a \in [base : 1 .. Memory, size : 1 .. Memory] :
                            a.base + a.size <= Memory + 1} :
              S # {} /\ \A a, b \in S : a = b \/ a.base + a.size <= b.base \/ b.base + b.size <= a.base}

Start ==
    /\ pc = "open" /\ stop = FALSE
    /\ \/ cmd \in {"bars", "flip"} /\ fault = "none" /\ allocs = {} /\ phys = 0
       \/ cmd = "reject" /\ fault \in {"none"} \cup RejectFaults /\ allocs = {} /\ phys = 0
       \/ /\ cmd = "ion" /\ fault \in {"none"} \cup IonFaults /\ allocs \in Layouts
          /\ phys \in 1 .. Memory /\ \E a \in allocs : a.base <= phys /\ phys < a.base + a.size

Rest ==
    /\ ret = 0 /\ slot = 0 /\ live = [s \in 0 .. 1 |-> 0] /\ id = [s \in 0 .. 1 |-> FALSE]
    /\ screen = NoFb /\ colour = "before" /\ found = "before" /\ props = FALSE
    /\ row = 1 /\ add = FALSE /\ test = "ok" /\ failed = 0 /\ done = 0 /\ shown = 0
    /\ broke = FALSE

Init == Start /\ Rest

Next == \/ KmsOpen \/ Alloc \/ Add \/ Free \/ Test \/ RejectRow \/ Commit \/ Show \/ Settle
        \/ Flip \/ FlipEnd \/ KmsClose \/ Signal \/ IonChecks \/ IonHop

-----------------------------------------------------------------------------
(* "every KMS command puts back the values it found before it exits, on    *)
(* SIGINT, SIGTERM and SIGHUP too", through every failed step; only the    *)
(* restoring commit itself may fail.                                       *)
ColoursBack == pc = "exit" => colour = found

(* No framebuffer and no buffer is left when badge-kms-check closes the    *)
(* device, whichever allocation, AddFB2, commit or flip failed before.     *)
BuffersFreed == pc = "close" => \A s \in 0 .. 1 : live[s] = 0 /\ ~id[s]

(* reject "Exits 0 only if every row behaves as expected": with a driver   *)
(* that checks everything it exits 0, and with one that lacks the check a  *)
(* row of the table is there for, or refuses what it should scan, never.   *)
(* A check that no row is about may be missing (RejectFaults).             *)
RejectFindsFaults ==
    cmd = "reject" /\ Ended =>
        /\ ret = 0 => fault = "none"
        /\ fault = "none" /\ ~broke => ret = 0

(* flip exits 0 only if each of the flips asked for was committed. *)
FlipCounts == cmd = "flip" /\ Ended /\ ret = 0 => shown = Count

(* ion-reject "Exits 0 only if every case behaves as expected": the walk   *)
(* tells the exact end bound from one that is off by one, whatever         *)
(* allocations lie next to each other, and passes the exact one unless the *)
(* row of neighbours is longer than it walks.                              *)
IonFindsFaults ==
    cmd = "ion" /\ pc = "exit" =>
        /\ ret = 0 => fault = "none"
        /\ fault = "none" /\ Cardinality(allocs) <= Hops => ret = 0
=============================================================================
