------------------------------ MODULE CodaMaps ------------------------------
(***************************************************************************)
(* What coda-cube opens, exports and maps, and how it reads a frame        *)
(* (coda-cube.c, present-dmabuf.c).                                        *)
(*                                                                         *)
(* A frame is two physical addresses. The copying routes map the ION       *)
(* allocation behind each, once (map_get), and bracket the reads with      *)
(* DMA_BUF_IOCTL_SYNC on the descriptor of the map a pointer falls in      *)
(* (map_of, frame_sync). The zero-copy route exports the allocation once   *)
(* per frame address and gives it to the presenter (zc_get). --dmabuf also *)
(* makes dumb buffers (db_open). Every step can fail, and the end of       *)
(* main() undoes what was done. CodaCube has the frame loop, CodaSession   *)
(* the decoder device and the channel.                                     *)
(***************************************************************************)
EXTENDS Integers, Sequences, FiniteSets

CONSTANTS
    Allocs,     \* the ION allocations: records [start, size], disjoint
    YLEN, CLEN, \* bytes of a frame's luma and chroma
    Bases,      \* virtual addresses mmap may choose
    DB_N,       \* dumb buffers of --dmabuf
    MAXMAPS,    \* room in g_maps (64)
    MAXZC,      \* room in g_zc (MAX_HELD)
    MaxFd       \* bound: the descriptor table

VARIABLES
    route,      \* "shm" | "dmabuf" | "zero"
    uncached,   \* g_uncached
    pc,
    fdt,        \* the process's descriptors: what each one is
    drm, ion, mapion,   \* g_drm, g_ion, g_mapion: a descriptor, or -1
    db,         \* g_db
    dumb,       \* the dumb buffers that exist on the card
    pres,       \* the presenter: [up, dead, nbuf]
    zc,         \* g_zc: [pa, uv, fd, idx]
    maps,       \* g_maps: [start, size, base, fd]
    frame, yp, cp, shown,   \* the picture at hand, its pointers, its ZcBuf
    sync        \* [descriptor -> STARTs without their END]

files == <<fdt, drm, ion, mapion>>
bufs == <<db, dumb, pres, zc>>
picture == <<frame, yp, cp, shown, sync>>
vars == <<route, uncached, pc, files, bufs, maps, picture>>

Fds == 0 .. MaxFd
Slots == 0 .. DB_N - 1
Free == [kind |-> "free", start |-> 0, size |-> 0]
Is(kind) == [Free EXCEPT !.kind = kind]
Dma(a) == [kind |-> "dma", start |-> a.start, size |-> a.size]

(* open() and every call that makes a descriptor: the lowest free one. A    *)
(* full table is one more reason for the call to fail (EMFILE).            *)
LowestFree(n) == fdt[n] = Free /\ \A k \in 0 .. n - 1 : fdt[k] # Free
NewFd == CHOOSE n \in Fds : LowestFree(n)
Opened(file) == (\E n \in Fds : LowestFree(n)) /\ fdt' = [fdt EXCEPT ![NewFd] = file]
Closed(S) == [n \in Fds |-> IF n \in S THEN Free ELSE fdt[n]]

Addrs == UNION {a.start .. a.start + a.size - 1 : a \in Allocs}
NoFrame == [y |-> -1, c |-> -1]

Init ==
    /\ route \in {"shm", "dmabuf", "zero"} /\ uncached \in BOOLEAN
    /\ pc = "zcopen"
    /\ fdt = [n \in Fds |-> IF n = 0 THEN Is("std") ELSE Free]
    /\ drm = -1 /\ ion = -1 /\ mapion = -1
    /\ db = [i \in Slots |-> [fd |-> 0, handle |-> FALSE, map |-> FALSE]]
    /\ dumb = {}
    /\ pres = [up |-> FALSE, dead |-> FALSE, nbuf |-> 0]
    /\ zc = <<>> /\ maps = <<>>
    /\ frame = NoFrame /\ yp = -1 /\ cp = -1 /\ shown = 0
    /\ sync = [n \in Fds |-> 0]

-----------------------------------------------------------------------------
(* Setup. *)

(* zc_open(), before the privileges are dropped; without it main returns. *)
ZcOpen ==
    /\ pc = "zcopen"
    /\ IF route # "zero" THEN pc' = "create" /\ UNCHANGED <<fdt, ion>>
       ELSE \/ Opened(Is("ion")) /\ ion' = NewFd /\ pc' = "create"
            \/ pc' = "quit" /\ UNCHANGED <<fdt, ion>>
    /\ UNCHANGED <<route, uncached, drm, mapion, bufs, maps, picture>>

(* dmabuf_presenter_create(): not a Wayland window, no queue, a lost       *)
(* connection or no zwp_linux_dmabuf_v1; it takes down what it made.       *)
PresenterCreate ==
    /\ pc = "create"
    /\ IF route = "shm" THEN pc' = "vdopen" /\ UNCHANGED pres
       ELSE \/ pres' = [pres EXCEPT !.up = TRUE]
               /\ pc' = IF route = "zero" THEN "vdopen" ELSE "dbopen"
            \/ pc' = "pres" /\ UNCHANGED pres
    /\ UNCHANGED <<route, uncached, files, db, dumb, zc, maps, picture>>

(* db_open(), up to the loop: g_db's descriptors become -1 first. *)
DbOpen ==
    /\ pc = "dbopen"
    /\ db' = [i \in Slots |-> [fd |-> -1, handle |-> FALSE, map |-> FALSE]]
    /\ \/ /\ Opened(Is("drm")) /\ drm' = NewFd
          /\ pc' \in {"dbbuf", "pres"}              \* "pres": not sophdrm
       \/ pc' = "pres" /\ UNCHANGED <<drm, fdt>>    \* no card1
    /\ UNCHANGED <<route, uncached, ion, mapion, dumb, pres, zc, maps, picture>>

(* dmabuf_presenter_add_buffer(): the index, or -1 and a dead presenter. *)
AddBuffer(idx) ==
    \/ ~pres.dead /\ idx = pres.nbuf /\ pres' = [pres EXCEPT !.nbuf = @ + 1]
    \/ idx = -1 /\ pres' = [pres EXCEPT !.dead = TRUE]

(* One round of db_open()'s loop: CREATE_DUMB, its pitch and size, MAP_DUMB *)
(* and PRIME_HANDLE_TO_FD, mmap, the presenter; any of them ends db_open.  *)
DbBuffer ==
    /\ pc = "dbbuf"
    /\ LET i == Cardinality(dumb)
           Now(fd, map) == db' = [db EXCEPT ![i] = [fd |-> fd, handle |-> TRUE, map |-> map]]
           exported == Opened([kind |-> "dumb", start |-> i, size |-> 0])
       IN \/ pc' = "pres" /\ UNCHANGED <<db, dumb, fdt, pres>>
          \/ /\ dumb' = dumb \cup {i}
             /\ \/ Now(-1, FALSE) /\ pc' = "pres" /\ UNCHANGED <<fdt, pres>>
                \/ Now(NewFd, FALSE) /\ exported /\ pc' = "pres" /\ UNCHANGED pres
                \/ Now(NewFd, TRUE) /\ exported
                   /\ \E idx \in -1 .. DB_N :
                        /\ AddBuffer(idx)
                        /\ pc' = IF idx < 0 THEN "pres"
                                 ELSE IF i + 1 = DB_N THEN "vdopen" ELSE "dbbuf"
    /\ UNCHANGED <<route, uncached, drm, ion, mapion, zc, maps, picture>>

(* vd_open(): /dev/soph-ion for the maps; `return 4' leaves the rest to exit(). *)
VdOpen ==
    /\ pc = "vdopen"
    /\ \/ pc' = "quit" /\ UNCHANGED <<mapion, fdt>>
       \/ /\ pc' = "loop"
          /\ IF route = "zero" THEN UNCHANGED <<mapion, fdt>>
             ELSE Opened(Is("ion")) /\ mapion' = NewFd
    /\ UNCHANGED <<route, uncached, drm, ion, bufs, maps, picture>>

-----------------------------------------------------------------------------
(* The frame loop's use of a picture. *)

(* A picture of the decoder, wherever it put it. *)
GetFrame ==
    /\ pc = "loop"
    /\ frame' \in [y : Addrs, c : Addrs]
    /\ pc' = IF route = "zero" THEN "zcget" ELSE "mapy"
    /\ UNCHANGED <<route, uncached, files, bufs, maps, yp, cp, shown, sync>>

(* map_get()'s look-up: the whole range, in a map that is there already. *)
Holds(m, pa, len) ==
    pa >= m.start /\ len <= m.size /\ pa - m.start <= m.size - len

Overlaps(b1, s1, b2, s2) == b1 < b2 + s2 /\ b2 < b1 + s1

(* map_get(): the pointer, or -1 for NULL, and the maps afterwards. *)
MapGet(p, pa, len) ==
    LET hits == {k \in DOMAIN maps : Holds(maps[k], pa, len)}
        Got(k) == p' = maps[k].base + (pa - maps[k].start)
    IN IF hits # {}
       THEN (\E k \in hits : (\A j \in hits : k <= j) /\ Got(k)) /\ UNCHANGED <<maps, fdt>>
       ELSE \/ \* room, EXPORT or mmap fails, or the range runs past the allocation
               p' = -1 /\ UNCHANGED <<maps, fdt>>
            \/ /\ Len(maps) < MAXMAPS
               /\ \E a \in Allocs, base \in Bases :
                    /\ pa \in a.start .. a.start + a.size - 1        \* EXPORT found it
                    /\ len <= a.size - (pa - a.start)
                    /\ \A k \in DOMAIN maps : ~Overlaps(base, a.size, maps[k].base, maps[k].size)
                    /\ Opened(Dma(a))
                    /\ maps' = Append(maps, [start |-> a.start, size |-> a.size,
                                             base |-> base, fd |-> NewFd])
                    /\ p' = base + (pa - a.start)

MapY ==
    /\ pc = "mapy" /\ MapGet(yp, frame.y, YLEN) /\ pc' = "mapc"
    /\ UNCHANGED <<route, uncached, drm, ion, mapion, bufs, frame, cp, shown, sync>>

(* Both planes are looked up before either is tested for NULL. *)
MapC ==
    /\ pc = "mapc" /\ MapGet(cp, frame.c, CLEN)
    /\ pc' = IF yp = -1 \/ cp' = -1 THEN "unmap" ELSE "start"
    /\ UNCHANGED <<route, uncached, drm, ion, mapion, bufs, frame, yp, shown, sync>>

(* map_of(): the map a pointer falls in. *)
MapOf(p) == {k \in DOMAIN maps : p >= maps[k].base /\ p < maps[k].base + maps[k].size}

(* frame_sync(): once per map, also when both planes lie in one. *)
Synced == {maps[k].fd : k \in MapOf(yp) \cup MapOf(cp)}

(* map_sync() repeats an interrupted ioctl; the uncached map needs none. *)
FrameSync(d) ==
    sync' = [n \in Fds |-> IF ~uncached /\ n \in Synced THEN sync[n] + d ELSE sync[n]]

SyncStart ==
    /\ pc = "start" /\ FrameSync(1) /\ pc' = "read"
    /\ UNCHANGED <<route, uncached, files, bufs, maps, frame, yp, cp, shown>>

SyncEnd ==
    /\ pc = "read" /\ FrameSync(-1) /\ pc' = "loop"
    /\ frame' = NoFrame /\ yp' = -1 /\ cp' = -1
    /\ UNCHANGED <<route, uncached, files, bufs, maps, shown>>

(* zc_get(): the presenter's planes start at offset 0 of the descriptor. *)
WholeAllocation(a, pa, uv) == pa = a.start /\ uv + CLEN <= a.size

(* zc_get(): the entry of this address, or a new one; NULL ends the loop. *)
ZcGet ==
    /\ pc = "zcget"
    /\ LET uv == frame.c - frame.y
           mine == {k \in DOMAIN zc : zc[k].pa = frame.y}
           entry(fd, idx) == zc' = Append(zc, [pa |-> frame.y, uv |-> uv, fd |-> fd, idx |-> idx])
           exported(a) == frame.y \in a.start .. a.start + a.size - 1
                          /\ Opened(Dma(a))
           null == pc' = "unmap" /\ UNCHANGED shown
       IN IF mine # {}
          THEN /\ \/ \E k \in mine : zc[k].uv = uv /\ shown' = k /\ pc' = "shown"
                  \/ (\A k \in mine : zc[k].uv # uv) /\ null
               /\ UNCHANGED <<zc, fdt, pres>>
          ELSE \/ null /\ UNCHANGED <<zc, fdt, pres>>      \* the checks, or EXPORT
               \/ /\ uv > 0 /\ Len(zc) < MAXZC
                  /\ \E a \in Allocs :
                       /\ exported(a)
                       /\ \/ ~WholeAllocation(a, frame.y, uv) /\ entry(NewFd, -1) /\ null
                             /\ UNCHANGED pres
                          \/ /\ WholeAllocation(a, frame.y, uv)
                             /\ \E idx \in -1 .. MAXZC :
                                  /\ AddBuffer(idx) /\ entry(NewFd, idx)
                                  /\ IF idx < 0 THEN null
                                     ELSE shown' = Len(zc) + 1 /\ pc' = "shown"
    /\ UNCHANGED <<route, uncached, drm, ion, mapion, db, dumb, maps, frame, yp, cp, sync>>

(* sway has read the frame and given it back. *)
Shown ==
    /\ pc = "shown" /\ pc' = "loop" /\ shown' = 0 /\ frame' = NoFrame
    /\ UNCHANGED <<route, uncached, files, bufs, maps, yp, cp, sync>>

-----------------------------------------------------------------------------
(* The end of main(), and of a failed setup from dmabuf_presenter_destroy. *)

Stop ==
    /\ pc = "loop" /\ pc' = "unmap"
    /\ UNCHANGED <<route, uncached, files, bufs, maps, picture>>

UnmapAll ==
    /\ pc = "unmap" /\ pc' = "pres"
    /\ fdt' = Closed({maps[k].fd : k \in DOMAIN maps} \cup ({mapion} \ {-1}))
    /\ maps' = <<>> /\ mapion' = -1
    /\ UNCHANGED <<route, uncached, drm, ion, bufs, picture>>

PresenterDestroy ==
    /\ pc = "pres"
    /\ pres' = [up |-> FALSE, dead |-> FALSE, nbuf |-> 0]
    /\ pc' = IF route = "shm" THEN "done" ELSE "dbclose"
    /\ UNCHANGED <<route, uncached, files, db, dumb, zc, maps, picture>>

(* Mutant: no test for a db_open() that never ran. *)
DbCloseUnguarded ==
    /\ pc = "dbclose" /\ pc' = "zcclose"
    /\ fdt' = Closed(({drm} \cup {db[i].fd : i \in Slots}) \ {-1})
    /\ dumb' = dumb \ {i \in Slots : db[i].handle}
    /\ db' = [i \in Slots |-> [fd |-> -1, handle |-> FALSE, map |-> FALSE]]
    /\ drm' = -1
    /\ UNCHANGED <<route, uncached, ion, mapion, pres, zc, maps, picture>>

DbClose ==
    /\ pc = "dbclose" /\ pc' = "zcclose"
    /\ IF drm < 0 THEN UNCHANGED <<fdt, dumb, db, drm>>   \* g_db may be all zero
       ELSE /\ fdt' = Closed({drm} \cup ({db[i].fd : i \in Slots} \ {-1}))
            /\ dumb' = dumb \ {i \in Slots : db[i].handle}
            /\ db' = [i \in Slots |-> [fd |-> -1, handle |-> FALSE, map |-> FALSE]]
            /\ drm' = -1
    /\ UNCHANGED <<route, uncached, ion, mapion, pres, zc, maps, picture>>

ZcClose ==
    /\ pc = "zcclose" /\ pc' = "done"
    /\ fdt' = Closed({zc[k].fd : k \in DOMAIN zc} \cup ({ion} \ {-1}))
    /\ zc' = <<>> /\ ion' = -1
    /\ UNCHANGED <<route, uncached, drm, mapion, db, dumb, pres, maps, picture>>

Next ==
    \/ ZcOpen \/ PresenterCreate \/ DbOpen \/ DbBuffer \/ VdOpen
    \/ GetFrame \/ MapY \/ MapC \/ SyncStart \/ SyncEnd \/ ZcGet \/ Shown
    \/ Stop \/ UnmapAll \/ PresenterDestroy \/ DbClose \/ ZcClose

Spec == Init /\ [][Next]_vars

-----------------------------------------------------------------------------
(* Every descriptor coda-cube remembers is open and still the file it was  *)
(* opened as (none is closed twice, and none that is not its own, such as  *)
(* descriptor 0 in a g_db that db_open never filled), whatever step of the *)
(* setup failed; an orderly end leaves no descriptor and no dumb buffer.   *)
FdsOwned ==
    /\ fdt[0].kind = "std"
    /\ drm # -1 => fdt[drm].kind = "drm"
    /\ \A n \in {ion, mapion} \ {-1} : fdt[n].kind = "ion"
    /\ drm # -1 => \A i \in Slots : db[i].fd # -1 =>
            fdt[db[i].fd].kind = "dumb" /\ fdt[db[i].fd].start = i
    /\ \A k \in DOMAIN zc : fdt[zc[k].fd].kind = "dma"
    /\ \A k \in DOMAIN maps : fdt[maps[k].fd] = Dma(maps[k])
    /\ pc = "done" => (\A n \in Fds \ {0} : fdt[n] = Free) /\ dumb = {} /\ ~pres.up

(* A pointer reads the memory of the physical range it was asked for. *)
Behind(p, pa, len) ==
    \E k \in DOMAIN maps :
        /\ p >= maps[k].base /\ p + len <= maps[k].base + maps[k].size
        /\ maps[k].start + (p - maps[k].base) = pa

(* While a frame is read, each plane's pointer has the frame's own memory   *)
(* behind its whole length and each map in use is inside exactly one START *)
(* (one, also when both planes share a map); outside a read every START    *)
(* has had its END.                                                        *)
ReadsBracketed ==
    /\ pc \in {"start", "read"} => Behind(yp, frame.y, YLEN) /\ Behind(cp, frame.c, CLEN)
    /\ \A n \in Fds : sync[n] =
            IF pc = "read" /\ ~uncached
               /\ \E k \in DOMAIN maps : maps[k].fd = n
                    /\ \E pa \in {frame.y, frame.c} :
                            pa \in maps[k].start .. maps[k].start + maps[k].size - 1
            THEN 1 ELSE 0

(* What sway imports for a zero-copy frame, both planes counted from the   *)
(* start of the descriptor, is that frame's memory and ends inside it.     *)
ShownIsFrame ==
    pc = "shown" =>
        LET z == zc[shown] a == fdt[z.fd]
        IN /\ z.idx \in 0 .. pres.nbuf - 1
           /\ a.start = frame.y /\ a.start + z.uv = frame.c
           /\ frame.c + CLEN <= a.start + a.size
=============================================================================
