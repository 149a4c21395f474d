----------------------------- MODULE SophIonMmap -----------------------------
(***************************************************************************)
(* The user mappings of one exported ION buffer on a device that is not    *)
(* DMA-coherent: which are cacheable, and the cache maintenance that keeps *)
(* a reader that brackets its access from seeing a frame older than its    *)
(* DMA_BUF_SYNC_START.  The buffer is one cache line, since each line of   *)
(* it is filled, dropped and read by itself; its content is the number of  *)
(* the frame the device wrote last.                                        *)
(***************************************************************************)
EXTENDS Naturals, FiniteSets

CONSTANTS
  Vmas,     \* mappings of the buffer
  Readers,  \* threads that read through them
  NoLine,   \* the line is not in the cache
  MaxFrame  \* the frames the device writes

ASSUME MmapAssumption ==
  /\ IsFiniteSet(Vmas)
  /\ MaxFrame \in Nat
  /\ NoLine \notin Nat

VARIABLES
  cached_mmap, \* the module parameter
  vma,         \* a mapping: none, write-combined, cached, or counted by a
               \* soph_ion_mmap that has not dropped the line yet
  cached_maps, \* b->cached_maps
  dram,        \* the frame in memory
  line,        \* the frame in the cache
  rd           \* a reader: in a START, inside the bracket or outside; the frame
               \* in memory at its START and the one it read last

vars == <<cached_mmap, vma, cached_maps, dram, line, rd>>

Frames == 0 .. MaxFrame

Outside == [pc |-> "out", from |-> 0, got |-> NoLine]

TypeOK ==
  /\ cached_mmap \in BOOLEAN
  /\ vma \in [Vmas -> {"none", "wc", "mapping", "cached"}]
  /\ cached_maps \in Nat
  /\ dram \in Frames
  /\ line \in Frames \cup {NoLine}
  /\ rd \in [Readers -> [pc : {"out", "sync", "in"}, from : Frames,
                         got : Frames \cup {NoLine}]]

Init ==
  /\ cached_mmap \in BOOLEAN
  /\ vma = [v \in Vmas |-> "none"]
  /\ cached_maps = 0
  /\ dram = 0
  /\ line = NoLine
  /\ rd = [r \in Readers |-> Outside]

-----------------------------------------------------------------------------
\* cached_mmap_set, which this device does not refuse.
CachedMmapSet(on) ==
  /\ cached_mmap' = on
  /\ UNCHANGED <<vma, cached_maps, dram, line, rd>>

\* soph_ion_mmap of a read-only mapping while the parameter is on: counted
\* first, then the lines an earlier map or the linear alias left are dropped.
MmapCount(v) ==
  /\ vma[v] = "none" /\ cached_mmap
  /\ vma' = [vma EXCEPT ![v] = "mapping"]
  /\ cached_maps' = cached_maps + 1
  /\ UNCHANGED <<cached_mmap, dram, line, rd>>

\* Mutant of MmapSync: the lines from before the mapping stay.
MmapSyncSkipped(v) ==
  /\ vma[v] = "mapping"
  /\ vma' = [vma EXCEPT ![v] = "cached"]
  /\ UNCHANGED <<cached_mmap, cached_maps, dram, line, rd>>

MmapSync(v) ==
  /\ vma[v] = "mapping"
  /\ line' = NoLine
  /\ vma' = [vma EXCEPT ![v] = "cached"]
  /\ UNCHANGED <<cached_mmap, cached_maps, dram, rd>>

\* Any other mapping is write-combined: no cache between it and memory.
MmapCoherent(v, writable) ==
  /\ vma[v] = "none" /\ (writable \/ ~cached_mmap)
  /\ vma' = [vma EXCEPT ![v] = "wc"]
  /\ UNCHANGED <<cached_mmap, cached_maps, dram, line, rd>>

\* Mutant of VmOpen: a forked mapping is not counted.
VmOpenUncounted(v, w) ==
  /\ vma[v] \in {"cached", "wc"} /\ vma[w] = "none"
  /\ vma' = [vma EXCEPT ![w] = vma[v]]
  /\ UNCHANGED <<cached_mmap, cached_maps, dram, line, rd>>

\* fork, mremap or a split makes mapping w of v.
VmOpen(v, w) ==
  /\ vma[v] \in {"cached", "wc"} /\ vma[w] = "none"
  /\ vma' = [vma EXCEPT ![w] = vma[v]]
  /\ cached_maps' = IF vma[v] = "cached" THEN cached_maps + 1 ELSE cached_maps
  /\ UNCHANGED <<cached_mmap, dram, line, rd>>

\* Mutant of VmClose: closing a write-combined mapping is counted too.
VmCloseAny(v) ==
  /\ vma[v] \in {"cached", "wc"}
  /\ vma' = [vma EXCEPT ![v] = "none"]
  /\ cached_maps' = cached_maps - 1
  /\ UNCHANGED <<cached_mmap, dram, line, rd>>

VmClose(v) ==
  /\ vma[v] \in {"cached", "wc"}
  /\ vma' = [vma EXCEPT ![v] = "none"]
  /\ cached_maps' = IF vma[v] = "cached" THEN cached_maps - 1 ELSE cached_maps
  /\ UNCHANGED <<cached_mmap, dram, line, rd>>

\* DMA_BUF_IOCTL_SYNC START: soph_ion_begin_cpu_access looks at the count,
\* then drops the lines.
BeginCpuAccess(r) ==
  /\ rd[r].pc = "out"
  /\ rd' = [rd EXCEPT ![r] = [pc |-> IF cached_maps # 0 THEN "sync" ELSE "in",
                              from |-> dram, got |-> NoLine]]
  /\ UNCHANGED <<cached_mmap, vma, cached_maps, dram, line>>

BeginSync(r) ==
  /\ rd[r].pc = "sync"
  /\ line' = NoLine
  /\ rd' = [rd EXCEPT ![r].pc = "in"]
  /\ UNCHANGED <<cached_mmap, vma, cached_maps, dram>>

\* SYNC END maintains nothing.
EndCpuAccess(r) ==
  /\ rd[r].pc = "in"
  /\ rd' = [rd EXCEPT ![r] = Outside]
  /\ UNCHANGED <<cached_mmap, vma, cached_maps, dram, line>>

-----------------------------------------------------------------------------
\* A bracketed read, through the cache when the mapping is cached.
Read(r, v) ==
  /\ rd[r].pc = "in" /\ vma[v] \in {"cached", "wc"}
  /\ LET hit == vma[v] = "cached" /\ line # NoLine IN
       rd' = [rd EXCEPT ![r].got = IF hit THEN line ELSE dram]
  /\ line' = IF vma[v] = "cached" /\ line = NoLine THEN dram ELSE line
  /\ UNCHANGED <<cached_mmap, vma, cached_maps, dram>>

\* The display or decoder writes a frame to memory.
DeviceWrite ==
  /\ dram < MaxFrame
  /\ dram' = dram + 1
  /\ UNCHANGED <<cached_mmap, vma, cached_maps, line, rd>>

\* The CPU fetches the line ahead of any read, through a cached mapping or
\* the kernel's linear alias, and may drop it again.
Prefetch ==
  /\ line = NoLine
  /\ line' = dram
  /\ UNCHANGED <<cached_mmap, vma, cached_maps, dram, rd>>

Evict ==
  /\ line # NoLine
  /\ line' = NoLine
  /\ UNCHANGED <<cached_mmap, vma, cached_maps, dram, rd>>

Next ==
  \/ \E on \in BOOLEAN : CachedMmapSet(on)
  \/ \E v \in Vmas :
       \/ MmapCount(v) \/ MmapSync(v) \/ VmClose(v)
       \/ \E writable \in BOOLEAN : MmapCoherent(v, writable)
       \/ \E w \in Vmas : VmOpen(v, w)
  \/ \E r \in Readers :
       \/ BeginCpuAccess(r) \/ BeginSync(r) \/ EndCpuAccess(r)
       \/ \E v \in Vmas : Read(r, v)
  \/ DeviceWrite \/ Prefetch \/ Evict

Spec == Init /\ [][Next]_vars

-----------------------------------------------------------------------------
\* "The mmap and every START drop the buffer's stale lines": no read inside a
\* bracket returns a frame older than the one in memory at the bracket's
\* START, whatever is mapped, forked, unmapped or reconfigured meanwhile.
BracketedReadsFresh ==
  \A r \in Readers :
    rd[r].pc = "in" /\ rd[r].got # NoLine => rd[r].got >= rd[r].from

-----------------------------------------------------------------------------
Counted == {v \in Vmas : vma[v] \in {"mapping", "cached"}}

\* Behind it: the count is the number of cached mappings, and inside a
\* bracket the line a cached mapping would hit is no older than the START.
CacheInv ==
  /\ cached_maps = Cardinality(Counted)
  /\ line # NoLine => line <= dram
  /\ \A r \in Readers :
       /\ rd[r].from <= dram
       /\ rd[r].pc = "in" /\ line # NoLine /\ (\E v \in Vmas : vma[v] = "cached")
            => line >= rd[r].from
       /\ rd[r].pc # "in" => rd[r].got = NoLine
  /\ BracketedReadsFresh
=============================================================================
