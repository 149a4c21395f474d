-------------------------- MODULE SophIonMmapProofs --------------------------
(***************************************************************************)
(* What MCSophIonMmap's runs check, for every value of the constants.      *)
(* CacheInv of SophIonMmap is inductive, for any number of mappings,       *)
(* readers and frames, and gives that bracketed reads are fresh.           *)
(* SessionInv is the inductive invariant of coda-cube's runs, for any      *)
(* number of them; CheckInv that of badge-kms-check; MapsInv that of what  *)
(* coda-cube opens and maps, for any allocations and descriptor table.     *)
(***************************************************************************)
EXTENDS MCSophIonMmap, Integers, Sequences, FiniteSetTheorems, TLAPS

\* The counted mappings are finitely many, and none is cached when the count
\* is 0, which is when a START drops nothing.
LEMMA CountType ==
  /\ IsFiniteSet(Counted)
  /\ Cardinality(Counted) \in Nat
  /\ Cardinality(Counted) = 0 => \A v \in Vmas : vma[v] # "cached"
  <1>1. IsFiniteSet(Counted)
    BY FS_Subset, MmapAssumption DEF Counted
  <1>2. Cardinality(Counted) \in Nat
    BY <1>1, FS_CardinalityType
  <1>3. Cardinality(Counted) = 0 => Counted = {}
    BY <1>1, FS_EmptySet
  <1> QED
    BY <1>1, <1>2, <1>3 DEF Counted

\* A mapping that becomes counted raises the count by one.
LEMMA CountUp ==
  ASSUME NEW w \in Vmas, w \notin Counted, Counted' = Counted \cup {w}
  PROVE  Cardinality(Counted') = Cardinality(Counted) + 1
  BY CountType, FS_AddElement

\* A counted mapping that goes lowers the count by one, which is not 0 before.
LEMMA CountDown ==
  ASSUME NEW v \in Vmas, v \in Counted, Counted' = Counted \ {v}
  PROVE  /\ Cardinality(Counted') = Cardinality(Counted) - 1
         /\ Cardinality(Counted) # 0
  <1>1. Cardinality(Counted) # 0
    BY CountType, FS_EmptySet
  <1> QED
    BY <1>1, CountType, FS_RemoveElement

\* The first states are well typed and satisfy the invariant.
LEMMA CacheInit == Init => TypeOK /\ CacheInv
  <1> SUFFICES ASSUME Init PROVE TypeOK /\ CacheInv
    OBVIOUS
  <1>1. TypeOK
    BY MmapAssumption DEF Init, TypeOK, Outside, Frames
  <1>2. Counted = {}
    BY DEF Init, Counted
  <1>3. cached_maps = Cardinality(Counted)
    BY <1>2, FS_EmptySet DEF Init
  <1> QED
    BY <1>1, <1>3, MmapAssumption DEF Init, CacheInv, BracketedReadsFresh, Outside

\* Every step keeps types and invariant.
LEMMA CacheStep == TypeOK /\ CacheInv /\ [Next]_vars => TypeOK' /\ CacheInv'
  <1> SUFFICES ASSUME TypeOK, CacheInv, [Next]_vars PROVE TypeOK' /\ CacheInv'
    OBVIOUS
  <1> USE MmapAssumption DEF TypeOK, CacheInv, BracketedReadsFresh, Frames
  <1>1. ASSUME NEW on \in BOOLEAN, CachedMmapSet(on) PROVE TypeOK' /\ CacheInv'
    <2>1. Counted' = Counted
      BY <1>1 DEF CachedMmapSet, Counted
    <2> QED
      BY <1>1, <2>1 DEF CachedMmapSet
  <1>2. ASSUME NEW v \in Vmas, MmapCount(v) PROVE TypeOK' /\ CacheInv'
    <2>1. v \notin Counted /\ Counted' = Counted \cup {v}
      BY <1>2 DEF MmapCount, Counted
    <2>2. cached_maps' = Cardinality(Counted')
      BY <1>2, <2>1, CountUp DEF MmapCount
    <2>3. \A w \in Vmas : vma'[w] = "cached" => vma[w] = "cached"
      BY <1>2 DEF MmapCount
    <2> QED
      BY <1>2, <2>2, <2>3 DEF MmapCount
  <1>3. ASSUME NEW v \in Vmas, MmapSync(v) PROVE TypeOK' /\ CacheInv'
    <2>1. Counted' = Counted
      BY <1>3 DEF MmapSync, Counted
    <2> QED
      BY <1>3, <2>1 DEF MmapSync
  <1>4. ASSUME NEW v \in Vmas, NEW writable \in BOOLEAN, MmapCoherent(v, writable)
        PROVE  TypeOK' /\ CacheInv'
    <2>1. Counted' = Counted
      BY <1>4 DEF MmapCoherent, Counted
    <2>2. \A w \in Vmas : vma'[w] = "cached" => vma[w] = "cached"
      BY <1>4 DEF MmapCoherent
    <2> QED
      BY <1>4, <2>1, <2>2 DEF MmapCoherent
  <1>5. ASSUME NEW v \in Vmas, NEW w \in Vmas, VmOpen(v, w)
        PROVE  TypeOK' /\ CacheInv'
    <2>1. cached_maps' = Cardinality(Counted')
      <3>1. CASE vma[v] = "cached"
        <4>1. w \notin Counted /\ Counted' = Counted \cup {w}
          BY <1>5, <3>1 DEF VmOpen, Counted
        <4> QED
          BY <1>5, <3>1, <4>1, CountUp DEF VmOpen
      <3>2. CASE vma[v] = "wc"
        <4>1. Counted' = Counted
          BY <1>5, <3>2 DEF VmOpen, Counted
        <4> QED
          BY <1>5, <3>2, <4>1 DEF VmOpen
      <3> QED
        BY <1>5, <3>1, <3>2 DEF VmOpen
    <2>2. (\E u \in Vmas : vma'[u] = "cached") => \E u \in Vmas : vma[u] = "cached"
      BY <1>5 DEF VmOpen
    <2>3. TypeOK'
      BY <1>5 DEF VmOpen
    <2> QED
      BY <1>5, <2>1, <2>2, <2>3 DEF VmOpen
  <1>6. ASSUME NEW v \in Vmas, VmClose(v) PROVE TypeOK' /\ CacheInv'
    <2>1. cached_maps' = Cardinality(Counted') /\ cached_maps' \in Nat
      <3>1. CASE vma[v] = "cached"
        <4>1. v \in Counted /\ Counted' = Counted \ {v}
          BY <1>6, <3>1 DEF VmClose, Counted
        <4>2. /\ Cardinality(Counted') = Cardinality(Counted) - 1
              /\ Cardinality(Counted) # 0
          BY <4>1, CountDown
        <4>3. cached_maps' = cached_maps - 1
          BY <1>6, <3>1 DEF VmClose
        <4> QED
          BY <4>2, <4>3
      <3>2. CASE vma[v] = "wc"
        <4>1. Counted' = Counted
          BY <1>6, <3>2 DEF VmClose, Counted
        <4> QED
          BY <1>6, <3>2, <4>1 DEF VmClose
      <3> QED
        BY <1>6, <3>1, <3>2 DEF VmClose
    <2>2. \A u \in Vmas : vma'[u] = "cached" => vma[u] = "cached"
      BY <1>6 DEF VmClose
    <2>3. TypeOK'
      BY <1>6, <2>1 DEF VmClose
    <2> QED
      BY <1>6, <2>1, <2>2, <2>3 DEF VmClose
  <1>7. ASSUME NEW r \in Readers, BeginCpuAccess(r) PROVE TypeOK' /\ CacheInv'
    <2>1. Counted' = Counted
      BY <1>7 DEF BeginCpuAccess, Counted
    <2>2. cached_maps = 0 => \A v \in Vmas : vma[v] # "cached"
      BY CountType
    <2> QED
      BY <1>7, <2>1, <2>2 DEF BeginCpuAccess
  <1>8. ASSUME NEW r \in Readers, BeginSync(r) PROVE TypeOK' /\ CacheInv'
    <2>1. Counted' = Counted
      BY <1>8 DEF BeginSync, Counted
    <2> QED
      BY <1>8, <2>1 DEF BeginSync
  <1>9. ASSUME NEW r \in Readers, EndCpuAccess(r) PROVE TypeOK' /\ CacheInv'
    <2>1. Counted' = Counted
      BY <1>9 DEF EndCpuAccess, Counted
    <2> QED
      BY <1>9, <2>1 DEF EndCpuAccess, Outside
  <1>10. ASSUME NEW r \in Readers, NEW v \in Vmas, Read(r, v)
         PROVE  TypeOK' /\ CacheInv'
    <2>1. Counted' = Counted
      BY <1>10 DEF Read, Counted
    <2>2. TypeOK'
      BY <1>10 DEF Read
    <2> QED
      BY <1>10, <2>1, <2>2 DEF Read
  <1>11. ASSUME DeviceWrite \/ Prefetch \/ Evict PROVE TypeOK' /\ CacheInv'
    <2>1. Counted' = Counted
      BY <1>11 DEF DeviceWrite, Prefetch, Evict, Counted
    <2> QED
      BY <1>11, <2>1 DEF DeviceWrite, Prefetch, Evict
  <1>12. ASSUME UNCHANGED vars PROVE TypeOK' /\ CacheInv'
    <2>1. Counted' = Counted
      BY <1>12 DEF vars, Counted
    <2> QED
      BY <1>12, <2>1 DEF vars
  <1> QED
    BY <1>1, <1>2, <1>3, <1>4, <1>5, <1>6, <1>7, <1>8, <1>9, <1>10, <1>11, <1>12
    DEF Next

\* The count and the line are as CacheInv says in every reachable state.
THEOREM CacheSafe == Spec => [](TypeOK /\ CacheInv)
  <1>1. Init => TypeOK /\ CacheInv
    BY CacheInit
  <1>2. TypeOK /\ CacheInv /\ [Next]_vars => (TypeOK /\ CacheInv)'
    BY CacheStep
  <1> QED
    BY <1>1, <1>2, PTL DEF Spec

\* No bracketed read returns a frame older than the one at its START.
THEOREM ReadsAreFresh == Spec => []BracketedReadsFresh
  <1>1. TypeOK /\ CacheInv => BracketedReadsFresh
    BY DEF CacheInv
  <1> QED
    BY <1>1, CacheSafe, PTL

\* The types hold: above all, cached_maps never goes below zero, because no
\* unmap takes away a cached mapping that was not counted.
THEOREM TypesKept == Spec => []TypeOK
  <1>1. TypeOK /\ CacheInv => TypeOK
    OBVIOUS
  <1> QED
    BY <1>1, CacheSafe, PTL

-----------------------------------------------------------------------------
(* coda-cube's runs (CodaSession). *)

Pcs == {"off", "color", "colorset", "prepare", "window", "vdopen", "create", "start", "loop",
        "vdclose", "restore"}
Params == 0 .. 1
Values == {"auto", "other", "want"}

RunType == [pc : Pcs, i : Params, cur : Values \cup {""}, saved : [Params -> Values \cup {""}],
            dma : BOOLEAN, zero : BOOLEAN, user : BOOLEAN, root : BOOLEAN,
            dev : BOOLEAN, created : BOOLEAN, failed : BOOLEAN]

SessionTypeOK ==
    /\ param \in [Params -> Values] /\ base \in [Params -> Values] /\ dirty \in BOOLEAN
    /\ before \in [Procs -> SUBSET Procs]
    /\ run \in [Procs -> RunType]

(* The parameters are set: from the end of color_set() to color_restore(). *)
OnScreen(r) ==
    /\ r.dma
    /\ \/ r.pc \in {"prepare", "window", "vdopen", "create", "start", "loop"}
       \/ r.pc = "vdclose" /\ ~r.failed

NothingSaved(r) == r.pc = "off" \/ ~r.dma \/ (r.pc = "vdclose" /\ r.failed)

(* What holds in a run by itself, whatever the others do: root is there for *)
(* what needs it, and what was saved is what was set and not restored yet.  *)
RunOK(r) ==
    /\ r.user => r.zero
    /\ r.zero => r.dma
    /\ r.pc \in {"color", "colorset", "prepare", "window"} => r.root /\ r.dma
    /\ r.pc = "restore" => r.dma
    /\ r.pc = "window" /\ r.zero => r.dev
    /\ r.pc = "vdopen" /\ ~r.root => r.dev /\ r.zero
    /\ OnScreen(r) => r.saved[0] # "" /\ r.saved[1] # ""
    /\ r.pc \in {"color", "colorset"} => r.saved[1] = "" /\ (r.i = 0 => r.saved[0] = "")
                                                         /\ (r.i = 1 => r.saved[0] # "")
    /\ r.pc = "restore" /\ r.i = 1 => r.saved[0] = ""
    /\ NothingSaved(r) => r.saved[0] = "" /\ r.saved[1] = ""
    /\ r.pc = "colorset" => r.cur # ""
    /\ r.pc = "vdclose" /\ ~r.failed => r.i = 0
    /\ r.pc = "restore" /\ ~r.failed => ~r.created
    /\ r.created => r.pc \in {"start", "loop", "vdclose", "restore"}
    /\ r.pc \in {"start", "loop"} => r.created
    /\ r.pc \in {"color", "colorset", "prepare", "window", "vdopen", "create", "start", "loop"} => ~r.failed

(* The channel is its creator's, and without a kill somebody's. *)
ChanInv ==
    /\ \A p \in Procs : run[p].created => chan = p
    /\ ~dirty /\ chan # None => \E p \in Procs : run[p].created

(* Of two runs that are up one was started first. *)
OrderInv ==
    /\ \A p \in Procs : before[p] \subseteq Session!Up /\ p \notin before[p]
    /\ \A p \in Session!Up, q \in Session!Up : p = q \/ p \in before[q] \/ q \in before[p]

(* What a parameter is when the runs ps are up and nobody else. *)
Under(i, ps) == IF \E q \in ps : run[q].saved[i] # "" THEN "want" ELSE base[i]

(* While no runs crossed: only the last one started sets or restores, a     *)
(* parameter is what the runs that saved it made it, and what a run saved   *)
(* is what the runs before it made it.                                      *)
ColourInv ==
    /\ \A p \in Procs : run[p].pc \in {"color", "colorset"} => ~Session!Overtaken(p)
    /\ \A p \in Procs : run[p].pc = "restore" /\ run[p].i = 1 => ~Session!Overtaken(p)
    /\ \A i \in Params : param[i] = Under(i, Procs)
    /\ \A p \in Procs, i \in Params : run[p].saved[i] # "" => run[p].saved[i] = Under(i, before[p])
    /\ \A p \in Procs : run[p].pc = "colorset" => run[p].cur = param[run[p].i]

RunsInv == \A p \in Procs : RunOK(run[p])

SessionInv ==
    SessionTypeOK /\ RunsInv /\ ChanInv /\ OrderInv /\ (~dirty => ColourInv)

\* The two colour parameters.
LEMMA ParamCases == \A j \in Params : j = 0 \/ j = 1
BY DEF Params

(* A process that does not run has nothing. *)
LEMMA OffOK ==
    /\ Session!Off \in RunType /\ RunOK(Session!Off)
    /\ Session!Off.pc = "off" /\ ~Session!Off.created /\ Session!Off.saved = [i \in Params |-> ""]
<1>1. Session!Off.saved = [i \in Params |-> ""]
  BY DEF Session!Off, Session!NCOLOR, Params
<1>2. /\ Session!Off.pc = "off" /\ Session!Off.i = 0 /\ Session!Off.cur = "" /\ ~Session!Off.dma
      /\ ~Session!Off.zero /\ ~Session!Off.user /\ Session!Off.root /\ ~Session!Off.dev
      /\ ~Session!Off.created /\ ~Session!Off.failed
  BY DEF Session!Off
<1>3. [i \in Params |-> ""] \in [Params -> Values \cup {""}]
  OBVIOUS
<1>4. Session!Off \in RunType
  BY <1>3 DEF Session!Off, Session!NCOLOR, RunType, Params, Pcs, Values
<1>5a. 0 \in Params /\ 1 \in Params
  BY DEF Params
<1>5. Session!Off.saved[0] = "" /\ Session!Off.saved[1] = ""
  BY <1>1, <1>5a
<1>6. RunOK(Session!Off)
  BY <1>2, <1>5 DEF RunOK, OnScreen, NothingSaved
<1> QED
  BY <1>1, <1>2, <1>4, <1>6

(* What a run that fails needs: its options, and nothing saved without dma. *)
CanFail(r) ==
    /\ r.user => r.zero
    /\ r.zero => r.dma
    /\ ~r.dma => r.saved[0] = "" /\ r.saved[1] = ""

(* exit()'s handlers restore what the run has saved, and nothing otherwise. *)
LEMMA FailsOK ==
    ASSUME NEW r \in RunType, CanFail(r)
    PROVE  /\ Session!Fails(r) \in RunType /\ RunOK(Session!Fails(r))
           /\ Session!Fails(r).saved = r.saved /\ Session!Fails(r).created = r.created
           /\ Session!Fails(r).pc \in {"restore", "vdclose"} /\ Session!Fails(r).i = 0
<1> DEFINE f == Session!Fails(r)
<1>1. /\ f.failed /\ f.i = 0 /\ f.cur = "" /\ f.pc = (IF r.dma THEN "restore" ELSE "vdclose")
      /\ f.saved = r.saved /\ f.dma = r.dma /\ f.zero = r.zero /\ f.user = r.user /\ f.root = r.root
      /\ f.dev = r.dev /\ f.created = r.created
  BY DEF Session!Fails, RunType
<1>1a. f.i = 0
  BY <1>1
<1>2. f \in RunType
  <2>1. "restore" \in Pcs /\ "vdclose" \in Pcs /\ 0 \in Params /\ "" \in Values \cup {""}
    BY DEF Pcs, Params
  <2>2. CASE r.dma
    BY <2>1, <2>2 DEF Session!Fails, RunType
  <2>3. CASE ~r.dma
    BY <2>1, <2>3 DEF Session!Fails, RunType
  <2> QED
    BY <2>2, <2>3
<1> HIDE DEF f
<1>3. RunOK(f)
  <2>1. (f.user => f.zero) /\ (f.zero => f.dma)
    BY <1>1 DEF CanFail
  <2>2. CASE r.dma
    <3>0. f.i # 1
      BY <1>1a
    <3>1. f.pc = "restore" /\ f.dma /\ f.i # 1
      BY <1>1, <3>0, <2>2
    <3>2. ~OnScreen(f) /\ ~NothingSaved(f)
      BY <3>1 DEF OnScreen, NothingSaved
    <3> QED
      BY <1>1, <2>1, <3>1, <3>2 DEF RunOK
  <2>3. CASE ~r.dma
    <3>1. f.pc = "vdclose" /\ ~f.dma
      BY <1>1, <2>3
    <3>2. ~OnScreen(f) /\ f.failed
      BY <1>1, <3>1 DEF OnScreen
    <3>3. f.saved[0] = "" /\ f.saved[1] = ""
      BY <1>1, <2>3 DEF CanFail
    <3> QED
      BY <2>1, <3>1, <3>2, <3>3 DEF RunOK
  <2> QED
    BY <2>2, <2>3
<1> QED
  BY <1>1, <1>2, <1>3 DEF f

(* A step of a run that leaves the parameters, what it saved of them and    *)
(* the order of the runs alone, and does not start to set or to restore.    *)
Quiet(p, r) ==
    /\ p \in Procs /\ r \in RunType /\ RunOK(r)
    /\ run' = [run EXCEPT ![p] = r]
    /\ UNCHANGED <<param, base, before, dirty>>
    /\ run[p].pc # "off" /\ r.pc # "off" /\ r.saved = run[p].saved
    /\ r.pc \in {"color", "colorset"} => run[p].pc \in {"color", "colorset"}
    /\ r.pc = "restore" => r.i = 0
    /\ r.pc = "colorset" => r.cur = param[r.i]

\* Such a step keeps the invariant, if the channel's owner is right after it.
LEMMA QuietStep ==
    ASSUME SessionInv, NEW p, NEW r, Quiet(p, r), ChanInv'
    PROVE  SessionInv'
<1>0. /\ p \in Procs /\ r \in RunType /\ RunOK(r)
      /\ run' = [run EXCEPT ![p] = r]
      /\ UNCHANGED <<param, base, before, dirty>>
      /\ run[p].pc # "off" /\ r.pc # "off" /\ r.saved = run[p].saved
  BY DEF Quiet
<1>1. run \in [Procs -> RunType] /\ run' \in [Procs -> RunType]
  BY <1>0 DEF SessionInv, SessionTypeOK
<1>2. SessionTypeOK'
  BY <1>0, <1>1 DEF SessionInv, SessionTypeOK
<1>3. run'[p] = r /\ \A q \in Procs : q # p => run'[q] = run[q]
  BY <1>0, <1>1
<1>4. RunsInv'
  BY <1>0, <1>3 DEF SessionInv, RunsInv
<1>5. Session!Up' = Session!Up
  BY <1>0, <1>3 DEF Session!Up
<1>6. OrderInv'
  BY <1>0, <1>5 DEF SessionInv, OrderInv
<1>7. ASSUME ~dirty' PROVE ColourInv'
  <2>1. ColourInv
    BY <1>0, <1>7 DEF SessionInv
  <2>2. \A q \in Procs : run'[q].saved = run[q].saved
    BY <1>0, <1>3
  <2>3. \A q \in Procs : Session!Overtaken(q)' = Session!Overtaken(q)
    BY <1>0, <1>5 DEF Session!Overtaken
  <2>4. \A i \in Params, ps \in SUBSET Procs : Under(i, ps)' = Under(i, ps)
    BY <1>0, <2>2 DEF Under
  <2>5. \A q \in Procs : before[q] \in SUBSET Procs
    BY DEF SessionInv, SessionTypeOK
  <2>6. \A q \in Procs : run'[q].pc \in {"color", "colorset"} => ~Session!Overtaken(q)'
    BY <1>3, <2>1, <2>3 DEF Quiet, ColourInv
  <2>7. \A q \in Procs : run'[q].pc = "restore" /\ run'[q].i = 1 => ~Session!Overtaken(q)'
    <3>1. r.pc = "restore" => r.i = 0
      BY DEF Quiet
    <3>2. \A q \in Procs : run[q].pc = "restore" /\ run[q].i = 1 => ~Session!Overtaken(q)
      BY <2>1 DEF ColourInv
    <3> QED
      BY <1>3, <2>3, <3>1, <3>2
  <2>8. \A i \in Params : param'[i] = Under(i, Procs)'
    BY <1>0, <2>1, <2>4 DEF ColourInv
  <2>9. \A q \in Procs, i \in Params : run'[q].saved[i] # "" => run'[q].saved[i] = Under(i, before[q])'
    BY <1>0, <2>1, <2>2, <2>4, <2>5 DEF ColourInv
  <2>10. \A q \in Procs : run'[q].pc = "colorset" => run'[q].cur = param'[run'[q].i]
    BY <1>0, <1>3, <2>1 DEF Quiet, ColourInv
  <2> QED
    BY <2>6, <2>7, <2>8, <2>9, <2>10 DEF ColourInv
<1> QED
  BY <1>2, <1>4, <1>6, <1>7 DEF SessionInv

(* The channel's owner is untouched by a step that keeps who created it. *)
LEMMA ChanKept ==
    ASSUME SessionInv, NEW p \in Procs, NEW r \in RunType, run' = [run EXCEPT ![p] = r],
           r.created = run[p].created, chan' = chan, dirty => dirty'
    PROVE  ChanInv'
<1>1. \A q \in Procs : run'[q].created = run[q].created
  BY DEF SessionInv, SessionTypeOK
<1> QED
  BY <1>1 DEF SessionInv, ChanInv

(* A run that fails, without another effect. *)
LEMMA FailStep ==
    ASSUME SessionInv, NEW p \in Procs, NEW r \in RunType, CanFail(r), run[p].pc # "off",
           r.saved = run[p].saved, r.created = run[p].created,
           run' = [run EXCEPT ![p] = Session!Fails(r)], UNCHANGED <<param, chan, base, before, dirty>>
    PROVE  SessionInv'
<1> DEFINE f == Session!Fails(r)
<1>1. /\ f \in RunType /\ RunOK(f) /\ f.saved = r.saved /\ f.created = r.created
      /\ f.pc \in {"restore", "vdclose"} /\ f.i = 0
  BY FailsOK
<1> HIDE DEF f
<1>2. Quiet(p, f)
  BY <1>1 DEF Quiet, f
<1>3. ChanInv'
  BY <1>1, ChanKept DEF f
<1> QED
  BY <1>2, <1>3, QuietStep

\* Every run is of its type and satisfies what holds in a run by itself.
LEMMA RunAt ==
    ASSUME SessionInv, NEW p \in Procs
    PROVE  run[p] \in RunType /\ RunOK(run[p])
BY DEF SessionInv, SessionTypeOK, RunsInv

(* A run that is up can fail. *)
LEMMA RunCanFail ==
    ASSUME NEW r \in RunType, RunOK(r)
    PROVE  CanFail(r)
<1>1. (r.user => r.zero) /\ (r.zero => r.dma)
  BY DEF RunOK
<1>2. ~r.dma => r.saved[0] = "" /\ r.saved[1] = ""
  BY DEF RunOK, NothingSaved
<1> QED
  BY <1>1, <1>2 DEF CanFail

(* A step that keeps what was created, in which a run only moves on. *)
LEMMA MoveStep ==
    ASSUME SessionInv, NEW p \in Procs, NEW r, Quiet(p, r), r.created = run[p].created, chan' = chan
    PROVE  SessionInv'
<1>1. ChanInv'
  BY ChanKept DEF Quiet
<1> QED
  BY <1>1, QuietStep

\* A run that is up ends with an error where it is.
LEMMA SelfFailStep ==
    ASSUME SessionInv, NEW p \in Procs, run[p].pc # "off", Session!Fail(p),
           UNCHANGED <<param, chan, base, before, dirty>>
    PROVE  SessionInv'
<1>1. run[p] \in RunType /\ CanFail(run[p])
  BY RunAt, RunCanFail
<1> QED
  BY <1>1, FailStep DEF Session!Fail, Session!Becomes

\* color_set() reads a parameter, or cannot.
LEMMA ColorReadStep ==
    ASSUME SessionInv, NEW p \in Procs, Session!ColorRead(p)
    PROVE  SessionInv'
<1>0. run[p] \in RunType /\ RunOK(run[p])
  BY RunAt
<1>1. /\ run[p].pc = "color" /\ UNCHANGED <<param, chan, base, before, dirty>>
  BY DEF Session!ColorRead
<1>2. CASE Session!Fail(p)
  BY <1>1, <1>2, SelfFailStep
<1>3. CASE Session!Becomes(p, [run[p] EXCEPT !.pc = "colorset", !.cur = param[run[p].i]])
  <2> DEFINE r == [run[p] EXCEPT !.pc = "colorset", !.cur = param[run[p].i]]
  <2>1. run[p].i \in Params /\ param[run[p].i] \in Values
    BY <1>0 DEF RunType, SessionInv, SessionTypeOK
  <2>2. /\ r.pc = "colorset" /\ r.cur = param[run[p].i] /\ r.i = run[p].i /\ r.saved = run[p].saved
        /\ r.dma = run[p].dma /\ r.zero = run[p].zero /\ r.user = run[p].user /\ r.root = run[p].root
        /\ r.dev = run[p].dev /\ r.created = run[p].created /\ r.failed = run[p].failed
    BY <1>0 DEF RunType
  <2>3. "colorset" \in Pcs /\ param[run[p].i] \in Values \cup {""} /\ param[run[p].i] # ""
    BY <2>1 DEF Pcs, Values
  <2>4. r \in RunType
    BY <1>0, <2>3 DEF RunType
  <2>5. run' = [run EXCEPT ![p] = r]
    BY <1>3 DEF Session!Becomes
  <2> HIDE DEF r
  <2>6. RunOK(r)
    <3>1. ~OnScreen(r)
      BY <2>2 DEF OnScreen
    <3>2. r.dma /\ r.root /\ ~r.failed /\ ~r.created
      BY <1>0, <1>1, <2>2 DEF RunOK
    <3>3. ~NothingSaved(r)
      BY <2>2, <3>2 DEF NothingSaved
    <3>4. r.saved[1] = "" /\ (r.i = 0 => r.saved[0] = "") /\ (r.i = 1 => r.saved[0] # "")
      BY <1>0, <1>1, <2>2 DEF RunOK
    <3>5. (r.user => r.zero) /\ (r.zero => r.dma)
      BY <1>0, <2>2 DEF RunOK
    <3>6. r.cur # ""
      BY <2>2, <2>3
    <3>7. r.pc = "colorset"
      BY <2>2
    <3> QED
      BY <3>1, <3>2, <3>3, <3>4, <3>5, <3>6, <3>7 DEF RunOK
  <2>7. Quiet(p, r)
    BY <1>1, <2>2, <2>4, <2>5, <2>6 DEF Quiet
  <2> QED
    BY <1>1, <2>2, <2>7, MoveStep
<1> QED
  BY <1>2, <1>3 DEF Session!ColorRead

\* zc_open() and vd_open_dev(), as root.
LEMMA PrepareStep ==
    ASSUME SessionInv, NEW p \in Procs, Session!Prepare(p)
    PROVE  SessionInv'
<1>0. run[p] \in RunType /\ RunOK(run[p])
  BY RunAt
<1>1. /\ run[p].pc = "prepare" /\ UNCHANGED <<param, chan, base, before, dirty>>
  BY DEF Session!Prepare
<1>2. CASE Session!Fail(p)
  BY <1>1, <1>2, SelfFailStep
<1>3. CASE Session!Becomes(p, [run[p] EXCEPT !.dev = run[p].zero, !.pc = "window"])
  <2> DEFINE r == [run[p] EXCEPT !.dev = run[p].zero, !.pc = "window"]
  <2>2. /\ r.pc = "window" /\ r.cur = run[p].cur /\ r.i = run[p].i /\ r.saved = run[p].saved
        /\ r.dma = run[p].dma /\ r.zero = run[p].zero /\ r.user = run[p].user /\ r.root = run[p].root
        /\ r.dev = run[p].zero /\ r.created = run[p].created /\ r.failed = run[p].failed
    BY <1>0 DEF RunType
  <2>3. "window" \in Pcs /\ run[p].zero \in BOOLEAN
    BY <1>0 DEF Pcs, RunType
  <2>4. r \in RunType
    BY <1>0, <2>3 DEF RunType
  <2>5. run' = [run EXCEPT ![p] = r]
    BY <1>3 DEF Session!Becomes
  <2> HIDE DEF r
  <2>6. RunOK(r)
    <3>1. r.pc = "window" /\ r.dma /\ r.root /\ ~r.failed /\ ~r.created
      BY <1>0, <1>1, <2>2 DEF RunOK
    <3>2. OnScreen(run[p])
      BY <1>1, <2>2, <3>1 DEF OnScreen
    <3>3. ~NothingSaved(r)
      BY <3>1 DEF NothingSaved
    <3>4. r.saved[0] # "" /\ r.saved[1] # ""
      BY <1>0, <2>2, <3>2 DEF RunOK
    <3>5. (r.user => r.zero) /\ (r.zero => r.dma) /\ (r.zero => r.dev)
      BY <1>0, <2>2 DEF RunOK
    <3> QED
      BY <3>1, <3>3, <3>4, <3>5 DEF RunOK
  <2>7. Quiet(p, r)
    BY <1>1, <2>2, <2>4, <2>5, <2>6 DEF Quiet
  <2> QED
    BY <1>1, <2>2, <2>7, MoveStep
<1> QED
  BY <1>2, <1>3 DEF Session!Prepare

\* drop_to() and the window: root goes after the decoder device is open.
LEMMA WindowStep ==
    ASSUME SessionInv, NEW p \in Procs, Session!Window(p)
    PROVE  SessionInv'
<1>0. run[p] \in RunType /\ RunOK(run[p])
  BY RunAt
<1>1. /\ run[p].pc = "window" /\ UNCHANGED <<param, chan, base, before, dirty>>
  BY DEF Session!Window
<1> DEFINE d == Session!DropTo(run[p])
<1>2. /\ d.pc = run[p].pc /\ d.cur = run[p].cur /\ d.i = run[p].i /\ d.saved = run[p].saved
      /\ d.dma = run[p].dma /\ d.zero = run[p].zero /\ d.user = run[p].user /\ d.root = ~run[p].user
      /\ d.dev = run[p].dev /\ d.created = run[p].created /\ d.failed = run[p].failed
  BY <1>0 DEF RunType, Session!DropTo
<1>3. d \in RunType
  <2>1. (~run[p].user) \in BOOLEAN
    BY Zenon
  <2> QED
    BY <1>0, <2>1 DEF RunType, Session!DropTo
<1> HIDE DEF d
<1>4. CASE Session!Becomes(p, Session!Fails(d))
  <2>1. CanFail(run[p])
    BY <1>0, RunCanFail
  <2>2. CanFail(d)
    BY <1>2, <2>1 DEF CanFail
  <2>3. run' = [run EXCEPT ![p] = Session!Fails(d)] /\ run[p].pc # "off"
    BY <1>1, <1>4 DEF Session!Becomes
  <2> QED
    BY <1>1, <1>2, <1>3, <2>2, <2>3, FailStep
<1>5. CASE Session!Becomes(p, [d EXCEPT !.pc = "vdopen"])
  <2> DEFINE r == [d EXCEPT !.pc = "vdopen"]
  <2>2. /\ r.pc = "vdopen" /\ r.cur = run[p].cur /\ r.i = run[p].i /\ r.saved = run[p].saved
        /\ r.dma = run[p].dma /\ r.zero = run[p].zero /\ r.user = run[p].user /\ r.root = ~run[p].user
        /\ r.dev = run[p].dev /\ r.created = run[p].created /\ r.failed = run[p].failed
    BY <1>2, <1>3 DEF RunType
  <2>3. "vdopen" \in Pcs
    BY DEF Pcs
  <2>4. r \in RunType
    BY <1>3, <2>3 DEF RunType
  <2>5. run' = [run EXCEPT ![p] = r]
    BY <1>5 DEF Session!Becomes
  <2> HIDE DEF r
  <2>6. RunOK(r)
    <3>1. r.pc = "vdopen" /\ r.dma /\ ~r.failed /\ ~r.created
      BY <1>0, <1>1, <2>2 DEF RunOK
    <3>2. OnScreen(run[p])
      BY <1>1, <2>2, <3>1 DEF OnScreen
    <3>3. ~NothingSaved(r)
      BY <3>1 DEF NothingSaved
    <3>4. r.saved[0] # "" /\ r.saved[1] # ""
      BY <1>0, <2>2, <3>2 DEF RunOK
    <3>5. (r.user => r.zero) /\ (r.zero => r.dma) /\ (r.zero => r.dev) /\ (~r.root => r.user)
      BY <1>0, <1>1, <2>2 DEF RunOK
    <3> QED
      BY <3>1, <3>3, <3>4, <3>5 DEF RunOK
  <2>7. Quiet(p, r)
    BY <1>1, <2>2, <2>4, <2>5, <2>6 DEF Quiet
  <2> QED
    BY <1>1, <2>2, <2>7, MoveStep
<1> QED
  BY <1>4, <1>5 DEF Session!Window, d

\* vd_open(): what root opened before is there without root.
LEMMA VdOpenStep ==
    ASSUME SessionInv, NEW p \in Procs, Session!VdOpen(p)
    PROVE  SessionInv'
<1>0. run[p] \in RunType /\ RunOK(run[p]) /\ CanFail(run[p])
  BY RunAt, RunCanFail
<1>1. /\ run[p].pc = "vdopen" /\ UNCHANGED <<param, chan, base, before, dirty>>
  BY DEF Session!VdOpen
<1>2. ~(~run[p].root /\ ~(run[p].dev /\ run[p].zero))
  BY <1>0, <1>1 DEF RunOK
<1>3. CASE Session!Becomes(p, Session!Fails(run[p]))
  BY <1>1, <1>3, SelfFailStep DEF Session!Fail
<1>4. ASSUME NEW b \in BOOLEAN, Session!Becomes(p, Session!Fails([run[p] EXCEPT !.dev = b]))
      PROVE  SessionInv'
  <2> DEFINE r == [run[p] EXCEPT !.dev = b]
  <2>1. r \in RunType /\ r.saved = run[p].saved /\ r.created = run[p].created
    BY <1>0 DEF RunType
  <2>2. r.dma = run[p].dma /\ r.zero = run[p].zero /\ r.user = run[p].user
    BY <1>0 DEF RunType
  <2>3. run' = [run EXCEPT ![p] = Session!Fails(r)] /\ run[p].pc # "off"
    BY <1>1, <1>4 DEF Session!Becomes
  <2> HIDE DEF r
  <2>4. CanFail(r)
    BY <1>0, <2>1, <2>2 DEF CanFail
  <2> QED
    BY <1>1, <2>1, <2>3, <2>4, FailStep
<1>5. CASE Session!Becomes(p, [[run[p] EXCEPT !.dev = TRUE] EXCEPT !.pc = "create"])
  <2> DEFINE r == [[run[p] EXCEPT !.dev = TRUE] EXCEPT !.pc = "create"]
  <2>2. /\ r.pc = "create" /\ r.cur = run[p].cur /\ r.i = run[p].i /\ r.saved = run[p].saved
        /\ r.dma = run[p].dma /\ r.zero = run[p].zero /\ r.user = run[p].user /\ r.root = run[p].root
        /\ r.dev /\ r.created = run[p].created /\ r.failed = run[p].failed
    BY <1>0 DEF RunType
  <2>3. "create" \in Pcs
    BY DEF Pcs
  <2>4. r \in RunType
    BY <1>0, <2>3 DEF RunType
  <2>5. run' = [run EXCEPT ![p] = r]
    BY <1>5 DEF Session!Becomes
  <2> HIDE DEF r
  <2>6. RunOK(r)
    <3>1. r.pc = "create" /\ ~r.failed /\ ~r.created /\ r.dma = run[p].dma /\ r.saved = run[p].saved
      BY <1>0, <1>1, <2>2 DEF RunOK
    <3>2. r.dma => r.saved[0] # "" /\ r.saved[1] # ""
      BY <1>0, <1>1, <3>1 DEF RunOK, OnScreen
    <3>3. ~r.dma => r.saved[0] = "" /\ r.saved[1] = ""
      BY <1>0, <3>1 DEF CanFail
    <3>4. (r.user => r.zero) /\ (r.zero => r.dma)
      BY <1>0, <2>2 DEF RunOK
    <3>5. (OnScreen(r) => r.dma) /\ (NothingSaved(r) => ~r.dma)
      BY <3>1 DEF OnScreen, NothingSaved
    <3> QED
      BY <3>1, <3>2, <3>3, <3>4, <3>5 DEF RunOK
  <2>7. Quiet(p, r)
    BY <1>1, <2>2, <2>4, <2>5, <2>6 DEF Quiet
  <2> QED
    BY <1>1, <2>2, <2>7, MoveStep
<1>6. TRUE \in BOOLEAN /\ FALSE \in BOOLEAN
  BY Zenon
<1> QED
  <2>1. \/ Session!Becomes(p, Session!Fails([run[p] EXCEPT !.dev = FALSE]))
        \/ Session!Becomes(p, [[run[p] EXCEPT !.dev = TRUE] EXCEPT !.pc = "create"])
        \/ Session!Becomes(p, Session!Fails(run[p]))
        \/ Session!Becomes(p, Session!Fails([run[p] EXCEPT !.dev = TRUE]))
    BY <1>2, Zenon DEF Session!VdOpen
  <2> QED
    BY <1>3, <1>4, <1>5, <1>6, <2>1, Zenon

\* CREATE_CHN: a channel is created only where there is none.
LEMMA VdCreateStep ==
    ASSUME SessionInv, NEW p \in Procs, Session!VdCreate(p)
    PROVE  SessionInv'
<1>0. run[p] \in RunType /\ RunOK(run[p]) /\ CanFail(run[p])
  BY RunAt, RunCanFail
<1>1. /\ run[p].pc = "create" /\ UNCHANGED <<param, base, before, dirty>>
  BY DEF Session!VdCreate
<1>2. CASE Session!Fail(p) /\ UNCHANGED chan
  BY <1>1, <1>2, SelfFailStep
<1>3. CASE chan = None /\ chan' = p /\ Session!Becomes(p, [run[p] EXCEPT !.created = TRUE, !.pc = "start"])
  <2> DEFINE r == [run[p] EXCEPT !.created = TRUE, !.pc = "start"]
  <2>2. /\ r.pc = "start" /\ r.cur = run[p].cur /\ r.i = run[p].i /\ r.saved = run[p].saved
        /\ r.dma = run[p].dma /\ r.zero = run[p].zero /\ r.user = run[p].user /\ r.root = run[p].root
        /\ r.dev = run[p].dev /\ r.created /\ r.failed = run[p].failed
    BY <1>0 DEF RunType
  <2>3. "start" \in Pcs
    BY DEF Pcs
  <2>4. r \in RunType
    BY <1>0, <2>3 DEF RunType
  <2>5. run' = [run EXCEPT ![p] = r]
    BY <1>3 DEF Session!Becomes
  <2> HIDE DEF r
  <2>6. RunOK(r)
    <3>1. r.pc = "start" /\ ~r.failed /\ r.created /\ r.dma = run[p].dma /\ r.saved = run[p].saved
      BY <1>0, <1>1, <2>2 DEF RunOK
    <3>2. r.dma => r.saved[0] # "" /\ r.saved[1] # ""
      BY <1>0, <1>1, <3>1 DEF RunOK, OnScreen
    <3>3. ~r.dma => r.saved[0] = "" /\ r.saved[1] = ""
      BY <1>0, <3>1 DEF CanFail
    <3>4. (r.user => r.zero) /\ (r.zero => r.dma)
      BY <1>0, <2>2 DEF RunOK
    <3>5. (OnScreen(r) => r.dma) /\ (NothingSaved(r) => ~r.dma)
      BY <3>1 DEF OnScreen, NothingSaved
    <3> QED
      BY <3>1, <3>2, <3>3, <3>4, <3>5 DEF RunOK
  <2>7. Quiet(p, r)
    BY <1>1, <2>2, <2>4, <2>5, <2>6 DEF Quiet
  <2>8. \A q \in Procs : ~run[q].created
    BY <1>3, SessionAssumption DEF SessionInv, ChanInv
  <2>9. run'[p] = r /\ \A q \in Procs : q # p => run'[q] = run[q]
    BY <2>5 DEF SessionInv, SessionTypeOK
  <2>10. ChanInv'
    BY <1>3, <2>2, <2>8, <2>9 DEF ChanInv
  <2> QED
    BY <2>7, <2>10, QuietStep
<1> QED
  BY <1>2, <1>3 DEF Session!VdCreate

\* START_RECV_STREAM.
LEMMA VdStartStep ==
    ASSUME SessionInv, NEW p \in Procs, Session!VdStart(p)
    PROVE  SessionInv'
<1>0. run[p] \in RunType /\ RunOK(run[p]) /\ CanFail(run[p])
  BY RunAt, RunCanFail
<1>1. /\ run[p].pc = "start" /\ UNCHANGED <<param, chan, base, before, dirty>>
  BY DEF Session!VdStart
<1>2. CASE Session!Fail(p)
  BY <1>1, <1>2, SelfFailStep
<1>3. CASE Session!Goto(p, "loop")
  <2> DEFINE r == [run[p] EXCEPT !.pc = "loop"]
  <2>2. /\ r.pc = "loop" /\ r.cur = run[p].cur /\ r.i = run[p].i /\ r.saved = run[p].saved
        /\ r.dma = run[p].dma /\ r.zero = run[p].zero /\ r.user = run[p].user /\ r.root = run[p].root
        /\ r.dev = run[p].dev /\ r.created = run[p].created /\ r.failed = run[p].failed
    BY <1>0 DEF RunType
  <2>3. "loop" \in Pcs
    BY DEF Pcs
  <2>4. r \in RunType
    BY <1>0, <2>3 DEF RunType
  <2>5. run' = [run EXCEPT ![p] = r]
    BY <1>3 DEF Session!Becomes, Session!Goto
  <2> HIDE DEF r
  <2>6. RunOK(r)
    <3>1. r.pc = "loop" /\ ~r.failed /\ r.created /\ r.dma = run[p].dma /\ r.saved = run[p].saved
      BY <1>0, <1>1, <2>2 DEF RunOK
    <3>2. r.dma => r.saved[0] # "" /\ r.saved[1] # ""
      BY <1>0, <1>1, <3>1 DEF RunOK, OnScreen
    <3>3. ~r.dma => r.saved[0] = "" /\ r.saved[1] = ""
      BY <1>0, <3>1 DEF CanFail
    <3>4. (r.user => r.zero) /\ (r.zero => r.dma)
      BY <1>0, <2>2 DEF RunOK
    <3>5. (OnScreen(r) => r.dma) /\ (NothingSaved(r) => ~r.dma)
      BY <3>1 DEF OnScreen, NothingSaved
    <3> QED
      BY <3>1, <3>2, <3>3, <3>4, <3>5 DEF RunOK
  <2>7. Quiet(p, r)
    BY <1>1, <2>2, <2>4, <2>5, <2>6 DEF Quiet
  <2> QED
    BY <1>1, <2>2, <2>7, MoveStep
<1> QED
  BY <1>2, <1>3 DEF Session!VdStart

\* The frame loop ends.
LEMMA LoopEndsStep ==
    ASSUME SessionInv, NEW p \in Procs, Session!LoopEnds(p)
    PROVE  SessionInv'
<1>0. run[p] \in RunType /\ RunOK(run[p]) /\ CanFail(run[p])
  BY RunAt, RunCanFail
<1>1. /\ run[p].pc = "loop" /\ UNCHANGED <<param, chan, base, before, dirty>>
  BY DEF Session!LoopEnds
<1> DEFINE r == [run[p] EXCEPT !.pc = "vdclose", !.i = 0]
<1>2. /\ r.pc = "vdclose" /\ r.cur = run[p].cur /\ r.saved = run[p].saved
      /\ r.dma = run[p].dma /\ r.zero = run[p].zero /\ r.user = run[p].user /\ r.root = run[p].root
      /\ r.dev = run[p].dev /\ r.created = run[p].created /\ r.failed = run[p].failed
  BY <1>0 DEF RunType
<1>3. r.i = 0
  BY <1>0 DEF RunType
<1>4. "vdclose" \in Pcs /\ 0 \in Params
  BY DEF Pcs, Params
<1>5. r \in RunType
  BY <1>0, <1>4 DEF RunType
<1>6. run' = [run EXCEPT ![p] = r]
  BY DEF Session!Becomes, Session!LoopEnds
<1> HIDE DEF r
<1>7. RunOK(r)
  <3>1. r.pc = "vdclose" /\ ~r.failed /\ r.dma = run[p].dma /\ r.saved = run[p].saved
    BY <1>0, <1>1, <1>2 DEF RunOK
  <3>2. r.dma => r.saved[0] # "" /\ r.saved[1] # ""
    BY <1>0, <1>1, <3>1 DEF RunOK, OnScreen
  <3>3. ~r.dma => r.saved[0] = "" /\ r.saved[1] = ""
    BY <1>0, <3>1 DEF CanFail
  <3>4. (r.user => r.zero) /\ (r.zero => r.dma)
    BY <1>0, <1>2 DEF RunOK
  <3>5. (OnScreen(r) => r.dma) /\ (NothingSaved(r) => ~r.dma)
    BY <3>1 DEF OnScreen, NothingSaved
  <3> QED
    BY <1>3, <3>1, <3>2, <3>3, <3>4, <3>5 DEF RunOK
<1>8. Quiet(p, r)
  BY <1>1, <1>2, <1>5, <1>6, <1>7 DEF Quiet
<1> QED
  BY <1>1, <1>2, <1>8, MoveStep

(* The run started last was started after all the others that are up. *)
LEMMA NewestBefore ==
    ASSUME SessionInv, NEW p \in Procs, run[p].pc # "off", ~Session!Overtaken(p)
    PROVE  \A q \in Procs : q # p /\ run[q].pc # "off" =>
               q \in before[p] /\ p \notin before[q] /\ Session!Overtaken(q)
<1>1. p \in Session!Up
  BY DEF Session!Up
<1>2. \A q \in Session!Up : p \notin before[q]
  BY DEF Session!Overtaken
<1>3. \A q \in Session!Up : q # p => q \in before[p]
  BY <1>1, <1>2 DEF SessionInv, OrderInv
<1> QED
  BY <1>1, <1>2, <1>3 DEF Session!Overtaken, Session!Up

(* The run started last writes a parameter: it sets it and keeps what it    *)
(* was, or puts back what the runs before it made it.                       *)
LEMMA PutColour ==
    ASSUME SessionInv, ~dirty, NEW p \in Procs, run[p].pc # "off", ~Session!Overtaken(p),
           NEW i \in Params, NEW r \in RunType, NEW v \in Values,
           run' = [run EXCEPT ![p] = r], param' = [param EXCEPT ![i] = v], base' = base,
           \A q \in Session!Up : before'[q] = before[q],
           \A j \in Params : j # i => r.saved[j] = run[p].saved[j],
           \/ r.saved[i] = "" /\ v = Under(i, before[p])
           \/ v = "want" /\ r.saved[i] = Under(i, before[p]),
           r.pc # "colorset"
    PROVE  ColourInv'
<1>1. ColourInv
  BY DEF SessionInv
<1>2. run'[p] = r /\ \A q \in Procs : q # p => run'[q] = run[q]
  BY DEF SessionInv, SessionTypeOK
<1>3. p \in Session!Up /\ before'[p] = before[p]
  BY DEF Session!Up
<1>4. before[p] \subseteq Procs /\ p \notin before[p]
  BY DEF SessionInv, SessionTypeOK, OrderInv
<1>5. \A q \in Procs : q # p /\ run[q].pc # "off" =>
               q \in before[p] /\ p \notin before[q] /\ Session!Overtaken(q)
  BY NewestBefore
<1>6. ASSUME NEW q \in Procs, NEW j \in Params, run[q].saved[j] # ""
      PROVE  run[q].pc # "off"
  <2>1. RunOK(run[q])
    BY RunAt
  <2>2. NothingSaved(run[q]) => run[q].saved[0] = "" /\ run[q].saved[1] = ""
    BY <2>1 DEF RunOK
  <2>3. j = 0 \/ j = 1
    BY ParamCases
  <2> QED
    BY <1>6, <2>2, <2>3 DEF NothingSaved
<1>7. ASSUME NEW j \in Params, NEW ps \in SUBSET Procs, p \notin ps
      PROVE  Under(j, ps)' = Under(j, ps)
  BY <1>2, <1>7 DEF Under
<1>8. ASSUME NEW j \in Params
      PROVE  /\ Under(j, Procs) = (IF run[p].saved[j] # "" THEN "want" ELSE Under(j, before[p]))
             /\ Under(j, Procs)' = (IF r.saved[j] # "" THEN "want" ELSE Under(j, before[p]))
  <2>1. \A q \in Procs : q # p /\ run[q].saved[j] # "" => q \in before[p]
    BY <1>5, <1>6
  <2>2. Under(j, Procs) = (IF run[p].saved[j] # "" THEN "want" ELSE Under(j, before[p]))
    BY <1>4, <2>1 DEF Under
  <2>3. (\E q \in Procs : run'[q].saved[j] # "") <=> r.saved[j] # "" \/ \E q \in before[p] : run[q].saved[j] # ""
    BY <1>2, <1>4, <2>1
  <2>4. Under(j, Procs)' = (IF r.saved[j] # "" THEN "want" ELSE Under(j, before[p]))
    BY <2>3 DEF Under
  <2> QED
    BY <2>2, <2>4
<1>9. \A j \in Params : param'[j] = Under(j, Procs)'
  <2>0. param \in [Params -> Values] /\ base \in [Params -> Values]
    BY DEF SessionInv, SessionTypeOK
  <2>1. Under(i, before[p]) # ""
    BY <2>0 DEF Under, Values
  <2>2. param'[i] = Under(i, Procs)'
    BY <1>8, <2>0, <2>1
  <2>3. \A j \in Params : j # i => param'[j] = Under(j, Procs)'
    <3>1. TAKE j \in Params
    <3>2. HAVE j # i
    <3>3. param'[j] = param[j] /\ r.saved[j] = run[p].saved[j]
      BY <2>0, <3>2
    <3>4. param[j] = Under(j, Procs)
      BY <1>1 DEF ColourInv
    <3>5. Under(j, Procs) = Under(j, Procs)'
      BY <1>8, <3>3
    <3> QED
      BY <3>3, <3>4, <3>5
  <2> QED
    BY <2>2, <2>3
<1>10. \A j \in Params : r.saved[j] # "" => r.saved[j] = Under(j, before[p])
  BY <1>1 DEF ColourInv
<1>11. \A q \in Procs, j \in Params : run'[q].saved[j] # "" => run'[q].saved[j] = Under(j, before[q])'
  <2>1. TAKE q \in Procs, j \in Params
  <2>2. CASE q = p
    BY <1>2, <1>3, <1>4, <1>7, <1>10, <2>2
  <2>3. CASE q # p /\ run[q].saved[j] # ""
    <3>1. run[q].pc # "off" /\ p \notin before[q]
      BY <1>5, <1>6, <2>3
    <3>2. before'[q] = before[q] /\ before[q] \subseteq Procs
      BY <3>1 DEF Session!Up, SessionInv, SessionTypeOK
    <3>3. Under(j, before[q])' = Under(j, before[q])
      BY <1>7, <3>1, <3>2
    <3>4. run[q].saved[j] = Under(j, before[q])
      BY <1>1, <2>3 DEF ColourInv
    <3>5. run'[q] = run[q]
      BY <1>2, <2>3
    <3> QED
      BY <3>3, <3>4, <3>5
  <2>4. CASE q # p /\ run[q].saved[j] = ""
    BY <1>2, <2>4
  <2> QED
    BY <2>2, <2>3, <2>4
<1>12. Session!Up' \subseteq Session!Up
  BY <1>2, <1>3 DEF Session!Up
<1>13. \A q \in Procs : Session!Overtaken(q)' => Session!Overtaken(q)
  BY <1>12 DEF Session!Overtaken
<1>14. \A q \in Procs : run'[q].pc \in {"color", "colorset"} => ~Session!Overtaken(q)'
  BY <1>1, <1>2, <1>13 DEF ColourInv
<1>15. \A q \in Procs : run'[q].pc = "restore" /\ run'[q].i = 1 => ~Session!Overtaken(q)'
  BY <1>1, <1>2, <1>13 DEF ColourInv
<1>16. \A q \in Procs : run'[q].pc = "colorset" => run'[q].cur = param'[run'[q].i]
  <2>1. \A q \in Procs : run[q].pc = "colorset" => ~Session!Overtaken(q)
    BY <1>1 DEF ColourInv
  <2>2. \A q \in Procs : q # p => run[q].pc # "colorset"
    BY <1>5, <2>1
  <2> QED
    BY <1>2, <2>2
<1> QED
  BY <1>9, <1>11, <1>14, <1>15, <1>16 DEF ColourInv

\* color_set() writes a parameter and keeps what it was.
LEMMA ColorWriteStep ==
    ASSUME SessionInv, NEW p \in Procs, Session!ColorWrite(p)
    PROVE  SessionInv'
<1>0. run[p] \in RunType /\ RunOK(run[p])
  BY RunAt
<1>1. run[p].pc = "colorset" /\ UNCHANGED <<chan, base, before, dirty>>
  BY DEF Session!ColorWrite
<1>2. CASE Session!Fail(p) /\ UNCHANGED param
  BY <1>1, <1>2, SelfFailStep
<1> DEFINE i == run[p].i
           ni == IF i + 1 < Session!NCOLOR THEN i + 1 ELSE 0
           npc == IF i + 1 < Session!NCOLOR THEN "color" ELSE "prepare"
           r == [run[p] EXCEPT !.saved[i] = run[p].cur, !.cur = "", !.i = ni, !.pc = npc]
<1>3. CASE param' = [param EXCEPT ![i] = "want"] /\ Session!Becomes(p, r)
  <2>1. i \in Params /\ run[p].saved \in [Params -> Values \cup {""}] /\ run[p].cur \in Values \cup {""}
    BY <1>0 DEF RunType
  <2>2a. i = 0 \/ i = 1
    BY <2>1, ParamCases
  <2>2b. (i = 0 => ni = 1) /\ (i = 1 => ni = 0)
    BY DEF Session!NCOLOR
  <2>2c. (i = 0 => npc = "color") /\ (i = 1 => npc = "prepare")
    BY DEF Session!NCOLOR
  <2>2d. ni \in Params /\ npc \in Pcs /\ "" \in Values \cup {""}
    BY <2>2a, <2>2b, <2>2c DEF Params, Pcs
  <2>2e. "want" \in Values /\ 0 \in Params /\ 1 \in Params
    BY DEF Values, Params
  <2> HIDE DEF ni, npc, i
  <2>2f. [run[p].saved EXCEPT ![i] = run[p].cur] \in [Params -> Values \cup {""}]
    BY <2>1
  <2>2. r.saved = [run[p].saved EXCEPT ![i] = run[p].cur]
    BY <1>0 DEF RunType
  <2>3. /\ r.cur = "" /\ r.dma = run[p].dma /\ r.zero = run[p].zero /\ r.user = run[p].user
        /\ r.root = run[p].root /\ r.dev = run[p].dev /\ r.created = run[p].created
        /\ r.failed = run[p].failed /\ r.i = ni /\ r.pc = npc
    BY <1>0 DEF RunType
  <2>4. i = 0 => r.i = 1 /\ r.pc = "color"
    BY <2>2b, <2>2c, <2>3
  <2>5. i = 1 => r.i = 0 /\ r.pc = "prepare"
    BY <2>2b, <2>2c, <2>3
  <2>6. i = 0 \/ i = 1
    BY <2>2a
  <2>7. r.saved \in [Params -> Values \cup {""}] /\ r.saved[i] = run[p].cur
        /\ \A j \in Params : j # i => r.saved[j] = run[p].saved[j]
    BY <2>1, <2>2
  <2>8. 0 \in Params /\ 1 \in Params
    BY <2>2e
  <2>9. r \in RunType
    BY <1>0, <2>2d, <2>2f DEF RunType
  <2>10. run' = [run EXCEPT ![p] = r]
    BY <1>3 DEF Session!Becomes
  <2>11. /\ run[p].cur # "" /\ run[p].saved[1] = "" /\ (i = 0 => run[p].saved[0] = "")
         /\ (i = 1 => run[p].saved[0] # "")
    BY <1>0, <1>1 DEF RunOK, i
  <2>12. run[p].dma /\ run[p].root /\ ~run[p].failed /\ ~run[p].created
    BY <1>0, <1>1 DEF RunOK
  <2>13. (run[p].user => run[p].zero) /\ (run[p].zero => run[p].dma)
    BY <1>0 DEF RunOK
  <2> HIDE DEF r, i
  <2>14. r.dma /\ r.root /\ ~r.failed /\ ~r.created /\ (r.user => r.zero) /\ (r.zero => r.dma)
    BY <2>3, <2>12, <2>13
  <2>15. RunOK(r)
    <3>1. CASE i = 0
      <4>1. r.pc = "color" /\ r.saved[0] # "" /\ r.saved[1] = ""
        BY <2>4, <2>7, <2>8, <2>11, <3>1
      <4>2. r.i = 1
        BY <2>4, <3>1
      <4>3. r.i # 0
        BY <4>2
      <4>4. ~OnScreen(r) /\ ~NothingSaved(r)
        BY <2>14, <4>1 DEF OnScreen, NothingSaved
      <4> QED
        BY <2>14, <4>1, <4>3, <4>4 DEF RunOK
    <3>2. CASE i = 1
      <4>1. r.pc = "prepare" /\ r.saved[0] # "" /\ r.saved[1] # ""
        BY <2>5, <2>7, <2>8, <2>11, <3>2
      <4>2. ~NothingSaved(r)
        BY <2>14, <4>1 DEF NothingSaved
      <4> QED
        BY <2>14, <4>1, <4>2 DEF RunOK
    <3> QED
      BY <2>6, <3>1, <3>2
  <2>16. r.pc \in {"color", "prepare"}
    BY <2>4, <2>5, <2>6
  <2>17. "want" \in Values /\ run[p].pc # "off"
    BY <1>1, <2>2e
  <2>18. ASSUME ~dirty' PROVE ColourInv'
    <3>1. ~dirty /\ ColourInv
      BY <1>1, <2>18 DEF SessionInv
    <3>2. ~Session!Overtaken(p) /\ run[p].cur = param[i]
      BY <1>1, <3>1 DEF ColourInv, i
    <3>3. run[p].saved[i] = ""
      BY <2>6, <2>11
    <3>4. param[i] = Under(i, before[p])
      <4>1. param[i] = Under(i, Procs)
        BY <2>1, <3>1 DEF ColourInv
      <4>2. \A q \in Procs : q # p /\ run[q].pc # "off" => q \in before[p]
        BY <2>17, <3>2, NewestBefore
      <4>3. \A q \in Procs : run[q].saved[i] # "" => run[q].pc # "off"
        <5>1. TAKE q \in Procs
        <5>2. RunOK(run[q])
          BY RunAt
        <5> QED
          BY <2>6, <5>2 DEF RunOK, NothingSaved
      <4>4. before[p] \subseteq Procs
        BY DEF SessionInv, SessionTypeOK
      <4> QED
        BY <3>3, <4>1, <4>2, <4>3, <4>4 DEF Under
    <3>5. \A q \in Session!Up : before'[q] = before[q]
      BY <1>1
    <3>6. r.saved[i] = Under(i, before[p]) /\ r.pc # "colorset"
      BY <2>7, <2>16, <3>2, <3>4
    <3>7. param' = [param EXCEPT ![i] = "want"] /\ base' = base /\ run[p].pc # "off"
      BY <1>1, <1>3, <2>17
    <3> QED
      BY <2>1, <2>7, <2>9, <2>10, <2>17, <3>1, <3>2, <3>5, <3>6, <3>7, PutColour
  <2>19. run \in [Procs -> RunType] /\ run' \in [Procs -> RunType]
    BY <2>9, <2>10 DEF SessionInv, SessionTypeOK
  <2>20. run'[p] = r /\ \A q \in Procs : q # p => run'[q] = run[q]
    BY <2>10, <2>19
  <2>21. SessionTypeOK'
    <3>1. param' \in [Params -> Values]
      BY <1>3, <2>17 DEF SessionInv, SessionTypeOK
    <3> QED
      BY <1>1, <2>19, <3>1 DEF SessionInv, SessionTypeOK
  <2>22. RunsInv'
    BY <2>15, <2>20 DEF SessionInv, RunsInv
  <2>23. Session!Up' = Session!Up
    BY <2>16, <2>17, <2>20 DEF Session!Up
  <2>24. OrderInv'
    BY <1>1, <2>23 DEF SessionInv, OrderInv
  <2>25. ChanInv'
    BY <1>1, <2>3, <2>9, <2>10, ChanKept
  <2> QED
    BY <2>18, <2>21, <2>22, <2>24, <2>25 DEF SessionInv
<1> QED
  BY <1>2, <1>3 DEF Session!ColorWrite

(* A run ends: it is nobody's predecessor any more. *)
LEMMA EndOrder ==
    ASSUME SessionInv, NEW p \in Procs, run' = [run EXCEPT ![p] = Session!Off], Session!Ends(p),
           param' \in [Params -> Values], base' = base, dirty' \in BOOLEAN
    PROVE  /\ SessionTypeOK' /\ RunsInv' /\ OrderInv'
           /\ run'[p] = Session!Off /\ \A q \in Procs : q # p => run'[q] = run[q]
           /\ Session!Up' = Session!Up \ {p}
           /\ \A q \in Procs : before'[q] = before[q] \ {p}
<1>1. Session!Off \in RunType /\ RunOK(Session!Off) /\ Session!Off.pc = "off"
  BY OffOK
<1>2. run \in [Procs -> RunType] /\ run' \in [Procs -> RunType]
  BY <1>1 DEF SessionInv, SessionTypeOK
<1>3. run'[p] = Session!Off /\ \A q \in Procs : q # p => run'[q] = run[q]
  BY <1>2
<1>4. before \in [Procs -> SUBSET Procs] /\ before' = [q \in Procs |-> before[q] \ {p}]
  BY DEF SessionInv, SessionTypeOK, Session!Ends
<1>5. before' \in [Procs -> SUBSET Procs] /\ \A q \in Procs : before'[q] = before[q] \ {p}
  BY <1>4
<1>6. SessionTypeOK'
  <2>1. base' \in [Params -> Values]
    BY DEF SessionInv, SessionTypeOK
  <2> QED
    BY <1>2, <1>5, <2>1 DEF SessionTypeOK
<1>7. RunsInv'
  BY <1>1, <1>3 DEF SessionInv, RunsInv
<1>8. Session!Up' = Session!Up \ {p}
  BY <1>1, <1>3 DEF Session!Up
<1>9. OrderInv'
  <2>1. OrderInv
    BY DEF SessionInv
  <2>2. \A q \in Procs : before'[q] \subseteq Session!Up' /\ q \notin before'[q]
    BY <1>5, <1>8, <2>1 DEF OrderInv
  <2>3. \A q \in Session!Up', u \in Session!Up' : q \in Procs /\ u \in Procs /\ q # p /\ u # p /\ q \in Session!Up /\ u \in Session!Up
    BY <1>8 DEF Session!Up
  <2>4. \A q \in Session!Up', u \in Session!Up' : q = u \/ q \in before'[u] \/ u \in before'[q]
    BY <1>5, <2>1, <2>3 DEF OrderInv
  <2> QED
    BY <2>2, <2>4 DEF OrderInv
<1> QED
  BY <1>3, <1>5, <1>6, <1>7, <1>8, <1>9

(* vd_close() destroys the channel that the run created, and no other. *)
LEMMA ChanClosed ==
    ASSUME SessionInv, NEW p \in Procs, NEW r, run' = [run EXCEPT ![p] = r], ~r.created,
           chan' = (IF run[p].created THEN None ELSE chan), dirty => dirty'
    PROVE  ChanInv'
<1>1. run'[p] = r /\ \A q \in Procs : q # p => run'[q] = run[q]
  BY DEF SessionInv, SessionTypeOK
<1>2. ChanInv
  BY DEF SessionInv
<1>3. CASE run[p].created
  <2>1. \A q \in Procs : q # p => ~run[q].created
    BY <1>2, <1>3 DEF ChanInv
  <2> QED
    BY <1>1, <1>3, <2>1 DEF ChanInv
<1>4. CASE ~run[p].created
  BY <1>1, <1>2, <1>4 DEF ChanInv
<1> QED
  BY <1>3, <1>4

\* vd_close(), before color_restore() or after it.
LEMMA VdCloseStep ==
    ASSUME SessionInv, NEW p \in Procs, Session!VdClose(p)
    PROVE  SessionInv'
<1>0. run[p] \in RunType /\ RunOK(run[p])
  BY RunAt
<1>1. /\ run[p].pc = "vdclose" /\ UNCHANGED <<param, base, dirty>>
      /\ chan' = (IF run[p].created THEN None ELSE chan)
  BY DEF Session!VdClose
<1> DEFINE c == [run[p] EXCEPT !.created = FALSE, !.dev = FALSE]
           r == [c EXCEPT !.pc = "restore"]
<1>2. CASE run[p].dma /\ ~run[p].failed
  <2>1. run' = [run EXCEPT ![p] = r] /\ UNCHANGED before
    BY <1>2 DEF Session!VdClose, Session!Becomes
  <2>2. /\ c.pc = "vdclose" /\ c.cur = run[p].cur /\ c.i = run[p].i /\ c.saved = run[p].saved
        /\ c.dma = run[p].dma /\ c.zero = run[p].zero /\ c.user = run[p].user /\ c.root = run[p].root
        /\ ~c.dev /\ ~c.created /\ c.failed = run[p].failed
    BY <1>0, <1>1 DEF RunType
  <2>3. c \in RunType
    BY <1>0 DEF RunType
  <2> HIDE DEF c
  <2>4. /\ r.pc = "restore" /\ r.cur = run[p].cur /\ r.i = run[p].i /\ r.saved = run[p].saved
        /\ r.dma = run[p].dma /\ r.zero = run[p].zero /\ r.user = run[p].user /\ r.root = run[p].root
        /\ ~r.dev /\ ~r.created /\ r.failed = run[p].failed
    BY <2>2, <2>3 DEF RunType
  <2>5. r \in RunType
    <3>1. "restore" \in Pcs
      BY DEF Pcs
    <3> QED
      BY <2>3, <3>1 DEF RunType
  <2> HIDE DEF r
  <2>6. run[p].i = 0
    BY <1>0, <1>1, <1>2 DEF RunOK
  <2>7. r.i = 0
    BY <2>4, <2>6
  <2>8. r.i # 1
    BY <2>7
  <2>9. RunOK(r)
    <3>1. r.pc = "restore" /\ r.dma /\ ~r.created /\ ~r.failed
      BY <1>2, <2>4
    <3>2. (r.user => r.zero) /\ (r.zero => r.dma)
      BY <1>0, <2>4 DEF RunOK
    <3>3. ~OnScreen(r) /\ ~NothingSaved(r)
      BY <3>1 DEF OnScreen, NothingSaved
    <3> QED
      BY <2>8, <3>1, <3>2, <3>3 DEF RunOK
  <2>10. Quiet(p, r)
    BY <1>1, <2>1, <2>4, <2>5, <2>7, <2>9 DEF Quiet
  <2>11. ChanInv'
    BY <1>1, <2>1, <2>4, ChanClosed
  <2> QED
    BY <2>10, <2>11, QuietStep
<1>3. CASE ~(run[p].dma /\ ~run[p].failed)
  <2>1. run' = [run EXCEPT ![p] = Session!Off] /\ Session!Ends(p)
    BY <1>3 DEF Session!VdClose, Session!Becomes
  <2>2. param' \in [Params -> Values] /\ base' = base /\ dirty' \in BOOLEAN
    BY <1>1 DEF SessionInv, SessionTypeOK
  <2>3. /\ SessionTypeOK' /\ RunsInv' /\ OrderInv'
        /\ run'[p] = Session!Off /\ \A q \in Procs : q # p => run'[q] = run[q]
        /\ Session!Up' = Session!Up \ {p}
        /\ \A q \in Procs : before'[q] = before[q] \ {p}
    BY <2>1, <2>2, EndOrder
  <2>4. /\ ~Session!Off.created /\ Session!Off.pc = "off"
        /\ \A j \in Params : Session!Off.saved[j] = ""
    BY OffOK
  <2>5. ChanInv'
    BY <1>1, <2>1, <2>4, ChanClosed
  <2>6. \A j \in Params : run[p].saved[j] = ""
    <3>1. NothingSaved(run[p])
      BY <1>1, <1>3 DEF NothingSaved
    <3> QED
      BY <1>0, <3>1, ParamCases DEF RunOK
  <2>7. ASSUME ~dirty' PROVE ColourInv'
    <3>1. ColourInv
      BY <1>1, <2>7 DEF SessionInv
    <3>2. \A q \in Procs, j \in Params : run'[q].saved[j] = run[q].saved[j]
      BY <2>3, <2>4, <2>6
    <3>3. \A ps \in SUBSET Procs, j \in Params :
            Under(j, ps)' = Under(j, ps) /\ Under(j, ps \ {p})' = Under(j, ps)
      BY <1>1, <2>6, <3>2 DEF Under
    <3>4. \A q \in Procs : Session!Overtaken(q)' => Session!Overtaken(q)
      BY <2>3 DEF Session!Overtaken, Session!Up
    <3>5. \A q \in Procs : run'[q].pc # "off" => run'[q] = run[q]
      BY <2>3, <2>4
    <3>6. \A q \in Procs : run'[q].pc \in {"color", "colorset"} => ~Session!Overtaken(q)'
      BY <3>1, <3>4, <3>5 DEF ColourInv
    <3>7. \A q \in Procs : run'[q].pc = "restore" /\ run'[q].i = 1 => ~Session!Overtaken(q)'
      BY <3>1, <3>4, <3>5 DEF ColourInv
    <3>8. \A j \in Params : param'[j] = Under(j, Procs)'
      BY <1>1, <3>1, <3>3 DEF ColourInv
    <3>9. \A q \in Procs, j \in Params : run'[q].saved[j] # "" => run'[q].saved[j] = Under(j, before[q])'
      <4>1. TAKE q \in Procs, j \in Params
      <4>2. HAVE run'[q].saved[j] # ""
      <4>3. run'[q].saved[j] = Under(j, before[q])
        BY <3>1, <3>2, <4>2 DEF ColourInv
      <4>4. before[q] \in SUBSET Procs /\ before'[q] = before[q] \ {p}
        BY <2>3 DEF SessionInv, SessionTypeOK
      <4>5. Under(j, before[q])' = Under(j, before[q])
        BY <3>3, <4>4
      <4> QED
        BY <4>3, <4>5
    <3>10. \A q \in Procs : run'[q].pc = "colorset" => run'[q].cur = param'[run'[q].i]
      BY <1>1, <3>1, <3>5 DEF ColourInv
    <3> QED
      BY <3>6, <3>7, <3>8, <3>9, <3>10 DEF ColourInv
  <2> QED
    BY <2>3, <2>5, <2>7 DEF SessionInv
<1> QED
  BY <1>2, <1>3

\* A killed run leaves what it had, and is not counted on.
LEMMA KilledStep ==
    ASSUME SessionInv, NEW p \in Procs, Session!Killed(p)
    PROVE  SessionInv'
<1>1. /\ run' = [run EXCEPT ![p] = Session!Off] /\ Session!Ends(p)
      /\ UNCHANGED <<param, chan, base>>
  BY DEF Session!Killed, Session!Becomes
<1>2. dirty' /\ dirty' \in BOOLEAN
  BY Zenon DEF Session!Killed
<1>3. param' \in [Params -> Values] /\ base' = base
  BY <1>1 DEF SessionInv, SessionTypeOK
<1>4. /\ SessionTypeOK' /\ RunsInv' /\ OrderInv'
      /\ run'[p] = Session!Off /\ \A q \in Procs : q # p => run'[q] = run[q]
  BY <1>1, <1>2, <1>3, EndOrder
<1>5. ~Session!Off.created
  BY OffOK
<1>6. ChanInv'
  BY <1>1, <1>2, <1>4, <1>5 DEF SessionInv, ChanInv
<1> QED
  BY <1>2, <1>4, <1>6 DEF SessionInv

\* color_restore() puts back one parameter after the other.
LEMMA ColorRestoreStep ==
    ASSUME SessionInv, NEW p \in Procs, Session!ColorRestore(p)
    PROVE  SessionInv'
<1>0. run[p] \in RunType /\ RunOK(run[p])
  BY RunAt
<1> DEFINE i == run[p].i
           v == IF run[p].saved[i] = "" THEN param[i] ELSE run[p].saved[i]
<1>1. run[p].pc = "restore" /\ UNCHANGED <<chan, base>>
  BY DEF Session!ColorRestore
<1>2. dirty' = (dirty \/ Session!Overtaken(p))
  BY DEF Session!ColorRestore
<1>3. param' = [param EXCEPT ![i] = v]
  BY DEF Session!ColorRestore
<1>4. param \in [Params -> Values] /\ i \in Params /\ run[p].saved[i] \in Values \cup {""}
  BY <1>0 DEF SessionInv, SessionTypeOK, RunType
<1>5. v \in Values
  BY <1>4
<1>6. param' \in [Params -> Values]
  BY <1>3, <1>4, <1>5
<1>7. dirty' \in BOOLEAN
  BY <1>2, Zenon
<1>8. (~dirty' => ~dirty /\ ~Session!Overtaken(p)) /\ (dirty => dirty')
  BY <1>2, Zenon
<1>9. run[p].dma /\ (run[p].user => run[p].zero) /\ (run[p].zero => run[p].dma)
  BY <1>0, <1>1 DEF RunOK
<1>10. ASSUME ~dirty PROVE ~Session!Overtaken(p) => v = Under(i, before[p])
  <2>0. SUFFICES ASSUME ~Session!Overtaken(p) PROVE v = Under(i, before[p])
    OBVIOUS
  <2>1. ColourInv
    BY <1>10 DEF SessionInv
  <2>2. CASE run[p].saved[i] # ""
    BY <1>4, <2>1, <2>2 DEF ColourInv
  <2>3. CASE run[p].saved[i] = ""
    <3>1. param[i] = Under(i, Procs) /\ v = param[i]
      BY <1>4, <2>1, <2>3 DEF ColourInv
    <3>2. \A q \in Procs : q # p /\ run[q].pc # "off" => q \in before[p]
      BY <1>1, <2>0, NewestBefore
    <3>3. \A q \in Procs : run[q].saved[i] # "" => run[q].pc # "off"
      <4>1. TAKE q \in Procs
      <4>2. RunOK(run[q])
        BY RunAt
      <4>3. i = 0 \/ i = 1
        BY <1>4, ParamCases
      <4> QED
        BY <4>2, <4>3 DEF RunOK, NothingSaved
    <3>4. before[p] \subseteq Procs
      BY DEF SessionInv, SessionTypeOK
    <3> HIDE DEF i, v
    <3>5. Under(i, Procs) = Under(i, before[p])
      BY <2>3, <3>2, <3>3, <3>4 DEF Under
    <3> QED
      BY <3>1, <3>5
  <2> QED
    BY <2>2, <2>3
<1> HIDE DEF v
(* What is common to the two steps that keep the run up. *)
<1>11. ASSUME NEW r \in RunType, RunOK(r), run' = [run EXCEPT ![p] = r], UNCHANGED before,
              r.pc # "off", r.pc # "colorset", r.created = run[p].created, r.saved[i] = "",
              \A j \in Params : j # i => r.saved[j] = run[p].saved[j]
       PROVE  SessionInv'
  <2>1. run \in [Procs -> RunType] /\ run' \in [Procs -> RunType]
    BY <1>11 DEF SessionInv, SessionTypeOK
  <2>2. run'[p] = r /\ \A q \in Procs : q # p => run'[q] = run[q]
    BY <1>11, <2>1
  <2>3. SessionTypeOK'
    BY <1>1, <1>6, <1>7, <1>11, <2>1 DEF SessionInv, SessionTypeOK
  <2>4. RunsInv'
    BY <1>11, <2>2 DEF SessionInv, RunsInv
  <2>5. Session!Up' = Session!Up
    BY <1>1, <1>11, <2>2 DEF Session!Up
  <2>6. OrderInv'
    BY <1>11, <2>5 DEF SessionInv, OrderInv
  <2>7. ChanInv'
    BY <1>1, <1>8, <1>11, ChanKept
  <2>8. ASSUME ~dirty' PROVE ColourInv'
    <3>1. ~dirty /\ ~Session!Overtaken(p) /\ v = Under(i, before[p])
      BY <1>8, <1>10, <2>8
    <3>2. \A q \in Session!Up : before'[q] = before[q]
      BY <1>11
    <3>3. run[p].pc # "off" /\ base' = base
      BY <1>1
    <3> HIDE DEF i
    <3> QED
      BY <1>3, <1>4, <1>5, <1>11, <3>1, <3>2, <3>3, PutColour
  <2> QED
    BY <2>3, <2>4, <2>6, <2>7, <2>8 DEF SessionInv
<1>12. i = 0 \/ i = 1
  BY <1>4, ParamCases
<1>12a. (i = 0 => ~(i + 1 = Session!NCOLOR)) /\ (i = 1 => i + 1 = Session!NCOLOR)
  BY DEF Session!NCOLOR
<1>13. 0 \in Params /\ 1 \in Params /\ "" \in Values \cup {""} /\ "vdclose" \in Pcs
  BY DEF Params, Pcs
<1>14. run[p].saved \in [Params -> Values \cup {""}]
  BY <1>0 DEF RunType
<1>15. CASE i = 0
  <2> DEFINE sv == [run[p].saved EXCEPT ![i] = ""]
             r == [run[p] EXCEPT !.i = 1, !.saved = sv]
  <2>1. run' = [run EXCEPT ![p] = [run[p] EXCEPT !.i = i + 1, !.saved[i] = ""]] /\ UNCHANGED before
    BY <1>12a, <1>15, Zenon DEF Session!ColorRestore, Session!Becomes
  <2>2. [run[p] EXCEPT !.i = i + 1, !.saved[i] = ""] = r
    <3>1. i + 1 = 1
      BY <1>15
    <3> QED
      BY <1>0, <3>1 DEF RunType
  <2>3. sv \in [Params -> Values \cup {""}] /\ sv[i] = "" /\ \A j \in Params : j # i => sv[j] = run[p].saved[j]
    BY <1>4, <1>13, <1>14
  <2> HIDE DEF sv
  <2>4. /\ r.pc = "restore" /\ r.saved = sv /\ r.dma = run[p].dma /\ r.zero = run[p].zero
        /\ r.user = run[p].user /\ r.created = run[p].created /\ r.failed = run[p].failed
    BY <1>0, <1>1 DEF RunType
  <2>5. r \in RunType
    BY <1>0, <1>13, <2>3 DEF RunType
  <2>6. run' = [run EXCEPT ![p] = r]
    BY <2>1, <2>2
  <2> HIDE DEF r
  <2>7. RunOK(r)
    <3>1. r.pc = "restore" /\ r.dma /\ (r.user => r.zero) /\ (r.zero => r.dma)
      BY <1>9, <2>4
    <3>2. ~r.failed => ~r.created
      BY <1>0, <1>1, <2>4 DEF RunOK
    <3>3. r.saved[0] = ""
      BY <1>15, <2>3, <2>4
    <3>4. ~OnScreen(r) /\ ~NothingSaved(r)
      BY <3>1 DEF OnScreen, NothingSaved
    <3> QED
      BY <3>1, <3>2, <3>3, <3>4 DEF RunOK
  <2> QED
    BY <1>11, <2>1, <2>3, <2>4, <2>5, <2>6, <2>7
<1>16. CASE i = 1 /\ run[p].failed
  <2> DEFINE sv == [run[p].saved EXCEPT ![i] = ""]
             r == [run[p] EXCEPT !.pc = "vdclose", !.saved = sv]
  <2>1. run' = [run EXCEPT ![p] = [run[p] EXCEPT !.pc = "vdclose", !.saved[i] = ""]] /\ UNCHANGED before
    BY <1>12a, <1>16, Zenon DEF Session!ColorRestore, Session!Becomes
  <2>2. [run[p] EXCEPT !.pc = "vdclose", !.saved[i] = ""] = r
    BY <1>0 DEF RunType
  <2>3. sv \in [Params -> Values \cup {""}] /\ sv[i] = "" /\ \A j \in Params : j # i => sv[j] = run[p].saved[j]
    BY <1>4, <1>13, <1>14
  <2> HIDE DEF sv
  <2>4. /\ r.pc = "vdclose" /\ r.saved = sv /\ r.dma = run[p].dma /\ r.zero = run[p].zero
        /\ r.user = run[p].user /\ r.created = run[p].created /\ r.failed = run[p].failed
    BY <1>0, <1>1 DEF RunType
  <2>5. r \in RunType
    BY <1>0, <1>13, <2>3 DEF RunType
  <2>6. run' = [run EXCEPT ![p] = r]
    BY <2>1, <2>2
  <2> HIDE DEF r
  <2>7. RunOK(r)
    <3>1. r.pc = "vdclose" /\ r.failed /\ (r.user => r.zero) /\ (r.zero => r.dma)
      BY <1>9, <1>16, <2>4
    <3>2. run[p].saved[0] = ""
      BY <1>0, <1>1, <1>16 DEF RunOK
    <3>3. r.saved[0] = "" /\ r.saved[1] = ""
      BY <1>13, <1>16, <2>3, <2>4, <3>2
    <3>4. ~OnScreen(r)
      BY <3>1 DEF OnScreen
    <3> QED
      BY <3>1, <3>3, <3>4 DEF RunOK
  <2> QED
    BY <1>11, <2>1, <2>3, <2>4, <2>5, <2>6, <2>7
<1>17. CASE i = 1 /\ ~run[p].failed
  <2>1. run' = [run EXCEPT ![p] = Session!Off] /\ Session!Ends(p)
    BY <1>12a, <1>17, Zenon DEF Session!ColorRestore, Session!Becomes
  <2>2. base' = base
    BY <1>1
  <2>3. /\ SessionTypeOK' /\ RunsInv' /\ OrderInv'
        /\ \A q \in Procs : before'[q] = before[q] \ {p}
    BY <1>6, <1>7, <2>1, <2>2, EndOrder
  <2>4. /\ Session!Off \in RunType /\ ~Session!Off.created /\ Session!Off.pc = "off"
        /\ \A j \in Params : Session!Off.saved[j] = ""
    BY OffOK
  <2>5. ~run[p].created /\ run[p].saved[0] = ""
    BY <1>0, <1>1, <1>17 DEF RunOK
  <2>6. ChanInv'
    BY <1>1, <1>8, <2>1, <2>4, <2>5, ChanClosed
  <2>7. ASSUME ~dirty' PROVE ColourInv'
    <3>1. ~dirty /\ ~Session!Overtaken(p) /\ v = Under(i, before[p])
      BY <1>8, <1>10, <2>7
    <3>2. \A q \in Session!Up : before'[q] = before[q]
      BY <2>3, <3>1 DEF Session!Overtaken, Session!Up
    <3>3. run[p].pc # "off"
      BY <1>1
    <3>4. /\ Session!Off.saved[i] = "" /\ Session!Off.pc # "colorset"
          /\ \A j \in Params : j # i => Session!Off.saved[j] = run[p].saved[j]
      BY <1>4, <1>17, <2>4, <2>5, ParamCases
    <3>5. PICK o \in RunType : o = Session!Off
      BY <2>4
    <3>6. /\ run' = [run EXCEPT ![p] = o] /\ o.saved[i] = "" /\ o.pc # "colorset"
          /\ \A j \in Params : j # i => o.saved[j] = run[p].saved[j]
      BY <2>1, <3>4, <3>5
    <3> HIDE DEF i
    <3> QED
      BY <1>3, <1>4, <1>5, <2>2, <3>1, <3>2, <3>3, <3>6, PutColour
  <2> QED
    BY <2>3, <2>6, <2>7 DEF SessionInv
<1> QED
  BY <1>12, <1>15, <1>16, <1>17

\* A run is started behind those that are up.
LEMMA LaunchStep ==
    ASSUME SessionInv, NEW p \in Procs, Session!Launch(p)
    PROVE  SessionInv'
<1>0. run[p] \in RunType /\ RunOK(run[p])
  BY RunAt
<1>1. /\ run[p].pc = "off" /\ UNCHANGED <<param, chan, base>>
      /\ before' = [before EXCEPT ![p] = Session!Up]
  BY DEF Session!Launch
<1>2. dirty' = (dirty \/ \E q \in Session!Up : run[q].pc \in {"color", "colorset", "restore"})
  BY DEF Session!Launch
<1>3. PICK dma \in BOOLEAN, zero \in BOOLEAN, user \in BOOLEAN :
        /\ zero => dma
        /\ user => zero
        /\ run' = [run EXCEPT ![p] = [Session!Off EXCEPT !.pc = IF dma THEN "color" ELSE "vdopen",
                                                         !.dma = dma, !.zero = zero, !.user = user]]
  BY DEF Session!Launch, Session!Becomes
<1> DEFINE npc == IF dma THEN "color" ELSE "vdopen"
           r == [Session!Off EXCEPT !.pc = npc, !.dma = dma, !.zero = zero, !.user = user]
<1>4. npc \in Pcs /\ (dma => npc = "color") /\ (~dma => npc = "vdopen")
  BY DEF Pcs
<1>5. run' = [run EXCEPT ![p] = r]
  BY <1>3
<1> HIDE DEF npc
<1>6. /\ Session!Off \in RunType /\ Session!Off.saved = [i \in Params |-> ""] /\ ~Session!Off.created
  BY OffOK
<1>7. Session!Off.i = 0 /\ Session!Off.root /\ ~Session!Off.failed
  BY DEF Session!Off
<1>8. r \in RunType
  BY <1>4, <1>6 DEF RunType
<1>9. /\ r.pc = npc /\ r.dma = dma /\ r.zero = zero /\ r.user = user /\ r.root /\ ~r.failed /\ ~r.created
      /\ r.saved = [i \in Params |-> ""]
  BY <1>6, <1>7 DEF RunType
<1>10. r.i = 0
  BY <1>6, <1>7 DEF RunType
<1> HIDE DEF r
<1>11. \A j \in Params : r.saved[j] = ""
  BY <1>9
<1>11a. 0 \in Params /\ 1 \in Params
  BY DEF Params
<1>12. r.saved[0] = "" /\ r.saved[1] = ""
  BY <1>11, <1>11a
<1>13. r.i # 1
  BY <1>10
<1>14. RunOK(r)
  <2>1. (r.user => r.zero) /\ (r.zero => r.dma) /\ r.root /\ ~r.failed /\ ~r.created
    BY <1>3, <1>9
  <2>2. (r.dma => r.pc = "color") /\ (~r.dma => r.pc = "vdopen")
    BY <1>4, <1>9
  <2>3. ~OnScreen(r)
    BY <2>2 DEF OnScreen
  <2> QED
    BY <1>12, <1>13, <2>1, <2>2, <2>3 DEF RunOK
<1>15. r.pc \in {"color", "vdopen"}
  BY <1>4, <1>9
<1>16. run \in [Procs -> RunType] /\ run' \in [Procs -> RunType]
  BY <1>5, <1>8 DEF SessionInv, SessionTypeOK
<1>17. run'[p] = r /\ \A q \in Procs : q # p => run'[q] = run[q]
  BY <1>5, <1>16
<1>18. p \notin Session!Up /\ Session!Up' = Session!Up \cup {p} /\ Session!Up \subseteq Procs
  BY <1>1, <1>15, <1>17 DEF Session!Up
<1>19. before \in [Procs -> SUBSET Procs] /\ before' \in [Procs -> SUBSET Procs]
  BY <1>1, <1>18 DEF SessionInv, SessionTypeOK
<1>20. before'[p] = Session!Up /\ \A q \in Procs : q # p => before'[q] = before[q]
  BY <1>1, <1>19
<1>21. dirty' \in BOOLEAN
  BY <1>2, Zenon
<1>22. SessionTypeOK'
  BY <1>1, <1>16, <1>19, <1>21 DEF SessionInv, SessionTypeOK
<1>23. RunsInv'
  BY <1>14, <1>17 DEF SessionInv, RunsInv
<1>24. OrderInv'
  <2>1. OrderInv
    BY DEF SessionInv
  <2>2. \A q \in Procs : before'[q] \subseteq Session!Up' /\ q \notin before'[q]
    BY <1>18, <1>20, <2>1 DEF OrderInv
  <2>3. \A q \in Session!Up', u \in Session!Up' : q = u \/ q \in before'[u] \/ u \in before'[q]
    BY <1>18, <1>20, <2>1 DEF OrderInv
  <2> QED
    BY <2>2, <2>3 DEF OrderInv
<1>25. ~run[p].created
  BY <1>0, <1>1 DEF RunOK
<1>26. dirty => dirty'
  BY <1>2, Zenon
<1>27. ChanInv'
  BY <1>1, <1>5, <1>9, <1>25, <1>26, ChanClosed
<1>28. ASSUME ~dirty' PROVE ColourInv'
  <2>1. ~dirty /\ \A q \in Session!Up : run[q].pc \notin {"color", "colorset", "restore"}
    BY <1>2, <1>28, Zenon
  <2>2. ColourInv
    BY <2>1 DEF SessionInv
  <2>3. \A q \in Procs, j \in Params : run'[q].saved[j] = run[q].saved[j]
    <3>1. NothingSaved(run[p])
      BY <1>1 DEF NothingSaved
    <3>2. run[p].saved[0] = "" /\ run[p].saved[1] = ""
      BY <1>0, <3>1 DEF RunOK
    <3>3. \A j \in Params : run[p].saved[j] = ""
      BY <3>2, ParamCases
    <3> QED
      BY <1>11, <1>17, <3>3
  <2>4. \A ps \in SUBSET Procs, j \in Params : Under(j, ps)' = Under(j, ps)
    BY <1>1, <2>3 DEF Under
  <2>5. \A q \in Procs : q # p => run'[q].pc \notin {"color", "colorset", "restore"}
    BY <1>17, <2>1 DEF Session!Up
  <2>6. ~Session!Overtaken(p)'
    <3>1. \A q \in Session!Up' : p \notin before'[q]
      BY <1>18, <1>20 DEF SessionInv, OrderInv
    <3> QED
      BY <3>1 DEF Session!Overtaken
  <2>7. \A q \in Procs : run'[q].pc \in {"color", "colorset"} => ~Session!Overtaken(q)'
    BY <2>5, <2>6
  <2>8. \A q \in Procs : run'[q].pc = "restore" /\ run'[q].i = 1 => ~Session!Overtaken(q)'
    BY <2>5, <2>6
  <2>9. \A j \in Params : param'[j] = Under(j, Procs)'
    BY <1>1, <2>2, <2>4 DEF ColourInv
  <2>10. \A q \in Procs, j \in Params : run'[q].saved[j] # "" => run'[q].saved[j] = Under(j, before[q])'
    <3>1. TAKE q \in Procs, j \in Params
    <3>2. CASE q = p
      BY <1>11, <1>17, <3>2
    <3>3. CASE q # p
      <4>1. before'[q] = before[q] /\ before[q] \in SUBSET Procs
        BY <1>19, <1>20, <3>3
      <4>2. Under(j, before[q])' = Under(j, before[q])
        BY <2>4, <4>1
      <4> QED
        BY <2>2, <2>3, <4>2 DEF ColourInv
    <3> QED
      BY <3>2, <3>3
  <2>11. \A q \in Procs : run'[q].pc = "colorset" => run'[q].cur = param'[run'[q].i]
    BY <1>15, <1>17, <2>5
  <2> QED
    BY <2>7, <2>8, <2>9, <2>10, <2>11 DEF ColourInv
<1> QED
  BY <1>22, <1>23, <1>24, <1>27, <1>28 DEF SessionInv

(* Nothing is saved or created when no run is up. *)
LEMMA NobodyUp ==
    ASSUME SessionInv, Session!Up = {}
    PROVE  \A q \in Procs : /\ run[q].pc = "off" /\ ~run[q].created
                            /\ \A j \in Params : run[q].saved[j] = ""
<1>1. TAKE q \in Procs
<1>2. run[q].pc = "off" /\ RunOK(run[q])
  BY RunAt DEF Session!Up
<1>3. NothingSaved(run[q]) /\ ~run[q].created
  BY <1>2 DEF NothingSaved, RunOK
<1>4. run[q].saved[0] = "" /\ run[q].saved[1] = ""
  BY <1>2, <1>3 DEF RunOK
<1> QED
  BY <1>2, <1>3, <1>4, ParamCases

(* --destroy puts "auto" where nobody is there to restore anything else. *)
LEMMA DestroyStep ==
    ASSUME SessionInv, Session!Destroy
    PROVE  SessionInv'
<1>1. /\ Session!Up = {} /\ param' = [i \in Params |-> "auto"] /\ base' = param'
      /\ UNCHANGED <<run, before>>
  BY DEF Session!Destroy, Params, Session!NCOLOR
<1>2. dirty' = (chan' # None)
  BY DEF Session!Destroy
<1>3. dirty' \in BOOLEAN /\ (~dirty' => chan' = None)
  BY <1>2, Zenon
<1>4. \A q \in Procs : /\ run[q].pc = "off" /\ ~run[q].created
                       /\ \A j \in Params : run[q].saved[j] = ""
  BY <1>1, NobodyUp
<1>5. param' \in [Params -> Values]
  BY <1>1 DEF Values
<1>6. SessionTypeOK'
  BY <1>1, <1>3, <1>5 DEF SessionInv, SessionTypeOK
<1>7. RunsInv' /\ OrderInv'
  BY <1>1 DEF SessionInv, RunsInv, OrderInv, Session!Up
<1>8. ChanInv'
  BY <1>1, <1>3, <1>4 DEF ChanInv
<1>9. ColourInv'
  <2>1. \A j \in Params : param'[j] = Under(j, Procs)'
    BY <1>1, <1>4 DEF Under
  <2> QED
    BY <1>1, <1>4, <2>1 DEF ColourInv
<1> QED
  BY <1>6, <1>7, <1>8, <1>9 DEF SessionInv

\* The first states.
LEMMA SessionInit == Session!Init => SessionInv
<1> SUFFICES ASSUME Session!Init PROVE SessionInv
  OBVIOUS
<1>1. /\ Session!Off \in RunType /\ RunOK(Session!Off) /\ Session!Off.pc = "off" /\ ~Session!Off.created
      /\ \A j \in Params : Session!Off.saved[j] = ""
  BY OffOK
<1>2. /\ param \in [Params -> {"auto", "other"}] /\ base = param /\ chan = None
      /\ run = [q \in Procs |-> Session!Off] /\ before = [q \in Procs |-> {}]
  BY DEF Session!Init, Params, Session!NCOLOR
<1>3. dirty \in BOOLEAN
  BY Zenon DEF Session!Init
<1>4. \A q \in Procs : run[q] = Session!Off /\ before[q] = {}
  BY <1>2
<1>5. SessionTypeOK
  <2>1. param \in [Params -> Values]
    BY <1>2 DEF Values
  <2> QED
    BY <1>1, <1>2, <1>3, <2>1 DEF SessionTypeOK
<1>6. RunsInv /\ ChanInv /\ OrderInv
  BY <1>1, <1>2, <1>4 DEF RunsInv, ChanInv, OrderInv, Session!Up
<1>7. ColourInv
  BY <1>1, <1>2, <1>4 DEF ColourInv, Under
<1> QED
  BY <1>5, <1>6, <1>7 DEF SessionInv

\* Every step of a run, or of --destroy.
LEMMA SessionStep ==
    ASSUME SessionInv, Session!Next
    PROVE  SessionInv'
<1>1. CASE Session!Destroy
  BY <1>1, DestroyStep
<1>2. ASSUME NEW p \in Procs, Session!Launch(p) \/ Session!Step(p) \/ Session!Killed(p)
      PROVE  SessionInv'
  BY <1>2, LaunchStep, KilledStep, ColorReadStep, ColorWriteStep, PrepareStep, WindowStep, VdOpenStep,
     VdCreateStep, VdStartStep, LoopEndsStep, VdCloseStep, ColorRestoreStep DEF Session!Step
<1> QED
  BY <1>1, <1>2 DEF Session!Next

\* A step of another program.
LEMMA SessionStutter ==
    ASSUME SessionInv, UNCHANGED session
    PROVE  SessionInv'
<1>1. UNCHANGED <<param, chan, run, base, before, dirty>>
  BY DEF session
<1>2. SessionTypeOK'
  BY <1>1 DEF SessionInv, SessionTypeOK
<1>3. RunsInv' /\ ChanInv'
  BY <1>1 DEF SessionInv, RunsInv, ChanInv
<1>4. OrderInv'
  BY <1>1 DEF SessionInv, OrderInv, Session!Up
<1>5. ColourInv => ColourInv'
  BY <1>1, Zenon DEF ColourInv, Under, Session!Up, Session!Overtaken
<1> QED
  BY <1>1, <1>2, <1>3, <1>4, <1>5 DEF SessionInv

\* What the invariant gives.
LEMMA SessionSafe ==
    ASSUME SessionInv
    PROVE  RunsLeaveTheBadge
<1>1. Session!ChannelOwned
  <2>1. Session!Up = {} /\ ~dirty => chan = None
    BY NobodyUp DEF SessionInv, ChanInv
  <2> QED
    BY <2>1 DEF SessionInv, ChanInv, Session!ChannelOwned
<1>2. Session!ColoursRestored
  <2>1. SUFFICES ASSUME ~dirty
                 PROVE  /\ Session!Up = {} => param = base
                        /\ \A p \in Procs : run[p].pc = "loop" /\ run[p].dma =>
                              param = [i \in Params |-> "want"]
    BY DEF Session!ColoursRestored, Params, Session!NCOLOR
  <2>2. /\ param \in [Params -> Values] /\ base \in [Params -> Values]
        /\ \A i \in Params : param[i] = Under(i, Procs)
    BY <2>1 DEF SessionInv, SessionTypeOK, ColourInv
  <2>3. ASSUME Session!Up = {} PROVE param = base
    <3>1. \A i \in Params : param[i] = base[i]
      BY <2>2, <2>3, NobodyUp DEF Under
    <3> QED
      BY <2>2, <3>1
  <2>4. ASSUME NEW p \in Procs, run[p].pc = "loop", run[p].dma
        PROVE  param = [i \in Params |-> "want"]
    <3>1. RunOK(run[p]) /\ OnScreen(run[p])
      BY <2>4, RunAt DEF OnScreen
    <3>2. \A i \in Params : run[p].saved[i] # ""
      BY <3>1, ParamCases DEF RunOK
    <3>3. \A i \in Params : param[i] = "want"
      BY <2>2, <3>2 DEF Under
    <3> QED
      BY <2>2, <3>3
  <2> QED
    BY <2>3, <2>4
<1>3. Session!DropAfterOpens
  BY DEF Session!DropAfterOpens, SessionInv, SessionTypeOK, RunType, Pcs
<1> QED
  BY <1>1, <1>2, <1>3 DEF RunsLeaveTheBadge

(* For any number of runs of coda-cube, overlapping and failing anyhow: the *)
(* VDEC channel is its creator's and goes with it, soph_drm's parameters go *)
(* back, and root is given up only after everything that needs it is open   *)
(* (coda-cube.c's color_set(), vd_open(), vd_close(), color_restore()).     *)
THEOREM RunsLeaveTheBadgeThm == MCSpec => []RunsLeaveTheBadge
<1>1. MCInit => SessionInv
  BY SessionInit DEF MCInit
<1>2. SessionInv /\ [MCNext]_all => SessionInv'
  <2>1. SUFFICES ASSUME SessionInv, [MCNext]_all PROVE SessionInv'
    OBVIOUS
  <2>2. CASE Session!Next
    BY <2>1, <2>2, SessionStep
  <2>3. CASE UNCHANGED session
    BY <2>1, <2>3, SessionStutter
  <2> QED
    BY <2>1, <2>2, <2>3, Zenon DEF MCNext, all
<1>3. SessionInv => RunsLeaveTheBadge
  BY SessionSafe
<1> QED
  BY <1>1, <1>2, <1>3, PTL DEF MCSpec

-----------------------------------------------------------------------------
(* badge-kms-check (KmsCheck). *)

(* The steps of badge-kms-check, and which command they are of. *)
KPcs == {"idle", "open", "alloc", "add", "free", "test", "commit", "show", "settle", "flip",
         "close", "walk", "exit", "unrestored"}
Slots == 0 .. 1

CheckTypeOK ==
    /\ kPc \in KPcs /\ slot \in Slots
    /\ live \in [Slots -> Nat] /\ id \in [Slots -> BOOLEAN]
    /\ ret \in Nat /\ row \in Nat /\ failed \in Nat /\ done \in Nat /\ kShown \in Nat

CommandInv ==
    /\ kPc = "open" => cmd \in {"reject", "bars", "flip", "ion"}
    /\ kPc \in {"alloc", "add", "free", "close", "unrestored"} => cmd \in {"reject", "bars", "flip"}
    /\ kPc = "test" => cmd = "reject"
    /\ kPc = "commit" => cmd \in {"bars", "flip"}
    /\ kPc = "show" => cmd = "bars"
    /\ kPc \in {"settle", "flip"} => cmd = "flip"
    /\ kPc = "walk" => cmd = "ion"
    /\ cmd # "flip" => slot = 0

(* Without colour properties the plane keeps what it had, and ion-reject    *)
(* never opens the plane.                                                   *)
PlaneInv ==
    /\ ~props => colour = found
    /\ kPc = "exit" => colour = found
    /\ kPc = "open" \/ cmd = "ion" => ~props

(* Nothing is allocated behind the framebuffer at hand. *)
BufferInv ==
    /\ \A s \in Slots : s > slot => live[s] = 0 /\ ~id[s]
    /\ kPc = "close" => \A s \in Slots : live[s] = 0 /\ ~id[s]

Over == kPc \in {"free", "close", "exit", "unrestored"}

(* Every flip was shown or counted as failed, and 0 is returned after the   *)
(* last of them only.                                                       *)
FlipInv ==
    cmd = "flip" =>
        /\ kShown + failed = done /\ done <= Count
        /\ Over /\ ret = 0 => failed = 0 /\ done = Count

Rows == 1 .. 8

(* The driver answers a row otherwise than the row expects. *)
BadRow(k) == ~(Check!PipeCheck(Check!reject_cases[k]) <=> Check!reject_cases[k].accept)

(* The driver's answer to a row, and that it is what RejectRow looks at. *)
Answer(k) == IF Check!PipeCheck(Check!reject_cases[k]) THEN "ok" ELSE "EINVAL"
Answered == test = Answer(row)

(* reject counts every row behind it that the driver answered wrongly, and  *)
(* nothing else unless a call broke.                                        *)
RejectInv ==
    cmd = "reject" =>
        /\ row \in Rows /\ fault \in {"none"} \cup Check!RejectFaults
        /\ kPc \in {"open", "alloc", "add", "test"} => ret = 0
        /\ ret = 0 \/ ret = 1 \/ ret = 2
        /\ ret = 2 => broke
        /\ kPc \in {"open", "alloc", "add", "test", "free"} => ret = 0 \/ ret = 2
        /\ kPc = "free" /\ add => Answered \/ test = "error"
        /\ kPc = "free" /\ ~broke => add /\ Answered
        /\ kPc = "test" => add
        /\ kPc \in {"open", "alloc", "add"} => ~add
        /\ kPc \in {"open", "alloc", "add", "test", "free"} /\ ret = 0 =>
               /\ (\E k \in Rows : k < row /\ BadRow(k)) => failed > 0
               /\ fault = "none" /\ ~broke => failed = 0
        /\ kPc \in {"close", "exit", "unrestored"} =>
               /\ ret = 0 => \A k \in Rows : ~BadRow(k)
               /\ fault = "none" /\ ~broke => ret = 0

EndOf(a) == a.base + a.size
CheckFaults == {"any address", "flags ignored", "not read-write", "writable read-only"}
Behind == {a \in allocs : EndOf(a) <= phys}

(* The walk is in an allocation, as many behind it as it took hops; what    *)
(* the checks before it found is in `failed'.                               *)
IonInv ==
    cmd = "ion" =>
        /\ kPc \in {"open", "walk", "exit"}
        /\ fault \in {"none"} \cup Check!IonFaults
        /\ allocs \in Check!Layouts
        /\ row \in Nat \ {0}
        /\ phys \in Nat /\ \E a \in allocs : a.base <= phys /\ phys < EndOf(a)
        /\ fault = "none" => row - 1 <= Cardinality(Behind)
        /\ kPc = "walk" => (fault \in CheckFaults => failed = 1) /\ (fault = "none" => failed = 0)
        /\ kPc = "exit" => /\ ret = 0 => fault = "none"
                           /\ fault = "none" /\ Cardinality(allocs) <= Hops => ret = 0

CheckInv ==
    CheckTypeOK /\ CommandInv /\ PlaneInv /\ BufferInv /\ FlipInv /\ RejectInv /\ IonInv

\* badge-kms-check's two framebuffers.
LEMMA SlotCases == 0 \in Slots /\ 1 \in Slots /\ \A s \in Slots : s = 0 \/ s = 1
BY DEF Slots

\* The types are kept.
LEMMA CheckTypeStep ==
    ASSUME CheckTypeOK, Check!Next
    PROVE  CheckTypeOK'
<1> USE DEF Check!frames, Check!plane, Check!counts, Check!ion
<1>0. \A x \in Nat : x + 1 \in Nat
  OBVIOUS
<1>1. slot' \in Slots
  BY SlotCases DEF CheckTypeOK, Check!Next, Check!KmsOpen, Check!Alloc, Check!Add, Check!Free, Check!Test,
     Check!RejectRow, Check!Commit, Check!Show, Check!Settle, Check!Flip, Check!FlipEnd, Check!KmsClose,
     Check!Signal, Check!IonChecks, Check!IonHop
<1>2. live' \in [Slots -> Nat]
  <2>1. \A n \in Nat : [live EXCEPT ![slot] = n] \in [Slots -> Nat]
    BY DEF CheckTypeOK
  <2>2. live[slot] + 1 \in Nat /\ 0 \in Nat /\ live \in [Slots -> Nat]
    BY DEF CheckTypeOK
  <2>3. \/ live' = live \/ live' = [live EXCEPT ![slot] = live[slot] + 1] \/ live' = [live EXCEPT ![slot] = 0]
    BY DEF Check!Next, Check!KmsOpen, Check!Alloc, Check!Add, Check!Free, Check!Test,
     Check!RejectRow, Check!Commit, Check!Show, Check!Settle, Check!Flip, Check!FlipEnd, Check!KmsClose,
     Check!Signal, Check!IonChecks, Check!IonHop, Check!Destroyed
  <2> QED
    BY <2>1, <2>2, <2>3
<1>3. id' \in [Slots -> BOOLEAN]
  <2>1. \/ id' = id \/ id' = [id EXCEPT ![slot] = TRUE] \/ id' = [id EXCEPT ![slot] = FALSE]
    BY DEF Check!Next, Check!KmsOpen, Check!Alloc, Check!Add, Check!Free, Check!Test,
     Check!RejectRow, Check!Commit, Check!Show, Check!Settle, Check!Flip, Check!FlipEnd, Check!KmsClose,
     Check!Signal, Check!IonChecks, Check!IonHop, Check!Destroyed
  <2>2. id \in [Slots -> BOOLEAN]
    BY DEF CheckTypeOK
  <2> QED
    BY <2>1, <2>2
<1>4. ret' \in Nat
  <2>1. ret' = ret \/ ret' = 0 \/ ret' = 1 \/ ret' = 2 \/ ret' = failed
    BY DEF Check!Next, Check!KmsOpen, Check!Alloc, Check!Add, Check!Free, Check!Test,
     Check!RejectRow, Check!Commit, Check!Show, Check!Settle, Check!Flip, Check!FlipEnd, Check!KmsClose,
     Check!Signal, Check!IonChecks, Check!IonHop, Check!FlipResult, Check!AfterEnd, Check!IonFail
  <2> QED
    BY <2>1 DEF CheckTypeOK
<1>5. row' \in Nat
  <2>1. row' = row \/ row' = row + 1
    BY DEF Check!Next, Check!KmsOpen, Check!Alloc, Check!Add, Check!Free, Check!Test,
     Check!RejectRow, Check!Commit, Check!Show, Check!Settle, Check!Flip, Check!FlipEnd, Check!KmsClose,
     Check!Signal, Check!IonChecks, Check!IonHop, Check!AfterEnd, Check!IonFail
  <2> QED
    BY <2>1 DEF CheckTypeOK
<1>6. failed' \in Nat
  <2>1. failed' = failed \/ failed' = failed + 1 \/ failed' = failed + 0 \/ failed' = 0 \/ failed' = 1
    BY DEF Check!Next, Check!KmsOpen, Check!Alloc, Check!Add, Check!Free, Check!Test,
     Check!RejectRow, Check!Commit, Check!Show, Check!Settle, Check!Flip, Check!FlipEnd, Check!KmsClose,
     Check!Signal, Check!IonChecks, Check!IonHop
  <2> QED
    BY <2>1 DEF CheckTypeOK
<1>7. done' \in Nat /\ kShown' \in Nat
  <2>1. (done' = done \/ done' = done + 1) /\ (kShown' = kShown \/ kShown' = kShown + 1)
    BY DEF Check!Next, Check!KmsOpen, Check!Alloc, Check!Add, Check!Free, Check!Test,
     Check!RejectRow, Check!Commit, Check!Show, Check!Settle, Check!Flip, Check!FlipEnd, Check!KmsClose,
     Check!Signal, Check!IonChecks, Check!IonHop
  <2> QED
    BY <2>1 DEF CheckTypeOK
<1>8. kPc' \in KPcs
  BY DEF CheckTypeOK, KPcs, Check!Next, Check!KmsOpen, Check!Alloc, Check!Add, Check!Free, Check!Test,
     Check!RejectRow, Check!Commit, Check!Show, Check!Settle, Check!Flip, Check!FlipEnd, Check!KmsClose,
     Check!Signal, Check!IonChecks, Check!IonHop, Check!AfterEnd, Check!IonFail
<1> QED
  BY <1>1, <1>2, <1>3, <1>4, <1>5, <1>6, <1>7, <1>8 DEF CheckTypeOK

\* A command stays in its own steps.
LEMMA CommandStep ==
    ASSUME CheckTypeOK, CommandInv, Check!Next
    PROVE  CommandInv'
<1> USE DEF Check!frames, Check!plane, Check!counts, Check!ion, CommandInv
<1>0. cmd' = cmd
  BY DEF Check!Next, Check!KmsOpen, Check!Alloc, Check!Add, Check!Free, Check!Test,
     Check!RejectRow, Check!Commit, Check!Show, Check!Settle, Check!Flip, Check!FlipEnd, Check!KmsClose,
     Check!Signal, Check!IonChecks, Check!IonHop
<1>1. cmd # "flip" => slot' = 0
  BY DEF Check!Next, Check!KmsOpen, Check!Alloc, Check!Add, Check!Free, Check!Test,
     Check!RejectRow, Check!Commit, Check!Show, Check!Settle, Check!Flip, Check!FlipEnd, Check!KmsClose,
     Check!Signal, Check!IonChecks, Check!IonHop
<1> QED
  BY <1>0, <1>1 DEF Check!Next, Check!KmsOpen, Check!Alloc, Check!Add, Check!Free, Check!Test,
     Check!RejectRow, Check!Commit, Check!Show, Check!Settle, Check!Flip, Check!FlipEnd, Check!KmsClose,
     Check!Signal, Check!IonChecks, Check!IonHop, Check!AfterEnd, Check!IonFail

\* The plane's colour properties are put back.
LEMMA PlaneStep ==
    ASSUME CommandInv, PlaneInv, Check!Next
    PROVE  PlaneInv'
<1> USE DEF Check!frames, Check!plane, Check!counts, Check!ion, PlaneInv, CommandInv
<1>1. CASE Check!KmsOpen
  BY <1>1 DEF Check!KmsOpen, Check!LookupProps
<1>2. CASE Check!Commit
  BY <1>2 DEF Check!Commit
<1>3. CASE Check!KmsClose
  BY <1>3 DEF Check!KmsClose, Check!Restored
<1>4. CASE Check!IonChecks \/ Check!IonHop
  BY <1>4 DEF Check!IonChecks, Check!IonHop
<1>5. CASE \/ Check!Alloc \/ Check!Add \/ Check!Free \/ Check!Test \/ Check!RejectRow \/ Check!Show
           \/ Check!Settle \/ Check!Flip \/ Check!FlipEnd \/ Check!Signal
  BY <1>5 DEF Check!Alloc, Check!Add, Check!Free, Check!Test, Check!RejectRow, Check!Show,
     Check!Settle, Check!Flip, Check!FlipEnd, Check!Signal
<1> QED
  BY <1>1, <1>2, <1>3, <1>4, <1>5 DEF Check!Next

\* The buffers are freed from the last to the first.
LEMMA BufferStep ==
    ASSUME CheckTypeOK, CommandInv, BufferInv, Check!Next
    PROVE  BufferInv'
<1> USE DEF Check!frames, Check!plane, Check!counts, Check!ion
<1>0. /\ slot \in Slots /\ live \in [Slots -> Nat] /\ id \in [Slots -> BOOLEAN]
      /\ 0 \in Slots /\ 1 \in Slots /\ \A s \in Slots : s = 0 \/ s = 1
  BY SlotCases DEF CheckTypeOK
<1> HIDE DEF Slots
<1>1. CASE Check!Alloc
  <2>1. \A s \in Slots : s > slot => live'[s] = live[s] /\ id'[s] = id[s]
    BY <1>0, <1>1 DEF Check!Alloc
  <2>2. slot' = slot /\ kPc' # "close"
    BY <1>1 DEF Check!Alloc
  <2> QED
    BY <2>1, <2>2 DEF BufferInv
<1>2. CASE Check!Add
  <2>1. \A s \in Slots : s > slot => live'[s] = live[s] /\ id'[s] = id[s]
    BY <1>0, <1>2 DEF Check!Add
  <2>2. (slot' = slot \/ slot' = 1) /\ kPc' # "close"
    BY <1>2 DEF Check!Add
  <2>3. \A s \in Slots : s > slot' => s > slot
    BY <1>0, <2>2
  <2> QED
    BY <2>1, <2>2, <2>3 DEF BufferInv
<1>3. CASE Check!Free
  <2>1. /\ live'[slot] = 0 /\ ~id'[slot]
        /\ \A s \in Slots : s # slot => live'[s] = live[s] /\ id'[s] = id[s]
    BY <1>0, <1>3 DEF Check!Free, Check!Destroyed
  <2>2. CASE slot = 1
    <3>1. slot' = 0 /\ kPc' = "free"
      BY <1>3, <2>2 DEF Check!Free
    <3> QED
      BY <1>0, <2>1, <2>2, <3>1 DEF BufferInv
  <2>3. CASE slot = 0
    <3>1. slot' = 0
      BY <1>3, <2>3 DEF Check!Free
    <3>2. \A s \in Slots : live'[s] = 0 /\ ~id'[s]
      BY <1>0, <2>1, <2>3 DEF BufferInv
    <3> QED
      BY <3>2 DEF BufferInv
  <2> QED
    BY <1>0, <2>2, <2>3
<1>4. CASE Check!RejectRow
  <2>1. slot = 0
    BY <1>4 DEF Check!RejectRow, CommandInv
  <2>2. /\ live'[slot] = 0 /\ ~id'[slot]
        /\ \A s \in Slots : s # slot => live'[s] = live[s] /\ id'[s] = id[s]
    BY <1>0, <1>4 DEF Check!RejectRow, Check!Destroyed
  <2>3. \A s \in Slots : live'[s] = 0 /\ ~id'[s]
    BY <1>0, <2>1, <2>2 DEF BufferInv
  <2> QED
    BY <2>3 DEF BufferInv
<1>5. CASE \/ Check!KmsOpen \/ Check!Test \/ Check!Commit \/ Check!Show \/ Check!Settle \/ Check!Flip
           \/ Check!FlipEnd \/ Check!KmsClose \/ Check!Signal \/ Check!IonChecks \/ Check!IonHop
  <2>1. UNCHANGED <<slot, live, id>> /\ (kPc' = "close" => kPc = "close")
    BY <1>5 DEF Check!KmsOpen, Check!Test, Check!Commit, Check!Show, Check!Settle, Check!Flip,
       Check!FlipEnd, Check!KmsClose, Check!Signal, Check!IonChecks, Check!IonHop, Check!AfterEnd, Check!IonFail
  <2> QED
    BY <2>1 DEF BufferInv
<1> QED
  BY <1>1, <1>2, <1>3, <1>4, <1>5 DEF Check!Next

\* The flips are counted.
LEMMA FlipStep ==
    ASSUME CheckTypeOK, CommandInv, FlipInv, Check!Next
    PROVE  FlipInv'
<1> USE DEF Check!frames, Check!plane, Check!counts, Check!ion
<1>0. failed \in Nat /\ done \in Nat /\ kShown \in Nat /\ Count \in Nat
  BY CheckAssumption DEF CheckTypeOK
<1>1. SUFFICES ASSUME cmd = "flip", cmd' = "flip"
               PROVE  /\ kShown' + failed' = done' /\ done' <= Count
                      /\ Over' /\ ret' = 0 => failed' = 0 /\ done' = Count
  <2>1. cmd' = cmd
    BY DEF Check!Next, Check!KmsOpen, Check!Alloc, Check!Add, Check!Free, Check!Test,
       Check!RejectRow, Check!Commit, Check!Show, Check!Settle, Check!Flip, Check!FlipEnd, Check!KmsClose,
       Check!Signal, Check!IonChecks, Check!IonHop
  <2> QED
    BY <2>1 DEF FlipInv
<1>2. kShown + failed = done /\ done <= Count /\ (Over /\ ret = 0 => failed = 0 /\ done = Count)
  BY <1>1 DEF FlipInv
<1>3. CASE Check!Flip
  <2>1. kShown' + failed' = done' /\ kPc' = "flip" /\ done' <= Count
    BY <1>0, <1>2, <1>3 DEF Check!Flip
  <2> QED
    BY <2>1 DEF Over
<1>4. CASE Check!FlipEnd
  <2>1. UNCHANGED <<done, kShown, failed>> /\ (ret' = 0 => ~(failed > 0 \/ done < Count))
    BY <1>0, <1>4 DEF Check!FlipEnd, Check!FlipResult
  <2>2. ret' = 0 => failed = 0
    BY <1>0, <2>1
  <2> QED
    BY <1>0, <1>2, <2>1, <2>2
<1>5. CASE Check!KmsOpen \/ Check!Alloc \/ Check!Add \/ Check!Commit \/ Check!Settle
  BY <1>1, <1>2, <1>5 DEF Check!KmsOpen, Check!Alloc, Check!Add, Check!Commit, Check!Settle, Over
<1>6. CASE Check!Free \/ Check!KmsClose \/ Check!Signal
  BY <1>2, <1>6 DEF Check!Free, Check!KmsClose, Check!Signal, Over
<1>7. CASE Check!Test \/ Check!RejectRow \/ Check!Show \/ Check!IonChecks \/ Check!IonHop
  BY <1>1, <1>7 DEF CommandInv, Check!Test, Check!RejectRow, Check!Show, Check!IonChecks, Check!IonHop
<1> QED
  BY <1>3, <1>4, <1>5, <1>6, <1>7 DEF Check!Next

\* reject's table has eight rows.
LEMMA RowCount == Len(Check!reject_cases) = 8
BY DEF Check!reject_cases

\* The rows, field by field.
LEMMA RowFields ==
    /\ LET c == Check!reject_cases[1] IN
         c.accept /\ ~c.gop /\ c.fmt = "RGB888" /\ c.w = 1280 /\ c.h = 720 /\ c.p0 = 3840 /\ c.p1 = 0 /\ c.o1 = 0 /\ c.nobj = 1
    /\ LET c == Check!reject_cases[2] IN
         c.accept /\ ~c.gop /\ c.fmt = "NV12" /\ c.w = 1280 /\ c.h = 720 /\ c.p0 = 1280 /\ c.p1 = 1280 /\ c.o1 = 942080 /\ c.nobj = 1
    /\ LET c == Check!reject_cases[3] IN
         c.accept /\ ~c.gop /\ c.fmt = "NV12" /\ c.w = 1280 /\ c.h = 720 /\ c.p0 = 1280 /\ c.p1 = 1280 /\ c.o1 = 0 /\ c.nobj = 2
    /\ LET c == Check!reject_cases[4] IN
         ~c.accept /\ ~c.gop /\ c.fmt = "NV12" /\ c.w = 1280 /\ c.h = 720 /\ c.p0 = 1288 /\ c.p1 = 1280 /\ c.o1 = 942080 /\ c.nobj = 1
    /\ LET c == Check!reject_cases[5] IN
         ~c.accept /\ ~c.gop /\ c.fmt = "NV12" /\ c.w = 1280 /\ c.h = 720 /\ c.p0 = 1280 /\ c.p1 = 1280 /\ c.o1 = 942096 /\ c.nobj = 1
    /\ LET c == Check!reject_cases[6] IN c.accept /\ c.gop /\ c.fmt = "XRGB8888" /\ c.w = 640
    /\ LET c == Check!reject_cases[7] IN ~c.accept /\ c.gop /\ c.fmt = "NV12"
    /\ LET c == Check!reject_cases[8] IN ~c.accept /\ ~c.gop /\ c.fmt = "XRGB8888"
BY SMT DEF Check!reject_cases, Check!Layout

\* One of the eight rows.
LEMMA RowCases == \A k \in Rows : k = 1 \/ k = 2 \/ k = 3 \/ k = 4 \/ k = 5 \/ k = 6 \/ k = 7 \/ k = 8
BY DEF Rows

\* Which of the table's pitches and offsets are multiples of 32.
LEMMA Multiples ==
    /\ 3840 % 32 = 0 /\ 1280 % 32 = 0 /\ 942080 % 32 = 0 /\ 0 % 32 = 0
    /\ 1288 % 32 # 0 /\ 942096 % 32 # 0
BY SMT

(* What soph_pipe_check() says of each row, by the fault of the driver. *)
LEMMA RowAnswers ==
    /\ Check!PipeCheck(Check!reject_cases[1])
    /\ Check!PipeCheck(Check!reject_cases[2]) <=> fault # "no NV12"
    /\ Check!PipeCheck(Check!reject_cases[3]) <=> fault # "no NV12" /\ fault # "no second object"
    /\ Check!PipeCheck(Check!reject_cases[4]) <=> fault = "no pitch check"
    /\ Check!PipeCheck(Check!reject_cases[5]) <=> fault = "no address check"
    /\ Check!PipeCheck(Check!reject_cases[6])
    /\ Check!PipeCheck(Check!reject_cases[7]) <=> fault = "GOP takes NV12"
    /\ Check!PipeCheck(Check!reject_cases[8]) <=> fault = "native takes XRGB"
<1>1. Check!PipeCheck(Check!reject_cases[1])
  BY SMT, RowFields, Multiples
    DEF Check!PipeCheck, Check!Size, Check!Aligned, Check!NATIVE_W, Check!NATIVE_H, Check!U16_MAX
<1>2. Check!PipeCheck(Check!reject_cases[2]) <=> fault # "no NV12"
  BY SMT, RowFields, Multiples
    DEF Check!PipeCheck, Check!Size, Check!Aligned, Check!NATIVE_W, Check!NATIVE_H, Check!U16_MAX
<1>3. Check!PipeCheck(Check!reject_cases[3]) <=> fault # "no NV12" /\ fault # "no second object"
  BY SMT, RowFields, Multiples
    DEF Check!PipeCheck, Check!Size, Check!Aligned, Check!NATIVE_W, Check!NATIVE_H, Check!U16_MAX
<1>4. Check!PipeCheck(Check!reject_cases[4]) <=> fault = "no pitch check"
  <2> DEFINE c == Check!reject_cases[4]
  <2>1. /\ ~c.gop /\ c.fmt = "NV12" /\ c.w = 1280 /\ c.h = 720 /\ c.p0 = 1288 /\ c.p1 = 1280
        /\ c.o1 = 942080 /\ c.nobj = 1
    BY RowFields
  <2> HIDE DEF c
  <2>2. (c.p0 % 32 # 0) /\ (c.p1 % 32 = 0) /\ (c.o1 % 32 = 0) /\ c.p0 <= Check!U16_MAX /\ c.p1 <= Check!U16_MAX
    BY SMT, <2>1, Multiples DEF Check!U16_MAX
  <2>3. ~c.gop /\ c.fmt = "NV12" /\ Check!Size(c) /\ c.nobj # 2
    BY SMT, <2>1 DEF Check!Size, Check!NATIVE_W, Check!NATIVE_H
  <2>4a. /\ Check!Aligned(c.p0, "no pitch check") <=> fault = "no pitch check"
         /\ Check!Aligned(c.p1, "no pitch check") /\ Check!Aligned(c.o1, "no address check")
    BY <2>2 DEF Check!Aligned
  <2>4. Check!PipeCheck(c) <=> fault = "no pitch check"
    BY <2>2, <2>3, <2>4a DEF Check!PipeCheck
  <2> QED
    BY <2>4 DEF c
<1>5. Check!PipeCheck(Check!reject_cases[5]) <=> fault = "no address check"
  <2> DEFINE c == Check!reject_cases[5]
  <2>1. /\ ~c.gop /\ c.fmt = "NV12" /\ c.w = 1280 /\ c.h = 720 /\ c.p0 = 1280 /\ c.p1 = 1280
        /\ c.o1 = 942096 /\ c.nobj = 1
    BY RowFields
  <2> HIDE DEF c
  <2>2. (c.p0 % 32 = 0) /\ (c.p1 % 32 = 0) /\ (c.o1 % 32 # 0) /\ c.p0 <= Check!U16_MAX /\ c.p1 <= Check!U16_MAX
    BY SMT, <2>1, Multiples DEF Check!U16_MAX
  <2>3. ~c.gop /\ c.fmt = "NV12" /\ Check!Size(c) /\ c.nobj # 2
    BY SMT, <2>1 DEF Check!Size, Check!NATIVE_W, Check!NATIVE_H
  <2>4a. /\ Check!Aligned(c.o1, "no address check") <=> fault = "no address check"
         /\ Check!Aligned(c.p0, "no pitch check") /\ Check!Aligned(c.p1, "no pitch check")
    BY <2>2 DEF Check!Aligned
  <2>4. Check!PipeCheck(c) <=> fault = "no address check"
    BY <2>2, <2>3, <2>4a DEF Check!PipeCheck
  <2> QED
    BY <2>4 DEF c
<1>6. Check!PipeCheck(Check!reject_cases[6])
  BY SMT, RowFields DEF Check!PipeCheck, Check!NATIVE_W
<1>7. Check!PipeCheck(Check!reject_cases[7]) <=> fault = "GOP takes NV12"
  BY SMT, RowFields DEF Check!PipeCheck, Check!NATIVE_W
<1>8. Check!PipeCheck(Check!reject_cases[8]) <=> fault = "native takes XRGB"
  BY SMT, RowFields DEF Check!PipeCheck, Check!NATIVE_W
<1> QED
  BY <1>1, <1>2, <1>3, <1>4, <1>5, <1>6, <1>7, <1>8

(* Every fault shows in a row, and a driver without one in none. *)
LEMMA FaultsShow ==
    /\ fault \in Check!RejectFaults => \E k \in Rows : BadRow(k)
    /\ fault = "none" => \A k \in Rows : ~BadRow(k)
<1>0. /\ Check!reject_cases[1].accept /\ Check!reject_cases[2].accept /\ Check!reject_cases[3].accept
      /\ ~Check!reject_cases[4].accept /\ ~Check!reject_cases[5].accept /\ Check!reject_cases[6].accept
      /\ ~Check!reject_cases[7].accept /\ ~Check!reject_cases[8].accept
  BY RowFields
<1>1. /\ ~BadRow(1) /\ (BadRow(2) <=> fault = "no NV12")
      /\ (BadRow(3) <=> fault = "no NV12" \/ fault = "no second object")
      /\ (BadRow(4) <=> fault = "no pitch check") /\ (BadRow(5) <=> fault = "no address check")
      /\ ~BadRow(6) /\ (BadRow(7) <=> fault = "GOP takes NV12") /\ (BadRow(8) <=> fault = "native takes XRGB")
  BY <1>0, RowAnswers DEF BadRow
<1>2. 2 \in Rows /\ 3 \in Rows /\ 4 \in Rows /\ 5 \in Rows /\ 7 \in Rows /\ 8 \in Rows
  BY DEF Rows
<1>3. fault \in Check!RejectFaults => \E k \in Rows : BadRow(k)
  BY <1>1, <1>2 DEF Check!RejectFaults
<1>4. fault = "none" => \A k \in Rows : ~BadRow(k)
  BY <1>1, RowCases
<1> QED
  BY <1>3, <1>4

\* The driver's answers do not change.
LEMMA SameDriver ==
    ASSUME fault' = fault
    PROVE  \A k : (BadRow(k)' <=> BadRow(k)) /\ Answer(k)' = Answer(k)
<1>1. \A l : Check!PipeCheck(l)' <=> Check!PipeCheck(l)
  BY DEF Check!PipeCheck, Check!Aligned
<1> QED
  BY <1>1 DEF BadRow, Answer

\* reject counts the rows that are answered wrongly.
LEMMA RejectStep ==
    ASSUME CheckTypeOK, CommandInv, RejectInv, Check!Next
    PROVE  RejectInv'
<1> USE DEF Check!frames, Check!plane, Check!counts, Check!ion
<1>0. cmd' = cmd /\ fault' = fault
  BY DEF Check!Next, Check!KmsOpen, Check!Alloc, Check!Add, Check!Free, Check!Test,
     Check!RejectRow, Check!Commit, Check!Show, Check!Settle, Check!Flip, Check!FlipEnd, Check!KmsClose,
     Check!Signal, Check!IonChecks, Check!IonHop
<1>1. SUFFICES ASSUME cmd = "reject" PROVE RejectInv'
  BY <1>0 DEF RejectInv
<1>2. \A k : (BadRow(k)' <=> BadRow(k)) /\ Answer(k)' = Answer(k)
  BY <1>0, SameDriver
<1>3. row \in Rows /\ row \in Nat /\ failed \in Nat /\ fault \in {"none"} \cup Check!RejectFaults
  BY <1>1 DEF RejectInv, CheckTypeOK
<1>4. CASE Check!KmsOpen
  <2>1. UNCHANGED <<cmd, fault, row, failed, add, test>> /\ kPc = "open" /\ ret = 0
    BY <1>1, <1>4 DEF Check!KmsOpen, RejectInv
  <2>2. CASE kPc' = "exit" /\ ret' = 2 /\ broke' = TRUE
    BY <1>1, <2>1, <2>2 DEF RejectInv
  <2>3. CASE kPc' = "alloc" /\ UNCHANGED <<ret, broke>>
    <3>1. \A k \in Rows : BadRow(k)' <=> BadRow(k)
      BY <1>2
    <3> QED
      BY <1>1, <2>1, <2>3, <3>1 DEF RejectInv
  <2> QED
    BY <1>4, <2>2, <2>3 DEF Check!KmsOpen
<1>5. CASE Check!Alloc
  <2>1. UNCHANGED <<cmd, fault, row, failed, add, test>> /\ kPc = "alloc" /\ ret = 0
    BY <1>1, <1>5 DEF Check!Alloc, RejectInv
  <2>2. CASE kPc' = "free" /\ ret' = 2 /\ broke' = TRUE
    BY <1>1, <2>1, <2>2 DEF RejectInv
  <2>3. CASE kPc' \in {"alloc", "add"} /\ UNCHANGED <<ret, broke>>
    <3>1. \A k \in Rows : BadRow(k)' <=> BadRow(k)
      BY <1>2
    <3> QED
      BY <1>1, <2>1, <2>3, <3>1 DEF RejectInv
  <2> QED
    BY <1>5, <2>2, <2>3 DEF Check!Alloc
<1>6. CASE Check!Add
  <2>1. UNCHANGED <<cmd, fault, row, failed, test>> /\ kPc = "add" /\ ret = 0
    BY <1>1, <1>6 DEF Check!Add, RejectInv
  <2>2. CASE kPc' = "free" /\ ret' = ret /\ broke' = TRUE /\ add' = FALSE
    <3>1. \A k \in Rows : BadRow(k)' <=> BadRow(k)
      BY <1>2
    <3> QED
      BY <1>1, <2>1, <2>2, <3>1 DEF RejectInv
  <2>3. CASE kPc' = "test" /\ UNCHANGED <<ret, broke>> /\ add' = TRUE
    <3>1. \A k \in Rows : BadRow(k)' <=> BadRow(k)
      BY <1>2
    <3> QED
      BY <1>1, <2>1, <2>3, <3>1 DEF RejectInv
  <2> QED
    BY <1>1, <1>6, <2>2, <2>3 DEF Check!Add
<1>7. CASE Check!Test
  <2>1. UNCHANGED <<cmd, fault, row, failed, add, ret>> /\ kPc = "test" /\ kPc' = "free" /\ ret = 0
    BY <1>1, <1>7 DEF Check!Test, RejectInv
  <2>2. \A k \in Rows : BadRow(k)' <=> BadRow(k)
    BY <1>2
  <2>3. (Answered' <=> test' = Answer(row)) /\ add
    BY <1>1, <1>2, <2>1 DEF Answered, RejectInv
  <2>4. CASE test' = Answer(row) /\ UNCHANGED broke
    BY <1>1, <2>1, <2>2, <2>3, <2>4 DEF RejectInv
  <2>5. CASE test' = "error" /\ broke' = TRUE
    BY <1>1, <2>1, <2>2, <2>5 DEF RejectInv
  <2> QED
    BY <1>7, <2>4, <2>5 DEF Check!Test, Answer
<1>8. CASE Check!RejectRow
  <2> DEFINE ok == Check!RowOk(Check!reject_cases[row])
             bad == failed + (IF ok THEN 0 ELSE 1)
  <2>1. /\ UNCHANGED <<cmd, fault, broke>> /\ kPc = "free" /\ test' = "ok" /\ add' = FALSE
    BY <1>8 DEF Check!RejectRow
  <2>2. ok => ~BadRow(row)
    <3>1. kPc = "free" /\ add => Answered \/ test = "error"
      BY <1>1 DEF RejectInv
    <3> QED
      BY <2>1, <3>1 DEF Check!RowOk, BadRow, Answered, Answer
  <2>3. fault = "none" /\ ~broke => ok
    <3>1. kPc = "free" /\ ~broke => add /\ Answered
      BY <1>1 DEF RejectInv
    <3>2. fault = "none" => ~BadRow(row)
      BY <1>3, FaultsShow
    <3> QED
      BY <2>1, <3>1, <3>2 DEF Check!RowOk, BadRow, Answered, Answer
  <2>4. \/ ret = 2 /\ kPc' = "close" /\ UNCHANGED <<row, failed, ret>>
        \/ ret # 2 /\ row < 8 /\ row' = row + 1 /\ failed' = bad /\ kPc' = "alloc" /\ UNCHANGED ret
        \/ /\ ret # 2 /\ ~(row < 8) /\ failed' = bad /\ ret' = (IF bad > 0 THEN 1 ELSE 0) /\ kPc' = "close"
           /\ UNCHANGED row
    BY <1>8, RowCount, Zenon DEF Check!RejectRow
  <2>5. (ok => bad = failed) /\ (~ok => bad = failed + 1)
    BY <1>3
  <2> HIDE DEF ok, bad
  <2>6. ret = 0 \/ ret = 2
    BY <1>1, <2>1 DEF RejectInv
  <2>7. ret = 0 => /\ (\E k \in Rows : k < row /\ BadRow(k)) => failed > 0
                   /\ fault = "none" /\ ~broke => failed = 0
    BY <1>1, <2>1 DEF RejectInv
  <2>8. ret = 0 => /\ (\E k \in Rows : k <= row /\ BadRow(k)) => bad > 0
                   /\ fault = "none" /\ ~broke => bad = 0
    <3>1. \A k \in Rows : k <= row => k < row \/ k = row
      BY <1>3 DEF Rows
    <3>2. ret = 0 /\ (\E k \in Rows : k <= row /\ BadRow(k)) => bad > 0
      BY <1>3, <2>2, <2>5, <2>7, <3>1
    <3>3. ret = 0 /\ fault = "none" /\ ~broke => bad = 0
      BY <2>3, <2>5, <2>7
    <3> QED
      BY <3>2, <3>3
  <2>9. CASE ret = 2 /\ kPc' = "close" /\ UNCHANGED <<row, failed, ret>>
    BY <1>1, <2>1, <2>9 DEF RejectInv
  <2>10. CASE ret # 2 /\ row < 8 /\ row' = row + 1 /\ failed' = bad /\ kPc' = "alloc" /\ UNCHANGED ret
    <3>1. row' \in Rows /\ \A k \in Rows : k < row' => k <= row
      BY <1>3, <2>10 DEF Rows
    <3>2. (\E k \in Rows : k < row' /\ BadRow(k)') => failed' > 0
      BY <1>2, <2>6, <2>8, <2>10, <3>1
    <3>3. fault' = "none" /\ ~broke' => failed' = 0
      BY <2>1, <2>6, <2>8, <2>10
    <3>4. ret' = 0 /\ fault' \in {"none"} \cup Check!RejectFaults
      BY <1>3, <2>1, <2>6, <2>10
    <3> QED
      BY <1>3, <2>1, <2>10, <3>1, <3>2, <3>3, <3>4 DEF RejectInv
  <2>11. CASE /\ ret # 2 /\ ~(row < 8) /\ failed' = bad /\ ret' = (IF bad > 0 THEN 1 ELSE 0) /\ kPc' = "close"
              /\ UNCHANGED row
    <3>1. \A k \in Rows : k <= row
      BY <1>3, <2>11 DEF Rows
    <3>2. (ret' = 0 \/ ret' = 1) /\ (ret' = 0 <=> ~(bad > 0))
      BY <2>11
    <3>3. ret' = 0 => \A k \in Rows : ~BadRow(k)'
      BY <1>2, <2>6, <2>8, <2>11, <3>1, <3>2
    <3>4. fault' = "none" /\ ~broke' => ret' = 0
      BY <2>1, <2>6, <2>8, <2>11, <3>2
    <3>5. ret' # 2
      BY <3>2
    <3> QED
      BY <1>3, <2>1, <2>11, <3>2, <3>3, <3>4, <3>5 DEF RejectInv
  <2> QED
    BY <2>4, <2>9, <2>10, <2>11
<1>9. CASE Check!KmsClose
  <2>1. /\ UNCHANGED <<cmd, fault, row, failed, add, test, ret, broke>>
        /\ kPc = "close" /\ kPc' \in {"exit", "unrestored"}
    BY <1>9 DEF Check!KmsClose
  <2>2. \A k \in Rows : BadRow(k)' <=> BadRow(k)
    BY <1>2
  <2> QED
    BY <1>1, <2>1, <2>2 DEF RejectInv
<1>10. CASE Check!Signal
  <2>1. UNCHANGED <<cmd, fault, kPc, row, failed, add, test, ret, broke>>
    BY <1>10 DEF Check!Signal
  <2>2. \A k \in Rows : BadRow(k)' <=> BadRow(k)
    BY <1>2
  <2>3. Answered' <=> Answered
    BY <1>2, <2>1 DEF Answered
  <2> QED
    BY <1>1, <2>1, <2>2, <2>3 DEF RejectInv
<1>11. CASE \/ Check!Free \/ Check!Commit \/ Check!Show \/ Check!Settle \/ Check!Flip
            \/ Check!FlipEnd \/ Check!IonChecks \/ Check!IonHop
  BY <1>1, <1>11 DEF CommandInv, Check!Free, Check!Commit, Check!Show, Check!Settle, Check!Flip,
     Check!FlipEnd, Check!IonChecks, Check!IonHop
<1> QED
  BY <1>4, <1>5, <1>6, <1>7, <1>8, <1>9, <1>10, <1>11 DEF Check!Next

(* Allocations have distinct addresses, and are finitely many. *)
LEMMA LayoutFacts ==
    ASSUME allocs \in Check!Layouts
    PROVE  /\ \A a \in allocs : /\ a.base \in Nat /\ a.size \in Nat /\ 1 <= a.base /\ 1 <= a.size
                                /\ a.base <= Memory /\ EndOf(a) <= Memory + 1
           /\ \A a \in allocs, b \in allocs : a = b \/ EndOf(a) <= b.base \/ EndOf(b) <= a.base
           /\ IsFiniteSet(allocs)
<1>1. allocs \subseteq {a \in [base : 1 .. Memory, size : 1 .. Memory] : a.base + a.size <= Memory + 1}
  BY DEF Check!Layouts
<1>2. \A a \in allocs : a \in [base : 1 .. Memory, size : 1 .. Memory] /\ a.base + a.size <= Memory + 1
  BY <1>1
<1>3. \A a \in allocs : a.base \in 1 .. Memory /\ a.size \in 1 .. Memory
  BY <1>2
<1>4. \A a \in allocs : /\ a.base \in Nat /\ a.size \in Nat /\ 1 <= a.base /\ 1 <= a.size
                        /\ a.base <= Memory /\ EndOf(a) <= Memory + 1
  BY <1>2, <1>3, CheckAssumption DEF EndOf
<1>5. \A a \in allocs, b \in allocs : a = b \/ EndOf(a) <= b.base \/ EndOf(b) <= a.base
  BY DEF Check!Layouts, EndOf
<1>6. IsFiniteSet(allocs)
  <2> DEFINE f == [a \in allocs |-> a.base]
  <2>1. \A a \in allocs, b \in allocs : a.base = b.base => a = b
    <3>1. TAKE a \in allocs, b \in allocs
    <3>2. HAVE a.base = b.base
    <3>3. ~(EndOf(a) <= b.base) /\ ~(EndOf(b) <= a.base)
      BY <1>4, <3>2 DEF EndOf
    <3> QED
      BY <1>5, <3>3
  <2>2. f \in Injection(allocs, 1 .. Memory)
    BY <1>3, <2>1 DEF Injection, IsInjective
  <2>3. IsFiniteSet(1 .. Memory)
    BY FS_Interval, CheckAssumption
  <2> QED
    BY <2>2, <2>3, FS_Injection
<1> QED
  BY <1>4, <1>5, <1>6

(* A hop leaves one more allocation behind. *)
LEMMA HopCounts ==
    ASSUME NEW S, IsFiniteSet(S), NEW T \in SUBSET S, NEW U \in SUBSET S, NEW a \in U, a \notin T, T \subseteq U,
           NEW n \in Nat, n <= Cardinality(T)
    PROVE  n + 1 <= Cardinality(U)
<1>1. IsFiniteSet(T) /\ IsFiniteSet(U)
  BY FS_Subset
<1>2. Cardinality(T) \in Nat /\ Cardinality(U) \in Nat
  BY <1>1, FS_CardinalityType
<1>3. Cardinality(T \cup {a}) = Cardinality(T) + 1
  BY <1>1, FS_AddElement
<1>4. T \cup {a} \in SUBSET U
  OBVIOUS
<1>5. Cardinality(T \cup {a}) <= Cardinality(U)
  BY <1>1, <1>4, FS_Subset
<1> QED
  BY <1>2, <1>3, <1>5

(* What the export of an address finds, by the fault of the driver. *)
LEMMA ExportFacts ==
    ASSUME allocs \in Check!Layouts, NEW p \in Int
    PROVE  /\ Check!Exports(p) \subseteq allocs
           /\ \A a \in Check!Exports(p) : a.base <= p
           /\ fault = "none" => \A a \in allocs : a \in Check!Exports(p) <=> a.base <= p /\ p < EndOf(a)
           /\ fault = "end included" => \A a \in allocs : a.base <= p /\ p <= EndOf(a) => a \in Check!Exports(p)
           /\ fault = "last byte refused" => \A a \in Check!Exports(p) : p < EndOf(a) - 1
<1>1. \A a \in allocs : a.base \in Nat /\ a.size \in Nat
  BY LayoutFacts
<1>2. Check!Exports(p) = {a \in allocs : Check!Covers(a, p)}
  BY DEF Check!Exports
<1> DEFINE off == CASE fault = "end included" -> 1
                  [] fault = "last byte refused" -> 0 - 1
                  [] OTHER -> 0
<1>2a. /\ fault = "none" => off = 0
       /\ fault = "end included" => off = 1
       /\ fault = "last byte refused" => off = 0 - 1
  OBVIOUS
<1>2b. \A a : Check!Covers(a, p) <=> a.base <= p /\ p < a.base + a.size + off
  BY Zenon DEF Check!Covers
<1> HIDE DEF off
<1>3. fault = "none" => \A a \in allocs : Check!Covers(a, p) <=> a.base <= p /\ p < EndOf(a)
  BY <1>1, <1>2a, <1>2b DEF EndOf
<1>4. fault = "end included" => \A a \in allocs : a.base <= p /\ p <= EndOf(a) => Check!Covers(a, p)
  <2>1. SUFFICES ASSUME fault = "end included", NEW a \in allocs, a.base <= p, p <= EndOf(a)
                 PROVE  Check!Covers(a, p)
    OBVIOUS
  <2>2. p < a.base + a.size + 1
    <3>1. PICK e \in Nat : e = a.base + a.size
      BY <1>1
    <3>2. p <= e
      BY <2>1, <3>1 DEF EndOf
    <3>3. p < e + 1
      BY <3>2
    <3> QED
      BY <3>1, <3>3
  <2>3. off = 1
    BY <1>2a, <2>1
  <2>4. p < a.base + a.size + off
    BY <2>2, <2>3
  <2> QED
    BY <1>2b, <2>1, <2>4
<1>5. fault = "last byte refused" => \A a \in allocs : Check!Covers(a, p) => p < EndOf(a) - 1
  <2>1. SUFFICES ASSUME fault = "last byte refused", NEW a \in allocs, Check!Covers(a, p)
                 PROVE  p < EndOf(a) - 1
    OBVIOUS
  <2>2. p < a.base + a.size + off
    BY <1>2b, <2>1
  <2>3. off = 0 - 1
    BY <1>2a, <2>1
  <2>4. p < a.base + a.size + (0 - 1)
    BY <2>2, <2>3
  <2> QED
    BY <1>1, <2>4 DEF EndOf
<1>6. \A a \in allocs : Check!Covers(a, p) => a.base <= p
  BY <1>2b
<1> QED
  BY <1>2, <1>3, <1>4, <1>5, <1>6

\* ion-reject's checks and its walk.
LEMMA IonStep ==
    ASSUME CheckTypeOK, CommandInv, IonInv, Check!Next
    PROVE  IonInv'
<1> USE DEF Check!frames, Check!plane, Check!counts, Check!ion
<1>0. cmd' = cmd /\ fault' = fault /\ allocs' = allocs
  BY DEF Check!Next, Check!KmsOpen, Check!Alloc, Check!Add, Check!Free, Check!Test,
     Check!RejectRow, Check!Commit, Check!Show, Check!Settle, Check!Flip, Check!FlipEnd, Check!KmsClose,
     Check!Signal, Check!IonChecks, Check!IonHop
<1>1. SUFFICES ASSUME cmd = "ion" PROVE IonInv'
  BY <1>0 DEF IonInv
<1>2. /\ kPc \in {"open", "walk", "exit"} /\ fault \in {"none"} \cup Check!IonFaults /\ allocs \in Check!Layouts
      /\ row \in Nat \ {0} /\ phys \in Nat /\ \E a \in allocs : a.base <= phys /\ phys < EndOf(a)
      /\ fault = "none" => row - 1 <= Cardinality(Behind)
  BY <1>1 DEF IonInv
<1>3. Hops \in Nat /\ Memory \in Nat
  BY CheckAssumption
<1>4. CASE Check!IonChecks
  <2>1. UNCHANGED <<cmd, fault, row, allocs, phys, ret>> /\ kPc' = "walk"
    BY <1>4 DEF Check!IonChecks
  <2>2. fault \in CheckFaults => failed' = 1
    BY <1>4 DEF Check!IonChecks, Check!IonRefused, Check!IonExported, CheckFaults
  <2>3. fault = "none" => failed' = 0
    <3>1. SUFFICES ASSUME fault = "none" PROVE Check!IonRefused /\ Check!IonExported
      BY <1>4 DEF Check!IonChecks
    <3>2. Check!Exports(0) = {}
      BY <1>2, <3>1, ExportFacts, LayoutFacts
    <3>3. Check!Exports(Memory + 2) = {}
      <4>1. PICK m \in Int : m = Memory + 2
        BY <1>3
      <4>2. \A a \in allocs : ~(m < EndOf(a))
        BY <1>2, <1>3, <4>1, LayoutFacts DEF EndOf
      <4>3. \A a \in allocs : a \in Check!Exports(m) <=> a.base <= m /\ m < EndOf(a)
        BY <1>2, <3>1, ExportFacts
      <4>4. Check!Exports(m) \subseteq allocs
        BY <1>2, ExportFacts
      <4> QED
        BY <4>1, <4>2, <4>3, <4>4
    <3>4. Check!Exports(phys) # {}
      BY <1>2, <3>1, ExportFacts
    <3> QED
      BY <3>1, <3>2, <3>3, <3>4 DEF Check!IonRefused, Check!IonExported
  <2>4. Behind' = Behind
    BY <2>1 DEF Behind
  <2> QED
    BY <1>1, <1>2, <2>1, <2>2, <2>3, <2>4 DEF IonInv
<1>5. CASE Check!IonHop
  <2>0. phys \in Int
    BY <1>2
  <2>1. UNCHANGED <<cmd, fault, failed, allocs>> /\ kPc = "walk"
    BY <1>5 DEF Check!IonHop
  <2>2. (fault \in CheckFaults => failed = 1) /\ (fault = "none" => failed = 0)
    BY <1>1, <2>1 DEF IonInv
  (* The walk ends with 1: no faultless driver makes it. *)
  <2>3. ASSUME Check!IonFail, fault = "none" => ~(Cardinality(allocs) <= Hops) PROVE IonInv'
    <3>1. ret' = 1 /\ kPc' = "exit" /\ UNCHANGED <<phys, row>>
      BY <2>3 DEF Check!IonFail
    <3>2. Behind' = Behind
      BY <2>1, <3>1 DEF Behind
    <3> QED
      BY <1>1, <1>2, <2>1, <2>3, <3>1, <3>2 DEF IonInv
  <2>4. CASE Check!Exports(phys) = {}
    <3>1. fault # "none"
      BY <1>2, <2>0, <2>4, ExportFacts
    <3>2. Check!IonFail
      BY <1>5, <2>4 DEF Check!IonHop
    <3> QED
      BY <2>3, <3>1, <3>2
  <2>5. CASE Check!Exports(phys) # {}
    <3>1. PICK a \in Check!Exports(phys) :
            \E ok \in Check!LastByte(a, a.base + a.size - 1) :
               IF ok THEN Check!AfterEnd(a.base + a.size - 1 + 1) ELSE Check!IonFail
      BY <1>5, <2>5 DEF Check!IonHop
    <3>2. /\ a \in allocs /\ a.base \in Nat /\ a.size \in Nat /\ 1 <= a.size /\ a.base <= phys
          /\ fault = "none" => phys < EndOf(a)
      <4>1. a \in allocs /\ a.base <= phys /\ (fault = "none" => phys < EndOf(a))
        BY <1>2, <2>0, <3>1, ExportFacts
      <4> QED
        BY <1>2, <4>1, LayoutFacts
    <3>3. PICK last \in Int : last = a.base + a.size - 1
      BY <3>2
    <3>4. PICK next \in Int : next = last + 1
      BY <3>3
    <3>5. /\ next = EndOf(a) /\ next \in Nat /\ a.base <= last /\ last < EndOf(a) /\ last = EndOf(a) - 1
          /\ a.base <= next
      BY <3>2, <3>3, <3>4 DEF EndOf
    <3>6. PICK ok \in Check!LastByte(a, last) : IF ok THEN Check!AfterEnd(next) ELSE Check!IonFail
      BY <3>1, <3>3, <3>4, Zenon
    <3>7. CASE ~ok
      <4>1. Check!IonFail
        BY <3>6, <3>7
      <4>2. fault # "none"
        <5>1. SUFFICES ASSUME fault = "none" PROVE FALSE
          OBVIOUS
        <5>2. \A b \in allocs : b \in Check!Exports(last) <=> b.base <= last /\ last < EndOf(b)
          BY <1>2, <5>1, ExportFacts
        <5>3. a \in Check!Exports(last) /\ Check!Exports(last) \subseteq allocs
          BY <1>2, <3>2, <3>5, <5>2, ExportFacts
        <5>4. \A b \in Check!Exports(last) : b = a
          <6>1. TAKE b \in Check!Exports(last)
          <6>2. b \in allocs /\ b.base <= last /\ last < EndOf(b) /\ b.base \in Nat /\ b.size \in Nat
            BY <1>2, <5>2, <5>3, LayoutFacts
          <6>3. ~(EndOf(a) <= b.base) /\ ~(EndOf(b) <= a.base)
            BY <3>2, <3>5, <6>2 DEF EndOf
          <6> QED
            BY <1>2, <3>2, <6>2, <6>3, LayoutFacts
        <5>5. ok
          BY <3>6, <5>3, <5>4, Zenon DEF Check!LastByte
        <5> QED
          BY <3>7, <5>5
      <4> QED
        BY <2>3, <4>1, <4>2
    <3>8. CASE ok
      <4>1. a \in Check!Exports(last)
        BY <3>6, <3>8, Zenon DEF Check!LastByte
      <4>2. fault # "last byte refused"
        <5>1. SUFFICES ASSUME fault = "last byte refused" PROVE FALSE
          OBVIOUS
        <5>2. last < EndOf(a) - 1
          BY <1>2, <4>1, <5>1, ExportFacts
        <5> QED
          BY <3>2, <3>5, <5>2 DEF EndOf
      <4>3. Check!AfterEnd(next)
        BY <3>6, <3>8
      <4>4. CASE Check!Exports(next) = {}
        <5>1. ret' = failed /\ kPc' = "exit" /\ UNCHANGED <<phys, row>>
          BY <4>3, <4>4 DEF Check!AfterEnd
        <5>2. fault # "end included"
          <6>1. SUFFICES ASSUME fault = "end included" PROVE FALSE
            OBVIOUS
          <6>2. a \in Check!Exports(next)
            <7>1. a.base <= next /\ next <= EndOf(a)
              BY <3>5
            <7> QED
              BY <1>2, <3>2, <6>1, <7>1, ExportFacts
          <6> QED
            BY <4>4, <6>2
        <5>3. fault \in CheckFaults \/ fault = "none"
          BY <1>2, <4>2, <5>2 DEF Check!IonFaults, CheckFaults
        <5>4. Behind' = Behind
          BY <2>1, <5>1 DEF Behind
        <5>5. (ret' = 0 => fault = "none") /\ (fault = "none" => ret' = 0)
          BY <2>2, <5>1, <5>3
        <5> QED
          BY <1>1, <1>2, <2>1, <5>1, <5>4, <5>5 DEF IonInv
      <4>5. CASE Check!Exports(next) # {}
        <5>1. PICK b \in Check!Exports(next) :
                IF b.base # next \/ row = Hops THEN Check!IonFail
                ELSE phys' = next /\ row' = row + 1 /\ UNCHANGED <<ret, kPc>>
          BY <4>3, <4>5 DEF Check!AfterEnd
        <5>2. b \in allocs /\ b.base \in Nat /\ b.size \in Nat /\ 1 <= b.size
          BY <1>2, ExportFacts, LayoutFacts
        <5>3. fault = "none" => b.base = next
          <6>1. SUFFICES ASSUME fault = "none" PROVE b.base = next
            OBVIOUS
          <6>2. b.base <= next /\ next < EndOf(b)
            BY <1>2, <5>2, <6>1, ExportFacts
          <6>3. a = b \/ EndOf(a) <= b.base \/ EndOf(b) <= a.base
            BY <1>2, <3>2, <5>2, LayoutFacts
          <6> QED
            BY <3>2, <3>5, <5>2, <6>2, <6>3 DEF EndOf
        <5>4. fault = "none" => a \notin Behind
          BY <1>2, <3>2 DEF Behind, EndOf
        <5>5. IsFiniteSet(allocs) /\ Behind \in SUBSET allocs /\ row - 1 \in Nat
          BY <1>2, LayoutFacts DEF Behind
        <5>6. CASE b.base # next \/ row = Hops
          <6>1. Check!IonFail
            BY <5>1, <5>6
          <6>2. fault = "none" => ~(Cardinality(allocs) <= Hops)
            <7>1. SUFFICES ASSUME fault = "none" PROVE ~(Cardinality(allocs) <= Hops)
              OBVIOUS
            <7>2. row = Hops /\ b.base = next
              BY <5>3, <5>6, <7>1
            <7>3. b \notin Behind \cup {a} /\ Behind \cup {a} \in SUBSET allocs
              <8>1. phys < EndOf(a) /\ EndOf(a) = b.base
                BY <3>2, <3>5, <7>1, <7>2
              <8>2. EndOf(b) > phys /\ b # a
                BY <1>2, <3>2, <5>2, <8>1 DEF EndOf
              <8>3. EndOf(b) \in Nat
                BY <5>2 DEF EndOf
              <8> QED
                BY <1>2, <3>2, <5>5, <8>2, <8>3 DEF Behind
            <7>4. row - 1 + 1 <= Cardinality(Behind \cup {a})
              <8>1. row - 1 <= Cardinality(Behind)
                BY <1>2, <7>1
              <8>2. a \in Behind \cup {a} /\ Behind \subseteq Behind \cup {a}
                OBVIOUS
              <8> QED
                BY <5>4, <5>5, <7>1, <7>3, <8>1, <8>2, HopCounts
            <7>5. row <= Cardinality(Behind \cup {a})
              BY <1>2, <7>4
            <7>6. row + 1 <= Cardinality(allocs)
              BY <1>2, <5>2, <5>5, <7>3, <7>5, HopCounts
            <7>7. Cardinality(allocs) \in Nat
              BY <5>5, FS_CardinalityType
            <7> QED
              BY <1>2, <1>3, <7>2, <7>6, <7>7
          <6> QED
            BY <2>3, <6>1, <6>2
        <5>7. CASE ~(b.base # next \/ row = Hops)
          <6>1. phys' = next /\ row' = row + 1 /\ UNCHANGED <<ret, kPc>> /\ b.base = next
            BY <5>1, <5>7
          <6>2. \E d \in allocs : d.base <= next /\ next < EndOf(d)
            BY <5>2, <6>1 DEF EndOf
          <6>3. fault = "none" => row' - 1 <= Cardinality(Behind')
            <7>1. SUFFICES ASSUME fault = "none" PROVE row' - 1 <= Cardinality(Behind')
              OBVIOUS
            <7>2. PICK U : U = {d \in allocs : EndOf(d) <= next}
              OBVIOUS
            <7>3. Behind' = U
              BY <2>1, <6>1, <7>2 DEF Behind
            <7>4. \A d \in allocs : EndOf(d) \in Nat
              BY <1>2, LayoutFacts DEF EndOf
            <7>5. Behind \subseteq U /\ a \in U /\ U \in SUBSET allocs
              <8>1. phys < next
                BY <3>2, <3>5, <7>1
              <8>2. a \in U /\ U \in SUBSET allocs
                BY <3>2, <3>5, <7>2, <7>4
              <8>3. \A d \in allocs : EndOf(d) <= phys => EndOf(d) <= next
                BY <1>2, <3>5, <7>4, <8>1
              <8> QED
                BY <7>2, <8>2, <8>3 DEF Behind
            <7>6. row - 1 <= Cardinality(Behind)
              BY <1>2, <7>1
            <7>7. row - 1 + 1 <= Cardinality(U)
              BY <5>4, <5>5, <7>1, <7>5, <7>6, HopCounts
            <7>8. row' - 1 = row - 1 + 1
              BY <1>2, <6>1
            <7> QED
              BY <7>3, <7>7, <7>8
          <6>4. row' \in Nat \ {0} /\ phys' \in Nat
            BY <1>2, <3>5, <6>1
          <6> QED
            BY <1>1, <1>2, <2>1, <2>2, <6>1, <6>2, <6>3, <6>4 DEF IonInv
        <5> QED
          BY <5>6, <5>7
      <4> QED
        BY <4>4, <4>5
    <3> QED
      BY <3>7, <3>8
  <2> QED
    BY <2>4, <2>5
<1>6. ~(\/ Check!KmsOpen \/ Check!Alloc \/ Check!Add \/ Check!Free \/ Check!Test \/ Check!RejectRow
        \/ Check!Commit \/ Check!Show \/ Check!Settle \/ Check!Flip \/ Check!FlipEnd \/ Check!KmsClose
        \/ Check!Signal)
  BY <1>1, <1>2 DEF Check!KmsOpen, Check!Alloc, Check!Add, Check!Free, Check!Test,
     Check!RejectRow, Check!Commit, Check!Show, Check!Settle, Check!Flip, Check!FlipEnd, Check!KmsClose,
     Check!Signal
<1> QED
  BY <1>4, <1>5, <1>6 DEF Check!Next

\* The first values, one by one.
LEMMA CheckRest ==
    ASSUME Check!Rest
    PROVE  /\ slot = 0 /\ live = [s \in Slots |-> 0] /\ id = [s \in Slots |-> FALSE]
           /\ colour = found /\ ~props /\ row = 1 /\ ~add /\ test = "ok" /\ ret = 0
           /\ failed = 0 /\ done = 0 /\ kShown = 0 /\ ~broke
BY DEF Check!Rest, Slots

\* The first states.
LEMMA CheckInit ==
    ASSUME Check!Rest, \/ Check!Start
                       \/ cmd = "none" /\ kPc = "idle"
    PROVE  CheckInv
<1>0. /\ slot = 0 /\ live = [s \in Slots |-> 0] /\ id = [s \in Slots |-> FALSE]
      /\ colour = found /\ ~props /\ row = 1 /\ ~add /\ test = "ok" /\ ret = 0
      /\ failed = 0 /\ done = 0 /\ kShown = 0 /\ ~broke
  BY CheckRest
<1>1. \/ kPc = "open" /\ cmd \in {"reject", "bars", "flip", "ion"}
      \/ kPc = "idle" /\ cmd = "none"
  BY DEF Check!Start
<1>2. CheckTypeOK
  <2>1. kPc \in KPcs
    BY <1>1 DEF KPcs
  <2>2. live \in [Slots -> Nat] /\ id \in [Slots -> BOOLEAN] /\ slot \in Slots
    BY <1>0, SlotCases
  <2>3. ret \in Nat /\ row \in Nat /\ failed \in Nat /\ done \in Nat /\ kShown \in Nat
    BY <1>0
  <2> QED
    BY <2>1, <2>2, <2>3 DEF CheckTypeOK
<1>3. CommandInv /\ PlaneInv
  BY <1>0, <1>1 DEF CommandInv, PlaneInv
<1>4. BufferInv
  BY <1>0, <1>1 DEF BufferInv
<1>5. FlipInv
  <2>1. ~Over
    BY <1>1 DEF Over
  <2> QED
    BY <1>0, <2>1, CheckAssumption DEF FlipInv
<1>6. RejectInv
  <2>1. SUFFICES ASSUME cmd = "reject" PROVE RejectInv
    BY DEF RejectInv
  <2>2. kPc = "open" /\ fault \in {"none"} \cup Check!RejectFaults
    BY <1>1, <2>1 DEF Check!Start
  <2>3. row \in Rows /\ ~\E k \in Rows : k < row
    BY <1>0 DEF Rows
  <2> QED
    BY <1>0, <2>2, <2>3 DEF RejectInv
<1>7. IonInv
  <2>1. SUFFICES ASSUME cmd = "ion" PROVE IonInv
    BY DEF IonInv
  <2>2. /\ kPc = "open" /\ fault \in {"none"} \cup Check!IonFaults /\ allocs \in Check!Layouts
        /\ phys \in 1 .. Memory /\ \E a \in allocs : a.base <= phys /\ phys < EndOf(a)
    BY <1>1, <2>1 DEF Check!Start, EndOf
  <2>3. phys \in Nat
    BY <2>2, CheckAssumption
  <2>4. IsFiniteSet(allocs) /\ Behind \in SUBSET allocs
    BY <2>2, LayoutFacts DEF Behind
  <2>5. Cardinality(Behind) \in Nat
    BY <2>4, FS_Subset, FS_CardinalityType
  <2>6. row \in Nat \ {0} /\ row - 1 <= Cardinality(Behind)
    BY <1>0, <2>5
  <2> QED
    BY <2>2, <2>3, <2>6 DEF IonInv
<1> QED
  BY <1>2, <1>3, <1>4, <1>5, <1>6, <1>7 DEF CheckInv

\* Every step of badge-kms-check.
LEMMA CheckStep ==
    ASSUME CheckInv, Check!Next
    PROVE  CheckInv'
BY CheckTypeStep, CommandStep, PlaneStep, BufferStep, FlipStep, RejectStep, IonStep DEF CheckInv

\* A step of another program.
LEMMA CheckStutter ==
    ASSUME CheckInv, UNCHANGED check
    PROVE  CheckInv'
<1>1. UNCHANGED <<cmd, fault, kPc, stop, ret, slot, live, id, screen, colour, found, props,
                  row, add, test, failed, done, kShown, broke, allocs, phys>>
  BY DEF check
<1>2. CheckTypeOK' /\ CommandInv' /\ PlaneInv' /\ BufferInv' /\ FlipInv'
  BY <1>1 DEF CheckInv, CheckTypeOK, CommandInv, PlaneInv, BufferInv, FlipInv, Over
<1>3. RejectInv'
  <2>1. \A k : (BadRow(k)' <=> BadRow(k)) /\ Answer(k)' = Answer(k)
    BY <1>1, SameDriver
  <2>2. \A k \in Rows : BadRow(k)' <=> BadRow(k)
    BY <2>1
  <2>3. Answered' <=> Answered
    BY <1>1, <2>1 DEF Answered
  <2> QED
    BY <1>1, <2>2, <2>3 DEF CheckInv, RejectInv
<1>4. IonInv'
  <2>1. Behind' = Behind
    BY <1>1 DEF Behind
  <2> QED
    BY <1>1, <2>1 DEF CheckInv, IonInv
<1> QED
  BY <1>2, <1>3, <1>4 DEF CheckInv

\* What the invariant gives.
LEMMA CheckSafe ==
    ASSUME CheckInv
    PROVE  ChecksHonest
<1>1. Check!RejectFindsFaults
  <2>1. SUFFICES ASSUME cmd = "reject", Check!Ended
                 PROVE  (ret = 0 => fault = "none") /\ (fault = "none" /\ ~broke => ret = 0)
    BY DEF Check!RejectFindsFaults
  <2>2. /\ kPc \in {"exit", "unrestored"} /\ fault \in {"none"} \cup Check!RejectFaults
        /\ ret = 0 => \A k \in Rows : ~BadRow(k)
        /\ fault = "none" /\ ~broke => ret = 0
    BY <2>1 DEF CheckInv, RejectInv, Check!Ended
  <2> QED
    BY <2>2, FaultsShow
<1>2. Check!IonFindsFaults
  <2>1. Check!Cardinality(allocs) = Cardinality(allocs)
    BY Zenon DEF Check!Cardinality, Cardinality
  <2> QED
    BY <2>1 DEF CheckInv, IonInv, Check!IonFindsFaults
<1>3. Check!FlipCounts
  <2>1. SUFFICES ASSUME cmd = "flip", Check!Ended, ret = 0 PROVE kShown = Count
    BY DEF Check!FlipCounts
  <2>2. Over /\ kShown + failed = done /\ failed = 0 /\ done = Count
    BY <2>1 DEF CheckInv, FlipInv, Over, Check!Ended
  <2> QED
    BY <2>2 DEF CheckInv, CheckTypeOK
<1>4. Check!ColoursBack
  BY DEF CheckInv, PlaneInv, Check!ColoursBack
<1>5. Check!BuffersFreed
  BY DEF CheckInv, BufferInv, Slots, Check!BuffersFreed
<1> QED
  BY <1>1, <1>2, <1>3, <1>4, <1>5 DEF ChecksHonest

\* For any --count, any number of hops and any memory, and for every layout of
\* the live allocations: badge-kms-check's reject, ion-reject and flip exit 0
\* exactly when the driver did what they ask, and whatever fails or interrupts
\* them, the colour properties are put back and no buffer is left
\* (badge-kms-check.c's cmd_reject(), cmd_ion_reject(), cmd_flip(), kms_close()).
THEOREM ChecksHonestThm == MCSpec => []ChecksHonest
<1>1. MCInit => CheckInv
  BY CheckInit DEF MCInit
<1>2. CheckInv /\ [MCNext]_all => CheckInv'
  <2>1. SUFFICES ASSUME CheckInv, [MCNext]_all PROVE CheckInv'
    OBVIOUS
  <2>2. CASE Check!Next
    BY <2>1, <2>2, CheckStep
  <2>3. CASE UNCHANGED check
    BY <2>1, <2>3, CheckStutter
  <2> QED
    BY <2>1, <2>2, <2>3, Zenon DEF MCNext, all
<1>3. CheckInv => ChecksHonest
  BY CheckSafe
<1> QED
  BY <1>1, <1>2, <1>3, PTL DEF MCSpec

-----------------------------------------------------------------------------
(* What coda-cube opens and maps. *)

SetUp == {"zcopen", "create", "dbopen", "dbbuf", "vdopen"}
TakeDown == {"pres", "dbclose", "zcclose", "done"}
FdOrNone == Maps!Fds \cup {-1}
Kinds == {"free", "std", "drm", "ion", "dumb", "dma"}
Files == [kind : Kinds, start : Int, size : Int]
DumbRec == [fd : FdOrNone, handle : BOOLEAN, map : BOOLEAN]
ZcRec == [pa : Int, uv : Int, fd : Maps!Fds, idx : Int]
MapRec == [start : Int, size : Int, base : Int, fd : Maps!Fds]

FileTypes ==
    /\ fdt \in [Maps!Fds -> Files]
    /\ drm \in FdOrNone /\ ion \in FdOrNone /\ mapion \in FdOrNone
    /\ db \in [Maps!Slots -> DumbRec] /\ dumb \subseteq Maps!Slots
    /\ pres \in [up : BOOLEAN, dead : BOOLEAN, nbuf : Nat]
    /\ frame \in [y : Int, c : Int] /\ yp \in Int /\ cp \in Int
    /\ sync \in [Maps!Fds -> Int]
    /\ uncached \in BOOLEAN /\ route \in {"shm", "dmabuf", "zero"}

RowTypes == zc \in Seq(ZcRec) /\ maps \in Seq(MapRec)

(* Which route uses what, and in which steps. *)
RouteInv ==
    /\ route = "zero" => mapion = -1 /\ DOMAIN maps = {}
    /\ route # "zero" => ion = -1 /\ DOMAIN zc = {}
    /\ route # "dmabuf" => drm = -1
    /\ mPc \in {"mapy", "mapc", "start", "read"} => route # "zero"
    /\ mPc \in {"zcget", "shown"} => route = "zero"
    /\ mPc \in {"dbopen", "dbbuf"} => route = "dmabuf"

(* What is not there yet, and what is not there any more. *)
PhaseInv ==
    /\ mPc \in SetUp \cup TakeDown => mapion = -1 /\ DOMAIN maps = {}
    /\ mPc = "zcopen" => ion = -1
    /\ mPc \in {"zcopen", "create", "dbopen", "zcclose", "done"} => drm = -1
    /\ mPc = "dbbuf" => drm # -1
    /\ mPc \in SetUp => DOMAIN zc = {}
    /\ mPc = "done" => ion = -1 /\ DOMAIN zc = {}
    /\ mPc \in {"dbclose", "zcclose", "done"} => ~pres.up

(* The dumb buffers of the card are the first ones of g_db, and db_open()'s *)
(* loop has room for one more.                                             *)
DumbInv ==
    /\ \A i \in Maps!Slots : i \in dumb <=> db[i].handle
    /\ drm = -1 => dumb = {}
    /\ drm # -1 => \A i \in Maps!Slots : i \notin dumb => db[i].fd = -1
    /\ \E j \in 0 .. DB_N : dumb = 0 .. j - 1
    /\ mPc = "dbbuf" => DB_N - 1 \notin dumb

(* Every remembered descriptor is what it was opened as. *)
OwnInv ==
    /\ fdt[0].kind = "std"
    /\ drm # -1 => fdt[drm].kind = "drm"
    /\ ion # -1 => fdt[ion].kind = "ion"
    /\ mapion # -1 => fdt[mapion].kind = "ion"
    /\ drm # -1 => \A i \in Maps!Slots : db[i].fd # -1 =>
            fdt[db[i].fd].kind = "dumb" /\ fdt[db[i].fd].start = i
    /\ \A k \in DOMAIN zc : fdt[zc[k].fd].kind = "dma"
    /\ \A k \in DOMAIN maps : fdt[maps[k].fd] = Maps!Dma(maps[k])

DbHas(n) == drm # -1 /\ \E i \in Maps!Slots : db[i].fd = n
ZcHas(n) == \E k \in DOMAIN zc : zc[k].fd = n
MapsHas(n) == \E k \in DOMAIN maps : maps[k].fd = n

(* Every open descriptor is remembered. *)
NoLeak ==
    \A n \in Maps!Fds : fdt[n] # Maps!Free =>
        n = 0 \/ n = drm \/ n = ion \/ n = mapion \/ DbHas(n) \/ ZcHas(n) \/ MapsHas(n)

(* A map is a whole allocation, and two maps share neither an address nor  *)
(* a byte of memory.                                                       *)
MappedInv ==
    /\ \A k \in DOMAIN maps : [start |-> maps[k].start, size |-> maps[k].size] \in Allocs
                              /\ maps[k].base \in Nat
    /\ \A j, k \in DOMAIN maps : j # k =>
          /\ ~Maps!Overlaps(maps[j].base, maps[j].size, maps[k].base, maps[k].size)
          /\ ~Maps!Overlaps(maps[j].start, maps[j].size, maps[k].start, maps[k].size)

(* The pointers of the picture at hand. *)
PointerInv ==
    /\ mPc = "mapc" /\ yp # -1 => Maps!Behind(yp, frame.y, YLEN)
    /\ mPc \in {"start", "read"} => Maps!Behind(yp, frame.y, YLEN) /\ Maps!Behind(cp, frame.c, CLEN)

(* The brackets are those of the maps map_of() finds. *)
SyncInv ==
    /\ mPc # "read" => \A n \in Maps!Fds : sync[n] = 0
    /\ mPc = "read" => \A n \in Maps!Fds :
            sync[n] = IF ~uncached /\ n \in Maps!Synced THEN 1 ELSE 0

(* In the frame loop every entry of g_zc is a whole allocation that the    *)
(* presenter took.                                                         *)
ZcInv ==
    /\ mPc \in {"loop", "zcget", "shown"} => \A k \in DOMAIN zc :
          /\ zc[k].idx \in 0 .. pres.nbuf - 1
          /\ fdt[zc[k].fd].start = zc[k].pa /\ zc[k].uv + CLEN <= fdt[zc[k].fd].size
    /\ mPc = "shown" =>
          mShown \in DOMAIN zc /\ zc[mShown].pa = frame.y /\ zc[mShown].uv = frame.c - frame.y

MapsInv ==
    /\ FileTypes /\ RowTypes /\ RouteInv /\ PhaseInv /\ DumbInv
    /\ OwnInv /\ NoLeak /\ MappedInv /\ PointerInv /\ SyncInv /\ ZcInv

\* An entry is put behind the others.
LEMMA AppendFacts ==
    ASSUME NEW T, NEW s \in Seq(T), NEW e \in T
    PROVE  \E new : /\ new = Len(s) + 1
                    /\ Append(s, e) \in Seq(T)
                    /\ DOMAIN Append(s, e) = DOMAIN s \cup {new}
                    /\ new \notin DOMAIN s
                    /\ Append(s, e)[new] = e
                    /\ \A k \in DOMAIN s : Append(s, e)[k] = s[k]
<1> DEFINE new == Len(s) + 1
<1>1. /\ Append(s, e) \in Seq(T)
      /\ DOMAIN Append(s, e) = DOMAIN s \cup {new}
      /\ new \notin DOMAIN s
      /\ Append(s, e)[new] = e
      /\ \A k \in DOMAIN s : Append(s, e)[k] = s[k]
  OBVIOUS
<1> QED
  BY <1>1, Zenon

\* The empty table.
LEMMA EmptyFacts ==
    ASSUME NEW T
    PROVE  <<>> \in Seq(T) /\ DOMAIN <<>> = {}
  OBVIOUS

\* The entries of a table.
LEMMA RowFacts ==
    ASSUME NEW T, NEW s \in Seq(T)
    PROVE  \A k \in DOMAIN s : s[k] \in T
  OBVIOUS

\* The entries of g_zc and g_maps.
LEMMA TableRows ==
    ASSUME RowTypes
    PROVE  /\ \A k \in DOMAIN zc : zc[k] \in ZcRec
           /\ \A k \in DOMAIN maps : maps[k] \in MapRec
  BY RowFacts, Zenon DEF RowTypes

\* The lowest free descriptor is free.
LEMMA NewFdFacts ==
    ASSUME NEW file, Maps!Opened(file)
    PROVE  /\ Maps!NewFd \in Maps!Fds /\ fdt[Maps!NewFd] = Maps!Free
           /\ fdt' = [fdt EXCEPT ![Maps!NewFd] = file]
<1>1. \E n \in Maps!Fds : Maps!LowestFree(n)
  BY DEF Maps!Opened
<1>2. Maps!NewFd \in Maps!Fds /\ Maps!LowestFree(Maps!NewFd)
  BY <1>1, Zenon DEF Maps!NewFd
<1> QED
  BY <1>2 DEF Maps!Opened, Maps!LowestFree

\* A descriptor that is made is none of those coda-cube remembers, and the
\* others stay what they are.
LEMMA OpenFacts ==
    ASSUME FileTypes, RowTypes, OwnInv, NEW file \in Files, Maps!Opened(file)
    PROVE  \E n \in Maps!Fds :
             /\ n = Maps!NewFd /\ n # 0 /\ n # -1 /\ n # drm /\ n # ion /\ n # mapion
             /\ ~DbHas(n) /\ ~ZcHas(n) /\ ~MapsHas(n)
             /\ fdt' \in [Maps!Fds -> Files] /\ fdt'[n] = file
             /\ \A k \in Maps!Fds : k # n => fdt'[k] = fdt[k]
<1>1. PICK n \in Maps!Fds : n = Maps!NewFd /\ fdt[n] = Maps!Free /\ fdt' = [fdt EXCEPT ![n] = file]
  BY NewFdFacts
<1>2. fdt \in [Maps!Fds -> Files] /\ 0 \in Maps!Fds
  BY MapsAssumption DEF FileTypes, Maps!Fds
<1>3. /\ fdt' \in [Maps!Fds -> Files] /\ fdt'[n] = file
      /\ \A k \in Maps!Fds : k # n => fdt'[k] = fdt[k]
  BY <1>1, <1>2
<1>4. fdt[n].kind = "free"
  BY <1>1 DEF Maps!Free
<1>5. n # -1
  BY MapsAssumption DEF Maps!Fds
<1>6. n # 0 /\ n # drm /\ n # ion /\ n # mapion
  BY <1>4, <1>5 DEF OwnInv
<1>7. ~DbHas(n)
  BY <1>4, <1>5 DEF OwnInv, DbHas
<1>8. ~ZcHas(n)
  BY <1>4 DEF OwnInv, ZcHas
<1>9. ~MapsHas(n)
  <2>1. SUFFICES ASSUME NEW k \in DOMAIN maps, maps[k].fd = n PROVE FALSE
    BY DEF MapsHas
  <2>2. fdt[n] = Maps!Dma(maps[k])
    BY <2>1 DEF OwnInv
  <2>3. Maps!Dma(maps[k]).kind = "dma"
    BY DEF Maps!Dma
  <2> QED
    BY <1>4, <2>2, <2>3
<1> QED
  BY <1>1, <1>3, <1>5, <1>6, <1>7, <1>8, <1>9

\* A step that leaves the dumb buffers alone.
LEMMA DumbKept ==
    ASSUME DumbInv, UNCHANGED <<db, dumb, drm>>, mPc' # "dbbuf"
    PROVE  DumbInv'
  BY DEF DumbInv, Maps!Slots

\* A step that leaves the descriptors alone.
LEMMA OwnKept ==
    ASSUME OwnInv, NoLeak, UNCHANGED <<fdt, drm, ion, mapion, db, zc, maps>>
    PROVE  OwnInv' /\ NoLeak'
<1>1. OwnInv'
  BY DEF OwnInv, Maps!Slots, Maps!Dma
<1>2. NoLeak'
  BY DEF NoLeak, Maps!Slots, Maps!Fds, Maps!Free, DbHas, ZcHas, MapsHas
<1> QED
  BY <1>1, <1>2

\* A step that leaves the maps alone.
LEMMA MappedKept ==
    ASSUME MappedInv, UNCHANGED maps
    PROVE  MappedInv'
  BY DEF MappedInv, Maps!Overlaps

\* A step outside the read of a picture.
LEMMA SyncKept ==
    ASSUME SyncInv, UNCHANGED sync, mPc # "read", mPc' # "read"
    PROVE  SyncInv'
  BY DEF SyncInv, Maps!Fds

\* A step behind which no picture is at hand.
LEMMA PointerAway ==
    ASSUME mPc' \notin {"mapc", "start", "read"}
    PROVE  PointerInv'
  BY DEF PointerInv

\* A step behind which g_zc is not used.
LEMMA ZcAway ==
    ASSUME mPc' \notin {"loop", "zcget", "shown"}
    PROVE  ZcInv'
  BY DEF ZcInv

\* A step behind which g_zc is empty.
LEMMA ZcNone ==
    ASSUME DOMAIN zc' = {}, mPc' # "shown"
    PROVE  ZcInv'
  BY DEF ZcInv

\* A step that leaves the types of what it does not touch.
LEMMA FilesKept ==
    ASSUME FileTypes, UNCHANGED <<fdt, drm, ion, mapion, db, dumb, uncached, route, sync>>,
           pres' \in [up : BOOLEAN, dead : BOOLEAN, nbuf : Nat],
           frame' \in [y : Int, c : Int], yp' \in Int, cp' \in Int
    PROVE  FileTypes'
  BY DEF FileTypes, Maps!Fds, Maps!Slots, FdOrNone, DumbRec, Files

\* The same, of the tables.
LEMMA RowsKept ==
    ASSUME RowTypes, UNCHANGED <<zc, maps>>
    PROVE  RowTypes'
  BY DEF RowTypes, ZcRec, MapRec, Maps!Fds

\* The descriptor of a successful open is remembered in g_drm, g_ion or
\* g_mapion, which held none.
LEMMA OpenOwned ==
    ASSUME FileTypes, RowTypes, OwnInv, NoLeak, NEW file \in Files, Maps!Opened(file),
           UNCHANGED <<zc, maps>>,
           \/ /\ drm = -1 /\ drm' = Maps!NewFd /\ file.kind = "drm" /\ UNCHANGED <<ion, mapion>>
              /\ \A i \in Maps!Slots : db'[i].fd = -1
           \/ ion = -1 /\ ion' = Maps!NewFd /\ file.kind = "ion" /\ UNCHANGED <<drm, mapion, db>>
           \/ mapion = -1 /\ mapion' = Maps!NewFd /\ file.kind = "ion" /\ UNCHANGED <<drm, ion, db>>
    PROVE  /\ OwnInv' /\ NoLeak'
           /\ fdt' \in [Maps!Fds -> Files]
           /\ drm' \in FdOrNone /\ ion' \in FdOrNone /\ mapion' \in FdOrNone
<1>1. PICK n \in Maps!Fds :
        /\ n = Maps!NewFd /\ n # 0 /\ n # -1 /\ n # drm /\ n # ion /\ n # mapion
        /\ ~DbHas(n) /\ ~ZcHas(n) /\ ~MapsHas(n)
        /\ fdt' \in [Maps!Fds -> Files] /\ fdt'[n] = file
        /\ \A k \in Maps!Fds : k # n => fdt'[k] = fdt[k]
  BY OpenFacts
<1>2. \/ /\ drm = -1 /\ drm' = n /\ file.kind = "drm" /\ ion' = ion /\ mapion' = mapion
         /\ \A i \in Maps!Slots : db'[i].fd = -1
      \/ ion = -1 /\ ion' = n /\ file.kind = "ion" /\ drm' = drm /\ mapion' = mapion /\ db' = db
      \/ mapion = -1 /\ mapion' = n /\ file.kind = "ion" /\ drm' = drm /\ ion' = ion /\ db' = db
  BY <1>1
<1>3. zc' = zc /\ maps' = maps
  OBVIOUS
<1>4. 0 \in Maps!Fds /\ Maps!Fds' = Maps!Fds /\ Maps!Slots' = Maps!Slots
  BY MapsAssumption DEF Maps!Fds, Maps!Slots
<1>5. drm \in FdOrNone /\ ion \in FdOrNone /\ mapion \in FdOrNone
  BY DEF FileTypes
<1>6. \A k \in DOMAIN zc : zc[k].fd \in Maps!Fds /\ zc[k].fd # n
  BY <1>1, TableRows DEF ZcHas, ZcRec
<1>7. \A k \in DOMAIN maps : maps[k].fd \in Maps!Fds /\ maps[k].fd # n
  BY <1>1, TableRows DEF MapsHas, MapRec
<1>8. \A i \in Maps!Slots : drm # -1 /\ db[i].fd # -1 => db[i].fd \in Maps!Fds /\ db[i].fd # n
  BY <1>1 DEF DbHas, FileTypes, DumbRec, FdOrNone
<1>9. fdt'[0].kind = "std"
  BY <1>1, <1>4 DEF OwnInv
<1>10. drm' # -1 => fdt'[drm'].kind = "drm"
  BY <1>1, <1>2, <1>5 DEF OwnInv, FdOrNone
<1>11. (ion' # -1 => fdt'[ion'].kind = "ion") /\ (mapion' # -1 => fdt'[mapion'].kind = "ion")
  BY <1>1, <1>2, <1>5 DEF OwnInv, FdOrNone
<1>12. drm' # -1 => \A i \in Maps!Slots : db'[i].fd # -1 =>
            fdt'[db'[i].fd].kind = "dumb" /\ fdt'[db'[i].fd].start = i
  BY <1>1, <1>2, <1>8 DEF OwnInv
<1>13. \A k \in DOMAIN zc : fdt'[zc[k].fd].kind = "dma"
  BY <1>1, <1>6 DEF OwnInv
<1>14. \A k \in DOMAIN maps : fdt'[maps[k].fd] = Maps!Dma(maps[k])
  BY <1>1, <1>7 DEF OwnInv
<1>15. OwnInv'
  BY <1>3, <1>4, <1>9, <1>10, <1>11, <1>12, <1>13, <1>14 DEF OwnInv, Maps!Dma
<1>16. NoLeak'
  <2>1. SUFFICES ASSUME NEW m \in Maps!Fds, fdt'[m] # Maps!Free
                 PROVE  m = 0 \/ m = drm' \/ m = ion' \/ m = mapion' \/ DbHas(m)' \/ ZcHas(m)' \/ MapsHas(m)'
    BY <1>4 DEF NoLeak, Maps!Free
  <2>2. CASE m = n
    BY <1>2, <2>2
  <2>3. CASE m # n
    <3>1. m = 0 \/ m = drm \/ m = ion \/ m = mapion \/ DbHas(m) \/ ZcHas(m) \/ MapsHas(m)
      BY <1>1, <2>1, <2>3 DEF NoLeak
    <3>2. m # -1
      BY MapsAssumption DEF Maps!Fds
    <3>3. ZcHas(m)' <=> ZcHas(m)
      BY <1>3 DEF ZcHas
    <3>4. MapsHas(m)' <=> MapsHas(m)
      BY <1>3 DEF MapsHas
    <3>5. DbHas(m) => DbHas(m)'
      BY <1>2, <1>4 DEF DbHas
    <3> QED
      BY <1>2, <3>1, <3>2, <3>3, <3>4, <3>5
  <2> QED
    BY <2>2, <2>3
<1> QED
  BY <1>1, <1>2, <1>5, <1>15, <1>16 DEF FdOrNone

\* The kinds of files.
LEMMA IsFacts ==
    /\ Maps!Is("ion") \in Files /\ Maps!Is("ion").kind = "ion"
    /\ Maps!Is("drm") \in Files /\ Maps!Is("drm").kind = "drm"
<1>1. Maps!Free \in Files
  BY DEF Maps!Free, Files, Kinds
<1>2. Maps!Is("ion") \in Files /\ Maps!Is("ion").kind = "ion"
  BY <1>1 DEF Maps!Is, Files, Kinds
<1>3. Maps!Is("drm") \in Files /\ Maps!Is("drm").kind = "drm"
  BY <1>1 DEF Maps!Is, Files, Kinds
<1> QED
  BY <1>2, <1>3

\* zc_open().
LEMMA ZcOpenStep ==
    ASSUME MapsInv, Maps!ZcOpen
    PROVE  MapsInv'
<1> USE DEF MapsInv
<1>1. /\ mPc = "zcopen" /\ UNCHANGED <<route, uncached, drm, mapion, db, dumb, pres, zc, maps, frame, yp, cp, mShown, sync>>
      /\ drm = -1 /\ ion = -1 /\ mapion = -1 /\ DOMAIN zc = {} /\ DOMAIN maps = {}
  BY DEF Maps!ZcOpen, Maps!bufs, Maps!picture, PhaseInv, SetUp
<1>2. /\ mPc' = "create" \/ mPc' = "quit"
      /\ UNCHANGED <<fdt, ion>> \/ (route = "zero" /\ Maps!Opened(Maps!Is("ion")) /\ ion' = Maps!NewFd)
  BY DEF Maps!ZcOpen
<1>3. FileTypes' /\ OwnInv' /\ NoLeak'
  <2>1. CASE UNCHANGED <<fdt, ion>>
    BY <1>1, <2>1, OwnKept, FilesKept DEF FileTypes
  <2>2. CASE Maps!Opened(Maps!Is("ion")) /\ ion' = Maps!NewFd
    <3>1. Maps!Is("ion") \in Files /\ Maps!Is("ion").kind = "ion"
      BY IsFacts
    <3>2. OwnInv' /\ NoLeak' /\ fdt' \in [Maps!Fds -> Files] /\ ion' \in FdOrNone
      BY <1>1, <2>2, <3>1, OpenOwned
    <3> QED
      BY <1>1, <3>2 DEF FileTypes, Maps!Fds, Maps!Slots, FdOrNone, DumbRec, Files
  <2> QED
    BY <1>2, <2>1, <2>2
<1>4. RowTypes' /\ MappedInv' /\ SyncInv' /\ PointerInv' /\ ZcInv'
  BY <1>1, <1>2, RowsKept, MappedKept, SyncKept, PointerAway, ZcAway
<1>5. DumbInv'
  BY <1>1, <1>2, DumbKept
<1>6. RouteInv' /\ PhaseInv'
  BY <1>1, <1>2 DEF RouteInv, PhaseInv, SetUp, TakeDown
<1> QED
  BY <1>3, <1>4, <1>5, <1>6

\* dmabuf_presenter_create().
LEMMA PresenterCreateStep ==
    ASSUME MapsInv, Maps!PresenterCreate
    PROVE  MapsInv'
<1> USE DEF MapsInv
<1>1. /\ mPc = "create"
      /\ UNCHANGED <<route, uncached, fdt, drm, ion, mapion, db, dumb, zc, maps, frame, yp, cp, mShown, sync>>
      /\ drm = -1 /\ mapion = -1 /\ DOMAIN zc = {} /\ DOMAIN maps = {}
  BY DEF Maps!PresenterCreate, Maps!files, Maps!picture, PhaseInv, SetUp
<1>2. mPc' = "vdopen" \/ mPc' = "pres" \/ (mPc' = "dbopen" /\ route \notin {"shm", "zero"})
  BY DEF Maps!PresenterCreate
<1>3. pres' \in [up : BOOLEAN, dead : BOOLEAN, nbuf : Nat]
  <2>1. pres' = pres \/ pres' = [pres EXCEPT !.up = TRUE]
    BY DEF Maps!PresenterCreate
  <2> QED
    BY <2>1 DEF FileTypes
<1>4. FileTypes'
  BY <1>1, <1>3, FilesKept DEF FileTypes
<1>5. OwnInv' /\ NoLeak' /\ DumbInv'
  BY <1>1, <1>2, OwnKept, DumbKept
<1>6. RowTypes' /\ MappedInv' /\ SyncInv' /\ PointerInv' /\ ZcInv'
  BY <1>1, <1>2, RowsKept, MappedKept, SyncKept, PointerAway, ZcAway
<1>7. RouteInv'
  BY <1>1, <1>2 DEF RouteInv, FileTypes
<1>8. PhaseInv'
  BY <1>1, <1>2 DEF PhaseInv, SetUp, TakeDown
<1> QED
  BY <1>4, <1>5, <1>6, <1>7, <1>8

\* db_open(), up to its loop.
LEMMA DbOpenStep ==
    ASSUME MapsInv, Maps!DbOpen
    PROVE  MapsInv'
<1> USE DEF MapsInv
<1>1. /\ mPc = "dbopen"
      /\ UNCHANGED <<route, uncached, ion, mapion, dumb, pres, zc, maps, frame, yp, cp, mShown, sync>>
      /\ drm = -1 /\ mapion = -1 /\ DOMAIN zc = {} /\ DOMAIN maps = {} /\ route = "dmabuf"
  BY DEF Maps!DbOpen, Maps!picture, PhaseInv, RouteInv, SetUp
<1>2. \/ Maps!Opened(Maps!Is("drm")) /\ drm' = Maps!NewFd /\ mPc' \in {"dbbuf", "pres"}
      \/ mPc' = "pres" /\ UNCHANGED <<drm, fdt>>
  BY DEF Maps!DbOpen
<1>3. db' = [i \in Maps!Slots |-> [fd |-> -1, handle |-> FALSE, map |-> FALSE]]
  BY DEF Maps!DbOpen
<1>4. db' \in [Maps!Slots -> DumbRec]
  <2>1. -1 \in FdOrNone
    BY DEF FdOrNone
  <2> QED
    BY <1>3, <2>1 DEF DumbRec
<1>5. \A i \in Maps!Slots : db'[i].fd = -1 /\ ~db'[i].handle
  BY <1>3
<1>6. /\ OwnInv' /\ NoLeak' /\ fdt' \in [Maps!Fds -> Files]
      /\ drm' \in FdOrNone /\ (mPc' = "dbbuf" => drm' # -1)
  <2>1. CASE Maps!Opened(Maps!Is("drm")) /\ drm' = Maps!NewFd
    <3>1. OwnInv' /\ NoLeak' /\ fdt' \in [Maps!Fds -> Files] /\ drm' \in FdOrNone
      BY <1>1, <1>5, <2>1, IsFacts, OpenOwned
    <3>2. drm' # -1
      BY <2>1, NewFdFacts, MapsAssumption DEF Maps!Fds
    <3> QED
      BY <3>1, <3>2
  <2>2. CASE mPc' = "pres" /\ UNCHANGED <<drm, fdt>>
    <3>1. fdt' \in [Maps!Fds -> Files] /\ drm' \in FdOrNone
      BY <2>2 DEF FileTypes
    <3>2. OwnInv'
      BY <1>1, <2>2 DEF OwnInv, Maps!Slots, Maps!Dma
    <3>3. \A n : DbHas(n)' <=> DbHas(n)
      BY <1>1, <2>2 DEF DbHas
    <3>4. \A n : (ZcHas(n)' <=> ZcHas(n)) /\ (MapsHas(n)' <=> MapsHas(n))
      BY <1>1 DEF ZcHas, MapsHas
    <3>5. NoLeak'
      BY <1>1, <2>2, <3>3, <3>4 DEF NoLeak, Maps!Fds, Maps!Free
    <3> QED
      BY <2>2, <3>1, <3>2, <3>5
  <2> QED
    BY <1>2, <2>1, <2>2
<1>7. FileTypes'
  BY <1>1, <1>4, <1>6 DEF FileTypes, Maps!Fds, Maps!Slots, FdOrNone, DumbRec, Files
<1>8. RowTypes' /\ MappedInv' /\ SyncInv' /\ PointerInv' /\ ZcInv'
  BY <1>1, <1>2, RowsKept, MappedKept, SyncKept, PointerAway, ZcAway
<1>9. DumbInv'
  <2>1. dumb' = {}
    BY <1>1 DEF DumbInv
  <2>2. 0 \in 0 .. DB_N /\ dumb' = 0 .. 0 - 1
    BY <2>1, MapsAssumption
  <2>3. \A i \in Maps!Slots : i \in dumb' <=> db'[i].handle
    BY <1>5, <2>1
  <2> QED
    BY <1>5, <2>1, <2>2, <2>3 DEF DumbInv, Maps!Slots
<1>10. RouteInv' /\ PhaseInv'
  BY <1>1, <1>2, <1>6 DEF RouteInv, PhaseInv, SetUp, TakeDown
<1> QED
  BY <1>6, <1>7, <1>8, <1>9, <1>10

\* The number of dumb buffers is the slot of the next one.
LEMMA NextDumb ==
    ASSUME DumbInv, mPc = "dbbuf"
    PROVE  \E j \in Maps!Slots : Maps!Cardinality(dumb) = j /\ dumb = 0 .. j - 1
<1>1. PICK j \in 0 .. DB_N : dumb = 0 .. j - 1
  BY DEF DumbInv
<1>2. j # DB_N
  BY <1>1, MapsAssumption DEF DumbInv
<1>3. j \in Maps!Slots
  BY <1>2, MapsAssumption DEF Maps!Slots
<1>4. j \in Nat
  BY <1>3, MapsAssumption DEF Maps!Slots
<1>5. Cardinality(0 .. j - 1) = j
  <2>1. 0 \in Int /\ j - 1 \in Int
    BY <1>4
  <2>2. Cardinality(0 .. j - 1) = IF 0 > j - 1 THEN 0 ELSE (j - 1) - 0 + 1
    BY <2>1, FS_Interval
  <2> QED
    BY <1>4, <2>2
<1>6. Maps!Cardinality(dumb) = Cardinality(dumb)
  BY Zenon DEF Maps!Cardinality, Cardinality
<1> QED
  BY <1>1, <1>3, <1>5, <1>6

\* dmabuf_presenter_add_buffer().
LEMMA AddBufferFacts ==
    ASSUME FileTypes, NEW idx, Maps!AddBuffer(idx)
    PROVE  /\ pres' \in [up : BOOLEAN, dead : BOOLEAN, nbuf : Nat]
           /\ pres'.nbuf \in Nat /\ pres'.nbuf >= pres.nbuf
           /\ idx = -1 \/ idx \in 0 .. pres'.nbuf - 1
<1>1. pres \in [up : BOOLEAN, dead : BOOLEAN, nbuf : Nat]
  BY DEF FileTypes
<1>2. CASE idx = pres.nbuf /\ pres' = [pres EXCEPT !.nbuf = @ + 1]
  BY <1>1, <1>2
<1>3. CASE idx = -1 /\ pres' = [pres EXCEPT !.dead = TRUE]
  <2>1. pres' \in [up : BOOLEAN, dead : BOOLEAN, nbuf : Nat]
    BY <1>1, <1>3
  <2>2. pres'.nbuf = pres.nbuf /\ pres.nbuf \in Nat
    BY <1>1, <1>3
  <2> QED
    BY <1>3, <2>1, <2>2
<1> QED
  BY <1>2, <1>3 DEF Maps!AddBuffer

\* What a round of db_open()'s loop does to the table and to the card: nothing,
\* or one more dumb buffer, with a descriptor or without one.
LEMMA DbBufferFacts ==
    ASSUME MapsInv, Maps!DbBuffer
    PROVE  \E j \in Maps!Slots :
             /\ dumb = 0 .. j - 1
             /\ \/ UNCHANGED <<db, dumb, fdt, pres>> /\ mPc' = "pres"
                \/ \E r : /\ dumb' = dumb \cup {j} /\ db' = [db EXCEPT ![j] = r] /\ r.handle = TRUE
                          /\ \/ r.fd = -1 /\ r \in DumbRec /\ UNCHANGED fdt
                             \/ /\ r.fd = Maps!NewFd /\ Maps!NewFd \in Maps!Fds /\ r \in DumbRec
                                /\ Maps!Opened([kind |-> "dumb", start |-> j, size |-> 0])
                          /\ pres' \in [up : BOOLEAN, dead : BOOLEAN, nbuf : Nat]
                          /\ mPc' = "pres" \/ mPc' = (IF j + 1 = DB_N THEN "vdopen" ELSE "dbbuf")
<1> USE DEF MapsInv
<1>1. PICK j \in Maps!Slots : Maps!Cardinality(dumb) = j /\ dumb = 0 .. j - 1
  BY NextDumb DEF Maps!DbBuffer
<1> DEFINE file == [kind |-> "dumb", start |-> j, size |-> 0]
           Rec(fd, map) == [fd |-> fd, handle |-> TRUE, map |-> map]
<1>2. \/ mPc' = "pres" /\ UNCHANGED <<db, dumb, fdt, pres>>
      \/ /\ dumb' = dumb \cup {j}
         /\ \/ db' = [db EXCEPT ![j] = Rec(-1, FALSE)] /\ mPc' = "pres" /\ UNCHANGED <<fdt, pres>>
            \/ db' = [db EXCEPT ![j] = Rec(Maps!NewFd, FALSE)] /\ Maps!Opened(file) /\ mPc' = "pres" /\ UNCHANGED pres
            \/ /\ db' = [db EXCEPT ![j] = Rec(Maps!NewFd, TRUE)] /\ Maps!Opened(file)
               /\ \E idx \in -1 .. DB_N :
                    /\ Maps!AddBuffer(idx)
                    /\ mPc' = IF idx < 0 THEN "pres" ELSE IF j + 1 = DB_N THEN "vdopen" ELSE "dbbuf"
  BY <1>1 DEF Maps!DbBuffer
<1>3. pres \in [up : BOOLEAN, dead : BOOLEAN, nbuf : Nat]
  BY DEF FileTypes
<1>4. -1 \in FdOrNone /\ \A n \in Maps!Fds : n \in FdOrNone
  BY DEF FdOrNone
<1>5. \A n \in FdOrNone : \A map \in BOOLEAN : Rec(n, map) \in DumbRec
  BY DEF DumbRec
<1>6. \A n, map : Rec(n, map).handle = TRUE /\ Rec(n, map).fd = n
  OBVIOUS
<1> HIDE DEF Rec
<1>7. Maps!Opened(file) => Maps!NewFd \in Maps!Fds
  BY NewFdFacts
<1>8. CASE UNCHANGED <<db, dumb, fdt, pres>> /\ mPc' = "pres"
  BY <1>1, <1>8
<1>9. CASE /\ dumb' = dumb \cup {j}
           /\ db' = [db EXCEPT ![j] = Rec(-1, FALSE)] /\ mPc' = "pres" /\ UNCHANGED <<fdt, pres>>
  <2>1. Rec(-1, FALSE) \in DumbRec /\ Rec(-1, FALSE).handle = TRUE /\ Rec(-1, FALSE).fd = -1
    BY <1>4, <1>5, <1>6, Zenon
  <2> QED
    BY <1>1, <1>3, <1>9, <2>1
<1>10. CASE /\ dumb' = dumb \cup {j} /\ Maps!Opened(file) /\ mPc' = "pres" /\ UNCHANGED pres
            /\ db' = [db EXCEPT ![j] = Rec(Maps!NewFd, FALSE)]
  <2>1. PICK r : r = Rec(Maps!NewFd, FALSE)
    OBVIOUS
  <2>2. r \in DumbRec /\ r.handle = TRUE /\ r.fd = Maps!NewFd
    BY <1>4, <1>5, <1>6, <1>7, <1>10, <2>1, Zenon
  <2> QED
    BY <1>1, <1>3, <1>7, <1>10, <2>1, <2>2
<1>11. CASE /\ dumb' = dumb \cup {j} /\ Maps!Opened(file)
            /\ db' = [db EXCEPT ![j] = Rec(Maps!NewFd, TRUE)]
            /\ \E idx \in -1 .. DB_N :
                 /\ Maps!AddBuffer(idx)
                 /\ mPc' = IF idx < 0 THEN "pres" ELSE IF j + 1 = DB_N THEN "vdopen" ELSE "dbbuf"
  <2>1. PICK r : r = Rec(Maps!NewFd, TRUE)
    OBVIOUS
  <2>2. r \in DumbRec /\ r.handle = TRUE /\ r.fd = Maps!NewFd
    BY <1>4, <1>5, <1>6, <1>7, <1>11, <2>1, Zenon
  <2>3. pres' \in [up : BOOLEAN, dead : BOOLEAN, nbuf : Nat]
    BY <1>11, AddBufferFacts
  <2>4. mPc' = "pres" \/ mPc' = (IF j + 1 = DB_N THEN "vdopen" ELSE "dbbuf")
    BY <1>11
  <2> QED
    BY <1>1, <1>7, <1>11, <2>1, <2>2, <2>3, <2>4
<1> QED
  BY <1>2, <1>8, <1>9, <1>10, <1>11

\* One round of db_open()'s loop.
LEMMA DbBufferStep ==
    ASSUME MapsInv, Maps!DbBuffer
    PROVE  MapsInv'
<1> USE DEF MapsInv
<1>1. /\ mPc = "dbbuf"
      /\ UNCHANGED <<route, uncached, drm, ion, mapion, zc, maps, frame, yp, cp, mShown, sync>>
      /\ drm # -1 /\ mapion = -1 /\ DOMAIN zc = {} /\ DOMAIN maps = {} /\ route = "dmabuf"
  BY DEF Maps!DbBuffer, Maps!picture, PhaseInv, RouteInv, SetUp
<1>2. PICK j \in Maps!Slots :
         /\ dumb = 0 .. j - 1
         /\ \/ UNCHANGED <<db, dumb, fdt, pres>> /\ mPc' = "pres"
            \/ \E r : /\ dumb' = dumb \cup {j} /\ db' = [db EXCEPT ![j] = r] /\ r.handle = TRUE
                      /\ \/ r.fd = -1 /\ r \in DumbRec /\ UNCHANGED fdt
                         \/ /\ r.fd = Maps!NewFd /\ Maps!NewFd \in Maps!Fds /\ r \in DumbRec
                            /\ Maps!Opened([kind |-> "dumb", start |-> j, size |-> 0])
                      /\ pres' \in [up : BOOLEAN, dead : BOOLEAN, nbuf : Nat]
                      /\ mPc' = "pres" \/ mPc' = (IF j + 1 = DB_N THEN "vdopen" ELSE "dbbuf")
  BY DbBufferFacts
<1>3. mPc' \in {"pres", "vdopen", "dbbuf"}
  BY <1>2
<1>4. RowTypes' /\ MappedInv' /\ SyncInv' /\ PointerInv' /\ ZcInv'
  BY <1>1, <1>3, RowsKept, MappedKept, SyncKept, PointerAway, ZcAway
<1>5. RouteInv' /\ PhaseInv'
  BY <1>1, <1>3 DEF RouteInv, PhaseInv, SetUp, TakeDown
<1>6. CASE UNCHANGED <<db, dumb, fdt, pres>> /\ mPc' = "pres"
  <2>1. FileTypes'
    BY <1>1, <1>6, FilesKept DEF FileTypes
  <2>2. OwnInv' /\ NoLeak' /\ DumbInv'
    BY <1>1, <1>6, OwnKept, DumbKept
  <2> QED
    BY <1>4, <1>5, <2>1, <2>2
<1>7. ASSUME NEW r, dumb' = dumb \cup {j}, db' = [db EXCEPT ![j] = r], r.handle = TRUE,
             \/ r.fd = -1 /\ r \in DumbRec /\ UNCHANGED fdt
             \/ /\ r.fd = Maps!NewFd /\ Maps!NewFd \in Maps!Fds /\ r \in DumbRec
                /\ Maps!Opened([kind |-> "dumb", start |-> j, size |-> 0]),
             pres' \in [up : BOOLEAN, dead : BOOLEAN, nbuf : Nat],
             mPc' = "pres" \/ mPc' = (IF j + 1 = DB_N THEN "vdopen" ELSE "dbbuf")
      PROVE  MapsInv'
  <2>1. r \in DumbRec /\ db \in [Maps!Slots -> DumbRec] /\ dumb \subseteq Maps!Slots
    BY <1>7 DEF FileTypes
  <2>2. /\ db' \in [Maps!Slots -> DumbRec] /\ dumb' \subseteq Maps!Slots
        /\ db'[j] = r /\ \A i \in Maps!Slots : i # j => db'[i] = db[i]
    BY <1>7, <2>1
  <2>3. j \notin dumb /\ db[j].fd = -1
    <3>1. j \in Nat
      BY MapsAssumption DEF Maps!Slots
    <3>2. j \notin dumb
      BY <1>2, <3>1
    <3> QED
      BY <1>1, <3>2 DEF DumbInv
  <2>4. DumbInv'
    <3>1. j \in Nat /\ j < DB_N
      BY MapsAssumption DEF Maps!Slots
    <3>2. j + 1 \in 0 .. DB_N /\ dumb' = 0 .. (j + 1) - 1
      BY <1>2, <1>7, <3>1, MapsAssumption
    <3>3. \A i \in Maps!Slots : i \in dumb' <=> db'[i].handle
      <4>1. \A i \in Maps!Slots : i # j => (i \in dumb' <=> db'[i].handle)
        BY <1>7, <2>2 DEF DumbInv
      <4>2. j \in dumb' /\ db'[j].handle
        BY <1>7, <2>2
      <4> QED
        BY <4>1, <4>2
    <3>4. \A i \in Maps!Slots : i \notin dumb' => db'[i].fd = -1
      BY <1>1, <1>7, <2>2 DEF DumbInv
    <3>5. mPc' = "dbbuf" => DB_N - 1 \notin dumb'
      <4>1. mPc' = "dbbuf" => j + 1 # DB_N
        BY <1>7
      <4> QED
        BY <3>1, <3>2, <4>1, MapsAssumption
    <3>6. drm' # -1
      BY <1>1
    <3> QED
      BY <3>2, <3>3, <3>4, <3>5, <3>6 DEF DumbInv, Maps!Slots
  <2>5. OwnInv' /\ NoLeak' /\ fdt' \in [Maps!Fds -> Files]
    <3>1. \E n : /\ r.fd = n /\ fdt' \in [Maps!Fds -> Files]
                 /\ \A k \in Maps!Fds : k # n => fdt'[k] = fdt[k]
                 /\ n # 0 /\ n # drm /\ \A i \in Maps!Slots : db[i].fd # -1 => db[i].fd # n
                 /\ n # -1 => n \in Maps!Fds /\ fdt'[n].kind = "dumb" /\ fdt'[n].start = j
      <4>1. CASE r.fd = -1 /\ UNCHANGED fdt
        <5>1. fdt' \in [Maps!Fds -> Files]
          BY <4>1 DEF FileTypes
        <5> QED
          BY <1>1, <4>1, <5>1
      <4>2. CASE r.fd = Maps!NewFd /\ Maps!Opened([kind |-> "dumb", start |-> j, size |-> 0])
        <5> DEFINE file == [kind |-> "dumb", start |-> j, size |-> 0]
        <5>1. file \in Files /\ file.kind = "dumb" /\ file.start = j
          BY MapsAssumption DEF Files, Kinds, Maps!Slots
        <5> HIDE DEF file
        <5>2. Maps!Opened(file)
          BY <4>2 DEF file
        <5> QED
          BY <1>1, <4>2, <5>1, <5>2, OpenFacts DEF DbHas
      <4> QED
        BY <1>7, <4>1, <4>2
    <3>2. PICK n : /\ r.fd = n /\ fdt' \in [Maps!Fds -> Files]
                   /\ \A k \in Maps!Fds : k # n => fdt'[k] = fdt[k]
                   /\ n # 0 /\ n # drm /\ \A i \in Maps!Slots : db[i].fd # -1 => db[i].fd # n
                   /\ n # -1 => n \in Maps!Fds /\ fdt'[n].kind = "dumb" /\ fdt'[n].start = j
      BY <3>1
    <3>3. /\ 0 \in Maps!Fds /\ drm \in Maps!Fds /\ ion = -1
          /\ \A i \in Maps!Slots : db[i].fd # -1 => db[i].fd \in Maps!Fds
      BY <1>1, MapsAssumption DEF FileTypes, FdOrNone, DumbRec, Maps!Fds, RouteInv
    <3>4. fdt'[0].kind = "std" /\ fdt'[drm].kind = "drm"
      BY <1>1, <3>2, <3>3 DEF OwnInv
    <3>5. \A i \in Maps!Slots : db'[i].fd # -1 =>
              fdt'[db'[i].fd].kind = "dumb" /\ fdt'[db'[i].fd].start = i
      <4>1. ASSUME NEW i \in Maps!Slots, i # j, db'[i].fd # -1
            PROVE  fdt'[db'[i].fd].kind = "dumb" /\ fdt'[db'[i].fd].start = i
        <5>1. db'[i].fd = db[i].fd /\ db[i].fd \in Maps!Fds /\ db[i].fd # n
          BY <2>2, <3>2, <3>3, <4>1
        <5>2. fdt'[db[i].fd] = fdt[db[i].fd]
          BY <3>2, <5>1
        <5>3. fdt[db[i].fd].kind = "dumb" /\ fdt[db[i].fd].start = i
          BY <1>1, <4>1, <5>1 DEF OwnInv
        <5> QED
          BY <5>1, <5>2, <5>3
      <4>2. db'[j].fd = n
        BY <2>2, <3>2
      <4> QED
        BY <3>2, <4>1, <4>2
    <3>6. OwnInv'
      <4>1. drm' = drm /\ ion' = -1 /\ mapion' = -1 /\ DOMAIN zc' = {} /\ DOMAIN maps' = {}
        BY <1>1, <3>3
      <4> QED
        BY <3>4, <3>5, <4>1 DEF OwnInv, Maps!Slots
    <3>7. NoLeak'
      <4>1. SUFFICES ASSUME NEW m \in Maps!Fds, fdt'[m] # Maps!Free
                     PROVE  m = 0 \/ m = drm' \/ DbHas(m)'
        BY DEF NoLeak, Maps!Free, Maps!Fds
      <4>2. m # -1
        BY MapsAssumption DEF Maps!Fds
      <4>3. CASE m = n
        <5>1. db'[j].fd = m /\ drm' # -1
          BY <1>1, <2>2, <3>2, <4>3
        <5> QED
          BY <5>1 DEF DbHas, Maps!Slots
      <4>4. CASE m # n
        <5>1. fdt[m] # Maps!Free
          BY <3>2, <4>1, <4>4
        <5>2. ~ZcHas(m) /\ ~MapsHas(m)
          BY <1>1 DEF ZcHas, MapsHas
        <5>3. m = 0 \/ m = drm \/ DbHas(m)
          BY <1>1, <3>3, <4>2, <5>1, <5>2 DEF NoLeak
        <5>4. ASSUME NEW i \in Maps!Slots, db[i].fd = m PROVE DbHas(m)'
          <6>1. i # j
            BY <2>3, <4>2, <5>4
          <6>2. db'[i].fd = m /\ drm' # -1
            BY <1>1, <2>2, <5>4, <6>1
          <6> QED
            BY <6>2 DEF DbHas, Maps!Slots
        <5> QED
          BY <1>1, <5>3, <5>4 DEF DbHas
      <4> QED
        BY <4>3, <4>4
    <3> QED
      BY <3>2, <3>6, <3>7
  <2>6. FileTypes'
    BY <1>1, <1>7, <2>2, <2>5 DEF FileTypes, Maps!Fds, Maps!Slots, FdOrNone, DumbRec, Files
  <2> QED
    BY <1>4, <1>5, <2>4, <2>5, <2>6
<1> QED
  BY <1>2, <1>6, <1>7

\* vd_open(): /dev/soph-ion for the maps.
LEMMA MapsVdOpenStep ==
    ASSUME MapsInv, Maps!VdOpen
    PROVE  MapsInv'
<1> USE DEF MapsInv
<1>1. /\ mPc = "vdopen"
      /\ UNCHANGED <<route, uncached, drm, ion, db, dumb, pres, zc, maps, frame, yp, cp, mShown, sync>>
      /\ mapion = -1 /\ DOMAIN zc = {} /\ DOMAIN maps = {}
  BY DEF Maps!VdOpen, Maps!bufs, Maps!picture, PhaseInv, SetUp
<1>2. /\ mPc' = "quit" \/ mPc' = "loop"
      /\ UNCHANGED <<mapion, fdt>> \/ (route # "zero" /\ Maps!Opened(Maps!Is("ion")) /\ mapion' = Maps!NewFd)
  BY DEF Maps!VdOpen
<1>3. FileTypes' /\ OwnInv' /\ NoLeak'
  <2>1. CASE UNCHANGED <<mapion, fdt>>
    BY <1>1, <2>1, OwnKept, FilesKept DEF FileTypes
  <2>2. CASE Maps!Opened(Maps!Is("ion")) /\ mapion' = Maps!NewFd
    <3>1. OwnInv' /\ NoLeak' /\ fdt' \in [Maps!Fds -> Files] /\ mapion' \in FdOrNone
      BY <1>1, <2>2, IsFacts, OpenOwned
    <3> QED
      BY <1>1, <3>1 DEF FileTypes, Maps!Fds, Maps!Slots, FdOrNone, DumbRec, Files
  <2> QED
    BY <1>2, <2>1, <2>2
<1>4. RowTypes' /\ MappedInv' /\ SyncInv' /\ PointerInv' /\ ZcInv'
  BY <1>1, <1>2, RowsKept, MappedKept, SyncKept, PointerAway, ZcNone
<1>5. DumbInv'
  BY <1>1, <1>2, DumbKept
<1>6. RouteInv' /\ PhaseInv'
  BY <1>1, <1>2 DEF RouteInv, PhaseInv, SetUp, TakeDown
<1> QED
  BY <1>3, <1>4, <1>5, <1>6

\* A picture of the decoder.
LEMMA GetFrameStep ==
    ASSUME MapsInv, Maps!GetFrame
    PROVE  MapsInv'
<1> USE DEF MapsInv
<1>1. /\ mPc = "loop"
      /\ UNCHANGED <<route, uncached, fdt, drm, ion, mapion, db, dumb, pres, zc, maps, yp, cp, mShown, sync>>
  BY DEF Maps!GetFrame, Maps!bufs, Maps!files
<1>2. (mPc' = "zcget" /\ route = "zero") \/ (mPc' = "mapy" /\ route # "zero")
  BY DEF Maps!GetFrame
<1>3. frame' \in [y : Int, c : Int]
  <2>1. Maps!Addrs \subseteq Int
    BY MapsAssumption DEF Maps!Addrs
  <2> QED
    BY <2>1 DEF Maps!GetFrame
<1>4. FileTypes'
  BY <1>1, <1>3, FilesKept DEF FileTypes
<1>5. OwnInv' /\ NoLeak' /\ DumbInv'
  BY <1>1, <1>2, OwnKept, DumbKept
<1>6. RowTypes' /\ MappedInv' /\ SyncInv' /\ PointerInv'
  BY <1>1, <1>2, RowsKept, MappedKept, SyncKept, PointerAway
<1>7. ZcInv'
  BY <1>1, <1>2 DEF ZcInv
<1>8. RouteInv' /\ PhaseInv'
  BY <1>1, <1>2 DEF RouteInv, PhaseInv, SetUp, TakeDown
<1> QED
  BY <1>4, <1>5, <1>6, <1>7, <1>8

\* sway gives a frame back.
LEMMA ShownStep ==
    ASSUME MapsInv, Maps!Shown
    PROVE  MapsInv'
<1> USE DEF MapsInv
<1>1. /\ mPc = "shown" /\ mPc' = "loop"
      /\ UNCHANGED <<route, uncached, fdt, drm, ion, mapion, db, dumb, pres, zc, maps, yp, cp, sync>>
  BY DEF Maps!Shown, Maps!bufs, Maps!files
<1>2. frame' \in [y : Int, c : Int]
  BY DEF Maps!Shown, Maps!NoFrame
<1>3. FileTypes'
  BY <1>1, <1>2, FilesKept DEF FileTypes
<1>4. OwnInv' /\ NoLeak' /\ DumbInv'
  BY <1>1, OwnKept, DumbKept
<1>5. RowTypes' /\ MappedInv' /\ SyncInv' /\ PointerInv'
  BY <1>1, RowsKept, MappedKept, SyncKept, PointerAway
<1>6. ZcInv'
  BY <1>1 DEF ZcInv
<1>7. RouteInv' /\ PhaseInv'
  BY <1>1 DEF RouteInv, PhaseInv, SetUp, TakeDown
<1> QED
  BY <1>3, <1>4, <1>5, <1>6, <1>7

\* The frame loop ends.
LEMMA StopStep ==
    ASSUME MapsInv, Maps!Stop
    PROVE  MapsInv'
<1> USE DEF MapsInv
<1>1. /\ mPc = "loop" /\ mPc' = "unmap"
      /\ UNCHANGED <<route, uncached, fdt, drm, ion, mapion, db, dumb, pres, zc, maps, frame, yp, cp, mShown, sync>>
  BY DEF Maps!Stop, Maps!bufs, Maps!files, Maps!picture
<1>2. FileTypes'
  BY <1>1, FilesKept DEF FileTypes
<1>3. OwnInv' /\ NoLeak' /\ DumbInv'
  BY <1>1, OwnKept, DumbKept
<1>4. RowTypes' /\ MappedInv' /\ SyncInv' /\ PointerInv' /\ ZcInv'
  BY <1>1, RowsKept, MappedKept, SyncKept, PointerAway, ZcAway
<1>5. RouteInv' /\ PhaseInv'
  BY <1>1 DEF RouteInv, PhaseInv, SetUp, TakeDown
<1> QED
  BY <1>2, <1>3, <1>4, <1>5

\* close() on a set of descriptors.
LEMMA CloseFacts ==
    ASSUME FileTypes, NEW S, fdt' = Maps!Closed(S)
    PROVE  /\ fdt' \in [Maps!Fds -> Files]
           /\ \A n \in Maps!Fds : n \in S => fdt'[n] = Maps!Free
           /\ \A n \in Maps!Fds : n \notin S => fdt'[n] = fdt[n]
<1>1. Maps!Free \in Files
  BY DEF Maps!Free, Files, Kinds
<1> QED
  BY <1>1 DEF FileTypes, Maps!Closed

\* What is closed is forgotten, and what is remembered stays what it was: the
\* variables that are left point outside the set that was closed.
LEMMA CloseOwned ==
    ASSUME FileTypes, RowTypes, OwnInv, NoLeak, NEW S, fdt' = Maps!Closed(S), 0 \notin S,
           drm' = -1 \/ (drm' = drm /\ db' = db /\ drm \notin S
                          /\ \A i \in Maps!Slots : db[i].fd # -1 => db[i].fd \notin S),
           ion' = -1 \/ (ion' = ion /\ ion \notin S),
           mapion' = -1 \/ (mapion' = mapion /\ mapion \notin S),
           DOMAIN zc' = {} \/ (zc' = zc /\ \A k \in DOMAIN zc : zc[k].fd \notin S),
           DOMAIN maps' = {} \/ (maps' = maps /\ \A k \in DOMAIN maps : maps[k].fd \notin S),
           drm = drm' \/ (drm \in S /\ \A i \in Maps!Slots : db[i].fd # -1 => db[i].fd \in S),
           ion = ion' \/ ion \in S,
           mapion = mapion' \/ mapion \in S,
           zc' = zc \/ \A k \in DOMAIN zc : zc[k].fd \in S,
           maps' = maps \/ \A k \in DOMAIN maps : maps[k].fd \in S
    PROVE  OwnInv' /\ NoLeak'
<1>1. /\ fdt' \in [Maps!Fds -> Files]
      /\ \A n \in Maps!Fds : n \in S => fdt'[n] = Maps!Free
      /\ \A n \in Maps!Fds : n \notin S => fdt'[n] = fdt[n]
  BY CloseFacts
<1>2. /\ 0 \in Maps!Fds /\ -1 \notin Maps!Fds
      /\ drm \in FdOrNone /\ ion \in FdOrNone /\ mapion \in FdOrNone
  BY MapsAssumption DEF FileTypes, Maps!Fds
<1>3. \A i \in Maps!Slots : db[i].fd # -1 => db[i].fd \in Maps!Fds
  BY DEF FileTypes, DumbRec, FdOrNone
<1>4. (\A k \in DOMAIN zc : zc[k].fd \in Maps!Fds) /\ (\A k \in DOMAIN maps : maps[k].fd \in Maps!Fds)
  BY TableRows DEF ZcRec, MapRec
<1>5. fdt'[0].kind = "std"
  BY <1>1, <1>2 DEF OwnInv
<1>6. drm' # -1 => fdt'[drm'].kind = "drm"
  BY <1>1, <1>2 DEF OwnInv, FdOrNone
<1>7. ion' # -1 => fdt'[ion'].kind = "ion"
  BY <1>1, <1>2 DEF OwnInv, FdOrNone
<1>8. mapion' # -1 => fdt'[mapion'].kind = "ion"
  BY <1>1, <1>2 DEF OwnInv, FdOrNone
<1>9. drm' # -1 => \A i \in Maps!Slots : db'[i].fd # -1 =>
            fdt'[db'[i].fd].kind = "dumb" /\ fdt'[db'[i].fd].start = i
  <2>1. SUFFICES ASSUME drm' # -1, NEW i \in Maps!Slots, db'[i].fd # -1
                 PROVE  fdt'[db'[i].fd].kind = "dumb" /\ fdt'[db'[i].fd].start = i
    OBVIOUS
  <2>2. drm' = drm /\ db' = db /\ db[i].fd # -1 /\ db[i].fd \notin S /\ db[i].fd \in Maps!Fds
    BY <1>3, <2>1
  <2>3. fdt'[db[i].fd] = fdt[db[i].fd]
    BY <1>1, <2>2
  <2> QED
    BY <2>1, <2>2, <2>3 DEF OwnInv
<1>10. \A k \in DOMAIN zc' : fdt'[zc'[k].fd].kind = "dma"
  BY <1>1, <1>4 DEF OwnInv
<1>11. \A k \in DOMAIN maps' : fdt'[maps'[k].fd] = Maps!Dma(maps'[k])
  <2>1. SUFFICES ASSUME NEW k \in DOMAIN maps' PROVE fdt'[maps'[k].fd] = Maps!Dma(maps'[k])
    OBVIOUS
  <2>2. maps' = maps /\ k \in DOMAIN maps /\ maps[k].fd \notin S /\ maps[k].fd \in Maps!Fds
    BY <1>4, <2>1
  <2>3. fdt'[maps[k].fd] = fdt[maps[k].fd] /\ fdt[maps[k].fd] = Maps!Dma(maps[k])
    BY <1>1, <2>2 DEF OwnInv
  <2> QED
    BY <2>2, <2>3
<1>12. OwnInv'
  BY <1>5, <1>6, <1>7, <1>8, <1>9, <1>10, <1>11 DEF OwnInv, Maps!Dma, Maps!Slots
<1>13. NoLeak'
  <2>1. SUFFICES ASSUME NEW m \in Maps!Fds, fdt'[m] # Maps!Free
                 PROVE  m = 0 \/ m = drm' \/ m = ion' \/ m = mapion' \/ DbHas(m)' \/ ZcHas(m)' \/ MapsHas(m)'
    BY DEF NoLeak, Maps!Free, Maps!Fds
  <2>2. m \notin S /\ fdt[m] # Maps!Free /\ m # -1
    BY <1>1, <1>2, <2>1
  <2>3. m = 0 \/ m = drm \/ m = ion \/ m = mapion \/ DbHas(m) \/ ZcHas(m) \/ MapsHas(m)
    BY <2>2 DEF NoLeak
  <2>4. DbHas(m) => DbHas(m)'
    <3>1. SUFFICES ASSUME drm # -1, NEW i \in Maps!Slots, db[i].fd = m PROVE DbHas(m)'
      BY DEF DbHas
    <3>2. drm' = drm /\ db' = db
      BY <2>2, <3>1
    <3> QED
      BY <3>1, <3>2 DEF DbHas, Maps!Slots
  <2>5. ZcHas(m) => ZcHas(m)'
    BY <2>2 DEF ZcHas
  <2>6. MapsHas(m) => MapsHas(m)'
    BY <2>2 DEF MapsHas
  <2>7. (m = drm => m = drm') /\ (m = ion => m = ion') /\ (m = mapion => m = mapion')
    BY <2>2
  <2> QED
    BY <2>3, <2>4, <2>5, <2>6, <2>7
<1> QED
  BY <1>12, <1>13

\* unmap_all().
LEMMA UnmapAllStep ==
    ASSUME MapsInv, Maps!UnmapAll
    PROVE  MapsInv'
<1> USE DEF MapsInv
<1>1. /\ mPc = "unmap" /\ mPc' = "pres" /\ maps' = <<>> /\ mapion' = -1
      /\ UNCHANGED <<route, uncached, drm, ion, db, dumb, pres, zc, frame, yp, cp, mShown, sync>>
  BY DEF Maps!UnmapAll, Maps!bufs, Maps!picture
<1> DEFINE S == {maps[k].fd : k \in DOMAIN maps} \cup ({mapion} \ {-1})
<1>2. fdt' = Maps!Closed(S)
  BY DEF Maps!UnmapAll
<1>3. DOMAIN maps' = {} /\ maps' \in Seq(MapRec)
  BY <1>1, EmptyFacts, Zenon
<1>4. \A n \in S : fdt[n].kind \in {"dma", "ion"}
  <2>1. \A k \in DOMAIN maps : fdt[maps[k].fd].kind = "dma"
    <3>1. \A k \in DOMAIN maps : Maps!Dma(maps[k]).kind = "dma"
      BY DEF Maps!Dma
    <3> QED
      BY <3>1 DEF OwnInv
  <2> QED
    BY <2>1 DEF OwnInv
<1>5. -1 \notin S
  BY TableRows, MapsAssumption DEF MapRec, Maps!Fds
<1>6. (\A k \in DOMAIN maps : maps[k].fd \in S) /\ (mapion = -1 \/ mapion \in S)
  OBVIOUS
<1>7. route = "zero" => S = {}
  BY DEF RouteInv
<1> HIDE DEF S
<1>8. 0 \notin S /\ drm \notin S /\ ion \notin S /\ \A k \in DOMAIN zc : zc[k].fd \notin S
  BY <1>4, <1>5, <1>7 DEF OwnInv, RouteInv
<1>9. drm = -1 \/ \A i \in Maps!Slots : db[i].fd # -1 => db[i].fd \notin S
  BY <1>4 DEF OwnInv
<1>10. OwnInv' /\ NoLeak'
  BY <1>1, <1>2, <1>3, <1>6, <1>8, <1>9, CloseOwned
<1>11. FileTypes'
  <2>1. fdt' \in [Maps!Fds -> Files] /\ -1 \in FdOrNone
    BY <1>2, CloseFacts DEF FdOrNone
  <2> QED
    BY <1>1, <2>1 DEF FileTypes, Maps!Fds, Maps!Slots, FdOrNone, DumbRec, Files
<1>12. RowTypes'
  BY <1>1, <1>3 DEF RowTypes, ZcRec, MapRec, Maps!Fds
<1>13. MappedInv' /\ SyncInv' /\ PointerInv' /\ ZcInv'
  <2>1. MappedInv'
    BY <1>3 DEF MappedInv
  <2> QED
    BY <1>1, <2>1, SyncKept, PointerAway, ZcAway
<1>14. DumbInv'
  BY <1>1, DumbKept
<1>15. RouteInv' /\ PhaseInv'
  BY <1>1, <1>3 DEF RouteInv, PhaseInv, SetUp, TakeDown
<1> QED
  BY <1>10, <1>11, <1>12, <1>13, <1>14, <1>15

\* dmabuf_presenter_destroy().
LEMMA PresenterDestroyStep ==
    ASSUME MapsInv, Maps!PresenterDestroy
    PROVE  MapsInv'
<1> USE DEF MapsInv
<1>1. /\ mPc = "pres" /\ (mPc' = "dbclose" \/ (mPc' = "done" /\ route = "shm"))
      /\ UNCHANGED <<route, uncached, fdt, drm, ion, mapion, db, dumb, zc, maps, frame, yp, cp, mShown, sync>>
      /\ mapion = -1 /\ DOMAIN maps = {}
  BY DEF Maps!PresenterDestroy, Maps!files, Maps!picture, PhaseInv, TakeDown
<1>2. pres' = [up |-> FALSE, dead |-> FALSE, nbuf |-> 0]
  BY DEF Maps!PresenterDestroy
<1>3. pres' \in [up : BOOLEAN, dead : BOOLEAN, nbuf : Nat] /\ ~pres'.up
  BY <1>2
<1>4. FileTypes'
  BY <1>1, <1>3, FilesKept DEF FileTypes
<1>5. OwnInv' /\ NoLeak' /\ DumbInv'
  BY <1>1, OwnKept, DumbKept
<1>6. RowTypes' /\ MappedInv' /\ SyncInv' /\ PointerInv' /\ ZcInv'
  BY <1>1, RowsKept, MappedKept, SyncKept, PointerAway, ZcAway
<1>7. RouteInv' /\ PhaseInv'
  BY <1>1, <1>3 DEF RouteInv, PhaseInv, SetUp, TakeDown
<1> QED
  BY <1>4, <1>5, <1>6, <1>7

\* db_close().
LEMMA DbCloseStep ==
    ASSUME MapsInv, Maps!DbClose
    PROVE  MapsInv'
<1> USE DEF MapsInv
<1>1. /\ mPc = "dbclose" /\ mPc' = "zcclose"
      /\ UNCHANGED <<route, uncached, ion, mapion, pres, zc, maps, frame, yp, cp, mShown, sync>>
      /\ mapion = -1 /\ DOMAIN maps = {} /\ ~pres.up
  BY DEF Maps!DbClose, Maps!picture, PhaseInv, TakeDown
<1>2. RowTypes' /\ MappedInv' /\ SyncInv' /\ PointerInv' /\ ZcInv'
  BY <1>1, RowsKept, MappedKept, SyncKept, PointerAway, ZcAway
<1>3. CASE drm = -1
  <2>1. UNCHANGED <<fdt, dumb, db, drm>>
    BY <1>3 DEF Maps!DbClose
  <2>2. FileTypes' /\ OwnInv' /\ NoLeak' /\ DumbInv'
    BY <1>1, <2>1, OwnKept, DumbKept, FilesKept DEF FileTypes
  <2>3. RouteInv' /\ PhaseInv'
    BY <1>1, <1>3, <2>1 DEF RouteInv, PhaseInv, SetUp, TakeDown
  <2> QED
    BY <1>2, <2>2, <2>3
<1>4. CASE drm # -1
  <2> DEFINE S == {drm} \cup ({db[i].fd : i \in Maps!Slots} \ {-1})
  <2>1. ~(drm < 0)
    BY <1>4, MapsAssumption DEF FileTypes, FdOrNone, Maps!Fds
  <2>2. /\ fdt' = Maps!Closed(S) /\ drm' = -1
        /\ dumb' = dumb \ {i \in Maps!Slots : db[i].handle}
        /\ db' = [i \in Maps!Slots |-> [fd |-> -1, handle |-> FALSE, map |-> FALSE]]
    BY <2>1 DEF Maps!DbClose
  <2>3. \A n \in S : fdt[n].kind \in {"drm", "dumb"}
    BY <1>4 DEF OwnInv
  <2>4. drm \in S /\ (\A i \in Maps!Slots : db[i].fd # -1 => db[i].fd \in S) /\ -1 \notin S
    BY <1>4
  <2> HIDE DEF S
  <2>5. 0 \notin S /\ ion \notin S /\ \A k \in DOMAIN zc : zc[k].fd \notin S
    BY <2>3, <2>4 DEF OwnInv
  <2>6. OwnInv' /\ NoLeak'
    BY <1>1, <2>2, <2>4, <2>5, CloseOwned
  <2>7. db' \in [Maps!Slots -> DumbRec]
    <3>1. -1 \in FdOrNone
      BY DEF FdOrNone
    <3> QED
      BY <2>2, <3>1 DEF DumbRec
  <2>8. \A i \in Maps!Slots : ~db'[i].handle
    BY <2>2
  <2>9. dumb' = {}
    BY <2>2 DEF DumbInv, FileTypes
  <2>10. DumbInv'
    <3>1. 0 \in 0 .. DB_N /\ dumb' = 0 .. 0 - 1
      BY <2>9, MapsAssumption
    <3> QED
      BY <1>1, <2>2, <2>8, <2>9, <3>1 DEF DumbInv, Maps!Slots
  <2>11. FileTypes'
    <3>1. fdt' \in [Maps!Fds -> Files] /\ drm' \in FdOrNone
      BY <2>2, CloseFacts DEF FdOrNone
    <3> QED
      BY <1>1, <2>7, <2>9, <3>1 DEF FileTypes, Maps!Fds, Maps!Slots, FdOrNone, DumbRec, Files
  <2>12. RouteInv' /\ PhaseInv'
    BY <1>1, <2>2 DEF RouteInv, PhaseInv, SetUp, TakeDown
  <2> QED
    BY <1>2, <2>6, <2>10, <2>11, <2>12
<1> QED
  BY <1>3, <1>4

\* zc_close().
LEMMA ZcCloseStep ==
    ASSUME MapsInv, Maps!ZcClose
    PROVE  MapsInv'
<1> USE DEF MapsInv
<1>1. /\ mPc = "zcclose" /\ mPc' = "done" /\ zc' = <<>> /\ ion' = -1
      /\ UNCHANGED <<route, uncached, drm, mapion, db, dumb, pres, maps, frame, yp, cp, mShown, sync>>
      /\ mapion = -1 /\ DOMAIN maps = {} /\ ~pres.up /\ drm = -1
  BY DEF Maps!ZcClose, Maps!picture, PhaseInv, TakeDown
<1> DEFINE S == {zc[k].fd : k \in DOMAIN zc} \cup ({ion} \ {-1})
<1>2. fdt' = Maps!Closed(S)
  BY DEF Maps!ZcClose
<1>3. DOMAIN zc' = {} /\ zc' \in Seq(ZcRec)
  BY <1>1, EmptyFacts, Zenon
<1>4. \A n \in S : fdt[n].kind \in {"dma", "ion"}
  BY DEF OwnInv
<1>5. (\A k \in DOMAIN zc : zc[k].fd \in S) /\ (ion = -1 \/ ion \in S)
  OBVIOUS
<1>6. -1 \notin S
  BY TableRows, MapsAssumption DEF ZcRec, Maps!Fds
<1> HIDE DEF S
<1>7. 0 \notin S /\ mapion \notin S
  BY <1>1, <1>4, <1>6 DEF OwnInv
<1>8. OwnInv' /\ NoLeak'
  BY <1>1, <1>2, <1>3, <1>5, <1>7, CloseOwned
<1>9. FileTypes'
  <2>1. fdt' \in [Maps!Fds -> Files] /\ ion' \in FdOrNone
    BY <1>1, <1>2, CloseFacts DEF FdOrNone
  <2> QED
    BY <1>1, <2>1 DEF FileTypes, Maps!Fds, Maps!Slots, FdOrNone, DumbRec, Files
<1>10. RowTypes'
  BY <1>1, <1>3 DEF RowTypes, ZcRec, MapRec, Maps!Fds
<1>11. MappedInv' /\ SyncInv' /\ PointerInv' /\ ZcInv' /\ DumbInv'
  BY <1>1, MappedKept, SyncKept, PointerAway, ZcAway, DumbKept
<1>12. RouteInv' /\ PhaseInv'
  BY <1>1, <1>3 DEF RouteInv, PhaseInv, SetUp, TakeDown
<1> QED
  BY <1>8, <1>9, <1>10, <1>11, <1>12

(* What map_get() does when it returns q, or NULL. *)
Pointed(q, pa, len) ==
    \/ /\ UNCHANGED <<maps, fdt>>
       /\ \E k \in DOMAIN maps : Maps!Holds(maps[k], pa, len) /\ q = maps[k].base + (pa - maps[k].start)
    \/ UNCHANGED <<maps, fdt>> /\ q = -1
    \/ /\ \A k \in DOMAIN maps : ~Maps!Holds(maps[k], pa, len)
       /\ \E a \in Allocs, b \in Bases :
            /\ pa \in a.start .. a.start + a.size - 1 /\ len <= a.size - (pa - a.start)
            /\ \A k \in DOMAIN maps : ~Maps!Overlaps(b, a.size, maps[k].base, maps[k].size)
            /\ Maps!Opened(Maps!Dma(a))
            /\ maps' = Append(maps, [start |-> a.start, size |-> a.size, base |-> b, fd |-> Maps!NewFd])
            /\ q = b + (pa - a.start)

\* The numbers of an allocation.
LEMMA AllocFacts ==
    ASSUME NEW a \in Allocs
    PROVE  /\ a.start \in Nat /\ a.size \in Nat /\ a.size > 0
           /\ Maps!Dma(a) \in Files /\ Maps!Dma(a).kind = "dma"
           /\ Maps!Dma(a).start = a.start /\ Maps!Dma(a).size = a.size
<1>1. a \in [start : Nat, size : Nat \ {0}]
  BY MapsAssumption
<1>2. a.start \in Nat /\ a.size \in Nat /\ a.size > 0
  BY <1>1
<1> QED
  BY <1>2 DEF Maps!Dma, Files, Kinds

\* A map that is not there yet: no map has a byte of its allocation.
LEMMA FreshMap ==
    ASSUME RowTypes, MappedInv, NEW a \in Allocs, NEW pa \in Int, NEW len \in Nat \ {0},
           pa \in a.start .. a.start + a.size - 1, len <= a.size - (pa - a.start),
           NEW k \in DOMAIN maps, ~Maps!Holds(maps[k], pa, len)
    PROVE  ~Maps!Overlaps(a.start, a.size, maps[k].start, maps[k].size)
<1>1. a.start \in Nat /\ a.size \in Nat /\ a.size > 0
  BY AllocFacts
<1>2. maps[k] \in MapRec
  BY TableRows
<1>3. PICK st, sz \in Int : st = maps[k].start /\ sz = maps[k].size
  BY <1>2 DEF MapRec
<1>4. PICK b \in Allocs : b.start = st /\ b.size = sz
  <2>1. [start |-> st, size |-> sz] \in Allocs
    BY <1>3 DEF MappedInv
  <2> QED
    BY <2>1
<1>5. a # b
  <2>1. SUFFICES ASSUME a = b PROVE FALSE
    OBVIOUS
  <2>2. a.start = st /\ a.size = sz
    BY <1>4, <2>1
  <2>3. ~(pa >= st /\ len <= sz /\ pa - st <= sz - len)
    BY <1>3 DEF Maps!Holds
  <2> QED
    BY <1>1, <1>3, <2>2, <2>3
<1>6. a.start + a.size <= b.start \/ b.start + b.size <= a.start
  BY <1>5, MapsAssumption
<1>7. a.start + a.size <= st \/ st + sz <= a.start
  BY <1>4, <1>6
<1>8. ~(a.start < st + sz /\ st < a.start + a.size)
  BY <1>1, <1>3, <1>7
<1> QED
  BY <1>3, <1>8 DEF Maps!Overlaps

\* The entry map_get() adds.
LEMMA MapAdded ==
    ASSUME FileTypes, RowTypes, OwnInv, NoLeak, MappedInv, UNCHANGED <<drm, ion, mapion, db, zc>>,
           NEW a \in Allocs, NEW b \in Bases, NEW pa \in Int, NEW len \in Nat \ {0},
           \A k \in DOMAIN maps : ~Maps!Holds(maps[k], pa, len),
           pa \in a.start .. a.start + a.size - 1, len <= a.size - (pa - a.start),
           \A k \in DOMAIN maps : ~Maps!Overlaps(b, a.size, maps[k].base, maps[k].size),
           Maps!Opened(Maps!Dma(a)),
           maps' = Append(maps, [start |-> a.start, size |-> a.size, base |-> b, fd |-> Maps!NewFd])
    PROVE  /\ RowTypes' /\ OwnInv' /\ NoLeak' /\ MappedInv'
           /\ fdt' \in [Maps!Fds -> Files]
           /\ \A k \in DOMAIN maps : k \in DOMAIN maps' /\ maps'[k] = maps[k]
           /\ \E k \in DOMAIN maps' :
                 maps'[k].start = a.start /\ maps'[k].size = a.size /\ maps'[k].base = b
<1>1. /\ a.start \in Nat /\ a.size \in Nat /\ a.size > 0
      /\ Maps!Dma(a) \in Files /\ Maps!Dma(a).kind = "dma"
      /\ Maps!Dma(a).start = a.start /\ Maps!Dma(a).size = a.size
  BY AllocFacts
<1>2. PICK n \in Maps!Fds :
        /\ n = Maps!NewFd /\ n # 0 /\ n # -1 /\ n # drm /\ n # ion /\ n # mapion
        /\ ~DbHas(n) /\ ~ZcHas(n) /\ ~MapsHas(n)
        /\ fdt' \in [Maps!Fds -> Files] /\ fdt'[n] = Maps!Dma(a)
        /\ \A k \in Maps!Fds : k # n => fdt'[k] = fdt[k]
  BY <1>1, OpenFacts
<1> DEFINE e == [start |-> a.start, size |-> a.size, base |-> b, fd |-> n]
<1>3. b \in Nat
  BY MapsAssumption
<1>4. e \in MapRec /\ e.start = a.start /\ e.size = a.size /\ e.base = b /\ e.fd = n
  BY <1>1, <1>3 DEF MapRec
<1>5. maps' = Append(maps, e)
  BY <1>2
<1>6. Maps!Dma(e) = Maps!Dma(a)
  BY <1>4 DEF Maps!Dma
<1> HIDE DEF e
<1>7. maps \in Seq(MapRec) /\ zc \in Seq(ZcRec)
  BY DEF RowTypes
<1>8. PICK new : /\ new = Len(maps) + 1
                 /\ Append(maps, e) \in Seq(MapRec)
                 /\ DOMAIN Append(maps, e) = DOMAIN maps \cup {new}
                 /\ new \notin DOMAIN maps /\ Append(maps, e)[new] = e
                 /\ \A k \in DOMAIN maps : Append(maps, e)[k] = maps[k]
  BY <1>4, <1>7, AppendFacts
<1>9. /\ maps' \in Seq(MapRec) /\ DOMAIN maps' = DOMAIN maps \cup {new}
      /\ new \notin DOMAIN maps /\ maps'[new] = e
      /\ \A k \in DOMAIN maps : maps'[k] = maps[k]
  BY <1>5, <1>8, Zenon
<1>10. RowTypes'
  BY <1>7, <1>9 DEF RowTypes, MapRec, ZcRec, Maps!Fds
<1>11. \A k \in DOMAIN maps : maps[k].fd \in Maps!Fds /\ maps[k].fd # n
  BY <1>2, TableRows DEF MapsHas, MapRec
<1>12. OwnInv'
  <2>1. 0 \in Maps!Fds /\ drm \in FdOrNone /\ ion \in FdOrNone /\ mapion \in FdOrNone
    BY MapsAssumption DEF Maps!Fds, FileTypes
  <2>2. /\ fdt'[0].kind = "std" /\ (drm # -1 => fdt'[drm].kind = "drm")
        /\ (ion # -1 => fdt'[ion].kind = "ion") /\ (mapion # -1 => fdt'[mapion].kind = "ion")
    BY <1>2, <2>1 DEF OwnInv, FdOrNone
  <2>3. drm # -1 => \A i \in Maps!Slots : db[i].fd # -1 =>
            fdt'[db[i].fd].kind = "dumb" /\ fdt'[db[i].fd].start = i
    <3>1. \A i \in Maps!Slots : drm # -1 /\ db[i].fd # -1 => db[i].fd \in Maps!Fds /\ db[i].fd # n
      BY <1>2 DEF DbHas, FileTypes, DumbRec, FdOrNone
    <3> QED
      BY <1>2, <3>1 DEF OwnInv
  <2>4. \A k \in DOMAIN zc : fdt'[zc[k].fd].kind = "dma"
    <3>1. \A k \in DOMAIN zc : zc[k].fd \in Maps!Fds /\ zc[k].fd # n
      BY <1>2, TableRows DEF ZcHas, ZcRec
    <3> QED
      BY <1>2, <3>1 DEF OwnInv
  <2>5. \A k \in DOMAIN maps' : fdt'[maps'[k].fd] = Maps!Dma(maps'[k])
    <3>1. fdt'[maps'[new].fd] = Maps!Dma(maps'[new])
      BY <1>2, <1>4, <1>6, <1>9
    <3>2. ASSUME NEW k \in DOMAIN maps PROVE fdt'[maps'[k].fd] = Maps!Dma(maps'[k])
      <4>1. PICK m : m = maps[k]
        OBVIOUS
      <4>2. maps'[k] = m /\ fdt'[m.fd] = fdt[m.fd]
        BY <1>2, <1>9, <1>11, <4>1
      <4>3. fdt[m.fd] = Maps!Dma(m)
        BY <4>1 DEF OwnInv
      <4> QED
        BY <4>2, <4>3, Zenon
    <3> QED
      BY <1>9, <3>1, <3>2
  <2> QED
    BY <2>2, <2>3, <2>4, <2>5 DEF OwnInv, Maps!Slots, Maps!Dma
<1>13. NoLeak'
  <2>1. SUFFICES ASSUME NEW m \in Maps!Fds, fdt'[m] # Maps!Free
                 PROVE  m = 0 \/ m = drm' \/ m = ion' \/ m = mapion' \/ DbHas(m)' \/ ZcHas(m)' \/ MapsHas(m)'
    BY DEF NoLeak, Maps!Free, Maps!Fds
  <2>2. CASE m = n
    <3>1. new \in DOMAIN maps' /\ maps'[new].fd = m
      BY <1>4, <1>9, <2>2
    <3> QED
      BY <3>1 DEF MapsHas
  <2>3. CASE m # n
    <3>1. m = 0 \/ m = drm \/ m = ion \/ m = mapion \/ DbHas(m) \/ ZcHas(m) \/ MapsHas(m)
      BY <1>2, <2>1, <2>3 DEF NoLeak
    <3>2. (DbHas(m) => DbHas(m)') /\ (ZcHas(m) => ZcHas(m)')
      BY DEF DbHas, ZcHas, Maps!Slots
    <3>3. MapsHas(m) => MapsHas(m)'
      BY <1>9 DEF MapsHas
    <3> QED
      BY <3>1, <3>2, <3>3
  <2> QED
    BY <2>2, <2>3
<1>14. MappedInv'
  <2>1. ASSUME NEW k \in DOMAIN maps'
        PROVE  [start |-> maps'[k].start, size |-> maps'[k].size] \in Allocs /\ maps'[k].base \in Nat
    <3>1. CASE k \in DOMAIN maps
      BY <1>9, <3>1 DEF MappedInv
    <3>2. CASE k = new
      <4>1. maps'[k].start = a.start /\ maps'[k].size = a.size /\ maps'[k].base = b
        BY <1>4, <1>9, <3>2
      <4>2. [start |-> a.start, size |-> a.size] = a
        BY MapsAssumption
      <4> QED
        BY <1>3, <4>1, <4>2
    <3> QED
      BY <1>9, <2>1, <3>1, <3>2
  <2>2. ASSUME NEW k \in DOMAIN maps
        PROVE  /\ ~Maps!Overlaps(b, a.size, maps[k].base, maps[k].size)
               /\ ~Maps!Overlaps(maps[k].base, maps[k].size, b, a.size)
               /\ ~Maps!Overlaps(a.start, a.size, maps[k].start, maps[k].size)
               /\ ~Maps!Overlaps(maps[k].start, maps[k].size, a.start, a.size)
    <3>1. ~Maps!Overlaps(a.start, a.size, maps[k].start, maps[k].size)
      BY FreshMap
    <3> QED
      BY <3>1 DEF Maps!Overlaps
  <2>3. ASSUME NEW j \in DOMAIN maps', NEW k \in DOMAIN maps', j # k
        PROVE  /\ ~Maps!Overlaps(maps'[j].base, maps'[j].size, maps'[k].base, maps'[k].size)
               /\ ~Maps!Overlaps(maps'[j].start, maps'[j].size, maps'[k].start, maps'[k].size)
    <3>1. CASE j \in DOMAIN maps /\ k \in DOMAIN maps
      BY <1>9, <2>3, <3>1 DEF MappedInv
    <3>2. CASE j = new /\ k \in DOMAIN maps
      BY <1>4, <1>9, <2>2, <3>2
    <3>3. CASE k = new /\ j \in DOMAIN maps
      BY <1>4, <1>9, <2>2, <3>3
    <3> QED
      BY <1>9, <2>3, <3>1, <3>2, <3>3
  <2> QED
    BY <2>1, <2>3 DEF MappedInv, Maps!Overlaps
<1>15. \E k \in DOMAIN maps' :
          maps'[k].start = a.start /\ maps'[k].size = a.size /\ maps'[k].base = b
  BY <1>4, <1>9
<1> QED
  BY <1>2, <1>9, <1>10, <1>12, <1>13, <1>14, <1>15

\* map_get(): what it returns has the range it was asked for behind it, and the
\* pointers it returned before keep theirs.
LEMMA MapGetStep ==
    ASSUME FileTypes, RowTypes, OwnInv, NoLeak, MappedInv, UNCHANGED <<drm, ion, mapion, db, zc>>,
           NEW q, NEW pa \in Int, NEW len \in Nat \ {0}, Pointed(q, pa, len)
    PROVE  /\ q \in Int /\ fdt' \in [Maps!Fds -> Files]
           /\ RowTypes' /\ OwnInv' /\ NoLeak' /\ MappedInv'
           /\ q # -1 => Maps!Behind(q, pa, len)'
           /\ \A p, at, l : Maps!Behind(p, at, l) => Maps!Behind(p, at, l)'
<1>1. \A k \in DOMAIN maps : maps[k].start \in Int /\ maps[k].size \in Int /\ maps[k].base \in Int
  BY TableRows DEF MapRec
<1>2. CASE UNCHANGED <<maps, fdt>>
  <2>1. RowTypes' /\ OwnInv' /\ NoLeak' /\ MappedInv' /\ fdt' \in [Maps!Fds -> Files]
    BY <1>2, RowsKept, OwnKept, MappedKept DEF FileTypes
  <2>2. \A p, at, l : Maps!Behind(p, at, l) <=> Maps!Behind(p, at, l)'
    BY <1>2 DEF Maps!Behind
  <2>3. q = -1 \/ (q \in Int /\ Maps!Behind(q, pa, len))
    <3>1. ASSUME NEW k \in DOMAIN maps, Maps!Holds(maps[k], pa, len), q = maps[k].base + (pa - maps[k].start)
          PROVE  q \in Int /\ Maps!Behind(q, pa, len)
      <4>1. PICK st, sz, ba \in Int : st = maps[k].start /\ sz = maps[k].size /\ ba = maps[k].base
        BY <1>1
      <4>2. pa >= st /\ len <= sz /\ pa - st <= sz - len /\ q = ba + (pa - st)
        BY <3>1, <4>1 DEF Maps!Holds
      <4>3. q \in Int /\ q >= ba /\ q + len <= ba + sz /\ st + (q - ba) = pa
        BY <4>2
      <4> QED
        BY <4>1, <4>3 DEF Maps!Behind
    <3>2. Pointed(q, pa, len) /\ maps' = maps => q = -1 \/
            \E k \in DOMAIN maps : Maps!Holds(maps[k], pa, len) /\ q = maps[k].base + (pa - maps[k].start)
      <4>1. ASSUME NEW a, NEW b, maps' = Append(maps, [start |-> a.start, size |-> a.size, base |-> b, fd |-> Maps!NewFd])
            PROVE  maps' # maps
        <5>1. maps \in Seq(MapRec)
          BY DEF RowTypes
        <5>2. PICK e : maps' = Append(maps, e)
          BY <4>1
        <5> QED
          BY <5>1, <5>2
      <4> QED
        BY <4>1 DEF Pointed
    <3> QED
      BY <1>2, <3>1, <3>2
  <2> QED
    BY <2>1, <2>2, <2>3
<1>3. ASSUME NEW a \in Allocs, NEW b \in Bases,
             \A k \in DOMAIN maps : ~Maps!Holds(maps[k], pa, len),
             pa \in a.start .. a.start + a.size - 1, len <= a.size - (pa - a.start),
             \A k \in DOMAIN maps : ~Maps!Overlaps(b, a.size, maps[k].base, maps[k].size),
             Maps!Opened(Maps!Dma(a)),
             maps' = Append(maps, [start |-> a.start, size |-> a.size, base |-> b, fd |-> Maps!NewFd]),
             q = b + (pa - a.start)
      PROVE  /\ q \in Int /\ fdt' \in [Maps!Fds -> Files]
             /\ RowTypes' /\ OwnInv' /\ NoLeak' /\ MappedInv'
             /\ Maps!Behind(q, pa, len)'
             /\ \A p, at, l : Maps!Behind(p, at, l) => Maps!Behind(p, at, l)'
  <2>1. /\ RowTypes' /\ OwnInv' /\ NoLeak' /\ MappedInv'
        /\ fdt' \in [Maps!Fds -> Files]
        /\ \A k \in DOMAIN maps : k \in DOMAIN maps' /\ maps'[k] = maps[k]
        /\ \E k \in DOMAIN maps' :
              maps'[k].start = a.start /\ maps'[k].size = a.size /\ maps'[k].base = b
    BY <1>3, MapAdded
  <2>2. \A p, at, l : Maps!Behind(p, at, l) => Maps!Behind(p, at, l)'
    BY <2>1 DEF Maps!Behind
  <2>3. a.start \in Nat /\ a.size \in Nat /\ b \in Nat
    BY AllocFacts, MapsAssumption
  <2>4. q \in Int /\ q >= b /\ q + len <= b + a.size /\ a.start + (q - b) = pa
    <3>1. PICK st, sz \in Nat : st = a.start /\ sz = a.size
      BY <2>3
    <3>2. pa >= st /\ len <= sz - (pa - st) /\ q = b + (pa - st)
      BY <1>3, <2>3, <3>1
    <3>3. q \in Int /\ q >= b /\ q + len <= b + sz /\ st + (q - b) = pa
      BY <2>3, <3>2
    <3> QED
      BY <3>1, <3>3
  <2>5. Maps!Behind(q, pa, len)'
    BY <2>1, <2>4 DEF Maps!Behind
  <2> QED
    BY <2>1, <2>2, <2>4, <2>5
<1> QED
  BY <1>2, <1>3 DEF Pointed

\* map_get() for the luma.
LEMMA PointedY ==
    ASSUME Maps!MapGet(yp, frame.y, YLEN)
    PROVE  Pointed(yp', frame.y, YLEN)
  BY DEF Maps!MapGet, Pointed

\* map_get() for the chroma.
LEMMA PointedC ==
    ASSUME Maps!MapGet(cp, frame.c, CLEN)
    PROVE  Pointed(cp', frame.c, CLEN)
  BY DEF Maps!MapGet, Pointed

\* The luma's map.
LEMMA MapYStep ==
    ASSUME MapsInv, Maps!MapY
    PROVE  MapsInv'
<1> USE DEF MapsInv
<1>1. /\ mPc = "mapy" /\ mPc' = "mapc" /\ route # "zero"
      /\ UNCHANGED <<route, uncached, drm, ion, mapion, db, dumb, pres, zc, frame, cp, mShown, sync>>
  BY DEF Maps!MapY, Maps!bufs, RouteInv
<1>2. PICK q, pa : q = yp' /\ pa = frame.y
  OBVIOUS
<1>3. pa \in Int /\ Pointed(q, pa, YLEN)
  BY <1>2, PointedY DEF Maps!MapY, FileTypes
<1>4. /\ q \in Int /\ fdt' \in [Maps!Fds -> Files]
      /\ RowTypes' /\ OwnInv' /\ NoLeak' /\ MappedInv'
      /\ q # -1 => Maps!Behind(q, pa, YLEN)'
  BY <1>1, <1>3, MapGetStep, MapsAssumption
<1>5. FileTypes'
  BY <1>1, <1>2, <1>4 DEF FileTypes, Maps!Fds, Maps!Slots, FdOrNone, DumbRec, Files
<1>6. SyncInv' /\ DumbInv' /\ ZcInv'
  BY <1>1, SyncKept, DumbKept, ZcAway
<1>7. PointerInv'
  BY <1>1, <1>2, <1>4 DEF PointerInv, Maps!Behind
<1>8. RouteInv' /\ PhaseInv'
  BY <1>1 DEF RouteInv, PhaseInv, SetUp, TakeDown
<1> QED
  BY <1>4, <1>5, <1>6, <1>7, <1>8

\* The chroma's map.
LEMMA MapCStep ==
    ASSUME MapsInv, Maps!MapC
    PROVE  MapsInv'
<1> USE DEF MapsInv
<1>1. /\ mPc = "mapc" /\ route # "zero" /\ (mPc' = "unmap" \/ (mPc' = "start" /\ yp # -1 /\ cp' # -1))
      /\ UNCHANGED <<route, uncached, drm, ion, mapion, db, dumb, pres, zc, frame, yp, mShown, sync>>
  BY DEF Maps!MapC, Maps!bufs, RouteInv
<1>2. PICK q, pa : q = cp' /\ pa = frame.c
  OBVIOUS
<1>3. pa \in Int /\ Pointed(q, pa, CLEN)
  BY <1>2, PointedC DEF Maps!MapC, FileTypes
<1>4. /\ q \in Int /\ fdt' \in [Maps!Fds -> Files]
      /\ RowTypes' /\ OwnInv' /\ NoLeak' /\ MappedInv'
      /\ q # -1 => Maps!Behind(q, pa, CLEN)'
      /\ \A p, at, l : Maps!Behind(p, at, l) => Maps!Behind(p, at, l)'
  BY <1>1, <1>3, MapGetStep, MapsAssumption
<1>5. FileTypes'
  BY <1>1, <1>2, <1>4 DEF FileTypes, Maps!Fds, Maps!Slots, FdOrNone, DumbRec, Files
<1>6. SyncInv' /\ DumbInv' /\ ZcInv'
  BY <1>1, SyncKept, DumbKept, ZcAway
<1>7. PointerInv'
  <2>1. PICK p, at : p = yp /\ at = frame.y
    OBVIOUS
  <2>2. yp # -1 => Maps!Behind(p, at, YLEN)'
    BY <1>1, <1>4, <2>1 DEF PointerInv
  <2> QED
    BY <1>1, <1>2, <1>4, <2>1, <2>2 DEF PointerInv, Maps!Behind
<1>8. RouteInv' /\ PhaseInv'
  BY <1>1 DEF RouteInv, PhaseInv, SetUp, TakeDown
<1> QED
  BY <1>4, <1>5, <1>6, <1>7, <1>8

\* DMA_BUF_SYNC_START on the maps of the picture.
LEMMA SyncStartStep ==
    ASSUME MapsInv, Maps!SyncStart
    PROVE  MapsInv'
<1> USE DEF MapsInv
<1>1. /\ mPc = "start" /\ mPc' = "read"
      /\ UNCHANGED <<route, uncached, fdt, drm, ion, mapion, db, dumb, pres, zc, maps, frame, yp, cp, mShown>>
      /\ sync' = [n \in Maps!Fds |-> IF ~uncached /\ n \in Maps!Synced THEN sync[n] + 1 ELSE sync[n]]
  BY DEF Maps!SyncStart, Maps!FrameSync, Maps!bufs, Maps!files
<1>2. \A n \in Maps!Fds : sync[n] = 0
  BY <1>1 DEF SyncInv
<1>3. sync' \in [Maps!Fds -> Int]
  BY <1>1, <1>2
<1>4. FileTypes'
  BY <1>1, <1>3 DEF FileTypes, Maps!Fds, Maps!Slots, FdOrNone, DumbRec, Files
<1>5. OwnInv' /\ NoLeak' /\ DumbInv' /\ RowTypes' /\ MappedInv' /\ ZcInv'
  BY <1>1, OwnKept, DumbKept, RowsKept, MappedKept, ZcAway
<1>6. PointerInv'
  BY <1>1 DEF PointerInv, Maps!Behind
<1>7. SyncInv'
  <2>1. \A n : (~uncached /\ n \in Maps!Synced) <=> (~uncached' /\ n \in Maps!Synced')
    <3>1. uncached' = uncached /\ Maps!Synced' = Maps!Synced
      BY <1>1 DEF Maps!Synced, Maps!MapOf
    <3> QED
      BY <3>1, Zenon
  <2>2. \A n \in Maps!Fds : sync'[n] = IF ~uncached /\ n \in Maps!Synced THEN 1 ELSE 0
    BY <1>1, <1>2
  <2>3. \A n \in Maps!Fds : sync'[n] = IF ~uncached' /\ n \in Maps!Synced' THEN 1 ELSE 0
    BY <2>1, <2>2
  <2> QED
    BY <1>1, <2>3 DEF SyncInv, Maps!Fds
<1>8. RouteInv' /\ PhaseInv'
  BY <1>1 DEF RouteInv, PhaseInv, SetUp, TakeDown
<1> QED
  BY <1>4, <1>5, <1>6, <1>7, <1>8

\* DMA_BUF_SYNC_END on the same maps.
LEMMA SyncEndStep ==
    ASSUME MapsInv, Maps!SyncEnd
    PROVE  MapsInv'
<1> USE DEF MapsInv
<1>1. /\ mPc = "read" /\ mPc' = "loop" /\ frame' = Maps!NoFrame /\ yp' = -1 /\ cp' = -1
      /\ UNCHANGED <<route, uncached, fdt, drm, ion, mapion, db, dumb, pres, zc, maps, mShown>>
      /\ sync' = [n \in Maps!Fds |-> IF ~uncached /\ n \in Maps!Synced THEN sync[n] + (-1) ELSE sync[n]]
  BY DEF Maps!SyncEnd, Maps!FrameSync, Maps!bufs, Maps!files
<1>2. \A n \in Maps!Fds : sync[n] = IF ~uncached /\ n \in Maps!Synced THEN 1 ELSE 0
  BY <1>1 DEF SyncInv
<1>3. \A n \in Maps!Fds : sync'[n] = 0
  BY <1>1, <1>2
<1>4. sync' \in [Maps!Fds -> Int]
  <2>1. sync' = [n \in Maps!Fds |-> sync'[n]]
    BY <1>1
  <2> QED
    BY <1>3, <2>1
<1>5. frame' \in [y : Int, c : Int]
  BY <1>1 DEF Maps!NoFrame
<1>6. FileTypes'
  BY <1>1, <1>4, <1>5 DEF FileTypes, Maps!Fds, Maps!Slots, FdOrNone, DumbRec, Files
<1>7. OwnInv' /\ NoLeak' /\ DumbInv' /\ RowTypes' /\ MappedInv' /\ PointerInv'
  BY <1>1, OwnKept, DumbKept, RowsKept, MappedKept, PointerAway
<1>8. ZcInv'
  <2>1. DOMAIN zc' = {}
    BY <1>1 DEF RouteInv
  <2> QED
    BY <1>1, <2>1, ZcNone
<1>9. SyncInv'
  BY <1>1, <1>3 DEF SyncInv, Maps!Fds
<1>10. RouteInv' /\ PhaseInv'
  BY <1>1 DEF RouteInv, PhaseInv, SetUp, TakeDown
<1> QED
  BY <1>6, <1>7, <1>8, <1>9, <1>10

\* The entry zc_get() adds.
LEMMA ZcAdded ==
    ASSUME FileTypes, RowTypes, OwnInv, NoLeak, UNCHANGED <<drm, ion, mapion, db, maps>>,
           NEW a \in Allocs, NEW pa \in Int, NEW uv \in Int, NEW idx \in Int,
           Maps!Opened(Maps!Dma(a)),
           zc' = Append(zc, [pa |-> pa, uv |-> uv, fd |-> Maps!NewFd, idx |-> idx])
    PROVE  /\ RowTypes' /\ OwnInv' /\ NoLeak' /\ fdt' \in [Maps!Fds -> Files]
           /\ \E new : /\ new = Len(zc) + 1 /\ DOMAIN zc' = DOMAIN zc \cup {new}
                       /\ \A k \in DOMAIN zc : zc'[k] = zc[k] /\ fdt'[zc[k].fd] = fdt[zc[k].fd]
                       /\ zc'[new].pa = pa /\ zc'[new].uv = uv /\ zc'[new].idx = idx
                       /\ fdt'[zc'[new].fd] = Maps!Dma(a)
<1>1. Maps!Dma(a) \in Files /\ Maps!Dma(a).kind = "dma"
  BY AllocFacts
<1>2. PICK n \in Maps!Fds :
        /\ n = Maps!NewFd /\ n # 0 /\ n # -1 /\ n # drm /\ n # ion /\ n # mapion
        /\ ~DbHas(n) /\ ~ZcHas(n) /\ ~MapsHas(n)
        /\ fdt' \in [Maps!Fds -> Files] /\ fdt'[n] = Maps!Dma(a)
        /\ \A k \in Maps!Fds : k # n => fdt'[k] = fdt[k]
  BY <1>1, OpenFacts
<1> DEFINE e == [pa |-> pa, uv |-> uv, fd |-> n, idx |-> idx]
<1>3. e \in ZcRec /\ e.pa = pa /\ e.uv = uv /\ e.fd = n /\ e.idx = idx
  BY DEF ZcRec
<1>4. zc' = Append(zc, e)
  BY <1>2
<1> HIDE DEF e
<1>5. maps \in Seq(MapRec) /\ zc \in Seq(ZcRec)
  BY DEF RowTypes
<1>6. PICK new : /\ new = Len(zc) + 1
                 /\ Append(zc, e) \in Seq(ZcRec)
                 /\ DOMAIN Append(zc, e) = DOMAIN zc \cup {new}
                 /\ new \notin DOMAIN zc /\ Append(zc, e)[new] = e
                 /\ \A k \in DOMAIN zc : Append(zc, e)[k] = zc[k]
  BY <1>3, <1>5, AppendFacts
<1>7. /\ zc' \in Seq(ZcRec) /\ DOMAIN zc' = DOMAIN zc \cup {new}
      /\ new \notin DOMAIN zc /\ zc'[new] = e
      /\ \A k \in DOMAIN zc : zc'[k] = zc[k]
  BY <1>4, <1>6, Zenon
<1>8. RowTypes'
  BY <1>5, <1>7 DEF RowTypes, MapRec, ZcRec, Maps!Fds
<1>9. \A k \in DOMAIN zc : zc[k].fd \in Maps!Fds /\ zc[k].fd # n
  BY <1>2, TableRows DEF ZcHas, ZcRec
<1>10. \A k \in DOMAIN zc : fdt'[zc[k].fd] = fdt[zc[k].fd]
  BY <1>2, <1>9
<1>11. fdt'[zc'[new].fd] = Maps!Dma(a)
  BY <1>2, <1>3, <1>7
<1>12. OwnInv'
  <2>1. 0 \in Maps!Fds /\ drm \in FdOrNone /\ ion \in FdOrNone /\ mapion \in FdOrNone
    BY MapsAssumption DEF Maps!Fds, FileTypes
  <2>2. /\ fdt'[0].kind = "std" /\ (drm # -1 => fdt'[drm].kind = "drm")
        /\ (ion # -1 => fdt'[ion].kind = "ion") /\ (mapion # -1 => fdt'[mapion].kind = "ion")
    BY <1>2, <2>1 DEF OwnInv, FdOrNone
  <2>3. drm # -1 => \A i \in Maps!Slots : db[i].fd # -1 =>
            fdt'[db[i].fd].kind = "dumb" /\ fdt'[db[i].fd].start = i
    <3>1. \A i \in Maps!Slots : drm # -1 /\ db[i].fd # -1 => db[i].fd \in Maps!Fds /\ db[i].fd # n
      BY <1>2 DEF DbHas, FileTypes, DumbRec, FdOrNone
    <3> QED
      BY <1>2, <3>1 DEF OwnInv
  <2>4. \A k \in DOMAIN maps : fdt'[maps[k].fd] = Maps!Dma(maps[k])
    <3>1. \A k \in DOMAIN maps : maps[k].fd \in Maps!Fds /\ maps[k].fd # n
      BY <1>2, TableRows DEF MapsHas, MapRec
    <3> QED
      BY <1>2, <3>1 DEF OwnInv
  <2>5. \A k \in DOMAIN zc' : fdt'[zc'[k].fd].kind = "dma"
    <3>1. \A k \in DOMAIN zc : fdt'[zc'[k].fd].kind = "dma"
      BY <1>7, <1>10 DEF OwnInv
    <3>2. fdt'[zc'[new].fd].kind = "dma"
      BY <1>1, <1>11
    <3> QED
      BY <1>7, <3>1, <3>2
  <2> QED
    BY <2>2, <2>3, <2>4, <2>5 DEF OwnInv, Maps!Slots, Maps!Dma
<1>13. NoLeak'
  <2>1. SUFFICES ASSUME NEW m \in Maps!Fds, fdt'[m] # Maps!Free
                 PROVE  m = 0 \/ m = drm' \/ m = ion' \/ m = mapion' \/ DbHas(m)' \/ ZcHas(m)' \/ MapsHas(m)'
    BY DEF NoLeak, Maps!Free, Maps!Fds
  <2>2. CASE m = n
    <3>1. new \in DOMAIN zc' /\ zc'[new].fd = m
      BY <1>3, <1>7, <2>2
    <3> QED
      BY <3>1 DEF ZcHas
  <2>3. CASE m # n
    <3>1. m = 0 \/ m = drm \/ m = ion \/ m = mapion \/ DbHas(m) \/ ZcHas(m) \/ MapsHas(m)
      BY <1>2, <2>1, <2>3 DEF NoLeak
    <3>2. (DbHas(m) => DbHas(m)') /\ (MapsHas(m) => MapsHas(m)')
      BY DEF DbHas, MapsHas, Maps!Slots
    <3>3. ZcHas(m) => ZcHas(m)'
      BY <1>7 DEF ZcHas
    <3> QED
      BY <3>1, <3>2, <3>3
  <2> QED
    BY <2>2, <2>3
<1>14. zc'[new].pa = pa /\ zc'[new].uv = uv /\ zc'[new].idx = idx
  BY <1>3, <1>7
<1> QED
  BY <1>2, <1>6, <1>7, <1>8, <1>10, <1>11, <1>12, <1>13, <1>14

(* What zc_get() does: an entry that is there, NULL with nothing changed,   *)
(* or a new entry, of a whole allocation when it is shown.                  *)
ZcFound(y, uv) ==
    /\ UNCHANGED <<zc, fdt, pres>>
    /\ \/ mPc' = "unmap"
       \/ \E k \in DOMAIN zc : zc[k].pa = y /\ zc[k].uv = uv /\ mShown' = k /\ mPc' = "shown"

ZcMade(y, uv, a, idx) ==
    /\ Maps!Opened(Maps!Dma(a))
    /\ zc' = Append(zc, [pa |-> y, uv |-> uv, fd |-> Maps!NewFd, idx |-> idx])
    /\ UNCHANGED pres \/ Maps!AddBuffer(idx)
    /\ \/ mPc' = "unmap"
       \/ /\ idx >= 0 /\ Maps!AddBuffer(idx) /\ Maps!WholeAllocation(a, y, uv)
          /\ mShown' = Len(zc) + 1 /\ mPc' = "shown"

\* zc_get() is one of these.
LEMMA ZcGetFacts ==
    ASSUME MapsInv, Maps!ZcGet, NEW y, NEW uv, y = frame.y, uv = frame.c - frame.y
    PROVE  \/ ZcFound(y, uv)
           \/ \E a \in Allocs, idx \in Int : ZcMade(y, uv, a, idx)
<1> DEFINE mine == {k \in DOMAIN zc : zc[k].pa = y}
           null == mPc' = "unmap" /\ UNCHANGED mShown
           entry(idx) == zc' = Append(zc, [pa |-> y, uv |-> uv, fd |-> Maps!NewFd, idx |-> idx])
<1>1. CASE mine # {}
  <2>1. /\ UNCHANGED <<zc, fdt, pres>>
        /\ (\E k \in mine : zc[k].uv = uv /\ mShown' = k /\ mPc' = "shown") \/ null
    BY <1>1 DEF Maps!ZcGet
  <2> QED
    BY <2>1 DEF ZcFound
<1>2. CASE mine = {}
  <2>1. \/ null /\ UNCHANGED <<zc, fdt, pres>>
        \/ \E a \in Allocs :
             /\ Maps!Opened(Maps!Dma(a))
             /\ \/ entry(-1) /\ null /\ UNCHANGED pres
                \/ /\ Maps!WholeAllocation(a, y, uv)
                   /\ \E idx \in -1 .. MAXZC :
                        /\ Maps!AddBuffer(idx) /\ entry(idx)
                        /\ IF idx < 0 THEN null ELSE mShown' = Len(zc) + 1 /\ mPc' = "shown"
    BY <1>2 DEF Maps!ZcGet
  <2>2. CASE null /\ UNCHANGED <<zc, fdt, pres>>
    BY <2>2 DEF ZcFound
  <2>3. ASSUME NEW a \in Allocs, Maps!Opened(Maps!Dma(a)), entry(-1), null, UNCHANGED pres
        PROVE  ZcMade(y, uv, a, -1)
    BY <2>3 DEF ZcMade
  <2>4. ASSUME NEW a \in Allocs, Maps!Opened(Maps!Dma(a)), Maps!WholeAllocation(a, y, uv),
               NEW idx \in -1 .. MAXZC, Maps!AddBuffer(idx), entry(idx),
               IF idx < 0 THEN null ELSE mShown' = Len(zc) + 1 /\ mPc' = "shown"
        PROVE  ZcMade(y, uv, a, idx)
    BY <2>4, MapsAssumption DEF ZcMade
  <2>5. -1 \in Int /\ \A idx \in -1 .. MAXZC : idx \in Int
    BY MapsAssumption
  <2> HIDE DEF entry, null
  <2> QED
    BY <2>1, <2>2, <2>3, <2>4, <2>5
<1> QED
  BY <1>1, <1>2

\* zc_get().
LEMMA ZcGetStep ==
    ASSUME MapsInv, Maps!ZcGet
    PROVE  MapsInv'
<1> USE DEF MapsInv
<1>1. /\ mPc = "zcget" /\ route = "zero" /\ DOMAIN maps = {} /\ mapion = -1
      /\ UNCHANGED <<route, uncached, drm, ion, mapion, db, dumb, maps, frame, yp, cp, sync>>
  BY DEF Maps!ZcGet, RouteInv
<1>2. PICK y, c \in Int : y = frame.y /\ c = frame.c
  BY DEF FileTypes
<1>3. PICK uv \in Int : uv = c - y
  OBVIOUS
<1>4. \/ ZcFound(y, uv)
      \/ \E a \in Allocs, idx \in Int : ZcMade(y, uv, a, idx)
  BY <1>2, <1>3, ZcGetFacts
<1>5. mPc' \in {"unmap", "shown"}
  BY <1>4 DEF ZcFound, ZcMade
<1>6. MappedInv' /\ SyncInv' /\ PointerInv' /\ DumbInv'
  BY <1>1, <1>5, MappedKept, SyncKept, PointerAway, DumbKept
<1>7. RouteInv' /\ PhaseInv'
  BY <1>1, <1>5 DEF RouteInv, PhaseInv, SetUp, TakeDown
<1>8. pres \in [up : BOOLEAN, dead : BOOLEAN, nbuf : Nat] /\ pres.nbuf \in Nat
  BY DEF FileTypes
<1>9. CASE ZcFound(y, uv)
  <2>1. UNCHANGED <<zc, fdt, pres>>
    BY <1>9 DEF ZcFound
  <2>2. FileTypes' /\ OwnInv' /\ NoLeak' /\ RowTypes'
    BY <1>1, <2>1, OwnKept, RowsKept, FilesKept DEF FileTypes
  <2>3. CASE mPc' = "unmap"
    BY <1>6, <1>7, <2>2, <2>3, ZcAway
  <2>4. ASSUME NEW k \in DOMAIN zc, zc[k].pa = y, zc[k].uv = uv, mShown' = k, mPc' = "shown"
        PROVE  ZcInv'
    BY <1>1, <1>2, <1>3, <2>1, <2>4 DEF ZcInv
  <2> QED
    BY <1>6, <1>7, <1>9, <2>2, <2>3, <2>4 DEF ZcFound
<1>10. ASSUME NEW a \in Allocs, NEW idx \in Int, ZcMade(y, uv, a, idx)
       PROVE  MapsInv'
  <2>1. /\ Maps!Opened(Maps!Dma(a))
        /\ zc' = Append(zc, [pa |-> y, uv |-> uv, fd |-> Maps!NewFd, idx |-> idx])
    BY <1>10 DEF ZcMade
  <2>2. /\ RowTypes' /\ OwnInv' /\ NoLeak' /\ fdt' \in [Maps!Fds -> Files]
        /\ \E new : /\ new = Len(zc) + 1 /\ DOMAIN zc' = DOMAIN zc \cup {new}
                    /\ \A k \in DOMAIN zc : zc'[k] = zc[k] /\ fdt'[zc[k].fd] = fdt[zc[k].fd]
                    /\ zc'[new].pa = y /\ zc'[new].uv = uv /\ zc'[new].idx = idx
                    /\ fdt'[zc'[new].fd] = Maps!Dma(a)
    BY <1>1, <2>1, ZcAdded
  <2>3. pres' \in [up : BOOLEAN, dead : BOOLEAN, nbuf : Nat]
    BY <1>8, <1>10, AddBufferFacts DEF ZcMade
  <2>4. FileTypes'
    BY <1>1, <2>2, <2>3 DEF FileTypes, Maps!Fds, Maps!Slots, FdOrNone, DumbRec, Files
  <2>5. CASE mPc' = "unmap"
    BY <1>6, <1>7, <2>2, <2>4, <2>5, ZcAway
  <2>6. CASE mPc' # "unmap"
    <3>1. /\ idx >= 0 /\ Maps!AddBuffer(idx) /\ Maps!WholeAllocation(a, y, uv)
          /\ mShown' = Len(zc) + 1 /\ mPc' = "shown"
      BY <1>10, <2>6 DEF ZcMade
    <3>2. PICK new : /\ new = Len(zc) + 1 /\ DOMAIN zc' = DOMAIN zc \cup {new}
                     /\ \A k \in DOMAIN zc : zc'[k] = zc[k] /\ fdt'[zc[k].fd] = fdt[zc[k].fd]
                     /\ zc'[new].pa = y /\ zc'[new].uv = uv /\ zc'[new].idx = idx
                     /\ fdt'[zc'[new].fd] = Maps!Dma(a)
      BY <2>2
    <3>3. mShown' = new
      BY <3>1, <3>2
    <3>4. pres'.nbuf \in Nat /\ pres'.nbuf >= pres.nbuf /\ idx \in 0 .. pres'.nbuf - 1
      BY <3>1, AddBufferFacts
    <3>5. /\ fdt'[zc'[new].fd].start = y /\ uv + CLEN <= fdt'[zc'[new].fd].size
      <4>1. y = a.start /\ uv + CLEN <= a.size
        BY <3>1 DEF Maps!WholeAllocation
      <4>2. Maps!Dma(a).start = a.start /\ Maps!Dma(a).size = a.size
        BY AllocFacts
      <4> QED
        BY <3>2, <4>1, <4>2
    <3>6. ASSUME NEW k \in DOMAIN zc'
          PROVE  /\ zc'[k].idx \in 0 .. pres'.nbuf - 1
                 /\ fdt'[zc'[k].fd].start = zc'[k].pa /\ zc'[k].uv + CLEN <= fdt'[zc'[k].fd].size
      <4>1. CASE k = new
        BY <3>2, <3>4, <3>5, <4>1
      <4>2. CASE k \in DOMAIN zc
        <5>1. /\ zc[k].idx \in 0 .. pres.nbuf - 1
              /\ fdt[zc[k].fd].start = zc[k].pa /\ zc[k].uv + CLEN <= fdt[zc[k].fd].size
          BY <1>1, <4>2 DEF ZcInv
        <5>2. zc[k].idx \in 0 .. pres'.nbuf - 1
          BY <1>8, <3>4, <5>1
        <5>3. zc'[k] = zc[k] /\ fdt'[zc[k].fd] = fdt[zc[k].fd]
          BY <3>2, <4>2
        <5> QED
          BY <5>1, <5>2, <5>3
      <4> QED
        BY <3>2, <3>6, <4>1, <4>2
    <3>7. frame'.y = y /\ frame'.c - frame'.y = uv
      BY <1>1, <1>2, <1>3
    <3>8. ZcInv'
      BY <3>2, <3>3, <3>6, <3>7 DEF ZcInv
    <3> QED
      BY <1>6, <1>7, <2>2, <2>4, <3>8
  <2> QED
    BY <2>5, <2>6
<1> QED
  BY <1>4, <1>9, <1>10

\* The first states.
LEMMA MapsStart ==
    ASSUME Maps!Init
    PROVE  MapsInv
<1>1. /\ mPc = "zcopen" /\ drm = -1 /\ ion = -1 /\ mapion = -1 /\ dumb = {}
      /\ zc = <<>> /\ maps = <<>> /\ frame = Maps!NoFrame /\ yp = -1 /\ cp = -1
      /\ route \in {"shm", "dmabuf", "zero"} /\ uncached \in BOOLEAN
      /\ fdt = [n \in Maps!Fds |-> IF n = 0 THEN Maps!Is("std") ELSE Maps!Free]
      /\ db = [i \in Maps!Slots |-> [fd |-> 0, handle |-> FALSE, map |-> FALSE]]
      /\ pres = [up |-> FALSE, dead |-> FALSE, nbuf |-> 0]
      /\ sync = [n \in Maps!Fds |-> 0]
  BY DEF Maps!Init
<1>2. zc \in Seq(ZcRec) /\ maps \in Seq(MapRec) /\ DOMAIN zc = {} /\ DOMAIN maps = {}
  BY <1>1, EmptyFacts, Zenon
<1>3. 0 \in Maps!Fds /\ -1 \in FdOrNone /\ 0 \in FdOrNone
  BY MapsAssumption DEF Maps!Fds, FdOrNone
<1>4. Maps!Free \in Files
  BY DEF Maps!Free, Files, Kinds
<1>5. Maps!Is("std") \in Files /\ Maps!Is("std").kind = "std"
  BY <1>4 DEF Maps!Is, Files, Kinds
<1>6. fdt \in [Maps!Fds -> Files]
  BY <1>1, <1>4, <1>5
<1>7. db \in [Maps!Slots -> DumbRec]
  BY <1>1, <1>3 DEF DumbRec
<1>8. pres \in [up : BOOLEAN, dead : BOOLEAN, nbuf : Nat]
  BY <1>1
<1>9. frame \in [y : Int, c : Int] /\ sync \in [Maps!Fds -> Int]
  BY <1>1 DEF Maps!NoFrame
<1>10. FileTypes
  BY <1>1, <1>3, <1>6, <1>7, <1>8, <1>9 DEF FileTypes
<1>11. RowTypes
  BY <1>2 DEF RowTypes
<1>12. RouteInv /\ PhaseInv
  BY <1>1, <1>2 DEF RouteInv, PhaseInv
<1>13. DumbInv
  <2>1. 0 \in 0 .. DB_N /\ dumb = 0 .. 0 - 1
    BY <1>1, MapsAssumption
  <2>2. \A i \in Maps!Slots : i \in dumb <=> db[i].handle
    BY <1>1
  <2> QED
    BY <1>1, <2>1, <2>2 DEF DumbInv
<1>14. OwnInv
  BY <1>1, <1>2, <1>3, <1>5 DEF OwnInv
<1>15. NoLeak
  BY <1>1 DEF NoLeak
<1>16. MappedInv /\ PointerInv /\ SyncInv /\ ZcInv
  BY <1>1, <1>2 DEF MappedInv, PointerInv, SyncInv, ZcInv
<1> QED
  BY <1>10, <1>11, <1>12, <1>13, <1>14, <1>15, <1>16 DEF MapsInv

\* Every step of what coda-cube opens and maps.
LEMMA MapsStep ==
    ASSUME MapsInv, Maps!Next
    PROVE  MapsInv'
  BY ZcOpenStep, PresenterCreateStep, DbOpenStep, DbBufferStep, MapsVdOpenStep, GetFrameStep,
     MapYStep, MapCStep, SyncStartStep, SyncEndStep, ZcGetStep, ShownStep, StopStep,
     UnmapAllStep, PresenterDestroyStep, DbCloseStep, ZcCloseStep DEF Maps!Next

\* A step of another program.
LEMMA MapsStutter ==
    ASSUME MapsInv, UNCHANGED mapping
    PROVE  MapsInv'
<1>1. UNCHANGED <<route, uncached, mPc, fdt, drm, ion, mapion, db, dumb, pres, zc, maps, frame, yp, cp, mShown, sync>>
  BY DEF mapping
<1>2. FileTypes' /\ RowTypes' /\ OwnInv' /\ NoLeak' /\ MappedInv'
  BY <1>1, FilesKept, RowsKept, OwnKept, MappedKept DEF MapsInv, FileTypes
<1>3. RouteInv' /\ PhaseInv'
  BY <1>1 DEF MapsInv, RouteInv, PhaseInv, SetUp, TakeDown
<1>4. DumbInv'
  BY <1>1 DEF MapsInv, DumbInv, Maps!Slots
<1>5. PointerInv'
  BY <1>1 DEF MapsInv, PointerInv, Maps!Behind
<1>6. SyncInv'
  <2>1. uncached' = uncached /\ Maps!Synced' = Maps!Synced
    BY <1>1 DEF Maps!Synced, Maps!MapOf
  <2>2. \A n : (~uncached /\ n \in Maps!Synced) <=> (~uncached' /\ n \in Maps!Synced')
    BY <2>1, Zenon
  <2> QED
    BY <1>1, <2>2 DEF MapsInv, SyncInv, Maps!Fds
<1>7. ZcInv'
  BY <1>1 DEF MapsInv, ZcInv
<1> QED
  BY <1>2, <1>3, <1>4, <1>5, <1>6, <1>7 DEF MapsInv

\* map_of() finds, for a pointer that has its range behind it, exactly the map
\* with the range's first byte.
LEMMA MapOfFacts ==
    ASSUME RowTypes, MappedInv, NEW p \in Int, NEW pa \in Int, NEW len \in Nat \ {0},
           Maps!Behind(p, pa, len), NEW k \in DOMAIN maps
    PROVE  k \in Maps!MapOf(p) <=> pa \in maps[k].start .. maps[k].start + maps[k].size - 1
<1>1. \A m \in DOMAIN maps : maps[m].start \in Int /\ maps[m].size \in Int /\ maps[m].base \in Int
  BY TableRows DEF MapRec
<1>2. PICK j \in DOMAIN maps : /\ p >= maps[j].base /\ p + len <= maps[j].base + maps[j].size
                               /\ maps[j].start + (p - maps[j].base) = pa
  BY DEF Maps!Behind
<1>3. PICK st, sz, ba \in Int : st = maps[j].start /\ sz = maps[j].size /\ ba = maps[j].base
  BY <1>1
<1>4. PICK st2, sz2, ba2 \in Int : st2 = maps[k].start /\ sz2 = maps[k].size /\ ba2 = maps[k].base
  BY <1>1
<1>5. p >= ba /\ p + len <= ba + sz /\ st + (p - ba) = pa
  BY <1>2, <1>3
<1>6. p >= ba /\ p < ba + sz /\ pa >= st /\ pa <= st + sz - 1
  BY <1>5
<1>7. k = j => st2 = st /\ sz2 = sz /\ ba2 = ba
  BY <1>3, <1>4
<1>8. k # j => ~(ba < ba2 + sz2 /\ ba2 < ba + sz) /\ ~(st < st2 + sz2 /\ st2 < st + sz)
  BY <1>3, <1>4 DEF MappedInv, Maps!Overlaps
<1>9. (p >= ba2 /\ p < ba2 + sz2) <=> (pa >= st2 /\ pa <= st2 + sz2 - 1)
  <2>1. CASE k = j
    BY <1>6, <1>7, <2>1
  <2>2. CASE k # j
    BY <1>6, <1>8, <2>2
  <2> QED
    BY <2>1, <2>2
<1>10. k \in Maps!MapOf(p) <=> (p >= ba2 /\ p < ba2 + sz2)
  BY <1>4 DEF Maps!MapOf
<1>11. pa \in maps[k].start .. maps[k].start + maps[k].size - 1 <=> (pa >= st2 /\ pa <= st2 + sz2 - 1)
  BY <1>4
<1> QED
  BY <1>9, <1>10, <1>11

\* What the invariant gives.
LEMMA MapsSafe ==
    ASSUME MapsInv
    PROVE  MapsRight
<1> USE DEF MapsInv
<1>1. Maps!FdsOwned
  <2>1. mPc = "done" => (\A n \in Maps!Fds \ {0} : fdt[n] = Maps!Free) /\ dumb = {} /\ ~pres.up
    <3>1. SUFFICES ASSUME mPc = "done"
                   PROVE  (\A n \in Maps!Fds \ {0} : fdt[n] = Maps!Free) /\ dumb = {} /\ ~pres.up
      OBVIOUS
    <3>2. drm = -1 /\ ion = -1 /\ mapion = -1 /\ DOMAIN zc = {} /\ DOMAIN maps = {} /\ ~pres.up
      BY <3>1 DEF PhaseInv, TakeDown
    <3>3. dumb = {}
      BY <3>2 DEF DumbInv
    <3>4. \A n \in Maps!Fds : n # -1 /\ ~DbHas(n) /\ ~ZcHas(n) /\ ~MapsHas(n)
      BY <3>2, MapsAssumption DEF Maps!Fds, DbHas, ZcHas, MapsHas
    <3>5. \A n \in Maps!Fds \ {0} : fdt[n] = Maps!Free
      BY <3>2, <3>4 DEF NoLeak
    <3> QED
      BY <3>2, <3>3, <3>5
  <2> QED
    BY <2>1 DEF Maps!FdsOwned, OwnInv
<1>2. Maps!ReadsBracketed
  <2>1. mPc \in {"start", "read"} => Maps!Behind(yp, frame.y, YLEN) /\ Maps!Behind(cp, frame.c, CLEN)
    BY DEF PointerInv
  <2> DEFINE In(n) == \E k \in DOMAIN maps : maps[k].fd = n
                        /\ \E pa \in {frame.y, frame.c} :
                              pa \in maps[k].start .. maps[k].start + maps[k].size - 1
  <2>2. ASSUME NEW n \in Maps!Fds, mPc = "read"
        PROVE  n \in Maps!Synced <=> In(n)
    <3>1. yp \in Int /\ cp \in Int /\ frame.y \in Int /\ frame.c \in Int
      BY DEF FileTypes
    <3>2. \A k \in DOMAIN maps :
             k \in Maps!MapOf(yp) <=> frame.y \in maps[k].start .. maps[k].start + maps[k].size - 1
      BY <2>1, <2>2, <3>1, MapOfFacts, MapsAssumption
    <3>3. \A k \in DOMAIN maps :
             k \in Maps!MapOf(cp) <=> frame.c \in maps[k].start .. maps[k].start + maps[k].size - 1
      BY <2>1, <2>2, <3>1, MapOfFacts, MapsAssumption
    <3>4. Maps!MapOf(yp) \subseteq DOMAIN maps /\ Maps!MapOf(cp) \subseteq DOMAIN maps
      BY DEF Maps!MapOf
    <3>5. n \in Maps!Synced <=>
            \E k \in DOMAIN maps : maps[k].fd = n /\ (k \in Maps!MapOf(yp) \/ k \in Maps!MapOf(cp))
      BY <3>4 DEF Maps!Synced
    <3>6. In(n) <=> \E k \in DOMAIN maps : maps[k].fd = n
                       /\ (\/ frame.y \in maps[k].start .. maps[k].start + maps[k].size - 1
                           \/ frame.c \in maps[k].start .. maps[k].start + maps[k].size - 1)
      BY Zenon
    <3> HIDE DEF In
    <3> QED
      BY <3>2, <3>3, <3>5, <3>6
  <2> HIDE DEF In
  <2>3. ASSUME NEW n \in Maps!Fds
        PROVE  sync[n] = IF mPc = "read" /\ ~uncached /\ In(n) THEN 1 ELSE 0
    <3>1. CASE mPc # "read"
      BY <3>1 DEF SyncInv
    <3>2. CASE mPc = "read"
      <4>1. sync[n] = IF ~uncached /\ n \in Maps!Synced THEN 1 ELSE 0
        BY <3>2 DEF SyncInv
      <4> QED
        BY <2>2, <3>2, <4>1
    <3> QED
      BY <3>1, <3>2
  <2> QED
    BY <2>1, <2>3 DEF Maps!ReadsBracketed, In
<1>3. Maps!ShownIsFrame
  <2>1. SUFFICES ASSUME mPc = "shown"
                 PROVE  LET z == zc[mShown] a == fdt[z.fd]
                        IN /\ z.idx \in 0 .. pres.nbuf - 1
                           /\ a.start = frame.y /\ a.start + z.uv = frame.c
                           /\ frame.c + CLEN <= a.start + a.size
    BY DEF Maps!ShownIsFrame
  <2>2. /\ mShown \in DOMAIN zc /\ zc[mShown].pa = frame.y /\ zc[mShown].uv = frame.c - frame.y
        /\ zc[mShown].idx \in 0 .. pres.nbuf - 1
        /\ fdt[zc[mShown].fd].start = zc[mShown].pa /\ zc[mShown].uv + CLEN <= fdt[zc[mShown].fd].size
    BY <2>1 DEF ZcInv
  <2>3. PICK z : z = zc[mShown]
    OBVIOUS
  <2>4. z.fd \in Maps!Fds
    BY <2>2, <2>3, TableRows DEF ZcRec
  <2>5. PICK y, c, sz \in Int : y = frame.y /\ c = frame.c /\ sz = fdt[z.fd].size
    BY <2>4 DEF FileTypes, Files
  <2>6. z.uv = c - y /\ fdt[z.fd].start = y /\ z.uv + CLEN <= sz
    BY <2>2, <2>3, <2>5
  <2>7. y + z.uv = c /\ c + CLEN <= y + sz
    BY <2>6, MapsAssumption
  <2> QED
    BY <2>2, <2>3, <2>5, <2>6, <2>7
<1> QED
  BY <1>1, <1>2, <1>3 DEF MapsRight

\* For any allocations that share no byte, any sizes of the planes, any number
\* of dumb buffers and any descriptor table: coda-cube reads a frame through its
\* own memory and inside its SYNC brackets, what sway imports for a zero-copy
\* frame is that frame, and descriptors are closed once and only coda-cube's
\* own, whichever step of the set-up failed (coda-cube.c's map_get(),
\* frame_sync(), zc_get(), db_open(), db_close(), unmap_all(), zc_close()).
THEOREM MapsRightThm == MCSpec => []MapsRight
<1>1. MCInit => MapsInv
  BY MapsStart DEF MCInit
<1>2. MapsInv /\ [MCNext]_all => MapsInv'
  <2>1. SUFFICES ASSUME MapsInv, [MCNext]_all PROVE MapsInv'
    OBVIOUS
  <2>2. CASE Maps!Next
    BY <2>1, <2>2, MapsStep
  <2>3. CASE UNCHANGED mapping
    BY <2>1, <2>3, MapsStutter
  <2> QED
    BY <2>1, <2>2, <2>3, Zenon DEF MCNext, all
<1>3. MapsInv => MapsRight
  BY MapsSafe
<1> QED
  BY <1>1, <1>2, <1>3, PTL DEF MCSpec
=============================================================================
