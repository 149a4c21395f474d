-------------------------- MODULE CodaCubeProofs --------------------------
(***************************************************************************)
(* coda-cube's frame buffers, for any number of them and of dumb buffers,  *)
(* one to three access units a frame and any length of a run: whoever      *)
(* holds a buffer holds it alone, and no picture is shown after a newer    *)
(* one. Then the stream it writes and its NAL units: a decoder can read    *)
(* them whatever wraps.                                                    *)
(*                                                                         *)
(* The invariant says where the two threads are (LoopInv), who holds each  *)
(* buffer that the decoder has handed out (HoldInv), which buffers sway    *)
(* reads and which it has given back (SwayInv), and which access-unit      *)
(* buffer is being sent (SendInv). OrderInv adds which pictures are still  *)
(* in line and how many of them may be older than the one shown.           *)
(* StreamInv gives the numbers of the last reference as functions of the   *)
(* frame and the short-term references as a window behind it; NalInv says  *)
(* what part of the payload the unit holds and how many zeros end it.      *)
(***************************************************************************)
EXTENDS MCCoda, FiniteSetTheorems, SequenceTheorems, TLAPS

Paging == {"page", "pageget", "pagedrain"}
Busy   == {"rel", "send", "get", "get200", "drain"}
Over   == {"exit", "closed", "done"}

\* A queue holds no buffer twice.
Once(q) == \A i, j \in 1 .. Len(q) : q[i] = q[j] => i = j

\* The buffers of the pictures that wait for GET_FRAME, each of them once.
Waiting(q)  == {q[i].b : i \in 1 .. Len(q)}
OnceEach(q) == \A i, j \in 1 .. Len(q) : q[i].b = q[j].b => i = j

-----------------------------------------------------------------------------
\* Where the main thread and the thread of the decoder's ioctls are.
LoopInv ==
    /\ pc = "setup" <=> dpc \in Paging
    /\ dpc \in Busy =>
         IF pipeline THEN pc \in {"top", "wait", "pace", "present", "poll", "dispatch", "exit"}
         ELSE pc = "wait"
    /\ dpc # "rel" => job.rel = <<>>
    /\ dpc = "drain" => fi.b \in Bufs
    /\ dpc = "idle" /\ ok => fi.b \in Bufs
    /\ mok => mfi.b \in Bufs
    /\ pc \in {"setup", "start"} => ~ok /\ ~mok
    /\ pc \in {"take", "dbget"} \/ (pc = "submit" /\ pipeline) => mfi = fi /\ mok = ok
    /\ pc = "dbget" => mok /\ route = "dmabuf"
    /\ dry >= DRY_LIMIT => pc \in Over

\* Who holds buffer b.
OneHolder(b) ==
    LET J == b \in ToSet(job.rel)
        R == b \in ToSet(rel)
        F == b \in Fetched
        T == b \in Taken
    IN  /\ buf[b] = "out" <=> J \/ R \/ zbusy[b] \/ F \/ T
        /\ J => ~R /\ ~zbusy[b] /\ ~F /\ ~T
        /\ R => ~zbusy[b] /\ ~F /\ ~T
        /\ zbusy[b] => ~F /\ ~T
        /\ F => ~T
        /\ buf[b] = "queued" <=> b \in Waiting(outq)

HoldInv ==
    /\ Once(job.rel) /\ Once(rel) /\ OnceEach(outq)
    /\ \A b \in Bufs : OneHolder(b)

\* What the presenter has marked as held by sway.
Held(x) == \/ route = "zero" /\ x \in Bufs /\ zbusy[x]
           \/ route = "dmabuf" /\ x \in Slots /\ dbusy[x]

\* sway reads two buffers at most, has them from the presenter, and has not
\* released them; a release that is on its way is of a buffer still marked.
SwayInv ==
    /\ route # "zero" => \A b \in Bufs : ~zbusy[b]
    /\ scan # None => Held(scan) /\ scan \notin sock \cup privq
    /\ pend # None => Held(pend) /\ pend \notin sock \cup privq
    /\ scan # None => scan # pend
    /\ \A x \in sock \cup privq : x # FrameDone => Held(x)
    /\ \A x \in sock \cap privq : x = FrameDone
    /\ slot # None => route = "dmabuf" /\ pc \in {"submit", "pace", "present", "poll", "dispatch"}
    /\ slot # None /\ pc \in {"submit", "pace", "present"} => ~dbusy[slot]

\* What the worker sends stays in the buffer that the generator does not write.
SendInv ==
    /\ dpc \in Busy => job.au = cur /\ aubuf[cur] = job.pts
    /\ pc = "start" => fnum = 0
    /\ pipeline /\ pc \in {"top", "wait", "take", "dbget", "submit"} =>
         aubuf[1 - cur] = Pic(fnum + 1)

CubeInv == TypeOK /\ LoopInv /\ HoldInv /\ SwayInv /\ SendInv

-----------------------------------------------------------------------------
(* Lemmas about the queues.                                                *)

\* An empty queue holds nothing, and nothing twice.
LEMMA EmptyQueue ==
  /\ ToSet(<<>>) = {} /\ Once(<<>>) /\ Waiting(<<>>) = {} /\ OnceEach(<<>>)
  BY DEF ToSet, Once, Waiting, OnceEach

\* A queue that is not empty is its head and its tail.
LEMMA HeadTail ==
  ASSUME NEW S, NEW q \in Seq(S), q # <<>>
  PROVE  /\ Head(q) \in S /\ Tail(q) \in Seq(S) /\ Len(q) \in Nat /\ Len(q) > 0
         /\ Len(Tail(q)) = Len(q) - 1 /\ Head(q) = q[1]
         /\ \A i \in 1 .. Len(q) - 1 : Tail(q)[i] = q[i + 1]
  OBVIOUS

\* What a release queue holds, by position.
LEMMA QueueSet ==
  ASSUME NEW q \in Seq(Bufs)
  PROVE  ToSet(q) = {q[i] : i \in 1 .. Len(q)}
  BY DEF ToSet

\* Taking the first buffer off a release queue.
LEMMA QueueHead ==
  ASSUME NEW q \in Seq(Bufs), q # <<>>
  PROVE  /\ Head(q) \in Bufs /\ Tail(q) \in Seq(Bufs)
         /\ ToSet(q) = {Head(q)} \cup ToSet(Tail(q))
         /\ Once(q) => Head(q) \notin ToSet(Tail(q)) /\ Once(Tail(q))
<1>1. /\ Head(q) \in Bufs /\ Tail(q) \in Seq(Bufs) /\ Len(q) \in Nat /\ Len(q) > 0
      /\ Len(Tail(q)) = Len(q) - 1 /\ Head(q) = q[1]
      /\ \A i \in 1 .. Len(q) - 1 : Tail(q)[i] = q[i + 1]
  BY HeadTail
<1>2. /\ ToSet(q) = {q[i] : i \in 1 .. Len(q)}
      /\ ToSet(Tail(q)) = {Tail(q)[i] : i \in 1 .. Len(q) - 1}
  BY <1>1, QueueSet
<1>3. ASSUME NEW x \in ToSet(q) PROVE x \in {Head(q)} \cup ToSet(Tail(q))
  <2>1. PICK i \in 1 .. Len(q) : x = q[i]
    BY <1>2, <1>3
  <2>2. CASE i = 1
    BY <2>1, <2>2, <1>1
  <2>3. CASE i # 1
    <3>1. i - 1 \in 1 .. Len(q) - 1 /\ Tail(q)[i - 1] = q[i]
      BY <2>3, <1>1
    <3> QED
      BY <3>1, <2>1, <1>2
  <2> QED
    BY <2>2, <2>3
<1>4. ASSUME NEW x \in ToSet(Tail(q)) PROVE \E i \in 2 .. Len(q) : x = q[i]
  <2>1. PICK i \in 1 .. Len(q) - 1 : x = Tail(q)[i]
    BY <1>2
  <2> QED
    BY <2>1, <1>1
<1>5. ToSet(q) = {Head(q)} \cup ToSet(Tail(q))
  <2>1. Head(q) \in ToSet(q)
    BY <1>1, <1>2
  <2>2. \A x \in ToSet(Tail(q)) : x \in ToSet(q)
    BY <1>1, <1>2, <1>4
  <2> QED
    BY <2>1, <2>2, <1>3
<1>6. ASSUME Once(q) PROVE Head(q) \notin ToSet(Tail(q)) /\ Once(Tail(q))
  BY <1>1, <1>4, <1>6 DEF Once
<1> QED
  BY <1>1, <1>5, <1>6

\* Putting a buffer at the end of a release queue.
LEMMA QueueAppend ==
  ASSUME NEW q \in Seq(Bufs), NEW x \in Bufs
  PROVE  /\ Append(q, x) \in Seq(Bufs) /\ ToSet(Append(q, x)) = ToSet(q) \cup {x}
         /\ Once(q) /\ x \notin ToSet(q) => Once(Append(q, x))
<1>1. /\ Append(q, x) \in Seq(Bufs) /\ Len(Append(q, x)) = Len(q) + 1 /\ Len(q) \in Nat
      /\ \A i \in 1 .. Len(q) : Append(q, x)[i] = q[i]
      /\ Append(q, x)[Len(q) + 1] = x
  OBVIOUS
<1>2. /\ ToSet(q) = {q[i] : i \in 1 .. Len(q)}
      /\ ToSet(Append(q, x)) = {Append(q, x)[i] : i \in 1 .. Len(q) + 1}
  BY <1>1 DEF ToSet
<1>3. ToSet(Append(q, x)) = ToSet(q) \cup {x}
  BY <1>1, <1>2
<1>4. ASSUME Once(q), x \notin ToSet(q) PROVE Once(Append(q, x))
  BY <1>1, <1>2, <1>4 DEF Once
<1> QED
  BY <1>1, <1>3, <1>4

\* GET_FRAME takes the first picture that waits.
LEMMA PictureHead ==
  ASSUME NEW q \in Seq([b : Bufs, pts : Nat]), q # <<>>
  PROVE  /\ Head(q) \in [b : Bufs, pts : Nat] /\ Tail(q) \in Seq([b : Bufs, pts : Nat])
         /\ Waiting(q) = {Head(q).b} \cup Waiting(Tail(q))
         /\ OnceEach(q) => Head(q).b \notin Waiting(Tail(q)) /\ OnceEach(Tail(q))
<1>1. /\ Head(q) \in [b : Bufs, pts : Nat] /\ Tail(q) \in Seq([b : Bufs, pts : Nat])
      /\ Len(q) \in Nat /\ Len(q) > 0
      /\ Len(Tail(q)) = Len(q) - 1 /\ Head(q) = q[1]
      /\ \A i \in 1 .. Len(q) - 1 : Tail(q)[i] = q[i + 1]
  <2>1. PICK S : S = [b : Bufs, pts : Nat]
    OBVIOUS
  <2>2. q \in Seq(S)
    BY <2>1
  <2>3. /\ Head(q) \in S /\ Tail(q) \in Seq(S) /\ Len(q) \in Nat /\ Len(q) > 0
        /\ Len(Tail(q)) = Len(q) - 1 /\ Head(q) = q[1]
        /\ \A i \in 1 .. Len(q) - 1 : Tail(q)[i] = q[i + 1]
    BY <2>2, HeadTail
  <2> QED
    BY <2>1, <2>3
<1>2. /\ Waiting(q) = {q[i].b : i \in 1 .. Len(q)}
      /\ Waiting(Tail(q)) = {Tail(q)[i].b : i \in 1 .. Len(q) - 1}
  BY <1>1 DEF Waiting
<1>3. ASSUME NEW x \in Waiting(q) PROVE x \in {Head(q).b} \cup Waiting(Tail(q))
  <2>1. PICK i \in 1 .. Len(q) : x = q[i].b
    BY <1>2, <1>3
  <2>2. CASE i = 1
    BY <2>1, <2>2, <1>1
  <2>3. CASE i # 1
    <3>1. i - 1 \in 1 .. Len(q) - 1 /\ Tail(q)[i - 1] = q[i]
      BY <2>3, <1>1
    <3> QED
      BY <3>1, <2>1, <1>2
  <2> QED
    BY <2>2, <2>3
<1>4. ASSUME NEW x \in Waiting(Tail(q)) PROVE \E i \in 2 .. Len(q) : x = q[i].b
  <2>1. PICK i \in 1 .. Len(q) - 1 : x = Tail(q)[i].b
    BY <1>2
  <2> QED
    BY <2>1, <1>1
<1>5. Waiting(q) = {Head(q).b} \cup Waiting(Tail(q))
  <2>1. Head(q).b \in Waiting(q)
    BY <1>1, <1>2
  <2>2. \A x \in Waiting(Tail(q)) : x \in Waiting(q)
    BY <1>1, <1>2, <1>4
  <2> QED
    BY <2>1, <2>2, <1>3
<1>6. ASSUME OnceEach(q) PROVE Head(q).b \notin Waiting(Tail(q)) /\ OnceEach(Tail(q))
  BY <1>1, <1>4, <1>6 DEF OnceEach
<1> QED
  BY <1>1, <1>5, <1>6

\* The decoder queues a picture of a buffer that has none waiting.
LEMMA PictureAppend ==
  ASSUME NEW q \in Seq([b : Bufs, pts : Nat]), NEW x \in [b : Bufs, pts : Nat]
  PROVE  /\ Append(q, x) \in Seq([b : Bufs, pts : Nat])
         /\ Waiting(Append(q, x)) = Waiting(q) \cup {x.b}
         /\ OnceEach(q) /\ x.b \notin Waiting(q) => OnceEach(Append(q, x))
<1>1. /\ Append(q, x) \in Seq([b : Bufs, pts : Nat])
      /\ Len(Append(q, x)) = Len(q) + 1 /\ Len(q) \in Nat
      /\ \A i \in 1 .. Len(q) : Append(q, x)[i] = q[i]
      /\ Append(q, x)[Len(q) + 1] = x
  OBVIOUS
<1>2. /\ Waiting(q) = {q[i].b : i \in 1 .. Len(q)}
      /\ Waiting(Append(q, x)) = {Append(q, x)[i].b : i \in 1 .. Len(q) + 1}
  BY <1>1 DEF Waiting
<1>3. Waiting(Append(q, x)) = Waiting(q) \cup {x.b}
  BY <1>1, <1>2
<1>4. ASSUME OnceEach(q), x.b \notin Waiting(q) PROVE OnceEach(Append(q, x))
  <2>1. \A i \in 1 .. Len(q) : q[i].b # x.b
    BY <1>2, <1>4
  <2>2. \A i \in 1 .. Len(q) + 1 :
          IF i = Len(q) + 1 THEN Append(q, x)[i].b = x.b ELSE Append(q, x)[i].b = q[i].b
    BY <1>1
  <2>3. \A i, j \in 1 .. Len(q) : q[i].b = q[j].b => i = j
    BY <1>4 DEF OnceEach
  <2>4. \A i, j \in 1 .. Len(q) + 1 : Append(q, x)[i].b = Append(q, x)[j].b => i = j
    BY SMTT(30), <1>1, <2>1, <2>2, <2>3
  <2> QED
    BY <1>1, <2>4 DEF OnceEach
<1> QED
  BY <1>1, <1>3, <1>4

\* A queue without repetition is as long as its set is large.
LEMMA QueueCount ==
  ASSUME NEW q \in Seq(Bufs), Once(q)
  PROVE  IsFiniteSet(ToSet(q)) /\ Cardinality(ToSet(q)) = Len(q)
<1>1. Len(q) \in Nat /\ ToSet(q) = {q[i] : i \in 1 .. Len(q)} /\ q \in [1 .. Len(q) -> Bufs]
  BY DEF ToSet
<1>2. q \in Bijection(1 .. Len(q), ToSet(q))
  BY <1>1 DEF Once, Bijection, Injection, Surjection, IsInjective
<1>3. ExistsBijection(1 .. Len(q), ToSet(q))
  BY <1>2 DEF ExistsBijection
<1> QED
  BY <1>1, <1>3, FS_CountingElements, FS_NatBijection

\* A set in some order.
LEMMA SetAsQueue ==
  ASSUME NEW S, S \subseteq Bufs, IsFiniteSet(S)
  PROVE  /\ SetToSeq(S) \in Seq(Bufs) /\ Len(SetToSeq(S)) = Cardinality(S)
         /\ ToSet(SetToSeq(S)) = S /\ Once(SetToSeq(S))
<1>1. Cardinality(S) \in Nat
  BY FS_CardinalityType
<1>2. PICK f \in Bijection(1 .. Cardinality(S), S) : TRUE
  BY FS_CardinalityType DEF ExistsBijection
<1>3. f \in [1 .. Cardinality(S) -> S] /\ IsInjective(f)
  BY <1>2 DEF Bijection, Injection, IsInjective
<1>4. PICK g : g = SetToSeq(S) /\ g \in [1 .. Cardinality(S) -> S] /\ IsInjective(g)
  BY <1>3 DEF SetToSeq
<1>5. g \in Seq(Bufs) /\ Len(g) = Cardinality(S) /\ Once(g)
  BY <1>1, <1>4 DEF IsInjective, Once
<1>6. g \in Injection(1 .. Cardinality(S), S) /\ IsFiniteSet(1 .. Cardinality(S))
      /\ Cardinality(1 .. Cardinality(S)) = Cardinality(S)
  BY <1>1, <1>4, FS_Interval DEF Injection, IsInjective
<1>7. g \in Surjection(1 .. Cardinality(S), S)
  BY <1>6, FS_Injection
<1>8. ToSet(g) = S
  BY <1>4, <1>7 DEF ToSet, Surjection
<1> QED
  BY <1>4, <1>5, <1>8

\* Two release queues that share no buffer, one after the other.
LEMMA QueueConcat ==
  ASSUME NEW q \in Seq(Bufs), NEW r \in Seq(Bufs)
  PROVE  /\ q \o r \in Seq(Bufs) /\ Len(q \o r) = Len(q) + Len(r)
         /\ ToSet(q \o r) = ToSet(q) \cup ToSet(r)
         /\ Once(q) /\ Once(r) /\ ToSet(q) \cap ToSet(r) = {} => Once(q \o r)
<1>1. /\ q \o r \in Seq(Bufs) /\ Len(q \o r) = Len(q) + Len(r)
      /\ Len(q) \in Nat /\ Len(r) \in Nat
      /\ \A i \in 1 .. Len(q) : (q \o r)[i] = q[i]
      /\ \A i \in 1 .. Len(r) : (q \o r)[Len(q) + i] = r[i]
  OBVIOUS
<1>2. /\ ToSet(q) = {q[i] : i \in 1 .. Len(q)} /\ ToSet(r) = {r[i] : i \in 1 .. Len(r)}
      /\ ToSet(q \o r) = {(q \o r)[i] : i \in 1 .. Len(q) + Len(r)}
  BY <1>1 DEF ToSet
<1>3. ASSUME NEW i \in 1 .. Len(q) + Len(r)
      PROVE  \/ i \in 1 .. Len(q) /\ (q \o r)[i] = q[i]
             \/ /\ i - Len(q) \in 1 .. Len(r) /\ i \notin 1 .. Len(q)
                /\ (q \o r)[i] = r[i - Len(q)]
  BY <1>1
<1>4. ToSet(q \o r) = ToSet(q) \cup ToSet(r)
  <2>1. \A x \in ToSet(q \o r) : x \in ToSet(q) \cup ToSet(r)
    BY <1>2, <1>3
  <2>2. \A x \in ToSet(q) : x \in ToSet(q \o r)
    BY <1>1, <1>2
  <2>3. ASSUME NEW x \in ToSet(r) PROVE x \in ToSet(q \o r)
    <3>1. PICK i \in 1 .. Len(r) : x = r[i]
      BY <1>2
    <3>2. Len(q) + i \in 1 .. Len(q) + Len(r) /\ x = (q \o r)[Len(q) + i]
      BY <1>1, <3>1
    <3> QED
      BY <1>2, <3>2
  <2> QED
    BY <2>1, <2>2, <2>3
<1>5. ASSUME Once(q), Once(r), ToSet(q) \cap ToSet(r) = {} PROVE Once(q \o r)
  <2>1. SUFFICES ASSUME NEW i \in 1 .. Len(q) + Len(r), NEW j \in 1 .. Len(q) + Len(r),
                        (q \o r)[i] = (q \o r)[j]
                 PROVE  i = j
    BY <1>1 DEF Once
  <2>2. \A a \in 1 .. Len(q), c \in 1 .. Len(r) : q[a] # r[c]
    BY <1>2, <1>5
  <2> QED
    BY <1>1, <1>3, <1>5, <2>1, <2>2 DEF Once
<1> QED
  BY <1>1, <1>4, <1>5

-----------------------------------------------------------------------------
(* What a step keeps when it leaves a part's variables alone.              *)

\* Nobody's buffer changes hands.
LEMMA HoldSame ==
  ASSUME HoldInv, UNCHANGED <<buf, outq, rel, zbusy>>, job'.rel = job.rel,
         Fetched' = Fetched, Taken' = Taken
  PROVE  HoldInv'
  BY DEF HoldInv, OneHolder

\* The presenter and sway know what they knew.
LEMMA SwaySame ==
  ASSUME SwayInv, UNCHANGED <<route, zbusy, dbusy, scan, pend, sock, privq, slot>>,
         slot # None => pc' \in {"submit", "pace", "present", "poll", "dispatch"},
         slot # None /\ pc' \in {"submit", "pace", "present"} => pc \in {"submit", "pace", "present"}
  PROVE  SwayInv'
  BY DEF SwayInv, Held

\* The access unit that is being sent is left alone.
LEMMA SendSame ==
  ASSUME SendInv, UNCHANGED <<pipeline, fnum, cur, aubuf>>,
         job'.au = job.au, job'.pts = job.pts, dpc' \in Busy => dpc \in Busy,
         pc' = pc \/ pc' \notin {"start", "top", "wait", "take", "dbget", "submit"}
  PROVE  SendInv'
  BY DEF SendInv

\* What a thread that is in one of the main loop's places knows of the other.
LEMMA Places ==
  ASSUME CubeInv
  PROVE  /\ pc # "setup" /\ dpc \notin Busy => dpc = "idle"
         /\ pc \in {"start", "take", "dbget", "submit", "closed", "done"} => dpc = "idle"
         /\ pc # "wait" /\ ~pipeline /\ pc # "setup" => dpc = "idle"
         /\ dpc # "rel" => job.rel = <<>> /\ ToSet(job.rel) = {}
  BY EmptyQueue DEF CubeInv, TypeOK, LoopInv, Paging, Busy

\* Whose the fetched picture is, by the place of the decoding thread.
LEMMA FetchedIs ==
  /\ dpc = "drain" => Fetched = {fi.b}
  /\ dpc \notin {"drain", "idle"} => Fetched = {}
  /\ ~ok /\ dpc # "drain" => Fetched = {}
  /\ dpc = "idle" /\ ok /\ pipeline =>
       Fetched = IF pc \in {"setup", "start", "closed", "done"} THEN {} ELSE {fi.b}
  /\ dpc = "idle" /\ ok /\ ~pipeline =>
       Fetched = IF pc \in {"wait", "take", "dbget"} THEN {fi.b} ELSE {}
  BY DEF Fetched

\* The same after a step.
LEMMA FetchedIsNext ==
  /\ dpc' = "drain" => Fetched' = {fi'.b}
  /\ dpc' \notin {"drain", "idle"} => Fetched' = {}
  /\ ~ok' /\ dpc' # "drain" => Fetched' = {}
  /\ dpc' = "idle" /\ ok' /\ pipeline' =>
       Fetched' = IF pc' \in {"setup", "start", "closed", "done"} THEN {} ELSE {fi'.b}
  /\ dpc' = "idle" /\ ok' /\ ~pipeline' =>
       Fetched' = IF pc' \in {"wait", "take", "dbget"} THEN {fi'.b} ELSE {}
  BY DEF Fetched

\* A step of the main thread that does not take the fetched picture.
LEMMA FetchedSame ==
  ASSUME UNCHANGED <<dpc, ok, fi, pipeline>>,
         pipeline => (pc \in {"setup", "start", "closed", "done"} <=> pc' \in {"setup", "start", "closed", "done"}),
         ~pipeline => (pc \in {"wait", "take", "dbget"} <=> pc' \in {"wait", "take", "dbget"})
  PROVE  Fetched' = Fetched
  BY DEF Fetched

\* Before the set-up every buffer is free.
LEMMA InitInv == Init => CubeInv
<1> SUFFICES ASSUME Init PROVE CubeInv
  OBVIOUS
<1>1. TypeOK
  <2>1. <<>> \in Seq(Nat) /\ Len(<<>>) = 0 /\ <<>> \in Seq([b : Bufs, pts : Nat]) /\ <<>> \in Seq(Bufs)
    OBVIOUS
  <2>2. /\ NoPic \in [b : Bufs \cup {None}, pts : Nat] /\ 1 \in 1 .. NAU /\ 0 \in Slots
        /\ 0 <= MaxInFlight /\ 0 \in 0 .. DRY_LIMIT
    BY CodaAssumption DEF NoPic, Slots
  <2>3. [au |-> 0, pts |-> 0, rel |-> <<>>] \in [au : {0, 1}, pts : Nat, rel : Seq(Bufs)]
    BY <2>1
  <2>4. /\ buf \in [Bufs -> {"free", "queued", "out"}] /\ zbusy \in [Bufs -> BOOLEAN]
        /\ dbusy \in [Slots -> BOOLEAN] /\ aubuf \in [{0, 1} -> Nat]
    BY DEF Init
  <2> QED
    BY <2>1, <2>2, <2>3, <2>4 DEF Init, TypeOK, Shareable
<1>2. LoopInv
  BY CodaAssumption DEF Init, LoopInv, Paging, Busy, Over
<1>3. HoldInv
  <2>1. Fetched = {} /\ Taken = {}
    BY DEF Init, Fetched, Taken
  <2>2. /\ ToSet(job.rel) = {} /\ ToSet(rel) = {} /\ Waiting(outq) = {}
        /\ Once(job.rel) /\ Once(rel) /\ OnceEach(outq)
    BY EmptyQueue DEF Init
  <2>3. \A b \in Bufs : buf[b] = "free" /\ ~zbusy[b]
    BY DEF Init
  <2> QED
    BY <2>1, <2>2, <2>3 DEF HoldInv, OneHolder
<1>4. SwayInv
  BY DEF Init, SwayInv
<1>5. SendInv
  BY DEF Init, SendInv, Busy
<1> QED
  BY <1>1, <1>2, <1>3, <1>4, <1>5 DEF CubeInv

-----------------------------------------------------------------------------
(* The decoder and its ioctls.                                             *)

\* The decoder takes a free buffer only, and queues it once.
LEMMA VdecDecodeInv ==
  ASSUME CubeInv, VdecDecode PROVE CubeInv'
<1> USE DEF opts, agent, mainV, held, swayV, conn
<1>1. PICK b \in Free :
        /\ buf' = [buf EXCEPT ![b] = "queued"]
        /\ outq' = Append(outq, [b |-> b, pts |-> Head(inflight)])
  BY DEF VdecDecode
<1>2. /\ inflight \in Seq(Nat) /\ inflight # <<>> /\ inflight' = Tail(inflight)
      /\ outq \in Seq([b : Bufs, pts : Nat]) /\ buf \in [Bufs -> {"free", "queued", "out"}]
      /\ Len(inflight) <= MaxInFlight
  BY DEF CubeInv, TypeOK, VdecDecode
<1>3. Head(inflight) \in Nat /\ Tail(inflight) \in Seq(Nat) /\ Len(Tail(inflight)) <= MaxInFlight
  BY <1>2, CodaAssumption
<1>4. b \in Bufs /\ buf[b] = "free"
  BY DEF Free
<1>5. PICK x : x = [b |-> b, pts |-> Head(inflight)]
  OBVIOUS
<1>6. x \in [b : Bufs, pts : Nat] /\ x.b = b
  BY <1>3, <1>4, <1>5
<1>7. /\ outq' \in Seq([b : Bufs, pts : Nat])
      /\ Waiting(outq') = Waiting(outq) \cup {b}
      /\ OnceEach(outq) /\ b \notin Waiting(outq) => OnceEach(outq')
  BY <1>1, <1>2, <1>5, <1>6, PictureAppend
<1>8. TypeOK'
  <2>1. buf' \in [Bufs -> {"free", "queued", "out"}]
    BY <1>1, <1>2
  <2>2. inflight' \in Seq(Nat) /\ Len(inflight') <= MaxInFlight
    BY <1>2, <1>3
  <2>3. UNCHANGED <<opts, agent, mainV, rel, held, swayV, conn, stop, last>>
    BY DEF VdecDecode
  <2> QED
    BY SMTT(30), <1>7, <2>1, <2>2, <2>3 DEF CubeInv, TypeOK
<1>9. LoopInv'
  BY DEF CubeInv, LoopInv, VdecDecode
<1>10. HoldInv'
  <2>1. Fetched' = Fetched /\ Taken' = Taken
    BY DEF VdecDecode, Fetched, Taken
  <2>2. \A c \in Bufs : buf'[c] = IF c = b THEN "queued" ELSE buf[c]
    BY <1>1, <1>2
  <2>3. b \notin Waiting(outq)
    BY <1>4 DEF CubeInv, HoldInv, OneHolder
  <2>4. UNCHANGED <<job, rel, zbusy>>
    BY DEF VdecDecode
  <2> QED
    BY <1>4, <1>7, <2>1, <2>2, <2>3, <2>4 DEF CubeInv, HoldInv, OneHolder
<1>11. SwayInv'
  BY SwaySame DEF CubeInv, SwayInv, VdecDecode
<1>12. SendInv'
  BY SendSame DEF CubeInv, VdecDecode
<1> QED
  BY <1>8, <1>9, <1>10, <1>11, <1>12 DEF CubeInv

\* The decoding thread's steps leave the rest alone.
AgentOnly == UNCHANGED <<opts, mainV, rel, held, swayV, conn, stop, last>>

\* The decoding thread does not touch what the presenter shares with sway.
LEMMA AgentSway ==
  ASSUME CubeInv, AgentOnly PROVE SwayInv' /\ Taken' = Taken /\ UNCHANGED <<rel, zbusy, pc, pipeline>>
<1> USE DEF opts, mainV, held, swayV, conn
<1>1. SwayInv'
  BY SwaySame DEF CubeInv, SwayInv, AgentOnly
<1> QED
  BY <1>1 DEF AgentOnly, Taken

\* RELEASE_FRAME gives back what the job carries, which nobody else holds.
LEMMA DecodeReleaseInv ==
  ASSUME CubeInv, DecodeRelease, AgentOnly PROVE CubeInv'
<1> USE DEF opts, mainV, held, swayV, conn
<1>0. /\ SwayInv' /\ Taken' = Taken /\ UNCHANGED <<rel, zbusy, pc, pipeline>>
  BY AgentSway
<1>1. /\ dpc = "rel" /\ UNCHANGED <<fi, ok, inflight, outq>> /\ Fetched = {}
      /\ job \in [au : {0, 1}, pts : Nat, rel : Seq(Bufs)] /\ job.rel \in Seq(Bufs)
      /\ buf \in [Bufs -> {"free", "queued", "out"}]
  BY FetchedIs DEF DecodeRelease, CubeInv, TypeOK
<1>2. CASE job.rel # <<>>
  <2>1. /\ buf' = Released({Head(job.rel)}) /\ job' = [job EXCEPT !.rel = Tail(@)]
        /\ UNCHANGED <<dpc, au>>
    BY <1>2 DEF DecodeRelease
  <2>2. /\ Head(job.rel) \in Bufs /\ Tail(job.rel) \in Seq(Bufs)
        /\ ToSet(job.rel) = {Head(job.rel)} \cup ToSet(Tail(job.rel))
        /\ Once(job.rel) => Head(job.rel) \notin ToSet(Tail(job.rel)) /\ Once(Tail(job.rel))
    BY <1>1, <1>2, QueueHead
  <2>3. /\ job'.rel = Tail(job.rel) /\ job'.au = job.au /\ job'.pts = job.pts
        /\ job' \in [au : {0, 1}, pts : Nat, rel : Seq(Bufs)]
    BY <1>1, <2>1, <2>2
  <2>4. TypeOK'
    <3>1. buf' \in [Bufs -> {"free", "queued", "out"}]
      BY <1>1, <2>1 DEF Released
    <3>2. UNCHANGED <<dpc, au, fi, ok, inflight, outq>>
      BY <1>1, <2>1
    <3> QED
      BY <2>3, <3>1, <3>2 DEF CubeInv, TypeOK, AgentOnly
  <2>5. LoopInv'
    BY <1>1, <2>1 DEF CubeInv, LoopInv, AgentOnly
  <2>6. HoldInv'
    <3>1. Fetched' = {}
      BY <1>1, <2>1, FetchedIsNext
    <3>2. \A c \in Bufs : buf'[c] = IF c = Head(job.rel) THEN "free" ELSE buf[c]
      BY <2>1 DEF Released
    <3>3. PICK h, t : h = Head(job.rel) /\ t = Tail(job.rel)
      OBVIOUS
    <3>4. /\ ToSet(job.rel) = {h} \cup ToSet(t) /\ h \notin ToSet(t) /\ Once(t)
          /\ \A c \in Bufs : buf'[c] = IF c = h THEN "free" ELSE buf[c]
      BY <2>2, <3>2, <3>3 DEF CubeInv, HoldInv
    <3>5. job'.rel = t
      BY <2>3, <3>3
    <3>6. ASSUME NEW c \in Bufs PROVE OneHolder(c)'
      BY <1>0, <1>1, <3>1, <3>4, <3>5 DEF CubeInv, HoldInv, OneHolder
    <3> QED
      BY <1>0, <1>1, <3>4, <3>5, <3>6 DEF CubeInv, HoldInv
  <2>7. SendInv'
    BY SendSame, <2>1, <2>3 DEF CubeInv, AgentOnly
  <2> QED
    BY <1>0, <2>4, <2>5, <2>6, <2>7 DEF CubeInv
<1>3. CASE job.rel = <<>>
  <2>1. dpc' = "send" /\ au' = 1 /\ UNCHANGED <<buf, job>>
    BY <1>3 DEF DecodeRelease
  <2>2. TypeOK'
    BY <1>1, <2>1, CodaAssumption DEF CubeInv, TypeOK, AgentOnly
  <2>3. LoopInv'
    BY <1>1, <1>3, <2>1 DEF CubeInv, LoopInv, AgentOnly, Busy, Paging
  <2>4. HoldInv'
    BY HoldSame, FetchedIsNext, <1>0, <1>1, <2>1 DEF CubeInv
  <2>5. SendInv'
    BY SendSame, <1>1, <2>1 DEF CubeInv, AgentOnly, Busy
  <2> QED
    BY <1>0, <2>2, <2>3, <2>4, <2>5 DEF CubeInv
<1> QED
  BY <1>2, <1>3

\* SEND_STREAM reads the access unit of the job.
LEMMA DecodeSendInv ==
  ASSUME CubeInv, DecodeSend, AgentOnly PROVE CubeInv'
<1> USE DEF opts, mainV, held, swayV, conn
<1>0. /\ SwayInv' /\ Taken' = Taken /\ UNCHANGED <<rel, zbusy, pc, pipeline>>
  BY AgentSway
<1>1. /\ dpc = "send" /\ UNCHANGED <<au, job, fi, buf, outq>> /\ Fetched = {}
      /\ dpc' \in {"get", "idle"} /\ (dpc' = "get" => ok' = ok) /\ (dpc' = "idle" => ~ok')
      /\ job.pts \in Nat /\ ok' \in BOOLEAN
  BY FetchedIs DEF DecodeSend, CubeInv, TypeOK
<1>2. inflight' \in Seq(Nat) /\ Len(inflight') <= MaxInFlight
  <2>1. inflight \in Seq(Nat) /\ Len(inflight) <= MaxInFlight
    BY DEF CubeInv, TypeOK
  <2>2. inflight' = inflight \/ (Len(inflight) < MaxInFlight /\ inflight' = Append(inflight, job.pts))
    BY DEF DecodeSend
  <2>3. CASE Len(inflight) < MaxInFlight /\ inflight' = Append(inflight, job.pts)
    <3>1. inflight' \in Seq(Nat) /\ Len(inflight') = Len(inflight) + 1 /\ Len(inflight) \in Nat
      BY <1>1, <2>1, <2>3
    <3> QED
      BY <2>3, <3>1, CodaAssumption
  <2> QED
    BY <2>1, <2>2, <2>3
<1>3. TypeOK'
  BY <1>1, <1>2 DEF CubeInv, TypeOK, AgentOnly
<1>4. LoopInv'
  BY <1>1 DEF CubeInv, LoopInv, AgentOnly, Busy, Paging
<1>5. HoldInv'
  <2>1. Fetched' = {}
    BY <1>1, FetchedIsNext
  <2> QED
    BY HoldSame, <1>0, <1>1, <2>1 DEF CubeInv
<1>6. SendInv'
  BY SendSame, <1>1 DEF CubeInv, AgentOnly, Busy
<1> QED
  BY <1>0, <1>3, <1>4, <1>5, <1>6 DEF CubeInv

\* GET_FRAME hands out the oldest picture that waits; what is released with
\* it is free.
HandsOut(h, S) ==
    /\ h \in Bufs /\ h \in Waiting(outq) /\ buf[h] = "queued"
    /\ Head(outq) \in [b : Bufs, pts : Nat]
    /\ Tail(outq) \in Seq([b : Bufs, pts : Nat]) /\ OnceEach(Tail(outq))
    /\ \A c \in Bufs : c \in Waiting(Tail(outq)) <=> c \in Waiting(outq) /\ c # h
    /\ Handed(S) \in [Bufs -> {"free", "queued", "out"}]
    /\ \A c \in Bufs : Handed(S)[c] = IF c = h THEN "out" ELSE IF c \in S THEN "free" ELSE buf[c]

\* GET_FRAME makes the head of the queue the caller's, and what is dropped
\* before it free.
LEMMA HandedOut ==
  ASSUME CubeInv, outq # <<>>, NEW S, NEW h, h = Head(outq).b
  PROVE  HandsOut(h, S)
<1>1. outq \in Seq([b : Bufs, pts : Nat]) /\ buf \in [Bufs -> {"free", "queued", "out"}]
  BY DEF CubeInv, TypeOK
<1>2. /\ Head(outq) \in [b : Bufs, pts : Nat] /\ Tail(outq) \in Seq([b : Bufs, pts : Nat])
      /\ Waiting(outq) = {Head(outq).b} \cup Waiting(Tail(outq))
      /\ OnceEach(outq) => Head(outq).b \notin Waiting(Tail(outq)) /\ OnceEach(Tail(outq))
  BY <1>1, PictureHead
<1>4. /\ h \in Bufs /\ Waiting(outq) = {h} \cup Waiting(Tail(outq))
      /\ h \notin Waiting(Tail(outq)) /\ OnceEach(Tail(outq))
  BY <1>2 DEF CubeInv, HoldInv
<1>5. buf[h] = "queued"
  BY <1>4 DEF CubeInv, HoldInv, OneHolder
<1>6. Handed(S) = [c \in Bufs |-> IF c = h THEN "out" ELSE IF c \in S THEN "free" ELSE buf[c]]
  BY DEF Handed
<1>7. /\ Handed(S) \in [Bufs -> {"free", "queued", "out"}]
      /\ \A c \in Bufs : Handed(S)[c] = IF c = h THEN "out" ELSE IF c \in S THEN "free" ELSE buf[c]
  BY <1>1, <1>6
<1> QED
  BY <1>2, <1>4, <1>5, <1>7 DEF HandsOut

\* RELEASE_FRAME of some buffers: those are free, the others as they were.
LEMMA ReleasedIs ==
  ASSUME CubeInv, NEW S
  PROVE  /\ Released(S) \in [Bufs -> {"free", "queued", "out"}]
         /\ \A c \in Bufs : Released(S)[c] = IF c \in S THEN "free" ELSE buf[c]
  BY DEF CubeInv, TypeOK, Released

\* GET_FRAME in vd_decode(), with its two waits.
LEMMA DecodeGetInv ==
  ASSUME CubeInv, DecodeGet, AgentOnly PROVE CubeInv'
<1> USE DEF opts, mainV, held, swayV, conn
<1>0. /\ SwayInv' /\ Taken' = Taken /\ UNCHANGED <<rel, zbusy, pc, pipeline>>
  BY AgentSway
<1>1. /\ dpc \in {"get", "get200"} /\ UNCHANGED <<au, job, inflight>> /\ Fetched = {}
      /\ dpc' \in Busy \cup {"idle"} /\ (dpc' = "idle" => ~ok') /\ ok' \in BOOLEAN
      /\ dpc' \in {"drain", "get200", "idle"}
  BY FetchedIs DEF DecodeGet, CubeInv, TypeOK, Busy
<1>2. SendInv'
  BY SendSame, <1>1 DEF CubeInv, AgentOnly, Busy
<1>3. CASE outq # <<>>
  <2>1. /\ fi' = Head(outq) /\ outq' = Tail(outq) /\ buf' = Handed({})
        /\ dpc' = "drain" /\ UNCHANGED ok
    BY <1>3 DEF DecodeGet
  <2>a. PICK h, S : h = Head(outq).b /\ S = {}
    OBVIOUS
  <2>2. HandsOut(h, S)
    BY <1>3, <2>a, HandedOut
  <2>3. TypeOK'
    <3>1. /\ fi' \in [b : Bufs \cup {None}, pts : Nat] /\ buf' \in [Bufs -> {"free", "queued", "out"}]
          /\ outq' \in Seq([b : Bufs, pts : Nat]) /\ dpc' = "drain" /\ UNCHANGED <<ok, au, job, inflight>>
      BY <1>1, <2>1, <2>a, <2>2 DEF HandsOut
    <3> QED
      BY <3>1 DEF CubeInv, TypeOK, AgentOnly
  <2>4. LoopInv'
    BY <1>1, <2>1, <2>a, <2>2 DEF HandsOut, CubeInv, LoopInv, AgentOnly, Busy, Paging
  <2>5. HoldInv'
    <3>1. Fetched' = {h}
      BY <2>1, <2>a, <2>2, FetchedIsNext DEF HandsOut
    <3>2. /\ OnceEach(outq') /\ \A c \in Bufs : c \in Waiting(outq') <=> c \in Waiting(outq) /\ c # h
          /\ \A c \in Bufs : buf'[c] = IF c = h THEN "out" ELSE buf[c]
      BY <2>1, <2>a, <2>2 DEF HandsOut
    <3>3. ASSUME NEW c \in Bufs PROVE OneHolder(c)'
      BY <1>0, <1>1, <2>2, <3>1, <3>2 DEF HandsOut, CubeInv, HoldInv, OneHolder
    <3> QED
      BY <1>0, <1>1, <3>2, <3>3 DEF CubeInv, HoldInv
  <2> QED
    BY <1>0, <1>2, <2>3, <2>4, <2>5 DEF CubeInv
<1>4. CASE outq = <<>>
  <2>1. /\ fi' = NoPic /\ UNCHANGED <<buf, outq>> /\ dpc' \in {"get200", "idle"}
        /\ (dpc' # "idle" => ok' = ok)
    BY <1>4 DEF DecodeGet
  <2>2. TypeOK'
    <3>1. fi' \in [b : Bufs \cup {None}, pts : Nat]
      BY <2>1 DEF NoPic
    <3> QED
      BY <1>1, <2>1, <3>1 DEF CubeInv, TypeOK, AgentOnly
  <2>3. LoopInv'
    BY <1>1, <2>1 DEF CubeInv, LoopInv, AgentOnly, Busy, Paging
  <2>4. HoldInv'
    <3>1. Fetched' = {}
      BY <1>1, <2>1, FetchedIsNext
    <3> QED
      BY HoldSame, <1>0, <1>1, <2>1, <3>1 DEF CubeInv
  <2> QED
    BY <1>0, <1>2, <2>2, <2>3, <2>4 DEF CubeInv
<1> QED
  BY <1>3, <1>4

\* The loop that drops late pictures gives back each that it replaces.
LEMMA DecodeDrainInv ==
  ASSUME CubeInv, DecodeDrain, AgentOnly PROVE CubeInv'
<1> USE DEF opts, mainV, held, swayV, conn
<1>0. /\ SwayInv' /\ Taken' = Taken /\ UNCHANGED <<rel, zbusy, pc, pipeline>>
  BY AgentSway
<1>1. /\ dpc = "drain" /\ UNCHANGED <<job, inflight>> /\ Fetched = {fi.b} /\ fi.b \in Bufs
      /\ dpc' \in {"drain", "send", "idle"} /\ fi \in [b : Bufs \cup {None}, pts : Nat]
      /\ buf \in [Bufs -> {"free", "queued", "out"}]
  BY FetchedIs DEF DecodeDrain, CubeInv, TypeOK, LoopInv
<1>2. SendInv'
  BY SendSame, <1>1 DEF CubeInv, AgentOnly, Busy
<1>3. CASE outq # <<>>
  <2>1. /\ fi' = Head(outq) /\ outq' = Tail(outq) /\ buf' = Handed({fi.b})
        /\ UNCHANGED <<dpc, au, ok>>
    BY <1>3 DEF DecodeDrain
  <2>2. PICK h, S : h = Head(outq).b /\ S = {fi.b}
    OBVIOUS
  <2>3. HandsOut(h, S)
    BY <1>3, <2>2, HandedOut
  <2>4. TypeOK'
    <3>1. /\ fi' \in [b : Bufs \cup {None}, pts : Nat] /\ buf' \in [Bufs -> {"free", "queued", "out"}]
          /\ outq' \in Seq([b : Bufs, pts : Nat]) /\ UNCHANGED <<dpc, ok, au, job, inflight>>
      BY <1>1, <2>1, <2>2, <2>3 DEF HandsOut
    <3> QED
      BY <3>1 DEF CubeInv, TypeOK, AgentOnly
  <2>5. LoopInv'
    BY <1>1, <2>1, <2>2, <2>3 DEF HandsOut, CubeInv, LoopInv, AgentOnly, Busy, Paging
  <2>6. HoldInv'
    <3>1. Fetched' = {h}
      BY <1>1, <2>1, <2>2, <2>3, FetchedIsNext DEF HandsOut
    <3>2. /\ OnceEach(outq') /\ \A c \in Bufs : c \in Waiting(outq') <=> c \in Waiting(outq) /\ c # h
          /\ \A c \in Bufs : buf'[c] = IF c = h THEN "out" ELSE IF c = fi.b THEN "free" ELSE buf[c]
      BY <2>1, <2>2, <2>3 DEF HandsOut
    <3>3. ASSUME NEW c \in Bufs PROVE OneHolder(c)'
      BY <1>0, <1>1, <2>3, <3>1, <3>2 DEF HandsOut, CubeInv, HoldInv, OneHolder
    <3> QED
      BY <1>0, <1>1, <3>2, <3>3 DEF CubeInv, HoldInv
  <2> QED
    BY <1>0, <1>2, <2>4, <2>5, <2>6 DEF CubeInv
<1>4. CASE outq = <<>> /\ au < NAU
  <2>1. /\ buf' = Released({fi.b}) /\ au' = au + 1 /\ dpc' = "send" /\ UNCHANGED <<fi, ok, outq>>
    BY <1>4, CodaAssumption DEF DecodeDrain, CubeInv, TypeOK
  <2>2. PICK S : S = {fi.b}
    OBVIOUS
  <2>3. /\ buf' \in [Bufs -> {"free", "queued", "out"}]
        /\ \A c \in Bufs : buf'[c] = IF c = fi.b THEN "free" ELSE buf[c]
    BY <2>1, <2>2, ReleasedIs
  <2>4. TypeOK'
    <3>1. au' \in 1 .. NAU
      BY <1>4, <2>1, CodaAssumption DEF CubeInv, TypeOK
    <3>2. dpc' = "send" /\ UNCHANGED <<fi, ok, outq, job, inflight>>
      BY <1>1, <2>1
    <3> QED
      BY <2>3, <3>1, <3>2 DEF CubeInv, TypeOK, AgentOnly
  <2>5. LoopInv'
    BY <1>1, <2>1 DEF CubeInv, LoopInv, AgentOnly, Busy, Paging
  <2>6. HoldInv'
    <3>1. Fetched' = {}
      BY <2>1, FetchedIsNext
    <3>3. ASSUME NEW c \in Bufs PROVE OneHolder(c)'
      BY <1>0, <1>1, <2>1, <2>3, <3>1 DEF CubeInv, HoldInv, OneHolder
    <3> QED
      BY <1>0, <1>1, <2>1, <3>3 DEF CubeInv, HoldInv
  <2> QED
    BY <1>0, <1>2, <2>4, <2>5, <2>6 DEF CubeInv
<1>5. CASE outq = <<>> /\ ~(au < NAU)
  <2>1. /\ ok' = TRUE /\ dpc' = "idle" /\ UNCHANGED <<fi, au, buf, outq>>
    BY <1>5 DEF DecodeDrain
  <2>2. TypeOK'
    BY <1>1, <2>1 DEF CubeInv, TypeOK, AgentOnly
  <2>3. LoopInv'
    BY <1>1, <2>1 DEF CubeInv, LoopInv, AgentOnly, Busy, Paging
  <2>4. HoldInv'
    <3>1. IF pipeline THEN pc \in {"top", "wait", "pace", "present", "poll", "dispatch", "exit"}
          ELSE pc = "wait"
      BY <1>1 DEF CubeInv, LoopInv, Busy
    <3>2. Fetched' = {fi.b}
      BY <1>0, <2>1, <3>1, FetchedIsNext
    <3> QED
      BY HoldSame, <1>0, <1>1, <2>1, <3>2 DEF CubeInv
  <2> QED
    BY <1>0, <1>2, <2>2, <2>3, <2>4 DEF CubeInv
<1> QED
  BY <1>3, <1>4, <1>5

\* A step of vd_decode(), in whichever thread it runs.
LEMMA DecodeInv ==
  ASSUME CubeInv, Decode PROVE CubeInv'
<1>1. AgentOnly /\ (DecodeRelease \/ DecodeSend \/ DecodeGet \/ DecodeDrain)
  BY DEF Decode, AgentOnly
<1> QED
  BY <1>1, DecodeReleaseInv, DecodeSendInv, DecodeGetInv, DecodeDrainInv

-----------------------------------------------------------------------------
(* The main thread: the setup and the top of the loop.                     *)

\* The set-up sends a page's access unit.
LEMMA SetupSendInv ==
  ASSUME CubeInv, SetupSend PROVE CubeInv'
<1> USE DEF opts, held, swayV, conn
<1>1. /\ pc = "setup" /\ dpc = "page" /\ ~ok /\ ~mok /\ fnum \in Nat
      /\ dpc' \in {"idle", "pageget"} /\ (IF dpc' = "idle" THEN pc' = "start" /\ fnum' = 0 ELSE pc' = pc)
      /\ fnum' \in Nat
  <2>1. pc = "setup" /\ dpc = "page" /\ ~ok /\ ~mok /\ fnum \in Nat
    BY DEF SetupSend, CubeInv, TypeOK, LoopInv
  <2> QED
    BY <2>1 DEF SetupSend
<1>2. UNCHANGED <<opts, buf, outq, au, job, fi, ok, cur, aubuf, mfi, mok, slot, dry, rel, held, swayV, conn, stop, last>>
  BY DEF SetupSend
<1>3. inflight' \in Seq(Nat) /\ Len(inflight') <= MaxInFlight
  <2>1. inflight \in Seq(Nat) /\ Len(inflight) <= MaxInFlight
    BY DEF CubeInv, TypeOK
  <2>2. inflight' = inflight \/ (Len(inflight) < MaxInFlight /\ inflight' = Append(inflight, fnum + 1))
    BY DEF SetupSend
  <2>3. CASE Len(inflight) < MaxInFlight /\ inflight' = Append(inflight, fnum + 1)
    <3>1. fnum + 1 \in Nat
      BY <1>1
    <3>2. inflight' \in Seq(Nat) /\ Len(inflight') = Len(inflight) + 1 /\ Len(inflight) \in Nat
      BY <2>1, <2>3, <3>1
    <3> QED
      BY <2>3, <3>2, CodaAssumption
  <2> QED
    BY <2>1, <2>2, <2>3
<1>4. TypeOK'
  BY <1>1, <1>2, <1>3 DEF CubeInv, TypeOK
<1>5. LoopInv'
  BY <1>1, <1>2 DEF CubeInv, LoopInv, Paging, Busy, Over
<1>6. HoldInv'
  <2>1. Fetched = {} /\ Fetched' = {} /\ Taken = {} /\ Taken' = {}
    BY <1>1, <1>2, FetchedIs, FetchedIsNext DEF Taken
  <2> QED
    BY HoldSame, <1>2, <2>1 DEF CubeInv
<1>7. SwayInv'
  BY SwaySame, <1>1, <1>2 DEF CubeInv, SwayInv
<1>8. SendInv'
  BY <1>1, <1>2 DEF CubeInv, SendInv, Busy
<1> QED
  BY <1>4, <1>5, <1>6, <1>7, <1>8 DEF CubeInv

\* The set-up fetches the page's picture, drops it and releases it.
LEMMA SetupGetInv ==
  ASSUME CubeInv, SetupGet PROVE CubeInv'
<1> USE DEF opts, held, mainV, swayV, conn
<1>1. /\ pc = "setup" /\ dpc \in Paging /\ ~ok /\ ~mok /\ dpc' \in {"page", "pagedrain"}
  BY DEF SetupGet, CubeInv, LoopInv, Paging
<1>2. UNCHANGED <<opts, inflight, au, job, fi, ok, mainV, rel, held, swayV, conn, stop, last>>
  BY DEF SetupGet
<1>3. Fetched = {} /\ Fetched' = {} /\ Taken = {} /\ Taken' = {}
  BY <1>1, <1>2, FetchedIs, FetchedIsNext DEF Taken, Paging
<1>4. LoopInv'
  BY <1>1, <1>2 DEF CubeInv, LoopInv, Paging, Busy
<1>5. SwayInv'
  BY SwaySame, <1>1, <1>2 DEF CubeInv, SwayInv
<1>6. SendInv'
  BY SendSame, <1>1, <1>2 DEF CubeInv, Busy, Paging
<1>7. CASE outq # <<>>
  <2>1. buf' = Released({Head(outq).b}) /\ outq' = Tail(outq)
    BY <1>7 DEF SetupGet
  <2>2. PICK h, S : h = Head(outq).b /\ S = {Head(outq).b}
    OBVIOUS
  <2>3. HandsOut(h, S)
    BY <1>7, <2>2, HandedOut
  <2>4. /\ buf' \in [Bufs -> {"free", "queued", "out"}]
        /\ \A c \in Bufs : buf'[c] = IF c = h THEN "free" ELSE buf[c]
    BY <2>1, <2>2, ReleasedIs
  <2>5. TypeOK'
    <3>1. outq' \in Seq([b : Bufs, pts : Nat])
      BY <2>1, <2>3 DEF HandsOut
    <3> QED
      BY <1>1, <1>2, <2>4, <3>1 DEF CubeInv, TypeOK
  <2>6. HoldInv'
    <3>1. /\ OnceEach(outq') /\ \A c \in Bufs : c \in Waiting(outq') <=> c \in Waiting(outq) /\ c # h
          /\ h \in Bufs /\ buf[h] = "queued"
      BY <2>1, <2>3 DEF HandsOut
    <3>2. ASSUME NEW c \in Bufs PROVE OneHolder(c)'
      BY <1>2, <1>3, <2>4, <3>1 DEF CubeInv, HoldInv, OneHolder
    <3> QED
      BY <1>2, <3>1, <3>2 DEF CubeInv, HoldInv
  <2> QED
    BY <1>4, <1>5, <1>6, <2>5, <2>6 DEF CubeInv
<1>8. CASE outq = <<>>
  <2>1. UNCHANGED <<buf, outq>>
    BY <1>8 DEF SetupGet
  <2>2. TypeOK'
    BY <1>1, <1>2, <2>1 DEF CubeInv, TypeOK
  <2>3. HoldInv'
    BY HoldSame, <1>2, <1>3, <2>1 DEF CubeInv
  <2> QED
    BY <1>4, <1>5, <1>6, <2>2, <2>3 DEF CubeInv
<1> QED
  BY <1>7, <1>8

\* The releases queued so far become the job's.
LEMMA SubmitHold ==
  ASSUME CubeInv, dpc = "idle", NEW B, NEW n, Submit(B, n, rel), UNCHANGED <<buf, outq, zbusy>>,
         Fetched = {}, Taken' = Taken
  PROVE  HoldInv'
<1>1. job'.rel = rel /\ rel' = <<>> /\ dpc' = "rel"
  BY DEF Submit
<1>2. ToSet(job.rel) = {} /\ ToSet(rel') = {} /\ Once(rel')
  BY <1>1, EmptyQueue, Places
<1>3. Fetched' = {}
  BY <1>1, FetchedIsNext
<1>4. ASSUME NEW c \in Bufs PROVE OneHolder(c)'
  BY <1>1, <1>2, <1>3 DEF CubeInv, HoldInv, OneHolder
<1> QED
  BY <1>1, <1>2, <1>4 DEF CubeInv, HoldInv

\* The frame loop begins; with --pipeline the worker gets its first job.
LEMMA StartInv ==
  ASSUME CubeInv, Start PROVE CubeInv'
<1> USE DEF opts, held, vdec, swayV, conn
<1>1. /\ pc = "start" /\ pc' = "top" /\ dpc = "idle" /\ ~ok /\ ~mok /\ fnum = 0 /\ cur \in {0, 1}
      /\ aubuf \in [{0, 1} -> Nat] /\ rel \in Seq(Bufs)
  BY Places DEF Start, CubeInv, TypeOK, LoopInv, SendInv
<1>2. UNCHANGED <<opts, vdec, fnum, cur, mfi, mok, slot, dry, held, swayV, conn, stop, last>>
  BY DEF Start
<1>3. Fetched = {} /\ Taken = {} /\ Taken' = {}
  BY <1>1, <1>2, FetchedIs DEF Taken
<1>4. SwayInv'
  BY SwaySame, <1>1, <1>2 DEF CubeInv, SwayInv
<1>5. CASE pipeline
  <2>1. /\ aubuf' = [aubuf EXCEPT ![cur] = Pic(0), ![1 - cur] = Pic(1)] /\ Submit(cur, 0, rel)
    BY <1>5 DEF Start
  <2>2. /\ dpc' = "rel" /\ rel' = <<>> /\ UNCHANGED <<au, fi, ok>>
        /\ job' = [au |-> cur, pts |-> Pic(0), rel |-> rel]
    BY <2>1 DEF Submit
  <2>3. Pic(0) \in Nat /\ Pic(1) \in Nat /\ 1 - cur \in {0, 1} /\ 1 - cur # cur
    BY <1>1, CodaAssumption DEF Pic
  <2>4. /\ aubuf' \in [{0, 1} -> Nat] /\ aubuf'[cur] = Pic(0) /\ aubuf'[1 - cur] = Pic(1)
    BY <1>1, <2>1, <2>3
  <2>5. TypeOK'
    <3>1. job' \in [au : {0, 1}, pts : Nat, rel : Seq(Bufs)] /\ rel' \in Seq(Bufs)
      BY <1>1, <2>2, <2>3
    <3>2. dpc' = "rel" /\ UNCHANGED <<au, fi, ok>>
      BY <2>2
    <3> QED
      BY <1>1, <1>2, <2>4, <3>1, <3>2 DEF CubeInv, TypeOK
  <2>6. LoopInv'
    BY <1>1, <1>2, <1>5, <2>2 DEF CubeInv, LoopInv, Paging, Busy, Over
  <2>7. HoldInv'
    BY SubmitHold, <1>1, <1>2, <1>3, <2>1
  <2>8. SendInv'
    BY <1>1, <1>2, <2>2, <2>4 DEF SendInv
  <2> QED
    BY <1>4, <2>5, <2>6, <2>7, <2>8 DEF CubeInv
<1>6. CASE ~pipeline
  <2>1. UNCHANGED <<aubuf, dpc, au, job, fi, ok, rel>>
    BY <1>6 DEF Start, agent
  <2>2. TypeOK'
    BY <1>1, <1>2, <2>1 DEF CubeInv, TypeOK
  <2>3. LoopInv'
    BY <1>1, <1>2, <1>6, <2>1 DEF CubeInv, LoopInv, Paging, Busy, Over
  <2>4. HoldInv'
    BY HoldSame, FetchedIsNext, <1>1, <1>2, <1>3, <2>1 DEF CubeInv
  <2>5. SendInv'
    BY <1>1, <1>2, <1>6, <2>1 DEF SendInv, Busy
  <2> QED
    BY <1>4, <2>2, <2>3, <2>4, <2>5 DEF CubeInv
<1> QED
  BY <1>5, <1>6

\* The top of a frame: a job for the decoder, with the releases that are due.
LEMMA LoopTopInv ==
  ASSUME CubeInv, LoopTop PROVE CubeInv'
<1> USE DEF opts, held, vdec, swayV, conn
<1>1. /\ pc = "top" /\ pc' \in {"wait", "exit"} /\ cur \in {0, 1} /\ fnum \in Nat
      /\ aubuf \in [{0, 1} -> Nat] /\ rel \in Seq(Bufs)
  BY DEF LoopTop, CubeInv, TypeOK
<1>2. UNCHANGED <<opts, vdec, fnum, cur, mfi, mok, slot, dry, held, swayV, conn, stop, last>>
  BY DEF LoopTop
<1>3. Taken = {} /\ Taken' = {}
  BY <1>1 DEF Taken
<1>4. SwayInv'
  BY SwaySame, <1>1, <1>2 DEF CubeInv, SwayInv
<1>5. CASE stop \/ pipeline
  <2>1. UNCHANGED <<aubuf, dpc, au, job, fi, ok, rel>> /\ (pc' = "wait" => pipeline)
    BY <1>5 DEF LoopTop, agent
  <2>2. TypeOK'
    BY <1>1, <1>2, <2>1 DEF CubeInv, TypeOK
  <2>3. LoopInv'
    BY <1>1, <1>2, <2>1 DEF CubeInv, LoopInv, Paging, Busy, Over
  <2>4. Fetched' = Fetched
    BY FetchedSame, <1>1, <1>2, <2>1
  <2>5. HoldInv'
    BY HoldSame, <1>2, <1>3, <2>1, <2>4 DEF CubeInv
  <2>6. SendInv'
    BY <1>1, <1>2, <2>1 DEF CubeInv, SendInv
  <2> QED
    BY <1>4, <2>2, <2>3, <2>5, <2>6 DEF CubeInv
<1>6. CASE ~stop /\ ~pipeline
  <2>1. /\ aubuf' = [aubuf EXCEPT ![cur] = Pic(fnum)] /\ Submit(cur, fnum, rel) /\ pc' = "wait"
    BY <1>6 DEF LoopTop
  <2>2. /\ dpc' = "rel" /\ rel' = <<>> /\ UNCHANGED <<au, fi, ok>>
        /\ job' = [au |-> cur, pts |-> Pic(fnum), rel |-> rel]
    BY <2>1 DEF Submit
  <2>3. Pic(fnum) \in Nat
    BY <1>1, CodaAssumption DEF Pic
  <2>4. aubuf' \in [{0, 1} -> Nat] /\ aubuf'[cur] = Pic(fnum)
    BY <1>1, <2>1, <2>3
  <2>5. dpc = "idle" /\ Fetched = {}
    BY <1>1, <1>6, Places, FetchedIs
  <2>6. TypeOK'
    <3>1. job' \in [au : {0, 1}, pts : Nat, rel : Seq(Bufs)] /\ rel' \in Seq(Bufs)
      BY <1>1, <2>2, <2>3
    <3>2. dpc' = "rel" /\ UNCHANGED <<au, fi, ok>>
      BY <2>2
    <3>3. pc' = "wait" /\ aubuf' \in [{0, 1} -> Nat]
      BY <2>1, <2>4
    <3> QED
      BY SMTT(30), <1>2, <3>1, <3>2, <3>3 DEF CubeInv, TypeOK
  <2>7. LoopInv'
    BY <1>1, <1>2, <1>6, <2>1, <2>2 DEF CubeInv, LoopInv, Paging, Busy, Over
  <2>8. HoldInv'
    BY SubmitHold, <1>1, <1>2, <1>3, <2>1, <2>5
  <2>9. SendInv'
    BY <1>2, <1>6, <2>1, <2>2, <2>4 DEF SendInv
  <2> QED
    BY <1>4, <2>6, <2>7, <2>8, <2>9 DEF CubeInv
<1> QED
  BY <1>5, <1>6

\* The main thread waits for the decoder's answer.
LEMMA WaitInv ==
  ASSUME CubeInv, Wait PROVE CubeInv'
<1> USE DEF opts, held, vdec, agent, swayV, conn
<1>1. pc = "wait" /\ pc' = "take" /\ dpc = "idle" /\ mfi' = fi /\ mok' = ok
  BY DEF Wait, WorkerIdle
<1>2. UNCHANGED <<opts, vdec, agent, fnum, cur, aubuf, slot, dry, rel, held, swayV, conn, stop, last>>
  BY DEF Wait
<1>3. TypeOK'
  BY <1>1, <1>2 DEF CubeInv, TypeOK
<1>4. LoopInv'
  BY <1>1, <1>2 DEF CubeInv, LoopInv, Paging, Busy, Over
<1>5. HoldInv'
  <2>1. Fetched' = Fetched
    BY FetchedSame, <1>1, <1>2
  <2>2. Taken' = {} /\ Taken = {}
    BY <1>1 DEF Taken
  <2> QED
    BY HoldSame, <1>2, <2>1, <2>2 DEF CubeInv
<1>6. SwayInv'
  BY SwaySame, <1>1, <1>2 DEF CubeInv, SwayInv
<1>7. SendInv'
  BY <1>1, <1>2 DEF CubeInv, SendInv, Busy
<1> QED
  BY <1>3, <1>4, <1>5, <1>6, <1>7 DEF CubeInv

-----------------------------------------------------------------------------
(* What the main thread does with the picture, and the presenter.          *)

\* A fetched frame is handed to the zero-copy presenter.
LEMMA TakeZeroCopyInv ==
  ASSUME CubeInv, TakeZeroCopy PROVE CubeInv'
<1> USE DEF opts, agent, swayV, conn
<1>1. /\ pc = "take" /\ mok /\ route = "zero" /\ dpc = "idle" /\ mfi = fi /\ ok /\ mfi.b \in Bufs
      /\ pc' \in {"submit", "exit"} /\ dry' = 0 /\ zknown \subseteq Bufs
      /\ ToSet(job.rel) = {} /\ slot = None
  <2>1. pc = "take" /\ mok /\ route = "zero" /\ pc' \in {"submit", "exit"} /\ dry' = 0
    BY DEF TakeZeroCopy, Break
  <2>2. dpc = "idle"
    BY <2>1, Places
  <2>3. ToSet(job.rel) = {}
    BY <2>2, Places
  <2> QED
    BY <2>1, <2>2, <2>3 DEF CubeInv, LoopInv, SwayInv, TypeOK
<1>2. UNCHANGED <<opts, inflight, outq, agent, fnum, cur, aubuf, mfi, mok, slot, rel,
                  zbusy, dbusy, dbNext, swayV, conn, stop, last>>
  BY DEF TakeZeroCopy
<1>3. /\ buf' = buf \/ (pc' = "exit" /\ ~pipeline /\ buf' = Released({mfi.b}))
      /\ pc' = "exit" /\ ~pipeline => buf' = Released({mfi.b})
      /\ zknown' \subseteq Bufs
  BY <1>1 DEF TakeZeroCopy, Break
<1>4. /\ buf' \in [Bufs -> {"free", "queued", "out"}]
      /\ \A c \in Bufs : buf'[c] = IF c = mfi.b /\ pc' = "exit" /\ ~pipeline THEN "free" ELSE buf[c]
  <2>1. PICK S : S = {mfi.b}
    OBVIOUS
  <2>2. /\ Released(S) \in [Bufs -> {"free", "queued", "out"}]
        /\ \A c \in Bufs : Released(S)[c] = IF c \in S THEN "free" ELSE buf[c]
    BY ReleasedIs
  <2>3. buf \in [Bufs -> {"free", "queued", "out"}]
    BY DEF CubeInv, TypeOK
  <2>4. CASE pc' = "exit" /\ ~pipeline
    BY <1>3, <2>1, <2>2, <2>4
  <2>5. CASE ~(pc' = "exit" /\ ~pipeline)
    BY <1>3, <2>3, <2>5
  <2> QED
    BY <2>4, <2>5
<1>5. TypeOK'
  BY <1>1, <1>2, <1>3, <1>4, CodaAssumption DEF CubeInv, TypeOK
<1>6. LoopInv'
  BY <1>1, <1>2, CodaAssumption DEF CubeInv, LoopInv, Paging, Busy, Over
<1>7. HoldInv'
  <2>1. Fetched = {mfi.b} /\ Taken = {}
    BY <1>1, FetchedIs DEF Taken
  <2>2. CASE pipeline
    <3>1. Fetched' = {mfi.b} /\ Taken' = {}
      BY <1>1, <1>2, <2>2, FetchedIsNext DEF Taken
    <3>2. buf' = buf
      BY <1>3, <2>2
    <3> QED
      BY HoldSame, <1>2, <2>1, <3>1, <3>2 DEF CubeInv
  <2>3. CASE ~pipeline /\ pc' = "submit"
    <3>1. Fetched' = {} /\ Taken' = {mfi.b}
      BY <1>1, <1>2, <2>3, FetchedIsNext DEF Taken
    <3>2. buf' = buf
      BY <1>3, <2>3
    <3>3. ASSUME NEW c \in Bufs PROVE OneHolder(c)'
      BY <1>2, <2>1, <3>1, <3>2 DEF CubeInv, HoldInv, OneHolder
    <3> QED
      BY <1>2, <3>3 DEF CubeInv, HoldInv
  <2>4. CASE ~pipeline /\ pc' = "exit"
    <3>1. Fetched' = {} /\ Taken' = {}
      BY <1>1, <1>2, <2>4, FetchedIsNext DEF Taken
    <3>2. \A c \in Bufs : buf'[c] = IF c = mfi.b THEN "free" ELSE buf[c]
      BY <1>4, <2>4
    <3>3. ASSUME NEW c \in Bufs PROVE OneHolder(c)'
      BY <1>1, <1>2, <2>1, <3>1, <3>2 DEF CubeInv, HoldInv, OneHolder
    <3> QED
      BY <1>2, <3>3 DEF CubeInv, HoldInv
  <2> QED
    BY <1>1, <2>2, <2>3, <2>4
<1>8. SwayInv'
  BY SwaySame, <1>1, <1>2 DEF CubeInv
<1>9. SendInv'
  BY <1>1, <1>2 DEF CubeInv, SendInv, Busy
<1> QED
  BY <1>5, <1>6, <1>7, <1>8, <1>9 DEF CubeInv

\* No picture in this round: it is a dry one.
LEMMA TakeDropInv ==
  ASSUME CubeInv, TakeDrop PROVE CubeInv'
<1> USE DEF opts, vdec, agent, held, swayV, conn
<1>1. /\ pc = "take" /\ ~mok /\ dry' = dry + 1
      /\ pc' = IF dry + 1 >= DRY_LIMIT THEN "exit" ELSE "submit"
      /\ UNCHANGED <<opts, vdec, agent, fnum, cur, aubuf, mfi, mok, slot, rel, held,
                     swayV, conn, stop, last>>
  BY DEF TakeDrop
<1>2. dpc = "idle"
  BY <1>1, Places
<1>3. mfi = fi /\ ~ok
  BY <1>1 DEF CubeInv, LoopInv
<1>4. /\ dry \in 0 .. DRY_LIMIT /\ dry < DRY_LIMIT /\ dry' \in 0 .. DRY_LIMIT
      /\ dry' >= DRY_LIMIT => pc' = "exit"
  BY <1>1, CodaAssumption DEF CubeInv, TypeOK, LoopInv, Over
<1>5. pc' \in {"exit", "submit"}
  BY <1>1
<1>6. TypeOK'
  BY <1>1, <1>4, <1>5 DEF CubeInv, TypeOK
<1>7. LoopInv'
  BY <1>1, <1>2, <1>3, <1>4, <1>5 DEF CubeInv, LoopInv, Paging, Busy, Over
<1>8. HoldInv'
  <2>1. Fetched = {} /\ Fetched' = {} /\ Taken = {} /\ Taken' = {}
    BY <1>1, <1>2, <1>3, FetchedIs, FetchedIsNext DEF Taken
  <2> QED
    BY HoldSame, <1>1, <2>1 DEF CubeInv
<1>9. SwayInv'
  BY SwaySame, <1>1, <1>5 DEF CubeInv, SwayInv
<1>10. SendInv'
  BY <1>1, <1>2, <1>5 DEF CubeInv, SendInv, Busy
<1> QED
  BY <1>6, <1>7, <1>8, <1>9, <1>10 DEF CubeInv

-----------------------------------------------------------------------------
(* The presenter's events.                                                 *)

\* What dispatching the events E does: the release queue has room for every
\* buffer that comes back.
Gone(E) ==
    /\ rel' \in Seq(Bufs) /\ Once(rel')
    /\ \A c \in Bufs : c \in ToSet(rel') <=> c \in ToSet(rel) \/ (c \in E /\ zbusy[c])
    /\ zbusy' \in [Bufs -> BOOLEAN] /\ \A c \in Bufs : zbusy'[c] <=> zbusy[c] /\ c \notin E
    /\ dbusy' \in [Slots -> BOOLEAN] /\ \A i \in Slots : dbusy'[i] <=> dbusy[i] /\ i \notin E
    /\ cb' \in BOOLEAN

\* zc_released() and db_released() take back only what sway has released.
LEMMA Dispatched ==
  ASSUME CubeInv, NEW E, Dispatch(E) PROVE Gone(E)
<1>1. PICK mine : mine = {b \in E \cap Bufs : zbusy[b]}
  OBVIOUS
<1>2. /\ cb' = (cb /\ FrameDone \notin E)
      /\ zbusy' = [b \in Bufs |-> zbusy[b] /\ b \notin mine]
      /\ rel' = SubSeq(rel \o SetToSeq(mine), 1,
                       IF Len(rel) + Cardinality(mine) > MAX_HELD THEN MAX_HELD
                       ELSE Len(rel) + Cardinality(mine))
      /\ dbusy' = [i \in Slots |-> dbusy[i] /\ i \notin E]
  BY <1>1 DEF Dispatch
<1>3. /\ rel \in Seq(Bufs) /\ Once(rel) /\ zbusy \in [Bufs -> BOOLEAN]
      /\ dbusy \in [Slots -> BOOLEAN] /\ cb \in BOOLEAN
  BY DEF CubeInv, TypeOK, HoldInv
<1>4. /\ mine \subseteq Bufs /\ IsFiniteSet(Bufs) /\ ToSet(rel) \cap mine = {}
      /\ \A c \in Bufs : c \in mine <=> c \in E /\ zbusy[c]
  <2>1. \A b \in Bufs : b \in ToSet(rel) => ~zbusy[b]
    BY DEF CubeInv, HoldInv, OneHolder
  <2> QED
    BY <1>1, <2>1, CodaAssumption
<1>5. IsFiniteSet(mine) /\ Cardinality(mine) \in Nat
  BY <1>4, FS_Subset, FS_CardinalityType
<1>6. PICK s : s = SetToSeq(mine)
  OBVIOUS
<1>7. s \in Seq(Bufs) /\ Len(s) = Cardinality(mine) /\ ToSet(s) = mine /\ Once(s)
  BY <1>4, <1>5, <1>6, SetAsQueue
<1>8. /\ rel \o s \in Seq(Bufs) /\ Len(rel \o s) = Len(rel) + Len(s)
      /\ ToSet(rel \o s) = ToSet(rel) \cup mine /\ Once(rel \o s)
  BY <1>3, <1>4, <1>7, QueueConcat
<1>9. Len(rel) + Cardinality(mine) <= MAX_HELD /\ Len(rel) \in Nat
  <2>1. /\ ToSet(rel \o s) \subseteq Bufs /\ Cardinality(ToSet(rel \o s)) = Len(rel \o s)
    <3>1. PICK q \in Seq(Bufs) : q = rel \o s /\ Once(q)
      BY <1>8
    <3>2. Cardinality(ToSet(q)) = Len(q)
      BY <3>1, QueueCount
    <3>3. ToSet(q) \subseteq Bufs
      <4>1. ToSet(q) = {q[i] : i \in 1 .. Len(q)}
        BY <3>1, QueueSet
      <4>2. \A i \in 1 .. Len(q) : q[i] \in Bufs
        BY <3>1
      <4> QED
        BY <4>1, <4>2
    <3> QED
      BY <3>1, <3>2, <3>3, Zenon
  <2>2. Cardinality(ToSet(rel \o s)) <= Cardinality(Bufs)
    BY <1>4, <2>1, FS_Subset
  <2>3. Cardinality(Bufs) \in Nat /\ MAX_HELD \in Nat /\ Cardinality(Bufs) < MAX_HELD /\ Len(rel) \in Nat
    BY <1>3, <1>4, CodaAssumption, FS_CardinalityType
  <2> QED
    BY <1>5, <1>7, <1>8, <2>1, <2>2, <2>3
<1>10. rel' = rel \o s
  <2>1. PICK q, n : q = rel \o s /\ n = Len(rel) + Cardinality(mine)
    OBVIOUS
  <2>2. q \in Seq(Bufs) /\ n \in Nat /\ n = Len(q) /\ ~(n > MAX_HELD)
    BY <1>5, <1>7, <1>8, <1>9, <2>1, CodaAssumption
  <2>3. rel' = SubSeq(q, 1, n)
    BY <1>2, <1>6, <2>1, <2>2
  <2>4. SubSeq(q, 1, n) = q
    BY <2>2
  <2> QED
    BY <2>1, <2>3, <2>4
<1>11. zbusy' \in [Bufs -> BOOLEAN] /\ \A c \in Bufs : zbusy'[c] <=> zbusy[c] /\ c \notin E
  BY <1>2, <1>3, <1>4
<1>12. dbusy' \in [Slots -> BOOLEAN] /\ \A i \in Slots : dbusy'[i] <=> dbusy[i] /\ i \notin E
  BY <1>2, <1>3
<1>13. \A c \in Bufs : c \in ToSet(rel') <=> c \in ToSet(rel) \/ (c \in E /\ zbusy[c])
  BY <1>4, <1>8, <1>10
<1>14. cb' \in BOOLEAN
  BY <1>2
<1> QED
  BY <1>8, <1>10, <1>11, <1>12, <1>13, <1>14 DEF Gone

\* pump() dispatches some events and keeps the others, or finds the connection
\* lost.
LEMMA Pumped ==
  ASSUME CubeInv, Pump
  PROVE  \E E : /\ Gone(E) /\ E \subseteq sock \cup privq
                /\ sock' \subseteq sock /\ privq' \subseteq privq /\ dead' \in BOOLEAN
                /\ \A x \in (sock' \cup privq') \cap E : x = FrameDone
<1>0. /\ dead \in BOOLEAN /\ cb \in BOOLEAN /\ rel \in Seq(Bufs) /\ Once(rel)
      /\ zbusy \in [Bufs -> BOOLEAN] /\ dbusy \in [Slots -> BOOLEAN]
      /\ \A x \in sock \cap privq : x = FrameDone
  BY DEF CubeInv, TypeOK, HoldInv, SwayInv
<1>1. CASE Dispatch(privq) /\ privq' = {} /\ UNCHANGED <<sock, dead>>
  <2>1. PICK E : E = privq
    OBVIOUS
  <2>2. Gone(E)
    BY <1>1, <2>1, Dispatched
  <2> QED
    BY <1>0, <1>1, <2>1, <2>2
<1>2. CASE Dispatch(sock) /\ sock' = {} /\ UNCHANGED <<privq, dead>>
  <2>1. PICK E : E = sock
    OBVIOUS
  <2>2. Gone(E)
    BY <1>2, <2>1, Dispatched
  <2> QED
    BY <1>0, <1>2, <2>1, <2>2
<1>3. CASE dead' = TRUE /\ UNCHANGED <<sock, privq, cb, zbusy, dbusy, rel>>
  <2>1. Gone({})
    BY <1>0, <1>3 DEF Gone
  <2> QED
    BY <1>3, <2>1
<1> QED
  BY <1>1, <1>2, <1>3 DEF Pump

\* A buffer that pump() takes back from sway goes to the release queue.
LEMMA PumpHold ==
  ASSUME CubeInv, Pump, UNCHANGED <<buf, outq, job>>, Fetched' = Fetched, Taken' = Taken
  PROVE  HoldInv'
<1>1. PICK E : Gone(E)
  BY Pumped
<1>2. ASSUME NEW c \in Bufs PROVE OneHolder(c)'
  BY <1>1 DEF CubeInv, HoldInv, OneHolder, Gone
<1> QED
  BY <1>1, <1>2 DEF CubeInv, HoldInv, Gone

\* What pump() takes back, sway does not read.
LEMMA PumpSway ==
  ASSUME CubeInv, Pump, UNCHANGED <<route, scan, pend>>,
         \/ slot' = None
         \/ /\ slot' = slot /\ pc' \in {"submit", "pace", "present", "poll", "dispatch"}
            /\ pc' \in {"submit", "pace", "present"} => pc \in {"submit", "pace", "present"}
  PROVE  SwayInv'
<1>1. PICK E : /\ Gone(E) /\ E \subseteq sock \cup privq
               /\ sock' \subseteq sock /\ privq' \subseteq privq
               /\ \A x \in (sock' \cup privq') \cap E : x = FrameDone
  BY Pumped
<1>2. \A x : Held(x) /\ x \notin E => Held(x)'
  BY <1>1 DEF Gone, Held
<1>3. route' # "zero" => \A b \in Bufs : ~zbusy'[b]
  BY <1>1 DEF CubeInv, SwayInv, Gone
<1>4. /\ scan' # None => Held(scan)' /\ scan' \notin sock' \cup privq'
      /\ pend' # None => Held(pend)' /\ pend' \notin sock' \cup privq'
      /\ scan' # None => scan' # pend'
  <2>1. /\ scan # None => Held(scan) /\ scan \notin sock \cup privq
        /\ pend # None => Held(pend) /\ pend \notin sock \cup privq
        /\ scan # None => scan # pend
    BY DEF CubeInv, SwayInv
  <2> QED
    BY <1>1, <1>2, <2>1 DEF Held
<1>5. ASSUME NEW x \in sock' \cup privq', x # FrameDone PROVE Held(x)'
  <2>1. Held(x)
    BY <1>1, <1>5 DEF CubeInv, SwayInv
  <2> QED
    BY <1>1, <1>2, <1>5, <2>1
<1>6. \A x \in sock' \cap privq' : x = FrameDone
  BY <1>1 DEF CubeInv, SwayInv
<1>7. slot' # None => route' = "dmabuf" /\ pc' \in {"submit", "pace", "present", "poll", "dispatch"}
  BY DEF CubeInv, SwayInv
<1>8. slot' # None /\ pc' \in {"submit", "pace", "present"} => ~dbusy'[slot']
  <2>1. slot \in Slots \cup {None}
    BY DEF CubeInv, TypeOK
  <2> QED
    BY <1>1, <2>1 DEF CubeInv, SwayInv, Gone
<1> QED
  BY <1>3, <1>4, <1>5, <1>6, <1>7, <1>8 DEF SwayInv

\* pump() keeps the types.
LEMMA PumpTypes ==
  ASSUME CubeInv, Pump
  PROVE  /\ rel' \in Seq(Bufs) /\ zbusy' \in [Bufs -> BOOLEAN] /\ dbusy' \in [Slots -> BOOLEAN]
         /\ sock' \subseteq Shareable \cup {FrameDone} /\ privq' \subseteq Shareable \cup {FrameDone}
         /\ cb' \in BOOLEAN /\ dead' \in BOOLEAN
<1>1. PICK E : Gone(E) /\ sock' \subseteq sock /\ privq' \subseteq privq /\ dead' \in BOOLEAN
  BY Pumped
<1> QED
  BY <1>1 DEF CubeInv, TypeOK, Gone

-----------------------------------------------------------------------------
(* The copy of --dmabuf and the conversion.                                *)

\* A fetched frame is copied; without the worker it is released at once.
LEMMA TakeCopyInv ==
  ASSUME CubeInv, TakeCopy PROVE CubeInv'
<1> USE DEF opts, agent, swayV, conn
<1>1. /\ pc = "take" /\ mok /\ route # "zero" /\ dpc = "idle" /\ mfi = fi /\ ok /\ mfi.b \in Bufs
      /\ dry' = 0 /\ slot = None
  <2>1. pc = "take" /\ mok /\ route # "zero" /\ dry' = 0
    BY DEF TakeCopy
  <2>2. dpc = "idle"
    BY <2>1, Places
  <2> QED
    BY <2>1, <2>2 DEF CubeInv, LoopInv, SwayInv
<1>2. UNCHANGED <<opts, inflight, outq, agent, fnum, cur, aubuf, mfi, mok, slot,
                  zknown, dbNext, swayV, stop, last>>
  BY DEF TakeCopy
<1>3. Fetched = {mfi.b} /\ Taken = {} /\ Taken' = {}
  BY <1>1, <1>2, FetchedIs DEF Taken
<1>4. CASE /\ pc' \in {"submit", "exit"} /\ UNCHANGED <<conn, zbusy, dbusy, rel>>
           /\ buf' = IF pipeline THEN buf ELSE Released({mfi.b})
  <2>1. /\ buf' \in [Bufs -> {"free", "queued", "out"}]
        /\ \A c \in Bufs : buf'[c] = IF c = mfi.b /\ ~pipeline THEN "free" ELSE buf[c]
    <3>1. PICK S : S = {mfi.b}
      OBVIOUS
    <3>2. /\ Released(S) \in [Bufs -> {"free", "queued", "out"}]
          /\ \A c \in Bufs : Released(S)[c] = IF c \in S THEN "free" ELSE buf[c]
      BY ReleasedIs
    <3>3. buf \in [Bufs -> {"free", "queued", "out"}]
      BY DEF CubeInv, TypeOK
    <3>4. CASE pipeline
      BY <1>4, <3>3, <3>4
    <3>5. CASE ~pipeline
      BY <1>4, <3>1, <3>2, <3>5
    <3> QED
      BY <3>4, <3>5
  <2>2. TypeOK'
    <3>1. pc' \in {"submit", "exit"} /\ UNCHANGED <<conn, zbusy, dbusy, rel>>
      BY <1>4
    <3> QED
      BY <1>1, <1>2, <2>1, <3>1, CodaAssumption DEF CubeInv, TypeOK
  <2>3. LoopInv'
    BY <1>1, <1>2, <1>4, CodaAssumption DEF CubeInv, LoopInv, Paging, Busy, Over
  <2>4. HoldInv'
    <3>1. Fetched' = IF pipeline THEN {mfi.b} ELSE {}
      BY <1>1, <1>2, <1>4, FetchedIsNext
    <3>2. UNCHANGED <<job, outq, rel, zbusy>>
      BY <1>2, <1>4
    <3>3. ASSUME NEW c \in Bufs PROVE OneHolder(c)'
      BY <1>1, <1>3, <2>1, <3>1, <3>2 DEF CubeInv, HoldInv, OneHolder
    <3> QED
      BY <3>2, <3>3 DEF CubeInv, HoldInv
  <2>5. SwayInv'
    BY SwaySame, <1>1, <1>2, <1>4 DEF CubeInv
  <2>6. SendInv'
    BY <1>1, <1>2, <1>4 DEF CubeInv, SendInv, Busy
  <2> QED
    BY <2>2, <2>3, <2>4, <2>5, <2>6 DEF CubeInv
<1>5. CASE route = "dmabuf" /\ pc' = "dbget" /\ Pump /\ UNCHANGED buf
  <2>1. TypeOK'
    BY <1>1, <1>2, <1>5, PumpTypes, CodaAssumption DEF CubeInv, TypeOK
  <2>2. LoopInv'
    BY <1>1, <1>2, <1>5, CodaAssumption DEF CubeInv, LoopInv, Paging, Busy, Over
  <2>3. Fetched' = Fetched
    BY FetchedSame, <1>1, <1>2, <1>5
  <2>4. HoldInv'
    BY PumpHold, <1>2, <1>3, <1>5, <2>3
  <2>5. SwayInv'
    BY PumpSway, <1>1, <1>2, <1>5
  <2>6. SendInv'
    BY <1>1, <1>2, <1>5 DEF CubeInv, SendInv, Busy
  <2> QED
    BY <2>1, <2>2, <2>4, <2>5, <2>6 DEF CubeInv
<1> QED
  BY <1>1, <1>4, <1>5 DEF TakeCopy, Break

\* A step that only reads events.
LEMMA PumpInv ==
  ASSUME CubeInv, Pump, pc \in {"dbget", "pace"}, pc = "dbget" => slot = None,
         UNCHANGED <<opts, vdec, agent, mainV, zknown, dbNext, swayV, stop, last>>
  PROVE  CubeInv'
<1> USE DEF opts, vdec, agent, mainV, swayV
<1>1. TypeOK'
  BY PumpTypes DEF CubeInv, TypeOK
<1>2. LoopInv'
  BY DEF CubeInv, LoopInv
<1>3. Fetched' = Fetched /\ Taken' = Taken
  BY DEF Fetched, Taken
<1>4. HoldInv'
  BY PumpHold, <1>3
<1>5. SwayInv'
  BY PumpSway
<1>6. SendInv'
  BY DEF CubeInv, SendInv
<1> QED
  BY <1>1, <1>2, <1>4, <1>5, <1>6 DEF CubeInv

\* db_get() waits for sway to release a dumb buffer.
LEMMA DbWaitInv ==
  ASSUME CubeInv, DbWait PROVE CubeInv'
<1>1. slot = None /\ pc = "dbget"
  BY DEF DbWait, CubeInv, SwayInv
<1> QED
  BY <1>1, PumpInv DEF DbWait

\* The pacing wait dispatches events too.
LEMMA PaceWaitInv ==
  ASSUME CubeInv, PaceWait PROVE CubeInv'
  BY PumpInv DEF PaceWait

\* The first free dumb buffer in round-robin order exists when one is free.
LEMMA FirstFree ==
  ASSUME CubeInv, NEW i \in Slots, ~dbusy[i]
  PROVE  \E k \in Slots : ~dbusy[DbIndex(k)] /\ \A j \in 0 .. k - 1 : dbusy[DbIndex(j)]
<1>1. DB_N \in Nat \ {0} /\ dbNext \in 0 .. DB_N - 1 /\ i \in 0 .. DB_N - 1
  BY CodaAssumption DEF CubeInv, TypeOK, Slots
<1>2. PICK T : T = {k \in Slots : ~dbusy[DbIndex(k)]}
  OBVIOUS
<1>3. T \subseteq Nat /\ T # {}
  <2>1. CASE i >= dbNext
    <3>1. i - dbNext \in 0 .. DB_N - 1 /\ (dbNext + (i - dbNext)) % DB_N = i
      BY <1>1, <2>1
    <3> QED
      BY <1>2, <3>1 DEF Slots, DbIndex
  <2>2. CASE i < dbNext
    <3>1. i - dbNext + DB_N \in 0 .. DB_N - 1 /\ dbNext + (i - dbNext + DB_N) = i + DB_N
      BY <1>1, <2>2
    <3>2. (i + DB_N) % DB_N = i
      BY <1>1
    <3> QED
      BY <1>2, <3>1, <3>2 DEF Slots, DbIndex
  <2> QED
    BY <1>1, <1>2, <2>1, <2>2 DEF Slots
<1>4. PICK R : R = OpToRel(<, Nat)
  OBVIOUS
<1>5. PICK k \in T : \A y \in T : ~(<<y, k>> \in R)
  BY <1>3, <1>4, NatLessThanWellFounded, WFMin
<1>6. \A y \in T : ~(y < k)
  BY <1>3, <1>4, <1>5 DEF OpToRel
<1>7. k \in Slots /\ ~dbusy[DbIndex(k)]
  BY <1>2
<1>8. ASSUME NEW j \in 0 .. k - 1 PROVE dbusy[DbIndex(j)]
  <2>1. j \in Slots /\ j < k
    BY <1>1, <1>7 DEF Slots
  <2> QED
    BY <1>2, <1>6, <2>1
<1> QED
  BY <1>7, <1>8

\* Without a worker the frame goes back, with one it stays with the worker.
LEMMA GivenBack ==
  ASSUME CubeInv, pc \in {"take", "dbget"}, mok, route # "zero", mfi.b \in Bufs,
         UNCHANGED <<opts, outq, agent, rel, zbusy, mfi>>, pc' \in {"submit", "exit"},
         buf' = IF pipeline THEN buf ELSE Released({mfi.b})
  PROVE  HoldInv' /\ buf' \in [Bufs -> {"free", "queued", "out"}]
<1> USE DEF opts, agent
<1>1. dpc = "idle" /\ mfi = fi /\ ok
  <2>1. dpc = "idle"
    BY Places
  <2> QED
    BY <2>1 DEF CubeInv, LoopInv
<1>2. /\ buf' \in [Bufs -> {"free", "queued", "out"}]
      /\ \A c \in Bufs : buf'[c] = IF c = mfi.b /\ ~pipeline THEN "free" ELSE buf[c]
  <2>1. PICK S : S = {mfi.b}
    OBVIOUS
  <2>2. /\ Released(S) \in [Bufs -> {"free", "queued", "out"}]
        /\ \A c \in Bufs : Released(S)[c] = IF c \in S THEN "free" ELSE buf[c]
    BY ReleasedIs
  <2>3. buf \in [Bufs -> {"free", "queued", "out"}]
    BY DEF CubeInv, TypeOK
  <2>4. CASE pipeline
    BY <2>3, <2>4
  <2>5. CASE ~pipeline
    BY <2>1, <2>2, <2>5
  <2> QED
    BY <2>4, <2>5
<1>3. /\ Fetched = {mfi.b} /\ Taken = {} /\ Taken' = {}
      /\ Fetched' = IF pipeline THEN {mfi.b} ELSE {}
  BY <1>1, FetchedIs, FetchedIsNext DEF Taken
<1>4. ASSUME NEW c \in Bufs PROVE OneHolder(c)'
  BY <1>2, <1>3 DEF CubeInv, HoldInv, OneHolder
<1> QED
  BY <1>2, <1>4 DEF CubeInv, HoldInv

\* db_get() finds a free dumb buffer when there is one.
LEMMA DbGetSlot ==
  ASSUME CubeInv, DbGet PROVE slot' \in Slots /\ dbNext' \in Slots /\ ~dbusy[slot']
<1>1. PICK i \in Slots : ~dbusy[i]
  BY DEF DbGet
<1>2. PICK k \in Slots : /\ ~dbusy[DbIndex(k)] /\ slot' = DbIndex(k)
                         /\ dbNext' = (DbIndex(k) + 1) % DB_N
  <2>1. \E k \in Slots : ~dbusy[DbIndex(k)] /\ \A j \in 0 .. k - 1 : dbusy[DbIndex(j)]
    BY <1>1, FirstFree
  <2>2. PICK k : /\ k = CHOOSE n \in Slots :
                          ~dbusy[DbIndex(n)] /\ \A j \in 0 .. n - 1 : dbusy[DbIndex(j)]
                 /\ slot' = DbIndex(k) /\ dbNext' = (DbIndex(k) + 1) % DB_N
    BY DEF DbGet
  <2>3. k \in Slots /\ ~dbusy[DbIndex(k)]
    BY <2>1, <2>2, Zenon
  <2> QED
    BY <2>2, <2>3
<1> QED
  <2>1. DB_N \in Nat \ {0} /\ dbNext \in 0 .. DB_N - 1 /\ k \in 0 .. DB_N - 1
    BY <1>2, CodaAssumption DEF CubeInv, TypeOK, Slots
  <2>2. DbIndex(k) \in 0 .. DB_N - 1
    BY <2>1 DEF DbIndex
  <2>3. (DbIndex(k) + 1) % DB_N \in 0 .. DB_N - 1
    BY <2>1, <2>2
  <2> QED
    BY <1>2, <2>2, <2>3 DEF Slots

\* db_get() takes a dumb buffer that sway has not got, and the copy ends.
LEMMA DbGetInv ==
  ASSUME CubeInv, DbGet PROVE CubeInv'
<1> USE DEF opts, agent, swayV, conn
<1>1. /\ pc = "dbget" /\ pc' = "submit" /\ buf' = IF pipeline THEN buf ELSE Released({mfi.b})
      /\ UNCHANGED <<opts, inflight, outq, agent, fnum, cur, aubuf, mfi, mok, dry, rel,
                     zknown, zbusy, dbusy, swayV, conn, stop, last>>
  BY DEF DbGet
<1>2. slot' \in Slots /\ dbNext' \in Slots /\ ~dbusy[slot']
  BY DbGetSlot
<1>3. mok /\ route = "dmabuf" /\ mfi.b \in Bufs /\ dpc = "idle"
  BY <1>1, Places DEF CubeInv, LoopInv
<1>4. HoldInv' /\ buf' \in [Bufs -> {"free", "queued", "out"}]
  BY <1>1, <1>3, GivenBack
<1>5. TypeOK'
  <2>1. UNCHANGED <<opts, inflight, outq, agent, fnum, cur, aubuf, mfi, mok, dry, rel,
                    zknown, zbusy, dbusy, swayV, conn, stop, last>>
    BY <1>1
  <2>2. pc' = "submit" /\ slot' \in Slots \cup {None} /\ dbNext' \in Slots
    BY <1>1, <1>2
  <2> QED
    BY <1>4, <2>1, <2>2 DEF CubeInv, TypeOK
<1>6. LoopInv'
  BY <1>1, <1>3 DEF CubeInv, LoopInv, Paging, Busy, Over
<1>7. SwayInv'
  <2>1. UNCHANGED <<route, scan, pend, sock, privq, zbusy, dbusy>>
    BY <1>1
  <2>2. slot' # None
    BY <1>2, CodaAssumption DEF Slots
  <2> QED
    BY <1>1, <1>2, <1>3, <2>1, <2>2 DEF CubeInv, SwayInv, Held
<1>8. SendInv'
  BY <1>1, <1>3 DEF CubeInv, SendInv, Busy
<1> QED
  BY <1>4, <1>5, <1>6, <1>7, <1>8 DEF CubeInv

\* db_get() gives up: the frame is released, nothing is shown.
LEMMA DbFailInv ==
  ASSUME CubeInv, DbFail PROVE CubeInv'
<1> USE DEF opts, agent, held, swayV, conn
<1>1. mok /\ route = "dmabuf" /\ mfi.b \in Bufs /\ dpc = "idle" /\ slot = None /\ pc = "dbget"
  <2>1. pc = "dbget"
    BY DEF DbFail
  <2> QED
    BY <2>1, Places DEF CubeInv, LoopInv, SwayInv
<1>2. /\ pc' = "exit" /\ buf' = IF pipeline THEN buf ELSE Released({mfi.b})
      /\ UNCHANGED <<opts, inflight, outq, agent, fnum, cur, aubuf, mfi, mok, slot, dry, rel,
                     held, swayV, conn, stop, last>>
  BY <1>1 DEF DbFail, Break
<1>3. HoldInv' /\ buf' \in [Bufs -> {"free", "queued", "out"}]
  BY <1>1, <1>2, GivenBack
<1>4. TypeOK'
  <2>1. UNCHANGED <<opts, inflight, outq, agent, fnum, cur, aubuf, mfi, mok, slot, dry, rel,
                    held, swayV, conn, stop, last>>
    BY <1>2
  <2>2. pc' = "exit"
    BY <1>2
  <2> QED
    BY <1>3, <2>1, <2>2 DEF CubeInv, TypeOK
<1>5. LoopInv'
  BY <1>1, <1>2 DEF CubeInv, LoopInv, Paging, Busy, Over
<1>6. SwayInv'
  BY SwaySame, <1>1, <1>2 DEF CubeInv
<1>7. SendInv'
  BY <1>1, <1>2 DEF CubeInv, SendInv, Busy
<1> QED
  BY <1>3, <1>4, <1>5, <1>6, <1>7 DEF CubeInv

-----------------------------------------------------------------------------
(* The rest of an iteration.                                               *)

\* With --pipeline the worker gets the next job while this frame is presented.
LEMMA SubmitNextInv ==
  ASSUME CubeInv, SubmitNext PROVE CubeInv'
<1> USE DEF opts, vdec, held, swayV, conn
<1>1. /\ pc = "submit" /\ pc' = "pace" /\ dpc = "idle" /\ ToSet(job.rel) = {}
      /\ cur \in {0, 1} /\ fnum \in Nat /\ rel \in Seq(Bufs) /\ Once(rel)
  <2>1. pc = "submit" /\ pc' = "pace"
    BY DEF SubmitNext
  <2>2. dpc = "idle"
    BY <2>1, Places
  <2>3. ToSet(job.rel) = {}
    BY <2>2, Places
  <2> QED
    BY <2>1, <2>2, <2>3 DEF CubeInv, TypeOK, HoldInv
<1>2. UNCHANGED <<opts, vdec, fnum, aubuf, mfi, mok, slot, dry, held, swayV, conn, stop, last>>
  BY DEF SubmitNext
<1>3. SwayInv'
  BY SwaySame, <1>1, <1>2 DEF CubeInv
<1>4. CASE ~pipeline
  <2>1. UNCHANGED <<dpc, au, job, fi, ok, rel, cur>>
    BY <1>4 DEF SubmitNext, agent
  <2>2. TypeOK'
    BY <1>1, <1>2, <2>1 DEF CubeInv, TypeOK
  <2>3. LoopInv'
    BY <1>1, <1>2, <1>4, <2>1 DEF CubeInv, LoopInv, Paging, Busy, Over
  <2>4. Fetched' = Fetched /\ Taken' = Taken
    BY <1>1, <1>2, <1>4, <2>1 DEF Fetched, Taken
  <2>5. HoldInv'
    BY HoldSame, <1>2, <2>1, <2>4 DEF CubeInv
  <2>6. SendInv'
    BY SendSame, <1>1, <1>2, <2>1 DEF CubeInv
  <2> QED
    BY <1>3, <2>2, <2>3, <2>5, <2>6 DEF CubeInv
<1>5. CASE pipeline
  <2>1. PICK q : q = IF mok /\ route # "zero" THEN Append(rel, mfi.b) ELSE rel
    OBVIOUS
  <2>2. /\ job' = [au |-> 1 - cur, pts |-> Pic(fnum + 1), rel |-> q]
        /\ dpc' = "rel" /\ rel' = <<>> /\ UNCHANGED <<au, fi, ok>> /\ cur' = 1 - cur
    BY <1>5, <2>1 DEF SubmitNext, Submit
  <2>3. mfi = fi /\ mok = ok /\ (mok => mfi.b \in Bufs)
    BY <1>1, <1>5 DEF CubeInv, LoopInv
  <2>4. Fetched = (IF mok THEN {mfi.b} ELSE {}) /\ Fetched' = {} /\ Taken = {}
    BY <1>1, <1>5, <2>2, <2>3, FetchedIs, FetchedIsNext DEF Taken
  <2>5. Taken' = IF mok /\ route = "zero" THEN {mfi.b} ELSE {}
    BY <1>1, <1>2 DEF Taken
  <2>6. /\ q \in Seq(Bufs) /\ Once(q)
        /\ \A c \in Bufs : c \in ToSet(q) <=> c \in ToSet(rel) \/ (mok /\ route # "zero" /\ c = mfi.b)
    <3>1. CASE mok /\ route # "zero"
      <4>1. PICK x \in Bufs : x = mfi.b
        BY <2>3, <3>1
      <4>2. x \notin ToSet(rel)
        BY <2>4, <3>1, <4>1 DEF CubeInv, HoldInv, OneHolder
      <4>3. q = Append(rel, x)
        BY <2>1, <3>1, <4>1
      <4>4. q \in Seq(Bufs) /\ ToSet(q) = ToSet(rel) \cup {x} /\ Once(q)
        BY <1>1, <4>2, <4>3, QueueAppend
      <4> QED
        BY <3>1, <4>1, <4>4
    <3>2. CASE ~(mok /\ route # "zero")
      BY <1>1, <2>1, <3>2
    <3> QED
      BY <3>1, <3>2
  <2>7. TypeOK'
    <3>1. 1 - cur \in {0, 1} /\ Pic(fnum + 1) \in Nat
      BY <1>1, CodaAssumption DEF Pic
    <3>2. job' \in [au : {0, 1}, pts : Nat, rel : Seq(Bufs)] /\ rel' \in Seq(Bufs) /\ cur' \in {0, 1}
      BY <2>2, <2>6, <3>1
    <3>3. dpc' = "rel" /\ pc' = "pace" /\ UNCHANGED <<au, fi, ok>>
      BY <1>1, <2>2
    <3> QED
      BY <1>2, <3>2, <3>3 DEF CubeInv, TypeOK
  <2>8. LoopInv'
    BY <1>1, <1>2, <1>5, <2>2, <2>3 DEF CubeInv, LoopInv, Paging, Busy, Over
  <2>9. HoldInv'
    <3>1. job'.rel = q /\ rel' = <<>> /\ ToSet(rel') = {} /\ Once(rel') /\ UNCHANGED <<buf, outq, zbusy>>
      BY <1>2, <2>2, EmptyQueue
    <3>2. ASSUME NEW c \in Bufs PROVE OneHolder(c)'
      BY <1>1, <2>4, <2>5, <2>6, <3>1 DEF CubeInv, HoldInv, OneHolder
    <3> QED
      BY <2>6, <3>1, <3>2 DEF CubeInv, HoldInv
  <2>10. SendInv'
    <3>1. aubuf[1 - cur] = Pic(fnum + 1)
      BY <1>1, <1>5 DEF CubeInv, SendInv
    <3>2. job'.au = cur' /\ job'.pts = Pic(fnum + 1) /\ cur' = 1 - cur /\ aubuf' = aubuf
      BY <1>2, <2>2
    <3> QED
      BY <1>1, <3>1, <3>2 DEF SendInv
  <2> QED
    BY <1>3, <2>7, <2>8, <2>9, <2>10 DEF CubeInv
<1> QED
  BY <1>4, <1>5

\* The pacing wait ends.
LEMMA PaceEndInv ==
  ASSUME CubeInv, PaceEnd PROVE CubeInv'
<1> USE DEF opts, vdec, agent, held, swayV, conn
<1>1. /\ pc = "pace" /\ pc' = "present" /\ stop' \in BOOLEAN
      /\ UNCHANGED <<opts, vdec, agent, fnum, cur, aubuf, mfi, mok, slot, dry, rel, held, swayV,
                     conn, last>>
  BY DEF PaceEnd
<1>2. TypeOK'
  BY <1>1 DEF CubeInv, TypeOK
<1>3. LoopInv'
  BY <1>1 DEF CubeInv, LoopInv, Paging, Busy, Over
<1>4. Fetched' = Fetched /\ Taken' = Taken
  BY <1>1 DEF Fetched, Taken
<1>5. HoldInv'
  BY HoldSame, <1>1, <1>4 DEF CubeInv
<1>6. SwayInv'
  BY SwaySame, <1>1 DEF CubeInv
<1>7. SendInv'
  BY SendSame, <1>1 DEF CubeInv
<1> QED
  BY <1>2, <1>3, <1>5, <1>6, <1>7 DEF CubeInv

\* The presenter marks the buffer busy and commits it to sway.
LEMMA PresentInv ==
  ASSUME CubeInv, Present PROVE CubeInv'
<1> USE DEF opts, vdec, agent
<1>1. /\ pc = "present" /\ pc' = "poll"
      /\ UNCHANGED <<opts, vdec, agent, fnum, cur, aubuf, mfi, mok, slot, dry, rel, zknown,
                     dbNext, up, privq>>
  BY DEF Present
<1>2. LoopInv'
  BY <1>1 DEF CubeInv, LoopInv, Paging, Busy, Over
<1>3. SendInv'
  BY SendSame, <1>1 DEF CubeInv
<1>4. Fetched' = Fetched /\ Taken' = {} /\ Taken = IF mok /\ route = "zero" THEN {mfi.b} ELSE {}
  BY <1>1 DEF Fetched, Taken
<1>5. /\ mfi.pts \in Nat /\ last \in Nat /\ slot \in Slots \cup {None} /\ zbusy \in [Bufs -> BOOLEAN]
      /\ dbusy \in [Slots -> BOOLEAN] /\ {scan, pend} \subseteq Shareable \cup {None}
      /\ sock \subseteq Shareable \cup {FrameDone} /\ (mok => mfi.b \in Bufs)
      /\ Bufs \cap Slots = {} /\ None \notin Bufs \cup Slots /\ FrameDone \notin Bufs \cup Slots
      /\ slot # None => route = "dmabuf"
      /\ cb \in BOOLEAN /\ dead \in BOOLEAN /\ stop \in BOOLEAN
  BY SMTT(30), CodaAssumption, <1>1 DEF CubeInv, TypeOK, LoopInv, SwayInv, Slots
<1>6. CASE ~HasBuffer
  <2>1. last' \in Nat /\ UNCHANGED <<zbusy, dbusy, scan, pend, sock, cb, dead, stop>>
    BY <1>5, <1>6 DEF Present
  <2>2. TypeOK'
    BY <1>1, <2>1 DEF CubeInv, TypeOK
  <2>3. Taken = {}
    BY <1>4, <1>6 DEF HasBuffer
  <2>4. HoldInv'
    BY HoldSame, <1>1, <1>4, <2>1, <2>3 DEF CubeInv
  <2>5. SwayInv'
    BY SwaySame, <1>1, <2>1 DEF CubeInv
  <2> QED
    BY <1>2, <1>3, <2>2, <2>4, <2>5 DEF CubeInv
<1>7. CASE HasBuffer
  <2>1. PICK x : x = IF route = "zero" THEN mfi.b ELSE slot
    OBVIOUS
  <2>2. /\ zbusy' = [b \in Bufs |-> zbusy[b] \/ b = x]
        /\ dbusy' = [i \in Slots |-> dbusy[i] \/ i = x]
        /\ \/ /\ pend' = x /\ sock' = sock \cup ({pend} \ {None}) /\ cb' = TRUE /\ last' = mfi.pts
              /\ UNCHANGED <<scan, dead, stop>>
           \/ /\ dead' = TRUE /\ stop' = TRUE /\ cb' = (cb \/ ~dead)
              /\ UNCHANGED <<scan, pend, sock, last>>
    BY <1>7, <2>1 DEF Present
  <2>3. \/ route = "zero" /\ mok /\ x = mfi.b /\ x \in Bufs /\ x \notin Slots
        \/ route = "dmabuf" /\ x = slot /\ x \in Slots /\ x \notin Bufs
    BY <1>5, <1>7, <2>1 DEF HasBuffer
  <2>4. /\ zbusy' \in [Bufs -> BOOLEAN] /\ \A b \in Bufs : zbusy'[b] <=> zbusy[b] \/ b = x
        /\ dbusy' \in [Slots -> BOOLEAN] /\ \A i \in Slots : dbusy'[i] <=> dbusy[i] \/ i = x
    BY <1>5, <2>2
  <2>5. ~Held(x) /\ x # None /\ x # FrameDone
    <3>1. CASE route = "zero"
      <4>1. ~zbusy[x]
        BY <1>4, <2>3, <3>1 DEF CubeInv, HoldInv, OneHolder
      <4> QED
        BY <1>5, <2>3, <3>1, <4>1 DEF Held
    <3>2. CASE route # "zero"
      <4>1. ~dbusy[x]
        BY <1>1, <1>5, <2>3, <3>2 DEF CubeInv, SwayInv
      <4> QED
        BY <1>5, <2>3, <3>2, <4>1 DEF Held
    <3> QED
      BY <3>1, <3>2
  <2>6. TypeOK'
    <3>1. /\ {scan', pend'} \subseteq Shareable \cup {None} /\ sock' \subseteq Shareable \cup {FrameDone}
      BY <1>5, <2>2, <2>3 DEF Shareable
    <3>2. cb' \in BOOLEAN /\ dead' \in BOOLEAN /\ stop' \in BOOLEAN /\ last' \in Nat
      BY <1>5, <2>2
    <3> QED
      BY <1>1, <2>4, <3>1, <3>2 DEF CubeInv, TypeOK
  <2>7. HoldInv'
    <3>1. \A b \in Bufs : zbusy'[b] <=> zbusy[b] \/ b \in Taken
      BY <1>4, <2>3, <2>4
    <3>2. ASSUME NEW c \in Bufs PROVE OneHolder(c)'
      BY <1>1, <1>4, <3>1 DEF CubeInv, HoldInv, OneHolder
    <3> QED
      BY <1>1, <3>2 DEF CubeInv, HoldInv
  <2>8. SwayInv'
    <3>1. \A y : Held(y) => Held(y)'
      BY <1>1, <2>4 DEF Held
    <3>2. \A y : y = x => Held(y)'
      BY <1>1, <2>3, <2>4 DEF Held
    <3>3. /\ scan # None => Held(scan) /\ scan \notin sock \cup privq
          /\ pend # None => Held(pend) /\ pend \notin sock \cup privq
          /\ scan # None => scan # pend
          /\ \A y \in sock \cup privq : y # FrameDone => Held(y)
          /\ \A y \in sock \cap privq : y = FrameDone
          /\ route # "zero" => \A b \in Bufs : ~zbusy[b]
      BY DEF CubeInv, SwayInv
    <3>4. route' # "zero" => \A b \in Bufs : ~zbusy'[b]
      BY <1>1, <2>3, <2>4, <3>3
    <3>5. /\ \A y \in sock' \cup privq' : y # FrameDone => Held(y)'
          /\ \A y \in sock' \cap privq' : y = FrameDone
      BY <1>1, <2>2, <3>1, <3>3
    <3>6. /\ scan' # None => Held(scan)' /\ scan' \notin sock' \cup privq'
          /\ scan' # None => scan' # pend'
      <4>1. scan' = scan
        BY <2>2
      <4>2. ASSUME scan # None PROVE scan \notin sock' \cup privq' /\ scan # pend'
        BY <1>1, <2>2, <2>5, <3>3, <4>2
      <4>3. ASSUME scan # None PROVE Held(scan)'
        BY <1>1, <2>4, <3>3, <4>1, <4>3 DEF Held
      <4> QED
        BY <4>1, <4>2, <4>3
    <3>7. pend' # None => Held(pend)' /\ pend' \notin sock' \cup privq'
      <4>1. CASE pend' = x /\ sock' = sock \cup ({pend} \ {None})
        <5>1. Held(pend)'
          BY <1>1, <2>3, <2>4, <4>1 DEF Held
        <5>2. x \notin sock /\ x \notin privq /\ x # pend
          BY <2>5, <3>3
        <5> QED
          BY <1>1, <4>1, <5>1, <5>2
      <4>2. CASE UNCHANGED <<pend, sock>>
        <5>1. ASSUME pend # None PROVE Held(pend)'
          BY <1>1, <2>4, <3>3, <4>2, <5>1 DEF Held
        <5> QED
          BY <1>1, <3>3, <4>2, <5>1
      <4> QED
        BY <2>2, <4>1, <4>2
    <3>8. /\ slot' # None => route' = "dmabuf" /\ pc' \in {"submit", "pace", "present", "poll", "dispatch"}
          /\ slot' # None /\ pc' \in {"submit", "pace", "present"} => ~dbusy'[slot']
      BY <1>1, <1>5
    <3> QED
      BY <3>4, <3>5, <3>6, <3>7, <3>8 DEF SwayInv
  <2> QED
    BY <1>2, <1>3, <2>6, <2>7, <2>8 DEF CubeInv
<1> QED
  BY <1>6, <1>7

\* SDL's event pump moves the presenter's events to its private queue.
LEMMA PollEventsInv ==
  ASSUME CubeInv, PollEvents PROVE CubeInv'
<1> USE DEF opts, vdec, agent, held, swayV
<1>1. /\ pc = "poll" /\ pc' = "dispatch"
      /\ UNCHANGED <<opts, vdec, agent, fnum, cur, aubuf, mfi, mok, slot, dry, rel, held, swayV,
                     cb, dead, stop, last>>
      /\ (privq' = privq \cup sock /\ sock' = {}) \/ UNCHANGED <<privq, sock>>
  BY DEF PollEvents
<1>2. TypeOK'
  BY <1>1 DEF CubeInv, TypeOK
<1>3. LoopInv'
  BY <1>1 DEF CubeInv, LoopInv, Paging, Busy, Over
<1>4. Fetched' = Fetched /\ Taken' = Taken
  BY <1>1 DEF Fetched, Taken
<1>5. HoldInv'
  BY HoldSame, <1>1, <1>4 DEF CubeInv
<1>6. SwayInv'
  BY <1>1 DEF CubeInv, SwayInv, Held
<1>7. SendInv'
  BY SendSame, <1>1 DEF CubeInv
<1> QED
  BY <1>2, <1>3, <1>5, <1>6, <1>7 DEF CubeInv

\* The end of a frame: events are dispatched, and with a worker an access unit
\* is written.
LEMMA LoopEndInv ==
  ASSUME CubeInv, LoopEnd PROVE CubeInv'
<1> USE DEF opts, vdec, agent, swayV
<1>1. /\ pc = "dispatch" /\ pc' \in {"exit", "top"} /\ fnum' = fnum + 1
      /\ aubuf' = IF pipeline THEN [aubuf EXCEPT ![1 - cur] = Pic(fnum + 2)] ELSE aubuf
      /\ mfi' = NoPic /\ mok' = FALSE /\ slot' = None
      /\ UNCHANGED <<opts, vdec, agent, cur, dry, zknown, dbNext, swayV, stop, last>>
  BY DEF LoopEnd
<1>2. cur \in {0, 1} /\ fnum \in Nat /\ aubuf \in [{0, 1} -> Nat]
  BY DEF CubeInv, TypeOK
<1>3. /\ aubuf' \in [{0, 1} -> Nat] /\ aubuf'[cur] = aubuf[cur]
      /\ pipeline => aubuf'[1 - cur] = Pic(fnum' + 1)
  <2>1. Pic(fnum + 2) \in Nat /\ Pic(fnum' + 1) = Pic(fnum + 2) /\ 1 - cur \in {0, 1} /\ 1 - cur # cur
    BY <1>1, <1>2, CodaAssumption DEF Pic
  <2>2. CASE pipeline
    <3>1. aubuf' = [aubuf EXCEPT ![1 - cur] = Pic(fnum + 2)]
      BY <1>1, <2>2
    <3> QED
      BY <1>2, <2>1, <3>1
  <2>3. CASE ~pipeline
    BY <1>1, <1>2, <2>3
  <2> QED
    BY <2>2, <2>3
<1>4. LoopInv'
  BY <1>1 DEF CubeInv, LoopInv, Paging, Busy, Over
<1>5. Fetched' = Fetched /\ Taken' = Taken
  <2>1. Fetched' = Fetched
    BY <1>1, FetchedSame
  <2>2. Taken' = {} /\ Taken = {}
    BY <1>1 DEF Taken
  <2> QED
    BY <2>1, <2>2
<1>6. SendInv'
  BY <1>1, <1>3 DEF CubeInv, SendInv
<1>7. /\ mfi' \in [b : Bufs \cup {None}, pts : Nat] /\ fnum' \in Nat
  BY <1>1, <1>2 DEF NoPic
<1>8. CASE Pump
  <2>1. TypeOK'
    <3>1. pc' \in {"exit", "top"} /\ mok' = FALSE /\ slot' = None
          /\ UNCHANGED <<opts, vdec, agent, cur, dry, zknown, dbNext, swayV, stop, last>>
      BY <1>1
    <3>2. /\ sock' \subseteq Shareable \cup {FrameDone} /\ privq' \subseteq Shareable \cup {FrameDone}
          /\ cb' \in BOOLEAN /\ dead' \in BOOLEAN /\ rel' \in Seq(Bufs)
          /\ zbusy' \in [Bufs -> BOOLEAN] /\ dbusy' \in [Slots -> BOOLEAN]
      BY <1>8, PumpTypes
    <3>3. aubuf' \in [{0, 1} -> Nat]
      BY <1>3
    <3>4. pc' \in {"setup", "start", "top", "wait", "take", "dbget", "submit", "pace", "present",
                   "poll", "dispatch", "exit", "closed", "done"}
          /\ slot' \in Slots \cup {None} /\ mok' \in BOOLEAN
      BY <3>1
    <3>5. UNCHANGED <<opts, vdec, agent, cur, dry, zknown, dbNext, swayV, stop, last>>
      BY <3>1
    <3>6. {fi', mfi'} \subseteq [b : Bufs \cup {None}, pts : Nat]
      BY <1>7, <3>5 DEF CubeInv, TypeOK
    <3> QED
      BY <1>7, <3>2, <3>3, <3>4, <3>5, <3>6 DEF CubeInv, TypeOK
  <2>2. HoldInv'
    BY PumpHold, <1>1, <1>5, <1>8
  <2>3. SwayInv'
    BY PumpSway, <1>1, <1>8
  <2> QED
    BY <1>4, <1>6, <2>1, <2>2, <2>3 DEF CubeInv
<1>9. CASE UNCHANGED <<conn, zbusy, dbusy, rel>>
  <2>1. TypeOK'
    <3>1. pc' \in {"exit", "top"} /\ mok' = FALSE /\ slot' = None
          /\ UNCHANGED <<opts, vdec, agent, cur, dry, zknown, dbNext, swayV, stop, last>>
      BY <1>1
    <3>2. UNCHANGED <<sock, privq, cb, dead, zbusy, dbusy, rel>>
      BY <1>9 DEF conn
    <3>3. aubuf' \in [{0, 1} -> Nat]
      BY <1>3
    <3>4. pc' \in {"setup", "start", "top", "wait", "take", "dbget", "submit", "pace", "present",
                   "poll", "dispatch", "exit", "closed", "done"}
          /\ slot' \in Slots \cup {None} /\ mok' \in BOOLEAN
      BY <3>1
    <3>5. UNCHANGED <<opts, vdec, agent, cur, dry, zknown, dbNext, swayV, stop, last>>
      BY <3>1
    <3>6. {fi', mfi'} \subseteq [b : Bufs \cup {None}, pts : Nat]
      BY <1>7, <3>5 DEF CubeInv, TypeOK
    <3> QED
      BY SMTT(30), <1>7, <3>2, <3>3, <3>4, <3>5, <3>6 DEF CubeInv, TypeOK
  <2>2. HoldInv'
    BY HoldSame, <1>1, <1>5, <1>9 DEF CubeInv
  <2>3. SwayInv'
    BY <1>1, <1>9 DEF CubeInv, SwayInv, Held, conn
  <2> QED
    BY <1>4, <1>6, <2>1, <2>2, <2>3 DEF CubeInv
<1> QED
  BY <1>8, <1>9 DEF LoopEnd

-----------------------------------------------------------------------------
(* The end of the run, and sway.                                           *)

\* After the loop the worker's last picture goes back.
LEMMA ExitReleaseInv ==
  ASSUME CubeInv, ExitRelease PROVE CubeInv'
<1> USE DEF opts, agent, held, swayV, conn
<1>1. /\ pc = "exit" /\ dpc = "idle" /\ rel' = <<>> /\ pc' = "closed"
      /\ buf' = Released(ToSet(rel) \cup (IF pipeline /\ ok THEN {fi.b} ELSE {}))
      /\ UNCHANGED <<opts, inflight, outq, agent, fnum, cur, aubuf, mfi, mok, slot, dry, held,
                     swayV, conn, stop, last>>
  BY DEF ExitRelease, WorkerIdle
<1>2. /\ Fetched = (IF pipeline /\ ok THEN {fi.b} ELSE {}) /\ Fetched' = {}
      /\ Taken = {} /\ Taken' = {} /\ ToSet(job.rel) = {}
  BY <1>1, FetchedIs, FetchedIsNext, Places DEF Taken
<1>3. PICK S : S = ToSet(rel) \cup Fetched
  OBVIOUS
<1>4. /\ buf' \in [Bufs -> {"free", "queued", "out"}]
      /\ \A c \in Bufs : buf'[c] = IF c \in ToSet(rel) \/ c \in Fetched THEN "free" ELSE buf[c]
  <2>1. buf' = Released(S)
    BY <1>1, <1>2, <1>3
  <2> QED
    BY <1>3, <2>1, ReleasedIs
<1>5. rel' \in Seq(Bufs) /\ ToSet(rel') = {} /\ Once(rel')
  BY <1>1, EmptyQueue
<1>6. TypeOK'
  <2>1. /\ pc' = "closed"
        /\ UNCHANGED <<opts, inflight, outq, agent, fnum, cur, aubuf, mfi, mok, slot, dry, held,
                       swayV, conn, stop, last>>
    BY <1>1
  <2> QED
    BY <1>4, <1>5, <2>1 DEF CubeInv, TypeOK
<1>7. LoopInv'
  BY <1>1 DEF CubeInv, LoopInv, Paging, Busy, Over
<1>8. HoldInv'
  <2>1. ASSUME NEW c \in Bufs PROVE OneHolder(c)'
    BY <1>1, <1>2, <1>4, <1>5 DEF CubeInv, HoldInv, OneHolder
  <2> QED
    BY <1>1, <1>5, <2>1 DEF CubeInv, HoldInv
<1>9. SwayInv'
  BY SwaySame, <1>1 DEF CubeInv, SwayInv
<1>10. SendInv'
  BY SendSame, <1>1 DEF CubeInv
<1> QED
  BY <1>6, <1>7, <1>8, <1>9, <1>10 DEF CubeInv

\* vd_close() ends the channel and every buffer of it.
LEMMA VdCloseInv ==
  ASSUME CubeInv, VdClose PROVE CubeInv'
<1> USE DEF opts, vdec, agent, held, swayV, conn
<1>1. /\ pc = "closed" /\ pc' = "done"
      /\ UNCHANGED <<opts, vdec, agent, fnum, cur, aubuf, mfi, mok, slot, dry, rel, held,
                     swayV, conn, stop, last>>
  BY DEF VdClose
<1>2. TypeOK'
  BY <1>1 DEF CubeInv, TypeOK
<1>3. LoopInv'
  BY <1>1 DEF CubeInv, LoopInv, Paging, Busy, Over
<1>4. Fetched' = Fetched /\ Taken' = Taken
  BY <1>1 DEF Fetched, Taken
<1>5. HoldInv'
  BY HoldSame, <1>1, <1>4 DEF CubeInv
<1>6. SwayInv'
  BY SwaySame, <1>1 DEF CubeInv, SwayInv
<1>7. SendInv'
  BY SendSame, <1>1 DEF CubeInv
<1> QED
  BY <1>2, <1>3, <1>5, <1>6, <1>7 DEF CubeInv

\* sway's steps and a signal leave the decoder and the main thread alone.
LEMMA SwayOnly ==
  ASSUME CubeInv, UNCHANGED <<opts, vdec, agent, mainV, rel, held>>
  PROVE  LoopInv' /\ HoldInv' /\ SendInv'
<1> USE DEF opts, vdec, agent, mainV, held
<1>1. LoopInv'
  BY DEF CubeInv, LoopInv
<1>2. Fetched' = Fetched /\ Taken' = Taken
  BY DEF Fetched, Taken
<1>3. HoldInv'
  BY HoldSame, <1>2 DEF CubeInv
<1>4. SendInv'
  BY DEF CubeInv, SendInv
<1> QED
  BY <1>1, <1>3, <1>4

\* sway scans what was committed and releases what it scanned.
LEMMA SwayShowInv ==
  ASSUME CubeInv, SwayShow PROVE CubeInv'
<1> USE DEF opts, vdec, agent, mainV, held
<1>1. /\ pend # None /\ scan' = pend /\ pend' = None
      /\ sock' = sock \cup ({scan} \ {None}) \cup (IF cb /\ FrameDone \notin privq THEN {FrameDone} ELSE {})
      /\ UNCHANGED <<opts, vdec, agent, mainV, rel, held, up, privq, cb, dead, stop, last>>
  BY DEF SwayShow
<1>2. LoopInv' /\ HoldInv' /\ SendInv'
  BY <1>1, SwayOnly
<1>3. {scan, pend} \subseteq Shareable \cup {None} /\ sock \subseteq Shareable \cup {FrameDone}
  BY DEF CubeInv, TypeOK
<1>4. TypeOK'
  <2>1. {scan', pend'} \subseteq Shareable \cup {None} /\ sock' \subseteq Shareable \cup {FrameDone}
    BY <1>1, <1>3
  <2>2. UNCHANGED <<opts, vdec, agent, mainV, rel, held, up, privq, cb, dead, stop, last>>
    BY <1>1
  <2> QED
    BY <2>1, <2>2 DEF CubeInv, TypeOK
<1>5. SwayInv'
  <2>1. pend # FrameDone /\ FrameDone # None
    BY <1>1, <1>3, CodaAssumption DEF Shareable, Slots
  <2>2. UNCHANGED <<route, slot, pc, zbusy, dbusy, privq>>
    BY <1>1
  <2> QED
    BY <1>1, <2>1, <2>2 DEF CubeInv, SwayInv, Held
<1> QED
  BY <1>2, <1>4, <1>5 DEF CubeInv

\* sway dies: nobody reads any buffer from then on.
LEMMA SwayDiesInv ==
  ASSUME CubeInv, SwayDies PROVE CubeInv'
<1> USE DEF opts, vdec, agent, mainV, held
<1>1. /\ up' = FALSE /\ scan' = None /\ pend' = None /\ sock' = {}
      /\ UNCHANGED <<opts, vdec, agent, mainV, rel, held, privq, cb, dead, stop, last>>
  BY DEF SwayDies
<1>2. LoopInv' /\ HoldInv' /\ SendInv'
  BY <1>1, SwayOnly
<1>3. TypeOK'
  <2>1. up' \in BOOLEAN /\ {scan', pend'} \subseteq Shareable \cup {None}
        /\ sock' \subseteq Shareable \cup {FrameDone}
    BY <1>1
  <2>2. UNCHANGED <<opts, vdec, agent, mainV, rel, held, privq, cb, dead, stop, last>>
    BY <1>1
  <2> QED
    BY <2>1, <2>2 DEF CubeInv, TypeOK
<1>4. SwayInv'
  BY <1>1 DEF CubeInv, SwayInv, Held
<1> QED
  BY <1>2, <1>3, <1>4 DEF CubeInv

\* A signal only sets the flag.
LEMMA SignalInv ==
  ASSUME CubeInv, Signal PROVE CubeInv'
<1> USE DEF opts, vdec, agent, mainV, held, swayV, conn
<1>1. /\ stop' = TRUE /\ UNCHANGED <<opts, vdec, agent, mainV, rel, held, swayV, conn, last>>
  BY DEF Signal
<1>2. LoopInv' /\ HoldInv' /\ SendInv'
  BY <1>1, SwayOnly
<1>3. TypeOK'
  <2>1. stop' \in BOOLEAN /\ UNCHANGED <<opts, vdec, agent, mainV, rel, held, swayV, conn, last>>
    BY <1>1
  <2> QED
    BY <2>1 DEF CubeInv, TypeOK
<1>4. SwayInv'
  BY <1>1 DEF CubeInv, SwayInv, Held
<1> QED
  BY <1>2, <1>3, <1>4 DEF CubeInv

\* A step that changes nothing.
LEMMA StutterInv ==
  ASSUME CubeInv, UNCHANGED vars PROVE CubeInv'
<1> USE DEF vars, opts, vdec, agent, mainV, held, swayV, conn
<1>1. LoopInv' /\ HoldInv' /\ SendInv'
  BY SwayOnly
<1>2. TypeOK'
  BY DEF CubeInv, TypeOK
<1>3. SwayInv'
  BY DEF CubeInv, SwayInv, Held
<1> QED
  BY <1>1, <1>2, <1>3 DEF CubeInv

-----------------------------------------------------------------------------
\* Every step keeps the invariant.
LEMMA NextInv ==
  ASSUME CubeInv, [Next]_vars PROVE CubeInv'
<1>1. CASE Main
  BY <1>1, SetupSendInv, SetupGetInv, StartInv, LoopTopInv, WaitInv, TakeZeroCopyInv, TakeCopyInv,
     TakeDropInv, DbGetInv, DbWaitInv, DbFailInv, SubmitNextInv, PaceWaitInv, PaceEndInv,
     PresentInv, PollEventsInv, LoopEndInv, ExitReleaseInv, VdCloseInv DEF Main
<1>2. CASE Finished
  BY <1>2, StutterInv DEF Finished
<1> QED
  BY <1>1, <1>2, DecodeInv, VdecDecodeInv, SwayShowInv, SwayDiesInv, SignalInv, StutterInv DEF Next

\* The inductive invariant holds in every state of every run of coda-cube.
THEOREM CubeSound == Spec => []CubeInv
<1>1. Init => CubeInv
  BY InitInv
<1>2. CubeInv /\ [Next]_vars => CubeInv'
  BY NextInv
<1> QED
  BY <1>1, <1>2, PTL DEF Spec

-----------------------------------------------------------------------------
(* What the invariant says of the properties.                              *)

\* Two sets that share nothing, counted.
LEMMA TwoSets ==
  ASSUME NEW S, NEW T, IsFiniteSet(S), IsFiniteSet(T), S \cap T = {}
  PROVE  /\ IsFiniteSet(S \cup T) /\ Cardinality(S \cup T) = Cardinality(S) + Cardinality(T)
         /\ Cardinality(S) \in Nat /\ Cardinality(T) \in Nat
<1>1. /\ IsFiniteSet(S \cup T)
      /\ Cardinality(S \cup T) = Cardinality(S) + Cardinality(T) - Cardinality(S \cap T)
  BY FS_Union
<1>2. Cardinality(S \cap T) = 0
  BY FS_EmptySet
<1>3. Cardinality(S) \in Nat /\ Cardinality(T) \in Nat
  BY FS_CardinalityType
<1> QED
  BY <1>1, <1>2, <1>3

\* Every buffer that the decoder handed out has one holder; so the holders'
\* counts add up.
LEMMA Accounted == CubeInv => FramesAccounted
<1> SUFFICES ASSUME CubeInv PROVE FramesAccounted
  OBVIOUS
<1>1. PICK J, R, Z, F, T : /\ J = ToSet(job.rel) /\ R = ToSet(rel) /\ Z = {b \in Bufs : zbusy[b]}
                           /\ F = Fetched /\ T = Taken
  OBVIOUS
<1>2. /\ job.rel \in Seq(Bufs) /\ rel \in Seq(Bufs) /\ Once(job.rel) /\ Once(rel)
      /\ IsFiniteSet(Bufs)
  BY CodaAssumption DEF CubeInv, TypeOK, HoldInv
<1>3. J \subseteq Bufs /\ R \subseteq Bufs /\ Z \subseteq Bufs
  <2>1. PICK p \in Seq(Bufs), q \in Seq(Bufs) : p = job.rel /\ q = rel
    BY <1>2
  <2>2. /\ ToSet(p) = {p[i] : i \in 1 .. Len(p)} /\ ToSet(q) = {q[i] : i \in 1 .. Len(q)}
    BY <2>1, QueueSet
  <2>3. ToSet(p) \subseteq Bufs /\ ToSet(q) \subseteq Bufs
    BY <2>1, <2>2
  <2> QED
    BY <1>1, <2>1, <2>3
<1>4. F \subseteq Bufs /\ T \subseteq Bufs
  BY <1>1 DEF CubeInv, LoopInv, Fetched, Taken
<1>5. /\ IsFiniteSet(F) /\ IsFiniteSet(T) /\ IsFiniteSet(J) /\ IsFiniteSet(R) /\ IsFiniteSet(Z)
  BY <1>2, <1>3, <1>4, FS_Subset
<1>6. Cardinality(J) = Len(job.rel) /\ Cardinality(R) = Len(rel)
  BY <1>1, <1>2, QueueCount
<1>7. \A b \in Bufs :
        /\ b \in Out <=> b \in J \/ b \in R \/ b \in Z \/ b \in F \/ b \in T
        /\ b \in J => b \notin R /\ b \notin Z /\ b \notin F /\ b \notin T
        /\ b \in R => b \notin Z /\ b \notin F /\ b \notin T
        /\ b \in Z => b \notin F /\ b \notin T
        /\ b \in F => b \notin T
  BY <1>1 DEF CubeInv, HoldInv, OneHolder, Out
<1>8. Out = J \cup R \cup Z \cup F \cup T
  BY <1>3, <1>4, <1>7 DEF Out
<1>9. /\ J \cap R = {} /\ (J \cup R) \cap Z = {} /\ (J \cup R \cup Z) \cap F = {}
      /\ (J \cup R \cup Z \cup F) \cap T = {}
  BY <1>3, <1>4, <1>7
<1>10. Cardinality(Out) = Cardinality(J) + Cardinality(R) + Cardinality(Z)
                          + Cardinality(F) + Cardinality(T)
  <2>1. PICK A, B, C : A = J \cup R /\ B = A \cup Z /\ C = B \cup F
    OBVIOUS
  <2>2. IsFiniteSet(A) /\ Cardinality(A) = Cardinality(J) + Cardinality(R)
        /\ Cardinality(J) \in Nat /\ Cardinality(R) \in Nat
    BY <1>5, <1>9, <2>1, TwoSets
  <2>3. IsFiniteSet(B) /\ Cardinality(B) = Cardinality(A) + Cardinality(Z) /\ Cardinality(Z) \in Nat
    <3>1. A \cap Z = {}
      BY <1>9, <2>1
    <3> QED
      BY <1>5, <2>1, <2>2, <3>1, TwoSets
  <2>4. IsFiniteSet(C) /\ Cardinality(C) = Cardinality(B) + Cardinality(F) /\ Cardinality(F) \in Nat
    <3>1. B \cap F = {}
      BY <1>9, <2>1
    <3> QED
      BY <1>5, <2>1, <2>3, <3>1, TwoSets
  <2>5. Cardinality(C \cup T) = Cardinality(C) + Cardinality(T) /\ Cardinality(T) \in Nat
    <3>1. C \cap T = {}
      BY <1>9, <2>1
    <3> QED
      BY <1>5, <2>4, <3>1, TwoSets
  <2>6. Out = C \cup T
    BY <1>8, <2>1
  <2> QED
    BY <2>2, <2>3, <2>4, <2>5, <2>6
<1>11. /\ Out = ToSet(job.rel) \cup ToSet(rel) \cup {b \in Bufs : zbusy[b]} \cup Fetched \cup Taken
       /\ Cardinality(Out) = Len(job.rel) + Len(rel) + Cardinality({b \in Bufs : zbusy[b]})
                             + Cardinality(Fetched) + Cardinality(Taken)
  BY <1>1, <1>6, <1>8, <1>10, Zenon
<1> QED
  BY <1>11, Zenon DEF FramesAccounted

\* sway reads what the presenter has marked and no copy is made into.
LEMMA SwayStable == CubeInv => SwayReadsStable
<1> SUFFICES ASSUME CubeInv PROVE SwayReadsStable
  OBVIOUS
<1>1. /\ scan # None => Held(scan)
      /\ pend # None => Held(pend)
      /\ slot # None /\ pc \in {"submit", "pace", "present"} => ~dbusy[slot]
  BY DEF CubeInv, SwayInv
<1>2. \A b \in Bufs : zbusy[b] => b \in Out
  BY DEF CubeInv, HoldInv, OneHolder, Out
<1>3. \A x : route = "zero" /\ Held(x) => x \in Out
  BY <1>2 DEF Held
<1>4. \A x : route = "dmabuf" /\ Held(x) => dbusy[x]
  BY DEF Held
<1>5. route = "zero" => {scan, pend} \ {None} \subseteq Out
  BY <1>1, <1>3
<1>6. route = "dmabuf" /\ pc \in {"submit", "pace", "present"} => slot \notin {scan, pend} \ {None}
  BY <1>1, <1>4
<1> QED
  BY <1>5, <1>6 DEF SwayReadsStable

\* Main thread, worker, decoder and sway hand the buffers round: each buffer
\* that the decoder handed out has one holder and is in one release queue
\* once, what sway reads is neither released nor copied into, and the access
\* unit that the worker sends is not rewritten - for every number of frame
\* and dumb buffers, access units, frames and every interleaving.
THEOREM FramesOwned == Spec => []BuffersOwned
<1>1. CubeInv => AuStable
  BY DEF CubeInv, SendInv, Busy, AuStable
<1>2. CubeInv => BuffersOwned
  BY <1>1, Accounted, SwayStable DEF CubeInv, BuffersOwned
<1> QED
  BY <1>2, CubeSound, PTL

-----------------------------------------------------------------------------
(* The order of the pictures. The line of a run is what waits for          *)
(* GET_FRAME followed by what is not decoded yet; pictures join it at its  *)
(* end and leave it at its front, wherever the decoder is.                 *)

Pictures == [b : Bufs, pts : Nat]
InLine(o, f)   == Len(o) + Len(f)
Number(o, f, i) == IF i <= Len(o) THEN o[i].pts ELSE f[i - Len(o)]

\* The numbers never go down along the line, and at most NAU pictures of it
\* are of one frame.
Sorted(o, f) == \A i, j \in 1 .. InLine(o, f) : i <= j => Number(o, f, i) <= Number(o, f, j)
Spaced(o, f) == \A i \in 1 .. InLine(o, f) :
                  i + NAU <= InLine(o, f) => Number(o, f, i) < Number(o, f, i + NAU)
Numbered(o, f) == \A i \in 1 .. InLine(o, f) : Number(o, f, i) > 0

\* Everything in line comes before picture p; or p itself ends the line, and
\* no more than c times.
Under(o, f, p) == \A i \in 1 .. InLine(o, f) : Number(o, f, i) < p
TailUnder(o, f, c, p) ==
    \A i \in 1 .. InLine(o, f) :
      Number(o, f, i) <= p /\ (i + c <= InLine(o, f) => Number(o, f, i) < p)

\* Once NAU - g pictures have left the line, only pictures after t are in it.
Newer(o, f, g, t) == \A i \in 1 .. InLine(o, f) : i + g >= NAU => Number(o, f, i) > t

\* The picture on screen or about to be, the frame to be sent next, and how
\* many access units of the worker's frame were sent and answered.
Top == IF mok THEN mfi.pts ELSE last
Upcoming ==
    IF pc \in {"setup", "start"} THEN 0
    ELSE IF pipeline
         THEN IF pc \in {"pace", "present", "poll", "dispatch"} THEN fnum + 2 ELSE fnum + 1
         ELSE IF pc = "top" THEN fnum ELSE fnum + 1
Sent == IF dpc = "rel" THEN 0 ELSE IF dpc = "send" THEN au - 1 ELSE au
Got  == IF dpc = "rel" THEN 0 ELSE IF dpc = "drain" THEN au ELSE au - 1

\* The worker's picture has not been taken by the main thread yet.
Untaken == pc = "wait" \/ (pipeline /\ pc \in {"top", "pace", "present", "poll", "dispatch"})

LineInv ==
    /\ Sorted(outq, inflight) /\ Spaced(outq, inflight) /\ Numbered(outq, inflight)
    /\ Under(outq, inflight, Pic(Upcoming)) /\ Top < Pic(Upcoming)
    /\ pc = "setup" => Under(outq, inflight, fnum + 1) /\ fnum <= NPages /\ last = 0

\* The picture taken is newer than the one on screen until it is shown.
TakenInv ==
    /\ route \in Routes
    /\ mok => mfi.pts >= last
    /\ mok /\ pc \in {"take", "dbget", "submit", "pace", "present"} => mfi.pts > last
    /\ pc \in {"setup", "start", "top", "wait"} => ~mok
    /\ slot # None => mok
    /\ route = "dmabuf" /\ mok /\ pc \in {"submit", "pace", "present"} => slot # None

\* A frame takes NAU pictures off the line before it is one, and at most
\* NAU - 1 that are not newer than the one before it are left in front.
FetchInv ==
    /\ dpc \in Busy => /\ job.pts + 1 = Pic(Upcoming) /\ Top < job.pts
                       /\ TailUnder(outq, inflight, Sent, job.pts)
                       /\ Newer(outq, inflight, Got, Top)
    /\ dpc = "drain" => /\ Newer(outq, inflight, 0, fi.pts) /\ fi.pts < Pic(Upcoming)
                        /\ au = NAU => fi.pts > Top
    /\ dpc = "idle" => Newer(outq, inflight, 0, Top)
    /\ dpc = "idle" /\ ok /\ Untaken =>
         /\ fi.pts > Top /\ fi.pts < Pic(Upcoming)
         /\ Newer(outq, inflight, 0, fi.pts)

OrderInv == pc \notin Over => LineInv /\ TakenInv /\ FetchInv

\* The line of two queues, by position.
LEMMA LineIs ==
  ASSUME NEW o \in Seq(Pictures), NEW f \in Seq(Nat)
  PROVE  /\ Len(o) \in Nat /\ Len(f) \in Nat /\ InLine(o, f) \in Nat
         /\ \A i \in 1 .. InLine(o, f) : Number(o, f, i) \in Nat
<1>1. Len(o) \in Nat /\ Len(f) \in Nat /\ InLine(o, f) \in Nat
  BY DEF InLine
<1>2. ASSUME NEW i \in 1 .. InLine(o, f) PROVE Number(o, f, i) \in Nat
  <2>1. CASE i <= Len(o)
    <3>1. i \in 1 .. Len(o)
      BY <1>1, <2>1
    <3>2. o[i] \in Pictures
      BY <3>1
    <3>3. o[i].pts \in Nat
      BY <3>2 DEF Pictures
    <3> QED
      BY <2>1, <3>3 DEF Number
  <2>2. CASE ~(i <= Len(o))
    <3>1. i - Len(o) \in 1 .. Len(f)
      BY <1>1, <2>2 DEF InLine
    <3>2. f[i - Len(o)] \in Nat
      BY <3>1
    <3> QED
      BY <2>2, <3>2 DEF Number
  <2> QED
    BY <2>1, <2>2
<1> QED
  BY <1>1, <1>2

\* The decoder finishes a picture: the line stays as it is.
LEMMA LineMove ==
  ASSUME NEW o \in Seq(Pictures), NEW f \in Seq(Nat), f # <<>>, NEW x \in Pictures,
         x.pts = Head(f)
  PROVE  /\ Append(o, x) \in Seq(Pictures) /\ Tail(f) \in Seq(Nat)
         /\ InLine(Append(o, x), Tail(f)) = InLine(o, f)
         /\ \A i \in 1 .. InLine(o, f) : Number(Append(o, x), Tail(f), i) = Number(o, f, i)
<1>1. /\ Append(o, x) \in Seq(Pictures)
      /\ Len(Append(o, x)) = Len(o) + 1 /\ Len(o) \in Nat
      /\ \A i \in 1 .. Len(o) : Append(o, x)[i] = o[i]
      /\ Append(o, x)[Len(o) + 1] = x
  OBVIOUS
<1>2. /\ Tail(f) \in Seq(Nat) /\ Len(f) \in Nat /\ Len(f) > 0 /\ Len(Tail(f)) = Len(f) - 1
      /\ Head(f) = f[1] /\ \A i \in 1 .. Len(f) - 1 : Tail(f)[i] = f[i + 1]
  BY HeadTail
<1>3. InLine(Append(o, x), Tail(f)) = InLine(o, f) /\ InLine(o, f) = Len(o) + Len(f)
  BY <1>1, <1>2 DEF InLine
<1>4. ASSUME NEW i \in 1 .. InLine(o, f)
      PROVE  Number(Append(o, x), Tail(f), i) = Number(o, f, i)
  <2>1. CASE i <= Len(o)
    <3>1. i \in 1 .. Len(o) /\ i <= Len(o) + 1
      BY <1>1, <2>1, <1>3
    <3>2. Append(o, x)[i] = o[i]
      BY <1>1, <3>1
    <3> QED
      BY <1>1, <2>1, <3>1, <3>2 DEF Number
  <2>2. CASE i = Len(o) + 1
    <3>1. ~(i <= Len(o)) /\ i <= Len(Append(o, x)) /\ i - Len(o) = 1
      BY <1>1, <2>2
    <3>2. Append(o, x)[i].pts = f[1]
      BY <1>1, <1>2, <2>2
    <3> QED
      BY <3>1, <3>2 DEF Number
  <2>3. CASE i > Len(o) + 1
    <3>1. ~(i <= Len(o)) /\ ~(i <= Len(o) + 1) /\ i - (Len(o) + 1) \in 1 .. Len(f) - 1
          /\ (i - (Len(o) + 1)) + 1 = i - Len(o)
      BY <1>1, <1>2, <1>3, <2>3
    <3>2. Tail(f)[i - (Len(o) + 1)] = f[i - Len(o)]
      BY <1>2, <3>1
    <3> QED
      BY <1>1, <3>1, <3>2 DEF Number
  <2> QED
    BY <1>1, <1>3, <2>1, <2>2, <2>3
<1> QED
  BY <1>1, <1>2, <1>3, <1>4

\* SEND_STREAM puts a picture at the end of the line.
LEMMA LinePush ==
  ASSUME NEW o \in Seq(Pictures), NEW f \in Seq(Nat), NEW p \in Nat
  PROVE  /\ Append(f, p) \in Seq(Nat)
         /\ InLine(o, Append(f, p)) = InLine(o, f) + 1
         /\ \A i \in 1 .. InLine(o, f) : Number(o, Append(f, p), i) = Number(o, f, i)
         /\ Number(o, Append(f, p), InLine(o, f) + 1) = p
<1>1. /\ Append(f, p) \in Seq(Nat) /\ Len(Append(f, p)) = Len(f) + 1 /\ Len(f) \in Nat
      /\ \A i \in 1 .. Len(f) : Append(f, p)[i] = f[i]
      /\ Append(f, p)[Len(f) + 1] = p
  OBVIOUS
<1>2. Len(o) \in Nat
  OBVIOUS
<1>3. InLine(o, Append(f, p)) = InLine(o, f) + 1 /\ InLine(o, f) = Len(o) + Len(f)
  BY <1>1, <1>2 DEF InLine
<1>4. ASSUME NEW i \in 1 .. InLine(o, f)
      PROVE  Number(o, Append(f, p), i) = Number(o, f, i)
  <2>1. CASE i <= Len(o)
    BY <2>1 DEF Number
  <2>2. CASE ~(i <= Len(o))
    <3>1. i - Len(o) \in 1 .. Len(f)
      BY <1>1, <1>2, <1>3, <2>2
    <3>2. Append(f, p)[i - Len(o)] = f[i - Len(o)]
      BY <1>1, <3>1
    <3> QED
      BY <2>2, <3>2 DEF Number
  <2> QED
    BY <2>1, <2>2
<1>5. Number(o, Append(f, p), InLine(o, f) + 1) = p
  <2>1. ~(InLine(o, f) + 1 <= Len(o)) /\ (InLine(o, f) + 1) - Len(o) = Len(f) + 1
    BY <1>1, <1>2, <1>3
  <2> QED
    BY <1>1, <2>1 DEF Number
<1> QED
  BY <1>1, <1>3, <1>4, <1>5

\* GET_FRAME takes the first picture of the line.
LEMMA LinePop ==
  ASSUME NEW o \in Seq(Pictures), NEW f \in Seq(Nat), o # <<>>
  PROVE  /\ Head(o) \in Pictures /\ Tail(o) \in Seq(Pictures)
         /\ InLine(o, f) \in Nat /\ InLine(o, f) > 0 /\ InLine(Tail(o), f) = InLine(o, f) - 1
         /\ Head(o).pts = Number(o, f, 1)
         /\ \A i \in 1 .. InLine(o, f) - 1 : Number(Tail(o), f, i) = Number(o, f, i + 1)
<1>1. /\ Head(o) \in Pictures /\ Tail(o) \in Seq(Pictures) /\ Len(o) \in Nat /\ Len(o) > 0
      /\ Len(Tail(o)) = Len(o) - 1 /\ Head(o) = o[1]
      /\ \A i \in 1 .. Len(o) - 1 : Tail(o)[i] = o[i + 1]
  BY HeadTail
<1>2. Len(f) \in Nat
  OBVIOUS
<1>3. /\ InLine(o, f) \in Nat /\ InLine(o, f) > 0 /\ InLine(Tail(o), f) = InLine(o, f) - 1
      /\ InLine(o, f) = Len(o) + Len(f)
  BY <1>1, <1>2 DEF InLine
<1>4. Head(o).pts = Number(o, f, 1)
  BY <1>1 DEF Number
<1>5. ASSUME NEW i \in 1 .. InLine(o, f) - 1
      PROVE  Number(Tail(o), f, i) = Number(o, f, i + 1)
  <2>1. CASE i <= Len(o) - 1
    <3>1. i \in 1 .. Len(o) - 1 /\ i + 1 <= Len(o)
      BY <1>1, <1>3, <2>1
    <3>2. Tail(o)[i] = o[i + 1]
      BY <1>1, <3>1
    <3> QED
      BY <1>1, <2>1, <3>1, <3>2 DEF Number
  <2>2. CASE ~(i <= Len(o) - 1)
    <3>1. ~(i + 1 <= Len(o)) /\ i - (Len(o) - 1) = (i + 1) - Len(o)
      BY <1>1, <1>3, <2>2
    <3> QED
      BY <1>1, <2>2, <3>1 DEF Number
  <2> QED
    BY <2>1, <2>2
<1> QED
  BY <1>1, <1>3, <1>4, <1>5

\* What the end of a decode leaves of the line's order.
LEMMA MoveKeeps ==
  ASSUME NEW o \in Seq(Pictures), NEW f \in Seq(Nat), f # <<>>, NEW x \in Pictures,
         x.pts = Head(f)
  PROVE  LET o2 == Append(o, x)
             f2 == Tail(f)
         IN  /\ Sorted(o, f) => Sorted(o2, f2)
             /\ Spaced(o, f) => Spaced(o2, f2)
             /\ Numbered(o, f) => Numbered(o2, f2)
             /\ \A p \in Nat : Under(o, f, p) => Under(o2, f2, p)
             /\ \A c, p \in Nat : TailUnder(o, f, c, p) => TailUnder(o2, f2, c, p)
             /\ \A g, t \in Nat : Newer(o, f, g, t) => Newer(o2, f2, g, t)
<1> DEFINE o2 == Append(o, x)
           f2 == Tail(f)
<1>1. /\ InLine(o2, f2) = InLine(o, f)
      /\ \A i \in 1 .. InLine(o, f) : Number(o2, f2, i) = Number(o, f, i)
  BY LineMove
<1>2. /\ InLine(o, f) \in Nat /\ \A i \in 1 .. InLine(o, f) : Number(o, f, i) \in Nat
  BY LineIs
<1>3. NAU \in Nat
  BY CodaAssumption
<1> HIDE DEF o2, f2
<1>4. Sorted(o, f) => Sorted(o2, f2)
  BY <1>1 DEF Sorted
<1>5. Spaced(o, f) => Spaced(o2, f2)
  <2>1. ASSUME Spaced(o, f), NEW i \in 1 .. InLine(o, f), i + NAU <= InLine(o, f)
        PROVE  Number(o2, f2, i) < Number(o2, f2, i + NAU)
    <3>1. i + NAU \in 1 .. InLine(o, f)
      BY <1>2, <1>3, <2>1
    <3> QED
      BY <1>1, <2>1, <3>1 DEF Spaced
  <2> QED
    BY <1>1, <2>1 DEF Spaced
<1>6. Numbered(o, f) => Numbered(o2, f2)
  BY <1>1 DEF Numbered
<1>7. \A p \in Nat : Under(o, f, p) => Under(o2, f2, p)
  BY <1>1 DEF Under
<1>8. \A c, p \in Nat : TailUnder(o, f, c, p) => TailUnder(o2, f2, c, p)
  BY <1>1 DEF TailUnder
<1>9. \A g, t \in Nat : Newer(o, f, g, t) => Newer(o2, f2, g, t)
  BY <1>1 DEF Newer
<1> QED
  BY <1>4, <1>5, <1>6, <1>7, <1>8, <1>9 DEF o2, f2

\* What a picture p that joins the line leaves of its order: p is not older
\* than what is in line, and is there less than NAU times.
LEMMA PushKeeps ==
  ASSUME NEW o \in Seq(Pictures), NEW f \in Seq(Nat), NEW p \in Nat, NEW c \in Nat,
         c < NAU, p > 0, Sorted(o, f), Spaced(o, f), Numbered(o, f), TailUnder(o, f, c, p)
  PROVE  LET f2 == Append(f, p)
         IN  /\ Sorted(o, f2) /\ Spaced(o, f2) /\ Numbered(o, f2)
             /\ TailUnder(o, f2, c + 1, p)
             /\ \A q \in Nat : p < q => Under(o, f2, q)
             /\ \A g, t \in Nat : Newer(o, f, g, t) /\ t < p => Newer(o, f2, g, t)
<1> DEFINE f2 == Append(f, p)
<1>1. /\ InLine(o, f2) = InLine(o, f) + 1
      /\ \A i \in 1 .. InLine(o, f) : Number(o, f2, i) = Number(o, f, i)
      /\ Number(o, f2, InLine(o, f) + 1) = p
  BY LinePush
<1>2. /\ InLine(o, f) \in Nat /\ \A i \in 1 .. InLine(o, f) : Number(o, f, i) \in Nat
  BY LineIs
<1>3. NAU \in Nat
  BY CodaAssumption
<1> HIDE DEF f2
<1>4. \A i \in 1 .. InLine(o, f) + 1 :
        /\ Number(o, f2, i) \in Nat
        /\ \/ i \in 1 .. InLine(o, f) /\ Number(o, f2, i) = Number(o, f, i)
           \/ i = InLine(o, f) + 1 /\ Number(o, f2, i) = p
  BY <1>1, <1>2
<1>5. \A i \in 1 .. InLine(o, f) + 1 : Number(o, f2, i) <= p
  BY <1>2, <1>4 DEF TailUnder
<1>6. Sorted(o, f2)
  <2>1. ASSUME NEW i \in 1 .. InLine(o, f) + 1, NEW j \in 1 .. InLine(o, f) + 1, i <= j
        PROVE  Number(o, f2, i) <= Number(o, f2, j)
    <3>1. CASE j = InLine(o, f) + 1
      BY <1>1, <1>5, <3>1
    <3>2. CASE j # InLine(o, f) + 1
      <4>1. i \in 1 .. InLine(o, f) /\ j \in 1 .. InLine(o, f)
        BY <1>2, <2>1, <3>2
      <4> QED
        BY <1>1, <2>1, <4>1 DEF Sorted
    <3> QED
      BY <3>1, <3>2
  <2> QED
    BY <1>1, <2>1 DEF Sorted
<1>7. Spaced(o, f2)
  <2>1. ASSUME NEW i \in 1 .. InLine(o, f) + 1, i + NAU <= InLine(o, f) + 1
        PROVE  Number(o, f2, i) < Number(o, f2, i + NAU)
    <3>0. i \in 1 .. InLine(o, f) /\ Number(o, f2, i) = Number(o, f, i)
      BY <1>1, <1>2, <1>3, <2>1
    <3>1. CASE i + NAU = InLine(o, f) + 1
      <4>1. i + c <= InLine(o, f)
        BY <1>2, <1>3, <3>1
      <4>2. Number(o, f, i) < p
        BY <3>0, <4>1 DEF TailUnder
      <4> QED
        BY <1>1, <3>0, <3>1, <4>2
    <3>2. CASE i + NAU <= InLine(o, f)
      <4>1. i + NAU \in 1 .. InLine(o, f)
        BY <1>2, <1>3, <3>0, <3>2
      <4>2. Number(o, f, i) < Number(o, f, i + NAU)
        BY <3>0, <3>2 DEF Spaced
      <4> QED
        BY <1>1, <3>0, <4>1, <4>2
    <3>3. i + NAU = InLine(o, f) + 1 \/ i + NAU <= InLine(o, f)
      <4>1. \A a, n \in Nat : a <= n + 1 => a = n + 1 \/ a <= n
        OBVIOUS
      <4>2. i + NAU \in Nat
        BY <1>2, <1>3, <3>0
      <4> QED
        BY <1>2, <2>1, <4>1, <4>2
    <3> QED
      BY <3>1, <3>2, <3>3
  <2> QED
    BY <1>1, <2>1 DEF Spaced
<1>8. Numbered(o, f2)
  <2>1. \A i \in 1 .. InLine(o, f) + 1 : Number(o, f2, i) > 0
    BY <1>4 DEF Numbered
  <2> QED
    BY <1>1, <2>1 DEF Numbered
<1>9. TailUnder(o, f2, c + 1, p)
  <2>1. ASSUME NEW i \in 1 .. InLine(o, f) + 1, i + (c + 1) <= InLine(o, f) + 1
        PROVE  Number(o, f2, i) < p
    <3>1. i \in 1 .. InLine(o, f) /\ i + c <= InLine(o, f)
      BY <1>2, <2>1
    <3> QED
      BY <1>1, <3>1 DEF TailUnder
  <2> QED
    BY <1>1, <1>5, <2>1 DEF TailUnder
<1>10. ASSUME NEW q \in Nat, p < q PROVE Under(o, f2, q)
  <2>1. \A i \in 1 .. InLine(o, f) + 1 : Number(o, f2, i) < q
    BY <1>4, <1>5, <1>10
  <2> QED
    BY <1>1, <2>1 DEF Under
<1>11. ASSUME NEW g \in Nat, NEW t \in Nat, Newer(o, f, g, t), t < p
       PROVE  Newer(o, f2, g, t)
  <2>1. ASSUME NEW i \in 1 .. InLine(o, f) + 1, i + g >= NAU
        PROVE  Number(o, f2, i) > t
    BY <1>4, <1>11, <2>1 DEF Newer
  <2> QED
    BY <1>1, <2>1 DEF Newer
<1> QED
  BY <1>6, <1>7, <1>8, <1>9, <1>10, <1>11 DEF f2

\* What a picture that leaves the line leaves of its order, and what is known
\* of that picture.
LEMMA PopKeeps ==
  ASSUME NEW o \in Seq(Pictures), NEW f \in Seq(Nat), o # <<>>,
         Sorted(o, f), Spaced(o, f), Numbered(o, f)
  PROVE  LET o2 == Tail(o)
             h  == Head(o).pts
         IN  /\ h \in Nat
             /\ Sorted(o2, f) /\ Spaced(o2, f) /\ Numbered(o2, f)
             /\ Newer(o2, f, 0, h)
             /\ \A p \in Nat : Under(o, f, p) => Under(o2, f, p) /\ h < p
             /\ \A c, p \in Nat : TailUnder(o, f, c, p) => TailUnder(o2, f, c, p)
             /\ \A g, t \in Nat : Newer(o, f, g, t) =>
                  /\ Newer(o2, f, g + 1, t) /\ Newer(o2, f, g, t)
                  /\ g + 1 >= NAU => h > t
<1> DEFINE o2 == Tail(o)
           h  == Head(o).pts
<1>1. /\ InLine(o, f) > 0 /\ InLine(o2, f) = InLine(o, f) - 1
      /\ h = Number(o, f, 1)
      /\ \A i \in 1 .. InLine(o, f) - 1 : Number(o2, f, i) = Number(o, f, i + 1)
  BY LinePop
<1>2. /\ InLine(o, f) \in Nat /\ \A i \in 1 .. InLine(o, f) : Number(o, f, i) \in Nat
  BY LineIs
<1>3. NAU \in Nat /\ NAU >= 1
  BY CodaAssumption
<1> HIDE DEF o2, h
<1>4. /\ 1 \in 1 .. InLine(o, f) /\ h \in Nat
      /\ \A i \in 1 .. InLine(o, f) - 1 : i + 1 \in 1 .. InLine(o, f) /\ i \in Nat
  BY <1>1, <1>2
<1>5. Sorted(o2, f)
  <2>1. ASSUME NEW i \in 1 .. InLine(o, f) - 1, NEW j \in 1 .. InLine(o, f) - 1, i <= j
        PROVE  Number(o2, f, i) <= Number(o2, f, j)
    <3>1. i + 1 \in 1 .. InLine(o, f) /\ j + 1 \in 1 .. InLine(o, f) /\ i + 1 <= j + 1
      BY <1>2, <2>1
    <3>2. Number(o, f, i + 1) <= Number(o, f, j + 1)
      BY <3>1 DEF Sorted
    <3> QED
      BY <1>1, <2>1, <3>2
  <2> QED
    BY <1>1, <2>1 DEF Sorted
<1>6. Spaced(o2, f)
  <2>1. ASSUME NEW i \in 1 .. InLine(o, f) - 1, i + NAU <= InLine(o, f) - 1
        PROVE  Number(o2, f, i) < Number(o2, f, i + NAU)
    <3>1. /\ i + 1 \in 1 .. InLine(o, f) /\ (i + 1) + NAU <= InLine(o, f)
          /\ (i + 1) + NAU = (i + NAU) + 1 /\ i + NAU \in 1 .. InLine(o, f) - 1
      BY <1>2, <1>3, <2>1
    <3>2. Number(o, f, i + 1) < Number(o, f, (i + 1) + NAU)
      BY <3>1 DEF Spaced
    <3>3. Number(o, f, i + 1) < Number(o, f, (i + NAU) + 1)
      BY <3>1, <3>2
    <3> QED
      BY <1>1, <2>1, <3>1, <3>3
  <2> QED
    BY <1>1, <2>1 DEF Spaced
<1>7. Numbered(o2, f)
  BY <1>1, <1>4 DEF Numbered
<1>8. Newer(o2, f, 0, h)
  <2>1. ASSUME NEW i \in 1 .. InLine(o, f) - 1, i + 0 >= NAU
        PROVE  Number(o2, f, i) > h
    <3>1. /\ 1 + NAU <= InLine(o, f) /\ 1 + NAU \in 1 .. InLine(o, f)
          /\ i + 1 \in 1 .. InLine(o, f) /\ 1 + NAU <= i + 1
      BY <1>2, <1>3, <2>1
    <3>2. Number(o, f, 1) < Number(o, f, 1 + NAU)
      BY <1>4, <3>1 DEF Spaced
    <3>3. Number(o, f, 1 + NAU) <= Number(o, f, i + 1)
      BY <3>1 DEF Sorted
    <3>4. Number(o, f, 1) \in Nat /\ Number(o, f, 1 + NAU) \in Nat /\ Number(o, f, i + 1) \in Nat
      BY <1>2, <1>4, <3>1
    <3>5. Number(o2, f, i) = Number(o, f, i + 1)
      BY <1>1, <2>1
    <3> QED
      BY <1>1, <3>2, <3>3, <3>4, <3>5
  <2> QED
    BY <1>1, <2>1 DEF Newer
<1>9. ASSUME NEW p \in Nat, Under(o, f, p) PROVE Under(o2, f, p) /\ h < p
  <2>1. h < p
    BY <1>1, <1>4, <1>9 DEF Under
  <2>2. \A i \in 1 .. InLine(o, f) - 1 : Number(o2, f, i) < p
    BY <1>1, <1>4, <1>9 DEF Under
  <2> QED
    BY <1>1, <2>1, <2>2 DEF Under
<1>10. ASSUME NEW c \in Nat, NEW p \in Nat, TailUnder(o, f, c, p)
       PROVE  TailUnder(o2, f, c, p)
  <2>1. ASSUME NEW i \in 1 .. InLine(o, f) - 1
        PROVE  /\ Number(o2, f, i) <= p
               /\ i + c <= InLine(o, f) - 1 => Number(o2, f, i) < p
    <3>1. i + 1 \in 1 .. InLine(o, f)
          /\ (i + c <= InLine(o, f) - 1 => (i + 1) + c <= InLine(o, f))
      BY <1>2, <1>4
    <3>2. /\ Number(o, f, i + 1) <= p
          /\ i + c <= InLine(o, f) - 1 => Number(o, f, i + 1) < p
      BY <1>10, <3>1 DEF TailUnder
    <3> QED
      BY <1>1, <3>2
  <2> QED
    BY <1>1, <2>1 DEF TailUnder
<1>11. ASSUME NEW g \in Nat, NEW t \in Nat, Newer(o, f, g, t)
       PROVE  /\ Newer(o2, f, g + 1, t) /\ Newer(o2, f, g, t)
              /\ g + 1 >= NAU => h > t
  <2>1. ASSUME NEW i \in 1 .. InLine(o, f) - 1, i + (g + 1) >= NAU
        PROVE  Number(o2, f, i) > t
    <3>1. i + 1 \in 1 .. InLine(o, f) /\ (i + 1) + g >= NAU
      BY <1>2, <1>3, <2>1
    <3>2. Number(o, f, i + 1) > t
      BY <1>11, <3>1 DEF Newer
    <3> QED
      BY <1>1, <2>1, <3>2
  <2>2. Newer(o2, f, g + 1, t)
    BY <1>1, <2>1 DEF Newer
  <2>3. Newer(o2, f, g, t)
    <3>1. ASSUME NEW i \in 1 .. InLine(o, f) - 1, i + g >= NAU PROVE i + (g + 1) >= NAU
      BY <1>2, <1>3, <3>1
    <3> QED
      BY <1>1, <2>1, <3>1 DEF Newer
  <2>4. g + 1 >= NAU => h > t
    <3>1. g + 1 >= NAU => 1 + g >= NAU
      BY <1>3
    <3> QED
      BY <1>1, <1>4, <1>11, <3>1 DEF Newer
  <2> QED
    BY <2>2, <2>3, <2>4
<1> QED
  BY <1>4, <1>5, <1>6, <1>7, <1>8, <1>9, <1>10, <1>11 DEF o2, h

\* The predicates on the line are monotonic.
LEMMA LineMore ==
  ASSUME NEW o \in Seq(Pictures), NEW f \in Seq(Nat)
  PROVE  /\ \A p, q \in Nat : Under(o, f, p) /\ p <= q => Under(o, f, q)
         /\ \A p \in Nat : Under(o, f, p) => TailUnder(o, f, 0, p)
         /\ \A g, g2, t, t2 \in Nat :
              Newer(o, f, g, t) /\ g2 <= g /\ t2 <= t => Newer(o, f, g2, t2)
         /\ Numbered(o, f) => Newer(o, f, 0, 0)
<1>1. /\ InLine(o, f) \in Nat /\ \A i \in 1 .. InLine(o, f) : Number(o, f, i) \in Nat
  BY LineIs
<1>2. NAU \in Nat
  BY CodaAssumption
<1>3. ASSUME NEW p \in Nat, NEW q \in Nat, Under(o, f, p), p <= q PROVE Under(o, f, q)
  BY <1>1, <1>3 DEF Under
<1>4. ASSUME NEW p \in Nat, Under(o, f, p) PROVE TailUnder(o, f, 0, p)
  BY <1>1, <1>4 DEF Under, TailUnder
<1>5. ASSUME NEW g \in Nat, NEW g2 \in Nat, NEW t \in Nat, NEW t2 \in Nat,
             Newer(o, f, g, t), g2 <= g, t2 <= t
      PROVE  Newer(o, f, g2, t2)
  <2>1. ASSUME NEW i \in 1 .. InLine(o, f), i + g2 >= NAU PROVE Number(o, f, i) > t2
    <3>1. i + g >= NAU
      BY <1>1, <1>2, <1>5, <2>1
    <3>2. Number(o, f, i) > t /\ Number(o, f, i) \in Nat
      BY <1>1, <1>5, <3>1 DEF Newer
    <3> QED
      BY <1>5, <3>2
  <2> QED
    BY <2>1 DEF Newer
<1>6. Numbered(o, f) => Newer(o, f, 0, 0)
  BY DEF Numbered, Newer
<1> QED
  BY <1>3, <1>4, <1>5, <1>6

\* The kinds of the numbers the order is about.
LEMMA OrderTypes ==
  ASSUME CubeInv
  PROVE  /\ outq \in Seq(Pictures) /\ inflight \in Seq(Nat)
         /\ fi \in [b : Bufs \cup {None}, pts : Nat] /\ fi.pts \in Nat /\ mfi.pts \in Nat
         /\ job.pts \in Nat /\ last \in Nat /\ fnum \in Nat /\ NPages \in Nat
         /\ au \in Nat /\ au >= 1 /\ au <= NAU /\ NAU \in Nat /\ NAU >= 1
         /\ Top \in Nat /\ Upcoming \in Nat /\ Pic(Upcoming) \in Nat
         /\ Sent \in Nat /\ Got \in Nat
<1>1. outq \in Seq(Pictures) /\ inflight \in Seq(Nat)
  BY DEF CubeInv, TypeOK, Pictures
<1>2. fi \in [b : Bufs \cup {None}, pts : Nat] /\ mfi \in [b : Bufs \cup {None}, pts : Nat]
      /\ job \in [au : {0, 1}, pts : Nat, rel : Seq(Bufs)]
  BY DEF CubeInv, TypeOK
<1>3. last \in Nat /\ fnum \in Nat /\ au \in 1 .. NAU
  BY DEF CubeInv, TypeOK
<1>4. NPages \in Nat /\ NAU \in Nat /\ NAU >= 1
  BY CodaAssumption
<1>5. fi.pts \in Nat /\ mfi.pts \in Nat /\ job.pts \in Nat
  BY <1>2
<1>6. Top \in Nat
  BY <1>3, <1>5 DEF Top
<1>7. Upcoming \in Nat /\ Pic(Upcoming) \in Nat
  <2>1. Upcoming \in Nat
    BY <1>3 DEF Upcoming
  <2> QED
    BY <2>1, <1>4 DEF Pic
<1>8. Sent \in Nat /\ Got \in Nat
  BY <1>3, <1>4 DEF Sent, Got
<1> QED
  BY <1>1, <1>2, <1>3, <1>4, <1>5, <1>6, <1>7, <1>8

\* A step that leaves the line and the decoding thread alone, and does not
\* put an older picture in question.
LEMMA OrderSame ==
  ASSUME CubeInv, LineInv, FetchInv, pc # "setup" \/ UNCHANGED <<fnum, last>>, pc' = "setup" => pc = "setup",
         UNCHANGED <<inflight, outq, dpc, au, job, fi, ok>>,
         Top' \in Nat, Top' <= Top, Upcoming' = Upcoming, Untaken' => Untaken
  PROVE  LineInv' /\ FetchInv'
<1>1. /\ outq \in Seq(Pictures) /\ inflight \in Seq(Nat) /\ fi.pts \in Nat /\ job.pts \in Nat
      /\ Top \in Nat /\ Pic(Upcoming) \in Nat /\ Got \in Nat
  BY OrderTypes
<1>2. Pic(Upcoming)' = Pic(Upcoming) /\ Sent' = Sent /\ Got' = Got
  BY DEF Pic, Sent, Got
<1>3. LineInv'
  <2>1. Top' < Pic(Upcoming)
    BY <1>1 DEF LineInv
  <2> QED
    BY <1>2, <2>1 DEF LineInv
<1>4. \A g \in Nat : Newer(outq, inflight, g, Top) => Newer(outq, inflight, g, Top')
  BY <1>1, LineMore
<1>5. dpc \in Busy => /\ job.pts + 1 = Pic(Upcoming) /\ Top' < job.pts
                      /\ TailUnder(outq, inflight, Sent, job.pts)
                      /\ Newer(outq, inflight, Got, Top')
  BY <1>1, <1>4 DEF FetchInv
<1>6. dpc = "drain" => /\ Newer(outq, inflight, 0, fi.pts) /\ fi.pts < Pic(Upcoming)
                       /\ au = NAU => fi.pts > Top'
  BY <1>1 DEF FetchInv
<1>7. dpc = "idle" => Newer(outq, inflight, 0, Top')
  BY <1>4 DEF FetchInv
<1>8. dpc = "idle" /\ ok /\ Untaken =>
         /\ fi.pts > Top' /\ fi.pts < Pic(Upcoming)
         /\ Newer(outq, inflight, 0, fi.pts)
  BY <1>1 DEF FetchInv
<1>9. FetchInv'
  BY <1>2, <1>5, <1>6, <1>7, <1>8 DEF FetchInv
<1> QED
  BY <1>3, <1>9

\* The next frame goes to the thread of the ioctls.
LEMMA OrderSubmit ==
  ASSUME CubeInv, LineInv, FetchInv, dpc = "idle", pc' # "setup",
         NEW n \in Nat, n = Upcoming, dpc' = "rel", job'.pts = Pic(n), Upcoming' = n + 1,
         UNCHANGED <<inflight, outq>>, Top' = Top
  PROVE  LineInv' /\ FetchInv'
<1>1. /\ outq \in Seq(Pictures) /\ inflight \in Seq(Nat)
      /\ Top \in Nat /\ Pic(Upcoming) \in Nat /\ NPages \in Nat
  BY OrderTypes
<1>2. Pic(Upcoming)' = Pic(Upcoming) + 1 /\ Sent' = 0 /\ Got' = 0 /\ job'.pts = Pic(Upcoming)
  BY <1>1 DEF Pic, Sent, Got
<1>3. Under(outq, inflight, Pic(Upcoming)) /\ Top < Pic(Upcoming)
  BY DEF LineInv
<1>4. /\ Under(outq, inflight, Pic(Upcoming) + 1) /\ TailUnder(outq, inflight, 0, Pic(Upcoming))
  <2>1. Pic(Upcoming) + 1 \in Nat /\ Pic(Upcoming) <= Pic(Upcoming) + 1
    BY <1>1
  <2> QED
    BY <1>1, <1>3, <2>1, LineMore
<1>5. LineInv'
  <2>1. Top < Pic(Upcoming) + 1
    BY <1>1, <1>3
  <2> QED
    BY <1>2, <1>4, <2>1 DEF LineInv
<1>6. Newer(outq, inflight, 0, Top)
  BY DEF FetchInv
<1>7. FetchInv'
  BY <1>2, <1>3, <1>4, <1>6 DEF FetchInv
<1> QED
  BY <1>5, <1>7

-----------------------------------------------------------------------------
(* One lemma for each step of the decoder's thread and of the decoder.     *)

\* The decoder finishes a picture.
LEMMA VdecDecodeOrder ==
  ASSUME CubeInv, OrderInv, pc \notin Over, VdecDecode PROVE OrderInv'
<1> USE DEF opts, agent, mainV
<1>1. LineInv /\ TakenInv /\ FetchInv
  BY DEF OrderInv
<1>2. /\ outq \in Seq(Pictures) /\ inflight \in Seq(Nat) /\ fi.pts \in Nat /\ job.pts \in Nat
      /\ Top \in Nat /\ Pic(Upcoming) \in Nat /\ Got \in Nat /\ Sent \in Nat /\ fnum + 1 \in Nat
  BY OrderTypes
<1>3. PICK b \in Free : outq' = Append(outq, [b |-> b, pts |-> Head(inflight)])
  BY DEF VdecDecode
<1>4. /\ inflight # <<>> /\ inflight' = Tail(inflight)
      /\ UNCHANGED <<route, pipeline, dpc, au, job, fi, ok, pc, fnum, mfi, mok, slot, last>>
  BY DEF VdecDecode
<1>5. PICK x : x = [b |-> b, pts |-> Head(inflight)]
  OBVIOUS
<1>6. x \in Pictures /\ x.pts = Head(inflight)
  <2>1. Head(inflight) \in Nat
    BY <1>2, <1>4, HeadTail
  <2>2. b \in Bufs
    BY DEF Free
  <2> QED
    BY <1>5, <2>1, <2>2 DEF Pictures
<1>7. /\ Sorted(outq, inflight) => Sorted(outq', inflight')
      /\ Spaced(outq, inflight) => Spaced(outq', inflight')
      /\ Numbered(outq, inflight) => Numbered(outq', inflight')
      /\ \A p \in Nat : Under(outq, inflight, p) => Under(outq', inflight', p)
      /\ \A c, p \in Nat : TailUnder(outq, inflight, c, p) => TailUnder(outq', inflight', c, p)
      /\ \A g, t \in Nat : Newer(outq, inflight, g, t) => Newer(outq', inflight', g, t)
  BY <1>2, <1>3, <1>4, <1>5, <1>6, MoveKeeps
<1>8. /\ Pic(Upcoming)' = Pic(Upcoming) /\ Top' = Top /\ Sent' = Sent /\ Got' = Got
      /\ Untaken' = Untaken
  BY <1>4 DEF Pic, Upcoming, Top, Sent, Got, Untaken
<1>9. LineInv'
  BY <1>1, <1>2, <1>4, <1>7, <1>8 DEF LineInv
<1>10. TakenInv'
  BY <1>1, <1>4 DEF TakenInv
<1>11. FetchInv'
  BY <1>1, <1>2, <1>4, <1>7, <1>8 DEF FetchInv
<1> QED
  BY <1>9, <1>10, <1>11 DEF OrderInv

\* The buffers of the release queue go back before a frame is sent.
LEMMA DecodeReleaseOrder ==
  ASSUME CubeInv, LineInv, FetchInv, DecodeRelease,
         UNCHANGED <<route, pipeline, pc, fnum, mfi, mok, slot, last>>
  PROVE  LineInv' /\ FetchInv'
<1>1. /\ dpc = "rel" /\ dpc' \in {"rel", "send"} /\ (dpc' = "send" => au' = 1)
      /\ UNCHANGED <<inflight, outq>>
  BY DEF DecodeRelease
<1>2. job' = job \/ job' = [job EXCEPT !.rel = Tail(@)]
  BY DEF DecodeRelease
<1>3. job'.pts = job.pts
  <2>1. job \in [au : {0, 1}, pts : Nat, rel : Seq(Bufs)]
    BY DEF CubeInv, TypeOK
  <2> QED
    BY <1>2, <2>1
<1>4. /\ Pic(Upcoming)' = Pic(Upcoming) /\ Top' = Top /\ Sent' = Sent /\ Got' = Got
  <2>1. Pic(Upcoming)' = Pic(Upcoming) /\ Top' = Top
    BY DEF Pic, Upcoming, Top
  <2>2. Sent = 0 /\ Got = 0 /\ Sent' = 0 /\ Got' = 0
    BY <1>1 DEF Sent, Got
  <2> QED
    BY <2>1, <2>2
<1>5. LineInv'
  BY <1>1, <1>4 DEF LineInv
<1>6. FetchInv'
  BY <1>1, <1>3, <1>4 DEF FetchInv, Busy
<1> QED
  BY <1>5, <1>6

\* SEND_STREAM takes the access unit, or fails.
LEMMA DecodeSendOrder ==
  ASSUME CubeInv, LineInv, FetchInv, DecodeSend,
         UNCHANGED <<route, pipeline, pc, fnum, mfi, mok, slot, last>>
  PROVE  LineInv' /\ FetchInv'
<1>0. /\ outq \in Seq(Pictures) /\ inflight \in Seq(Nat) /\ job.pts \in Nat
      /\ Top \in Nat /\ Pic(Upcoming) \in Nat /\ Got \in Nat
      /\ au \in Nat /\ au >= 1 /\ au <= NAU /\ NAU \in Nat
  BY OrderTypes
<1>1. dpc = "send" /\ UNCHANGED <<au, job, fi, outq>> /\ pc # "setup"
  BY DEF DecodeSend, CubeInv, LoopInv, Paging
<1>2. Pic(Upcoming)' = Pic(Upcoming) /\ Top' = Top
  BY DEF Pic, Upcoming, Top
<1>3. Sent = au - 1 /\ Got = au - 1
  BY <1>1 DEF Sent, Got
<1>4. /\ job.pts + 1 = Pic(Upcoming) /\ Top < job.pts
      /\ TailUnder(outq, inflight, au - 1, job.pts) /\ Newer(outq, inflight, au - 1, Top)
  BY <1>1, <1>3 DEF FetchInv, Busy
<1>5. /\ Sorted(outq, inflight) /\ Spaced(outq, inflight) /\ Numbered(outq, inflight)
      /\ Under(outq, inflight, Pic(Upcoming)) /\ Top < Pic(Upcoming)
  BY DEF LineInv
<1>6. CASE inflight' = Append(inflight, job.pts) /\ dpc' = "get"
  <2>1. au - 1 \in Nat /\ au - 1 < NAU /\ job.pts > 0 /\ (au - 1) + 1 = au /\ job.pts < Pic(Upcoming)
    BY <1>0, <1>4
  <2>2. /\ Sorted(outq, inflight') /\ Spaced(outq, inflight') /\ Numbered(outq, inflight')
        /\ TailUnder(outq, inflight', (au - 1) + 1, job.pts)
        /\ \A q \in Nat : job.pts < q => Under(outq, inflight', q)
        /\ \A g, t \in Nat : Newer(outq, inflight, g, t) /\ t < job.pts => Newer(outq, inflight', g, t)
    <3>1. PICK c : c = au - 1
      OBVIOUS
    <3>2. c \in Nat /\ c < NAU /\ TailUnder(outq, inflight, c, job.pts)
      BY <1>4, <2>1, <3>1
    <3>3. PICK p : p = job.pts
      OBVIOUS
    <3>4. p \in Nat /\ p > 0 /\ TailUnder(outq, inflight, c, p) /\ inflight' = Append(inflight, p)
      BY <1>0, <1>6, <2>1, <3>2, <3>3
    <3>5. /\ Sorted(outq, inflight') /\ Spaced(outq, inflight') /\ Numbered(outq, inflight')
          /\ TailUnder(outq, inflight', c + 1, p)
          /\ \A q \in Nat : p < q => Under(outq, inflight', q)
          /\ \A g, t \in Nat : Newer(outq, inflight, g, t) /\ t < p => Newer(outq, inflight', g, t)
      BY <1>0, <1>5, <3>2, <3>4, PushKeeps
    <3> QED
      BY <3>1, <3>3, <3>5
  <2>3. Under(outq, inflight', Pic(Upcoming)) /\ Newer(outq, inflight', au - 1, Top)
    BY <1>0, <1>4, <2>1, <2>2
  <2>4. TailUnder(outq, inflight', au, job.pts)
    BY <2>1, <2>2
  <2>5. LineInv'
    BY <1>1, <1>2, <1>5, <2>2, <2>3 DEF LineInv
  <2>6. Sent' = au /\ Got' = au - 1
    BY <1>1, <1>6 DEF Sent, Got
  <2>7. FetchInv'
    BY <1>1, <1>2, <1>4, <1>6, <2>3, <2>4, <2>6 DEF FetchInv, Busy
  <2> QED
    BY <2>5, <2>7
<1>7. CASE inflight' = inflight /\ dpc' = "idle" /\ ok' = FALSE
  <2>1. LineInv'
    BY <1>1, <1>2, <1>5, <1>7 DEF LineInv
  <2>2. Newer(outq, inflight, 0, Top)
    <3>1. au - 1 \in Nat /\ 0 <= au - 1 /\ Top <= Top
      BY <1>0
    <3> QED
      BY <1>0, <1>4, <3>1, LineMore
  <2>3. FetchInv'
    BY <1>1, <1>2, <1>7, <2>2 DEF FetchInv, Busy
  <2> QED
    BY <2>1, <2>3
<1> QED
  BY <1>6, <1>7 DEF DecodeSend

\* GET_FRAME takes the first picture of the line: what that says of it and of
\* the line behind it.
LEMMA FetchOrder ==
  ASSUME CubeInv, LineInv, dpc \in Busy, outq # <<>>, fi' = Head(outq), outq' = Tail(outq),
         UNCHANGED <<inflight, route, pipeline, pc, fnum, mfi, mok, slot, last>>
  PROVE  /\ LineInv' /\ fi'.pts \in Nat
         /\ Newer(outq', inflight', 0, fi'.pts) /\ fi'.pts < Pic(Upcoming)
         /\ \A c, p \in Nat : TailUnder(outq, inflight, c, p) => TailUnder(outq', inflight', c, p)
         /\ \A g, t \in Nat : Newer(outq, inflight, g, t) =>
              /\ Newer(outq', inflight', g + 1, t) /\ Newer(outq', inflight', g, t)
              /\ g + 1 >= NAU => fi'.pts > t
<1>1. /\ outq \in Seq(Pictures) /\ inflight \in Seq(Nat) /\ Pic(Upcoming) \in Nat
  BY OrderTypes
<1>2. /\ Sorted(outq, inflight) /\ Spaced(outq, inflight) /\ Numbered(outq, inflight)
      /\ Under(outq, inflight, Pic(Upcoming)) /\ Top < Pic(Upcoming)
  BY DEF LineInv
<1>3. /\ Head(outq).pts \in Nat
      /\ Sorted(Tail(outq), inflight) /\ Spaced(Tail(outq), inflight)
      /\ Numbered(Tail(outq), inflight)
      /\ Newer(Tail(outq), inflight, 0, Head(outq).pts)
      /\ \A p \in Nat : Under(outq, inflight, p) => Under(Tail(outq), inflight, p) /\ Head(outq).pts < p
      /\ \A c, p \in Nat : TailUnder(outq, inflight, c, p) => TailUnder(Tail(outq), inflight, c, p)
      /\ \A g, t \in Nat : Newer(outq, inflight, g, t) =>
           /\ Newer(Tail(outq), inflight, g + 1, t) /\ Newer(Tail(outq), inflight, g, t)
           /\ g + 1 >= NAU => Head(outq).pts > t
  BY <1>1, <1>2, PopKeeps
<1>4. Pic(Upcoming)' = Pic(Upcoming) /\ Top' = Top /\ pc # "setup"
  <2>1. pc # "setup"
    BY DEF CubeInv, LoopInv, Paging, Busy
  <2> QED
    BY <2>1 DEF Pic, Upcoming, Top
<1>5. LineInv'
  BY <1>1, <1>2, <1>3, <1>4 DEF LineInv
<1> QED
  BY <1>1, <1>2, <1>3, <1>5

\* A picture within 200 ms, or none.
LEMMA DecodeGetOrder ==
  ASSUME CubeInv, LineInv, FetchInv, DecodeGet,
         UNCHANGED <<route, pipeline, pc, fnum, mfi, mok, slot, last>>
  PROVE  LineInv' /\ FetchInv'
<1>0. /\ outq \in Seq(Pictures) /\ inflight \in Seq(Nat) /\ job.pts \in Nat
      /\ Top \in Nat /\ Pic(Upcoming) \in Nat
      /\ au \in Nat /\ au >= 1 /\ au <= NAU /\ NAU \in Nat
  BY OrderTypes
<1>1. dpc \in {"get", "get200"} /\ dpc \in Busy /\ UNCHANGED <<au, job, inflight>>
  BY DEF DecodeGet, Busy
<1>2. Pic(Upcoming)' = Pic(Upcoming) /\ Top' = Top
  BY DEF Pic, Upcoming, Top
<1>3. Sent = au /\ Got = au - 1 /\ au - 1 \in Nat /\ (au - 1) + 1 = au
  BY <1>0, <1>1 DEF Sent, Got
<1>4. /\ job.pts + 1 = Pic(Upcoming) /\ Top < job.pts
      /\ TailUnder(outq, inflight, au, job.pts) /\ Newer(outq, inflight, au - 1, Top)
  BY <1>1, <1>3 DEF FetchInv
<1>5. CASE outq # <<>> /\ fi' = Head(outq) /\ outq' = Tail(outq) /\ dpc' = "drain"
  <2>1. /\ LineInv' /\ fi'.pts \in Nat
        /\ Newer(outq', inflight', 0, fi'.pts) /\ fi'.pts < Pic(Upcoming)
        /\ \A c, p \in Nat : TailUnder(outq, inflight, c, p) => TailUnder(outq', inflight', c, p)
        /\ \A g, t \in Nat : Newer(outq, inflight, g, t) =>
             /\ Newer(outq', inflight', g + 1, t) /\ Newer(outq', inflight', g, t)
             /\ g + 1 >= NAU => fi'.pts > t
    BY <1>1, <1>5, FetchOrder
  <2>2. /\ TailUnder(outq', inflight', au, job.pts) /\ Newer(outq', inflight', (au - 1) + 1, Top)
        /\ (au - 1) + 1 >= NAU => fi'.pts > Top
    BY <1>0, <1>3, <1>4, <2>1
  <2>3. Newer(outq', inflight', au, Top) /\ (au = NAU => fi'.pts > Top)
    BY <1>0, <1>3, <2>2
  <2>4. Sent' = au /\ Got' = au
    BY <1>1, <1>5 DEF Sent, Got
  <2>5. FetchInv'
    BY <1>1, <1>2, <1>4, <1>5, <2>1, <2>2, <2>3, <2>4 DEF FetchInv, Busy
  <2> QED
    BY <2>1, <2>5
<1>6. CASE outq' = outq /\ dpc' = "get200"
  <2>1. LineInv'
    BY <1>1, <1>2, <1>6 DEF LineInv
  <2>2. Sent' = au /\ Got' = au - 1
    BY <1>1, <1>6 DEF Sent, Got
  <2>3. FetchInv'
    BY <1>1, <1>2, <1>4, <1>6, <2>2 DEF FetchInv, Busy
  <2> QED
    BY <2>1, <2>3
<1>7. CASE outq' = outq /\ dpc' = "idle" /\ ok' = FALSE
  <2>1. LineInv'
    BY <1>1, <1>2, <1>7 DEF LineInv
  <2>2. Newer(outq, inflight, 0, Top)
    <3>1. 0 <= au - 1 /\ Top <= Top
      BY <1>0
    <3> QED
      BY <1>0, <1>3, <1>4, <3>1, LineMore
  <2>3. FetchInv'
    BY <1>1, <1>2, <1>7, <2>2 DEF FetchInv, Busy
  <2> QED
    BY <2>1, <2>3
<1> QED
  BY <1>1, <1>5, <1>6, <1>7 DEF DecodeGet

\* The newest picture that waits is kept; then the next access unit, or the
\* frame is done.
LEMMA DecodeDrainOrder ==
  ASSUME CubeInv, LineInv, FetchInv, DecodeDrain,
         UNCHANGED <<route, pipeline, pc, fnum, mfi, mok, slot, last>>
  PROVE  LineInv' /\ FetchInv'
<1>0. /\ outq \in Seq(Pictures) /\ inflight \in Seq(Nat) /\ job.pts \in Nat /\ fi.pts \in Nat
      /\ Top \in Nat /\ Pic(Upcoming) \in Nat
      /\ au \in Nat /\ au >= 1 /\ au <= NAU /\ NAU \in Nat
  BY OrderTypes
<1>1. dpc = "drain" /\ dpc \in Busy /\ UNCHANGED <<job, inflight>>
  BY DEF DecodeDrain, Busy
<1>2. Pic(Upcoming)' = Pic(Upcoming) /\ Top' = Top
  BY DEF Pic, Upcoming, Top
<1>3. Sent = au /\ Got = au
  BY <1>1 DEF Sent, Got
<1>4. /\ job.pts + 1 = Pic(Upcoming) /\ Top < job.pts
      /\ TailUnder(outq, inflight, au, job.pts) /\ Newer(outq, inflight, au, Top)
      /\ Newer(outq, inflight, 0, fi.pts) /\ fi.pts < Pic(Upcoming)
      /\ au = NAU => fi.pts > Top
  BY <1>1, <1>3 DEF FetchInv
<1>5. CASE outq # <<>> /\ fi' = Head(outq) /\ outq' = Tail(outq) /\ UNCHANGED <<dpc, au, ok>>
  <2>1. /\ LineInv' /\ fi'.pts \in Nat
        /\ Newer(outq', inflight', 0, fi'.pts) /\ fi'.pts < Pic(Upcoming)
        /\ \A c, p \in Nat : TailUnder(outq, inflight, c, p) => TailUnder(outq', inflight', c, p)
        /\ \A g, t \in Nat : Newer(outq, inflight, g, t) =>
             /\ Newer(outq', inflight', g + 1, t) /\ Newer(outq', inflight', g, t)
             /\ g + 1 >= NAU => fi'.pts > t
    BY <1>1, <1>5, FetchOrder
  <2>2. /\ TailUnder(outq', inflight', au, job.pts) /\ Newer(outq', inflight', au, Top)
        /\ au = NAU => fi'.pts > Top
    BY <1>0, <1>4, <2>1
  <2>3. Sent' = au /\ Got' = au
    BY <1>1, <1>5 DEF Sent, Got
  <2>4. FetchInv'
    BY <1>1, <1>2, <1>4, <1>5, <2>1, <2>2, <2>3 DEF FetchInv, Busy
  <2> QED
    BY <2>1, <2>4
<1>6. CASE au' = au + 1 /\ dpc' = "send" /\ UNCHANGED <<fi, outq>>
  <2>1. LineInv'
    BY <1>1, <1>2, <1>6 DEF LineInv
  <2>2. Sent' = au /\ Got' = au
    BY <1>0, <1>6 DEF Sent, Got
  <2>3. FetchInv'
    BY <1>1, <1>2, <1>4, <1>6, <2>2 DEF FetchInv, Busy
  <2> QED
    BY <2>1, <2>3
<1>7. CASE au = NAU /\ dpc' = "idle" /\ UNCHANGED <<fi, au, outq>>
  <2>1. LineInv'
    BY <1>1, <1>2, <1>7 DEF LineInv
  <2>2. Newer(outq, inflight, 0, Top)
    <3>1. 0 <= au /\ Top <= Top
      BY <1>0
    <3> QED
      BY <1>0, <1>4, <3>1, LineMore
  <2>3. FetchInv'
    BY <1>1, <1>2, <1>4, <1>7, <2>2 DEF FetchInv, Busy
  <2> QED
    BY <2>1, <2>3
<1> QED
  BY <1>1, <1>5, <1>6, <1>7 DEF DecodeDrain

\* Every step of the thread that issues the ioctls.
LEMMA DecodeOrder ==
  ASSUME CubeInv, OrderInv, pc \notin Over, Decode PROVE OrderInv'
<1>1. UNCHANGED <<route, pipeline, pc, fnum, mfi, mok, slot, last>>
  BY DEF Decode, opts, mainV
<1>2. LineInv /\ TakenInv /\ FetchInv
  BY DEF OrderInv
<1>3. LineInv' /\ FetchInv'
  BY <1>1, <1>2, DecodeReleaseOrder, DecodeSendOrder, DecodeGetOrder, DecodeDrainOrder DEF Decode
<1>4. TakenInv'
  BY <1>1, <1>2 DEF TakenInv
<1> QED
  BY <1>3, <1>4 DEF OrderInv

-----------------------------------------------------------------------------
(* The main thread's steps.                                                *)

\* A texture page joins the line at setup, or the setup ends.
LEMMA SetupSendOrder ==
  ASSUME CubeInv, OrderInv, SetupSend PROVE OrderInv'
<1>0. pc = "setup" /\ LineInv /\ TakenInv /\ FetchInv
  BY DEF OrderInv, SetupSend, Over
<1>1. /\ outq \in Seq(Pictures) /\ inflight \in Seq(Nat) /\ fnum \in Nat /\ NPages \in Nat
      /\ NAU \in Nat /\ NAU >= 1
  BY OrderTypes
<1>2. /\ UNCHANGED <<route, pipeline, outq, mfi, mok, slot, last, ok>> /\ ~mok /\ ~ok
  BY <1>0 DEF SetupSend, opts, CubeInv, LoopInv
<1>3. /\ Sorted(outq, inflight) /\ Spaced(outq, inflight) /\ Numbered(outq, inflight)
      /\ Under(outq, inflight, NPages + 1) /\ last = 0
      /\ Under(outq, inflight, fnum + 1) /\ fnum <= NPages
  <2>1. Pic(Upcoming) = NPages + 1
    BY <1>0, <1>1 DEF Pic, Upcoming
  <2> QED
    BY <1>0, <2>1 DEF LineInv
<1>4. TakenInv'
  <2>1. slot = None
    BY <1>0, <1>2 DEF TakenInv
  <2> QED
    BY <1>0, <1>2, <2>1 DEF TakenInv
<1>5. Top' = 0
  BY <1>2, <1>3 DEF Top
<1>6. CASE pc' = "start" /\ dpc' = "idle" /\ inflight' = inflight
  <2>1. Pic(Upcoming)' = NPages + 1
    BY <1>1, <1>6 DEF Pic, Upcoming
  <2>2. 0 < NPages + 1
    BY <1>1
  <2>3. LineInv'
    BY <1>2, <1>3, <1>5, <1>6, <2>1, <2>2 DEF LineInv
  <2>4. Newer(outq, inflight, 0, 0)
    BY <1>1, <1>3, LineMore
  <2>5. FetchInv'
    BY <1>2, <1>5, <1>6, <2>4 DEF FetchInv, Busy
  <2> QED
    BY <1>4, <2>3, <2>5 DEF OrderInv
<1>7. CASE /\ pc' = "setup" /\ dpc' = "pageget" /\ fnum' = fnum + 1 /\ fnum # NPages
           /\ inflight' = inflight \/ inflight' = Append(inflight, fnum + 1)
  <2>1. Pic(Upcoming)' = NPages + 1
    BY <1>1, <1>7 DEF Pic, Upcoming
  <2>2. /\ 0 < NPages + 1 /\ fnum + 1 <= NPages /\ fnum + 1 \in Nat /\ fnum + 1 > 0
        /\ (fnum + 1) + 1 \in Nat /\ fnum + 1 < (fnum + 1) + 1 /\ fnum + 1 < NPages + 1
        /\ fnum + 1 <= (fnum + 1) + 1 /\ NPages + 1 \in Nat /\ 0 < NAU
    BY <1>1, <1>3, <1>7
  <2>3. /\ Sorted(outq, inflight') /\ Spaced(outq, inflight') /\ Numbered(outq, inflight')
        /\ Under(outq, inflight', NPages + 1) /\ Under(outq, inflight', (fnum + 1) + 1)
    <3>1. CASE inflight' = inflight
      <4>1. Under(outq, inflight, (fnum + 1) + 1)
        BY <1>1, <1>3, <2>2, LineMore
      <4> QED
        BY <1>3, <3>1, <4>1
    <3>2. CASE inflight' = Append(inflight, fnum + 1)
      <4>1. PICK p : p = fnum + 1
        OBVIOUS
      <4>2. p \in Nat /\ p > 0 /\ TailUnder(outq, inflight, 0, p) /\ inflight' = Append(inflight, p)
        BY <1>1, <1>3, <2>2, <3>2, <4>1, LineMore
      <4>3. /\ Sorted(outq, inflight') /\ Spaced(outq, inflight') /\ Numbered(outq, inflight')
            /\ \A q \in Nat : p < q => Under(outq, inflight', q)
        BY <1>1, <1>3, <2>2, <4>2, PushKeeps
      <4> QED
        BY <2>2, <4>1, <4>3
    <3> QED
      BY <1>7, <3>1, <3>2
  <2>4. LineInv'
    BY <1>2, <1>3, <1>5, <1>7, <2>1, <2>2, <2>3 DEF LineInv
  <2>5. FetchInv'
    BY <1>7 DEF FetchInv, Busy
  <2> QED
    BY <1>4, <2>4, <2>5 DEF OrderInv
<1> QED
  BY <1>6, <1>7 DEF SetupSend

\* The pictures of the pages leave the line.
LEMMA SetupGetOrder ==
  ASSUME CubeInv, OrderInv, SetupGet PROVE OrderInv'
<1>0. pc = "setup" /\ LineInv /\ TakenInv /\ FetchInv
  BY DEF OrderInv, SetupGet, Over
<1>1. /\ outq \in Seq(Pictures) /\ inflight \in Seq(Nat) /\ fnum + 1 \in Nat
      /\ Pic(Upcoming) \in Nat
  BY OrderTypes
<1>2. /\ UNCHANGED <<route, pipeline, inflight, pc, fnum, mfi, mok, slot, last>>
      /\ dpc' \in {"pagedrain", "page"}
  BY DEF SetupGet, opts, mainV
<1>3. Pic(Upcoming)' = Pic(Upcoming) /\ Top' = Top
  BY <1>2 DEF Pic, Upcoming, Top
<1>4. TakenInv' /\ FetchInv'
  BY <1>0, <1>2 DEF TakenInv, FetchInv, Busy
<1>5. LineInv'
  <2>1. CASE outq' = outq
    BY <1>0, <1>2, <1>3, <2>1 DEF LineInv
  <2>2. CASE outq # <<>> /\ outq' = Tail(outq)
    <3>1. /\ Sorted(outq, inflight) /\ Spaced(outq, inflight) /\ Numbered(outq, inflight)
          /\ Under(outq, inflight, Pic(Upcoming)) /\ Top < Pic(Upcoming)
          /\ Under(outq, inflight, fnum + 1) /\ fnum <= NPages /\ last = 0
      BY <1>0 DEF LineInv
    <3>2. /\ Sorted(outq', inflight) /\ Spaced(outq', inflight) /\ Numbered(outq', inflight)
          /\ \A p \in Nat : Under(outq, inflight, p) => Under(outq', inflight, p)
      BY <1>1, <2>2, <3>1, PopKeeps
    <3> QED
      BY <1>1, <1>2, <1>3, <3>1, <3>2 DEF LineInv
  <2> QED
    BY <2>1, <2>2 DEF SetupGet
<1> QED
  BY <1>4, <1>5 DEF OrderInv

\* --pipeline hands frame 0 to the worker.
LEMMA StartOrder ==
  ASSUME CubeInv, OrderInv, Start PROVE OrderInv'
<1>0. pc = "start" /\ LineInv /\ TakenInv /\ FetchInv
  BY DEF OrderInv, Start, Over
<1>1. /\ UNCHANGED <<route, pipeline, inflight, outq, fnum, mfi, mok, slot, last>>
      /\ pc' = "top" /\ dpc = "idle" /\ fnum = 0 /\ ~ok
  BY <1>0 DEF Start, opts, vdec, CubeInv, TypeOK, LoopInv, SendInv, Paging, Busy
<1>2. Top' = Top /\ Top \in Nat /\ Upcoming = 0
  BY <1>0, <1>1, OrderTypes DEF Top, Upcoming
<1>3. TakenInv'
  BY <1>0, <1>1 DEF TakenInv
<1>4. CASE pipeline
  <2>1. dpc' = "rel" /\ job'.pts = Pic(0)
    BY <1>4 DEF Start, Submit
  <2>2. Upcoming' = 0 + 1
    BY <1>1, <1>4 DEF Upcoming
  <2>3. LineInv' /\ FetchInv'
    BY <1>0, <1>1, <1>2, <2>1, <2>2, OrderSubmit
  <2> QED
    BY <1>3, <2>3 DEF OrderInv
<1>5. CASE ~pipeline
  <2>1. UNCHANGED <<dpc, au, job, fi, ok>>
    BY <1>5 DEF Start, agent
  <2>2. Upcoming' = Upcoming /\ ~Untaken'
    BY <1>1, <1>2, <1>5 DEF Upcoming, Untaken
  <2>3. LineInv' /\ FetchInv'
    BY <1>0, <1>1, <1>2, <2>1, <2>2, OrderSame
  <2> QED
    BY <1>3, <2>3 DEF OrderInv
<1> QED
  BY <1>4, <1>5

\* Without a worker the frame is generated and sent at the top of the loop.
LEMMA LoopTopOrder ==
  ASSUME CubeInv, OrderInv, LoopTop PROVE OrderInv'
<1>0. pc = "top" /\ LineInv /\ TakenInv /\ FetchInv
  BY DEF OrderInv, LoopTop, Over
<1>1. CASE stop
  BY <1>1 DEF LoopTop, OrderInv, Over
<1>2. CASE ~stop
  <2>1. /\ UNCHANGED <<route, pipeline, inflight, outq, fnum, mfi, mok, slot, last>>
        /\ pc' = "wait" /\ fnum \in Nat
    BY <1>2, OrderTypes DEF LoopTop, opts, vdec
  <2>2. Top' = Top /\ Top \in Nat
    BY <2>1, OrderTypes DEF Top
  <2>3. TakenInv'
    BY <1>0, <2>1 DEF TakenInv
  <2>4. CASE pipeline
    <3>1. UNCHANGED <<dpc, au, job, fi, ok>>
      BY <1>2, <2>4 DEF LoopTop, agent
    <3>2. Upcoming' = Upcoming /\ Untaken
      BY <1>0, <2>1, <2>4 DEF Upcoming, Untaken
    <3>3. LineInv' /\ FetchInv'
      BY <1>0, <2>1, <2>2, <3>1, <3>2, OrderSame
    <3> QED
      BY <2>3, <3>3 DEF OrderInv
  <2>5. CASE ~pipeline
    <3>1. dpc' = "rel" /\ job'.pts = Pic(fnum)
      BY <1>2, <2>5 DEF LoopTop, Submit
    <3>2. Upcoming = fnum /\ Upcoming' = fnum + 1
      BY <1>0, <2>1, <2>5 DEF Upcoming
    <3>3. dpc = "idle"
      BY <1>0, <2>5 DEF CubeInv, TypeOK, LoopInv, Paging, Busy
    <3>4. LineInv' /\ FetchInv'
      BY <1>0, <2>1, <2>2, <3>1, <3>2, <3>3, OrderSubmit
    <3> QED
      BY <2>3, <3>4 DEF OrderInv
  <2> QED
    BY <2>4, <2>5
<1> QED
  BY <1>1, <1>2

\* The main thread takes the picture: it is newer than what is on screen.
LEMMA WaitOrder ==
  ASSUME CubeInv, OrderInv, Wait PROVE OrderInv'
<1>0. pc = "wait" /\ LineInv /\ TakenInv /\ FetchInv
  BY DEF OrderInv, Wait, Over
<1>1. /\ UNCHANGED <<route, pipeline, inflight, outq, dpc, au, job, fi, ok, fnum, slot, last>>
      /\ pc' = "take" /\ dpc = "idle" /\ mfi' = fi /\ mok' = ok
  BY DEF Wait, WorkerIdle, opts, vdec, agent
<1>2. /\ outq \in Seq(Pictures) /\ inflight \in Seq(Nat)
      /\ fi.pts \in Nat /\ last \in Nat /\ Top \in Nat /\ Pic(Upcoming) \in Nat
  BY OrderTypes
<1>3. ~mok /\ slot = None /\ Top = last
  BY <1>0 DEF TakenInv, Top
<1>4. Pic(Upcoming)' = Pic(Upcoming) /\ ~Untaken' /\ Untaken
  BY <1>0, <1>1 DEF Pic, Upcoming, Untaken
<1>5. /\ ok => fi.pts > last /\ fi.pts < Pic(Upcoming) /\ Newer(outq, inflight, 0, fi.pts)
      /\ Newer(outq, inflight, 0, last)
  BY <1>0, <1>1, <1>3, <1>4 DEF FetchInv
<1>6. Top' = IF ok THEN fi.pts ELSE last
  BY <1>1 DEF Top
<1>7. LineInv'
  <2>1. Top' < Pic(Upcoming)
    BY <1>0, <1>3, <1>5, <1>6 DEF LineInv
  <2> QED
    BY <1>0, <1>1, <1>4, <2>1 DEF LineInv
<1>8. FetchInv'
  <2>1. Newer(outq, inflight, 0, Top')
    BY <1>5, <1>6
  <2> QED
    BY <1>1, <1>4, <2>1 DEF FetchInv, Busy
<1>9. TakenInv'
  BY <1>0, <1>1, <1>2, <1>3, <1>5 DEF TakenInv
<1> QED
  BY <1>7, <1>8, <1>9 DEF OrderInv

\* What a step between taking a picture and the next round leaves alone.
LEMMA LoopOrder ==
  ASSUME CubeInv, OrderInv, pc \notin Over \cup {"setup", "start", "top", "wait"}, TakenInv',
         pc' \notin {"setup", "start", "top", "wait"},
         UNCHANGED <<pipeline, inflight, outq, dpc, au, job, fi, ok, fnum, mfi, mok>>,
         mok \/ last' = last,
         pipeline => pc' = pc
                     \/ pc \in {"take", "dbget"}
                     \/ {pc, pc'} \subseteq {"pace", "present", "poll", "dispatch"},
         pipeline /\ pc \in {"take", "dbget"} => pc' \in {"dbget", "submit"}
  PROVE  OrderInv'
<1>1. LineInv /\ TakenInv /\ FetchInv
  BY DEF OrderInv
<1>2. Top' = Top /\ Top \in Nat
  BY OrderTypes DEF Top
<1>3. Upcoming' = Upcoming
  BY DEF Upcoming
<1>4. Untaken' => Untaken
  BY DEF Untaken
<1>5. LineInv' /\ FetchInv'
  BY <1>1, <1>2, <1>3, <1>4, OrderSame
<1> QED
  BY <1>1, <1>5 DEF OrderInv

\* The picture goes to the zero-copy presenter, is dropped, or is copied.
LEMMA TakeOrder ==
  ASSUME CubeInv, OrderInv, TakeZeroCopy \/ TakeCopy \/ TakeDrop PROVE OrderInv'
<1>1. /\ UNCHANGED <<route, pipeline, inflight, outq, dpc, au, job, fi, ok, fnum, mfi, mok, slot, last>>
      /\ pc = "take" /\ pc' \in {"exit", "dbget", "submit"}
      /\ pc' = "submit" /\ mok => route # "dmabuf"
  <2>1. CASE TakeZeroCopy
    BY <2>1 DEF TakeZeroCopy, Break, opts, agent
  <2>2. CASE TakeCopy
    BY <2>2 DEF TakeCopy, Break, opts, agent
  <2>3. CASE TakeDrop
    BY <2>3 DEF TakeDrop, opts, vdec, agent
  <2> QED
    BY <2>1, <2>2, <2>3
<1>2. CASE pc' = "exit"
  BY <1>2 DEF OrderInv, Over
<1>3. CASE pc' # "exit"
  <2>1. TakenInv
    BY <1>1 DEF OrderInv, Over
  <2>2. TakenInv'
    BY <1>1, <1>3, <2>1 DEF TakenInv
  <2> QED
    BY <1>1, <1>3, <2>2, LoopOrder DEF Over
<1> QED
  BY <1>2, <1>3

\* A dumb buffer for the copy, or none.
LEMMA DbGetOrder ==
  ASSUME CubeInv, OrderInv, DbGet \/ DbFail PROVE OrderInv'
<1>1. CASE DbFail
  BY <1>1 DEF DbFail, Break, OrderInv, Over
<1>2. CASE DbGet
  <2>1. /\ UNCHANGED <<route, pipeline, inflight, outq, dpc, au, job, fi, ok, fnum, mfi, mok, last>>
        /\ pc = "dbget" /\ pc' = "submit"
    BY <1>2 DEF DbGet, opts, agent
  <2>2. mok /\ slot' # None
    <3>1. slot' \in Slots
      BY <1>2, DbGetSlot
    <3>2. None \notin Slots
      BY CodaAssumption DEF Slots
    <3> QED
      BY <2>1, <3>1, <3>2 DEF CubeInv, LoopInv
  <2>3. TakenInv
    BY <2>1 DEF OrderInv, Over
  <2>4. TakenInv'
    BY <2>1, <2>2, <2>3 DEF TakenInv
  <2> QED
    BY <2>1, <2>4, LoopOrder DEF Over
<1> QED
  BY <1>1, <1>2

\* The next frame goes to the worker while this one is shown.
LEMMA SubmitNextOrder ==
  ASSUME CubeInv, OrderInv, SubmitNext PROVE OrderInv'
<1>0. pc = "submit" /\ LineInv /\ TakenInv /\ FetchInv
  BY DEF OrderInv, SubmitNext, Over
<1>1. /\ UNCHANGED <<route, pipeline, inflight, outq, fnum, mfi, mok, slot, last>>
      /\ pc' = "pace" /\ fnum \in Nat
  BY OrderTypes DEF SubmitNext, opts, vdec
<1>2. Top' = Top /\ Top \in Nat
  BY <1>1, OrderTypes DEF Top
<1>3. TakenInv'
  BY <1>0, <1>1 DEF TakenInv
<1>4. CASE pipeline
  <2>1. dpc' = "rel" /\ job'.pts = Pic(fnum + 1)
    BY <1>4 DEF SubmitNext, Submit
  <2>2. Upcoming = fnum + 1 /\ Upcoming' = (fnum + 1) + 1 /\ fnum + 1 \in Nat
    BY <1>0, <1>1, <1>4 DEF Upcoming
  <2>3. dpc = "idle"
    BY <1>0, <1>4 DEF CubeInv, TypeOK, LoopInv, Paging, Busy
  <2>4. LineInv' /\ FetchInv'
    BY <1>0, <1>1, <1>2, <2>1, <2>2, <2>3, OrderSubmit
  <2> QED
    BY <1>3, <2>4 DEF OrderInv
<1>5. CASE ~pipeline
  <2>1. UNCHANGED <<dpc, au, job, fi, ok>>
    BY <1>5 DEF SubmitNext, agent
  <2> QED
    BY <1>0, <1>1, <1>3, <1>5, <2>1, LoopOrder DEF Over
<1> QED
  BY <1>4, <1>5

\* Waiting for sway, pacing and reading events show nothing.
LEMMA PaceOrder ==
  ASSUME CubeInv, OrderInv, DbWait \/ PaceWait \/ PaceEnd \/ PollEvents PROVE OrderInv'
<1>1. /\ UNCHANGED <<route, pipeline, inflight, outq, dpc, au, job, fi, ok, fnum, mfi, mok, slot, last>>
      /\ \/ pc' = pc /\ pc \in {"dbget", "pace"}
         \/ pc = "pace" /\ pc' = "present"
         \/ pc = "poll" /\ pc' = "dispatch"
  <2>1. CASE DbWait
    BY <2>1 DEF DbWait, opts, vdec, agent, mainV
  <2>2. CASE PaceWait
    BY <2>2 DEF PaceWait, opts, vdec, agent, mainV
  <2>3. CASE PaceEnd
    BY <2>3 DEF PaceEnd, opts, vdec, agent
  <2>4. CASE PollEvents
    BY <2>4 DEF PollEvents, opts, vdec, agent
  <2> QED
    BY <2>1, <2>2, <2>3, <2>4
<1>2. TakenInv
  BY <1>1 DEF OrderInv, Over
<1>3. TakenInv'
  BY <1>1, <1>2 DEF TakenInv
<1> QED
  BY <1>1, <1>3, LoopOrder DEF Over

\* What is presented: the picture taken, unless the connection is gone.
LEMMA PresentIs ==
  ASSUME CubeInv, TakenInv, Present
  PROVE  /\ pc = "present" /\ pc' = "poll"
         /\ last' = last \/ (mok /\ last' = mfi.pts)
         /\ mok /\ ~dead' => last' = mfi.pts
<1>1. pc = "present" /\ pc' = "poll"
  BY DEF Present
<1>2. mok => HasBuffer \/ route = "shm"
  BY <1>1, CodaAssumption DEF HasBuffer, TakenInv
<1>3. HasBuffer => mok
  BY DEF HasBuffer, TakenInv
<1>4. CASE ~HasBuffer
  BY <1>1, <1>2, <1>4 DEF Present
<1>5. CASE HasBuffer
  <2>1. last' = mfi.pts \/ (last' = last /\ dead' = TRUE)
    BY <1>5 DEF Present
  <2> QED
    BY <1>1, <1>3, <1>5, <2>1
<1> QED
  BY <1>4, <1>5

\* The picture is shown.
LEMMA PresentOrder ==
  ASSUME CubeInv, OrderInv, Present PROVE OrderInv'
<1>0. pc = "present" /\ TakenInv
  BY DEF OrderInv, Present, Over
<1>1. /\ UNCHANGED <<route, pipeline, inflight, outq, dpc, au, job, fi, ok, fnum, mfi, mok, slot>>
  BY DEF Present, opts, vdec, agent
<1>2. /\ pc' = "poll" /\ (last' = last \/ (mok /\ last' = mfi.pts))
  BY <1>0, PresentIs
<1>3. mfi.pts \in Nat /\ last \in Nat
  BY OrderTypes
<1>4. TakenInv'
  BY <1>0, <1>1, <1>2, <1>3 DEF TakenInv
<1> QED
  BY <1>0, <1>1, <1>2, <1>4, LoopOrder DEF Over

\* The round ends and its picture is forgotten.
LEMMA LoopEndOrder ==
  ASSUME CubeInv, OrderInv, LoopEnd PROVE OrderInv'
<1>0. pc = "dispatch" /\ LineInv /\ TakenInv /\ FetchInv
  BY DEF OrderInv, LoopEnd, Over
<1>1. /\ UNCHANGED <<route, pipeline, inflight, outq, dpc, au, job, fi, ok, last>>
      /\ fnum' = fnum + 1 /\ pc' \in {"exit", "top"} /\ ~mok' /\ slot' = None
  BY DEF LoopEnd, opts, vdec, agent
<1>2. CASE pc' = "exit"
  BY <1>2 DEF OrderInv, Over
<1>3. CASE pc' = "top"
  <2>1. mfi.pts \in Nat /\ last \in Nat /\ fnum \in Nat /\ Top \in Nat
    BY OrderTypes
  <2>2. Top' \in Nat /\ Top' <= Top
    BY <1>0, <1>1, <2>1 DEF Top, TakenInv
  <2>3. Upcoming' = Upcoming
    <3>1. (fnum + 1) + 1 = fnum + 2
      BY <2>1
    <3> QED
      BY <1>0, <1>1, <1>3, <3>1 DEF Upcoming
  <2>4. Untaken' => Untaken
    BY <1>0, <1>1, <1>3 DEF Untaken
  <2>5. LineInv' /\ FetchInv'
    BY <1>0, <1>1, <1>3, <2>2, <2>3, <2>4, OrderSame
  <2>6. TakenInv'
    BY <1>0, <1>1, <1>3 DEF TakenInv
  <2> QED
    BY <2>5, <2>6 DEF OrderInv
<1> QED
  BY <1>1, <1>2, <1>3

\* After the loop nothing is shown.
LEMMA OverOrder ==
  ASSUME CubeInv, [Next]_vars, pc \in Over PROVE pc' \in Over /\ last' = last
<1> USE DEF Over
<1>1. CASE Main
  BY <1>1 DEF Main, SetupSend, SetupGet, Start, LoopTop, Wait, TakeZeroCopy, TakeCopy, TakeDrop,
     DbGet, DbWait, DbFail, SubmitNext, PaceWait, PaceEnd, Present, PollEvents, LoopEnd,
     ExitRelease, VdClose
<1>2. CASE Decode \/ VdecDecode \/ SwayShow \/ SwayDies \/ Signal
  BY <1>2 DEF Decode, VdecDecode, SwayShow, SwayDies, Signal, mainV
<1>3. CASE Finished \/ UNCHANGED vars
  BY <1>3 DEF Finished, vars, mainV
<1> QED
  BY <1>1, <1>2, <1>3 DEF Next

\* sway's steps, a signal and a stutter leave every picture where it is.
LEMMA OthersOrder ==
  ASSUME CubeInv, OrderInv, SwayShow \/ SwayDies \/ Signal \/ Finished \/ UNCHANGED vars
  PROVE  OrderInv'
<1> USE DEF opts, vdec, agent, mainV
<1>1. UNCHANGED <<route, pipeline, inflight, outq, dpc, au, job, fi, ok, pc, fnum, mfi, mok, slot, last>>
  <2>1. CASE SwayShow
    BY <2>1 DEF SwayShow
  <2>2. CASE SwayDies
    BY <2>2 DEF SwayDies
  <2>3. CASE Signal
    BY <2>3 DEF Signal
  <2>4. CASE Finished \/ UNCHANGED vars
    BY <2>4 DEF Finished, vars
  <2> QED
    BY <2>1, <2>2, <2>3, <2>4
<1>2. /\ Pic(Upcoming)' = Pic(Upcoming) /\ Top' = Top /\ Sent' = Sent /\ Got' = Got
      /\ Untaken' = Untaken
  BY <1>1 DEF Pic, Upcoming, Top, Sent, Got, Untaken
<1>3. LineInv => LineInv'
  BY <1>1, <1>2 DEF LineInv
<1>4. TakenInv => TakenInv'
  BY <1>1 DEF TakenInv
<1>5. FetchInv => FetchInv'
  BY <1>1, <1>2 DEF FetchInv
<1> QED
  BY <1>1, <1>3, <1>4, <1>5 DEF OrderInv

\* Every step keeps the order.
LEMMA NextOrder ==
  ASSUME CubeInv, OrderInv, [Next]_vars PROVE OrderInv'
<1>1. CASE pc \in Over
  BY <1>1, OverOrder DEF OrderInv
<1>2. CASE pc \notin Over
  <2>1. CASE Main
    <3>1. CASE ExitRelease \/ VdClose
      BY <1>2, <3>1 DEF ExitRelease, VdClose, Over
    <3> QED
      BY <2>1, <3>1, SetupSendOrder, SetupGetOrder, StartOrder, LoopTopOrder, WaitOrder, TakeOrder,
         DbGetOrder, SubmitNextOrder, PaceOrder, PresentOrder, LoopEndOrder DEF Main
  <2> QED
    BY <1>2, <2>1, DecodeOrder, VdecDecodeOrder, OthersOrder DEF Next
<1> QED
  BY <1>1, <1>2

\* At the start nothing is in line and nothing on screen.
LEMMA InitOrder == Init => OrderInv
<1> SUFFICES ASSUME Init PROVE OrderInv
  OBVIOUS
<1>1. /\ outq = <<>> /\ inflight = <<>> /\ pc = "setup" /\ dpc = "page" /\ fnum = 0
      /\ mok = FALSE /\ slot = None /\ last = 0
  BY DEF Init
<1>2. InLine(outq, inflight) = 0 /\ \A i \in 1 .. 0 : FALSE
  BY <1>1 DEF InLine
<1>3. /\ Sorted(outq, inflight) /\ Spaced(outq, inflight) /\ Numbered(outq, inflight)
      /\ \A p : Under(outq, inflight, p)
  BY <1>2 DEF Sorted, Spaced, Numbered, Under
<1>4. Top = 0 /\ Upcoming = 0
  BY <1>1 DEF Top, Upcoming
<1>5. NPages \in Nat
  BY CodaAssumption
<1>6. LineInv
  <2>1. 0 < Pic(Upcoming) /\ 0 <= NPages
    BY <1>4, <1>5 DEF Pic
  <2> QED
    BY <1>1, <1>3, <1>4, <2>1 DEF LineInv
<1>7. TakenInv /\ FetchInv
  BY <1>1 DEF Init, TakenInv, FetchInv, Busy
<1> QED
  BY <1>6, <1>7 DEF OrderInv

\* A step that shows a picture shows a newer one.
LEMMA ShownNewer ==
  ASSUME CubeInv, OrderInv, [Next]_vars
  PROVE  [/\ last' >= last
          /\ pc = "present" /\ mok /\ ~dead' => last' > last]_<<pc, last>>
<1>1. last \in Nat /\ mfi.pts \in Nat
  BY OrderTypes
<1>2. CASE Present
  <2>1. TakenInv /\ pc = "present"
    BY <1>2 DEF OrderInv, Present, Over
  <2>2. /\ last' = last \/ (mok /\ last' = mfi.pts)
        /\ mok /\ ~dead' => last' = mfi.pts
    BY <1>2, <2>1, PresentIs
  <2>3. mok => mfi.pts > last
    BY <2>1 DEF TakenInv
  <2> QED
    BY <1>1, <2>2, <2>3
<1>3. CASE Main /\ ~Present
  <2>1. last' = last /\ pc # "present"
    BY <1>3 DEF Main, SetupSend, SetupGet, Start, LoopTop, Wait, TakeZeroCopy, TakeCopy, TakeDrop,
       DbGet, DbWait, DbFail, SubmitNext, PaceWait, PaceEnd, PollEvents, LoopEnd,
       ExitRelease, VdClose
  <2> QED
    BY <1>1, <2>1
<1>4. CASE Decode \/ VdecDecode \/ SwayShow \/ SwayDies \/ Signal
  <2>1. UNCHANGED <<pc, last>>
    BY <1>4 DEF Decode, VdecDecode, SwayShow, SwayDies, Signal, mainV
  <2> QED
    BY <2>1
<1>5. CASE Finished \/ UNCHANGED vars
  <2>1. UNCHANGED <<pc, last>>
    BY <1>5 DEF Finished, vars, mainV
  <2> QED
    BY <2>1
<1> QED
  BY <1>2, <1>3, <1>4, <1>5 DEF Next

\* The pictures of the order's invariant hold in every state of every run.
THEOREM LineSound == Spec => []OrderInv
<1>1. Init => OrderInv
  BY InitOrder
<1>2. CubeInv /\ OrderInv /\ [Next]_vars => OrderInv'
  BY NextOrder
<1> QED
  BY <1>1, <1>2, CubeSound, PTL DEF Spec

\* A picture goes on screen at most once and never after a newer one, for
\* one to three access units a frame, every backlog of late pictures that
\* dropped frames leave behind, and with or without the worker.
THEOREM FramesInOrder == Spec => FrameOrder
<1>1. CubeInv /\ OrderInv /\ [Next]_vars =>
        [/\ last' >= last
         /\ pc = "present" /\ mok /\ ~dead' => last' > last]_<<pc, last>>
  BY ShownNewer
<1> QED
  BY <1>1, CubeSound, LineSound, PTL DEF Spec, FrameOrder

-----------------------------------------------------------------------------
(* The stream: its counters wrap, its references follow a window.          *)

\* The render's numbers with --smooth, as functions of the frame.
FrameNumOf(n) == (pages + 1 + smooth * n) % U16
PocOf(n)      == (2 * (pages + 1) + 6 * n) % U16

\* The short-term references are the last ones sent, in their order: s[i] is
\* Len(s) - i before f, round the wrap.
WindowOf(s, f) ==
    \A i \in 1 .. Len(s) :
      /\ s[i] \in 0 .. U16 - 1
      /\ s[i] = f - (Len(s) - i) \/ s[i] = f - (Len(s) - i) + U16

StreamTypes ==
    /\ pages \in Nat /\ smooth \in {0, 1, 2} /\ extra \in Nat
    /\ 1 + pages + smooth + extra <= MAXREF
    /\ page \in 0 .. pages /\ tN \in Nat /\ tK \in 0 .. smooth
    /\ ref \in [fn : 0 .. U16 - 1, lsb : 0 .. U16 - 1]
    /\ tLast \in Nat /\ st \in Seq(Nat)
    /\ lt = 0 .. page /\ maxLt = IF page = 0 THEN 0 ELSE pages

RefInv ==
    /\ page < pages => tN = 0 /\ tK = 0
    /\ Len(st) <= smooth + extra /\ WindowOf(st, ref.fn)
    /\ smooth = 0 \/ (tN = 0 /\ tK = 0) =>
         ref.fn = page /\ ref.lsb = 2 * page /\ st = <<>>
    /\ tN = 0 /\ tK = 0 => tLast = 0
    /\ smooth # 0 /\ page = pages /\ tK = 0 =>
         /\ FrameNumOf(tN) = (ref.fn + 1) % U16
         /\ \E g \in {2, 4, 6} : PocOf(tN) = (ref.lsb + g) % U16 /\ tLast < g
    /\ tK = 1 => /\ ref.fn = FrameNumOf(tN) /\ ref.lsb = PocOf(tN)
                 /\ tLast = 0 /\ st # <<>>
    /\ tK = 2 => /\ ref.fn = (FrameNumOf(tN) + 1) % U16 /\ ref.lsb = (PocOf(tN) + 2) % U16
                 /\ tLast = 0 /\ st # <<>>

\* The last picture, as the decoder understood it.
PictureInv ==
    /\ pic.fn = (pic.after + 1) % U16
    /\ pic.poc > 0
    /\ pic.poc > pic.prev \/ (smooth = 0 /\ pic.poc = 2)
    /\ pic.reads

\* Without --smooth: the last render's picture order count, from the last page's on.
PlainInv == smooth = 0 /\ tN # 0 => tLast = 2 * (((tN - 1) % RenderWrap) + 1)

StreamInv == StreamTypes /\ RefInv /\ PlainInv /\ PictureInv

\* The remainder of a multiple and a small rest is the rest.
LEMMA ModIs ==
  ASSUME NEW U \in Nat, U > 0, NEW q \in Nat, NEW r \in 0 .. U - 1
  PROVE  (U * q + r) % U = r
  OBVIOUS

\* A counter that wraps, one small step further.
LEMMA ModStep ==
  ASSUME NEW U \in Nat, U > 0, NEW x \in Nat, NEW c \in Nat, c < U
  PROVE  /\ x % U \in 0 .. U - 1
         /\ (x + c) % U = IF (x % U) + c < U THEN (x % U) + c ELSE (x % U) + c - U
<1>1. PICK q \in Nat, r \in 0 .. U - 1 : x = U * q + r /\ x % U = r
  <2>1. x % U \in 0 .. U - 1
    OBVIOUS
  <2>2. x \div U \in Nat
    OBVIOUS
  <2>3. x = U * (x \div U) + (x % U)
    OBVIOUS
  <2> QED
    BY <2>1, <2>2, <2>3
<1>2. CASE r + c < U
  <2>1. x + c = U * q + (r + c) /\ r + c \in 0 .. U - 1
    BY <1>1, <1>2
  <2> QED
    BY <1>1, <1>2, <2>1, ModIs
<1>3. CASE ~(r + c < U)
  <2>1. x + c = U * (q + 1) + (r + c - U)
    BY <1>1, <1>3
  <2>2. r + c - U \in 0 .. U - 1 /\ q + 1 \in Nat
    BY <1>1, <1>3
  <2>3. PICK q2 \in Nat, r2 \in 0 .. U - 1 : x + c = U * q2 + r2 /\ r2 = r + c - U
    BY <2>1, <2>2
  <2>4. (U * q2 + r2) % U = r2
    BY ModIs
  <2>5. (x + c) % U = r + c - U
    BY <2>3, <2>4
  <2> QED
    BY <1>1, <1>3, <2>5
<1> QED
  BY <1>2, <1>3

\* The counter already wrapped and the counter itself step alike.
LEMMA ModAdd ==
  ASSUME NEW x \in Nat, NEW c \in Nat, c < U16
  PROVE  /\ x % U16 \in 0 .. U16 - 1 /\ (x + c) % U16 = ((x % U16) + c) % U16
         /\ (x + c) % U16 \in 0 .. U16 - 1
<1>1. U16 \in Nat /\ U16 > 0
  BY StreamAssumption
<1>2. /\ x % U16 \in 0 .. U16 - 1
      /\ (x + c) % U16 = IF (x % U16) + c < U16 THEN (x % U16) + c ELSE (x % U16) + c - U16
  BY <1>1, ModStep
<1>3. PICK y : y = x % U16
  OBVIOUS
<1>4. y \in Nat /\ y \in 0 .. U16 - 1
  BY <1>1, <1>2, <1>3
<1>5. (y + c) % U16 = IF (y % U16) + c < U16 THEN (y % U16) + c ELSE (y % U16) + c - U16
  BY <1>1, <1>4, ModStep
<1>6. y % U16 = y
  BY <1>1, <1>4
<1>7. (y + c) % U16 = IF y + c < U16 THEN y + c ELSE y + c - U16
  BY <1>5, <1>6
<1>8. (x + c) % U16 = IF y + c < U16 THEN y + c ELSE y + c - U16
  BY <1>2, <1>3
<1>9. (x + c) % U16 = (y + c) % U16
  BY <1>7, <1>8
<1>10. (x + c) % U16 \in 0 .. U16 - 1
  BY <1>1, <1>4, <1>8
<1> QED
  BY <1>2, <1>3, <1>9, <1>10

\* One small step of a value below U16.
LEMMA ModNear ==
  ASSUME NEW r \in 0 .. U16 - 1, NEW c \in Nat, c < U16
  PROVE  /\ (r + c) % U16 \in 0 .. U16 - 1
         /\ (r + c) % U16 = IF r + c < U16 THEN r + c ELSE r + c - U16
<1>1. U16 \in Nat /\ U16 > 0 /\ r \in Nat
  BY StreamAssumption
<1>2. (r + c) % U16 = IF (r % U16) + c < U16 THEN (r % U16) + c ELSE (r % U16) + c - U16
  BY <1>1, ModStep
<1>3. r % U16 = r
  BY <1>1
<1>4. (r + c) % U16 = IF r + c < U16 THEN r + c ELSE r + c - U16
  BY <1>2, <1>3
<1> QED
  BY <1>1, <1>4

\* A picture a little later than the last reference is found that much later,
\* whichever of the two counts has wrapped.
LEMMA PocNear ==
  ASSUME StreamTypes, NEW c \in {2, 4, 6}
  PROVE  Stream!PocFromRef((ref.lsb + c) % U16) = c
<1>1. U16 \in Nat /\ 12 <= U16 /\ ref.lsb \in 0 .. U16 - 1 /\ c < U16 /\ c \in Nat
  BY StreamAssumption DEF StreamTypes
<1>2. PICK l : l = (ref.lsb + c) % U16
  OBVIOUS
<1>3. PICK r : r = ref.lsb
  OBVIOUS
<1>4. r \in 0 .. U16 - 1 /\ l = IF r + c < U16 THEN r + c ELSE r + c - U16
  BY <1>1, <1>2, <1>3, ModNear
<1>5. U16 \div 2 \in Nat /\ U16 \div 2 >= 6 /\ U16 - (U16 \div 2) >= 6
  BY <1>1
<1>6. Stream!PocFromRef(l) = (LET d == l - r
                              IN  IF d <= -(U16 \div 2) THEN d + U16
                                  ELSE IF d > U16 \div 2 THEN d - U16 ELSE d)
  BY <1>3 DEF Stream!PocFromRef
<1>7. CASE r + c < U16
  <2>1. l - r = c
    BY <1>1, <1>4, <1>7
  <2> QED
    BY <1>1, <1>2, <1>5, <1>6, <2>1
<1>8. CASE ~(r + c < U16)
  <2>1. l - r = c - U16
    BY <1>1, <1>4, <1>8
  <2>2. c - U16 <= -(U16 \div 2) /\ (c - U16) + U16 = c
    BY <1>1, <1>5
  <2> QED
    BY <1>2, <1>6, <2>1, <2>2
<1> QED
  BY <1>7, <1>8

\* A render that is no reference: its count starts over before it is half way
\* round.
LEMMA PocRender ==
  ASSUME StreamTypes, ref.lsb = 2 * pages
  PROVE  Stream!PocFromRef((2 * ((tN % RenderWrap) + 1 + pages)) % U16) =
           2 * ((tN % RenderWrap) + 1)
<1>1. /\ U16 \in Nat /\ RenderWrap \in Nat /\ RenderWrap > 0 /\ MAXREF \in Nat
      /\ 4 * RenderWrap <= U16 /\ 2 * (RenderWrap + MAXREF) <= U16
      /\ pages \in Nat /\ pages < MAXREF /\ tN \in Nat
  BY StreamAssumption DEF StreamTypes
<1>2. PICK w : w = tN % RenderWrap
  OBVIOUS
<1>3. w \in 0 .. RenderWrap - 1
  BY <1>1, <1>2
<1>4. PICK v : v = 2 * (w + 1 + pages)
  OBVIOUS
<1>5. v \in 0 .. U16 - 1
  BY <1>1, <1>3, <1>4
<1>6. v % U16 = v
  BY <1>1, <1>5
<1>7. Stream!PocFromRef(v) = (LET d == v - 2 * pages
                              IN  IF d <= -(U16 \div 2) THEN d + U16
                                  ELSE IF d > U16 \div 2 THEN d - U16 ELSE d)
  BY DEF Stream!PocFromRef
<1>8. U16 \div 2 \in Nat /\ 2 * RenderWrap <= U16 \div 2
  BY <1>1
<1>9. v - 2 * pages = 2 * w + 2
  BY <1>1, <1>3, <1>4
<1>10. ~(2 * w + 2 <= -(U16 \div 2)) /\ ~(2 * w + 2 > U16 \div 2) /\ 2 * w + 2 > 0
  BY <1>1, <1>3, <1>8
<1>11. Stream!PocFromRef(v) = 2 * (w + 1)
  BY <1>3, <1>7, <1>9, <1>10
<1>12. (2 * ((tN % RenderWrap) + 1 + pages)) % U16 = v
  BY <1>2, <1>4, <1>6
<1> QED
  BY <1>2, <1>11, <1>12

\* One frame on: the plain render's count goes up, or starts over with 2.
LEMMA PlainAdvances ==
  ASSUME NEW m \in Nat, m # 0
  PROVE  \/ 2 * ((m % RenderWrap) + 1) > 2 * (((m - 1) % RenderWrap) + 1)
         \/ 2 * ((m % RenderWrap) + 1) = 2
<1>1. RenderWrap \in Nat /\ RenderWrap > 0
  BY StreamAssumption
<1>2. PICK w : w = RenderWrap
  OBVIOUS
<1>3. PICK x : x = m - 1
  OBVIOUS
<1>4. x \in Nat /\ m = x + 1 /\ w \in Nat /\ w > 0 /\ 1 \in Nat
  BY <1>1, <1>2, <1>3
<1>5. x % w \in Nat /\ m % w \in Nat
  BY <1>4
<1>6. CASE w = 1
  BY <1>2, <1>3, <1>4, <1>5, <1>6
<1>7. CASE w # 1
  <2>1. (x + 1) % w = IF (x % w) + 1 < w THEN (x % w) + 1 ELSE (x % w) + 1 - w
    BY <1>4, <1>7, ModStep
  <2>2. m % w = (x % w) + 1 \/ m % w = 0
    <3>1. x % w < w
      BY <1>4
    <3> QED
      BY <1>4, <1>5, <2>1, <3>1
  <2> QED
    BY <1>2, <1>3, <1>5, <2>2
<1> QED
  BY <1>6, <1>7

\* PicNum of the short-term references as seen from the next picture.
LEMMA WindowPicNums ==
  ASSUME NEW s \in Seq(Nat), NEW f \in 0 .. U16 - 1, WindowOf(s, f), Len(s) + 1 < U16,
         NEW fn, fn = (f + 1) % U16, NEW i \in 1 .. Len(s)
  PROVE  Stream!FrameNumWrap(s[i], fn) = fn - 1 - (Len(s) - i)
<1>1. U16 \in Nat /\ 12 <= U16 /\ f \in Nat /\ Len(s) \in Nat /\ i \in Nat
  BY StreamAssumption
<1>2. fn = IF f + 1 < U16 THEN f + 1 ELSE f + 1 - U16
  BY <1>1, ModNear
<1>3. PICK x : x = s[i]
  OBVIOUS
<1>4. PICK b : b = Len(s) - i
  OBVIOUS
<1>5. b \in Nat /\ b + 1 < U16 /\ x \in 0 .. U16 - 1 /\ (x = f - b \/ x = f - b + U16)
  BY <1>1, <1>3, <1>4 DEF WindowOf
<1>6. (IF x > fn THEN x - U16 ELSE x) = fn - 1 - b
  <2>1. CASE f + 1 < U16
    <3>1. fn = f + 1
      BY <1>2, <2>1
    <3>2. CASE x = f - b
      <4>1. \A a, c \in Nat : ~(a - c > a + 1) /\ a - c = (a + 1) - 1 - c
        OBVIOUS
      <4>2. ~(x > fn) /\ x = fn - 1 - b
        BY SMTT(30), <1>1, <1>5, <3>1, <3>2, <4>1
      <4> QED
        BY <4>2
    <3>3. CASE x = f - b + U16
      BY SMTT(30), <1>1, <1>5, <3>1, <3>3
    <3> QED
      BY <1>5, <3>2, <3>3
  <2>2. CASE ~(f + 1 < U16)
    <3>1. fn = 0 /\ f = U16 - 1
      BY <1>1, <1>2, <2>2
    <3> QED
      BY <1>1, <1>5, <3>1
  <2> QED
    BY <2>1, <2>2
<1> QED
  BY <1>3, <1>4, <1>6 DEF Stream!FrameNumWrap

\* abs_diff_pic_num 1 selects the last reference sent.
LEMMA PreviousIsLast ==
  ASSUME StreamTypes, RefInv, st # <<>>, NEW fn, fn = (ref.fn + 1) % U16
  PROVE  Stream!Previous(fn) = Len(st)
<1>1. /\ st \in Seq(Nat) /\ ref.fn \in 0 .. U16 - 1 /\ WindowOf(st, ref.fn)
      /\ Len(st) \in Nat /\ Len(st) > 0 /\ DOMAIN st = 1 .. Len(st)
  BY DEF StreamTypes, RefInv
<1>2. Len(st) + 1 < U16 /\ U16 \in Nat
  <2>1. Len(st) <= smooth + extra /\ 1 + pages + smooth + extra <= MAXREF
    BY DEF StreamTypes, RefInv
  <2>2. MAXREF \in Nat /\ 2 * (RenderWrap + MAXREF) <= U16 /\ RenderWrap \in Nat /\ RenderWrap > 0
        /\ U16 \in Nat /\ smooth \in Nat /\ extra \in Nat /\ pages \in Nat
    BY StreamAssumption DEF StreamTypes
  <2> QED
    BY <1>1, <2>1, <2>2
<1>3. fn \in Int
  BY <1>1, <1>2, ModNear
<1>4. \A i \in 1 .. Len(st) : Stream!FrameNumWrap(st[i], fn) = fn - 1 - (Len(st) - i)
  BY <1>1, <1>2, WindowPicNums
<1>5. \A i \in 1 .. Len(st) : Stream!FrameNumWrap(st[i], fn) = fn - 1 <=> i = Len(st)
  <2>1. ASSUME NEW i \in 1 .. Len(st)
        PROVE  Stream!FrameNumWrap(st[i], fn) = fn - 1 <=> i = Len(st)
    <3>1. PICK x : x = Stream!FrameNumWrap(st[i], fn)
      OBVIOUS
    <3>2. x = fn - 1 - (Len(st) - i)
      BY <1>4, <3>1
    <3>3. x = fn - 1 <=> i = Len(st)
      <4>1. \A a, l, m \in Int : a - 1 - (l - m) = a - 1 <=> m = l
        OBVIOUS
      <4>2. PICK l : l = Len(st)
        BY Zenon
      <4>3. l \in Int /\ i \in Int
        BY <1>1, <4>2
      <4>4. x = fn - 1 - (l - i)
        BY <3>2, <4>2
      <4>5. x = fn - 1 <=> i = l
        BY <1>3, <4>1, <4>3, <4>4
      <4> QED
        BY <4>2, <4>5
    <3> QED
      BY <3>1, <3>3
  <2> QED
    BY <2>1
<1>6. PICK H : H = {i \in DOMAIN st : Stream!FrameNumWrap(st[i], fn) = fn - 1}
  OBVIOUS
<1>7. H = {Len(st)}
  <2>1. Len(st) \in 1 .. Len(st)
    BY <1>1
  <2>2. \A i : i \in H <=> i = Len(st)
    BY <1>1, <1>5, <1>6, <2>1, Zenon
  <2> QED
    BY <2>2
<1>8. (CHOOSE i \in H : TRUE) = Len(st)
  BY <1>7
<1> QED
  BY <1>6, <1>7, <1>8 DEF Stream!Previous

\* The sliding window drops the oldest reference and keeps the order.
LEMMA WindowSlides ==
  ASSUME StreamTypes, RefInv, smooth # 0, NEW fn, fn = (ref.fn + 1) % U16
  PROVE  LET w == Append(Stream!SlidingWindow(fn), fn)
         IN  w \in Seq(Nat) /\ w # <<>> /\ Len(w) <= smooth + extra /\ WindowOf(w, fn)
<1>1. /\ st \in Seq(Nat) /\ ref.fn \in 0 .. U16 - 1 /\ WindowOf(st, ref.fn)
      /\ Len(st) \in Nat /\ DOMAIN st = 1 .. Len(st)
      /\ Len(st) <= smooth + extra /\ smooth + extra >= 1
      /\ smooth \in Nat /\ extra \in Nat /\ pages \in Nat /\ page \in 0 .. pages
  BY DEF StreamTypes, RefInv
<1>2. Len(st) + 1 < U16 /\ U16 \in Nat /\ 12 <= U16
  <2>1. 1 + pages + smooth + extra <= MAXREF
    BY DEF StreamTypes
  <2>2. MAXREF \in Nat /\ 2 * (RenderWrap + MAXREF) <= U16 /\ RenderWrap \in Nat /\ RenderWrap > 0
        /\ U16 \in Nat /\ 12 <= U16
    BY StreamAssumption
  <2> QED
    BY <1>1, <2>1, <2>2
<1>3. fn \in 0 .. U16 - 1 /\ fn = IF ref.fn + 1 < U16 THEN ref.fn + 1 ELSE ref.fn + 1 - U16
  <2>1. PICK f : f = ref.fn
    OBVIOUS
  <2>2. f \in 0 .. U16 - 1 /\ fn = (f + 1) % U16 /\ 1 < U16
    BY <1>1, <1>2, <2>1
  <2>3. fn \in 0 .. U16 - 1 /\ fn = IF f + 1 < U16 THEN f + 1 ELSE f + 1 - U16
    BY <2>2, ModNear
  <2> QED
    BY <2>1, <2>3
<1>4. \A i \in 1 .. Len(st) : Stream!FrameNumWrap(st[i], fn) = fn - 1 - (Len(st) - i)
  BY <1>1, <1>2, WindowPicNums
<1>5. PICK w : w = Stream!SlidingWindow(fn)
  OBVIOUS
<1>6. PICK c \in {0, 1} : /\ w \in Seq(Nat) /\ Len(w) = Len(st) - c /\ Len(w) + 1 <= smooth + extra
                          /\ \A i \in 1 .. Len(w) : w[i] = st[i + c]
  <2>1. Stream!Cardinality(lt) = pages + 1 \/ Len(st) = 0
    <3>1. CASE page = pages
      <4>1. lt = 0 .. pages
        BY <3>1 DEF StreamTypes
      <4>2. Cardinality(0 .. pages) = pages + 1
        BY <1>1, FS_Interval
      <4>3. Stream!Cardinality(lt) = Cardinality(lt)
        BY Zenon DEF Stream!Cardinality, Cardinality
      <4> QED
        BY <4>1, <4>2, <4>3
    <3>2. CASE page # pages
      BY <1>1, <3>2 DEF RefInv, StreamTypes
    <3> QED
      BY <3>1, <3>2
  <2>2. CASE Len(st) + Stream!Cardinality(lt) >= 1 + pages + smooth + extra /\ st # <<>>
    <3>1. Len(st) > 0
      BY <1>1, <2>2
    <3>2. PICK old : /\ old = CHOOSE i \in DOMAIN st : \A j \in DOMAIN st :
                                Stream!FrameNumWrap(st[i], fn) <= Stream!FrameNumWrap(st[j], fn)
                     /\ w = SubSeq(st, 1, old - 1) \o SubSeq(st, old + 1, Len(st))
      BY <1>5, <2>2 DEF Stream!SlidingWindow, Stream!MaxNumRefFrames
    <3>3. \A i \in DOMAIN st :
            (\A j \in DOMAIN st :
               Stream!FrameNumWrap(st[i], fn) <= Stream!FrameNumWrap(st[j], fn)) <=> i = 1
      <4>1. \A i, j \in 1 .. Len(st) :
              Stream!FrameNumWrap(st[i], fn) <= Stream!FrameNumWrap(st[j], fn) <=> i <= j
        BY SMTT(30), <1>1, <1>3, <1>4
      <4>2. 1 \in 1 .. Len(st) /\ \A j \in 1 .. Len(st) : 1 <= j
        BY <1>1, <3>1
      <4>3. \A i \in 1 .. Len(st) : (\A j \in 1 .. Len(st) : i <= j) <=> i = 1
        BY <1>1, <4>2
      <4> QED
        BY <1>1, <4>1, <4>3
    <3>4. old = 1
      <4>1. 1 \in DOMAIN st
        BY <1>1, <3>1
      <4> QED
        BY <3>2, <3>3, <4>1, Zenon
    <3>5. w = SubSeq(st, 1, 0) \o SubSeq(st, 2, Len(st))
      <4>1. 1 - 1 = 0 /\ 1 + 1 = 2
        OBVIOUS
      <4> QED
        BY <3>2, <3>4, <4>1
    <3>6. PICK a : a = SubSeq(st, 1, 0)
      OBVIOUS
    <3>7. PICK b : b = SubSeq(st, 2, Len(st))
      OBVIOUS
    <3>8. a \in Seq(Nat) /\ Len(a) = 0
      BY <1>1, <3>6
    <3>9. /\ b \in Seq(Nat) /\ Len(b) = Len(st) - 1
          /\ \A i \in 1 .. Len(st) - 1 : b[i] = st[i + 1]
      BY <1>1, <3>1, <3>7
    <3>10. w = a \o b
      BY <3>5, <3>6, <3>7
    <3>11. /\ w \in Seq(Nat) /\ Len(w) = Len(st) - 1
           /\ \A i \in 1 .. Len(st) - 1 : w[i] = b[i]
      BY <3>8, <3>9, <3>10
    <3>12. /\ w \in Seq(Nat) /\ Len(w) = Len(st) - 1 /\ Len(w) + 1 <= smooth + extra
           /\ \A i \in 1 .. Len(w) : w[i] = st[i + 1]
      BY <1>1, <3>1, <3>9, <3>11
    <3> QED
      BY <3>12
  <2>3. CASE ~(Len(st) + Stream!Cardinality(lt) >= 1 + pages + smooth + extra /\ st # <<>>)
    <3>1. w = st
      BY <1>5, <2>3 DEF Stream!SlidingWindow, Stream!MaxNumRefFrames
    <3>2. Len(st) + 1 <= smooth + extra
      <4>1. CASE st = <<>>
        BY <1>1, <4>1
      <4>2. CASE st # <<>>
        <5>1. Stream!Cardinality(lt) = pages + 1
          BY <1>1, <2>1, <4>2
        <5> QED
          BY <1>1, <2>3, <4>2, <5>1
      <4> QED
        BY <4>1, <4>2
    <3>3. \A i \in 1 .. Len(w) : w[i] = st[i + 0]
      BY <1>1, <3>1
    <3>4. Len(w) = Len(st) - 0 /\ Len(w) + 1 <= smooth + extra /\ w \in Seq(Nat)
      BY <1>1, <3>1, <3>2
    <3> QED
      BY <3>3, <3>4
  <2> QED
    BY <2>2, <2>3
<1>7. PICK v : v = Append(w, fn)
  OBVIOUS
<1>8. /\ v \in Seq(Nat) /\ Len(v) = Len(w) + 1 /\ Len(w) \in Nat /\ v # <<>>
      /\ \A i \in 1 .. Len(w) : v[i] = w[i]
      /\ v[Len(w) + 1] = fn
  <2>1. fn \in Nat
    BY <1>2, <1>3
  <2> QED
    BY <1>6, <1>7, <2>1
<1>9. ASSUME NEW i \in 1 .. Len(v)
      PROVE  /\ v[i] \in 0 .. U16 - 1
             /\ v[i] = fn - (Len(v) - i) \/ v[i] = fn - (Len(v) - i) + U16
  <2>1. CASE i = Len(w) + 1
    <3>1. v[i] = fn /\ Len(v) - i = 0
      BY <1>8, <2>1
    <3> QED
      BY SMTT(30), <1>2, <1>3, <3>1
  <2>2. CASE i # Len(w) + 1
    <3>1. i \in 1 .. Len(w) /\ i + c \in 1 .. Len(st)
      <4>1. \A a, b, d \in Nat : \A m \in 1 .. a + 1 :
              m # a + 1 /\ a = b - d => m \in 1 .. a /\ m + d \in 1 .. b
        OBVIOUS
      <4>2. c \in Nat /\ Len(st) \in Nat /\ Len(w) \in Nat /\ Len(w) = Len(st) - c
        BY <1>1, <1>6, <1>8
      <4>3. i \in 1 .. Len(w) + 1
        BY <1>8
      <4> QED
        BY <2>2, <4>1, <4>2, <4>3
    <3>2. v[i] = st[i + c]
      BY <1>6, <1>8, <3>1
    <3>3. PICK x : x = st[i + c]
      OBVIOUS
    <3>4. PICK e : e = Len(st) - (i + c)
      OBVIOUS
    <3>5. x \in 0 .. U16 - 1 /\ (x = ref.fn - e \/ x = ref.fn - e + U16)
      BY <1>1, <3>1, <3>3, <3>4 DEF WindowOf
    <3>6. Len(v) - i = e + 1 /\ e \in Nat /\ e + 1 < U16
      BY <1>1, <1>2, <1>6, <1>8, <3>1, <3>4
    <3>7. PICK f : f = ref.fn
      OBVIOUS
    <3>8. /\ f \in 0 .. U16 - 1 /\ fn = IF f + 1 < U16 THEN f + 1 ELSE f + 1 - U16
          /\ x = f - e \/ x = f - e + U16
      BY <1>1, <1>3, <3>5, <3>7
    <3>9. x \in 0 .. U16 - 1 /\ (x = fn - (e + 1) \/ x = fn - (e + 1) + U16)
      BY SMTT(30), <1>2, <3>5, <3>6, <3>8
    <3> QED
      BY <3>2, <3>3, <3>6, <3>9
  <2> QED
    BY <2>1, <2>2
<1>10. WindowOf(v, fn)
  BY <1>9 DEF WindowOf
<1> QED
  BY <1>5, <1>6, <1>7, <1>8, <1>10

\* How the render's numbers go on from frame to frame.
LEMMA RenderNumbers ==
  ASSUME StreamTypes, smooth # 0
  PROVE  /\ FrameNumOf(tN) \in 0 .. U16 - 1 /\ PocOf(tN) \in 0 .. U16 - 1
         /\ FrameNumOf(tN + 1) = (FrameNumOf(tN) + smooth) % U16
         /\ PocOf(tN + 1) = (PocOf(tN) + 6) % U16
         /\ Stream!RenderFrameNum = FrameNumOf(tN) /\ Stream!RenderPoc = PocOf(tN)
         /\ \A c \in {1, 2, 4} : (FrameNumOf(tN) + c) % U16 \in 0 .. U16 - 1
         /\ \A c \in {1, 2, 4} : (PocOf(tN) + c) % U16 \in 0 .. U16 - 1
<1>1. /\ U16 \in Nat /\ 12 <= U16 /\ pages \in Nat /\ tN \in Nat /\ smooth \in {1, 2}
  BY StreamAssumption DEF StreamTypes
<1>2. smooth * tN \in Nat /\ smooth * (tN + 1) = smooth * tN + smooth
  <2>1. CASE smooth = 1
    BY <1>1, <2>1
  <2>2. CASE smooth = 2
    BY <1>1, <2>2
  <2> QED
    BY <1>1, <2>1, <2>2
<1>3. PICK a : a = pages + 1 + smooth * tN
  OBVIOUS
<1>4. PICK b : b = 2 * (pages + 1) + 6 * tN
  OBVIOUS
<1>5. /\ a \in Nat /\ b \in Nat
      /\ pages + 1 + smooth * (tN + 1) = a + smooth
      /\ 2 * (pages + 1) + 6 * (tN + 1) = b + 6
  <2>1. PICK s : s = smooth * tN
    OBVIOUS
  <2>2. s \in Nat /\ a = pages + 1 + s /\ smooth * (tN + 1) = s + smooth
    BY <1>2, <1>3, <2>1
  <2>3. a \in Nat /\ pages + 1 + (s + smooth) = a + smooth
    BY <1>1, <2>2
  <2>4. b \in Nat /\ 2 * (pages + 1) + 6 * (tN + 1) = b + 6
    BY <1>1, <1>4
  <2> QED
    BY <2>2, <2>3, <2>4
<1>6. /\ FrameNumOf(tN) = a % U16 /\ PocOf(tN) = b % U16
      /\ FrameNumOf(tN + 1) = (a + smooth) % U16 /\ PocOf(tN + 1) = (b + 6) % U16
  BY <1>3, <1>4, <1>5 DEF FrameNumOf, PocOf
<1>7. /\ a % U16 \in 0 .. U16 - 1 /\ (a + smooth) % U16 = ((a % U16) + smooth) % U16
  <2>1. smooth \in Nat /\ smooth < U16
    BY <1>1
  <2> QED
    BY <1>5, <2>1, ModAdd
<1>8. /\ b % U16 \in 0 .. U16 - 1 /\ (b + 6) % U16 = ((b % U16) + 6) % U16
  <2>1. 6 \in Nat /\ 6 < U16
    BY <1>1
  <2> QED
    BY <1>5, <2>1, ModAdd
<1>9. Stream!RenderFrameNum = FrameNumOf(tN) /\ Stream!RenderPoc = PocOf(tN)
  BY DEF Stream!RenderFrameNum, Stream!RenderPoc, FrameNumOf, PocOf
<1>10. \A r \in 0 .. U16 - 1, c \in {1, 2, 4} : (r + c) % U16 \in 0 .. U16 - 1
  <2>1. ASSUME NEW r \in 0 .. U16 - 1, NEW c \in {1, 2, 4} PROVE (r + c) % U16 \in 0 .. U16 - 1
    <3>1. c \in Nat /\ c < U16
      BY <1>1
    <3> QED
      BY <3>1, ModNear
  <2> QED
    BY <2>1
<1> QED
  BY <1>6, <1>7, <1>8, <1>9, <1>10

\* A picture that follows the last reference in both counts: what the decoder
\* makes of it.
LEMMA PictureFollows ==
  ASSUME StreamTypes, RefInv, NEW g \in {2, 4, 6}, tLast < g, NEW isB \in BOOLEAN,
         NEW isRef \in BOOLEAN, NEW fn, NEW lsb, isB => st # <<>>,
         fn = (ref.fn + 1) % U16, lsb = (ref.lsb + g) % U16,
         Stream!Decoded(fn, lsb, isRef, isB)
  PROVE  /\ pic'.fn = (pic'.after + 1) % U16 /\ pic'.poc = g /\ pic'.poc > pic'.prev /\ pic'.reads
         /\ isRef => /\ st' = Append(Stream!SlidingWindow(fn), fn)
                     /\ ref' = [fn |-> fn, lsb |-> lsb] /\ tLast' = 0
         /\ ~isRef => tLast' = g /\ UNCHANGED <<st, ref>>
<1>1. Stream!PocFromRef(lsb) = g
  BY PocNear
<1>2. isB => Stream!Previous(fn) = Len(st) /\ st # <<>>
  BY PreviousIsLast
<1>3. pic' = [fn |-> fn, after |-> ref.fn, poc |-> Stream!PocFromRef(lsb), prev |-> tLast,
              reads |-> IF isB THEN Stream!Previous(fn) = Len(st) /\ st # <<>> ELSE TRUE]
  BY DEF Stream!Decoded
<1>4. pic'.reads
  BY <1>2, <1>3, Zenon
<1>5. /\ pic'.fn = fn /\ pic'.after = ref.fn /\ pic'.poc = g /\ pic'.prev = tLast
  BY <1>1, <1>3
<1>6. /\ isRef => /\ st' = Append(Stream!SlidingWindow(fn), fn)
                  /\ ref' = [fn |-> fn, lsb |-> lsb] /\ tLast' = 0
      /\ ~isRef => tLast' = Stream!PocFromRef(lsb) /\ UNCHANGED <<st, ref>>
  BY DEF Stream!Decoded
<1> QED
  BY <1>1, <1>4, <1>5, <1>6

\* A page: its numbers are its own, and it stays a long-term reference.
LEMMA PcmPageInv ==
  ASSUME StreamInv, Stream!PcmPage PROVE StreamInv'
<1>1. StreamTypes /\ RefInv
  BY DEF StreamInv
<1>2. /\ page < pages /\ page' = page + 1 /\ tLast' = 0
      /\ UNCHANGED <<pages, smooth, extra, tN, tK, st>>
  BY DEF Stream!PcmPage, Stream!options
<1>3. /\ pages \in Nat /\ page \in Nat /\ page + 1 <= pages /\ pages < MAXREF
      /\ U16 \in Nat /\ 12 <= U16 /\ MAXREF \in Nat /\ 2 * MAXREF <= U16
  <2>1. MAXREF \in Nat /\ U16 \in Nat /\ RenderWrap \in Nat /\ 2 * (RenderWrap + MAXREF) <= U16
        /\ 12 <= U16
    BY StreamAssumption
  <2>2. pages \in Nat /\ page \in 0 .. pages /\ smooth \in Nat /\ extra \in Nat
        /\ 1 + pages + smooth + extra <= MAXREF
    BY <1>1 DEF StreamTypes
  <2> QED
    BY <1>2, <2>1, <2>2
<1>4. tN = 0 /\ tK = 0 /\ ref.fn = page /\ ref.lsb = 2 * page /\ st = <<>> /\ tLast = 0
  BY <1>1, <1>2 DEF RefInv
<1>5. PICK p : p = page + 1
  OBVIOUS
<1>6. /\ pic' = [fn |-> p, after |-> ref.fn, poc |-> Stream!PocFromRef(2 * p), prev |-> tLast, reads |-> TRUE]
      /\ maxLt' = IF p = 1 THEN pages ELSE maxLt
      /\ lt' = IF p <= maxLt' THEN lt \cup {p} ELSE lt
      /\ ref' = [fn |-> p, lsb |-> 2 * p]
  BY <1>5 DEF Stream!PcmPage
<1>7. /\ p \in Nat /\ p = page + 1 /\ p < U16 /\ 2 * p = 2 * page + 2 /\ 2 * p < U16
      /\ p % U16 = p /\ (2 * p) % U16 = 2 * p
  <2>1. p \in Nat /\ p < U16 /\ 2 * p = 2 * page + 2 /\ 2 * p < U16 /\ 2 * p \in Nat
    BY <1>3, <1>5
  <2>2. \A x \in Nat : x < U16 => x % U16 = x
    BY <1>3
  <2> QED
    BY <1>5, <2>1, <2>2
<1>8. Stream!PocFromRef(2 * p) = 2
  <2>1. Stream!PocFromRef((ref.lsb + 2) % U16) = 2
    BY <1>1, PocNear
  <2> QED
    BY <1>4, <1>7, <2>1
<1>9. maxLt' = pages /\ lt' = 0 .. p
  <2>1. maxLt' = pages
    BY <1>1, <1>3, <1>5, <1>6 DEF StreamTypes
  <2>2. p <= pages /\ lt = 0 .. page
    BY <1>1, <1>3, <1>5 DEF StreamTypes
  <2>3. lt' = (0 .. page) \cup {p}
    BY <1>6, <2>1, <2>2
  <2> QED
    BY <1>3, <1>5, <2>1, <2>3
<1>10. StreamTypes'
  <2>1. ref' \in [fn : 0 .. U16 - 1, lsb : 0 .. U16 - 1]
    BY <1>3, <1>6, <1>7
  <2>2. page' \in 0 .. pages /\ page' # 0 /\ page' = p
    BY <1>2, <1>3, <1>5
  <2> QED
    BY <1>1, <1>2, <1>9, <2>1, <2>2 DEF StreamTypes
<1>11. RefInv'
  <2>1. /\ ref'.fn = p /\ ref'.lsb = 2 * p /\ page' = p
    BY <1>2, <1>5, <1>6
  <2>2. Len(st) = 0 /\ WindowOf(st, p) /\ 0 <= smooth + extra
    BY <1>1, <1>4 DEF WindowOf, StreamTypes
  <2>3. smooth # 0 /\ p = pages =>
         /\ FrameNumOf(0) = (p + 1) % U16
         /\ \E g \in {2, 4, 6} : PocOf(0) = (2 * p + g) % U16 /\ 0 < g
    <3>1. smooth * 0 = 0
      BY <1>1 DEF StreamTypes
    <3>2. p = pages => FrameNumOf(0) = (p + 1) % U16
      BY <1>3, <3>1 DEF FrameNumOf
    <3>3. p = pages => PocOf(0) = (2 * p + 2) % U16
      <4>1. p = pages => 2 * (pages + 1) + 6 * 0 = 2 * p + 2
        BY <1>3
      <4> QED
        BY <4>1 DEF PocOf
    <3> QED
      BY <3>2, <3>3
  <2>4. FrameNumOf(0)' = FrameNumOf(0) /\ PocOf(0)' = PocOf(0)
    BY <1>2 DEF FrameNumOf, PocOf
  <2> QED
    BY <1>2, <1>4, <2>1, <2>2, <2>3, <2>4 DEF RefInv
<1>12. PictureInv'
  <2>1. pic'.fn = p /\ pic'.after = page /\ pic'.poc = 2 /\ pic'.prev = 0 /\ pic'.reads = TRUE
    BY <1>4, <1>6, <1>8
  <2> QED
    BY <1>7, <2>1 DEF PictureInv
<1>13. PlainInv'
  BY <1>2, <1>4 DEF PlainInv
<1> QED
  BY <1>10, <1>11, <1>12, <1>13 DEF StreamInv

\* A frame's pictures: the render, then the B-pictures.
LEMMA GenFrameInv ==
  ASSUME StreamInv, Stream!GenFrame PROVE StreamInv'
<1>1. StreamTypes /\ RefInv /\ PlainInv
  BY DEF StreamInv
<1>2. /\ page = pages /\ UNCHANGED <<pages, smooth, extra, page, lt, maxLt>>
      /\ IF tK < smooth THEN tK' = tK + 1 /\ tN' = tN ELSE tK' = 0 /\ tN' = tN + 1
  BY DEF Stream!GenFrame, Stream!options
<1>3. /\ pages \in Nat /\ smooth \in {0, 1, 2} /\ tN \in Nat /\ tK \in 0 .. smooth
      /\ ref \in [fn : 0 .. U16 - 1, lsb : 0 .. U16 - 1] /\ st \in Seq(Nat)
      /\ ref.fn \in 0 .. U16 - 1 /\ ref.lsb \in 0 .. U16 - 1
  BY <1>1 DEF StreamTypes
<1>4. U16 \in Nat /\ 12 <= U16
  BY StreamAssumption
<1>5. ~(page' < pages')
  BY <1>2, <1>3
<1>6. CASE smooth = 0
  <2>1. tK = 0 /\ tK' = 0 /\ tN' = tN + 1
    BY <1>2, <1>3, <1>6
  <2>2. ref.fn = pages /\ ref.lsb = 2 * pages /\ st = <<>>
    BY <1>1, <1>2, <1>6 DEF RefInv
  <2>3. PICK l : l = (2 * ((tN % RenderWrap) + 1 + pages)) % U16
    OBVIOUS
  <2>4. Stream!Decoded(1 + pages, l, FALSE, FALSE)
    <3>1. Stream!RenderFrameNum = 1 + pages /\ Stream!RenderPoc = l /\ (smooth # 0) = FALSE
      BY <1>6, <2>3 DEF Stream!RenderFrameNum, Stream!RenderPoc
    <3>2. Stream!Decoded(Stream!RenderFrameNum, Stream!RenderPoc, smooth # 0, FALSE)
      BY <2>1 DEF Stream!GenFrame
    <3> QED
      BY <3>1, <3>2
  <2>0. tN % RenderWrap \in Nat
    BY <1>3, StreamAssumption
  <2>a. Stream!PocFromRef(l) = 2 * ((tN % RenderWrap) + 1)
    BY <1>1, <2>2, <2>3, PocRender
  <2>5. Stream!PocFromRef(l) > 0
    BY <2>0, <2>a
  <2>6. /\ pic' = [fn |-> 1 + pages, after |-> ref.fn, poc |-> Stream!PocFromRef(l), prev |-> tLast, reads |-> TRUE]
        /\ tLast' = Stream!PocFromRef(l) /\ UNCHANGED <<st, ref>>
    BY <2>4 DEF Stream!Decoded
  <2>7. Stream!PocFromRef(l) \in Nat
    <3>1. Stream!PocFromRef(l) \in Int
      <4>1. l \in Int /\ ref.lsb \in Int /\ U16 \div 2 \in Int /\ U16 \in Int
        <5>1. pages \in Nat /\ RenderWrap \in Nat \ {0} /\ tN \in Nat
          BY <1>3, StreamAssumption
        <5>2. 2 * ((tN % RenderWrap) + 1 + pages) \in Nat
          BY <5>1
        <5> QED
          BY <1>3, <1>4, <2>3, <5>2
      <4> QED
        BY <4>1 DEF Stream!PocFromRef
    <3> QED
      BY <2>5, <3>1
  <2>8. StreamTypes'
    BY <1>1, <1>2, <1>3, <2>1, <2>6, <2>7 DEF StreamTypes
  <2>9. RefInv'
    <3>1. tN' # 0
      BY <1>3, <2>1
    <3>2. Len(st) <= smooth + extra /\ WindowOf(st, ref.fn)
      BY <1>1 DEF RefInv
    <3>3. UNCHANGED <<pages, smooth, extra, page, st, ref>> /\ page = pages
      BY <1>2, <2>6
    <3> QED
      BY <1>5, <1>6, <2>1, <2>2, <3>1, <3>2, <3>3 DEF RefInv
  <2>10. PictureInv'
    <3>1. pic'.fn = 1 + pages /\ pic'.after = pages /\ pic'.poc = Stream!PocFromRef(l) /\ pic'.reads
      BY <2>2, <2>6
    <3>2. 1 + pages = (pages + 1) % U16
      <4>1. pages + 1 < U16
        <5>1. MAXREF \in Nat /\ RenderWrap \in Nat /\ 2 * (RenderWrap + MAXREF) <= U16
          BY StreamAssumption
        <5>2. smooth \in Nat /\ extra \in Nat /\ 1 + pages + smooth + extra <= MAXREF
          BY <1>1 DEF StreamTypes
        <5> QED
          BY <1>3, <1>4, <5>1, <5>2
      <4>2. \A a, u \in Nat : a + 1 < u => 1 + a = (a + 1) % u
        OBVIOUS
      <4> QED
        BY <1>3, <1>4, <4>1, <4>2
    <3>3. pic'.poc > pic'.prev \/ pic'.poc = 2
      <4>1. pic'.prev = tLast /\ pic'.poc = 2 * ((tN % RenderWrap) + 1)
        BY <2>6, <2>a
      <4>2. CASE tN = 0
        BY <1>1, <2>1, <2>5, <2>6, <4>1, <4>2 DEF RefInv
      <4>3. CASE tN # 0
        BY <1>1, <1>3, <1>6, <4>1, <4>3, PlainAdvances DEF PlainInv
      <4> QED
        BY <4>2, <4>3
    <3> QED
      BY <1>2, <1>6, <2>5, <3>1, <3>2, <3>3 DEF PictureInv
  <2>11. PlainInv'
    <3>1. tN' - 1 = tN /\ tLast' = 2 * ((tN % RenderWrap) + 1)
      BY <1>3, <2>1, <2>6, <2>a
    <3> QED
      BY <3>1 DEF PlainInv
  <2> QED
    BY <2>8, <2>9, <2>10, <2>11 DEF StreamInv
<1>7. CASE smooth # 0
  <2>0. PlainInv'
    BY <1>2, <1>7 DEF PlainInv
  <2>1. PICK F : F = FrameNumOf(tN)
    OBVIOUS
  <2>2. PICK P : P = PocOf(tN)
    OBVIOUS
  <2>3. /\ F \in 0 .. U16 - 1 /\ P \in 0 .. U16 - 1
        /\ FrameNumOf(tN + 1) = (F + smooth) % U16 /\ PocOf(tN + 1) = (P + 6) % U16
        /\ Stream!RenderFrameNum = F /\ Stream!RenderPoc = P
        /\ (F + 1) % U16 \in 0 .. U16 - 1 /\ (P + 2) % U16 \in 0 .. U16 - 1
    BY <1>1, <1>7, <2>1, <2>2, RenderNumbers
  <2>4. /\ tN' = tN => FrameNumOf(tN)' = F /\ PocOf(tN)' = P
        /\ tN' = tN + 1 => FrameNumOf(tN)' = (F + smooth) % U16 /\ PocOf(tN)' = (P + 6) % U16
    BY <1>2, <2>1, <2>2, <2>3 DEF FrameNumOf, PocOf
  <2>5. \* two steps of one counter are a step of two
        \A r \in 0 .. U16 - 1 : \A c, d \in {1, 2, 4} :
          (r + (c + d)) % U16 = (((r + c) % U16) + d) % U16
    <3>1. ASSUME NEW r \in 0 .. U16 - 1, NEW c \in {1, 2, 4}, NEW d \in {1, 2, 4}
          PROVE  (r + (c + d)) % U16 = (((r + c) % U16) + d) % U16
      <4>1. PICK x : x = r + c
        OBVIOUS
      <4>2. x \in Nat /\ d \in Nat /\ d < U16 /\ r + (c + d) = x + d
        BY <1>4, <4>1
      <4>3. (x + d) % U16 = ((x % U16) + d) % U16
        BY <4>2, ModAdd
      <4> QED
        BY <4>1, <4>2, <4>3
    <3> QED
      BY <3>1
  <2>6. CASE tK = 0
    <3>1. tK' = 1 /\ tN' = tN
      BY <1>2, <1>3, <1>7, <2>6
    <3>2. Stream!Decoded(F, P, TRUE, FALSE)
      <4>1. Stream!Decoded(Stream!RenderFrameNum, Stream!RenderPoc, smooth # 0, FALSE)
        BY <2>6 DEF Stream!GenFrame
      <4>2. (smooth # 0) = TRUE
        BY <1>7
      <4> QED
        BY <2>3, <4>1, <4>2
    <3>3. PICK g \in {2, 4, 6} : P = (ref.lsb + g) % U16 /\ tLast < g
      BY <1>1, <1>2, <1>7, <2>2, <2>6 DEF RefInv
    <3>4. F = (ref.fn + 1) % U16
      BY <1>1, <1>2, <1>7, <2>1, <2>6 DEF RefInv
    <3>5. /\ pic'.fn = (pic'.after + 1) % U16 /\ pic'.poc = g /\ pic'.poc > pic'.prev /\ pic'.reads
          /\ st' = Append(Stream!SlidingWindow(F), F)
          /\ ref' = [fn |-> F, lsb |-> P] /\ tLast' = 0
      BY <1>1, <3>2, <3>3, <3>4, PictureFollows
    <3>6. st' \in Seq(Nat) /\ st' # <<>> /\ Len(st') <= smooth + extra /\ WindowOf(st', F)
      BY <1>1, <1>7, <3>4, <3>5, WindowSlides
    <3>7. StreamTypes'
      <4>1. ref' \in [fn : 0 .. U16 - 1, lsb : 0 .. U16 - 1] /\ tK' \in 0 .. smooth
        BY <1>3, <1>7, <2>3, <3>1, <3>5
      <4> QED
        BY <1>1, <1>2, <3>1, <3>5, <3>6, <4>1 DEF StreamTypes
    <3>8. RefInv'
      <4>1. ref'.fn = F /\ ref'.lsb = P
        BY <3>5
      <4> QED
        BY <1>2, <1>5, <1>7, <2>4, <3>1, <3>5, <3>6, <4>1 DEF RefInv
    <3>9. PictureInv'
      BY <3>5 DEF PictureInv
    <3> QED
      BY <2>0, <3>7, <3>8, <3>9 DEF StreamInv
  <2>7. CASE tK = 1
    <3>1. ref.fn = F /\ ref.lsb = P /\ tLast = 0 /\ st # <<>>
      BY <1>1, <2>1, <2>2, <2>7 DEF RefInv
    <3>2. PICK f : f = (F + 1) % U16
      OBVIOUS
    <3>3. PICK l : l = (P + 2) % U16
      OBVIOUS
    <3>4. PICK r \in BOOLEAN : r = (smooth = 2)
      OBVIOUS
    <3>5. Stream!Decoded(f, l, r, TRUE)
      <4>1. Stream!Decoded(Stream!BpicFrameNum, (Stream!RenderPoc + 2 * tK) % U16, smooth = 2 /\ tK = 1, TRUE)
        <5>1. tK # 0
          BY <2>7
        <5> QED
          BY <5>1, Zenon DEF Stream!GenFrame
      <4>2. Stream!BpicFrameNum = f
        BY <2>3, <2>7, <3>2 DEF Stream!BpicFrameNum
      <4>3. (Stream!RenderPoc + 2 * tK) % U16 = l
        <5>1. 2 * 1 = 2
          OBVIOUS
        <5> QED
          BY <2>3, <2>7, <3>3, <5>1
      <4>4. (smooth = 2 /\ tK = 1) = r
        BY <2>7, <3>4
      <4> QED
        BY <4>1, <4>2, <4>3, <4>4
    <3>6. f = (ref.fn + 1) % U16 /\ l = (ref.lsb + 2) % U16 /\ tLast < 2
      BY <3>1, <3>2, <3>3
    <3>7. /\ pic'.fn = (pic'.after + 1) % U16 /\ pic'.poc = 2 /\ pic'.poc > pic'.prev /\ pic'.reads
          /\ r => /\ st' = Append(Stream!SlidingWindow(f), f)
                  /\ ref' = [fn |-> f, lsb |-> l] /\ tLast' = 0
          /\ ~r => tLast' = 2 /\ UNCHANGED <<st, ref>>
      BY <1>1, <3>1, <3>5, <3>6, PictureFollows
    <3>8. PictureInv'
      BY <3>7 DEF PictureInv
    <3>9. CASE smooth = 2
      <4>1. tK' = 2 /\ tN' = tN
        BY <1>2, <2>7, <3>9
      <4>2. st' = Append(Stream!SlidingWindow(f), f) /\ ref' = [fn |-> f, lsb |-> l] /\ tLast' = 0
        BY <3>4, <3>7, <3>9
      <4>3. st' \in Seq(Nat) /\ st' # <<>> /\ Len(st') <= smooth + extra /\ WindowOf(st', f)
        BY <1>1, <1>7, <3>6, <4>2, WindowSlides
      <4>4. StreamTypes'
        <5>1. ref' \in [fn : 0 .. U16 - 1, lsb : 0 .. U16 - 1] /\ tK' \in 0 .. smooth
          BY <2>3, <3>2, <3>3, <3>9, <4>1, <4>2
        <5> QED
          BY <1>1, <1>2, <4>1, <4>2, <4>3, <5>1 DEF StreamTypes
      <4>5. RefInv'
        <5>1. ref'.fn = (F + 1) % U16 /\ ref'.lsb = (P + 2) % U16 /\ ref'.fn = f
          BY <3>2, <3>3, <4>2
        <5> QED
          BY <1>2, <1>5, <1>7, <2>4, <4>1, <4>2, <4>3, <5>1 DEF RefInv
      <4> QED
        BY <2>0, <3>8, <4>4, <4>5 DEF StreamInv
    <3>10. CASE smooth = 1
      <4>1. tK' = 0 /\ tN' = tN + 1 /\ tN' # 0 /\ tN' \in Nat
        BY <1>2, <1>3, <2>7, <3>10
      <4>2. tLast' = 2 /\ UNCHANGED <<st, ref>>
        <5>1. smooth # 2
          BY <3>10
        <5>2. ~r
          BY <3>4, <5>1, Zenon
        <5> QED
          BY <3>7, <5>2
      <4>3. StreamTypes'
        BY <1>1, <1>2, <3>10, <4>1, <4>2 DEF StreamTypes
      <4>4. RefInv'
        <5>1. FrameNumOf(tN)' = (ref.fn + 1) % U16 /\ PocOf(tN)' = (ref.lsb + 6) % U16
          BY <2>4, <3>1, <3>10, <4>1
        <5>2. \E g \in {2, 4, 6} : PocOf(tN)' = (ref.lsb + g) % U16 /\ 2 < g
          BY <5>1
        <5>3. Len(st) <= smooth + extra /\ WindowOf(st, ref.fn)
          BY <1>1 DEF RefInv
        <5> QED
          BY <1>2, <1>5, <1>7, <4>1, <4>2, <5>1, <5>2, <5>3 DEF RefInv
      <4> QED
        BY <2>0, <3>8, <4>3, <4>4 DEF StreamInv
    <3> QED
      BY <1>3, <1>7, <3>9, <3>10
  <2>8. CASE tK = 2
    <3>0. smooth = 2 /\ tK' = 0 /\ tN' = tN + 1 /\ tN' # 0 /\ tN' \in Nat
      BY <1>2, <1>3, <2>8
    <3>1. ref.fn = (F + 1) % U16 /\ ref.lsb = (P + 2) % U16 /\ tLast = 0 /\ st # <<>>
      BY <1>1, <2>1, <2>2, <2>8 DEF RefInv
    <3>2. PICK f : f = (F + 2) % U16
      OBVIOUS
    <3>3. PICK l : l = (P + 4) % U16
      OBVIOUS
    <3>4. 1 + 1 = 2 /\ 2 + 2 = 4 /\ 2 + 4 = 6 /\ 2 * 2 = 4
      OBVIOUS
    <3>5. Stream!Decoded(f, l, FALSE, TRUE)
      <4>1. Stream!Decoded(Stream!BpicFrameNum, (Stream!RenderPoc + 2 * tK) % U16, smooth = 2 /\ tK = 1, TRUE)
        <5>1. tK # 0
          BY <2>8
        <5> QED
          BY <5>1, Zenon DEF Stream!GenFrame
      <4>2. Stream!BpicFrameNum = f
        BY <2>3, <2>8, <3>2 DEF Stream!BpicFrameNum
      <4>3. (Stream!RenderPoc + 2 * tK) % U16 = l
        BY <2>3, <2>8, <3>3, <3>4
      <4>4. (smooth = 2 /\ tK = 1) = FALSE
        BY <2>8
      <4> QED
        BY <4>1, <4>2, <4>3, <4>4
    <3>6. f = (ref.fn + 1) % U16 /\ l = (ref.lsb + 2) % U16 /\ tLast < 2
      BY <2>3, <2>5, <3>1, <3>2, <3>3, <3>4
    <3>7. /\ pic'.fn = (pic'.after + 1) % U16 /\ pic'.poc = 2 /\ pic'.poc > pic'.prev /\ pic'.reads
          /\ tLast' = 2 /\ UNCHANGED <<st, ref>>
      BY <1>1, <3>1, <3>5, <3>6, PictureFollows
    <3>8. PictureInv'
      BY <3>7 DEF PictureInv
    <3>9. StreamTypes'
      BY <1>1, <1>2, <3>0, <3>7 DEF StreamTypes
    <3>10. RefInv'
      <4>1. FrameNumOf(tN)' = (ref.fn + 1) % U16 /\ PocOf(tN)' = (ref.lsb + 4) % U16
        BY <2>3, <2>4, <2>5, <3>0, <3>1, <3>4
      <4>2. \E g \in {2, 4, 6} : PocOf(tN)' = (ref.lsb + g) % U16 /\ 2 < g
        BY <4>1
      <4>3. Len(st) <= smooth + extra /\ WindowOf(st, ref.fn)
        BY <1>1 DEF RefInv
      <4> QED
        BY <1>2, <1>5, <1>7, <3>0, <3>7, <4>1, <4>2, <4>3 DEF RefInv
    <3> QED
      BY <2>0, <3>8, <3>9, <3>10 DEF StreamInv
  <2> QED
    BY <1>3, <2>6, <2>7, <2>8
<1> QED
  BY <1>6, <1>7

-----------------------------------------------------------------------------
(* The NAL units.                                                          *)

\* What a decoder drops of the first j bytes of o.
Drops(o, j) == {d \in 3 .. j : o[d] = 3 /\ o[d - 1] = 0 /\ o[d - 2] = 0}

\* The unit ends in a zero, in two zeros.
EndsZero(o)  == Len(o) >= 1 /\ o[Len(o)] = 0
EndsZeros(o) == EndsZero(o) /\ Len(o) >= 2 /\ o[Len(o) - 1] = 0

\* The unit o holds the first n bytes of the payload s.
Holds(o, s, n) ==
    /\ Len(o) - Cardinality(Drops(o, Len(o))) = n
    /\ \A j \in 1 .. Len(o) : j \notin Drops(o, j) => o[j] = s[j - Cardinality(Drops(o, j))]

NoStart(o) == \A j \in 1 .. Len(o) - 2 : o[j] = 0 /\ o[j + 1] = 0 => o[j + 2] > 2

\* The loop's run of zeros says how the unit ends.
NalInv ==
    /\ rbsp \in Seq(Nat) /\ out \in Seq(Nat)
    /\ nI \in 1 .. Len(rbsp) + 1 /\ nZ \in Nat
    /\ nZ >= 1 <=> EndsZero(out)
    /\ nZ >= 2 <=> EndsZeros(out)
    /\ Holds(out, rbsp, nI - 1)
    /\ NoStart(out)

\* The unit o2 is the unit o and one more byte.
OneMore(o, b, o2) ==
    /\ Len(o2) = Len(o) + 1 /\ o2[Len(o) + 1] = b
    /\ \A j \in 1 .. Len(o) : o2[j] = o[j]

\* What is dropped of a unit does not depend on what follows.
LEMMA DropsPrefix ==
  ASSUME NEW o \in Seq(Nat), NEW o2 \in Seq(Nat), Len(o) <= Len(o2),
         \A j \in 1 .. Len(o) : o2[j] = o[j], NEW j \in 0 .. Len(o)
  PROVE  Drops(o2, j) = Drops(o, j)
<1>1. Len(o) \in Nat
  OBVIOUS
<1>2. ASSUME NEW d \in 3 .. j PROVE o2[d] = o[d] /\ o2[d - 1] = o[d - 1] /\ o2[d - 2] = o[d - 2]
  <2>1. \A L \in Nat : \A k \in 0 .. L : \A e \in 3 .. k :
          e \in 1 .. L /\ e - 1 \in 1 .. L /\ e - 2 \in 1 .. L
    OBVIOUS
  <2>2. d \in 1 .. Len(o) /\ d - 1 \in 1 .. Len(o) /\ d - 2 \in 1 .. Len(o)
    BY <1>1, <2>1
  <2> QED
    BY <2>2
<1> QED
  BY <1>2 DEF Drops

\* What is dropped is counted.
LEMMA DropsFinite ==
  ASSUME NEW o, NEW j \in Nat
  PROVE  /\ IsFiniteSet(Drops(o, j)) /\ Cardinality(Drops(o, j)) \in Nat
         /\ \A d \in Drops(o, j) : d \in 3 .. j
<1>1. Drops(o, j) \subseteq 3 .. j
  BY DEF Drops
<1>2. IsFiniteSet(3 .. j)
  BY FS_Interval
<1>3. IsFiniteSet(Drops(o, j))
  BY <1>1, <1>2, FS_Subset
<1> QED
  BY <1>1, <1>3, FS_CardinalityType

\* What one more byte adds to what is dropped.
LEMMA DropsMore ==
  ASSUME NEW o \in Seq(Nat), NEW o2 \in Seq(Nat), NEW b \in Nat, OneMore(o, b, o2)
  PROVE  Drops(o2, Len(o2)) = IF b = 3 /\ EndsZeros(o) THEN Drops(o, Len(o)) \cup {Len(o) + 1}
                              ELSE Drops(o, Len(o))
<1>1. Len(o) \in Nat /\ Len(o2) = Len(o) + 1 /\ o2[Len(o) + 1] = b
  BY DEF OneMore
<1>2. \A j \in 1 .. Len(o) : o2[j] = o[j]
  BY DEF OneMore
<1>3. ASSUME NEW d
      PROVE  d \in Drops(o2, Len(o2)) <=>
               d \in Drops(o, Len(o)) \/ (d = Len(o) + 1 /\ b = 3 /\ EndsZeros(o))
  <2>1. CASE d \in 3 .. Len(o)
    <3>1. d \in 1 .. Len(o) /\ d - 1 \in 1 .. Len(o) /\ d - 2 \in 1 .. Len(o)
          /\ d \in 3 .. Len(o2) /\ d # Len(o) + 1
      BY <1>1, <2>1
    <3>2. o2[d] = o[d] /\ o2[d - 1] = o[d - 1] /\ o2[d - 2] = o[d - 2]
      BY <1>2, <3>1
    <3> QED
      BY <2>1, <3>1, <3>2 DEF Drops
  <2>2. CASE d = Len(o) + 1
    <3>1. d \notin Drops(o, Len(o))
      BY <1>1, <2>2 DEF Drops
    <3>2. CASE Len(o) >= 2
      <4>1. /\ d \in 3 .. Len(o2) /\ d - 1 = Len(o) /\ d - 2 = Len(o) - 1
            /\ Len(o) \in 1 .. Len(o) /\ Len(o) - 1 \in 1 .. Len(o)
        BY <1>1, <2>2, <3>2
      <4>2. o2[d] = b /\ o2[d - 1] = o[Len(o)] /\ o2[d - 2] = o[Len(o) - 1]
        BY <1>1, <1>2, <2>2, <4>1
      <4>3. EndsZeros(o) <=> o[Len(o)] = 0 /\ o[Len(o) - 1] = 0
        BY <1>1, <3>2 DEF EndsZeros, EndsZero
      <4>4. d \in Drops(o2, Len(o2)) <=> o2[d] = 3 /\ o2[d - 1] = 0 /\ o2[d - 2] = 0
        BY <4>1 DEF Drops
      <4> QED
        BY <2>2, <3>1, <4>2, <4>3, <4>4
    <3>3. CASE ~(Len(o) >= 2)
      <4>1. d \notin 3 .. Len(o2) /\ ~EndsZeros(o)
        BY <1>1, <2>2, <3>3 DEF EndsZeros
      <4>2. d \notin Drops(o2, Len(o2))
        BY <4>1 DEF Drops
      <4> QED
        BY <3>1, <4>1, <4>2
    <3> QED
      BY <3>2, <3>3
  <2>3. CASE d \notin 3 .. Len(o) /\ d # Len(o) + 1
    <3>1. d \notin 3 .. Len(o2)
      BY <1>1, <2>3
    <3> QED
      BY <2>3, <3>1 DEF Drops
  <2> QED
    BY <2>1, <2>2, <2>3
<1>4. CASE b = 3 /\ EndsZeros(o)
  BY <1>3, <1>4
<1>5. CASE ~(b = 3 /\ EndsZeros(o))
  BY <1>3, <1>5
<1> QED
  BY <1>4, <1>5

\* One more byte in the unit: it is the next byte of the payload, or a 3 that
\* the decoder drops.
LEMMA ByteMore ==
  ASSUME NEW o \in Seq(Nat), NEW o2 \in Seq(Nat), NEW b \in Nat, OneMore(o, b, o2),
         NEW s, NEW n \in Nat, Holds(o, s, n), NoStart(o)
  PROVE  /\ ~(b = 3 /\ EndsZeros(o)) /\ s[n + 1] = b => Holds(o2, s, n + 1)
         /\ b = 3 /\ EndsZeros(o) => Holds(o2, s, n)
         /\ (EndsZeros(o) => b > 2) => NoStart(o2)
         /\ EndsZero(o2) <=> b = 0
         /\ EndsZeros(o2) <=> b = 0 /\ EndsZero(o)
<1>1. Len(o) \in Nat /\ Len(o2) = Len(o) + 1 /\ o2[Len(o) + 1] = b
  BY DEF OneMore
<1>2. \A j \in 1 .. Len(o) : o2[j] = o[j]
  BY DEF OneMore
<1>3. PICK c : c = Cardinality(Drops(o, Len(o)))
  OBVIOUS
<1>4. c \in Nat /\ IsFiniteSet(Drops(o, Len(o))) /\ Len(o) - c = n
  BY <1>1, <1>3, DropsFinite DEF Holds
<1>5. ASSUME NEW j \in 1 .. Len(o), j \notin Drops(o2, j)
      PROVE  o2[j] = s[j - Cardinality(Drops(o2, j))]
  <2>1. Drops(o2, j) = Drops(o, j)
    <3>1. j \in 0 .. Len(o) /\ Len(o) <= Len(o2)
      BY <1>1
    <3> QED
      BY <1>2, <3>1, DropsPrefix
  <2>2. o[j] = s[j - Cardinality(Drops(o, j))]
    BY <1>5, <2>1 DEF Holds
  <2> QED
    BY <1>2, <2>1, <2>2
<1>6. ASSUME ~(b = 3 /\ EndsZeros(o)), s[n + 1] = b PROVE Holds(o2, s, n + 1)
  <2>1. Drops(o2, Len(o2)) = Drops(o, Len(o))
    BY <1>6, DropsMore
  <2>2. Len(o2) - Cardinality(Drops(o2, Len(o2))) = n + 1
    BY <1>1, <1>3, <1>4, <2>1
  <2>3. ASSUME NEW j \in 1 .. Len(o2), j \notin Drops(o2, j)
        PROVE  o2[j] = s[j - Cardinality(Drops(o2, j))]
    <3>1. CASE j = Len(o2)
      <4>1. o2[j] = b /\ j - Cardinality(Drops(o2, j)) = n + 1
        BY <1>1, <2>2, <3>1
      <4> QED
        BY <1>6, <4>1
    <3>2. CASE j # Len(o2)
      <4>1. j \in 1 .. Len(o)
        BY <1>1, <3>2
      <4> QED
        BY <1>5, <2>3, <4>1
    <3> QED
      BY <3>1, <3>2
  <2> QED
    BY <2>2, <2>3 DEF Holds
<1>7. ASSUME b = 3, EndsZeros(o) PROVE Holds(o2, s, n)
  <2>1. Drops(o2, Len(o2)) = Drops(o, Len(o)) \cup {Len(o) + 1}
    BY <1>7, DropsMore
  <2>2. Len(o) + 1 \notin Drops(o, Len(o))
    BY <1>1 DEF Drops
  <2>3. Cardinality(Drops(o2, Len(o2))) = c + 1
    BY <1>3, <1>4, <2>1, <2>2, FS_AddElement
  <2>4. Len(o2) - Cardinality(Drops(o2, Len(o2))) = n
    BY <1>1, <1>4, <2>3
  <2>5. ASSUME NEW j \in 1 .. Len(o2), j \notin Drops(o2, j)
        PROVE  o2[j] = s[j - Cardinality(Drops(o2, j))]
    <3>1. CASE j = Len(o2)
      BY <1>1, <2>1, <2>5, <3>1
    <3>2. CASE j # Len(o2)
      <4>1. j \in 1 .. Len(o)
        BY <1>1, <3>2
      <4> QED
        BY <1>5, <2>5, <4>1
    <3> QED
      BY <3>1, <3>2
  <2> QED
    BY <2>4, <2>5 DEF Holds
<1>8. EndsZero(o2) <=> b = 0
  BY <1>1 DEF EndsZero
<1>9. EndsZeros(o2) <=> b = 0 /\ EndsZero(o)
  <2>1. CASE Len(o) >= 1
    <3>1. Len(o2) >= 2 /\ Len(o2) - 1 = Len(o) /\ Len(o) \in 1 .. Len(o)
      BY <1>1, <2>1
    <3>2. o2[Len(o2) - 1] = o[Len(o)]
      BY <1>2, <3>1
    <3> QED
      BY <1>8, <2>1, <3>1, <3>2 DEF EndsZeros, EndsZero
  <2>2. CASE ~(Len(o) >= 1)
    <3>1. ~(Len(o2) >= 2)
      BY <1>1, <2>2
    <3> QED
      BY <2>2, <3>1 DEF EndsZeros, EndsZero
  <2> QED
    BY <2>1, <2>2
<1>10. ASSUME EndsZeros(o) => b > 2 PROVE NoStart(o2)
  <2>1. ASSUME NEW j \in 1 .. Len(o2) - 2, o2[j] = 0, o2[j + 1] = 0 PROVE o2[j + 2] > 2
    <3>0. j \in 1 .. Len(o) /\ j + 1 \in 1 .. Len(o) /\ j + 2 \in 1 .. Len(o) + 1
      BY SMTT(30), <1>1
    <3>1. o[j] = 0 /\ o[j + 1] = 0
      BY <1>2, <2>1, <3>0
    <3>2. CASE j + 2 = Len(o) + 1
      <4>1. j + 1 = Len(o) /\ j = Len(o) - 1 /\ Len(o) >= 2
        BY <1>1, <3>0, <3>2
      <4>2. EndsZeros(o)
        BY <3>1, <4>1 DEF EndsZeros, EndsZero
      <4> QED
        BY <1>1, <1>10, <3>2, <4>2
    <3>3. CASE j + 2 # Len(o) + 1
      <4>1. j \in 1 .. Len(o) - 2 /\ j + 2 \in 1 .. Len(o)
        BY <1>1, <3>0, <3>3
      <4>2. o[j + 2] > 2
        BY <3>1, <4>1 DEF NoStart
      <4> QED
        BY <1>2, <4>1, <4>2
    <3> QED
      BY <3>2, <3>3
  <2> QED
    BY <2>1 DEF NoStart
<1> QED
  BY <1>6, <1>7, <1>8, <1>9, <1>10

\* A word of bytes above 3 in the unit: the decoder drops nothing of it.
LEMMA WordMore ==
  ASSUME NEW o \in Seq(Nat), NEW o2 \in Seq(Nat), NEW w \in Nat, w > 0, Len(o2) = Len(o) + w,
         \A j \in 1 .. Len(o) : o2[j] = o[j],
         NEW s, NEW n \in Nat, Holds(o, s, n), NoStart(o),
         \A m \in 1 .. w : o2[Len(o) + m] = s[n + m] /\ s[n + m] \in Nat /\ s[n + m] > 3
  PROVE  Holds(o2, s, n + w) /\ NoStart(o2) /\ ~EndsZero(o2) /\ ~EndsZeros(o2)
<1>1. Len(o) \in Nat
  OBVIOUS
<1>2. PICK L : L = Len(o)
  OBVIOUS
<1>3. /\ L \in Nat /\ Len(o2) = L + w /\ \A j \in 1 .. L : o2[j] = o[j]
  BY <1>1, <1>2
<1>4. ASSUME NEW j \in 1 .. L + w, ~(j <= L)
      PROVE  o2[j] = s[n + (j - L)] /\ o2[j] \in Nat /\ o2[j] > 3
  <2>1. PICK m : m = j - L
    OBVIOUS
  <2>2. m \in 1 .. w /\ L + m = j
    BY <1>3, <1>4, <2>1
  <2>3. o2[L + m] = s[n + m] /\ s[n + m] \in Nat /\ s[n + m] > 3
    BY <1>2, <2>2
  <2> QED
    BY <2>1, <2>2, <2>3
<1>5. ASSUME NEW j \in 0 .. L PROVE Drops(o2, j) = Drops(o, j)
  <2>1. Len(o) <= Len(o2) /\ j \in 0 .. Len(o)
    BY <1>2, <1>3
  <2> QED
    BY <2>1, DropsPrefix
<1>6. ASSUME NEW j \in L .. L + w PROVE Drops(o2, j) = Drops(o, L)
  <2>1. ASSUME NEW d \in 3 .. j, ~(d <= L) PROVE o2[d] # 3
    <3>1. d \in 1 .. L + w
      BY <1>3
    <3>2. o2[d] \in Nat /\ o2[d] > 3
      BY <1>4, <2>1, <3>1
    <3> QED
      BY <3>2
  <2>2. Drops(o2, j) = Drops(o2, L)
    <3>1. \A d \in 3 .. L : d \in 3 .. j
      BY <1>3
    <3>2. \A d \in 3 .. j : d <= L => d \in 3 .. L
      BY <1>3
    <3> QED
      BY <2>1, <3>1, <3>2 DEF Drops
  <2>3. L \in 0 .. L
    BY <1>3
  <2> QED
    BY <1>5, <2>2, <2>3
<1>7. PICK c : c = Cardinality(Drops(o, L))
  OBVIOUS
<1>8. c \in Nat /\ L - c = n
  BY <1>2, <1>3, <1>7, DropsFinite DEF Holds
<1>9. Holds(o2, s, n + w)
  <2>1. Len(o2) - Cardinality(Drops(o2, Len(o2))) = n + w
    <3>1. Drops(o2, L + w) = Drops(o, L)
      <4>1. L + w \in L .. L + w
        BY <1>3
      <4> QED
        BY <1>6, <4>1
    <3>2. Cardinality(Drops(o2, Len(o2))) = c
      BY <1>3, <1>7, <3>1
    <3>3. (L + w) - c = n + w
      BY <1>3, <1>8
    <3> QED
      BY <1>3, <3>2, <3>3
  <2>2. ASSUME NEW j \in 1 .. L + w, j \notin Drops(o2, j)
        PROVE  o2[j] = s[j - Cardinality(Drops(o2, j))]
    <3>1. CASE j <= L
      <4>1. j \in 0 .. L /\ j \in 1 .. L
        BY <1>3, <3>1
      <4>2. Drops(o2, j) = Drops(o, j)
        BY <1>5, <4>1
      <4>3. o[j] = s[j - Cardinality(Drops(o, j))]
        BY <1>2, <2>2, <4>1, <4>2 DEF Holds
      <4> QED
        BY <1>3, <4>1, <4>2, <4>3
    <3>2. CASE ~(j <= L)
      <4>1. j \in L .. L + w
        BY <1>3, <3>2
      <4>2. Drops(o2, j) = Drops(o, L)
        BY <1>6, <4>1
      <4>3. o2[j] = s[n + (j - L)]
        BY <1>4, <3>2
      <4>4. n + (j - L) = j - c
        BY <1>3, <1>8
      <4> QED
        BY <1>7, <4>2, <4>3, <4>4
    <3> QED
      BY <3>1, <3>2
  <2> QED
    BY <1>3, <2>1, <2>2 DEF Holds
<1>10. NoStart(o2)
  <2>1. ASSUME NEW j \in 1 .. (L + w) - 2, o2[j] = 0, o2[j + 1] = 0 PROVE o2[j + 2] > 2
    <3>1. j \in 1 .. L + w /\ j + 1 \in 1 .. L + w /\ j + 2 \in 1 .. L + w
      BY <1>3
    <3>2. j <= L /\ j + 1 <= L
      BY SMTT(30), <1>4, <2>1, <3>1
    <3>3. CASE j + 2 <= L
      <4>1. j \in 1 .. Len(o) - 2 /\ j \in 1 .. L /\ j + 1 \in 1 .. L /\ j + 2 \in 1 .. L
        BY SMTT(30), <1>2, <1>3, <3>1, <3>3
      <4>2. o[j] = 0 /\ o[j + 1] = 0
        BY <1>3, <2>1, <4>1
      <4>3. o[j + 2] > 2
        BY <4>1, <4>2 DEF NoStart
      <4> QED
        BY <1>3, <4>1, <4>3
    <3>4. CASE ~(j + 2 <= L)
      <4>1. o2[j + 2] \in Nat /\ o2[j + 2] > 3
        BY <1>4, <3>1, <3>4
      <4> QED
        BY <4>1
    <3> QED
      BY <3>3, <3>4
  <2> QED
    BY <1>3, <2>1 DEF NoStart
<1>11. ~EndsZero(o2)
  <2>1. L + w \in 1 .. L + w /\ ~(L + w <= L)
    BY <1>3
  <2>2. o2[L + w] \in Nat /\ o2[L + w] > 3
    BY <1>4, <2>1
  <2> QED
    BY <1>3, <2>2 DEF EndsZero
<1> QED
  BY <1>9, <1>10, <1>11 DEF EndsZeros

\* A byte at the end of a unit.
LEMMA OneMoreByte ==
  ASSUME NEW o \in Seq(Nat), NEW b \in Nat
  PROVE  o \o <<b>> \in Seq(Nat) /\ OneMore(o, b, o \o <<b>>)
<1>1. o \o <<b>> \in Seq(Nat) /\ Len(o \o <<b>>) = Len(o) + 1
  OBVIOUS
<1>2. (o \o <<b>>)[Len(o) + 1] = b
  OBVIOUS
<1>3. ASSUME NEW j \in 1 .. Len(o) PROVE (o \o <<b>>)[j] = o[j]
  OBVIOUS
<1> QED
  BY <1>1, <1>2, <1>3 DEF OneMore

\* A 3 and a byte at the end of a unit.
LEMMA OneMoreEscaped ==
  ASSUME NEW o \in Seq(Nat), NEW b \in Nat
  PROVE  o \o <<3, b>> \in Seq(Nat) /\ OneMore(o \o <<3>>, b, o \o <<3, b>>)
<1>1. PICK L : L = Len(o)
  OBVIOUS
<1>2. L \in Nat /\ Len(o \o <<3>>) = L + 1 /\ Len(o \o <<3, b>>) = L + 2
  BY <1>1
<1>3. o \o <<3, b>> \in Seq(Nat)
  OBVIOUS
<1>4. (o \o <<3, b>>)[L + 2] = b
  BY <1>1
<1>5. ASSUME NEW j \in 1 .. L + 1 PROVE (o \o <<3, b>>)[j] = (o \o <<3>>)[j]
  <2>1. CASE j \in 1 .. L
    BY <1>1, <2>1
  <2>2. CASE j = L + 1
    BY <1>1, <2>2
  <2> QED
    BY <1>2, <2>1, <2>2
<1>6. PICK m, o2 : m = o \o <<3>> /\ o2 = o \o <<3, b>>
  OBVIOUS
<1>7. /\ Len(o2) = Len(m) + 1 /\ o2[Len(m) + 1] = b
      /\ \A j \in 1 .. Len(m) : o2[j] = m[j]
  <2>1. Len(m) = L + 1 /\ Len(o2) = L + 2 /\ (L + 1) + 1 = L + 2
    BY <1>2, <1>6
  <2>2. o2[L + 2] = b /\ \A j \in 1 .. L + 1 : o2[j] = m[j]
    BY <1>4, <1>5, <1>6
  <2> QED
    BY <2>1, <2>2
<1>8. OneMore(m, b, o2)
  BY <1>7 DEF OneMore
<1> QED
  BY <1>3, <1>6, <1>8

\* Before the loop the unit is empty.
LEMMA NalStart ==
  ASSUME NEW s \in Seq(Nat), Nal!Start(s) PROVE NalInv
<1>1. rbsp = s /\ nI = 1 /\ nZ = 0 /\ out = <<>> /\ Len(out) = 0
  BY DEF Nal!Start
<1>2. Drops(out, 0) = {} /\ Cardinality({}) = 0
  BY FS_EmptySet DEF Drops
<1>3. Holds(out, rbsp, nI - 1)
  <2>1. nI - 1 = 0 /\ Len(out) - Cardinality(Drops(out, Len(out))) = 0
    <3>1. Cardinality(Drops(out, Len(out))) = 0
      BY <1>1, <1>2
    <3> QED
      BY <1>1, <3>1
  <2>2. \A j \in 1 .. Len(out) : FALSE
    BY <1>1
  <2> QED
    BY <2>1, <2>2 DEF Holds
<1>4. NoStart(out) /\ ~EndsZero(out) /\ ~EndsZeros(out)
  BY <1>1 DEF NoStart, EndsZero, EndsZeros
<1>5. rbsp \in Seq(Nat) /\ out \in Seq(Nat) /\ nI \in 1 .. Len(rbsp) + 1 /\ nZ \in Nat
  BY <1>1
<1>6. ~(nZ >= 1) /\ ~(nZ >= 2)
  BY <1>1
<1> QED
  BY <1>3, <1>4, <1>5, <1>6 DEF NalInv

\* One byte of the payload, escaped after two zeros.
LEMMA CopyByteInv ==
  ASSUME NalInv, Nal!CopyByte PROVE NalInv'
<1>1. /\ rbsp \in Seq(Nat) /\ out \in Seq(Nat)
      /\ nI \in 1 .. Len(rbsp) + 1 /\ nI \in Nat /\ nZ \in Nat
      /\ nZ >= 1 <=> EndsZero(out)
      /\ nZ >= 2 <=> EndsZeros(out)
      /\ Holds(out, rbsp, nI - 1) /\ NoStart(out)
  BY DEF NalInv
<1>2. PICK b : b = rbsp[nI]
  OBVIOUS
<1>3. nI \in 1 .. Len(rbsp) /\ nI' = nI + 1 /\ rbsp' = rbsp
  BY <1>1 DEF Nal!CopyByte
<1>4. b \in Nat
  BY <1>1, <1>2, <1>3
<1>5. PICK o2 : o2 = out'
  OBVIOUS
<1>6. PICK n : n = nI - 1
  OBVIOUS
<1>7. n \in Nat /\ rbsp[n + 1] = b /\ Holds(out, rbsp, n) /\ nI' - 1 = n + 1
      /\ nI' \in 1 .. Len(rbsp) + 1
  BY <1>1, <1>2, <1>3, <1>6
<1>8. /\ o2 \in Seq(Nat) /\ Holds(o2, rbsp, n + 1) /\ NoStart(o2) /\ nZ' \in Nat
      /\ nZ' >= 1 <=> EndsZero(o2)
      /\ nZ' >= 2 <=> EndsZeros(o2)
  <2>1. CASE ~(nZ >= 2 /\ b <= 3)
    <3>1. o2 = out \o <<b>> /\ nZ' = IF b = 0 THEN nZ + 1 ELSE 0
      BY <1>2, <1>5, <2>1 DEF Nal!CopyByte, Nal!Escapes
    <3>2. o2 \in Seq(Nat) /\ OneMore(out, b, o2)
      BY <1>1, <1>4, <3>1, OneMoreByte
    <3>3. ~(b = 3 /\ EndsZeros(out)) /\ (EndsZeros(out) => b > 2)
      BY <1>1, <1>4, <2>1
    <3>4. /\ Holds(o2, rbsp, n + 1) /\ NoStart(o2)
          /\ EndsZero(o2) <=> b = 0
          /\ EndsZeros(o2) <=> b = 0 /\ EndsZero(out)
      BY <1>1, <1>4, <1>7, <3>2, <3>3, ByteMore
    <3>5. nZ' \in Nat /\ (nZ' >= 1 <=> b = 0) /\ (nZ' >= 2 <=> b = 0 /\ nZ >= 1)
      BY <1>1, <1>4, <3>1
    <3> QED
      BY <1>1, <3>2, <3>4, <3>5
  <2>2. CASE nZ >= 2 /\ b <= 3
    <3>1. o2 = out \o <<3, b>> /\ nZ' = IF b = 0 THEN 1 ELSE 0
      BY <1>2, <1>5, <2>2 DEF Nal!CopyByte, Nal!Escapes
    <3>2. PICK m : m = out \o <<3>>
      OBVIOUS
    <3>3. /\ m \in Seq(Nat) /\ OneMore(out, 3, m)
          /\ o2 \in Seq(Nat) /\ OneMore(m, b, o2)
      BY <1>1, <1>4, <3>1, <3>2, OneMoreByte, OneMoreEscaped
    <3>4. /\ Holds(m, rbsp, n) /\ NoStart(m)
          /\ ~EndsZero(m) /\ ~EndsZeros(m)
      <4>1. 3 \in Nat /\ 3 > 2 /\ 3 # 0 /\ EndsZeros(out)
        BY <1>1, <2>2
      <4> QED
        BY <1>1, <1>7, <3>3, <4>1, ByteMore
    <3>5. /\ Holds(o2, rbsp, n + 1) /\ NoStart(o2)
          /\ EndsZero(o2) <=> b = 0
          /\ ~EndsZeros(o2)
      BY <1>1, <1>4, <1>7, <3>3, <3>4, ByteMore
    <3>6. nZ' \in Nat /\ (nZ' >= 1 <=> b = 0) /\ ~(nZ' >= 2)
      BY <1>4, <3>1
    <3> QED
      BY <3>3, <3>5, <3>6
  <2> QED
    BY <2>1, <2>2
<1> QED
  BY <1>1, <1>3, <1>5, <1>7, <1>8 DEF NalInv

\* A word of bytes above 3, as it is.
LEMMA CopyWordInv ==
  ASSUME NalInv, Nal!CopyWord PROVE NalInv'
<1>1. /\ rbsp \in Seq(Nat) /\ out \in Seq(Nat)
      /\ nI \in 1 .. Len(rbsp) + 1 /\ nI \in Nat
      /\ Holds(out, rbsp, nI - 1) /\ NoStart(out)
  BY DEF NalInv
<1>2. WORD \in Nat /\ WORD > 0
  BY NalAssumption
<1>3. /\ nI + WORD - 1 <= Len(rbsp)
      /\ \A j \in nI .. nI + WORD - 1 : rbsp[j] > 3
      /\ out' = out \o SubSeq(rbsp, nI, nI + WORD - 1)
      /\ nI' = nI + WORD /\ nZ' = 0 /\ rbsp' = rbsp
  BY DEF Nal!CopyWord, Nal!WordClean
<1>4. PICK L : L = Len(out)
  OBVIOUS
<1>5. PICK t : t = SubSeq(rbsp, nI, nI + WORD - 1)
  OBVIOUS
<1>6. PICK n : n = nI - 1
  OBVIOUS
<1>7. n \in Nat /\ Holds(out, rbsp, n) /\ nI' - 1 = n + WORD /\ nI' \in 1 .. Len(rbsp) + 1
  BY <1>1, <1>2, <1>3, <1>6
<1>8. /\ t \in Seq(Nat) /\ Len(t) = WORD
      /\ \A m \in 1 .. WORD : t[m] = rbsp[nI + m - 1]
  <2>1. PICK e : e = nI + WORD - 1
    OBVIOUS
  <2>2. e \in Nat /\ nI \in 1 .. Len(rbsp) + 1 /\ e \in nI - 1 .. Len(rbsp) /\ e - nI + 1 = WORD
    BY <1>1, <1>2, <1>3, <2>1
  <2>3. t = SubSeq(rbsp, nI, e)
    BY <1>5, <2>1
  <2>4. t \in Seq(Nat) /\ Len(t) = e - nI + 1
    <3>1. \A j \in nI .. e : rbsp[j] \in Nat
      BY <1>1, <2>2
    <3>2. nI \in Int /\ e \in Int /\ nI <= e
      BY <1>1, <1>2, <2>2
    <3> QED
      BY <2>3, <3>1, <3>2, SubSeqProperties
  <2>5. \A m \in 1 .. e - nI + 1 : t[m] = rbsp[nI + m - 1]
    BY <1>1, <2>2, <2>3, SubSeqProperties
  <2> QED
    BY <2>2, <2>4, <2>5
<1>9. ASSUME NEW m \in 1 .. WORD
      PROVE  t[m] = rbsp[n + m] /\ rbsp[n + m] \in Nat /\ rbsp[n + m] > 3
  <2>1. nI + m - 1 = n + m /\ n + m \in 1 .. Len(rbsp) /\ n + m \in nI .. nI + WORD - 1
    BY <1>1, <1>2, <1>3, <1>6
  <2>2. t[m] = rbsp[n + m]
    BY <1>8, <2>1
  <2>3. rbsp[n + m] > 3
    BY <1>3, <2>1
  <2>4. rbsp[n + m] \in Nat
    BY <1>1, <2>1
  <2> QED
    BY <2>2, <2>3, <2>4
<1>10. PICK o2 : o2 = out'
  OBVIOUS
<1>11. L \in Nat /\ o2 = out \o t
  BY <1>1, <1>3, <1>4, <1>5, <1>10
<1>12. /\ o2 \in Seq(Nat) /\ Len(o2) = L + WORD
       /\ \A j \in 1 .. L : o2[j] = out[j]
  <2>1. o2 \in Seq(Nat) /\ Len(o2) = Len(out) + Len(t)
    BY <1>1, <1>8, <1>11, ConcatProperties
  <2>2. ASSUME NEW j \in 1 .. Len(out) PROVE o2[j] = out[j]
    BY <1>1, <1>8, <1>11
  <2> QED
    BY <1>4, <1>8, <2>1, <2>2
<1>13. ASSUME NEW m \in 1 .. WORD PROVE o2[L + m] = t[m]
  BY <1>1, <1>2, <1>4, <1>8, <1>11
<1>14. Holds(o2, rbsp, n + WORD) /\ NoStart(o2) /\ ~EndsZero(o2) /\ ~EndsZeros(o2)
  <2>1. \A m \in 1 .. WORD : o2[Len(out) + m] = rbsp[n + m] /\ rbsp[n + m] \in Nat /\ rbsp[n + m] > 3
    BY <1>4, <1>9, <1>13
  <2> QED
    BY <1>1, <1>2, <1>4, <1>7, <1>12, <2>1, WordMore
<1>15. nZ' \in Nat /\ ~(nZ' >= 1) /\ ~(nZ' >= 2)
  BY <1>3
<1> QED
  BY <1>1, <1>3, <1>7, <1>10, <1>12, <1>14, <1>15 DEF NalInv

-----------------------------------------------------------------------------
(* The two parts together.                                                 *)

\* The stream begins with the black IDR, the unit empty.
LEMMA StreamNalInit ==
  ASSUME MCInit PROVE StreamInv /\ NalInv
<1>1. Stream!Init /\ (Nal!Init \/ Nal!Start(<<>>))
  BY DEF MCInit
<1>2. /\ pages \in Nat /\ smooth \in {0, 1, 2} /\ extra \in Nat
      /\ 1 + pages + smooth + extra <= MAXREF
      /\ page = 0 /\ tN = 0 /\ tK = 0 /\ lt = {0} /\ maxLt = 0 /\ st = <<>> /\ tLast = 0
      /\ ref = [fn |-> 0, lsb |-> 0]
      /\ pic = [fn |-> 1, after |-> 0, poc |-> 1, prev |-> 0, reads |-> TRUE]
  BY <1>1, StreamAssumption DEF Stream!Init
<1>3. U16 \in Nat /\ U16 >= 12 /\ MAXREF \in Nat /\ 2 * (RenderWrap + MAXREF) <= U16
      /\ RenderWrap \in Nat /\ RenderWrap > 0
  BY StreamAssumption
<1>4. ref.fn = 0 /\ ref.lsb = 0 /\ ref \in [fn : 0 .. U16 - 1, lsb : 0 .. U16 - 1]
  <2>1. 0 \in 0 .. U16 - 1
    BY <1>3
  <2> QED
    BY <1>2, <2>1
<1>5. StreamTypes
  <2>1. page \in 0 .. pages /\ tK \in 0 .. smooth /\ lt = 0 .. page
    BY <1>2
  <2>2. st \in Seq(Nat)
    BY <1>2
  <2> QED
    BY <1>2, <1>4, <2>1, <2>2 DEF StreamTypes
<1>6. RefInv
  <2>1. Len(st) = 0 /\ Len(st) <= smooth + extra /\ WindowOf(st, ref.fn)
    BY <1>2 DEF WindowOf
  <2>2. smooth # 0 /\ page = pages =>
          /\ FrameNumOf(tN) = (ref.fn + 1) % U16
          /\ \E g \in {2, 4, 6} : PocOf(tN) = (ref.lsb + g) % U16 /\ tLast < g
    <3>1. SUFFICES ASSUME smooth # 0, page = pages
                   PROVE  /\ FrameNumOf(tN) = (ref.fn + 1) % U16
                          /\ PocOf(tN) = (ref.lsb + 2) % U16 /\ tLast < 2
      OBVIOUS
    <3>2. pages + 1 + smooth * tN = ref.fn + 1 /\ 2 * (pages + 1) + 6 * tN = ref.lsb + 2
      BY <1>2, <1>4, <3>1
    <3> QED
      BY <1>2, <3>2 DEF FrameNumOf, PocOf
  <2>3. tK # 1 /\ tK # 2
    BY <1>2
  <2> QED
    BY <1>2, <1>4, <2>1, <2>2, <2>3 DEF RefInv
<1>7. PictureInv
  <2>1. pic.fn = 1 /\ pic.after = 0 /\ pic.poc = 1 /\ pic.prev = 0
    BY <1>2
  <2>2. pic.reads
    BY <1>2, Zenon
  <2>3. 1 = (0 + 1) % U16
    BY <1>3
  <2> QED
    BY <2>1, <2>2, <2>3 DEF PictureInv
<1>8. NalInv
  <2>1. CASE Nal!Init
    <3>1. PICK s \in Nal!Payloads : Nal!Start(s)
      BY <2>1 DEF Nal!Init
    <3>2. PICK l \in 0 .. MaxLen : s \in [1 .. l -> Bytes]
      BY <3>1 DEF Nal!Payloads
    <3>3. s \in Seq(Nat)
      <4>1. Bytes \subseteq Nat /\ MaxLen \in Nat
        BY NalAssumption
      <4>2. l \in Nat
        BY <4>1
      <4>3. s \in [1 .. l -> Nat]
        BY <3>2, <4>1, Zenon
      <4> QED
        BY <4>2, <4>3, SeqDef
    <3> QED
      BY <3>1, <3>3, NalStart
  <2>2. CASE Nal!Start(<<>>)
    <3>1. <<>> \in Seq(Nat)
      OBVIOUS
    <3> QED
      BY <2>2, <3>1, NalStart
  <2> QED
    BY <1>1, <2>1, <2>2
<1>9. PlainInv
  BY <1>2 DEF PlainInv
<1> QED
  BY <1>5, <1>6, <1>7, <1>8, <1>9 DEF StreamInv

\* A step of one of the parts leaves the other as it is.
LEMMA StreamNalNext ==
  ASSUME StreamInv /\ NalInv, [MCNext]_all PROVE (StreamInv /\ NalInv)'
<1>1. ASSUME UNCHANGED stream PROVE StreamInv'
  BY <1>1 DEF stream, StreamInv, StreamTypes, RefInv, PlainInv, PictureInv, FrameNumOf, PocOf,
                WindowOf
<1>2. ASSUME UNCHANGED nal PROVE NalInv'
  BY <1>2 DEF nal, NalInv
<1>3. CASE Stream!Next /\ UNCHANGED nal
  BY <1>2, <1>3, PcmPageInv, GenFrameInv DEF Stream!Next
<1>4. CASE Nal!Next /\ UNCHANGED stream
  BY <1>1, <1>4, CopyByteInv, CopyWordInv DEF Nal!Next
<1>5. CASE UNCHANGED <<stream, nal>>
  BY <1>1, <1>2, <1>5
<1> QED
  BY <1>3, <1>4, <1>5 DEF MCNext, all

\* The invariants say what a decoder needs.
LEMMA StreamNalReadable ==
  ASSUME StreamInv, NalInv PROVE StreamDecodes
<1>1. Stream!PagesKept
  <2>1. /\ pages \in Nat /\ smooth \in Nat /\ extra \in Nat /\ page \in Nat /\ page <= pages
        /\ lt = 0 .. page /\ Len(st) \in Nat /\ Len(st) <= smooth + extra
    BY DEF StreamInv, StreamTypes, RefInv
  <2>2. Cardinality(0 .. page) = page + 1
    <3>1. Cardinality(0 .. page) = IF 0 > page THEN 0 ELSE page - 0 + 1
      BY <2>1, FS_Interval
    <3> QED
      BY <2>1, <3>1
  <2>3. Stream!Cardinality(lt) = Cardinality(lt)
    BY Zenon DEF Stream!Cardinality, Cardinality
  <2>4. Stream!Cardinality(lt) = page + 1
    BY <2>1, <2>2, <2>3
  <2>5. Stream!Cardinality(lt) + Len(st) <= 1 + pages + smooth + extra
    BY <2>1, <2>4
  <2> QED
    BY <2>1, <2>5 DEF Stream!PagesKept, Stream!MaxNumRefFrames
<1>2. Stream!FrameNumsFollow
  BY DEF StreamInv, PictureInv, Stream!FrameNumsFollow
<1>3. Stream!PicturesAdvance
  BY DEF StreamInv, PictureInv, Stream!PicturesAdvance
<1>4. Stream!SmoothsTheRender
  BY Zenon DEF StreamInv, PictureInv, Stream!SmoothsTheRender
<1>5. Nal!ReadsBack
  <2>1. \A j : Nal!Dropped(j) = Drops(out, j)
    BY DEF Nal!Dropped, Drops
  <2>2. \A S : Nal!Cardinality(S) = Cardinality(S)
    BY Zenon DEF Nal!Cardinality, Cardinality
  <2>3. Holds(out, rbsp, nI - 1)
    BY DEF NalInv
  <2> QED
    BY <2>1, <2>2, <2>3 DEF Nal!ReadsBack, Holds
<1>6. Nal!NoStartCode
  BY DEF NalInv, NoStart, Nal!NoStartCode
<1> QED
  BY <1>1, <1>2, <1>3, <1>4, <1>5, <1>6 DEF StreamDecodes

\* For every number of pages, every --smooth and --dpb-extra the options allow,
\* every width of the counters and any length of a run, a decoder can read the
\* stream: the pages stay references, frame_num and the picture order count
\* follow the rules over their wraps, a B-picture finds its render; and
\* nal_wrap's unit of any payload reads back as the payload, without a start
\* code inside, wherever its words begin.
THEOREM StreamReadable == MCSpec => []StreamDecodes
<1>1. MCInit => StreamInv /\ NalInv
  BY StreamNalInit
<1>2. StreamInv /\ NalInv /\ [MCNext]_all => (StreamInv /\ NalInv)'
  BY StreamNalNext
<1>3. StreamInv /\ NalInv => StreamDecodes
  BY StreamNalReadable
<1> QED
  BY <1>1, <1>2, <1>3, PTL DEF MCSpec
=============================================================================
