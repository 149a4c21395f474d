--------------------------- MODULE SophDrmProofs ---------------------------
(***************************************************************************)
(* What the display scans out while its timing generator runs, for any     *)
(* framebuffers, formats, poll rate and vbl_div: only the committed plane  *)
(* state, or the one before it until its flip is done.                     *)
(*                                                                         *)
(* The invariant says where a commit is: what is still to come of it, and  *)
(* for each place what the shadow bank holds, what the working bank can    *)
(* have latched of it, and how far the poller is behind the frame starts.  *)
(***************************************************************************)
EXTENDS SophDrm, TLAPS

Then(step, rest) == <<step>> \o rest

-----------------------------------------------------------------------------
(* What is still to come of a commit.                                      *)

\* The plane's update and the event, with rest after them.
ArmOf(rest)   == Then("arm", rest)
ClearOf(rest) == Then("clear", ArmOf(rest))
StageOf(rest) == Then("stage", ArmOf(rest))
AddrOf(rest)  == Then("addr", ClearOf(rest))
GeoOf(rest)   == Then("geo", AddrOf(rest))
LayerOf(rest) == Then("layer", ClearOf(rest))
GopOf(rest)   == Then("gop", ClearOf(rest))

FlipTodos == {StageOf(<<>>), GeoOf(<<>>), AddrOf(<<>>), LayerOf(<<>>), GopOf(<<>>),
              ClearOf(<<>>), ArmOf(<<>>)}

\* soph_pipe_enable, the path to the video layer: all of it, and what is left.
V10 == PipeEnable("video")
V9  == Tail(V10)
V8  == Tail(V9)
V7  == Tail(V8)
V6  == Tail(V7)
V5  == Tail(V6)
V4  == Tail(V5)
V3  == Tail(V4)
V2  == Tail(V3)
V1  == Tail(V2)

VideoTodos == {V1, V2, V3, V4, V5, V6, V7, V8, V9, V10}

\* The path to the GOP, until it is switched on; the rest is as for the layer.
G11 == PipeEnable("gop")
G10 == Tail(G11)
G9  == Tail(G10)
G8  == Tail(G9)
G7  == Tail(G8)
G6  == Tail(G7)
G5  == Tail(G6)

GopOnTodos  == {V1, V2, V3, V4}
GopOffTodos == {G5, G6, G7, G8, G9, G10, G11}

Enabling(m) == IF m = "video" THEN V10 ELSE G11

DarkTodos(m) == IF m = "off" THEN {ArmOf(<<>>)}
                ELSE {StageOf(Enabling(m)), LayerOf(Enabling(m)), GopOf(Enabling(m)),
                      ClearOf(Enabling(m)), ArmOf(Enabling(m))}

\* What follows soph_pipe_disable, and the disabling itself.
AfterDisable(m) == IF m = "off" THEN ArmOf(<<>>) ELSE StageOf(Enabling(m))

D1(m) == Then("forceup", AfterDisable(m))
D2(m) == Then("parkaddr", D1(m))
D3(m) == Then("parkgeo", D2(m))
D4(m) == Then("bgon", D3(m))
D5(m) == Then("gopoff", D4(m))
D6(m) == Then("vbloff", D5(m))

DisableTodos(m) == {D1(m), D2(m), D3(m), D4(m), D5(m), D6(m)}

Todo == commit.todo
Now  == Head(commit.todo)

-----------------------------------------------------------------------------
(* What a bank holds.                                                      *)

\* The video layer's registers hold plane state l.
Same(b, l) == b.addr = l.addr /\ b.how = l.how /\ b.pitch = l.pitch

\* Bank b shows plane state l in mode m.
Shows(b, m, l) ==
  \/ m = "video" /\ ~b.gop /\ ~b.bg /\ Same(b, l)
  \/ m = "gop" /\ b.gop /\ b.bg /\ b.addr = Park /\ b.gopaddr = l.addr
  \/ m = "off" /\ ~b.gop /\ b.addr = Park /\ (b.bg \/ Same(b, NoLayer))

\* It still shows the plane state before this commit, or less of it.
Fades(b) ==
  /\ b.addr \in {Park, old.addr}
  /\ b.gop => b.gopaddr = old.addr
  /\ b.bg \/ Same(b, old)

\* It reads nothing but the driver's own buffer.
Quiet(b) ==
  /\ ~b.gop /\ b.addr = Park
  /\ b.bg \/ (Same(b, NoLayer) /\ old = NoLayer)

\* The driver never takes the layer for something it is not.
KnownOk ==
  known.how = NoHow \/ (known.how = shadow.how /\ known.pitch = shadow.pitch)

VblanksOff == ~vblank.on /\ ~vblank.timer

\* The poller has seen every frame start but the last.
Calm == (status => miss <= Oversample) /\ (~status => miss <= polls)

-----------------------------------------------------------------------------
(* The places of a commit.                                                 *)

Resting ==
  /\ Todo = <<>>
  /\ Shows(shadow, mode, front) /\ KnownOk
  /\ IF mode = "off" THEN VblanksOff /\ known.how = NoHow /\ ~event ELSE vblank.on
  /\ steady =>
       /\ Shows(working, mode, front)
            \/ (event /\ ~status /\ Shows(working, mode, old))
       /\ ~event => Calm

Flipping ==
  /\ Todo \in FlipTodos
  /\ mode # "off" /\ vblank.on /\ ~event /\ KnownOk
  /\ Now \in {"geo", "addr"} =>
       mode = "video" /\ known.how = front.how /\ known.pitch = front.pitch
  /\ Now = "layer" => mode = "video"
  /\ Now = "gop" => mode = "gop"
  /\ Shows(shadow, mode, IF Now \in {"clear", "arm"} THEN front ELSE old)
  /\ steady =>
       /\ \/ Now \in {"clear", "arm"} /\ Shows(working, mode, front)
          \/ (Now = "arm" => ~status) /\ Shows(working, mode, old)
       /\ Now # "arm" => Calm

Disabling ==
  /\ Todo \in DisableTodos(mode)
  /\ ~event
  /\ Now # "vbloff" => VblanksOff
  /\ Fades(shadow)
  /\ Now \in {"bgon", "parkgeo", "parkaddr", "forceup"} => ~shadow.gop
  /\ Now \in {"parkgeo", "parkaddr", "forceup"} => shadow.bg
  /\ Now = "forceup" => shadow.addr = Park /\ known.how = NoHow
  /\ steady => Fades(working) /\ Calm

Dark ==
  /\ Todo \in DarkTodos(mode)
  /\ ~event /\ VblanksOff
  /\ Now = "layer" => mode = "video"
  /\ Now = "gop" => mode = "gop"
  /\ IF mode = "video" /\ Now \in {"clear", "arm"}
       THEN ~shadow.gop /\ Same(shadow, front) /\ KnownOk
       ELSE Quiet(shadow) /\ known.how = NoHow
  /\ mode = "gop" /\ Now \in {"clear", "arm"} => shadow.gopaddr = front.addr
  /\ steady =>
       /\ Quiet(working)
            \/ (mode = "video" /\ ~working.gop /\ Same(working, front))
       /\ Now # "arm" \/ mode = "off" => Calm

\* Between vblon and the end of the commit the poller may run again.
Awaits ==
  /\ Now # "hwdone" => VblanksOff
  /\ Now = "hwdone" => vblank.on
  /\ steady /\ commit.lit => IF polls = 0 THEN status ELSE Calm

LightingVideo ==
  /\ Todo \in VideoTodos /\ mode = "video"
  /\ ~event /\ old = NoLayer /\ Awaits
  /\ ~shadow.gop /\ Same(shadow, front) /\ KnownOk
  /\ Now # "bgoff" => ~shadow.bg
  /\ steady =>
       IF Now \in {"vblon", "hwdone"} THEN Shows(working, mode, front)
       ELSE Quiet(working) \/ (~working.gop /\ Same(working, front))

LightingGop ==
  /\ Todo \in GopOnTodos \cup GopOffTodos /\ mode = "gop"
  /\ ~event /\ old = NoLayer /\ Awaits
  /\ shadow.addr = Park /\ shadow.gopaddr = front.addr /\ known.how = NoHow
  /\ shadow.bg \/ (Now = "bgon" /\ Same(shadow, NoLayer))
  /\ \/ Todo \in GopOnTodos /\ shadow.gop
     \/ Todo \in GopOffTodos /\ ~shadow.gop
  /\ steady =>
       IF Now \in {"vblon", "hwdone"} THEN Shows(working, mode, front)
       ELSE /\ working.addr = Park /\ (working.gop => working.gopaddr = front.addr)
            /\ working.bg \/ Same(working, NoLayer)

PlaceInv == \/ Resting \/ Flipping \/ Disabling \/ Dark \/ LightingVideo \/ LightingGop

-----------------------------------------------------------------------------
Windows == {"parkgeo", "parkaddr", "geo", "addr", "how", "layer"}

MaskInv == mask => Todo # <<>> /\ Now \in Windows

LitInv == commit.lit => Todo # <<>> /\ Now = "hwdone"

\* soph_pipe_check: the plane state belongs to the mode.
ModeInv ==
  /\ mode = "video" => front.how # NoHow
  /\ mode = "off" => front = NoLayer

\* The poller is behind by a frame start that a commit has cleared, no more.
LateInv ==
  /\ steady => tgen
  /\ status => polls = 0
  /\ steady => (~status => miss <= Oversample + polls)
  /\ steady => (~vblank.timer => miss <= Oversample)

DrmInv == TypeOK /\ MaskInv /\ LitInv /\ ModeInv /\ LateInv /\ PlaceInv

-----------------------------------------------------------------------------
(* Lemmas about what is still to come.                                     *)

\* A list of writes is its first one and what is still to come.
LEMMA ThenFacts ==
  ASSUME NEW s \in Steps, NEW t \in Seq(Steps)
  PROVE  /\ Then(s, t) \in Seq(Steps) /\ Then(s, t) # <<>>
         /\ Head(Then(s, t)) = s /\ Tail(Then(s, t)) = t
  BY DEF Then

\* A commit that is over.
LEMMA EmptyTodo == <<>> \in Seq(Steps)
  OBVIOUS

\* The steps of an update, in their order.
LEMMA UpdateTable ==
  ASSUME NEW r \in Seq(Steps)
  PROVE  /\ ArmOf(r) \in Seq(Steps) /\ ArmOf(r) # <<>>
         /\ Head(ArmOf(r)) = "arm" /\ Tail(ArmOf(r)) = r
         /\ ClearOf(r) \in Seq(Steps) /\ ClearOf(r) # <<>>
         /\ Head(ClearOf(r)) = "clear" /\ Tail(ClearOf(r)) = ArmOf(r)
         /\ StageOf(r) \in Seq(Steps) /\ StageOf(r) # <<>>
         /\ Head(StageOf(r)) = "stage" /\ Tail(StageOf(r)) = ArmOf(r)
         /\ AddrOf(r) \in Seq(Steps) /\ AddrOf(r) # <<>>
         /\ Head(AddrOf(r)) = "addr" /\ Tail(AddrOf(r)) = ClearOf(r)
         /\ GeoOf(r) \in Seq(Steps) /\ GeoOf(r) # <<>>
         /\ Head(GeoOf(r)) = "geo" /\ Tail(GeoOf(r)) = AddrOf(r)
         /\ LayerOf(r) \in Seq(Steps) /\ LayerOf(r) # <<>>
         /\ Head(LayerOf(r)) = "layer" /\ Tail(LayerOf(r)) = ClearOf(r)
         /\ GopOf(r) \in Seq(Steps) /\ GopOf(r) # <<>>
         /\ Head(GopOf(r)) = "gop" /\ Tail(GopOf(r)) = ClearOf(r)
<1>1. /\ ArmOf(r) \in Seq(Steps) /\ ArmOf(r) # <<>>
      /\ Head(ArmOf(r)) = "arm" /\ Tail(ArmOf(r)) = r
  BY ThenFacts DEF ArmOf, Steps
<1>2. /\ ClearOf(r) \in Seq(Steps) /\ ClearOf(r) # <<>>
      /\ Head(ClearOf(r)) = "clear" /\ Tail(ClearOf(r)) = ArmOf(r)
  BY <1>1, ThenFacts DEF ClearOf, Steps
<1>3. /\ StageOf(r) \in Seq(Steps) /\ StageOf(r) # <<>>
      /\ Head(StageOf(r)) = "stage" /\ Tail(StageOf(r)) = ArmOf(r)
  BY <1>1, ThenFacts DEF StageOf, Steps
<1>4. /\ AddrOf(r) \in Seq(Steps) /\ AddrOf(r) # <<>>
      /\ Head(AddrOf(r)) = "addr" /\ Tail(AddrOf(r)) = ClearOf(r)
  BY <1>2, ThenFacts DEF AddrOf, Steps
<1>5. /\ GeoOf(r) \in Seq(Steps) /\ GeoOf(r) # <<>>
      /\ Head(GeoOf(r)) = "geo" /\ Tail(GeoOf(r)) = AddrOf(r)
  BY <1>4, ThenFacts DEF GeoOf, Steps
<1>6. /\ LayerOf(r) \in Seq(Steps) /\ LayerOf(r) # <<>>
      /\ Head(LayerOf(r)) = "layer" /\ Tail(LayerOf(r)) = ClearOf(r)
  BY <1>2, ThenFacts DEF LayerOf, Steps
<1>7. /\ GopOf(r) \in Seq(Steps) /\ GopOf(r) # <<>>
      /\ Head(GopOf(r)) = "gop" /\ Tail(GopOf(r)) = ClearOf(r)
  BY <1>2, ThenFacts DEF GopOf, Steps
<1> QED
  BY <1>1, <1>2, <1>3, <1>4, <1>5, <1>6, <1>7

\* The steps to the video layer.
LEMMA VideoTable ==
  /\ V10 \in Seq(Steps) /\ V10 # <<>> /\ Head(V10) = "bgoff" /\ Tail(V10) = V9
  /\ V9 \in Seq(Steps) /\ V9 # <<>> /\ Head(V9) = "gopoff" /\ Tail(V9) = V8
  /\ V8 \in Seq(Steps) /\ V8 # <<>> /\ Head(V8) = "geo" /\ Tail(V8) = V7
  /\ V7 \in Seq(Steps) /\ V7 # <<>> /\ Head(V7) = "addr" /\ Tail(V7) = V6
  /\ V6 \in Seq(Steps) /\ V6 # <<>> /\ Head(V6) = "how" /\ Tail(V6) = V5
  /\ V5 \in Seq(Steps) /\ V5 # <<>> /\ Head(V5) = "layer" /\ Tail(V5) = V4
  /\ V4 \in Seq(Steps) /\ V4 # <<>> /\ Head(V4) = "tgen" /\ Tail(V4) = V3
  /\ V3 \in Seq(Steps) /\ V3 # <<>> /\ Head(V3) = "forceup" /\ Tail(V3) = V2
  /\ V2 \in Seq(Steps) /\ V2 # <<>> /\ Head(V2) = "vblon" /\ Tail(V2) = V1
  /\ V1 \in Seq(Steps) /\ V1 # <<>> /\ Head(V1) = "hwdone" /\ Tail(V1) = <<>>
<1>1. V10 = <<"bgoff", "gopoff", "geo", "addr", "how", "layer",
         "tgen", "forceup", "vblon", "hwdone">>
  BY DEF V10, PipeEnable
<1>2. V9 = <<"gopoff", "geo", "addr", "how", "layer", "tgen",
         "forceup", "vblon", "hwdone">>
  BY <1>1 DEF V9
<1>3. V8 = <<"geo", "addr", "how", "layer", "tgen", "forceup",
         "vblon", "hwdone">>
  BY <1>2 DEF V8
<1>4. V7 = <<"addr", "how", "layer", "tgen", "forceup", "vblon", "hwdone">>
  BY <1>3 DEF V7
<1>5. V6 = <<"how", "layer", "tgen", "forceup", "vblon", "hwdone">>
  BY <1>4 DEF V6
<1>6. V5 = <<"layer", "tgen", "forceup", "vblon", "hwdone">>
  BY <1>5 DEF V5
<1>7. V4 = <<"tgen", "forceup", "vblon", "hwdone">>
  BY <1>6 DEF V4
<1>8. V3 = <<"forceup", "vblon", "hwdone">>
  BY <1>7 DEF V3
<1>9. V2 = <<"vblon", "hwdone">>
  BY <1>8 DEF V2
<1>10. V1 = <<"hwdone">>
  BY <1>9 DEF V1
<1>11. V10 \in Seq(Steps) /\ V10 # <<>> /\ Head(V10) = "bgoff" /\ Tail(V10) = V9
  BY <1>1 DEF V9, Steps
<1>12. V9 \in Seq(Steps) /\ V9 # <<>> /\ Head(V9) = "gopoff" /\ Tail(V9) = V8
  BY <1>2 DEF V8, Steps
<1>13. V8 \in Seq(Steps) /\ V8 # <<>> /\ Head(V8) = "geo" /\ Tail(V8) = V7
  BY <1>3 DEF V7, Steps
<1>14. V7 \in Seq(Steps) /\ V7 # <<>> /\ Head(V7) = "addr" /\ Tail(V7) = V6
  BY <1>4 DEF V6, Steps
<1>15. V6 \in Seq(Steps) /\ V6 # <<>> /\ Head(V6) = "how" /\ Tail(V6) = V5
  BY <1>5 DEF V5, Steps
<1>16. V5 \in Seq(Steps) /\ V5 # <<>> /\ Head(V5) = "layer" /\ Tail(V5) = V4
  BY <1>6 DEF V4, Steps
<1>17. V4 \in Seq(Steps) /\ V4 # <<>> /\ Head(V4) = "tgen" /\ Tail(V4) = V3
  BY <1>7 DEF V3, Steps
<1>18. V3 \in Seq(Steps) /\ V3 # <<>> /\ Head(V3) = "forceup" /\ Tail(V3) = V2
  BY <1>8 DEF V2, Steps
<1>19. V2 \in Seq(Steps) /\ V2 # <<>> /\ Head(V2) = "vblon" /\ Tail(V2) = V1
  BY <1>9 DEF V1, Steps
<1>20. V1 \in Seq(Steps) /\ V1 # <<>> /\ Head(V1) = "hwdone" /\ Tail(V1) = <<>>
  BY <1>10 DEF Steps
<1> QED
  BY <1>11, <1>12, <1>13, <1>14, <1>15, <1>16, <1>17, <1>18, <1>19, <1>20

\* The end of soph_pipe_enable.
LEMMA VideoRest == V4 = <<"tgen", "forceup", "vblon", "hwdone">>
<1>1. V7 = <<"addr", "how", "layer", "tgen", "forceup", "vblon", "hwdone">>
  BY DEF V7, V8, V9, V10, PipeEnable
<1> QED
  BY <1>1 DEF V4, V5, V6

\* The steps to the GOP.
LEMMA GopTable ==
  /\ G11 \in Seq(Steps) /\ G11 # <<>> /\ Head(G11) = "bgon" /\ Tail(G11) = G10
  /\ G10 \in Seq(Steps) /\ G10 # <<>> /\ Head(G10) = "parkgeo" /\ Tail(G10) = G9
  /\ G9 \in Seq(Steps) /\ G9 # <<>> /\ Head(G9) = "parkaddr" /\ Tail(G9) = G8
  /\ G8 \in Seq(Steps) /\ G8 # <<>> /\ Head(G8) = "gop" /\ Tail(G8) = G7
  /\ G7 \in Seq(Steps) /\ G7 # <<>> /\ Head(G7) = "gopoff" /\ Tail(G7) = G6
  /\ G6 \in Seq(Steps) /\ G6 # <<>> /\ Head(G6) = "forceup" /\ Tail(G6) = G5
  /\ G5 \in Seq(Steps) /\ G5 # <<>> /\ Head(G5) = "gopon" /\ Tail(G5) = V4
<1>1. G11 = <<"bgon", "parkgeo", "parkaddr", "gop", "gopoff", "forceup",
         "gopon", "tgen", "forceup", "vblon", "hwdone">>
  BY DEF G11, PipeEnable
<1>2. G10 = <<"parkgeo", "parkaddr", "gop", "gopoff", "forceup", "gopon",
         "tgen", "forceup", "vblon", "hwdone">>
  BY <1>1 DEF G10
<1>3. G9 = <<"parkaddr", "gop", "gopoff", "forceup", "gopon", "tgen",
         "forceup", "vblon", "hwdone">>
  BY <1>2 DEF G9
<1>4. G8 = <<"gop", "gopoff", "forceup", "gopon", "tgen", "forceup",
         "vblon", "hwdone">>
  BY <1>3 DEF G8
<1>5. G7 = <<"gopoff", "forceup", "gopon", "tgen", "forceup", "vblon",
         "hwdone">>
  BY <1>4 DEF G7
<1>6. G6 = <<"forceup", "gopon", "tgen", "forceup", "vblon", "hwdone">>
  BY <1>5 DEF G6
<1>7. G5 = <<"gopon", "tgen", "forceup", "vblon", "hwdone">>
  BY <1>6 DEF G5
<1>8. G11 \in Seq(Steps) /\ G11 # <<>> /\ Head(G11) = "bgon" /\ Tail(G11) = G10
  BY <1>1 DEF G10, Steps
<1>9. G10 \in Seq(Steps) /\ G10 # <<>> /\ Head(G10) = "parkgeo" /\ Tail(G10) = G9
  BY <1>2 DEF G9, Steps
<1>10. G9 \in Seq(Steps) /\ G9 # <<>> /\ Head(G9) = "parkaddr" /\ Tail(G9) = G8
  BY <1>3 DEF G8, Steps
<1>11. G8 \in Seq(Steps) /\ G8 # <<>> /\ Head(G8) = "gop" /\ Tail(G8) = G7
  BY <1>4 DEF G7, Steps
<1>12. G7 \in Seq(Steps) /\ G7 # <<>> /\ Head(G7) = "gopoff" /\ Tail(G7) = G6
  BY <1>5 DEF G6, Steps
<1>13. G6 \in Seq(Steps) /\ G6 # <<>> /\ Head(G6) = "forceup" /\ Tail(G6) = G5
  BY <1>6 DEF G5, Steps
<1>14. G5 \in Seq(Steps) /\ G5 # <<>> /\ Head(G5) = "gopon" /\ Tail(G5) = V4
  BY <1>7, VideoRest DEF Steps
<1> QED
  BY <1>8, <1>9, <1>10, <1>11, <1>12, <1>13, <1>14

\* soph_pipe_enable is a list of writes.
LEMMA EnablingTodo == ASSUME NEW m PROVE Enabling(m) \in Seq(Steps)
  BY VideoTable, GopTable DEF Enabling

\* So is what follows a disable.
LEMMA AfterTodo == ASSUME NEW m PROVE AfterDisable(m) \in Seq(Steps)
<1>1. Enabling(m) \in Seq(Steps) /\ <<>> \in Seq(Steps)
  BY EnablingTodo, EmptyTodo
<1>2. ArmOf(<<>>) \in Seq(Steps) /\ StageOf(Enabling(m)) \in Seq(Steps)
  BY <1>1, UpdateTable
<1> QED
  BY <1>2 DEF AfterDisable

\* The steps that turn the pipe off.
LEMMA DisableTable ==
  ASSUME NEW m
  PROVE
  /\ D1(m) \in Seq(Steps) /\ D1(m) # <<>> /\ Head(D1(m)) = "forceup" /\ Tail(D1(m)) = AfterDisable(m)
  /\ D2(m) \in Seq(Steps) /\ D2(m) # <<>> /\ Head(D2(m)) = "parkaddr" /\ Tail(D2(m)) = D1(m)
  /\ D3(m) \in Seq(Steps) /\ D3(m) # <<>> /\ Head(D3(m)) = "parkgeo" /\ Tail(D3(m)) = D2(m)
  /\ D4(m) \in Seq(Steps) /\ D4(m) # <<>> /\ Head(D4(m)) = "bgon" /\ Tail(D4(m)) = D3(m)
  /\ D5(m) \in Seq(Steps) /\ D5(m) # <<>> /\ Head(D5(m)) = "gopoff" /\ Tail(D5(m)) = D4(m)
  /\ D6(m) \in Seq(Steps) /\ D6(m) # <<>> /\ Head(D6(m)) = "vbloff" /\ Tail(D6(m)) = D5(m)
<1>0. AfterDisable(m) \in Seq(Steps) /\ "forceup" \in Steps
  BY AfterTodo DEF Steps
<1>1. D1(m) \in Seq(Steps) /\ D1(m) # <<>> /\ Head(D1(m)) = "forceup" /\ Tail(D1(m)) = AfterDisable(m)
  BY <1>0, ThenFacts DEF D1
<1>2. D2(m) \in Seq(Steps) /\ D2(m) # <<>> /\ Head(D2(m)) = "parkaddr" /\ Tail(D2(m)) = D1(m)
  BY <1>1, ThenFacts DEF D2, Steps
<1>3. D3(m) \in Seq(Steps) /\ D3(m) # <<>> /\ Head(D3(m)) = "parkgeo" /\ Tail(D3(m)) = D2(m)
  BY <1>2, ThenFacts DEF D3, Steps
<1>4. D4(m) \in Seq(Steps) /\ D4(m) # <<>> /\ Head(D4(m)) = "bgon" /\ Tail(D4(m)) = D3(m)
  BY <1>3, ThenFacts DEF D4, Steps
<1>5. D5(m) \in Seq(Steps) /\ D5(m) # <<>> /\ Head(D5(m)) = "gopoff" /\ Tail(D5(m)) = D4(m)
  BY <1>4, ThenFacts DEF D5, Steps
<1>6. D6(m) \in Seq(Steps) /\ D6(m) # <<>> /\ Head(D6(m)) = "vbloff" /\ Tail(D6(m)) = D5(m)
  BY <1>5, ThenFacts DEF D6, Steps
<1> QED
  BY <1>1, <1>2, <1>3, <1>4, <1>5, <1>6

\* The lists the helpers start a commit with are those.
LEMMA Assoc ==
  ASSUME NEW r \in Seq(Steps), NEW s \in Seq(Steps), NEW t \in Seq(Steps)
  PROVE  (r \o s) \o t = r \o (s \o t)
  OBVIOUS

\* Two writes before a list.
LEMMA TwoSteps ==
  ASSUME NEW a \in Steps, NEW b \in Steps, NEW t \in Seq(Steps)
  PROVE  <<a, b>> \o t = Then(a, Then(b, t))
<1>1. Then(b, t) \in Seq(Steps) /\ Len(Then(b, t)) = Len(t) + 1 /\ Len(t) \in Nat
  BY DEF Then
<1>2. Then(a, Then(b, t)) \in Seq(Steps) /\ Len(Then(a, Then(b, t))) = Len(t) + 2
  BY <1>1 DEF Then
<1>3. <<a, b>> \o t \in Seq(Steps) /\ Len(<<a, b>> \o t) = Len(t) + 2
  BY <1>1
<1>4. ASSUME NEW i \in 1 .. Len(t) + 2
      PROVE  (<<a, b>> \o t)[i] = Then(a, Then(b, t))[i]
  BY <1>1 DEF Then
<1> QED
  BY <1>2, <1>3, <1>4

\* A plane update in a commit is what StageOf says.
LEMMA StageList ==
  ASSUME NEW t \in Seq(Steps)
  PROVE  <<"stage", "arm">> \o t = StageOf(t)
<1>1. "stage" \in Steps /\ "arm" \in Steps
  BY DEF Steps
<1>2. <<"stage", "arm">> \o t = Then("stage", Then("arm", t))
  BY <1>1, TwoSteps
<1> QED
  BY <1>2 DEF StageOf, ArmOf

\* The commit of a flip.
LEMMA FlipList == <<"stage", "arm">> = StageOf(<<>>) /\ <<"arm">> = ArmOf(<<>>)
<1>1. <<"stage", "arm">> \o <<>> = <<"stage", "arm">> /\ <<"arm">> \o <<>> = <<"arm">>
  OBVIOUS
<1> QED
  BY <1>1, StageList, EmptyTodo DEF ArmOf, Then

\* A modeset's disable and what follows it, in one list.
LEMMA DisableList ==
  ASSUME NEW m
  PROVE  PipeDisable \o AfterDisable(m) = D6(m)
<1> DEFINE a == <<"vbloff", "gopoff">>
           b == <<"bgon", "parkgeo">>
           c == <<"parkaddr", "forceup">>
           t == AfterDisable(m)
<1>1. a \in Seq(Steps) /\ b \in Seq(Steps) /\ c \in Seq(Steps) /\ t \in Seq(Steps)
  BY AfterTodo DEF Steps
<1>2. PipeDisable = (a \o b) \o c
  BY DEF PipeDisable
<1>3. a \o b \in Seq(Steps) /\ b \o (c \o t) \in Seq(Steps) /\ c \o t \in Seq(Steps)
  BY <1>1
<1> HIDE DEF a, b, c, t
<1>4. PipeDisable \o t = (a \o b) \o (c \o t)
  BY SMTT(30), <1>1, <1>2, <1>3, Assoc
<1>5. (a \o b) \o (c \o t) = a \o (b \o (c \o t))
  <2>1. PICK u \in Seq(Steps) : u = c \o t
    BY <1>3
  <2>2. (a \o b) \o u = a \o (b \o u)
    BY <1>1
  <2> QED
    BY <2>1, <2>2
<1> USE DEF a, b, c, t
<1>6. c \o t = D2(m)
  <2>1. "parkaddr" \in Steps /\ "forceup" \in Steps
    BY DEF Steps
  <2> QED
    BY <2>1, <1>1, TwoSteps DEF D1, D2
<1>7. b \o D2(m) = D4(m)
  <2>1. "bgon" \in Steps /\ "parkgeo" \in Steps /\ D2(m) \in Seq(Steps)
    BY DisableTable DEF Steps
  <2> QED
    BY <2>1, TwoSteps DEF D3, D4
<1>8. a \o D4(m) = D6(m)
  <2>1. "vbloff" \in Steps /\ "gopoff" \in Steps /\ D4(m) \in Seq(Steps)
    BY DisableTable DEF Steps
  <2> QED
    BY <2>1, TwoSteps DEF D5, D6
<1> QED
  BY <1>4, <1>5, <1>6, <1>7, <1>8

\* The lists of Modeset and TurnOff.
LEMMA CommitLists ==
  /\ PipeDisable \o <<"arm">> = D6("off")
  /\ \A m \in {"video", "gop"} :
            /\ <<>> \o <<"stage", "arm">> \o PipeEnable(m) = StageOf(Enabling(m))
            /\ PipeDisable \o <<"stage", "arm">> \o PipeEnable(m) = D6(m)
<1>1. PipeDisable \o <<"arm">> = D6("off")
  BY DisableList, FlipList DEF AfterDisable
<1>2. ASSUME NEW m \in {"video", "gop"}
      PROVE  /\ <<>> \o <<"stage", "arm">> \o PipeEnable(m) = StageOf(Enabling(m))
             /\ PipeDisable \o <<"stage", "arm">> \o PipeEnable(m) = D6(m)
  <2>1. PipeEnable(m) = Enabling(m) /\ Enabling(m) \in Seq(Steps)
    <3>1. PipeEnable(m) = Enabling(m)
      BY Zenon DEF Enabling, V10, G11
    <3> QED
      BY <3>1, EnablingTodo, Zenon
  <2>2. <<"stage", "arm">> \in Seq(Steps) /\ PipeDisable \in Seq(Steps)
    BY DEF Steps, PipeDisable
  <2>3. <<>> \o <<"stage", "arm">> = <<"stage", "arm">>
    OBVIOUS
  <2>4. <<"stage", "arm">> \o Enabling(m) = StageOf(Enabling(m))
    BY <2>1, StageList
  <2>5. PipeDisable \o <<"stage", "arm">> \o Enabling(m) = PipeDisable \o StageOf(Enabling(m))
    <3>1. PICK p \in Seq(Steps), q \in Seq(Steps), u \in Seq(Steps) :
            p = PipeDisable /\ q = <<"stage", "arm">> /\ u = Enabling(m)
      BY <2>1, <2>2
    <3>2. (p \o q) \o u = p \o (q \o u)
      OBVIOUS
    <3> QED
      BY <3>1, <3>2, <2>4, Zenon
  <2>6. AfterDisable(m) = StageOf(Enabling(m))
    BY DEF AfterDisable
  <2> QED
    BY <2>1, <2>3, <2>4, <2>5, <2>6, DisableList
<1> QED
  BY <1>1, <1>2

\* The lists of PipeUpdate.
LEMMA UpdateLists ==
  ASSUME NEW r \in Seq(Steps)
  PROVE  /\ <<"gop">> \o <<"clear">> \o ArmOf(r) = GopOf(r)
         /\ <<"layer">> \o <<"clear">> \o ArmOf(r) = LayerOf(r)
         /\ <<"geo", "addr">> \o <<"clear">> \o ArmOf(r) = GeoOf(r)
<1>1. ArmOf(r) \in Seq(Steps) /\ ClearOf(r) \in Seq(Steps)
  BY UpdateTable
<1>2. /\ <<"gop">> \in Seq(Steps) /\ <<"layer">> \in Seq(Steps)
      /\ <<"geo", "addr">> \in Seq(Steps) /\ <<"clear">> \in Seq(Steps)
      /\ "geo" \in Steps /\ "addr" \in Steps
  BY DEF Steps
<1>3. <<"clear">> \o ArmOf(r) = ClearOf(r)
  BY DEF ClearOf, Then
<1>4. /\ <<"gop">> \o <<"clear">> \o ArmOf(r) = <<"gop">> \o ClearOf(r)
      /\ <<"layer">> \o <<"clear">> \o ArmOf(r) = <<"layer">> \o ClearOf(r)
      /\ <<"geo", "addr">> \o <<"clear">> \o ArmOf(r) = <<"geo", "addr">> \o ClearOf(r)
  <2>1. PICK u \in Seq(Steps), g \in Seq(Steps), l \in Seq(Steps), a \in Seq(Steps),
             c \in Seq(Steps) :
          /\ u = ArmOf(r) /\ g = <<"gop">> /\ l = <<"layer">>
          /\ a = <<"geo", "addr">> /\ c = <<"clear">>
    BY <1>1, <1>2
  <2>2. (g \o c) \o u = g \o (c \o u)
    BY SMTT(30)
  <2>3. (l \o c) \o u = l \o (c \o u)
    BY SMTT(30)
  <2>4. (a \o c) \o u = a \o (c \o u)
    BY SMTT(30)
  <2> QED
    BY <2>1, <2>2, <2>3, <2>4, <1>3, Zenon
<1>5. <<"geo", "addr">> \o ClearOf(r) = GeoOf(r)
  BY <1>1, <1>2, TwoSteps DEF GeoOf, AddrOf
<1> QED
  BY <1>4, <1>5 DEF GopOf, LayerOf, Then

-----------------------------------------------------------------------------
(* The same lists, by the place they belong to.                            *)

\* From each place of a flip to the next.
LEMMA FlipSteps ==
  ASSUME NEW t \in FlipTodos
  PROVE  /\ t \in Seq(Steps) /\ t # <<>>
         /\ Head(t) \in {"stage", "geo", "addr", "layer", "gop", "clear", "arm"}
         /\ Head(t) = "stage" => t = StageOf(<<>>) /\ Tail(t) = ArmOf(<<>>)
         /\ Head(t) = "geo" => Tail(t) \in FlipTodos /\ Head(Tail(t)) = "addr"
         /\ Head(t) \in {"addr", "layer", "gop"} =>
              Tail(t) \in FlipTodos /\ Head(Tail(t)) = "clear"
         /\ Head(t) = "clear" => Tail(t) \in FlipTodos /\ Head(Tail(t)) = "arm"
         /\ Head(t) = "arm" => Tail(t) = <<>>
<1>0. <<>> \in Seq(Steps)
  BY EmptyTodo
<1>1. CASE t = StageOf(<<>>)
  BY <1>1, <1>0, UpdateTable DEF FlipTodos
<1>2. CASE t = GeoOf(<<>>)
  <2>1. t \in Seq(Steps) /\ t # <<>> /\ Head(t) = "geo" /\ Tail(t) = AddrOf(<<>>)
    BY <1>2, <1>0, UpdateTable
  <2>2. Head(AddrOf(<<>>)) = "addr"
    BY <1>0, UpdateTable
  <2> QED
    BY <2>1, <2>2 DEF FlipTodos
<1>3. CASE t = AddrOf(<<>>)
  <2>1. t \in Seq(Steps) /\ t # <<>> /\ Head(t) = "addr" /\ Tail(t) = ClearOf(<<>>)
    BY <1>3, <1>0, UpdateTable
  <2>2. Head(ClearOf(<<>>)) = "clear"
    BY <1>0, UpdateTable
  <2> QED
    BY <2>1, <2>2 DEF FlipTodos
<1>4. CASE t = LayerOf(<<>>)
  <2>1. t \in Seq(Steps) /\ t # <<>> /\ Head(t) = "layer" /\ Tail(t) = ClearOf(<<>>)
    BY <1>4, <1>0, UpdateTable
  <2>2. Head(ClearOf(<<>>)) = "clear"
    BY <1>0, UpdateTable
  <2> QED
    BY <2>1, <2>2 DEF FlipTodos
<1>5. CASE t = GopOf(<<>>)
  <2>1. t \in Seq(Steps) /\ t # <<>> /\ Head(t) = "gop" /\ Tail(t) = ClearOf(<<>>)
    BY <1>5, <1>0, UpdateTable
  <2>2. Head(ClearOf(<<>>)) = "clear"
    BY <1>0, UpdateTable
  <2> QED
    BY <2>1, <2>2 DEF FlipTodos
<1>6. CASE t = ClearOf(<<>>)
  <2>1. t \in Seq(Steps) /\ t # <<>> /\ Head(t) = "clear" /\ Tail(t) = ArmOf(<<>>)
    BY <1>6, <1>0, UpdateTable
  <2>2. Head(ArmOf(<<>>)) = "arm"
    BY <1>0, UpdateTable
  <2> QED
    BY <2>1, <2>2 DEF FlipTodos
<1>7. CASE t = ArmOf(<<>>)
  BY <1>7, <1>0, UpdateTable DEF FlipTodos
<1> QED
  BY <1>1, <1>2, <1>3, <1>4, <1>5, <1>6, <1>7 DEF FlipTodos

\* From each place of soph_pipe_disable to the next.
LEMMA DisableSteps ==
  ASSUME NEW m, NEW t \in DisableTodos(m)
  PROVE  /\ t \in Seq(Steps) /\ t # <<>>
         /\ Head(t) \in {"vbloff", "gopoff", "bgon", "parkgeo", "parkaddr", "forceup"}
         /\ Head(t) # "forceup" => Tail(t) \in DisableTodos(m)
         /\ Head(t) = "vbloff" => Head(Tail(t)) = "gopoff"
         /\ Head(t) = "gopoff" => Head(Tail(t)) = "bgon"
         /\ Head(t) = "bgon" => Head(Tail(t)) = "parkgeo"
         /\ Head(t) = "parkgeo" => Head(Tail(t)) = "parkaddr"
         /\ Head(t) = "parkaddr" => Head(Tail(t)) = "forceup"
         /\ Head(t) = "forceup" => Tail(t) = AfterDisable(m)
  BY DisableTable DEF DisableTodos

\* From each place between the disable and the enable to the next.
LEMMA DarkSteps ==
  ASSUME NEW m \in {"off", "video", "gop"}, NEW t \in DarkTodos(m)
  PROVE  /\ t \in Seq(Steps) /\ t # <<>>
         /\ Head(t) \in {"stage", "layer", "gop", "clear", "arm"}
         /\ m = "off" => Head(t) = "arm" /\ Tail(t) = <<>>
         /\ Head(t) = "stage" => t = StageOf(Enabling(m)) /\ Tail(t) = ArmOf(Enabling(m))
         /\ Head(t) \in {"layer", "gop"} =>
              Tail(t) \in DarkTodos(m) /\ Head(Tail(t)) = "clear"
         /\ Head(t) = "clear" => Tail(t) \in DarkTodos(m) /\ Head(Tail(t)) = "arm"
         /\ Head(t) = "arm" /\ m # "off" => Tail(t) = Enabling(m)
<1>1. Enabling(m) \in Seq(Steps) /\ <<>> \in Seq(Steps)
  BY EnablingTodo, EmptyTodo
<1>2. CASE m = "off"
  <2>1. t = ArmOf(<<>>)
    BY <1>2 DEF DarkTodos
  <2> QED
    BY <1>1, <1>2, <2>1, UpdateTable
<1>3. CASE m # "off"
  <2>1. PICK r \in Seq(Steps) : r = Enabling(m)
    BY <1>1
  <2>2. DarkTodos(m) = {StageOf(r), LayerOf(r), GopOf(r), ClearOf(r), ArmOf(r)}
    BY <1>3, <2>1 DEF DarkTodos
  <2>3. CASE t = StageOf(r)
    BY <1>3, <2>1, <2>2, <2>3, UpdateTable
  <2>4. CASE t = LayerOf(r)
    <3>1. t \in Seq(Steps) /\ t # <<>> /\ Head(t) = "layer" /\ Tail(t) = ClearOf(r)
      BY <2>4, UpdateTable
    <3>2. Head(ClearOf(r)) = "clear"
      BY UpdateTable
    <3> QED
      BY <1>3, <2>2, <3>1, <3>2
  <2>5. CASE t = GopOf(r)
    <3>1. t \in Seq(Steps) /\ t # <<>> /\ Head(t) = "gop" /\ Tail(t) = ClearOf(r)
      BY <2>5, UpdateTable
    <3>2. Head(ClearOf(r)) = "clear"
      BY UpdateTable
    <3> QED
      BY <1>3, <2>2, <3>1, <3>2
  <2>6. CASE t = ClearOf(r)
    <3>1. t \in Seq(Steps) /\ t # <<>> /\ Head(t) = "clear" /\ Tail(t) = ArmOf(r)
      BY <2>6, UpdateTable
    <3>2. Head(ArmOf(r)) = "arm"
      BY UpdateTable
    <3> QED
      BY <1>3, <2>2, <3>1, <3>2
  <2>7. CASE t = ArmOf(r)
    BY <1>3, <2>1, <2>2, <2>7, UpdateTable
  <2> QED
    BY <2>2, <2>3, <2>4, <2>5, <2>6, <2>7
<1> QED
  BY <1>2, <1>3

\* Where the disable ends.
LEMMA AfterDisableSteps ==
  ASSUME NEW m \in {"off", "video", "gop"}
  PROVE  /\ AfterDisable(m) \in DarkTodos(m)
         /\ Head(AfterDisable(m)) = IF m = "off" THEN "arm" ELSE "stage"
<1>1. Enabling(m) \in Seq(Steps) /\ <<>> \in Seq(Steps)
  BY EnablingTodo, EmptyTodo
<1>2. Head(ArmOf(<<>>)) = "arm" /\ Head(StageOf(Enabling(m))) = "stage"
  BY <1>1, UpdateTable
<1> QED
  BY <1>2 DEF AfterDisable, DarkTodos

\* From each place of soph_pipe_enable for the video layer to the next.
LEMMA VideoSteps ==
  ASSUME NEW t \in VideoTodos
  PROVE  /\ t \in Seq(Steps) /\ t # <<>>
         /\ Head(t) \in {"bgoff", "gopoff", "geo", "addr", "how", "layer", "tgen",
                         "forceup", "vblon", "hwdone"}
         /\ Head(t) # "hwdone" => Tail(t) \in VideoTodos /\ Head(Tail(t)) # "bgoff"
         /\ Head(t) \in {"bgoff", "gopoff", "geo", "addr", "how", "layer", "tgen"} =>
              Head(Tail(t)) \notin {"vblon", "hwdone"}
         /\ Head(t) = "forceup" => Head(Tail(t)) = "vblon"
         /\ Head(t) = "vblon" => Head(Tail(t)) = "hwdone"
         /\ Head(t) = "hwdone" => Tail(t) = <<>>
<1>1. CASE t = V1
  BY <1>1, VideoTable DEF VideoTodos
<1>2. CASE t = V2
  BY <1>2, VideoTable DEF VideoTodos
<1>3. CASE t = V3
  BY <1>3, VideoTable DEF VideoTodos
<1>4. CASE t = V4
  BY <1>4, VideoTable DEF VideoTodos
<1>5. CASE t = V5
  BY <1>5, VideoTable DEF VideoTodos
<1>6. CASE t = V6
  BY <1>6, VideoTable DEF VideoTodos
<1>7. CASE t = V7
  BY <1>7, VideoTable DEF VideoTodos
<1>8. CASE t = V8
  BY <1>8, VideoTable DEF VideoTodos
<1>9. CASE t = V9
  BY <1>9, VideoTable DEF VideoTodos
<1>10. CASE t = V10
  BY <1>10, VideoTable DEF VideoTodos
<1> QED
  BY <1>1, <1>2, <1>3, <1>4, <1>5, <1>6, <1>7, <1>8, <1>9, <1>10 DEF VideoTodos

\* From each place of it for the GOP, once that is on, to the next.
LEMMA GopOnSteps ==
  ASSUME NEW t \in GopOnTodos
  PROVE  /\ t \in Seq(Steps) /\ t # <<>>
         /\ Head(t) \in {"tgen", "forceup", "vblon", "hwdone"}
         /\ Head(t) # "hwdone" => Tail(t) \in GopOnTodos
         /\ Head(t) = "tgen" => Head(Tail(t)) = "forceup"
         /\ Head(t) = "forceup" => Head(Tail(t)) = "vblon"
         /\ Head(t) = "vblon" => Head(Tail(t)) = "hwdone"
         /\ Head(t) = "hwdone" => Tail(t) = <<>>
<1>1. CASE t = V1
  BY <1>1, VideoTable DEF GopOnTodos
<1>2. CASE t = V2
  BY <1>2, VideoTable DEF GopOnTodos
<1>3. CASE t = V3
  BY <1>3, VideoTable DEF GopOnTodos
<1>4. CASE t = V4
  BY <1>4, VideoTable DEF GopOnTodos
<1> QED
  BY <1>1, <1>2, <1>3, <1>4 DEF GopOnTodos

\* And before it is on.
LEMMA GopOffSteps ==
  ASSUME NEW t \in GopOffTodos
  PROVE  /\ t \in Seq(Steps) /\ t # <<>>
         /\ Head(t) \in {"bgon", "parkgeo", "parkaddr", "gop", "gopoff", "forceup", "gopon"}
         /\ Head(t) # "gopon" =>
              /\ Tail(t) \in GopOffTodos
              /\ Head(Tail(t)) \in {"parkgeo", "parkaddr", "gop", "gopoff", "forceup", "gopon"}
         /\ Head(t) = "gopon" => Tail(t) \in GopOnTodos /\ Head(Tail(t)) = "tgen"
<1>1. CASE t = G5
  BY <1>1, VideoTable, GopTable DEF GopOffTodos, GopOnTodos
<1>2. CASE t = G6
  BY <1>2, VideoTable, GopTable DEF GopOffTodos, GopOnTodos
<1>3. CASE t = G7
  BY <1>3, VideoTable, GopTable DEF GopOffTodos, GopOnTodos
<1>4. CASE t = G8
  BY <1>4, VideoTable, GopTable DEF GopOffTodos, GopOnTodos
<1>5. CASE t = G9
  BY <1>5, VideoTable, GopTable DEF GopOffTodos, GopOnTodos
<1>6. CASE t = G10
  BY <1>6, VideoTable, GopTable DEF GopOffTodos, GopOnTodos
<1>7. CASE t = G11
  BY <1>7, VideoTable, GopTable DEF GopOffTodos, GopOnTodos
<1> QED
  BY <1>1, <1>2, <1>3, <1>4, <1>5, <1>6, <1>7 DEF GopOffTodos, GopOnTodos

\* Where soph_pipe_enable begins.
LEMMA EnablingSteps ==
  /\ Enabling("video") \in VideoTodos /\ Head(Enabling("video")) = "bgoff"
  /\ Enabling("gop") \in GopOffTodos /\ Head(Enabling("gop")) = "bgon"
  BY VideoTable, GopTable DEF Enabling, VideoTodos, GopOffTodos

\* A plane state is its address, its way to be scanned and its pitch.
LEMMA LayerFacts ==
  ASSUME NEW l \in AllLayers
  PROVE  /\ l.addr \in Addrs /\ l.how \in AllHows /\ l.pitch \in Pitches
         /\ l = [addr |-> l.addr, how |-> l.how, pitch |-> l.pitch]
<1>1. CASE l = NoLayer
  BY <1>1 DEF NoLayer, Addrs, AllHows, Pitches
<1>2. CASE \E f \in Fbs : l \in Layers(f)
  <2>1. PICK f \in Fbs : l \in Layers(f)
    BY <1>2
  <2>2. CASE f \in GopFbs
    BY <2>1, <2>2 DEF Layers, Addrs, AllHows, Pitches
  <2>3. CASE f \notin GopFbs
    <3>1. f \in VideoFbs
      BY <2>3, <2>1 DEF Fbs
    <3>2. PICK h \in Hows(f) : l = [addr |-> f, how |-> h, pitch |-> Pitch(f)]
      BY <2>1, <2>3 DEF Layers
    <3> QED
      BY <3>1, <3>2 DEF Addrs, AllHows, Pitches, Fbs
  <2> QED
    BY <2>2, <2>3
<1> QED
  BY <1>1, <1>2 DEF AllLayers

\* Where soph_pipe_disable is, of the commit that runs.
LEMMA DisablingNow ==
  ASSUME Disabling
  PROVE  /\ Todo # <<>>
         /\ Now \in {"vbloff", "gopoff", "bgon", "parkgeo", "parkaddr", "forceup"}
         /\ Now # "forceup" => Tail(Todo) \in DisableTodos(mode)
         /\ Now = "vbloff" => Head(Tail(Todo)) = "gopoff"
         /\ Now = "gopoff" => Head(Tail(Todo)) = "bgon"
         /\ Now = "bgon" => Head(Tail(Todo)) = "parkgeo"
         /\ Now = "parkgeo" => Head(Tail(Todo)) = "parkaddr"
         /\ Now = "parkaddr" => Head(Tail(Todo)) = "forceup"
         /\ Now = "forceup" => Tail(Todo) = AfterDisable(mode)
<1>1. PICK m : m = mode
  OBVIOUS
<1>2. PICK t \in DisableTodos(m) : t = Todo
  BY <1>1 DEF Disabling
<1> QED
  BY <1>1, <1>2, DisableSteps DEF Now, Todo

-----------------------------------------------------------------------------
(* The initial states, and the steps of the hardware and of the poller.    *)

\* The display is off and nothing is committed.
LEMMA InitDrm == Init => DrmInv
<1> SUFFICES ASSUME Init PROVE DrmInv
  OBVIOUS
<1> USE DEF Todo, Now
<1>1. TypeOK
  <2>1. <<>> \in Seq(Steps)
    BY EmptyTodo
  <2>2. /\ NoLayer \in AllLayers /\ Park \in Addrs /\ NoHow \in AllHows
        /\ ParkPitch \in Pitches
    BY DEF AllLayers, Addrs, AllHows, Pitches
  <2>3. shadow \in Banks /\ working \in Banks
    BY <2>2 DEF Init, Banks
  <2>4. known \in [how : AllHows, pitch : Pitches]
    BY <2>2 DEF Init
  <2>5. commit \in [todo : Seq(Steps), locked : BOOLEAN, lit : BOOLEAN]
    BY <2>1 DEF Init, Commit
  <2>6. vblank \in [on : BOOLEAN, timer : BOOLEAN]
    BY DEF Init
  <2>7. /\ miss \in 0 .. 2 * Oversample /\ gate \in 0 .. MaxDiv /\ div \in 1 .. MaxDiv
        /\ polls \in 0 .. Oversample
    BY DrmAssumption DEF Init
  <2> QED
    BY <2>2, <2>3, <2>4, <2>5, <2>6, <2>7 DEF Init, TypeOK
<1>2. MaskInv /\ LitInv /\ ModeInv /\ LateInv
  BY DrmAssumption DEF Init, MaskInv, LitInv, ModeInv, LateInv, Commit
<1>3. Resting
  BY DrmAssumption DEF Init, Resting, Shows, Same, KnownOk, VblanksOff, Calm, NoLayer,
     Commit
<1> QED
  BY <1>1, <1>2, <1>3 DEF DrmInv, PlaceInv

\* The hardware latches the shadow bank, unless it is masked, and sets the raw
\* status.
LEMMA FrameStartKeeps == DrmInv /\ FrameStart => DrmInv'
<1> SUFFICES ASSUME DrmInv, FrameStart PROVE DrmInv'
  OBVIOUS
<1> USE DEF Todo, Now
<1>1. /\ TypeOK /\ MaskInv /\ LitInv /\ ModeInv /\ LateInv
      /\ Oversample \in Nat
  BY DrmAssumption DEF DrmInv
<1>2. /\ commit'.todo = commit.todo
      /\ commit'.lit = At("hwdone")
      /\ commit' \in [todo : Seq(Steps), locked : BOOLEAN, lit : BOOLEAN]
  BY <1>1 DEF FrameStart, TypeOK, At
<1>3. TypeOK'
  BY <1>1, <1>2 DEF FrameStart, TypeOK
<1>4. MaskInv' /\ LitInv' /\ ModeInv' /\ LateInv'
  BY <1>1, <1>2 DEF FrameStart, MaskInv, LitInv, ModeInv, LateInv, At, TypeOK
<1>5. PlaceInv'
  <2>1. CASE Resting
    BY <2>1, <1>1, <1>2 DEF FrameStart, Resting, Shows, Same, KnownOk, VblanksOff, Calm,
       MaskInv, PlaceInv, TypeOK
  <2>2. CASE Flipping
    BY <2>2, <1>1, <1>2, FlipSteps DEF FrameStart, Flipping, Shows, Same, KnownOk, Calm,
       MaskInv, Windows, PlaceInv, TypeOK
  <2>3. CASE Disabling
    BY <2>3, <1>1, <1>2 DEF FrameStart, Disabling, Fades, Same, VblanksOff, Calm,
       PlaceInv, TypeOK
  <2>4. CASE Dark
    BY <2>4, <1>1, <1>2 DEF FrameStart, Dark, Quiet, Same, KnownOk, VblanksOff, Calm,
       PlaceInv, TypeOK
  <2>5. CASE LightingVideo
    BY <2>5, <1>1, <1>2, VideoSteps DEF FrameStart, LightingVideo, Awaits, Shows, Quiet,
       Same, KnownOk, VblanksOff, Calm, MaskInv, Windows, PlaceInv, TypeOK
  <2>6. CASE LightingGop
    BY <2>6, <1>1, <1>2, GopOnSteps, GopOffSteps DEF FrameStart, LightingGop, Awaits, Shows, Same, VblanksOff,
       Calm, MaskInv, Windows, PlaceInv, TypeOK
  <2> QED
    BY <2>1, <2>2, <2>3, <2>4, <2>5, <2>6 DEF DrmInv, PlaceInv
<1> QED
  BY <1>3, <1>4, <1>5 DEF DrmInv

\* soph_vbl_fn completes a flip after its frame start, or after the misses that
\* imply one.
LEMMA VblFnKeeps == DrmInv /\ VblFn => DrmInv'
<1> SUFFICES ASSUME DrmInv, VblFn PROVE DrmInv'
  OBVIOUS
<1> USE DEF Todo, Now
<1>1. /\ TypeOK /\ MaskInv /\ LitInv /\ ModeInv /\ LateInv
      /\ Oversample \in Nat /\ MaxDiv \in Nat
  BY DrmAssumption DEF DrmInv
<1>2. NoLayer \in AllLayers
  BY DEF AllLayers
<1>3. TypeOK'
  <2>1. miss' \in 0 .. 2 * Oversample /\ gate' \in 0 .. MaxDiv /\ polls' \in 0 .. Oversample
    BY <1>1 DEF VblFn, TypeOK
  <2>2. old' \in AllLayers /\ status' \in BOOLEAN /\ event' \in BOOLEAN
    BY <1>1, <1>2 DEF VblFn, TypeOK
  <2> QED
    BY <1>1, <2>1, <2>2 DEF VblFn, TypeOK
<1>4. MaskInv' /\ LitInv' /\ ModeInv' /\ LateInv'
  BY <1>1 DEF VblFn, MaskInv, LitInv, ModeInv, LateInv, TypeOK
\* While the generator runs a vblank is one that a frame start brought.
<1>5. steady /\ ~status => miss' = miss + 1 /\ event' = event
  BY <1>1 DEF VblFn, LateInv, TypeOK
<1>6. Calm /\ steady => Calm'
  BY <1>1 DEF VblFn, LateInv, Calm, TypeOK
<1>7. PlaceInv'
  <2>1. CASE Resting
    <3>1. ~event' /\ steady /\ event => Calm'
      BY <1>1, <1>5 DEF VblFn, Calm, TypeOK, LateInv
    <3> QED
    BY <2>1, <3>1, <1>1, <1>5, <1>6 DEF VblFn, Resting, Shows, Same, KnownOk, VblanksOff,
       PlaceInv, TypeOK
  <2>2. CASE Flipping
    BY <2>2, <1>1, <1>6 DEF VblFn, Flipping, Shows, Same, KnownOk, PlaceInv, TypeOK
  <2>3. CASE Disabling
    BY <2>3, <1>1, <1>6 DEF VblFn, Disabling, Fades, Same, VblanksOff, PlaceInv, TypeOK
  <2>4. CASE Dark
    BY <2>4 DEF VblFn, Dark, VblanksOff
  <2>5. CASE LightingVideo
    BY <2>5, <1>1, <1>6, VideoSteps DEF VblFn, LightingVideo, Awaits, Shows, Quiet,
       Same, KnownOk, VblanksOff, Calm, PlaceInv, TypeOK, LateInv
  <2>6. CASE LightingGop
    BY <2>6, <1>1, <1>6 DEF VblFn, LightingGop, Awaits, Shows, Same, VblanksOff,
       Calm, PlaceInv, TypeOK, LateInv
  <2> QED
    BY <2>1, <2>2, <2>3, <2>4, <2>5, <2>6 DEF DrmInv, PlaceInv
<1> QED
  BY <1>3, <1>4, <1>7 DEF DrmInv

\* The timing generator stops: nothing is claimed until the next modeset.
LEMMA TgenStopKeeps == DrmInv /\ TgenStop => DrmInv'
<1> SUFFICES ASSUME DrmInv, TgenStop PROVE DrmInv'
  OBVIOUS
<1> USE DEF Todo, Now
<1>1. TypeOK' /\ MaskInv' /\ LitInv' /\ ModeInv' /\ LateInv'
  BY DEF DrmInv, TgenStop, TypeOK, MaskInv, LitInv, ModeInv, LateInv
<1>2. PlaceInv'
  <2>1. CASE Resting
    BY <2>1 DEF TgenStop, Resting, Shows, Same, KnownOk, VblanksOff, PlaceInv
  <2>2. CASE Flipping
    BY <2>2 DEF TgenStop, Flipping, Shows, Same, KnownOk, PlaceInv
  <2>3. CASE Disabling
    BY <2>3 DEF TgenStop, Disabling, Fades, Same, VblanksOff, PlaceInv
  <2>4. CASE Dark
    BY <2>4 DEF TgenStop, Dark, Quiet, Same, KnownOk, VblanksOff, PlaceInv
  <2>5. CASE LightingVideo
    BY <2>5 DEF TgenStop, LightingVideo, Awaits, Same, KnownOk, VblanksOff, PlaceInv
  <2>6. CASE LightingGop
    BY <2>6 DEF TgenStop, LightingGop, Awaits, Same, VblanksOff, PlaceInv
  <2> QED
    BY <2>1, <2>2, <2>3, <2>4, <2>5, <2>6 DEF DrmInv, PlaceInv
<1> QED
  BY <1>1, <1>2 DEF DrmInv

\* A write of vbl_div.
LEMMA SetVblDivKeeps == ASSUME NEW n \in 0 .. MaxDiv PROVE DrmInv /\ SetVblDiv(n) => DrmInv'
<1> SUFFICES ASSUME DrmInv, SetVblDiv(n) PROVE DrmInv'
  OBVIOUS
<1>1. TypeOK'
  BY DrmAssumption DEF DrmInv, SetVblDiv, TypeOK
<1>2. MaskInv' /\ LitInv' /\ ModeInv' /\ LateInv'
  BY DEF DrmInv, SetVblDiv, MaskInv, LitInv, ModeInv, LateInv, Todo, Now
<1>3. PlaceInv'
  BY DEF DrmInv, SetVblDiv, PlaceInv, Resting, Flipping, Disabling, Dark, LightingVideo,
     LightingGop, Awaits, Shows, Fades, Quiet, Same, KnownOk, VblanksOff, Calm, Todo, Now
<1> QED
  BY <1>1, <1>2, <1>3 DEF DrmInv


\* The vblank timer is switched on by somebody who waits.
LEMMA EnableVblankKeeps == DrmInv /\ EnableVblank => DrmInv'
<1> SUFFICES ASSUME DrmInv, EnableVblank PROVE DrmInv'
  OBVIOUS
<1> USE DEF Todo, Now
<1>1. TypeOK /\ MaskInv /\ LitInv /\ ModeInv /\ LateInv
  BY DEF DrmInv
<1>2. /\ vblank' \in [on : BOOLEAN, timer : BOOLEAN]
      /\ vblank.on /\ vblank'.on /\ vblank'.timer
  BY <1>1 DEF EnableVblank, TypeOK
<1>3. TypeOK' /\ MaskInv' /\ LitInv' /\ ModeInv' /\ LateInv'
  BY <1>1, <1>2 DEF EnableVblank, TypeOK, MaskInv, LitInv, ModeInv, LateInv
<1>4. PlaceInv'
  <2>1. CASE Resting
    BY <2>1, <1>2 DEF EnableVblank, Resting, Shows, Same, KnownOk, VblanksOff, Calm, PlaceInv
  <2>2. CASE Flipping
    BY <2>2, <1>2 DEF EnableVblank, Flipping, Shows, Same, KnownOk, Calm, PlaceInv
  <2>3. CASE Disabling
    BY <2>3, <1>2 DEF EnableVblank, Disabling, Fades, Same, VblanksOff, Calm, PlaceInv
  <2>4. CASE Dark
    BY <2>4, <1>2 DEF Dark, VblanksOff
  <2>5. CASE LightingVideo
    BY <2>5, <1>2 DEF EnableVblank, LightingVideo, Awaits, Shows, Quiet, Same, KnownOk,
       VblanksOff, Calm, PlaceInv
  <2>6. CASE LightingGop
    BY <2>6, <1>2 DEF EnableVblank, LightingGop, Awaits, Shows, Same, VblanksOff, Calm,
       PlaceInv
  <2> QED
    BY <2>1, <2>2, <2>3, <2>4, <2>5, <2>6 DEF DrmInv, PlaceInv
<1> QED
  BY <1>3, <1>4 DEF DrmInv

\* At rest nothing is still to come, and elsewhere something is.
LEMMA AtRest == DrmInv /\ commit.todo = <<>> => Resting
<1> SUFFICES ASSUME DrmInv, commit.todo = <<>> PROVE Resting
  OBVIOUS
<1> USE DEF Todo
<1>1. ~Flipping
  BY FlipSteps DEF Flipping
<1>2. ~Disabling
  BY DisableSteps DEF Disabling
<1>3. ~Dark
  BY DarkSteps DEF Dark, DrmInv, TypeOK
<1>4. ~LightingVideo
  BY VideoSteps DEF LightingVideo
<1>5. ~LightingGop
  BY GopOnSteps, GopOffSteps DEF LightingGop
<1> QED
  BY <1>1, <1>2, <1>3, <1>4, <1>5 DEF DrmInv, PlaceInv

\* And off again.
LEMMA DisableVblankKeeps == DrmInv /\ DisableVblank => DrmInv'
<1> SUFFICES ASSUME DrmInv, DisableVblank PROVE DrmInv'
  OBVIOUS
<1> USE DEF Todo, Now
<1>1. /\ TypeOK /\ MaskInv /\ LitInv /\ ModeInv /\ LateInv /\ Oversample \in Nat
      /\ Resting
  BY DrmAssumption, AtRest DEF DrmInv, DisableVblank
<1>2. /\ vblank' \in [on : BOOLEAN, timer : BOOLEAN]
      /\ vblank'.on = vblank.on /\ ~vblank'.timer
  BY <1>1 DEF DisableVblank, TypeOK
<1>3. TypeOK' /\ MaskInv' /\ LitInv' /\ ModeInv'
  BY <1>1, <1>2 DEF DisableVblank, TypeOK, MaskInv, LitInv, ModeInv
<1>4. LateInv'
  BY <1>1, <1>2 DEF DisableVblank, LateInv, Resting, Calm, TypeOK
<1>5. Resting'
  BY <1>1, <1>2 DEF DisableVblank, Resting, Shows, Same, KnownOk, VblanksOff, Calm
<1> QED
  BY <1>3, <1>4, <1>5 DEF DrmInv, PlaceInv

-----------------------------------------------------------------------------
(* A commit begins.                                                        *)

\* A plane state of a framebuffer, and the mode it is shown in.
LEMMA PathLayers ==
  ASSUME NEW f \in Fbs, NEW l \in Layers(f)
  PROVE  /\ l \in AllLayers /\ Path(f) \in {"video", "gop"}
         /\ Path(f) = "video" => l.how # NoHow
<1>1. l \in AllLayers /\ Path(f) \in {"video", "gop"}
  BY DEF AllLayers, Path
<1>2. ASSUME Path(f) = "video" PROVE l.how # NoHow
  <2>1. f \in VideoFbs /\ f \notin GopFbs
    BY <1>2, DrmAssumption DEF Path
  <2>2. PICK h \in Hows(f) : l = [addr |-> f, how |-> h, pitch |-> Pitch(f)]
    BY <2>1 DEF Layers
  <2> QED
    BY <2>1, <2>2, DrmAssumption
<1> QED
  BY <1>1, <1>2

\* What every commit begins with.
LEMMA Begins ==
  ASSUME DrmInv, NEW l \in AllLayers, NEW m \in {"off", "video", "gop"},
         NEW todo \in Seq(Steps), todo # <<>>, Begin(l, m, todo),
         Head(todo) \notin Windows, m = "video" => l.how # NoHow,
         m = "off" => l = NoLayer
  PROVE  /\ TypeOK' /\ MaskInv' /\ LitInv' /\ ModeInv' /\ LateInv'
         /\ Resting /\ ~event /\ ~event'
         /\ commit'.todo = todo /\ ~commit'.lit
         /\ old' = front /\ front' = l /\ mode' = m
         /\ UNCHANGED <<shadow, working, status, steady, known, vblank, miss, polls>>
<1> USE DEF Todo, Now
<1>1. TypeOK /\ MaskInv /\ LitInv /\ ModeInv /\ LateInv /\ Resting
  BY AtRest DEF DrmInv, Begin
<1>2. /\ commit'.todo = todo /\ commit'.lit = FALSE
      /\ commit' \in [todo : Seq(Steps), locked : BOOLEAN, lit : BOOLEAN]
  BY DEF Begin, Commit
<1>3. TypeOK'
  BY <1>1, <1>2 DEF Begin, TypeOK
<1>4. MaskInv' /\ LitInv' /\ ModeInv' /\ LateInv'
  BY <1>1, <1>2 DEF Begin, MaskInv, LitInv, ModeInv, LateInv
<1> QED
  BY <1>1, <1>2, <1>3, <1>4 DEF Begin

\* A page flip is committed: the old buffer is kept until it is done.
LEMMA FlipKeeps == ASSUME NEW f \in Fbs PROVE DrmInv /\ Flip(f) => DrmInv'
<1> SUFFICES ASSUME DrmInv, Flip(f) PROVE DrmInv'
  OBVIOUS
<1> USE DEF Todo, Now
<1>1. PICK l \in Layers(f) : Begin(l, mode, <<"stage", "arm">>)
  BY DEF Flip
<1>2. /\ l \in AllLayers /\ mode \in {"video", "gop"}
      /\ mode = "video" => l.how # NoHow
  BY PathLayers DEF Flip
<1>3. PICK todo \in Seq(Steps) :
        /\ todo = StageOf(<<>>) /\ todo # <<>> /\ Head(todo) = "stage"
        /\ Begin(l, mode, todo)
  <2>1. StageOf(<<>>) \in Seq(Steps) /\ StageOf(<<>>) # <<>> /\ Head(StageOf(<<>>)) = "stage"
    BY UpdateTable, EmptyTodo
  <2>2. <<"stage", "arm">> = StageOf(<<>>)
    BY FlipList
  <2>3. Begin(l, mode, StageOf(<<>>))
    BY <1>1, <2>2
  <2> QED
    BY <2>1, <2>3
<1>4. /\ TypeOK' /\ MaskInv' /\ LitInv' /\ ModeInv' /\ LateInv'
      /\ Resting /\ ~event /\ ~event'
      /\ commit'.todo = todo /\ ~commit'.lit
      /\ old' = front /\ front' = l /\ mode' = mode
      /\ UNCHANGED <<shadow, working, status, steady, known, vblank, miss, polls>>
  BY <1>2, <1>3, Begins DEF Windows
<1>5. Flipping'
  BY <1>2, <1>3, <1>4 DEF Resting, Flipping, FlipTodos, Shows, Same, KnownOk, Calm
<1> QED
  BY <1>4, <1>5 DEF DrmInv, PlaceInv

\* Out of a lit mode a modeset goes through soph_pipe_disable first.
LEMMA DisablingBegins ==
  ASSUME DrmInv, mode # "off", NEW l \in AllLayers, NEW m \in {"off", "video", "gop"},
         Begin(l, m, D6(m)), m = "video" => l.how # NoHow, m = "off" => l = NoLayer
  PROVE  DrmInv'
<1> USE DEF Todo, Now
<1>1. PICK todo \in Seq(Steps) :
        /\ todo = D6(m) /\ todo # <<>> /\ Head(todo) = "vbloff"
        /\ Begin(l, m, todo)
  BY DisableTable
<1>2. /\ TypeOK' /\ MaskInv' /\ LitInv' /\ ModeInv' /\ LateInv'
      /\ Resting /\ ~event /\ ~event'
      /\ commit'.todo = todo /\ ~commit'.lit
      /\ old' = front /\ front' = l /\ mode' = m
      /\ UNCHANGED <<shadow, working, status, steady, known, vblank, miss, polls>>
  BY <1>1, Begins DEF Windows
<1>3. Disabling'
  <2>1. commit'.todo \in DisableTodos(mode')
    BY <1>1, <1>2 DEF DisableTodos
  <2> QED
    BY <2>1, <1>1, <1>2 DEF Resting, Disabling, Shows, Fades, Same, Calm
<1> QED
  BY <1>2, <1>3 DEF DrmInv, PlaceInv

\* A modeset is committed.
LEMMA ModesetKeeps == ASSUME NEW f \in Fbs PROVE DrmInv /\ Modeset(f) => DrmInv'
<1> SUFFICES ASSUME DrmInv, Modeset(f) PROVE DrmInv'
  OBVIOUS
<1> USE DEF Todo, Now
<1>1. PICK l \in Layers(f) :
        Begin(l, Path(f), (IF mode = "off" THEN <<>> ELSE PipeDisable)
                            \o <<"stage", "arm">> \o PipeEnable(Path(f)))
  BY DEF Modeset
<1>2. PICK m \in {"video", "gop"} : m = Path(f)
  BY PathLayers, <1>1
<1>3. l \in AllLayers /\ (m = "video" => l.how # NoHow)
  BY <1>1, <1>2, PathLayers
<1>4. CASE mode # "off"
  <2>1. Begin(l, m, D6(m))
    BY <1>1, <1>2, <1>4, CommitLists
  <2> QED
    BY <1>3, <1>4, <2>1, DisablingBegins
<1>5. CASE mode = "off"
  <2>1. Begin(l, m, StageOf(Enabling(m)))
    BY <1>1, <1>2, <1>5, CommitLists
  <2>2. PICK todo \in Seq(Steps) :
          /\ todo = StageOf(Enabling(m)) /\ todo # <<>> /\ Head(todo) = "stage"
          /\ Begin(l, m, todo)
    BY <2>1, EnablingTodo, UpdateTable
  <2>3. /\ TypeOK' /\ MaskInv' /\ LitInv' /\ ModeInv' /\ LateInv'
        /\ Resting /\ ~event /\ ~event'
        /\ commit'.todo = todo /\ ~commit'.lit
        /\ old' = front /\ front' = l /\ mode' = m
        /\ UNCHANGED <<shadow, working, status, steady, known, vblank, miss, polls>>
    BY <1>3, <2>2, Begins DEF Windows
  <2>4. front = NoLayer
    BY <1>5 DEF DrmInv, ModeInv
  <2>5. commit'.todo \in DarkTodos(mode')
    BY <2>2, <2>3 DEF DarkTodos
  <2>6. Dark'
    BY <1>5, <2>2, <2>3, <2>4, <2>5 DEF Resting, Dark, Shows, Quiet, Same, VblanksOff, Calm
  <2> QED
    BY <2>3, <2>6 DEF DrmInv, PlaceInv
<1> QED
  BY <1>4, <1>5

\* The pipe is switched off.
LEMMA TurnOffKeeps == DrmInv /\ TurnOff => DrmInv'
<1> SUFFICES ASSUME DrmInv, TurnOff PROVE DrmInv'
  OBVIOUS
<1>1. Begin(NoLayer, "off", D6("off")) /\ mode # "off" /\ NoLayer \in AllLayers
  BY CommitLists DEF TurnOff, AllLayers
<1> QED
  BY <1>1, DisablingBegins

-----------------------------------------------------------------------------
(* The steps of a commit.                                                  *)

\* One write less is still to come.
LEMMA AheadFacts ==
  ASSUME TypeOK, commit.todo # <<>>, Ahead
  PROVE  /\ commit'.todo = Tail(commit.todo) /\ commit'.lit = commit.lit
         /\ commit' \in [todo : Seq(Steps), locked : BOOLEAN, lit : BOOLEAN]
<1>1. commit \in [todo : Seq(Steps), locked : BOOLEAN, lit : BOOLEAN]
  BY DEF TypeOK
<1>2. Tail(commit.todo) \in Seq(Steps)
  BY <1>1
<1> QED
  BY <1>1, <1>2 DEF Ahead

\* A masked window opens.
LEMMA OpenWindowKeeps == DrmInv /\ OpenWindow => DrmInv'
<1> SUFFICES ASSUME DrmInv, OpenWindow PROVE DrmInv'
  OBVIOUS
<1>1. TypeOK' /\ MaskInv' /\ LitInv' /\ ModeInv' /\ LateInv'
  BY DEF DrmInv, OpenWindow, NoVblank, TypeOK, MaskInv, LitInv, ModeInv, LateInv, Todo, Now,
     Windows, At
<1>2. PlaceInv'
  BY DEF DrmInv, OpenWindow, NoVblank, PlaceInv, Resting, Flipping, Disabling, Dark,
     LightingVideo, LightingGop, Awaits, Shows, Fades, Quiet, Same, KnownOk, VblanksOff,
     Calm, Todo, Now
<1> QED
  BY <1>1, <1>2 DEF DrmInv

\* What a closing window leaves in the shadow bank.
LEMMA WindowWrites ==
  ASSUME TypeOK, CloseWindow
  PROVE  /\ commit.todo # <<>> /\ Head(commit.todo) \in Windows
         /\ shadow' \in Banks
         /\ shadow'.bg = shadow.bg /\ shadow'.gop = shadow.gop
         /\ shadow'.gopaddr = shadow.gopaddr
         /\ shadow'.addr = IF Head(commit.todo) = "parkaddr" THEN Park
                           ELSE IF Head(commit.todo) \in {"addr", "layer"} THEN front.addr
                           ELSE shadow.addr
         /\ shadow'.how = IF Head(commit.todo) \in {"how", "layer"} THEN front.how
                          ELSE shadow.how
         /\ shadow'.pitch = IF Head(commit.todo) = "parkgeo" THEN ParkPitch
                            ELSE IF Head(commit.todo) \in {"geo", "layer"} THEN front.pitch
                            ELSE shadow.pitch
<1>1. /\ front.addr \in Addrs /\ front.how \in AllHows /\ front.pitch \in Pitches
      /\ Park \in Addrs /\ ParkPitch \in Pitches /\ shadow \in Banks
  BY LayerFacts DEF TypeOK, Addrs, Pitches
<1>2. CASE At("parkgeo") /\ shadow' = [shadow EXCEPT !.pitch = ParkPitch]
  BY <1>1, <1>2 DEF At, Banks, Windows
<1>3. CASE At("parkaddr") /\ shadow' = [shadow EXCEPT !.addr = Park]
  BY <1>1, <1>3 DEF At, Banks, Windows
<1>4. CASE At("geo") /\ shadow' = [shadow EXCEPT !.pitch = front.pitch]
  BY <1>1, <1>4 DEF At, Banks, Windows
<1>5. CASE At("addr") /\ shadow' = [shadow EXCEPT !.addr = front.addr]
  BY <1>1, <1>5 DEF At, Banks, Windows
<1>6. CASE At("how") /\ shadow' = [shadow EXCEPT !.how = front.how]
  BY <1>1, <1>6 DEF At, Banks, Windows
<1>7. CASE At("layer") /\ shadow' = [shadow EXCEPT !.addr = front.addr, !.how = front.how,
                                                   !.pitch = front.pitch]
  BY <1>1, <1>7 DEF At, Banks, Windows
<1> QED
  BY <1>2, <1>3, <1>4, <1>5, <1>6, <1>7 DEF CloseWindow

\* What layer_fmt, layer_csc and the pitches say after a window.
LEMMA WindowKnows ==
  ASSUME TypeOK, CloseWindow
  PROVE  /\ known' \in [how : AllHows, pitch : Pitches]
         /\ Head(commit.todo) = "parkaddr" => known'.how = NoHow
         /\ Head(commit.todo) = "layer" =>
              known'.how = front.how /\ known'.pitch = front.pitch
         /\ Head(commit.todo) \notin {"parkaddr", "layer"} => known' = known
<1>1. /\ front.how \in AllHows /\ front.pitch \in Pitches /\ NoHow \in AllHows
      /\ known \in [how : AllHows, pitch : Pitches] /\ commit.todo # <<>>
  BY LayerFacts, WindowWrites DEF TypeOK, AllHows
<1>2. CASE At("parkaddr")
  BY <1>1, <1>2 DEF CloseWindow, Parked, At
<1>3. CASE At("layer")
  BY <1>1, <1>3 DEF CloseWindow, Loaded, At
<1>4. CASE ~At("parkaddr") /\ ~At("layer")
  BY <1>1, <1>4 DEF CloseWindow, At
<1> QED
  BY <1>2, <1>3, <1>4

\* A masked window closes: the shadow bank has all of its writes at once.
LEMMA CloseWindowKeeps == DrmInv /\ CloseWindow => DrmInv'
<1> SUFFICES ASSUME DrmInv, CloseWindow PROVE DrmInv'
  OBVIOUS
<1> USE DEF Todo, Now
<1>1. /\ TypeOK /\ MaskInv /\ LitInv /\ ModeInv /\ LateInv
      /\ commit.todo # <<>> /\ Now \in Windows
  BY WindowWrites DEF DrmInv
<1>2. /\ commit'.todo = Tail(commit.todo) /\ commit'.lit = FALSE
      /\ commit' \in [todo : Seq(Steps), locked : BOOLEAN, lit : BOOLEAN]
  BY <1>1, AheadFacts DEF CloseWindow, LitInv, Windows, TypeOK
<1>3. /\ UNCHANGED <<working, status, tgen, steady, mode, front, old, event, vblank, miss,
                     gate, div, polls>>
      /\ mask' = FALSE
  BY DEF CloseWindow, NoVblank
<1>4. TypeOK' /\ MaskInv' /\ LitInv' /\ ModeInv' /\ LateInv'
  BY <1>1, <1>2, <1>3, WindowWrites, WindowKnows DEF TypeOK, MaskInv, LitInv, ModeInv, LateInv
<1>5. PlaceInv'
  <2>1. CASE Resting
    BY <2>1, <1>1 DEF Resting
  <2>2. CASE Flipping
    <3>1. /\ commit'.todo \in FlipTodos
          /\ \/ Now = "geo" /\ Now' = "addr"
             \/ Now \in {"addr", "layer"} /\ Now' = "clear"
      BY <2>2, <1>1, <1>2, FlipSteps DEF Flipping, Windows
    <3>2. CASE Now = "geo"
      BY <2>2, <3>1, <3>2, <1>1, <1>3, WindowWrites, WindowKnows DEF Flipping, Shows, Same,
         KnownOk, Calm, ModeInv, PlaceInv
    <3>3. CASE Now = "addr"
      BY <2>2, <3>1, <3>3, <1>1, <1>3, WindowWrites, WindowKnows DEF Flipping, Shows, Same,
         KnownOk, Calm, ModeInv, PlaceInv
    <3>4. CASE Now = "layer"
      BY <2>2, <3>1, <3>4, <1>1, <1>3, WindowWrites, WindowKnows DEF Flipping, Shows, Same,
         KnownOk, Calm, ModeInv, PlaceInv
    <3> QED
      BY <3>1, <3>2, <3>3, <3>4
  <2>3. CASE Disabling
    <3>1. /\ commit'.todo \in DisableTodos(mode)
          /\ \/ Now = "parkgeo" /\ Now' = "parkaddr"
             \/ Now = "parkaddr" /\ Now' = "forceup"
      BY <2>3, <1>1, <1>2, DisablingNow DEF Windows
    <3> QED
      BY <2>3, <3>1, <1>1, <1>3, WindowWrites, WindowKnows DEF Disabling, Fades, Same,
         VblanksOff, Calm, PlaceInv
  <2>4. CASE Dark
    <3>1. mode \in {"off", "video", "gop"}
      BY <1>1 DEF TypeOK
    <3>2. /\ commit'.todo \in DarkTodos(mode) /\ mode = "video"
          /\ Now = "layer" /\ Now' = "clear"
      BY <2>4, <3>1, <1>1, <1>2, DarkSteps DEF Dark, Windows
    <3> QED
      BY <2>4, <3>2, <1>1, <1>3, WindowWrites, WindowKnows DEF Dark, Quiet, Same, KnownOk,
         VblanksOff, Calm, PlaceInv
  <2>5. CASE LightingVideo
    <3>1. /\ commit'.todo \in VideoTodos /\ Now \in {"geo", "addr", "how", "layer"}
          /\ Now' \notin {"bgoff", "vblon", "hwdone"}
      BY <2>5, <1>1, <1>2, VideoSteps DEF LightingVideo, Windows
    <3> QED
      BY <2>5, <3>1, <1>1, <1>2, <1>3, WindowWrites, WindowKnows DEF LightingVideo, Awaits,
         Quiet, Same, KnownOk, VblanksOff, PlaceInv
  <2>6. CASE LightingGop
    <3>1. /\ Todo \in GopOffTodos /\ ~shadow.gop
          /\ commit'.todo \in GopOffTodos /\ Now \in {"parkgeo", "parkaddr"}
          /\ Now' \notin {"bgon", "vblon", "hwdone"}
      BY <2>6, <1>1, <1>2, GopOnSteps, GopOffSteps DEF LightingGop, Windows
    <3> QED
      BY <2>6, <3>1, <1>1, <1>2, <1>3, WindowWrites, WindowKnows DEF LightingGop, Awaits,
         Same, VblanksOff, PlaceInv
  <2> QED
    BY <2>1, <2>2, <2>3, <2>4, <2>5, <2>6 DEF DrmInv, PlaceInv
<1> QED
  BY <1>4, <1>5 DEF DrmInv

\* The unmasked writes.
LEMMA RegisterWrites ==
  ASSUME TypeOK, WriteRegister
  PROVE  /\ commit.todo # <<>>
         /\ Head(commit.todo) \in {"gopoff", "gopon", "bgon", "bgoff", "gop"}
         /\ shadow' \in Banks
         /\ shadow'.addr = shadow.addr /\ shadow'.how = shadow.how
         /\ shadow'.pitch = shadow.pitch
         /\ Head(commit.todo) = "gopoff" => ~shadow'.gop
         /\ Head(commit.todo) = "gopon" => shadow'.gop
         /\ Head(commit.todo) \notin {"gopoff", "gopon"} => shadow'.gop = shadow.gop
         /\ Head(commit.todo) = "bgon" => shadow'.bg
         /\ Head(commit.todo) = "bgoff" => ~shadow'.bg
         /\ Head(commit.todo) \notin {"bgon", "bgoff"} => shadow'.bg = shadow.bg
         /\ shadow'.gopaddr = IF Head(commit.todo) = "gop" THEN front.addr
                              ELSE shadow.gopaddr
<1>1. front.addr \in Addrs /\ shadow \in Banks
  BY LayerFacts DEF TypeOK
<1>2. CASE At("gopoff") /\ shadow' = [shadow EXCEPT !.gop = FALSE]
  BY <1>1, <1>2 DEF At, Banks
<1>3. CASE At("gopon") /\ shadow' = [shadow EXCEPT !.gop = TRUE]
  BY <1>1, <1>3 DEF At, Banks
<1>4. CASE At("bgon") /\ shadow' = [shadow EXCEPT !.bg = TRUE]
  BY <1>1, <1>4 DEF At, Banks
<1>5. CASE At("bgoff") /\ shadow' = [shadow EXCEPT !.bg = FALSE]
  BY <1>1, <1>5 DEF At, Banks
<1>6. CASE At("gop") /\ shadow' = [shadow EXCEPT !.gopaddr = front.addr]
  BY <1>1, <1>6 DEF At, Banks
<1> QED
  BY <1>2, <1>3, <1>4, <1>5, <1>6 DEF WriteRegister

\* A write outside the windows.
LEMMA WriteRegisterKeeps == DrmInv /\ WriteRegister => DrmInv'
<1> SUFFICES ASSUME DrmInv, WriteRegister PROVE DrmInv'
  OBVIOUS
<1> USE DEF Todo, Now
<1>1. /\ TypeOK /\ MaskInv /\ LitInv /\ ModeInv /\ LateInv
      /\ commit.todo # <<>> /\ Now \in {"gopoff", "gopon", "bgon", "bgoff", "gop"}
  BY RegisterWrites DEF DrmInv
<1>2. /\ commit'.todo = Tail(commit.todo) /\ commit'.lit = FALSE
      /\ commit' \in [todo : Seq(Steps), locked : BOOLEAN, lit : BOOLEAN]
  BY <1>1, AheadFacts DEF WriteRegister, LitInv, TypeOK
<1>3. /\ UNCHANGED <<working, mask, status, tgen, known, steady, mode, front, old, event,
                     vblank, miss, gate, div, polls>>
      /\ mask = FALSE
  BY <1>1 DEF WriteRegister, NoVblank, MaskInv, Windows, TypeOK
<1>4. TypeOK' /\ MaskInv' /\ LitInv' /\ ModeInv' /\ LateInv'
  BY <1>1, <1>2, <1>3, RegisterWrites DEF TypeOK, MaskInv, LitInv, ModeInv, LateInv
<1>5. PlaceInv'
  <2>1. CASE Resting
    BY <2>1, <1>1 DEF Resting
  <2>2. CASE Flipping
    <3>1. commit'.todo \in FlipTodos /\ Now = "gop" /\ Now' = "clear" /\ mode = "gop"
      BY <2>2, <1>1, <1>2, FlipSteps DEF Flipping
    <3> QED
      BY <2>2, <3>1, <1>1, <1>3, RegisterWrites DEF Flipping, Shows, KnownOk, Calm, PlaceInv
  <2>3. CASE Disabling
    <3>1. /\ commit'.todo \in DisableTodos(mode)
          /\ \/ Now = "gopoff" /\ Now' = "bgon"
             \/ Now = "bgon" /\ Now' = "parkgeo"
      BY <2>3, <1>1, <1>2, DisablingNow
    <3> QED
      BY <2>3, <3>1, <1>1, <1>3, RegisterWrites DEF Disabling, Fades, Same, VblanksOff, Calm,
         PlaceInv
  <2>4. CASE Dark
    <3>1. mode \in {"off", "video", "gop"}
      BY <1>1 DEF TypeOK
    <3>2. /\ commit'.todo \in DarkTodos(mode) /\ mode = "gop"
          /\ Now = "gop" /\ Now' = "clear"
      BY <2>4, <3>1, <1>1, <1>2, DarkSteps DEF Dark
    <3> QED
      BY <2>4, <3>2, <1>1, <1>3, RegisterWrites DEF Dark, Quiet, Same, VblanksOff, Calm,
         PlaceInv
  <2>5. CASE LightingVideo
    <3>1. /\ commit'.todo \in VideoTodos /\ Now \in {"bgoff", "gopoff"}
          /\ Now' \notin {"bgoff", "vblon", "hwdone"}
      BY <2>5, <1>1, <1>2, VideoSteps DEF LightingVideo
    <3> QED
      BY <2>5, <3>1, <1>1, <1>2, <1>3, RegisterWrites DEF LightingVideo, Awaits, Quiet, Same,
         KnownOk, VblanksOff, PlaceInv
  <2>6. CASE LightingGop
    <3>1. /\ Todo \in GopOffTodos /\ ~shadow.gop /\ Now # "bgoff"
          /\ Now' \notin {"bgon", "vblon", "hwdone"}
          /\ \/ Now = "gopon" /\ commit'.todo \in GopOnTodos
             \/ Now # "gopon" /\ commit'.todo \in GopOffTodos
      <4>1. /\ Todo \in GopOnTodos \/ Todo \in GopOffTodos
            /\ (Todo \in GopOnTodos /\ shadow.gop) \/ (Todo \in GopOffTodos /\ ~shadow.gop)
        BY <2>6 DEF LightingGop
      <4>2. PICK t : t = Todo
        OBVIOUS
      <4>3. t \notin GopOnTodos
        BY <4>2, <1>1, GopOnSteps
      <4>4. t \in GopOffTodos
        BY <4>1, <4>2, <4>3
      <4>5. /\ Head(t) \in {"bgon", "parkgeo", "parkaddr", "gop", "gopoff", "forceup", "gopon"}
            /\ Head(t) # "gopon" =>
                 /\ Tail(t) \in GopOffTodos
                 /\ Head(Tail(t)) \in {"parkgeo", "parkaddr", "gop", "gopoff", "forceup", "gopon"}
            /\ Head(t) = "gopon" => Tail(t) \in GopOnTodos /\ Head(Tail(t)) = "tgen"
        BY <4>4, GopOffSteps
      <4>6. Now = Head(t) /\ commit'.todo = Tail(t) /\ Now' = Head(Tail(t))
        BY <4>2, <1>2
      <4>7. /\ Now # "bgoff" /\ Now' \notin {"bgon", "vblon", "hwdone"}
            /\ Now = "gopon" => commit'.todo \in GopOnTodos
            /\ Now # "gopon" => commit'.todo \in GopOffTodos
        BY <4>5, <4>6, Zenon
      <4> QED
        BY <4>1, <4>2, <4>3, <4>4, <4>7, Zenon
    <3> QED
      BY <2>6, <3>1, <1>1, <1>2, <1>3, RegisterWrites DEF LightingGop, Awaits, Same,
         VblanksOff, PlaceInv
  <2> QED
    BY <2>1, <2>2, <2>3, <2>4, <2>5, <2>6 DEF DrmInv, PlaceInv
<1> QED
  BY <1>4, <1>5 DEF DrmInv

\* The forced update copies the shadow bank.
LEMMA ForceUpKeeps == DrmInv /\ ForceUp => DrmInv'
<1> SUFFICES ASSUME DrmInv, ForceUp PROVE DrmInv'
  OBVIOUS
<1> USE DEF Todo, Now
<1>1. /\ TypeOK /\ MaskInv /\ LitInv /\ ModeInv /\ LateInv
      /\ commit.todo # <<>> /\ Now = "forceup"
  BY DEF DrmInv, ForceUp, At
<1>2. /\ commit'.todo = Tail(commit.todo) /\ commit'.lit = FALSE
      /\ commit' \in [todo : Seq(Steps), locked : BOOLEAN, lit : BOOLEAN]
  BY <1>1, AheadFacts DEF ForceUp, LitInv, TypeOK
<1>3. /\ UNCHANGED <<shadow, mask, status, tgen, known, steady, mode, front, old, event,
                     vblank, miss, gate, div, polls>>
      /\ working' = shadow /\ mask = FALSE
  BY <1>1 DEF ForceUp, NoVblank, MaskInv, Windows, TypeOK
<1>4. TypeOK' /\ MaskInv' /\ LitInv' /\ ModeInv' /\ LateInv'
  BY <1>1, <1>2, <1>3 DEF TypeOK, MaskInv, LitInv, ModeInv, LateInv
<1>5. PlaceInv'
  <2>1. CASE Resting
    BY <2>1, <1>1 DEF Resting
  <2>2. CASE Flipping
    BY <2>2, <1>1, FlipSteps DEF Flipping
  <2>3. CASE Disabling
    <3>1. mode \in {"off", "video", "gop"}
      BY <1>1 DEF TypeOK
    <3>2. commit'.todo \in DarkTodos(mode) /\ Now' = IF mode = "off" THEN "arm" ELSE "stage"
      BY <2>3, <3>1, <1>1, <1>2, DisablingNow, AfterDisableSteps
    <3> QED
      BY <2>3, <3>1, <3>2, <1>1, <1>3 DEF Disabling, Dark, Quiet, VblanksOff, Calm, PlaceInv
  <2>4. CASE Dark
    <3>1. mode \in {"off", "video", "gop"}
      BY <1>1 DEF TypeOK
    <3> QED
      BY <2>4, <3>1, <1>1, DarkSteps DEF Dark
  <2>5. CASE LightingVideo
    <3>1. commit'.todo \in VideoTodos /\ Now' = "vblon"
      BY <2>5, <1>1, <1>2, VideoSteps DEF LightingVideo
    <3> QED
      BY <2>5, <3>1, <1>1, <1>2, <1>3 DEF LightingVideo, Awaits, Shows, Same, KnownOk,
         VblanksOff, PlaceInv
  <2>6. CASE LightingGop
    <3>1. \/ /\ Todo \in GopOnTodos /\ shadow.gop
             /\ commit'.todo \in GopOnTodos /\ Now' = "vblon"
          \/ /\ Todo \in GopOffTodos /\ ~shadow.gop
             /\ commit'.todo \in GopOffTodos /\ Now' \notin {"bgon", "vblon", "hwdone"}
      <4>1. CASE Todo \in GopOnTodos /\ shadow.gop
        BY <4>1, <1>1, <1>2, GopOnSteps
      <4>2. CASE Todo \in GopOffTodos /\ ~shadow.gop
        BY <4>2, <1>1, <1>2, GopOffSteps
      <4> QED
        BY <2>6, <4>1, <4>2 DEF LightingGop
    <3> QED
      BY <2>6, <3>1, <1>1, <1>2, <1>3 DEF LightingGop, Awaits, Shows, Same, VblanksOff,
         PlaceInv
  <2> QED
    BY <2>1, <2>2, <2>3, <2>4, <2>5, <2>6 DEF DrmInv, PlaceInv
<1> QED
  BY <1>4, <1>5 DEF DrmInv

\* The timing generator starts with the layers still off or right.
LEMMA TgenEnableKeeps == DrmInv /\ TgenEnable => DrmInv'
<1> SUFFICES ASSUME DrmInv, TgenEnable PROVE DrmInv'
  OBVIOUS
<1> USE DEF Todo, Now
<1>1. /\ TypeOK /\ MaskInv /\ LitInv /\ ModeInv /\ LateInv
      /\ commit.todo # <<>> /\ Now = "tgen"
  BY DEF DrmInv, TgenEnable, At
<1>2. /\ commit'.todo = Tail(commit.todo) /\ commit'.lit = FALSE
      /\ commit' \in [todo : Seq(Steps), locked : BOOLEAN, lit : BOOLEAN]
  BY <1>1, AheadFacts DEF TgenEnable, LitInv, TypeOK
<1>3. /\ UNCHANGED <<shadow, working, mask, status, known, steady, mode, front, old, event,
                     vblank, miss, gate, div, polls>>
      /\ tgen' = TRUE /\ mask = FALSE
  BY <1>1 DEF TgenEnable, NoVblank, MaskInv, Windows, TypeOK
<1>4. TypeOK' /\ MaskInv' /\ LitInv' /\ ModeInv' /\ LateInv'
  BY <1>1, <1>2, <1>3 DEF TypeOK, MaskInv, LitInv, ModeInv, LateInv
<1>5. PlaceInv'
  <2>1. CASE Resting
    BY <2>1, <1>1 DEF Resting
  <2>2. CASE Flipping
    BY <2>2, <1>1, FlipSteps DEF Flipping
  <2>3. CASE Disabling
    BY <2>3, <1>1, DisablingNow
  <2>4. CASE Dark
    <3>1. mode \in {"off", "video", "gop"}
      BY <1>1 DEF TypeOK
    <3> QED
      BY <2>4, <3>1, <1>1, DarkSteps DEF Dark
  <2>5. CASE LightingVideo
    <3>1. commit'.todo \in VideoTodos /\ Now' \notin {"bgoff", "vblon", "hwdone"}
      BY <2>5, <1>1, <1>2, VideoSteps DEF LightingVideo
    <3> QED
      BY <2>5, <3>1, <1>1, <1>2, <1>3 DEF LightingVideo, Awaits, Quiet, Same, KnownOk,
         VblanksOff, PlaceInv
  <2>6. CASE LightingGop
    <3>1. /\ Todo \in GopOnTodos /\ shadow.gop
          /\ commit'.todo \in GopOnTodos /\ Now' = "forceup"
      BY <2>6, <1>1, <1>2, GopOnSteps, GopOffSteps DEF LightingGop
    <3> QED
      BY <2>6, <3>1, <1>1, <1>2, <1>3 DEF LightingGop, Awaits, Same, VblanksOff, PlaceInv
  <2> QED
    BY <2>1, <2>2, <2>3, <2>4, <2>5, <2>6 DEF DrmInv, PlaceInv
<1> QED
  BY <1>4, <1>5 DEF DrmInv

\* soph_pipe_update takes the plane state apart into the writes it needs.
LEMMA PipeUpdateKeeps == DrmInv /\ PipeUpdate => DrmInv'
<1> SUFFICES ASSUME DrmInv, PipeUpdate PROVE DrmInv'
  OBVIOUS
<1> USE DEF Todo, Now
<1>1. /\ TypeOK /\ MaskInv /\ LitInv /\ ModeInv /\ LateInv
      /\ commit.todo # <<>> /\ Now = "stage"
      /\ commit \in [todo : Seq(Steps), locked : BOOLEAN, lit : BOOLEAN]
      /\ mode \in {"off", "video", "gop"}
  BY DEF DrmInv, PipeUpdate, At, TypeOK
<1>2. /\ UNCHANGED <<shadow, working, mask, status, tgen, known, steady, mode, front, old,
                     event, vblank, miss, gate, div, polls>>
      /\ mask = FALSE /\ commit.lit = FALSE
  BY <1>1 DEF PipeUpdate, NoVblank, MaskInv, LitInv, Windows, TypeOK
<1>3. /\ commit'.todo = VideoStage \o <<"clear">> \o Tail(commit.todo)
      /\ commit'.locked = TRUE /\ commit'.lit = FALSE
      /\ commit' = [todo |-> commit'.todo, locked |-> TRUE, lit |-> FALSE]
  BY <1>1, <1>2 DEF PipeUpdate
<1>4. \/ mode = "gop" /\ VideoStage = <<"gop">>
      \/ mode # "gop" /\ VideoStage = <<"layer">>
      \/ /\ mode # "gop" /\ VideoStage = <<"geo", "addr">>
         /\ known.how = front.how /\ known.pitch = front.pitch
  BY DEF VideoStage
<1>5. ASSUME NEW r \in Seq(Steps), Tail(commit.todo) = ArmOf(r)
      PROVE  \/ mode = "gop" /\ commit'.todo = GopOf(r) /\ Now' = "gop"
             \/ mode # "gop" /\ commit'.todo = LayerOf(r) /\ Now' = "layer"
             \/ /\ mode # "gop" /\ commit'.todo = GeoOf(r) /\ Now' = "geo"
                /\ known.how = front.how /\ known.pitch = front.pitch
  <2>1. /\ Head(GopOf(r)) = "gop" /\ Head(LayerOf(r)) = "layer" /\ Head(GeoOf(r)) = "geo"
    BY UpdateTable
  <2>2. CASE mode = "gop" /\ VideoStage = <<"gop">>
    BY <1>3, <1>5, <2>1, <2>2, UpdateLists, Zenon
  <2>3. CASE mode # "gop" /\ VideoStage = <<"layer">>
    BY <1>3, <1>5, <2>1, <2>3, UpdateLists, Zenon
  <2>4. CASE /\ mode # "gop" /\ VideoStage = <<"geo", "addr">>
             /\ known.how = front.how /\ known.pitch = front.pitch
    BY <1>3, <1>5, <2>1, <2>4, UpdateLists, Zenon
  <2> QED
    BY <1>4, <2>2, <2>3, <2>4
<1>6. ASSUME commit'.todo \in Seq(Steps), commit'.todo # <<>>
      PROVE  TypeOK' /\ MaskInv' /\ LitInv' /\ ModeInv' /\ LateInv'
  <2>1. commit' \in [todo : Seq(Steps), locked : BOOLEAN, lit : BOOLEAN]
    BY <1>3, <1>6
  <2> QED
    BY <2>1, <1>1, <1>2, <1>3 DEF TypeOK, MaskInv, LitInv, ModeInv, LateInv
<1>7. CASE Flipping
  <2>1. Tail(commit.todo) = ArmOf(<<>>)
    BY <1>7, <1>1, FlipSteps DEF Flipping
  <2>2. /\ commit'.todo \in FlipTodos
        /\ \/ mode = "gop" /\ Now' = "gop"
           \/ mode = "video" /\ Now' = "layer"
           \/ /\ mode = "video" /\ Now' = "geo"
              /\ known.how = front.how /\ known.pitch = front.pitch
    BY <2>1, <1>1, <1>5, <1>7, EmptyTodo DEF FlipTodos, Flipping
  <2>3. commit'.todo \in Seq(Steps) /\ commit'.todo # <<>>
    BY <2>2, FlipSteps
  <2>4. Flipping'
    BY <2>2, <1>1, <1>2, <1>7 DEF Flipping, Shows, Same, KnownOk, Calm
  <2> QED
    BY <2>3, <2>4, <1>6 DEF DrmInv, PlaceInv
<1>8. CASE Dark
  <2>1. mode # "off" /\ Tail(commit.todo) = ArmOf(Enabling(mode))
    BY <1>8, <1>1, DarkSteps DEF Dark
  <2>2. PICK r \in Seq(Steps) : r = Enabling(mode)
    BY EnablingTodo
  <2>3. known.how = NoHow /\ (mode = "video" => front.how # NoHow)
    BY <1>8, <1>1 DEF Dark, ModeInv
  <2>4. \/ mode = "gop" /\ commit'.todo = GopOf(r) /\ Now' = "gop"
        \/ mode = "video" /\ commit'.todo = LayerOf(r) /\ Now' = "layer"
    BY <2>1, <2>2, <2>3, <1>1, <1>5
  <2>5. commit'.todo \in DarkTodos(mode)
    BY <2>1, <2>2, <2>4 DEF DarkTodos
  <2>6. commit'.todo \in Seq(Steps) /\ commit'.todo # <<>>
    BY <2>5, <1>1, DarkSteps
  <2>7. Dark'
    BY <2>4, <2>5, <1>1, <1>2, <1>8 DEF Dark, Quiet, Same, KnownOk, VblanksOff, Calm
  <2> QED
    BY <2>6, <2>7, <1>6 DEF DrmInv, PlaceInv
<1>9. ~Resting /\ ~Disabling /\ ~LightingVideo /\ ~LightingGop
  BY <1>1, DisablingNow, VideoSteps, GopOnSteps, GopOffSteps DEF Resting, LightingVideo,
     LightingGop
<1> QED
  BY <1>7, <1>8, <1>9 DEF DrmInv, PlaceInv

\* The frame starts so far are forgotten before the event is armed.
LEMMA ClearStatusKeeps == DrmInv /\ ClearStatus => DrmInv'
<1> SUFFICES ASSUME DrmInv, ClearStatus PROVE DrmInv'
  OBVIOUS
<1> USE DEF Todo, Now
<1>1. /\ TypeOK /\ MaskInv /\ LitInv /\ ModeInv /\ LateInv
      /\ commit.todo # <<>> /\ Now = "clear"
      /\ commit \in [todo : Seq(Steps), locked : BOOLEAN, lit : BOOLEAN]
      /\ mode \in {"off", "video", "gop"} /\ Oversample \in Nat
  BY DrmAssumption DEF DrmInv, ClearStatus, At, TypeOK
<1>2. /\ UNCHANGED <<shadow, working, mask, tgen, known, steady, mode, front, old, event,
                     vblank, miss, gate, div, polls>>
      /\ status' = FALSE /\ mask = FALSE /\ commit.lit = FALSE
  BY <1>1 DEF ClearStatus, NoVblank, MaskInv, LitInv, Windows, TypeOK
<1>3. /\ commit'.todo = Tail(commit.todo) /\ commit'.lit = FALSE
      /\ commit' \in [todo : Seq(Steps), locked : BOOLEAN, lit : BOOLEAN]
  <2>1. Tail(commit.todo) \in Seq(Steps)
    BY <1>1
  <2> QED
    BY <1>1, <1>2, <2>1 DEF ClearStatus
<1>4. TypeOK' /\ MaskInv' /\ LitInv' /\ ModeInv'
  BY <1>1, <1>2, <1>3 DEF TypeOK, MaskInv, LitInv, ModeInv
<1>5. ASSUME steady => Calm PROVE LateInv'
  BY <1>1, <1>2, <1>5 DEF LateInv, Calm, TypeOK
<1>6. CASE Flipping
  <2>1. commit'.todo \in FlipTodos /\ Now' = "arm"
    BY <1>6, <1>1, <1>3, FlipSteps DEF Flipping
  <2>2. Flipping' /\ (steady => Calm)
    BY <2>1, <1>1, <1>2, <1>6 DEF Flipping, Shows, Same, KnownOk
  <2> QED
    BY <2>2, <1>4, <1>5 DEF DrmInv, PlaceInv
<1>7. CASE Dark
  <2>1. PICK m \in {"off", "video", "gop"} :
          m = mode /\ \E t \in DarkTodos(m) : t = commit.todo
    BY <1>7, <1>1 DEF Dark
  <2>2. commit'.todo \in DarkTodos(mode) /\ Now' = "arm" /\ mode # "off"
    <3>1. PICK t \in DarkTodos(m) : t = commit.todo
      BY <2>1
    <3>2. Head(t) = "clear"
      BY <3>1, <1>1
    <3>3. m # "off" /\ Tail(t) \in DarkTodos(m) /\ Head(Tail(t)) = "arm"
      BY <3>2, DarkSteps
    <3> QED
      BY <2>1, <3>1, <3>3, <1>3
  <2>3. Dark' /\ (steady => Calm)
    BY <2>2, <1>1, <1>2, <1>7 DEF Dark, Quiet, Same, KnownOk, VblanksOff
  <2> QED
    BY <2>3, <1>4, <1>5 DEF DrmInv, PlaceInv
<1>8. ~Resting /\ ~Disabling /\ ~LightingVideo /\ ~LightingGop
  BY <1>1, DisablingNow, VideoSteps, GopOnSteps, GopOffSteps DEF Resting, LightingVideo,
     LightingGop
<1> QED
  BY <1>6, <1>7, <1>8 DEF DrmInv, PlaceInv

\* The event is armed, after the write of the address.
LEMMA ArmEventKeeps == DrmInv /\ ArmEvent => DrmInv'
<1> SUFFICES ASSUME DrmInv, ArmEvent PROVE DrmInv'
  OBVIOUS
<1> USE DEF Todo, Now
<1>1. /\ TypeOK /\ MaskInv /\ LitInv /\ ModeInv /\ LateInv
      /\ commit.todo # <<>> /\ Now = "arm" /\ mode \in {"off", "video", "gop"}
      /\ NoLayer \in AllLayers
  BY DEF DrmInv, ArmEvent, At, TypeOK, AllLayers
<1>2. /\ commit'.todo = Tail(commit.todo) /\ commit'.lit = FALSE
      /\ commit' \in [todo : Seq(Steps), locked : BOOLEAN, lit : BOOLEAN]
  BY <1>1, AheadFacts DEF ArmEvent, LitInv, TypeOK
<1>3. /\ UNCHANGED <<shadow, working, mask, status, tgen, known, steady, mode, front,
                     miss, gate, div, polls>>
      /\ mask = FALSE
  BY <1>1 DEF ArmEvent, MaskInv, Windows, TypeOK
<1>4. /\ vblank' \in [on : BOOLEAN, timer : BOOLEAN] /\ vblank'.on = vblank.on
      /\ vblank.on => event' = TRUE /\ old' = old /\ vblank'.timer
      /\ ~vblank.on => event' = FALSE /\ old' = NoLayer /\ vblank' = vblank
  BY <1>1 DEF ArmEvent, TypeOK
<1>5. event' \in BOOLEAN /\ old' \in AllLayers
  BY <1>1, <1>4 DEF TypeOK
<1>6. TypeOK' /\ MaskInv' /\ LitInv' /\ ModeInv' /\ LateInv'
  BY <1>1, <1>2, <1>3, <1>4, <1>5 DEF TypeOK, MaskInv, LitInv, ModeInv, LateInv
<1>7. PlaceInv'
  <2>1. CASE Resting
    BY <2>1, <1>1 DEF Resting
  <2>2. CASE Flipping
    <3>1. commit'.todo = <<>> /\ vblank.on /\ mode # "off"
      BY <2>2, <1>1, <1>2, FlipSteps DEF Flipping
    <3> QED
      BY <2>2, <3>1, <1>1, <1>3, <1>4 DEF Flipping, Resting, Shows, Same, KnownOk, PlaceInv
  <2>3. CASE Disabling
    BY <2>3, <1>1, DisablingNow
  <2>4. CASE Dark
    <3>1. ~vblank.on /\ VblanksOff' /\ ~event' /\ old' = NoLayer
      BY <2>4, <1>4 DEF Dark, VblanksOff
    <3>2. CASE mode = "off"
      <4>1. commit'.todo = <<>>
        BY <2>4, <3>2, <1>1, <1>2, DarkSteps DEF Dark
      <4> QED
        BY <2>4, <3>1, <3>2, <4>1, <1>1, <1>3 DEF Dark, Resting, Quiet, Shows, Same, KnownOk,
           VblanksOff, Calm, PlaceInv
    <3>3. CASE mode = "video"
      <4>1. commit'.todo \in VideoTodos /\ Now' = "bgoff"
        BY <2>4, <3>3, <1>1, <1>2, DarkSteps, EnablingSteps DEF Dark
      <4> QED
        BY <2>4, <3>1, <3>3, <4>1, <1>1, <1>2, <1>3 DEF Dark, LightingVideo, Awaits, Quiet,
           Same, KnownOk, VblanksOff, PlaceInv
    <3>4. CASE mode = "gop"
      <4>1. commit'.todo \in GopOffTodos /\ Now' = "bgon"
        BY <2>4, <3>4, <1>1, <1>2, DarkSteps, EnablingSteps DEF Dark
      <4> QED
        BY <2>4, <3>1, <3>4, <4>1, <1>1, <1>2, <1>3 DEF Dark, LightingGop, Awaits, Quiet,
           Same, VblanksOff, PlaceInv
    <3> QED
      BY <1>1, <3>2, <3>3, <3>4
  <2>5. CASE LightingVideo
    BY <2>5, <1>1, VideoSteps DEF LightingVideo
  <2>6. CASE LightingGop
    BY <2>6, <1>1, GopOnSteps, GopOffSteps DEF LightingGop
  <2> QED
    BY <2>1, <2>2, <2>3, <2>4, <2>5, <2>6 DEF DrmInv, PlaceInv
<1> QED
  BY <1>6, <1>7 DEF DrmInv

\* Vblanks are switched off before the layers are.
LEMMA VblankOffKeeps == DrmInv /\ VblankOff => DrmInv'
<1> SUFFICES ASSUME DrmInv, VblankOff PROVE DrmInv'
  OBVIOUS
<1> USE DEF Todo, Now
<1>1. /\ TypeOK /\ MaskInv /\ LitInv /\ ModeInv /\ LateInv
      /\ commit.todo # <<>> /\ Now = "vbloff" /\ mode \in {"off", "video", "gop"}
      /\ Oversample \in Nat
  BY DrmAssumption DEF DrmInv, VblankOff, At, TypeOK
<1>2. /\ commit'.todo = Tail(commit.todo) /\ commit'.lit = FALSE
      /\ commit' \in [todo : Seq(Steps), locked : BOOLEAN, lit : BOOLEAN]
  BY <1>1, AheadFacts DEF VblankOff, LitInv, TypeOK
<1>3. /\ UNCHANGED <<shadow, working, mask, status, tgen, known, steady, mode, front, old,
                     event, miss, gate, div, polls>>
      /\ mask = FALSE
      /\ vblank' \in [on : BOOLEAN, timer : BOOLEAN] /\ VblanksOff'
  BY <1>1 DEF VblankOff, VblanksOff, MaskInv, Windows, TypeOK
<1>4. Disabling
  <2>1. ~Resting /\ ~Flipping
    BY <1>1, FlipSteps DEF Resting, Flipping
  <2>2. ~Dark
    BY <1>1, DarkSteps DEF Dark
  <2>3. ~LightingVideo /\ ~LightingGop
    BY <1>1, VideoSteps, GopOnSteps, GopOffSteps DEF LightingVideo, LightingGop
  <2> QED
    BY <2>1, <2>2, <2>3 DEF DrmInv, PlaceInv
<1>5. TypeOK' /\ MaskInv' /\ LitInv' /\ ModeInv'
  BY <1>1, <1>2, <1>3 DEF TypeOK, MaskInv, LitInv, ModeInv
\* The poller has seen every frame start but the last when it is stopped.
<1>6. LateInv'
  BY <1>1, <1>3, <1>4 DEF LateInv, Disabling, Calm, TypeOK
<1>7. Disabling'
  <2>1. commit'.todo \in DisableTodos(mode) /\ Now' = "gopoff"
    BY <1>1, <1>2, <1>4, DisablingNow
  <2> QED
    BY <2>1, <1>1, <1>3, <1>4 DEF Disabling, Fades, Same, Calm
<1> QED
  BY <1>5, <1>6, <1>7 DEF DrmInv, PlaceInv

\* vblon and hwdone come only at the end of soph_pipe_enable.
LEMMA AtTheEnd ==
  ASSUME DrmInv, commit.todo # <<>>, Now \in {"vblon", "hwdone"}
  PROVE  \/ LightingVideo
         \/ LightingGop /\ Todo \in GopOnTodos /\ shadow.gop
<1> USE DEF Todo, Now
<1>1. ~Resting /\ ~Flipping
  BY FlipSteps DEF Resting, Flipping
<1>2. ~Disabling
  BY DisablingNow
<1>3. mode \in {"off", "video", "gop"}
  BY DEF DrmInv, TypeOK
<1>4. ~Dark
  BY <1>3, DarkSteps DEF Dark
<1>5. LightingGop => Todo \in GopOnTodos /\ shadow.gop
  BY GopOffSteps DEF LightingGop
<1> QED
  BY <1>1, <1>2, <1>4, <1>5 DEF DrmInv, PlaceInv

\* And on again once the layers are right.
LEMMA VblankOnKeeps == DrmInv /\ VblankOn => DrmInv'
<1> SUFFICES ASSUME DrmInv, VblankOn PROVE DrmInv'
  OBVIOUS
<1> USE DEF Todo, Now
<1>1. /\ TypeOK /\ MaskInv /\ LitInv /\ ModeInv /\ LateInv
      /\ commit.todo # <<>> /\ Now = "vblon"
  BY DEF DrmInv, VblankOn, At
<1>2. /\ commit'.todo = Tail(commit.todo) /\ commit'.lit = FALSE
      /\ commit' \in [todo : Seq(Steps), locked : BOOLEAN, lit : BOOLEAN]
  BY <1>1, AheadFacts DEF VblankOn, LitInv, TypeOK
<1>3. /\ UNCHANGED <<shadow, working, mask, status, tgen, known, steady, mode, front, old,
                     event, miss, gate, div, polls>>
      /\ mask = FALSE
      /\ vblank' \in [on : BOOLEAN, timer : BOOLEAN]
      /\ vblank'.on /\ vblank'.timer = vblank.timer
  BY <1>1 DEF VblankOn, MaskInv, Windows, TypeOK
<1>4. TypeOK' /\ MaskInv' /\ LitInv' /\ ModeInv' /\ LateInv'
  BY <1>1, <1>2, <1>3 DEF TypeOK, MaskInv, LitInv, ModeInv, LateInv
<1>5. CASE LightingVideo
  <2>1. commit'.todo \in VideoTodos /\ Now' = "hwdone"
    BY <1>5, <1>1, <1>2, VideoSteps DEF LightingVideo
  <2>2. LightingVideo'
    BY <1>5, <2>1, <1>1, <1>2, <1>3 DEF LightingVideo, Awaits, Shows, Same, KnownOk
  <2> QED
    BY <1>4, <2>2 DEF DrmInv, PlaceInv
<1>6. CASE LightingGop /\ Todo \in GopOnTodos /\ shadow.gop
  <2>1. commit'.todo \in GopOnTodos /\ Now' = "hwdone"
    BY <1>6, <1>1, <1>2, GopOnSteps
  <2>2. LightingGop'
    BY <1>6, <2>1, <1>1, <1>2, <1>3 DEF LightingGop, Awaits, Shows, Same
  <2> QED
    BY <1>4, <2>2 DEF DrmInv, PlaceInv
<1> QED
  BY <1>1, <1>5, <1>6, AtTheEnd

\* The commit ends; a modeset has waited for a frame.
LEMMA HwDoneKeeps == DrmInv /\ HwDone => DrmInv'
<1> SUFFICES ASSUME DrmInv, HwDone PROVE DrmInv'
  OBVIOUS
<1> USE DEF Todo, Now
<1>1. /\ TypeOK /\ MaskInv /\ LitInv /\ ModeInv /\ LateInv
      /\ commit.todo # <<>> /\ Now = "hwdone" /\ Oversample \in Nat
      /\ commit \in [todo : Seq(Steps), locked : BOOLEAN, lit : BOOLEAN]
  BY DrmAssumption DEF DrmInv, HwDone, At, TypeOK
<1>2. /\ UNCHANGED <<shadow, working, mask, status, tgen, known, steady, mode, front, old,
                     event, miss, gate, div, polls>>
      /\ mask = FALSE
      /\ vblank' \in [on : BOOLEAN, timer : BOOLEAN]
      /\ vblank'.on = vblank.on /\ vblank'.timer
  BY <1>1 DEF HwDone, MaskInv, Windows, TypeOK
<1>3. /\ commit'.todo = Tail(commit.todo) /\ commit'.lit = FALSE
      /\ commit' \in [todo : Seq(Steps), locked : BOOLEAN, lit : BOOLEAN]
  <2>1. Tail(commit.todo) \in Seq(Steps)
    BY <1>1
  <2> QED
    BY <1>1, <2>1 DEF HwDone
<1>4. TypeOK' /\ MaskInv' /\ LitInv' /\ ModeInv' /\ LateInv'
  BY <1>1, <1>2, <1>3 DEF TypeOK, MaskInv, LitInv, ModeInv, LateInv
\* A frame has started since, and the poller has seen it or has not run at all.
<1>5. ASSUME Awaits, steady PROVE Calm
  <2>1. commit.lit /\ (vblank.timer => polls > 0)
    BY <1>1, <1>5 DEF HwDone, LateInv
  <2> QED
    BY <2>1, <1>1, <1>5 DEF Awaits, LateInv, Calm, TypeOK
<1>6. CASE LightingVideo
  <2>1. commit'.todo = <<>> /\ Awaits
    BY <1>6, <1>1, <1>3, VideoSteps DEF LightingVideo
  <2>2. Resting'
    BY <1>5, <1>6, <2>1, <1>1, <1>2 DEF LightingVideo, Awaits, Resting, Shows, Same, KnownOk,
       Calm
  <2> QED
    BY <1>4, <2>2 DEF DrmInv, PlaceInv
<1>7. CASE LightingGop /\ Todo \in GopOnTodos /\ shadow.gop
  <2>1. commit'.todo = <<>> /\ Awaits
    BY <1>7, <1>1, <1>3, GopOnSteps DEF LightingGop
  <2>2. Resting'
    BY <1>5, <1>7, <2>1, <1>1, <1>2 DEF LightingGop, Awaits, Resting, Shows, Same, KnownOk,
       Calm
  <2> QED
    BY <1>4, <2>2 DEF DrmInv, PlaceInv
<1> QED
  BY <1>1, <1>6, <1>7, AtTheEnd

-----------------------------------------------------------------------------
(* The theorems.                                                           *)

\* A step that changes nothing.
LEMMA StutterKeeps == DrmInv /\ UNCHANGED vars => DrmInv'
<1> SUFFICES ASSUME DrmInv, UNCHANGED vars PROVE DrmInv'
  OBVIOUS
<1>1. TypeOK' /\ MaskInv' /\ LitInv' /\ ModeInv' /\ LateInv'
  BY DEF DrmInv, vars, TypeOK, MaskInv, LitInv, ModeInv, LateInv, Todo, Now
<1>2. PlaceInv'
  BY DEF DrmInv, vars, PlaceInv, Resting, Flipping, Disabling, Dark, LightingVideo,
     LightingGop, Awaits, Shows, Fades, Quiet, Same, KnownOk, VblanksOff, Calm, Todo, Now
<1> QED
  BY <1>1, <1>2 DEF DrmInv

\* Every step keeps the invariant.
LEMMA NextKeeps == DrmInv /\ [Next]_vars => DrmInv'
<1> SUFFICES ASSUME DrmInv, [Next]_vars PROVE DrmInv'
  OBVIOUS
<1>1. CASE FrameStart \/ TgenStop \/ VblFn \/ EnableVblank \/ DisableVblank
  BY <1>1, FrameStartKeeps, TgenStopKeeps, VblFnKeeps, EnableVblankKeeps, DisableVblankKeeps
<1>2. CASE \E n \in 0 .. MaxDiv : SetVblDiv(n)
  BY <1>2, SetVblDivKeeps
<1>3. CASE \E f \in Fbs : Flip(f) \/ Modeset(f)
  BY <1>3, FlipKeeps, ModesetKeeps
<1>4. CASE TurnOff
  BY <1>4, TurnOffKeeps
<1>5. CASE CommitStep
  BY <1>5, PipeUpdateKeeps, OpenWindowKeeps, CloseWindowKeeps, WriteRegisterKeeps,
     ForceUpKeeps, TgenEnableKeeps, ClearStatusKeeps, ArmEventKeeps, VblankOffKeeps,
     VblankOnKeeps, HwDoneKeeps DEF CommitStep
<1>6. CASE UNCHANGED vars
  BY <1>6, StutterKeeps
<1> QED
  BY <1>1, <1>2, <1>3, <1>4, <1>5, <1>6 DEF Next

\* Whatever framebuffers are flipped and whatever modes are set, and wherever
\* frame starts and polls fall between the register writes, a commit is always
\* at one of its places and the banks hold what that place says.
THEOREM DisplaySound == Spec => []DrmInv
<1>1. Init => DrmInv
  BY InitDrm
<1>2. DrmInv /\ [Next]_vars => DrmInv'
  BY NextKeeps
<1> QED
  BY <1>1, <1>2, PTL DEF Spec

\* The registers, the poller's counters and the commit keep their types: the
\* counters stay below twice SOPH_VBL_OVERSAMPLE and vbl_div.
THEOREM TypesKept == Spec => []TypeOK
<1>1. DrmInv => TypeOK
  BY DEF DrmInv
<1> QED
  BY <1>1, DisplaySound, PTL

\* At every place the video layer holds one plane state that is still held.
LEMMA PlacesHold ==
  ASSUME DrmInv, steady
  PROVE  /\ working.addr \in {Park, front.addr, old.addr}
         /\ working.gop => working.gopaddr \in {Park, front.addr, old.addr}
         /\ working.bg \/ Same(working, front) \/ Same(working, old)
<1>1. CASE Resting
  BY <1>1 DEF Resting, Shows, Same, DrmInv, ModeInv
<1>2. CASE Flipping
  BY <1>2 DEF Flipping, Shows, Same
<1>3. CASE Disabling
  BY <1>3 DEF Disabling, Fades, Same
<1>4. CASE Dark
  BY <1>4 DEF Dark, Quiet, Same
<1>5. CASE LightingVideo
  BY <1>5 DEF LightingVideo, Shows, Quiet, Same
<1>6. CASE LightingGop
  BY <1>6 DEF LightingGop, Shows, Same
<1> QED
  BY <1>1, <1>2, <1>3, <1>4, <1>5, <1>6 DEF DrmInv, PlaceInv

\* While the timing generator has run all along, the display reads only the
\* committed framebuffer, the one before it until its flip is done, or the
\* driver's own: the poller reports no flip done that a frame start has not
\* latched, and the fallback vblank never comes early.
THEOREM OnlyHeldIsRead == Spec => []ReadsOnlyHeld
<1>1. DrmInv => ReadsOnlyHeld
  BY PlacesHold DEF ReadsOnlyHeld, Reads
<1> QED
  BY <1>1, DisplaySound, PTL

\* Seen, the video layer scans one committed plane state: address, format,
\* input CSC and pitches of the same one.
THEOREM OnePlaneState == Spec => []ScansOnePlaneState
<1>1. ASSUME DrmInv PROVE ScansOnePlaneState
  <2>1. SUFFICES ASSUME steady, ~working.bg
                 PROVE  [addr |-> working.addr, how |-> working.how,
                         pitch |-> working.pitch] \in {front, old}
    BY DEF ScansOnePlaneState
  <2>2. /\ front = [addr |-> front.addr, how |-> front.how, pitch |-> front.pitch]
        /\ old = [addr |-> old.addr, how |-> old.how, pitch |-> old.pitch]
    BY <1>1, LayerFacts DEF DrmInv, TypeOK
  <2>3. CASE Same(working, front)
    BY <2>2, <2>3 DEF Same
  <2>4. CASE Same(working, old)
    BY <2>2, <2>4 DEF Same
  <2> QED
    BY <1>1, <2>1, <2>3, <2>4, PlacesHold
<1> QED
  BY <1>1, DisplaySound, PTL
=============================================================================
