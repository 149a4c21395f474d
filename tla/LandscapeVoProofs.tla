-------------------------- MODULE LandscapeVoProofs --------------------------
(***************************************************************************)
(* Proofs about LandscapeVo, for any number of frame buffers and any       *)
(* credit window, watchdog limit and stream buffer.                        *)
(***************************************************************************)
EXTENDS LandscapeVo, TLAPS

USE LandscapeAssumption

-----------------------------------------------------------------------------
(***************************************************************************)
(* The inductive invariant: which threads there are at each step of main,  *)
(* where the pump holds a frame, and that a buffer waiting in the          *)
(* decoder's queue waits there once and is nobody's.                       *)
(***************************************************************************)
ThreadsInv ==
  /\ main = "up" => wpc = "off" /\ fpc = "off" /\ ppc = "off" /\ ~chan
  /\ main = "feeder" => wpc = "off" /\ fpc = "off"
  /\ main = "wdog" => wpc = "off"
  /\ main \in {"joinfeeder", "joinpump", "destroy", "done"} => Gone(wpc)
  /\ main \in {"joinpump", "destroy", "done"} => Gone(fpc)
  /\ main \in {"destroy", "done"} => Gone(ppc)
  /\ main \notin {"up", "destroy", "done"} => chan

HandsInv ==
  /\ main = "up" => frame = NoFrame /\ prev = NoFrame /\ out = {} /\ lost = {} /\ dq = <<>>
  /\ ppc \in {"off", "top", "get", "last", "exit"} => frame = NoFrame

QueueInv ==
  \A i \in 1 .. Len(dq) : dq[i] \notin out /\ \A j \in 1 .. Len(dq) : dq[i] = dq[j] => i = j

PlayerInv == TypeOK /\ ThreadsInv /\ HandsInv /\ QueueInv /\ OneHolder

-----------------------------------------------------------------------------
\* Every step keeps the types.
LEMMA TypeStep == PlayerInv /\ [Next]_vars => TypeOK'
<1> SUFFICES ASSUME PlayerInv, [Next]_vars PROVE TypeOK'
  OBVIOUS
<1> USE DEF thr, pump, vdec, ResetSteps
<1>0. TypeOK
  BY DEF PlayerInv
<1>a. ASSUME NEW pc \in ResetSteps, ResetStep(pc)
      PROVE  /\ {same', prevsame', recv', hung'} \subseteq BOOLEAN
             /\ {frame', prev'} \subseteq Bufs \cup {NoFrame, Stale}
             /\ credits' \in 0 .. CREDIT_MAX /\ inq' \in 0 .. MaxIn
             /\ dq' \in Seq(Bufs) /\ out' \subseteq Bufs /\ lost' \subseteq Bufs
             /\ After(pc) \in {"reset", "start", "top"}
  <2>1. {same', prevsame', recv', hung'} \subseteq BOOLEAN
    BY <1>0, <1>a DEF TypeOK, ResetStep, ResetChn, BumpGen
  <2>2. {frame', prev'} \subseteq Bufs \cup {NoFrame, Stale}
    BY <1>0, <1>a DEF TypeOK, ResetStep, ResetChn
  <2>3. credits' \in 0 .. CREDIT_MAX /\ inq' \in 0 .. MaxIn
    BY <1>0, <1>a DEF TypeOK, ResetStep, ResetChn
  <2>4. dq' \in Seq(Bufs) /\ out' \subseteq Bufs /\ lost' \subseteq Bufs
    <3>1. dq' = dq \/ dq' = <<>>
      BY <1>a DEF ResetStep, ResetChn
    <3>2. dq \in Seq(Bufs) /\ <<>> \in Seq(Bufs)
      BY <1>0 DEF TypeOK
    <3>3. dq' \in Seq(Bufs)
      BY <3>1, <3>2
    <3> QED
      BY <1>0, <1>a, <3>3 DEF TypeOK, ResetStep, ResetChn
  <2>5. After(pc) \in {"reset", "start", "top"}
    BY <1>a DEF After
  <2> QED
    BY <2>1, <2>2, <2>3, <2>4, <2>5
<1> DEFINE Mains == {"up", "feeder", "wdog", "run", "joinwdog", "joinfeeder", "joinpump", "destroy",
                     "done", "crashed"}
           Wpcs == {"off", "top", "exit"} \cup ResetSteps
           Fpcs == {"off", "open", "top", "take", "send", "exit"} \cup ResetSteps
           Ppcs == {"off", "top", "get", "check", "send", "rel", "last", "exit"}
<1>b. /\ main \in Mains /\ wpc \in Wpcs /\ fpc \in Fpcs /\ ppc \in Ppcs
      /\ stuck \in 0 .. STALL - 1 /\ credits \in 0 .. CREDIT_MAX /\ inq \in 0 .. MaxIn
      /\ {switch, fed, same, prevsame, chan, recv, hung} \subseteq BOOLEAN
      /\ {frame, prev} \subseteq Bufs \cup {NoFrame, Stale} /\ out \subseteq Bufs
      /\ lost \subseteq Bufs /\ dq \in Seq(Bufs) /\ <<>> \in Seq(Bufs)
  BY <1>0 DEF TypeOK
<1>t. ASSUME main' \in Mains, wpc' \in Wpcs, fpc' \in Fpcs, ppc' \in Ppcs,
             stuck' \in 0 .. STALL - 1, credits' \in 0 .. CREDIT_MAX, inq' \in 0 .. MaxIn,
             {switch', fed', same', prevsame', chan', recv', hung'} \subseteq BOOLEAN,
             {frame', prev'} \subseteq Bufs \cup {NoFrame, Stale}, out' \subseteq Bufs,
             lost' \subseteq Bufs, dq' \in Seq(Bufs)
      PROVE  TypeOK'
  BY <1>t DEF TypeOK
<1>1. CASE MainUp \/ MainFeeder \/ MainWdog \/ MainStop \/ MainJoin \/ OnSwitch
  <2>1. main' \in Mains /\ wpc' \in Wpcs /\ fpc' \in Fpcs /\ ppc' \in Ppcs
    BY <1>b, <1>1 DEF MainUp, MainFeeder, MainWdog, MainStop, MainJoin, OnSwitch
  <2>2. stuck' \in 0 .. STALL - 1 /\ credits' \in 0 .. CREDIT_MAX /\ inq' \in 0 .. MaxIn
    BY <1>b, <1>1 DEF MainUp, MainFeeder, MainWdog, MainStop, MainJoin, OnSwitch
  <2>3. {switch', fed', same', prevsame', chan', recv', hung'} \subseteq BOOLEAN
    BY <1>b, <1>1 DEF MainUp, MainFeeder, MainWdog, MainStop, MainJoin, OnSwitch
  <2>4. {frame', prev'} \subseteq Bufs \cup {NoFrame, Stale} /\ out' \subseteq Bufs /\ lost' \subseteq Bufs
    BY <1>b, <1>1 DEF MainUp, MainFeeder, MainWdog, MainStop, MainJoin, OnSwitch
  <2>5. dq' \in Seq(Bufs)
    BY <1>b, <1>1 DEF MainUp, MainFeeder, MainWdog, MainStop, MainJoin, OnSwitch
  <2> QED
    BY <2>1, <2>2, <2>3, <2>4, <2>5, <1>t
<1>2. CASE MainDestroy
  <2>1. main' \in Mains /\ wpc' \in Wpcs /\ fpc' \in Fpcs /\ ppc' \in Ppcs
    BY <1>b, <1>2 DEF MainDestroy
  <2>2. stuck' \in 0 .. STALL - 1 /\ credits' \in 0 .. CREDIT_MAX /\ inq' \in 0 .. MaxIn
    BY <1>b, <1>2 DEF MainDestroy
  <2>3. {switch', fed', same', prevsame', chan', recv', hung'} \subseteq BOOLEAN
    BY <1>b, <1>2 DEF MainDestroy
  <2>4. {frame', prev'} \subseteq Bufs \cup {NoFrame, Stale} /\ out' \subseteq Bufs /\ lost' \subseteq Bufs
    BY <1>b, <1>2 DEF MainDestroy
  <2>5. dq' \in Seq(Bufs)
    BY <1>b, <1>2 DEF MainDestroy
  <2> QED
    BY <2>1, <2>2, <2>3, <2>4, <2>5, <1>t
<1>3. CASE WdogLook
  <2>1. main' \in Mains /\ wpc' \in Wpcs /\ fpc' \in Fpcs /\ ppc' \in Ppcs
    BY <1>b, <1>3 DEF WdogLook
  <2>2. stuck' \in 0 .. STALL - 1 /\ credits' \in 0 .. CREDIT_MAX /\ inq' \in 0 .. MaxIn
    BY <1>b, <1>3 DEF WdogLook
  <2>3. {switch', fed', same', prevsame', chan', recv', hung'} \subseteq BOOLEAN
    BY <1>b, <1>3 DEF WdogLook
  <2>4. {frame', prev'} \subseteq Bufs \cup {NoFrame, Stale} /\ out' \subseteq Bufs /\ lost' \subseteq Bufs
    BY <1>b, <1>3 DEF WdogLook
  <2>5. dq' \in Seq(Bufs)
    BY <1>b, <1>3 DEF WdogLook
  <2> QED
    BY <2>1, <2>2, <2>3, <2>4, <2>5, <1>t
<1>4. CASE WdogReset
  BY <1>0, <1>4, <1>a DEF TypeOK, WdogReset
<1>5. CASE FeederOpen \/ FeederTop
  <2>1. main' \in Mains /\ wpc' \in Wpcs /\ fpc' \in Fpcs /\ ppc' \in Ppcs
    BY <1>b, <1>5 DEF FeederOpen, FeederTop
  <2>2. stuck' \in 0 .. STALL - 1 /\ credits' \in 0 .. CREDIT_MAX /\ inq' \in 0 .. MaxIn
    BY <1>b, <1>5 DEF FeederOpen, FeederTop
  <2>3. {switch', fed', same', prevsame', chan', recv', hung'} \subseteq BOOLEAN
    BY <1>b, <1>5 DEF FeederOpen, FeederTop
  <2>4. {frame', prev'} \subseteq Bufs \cup {NoFrame, Stale} /\ out' \subseteq Bufs /\ lost' \subseteq Bufs
    BY <1>b, <1>5 DEF FeederOpen, FeederTop
  <2>5. dq' \in Seq(Bufs)
    BY <1>b, <1>5 DEF FeederOpen, FeederTop
  <2> QED
    BY <2>1, <2>2, <2>3, <2>4, <2>5, <1>t
<1>6. CASE FeederReset
  BY <1>0, <1>6, <1>a DEF TypeOK, FeederReset
<1>7. CASE CreditTake \/ SendStream
  <2>1. main' \in Mains /\ wpc' \in Wpcs /\ fpc' \in Fpcs /\ ppc' \in Ppcs
    BY <1>b, <1>7 DEF CreditTake, SendStream
  <2>2. stuck' \in 0 .. STALL - 1 /\ credits' \in 0 .. CREDIT_MAX /\ inq' \in 0 .. MaxIn
    BY <1>b, <1>7 DEF CreditTake, SendStream
  <2>3. {switch', fed', same', prevsame', chan', recv', hung'} \subseteq BOOLEAN
    BY <1>b, <1>7 DEF CreditTake, SendStream
  <2>4. {frame', prev'} \subseteq Bufs \cup {NoFrame, Stale} /\ out' \subseteq Bufs /\ lost' \subseteq Bufs
    BY <1>b, <1>7 DEF CreditTake, SendStream
  <2>5. dq' \in Seq(Bufs)
    BY <1>b, <1>7 DEF CreditTake, SendStream
  <2> QED
    BY <2>1, <2>2, <2>3, <2>4, <2>5, <1>t
<1>8. CASE PumpTop \/ PumpCheck \/ ReleaseFrame \/ PumpLast
  <2>1. main' \in Mains /\ wpc' \in Wpcs /\ fpc' \in Fpcs /\ ppc' \in Ppcs
    BY <1>b, <1>8 DEF PumpTop, PumpCheck, ReleaseFrame, PumpLast
  <2>2. stuck' \in 0 .. STALL - 1 /\ credits' \in 0 .. CREDIT_MAX /\ inq' \in 0 .. MaxIn
    BY <1>b, <1>8 DEF PumpTop, PumpCheck, ReleaseFrame, PumpLast
  <2>3. {switch', fed', same', prevsame', chan', recv', hung'} \subseteq BOOLEAN
    BY <1>b, <1>8 DEF PumpTop, PumpCheck, ReleaseFrame, PumpLast
  <2>4. {frame', prev'} \subseteq Bufs \cup {NoFrame, Stale} /\ out' \subseteq Bufs /\ lost' \subseteq Bufs
    BY <1>b, <1>8 DEF PumpTop, PumpCheck, ReleaseFrame, PumpLast, Dropped
  <2>5. dq' \in Seq(Bufs)
    BY <1>b, <1>8 DEF PumpTop, PumpCheck, ReleaseFrame, PumpLast
  <2> QED
    BY <2>1, <2>2, <2>3, <2>4, <2>5, <1>t
<1>9. CASE GetFrame
  <2>1. CASE dq # <<>>
    <3>1. Head(dq) \in Bufs /\ Tail(dq) \in Seq(Bufs)
      BY <1>0, <2>1 DEF TypeOK
    <3> QED
      BY <1>0, <1>9, <2>1, <3>1 DEF TypeOK, GetFrame
  <2>2. CASE dq = <<>>
    BY <1>0, <1>9, <2>2 DEF TypeOK, GetFrame
  <2> QED
    BY <2>1, <2>2
<1>10. CASE SendFrame
  <2>1. main' \in Mains /\ wpc' \in Wpcs /\ fpc' \in Fpcs /\ ppc' \in Ppcs
    BY <1>b, <1>10 DEF SendFrame
  <2>2. stuck' \in 0 .. STALL - 1 /\ credits' \in 0 .. CREDIT_MAX /\ inq' \in 0 .. MaxIn
    BY <1>b, <1>10 DEF SendFrame, CreditPost
  <2>3. {switch', fed', same', prevsame', chan', recv', hung'} \subseteq BOOLEAN
    BY <1>b, <1>10 DEF SendFrame
  <2>4. {frame', prev'} \subseteq Bufs \cup {NoFrame, Stale} /\ out' \subseteq Bufs /\ lost' \subseteq Bufs
    BY <1>b, <1>10 DEF SendFrame, Dropped
  <2>5. dq' \in Seq(Bufs)
    BY <1>b, <1>10 DEF SendFrame
  <2> QED
    BY <2>1, <2>2, <2>3, <2>4, <2>5, <1>t
<1>11. CASE VdecDecode
  <2>1. PICK b \in Bufs : dq' \in {dq, Append(dq, b)}
    <3>1. PICK free : free = Bufs \ (out \cup {dq[i] : i \in DOMAIN dq})
      OBVIOUS
    <3>2. free # {} /\ dq' \in {dq, Append(dq, CHOOSE b \in free : TRUE)}
      BY <1>11, <3>1 DEF VdecDecode
    <3>3. (CHOOSE b \in free : TRUE) \in free
      BY <3>2, Zenon
    <3> QED
      BY <3>1, <3>2, <3>3
  <2>2. dq' \in Seq(Bufs)
    BY SMTT(30), <1>0, <2>1 DEF TypeOK
  <2> QED
    BY <1>0, <1>11, <2>2 DEF TypeOK, VdecDecode
<1>12. CASE VdecHangs
  BY <1>0, <1>12 DEF TypeOK, VdecHangs
<1>13. CASE UNCHANGED vars
  BY <1>0, <1>13 DEF TypeOK, vars
<1> QED
  BY <1>1, <1>2, <1>3, <1>4, <1>5, <1>6, <1>7, <1>8, <1>9, <1>10, <1>11, <1>12, <1>13
  DEF Next, Main, Wdog, Feeder, Pump, Finished

\* Every step keeps ThreadsInv: teardown joins each thread before it goes on,
\* and a thread that is gone, or never was, does not come back.
LEMMA ThreadsStep == PlayerInv /\ [Next]_vars => ThreadsInv'
<1> SUFFICES ASSUME PlayerInv, [Next]_vars PROVE ThreadsInv'
  OBVIOUS
<1> USE DEF thr, pump, vdec, ResetSteps, Gone
<1>0. TypeOK /\ ThreadsInv
  BY DEF PlayerInv
<1>1. CASE Main \/ MainStop \/ OnSwitch
  BY <1>0, <1>1 DEF ThreadsInv, Main, MainUp, MainFeeder, MainWdog, MainStop, MainJoin, MainDestroy,
     OnSwitch
<1>2. CASE Wdog
  <2>1. /\ UNCHANGED <<main, fpc, ppc, chan>> /\ ~Gone(wpc)
    BY <1>2 DEF Wdog, WdogLook, WdogReset
  <2> QED
    BY <1>0, <2>1 DEF ThreadsInv
<1>3. CASE Feeder
  <2>1. /\ UNCHANGED <<wpc, ppc, chan>> /\ ~Gone(fpc) /\ main' \in {main, "crashed"}
    BY <1>3 DEF Feeder, FeederOpen, FeederTop, FeederReset, CreditTake, SendStream
  <2> QED
    BY <1>0, <2>1 DEF ThreadsInv
<1>4. CASE Pump
  <2>1. /\ UNCHANGED <<wpc, fpc, main, chan>> /\ ~Gone(ppc)
    BY <1>4 DEF Pump, PumpTop, GetFrame, PumpCheck, SendFrame, ReleaseFrame, PumpLast
  <2> QED
    BY <1>0, <2>1 DEF ThreadsInv
<1>5. CASE VdecDecode \/ VdecHangs \/ UNCHANGED vars
  BY <1>0, <1>5 DEF ThreadsInv, VdecDecode, VdecHangs, vars
<1> QED
  BY <1>1, <1>2, <1>3, <1>4, <1>5 DEF Next, Finished

\* The queue stays as it is when no buffer is handed out.
LEMMA QueueFrame ==
  ASSUME QueueInv, dq' = dq, out' \subseteq out
  PROVE  QueueInv'
BY DEF QueueInv

\* A reset leaves no buffer anywhere.
LEMMA ResetHands ==
  ASSUME PlayerInv, NEW pc \in ResetSteps, ResetStep(pc), main # "up", ~Crashed,
         main' = main, ppc' = ppc, chan' = chan
  PROVE  HandsInv' /\ QueueInv' /\ OneHolder'
<1>0. TypeOK /\ HandsInv /\ QueueInv /\ OneHolder
  BY DEF PlayerInv
<1>1. CASE pc = "reset"
  <2>1. /\ dq' = <<>> /\ out' = {} /\ lost' = {} /\ frame' \in {NoFrame, Stale}
        /\ prev' \in {NoFrame, Stale} /\ (frame = NoFrame => frame' = NoFrame)
    BY <1>1, <1>0 DEF ResetStep, ResetChn, TypeOK
  <2>2. HandsInv'
    BY <1>0, <2>1 DEF HandsInv
  <2>3. QueueInv'
    BY <2>1 DEF QueueInv
  <2>4. OneHolder'
    BY <2>1 DEF OneHolder, Held
  <2> QED
    BY <2>2, <2>3, <2>4
<1>2. CASE pc # "reset"
  <2>1. UNCHANGED <<dq, out, lost, frame, prev>>
    BY <1>2 DEF ResetStep
  <2>2. HandsInv'
    BY <1>0, <2>1 DEF HandsInv
  <2>3. QueueInv'
    BY <1>0, <2>1, QueueFrame
  <2>4. OneHolder'
    BY <1>0, <2>1 DEF OneHolder, Held, Crashed
  <2> QED
    BY <2>2, <2>3, <2>4
<1> QED
  BY <1>1, <1>2

\* Every step keeps the buffers in one place each.
LEMMA HandsStep == PlayerInv /\ [Next]_vars => HandsInv' /\ QueueInv' /\ OneHolder'
<1> SUFFICES ASSUME PlayerInv, [Next]_vars PROVE HandsInv' /\ QueueInv' /\ OneHolder'
  OBVIOUS
<1> USE DEF thr, pump, vdec, ResetSteps
<1>0. TypeOK /\ ThreadsInv /\ HandsInv /\ QueueInv /\ OneHolder
  BY DEF PlayerInv
<1>a. ASSUME UNCHANGED <<dq, out, lost, frame, prev, ppc, chan>>,
             main' = "up" => main = "up", main' # "crashed" => main # "crashed"
      PROVE  HandsInv' /\ QueueInv' /\ OneHolder'
  <2>1. HandsInv'
    BY <1>0, <1>a DEF HandsInv
  <2>2. QueueInv'
    BY <1>0, <1>a, QueueFrame
  <2>3. OneHolder'
    BY <1>0, <1>a DEF OneHolder, Held, Crashed
  <2> QED
    BY <2>1, <2>2, <2>3
<1>1. CASE MainUp
  <2>1. UNCHANGED <<dq, out, lost, frame, prev>> /\ main = "up" /\ main' # "up" /\ ppc' \in {"top", "off"}
    BY <1>0, <1>1 DEF MainUp, ThreadsInv
  <2>2. HandsInv'
    BY <1>0, <2>1 DEF HandsInv
  <2>3. QueueInv'
    BY <1>0, <2>1, QueueFrame
  <2>4. OneHolder'
    BY <1>0, <2>1 DEF HandsInv, OneHolder, Held
  <2> QED
    BY <2>2, <2>3, <2>4
<1>2. CASE MainDestroy
  <2>1. /\ dq' = <<>> /\ out' = {} /\ main' = "done" /\ UNCHANGED <<frame, ppc>> /\ ~chan'
    BY <1>2 DEF MainDestroy
  <2>2. HandsInv'
    BY <1>0, <2>1 DEF HandsInv
  <2>3. QueueInv' /\ OneHolder'
    BY <2>1 DEF QueueInv, OneHolder
  <2> QED
    BY <2>2, <2>3
<1>3. CASE MainFeeder \/ MainWdog \/ MainJoin \/ MainStop \/ OnSwitch
  BY <1>3, <1>a DEF MainFeeder, MainWdog, MainJoin, MainStop, OnSwitch
<1>4. CASE Wdog
  <2>1. CASE WdogLook
    BY <2>1, <1>a DEF WdogLook
  <2>2. CASE WdogReset
    <3>1. main # "up" /\ ~Crashed
      BY <1>0, <1>4, <2>2 DEF Wdog, WdogReset, ThreadsInv
    <3> QED
      BY <2>2, <3>1, ResetHands DEF WdogReset
  <2> QED
    BY <1>4, <2>1, <2>2 DEF Wdog
<1>5. CASE Feeder
  <2>1. CASE FeederOpen \/ FeederTop \/ CreditTake \/ SendStream
    <3>1. /\ UNCHANGED <<dq, out, lost, frame, prev, ppc, chan>> /\ main' \in {main, "crashed"}
      BY <2>1 DEF FeederOpen, FeederTop, CreditTake, SendStream
    <3> QED
      BY <3>1, <1>5, <1>a DEF Feeder, Crashed
  <2>2. CASE FeederReset
    <3>1. main # "up" /\ ~Crashed
      BY <1>0, <1>5, <2>2 DEF Feeder, FeederReset, ThreadsInv
    <3> QED
      BY <2>2, <3>1, ResetHands DEF FeederReset
  <2> QED
    BY <1>5, <2>1, <2>2 DEF Feeder
<1>6. CASE Pump
  <2>0. main # "up" /\ main # "crashed" /\ UNCHANGED <<main, chan>>
    BY <1>0, <1>6 DEF Pump, PumpTop, GetFrame, PumpCheck, SendFrame, ReleaseFrame, PumpLast,
       ThreadsInv, Crashed
  <2>a. chan => /\ out = Held \cup lost /\ Held \cap lost = {}
                /\ frame \in Bufs => frame # prev
    BY <1>0, <2>0 DEF OneHolder, Crashed
  <2>b. /\ frame \in Bufs \cup {NoFrame, Stale} /\ prev \in Bufs \cup {NoFrame, Stale}
        /\ lost \subseteq Bufs /\ out \subseteq Bufs
    BY <1>0 DEF TypeOK
  <2>1. CASE PumpTop
    <3>1. UNCHANGED <<dq, out, lost, frame, prev>> /\ ppc = "top" /\ ppc' \in {"last", "get"}
      BY <2>1 DEF PumpTop
    <3>2. HandsInv'
      BY <1>0, <2>0, <3>1 DEF HandsInv
    <3>3. QueueInv'
      BY <1>0, <3>1, QueueFrame
    <3>4. OneHolder'
      BY <2>0, <2>a, <3>1 DEF OneHolder, Held
    <3> QED
      BY <3>2, <3>3, <3>4
  <2>2. CASE GetFrame /\ dq = <<>>
    <3>1. UNCHANGED <<dq, out, lost, frame, prev>> /\ ppc = "get" /\ ppc' = "top"
      BY <2>2 DEF GetFrame
    <3>2. HandsInv'
      BY <1>0, <2>0, <3>1 DEF HandsInv
    <3>3. QueueInv'
      BY <1>0, <3>1, QueueFrame
    <3>4. OneHolder'
      BY <2>0, <2>a, <3>1 DEF OneHolder, Held
    <3> QED
      BY <3>2, <3>3, <3>4
  <2>3. CASE GetFrame /\ dq # <<>>
    <3>1. PICK b \in Bufs : b = Head(dq)
      BY <1>0, <2>3 DEF TypeOK
    <3>2. /\ ppc = "get" /\ ppc' = "check" /\ frame' = b /\ dq' = Tail(dq)
          /\ out' = out \cup {b} /\ UNCHANGED <<lost, prev>>
      BY <2>3, <3>1 DEF GetFrame
    <3>3. /\ b = dq[1] /\ 1 \in 1 .. Len(dq) /\ Len(dq') = Len(dq) - 1 /\ Len(dq) \in Nat
          /\ \A i \in 1 .. Len(dq') : dq'[i] = dq[i + 1] /\ i + 1 \in 1 .. Len(dq)
      BY <1>0, <2>3, <3>1, <3>2 DEF TypeOK
    <3>4. b \notin out /\ \A i \in 1 .. Len(dq') : dq'[i] # b
      BY <1>0, <3>3 DEF QueueInv
    <3>5. QueueInv'
      BY <1>0, <3>2, <3>3, <3>4 DEF QueueInv
    <3>6. HandsInv'
      BY <2>0, <3>2 DEF HandsInv
    <3>7. frame = NoFrame
      BY <1>0, <3>2 DEF HandsInv
    <3>8. OneHolder'
      BY <2>0, <2>a, <2>b, <3>2, <3>4, <3>7 DEF OneHolder, Held
    <3> QED
      BY <3>5, <3>6, <3>8
  <2>4. CASE PumpCheck
    <3>1. /\ UNCHANGED <<dq, out, prev>> /\ ppc = "check"
          /\ \/ ppc' = "send" /\ UNCHANGED <<frame, lost>>
             \/ ppc' = "top" /\ frame' = NoFrame /\ lost' = lost \cup ({frame} \cap Bufs)
      BY <2>4 DEF PumpCheck, Dropped
    <3>2. HandsInv'
      BY <2>0, <3>1 DEF HandsInv
    <3>3. QueueInv'
      BY <1>0, <3>1, QueueFrame
    <3>4. OneHolder'
      BY <2>0, <2>a, <2>b, <3>1 DEF OneHolder, Held
    <3> QED
      BY <3>2, <3>3, <3>4
  <2>5. CASE SendFrame
    <3>1. /\ UNCHANGED <<dq, out>> /\ ppc = "send"
          /\ \/ ppc' = "rel" /\ UNCHANGED <<frame, prev, lost>>
             \/ ppc' = "rel" /\ prev' = frame /\ frame' = prev /\ UNCHANGED lost
             \/ /\ ppc' = "top" /\ prev' = frame /\ frame' = NoFrame
                /\ lost' = lost \cup ({prev} \cap Bufs)
      BY <2>5 DEF SendFrame, Dropped
    <3>2. HandsInv'
      BY <2>0, <3>1 DEF HandsInv
    <3>3. QueueInv'
      BY <1>0, <3>1, QueueFrame
    <3>4. OneHolder'
      BY <2>0, <2>a, <2>b, <3>1 DEF OneHolder, Held
    <3> QED
      BY <3>2, <3>3, <3>4
  <2>6. CASE ReleaseFrame
    <3>1. /\ UNCHANGED <<dq, prev, lost>> /\ ppc' = "top" /\ frame' = NoFrame
          /\ out' = out \ {frame}
      BY <2>6 DEF ReleaseFrame
    <3>2. HandsInv'
      BY <2>0, <3>1 DEF HandsInv
    <3>3. QueueInv'
      BY <1>0, <3>1, QueueFrame
    <3>4. OneHolder'
      BY <2>0, <2>a, <2>b, <3>1 DEF OneHolder, Held
    <3> QED
      BY <3>2, <3>3, <3>4
  <2>7. CASE PumpLast
    <3>1. /\ UNCHANGED <<dq, frame>> /\ ppc = "last" /\ ppc' = "exit" /\ prev' = NoFrame
          /\ \/ out' = out \ {prev} /\ UNCHANGED lost
             \/ out' = out /\ lost' = lost \cup ({prev} \cap Bufs)
      BY <2>7 DEF PumpLast, Dropped
    <3>2. HandsInv' /\ frame = NoFrame
      BY <1>0, <2>0, <3>1 DEF HandsInv
    <3>3. QueueInv'
      BY <1>0, <3>1, QueueFrame
    <3>4. OneHolder'
      BY <2>0, <2>a, <2>b, <3>1, <3>2 DEF OneHolder, Held
    <3> QED
      BY <3>2, <3>3, <3>4
  <2> QED
    BY <1>6, <2>1, <2>2, <2>3, <2>4, <2>5, <2>6, <2>7 DEF Pump
<1>7. CASE VdecDecode
  <2>1. PICK free : free = Bufs \ (out \cup {dq[i] : i \in DOMAIN dq})
    OBVIOUS
  <2>2. free # {} /\ dq' \in {dq, Append(dq, CHOOSE b \in free : TRUE)}
    BY <1>7, <2>1 DEF VdecDecode
  <2>3. PICK b \in free : dq' \in {dq, Append(dq, b)}
    BY <2>2, Zenon
  <2>4. b \in Bufs /\ b \notin out /\ \A i \in DOMAIN dq : dq[i] # b
    BY <2>1, <2>3
  <2>5. /\ UNCHANGED <<out, lost, frame, prev, ppc, main, chan>> /\ main # "up"
    BY <1>0, <1>7 DEF VdecDecode, ThreadsInv
  <2>6. HandsInv'
    BY <1>0, <2>5 DEF HandsInv
  <2>7. OneHolder'
    BY <1>0, <2>5 DEF OneHolder, Held, Crashed
  <2>8. QueueInv'
    <3>1. CASE dq' = dq
      BY <1>0, <2>5, <3>1, QueueFrame
    <3>2. CASE dq' = Append(dq, b)
      <4>1. /\ Len(dq) \in Nat /\ DOMAIN dq = 1 .. Len(dq) /\ Len(dq') = Len(dq) + 1
            /\ dq'[Len(dq) + 1] = b /\ \A i \in 1 .. Len(dq) : dq'[i] = dq[i]
        BY <1>0, <2>4, <3>2 DEF TypeOK
      <4>2. \A i \in 1 .. Len(dq') : i \in 1 .. Len(dq) \/ i = Len(dq) + 1
        BY <4>1
      <4> QED
        BY <1>0, <2>4, <2>5, <4>1, <4>2 DEF QueueInv
    <3> QED
      BY <2>3, <3>1, <3>2
  <2> QED
    BY <2>6, <2>7, <2>8
<1>8. CASE VdecHangs \/ UNCHANGED vars
  BY <1>8, <1>a DEF VdecHangs, vars
<1> QED
  BY <1>1, <1>2, <1>3, <1>4, <1>5, <1>6, <1>7, <1>8 DEF Next, Main, Finished

\* The invariant holds in every reachable state.
THEOREM PlayerSound == Spec => []PlayerInv
<1>1. Init => PlayerInv
  <2> SUFFICES ASSUME Init PROVE PlayerInv
    OBVIOUS
  <2>1. TypeOK
    <3>1. dq \in Seq(Bufs)
      BY DEF Init
    <3>2. stuck \in 0 .. STALL - 1 /\ credits \in 0 .. CREDIT_MAX /\ inq \in 0 .. MaxIn
      BY DEF Init
    <3>3. {switch, fed, same, prevsame, chan, recv, hung} \subseteq BOOLEAN
      BY DEF Init
    <3> QED
      BY <3>1, <3>2, <3>3 DEF Init, TypeOK
  <2>2. ThreadsInv /\ HandsInv /\ QueueInv /\ OneHolder
    BY DEF Init, ThreadsInv, HandsInv, QueueInv, OneHolder
  <2> QED
    BY <2>1, <2>2 DEF PlayerInv
<1>2. PlayerInv /\ [Next]_vars => PlayerInv'
  BY TypeStep, ThreadsStep, HandsStep DEF PlayerInv
<1> QED
  BY <1>1, <1>2, PTL DEF Spec

\* Whatever the four threads do, each decoded buffer is in one hand, the
\* credits stay in their window, and nobody is left to call a channel that
\* was destroyed.
THEOREM PlayerKeepsFrames == Spec => []PlayerSafe
<1>1. PlayerInv => PlayerSafe
  BY DEF PlayerInv, ThreadsInv, TypeOK, TeardownOrder, PlayerSafe, Gone
<1> QED
  BY <1>1, PlayerSound, PTL
=============================================================================
