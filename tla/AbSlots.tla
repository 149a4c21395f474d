------------------------------- MODULE AbSlots -------------------------------
(***************************************************************************)
(* What the A/B scheme promises, without its files, counters and scripts:  *)
(* a slot that boots a build goes on booting that build until it is taken  *)
(* out of the running, and comes back into it only with a whole build.     *)
(***************************************************************************)
CONSTANTS Slots, Images, Nothing

VARIABLE boots \* the build each slot boots, or Nothing

Init == boots \in [Slots -> Images \cup {Nothing}]

\* Some slots stop booting: attempts used up, made unbootable, erased.
Retire(S) ==
  boots' = [s \in Slots |-> IF s \in S THEN Nothing ELSE boots[s]]

\* Slots that boot nothing get a build each.
Publish(S, new) ==
  /\ \A s \in S : boots[s] = Nothing
  /\ boots' = [s \in Slots |-> IF s \in S THEN new[s] ELSE boots[s]]

Next ==
  \E S \in SUBSET Slots :
    Retire(S) \/ \E new \in [Slots -> Images] : Publish(S, new)

Spec == Init /\ [][Next]_boots
=============================================================================
