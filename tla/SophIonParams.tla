----------------------------- MODULE SophIonParams ---------------------------
(* What SophIon is parameterised by, and what it assumes of it. *)
EXTENDS Naturals, FiniteSets

CONSTANTS
  Threads,  \* the contexts that call in
  IonBufs,  \* struct ion_buffer
  Dbs,      \* struct dma_buf
  Sizes,    \* the page-aligned lengths asked for
  Budget,   \* ION_BUDGET
  MaxFiles, \* the references a dma-buf's file may have: fds, VMAs, importers
  Null       \* no buffer, no dma-buf

ASSUME IonAssumption ==
  /\ Sizes \subseteq Nat \ {0}
  /\ Budget \in Nat /\ MaxFiles \in Nat \ {0}
  /\ Null \notin IonBufs \cup Dbs

\* Finitely many of each exist, and a reference's holder is a thread, a dma-buf
\* or the list, never two of them.
ASSUME HolderAssumption ==
  /\ IsFiniteSet(Threads) /\ IsFiniteSet(IonBufs) /\ IsFiniteSet(Dbs)
  /\ Threads \cap Dbs = {} /\ "list" \notin Threads \cup Dbs

=============================================================================
