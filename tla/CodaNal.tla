------------------------------ MODULE CodaNal -------------------------------
(***************************************************************************)
(* nal_wrap of coda-cube: a NAL unit's payload (RBSP) gets an emulation    *)
(* prevention byte wherever two zero bytes are followed by a byte of at    *)
(* most 3.  A fast path copies a word of bytes that are all above 3 at     *)
(* once; it starts anywhere, so words and single bytes alternate.  What    *)
(* the decoder reads back must be the payload, and no start code may       *)
(* appear in the middle of a unit.                                         *)
(***************************************************************************)
EXTENDS Naturals, Sequences, FiniteSets

CONSTANTS Bytes,   \* values of a byte: some at most 3, some above
          WORD,    \* 8: bytes of the fast path
          MaxLen   \* bound: bytes of a payload

VARIABLES rbsp,    \* the payload
          i, z,    \* the loop's index (from 1) and its run of zeros
          out      \* the unit, after its start code and header

vars == <<rbsp, i, z, out>>

Payloads == UNION {[1..l -> Bytes] : l \in 0..MaxLen}

Start(s) == rbsp = s /\ i = 1 /\ z = 0 /\ out = << >>

Init == \E s \in Payloads : Start(s)

\* The next WORD bytes are all there and all above 3.
WordClean == /\ i + WORD - 1 <= Len(rbsp)
             /\ \A j \in i..(i + WORD - 1) : rbsp[j] > 3

\* The fast path: a word of them, which ends any run of zeros.
CopyWord ==
    /\ i <= Len(rbsp) /\ WordClean
    /\ out' = out \o SubSeq(rbsp, i, i + WORD - 1)
    /\ i' = i + WORD
    /\ z' = 0
    /\ UNCHANGED rbsp

Escapes(b) == z >= 2 /\ b <= 3

\* One byte, escaped after two zeros.
CopyByte ==
    /\ i <= Len(rbsp) /\ ~ WordClean
    /\ LET b == rbsp[i]
           run == IF Escapes(b) THEN 0 ELSE z
       IN  /\ out' = out \o (IF Escapes(b) THEN <<3, b>> ELSE <<b>>)
           /\ z' = IF b = 0 THEN run + 1 ELSE 0
    /\ i' = i + 1
    /\ UNCHANGED rbsp

Next == CopyWord \/ CopyByte

-----------------------------------------------------------------------------
\* What a decoder drops of the unit's first j bytes: every 3 after two zeros.
Dropped(j) == {d \in 3..j : out[d] = 3 /\ out[d - 1] = 0 /\ out[d - 2] = 0}

\* At every point of the loop the decoder reads back exactly the bytes wrapped
\* so far, however words and bytes alternated: as many as the loop has passed,
\* and each byte that is left where the payload has it.
ReadsBack ==
    /\ Len(out) - Cardinality(Dropped(Len(out))) = i - 1
    /\ \A j \in 1..Len(out) :
         j \notin Dropped(j) => out[j] = rbsp[j - Cardinality(Dropped(j))]

\* No unit holds a start code or its prefix: two zeros are never followed by a
\* byte of at most 2.
NoStartCode == \A j \in 1..(Len(out) - 2) :
                   out[j] = 0 /\ out[j + 1] = 0 => out[j + 2] > 2
=============================================================================
