------------------------------ MODULE AtomicList ------------------------------
(***************************************************************************)
(* AtomicList (util/atomic_list.hpp): chunks, linked from the newest back  *)
(* to the oldest.  Chunks have numbers in the order in which they are      *)
(* appended, and are never reused: a number stands for a control block and *)
(* its memory, which is released with the last shared_ptr to it.           *)
(***************************************************************************)
EXTENDS Integers

CONSTANT MaxChunk   \* bound: chunks that are ever appended

ASSUME AtomicListAssumption == MaxChunk \in Nat \ {0}

NoChunk == 0                        \* nullptr, and rend()
Chunk == 1..MaxChunk

VARIABLES head, prev, deleted

listVars == <<head, prev, deleted>>

ListTypeOK ==
  /\ head \in Chunk \union {NoChunk}
  /\ prev \in [Chunk -> Chunk \union {NoChunk}]
  /\ deleted \in [Chunk -> BOOLEAN]

\* allocate_item
NewChunk == head + 1

\* append_item, and try_append_first_item where the list is empty: the new
\* chunk gets the old head as its predecessor.  The loop around the exchange
\* is over when nobody has come in between.
AppendItem ==
  /\ NewChunk \in Chunk
  /\ prev' = [prev EXCEPT ![NewChunk] = head]
  /\ head' = NewChunk
  /\ UNCHANGED deleted

\* Shared pointers keep chunk d alive from c on: it is in every set of chunks
\* that has c and with a chunk its predecessor.
Reaches(c, d) ==
  \A S \in SUBSET Chunk :
    /\ c # NoChunk => c \in S
    /\ \A e \in S : prev[e] # NoChunk => prev[e] \in S
    => d \in S

\* skip_deleted_prev, where nobody else changes the list: the nearest chunk
\* that is not deleted.
NotDeleted[c \in Chunk \union {NoChunk}] ==
  IF c = NoChunk \/ ~ deleted[c] THEN c ELSE NotDeleted[prev[c]]
=============================================================================
