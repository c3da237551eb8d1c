------------------------------- MODULE Chunking -------------------------------
(***************************************************************************)
(* How the blocks of a document become its chunks (app/core/chunking.py,   *)
(* chunk_document_blocks and chunk_parsed_document, which cut alike).  A   *)
(* step is one iteration of the loop over the blocks.                      *)
(*                                                                         *)
(* The list current_units of the code always is a run of consecutive       *)
(* units that ends before the next one: the units first .. next - 1.       *)
(*                                                                         *)
(* A document is given by the position of its units in its text, counted   *)
(* in tokens: unit i is made of the tokens position[i] .. position[i+1]-1. *)
(* Every unit has at least one token, blocks of white space are left out   *)
(* before the loop.                                                        *)
(***************************************************************************)
EXTENDS Naturals, Sequences

CONSTANTS Documents, \* the possible values of position
          Target,    \* target_token_size of the policy
          Overlap    \* its overlap_token_size

\* validate_chunk_policy
ASSUME PolicyAssumption ==
  Target \in Nat \ {0} /\ Overlap \in Nat /\ Overlap < Target

ASSUME DocumentsAssumption ==
  \A d \in Documents :
    /\ d \in Seq(Nat) /\ Len(d) > 0
    /\ \A i, j \in 1 .. Len(d) : i < j => d[i] < d[j]

VARIABLES position, \* of the units of the document, and where it ends
          headings, \* the units that are headings
          chunks,   \* the chunks cut so far, as runs of units
          first,    \* the first of current_units, next if there are none
          next      \* the next unit

document == <<position, headings, chunks, first, next>>

Units == Len(position) - 1

\* The tokens of the units i .. j.
Tokens(i, j) == position[j + 1] - position[i]

Run == [first : Nat, last : Nat]

ChunkerTypeOK ==
  /\ position \in Seq(Nat) /\ Len(position) > 0
  /\ headings \subseteq 1 .. Units
  /\ chunks \in Seq(Run)
  /\ next \in 1 .. Units + 1
  /\ first \in 1 .. next

ChunkerInit ==
  /\ position \in Documents
  /\ headings \in SUBSET (1 .. Units)
  /\ chunks = <<>>
  /\ first = 1
  /\ next = 1

Current == [first |-> first, last |-> next - 1]

\* Mutant: a heading is a unit like the others.
AtHeading_Never == FALSE

AtHeading == next \in headings /\ first < next

CutAtHeading ==
  /\ next <= Units /\ AtHeading
  /\ chunks' = Append(chunks, Current)
  /\ first' = next
  /\ next' = next + 1
  /\ UNCHANGED <<position, headings>>

Extend ==
  /\ next <= Units /\ ~AtHeading
  /\ first < next => Tokens(first, next) <= Target
  /\ next' = next + 1
  /\ UNCHANGED <<position, headings, chunks, first>>

\* _overlap_tail: the last unit, and those before it while they fit into the overlap.
IsTail(i) ==
  /\ i \in first .. next - 1
  /\ i = next - 1 \/ Tokens(i, next - 1) <= Overlap
  /\ \A j \in first .. i - 1 : Tokens(j, next - 1) > Overlap

\* Mutant: the tail is kept although it leaves no room for the next unit.
Restart_Kept(i) == IF Overlap = 0 THEN next ELSE i

\* Where the next chunk starts, after a tail that starts with unit i.
Restart(i) == IF Overlap = 0 \/ Tokens(i, next) > Target THEN next ELSE i

CutAtTarget ==
  /\ next <= Units /\ ~AtHeading
  /\ first < next /\ Tokens(first, next) > Target
  /\ chunks' = Append(chunks, Current)
  /\ \E i \in first .. next - 1 : IsTail(i) /\ first' = Restart(i)
  /\ next' = next + 1
  /\ UNCHANGED <<position, headings>>

CutAtEnd ==
  /\ next > Units /\ first < next
  /\ chunks' = Append(chunks, Current)
  /\ first' = next
  /\ UNCHANGED <<position, headings, next>>

ChunkerNext == CutAtHeading \/ Extend \/ CutAtTarget \/ CutAtEnd

ChunkerDone == next > Units /\ first = next

-------------------------------------------------------------------------------
(* Properties *)

\* What is to be said of two neighbouring chunks: no unit between them is lost, and
\* each of them has one that the other has not.
Follows(d, c) ==
  /\ d.first <= c.last + 1
  /\ c.first < d.first /\ c.last < d.last

\* The chunks of a document cover it in order, and the overlap never makes a chunk
\* that lies within its neighbour: an overlap as long as the chunk before it would
\* repeat that chunk.
ChunksCoverInOrder ==
  /\ \A n \in DOMAIN chunks :
       /\ chunks[n].first <= chunks[n].last
       /\ IF n = 1 THEN chunks[n].first = 1 ELSE Follows(chunks[n], chunks[n - 1])
  /\ ChunkerDone /\ Units > 0 => chunks # <<>> /\ chunks[Len(chunks)].last = Units

\* A run of units that may be a chunk: only a single unit exceeds the target, and a
\* heading comes first.
WellFormed(c) ==
  /\ c.first = c.last \/ Tokens(c.first, c.last) <= Target
  /\ \A i \in headings : i \in c.first .. c.last => i = c.first

\* Every chunk is well-formed, so no text is repeated on both sides of a heading,
\* although the overlap is cut from a chunk that begins with one.
ChunksWellFormed == \A n \in DOMAIN chunks : WellFormed(chunks[n])

===============================================================================
