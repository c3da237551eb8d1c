---------------------------- MODULE RetrievalProofs ---------------------------
(***************************************************************************)
(* Theorems about Retrieval: Chunking, for every policy and every          *)
(* document, Fusion, for every rrf_k and any lists, the packing of the     *)
(* context, for every budget and any results, and the searches between     *)
(* them, for every list of profiles.                                       *)
(*                                                                         *)
(* Chunking: the units that are not cut yet, first .. next - 1, would make *)
(* a well-formed chunk, and one that goes on where the last chunk ended.   *)
(* The overlap is where this could fail.  The tail that is kept is shorter *)
(* than the chunk it is taken from, because that chunk and the next unit   *)
(* exceed the target while the tail and the next unit do not; so it leaves *)
(* the first unit of that chunk out, and with it the only heading the      *)
(* chunk may have.                                                         *)
(*                                                                         *)
(* Fusion: the scores are fractions, so comparing them is comparing        *)
(* products, and the order they give is an order.                          *)
(*                                                                         *)
(* Packing: only an included text uses room, and it is included only where *)
(* there is room; so once something was left out for want of room, there   *)
(* never is room again.                                                    *)
(*                                                                         *)
(* Searching: the results of a profile are entered once and together, and  *)
(* sorting a finite set by a strict total order loses none of it, so what  *)
(* is true of the first fused chunk is true of the first result.           *)
(***************************************************************************)
EXTENDS Retrieval, FiniteSetTheorems, TLAPS

Typed ==
  /\ position \in Documents
  /\ headings \subseteq 1 .. Units
  /\ chunks \in Seq(Run)
  /\ next \in 1 .. Units + 1
  /\ first \in 1 .. next

LastChunk == chunks[Len(chunks)]

\* The chunks follow each other.
Chained ==
  \A n \in DOMAIN chunks :
    /\ chunks[n].first <= chunks[n].last
    /\ IF n = 1 THEN chunks[n].first = 1 ELSE Follows(chunks[n], chunks[n - 1])

\* The units that are not cut yet go on where the last chunk ended.
Joined ==
  IF chunks = <<>> THEN first = 1
  ELSE IF first < next THEN Follows(Current, LastChunk) ELSE LastChunk.last = next - 1

\* They may be a chunk.
Open == first < next => WellFormed(Current)

ChunksInv == Typed /\ Chained /\ Joined /\ ChunksWellFormed /\ Open

LEMMA UnitsType ==
  ASSUME Typed PROVE Units \in Nat /\ Len(position) > 0 /\ position \in Seq(Nat)
  BY DocumentsAssumption DEF Typed, Units

LEMMA TypedType == Typed => ChunkerTypeOK
  BY UnitsType DEF Typed, ChunkerTypeOK

-------------------------------------------------------------------------------
(* The chunk that is cut *)

\* Cutting off the open units leaves the chunks chained and well-formed.
LEMMA CutChains ==
  ASSUME ChunksInv, first < next, chunks' = Append(chunks, Current)
  PROVE  /\ chunks' \in Seq(Run) /\ chunks' # <<>> /\ LastChunk' = Current
         /\ Chained'
<1>1. Units \in Nat /\ next \in Nat /\ first \in Nat /\ first >= 1 /\ chunks \in Seq(Run)
  BY UnitsType DEF ChunksInv, Typed
<1>2. Current \in Run /\ Current.first = first /\ Current.last = next - 1
  BY <1>1 DEF Current, Run
<1>3. /\ chunks' \in Seq(Run) /\ Len(chunks') = Len(chunks) + 1
      /\ DOMAIN chunks' = 1 .. Len(chunks) + 1
      /\ chunks'[Len(chunks) + 1] = Current
      /\ \A n \in 1 .. Len(chunks) : chunks'[n] = chunks[n]
      /\ Len(chunks) \in Nat
  BY <1>1, <1>2
<1>4. chunks' # <<>> /\ LastChunk' = Current
  BY <1>3 DEF LastChunk
<1>5. ASSUME NEW n \in DOMAIN chunks'
      PROVE  /\ chunks'[n].first <= chunks'[n].last
             /\ IF n = 1 THEN chunks'[n].first = 1 ELSE Follows(chunks'[n], chunks'[n - 1])
  <2>1. CASE n \in 1 .. Len(chunks)
    <3>1. /\ chunks[n].first <= chunks[n].last
          /\ IF n = 1 THEN chunks[n].first = 1 ELSE Follows(chunks[n], chunks[n - 1])
      BY <2>1, <1>1 DEF ChunksInv, Chained
    <3>2. n # 1 => n - 1 \in 1 .. Len(chunks)
      BY <2>1, <1>3
    <3> QED
      BY <3>1, <3>2, <2>1, <1>3
  <2>2. CASE n = Len(chunks) + 1
    <3>1. chunks'[n] = Current /\ Current.first <= Current.last
      BY <2>2, <1>3, <1>2, <1>1
    <3>2. CASE chunks = <<>>
      BY <3>1, <3>2, <2>2, <1>2, <1>3 DEF ChunksInv, Joined
    <3>3. CASE chunks # <<>>
      <4>1. Len(chunks) \in 1 .. Len(chunks) /\ n # 1 /\ n - 1 = Len(chunks)
        BY <3>3, <2>2, <1>1, <1>3
      <4>2. chunks'[n - 1] = LastChunk
        BY <4>1, <1>3 DEF LastChunk
      <4>3. Follows(Current, LastChunk)
        BY <3>3 DEF ChunksInv, Joined
      <4> QED
        BY <4>1, <4>2, <4>3, <3>1
    <3> QED
      BY <3>2, <3>3
  <2> QED
    BY <2>1, <2>2, <1>3
<1>6. Chained'
  BY <1>5 DEF Chained, Follows
<1> QED
  BY <1>3, <1>4, <1>6

LEMMA CutIsWellFormed ==
  ASSUME ChunksInv, first < next, chunks' = Append(chunks, Current),
         position' = position, headings' = headings
  PROVE  ChunksWellFormed'
<1>1. chunks \in Seq(Run) /\ Current \in Run
  BY UnitsType DEF ChunksInv, Typed, Current, Run
<1>2. WellFormed(Current)
  BY DEF ChunksInv, Open
<1>3. ASSUME NEW n \in DOMAIN chunks' PROVE WellFormed(chunks'[n])
  <2>1. CASE n \in DOMAIN chunks
    BY <2>1, <1>1 DEF ChunksInv, ChunksWellFormed
  <2>2. CASE n = Len(chunks) + 1
    BY <2>2, <1>1, <1>2
  <2> QED
    BY <2>1, <2>2, <1>1
<1> QED
  BY <1>3 DEF ChunksWellFormed, WellFormed, Tokens
-------------------------------------------------------------------------------
(* The steps *)

LEMMA ChunkerInitInv == ChunkerInit => ChunksInv
<1> SUFFICES ASSUME ChunkerInit PROVE ChunksInv
  OBVIOUS
<1>1. Typed
  <2>1. Units \in Nat
    BY DocumentsAssumption DEF ChunkerInit, Units
  <2> QED
    BY <2>1 DEF ChunkerInit, Typed
<1> QED
  BY <1>1 DEF ChunksInv, ChunkerInit, Chained, Joined, ChunksWellFormed, Open

\* The next unit alone is a well-formed chunk that goes on behind the one cut.
LEMMA StartsAtNext ==
  ASSUME ChunksInv, first < next, next <= Units,
         chunks' = Append(chunks, Current), first' = next, next' = next + 1,
         position' = position, headings' = headings
  PROVE  ChunksInv'
<1>1. Units \in Nat /\ next \in Nat /\ first \in Nat /\ 1 <= first /\ 1 <= next
  BY UnitsType DEF ChunksInv, Typed
<1>2. /\ chunks' \in Seq(Run) /\ chunks' # <<>> /\ LastChunk' = Current
      /\ Chained' /\ ChunksWellFormed'
  BY CutChains, CutIsWellFormed
<1>3. Typed'
  BY <1>1, <1>2 DEF ChunksInv, Typed, Units
<1>4. Joined'
  <2>1. Follows([first |-> next, last |-> next], Current)
    BY <1>1 DEF Follows, Current
  <2> QED
    BY <2>1, <1>1, <1>2 DEF Joined, Current, Follows
<1>5. Open'
  BY <1>1 DEF Open, WellFormed, Current
<1> QED
  BY <1>2, <1>3, <1>4, <1>5 DEF ChunksInv

LEMMA ExtendInv == ASSUME ChunksInv, Extend PROVE ChunksInv'
<1>1. Units \in Nat /\ next \in Nat /\ first \in Nat /\ 1 <= first /\ first <= next
  BY UnitsType DEF ChunksInv, Typed
<1>2. Typed'
  BY <1>1 DEF ChunksInv, Typed, Extend, Units
<1>3. Chained' /\ ChunksWellFormed'
  BY DEF ChunksInv, Chained, ChunksWellFormed, Extend, WellFormed, Tokens, Follows
<1>4. Joined'
  <2>1. CASE chunks = <<>>
    BY <2>1 DEF ChunksInv, Joined, Extend
  <2>2. CASE chunks # <<>>
    <3>1. LastChunk \in Run /\ LastChunk.first <= LastChunk.last
      <4>1. Len(chunks) \in DOMAIN chunks
        BY <2>2 DEF ChunksInv, Typed
      <4> QED
        BY <4>1 DEF ChunksInv, Typed, Chained, LastChunk
    <3>2. LastChunk.first \in Nat /\ LastChunk.last \in Nat
      BY <3>1 DEF Run
    <3>3. CASE first < next
      <4>1. LastChunk.last < next /\ LastChunk.first < first /\ first <= LastChunk.last + 1
        BY <2>2, <3>2, <3>3, <1>1 DEF ChunksInv, Joined, Follows, Current
      <4> QED
        BY <4>1, <3>2, <1>1, <2>2 DEF Joined, Extend, Follows, Current, LastChunk
    <3>4. CASE first = next
      <4>1. LastChunk.last = next - 1
        BY <2>2, <3>4, <1>1 DEF ChunksInv, Joined
      <4> QED
        BY <4>1, <3>1, <3>2, <3>4, <1>1, <2>2 DEF Joined, Extend, Follows, Current, LastChunk
    <3> QED
      BY <3>3, <3>4, <1>1
  <2> QED
    BY <2>1, <2>2
<1>5. Open'
  <2>1. CASE first < next
    BY <2>1, <1>1 DEF ChunksInv, Open, WellFormed, Current, Extend, AtHeading, Tokens
  <2>2. CASE first = next
    BY <2>2, <1>1 DEF Open, WellFormed, Current, Extend
  <2> QED
    BY <2>1, <2>2, <1>1
<1> QED
  BY <1>2, <1>3, <1>4, <1>5 DEF ChunksInv

\* The tail of the chunk that is cut, and the next unit.
LEMMA StartsWithTail ==
  ASSUME ChunksInv, CutAtTarget, NEW i \in first .. next - 1, first' = i, Tokens(i, next) <= Target
  PROVE  ChunksInv'
<1>1. Units \in Nat /\ next \in Nat /\ first \in Nat /\ 1 <= first /\ i \in Nat
  BY UnitsType DEF ChunksInv, Typed
<1>2. /\ first < next /\ next <= Units /\ next \notin headings
      /\ chunks' = Append(chunks, Current) /\ next' = next + 1
      /\ position' = position /\ headings' = headings
      /\ Tokens(first, next) > Target
  BY DEF CutAtTarget, AtHeading
<1>3. /\ chunks' \in Seq(Run) /\ chunks' # <<>> /\ LastChunk' = Current
      /\ Chained' /\ ChunksWellFormed'
  BY <1>2, CutChains, CutIsWellFormed
<1>4. first < i
  <2>1. Tokens(first, next) \in Int /\ Target \in Int
    <3>1. position[next + 1] \in Nat /\ position[first] \in Nat
      BY <1>1, <1>2, UnitsType DEF Units, ChunksInv
    <3> QED
      BY <3>1, PolicyAssumption DEF Tokens
  <2>2. i # first
    BY <2>1, <1>2
  <2> QED
    BY <2>2, <1>1
<1>5. Typed'
  BY <1>1, <1>2, <1>3 DEF ChunksInv, Typed, Units
<1>6. Joined'
  <2>1. Follows([first |-> i, last |-> next], Current)
    BY <1>1, <1>2, <1>4 DEF Follows, Current
  <2> QED
    BY <2>1, <1>1, <1>2, <1>3 DEF Joined, Current, Follows
<1>7. Open'
  <2>1. Current' = [first |-> i, last |-> next]
    BY <1>1, <1>2 DEF Current
  <2>2. ASSUME NEW j \in headings, j \in i .. next PROVE FALSE
    <3>1. j \in first .. next - 1
      BY <2>2, <1>1, <1>2, <1>4
    <3>2. j = first
      BY <3>1, <1>2 DEF ChunksInv, Open, WellFormed, Current
    <3> QED
      BY <3>2, <2>2, <1>1, <1>4
  <2> QED
    BY <2>1, <2>2, <1>2 DEF Open, WellFormed, Tokens
<1> QED
  BY <1>3, <1>5, <1>6, <1>7 DEF ChunksInv

LEMMA CutAtTargetInv == ASSUME ChunksInv, CutAtTarget PROVE ChunksInv'
<1>1. PICK i \in first .. next - 1 : first' = Restart(i)
  BY DEF CutAtTarget
<1>2. CASE Overlap = 0 \/ Tokens(i, next) > Target
  <2>1. first' = next
    BY <1>1, <1>2 DEF Restart
  <2> QED
    BY <2>1, StartsAtNext DEF CutAtTarget
<1>3. CASE ~(Overlap = 0 \/ Tokens(i, next) > Target)
  <2>1. first' = i
    BY <1>1, <1>3 DEF Restart
  <2>2. Tokens(i, next) \in Int /\ Target \in Int
    <3>1. /\ Units \in Nat /\ next \in Nat /\ 1 <= first /\ first \in Nat /\ next <= Units
      BY UnitsType DEF ChunksInv, Typed, CutAtTarget
    <3>2. position[next + 1] \in Nat /\ position[i] \in Nat
      BY <3>1, UnitsType DEF ChunksInv, Units
    <3> QED
      BY <3>2, PolicyAssumption DEF Tokens
  <2>3. Tokens(i, next) <= Target
    BY <1>3, <2>2
  <2> QED
    BY <2>1, <2>3, StartsWithTail
<1> QED
  BY <1>2, <1>3

LEMMA CutAtEndInv == ASSUME ChunksInv, CutAtEnd PROVE ChunksInv'
<1>1. Units \in Nat /\ next \in Nat /\ first \in Nat /\ 1 <= first /\ 1 <= next
  BY UnitsType DEF ChunksInv, Typed
<1>2. /\ first < next /\ first' = next /\ next' = next
      /\ chunks' = Append(chunks, Current)
      /\ position' = position /\ headings' = headings
  BY DEF CutAtEnd
<1>3. /\ chunks' \in Seq(Run) /\ chunks' # <<>> /\ LastChunk' = Current
      /\ Chained' /\ ChunksWellFormed'
  BY <1>2, CutChains, CutIsWellFormed
<1>4. Typed'
  BY <1>1, <1>2, <1>3 DEF ChunksInv, Typed, Units
<1>5. Joined' /\ Open'
  BY <1>1, <1>2, <1>3 DEF Joined, Open, Current
<1> QED
  BY <1>3, <1>4, <1>5 DEF ChunksInv

LEMMA ChunkerNextInv == ChunksInv /\ [ChunkerNext]_document => ChunksInv'
<1> SUFFICES ASSUME ChunksInv, [ChunkerNext]_document PROVE ChunksInv'
  OBVIOUS
<1>1. CASE CutAtHeading
  BY <1>1, StartsAtNext DEF CutAtHeading, AtHeading
<1>2. CASE Extend
  BY <1>2, ExtendInv
<1>3. CASE CutAtTarget
  BY <1>3, CutAtTargetInv
<1>4. CASE CutAtEnd
  BY <1>4, CutAtEndInv
<1>5. CASE UNCHANGED document
  <2>1. Typed' /\ Chained' /\ Joined' /\ ChunksWellFormed' /\ Open'
    BY <1>5 DEF document, ChunksInv, Typed, Chained, Joined, ChunksWellFormed, Open, Units, LastChunk,
                Current, Follows, WellFormed, Tokens
  <2> QED
    BY <2>1 DEF ChunksInv
<1> QED
  BY <1>1, <1>2, <1>3, <1>4, <1>5 DEF ChunkerNext

-------------------------------------------------------------------------------
(* The theorems *)

\* The chunker is the only one that touches the chunks of a document.
LEMMA NextCuts == [Next]_vars => [ChunkerNext]_document
<1> SUFFICES ASSUME [Next]_vars PROVE [ChunkerNext]_document
  OBVIOUS
<1>1. CASE Cut
  BY <1>1 DEF Cut
<1>2. CASE Ask \/ SearchProfile \/ FailProfile \/ OpenLog \/ Pack
  BY <1>2 DEF Ask, SearchProfile, FailProfile, OpenLog, Pack
<1>3. CASE UNCHANGED vars
  BY <1>3 DEF vars
<1> QED
  BY <1>1, <1>2, <1>3 DEF Next

LEMMA ChunksInvHolds == Spec => []ChunksInv
<1>1. Init => ChunksInv
  BY ChunkerInitInv DEF Init
<1>2. ChunksInv /\ [Next]_vars => ChunksInv'
  BY NextCuts, ChunkerNextInv
<1> QED
  BY <1>1, <1>2, PTL DEF Spec

\* The loop of the chunker keeps the type of its state for every document.
THEOREM ChunkerTypeCorrect == Spec => []ChunkerTypeOK
<1>1. ChunksInv => ChunkerTypeOK
  BY TypedType DEF ChunksInv
<1> QED
  BY <1>1, ChunksInvHolds, PTL

\* For every policy that validate_chunk_policy accepts, the chunks of a document cover
\* it in order, and none lies within its neighbour.
THEOREM ChunksCoverInOrderHolds == Spec => []ChunksCoverInOrder
<1>1. ChunksInv => ChunksCoverInOrder
  <2> SUFFICES ASSUME ChunksInv PROVE ChunksCoverInOrder
    OBVIOUS
  <2>1. ASSUME ChunkerDone, Units > 0 PROVE chunks # <<>> /\ chunks[Len(chunks)].last = Units
    <3>1. Units \in Nat /\ next = Units + 1 /\ first = next
      BY <2>1, UnitsType DEF ChunksInv, Typed, ChunkerDone
    <3> QED
      BY <3>1, <2>1 DEF ChunksInv, Joined, LastChunk
  <2> QED
    BY <2>1 DEF ChunksInv, Chained, ChunksCoverInOrder
<1> QED
  BY <1>1, ChunksInvHolds, PTL

\* For every such policy only a chunk of one unit exceeds the target, and a heading is
\* the first unit of its chunk.
THEOREM ChunksWellFormedHolds == Spec => []ChunksWellFormed
<1>1. ChunksInv => ChunksWellFormed
  BY DEF ChunksInv
<1> QED
  BY <1>1, ChunksInvHolds, PTL

-------------------------------------------------------------------------------
(* The package *)

\* The chunks lie within the document.
Within == chunks \in Seq([first : 1 .. Units, last : 1 .. Units])

\* The entries, whatever the results name.
Packed(C, P) ==
  Seq([chunk : C, profile : P, reason : Reasons, length : Int, supporting : Nat])

\* Results are packed when all chunks are cut.
Staged ==
  /\ stage # "cutting" => ChunkerDone
  /\ entries # <<>> => stage # "cutting"
  /\ entries = <<>> => used = 0

\* Once something did not fit, nothing will.
Spent ==
  (\E j \in DOMAIN entries : entries[j].reason = "context_budget_exceeded") => NoRoom

PackInv ==
  /\ ChunksInv /\ Within /\ Staged /\ Spent /\ BudgetCutsATail
  /\ used \in Int
  /\ \E C, P : entries \in Packed(C, P)

LEMMA WithinHolds == ChunksInv /\ Within /\ [ChunkerNext]_document => Within'
<1> SUFFICES ASSUME ChunksInv, Within, [ChunkerNext]_document PROVE Within'
  OBVIOUS
<1>1. Units \in Nat /\ next \in 1 .. Units + 1 /\ first \in 1 .. next /\ first \in Nat
  BY UnitsType DEF ChunksInv, Typed
<1>2. ASSUME first < next PROVE Current \in [first : 1 .. Units, last : 1 .. Units]
  BY <1>1, <1>2 DEF Current
<1>3. position' = position /\ Units' = Units
  BY DEF ChunkerNext, document, CutAtHeading, Extend, CutAtTarget, CutAtEnd, Units
<1>4. chunks' = chunks \/ (first < next /\ chunks' = Append(chunks, Current))
  BY DEF ChunkerNext, document, CutAtHeading, Extend, CutAtTarget, CutAtEnd, AtHeading
<1> DEFINE S == [first : 1 .. Units, last : 1 .. Units]
<1>5. chunks \in Seq(S)
  BY DEF Within
<1>6. chunks' \in Seq(S)
  <2> HIDE DEF S
  <2>1. first < next => Append(chunks, Current) \in Seq(S)
    BY <1>2, <1>5 DEF S
  <2> QED
    BY <1>4, <1>5, <2>1
<1> QED
  BY <1>3, <1>6 DEF Within

\* What BudgetCutsATail says of one text.
Whole(i) ==
  \/ entries[i].length = Rendered(entries[i].chunk)
  \/ entries[i].length >= MinTruncated - 1

LEMMA WholeIsKept ==
  ASSUME NEW i, Whole(i), UNCHANGED document,
         entries'[i].chunk = entries[i].chunk, entries'[i].length = entries[i].length
  PROVE  Whole(i)'
<1>1. chunks' = chunks /\ position' = position
  BY DEF document
<1> QED
  BY <1>1 DEF Whole, Rendered, Text, Ids, Tokens

LEMMA TextLength ==
  ASSUME ChunksInv, Within, NEW d PROVE Text(d) \in Nat
<1>1. CASE d \in Ids
  <2> DEFINE S == [first : 1 .. Units, last : 1 .. Units]
  <2>0. chunks \in Seq(S)
    BY DEF Within
  <2> HIDE DEF S
  <2>1. chunks[d] \in S
    BY <1>1, <2>0 DEF Ids
  <2> USE DEF S
  <2>2. chunks[d].first \in 1 .. Units /\ chunks[d].last \in 1 .. Units
    BY <2>1
  <2>3. /\ position[chunks[d].first] \in Nat /\ position[chunks[d].last + 1] \in Nat
        /\ position[chunks[d].first] < position[chunks[d].last + 1]
    <3>1. position \in Seq(Nat) /\ Units \in Nat /\ Len(position) = Units + 1
      BY UnitsType DEF ChunksInv, Units
    <3>2. chunks[d].first \in 1 .. Len(position) /\ chunks[d].last + 1 \in 1 .. Len(position)
      BY <2>2, <3>1
    <3>3. chunks[d].first <= chunks[d].last
      BY <1>1 DEF Ids, ChunksInv, Chained
    <3>4. chunks[d].first < chunks[d].last + 1
      BY <2>2, <3>1, <3>3
    <3>5. \A i, j \in 1 .. Len(position) : i < j => position[i] < position[j]
      BY DocumentsAssumption DEF ChunksInv, Typed
    <3> QED
      BY <3>1, <3>2, <3>4, <3>5
  <2> QED
    BY <1>1, <2>3 DEF Text, Tokens
<1> QED
  BY <1>1 DEF Text

LEMMA RenderedLength ==
  ASSUME ChunksInv, Within, NEW c PROVE Rendered(c) \in Nat
<1>1. Text(c) \in Nat /\ Text(c - 1) \in Nat /\ Text(c + 1) \in Nat
  BY TextLength
<1>2. Header \in Nat
  BY RetrievalAssumption
<1> QED
  BY <1>1, <1>2 DEF Rendered

\* The numbers of a package.
LEMMA Numbers ==
  ASSUME PackInv
  PROVE  /\ Gap \in Int /\ Remaining \in Int /\ Budget \in Int
         /\ Mark \in Int /\ MinTruncated \in Int /\ Separator \in Int
         /\ 0 < Mark /\ Mark < MinTruncated /\ MinTruncated + Separator < Budget
         /\ Remaining = Budget - used - Gap
         /\ 0 <= Gap /\ Gap <= Separator
<1>1. MinTruncated \in Int /\ Budget \in Int /\ Mark \in Nat \ {0} /\ Separator \in Nat \ {0}
  BY RetrievalAssumption
<1> QED
  BY <1>1, RetrievalAssumption DEF PackInv, Gap, Remaining

\* There is room for a truncated text, or none.
LEMMA RoomForATruncated == ASSUME PackInv, ~NoRoom PROVE Remaining >= MinTruncated
<1>1. CASE entries # <<>>
  BY <1>1, Numbers DEF NoRoom
<1>2. CASE entries = <<>>
  BY <1>2, Numbers DEF PackInv, Staged
<1> QED
  BY <1>1, <1>2

\* What is done to a new entry.
LEMMA EntersOne ==
  ASSUME PackInv, NEW r, NEW reason \in Reasons, NEW length \in Int, Enter(r, reason, length)
  PROVE  /\ \E C, P : entries' \in Packed(C, P)
         /\ Len(entries) \in Nat /\ DOMAIN entries = 1 .. Len(entries)
         /\ DOMAIN entries' = 1 .. Len(entries) + 1
         /\ entries' # <<>>
         /\ \A i \in DOMAIN entries : entries'[i] = entries[i]
         /\ entries'[Len(entries) + 1].chunk = r.chunk
         /\ entries'[Len(entries) + 1].reason = reason
         /\ entries'[Len(entries) + 1].length = length
<1>1. PICK C, P : entries \in Packed(C, P)
  BY DEF PackInv
<1> DEFINE e == [chunk |-> r.chunk, profile |-> r.profile, reason |-> reason,
                 length |-> length, supporting |-> 0]
<1>2. entries \in Packed(C \union {r.chunk}, P \union {r.profile})
  <2> DEFINE S == [chunk : C, profile : P, reason : Reasons, length : Int,
                   supporting : Nat]
             T == [chunk : C \union {r.chunk}, profile : P \union {r.profile},
                   reason : Reasons, length : Int, supporting : Nat]
  <2>1. S \subseteq T
    OBVIOUS
  <2>2. entries \in Seq(S)
    BY <1>1 DEF Packed
  <2> HIDE DEF S, T
  <2>3. entries \in Seq(T)
    BY <2>1, <2>2
  <2> QED
    BY <2>3 DEF Packed, T
<1>3. e \in [chunk : C \union {r.chunk}, profile : P \union {r.profile}, reason : Reasons,
             length : Int, supporting : Nat]
  OBVIOUS
<1>4. e.chunk = r.chunk /\ e.reason = reason /\ e.length = length
  OBVIOUS
<1>5. entries' = Append(entries, e)
  BY DEF Enter
<1> HIDE DEF e
<1>6. entries' \in Packed(C \union {r.chunk}, P \union {r.profile})
  BY <1>2, <1>3, <1>5 DEF Packed
<1>7. /\ Len(entries) \in Nat /\ DOMAIN entries = 1 .. Len(entries)
      /\ DOMAIN entries' = 1 .. Len(entries) + 1
      /\ entries' # <<>>
      /\ \A i \in DOMAIN entries : entries'[i] = entries[i]
      /\ entries'[Len(entries) + 1] = e
  BY <1>2, <1>3, <1>5 DEF Packed
<1> QED
  BY <1>4, <1>6, <1>7

\* An entry without a text: the package is as full as before.
LEMMA ExcludeInv ==
  ASSUME PackInv, NEW r, NEW reason \in Reasons \ {"none"}, Enter(r, reason, 0),
         reason = "context_budget_exceeded" => NoRoom,
         stage # "cutting", UNCHANGED <<document, stage, used>>
  PROVE  PackInv'
<1>0. 0 \in Int /\ reason \in Reasons
  OBVIOUS
<1>1. /\ \E C, P : entries' \in Packed(C, P)
      /\ Len(entries) \in Nat /\ DOMAIN entries = 1 .. Len(entries)
      /\ DOMAIN entries' = 1 .. Len(entries) + 1
      /\ entries' # <<>>
      /\ \A i \in DOMAIN entries : entries'[i] = entries[i]
      /\ entries'[Len(entries) + 1].reason = reason
  BY <1>0, EntersOne
<1>2. Included' = Included
  BY <1>1 DEF Included
<1>3. Remaining' = Remaining
  BY <1>2 DEF Remaining, Gap
<1>4. NoRoom => NoRoom'
  BY <1>1, <1>3 DEF NoRoom
<1>5. Spent'
  BY <1>1, <1>4 DEF PackInv, Spent
<1>6. \A i \in Included : i \in 1 .. Len(entries) /\ entries'[i] = entries[i] /\ Whole(i)
  BY <1>1 DEF Included, PackInv, BudgetCutsATail, Whole
<1>7. BudgetCutsATail'
  <2>1. \A i \in Included : Whole(i)'
    BY <1>6, WholeIsKept
  <2>2. ASSUME NEW i \in Included, NEW j \in DOMAIN entries',
               entries'[j].reason = "context_budget_exceeded"
        PROVE  i < j
    <3>1. CASE j \in DOMAIN entries
      BY <2>2, <3>1, <1>1 DEF PackInv, BudgetCutsATail
    <3>2. CASE j = Len(entries) + 1
      BY <3>2, <1>1, <1>6
    <3> QED
      BY <3>1, <3>2, <1>1
  <2>3. used' <= Budget
    BY DEF PackInv, BudgetCutsATail
  <2> QED
    BY <1>2, <2>1, <2>2, <2>3 DEF BudgetCutsATail, Whole
<1>8. ChunksInv' /\ Within' /\ Staged'
  <2>1. ChunksInv' /\ Within'
    BY ChunkerNextInv, WithinHolds DEF PackInv
  <2> QED
    BY <2>1, <1>1 DEF PackInv, Staged, document, ChunkerDone, Units
<1> QED
  BY <1>1, <1>5, <1>7, <1>8 DEF PackInv

\* A text is included whole, or cut to the room that is left, and only if that is
\* worth it.
LEMMA IncludeInv ==
  ASSUME PackInv, NEW r, Include(r), stage # "cutting", UNCHANGED <<document, stage>>
  PROVE  PackInv'
<1>1. PICK length \in Kept(Rendered(r.chunk)) :
         Enter(r, "none", length) /\ used' = used + Gap + length
  BY DEF Include
<1>2. ~NoRoom
  BY DEF Include
<1>3. Remaining >= MinTruncated
  BY <1>2, RoomForATruncated
<1>4. /\ length \in Int /\ length <= Remaining
      /\ length = Rendered(r.chunk) \/ length >= MinTruncated - 1
  <2>1. Rendered(r.chunk) \in Int
    BY RenderedLength DEF PackInv
  <2> QED
    BY <1>1, <1>3, <2>1, Numbers DEF Kept
<1>5. /\ \E C, P : entries' \in Packed(C, P)
      /\ Len(entries) \in Nat /\ DOMAIN entries = 1 .. Len(entries)
      /\ DOMAIN entries' = 1 .. Len(entries) + 1
      /\ entries' # <<>>
      /\ \A i \in DOMAIN entries : entries'[i] = entries[i]
      /\ entries'[Len(entries) + 1].chunk = r.chunk
      /\ entries'[Len(entries) + 1].reason = "none"
      /\ entries'[Len(entries) + 1].length = length
  <2>1. "none" \in Reasons
    BY DEF Reasons
  <2> QED
    BY <1>1, <1>4, <2>1, EntersOne
<1>6. used' \in Int /\ used' <= Budget
  BY <1>1, <1>4, Numbers DEF PackInv
<1>7. \A j \in DOMAIN entries' : entries'[j].reason # "context_budget_exceeded"
  <2>1. \A j \in DOMAIN entries : entries[j].reason # "context_budget_exceeded"
    BY <1>2 DEF PackInv, Spent
  <2> QED
    BY <2>1, <1>5
<1>8. Spent'
  BY <1>7 DEF Spent
<1>9. \A i \in Included' : Whole(i)'
  <2>1. /\ Included' \subseteq Included \union {Len(entries) + 1}
        /\ Included \subseteq DOMAIN entries
    BY <1>5 DEF Included
  <2>2. ASSUME NEW i \in Included PROVE Whole(i)'
    <3>1. Whole(i)
      BY DEF PackInv, BudgetCutsATail, Whole
    <3>2. entries'[i] = entries[i]
      BY <2>1, <1>5
    <3> QED
      BY <3>1, <3>2, WholeIsKept
  <2>3. ASSUME NEW n, n = Len(entries) + 1 PROVE Whole(n)'
    <3>1. chunks' = chunks /\ position' = position
      BY DEF document
    <3>2. /\ entries'[n].chunk = r.chunk
          /\ entries'[n].length = Rendered(r.chunk) \/ entries'[n].length >= MinTruncated - 1
      BY <2>3, <1>4, <1>5
    <3> QED
      BY <3>1, <3>2 DEF Whole, Rendered, Text, Ids, Tokens
  <2>4. \A i \in Included' : i \in Included \/ i = Len(entries) + 1
    BY <2>1
  <2> QED
    BY <2>2, <2>3, <2>4
<1>10. BudgetCutsATail'
  BY <1>6, <1>7, <1>9 DEF BudgetCutsATail, Whole
<1>11. ChunksInv' /\ Within' /\ Staged'
  <2>1. ChunksInv' /\ Within'
    BY ChunkerNextInv, WithinHolds DEF PackInv
  <2> QED
    BY <2>1, <1>5 DEF PackInv, Staged, document, ChunkerDone, Units
<1> QED
  BY <1>5, <1>6, <1>8, <1>10, <1>11 DEF PackInv

\* A result that supports an entry changes only its count.
LEMMA SupportInv ==
  ASSUME PackInv, NEW r, Support(r), stage # "cutting", UNCHANGED <<document, stage>>
  PROVE  PackInv'
<1>1. PICK i \in Same(r) : entries' = [entries EXCEPT ![i].supporting = @ + 1]
  BY DEF Support
<1>2. PICK C, P : entries \in Packed(C, P)
  BY DEF PackInv
<1>3. i \in DOMAIN entries
  BY DEF Same, Keyed
<1>4. /\ entries' \in Packed(C, P)
      /\ DOMAIN entries' = DOMAIN entries
      /\ \A j \in DOMAIN entries : /\ entries'[j].chunk = entries[j].chunk
                                   /\ entries'[j].reason = entries[j].reason
                                   /\ entries'[j].length = entries[j].length
  <2> DEFINE S == [chunk : C, profile : P, reason : Reasons, length : Int,
                   supporting : Nat]
             e == [entries[i] EXCEPT !.supporting = @ + 1]
  <2>1. entries \in Seq(S)
    BY <1>2 DEF Packed
  <2>2. entries[i] \in S
    <3> HIDE DEF S
    <3> QED
      BY <2>1, <1>3
  <2>3. /\ e \in S /\ e.chunk = entries[i].chunk /\ e.reason = entries[i].reason
        /\ e.length = entries[i].length
    BY <2>2
  <2>4. entries' = [entries EXCEPT ![i] = e]
    BY <1>1
  <2> HIDE DEF S, e
  <2>5. entries' \in Seq(S) /\ DOMAIN entries' = DOMAIN entries
    BY <2>1, <2>3, <2>4, <1>3
  <2>6. entries' \in Packed(C, P)
    BY <2>5 DEF Packed, S
  <2> QED
    BY <2>3, <2>4, <2>5, <2>6
<1>5. entries' # <<>> /\ used' = used
  BY <1>2, <1>3, <1>4 DEF Packed, Support
<1>6. Included' = Included
  BY <1>4 DEF Included
<1>7. NoRoom => NoRoom'
  BY <1>5, <1>6 DEF NoRoom, Remaining, Gap
<1>8. Spent'
  BY <1>4, <1>7 DEF PackInv, Spent
<1>9. BudgetCutsATail'
  <2>1. \A k \in Included : Whole(k)'
    <3>1. \A k \in Included : k \in DOMAIN entries /\ Whole(k)
      BY DEF Included, PackInv, BudgetCutsATail, Whole
    <3> QED
      BY <3>1, <1>4, WholeIsKept
  <2>2. \A k \in Included, j \in DOMAIN entries' :
          entries'[j].reason = "context_budget_exceeded" => k < j
    BY <1>4 DEF PackInv, BudgetCutsATail
  <2>3. used' <= Budget
    BY <1>5 DEF PackInv, BudgetCutsATail
  <2> QED
    BY <1>6, <2>1, <2>2, <2>3 DEF BudgetCutsATail, Whole
<1>10. ChunksInv' /\ Within' /\ Staged'
  <2>1. ChunksInv' /\ Within'
    BY ChunkerNextInv, WithinHolds DEF PackInv
  <2> QED
    BY <2>1, <1>5 DEF PackInv, Staged, document, ChunkerDone, Units
<1> QED
  BY <1>4, <1>5, <1>8, <1>9, <1>10 DEF PackInv

\* Before the package is built there is nothing in it.
LEMMA BeforePackingInv ==
  ASSUME PackInv, [ChunkerNext]_document, UNCHANGED <<used, entries>>,
         document' = document \/ stage = "cutting",
         stage' # "cutting" => ChunkerDone' , stage # "cutting" => stage' # "cutting"
  PROVE  PackInv'
<1>1. ChunksInv' /\ Within'
  BY ChunkerNextInv, WithinHolds DEF PackInv
<1>2. Staged'
  BY DEF PackInv, Staged
<1>3. Included' = Included /\ (NoRoom => NoRoom')
  BY DEF Included, NoRoom, Remaining, Gap
<1>4. Spent'
  BY <1>3 DEF PackInv, Spent
<1>5. BudgetCutsATail'
  <2>1. CASE entries = <<>>
    BY <2>1, <1>3 DEF PackInv, BudgetCutsATail, Included
  <2>2. CASE entries # <<>>
    <3>1. document' = document
      BY <2>2 DEF PackInv, Staged
    <3>2. \A c : Rendered(c)' = Rendered(c)
      BY <3>1 DEF document, Rendered, Text, Ids, Tokens
    <3> QED
      BY <3>2, <1>3 DEF PackInv, BudgetCutsATail
  <2> QED
    BY <2>1, <2>2
<1> QED
  BY <1>1, <1>2, <1>4, <1>5 DEF PackInv

LEMMA InitPackInv == Init => PackInv
<1> SUFFICES ASSUME Init PROVE PackInv
  OBVIOUS
<1>1. ChunksInv
  BY ChunkerInitInv DEF Init
<1>2. Within /\ Staged /\ Spent
  BY DEF Init, ChunkerInit, Within, Staged, Spent
<1>3. BudgetCutsATail
  <2>1. used = 0 /\ 0 <= Budget /\ DOMAIN entries = {}
    BY RetrievalAssumption DEF Init
  <2> QED
    BY <2>1 DEF BudgetCutsATail, Included
<1>4. entries \in Packed({}, {})
  BY DEF Init, Packed
<1> QED
  BY <1>1, <1>2, <1>3, <1>4 DEF PackInv, Init

LEMMA NextPackInv == PackInv /\ [Next]_vars => PackInv'
<1> SUFFICES ASSUME PackInv, [Next]_vars PROVE PackInv'
  OBVIOUS
<1>1. CASE Cut
  <2>1. ~ChunkerDone
    <3>1. Units \in Nat /\ next \in Nat /\ first \in Nat
      BY UnitsType DEF PackInv, ChunksInv, Typed
    <3> QED
      BY <1>1, <3>1 DEF Cut, ChunkerNext, ChunkerDone, CutAtHeading, Extend, CutAtTarget,
                        CutAtEnd
  <2>2. stage = "cutting" /\ stage' = stage
    BY <1>1, <2>1 DEF Cut, PackInv, Staged
  <2> QED
    BY <1>1, <2>2, BeforePackingInv DEF Cut
<1>2. CASE Ask \/ SearchProfile \/ FailProfile \/ OpenLog
  <2>1. ChunkerDone /\ UNCHANGED document
    BY <1>2 DEF Ask, SearchProfile, FailProfile, OpenLog, PackInv, Staged
  <2>2. ChunkerDone'
    BY <2>1 DEF ChunkerDone, document, Units
  <2>3. UNCHANGED <<used, entries>> /\ stage' # "cutting"
    BY <1>2 DEF Ask, SearchProfile, FailProfile, OpenLog
  <2> QED
    BY <2>1, <2>2, <2>3, BeforePackingInv
<1>3. CASE Pack
  <2> DEFINE r == Head(todo)
  <2>1. /\ stage = "packing" /\ UNCHANGED <<document, stage>>
        /\ \/ Support(r) \/ ExceedItems(r) \/ Withhold(r)
           \/ Miss(r) \/ ExceedBudget(r) \/ Include(r)
    BY <1>3 DEF Pack
  <2> HIDE DEF r
  <2>2. CASE Support(r)
    BY <2>1, <2>2, SupportInv
  <2>3. CASE Include(r)
    BY <2>1, <2>3, IncludeInv
  <2>4. CASE ExceedItems(r)
    BY <2>1, <2>4, ExcludeInv DEF ExceedItems, Reasons
  <2>5. CASE Withhold(r)
    <3>1. Verdict \in {"low_confidence", "no_relevant_context"}
      BY <2>5 DEF Withhold, Verdict
    <3> QED
      BY <2>1, <2>5, <3>1, ExcludeInv DEF Withhold, Reasons
  <2>6. CASE Miss(r)
    BY <2>1, <2>6, ExcludeInv DEF Miss, Reasons
  <2>7. CASE ExceedBudget(r)
    BY <2>1, <2>7, ExcludeInv DEF ExceedBudget, Reasons
  <2> QED
    BY <2>1, <2>2, <2>3, <2>4, <2>5, <2>6, <2>7
<1>4. CASE UNCHANGED vars
  <2>1. UNCHANGED <<document, stage, used, entries>>
    BY <1>4 DEF vars
  <2>2. ChunkerDone' = ChunkerDone
    BY <2>1 DEF ChunkerDone, document, Units
  <2> QED
    BY <2>1, <2>2, BeforePackingInv DEF PackInv, Staged
<1> QED
  BY <1>1, <1>2, <1>3, <1>4 DEF Next

\* For every budget that leaves room for one truncated text and every list of results,
\* the texts of a package fit into its budget, none is a mere remnant, and what the
\* budget leaves out is the tail.
THEOREM BudgetCutsATailHolds == Spec => []BudgetCutsATail
<1>1. PackInv => BudgetCutsATail
  BY DEF PackInv
<1> QED
  BY <1>1, InitPackInv, NextPackInv, PTL DEF Spec

-------------------------------------------------------------------------------
(* Fusion *)

Listed == {c \in Candidate : Found(c)}

LEMMA ScoreType ==
  ASSUME NEW c \in Listed
  PROVE  /\ Numerator(c) \in Nat \ {0} /\ Denominator(c) \in Nat \ {0}
         /\ c.vector \in Ranks /\ c.keyword \in Ranks /\ c.chunk \in Nat
<1>1. c.vector \in Nat /\ c.keyword \in Nat /\ RrfK \in Nat \ {0} /\ c.chunk \in Nat
  BY FusionAssumption DEF Listed, Candidate, Ranks
<1>2. c.vector \in Ranks /\ c.keyword \in Ranks
  BY DEF Listed, Candidate
<1>3. ASSUME NEW a \in Nat \ {0}, NEW b \in Nat \ {0} PROVE a * b \in Nat \ {0}
  BY <1>3
<1>4. (RrfK + c.vector) * (RrfK + c.keyword) \in Nat \ {0}
  BY <1>1, <1>3
<1>5. RrfK + c.vector + c.keyword \in Nat \ {0} /\ (RrfK + c.vector) + (RrfK + c.keyword) \in Nat \ {0}
  BY <1>1
<1> QED
  BY <1>1, <1>2, <1>4, <1>5 DEF Numerator, Denominator

\* Fractions: the sum of two is above a third that is more than half of each.
LEMMA SumIsAbove ==
  ASSUME NEW p \in Nat \ {0}, NEW q \in Nat \ {0}, NEW r \in Nat, p < 2 * r, q < 2 * r
  PROVE  (p + q) * r > p * q
<1>1. p * q < p * (2 * r) /\ q * p < q * (2 * r)
  <2>1. ASSUME NEW a \in Nat \ {0}, NEW b \in Nat, NEW c \in Nat, b < c PROVE a * b < a * c
    BY <2>1
  <2> QED
    BY <2>1
<1>2. p * (2 * r) = 2 * (p * r) /\ q * (2 * r) = 2 * (q * r) /\ (p + q) * r = p * r + q * r
      /\ p * q = q * p
  OBVIOUS
<1>3. p * q \in Int /\ p * r \in Int /\ q * r \in Int
  OBVIOUS
<1> QED
  BY <1>1, <1>2, <1>3

\* Fusion puts every chunk that both searches have found above every chunk that only one
\* has found, however far down the lists it is: this is why the first result of a
\* hybrid profile tells whether there is agreement.  It needs ShortLists.
THEOREM AgreementComesFirst ==
  ASSUME ShortLists, NEW c \in Candidate, NEW d \in Candidate,
         Agreed(c), Found(d), ~Agreed(d)
  PROVE  Before(c, d)
<1>1. /\ c.vector \in 1 .. CandidateTopK /\ c.keyword \in 1 .. CandidateTopK
      /\ d.vector \in Nat /\ d.keyword \in Nat /\ d.vector + d.keyword >= 1
      /\ RrfK \in Nat \ {0} /\ CandidateTopK \in Nat
  BY FusionAssumption DEF Candidate, Ranks, Agreed, Found
<1> DEFINE p == RrfK + c.vector
           q == RrfK + c.keyword
           r == RrfK + d.vector + d.keyword
<1>2. p \in Nat \ {0} /\ q \in Nat \ {0} /\ r \in Nat /\ p < 2 * r /\ q < 2 * r
  BY <1>1 DEF ShortLists
<1>3. (p + q) * r > 1 * (p * q)
  <2> HIDE DEF p, q, r
  <2>1. (p + q) * r > p * q /\ p * q \in Int
    BY <1>2, SumIsAbove
  <2> QED
    BY <2>1
<1>4. Above(c, d)
  BY <1>3 DEF Above, Numerator, Denominator
<1> QED
  BY <1>4 DEF Before

\* Fractions: being above is transitive.
LEMMA AboveTransitive ==
  ASSUME NEW n \in Nat, NEW m \in Nat, NEW k \in Nat,
         NEW a \in Nat \ {0}, NEW b \in Nat \ {0}, NEW e \in Nat \ {0},
         n * b >= m * a, m * e >= k * b
  PROVE  /\ n * e >= k * a
         /\ n * b > m * a \/ m * e > k * b => n * e > k * a
<1>1. ASSUME NEW x \in Nat \ {0}, NEW y \in Int, NEW z \in Int
      PROVE  (y >= z => y * x >= z * x) /\ (y > z => y * x > z * x)
  BY <1>1
<1>2. ASSUME NEW x \in Nat \ {0}, NEW y \in Int, NEW z \in Int
      PROVE  (y * x >= z * x => y >= z) /\ (y * x > z * x => y > z)
  BY <1>2
<1>3. (n * b) * e >= (m * a) * e /\ (m * e) * a >= (k * b) * a
  BY <1>1
<1>4. /\ n * b > m * a => (n * b) * e > (m * a) * e
      /\ m * e > k * b => (m * e) * a > (k * b) * a
  BY <1>1
<1>5. (n * b) * e = (n * e) * b /\ (m * a) * e = (m * e) * a /\ (k * b) * a = (k * a) * b
  OBVIOUS
<1>6. n * e \in Int /\ k * a \in Int /\ (n * e) * b \in Int /\ (k * a) * b \in Int
      /\ (m * e) * a \in Int
  OBVIOUS
<1>7. /\ (n * e) * b >= (k * a) * b
      /\ n * b > m * a \/ m * e > k * b => (n * e) * b > (k * a) * b
  BY <1>3, <1>4, <1>5, <1>6
<1> QED
  BY <1>2, <1>6, <1>7

\* The sort key of reciprocal_rank_fuse_results leaves no tie between different chunks
\* and never contradicts itself, so the order of the fused results does not depend on
\* the order in which the lists were merged.
THEOREM BeforeIsStrictOrder ==
  /\ \A c \in Listed : ~Before(c, c)
  /\ \A c, d \in Listed : c.chunk # d.chunk => Before(c, d) \/ Before(d, c)
  /\ \A c, d, e \in Listed : Before(c, d) /\ Before(d, e) => Before(c, e)
<1>1. ASSUME NEW c \in Listed PROVE ~Before(c, c)
  <2>1. c.vector \in Nat /\ c.keyword \in Nat /\ c.chunk \in Nat
        /\ Numerator(c) * Denominator(c) \in Int
    BY ScoreType DEF Ranks
  <2> QED
    BY <2>1 DEF Before, Above, Sooner
<1>2. ASSUME NEW c \in Listed, NEW d \in Listed, c.chunk # d.chunk
      PROVE  Before(c, d) \/ Before(d, c)
  <2>1. /\ c.vector \in Nat /\ c.keyword \in Nat /\ c.chunk \in Nat
        /\ d.vector \in Nat /\ d.keyword \in Nat /\ d.chunk \in Nat
    BY ScoreType DEF Ranks
  <2> QED
    BY <2>1, <1>2 DEF Before, Sooner
<1>3. ASSUME NEW c \in Listed, NEW d \in Listed, NEW e \in Listed,
             Before(c, d), Before(d, e)
      PROVE  Before(c, e)
  <2>1. /\ c.vector \in Nat /\ c.keyword \in Nat /\ c.chunk \in Nat
        /\ d.vector \in Nat /\ d.keyword \in Nat /\ d.chunk \in Nat
        /\ e.vector \in Nat /\ e.keyword \in Nat /\ e.chunk \in Nat
    BY ScoreType DEF Ranks
  <2>2. /\ Numerator(c) * Denominator(d) \in Int /\ Numerator(d) * Denominator(c) \in Int
        /\ Numerator(d) * Denominator(e) \in Int /\ Numerator(e) * Denominator(d) \in Int
        /\ Numerator(c) * Denominator(e) \in Int /\ Numerator(e) * Denominator(c) \in Int
    BY ScoreType
  <2>3. Numerator(c) * Denominator(d) >= Numerator(d) * Denominator(c)
        /\ Numerator(d) * Denominator(e) >= Numerator(e) * Denominator(d)
    BY <1>3, <2>2 DEF Before, Above
  <2>4. ~Above(e, c) /\ (Above(c, d) \/ Above(d, e) => Above(c, e))
    <3>1. /\ Numerator(c) \in Nat /\ Numerator(d) \in Nat /\ Numerator(e) \in Nat
          /\ Denominator(c) \in Nat \ {0} /\ Denominator(d) \in Nat \ {0}
          /\ Denominator(e) \in Nat \ {0}
      BY ScoreType
    <3>2. /\ Numerator(c) * Denominator(e) >= Numerator(e) * Denominator(c)
          /\ \/ Numerator(c) * Denominator(d) > Numerator(d) * Denominator(c)
             \/ Numerator(d) * Denominator(e) > Numerator(e) * Denominator(d)
             => Numerator(c) * Denominator(e) > Numerator(e) * Denominator(c)
      BY <3>1, <2>3, AboveTransitive
    <3> QED
      BY <3>2, <2>2 DEF Above
  <2>5. CASE Above(c, d) \/ Above(d, e)
    BY <2>4, <2>5 DEF Before
  <2>6. CASE ~(Above(c, d) \/ Above(d, e))
    <3> DEFINE Tie(x, y) == \/ Sooner(x.vector, y.vector)
                            \/ x.vector = y.vector /\ Sooner(x.keyword, y.keyword)
                            \/ x.vector = y.vector /\ x.keyword = y.keyword /\ x.chunk < y.chunk
    <3>1. Tie(c, d) /\ Tie(d, e)
      BY <1>3, <2>6 DEF Before
    <3>2. Tie(c, e)
      BY <3>1, <2>1 DEF Sooner
    <3> QED
      BY <3>2, <2>4 DEF Before
  <2> QED
    BY <2>5, <2>6
<1> QED
  BY <1>1, <1>2, <1>3

-------------------------------------------------------------------------------
(* The sorted lists *)

\* A finite set with a strict total order is sorted into a list that has each of its
\* elements, in this order: the numbers of the elements before each are the numbers
\* below that of all elements.
LEMMA InOrderSorts ==
  ASSUME NEW S, IsFiniteSet(S), NEW R,
         \A x \in S : <<x, x>> \notin R,
         \A x, y \in S : x # y => <<x, y>> \in R \/ <<y, x>> \in R,
         \A x, y, z \in S : <<x, y>> \in R /\ <<y, z>> \in R => <<x, z>> \in R
  PROVE  /\ Cardinality(S) \in Nat
         /\ InOrder(S, R) \in [1 .. Cardinality(S) -> S]
         /\ \A x \in S : \E i \in 1 .. Cardinality(S) : InOrder(S, R)[i] = x
         /\ \A i, j \in 1 .. Cardinality(S) :
              i < j => <<InOrder(S, R)[i], InOrder(S, R)[j]>> \in R
<1> DEFINE n == Cardinality(S)
           Below(x) == {y \in S : <<y, x>> \in R}
           rank == [x \in S |-> Cardinality(Below(x))]
<1>1. n \in Nat
  BY FS_CardinalityType
<1>2. ASSUME NEW x \in S
      PROVE  IsFiniteSet(Below(x)) /\ rank[x] \in 0 .. n - 1
  <2>1. Below(x) \in SUBSET S /\ Below(x) # S
    OBVIOUS
  <2> HIDE DEF Below
  <2>2. IsFiniteSet(Below(x)) /\ Cardinality(Below(x)) <= n /\ Cardinality(Below(x)) # n
    BY <2>1, FS_Subset
  <2>3. Cardinality(Below(x)) \in Nat
    BY <2>2, FS_CardinalityType
  <2> QED
    BY <1>1, <2>2, <2>3
<1>3. ASSUME NEW x \in S, NEW y \in S, <<x, y>> \in R PROVE rank[x] < rank[y]
  <2>1. Below(x) \in SUBSET Below(y) /\ Below(x) # Below(y)
    BY <1>3
  <2>2. IsFiniteSet(Below(y)) /\ rank[x] \in Int /\ rank[y] \in Int
    BY <1>1, <1>2
  <2> HIDE DEF Below
  <2>3. Cardinality(Below(x)) <= Cardinality(Below(y)) /\ Cardinality(Below(x)) # Cardinality(Below(y))
    BY <2>1, <2>2, FS_Subset
  <2> QED
    BY <2>2, <2>3
<1>4. rank \in Injection(S, 0 .. n - 1)
  <2>1. rank \in [S -> 0 .. n - 1]
    BY <1>2
  <2> HIDE DEF rank
  <2>2. ASSUME NEW x \in S, NEW y \in S, rank[x] = rank[y] PROVE x = y
    <3>1. rank[x] \in Int /\ rank[y] \in Int
      <4>1. rank[x] \in 0 .. n - 1 /\ rank[y] \in 0 .. n - 1
        BY <1>2
      <4> HIDE DEF n
      <4> QED
        BY <1>1, <4>1
    <3>2. ~(<<x, y>> \in R) /\ ~(<<y, x>> \in R)
      BY <1>3, <2>2, <3>1
    <3> QED
      BY <3>2
  <2> QED
    BY <2>1, <2>2 DEF Injection, IsInjective
<1>5. rank \in Surjection(S, 0 .. n - 1)
  <2>1. IsFiniteSet(0 .. n - 1) /\ Cardinality(0 .. n - 1) = n
    <3>1. 0 \in Int /\ n - 1 \in Int
      BY <1>1
    <3> HIDE DEF n
    <3>2. /\ IsFiniteSet(0 .. n - 1)
          /\ Cardinality(0 .. n - 1) = IF 0 > n - 1 THEN 0 ELSE (n - 1) - 0 + 1
      BY <3>1, FS_Interval
    <3> QED
      BY <1>1, <3>2
  <2> DEFINE T == 0 .. n - 1
  <2>2. rank \in Injection(S, T) /\ IsFiniteSet(T) /\ Cardinality(S) = Cardinality(T)
    BY <1>4, <2>1
  <2> HIDE DEF rank, T
  <2>3. rank \in Surjection(S, T)
    BY <2>2, FS_Injection
  <2> QED
    BY <2>3 DEF T
<1>6. ASSUME NEW i \in 1 .. n
      PROVE  /\ InOrder(S, R)[i] \in S /\ rank[InOrder(S, R)[i]] = i - 1
             /\ \A x \in S : rank[x] = i - 1 => x = InOrder(S, R)[i]
  <2>1. i - 1 \in 0 .. n - 1
    BY <1>1
  <2>2. \E x \in S : rank[x] = i - 1
    <3> HIDE DEF rank
    <3> QED
      BY <1>5, <2>1 DEF Surjection
  <2>3. \E x \in S : Cardinality({y \in S : <<y, x>> \in R}) = i - 1
    BY <2>2
  <2>4. InOrder(S, R)[i] = CHOOSE x \in S : Cardinality({y \in S : <<y, x>> \in R}) = i - 1
    BY DEF InOrder
  <2>5. /\ InOrder(S, R)[i] \in S
        /\ Cardinality({y \in S : <<y, InOrder(S, R)[i]>> \in R}) = i - 1
    BY <2>3, <2>4
  <2>6. rank[InOrder(S, R)[i]] = i - 1
    BY <2>5
  <2> HIDE DEF rank
  <2> QED
    BY <2>5, <2>6, <1>4 DEF Injection, IsInjective
<1>7. InOrder(S, R) \in [1 .. n -> S]
  BY <1>6 DEF InOrder
<1>8. ASSUME NEW x \in S PROVE \E i \in 1 .. n : InOrder(S, R)[i] = x
  <2> HIDE DEF rank
  <2>1. rank[x] \in 0 .. n - 1
    BY <1>2
  <2>2. rank[x] + 1 \in 1 .. n /\ rank[x] = (rank[x] + 1) - 1
    BY <1>1, <2>1
  <2> QED
    BY <1>6, <2>2
<1>9. ASSUME NEW i \in 1 .. n, NEW j \in 1 .. n, i < j
      PROVE  <<InOrder(S, R)[i], InOrder(S, R)[j]>> \in R
  <2> HIDE DEF rank
  <2> DEFINE x == InOrder(S, R)[i]
             y == InOrder(S, R)[j]
  <2>1. x \in S /\ y \in S /\ rank[x] = i - 1 /\ rank[y] = j - 1
    BY <1>6
  <2> HIDE DEF x, y
  <2>2. x # y /\ ~(<<y, x>> \in R)
    BY <1>1, <1>3, <1>9, <2>1
  <2>3. <<x, y>> \in R
    BY <2>1, <2>2
  <2> QED
    BY <2>3 DEF x, y
<1> QED
  BY <1>1, <1>7, <1>8, <1>9

-------------------------------------------------------------------------------
(* The searches *)

\* Nothing is asked or found before the chunks are cut.
Unasked ==
  stage = "cutting" =>
    request = <<>> /\ nearest = <<>> /\ matches = <<>> /\ results = {} /\ failed = {}

\* A profile is searched once: what is still requested has neither results nor failed,
\* a profile with results has not failed, and its results have different ranks.
Once ==
  /\ IsFiniteSet(results)
  /\ IsInjective(request)
  /\ \A i \in DOMAIN request :
       request[i] \notin failed /\ \A r \in results : r.profile # request[i]
  /\ \A r \in results : r.profile \notin failed
  /\ \A r, s \in results : r.profile = s.profile /\ r.rank = s.rank => r = s

Hybrid == "hybrid_keyword_vector"

\* The results of the hybrid profile are there together.
FusedTogether == (\E r \in results : r.profile = Hybrid) => ByBoth \subseteq results

SearchInv == PackInv /\ TypeOK /\ Unasked /\ Once /\ FusedTogether

\* What the search of a profile finds.
FoundBy(profile, found) ==
  /\ found \subseteq Result /\ IsFiniteSet(found)
  /\ \A r \in found : r.profile = profile
  /\ \A r, s \in found : r.rank = s.rank => r = s

LEMMA ShortestType ==
  ASSUME NEW i \in Nat, NEW j \in Nat
  PROVE  Shortest(i, j) \in Nat /\ Shortest(i, j) <= i /\ Shortest(i, j) <= j
  BY DEF Shortest

LEMMA RankInType ==
  ASSUME NEW D, NEW list \in Seq(D), NEW c
  PROVE  RankIn(list, c) \in Ranks
<1> DEFINE at == {r \in 1 .. Shortest(CandidateTopK, Len(list)) : list[r] = c}
<1>1. CandidateTopK \in Nat /\ Len(list) \in Nat
  BY FusionAssumption
<1>2. Shortest(CandidateTopK, Len(list)) \in Nat
      /\ Shortest(CandidateTopK, Len(list)) <= CandidateTopK
  BY <1>1, ShortestType
<1>3. \A r \in at : r \in Ranks
  BY <1>1, <1>2 DEF Ranks
<1>4. RankIn(list, c) = IF at = {} THEN 0 ELSE CHOOSE r \in at : TRUE
  BY DEF RankIn
<1>5. 0 \in Ranks
  BY <1>1 DEF Ranks
<1> HIDE DEF at
<1> QED
  BY <1>3, <1>4, <1>5

LEMMA ResultsOfType ==
  ASSUME NEW profile \in Profiles, NEW list, NEW n \in Nat, Len(list) = n,
         \A r \in 1 .. n : list[r] \in Nat,
         NEW evidence, \A r \in 1 .. n : evidence[r] \subseteq Evidence
  PROVE  FoundBy(profile, ResultsOf(profile, list, evidence))
<1> DEFINE k == Shortest(TopK, Len(list))
           R == 1 .. k
           T == ResultsOf(profile, list, evidence)
           row(r) == [profile |-> profile, rank |-> r, chunk |-> list[r],
                      evidence |-> evidence[r]]
           f == [r \in R |-> row(r)]
<1>1. TopK \in Nat
  BY RetrievalAssumption, FusionAssumption
<1>2. k \in Nat /\ k <= TopK /\ k <= n
  BY <1>1, ShortestType
<1>3. T = {row(r) : r \in R}
  BY DEF ResultsOf
<1>4. \A r \in R : row(r) \in Result
  <2> SUFFICES ASSUME NEW r \in R PROVE row(r) \in Result
    OBVIOUS
  <2>1. r \in 1 .. TopK /\ r \in 1 .. n
    <3> HIDE DEF k
    <3> QED
      BY <1>1, <1>2
  <2>2. list[r] \in Nat /\ evidence[r] \subseteq Evidence
    BY <2>1
  <2> QED
    BY <2>1, <2>2 DEF Result
<1>5. \A r \in R : row(r).profile = profile /\ row(r).rank = r
  OBVIOUS
<1>6. IsFiniteSet(T)
  <2>1. IsFiniteSet(R)
    <3> HIDE DEF k
    <3> QED
      BY <1>2, FS_Interval
  <2> HIDE DEF R, row
  <2>2. f \in Surjection(R, T)
    <3> HIDE DEF T
    <3>1. f \in [R -> T] /\ \A t \in T : \E r \in R : f[r] = t
      BY <1>3
    <3> QED
      BY <3>1 DEF Surjection
  <2> HIDE DEF T, f
  <2> QED
    BY <2>1, <2>2, FS_Surjection
<1> HIDE DEF T, R, row
<1> QED
  BY <1>3, <1>4, <1>5, <1>6 DEF FoundBy, T

\* The chunks of the two lists, in the order in which they are fused.
LEMMA FusedSorts ==
  ASSUME TypeOK
  PROVE  /\ Merged \subseteq Listed
         /\ Cardinality(Merged) \in Nat
         /\ Fused \in [1 .. Cardinality(Merged) -> Merged]
         /\ \A c \in Merged : \E i \in 1 .. Cardinality(Merged) : Fused[i] = c
         /\ \A i, j \in 1 .. Cardinality(Merged) : i < j => Before(Fused[i], Fused[j])
<1> DEFINE of(c) == [chunk |-> c, vector |-> RankIn(nearest, c), keyword |-> RankIn(matches, c)]
           f == [c \in Ids |-> of(c)]
           T == {of(c) : c \in Ids}
           R == {p \in Merged \X Merged : Before(p[1], p[2])}
<1>1. Len(chunks) \in Nat /\ Ids = 1 .. Len(chunks)
  BY DEF TypeOK, ChunkerTypeOK, Ids
<1>2. \A c \in Ids : of(c) \in Candidate
  <2>1. \A c : RankIn(nearest, c) \in Ranks /\ RankIn(matches, c) \in Ranks
    BY RankInType DEF TypeOK
  <2> QED
    BY <1>1, <2>1 DEF Candidate
<1>3. Merged = {x \in T : Found(x)}
  BY DEF Merged
<1>4. Merged \subseteq Listed
  <2> HIDE DEF of
  <2> QED
    BY <1>2, <1>3 DEF Listed
<1>5. IsFiniteSet(Merged)
  <2>1. IsFiniteSet(Ids)
    BY <1>1, FS_Interval
  <2> HIDE DEF of
  <2>2. f \in Surjection(Ids, T)
    <3>1. f \in [Ids -> T] /\ \A t \in T : \E c \in Ids : f[c] = t
      OBVIOUS
    <3> QED
      BY <3>1 DEF Surjection
  <2> HIDE DEF f
  <2>3. IsFiniteSet(T)
    BY <2>1, <2>2, FS_Surjection
  <2> QED
    BY <1>3, <2>3, FS_Subset
<1>6. \A x, y \in Merged : x # y => x.chunk # y.chunk
  <2>1. \A c \in Ids : of(c).chunk = c
    OBVIOUS
  <2> HIDE DEF of
  <2> QED
    BY <1>3, <2>1
<1>7. /\ \A x \in Merged : <<x, x>> \notin R
      /\ \A x, y \in Merged : x # y => <<x, y>> \in R \/ <<y, x>> \in R
      /\ \A x, y, z \in Merged : <<x, y>> \in R /\ <<y, z>> \in R => <<x, z>> \in R
  <2>1. \A x, y \in Merged : <<x, y>> \in R <=> Before(x, y)
    OBVIOUS
  <2> HIDE DEF R
  <2>2. /\ \A c \in Merged : ~Before(c, c)
        /\ \A c, d \in Merged : c.chunk # d.chunk => Before(c, d) \/ Before(d, c)
        /\ \A c, d, e \in Merged : Before(c, d) /\ Before(d, e) => Before(c, e)
    BY <1>4, BeforeIsStrictOrder
  <2> QED
    BY <1>6, <2>1, <2>2
<1>8. Fused = InOrder(Merged, R)
  BY DEF Fused
<1>9. \A x, y \in Merged : <<x, y>> \in R => Before(x, y)
  OBVIOUS
<1> HIDE DEF R
<1>10. /\ Cardinality(Merged) \in Nat
       /\ Fused \in [1 .. Cardinality(Merged) -> Merged]
       /\ \A x \in Merged : \E i \in 1 .. Cardinality(Merged) : Fused[i] = x
       /\ \A i, j \in 1 .. Cardinality(Merged) : i < j => <<Fused[i], Fused[j]>> \in R
  BY <1>5, <1>7, <1>8, InOrderSorts
<1> QED
  BY <1>4, <1>9, <1>10

LEMMA ReachedType ==
  ASSUME NEW kind \in Evidence, NEW rank, NEW n
  PROVE  Reached(kind, rank, n) \subseteq Evidence
  BY DEF Reached

LEMMA ListsType ==
  ASSUME TypeOK
  PROVE  /\ Ids \subseteq Nat
         /\ Len(nearest) \in Nat /\ DOMAIN nearest = 1 .. Len(nearest)
         /\ Len(matches) \in Nat /\ DOMAIN matches = 1 .. Len(matches)
         /\ \A r \in 1 .. Len(nearest) : nearest[r] \in Ids
         /\ \A r \in 1 .. Len(matches) : matches[r] \in Ids
<1>1. Ids \subseteq Nat
  <2>1. Len(chunks) \in Nat /\ Ids = 1 .. Len(chunks)
    BY DEF TypeOK, ChunkerTypeOK, Ids
  <2> QED
    BY <2>1
<1>2. nearest \in Seq(Ids) /\ matches \in Seq(Ids)
  BY DEF TypeOK
<1> QED
  BY <1>1, <1>2

LEMMA ByVectorFinds == TypeOK => FoundBy("vector", ByVector)
<1> SUFFICES ASSUME TypeOK PROVE FoundBy("vector", ByVector)
  OBVIOUS
<1> DEFINE evidence == [r \in DOMAIN nearest |-> Reached("vector", r, strong.vector)]
<1>1. "vector" \in Profiles /\ "vector" \in Evidence
  BY DEF Profiles, Evidence
<1>2. \A r \in 1 .. Len(nearest) : evidence[r] \subseteq Evidence
  BY <1>1, ListsType, ReachedType
<1>3. \A r \in 1 .. Len(nearest) : nearest[r] \in Nat
  BY ListsType
<1> HIDE DEF evidence
<1>4. FoundBy("vector", ResultsOf("vector", nearest, evidence))
  BY <1>1, <1>2, <1>3, ListsType, ResultsOfType
<1> QED
  BY <1>4 DEF ByVector, evidence

LEMMA ByKeywordFinds == TypeOK => FoundBy("bm25_keyword", ByKeyword)
<1> SUFFICES ASSUME TypeOK PROVE FoundBy("bm25_keyword", ByKeyword)
  OBVIOUS
<1> DEFINE evidence == [r \in DOMAIN matches |-> Reached("keyword", r, strong.keyword)]
<1>1. "bm25_keyword" \in Profiles /\ "keyword" \in Evidence
  BY DEF Profiles, Evidence
<1>2. \A r \in 1 .. Len(matches) : evidence[r] \subseteq Evidence
  BY <1>1, ListsType, ReachedType
<1>3. \A r \in 1 .. Len(matches) : matches[r] \in Nat
  BY ListsType
<1> HIDE DEF evidence
<1>4. FoundBy("bm25_keyword", ResultsOf("bm25_keyword", matches, evidence))
  BY <1>1, <1>2, <1>3, ListsType, ResultsOfType
<1> QED
  BY <1>4 DEF ByKeyword, evidence

LEMMA FusedEvidenceType == ASSUME NEW c PROVE FusedEvidence(c) \subseteq Evidence
<1>1. {"agreement", "vector", "keyword"} \subseteq Evidence
  BY DEF Evidence
<1> QED
  BY <1>1, ReachedType DEF FusedEvidence

LEMMA ByBothFinds == TypeOK => FoundBy(Hybrid, ByBoth)
<1> SUFFICES ASSUME TypeOK PROVE FoundBy(Hybrid, ByBoth)
  OBVIOUS
<1> DEFINE n == Cardinality(Merged)
           list == [r \in DOMAIN Fused |-> Fused[r].chunk]
           evidence == [r \in DOMAIN Fused |-> FusedEvidence(Fused[r])]
<1>1. Hybrid \in Profiles
  BY DEF Profiles, Hybrid
<1>2. n \in Nat /\ DOMAIN Fused = 1 .. n /\ \A r \in 1 .. n : Fused[r] \in Listed
  BY FusedSorts
<1> HIDE DEF n
<1>3. Len(list) = n /\ \A r \in 1 .. n : list[r] \in Nat
  <2>1. \A r \in 1 .. n : list[r] = Fused[r].chunk
    BY <1>2
  <2>2. list \in [1 .. n -> Nat]
    BY <1>2 DEF Listed, Candidate
  <2> HIDE DEF list
  <2> QED
    BY <1>2, <2>2
<1>4. \A r \in 1 .. n : evidence[r] \subseteq Evidence
  BY <1>2, FusedEvidenceType
<1>5. ByBoth = ResultsOf(Hybrid, list, evidence)
  BY DEF ByBoth, Hybrid
<1> HIDE DEF list, evidence
<1>6. FoundBy(Hybrid, ResultsOf(Hybrid, list, evidence))
  BY <1>1, <1>2, <1>3, <1>4, ResultsOfType
<1> QED
  BY <1>5, <1>6

LEMMA ByRerankerFinds ==
  TypeOK => \A found \in ByReranker : FoundBy("reranked_vector_cosine", found)
<1> SUFFICES ASSUME TypeOK, NEW found \in ByReranker
             PROVE  FoundBy("reranked_vector_cosine", found)
  OBVIOUS
<1> DEFINE p == "reranked_vector_cosine"
<1>1. p \in Profiles /\ "vector" \in Evidence /\ "reranker" \in Evidence
  BY DEF Profiles, Evidence
<1>2. PICK k \in 0 .. Shortest(TopK, Cardinality(Candidates)) :
        \E list \in [1 .. k -> Candidates], s \in 0 .. 1 : found = Reranked(list, s)
  BY DEF ByReranker
<1>3. PICK list \in [1 .. k -> Candidates], s \in 0 .. 1 : found = Reranked(list, s)
  BY <1>2
<1>4. Candidates \subseteq Nat /\ IsFiniteSet(Candidates)
  <2> DEFINE m == Shortest(CandidateTopK, Len(nearest))
             f == [r \in 1 .. m |-> nearest[r]]
  <2>1. m \in Nat /\ m <= Len(nearest)
    BY FusionAssumption, ListsType, ShortestType
  <2>2. Candidates = {nearest[r] : r \in 1 .. m}
    BY DEF Candidates
  <2> HIDE DEF m
  <2>3. Candidates \subseteq Nat
    BY <2>1, <2>2, ListsType
  <2>4. f \in Surjection(1 .. m, Candidates)
    <3>1. f \in [1 .. m -> Candidates] /\ \A t \in Candidates : \E r \in 1 .. m : f[r] = t
      BY <2>2
    <3> QED
      BY <3>1 DEF Surjection
  <2>5. IsFiniteSet(1 .. m)
    BY <2>1, FS_Interval
  <2> HIDE DEF f
  <2> QED
    BY <2>3, <2>4, <2>5, FS_Surjection
<1>5. k \in Nat
  <2>1. Cardinality(Candidates) \in Nat /\ TopK \in Nat
    BY <1>4, FS_CardinalityType, RetrievalAssumption, FusionAssumption
  <2>2. Shortest(TopK, Cardinality(Candidates)) \in Nat
    BY <2>1, ShortestType
  <2> QED
    BY <2>2
<1>6. DOMAIN list = 1 .. k /\ Len(list) = k /\ \A r \in 1 .. k : list[r] \in Nat
  <2>1. DOMAIN list = 1 .. k /\ \A r \in 1 .. k : list[r] \in Candidates
    OBVIOUS
  <2>2. list \in [1 .. k -> Nat]
    BY <1>4
  <2> QED
    BY <1>4, <1>5, <2>1, <2>2
<1> DEFINE evidence == [r \in DOMAIN list |->
                          Reached("reranker", r, s)
                            \union Reached("vector", RankIn(nearest, list[r]), strong.vector)]
<1>7. \A r \in 1 .. k : evidence[r] \subseteq Evidence
  BY <1>1, <1>6, ReachedType
<1>8. found = ResultsOf(p, list, evidence)
  BY <1>3 DEF Reranked
<1> HIDE DEF p, evidence
<1>9. FoundBy(p, found)
  BY <1>1, <1>5, <1>6, <1>7, <1>8, ResultsOfType
<1> QED
  BY <1>9 DEF p

\* The results of a log have an order: no two of a profile have the same rank.
LEMMA SortedType ==
  ASSUME results \subseteq Result, Once
  PROVE  Sorted(results) \in Seq(Result)
<1> DEFINE R == {p \in results \X results : PackedBefore(p[1], p[2])}
<1>1. \A p, q \in Profiles : Priority(p) \in Nat /\ (Priority(p) = Priority(q) => p = q)
  BY DEF Profiles, Priority
<1>2. TopK \in Nat
  BY RetrievalAssumption, FusionAssumption
<1>3. \A r \in results : r.profile \in Profiles /\ r.rank \in Nat
  BY <1>2 DEF Result
<1>4. \A x, y \in results : <<x, y>> \in R <=> PackedBefore(x, y)
  OBVIOUS
<1>5. Sorted(results) = InOrder(results, R)
  BY DEF Sorted
<1> HIDE DEF R
<1>6. \A x \in results : <<x, x>> \notin R
  BY <1>1, <1>3, <1>4 DEF PackedBefore
<1>7. \A x, y \in results : x # y => <<x, y>> \in R \/ <<y, x>> \in R
  <2> SUFFICES ASSUME NEW x \in results, NEW y \in results, x # y
               PROVE  PackedBefore(x, y) \/ PackedBefore(y, x)
    BY <1>4
  <2>1. CASE x.profile = y.profile
    <3>1. x.rank # y.rank
      BY <2>1 DEF Once
    <3> QED
      BY <1>3, <2>1, <3>1 DEF PackedBefore
  <2>2. CASE x.profile # y.profile
    <3>1. /\ Priority(x.profile) \in Nat /\ Priority(y.profile) \in Nat
          /\ Priority(x.profile) # Priority(y.profile)
      BY <1>1, <1>3, <2>2
    <3> QED
      BY <3>1 DEF PackedBefore
  <2> QED
    BY <2>1, <2>2
<1>8. \A x, y, z \in results : <<x, y>> \in R /\ <<y, z>> \in R => <<x, z>> \in R
  <2> SUFFICES ASSUME NEW x \in results, NEW y \in results, NEW z \in results,
                      PackedBefore(x, y), PackedBefore(y, z)
               PROVE  PackedBefore(x, z)
    BY <1>4
  <2>1. /\ Priority(x.profile) \in Nat /\ Priority(y.profile) \in Nat
        /\ Priority(z.profile) \in Nat
        /\ x.rank \in Nat /\ y.rank \in Nat /\ z.rank \in Nat
    BY <1>1, <1>3
  <2> QED
    BY <2>1 DEF PackedBefore
<1>9. /\ Cardinality(results) \in Nat
      /\ Sorted(results) \in [1 .. Cardinality(results) -> results]
  <2>1. IsFiniteSet(results)
    BY DEF Once
  <2> QED
    BY <1>5, <1>6, <1>7, <1>8, <2>1, InOrderSorts
<1> DEFINE n == Cardinality(results)
<1> HIDE DEF n
<1>10. n \in Nat /\ Sorted(results) \in [1 .. n -> Result]
  BY <1>9 DEF n
<1> QED
  BY <1>10

\* The profiles that are left when the first one is done.
LEMMA RestOfRequest ==
  ASSUME TypeOK, Once, request # <<>>
  PROVE  /\ Tail(request) \in Seq(Profiles) /\ Head(request) \in Profiles
         /\ IsInjective(Tail(request))
         /\ \A i \in DOMAIN Tail(request) :
              /\ Tail(request)[i] # Head(request)
              /\ i + 1 \in DOMAIN request /\ Tail(request)[i] = request[i + 1]
         /\ 1 \in DOMAIN request /\ Head(request) = request[1]
<1>1. request \in Seq(Profiles) /\ Len(request) \in Nat /\ Len(request) > 0
  BY DEF TypeOK
<1>2. /\ Tail(request) \in Seq(Profiles)
      /\ DOMAIN Tail(request) = 1 .. Len(request) - 1
      /\ DOMAIN request = 1 .. Len(request)
      /\ \A i \in 1 .. Len(request) - 1 : Tail(request)[i] = request[i + 1]
      /\ Head(request) = request[1] /\ Head(request) \in Profiles
  BY <1>1
<1>3. \A i \in 1 .. Len(request) - 1 : i + 1 \in 1 .. Len(request) /\ i + 1 # 1
  BY <1>1
<1>4. 1 \in 1 .. Len(request)
  BY <1>1
<1>5. \A i, j \in 1 .. Len(request) : request[i] = request[j] => i = j
  BY <1>2 DEF Once, IsInjective
<1>6. \A i \in 1 .. Len(request) - 1 : Tail(request)[i] # Head(request)
  BY <1>2, <1>3, <1>4, <1>5
<1>7. IsInjective(Tail(request))
  <2> SUFFICES ASSUME NEW i \in 1 .. Len(request) - 1, NEW j \in 1 .. Len(request) - 1,
                      Tail(request)[i] = Tail(request)[j]
               PROVE  i = j
    BY <1>2 DEF IsInjective
  <2>1. i + 1 = j + 1
    BY <1>2, <1>3, <1>5
  <2> QED
    BY <1>1, <2>1
<1> QED
  BY <1>2, <1>3, <1>4, <1>6, <1>7

\* Fusion depends on the chunks and the question only.
LEMMA ByBothStays == UNCHANGED <<document, question>> => ByBoth' = ByBoth
<1> SUFFICES ASSUME UNCHANGED <<document, question>> PROVE ByBoth' = ByBoth
  OBVIOUS
<1>1. /\ chunks' = chunks /\ nearest' = nearest /\ matches' = matches
      /\ strong' = strong
  BY DEF document, question
<1>2. Ids' = Ids
  BY <1>1 DEF Ids
<1>3. Merged' = Merged
  BY <1>1, <1>2 DEF Merged, RankIn
<1>4. Fused' = Fused
  BY <1>3 DEF Fused
<1>5. \A c : FusedEvidence(c)' = FusedEvidence(c)
  BY <1>1 DEF FusedEvidence
<1> QED
  BY <1>4, <1>5 DEF ByBoth, ResultsOf

\* The parts of SearchInv that a step of the question may disturb.
Search == TypeOK /\ Unasked /\ Once /\ FusedTogether

\* What is not asked about does not change once there is a question.
LEMMA CutSearch == ASSUME SearchInv, Cut PROVE Search'
<1>1. ~ChunkerDone
  <2>1. Units \in Nat /\ next \in Nat /\ first \in Nat
    BY UnitsType DEF SearchInv, PackInv, ChunksInv, Typed
  <2> QED
    BY <2>1 DEF Cut, ChunkerNext, ChunkerDone, CutAtHeading, Extend, CutAtTarget, CutAtEnd
<1>2. stage = "cutting"
  BY <1>1 DEF SearchInv, PackInv, Staged
<1>3. /\ request = <<>> /\ nearest = <<>> /\ matches = <<>>
      /\ results = {} /\ failed = {}
  BY <1>2 DEF SearchInv, Unasked
<1>4. UNCHANGED <<stage, request, maxItems, nearest, matches, strong, failed, results, todo,
                  used, entries>>
  BY DEF Cut, question
<1>5. ChunkerTypeOK'
  <2>1. ChunksInv'
    BY ChunkerNextInv DEF SearchInv, PackInv, Cut
  <2>2. Typed'
    BY <2>1 DEF ChunksInv
  <2> QED
    BY <2>2, TypedType, PTL
<1>6. TypeOK'
  <2>1. nearest' \in Seq(Ids') /\ matches' \in Seq(Ids')
    BY <1>3, <1>4
  <2> QED
    BY <1>4, <1>5, <2>1 DEF SearchInv, TypeOK
<1>7. Unasked' /\ Once' /\ FusedTogether'
  BY <1>3, <1>4 DEF SearchInv, Unasked, Once, FusedTogether
<1> QED
  BY <1>6, <1>7 DEF Search

LEMMA PermutationsType ==
  ASSUME NEW S, IsFiniteSet(S), NEW q \in SetToAllKPermutations(S)
  PROVE  q \in Seq(S)
<1>1. PICK s \in SUBSET S : q \in SetToSeqs(s)
  BY DEF SetToAllKPermutations
<1>2. q \in [1 .. Cardinality(s) -> s]
  BY <1>1 DEF SetToSeqs
<1>3. Cardinality(s) \in Nat
  BY FS_Subset, FS_CardinalityType
<1> DEFINE n == Cardinality(s)
<1> HIDE DEF n
<1>4. n \in Nat /\ q \in [1 .. n -> S]
  BY <1>2, <1>3 DEF n
<1> QED
  BY <1>4

LEMMA AskSearch == ASSUME SearchInv, Ask PROVE Search'
<1>1. results = {} /\ failed = {} /\ stage' = "searching"
  BY DEF SearchInv, Unasked, Ask
<1>2. UNCHANGED <<document, failed, results, todo, used, entries>>
  BY DEF Ask
<1>3. request' \in Seq(Profiles) /\ IsInjective(request')
  BY RetrievalAssumption DEF Ask
<1>4. Ids' = Ids /\ IsFiniteSet(Ids)
  <2>1. Len(chunks) \in Nat /\ Ids = 1 .. Len(chunks)
    BY DEF SearchInv, TypeOK, ChunkerTypeOK, Ids
  <2> QED
    BY <1>2, <2>1, FS_Interval DEF Ids, document
<1>5. nearest' \in Seq(Ids) /\ matches' \in Seq(Ids)
  BY <1>4, PermutationsType DEF Ask
<1>6. strong' \in [vector : Nat, keyword : Nat]
  <2>1. Len(nearest') \in Nat /\ Len(matches') \in Nat
    BY <1>5
  <2>2. strong' \in [vector : 0 .. Len(nearest'), keyword : 0 .. Len(matches')]
    BY DEF Ask
  <2> QED
    BY <2>1, <2>2
<1>7. maxItems' \in Nat \ {0}
  BY RetrievalAssumption DEF Ask
<1>8. ChunkerTypeOK'
  BY <1>2 DEF SearchInv, TypeOK, ChunkerTypeOK, Units, document
<1>9. TypeOK'
  BY <1>1, <1>2, <1>3, <1>4, <1>5, <1>6, <1>7, <1>8 DEF SearchInv, TypeOK
<1>10. Unasked' /\ Once' /\ FusedTogether'
  BY <1>1, <1>2, <1>3 DEF SearchInv, Unasked, Once, FusedTogether
<1> QED
  BY <1>9, <1>10 DEF Search

\* TypeOK where the chunks and the question stay.
LEMMA TypeStays ==
  ASSUME SearchInv, UNCHANGED <<document, question>>,
         stage' \in {"cutting", "searching", "packing"},
         request' \in Seq(Profiles), failed' \subseteq Profiles, results' \subseteq Result,
         todo' \in Seq(Result), used' \in Nat, entries' \in Seq(Entry)
  PROVE  TypeOK'
<1>1. ChunkerTypeOK'
  BY DEF SearchInv, TypeOK, ChunkerTypeOK, Units, document
<1>2. UNCHANGED <<maxItems, nearest, matches, strong>> /\ Ids' = Ids
  BY DEF document, question, Ids
<1> QED
  BY <1>1, <1>2 DEF SearchInv, TypeOK

\* The results of a profile are entered.
LEMMA FoundSearch ==
  ASSUME SearchInv, stage = "searching", request # <<>>,
         NEW found, FoundBy(Head(request), found),
         Head(request) = Hybrid => found = ByBoth,
         results' = results \union found, request' = Tail(request),
         UNCHANGED <<document, stage, question, failed, todo, used, entries>>
  PROVE  Search'
<1>1. /\ Tail(request) \in Seq(Profiles) /\ Head(request) \in Profiles
      /\ IsInjective(Tail(request))
      /\ \A i \in DOMAIN Tail(request) :
           /\ Tail(request)[i] # Head(request)
           /\ i + 1 \in DOMAIN request /\ Tail(request)[i] = request[i + 1]
      /\ 1 \in DOMAIN request /\ Head(request) = request[1]
  BY RestOfRequest DEF SearchInv
<1>2. /\ found \subseteq Result /\ IsFiniteSet(found)
      /\ \A r \in found : r.profile = Head(request)
      /\ \A r, s \in found : r.rank = s.rank => r = s
  BY DEF FoundBy
<1>3. TypeOK'
  <2>1. results' \subseteq Result
    BY <1>2 DEF SearchInv, TypeOK
  <2> QED
    BY <1>1, <2>1, TypeStays DEF SearchInv, TypeOK
<1>4. Once'
  <2>1. IsFiniteSet(results') /\ IsInjective(request')
    BY <1>1, <1>2, FS_Union DEF SearchInv, Once
  <2>2. \A r \in results : r.profile # Head(request) /\ r.profile \notin failed
    BY <1>1 DEF SearchInv, Once
  <2>3. Head(request) \notin failed
    BY <1>1 DEF SearchInv, Once
  <2>4. \A i \in DOMAIN request' :
          request'[i] \notin failed' /\ \A r \in results' : r.profile # request'[i]
    <3> SUFFICES ASSUME NEW i \in DOMAIN Tail(request)
                 PROVE  /\ Tail(request)[i] \notin failed
                        /\ \A r \in results' : r.profile # Tail(request)[i]
      OBVIOUS
    <3>1. i + 1 \in DOMAIN request /\ Tail(request)[i] = request[i + 1]
          /\ Tail(request)[i] # Head(request)
      BY <1>1
    <3>2. request[i + 1] \notin failed /\ \A r \in results : r.profile # request[i + 1]
      BY <3>1 DEF SearchInv, Once
    <3> QED
      BY <1>2, <3>1, <3>2
  <2>5. \A r \in results' : r.profile \notin failed'
    BY <1>2, <2>2, <2>3
  <2>6. \A r, s \in results' : r.profile = s.profile /\ r.rank = s.rank => r = s
    BY <1>2, <2>2 DEF SearchInv, Once
  <2> QED
    BY <2>1, <2>4, <2>5, <2>6 DEF Once
<1>5. FusedTogether'
  <2>1. ByBoth' = ByBoth
    BY ByBothStays
  <2>2. ASSUME NEW r \in results', r.profile = Hybrid PROVE ByBoth \subseteq results'
    <3>1. CASE r \in results
      BY <2>2, <3>1 DEF SearchInv, FusedTogether
    <3>2. CASE r \in found
      BY <1>2, <2>2, <3>2
    <3> QED
      BY <3>1, <3>2
  <2> QED
    BY <2>1, <2>2 DEF FusedTogether
<1>6. Unasked'
  BY DEF Unasked
<1> QED
  BY <1>3, <1>4, <1>5, <1>6 DEF Search

LEMMA SearchProfileSearch == ASSUME SearchInv, SearchProfile PROVE Search'
<1>1. /\ stage = "searching" /\ request # <<>> /\ request' = Tail(request)
      /\ UNCHANGED <<document, stage, question, failed, todo, used, entries>>
  BY DEF SearchProfile
<1>2. TypeOK
  BY DEF SearchInv
<1>3. CASE Head(request) = "vector" /\ results' = results \union ByVector
  <2>1. FoundBy(Head(request), ByVector) /\ Head(request) # Hybrid
    BY <1>2, <1>3, ByVectorFinds DEF Hybrid
  <2> QED
    BY <1>1, <1>3, <2>1, FoundSearch
<1>4. CASE Head(request) = "bm25_keyword" /\ results' = results \union ByKeyword
  <2>1. FoundBy(Head(request), ByKeyword) /\ Head(request) # Hybrid
    BY <1>2, <1>4, ByKeywordFinds DEF Hybrid
  <2> QED
    BY <1>1, <1>4, <2>1, FoundSearch
<1>5. CASE Head(request) = "hybrid_keyword_vector" /\ results' = results \union ByBoth
  <2>1. FoundBy(Head(request), ByBoth)
    BY <1>2, <1>5, ByBothFinds DEF Hybrid
  <2> QED
    BY <1>1, <1>5, <2>1, FoundSearch
<1>6. ASSUME Head(request) = "reranked_vector_cosine",
             NEW found \in ByReranker, results' = results \union found
      PROVE  Search'
  <2>1. FoundBy(Head(request), found) /\ Head(request) # Hybrid
    BY <1>2, <1>6, ByRerankerFinds DEF Hybrid
  <2> QED
    BY <1>1, <1>6, <2>1, FoundSearch
<1> QED
  BY <1>3, <1>4, <1>5, <1>6 DEF SearchProfile

LEMMA FailProfileSearch == ASSUME SearchInv, FailProfile PROVE Search'
<1>1. /\ stage = "searching" /\ request # <<>> /\ request' = Tail(request)
      /\ failed' = failed \union {Head(request)}
      /\ UNCHANGED <<document, stage, question, results, todo, used, entries>>
  BY DEF FailProfile
<1>2. /\ Tail(request) \in Seq(Profiles) /\ Head(request) \in Profiles
      /\ IsInjective(Tail(request))
      /\ \A i \in DOMAIN Tail(request) :
           /\ Tail(request)[i] # Head(request)
           /\ i + 1 \in DOMAIN request /\ Tail(request)[i] = request[i + 1]
      /\ 1 \in DOMAIN request /\ Head(request) = request[1]
  BY <1>1, RestOfRequest DEF SearchInv
<1>3. TypeOK'
  <2>1. failed' \subseteq Profiles
    BY <1>1, <1>2 DEF SearchInv, TypeOK
  <2> QED
    BY <1>1, <1>2, <2>1, TypeStays DEF SearchInv, TypeOK
<1>4. Once'
  <2>1. \A i \in DOMAIN request' :
          request'[i] \notin failed' /\ \A r \in results' : r.profile # request'[i]
    BY <1>1, <1>2 DEF SearchInv, Once
  <2>2. \A r \in results' : r.profile \notin failed'
    BY <1>1, <1>2 DEF SearchInv, Once
  <2> QED
    BY <1>1, <1>2, <2>1, <2>2 DEF SearchInv, Once
<1>5. FusedTogether'
  BY <1>1, ByBothStays DEF SearchInv, FusedTogether
<1>6. Unasked'
  BY <1>1 DEF Unasked
<1> QED
  BY <1>3, <1>4, <1>5, <1>6 DEF Search

LEMMA OpenLogSearch == ASSUME SearchInv, OpenLog PROVE Search'
<1>1. /\ stage' = "packing" /\ todo' = Sorted(results)
      /\ UNCHANGED <<document, request, question, failed, results, used, entries>>
  BY DEF OpenLog
<1>2. todo' \in Seq(Result)
  BY <1>1, SortedType DEF SearchInv, TypeOK
<1>3. TypeOK'
  BY <1>1, <1>2, TypeStays DEF SearchInv, TypeOK
<1>4. Unasked' /\ Once'
  BY <1>1 DEF SearchInv, Unasked, Once
<1>5. FusedTogether'
  BY <1>1, ByBothStays DEF SearchInv, FusedTogether
<1> QED
  BY <1>3, <1>4, <1>5 DEF Search

\* The entry that is made of a result.
LEMMA EntersAnEntry ==
  ASSUME TypeOK, NEW r \in Result, NEW reason \in Reasons, NEW length \in Nat,
         Enter(r, reason, length)
  PROVE  entries' \in Seq(Entry)
<1> DEFINE e == [chunk |-> r.chunk, profile |-> r.profile, reason |-> reason,
                 length |-> length, supporting |-> 0]
<1>1. e \in Entry
  BY DEF Entry, Result
<1>2. entries' = Append(entries, e) /\ entries \in Seq(Entry)
  BY DEF Enter, TypeOK
<1> HIDE DEF e
<1> QED
  BY <1>1, <1>2

LEMMA SupportType ==
  ASSUME TypeOK, NEW r, Support(r)
  PROVE  entries' \in Seq(Entry)
<1>1. PICK i \in Same(r) : entries' = [entries EXCEPT ![i].supporting = @ + 1]
  BY DEF Support
<1>2. i \in DOMAIN entries /\ entries \in Seq(Entry)
  BY DEF Same, Keyed, TypeOK
<1> DEFINE e == [entries[i] EXCEPT !.supporting = @ + 1]
<1>3. e \in Entry
  <2>1. entries[i] \in Entry
    BY <1>2
  <2> QED
    BY <2>1 DEF Entry
<1>4. entries' = [entries EXCEPT ![i] = e]
  BY <1>1
<1> HIDE DEF e
<1> QED
  BY <1>2, <1>3, <1>4

LEMMA IncludeType ==
  ASSUME SearchInv, NEW r \in Result, Include(r)
  PROVE  entries' \in Seq(Entry) /\ used' \in Nat
<1>1. PICK length \in Kept(Rendered(r.chunk)) :
         Enter(r, "none", length) /\ used' = used + Gap + length
  BY DEF Include
<1>2. PackInv /\ TypeOK /\ ~NoRoom
  BY DEF SearchInv, Include
<1>3. Remaining >= MinTruncated
  BY <1>2, RoomForATruncated
<1>4. length \in Nat
  <2>1. Rendered(r.chunk) \in Nat
    BY <1>2, RenderedLength DEF PackInv
  <2> QED
    BY <1>1, <1>2, <1>3, <2>1, Numbers DEF Kept
<1>5. "none" \in Reasons
  BY DEF Reasons
<1>6. Gap \in Nat /\ used \in Nat
  BY <1>2, Numbers DEF TypeOK
<1> QED
  BY <1>1, <1>2, <1>4, <1>5, <1>6, EntersAnEntry

LEMMA PackSearch == ASSUME SearchInv, Pack PROVE Search'
<1> DEFINE r == Head(todo)
<1>1. /\ todo # <<>> /\ todo' = Tail(todo)
      /\ UNCHANGED <<document, stage, request, question, failed, results>>
      /\ \/ Support(r) \/ ExceedItems(r) \/ Withhold(r)
         \/ Miss(r) \/ ExceedBudget(r) \/ Include(r)
  BY DEF Pack
<1>2. r \in Result /\ todo' \in Seq(Result)
  BY <1>1 DEF SearchInv, TypeOK
<1> HIDE DEF r
<1>3. TypeOK /\ used \in Nat
  BY DEF SearchInv, TypeOK
<1>4. entries' \in Seq(Entry) /\ used' \in Nat
  <2>1. CASE Support(r)
    BY <1>3, <2>1, SupportType DEF Support
  <2>2. CASE Include(r)
    BY <1>2, <2>2, IncludeType
  <2>3. ASSUME NEW reason \in Reasons, Enter(r, reason, 0), UNCHANGED used
        PROVE  entries' \in Seq(Entry) /\ used' \in Nat
    BY <1>2, <1>3, <2>3, EntersAnEntry
  <2>4. CASE ExceedItems(r) \/ Miss(r) \/ ExceedBudget(r)
    BY <2>3, <2>4 DEF ExceedItems, Miss, ExceedBudget, Reasons
  <2>5. CASE Withhold(r)
    <3>1. Verdict \in Reasons
      BY <2>5 DEF Withhold, Verdict, Reasons
    <3> QED
      BY <2>3, <2>5, <3>1 DEF Withhold
  <2> QED
    BY <1>1, <2>1, <2>2, <2>4, <2>5
<1>5. TypeOK'
  BY <1>1, <1>2, <1>4, TypeStays DEF SearchInv, TypeOK
<1>6. Unasked' /\ Once' /\ FusedTogether'
  <2>1. ByBoth' = ByBoth
    BY <1>1, ByBothStays
  <2> QED
    BY <1>1, <2>1 DEF SearchInv, Unasked, Once, FusedTogether, question
<1> QED
  BY <1>5, <1>6 DEF Search

LEMMA InitSearchInv == Init => SearchInv
<1> SUFFICES ASSUME Init PROVE SearchInv
  OBVIOUS
<1>1. PackInv
  BY InitPackInv
<1>2. ChunkerTypeOK
  BY <1>1, TypedType DEF PackInv, ChunksInv
<1>3. TypeOK
  <2>1. <<>> \in Seq(Profiles) /\ <<>> \in Seq(Ids) /\ <<>> \in Seq(Result) /\ <<>> \in Seq(Entry)
    OBVIOUS
  <2> QED
    BY <1>2, <2>1 DEF Init, TypeOK
<1>4. Unasked /\ Once /\ FusedTogether
  <2>1. IsFiniteSet({})
    BY FS_EmptySet
  <2> QED
    BY <2>1 DEF Init, Unasked, Once, FusedTogether, IsInjective
<1> QED
  BY <1>1, <1>3, <1>4 DEF SearchInv

LEMMA NextSearchInv == SearchInv /\ [Next]_vars => SearchInv'
<1> SUFFICES ASSUME SearchInv, [Next]_vars PROVE SearchInv'
  OBVIOUS
<1>1. PackInv'
  BY NextPackInv DEF SearchInv
<1>2. Search'
  <2>1. CASE Cut
    BY <2>1, CutSearch
  <2>2. CASE Ask
    BY <2>2, AskSearch
  <2>3. CASE SearchProfile
    BY <2>3, SearchProfileSearch
  <2>4. CASE FailProfile
    BY <2>4, FailProfileSearch
  <2>5. CASE OpenLog
    BY <2>5, OpenLogSearch
  <2>6. CASE Pack
    BY <2>6, PackSearch
  <2>7. CASE UNCHANGED vars
    <3>1. ByBoth' = ByBoth
      BY <2>7, ByBothStays DEF vars
    <3>2. UNCHANGED <<document, stage, request, question, failed, results, todo, used, entries>>
      BY <2>7 DEF vars
    <3>3. TypeOK'
      BY <3>2, TypeStays DEF SearchInv, TypeOK
    <3> QED
      BY <3>1, <3>2, <3>3 DEF Search, SearchInv, Unasked, Once, FusedTogether, question
  <2> QED
    BY <2>1, <2>2, <2>3, <2>4, <2>5, <2>6, <2>7 DEF Next
<1> QED
  BY <1>1, <1>2 DEF SearchInv, Search

LEMMA SearchInvHolds == Spec => []SearchInv
  BY InitSearchInv, NextSearchInv, PTL DEF Spec

\* Whatever is asked, found and packed, the searches only name chunks that were cut, and
\* the lists that the results are fused and packed from have all of them.
THEOREM TypeCorrect == Spec => []TypeOK
<1>1. SearchInv => TypeOK
  BY DEF SearchInv
<1> QED
  BY <1>1, SearchInvHolds, PTL

\* For every rrf_k, every list of profiles and any lists the searches return that are
\* short enough, the context of the answer is not withheld where both searches have
\* found the same chunk: it is the first of the fused results, and the verdict looks
\* at the first.
THEOREM AgreementIsAnswerableHolds == Spec => []AgreementIsAnswerable
<1>1. SearchInv => AgreementIsAnswerable
  <2> SUFFICES ASSUME SearchInv, ShortLists,
                      NEW r \in results, r.profile = Hybrid,
                      NEW c \in Ids, RankIn(nearest, c) # 0, RankIn(matches, c) # 0
               PROVE  Verdict = "answerable"
    BY DEF AgreementIsAnswerable, Hybrid
  <2> DEFINE both == [chunk |-> c, vector |-> RankIn(nearest, c), keyword |-> RankIn(matches, c)]
             n == Cardinality(Merged)
  <2>1. both \in Merged /\ Agreed(both)
    BY DEF Merged, Found, Agreed
  <2>2. /\ Merged \subseteq Listed /\ n \in Nat
        /\ Fused \in [1 .. n -> Merged]
        /\ \A d \in Merged : \E i \in 1 .. n : Fused[i] = d
        /\ \A i, j \in 1 .. n : i < j => Before(Fused[i], Fused[j])
    BY FusedSorts DEF SearchInv
  <2> HIDE DEF n, both
  <2>3. PICK i \in 1 .. n : Fused[i] = both
    BY <2>1, <2>2
  <2>4. 1 \in 1 .. n /\ Fused[1] \in Merged
    BY <2>2, <2>3
  <2>5. Agreed(Fused[1])
    <3> SUFFICES ASSUME ~Agreed(Fused[1]) PROVE FALSE
      OBVIOUS
    <3>1. i # 1 /\ i > 1
      BY <2>1, <2>2, <2>3
    <3>2. Before(Fused[1], both)
      BY <2>2, <2>3, <2>4, <3>1
    <3>3. both \in Listed /\ Fused[1] \in Listed
      BY <2>1, <2>2, <2>4
    <3>4. Before(both, Fused[1])
      BY <2>1, <3>3, AgreementComesFirst DEF Listed
    <3> QED
      BY <3>2, <3>3, <3>4, BeforeIsStrictOrder
  <2>6. [profile |-> Hybrid, rank |-> 1, chunk |-> Fused[1].chunk,
         evidence |-> FusedEvidence(Fused[1])] \in ByBoth
    <3> DEFINE list == [k \in DOMAIN Fused |-> Fused[k].chunk]
               evidence == [k \in DOMAIN Fused |-> FusedEvidence(Fused[k])]
    <3>1. ByBoth = ResultsOf(Hybrid, list, evidence)
      BY DEF ByBoth, Hybrid
    <3>2. DOMAIN Fused = 1 .. n
      BY <2>2
    <3>3. list[1] = Fused[1].chunk /\ evidence[1] = FusedEvidence(Fused[1])
      BY <2>4, <3>2
    <3>4. Len(list) = n
      BY <2>2, <3>2
    <3> HIDE DEF list, evidence
    <3>5. TopK \in Nat /\ TopK >= 1
      BY RetrievalAssumption, FusionAssumption
    <3>6. Shortest(TopK, Len(list)) \in Nat /\ 1 <= Shortest(TopK, Len(list))
      BY <2>2, <2>4, <3>4, <3>5 DEF Shortest
    <3>7. 1 \in 1 .. Shortest(TopK, Len(list))
      BY <3>6
    <3> QED
      BY <3>1, <3>3, <3>7 DEF ResultsOf
  <2> DEFINE best == [profile |-> Hybrid, rank |-> 1, chunk |-> Fused[1].chunk,
                      evidence |-> FusedEvidence(Fused[1])]
  <2>7. best \in results
    BY <2>6 DEF SearchInv, FusedTogether
  <2>8. best.profile = Hybrid /\ best.rank = 1 /\ best.evidence # {}
    BY <2>5 DEF FusedEvidence
  <2> HIDE DEF best
  <2>9. AnswerableBy(Hybrid)
    BY <2>7, <2>8 DEF AnswerableBy
  <2>10. Hybrid \in Profiles \ failed
    BY <2>7, <2>8 DEF SearchInv, Once, Profiles, Hybrid
  <2> QED
    BY <2>9, <2>10 DEF Verdict
<1> QED
  BY <1>1, SearchInvHolds, PTL

===============================================================================
