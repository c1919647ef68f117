-------------------------- MODULE ByteSearchProofs --------------------------
(***************************************************************************)
(* For every chunk size, file and pattern: a search that returns has found *)
(* exactly the occurrences, in file order, and it panics exactly when the  *)
(* file ends in a short tail.                                              *)
(*                                                                         *)
(* Inv adds to the type: the chunk is the part of the file at the offset,  *)
(* the matches are the occurrences before the position reached, and every  *)
(* chunk left behind was at least as long as the pattern.                  *)
(***************************************************************************)
EXTENDS ByteSearch, TLAPS

(* The position reached.                                                   *)
frontier == offset + start

IsBoundary(p) == \E k \in Nat : p = k * Chunk

ChunkIsRead ==
    bytes # None =>
       /\ ~Trivial
       /\ offset < size
       /\ read_len \in Nat
       /\ InBounds(offset, read_len)
       /\ bytes \in Seq(Byte)
       /\ Len(bytes) = read_len
       /\ \A i \in 1 .. read_len : bytes[i] = file[offset + i]

StaysInChunk == bytes # None => start <= scan_end

Between == bytes = None => start = 0

(* A chunk in which a position was compared is as long as the pattern.     *)
ComparedFits == start > 0 => Len(bytes) >= Len(pattern)

MatchesSound ==
    \A i \in 1 .. Len(matches) :
       /\ matches[i] \in 0 .. (size - Len(pattern))
       /\ Occurs(matches[i])
       /\ matches[i] < frontier

MatchesComplete ==
    outcome # "OutOfBounds" =>
       \A p \in 0 .. (size - Len(pattern)) : p < frontier /\ Occurs(p) =>
          \E i \in 1 .. Len(matches) : matches[i] = p

TailsPassed ==
    \A k \in Nat \ {0} : k * Chunk < offset => size >= k * Chunk + Len(pattern)

Ends ==
    /\ outcome = "Found" => Trivial \/ offset >= size
    /\ outcome = "Panic" => bytes # None /\ ~SliceExists /\ start < scan_end

Trivially == Trivial => offset = 0 /\ matches = << >> /\ bytes = None

Inv ==
    /\ TypeOK
    /\ IsBoundary(offset)
    /\ Between
    /\ ChunkIsRead
    /\ StaysInChunk
    /\ ComparedFits
    /\ MatchesSound
    /\ MatchesComplete
    /\ InFileOrder
    /\ TailsPassed
    /\ Ends
    /\ Trivially

USE ChunkAssumption, OutcomeAssumption

-----------------------------------------------------------------------------
LEMMA Multiples ==
    ASSUME NEW k \in Nat, NEW j \in Nat, k * Chunk < j * Chunk + Chunk
    PROVE  k * Chunk < j * Chunk \/ k = j
<1>1. CASE k < j
  <2>1. (j - k) * Chunk > 0
    BY <1>1
  <2>2. j * Chunk = k * Chunk + (j - k) * Chunk
    OBVIOUS
  <2>. QED BY <2>1, <2>2
<1>2. CASE k > j
  <2>1. k * Chunk = j * Chunk + Chunk + (k - j - 1) * Chunk
    OBVIOUS
  <2>2. (k - j - 1) * Chunk >= 0
    BY <1>2
  <2>. QED BY <2>1, <2>2
<1>. QED BY <1>1, <1>2

LEMMA Multiple ==
    ASSUME NEW k \in Nat
    PROVE  /\ k * Chunk \in Nat
           /\ k * Chunk >= k
           /\ (k + 1) * Chunk = k * Chunk + Chunk
<1>1. k * (Chunk - 1) >= 0
  OBVIOUS
<1>2. k * Chunk = k * (Chunk - 1) + k
  OBVIOUS
<1>. QED BY <1>1, <1>2

(* The lengths a chunk being scanned has.                                  *)
LEMMA ChunkLengths ==
    ASSUME TypeOK, ChunkIsRead, bytes # None
    PROVE  /\ Len(pattern) \in Nat \ {0}
           /\ read_len \in Nat \ {0}
           /\ offset + read_len <= size
           /\ scan_end \in Nat \ {0}
           /\ read_len < Len(pattern) => offset + read_len = size
           /\ Len(bytes) >= Len(pattern) =>
                 scan_end + Len(pattern) <= Len(bytes) + 1
           /\ scan_end <= Chunk
           /\ scan_end < Chunk /\ Len(bytes) >= Len(pattern) =>
                 offset + scan_end = size - Len(pattern) + 1
<1>1. /\ Len(pattern) \in Nat \ {0}
      /\ Len(pattern) <= size
      /\ offset \in Nat
      /\ size \in Nat
      /\ offset < size
      /\ Len(bytes) = read_len
  BY DEF TypeOK, ChunkIsRead, Trivial
<1>2. overlap = Len(pattern) - 1
  BY <1>1 DEF overlap, Monus
<1>3. /\ size - offset <= Chunk + Len(pattern) - 1 => read_len = size - offset
      /\ size - offset > Chunk + Len(pattern) - 1 => read_len = Chunk + Len(pattern) - 1
  BY <1>1, <1>2 DEF read_len, Least, Monus
<1>4. /\ read_len \in Nat \ {0}
      /\ offset + read_len <= size
      /\ read_len < Len(pattern) => offset + read_len = size
  BY <1>1, <1>3
<1>5. /\ is_last_chunk => scan_len = read_len
      /\ ~is_last_chunk => scan_len = Chunk
  BY <1>1, <1>2, <1>3, <1>4 DEF is_last_chunk, scan_len, Monus
<1>6. /\ read_len >= Len(pattern) => Monus(Len(bytes), Len(pattern)) = read_len - Len(pattern)
      /\ read_len < Len(pattern) => Monus(Len(bytes), Len(pattern)) = 0
  BY <1>1, <1>4 DEF Monus
<1>7. /\ scan_end \in Nat \ {0}
      /\ scan_end <= Chunk
  BY <1>1, <1>3, <1>4, <1>5, <1>6 DEF scan_end, Least, is_last_chunk
<1>8. Len(bytes) >= Len(pattern) => scan_end + Len(pattern) <= Len(bytes) + 1
  BY <1>1, <1>3, <1>4, <1>5, <1>6 DEF scan_end, Least
<1>9. scan_end < Chunk /\ Len(bytes) >= Len(pattern) =>
         offset + scan_end = size - Len(pattern) + 1
  BY <1>1, <1>3, <1>4, <1>5, <1>6 DEF scan_end, Least, is_last_chunk
<1>. QED BY <1>1, <1>4, <1>7, <1>8, <1>9

(* The lengths depend on nothing a comparison changes.                     *)
LEMMA SameChunk ==
    ASSUME UNCHANGED <<input, offset, bytes>>
    PROVE  /\ Trivial' = Trivial
           /\ scan_end' = scan_end
           /\ ChunkIsRead' = ChunkIsRead
  BY DEF input, Trivial, ChunkIsRead, InBounds, read_len, scan_end, scan_len, is_last_chunk,
         overlap

-----------------------------------------------------------------------------
LEMMA InitInv == Init => Inv
<1>. SUFFICES ASSUME Init PROVE Inv
  OBVIOUS
<1>1. TypeOK
  BY BoundAssumption DEF Init, TypeOK
<1>2. IsBoundary(offset)
  <2>. 0 = 0 * Chunk
    OBVIOUS
  <2>. QED BY DEF Init, IsBoundary
<1>3. TailsPassed
  BY Multiple DEF Init, TailsPassed
<1>4. MatchesSound /\ MatchesComplete /\ InFileOrder
  BY DEF Init, MatchesSound, MatchesComplete, InFileOrder, frontier
<1>. QED BY <1>1, <1>2, <1>3, <1>4
       DEF Init, Inv, Between, ChunkIsRead, StaysInChunk, ComparedFits, Ends, Trivially

LEMMA ReturnFoundInv == Inv /\ ReturnFound => Inv'
<1>. SUFFICES ASSUME Inv, ReturnFound PROVE Inv'
  OBVIOUS
<1>1. UNCHANGED <<input, offset, bytes, start, matches>> /\ outcome' = "Found"
  BY DEF ReturnFound, End
<1>2. Trivial' = Trivial /\ scan_end' = scan_end /\ ChunkIsRead'
  BY <1>1, SameChunk DEF Inv
<1>3. TypeOK' /\ InFileOrder'
  BY <1>1 DEF Inv, TypeOK, InFileOrder, input
<1>4. MatchesSound' /\ MatchesComplete'
  BY <1>1 DEF Inv, MatchesSound, MatchesComplete, frontier, Occurs, input, ReturnFound,
              BetweenChunks
<1>5. Ends'
  BY <1>1, <1>2 DEF Ends, ReturnFound, input
<1>. QED BY <1>1, <1>2, <1>3, <1>4, <1>5
       DEF Inv, IsBoundary, Between, StaysInChunk, ComparedFits, TailsPassed, Trivially, input

LEMMA ReadChunkInv == Inv /\ ReadChunk => Inv'
<1>. SUFFICES ASSUME Inv, ReadChunk PROVE Inv'
  OBVIOUS
<1>1. /\ UNCHANGED <<input, offset, matches, outcome>>
      /\ outcome = None /\ bytes = None /\ start = 0 /\ start' = 0
      /\ ~Trivial /\ ~Trivial'
      /\ overlap' = overlap /\ read_len' = read_len
  BY DEF ReadChunk, BetweenChunks, Inv, Between, Trivial, overlap, read_len, input
<1>2. read_len \in Nat
  BY DEF Inv, TypeOK, read_len, overlap, Least, Monus
<1>3. bytes' \in Seq(Byte) /\ Len(bytes') = read_len
  <2>1. \A i \in 1 .. read_len : file[offset + i] \in Byte
    BY <1>2 DEF ReadChunk, InBounds, Inv, TypeOK
  <2>. QED BY <1>2, <2>1 DEF ReadChunk
<1>4. ChunkIsRead'
  BY <1>1, <1>2, <1>3 DEF ReadChunk, ChunkIsRead, InBounds, input
<1>5. TypeOK' /\ InFileOrder'
  BY <1>1, <1>3 DEF Inv, TypeOK, InFileOrder, input
<1>6. MatchesSound' /\ MatchesComplete'
  BY <1>1 DEF Inv, MatchesSound, MatchesComplete, frontier, Occurs, input
<1>7. StaysInChunk'
  <2>1. scan_end' \in Nat
    BY <1>4, <1>5 DEF TypeOK, ChunkIsRead, scan_end, scan_len, Least, Monus, overlap
  <2>. QED BY <1>1, <2>1 DEF StaysInChunk
<1>. QED BY <1>1, <1>4, <1>5, <1>6, <1>7
       DEF Inv, IsBoundary, Between, ComparedFits, TailsPassed, Trivially, Ends, input

LEMMA ReadFailsInv == Inv /\ ReadFails => Inv'
<1>. SUFFICES ASSUME Inv, ReadFails PROVE Inv'
  OBVIOUS
<1>1. /\ UNCHANGED <<input, offset, bytes, start>>
      /\ outcome' = "OutOfBounds" /\ matches' = << >> /\ ~Trivial
  BY DEF ReadFails
<1>2. Trivial' = Trivial /\ scan_end' = scan_end /\ ChunkIsRead'
  BY <1>1, SameChunk DEF Inv
<1>3. TypeOK' /\ InFileOrder' /\ MatchesSound'
  BY <1>1 DEF Inv, TypeOK, InFileOrder, MatchesSound, input
<1>. QED BY <1>1, <1>2, <1>3
       DEF Inv, IsBoundary, Between, StaysInChunk, ComparedFits, TailsPassed, Trivially, Ends,
           MatchesComplete, input

LEMMA PanicInv == Inv /\ Panic => Inv'
<1>. SUFFICES ASSUME Inv, Panic PROVE Inv'
  OBVIOUS
<1>1. UNCHANGED <<input, offset, bytes, start, matches>> /\ outcome' = "Panic"
  BY DEF Panic, End
<1>2. Trivial' = Trivial /\ scan_end' = scan_end /\ ChunkIsRead'
  BY <1>1, SameChunk DEF Inv
<1>3. TypeOK' /\ InFileOrder'
  BY <1>1 DEF Inv, TypeOK, InFileOrder, input
<1>4. MatchesSound' /\ MatchesComplete'
  BY <1>1 DEF Inv, MatchesSound, MatchesComplete, frontier, Occurs, input, Panic, Scanning
<1>5. Ends'
  BY <1>1, <1>2 DEF Ends, Panic, Scanning, SliceExists, input
<1>. QED BY <1>1, <1>2, <1>3, <1>4, <1>5
       DEF Inv, IsBoundary, Between, StaysInChunk, ComparedFits, TailsPassed, Trivially, input

LEMMA CompareInv == Inv /\ Compare => Inv'
<1>. SUFFICES ASSUME Inv, Compare PROVE Inv'
  OBVIOUS
<1>. DEFINE here == offset + start
<1>1. /\ UNCHANGED <<input, offset, bytes, outcome>>
      /\ outcome = None /\ bytes # None
      /\ start' = start + 1
      /\ start + Len(pattern) <= Len(bytes)
      /\ matches' = IF MatchesHere THEN Append(matches, here) ELSE matches
  BY DEF Compare, Scanning, SliceExists
<1>2. /\ offset \in Nat /\ start \in Nat /\ size \in Nat
      /\ pattern \in Seq(Byte) /\ bytes \in Seq(Byte) /\ matches \in Seq(Nat)
      /\ here \in Nat
  BY <1>1 DEF Inv, TypeOK, ChunkIsRead
<1>3. /\ offset + read_len <= size /\ Len(bytes) = read_len
      /\ \A i \in 1 .. Len(bytes) : bytes[i] = file[offset + i]
  BY <1>1, ChunkLengths DEF Inv, ChunkIsRead
<1>4. here \in 0 .. (size - Len(pattern))
  BY <1>1, <1>2, <1>3
<1>5. MatchesHere <=> Occurs(here)
  <2>1. \A i \in 1 .. Len(pattern) : bytes[start + i] = file[here + i]
    <3>. SUFFICES ASSUME NEW i \in 1 .. Len(pattern)
                  PROVE  bytes[start + i] = file[here + i]
      OBVIOUS
    <3>1. start + i \in 1 .. Len(bytes) /\ offset + (start + i) = here + i
      BY <1>1, <1>2
    <3>. QED BY <1>3, <3>1
  <2>. QED BY <2>1 DEF MatchesHere, Occurs
<1>6. Trivial' = Trivial /\ scan_end' = scan_end /\ ChunkIsRead'
  BY <1>1, SameChunk DEF Inv
<1>7. /\ frontier = here /\ frontier' = here + 1
      /\ \A p : Occurs(p)' <=> Occurs(p)
  BY <1>1, <1>2 DEF frontier, input, Occurs
<1>8. /\ \A i \in 1 .. Len(matches) : matches'[i] = matches[i] /\ i \in 1 .. Len(matches')
      /\ Occurs(here) => /\ Len(matches') = Len(matches) + 1
                         /\ matches'[Len(matches) + 1] = here
      /\ ~Occurs(here) => Len(matches') = Len(matches)
      /\ matches' \in Seq(Nat)
      /\ Len(matches) \in Nat
  BY <1>1, <1>2, <1>5
<1>9. TypeOK'
  BY <1>1, <1>2, <1>8 DEF Inv, TypeOK, input
<1>10. MatchesSound'
  <2>. SUFFICES ASSUME NEW i \in 1 .. Len(matches')
                PROVE  /\ matches'[i] \in 0 .. (size - Len(pattern))
                       /\ Occurs(matches'[i]) /\ matches'[i] < here + 1
    BY <1>1, <1>7 DEF MatchesSound, input
  <2>1. CASE i \in 1 .. Len(matches)
    <3>1. /\ matches[i] \in 0 .. (size - Len(pattern))
          /\ Occurs(matches[i]) /\ matches[i] < here
      BY <1>7, <2>1 DEF Inv, MatchesSound
    <3>2. matches'[i] = matches[i]
      BY <1>8, <2>1
    <3>3. matches[i] < here + 1
      BY <1>2, <3>1
    <3>. QED BY <3>1, <3>2, <3>3
  <2>2. CASE i = Len(matches) + 1
    <3>1. Occurs(here) /\ matches'[i] = here
      BY <1>8, <2>2
    <3>. QED BY <1>2, <1>4, <3>1
  <2>3. i \in 1 .. Len(matches) \/ i = Len(matches) + 1
    BY <1>8
  <2>. QED BY <2>1, <2>2, <2>3
<1>11. MatchesComplete'
  <2>. SUFFICES ASSUME NEW p \in 0 .. (size - Len(pattern)), p < here + 1, Occurs(p)
                PROVE  \E i \in 1 .. Len(matches') : matches'[i] = p
    BY <1>1, <1>7 DEF MatchesComplete, input
  <2>1. CASE p < here
    BY <1>1, <1>7, <1>8, <2>1 DEF Inv, MatchesComplete
  <2>2. CASE p = here
    BY <1>8, <2>2
  <2>. QED BY <1>2, <2>1, <2>2
<1>12. InFileOrder'
  <2>. SUFFICES ASSUME NEW i \in 1 .. Len(matches'), NEW j \in 1 .. Len(matches'), i < j
                PROVE  matches'[i] < matches'[j]
    BY DEF InFileOrder
  <2>1. i \in 1 .. Len(matches)
    BY <1>8
  <2>2. CASE j \in 1 .. Len(matches)
    BY <1>8, <2>1, <2>2 DEF Inv, InFileOrder
  <2>3. CASE j = Len(matches) + 1
    BY <1>7, <1>8, <2>1, <2>3 DEF Inv, MatchesSound
  <2>. QED BY <1>8, <2>2, <2>3
<1>13. ComparedFits'
  BY <1>1, <1>2 DEF ComparedFits, input
<1>14. StaysInChunk'
  <2>1. scan_end \in Nat /\ start < scan_end
    BY <1>1, ChunkLengths DEF Inv, Compare, Scanning
  <2>. QED BY <1>1, <1>2, <1>6, <2>1 DEF StaysInChunk
<1>. QED BY <1>1, <1>6, <1>9, <1>10, <1>11, <1>12, <1>13, <1>14
       DEF Inv, IsBoundary, Between, TailsPassed, Trivially, Ends, input, ChunkIsRead

LEMMA NextChunkInv == Inv /\ NextChunk => Inv'
<1>. SUFFICES ASSUME Inv, NextChunk PROVE Inv'
  OBVIOUS
<1>1. /\ UNCHANGED <<input, matches, outcome>>
      /\ outcome = None /\ bytes # None /\ bytes' = None
      /\ start >= scan_end /\ start' = 0
      /\ offset' = offset + Chunk
      /\ \A p : Occurs(p)' <=> Occurs(p)
      /\ Trivial' = Trivial
  BY DEF NextChunk, input, Occurs, Trivial
<1>2. /\ offset \in Nat /\ start \in Nat /\ size \in Nat
      /\ matches \in Seq(Nat) /\ Len(pattern) \in Nat
      /\ Len(bytes) = read_len
  BY <1>1 DEF Inv, TypeOK, ChunkIsRead
<1>3. /\ start > 0 /\ Len(bytes) >= Len(pattern)
      /\ offset + read_len <= size
      /\ scan_end \in Nat /\ scan_end <= Chunk
      /\ scan_end < Chunk => offset + scan_end = size - Len(pattern) + 1
  BY <1>1, <1>2, ChunkLengths DEF Inv, ComparedFits
<1>4. /\ frontier = offset + start /\ frontier' = offset + Chunk
  BY <1>1, <1>2 DEF frontier
<1>5. start = scan_end
  BY <1>1, <1>2, <1>3 DEF Inv, StaysInChunk
<1>6. MatchesSound'
  BY <1>1, <1>2, <1>3, <1>4, <1>5 DEF Inv, MatchesSound, input
<1>7. MatchesComplete'
  <2>. SUFFICES ASSUME NEW p \in 0 .. (size - Len(pattern)), p < offset + Chunk, Occurs(p)
                PROVE  p < frontier
    BY <1>1, <1>4 DEF Inv, MatchesComplete, input
  <2>. QED BY <1>2, <1>3, <1>4, <1>5
<1>8. TailsPassed'
  <2>. SUFFICES ASSUME NEW k \in Nat \ {0}, k * Chunk < offset + Chunk
                PROVE  size >= k * Chunk + Len(pattern)
    BY <1>1 DEF TailsPassed, input
  <2>1. PICK j \in Nat : offset = j * Chunk
    BY DEF Inv, IsBoundary
  <2>2. CASE k * Chunk < offset
    BY <2>2 DEF Inv, TailsPassed
  <2>3. CASE k = j
    BY <1>2, <1>3, <2>1, <2>3
  <2>. QED BY <2>1, <2>2, <2>3, Multiples
<1>9. IsBoundary(offset)'
  <2>1. PICK j \in Nat : offset = j * Chunk
    BY DEF Inv, IsBoundary
  <2>2. offset' = (j + 1) * Chunk
    BY <1>1, <2>1, Multiple
  <2>. QED BY <2>2 DEF IsBoundary
<1>10. TypeOK' /\ InFileOrder'
  BY <1>1, <1>2 DEF Inv, TypeOK, InFileOrder, input
<1>11. Trivially'
  BY <1>1 DEF Inv, ChunkIsRead, Trivially
<1>. QED BY <1>1, <1>6, <1>7, <1>8, <1>9, <1>10, <1>11
       DEF Inv, Between, ChunkIsRead, StaysInChunk, ComparedFits, Ends, input

LEMMA NextInv == Inv /\ [Next]_vars => Inv'
<1>1. ASSUME Inv, UNCHANGED vars PROVE Inv'
  <2>. USE <1>1 DEF vars
  <2>1. Trivial' = Trivial /\ scan_end' = scan_end /\ ChunkIsRead'
    BY SameChunk DEF Inv, input
  <2>2. TypeOK' /\ InFileOrder' /\ IsBoundary(offset)' /\ TailsPassed'
    BY DEF Inv, TypeOK, InFileOrder, IsBoundary, TailsPassed, input
  <2>3. MatchesSound' /\ MatchesComplete'
    BY DEF Inv, MatchesSound, MatchesComplete, frontier, Occurs, input
  <2>. QED BY <2>1, <2>2, <2>3
         DEF Inv, Between, StaysInChunk, ComparedFits, Ends, Trivially, SliceExists, input
<1>. QED BY <1>1, ReturnFoundInv, ReadChunkInv, ReadFailsInv, CompareInv, PanicInv,
            NextChunkInv DEF Next, Search, Done

THEOREM Invariance == Spec => []Inv
<1>. QED BY InitInv, NextInv, PTL DEF Spec

-----------------------------------------------------------------------------
(* The variables keep their types, with an unbounded file and pattern.     *)
THEOREM SearchTypeCorrect == Spec => []TypeOK
<1>1. Inv => TypeOK
  BY DEF Inv
<1>. QED BY <1>1, Invariance, PTL

(* Matches come in file order and only once, at every step.                *)
THEOREM MatchesAreOrdered == Spec => []InFileOrder
<1>1. Inv => InFileOrder
  BY DEF Inv
<1>. QED BY <1>1, Invariance, PTL

(* Whatever the chunk size, a search that returns has found exactly the    *)
(* occurrences of the pattern.                                             *)
THEOREM SearchIsExact == Spec => []FindsAll
<1>1. ASSUME Inv PROVE FindsAll
  <2>. SUFFICES ASSUME outcome = "Found", Len(pattern) > 0
                PROVE  {matches[i] : i \in 1 .. Len(matches)} = Occurrences
    BY DEF FindsAll
  <2>. USE <1>1
  <2>1. outcome # "OutOfBounds" /\ outcome # None
    OBVIOUS
  <2>2. CASE Trivial
    <3>1. Len(pattern) > size /\ matches = << >>
      BY <2>2 DEF Inv, Trivially, Trivial
    <3>2. 0 .. (size - Len(pattern)) = {}
      BY <3>1 DEF Inv, TypeOK
    <3>. QED BY <3>1, <3>2 DEF Occurrences
  <2>3. CASE offset >= size
    <3>1. \A p \in 0 .. (size - Len(pattern)) : p < frontier
      BY <2>3 DEF Inv, TypeOK, frontier
    <3>2. \A p \in Occurrences : \E i \in 1 .. Len(matches) : matches[i] = p
      BY <2>1, <3>1 DEF Inv, MatchesComplete, Occurrences
    <3>3. \A i \in 1 .. Len(matches) : matches[i] \in Occurrences
      BY DEF Inv, MatchesSound, Occurrences
    <3>. QED BY <3>2, <3>3
  <2>. QED BY <2>2, <2>3 DEF Inv, Ends
<1>. QED BY <1>1, Invariance, PTL

(* The files that bring a search down are the ones with a short tail.      *)
THEOREM PanicsAreShortTails == Spec => []PanicsOnlyAtShortTail
<1>1. ASSUME Inv, ~Trivial, outcome = "Panic" PROVE ShortTail
  <2>. USE <1>1
  <2>1. /\ bytes # None /\ start < scan_end /\ start + Len(pattern) > Len(bytes)
        /\ offset \in Nat /\ start \in Nat /\ size \in Nat /\ Len(pattern) \in Nat
        /\ Len(bytes) = read_len /\ offset < size /\ Len(pattern) <= size
    BY DEF Inv, Ends, SliceExists, TypeOK, ChunkIsRead, Trivial
  <2>2. read_len < Len(pattern) /\ size = offset + read_len
    BY <2>1, ChunkLengths DEF Inv
  <2>3. PICK k \in Nat : offset = k * Chunk
    BY DEF Inv, IsBoundary
  <2>4. k # 0
    BY <2>1, <2>2, <2>3
  <2>5. k \in 1 .. size
    BY <2>1, <2>3, <2>4, Multiple
  <2>. QED BY <2>1, <2>2, <2>3, <2>5 DEF ShortTail
<1>2. ASSUME Inv, ~Trivial, outcome = "Found", ShortTail PROVE FALSE
  <2>. USE <1>2
  <2>1. PICK k \in 1 .. size : k * Chunk < size /\ size < k * Chunk + Len(pattern)
    BY DEF ShortTail
  <2>2. k \in Nat \ {0} /\ k * Chunk \in Nat
    BY Multiple DEF Inv, TypeOK
  <2>3. offset >= size /\ offset \in Nat /\ size \in Nat /\ Len(pattern) \in Nat
    BY DEF Inv, Ends, TypeOK
  <2>4. size >= k * Chunk + Len(pattern)
    BY <2>1, <2>2, <2>3 DEF Inv, TailsPassed
  <2>. QED BY <2>1, <2>2, <2>3, <2>4
<1>3. Inv => PanicsOnlyAtShortTail
  BY <1>1, <1>2 DEF PanicsOnlyAtShortTail
<1>. QED BY <1>3, Invariance, PTL
=============================================================================
