----------------------------- MODULE ByteSearch -----------------------------
(***************************************************************************)
(* The byte search of the GUI: find_byte_pattern_matches reads the file in *)
(* chunks, each but the last extended by as many bytes as a match may      *)
(* reach past it.  What the hex view paints of the matches is HexRanges.   *)
(*                                                                         *)
(* A step reads a chunk, compares the pattern at one position of it, or    *)
(* moves to the next chunk.  A slice out of range is a panic, an outcome   *)
(* of its own.                                                             *)
(***************************************************************************)
EXTENDS HexRanges

CONSTANTS
    Byte,              \* the values of a byte
    Chunk,             \* SEARCH_CHUNK_SIZE
    MaxFile,           \* bound: length of the file
    MaxPattern,        \* bound: length of the pattern
    None

ASSUME ChunkAssumption == Chunk \in Nat \ {0}
ASSUME BoundAssumption == MaxFile \in Nat /\ MaxPattern \in Nat
ASSUME OutcomeAssumption == None \notin {"Found", "OutOfBounds", "Panic"}

VARIABLES
    file,              \* the buffer's bytes
    size,              \* the size recorded when the file was opened
    pattern,
    offset,            \* where the next chunk begins, or the current one
    bytes,             \* the current chunk; None between chunks
    start,             \* next position of the chunk to compare
    matches,           \* offsets found so far
    outcome            \* None, or how the search ended

vars == <<file, size, pattern, offset, bytes, start, matches, outcome>>

input == <<file, size, pattern>>

Least(m, n) == IF m <= n THEN m ELSE n

(* Subtraction that saturates at zero.                                     *)
Monus(m, n) == IF n <= m THEN m - n ELSE 0

-----------------------------------------------------------------------------
overlap == Monus(Len(pattern), 1)

(* Bug: chunks do not overlap.                                             *)
disjoint_read_len == Least(Monus(size, offset), Chunk)

read_len == Least(Monus(size, offset), Chunk + overlap)

is_last_chunk == offset + read_len >= size

(* checked_range of the buffer.                                            *)
InBounds(from, len) == from + len <= Len(file)

scan_len == IF is_last_chunk THEN Len(bytes) ELSE Monus(Len(bytes), overlap)

(* Bug: positions are tried where the pattern does not fit.                *)
unclamped_scan_end == scan_len

scan_end == Least(scan_len, Monus(Len(bytes), Len(pattern)) + 1)

(* The slice bytes[start .. start + pattern.len()] exists.                 *)
SliceExists == start + Len(pattern) <= Len(bytes)

MatchesHere == \A i \in 1 .. Len(pattern) : bytes[start + i] = pattern[i]

-----------------------------------------------------------------------------
(* The recorded size comes from the file's metadata, the bytes from a read *)
(* or a mapping made later: they may differ.                               *)
Init ==
    /\ \E n \in 0 .. MaxFile : file \in [1 .. n -> Byte]
    /\ size \in 0 .. MaxFile
    /\ \E n \in 0 .. MaxPattern : pattern \in [1 .. n -> Byte]
    /\ offset = 0
    /\ bytes = None
    /\ start = 0
    /\ matches = << >>
    /\ outcome = None

BetweenChunks == outcome = None /\ bytes = None

Trivial == Len(pattern) = 0 \/ Len(pattern) > size

End(result) ==
    /\ outcome' = result
    /\ UNCHANGED <<input, offset, bytes, start, matches>>

ReturnFound ==
    /\ BetweenChunks
    /\ Trivial \/ offset >= size
    /\ End("Found")

ReadChunk ==
    /\ BetweenChunks
    /\ ~Trivial
    /\ offset < size
    /\ InBounds(offset, read_len)
    /\ bytes' = [i \in 1 .. read_len |-> file[offset + i]]
    /\ start' = 0
    /\ UNCHANGED <<input, offset, matches, outcome>>

(* The error leaves through `?' and the matches found so far are dropped.  *)
ReadFails ==
    /\ BetweenChunks
    /\ ~Trivial
    /\ offset < size
    /\ ~InBounds(offset, read_len)
    /\ matches' = << >>
    /\ outcome' = "OutOfBounds"
    /\ UNCHANGED <<input, offset, bytes, start>>

Scanning == outcome = None /\ bytes # None /\ start < scan_end

Compare ==
    /\ Scanning
    /\ SliceExists
    /\ matches' = IF MatchesHere THEN Append(matches, offset + start) ELSE matches
    /\ start' = start + 1
    /\ UNCHANGED <<input, offset, bytes, outcome>>

Panic ==
    /\ Scanning
    /\ ~SliceExists
    /\ End("Panic")

NextChunk ==
    /\ outcome = None
    /\ bytes # None
    /\ start >= scan_end
    /\ offset' = offset + Chunk
    /\ bytes' = None
    /\ start' = 0
    /\ UNCHANGED <<input, matches, outcome>>

Done ==
    /\ outcome # None
    /\ UNCHANGED vars

Search == ReturnFound \/ ReadChunk \/ ReadFails \/ Compare \/ Panic \/ NextChunk

Next == Search \/ Done

Spec == Init /\ [][Next]_vars

-----------------------------------------------------------------------------
(* Properties *)

(* Type correctness.                                                       *)
TypeOK ==
    /\ file \in Seq(Byte)
    /\ size \in Nat
    /\ pattern \in Seq(Byte)
    /\ offset \in Nat
    /\ bytes = None \/ bytes \in Seq(Byte)
    /\ start \in Nat
    /\ matches \in Seq(Nat)
    /\ outcome \in {None, "Found", "OutOfBounds", "Panic"}

Occurs(p) == \A i \in 1 .. Len(pattern) : file[p + i] = pattern[i]

(* Where the pattern really is, in the part of the file the size covers.   *)
Occurrences == {p \in 0 .. (size - Len(pattern)) : Occurs(p)}

(* A search that returns has found every occurrence and nothing else,      *)
(* those that straddle two chunks and those that overlap included.         *)
FindsAll ==
    outcome = "Found" /\ Len(pattern) > 0 =>
       {matches[i] : i \in 1 .. Len(matches)} = Occurrences

(* The matches are in file order and none is listed twice, though chunks   *)
(* overlap: stepping through them goes forward, and the loop of            *)
(* visible_search_ranges may stop early.                                   *)
InFileOrder ==
    \A i, j \in 1 .. Len(matches) : i < j => matches[i] < matches[j]

(* Past its first chunk, the file ends with a chunk shorter than the       *)
(* pattern.                                                                *)
ShortTail ==
    \E k \in 1 .. size : k * Chunk < size /\ size < k * Chunk + Len(pattern)

(* The search indexes past the chunk it has read for the files that end in *)
(* a short tail, and for no other.                                         *)
PanicsOnlyAtShortTail ==
    ~Trivial => /\ outcome = "Panic" => ShortTail
                /\ outcome = "Found" => ~ShortTail

(* README.md promises to search text and highlight the matches: a search   *)
(* does not bring the program down.                                        *)
NeverPanics == outcome # "Panic"
=============================================================================
