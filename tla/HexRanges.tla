------------------------------ MODULE HexRanges ------------------------------
(***************************************************************************)
(* visible_search_ranges: the parts of the matches of a search that fall   *)
(* into a window of the file, as the hex view paints them.                 *)
(***************************************************************************)
EXTENDS Integers, Sequences

(* The loop skips the matches that end before the window and stops at the  *)
(* first that begins after it.                                             *)
visible_search_ranges(found, length, from, to) ==
    LET beyond == {i \in 1 .. Len(found) : found[i] >= to /\ found[i] + length > from}
        examined == {i \in 1 .. Len(found) : \A j \in beyond : i < j}
        shown == {i \in examined : length > 0 /\ found[i] + length > from}
    IN {[index |-> i,
         first |-> IF found[i] > from THEN found[i] ELSE from,
         end |-> IF found[i] + length < to THEN found[i] + length ELSE to] :
            i \in shown}
=============================================================================
