------------------------------- MODULE HexPage -------------------------------
(***************************************************************************)
(* The page of the hex view of a document: which bytes a frame shows, the  *)
(* rows it breaks them into, how it paints each of them, and the status of *)
(* the search beside them.  Nothing here is state: every frame computes it *)
(* anew from the variables of Document, and the properties say that page,  *)
(* paint and status agree with that state and with each other.             *)
(***************************************************************************)
EXTENDS Document

CONSTANTS
    BufferLen,         \* file_size of the buffer: Size, unless the file changed
                       \* while it was opened
    BytesPerRow        \* the widths that fit: MIN_HEX_BYTES_PER_ROW and up

ASSUME ViewAssumption == BufferLen \in Nat /\ BytesPerRow \subseteq Nat \ {0}

Hex == INSTANCE HexRanges

-----------------------------------------------------------------------------
(* The hex page *)

to_show == Least(Monus(Size, hex_start_offset), Page)

(* What the hex pane shows: a page, or a message instead.                  *)
hex_view ==
    IF to_show = 0 THEN "File is empty"
    ELSE IF hex_start_offset + to_show > BufferLen THEN "Failed to read"
    ELSE "page"

visible_end == hex_start_offset + to_show

selected_visible_range ==
    IF selected_field_range = None THEN {}
    ELSE {b \in hex_start_offset .. (visible_end - 1) :
             /\ selected_field_range[1] <= b
             /\ b < selected_field_range[1] + selected_field_range[2]}

(* Bug: the selection is painted over the current match.                   *)
SelectionFirst(b) ==
    LET ranges == Hex!visible_search_ranges(search_matches, active_search_pattern_len,
                                              hex_start_offset, visible_end)
        over == {r \in ranges : r.first <= b /\ b < r.end}
        active == {r \in over : r.index - 1 = current_search_match}
    IN IF b \in selected_visible_range THEN "selected"
       ELSE IF active # {} THEN "active"
       ELSE IF over \ active # {} THEN "match"
       ELSE "plain"

(* How the byte at an offset is painted.                                   *)
painted(b) ==
    LET ranges == Hex!visible_search_ranges(search_matches, active_search_pattern_len,
                                              hex_start_offset, visible_end)
        over == {r \in ranges : r.first <= b /\ b < r.end}
        active == {r \in over : r.index - 1 = current_search_match}
    IN IF active # {} THEN "active"
       ELSE IF b \in selected_visible_range THEN "selected"
       ELSE IF over \ active # {} THEN "match"
       ELSE "plain"

(* The rows of the page: where each begins and where the next one does.    *)
hex_rows(per_row) ==
    {[first |-> hex_start_offset + start,
      end |-> hex_start_offset + Least(start + per_row, to_show)] :
        start \in {s \in 0 .. (to_show - 1) : s % per_row = 0}}

search_status ==
    IF active_search_query = Empty THEN None
    ELSE IF search_matches = << >> THEN << 0, 0 >>
    ELSE << IF current_search_match = None THEN 1 ELSE current_search_match + 1,
            Len(search_matches) >>

-----------------------------------------------------------------------------
(* Properties *)

(* However the user moved, the page is full unless the whole file is       *)
(* shorter than one, so that an empty page means an empty file and a page  *)
(* fails to be read only where the file has lost its end.                  *)
PageIsFull ==
    /\ to_show = Least(Size, Page)
    /\ hex_view = "File is empty" <=> Size = 0
    /\ BufferLen >= Size => hex_view # "Failed to read"

(* Every byte of the page is drawn in exactly one row, at any width, and   *)
(* painted for what it belongs to: the current match before the selection  *)
(* before the other matches, cut off at neither end of the page.           *)
PaintIsRight ==
    LET covers(m) == {b \in 0 .. (Size - 1) :
                        m <= b /\ b < m + active_search_pattern_len}
        others == UNION {covers(search_matches[i]) :
                            i \in {j \in 1 .. Len(search_matches) :
                                      j - 1 # current_search_match}}
        current == IF current_search_match = None THEN {}
                   ELSE covers(search_matches[current_search_match + 1])
    IN /\ \A per_row \in BytesPerRow :
             \A b \in hex_start_offset .. (visible_end - 1) :
                Cardinality({row \in hex_rows(per_row) : row.first <= b /\ b < row.end}) = 1
       /\ \A b \in hex_start_offset .. (visible_end - 1) :
             /\ painted(b) = "active" <=> b \in current
             /\ painted(b) = "selected" <=> b \in selected_visible_range \ current
             /\ painted(b) = "match" <=> b \in others \ (current \cup selected_visible_range)

(* The status line counts as the user does: match k of n is the k-th in    *)
(* the file, its bytes are those painted as the current match, and there   *)
(* are none only if the search that is active found none.                  *)
StatusIsTrue ==
    search_status # None =>
       LET k == search_status[1]
           n == search_status[2]
       IN IF n = 0 THEN \A b \in hex_start_offset .. (visible_end - 1) :
                           painted(b) \notin {"active", "match"}
          ELSE /\ k \in 1 .. n
               /\ \A b \in hex_start_offset .. (visible_end - 1) :
                     /\ search_matches[k] <= b
                     /\ b < search_matches[k] + active_search_pattern_len
                     => painted(b) = "active"

(* The hex page is full, painted for what its bytes belong to, and the     *)
(* status of the search says the same as the paint.                        *)
PageIsRight == PageIsFull /\ PaintIsRight /\ StatusIsTrue
=============================================================================
