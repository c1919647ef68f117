------------------------------ MODULE SchemaText ------------------------------
(***************************************************************************)
(* Positions in the text of the schema editor: how a cursor, which counts  *)
(* characters, leads to a line, how a line leads to the name it declares   *)
(* and to the bytes of that name, and how these bytes are highlighted by   *)
(* the next frame, which may already show another text.                    *)
(*                                                                         *)
(* A text is a sequence of characters, except that the key "name:" is one  *)
(* element.  Document has the same editor with the names and lines as data *)
(* and without the positions; what rows there are is left out here.        *)
(***************************************************************************)
EXTENDS Naturals, SequencesExt, FiniteSetsExt

CONSTANTS
    Chars,             \* the characters that are typed
    MaxText,           \* bound: length of a text
    None

Key == "name:"         \* stands for five characters
Wide == "wide"         \* a character of two bytes
LF == "lf"
CR == "cr"
Space == "space"
Dash == "dash"
Quote == "quote"
Hash == "hash"
Escape == "escape"

ASSUME TextAssumption == MaxText \in Nat

(* The entry of a line, the same as a place in the text, the line of a row.*)
NameEntry == [name : Seq(Chars), start : Nat, end : Nat]
NameMatch == [name : Seq(Chars), line : Nat, start : Nat, end : Nat]
LineMatch == [line : Nat, start : Nat, end : Nat]

ASSUME NoneAssumption ==
    None \notin NameEntry \cup NameMatch \cup LineMatch \cup (Nat \X Nat)

Text == BoundedSeq(Chars, MaxText)

VARIABLES
    schema_editor_text,
    schema_match,                  \* None, or the line of the selected row
    schema_cursor_name_highlight,  \* None, or the name under the cursor
    highlighted_range              \* what the text shown was laid out with

vars == <<schema_editor_text, schema_match, schema_cursor_name_highlight,
          highlighted_range>>

-----------------------------------------------------------------------------
(* Lengths.  A byte is where it is in its character: 1 begins one.         *)

Spelling(ch) ==
    CASE ch = Key -> << 1, 1, 1, 1, 1 >>
      [] ch = Wide -> << 1, 2 >>
      [] OTHER -> << 1 >>

Bytes(text) == FlattenSeq([i \in 1 .. Len(text) |-> Spelling(text[i])])
ByteLen(text) == Len(Bytes(text))
CharLen(text) == Cardinality({b \in 1 .. ByteLen(text) : Bytes(text)[b] = 1})

is_char_boundary(text, b) ==
    b = ByteLen(text) \/ (b < ByteLen(text) /\ Bytes(text)[b + 1] = 1)

IsWhitespace(ch) == ch \in {Space, LF, CR}

(* The first place from a position on where there is no white space.       *)
trim_start(text, from) ==
    CHOOSE i \in from .. (Len(text) + 1) :
       /\ \A j \in from .. (i - 1) : IsWhitespace(text[j])
       /\ i <= Len(text) => ~IsWhitespace(text[i])

trim_end(text) ==
    SubSeq(text, 1, CHOOSE n \in 0 .. Len(text) :
                       /\ \A j \in (n + 1) .. Len(text) : IsWhitespace(text[j])
                       /\ n > 0 => ~IsWhitespace(text[n]))

strip_suffix(s, ch) == IF s # << >> /\ s[Len(s)] = ch THEN Front(s) ELSE s

-----------------------------------------------------------------------------
(* Lines *)

(* How many of the first i characters end a line.                         *)
LineEnds(text, i) == Cardinality({j \in 1 .. i : text[j] = LF})

LineCount(text) == IF text = << >> THEN 0 ELSE LineEnds(text, Len(text) - 1) + 1

(* split_inclusive: where each line begins and where it ends.              *)
Segments(text) ==
    LET line(l) == {i \in 1 .. Len(text) : LineEnds(text, i - 1) = l - 1}
    IN [l \in 1 .. LineCount(text) |-> [first |-> Min(line(l)), last |-> Max(line(l))]]

(* A line without its end: one LF, then one CR.                            *)
LineOf(text, segment) ==
    strip_suffix(strip_suffix(SubSeq(text, segment.first, segment.last), LF), CR)

(* Bug: a line end under the cursor is counted.                            *)
LineThroughCursor(text, c) ==
    Cardinality({i \in 1 .. Len(text) : text[i] = LF /\ CharLen(SubSeq(text, 1, i - 1)) <= c})

(* The index of the line of the cursor before the c-th character.          *)
line_index_for_char_index(text, c) ==
    Cardinality({i \in 1 .. Len(text) : text[i] = LF /\ CharLen(SubSeq(text, 1, i - 1)) < c})

(* Whether a character follows an escape that does not follow one itself.  *)
Escaped(value, i) ==
    LET escaped[k \in 1 .. i] == k > 1 /\ value[k - 1] = Escape /\ ~escaped[k - 1]
    IN escaped[i]

(* The value of a name and where it begins and ends, in bytes of the value. *)
(* A quoted one ends at the quote or with the line, a plain one before the *)
(* first hash.                                                             *)
parse_schema_name_value_span(value) ==
    IF value[1] = Quote
    THEN LET closing == {i \in 2 .. Len(value) : value[i] = Quote /\ ~Escaped(value, i)}
             raw == SubSeq(value, 2, IF closing = {} THEN Len(value) ELSE Min(closing) - 1)
             kept == [i \in 1 .. Len(raw) |->
                        IF raw[i] = Escape /\ ~Escaped(value, i + 1) THEN << >>
                        ELSE << raw[i] >>]
         IN [name |-> FlattenSeq(kept), start |-> 1, end |-> 1 + ByteLen(raw)]
    ELSE LET hashes == {i \in 1 .. Len(value) : value[i] = Hash}
             plain == trim_end(IF hashes = {} THEN value
                               ELSE SubSeq(value, 1, Min(hashes) - 1))
         IN [name |-> plain, start |-> 0, end |-> ByteLen(plain)]

(* The name that a line declares, as "name:" or as the first of an item.   *)
parse_schema_name_entry(line) ==
    LET first == trim_start(line, 1)
        isItem == first <= Len(line) /\ line[first] = Dash
        key == IF isItem THEN trim_start(line, first + 1) ELSE first
        value == trim_start(line, key + 1)
        span == parse_schema_name_value_span(SubSeq(line, value, Len(line)))
        before == ByteLen(SubSeq(line, 1, value - 1))
    IN IF \/ isItem /\ (first = Len(line) \/ ~IsWhitespace(line[first + 1]))
          \/ key > Len(line)
          \/ line[key] # Key
          \/ value > Len(line)
          \/ span.name = << >>
       THEN None
       ELSE [name |-> span.name, start |-> before + span.start, end |-> before + span.end]

schema_field_name_match_at_line(text, l) ==
    LET segment == Segments(text)[l + 1]
        entry == parse_schema_name_entry(LineOf(text, segment))
        before == ByteLen(SubSeq(text, 1, segment.first - 1))
    IN IF l + 1 > Len(Segments(text)) THEN None
       ELSE IF entry = None THEN None
       ELSE [name |-> entry.name, line |-> l + 1,
             start |-> before + entry.start, end |-> before + entry.end]

(* Bug: every line before is taken to end in one byte.                     *)
EntryAfterPlainLines(text, name) ==
    LET segments == Segments(text)
        declares(l) == LET entry == parse_schema_name_entry(LineOf(text, segments[l]))
                       IN entry # None /\ entry.name = name
        lines == {l \in 1 .. Len(segments) : declares(l)}
        before(l) == FoldLeft(LAMBDA n, s : n + ByteLen(LineOf(text, s)) + 1, 0,
                              SubSeq(segments, 1, l - 1))
    IN IF lines = {} THEN None
       ELSE [line |-> Min(lines), start |-> before(Min(lines)),
             end |-> before(Min(lines)) + ByteLen(LineOf(text, segments[Min(lines)]))]

(* The first line that declares a name, as a range of bytes.               *)
find_schema_name_entry(text, name) ==
    LET segments == Segments(text)
        declares(l) == LET entry == parse_schema_name_entry(LineOf(text, segments[l]))
                       IN entry # None /\ entry.name = name
        lines == {l \in 1 .. Len(segments) : declares(l)}
        before == ByteLen(SubSeq(text, 1, segments[Min(lines)].first - 1))
    IN IF lines = {} THEN None
       ELSE [line |-> Min(lines), start |-> before,
             end |-> before + ByteLen(LineOf(text, segments[Min(lines)]))]

Names(text) ==
    {schema_field_name_match_at_line(text, l).name :
        l \in {k \in 0 .. (Len(Segments(text)) - 1) :
                  schema_field_name_match_at_line(text, k) # None}}

-----------------------------------------------------------------------------
(* Layout *)

(* Bug: only the length of the text is checked.                            *)
UncheckedLayout(text, range) ==
    LET piece(from, to) == SubSeq(Bytes(text), from + 1, to)
    IN IF range # None /\ range[1] <= range[2] /\ range[2] <= ByteLen(text)
       THEN << piece(0, range[1]), piece(range[1], range[2]),
               piece(range[2], ByteLen(text)) >>
       ELSE << Bytes(text) >>

(* The pieces a text is laid out in, the second one highlighted.           *)
schema_editor_layout_job(text, range) ==
    LET piece(from, to) == SubSeq(Bytes(text), from + 1, to)
    IN IF /\ range # None
          /\ range[1] <= range[2] /\ range[2] <= ByteLen(text)
          /\ is_char_boundary(text, range[1]) /\ is_char_boundary(text, range[2])
       THEN << piece(0, range[1]), piece(range[1], range[2]),
               piece(range[2], ByteLen(text)) >>
       ELSE << Bytes(text) >>

(* The range a frame takes: the name under the cursor before the match.    *)
RangeOfFrame ==
    LET mark == IF schema_cursor_name_highlight # None
                THEN schema_cursor_name_highlight ELSE schema_match
    IN IF mark = None THEN None ELSE << mark.start, mark.end >>

-----------------------------------------------------------------------------
(* Frames *)

(* A frame in which a stretch is replaced by at most one character: it is  *)
(* laid out with the range of the text before.                             *)
Type ==
    /\ \E from \in 0 .. Len(schema_editor_text) :
       \E to \in from .. Len(schema_editor_text) :
       \E typed \in {<< >>} \cup {<< ch >> : ch \in Chars} :
          /\ schema_editor_text' = SubSeq(schema_editor_text, 1, from) \o typed
                                   \o SubSeq(schema_editor_text, to + 1, Len(schema_editor_text))
          /\ schema_editor_text' # schema_editor_text
          /\ Len(schema_editor_text') <= MaxText
    /\ schema_match' = None
    /\ schema_cursor_name_highlight' = None
    /\ highlighted_range' = RangeOfFrame

(* A frame in which the cursor is put somewhere.  If the name of the line  *)
(* has a row in the table that row is selected, which unmarks its line.    *)
MoveCursor ==
    /\ \E c \in 0 .. CharLen(schema_editor_text) :
          LET entry == schema_field_name_match_at_line(schema_editor_text,
                          line_index_for_char_index(schema_editor_text, c))
          IN \/ /\ schema_cursor_name_highlight' = None
                /\ UNCHANGED schema_match
             \/ /\ entry # None
                /\ schema_cursor_name_highlight' = entry
                /\ schema_match' = None
    /\ highlighted_range' = RangeOfFrame
    /\ UNCHANGED schema_editor_text

(* A frame in which a row of the table is selected.                        *)
SelectRow ==
    /\ \E name \in Names(schema_editor_text) :
          schema_match' = find_schema_name_entry(schema_editor_text, name)
    /\ schema_cursor_name_highlight' = None
    /\ highlighted_range' = RangeOfFrame
    /\ UNCHANGED schema_editor_text

Init ==
    /\ schema_editor_text \in Text
    /\ schema_match = None
    /\ schema_cursor_name_highlight = None
    /\ highlighted_range = None

Next == Type \/ MoveCursor \/ SelectRow

Spec == Init /\ [][Next]_vars

-----------------------------------------------------------------------------
(* Properties *)

(* The whole text is shown, in order and without a character cut in two,   *)
(* though it may be laid out with a range that belongs to the text before  *)
(* the last keystroke.                                                     *)
NothingIsLost ==
    LET pieces == schema_editor_layout_job(schema_editor_text, highlighted_range)
    IN /\ FlattenSeq(pieces) = Bytes(schema_editor_text)
       /\ \A i \in 1 .. Len(pieces) : pieces[i] # << >> => pieces[i][1] = 1

(* The byte at which an element of the text begins.                        *)
StartOf(i) == ByteLen(SubSeq(schema_editor_text, 1, i - 1))

(* What is highlighted under the cursor is on one line, the one it says,   *)
(* behind the key, whole characters, and neither empty nor white at the    *)
(* edges unless it is quoted.                                              *)
HighlightIsName ==
    schema_cursor_name_highlight # None =>
       LET mark == schema_cursor_name_highlight
           text == schema_editor_text
           inside == {i \in 1 .. Len(text) : mark.start <= StartOf(i) /\ StartOf(i) < mark.end}
       IN /\ inside # {}
          /\ is_char_boundary(text, mark.start) /\ is_char_boundary(text, mark.end)
          /\ \A i \in inside : text[i] # LF
          /\ Cardinality({i \in 1 .. (Min(inside) - 1) : text[i] = LF}) = mark.line - 1
          /\ \E k \in 1 .. (Min(inside) - 1) :
                /\ text[k] = Key
                /\ \A i \in (k + 1) .. (Min(inside) - 1) : text[i] \in {Space, CR, Quote}
          /\ Cardinality(inside) >= Len(mark.name)
          /\ text[Min(inside) - 1] # Quote =>
                /\ mark.name = SubSeq(text, Min(inside), Max(inside))
                /\ ~IsWhitespace(text[Max(inside)])

(* The line marked for a row is one whole line that declares its name, the *)
(* first that does, so that a click on it leads to that name again.        *)
MatchIsLine ==
    schema_match # None =>
       LET text == schema_editor_text
           segment == Segments(text)[schema_match.line]
           entry == schema_field_name_match_at_line(text, schema_match.line - 1)
       IN /\ schema_match.start = StartOf(segment.first)
          /\ schema_match.end <= StartOf(segment.last + 1)
          /\ \A i \in 1 .. Len(text) :
                schema_match.end <= StartOf(i) /\ i <= segment.last => text[i] \in {LF, CR}
          /\ entry # None
          /\ \A l \in 0 .. (schema_match.line - 2) :
                LET earlier == schema_field_name_match_at_line(text, l)
                IN earlier # None => earlier.name # entry.name

(* A click leads to the line it is on: the cursor, counted in characters,  *)
(* is between the beginning of the line that is looked up by its number    *)
(* and the beginning of the next one; behind the last line end there is    *)
(* none.                                                                   *)
CursorIsOnLine ==
    \A c \in 0 .. CharLen(schema_editor_text) :
       LET text == schema_editor_text
           l == line_index_for_char_index(text, c)
           before(i) == CharLen(SubSeq(text, 1, i))
       IN IF l + 1 <= Len(Segments(text))
          THEN LET segment == Segments(text)[l + 1]
               IN /\ before(segment.first - 1) <= c
                  /\ c <= before(segment.last)
                  /\ text[segment.last] = LF => c < before(segment.last)
          ELSE text = << >> \/ (c = CharLen(text) /\ text[Len(text)] = LF)

(* A click in the editor finds the name it is on, as a range of whole      *)
(* bytes of that line, however wide the characters before it are and       *)
(* however lines end.                                                      *)
ClicksFindNames == CursorIsOnLine /\ HighlightIsName
=============================================================================
