------------------------------- MODULE Document -------------------------------
(***************************************************************************)
(* A document of the GUI: the schema editor, the table of rows, the hex    *)
(* view and the search of one open file (struct Document and the handlers  *)
(* of the panes).                                                          *)
(*                                                                         *)
(* A step is one gesture of the user with the whole handler it runs, or a  *)
(* frame that honours the pending requests to scroll.  The schema file may *)
(* hold anything whenever it is read, and a text may parse differently     *)
(* from one attempt to the next, because its includes are on disk.         *)
(***************************************************************************)
EXTENDS Integers, Sequences, FiniteSets

CONSTANTS
    Idents,            \* the identifiers that occur in names
    Paths,             \* where schema files are
    Texts,             \* what the editor may hold
    Tables,            \* what a schema may turn the file into
    Size,              \* doc.size
    Page,              \* HEX_PAGE_SIZE
    SearchModes,       \* Ascii and Hex
    Queries,           \* the texts of the search box
    Answers,           \* Answers[mode][query]: what a search returns
    Filters,           \* the texts of the filter box, None the blank one
    None

Option(S) == S \cup {None}

(* As in SchemaModel, a name is the identifiers and indices it spells; a   *)
(* dot stands before every identifier but the first.                       *)
Name == Seq(Idents \cup Nat)

Category == {"SchemaParse", "SchemaValidation", "IncludeResolution"}

(* A row of the table, as far as the panes tell rows apart.                *)
Row == [display_name : Name, schema_name : Name, offset : Nat, byte_len : Nat,
        offset_valid : BOOLEAN, failed : BOOLEAN]

(* The text of a schema: the name that each of its lines declares, if any, *)
(* and the tables and errors that parsing and interpreting it may give.    *)
Text == [lines : Seq(Option(Name)),
         tables : SUBSET Tables, errors : SUBSET Category]

EmptyText == [lines |-> << >>, tables |-> {}, errors |-> {"SchemaParse"}]

Answer == [kind : {"invalid", "unreadable"}]
     \cup [kind : {"found"}, len : Nat \ {0}, hits : Seq(Nat)]

(* The first query is the empty one; a blank query may also be spaces.     *)
Empty == << >>
Spaces == << "space" >>
IsBlankQuery(query) == query \in {Empty, Spaces}

ASSUME DocumentAssumption ==
    /\ Size \in Nat /\ Page \in Nat \ {0}
    /\ Tables \subseteq Seq(Row)
    /\ \A table \in Tables : \A r \in 1 .. Len(table) :
          ~table[r].offset_valid =>
             table[r].failed /\ table[r].offset = 0 /\ table[r].byte_len = 0
    /\ Texts \subseteq Text
    /\ Empty \in Queries /\ "Ascii" \in SearchModes
    /\ Answers \in [SearchModes -> [Queries -> Answer]]
    /\ \A m \in SearchModes, q \in Queries :
          Answers[m][q].kind = "found" =>
             LET hits == Answers[m][q].hits
             IN /\ \A i \in 1 .. Len(hits) : hits[i] + Answers[m][q].len <= Size
                /\ \A i, j \in 1 .. Len(hits) : i < j => hits[i] < hits[j]
    /\ None \in Filters

ASSUME NoneAssumption ==
    /\ None \notin Category \cup {"schema", "offset", "search", "invalid", "unreadable"}
    /\ None \notin Paths \cup Row \cup Name \cup Nat \cup (Nat \X Nat)
    /\ None \notin [path : Paths, text : Texts, table : Tables]
    /\ EmptyText \notin Texts

VARIABLES
    schema_path, schema,                     \* None, or the schema committed
    schema_editor_text, schema_editor_dirty, schema_editor_error,
    schema_diagnostics, active_schema_diagnostic,
    last_error, last_error_is_offset,        \* the message above the hex view
    schema_match, schema_match_scroll_pending,  \* line that names the selection
    schema_cursor_name_highlight,            \* line whose name is highlighted
    selected_field_name, selected_field_range, selected_field_scroll_pending,
    field_filter_query, field_filter_errors_only, collapsed_field_groups,
    hex_start_offset,
    search_query, search_mode, active_search_query, active_search_pattern_len,
    search_matches, current_search_match, search_error

editor == <<schema_path, schema, schema_editor_text, schema_editor_dirty,
            schema_editor_error, schema_diagnostics, active_schema_diagnostic>>
complaint == <<last_error, last_error_is_offset>>
match == <<schema_match, schema_match_scroll_pending>>
selection == <<selected_field_name, selected_field_range,
               selected_field_scroll_pending>>
marks == <<match, schema_cursor_name_highlight, selection>>
filter == <<field_filter_query, field_filter_errors_only, collapsed_field_groups>>
results == <<active_search_query, active_search_pattern_len, search_matches,
             current_search_match>>
search == <<search_query, search_mode, results, search_error>>

vars == <<editor, complaint, marks, filter, hex_start_offset, search>>

Least(m, n) == IF m <= n THEN m ELSE n
Monus(m, n) == IF n <= m THEN m - n ELSE 0

First(S) == CHOOSE i \in S : \A j \in S : i <= j

-----------------------------------------------------------------------------
(* Names *)

strip_repeat_indexes(name) == SelectSeq(name, LAMBDA x : x \in Idents)

normalized_leaf_name(name) ==
    LET s == strip_repeat_indexes(name)
    IN IF s = << >> THEN s ELSE << s[Len(s)] >>

(* The part before the last dot, if there is one.                          *)
split_field_group(name) ==
    LET dots == {i \in 2 .. Len(name) : name[i] \in Idents}
    IN IF dots = {} THEN None
       ELSE SubSeq(name, 1, (CHOOSE i \in dots : \A j \in dots : j <= i) - 1)

schema_match_candidates(display_name, schema_name) ==
    << strip_repeat_indexes(display_name), strip_repeat_indexes(schema_name),
       normalized_leaf_name(display_name) >>

(* The first line that declares the first candidate that any line declares. *)
find_best_schema_name_match(text, display_name, schema_name) ==
    LET candidates == schema_match_candidates(display_name, schema_name)
        lines(c) == {l \in 1 .. Len(text.lines) :
                        candidates[c] # << >> /\ text.lines[l] = candidates[c]}
        declared == {c \in 1 .. 3 : lines(c) # {}}
    IN IF declared = {} THEN None ELSE First(lines(First(declared)))

Rows == IF schema = None THEN << >> ELSE schema.table

(* The row a name of the schema text stands for: by its field, by its full *)
(* name, by its leaf.                                                      *)
find_best_field_for_schema_name(name) ==
    LET indices(Matches(_)) == {r \in 1 .. Len(Rows) : Matches(Rows[r])}
        byField == indices(LAMBDA r : normalized_leaf_name(r.schema_name) = name)
        byName == indices(LAMBDA r : strip_repeat_indexes(r.display_name) = name)
        byLeaf == indices(LAMBDA r : normalized_leaf_name(r.display_name) = name)
    IN IF byField # {} THEN Rows[First(byField)]
       ELSE IF byName # {} THEN Rows[First(byName)]
       ELSE IF byLeaf # {} THEN Rows[First(byLeaf)]
       ELSE None

field_name_matches_filter(name, query) ==
    query = None \/ \E i \in 1 .. Len(name) : name[i] = query

(* A row the table shows, given the filter and the collapsed groups.       *)
Shown(row, query, errorsOnly, collapsed) ==
    /\ field_name_matches_filter(row.display_name, query)
    /\ errorsOnly => row.failed
    /\ split_field_group(row.display_name) \notin collapsed

Visible(row) == Shown(row, field_filter_query, field_filter_errors_only,
                      collapsed_field_groups)

-----------------------------------------------------------------------------
(* What the handlers are made of *)

MaxStart == Monus(Size, Page)

InView(offset, first) == first <= offset /\ offset < first + Page

Reveal(offset) ==
    IF InView(offset, hex_start_offset) THEN hex_start_offset
                                        ELSE Least(offset, MaxStart)

clear_schema_match ==
    /\ schema_match' = None
    /\ schema_match_scroll_pending' = FALSE

clear_schema_cursor_name_highlight == schema_cursor_name_highlight' = None

clear_selected_field ==
    /\ selected_field_range' = None
    /\ selected_field_name' = None
    /\ selected_field_scroll_pending' = FALSE
    /\ clear_schema_match
    /\ clear_schema_cursor_name_highlight

(* Bug: the match is left to point at a line of the replaced text.         *)
KeepMatch(category) ==
    /\ schema_diagnostics' = << category >>
    /\ active_schema_diagnostic' = 0
    /\ UNCHANGED match
    /\ clear_schema_cursor_name_highlight

set_schema_diagnostic(category) ==
    /\ schema_diagnostics' = << category >>
    /\ active_schema_diagnostic' = 0
    /\ clear_schema_match
    /\ clear_schema_cursor_name_highlight

(* Bug: whether the message is about an offset is not updated.             *)
ComplainOnly(kind) ==
    /\ last_error' = kind
    /\ last_error_is_offset' = (last_error_is_offset \/ kind = "offset")

Complain(kind) ==
    /\ last_error' = kind
    /\ last_error_is_offset' = (kind = "offset")

(* Bug: the error under the editor is not cleared.                         *)
KeepEditorError(table) ==
    /\ schema' = [path |-> schema_path', text |-> schema_editor_text', table |-> table]
    /\ schema_editor_dirty' = FALSE
    /\ UNCHANGED schema_editor_error
    /\ schema_diagnostics' = << >>
    /\ active_schema_diagnostic' = None
    /\ Complain(None)
    /\ clear_selected_field

(* Bug: the selection of the previous table survives.                      *)
KeepSelection(table) ==
    /\ schema' = [path |-> schema_path', text |-> schema_editor_text', table |-> table]
    /\ schema_editor_dirty' = FALSE
    /\ schema_editor_error' = None
    /\ schema_diagnostics' = << >>
    /\ active_schema_diagnostic' = None
    /\ Complain(None)
    /\ UNCHANGED marks

(* The path and the text are kept with the schema they produced.           *)
commit_schema(table) ==
    /\ schema' = [path |-> schema_path', text |-> schema_editor_text', table |-> table]
    /\ schema_editor_dirty' = FALSE
    /\ schema_editor_error' = None
    /\ schema_diagnostics' = << >>
    /\ active_schema_diagnostic' = None
    /\ Complain(None)
    /\ clear_selected_field

UncoverRow(name) ==
    /\ collapsed_field_groups' = collapsed_field_groups \ {split_field_group(name)}
    /\ field_filter_query' = IF field_name_matches_filter(name, field_filter_query)
                             THEN field_filter_query ELSE None
    /\ field_filter_errors_only' = FALSE

RevealBytes(offset, len) ==
    hex_start_offset' = IF len = 0 THEN hex_start_offset ELSE Reveal(offset)

select_field_with_schema_name(display_name, schema_name, offset, len) ==
    /\ selected_field_name' = display_name
    /\ selected_field_range' = << offset, len >>
    /\ clear_schema_cursor_name_highlight
    /\ schema_match' =
          find_best_schema_name_match(schema_editor_text, display_name, schema_name)
    /\ schema_match_scroll_pending' = (schema_match' # None)
    /\ RevealBytes(offset, len)

-----------------------------------------------------------------------------
(* Schema menu and schema pane *)

SomeFailure(text) == \E category \in text.errors : set_schema_diagnostic(category)

LoadSchema ==
    \E path \in Paths :
       \/ /\ set_schema_diagnostic("IncludeResolution")
          /\ Complain("schema")
          /\ UNCHANGED <<schema_path, schema, schema_editor_text, schema_editor_dirty,
                         schema_editor_error, selection, filter, hex_start_offset, search>>
       \/ \E text \in Texts :
             /\ SomeFailure(text)
             /\ Complain("schema")
             /\ UNCHANGED <<schema_path, schema, schema_editor_text, schema_editor_dirty,
                            schema_editor_error, selection, filter, hex_start_offset,
                            search>>
       \/ \E text \in Texts : \E table \in text.tables :
             /\ schema_path' = path
             /\ schema_editor_text' = text
             /\ commit_schema(table)
             /\ UNCHANGED <<filter, hex_start_offset, search>>

(* Bug: a failed reload counts as a clean editor, without its error.       *)
ReloadQuietly ==
    /\ schema_path # None
    /\ \E text \in Texts \cup {EmptyText} :
          /\ SomeFailure(text)
          /\ schema_editor_text' = text
          /\ schema_editor_dirty' = FALSE
          /\ Complain("schema")
          /\ UNCHANGED <<schema_path, schema, schema_editor_error, selection, filter,
                         hex_start_offset, search>>

reload_schema_from_disk ==
    /\ schema_path # None
    /\ UNCHANGED <<schema_path, filter, hex_start_offset, search>>
    /\ \/ /\ set_schema_diagnostic("IncludeResolution")
          /\ schema_editor_error' = "IncludeResolution"
          /\ Complain("schema")
          /\ UNCHANGED <<schema, schema_editor_text, schema_editor_dirty, selection>>
       \/ \E text \in Texts \cup {EmptyText} :
             /\ SomeFailure(text)
             /\ schema_editor_text' = text
             /\ schema_editor_dirty' = FALSE
             /\ schema_editor_error' = schema_diagnostics'[1]
             /\ Complain("schema")
             /\ UNCHANGED <<schema, selection>>
       \/ \E text \in Texts : \E table \in text.tables :
             /\ schema_editor_text' = text
             /\ commit_schema(table)

apply_schema_editor ==
    /\ schema_path # None
    /\ schema_editor_text # EmptyText
    /\ UNCHANGED <<schema_path, schema_editor_text, filter, hex_start_offset, search>>
    /\ \/ /\ SomeFailure(schema_editor_text)
          /\ schema_editor_error' = schema_diagnostics'[1]
          /\ schema_editor_dirty' = TRUE
          /\ UNCHANGED <<schema, complaint, selection>>
       \/ \E table \in schema_editor_text.tables : commit_schema(table)

PaneShown == schema_path # None \/ schema_editor_text # EmptyText

EditText ==
    /\ PaneShown
    /\ \E text \in (Texts \cup {EmptyText}) \ {schema_editor_text} :
          schema_editor_text' = text
    /\ schema_editor_dirty' = TRUE
    /\ clear_schema_match
    /\ clear_schema_cursor_name_highlight
    /\ selected_field_scroll_pending' = FALSE
    /\ UNCHANGED <<schema_path, schema, schema_editor_error, schema_diagnostics,
                   active_schema_diagnostic, complaint, selected_field_name,
                   selected_field_range, filter, hex_start_offset, search>>

select_field_from_schema(row) ==
    /\ clear_schema_match
    /\ UncoverRow(row.display_name)
    /\ selected_field_name' = row.display_name
    /\ selected_field_range' = IF row.offset_valid THEN << row.offset, row.byte_len >>
                                                   ELSE None
    /\ selected_field_scroll_pending' = TRUE
    /\ IF row.offset_valid THEN RevealBytes(row.offset, row.byte_len)
                           ELSE UNCHANGED hex_start_offset

(* A click into the text, or a cursor that was moved to another line.      *)
activate_schema_editor_cursor_line ==
    /\ PaneShown
    /\ \E line \in 1 .. Len(schema_editor_text.lines) :
          LET name == schema_editor_text.lines[line]
              row == IF name = None THEN None
                     ELSE find_best_field_for_schema_name(name)
          IN \/ /\ row = None
                /\ clear_schema_cursor_name_highlight
                /\ selected_field_scroll_pending' = FALSE
                /\ UNCHANGED <<match, selected_field_name, selected_field_range,
                               filter, hex_start_offset>>
             \/ /\ row # None
                /\ schema_cursor_name_highlight' = line
                /\ select_field_from_schema(row)
    /\ UNCHANGED <<editor, complaint, search>>

-----------------------------------------------------------------------------
(* Diagnostics panel and field table *)

activate_schema_diagnostic ==
    \E d \in 1 .. Len(schema_diagnostics) :
       /\ active_schema_diagnostic' =
             First({e \in 1 .. Len(schema_diagnostics) :
                       schema_diagnostics[e] = schema_diagnostics[d]}) - 1
       /\ UNCHANGED <<schema_path, schema, schema_editor_text, schema_editor_dirty,
                      schema_editor_error, schema_diagnostics, complaint, marks,
                      filter, hex_start_offset, search>>

(* Bug: the group of the row stays collapsed.                              *)
ActivateUnderCover ==
    \E r \in 1 .. Len(Rows) :
       LET row == Rows[r]
       IN /\ row.failed
          /\ row.offset_valid
          /\ select_field_with_schema_name(row.display_name, row.display_name,
                                           row.offset, row.byte_len)
          /\ selected_field_scroll_pending' = TRUE
          /\ UNCHANGED <<editor, complaint, filter, search>>

(* The diagnostic of a row knows the display name, not the schema's.       *)
activate_runtime_diagnostic ==
    \E r \in 1 .. Len(Rows) :
       LET row == Rows[r]
       IN /\ row.failed
          /\ UncoverRow(row.display_name)
          /\ \/ /\ row.offset_valid
                /\ select_field_with_schema_name(row.display_name, row.display_name,
                                                 row.offset, row.byte_len)
             \/ /\ ~row.offset_valid
                /\ selected_field_name' = row.display_name
                /\ selected_field_range' = None
                /\ clear_schema_match
                /\ clear_schema_cursor_name_highlight
                /\ UNCHANGED hex_start_offset
          /\ selected_field_scroll_pending' = TRUE
          /\ UNCHANGED <<editor, complaint, search>>

ClickRow ==
    \E r \in 1 .. Len(Rows) :
       LET row == Rows[r]
       IN /\ Visible(row)
          /\ row.offset_valid
          /\ select_field_with_schema_name(row.display_name, row.schema_name,
                                           row.offset, row.byte_len)
          /\ UNCHANGED <<editor, complaint, selected_field_scroll_pending, filter, search>>

ClickGroup ==
    \E r \in 1 .. Len(Rows) :
       LET group == split_field_group(Rows[r].display_name)
       IN /\ group # None
          /\ Shown(Rows[r], field_filter_query, field_filter_errors_only, {})
          /\ collapsed_field_groups' =
                IF group \in collapsed_field_groups
                THEN collapsed_field_groups \ {group}
                ELSE collapsed_field_groups \cup {group}
          /\ UNCHANGED <<editor, complaint, marks, field_filter_query,
                         field_filter_errors_only, hex_start_offset, search>>

EditFilter ==
    /\ schema # None
    /\ field_filter_query' \in Filters
    /\ field_filter_errors_only' \in BOOLEAN
    /\ UNCHANGED <<editor, complaint, marks, collapsed_field_groups,
                   hex_start_offset, search>>

ClickOutside ==
    /\ clear_selected_field
    /\ UNCHANGED <<editor, complaint, filter, hex_start_offset, search>>

MatchScrolls == PaneShown /\ schema_match # None

RowScrolls ==
    \E r \in 1 .. Len(Rows) :
       Visible(Rows[r]) /\ Rows[r].display_name = selected_field_name

(* Bug: the editor waits until the table has scrolled.                     *)
DrawInTurn ==
    /\ schema_match_scroll_pending' =
          (schema_match_scroll_pending /\ ~(MatchScrolls /\ ~selected_field_scroll_pending))
    /\ selected_field_scroll_pending' = (selected_field_scroll_pending /\ ~RowScrolls)
    /\ UNCHANGED <<editor, complaint, schema_match, schema_cursor_name_highlight,
                   selected_field_name, selected_field_range, filter,
                   hex_start_offset, search>>

(* A frame scrolls to what was asked for, if it is there to be scrolled to. *)
DrawFrame ==
    /\ schema_match_scroll_pending' = (schema_match_scroll_pending /\ ~MatchScrolls)
    /\ selected_field_scroll_pending' = (selected_field_scroll_pending /\ ~RowScrolls)
    /\ UNCHANGED <<editor, complaint, schema_match, schema_cursor_name_highlight,
                   selected_field_name, selected_field_range, filter,
                   hex_start_offset, search>>

-----------------------------------------------------------------------------
(* Hex pane *)

DismissError ==
    /\ last_error # None
    /\ Complain(None)
    /\ UNCHANGED <<editor, marks, filter, hex_start_offset, search>>

ForgetOffsetError ==
    IF last_error_is_offset THEN Complain(None) ELSE UNCHANGED complaint

MoveTo(first) ==
    /\ hex_start_offset' = first
    /\ ForgetOffsetError
    /\ UNCHANGED <<editor, marks, filter, search>>

GoToOffset == \E offset \in 0 .. (Size + Page) : MoveTo(Least(offset, MaxStart))

GoNowhere ==
    /\ Complain("offset")
    /\ UNCHANGED <<editor, marks, filter, hex_start_offset, search>>

PreviousPage == hex_start_offset > 0 /\ MoveTo(Monus(hex_start_offset, Page))

NextPage ==
    hex_start_offset < MaxStart /\ MoveTo(Least(hex_start_offset + Page, MaxStart))

EditQuery ==
    /\ search_query' \in Queries
    /\ search_mode' \in SearchModes
    /\ UNCHANGED <<editor, complaint, marks, filter, hex_start_offset, results,
                   search_error>>

clear_active_search ==
    /\ active_search_query' = Empty
    /\ active_search_pattern_len' = 0
    /\ search_matches' = << >>
    /\ current_search_match' = None

(* Bug: the match is selected, the page stays.                             *)
SelectWithoutScroll(matches, index) ==
    /\ current_search_match' = index
    /\ UNCHANGED hex_start_offset

select_search_match(matches, index) ==
    /\ current_search_match' = index
    /\ hex_start_offset' = Reveal(matches[index + 1])

(* Bug: the results of the previous query stay under the new one.          *)
FindBeforeResults ==
    /\ active_search_query' = search_query
    /\ UNCHANGED <<editor, complaint, marks, filter, hex_start_offset, search_query,
                   search_mode, active_search_pattern_len, search_matches,
                   current_search_match, search_error>>

find_search_matches ==
    LET answer == Answers[search_mode][search_query]
    IN /\ \/ /\ IsBlankQuery(search_query)
             /\ ForgetOffsetError
             /\ UNCHANGED <<results, search_error, hex_start_offset>>
          \/ /\ ~IsBlankQuery(search_query) /\ answer.kind = "invalid"
             /\ clear_active_search
             /\ search_error' = "invalid"
             /\ ForgetOffsetError
             /\ UNCHANGED hex_start_offset
          \/ /\ ~IsBlankQuery(search_query) /\ answer.kind = "unreadable"
             /\ search_error' = "unreadable"
             /\ Complain("search")
             /\ UNCHANGED <<results, hex_start_offset>>
          \/ /\ ~IsBlankQuery(search_query) /\ answer.kind = "found"
             /\ active_search_query' = search_query
             /\ active_search_pattern_len' = answer.len
             /\ search_matches' = answer.hits
             /\ search_error' = None
             /\ IF answer.hits = << >>
                THEN current_search_match' = None /\ UNCHANGED hex_start_offset
                ELSE select_search_match(answer.hits, 0)
             /\ ForgetOffsetError
       /\ UNCHANGED <<editor, marks, filter, search_query, search_mode>>

StepTo(index) ==
    /\ search_matches # << >>
    /\ select_search_match(search_matches, index)
    /\ UNCHANGED <<editor, complaint, marks, filter, search_query, search_mode,
                   active_search_query, active_search_pattern_len, search_matches,
                   search_error>>

next_search_match ==
    StepTo(IF current_search_match = None THEN 0
           ELSE (current_search_match + 1) % Len(search_matches))

previous_search_match ==
    StepTo(IF current_search_match = None THEN 0
           ELSE IF current_search_match = 0 THEN Len(search_matches) - 1
           ELSE current_search_match - 1)

clear_search ==
    /\ \/ search_query # Empty \/ active_search_query # Empty
       \/ search_matches # << >> \/ search_error # None
    /\ search_query' = Empty
    /\ clear_active_search
    /\ search_error' = None
    /\ UNCHANGED <<editor, complaint, marks, filter, hex_start_offset, search_mode>>

-----------------------------------------------------------------------------
Init ==
    /\ schema_path = None
    /\ schema = None
    /\ schema_editor_text = EmptyText
    /\ schema_editor_dirty = FALSE
    /\ schema_editor_error = None
    /\ schema_diagnostics = << >>
    /\ active_schema_diagnostic = None
    /\ last_error = None
    /\ last_error_is_offset = FALSE
    /\ schema_match = None
    /\ schema_match_scroll_pending = FALSE
    /\ schema_cursor_name_highlight = None
    /\ selected_field_name = None
    /\ selected_field_range = None
    /\ selected_field_scroll_pending = FALSE
    /\ field_filter_query = None
    /\ field_filter_errors_only = FALSE
    /\ collapsed_field_groups = {}
    /\ hex_start_offset = 0
    /\ search_query = Empty
    /\ search_mode = "Ascii"
    /\ active_search_query = Empty
    /\ active_search_pattern_len = 0
    /\ search_matches = << >>
    /\ current_search_match = None
    /\ search_error = None

Next ==
    \/ LoadSchema \/ reload_schema_from_disk \/ apply_schema_editor
    \/ EditText \/ activate_schema_editor_cursor_line
    \/ activate_schema_diagnostic \/ activate_runtime_diagnostic
    \/ ClickRow \/ ClickGroup \/ EditFilter \/ ClickOutside \/ DrawFrame
    \/ DismissError \/ GoToOffset \/ GoNowhere \/ PreviousPage \/ NextPage
    \/ EditQuery \/ find_search_matches
    \/ next_search_match \/ previous_search_match \/ clear_search

(* The event loop draws a frame after every input; nothing is assumed of   *)
(* the user.                                                               *)
Spec == Init /\ [][Next]_vars /\ WF_vars(DrawFrame)

-----------------------------------------------------------------------------
(* Properties *)

(* Type correctness; the page never reaches past the end of a file that    *)
(* fills one, whichever way the user moves.                                *)
TypeOK ==
    /\ schema_path \in Option(Paths)
    /\ schema # None => /\ schema.path \in Paths
                        /\ schema.text \in Texts
                        /\ schema.table \in Tables
    /\ schema_editor_text \in Texts \cup {EmptyText}
    /\ schema_editor_dirty \in BOOLEAN
    /\ schema_editor_error \in Option(Category)
    /\ schema_diagnostics \in {<< >>} \cup {<< c >> : c \in Category}
    /\ active_schema_diagnostic \in Option({0})
    /\ last_error \in Option({"schema", "offset", "search"})
    /\ last_error_is_offset \in BOOLEAN
    /\ schema_match \in Option(1 .. Len(schema_editor_text.lines))
    /\ schema_match_scroll_pending \in BOOLEAN
    /\ schema_cursor_name_highlight \in Option(1 .. Len(schema_editor_text.lines))
    /\ selected_field_name \in Option(Name)
    /\ selected_field_range \in Option(Nat \X Nat)
    /\ selected_field_scroll_pending \in BOOLEAN
    /\ field_filter_query \in Filters
    /\ field_filter_errors_only \in BOOLEAN
    /\ \A g \in collapsed_field_groups : g \in Name
    /\ hex_start_offset \in 0 .. MaxStart
    /\ search_query \in Queries /\ active_search_query \in Queries
    /\ search_mode \in SearchModes
    /\ active_search_pattern_len \in Nat
    /\ search_matches \in Seq(0 .. Size)
    /\ current_search_match \in Option(Nat)
    /\ search_error \in Option({"invalid", "unreadable"})

(* The table belongs to the path the panes name, and an editor that claims *)
(* neither a modification nor an error holds the very text the table was   *)
(* made from, through failed loads, reloads and applies in any order.      *)
EditorAgrees ==
    /\ schema = None <=> schema_path = None
    /\ schema # None =>
          /\ schema.path = schema_path
          /\ ~schema_editor_dirty /\ schema_editor_error = None =>
                schema.text = schema_editor_text

(* Every message that a schema could not be taken over, above the hex view *)
(* or under the editor, has its entry in the diagnostics panel, which says *)
(* where the fault is; the entry that is open is one of the panel's.       *)
ErrorsHaveDiagnostics ==
    /\ schema_editor_error # None \/ last_error = "schema" =>
          schema_diagnostics # << >>
    /\ active_schema_diagnostic # None =>
          active_schema_diagnostic < Len(schema_diagnostics)

Named(name) == {r \in 1 .. Len(Rows) : Rows[r].display_name = name}

(* The selection is a row of the table that is shown, never one of a table *)
(* replaced since; the bytes marked in the hex view are those of that row. *)
SelectionIsRow ==
    /\ selected_field_name # None =>
          \E r \in Named(selected_field_name) :
             selected_field_range = IF Rows[r].offset_valid
                                    THEN << Rows[r].offset, Rows[r].byte_len >>
                                    ELSE None
    /\ selected_field_range # None \/ selected_field_scroll_pending =>
          selected_field_name # None

(* What is marked in the editor is about the text that is there now and    *)
(* the row that is selected now: the matched line declares a name of that  *)
(* row, and a highlighted name is one that leads to it.                    *)
MarksAreCurrent ==
    /\ schema_match # None =>
          /\ selected_field_name # None
          /\ \E name \in {selected_field_name}
                         \cup {Rows[r].schema_name : r \in Named(selected_field_name)} :
                schema_match = find_best_schema_name_match(
                                  schema_editor_text, selected_field_name, name)
    /\ schema_cursor_name_highlight # None =>
          LET name == schema_editor_text.lines[schema_cursor_name_highlight]
          IN /\ name # None
             /\ find_best_field_for_schema_name(name).display_name
                   = selected_field_name
    /\ schema_match_scroll_pending => schema_match # None

(* A selection that asks to be scrolled to is shown at once, whatever was  *)
(* filtered or collapsed, and the first byte of a newly selected row is on *)
(* the page if the file has it.                                            *)
SelectionIsRevealed ==
    [][ /\ selected_field_scroll_pending'
           /\ <<selected_field_scroll_pending, selected_field_name>>'
              # <<selected_field_scroll_pending, selected_field_name>>
           => \E r \in Named(selected_field_name') : Visible(Rows[r])'
        /\ selected_field_range' \notin {None, selected_field_range}
           /\ selected_field_range'[2] > 0 /\ selected_field_range'[1] < Size
           => InView(selected_field_range'[1], hex_start_offset') ]_vars

(* The status line, the highlights and the steps through the matches are   *)
(* about one search: the active query's, as it was when it last succeeded, *)
(* whatever was typed, failed or switched since.                           *)
SearchIsCoherent ==
    IF active_search_query = Empty
    THEN search_matches = << >> /\ current_search_match = None
    ELSE /\ \E m \in SearchModes :
               LET answer == Answers[m][active_search_query]
               IN /\ answer.kind = "found"
                  /\ active_search_pattern_len = answer.len
                  /\ search_matches = answer.hits
         /\ IF search_matches = << >> THEN current_search_match = None
            ELSE current_search_match \in 0 .. (Len(search_matches) - 1)

(* The error of a pattern that is none never stands beside the results of  *)
(* another query, though a blank query leaves both as they are and a read  *)
(* that fails leaves the results.                                          *)
InvalidHasNoResults ==
    search_error = "invalid" =>
       active_search_query = Empty /\ search_matches = << >>

(* Navigation takes back a complaint about an offset and no other: what    *)
(* the program believes the message is about is what it is about.          *)
OffsetErrorKnown == last_error_is_offset <=> last_error = "offset"

(* Whenever a match becomes the current one, its first byte is on the page *)
(* that is shown.                                                          *)
CurrentMatchIsShown ==
    [][ /\ current_search_match' # None
        /\ <<current_search_match, search_matches>>' # <<current_search_match, search_matches>>
        => InView(search_matches'[current_search_match' + 1], hex_start_offset') ]_vars

(* What waits to be scrolled to is scrolled to, in both panes, though both *)
(* may wait at once: the marked line of the editor whatever the user does, *)
(* and a row, with a place in the file or without one, unless it is hidden *)
(* again and again.                                                        *)
ScrollsAreHonoured ==
    /\ schema_match_scroll_pending ~> ~schema_match_scroll_pending
    /\ []<>(~selected_field_scroll_pending
            \/ \A r \in Named(selected_field_name) : ~Visible(Rows[r]))
=============================================================================
