---------------------------- MODULE DocumentProofs ----------------------------
(***************************************************************************)
(* Theorems about Document, for all schema files, tables, queries, filters *)
(* and sizes of the file and of the page.                                  *)
(*                                                                         *)
(* The properties fall into groups that touch different variables: each    *)
(* group is first reduced to the gestures that can disturb it.             *)
(***************************************************************************)
EXTENDS DocumentView, SequenceTheorems, FiniteSetTheorems, WellFoundedInduction, TLAPS

-----------------------------------------------------------------------------
(* The editor, the diagnostics panel and the line above the hex view *)

(* The gestures that may take over a schema or report that they did not.   *)
SchemaGesture == LoadSchema \/ reload_schema_from_disk \/ apply_schema_editor

(* Every other gesture leaves schema, path and panel alone; it may mark    *)
(* the text as modified, or report something else than a schema.           *)
LEMMA OtherGestures ==
    ASSUME [Next]_vars, ~SchemaGesture
    PROVE  /\ UNCHANGED <<schema_path, schema, schema_editor_error, schema_diagnostics>>
           /\ \/ UNCHANGED <<schema_editor_text, schema_editor_dirty>>
              \/ /\ schema_editor_text' \in Texts \cup {EmptyText}
                 /\ schema_editor_dirty' = TRUE
           /\ active_schema_diagnostic' = active_schema_diagnostic
              \/ activate_schema_diagnostic
           /\ last_error' # last_error => last_error' \in {None, "offset", "search"}
<1> USE DEF editor, complaint, marks, match, selection, filter, results, search
<1>1. CASE EditText
  BY <1>1 DEF EditText
<1>2. CASE activate_schema_diagnostic
  BY <1>2 DEF activate_schema_diagnostic
<1>3. CASE activate_schema_editor_cursor_line \/ activate_runtime_diagnostic
           \/ ClickRow \/ ClickGroup \/ EditFilter \/ ClickOutside \/ DrawFrame
  BY <1>3 DEF activate_schema_editor_cursor_line, activate_runtime_diagnostic,
              ClickRow, ClickGroup, EditFilter, ClickOutside, DrawFrame
<1>4. CASE DismissError \/ GoToOffset \/ GoNowhere \/ PreviousPage \/ NextPage
  BY <1>4 DEF DismissError, GoToOffset, GoNowhere, PreviousPage, NextPage, MoveTo,
              ForgetOffsetError, Complain
<1>5. CASE EditQuery \/ next_search_match \/ previous_search_match \/ clear_search
  BY <1>5 DEF EditQuery, next_search_match, previous_search_match, StepTo, clear_search
<1>6. CASE find_search_matches
  BY <1>6 DEF find_search_matches, ForgetOffsetError, Complain
<1>7. CASE UNCHANGED vars
  BY <1>7 DEF vars
<1> QED
  BY <1>1, <1>2, <1>3, <1>4, <1>5, <1>6, <1>7 DEF Next, SchemaGesture

(* A failure is reported by one entry, which is open; the text may be      *)
(* replaced, and is then marked as one with an error.                      *)
Reported ==
    /\ UNCHANGED <<schema_path, schema>>
    /\ schema_editor_text' \in Texts \cup {EmptyText}
    /\ schema_diagnostics' \in {<< c >> : c \in Category}
    /\ active_schema_diagnostic' = 0
    /\ \/ UNCHANGED <<schema_editor_text, schema_editor_dirty, schema_editor_error>>
       \/ schema_editor_error' \in Category

(* A success keeps the path and the text with the table and clears the     *)
(* panel.                                                                  *)
Committed ==
    /\ schema_path' \in Paths
    /\ \E table \in Tables :
          schema' = [path |-> schema_path', text |-> schema_editor_text', table |-> table]
    /\ schema_editor_text' \in Texts
    /\ schema_editor_error' = None /\ last_error' = None
    /\ schema_diagnostics' = << >> /\ active_schema_diagnostic' = None

(* The errors of a text are categories of the panel.                       *)
LEMMA Failures ==
    ASSUME NEW text \in Texts \cup {EmptyText}, SomeFailure(text)
    PROVE  /\ schema_diagnostics' \in {<< c >> : c \in Category}
           /\ schema_diagnostics'[1] \in Category
           /\ active_schema_diagnostic' = 0
<1>1. text.errors \subseteq Category
  BY DocumentAssumption DEF Text, EmptyText, Category
<1>2. PICK category \in text.errors : set_schema_diagnostic(category)
  BY DEF SomeFailure
<1> QED
  BY <1>1, <1>2 DEF set_schema_diagnostic

(* The tables of a text are tables.                                        *)
LEMMA TextTables ==
    ASSUME NEW text \in Texts, NEW table \in text.tables
    PROVE  table \in Tables
BY DocumentAssumption DEF Text

(* What a gesture of the schema menu or the schema pane comes to.          *)
LEMMA SchemaGestures ==
    ASSUME SchemaGesture,
           schema_editor_text \in Texts \cup {EmptyText},
           schema_path \in Option(Paths)
    PROVE  Reported \/ Committed
<1>1. CASE LoadSchema
  <2> USE DEF Reported, Committed
  <2>1. CASE set_schema_diagnostic("IncludeResolution")
             /\ UNCHANGED <<schema_path, schema, schema_editor_text,
                            schema_editor_dirty, schema_editor_error>>
    BY <2>1 DEF set_schema_diagnostic, Category
  <2>2. ASSUME NEW text \in Texts, SomeFailure(text),
               UNCHANGED <<schema_path, schema, schema_editor_text,
                           schema_editor_dirty, schema_editor_error>>
        PROVE  Reported
    BY <2>2, Failures
  <2>3. ASSUME NEW path \in Paths, NEW text \in Texts, NEW table \in text.tables,
               schema_path' = path, schema_editor_text' = text, commit_schema(table)
        PROVE  Committed
    BY <2>3, TextTables DEF commit_schema, Complain
  <2> QED
    BY <1>1, <2>1, <2>2, <2>3 DEF LoadSchema
<1>2. CASE reload_schema_from_disk
  <2> USE DEF Reported, Committed
  <2>1. CASE set_schema_diagnostic("IncludeResolution")
             /\ schema_editor_error' = "IncludeResolution"
             /\ UNCHANGED <<schema_path, schema, schema_editor_text>>
    BY <2>1 DEF set_schema_diagnostic, Category
  <2>2. ASSUME NEW text \in Texts \cup {EmptyText}, SomeFailure(text),
               schema_editor_text' = text,
               schema_editor_error' = schema_diagnostics'[1],
               UNCHANGED <<schema_path, schema>>
        PROVE  Reported
    BY <2>2, Failures
  <2>3. ASSUME NEW text \in Texts, NEW table \in text.tables,
               schema_editor_text' = text, commit_schema(table),
               schema_path' = schema_path, schema_path # None
        PROVE  Committed
    BY <2>3, TextTables DEF commit_schema, Complain, Option
  <2> QED
    BY <1>2, <2>1, <2>2, <2>3 DEF reload_schema_from_disk
<1>3. CASE apply_schema_editor
  <2> USE DEF Reported, Committed
  <2>1. ASSUME SomeFailure(schema_editor_text),
               schema_editor_error' = schema_diagnostics'[1],
               UNCHANGED <<schema_path, schema, schema_editor_text>>
        PROVE  Reported
    BY <2>1, Failures
  <2>2. ASSUME NEW table \in schema_editor_text.tables, commit_schema(table),
               schema_editor_text # EmptyText, schema_path # None,
               UNCHANGED <<schema_path, schema_editor_text>>
        PROVE  Committed
    BY <2>2, TextTables DEF commit_schema, Complain, Option
  <2> QED
    BY <1>3, <2>1, <2>2 DEF apply_schema_editor
<1> QED
  BY <1>1, <1>2, <1>3 DEF SchemaGesture

(* A set of natural numbers has a least element.                           *)
LEMMA LeastOfNaturals ==
    ASSUME NEW T, T \subseteq Nat, T # {}
    PROVE  \E i \in T : \A j \in T : i <= j
<1> DEFINE R == {pair \in Nat \X Nat : pair[1] < pair[2]}
<1>1. ~ \E f \in [Nat -> Nat] : \A n \in Nat : <<f[n + 1], f[n]>> \in R
  BY NatLessThanWellFounded, Zenon DEF OpToRel, IsWellFoundedOn
<1>2. IsWellFoundedOn(R, Nat)
  BY <1>1 DEF IsWellFoundedOn
<1>3. PICK i \in T : \A j \in T : ~ (<<j, i>> \in R)
  BY <1>2, WFMin
<1>4. ASSUME NEW j \in T
      PROVE  ~ (j < i)
  <2>1. <<j, i>> \in Nat \X Nat /\ <<j, i>>[1] = j /\ <<j, i>>[2] = i
    OBVIOUS
  <2> QED
    BY <1>3, <2>1, Zenon
<1> QED
  BY <1>4

(* The first of some positions of a sequence is one of them.               *)
LEMMA FirstIsOne ==
    ASSUME NEW n \in Nat, NEW S \in SUBSET (1 .. n), S # {}
    PROVE  First(S) \in S /\ First(S) \in 1 .. n
<1>1. S \subseteq Nat
  OBVIOUS
<1>2. \E i \in S : \A j \in S : i <= j
  BY <1>1, LeastOfNaturals
<1> QED
  BY <1>2 DEF First

EditorTypes ==
    /\ schema_path \in Option(Paths)
    /\ schema # None => schema.path \in Paths /\ schema.text \in Texts
                        /\ schema.table \in Tables
    /\ schema_editor_text \in Texts \cup {EmptyText}
    /\ schema_diagnostics \in {<< >>} \cup {<< c >> : c \in Category}
    /\ active_schema_diagnostic \in Option({0})

(* The panes agree: neither of the two parts is inductive without knowing  *)
(* that a category is an error and that a panel has at most one entry.     *)
EditorInv == EditorTypes /\ EditorAgrees /\ ErrorsHaveDiagnostics

LEMMA EditorStep ==
    ASSUME EditorInv, [Next]_vars
    PROVE  EditorInv'
<1> USE DEF EditorInv, EditorTypes, EditorAgrees, ErrorsHaveDiagnostics, Option
<1>1. CASE SchemaGesture /\ Reported
  <2>1. schema_diagnostics' # << >> /\ 0 < Len(schema_diagnostics')
    <3>1. PICK c \in Category : schema_diagnostics' = << c >>
      BY <1>1 DEF Reported
    <3>2. Len(<< c >>) = 1
      OBVIOUS
    <3>3. << c >> # << >>
      OBVIOUS
    <3> QED
      BY <3>1, <3>2, <3>3
  <2>2. schema_editor_error' \in Category => schema_editor_error' # None
    BY NoneAssumption
  <2>3. EditorTypes'
    BY <1>1 DEF Reported
  <2>4. EditorAgrees'
    BY <1>1, <2>2 DEF Reported
  <2>5. ErrorsHaveDiagnostics'
    BY <1>1, <2>1 DEF Reported
  <2> QED
    BY <2>3, <2>4, <2>5
<1>2. CASE SchemaGesture /\ Committed
  <2>1. PICK table \in Tables :
           schema' = [path |-> schema_path', text |-> schema_editor_text', table |-> table]
    BY <1>2 DEF Committed
  <2>2. schema' # None /\ schema_path' # None
    BY <1>2, <2>1, NoneAssumption DEF Committed
  <2>3. last_error' # "schema"
    BY <1>2, NoneAssumption DEF Committed
  <2> QED
    BY <1>2, <2>1, <2>2, <2>3 DEF Committed
<1>3. CASE ~SchemaGesture
  <2>1. /\ UNCHANGED <<schema_path, schema, schema_editor_error, schema_diagnostics>>
        /\ \/ UNCHANGED <<schema_editor_text, schema_editor_dirty>>
           \/ /\ schema_editor_text' \in Texts \cup {EmptyText}
              /\ schema_editor_dirty' = TRUE
        /\ active_schema_diagnostic' = active_schema_diagnostic
           \/ activate_schema_diagnostic
        /\ last_error' # last_error => last_error' \in {None, "offset", "search"}
    BY <1>3, OtherGestures
  <2>2. ASSUME activate_schema_diagnostic
        PROVE  /\ active_schema_diagnostic' = 0
               /\ 0 < Len(schema_diagnostics)
    <3>1. PICK d \in 1 .. Len(schema_diagnostics) :
             active_schema_diagnostic' =
                First({e \in 1 .. Len(schema_diagnostics) :
                          schema_diagnostics[e] = schema_diagnostics[d]}) - 1
      BY <2>2 DEF activate_schema_diagnostic
    <3>2. Len(schema_diagnostics) = 1
      BY <3>1
    <3>3. First({e \in 1 .. Len(schema_diagnostics) :
                     schema_diagnostics[e] = schema_diagnostics[d]})
             \in 1 .. Len(schema_diagnostics)
      BY <3>1, <3>2, FirstIsOne
    <3> QED
      BY <3>1, <3>2, <3>3
  <2>3. last_error' = "schema" => last_error = "schema"
    BY <2>1, NoneAssumption
  <2>4. active_schema_diagnostic' # None
           => active_schema_diagnostic' < Len(schema_diagnostics)
    BY <2>1, <2>2
  <2>5. active_schema_diagnostic' \in Option({0})
    BY <2>1, <2>2
  <2>6. schema_editor_text' \in Texts \cup {EmptyText}
    BY <2>1
  <2> QED
    BY <2>1, <2>3, <2>4, <2>5, <2>6
<1> QED
  BY <1>1, <1>2, <1>3, SchemaGestures

LEMMA EditorAlways == Spec => []EditorInv
<1>1. Init => EditorInv
  BY NoneAssumption
     DEF Init, EditorInv, EditorTypes, EditorAgrees, ErrorsHaveDiagnostics, Option
<1>2. EditorInv /\ [Next]_vars => EditorInv'
  BY EditorStep
<1> QED
  BY <1>1, <1>2, PTL DEF Spec

(* The table belongs to the path the panes name, and a clean editor holds  *)
(* the text it was made from.                                              *)
THEOREM PanesAgree == Spec => []EditorAgrees
<1>1. EditorInv => EditorAgrees
  BY DEF EditorInv
<1> QED
  BY <1>1, EditorAlways, PTL

(* Every error of a schema that is on the screen is in the panel.          *)
THEOREM ErrorsAreExplained == Spec => []ErrorsHaveDiagnostics
<1>1. EditorInv => ErrorsHaveDiagnostics
  BY DEF EditorInv
<1> QED
  BY <1>1, EditorAlways, PTL

-----------------------------------------------------------------------------
(* The line above the hex view *)

(* What the program believes a message is about is what it is about.       *)
THEOREM OffsetErrorsAreKnown == Spec => []OffsetErrorKnown
<1>1. Init => OffsetErrorKnown
  BY NoneAssumption DEF Init, OffsetErrorKnown
<1>2. OffsetErrorKnown /\ [Next]_vars => OffsetErrorKnown'
  <2> SUFFICES ASSUME OffsetErrorKnown, [Next]_vars
               PROVE  UNCHANGED complaint \/ \E kind : Complain(kind)
    BY Zenon DEF OffsetErrorKnown, Complain, complaint
  <2>1. CASE LoadSchema \/ reload_schema_from_disk \/ apply_schema_editor
    BY <2>1 DEF LoadSchema, reload_schema_from_disk, apply_schema_editor, commit_schema
  <2>2. CASE EditText \/ activate_schema_editor_cursor_line
             \/ activate_schema_diagnostic \/ activate_runtime_diagnostic
             \/ ClickRow \/ ClickGroup \/ EditFilter \/ ClickOutside \/ DrawFrame
    BY <2>2 DEF EditText, activate_schema_editor_cursor_line,
                activate_schema_diagnostic, activate_runtime_diagnostic,
                ClickRow, ClickGroup, EditFilter, ClickOutside, DrawFrame
  <2>3. CASE DismissError \/ GoToOffset \/ GoNowhere \/ PreviousPage \/ NextPage
    BY <2>3 DEF DismissError, GoToOffset, GoNowhere, PreviousPage, NextPage, MoveTo,
                ForgetOffsetError
  <2>4. CASE EditQuery \/ find_search_matches
             \/ next_search_match \/ previous_search_match \/ clear_search
    BY <2>4 DEF EditQuery, find_search_matches, ForgetOffsetError, next_search_match,
                previous_search_match, StepTo, clear_search
  <2>5. CASE UNCHANGED vars
    BY <2>5 DEF vars
  <2> QED
    BY <2>1, <2>2, <2>3, <2>4, <2>5 DEF Next
<1> QED
  BY <1>1, <1>2, PTL DEF Spec
-----------------------------------------------------------------------------
(* The search *)

SearchInv ==
    /\ search_query \in Queries /\ active_search_query \in Queries
    /\ search_mode \in SearchModes
    /\ SearchIsCoherent
    /\ InvalidHasNoResults

SearchGesture ==
    EditQuery \/ find_search_matches \/ next_search_match \/ previous_search_match
    \/ clear_search

LEMMA OutsideSearch ==
    ASSUME [Next]_vars, ~SearchGesture
    PROVE  UNCHANGED search
<1>1. CASE LoadSchema \/ reload_schema_from_disk \/ apply_schema_editor
  BY <1>1 DEF LoadSchema, reload_schema_from_disk, apply_schema_editor
<1>2. CASE EditText \/ activate_schema_editor_cursor_line
           \/ activate_schema_diagnostic \/ activate_runtime_diagnostic
           \/ ClickRow \/ ClickGroup \/ EditFilter \/ ClickOutside \/ DrawFrame
  BY <1>2 DEF EditText, activate_schema_editor_cursor_line,
              activate_schema_diagnostic, activate_runtime_diagnostic,
              ClickRow, ClickGroup, EditFilter, ClickOutside, DrawFrame
<1>3. CASE DismissError \/ GoToOffset \/ GoNowhere \/ PreviousPage \/ NextPage
  BY <1>3 DEF DismissError, GoToOffset, GoNowhere, PreviousPage, NextPage, MoveTo
<1>4. CASE UNCHANGED vars
  BY <1>4 DEF vars
<1> QED
  BY <1>1, <1>2, <1>3, <1>4 DEF Next, SearchGesture

(* What an answer found are positions, and it was not for a blank query.   *)
LEMMA FoundHits ==
    ASSUME NEW m \in SearchModes, NEW q \in Queries, Answers[m][q].kind = "found"
    PROVE  /\ Answers[m][q].hits \in Seq(Nat)
           /\ Answers[m][q].len \in Nat \ {0}
<1>1. Answers[m][q] \in Answer
  BY DocumentAssumption
<1>2. Answers[m][q] \in [kind : {"found"}, len : Nat \ {0}, hits : Seq(Nat)]
  BY <1>1 DEF Answer
<1> QED
  BY <1>2

(* A step through the matches ends at a match.                             *)
LEMMA StepsStay ==
    ASSUME NEW n \in Nat, n # 0, NEW current \in 0 .. (n - 1)
    PROVE  /\ (current + 1) % n \in 0 .. (n - 1)
           /\ current # 0 => current - 1 \in 0 .. (n - 1)
           /\ n - 1 \in 0 .. (n - 1)
           /\ 0 \in 0 .. (n - 1)
OBVIOUS

LEMMA SearchStep ==
    ASSUME SearchInv, [Next]_vars
    PROVE  SearchInv'
<1> USE DEF results
<1>1. CASE EditQuery
  BY <1>1 DEF EditQuery, SearchInv, SearchIsCoherent, InvalidHasNoResults
<1>2. CASE find_search_matches
  <2> DEFINE answer == Answers[search_mode][search_query]
  <2>1. search_query' \in Queries /\ search_mode' \in SearchModes
    BY <1>2 DEF find_search_matches, SearchInv
  <2>2. CASE IsBlankQuery(search_query)
    BY <1>2, <2>1, <2>2 DEF find_search_matches, SearchInv, SearchIsCoherent,
                            InvalidHasNoResults
  <2>3. CASE ~IsBlankQuery(search_query) /\ answer.kind = "invalid"
    <3>1. clear_active_search
      BY <1>2, <2>3 DEF find_search_matches
    <3> QED
      BY <2>1, <3>1, DocumentAssumption
         DEF SearchInv, SearchIsCoherent, InvalidHasNoResults, clear_active_search
  <2>4. CASE ~IsBlankQuery(search_query) /\ answer.kind = "unreadable"
    <3>1. UNCHANGED results /\ search_error' = "unreadable"
      BY <1>2, <2>4 DEF find_search_matches
    <3> QED
      BY <2>1, <3>1 DEF SearchInv, SearchIsCoherent, InvalidHasNoResults
  <2>5. CASE ~IsBlankQuery(search_query) /\ answer.kind = "found"
    <3>1. /\ active_search_query' = search_query
          /\ active_search_pattern_len' = answer.len
          /\ search_matches' = answer.hits
          /\ search_error' = None
          /\ current_search_match' = IF answer.hits = << >> THEN None ELSE 0
      BY <1>2, <2>5 DEF find_search_matches, select_search_match
    <3>2. search_query # Empty
      BY <2>5 DEF IsBlankQuery
    <3>3. answer.hits \in Seq(Nat)
      BY <2>5, FoundHits DEF SearchInv
    <3>4. answer.hits # << >> => 0 \in 0 .. (Len(answer.hits) - 1)
      BY <3>3
    <3>5. SearchIsCoherent'
      BY <2>5, <3>1, <3>2, <3>4 DEF SearchInv, SearchIsCoherent
    <3>6. InvalidHasNoResults'
      BY <3>1, NoneAssumption DEF InvalidHasNoResults
    <3> QED
      BY <2>1, <3>1, <3>5, <3>6 DEF SearchInv
  <2> QED
    BY <1>2, <2>2, <2>3, <2>4, <2>5 DEF find_search_matches
<1>3. CASE next_search_match \/ previous_search_match
  <2>1. /\ UNCHANGED <<search_query, search_mode, active_search_query,
                       active_search_pattern_len, search_matches, search_error>>
        /\ search_matches # << >>
    BY <1>3 DEF next_search_match, previous_search_match, StepTo
  <2>2. active_search_query # Empty
    BY <2>1 DEF SearchInv, SearchIsCoherent
  <2>3. search_matches \in Seq(Nat)
    BY <2>2, FoundHits DEF SearchInv, SearchIsCoherent
  <2>4. /\ Len(search_matches) \in Nat /\ Len(search_matches) # 0
        /\ current_search_match \in 0 .. (Len(search_matches) - 1)
    BY <2>1, <2>2, <2>3 DEF SearchInv, SearchIsCoherent
  <2>5. current_search_match' \in 0 .. (Len(search_matches) - 1)
    BY <1>3, <2>4, StepsStay
       DEF next_search_match, previous_search_match, StepTo, select_search_match
  <2> QED
    BY <2>1, <2>2, <2>5 DEF SearchInv, SearchIsCoherent, InvalidHasNoResults
<1>4. CASE clear_search
  BY <1>4, DocumentAssumption
     DEF clear_search, clear_active_search, SearchInv, SearchIsCoherent,
         InvalidHasNoResults
<1>5. CASE ~SearchGesture
  BY <1>5, OutsideSearch DEF search, SearchInv, SearchIsCoherent, InvalidHasNoResults
<1> QED
  BY <1>1, <1>2, <1>3, <1>4, <1>5 DEF SearchGesture

LEMMA SearchAlways == Spec => []SearchInv
<1>1. Init => SearchInv
  BY DocumentAssumption DEF Init, SearchInv, SearchIsCoherent, InvalidHasNoResults
<1>2. SearchInv /\ [Next]_vars => SearchInv'
  BY SearchStep
<1> QED
  BY <1>1, <1>2, PTL DEF Spec

(* Status, highlights and steps are about one search that succeeded, for   *)
(* every set of queries and every answer the file may give.                *)
THEOREM SearchesAreCoherent == Spec => []SearchIsCoherent
<1>1. SearchInv => SearchIsCoherent
  BY DEF SearchInv
<1> QED
  BY <1>1, SearchAlways, PTL

(* The error of a pattern never stands beside the results of another.      *)
THEOREM InvalidQueriesHaveNoResults == Spec => []InvalidHasNoResults
<1>1. SearchInv => InvalidHasNoResults
  BY DEF SearchInv
<1> QED
  BY <1>1, SearchAlways, PTL
-----------------------------------------------------------------------------
(* The selection *)

LEMMA RowsAreRows ==
    ASSUME EditorTypes, NEW r \in 1 .. Len(Rows)
    PROVE  Rows \in Seq(Row) /\ Rows[r] \in Row
<1>1. CASE schema = None
  BY <1>1 DEF Rows
<1>2. CASE schema # None
  <2>1. schema.table \in Seq(Row)
    BY <1>2, DocumentAssumption DEF EditorTypes
  <2> QED
    BY <1>2, <2>1 DEF Rows
<1> QED
  BY <1>1, <1>2

(* A name of the schema text leads to a row of the table.                  *)
LEMMA NamesLeadToRows ==
    ASSUME EditorTypes, NEW name, find_best_field_for_schema_name(name) # None
    PROVE  \E r \in 1 .. Len(Rows) : find_best_field_for_schema_name(name) = Rows[r]
<1> DEFINE byField == {r \in 1 .. Len(Rows) :
                          normalized_leaf_name(Rows[r].schema_name) = name}
           byName == {r \in 1 .. Len(Rows) :
                         strip_repeat_indexes(Rows[r].display_name) = name}
           byLeaf == {r \in 1 .. Len(Rows) :
                         normalized_leaf_name(Rows[r].display_name) = name}
<1>1. find_best_field_for_schema_name(name)
         = IF byField # {} THEN Rows[First(byField)]
           ELSE IF byName # {} THEN Rows[First(byName)]
           ELSE IF byLeaf # {} THEN Rows[First(byLeaf)]
           ELSE None
  BY Zenon DEF find_best_field_for_schema_name
<1>2. Len(Rows) \in Nat
  <2>1. CASE schema = None
    BY <2>1 DEF Rows
  <2>2. CASE schema # None
    <3>1. schema.table \in Seq(Row)
      BY <2>2, DocumentAssumption DEF EditorTypes
    <3> QED
      BY <2>2, <3>1 DEF Rows
  <2> QED
    BY <2>1, <2>2
<1>3. /\ byField \in SUBSET (1 .. Len(Rows))
      /\ byName \in SUBSET (1 .. Len(Rows))
      /\ byLeaf \in SUBSET (1 .. Len(Rows))
  OBVIOUS
<1> HIDE DEF byField, byName, byLeaf
<1> QED
  BY <1>1, <1>2, <1>3, FirstIsOne

SelectionKept ==
    /\ UNCHANGED <<schema, selected_field_name, selected_field_range>>
    /\ selected_field_scroll_pending' => selected_field_scroll_pending
    /\ selected_field_scroll_pending' \in BOOLEAN \cup {selected_field_scroll_pending}

SelectionCleared ==
    /\ selected_field_name' = None /\ selected_field_range' = None
    /\ selected_field_scroll_pending' = FALSE

SelectionMoved ==
    /\ UNCHANGED schema
    /\ selected_field_scroll_pending' \in BOOLEAN \cup {selected_field_scroll_pending}
    /\ \E r \in 1 .. Len(Rows) :
          /\ selected_field_name' = Rows[r].display_name
          /\ selected_field_range' = IF Rows[r].offset_valid
                                     THEN << Rows[r].offset, Rows[r].byte_len >>
                                     ELSE None

(* A gesture keeps the selection with its table, clears it, or moves it to *)
(* a row of the table.                                                     *)
LEMMA SelectionStep ==
    ASSUME EditorTypes, [Next]_vars
    PROVE  SelectionKept \/ SelectionCleared \/ SelectionMoved
<1> USE DEF editor, complaint, marks, match, selection, filter, results, search
<1>1. ASSUME NEW table, commit_schema(table)
      PROVE  SelectionCleared
  BY <1>1 DEF commit_schema, clear_selected_field, SelectionCleared
<1>2. CASE LoadSchema \/ reload_schema_from_disk \/ apply_schema_editor
  <2>1. SelectionKept \/ \E table : commit_schema(table)
    BY <1>2 DEF LoadSchema, reload_schema_from_disk, apply_schema_editor, SelectionKept
  <2> QED
    BY <1>1, <2>1
<1>3. CASE EditText \/ activate_schema_diagnostic \/ ClickGroup \/ EditFilter
  BY <1>3 DEF EditText, activate_schema_diagnostic, ClickGroup, EditFilter, SelectionKept
<1>4. CASE DrawFrame
  BY <1>4 DEF DrawFrame, SelectionKept
<1>5. CASE activate_schema_editor_cursor_line
  <2>1. PICK line \in 1 .. Len(schema_editor_text.lines) :
           LET name == schema_editor_text.lines[line]
               row == IF name = None THEN None
                      ELSE find_best_field_for_schema_name(name)
           IN \/ /\ row = None
                 /\ selected_field_scroll_pending' = FALSE
                 /\ UNCHANGED <<selected_field_name, selected_field_range>>
              \/ /\ row # None
                 /\ select_field_from_schema(row)
    BY <1>5 DEF activate_schema_editor_cursor_line
  <2>2. UNCHANGED schema
    BY <1>5 DEF activate_schema_editor_cursor_line
  <2> DEFINE name == schema_editor_text.lines[line]
             found == find_best_field_for_schema_name(name)
  <2>3. CASE name # None /\ found # None
    <3>1. select_field_from_schema(found)
      BY <2>1, <2>3
    <3>2. PICK r \in 1 .. Len(Rows) : found = Rows[r]
      BY <2>3, NamesLeadToRows
    <3> QED
      BY <2>2, <3>1, <3>2 DEF select_field_from_schema, SelectionMoved
  <2>4. CASE name = None \/ found = None
    BY <2>1, <2>2, <2>4 DEF SelectionKept
  <2> QED
    BY <2>3, <2>4
<1>6. CASE activate_runtime_diagnostic
  BY <1>6 DEF activate_runtime_diagnostic, select_field_with_schema_name, SelectionMoved
<1>7. CASE ClickRow
  BY <1>7 DEF ClickRow, select_field_with_schema_name, SelectionMoved
<1>8. CASE ClickOutside
  BY <1>8 DEF ClickOutside, clear_selected_field, SelectionCleared
<1>9. CASE DismissError \/ GoToOffset \/ GoNowhere \/ PreviousPage \/ NextPage
  BY <1>9 DEF DismissError, GoToOffset, GoNowhere, PreviousPage, NextPage, MoveTo,
              SelectionKept
<1>10. CASE EditQuery \/ find_search_matches
            \/ next_search_match \/ previous_search_match \/ clear_search
  BY <1>10 DEF EditQuery, find_search_matches, next_search_match,
               previous_search_match, StepTo, clear_search, SelectionKept
<1>11. CASE UNCHANGED vars
  BY <1>11 DEF vars, SelectionKept
<1> QED
  BY <1>2, <1>3, <1>4, <1>5, <1>6, <1>7, <1>8, <1>9, <1>10, <1>11 DEF Next

(* The selection is a row of the table that is shown, with its bytes.      *)
THEOREM SelectionsAreRows == Spec => []SelectionIsRow
<1>1. Init => SelectionIsRow
  BY DEF Init, SelectionIsRow
<1>2. EditorTypes /\ SelectionIsRow /\ [Next]_vars => SelectionIsRow'
  <2> SUFFICES ASSUME EditorTypes, SelectionIsRow, [Next]_vars
               PROVE  SelectionIsRow'
    OBVIOUS
  <2>1. CASE SelectionKept
    BY <2>1 DEF SelectionKept, SelectionIsRow, Named, Rows
  <2>2. CASE SelectionCleared
    BY <2>2 DEF SelectionCleared, SelectionIsRow
  <2>3. CASE SelectionMoved
    <3>1. PICK r \in 1 .. Len(Rows) :
             /\ selected_field_name' = Rows[r].display_name
             /\ selected_field_range' = IF Rows[r].offset_valid
                                        THEN << Rows[r].offset, Rows[r].byte_len >>
                                        ELSE None
      BY <2>3 DEF SelectionMoved
    <3>2. Rows' = Rows
      BY <2>3 DEF SelectionMoved, Rows
    <3>3. r \in Named(selected_field_name)'
      BY <3>1, <3>2 DEF Named
    <3>4. Rows[r].display_name # None
      <4>1. Rows[r] \in Row
        BY RowsAreRows
      <4> QED
        BY <4>1, NoneAssumption DEF Row
    <3> QED
      BY <3>1, <3>2, <3>3, <3>4 DEF SelectionIsRow
  <2> QED
    BY <2>1, <2>2, <2>3, SelectionStep
<1>3. EditorInv => EditorTypes
  BY DEF EditorInv
<1> QED
  BY <1>1, <1>2, <1>3, EditorAlways, PTL DEF Spec
-----------------------------------------------------------------------------
(* Type correctness *)

MessageTypes ==
    /\ schema_editor_dirty \in BOOLEAN
    /\ schema_editor_error \in Option(Category)
    /\ last_error \in Option({"schema", "offset", "search"})
    /\ last_error_is_offset \in BOOLEAN

LEMMA MessageStep ==
    ASSUME EditorTypes, MessageTypes, [Next]_vars
    PROVE  MessageTypes'
<1> USE DEF MessageTypes, editor, complaint, marks, match, selection, filter,
            results, search
<1>1. ASSUME NEW text \in Texts \cup {EmptyText}, SomeFailure(text)
      PROVE  schema_diagnostics'[1] \in Option(Category)
  BY <1>1, Failures DEF Option
<1>2. ASSUME NEW kind \in Option({"schema", "offset", "search"}), Complain(kind)
      PROVE  /\ last_error' \in Option({"schema", "offset", "search"})
             /\ last_error_is_offset' \in BOOLEAN
  BY <1>2 DEF Complain
<1>3. "IncludeResolution" \in Option(Category) /\ None \in Option(Category)
  BY DEF Option, Category
<1>4. /\ None \in Option({"schema", "offset", "search"})
      /\ "schema" \in Option({"schema", "offset", "search"})
      /\ "offset" \in Option({"schema", "offset", "search"})
      /\ "search" \in Option({"schema", "offset", "search"})
  BY DEF Option
<1>5. ASSUME NEW table, commit_schema(table)
      PROVE  MessageTypes'
  BY <1>2, <1>3, <1>4, <1>5 DEF commit_schema
<1>6. CASE LoadSchema
  BY <1>2, <1>4, <1>5, <1>6 DEF LoadSchema
<1>7. CASE reload_schema_from_disk
  <2>1. CASE \E table : commit_schema(table)
    BY <1>5, <2>1
  <2>2. CASE /\ schema_editor_error' = "IncludeResolution"
             /\ Complain("schema") /\ UNCHANGED schema_editor_dirty
    BY <1>2, <1>3, <1>4, <2>2
  <2>3. ASSUME NEW text \in Texts \cup {EmptyText}, SomeFailure(text),
               schema_editor_dirty' = FALSE,
               schema_editor_error' = schema_diagnostics'[1], Complain("schema")
        PROVE  MessageTypes'
    BY <1>1, <1>2, <1>4, <2>3
  <2> QED
    BY <1>7, <2>1, <2>2, <2>3 DEF reload_schema_from_disk
<1>8. CASE apply_schema_editor
  <2>1. CASE \E table : commit_schema(table)
    BY <1>5, <2>1
  <2>2. CASE /\ SomeFailure(schema_editor_text)
             /\ schema_editor_error' = schema_diagnostics'[1]
             /\ schema_editor_dirty' = TRUE /\ UNCHANGED complaint
    BY <1>1, <2>2 DEF EditorTypes
  <2> QED
    BY <1>8, <2>1, <2>2 DEF apply_schema_editor
<1>9. CASE EditText \/ activate_schema_editor_cursor_line
           \/ activate_schema_diagnostic \/ activate_runtime_diagnostic
           \/ ClickRow \/ ClickGroup \/ EditFilter \/ ClickOutside \/ DrawFrame
  BY <1>9 DEF EditText, activate_schema_editor_cursor_line,
              activate_schema_diagnostic, activate_runtime_diagnostic,
              ClickRow, ClickGroup, EditFilter, ClickOutside, DrawFrame
<1>10. CASE DismissError \/ GoToOffset \/ GoNowhere \/ PreviousPage \/ NextPage
  BY <1>2, <1>4, <1>10 DEF DismissError, GoToOffset, GoNowhere, PreviousPage, NextPage,
                           MoveTo, ForgetOffsetError
<1>11. CASE EditQuery \/ find_search_matches
            \/ next_search_match \/ previous_search_match \/ clear_search
  BY <1>2, <1>4, <1>11 DEF EditQuery, find_search_matches, ForgetOffsetError,
                           next_search_match, previous_search_match, StepTo, clear_search
<1>12. CASE UNCHANGED vars
  BY <1>12 DEF vars
<1> QED
  BY <1>6, <1>7, <1>8, <1>9, <1>10, <1>11, <1>12 DEF Next

MarkTypes ==
    /\ schema_match \in Option(1 .. Len(schema_editor_text.lines))
    /\ schema_match_scroll_pending \in BOOLEAN
    /\ schema_cursor_name_highlight \in Option(1 .. Len(schema_editor_text.lines))

(* The line that names a row is a line of the text.                        *)
LEMMA MatchIsALine ==
    ASSUME EditorTypes, NEW display_name, NEW schema_name
    PROVE  find_best_schema_name_match(schema_editor_text, display_name, schema_name)
              \in Option(1 .. Len(schema_editor_text.lines))
<1> DEFINE candidates == schema_match_candidates(display_name, schema_name)
           lines(c) == {l \in 1 .. Len(schema_editor_text.lines) :
                           candidates[c] # << >>
                           /\ schema_editor_text.lines[l] = candidates[c]}
           declared == {c \in 1 .. 3 : lines(c) # {}}
<1>1. find_best_schema_name_match(schema_editor_text, display_name, schema_name)
         = IF declared = {} THEN None ELSE First(lines(First(declared)))
  BY Zenon DEF find_best_schema_name_match
<1>2. Len(schema_editor_text.lines) \in Nat
  <2>1. schema_editor_text.lines \in Seq(Option(Name))
    <3>1. EmptyText.lines = << >>
      BY DEF EmptyText
    <3>2. << >> \in Seq(Option(Name))
      OBVIOUS
    <3> QED
      BY <3>1, <3>2, DocumentAssumption DEF EditorTypes, Text
  <2> QED
    BY <2>1
<1>3. declared # {} => First(declared) \in declared
  <2>1. declared \in SUBSET (1 .. 3)
    OBVIOUS
  <2> HIDE DEF declared
  <2> QED
    BY <2>1, FirstIsOne
<1>4. ASSUME declared # {}
      PROVE  First(lines(First(declared))) \in 1 .. Len(schema_editor_text.lines)
  <2>1. lines(First(declared)) # {}
    BY <1>3, <1>4
  <2>2. lines(First(declared)) \in SUBSET (1 .. Len(schema_editor_text.lines))
    OBVIOUS
  <2> HIDE DEF lines, declared
  <2> QED
    BY <1>2, <2>1, <2>2, FirstIsOne
<1> HIDE DEF declared, lines
<1> QED
  BY <1>1, <1>4 DEF Option
LEMMA MarkStep ==
    ASSUME EditorTypes, MarkTypes, [Next]_vars
    PROVE  MarkTypes'
<1> USE DEF editor, complaint, marks, match, selection, filter, results, search
<1> DEFINE Clear == /\ schema_match' = None
                    /\ schema_match_scroll_pending' = FALSE
                    /\ schema_cursor_name_highlight' = None
           Keep == UNCHANGED <<schema_editor_text, match>>
                   /\ schema_cursor_name_highlight'
                         \in {None, schema_cursor_name_highlight}
           Forget == /\ UNCHANGED schema_editor_text
                     /\ schema_match' = None
                     /\ schema_match_scroll_pending' = FALSE
                     /\ schema_cursor_name_highlight'
                           \in Option(1 .. Len(schema_editor_text.lines))
           Match == /\ UNCHANGED schema_editor_text
                    /\ \E d, n : schema_match'
                          = find_best_schema_name_match(schema_editor_text, d, n)
                    /\ schema_match_scroll_pending' \in BOOLEAN
                    /\ schema_cursor_name_highlight' = None
<1>1. Clear => MarkTypes'
  BY DEF MarkTypes, Option
<1>2. Keep => MarkTypes'
  BY DEF MarkTypes, Option
<1>3. Forget => MarkTypes'
  BY DEF MarkTypes, Option
<1>4. Match => MarkTypes'
  BY MatchIsALine DEF MarkTypes, Option
<1>5. \A category : set_schema_diagnostic(category) => Clear
  BY DEF set_schema_diagnostic, clear_schema_match, clear_schema_cursor_name_highlight
<1>6. \A table : commit_schema(table) => Clear
  BY DEF commit_schema, clear_selected_field, clear_schema_match,
         clear_schema_cursor_name_highlight
<1>7. \A text : SomeFailure(text) => Clear
  BY <1>5 DEF SomeFailure
<1>8. CASE LoadSchema \/ reload_schema_from_disk \/ apply_schema_editor
  <2> HIDE DEF Clear
  <2>1. Clear
    BY <1>5, <1>6, <1>7, <1>8 DEF LoadSchema, reload_schema_from_disk, apply_schema_editor
  <2> QED
    BY <1>1, <2>1
<1>9. CASE EditText
  BY <1>1, <1>9 DEF EditText, clear_schema_match, clear_schema_cursor_name_highlight
<1>10. CASE activate_schema_editor_cursor_line
  <2>1. Keep \/ Forget
    BY <1>10 DEF activate_schema_editor_cursor_line, select_field_from_schema,
                 clear_schema_match, clear_schema_cursor_name_highlight, Option
  <2> QED
    BY <1>2, <1>3, <2>1
<1>11. ASSUME NEW d, NEW n, NEW offset, NEW len,
              select_field_with_schema_name(d, n, offset, len),
              UNCHANGED schema_editor_text
       PROVE  Match
  BY <1>11 DEF select_field_with_schema_name, clear_schema_cursor_name_highlight
<1>12. CASE activate_runtime_diagnostic
  <2>1. ASSUME clear_schema_match, clear_schema_cursor_name_highlight
        PROVE  Clear
    BY <2>1 DEF clear_schema_match, clear_schema_cursor_name_highlight
  <2>2. Clear \/ Match
    <3> HIDE DEF Clear, Match
    <3> QED
      BY <1>11, <1>12, <2>1 DEF activate_runtime_diagnostic
  <2> QED
    BY <1>1, <1>4, <2>2
<1>13. CASE ClickRow
  <2>1. Match
    <3> HIDE DEF Match
    <3> QED
      BY <1>11, <1>13 DEF ClickRow
  <2> QED
    BY <1>4, <2>1
<1>14. CASE activate_schema_diagnostic \/ ClickGroup \/ EditFilter
  BY <1>2, <1>14 DEF activate_schema_diagnostic, ClickGroup, EditFilter
<1>15. CASE ClickOutside
  BY <1>1, <1>15 DEF ClickOutside, clear_selected_field, clear_schema_match,
                     clear_schema_cursor_name_highlight
<1>16. CASE DrawFrame
  BY <1>16 DEF DrawFrame, MarkTypes
<1>17. CASE DismissError \/ GoToOffset \/ GoNowhere \/ PreviousPage \/ NextPage
  BY <1>2, <1>17 DEF DismissError, GoToOffset, GoNowhere, PreviousPage, NextPage, MoveTo
<1>18. CASE EditQuery \/ find_search_matches
            \/ next_search_match \/ previous_search_match \/ clear_search
  BY <1>2, <1>18 DEF EditQuery, find_search_matches, next_search_match,
                     previous_search_match, StepTo, clear_search
<1>19. CASE UNCHANGED vars
  BY <1>2, <1>19 DEF vars
<1> QED
  BY <1>8, <1>9, <1>10, <1>12, <1>13, <1>14, <1>15, <1>16, <1>17, <1>18, <1>19 DEF Next

SelectionTypes ==
    /\ selected_field_name \in Option(Name)
    /\ selected_field_range \in Option(Nat \X Nat)
    /\ selected_field_scroll_pending \in BOOLEAN

LEMMA SelectionTypesStep ==
    ASSUME EditorTypes, SelectionTypes, [Next]_vars
    PROVE  SelectionTypes'
<1>1. CASE SelectionKept
  BY <1>1 DEF SelectionKept, SelectionTypes
<1>2. CASE SelectionCleared
  BY <1>2 DEF SelectionCleared, SelectionTypes, Option
<1>3. CASE SelectionMoved
  <2>1. PICK r \in 1 .. Len(Rows) :
           /\ selected_field_name' = Rows[r].display_name
           /\ selected_field_range' = IF Rows[r].offset_valid
                                      THEN << Rows[r].offset, Rows[r].byte_len >>
                                      ELSE None
    BY <1>3 DEF SelectionMoved
  <2>2. Rows[r] \in Row
    BY RowsAreRows
  <2>3. /\ Rows[r].display_name \in Name
        /\ Rows[r].offset \in Nat /\ Rows[r].byte_len \in Nat
    BY <2>2 DEF Row
  <2> QED
    BY <1>3, <2>1, <2>3 DEF SelectionMoved, SelectionTypes, Option
<1> QED
  BY <1>1, <1>2, <1>3, SelectionStep

(* Some positions of a sequence have a greatest.                           *)
LEMMA LastIsOne ==
    ASSUME NEW n \in Nat, NEW S \in SUBSET (1 .. n), S # {}
    PROVE  \E i \in S : \A j \in S : j <= i
<1> DEFINE T == {n - i : i \in S}
<1>1. T \subseteq Nat /\ T # {}
  <2>1. \A i \in S : n - i \in Nat
    OBVIOUS
  <2>2. PICK i \in S : TRUE
    OBVIOUS
  <2>3. n - i \in T
    BY <2>2
  <2> QED
    BY <2>1, <2>3
<1> HIDE DEF T
<1>2. PICK t \in T : \A u \in T : t <= u
  BY <1>1, LeastOfNaturals
<1>3. PICK i \in S : t = n - i
  BY <1>2 DEF T
<1>4. ASSUME NEW j \in S
      PROVE  j <= i
  <2>1. n - j \in T
    BY DEF T
  <2>2. n - i <= n - j
    BY <1>2, <1>3, <2>1
  <2> QED
    BY <2>2
<1> QED
  BY <1>4

(* The group of a name is a name.                                          *)
LEMMA GroupsAreNames ==
    ASSUME NEW name \in Name
    PROVE  split_field_group(name) \in Option(Name)
<1> DEFINE dots == {i \in 2 .. Len(name) : name[i] \in Idents}
           last == CHOOSE i \in dots : \A j \in dots : j <= i
<1>1. split_field_group(name) = IF dots = {} THEN None ELSE SubSeq(name, 1, last - 1)
  BY Zenon DEF split_field_group
<1>2. name \in Seq(Idents \cup Nat) /\ Len(name) \in Nat
  BY DEF Name
<1>3. ASSUME dots # {}
      PROVE  last \in 2 .. Len(name)
  <2>1. dots \in SUBSET (1 .. Len(name))
    BY <1>2
  <2>2. dots \subseteq 2 .. Len(name)
    OBVIOUS
  <2>3. \E i \in dots : \A j \in dots : j <= i
    <3> HIDE DEF dots
    <3> QED
      BY <1>2, <1>3, <2>1, LastIsOne
  <2>4. last \in dots
    <3> HIDE DEF dots
    <3> QED
      BY <2>3
  <2> HIDE DEF dots, last
  <2> QED
    BY <2>2, <2>4
<1>4. ASSUME dots # {}
      PROVE  SubSeq(name, 1, last - 1) \in Name
  <2> HIDE DEF dots, last
  <2>1. last \in Nat /\ 1 <= last - 1 /\ last - 1 <= Len(name)
    BY <1>2, <1>3, <1>4
  <2> QED
    BY <1>2, <2>1 DEF Name
<1> HIDE DEF dots, last
<1> QED
  BY <1>1, <1>4 DEF Option
FilterTypes ==
    /\ field_filter_query \in Filters
    /\ field_filter_errors_only \in BOOLEAN
    /\ \A g \in collapsed_field_groups : g \in Name

LEMMA FilterStep ==
    ASSUME EditorTypes, FilterTypes, [Next]_vars
    PROVE  FilterTypes'
<1> USE DEF editor, complaint, marks, match, selection, filter, results, search
<1>1. (UNCHANGED filter) => FilterTypes'
  BY DEF FilterTypes
<1>2. ASSUME NEW name, UncoverRow(name)
      PROVE  FilterTypes'
  <2>1. field_filter_query' \in Filters
    BY <1>2, DocumentAssumption DEF UncoverRow, FilterTypes
  <2> QED
    BY <1>2, <2>1 DEF UncoverRow, FilterTypes
<1>3. CASE LoadSchema \/ reload_schema_from_disk \/ apply_schema_editor
  BY <1>1, <1>3 DEF LoadSchema, reload_schema_from_disk, apply_schema_editor
<1>4. CASE activate_schema_editor_cursor_line
  BY <1>1, <1>2, <1>4 DEF activate_schema_editor_cursor_line, select_field_from_schema
<1>5. CASE activate_runtime_diagnostic
  BY <1>2, <1>5 DEF activate_runtime_diagnostic
<1>6. CASE ClickGroup
  <2>1. PICK r \in 1 .. Len(Rows) :
           LET group == split_field_group(Rows[r].display_name)
           IN /\ group # None
              /\ collapsed_field_groups' =
                    IF group \in collapsed_field_groups
                    THEN collapsed_field_groups \ {group}
                    ELSE collapsed_field_groups \cup {group}
    BY <1>6 DEF ClickGroup
  <2>2. Rows[r].display_name \in Name
    BY RowsAreRows DEF Row
  <2>3. split_field_group(Rows[r].display_name) \in Name
    BY <2>1, <2>2, GroupsAreNames DEF Option
  <2>4. UNCHANGED <<field_filter_query, field_filter_errors_only>>
    BY <1>6 DEF ClickGroup
  <2> QED
    BY <2>1, <2>3, <2>4 DEF FilterTypes
<1>7. CASE EditFilter
  BY <1>7 DEF EditFilter, FilterTypes
<1>8. CASE EditText \/ activate_schema_diagnostic \/ ClickRow \/ ClickOutside
           \/ DrawFrame
  BY <1>1, <1>8 DEF EditText, activate_schema_diagnostic, ClickRow, ClickOutside,
                    DrawFrame
<1>9. CASE DismissError \/ GoToOffset \/ GoNowhere \/ PreviousPage \/ NextPage
  BY <1>1, <1>9 DEF DismissError, GoToOffset, GoNowhere, PreviousPage, NextPage, MoveTo
<1>10. CASE EditQuery \/ find_search_matches
            \/ next_search_match \/ previous_search_match \/ clear_search
  BY <1>1, <1>10 DEF EditQuery, find_search_matches, next_search_match,
                     previous_search_match, StepTo, clear_search
<1>11. CASE UNCHANGED vars
  BY <1>1, <1>11 DEF vars
<1> QED
  BY <1>3, <1>4, <1>5, <1>6, <1>7, <1>8, <1>9, <1>10, <1>11 DEF Next

ResultTypes ==
    /\ active_search_pattern_len \in Nat
    /\ search_matches \in Seq(0 .. Size)
    /\ current_search_match \in Option(Nat)
    /\ search_error \in Option({"invalid", "unreadable"})

ErrorTypes ==
    /\ search_error \in Option({"invalid", "unreadable"})
    /\ active_search_query = Empty => active_search_pattern_len \in Nat

(* The results of a search are those of an answer, or none.                *)
LEMMA ResultsAreTyped ==
    ASSUME SearchInv, ErrorTypes
    PROVE  ResultTypes
<1> USE DEF ErrorTypes
<1>1. CASE active_search_query = Empty
  <2>1. << >> \in Seq(0 .. Size)
    OBVIOUS
  <2> QED
    BY <1>1, <2>1 DEF SearchInv, SearchIsCoherent, ResultTypes, Option
<1>2. CASE active_search_query # Empty
  <2>1. PICK m \in SearchModes :
           /\ Answers[m][active_search_query].kind = "found"
           /\ active_search_pattern_len = Answers[m][active_search_query].len
           /\ search_matches = Answers[m][active_search_query].hits
    BY <1>2 DEF SearchInv, SearchIsCoherent
  <2>2. active_search_query \in Queries
    BY DEF SearchInv
  <2>3. search_matches \in Seq(Nat) /\ active_search_pattern_len \in Nat
    BY <2>1, <2>2, FoundHits
  <2>4. \A i \in 1 .. Len(search_matches) :
           search_matches[i] + active_search_pattern_len <= Size
    BY <2>1, <2>2, DocumentAssumption
  <2>5. \A i \in 1 .. Len(search_matches) : search_matches[i] \in 0 .. Size
    BY <2>3, <2>4, DocumentAssumption
  <2>6. search_matches \in Seq(0 .. Size)
    <3>1. /\ Len(search_matches) \in Nat
          /\ search_matches = [i \in 1 .. Len(search_matches) |-> search_matches[i]]
      BY <2>3
    <3>2. search_matches \in [1 .. Len(search_matches) -> 0 .. Size]
      BY <2>5, <3>1
    <3> QED
      BY <3>1, <3>2, SeqDef
  <2>7. current_search_match \in Option(Nat)
    BY <1>2, <2>3 DEF SearchInv, SearchIsCoherent, Option
  <2> QED
    BY <2>3, <2>6, <2>7 DEF ResultTypes
<1> QED
  BY <1>1, <1>2

LEMMA ErrorStep ==
    ASSUME [Next]_vars, SearchInv, ErrorTypes, ResultTypes
    PROVE  ErrorTypes'
<1> USE DEF results, search, ErrorTypes, ResultTypes
<1>1. CASE EditQuery \/ next_search_match \/ previous_search_match
  BY <1>1 DEF EditQuery, next_search_match, previous_search_match, StepTo
<1>2. CASE find_search_matches
  BY <1>2, FoundHits DEF find_search_matches, clear_active_search, SearchInv, Option
<1>3. CASE clear_search
  BY <1>3 DEF clear_search, clear_active_search, Option
<1>4. CASE ~SearchGesture
  BY <1>4, OutsideSearch
<1> QED
  BY <1>1, <1>2, <1>3, <1>4 DEF SearchGesture

OnAPage == hex_start_offset \in 0 .. MaxStart

LEMMA RevealsAPage ==
    ASSUME OnAPage, NEW offset \in Nat
    PROVE  Reveal(offset) \in 0 .. MaxStart
<1>1. MaxStart \in Nat
  BY DocumentAssumption DEF MaxStart, Monus
<1> QED
  BY <1>1 DEF Reveal, OnAPage, Least

LEMMA PageStep ==
    ASSUME EditorTypes, SearchInv, ResultTypes, OnAPage, [Next]_vars
    PROVE  OnAPage'
<1> USE DEF editor, complaint, marks, match, selection, filter, results, search
<1>0. MaxStart \in Nat /\ Page \in Nat /\ Page > 0 /\ Size \in Nat
  BY DocumentAssumption DEF MaxStart, Monus
<1>1. (UNCHANGED hex_start_offset) => OnAPage'
  BY DEF OnAPage, MaxStart
<1>2. ASSUME NEW r \in 1 .. Len(Rows), RevealBytes(Rows[r].offset, Rows[r].byte_len)
      PROVE  OnAPage'
  <2>1. Rows[r].offset \in Nat
    BY RowsAreRows DEF Row
  <2>2. hex_start_offset' \in 0 .. MaxStart
    BY <1>2, <2>1, RevealsAPage DEF RevealBytes, OnAPage
  <2> QED
    BY <2>2 DEF OnAPage, MaxStart
<1>3. CASE LoadSchema \/ reload_schema_from_disk \/ apply_schema_editor
  BY <1>1, <1>3 DEF LoadSchema, reload_schema_from_disk, apply_schema_editor
<1>4. CASE activate_schema_editor_cursor_line
  <2>1. (UNCHANGED hex_start_offset)
        \/ \E name : /\ find_best_field_for_schema_name(name) # None
                      /\ RevealBytes(find_best_field_for_schema_name(name).offset,
                                     find_best_field_for_schema_name(name).byte_len)
    BY <1>4 DEF activate_schema_editor_cursor_line, select_field_from_schema
  <2> QED
    BY <1>1, <1>2, <2>1, NamesLeadToRows
<1>5. CASE activate_runtime_diagnostic \/ ClickRow
  BY <1>1, <1>2, <1>5 DEF activate_runtime_diagnostic, ClickRow,
                          select_field_with_schema_name
<1>6. CASE EditText \/ activate_schema_diagnostic \/ ClickGroup \/ EditFilter
           \/ ClickOutside \/ DrawFrame \/ DismissError \/ GoNowhere
  BY <1>1, <1>6 DEF EditText, activate_schema_diagnostic, ClickGroup, EditFilter,
                    ClickOutside, DrawFrame, DismissError, GoNowhere
<1>7. CASE GoToOffset \/ PreviousPage \/ NextPage
  <2>1. hex_start_offset' \in 0 .. MaxStart
    BY <1>0, <1>7 DEF GoToOffset, PreviousPage, NextPage, MoveTo, OnAPage, Least, Monus
  <2> QED
    BY <2>1 DEF OnAPage, MaxStart
<1>8. CASE EditQuery \/ clear_search
  BY <1>1, <1>8 DEF EditQuery, clear_search
<1>9. CASE find_search_matches
  <2> DEFINE answer == Answers[search_mode][search_query]
  <2>1. (UNCHANGED hex_start_offset)
        \/ /\ answer.kind = "found" /\ answer.hits # << >>
           /\ hex_start_offset' = Reveal(answer.hits[1])
    BY <1>9 DEF find_search_matches, select_search_match
  <2>2. ASSUME answer.kind = "found", answer.hits # << >>
        PROVE  answer.hits[1] \in Nat
    <3>1. answer.hits \in Seq(Nat)
      BY <2>2, FoundHits DEF SearchInv
    <3>2. 1 \in 1 .. Len(answer.hits)
      BY <2>2, <3>1, EmptySeq
    <3> QED
      BY <3>1, <3>2, ElementOfSeq
  <2>3. (UNCHANGED hex_start_offset) \/ hex_start_offset' \in 0 .. MaxStart
    BY <2>1, <2>2, RevealsAPage
  <2> QED
    BY <1>1, <2>3 DEF OnAPage, MaxStart
<1>10. CASE next_search_match \/ previous_search_match
  <2>1. PICK index : /\ search_matches # << >>
                     /\ current_search_match' = index
                     /\ hex_start_offset' = Reveal(search_matches[index + 1])
                     /\ UNCHANGED search_matches
    BY <1>10 DEF next_search_match, previous_search_match, StepTo, select_search_match
  <2>2. SearchIsCoherent' /\ UNCHANGED active_search_query
    BY <1>10, SearchStep DEF SearchInv, next_search_match, previous_search_match, StepTo
  <2>3. index \in 0 .. (Len(search_matches) - 1)
    BY <2>1, <2>2 DEF SearchIsCoherent
  <2>4. search_matches[index + 1] \in 0 .. Size
    <3>1. search_matches \in Seq(0 .. Size)
      BY DEF ResultTypes
    <3>2. index + 1 \in 1 .. Len(search_matches)
      BY <2>3, <3>1
    <3> QED
      BY <3>1, <3>2, ElementOfSeq
  <2>5. hex_start_offset' \in 0 .. MaxStart
    BY <1>0, <2>1, <2>4, RevealsAPage
  <2> QED
    BY <2>5 DEF OnAPage, MaxStart
<1>11. CASE UNCHANGED vars
  BY <1>1, <1>11 DEF vars
<1> QED
  BY <1>3, <1>4, <1>5, <1>6, <1>7, <1>8, <1>9, <1>10, <1>11 DEF Next

DocumentInv ==
    /\ EditorInv /\ SearchInv
    /\ MessageTypes /\ MarkTypes /\ SelectionTypes /\ FilterTypes /\ ErrorTypes
    /\ OnAPage

LEMMA DocumentStep ==
    ASSUME DocumentInv, [Next]_vars
    PROVE  DocumentInv'
<1>1. EditorInv' /\ SearchInv'
  BY EditorStep, SearchStep DEF DocumentInv
<1>2. ResultTypes
  BY ResultsAreTyped DEF DocumentInv
<1>3. MessageTypes' /\ MarkTypes' /\ SelectionTypes' /\ FilterTypes'
  BY MessageStep, MarkStep, SelectionTypesStep, FilterStep DEF DocumentInv, EditorInv
<1>4. OnAPage' /\ ErrorTypes'
  BY <1>2, PageStep, ErrorStep DEF DocumentInv, EditorInv
<1> QED
  BY <1>1, <1>3, <1>4 DEF DocumentInv

LEMMA DocumentAlways == Spec => []DocumentInv
<1>1. Init => DocumentInv
  <2> SUFFICES ASSUME Init
               PROVE  DocumentInv
    OBVIOUS
  <2>1. EditorInv
    BY NoneAssumption
       DEF Init, EditorInv, EditorTypes, EditorAgrees, ErrorsHaveDiagnostics, Option
  <2>2. SearchInv
    BY DocumentAssumption DEF Init, SearchInv, SearchIsCoherent, InvalidHasNoResults
  <2>3. MessageTypes /\ MarkTypes /\ SelectionTypes /\ FilterTypes
    BY DocumentAssumption
       DEF Init, MessageTypes, MarkTypes, SelectionTypes, FilterTypes, Option
  <2>4. ErrorTypes
    BY DEF Init, ErrorTypes, Option
  <2>5. OnAPage
    BY DocumentAssumption DEF Init, OnAPage, MaxStart, Monus
  <2> QED
    BY <2>1, <2>2, <2>3, <2>4, <2>5 DEF DocumentInv
<1> QED
  BY <1>1, DocumentStep, PTL DEF Spec

(* A document is well typed, its marks are lines of the text that is there *)
(* now, and the hex page never reaches past the end of a file that fills   *)
(* one.                                                                    *)
THEOREM DocumentTypeCorrect == Spec => []TypeOK
<1>1. DocumentInv => TypeOK
  BY ResultsAreTyped
     DEF DocumentInv, EditorInv, EditorTypes, SearchInv, MessageTypes, MarkTypes,
         SelectionTypes, FilterTypes, ResultTypes, OnAPage, TypeOK
<1> QED
  BY <1>1, DocumentAlways, PTL

-----------------------------------------------------------------------------
(* What is revealed *)

(* Revealing an offset of the file puts it on the page, also where the     *)
(* page is clamped to the last full one.                                   *)
LEMMA RevealShows ==
    ASSUME NEW offset \in Nat, offset < Size, hex_start_offset' = Reveal(offset)
    PROVE  InView(offset, hex_start_offset')
<1>1. Size \in Nat /\ Page \in Nat \ {0}
  BY DocumentAssumption
<1> QED
  BY <1>1 DEF Reveal, InView, Least, Monus, MaxStart

(* What an answer found lies in the file.                                  *)
LEMMA HitsAreInside ==
    ASSUME NEW m \in SearchModes, NEW q \in Queries, Answers[m][q].kind = "found",
           NEW i \in 1 .. Len(Answers[m][q].hits)
    PROVE  Answers[m][q].hits[i] \in Nat /\ Answers[m][q].hits[i] < Size
<1> DEFINE hit == Answers[m][q].hits[i]
           len == Answers[m][q].len
<1>1. Answers[m][q].hits \in Seq(Nat) /\ len \in Nat \ {0}
  BY FoundHits
<1>2. hit \in Nat
  BY <1>1, ElementOfSeq
<1>3. hit + len <= Size /\ Size \in Nat
  BY DocumentAssumption
<1> HIDE DEF hit, len
<1>4. hit < Size
  BY <1>1, <1>2, <1>3
<1> QED
  BY <1>2, <1>4 DEF hit

(* Whenever a match becomes current, its first byte is on the page.        *)
THEOREM CurrentMatchesAreShown == Spec => CurrentMatchIsShown
<1> DEFINE Shows ==
       current_search_match' # None
       /\ <<current_search_match, search_matches>>' # <<current_search_match, search_matches>>
       => InView(search_matches'[current_search_match' + 1], hex_start_offset')
<1>1. ASSUME DocumentInv, [Next]_vars
      PROVE  Shows
  <2> USE DEF search, results
  <2>1. CASE ~SearchGesture \/ EditQuery
    BY <1>1, <2>1, OutsideSearch DEF EditQuery
  <2>2. CASE clear_search
    BY <2>2 DEF clear_search, clear_active_search
  <2>3. CASE find_search_matches
    <3> DEFINE answer == Answers[search_mode][search_query]
    <3>1. \/ current_search_match' = None
          \/ UNCHANGED <<current_search_match, search_matches>>
          \/ /\ answer.kind = "found" /\ answer.hits # << >>
             /\ search_matches' = answer.hits /\ current_search_match' = 0
             /\ hex_start_offset' = Reveal(answer.hits[1])
      BY <2>3 DEF find_search_matches, clear_active_search, select_search_match
    <3>2. ASSUME answer.kind = "found", answer.hits # << >>
          PROVE  answer.hits[1] \in Nat /\ answer.hits[1] < Size
      <4>1. search_mode \in SearchModes /\ search_query \in Queries
        BY <1>1 DEF DocumentInv, SearchInv
      <4>2. 1 \in 1 .. Len(answer.hits)
        BY <3>2, <4>1, FoundHits, EmptySeq
      <4> QED
        BY <3>2, <4>1, <4>2, HitsAreInside
    <3> QED
      BY <3>1, <3>2, RevealShows
  <2>4. CASE next_search_match \/ previous_search_match
    <3>1. PICK index : /\ search_matches # << >>
                       /\ current_search_match' = index
                       /\ hex_start_offset' = Reveal(search_matches[index + 1])
                       /\ UNCHANGED <<search_matches, active_search_query>>
      BY <2>4 DEF next_search_match, previous_search_match, StepTo, select_search_match
    <3>2. SearchInv /\ SearchInv'
      BY <1>1, SearchStep DEF DocumentInv
    <3>3. /\ active_search_query # Empty
          /\ index \in 0 .. (Len(search_matches) - 1)
      BY <3>1, <3>2 DEF SearchInv, SearchIsCoherent
    <3>4. PICK m \in SearchModes :
             /\ Answers[m][active_search_query].kind = "found"
             /\ search_matches = Answers[m][active_search_query].hits
      BY <3>2, <3>3 DEF SearchInv, SearchIsCoherent
    <3>5. Len(search_matches) \in Nat
      BY <3>2, <3>4, FoundHits DEF SearchInv
    <3>6. index + 1 \in 1 .. Len(search_matches)
      BY <3>3, <3>5
    <3>7. search_matches[index + 1] \in Nat /\ search_matches[index + 1] < Size
      BY <3>2, <3>4, <3>6, HitsAreInside DEF SearchInv
    <3> QED
      BY <3>1, <3>7, RevealShows
  <2> QED
    BY <2>1, <2>2, <2>3, <2>4 DEF SearchGesture
<1>2. DocumentInv /\ [Next]_vars => [Shows]_vars
  BY <1>1
<1> QED
  BY <1>2, DocumentAlways, PTL DEF Spec, CurrentMatchIsShown

(* A row that was uncovered is shown, whatever filter and groups were set. *)
LEMMA UncoveredIsVisible ==
    ASSUME NEW row, UncoverRow(row.display_name)
    PROVE  Shown(row, field_filter_query', field_filter_errors_only',
                 collapsed_field_groups')
BY DEF UncoverRow, Shown, field_name_matches_filter

(* What a step of the selection has to show: a row that will be scrolled   *)
(* to, and bytes that were not selected before.                            *)
RowRevealed ==
    selected_field_scroll_pending'
    /\ <<selected_field_scroll_pending, selected_field_name>>'
       # <<selected_field_scroll_pending, selected_field_name>>
    => \E r \in 1 .. Len(Rows) :
          /\ UNCHANGED schema
          /\ Rows[r].display_name = selected_field_name'
          /\ Shown(Rows[r], field_filter_query', field_filter_errors_only',
                   collapsed_field_groups')

BytesRevealed ==
    selected_field_range' \notin {None, selected_field_range}
    /\ selected_field_range'[2] > 0 /\ selected_field_range'[1] < Size
    => InView(selected_field_range'[1], hex_start_offset')

LEMMA BytesAreShown ==
    ASSUME EditorTypes, NEW r \in 1 .. Len(Rows),
           selected_field_range' = << Rows[r].offset, Rows[r].byte_len >>,
           RevealBytes(Rows[r].offset, Rows[r].byte_len)
    PROVE  BytesRevealed
<1>1. Rows[r].offset \in Nat /\ Rows[r].byte_len \in Nat
  BY RowsAreRows DEF Row
<1>2. ASSUME Rows[r].byte_len > 0, Rows[r].offset < Size
      PROVE  InView(Rows[r].offset, hex_start_offset')
  <2>1. hex_start_offset' = Reveal(Rows[r].offset)
    BY <1>1, <1>2 DEF RevealBytes
  <2> QED
    BY <1>1, <1>2, <2>1, RevealShows
<1>3. /\ selected_field_range'[1] = Rows[r].offset
      /\ selected_field_range'[2] = Rows[r].byte_len
  OBVIOUS
<1> QED
  BY <1>2, <1>3 DEF BytesRevealed

LEMMA RevealStep ==
    ASSUME EditorTypes, SelectionTypes, [Next]_vars
    PROVE  RowRevealed /\ BytesRevealed
<1> USE DEF editor, complaint, marks, match, selection, filter, results, search
<1>1. CASE SelectionKept \/ SelectionCleared
  BY <1>1 DEF SelectionKept, SelectionCleared, SelectionTypes, RowRevealed, BytesRevealed
<1>2. CASE activate_schema_editor_cursor_line /\ SelectionMoved
  <2>1. UNCHANGED schema
    BY <1>2 DEF activate_schema_editor_cursor_line
  <2>2. \/ selected_field_scroll_pending' = FALSE /\ UNCHANGED selected_field_range
        \/ \E name : /\ find_best_field_for_schema_name(name) # None
                     /\ select_field_from_schema(find_best_field_for_schema_name(name))
    BY <1>2 DEF activate_schema_editor_cursor_line
  <2>3. ASSUME NEW r \in 1 .. Len(Rows), select_field_from_schema(Rows[r])
        PROVE  RowRevealed /\ BytesRevealed
    <3>1. Shown(Rows[r], field_filter_query', field_filter_errors_only',
                collapsed_field_groups')
      BY <2>3, UncoveredIsVisible DEF select_field_from_schema
    <3>2. RowRevealed
      BY <2>1, <2>3, <3>1 DEF select_field_from_schema, RowRevealed
    <3>3. BytesRevealed
      <4>1. CASE Rows[r].offset_valid
        BY <2>3, <4>1, BytesAreShown DEF select_field_from_schema
      <4>2. CASE ~Rows[r].offset_valid
        BY <2>3, <4>2 DEF select_field_from_schema, BytesRevealed
      <4> QED
        BY <4>1, <4>2
    <3> QED
      BY <3>2, <3>3
  <2> QED
    BY <2>2, <2>3, NamesLeadToRows DEF RowRevealed, BytesRevealed
<1>3. CASE activate_runtime_diagnostic
  <2>1. PICK r \in 1 .. Len(Rows) :
           /\ UncoverRow(Rows[r].display_name)
           /\ selected_field_name' = Rows[r].display_name
           /\ \/ /\ selected_field_range' = << Rows[r].offset, Rows[r].byte_len >>
                 /\ RevealBytes(Rows[r].offset, Rows[r].byte_len)
              \/ selected_field_range' = None
    BY <1>3 DEF activate_runtime_diagnostic, select_field_with_schema_name
  <2>2. UNCHANGED schema
    BY <1>3 DEF activate_runtime_diagnostic
  <2>3. RowRevealed
    BY <2>1, <2>2, UncoveredIsVisible DEF RowRevealed
  <2>4. BytesRevealed
    BY <2>1, BytesAreShown DEF BytesRevealed
  <2> QED
    BY <2>3, <2>4
<1>4. CASE ClickRow
  <2>1. PICK r \in 1 .. Len(Rows) :
           /\ Visible(Rows[r])
           /\ selected_field_name' = Rows[r].display_name
           /\ selected_field_range' = << Rows[r].offset, Rows[r].byte_len >>
           /\ RevealBytes(Rows[r].offset, Rows[r].byte_len)
    BY <1>4 DEF ClickRow, select_field_with_schema_name
  <2>2. UNCHANGED <<schema, filter>>
    BY <1>4 DEF ClickRow
  <2>3. RowRevealed
    BY <2>1, <2>2 DEF RowRevealed, Visible
  <2>4. BytesRevealed
    BY <2>1, BytesAreShown
  <2> QED
    BY <2>3, <2>4
<1>5. CASE LoadSchema \/ reload_schema_from_disk \/ apply_schema_editor \/ EditText
           \/ activate_schema_diagnostic \/ ClickGroup \/ EditFilter
           \/ ClickOutside \/ DrawFrame
  <2>1. \/ ~selected_field_scroll_pending' \/ ~SelectionMoved
        \/ UNCHANGED <<selected_field_scroll_pending, selected_field_name>>
    BY <1>5
       DEF LoadSchema, reload_schema_from_disk, apply_schema_editor, EditText,
           activate_schema_diagnostic, ClickGroup, EditFilter, ClickOutside, DrawFrame,
           commit_schema, clear_selected_field, SelectionTypes
  <2>2. selected_field_range' \in {None, selected_field_range}
    BY <1>5
       DEF LoadSchema, reload_schema_from_disk, apply_schema_editor, EditText,
           activate_schema_diagnostic, ClickGroup, EditFilter, ClickOutside, DrawFrame,
           commit_schema, clear_selected_field
  <2> QED
    BY <1>1, <2>1, <2>2, SelectionStep DEF RowRevealed, BytesRevealed
<1>6. CASE DismissError \/ GoToOffset \/ GoNowhere \/ PreviousPage \/ NextPage
           \/ EditQuery \/ find_search_matches
           \/ next_search_match \/ previous_search_match \/ clear_search
           \/ UNCHANGED vars
  <2>1. UNCHANGED selection
    BY <1>6 DEF DismissError, GoToOffset, GoNowhere, PreviousPage, NextPage, MoveTo,
                EditQuery, find_search_matches, next_search_match,
                previous_search_match, StepTo, clear_search, vars
  <2> QED
    BY <2>1 DEF RowRevealed, BytesRevealed
<1> QED
  BY <1>1, <1>2, <1>3, <1>4, <1>5, <1>6, SelectionStep DEF Next

(* A row that is to be scrolled to is one the table shows, past any filter *)
(* and collapsed group, and newly selected bytes are on the page.          *)
THEOREM SelectionsAreRevealed == Spec => SelectionIsRevealed
<1> DEFINE Reveals ==
       /\ selected_field_scroll_pending'
          /\ <<selected_field_scroll_pending, selected_field_name>>'
             # <<selected_field_scroll_pending, selected_field_name>>
          => \E r \in Named(selected_field_name') : Visible(Rows[r])'
       /\ selected_field_range' \notin {None, selected_field_range}
          /\ selected_field_range'[2] > 0 /\ selected_field_range'[1] < Size
          => InView(selected_field_range'[1], hex_start_offset')
<1>1. ASSUME DocumentInv, [Next]_vars
      PROVE  Reveals
  <2>1. RowRevealed /\ BytesRevealed
    BY <1>1, RevealStep DEF DocumentInv, EditorInv
  <2>2. ASSUME NEW r \in 1 .. Len(Rows), UNCHANGED schema,
               Shown(Rows[r], field_filter_query', field_filter_errors_only',
                     collapsed_field_groups')
        PROVE  Visible(Rows[r])'
    BY <2>2 DEF Visible, Rows
  <2> QED
    BY <2>1, <2>2 DEF RowRevealed, BytesRevealed, Named
<1>2. DocumentInv /\ [Next]_vars => [Reveals]_vars
  BY <1>1
<1> QED
  BY <1>2, DocumentAlways, PTL DEF Spec, SelectionIsRevealed

-----------------------------------------------------------------------------
(* What is marked *)

(* The ways a gesture may treat the marks in the editor.                   *)
MarksCleared ==
    /\ schema_match' = None /\ schema_match_scroll_pending' = FALSE
    /\ schema_cursor_name_highlight' = None

MarksKept ==
    /\ UNCHANGED <<schema, schema_editor_text, selected_field_name, schema_match>>
    /\ schema_match_scroll_pending' => schema_match_scroll_pending
    /\ schema_cursor_name_highlight' \in {None, schema_cursor_name_highlight}

NameHighlighted(line) ==
    LET name == schema_editor_text.lines[line]
    IN /\ UNCHANGED <<schema, schema_editor_text>>
       /\ schema_match' = None /\ schema_match_scroll_pending' = FALSE
       /\ schema_cursor_name_highlight' = line
       /\ name # None
       /\ selected_field_name' = find_best_field_for_schema_name(name).display_name

RowMatched(r, name) ==
    /\ UNCHANGED <<schema, schema_editor_text>>
    /\ name \in {Rows[r].display_name, Rows[r].schema_name}
    /\ selected_field_name' = Rows[r].display_name
    /\ schema_match' = find_best_schema_name_match(schema_editor_text,
                                                   Rows[r].display_name, name)
    /\ schema_match_scroll_pending' = (schema_match' # None)
    /\ schema_cursor_name_highlight' = None

LEMMA MarkGestures ==
    ASSUME [Next]_vars
    PROVE  \/ MarksCleared \/ MarksKept
           \/ \E line : NameHighlighted(line)
           \/ \E r \in 1 .. Len(Rows) : \E name : RowMatched(r, name)
<1> USE DEF editor, complaint, marks, match, selection, filter, results, search
<1>1. \A category : set_schema_diagnostic(category) => MarksCleared
  BY DEF set_schema_diagnostic, clear_schema_match, clear_schema_cursor_name_highlight,
         MarksCleared
<1>2. \A table : commit_schema(table) => MarksCleared
  BY DEF commit_schema, clear_selected_field, clear_schema_match,
         clear_schema_cursor_name_highlight, MarksCleared
<1>3. \A text : SomeFailure(text) => MarksCleared
  BY <1>1 DEF SomeFailure
<1>4. CASE LoadSchema \/ reload_schema_from_disk \/ apply_schema_editor
  BY <1>1, <1>2, <1>3, <1>4 DEF LoadSchema, reload_schema_from_disk, apply_schema_editor
<1>5. CASE EditText \/ ClickOutside
  BY <1>5 DEF EditText, ClickOutside, clear_selected_field, clear_schema_match,
              clear_schema_cursor_name_highlight, MarksCleared
<1>6. CASE activate_schema_editor_cursor_line
  <2>1. MarksKept \/ \E line : NameHighlighted(line)
    BY <1>6 DEF activate_schema_editor_cursor_line, select_field_from_schema,
                clear_schema_match, clear_schema_cursor_name_highlight,
                MarksKept, NameHighlighted
  <2> QED
    BY <2>1
<1>7. CASE activate_runtime_diagnostic
  <2>1. PICK r \in 1 .. Len(Rows) :
           \/ /\ schema_match' = None /\ schema_match_scroll_pending' = FALSE
              /\ schema_cursor_name_highlight' = None
           \/ select_field_with_schema_name(Rows[r].display_name, Rows[r].display_name,
                                            Rows[r].offset, Rows[r].byte_len)
    BY <1>7 DEF activate_runtime_diagnostic, clear_schema_match,
                clear_schema_cursor_name_highlight
  <2>2. MarksCleared \/ RowMatched(r, Rows[r].display_name)
    BY <1>7, <2>1
       DEF activate_runtime_diagnostic, select_field_with_schema_name,
           clear_schema_cursor_name_highlight, MarksCleared, RowMatched
  <2> QED
    BY <2>2
<1>8. CASE ClickRow
  <2>1. PICK r \in 1 .. Len(Rows) :
           select_field_with_schema_name(Rows[r].display_name, Rows[r].schema_name,
                                         Rows[r].offset, Rows[r].byte_len)
    BY <1>8 DEF ClickRow
  <2>2. RowMatched(r, Rows[r].schema_name)
    BY <1>8, <2>1 DEF ClickRow, select_field_with_schema_name,
                      clear_schema_cursor_name_highlight, RowMatched
  <2> QED
    BY <2>2
<1>9. CASE activate_schema_diagnostic \/ ClickGroup \/ EditFilter \/ DrawFrame
  BY <1>9 DEF activate_schema_diagnostic, ClickGroup, EditFilter, DrawFrame, MarksKept
<1>10. CASE DismissError \/ GoToOffset \/ GoNowhere \/ PreviousPage \/ NextPage
            \/ EditQuery \/ find_search_matches
            \/ next_search_match \/ previous_search_match \/ clear_search
            \/ UNCHANGED vars
  BY <1>10 DEF DismissError, GoToOffset, GoNowhere, PreviousPage, NextPage, MoveTo,
               EditQuery, find_search_matches, next_search_match,
               previous_search_match, StepTo, clear_search, vars, MarksKept
<1> QED
  BY <1>4, <1>5, <1>6, <1>7, <1>8, <1>9, <1>10 DEF Next

(* The marks of the editor are about the text that is there now and the    *)
(* row that is selected now, whatever was edited, reloaded or selected.    *)
THEOREM MarksStayCurrent == Spec => []MarksAreCurrent
<1>1. Init => MarksAreCurrent
  BY DEF Init, MarksAreCurrent
<1>2. DocumentInv /\ MarksAreCurrent /\ [Next]_vars => MarksAreCurrent'
  <2> SUFFICES ASSUME DocumentInv, MarksAreCurrent, [Next]_vars
               PROVE  MarksAreCurrent'
    OBVIOUS
  <2>1. UNCHANGED schema => /\ Rows' = Rows
                            /\ \A name : find_best_field_for_schema_name(name)'
                                          = find_best_field_for_schema_name(name)
    BY DEF Rows, find_best_field_for_schema_name
  <2>2. CASE MarksCleared
    BY <2>2 DEF MarksCleared, MarksAreCurrent
  <2>3. CASE MarksKept
    BY <2>1, <2>3 DEF MarksKept, MarksAreCurrent, Named
  <2>4. ASSUME NEW line, NameHighlighted(line)
        PROVE  MarksAreCurrent'
    BY <2>1, <2>4 DEF NameHighlighted, MarksAreCurrent
  <2>5. ASSUME NEW r \in 1 .. Len(Rows), NEW name, RowMatched(r, name)
        PROVE  MarksAreCurrent'
    <3>1. Rows' = Rows /\ schema_editor_text' = schema_editor_text
      BY <2>1, <2>5 DEF RowMatched
    <3>2. Rows[r].display_name # None
      BY RowsAreRows, NoneAssumption DEF DocumentInv, EditorInv, Row
    <3>3. name \in {selected_field_name'}
                   \cup {Rows'[q].schema_name : q \in Named(selected_field_name)'}
      BY <2>5, <3>1 DEF RowMatched, Named
    <3>4. selected_field_name' # None /\ schema_cursor_name_highlight' = None
      BY <2>5, <3>2 DEF RowMatched
    <3>5. schema_match' = find_best_schema_name_match(schema_editor_text',
                                                     selected_field_name', name)
      BY <2>5, <3>1 DEF RowMatched
    <3>6. schema_match_scroll_pending' => schema_match' # None
      BY <2>5 DEF RowMatched
    <3> QED
      BY <3>3, <3>4, <3>5, <3>6 DEF MarksAreCurrent
  <2> QED
    BY <2>2, <2>3, <2>4, <2>5, MarkGestures
<1> QED
  BY <1>1, <1>2, DocumentAlways, PTL DEF Spec

-----------------------------------------------------------------------------
(* The hex page *)

(* The page that is shown lies in the file, and is as long as it can be.   *)
LEMMA PageIsInFile ==
    ASSUME OnAPage
    PROVE  /\ hex_start_offset \in Nat /\ to_show \in Nat /\ Size \in Nat
           /\ visible_end = hex_start_offset + to_show /\ visible_end <= Size
           /\ to_show = Least(Size, Page)
           /\ to_show = 0 <=> Size = 0
<1>1. Size \in Nat /\ Page \in Nat \ {0}
  BY DocumentAssumption
<1> QED
  BY <1>1 DEF OnAPage, MaxStart, to_show, visible_end, Least, Monus

LEMMA PagesAreFull ==
    ASSUME OnAPage
    PROVE  PageIsFull
<1>1. hex_view = "File is empty" <=> to_show = 0
  BY DEF hex_view
<1>2. BufferLen >= Size => hex_view # "Failed to read"
  BY PageIsInFile, ViewAssumption DEF hex_view, visible_end
<1> QED
  BY <1>1, <1>2, PageIsInFile DEF PageIsFull

(* A multiple of p is p times its quotient.                                *)
LEMMA Quotients ==
    ASSUME NEW p \in Nat \ {0}, NEW b \in Nat
    PROVE  /\ b % p \in 0 .. (p - 1) /\ b \div p \in Nat
           /\ b = p * (b \div p) + (b % p)
           /\ (p * b) % p = 0
           /\ b % p = 0 => b = p * (b \div p)
OBVIOUS

LEMMA MultiplesApart ==
    ASSUME NEW p \in Nat \ {0}, NEW i \in Nat, NEW j \in Nat,
           p * i < p * j + p, p * j < p * i + p
    PROVE  i = j
OBVIOUS

(* Each of n bytes is in exactly one row of p, the last row cut off at n.  *)
LEMMA RowOfByte ==
    ASSUME NEW n \in Nat, NEW p \in Nat \ {0}, NEW b \in 0 .. (n - 1)
    PROVE  \E s \in {t \in 0 .. (n - 1) : t % p = 0} :
              /\ s <= b /\ b < Least(s + p, n)
              /\ \A t \in 0 .. (n - 1) :
                    t % p = 0 /\ t <= b /\ b < Least(t + p, n) => t = s
<1>1. b \in Nat /\ b < n
  OBVIOUS
<1>2. PICK q \in Nat : b = p * q + (b % p)
  BY <1>1, Quotients
<1>3. b % p \in 0 .. (p - 1)
  BY <1>1, Quotients
<1>4. PICK s \in Nat : s = p * q
  BY <1>2
<1>5. s % p = 0
  BY <1>4, Quotients
<1>6. s <= b /\ b < s + p
  BY <1>1, <1>2, <1>3, <1>4
<1>7. ASSUME NEW t \in 0 .. (n - 1), t % p = 0, t <= b, b < t + p
      PROVE  t = s
  <2>1. t \in Nat /\ t % p = 0
    BY <1>7
  <2>2. t \div p \in Nat /\ t = p * (t \div p)
    BY <2>1, Quotients
  <2>3. PICK r \in Nat : t = p * r
    BY <2>2
  <2>4. p * r < p * q + p /\ p * q < p * r + p
    BY <1>1, <1>4, <1>6, <1>7, <2>3
  <2> QED
    BY <1>4, <2>3, <2>4, MultiplesApart
<1>8. s \in {t \in 0 .. (n - 1) : t % p = 0} /\ b < Least(s + p, n)
  BY <1>1, <1>5, <1>6 DEF Least
<1>9. \A t \in 0 .. (n - 1) : b < Least(t + p, n) => b < t + p
  BY DEF Least
<1> QED
  BY <1>6, <1>7, <1>8, <1>9

LEMMA RowsPartition ==
    ASSUME OnAPage, NEW per_row \in BytesPerRow,
           NEW b \in hex_start_offset .. (visible_end - 1)
    PROVE  Cardinality({row \in hex_rows(per_row) : row.first <= b /\ b < row.end}) = 1
<1> DEFINE n == to_show
           c == b - hex_start_offset
           over == {row \in hex_rows(per_row) : row.first <= b /\ b < row.end}
           starts == {s \in 0 .. (n - 1) : s % per_row = 0}
           at(s) == [first |-> hex_start_offset + s,
                     end |-> hex_start_offset + Least(s + per_row, n)]
<1>1. /\ n \in Nat /\ per_row \in Nat \ {0} /\ c \in 0 .. (n - 1)
      /\ hex_start_offset \in Nat /\ b = hex_start_offset + c
  BY PageIsInFile, ViewAssumption
<1>2. hex_rows(per_row) = {at(s) : s \in starts}
  BY DEF hex_rows
<1> HIDE DEF n, c
<1>3. PICK s \in starts :
         /\ s <= c /\ c < Least(s + per_row, n)
         /\ \A t \in 0 .. (n - 1) :
               t % per_row = 0 /\ t <= c /\ c < Least(t + per_row, n) => t = s
  BY <1>1, RowOfByte
<1>4. \A t \in starts : Least(t + per_row, n) \in Nat
  BY <1>1 DEF Least
<1>5. ASSUME NEW t \in starts
      PROVE  (at(t).first <= b /\ b < at(t).end) <=> (t <= c /\ c < Least(t + per_row, n))
  <2>1. t \in Nat /\ Least(t + per_row, n) \in Nat
    BY <1>4
  <2>2. /\ at(t).first = hex_start_offset + t
        /\ at(t).end = hex_start_offset + Least(t + per_row, n)
    OBVIOUS
  <2> HIDE DEF at
  <2> QED
    BY <1>1, <2>1, <2>2
<1>6. at(s) \in over
  BY <1>2, <1>3, <1>5
<1>7. \A row \in over : row = at(s)
  BY <1>2, <1>3, <1>5
<1>8. over = {at(s)}
  BY <1>6, <1>7
<1> QED
  BY <1>8, FS_Singleton

(* The matches are positions in ascending order, and the current one is    *)
(* one of them.                                                            *)
MatchesInOrder ==
    /\ search_matches \in Seq(Nat)
    /\ \A i, j \in 1 .. Len(search_matches) : i < j => search_matches[i] < search_matches[j]
    /\ active_search_pattern_len \in Nat
    /\ current_search_match # None =>
          /\ current_search_match \in Nat
          /\ current_search_match + 1 \in 1 .. Len(search_matches)

LEMMA SearchInOrder ==
    ASSUME SearchInv, ResultTypes
    PROVE  MatchesInOrder
<1>1. CASE active_search_query = Empty
  <2>1. search_matches = << >> /\ current_search_match = None
    BY <1>1 DEF SearchInv, SearchIsCoherent
  <2> QED
    BY <2>1 DEF MatchesInOrder, ResultTypes
<1>2. CASE active_search_query # Empty
  <2>1. PICK m \in SearchModes :
           /\ Answers[m][active_search_query].kind = "found"
           /\ search_matches = Answers[m][active_search_query].hits
    BY <1>2 DEF SearchInv, SearchIsCoherent
  <2>2. search_matches \in Seq(Nat) /\ Len(search_matches) \in Nat
    BY <2>1, FoundHits DEF SearchInv
  <2>3. \A i, j \in 1 .. Len(search_matches) : i < j => search_matches[i] < search_matches[j]
    BY <2>1, DocumentAssumption DEF SearchInv
  <2>4. search_matches = << >> => current_search_match = None
    BY <1>2 DEF SearchInv, SearchIsCoherent
  <2>5. search_matches # << >> =>
           current_search_match \in 0 .. (Len(search_matches) - 1)
    BY <1>2 DEF SearchInv, SearchIsCoherent
  <2> QED
    BY <2>2, <2>3, <2>4, <2>5 DEF MatchesInOrder, ResultTypes
<1> QED
  BY <1>1, <1>2

(* The bytes of a match.                                                   *)
Covers(i, b) ==
    search_matches[i] <= b /\ b < search_matches[i] + active_search_pattern_len

VisibleRanges ==
    Hex!visible_search_ranges(search_matches, active_search_pattern_len,
                              hex_start_offset, visible_end)

(* Although the loop stops at the first match that begins after the page,  *)
(* the visible ranges are those of every match that has bytes on it.       *)
LEMMA RangesAreMatches ==
    ASSUME OnAPage, MatchesInOrder, NEW b \in hex_start_offset .. (visible_end - 1)
    PROVE  /\ \A r \in VisibleRanges :
                 r.first <= b /\ b < r.end =>
                    r.index \in 1 .. Len(search_matches) /\ Covers(r.index, b)
           /\ \A i \in 1 .. Len(search_matches) :
                 Covers(i, b) => \E r \in VisibleRanges :
                                    r.index = i /\ r.first <= b /\ b < r.end
<1> DEFINE M == search_matches
           len == active_search_pattern_len
           from == hex_start_offset
           to == visible_end
           beyond == {i \in 1 .. Len(M) : M[i] >= to /\ M[i] + len > from}
           examined == {i \in 1 .. Len(M) : \A j \in beyond : i < j}
           shown == {i \in examined : len > 0 /\ M[i] + len > from}
           range(i) == [index |-> i,
                        first |-> IF M[i] > from THEN M[i] ELSE from,
                        end |-> IF M[i] + len < to THEN M[i] + len ELSE to]
<1>1. VisibleRanges = {range(i) : i \in shown}
  BY DEF VisibleRanges, Hex!visible_search_ranges
<1>2. from \in Nat /\ to \in Nat /\ from <= b /\ b < to /\ b \in Nat /\ len \in Nat
  BY PageIsInFile DEF MatchesInOrder
<1>3. \A i \in 1 .. Len(M) : M[i] \in Nat
  BY DEF MatchesInOrder
<1>4. \A i \in 1 .. Len(M) : /\ range(i).index = i
                             /\ range(i).first = IF M[i] > from THEN M[i] ELSE from
                             /\ range(i).end = IF M[i] + len < to THEN M[i] + len ELSE to
  OBVIOUS
<1>5. \A i \in 1 .. Len(M) :
         Covers(i, b) <=> (M[i] <= b /\ b < M[i] + len)
  BY DEF Covers
<1> HIDE DEF range, M, len, from, to
<1>6. \A i \in 1 .. Len(M) : range(i).first <= b /\ b < range(i).end <=> Covers(i, b)
  BY <1>2, <1>3, <1>4, <1>5
<1>7. ASSUME NEW i \in 1 .. Len(M), Covers(i, b)
      PROVE  i \in shown
  <2>1. M[i] <= b /\ b < M[i] + len /\ M[i] \in Nat
    BY <1>3, <1>5, <1>7
  <2>2. len > 0 /\ M[i] + len > from
    BY <1>2, <2>1
  <2>3. ASSUME NEW j \in beyond
        PROVE  i < j
    <3>1. j \in 1 .. Len(M) /\ M[j] >= to /\ M[j] \in Nat
      BY <1>3
    <3>2. M[i] < M[j]
      BY <1>2, <2>1, <3>1
    <3>3. j < i => M[j] < M[i]
      BY <3>1 DEF M, MatchesInOrder
    <3>4. Len(M) \in Nat
      BY DEF M, MatchesInOrder
    <3> QED
      BY <2>1, <3>1, <3>2, <3>3, <3>4
  <2> QED
    BY <2>2, <2>3
<1>8. \A r \in VisibleRanges : \E i \in 1 .. Len(M) : r = range(i)
  BY <1>1
<1>9. \A r \in VisibleRanges :
         r.first <= b /\ b < r.end => r.index \in 1 .. Len(M) /\ Covers(r.index, b)
  BY <1>4, <1>6, <1>8
<1>10. \A i \in 1 .. Len(M) :
          Covers(i, b) => \E r \in VisibleRanges : r.index = i /\ r.first <= b /\ b < r.end
  BY <1>1, <1>4, <1>6, <1>7
<1> QED
  BY <1>9, <1>10 DEF M

(* How a byte of the page is painted, in terms of the matches alone.       *)
LEMMA PaintedAs ==
    ASSUME OnAPage, MatchesInOrder, NEW b \in hex_start_offset .. (visible_end - 1)
    PROVE  LET active == \E i \in 1 .. Len(search_matches) :
                            i - 1 = current_search_match /\ Covers(i, b)
               other == \E i \in 1 .. Len(search_matches) :
                           i - 1 # current_search_match /\ Covers(i, b)
           IN painted(b) = IF active THEN "active"
                           ELSE IF b \in selected_visible_range THEN "selected"
                           ELSE IF other THEN "match"
                           ELSE "plain"
<1> DEFINE over == {r \in VisibleRanges : r.first <= b /\ b < r.end}
           active == {r \in over : r.index - 1 = current_search_match}
<1>1. painted(b) = IF active # {} THEN "active"
                   ELSE IF b \in selected_visible_range THEN "selected"
                   ELSE IF over \ active # {} THEN "match"
                   ELSE "plain"
  BY DEF painted, VisibleRanges
<1>2. active # {} <=> \E i \in 1 .. Len(search_matches) :
                         i - 1 = current_search_match /\ Covers(i, b)
  BY RangesAreMatches
<1>3. over \ active # {} <=> \E i \in 1 .. Len(search_matches) :
                                i - 1 # current_search_match /\ Covers(i, b)
  BY RangesAreMatches
<1> HIDE DEF active, over
<1> QED
  BY <1>1, <1>2, <1>3

(* The current match is the one whose number follows current_search_match. *)
LEMMA CurrentCovers ==
    ASSUME MatchesInOrder, NEW b \in Nat
    PROVE  (\E i \in 1 .. Len(search_matches) :
               i - 1 = current_search_match /\ Covers(i, b))
           <=> (current_search_match # None /\ Covers(current_search_match + 1, b))
<1>1. None \notin Nat
  BY NoneAssumption
<1>2. \A i \in 1 .. Len(search_matches) : i - 1 \in Nat /\ (i - 1) + 1 = i
  BY DEF MatchesInOrder
<1>3. current_search_match # None =>
         /\ current_search_match \in Nat
         /\ current_search_match + 1 \in 1 .. Len(search_matches)
         /\ (current_search_match + 1) - 1 = current_search_match
  BY DEF MatchesInOrder
<1> HIDE DEF Covers
<1> QED
  BY <1>1, <1>2, <1>3

LEMMA PaintIsAsTold ==
    ASSUME OnAPage, MatchesInOrder
    PROVE  PaintIsRight
<1> DEFINE covers(m) == {b \in 0 .. (Size - 1) :
                           m <= b /\ b < m + active_search_pattern_len}
           rest == {j \in 1 .. Len(search_matches) : j - 1 # current_search_match}
           others == UNION {covers(search_matches[i]) : i \in rest}
           current == IF current_search_match = None THEN {}
                      ELSE covers(search_matches[current_search_match + 1])
<1>1. ASSUME NEW b \in hex_start_offset .. (visible_end - 1)
      PROVE  /\ painted(b) = "active" <=> b \in current
             /\ painted(b) = "selected" <=> b \in selected_visible_range \ current
             /\ painted(b) = "match" <=> b \in others \ (current \cup selected_visible_range)
  <2>1. b \in 0 .. (Size - 1) /\ b \in Nat
    BY PageIsInFile
  <2>2. \A i : b \in covers(search_matches[i]) <=> Covers(i, b)
    BY <2>1 DEF Covers
  <2>3. b \in current <=> current_search_match # None /\ Covers(current_search_match + 1, b)
    BY <2>2
  <2>4. b \in others <=> \E i \in 1 .. Len(search_matches) :
                            i - 1 # current_search_match /\ Covers(i, b)
    BY <2>2
  <2>5. b \in current <=> \E i \in 1 .. Len(search_matches) :
                             i - 1 = current_search_match /\ Covers(i, b)
    BY <2>1, <2>3, CurrentCovers
  <2> HIDE DEF current, others
  <2> QED
    BY <2>4, <2>5, PaintedAs
<1> QED
  BY <1>1, RowsPartition DEF PaintIsRight

LEMMA StatusIsAsTold ==
    ASSUME OnAPage, SearchInv, MatchesInOrder
    PROVE  StatusIsTrue
<1> SUFFICES ASSUME search_status # None
             PROVE  StatusIsTrue
  BY DEF StatusIsTrue
<1>1. active_search_query # Empty
  BY DEF search_status
<1>2. Len(search_matches) \in Nat /\ search_matches \in Seq(Nat)
  BY DEF MatchesInOrder
<1>3. CASE search_matches = << >>
  <2>1. search_status = << 0, 0 >>
    BY <1>1, <1>3 DEF search_status
  <2>2. \A b \in hex_start_offset .. (visible_end - 1) : painted(b) \notin {"active", "match"}
    BY <1>3, PaintedAs
  <2> QED
    BY <2>1, <2>2 DEF StatusIsTrue
<1>4. CASE search_matches # << >>
  <2>1. current_search_match # None
    BY <1>1, <1>4, NoneAssumption DEF SearchInv, SearchIsCoherent
  <2> DEFINE k == current_search_match + 1
             n == Len(search_matches)
  <2>2. search_status = << k, n >>
    BY <1>1, <1>4, <2>1 DEF search_status
  <2>3. k \in 1 .. n /\ n # 0
    BY <1>2, <1>4, <2>1 DEF MatchesInOrder
  <2>4. ASSUME NEW b \in hex_start_offset .. (visible_end - 1), Covers(k, b)
        PROVE  painted(b) = "active"
    <3>1. b \in Nat
      BY PageIsInFile
    <3>2. \E i \in 1 .. Len(search_matches) :
             i - 1 = current_search_match /\ Covers(i, b)
      BY <2>1, <2>4, <3>1, CurrentCovers
    <3> QED
      BY <3>2, PaintedAs
  <2> HIDE DEF k, n
  <2> QED
    BY <2>2, <2>3, <2>4 DEF StatusIsTrue, Covers
<1> QED
  BY <1>3, <1>4

(* The page is full, each byte is in one row of it at any width and        *)
(* painted for what it belongs to, and the status of the search says the   *)
(* same as the paint, for every file, page, pattern and list of matches.   *)
THEOREM PagesAreRight == Spec => []PageIsRight
<1>1. DocumentInv => PageIsRight
  BY ResultsAreTyped, SearchInOrder, PagesAreFull, PaintIsAsTold, StatusIsAsTold
     DEF DocumentInv, PageIsRight
<1> QED
  BY <1>1, DocumentAlways, PTL

-----------------------------------------------------------------------------
(* Flattened sequences *)

LEMMA NatLeast ==
    ASSUME NEW T, T \subseteq Nat, 0 \notin T,
           \A m \in Nat : m + 1 \in T => m \in T
    PROVE  T = {}
<1> SUFFICES ASSUME T # {} PROVE FALSE
  OBVIOUS
<1>1. PICK m \in T : \A t \in T : m <= t
  BY LeastOfNaturals
<1>2. m - 1 \in Nat /\ (m - 1) + 1 = m
  BY <1>1
<1> QED BY <1>1, <1>2

(* f solves the equation of Flattened up to n.                             *)
IsFlattening(f, parts, n) ==
    f = [k \in 0 .. n |-> IF k = 0 THEN << >> ELSE f[k - 1] \o parts[k]]

LEMMA FlatteningIsDefined ==
    ASSUME NEW parts PROVE \A n \in Nat : \E f : IsFlattening(f, parts, n)
<1> DEFINE T == {n \in Nat : ~ \E f : IsFlattening(f, parts, n)}
<1>1. 0 \notin T
  <2>1. IsFlattening([k \in 0 .. 0 |-> << >>], parts, 0)
    BY DEF IsFlattening
  <2> QED BY <2>1
<1>2. ASSUME NEW m \in Nat, m \notin T PROVE m + 1 \notin T
  <2>1. PICK f : IsFlattening(f, parts, m)
    BY <1>2
  <2> DEFINE g == [k \in 0 .. (m + 1) |->
                     IF k = m + 1 THEN f[m] \o parts[m + 1] ELSE f[k]]
  <2>2. \A k \in 0 .. m : f[k] = IF k = 0 THEN << >> ELSE f[k - 1] \o parts[k]
    BY <2>1 DEF IsFlattening
  <2>3. ASSUME NEW k \in 0 .. (m + 1)
        PROVE g[k] = IF k = 0 THEN << >> ELSE g[k - 1] \o parts[k]
    <3>1. CASE k = 0
      BY <2>2, <3>1
    <3>2. CASE k # 0
      <4>1. k - 1 \in 0 .. (m + 1) /\ k - 1 # m + 1
        BY <3>2
      <4>2. g[k - 1] = f[k - 1]
        BY <4>1
      <4>3. k = m + 1 => g[k] = f[m] \o parts[m + 1]
        BY Zenon
      <4>5. k = m + 1 => k - 1 = m
        OBVIOUS
      <4>4. k # m + 1 => k \in 0 .. m /\ g[k] = f[k]
        OBVIOUS
      <4> HIDE DEF g
      <4> QED BY <2>2, <3>2, <4>2, <4>3, <4>4, <4>5, Zenon
    <3> QED BY <3>1, <3>2
  <2>4. IsFlattening(g, parts, m + 1)
    <3>1. g = [k \in 0 .. (m + 1) |-> g[k]]
      OBVIOUS
    <3> HIDE DEF g
    <3> QED BY <2>3, <3>1, Zenon DEF IsFlattening
  <2> QED BY <2>4
<1> HIDE DEF T
<1>3. T = {}
  BY <1>1, <1>2, NatLeast DEF T
<1> QED BY <1>3 DEF T

LEMMA FlatteningChosen ==
    ASSUME NEW parts, NEW n \in Nat
    PROVE  \E f : IsFlattening(f, parts, n) /\ Flattened(parts, n) = f[n]
<1> DEFINE upTo[k \in 0 .. n] == IF k = 0 THEN << >> ELSE upTo[k - 1] \o parts[k]
<1>1. Flattened(parts, n) = upTo[n]
  BY DEF Flattened
<1>2. upTo = CHOOSE f : IsFlattening(f, parts, n)
  BY DEF IsFlattening
<1> HIDE DEF upTo
<1>3. IsFlattening(upTo, parts, n)
  BY <1>2, FlatteningIsDefined
<1> QED BY <1>1, <1>3

LEMMA FlatteningsAgree ==
    ASSUME NEW parts, NEW n \in Nat, NEW m \in Nat, NEW f, NEW g,
           IsFlattening(f, parts, n), IsFlattening(g, parts, m),
           NEW d \in Nat, d <= n, d <= m
    PROVE  f[d] = g[d]
<1> DEFINE T == {k \in Nat : k <= d /\ f[k] # g[k]}
<1>1. \A k \in 0 .. n : f[k] = IF k = 0 THEN << >> ELSE f[k - 1] \o parts[k]
  BY DEF IsFlattening
<1>2. \A k \in 0 .. m : g[k] = IF k = 0 THEN << >> ELSE g[k - 1] \o parts[k]
  BY DEF IsFlattening
<1>3. 0 \notin T
  BY <1>1, <1>2
<1>4. ASSUME NEW k \in Nat, k \notin T PROVE k + 1 \notin T
  <2> SUFFICES ASSUME k + 1 <= d PROVE f[k + 1] = g[k + 1]
    OBVIOUS
  <2>1. f[k] = g[k]
    BY <1>4
  <2>2. /\ k + 1 \in 0 .. n /\ k + 1 \in 0 .. m
        /\ k + 1 # 0 /\ (k + 1) - 1 = k
    OBVIOUS
  <2>3. f[k + 1] = f[k] \o parts[k + 1]
    BY <1>1, <2>2, Zenon
  <2>4. g[k + 1] = g[k] \o parts[k + 1]
    BY <1>2, <2>2, Zenon
  <2> QED BY <2>1, <2>3, <2>4, Zenon
<1> HIDE DEF T
<1>5. T = {}
  BY <1>3, <1>4, NatLeast DEF T
<1> QED BY <1>5 DEF T

LEMMA FlattenedNone ==
    ASSUME NEW parts PROVE Flattened(parts, 0) = << >>
<1>1. PICK f : IsFlattening(f, parts, 0) /\ Flattened(parts, 0) = f[0]
  BY FlatteningChosen
<1>2. 0 \in 0 .. 0
  OBVIOUS
<1> QED BY <1>1, <1>2 DEF IsFlattening

LEMMA FlattenedNext ==
    ASSUME NEW parts, NEW n \in Nat
    PROVE  Flattened(parts, n + 1) = Flattened(parts, n) \o parts[n + 1]
<1>1. PICK f : IsFlattening(f, parts, n) /\ Flattened(parts, n) = f[n]
  BY FlatteningChosen
<1>2. PICK g : IsFlattening(g, parts, n + 1) /\ Flattened(parts, n + 1) = g[n + 1]
  BY FlatteningChosen
<1>3. f[n] = g[n]
  BY <1>1, <1>2, FlatteningsAgree
<1>4. g[n + 1] = g[n] \o parts[n + 1]
  <2>1. n + 1 \in 0 .. (n + 1) /\ n + 1 # 0 /\ (n + 1) - 1 = n
    OBVIOUS
  <2>2. \A k \in 0 .. (n + 1) : g[k] = IF k = 0 THEN << >> ELSE g[k - 1] \o parts[k]
    BY <1>2 DEF IsFlattening
  <2> QED BY <2>1, <2>2
<1> QED BY <1>1, <1>2, <1>3, <1>4

(* The first n of the parts are sequences over S.                          *)
ArePartsOf(parts, n, S) == n \in Nat /\ \A k \in 1 .. n : parts[k] \in Seq(S)

LEMMA FlattenedIsSeq ==
    ASSUME NEW parts, NEW S, NEW n \in Nat, ArePartsOf(parts, n, S)
    PROVE  \A m \in Nat : m <= n => Flattened(parts, m) \in Seq(S)
<1> DEFINE T == {m \in Nat : m <= n /\ Flattened(parts, m) \notin Seq(S)}
<1>1. 0 \notin T
  BY FlattenedNone, EmptySeq
<1>2. ASSUME NEW m \in Nat, m \notin T PROVE m + 1 \notin T
  <2> SUFFICES ASSUME m + 1 <= n PROVE Flattened(parts, m + 1) \in Seq(S)
    OBVIOUS
  <2>1. Flattened(parts, m) \in Seq(S) /\ parts[m + 1] \in Seq(S)
    BY <1>2 DEF ArePartsOf
  <2> HIDE DEF T
  <2> QED BY <2>1, FlattenedNext, ConcatProperties
<1> HIDE DEF T
<1>3. T = {}
  BY <1>1, <1>2, NatLeast DEF T
<1> QED BY <1>3 DEF T

(* Where the part i begins in the flattened sequence.                      *)
Begin(parts, i) == Len(Flattened(parts, i - 1))

LEMMA BeginsGrow ==
    ASSUME NEW parts, NEW S, NEW n \in Nat, ArePartsOf(parts, n, S),
           NEW i \in Nat
    PROVE  \A j \in Nat : i <= j /\ j <= n =>
              Len(Flattened(parts, i)) <= Len(Flattened(parts, j))
<1> DEFINE T == {j \in Nat : i <= j /\ j <= n /\
                    ~(Len(Flattened(parts, i)) <= Len(Flattened(parts, j)))}
<1>0. \A m \in Nat : m <= n => Len(Flattened(parts, m)) \in Nat
  BY FlattenedIsSeq, LenProperties
<1>1. 0 \notin T
  BY <1>0
<1>2. ASSUME NEW j \in Nat, j \notin T PROVE j + 1 \notin T
  <2> SUFFICES ASSUME j + 1 <= n, i <= j
               PROVE  Len(Flattened(parts, i)) <= Len(Flattened(parts, j + 1))
    BY <1>0
  <2>1. Len(Flattened(parts, i)) <= Len(Flattened(parts, j))
    BY <1>2
  <2>2. Flattened(parts, j) \in Seq(S) /\ parts[j + 1] \in Seq(S)
    BY FlattenedIsSeq DEF ArePartsOf
  <2>3. Len(Flattened(parts, j + 1)) = Len(Flattened(parts, j)) + Len(parts[j + 1])
    BY <2>2, FlattenedNext, ConcatProperties
  <2> QED BY <1>0, <2>1, <2>2, <2>3, LenProperties
<1> HIDE DEF T
<1>3. T = {}
  BY <1>1, <1>2, NatLeast DEF T
<1> QED BY <1>3 DEF T

(* What stands where in a flattened sequence.                              *)
LEMMA FlattenedHas ==
    ASSUME NEW parts, NEW S, NEW n \in Nat, ArePartsOf(parts, n, S)
    PROVE  \A m \in Nat : m <= n =>
              /\ \A i \in 1 .. m : \A k \in 1 .. Len(parts[i]) :
                    /\ Begin(parts, i) + k \in 1 .. Len(Flattened(parts, m))
                    /\ Flattened(parts, m)[Begin(parts, i) + k] = parts[i][k]
              /\ \A p \in 1 .. Len(Flattened(parts, m)) :
                    \E i \in 1 .. m : \E k \in 1 .. Len(parts[i]) :
                       p = Begin(parts, i) + k
<1> DEFINE Found(m) ==
             \A i \in 1 .. m : \A k \in 1 .. Len(parts[i]) :
                /\ Begin(parts, i) + k \in 1 .. Len(Flattened(parts, m))
                /\ Flattened(parts, m)[Begin(parts, i) + k] = parts[i][k]
           Filled(m) ==
             \A p \in 1 .. Len(Flattened(parts, m)) :
                \E i \in 1 .. m : \E k \in 1 .. Len(parts[i]) :
                   p = Begin(parts, i) + k
           T == {m \in Nat : m <= n /\ ~(Found(m) /\ Filled(m))}
<1>1. 0 \notin T
  <2>1. Len(Flattened(parts, 0)) = 0
    BY FlattenedNone
  <2> QED BY <2>1
<1>2. ASSUME NEW m \in Nat, m \notin T PROVE m + 1 \notin T
  <2> SUFFICES ASSUME m + 1 <= n PROVE Found(m + 1) /\ Filled(m + 1)
    OBVIOUS
  <2>1. Found(m) /\ Filled(m)
    BY <1>2
  <2> DEFINE s == Flattened(parts, m)
             t == parts[m + 1]
  <2>2. s \in Seq(S) /\ t \in Seq(S) /\ Len(s) \in Nat /\ Len(t) \in Nat
    BY FlattenedIsSeq, LenProperties DEF ArePartsOf
  <2>3. Flattened(parts, m + 1) = s \o t
    BY FlattenedNext
  <2>4. /\ Len(s \o t) = Len(s) + Len(t)
        /\ \A p \in 1 .. Len(s) + Len(t) :
              (s \o t)[p] = IF p <= Len(s) THEN s[p] ELSE t[p - Len(s)]
    BY <2>2, ConcatProperties
  <2>5. (m + 1) - 1 = m
    OBVIOUS
  <2>6. Begin(parts, m + 1) = Len(s)
    BY <2>5 DEF Begin
  <2>7. \A i \in 1 .. (m + 1) : i \in 1 .. m \/ i = m + 1
    OBVIOUS
  <2>8. ASSUME NEW i \in 1 .. (m + 1), NEW k \in 1 .. Len(parts[i])
        PROVE  /\ Begin(parts, i) + k \in 1 .. Len(s \o t)
               /\ (s \o t)[Begin(parts, i) + k] = parts[i][k]
    <3>1. CASE i \in 1 .. m
      <4>1. Begin(parts, i) + k \in 1 .. Len(s) /\ s[Begin(parts, i) + k] = parts[i][k]
        BY <2>1, <3>1
      <4> HIDE DEF s, t, T
      <4> QED BY <2>2, <2>4, <4>1
    <3>2. CASE i = m + 1
      <4>1. k \in 1 .. Len(t) /\ Begin(parts, i) = Len(s) /\ parts[i] = t
        BY <2>6, <3>2
      <4> HIDE DEF s, t, T
      <4> QED BY <2>2, <2>4, <4>1
    <3> QED BY <2>7, <3>1, <3>2
  <2>9. ASSUME NEW p \in 1 .. Len(s \o t)
        PROVE  \E i \in 1 .. (m + 1) : \E k \in 1 .. Len(parts[i]) :
                  p = Begin(parts, i) + k
    <3>1. CASE p <= Len(s)
      <4>1. p \in 1 .. Len(s)
        BY <2>2, <2>4, <3>1
      <4>2. PICK i \in 1 .. m : \E k \in 1 .. Len(parts[i]) : p = Begin(parts, i) + k
        BY <2>1, <4>1
      <4> QED BY <4>2
    <3>2. CASE p > Len(s)
      <4>1. p - Len(s) \in 1 .. Len(t) /\ p = Len(s) + (p - Len(s))
        BY <2>2, <2>4, <3>2
      <4>2. m + 1 \in 1 .. (m + 1)
        OBVIOUS
      <4> QED BY <2>6, <4>1, <4>2
    <3> QED BY <2>2, <2>4, <3>1, <3>2
  <2> QED BY <2>3, <2>8, <2>9
<1> HIDE DEF T
<1>3. T = {}
  BY <1>1, <1>2, NatLeast DEF T
<1> QED BY <1>3 DEF T

(* The parts keep their order: what belongs to an earlier part comes first. *)
LEMMA FlattenedInOrder ==
    ASSUME NEW parts, NEW S, NEW n \in Nat, ArePartsOf(parts, n, S),
           NEW i \in 1 .. n, NEW j \in 1 .. n,
           NEW k \in 1 .. Len(parts[i]), NEW l \in 1 .. Len(parts[j])
    PROVE  /\ Begin(parts, i) + k < Begin(parts, j) + l => i <= j
           /\ Begin(parts, i) + k = Begin(parts, j) + l => i = j /\ k = l
           /\ i < j => Begin(parts, i) + k < Begin(parts, j) + l
           /\ Begin(parts, i) \in Nat
<1>1. ASSUME NEW a \in 1 .. n, NEW b \in 1 .. n, a < b,
             NEW c \in 1 .. Len(parts[a]), NEW d \in 1 .. Len(parts[b])
      PROVE  Begin(parts, a) + c < Begin(parts, b) + d
  <2>2. a - 1 \in Nat /\ (a - 1) + 1 = a /\ a - 1 <= n
    OBVIOUS
  <2>1. Flattened(parts, a - 1) \in Seq(S) /\ parts[a] \in Seq(S)
    BY <2>2, FlattenedIsSeq DEF ArePartsOf
  <2>3. Flattened(parts, a) = Flattened(parts, a - 1) \o parts[a]
    BY <2>2, FlattenedNext
  <2>4. Len(Flattened(parts, a)) = Begin(parts, a) + Len(parts[a])
    BY <2>1, <2>3, ConcatProperties DEF Begin
  <2>5. Len(Flattened(parts, a)) <= Begin(parts, b)
    <3>1. b - 1 \in Nat /\ a <= b - 1 /\ b - 1 <= n /\ a \in Nat
      BY <1>1
    <3> QED BY <3>1, BeginsGrow DEF Begin
  <2>6. Begin(parts, a) \in Nat /\ Begin(parts, b) \in Nat /\ Len(parts[a]) \in Nat
    <3>1. b - 1 \in Nat /\ b - 1 <= n
      OBVIOUS
    <3> QED BY <2>1, <3>1, FlattenedIsSeq, LenProperties DEF Begin
  <2>7. c \in Nat /\ c <= Len(parts[a]) /\ d \in Nat /\ d > 0
    BY <2>6
  <2> QED BY <2>4, <2>5, <2>6, <2>7
<1>2. Begin(parts, i) \in Nat /\ Begin(parts, j) \in Nat
  <2>1. i - 1 \in Nat /\ i - 1 <= n /\ j - 1 \in Nat /\ j - 1 <= n
    OBVIOUS
  <2> QED BY <2>1, FlattenedIsSeq, LenProperties DEF Begin
<1>3. i < j => Begin(parts, i) + k < Begin(parts, j) + l
  BY <1>1
<1>4. j < i => Begin(parts, j) + l < Begin(parts, i) + k
  BY <1>1
<1>5. k \in Nat /\ l \in Nat
  OBVIOUS
<1>6. i = j \/ i < j \/ j < i
  OBVIOUS
<1> QED BY <1>2, <1>3, <1>4, <1>5, <1>6

-----------------------------------------------------------------------------
(* The items of the table *)

Group(r) == split_field_group(Rows[r].display_name)
Matching(r) == field_matches_filter(Rows[r])

Added(items, r) == IF Matching(r) THEN AddRow(items, r) ELSE items

(* f solves the equation of filtered_field_items up to n.                  *)
IsGrouping(f, n) ==
    f = [k \in 0 .. n |-> IF k = 0 THEN << >> ELSE Added(f[k - 1], k)]

LEMMA GroupingIsDefined ==
    \A n \in Nat : \E f : IsGrouping(f, n)
<1> DEFINE T == {n \in Nat : ~ \E f : IsGrouping(f, n)}
<1>1. 0 \notin T
  <2>1. IsGrouping([k \in 0 .. 0 |-> << >>], 0)
    BY DEF IsGrouping
  <2> QED BY <2>1
<1>2. ASSUME NEW m \in Nat, m \notin T PROVE m + 1 \notin T
  <2>1. PICK f : IsGrouping(f, m)
    BY <1>2
  <2> DEFINE g == [k \in 0 .. (m + 1) |-> IF k = m + 1 THEN Added(f[m], m + 1) ELSE f[k]]
  <2>2. \A k \in 0 .. m : f[k] = IF k = 0 THEN << >> ELSE Added(f[k - 1], k)
    BY <2>1 DEF IsGrouping
  <2>3. ASSUME NEW k \in 0 .. (m + 1)
        PROVE g[k] = IF k = 0 THEN << >> ELSE Added(g[k - 1], k)
    <3>1. CASE k = 0
      BY <2>2, <3>1
    <3>2. CASE k # 0
      <4>1. k - 1 \in 0 .. (m + 1) /\ g[k - 1] = f[k - 1]
        BY <3>2
      <4> QED BY <2>2, <3>2, <4>1
    <3> QED BY <3>1, <3>2
  <2>4. IsGrouping(g, m + 1)
    <3>1. g = [k \in 0 .. (m + 1) |-> g[k]]
      OBVIOUS
    <3> HIDE DEF g
    <3> QED BY <2>3, <3>1, Zenon DEF IsGrouping
  <2> QED BY <2>4
<1> HIDE DEF T
<1>3. T = {}
  BY <1>1, <1>2, NatLeast DEF T
<1> QED BY <1>3 DEF T

LEMMA GroupingChosen ==
    ASSUME Len(Rows) \in Nat
    PROVE  \E f : IsGrouping(f, Len(Rows)) /\ filtered_field_items = f[Len(Rows)]
<1> DEFINE after[n \in 0 .. Len(Rows)] ==
             IF n = 0 THEN << >>
             ELSE IF field_matches_filter(Rows[n]) THEN AddRow(after[n - 1], n)
             ELSE after[n - 1]
<1>1. filtered_field_items = after[Len(Rows)]
  BY DEF filtered_field_items
<1>2. after = CHOOSE f : IsGrouping(f, Len(Rows))
  BY DEF IsGrouping, Added, Matching
<1> HIDE DEF after
<1>3. IsGrouping(after, Len(Rows))
  BY <1>2, GroupingIsDefined
<1> QED BY <1>1, <1>3

Item == [group : Option(Name), rows : Seq(Nat)]

(* The rows of an item are among the first n of the table, pass the filter *)
(* and have the group of the item; without a group there is one row.       *)
IsItem(item, n) ==
    /\ item.rows # << >>
    /\ \A k \in 1 .. Len(item.rows) :
          /\ item.rows[k] \in 1 .. n
          /\ Matching(item.rows[k]) /\ Group(item.rows[k]) = item.group
    /\ \A k, l \in 1 .. Len(item.rows) : k < l => item.rows[k] < item.rows[l]
    /\ item.group = None => Len(item.rows) = 1

(* Every one of the first n rows that passes the filter is in an item, and *)
(* no two items are of one group; items without one are in table order.    *)
ItemsInv(items, n) ==
    /\ items \in Seq(Item)
    /\ \A i \in 1 .. Len(items) : IsItem(items[i], n)
    /\ \A i, j \in 1 .. Len(items) :
          i < j /\ items[i].group = items[j].group =>
             items[i].group = None /\ items[i].rows[1] < items[j].rows[1]
    /\ \A r \in 1 .. n :
          Matching(r) => \E i \in 1 .. Len(items) :
                            \E k \in 1 .. Len(items[i].rows) : items[i].rows[k] = r

LEMMA ItemsOfNone == ItemsInv(<< >>, 0)
BY DEF ItemsInv

LEMMA ItemsSkipRow ==
    ASSUME NEW items, NEW n \in Nat, ItemsInv(items, n), ~Matching(n + 1)
    PROVE  ItemsInv(items, n + 1)
<1>1. \A i \in 1 .. Len(items) : IsItem(items[i], n + 1)
  BY DEF ItemsInv, IsItem
<1>2. \A r \in 1 .. (n + 1) : r \in 1 .. n \/ r = n + 1
  OBVIOUS
<1> HIDE DEF IsItem, Matching
<1> QED
  BY <1>1, <1>2 DEF ItemsInv

LEMMA ItemsJoinGroup ==
    ASSUME NEW items, NEW n \in Nat, ItemsInv(items, n), Matching(n + 1),
           NEW h \in 1 .. Len(items), items[h].group = Group(n + 1), Group(n + 1) # None
    PROVE  ItemsInv([items EXCEPT ![h].rows = Append(@, n + 1)], n + 1)
<1> DEFINE new == [items EXCEPT ![h].rows = Append(@, n + 1)]
<1>1. /\ items \in Seq(Item) /\ items[h] \in Item
      /\ items[h].rows \in Seq(Nat) /\ Len(items[h].rows) \in Nat
  <2>1. items \in Seq(Item)
    BY DEF ItemsInv
  <2>2. items[h] \in Item
    BY <2>1, ElementOfSeq
  <2> QED BY <2>1, <2>2 DEF Item
<1>2. PICK len \in Nat : len = Len(items[h].rows)
  BY <1>1
<1>3. PICK rows \in Seq(Nat) : rows = Append(items[h].rows, n + 1)
  <2>1. n + 1 \in Nat
    OBVIOUS
  <2>2. Append(items[h].rows, n + 1) \in Seq(Nat)
    BY <1>1, <2>1, AppendProperties
  <2> QED BY <2>2
<1>4. /\ Len(rows) = len + 1
      /\ \A k \in 1 .. len : rows[k] = items[h].rows[k]
      /\ rows[len + 1] = n + 1
  BY <1>1, <1>2, <1>3, AppendProperties
<1>5. /\ new \in Seq(Item) /\ Len(new) = Len(items)
      /\ new[h] = [items[h] EXCEPT !.rows = rows]
      /\ \A i \in 1 .. Len(items) : i # h => new[i] = items[i]
  <2>1. new = [items EXCEPT ![h] = [items[h] EXCEPT !.rows = rows]]
    BY <1>1, <1>3
  <2>2. PICK e \in Item : e = [items[h] EXCEPT !.rows = rows]
    BY <1>1 DEF Item
  <2>3. new = [items EXCEPT ![h] = e]
    BY <2>1, <2>2
  <2>4. /\ new \in Seq(Item) /\ Len(new) = Len(items)
        /\ \A j \in 1 .. Len(items) : new[j] = IF j = h THEN e ELSE items[j]
    <3>1. items \in Seq(Item)
      BY <1>1
    <3> HIDE DEF Item, new
    <3> QED BY <2>3, <3>1, ExceptSeq
  <2> HIDE DEF new
  <2> QED BY <2>2, <2>4
<1>6. /\ new[h].rows = rows /\ new[h].group = items[h].group
      /\ \A i \in 1 .. Len(items) : new[i].group = items[i].group
  BY <1>1, <1>5 DEF Item
<1> HIDE DEF new
<1>7. IsItem(items[h], n)
  BY DEF ItemsInv
<1>8. IsItem(new[h], n + 1)
  <2>1. rows # << >>
    BY <1>4
  <2>2. \A k \in 1 .. (len + 1) : k \in 1 .. len \/ k = len + 1
    OBVIOUS
  <2>3. \A k \in 1 .. len : /\ rows[k] \in 1 .. n
                            /\ Matching(rows[k]) /\ Group(rows[k]) = items[h].group
    BY <1>2, <1>4, <1>7 DEF IsItem
  <2>4. \A k \in 1 .. (len + 1) : /\ rows[k] \in 1 .. (n + 1)
                                  /\ Matching(rows[k]) /\ Group(rows[k]) = items[h].group
    BY <1>4, <2>2, <2>3
  <2>5. \A k, l \in 1 .. len : k < l => rows[k] < rows[l]
    BY <1>2, <1>4, <1>7 DEF IsItem
  <2>6. ASSUME NEW k \in 1 .. (len + 1), NEW l \in 1 .. (len + 1), k < l
        PROVE  rows[k] < rows[l]
    <3>1. k \in 1 .. len
      BY <2>6
    <3>2. CASE l \in 1 .. len
      BY <2>5, <2>6, <3>1, <3>2
    <3>3. CASE l = len + 1
      <4>1. rows[k] \in 1 .. n /\ rows[l] = n + 1
        BY <1>4, <2>3, <3>1, <3>3
      <4> QED BY <4>1
    <3> QED BY <2>2, <3>2, <3>3
  <2> HIDE DEF Matching, Group
  <2> QED BY <1>4, <1>6, <2>1, <2>4, <2>6 DEF IsItem
<1>9. \A i \in 1 .. Len(new) : IsItem(new[i], n + 1)
  <2>1. \A i \in 1 .. Len(items) : IsItem(items[i], n + 1)
    BY DEF ItemsInv, IsItem
  <2> QED BY <1>5, <1>8, <2>1
<1>10. ASSUME NEW i \in 1 .. Len(new), NEW j \in 1 .. Len(new),
              i < j, new[i].group = new[j].group
       PROVE  new[i].group = None /\ new[i].rows[1] < new[j].rows[1]
  <2>1. items[i].group = None /\ items[i].rows[1] < items[j].rows[1]
    BY <1>5, <1>6, <1>10 DEF ItemsInv
  <2>2. i # h /\ j # h
    BY <1>5, <1>6, <1>10, <2>1
  <2> QED BY <1>5, <2>1, <2>2
<1>11. ASSUME NEW r \in 1 .. (n + 1), Matching(r)
       PROVE  \E i \in 1 .. Len(new) : \E k \in 1 .. Len(new[i].rows) : new[i].rows[k] = r
  <2>1. CASE r = n + 1
    <3>1. len + 1 \in 1 .. Len(new[h].rows) /\ new[h].rows[len + 1] = r
      BY <1>4, <1>6, <2>1
    <3> QED BY <1>5, <3>1
  <2>2. CASE r # n + 1
    <3>1. r \in 1 .. n
      BY <2>2
    <3>2. PICK i \in 1 .. Len(items) : \E k \in 1 .. Len(items[i].rows) : items[i].rows[k] = r
      BY <1>11, <3>1 DEF ItemsInv
    <3>3. PICK k \in 1 .. Len(items[i].rows) : items[i].rows[k] = r
      BY <3>2
    <3>4. CASE i = h
      <4>1. k \in 1 .. Len(new[h].rows) /\ new[h].rows[k] = r
        BY <1>2, <1>4, <1>6, <3>3, <3>4
      <4> QED BY <1>5, <4>1
    <3>5. CASE i # h
      BY <1>5, <3>3, <3>5
    <3> QED BY <3>4, <3>5
  <2> QED BY <2>1, <2>2
<1> QED
  BY <1>5, <1>9, <1>10, <1>11 DEF ItemsInv, new

LEMMA ItemsBeginItem ==
    ASSUME NEW items, NEW n \in Nat, ItemsInv(items, n), Matching(n + 1),
           Group(n + 1) \in Option(Name),
           Group(n + 1) # None => \A i \in 1 .. Len(items) : items[i].group # Group(n + 1)
    PROVE  ItemsInv(Append(items, FieldTableItem(Group(n + 1), n + 1)), n + 1)
<1>1. PICK e \in Item : e = FieldTableItem(Group(n + 1), n + 1)
  <2>1. << n + 1 >> \in Seq(Nat)
    OBVIOUS
  <2> HIDE DEF Group
  <2> QED BY <2>1 DEF Item, FieldTableItem
<1>2. e.group = Group(n + 1) /\ e.rows = << n + 1 >>
  BY <1>1 DEF FieldTableItem
<1>3. items \in Seq(Item) /\ Len(items) \in Nat
  BY DEF ItemsInv
<1>4. PICK len \in Nat : len = Len(items)
  BY <1>3
<1>5. PICK new : new = Append(items, e)
  OBVIOUS
<1>6. /\ new \in Seq(Item) /\ Len(new) = len + 1 /\ new[len + 1] = e
      /\ \A i \in 1 .. len : new[i] = items[i]
  BY <1>3, <1>4, <1>5, AppendProperties
<1>7. \A i \in 1 .. (len + 1) : i \in 1 .. len \/ i = len + 1
  OBVIOUS
<1>8. IsItem(e, n + 1)
  BY <1>2 DEF IsItem
<1>9. \A i \in 1 .. (len + 1) : IsItem(new[i], n + 1)
  <2>1. \A i \in 1 .. len : IsItem(items[i], n + 1)
    BY <1>4 DEF ItemsInv, IsItem
  <2> HIDE DEF IsItem
  <2> QED BY <1>6, <1>7, <1>8, <2>1
<1>10. ASSUME NEW i \in 1 .. (len + 1), NEW j \in 1 .. (len + 1),
              i < j, new[i].group = new[j].group
       PROVE  new[i].group = None /\ new[i].rows[1] < new[j].rows[1]
  <2>1. i \in 1 .. len /\ new[i] = items[i]
    BY <1>6, <1>10
  <2>2. CASE j \in 1 .. len
    BY <1>4, <1>6, <1>10, <2>1, <2>2 DEF ItemsInv
  <2>3. CASE j = len + 1
    <3>1. items[i].group = Group(n + 1)
      BY <1>2, <1>6, <1>10, <2>1, <2>3
    <3>2. Group(n + 1) = None
      BY <1>4, <2>1, <3>1
    <3>3. IsItem(items[i], n)
      BY <1>4, <2>1 DEF ItemsInv
    <3>4. 1 \in 1 .. Len(items[i].rows)
      BY <3>1, <3>2, <3>3 DEF IsItem
    <3>5. items[i].rows[1] \in 1 .. n
      BY <3>3, <3>4 DEF IsItem
    <3>6. new[j].rows[1] = n + 1
      BY <1>2, <1>6, <2>3
    <3> QED BY <2>1, <3>1, <3>2, <3>5, <3>6
  <2> QED BY <1>7, <2>2, <2>3
<1>11. ASSUME NEW r \in 1 .. (n + 1), Matching(r)
       PROVE  \E i \in 1 .. (len + 1) : \E k \in 1 .. Len(new[i].rows) : new[i].rows[k] = r
  <2>1. CASE r = n + 1
    <3>1. 1 \in 1 .. Len(new[len + 1].rows) /\ new[len + 1].rows[1] = r
      BY <1>2, <1>6, <2>1
    <3> QED BY <3>1
  <2>2. CASE r # n + 1
    <3>1. r \in 1 .. n
      BY <2>2
    <3>2. PICK i \in 1 .. len : \E k \in 1 .. Len(items[i].rows) : items[i].rows[k] = r
      BY <1>4, <1>11, <3>1 DEF ItemsInv
    <3> QED BY <1>6, <3>2
  <2> QED BY <2>1, <2>2
<1> QED
  BY <1>1, <1>5, <1>6, <1>9, <1>10, <1>11 DEF ItemsInv

LEMMA ItemsTakeRow ==
    ASSUME EditorTypes, NEW items, NEW n \in Nat, n + 1 <= Len(Rows), ItemsInv(items, n)
    PROVE  ItemsInv(Added(items, n + 1), n + 1)
<1>1. n + 1 \in 1 .. Len(Rows)
  <2>1. Rows \in Seq(Row)
    BY DocumentAssumption DEF EditorTypes, Rows
  <2> QED BY <2>1
<1>2. Group(n + 1) \in Option(Name)
  <2>1. Rows[n + 1].display_name \in Name
    BY <1>1, RowsAreRows DEF Row
  <2> QED BY <2>1, GroupsAreNames DEF Group
<1>3. CASE ~Matching(n + 1)
  BY <1>3, ItemsSkipRow DEF Added
<1>4. CASE Matching(n + 1)
  <2> DEFINE same == {i \in 1 .. Len(items) : items[i].group = Group(n + 1)}
  <2>1. Added(items, n + 1) =
           IF Group(n + 1) # None /\ same # {}
           THEN [items EXCEPT ![First(same)].rows = Append(@, n + 1)]
           ELSE Append(items, FieldTableItem(Group(n + 1), n + 1))
    BY <1>4 DEF Added, AddRow, Group
  <2>2. CASE Group(n + 1) # None /\ same # {}
    <3>1. Len(items) \in Nat
      BY DEF ItemsInv
    <3>2. First(same) \in same
      BY <2>2, <3>1, FirstIsOne
    <3>3. First(same) \in 1 .. Len(items) /\ items[First(same)].group = Group(n + 1)
      BY <3>2
    <3> HIDE DEF same, Group, Matching
    <3>4. ItemsInv([items EXCEPT ![First(same)].rows = Append(@, n + 1)], n + 1)
      BY <1>4, <2>2, <3>3, ItemsJoinGroup
    <3> QED BY <2>1, <2>2, <3>4
  <2>3. CASE ~(Group(n + 1) # None /\ same # {})
    <3>1. Group(n + 1) # None => \A i \in 1 .. Len(items) : items[i].group # Group(n + 1)
      BY <2>3
    <3> HIDE DEF same, Group, Matching
    <3> QED BY <1>2, <1>4, <2>1, <2>3, <3>1, ItemsBeginItem
  <2> QED BY <2>2, <2>3
<1> QED BY <1>3, <1>4

(* The items that are drawn hold the rows that pass the filter.            *)
LEMMA ItemsAreRight ==
    ASSUME EditorTypes
    PROVE  ItemsInv(filtered_field_items, Len(Rows))
<1>1. Len(Rows) \in Nat
  BY DocumentAssumption DEF EditorTypes, Rows
<1>2. PICK f : IsGrouping(f, Len(Rows)) /\ filtered_field_items = f[Len(Rows)]
  BY <1>1, GroupingChosen
<1>3. \A k \in 0 .. Len(Rows) : f[k] = IF k = 0 THEN << >> ELSE Added(f[k - 1], k)
  BY <1>2 DEF IsGrouping
<1> DEFINE T == {k \in Nat : k <= Len(Rows) /\ ~ItemsInv(f[k], k)}
<1>4. 0 \notin T
  BY <1>1, <1>3, ItemsOfNone
<1>5. ASSUME NEW k \in Nat, k \notin T PROVE k + 1 \notin T
  <2> SUFFICES ASSUME k + 1 <= Len(Rows) PROVE ItemsInv(f[k + 1], k + 1)
    OBVIOUS
  <2>1. ItemsInv(f[k], k)
    BY <1>1, <1>5
  <2>2. k + 1 \in 0 .. Len(Rows) /\ k + 1 # 0 /\ (k + 1) - 1 = k
    BY <1>1
  <2>3. f[k + 1] = Added(f[k], k + 1)
    BY <1>3, <2>2
  <2> QED BY <2>1, <2>3, ItemsTakeRow
<1> HIDE DEF T
<1>6. T = {}
  BY <1>4, <1>5, NatLeast DEF T
<1> QED BY <1>1, <1>2, <1>6 DEF T

(* A row is in one item only, and there but once.                          *)
LEMMA RowsAreApart ==
    ASSUME NEW items, NEW n \in Nat, ItemsInv(items, n),
           NEW i \in 1 .. Len(items), NEW j \in 1 .. Len(items),
           NEW k \in 1 .. Len(items[i].rows), NEW l \in 1 .. Len(items[j].rows),
           items[i].rows[k] = items[j].rows[l]
    PROVE  i = j /\ k = l
<1>1. \A h \in 1 .. Len(items) : IsItem(items[h], n)
  BY DEF ItemsInv
<1>2. items[i].group = items[j].group
  BY <1>1 DEF IsItem
<1>3. ASSUME NEW a \in 1 .. Len(items), NEW b \in 1 .. Len(items), a < b,
             items[a].group = items[b].group
      PROVE  /\ items[a].group = None /\ Len(items[a].rows) = 1 /\ Len(items[b].rows) = 1
             /\ items[a].rows[1] < items[b].rows[1]
             /\ items[a].rows[1] \in Nat /\ items[b].rows[1] \in Nat
  <2>1. items[a].group = None /\ items[a].rows[1] < items[b].rows[1]
    BY <1>3 DEF ItemsInv
  <2>2. Len(items[a].rows) = 1 /\ Len(items[b].rows) = 1
    BY <1>1, <1>3, <2>1 DEF IsItem
  <2>3. items[a].rows[1] \in 1 .. n /\ items[b].rows[1] \in 1 .. n
    BY <1>1, <2>2 DEF IsItem
  <2> QED BY <2>1, <2>2, <2>3
<1>4. ~(i < j)
  <2> SUFFICES ASSUME i < j PROVE FALSE
    OBVIOUS
  <2>1. Len(items[i].rows) = 1 /\ Len(items[j].rows) = 1 /\ items[i].rows[1] < items[j].rows[1]
        /\ items[i].rows[1] \in Nat /\ items[j].rows[1] \in Nat
    BY <1>2, <1>3
  <2>2. k = 1 /\ l = 1
    BY <2>1
  <2> QED BY <2>1, <2>2
<1>5. ~(j < i)
  <2> SUFFICES ASSUME j < i PROVE FALSE
    OBVIOUS
  <2>1. Len(items[i].rows) = 1 /\ Len(items[j].rows) = 1 /\ items[j].rows[1] < items[i].rows[1]
        /\ items[i].rows[1] \in Nat /\ items[j].rows[1] \in Nat
    BY <1>2, <1>3
  <2>2. k = 1 /\ l = 1
    BY <2>1
  <2> QED BY <2>1, <2>2
<1>6. i = j
  BY <1>4, <1>5
<1>7. IsItem(items[i], n)
  BY <1>1
<1>8. items[i].rows[k] \in 1 .. n /\ items[i].rows[l] \in 1 .. n
  BY <1>6, <1>7 DEF IsItem
<1>9. ~(k < l) /\ ~(l < k)
  BY <1>6, <1>7, <1>8 DEF IsItem
<1> QED BY <1>6, <1>9

(* What is drawn of items that are right, whatever is collapsed.           *)
Drawn(items, collapsed) == Flattened(Opened(items, collapsed), Len(items))

LEMMA OpenedParts ==
    ASSUME NEW items, NEW n \in Nat, ItemsInv(items, n), NEW C
    PROVE  /\ ArePartsOf(Opened(items, C), Len(items), 1 .. n)
           /\ \A i \in 1 .. Len(items) :
                 Opened(items, C)[i] = IF items[i].group \in C THEN << >> ELSE items[i].rows
<1>1. \A i \in 1 .. Len(items) :
         Opened(items, C)[i] = IF items[i].group \in C THEN << >> ELSE items[i].rows
  BY DEF Opened
<1>2. Len(items) \in Nat
  BY DEF ItemsInv
<1>3. ASSUME NEW i \in 1 .. Len(items)
      PROVE  items[i].rows \in Seq(1 .. n)
  <2>1. items[i] \in Item
    BY ElementOfSeq DEF ItemsInv
  <2>2. PICK rows \in Seq(Nat) : rows = items[i].rows
    BY <2>1 DEF Item
  <2>3. \A k \in 1 .. Len(rows) : rows[k] \in 1 .. n
    BY <2>2 DEF ItemsInv, IsItem
  <2>4. PICK len \in Nat : len = Len(rows)
    OBVIOUS
  <2>5. rows \in [1 .. len -> Nat]
    BY <2>4
  <2>6. rows \in [1 .. len -> 1 .. n]
    BY <2>3, <2>4, <2>5
  <2>7. rows \in Seq(1 .. n)
    BY <2>6
  <2> QED BY <2>2, <2>7
<1>4. \A i \in 1 .. Len(items) : Opened(items, C)[i] \in Seq(1 .. n)
  BY <1>1, <1>3, EmptySeq
<1> QED BY <1>1, <1>2, <1>4 DEF ArePartsOf

(* The place of a drawn row: its item, and its number in the item.         *)
DrawnAt(items, C, p, i, k) ==
    /\ i \in 1 .. Len(items) /\ k \in 1 .. Len(items[i].rows)
    /\ items[i].group \notin C
    /\ p = Begin(Opened(items, C), i) + k
    /\ Drawn(items, C)[p] = items[i].rows[k]

LEMMA DrawnSomewhere ==
    ASSUME NEW items, NEW n \in Nat, ItemsInv(items, n), NEW C
    PROVE  /\ \A p \in 1 .. Len(Drawn(items, C)) :
                 \E i \in 1 .. Len(items) : \E k \in 1 .. Len(items[i].rows) :
                    DrawnAt(items, C, p, i, k)
           /\ \A i \in 1 .. Len(items) : \A k \in 1 .. Len(items[i].rows) :
                 items[i].group \notin C =>
                    \E p \in 1 .. Len(Drawn(items, C)) : DrawnAt(items, C, p, i, k)
<1> DEFINE parts == Opened(items, C)
           len == Len(items)
<1>1. /\ ArePartsOf(parts, len, 1 .. n) /\ len \in Nat
      /\ \A i \in 1 .. len : parts[i] = IF items[i].group \in C THEN << >> ELSE items[i].rows
  BY OpenedParts DEF ArePartsOf
<1>2. Drawn(items, C) = Flattened(parts, len)
  BY DEF Drawn
<1> HIDE DEF parts
<1>3. /\ \A i \in 1 .. len : \A k \in 1 .. Len(parts[i]) :
            /\ Begin(parts, i) + k \in 1 .. Len(Drawn(items, C))
            /\ Drawn(items, C)[Begin(parts, i) + k] = parts[i][k]
      /\ \A p \in 1 .. Len(Drawn(items, C)) :
            \E i \in 1 .. len : \E k \in 1 .. Len(parts[i]) : p = Begin(parts, i) + k
  <2>1. len <= len
    BY <1>1
  <2> HIDE DEF len
  <2> QED BY <1>1, <1>2, <2>1, FlattenedHas
<1>4. ASSUME NEW i \in 1 .. len, NEW k \in 1 .. Len(parts[i])
      PROVE  /\ k \in 1 .. Len(items[i].rows)
             /\ DrawnAt(items, C, Begin(parts, i) + k, i, k)
  <2>1. items[i].group \notin C /\ parts[i] = items[i].rows
    BY <1>1
  <2> QED BY <1>3, <2>1 DEF DrawnAt, parts
<1>5. ASSUME NEW p \in 1 .. Len(Drawn(items, C))
      PROVE  \E i \in 1 .. len : \E k \in 1 .. Len(items[i].rows) : DrawnAt(items, C, p, i, k)
  <2>1. PICK i \in 1 .. len : \E k \in 1 .. Len(parts[i]) : p = Begin(parts, i) + k
    BY <1>3
  <2>2. PICK k \in 1 .. Len(parts[i]) : p = Begin(parts, i) + k
    BY <2>1
  <2> QED BY <1>4, <2>2
<1>6. ASSUME NEW i \in 1 .. len, NEW k \in 1 .. Len(items[i].rows), items[i].group \notin C
      PROVE  \E p \in 1 .. Len(Drawn(items, C)) : DrawnAt(items, C, p, i, k)
  <2>1. k \in 1 .. Len(parts[i])
    BY <1>1, <1>6
  <2> QED BY <1>3, <1>4, <2>1
<1> QED BY <1>5, <1>6

LEMMA DrawnInOrder ==
    ASSUME NEW items, NEW n \in Nat, ItemsInv(items, n), NEW C,
           NEW p, NEW i, NEW k, DrawnAt(items, C, p, i, k),
           NEW q, NEW j, NEW l, DrawnAt(items, C, q, j, l)
    PROVE  /\ p \in Nat /\ q \in Nat
           /\ p < q => i < j \/ (i = j /\ k < l)
           /\ p = q => i = j /\ k = l
<1> DEFINE parts == Opened(items, C)
<1>1. ArePartsOf(parts, Len(items), 1 .. n) /\ Len(items) \in Nat
  BY OpenedParts DEF ArePartsOf
<1>2. /\ i \in 1 .. Len(items) /\ j \in 1 .. Len(items)
      /\ parts[i] = items[i].rows /\ parts[j] = items[j].rows
  BY OpenedParts DEF DrawnAt
<1>3. /\ k \in 1 .. Len(parts[i]) /\ l \in 1 .. Len(parts[j])
      /\ p = Begin(parts, i) + k /\ q = Begin(parts, j) + l
  BY <1>2 DEF DrawnAt
<1> HIDE DEF parts
<1>4. /\ p < q => i <= j
      /\ p = q => i = j /\ k = l
      /\ Begin(parts, i) \in Nat /\ Begin(parts, j) \in Nat
  BY <1>1, <1>2, <1>3, FlattenedInOrder
<1>5. i = j /\ p < q => k < l
  BY <1>3, <1>4
<1> QED BY <1>2, <1>3, <1>4, <1>5

(* As many rows are drawn as there are rows to draw.                       *)
LEMMA CountedElements ==
    ASSUME NEW n \in Nat, NEW f,
           \A p, q \in 1 .. n : p # q => f[p] # f[q]
    PROVE  LET T == {f[p] : p \in 1 .. n}
           IN IsFiniteSet(T) /\ Cardinality(T) = n
<1> DEFINE T == {f[p] : p \in 1 .. n}
           g == [p \in 1 .. n |-> f[p]]
<1>1. g \in Bijection(1 .. n, T)
  BY DEF Bijection, Injection, Surjection, IsInjective
<1>2. ExistsBijection(1 .. n, T)
  BY <1>1 DEF ExistsBijection
<1>3. IsFiniteSet(1 .. n) /\ Cardinality(1 .. n) = n
  BY FS_Interval
<1> HIDE DEF T
<1>4. IsFiniteSet(T) /\ Cardinality(T) = n
  BY <1>2, <1>3, FS_Bijection
<1> QED BY <1>4 DEF T

LEMMA DrawnIsRight ==
    ASSUME NEW items, NEW n \in Nat, ItemsInv(items, n), NEW C
    PROVE  /\ Len(Drawn(items, C)) \in Nat
           /\ \A p, q \in 1 .. Len(Drawn(items, C)) :
                 p # q => Drawn(items, C)[p] # Drawn(items, C)[q]
           /\ {Drawn(items, C)[p] : p \in 1 .. Len(Drawn(items, C))}
                 = {r \in 1 .. n : Matching(r) /\ Group(r) \notin C}
           /\ \A p, q \in 1 .. Len(Drawn(items, C)) :
                 p < q /\ Group(Drawn(items, C)[p]) = Group(Drawn(items, C)[q]) =>
                    /\ Drawn(items, C)[p] < Drawn(items, C)[q]
                    /\ Group(Drawn(items, C)[p]) # None =>
                          \A r \in p .. q :
                             Group(Drawn(items, C)[r]) = Group(Drawn(items, C)[p])
<1> DEFINE drawn == Drawn(items, C)
<1>1. Len(drawn) \in Nat
  <2>1. ArePartsOf(Opened(items, C), Len(items), 1 .. n) /\ Len(items) \in Nat
    BY OpenedParts DEF ArePartsOf
  <2>2. Len(items) <= Len(items)
    BY <2>1
  <2>3. drawn \in Seq(1 .. n)
    BY <2>1, <2>2, FlattenedIsSeq DEF Drawn
  <2> QED BY <2>3, LenProperties
<1>2. \A i \in 1 .. Len(items) : IsItem(items[i], n)
  BY DEF ItemsInv
<1>3. ASSUME NEW p, NEW i, NEW k, DrawnAt(items, C, p, i, k)
      PROVE  /\ i \in 1 .. Len(items) /\ k \in 1 .. Len(items[i].rows)
             /\ drawn[p] = items[i].rows[k] /\ drawn[p] \in 1 .. n /\ Matching(drawn[p])
             /\ Group(drawn[p]) = items[i].group /\ Group(drawn[p]) \notin C
  BY <1>2, <1>3 DEF DrawnAt, IsItem
<1>4. \A p \in 1 .. Len(drawn) :
         \E i \in 1 .. Len(items) : \E k \in 1 .. Len(items[i].rows) :
            DrawnAt(items, C, p, i, k)
  BY DrawnSomewhere
<1> HIDE DEF drawn, Matching, Group
<1>5. ASSUME NEW p \in 1 .. Len(drawn), NEW q \in 1 .. Len(drawn), drawn[p] = drawn[q]
      PROVE  p = q
  <2>1. PICK i \in 1 .. Len(items) : \E k \in 1 .. Len(items[i].rows) :
                DrawnAt(items, C, p, i, k)
    BY <1>4
  <2>2. PICK k \in 1 .. Len(items[i].rows) : DrawnAt(items, C, p, i, k)
    BY <2>1
  <2>3. PICK j \in 1 .. Len(items) : \E l \in 1 .. Len(items[j].rows) :
                DrawnAt(items, C, q, j, l)
    BY <1>4
  <2>4. PICK l \in 1 .. Len(items[j].rows) : DrawnAt(items, C, q, j, l)
    BY <2>3
  <2>5. items[i].rows[k] = items[j].rows[l]
    BY <1>3, <1>5, <2>2, <2>4
  <2>6. i = j /\ k = l
    BY <2>5, RowsAreApart
  <2> QED BY <2>2, <2>4, <2>6 DEF DrawnAt
<1>6. ASSUME NEW p \in 1 .. Len(drawn)
      PROVE  drawn[p] \in 1 .. n /\ Matching(drawn[p]) /\ Group(drawn[p]) \notin C
  BY <1>3, <1>4
<1>7. ASSUME NEW r \in 1 .. n, Matching(r), Group(r) \notin C
      PROVE  \E p \in 1 .. Len(drawn) : drawn[p] = r
  <2>1. PICK i \in 1 .. Len(items) :
           \E k \in 1 .. Len(items[i].rows) : items[i].rows[k] = r
    BY <1>7 DEF ItemsInv
  <2>2. PICK k \in 1 .. Len(items[i].rows) : items[i].rows[k] = r
    BY <2>1
  <2>3. items[i].group = Group(r)
    BY <1>2, <2>2 DEF IsItem
  <2>4. PICK p \in 1 .. Len(drawn) : DrawnAt(items, C, p, i, k)
    BY <1>7, <2>2, <2>3, DrawnSomewhere DEF drawn
  <2> QED BY <1>3, <2>2, <2>4
<1>8. ASSUME NEW p \in 1 .. Len(drawn), NEW q \in 1 .. Len(drawn), p < q,
             Group(drawn[p]) = Group(drawn[q])
      PROVE  /\ drawn[p] < drawn[q]
             /\ Group(drawn[p]) # None =>
                   \A r \in p .. q : Group(drawn[r]) = Group(drawn[p])
  <2>1. PICK i \in 1 .. Len(items) : \E k \in 1 .. Len(items[i].rows) :
                DrawnAt(items, C, p, i, k)
    BY <1>4
  <2>2. PICK k \in 1 .. Len(items[i].rows) : DrawnAt(items, C, p, i, k)
    BY <2>1
  <2>3. PICK j \in 1 .. Len(items) : \E l \in 1 .. Len(items[j].rows) :
                DrawnAt(items, C, q, j, l)
    BY <1>4
  <2>4. PICK l \in 1 .. Len(items[j].rows) : DrawnAt(items, C, q, j, l)
    BY <2>3
  <2>5. i < j \/ (i = j /\ k < l)
    BY <1>8, <2>2, <2>4, DrawnInOrder
  <2>6. items[i].group = items[j].group
    BY <1>3, <1>8, <2>2, <2>4
  <2>7. CASE i < j
    <3>1. items[i].group = None /\ items[i].rows[1] < items[j].rows[1]
      BY <2>6, <2>7 DEF ItemsInv
    <3>2. Len(items[i].rows) = 1 /\ Len(items[j].rows) = 1
      BY <1>2, <2>6, <3>1 DEF IsItem
    <3>3. k = 1 /\ l = 1
      BY <3>2
    <3> QED BY <1>3, <2>2, <2>4, <3>1, <3>3
  <2>8. CASE i = j /\ k < l
    <3>1. drawn[p] < drawn[q]
      BY <1>2, <1>3, <2>2, <2>4, <2>8 DEF IsItem
    <3>2. ASSUME NEW r \in p .. q
          PROVE  Group(drawn[r]) = Group(drawn[p])
      <4>1. r \in 1 .. Len(drawn) /\ p <= r /\ r <= q
        BY <1>1
      <4>2. PICK h \in 1 .. Len(items) : \E m \in 1 .. Len(items[h].rows) :
                    DrawnAt(items, C, r, h, m)
        BY <1>4, <4>1
      <4>3. PICK m \in 1 .. Len(items[h].rows) : DrawnAt(items, C, r, h, m)
        BY <4>2
      <4>4. /\ p < r => i < h \/ (i = h /\ k < m)
            /\ p = r => i = h /\ k = m
        BY <2>2, <4>3, DrawnInOrder
      <4>5. /\ r < q => h < j \/ (h = j /\ m < l)
            /\ r = q => h = j /\ m = l
        BY <2>4, <4>3, DrawnInOrder
      <4>6. h = i
        BY <2>8, <4>1, <4>4, <4>5
      <4> QED BY <1>3, <2>2, <4>3, <4>6
    <3> QED BY <3>1, <3>2
  <2> QED BY <2>5, <2>7, <2>8
<1>9. {drawn[p] : p \in 1 .. Len(drawn)} = {r \in 1 .. n : Matching(r) /\ Group(r) \notin C}
  BY <1>6, <1>7
<1> QED BY <1>1, <1>5, <1>8, <1>9 DEF drawn

(* The count above the table is that of a table with nothing collapsed.    *)
LEMMA CountIsDrawn ==
    ASSUME NEW n \in Nat, ItemsInv(filtered_field_items, n)
    PROVE  field_item_count = Len(Drawn(filtered_field_items, {}))
<1> DEFINE items == filtered_field_items
           len == Len(items)
           parts == Opened(items, {})
           Counts(f) == f = [i \in 0 .. len |->
                               IF i = 0 THEN 0 ELSE f[i - 1] + Len(items[i].rows)]
           count[i \in 0 .. len] == IF i = 0 THEN 0 ELSE count[i - 1] + Len(items[i].rows)
           lens == [i \in 0 .. len |-> Len(Flattened(parts, i))]
<1>1. /\ ArePartsOf(parts, len, 1 .. n) /\ len \in Nat
      /\ \A i \in 1 .. len : parts[i] = items[i].rows
  <2>1. ItemsInv(items, n)
    OBVIOUS
  <2> HIDE DEF items
  <2>2. ArePartsOf(parts, len, 1 .. n) /\ len \in Nat
    BY <2>1, OpenedParts DEF ArePartsOf
  <2>3. \A i \in 1 .. len : parts[i] = IF items[i].group \in {} THEN << >> ELSE items[i].rows
    BY <2>1, OpenedParts
  <2> HIDE DEF parts, len
  <2> QED BY <2>2, <2>3
<1>2. field_item_count = count[len]
  BY DEF field_item_count
<1>3. count = CHOOSE f : Counts(f)
  OBVIOUS
<1>4. ASSUME NEW i \in 1 .. len
      PROVE  Len(Flattened(parts, i)) = Len(Flattened(parts, i - 1)) + Len(items[i].rows)
  <2>1. i - 1 \in Nat /\ (i - 1) + 1 = i /\ i - 1 <= len
    BY <1>1
  <2> HIDE DEF parts, len
  <2>2. Flattened(parts, i - 1) \in Seq(1 .. n)
    BY <1>1, <2>1, FlattenedIsSeq
  <2>3. parts[i] \in Seq(1 .. n) /\ parts[i] = items[i].rows
    BY <1>1 DEF ArePartsOf
  <2>4. Flattened(parts, i) = Flattened(parts, i - 1) \o parts[i]
    BY <2>1, FlattenedNext
  <2> QED BY <2>2, <2>3, <2>4, ConcatProperties
<1>5. Len(Flattened(parts, 0)) = 0
  BY FlattenedNone
<1> HIDE DEF parts, len, count
<1>6. Counts(lens)
  <2>1. \A i \in 0 .. len : lens[i] = IF i = 0 THEN 0 ELSE lens[i - 1] + Len(items[i].rows)
    <3> SUFFICES ASSUME NEW i \in 0 .. len
                 PROVE  lens[i] = IF i = 0 THEN 0 ELSE lens[i - 1] + Len(items[i].rows)
      OBVIOUS
    <3>1. i # 0 => i \in 1 .. len /\ i - 1 \in 0 .. len
      BY <1>1
    <3> QED BY <1>4, <1>5, <3>1
  <2>2. lens = [i \in 0 .. len |-> lens[i]]
    OBVIOUS
  <2> HIDE DEF lens
  <2> QED BY <2>1, <2>2, Zenon
<1>7. Counts(count)
  <2> HIDE DEF Counts
  <2> QED BY <1>3, <1>6
<1> DEFINE T == {i \in Nat : i <= len /\ count[i] # lens[i]}
<1>8. \A i \in 0 .. len : count[i] = IF i = 0 THEN 0 ELSE count[i - 1] + Len(items[i].rows)
  BY <1>7
<1>9. \A i \in 0 .. len : lens[i] = IF i = 0 THEN 0 ELSE lens[i - 1] + Len(items[i].rows)
  BY <1>6
<1> HIDE DEF lens, Counts, items
<1>10. 0 \notin T
  BY <1>1, <1>8, <1>9
<1>11. ASSUME NEW i \in Nat, i \notin T PROVE i + 1 \notin T
  <2> SUFFICES ASSUME i + 1 <= len PROVE count[i + 1] = lens[i + 1]
    OBVIOUS
  <2>1. count[i] = lens[i]
    BY <1>1, <1>11
  <2>2. i + 1 \in 0 .. len /\ i + 1 # 0 /\ (i + 1) - 1 = i
    BY <1>1
  <2> QED BY <1>8, <1>9, <2>1, <2>2
<1> HIDE DEF T
<1>12. T = {}
  BY <1>10, <1>11, NatLeast DEF T
<1>13. count[len] = lens[len] /\ len \in 0 .. len
  BY <1>1, <1>12 DEF T
<1>14. lens[len] = Len(Flattened(parts, len))
  BY <1>13 DEF lens
<1> QED BY <1>2, <1>13, <1>14 DEF Drawn, parts, len, items

LEMMA TableComplete ==
    ASSUME DocumentInv
    PROVE  TableIsComplete
<1> DEFINE items == filtered_field_items
           n == Len(Rows)
           C == collapsed_field_groups
<1>1. n \in Nat /\ ItemsInv(items, n)
  <2>1. EditorTypes
    BY DEF DocumentInv, EditorInv
  <2> QED BY <2>1, DocumentAssumption, ItemsAreRight DEF EditorTypes, Rows
<1>2. draw_field_table = Drawn(items, C)
  BY DEF draw_field_table, Drawn
<1>3. \A r \in 1 .. n : Visible(Rows[r]) <=> Matching(r) /\ Group(r) \notin C
  BY DEF Visible, Shown, Matching, Group, field_matches_filter
<1> HIDE DEF items, n, C
<1>4. field_item_count = Len(Drawn(items, {}))
  BY <1>1, CountIsDrawn DEF items
<1>5. Cardinality({r \in 1 .. n : field_matches_filter(Rows[r])}) = Len(Drawn(items, {}))
  <2>1. {Drawn(items, {})[p] : p \in 1 .. Len(Drawn(items, {}))} = {r \in 1 .. n : Matching(r)}
    BY <1>1, DrawnIsRight
  <2>2. /\ Len(Drawn(items, {})) \in Nat
        /\ \A p, q \in 1 .. Len(Drawn(items, {})) :
              p # q => Drawn(items, {})[p] # Drawn(items, {})[q]
    BY <1>1, DrawnIsRight
  <2>3. Cardinality({r \in 1 .. n : Matching(r)}) = Len(Drawn(items, {}))
    BY <2>1, <2>2, CountedElements
  <2> QED BY <2>3 DEF Matching
<1>6. \A p, q \in 1 .. Len(Drawn(items, C)) : p # q => Drawn(items, C)[p] # Drawn(items, C)[q]
  BY <1>1, DrawnIsRight
<1>7. {Drawn(items, C)[p] : p \in 1 .. Len(Drawn(items, C))} = {r \in 1 .. n : Visible(Rows[r])}
  <2>1. {Drawn(items, C)[p] : p \in 1 .. Len(Drawn(items, C))}
           = {r \in 1 .. n : Matching(r) /\ Group(r) \notin C}
    BY <1>1, DrawnIsRight
  <2> QED BY <1>3, <2>1
<1>8. \A p, q \in 1 .. Len(Drawn(items, C)) :
         p < q /\ Group(Drawn(items, C)[p]) = Group(Drawn(items, C)[q]) =>
            /\ Drawn(items, C)[p] < Drawn(items, C)[q]
            /\ Group(Drawn(items, C)[p]) # None =>
                  \A r \in p .. q : Group(Drawn(items, C)[r]) = Group(Drawn(items, C)[p])
  BY <1>1, DrawnIsRight
<1> QED
  BY <1>2, <1>4, <1>5, <1>6, <1>7, <1>8 DEF TableIsComplete, Group, n

LEMMA SelectedRowsRight ==
    ASSUME DocumentInv
    PROVE  SelectedRowsAreSelected
<1>1. EditorTypes
  BY DEF DocumentInv, EditorInv
<1>2. ASSUME NEW r \in 1 .. Len(Rows), ~Rows[r].offset_valid
      PROVE  Rows[r].offset = 0 /\ Rows[r].byte_len = 0
  <2>1. schema # None
    BY <1>2 DEF Rows
  <2>2. Rows \in Tables
    BY <1>1, <2>1 DEF Rows, EditorTypes
  <2> QED BY <1>2, <2>2, DocumentAssumption
<1>3. \A i \in 1 .. Len(draw_field_table) : draw_field_table[i] \in 1 .. Len(Rows)
  <2>1. {draw_field_table[i] : i \in 1 .. Len(draw_field_table)} \subseteq 1 .. Len(Rows)
    BY TableComplete DEF TableIsComplete
  <2> QED BY <2>1
<1>4. \A r \in 1 .. Len(Rows) :
         is_selected(Rows[r]) =>
            \/ Rows[r].display_name = selected_field_name
            \/ Rows[r].offset_valid /\ << Rows[r].offset, Rows[r].byte_len >> = selected_field_range
            \/ ~Rows[r].offset_valid /\ selected_field_range = << 0, 0 >>
  BY <1>2 DEF is_selected
<1>5. \A r \in 1 .. Len(Rows) :
         Rows[r].display_name = selected_field_name => is_selected(Rows[r])
  BY DEF is_selected
<1> QED BY <1>3, <1>4, <1>5 DEF SelectedRowsAreSelected

(* The diagnostics panel: the entries about the schema, one for each row   *)
(* that failed, and one for the search.                                    *)
Runtime == [r \in 1 .. Len(Rows) |-> runtime_diagnostic_from_field_eval(r)]

Entry == [category : Category \cup {"Interpretation", "Search"}, row : Option(Nat)]

SchemaEntries ==
    [d \in 1 .. Len(schema_diagnostics) |-> [category |-> schema_diagnostics[d], row |-> None]]

RuntimeEntries == Flattened(Runtime, Len(Rows))

SearchEntries ==
    IF search_error = None THEN << >> ELSE << [category |-> "Search", row |-> None] >>

LEMMA RuntimeIsRight ==
    ASSUME DocumentInv
    PROVE  /\ RuntimeEntries \in Seq(Entry)
           /\ Len(RuntimeEntries) = Cardinality({r \in 1 .. Len(Rows) : Rows[r].failed})
           /\ {RuntimeEntries[p].row : p \in 1 .. Len(RuntimeEntries)}
                 = {r \in 1 .. Len(Rows) : Rows[r].failed}
<1> DEFINE n == Len(Rows)
           F == RuntimeEntries
           entry(r) == [category |-> "Interpretation", row |-> r]
<1>1. n \in Nat
  BY DocumentAssumption DEF DocumentInv, EditorInv, EditorTypes, Rows
<1>2. \A r \in 1 .. n : Runtime[r] = IF Rows[r].failed THEN << entry(r) >> ELSE << >>
  BY DEF Runtime, runtime_diagnostic_from_field_eval
<1>3. \A r \in 1 .. n : entry(r) \in Entry /\ entry(r).row = r
  BY DEF Entry, Option
<1> HIDE DEF entry, n
<1>4. ArePartsOf(Runtime, n, Entry)
  <2>1. \A r \in 1 .. n : << entry(r) >> \in Seq(Entry) /\ << >> \in Seq(Entry)
    BY <1>3
  <2> QED BY <1>1, <1>2, <2>1 DEF ArePartsOf
<1>5. n <= n
  BY <1>1
<1>6. F \in Seq(Entry) /\ F = Flattened(Runtime, n)
  BY <1>1, <1>4, <1>5, FlattenedIsSeq DEF RuntimeEntries, n
<1>7. PICK len \in Nat : len = Len(F)
  BY <1>6, LenProperties
<1>8. /\ \A r \in 1 .. n : \A k \in 1 .. Len(Runtime[r]) :
            Begin(Runtime, r) + k \in 1 .. len /\ F[Begin(Runtime, r) + k] = Runtime[r][k]
      /\ \A p \in 1 .. len :
            \E r \in 1 .. n : \E k \in 1 .. Len(Runtime[r]) : p = Begin(Runtime, r) + k
  BY <1>1, <1>4, <1>5, <1>6, <1>7, FlattenedHas
<1> HIDE DEF F
<1>9. ASSUME NEW r \in 1 .. n, NEW k \in 1 .. Len(Runtime[r])
      PROVE  k = 1 /\ Rows[r].failed /\ Runtime[r][k] = entry(r)
  <2>1. PICK e : e = entry(r)
    OBVIOUS
  <2>2. CASE Rows[r].failed
    <3>1. Runtime[r] = << e >>
      BY <1>2, <2>1, <2>2
    <3> QED BY <2>1, <2>2, <3>1
  <2>3. CASE ~Rows[r].failed
    <3>1. Runtime[r] = << >>
      BY <1>2, <2>3
    <3> QED BY <3>1
  <2> QED BY <2>2, <2>3
<1>10. ASSUME NEW p \in 1 .. len
       PROVE  \E r \in 1 .. n :
                 Rows[r].failed /\ p = Begin(Runtime, r) + 1 /\ F[p].row = r
  <2>1. PICK r \in 1 .. n : \E k \in 1 .. Len(Runtime[r]) : p = Begin(Runtime, r) + k
    BY <1>8
  <2>2. PICK k \in 1 .. Len(Runtime[r]) : p = Begin(Runtime, r) + k
    BY <2>1
  <2>3. k = 1 /\ Rows[r].failed /\ Runtime[r][k] = entry(r)
    BY <1>9
  <2>4. F[p] = entry(r)
    BY <1>8, <2>2, <2>3
  <2>5. p = Begin(Runtime, r) + 1 /\ F[p].row = r
    BY <1>3, <2>2, <2>3, <2>4
  <2> QED BY <2>3, <2>5
<1>11. ASSUME NEW r \in 1 .. n, Rows[r].failed
       PROVE  \E p \in 1 .. len : F[p].row = r
  <2>1. PICK e : e = entry(r)
    OBVIOUS
  <2>2. Runtime[r] = << e >>
    BY <1>2, <1>11, <2>1
  <2>3. 1 \in 1 .. Len(Runtime[r]) /\ Runtime[r][1] = entry(r)
    BY <2>1, <2>2
  <2> QED BY <1>3, <1>8, <2>3
<1>12. \A p, q \in 1 .. len : F[p].row = F[q].row => p = q
  BY <1>10
<1> DEFINE rows == [p \in 1 .. len |-> F[p].row]
<1>13. {rows[p] : p \in 1 .. len} = {r \in 1 .. n : Rows[r].failed}
  BY <1>10, <1>11
<1>14. \A p, q \in 1 .. len : p # q => rows[p] # rows[q]
  BY <1>12
<1>15. {rows[p] : p \in 1 .. len} = {F[p].row : p \in 1 .. len}
  OBVIOUS
<1> HIDE DEF rows
<1>16. Cardinality({r \in 1 .. n : Rows[r].failed}) = len
  BY <1>13, <1>14, CountedElements
<1> QED BY <1>6, <1>7, <1>13, <1>15, <1>16 DEF F, n

(* Sets that exclude each other are counted one by one.                    *)
LEMMA TwoKinds ==
    ASSUME NEW S, NEW T, IsFiniteSet(S), IsFiniteSet(T), S \cap T = {}
    PROVE  IsFiniteSet(S \cup T) /\ Cardinality(S \cup T) = Cardinality(S) + Cardinality(T)
<1>1. /\ IsFiniteSet(S \cup T)
      /\ Cardinality(S \cup T) = Cardinality(S) + Cardinality(T) - Cardinality(S \cap T)
  BY FS_Union
<1>2. Cardinality(S \cap T) = 0
  BY FS_EmptySet
<1>3. Cardinality(S) \in Nat /\ Cardinality(T) \in Nat
  BY FS_CardinalityType
<1> QED BY <1>1, <1>2, <1>3

LEMMA CountedByKind ==
    ASSUME NEW n \in Nat, NEW kind,
           \A d \in 1 .. n : kind[d] \in {"SchemaParse", "SchemaValidation", "IncludeResolution",
                                          "Interpretation", "Search"}
    PROVE  n = Cardinality({d \in 1 .. n : kind[d] = "SchemaParse"})
               + Cardinality({d \in 1 .. n : kind[d] = "SchemaValidation"})
               + Cardinality({d \in 1 .. n : kind[d] = "IncludeResolution"})
               + Cardinality({d \in 1 .. n : kind[d] = "Interpretation"})
               + Cardinality({d \in 1 .. n : kind[d] = "Search"})
<1> DEFINE A1 == {d \in 1 .. n : kind[d] = "SchemaParse"}
           A2 == {d \in 1 .. n : kind[d] = "SchemaValidation"}
           A3 == {d \in 1 .. n : kind[d] = "IncludeResolution"}
           A4 == {d \in 1 .. n : kind[d] = "Interpretation"}
           A5 == {d \in 1 .. n : kind[d] = "Search"}
<1>1. IsFiniteSet(1 .. n) /\ Cardinality(1 .. n) = n
  BY FS_Interval
<1>2. /\ A1 \cup A2 \cup A3 \cup A4 \cup A5 = 1 .. n
      /\ A1 \cap A2 = {} /\ (A1 \cup A2) \cap A3 = {}
      /\ (A1 \cup A2 \cup A3) \cap A4 = {} /\ (A1 \cup A2 \cup A3 \cup A4) \cap A5 = {}
  OBVIOUS
<1> HIDE DEF A1, A2, A3, A4, A5
<1>3. /\ IsFiniteSet(A1) /\ IsFiniteSet(A2) /\ IsFiniteSet(A3)
      /\ IsFiniteSet(A4) /\ IsFiniteSet(A5)
  <2>1. /\ A1 \in SUBSET (1 .. n) /\ A2 \in SUBSET (1 .. n) /\ A3 \in SUBSET (1 .. n)
        /\ A4 \in SUBSET (1 .. n) /\ A5 \in SUBSET (1 .. n)
    BY DEF A1, A2, A3, A4, A5
  <2> QED BY <1>1, <2>1, FS_Subset
<1>4. /\ IsFiniteSet(A1 \cup A2)
      /\ Cardinality(A1 \cup A2) = Cardinality(A1) + Cardinality(A2)
  BY <1>2, <1>3, TwoKinds
<1>5. PICK P : P = A1 \cup A2
  OBVIOUS
<1>6. IsFiniteSet(P \cup A3) /\ Cardinality(P \cup A3) = Cardinality(P) + Cardinality(A3)
  BY <1>2, <1>3, <1>4, <1>5, TwoKinds
<1>7. PICK Q : Q = P \cup A3
  OBVIOUS
<1>8. IsFiniteSet(Q \cup A4) /\ Cardinality(Q \cup A4) = Cardinality(Q) + Cardinality(A4)
  BY <1>2, <1>3, <1>5, <1>6, <1>7, TwoKinds
<1>9. PICK R : R = Q \cup A4
  OBVIOUS
<1>10. Cardinality(R \cup A5) = Cardinality(R) + Cardinality(A5)
  BY <1>2, <1>3, <1>5, <1>7, <1>8, <1>9, TwoKinds
<1>11. R \cup A5 = 1 .. n
  BY <1>2, <1>5, <1>7, <1>9
<1>12. n = Cardinality(A1) + Cardinality(A2) + Cardinality(A3)
           + Cardinality(A4) + Cardinality(A5)
  BY <1>1, <1>4, <1>5, <1>6, <1>7, <1>8, <1>9, <1>10, <1>11, Zenon
<1> QED BY <1>12 DEF A1, A2, A3, A4, A5

LEMMA PanelComplete ==
    ASSUME DocumentInv
    PROVE  PanelIsComplete
<1> DEFINE first == SchemaEntries
           second == RuntimeEntries
           third == SearchEntries
<1>1. /\ first \in Seq(Entry) /\ Len(first) = Len(schema_diagnostics) /\ Len(first) \in Nat
      /\ \A d \in 1 .. Len(first) : first[d].row = None
  <2>1. schema_diagnostics \in {<< >>} \cup {<< c >> : c \in Category}
    BY DEF DocumentInv, EditorInv, EditorTypes
  <2>2. CASE schema_diagnostics = << >>
    <3>1. first = << >>
      BY <2>2 DEF SchemaEntries
    <3> HIDE DEF first
    <3> QED BY <2>2, <3>1, EmptySeq
  <2>3. ASSUME NEW c \in Category, schema_diagnostics = << c >>
        PROVE  /\ first \in Seq(Entry) /\ Len(first) = Len(schema_diagnostics) /\ Len(first) \in Nat
               /\ \A d \in 1 .. Len(first) : first[d].row = None
    <3>1. PICK e \in Entry : e = [category |-> c, row |-> None]
      BY DEF Entry, Option
    <3>2. first = << e >>
      BY <2>3, <3>1 DEF SchemaEntries
    <3>3. e.row = None
      BY <3>1
    <3> HIDE DEF first, Entry
    <3> QED BY <2>3, <3>2, <3>3
  <2> QED BY <2>1, <2>2, <2>3
<1>2. /\ third \in Seq(Entry) /\ Len(third) = (IF search_error = None THEN 0 ELSE 1)
      /\ \A d \in 1 .. Len(third) : third[d].row = None
  <2>1. PICK e \in Entry : e = [category |-> "Search", row |-> None]
    BY DEF Entry, Option
  <2>2. third = IF search_error = None THEN << >> ELSE << e >>
    BY <2>1 DEF SearchEntries
  <2>3. e.row = None
    BY <2>1
  <2> HIDE DEF third, Entry
  <2> QED BY <2>2, <2>3
<1>3. /\ second \in Seq(Entry)
      /\ Len(second) = Cardinality({r \in 1 .. Len(Rows) : Rows[r].failed})
      /\ {second[p].row : p \in 1 .. Len(second)} = {r \in 1 .. Len(Rows) : Rows[r].failed}
  BY RuntimeIsRight
<1>4. diagnostics = (first \o second) \o third
  BY DEF diagnostics, SchemaEntries, RuntimeEntries, Runtime, SearchEntries
<1> HIDE DEF first, second, third, Entry
<1>5. PICK m1 \in Nat, m2 \in Nat, m3 \in Nat : m1 = Len(first) /\ m2 = Len(second) /\ m3 = Len(third)
  BY <1>1, <1>2, <1>3, LenProperties
<1>6. /\ first \o second \in Seq(Entry) /\ Len(first \o second) = m1 + m2
      /\ \A d \in 1 .. (m1 + m2) : (first \o second)[d] = IF d <= m1 THEN first[d] ELSE second[d - m1]
  BY <1>1, <1>3, <1>5, ConcatProperties
<1>7. /\ diagnostics \in Seq(Entry) /\ Len(diagnostics) = (m1 + m2) + m3
      /\ \A d \in 1 .. ((m1 + m2) + m3) :
            diagnostics[d] = IF d <= m1 + m2 THEN (first \o second)[d] ELSE third[d - (m1 + m2)]
  <2>1. PICK both \in Seq(Entry) : both = first \o second
    BY <1>6
  <2>2. PICK len \in Nat : len = m1 + m2 /\ len = Len(both)
    BY <1>5, <1>6, <2>1
  <2>3. /\ both \o third \in Seq(Entry) /\ Len(both \o third) = len + m3
        /\ \A d \in 1 .. (len + m3) :
              (both \o third)[d] = IF d <= len THEN both[d] ELSE third[d - len]
    <3>1. third \in Seq(Entry) /\ m3 = Len(third)
      BY <1>2, <1>5
    <3>2. /\ both \o third \in Seq(Entry) /\ Len(both \o third) = Len(both) + Len(third)
          /\ \A d \in 1 .. Len(both) + Len(third) :
                (both \o third)[d] = IF d <= Len(both) THEN both[d] ELSE third[d - Len(both)]
      BY <3>1, ConcatProperties, Zenon
    <3> QED BY <2>2, <3>1, <3>2
  <2> QED BY <1>4, <2>1, <2>2, <2>3
<1>8. diagnostic_count = Len(diagnostics)
  BY <1>1, <1>2, <1>3, <1>5, <1>7 DEF diagnostic_count
<1>9. ASSUME NEW r \in 1 .. Len(Rows)
      PROVE  Rows[r].failed <=> \E d \in 1 .. Len(diagnostics) : diagnostics[d].row = r
  <2>1. ASSUME Rows[r].failed
        PROVE  \E d \in 1 .. Len(diagnostics) : diagnostics[d].row = r
    <3>1. PICK p \in 1 .. Len(second) : second[p].row = r
      BY <1>3, <2>1
    <3>2. p + m1 \in 1 .. (m1 + m2) /\ (p + m1) - m1 = p /\ ~(p + m1 <= m1)
          /\ p + m1 \in 1 .. ((m1 + m2) + m3) /\ p + m1 <= m1 + m2
      BY <1>5
    <3>3. diagnostics[p + m1] = second[p]
      BY <1>6, <1>7, <3>2
    <3> QED BY <1>7, <3>1, <3>2, <3>3
  <2>2. ASSUME NEW d \in 1 .. Len(diagnostics), diagnostics[d].row = r
        PROVE  Rows[r].failed
    <3>1. d \in 1 .. ((m1 + m2) + m3)
      BY <1>7
    <3>2. r # None
      <4>1. r \in Nat
        BY DocumentAssumption DEF DocumentInv, EditorInv, EditorTypes, Rows
      <4> QED BY <4>1, NoneAssumption
    <3>3. CASE d <= m1
      <4>1. diagnostics[d] = first[d] /\ d \in 1 .. Len(first)
        BY <1>5, <1>6, <1>7, <3>1, <3>3
      <4> QED BY <1>1, <2>2, <3>2, <4>1
    <3>4. CASE ~(d <= m1) /\ d <= m1 + m2
      <4>1. diagnostics[d] = second[d - m1] /\ d - m1 \in 1 .. Len(second)
        BY <1>5, <1>6, <1>7, <3>1, <3>4
      <4>2. r \in {second[p].row : p \in 1 .. Len(second)}
        BY <2>2, <4>1
      <4> QED BY <1>3, <4>2
    <3>5. CASE ~(d <= m1 + m2)
      <4>1. diagnostics[d] = third[d - (m1 + m2)] /\ d - (m1 + m2) \in 1 .. Len(third)
        BY <1>5, <1>7, <3>1, <3>5
      <4> QED BY <1>2, <2>2, <3>2, <4>1
    <3> QED BY <3>3, <3>4, <3>5
  <2> QED BY <2>1, <2>2
<1>10. Len(diagnostics) = diagnostic_summary("SchemaParse")
                          + diagnostic_summary("SchemaValidation")
                          + diagnostic_summary("IncludeResolution")
                          + diagnostic_summary("Interpretation")
                          + diagnostic_summary("Search")
  <2>1. PICK n \in Nat : n = Len(diagnostics)
    BY <1>7
  <2> DEFINE kind == [d \in 1 .. n |-> diagnostics[d].category]
  <2>2. ASSUME NEW d \in 1 .. n
        PROVE  kind[d] \in {"SchemaParse", "SchemaValidation", "IncludeResolution",
                            "Interpretation", "Search"}
    <3>1. diagnostics[d] \in Entry
      BY <1>7, <2>1, ElementOfSeq
    <3> QED BY <3>1 DEF Entry, Category
  <2>3. \A c : diagnostic_summary(c) = Cardinality({d \in 1 .. n : kind[d] = c})
    <3>1. \A c : {d \in 1 .. n : kind[d] = c}
                    = {d \in 1 .. n : diagnostics[d].category = c}
      OBVIOUS
    <3> HIDE DEF kind
    <3> QED BY <2>1, <3>1 DEF diagnostic_summary
  <2> HIDE DEF kind
  <2>4. n = diagnostic_summary("SchemaParse")
            + diagnostic_summary("SchemaValidation")
            + diagnostic_summary("IncludeResolution")
            + diagnostic_summary("Interpretation")
            + diagnostic_summary("Search")
    <3>1. n = Cardinality({d \in 1 .. n : kind[d] = "SchemaParse"})
              + Cardinality({d \in 1 .. n : kind[d] = "SchemaValidation"})
              + Cardinality({d \in 1 .. n : kind[d] = "IncludeResolution"})
              + Cardinality({d \in 1 .. n : kind[d] = "Interpretation"})
              + Cardinality({d \in 1 .. n : kind[d] = "Search"})
      <4>1. n \in Nat
        BY <2>1
      <4>2. \A d \in 1 .. n : kind[d] \in {"SchemaParse", "SchemaValidation",
               "IncludeResolution", "Interpretation", "Search"}
        BY <2>2
      <4> QED BY <4>1, <4>2, CountedByKind, Zenon
    <3> QED BY <2>3, <3>1, Zenon
  <2> QED BY <2>1, <2>4
<1> QED BY <1>8, <1>9, <1>10 DEF PanelIsComplete

(* The table draws every row it should once and in groups, selected rows   *)
(* are selected ones, and panel, count and summary agree, for every table, *)
(* filter and set of collapsed groups.                                     *)
THEOREM TablesAreRight == Spec => []TableIsRight
<1>1. DocumentInv => TableIsRight
  BY TableComplete, SelectedRowsRight, PanelComplete DEF TableIsRight
<1> QED
  BY <1>1, DocumentAlways, PTL
=============================================================================
