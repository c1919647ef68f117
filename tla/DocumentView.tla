----------------------------- MODULE DocumentView -----------------------------
(***************************************************************************)
(* What a frame draws of a document beside the page of HexPage: the rows   *)
(* of the table with their groups and the list of diagnostics.  Nothing    *)
(* here is state: every frame computes it anew from the variables of       *)
(* Document, and the properties say that the panes agree with that state   *)
(* and with each other in all of it.                                       *)
(***************************************************************************)
EXTENDS HexPage

(* The first n of the parts, one after the other.                          *)
Flattened(parts, n) ==
    LET upTo[k \in 0 .. n] == IF k = 0 THEN << >> ELSE upTo[k - 1] \o parts[k]
    IN upTo[n]

-----------------------------------------------------------------------------
(* The table *)

field_matches_filter(row) ==
    /\ field_filter_errors_only => row.failed
    /\ field_name_matches_filter(row.display_name, field_filter_query)

(* An item of the table: a row of its own, or a group with its rows.       *)
FieldTableItem(group, r) == [group |-> group, rows |-> << r >>]

(* Bug: only a group that was begun by the row before is continued.        *)
AddAdjacentRow(items, r) ==
    LET group == split_field_group(Rows[r].display_name)
    IN IF group # None /\ items # << >> /\ items[Len(items)].group = group
       THEN [items EXCEPT ![Len(items)].rows = Append(@, r)]
       ELSE Append(items, FieldTableItem(group, r))

(* A row joins the group of its name wherever that was begun.              *)
AddRow(items, r) ==
    LET group == split_field_group(Rows[r].display_name)
        same == {i \in 1 .. Len(items) : items[i].group = group}
    IN IF group # None /\ same # {}
       THEN [items EXCEPT ![First(same)].rows = Append(@, r)]
       ELSE Append(items, FieldTableItem(group, r))

filtered_field_items ==
    LET after[n \in 0 .. Len(Rows)] ==
          IF n = 0 THEN << >>
          ELSE IF field_matches_filter(Rows[n]) THEN AddRow(after[n - 1], n)
          ELSE after[n - 1]
    IN after[Len(Rows)]

field_item_count ==
    LET items == filtered_field_items
        count[i \in 0 .. Len(items)] ==
          IF i = 0 THEN 0 ELSE count[i - 1] + Len(items[i].rows)
    IN count[Len(items)]

(* The rows under each item: none under a group that is collapsed.         *)
Opened(items, collapsed) ==
    [i \in 1 .. Len(items) |->
        IF items[i].group \in collapsed THEN << >> ELSE items[i].rows]

(* The rows that are drawn, from top to bottom.                            *)
draw_field_table ==
    Flattened(Opened(filtered_field_items, collapsed_field_groups),
              Len(filtered_field_items))

is_selected(row) ==
    \/ selected_field_range = << row.offset, row.byte_len >>
    \/ selected_field_name = row.display_name

-----------------------------------------------------------------------------
(* Diagnostics *)

runtime_diagnostic_from_field_eval(r) ==
    IF Rows[r].failed THEN << [category |-> "Interpretation", row |-> r] >> ELSE << >>

diagnostics ==
    [d \in 1 .. Len(schema_diagnostics) |-> [category |-> schema_diagnostics[d], row |-> None]]
    \o Flattened([r \in 1 .. Len(Rows) |-> runtime_diagnostic_from_field_eval(r)], Len(Rows))
    \o IF search_error = None THEN << >> ELSE << [category |-> "Search", row |-> None] >>

diagnostic_count ==
    Len(schema_diagnostics)
    + Cardinality({r \in 1 .. Len(Rows) : Rows[r].failed})
    + (IF search_error = None THEN 0 ELSE 1)

(* The summary counts the entries of each category.                        *)
diagnostic_summary(category) ==
    Cardinality({d \in 1 .. Len(diagnostics) : diagnostics[d].category = category})

-----------------------------------------------------------------------------
(* Properties *)

(* The table draws every visible row once and no other, whichever rows     *)
(* share a group and in whatever order they come; the rows of a group stay *)
(* together and in the order of the table; the count above it includes     *)
(* what is collapsed and nothing that is filtered out.                     *)
TableIsComplete ==
    LET drawn == draw_field_table
        group(i) == split_field_group(Rows[drawn[i]].display_name)
    IN /\ \A i, j \in 1 .. Len(drawn) : i # j => drawn[i] # drawn[j]
       /\ {drawn[i] : i \in 1 .. Len(drawn)} = {r \in 1 .. Len(Rows) : Visible(Rows[r])}
       /\ \A i, j \in 1 .. Len(drawn) : i < j /\ group(i) = group(j) =>
             /\ drawn[i] < drawn[j]
             /\ group(i) # None => \A k \in i .. j : group(k) = group(i)
       /\ field_item_count = Cardinality({r \in 1 .. Len(Rows) : field_matches_filter(Rows[r])})

(* A row that is drawn as selected is one of the selected name, or its     *)
(* bytes are the selected ones: a row without a place has none, and is     *)
(* drawn as selected only with a selection of no bytes at the very start.  *)
(* The selected row itself is drawn as selected wherever it is drawn.      *)
SelectedRowsAreSelected ==
    /\ \A i \in 1 .. Len(draw_field_table) :
          LET row == Rows[draw_field_table[i]]
          IN is_selected(row) =>
                \/ row.display_name = selected_field_name
                \/ row.offset_valid /\ << row.offset, row.byte_len >> = selected_field_range
                \/ ~row.offset_valid /\ selected_field_range = << 0, 0 >>
    /\ \A r \in 1 .. Len(Rows) :
          Rows[r].display_name = selected_field_name => is_selected(Rows[r])

(* The number of errors in the status bar, the entries of the panel and    *)
(* the sum of its summary are the same, and every failed row has an entry  *)
(* of its own, even if a filter hides it.                                  *)
PanelIsComplete ==
    /\ diagnostic_count = Len(diagnostics)
    /\ Len(diagnostics) = diagnostic_summary("SchemaParse")
                          + diagnostic_summary("SchemaValidation")
                          + diagnostic_summary("IncludeResolution")
                          + diagnostic_summary("Interpretation")
                          + diagnostic_summary("Search")
    /\ \A r \in 1 .. Len(Rows) :
          Rows[r].failed <=> \E d \in 1 .. Len(diagnostics) : diagnostics[d].row = r

(* What is drawn beside the hex page is what the state says: the table,    *)
(* the selected rows in it, and the panel with its counts.                 *)
TableIsRight == TableIsComplete /\ SelectedRowsAreSelected /\ PanelIsComplete
=============================================================================
