------------------------------ MODULE MCDocument ------------------------------
(* One instance in which schemas, rows and selections vary, and one in     *)
(* which positions and searches do.                                        *)
EXTENDS DocumentView

CONSTANTS a, b, h, p, q

MCIdents == {a, b, h}
MCPaths == {p, q}

Good(display, name, offset, len) ==
    [display_name |-> display, schema_name |-> name, offset |-> offset,
     byte_len |-> len, offset_valid |-> TRUE, failed |-> FALSE]
Bad(row) == [row EXCEPT !.failed = TRUE]
Unplaced(display, name) ==
    [display_name |-> display, schema_name |-> name, offset |-> 0,
     byte_len |-> 0, offset_valid |-> FALSE, failed |-> TRUE]

(* A repeated instance h with children a and b, and between them in the    *)
(* table a plain field b.                                                  *)
TableA == << Good(<<h, 0, a>>, <<a>>, 0, 1), Good(<<b>>, <<b>>, 3, 1),
             Bad(Good(<<h, 0, b>>, <<b>>, 4, 1)) >>
(* The same schema with a shorter reach: a row without a place, one that   *)
(* lies past the end, and one of no bytes at the start.                    *)
TableB == << Unplaced(<<h, 0, a>>, <<a>>), Bad(Good(<<b>>, <<b>>, 9, 1)),
             Good(<<a>>, <<a>>, 0, 0) >>

TextA == [lines |-> << <<h>>, None, <<a>>, <<b>> >>, tables |-> {TableA},
          errors |-> {"IncludeResolution"}]
TextB == [lines |-> << <<b>>, <<h, a>> >>, tables |-> {TableB},
          errors |-> {}]
Broken == [lines |-> << <<a>> >>, tables |-> {}, errors |-> {"SchemaValidation"}]

MCTables == {TableA, TableB}
MCTexts == {TextA, TextB, Broken}
MCFilters == {None, b}

(* No search, in the instance about schemas.                               *)
NoQueries == {Empty}
NoAnswers == [m \in {"Ascii"} |-> [query \in NoQueries |-> [kind |-> "unreadable"]]]

MCQueries == {Empty, Spaces} \cup { <<w>> : w \in {"one", "two", "odd"} }
Hits(len, hits) == [kind |-> "found", len |-> len, hits |-> hits]
MCAnswers ==
    [m \in {"Ascii", "Hex"} |->
       [query \in MCQueries |->
          CASE query = <<"one">> -> IF m = "Ascii" THEN Hits(3, <<1>>)
                                    ELSE Hits(1, << >>)
            [] query = <<"two">> -> Hits(2, <<0, 3, 4>>)
            [] query = <<"odd">> -> IF m = "Ascii" THEN [kind |-> "unreadable"]
                                    ELSE [kind |-> "invalid"]
            [] OTHER -> [kind |-> "unreadable"]]]

(* In the instance about searches the schema has one row.                  *)
OneTable == << Good(<<b>>, <<b>>, 1, 3) >>
OneText == [lines |-> << <<b>> >>, tables |-> {OneTable}, errors |-> {"SchemaParse"}]
OneTables == {OneTable}
OneTexts == {OneText}
NoFilters == {None}
OnePath == {p}
=============================================================================
