----------------------------- MODULE MCSchemaText -----------------------------
(* Every text of a few characters, of those that the parser tells apart.   *)
EXTENDS SchemaText

MCChars == {Key, Wide, LF, CR, Space, Dash, Quote, Hash, Escape, "a"}
=============================================================================
