---------------------------- MODULE SchemaErrors ----------------------------
(***************************************************************************)
(* What the diagnostics panel shows of a schema that could not be loaded:  *)
(* schema_error_diagnostic of the GUI's main.rs, composed with the loader  *)
(* that answered.  The GUI always loads the text of its editor, under the  *)
(* path of the schema; that path and that text are what an error falls     *)
(* back to.  Lines stand for their numbers; how long the texts are, and    *)
(* which line the parser of YAML tells, is chosen when it first matters.   *)
(***************************************************************************)
EXTENDS LoaderReference

CONSTANTS MaxLines     \* bound: lines of a file or of the editor's text

ASSUME LinesAssumption == MaxLines \in Nat \ {0}

(* None is no path, no line, and neither a location nor a snippet.         *)
ASSUME NoneAssumption ==
    /\ None \notin Path \cup Nat
    /\ None \notin [path : Path, line : Nat]
    /\ None \notin [first : Nat, marked : Nat, last : Nat]

VARIABLES
    text_lines,        \* the lines of the text that was loaded
    fault_line,        \* where the YAML error is, None if it was not told
    panel              \* None, or the diagnostic made of the error

errorVars == <<text_lines, fault_line, panel>>

Snippet(lines, line) ==
    [first |-> IF line > 2 THEN line - 2 ELSE 1, marked |-> line,
     last |-> IF line + 2 <= lines THEN line + 2 ELSE lines]

(* Bug: a line past the end of the text is not refused.                    *)
SnippetUnchecked(lines, line) == IF line = 0 THEN None ELSE Snippet(lines, line)

(* The line and up to two on either side of it.                            *)
source_snippet(lines, line) ==
    IF line = 0 \/ line > lines THEN None ELSE Snippet(lines, line)

Place(path, line) == [path |-> path, line |-> line]

source_location(path, line) ==
    IF path = None \/ line = None THEN None ELSE Place(path, line)

(* The text itself for its own path, any other file as it is on disk.      *)
schema_snippet(location, lines, fallback_path) ==
    IF location = None THEN None
    ELSE IF location.path = fallback_path THEN source_snippet(lines, location.line)
    ELSE IF disk[Canon[location.path]] = Missing THEN None
    ELSE source_snippet(MaxLines, location.line)

Diagnostic(category, location, snippet) ==
    [category |-> category, location |-> location, snippet |-> snippet]

(* Bug: every error is placed in the text that was loaded.                 *)
DiagnosticInText(error, line, lines, fallback_path) ==
    LET location == Place(fallback_path, IF line = None THEN 1 ELSE line)
    IN Diagnostic(IF error.kind = "Yaml" THEN "SchemaParse" ELSE "IncludeResolution",
                  location, schema_snippet(location, lines, fallback_path))

(* Only the parser of YAML tells a line; the loader tells a path with      *)
(* every other error but that of a cycle.                                  *)
schema_error_diagnostic(error, line, lines, fallback_path) ==
    CASE error.kind = "Yaml" ->
            LET location == source_location(fallback_path, line)
            IN Diagnostic("SchemaParse", location, schema_snippet(location, lines, fallback_path))
      [] error.kind = "Validation" ->
            LET location == source_location(IF error.path = None THEN fallback_path
                                            ELSE error.path, None)
            IN Diagnostic("SchemaValidation", location,
                          schema_snippet(location, lines, fallback_path))
      [] error.kind = "Io" ->
            Diagnostic("IncludeResolution", Place(error.path, 1), None)
      [] error.kind = "IncludeCycle" ->
            Diagnostic("IncludeResolution", None, None)

-----------------------------------------------------------------------------
InitErrors == Init /\ text_lines = 0 /\ fault_line = None /\ panel = None

(* An error at the end of a text may be on the line after its last; an     *)
(* error in the shape of one item has no line.                             *)
ShowError ==
    /\ request.kind = "text"
    /\ outcome # None
    /\ ~outcome.ok
    /\ panel = None
    /\ \/ outcome.kind = "Yaml" /\ fault_line' \in (1 .. MaxLines + 1) \cup {None}
       \/ outcome.kind # "Yaml" /\ fault_line' = None
    /\ text_lines' \in 1 .. MaxLines
    /\ request.text = Garbled /\ fault_line' # None => fault_line' <= text_lines' + 1
    /\ panel' = schema_error_diagnostic(outcome, fault_line', text_lines', request.path)
    /\ UNCHANGED vars

Loading == Next /\ UNCHANGED errorVars

NextErrors == Loading \/ ShowError

SpecErrors == InitErrors /\ [][NextErrors]_<<vars, errorVars>>
                         /\ WF_<<vars, errorVars>>(Load /\ UNCHANGED errorVars)

-----------------------------------------------------------------------------
(* Properties *)

(* A file that the panel names is at fault, if nobody replaced files while *)
(* it was loaded.  An unreadable file is one that the text really reaches  *)
(* through its includes, and never the text itself; a line is named only   *)
(* in a text that is no YAML, or, and this is the one mistake the panel    *)
(* can make, in a text that is well formed and includes a file which is    *)
(* not: the YAML error of an included file has lost its path.              *)
PlaceIsAtFault ==
    panel # None /\ panel.location # None /\ edits = 0 =>
       LET path == panel.location.path
       IN CASE panel.category = "IncludeResolution" ->
                  /\ path \in Files \ {Root}
                  /\ Graph[path] = Missing
            [] panel.category = "SchemaParse" ->
                  /\ path = request.path
                  /\ \/ request.text = Garbled
                     \/ \E included \in Files \ {Root} : Graph[included] = Garbled
            [] OTHER -> FALSE

(* If the text itself is no YAML, and the parser said on which of its      *)
(* lines, the panel quotes that line with the two lines on either side, as *)
(* far as the text has them; and it never quotes anything but lines that   *)
(* the text has, around the line it names, also if that line is one of     *)
(* another, longer file.                                                   *)
QuotesTheFault ==
    /\ panel # None /\ request.text = Garbled /\ fault_line \in 1 .. text_lines =>
          /\ panel.snippet # None
          /\ panel.snippet.marked = fault_line
          /\ panel.snippet.first .. panel.snippet.last =
                {l \in 1 .. text_lines : l - fault_line \in -2 .. 2}
    /\ panel # None /\ panel.snippet # None =>
          /\ panel.location.path = request.path
          /\ panel.snippet.marked = panel.location.line
          /\ panel.snippet.marked \in panel.snippet.first .. panel.snippet.last
          /\ panel.snippet.first .. panel.snippet.last \subseteq 1 .. text_lines
=============================================================================
