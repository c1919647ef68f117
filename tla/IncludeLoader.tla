---------------------------- MODULE IncludeLoader ----------------------------
(***************************************************************************)
(* Loading a schema with includes: parse_schema_file,                      *)
(* parse_schema_str_with_base_path and parse_schema_str of parser.rs.      *)
(*                                                                         *)
(* The recursion of parse_schema_source_inner is a stack of frames, one    *)
(* for each file being read.  One step opens a file (canonicalize, read,   *)
(* parse), takes one item of the innermost file, or finishes that file.    *)
(* Between steps another program may replace files on disk.                *)
(***************************************************************************)
EXTENDS SchemaValidation, FiniteSets

CONSTANTS
    Path,              \* paths: records of a directory and a file name
    Canon,             \* Canon[p]: what p is after following links
    CanonDir,          \* CanonDir[d]: what directory d is after following links
    Docs,              \* the contents a file may have
    Disks,             \* what the files may hold when the call is made
    Requests,          \* the calls that may be made
    MaxEdits           \* bound: replacements of a file during one call

(* A file's content as far as the loader can tell: not there, not YAML,    *)
(* YAML with a field item of no legal shape, or a schema document.         *)
Missing == [kind |-> "missing"]
Garbled == [kind |-> "garbled"]
Malformed == [kind |-> "malformed"]
IsDoc(content) == content.kind = "doc"

(* An include names a file, and perhaps another directory.                 *)
IncludeItem ==
    [tag : {"include"}, dir : {p.dir : p \in Path} \cup {None},
     file : {p.file : p \in Path}]

SchemaDoc ==
    [kind : {"doc"}, schema_name : Name, schema_version : Nat,
     endianness : Option(Endianness), structures : Seq(StructureDef),
     items : Seq(FieldItem \cup IncludeItem)]

(* base_dir.join(include): the directory is that of the canonical path.    *)
Target(path, include) ==
    [dir |-> IF include.dir = None THEN path.dir ELSE include.dir,
     file |-> include.file]

ASSUME PathAssumption ==
    /\ IsFiniteSet(Path)
    /\ Canon \in [Path -> Path]
    /\ \A p \in Path : Canon[Canon[p]] = Canon[p]
    /\ CanonDir \in [{p.dir : p \in Path} -> {p.dir : p \in Path}]
    /\ \A p \in Path : [p EXCEPT !.dir = CanonDir[@]] \in Path
    /\ \A p \in Path, include \in IncludeItem : Target(p, include) \in Path
    /\ MaxEdits \in Nat

ASSUME ContentAssumption ==
    /\ Docs \subseteq SchemaDoc \cup {Missing, Garbled, Malformed}
    /\ Disks \subseteq [Path -> Docs]
    /\ \A r \in Requests : r.kind \in {"file", "text", "alone"}
    /\ \A r \in Requests : r.kind \in {"file", "text"} => r.path \in Path
    /\ \A r \in Requests : r.kind \in {"text", "alone"} =>
          r.text \in SchemaDoc \cup {Garbled, Malformed}

VARIABLES
    disk,              \* what each canonical path holds
    request,           \* the call being served
    stack,             \* the files being read, outermost first
    outcome,           \* None, or what the call returned
    edits              \* replacements made so far

vars == <<disk, request, stack, outcome, edits>>

-----------------------------------------------------------------------------
(* Links are followed only to a file that exists; of a path to a missing   *)
(* file only the directory is canonical.                                   *)
normalize_for_cycle(path) ==
    IF disk[Canon[path]] # Missing THEN Canon[path]
    ELSE [path EXCEPT !.dir = CanonDir[@]]

Reading == {stack[f].path : f \in 1 .. Len(stack)}

(* Bug: the report of a cycle always starts at the outermost file.         *)
Outermost(path) == 1

Position(path) == CHOOSE f \in 1 .. Len(stack) : stack[f].path = path

Top == stack[Len(stack)]

Frame(path, doc) ==
    [path |-> path, doc |-> doc, next |-> 1,
     structures |-> doc.structures, fields |-> << >>]

Loaded(schema) == [ok |-> TRUE, schema |-> schema]
Failed(kind, path) == [ok |-> FALSE, kind |-> kind, path |-> path]
Cycle(paths) == [ok |-> FALSE, kind |-> "IncludeCycle", cycle |-> paths]

(* Every frame returns the error it is given; none adds its own path.      *)
Return(result) ==
    /\ outcome' = result
    /\ stack' = << >>

RootEndianness(doc) == IF stack = << >> THEN doc.endianness
                                        ELSE stack[1].doc.endianness

validate_include_endianness(root, own) ==
    root # None /\ own # None => root = own

(* Bug: the stack is not searched.                                         *)
OpenUnchecked(path, content) ==
    /\ IsDoc(content)
    /\ stack' = Append(stack, Frame(path, content))
    /\ UNCHANGED outcome

(* From the first reading of a file to the include of it.                  *)
CycleTo(path) ==
    Cycle([f \in 1 .. (Len(stack) - Position(path) + 2) |->
             IF Position(path) + f - 1 > Len(stack) THEN path
             ELSE stack[Position(path) + f - 1].path])

(* parse_schema_source_inner up to its loop.                               *)
Open(path, content) ==
    IF path \in Reading
    THEN Return(CycleTo(path))
    ELSE IF content = Garbled THEN Return(Failed("Yaml", None))
    ELSE IF content = Malformed THEN Return(Failed("Validation", path))
    ELSE IF ~validate_include_endianness(RootEndianness(content), content.endianness)
    THEN Return(Failed("Validation", path))
    ELSE /\ stack' = Append(stack, Frame(path, content))
         /\ UNCHANGED outcome

(* parse_schema_file_inner: a cycle is reported before the file is read.   *)
parse_schema_file_inner(path) ==
    LET normalized == normalize_for_cycle(path)
    IN IF normalized \notin Reading /\ disk[normalized] = Missing
       THEN Return(Failed("Io", normalized))
       ELSE Open(normalized, disk[normalized])

SchemaOf(frame) ==
    [schema_name |-> frame.doc.schema_name,
     schema_version |-> frame.doc.schema_version,
     endianness |-> frame.doc.endianness,
     structures |-> frame.structures, fields |-> frame.fields]

-----------------------------------------------------------------------------
Init ==
    /\ disk \in Disks
    /\ request \in Requests
    /\ stack = << >>
    /\ outcome = None
    /\ edits = 0

Starting(kind) == request.kind = kind /\ stack = << >> /\ outcome = None

parse_schema_file ==
    /\ Starting("file")
    /\ parse_schema_file_inner(request.path)
    /\ UNCHANGED <<disk, request, edits>>

(* The text is the editor's; the path says where it would be saved.        *)
parse_schema_str_with_base_path ==
    /\ Starting("text")
    /\ Open(normalize_for_cycle(request.path), request.text)
    /\ UNCHANGED <<disk, request, edits>>

(* Text without a place in the file system cannot include anything.        *)
AloneResult(content) ==
    IF content = Garbled THEN Failed("Yaml", None)
    ELSE IF content = Malformed THEN Failed("Validation", None)
    ELSE IF \E i \in 1 .. Len(content.items) : content.items[i].tag = "include"
    THEN Failed("Validation", None)
    ELSE LET schema == SchemaOf([Frame(None, content) EXCEPT !.fields = content.items])
         IN IF validate_schema(schema) THEN Loaded(schema)
            ELSE Failed("Validation", None)

parse_schema_str ==
    /\ Starting("alone")
    /\ Return(AloneResult(request.text))
    /\ UNCHANGED <<disk, request, edits>>

InFile == stack # << >> /\ Top.next <= Len(Top.doc.items)

ThisItem == Top.doc.items[Top.next]

TakeItem ==
    /\ InFile
    /\ ThisItem.tag # "include"
    /\ stack' = [stack EXCEPT ![Len(stack)].next = @ + 1,
                              ![Len(stack)].fields = Append(@, ThisItem)]
    /\ UNCHANGED <<disk, request, outcome, edits>>

Include ==
    /\ InFile
    /\ ThisItem.tag = "include"
    /\ parse_schema_file_inner(Target(Top.path, ThisItem))
    /\ UNCHANGED <<disk, request, edits>>

(* Bug: the included fields come before those already collected.           *)
Prepended(frame, schema) ==
    [frame EXCEPT !.next = @ + 1,
                  !.structures = @ \o schema.structures,
                  !.fields = schema.fields \o @]

(* Bug: the include stays the next item.                                   *)
Reincluded(frame, schema) ==
    [frame EXCEPT !.structures = schema.structures,
                  !.fields = schema.fields]

(* The structures and fields of a finished file extend those of the file   *)
(* that includes it, at the include.                                       *)
Extended(frame, schema) ==
    [frame EXCEPT !.next = @ + 1,
                  !.structures = @ \o schema.structures,
                  !.fields = @ \o schema.fields]

(* Bug: a merged schema that is invalid is blamed on the outermost file.   *)
BlameOutermost ==
    /\ stack # << >>
    /\ ~InFile
    /\ LET schema == SchemaOf(Top)
           depth == Len(stack)
       IN IF ~validate_schema(schema) THEN Return(Failed("Validation", stack[1].path))
          ELSE IF depth = 1 THEN Return(Loaded(schema))
          ELSE /\ stack' = [SubSeq(stack, 1, depth - 1)
                              EXCEPT ![depth - 1] = Extended(@, schema)]
               /\ UNCHANGED outcome
    /\ UNCHANGED <<disk, request, edits>>

FinishFile ==
    /\ stack # << >>
    /\ ~InFile
    /\ LET schema == SchemaOf(Top)
           depth == Len(stack)
       IN IF ~validate_schema(schema) THEN Return(Failed("Validation", Top.path))
          ELSE IF depth = 1 THEN Return(Loaded(schema))
          ELSE /\ stack' = [SubSeq(stack, 1, depth - 1)
                              EXCEPT ![depth - 1] = Extended(@, schema)]
               /\ UNCHANGED outcome
    /\ UNCHANGED <<disk, request, edits>>

(* Another program replaces a file while the call runs.                    *)
ReplaceFile ==
    /\ outcome = None
    /\ edits < MaxEdits
    /\ \E p \in Path, content \in Docs :
          /\ Canon[p] = p
          /\ disk' = [disk EXCEPT ![p] = content]
    /\ edits' = edits + 1
    /\ UNCHANGED <<request, stack, outcome>>

(* The caller has its answer.                                              *)
Done ==
    /\ outcome # None
    /\ UNCHANGED vars

Load == parse_schema_file \/ parse_schema_str_with_base_path \/ parse_schema_str
        \/ TakeItem \/ Include \/ FinishFile

Next == Load \/ ReplaceFile \/ Done

Spec == Init /\ [][Next]_vars /\ WF_vars(Load)

-----------------------------------------------------------------------------
(* Properties *)

(* Type correctness.                                                       *)
TypeOK ==
    /\ disk \in [Path -> Docs]
    /\ request \in Requests
    /\ edits \in 0 .. MaxEdits
    /\ stack \in Seq([path : Path, doc : SchemaDoc, next : Nat \ {0},
                      structures : Seq(StructureDef), fields : Seq(FieldItem)])
    /\ outcome # None => outcome.ok \in BOOLEAN /\ stack = << >>

(* The recursion is bounded by the number of files, whatever is replaced   *)
(* on disk meanwhile: no file is being read twice at one time, so a chain  *)
(* of includes that never ends is always reported as a cycle.              *)
NoFileTwice ==
    \A f, g \in 1 .. Len(stack) : stack[f].path = stack[g].path => f = g

(* The paths one file may be known by while it comes and goes.             *)
Spellings(path) == {path, Canon[path], [path EXCEPT !.dir = CanonDir[@]]}

(* A reported cycle is one: the files between the first occurrence and the *)
(* offending include are all still being read, each included by the one    *)
(* before, and the report starts and ends with the same file.              *)
CycleIsReal ==
    [][ (outcome = None /\ outcome' # None /\ ~outcome'.ok /\ outcome'.kind = "IncludeCycle")
        => LET c == outcome'.cycle
           IN /\ Len(c) > 1 /\ c[1] = c[Len(c)]
              /\ \A i \in 1 .. (Len(c) - 1) : \E f \in 1 .. Len(stack) :
                    /\ stack[f].path = c[i]
                    /\ LET target == Target(c[i], stack[f].doc.items[stack[f].next])
                       IN c[i + 1] \in Spellings(target) ]_vars

(* Every call returns, includes in a circle and replaced files included.   *)
Returns == <>(outcome # None)
=============================================================================
