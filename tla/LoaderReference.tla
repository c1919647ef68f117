--------------------------- MODULE LoaderReference ---------------------------
(***************************************************************************)
(* What loading a schema means, stated over the include graph rather than  *)
(* by a traversal, and the loader checked against it while nobody replaces *)
(* a file.                                                                 *)
(***************************************************************************)
EXTENDS IncludeLoader

(* The content a path has for the call: the editor's text at its own path. *)
Content(path) ==
    IF request.kind = "text" /\ path = normalize_for_cycle(request.path)
    THEN request.text ELSE disk[path]

-----------------------------------------------------------------------------
(* The include graph: what every file holds, each include in it replaced   *)
(* by the file that it leads to.                                           *)

ResolvedItem(path, item) ==
    IF item.tag = "include"
    THEN [tag |-> "include", path |-> normalize_for_cycle(Target(path, item))]
    ELSE item

Resolved(path, content) ==
    IF IsDoc(content)
    THEN [content EXCEPT !.items =
             [i \in 1 .. Len(content.items) |-> ResolvedItem(path, content.items[i])]]
    ELSE content

Graph == [p \in Path |-> Resolved(p, Content(p))]

IncludedBy(content) ==
    IF IsDoc(content)
    THEN {content.items[i].path :
             i \in {j \in 1 .. Len(content.items) : content.items[j].tag = "include"}}
    ELSE {}

Grown(graph, paths) == paths \cup UNION {IncludedBy(graph[p]) : p \in paths}

(* What is reached by following at most n includes.                        *)
Within(graph, paths, n) ==
    LET within[k \in 0 .. n] ==
          IF k = 0 THEN paths ELSE Grown(graph, within[k - 1])
    IN within[n]

Includes(path) == IncludedBy(Graph[path])

Reachable(paths) == Within(Graph, paths, Cardinality(Path))

Root == normalize_for_cycle(request.path)

Files == Reachable({Root})

Circular(path) == path \in Reachable(Includes(path))

-----------------------------------------------------------------------------
(* The structures and fields of a file with its includes in their places.  *)

(* The first n of the parts, one after the other.                          *)
Joined(parts, n) ==
    LET upTo[k \in 0 .. n] == IF k = 0 THEN << >> ELSE upTo[k - 1] \o parts[k]
    IN upTo[n]

StructureParts(content, flat) ==
    [i \in 1 .. Len(content.items) |->
        IF content.items[i].tag = "include" THEN flat[content.items[i].path].structures
        ELSE << >>]

FieldParts(content, flat) ==
    [i \in 1 .. Len(content.items) |->
        IF content.items[i].tag = "include" THEN flat[content.items[i].path].fields
        ELSE << content.items[i] >>]

(* A file, given what the files that it includes come to.                  *)
Merged(content, flat) ==
    IF IsDoc(content)
    THEN [structures |-> content.structures
                         \o Joined(StructureParts(content, flat), Len(content.items)),
          fields |-> Joined(FieldParts(content, flat), Len(content.items))]
    ELSE [structures |-> << >>, fields |-> << >>]

MergedFiles(graph, flat) == [p \in Path |-> Merged(graph[p], flat)]

EmptyFiles == [p \in Path |-> [structures |-> << >>, fields |-> << >>]]

(* Every file, with its includes followed to a depth of less than n.       *)
FlattenedTo(graph, n) ==
    LET flat[k \in 0 .. n] ==
          IF k = 0 THEN EmptyFiles
          ELSE MergedFiles(graph, flat[k - 1])
    IN flat[n]

(* Without circles no chain of includes is longer than there are paths.    *)
Flatten(path) == FlattenedTo(Graph, Cardinality(Path))[path]

FlatSchema(path) ==
    LET flat == Flatten(path)
    IN SchemaOf([Frame(path, Graph[path]) EXCEPT
                   !.structures = flat.structures, !.fields = flat.fields])

(* A file that is at fault by itself, or by what its includes add to it.   *)
Readable(path) ==
    /\ IsDoc(Graph[path])
    /\ validate_include_endianness(Graph[Root].endianness, Graph[path].endianness)

Legal ==
    /\ \A p \in Files : ~Circular(p)
    /\ \A p \in Files : Readable(p) /\ validate_schema(FlatSchema(p))

Answered == outcome # None /\ edits = 0 /\ request.kind # "alone"

(* A call succeeds exactly if every file it reaches exists, parses, agrees *)
(* with the root's byte order, takes part in no circle and is valid with   *)
(* its includes; it then returns the depth-first merge in document order.  *)
LoadsExactlyTheLegal ==
    Answered =>
       /\ outcome.ok <=> Legal
       /\ outcome.ok => outcome.schema = FlatSchema(Root)

(* A failure names a file that really is at fault, not the file that       *)
(* happened to include it.                                                 *)
ErrorNamesTheFault ==
    Answered /\ ~outcome.ok =>
       CASE outcome.kind = "Io" -> outcome.path \in Files /\ Graph[outcome.path] = Missing
         [] outcome.kind = "Yaml" -> \E p \in Files : Graph[p] = Garbled
         [] outcome.kind = "IncludeCycle" -> \E p \in Files : Circular(p)
         [] outcome.kind = "Validation" ->
               LET p == outcome.path
               IN /\ p \in Files
                  /\ \/ ~Readable(p)
                     \/ /\ \A q \in Reachable(Includes(p)) :
                              Readable(q) /\ ~Circular(q) /\ validate_schema(FlatSchema(q))
                        /\ ~validate_schema(FlatSchema(p))

(* A schema without a byte order is read as little-endian.                 *)
Effective(endianness) == IF endianness = None THEN "Little" ELSE endianness

(* The message of validate_include_endianness states a rule: schema-level  *)
(* defaults must match for includes in v1.  So the fields of every merged  *)
(* file are read in the byte order the file declares.                      *)
DefaultsMatch ==
    Answered /\ outcome.ok =>
       \A p \in Files :
          Graph[p].endianness # None =>
             Graph[p].endianness = Effective(outcome.schema.endianness)
=============================================================================
