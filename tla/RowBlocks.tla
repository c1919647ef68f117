------------------------------ MODULE RowBlocks ------------------------------
(***************************************************************************)
(* What interpret_schema promises about the table, whatever the file holds *)
(* and whatever fails: each item of the schema, in schema order, adds one  *)
(* block of rows, and the names of a block are known from the item alone.  *)
(* The only freedom is whether a condition held, failed or could not be    *)
(* evaluated, and whether an instance could be placed.                     *)
(***************************************************************************)
EXTENDS SchemaModel

VARIABLES schema, next, names

Plain(def) == def.repeat = None

(* All the rows of a repeated or single field.                             *)
Elements(prefix, field) ==
    IF Plain(field) THEN << Member(prefix, field.name) >>
    ELSE [k \in 1 .. field.repeat.count |->
             Indexed(Member(prefix, field.name), k - 1)]

(* A condition that is false leaves no row, one that cannot be evaluated   *)
(* a single row under the name of the field.                               *)
FieldBlocks(prefix, field) ==
    {Elements(prefix, field)}
    \cup IF field.when = None THEN {}
         ELSE {<< >>, << Member(prefix, field.name) >>}

Joined(S, T) == {x \o y : x \in S, y \in T}

(* One block of each of the first n sets, one after the other.             *)
Concatenations(blockSets, n) ==
    LET upTo[k \in 0 .. n] ==
          IF k = 0 THEN {<< >>} ELSE Joined(upTo[k - 1], blockSets[k])
    IN upTo[n]

(* One row for each child, for an instance that could not be interpreted.  *)
FailedInstance(prefix, structure) ==
    [c \in 1 .. Len(structure.fields) |-> Member(prefix, structure.fields[c].name)]

ChildBlocks(prefix, structure) ==
    [c \in 1 .. Len(structure.fields) |-> FieldBlocks(prefix, structure.fields[c])]

PlacedInstance(prefix, structure) ==
    Concatenations(ChildBlocks(prefix, structure), Len(structure.fields))

PlacementBlocks(instance, structure) ==
    LET prefix(k) == IF Plain(instance) THEN instance.name
                                        ELSE Indexed(instance.name, k - 1)
    IN [k \in 1 .. RepeatCount(instance) |->
           {FailedInstance(prefix(k), structure)}
           \cup PlacedInstance(prefix(k), structure)]

Placements(instance, structure) ==
    Concatenations(PlacementBlocks(instance, structure), RepeatCount(instance))

(* The first structure of the name counts; without one there are no        *)
(* children to name.                                                       *)
InstanceBlocks(instance) ==
    LET S == {s \in 1 .. Len(schema.structures) :
                 schema.structures[s].name = instance.struct_name}
        structure == schema.structures[CHOOSE s \in S : \A t \in S : s <= t]
        failed == FailedInstance(instance.name, structure)
        unstrided == ~Plain(instance) /\ instance.repeat.stride = None
    IN IF S = {} THEN {<< >>}
       ELSE (IF unstrided THEN {failed} ELSE Placements(instance, structure))
            \cup IF instance.when = None THEN {} ELSE {<< >>, failed}

Blocks(def) ==
    IF def.tag = "field" THEN FieldBlocks(<< >>, def) ELSE InstanceBlocks(def)

Init ==
    /\ schema \in Schema
    /\ next = 1
    /\ names = << >>

Emit ==
    /\ next <= Len(schema.fields)
    /\ \E block \in Blocks(schema.fields[next]) : names' = names \o block
    /\ next' = next + 1
    /\ UNCHANGED schema

Spec == Init /\ [][Emit]_<<schema, next, names>>
             /\ WF_<<schema, next, names>>(Emit)
=============================================================================
