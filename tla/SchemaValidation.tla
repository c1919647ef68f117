-------------------------- MODULE SchemaValidation --------------------------
(***************************************************************************)
(* validate_schema of parser.rs: the gate between a schema that parses and *)
(* one that the interpreter is given.  Every `return Err` of the code is a *)
(* conjunct; which of several messages is reported first is not modelled.  *)
(***************************************************************************)
EXTENDS SchemaModel

validate_int_expr(expr) ==
    LET Named(leaf) == leaf.op = "ref" => leaf.field # Blank
        Once(e) == IF IsBinary(e) THEN Named(e.left) /\ Named(e.right)
                                  ELSE Named(e)
    IN IF IsBinary(expr) THEN Once(expr.left) /\ Once(expr.right)
                         ELSE Named(expr)

validate_when_condition(condition) ==
    /\ condition.field # Blank
    /\ condition.op = "BitSet" => condition.value <= MaxBit

(* An offset that reads earlier values, as a field and an instance have it. *)
ValidDynamicOffset(def) ==
    /\ def.offset.kind = "FieldRef" => def.offset.field # Blank
    /\ def.offset.kind = "Expr" => validate_int_expr(def.offset.expr)
    /\ def.offset.kind \in {"FieldRef", "Expr"} => def.repeat = None

(* Bug: a repeat has a least count and no most.                            *)
UnlimitedRepeatCount(def) ==
    def.repeat # None => def.repeat.count >= 1

ValidRepeatCount(def) ==
    def.repeat # None => def.repeat.count \in 1 .. MaxRepeatCount

ValidWhen(def) ==
    def.when # None => validate_when_condition(def.when)

(* Bug: a dynamic length is allowed on a repeated field.                   *)
LaxLength(field) ==
    IF field.ty \in SizedType THEN field.length # None ELSE field.length = None

ValidLength(field) ==
    IF field.ty \in SizedType
    THEN /\ field.length # None
         /\ field.length.kind = "Literal" => field.length.value > 0
         /\ field.length.kind = "FieldRef" => field.length.field # Blank
         /\ field.length.kind = "Expr" => validate_int_expr(field.length.expr)
         /\ field.length.kind # "Literal" => field.repeat = None
    ELSE field.length = None

validate_field_def(field, context) ==
    /\ field.name # Blank
    /\ IF context = "StructChild"
       THEN field.offset.kind = "Relative"
       ELSE field.offset.kind # "Relative" /\ ValidDynamicOffset(field)
    /\ ValidRepeatCount(field)
    /\ field.repeat # None => field.repeat.stride = None
    /\ ValidWhen(field)
    /\ ValidLength(field)

validate_struct_instance(instance, schema) ==
    /\ instance.name # Blank
    /\ instance.struct_name # Blank
    /\ \E s \in 1 .. Len(schema.structures) :
          schema.structures[s].name = instance.struct_name
    /\ instance.offset.kind # "Relative"
    /\ ValidDynamicOffset(instance)
    /\ ValidRepeatCount(instance)
    /\ instance.repeat # None =>
          instance.repeat.stride # None /\ instance.repeat.stride # 0
    /\ ValidWhen(instance)

validate_structures(schema) ==
    /\ \A s \in 1 .. Len(schema.structures) :
          LET structure == schema.structures[s]
          IN /\ structure.name # Blank
             /\ structure.fields # << >>
             /\ \A c \in 1 .. Len(structure.fields) :
                   validate_field_def(structure.fields[c], "StructChild")
    /\ \A s, t \in 1 .. Len(schema.structures) :
          schema.structures[s].name = schema.structures[t].name => s = t

validate_schema(schema) ==
    /\ schema.schema_name # Blank
    /\ schema.schema_version >= 1
    /\ validate_structures(schema)
    /\ \A i \in 1 .. Len(schema.fields) :
          LET item == schema.fields[i]
          IN IF item.tag = "field"
             THEN validate_field_def(item, "TopLevel")
             ELSE validate_struct_instance(item, schema)
=============================================================================
