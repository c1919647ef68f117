---------------------------- MODULE Interpreter ----------------------------
(***************************************************************************)
(* interpret_schema of binocular-core: one pass over the items of a schema *)
(* that turns a file into rows.  Each loop of the code is a place of `pc`, *)
(* each turn of a loop is a step.                                          *)
(*                                                                         *)
(* A decoded value keeps its number; the content of Float, Bytes and Ascii *)
(* is the slice of the file at the row's offset and length and is left     *)
(* out.  An error is its variant of InterpretError.                        *)
(***************************************************************************)
EXTENDS SchemaValidation

CONSTANTS
    Files,             \* the contents a file may have
    Schemas            \* the schemas the interpreter may be given

ASSUME InputAssumption ==
    /\ \A f \in Files : f \in Seq(0 .. (ByteBase - 1)) /\ Len(f) <= UsizeMax
    /\ \A s \in Schemas : s \in Schema

VARIABLES
    file,              \* the bytes behind the FileBuffer
    schema,            \* the schema to interpret
    pc,                \* "item", "field", "instance", "child", "childRepeat", "done"
    item,              \* position in schema.fields
    index,             \* index of the repeat loop of the item
    child,             \* position in structure.fields
    childIndex,        \* index of the repeat loop of the child
    base,              \* parent_base of the current instance
    context,           \* FieldContext: display name -> latest decoded value
    rows               \* the FieldEval rows pushed so far

vars == <<file, schema, pc, item, index, child, childIndex, base, context, rows>>

-----------------------------------------------------------------------------
(* Results *)

(* InterpretError, split by whether the text of the schema or the content  *)
(* of the file is at fault.  UnknownStructure exists too, but no row ever  *)
(* carries it.                                                             *)
StructuralErrors ==
    {"RelativeOffsetWithoutBase", "MissingStructStride", "Unsupported",
     "InvalidNumericByteWidth"}

ValueErrors ==
    {"OutOfBounds", "OffsetOverflow", "LengthOverflow",
     "MissingLengthReference", "InvalidLengthReferenceType", "NegativeLengthReference",
     "MissingOffsetReference", "InvalidOffsetReferenceType", "NegativeOffsetReference",
     "MissingConditionReference", "InvalidConditionReferenceType",
     "NegativeBitSetConditionSource",
     "MissingExpressionReference", "InvalidExpressionReferenceType",
     "ExpressionReferenceOverflow", "ExpressionOverflow",
     "NegativeExpressionLength", "ZeroExpressionLength", "ExpressionLengthOverflow",
     "NegativeExpressionOffset"}

InterpretError == StructuralErrors \cup ValueErrors

Ok(v) == [ok |-> TRUE, val |-> v]
Err(e) == [ok |-> FALSE, err |-> e]

Numeric(value) == value.kind \in {"UInt", "Int"}

(* The part that the four resolvers of a name share.  Signed and unsigned  *)
(* values need no tag: what the code asks of either is whether the number  *)
(* is in a range.                                                          *)
Lookup(name, c, missing, invalid) ==
    IF name \notin DOMAIN c THEN Err(missing)
    ELSE IF ~Numeric(c[name]) THEN Err(invalid)
    ELSE Ok(c[name].n)

resolve_expression_reference(name, c) ==
    LET r == Lookup(name, c, "MissingExpressionReference",
                             "InvalidExpressionReferenceType")
    IN IF r.ok /\ r.val > I64Max THEN Err("ExpressionReferenceOverflow") ELSE r

resolve_condition_reference(name, c) ==
    Lookup(name, c, "MissingConditionReference", "InvalidConditionReferenceType")

(* Bug: `as usize' wraps a length that is negative or too large.           *)
WrappingLength(name, c) ==
    LET r == Lookup(name, c, "MissingLengthReference", "InvalidLengthReferenceType")
    IN IF r.ok THEN Ok(r.val % (UsizeMax + 1)) ELSE r

resolve_dynamic_length(name, c) ==
    LET r == Lookup(name, c, "MissingLengthReference", "InvalidLengthReferenceType")
    IN IF ~r.ok THEN r
       ELSE IF r.val < 0 THEN Err("NegativeLengthReference")
       ELSE IF r.val > UsizeMax THEN Err("LengthOverflow")
       ELSE r

resolve_dynamic_offset(name, c) ==
    LET r == Lookup(name, c, "MissingOffsetReference", "InvalidOffsetReferenceType")
    IN IF r.ok /\ r.val < 0 THEN Err("NegativeOffsetReference") ELSE r

-----------------------------------------------------------------------------
(* Expressions and conditions *)

(* The left operand is evaluated, and fails, before the right one.         *)
Combine(op, left, right) ==
    IF ~left.ok THEN left
    ELSE IF ~right.ok THEN right
    ELSE LET v == IF op = "add" THEN left.val + right.val
                                ELSE left.val - right.val
         IN IF v \in I64 THEN Ok(v) ELSE Err("ExpressionOverflow")

EvalLeaf(e, c) ==
    IF e.op = "const" THEN Ok(e.value) ELSE resolve_expression_reference(e.field, c)

EvalOnce(e, c) ==
    IF IsBinary(e) THEN Combine(e.op, EvalLeaf(e.left, c), EvalLeaf(e.right, c))
                   ELSE EvalLeaf(e, c)

eval_int_expr(e, c) ==
    IF IsBinary(e) THEN Combine(e.op, EvalOnce(e.left, c), EvalOnce(e.right, c))
                   ELSE EvalLeaf(e, c)

resolve_length_expr(e, c) ==
    LET r == eval_int_expr(e, c)
    IN IF ~r.ok THEN r
       ELSE IF r.val < 0 THEN Err("NegativeExpressionLength")
       ELSE IF r.val = 0 THEN Err("ZeroExpressionLength")
       ELSE IF r.val > UsizeMax THEN Err("ExpressionLengthOverflow")
       ELSE r

resolve_offset_expr(e, c) ==
    LET r == eval_int_expr(e, c)
    IN IF r.ok /\ r.val < 0 THEN Err("NegativeExpressionOffset") ELSE r

BitIsSet(n, bit) == (n \div 2^bit) % 2 = 1

eval_when(condition, c) ==
    LET r == resolve_condition_reference(condition.field, c)
    IN IF ~r.ok THEN r
       ELSE CASE condition.op = "Equals" -> Ok(r.val = condition.value)
              [] condition.op = "NotEquals" -> Ok(r.val # condition.value)
              [] condition.op = "BitSet" ->
                    IF r.val < 0 THEN Err("NegativeBitSetConditionSource")
                    ELSE Ok(BitIsSet(r.val, condition.value))

(* No condition is a condition that holds.                                 *)
Gate(def, c) == IF def.when = None THEN Ok(TRUE) ELSE eval_when(def.when, c)

-----------------------------------------------------------------------------
(* Offsets and lengths *)

resolve_offset_kind(offset, c) ==
    CASE offset.kind = "Absolute" -> Ok(offset.value)
      [] offset.kind = "Relative" -> Err("RelativeOffsetWithoutBase")
      [] offset.kind = "FieldRef" -> resolve_dynamic_offset(offset.field, c)
      [] offset.kind = "Expr" -> resolve_offset_expr(offset.expr, c)

Width(ty) == CASE ty = "U8" -> 1
               [] ty = "U16" -> 2
               [] ty \in {"U32", "I32", "F32"} -> 4
               [] ty = "U64" -> 8

LiteralLength(value) ==
    IF value > UsizeMax THEN Err("LengthOverflow") ELSE Ok(value)

fixed_field_byte_len(field) ==
    IF field.ty \in NumericType THEN Ok(Width(field.ty))
    ELSE IF field.length = None THEN Ok(0)
    ELSE IF field.length.kind = "Literal" THEN LiteralLength(field.length.value)
    ELSE Err("Unsupported")

resolve_field_byte_len(field, c) ==
    IF field.ty \in SizedType /\ field.length # None
    THEN CASE field.length.kind = "Literal" -> LiteralLength(field.length.value)
           [] field.length.kind = "FieldRef" ->
                 resolve_dynamic_length(field.length.field, c)
           [] field.length.kind = "Expr" ->
                 resolve_length_expr(field.length.expr, c)
    ELSE fixed_field_byte_len(field)

(* Bug: the multiplication and the addition are not checked.               *)
UncheckedAdvance(start, k, stride) == Ok(start + k * stride)

(* checked_mul then checked_add on u64.                                    *)
Advance(start, k, stride) ==
    IF k = 0 THEN Ok(start)
    ELSE IF k * stride > U64Max \/ start + k * stride > U64Max
    THEN Err("OffsetOverflow")
    ELSE Ok(start + k * stride)

(* The stride of a repeated field is its own length; it is asked for only  *)
(* from the second element on.                                             *)
AdvanceByLength(start, k, field) ==
    LET stride == fixed_field_byte_len(field)
    IN IF ~start.ok \/ k = 0 THEN start
       ELSE IF ~stride.ok THEN stride
       ELSE Advance(start.val, k, stride.val)

resolve_repeated_offset(field, k, c) ==
    AdvanceByLength(resolve_offset_kind(field.offset, c), k, field)

resolve_struct_instance_offset(instance, k, c) ==
    LET start == resolve_offset_kind(instance.offset, c)
    IN IF ~start.ok \/ k = 0 THEN start
       ELSE Advance(start.val, k, instance.repeat.stride)

resolve_struct_child_offset(parent, field, k) ==
    LET start == IF field.offset.kind # "Relative"
                 THEN Err("RelativeOffsetWithoutBase")
                 ELSE Advance(parent, 1, field.offset.value)
    IN AdvanceByLength(start, k, field)

-----------------------------------------------------------------------------
(* Reading the file *)

checked_range(offset, len) ==
    /\ offset <= UsizeMax
    /\ offset + len <= UsizeMax
    /\ offset + len <= Len(file)

(* The number spelled by w bytes of the file, in either byte order.        *)
Unsigned(offset, w, endianness) ==
    LET digit(k) == IF endianness = "Little" THEN file[offset + 1 + k]
                                             ELSE file[offset + w - k]
        pair(k) == digit(k) + ByteBase * digit(k + 1)
        quad(k) == pair(k) + Pow2 * pair(k + 2)
    IN CASE w = 1 -> digit(0)
         [] w = 2 -> pair(0)
         [] w = 4 -> quad(0)
         [] w = 8 -> quad(0) + Pow4 * quad(4)

Signed4(n) == IF n >= Pow4 \div 2 THEN n - Pow4 ELSE n

FieldValue == [kind : {"UInt"}, n : U64]
         \cup [kind : {"Int"}, n : (-(Pow4 \div 2)) .. ((Pow4 \div 2) - 1)]
         \cup [kind : {"Float", "Bytes", "Ascii"}, n : {0}]

ASSUME NoneAssumption ==
    None \notin FieldValue /\ None \notin InterpretError /\ None \notin StructureDef

FieldEndianness(field) ==
    IF field.endianness # None THEN field.endianness
    ELSE IF schema.endianness # None THEN schema.endianness
    ELSE "Little"

(* Bug: a slice that reaches past the end is cut off, not refused.         *)
LenientFieldAt(field, offset, len) ==
    IF field.ty \in SizedType THEN Ok([kind |-> field.ty, n |-> 0])
    ELSE IF ~checked_range(offset, len) THEN Err("OutOfBounds")
    ELSE Ok([kind |-> "UInt", n |-> Unsigned(offset, len, FieldEndianness(field))])

interpret_field_at(field, offset, len) ==
    LET n == Unsigned(offset, len, FieldEndianness(field))
    IN IF ~checked_range(offset, len) THEN Err("OutOfBounds")
       ELSE IF field.ty \in NumericType /\ len # Width(field.ty)
       THEN Err("InvalidNumericByteWidth")
       ELSE CASE field.ty \in {"U8", "U16", "U32", "U64"} ->
                    Ok([kind |-> "UInt", n |-> n])
              [] field.ty = "I32" -> Ok([kind |-> "Int", n |-> Signed4(n)])
              [] field.ty = "F32" -> Ok([kind |-> "Float", n |-> 0])
              [] field.ty \in SizedType -> Ok([kind |-> field.ty, n |-> 0])

(* One field on its own, with no context to refer to.                      *)
interpret_field(field) ==
    LET c == [n \in {} |-> None]
        len == resolve_field_byte_len(field, c)
        offset == resolve_offset_kind(field.offset, c)
    IN IF ~len.ok THEN len
       ELSE IF ~offset.ok THEN offset
       ELSE interpret_field_at(field, offset.val, len.val)

-----------------------------------------------------------------------------
(* Rows *)

ErrorRow(field, name, offset, valid, len, err) ==
    [field |-> field, display_name |-> name, resolved_offset |-> offset,
     offset_valid |-> valid, byte_len |-> len, value |-> None, error |-> err]

UnplacedRow(field, name, err) == ErrorRow(field, name, 0, FALSE, 0, err)

(* interpret_scalar_at: the length is resolved in the context of this row. *)
interpret_scalar_at(field, name, offset, c) ==
    LET len == resolve_field_byte_len(field, c)
        v == interpret_field_at(field, offset, len.val)
    IN IF ~len.ok THEN ErrorRow(field, name, offset, TRUE, 0, len.err)
       ELSE IF ~v.ok THEN ErrorRow(field, name, offset, TRUE, len.val, v.err)
       ELSE [field |-> field, display_name |-> name, resolved_offset |-> offset,
             offset_valid |-> TRUE, byte_len |-> len.val,
             value |-> v.val, error |-> None]

(* The row of one turn of a repeat loop, whose offset may not resolve.     *)
RowAt(field, name, offset, c) ==
    IF offset.ok THEN interpret_scalar_at(field, name, offset.val, c)
                 ELSE UnplacedRow(field, name, offset.err)

(* Bug: entry().or_insert keeps the first value of a name.                 *)
KeepFirstValue(c, name, value) ==
    [n \in DOMAIN c \cup {name} |-> IF n \in DOMAIN c THEN c[n] ELSE value]

(* HashMap::insert: the latest value of a name replaces an earlier one.    *)
record_context_value(c, name, value) ==
    [n \in DOMAIN c \cup {name} |-> IF n = name THEN value ELSE c[n]]

PushRow(row) ==
    /\ rows' = Append(rows, row)
    /\ context' = IF row.value = None THEN context
                  ELSE record_context_value(context, row.display_name, row.value)

(* The part of a display name that a repeated field or instance indexes.   *)
RepeatName(def, name, k) == IF def.repeat = None THEN name ELSE Indexed(name, k)

find_structure(name) ==
    LET S == {s \in 1 .. Len(schema.structures) : schema.structures[s].name = name}
    IN IF S = {} THEN None
       ELSE schema.structures[CHOOSE s \in S : \A t \in S : s <= t]

(* push_struct_instance_error_rows: one row for each child, under the name *)
(* it has without its own repeat.                                          *)
PushInstanceError(structure, name, err) ==
    /\ rows' = rows \o [c \in 1 .. Len(structure.fields) |->
                           UnplacedRow(structure.fields[c],
                                       Member(name, structure.fields[c].name), err)]
    /\ UNCHANGED context

-----------------------------------------------------------------------------
(* The pass *)

Init ==
    /\ file \in Files
    /\ schema \in Schemas
    /\ pc = "item"
    /\ item = 1
    /\ index = 0
    /\ child = 1
    /\ childIndex = 0
    /\ base = 0
    /\ context = [n \in {} |-> None]
    /\ rows = << >>

This == schema.fields[item]

AtItem(tag) ==
    /\ pc = "item"
    /\ item <= Len(schema.fields)
    /\ This.tag = tag

LeaveItem ==
    /\ pc' = "item"
    /\ item' = item + 1
    /\ UNCHANGED <<file, schema, index, child, childIndex, base>>

EnterRepeats(where) ==
    /\ pc' = where
    /\ index' = 0
    /\ UNCHANGED <<file, schema, item, child, childIndex, base, context, rows>>

(* interpret_scalar_repeats *)

EnterField ==
    /\ AtItem("field")
    /\ Gate(This, context) = Ok(TRUE)
    /\ EnterRepeats("field")

SkipField ==
    /\ AtItem("field")
    /\ Gate(This, context) = Ok(FALSE)
    /\ LeaveItem
    /\ UNCHANGED <<context, rows>>

(* Bug: a condition that cannot be evaluated is taken for a false one.     *)
HideField ==
    /\ AtItem("field")
    /\ ~Gate(This, context).ok
    /\ LeaveItem
    /\ UNCHANGED <<context, rows>>

RejectField ==
    /\ AtItem("field")
    /\ ~Gate(This, context).ok
    /\ PushRow(UnplacedRow(This, This.name, Gate(This, context).err))
    /\ LeaveItem

RepeatField ==
    /\ pc = "field"
    /\ index < RepeatCount(This)
    /\ PushRow(RowAt(This, RepeatName(This, This.name, index),
                     resolve_repeated_offset(This, index, context), context))
    /\ index' = index + 1
    /\ UNCHANGED <<file, schema, pc, item, child, childIndex, base>>

EndField ==
    /\ pc = "field"
    /\ index = RepeatCount(This)
    /\ LeaveItem
    /\ UNCHANGED <<context, rows>>

(* interpret_struct_instance *)

Structure == find_structure(This.struct_name)

Strided(def) == def.repeat # None => def.repeat.stride # None

(* No structure, no children to name: the instance leaves no trace.        *)
SkipUnknownStructure ==
    /\ AtItem("instance")
    /\ Structure = None
    /\ LeaveItem
    /\ UNCHANGED <<context, rows>>

SkipInstance ==
    /\ AtItem("instance")
    /\ Structure # None
    /\ Gate(This, context) = Ok(FALSE)
    /\ LeaveItem
    /\ UNCHANGED <<context, rows>>

RejectInstance ==
    /\ AtItem("instance")
    /\ Structure # None
    /\ ~Gate(This, context).ok
    /\ PushInstanceError(Structure, This.name, Gate(This, context).err)
    /\ LeaveItem

RejectUnstrided ==
    /\ AtItem("instance")
    /\ Structure # None
    /\ Gate(This, context) = Ok(TRUE)
    /\ ~Strided(This)
    /\ PushInstanceError(Structure, This.name, "MissingStructStride")
    /\ LeaveItem

EnterInstance ==
    /\ AtItem("instance")
    /\ Structure # None
    /\ Gate(This, context) = Ok(TRUE)
    /\ Strided(This)
    /\ EnterRepeats("instance")

InstanceName == RepeatName(This, This.name, index)

InstanceOffset == resolve_struct_instance_offset(This, index, context)

PlaceInstance ==
    /\ pc = "instance"
    /\ index < RepeatCount(This)
    /\ InstanceOffset.ok
    /\ base' = InstanceOffset.val
    /\ child' = 1
    /\ pc' = "child"
    /\ UNCHANGED <<file, schema, item, index, childIndex, context, rows>>

(* Bug: `return' in place of `continue' after a failed placement.          *)
AbandonInstance ==
    /\ pc = "instance"
    /\ index < RepeatCount(This)
    /\ ~InstanceOffset.ok
    /\ PushInstanceError(Structure, InstanceName, InstanceOffset.err)
    /\ LeaveItem

RejectPlacement ==
    /\ pc = "instance"
    /\ index < RepeatCount(This)
    /\ ~InstanceOffset.ok
    /\ PushInstanceError(Structure, InstanceName, InstanceOffset.err)
    /\ index' = index + 1
    /\ UNCHANGED <<file, schema, pc, item, child, childIndex, base>>

EndInstances ==
    /\ pc = "instance"
    /\ index = RepeatCount(This)
    /\ LeaveItem
    /\ UNCHANGED <<context, rows>>

ThisChild == Structure.fields[child]

ChildName == Member(InstanceName, ThisChild.name)

AtChild == pc = "child" /\ child <= Len(Structure.fields)

EnterChild ==
    /\ AtChild
    /\ Gate(ThisChild, context) = Ok(TRUE)
    /\ childIndex' = 0
    /\ pc' = "childRepeat"
    /\ UNCHANGED <<file, schema, item, index, child, base, context, rows>>

SkipChild ==
    /\ AtChild
    /\ Gate(ThisChild, context) = Ok(FALSE)
    /\ child' = child + 1
    /\ UNCHANGED <<file, schema, pc, item, index, childIndex, base, context, rows>>

RejectChild ==
    /\ AtChild
    /\ ~Gate(ThisChild, context).ok
    /\ PushRow(UnplacedRow(ThisChild, ChildName, Gate(ThisChild, context).err))
    /\ child' = child + 1
    /\ UNCHANGED <<file, schema, pc, item, index, childIndex, base>>

RepeatChild ==
    /\ pc = "childRepeat"
    /\ childIndex < RepeatCount(ThisChild)
    /\ PushRow(RowAt(ThisChild, RepeatName(ThisChild, ChildName, childIndex),
                     resolve_struct_child_offset(base, ThisChild, childIndex),
                     context))
    /\ childIndex' = childIndex + 1
    /\ UNCHANGED <<file, schema, pc, item, index, child, base>>

EndChild ==
    /\ pc = "childRepeat"
    /\ childIndex = RepeatCount(ThisChild)
    /\ pc' = "child"
    /\ child' = child + 1
    /\ UNCHANGED <<file, schema, item, index, childIndex, base, context, rows>>

EndInstance ==
    /\ pc = "child"
    /\ child > Len(Structure.fields)
    /\ pc' = "instance"
    /\ index' = index + 1
    /\ UNCHANGED <<file, schema, item, child, childIndex, base, context, rows>>

Return ==
    /\ pc = "item"
    /\ item > Len(schema.fields)
    /\ pc' = "done"
    /\ UNCHANGED <<file, schema, item, index, child, childIndex, base, context, rows>>

(* The caller has its rows.                                                *)
Done ==
    /\ pc = "done"
    /\ UNCHANGED vars

Next ==
    \/ EnterField \/ SkipField \/ RejectField \/ RepeatField \/ EndField
    \/ SkipUnknownStructure \/ SkipInstance \/ RejectInstance \/ RejectUnstrided
    \/ EnterInstance \/ PlaceInstance \/ RejectPlacement \/ EndInstances
    \/ EnterChild \/ SkipChild \/ RejectChild \/ RepeatChild \/ EndChild
    \/ EndInstance
    \/ Return \/ Done

(* The pass is one call of a sequential function: it takes its next step   *)
(* until it returns.                                                       *)
Spec == Init /\ [][Next]_vars /\ WF_vars(Next)

-----------------------------------------------------------------------------
(* Properties *)

Row ==
    [field : FieldDef, display_name : Name, resolved_offset : U64,
     offset_valid : BOOLEAN, byte_len : 0 .. UsizeMax,
     value : Option(FieldValue), error : Option(InterpretError)]

(* Type correctness, with what the places of the pass say about its loops: *)
(* a loop over children runs for an instance whose structure exists.       *)
TypeOK ==
    /\ file \in Seq(0 .. (ByteBase - 1)) /\ Len(file) <= UsizeMax
    /\ schema \in Schema
    /\ pc \in {"item", "field", "instance", "child", "childRepeat", "done"}
    /\ item \in 1 .. (Len(schema.fields) + 1)
    /\ index \in Nat
    /\ child \in Nat \ {0}
    /\ childIndex \in Nat
    /\ base \in U64
    /\ \A n \in DOMAIN context : n \in Name /\ context[n] \in FieldValue
    /\ rows \in Seq(Row)
    /\ pc = "field" => item <= Len(schema.fields) /\ This.tag = "field"
    /\ pc \in {"instance", "child", "childRepeat"} =>
          /\ item <= Len(schema.fields)
          /\ This.tag = "instance"
          /\ Structure # None
          /\ Strided(This)
    /\ pc = "childRepeat" => child <= Len(Structure.fields)

Succeeded(r) == rows[r].value # None

(* Row r is the latest of the rows before `end` that decoded a value for   *)
(* its name.                                                               *)
IsLatest(r, end) ==
    /\ Succeeded(r)
    /\ \A q \in (r + 1) .. (end - 1) :
          Succeeded(q) => rows[q].display_name # rows[r].display_name

(* The context that dynamic offsets, lengths and conditions are evaluated  *)
(* in is the one a reader of the rows would reconstruct: a name stands for *)
(* the latest row that decoded it (duplicate names, repeats), and a row    *)
(* that failed or was skipped neither adds a name nor removes one.         *)
ContextIsLastSuccess ==
    /\ \A n \in DOMAIN context :
          \E r \in 1 .. Len(rows) :
             /\ rows[r].display_name = n
             /\ IsLatest(r, Len(rows) + 1)
             /\ context[n] = rows[r].value
    /\ \A r \in 1 .. Len(rows) :
          Succeeded(r) => rows[r].display_name \in DOMAIN context

(* A row shows a value or an error, never both; a value was read inside    *)
(* the file, and out of bounds is only what reaches past its end; a row    *)
(* without a place claims no bytes (the hex view highlights offset and     *)
(* length).                                                                *)
WellFormed(row) ==
    /\ row.value # None <=> row.error = None
    /\ row.value # None =>
          /\ row.offset_valid
          /\ row.resolved_offset + row.byte_len <= Len(file)
    /\ row.error = "OutOfBounds" => row.resolved_offset + row.byte_len > Len(file)
    /\ ~row.offset_valid => row.resolved_offset = 0 /\ row.byte_len = 0

(* No place wraps: an element lies as many strides behind the offset that  *)
(* the schema states as its index says.                                    *)
Strides(k, stride) == IF k = 0 THEN 0 ELSE k * stride

LastRow == rows[Len(rows)]

PlacesAreCounted ==
    /\ pc \in {"child", "childRepeat"} /\ This.offset.kind = "Absolute" =>
          base = This.offset.value + Strides(index, This.repeat.stride)
    /\ pc = "field" /\ index # 0 /\ LastRow.offset_valid
          /\ This.offset.kind = "Absolute" =>
          LastRow.resolved_offset =
             This.offset.value + Strides(index - 1, fixed_field_byte_len(This).val)
    /\ pc = "childRepeat" /\ childIndex # 0 /\ LastRow.offset_valid =>
          LastRow.resolved_offset =
             base + ThisChild.offset.value
                  + Strides(childIndex - 1, fixed_field_byte_len(ThisChild).val)

RowsWellFormed == PlacesAreCounted /\ \A r \in 1 .. Len(rows) : WellFormed(rows[r])

(* validate_schema and the interpreter agree on what a legal schema is: in *)
(* a schema that was validated no row fails because of how it is written,  *)
(* only because of what the file contains.                                 *)
NoStructuralErrors ==
    validate_schema(schema) =>
       \A r \in 1 .. Len(rows) : rows[r].error \notin StructuralErrors

(* A dynamic offset or length is the number decoded by the latest earlier  *)
(* row of the name it refers to; a later row, a failed one or a value of   *)
(* another occurrence of the name is never used.                           *)
Refers(spec, name, k, n) ==
    spec = [kind |-> "FieldRef", field |-> name] =>
       \E r \in 1 .. (k - 1) :
          /\ rows[r].display_name = name
          /\ IsLatest(r, k)
          /\ Numeric(rows[r].value) /\ rows[r].value.n = n

ReferencesLookBack ==
    \A k \in 1 .. Len(rows) :
       LET row == rows[k]
       IN /\ Succeeded(k) /\ row.field.ty \in SizedType /\ row.field.length # None
             /\ row.field.length.kind = "FieldRef"
                => Refers(row.field.length, row.field.length.field, k, row.byte_len)
          /\ row.offset_valid /\ row.field.offset.kind = "FieldRef"
             /\ row.field.repeat = None
                => Refers(row.field.offset, row.field.offset.field, k,
                          row.resolved_offset)

(* A field that refers to nothing shows what interpret_field reads for it  *)
(* alone: no other item, valid or failing, changes its row.                *)
Static(def) ==
    /\ def.tag = "field" /\ def.when = None /\ def.repeat = None
    /\ def.offset.kind = "Absolute"
    /\ def.length # None => def.length.kind = "Literal"

StaticFieldsIndependent ==
    \A i \in 1 .. (item - 1) :
       Static(schema.fields[i]) =>
          LET alone == interpret_field(schema.fields[i])
          IN \E r \in 1 .. Len(rows) :
                /\ rows[r].field = schema.fields[i]
                /\ rows[r].display_name = schema.fields[i].name
                /\ IF alone.ok THEN rows[r].value = alone.val
                               ELSE rows[r].error = alone.err

(* A field leaves a row, with a value or with an error, unless its         *)
(* condition is false for a value that the table shows: one that cannot be *)
(* evaluated hides nothing (should_interpret_field).                       *)
Excluded(def) ==
    \E r \in 1 .. Len(rows) :
       /\ Succeeded(r) /\ rows[r].display_name = def.when.field
       /\ eval_when(def.when, [n \in {def.when.field} |-> rows[r].value]) = Ok(FALSE)

Accounted(def, name) ==
    \/ RepeatCount(def) = 0
    \/ \E r \in 1 .. Len(rows) :
          /\ rows[r].field = def
          /\ rows[r].display_name \in {name, RepeatName(def, name, 0)}
    \/ def.when # None /\ Excluded(def)

NothingIsHidden ==
    /\ \A i \in 1 .. (item - 1) :
          schema.fields[i].tag = "field" =>
             Accounted(schema.fields[i], schema.fields[i].name)
    /\ pc \in {"child", "childRepeat"} =>
          \A c \in 1 .. (child - 1) :
             Accounted(Structure.fields[c],
                       Member(InstanceName, Structure.fields[c].name))

(* What one field shows is its own affair: no field is hidden by another,  *)
(* and one that refers to none is changed by none.                         *)
FieldsAreAccountedFor == StaticFieldsIndependent /\ NothingIsHidden

(* A validated schema can be counted before it is interpreted: however its *)
(* items fail or repeat, the items up to the current one add no more rows  *)
(* than their loops may turn, MaxRepeatCount at each of the two levels.    *)
Sum(summand, n) ==
    LET upTo[k \in 0 .. n] == IF k = 0 THEN 0 ELSE upTo[k - 1] + summand[k]
    IN upTo[n]

Turns(def) == IF def.repeat = None THEN 1 ELSE MaxRepeatCount

MostRows(def) ==
    IF def.tag = "field" THEN Turns(def)
    ELSE LET children == find_structure(def.struct_name).fields
         IN Turns(def) * Sum([c \in 1 .. Len(children) |-> Turns(children[c])],
                             Len(children))

RowsAreBounded ==
    validate_schema(schema) =>
       LET begun == IF item <= Len(schema.fields) THEN item ELSE Len(schema.fields)
       IN Len(rows) <= Sum([i \in 1 .. begun |-> MostRows(schema.fields[i])], begun)

=============================================================================
