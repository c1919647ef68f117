---------------------------- MODULE SchemaModel ----------------------------
(***************************************************************************)
(* The schema language of binocular-schema (ast.rs): what a schema is, the *)
(* integer widths its numbers have, and the names its rows are shown by.   *)
(*                                                                         *)
(* Widths are scaled by the number of values of a byte.  With ByteBase =   *)
(* 256 they are Rust's; TLC uses ByteBase = 2, where a u64 has eight bits  *)
(* and an i32 four, and every limit of the code is a few steps away.       *)
(***************************************************************************)
EXTENDS Integers, Sequences

CONSTANTS
    ByteBase,          \* values of one byte: 256 in the program
    UsizeMax,          \* usize::MAX of the target
    MaxRepeatCount,    \* MAX_REPEAT_COUNT of parser.rs: 10 000
    MaxBit,            \* highest bit_set index of a u64: 63
    Idents,            \* the identifiers that occur in field names
    None               \* the absent Option

Pow2 == ByteBase * ByteBase
Pow4 == Pow2 * Pow2
Pow8 == Pow4 * Pow4

U64 == 0 .. (Pow8 - 1)
U64Max == Pow8 - 1
I64Max == (Pow8 \div 2) - 1
I64Min == -(Pow8 \div 2)
I64 == I64Min .. I64Max

ASSUME WidthAssumption ==
    /\ ByteBase \in Nat /\ ByteBase >= 2 /\ ByteBase % 2 = 0
    /\ UsizeMax \in U64 /\ UsizeMax >= 8
    /\ MaxRepeatCount \in Nat
    /\ MaxBit \in Nat

Option(S) == S \cup {None}

-----------------------------------------------------------------------------
(* A name is the sequence of identifiers and indices that its text spells: *)
(* <<hdr, 0, tag>> is "hdr[0].tag".  The schema author may give a field    *)
(* any such text as its name, so a name built by the interpreter and one   *)
(* written in the schema can coincide.  The empty name is a blank string.  *)
Name == Seq(Idents \cup Nat)
Blank == << >>

Indexed(name, k) == Append(name, k)
Member(instance, name) == instance \o name

-----------------------------------------------------------------------------
(* Expressions nest at most ExprDepth = 2 operators deep here; the parser  *)
(* sets no limit.                                                          *)
Leaf == [op : {"const"}, value : I64] \cup [op : {"ref"}, field : Name]
Binary(S) == [op : {"add", "sub"}, left : S, right : S]
IntExpr == Leaf \cup Binary(Leaf \cup Binary(Leaf))
IsBinary(e) == e.op \in {"add", "sub"}

OffsetKind == [kind : {"Absolute", "Relative"}, value : U64]
         \cup [kind : {"FieldRef"}, field : Name]
         \cup [kind : {"Expr"}, expr : IntExpr]

LengthSpec == [kind : {"Literal"}, value : U64]
         \cup [kind : {"FieldRef"}, field : Name]
         \cup [kind : {"Expr"}, expr : IntExpr]

NumericType == {"U8", "U16", "U32", "U64", "I32", "F32"}
SizedType == {"Bytes", "Ascii"}
FieldType == NumericType \cup SizedType

Endianness == {"Little", "Big"}
RepeatInfo == [count : U64, stride : Option(U64)]

(* A bit index is a u8.  From 128 on, `1_i128 << bit` overflows; the type  *)
(* stops before that, and validation far before it.                        *)
WhenCondition == [field : Name, op : {"Equals", "NotEquals"}, value : Int]
            \cup [field : Name, op : {"BitSet"}, value : 0 .. (2 * MaxBit + 1)]

FieldDef ==
    [tag : {"field"}, name : Name, ty : FieldType, offset : OffsetKind,
     length : Option(LengthSpec), endianness : Option(Endianness),
     repeat : Option(RepeatInfo), when : Option(WhenCondition)]

StructureDef == [name : Name, fields : Seq(FieldDef)]

StructInstanceDef ==
    [tag : {"instance"}, name : Name, struct_name : Name, offset : OffsetKind,
     repeat : Option(RepeatInfo), when : Option(WhenCondition)]

FieldItem == FieldDef \cup StructInstanceDef

Schema ==
    [schema_name : Name, schema_version : Nat, endianness : Option(Endianness),
     structures : Seq(StructureDef), fields : Seq(FieldItem)]

(* How often the loop over a field or an instance runs.                    *)
RepeatCount(def) == IF def.repeat = None THEN 1 ELSE def.repeat.count
=============================================================================
