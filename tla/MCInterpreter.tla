---------------------------- MODULE MCInterpreter ----------------------------
(* Small instances of Interpreter: bytes of one bit, so that a U64 is an    *)
(* eight-bit number and an I32 a four-bit one.                              *)
EXTENDS InterpreterBlocks

CONSTANTS a, b, s, t

MCIdents == {a, b, s, t}

Abs(n) == [kind |-> "Absolute", value |-> n]
Rel(n) == [kind |-> "Relative", value |-> n]
Ref(name) == [kind |-> "FieldRef", field |-> name]
Lit(n) == [kind |-> "Literal", value |-> n]
Calc(e) == [kind |-> "Expr", expr |-> e]
Val(n) == [op |-> "const", value |-> n]
Of(name) == [op |-> "ref", field |-> name]
Plus(l, r) == [op |-> "add", left |-> l, right |-> r]
Minus(l, r) == [op |-> "sub", left |-> l, right |-> r]
Times(n) == [count |-> n, stride |-> None]
Every(n, k) == [count |-> n, stride |-> k]
When(name, op, n) == [field |-> name, op |-> op, value |-> n]

Field(name, ty, offset) ==
    [tag |-> "field", name |-> name, ty |-> ty, offset |-> offset,
     length |-> None, endianness |-> None, repeat |-> None, when |-> None]

Sized(name, ty, offset, length) == [Field(name, ty, offset) EXCEPT !.length = length]

Instance(name, struct, offset) ==
    [tag |-> "instance", name |-> name, struct_name |-> struct,
     offset |-> offset, repeat |-> None, when |-> None]

(* A structure whose second child repeats and is conditional on the first. *)
StructS ==
    [name |-> <<s>>,
     fields |-> << Field(<<a>>, "U8", Rel(0)),
                   [Field(<<b>>, "U8", Rel(1)) EXCEPT
                       !.repeat = Times(2), !.when = When(<<t, a>>, "Equals", 1)] >>]

(* One that reads a length from outside and lies behind a large offset.    *)
StructT ==
    [name |-> <<t>>,
     fields |-> << Sized(<<b>>, "Bytes", Rel(254), Ref(<<a>>)),
                   [Field(<<a>>, "U8", Rel(1)) EXCEPT !.repeat = Times(2)] >>]

ValidFields ==
    { Field(<<a>>, "U8", Abs(0)),
      [Field(<<a>>, "U16", Abs(1)) EXCEPT !.endianness = "Big"],
      [Field(<<a>>, "U8", Abs(2)) EXCEPT !.repeat = Times(2)],
      [Field(<<a>>, "U64", Abs(0)) EXCEPT !.when = When(<<a>>, "NotEquals", 0)],
      Field(<<a>>, "I32", Abs(0)),
      Field(<<b>>, "F32", Abs(0)),
      Sized(<<a>>, "Bytes", Abs(0), Lit(1)),
      Field(<<a, 1>>, "U8", Abs(0)),
      Field(<<t, a>>, "U8", Abs(3)),
      Field(<<b>>, "U8", Calc(Minus(Of(<<a>>), Val(2)))),
      [Field(<<a>>, "U8", Abs(255)) EXCEPT !.repeat = Times(3)],
      Field(<<b>>, "U8", Ref(<<a>>)),
      Field(<<b>>, "U8", Calc(Plus(Of(<<a>>), Val(126)))),
      Sized(<<b>>, "Bytes", Abs(1), Ref(<<a>>)),
      Sized(<<b>>, "Ascii", Abs(0), Calc(Minus(Of(<<a>>), Plus(Val(1), Of(<<a, 1>>))))),
      [Sized(<<b>>, "Bytes", Abs(0), Lit(3)) EXCEPT !.repeat = Times(2)],
      Sized(<<b>>, "Bytes", Abs(2), Lit(250)),
      [Field(<<b>>, "U32", Abs(0)) EXCEPT !.when = When(<<a>>, "BitSet", 1)],
      [Field(<<b>>, "U8", Abs(1)) EXCEPT !.when = When(<<b>>, "Equals", 0)] }

ValidInstances ==
    { Instance(<<t>>, <<s>>, Abs(0)),
      [Instance(<<t>>, <<s>>, Abs(0)) EXCEPT !.repeat = Every(2, 2)],
      [Instance(<<t>>, <<t>>, Ref(<<a>>)) EXCEPT !.when = When(<<a>>, "NotEquals", 1)],
      [Instance(<<s>>, <<t>>, Abs(1)) EXCEPT !.repeat = Every(3, 255)] }

(* What validation refuses, one rule at a time.                            *)
InvalidItems ==
    { Field(<<b>>, "U8", Rel(0)),
      Sized(<<b>>, "Bytes", Abs(0), None),
      [Sized(<<b>>, "Bytes", Abs(0), Ref(<<a>>)) EXCEPT !.repeat = Times(2)],
      [Field(<<a>>, "U8", Abs(0)) EXCEPT !.repeat = Times(0)],
      [Field(<<a>>, "U8", Abs(0)) EXCEPT !.repeat = Times(4)],
      Instance(<<t>>, <<b>>, Abs(0)),
      Instance(<<t>>, <<s>>, Rel(0)),
      [Instance(<<t>>, <<s>>, Abs(0)) EXCEPT !.repeat = Times(2)] }

SchemaOf(endianness, fields) ==
    [schema_name |-> <<a>>, schema_version |-> 1, endianness |-> endianness,
     structures |-> <<StructS, StructT>>, fields |-> fields]

(* Items that decode a number under the name the other items refer to.      *)
Sources == {i \in ValidFields : i.name = <<a>>}

Items == ValidFields \cup ValidInstances \cup InvalidItems

MCFiles == { << >>, <<1, 0, 1>>, <<0, 1, 1, 0, 1, 0>>, <<1, 1, 0, 1, 0, 0, 0, 1>>,
              [k \in 1 .. 15 |-> IF k = 4 THEN 1 ELSE 0] }

(* usize has four bits and u64 eight: lengths on either side of what the   *)
(* machine can hold and the schema can write.                              *)
LongItems ==
    { Sized(<<b>>, "Bytes", Abs(0), Lit(15)),
      Sized(<<b>>, "Bytes", Abs(0), Lit(16)),
      Sized(<<b>>, "Bytes", Abs(16), Lit(1)),
      Sized(<<b>>, "Bytes", Abs(15), Ref(<<a>>)),
      Sized(<<b>>, "Bytes", Abs(0), Ref(<<a>>)),
      Sized(<<b>>, "Ascii", Abs(0), Calc(Plus(Of(<<a>>), Val(15)))),
      Sized(<<b>>, "Ascii", Ref(<<a>>), Calc(Plus(Of(<<b>>), Val(1)))),
      [Sized(<<b>>, "Bytes", Abs(0), Lit(16)) EXCEPT !.repeat = Times(2)],
      [Sized(<<b>>, "Bytes", Abs(0), Ref(<<a>>)) EXCEPT
          !.when = When(<<a>>, "BitSet", 4)] }

MCSchemas ==
    {SchemaOf(None, <<i>>) : i \in Items}
    \cup {SchemaOf("Big", <<i, j>>) : i, j \in Items}
    \cup {SchemaOf("Little", <<i, j, k>>) :
             i \in Sources, j, k \in ValidFields \cup ValidInstances}
    \cup {SchemaOf(None, <<i, j, k>>) :
             i \in {source \in Sources : source.offset = Abs(0)}, j, k \in LongItems}

=============================================================================
