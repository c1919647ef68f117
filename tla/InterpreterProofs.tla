-------------------------- MODULE InterpreterProofs --------------------------
(***************************************************************************)
(* Proofs about the interpreter, for every byte base, word size, schema    *)
(* and file: the types, what a row may show, which error it may hold, and  *)
(* what it depends on.  A reference means the latest earlier row of its    *)
(* name, and a field without references depends on no other row.           *)
(*                                                                         *)
(* Then about the table as a whole: how many rows it may have, and under   *)
(* which names they come.  Sum and Concatenations are recursive functions; *)
(* what they are for every length follows from the least length for which  *)
(* it would not hold (NatLeast).                                           *)
(***************************************************************************)
EXTENDS InterpreterBlocks, WellFoundedInduction, TLAPS

-----------------------------------------------------------------------------
(* Numbers *)

LEMMA NatMin ==
    ASSUME NEW T, T \subseteq Nat, T # {}
    PROVE  \E m \in T : \A t \in T : m <= t
<1> DEFINE R == {ss \in Nat \X Nat : ss[1] < ss[2]}
<1>1. ~ \E f \in [Nat -> Nat] : \A n \in Nat : <<f[n + 1], f[n]>> \in R
  BY NatLessThanWellFounded, Zenon DEF OpToRel, IsWellFoundedOn
<1>2. IsWellFoundedOn(R, Nat)
  BY <1>1 DEF IsWellFoundedOn
<1>3. PICK m \in T : \A t \in T : ~ (<<t, m>> \in R)
  BY <1>2, WFMin
<1>4. \A t \in T : ~ (t < m)
  <2> SUFFICES ASSUME NEW t \in T, t < m PROVE FALSE
    OBVIOUS
  <2>1. <<t, m>> \in Nat \X Nat /\ <<t, m>>[1] < <<t, m>>[2]
    OBVIOUS
  <2> QED BY <1>3, <2>1, Zenon
<1> QED BY <1>4

(* Two digits of base P and Q are a digit of base P * Q.                    *)
LEMMA TwoDigits ==
    ASSUME NEW P \in Nat, NEW Q \in Nat,
           NEW x \in 0 .. (P - 1), NEW y \in 0 .. (Q - 1)
    PROVE  x + P * y \in 0 .. (P * Q - 1)
<1>1. P * y + P <= P * Q
  <2>1. PICK k \in Nat : Q = y + 1 + k
    BY SMT
  <2>2. P * Q = P * y + P + P * k
    BY <2>1, SMT
  <2>3. P * k >= 0
    BY <2>1, SMT
  <2> QED BY <2>2, <2>3, SMT
<1>2. P * y >= 0 /\ P * y \in Int /\ P * Q \in Int
  BY SMT
<1> QED BY <1>1, <1>2, SMT

LEMMA Powers ==
    /\ ByteBase \in Nat /\ Pow2 \in Nat /\ Pow4 \in Nat /\ Pow8 \in Nat
    /\ \E h \in Nat : Pow4 = 2 * h
    /\ ByteBase >= 1 /\ ByteBase <= Pow2 /\ Pow2 <= Pow4 /\ Pow4 <= Pow8
<1>1. ByteBase \in Nat /\ ByteBase >= 2 /\ ByteBase % 2 = 0
  BY WidthAssumption
<1>2. PICK h \in Nat : ByteBase = 2 * h
  <2>1. ByteBase \div 2 \in Nat /\ ByteBase = 2 * (ByteBase \div 2)
    BY <1>1, SMT
  <2> QED BY <2>1
<1>3. Pow2 \in Nat /\ Pow2 >= ByteBase /\ Pow2 = 2 * (h * ByteBase)
  <2>1. h * ByteBase \in Nat
    BY <1>1, SMT
  <2>2. Pow2 = 2 * (h * ByteBase)
    BY <1>1, <1>2, SMT DEF Pow2
  <2>3. ByteBase * ByteBase >= ByteBase
    BY <1>1, SMT
  <2> QED BY <2>1, <2>2, <2>3, SMT DEF Pow2
<1>4. Pow4 \in Nat /\ Pow4 >= Pow2 /\ \E k \in Nat : Pow4 = 2 * k
  <2> DEFINE u == h * ByteBase
  <2>1. u \in Nat /\ Pow2 = 2 * u
    BY <1>1, <1>3, SMT
  <2> HIDE DEF u
  <2>2. u * Pow2 \in Nat
    BY <2>1, <1>3, SMT
  <2>3. Pow2 * Pow2 = 2 * (u * Pow2)
    BY <2>1, <1>3, SMT
  <2>4. Pow2 * Pow2 >= Pow2
    BY <1>1, <1>3, SMT
  <2> QED BY <2>2, <2>3, <2>4, SMT DEF Pow4
<1>5. Pow8 \in Nat /\ Pow8 >= Pow4
  BY <1>1, <1>3, <1>4, SMT DEF Pow8
<1> QED BY <1>1, <1>3, <1>4, <1>5

LEMMA Widths ==
    /\ I64Max \in Int /\ I64Min \in Int /\ U64Max \in Nat /\ UsizeMax \in Nat
    /\ \A v \in I64 : v \in Int /\ (v >= 0 => v \in U64)
    /\ \A v \in U64 : v \in Nat /\ v <= U64Max
    /\ \A v \in Nat : v <= U64Max => v \in U64
    /\ UsizeMax <= U64Max /\ I64Max <= U64Max /\ I64Min <= 0
<1>1. Pow8 \in Nat
  BY Powers
<1>2. Pow8 \div 2 \in Nat /\ Pow8 \div 2 <= Pow8
  BY <1>1, SMT
<1>3. UsizeMax \in U64
  BY WidthAssumption
<1>4. Pow8 >= 1
  BY <1>1, Powers, SMT
<1> QED BY <1>1, <1>2, <1>3, <1>4, SMT DEF U64, U64Max, I64, I64Max, I64Min

-----------------------------------------------------------------------------
(* Results: a call yields a value of S or an error of E.                    *)

Yields(r, S, E) ==
    /\ r.ok \in BOOLEAN
    /\ r.ok => r = Ok(r.val) /\ r.val \in S
    /\ ~r.ok => r.err \in E

(* Errors of a place, a length or a condition: the file was not read yet.  *)
ResolutionErrors == ValueErrors \ {"OutOfBounds"}

PlacementErrors == StructuralErrors \cup ResolutionErrors

LEMMA ErrorKinds ==
    /\ ResolutionErrors \subseteq ValueErrors
    /\ ResolutionErrors \subseteq PlacementErrors
    /\ PlacementErrors \subseteq InterpretError
    /\ "OutOfBounds" \notin PlacementErrors
BY DEF ResolutionErrors, PlacementErrors, InterpretError, StructuralErrors

LEMMA OkYields ==
    ASSUME NEW S, NEW E, NEW v \in S PROVE Yields(Ok(v), S, E)
BY DEF Yields, Ok

LEMMA ErrYields ==
    ASSUME NEW S, NEW E, NEW e \in E PROVE Yields(Err(e), S, E)
BY DEF Yields, Err

Context(c) == \A n \in DOMAIN c : n \in Name /\ c[n] \in FieldValue

Number == {v \in Int : v <= U64Max}

LEMMA NumbersInContext ==
    ASSUME NEW c, Context(c), NEW n \in DOMAIN c, Numeric(c[n])
    PROVE  c[n].n \in Number
<1>1. c[n] \in FieldValue
  BY DEF Context
<1>2. \A v \in U64 : v \in Number
  BY Widths DEF Number
<1>3. \A v \in (-(Pow4 \div 2)) .. ((Pow4 \div 2) - 1) : v \in Number
  BY Powers, SMT DEF Number, U64Max
<1> QED BY <1>1, <1>2, <1>3 DEF FieldValue, Numeric

LEMMA LookupYields ==
    ASSUME NEW c, Context(c), NEW name, NEW E,
           NEW missing \in E, NEW invalid \in E
    PROVE  Yields(Lookup(name, c, missing, invalid), Number, E)
<1>1. CASE name \notin DOMAIN c
  BY <1>1, ErrYields DEF Lookup
<1>2. CASE name \in DOMAIN c /\ ~Numeric(c[name])
  BY <1>2, ErrYields DEF Lookup
<1>3. CASE name \in DOMAIN c /\ Numeric(c[name])
  BY <1>3, NumbersInContext, OkYields DEF Lookup
<1> QED BY <1>1, <1>2, <1>3

SignedNumber == {v \in Int : v <= I64Max}

LEMMA ExpressionReferenceYields ==
    ASSUME NEW c, Context(c), NEW name
    PROVE  Yields(resolve_expression_reference(name, c), SignedNumber, ResolutionErrors)
<1> DEFINE r == Lookup(name, c, "MissingExpressionReference",
                                "InvalidExpressionReferenceType")
<1>1. Yields(r, Number, ResolutionErrors)
  BY LookupYields DEF ResolutionErrors, ValueErrors
<1>2. CASE r.ok /\ r.val > I64Max
  BY <1>2, ErrYields DEF resolve_expression_reference, ResolutionErrors, ValueErrors
<1>3. CASE ~(r.ok /\ r.val > I64Max)
  BY <1>1, <1>3, Widths DEF resolve_expression_reference, Yields, Number, SignedNumber
<1> QED BY <1>2, <1>3

LEMMA ConditionReferenceYields ==
    ASSUME NEW c, Context(c), NEW name
    PROVE  Yields(resolve_condition_reference(name, c), Int, ResolutionErrors)
<1>1. Yields(resolve_condition_reference(name, c), Number, ResolutionErrors)
  BY LookupYields DEF resolve_condition_reference, ResolutionErrors, ValueErrors
<1> QED BY <1>1 DEF Yields, Number

LEMMA DynamicLengthYields ==
    ASSUME NEW c, Context(c), NEW name
    PROVE  Yields(resolve_dynamic_length(name, c), 0 .. UsizeMax, ResolutionErrors)
<1> DEFINE r == Lookup(name, c, "MissingLengthReference", "InvalidLengthReferenceType")
<1>1. Yields(r, Number, ResolutionErrors)
  BY LookupYields DEF ResolutionErrors, ValueErrors
<1>2. CASE ~r.ok
  BY <1>1, <1>2 DEF resolve_dynamic_length, Yields
<1>3. CASE r.ok /\ r.val < 0
  BY <1>3, ErrYields DEF resolve_dynamic_length, ResolutionErrors, ValueErrors
<1>4. CASE r.ok /\ ~(r.val < 0) /\ r.val > UsizeMax
  BY <1>4, ErrYields DEF resolve_dynamic_length, ResolutionErrors, ValueErrors
<1>5. CASE r.ok /\ ~(r.val < 0) /\ ~(r.val > UsizeMax)
  <2>1. r.val \in 0 .. UsizeMax
    BY <1>1, <1>5, Widths DEF Yields, Number
  <2> QED BY <1>1, <1>5, <2>1 DEF resolve_dynamic_length, Yields
<1> QED BY <1>2, <1>3, <1>4, <1>5

LEMMA DynamicOffsetYields ==
    ASSUME NEW c, Context(c), NEW name
    PROVE  Yields(resolve_dynamic_offset(name, c), U64, ResolutionErrors)
<1> DEFINE r == Lookup(name, c, "MissingOffsetReference", "InvalidOffsetReferenceType")
<1>1. Yields(r, Number, ResolutionErrors)
  BY LookupYields DEF ResolutionErrors, ValueErrors
<1>2. CASE ~r.ok
  BY <1>1, <1>2 DEF resolve_dynamic_offset, Yields
<1>3. CASE r.ok /\ r.val < 0
  BY <1>3, ErrYields DEF resolve_dynamic_offset, ResolutionErrors, ValueErrors
<1>4. CASE r.ok /\ ~(r.val < 0)
  <2>1. r.val \in U64
    BY <1>1, <1>4, Widths DEF Yields, Number
  <2> QED BY <1>1, <1>4, <2>1 DEF resolve_dynamic_offset, Yields
<1> QED BY <1>2, <1>3, <1>4

-----------------------------------------------------------------------------
(* Expressions and conditions *)

LEMMA CombineYields ==
    ASSUME NEW op, NEW left, NEW right,
           Yields(left, SignedNumber, ResolutionErrors),
           Yields(right, SignedNumber, ResolutionErrors)
    PROVE  Yields(Combine(op, left, right), SignedNumber, ResolutionErrors)
<1> DEFINE v == IF op = "add" THEN left.val + right.val ELSE left.val - right.val
<1>1. CASE ~left.ok
  BY <1>1 DEF Combine
<1>2. CASE left.ok /\ ~right.ok
  BY <1>2 DEF Combine
<1>3. CASE left.ok /\ right.ok /\ v \in I64
  <2>1. v \in SignedNumber
    BY <1>3, Widths, SMT DEF SignedNumber, I64
  <2> QED BY <1>3, <2>1, OkYields DEF Combine
<1>4. CASE left.ok /\ right.ok /\ v \notin I64
  BY <1>4, ErrYields DEF Combine, ResolutionErrors, ValueErrors
<1> QED BY <1>1, <1>2, <1>3, <1>4

LEMMA LeafYields ==
    ASSUME NEW c, Context(c), NEW e \in Leaf
    PROVE  Yields(EvalLeaf(e, c), SignedNumber, ResolutionErrors)
<1>1. CASE e.op = "const"
  <2>1. e.value \in I64
    BY <1>1 DEF Leaf
  <2>2. e.value \in SignedNumber
    BY <2>1, Widths, SMT DEF SignedNumber, I64
  <2> QED BY <1>1, <2>2, OkYields DEF EvalLeaf
<1>2. CASE e.op # "const"
  BY <1>2, ExpressionReferenceYields DEF EvalLeaf
<1> QED BY <1>1, <1>2

LEMMA OnceYields ==
    ASSUME NEW c, Context(c), NEW e \in Leaf \cup Binary(Leaf)
    PROVE  Yields(EvalOnce(e, c), SignedNumber, ResolutionErrors)
<1>1. CASE IsBinary(e)
  <2>1. e.left \in Leaf /\ e.right \in Leaf
    BY <1>1 DEF IsBinary, Binary, Leaf
  <2> QED BY <1>1, <2>1, LeafYields, CombineYields DEF EvalOnce
<1>2. CASE ~IsBinary(e)
  <2>1. e \in Leaf
    BY <1>2 DEF IsBinary, Binary
  <2> QED BY <1>2, <2>1, LeafYields DEF EvalOnce
<1> QED BY <1>1, <1>2

LEMMA ExprYields ==
    ASSUME NEW c, Context(c), NEW e \in IntExpr
    PROVE  Yields(eval_int_expr(e, c), SignedNumber, ResolutionErrors)
<1>1. CASE IsBinary(e)
  <2>1. e.left \in Leaf \cup Binary(Leaf) /\ e.right \in Leaf \cup Binary(Leaf)
    <3>1. e \in Binary(Leaf \cup Binary(Leaf))
      BY <1>1 DEF IsBinary, IntExpr, Leaf
    <3> QED BY <3>1 DEF Binary
  <2> QED BY <1>1, <2>1, OnceYields, CombineYields DEF eval_int_expr
<1>2. CASE ~IsBinary(e)
  <2>1. e \in Leaf
    BY <1>2 DEF IsBinary, Binary, IntExpr
  <2> QED BY <1>2, <2>1, LeafYields DEF eval_int_expr
<1> QED BY <1>1, <1>2

LEMMA LengthExprYields ==
    ASSUME NEW c, Context(c), NEW e \in IntExpr
    PROVE  Yields(resolve_length_expr(e, c), 0 .. UsizeMax, ResolutionErrors)
<1> DEFINE r == eval_int_expr(e, c)
<1> HIDE DEF r
<1>0. resolve_length_expr(e, c) =
        IF ~r.ok THEN r
        ELSE IF r.val < 0 THEN Err("NegativeExpressionLength")
        ELSE IF r.val = 0 THEN Err("ZeroExpressionLength")
        ELSE IF r.val > UsizeMax THEN Err("ExpressionLengthOverflow")
        ELSE r
  BY DEF resolve_length_expr, r
<1>1. Yields(r, SignedNumber, ResolutionErrors)
  BY ExprYields DEF r
<1>2. /\ Yields(Err("NegativeExpressionLength"), 0 .. UsizeMax, ResolutionErrors)
      /\ Yields(Err("ZeroExpressionLength"), 0 .. UsizeMax, ResolutionErrors)
      /\ Yields(Err("ExpressionLengthOverflow"), 0 .. UsizeMax, ResolutionErrors)
  BY ErrYields DEF ResolutionErrors, ValueErrors
<1>3. CASE ~r.ok
  BY <1>0, <1>1, <1>3 DEF Yields
<1>4. CASE r.ok /\ r.val >= 0 /\ r.val # 0 /\ r.val <= UsizeMax
  <2>1. r.val \in 0 .. UsizeMax
    BY <1>1, <1>4, Widths DEF Yields, SignedNumber
  <2>2. resolve_length_expr(e, c) = r
    BY <1>0, <1>1, <1>4, Widths DEF Yields, SignedNumber
  <2> QED BY <1>1, <1>4, <2>1, <2>2 DEF Yields
<1>5. CASE r.ok /\ (r.val < 0 \/ r.val = 0 \/ r.val > UsizeMax)
  BY <1>0, <1>2, <1>5
<1>6. r.ok => r.val \in Int
  BY <1>1 DEF Yields, SignedNumber
<1> QED BY <1>3, <1>4, <1>5, <1>6, Widths

LEMMA OffsetExprYields ==
    ASSUME NEW c, Context(c), NEW e \in IntExpr
    PROVE  Yields(resolve_offset_expr(e, c), U64, ResolutionErrors)
<1> DEFINE r == eval_int_expr(e, c)
<1> HIDE DEF r
<1>0. resolve_offset_expr(e, c) =
        IF r.ok /\ r.val < 0 THEN Err("NegativeExpressionOffset") ELSE r
  BY DEF resolve_offset_expr, r
<1>1. Yields(r, SignedNumber, ResolutionErrors)
  BY ExprYields DEF r
<1>2. CASE r.ok /\ r.val < 0
  BY <1>0, <1>2, ErrYields DEF ResolutionErrors, ValueErrors
<1>3. CASE r.ok /\ ~(r.val < 0)
  <2>1. r.val \in U64
    BY <1>1, <1>3, Widths DEF Yields, SignedNumber
  <2> QED BY <1>0, <1>1, <1>3, <2>1 DEF Yields
<1>4. CASE ~r.ok
  BY <1>0, <1>1, <1>4 DEF Yields
<1> QED BY <1>2, <1>3, <1>4

LEMMA GateYields ==
    ASSUME NEW c, Context(c), NEW def,
           def.when # None => def.when \in WhenCondition
    PROVE  Yields(Gate(def, c), BOOLEAN, ResolutionErrors)
<1>1. CASE def.when = None
  BY <1>1, OkYields DEF Gate
<1>2. CASE def.when # None
  <2> DEFINE w == def.when
  <2> DEFINE r == resolve_condition_reference(w.field, c)
  <2>1. w.op \in {"Equals", "NotEquals", "BitSet"}
    BY <1>2 DEF WhenCondition
  <2>2. Yields(r, Int, ResolutionErrors)
    BY ConditionReferenceYields
  <2>3. Gate(def, c) = eval_when(w, c)
    BY <1>2 DEF Gate
  <2> HIDE DEF w
  <2>4. CASE ~r.ok
    BY <2>2, <2>3, <2>4 DEF eval_when, Yields
  <2>5. CASE r.ok /\ w.op = "Equals"
    BY <2>3, <2>5, OkYields DEF eval_when
  <2>6. CASE r.ok /\ w.op = "NotEquals"
    BY <2>3, <2>6, OkYields DEF eval_when
  <2>7. CASE r.ok /\ w.op = "BitSet"
    <3>1. BitIsSet(r.val, w.value) \in BOOLEAN
      BY DEF BitIsSet
    <3> QED BY <2>3, <2>7, <3>1, OkYields, ErrYields DEF eval_when, ResolutionErrors, ValueErrors
  <2> QED BY <2>1, <2>4, <2>5, <2>6, <2>7
<1> QED BY <1>1, <1>2

-----------------------------------------------------------------------------
(* The parts of a schema *)

LEMMA FieldParts ==
    ASSUME NEW f \in FieldDef
    PROVE  /\ f.tag = "field" /\ f.name \in Name /\ f.ty \in FieldType
           /\ f.offset \in OffsetKind
           /\ f.length # None => f.length \in LengthSpec
           /\ f.repeat # None => f.repeat \in RepeatInfo
           /\ f.when # None => f.when \in WhenCondition
BY DEF FieldDef, Option

LEMMA InstanceParts ==
    ASSUME NEW i \in StructInstanceDef
    PROVE  /\ i.tag = "instance" /\ i.name \in Name /\ i.struct_name \in Name
           /\ i.offset \in OffsetKind
           /\ i.repeat # None => i.repeat \in RepeatInfo
           /\ i.when # None => i.when \in WhenCondition
BY DEF StructInstanceDef, Option

LEMMA ItemParts ==
    ASSUME NEW i \in FieldItem
    PROVE  /\ i.tag = "field" => i \in FieldDef
           /\ i.tag = "instance" => i \in StructInstanceDef
           /\ i.tag \in {"field", "instance"}
BY FieldParts, InstanceParts DEF FieldItem

LEMMA Counts ==
    ASSUME NEW d, d.repeat # None => d.repeat \in RepeatInfo
    PROVE  /\ RepeatCount(d) \in Nat
           /\ \A k \in Nat : k < RepeatCount(d) /\ k # 0 => d.repeat # None
BY Widths DEF RepeatCount, RepeatInfo

(* A structure that is found is one of the schema.                         *)
LEMMA FoundStructure ==
    ASSUME schema \in Schema, NEW name, find_structure(name) # None
    PROVE  /\ find_structure(name) \in StructureDef
           /\ \E s \in 1 .. Len(schema.structures) :
                 find_structure(name) = schema.structures[s]
<1> DEFINE S == {s \in 1 .. Len(schema.structures) :
                    schema.structures[s].name = name}
<1>1. schema.structures \in Seq(StructureDef)
  BY DEF Schema
<1>2. S # {} /\ S \subseteq Nat
  BY <1>1 DEF find_structure
<1>3. \E m \in S : \A t \in S : m <= t
  <2> HIDE DEF S
  <2> QED BY <1>2, NatMin
<1> DEFINE first == CHOOSE m \in S : \A t \in S : m <= t
<1>4. first \in S
  <2> HIDE DEF S
  <2> QED BY <1>3
<1>5. find_structure(name) = schema.structures[first]
  BY <1>2 DEF find_structure
<1>6. first \in 1 .. Len(schema.structures)
  BY <1>4
<1> HIDE DEF first
<1> QED BY <1>1, <1>5, <1>6

-----------------------------------------------------------------------------
(* Offsets and lengths *)

LEMMA ResolutionErrorsAreErrors ==
    ASSUME NEW r, NEW S, Yields(r, S, ResolutionErrors)
    PROVE  Yields(r, S, PlacementErrors)
BY ErrorKinds DEF Yields

LEMMA OffsetKindYields ==
    ASSUME NEW c, Context(c), NEW offset \in OffsetKind
    PROVE  /\ Yields(resolve_offset_kind(offset, c), U64, PlacementErrors)
           /\ offset.kind # "Relative" =>
                 Yields(resolve_offset_kind(offset, c), U64, ResolutionErrors)
<1>1. CASE offset.kind = "Absolute"
  <2>1. offset.value \in U64
    BY <1>1 DEF OffsetKind
  <2> QED BY <1>1, <2>1, OkYields DEF resolve_offset_kind
<1>2. CASE offset.kind = "Relative"
  BY <1>2, ErrYields DEF resolve_offset_kind, PlacementErrors, StructuralErrors
<1>3. CASE offset.kind = "FieldRef"
  BY <1>3, DynamicOffsetYields, ResolutionErrorsAreErrors DEF resolve_offset_kind
<1>4. CASE offset.kind = "Expr"
  <2>1. offset.expr \in IntExpr
    BY <1>4 DEF OffsetKind
  <2> QED BY <1>4, <2>1, OffsetExprYields, ResolutionErrorsAreErrors DEF resolve_offset_kind
<1>5. offset.kind \in {"Absolute", "Relative", "FieldRef", "Expr"}
  BY DEF OffsetKind
<1> QED BY <1>1, <1>2, <1>3, <1>4, <1>5

LEMMA WidthYields ==
    ASSUME NEW ty \in NumericType
    PROVE  Width(ty) \in {1, 2, 4, 8} /\ Width(ty) \in 0 .. UsizeMax
<1>1. Width(ty) \in {1, 2, 4, 8}
  BY DEF Width, NumericType
<1>2. UsizeMax >= 8
  BY WidthAssumption
<1> QED BY <1>1, <1>2, Widths

LEMMA LiteralYields ==
    ASSUME NEW value \in U64
    PROVE  Yields(LiteralLength(value), 0 .. UsizeMax, ResolutionErrors)
<1>1. CASE value > UsizeMax
  BY <1>1, ErrYields DEF LiteralLength, ResolutionErrors, ValueErrors
<1>2. CASE ~(value > UsizeMax)
  <2>1. value \in 0 .. UsizeMax
    BY <1>2, Widths
  <2> QED BY <1>2, <2>1, OkYields DEF LiteralLength
<1> QED BY <1>1, <1>2

LEMMA FixedLengthYields ==
    ASSUME NEW f \in FieldDef
    PROVE  /\ Yields(fixed_field_byte_len(f), 0 .. UsizeMax, PlacementErrors)
           /\ f.ty \in NumericType \/ f.length = None \/ f.length.kind = "Literal"
                 => Yields(fixed_field_byte_len(f), 0 .. UsizeMax, ResolutionErrors)
           /\ f.ty \in NumericType => fixed_field_byte_len(f) = Ok(Width(f.ty))
<1>1. CASE f.ty \in NumericType
  BY <1>1, WidthYields, OkYields DEF fixed_field_byte_len
<1>2. CASE f.ty \notin NumericType /\ f.length = None
  <2>1. 0 \in 0 .. UsizeMax
    BY Widths
  <2> QED BY <1>2, <2>1, OkYields DEF fixed_field_byte_len
<1>3. CASE f.ty \notin NumericType /\ f.length # None /\ f.length.kind = "Literal"
  <2>1. f.length.value \in U64
    BY <1>3, FieldParts DEF LengthSpec
  <2> QED BY <1>3, <2>1, LiteralYields, ResolutionErrorsAreErrors DEF fixed_field_byte_len
<1>4. CASE f.ty \notin NumericType /\ f.length # None /\ f.length.kind # "Literal"
  BY <1>4, ErrYields DEF fixed_field_byte_len, PlacementErrors, StructuralErrors
<1> QED BY <1>1, <1>2, <1>3, <1>4

LEMMA LengthYields ==
    ASSUME NEW c, Context(c), NEW f \in FieldDef
    PROVE  /\ Yields(resolve_field_byte_len(f, c), 0 .. UsizeMax, ResolutionErrors)
           /\ f.ty \in NumericType => resolve_field_byte_len(f, c) = Ok(Width(f.ty))
<1> DEFINE dynamic == f.ty \in SizedType /\ f.length # None
<1>1. CASE ~dynamic
  <2>1. f.ty \in NumericType \/ f.length = None
    BY <1>1, FieldParts DEF FieldType
  <2>2. resolve_field_byte_len(f, c) = fixed_field_byte_len(f)
    BY <1>1 DEF resolve_field_byte_len
  <2> QED BY <2>1, <2>2, FixedLengthYields
<1>2. CASE dynamic
  <2>1. f.length \in LengthSpec /\ f.ty \notin NumericType
    BY <1>2, FieldParts DEF SizedType, NumericType
  <2>2. CASE f.length.kind = "Literal"
    <3>1. f.length.value \in U64
      BY <2>1, <2>2 DEF LengthSpec
    <3> QED BY <1>2, <2>1, <2>2, <3>1, LiteralYields DEF resolve_field_byte_len
  <2>3. CASE f.length.kind = "FieldRef"
    BY <1>2, <2>1, <2>3, DynamicLengthYields DEF resolve_field_byte_len
  <2>4. CASE f.length.kind = "Expr"
    <3>1. f.length.expr \in IntExpr
      BY <2>1, <2>4 DEF LengthSpec
    <3> QED BY <1>2, <2>1, <2>4, <3>1, LengthExprYields DEF resolve_field_byte_len
  <2>5. f.length.kind \in {"Literal", "FieldRef", "Expr"}
    BY <2>1 DEF LengthSpec
  <2> QED BY <2>2, <2>3, <2>4, <2>5
<1> QED BY <1>1, <1>2

LEMMA AdvanceYields ==
    ASSUME NEW start \in U64, NEW k \in Nat, NEW stride \in Nat
    PROVE  Yields(Advance(start, k, stride), U64, ResolutionErrors)
<1>1. CASE k = 0
  BY <1>1, OkYields DEF Advance
<1>2. CASE k # 0 /\ (k * stride > U64Max \/ start + k * stride > U64Max)
  BY <1>2, ErrYields DEF Advance, ResolutionErrors, ValueErrors
<1>3. CASE k # 0 /\ ~(k * stride > U64Max \/ start + k * stride > U64Max)
  <2>1. k * stride \in Nat
    BY SMT
  <2>2. start + k * stride \in U64
    <3> DEFINE p == k * stride
    <3>1. p \in Nat /\ ~(start + p > U64Max)
      BY <1>3, <2>1
    <3> HIDE DEF p
    <3>2. start + p \in U64
      BY <3>1, Widths
    <3> QED BY <3>2 DEF p
  <2>3. Advance(start, k, stride) = Ok(start + k * stride)
    BY <1>3 DEF Advance
  <2> QED BY <2>2, <2>3, OkYields
<1> QED BY <1>1, <1>2, <1>3

LEMMA AdvanceByLengthYields ==
    ASSUME NEW start, NEW k \in Nat, NEW f \in FieldDef,
           NEW E, E \in {PlacementErrors, ResolutionErrors}, Yields(start, U64, E),
           E = PlacementErrors \/ k = 0 \/ f.ty \in NumericType
              \/ f.length = None \/ f.length.kind = "Literal"
    PROVE  Yields(AdvanceByLength(start, k, f), U64, E)
<1> DEFINE stride == fixed_field_byte_len(f)
<1>1. CASE ~start.ok \/ k = 0
  BY <1>1 DEF AdvanceByLength
<1>2. CASE start.ok /\ k # 0
  <2>1. Yields(stride, 0 .. UsizeMax, E)
    BY <1>2, FixedLengthYields, ResolutionErrorsAreErrors
  <2>2. CASE ~stride.ok
    BY <1>2, <2>1, <2>2 DEF AdvanceByLength, Yields
  <2>3. CASE stride.ok
    <3>1. stride.val \in Nat /\ start.val \in U64
      BY <1>2, <2>1, <2>3, Widths DEF Yields
    <3>2. Yields(Advance(start.val, k, stride.val), U64, ResolutionErrors)
      BY <3>1, AdvanceYields
    <3>3. AdvanceByLength(start, k, f) = Advance(start.val, k, stride.val)
      BY <1>2, <2>3 DEF AdvanceByLength
    <3> QED BY <3>2, <3>3, ResolutionErrorsAreErrors
  <2> QED BY <2>2, <2>3
<1> QED BY <1>1, <1>2

(* What validation leaves of a field that repeats.                         *)
LEMMA ValidRepeats ==
    ASSUME NEW f \in FieldDef, NEW where, validate_field_def(f, where),
           f.repeat # None
    PROVE  f.ty \in NumericType \/ f.length.kind = "Literal"
BY FieldParts DEF validate_field_def, ValidLength, FieldType

LEMMA FieldOffsetYields ==
    ASSUME NEW c, Context(c), NEW f \in FieldDef,
           NEW k \in Nat, k < RepeatCount(f)
    PROVE  /\ Yields(resolve_repeated_offset(f, k, c), U64, PlacementErrors)
           /\ validate_field_def(f, "TopLevel") =>
                 Yields(resolve_repeated_offset(f, k, c), U64, ResolutionErrors)
<1>1. f.offset \in OffsetKind
  BY FieldParts
<1>2. Yields(resolve_repeated_offset(f, k, c), U64, PlacementErrors)
  BY <1>1, OffsetKindYields, AdvanceByLengthYields DEF resolve_repeated_offset
<1>3. ASSUME validate_field_def(f, "TopLevel")
      PROVE  Yields(resolve_repeated_offset(f, k, c), U64, ResolutionErrors)
  <2>1. f.offset.kind # "Relative"
    BY <1>3 DEF validate_field_def
  <2>2. k = 0 \/ f.ty \in NumericType \/ f.length.kind = "Literal"
    BY <1>3, FieldParts, Counts, ValidRepeats
  <2> QED BY <1>1, <2>1, <2>2, OffsetKindYields, AdvanceByLengthYields
             DEF resolve_repeated_offset
<1> QED BY <1>2, <1>3

LEMMA ChildOffsetYields ==
    ASSUME NEW parent \in U64, NEW f \in FieldDef,
           NEW k \in Nat, k < RepeatCount(f)
    PROVE  /\ Yields(resolve_struct_child_offset(parent, f, k), U64, PlacementErrors)
           /\ validate_field_def(f, "StructChild") =>
                 Yields(resolve_struct_child_offset(parent, f, k), U64, ResolutionErrors)
<1> DEFINE start == IF f.offset.kind # "Relative"
                    THEN Err("RelativeOffsetWithoutBase")
                    ELSE Advance(parent, 1, f.offset.value)
<1>0. resolve_struct_child_offset(parent, f, k) = AdvanceByLength(start, k, f)
  BY DEF resolve_struct_child_offset
<1>1. f.offset.kind = "Relative" => Yields(start, U64, ResolutionErrors)
  <2>1. f.offset.kind = "Relative" => f.offset.value \in Nat
    BY FieldParts, Widths DEF OffsetKind
  <2> QED BY <2>1, AdvanceYields
<1>2. Yields(start, U64, PlacementErrors)
  <2>1. CASE f.offset.kind # "Relative"
    BY <2>1, ErrYields DEF PlacementErrors, StructuralErrors
  <2>2. CASE f.offset.kind = "Relative"
    BY <1>1, <2>2, ResolutionErrorsAreErrors
  <2> QED BY <2>1, <2>2
<1> HIDE DEF start
<1>3. Yields(AdvanceByLength(start, k, f), U64, PlacementErrors)
  BY <1>2, AdvanceByLengthYields
<1>4. ASSUME validate_field_def(f, "StructChild")
      PROVE  Yields(AdvanceByLength(start, k, f), U64, ResolutionErrors)
  <2>1. f.offset.kind = "Relative"
    BY <1>4 DEF validate_field_def
  <2>2. k = 0 \/ f.ty \in NumericType \/ f.length.kind = "Literal"
    BY <1>4, FieldParts, Counts, ValidRepeats
  <2> QED BY <1>1, <2>1, <2>2, AdvanceByLengthYields
<1> QED BY <1>0, <1>3, <1>4

LEMMA InstanceOffsetYields ==
    ASSUME NEW c, Context(c), NEW i \in StructInstanceDef, Strided(i),
           NEW k \in Nat, k < RepeatCount(i)
    PROVE  /\ Yields(resolve_struct_instance_offset(i, k, c), U64, PlacementErrors)
           /\ i.offset.kind # "Relative" =>
                 Yields(resolve_struct_instance_offset(i, k, c), U64, ResolutionErrors)
<1> DEFINE start == resolve_offset_kind(i.offset, c)
<1>1. /\ Yields(start, U64, PlacementErrors)
      /\ i.offset.kind # "Relative" => Yields(start, U64, ResolutionErrors)
  BY InstanceParts, OffsetKindYields
<1>2. CASE ~start.ok \/ k = 0
  BY <1>1, <1>2 DEF resolve_struct_instance_offset
<1>3. CASE start.ok /\ k # 0
  <2>1. i.repeat # None /\ i.repeat.stride \in Nat
    <3>1. i.repeat # None /\ i.repeat \in RepeatInfo
      BY <1>3, InstanceParts, Counts
    <3> QED BY <3>1, Widths DEF RepeatInfo, Option, Strided
  <2>2. start.val \in U64
    BY <1>1, <1>3 DEF Yields
  <2>3. Yields(Advance(start.val, k, i.repeat.stride), U64, ResolutionErrors)
    BY <2>1, <2>2, AdvanceYields
  <2>4. resolve_struct_instance_offset(i, k, c)
          = Advance(start.val, k, i.repeat.stride)
    BY <1>3 DEF resolve_struct_instance_offset
  <2> QED BY <2>3, <2>4, ResolutionErrorsAreErrors
<1> QED BY <1>2, <1>3

-----------------------------------------------------------------------------
(* Reading the file *)

LEMMA SeqElements ==
    ASSUME NEW S, NEW q \in Seq(S) PROVE \A i \in 1 .. Len(q) : q[i] \in S
OBVIOUS

FileOK == file \in Seq(0 .. (ByteBase - 1)) /\ Len(file) <= UsizeMax

LEMMA UnsignedYields ==
    ASSUME FileOK, NEW offset \in Nat, NEW w \in {1, 2, 4, 8},
           offset + w <= Len(file), NEW endianness
    PROVE  /\ Unsigned(offset, w, endianness) \in U64
           /\ w = 4 => Unsigned(offset, w, endianness) \in 0 .. (Pow4 - 1)
<1> DEFINE digit(k) == IF endianness = "Little" THEN file[offset + 1 + k]
                                                ELSE file[offset + w - k]
           pair(k) == digit(k) + ByteBase * digit(k + 1)
           quad(k) == pair(k) + Pow2 * pair(k + 2)
<1>1. ASSUME NEW k \in Nat, k < w PROVE digit(k) \in 0 .. (ByteBase - 1)
  <2>1. offset + 1 + k \in 1 .. Len(file) /\ offset + w - k \in 1 .. Len(file)
    BY <1>1, SMT DEF FileOK
  <2>2. \A i \in 1 .. Len(file) : file[i] \in 0 .. (ByteBase - 1)
    BY SeqElements DEF FileOK
  <2> QED BY <2>1, <2>2
<1> HIDE DEF digit
<1>2. ASSUME NEW k \in Nat, k + 1 < w PROVE pair(k) \in 0 .. (Pow2 - 1)
  <2>1. digit(k) \in 0 .. (ByteBase - 1) /\ digit(k + 1) \in 0 .. (ByteBase - 1)
    BY <1>1, <1>2
  <2> QED BY <2>1, TwoDigits, Powers DEF Pow2
<1> HIDE DEF pair
<1>3. ASSUME NEW k \in Nat, k + 3 < w PROVE quad(k) \in 0 .. (Pow4 - 1)
  <2>1. pair(k) \in 0 .. (Pow2 - 1) /\ pair(k + 2) \in 0 .. (Pow2 - 1)
    BY <1>2, <1>3
  <2> QED BY <2>1, TwoDigits, Powers DEF Pow4
<1> HIDE DEF quad
<1>4. CASE w = 1
  <2>1. Unsigned(offset, w, endianness) = digit(0)
    BY <1>4 DEF Unsigned, digit
  <2>2. digit(0) \in 0 .. (ByteBase - 1)
    BY <1>1, <1>4
  <2> QED BY <1>4, <2>1, <2>2, Powers DEF U64
<1>5. CASE w = 2
  <2>1. Unsigned(offset, w, endianness) = pair(0)
    BY <1>5 DEF Unsigned, pair, digit
  <2>2. pair(0) \in 0 .. (Pow2 - 1)
    BY <1>2, <1>5
  <2> QED BY <1>5, <2>1, <2>2, Powers DEF U64
<1>6. CASE w = 4
  <2>1. Unsigned(offset, w, endianness) = quad(0)
    BY <1>6 DEF Unsigned, quad, pair, digit
  <2>2. quad(0) \in 0 .. (Pow4 - 1)
    BY <1>3, <1>6
  <2> QED BY <2>1, <2>2, Powers DEF U64
<1>7. CASE w = 8
  <2>1. Unsigned(offset, w, endianness) = quad(0) + Pow4 * quad(4)
    BY <1>7 DEF Unsigned, quad, pair, digit
  <2>2. quad(0) \in 0 .. (Pow4 - 1) /\ quad(4) \in 0 .. (Pow4 - 1)
    BY <1>3, <1>7
  <2>3. quad(0) + Pow4 * quad(4) \in 0 .. (Pow4 * Pow4 - 1)
    BY <2>2, TwoDigits, Powers
  <2> QED BY <1>7, <2>1, <2>3 DEF U64, Pow8
<1> QED BY <1>4, <1>5, <1>6, <1>7

LEMMA DecodeYields ==
    ASSUME FileOK, NEW f \in FieldDef, NEW offset \in U64, NEW len \in 0 .. UsizeMax,
           f.ty \in NumericType => len = Width(f.ty)
    PROVE  /\ Yields(interpret_field_at(f, offset, len), FieldValue, ValueErrors)
           /\ interpret_field_at(f, offset, len).ok <=> offset + len <= Len(file)
<1> DEFINE n == Unsigned(offset, len, FieldEndianness(f))
<1>1. CASE ~checked_range(offset, len)
  <2>1. interpret_field_at(f, offset, len) = Err("OutOfBounds")
    BY <1>1 DEF interpret_field_at
  <2>2. Yields(Err("OutOfBounds"), FieldValue, ValueErrors)
    BY ErrYields DEF ValueErrors
  <2>3. Len(file) \in Nat /\ offset \in Nat
    BY Widths DEF FileOK
  <2>4. ~(offset + len <= Len(file))
    BY <1>1, <2>3, Widths DEF checked_range, FileOK
  <2> QED BY <2>1, <2>2, <2>4 DEF Err
<1>2. CASE checked_range(offset, len)
  <2>1. offset + len <= Len(file)
    BY <1>2 DEF checked_range
  <2>2. f.ty \in NumericType => len \in {1, 2, 4, 8}
    BY WidthYields
  <2>3. offset \in Nat
    BY Widths
  <2>4. CASE f.ty \in {"U8", "U16", "U32", "U64"}
    <3>1. n \in U64
      BY <2>1, <2>2, <2>3, <2>4, UnsignedYields DEF NumericType
    <3> HIDE DEF n
    <3>2. [kind |-> "UInt", n |-> n] \in FieldValue
      BY <3>1 DEF FieldValue
    <3>3. interpret_field_at(f, offset, len) = Ok([kind |-> "UInt", n |-> n])
      <4>1. len = Width(f.ty)
        BY <2>4 DEF NumericType
      <4> QED BY <1>2, <2>4, <4>1 DEF interpret_field_at, n, SizedType
    <3> QED BY <2>1, <3>2, <3>3, OkYields DEF Ok
  <2>5. CASE f.ty = "I32"
    <3>1. n \in 0 .. (Pow4 - 1)
      <4>1. len = 4
        BY <2>5 DEF Width, NumericType
      <4> QED BY <2>1, <2>3, <4>1, UnsignedYields
    <3> HIDE DEF n
    <3>2. Signed4(n) \in (-(Pow4 \div 2)) .. ((Pow4 \div 2) - 1)
      <4>1. PICK h \in Nat : Pow4 = 2 * h
        BY Powers
      <4>2. Pow4 \div 2 = h
        BY <4>1, SMT
      <4> QED BY <3>1, <4>1, <4>2, SMT DEF Signed4
    <3>3. [kind |-> "Int", n |-> Signed4(n)] \in FieldValue
      BY <3>2 DEF FieldValue
    <3>4. interpret_field_at(f, offset, len) = Ok([kind |-> "Int", n |-> Signed4(n)])
      BY <1>2, <2>5 DEF interpret_field_at, n, NumericType, SizedType
    <3> QED BY <2>1, <3>3, <3>4, OkYields DEF Ok
  <2>6. CASE f.ty = "F32"
    <3>1. [kind |-> "Float", n |-> 0] \in FieldValue
      BY DEF FieldValue
    <3>2. interpret_field_at(f, offset, len) = Ok([kind |-> "Float", n |-> 0])
      BY <1>2, <2>6 DEF interpret_field_at, NumericType, SizedType
    <3> QED BY <2>1, <3>1, <3>2, OkYields DEF Ok
  <2>7. CASE f.ty \in SizedType
    <3>1. [kind |-> f.ty, n |-> 0] \in FieldValue
      BY <2>7 DEF FieldValue, SizedType
    <3>2. interpret_field_at(f, offset, len) = Ok([kind |-> f.ty, n |-> 0])
      BY <1>2, <2>7 DEF interpret_field_at, NumericType, SizedType
    <3> QED BY <2>1, <3>1, <3>2, OkYields DEF Ok
  <2> QED BY <2>4, <2>5, <2>6, <2>7, FieldParts DEF FieldType, NumericType
<1> QED BY <1>1, <1>2

-----------------------------------------------------------------------------
(* Rows *)

LEMMA UnplacedRowOK ==
    ASSUME NEW f \in FieldDef, NEW name \in Name, NEW e \in PlacementErrors
    PROVE  /\ UnplacedRow(f, name, e) \in Row
           /\ WellFormed(UnplacedRow(f, name, e))
           /\ UnplacedRow(f, name, e).error = e
           /\ UnplacedRow(f, name, e).display_name = name
           /\ UnplacedRow(f, name, e).value = None
           /\ ~UnplacedRow(f, name, e).offset_valid
<1>1. 0 \in U64 /\ 0 \in 0 .. UsizeMax
  BY Widths, Powers DEF U64
<1>2. e \in InterpretError /\ e # "OutOfBounds"
  BY ErrorKinds
<1> QED BY <1>1, <1>2, NoneAssumption
        DEF UnplacedRow, ErrorRow, Row, WellFormed, Option

LEMMA ScalarRowOK ==
    ASSUME FileOK, NEW c, Context(c), NEW f \in FieldDef, NEW name \in Name,
           NEW offset \in U64
    PROVE  /\ interpret_scalar_at(f, name, offset, c) \in Row
           /\ WellFormed(interpret_scalar_at(f, name, offset, c))
           /\ interpret_scalar_at(f, name, offset, c).error \in ValueErrors \cup {None}
           /\ interpret_scalar_at(f, name, offset, c).display_name = name
<1> DEFINE len == resolve_field_byte_len(f, c)
           v == interpret_field_at(f, offset, len.val)
           row == interpret_scalar_at(f, name, offset, c)
<1>1. /\ Yields(len, 0 .. UsizeMax, ResolutionErrors)
      /\ f.ty \in NumericType => len = Ok(Width(f.ty))
  BY LengthYields
<1>2. CASE ~len.ok
  <2>1. /\ len.err \in ValueErrors /\ len.err # "OutOfBounds"
        /\ 0 \in 0 .. UsizeMax
    BY <1>1, <1>2, Widths, ErrorKinds DEF Yields
  <2>2. row = ErrorRow(f, name, offset, TRUE, 0, len.err)
    BY <1>2 DEF interpret_scalar_at
  <2> HIDE DEF row, len
  <2>3. row \in Row /\ WellFormed(row) /\ row.error = len.err /\ row.display_name = name
    BY <2>1, <2>2, NoneAssumption
       DEF ErrorRow, Row, WellFormed, Option, InterpretError
  <2> QED BY <2>1, <2>3 DEF row
<1>3. CASE len.ok
  <2>1. len.val \in 0 .. UsizeMax
    BY <1>1, <1>3 DEF Yields
  <2>2. f.ty \in NumericType => len.val = Width(f.ty)
    BY <1>1 DEF Ok
  <2>3. Yields(v, FieldValue, ValueErrors) /\ (v.ok <=> offset + len.val <= Len(file))
    <3> HIDE DEF len
    <3> QED BY <2>1, <2>2, DecodeYields
  <2>4. row = IF ~v.ok THEN ErrorRow(f, name, offset, TRUE, len.val, v.err)
              ELSE [field |-> f, display_name |-> name, resolved_offset |-> offset,
                    offset_valid |-> TRUE, byte_len |-> len.val,
                    value |-> v.val, error |-> None]
    BY <1>3 DEF interpret_scalar_at
  <2> HIDE DEF row, v, len
  <2>5. CASE ~v.ok
    <3>1. v.err \in ValueErrors
      BY <2>3, <2>5 DEF Yields
    <3>2. row \in Row /\ WellFormed(row) /\ row.error = v.err /\ row.display_name = name
      <4>1. Len(file) \in Nat /\ offset \in Nat
        BY Widths DEF FileOK
      <4>2. offset + len.val > Len(file)
        BY <2>1, <2>3, <2>5, <4>1
      <4> QED BY <2>1, <2>4, <2>5, <3>1, <4>2, NoneAssumption
              DEF ErrorRow, Row, WellFormed, Option, InterpretError
    <3> QED BY <3>1, <3>2 DEF row
  <2>6. CASE v.ok
    <3>1. v.val \in FieldValue /\ v.val # None /\ None # "OutOfBounds"
      BY <2>3, <2>6, NoneAssumption DEF Yields, InterpretError, ValueErrors
    <3>2. row \in Row /\ WellFormed(row) /\ row.error = None /\ row.display_name = name
      BY <2>1, <2>3, <2>4, <2>6, <3>1 DEF Row, WellFormed, Option
    <3> QED BY <3>2 DEF row
  <2> QED BY <2>5, <2>6
<1> QED BY <1>1, <1>2, <1>3 DEF Yields

LEMMA RowAtOK ==
    ASSUME FileOK, NEW c, Context(c), NEW f \in FieldDef, NEW name \in Name,
           NEW offset, Yields(offset, U64, PlacementErrors)
    PROVE  /\ RowAt(f, name, offset, c) \in Row
           /\ WellFormed(RowAt(f, name, offset, c))
           /\ RowAt(f, name, offset, c).display_name = name
           /\ Yields(offset, U64, ResolutionErrors) =>
                 RowAt(f, name, offset, c).error \in ValueErrors \cup {None}
<1>1. CASE offset.ok
  BY <1>1, ScalarRowOK DEF RowAt, Yields
<1>2. CASE ~offset.ok
  BY <1>2, UnplacedRowOK, ErrorKinds DEF RowAt, Yields
<1> QED BY <1>1, <1>2 DEF Yields

LEMMA NamesOK ==
    ASSUME NEW name \in Name
    PROVE  /\ \A m \in Name : Member(m, name) \in Name
           /\ \A k \in Nat : \A def : RepeatName(def, name, k) \in Name
<1>1. \A m \in Name : Member(m, name) \in Name
  BY DEF Name, Member
<1>2. \A k \in Nat : Indexed(name, k) \in Name
  BY DEF Name, Indexed
<1> QED BY <1>1, <1>2 DEF RepeatName

LEMMA ConcatLength ==
    ASSUME NEW S, NEW T, NEW p \in Seq(S), NEW q \in Seq(T)
    PROVE  Len(p \o q) = Len(p) + Len(q)
OBVIOUS

LEMMA ConcatParts ==
    ASSUME NEW S, NEW p \in Seq(S), NEW q \in Seq(S)
    PROVE  /\ p \o q \in Seq(S) /\ Len(p \o q) = Len(p) + Len(q)
           /\ \A r \in 1 .. Len(p) : (p \o q)[r] = p[r]
           /\ \A r \in (Len(p) + 1) .. Len(p \o q) : (p \o q)[r] = q[r - Len(p)]
OBVIOUS

LEMMA PushRowOK ==
    ASSUME Context(context), rows \in Seq(Row), NEW row \in Row, PushRow(row)
    PROVE  /\ Context(context)'
           /\ rows' \in Seq(Row)
           /\ Len(rows') = Len(rows) + 1
           /\ \A r \in 1 .. Len(rows) : rows'[r] = rows[r]
           /\ rows'[Len(rows) + 1] = row
<1>1. row.value # None => row.value \in FieldValue
  BY DEF Row, Option
<1>2. row.display_name \in Name
  BY DEF Row
<1>3. CASE row.value = None
  BY <1>3 DEF PushRow
<1>4. CASE row.value # None
  <2>1. context' = record_context_value(context, row.display_name, row.value)
    BY <1>4 DEF PushRow
  <2>2. \A n \in DOMAIN context' : n \in Name /\ context'[n] \in FieldValue
    BY <1>1, <1>2, <1>4, <2>1 DEF Context, record_context_value
  <2>3. Context(context)'
    BY <2>2 DEF Context
  <2> QED BY <2>3 DEF PushRow
<1> QED BY <1>3, <1>4

LEMMA PushInstanceErrorOK ==
    ASSUME rows \in Seq(Row), NEW structure \in StructureDef, NEW name \in Name,
           NEW e \in PlacementErrors, PushInstanceError(structure, name, e)
    PROVE  /\ rows' \in Seq(Row)
           /\ Len(rows') >= Len(rows)
           /\ \A r \in 1 .. Len(rows) : rows'[r] = rows[r]
           /\ \A r \in (Len(rows) + 1) .. Len(rows') :
                 /\ WellFormed(rows'[r]) /\ rows'[r].error = e
                 /\ rows'[r].value = None /\ ~rows'[r].offset_valid
<1> DEFINE block == [c \in 1 .. Len(structure.fields) |->
                        UnplacedRow(structure.fields[c],
                                    Member(name, structure.fields[c].name), e)]
<1>1. structure.fields \in Seq(FieldDef)
  BY DEF StructureDef
<1>2. ASSUME NEW c \in 1 .. Len(structure.fields)
      PROVE  /\ block[c] \in Row /\ WellFormed(block[c])
             /\ block[c].error = e /\ block[c].value = None
             /\ ~block[c].offset_valid
  <2>1. structure.fields[c] \in FieldDef
    BY <1>1
  <2>2. Member(name, structure.fields[c].name) \in Name
    BY <2>1, FieldParts, NamesOK
  <2> QED BY <2>1, <2>2, UnplacedRowOK
<1>3. block \in Seq(Row) /\ Len(block) = Len(structure.fields)
  <2>1. Len(structure.fields) \in Nat
    BY <1>1
  <2>2. block \in [1 .. Len(structure.fields) -> Row]
    BY <1>2
  <2> HIDE DEF block
  <2> QED BY <2>1, <2>2
<1>4. rows' = rows \o block
  BY DEF PushInstanceError
<1> HIDE DEF block
<1>5. /\ rows' \in Seq(Row) /\ Len(rows') = Len(rows) + Len(block)
      /\ \A r \in 1 .. Len(rows) : rows'[r] = rows[r]
      /\ \A r \in (Len(rows) + 1) .. Len(rows') : rows'[r] = block[r - Len(rows)]
  <2>1. /\ rows \o block \in Seq(Row) /\ Len(rows \o block) = Len(rows) + Len(block)
        /\ \A r \in 1 .. Len(rows) : (rows \o block)[r] = rows[r]
        /\ \A r \in (Len(rows) + 1) .. Len(rows \o block) :
              (rows \o block)[r] = block[r - Len(rows)]
    BY <1>3, ConcatParts, Zenon
  <2> QED BY <1>4, <2>1, Zenon
<1>6. ASSUME NEW r \in (Len(rows) + 1) .. Len(rows')
      PROVE  r - Len(rows) \in 1 .. Len(structure.fields)
  BY <1>3, <1>5
<1>7. \A r \in (Len(rows) + 1) .. Len(rows') :
         /\ WellFormed(rows'[r]) /\ rows'[r].error = e
         /\ rows'[r].value = None /\ ~rows'[r].offset_valid
  BY <1>2, <1>5, <1>6, Zenon
<1>8. Len(rows') >= Len(rows)
  <2>1. Len(rows) \in Nat /\ Len(block) \in Nat
    BY <1>3
  <2> QED BY <1>5, <2>1
<1> QED BY <1>5, <1>7, <1>8, Zenon

-----------------------------------------------------------------------------
(* What a step may do to the table and the context: nothing, one row, or   *)
(* one failed row for each child of an instance.                           *)

NoFault(e) == validate_schema(schema) => e \notin StructuralErrors

Untouched == UNCHANGED <<context, rows>>

OneRow ==
    \E row \in Row : WellFormed(row) /\ NoFault(row.error) /\ PushRow(row)

FailedInstance ==
    \E structure \in StructureDef, name \in Name, e \in PlacementErrors :
       NoFault(e) /\ PushInstanceError(structure, name, e)

Effect == Untouched \/ OneRow \/ FailedInstance

LEMMA ValueErrorsAreNoFault ==
    \A e \in ValueErrors \cup {None} : NoFault(e)
<1>1. \A e \in ValueErrors : e \notin StructuralErrors
  BY DEF ValueErrors, StructuralErrors
<1>2. None \notin StructuralErrors
  BY NoneAssumption DEF InterpretError
<1> QED BY <1>1, <1>2 DEF NoFault

LEMMA ThisField ==
    ASSUME TypeOK, item <= Len(schema.fields), This.tag = "field"
    PROVE  /\ This \in FieldDef
           /\ validate_schema(schema) => validate_field_def(This, "TopLevel")
<1>1. schema.fields \in Seq(FieldItem) /\ item \in 1 .. Len(schema.fields)
  BY DEF TypeOK, Schema
<1>2. This \in FieldItem
  BY <1>1 DEF This
<1>3. validate_schema(schema) => validate_field_def(This, "TopLevel")
  BY <1>1 DEF validate_schema, This
<1> QED BY <1>2, <1>3, ItemParts

LEMMA ThisInstance ==
    ASSUME TypeOK, item <= Len(schema.fields), This.tag = "instance"
    PROVE  /\ This \in StructInstanceDef
           /\ validate_schema(schema) => validate_struct_instance(This, schema)
<1>1. schema.fields \in Seq(FieldItem) /\ item \in 1 .. Len(schema.fields)
  BY DEF TypeOK, Schema
<1>2. This \in FieldItem
  BY <1>1 DEF This
<1>3. validate_schema(schema) => validate_struct_instance(This, schema)
  BY <1>1 DEF validate_schema, This
<1> QED BY <1>2, <1>3, ItemParts

LEMMA ChildOfStructure ==
    ASSUME TypeOK, Structure # None, child <= Len(Structure.fields)
    PROVE  /\ Structure \in StructureDef
           /\ ThisChild \in FieldDef
           /\ validate_schema(schema) => validate_field_def(ThisChild, "StructChild")
<1>1. PICK s \in 1 .. Len(schema.structures) :
         Structure = schema.structures[s] /\ Structure \in StructureDef
  BY FoundStructure DEF TypeOK, Structure
<1>2. Structure.fields \in Seq(FieldDef)
  BY <1>1 DEF StructureDef
<1>3. child \in 1 .. Len(Structure.fields)
  BY <1>2 DEF TypeOK
<1>4. ThisChild = schema.structures[s].fields[child]
  BY <1>1 DEF ThisChild
<1>5. validate_schema(schema) => validate_field_def(ThisChild, "StructChild")
  BY <1>1, <1>3, <1>4 DEF validate_schema, validate_structures
<1> QED BY <1>1, <1>2, <1>3, <1>5 DEF ThisChild

LEMMA RejectFieldEffect ==
    ASSUME TypeOK, RejectField PROVE Effect
<1>1. This \in FieldDef /\ Context(context)
  BY ThisField DEF RejectField, AtItem, TypeOK, Context
<1>2. Yields(Gate(This, context), BOOLEAN, ResolutionErrors)
  BY <1>1, FieldParts, GateYields
<1> DEFINE e == Gate(This, context).err
<1>3. e \in ValueErrors /\ e \in PlacementErrors
  BY <1>2, ErrorKinds DEF RejectField, Yields
<1>4. PushRow(UnplacedRow(This, This.name, e))
  BY DEF RejectField
<1> HIDE DEF e
<1> QED BY <1>1, <1>3, <1>4, FieldParts, UnplacedRowOK, ValueErrorsAreNoFault
        DEF Effect, OneRow

LEMMA RepeatFieldEffect ==
    ASSUME TypeOK, RepeatField PROVE Effect
<1>1. /\ This \in FieldDef /\ Context(context) /\ FileOK /\ index \in Nat
      /\ validate_schema(schema) => validate_field_def(This, "TopLevel")
  BY ThisField DEF RepeatField, TypeOK, Context, FileOK
<1> DEFINE offset == resolve_repeated_offset(This, index, context)
           name == RepeatName(This, This.name, index)
           row == RowAt(This, name, offset, context)
<1>2. /\ Yields(offset, U64, PlacementErrors)
      /\ validate_schema(schema) => Yields(offset, U64, ResolutionErrors)
  BY <1>1, FieldOffsetYields DEF RepeatField
<1>3. name \in Name
  BY <1>1, FieldParts, NamesOK
<1>4. PushRow(row)
  BY DEF RepeatField
<1> HIDE DEF offset, name
<1>5. row \in Row /\ WellFormed(row)
  BY <1>1, <1>2, <1>3, RowAtOK
<1>6. validate_schema(schema) => row.error \in ValueErrors \cup {None}
  BY <1>1, <1>2, <1>3, RowAtOK
<1> HIDE DEF row
<1>7. NoFault(row.error)
  BY <1>6, ValueErrorsAreNoFault DEF NoFault
<1> QED BY <1>4, <1>5, <1>7 DEF Effect, OneRow

LEMMA RejectInstanceEffect ==
    ASSUME TypeOK, RejectInstance PROVE FailedInstance
<1>1. This \in StructInstanceDef /\ Context(context)
  BY ThisInstance DEF RejectInstance, AtItem, TypeOK, Context
<1>2. Yields(Gate(This, context), BOOLEAN, ResolutionErrors)
  BY <1>1, InstanceParts, GateYields
<1> DEFINE e == Gate(This, context).err
<1>3. e \in ValueErrors /\ e \in PlacementErrors
  BY <1>2, ErrorKinds DEF RejectInstance, Yields
<1>4. Structure \in StructureDef
  BY FoundStructure DEF RejectInstance, Structure, TypeOK
<1>5. PushInstanceError(Structure, This.name, e)
  BY DEF RejectInstance
<1> HIDE DEF e
<1> QED BY <1>1, <1>3, <1>4, <1>5, InstanceParts, ValueErrorsAreNoFault
        DEF FailedInstance

LEMMA RejectUnstridedEffect ==
    ASSUME TypeOK, RejectUnstrided PROVE FailedInstance
<1>1. /\ This \in StructInstanceDef
      /\ validate_schema(schema) => validate_struct_instance(This, schema)
  BY ThisInstance DEF RejectUnstrided, AtItem
<1>2. ~validate_schema(schema)
  BY <1>1 DEF RejectUnstrided, Strided, validate_struct_instance
<1>3. Structure \in StructureDef
  BY FoundStructure DEF RejectUnstrided, Structure, TypeOK
<1>4. "MissingStructStride" \in PlacementErrors
  BY DEF PlacementErrors, StructuralErrors
<1>5. PushInstanceError(Structure, This.name, "MissingStructStride")
  BY DEF RejectUnstrided
<1> QED BY <1>1, <1>2, <1>3, <1>4, <1>5, InstanceParts
        DEF FailedInstance, NoFault

LEMMA InstancePlace ==
    ASSUME TypeOK, pc = "instance", index < RepeatCount(This)
    PROVE  /\ This \in StructInstanceDef /\ Structure \in StructureDef
           /\ InstanceName \in Name
           /\ Yields(InstanceOffset, U64, PlacementErrors)
           /\ validate_schema(schema) => Yields(InstanceOffset, U64, ResolutionErrors)
<1>1. /\ This \in StructInstanceDef /\ Context(context) /\ Strided(This)
      /\ index \in Nat /\ Structure # None
      /\ validate_schema(schema) => validate_struct_instance(This, schema)
  BY ThisInstance DEF TypeOK, Context
<1>2. Structure \in StructureDef
  BY <1>1, FoundStructure DEF Structure, TypeOK
<1>3. InstanceName \in Name
  BY <1>1, InstanceParts, NamesOK DEF InstanceName
<1>4. validate_schema(schema) => This.offset.kind # "Relative"
  BY <1>1 DEF validate_struct_instance
<1> QED BY <1>1, <1>2, <1>3, <1>4, InstanceOffsetYields DEF InstanceOffset

LEMMA RejectPlacementEffect ==
    ASSUME TypeOK, RejectPlacement PROVE FailedInstance
<1>1. /\ Structure \in StructureDef /\ InstanceName \in Name
      /\ Yields(InstanceOffset, U64, PlacementErrors)
      /\ validate_schema(schema) => Yields(InstanceOffset, U64, ResolutionErrors)
  BY InstancePlace DEF RejectPlacement
<1>2. /\ InstanceOffset.err \in PlacementErrors
      /\ validate_schema(schema) => InstanceOffset.err \in ValueErrors
  BY <1>1, ErrorKinds DEF RejectPlacement, Yields
<1>3. NoFault(InstanceOffset.err)
  BY <1>2, ValueErrorsAreNoFault DEF NoFault
<1> QED BY <1>1, <1>2, <1>3 DEF RejectPlacement, FailedInstance

LEMMA ChildNameOK ==
    ASSUME TypeOK, pc \in {"child", "childRepeat"}, ThisChild \in FieldDef
    PROVE  ChildName \in Name
<1>1. This \in StructInstanceDef /\ index \in Nat
  BY ThisInstance DEF TypeOK
<1>2. InstanceName \in Name
  BY <1>1, InstanceParts, NamesOK DEF InstanceName
<1> QED BY <1>2, FieldParts, NamesOK DEF ChildName

LEMMA RejectChildEffect ==
    ASSUME TypeOK, RejectChild PROVE Effect
<1>1. ThisChild \in FieldDef /\ Context(context)
  BY ChildOfStructure DEF RejectChild, AtChild, TypeOK, Context
<1>2. Yields(Gate(ThisChild, context), BOOLEAN, ResolutionErrors)
  BY <1>1, FieldParts, GateYields
<1> DEFINE e == Gate(ThisChild, context).err
<1>3. e \in ValueErrors /\ e \in PlacementErrors
  BY <1>2, ErrorKinds DEF RejectChild, Yields
<1>4. PushRow(UnplacedRow(ThisChild, ChildName, e))
  BY DEF RejectChild
<1>5. ChildName \in Name
  BY <1>1, ChildNameOK DEF RejectChild, AtChild
<1> HIDE DEF e
<1> QED BY <1>1, <1>3, <1>4, <1>5, UnplacedRowOK, ValueErrorsAreNoFault
        DEF Effect, OneRow

LEMMA RepeatChildEffect ==
    ASSUME TypeOK, RepeatChild PROVE Effect
<1>1. /\ ThisChild \in FieldDef /\ Context(context) /\ FileOK
      /\ childIndex \in Nat /\ base \in U64
      /\ validate_schema(schema) => validate_field_def(ThisChild, "StructChild")
  BY ChildOfStructure DEF RepeatChild, TypeOK, Context, FileOK
<1> DEFINE offset == resolve_struct_child_offset(base, ThisChild, childIndex)
           name == RepeatName(ThisChild, ChildName, childIndex)
           row == RowAt(ThisChild, name, offset, context)
<1>2. /\ Yields(offset, U64, PlacementErrors)
      /\ validate_schema(schema) => Yields(offset, U64, ResolutionErrors)
  BY <1>1, ChildOffsetYields DEF RepeatChild
<1>3. name \in Name
  BY <1>1, ChildNameOK, NamesOK DEF RepeatChild
<1>4. PushRow(row)
  BY DEF RepeatChild
<1> HIDE DEF offset, name
<1>5. row \in Row /\ WellFormed(row)
  BY <1>1, <1>2, <1>3, RowAtOK
<1>6. validate_schema(schema) => row.error \in ValueErrors \cup {None}
  BY <1>1, <1>2, <1>3, RowAtOK
<1> HIDE DEF row
<1>7. NoFault(row.error)
  BY <1>6, ValueErrorsAreNoFault DEF NoFault
<1> QED BY <1>4, <1>5, <1>7 DEF Effect, OneRow

LEMMA StepEffect ==
    ASSUME TypeOK, [Next]_vars
    PROVE  Effect /\ UNCHANGED <<file, schema>>
<1>1. UNCHANGED <<file, schema>>
  BY DEF Next, vars, EnterField, SkipField, RejectField, RepeatField, EndField,
         SkipUnknownStructure, SkipInstance, RejectInstance, RejectUnstrided,
         EnterInstance, PlaceInstance, RejectPlacement, EndInstances,
         EnterChild, SkipChild, RejectChild, RepeatChild, EndChild, EndInstance,
         Return, Done, LeaveItem, EnterRepeats
<1>2. ASSUME EnterField \/ SkipField \/ EndField \/ SkipUnknownStructure
             \/ SkipInstance \/ EnterInstance \/ PlaceInstance \/ EndInstances
             \/ EnterChild \/ SkipChild \/ EndChild \/ EndInstance
             \/ Return \/ Done \/ UNCHANGED vars
      PROVE  Untouched
  BY <1>2 DEF Untouched, vars, EnterField, SkipField, EndField, SkipUnknownStructure,
         SkipInstance, EnterInstance, PlaceInstance, EndInstances, EnterChild,
         SkipChild, EndChild, EndInstance, Return, Done, EnterRepeats
<1> QED BY <1>1, <1>2, RejectFieldEffect, RepeatFieldEffect, RejectInstanceEffect,
           RejectUnstridedEffect, RejectPlacementEffect, RejectChildEffect,
           RepeatChildEffect DEF Next, Effect

-----------------------------------------------------------------------------
(* Type correctness *)

LEMMA EffectTypes ==
    ASSUME Context(context), rows \in Seq(Row), Effect
    PROVE  Context(context)' /\ rows' \in Seq(Row)
<1>1. CASE Untouched
  BY <1>1 DEF Untouched, Context
<1>2. CASE OneRow
  BY <1>2, PushRowOK DEF OneRow
<1>3. CASE FailedInstance
  BY <1>3, PushInstanceErrorOK DEF FailedInstance, PushInstanceError, Context
<1> QED BY <1>1, <1>2, <1>3 DEF Effect

(* The loops: where the pass is, and what that says about its item.        *)
Control ==
    /\ pc \in {"item", "field", "instance", "child", "childRepeat", "done"}
    /\ item \in 1 .. (Len(schema.fields) + 1)
    /\ index \in Nat
    /\ child \in Nat \ {0}
    /\ childIndex \in Nat
    /\ base \in U64
    /\ pc = "field" => item <= Len(schema.fields) /\ This.tag = "field"
    /\ pc \in {"instance", "child", "childRepeat"} =>
          /\ item <= Len(schema.fields)
          /\ This.tag = "instance"
          /\ Structure # None
          /\ Strided(This)
    /\ pc = "childRepeat" => child <= Len(Structure.fields)

LEMMA ControlStep ==
    ASSUME TypeOK, [Next]_vars PROVE Control'
<1> USE DEF Control
<1>0. Control /\ Len(schema.fields) \in Nat
  BY DEF TypeOK, Schema
<1>1. UNCHANGED <<schema, item>> => This' = This /\ Structure' = Structure
  BY DEF This, Structure, find_structure
<1>2. ASSUME LeaveItem, item <= Len(schema.fields) PROVE Control'
  BY <1>0, <1>2 DEF LeaveItem
<1>3. CASE EnterField
  BY <1>0, <1>1, <1>3 DEF EnterField, AtItem, EnterRepeats
<1>4. CASE EnterInstance
  BY <1>0, <1>1, <1>4 DEF EnterInstance, AtItem, EnterRepeats
<1>5. CASE RepeatField
  BY <1>0, <1>1, <1>5 DEF RepeatField
<1>6. CASE PlaceInstance
  <2>1. base' \in U64
    BY <1>6, InstancePlace DEF PlaceInstance, Yields
  <2> QED BY <1>0, <1>1, <1>6, <2>1 DEF PlaceInstance
<1>7. CASE RejectPlacement
  BY <1>0, <1>1, <1>7 DEF RejectPlacement
<1>8. CASE EnterChild
  BY <1>0, <1>1, <1>8 DEF EnterChild, AtChild
<1>9. CASE SkipChild \/ RejectChild
  <2>1. UNCHANGED <<schema, item, index, childIndex, base>> /\ child' = child + 1
        /\ pc = "child" /\ pc' = "child"
    BY <1>9 DEF SkipChild, RejectChild, AtChild
  <2> QED BY <1>0, <1>1, <2>1
<1>10. CASE RepeatChild
  BY <1>0, <1>1, <1>10 DEF RepeatChild
<1>11. CASE EndChild \/ EndInstance
  BY <1>0, <1>1, <1>11 DEF EndChild, EndInstance
<1>12. CASE Return
  BY <1>0, <1>12 DEF Return
<1>13. CASE Done \/ UNCHANGED vars
  BY <1>0, <1>1, <1>13 DEF Done, vars
<1>14. CASE SkipField \/ RejectField
  BY <1>2, <1>14 DEF SkipField, RejectField, AtItem
<1>15. CASE EndField \/ EndInstances
  BY <1>0, <1>2, <1>15 DEF EndField, EndInstances
<1>16. CASE SkipUnknownStructure \/ SkipInstance \/ RejectInstance \/ RejectUnstrided
  BY <1>2, <1>16 DEF SkipUnknownStructure, SkipInstance, RejectInstance,
                     RejectUnstrided, AtItem
<1> QED BY <1>3, <1>4, <1>5, <1>6, <1>7, <1>8, <1>9, <1>10, <1>11, <1>12, <1>13,
           <1>14, <1>15, <1>16 DEF Next

LEMMA TypeHolds == Init /\ [][Next]_vars => []TypeOK
<1>1. Init => TypeOK
  <2> SUFFICES ASSUME Init PROVE TypeOK
    OBVIOUS
  <2>1. FileOK /\ schema \in Schema
    BY InputAssumption DEF Init, FileOK
  <2>2. Len(schema.fields) \in Nat
    BY <2>1 DEF Schema
  <2>3. 0 \in U64
    BY Powers DEF U64
  <2> QED BY <2>1, <2>2, <2>3 DEF Init, TypeOK, FileOK
<1>2. TypeOK /\ [Next]_vars => TypeOK'
  <2> SUFFICES ASSUME TypeOK, [Next]_vars PROVE TypeOK'
    OBVIOUS
  <2>1. Control'
    BY ControlStep
  <2>2. Effect /\ UNCHANGED <<file, schema>>
    BY StepEffect
  <2>3. Context(context)' /\ rows' \in Seq(Row)
    BY <2>2, EffectTypes DEF TypeOK, Context
  <2> QED BY <2>1, <2>2, <2>3 DEF TypeOK, Control, Context
<1> QED BY <1>1, <1>2, PTL

(* Every schema and file leave the pass in a well-typed state: offsets and *)
(* lengths stay in u64 and usize, and each loop runs over something that   *)
(* exists.                                                                 *)
THEOREM TypeCorrect == Spec => []TypeOK
BY TypeHolds, PTL DEF Spec

-----------------------------------------------------------------------------
(* The table *)

(* The contract between validate_schema and the interpreter: no row of a   *)
(* validated schema fails because of how the schema is written.            *)
THEOREM ValidationIsSufficient == Spec => []NoStructuralErrors
<1>1. Init => NoStructuralErrors
  BY DEF Init, NoStructuralErrors
<1>2. TypeOK /\ NoStructuralErrors /\ [Next]_vars => NoStructuralErrors'
  <2> SUFFICES ASSUME TypeOK, NoStructuralErrors, [Next]_vars
               PROVE  NoStructuralErrors'
    OBVIOUS
  <2> SUFFICES ASSUME validate_schema(schema)
                 PROVE  \A r \in 1 .. Len(rows') : rows'[r].error \notin StructuralErrors
    <3>1. validate_schema(schema)' <=> validate_schema(schema)
      <4>1. schema' = schema
        BY StepEffect
      <4> QED BY <4>1 DEF validate_schema, validate_structures,
                          validate_struct_instance
    <3> QED BY <3>1 DEF NoStructuralErrors
  <2>1. Effect /\ rows \in Seq(Row) /\ Context(context)
    BY StepEffect DEF TypeOK, Context
  <2>2. CASE Untouched
    BY <2>2 DEF Untouched, NoStructuralErrors
  <2>3. CASE OneRow
    <3>1. PICK row \in Row : row.error \notin StructuralErrors /\ PushRow(row)
      BY <2>3 DEF OneRow, NoFault
    <3>2. /\ Len(rows') = Len(rows) + 1 /\ rows'[Len(rows) + 1] = row
          /\ \A r \in 1 .. Len(rows) : rows'[r] = rows[r]
      BY <2>1, <3>1, PushRowOK
    <3> QED BY <2>1, <3>1, <3>2 DEF NoStructuralErrors
  <2>4. CASE FailedInstance
    <3>1. PICK structure \in StructureDef, name \in Name, e \in PlacementErrors :
             e \notin StructuralErrors /\ PushInstanceError(structure, name, e)
      BY <2>4 DEF FailedInstance, NoFault
    <3>2. /\ Len(rows') >= Len(rows) /\ rows' \in Seq(Row)
          /\ \A r \in 1 .. Len(rows) : rows'[r] = rows[r]
          /\ \A r \in (Len(rows) + 1) .. Len(rows') : rows'[r].error = e
      BY <2>1, <3>1, PushInstanceErrorOK
    <3> QED BY <2>1, <3>1, <3>2 DEF NoStructuralErrors
  <2> QED BY <2>1, <2>2, <2>3, <2>4 DEF Effect
<1> QED BY <1>1, <1>2, TypeCorrect, PTL DEF Spec

-----------------------------------------------------------------------------
(* The context *)

(* Rows that decode nothing, or nothing for this name, leave the latest    *)
(* row of a name the latest.                                               *)
LEMMA LatestSurvives ==
    ASSUME NEW r \in 1 .. Len(rows), rows \in Seq(Row), rows' \in Seq(Row),
           Len(rows') >= Len(rows), IsLatest(r, Len(rows) + 1),
           \A q \in 1 .. Len(rows) : rows'[q] = rows[q],
           \A q \in (Len(rows) + 1) .. Len(rows') :
              rows'[q].value # None => rows'[q].display_name # rows[r].display_name
    PROVE  /\ r \in 1 .. Len(rows') /\ rows'[r] = rows[r]
           /\ rows'[r].value # None
           /\ \A q \in (r + 1) .. Len(rows') :
                 rows'[q].value # None => rows'[q].display_name # rows'[r].display_name
<1>1. /\ rows[r].value # None
      /\ \A q \in (r + 1) .. Len(rows) :
            rows[q].value # None => rows[q].display_name # rows[r].display_name
  BY DEF IsLatest, Succeeded
<1>2. Len(rows) \in Nat /\ Len(rows') \in Nat
  OBVIOUS
<1>3. r \in 1 .. Len(rows') /\ rows'[r] = rows[r]
  BY <1>2
<1>4. ASSUME NEW q \in (r + 1) .. Len(rows'), rows'[q].value # None
      PROVE  rows'[q].display_name # rows[r].display_name
  <2>1. CASE q \in (Len(rows) + 1) .. Len(rows')
    BY <2>1, <1>4
  <2>2. CASE q \in (r + 1) .. Len(rows)
    <3>1. q \in 1 .. Len(rows)
      BY <2>2, <1>2
    <3>2. rows'[q] = rows[q]
      BY <3>1
    <3> QED BY <3>2, <2>2, <1>1, <1>4
  <2> QED BY <2>1, <2>2, <1>2
<1> QED BY <1>1, <1>3, <1>4

(* The context with which every offset, length and condition is evaluated  *)
(* is the latest decoded value of each name, read off the rows so far.     *)
THEOREM ContextIsTheRows == Spec => []ContextIsLastSuccess
<1>1. Init => ContextIsLastSuccess
  BY DEF Init, ContextIsLastSuccess
<1>2. TypeOK /\ ContextIsLastSuccess /\ [Next]_vars => ContextIsLastSuccess'
  <2> SUFFICES ASSUME TypeOK, ContextIsLastSuccess, [Next]_vars
               PROVE  ContextIsLastSuccess'
    OBVIOUS
  <2> DEFINE Known ==
        \A n \in DOMAIN context' :
           \E r \in 1 .. Len(rows') :
              /\ rows'[r].display_name = n
              /\ rows'[r].value # None
              /\ \A q \in (r + 1) .. Len(rows') :
                    rows'[q].value # None => rows'[q].display_name # rows'[r].display_name
              /\ context'[n] = rows'[r].value
             Recorded ==
        \A r \in 1 .. Len(rows') :
           rows'[r].value # None => rows'[r].display_name \in DOMAIN context'
  <2>1. /\ Effect /\ rows \in Seq(Row) /\ Context(context)
        /\ rows' \in Seq(Row)
    BY StepEffect, EffectTypes DEF TypeOK, Context
  <2>2. SUFFICES Known /\ Recorded
    <3>1. Len(rows') \in Nat /\ (Len(rows') + 1) - 1 = Len(rows')
      BY <2>1
    <3> QED BY <3>1 DEF ContextIsLastSuccess, IsLatest, Succeeded
  <2>3. \A n \in DOMAIN context :
           \E r \in 1 .. Len(rows) :
              /\ rows[r].display_name = n
              /\ IsLatest(r, Len(rows) + 1)
              /\ context[n] = rows[r].value
    BY DEF ContextIsLastSuccess
  <2>4. \A r \in 1 .. Len(rows) :
           rows[r].value # None => rows[r].display_name \in DOMAIN context
    BY DEF ContextIsLastSuccess, Succeeded
  <2>5. ASSUME NEW n \in DOMAIN context, context'[n] = context[n],
               Len(rows') >= Len(rows),
               \A q \in 1 .. Len(rows) : rows'[q] = rows[q],
               \A q \in (Len(rows) + 1) .. Len(rows') :
                  rows'[q].value # None => rows'[q].display_name # n
        PROVE  \E r \in 1 .. Len(rows') :
                  /\ rows'[r].display_name = n
                  /\ rows'[r].value # None
                  /\ \A q \in (r + 1) .. Len(rows') :
                        rows'[q].value # None
                           => rows'[q].display_name # rows'[r].display_name
                  /\ context'[n] = rows'[r].value
    <3>1. PICK r \in 1 .. Len(rows) :
             /\ rows[r].display_name = n
             /\ IsLatest(r, Len(rows) + 1)
             /\ context[n] = rows[r].value
      BY <2>3
    <3>2. /\ r \in 1 .. Len(rows') /\ rows'[r] = rows[r]
          /\ rows'[r].value # None
          /\ \A q \in (r + 1) .. Len(rows') :
                rows'[q].value # None => rows'[q].display_name # rows'[r].display_name
      BY <2>1, <2>5, <3>1, LatestSurvives
    <3> QED BY <2>5, <3>1, <3>2
  <2>6. CASE Untouched
    <3>1. context' = context /\ rows' = rows
      BY <2>6 DEF Untouched
    <3>2. Known
      BY <2>1, <2>5, <3>1
    <3> QED BY <2>4, <3>1, <3>2
  <2>7. CASE FailedInstance
    <3>1. /\ context' = context /\ Len(rows') >= Len(rows)
          /\ \A r \in 1 .. Len(rows) : rows'[r] = rows[r]
          /\ \A r \in (Len(rows) + 1) .. Len(rows') : rows'[r].value = None
      BY <2>1, <2>7, PushInstanceErrorOK DEF FailedInstance, PushInstanceError
    <3>2. Known
      BY <2>5, <3>1
    <3> QED BY <2>1, <2>4, <3>1, <3>2
  <2>8. CASE OneRow
    <3>1. PICK row \in Row : PushRow(row)
      BY <2>8 DEF OneRow
    <3>2. /\ Len(rows') = Len(rows) + 1 /\ rows'[Len(rows) + 1] = row
          /\ \A r \in 1 .. Len(rows) : rows'[r] = rows[r]
      BY <2>1, <3>1, PushRowOK
    <3>3. Len(rows) \in Nat
      BY <2>1
    <3>4. CASE row.value = None
      <4>1. context' = context
        BY <3>1, <3>4 DEF PushRow
      <4>2. Known
        BY <2>5, <3>2, <3>3, <3>4, <4>1
      <4> QED BY <2>4, <3>2, <3>3, <3>4, <4>1, <4>2
    <3>5. CASE row.value # None
      <4>1. /\ DOMAIN context' = DOMAIN context \cup {row.display_name}
            /\ context'[row.display_name] = row.value
            /\ \A n \in DOMAIN context : n # row.display_name => context'[n] = context[n]
        BY <3>1, <3>5 DEF PushRow, record_context_value
      <4>2. ASSUME NEW n \in DOMAIN context', n # row.display_name
            PROVE  \E r \in 1 .. Len(rows') :
                      /\ rows'[r].display_name = n
                      /\ rows'[r].value # None
                      /\ \A q \in (r + 1) .. Len(rows') :
                            rows'[q].value # None
                               => rows'[q].display_name # rows'[r].display_name
                      /\ context'[n] = rows'[r].value
        <5>1. n \in DOMAIN context /\ context'[n] = context[n]
          BY <4>1, <4>2
        <5>2. \A q \in (Len(rows) + 1) .. Len(rows') : rows'[q].display_name # n
          BY <3>2, <3>3, <4>2
        <5> QED BY <2>5, <3>2, <3>3, <5>1, <5>2
      <4>3. /\ Len(rows) + 1 \in 1 .. Len(rows')
            /\ (Len(rows) + 1 + 1) .. Len(rows') = {}
        BY <3>2, <3>3
      <4>4. Known
        BY <3>2, <3>5, <4>1, <4>2, <4>3
      <4>5. Recorded
        BY <2>4, <3>2, <3>3, <4>1
      <4> QED BY <4>4, <4>5
    <3> QED BY <3>4, <3>5
  <2> QED BY <2>1, <2>6, <2>7, <2>8 DEF Effect
<1> QED BY <1>1, <1>2, TypeCorrect, PTL DEF Spec

-----------------------------------------------------------------------------
(* References, at the moment they are resolved *)

Denotes(name, c, n) == name \in DOMAIN c /\ Numeric(c[name]) /\ c[name].n = n

LEMMA LookupDenotes ==
    ASSUME NEW c, NEW name, NEW missing, NEW invalid,
           Lookup(name, c, missing, invalid).ok
    PROVE  Denotes(name, c, Lookup(name, c, missing, invalid).val)
BY DEF Lookup, Ok, Err, Denotes

LEMMA LengthDenotes ==
    ASSUME NEW c, NEW f, f.ty \in SizedType, f.length # None,
           f.length.kind = "FieldRef", resolve_field_byte_len(f, c).ok
    PROVE  Denotes(f.length.field, c, resolve_field_byte_len(f, c).val)
<1> DEFINE name == f.length.field
           r == Lookup(name, c, "MissingLengthReference", "InvalidLengthReferenceType")
<1>1. resolve_field_byte_len(f, c) = resolve_dynamic_length(name, c)
  BY DEF resolve_field_byte_len
<1>2. r.ok /\ resolve_dynamic_length(name, c) = r
  BY <1>1 DEF resolve_dynamic_length, Err
<1>3. Denotes(name, c, r.val)
  BY <1>2, LookupDenotes
<1> HIDE DEF r
<1> QED BY <1>1, <1>2, <1>3

LEMMA OffsetDenotes ==
    ASSUME NEW c, NEW offset, offset.kind = "FieldRef", resolve_offset_kind(offset, c).ok
    PROVE  Denotes(offset.field, c, resolve_offset_kind(offset, c).val)
<1> DEFINE name == offset.field
           r == Lookup(name, c, "MissingOffsetReference", "InvalidOffsetReferenceType")
<1>1. resolve_offset_kind(offset, c) = resolve_dynamic_offset(name, c)
  BY DEF resolve_offset_kind
<1>2. r.ok /\ resolve_dynamic_offset(name, c) = r
  BY <1>1 DEF resolve_dynamic_offset, Err
<1>3. Denotes(name, c, r.val)
  BY <1>2, LookupDenotes
<1> HIDE DEF r
<1> QED BY <1>1, <1>2, <1>3

(* The two references a row may have made.                                 *)
ByLength(row) ==
    /\ row.value # None /\ row.field.ty \in SizedType /\ row.field.length # None
    /\ row.field.length.kind = "FieldRef"

ByOffset(row) ==
    row.offset_valid /\ row.field.offset.kind = "FieldRef" /\ row.field.repeat = None

Referred(row, c) ==
    /\ ByLength(row) => Denotes(row.field.length.field, c, row.byte_len)
    /\ ByOffset(row) => Denotes(row.field.offset.field, c, row.resolved_offset)

LEMMA UnplacedReferred ==
    ASSUME NEW row, NEW c, row.value = None, ~row.offset_valid
    PROVE  Referred(row, c)
BY DEF Referred, ByLength, ByOffset

(* What a row that has a place says of its field.                          *)
LEMMA ScalarRowParts ==
    ASSUME NEW f, NEW name, NEW offset, NEW c
    PROVE  LET row == interpret_scalar_at(f, name, offset, c)
               len == resolve_field_byte_len(f, c)
               v == interpret_field_at(f, offset, len.val)
           IN /\ row.field = f /\ row.display_name = name
              /\ row.resolved_offset = offset
              /\ row.value # None => len.ok /\ row.byte_len = len.val
              /\ ~len.ok => row.error = len.err
              /\ len.ok /\ ~v.ok => row.error = v.err
              /\ len.ok /\ v.ok => row.value = v.val
BY Zenon DEF interpret_scalar_at, ErrorRow

LEMMA RowAtReferred ==
    ASSUME NEW f, NEW name, NEW offset, NEW c,
           offset.ok /\ f.offset.kind = "FieldRef" /\ f.repeat = None =>
              Denotes(f.offset.field, c, offset.val)
    PROVE  Referred(RowAt(f, name, offset, c), c)
<1> DEFINE row == RowAt(f, name, offset, c)
<1>1. CASE ~offset.ok
  <2>1. row.value = None /\ ~row.offset_valid
    BY <1>1 DEF RowAt, UnplacedRow, ErrorRow
  <2> QED BY <2>1, UnplacedReferred
<1>2. CASE offset.ok
  <2> DEFINE len == resolve_field_byte_len(f, c)
  <2>1. row = interpret_scalar_at(f, name, offset.val, c)
    BY <1>2 DEF RowAt
  <2>2. /\ row.field = f /\ row.resolved_offset = offset.val
        /\ row.value # None => len.ok /\ row.byte_len = len.val
    BY <2>1, ScalarRowParts
  <2> HIDE DEF row
  <2>3. ByLength(row) => Denotes(row.field.length.field, c, row.byte_len)
    BY <2>2, LengthDenotes DEF ByLength
  <2>4. ByOffset(row) => Denotes(row.field.offset.field, c, row.resolved_offset)
    BY <1>2, <2>2 DEF ByOffset
  <2> QED BY <2>3, <2>4 DEF Referred, row
<1> QED BY <1>1, <1>2

-----------------------------------------------------------------------------
(* The rows of a step *)

Grown ==
    /\ rows' \in Seq(Row) /\ Len(rows') >= Len(rows)
    /\ \A r \in 1 .. Len(rows) : rows'[r] = rows[r]

LEMMA RowsGrow == ASSUME TypeOK, [Next]_vars PROVE Grown
<1>1. Effect /\ rows \in Seq(Row) /\ Context(context)
  BY StepEffect DEF TypeOK, Context
<1>2. CASE Untouched
  BY <1>1, <1>2 DEF Untouched, Grown
<1>3. CASE OneRow
  BY <1>1, <1>3, PushRowOK DEF OneRow, Grown
<1>4. CASE FailedInstance
  BY <1>1, <1>4, PushInstanceErrorOK DEF FailedInstance, Grown
<1> QED BY <1>1, <1>2, <1>3, <1>4 DEF Effect

(* A new row is the only one, if it has a place or a value.                *)
NewRow(row) ==
    /\ row \in Row /\ PushRow(row)
    /\ rows' = Append(rows, row)
    /\ Len(rows') = Len(rows) + 1 /\ rows'[Len(rows) + 1] = row

LEMMA PushedRow ==
    ASSUME TypeOK, [Next]_vars, RepeatField \/ RepeatChild,
           NEW row, PushRow(row)
    PROVE  NewRow(row)
<1>1. rows \in Seq(Row) /\ Len(rows) \in Nat
  BY DEF TypeOK
<1>2. rows' = Append(rows, row)
  BY DEF PushRow
<1>3. rows' \in Seq(Row)
  BY RowsGrow DEF Grown
<1>4. Len(rows') = Len(rows) + 1 /\ rows'[Len(rows) + 1] = row
  BY <1>1, <1>2
<1>5. row \in Row
  BY <1>1, <1>3, <1>4
<1> QED BY <1>2, <1>4, <1>5 DEF NewRow

LEMMA FieldReferred ==
    ASSUME TypeOK, [Next]_vars, RepeatField
    PROVE  \E row : NewRow(row) /\ Referred(row, context)
<1> DEFINE offset == resolve_repeated_offset(This, index, context)
           row == RowAt(This, RepeatName(This, This.name, index), offset, context)
<1>1. ASSUME offset.ok, This.offset.kind = "FieldRef", This.repeat = None
      PROVE  Denotes(This.offset.field, context, offset.val)
  <2>1. index = 0
    BY <1>1 DEF RepeatField, RepeatCount, TypeOK
  <2>2. offset = resolve_offset_kind(This.offset, context)
    BY <2>1 DEF resolve_repeated_offset, AdvanceByLength
  <2> HIDE DEF offset
  <2> QED BY <1>1, <2>2, OffsetDenotes
<1>2. PushRow(row)
  BY DEF RepeatField
<1> HIDE DEF offset
<1>3. Referred(row, context)
  BY <1>1, RowAtReferred
<1> HIDE DEF row
<1> QED BY <1>2, <1>3, PushedRow

LEMMA ChildReferred ==
    ASSUME TypeOK, [Next]_vars, RepeatChild
    PROVE  \E row : NewRow(row) /\ Referred(row, context)
<1> DEFINE offset == resolve_struct_child_offset(base, ThisChild, childIndex)
           row == RowAt(ThisChild, RepeatName(ThisChild, ChildName, childIndex),
                        offset, context)
<1>1. ASSUME ThisChild.offset.kind = "FieldRef" PROVE ~offset.ok
  BY <1>1 DEF resolve_struct_child_offset, AdvanceByLength, Err
<1>2. PushRow(row)
  BY DEF RepeatChild
<1> HIDE DEF offset
<1>3. Referred(row, context)
  BY <1>1, RowAtReferred
<1> HIDE DEF row
<1> QED BY <1>2, <1>3, PushedRow

(* Every other step adds rows that have neither a place nor a value.       *)
Unread == \A r \in (Len(rows) + 1) .. Len(rows') :
             rows'[r].value = None /\ ~rows'[r].offset_valid

LEMMA OneUnread ==
    ASSUME TypeOK, NEW f \in FieldDef, NEW name \in Name, NEW e \in PlacementErrors,
           PushRow(UnplacedRow(f, name, e))
    PROVE  Unread
<1> DEFINE row == UnplacedRow(f, name, e)
<1>1. row \in Row /\ row.value = None /\ ~row.offset_valid
  BY UnplacedRowOK
<1> HIDE DEF row
<1>2. rows \in Seq(Row) /\ Len(rows) \in Nat /\ Context(context) /\ PushRow(row)
  BY DEF TypeOK, Context, row
<1>3. Len(rows') = Len(rows) + 1 /\ rows'[Len(rows) + 1] = row
  BY <1>1, <1>2, PushRowOK
<1> QED BY <1>1, <1>2, <1>3 DEF Unread

LEMMA OtherSteps ==
    ASSUME TypeOK, [Next]_vars, ~RepeatField, ~RepeatChild
    PROVE  Unread
<1> USE DEF TypeOK, Context
<1>1. rows \in Seq(Row) /\ Len(rows) \in Nat
  OBVIOUS
<1>2. CASE RejectField
  <2>1. This \in FieldDef /\ Context(context)
    BY <1>2, ThisField DEF RejectField, AtItem
  <2>2. Yields(Gate(This, context), BOOLEAN, ResolutionErrors)
    BY <2>1, FieldParts, GateYields
  <2> DEFINE e == Gate(This, context).err
  <2>3. e \in PlacementErrors
    BY <1>2, <2>2, ErrorKinds DEF RejectField, Yields
  <2>4. PushRow(UnplacedRow(This, This.name, e))
    BY <1>2 DEF RejectField
  <2> HIDE DEF e
  <2> QED BY <2>1, <2>3, <2>4, FieldParts, OneUnread
<1>3. CASE RejectChild
  <2>1. ThisChild \in FieldDef /\ Context(context) /\ ChildName \in Name
    BY <1>3, ChildOfStructure, ChildNameOK DEF RejectChild, AtChild
  <2>2. Yields(Gate(ThisChild, context), BOOLEAN, ResolutionErrors)
    BY <2>1, FieldParts, GateYields
  <2> DEFINE e == Gate(ThisChild, context).err
  <2>3. e \in PlacementErrors
    BY <1>3, <2>2, ErrorKinds DEF RejectChild, Yields
  <2>4. PushRow(UnplacedRow(ThisChild, ChildName, e))
    BY <1>3 DEF RejectChild
  <2> HIDE DEF e
  <2> QED BY <2>1, <2>3, <2>4, OneUnread
<1>4. CASE RejectInstance \/ RejectUnstrided \/ RejectPlacement
  <2>1. FailedInstance
    BY <1>4, RejectInstanceEffect, RejectUnstridedEffect, RejectPlacementEffect
  <2> QED BY <1>1, <2>1, PushInstanceErrorOK DEF FailedInstance, Unread
<1>5. CASE UNCHANGED rows
  BY <1>1, <1>5 DEF Unread
<1> QED BY <1>2, <1>3, <1>4, <1>5 DEF Next, vars, EnterField, SkipField, EndField,
         SkipUnknownStructure, SkipInstance, EnterInstance, PlaceInstance, EndInstances,
         EnterChild, SkipChild, EndChild, EndInstance, Return, Done, EnterRepeats

-----------------------------------------------------------------------------
(* References, as the table shows them *)

LatestIn(R, r, end) ==
    /\ R[r].value # None
    /\ \A q \in (r + 1) .. (end - 1) :
          R[q].value # None => R[q].display_name # R[r].display_name

RefersIn(R, name, k, n) ==
    \E r \in 1 .. (k - 1) :
       /\ R[r].display_name = name
       /\ LatestIn(R, r, k)
       /\ Numeric(R[r].value) /\ R[r].value.n = n

RowLooksBack(R, k) ==
    /\ ByLength(R[k]) => RefersIn(R, R[k].field.length.field, k, R[k].byte_len)
    /\ ByOffset(R[k]) => RefersIn(R, R[k].field.offset.field, k, R[k].resolved_offset)

LooksBack(R) == \A k \in 1 .. Len(R) : RowLooksBack(R, k)

(* What a row refers to does not depend on the rows after it.              *)
LEMMA RefersInPrefix ==
    ASSUME NEW R \in Seq(Row), NEW T \in Seq(Row), Len(T) >= Len(R),
           \A r \in 1 .. Len(R) : T[r] = R[r],
           NEW k \in 1 .. (Len(R) + 1), NEW name, NEW n, RefersIn(R, name, k, n)
    PROVE  RefersIn(T, name, k, n)
<1>1. Len(R) \in Nat
  OBVIOUS
<1>2. PICK r \in 1 .. (k - 1) :
         /\ R[r].display_name = name
         /\ LatestIn(R, r, k)
         /\ Numeric(R[r].value) /\ R[r].value.n = n
  BY DEF RefersIn
<1>3. T[r] = R[r]
  BY <1>1, <1>2
<1>4. \A q \in (r + 1) .. (k - 1) : T[q] = R[q]
  BY <1>1, <1>2
<1>5. LatestIn(T, r, k)
  BY <1>2, <1>3, <1>4 DEF LatestIn
<1> QED BY <1>2, <1>3, <1>5 DEF RefersIn

LEMMA DenotedRow ==
    ASSUME rows \in Seq(Row), ContextIsLastSuccess, NEW name, NEW n,
           Denotes(name, context, n)
    PROVE  RefersIn(rows, name, Len(rows) + 1, n)
<1>1. name \in DOMAIN context /\ Numeric(context[name]) /\ context[name].n = n
  BY DEF Denotes
<1>2. PICK r \in 1 .. Len(rows) :
         /\ rows[r].display_name = name
         /\ IsLatest(r, Len(rows) + 1)
         /\ context[name] = rows[r].value
  BY <1>1 DEF ContextIsLastSuccess
<1>3. LatestIn(rows, r, Len(rows) + 1)
  BY <1>2 DEF IsLatest, Succeeded, LatestIn
<1>4. r \in 1 .. (Len(rows) + 1 - 1)
  BY <1>2
<1> QED BY <1>1, <1>2, <1>3, <1>4 DEF RefersIn

LEMMA LookBackStep ==
    ASSUME TypeOK, ContextIsLastSuccess, LooksBack(rows), [Next]_vars
    PROVE  LooksBack(rows')
<1>1. /\ rows \in Seq(Row) /\ Len(rows) \in Nat
      /\ rows' \in Seq(Row) /\ Len(rows') >= Len(rows)
      /\ \A r \in 1 .. Len(rows) : rows'[r] = rows[r]
  BY RowsGrow DEF TypeOK, Grown
<1>2. ASSUME NEW k \in 1 .. Len(rows) PROVE RowLooksBack(rows', k)
  <2>1. RowLooksBack(rows, k) /\ rows'[k] = rows[k] /\ k \in 1 .. (Len(rows) + 1)
    BY <1>1 DEF LooksBack
  <2> QED BY <1>1, <2>1, RefersInPrefix DEF RowLooksBack
<1>3. CASE RepeatField \/ RepeatChild
  <2>1. PICK row : NewRow(row) /\ Referred(row, context)
    BY <1>3, FieldReferred, ChildReferred
  <2> DEFINE last == Len(rows) + 1
  <2>2. Len(rows') = last /\ rows'[last] = row /\ last \in 1 .. last
    BY <1>1, <2>1 DEF NewRow
  <2>3. \A name, n : Denotes(name, context, n) => RefersIn(rows', name, last, n)
    BY <1>1, <2>2, DenotedRow, RefersInPrefix
  <2>4. RowLooksBack(rows', last)
    BY <2>1, <2>2, <2>3 DEF Referred, RowLooksBack
  <2>5. \A k \in 1 .. last : k \in 1 .. Len(rows) \/ k = last
    BY <1>1
  <2> QED BY <1>2, <2>2, <2>4, <2>5 DEF LooksBack
<1>4. CASE ~RepeatField /\ ~RepeatChild
  <2>1. Unread
    BY <1>4, OtherSteps
  <2>2. ASSUME NEW k \in (Len(rows) + 1) .. Len(rows') PROVE RowLooksBack(rows', k)
    BY <2>1, <2>2 DEF Unread, RowLooksBack, ByLength, ByOffset
  <2>3. \A k \in 1 .. Len(rows') :
           k \in 1 .. Len(rows) \/ k \in (Len(rows) + 1) .. Len(rows')
    BY <1>1
  <2> QED BY <1>2, <2>2, <2>3 DEF LooksBack
<1> QED BY <1>3, <1>4

(* Whatever rows fail, are skipped or carry the same name, a dynamic       *)
(* length or offset is the number of the latest row before it that decoded *)
(* the name it refers to.                                                  *)
THEOREM ReferencesAreBackward == Spec => []ReferencesLookBack
<1>1. Init => LooksBack(rows)
  BY DEF Init, LooksBack
<1>2. TypeOK /\ ContextIsLastSuccess /\ LooksBack(rows) /\ [Next]_vars => LooksBack(rows)'
  BY LookBackStep DEF LooksBack, RowLooksBack, RefersIn, LatestIn
<1>3. LooksBack(rows) => ReferencesLookBack
  BY DEF LooksBack, RowLooksBack, RefersIn, LatestIn, ReferencesLookBack, Refers,
         IsLatest, Succeeded, ByLength, ByOffset
<1> QED BY <1>1, <1>2, <1>3, TypeCorrect, ContextIsTheRows, PTL DEF Spec

-----------------------------------------------------------------------------
(* Places *)

LEMMA AdvanceIsExact ==
    ASSUME NEW start \in Int, NEW k, NEW stride, Advance(start, k, stride).ok
    PROVE  Advance(start, k, stride).val = start + Strides(k, stride)
<1>1. CASE k = 0
  BY <1>1 DEF Advance, Strides, Ok
<1>2. CASE k # 0
  BY <1>2 DEF Advance, Strides, Ok, Err
<1> QED BY <1>1, <1>2

LEMMA ByLengthIsExact ==
    ASSUME NEW start, NEW k, NEW f, start.ok => start.val \in Int,
           AdvanceByLength(start, k, f).ok
    PROVE  /\ start.ok
           /\ AdvanceByLength(start, k, f).val
                = start.val + Strides(k, fixed_field_byte_len(f).val)
<1> DEFINE stride == fixed_field_byte_len(f)
<1>1. CASE ~start.ok \/ k = 0
  <2>1. AdvanceByLength(start, k, f) = start
    BY <1>1 DEF AdvanceByLength
  <2>2. k = 0 => Strides(k, stride.val) = 0
    BY DEF Strides
  <2> HIDE DEF stride
  <2> QED BY <1>1, <2>1, <2>2 DEF stride
<1>2. CASE start.ok /\ k # 0 /\ ~stride.ok
  BY <1>2 DEF AdvanceByLength
<1>3. CASE start.ok /\ k # 0 /\ stride.ok
  <2>1. AdvanceByLength(start, k, f) = Advance(start.val, k, stride.val)
    BY <1>3 DEF AdvanceByLength
  <2> HIDE DEF stride
  <2> QED BY <1>3, <2>1, AdvanceIsExact DEF stride
<1> QED BY <1>1, <1>2, <1>3

LEMMA FieldIsCounted ==
    ASSUME NEW f \in FieldDef, NEW k, NEW c, f.offset.kind = "Absolute",
           resolve_repeated_offset(f, k, c).ok
    PROVE  resolve_repeated_offset(f, k, c).val
             = f.offset.value + Strides(k, fixed_field_byte_len(f).val)
<1> DEFINE start == resolve_offset_kind(f.offset, c)
<1>1. f.offset.value \in Int
  BY FieldParts, Widths DEF OffsetKind
<1>2. start.val = f.offset.value
  BY DEF resolve_offset_kind, Ok
<1>3. resolve_repeated_offset(f, k, c) = AdvanceByLength(start, k, f)
  BY DEF resolve_repeated_offset
<1> HIDE DEF start
<1> QED BY <1>1, <1>2, <1>3, ByLengthIsExact

LEMMA ChildIsCounted ==
    ASSUME NEW parent \in U64, NEW f \in FieldDef, NEW k,
           resolve_struct_child_offset(parent, f, k).ok
    PROVE  resolve_struct_child_offset(parent, f, k).val
             = parent + f.offset.value + Strides(k, fixed_field_byte_len(f).val)
<1> DEFINE start == IF f.offset.kind # "Relative"
                    THEN Err("RelativeOffsetWithoutBase")
                    ELSE Advance(parent, 1, f.offset.value)
<1>1. parent \in Int /\ (f.offset.kind = "Relative" => f.offset.value \in Int)
  BY FieldParts, Widths DEF OffsetKind
<1>2. start.ok => f.offset.kind = "Relative" /\ start = Advance(parent, 1, f.offset.value)
  BY DEF Err
<1>3. resolve_struct_child_offset(parent, f, k) = AdvanceByLength(start, k, f)
  BY DEF resolve_struct_child_offset
<1> HIDE DEF start
<1>4. start.ok => start.val = parent + f.offset.value /\ start.val \in Int
  <2> SUFFICES ASSUME start.ok
               PROVE  start.val = parent + f.offset.value /\ start.val \in Int
    OBVIOUS
  <2>1. f.offset.value \in Int /\ start.val = parent + Strides(1, f.offset.value)
    BY <1>1, <1>2, AdvanceIsExact
  <2>2. Strides(1, f.offset.value) = f.offset.value
    BY <2>1 DEF Strides
  <2> QED BY <1>1, <2>1, <2>2
<1> QED BY <1>3, <1>4, ByLengthIsExact

LEMMA InstanceIsCounted ==
    ASSUME NEW i \in StructInstanceDef, NEW k, NEW c, i.offset.kind = "Absolute",
           resolve_struct_instance_offset(i, k, c).ok
    PROVE  resolve_struct_instance_offset(i, k, c).val
             = i.offset.value + Strides(k, i.repeat.stride)
<1>1. i.offset.value \in Int
  BY InstanceParts, Widths DEF OffsetKind
<1>2. resolve_offset_kind(i.offset, c) = Ok(i.offset.value)
  BY DEF resolve_offset_kind
<1>3. CASE k = 0
  BY <1>1, <1>2, <1>3 DEF resolve_struct_instance_offset, Strides, Ok
<1>4. CASE k # 0
  <2>1. resolve_struct_instance_offset(i, k, c)
          = Advance(i.offset.value, k, i.repeat.stride)
    BY <1>2, <1>4 DEF resolve_struct_instance_offset, Ok
  <2> QED BY <1>1, <2>1, AdvanceIsExact
<1> QED BY <1>3, <1>4

LEMMA RowAtPlace ==
    ASSUME NEW f, NEW name, NEW offset, NEW c, RowAt(f, name, offset, c).offset_valid
    PROVE  offset.ok /\ RowAt(f, name, offset, c).resolved_offset = offset.val
<1>1. offset.ok
  BY DEF RowAt, UnplacedRow, ErrorRow
<1>2. RowAt(f, name, offset, c) = interpret_scalar_at(f, name, offset.val, c)
  BY <1>1 DEF RowAt
<1> QED BY <1>1, <1>2, ScalarRowParts

LEMMA LoopStep ==
    ASSUME TypeOK, [Next]_vars, pc' = "field", index' # 0
    PROVE  RepeatField \/ UNCHANGED vars
BY DEF Next, vars, EnterField, SkipField, RejectField, EndField,
       SkipUnknownStructure, SkipInstance, RejectInstance, RejectUnstrided,
       EnterInstance, PlaceInstance, RejectPlacement, EndInstances,
       EnterChild, SkipChild, RejectChild, RepeatChild, EndChild, EndInstance,
       Return, Done, LeaveItem, EnterRepeats, AtItem, AtChild

LEMMA ChildLoopStep ==
    ASSUME TypeOK, [Next]_vars, pc' = "childRepeat", childIndex' # 0
    PROVE  RepeatChild \/ UNCHANGED vars
BY DEF Next, vars, EnterField, SkipField, RejectField, RepeatField, EndField,
       SkipUnknownStructure, SkipInstance, RejectInstance, RejectUnstrided,
       EnterInstance, PlaceInstance, RejectPlacement, EndInstances,
       EnterChild, SkipChild, RejectChild, EndChild, EndInstance,
       Return, Done, LeaveItem, EnterRepeats, AtItem, AtChild

LEMMA PlacesStep ==
    ASSUME TypeOK, PlacesAreCounted, [Next]_vars PROVE PlacesAreCounted'
<1>1. /\ schema' = schema /\ index \in Nat /\ childIndex \in Nat /\ base \in U64
      /\ \A k \in Nat : (k + 1) - 1 = k
  BY StepEffect DEF TypeOK
<1>2. UNCHANGED item => This' = This /\ Structure' = Structure
  BY <1>1 DEF This, Structure, find_structure
<1>3. ASSUME pc' \in {"child", "childRepeat"}, This'.offset.kind = "Absolute"
      PROVE  base' = This'.offset.value + Strides(index', This'.repeat.stride)
  <2>1. CASE PlaceInstance
    <3>1. /\ This' = This /\ index' = index /\ base' = InstanceOffset.val
          /\ InstanceOffset.ok /\ This \in StructInstanceDef
      BY <1>2, <2>1, InstancePlace DEF PlaceInstance
    <3> QED BY <1>3, <3>1, InstanceIsCounted DEF InstanceOffset
  <2>2. CASE ~PlaceInstance
    <3>1. pc \in {"child", "childRepeat"} /\ UNCHANGED <<item, index, base>>
      BY <1>3, <2>2 DEF Next, vars, EnterField, SkipField, RejectField, RepeatField,
             EndField, SkipUnknownStructure, SkipInstance, RejectInstance,
             RejectUnstrided, EnterInstance, RejectPlacement, EndInstances,
             EnterChild, SkipChild, RejectChild, RepeatChild, EndChild, EndInstance,
             Return, Done, LeaveItem, EnterRepeats, AtChild, AtItem
    <3> QED BY <1>2, <1>3, <3>1 DEF PlacesAreCounted
  <2> QED BY <2>1, <2>2
<1>4. ASSUME pc' = "field", index' # 0, LastRow'.offset_valid,
             This'.offset.kind = "Absolute"
      PROVE  LastRow'.resolved_offset =
                This'.offset.value
                  + Strides(index' - 1, fixed_field_byte_len(This').val)
  <2>1. CASE UNCHANGED vars
    BY <1>2, <1>4, <2>1 DEF PlacesAreCounted, vars, LastRow
  <2>2. CASE RepeatField
    <3> DEFINE offset == resolve_repeated_offset(This, index, context)
               row == RowAt(This, RepeatName(This, This.name, index), offset, context)
    <3>1. This' = This /\ index' - 1 = index /\ This \in FieldDef /\ PushRow(row)
      BY <1>1, <1>2, <2>2, ThisField DEF RepeatField, TypeOK
    <3>2. LastRow' = row
      BY <2>2, <3>1, PushedRow DEF NewRow, LastRow
    <3>3. offset.ok /\ row.resolved_offset = offset.val
      BY <1>4, <3>2, RowAtPlace
    <3> HIDE DEF row
    <3> QED BY <1>4, <3>1, <3>2, <3>3, FieldIsCounted
  <2> QED BY <1>4, <2>1, <2>2, LoopStep
<1>5. ASSUME pc' = "childRepeat", childIndex' # 0, LastRow'.offset_valid
      PROVE  LastRow'.resolved_offset =
                base' + ThisChild'.offset.value
                  + Strides(childIndex' - 1, fixed_field_byte_len(ThisChild').val)
  <2>1. CASE UNCHANGED vars
    <3>1. ThisChild' = ThisChild
      BY <1>2, <2>1 DEF vars, ThisChild
    <3> QED BY <1>5, <2>1, <3>1 DEF PlacesAreCounted, vars, LastRow
  <2>2. CASE RepeatChild
    <3> DEFINE offset == resolve_struct_child_offset(base, ThisChild, childIndex)
               row == RowAt(ThisChild, RepeatName(ThisChild, ChildName, childIndex),
                            offset, context)
    <3>1. /\ ThisChild' = ThisChild /\ base' = base /\ childIndex' - 1 = childIndex
          /\ ThisChild \in FieldDef /\ PushRow(row)
      BY <1>1, <1>2, <2>2, ChildOfStructure DEF RepeatChild, TypeOK, ThisChild
    <3>2. LastRow' = row
      BY <2>2, <3>1, PushedRow DEF NewRow, LastRow
    <3>3. offset.ok /\ row.resolved_offset = offset.val
      BY <1>5, <3>2, RowAtPlace
    <3> HIDE DEF row
    <3> QED BY <1>1, <3>1, <3>2, <3>3, ChildIsCounted
  <2> QED BY <1>5, <2>1, <2>2, ChildLoopStep
<1> QED BY <1>3, <1>4, <1>5 DEF PlacesAreCounted

(* Every row ever pushed shows a value or an error, and a value only from  *)
(* bytes inside the file; out of bounds is only what reaches past its end; *)
(* and what repeats from a stated offset lies where its index counts.      *)
THEOREM RowsAreWellFormed == Spec => []RowsWellFormed
<1>1. Init => RowsWellFormed
  BY DEF Init, RowsWellFormed, PlacesAreCounted
<1>2. TypeOK /\ RowsWellFormed /\ [Next]_vars => RowsWellFormed'
  <2> SUFFICES ASSUME TypeOK, RowsWellFormed, [Next]_vars
               PROVE  RowsWellFormed'
    OBVIOUS
  <2> SUFFICES \A r \in 1 .. Len(rows') : WellFormed(rows'[r])
    <3>1. file' = file
      BY StepEffect
    <3>2. PlacesAreCounted'
      BY PlacesStep DEF RowsWellFormed
    <3> QED BY <3>1, <3>2 DEF RowsWellFormed, WellFormed
  <2>1. Effect /\ rows \in Seq(Row) /\ Context(context)
    BY StepEffect DEF TypeOK, Context
  <2>2. CASE Untouched
    BY <2>2 DEF Untouched, RowsWellFormed
  <2>3. CASE OneRow
    <3>1. PICK row \in Row : WellFormed(row) /\ PushRow(row)
      BY <2>3 DEF OneRow
    <3>2. /\ Len(rows') = Len(rows) + 1 /\ rows'[Len(rows) + 1] = row
          /\ \A r \in 1 .. Len(rows) : rows'[r] = rows[r]
      BY <2>1, <3>1, PushRowOK
    <3> QED BY <2>1, <3>1, <3>2 DEF RowsWellFormed
  <2>4. CASE FailedInstance
    <3>1. /\ Len(rows') >= Len(rows) /\ rows' \in Seq(Row)
          /\ \A r \in 1 .. Len(rows) : rows'[r] = rows[r]
          /\ \A r \in (Len(rows) + 1) .. Len(rows') : WellFormed(rows'[r])
      BY <2>1, <2>4, PushInstanceErrorOK DEF FailedInstance
    <3> QED BY <2>1, <3>1 DEF RowsWellFormed
  <2> QED BY <2>1, <2>2, <2>3, <2>4 DEF Effect
<1> QED BY <1>1, <1>2, TypeCorrect, PTL DEF Spec

-----------------------------------------------------------------------------
(* Fields that refer to nothing *)

(* The row says of the field what it shows when it is read on its own.     *)
Tells(row, def, alone) ==
    /\ row.field = def /\ row.display_name = def.name
    /\ IF alone.ok THEN row.value = alone.val ELSE row.error = alone.err

Shown(def, R, alone) == \E r \in 1 .. Len(R) : Tells(R[r], def, alone)

LEMMA ShownStays ==
    ASSUME NEW R \in Seq(Row), NEW T \in Seq(Row), Len(T) >= Len(R),
           \A r \in 1 .. Len(R) : T[r] = R[r],
           NEW def, NEW alone, Shown(def, R, alone)
    PROVE  Shown(def, T, alone)
<1>1. PICK r \in 1 .. Len(R) : Tells(R[r], def, alone)
  BY DEF Shown
<1>2. r \in 1 .. Len(T) /\ T[r] = R[r]
  BY <1>1
<1> QED BY <1>1, <1>2 DEF Shown

LEMMA StaticRow ==
    ASSUME NEW f, Static(f), NEW c
    PROVE  Tells(RowAt(f, f.name, resolve_repeated_offset(f, 0, c), c),
                 f, interpret_field(f))
<1> DEFINE at == f.offset.value
           none == [n \in {} |-> None]
           len == resolve_field_byte_len(f, c)
           v == interpret_field_at(f, at, len.val)
           row == interpret_scalar_at(f, f.name, at, c)
<1>1. resolve_offset_kind(f.offset, none) = Ok(at) /\ resolve_offset_kind(f.offset, c) = Ok(at)
  BY DEF Static, resolve_offset_kind
<1>2. resolve_repeated_offset(f, 0, c) = Ok(at)
  BY <1>1 DEF resolve_repeated_offset, AdvanceByLength
<1>3. RowAt(f, f.name, resolve_repeated_offset(f, 0, c), c) = row
  BY <1>2 DEF RowAt, Ok
<1>4. resolve_field_byte_len(f, none) = len
  BY DEF Static, resolve_field_byte_len
<1>5. interpret_field(f) = IF ~len.ok THEN len ELSE v
  <2>1. Ok(at).ok /\ Ok(at).val = at
    BY DEF Ok
  <2> HIDE DEF at, none, len
  <2> QED BY <1>1, <1>4, <2>1, Zenon DEF interpret_field, none
<1>6. /\ row.field = f /\ row.display_name = f.name
      /\ ~len.ok => row.error = len.err
      /\ len.ok /\ ~v.ok => row.error = v.err
      /\ len.ok /\ v.ok => row.value = v.val
  BY ScalarRowParts
<1> HIDE DEF len, v, row
<1> QED BY <1>3, <1>5, <1>6 DEF Tells

(* Only the end of its loop leaves a static field behind.                  *)
LEMMA ItemStep ==
    ASSUME TypeOK, [Next]_vars, item' # item
    PROVE  /\ item' = item + 1
           /\ Static(This) => EndField
<1>1. item' = item + 1
  BY DEF Next, vars, EnterField, SkipField, RejectField, RepeatField, EndField,
         SkipUnknownStructure, SkipInstance, RejectInstance, RejectUnstrided,
         EnterInstance, PlaceInstance, RejectPlacement, EndInstances,
         EnterChild, SkipChild, RejectChild, RepeatChild, EndChild, EndInstance,
         Return, Done, LeaveItem, EnterRepeats
<1>2. \/ EndField \/ SkipField \/ RejectField
      \/ SkipUnknownStructure \/ SkipInstance \/ RejectInstance \/ RejectUnstrided
      \/ EndInstances
  BY DEF Next, vars, EnterField, RepeatField, EnterInstance, PlaceInstance,
         RejectPlacement, EnterChild, SkipChild, RejectChild, RepeatChild, EndChild,
         EndInstance, Return, Done, EnterRepeats
<1>3. ASSUME Static(This) PROVE ~SkipField /\ ~RejectField
  <2>1. Gate(This, context) = Ok(TRUE)
    BY <1>3 DEF Static, Gate
  <2> QED BY <2>1 DEF SkipField, RejectField, Ok
<1>4. SkipUnknownStructure \/ SkipInstance \/ RejectInstance \/ RejectUnstrided
      \/ EndInstances => This.tag = "instance"
  BY DEF SkipUnknownStructure, SkipInstance, RejectInstance, RejectUnstrided,
         EndInstances, AtItem, TypeOK
<1>5. Static(This) => This.tag # "instance"
  BY DEF Static
<1> QED BY <1>1, <1>2, <1>3, <1>4, <1>5

(* What the fields left behind, and the one whose loop has turned, show.   *)
FieldsShown ==
    /\ \A i \in 1 .. (item - 1) :
          Static(schema.fields[i]) =>
             Shown(schema.fields[i], rows, interpret_field(schema.fields[i]))
    /\ pc = "field" /\ index # 0 /\ Static(This) =>
          Shown(This, rows, interpret_field(This))

LEMMA FieldsShownStep ==
    ASSUME TypeOK, FieldsShown, [Next]_vars PROVE FieldsShown'
<1>1. file' = file /\ schema' = schema
  BY StepEffect
<1>2. /\ rows \in Seq(Row) /\ rows' \in Seq(Row) /\ Len(rows') >= Len(rows)
      /\ \A r \in 1 .. Len(rows) : rows'[r] = rows[r]
      /\ item \in 1 .. (Len(schema.fields) + 1) /\ Len(schema.fields) \in Nat
      /\ index \in Nat
  BY RowsGrow DEF TypeOK, Grown, Schema
<1> DEFINE Alone(f) == interpret_field(f)
<1>3. \A f : interpret_field(f)' = Alone(f)
  BY <1>1 DEF interpret_field, interpret_field_at, checked_range, Unsigned, FieldEndianness
<1> HIDE DEF Alone
<1>4. \A f : Shown(f, rows, Alone(f)) => Shown(f, rows', Alone(f))
  BY <1>2, ShownStays
<1>5. /\ \A i \in 1 .. (item - 1) :
            Static(schema.fields[i]) => Shown(schema.fields[i], rows, Alone(schema.fields[i]))
      /\ pc = "field" /\ index # 0 /\ Static(This) => Shown(This, rows, Alone(This))
  BY DEF FieldsShown, Alone
<1>6. ASSUME NEW i \in 1 .. (item' - 1), Static(schema.fields[i])
      PROVE  Shown(schema.fields[i], rows', Alone(schema.fields[i]))
  <2>1. CASE i \in 1 .. (item - 1)
    BY <1>4, <1>5, <1>6, <2>1
  <2>2. CASE i \notin 1 .. (item - 1)
    <3>1. item' = item + 1 /\ i = item /\ schema.fields[i] = This
      BY <1>2, <1>6, <2>2, ItemStep DEF This
    <3>2. EndField /\ Static(This)
      BY <1>6, <3>1, <1>2, ItemStep
    <3>3. pc = "field" /\ index # 0
      BY <3>2 DEF EndField, Static, RepeatCount
    <3> QED BY <1>4, <1>5, <3>1, <3>2, <3>3
  <2> QED BY <2>1, <2>2
<1>7. ASSUME pc' = "field", index' # 0, Static(This')
      PROVE  Shown(This', rows', Alone(This'))
  <2>1. RepeatField \/ UNCHANGED vars
    BY <1>7, LoopStep
  <2>2. This' = This
    BY <1>1, <2>1 DEF RepeatField, vars, This
  <2>3. CASE UNCHANGED vars
    BY <1>4, <1>5, <1>7, <2>2, <2>3 DEF vars
  <2>4. CASE RepeatField
    <3>1. index = 0 /\ This.repeat = None
      BY <1>2, <1>7, <2>2, <2>4 DEF RepeatField, Static, RepeatCount
    <3> DEFINE row == RowAt(This, This.name, resolve_repeated_offset(This, 0, context),
                            context)
    <3>2. PushRow(row)
      BY <2>4, <3>1 DEF RepeatField, RepeatName
    <3>3. Tells(row, This, Alone(This))
      BY <1>7, <2>2, StaticRow DEF Alone
    <3> HIDE DEF row
    <3>4. Len(rows') = Len(rows) + 1 /\ rows'[Len(rows) + 1] = row
      BY <2>4, <3>2, PushedRow DEF NewRow
    <3>5. Len(rows) + 1 \in 1 .. Len(rows')
      BY <1>2, <3>4
    <3> QED BY <2>2, <3>3, <3>4, <3>5 DEF Shown
  <2> QED BY <2>1, <2>3, <2>4
<1>8. This' = schema.fields[item']
  BY <1>1 DEF This
<1> QED BY <1>1, <1>3, <1>6, <1>7, <1>8 DEF FieldsShown, Shown, Tells, Static

LEMMA StaticFieldsStandAlone == Spec => []StaticFieldsIndependent
<1>1. Init => FieldsShown
  BY DEF Init, FieldsShown
<1>2. TypeOK /\ FieldsShown /\ [Next]_vars => FieldsShown'
  BY FieldsShownStep
<1>3. FieldsShown => StaticFieldsIndependent
  BY DEF FieldsShown, StaticFieldsIndependent, Shown, Tells
<1> QED BY <1>1, <1>2, <1>3, TypeCorrect, PTL DEF Spec

-----------------------------------------------------------------------------
(* Fields that leave no row *)

(* The definitions of the property, over any table.                        *)
Told(R, def, name) ==
    \E r \in 1 .. Len(R) :
       R[r].field = def /\ R[r].display_name \in {name, RepeatName(def, name, 0)}

ExcludedBy(R, def) ==
    \E r \in 1 .. Len(R) :
       /\ R[r].value # None /\ R[r].display_name = def.when.field
       /\ eval_when(def.when, [n \in {def.when.field} |-> R[r].value]) = Ok(FALSE)

AccountedIn(R, def, name) ==
    RepeatCount(def) = 0 \/ Told(R, def, name) \/ (def.when # None /\ ExcludedBy(R, def))

LEMMA AccountedIsIn ==
    \A def, name : Accounted(def, name) <=> AccountedIn(rows, def, name)
BY DEF Accounted, Excluded, Succeeded, AccountedIn, Told, ExcludedBy

LEMMA AccountedStays ==
    ASSUME NEW R \in Seq(Row), NEW T \in Seq(Row), Len(T) >= Len(R),
           \A r \in 1 .. Len(R) : T[r] = R[r], NEW def, NEW name
    PROVE  /\ Told(R, def, name) => Told(T, def, name)
           /\ AccountedIn(R, def, name) => AccountedIn(T, def, name)
<1>1. \A r \in 1 .. Len(R) : r \in 1 .. Len(T) /\ T[r] = R[r]
  OBVIOUS
<1>2. Told(R, def, name) => Told(T, def, name)
  BY <1>1 DEF Told
<1>3. ExcludedBy(R, def) => ExcludedBy(T, def)
  BY <1>1 DEF ExcludedBy
<1> QED BY <1>2, <1>3 DEF AccountedIn

(* A condition asks the context for one name only.                         *)
LEMMA WhenAsksOneName ==
    ASSUME NEW w, NEW c, NEW d, w.field \in DOMAIN c, w.field \in DOMAIN d,
           c[w.field] = d[w.field]
    PROVE  eval_when(w, c) = eval_when(w, d)
<1>1. resolve_condition_reference(w.field, c) = resolve_condition_reference(w.field, d)
  BY DEF resolve_condition_reference, Lookup
<1> QED BY <1>1 DEF eval_when

(* What a condition excludes, it excludes for a value in the table.        *)
LEMMA SkippedIsExcluded ==
    ASSUME ContextIsLastSuccess, NEW def, Gate(def, context) = Ok(FALSE)
    PROVE  def.when # None /\ ExcludedBy(rows, def)
<1>1. def.when # None /\ eval_when(def.when, context) = Ok(FALSE)
  BY DEF Gate, Ok
<1> DEFINE w == def.when
<1>2. w.field \in DOMAIN context
  <2>1. ~Err("MissingConditionReference").ok /\ Ok(FALSE).ok
    BY DEF Err, Ok
  <2>2. w.field \notin DOMAIN context =>
           resolve_condition_reference(w.field, context) = Err("MissingConditionReference")
    BY DEF resolve_condition_reference, Lookup
  <2>3. w.field \notin DOMAIN context =>
           eval_when(w, context) = Err("MissingConditionReference")
    BY <2>1, <2>2 DEF eval_when
  <2> QED BY <1>1, <2>1, <2>3
<1>3. PICK r \in 1 .. Len(rows) :
         /\ rows[r].display_name = w.field
         /\ rows[r].value # None
         /\ context[w.field] = rows[r].value
  BY <1>2 DEF ContextIsLastSuccess, IsLatest, Succeeded
<1> DEFINE d == [n \in {w.field} |-> rows[r].value]
<1>4. w.field \in DOMAIN d /\ context[w.field] = d[w.field]
  BY <1>3
<1> HIDE DEF d
<1>5. eval_when(w, d) = Ok(FALSE)
  BY <1>1, <1>2, <1>4, WhenAsksOneName
<1> QED BY <1>1, <1>3, <1>5 DEF ExcludedBy, d

LEMMA RowAtNames ==
    ASSUME NEW f, NEW name, NEW offset, NEW c
    PROVE  /\ RowAt(f, name, offset, c).field = f
           /\ RowAt(f, name, offset, c).display_name = name
<1>1. CASE offset.ok
  <2>1. RowAt(f, name, offset, c) = interpret_scalar_at(f, name, offset.val, c)
    BY <1>1 DEF RowAt
  <2> QED BY <2>1, ScalarRowParts
<1>2. CASE ~offset.ok
  BY <1>2 DEF RowAt, UnplacedRow, ErrorRow
<1> QED BY <1>1, <1>2

LEMMA PushedIsTold ==
    ASSUME rows \in Seq(Row), NEW row, PushRow(row), NEW def, NEW name, row.field = def,
           row.display_name \in {name, RepeatName(def, name, 0)}
    PROVE  Told(rows', def, name)
<1>1. rows' = Append(rows, row)
  BY DEF PushRow
<1>2. Len(rows) + 1 \in 1 .. Len(rows') /\ rows'[Len(rows) + 1] = row
  BY <1>1
<1> QED BY <1>2 DEF Told

(* Nothing is hidden, and a field whose loop has turned has its row.       *)
AllTold ==
    /\ \A i \in 1 .. (item - 1) :
          schema.fields[i].tag = "field" =>
             AccountedIn(rows, schema.fields[i], schema.fields[i].name)
    /\ pc = "field" /\ index # 0 => Told(rows, This, This.name)
    /\ pc \in {"child", "childRepeat"} =>
          \A c \in 1 .. (child - 1) :
             AccountedIn(rows, Structure.fields[c],
                         Member(InstanceName, Structure.fields[c].name))
    /\ pc = "childRepeat" /\ childIndex # 0 => Told(rows, ThisChild, ChildName)

LEMMA FieldLeft ==
    ASSUME TypeOK, ContextIsLastSuccess, AllTold, [Next]_vars,
           item' # item, This.tag = "field"
    PROVE  AccountedIn(rows', This, This.name)
<1>1. Grown /\ rows \in Seq(Row)
  BY RowsGrow DEF TypeOK
<1>2. EndField \/ SkipField \/ RejectField
  BY DEF Next, vars, EnterField, RepeatField, EnterInstance, PlaceInstance,
         RejectPlacement, EnterChild, SkipChild, RejectChild, RepeatChild, EndChild,
         EndInstance, Return, Done, EnterRepeats, SkipUnknownStructure, SkipInstance,
         RejectInstance, RejectUnstrided, EndInstances, AtItem, TypeOK
<1>3. CASE EndField
  <2>1. RepeatCount(This) = 0 \/ Told(rows, This, This.name)
    BY <1>3 DEF EndField, AllTold
  <2> QED BY <1>1, <2>1, AccountedStays DEF AccountedIn, Grown
<1>4. CASE SkipField
  <2>1. This.when # None /\ ExcludedBy(rows, This)
    BY <1>4, SkippedIsExcluded DEF SkipField
  <2> QED BY <1>1, <2>1, AccountedStays DEF AccountedIn, Grown
<1>5. CASE RejectField
  <2> DEFINE row == UnplacedRow(This, This.name, Gate(This, context).err)
  <2>1. row.field = This /\ row.display_name = This.name
    BY DEF UnplacedRow, ErrorRow
  <2>2. PushRow(row)
    BY <1>5 DEF RejectField
  <2> HIDE DEF row
  <2> QED BY <1>1, <2>1, <2>2, PushedIsTold DEF AccountedIn
<1> QED BY <1>2, <1>3, <1>4, <1>5

LEMMA ChildLeft ==
    ASSUME TypeOK, ContextIsLastSuccess, AllTold, [Next]_vars,
           SkipChild \/ RejectChild \/ EndChild
    PROVE  AccountedIn(rows', ThisChild, ChildName)
<1>1. Grown /\ rows \in Seq(Row)
  BY RowsGrow DEF TypeOK
<1>2. CASE EndChild
  <2>1. RepeatCount(ThisChild) = 0 \/ Told(rows, ThisChild, ChildName)
    BY <1>2 DEF EndChild, AllTold
  <2> QED BY <1>1, <2>1, AccountedStays DEF AccountedIn, Grown
<1>3. CASE SkipChild
  <2>1. ThisChild.when # None /\ ExcludedBy(rows, ThisChild)
    BY <1>3, SkippedIsExcluded DEF SkipChild
  <2> QED BY <1>1, <2>1, AccountedStays DEF AccountedIn, Grown
<1>4. CASE RejectChild
  <2> DEFINE row == UnplacedRow(ThisChild, ChildName, Gate(ThisChild, context).err)
  <2>1. row.field = ThisChild /\ row.display_name = ChildName
    BY DEF UnplacedRow, ErrorRow
  <2>2. PushRow(row)
    BY <1>4 DEF RejectChild
  <2> HIDE DEF row
  <2> QED BY <1>1, <2>1, <2>2, PushedIsTold DEF AccountedIn
<1> QED BY <1>2, <1>3, <1>4

LEMMA AllToldStep ==
    ASSUME TypeOK, ContextIsLastSuccess, AllTold, [Next]_vars PROVE AllTold'
<1>1. /\ schema' = schema /\ Grown /\ rows \in Seq(Row)
      /\ item \in 1 .. (Len(schema.fields) + 1) /\ Len(schema.fields) \in Nat
      /\ child \in Nat
  BY StepEffect, RowsGrow DEF TypeOK, Schema
<1>2. \A def, name : /\ Told(rows, def, name) => Told(rows', def, name)
                     /\ AccountedIn(rows, def, name) => AccountedIn(rows', def, name)
  BY <1>1, AccountedStays DEF Grown
<1>3. /\ UNCHANGED item => This' = This /\ Structure' = Structure
      /\ UNCHANGED <<item, index>> => InstanceName' = InstanceName
      /\ UNCHANGED <<item, index, child>> =>
            ThisChild' = ThisChild /\ ChildName' = ChildName
  <2>1. UNCHANGED item => This' = This /\ Structure' = Structure
    BY <1>1 DEF This, Structure, find_structure
  <2>2. UNCHANGED <<item, index>> => InstanceName' = InstanceName
    BY <2>1 DEF InstanceName
  <2>3. UNCHANGED <<item, child>> => ThisChild' = ThisChild
    BY <2>1 DEF ThisChild
  <2>4. UNCHANGED <<item, index, child>> => ChildName' = ChildName
    BY <2>2, <2>3 DEF ChildName
  <2> QED BY <2>1, <2>2, <2>3, <2>4
<1>4. ASSUME NEW i \in 1 .. (item' - 1), schema.fields[i].tag = "field"
      PROVE  AccountedIn(rows', schema.fields[i], schema.fields[i].name)
  <2>1. CASE i \in 1 .. (item - 1)
    BY <1>2, <1>4, <2>1 DEF AllTold
  <2>2. CASE i \notin 1 .. (item - 1)
    <3>1. item' # item
      BY <2>2
    <3>2. i = item /\ schema.fields[i] = This
      BY <1>1, <2>2, <3>1, ItemStep DEF This
    <3> QED BY <1>4, <3>1, <3>2, FieldLeft
  <2> QED BY <2>1, <2>2
<1>5. ASSUME pc' = "field", index' # 0 PROVE Told(rows', This', This'.name)
  <2>1. CASE UNCHANGED vars
    BY <1>2, <1>3, <1>5, <2>1 DEF vars, AllTold
  <2>2. CASE RepeatField /\ index # 0
    BY <1>2, <1>3, <2>2 DEF RepeatField, AllTold
  <2>3. CASE RepeatField /\ index = 0
    <3> DEFINE row == RowAt(This, RepeatName(This, This.name, index),
                            resolve_repeated_offset(This, index, context), context)
    <3>1. This' = This /\ PushRow(row)
      BY <1>3, <2>3 DEF RepeatField
    <3>2. row.field = This /\ row.display_name = RepeatName(This, This.name, 0)
      BY <2>3, RowAtNames
    <3> HIDE DEF row
    <3> QED BY <1>1, <3>1, <3>2, PushedIsTold
  <2> QED BY <1>5, <2>1, <2>2, <2>3, LoopStep
<1>6. ASSUME pc' \in {"child", "childRepeat"}, NEW c \in 1 .. (child' - 1)
      PROVE  AccountedIn(rows', Structure'.fields[c],
                         Member(InstanceName', Structure'.fields[c].name))
  <2>1. CASE PlaceInstance
    BY <1>6, <2>1 DEF PlaceInstance
  <2>2. CASE ~PlaceInstance
    <3>1. /\ pc \in {"child", "childRepeat"} /\ UNCHANGED <<item, index>>
          /\ child' = child \/ (child' = child + 1 /\ (SkipChild \/ RejectChild \/ EndChild))
      BY <1>6, <2>2 DEF Next, vars, EnterField, SkipField, RejectField, RepeatField,
             EndField, SkipUnknownStructure, SkipInstance, RejectInstance,
             RejectUnstrided, EnterInstance, RejectPlacement, EndInstances,
             EnterChild, SkipChild, RejectChild, RepeatChild, EndChild, EndInstance,
             Return, Done, LeaveItem, EnterRepeats, AtChild, AtItem
    <3>2. Structure' = Structure /\ InstanceName' = InstanceName
      BY <1>3, <3>1
    <3>3. CASE c \in 1 .. (child - 1)
      BY <1>2, <3>1, <3>2, <3>3 DEF AllTold
    <3>4. CASE c \notin 1 .. (child - 1)
      <4>1. c = child /\ (SkipChild \/ RejectChild \/ EndChild)
        BY <1>1, <1>6, <3>1, <3>4
      <4>2. AccountedIn(rows', ThisChild, ChildName)
        BY <4>1, ChildLeft
      <4> QED BY <3>2, <4>1, <4>2 DEF ThisChild, ChildName
    <3> QED BY <3>3, <3>4
  <2> QED BY <2>1, <2>2
<1>7. ASSUME pc' = "childRepeat", childIndex' # 0
      PROVE  Told(rows', ThisChild', ChildName')
  <2>1. CASE UNCHANGED vars
    BY <1>2, <1>3, <1>7, <2>1 DEF vars, AllTold
  <2>2. CASE RepeatChild /\ childIndex # 0
    BY <1>2, <1>3, <2>2 DEF RepeatChild, AllTold
  <2>3. CASE RepeatChild /\ childIndex = 0
    <3> DEFINE row == RowAt(ThisChild, RepeatName(ThisChild, ChildName, childIndex),
                            resolve_struct_child_offset(base, ThisChild, childIndex),
                            context)
    <3>1. ThisChild' = ThisChild /\ ChildName' = ChildName /\ PushRow(row)
      BY <1>3, <2>3 DEF RepeatChild
    <3>2. /\ row.field = ThisChild
          /\ row.display_name = RepeatName(ThisChild, ChildName, 0)
      BY <2>3, RowAtNames
    <3> HIDE DEF row
    <3> QED BY <1>1, <3>1, <3>2, PushedIsTold
  <2> QED BY <1>7, <2>1, <2>2, <2>3, ChildLoopStep
<1> QED BY <1>1, <1>4, <1>5, <1>6, <1>7 DEF AllTold

(* No field disappears: it has a row of its own, with a value or with an   *)
(* error, unless its condition is false for a value in the table.  And one *)
(* that refers to nothing shows what it shows when it is read alone,       *)
(* whatever the items around it are and however they fail.                 *)
THEOREM FieldsShowThemselves == Spec => []FieldsAreAccountedFor
<1>1. Init => AllTold
  BY DEF Init, AllTold
<1>2. TypeOK /\ ContextIsLastSuccess /\ AllTold /\ [Next]_vars => AllTold'
  BY AllToldStep
<1>3. AllTold => NothingIsHidden
  BY AccountedIsIn DEF AllTold, NothingIsHidden
<1>4. StaticFieldsIndependent /\ NothingIsHidden => FieldsAreAccountedFor
  BY DEF FieldsAreAccountedFor
<1> QED BY <1>1, <1>2, <1>3, <1>4, TypeCorrect, ContextIsTheRows,
           StaticFieldsStandAlone, PTL DEF Spec

-----------------------------------------------------------------------------
(* Sums *)

IsSum(f, s, n) ==
    f = [k \in 0 .. n |-> IF k = 0 THEN 0 ELSE f[k - 1] + s[k]]

LEMMA NatLeast ==
    ASSUME NEW T, T \subseteq Nat, 0 \notin T,
           \A m \in Nat : m + 1 \in T => m \in T
    PROVE  T = {}
<1> SUFFICES ASSUME T # {} PROVE FALSE
  OBVIOUS
<1>1. PICK m \in T : \A t \in T : m <= t
  BY NatMin, Zenon
<1>2. m - 1 \in Nat /\ (m - 1) + 1 = m
  BY <1>1
<1> QED BY <1>1, <1>2

LEMMA SumIsDefined ==
    ASSUME NEW s PROVE \A n \in Nat : \E f : IsSum(f, s, n)
<1> DEFINE T == {n \in Nat : ~ \E f : IsSum(f, s, n)}
<1>1. 0 \notin T
  <2>1. IsSum([k \in 0 .. 0 |-> 0], s, 0)
    BY DEF IsSum
  <2> QED BY <2>1
<1>2. ASSUME NEW m \in Nat, m \notin T PROVE m + 1 \notin T
  <2>1. PICK f : IsSum(f, s, m)
    BY <1>2
  <2> DEFINE g == [k \in 0 .. (m + 1) |-> IF k = m + 1 THEN f[m] + s[m + 1] ELSE f[k]]
  <2>2. \A k \in 0 .. m : f[k] = IF k = 0 THEN 0 ELSE f[k - 1] + s[k]
    BY <2>1 DEF IsSum
  <2>3. ASSUME NEW k \in 0 .. (m + 1)
        PROVE g[k] = IF k = 0 THEN 0 ELSE g[k - 1] + s[k]
    <3>1. CASE k = 0
      BY <2>2, <3>1
    <3>2. CASE k # 0
      <4>1. k - 1 \in 0 .. (m + 1) /\ g[k - 1] = f[k - 1]
        BY <3>2
      <4> QED BY <2>2, <3>2, <4>1
    <3> QED BY <3>1, <3>2
  <2>4. IsSum(g, s, m + 1)
    <3>1. g = [k \in 0 .. (m + 1) |-> g[k]]
      OBVIOUS
    <3> HIDE DEF g
    <3> QED BY <2>3, <3>1, Zenon DEF IsSum
  <2> QED BY <2>4
<1> HIDE DEF T
<1>3. T = {}
  BY <1>1, <1>2, NatLeast DEF T
<1> QED BY <1>3 DEF T

LEMMA SumChosen ==
    ASSUME NEW s, NEW n \in Nat
    PROVE \E f : IsSum(f, s, n) /\ Sum(s, n) = f[n]
<1> DEFINE upTo[k \in 0 .. n] == IF k = 0 THEN 0 ELSE upTo[k - 1] + s[k]
<1>1. Sum(s, n) = upTo[n]
  BY DEF Sum
<1>2. upTo = CHOOSE f : IsSum(f, s, n)
  BY DEF IsSum
<1> HIDE DEF upTo
<1>3. IsSum(upTo, s, n)
  BY <1>2, SumIsDefined
<1> QED BY <1>1, <1>3

LEMMA SumsAgree ==
    ASSUME NEW s, NEW t, NEW n \in Nat, NEW m \in Nat, NEW f, NEW g,
           IsSum(f, s, n), IsSum(g, t, m),
           NEW d \in Nat, d <= n, d <= m, \A k \in 1 .. d : s[k] = t[k]
    PROVE  f[d] = g[d]
<1> DEFINE T == {k \in Nat : k <= d /\ f[k] # g[k]}
<1>1. \A k \in 0 .. n : f[k] = IF k = 0 THEN 0 ELSE f[k - 1] + s[k]
  BY DEF IsSum
<1>2. \A k \in 0 .. m : g[k] = IF k = 0 THEN 0 ELSE g[k - 1] + t[k]
  BY DEF IsSum
<1>3. 0 \notin T
  BY <1>1, <1>2
<1>4. ASSUME NEW k \in Nat, k \notin T PROVE k + 1 \notin T
  <2> SUFFICES ASSUME k + 1 <= d PROVE f[k + 1] = g[k + 1]
    OBVIOUS
  <2>1. f[k] = g[k] /\ s[k + 1] = t[k + 1]
    BY <1>4
  <2>2. f[k + 1] = f[k] + s[k + 1]
    BY <1>1
  <2>3. g[k + 1] = g[k] + t[k + 1]
    BY <1>2
  <2> QED BY <2>1, <2>2, <2>3
<1> HIDE DEF T
<1>5. T = {}
  BY <1>3, <1>4, NatLeast DEF T
<1> QED BY <1>5 DEF T

LEMMA SumOfEquals ==
    ASSUME NEW s, NEW t, NEW n \in Nat, \A k \in 1 .. n : s[k] = t[k]
    PROVE  Sum(s, n) = Sum(t, n)
<1>1. PICK f : IsSum(f, s, n) /\ Sum(s, n) = f[n]
  BY SumChosen
<1>2. PICK g : IsSum(g, t, n) /\ Sum(t, n) = g[n]
  BY SumChosen
<1>3. \A d \in Nat : d <= n /\ (\A k \in 1 .. d : s[k] = t[k]) => f[d] = g[d]
  BY <1>1, <1>2, SumsAgree
<1>4. f[n] = g[n]
  BY <1>3
<1> QED BY <1>1, <1>2, <1>4

LEMMA SumOfNone ==
    ASSUME NEW s PROVE Sum(s, 0) = 0
<1>1. PICK f : IsSum(f, s, 0) /\ Sum(s, 0) = f[0]
  BY SumChosen
<1>2. 0 \in 0 .. 0
  OBVIOUS
<1> QED BY <1>1, <1>2 DEF IsSum

LEMMA SumOfNext ==
    ASSUME NEW s, NEW n \in Nat PROVE Sum(s, n + 1) = Sum(s, n) + s[n + 1]
<1>1. PICK f : IsSum(f, s, n) /\ Sum(s, n) = f[n]
  BY SumChosen
<1>2. PICK g : IsSum(g, s, n + 1) /\ Sum(s, n + 1) = g[n + 1]
  BY SumChosen
<1>3. f[n] = g[n]
  BY <1>1, <1>2, SumsAgree
<1>4. g[n + 1] = g[n] + s[n + 1]
  <2>1. n + 1 \in 0 .. (n + 1) /\ n + 1 # 0 /\ (n + 1) - 1 = n
    OBVIOUS
  <2>2. \A k \in 0 .. (n + 1) : g[k] = IF k = 0 THEN 0 ELSE g[k - 1] + s[k]
    BY <1>2 DEF IsSum
  <2> QED BY <2>1, <2>2
<1> QED BY <1>1, <1>2, <1>3, <1>4

LEMMA SumIsNat ==
    ASSUME NEW s, NEW n \in Nat, \A k \in 1 .. n : s[k] \in Nat
    PROVE  Sum(s, n) \in Nat
<1> DEFINE T == {k \in Nat : k <= n /\ Sum(s, k) \notin Nat}
<1>1. 0 \notin T
  BY SumOfNone
<1>2. ASSUME NEW k \in Nat, k \notin T PROVE k + 1 \notin T
  BY <1>2, SumOfNext
<1> HIDE DEF T
<1>3. T = {}
  BY <1>1, <1>2, NatLeast DEF T
<1> QED BY <1>3 DEF T

LEMMA SumGrows ==
    ASSUME NEW s, NEW n \in Nat, \A k \in 1 .. n : s[k] \in Nat,
           NEW m \in Nat, m <= n
    PROVE  Sum(s, m) <= Sum(s, n)
<1> DEFINE T == {k \in Nat : m + k <= n /\ ~(Sum(s, m) <= Sum(s, m + k))}
<1>1. \A k \in Nat : k <= n => Sum(s, k) \in Nat
  BY SumIsNat
<1>2. 0 \notin T
  BY <1>1
<1>3. ASSUME NEW k \in Nat, k \notin T PROVE k + 1 \notin T
  <2> SUFFICES ASSUME m + k + 1 <= n PROVE Sum(s, m) <= Sum(s, m + k + 1)
    OBVIOUS
  <2>1. Sum(s, m) <= Sum(s, m + k)
    BY <1>3
  <2>2. Sum(s, m + k + 1) = Sum(s, m + k) + s[m + k + 1] /\ s[m + k + 1] \in Nat
    BY SumOfNext
  <2> QED BY <1>1, <2>1, <2>2
<1> HIDE DEF T
<1>4. T = {}
  BY <1>2, <1>3, NatLeast DEF T
<1>5. n - m \in Nat /\ m + (n - m) = n
  OBVIOUS
<1>6. n - m \notin T
  BY <1>4
<1>7. Sum(s, m) <= Sum(s, m + (n - m))
  BY <1>5, <1>6 DEF T
<1> QED BY <1>5, <1>7

(* A sum of positive numbers is at least their count.                      *)
LEMMA SumCounts ==
    ASSUME NEW s, NEW n \in Nat, \A k \in 1 .. n : s[k] \in Nat \ {0}
    PROVE  n <= Sum(s, n)
<1> DEFINE T == {k \in Nat : k <= n /\ ~(k <= Sum(s, k))}
<1>1. 0 \notin T
  BY SumOfNone
<1>2. ASSUME NEW k \in Nat, k \notin T PROVE k + 1 \notin T
  <2> SUFFICES ASSUME k + 1 <= n PROVE k + 1 <= Sum(s, k + 1)
    OBVIOUS
  <2>1. k <= Sum(s, k) /\ Sum(s, k) \in Nat
    BY <1>2, SumIsNat
  <2> QED BY <2>1, SumOfNext
<1> HIDE DEF T
<1>3. T = {}
  BY <1>1, <1>2, NatLeast DEF T
<1> QED BY <1>3 DEF T

-----------------------------------------------------------------------------
(* How many rows *)

(* What the items before position i may add.                               *)
Before(i) ==
    Sum([j \in 1 .. Len(schema.fields) |-> MostRows(schema.fields[j])], i)

ChildTurns(structure) ==
    [c \in 1 .. Len(structure.fields) |-> Turns(structure.fields[c])]

InstanceRows(structure) == Sum(ChildTurns(structure), Len(structure.fields))

(* What the current item may have added so far, at place p of the pass.    *)
SoFar(p, structure, i, c, k) ==
    CASE p = "field" -> i
      [] p = "instance" -> i * InstanceRows(structure)
      [] p = "child" -> i * InstanceRows(structure) + Sum(ChildTurns(structure), c - 1)
      [] p = "childRepeat" -> i * InstanceRows(structure)
                              + Sum(ChildTurns(structure), c - 1) + k
      [] OTHER -> 0

Budget == Before(item - 1) + SoFar(pc, Structure, index, child, childIndex)

(* Where the loops are: none runs past its end.                            *)
InLoops ==
    /\ pc \in {"field", "instance"} => index <= RepeatCount(This)
    /\ pc \in {"child", "childRepeat"} =>
          index < RepeatCount(This) /\ child <= Len(Structure.fields) + 1
    /\ pc = "childRepeat" => childIndex <= RepeatCount(ThisChild)
    /\ pc = "done" => item = Len(schema.fields) + 1

RowBudget ==
    InLoops /\ (validate_schema(schema) => Len(rows) <= Budget)

LEMMA NamedStructure ==
    ASSUME NEW name, NEW s \in 1 .. Len(schema.structures),
           schema.structures[s].name = name
    PROVE  \E f \in 1 .. Len(schema.structures) :
              find_structure(name) = schema.structures[f]
<1> DEFINE S == {f \in 1 .. Len(schema.structures) :
                    schema.structures[f].name = name}
           first == CHOOSE m \in S : \A f \in S : m <= f
<1>1. S # {} /\ S \subseteq Nat
  OBVIOUS
<1>2. find_structure(name) = schema.structures[first]
  BY <1>1 DEF find_structure
<1>3. S \subseteq 1 .. Len(schema.structures)
  OBVIOUS
<1> HIDE DEF S
<1>4. \E m \in S : \A f \in S : m <= f
  BY <1>1, NatMin
<1>5. first \in S
  BY <1>4
<1> QED BY <1>2, <1>3, <1>5

LEMMA ValidTurns ==
    ASSUME NEW d, d.repeat # None => d.repeat \in RepeatInfo, ValidRepeatCount(d)
    PROVE  /\ RepeatCount(d) \in Nat /\ 1 <= RepeatCount(d)
           /\ RepeatCount(d) <= Turns(d) /\ Turns(d) \in Nat \ {0}
BY WidthAssumption DEF RepeatCount, Turns, ValidRepeatCount

LEMMA StructureBudget ==
    ASSUME schema \in Schema, validate_schema(schema),
           NEW s \in 1 .. Len(schema.structures), NEW structure,
           structure = schema.structures[s]
    PROVE  /\ Len(structure.fields) \in Nat
           /\ \A c \in 1 .. Len(structure.fields) :
                 ChildTurns(structure)[c] \in Nat \ {0}
           /\ InstanceRows(structure) \in Nat
           /\ Len(structure.fields) <= InstanceRows(structure)
<1>1. structure \in StructureDef
  BY DEF Schema
<1>2. structure.fields \in Seq(FieldDef)
  BY <1>1 DEF StructureDef
<1>3. ASSUME NEW c \in 1 .. Len(structure.fields)
      PROVE  ChildTurns(structure)[c] \in Nat \ {0}
  <2>1. structure.fields[c] \in FieldDef
    BY <1>2
  <2>2. ValidRepeatCount(structure.fields[c])
    BY DEF validate_schema, validate_structures, validate_field_def
  <2> QED BY <2>1, <2>2, FieldParts, ValidTurns DEF ChildTurns
<1>4. Len(structure.fields) \in Nat
  BY <1>2
<1>5. InstanceRows(structure) \in Nat
  BY <1>3, <1>4, SumIsNat DEF InstanceRows
<1>6. Len(structure.fields) <= InstanceRows(structure)
  BY <1>3, <1>4, SumCounts DEF InstanceRows
<1> QED BY <1>3, <1>4, <1>5, <1>6

LEMMA FieldBudget ==
    ASSUME schema \in Schema, validate_schema(schema),
           NEW i \in 1 .. Len(schema.fields), schema.fields[i].tag = "field"
    PROVE  LET d == schema.fields[i]
           IN /\ RepeatCount(d) \in Nat /\ 1 <= RepeatCount(d)
              /\ RepeatCount(d) <= MostRows(d) /\ MostRows(d) \in Nat
<1> DEFINE d == schema.fields[i]
<1>1. schema.fields \in Seq(FieldItem)
  BY DEF Schema
<1>2. d \in FieldDef
  BY <1>1, ItemParts
<1>3. ValidRepeatCount(d)
  BY DEF validate_schema, validate_field_def
<1>4. MostRows(d) = Turns(d)
  BY DEF MostRows
<1> HIDE DEF d
<1>5. d.repeat # None => d.repeat \in RepeatInfo
  BY <1>2, FieldParts
<1>6. QED
  BY <1>3, <1>4, <1>5, ValidTurns DEF d

LEMMA InstanceBudget ==
    ASSUME schema \in Schema, validate_schema(schema),
           NEW i \in 1 .. Len(schema.fields), schema.fields[i].tag = "instance"
    PROVE  LET d == schema.fields[i]
               structure == find_structure(d.struct_name)
           IN /\ \E s \in 1 .. Len(schema.structures) : structure = schema.structures[s]
              /\ RepeatCount(d) \in Nat /\ 1 <= RepeatCount(d)
              /\ RepeatCount(d) <= Turns(d) /\ Turns(d) \in Nat
              /\ MostRows(d) = Turns(d) * InstanceRows(structure)
              /\ MostRows(d) \in Nat
<1> DEFINE d == schema.fields[i]
           structure == find_structure(d.struct_name)
<1>1. schema.fields \in Seq(FieldItem) /\ schema.structures \in Seq(StructureDef)
  BY DEF Schema
<1>2. d \in StructInstanceDef
  BY <1>1, ItemParts
<1>3. validate_struct_instance(d, schema)
  BY DEF validate_schema
<1>5. PICK s \in 1 .. Len(schema.structures) : structure = schema.structures[s]
  BY <1>3, NamedStructure DEF validate_struct_instance
<1>6. InstanceRows(structure) \in Nat
  BY <1>5, StructureBudget
<1>7. MostRows(d) = Turns(d) * InstanceRows(structure)
  BY DEF MostRows, InstanceRows, ChildTurns
<1> HIDE DEF d, structure
<1>8. /\ RepeatCount(d) \in Nat /\ 1 <= RepeatCount(d)
      /\ RepeatCount(d) <= Turns(d) /\ Turns(d) \in Nat
  BY <1>2, <1>3, InstanceParts, ValidTurns DEF validate_struct_instance
<1>9. MostRows(d) \in Nat
  BY <1>6, <1>7, <1>8
<1> QED BY <1>5, <1>7, <1>8, <1>9 DEF d, structure

LEMMA ItemTags ==
    ASSUME TypeOK, item <= Len(schema.fields)
    PROVE  This.tag \in {"field", "instance"}
<1>1. schema.fields \in Seq(FieldItem) /\ item \in 1 .. Len(schema.fields)
  BY DEF TypeOK, Schema
<1> QED BY <1>1, ItemParts DEF This

LEMMA LoopsStay ==
    ASSUME TypeOK, InLoops, [Next]_vars PROVE InLoops'
<1> USE DEF InLoops
<1>1. UNCHANGED <<schema, item>> => This' = This /\ Structure' = Structure
  BY DEF This, Structure, find_structure
<1>2. UNCHANGED <<schema, item, child>> => ThisChild' = ThisChild
  BY <1>1 DEF ThisChild
<1>3. pc \in {"item", "field", "instance", "child", "childRepeat", "done"}
      /\ item \in 1 .. (Len(schema.fields) + 1) /\ Len(schema.fields) \in Nat
      /\ index \in Nat /\ child \in Nat \ {0} /\ childIndex \in Nat
  BY DEF TypeOK, Schema
<1>4. item <= Len(schema.fields) => RepeatCount(This) \in Nat
  BY ThisField, ThisInstance, FieldParts, InstanceParts, Counts, ItemTags
<1>5. pc \in {"instance", "child", "childRepeat"} =>
         item <= Len(schema.fields) /\ Len(Structure.fields) \in Nat
  BY FoundStructure DEF TypeOK, Structure, StructureDef
<1>6. AtChild => RepeatCount(ThisChild) \in Nat
  BY ChildOfStructure, FieldParts, Counts DEF AtChild, TypeOK
<1>7. pc = "childRepeat" => RepeatCount(ThisChild) \in Nat
  BY ChildOfStructure, FieldParts, Counts DEF TypeOK
<1>8. ASSUME pc' = "item" PROVE InLoops'
  BY <1>8
<1>9. CASE EnterField \/ EnterInstance
  <2>1. /\ pc' \in {"field", "instance"} /\ index' = 0 /\ UNCHANGED <<schema, item>>
        /\ item <= Len(schema.fields)
    BY <1>9 DEF EnterField, EnterInstance, AtItem, EnterRepeats
  <2> QED BY <1>1, <1>4, <2>1
<1>10. CASE RepeatField
  BY <1>1, <1>3, <1>4, <1>10 DEF RepeatField, TypeOK
<1>11. CASE PlaceInstance
  BY <1>1, <1>3, <1>5, <1>11 DEF PlaceInstance
<1>12. CASE RejectPlacement
  BY <1>1, <1>3, <1>4, <1>5, <1>12 DEF RejectPlacement
<1>13. CASE EnterChild
  BY <1>1, <1>2, <1>6, <1>13 DEF EnterChild, AtChild
<1>14. CASE SkipChild \/ RejectChild
  <2>1. /\ UNCHANGED <<schema, item, index>> /\ child' = child + 1
        /\ pc = "child" /\ pc' = "child" /\ child <= Len(Structure.fields)
    BY <1>14 DEF SkipChild, RejectChild, AtChild
  <2> QED BY <1>1, <1>3, <1>5, <2>1
<1>15. CASE RepeatChild
  BY <1>1, <1>2, <1>3, <1>7, <1>15 DEF RepeatChild
<1>16. CASE EndChild
  <2>1. child <= Len(Structure.fields)
    BY <1>16 DEF EndChild, TypeOK
  <2> QED BY <1>1, <1>3, <1>5, <1>16, <2>1 DEF EndChild
<1>17. CASE EndInstance
  BY <1>1, <1>3, <1>4, <1>5, <1>17 DEF EndInstance
<1>18. CASE Return
  BY <1>3, <1>18 DEF Return
<1>19. CASE Done \/ UNCHANGED vars
  BY <1>1, <1>2, <1>19 DEF Done, vars
<1>20. CASE SkipField \/ RejectField \/ EndField \/ SkipUnknownStructure
            \/ SkipInstance \/ RejectInstance \/ RejectUnstrided \/ EndInstances
  BY <1>8, <1>20 DEF SkipField, RejectField, EndField, SkipUnknownStructure,
     SkipInstance, RejectInstance, RejectUnstrided, EndInstances, LeaveItem
<1> QED BY <1>9, <1>10, <1>11, <1>12, <1>13, <1>14, <1>15, <1>16, <1>17, <1>18,
           <1>19, <1>20 DEF Next

LEMMA TimesGrows ==
    ASSUME NEW a \in Nat, NEW b \in Nat, NEW p \in Nat, a <= b
    PROVE  a * p \in Nat /\ a * p <= b * p /\ (a + 1) * p = a * p + p
<1>1. PICK k \in Nat : b = a + k
  <2>1. b - a \in Nat /\ b = a + (b - a)
    OBVIOUS
  <2> QED BY <2>1
<1>2. b * p = a * p + k * p /\ k * p \in Nat /\ a * p \in Nat
  BY <1>1, SMT
<1>3. (a + 1) * p = a * p + p
  BY SMT
<1> QED BY <1>2, <1>3

LEMMA OneRowMore ==
    ASSUME rows \in Seq(Row), NEW row, PushRow(row)
    PROVE  Len(rows') = Len(rows) + 1
BY DEF PushRow

LEMMA InstanceRowsMore ==
    ASSUME rows \in Seq(Row), NEW structure, NEW name, NEW e,
           Len(structure.fields) \in Nat, PushInstanceError(structure, name, e)
    PROVE  Len(rows') = Len(rows) + Len(structure.fields)
<1> DEFINE block == [c \in 1 .. Len(structure.fields) |->
                        UnplacedRow(structure.fields[c],
                                    Member(name, structure.fields[c].name), e)]
<1>1. Len(block) = Len(structure.fields) /\ block \in Seq({block[c] : c \in DOMAIN block})
  OBVIOUS
<1>2. rows' = rows \o block
  BY DEF PushInstanceError
<1> HIDE DEF block
<1>3. PICK T : block \in Seq(T)
  BY <1>1, Zenon
<1>4. Len(rows \o block) = Len(rows) + Len(block)
  BY <1>3, ConcatLength, Zenon
<1> QED BY <1>1, <1>2, <1>4

(* The numbers of the current item, for a schema that was validated.       *)
LEMMA ThisBudget ==
    ASSUME TypeOK, validate_schema(schema), item <= Len(schema.fields)
    PROVE  /\ Before(item - 1) \in Nat /\ MostRows(This) \in Nat
           /\ Before(item) = Before(item - 1) + MostRows(This)
           /\ 1 <= RepeatCount(This) /\ RepeatCount(This) \in Nat
           /\ This.tag = "field" => RepeatCount(This) <= MostRows(This)
           /\ This.tag = "instance" =>
                 /\ Len(Structure.fields) \in Nat /\ InstanceRows(Structure) \in Nat
                 /\ Len(Structure.fields) <= InstanceRows(Structure)
                 /\ RepeatCount(This) * InstanceRows(Structure) <= MostRows(This)
                 /\ \A c \in 1 .. Len(Structure.fields) :
                       ChildTurns(Structure)[c] \in Nat
<1> DEFINE most == [j \in 1 .. Len(schema.fields) |-> MostRows(schema.fields[j])]
<1>1. /\ schema \in Schema /\ schema.fields \in Seq(FieldItem)
      /\ item \in 1 .. Len(schema.fields)
  BY DEF TypeOK, Schema
<1>2. \A j \in 1 .. Len(schema.fields) : schema.fields[j].tag \in {"field", "instance"}
  BY <1>1, ItemParts
<1>3. \A j \in 1 .. Len(schema.fields) : most[j] \in Nat
  BY <1>1, <1>2, FieldBudget, InstanceBudget
<1>4. item - 1 \in Nat /\ (item - 1) + 1 = item /\ most[item] = MostRows(This)
  BY <1>1 DEF This
<1> HIDE DEF most
<1>5. Sum(most, item - 1) \in Nat
  BY <1>1, <1>3, SumIsNat
<1>6. Sum(most, item) = Sum(most, item - 1) + most[item]
  BY <1>4, SumOfNext
<1>7. MostRows(This) \in Nat
  BY <1>1, <1>3, <1>4
<1>8. /\ 1 <= RepeatCount(This) /\ RepeatCount(This) \in Nat
      /\ This.tag = "field" => RepeatCount(This) <= MostRows(This)
  BY <1>1, <1>2, FieldBudget, InstanceBudget DEF This
<1>9. ASSUME This.tag = "instance"
      PROVE  /\ Len(Structure.fields) \in Nat /\ InstanceRows(Structure) \in Nat
             /\ Len(Structure.fields) <= InstanceRows(Structure)
             /\ RepeatCount(This) * InstanceRows(Structure) <= MostRows(This)
             /\ \A c \in 1 .. Len(Structure.fields) : ChildTurns(Structure)[c] \in Nat
  <2>1. /\ \E s \in 1 .. Len(schema.structures) : Structure = schema.structures[s]
        /\ RepeatCount(This) <= Turns(This) /\ Turns(This) \in Nat
        /\ MostRows(This) = Turns(This) * InstanceRows(Structure)
    BY <1>1, <1>9, InstanceBudget DEF This, Structure
  <2>2. /\ Len(Structure.fields) \in Nat /\ InstanceRows(Structure) \in Nat
        /\ Len(Structure.fields) <= InstanceRows(Structure)
        /\ \A c \in 1 .. Len(Structure.fields) : ChildTurns(Structure)[c] \in Nat
    BY <1>1, <2>1, StructureBudget
  <2>3. RepeatCount(This) * InstanceRows(Structure) <= Turns(This) * InstanceRows(Structure)
    BY <1>8, <2>1, <2>2, TimesGrows
  <2> QED BY <2>1, <2>2, <2>3
<1> QED BY <1>4, <1>5, <1>6, <1>7, <1>8, <1>9 DEF Before, most

LEMMA BudgetStep ==
    ASSUME TypeOK, InLoops, validate_schema(schema), Len(rows) <= Budget, [Next]_vars
    PROVE  Len(rows') <= Budget'
<1> DEFINE P == InstanceRows(Structure)
           upTo(c) == Sum(ChildTurns(Structure), c)
<1>1. schema' = schema
  BY StepEffect
<1>2. Budget' = Before(item' - 1) + SoFar(pc', Structure', index', child', childIndex')
  <2>1. \A d : MostRows(d)' = MostRows(d)
    BY <1>1 DEF MostRows, find_structure
  <2>2. Before(item - 1)' = Before(item' - 1)
    BY <1>1, <2>1 DEF Before
  <2> QED BY <1>1, <2>2 DEF Budget
<1>3. item' = item => Structure' = Structure
  BY <1>1 DEF Structure, This, find_structure
<1>4. /\ rows \in Seq(Row) /\ Len(rows) \in Nat
      /\ item \in 1 .. (Len(schema.fields) + 1) /\ Len(schema.fields) \in Nat
      /\ index \in Nat /\ child \in Nat \ {0} /\ childIndex \in Nat
      /\ pc = "field" => item <= Len(schema.fields) /\ This.tag = "field"
      /\ pc \in {"instance", "child", "childRepeat"} =>
            item <= Len(schema.fields) /\ This.tag = "instance"
  BY DEF TypeOK, Schema
<1>5. item <= Len(schema.fields) =>
        /\ Before(item - 1) \in Nat /\ MostRows(This) \in Nat
        /\ Before(item) = Before(item - 1) + MostRows(This)
        /\ 1 <= RepeatCount(This) /\ RepeatCount(This) \in Nat
        /\ This.tag = "field" => RepeatCount(This) <= MostRows(This)
        /\ This.tag = "instance" =>
              /\ Len(Structure.fields) \in Nat /\ P \in Nat
              /\ Len(Structure.fields) <= P
              /\ RepeatCount(This) * P <= MostRows(This)
  BY ThisBudget
<1>6. item <= Len(schema.fields) /\ This.tag = "instance" =>
        P <= MostRows(This) /\ 0 * P = 0
  <2> SUFFICES ASSUME item <= Len(schema.fields), This.tag = "instance"
               PROVE  P <= MostRows(This) /\ 0 * P = 0
    OBVIOUS
  <2>1. 1 * P <= RepeatCount(This) * P
    BY <1>5, TimesGrows
  <2>2. P \in Nat /\ RepeatCount(This) \in Nat /\ RepeatCount(This) * P <= MostRows(This)
        /\ MostRows(This) \in Nat
    BY <1>5
  <2> HIDE DEF P
  <2>3. 1 * P = P /\ 0 * P = 0 /\ RepeatCount(This) * P \in Nat
    BY <2>2, TimesGrows
  <2> QED BY <2>1, <2>2, <2>3
<1>7. ASSUME item <= Len(schema.fields), This.tag = "instance"
      PROVE  index * P \in Nat /\ (index + 1) * P = index * P + P
  BY <1>4, <1>5, <1>7, TimesGrows
<1>8. ASSUME item <= Len(schema.fields), This.tag = "instance",
             child <= Len(Structure.fields) + 1
      PROVE  /\ upTo(child - 1) \in Nat
             /\ child <= Len(Structure.fields) =>
                   upTo(child) = upTo(child - 1) + Turns(ThisChild)
  <2>1. /\ \A c \in 1 .. Len(Structure.fields) : ChildTurns(Structure)[c] \in Nat
        /\ Len(Structure.fields) \in Nat
    BY <1>8, ThisBudget
  <2>2. child - 1 \in Nat /\ (child - 1) + 1 = child
    BY <1>4
  <2>3. upTo(child - 1) \in Nat
    BY <1>4, <1>8, <2>1, <2>2, SumIsNat
  <2>4. upTo(child) = upTo(child - 1) + ChildTurns(Structure)[child]
    BY <2>2, SumOfNext
  <2>5. child <= Len(Structure.fields) => ChildTurns(Structure)[child] = Turns(ThisChild)
    BY <1>4, <2>1 DEF ChildTurns, ThisChild
  <2> QED BY <2>3, <2>4, <2>5
<1>9. ASSUME AtChild \/ pc = "childRepeat"
      PROVE  /\ 1 <= RepeatCount(ThisChild) /\ RepeatCount(ThisChild) \in Nat
             /\ RepeatCount(ThisChild) <= Turns(ThisChild) /\ Turns(ThisChild) \in Nat
  <2>1. ThisChild \in FieldDef /\ validate_field_def(ThisChild, "StructChild")
    BY <1>9, ChildOfStructure DEF AtChild, TypeOK
  <2> QED BY <2>1, FieldParts, ValidTurns DEF validate_field_def
<1>10. ASSUME LeaveItem, item <= Len(schema.fields),
              Len(rows') <= Before(item - 1) + MostRows(This)
       PROVE  Len(rows') <= Budget'
  <2>1. Before(item' - 1) = Before(item) /\ pc' = "item"
    BY <1>4, <1>10 DEF LeaveItem
  <2> QED BY <1>2, <1>5, <1>10, <2>1 DEF SoFar
<1> HIDE DEF P, upTo
<1>29. ASSUME item <= Len(schema.fields), item' = item, NEW x \in Nat, NEW y \in Nat,
              SoFar(pc, Structure, index, child, childIndex) = x,
              SoFar(pc', Structure', index', child', childIndex') = x + y,
              Len(rows') <= Len(rows) + y
       PROVE  Len(rows') <= Budget'
  <2>1. Budget = Before(item - 1) + x /\ Budget' = Before(item - 1) + (x + y)
    BY <1>2, <1>29 DEF Budget
  <2>2. Before(item - 1) \in Nat
    BY <1>5, <1>29
  <2>3. Len(rows') \in Nat
    BY StepEffect, EffectTypes DEF TypeOK, Context
  <2> QED BY <1>4, <1>29, <2>1, <2>2, <2>3
<1>11. CASE EnterField
  BY <1>2, <1>4, <1>11 DEF EnterField, AtItem, EnterRepeats, Budget, SoFar
<1>12. CASE SkipField \/ RejectField
  <2>1. /\ pc = "item" /\ item <= Len(schema.fields) /\ This.tag = "field" /\ LeaveItem
    BY <1>12 DEF SkipField, RejectField, AtItem
  <2>2. Len(rows) <= Before(item - 1)
    BY <1>5, <2>1 DEF Budget, SoFar
  <2>3. Len(rows') = Len(rows) \/ Len(rows') = Len(rows) + 1
    BY <1>4, <1>12, OneRowMore DEF SkipField, RejectField
  <2> QED BY <1>4, <1>5, <1>10, <2>1, <2>2, <2>3
<1>13. CASE RepeatField
  <2>1. /\ pc = "field" /\ pc' = "field" /\ item' = item /\ index' = index + 1
        /\ Len(rows') = Len(rows) + 1
    BY <1>4, <1>13, OneRowMore DEF RepeatField
  <2> QED BY <1>2, <1>4, <1>5, <2>1 DEF Budget, SoFar
<1>14. CASE EndField
  <2>1. /\ pc = "field" /\ index <= RepeatCount(This) /\ LeaveItem /\ rows' = rows
    BY <1>14 DEF EndField, InLoops
  <2>2. Len(rows) <= Before(item - 1) + index
    BY <2>1 DEF Budget, SoFar
  <2> QED BY <1>4, <1>5, <1>10, <2>1, <2>2
<1>15. CASE SkipUnknownStructure \/ SkipInstance \/ RejectInstance \/ RejectUnstrided
  <2>1. /\ pc = "item" /\ item <= Len(schema.fields) /\ This.tag = "instance"
        /\ LeaveItem
    BY <1>15 DEF SkipUnknownStructure, SkipInstance, RejectInstance, RejectUnstrided,
       AtItem
  <2>2. Len(rows') = Len(rows) \/ Len(rows') = Len(rows) + Len(Structure.fields)
    BY <1>4, <1>5, <1>15, <2>1, InstanceRowsMore DEF SkipUnknownStructure, SkipInstance,
       RejectInstance, RejectUnstrided
  <2>3. Len(rows) <= Before(item - 1)
    BY <1>5, <2>1 DEF Budget, SoFar
  <2> QED BY <1>4, <1>5, <1>6, <1>10, <2>1, <2>2, <2>3
<1>16. CASE EnterInstance
  <2>1. /\ pc = "item" /\ item <= Len(schema.fields) /\ This.tag = "instance"
        /\ pc' = "instance" /\ item' = item /\ index' = 0 /\ rows' = rows
    BY <1>16 DEF EnterInstance, AtItem, EnterRepeats
  <2> QED BY <1>2, <1>3, <1>6, <2>1 DEF Budget, SoFar, P
<1>17. CASE PlaceInstance
  <2>1. /\ pc = "instance" /\ pc' = "child" /\ child' = 1 /\ index' = index
        /\ item' = item /\ rows' = rows
    BY <1>17 DEF PlaceInstance
  <2>2. Sum(ChildTurns(Structure), 1 - 1) = 0
    BY SumOfNone
  <2>3. SoFar(pc', Structure', index', child', childIndex') = index * P + 0
    BY <1>3, <2>1, <2>2 DEF SoFar, P
  <2>4. SoFar(pc, Structure, index, child, childIndex) = index * P
    BY <2>1 DEF SoFar, P
  <2> QED BY <1>2, <1>4, <1>5, <1>7, <2>1, <2>3, <2>4 DEF Budget
<1>18. CASE RejectPlacement
  <2>1. /\ pc = "instance" /\ pc' = "instance" /\ item' = item /\ index' = index + 1
        /\ Len(rows') = Len(rows) + Len(Structure.fields)
    BY <1>4, <1>5, <1>18, InstanceRowsMore DEF RejectPlacement
  <2>2. SoFar(pc', Structure', index', child', childIndex') = (index + 1) * P
    BY <1>3, <2>1 DEF SoFar, P
  <2>3. SoFar(pc, Structure, index, child, childIndex) = index * P
    BY <2>1 DEF SoFar, P
  <2>4. index * P \in Nat /\ (index + 1) * P = index * P + P
    BY <1>4, <1>7, <2>1
  <2>5. P \in Nat /\ Len(rows') <= Len(rows) + P
    BY <1>4, <1>5, <2>1
  <2> QED BY <1>4, <1>29, <2>1, <2>2, <2>3, <2>4, <2>5
<1>19. CASE EndInstances
  <2>1. /\ pc = "instance" /\ index = RepeatCount(This) /\ LeaveItem /\ rows' = rows
    BY <1>19 DEF EndInstances
  <2>2. SoFar(pc, Structure, index, child, childIndex) = index * P
    BY <2>1 DEF SoFar, P
  <2>3. Len(rows) <= Before(item - 1) + RepeatCount(This) * P
    BY <2>1, <2>2 DEF Budget
  <2>4. RepeatCount(This) * P \in Nat
    BY <1>4, <1>7, <2>1
  <2> QED BY <1>4, <1>5, <1>10, <2>1, <2>3, <2>4
<1>20. ASSUME pc \in {"child", "childRepeat"}
       PROVE  SoFar(pc, Structure, index, child, childIndex) =
                 index * P + upTo(child - 1) + (IF pc = "child" THEN 0 ELSE childIndex)
  <2>1. index * P \in Nat /\ upTo(child - 1) \in Nat
    BY <1>4, <1>7, <1>8, <1>20 DEF InLoops
  <2> QED BY <1>20, <2>1 DEF SoFar, P, upTo
<1>21. ASSUME pc' \in {"child", "childRepeat"}, Structure' = Structure, index' = index,
              index * P \in Nat, upTo(child' - 1) \in Nat
       PROVE  SoFar(pc', Structure', index', child', childIndex') =
                 index * P + upTo(child' - 1) + (IF pc' = "child" THEN 0 ELSE childIndex')
  BY <1>21 DEF SoFar, P, upTo
<1>22. CASE EnterChild
  <2>1. /\ pc = "child" /\ pc' = "childRepeat" /\ childIndex' = 0 /\ rows' = rows
        /\ UNCHANGED <<item, index, child>>
    BY <1>22 DEF EnterChild, AtChild
  <2>2. index * P \in Nat /\ upTo(child - 1) \in Nat
    BY <1>4, <1>7, <1>8, <2>1 DEF InLoops
  <2> QED BY <1>2, <1>3, <1>20, <1>21, <2>1, <2>2 DEF Budget
<1>23. CASE SkipChild \/ RejectChild
  <2>1. /\ pc = "child" /\ pc' = "child" /\ UNCHANGED <<item, index>> /\ child' = child + 1
        /\ child <= Len(Structure.fields) /\ AtChild
    BY <1>23 DEF SkipChild, RejectChild, AtChild
  <2>2. Len(rows') = Len(rows) \/ Len(rows') = Len(rows) + 1
    BY <1>4, <1>23, OneRowMore DEF SkipChild, RejectChild
  <2>3. /\ index * P \in Nat /\ upTo(child - 1) \in Nat /\ child' - 1 = child
        /\ upTo(child) = upTo(child - 1) + Turns(ThisChild)
    BY <1>4, <1>7, <1>8, <2>1 DEF InLoops
  <2>4. 1 <= Turns(ThisChild) /\ Turns(ThisChild) \in Nat
    BY <1>9, <2>1
  <2>5. SoFar(pc', Structure', index', child', childIndex') =
           index * P + upTo(child - 1) + Turns(ThisChild)
    BY <1>3, <1>21, <2>1, <2>3, <2>4
  <2>6. SoFar(pc, Structure, index, child, childIndex) = index * P + upTo(child - 1)
    BY <1>20, <2>1, <2>3
  <2>7. index * P + upTo(child - 1) \in Nat /\ Len(rows') <= Len(rows) + Turns(ThisChild)
    BY <1>4, <2>2, <2>3, <2>4
  <2> QED BY <1>4, <1>29, <2>1, <2>4, <2>5, <2>6, <2>7
<1>24. CASE RepeatChild
  <2>1. /\ pc = "childRepeat" /\ pc' = "childRepeat" /\ childIndex' = childIndex + 1
        /\ UNCHANGED <<item, index, child>> /\ Len(rows') = Len(rows) + 1
    BY <1>4, <1>24, OneRowMore DEF RepeatChild
  <2>2. index * P \in Nat /\ upTo(child - 1) \in Nat
    BY <1>4, <1>7, <1>8, <2>1 DEF InLoops
  <2>3. SoFar(pc, Structure, index, child, childIndex) =
           index * P + upTo(child - 1) + childIndex
    BY <1>20, <2>1
  <2>4. SoFar(pc', Structure', index', child', childIndex') =
           index * P + upTo(child - 1) + childIndex + 1
    BY <1>3, <1>4, <1>21, <2>1, <2>2
  <2>5. index * P + upTo(child - 1) + childIndex \in Nat /\ Len(rows') <= Len(rows) + 1
    BY <1>4, <2>1, <2>2
  <2> QED BY <1>4, <1>29, <2>1, <2>3, <2>4, <2>5
<1>25. CASE EndChild
  <2>1. /\ pc = "childRepeat" /\ pc' = "child" /\ UNCHANGED <<item, index>>
        /\ child' = child + 1 /\ childIndex = RepeatCount(ThisChild) /\ rows' = rows
        /\ child <= Len(Structure.fields)
    BY <1>25 DEF EndChild, TypeOK
  <2>2. /\ index * P \in Nat /\ upTo(child - 1) \in Nat /\ child' - 1 = child
        /\ upTo(child) = upTo(child - 1) + Turns(ThisChild)
    BY <1>4, <1>7, <1>8, <2>1 DEF InLoops
  <2>3. childIndex <= Turns(ThisChild) /\ Turns(ThisChild) \in Nat
    BY <1>9, <2>1
  <2>4. SoFar(pc', Structure', index', child', childIndex') =
           index * P + upTo(child - 1) + Turns(ThisChild)
    BY <1>3, <1>21, <2>1, <2>2, <2>3
  <2>5. SoFar(pc, Structure, index, child, childIndex) =
           index * P + upTo(child - 1) + childIndex
    BY <1>20, <2>1
  <2>6. Turns(ThisChild) - childIndex \in Nat
    BY <1>4, <2>3
  <2>7. PICK x \in Nat : index * P + upTo(child - 1) = x
    BY <2>2
  <2>8. /\ x + childIndex \in Nat
        /\ x + Turns(ThisChild) = x + childIndex + (Turns(ThisChild) - childIndex)
        /\ Len(rows') <= Len(rows) + (Turns(ThisChild) - childIndex)
    BY <1>4, <2>1, <2>3
  <2> QED BY <1>4, <1>29, <2>1, <2>4, <2>5, <2>6, <2>7, <2>8
<1>26. CASE EndInstance
  <2>1. /\ pc = "child" /\ pc' = "instance" /\ item' = item /\ index' = index + 1
        /\ rows' = rows /\ child > Len(Structure.fields)
    BY <1>26 DEF EndInstance
  <2>2. upTo(child - 1) = P /\ index * P \in Nat /\ (index + 1) * P = index * P + P
    <3>1. child - 1 = Len(Structure.fields)
      BY <1>4, <1>5, <2>1 DEF InLoops
    <3> QED BY <1>4, <1>7, <2>1, <3>1 DEF upTo, P, InstanceRows
  <2>3. SoFar(pc', Structure', index', child', childIndex') = (index + 1) * P
    BY <1>3, <2>1 DEF SoFar, P
  <2>4. P \in Nat
    BY <1>4, <1>5, <2>1
  <2>5. SoFar(pc, Structure, index, child, childIndex) = index * P + P
    BY <1>20, <2>1, <2>2, <2>4
  <2> QED BY <1>2, <1>4, <2>1, <2>2, <2>3, <2>5 DEF Budget
<1>27. CASE Return
  BY <1>2, <1>27 DEF Return, Budget, SoFar
<1>28. CASE Done \/ UNCHANGED vars
  BY <1>2, <1>3, <1>28 DEF Done, vars, Budget
<1> QED BY <1>11, <1>12, <1>13, <1>14, <1>15, <1>16, <1>17, <1>18, <1>19, <1>22,
           <1>23, <1>24, <1>25, <1>26, <1>27, <1>28 DEF Next

(* What an item has added so far is within what it may add.                *)
LEMMA SoFarIsBounded ==
    ASSUME TypeOK, InLoops, validate_schema(schema), item <= Len(schema.fields)
    PROVE  /\ SoFar(pc, Structure, index, child, childIndex) \in Nat
           /\ SoFar(pc, Structure, index, child, childIndex) <= MostRows(This)
<1> DEFINE P == InstanceRows(Structure)
           upTo(c) == Sum(ChildTurns(Structure), c)
<1>1. /\ MostRows(This) \in Nat /\ RepeatCount(This) \in Nat
      /\ This.tag = "field" => RepeatCount(This) <= MostRows(This)
      /\ This.tag = "instance" =>
            /\ P \in Nat /\ RepeatCount(This) * P <= MostRows(This)
            /\ Len(Structure.fields) \in Nat
            /\ \A c \in 1 .. Len(Structure.fields) : ChildTurns(Structure)[c] \in Nat
  BY ThisBudget
<1>2. /\ index \in Nat /\ child \in Nat \ {0} /\ childIndex \in Nat
      /\ pc = "field" => This.tag = "field"
      /\ pc \in {"instance", "child", "childRepeat"} => This.tag = "instance"
  BY DEF TypeOK
<1>3. ASSUME pc \in {"child", "childRepeat"}
      PROVE  /\ upTo(child - 1) \in Nat /\ upTo(child - 1) <= P
             /\ child <= Len(Structure.fields) =>
                   upTo(child - 1) + Turns(ThisChild) <= P
  <2>1. child - 1 \in Nat /\ child - 1 <= Len(Structure.fields)
    BY <1>1, <1>2, <1>3 DEF InLoops
  <2>2. upTo(child - 1) \in Nat /\ upTo(child - 1) <= P
    <3>1. upTo(child - 1) <= P
      BY <1>1, <1>2, <1>3, <2>1, SumGrows DEF InstanceRows
    <3>2. \A c \in 1 .. (child - 1) : ChildTurns(Structure)[c] \in Nat
      BY <1>1, <1>2, <1>3, <2>1
    <3>3. upTo(child - 1) \in Nat
      BY <2>1, <3>2, SumIsNat
    <3> QED BY <3>1, <3>3
  <2>3. ASSUME child <= Len(Structure.fields)
        PROVE  upTo(child - 1) + Turns(ThisChild) <= P
    <3>1. upTo(child) = upTo(child - 1) + ChildTurns(Structure)[child]
      <4>1. (child - 1) + 1 = child
        BY <1>2
      <4> QED BY <2>1, <4>1, SumOfNext
    <3>2. ChildTurns(Structure)[child] = Turns(ThisChild)
      BY <1>1, <1>2, <1>3, <2>3 DEF ChildTurns, ThisChild
    <3>3. upTo(child) <= P
      BY <1>1, <1>2, <1>3, <2>3, SumGrows DEF InstanceRows
    <3> QED BY <3>1, <3>2, <3>3
  <2> QED BY <2>2, <2>3
<1> HIDE DEF P, upTo
<1>4. ASSUME pc \in {"child", "childRepeat"}
      PROVE  index * P \in Nat /\ index * P + P <= MostRows(This)
  <2>1. index + 1 \in Nat /\ index + 1 <= RepeatCount(This) /\ index <= RepeatCount(This)
    BY <1>1, <1>2, <1>4 DEF InLoops
  <2>2. (index + 1) * P <= RepeatCount(This) * P
    BY <1>1, <1>2, <1>4, <2>1, TimesGrows
  <2>3. (index + 1) * P = index * P + P /\ index * P \in Nat
    BY <1>1, <1>2, <1>4, <2>1, TimesGrows
  <2>4. RepeatCount(This) * P \in Nat /\ P \in Nat
    BY <1>1, <1>2, <1>4, TimesGrows
  <2> QED BY <1>1, <1>2, <1>4, <2>2, <2>3, <2>4
<1>5. CASE pc = "field"
  BY <1>1, <1>2, <1>5 DEF InLoops, SoFar
<1>6. CASE pc = "instance"
  <2>1. index * P <= RepeatCount(This) * P /\ index * P \in Nat
        /\ RepeatCount(This) * P \in Nat
    BY <1>1, <1>2, <1>6, TimesGrows DEF InLoops
  <2> QED BY <1>1, <1>2, <1>6, <2>1 DEF SoFar, P
<1>7. CASE pc = "child"
  <2>1. SoFar(pc, Structure, index, child, childIndex) = index * P + upTo(child - 1)
    BY <1>7 DEF SoFar, P, upTo
  <2> DEFINE before == index * P
  <2>2. /\ P \in Nat /\ MostRows(This) \in Nat
        /\ before \in Nat /\ before + P <= MostRows(This)
        /\ upTo(child - 1) \in Nat /\ upTo(child - 1) <= P
        /\ SoFar(pc, Structure, index, child, childIndex) = before + upTo(child - 1)
    BY <1>1, <1>2, <1>3, <1>4, <1>7, <2>1
  <2> HIDE DEF before
  <2> QED BY <2>2
<1>8. CASE pc = "childRepeat"
  <2>1. SoFar(pc, Structure, index, child, childIndex) =
           index * P + upTo(child - 1) + childIndex
    BY <1>8 DEF SoFar, P, upTo
  <2>2. ThisChild \in FieldDef /\ validate_field_def(ThisChild, "StructChild")
    BY <1>8, ChildOfStructure DEF TypeOK
  <2>3. /\ childIndex <= Turns(ThisChild) /\ Turns(ThisChild) \in Nat
        /\ child <= Len(Structure.fields)
    BY <1>2, <1>8, <2>2, FieldParts, ValidTurns DEF validate_field_def, InLoops, TypeOK
  <2>4. P \in Nat
    BY <1>1, <1>2, <1>8
  <2>5. upTo(child - 1) + childIndex <= P /\ upTo(child - 1) \in Nat
    BY <1>2, <1>3, <1>8, <2>3, <2>4
  <2> DEFINE before == index * P
  <2>6. /\ MostRows(This) \in Nat
        /\ before \in Nat /\ before + P <= MostRows(This)
        /\ SoFar(pc, Structure, index, child, childIndex)
             = before + upTo(child - 1) + childIndex
    BY <1>1, <1>4, <1>8, <2>1
  <2> HIDE DEF before
  <2> QED BY <1>2, <2>4, <2>5, <2>6
<1>9. CASE pc \notin {"field", "instance", "child", "childRepeat"}
  BY <1>1, <1>9 DEF SoFar
<1> QED BY <1>5, <1>6, <1>7, <1>8, <1>9

LEMMA TotalIsNat ==
    ASSUME TypeOK, validate_schema(schema)
    PROVE  Before(Len(schema.fields)) \in Nat
<1> DEFINE most == [j \in 1 .. Len(schema.fields) |-> MostRows(schema.fields[j])]
<1>1. schema \in Schema /\ schema.fields \in Seq(FieldItem) /\ Len(schema.fields) \in Nat
  BY DEF TypeOK, Schema
<1>2. \A j \in 1 .. Len(schema.fields) : most[j] \in Nat
  <2>1. \A j \in 1 .. Len(schema.fields) : schema.fields[j].tag \in {"field", "instance"}
    BY <1>1, ItemParts
  <2> QED BY <1>1, <2>1, FieldBudget, InstanceBudget
<1> HIDE DEF most
<1>3. Sum(most, Len(schema.fields)) \in Nat
  BY <1>1, <1>2, SumIsNat
<1> QED BY <1>3 DEF Before, most

LEMMA BudgetIsBound ==
    ASSUME TypeOK, RowBudget PROVE RowsAreBounded
<1> DEFINE n == Len(schema.fields)
           begun == IF item <= n THEN item ELSE n
           most == [j \in 1 .. n |-> MostRows(schema.fields[j])]
           upTo == [j \in 1 .. begun |-> MostRows(schema.fields[j])]
<1> SUFFICES ASSUME validate_schema(schema) PROVE Len(rows) <= Sum(upTo, begun)
  BY DEF RowsAreBounded
<1>1. n \in Nat /\ item \in 1 .. (n + 1) /\ Len(rows) \in Nat
  BY DEF TypeOK, Schema
<1>2. begun \in Nat /\ begun <= n
  BY <1>1
<1>3. \A j \in 1 .. begun : upTo[j] = most[j]
  BY <1>1, <1>2
<1>4. Sum(upTo, begun) = Sum(most, begun)
  <2> HIDE DEF upTo, most, begun
  <2> QED BY <1>2, <1>3, SumOfEquals
<1>5. Sum(most, begun) = Before(begun)
  BY DEF Before
<1>6. Len(rows) <= Budget
  BY DEF RowBudget
<1> DEFINE soFar == SoFar(pc, Structure, index, child, childIndex)
<1>7. CASE item <= n
  <2>1. Before(item) = Before(item - 1) + MostRows(This) /\ Before(item - 1) \in Nat
        /\ MostRows(This) \in Nat
    BY <1>7, ThisBudget
  <2>2. soFar <= MostRows(This) /\ soFar \in Nat
    BY <1>7, SoFarIsBounded DEF RowBudget
  <2>3. begun = item
    BY <1>7
  <2> HIDE DEF soFar
  <2>4. Budget = Before(item - 1) + soFar
    BY DEF Budget, soFar
  <2> QED BY <1>1, <1>4, <1>5, <1>6, <2>1, <2>2, <2>3, <2>4
<1>8. CASE ~(item <= n)
  <2>1. item - 1 = n /\ begun = n
    BY <1>1, <1>8
  <2>2. soFar = 0
    BY <1>8 DEF TypeOK, SoFar
  <2>3. Before(n) \in Int
    BY <1>1, <1>8, TotalIsNat
  <2> QED BY <1>4, <1>5, <1>6, <2>1, <2>2, <2>3 DEF Budget
<1> QED BY <1>7, <1>8

(* However the items of a validated schema fail or repeat, the pass never  *)
(* adds more rows than the loops of the items it has begun may turn.       *)
THEOREM TableIsBounded == Spec => []RowsAreBounded
<1>1. Init => RowBudget
  <2> SUFFICES ASSUME Init PROVE RowBudget
    OBVIOUS
  <2>1. Before(0) = 0
    BY SumOfNone DEF Before
  <2> QED BY <2>1 DEF Init, RowBudget, InLoops, Budget, SoFar
<1>2. TypeOK /\ RowBudget /\ [Next]_vars => RowBudget'
  <2> SUFFICES ASSUME TypeOK, RowBudget, [Next]_vars PROVE RowBudget'
    OBVIOUS
  <2>1. InLoops'
    BY LoopsStay DEF RowBudget
  <2>2. schema' = schema
    BY StepEffect
  <2>3. validate_schema(schema) => Len(rows') <= Budget'
    BY BudgetStep DEF RowBudget
  <2> QED BY <2>1, <2>2, <2>3 DEF RowBudget
<1>3. TypeOK /\ RowBudget => RowsAreBounded
  BY BudgetIsBound
<1> QED BY <1>1, <1>2, <1>3, TypeCorrect, PTL DEF Spec

-----------------------------------------------------------------------------
(* Concatenations *)

IsConcatenation(f, sets, n) ==
    f = [k \in 0 .. n |->
            IF k = 0 THEN {<< >>} ELSE Table!Joined(f[k - 1], sets[k])]

LEMMA ConcatenationIsDefined ==
    ASSUME NEW sets PROVE \A n \in Nat : \E f : IsConcatenation(f, sets, n)
<1> DEFINE T == {n \in Nat : ~ \E f : IsConcatenation(f, sets, n)}
<1>1. 0 \notin T
  <2>1. IsConcatenation([k \in 0 .. 0 |-> {<< >>}], sets, 0)
    BY DEF IsConcatenation
  <2> QED BY <2>1
<1>2. ASSUME NEW m \in Nat, m \notin T PROVE m + 1 \notin T
  <2>1. PICK f : IsConcatenation(f, sets, m)
    BY <1>2
  <2> DEFINE g == [k \in 0 .. (m + 1) |-> IF k = m + 1 THEN Table!Joined(f[m], sets[m + 1]) ELSE f[k]]
  <2>2. \A k \in 0 .. m : f[k] = IF k = 0 THEN {<< >>} ELSE Table!Joined(f[k - 1], sets[k])
    BY <2>1 DEF IsConcatenation
  <2>3. ASSUME NEW k \in 0 .. (m + 1)
        PROVE  g[k] = IF k = 0 THEN {<< >>} ELSE Table!Joined(g[k - 1], sets[k])
    <3>1. CASE k = 0
      BY <2>2, <3>1
    <3>2. CASE k # 0
      <4>1. k - 1 \in 0 .. (m + 1) /\ g[k - 1] = f[k - 1]
        BY <3>2
      <4> QED BY <2>2, <3>2, <4>1
    <3> QED BY <3>1, <3>2
  <2>4. IsConcatenation(g, sets, m + 1)
    <3>1. g = [k \in 0 .. (m + 1) |-> g[k]]
      OBVIOUS
    <3> HIDE DEF g
    <3> QED BY <2>3, <3>1, Zenon DEF IsConcatenation
  <2> QED BY <2>4
<1> HIDE DEF T
<1>3. T = {}
  BY <1>1, <1>2, NatLeast DEF T
<1> QED BY <1>3 DEF T

LEMMA ConcatenationChosen ==
    ASSUME NEW sets, NEW n \in Nat
    PROVE  \E f : IsConcatenation(f, sets, n) /\ Table!Concatenations(sets, n) = f[n]
<1> DEFINE upTo[k \in 0 .. n] ==
             IF k = 0 THEN {<< >>} ELSE Table!Joined(upTo[k - 1], sets[k])
<1>1. Table!Concatenations(sets, n) = upTo[n]
  BY DEF Table!Concatenations
<1>2. upTo = CHOOSE f : IsConcatenation(f, sets, n)
  BY DEF IsConcatenation
<1> HIDE DEF upTo
<1>3. IsConcatenation(upTo, sets, n)
  BY <1>2, ConcatenationIsDefined
<1> QED BY <1>1, <1>3

LEMMA ConcatenationsAgree ==
    ASSUME NEW sets, NEW n \in Nat, NEW m \in Nat, NEW f, NEW g,
           IsConcatenation(f, sets, n), IsConcatenation(g, sets, m)
    PROVE  \A d \in Nat : d <= n /\ d <= m => f[d] = g[d]
<1> DEFINE T == {d \in Nat : d <= n /\ d <= m /\ f[d] # g[d]}
<1>1. \A k \in 0 .. n : f[k] = IF k = 0 THEN {<< >>} ELSE Table!Joined(f[k - 1], sets[k])
  BY DEF IsConcatenation
<1>2. \A k \in 0 .. m : g[k] = IF k = 0 THEN {<< >>} ELSE Table!Joined(g[k - 1], sets[k])
  BY DEF IsConcatenation
<1>3. 0 \notin T
  BY <1>1, <1>2
<1>4. ASSUME NEW k \in Nat, k \notin T PROVE k + 1 \notin T
  <2> SUFFICES ASSUME k + 1 <= n, k + 1 <= m PROVE f[k + 1] = g[k + 1]
    OBVIOUS
  <2>1. f[k] = g[k]
    BY <1>4
  <2>2. f[k + 1] = Table!Joined(f[k], sets[k + 1])
    BY <1>1
  <2>3. g[k + 1] = Table!Joined(g[k], sets[k + 1])
    BY <1>2
  <2> QED BY <2>1, <2>2, <2>3
<1> HIDE DEF T
<1>5. T = {}
  BY <1>3, <1>4, NatLeast DEF T
<1> QED BY <1>5 DEF T

LEMMA ConcatenationOfNone ==
    ASSUME NEW sets PROVE Table!Concatenations(sets, 0) = {<< >>}
<1>1. PICK f : IsConcatenation(f, sets, 0) /\ Table!Concatenations(sets, 0) = f[0]
  BY ConcatenationChosen
<1>2. 0 \in 0 .. 0
  OBVIOUS
<1> QED BY <1>1, <1>2 DEF IsConcatenation

LEMMA ConcatenationOfNext ==
    ASSUME NEW sets, NEW n \in Nat
    PROVE  Table!Concatenations(sets, n + 1) =
              Table!Joined(Table!Concatenations(sets, n), sets[n + 1])
<1>1. PICK f : IsConcatenation(f, sets, n) /\ Table!Concatenations(sets, n) = f[n]
  BY ConcatenationChosen
<1>2. PICK g : /\ IsConcatenation(g, sets, n + 1)
               /\ Table!Concatenations(sets, n + 1) = g[n + 1]
  BY ConcatenationChosen
<1>3. f[n] = g[n]
  <2>1. \A d \in Nat : d <= n /\ d <= n + 1 => f[d] = g[d]
    BY <1>1, <1>2, ConcatenationsAgree
  <2> QED BY <2>1
<1>4. g[n + 1] = Table!Joined(g[n], sets[n + 1])
  <2>1. n + 1 \in 0 .. (n + 1) /\ n + 1 # 0 /\ (n + 1) - 1 = n
    OBVIOUS
  <2>2. \A k \in 0 .. (n + 1) : g[k] = IF k = 0 THEN {<< >>} ELSE Table!Joined(g[k - 1], sets[k])
    BY <1>2 DEF IsConcatenation
  <2> QED BY <2>1, <2>2
<1> QED BY <1>1, <1>2, <1>3, <1>4

LEMMA ConcatenationsAreSequences ==
    ASSUME NEW S, NEW sets, NEW n \in Nat, \A k \in 1 .. n : sets[k] \subseteq Seq(S)
    PROVE  Table!Concatenations(sets, n) \subseteq Seq(S)
<1> DEFINE T == {k \in Nat : k <= n /\ ~(Table!Concatenations(sets, k) \subseteq Seq(S))}
<1>1. 0 \notin T
  <2>1. << >> \in Seq(S)
    OBVIOUS
  <2> QED BY <2>1, ConcatenationOfNone
<1>2. ASSUME NEW k \in Nat, k \notin T PROVE k + 1 \notin T
  <2> SUFFICES ASSUME k + 1 <= n PROVE Table!Concatenations(sets, k + 1) \subseteq Seq(S)
    OBVIOUS
  <2>1. Table!Concatenations(sets, k) \subseteq Seq(S) /\ sets[k + 1] \subseteq Seq(S)
    BY <1>2
  <2>2. \A x, y \in Seq(S) : x \o y \in Seq(S)
    OBVIOUS
  <2>3. Table!Concatenations(sets, k + 1) =
           Table!Joined(Table!Concatenations(sets, k), sets[k + 1])
    BY ConcatenationOfNext
  <2>4. ASSUME NEW z \in Table!Concatenations(sets, k + 1) PROVE z \in Seq(S)
    <3>1. PICK x \in Table!Concatenations(sets, k), y \in sets[k + 1] : z = x \o y
      BY <2>3 DEF Table!Joined
    <3>2. x \in Seq(S) /\ y \in Seq(S)
      BY <2>1
    <3> QED BY <2>2, <3>1, <3>2
  <2> QED BY <2>4
<1> HIDE DEF T
<1>3. T = {}
  BY <1>1, <1>2, NatLeast DEF T
<1> QED BY <1>3 DEF T

LEMMA JoinedHas ==
    ASSUME NEW S, NEW T, NEW x \in S, NEW y \in T
    PROVE  x \o y \in Table!Joined(S, T)
<1>1. \E p \in S : \E q \in T : x \o y = p \o q
  OBVIOUS
<1> DEFINE z == x \o y
<1> HIDE DEF z
<1>2. \E p \in S : \E q \in T : z = p \o q
  BY <1>1 DEF z
<1>3. z \in Table!Joined(S, T)
  BY <1>2 DEF Table!Joined
<1> QED BY <1>3 DEF z

LEMMA ConcatenationExtends ==
    ASSUME NEW sets, NEW n \in Nat, NEW x \in Table!Concatenations(sets, n),
           NEW y \in sets[n + 1]
    PROVE  x \o y \in Table!Concatenations(sets, n + 1)
<1>1. Table!Concatenations(sets, n + 1) =
         Table!Joined(Table!Concatenations(sets, n), sets[n + 1])
  BY ConcatenationOfNext
<1> QED BY <1>1, JoinedHas

LEMMA Associative ==
    ASSUME NEW S, NEW x \in Seq(S), NEW y \in Seq(S), NEW z \in Seq(S)
    PROVE  (x \o y) \o z = x \o (y \o z)
OBVIOUS

LEMMA EmptyIsNeutral ==
    ASSUME NEW S, NEW x \in Seq(S)
    PROVE  x \o << >> = x /\ << >> \o x = x /\ << >> \in Seq(S)
OBVIOUS

LEMMA JoinedParts ==
    ASSUME NEW S, NEW T, NEW z \in Table!Joined(S, T)
    PROVE  \E x \in S : \E y \in T : z = x \o y
BY DEF Table!Joined

LEMMA JoinedNames ==
    \A S, T : S \subseteq Seq(Name) /\ T \subseteq Seq(Name) =>
                 Table!Joined(S, T) \subseteq Seq(Name)
<1> SUFFICES ASSUME NEW S, NEW T, S \subseteq Seq(Name), T \subseteq Seq(Name),
                    NEW z \in Table!Joined(S, T)
             PROVE  z \in Seq(Name)
  OBVIOUS
<1>1. PICK x \in S, y \in T : z = x \o y
  BY JoinedParts
<1>2. x \in Seq(Name) /\ y \in Seq(Name)
  OBVIOUS
<1> QED BY <1>1, <1>2

-----------------------------------------------------------------------------
(* Names of rows *)

NamesOf(s) == [r \in 1 .. Len(s) |-> s[r].display_name]

LEMMA NamesOfRows ==
    ASSUME NEW s \in Seq(Row), NEW t \in Seq(Row)
    PROVE  /\ NamesOf(s) \in Seq(Name) /\ Len(NamesOf(s)) = Len(s)
           /\ NamesOf(s \o t) = NamesOf(s) \o NamesOf(t)
<1>1. \A row \in Row : row.display_name \in Name
  BY DEF Row
<1>2. \A r \in Seq(Row) : NamesOf(r) \in Seq(Name) /\ Len(NamesOf(r)) = Len(r)
  BY <1>1 DEF NamesOf
<1>3. NamesOf(s \o t) = NamesOf(s) \o NamesOf(t)
  BY <1>2 DEF NamesOf
<1> QED BY <1>2, <1>3

LEMMA NoNames == NamesOf(<< >>) = << >>
BY DEF NamesOf

LEMMA OneName ==
    ASSUME NEW row PROVE NamesOf(<< row >>) = << row.display_name >>
BY DEF NamesOf

LEMMA PushedRows ==
    ASSUME rows' \in Seq(Row), NEW S, NEW new \in Seq(S), rows \in Seq(Row),
           rows' = rows \o new
    PROVE  new \in Seq(Row)
<1>1. ASSUME NEW k \in 1 .. Len(new) PROVE new[k] \in Row
  <2>1. Len(rows) + k \in 1 .. Len(rows') /\ rows'[Len(rows) + k] = new[k]
    OBVIOUS
  <2> QED BY <2>1
<1> QED BY <1>1

(* What a step that pushes one row, or the rows of a failed instance, adds *)
(* to the names.                                                           *)
Adds(names) ==
    \E new \in Seq(Row) : rows' = rows \o new /\ NamesOf(new) = names

LEMMA AddsNothing ==
    ASSUME TypeOK, rows' = rows PROVE Adds(<< >>)
<1>1. rows \in Seq(Row)
  BY DEF TypeOK
<1>2. rows' = rows \o << >> /\ << >> \in Seq(Row)
  BY <1>1
<1> QED BY <1>2, NoNames DEF Adds

LEMMA AddsOne ==
    ASSUME TypeOK, [Next]_vars, NEW row, PushRow(row)
    PROVE  Adds(<< row.display_name >>)
<1>1. rows \in Seq(Row) /\ Context(context)
  BY DEF TypeOK, Context
<1>2. rows' \in Seq(Row)
  BY <1>1, StepEffect, EffectTypes
<1>3. rows' = rows \o << row >> /\ << row >> \in Seq({row})
  BY <1>1 DEF PushRow
<1>4. << row >> \in Seq(Row)
  BY <1>1, <1>2, <1>3, PushedRows
<1> QED BY <1>3, <1>4, OneName DEF Adds

LEMMA AddsInstance ==
    ASSUME TypeOK, [Next]_vars, NEW structure \in StructureDef, NEW name, NEW e,
           PushInstanceError(structure, name, e)
    PROVE  Adds(Table!FailedInstance(name, structure))
<1> DEFINE new == [c \in 1 .. Len(structure.fields) |->
                      UnplacedRow(structure.fields[c],
                                  Member(name, structure.fields[c].name), e)]
<1>1. rows \in Seq(Row) /\ Context(context)
  BY DEF TypeOK, Context
<1>2. rows' \in Seq(Row)
  BY <1>1, StepEffect, EffectTypes
<1>3. Len(structure.fields) \in Nat
  BY DEF StructureDef
<1>4. rows' = rows \o new
  BY DEF PushInstanceError
<1>5. new \in Seq({new[c] : c \in 1 .. Len(structure.fields)})
      /\ Len(new) = Len(structure.fields)
  BY <1>3
<1>6. NamesOf(new) = Table!FailedInstance(name, structure)
  BY <1>5 DEF NamesOf, Table!FailedInstance, UnplacedRow, ErrorRow, Member,
     Table!Member
<1> HIDE DEF new
<1>7. new \in Seq(Row)
  BY <1>1, <1>2, <1>4, <1>5, PushedRows
<1> QED BY <1>4, <1>6, <1>7 DEF Adds

LEMMA RowNames ==
    ASSUME NEW field, NEW name, NEW offset, NEW c, NEW e
    PROVE  /\ RowAt(field, name, offset, c).display_name = name
           /\ UnplacedRow(field, name, e).display_name = name
BY DEF RowAt, interpret_scalar_at, UnplacedRow, ErrorRow

-----------------------------------------------------------------------------
(* The block of the current item, as far as the pass has got               *)

(* The names that the first n turns of a repeat loop give its rows.        *)
NamesOfTurns(def, name, n) == [k \in 1 .. n |-> RepeatName(def, name, k - 1)]

Placed(def, structure, n) ==
    Table!Concatenations(Table!PlacementBlocks(def, structure), n)

(* The first n children of instance i.                                     *)
Children(def, structure, i, n) ==
    Table!Concatenations(Table!ChildBlocks(RepeatName(def, def.name, i), structure), n)

ChildTurnNames(def, structure, i, c, n) ==
    NamesOfTurns(structure.fields[c],
                 Member(RepeatName(def, def.name, i), structure.fields[c].name), n)

EmittedAt(p, def, structure, i, c, k) ==
    CASE p = "field" -> {NamesOfTurns(def, def.name, i)}
      [] p = "instance" -> Placed(def, structure, i)
      [] p = "child" -> Table!Joined(Placed(def, structure, i),
                                     Children(def, structure, i, c - 1))
      [] p = "childRepeat" ->
            Table!Joined(Table!Joined(Placed(def, structure, i),
                                      Children(def, structure, i, c - 1)),
                         {ChildTurnNames(def, structure, i, c, k)})
      [] OTHER -> {<< >>}

Emitted == EmittedAt(pc, This, Structure, index, child, childIndex)

LEMMA NamesOfTurnsGrow ==
    ASSUME NEW def, NEW name \in Name, NEW n \in Nat
    PROVE  /\ NamesOfTurns(def, name, n) \in Seq(Name)
           /\ NamesOfTurns(def, name, 0) = << >>
           /\ NamesOfTurns(def, name, n) \o << RepeatName(def, name, n) >> =
                 NamesOfTurns(def, name, n + 1)
<1>1. \A k \in 1 .. (n + 1) : RepeatName(def, name, k - 1) \in Name
  BY NamesOK
<1>2. NamesOfTurns(def, name, n) \in Seq(Name) /\ Len(NamesOfTurns(def, name, n)) = n
  BY <1>1 DEF NamesOfTurns
<1>3. NamesOfTurns(def, name, 0) = << >>
  BY DEF NamesOfTurns
<1>4. NamesOfTurns(def, name, n) \o << RepeatName(def, name, n) >> =
         NamesOfTurns(def, name, n + 1)
  BY <1>2 DEF NamesOfTurns
<1> QED BY <1>2, <1>3, <1>4

LEMMA ElementsAreTurns ==
    ASSUME NEW def, NEW prefix
    PROVE  Table!Elements(prefix, def) =
              NamesOfTurns(def, Member(prefix, def.name), RepeatCount(def))
<1>1. CASE def.repeat = None
  BY <1>1 DEF Table!Elements, Table!Plain, Table!Member, Table!Indexed,
     NamesOfTurns, RepeatName, RepeatCount, Member, Indexed
<1>2. CASE def.repeat # None
  BY <1>2 DEF Table!Elements, Table!Plain, Table!Member, Table!Indexed,
     NamesOfTurns, RepeatName, RepeatCount, Member, Indexed
<1> QED BY <1>1, <1>2

LEMMA FieldBlockNames ==
    ASSUME NEW prefix \in Name, NEW field \in FieldDef
    PROVE  Table!FieldBlocks(prefix, field) \subseteq Seq(Name)
<1>1. Member(prefix, field.name) \in Name /\ RepeatCount(field) \in Nat
  BY FieldParts, NamesOK, Counts
<1>2. Table!Elements(prefix, field) \in Seq(Name)
  BY <1>1, ElementsAreTurns, NamesOfTurnsGrow
<1>3. << >> \in Seq(Name) /\ << Member(prefix, field.name) >> \in Seq(Name)
  BY <1>1
<1> QED BY <1>2, <1>3 DEF Table!FieldBlocks, Table!Member, Member

LEMMA ChildrenNames ==
    ASSUME NEW prefix \in Name, NEW structure \in StructureDef,
           NEW n \in Nat, n <= Len(structure.fields)
    PROVE  Table!Concatenations(Table!ChildBlocks(prefix, structure), n) \subseteq Seq(Name)
<1> DEFINE sets == Table!ChildBlocks(prefix, structure)
<1>1. structure.fields \in Seq(FieldDef) /\ Len(structure.fields) \in Nat
  BY DEF StructureDef
<1>2. \A c \in 1 .. n : sets[c] \subseteq Seq(Name)
  BY <1>1, FieldBlockNames DEF Table!ChildBlocks
<1> HIDE DEF sets
<1>3. Table!Concatenations(sets, n) \subseteq Seq(Name)
  BY <1>2, ConcatenationsAreSequences
<1> QED BY <1>3 DEF sets

LEMMA FailedNames ==
    ASSUME NEW prefix \in Name, NEW structure \in StructureDef
    PROVE  Table!FailedInstance(prefix, structure) \in Seq(Name)
<1>1. structure.fields \in Seq(FieldDef) /\ Len(structure.fields) \in Nat
  BY DEF StructureDef
<1>2. \A c \in 1 .. Len(structure.fields) :
         Member(prefix, structure.fields[c].name) \in Name
  BY <1>1, FieldParts, NamesOK
<1> QED BY <1>1, <1>2 DEF Table!FailedInstance, Table!Member, Member

LEMMA PlacementBlock ==
    ASSUME NEW def, NEW structure, NEW k \in 1 .. RepeatCount(def)
    PROVE  LET prefix == RepeatName(def, def.name, k - 1)
           IN Table!PlacementBlocks(def, structure)[k] =
                 {Table!FailedInstance(prefix, structure)}
                 \cup Table!PlacedInstance(prefix, structure)
<1>1. Table!RepeatCount(def) = RepeatCount(def)
  BY DEF Table!RepeatCount, RepeatCount
<1>2. CASE def.repeat = None
  BY <1>1, <1>2 DEF Table!PlacementBlocks, Table!Plain, RepeatName
<1>3. CASE def.repeat # None
  BY <1>1, <1>3 DEF Table!PlacementBlocks, Table!Plain, Table!Indexed, Indexed, RepeatName
<1> QED BY <1>2, <1>3

LEMMA PlacedNames ==
    ASSUME NEW def \in StructInstanceDef, NEW structure \in StructureDef,
           NEW n \in Nat, n <= RepeatCount(def)
    PROVE  Placed(def, structure, n) \subseteq Seq(Name)
<1> DEFINE sets == Table!PlacementBlocks(def, structure)
<1>1. Len(structure.fields) \in Nat /\ RepeatCount(def) \in Nat /\ def.name \in Name
  BY InstanceParts, Counts DEF StructureDef
<1>2. ASSUME NEW k \in 1 .. n PROVE sets[k] \subseteq Seq(Name)
  <2> DEFINE prefix == RepeatName(def, def.name, k - 1)
  <2>1. prefix \in Name
    BY <1>1, NamesOK
  <2>2. sets[k] = {Table!FailedInstance(prefix, structure)}
                  \cup Table!PlacedInstance(prefix, structure)
    BY <1>1, PlacementBlock
  <2> HIDE DEF prefix, sets
  <2>3. Table!PlacedInstance(prefix, structure) \subseteq Seq(Name)
    BY <1>1, <2>1, ChildrenNames DEF Table!PlacedInstance
  <2>4. Table!FailedInstance(prefix, structure) \in Seq(Name)
    BY <2>1, FailedNames
  <2> QED BY <2>2, <2>3, <2>4
<1> HIDE DEF sets
<1>3. Table!Concatenations(sets, n) \subseteq Seq(Name)
  BY <1>2, ConcatenationsAreSequences
<1> QED BY <1>3 DEF Placed, sets

-----------------------------------------------------------------------------
(* The blocks an item may end with                                         *)

LEMMA FieldItemBlocks ==
    ASSUME NEW f \in FieldDef
    PROVE  /\ NamesOfTurns(f, f.name, RepeatCount(f)) \in Table!Blocks(f)
           /\ f.when # None => << >> \in Table!Blocks(f) /\ << f.name >> \in Table!Blocks(f)
<1>1. f.tag = "field" /\ f.name \in Name
  BY FieldParts
<1>2. Member(<< >>, f.name) = f.name
  BY <1>1 DEF Member, Name
<1>3. Table!Blocks(f) = Table!FieldBlocks(<< >>, f)
  BY <1>1 DEF Table!Blocks
<1>4. Table!Elements(<< >>, f) = NamesOfTurns(f, f.name, RepeatCount(f))
  BY <1>2, ElementsAreTurns
<1>5. Table!Member(<< >>, f.name) = f.name
  BY <1>2 DEF Table!Member, Member
<1> QED BY <1>3, <1>4, <1>5 DEF Table!FieldBlocks

LEMMA ChildItemBlocks ==
    ASSUME NEW structure \in StructureDef, NEW c \in 1 .. Len(structure.fields),
           NEW prefix
    PROVE  LET f == structure.fields[c]
               name == Member(prefix, f.name)
               blocks == Table!ChildBlocks(prefix, structure)[c]
           IN /\ NamesOfTurns(f, name, RepeatCount(f)) \in blocks
              /\ f.when # None => << >> \in blocks /\ << name >> \in blocks
<1> DEFINE f == structure.fields[c]
<1>1. Table!ChildBlocks(prefix, structure)[c] = Table!FieldBlocks(prefix, f)
  BY DEF Table!ChildBlocks
<1>2. Table!Elements(prefix, f) = NamesOfTurns(f, Member(prefix, f.name), RepeatCount(f))
  BY ElementsAreTurns
<1>3. Table!Member(prefix, f.name) = Member(prefix, f.name)
  BY DEF Table!Member, Member
<1> HIDE DEF f
<1> QED BY <1>1, <1>2, <1>3 DEF Table!FieldBlocks, f

LEMMA InstanceItemBlocks ==
    ASSUME TypeOK, This \in StructInstanceDef
    PROVE  /\ Structure = None => << >> \in Table!Blocks(This)
           /\ Structure # None =>
                 LET failed == Table!FailedInstance(This.name, Structure)
                 IN /\ ~Strided(This) => failed \in Table!Blocks(This)
                    /\ Strided(This) =>
                          Placed(This, Structure, RepeatCount(This)) \subseteq Table!Blocks(This)
                    /\ This.when # None => /\ << >> \in Table!Blocks(This)
                                           /\ failed \in Table!Blocks(This)
<1> DEFINE S == {s \in 1 .. Len(schema.structures) :
                    schema.structures[s].name = This.struct_name}
           first == CHOOSE s \in S : \A t \in S : s <= t
           found == schema.structures[first]
<1>1. This.tag = "instance"
  BY InstanceParts
<1>2. Table!Blocks(This) = Table!InstanceBlocks(This)
  BY <1>1 DEF Table!Blocks
<1>3. Structure = IF S = {} THEN None ELSE found
  BY DEF Structure, find_structure
<1>4. CASE S = {}
  <2>1. Table!InstanceBlocks(This) = {<< >>}
    BY <1>4 DEF Table!InstanceBlocks
  <2> QED BY <1>2, <1>3, <1>4, <2>1
<1>5. CASE S # {}
  <2>1. Structure = found
    BY <1>3, <1>5
  <2>2. Structure # None
    <3>1. PICK s \in 1 .. Len(schema.structures) :
             schema.structures[s].name = This.struct_name
      BY <1>5
    <3>2. PICK t \in 1 .. Len(schema.structures) : Structure = schema.structures[t]
      BY <3>1, NamedStructure DEF Structure
    <3>3. Structure \in StructureDef
      BY <3>2 DEF TypeOK, Schema
    <3> QED BY <3>3, NoneAssumption
  <2> DEFINE failed == Table!FailedInstance(This.name, Structure)
             all == Table!Placements(This, Structure)
  <2>3. Table!InstanceBlocks(This) =
           (IF ~Table!Plain(This) /\ This.repeat.stride = None THEN {failed} ELSE all)
           \cup IF This.when = None THEN {} ELSE {<< >>, failed}
    <3> HIDE DEF failed, all
    <3>1. Table!InstanceBlocks(This) =
             (IF ~Table!Plain(This) /\ This.repeat.stride = None
              THEN {Table!FailedInstance(This.name, found)}
              ELSE Table!Placements(This, found))
             \cup IF This.when = None THEN {}
                  ELSE {<< >>, Table!FailedInstance(This.name, found)}
      BY <1>5 DEF Table!InstanceBlocks
    <3> HIDE DEF found
    <3> QED BY <2>1, <3>1 DEF failed, all
  <2>4. all = Placed(This, Structure, RepeatCount(This))
    BY DEF Table!Placements, Placed, Table!RepeatCount, RepeatCount
  <2>5. ~Table!Plain(This) /\ This.repeat.stride = None <=> ~Strided(This)
    BY DEF Table!Plain, Strided
  <2> HIDE DEF failed, all, found, S, first
  <2> QED BY <1>2, <2>2, <2>3, <2>4, <2>5 DEF failed
<1> QED BY <1>4, <1>5

-----------------------------------------------------------------------------
(* Every step extends the block of its item legally or ends it             *)

Progress(block) ==
    \E names \in Seq(Name) :
       /\ Adds(names)
       /\ \/ item' = item /\ block \o names \in Emitted'
          \/ /\ item <= Len(schema.fields) /\ item' = item + 1 /\ pc' = "item"
             /\ block \o names \in Table!Blocks(This)

LEMMA EmittedNames ==
    ASSUME TypeOK, InLoops PROVE Emitted \subseteq Seq(Name)
<1>1. CASE pc = "field"
  <2>1. This.name \in Name /\ index \in Nat
    BY <1>1, ThisField, FieldParts DEF TypeOK
  <2> QED BY <1>1, <2>1, NamesOfTurnsGrow DEF Emitted, EmittedAt
<1>2. CASE pc \in {"instance", "child", "childRepeat"}
  <2>1. /\ This \in StructInstanceDef /\ Structure \in StructureDef /\ index \in Nat
        /\ child \in Nat \ {0} /\ childIndex \in Nat
    BY <1>2, ThisInstance, FoundStructure DEF TypeOK, Structure
  <2>2. RepeatName(This, This.name, index) \in Name /\ RepeatCount(This) \in Nat
    BY <2>1, InstanceParts, NamesOK, Counts
  <2>3. Placed(This, Structure, index) \subseteq Seq(Name)
    BY <1>2, <2>1, <2>2, PlacedNames DEF InLoops
  <2>4. Len(Structure.fields) \in Nat
    BY <2>1 DEF StructureDef
  <2>5. ASSUME pc \in {"child", "childRepeat"}
        PROVE  Children(This, Structure, index, child - 1) \subseteq Seq(Name)
    <3>1. child - 1 \in Nat /\ child - 1 <= Len(Structure.fields)
      BY <2>1, <2>4, <2>5 DEF InLoops
    <3> QED BY <2>1, <2>2, <3>1, ChildrenNames DEF Children
  <2>6. ASSUME pc = "childRepeat"
        PROVE  ChildTurnNames(This, Structure, index, child, childIndex) \in Seq(Name)
    <3>1. ThisChild \in FieldDef
      BY <2>6, ChildOfStructure DEF TypeOK
    <3>2. Member(RepeatName(This, This.name, index), ThisChild.name) \in Name
      BY <2>2, <3>1, FieldParts, NamesOK
    <3> QED BY <2>1, <3>2, NamesOfTurnsGrow DEF ChildTurnNames, ThisChild
  <2>7. \A S, T : S \subseteq Seq(Name) /\ T \subseteq Seq(Name) =>
                    Table!Joined(S, T) \subseteq Seq(Name)
    BY JoinedNames
  <2>8. CASE pc = "instance"
    BY <2>3, <2>8 DEF Emitted, EmittedAt
  <2>9. CASE pc = "child"
    BY <2>3, <2>5, <2>7, <2>9 DEF Emitted, EmittedAt
  <2>10. CASE pc = "childRepeat"
    <3>1. Table!Joined(Placed(This, Structure, index),
                       Children(This, Structure, index, child - 1)) \subseteq Seq(Name)
      BY <2>3, <2>5, <2>7, <2>10
    <3>2. {ChildTurnNames(This, Structure, index, child, childIndex)} \subseteq Seq(Name)
      BY <2>6, <2>10
    <3> QED BY <2>7, <2>10, <3>1, <3>2 DEF Emitted, EmittedAt
  <2> QED BY <1>2, <2>8, <2>9, <2>10
<1>3. CASE pc \notin {"field", "instance", "child", "childRepeat"}
  <2>1. << >> \in Seq(Name)
    OBVIOUS
  <2> QED BY <1>3, <2>1 DEF Emitted, EmittedAt
<1> QED BY <1>1, <1>2, <1>3

LEMMA StayProgress ==
    ASSUME TypeOK, [Next]_vars, item' = item, NEW block, NEW names \in Seq(Name),
           Adds(names),
           block \o names \in EmittedAt(pc', This, Structure, index', child', childIndex')
    PROVE  Progress(block)
<1>1. schema' = schema
  BY StepEffect
<1>2. This' = This /\ Structure' = Structure
  BY <1>1 DEF This, Structure, find_structure
<1>3. Emitted' = EmittedAt(pc', This', Structure', index', child', childIndex')
  BY DEF Emitted
<1> QED BY <1>2, <1>3 DEF Progress

LEMMA LeaveProgress ==
    ASSUME LeaveItem, item <= Len(schema.fields), NEW block, NEW names \in Seq(Name),
           Adds(names), block \o names \in Table!Blocks(This)
    PROVE  Progress(block)
BY DEF Progress, LeaveItem

LEMMA FieldProgress ==
    ASSUME TypeOK, InLoops, [Next]_vars, NEW block \in Emitted,
           EnterField \/ SkipField \/ RejectField \/ RepeatField \/ EndField
    PROVE  Progress(block)
<1>1. /\ item <= Len(schema.fields) /\ This \in FieldDef /\ This.name \in Name
      /\ index \in Nat
  BY ThisField, FieldParts DEF EnterField, SkipField, RejectField, RepeatField, EndField,
     AtItem, TypeOK
<1>2. block \in Seq(Name) /\ << >> \in Seq(Name)
  BY EmittedNames, EmptyIsNeutral
<1>3. pc = "item" => block = << >>
  BY DEF Emitted, EmittedAt
<1>4. ~Gate(This, context).ok \/ Gate(This, context) = Ok(FALSE) => This.when # None
  BY DEF Gate, Ok
<1>5. CASE EnterField
  <2>1. /\ pc = "item" /\ pc' = "field" /\ index' = 0 /\ item' = item /\ rows' = rows
    BY <1>5 DEF EnterField, AtItem, EnterRepeats
  <2>2. NamesOfTurns(This, This.name, 0) = << >>
    BY <1>1, NamesOfTurnsGrow
  <2>3. Adds(<< >>)
    BY <2>1, AddsNothing
  <2>4. block \o << >> = << >>
    BY <1>2, <1>3, <2>1
  <2> QED BY <1>2, <2>1, <2>2, <2>3, <2>4, StayProgress DEF EmittedAt
<1>6. CASE SkipField
  <2>1. /\ pc = "item" /\ LeaveItem /\ rows' = rows /\ This.when # None
    BY <1>4, <1>6 DEF SkipField, AtItem
  <2>2. Adds(<< >>) /\ block \o << >> = << >>
    BY <1>2, <1>3, <2>1, AddsNothing
  <2> QED BY <1>1, <1>2, <2>1, <2>2, FieldItemBlocks, LeaveProgress
<1>7. CASE RejectField
  <2> DEFINE row == UnplacedRow(This, This.name, Gate(This, context).err)
  <2>1. /\ pc = "item" /\ LeaveItem /\ PushRow(row) /\ This.when # None
    BY <1>4, <1>7 DEF RejectField, AtItem
  <2>2. row.display_name = This.name
    BY RowNames
  <2> HIDE DEF row
  <2>3. Adds(<< This.name >>)
    BY <2>1, <2>2, AddsOne
  <2>4. << This.name >> \in Seq(Name) /\ block \o << This.name >> = << This.name >>
    BY <1>1, <1>3, <2>1
  <2> QED BY <1>1, <2>1, <2>3, <2>4, FieldItemBlocks, LeaveProgress
<1>8. CASE RepeatField
  <2> DEFINE name == RepeatName(This, This.name, index)
             row == RowAt(This, name, resolve_repeated_offset(This, index, context), context)
  <2>1. /\ pc = "field" /\ pc' = "field" /\ PushRow(row) /\ index' = index + 1
        /\ item' = item
    BY <1>8 DEF RepeatField
  <2>2. row.display_name = name
    BY RowNames
  <2>3. name \in Name
    BY <1>1, NamesOK
  <2> HIDE DEF row
  <2>4. Adds(<< name >>)
    BY <2>1, <2>2, AddsOne
  <2>5. block = NamesOfTurns(This, This.name, index)
    BY <2>1 DEF Emitted, EmittedAt
  <2>6. block \o << name >> = NamesOfTurns(This, This.name, index + 1)
    BY <1>1, <2>5, NamesOfTurnsGrow
  <2>7. << name >> \in Seq(Name)
    BY <2>3
  <2> HIDE DEF name
  <2>8. block \o << name >> \in EmittedAt(pc', This, Structure, index', child', childIndex')
    BY <2>1, <2>6 DEF EmittedAt
  <2> QED BY <2>1, <2>4, <2>7, <2>8, StayProgress
<1>9. CASE EndField
  <2>1. /\ pc = "field" /\ index = RepeatCount(This) /\ LeaveItem /\ rows' = rows
    BY <1>9 DEF EndField
  <2>2. Adds(<< >>) /\ block \o << >> = block
    BY <1>2, <2>1, AddsNothing, EmptyIsNeutral
  <2>3. block = NamesOfTurns(This, This.name, RepeatCount(This))
    BY <2>1 DEF Emitted, EmittedAt
  <2>4. block \o << >> \in Table!Blocks(This)
    BY <1>1, <2>2, <2>3, FieldItemBlocks
  <2> QED BY <1>1, <1>2, <2>1, <2>2, <2>4, LeaveProgress
<1> QED BY <1>5, <1>6, <1>7, <1>8, <1>9

LEMMA InstanceItemProgress ==
    ASSUME TypeOK, InLoops, [Next]_vars, NEW block \in Emitted,
           SkipUnknownStructure \/ SkipInstance \/ RejectInstance \/ RejectUnstrided
           \/ EnterInstance
    PROVE  Progress(block)
<1>1. /\ pc = "item" /\ item <= Len(schema.fields) /\ This \in StructInstanceDef
      /\ This.name \in Name
  BY ThisInstance, InstanceParts DEF SkipUnknownStructure, SkipInstance, RejectInstance,
     RejectUnstrided, EnterInstance, AtItem
<1>2. block = << >> /\ << >> \in Seq(Name)
  BY <1>1, EmptyIsNeutral DEF Emitted, EmittedAt
<1>3. ~Gate(This, context).ok \/ Gate(This, context) = Ok(FALSE) => This.when # None
  BY DEF Gate, Ok
<1>4. Structure # None => Structure \in StructureDef
  BY FoundStructure DEF TypeOK, Structure
<1>5. ASSUME rows' = rows PROVE Adds(<< >>) /\ block \o << >> = << >>
  BY <1>2, <1>5, AddsNothing
<1>6. CASE SkipUnknownStructure
  <2>1. LeaveItem /\ rows' = rows /\ Structure = None
    BY <1>6 DEF SkipUnknownStructure
  <2> QED BY <1>1, <1>2, <1>5, <2>1, InstanceItemBlocks, LeaveProgress
<1>7. CASE SkipInstance
  <2>1. LeaveItem /\ rows' = rows /\ Structure # None /\ This.when # None
    BY <1>3, <1>7 DEF SkipInstance
  <2>2. << >> \in Table!Blocks(This)
    BY <1>1, <2>1, InstanceItemBlocks
  <2> QED BY <1>1, <1>2, <1>5, <2>1, <2>2, LeaveProgress
<1>8. CASE RejectInstance \/ RejectUnstrided
  <2> DEFINE failed == Table!FailedInstance(This.name, Structure)
  <2>1. LeaveItem /\ Structure # None
    BY <1>8 DEF RejectInstance, RejectUnstrided
  <2>2. PICK e : PushInstanceError(Structure, This.name, e)
    BY <1>8 DEF RejectInstance, RejectUnstrided
  <2>3. Adds(failed)
    BY <1>4, <2>1, <2>2, AddsInstance
  <2>4. failed \in Seq(Name)
    BY <1>1, <1>4, <2>1, FailedNames
  <2>5. failed \in Table!Blocks(This)
    BY <1>1, <1>3, <1>8, <2>1, InstanceItemBlocks DEF RejectInstance, RejectUnstrided
  <2> HIDE DEF failed
  <2>6. block \o failed = failed
    BY <1>2, <2>4
  <2> QED BY <1>1, <2>1, <2>3, <2>4, <2>5, <2>6, LeaveProgress
<1>9. CASE EnterInstance
  <2>1. pc' = "instance" /\ index' = 0 /\ item' = item /\ rows' = rows
    BY <1>9 DEF EnterInstance, EnterRepeats
  <2>2. Placed(This, Structure, 0) = {<< >>}
    BY ConcatenationOfNone DEF Placed
  <2>3. block \o << >> \in EmittedAt(pc', This, Structure, index', child', childIndex')
    BY <1>5, <2>1, <2>2 DEF EmittedAt
  <2> QED BY <1>2, <1>5, <2>1, <2>3, StayProgress
<1> QED BY <1>6, <1>7, <1>8, <1>9

LEMMA InstanceProgress ==
    ASSUME TypeOK, InLoops, [Next]_vars, NEW block \in Emitted,
           PlaceInstance \/ RejectPlacement \/ EndInstances
    PROVE  Progress(block)
<1>1. /\ pc = "instance" /\ item <= Len(schema.fields) /\ This \in StructInstanceDef
      /\ This.name \in Name /\ Structure # None /\ Structure \in StructureDef
      /\ Strided(This) /\ index \in Nat
  BY ThisInstance, InstanceParts, FoundStructure
     DEF PlaceInstance, RejectPlacement, EndInstances, TypeOK, Structure
<1>2. block \in Seq(Name) /\ << >> \in Seq(Name)
  BY EmittedNames, EmptyIsNeutral
<1>3. block \in Placed(This, Structure, index)
  BY <1>1 DEF Emitted, EmittedAt
<1>4. ASSUME rows' = rows PROVE Adds(<< >>) /\ block \o << >> = block
  BY <1>2, <1>4, AddsNothing, EmptyIsNeutral
<1>5. CASE PlaceInstance
  <2>1. /\ pc' = "child" /\ child' = 1 /\ index' = index /\ item' = item /\ rows' = rows
    BY <1>5 DEF PlaceInstance
  <2>2. << >> \in Children(This, Structure, index, 1 - 1)
    BY ConcatenationOfNone DEF Children
  <2>3. block \o << >> \in Table!Joined(Placed(This, Structure, index),
                                        Children(This, Structure, index, 1 - 1))
    BY <1>3, <2>2, JoinedHas
  <2>4. block \o << >> \in EmittedAt(pc', This, Structure, index', child', childIndex')
    BY <2>1, <2>3 DEF EmittedAt
  <2> QED BY <1>2, <1>4, <2>1, <2>4, StayProgress
<1>6. CASE RejectPlacement
  <2> DEFINE failed == Table!FailedInstance(InstanceName, Structure)
             sets == Table!PlacementBlocks(This, Structure)
  <2>1. /\ pc' = "instance" /\ index' = index + 1 /\ item' = item
        /\ index < RepeatCount(This)
        /\ PushInstanceError(Structure, InstanceName, InstanceOffset.err)
    BY <1>6 DEF RejectPlacement
  <2>2. Adds(failed)
    BY <1>1, <2>1, AddsInstance
  <2>3. InstanceName \in Name /\ RepeatCount(This) \in Nat
    BY <1>1, InstanceParts, NamesOK, Counts DEF InstanceName
  <2>4. failed \in Seq(Name)
    BY <1>1, <2>3, FailedNames
  <2>5. failed \in sets[index + 1]
    <3>1. index + 1 \in 1 .. RepeatCount(This) /\ (index + 1) - 1 = index
      BY <1>1, <2>1, <2>3
    <3> QED BY <3>1, PlacementBlock DEF InstanceName
  <2> HIDE DEF failed, sets
  <2>6. block \o failed \in Table!Concatenations(sets, index + 1)
    BY <1>1, <1>3, <2>5, ConcatenationExtends DEF Placed, sets
  <2>7. block \o failed \in EmittedAt(pc', This, Structure, index', child', childIndex')
    BY <2>1, <2>6 DEF EmittedAt, Placed, sets
  <2> QED BY <2>1, <2>2, <2>4, <2>7, StayProgress
<1>7. CASE EndInstances
  <2>1. index = RepeatCount(This) /\ LeaveItem /\ rows' = rows
    BY <1>7 DEF EndInstances
  <2>2. block \in Table!Blocks(This)
    BY <1>1, <1>3, <2>1, InstanceItemBlocks
  <2> QED BY <1>1, <1>2, <1>4, <2>1, <2>2, LeaveProgress
<1> QED BY <1>5, <1>6, <1>7

LEMMA ChildProgress ==
    ASSUME TypeOK, InLoops, [Next]_vars, NEW block \in Emitted,
           EnterChild \/ SkipChild \/ RejectChild \/ EndInstance
    PROVE  Progress(block)
<1> DEFINE placed == Placed(This, Structure, index)
           before == Children(This, Structure, index, child - 1)
           sets == Table!ChildBlocks(InstanceName, Structure)
<1>1. /\ pc = "child" /\ item <= Len(schema.fields) /\ This \in StructInstanceDef
      /\ Structure # None /\ Structure \in StructureDef
      /\ index \in Nat /\ child \in Nat \ {0} /\ index < RepeatCount(This)
      /\ RepeatCount(This) \in Nat /\ InstanceName \in Name
  <2>1. pc = "child"
    BY DEF EnterChild, SkipChild, RejectChild, EndInstance, AtChild
  <2>2. /\ item <= Len(schema.fields) /\ This \in StructInstanceDef
        /\ Structure # None /\ Structure \in StructureDef
        /\ index \in Nat /\ child \in Nat \ {0}
    BY <2>1, ThisInstance, FoundStructure DEF TypeOK, Structure
  <2> QED BY <2>1, <2>2, InstanceParts, NamesOK, Counts DEF InLoops, InstanceName
<1>2. block \in Seq(Name) /\ << >> \in Seq(Name) /\ block \o << >> = block
  BY EmittedNames, EmptyIsNeutral
<1>3. PICK x \in placed, y \in before : block = x \o y
  <2>1. block \in Table!Joined(placed, before)
    BY <1>1 DEF Emitted, EmittedAt
  <2> HIDE DEF placed, before
  <2> QED BY <2>1, JoinedParts
<1>4. x \in Seq(Name) /\ y \in Seq(Name)
  <2>1. child - 1 \in Nat /\ child - 1 <= Len(Structure.fields)
    BY <1>1 DEF InLoops, StructureDef
  <2>2. placed \subseteq Seq(Name)
    BY <1>1, PlacedNames
  <2>3. before \subseteq Seq(Name)
    BY <1>1, <2>1, ChildrenNames DEF Children, InstanceName
  <2> QED BY <2>2, <2>3
<1>5. ASSUME rows' = rows PROVE Adds(<< >>)
  BY <1>5, AddsNothing
<1>6. before = Table!Concatenations(sets, child - 1)
  BY DEF Children, InstanceName
<1>7. ASSUME AtChild, NEW names \in sets[child]
      PROVE  y \o names \in Children(This, Structure, index, (child + 1) - 1)
  <2>1. child - 1 \in Nat /\ (child - 1) + 1 = child /\ (child + 1) - 1 = child
    BY <1>1
  <2>2. y \in Table!Concatenations(sets, child - 1)
    BY <1>6
  <2> HIDE DEF sets, before, placed
  <2>3. y \o names \in Table!Concatenations(sets, child)
    BY <1>7, <2>1, <2>2, ConcatenationExtends
  <2> QED BY <2>1, <2>3 DEF Children, InstanceName, sets
<1>8. ASSUME AtChild, NEW names \in Seq(Name), names \in sets[child], Adds(names),
             UNCHANGED <<item, index>>, pc' = "child", child' = child + 1
      PROVE  Progress(block)
  <2>1. y \o names \in Children(This, Structure, index, (child + 1) - 1)
    BY <1>7, <1>8
  <2>2. block \o names = x \o (y \o names)
    BY <1>3, <1>4, <1>8, Associative
  <2> HIDE DEF sets, before
  <2>3. block \o names \in Table!Joined(placed,
                               Children(This, Structure, index, (child + 1) - 1))
    <3> HIDE DEF placed
    <3> QED BY <1>3, <2>1, <2>2, JoinedHas
  <2>4. block \o names \in EmittedAt(pc', This, Structure, index', child', childIndex')
    BY <1>8, <2>3 DEF EmittedAt
  <2> HIDE DEF placed
  <2> QED BY <1>8, <2>4, StayProgress
<1>9. ASSUME AtChild
      PROVE  /\ ChildName \in Name
             /\ ThisChild.when # None =>
                   << >> \in sets[child] /\ << ChildName >> \in sets[child]
  <2>1. child \in 1 .. Len(Structure.fields)
    BY <1>1, <1>9 DEF AtChild, StructureDef
  <2>2. ChildName \in Name
    <3>1. ThisChild \in FieldDef
      BY <1>1, <1>9, ChildOfStructure DEF AtChild
    <3> QED BY <1>1, <3>1, FieldParts, NamesOK DEF ChildName
  <2> HIDE DEF before, placed
  <2> QED BY <1>1, <2>1, <2>2, ChildItemBlocks DEF ChildName, ThisChild
<1>10. ~Gate(ThisChild, context).ok \/ Gate(ThisChild, context) = Ok(FALSE)
          => ThisChild.when # None
  BY DEF Gate, Ok
<1> HIDE DEF sets, before
<1>11. CASE EnterChild
  <2> DEFINE name == Member(RepeatName(This, This.name, index), ThisChild.name)
  <2>1. /\ AtChild /\ UNCHANGED <<item, index, child>> /\ rows' = rows
        /\ pc' = "childRepeat" /\ childIndex' = 0
    BY <1>11 DEF EnterChild
  <2>2. ChildTurnNames(This, Structure, index, child, 0) = << >>
    <3>1. name = ChildName
      BY DEF ChildName, InstanceName
    <3> HIDE DEF name
    <3>2. NamesOfTurns(ThisChild, name, 0) = << >>
      BY <1>9, <2>1, <3>1, NamesOfTurnsGrow
    <3> QED BY <3>2 DEF ChildTurnNames, ThisChild, name
  <2>3. block \o << >> \in Table!Joined(Table!Joined(placed, before), {<< >>})
    <3>1. block \in Table!Joined(placed, before)
      <4> HIDE DEF placed
      <4> QED BY <1>3, JoinedHas
    <3> QED BY <3>1, JoinedHas
  <2>4. block \o << >> \in EmittedAt(pc', This, Structure, index', child', childIndex')
    BY <2>1, <2>2, <2>3 DEF EmittedAt, before
  <2> HIDE DEF placed
  <2> QED BY <1>2, <1>5, <2>1, <2>4, StayProgress
<1>12. CASE SkipChild
  <2>1. /\ AtChild /\ UNCHANGED <<item, index>> /\ rows' = rows
        /\ pc' = "child" /\ child' = child + 1 /\ ThisChild.when # None
    BY <1>10, <1>12 DEF SkipChild, AtChild
  <2>2. << >> \in sets[child]
    BY <1>9, <2>1
  <2> QED BY <1>2, <1>5, <1>8, <2>1, <2>2
<1>13. CASE RejectChild
  <2> DEFINE row == UnplacedRow(ThisChild, ChildName, Gate(ThisChild, context).err)
  <2>1. /\ AtChild /\ UNCHANGED <<item, index>> /\ PushRow(row)
        /\ pc' = "child" /\ child' = child + 1 /\ ThisChild.when # None
    BY <1>10, <1>13 DEF RejectChild, AtChild
  <2>2. row.display_name = ChildName
    BY RowNames
  <2> HIDE DEF row
  <2>3. Adds(<< ChildName >>)
    BY <2>1, <2>2, AddsOne
  <2>4. << ChildName >> \in sets[child] /\ << ChildName >> \in Seq(Name)
    BY <1>9, <2>1
  <2> QED BY <1>8, <2>1, <2>3, <2>4
<1>14. CASE EndInstance
  <2> DEFINE blocks == Table!PlacementBlocks(This, Structure)
             count == Len(Structure.fields)
  <2>1. /\ UNCHANGED item /\ rows' = rows /\ pc' = "instance" /\ index' = index + 1
        /\ child > count
    BY <1>14 DEF EndInstance
  <2>2. child - 1 = count
    BY <1>1, <2>1 DEF InLoops, StructureDef
  <2>3. y \in Table!PlacedInstance(InstanceName, Structure)
    BY <1>3, <1>6, <2>2 DEF Table!PlacedInstance, sets
  <2>4. y \in blocks[index + 1]
    <3>1. index + 1 \in 1 .. RepeatCount(This) /\ (index + 1) - 1 = index
      BY <1>1
    <3> QED BY <2>3, <3>1, PlacementBlock DEF InstanceName
  <2> HIDE DEF blocks
  <2>5. x \o y \in Table!Concatenations(blocks, index + 1)
    BY <1>1, <1>3, <2>4, ConcatenationExtends DEF Placed, blocks
  <2>6. block \o << >> \in EmittedAt(pc', This, Structure, index', child', childIndex')
    BY <1>2, <1>3, <2>1, <2>5 DEF EmittedAt, Placed, blocks
  <2> HIDE DEF placed
  <2> QED BY <1>2, <1>5, <2>1, <2>6, StayProgress
<1> QED BY <1>11, <1>12, <1>13, <1>14

LEMMA ChildTurnProgress ==
    ASSUME TypeOK, InLoops, [Next]_vars, NEW block \in Emitted, RepeatChild \/ EndChild
    PROVE  Progress(block)
<1> DEFINE placed == Placed(This, Structure, index)
           before == Children(This, Structure, index, child - 1)
           sets == Table!ChildBlocks(InstanceName, Structure)
           turns == ChildTurnNames(This, Structure, index, child, childIndex)
<1>1. /\ pc = "childRepeat" /\ item <= Len(schema.fields) /\ This \in StructInstanceDef
      /\ Structure # None /\ Structure \in StructureDef
      /\ index \in Nat /\ child \in Nat \ {0} /\ childIndex \in Nat
      /\ index < RepeatCount(This) /\ child \in 1 .. Len(Structure.fields)
      /\ RepeatCount(This) \in Nat /\ InstanceName \in Name /\ ThisChild \in FieldDef
      /\ RepeatCount(ThisChild) \in Nat /\ ChildName \in Name
  <2>1. pc = "childRepeat"
    BY DEF RepeatChild, EndChild
  <2>2. /\ item <= Len(schema.fields) /\ This \in StructInstanceDef
        /\ Structure # None /\ Structure \in StructureDef
        /\ index \in Nat /\ child \in Nat \ {0} /\ childIndex \in Nat
    BY <2>1, ThisInstance, FoundStructure DEF TypeOK, Structure
  <2>3. child \in 1 .. Len(Structure.fields) /\ ThisChild \in FieldDef
    BY <2>1, <2>2, ChildOfStructure DEF TypeOK, StructureDef
  <2>4. RepeatCount(This) \in Nat /\ InstanceName \in Name
    BY <2>2, InstanceParts, NamesOK, Counts DEF InstanceName
  <2>5. RepeatCount(ThisChild) \in Nat /\ ChildName \in Name
    BY <2>3, <2>4, FieldParts, NamesOK, Counts DEF ChildName
  <2> QED BY <2>1, <2>2, <2>3, <2>4, <2>5 DEF InLoops
<1>2. block \in Seq(Name) /\ << >> \in Seq(Name) /\ block \o << >> = block
  BY EmittedNames, EmptyIsNeutral
<1>3. turns = NamesOfTurns(ThisChild, ChildName, childIndex)
  BY DEF ChildTurnNames, ThisChild, ChildName, InstanceName
<1>4. PICK z \in Table!Joined(placed, before) : block = z \o turns
  <2>1. block \in Table!Joined(Table!Joined(placed, before), {turns})
    BY <1>1 DEF Emitted, EmittedAt
  <2> HIDE DEF placed, before, turns
  <2>2. PICK z \in Table!Joined(placed, before), t \in {turns} : block = z \o t
    BY <2>1, JoinedParts
  <2> QED BY <2>2
<1>5. PICK x \in placed, y \in before : z = x \o y
  <2> HIDE DEF placed, before
  <2> QED BY <1>4, JoinedParts
<1>6. x \in Seq(Name) /\ y \in Seq(Name) /\ z \in Seq(Name)
  <2>1. child - 1 \in Nat /\ child - 1 <= Len(Structure.fields)
    BY <1>1 DEF StructureDef
  <2>2. placed \subseteq Seq(Name)
    BY <1>1, PlacedNames
  <2>3. before \subseteq Seq(Name)
    BY <1>1, <2>1, ChildrenNames DEF Children, InstanceName
  <2>4. x \in Seq(Name) /\ y \in Seq(Name)
    BY <2>2, <2>3
  <2> QED BY <1>5, <2>4
<1>7. turns \in Seq(Name)
  <2> HIDE DEF turns
  <2> QED BY <1>1, <1>3, NamesOfTurnsGrow
<1> HIDE DEF turns
<1>8. CASE RepeatChild
  <2> DEFINE name == RepeatName(ThisChild, ChildName, childIndex)
             row == RowAt(ThisChild, name,
                          resolve_struct_child_offset(base, ThisChild, childIndex), context)
  <2>1. /\ PushRow(row) /\ UNCHANGED <<item, index, child>> /\ pc' = "childRepeat"
        /\ childIndex' = childIndex + 1
    BY <1>8 DEF RepeatChild
  <2>2. row.display_name = name /\ name \in Name
    BY <1>1, RowNames, NamesOK
  <2> HIDE DEF row
  <2>3. Adds(<< name >>)
    BY <2>1, <2>2, AddsOne
  <2>4. turns \o << name >> = ChildTurnNames(This, Structure, index, child, childIndex + 1)
    <3>1. turns \o << name >> = NamesOfTurns(ThisChild, ChildName, childIndex + 1)
      BY <1>1, <1>3, NamesOfTurnsGrow
    <3> QED BY <3>1 DEF ChildTurnNames, ThisChild, ChildName, InstanceName
  <2>5. << name >> \in Seq(Name)
    BY <2>2
  <2> HIDE DEF name
  <2>6. block \o << name >> = z \o (turns \o << name >>)
    BY <1>4, <1>6, <1>7, <2>5, Associative
  <2>7. block \o << name >> \in Table!Joined(Table!Joined(placed, before),
                  {ChildTurnNames(This, Structure, index, child, childIndex + 1)})
    <3> HIDE DEF placed, before
    <3> QED BY <1>4, <2>4, <2>6, JoinedHas
  <2>8. block \o << name >> \in EmittedAt(pc', This, Structure, index', child', childIndex')
    BY <2>1, <2>7 DEF EmittedAt
  <2> HIDE DEF placed, before
  <2> QED BY <2>1, <2>3, <2>5, <2>8, StayProgress
<1>9. CASE EndChild
  <2>1. /\ rows' = rows /\ UNCHANGED <<item, index>> /\ pc' = "child"
        /\ child' = child + 1 /\ childIndex = RepeatCount(ThisChild)
    BY <1>9 DEF EndChild
  <2>2. turns \in sets[child]
    <3> HIDE DEF placed, before
    <3> QED BY <1>1, <1>3, <2>1, ChildItemBlocks DEF ChildName, ThisChild
  <2>3. y \o turns \in Children(This, Structure, index, (child + 1) - 1)
    <3>1. child - 1 \in Nat /\ (child - 1) + 1 = child /\ (child + 1) - 1 = child
      BY <1>1
    <3>2. y \in Table!Concatenations(sets, child - 1)
      BY DEF Children, InstanceName
    <3> HIDE DEF sets, before, placed
    <3>3. y \o turns \in Table!Concatenations(sets, child)
      BY <2>2, <3>1, <3>2, ConcatenationExtends
    <3> QED BY <3>1, <3>3 DEF Children, InstanceName, sets
  <2>4. block = x \o (y \o turns)
    BY <1>4, <1>5, <1>6, <1>7, Associative
  <2>5. block \o << >> \in Table!Joined(placed,
                              Children(This, Structure, index, (child + 1) - 1))
    <3> HIDE DEF placed, before, sets
    <3> QED BY <1>2, <1>5, <2>3, <2>4, JoinedHas
  <2>6. block \o << >> \in EmittedAt(pc', This, Structure, index', child', childIndex')
    BY <2>1, <2>5 DEF EmittedAt
  <2>7. Adds(<< >>)
    BY <2>1, AddsNothing
  <2> HIDE DEF placed, before, sets
  <2> QED BY <1>2, <2>1, <2>6, <2>7, StayProgress
<1> QED BY <1>8, <1>9

LEMMA StepProgress ==
    ASSUME TypeOK, InLoops, Next, NEW block \in Emitted PROVE Progress(block)
<1>1. CASE Return \/ Done
  <2>1. /\ pc \in {"item", "done"} /\ pc' = "done" /\ item' = item /\ rows' = rows
    BY <1>1 DEF Return, Done, vars
  <2>2. block = << >> /\ << >> \in Seq(Name)
    BY <2>1, EmptyIsNeutral DEF Emitted, EmittedAt
  <2>3. Adds(<< >>) /\ block \o << >> = << >>
    BY <2>1, <2>2, AddsNothing, EmptyIsNeutral
  <2>4. block \o << >> \in EmittedAt(pc', This, Structure, index', child', childIndex')
    BY <2>1, <2>3 DEF EmittedAt
  <2> QED BY <2>1, <2>2, <2>3, <2>4, StayProgress
<1> QED BY <1>1, FieldProgress, InstanceItemProgress, InstanceProgress, ChildProgress,
           ChildTurnProgress DEF Next

-----------------------------------------------------------------------------
(* The refinement                                                          *)

(* The rows since the current item was reached are as much of one of its   *)
(* blocks as the pass has emitted.                                         *)
BlocksInv ==
    /\ InLoops
    /\ mark \in Nat /\ mark <= Len(rows)
    /\ \E block \in Emitted : NamesOf(rows) = Names(mark) \o block

LEMMA MarkedNames ==
    ASSUME TypeOK, mark \in Nat, mark <= Len(rows) PROVE Names(mark) \in Seq(Name)
<1>1. rows \in Seq(Row)
  BY DEF TypeOK
<1>2. \A row \in Row : row.display_name \in Name
  BY DEF Row
<1>3. \A r \in 1 .. Len(rows) : rows[r].display_name \in Name
  BY <1>1, <1>2
<1> QED BY <1>1, <1>3 DEF Names

LEMMA BlocksStep ==
    ASSUME TypeOK, BlocksInv, BlocksNext
    PROVE  BlocksInv' /\ [Table!Emit]_<<schema, item, Names(mark)>>
<1>1. InLoops' /\ schema' = schema
  BY LoopsStay, StepEffect DEF BlocksInv, BlocksNext
<1>2. PICK block \in Emitted : NamesOf(rows) = Names(mark) \o block
  BY DEF BlocksInv
<1>3. block \in Seq(Name) /\ Names(mark) \in Seq(Name) /\ rows \in Seq(Row)
  BY EmittedNames, MarkedNames DEF BlocksInv, TypeOK
<1>4. PICK names \in Seq(Name) :
         /\ Adds(names)
         /\ \/ item' = item /\ block \o names \in Emitted'
            \/ /\ item <= Len(schema.fields) /\ item' = item + 1 /\ pc' = "item"
               /\ block \o names \in Table!Blocks(This)
  BY StepProgress DEF Progress, BlocksInv, BlocksNext
<1>5. PICK new \in Seq(Row) : rows' = rows \o new /\ NamesOf(new) = names
  BY <1>4 DEF Adds
<1>6. NamesOf(rows') = Names(mark) \o (block \o names)
  <2>1. NamesOf(rows') = NamesOf(rows) \o names
    BY <1>3, <1>5, NamesOfRows
  <2>2. NamesOf(rows) \o names = Names(mark) \o (block \o names)
    <3>1. (Names(mark) \o block) \o names = Names(mark) \o (block \o names)
      BY <1>3, Associative
    <3> QED BY <1>2, <3>1, Zenon
  <2> QED BY <2>1, <2>2, Zenon
<1>7. /\ mark \in Nat /\ mark <= Len(rows) /\ Len(rows') \in Nat
      /\ Len(rows) <= Len(rows') /\ \A r \in 1 .. mark : rows'[r] = rows[r]
  BY <1>3, <1>5 DEF BlocksInv
<1>8. item \in Nat
  BY DEF TypeOK, Schema
<1>9. CASE item' = item
  <2>1. mark' = mark
    BY <1>9 DEF BlocksNext
  <2>2. Names(mark)' = Names(mark)
    BY <1>7, <2>1 DEF Names
  <2>3. block \o names \in Emitted'
    BY <1>4, <1>8, <1>9
  <2>4. \E b \in Emitted' : NamesOf(rows') = Names(mark)' \o b
    BY <1>6, <2>2, <2>3
  <2>5. BlocksInv'
    BY <1>1, <1>7, <2>1, <2>4 DEF BlocksInv, NamesOf
  <2> QED BY <1>1, <1>9, <2>2, <2>5
<1>10. CASE item' # item
  <2>1. mark' = Len(rows') /\ item <= Len(schema.fields) /\ item' = item + 1
        /\ pc' = "item" /\ block \o names \in Table!Blocks(This)
    BY <1>4, <1>10 DEF BlocksNext
  <2>2. Names(mark)' = NamesOf(rows')
    BY <2>1 DEF Names, NamesOf
  <2>3. Table!Emit
    BY <1>1, <1>6, <2>1, <2>2 DEF Table!Emit, This
  <2>4. << >> \in Emitted'
    BY <2>1 DEF Emitted, EmittedAt
  <2>5. NamesOf(rows') \in Seq(Name)
    <3>1. rows' \in Seq(Row)
      BY <1>3, <1>5
    <3> QED BY <3>1, NamesOfRows
  <2>6. NamesOf(rows') = Names(mark)' \o << >>
    BY <2>2, <2>5, EmptyIsNeutral
  <2>7. NamesOf(rows)' = NamesOf(rows')
    BY DEF NamesOf
  <2>8. \E b \in Emitted' : NamesOf(rows)' = Names(mark)' \o b
    BY <2>4, <2>6, <2>7
  <2>9. mark' \in Nat /\ mark' <= Len(rows)'
    BY <1>7, <2>1
  <2>10. BlocksInv'
    BY <1>1, <2>8, <2>9 DEF BlocksInv
  <2> QED BY <2>3, <2>10
<1> QED BY <1>9, <1>10

LEMMA SameSchemas == Table!Schema = Schema
<1>1. Table!U64 = U64 /\ Table!I64 = I64 /\ Table!Name = Name
  BY DEF Table!U64, Table!I64, Table!Name, U64, I64, Name, Table!Pow8, Table!Pow4,
     Table!Pow2, Pow8, Pow4, Pow2, Table!I64Max, Table!I64Min, I64Max, I64Min
<1>2. Table!IntExpr = IntExpr
  BY <1>1 DEF Table!IntExpr, IntExpr, Table!Leaf, Leaf, Table!Binary, Binary
<1>3. Table!OffsetKind = OffsetKind /\ Table!LengthSpec = LengthSpec
  BY <1>1, <1>2 DEF Table!OffsetKind, OffsetKind, Table!LengthSpec, LengthSpec
<1>4. /\ Table!FieldType = FieldType /\ Table!RepeatInfo = RepeatInfo
      /\ Table!WhenCondition = WhenCondition /\ Table!Endianness = Endianness
      /\ \A S : Table!Option(S) = Option(S)
  BY <1>1 DEF Table!FieldType, FieldType, Table!NumericType, NumericType,
     Table!SizedType, SizedType, Table!RepeatInfo, RepeatInfo, Table!WhenCondition,
     WhenCondition, Table!Endianness, Endianness, Table!Option, Option
<1>5. Table!FieldDef = FieldDef /\ Table!StructInstanceDef = StructInstanceDef
  BY <1>1, <1>3, <1>4 DEF Table!FieldDef, FieldDef, Table!StructInstanceDef,
     StructInstanceDef
<1> QED BY <1>1, <1>4, <1>5 DEF Table!Schema, Schema, Table!StructureDef,
           StructureDef, Table!FieldItem, FieldItem

(* Whatever the file holds and whatever fails, the pass adds to the table  *)
(* the rows of one item after another in schema order, and each time a     *)
(* block of names that the item itself allows.                             *)
THEOREM TableFollowsTheSchema ==
    BlocksSpec => Table!Init /\ [][Table!Emit]_<<schema, item, Names(mark)>>
<1>1. BlocksInit => Init /\ Table!Init /\ BlocksInv
  <2> SUFFICES ASSUME BlocksInit PROVE Init /\ Table!Init /\ BlocksInv
    OBVIOUS
  <2>1. Init /\ mark = 0 /\ rows = << >> /\ item = 1 /\ pc = "item"
    BY DEF BlocksInit, Init
  <2>2. Names(mark) = << >> /\ NamesOf(rows) = << >>
    BY <2>1, NoNames DEF Names
  <2>3. Table!Init
    BY <2>1, <2>2, InputAssumption, SameSchemas DEF Table!Init, Init
  <2>4. InLoops
    BY <2>1 DEF InLoops
  <2>5. << >> \in Emitted
    BY <2>1 DEF Emitted, EmittedAt
  <2>6. NamesOf(rows) = Names(mark) \o << >>
    BY <2>2
  <2>7. mark \in Nat /\ mark <= Len(rows)
    BY <2>1
  <2> QED BY <2>1, <2>3, <2>4, <2>5, <2>6, <2>7 DEF BlocksInv
<1>2. [BlocksNext]_<<vars, mark>> => [Next]_vars
  BY DEF BlocksNext
<1>3. TypeOK /\ BlocksInv /\ [BlocksNext]_<<vars, mark>>
         => BlocksInv' /\ [Table!Emit]_<<schema, item, Names(mark)>>
  <2> SUFFICES ASSUME TypeOK, BlocksInv, [BlocksNext]_<<vars, mark>>
               PROVE  BlocksInv' /\ [Table!Emit]_<<schema, item, Names(mark)>>
    OBVIOUS
  <2>1. CASE BlocksNext
    BY <2>1, BlocksStep
  <2>2. CASE UNCHANGED <<vars, mark>>
    <3>1. /\ UNCHANGED <<schema, item, index, child, childIndex, pc, rows, mark>>
      BY <2>2 DEF vars
    <3>2. This' = This /\ Structure' = Structure /\ ThisChild' = ThisChild
      BY <3>1 DEF This, Structure, find_structure, ThisChild
    <3>3. InLoops' /\ Emitted' = Emitted /\ Names(mark)' = Names(mark)
      BY <3>1, <3>2 DEF InLoops, BlocksInv, Emitted, Names
    <3>4. NamesOf(rows)' = NamesOf(rows)
      BY <3>1 DEF NamesOf
    <3> QED BY <3>1, <3>3, <3>4 DEF BlocksInv
  <2> QED BY <2>1, <2>2
<1>4. Init /\ [][Next]_vars => []TypeOK
  BY TypeHolds
<1> QED BY <1>1, <1>2, <1>3, <1>4, PTL DEF BlocksSpec

=============================================================================
