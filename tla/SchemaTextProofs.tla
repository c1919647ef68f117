--------------------------- MODULE SchemaTextProofs ---------------------------
(***************************************************************************)
(* Proofs about the positions in the text of the editor, for texts of any  *)
(* length over any characters: bytes, characters and lines ascend with the *)
(* position in the text, so that a cursor leads to its line, a line to the *)
(* bytes of its name, and every range that is kept to a range of the text. *)
(***************************************************************************)
EXTENDS SchemaText, SequenceTheorems, FiniteSetTheorems, WellFoundedInduction, TLAPS

-----------------------------------------------------------------------------
(* Numbers *)

(* A set of numbers that is not empty has a least one.                     *)
LEMMA LeastOfNaturals ==
    ASSUME NEW T, T \subseteq Nat, T # {}
    PROVE  Min(T) \in T /\ \A j \in T : Min(T) <= j
<1> DEFINE R == {pair \in Nat \X Nat : pair[1] < pair[2]}
<1>1. ~ \E f \in [Nat -> Nat] : \A n \in Nat : <<f[n + 1], f[n]>> \in R
  BY NatLessThanWellFounded, Zenon DEF OpToRel, IsWellFoundedOn
<1>2. IsWellFoundedOn(R, Nat)
  BY <1>1 DEF IsWellFoundedOn
<1>3. PICK i \in T : \A j \in T : ~ (<<j, i>> \in R)
  BY <1>2, WFMin
<1>4. ASSUME NEW j \in T
      PROVE  ~ (j < i)
  <2>1. <<j, i>> \in Nat \X Nat /\ <<j, i>>[1] = j /\ <<j, i>>[2] = i
    OBVIOUS
  <2> QED
    BY <1>3, <2>1, Zenon
<1>5. \A j \in T : i <= j
  BY <1>4
<1> HIDE DEF R
<1> QED BY <1>5 DEF Min

(* A set of numbers up to n that is not empty has a greatest one.          *)
LEMMA GreatestOfInterval ==
    ASSUME NEW n \in Nat, NEW S \in SUBSET (0 .. n), S # {}
    PROVE  Max(S) \in S /\ \A j \in S : j <= Max(S)
<1> DEFINE T == {n - i : i \in S}
<1>1. T \subseteq Nat /\ T # {}
  <2>1. \A i \in S : n - i \in Nat
    OBVIOUS
  <2>2. PICK i \in S : TRUE
    OBVIOUS
  <2>3. n - i \in T
    BY <2>2
  <2> QED BY <2>1, <2>3
<1> HIDE DEF T
<1>2. PICK t \in T : \A u \in T : t <= u
  BY <1>1, LeastOfNaturals
<1>3. PICK i \in S : t = n - i
  BY <1>2 DEF T
<1>4. ASSUME NEW j \in S PROVE j <= i
  <2>1. n - j \in T
    BY DEF T
  <2>2. n - i <= n - j
    BY <1>2, <1>3, <2>1
  <2> QED BY <2>2
<1>5. \E m \in S : \A j \in S : m >= j
  BY <1>4
<1>6. Max(S) \in S /\ \A j \in S : Max(S) >= j
  BY <1>5 DEF Max
<1> QED BY <1>6

(* If a number is a counterexample, a least one is.                        *)
LEMMA NatLeast ==
    ASSUME NEW T, T \subseteq Nat, 0 \notin T,
           \A m \in Nat : m + 1 \in T => m \in T
    PROVE  T = {}
<1> SUFFICES ASSUME T # {} PROVE FALSE
  OBVIOUS
<1>1. PICK m \in T : \A t \in T : m <= t
  BY LeastOfNaturals
<1>2. m - 1 \in Nat /\ (m - 1) + 1 = m
  BY <1>1
<1> QED BY <1>1, <1>2

-----------------------------------------------------------------------------
(* Sequences one after the other *)

(* f solves the equation of FlattenSeq.                                    *)
IsFlattening(f, seqs, n) ==
    f = [i \in 1 .. n |-> IF i = 1 THEN seqs[i] ELSE f[i - 1] \o seqs[i]]

LEMMA FlatteningIsDefined ==
    ASSUME NEW seqs PROVE \A n \in Nat : \E f : IsFlattening(f, seqs, n)
<1> DEFINE T == {n \in Nat : ~ \E f : IsFlattening(f, seqs, n)}
<1>1. 0 \notin T
  <2>1. IsFlattening([i \in 1 .. 0 |-> << >>], seqs, 0)
    BY DEF IsFlattening
  <2> QED BY <2>1
<1>2. ASSUME NEW m \in Nat, m \notin T PROVE m + 1 \notin T
  <2>1. PICK f : IsFlattening(f, seqs, m)
    BY <1>2
  <2> DEFINE last == IF m = 0 THEN seqs[m + 1] ELSE f[m] \o seqs[m + 1]
             g == [i \in 1 .. (m + 1) |-> IF i = m + 1 THEN last ELSE f[i]]
  <2>2. \A i \in 1 .. m : f[i] = IF i = 1 THEN seqs[i] ELSE f[i - 1] \o seqs[i]
    BY <2>1 DEF IsFlattening
  <2>3. ASSUME NEW i \in 1 .. (m + 1)
        PROVE  g[i] = IF i = 1 THEN seqs[i] ELSE g[i - 1] \o seqs[i]
    <3>1. CASE i = m + 1 /\ m = 0
      BY <3>1
    <3>2. CASE i = m + 1 /\ m # 0
      <4>1. i - 1 \in 1 .. (m + 1) /\ i - 1 # m + 1 /\ i - 1 = m /\ i # 1
        BY <3>2
      <4>2. g[i - 1] = f[m]
        BY <4>1
      <4>3. g[i] = f[m] \o seqs[m + 1]
        BY <3>2, Zenon
      <4> HIDE DEF g
      <4> QED BY <3>2, <4>1, <4>2, <4>3, Zenon
    <3>3. CASE i # m + 1
      <4>1. i \in 1 .. m /\ g[i] = f[i]
        BY <3>3
      <4>2. i # 1 => g[i - 1] = f[i - 1]
        BY <3>3
      <4> HIDE DEF g
      <4> QED BY <2>2, <4>1, <4>2, Zenon
    <3> QED BY <3>1, <3>2, <3>3
  <2>4. IsFlattening(g, seqs, m + 1)
    <3>1. g = [i \in 1 .. (m + 1) |-> g[i]]
      OBVIOUS
    <3> HIDE DEF g
    <3> QED BY <2>3, <3>1, Zenon DEF IsFlattening
  <2> QED BY <2>4
<1> HIDE DEF T
<1>3. T = {}
  BY <1>1, <1>2, NatLeast DEF T
<1> QED BY <1>3 DEF T

LEMMA FlatteningChosen ==
    ASSUME NEW seqs, Len(seqs) \in Nat \ {0}
    PROVE  \E f : IsFlattening(f, seqs, Len(seqs)) /\ FlattenSeq(seqs) = f[Len(seqs)]
<1> DEFINE flatten[i \in 1 .. Len(seqs)] ==
             IF i = 1 THEN seqs[i] ELSE flatten[i - 1] \o seqs[i]
<1>1. FlattenSeq(seqs) = flatten[Len(seqs)]
  BY DEF FlattenSeq
<1>2. flatten = CHOOSE f : IsFlattening(f, seqs, Len(seqs))
  BY DEF IsFlattening
<1> HIDE DEF flatten
<1>3. IsFlattening(flatten, seqs, Len(seqs))
  BY <1>2, FlatteningIsDefined
<1> QED BY <1>1, <1>3

LEMMA FlatteningsAgree ==
    ASSUME NEW a, NEW b, NEW n \in Nat, NEW m \in Nat, NEW f, NEW g,
           IsFlattening(f, a, n), IsFlattening(g, b, m),
           NEW d \in Nat \ {0}, d <= n, d <= m, \A i \in 1 .. d : a[i] = b[i]
    PROVE  f[d] = g[d]
<1> DEFINE T == {k \in Nat : k # 0 /\ k <= d /\ f[k] # g[k]}
<1>1. \A i \in 1 .. n : f[i] = IF i = 1 THEN a[i] ELSE f[i - 1] \o a[i]
  BY DEF IsFlattening
<1>2. \A i \in 1 .. m : g[i] = IF i = 1 THEN b[i] ELSE g[i - 1] \o b[i]
  BY DEF IsFlattening
<1>3. ASSUME NEW k \in Nat, k \notin T PROVE k + 1 \notin T
  <2> SUFFICES ASSUME k + 1 <= d PROVE f[k + 1] = g[k + 1]
    OBVIOUS
  <2>1. k + 1 \in 1 .. n /\ k + 1 \in 1 .. m /\ k + 1 \in 1 .. d /\ (k + 1) - 1 = k
    OBVIOUS
  <2>2. CASE k = 0
    BY <1>1, <1>2, <2>1, <2>2
  <2>3. CASE k # 0
    <3>1. f[k] = g[k] /\ k + 1 # 1
      BY <1>3, <2>3
    <3>2. f[k + 1] = f[k] \o a[k + 1]
      BY <1>1, <2>1, <3>1, Zenon
    <3>3. g[k + 1] = g[k] \o b[k + 1]
      BY <1>2, <2>1, <3>1, Zenon
    <3> QED BY <2>1, <3>1, <3>2, <3>3, Zenon
  <2> QED BY <2>2, <2>3
<1> HIDE DEF T
<1>4. T = {}
  BY <1>3, NatLeast DEF T
<1> QED BY <1>4 DEF T

LEMMA FlattenOne ==
    ASSUME NEW seqs, Len(seqs) = 1
    PROVE  FlattenSeq(seqs) = seqs[1]
<1>1. PICK f : IsFlattening(f, seqs, 1) /\ FlattenSeq(seqs) = f[1]
  <2>1. Len(seqs) \in Nat \ {0}
    OBVIOUS
  <2> QED BY <2>1, FlatteningChosen
<1> QED BY <1>1 DEF IsFlattening

LEMMA FlattenNext ==
    ASSUME NEW seqs, NEW front, NEW n \in Nat \ {0}, Len(seqs) = n + 1, Len(front) = n,
           \A i \in 1 .. n : seqs[i] = front[i]
    PROVE  FlattenSeq(seqs) = FlattenSeq(front) \o seqs[n + 1]
<1>1. PICK f : IsFlattening(f, front, n) /\ FlattenSeq(front) = f[n]
  BY FlatteningChosen
<1>2. PICK g : IsFlattening(g, seqs, n + 1) /\ FlattenSeq(seqs) = g[n + 1]
  BY FlatteningChosen
<1>3. f[n] = g[n]
  BY <1>1, <1>2, FlatteningsAgree
<1>4. g[n + 1] = g[n] \o seqs[n + 1]
  <2>1. n + 1 \in 1 .. (n + 1) /\ n + 1 # 1 /\ (n + 1) - 1 = n
    OBVIOUS
  <2>2. \A i \in 1 .. (n + 1) : g[i] = IF i = 1 THEN seqs[i] ELSE g[i - 1] \o seqs[i]
    BY <1>2 DEF IsFlattening
  <2> QED BY <2>1, <2>2, Zenon
<1> QED BY <1>1, <1>2, <1>3, <1>4

-----------------------------------------------------------------------------
(* Bytes *)

(* If a property holds of the empty text and of a text with one character  *)
(* more than one it holds of, it holds of all.                             *)
LEMMA TextInduction ==
    ASSUME NEW P, << >> \in P,
           \A text \in Seq(Chars) : \A ch \in Chars : text \in P => Append(text, ch) \in P
    PROVE  Seq(Chars) \subseteq P
<1> DEFINE T == {n \in Nat : \E text \in Seq(Chars) : Len(text) = n /\ text \notin P}
<1>1. 0 \notin T
  <2>1. \A text \in Seq(Chars) : Len(text) = 0 => text = << >>
    BY EmptySeq
  <2> QED BY <2>1
<1>2. ASSUME NEW m \in Nat, m + 1 \in T PROVE m \in T
  <2>1. PICK text \in Seq(Chars) : Len(text) = m + 1 /\ text \notin P
    BY <1>2
  <2>2. text # << >>
    BY <2>1
  <2>3. PICK s \in Seq(Chars), ch \in Chars : text = Append(s, ch)
    BY <2>2, SequenceEmptyOrAppend
  <2>4. Len(s) = m
    BY <2>1, <2>3
  <2> QED BY <2>1, <2>3, <2>4
<1> HIDE DEF T
<1>3. T = {}
  BY <1>1, <1>2, NatLeast DEF T
<1> QED BY <1>3 DEF T

LEMMA SpellingFacts ==
    ASSUME NEW ch
    PROVE  /\ Spelling(ch) \in Seq(Nat) /\ Spelling(ch) # << >>
           /\ Len(Spelling(ch)) \in Nat \ {0} /\ Spelling(ch)[1] = 1
           /\ ch \in {LF, Quote} => Spelling(ch) = << 1 >>
<1>1. Spelling(ch) \in {<< 1, 1, 1, 1, 1 >>, << 1, 2 >>, << 1 >>}
  BY DEF Spelling
<1>2. ch \in {LF, Quote} => Spelling(ch) = << 1 >>
  BY DEF Spelling, LF, Quote, Key, Wide
<1>3. ASSUME NEW s \in {<< 1, 1, 1, 1, 1 >>, << 1, 2 >>, << 1 >>}
      PROVE  s \in Seq(Nat) /\ s # << >> /\ Len(s) \in Nat \ {0} /\ s[1] = 1
  <2>1. CASE s = << 1, 1, 1, 1, 1 >>
    BY <2>1
  <2>2. CASE s = << 1, 2 >>
    BY <2>2
  <2>3. CASE s = << 1 >>
    BY <2>3
  <2> QED BY <2>1, <2>2, <2>3
<1> QED BY <1>1, <1>2, <1>3

LEMMA BytesNone == Bytes(<< >>) = << >> /\ ByteLen(<< >>) = 0
<1> DEFINE seqs == [i \in 1 .. Len(<< >>) |-> Spelling(<< >>[i])]
<1>1. seqs = << >> /\ Len(seqs) = 0
  OBVIOUS
<1>2. Bytes(<< >>) = FlattenSeq(seqs)
  BY DEF Bytes
<1> HIDE DEF seqs
<1>3. Bytes(<< >>) = << >>
  BY <1>1, <1>2 DEF FlattenSeq
<1> QED BY <1>3 DEF ByteLen

LEMMA BytesNext ==
    ASSUME NEW text \in Seq(Chars), NEW ch \in Chars
    PROVE  Bytes(Append(text, ch)) = Bytes(text) \o Spelling(ch)
<1> DEFINE front == [i \in 1 .. Len(text) |-> Spelling(text[i])]
           more == Append(text, ch)
           seqs == [i \in 1 .. Len(more) |-> Spelling(more[i])]
           n == Len(text)
<1>1. Bytes(text) = FlattenSeq(front) /\ Bytes(more) = FlattenSeq(seqs)
  BY DEF Bytes
<1>2. /\ n \in Nat /\ Len(more) = n + 1 /\ more[n + 1] = ch
      /\ \A i \in 1 .. n : more[i] = text[i]
  BY AppendProperties
<1> HIDE DEF more
<1>3. /\ Len(front) = n /\ Len(seqs) = n + 1 /\ seqs[n + 1] = Spelling(ch)
      /\ \A i \in 1 .. n : seqs[i] = front[i]
  BY <1>2
<1>4. CASE n = 0
  <2>1. text = << >>
    BY <1>4
  <2>2. Bytes(text) = << >>
    BY <2>1, BytesNone
  <2>3. FlattenSeq(seqs) = seqs[1] /\ seqs[1] = Spelling(ch)
    <3> HIDE DEF seqs
    <3>1. Len(seqs) = 1 /\ seqs[1] = Spelling(ch)
      BY <1>3, <1>4
    <3> QED BY <3>1, FlattenOne
  <2>4. Bytes(more) = Spelling(ch)
    BY <1>1, <2>3, Zenon
  <2>5. Spelling(ch) = << >> \o Spelling(ch)
    BY SpellingFacts, ConcatEmptySeq
  <2> QED BY <2>2, <2>4, <2>5, Zenon DEF more
<1>5. CASE n # 0
  <2>1. n \in Nat \ {0}
    BY <1>2, <1>5
  <2> HIDE DEF seqs, front, n
  <2>2. FlattenSeq(seqs) = FlattenSeq(front) \o seqs[n + 1]
    BY <1>3, <2>1, FlattenNext
  <2> QED BY <1>1, <1>3, <2>2, Zenon DEF more
<1> QED BY <1>4, <1>5

LEMMA BytesAreSeq ==
    ASSUME NEW text \in Seq(Chars)
    PROVE  Bytes(text) \in Seq(Nat) /\ ByteLen(text) \in Nat
<1> DEFINE P == {s \in Seq(Chars) : Bytes(s) \in Seq(Nat)}
<1>1. << >> \in P
  <2>1. << >> \in Seq(Chars) /\ << >> \in Seq(Nat)
    BY EmptySeq
  <2> QED BY <2>1, BytesNone, Zenon
<1>2. ASSUME NEW s \in Seq(Chars), NEW ch \in Chars, s \in P
      PROVE  Append(s, ch) \in P
  <2>1. Bytes(s) \in Seq(Nat) /\ Spelling(ch) \in Seq(Nat)
    BY <1>2, SpellingFacts
  <2>2. Bytes(s) \o Spelling(ch) \in Seq(Nat)
    BY <2>1, ConcatProperties
  <2>3. Bytes(Append(s, ch)) \in Seq(Nat)
    BY <2>2, BytesNext, Zenon
  <2> QED BY <2>3, AppendProperties
<1> HIDE DEF P
<1>3. text \in P
  BY <1>1, <1>2, TextInduction
<1> QED BY <1>3 DEF P, ByteLen

LEMMA JoinedTwice ==
    ASSUME NEW x \in Seq(Nat), NEW y \in Seq(Nat), NEW z \in Seq(Nat)
    PROVE  (x \o y) \o z = x \o (y \o z)
BY ConcatAssociative

LEMMA BytesJoined ==
    ASSUME NEW a \in Seq(Chars), NEW b \in Seq(Chars)
    PROVE  /\ Bytes(a \o b) = Bytes(a) \o Bytes(b)
           /\ ByteLen(a \o b) = ByteLen(a) + ByteLen(b)
<1> DEFINE P == {s \in Seq(Chars) : Bytes(a \o s) = Bytes(a) \o Bytes(s)}
<1>1. << >> \in P
  <2>1. a \o << >> = a /\ << >> \in Seq(Chars)
    BY ConcatEmptySeq, EmptySeq
  <2>2. Bytes(a) = Bytes(a) \o << >>
    BY BytesAreSeq, ConcatEmptySeq
  <2> QED BY <2>1, <2>2, BytesNone
<1>2. ASSUME NEW s \in Seq(Chars), NEW ch \in Chars, s \in P
      PROVE  Append(s, ch) \in P
  <2>1. a \o Append(s, ch) = Append(a \o s, ch) /\ a \o s \in Seq(Chars)
    OBVIOUS
  <2>2. Bytes(Append(a \o s, ch)) = Bytes(a \o s) \o Spelling(ch)
    BY <2>1, BytesNext
  <2>3. Bytes(Append(s, ch)) = Bytes(s) \o Spelling(ch)
    BY BytesNext
  <2>4. (Bytes(a) \o Bytes(s)) \o Spelling(ch) = Bytes(a) \o (Bytes(s) \o Spelling(ch))
    <3>1. PICK x \in Seq(Nat), y \in Seq(Nat), z \in Seq(Nat) :
             x = Bytes(a) /\ y = Bytes(s) /\ z = Spelling(ch)
      BY BytesAreSeq, SpellingFacts
    <3>2. (x \o y) \o z = x \o (y \o z)
      BY JoinedTwice, Zenon
    <3> QED BY <3>1, <3>2, Zenon
  <2>5. Bytes(a \o Append(s, ch)) = Bytes(a) \o Bytes(Append(s, ch))
    BY <1>2, <2>1, <2>2, <2>3, <2>4, Zenon DEF P
  <2> QED BY <2>5, AppendProperties
<1>3. b \in P
  <2> HIDE DEF P
  <2> QED BY <1>1, <1>2, TextInduction
<1>4. Len(Bytes(a) \o Bytes(b)) = Len(Bytes(a)) + Len(Bytes(b))
  BY BytesAreSeq, ConcatProperties
<1> QED BY <1>3, <1>4 DEF P, ByteLen

(* The bytes of the first i characters.                                    *)
Width(text, i) == ByteLen(SubSeq(text, 1, i))

LEMMA WidthNone ==
    ASSUME NEW text PROVE Width(text, 0) = 0
<1>1. SubSeq(text, 1, 0) = << >>
  BY SubSeqEmpty
<1> QED BY <1>1, BytesNone DEF Width

LEMMA PrefixIsText ==
    ASSUME NEW text \in Seq(Chars), NEW i \in 0 .. Len(text)
    PROVE  /\ SubSeq(text, 1, i) \in Seq(Chars) /\ Len(SubSeq(text, 1, i)) = i
           /\ Width(text, i) \in Nat
<1>1. \A j \in 1 .. i : text[j] \in Chars
  BY ElementOfSeq
<1>2. SubSeq(text, 1, i) \in Seq(Chars) /\ Len(SubSeq(text, 1, i)) = i
  BY <1>1, SubSeqProperties
<1> QED BY <1>2, BytesAreSeq DEF Width

LEMMA PrefixNext ==
    ASSUME NEW text \in Seq(Chars), NEW i \in 1 .. Len(text)
    PROVE  SubSeq(text, 1, i) = Append(SubSeq(text, 1, i - 1), text[i])
<1>1. i - 1 \in 0 .. Len(text) /\ text[i] \in Chars
  BY ElementOfSeq
<1>2. SubSeq(text, 1, i - 1) \in Seq(Chars)
  BY <1>1, PrefixIsText
<1>3. SubSeq(text, 1, i) = SubSeq(text, 1, i - 1) \o << text[i] >>
  <2>1. 1 \in 1 .. Len(text) /\ i \in 1 .. Len(text)
    OBVIOUS
  <2> QED BY <2>1, SubSeqRecursiveSecond
<1> QED BY <1>1, <1>2, <1>3, AppendIsConcat

LEMMA WidthNext ==
    ASSUME NEW text \in Seq(Chars), NEW i \in 1 .. Len(text)
    PROVE  /\ Width(text, i) = Width(text, i - 1) + Len(Spelling(text[i]))
           /\ Width(text, i - 1) < Width(text, i)
           /\ text[i] \in {LF, Quote} => Width(text, i) = Width(text, i - 1) + 1
<1> DEFINE s == SubSeq(text, 1, i - 1)
<1>1. i - 1 \in 0 .. Len(text) /\ text[i] \in Chars
  BY ElementOfSeq
<1>2. s \in Seq(Chars)
  BY <1>1, PrefixIsText
<1>3. Bytes(SubSeq(text, 1, i)) = Bytes(s) \o Spelling(text[i])
  BY <1>1, <1>2, PrefixNext, BytesNext, Zenon
<1>4. ByteLen(SubSeq(text, 1, i)) = ByteLen(s) + Len(Spelling(text[i]))
  <2>1. Len(Bytes(s) \o Spelling(text[i])) = Len(Bytes(s)) + Len(Spelling(text[i]))
    BY <1>2, BytesAreSeq, SpellingFacts, ConcatProperties
  <2> QED BY <1>3, <2>1 DEF ByteLen
<1>5. ByteLen(s) \in Nat
  BY <1>2, BytesAreSeq
<1>6. Len(Spelling(text[i])) \in Nat \ {0}
  BY SpellingFacts
<1>7. text[i] \in {LF, Quote} => Len(Spelling(text[i])) = 1
  BY SpellingFacts
<1>8. Width(text, i) = ByteLen(SubSeq(text, 1, i)) /\ Width(text, i - 1) = ByteLen(s)
  BY DEF Width
<1>9. PICK before \in Nat, size \in Nat \ {0} :
         before = Width(text, i - 1) /\ size = Len(Spelling(text[i]))
  BY <1>5, <1>6, <1>8, Zenon
<1>10. Width(text, i) = before + size
  BY <1>4, <1>8, <1>9, Zenon
<1>11. before < before + size
  OBVIOUS
<1> HIDE DEF s
<1> QED BY <1>7, <1>9, <1>10, <1>11, Zenon

LEMMA WidthGrows ==
    ASSUME NEW text \in Seq(Chars), NEW i \in 0 .. Len(text), NEW j \in 0 .. Len(text), i < j
    PROVE  Width(text, i) < Width(text, j)
<1> DEFINE T == {k \in Nat : i + k + 1 <= Len(text) /\ ~(Width(text, i) < Width(text, i + k + 1))}
<1>1. 0 \notin T
  <2> SUFFICES ASSUME i + 1 <= Len(text) PROVE Width(text, i) < Width(text, i + 1)
    OBVIOUS
  <2>1. i + 1 \in 1 .. Len(text) /\ (i + 1) - 1 = i
    OBVIOUS
  <2> QED BY <2>1, WidthNext
<1>2. ASSUME NEW k \in Nat, k + 1 \in T PROVE k \in T
  <2>1. i + k + 2 \in 1 .. Len(text) /\ (i + k + 2) - 1 = i + k + 1 /\ i + (k + 1) + 1 = i + k + 2
    BY <1>2
  <2>2. Width(text, i + k + 1) < Width(text, i + k + 2)
    BY <2>1, WidthNext
  <2>3. ~(Width(text, i) < Width(text, i + k + 2))
    BY <1>2, <2>1
  <2>4. Width(text, i) \in Nat /\ Width(text, i + k + 1) \in Nat /\ Width(text, i + k + 2) \in Nat
    BY <2>1, PrefixIsText
  <2>5. ~(Width(text, i) < Width(text, i + k + 1)) /\ i + k + 1 <= Len(text)
    BY <2>1, <2>2, <2>3, <2>4
  <2> QED BY <2>5
<1> HIDE DEF T
<1>3. T = {}
  BY <1>1, <1>2, NatLeast DEF T
<1>4. PICK k \in Nat : i + k + 1 = j
  <2>1. j - i - 1 \in Nat /\ i + (j - i - 1) + 1 = j
    OBVIOUS
  <2> QED BY <2>1
<1>5. k \notin T
  BY <1>3
<1> QED BY <1>4, <1>5 DEF T

(* A part of the text has the bytes between its ends.                      *)
LEMMA WidthOfPart ==
    ASSUME NEW text \in Seq(Chars), NEW i \in 0 .. Len(text), NEW j \in i .. Len(text)
    PROVE  /\ SubSeq(text, i + 1, j) \in Seq(Chars)
           /\ Len(SubSeq(text, i + 1, j)) = j - i
           /\ Width(text, i) + ByteLen(SubSeq(text, i + 1, j)) = Width(text, j)
<1>1. \A k \in (i + 1) .. j : text[k] \in Chars
  BY ElementOfSeq
<1>2. SubSeq(text, i + 1, j) \in Seq(Chars) /\ Len(SubSeq(text, i + 1, j)) = j - i
  BY <1>1, SubSeqProperties
<1>3. SubSeq(text, 1, i) \in Seq(Chars)
  BY PrefixIsText
<1>4. SubSeq(text, 1, i) \o SubSeq(text, i + 1, j) = SubSeq(text, 1, j)
  <2>1. 1 \in 1 .. (Len(text) + 1) /\ i \in (1 - 1) .. Len(text)
    OBVIOUS
  <2> QED BY <2>1, ConcatAdjacentSubSeq
<1>5. ByteLen(SubSeq(text, 1, i) \o SubSeq(text, i + 1, j))
        = ByteLen(SubSeq(text, 1, i)) + ByteLen(SubSeq(text, i + 1, j))
  BY <1>2, <1>3, BytesJoined
<1> QED BY <1>2, <1>4, <1>5 DEF Width

(* The bytes of a text that is not empty begin with the first of a         *)
(* character, and so does what follows the first i characters.             *)
LEMMA TextBeginsWhole ==
    ASSUME NEW text \in Seq(Chars), text # << >>
    PROVE  Bytes(text) # << >> /\ Bytes(text)[1] = 1
<1>1. 1 \in 1 .. Len(text) /\ text[1] \in Chars
  BY EmptySeq, ElementOfSeq
<1>2. SubSeq(text, 1, 1) = << text[1] >>
  <2>1. SubSeq(text, 1, 0) = << >> /\ 1 - 1 = 0
    BY SubSeqEmpty
  <2>2. SubSeq(text, 1, 1) = Append(<< >>, text[1])
    BY <1>1, <2>1, PrefixNext, Zenon
  <2> QED BY <2>2
<1>3. Bytes(SubSeq(text, 1, 1)) = Spelling(text[1])
  <2>1. Append(<< >>, text[1]) = << text[1] >>
    OBVIOUS
  <2>2. << >> \in Seq(Chars)
    BY EmptySeq
  <2>3. Bytes(<< text[1] >>) = << >> \o Spelling(text[1])
    BY <1>1, <2>1, <2>2, BytesNext, BytesNone, Zenon
  <2>4. << >> \o Spelling(text[1]) = Spelling(text[1])
    BY SpellingFacts, ConcatEmptySeq
  <2> QED BY <1>2, <2>3, <2>4, Zenon
<1>4. SubSeq(text, 1, 1) \in Seq(Chars) /\ SubSeq(text, 2, Len(text)) \in Seq(Chars)
  BY <1>1, WidthOfPart, PrefixIsText
<1>5. SubSeq(text, 1, 1) \o SubSeq(text, 2, Len(text)) = text
  BY <1>1, ConcatAdjacentSubSeq, SubSeqFull
<1>6. Bytes(text) = Spelling(text[1]) \o Bytes(SubSeq(text, 2, Len(text)))
  BY <1>3, <1>4, <1>5, BytesJoined, Zenon
<1>7. /\ Spelling(text[1]) \in Seq(Nat) /\ Bytes(SubSeq(text, 2, Len(text))) \in Seq(Nat)
      /\ Len(Spelling(text[1])) \in Nat \ {0} /\ Spelling(text[1])[1] = 1
  BY <1>4, SpellingFacts, BytesAreSeq
<1>8. ASSUME NEW x \in Seq(Nat), NEW y \in Seq(Nat), Len(x) \in Nat \ {0}, x[1] = 1
      PROVE  x \o y # << >> /\ (x \o y)[1] = 1
  BY <1>8, ConcatProperties
<1> QED BY <1>6, <1>7, <1>8

LEMMA BoundaryAtStart ==
    ASSUME NEW text \in Seq(Chars), NEW i \in 0 .. Len(text)
    PROVE  is_char_boundary(text, Width(text, i))
<1>1. Width(text, Len(text)) = ByteLen(text)
  BY SubSeqFull DEF Width
<1>2. CASE i = Len(text)
  BY <1>1, <1>2 DEF is_char_boundary
<1>3. CASE i # Len(text)
  <2> DEFINE a == SubSeq(text, 1, i)
             b == SubSeq(text, i + 1, Len(text))
  <2>1. i < Len(text) /\ Len(text) \in i .. Len(text) /\ Len(text) \in 0 .. Len(text)
    BY <1>3
  <2>2. a \in Seq(Chars) /\ b \in Seq(Chars) /\ b # << >>
    <3>1. a \in Seq(Chars)
      BY PrefixIsText
    <3>2. b \in Seq(Chars) /\ Len(b) = Len(text) - i
      BY <2>1, WidthOfPart
    <3> HIDE DEF a, b
    <3>3. Len(b) # 0
      BY <2>1, <3>2
    <3> QED BY <3>1, <3>2, <3>3
  <2>3. a \o b = text
    <3>1. 1 \in 1 .. (Len(text) + 1) /\ i \in (1 - 1) .. Len(text)
      OBVIOUS
    <3> QED BY <2>1, <3>1, ConcatAdjacentSubSeq, SubSeqFull
  <2>4. Bytes(text) = Bytes(a) \o Bytes(b)
    BY <2>2, <2>3, BytesJoined, Zenon
  <2>5. Bytes(b) # << >> /\ Bytes(b)[1] = 1
    BY <2>2, TextBeginsWhole
  <2>6. ASSUME NEW x \in Seq(Nat), NEW y \in Seq(Nat), y # << >>, y[1] = 1
        PROVE  (x \o y)[Len(x) + 1] = 1
    BY <2>6, ConcatProperties
  <2>7. Bytes(a) \in Seq(Nat) /\ Bytes(b) \in Seq(Nat)
    BY <2>2, BytesAreSeq
  <2>8. Bytes(text)[Len(Bytes(a)) + 1] = 1
    BY <2>4, <2>5, <2>6, <2>7
  <2>9. Width(text, i) = Len(Bytes(a))
    BY DEF Width, ByteLen
  <2>10. Width(text, i) < ByteLen(text)
    BY <1>1, <2>1, WidthGrows
  <2> QED BY <2>8, <2>9, <2>10 DEF is_char_boundary
<1> QED BY <1>2, <1>3

-----------------------------------------------------------------------------
(* Characters *)

(* The characters of the first i elements of the text.                     *)
Count(text, i) == CharLen(SubSeq(text, 1, i))

LEMMA CharsAreCounted ==
    ASSUME NEW text \in Seq(Chars)
    PROVE  CharLen(text) \in Nat
<1>1. ByteLen(text) \in Nat
  BY BytesAreSeq
<1>2. IsFiniteSet(1 .. ByteLen(text))
  BY <1>1, FS_Interval
<1>3. IsFiniteSet({b \in 1 .. ByteLen(text) : Bytes(text)[b] = 1})
  BY <1>2, FS_Subset
<1> QED BY <1>3, FS_CardinalityType DEF CharLen

LEMMA CharsNext ==
    ASSUME NEW text \in Seq(Chars), NEW ch \in Chars
    PROVE  /\ CharLen(text) < CharLen(Append(text, ch))
           /\ ch = LF => CharLen(Append(text, ch)) = CharLen(text) + 1
<1> DEFINE Ones(x) == {b \in 1 .. Len(x) : x[b] = 1}
<1>1. \A s : CharLen(s) = Cardinality(Ones(Bytes(s)))
  BY DEF CharLen, ByteLen
<1>2. ASSUME NEW x \in Seq(Nat), NEW y \in Seq(Nat), y # << >>, y[1] = 1
      PROVE  /\ Cardinality(Ones(x)) < Cardinality(Ones(x \o y))
             /\ y = << 1 >> => Cardinality(Ones(x \o y)) = Cardinality(Ones(x)) + 1
  <2> DEFINE more == Ones(x) \cup {Len(x) + 1}
  <2>1. /\ Len(x) \in Nat /\ Len(y) \in Nat \ {0} /\ Len(x \o y) = Len(x) + Len(y)
        /\ \A i \in 1 .. (Len(x) + Len(y)) :
              (x \o y)[i] = IF i <= Len(x) THEN x[i] ELSE y[i - Len(x)]
    BY <1>2, ConcatProperties, EmptySeq
  <2>2. \A i \in 1 .. Len(x) : (x \o y)[i] = x[i]
    BY <2>1
  <2>3. (x \o y)[Len(x) + 1] = 1
    <3>1. Len(x) + 1 \in 1 .. (Len(x) + Len(y)) /\ ~(Len(x) + 1 <= Len(x)) /\ (Len(x) + 1) - Len(x) = 1
      BY <2>1
    <3> QED BY <1>2, <2>1, <3>1
  <2>4. IsFiniteSet(Ones(x)) /\ IsFiniteSet(Ones(x \o y))
    <3>1. IsFiniteSet(1 .. Len(x)) /\ IsFiniteSet(1 .. Len(x \o y))
      BY <2>1, FS_Interval
    <3> QED BY <3>1, FS_Subset
  <2>5. IsFiniteSet(more) /\ Cardinality(more) = Cardinality(Ones(x)) + 1
    <3>1. Len(x) + 1 \notin Ones(x)
      BY <2>1
    <3> QED BY <2>4, <3>1, FS_AddElement
  <2>6. more \subseteq Ones(x \o y)
    <3>1. \A b \in Ones(x) : b \in Ones(x \o y)
      BY <2>1, <2>2
    <3>2. Len(x) + 1 \in Ones(x \o y)
      BY <2>1, <2>3
    <3> QED BY <3>1, <3>2
  <2>7. y = << 1 >> => Ones(x \o y) \subseteq more
    <3> SUFFICES ASSUME y = << 1 >>, NEW b \in Ones(x \o y) PROVE b \in more
      OBVIOUS
    <3>1. b \in 1 .. (Len(x) + 1) /\ (x \o y)[b] = 1
      BY <2>1
    <3>2. CASE b = Len(x) + 1
      BY <3>2
    <3>3. CASE b # Len(x) + 1
      <4>1. b \in 1 .. Len(x)
        BY <2>1, <3>1, <3>3
      <4> QED BY <2>2, <3>1, <4>1
    <3> QED BY <3>2, <3>3
  <2> HIDE DEF Ones, more
  <2>8. Cardinality(more) <= Cardinality(Ones(x \o y))
    BY <2>4, <2>6, FS_Subset
  <2>9. y = << 1 >> => Ones(x \o y) = more
    BY <2>6, <2>7
  <2>10. Cardinality(Ones(x)) \in Nat /\ Cardinality(Ones(x \o y)) \in Nat
    BY <2>4, FS_CardinalityType
  <2> QED BY <2>5, <2>8, <2>9, <2>10
<1> HIDE DEF Ones
<1>3. Bytes(Append(text, ch)) = Bytes(text) \o Spelling(ch)
  BY BytesNext
<1>4. /\ Bytes(text) \in Seq(Nat) /\ Spelling(ch) \in Seq(Nat)
      /\ Spelling(ch) # << >> /\ Spelling(ch)[1] = 1
      /\ ch = LF => Spelling(ch) = << 1 >>
  BY BytesAreSeq, SpellingFacts
<1>5. /\ Cardinality(Ones(Bytes(text))) < Cardinality(Ones(Bytes(text) \o Spelling(ch)))
      /\ Spelling(ch) = << 1 >> => Cardinality(Ones(Bytes(text) \o Spelling(ch)))
                                     = Cardinality(Ones(Bytes(text))) + 1
  BY <1>2, <1>4
<1> QED BY <1>1, <1>3, <1>4, <1>5

LEMMA CountNone ==
    ASSUME NEW text PROVE Count(text, 0) = 0
<1>1. SubSeq(text, 1, 0) = << >>
  BY SubSeqEmpty
<1>2. {b \in 1 .. ByteLen(<< >>) : Bytes(<< >>)[b] = 1} = {}
  BY BytesNone
<1>3. CharLen(<< >>) = 0
  BY <1>2, FS_EmptySet DEF CharLen
<1> QED BY <1>1, <1>3 DEF Count

LEMMA CountNext ==
    ASSUME NEW text \in Seq(Chars), NEW i \in 1 .. Len(text)
    PROVE  /\ Count(text, i) \in Nat /\ Count(text, i - 1) \in Nat
           /\ Count(text, i - 1) < Count(text, i)
           /\ text[i] = LF => Count(text, i) = Count(text, i - 1) + 1
<1> DEFINE s == SubSeq(text, 1, i - 1)
<1>1. i - 1 \in 0 .. Len(text) /\ i \in 0 .. Len(text) /\ text[i] \in Chars
  BY ElementOfSeq
<1>2. s \in Seq(Chars) /\ SubSeq(text, 1, i) \in Seq(Chars)
  BY <1>1, PrefixIsText
<1>3. SubSeq(text, 1, i) = Append(s, text[i])
  BY PrefixNext
<1>4. Count(text, i) = CharLen(Append(s, text[i])) /\ Count(text, i - 1) = CharLen(s)
  BY <1>3 DEF Count
<1>5. Count(text, i) \in Nat /\ Count(text, i - 1) \in Nat
  BY <1>2, CharsAreCounted DEF Count
<1>6. /\ CharLen(s) < CharLen(Append(s, text[i]))
      /\ text[i] = LF => CharLen(Append(s, text[i])) = CharLen(s) + 1
  <2> HIDE DEF s
  <2> QED BY <1>1, <1>2, CharsNext
<1> HIDE DEF s
<1> QED BY <1>4, <1>5, <1>6

LEMMA CountGrows ==
    ASSUME NEW text \in Seq(Chars), NEW i \in 0 .. Len(text), NEW j \in i .. Len(text)
    PROVE  /\ Count(text, i) \in Nat /\ Count(text, j) \in Nat
           /\ Count(text, i) <= Count(text, j)
           /\ i < j => Count(text, i) < Count(text, j)
<1>1. \A k \in 0 .. Len(text) : Count(text, k) \in Nat
  BY PrefixIsText, CharsAreCounted DEF Count
<1> DEFINE T == {k \in Nat : i + k + 1 <= Len(text) /\ ~(Count(text, i) < Count(text, i + k + 1))}
<1>2. 0 \notin T
  <2> SUFFICES ASSUME i + 1 <= Len(text) PROVE Count(text, i) < Count(text, i + 1)
    OBVIOUS
  <2>1. i + 1 \in 1 .. Len(text) /\ (i + 1) - 1 = i
    OBVIOUS
  <2> QED BY <2>1, CountNext
<1>3. ASSUME NEW k \in Nat, k + 1 \in T PROVE k \in T
  <2>1. i + k + 2 \in 1 .. Len(text) /\ (i + k + 2) - 1 = i + k + 1 /\ i + (k + 1) + 1 = i + k + 2
    BY <1>3
  <2>2. Count(text, i + k + 1) < Count(text, i + k + 2)
    BY <2>1, CountNext
  <2>3. ~(Count(text, i) < Count(text, i + k + 2))
    BY <1>3, <2>1
  <2>4. Count(text, i) \in Nat /\ Count(text, i + k + 1) \in Nat /\ Count(text, i + k + 2) \in Nat
    BY <1>1, <2>1
  <2>5. ~(Count(text, i) < Count(text, i + k + 1)) /\ i + k + 1 <= Len(text)
    BY <2>1, <2>2, <2>3, <2>4
  <2> QED BY <2>5
<1> HIDE DEF T
<1>4. T = {}
  BY <1>2, <1>3, NatLeast DEF T
<1>5. ASSUME i < j PROVE Count(text, i) < Count(text, j)
  <2>1. PICK k \in Nat : i + k + 1 = j
    <3>1. j - i - 1 \in Nat /\ i + (j - i - 1) + 1 = j
      BY <1>5
    <3> QED BY <3>1
  <2>2. k \notin T
    BY <1>4
  <2> QED BY <2>1, <2>2 DEF T
<1>6. j \in 0 .. Len(text)
  OBVIOUS
<1>7. Count(text, i) \in Nat /\ Count(text, j) \in Nat
  BY <1>1, <1>6
<1>8. i = j => Count(text, i) <= Count(text, j)
  BY <1>7
<1> QED BY <1>5, <1>7, <1>8

-----------------------------------------------------------------------------
(* Lines *)

LEMMA LineEndsNone ==
    ASSUME NEW text PROVE LineEnds(text, 0) = 0
<1>1. {j \in 1 .. 0 : text[j] = LF} = {}
  OBVIOUS
<1> QED BY <1>1, FS_EmptySet DEF LineEnds

LEMMA LineEndsNext ==
    ASSUME NEW text, NEW i \in Nat \ {0}
    PROVE  /\ LineEnds(text, i) \in Nat /\ LineEnds(text, i - 1) \in Nat
           /\ text[i] = LF => LineEnds(text, i) = LineEnds(text, i - 1) + 1
           /\ text[i] # LF => LineEnds(text, i) = LineEnds(text, i - 1)
<1> DEFINE Ends(k) == {j \in 1 .. k : text[j] = LF}
<1>1. \A k : LineEnds(text, k) = Cardinality(Ends(k))
  BY DEF LineEnds
<1>2. IsFiniteSet(Ends(i)) /\ IsFiniteSet(Ends(i - 1))
  <2>1. IsFiniteSet(1 .. i) /\ IsFiniteSet(1 .. (i - 1))
    BY FS_Interval
  <2> QED BY <2>1, FS_Subset
<1>3. i \notin Ends(i - 1)
  OBVIOUS
<1>4. text[i] = LF => Ends(i) = Ends(i - 1) \cup {i}
  OBVIOUS
<1>5. text[i] # LF => Ends(i) = Ends(i - 1)
  OBVIOUS
<1> HIDE DEF Ends
<1>6. Cardinality(Ends(i - 1) \cup {i}) = Cardinality(Ends(i - 1)) + 1
  BY <1>2, <1>3, FS_AddElement
<1>7. Cardinality(Ends(i)) \in Nat /\ Cardinality(Ends(i - 1)) \in Nat
  BY <1>2, FS_CardinalityType
<1> QED BY <1>1, <1>4, <1>5, <1>6, <1>7

LEMMA LineEndsAscend ==
    ASSUME NEW text, NEW i \in Nat, NEW j \in Nat, i <= j
    PROVE  /\ LineEnds(text, i) \in Nat /\ LineEnds(text, j) \in Nat
           /\ LineEnds(text, i) <= LineEnds(text, j)
<1>1. \A k \in Nat : LineEnds(text, k) \in Nat
  BY LineEndsNone, LineEndsNext
<1> DEFINE T == {k \in Nat : ~(LineEnds(text, i) <= LineEnds(text, i + k))}
<1>2. 0 \notin T
  BY <1>1
<1>3. ASSUME NEW k \in Nat, k + 1 \in T PROVE k \in T
  <2>1. i + k + 1 \in Nat \ {0} /\ (i + k + 1) - 1 = i + k /\ i + (k + 1) = i + k + 1
    OBVIOUS
  <2>2. LineEnds(text, i + k) <= LineEnds(text, i + k + 1)
    BY <1>1, <2>1, LineEndsNext
  <2>3. ~(LineEnds(text, i) <= LineEnds(text, i + k + 1))
    BY <1>3, <2>1
  <2>4. LineEnds(text, i) \in Nat /\ LineEnds(text, i + k) \in Nat /\ LineEnds(text, i + k + 1) \in Nat
    BY <1>1
  <2>5. ~(LineEnds(text, i) <= LineEnds(text, i + k))
    BY <2>2, <2>3, <2>4
  <2> QED BY <2>5
<1> HIDE DEF T
<1>4. T = {}
  BY <1>2, <1>3, NatLeast DEF T
<1>5. PICK k \in Nat : i + k = j
  <2>1. j - i \in Nat /\ i + (j - i) = j
    OBVIOUS
  <2> QED BY <2>1
<1>6. k \notin T
  BY <1>4
<1> QED BY <1>1, <1>5, <1>6 DEF T

LEMMA LinesAreCounted ==
    ASSUME NEW text \in Seq(Chars)
    PROVE  LineCount(text) \in Nat /\ Len(Segments(text)) = LineCount(text)
<1>1. Len(text) \in Nat /\ (text # << >> => Len(text) - 1 \in Nat)
  BY EmptySeq, LenProperties
<1>2. text # << >> => LineEnds(text, Len(text) - 1) \in Nat
  BY <1>1, LineEndsAscend
<1>3. LineCount(text) \in Nat
  BY <1>2 DEF LineCount
<1> QED BY <1>3 DEF Segments

(* A line is what lies between two line ends, the second one included, and *)
(* every place behind as many line ends is on it.                          *)
LEMMA LineFacts ==
    ASSUME NEW text \in Seq(Chars), NEW l \in 1 .. LineCount(text),
           NEW first, NEW last,
           first = Segments(text)[l].first, last = Segments(text)[l].last
    PROVE  /\ first \in 1 .. Len(text) /\ last \in first .. Len(text)
           /\ \A i \in 1 .. Len(text) :
                 LineEnds(text, i - 1) = l - 1 <=> first <= i /\ i <= last
           /\ \A i \in first .. (last - 1) : text[i] # LF
           /\ first > 1 => text[first - 1] = LF
           /\ last < Len(text) => text[last] = LF
<1> DEFINE n == Len(text)
           line == {i \in 1 .. n : LineEnds(text, i - 1) = l - 1}
           ends(i) == LineEnds(text, i)
<1>1. LineCount(text) \in Nat /\ n \in Nat
  BY LinesAreCounted
<1>2. text # << >> /\ n # 0
  <2>1. text # << >>
    BY DEF LineCount
  <2> QED BY <2>1, EmptySeq
<1>3. LineCount(text) = ends(n - 1) + 1
  BY <1>2 DEF LineCount
<1>4. \A i, j \in Nat : i <= j => ends(i) \in Nat /\ ends(j) \in Nat /\ ends(i) <= ends(j)
  BY LineEndsAscend
<1>5. \A i \in Nat \ {0} : /\ text[i] = LF => ends(i) = ends(i - 1) + 1
                           /\ text[i] # LF => ends(i) = ends(i - 1)
  BY LineEndsNext
<1>6. ends(0) = 0
  BY LineEndsNone
<1>7. /\ first = Min(line) /\ last = Max(line)
  BY DEF Segments
<1>8. \A i : i \in line <=> i \in 1 .. n /\ ends(i - 1) = l - 1
  OBVIOUS
<1>9. line # {}
  <2> DEFINE T == {i \in 0 .. (n - 1) : l - 1 <= ends(i)}
  <2>1. n - 1 \in T
    <3>1. l - 1 <= ends(n - 1)
      <4>1. n - 1 \in Nat
        BY <1>1, <1>2
      <4>2. ends(n - 1) \in Nat
        BY <1>4, <4>1
      <4> HIDE DEF ends, n
      <4> QED BY <1>1, <1>3, <4>2
    <3> QED BY <1>1, <1>2, <3>1
  <2>2. T \subseteq Nat /\ T # {}
    BY <2>1
  <2>3. PICK i \in T : \A j \in T : i <= j
    <3> HIDE DEF T
    <3> QED BY <2>2, LeastOfNaturals
  <2>4. i \in 0 .. (n - 1) /\ l - 1 <= ends(i) /\ ends(i) \in Nat
    <3>1. i \in 0 .. (n - 1) /\ l - 1 <= ends(i)
      BY <2>3
    <3> HIDE DEF ends
    <3> QED BY <1>4, <3>1
  <2>5. ends(i) <= l - 1
    <3>1. CASE i = 0
      <4> HIDE DEF ends
      <4> QED BY <1>1, <1>6, <3>1
    <3>2. CASE i # 0
      <4>1. i - 1 \in 0 .. (n - 1) /\ i \in Nat \ {0} /\ i - 1 \in Nat
        BY <2>4, <3>2
      <4>2. ~(l - 1 <= ends(i - 1))
        BY <2>3, <4>1
      <4>3. ends(i - 1) \in Nat
        BY <4>1, LineEndsNext
      <4>4. ends(i) = ends(i - 1) + 1 \/ ends(i) = ends(i - 1)
        <5> HIDE DEF ends
        <5> QED BY <1>5, <4>1
      <4> HIDE DEF ends, T
      <4> QED BY <1>1, <4>2, <4>3, <4>4
    <3> QED BY <3>1, <3>2
  <2>6. i + 1 \in 1 .. n /\ (i + 1) - 1 = i
    BY <1>1, <2>4
  <2>7. ends(i) = l - 1
    <3> HIDE DEF ends
    <3> QED BY <1>1, <2>4, <2>5
  <2>8. i + 1 \in line
    BY <2>6, <2>7
  <2> QED BY <2>8
<1> HIDE DEF line, ends, n
<1>10. line \subseteq Nat /\ line \in SUBSET (0 .. n)
  BY <1>1, <1>8
<1>11. first \in line /\ \A j \in line : first <= j
  <2>1. Min(line) \in line /\ \A j \in line : Min(line) <= j
    BY <1>9, <1>10, LeastOfNaturals
  <2> QED BY <1>7, <2>1, Zenon
<1>12. last \in line /\ \A j \in line : j <= last
  BY <1>1, <1>7, <1>9, <1>10, GreatestOfInterval
<1>13. first \in 1 .. n /\ last \in first .. n
  BY <1>1, <1>8, <1>11, <1>12
<1>14. ASSUME NEW i \in 1 .. n
       PROVE  ends(i - 1) = l - 1 <=> first <= i /\ i <= last
  <2>1. ASSUME ends(i - 1) = l - 1 PROVE first <= i /\ i <= last
    BY <1>8, <1>11, <1>12, <2>1
  <2>2. ASSUME first <= i, i <= last PROVE ends(i - 1) = l - 1
    <3>1. /\ first - 1 \in Nat /\ i - 1 \in Nat /\ last - 1 \in Nat
          /\ first - 1 <= i - 1 /\ i - 1 <= last - 1
      <4>1. \A f, e \in 1 .. n : f <= i /\ i <= e =>
               /\ f - 1 \in Nat /\ i - 1 \in Nat /\ e - 1 \in Nat
               /\ f - 1 <= i - 1 /\ i - 1 <= e - 1
        BY <1>1
      <4>2. first \in 1 .. n /\ last \in 1 .. n
        BY <1>1, <1>13
      <4> QED BY <2>2, <4>1, <4>2, Zenon
    <3>2. /\ ends(first - 1) <= ends(i - 1) /\ ends(i - 1) <= ends(last - 1)
          /\ ends(i - 1) \in Nat
      BY <1>4, <3>1
    <3>3. ends(first - 1) = l - 1 /\ ends(last - 1) = l - 1
      BY <1>8, <1>11, <1>12
    <3> QED BY <1>1, <3>2, <3>3
  <2> QED BY <2>1, <2>2
<1>15. ASSUME NEW i \in first .. (last - 1) PROVE text[i] # LF
  <2>1. i \in 1 .. n /\ i + 1 \in 1 .. n /\ (i + 1) - 1 = i /\ i \in Nat \ {0}
        /\ first <= i + 1 /\ i + 1 <= last /\ i <= last /\ first <= i
    BY <1>1, <1>13
  <2>2. ends(i - 1) = l - 1 /\ ends(i) = l - 1
    BY <1>14, <2>1
  <2> QED BY <1>1, <1>5, <2>1, <2>2
<1>16. ASSUME first > 1 PROVE text[first - 1] = LF
  <2>1. /\ first - 1 \in 1 .. n /\ first - 1 \in Nat \ {0} /\ ~(first <= first - 1)
    BY <1>1, <1>13, <1>16
  <2>2. ends((first - 1) - 1) # l - 1 /\ ends(first - 1) = l - 1
    BY <1>8, <1>11, <1>14, <2>1
  <2> QED BY <1>5, <2>1, <2>2
<1>17. ASSUME last < n PROVE text[last] = LF
  <2>1. last + 1 \in 1 .. n /\ (last + 1) - 1 = last /\ ~(last + 1 <= last) /\ last \in Nat \ {0}
    BY <1>1, <1>13, <1>17
  <2>2. ends(last) # l - 1 /\ ends(last - 1) = l - 1
    BY <1>8, <1>12, <1>14, <2>1
  <2> QED BY <1>5, <2>1, <2>2
<1> QED BY <1>13, <1>14, <1>15, <1>16, <1>17 DEF n, ends

LEMMA StrippedPart ==
    ASSUME NEW text \in Seq(Chars), NEW i \in 0 .. Len(text), NEW j \in i .. Len(text),
           NEW ch
    PROVE  \E h \in i .. j :
              /\ strip_suffix(SubSeq(text, i + 1, j), ch) = SubSeq(text, i + 1, h)
              /\ h = j \/ (h = j - 1 /\ text[j] = ch)
              /\ h = j => j = i \/ text[j] # ch
<1> DEFINE s == SubSeq(text, i + 1, j)
<1>1. s \in Seq(Chars) /\ Len(s) = j - i
  BY WidthOfPart
<1>2. CASE j = i
  <2>1. s = << >> /\ j \in i .. j
    BY <1>1, <1>2
  <2>2. strip_suffix(s, ch) = SubSeq(text, i + 1, j)
    BY <2>1, Zenon DEF strip_suffix
  <2> QED BY <1>2, <2>1, <2>2
<1>3. CASE j # i
  <2>1. s # << >> /\ i + 1 \in 1 .. Len(text) /\ j \in (i + 1) .. Len(text)
    BY <1>1, <1>3
  <2>2. s[Len(s)] = text[j]
    <3>1. \A k \in (i + 1) .. j : text[k] \in Chars
      BY ElementOfSeq
    <3>2. \A k \in 1 .. (j - (i + 1) + 1) : s[k] = text[i + 1 + k - 1]
      BY <3>1, SubSeqProperties
    <3>3. Len(s) \in 1 .. (j - (i + 1) + 1) /\ i + 1 + Len(s) - 1 = j
      BY <1>1, <1>3
    <3> QED BY <3>2, <3>3
  <2>3. Front(s) = SubSeq(text, i + 1, j - 1)
    <3>1. Front(s) = SubSeq(s, 1, Len(s) - 1)
      BY DEF Front
    <3>2. CASE Len(s) = 1
      <4>1. SubSeq(s, 1, Len(s) - 1) = << >> /\ SubSeq(text, i + 1, j - 1) = << >>
        BY <1>1, <3>2, SubSeqEmpty
      <4> QED BY <3>1, <4>1
    <3>3. CASE Len(s) # 1
      <4>1. /\ i + 1 \in 1 .. Len(text) /\ j \in 1 .. Len(text)
            /\ 1 \in 1 .. (j - (i + 1) + 1) /\ Len(s) - 1 \in 1 .. (j - (i + 1) + 1)
            /\ i + 1 + 1 - 1 = i + 1 /\ i + 1 + (Len(s) - 1) - 1 = j - 1
        BY <1>1, <2>1, <3>3
      <4>2. SubSeq(SubSeq(text, i + 1, j), 1, Len(s) - 1)
              = SubSeq(text, i + 1 + 1 - 1, i + 1 + (Len(s) - 1) - 1)
        BY <4>1, SubSeqOfSubSeq
      <4> QED BY <3>1, <4>1, <4>2
    <3> QED BY <3>2, <3>3
  <2>4. j - 1 \in i .. j /\ j \in i .. j
    BY <1>3
  <2>5. CASE text[j] = ch
    <3>1. strip_suffix(s, ch) = SubSeq(text, i + 1, j - 1)
      BY <2>1, <2>2, <2>3, <2>5, Zenon DEF strip_suffix
    <3>2. PICK h \in i .. j : h = j - 1 /\ h # j
      BY <2>4
    <3> QED BY <2>5, <3>1, <3>2
  <2>6. CASE text[j] # ch
    <3>1. strip_suffix(s, ch) = SubSeq(text, i + 1, j)
      BY <2>2, <2>6, Zenon DEF strip_suffix
    <3> QED BY <2>4, <2>6, <3>1
  <2> QED BY <2>5, <2>6
<1> QED BY <1>2, <1>3

(* What is parsed of a line is the line without its end.                   *)
LEMMA LineOfFacts ==
    ASSUME NEW text \in Seq(Chars), NEW l \in 1 .. LineCount(text),
           NEW segment, segment = Segments(text)[l]
    PROVE  \E h \in (segment.first - 1) .. segment.last :
              /\ LineOf(text, segment) = SubSeq(text, segment.first, h)
              /\ \A i \in segment.first .. h : text[i] # LF
              /\ \A i \in (h + 1) .. segment.last : text[i] \in {LF, CR}
<1>1. PICK first \in 1 .. Len(text), last \in 1 .. Len(text) :
         /\ segment.first = first /\ segment.last = last /\ first <= last
         /\ \A k \in first .. (last - 1) : text[k] # LF
  BY LineFacts
<1>2. PICK i \in 0 .. Len(text) : i + 1 = first
  <2>1. first - 1 \in 0 .. Len(text) /\ (first - 1) + 1 = first
    OBVIOUS
  <2> QED BY <2>1
<1>3. last \in i .. Len(text) /\ last # i
  BY <1>1, <1>2
<1>4. PICK g \in i .. last :
         /\ strip_suffix(SubSeq(text, i + 1, last), LF) = SubSeq(text, i + 1, g)
         /\ g = last \/ (g = last - 1 /\ text[last] = LF)
         /\ g = last => last = i \/ text[last] # LF
  <2>1. \A ch : \E g \in i .. last :
           /\ strip_suffix(SubSeq(text, i + 1, last), ch) = SubSeq(text, i + 1, g)
           /\ g = last \/ (g = last - 1 /\ text[last] = ch)
           /\ g = last => last = i \/ text[last] # ch
    BY <1>3, StrippedPart, Zenon
  <2> QED BY <2>1, Zenon
<1>5. PICK h \in i .. g :
         /\ strip_suffix(SubSeq(text, i + 1, g), CR) = SubSeq(text, i + 1, h)
         /\ h = g \/ (h = g - 1 /\ text[g] = CR)
  <2>1. g \in i .. Len(text)
    BY <1>3
  <2>2. \A ch : \E h \in i .. g :
           /\ strip_suffix(SubSeq(text, i + 1, g), ch) = SubSeq(text, i + 1, h)
           /\ h = g \/ (h = g - 1 /\ text[g] = ch)
           /\ h = g => g = i \/ text[g] # ch
    BY <2>1, StrippedPart, Zenon
  <2> QED BY <2>2, Zenon
<1>6. h \in i .. last
  BY <1>3
<1>7. ASSUME NEW k \in first .. h PROVE text[k] # LF
  <2>1. k \in first .. (last - 1) \/ (k = last /\ g = last)
    BY <1>2, <1>3
  <2> QED BY <1>1, <1>3, <1>4, <2>1
<1>8. ASSUME NEW k \in (h + 1) .. last PROVE text[k] \in {LF, CR}
  <2>1. (k = last /\ g = last - 1) \/ (k = g /\ h = g - 1)
    BY <1>3, <1>4, <1>5
  <2>2. k = last /\ g = last - 1 => text[k] = LF
    BY <1>3, <1>4
  <2>3. k = g /\ h = g - 1 => text[k] = CR
    BY <1>5
  <2> QED BY <2>1, <2>2, <2>3
<1>9. LineOf(text, segment) = SubSeq(text, first, h)
  BY <1>1, <1>2, <1>4, <1>5, Zenon DEF LineOf
<1>10. h \in (segment.first - 1) .. segment.last
  BY <1>1, <1>2, <1>6
<1> QED BY <1>1, <1>7, <1>8, <1>9, <1>10

-----------------------------------------------------------------------------
(* Names *)

LEMMA TrimStart ==
    ASSUME NEW line \in Seq(Chars), NEW from \in 1 .. (Len(line) + 1),
           NEW k, k = trim_start(line, from)
    PROVE  /\ k \in from .. (Len(line) + 1)
           /\ \A j \in from .. (k - 1) : IsWhitespace(line[j])
           /\ k <= Len(line) => ~IsWhitespace(line[k])
<1> DEFINE S == {i \in from .. (Len(line) + 1) : i <= Len(line) => ~IsWhitespace(line[i])}
<1>1. Len(line) + 1 \in S
  OBVIOUS
<1>2. S \subseteq Nat
  OBVIOUS
<1>3. PICK i \in S : \A j \in S : i <= j
  <2> HIDE DEF S
  <2> QED BY <1>1, <1>2, LeastOfNaturals
<1>4. \A j \in from .. (i - 1) : IsWhitespace(line[j])
  <2> SUFFICES ASSUME NEW j \in from .. (i - 1), ~IsWhitespace(line[j]) PROVE FALSE
    OBVIOUS
  <2>1. j \in S
    BY <1>3
  <2> QED BY <1>3, <2>1
<1>5. /\ i \in from .. (Len(line) + 1)
      /\ i <= Len(line) => ~IsWhitespace(line[i])
  BY <1>3
<1>6. \E m \in from .. (Len(line) + 1) :
         /\ \A j \in from .. (m - 1) : IsWhitespace(line[j])
         /\ m <= Len(line) => ~IsWhitespace(line[m])
  BY <1>4, <1>5
<1> QED BY <1>6, Zenon DEF trim_start

LEMMA TrimEnd ==
    ASSUME NEW text \in Seq(Chars)
    PROVE  \E n \in 0 .. Len(text) :
              /\ trim_end(text) = SubSeq(text, 1, n)
              /\ n > 0 => ~IsWhitespace(text[n])
<1> DEFINE S == {i \in 0 .. Len(text) : i > 0 => ~IsWhitespace(text[i])}
           IsEnd(n) == /\ \A j \in (n + 1) .. Len(text) : IsWhitespace(text[j])
                       /\ n > 0 => ~IsWhitespace(text[n])
<1>1. 0 \in S
  OBVIOUS
<1>2. S \in SUBSET (0 .. Len(text)) /\ Len(text) \in Nat
  OBVIOUS
<1>3. PICK i \in S : \A j \in S : j <= i
  <2> HIDE DEF S
  <2> QED BY <1>1, <1>2, GreatestOfInterval
<1>4. \A j \in (i + 1) .. Len(text) : IsWhitespace(text[j])
  <2> SUFFICES ASSUME NEW j \in (i + 1) .. Len(text), ~IsWhitespace(text[j]) PROVE FALSE
    OBVIOUS
  <2>1. j \in S
    BY <1>3
  <2> QED BY <1>3, <2>1
<1>5. \E n \in 0 .. Len(text) : IsEnd(n)
  BY <1>3, <1>4
<1>6. PICK n : n = CHOOSE m \in 0 .. Len(text) : IsEnd(m)
  OBVIOUS
<1>7. n \in 0 .. Len(text) /\ IsEnd(n)
  <2> HIDE DEF IsEnd
  <2> QED BY <1>5, <1>6
<1>8. trim_end(text) = SubSeq(text, 1, n)
  BY <1>6, Zenon DEF trim_end
<1> QED BY <1>7, <1>8

(* Parts of at most one character are no more characters than parts.       *)
LEMMA KeptIsShort ==
    ASSUME NEW seqs \in Seq(Seq(Chars)),
           \A i \in 1 .. Len(seqs) : Len(seqs[i]) <= 1
    PROVE  FlattenSeq(seqs) \in Seq(Chars) /\ Len(FlattenSeq(seqs)) <= Len(seqs)
<1> DEFINE Short(x) == x \in Seq(Seq(Chars)) /\ \A i \in 1 .. Len(x) : Len(x[i]) <= 1
           T == {n \in Nat : \E x : /\ Short(x) /\ Len(x) = n
                                    /\ ~(FlattenSeq(x) \in Seq(Chars) /\ Len(FlattenSeq(x)) <= n)}
<1>1. 0 \notin T
  <2> SUFFICES ASSUME NEW x, Short(x), Len(x) = 0
               PROVE  FlattenSeq(x) \in Seq(Chars) /\ Len(FlattenSeq(x)) <= 0
    OBVIOUS
  <2>1. x = << >>
    BY EmptySeq
  <2>2. FlattenSeq(x) = << >>
    BY <2>1 DEF FlattenSeq
  <2> QED BY <2>2, EmptySeq
<1>2. ASSUME NEW m \in Nat, m + 1 \in T PROVE m \in T
  <2>1. PICK x : /\ Short(x) /\ Len(x) = m + 1
                 /\ ~(FlattenSeq(x) \in Seq(Chars) /\ Len(FlattenSeq(x)) <= m + 1)
    BY <1>2
  <2>2. x[m + 1] \in Seq(Chars) /\ Len(x[m + 1]) <= 1 /\ Len(x[m + 1]) \in Nat
    <3>1. m + 1 \in 1 .. Len(x)
      BY <2>1
    <3>2. x[m + 1] \in Seq(Chars)
      BY <2>1, <3>1, ElementOfSeq
    <3> QED BY <2>1, <3>1, <3>2
  <2>3. CASE m = 0
    <3>1. FlattenSeq(x) = x[1]
      BY <2>1, <2>3, FlattenOne
    <3> QED BY <2>1, <2>2, <2>3, <3>1
  <2>4. CASE m # 0
    <3> DEFINE front == SubSeq(x, 1, m)
    <3>1. \A i \in 1 .. m : x[i] \in Seq(Chars)
      BY <2>1, ElementOfSeq
    <3>2. /\ front \in Seq(Seq(Chars)) /\ Len(front) = m
          /\ \A i \in 1 .. m : front[i] = x[i]
      BY <2>4, <3>1, SubSeqProperties
    <3>3. Short(front)
      BY <2>1, <3>2
    <3> HIDE DEF front
    <3>4. FlattenSeq(x) = FlattenSeq(front) \o x[m + 1]
      <4>1. m \in Nat \ {0} /\ \A i \in 1 .. m : x[i] = front[i]
        BY <2>4, <3>2
      <4> QED BY <2>1, <3>2, <4>1, FlattenNext
    <3>5. SUFFICES ASSUME FlattenSeq(front) \in Seq(Chars), Len(FlattenSeq(front)) <= m
                   PROVE  FALSE
      <4> HIDE DEF Short
      <4> QED BY <3>2, <3>3
    <3>6. /\ FlattenSeq(front) \o x[m + 1] \in Seq(Chars)
          /\ Len(FlattenSeq(front) \o x[m + 1]) = Len(FlattenSeq(front)) + Len(x[m + 1])
      BY <2>2, <3>5, ConcatProperties
    <3>7. Len(FlattenSeq(front)) \in Nat
      BY <3>5
    <3>8. Len(FlattenSeq(x)) <= m + 1
      BY <2>2, <3>4, <3>5, <3>6, <3>7
    <3> QED BY <2>1, <3>4, <3>6, <3>8
  <2> QED BY <2>3, <2>4
<1>3. Short(seqs) /\ Len(seqs) \in Nat
  BY LenProperties
<1> HIDE DEF T, Short
<1>4. T = {}
  BY <1>1, <1>2, NatLeast DEF T
<1> QED BY <1>3, <1>4 DEF T

(* A prefix of a prefix is one of the text.                                *)
LEMMA PrefixOfPrefix ==
    ASSUME NEW text \in Seq(Chars), NEW m \in 0 .. Len(text), NEW n \in 0 .. m
    PROVE  SubSeq(SubSeq(text, 1, m), 1, n) = SubSeq(text, 1, n)
<1>1. CASE n = 0
  <2>1. SubSeq(SubSeq(text, 1, m), 1, 0) = << >> /\ SubSeq(text, 1, 0) = << >>
    BY SubSeqEmpty
  <2> QED BY <1>1, <2>1
<1>2. CASE n # 0
  <2>1. /\ 1 \in 1 .. Len(text) /\ m \in 1 .. Len(text)
        /\ 1 \in 1 .. (m - 1 + 1) /\ n \in 1 .. (m - 1 + 1)
        /\ 1 + 1 - 1 = 1 /\ 1 + n - 1 = n
    BY <1>2
  <2>2. SubSeq(SubSeq(text, 1, m), 1, n) = SubSeq(text, 1 + 1 - 1, 1 + n - 1)
    BY <2>1, SubSeqOfSubSeq
  <2> QED BY <2>1, <2>2
<1> QED BY <1>1, <1>2

(* The name of a value is what lies between two places in it.              *)
IsSpan(span, value, a, b) ==
    /\ span.start = Width(value, a - 1)
    /\ span.end = Width(value, b)
    /\ span.name \in Seq(Chars)
    /\ Len(span.name) <= b - a + 1

LEMMA QuotedSpan ==
    ASSUME NEW value \in Seq(Chars), value # << >>, value[1] = Quote,
           NEW span, span = parse_schema_name_value_span(value), span.name # << >>
    PROVE  \E b \in 2 .. Len(value) : IsSpan(span, value, 2, b)
<1> DEFINE closing == {i \in 2 .. Len(value) : value[i] = Quote /\ ~Escaped(value, i)}
           last == IF closing = {} THEN Len(value) ELSE Min(closing) - 1
           raw == SubSeq(value, 2, last)
           kept == [i \in 1 .. Len(raw) |->
                      IF raw[i] = Escape /\ ~Escaped(value, i + 1) THEN << >>
                      ELSE << raw[i] >>]
<1>1. span = [name |-> FlattenSeq(kept), start |-> 1, end |-> 1 + ByteLen(raw)]
  BY Zenon DEF parse_schema_name_value_span
<1>2. last \in 1 .. Len(value) /\ 1 \in 1 .. Len(value)
  <2>1. Len(value) \in Nat \ {0}
    BY EmptySeq
  <2>2. CASE closing = {}
    BY <2>1, <2>2
  <2>3. CASE closing # {}
    <3>1. closing \subseteq Nat /\ closing \subseteq 2 .. Len(value)
      BY <2>1
    <3>2. Min(closing) \in closing
      <4> HIDE DEF closing
      <4> QED BY <2>3, <3>1, LeastOfNaturals
    <3>3. last = Min(closing) - 1 /\ Min(closing) \in 2 .. Len(value)
      <4> HIDE DEF closing
      <4> QED BY <2>3, <3>1, <3>2
    <3> HIDE DEF closing, last
    <3> QED BY <2>1, <3>3
  <2> QED BY <2>2, <2>3
<1> HIDE DEF closing, last
<1>3. /\ raw \in Seq(Chars) /\ Len(raw) = last - 1
      /\ Width(value, 1) + ByteLen(raw) = Width(value, last)
  <2>1. 1 \in 0 .. Len(value) /\ last \in 1 .. Len(value) /\ 1 + 1 = 2
    BY <1>2
  <2> QED BY <2>1, WidthOfPart
<1>4. Width(value, 1) = 1
  <2>1. 1 - 1 = 0 /\ Width(value, 0) = 0 /\ value[1] \in {LF, Quote}
    BY WidthNone
  <2>2. Width(value, 1) = Width(value, 1 - 1) + 1
    BY <1>2, <2>1, WidthNext
  <2> QED BY <2>1, <2>2
<1>5. FlattenSeq(kept) \in Seq(Chars) /\ Len(FlattenSeq(kept)) <= Len(raw)
  <2>1. /\ Len(raw) \in Nat
        /\ \A i \in 1 .. Len(raw) : raw[i] \in Chars
    BY <1>3, ElementOfSeq, LenProperties
  <2> HIDE DEF raw
  <2>2. \A i \in 1 .. Len(raw) : kept[i] \in Seq(Chars) /\ Len(kept[i]) <= 1
    BY <2>1
  <2>3. kept \in Seq(Seq(Chars)) /\ Len(kept) = Len(raw)
    BY <2>1
  <2> HIDE DEF kept
  <2> QED BY <2>2, <2>3, KeptIsShort
<1> HIDE DEF kept, raw
<1>6. /\ span.name = FlattenSeq(kept) /\ span.start = 1 /\ span.end = 1 + ByteLen(raw)
  BY <1>1
<1>7. last # 1
  <2> SUFFICES ASSUME last = 1 PROVE FALSE
    OBVIOUS
  <2>1. Len(span.name) <= 0
    BY <1>3, <1>5, <1>6
  <2> QED BY <1>5, <1>6, <2>1, EmptySeq
<1>8. last \in 2 .. Len(value)
  BY <1>2, <1>7
<1>9. IsSpan(span, value, 2, last)
  BY <1>3, <1>4, <1>5, <1>6, <1>8 DEF IsSpan
<1> QED BY <1>8, <1>9

LEMMA PlainSpan ==
    ASSUME NEW value \in Seq(Chars), value # << >>, value[1] # Quote,
           NEW span, span = parse_schema_name_value_span(value), span.name # << >>
    PROVE  \E b \in 1 .. Len(value) :
              /\ IsSpan(span, value, 1, b)
              /\ span.name = SubSeq(value, 1, b) /\ ~IsWhitespace(value[b])
<1> DEFINE hashes == {i \in 1 .. Len(value) : value[i] = Hash}
           head == IF hashes = {} THEN value ELSE SubSeq(value, 1, Min(hashes) - 1)
<1>1. span = [name |-> trim_end(head), start |-> 0, end |-> ByteLen(trim_end(head))]
  BY Zenon DEF parse_schema_name_value_span
<1>2. PICK m \in 0 .. Len(value) : head = SubSeq(value, 1, m)
  <2>1. CASE hashes = {}
    <3>1. head = value /\ value = SubSeq(value, 1, Len(value)) /\ Len(value) \in 0 .. Len(value)
      BY <2>1, SubSeqFull
    <3> QED BY <3>1
  <2>2. CASE hashes # {}
    <3>1. hashes \subseteq Nat /\ hashes \subseteq 1 .. Len(value)
      OBVIOUS
    <3> HIDE DEF hashes
    <3>2. Min(hashes) \in hashes
      BY <2>2, <3>1, LeastOfNaturals
    <3>3. PICK h \in 1 .. Len(value) : h = Min(hashes)
      BY <3>1, <3>2, Zenon
    <3>4. h - 1 \in 0 .. Len(value)
      OBVIOUS
    <3> QED BY <2>2, <3>3, <3>4
  <2> QED BY <2>1, <2>2
<1>3. head \in Seq(Chars) /\ Len(head) = m
  BY <1>2, PrefixIsText
<1> HIDE DEF head, hashes
<1>4. PICK n \in 0 .. m : trim_end(head) = SubSeq(head, 1, n) /\ (n > 0 => ~IsWhitespace(head[n]))
  BY <1>3, TrimEnd
<1>5. SubSeq(head, 1, n) = SubSeq(value, 1, n)
  BY <1>2, PrefixOfPrefix
<1>6. n # 0
  <2> SUFFICES ASSUME n = 0 PROVE FALSE
    OBVIOUS
  <2>1. SubSeq(head, 1, 0) = << >>
    BY SubSeqEmpty
  <2> QED BY <1>1, <1>4, <2>1
<1>7. n \in 1 .. Len(value) /\ head[n] = value[n]
  <2>1. \A i \in 1 .. m : value[i] \in Chars
    BY ElementOfSeq
  <2>2. \A i \in 1 .. (m - 1 + 1) : SubSeq(value, 1, m)[i] = value[1 + i - 1]
    BY <2>1, SubSeqProperties
  <2>3. n \in 1 .. (m - 1 + 1) /\ 1 + n - 1 = n
    BY <1>6
  <2> QED BY <1>2, <2>2, <2>3
<1>8. SubSeq(value, 1, n) \in Seq(Chars) /\ Len(SubSeq(value, 1, n)) = n
  BY <1>7, PrefixIsText
<1>9. /\ span.name = SubSeq(value, 1, n)
      /\ span.start = 0 /\ span.end = Width(value, n)
  <2>1. span.name = trim_end(head) /\ span.start = 0 /\ span.end = ByteLen(trim_end(head))
    BY <1>1
  <2>2. trim_end(head) = SubSeq(value, 1, n)
    BY <1>4, <1>5, Zenon
  <2>3. Width(value, n) = ByteLen(SubSeq(value, 1, n))
    BY Zenon DEF Width
  <2> QED BY <2>1, <2>2, <2>3, Zenon
<1>10. Width(value, 1 - 1) = 0
  BY WidthNone
<1>11. IsSpan(span, value, 1, n)
  BY <1>7, <1>8, <1>9, <1>10 DEF IsSpan
<1> QED BY <1>4, <1>6, <1>7, <1>9, <1>11

(* What holds of a part of a text, said of the text.                       *)
LEMMA PartFacts ==
    ASSUME NEW text \in Seq(Chars), NEW v \in 1 .. (Len(text) + 1), NEW n \in (v - 1) .. Len(text),
           NEW part, part = SubSeq(text, v, n)
    PROVE  /\ part \in Seq(Chars) /\ Len(part) = n - v + 1
           /\ \A i \in 1 .. (n - v + 1) : part[i] = text[v + i - 1]
           /\ \A m \in 0 .. (n - v + 1) :
                 Width(text, v - 1) + Width(part, m) = Width(text, v + m - 1)
           /\ \A a \in 1 .. (n - v + 1) : \A b \in a .. (n - v + 1) :
                 SubSeq(part, a, b) = SubSeq(text, v + a - 1, v + b - 1)
<1>1. v - 1 \in 0 .. Len(text) /\ n \in (v - 1) .. Len(text) /\ (v - 1) + 1 = v
  OBVIOUS
<1>2. part \in Seq(Chars) /\ Len(part) = n - v + 1
  <2>1. Len(part) = n - (v - 1)
    BY <1>1, WidthOfPart
  <2>2. part \in Seq(Chars)
    BY <1>1, WidthOfPart
  <2> QED BY <2>1, <2>2
<1>3. \A i \in 1 .. (n - v + 1) : part[i] = text[v + i - 1]
  <2>1. \A i \in v .. n : text[i] \in Chars
    BY ElementOfSeq
  <2> QED BY <2>1, SubSeqProperties
<1>4. \A a \in 1 .. (n - v + 1) : \A b \in a .. (n - v + 1) :
         SubSeq(part, a, b) = SubSeq(text, v + a - 1, v + b - 1)
  <2> TAKE a \in 1 .. (n - v + 1)
  <2> TAKE b \in a .. (n - v + 1)
  <2>1. v \in 1 .. Len(text) /\ n \in 1 .. Len(text) /\ b \in 1 .. (n - v + 1)
    OBVIOUS
  <2>2. SubSeq(SubSeq(text, v, n), a, b) = SubSeq(text, v + a - 1, v + b - 1)
    BY <2>1, SubSeqOfSubSeq
  <2> QED BY <2>2
<1>5. ASSUME NEW m \in 0 .. (n - v + 1)
      PROVE  Width(text, v - 1) + Width(part, m) = Width(text, v + m - 1)
  <2>1. CASE m = 0
    <3>1. Width(part, 0) = 0
      BY WidthNone
    <3>2. v + m - 1 = v - 1 /\ Width(text, v - 1) \in Nat
      BY <2>1, <1>1, PrefixIsText
    <3> QED BY <2>1, <3>1, <3>2
  <2>2. CASE m # 0
    <3>1. /\ 1 \in 1 .. (n - v + 1) /\ m \in 1 .. (n - v + 1) /\ v + 1 - 1 = v
          /\ v + m - 1 \in (v - 1) .. Len(text)
      BY <2>2
    <3>2. SubSeq(part, 1, m) = SubSeq(text, v, v + m - 1)
      BY <1>4, <3>1
    <3>3. Width(text, v - 1) + ByteLen(SubSeq(text, v, v + m - 1)) = Width(text, v + m - 1)
      BY <1>1, <3>1, WidthOfPart
    <3>4. Width(part, m) = ByteLen(SubSeq(part, 1, m))
      BY Zenon DEF Width
    <3> QED BY <3>2, <3>3, <3>4, Zenon
  <2> QED BY <2>1, <2>2
<1> QED BY <1>2, <1>3, <1>4, <1>5

(* An entry is what lies between the elements a and b of a line, behind    *)
(* the key k.                                                              *)
IsEntry(entry, line, k, a, b) ==
    /\ k \in 1 .. (a - 1) /\ line[k] = Key
    /\ \A j \in (k + 1) .. (a - 1) : IsWhitespace(line[j]) \/ line[j] = Quote
    /\ entry.start = Width(line, a - 1)
    /\ entry.end = Width(line, b)
    /\ entry.name \in Seq(Chars)
    /\ Len(entry.name) <= b - a + 1
    /\ line[a - 1] # Quote => entry.name = SubSeq(line, a, b) /\ ~IsWhitespace(line[b])

LEMMA EntryFacts ==
    ASSUME NEW line \in Seq(Chars), NEW entry,
           entry = parse_schema_name_entry(line), entry # None
    PROVE  \E a \in 1 .. Len(line) : \E b \in a .. Len(line) :
              \E k \in 1 .. Len(line) : IsEntry(entry, line, k, a, b)
<1> DEFINE first == trim_start(line, 1)
           isItem == first <= Len(line) /\ line[first] = Dash
           key == IF isItem THEN trim_start(line, first + 1) ELSE first
           v == trim_start(line, key + 1)
           value == SubSeq(line, v, Len(line))
           span == parse_schema_name_value_span(value)
           before == ByteLen(SubSeq(line, 1, v - 1))
<1>1. /\ key <= Len(line) /\ line[key] = Key /\ v <= Len(line) /\ span.name # << >>
      /\ entry = [name |-> span.name, start |-> before + span.start, end |-> before + span.end]
  <2> DEFINE absent == \/ isItem /\ (first = Len(line) \/ ~IsWhitespace(line[first + 1]))
                       \/ key > Len(line)
                       \/ line[key] # Key
                       \/ v > Len(line)
                       \/ span.name = << >>
             found == [name |-> span.name, start |-> before + span.start, end |-> before + span.end]
  <2>1. entry = IF absent THEN None ELSE found
    BY Zenon DEF parse_schema_name_entry
  <2>2. ~absent /\ entry = found
    BY <2>1
  <2>3. Len(line) \in Nat /\ key \in Nat /\ v \in Nat
    <3>1. Len(line) \in Nat /\ 1 \in 1 .. (Len(line) + 1)
      BY LenProperties
    <3>2. first \in 1 .. (Len(line) + 1)
      BY <3>1, TrimStart
    <3>3. key \in 1 .. (Len(line) + 1)
      <4>1. CASE isItem
        <5> HIDE DEF first
        <5>1. first + 1 \in 1 .. (Len(line) + 1)
          BY <3>1, <3>2, <4>1
        <5>2. trim_start(line, first + 1) \in (first + 1) .. (Len(line) + 1)
          BY <5>1, TrimStart
        <5> QED BY <3>1, <3>2, <4>1, <5>2
      <4>2. CASE ~isItem
        BY <3>2, <4>2
      <4> QED BY <4>1, <4>2
    <3> HIDE DEF first, isItem, key
    <3>4. CASE key <= Len(line)
      <4>1. key + 1 \in 1 .. (Len(line) + 1)
        BY <3>1, <3>3, <3>4
      <4>2. trim_start(line, key + 1) \in (key + 1) .. (Len(line) + 1)
        BY <4>1, TrimStart
      <4> QED BY <3>1, <3>3, <4>2
    <3>5. CASE ~(key <= Len(line))
      BY <2>2, <3>1, <3>3, <3>5
    <3> QED BY <3>4, <3>5
  <2> HIDE DEF first, isItem, key, v, value, span, before
  <2> QED BY <2>2, <2>3
<1>2. Len(line) \in Nat
  BY LenProperties
<1>3. key \in 1 .. Len(line)
  <2>1. first \in 1 .. (Len(line) + 1)
    BY <1>2, TrimStart
  <2> HIDE DEF first
  <2>2. CASE isItem
    <3>1. first + 1 \in 1 .. (Len(line) + 1)
      BY <1>2, <2>1, <2>2
    <3>2. trim_start(line, first + 1) \in (first + 1) .. (Len(line) + 1)
      BY <3>1, TrimStart
    <3>3. key = trim_start(line, first + 1)
      BY <2>2
    <3> HIDE DEF isItem, key
    <3> QED BY <1>1, <1>2, <2>1, <3>2, <3>3
  <2>3. CASE ~isItem
    <3>1. key = first
      BY <2>3
    <3> HIDE DEF isItem, key
    <3> QED BY <1>1, <1>2, <2>1, <3>1
  <2> QED BY <2>2, <2>3
<1> HIDE DEF first, isItem, key
<1>4. /\ v \in (key + 1) .. Len(line)
      /\ \A j \in (key + 1) .. (v - 1) : IsWhitespace(line[j])
  <2>1. key + 1 \in 1 .. (Len(line) + 1)
    BY <1>2, <1>3
  <2>2. /\ v \in (key + 1) .. (Len(line) + 1)
        /\ \A j \in (key + 1) .. (v - 1) : IsWhitespace(line[j])
    BY <2>1, TrimStart
  <2> HIDE DEF v
  <2> QED BY <1>1, <1>2, <1>3, <2>2
<1> HIDE DEF v
<1>5. PICK last \in 1 .. (Len(line) - v + 1) : last = Len(line) - v + 1
  BY <1>2, <1>3, <1>4
<1>6. /\ value \in Seq(Chars) /\ Len(value) = last
      /\ \A i \in 1 .. last : value[i] = line[v + i - 1]
      /\ \A m \in 0 .. last : Width(line, v - 1) + Width(value, m) = Width(line, v + m - 1)
      /\ \A a \in 1 .. last : \A b \in a .. last :
            SubSeq(value, a, b) = SubSeq(line, v + a - 1, v + b - 1)
  <2>1. v \in 1 .. (Len(line) + 1) /\ Len(line) \in (v - 1) .. Len(line)
    BY <1>2, <1>3, <1>4
  <2>2. /\ value \in Seq(Chars) /\ Len(value) = Len(line) - v + 1
        /\ \A i \in 1 .. (Len(line) - v + 1) : value[i] = line[v + i - 1]
        /\ \A m \in 0 .. (Len(line) - v + 1) :
              Width(line, v - 1) + Width(value, m) = Width(line, v + m - 1)
        /\ \A a \in 1 .. (Len(line) - v + 1) : \A b \in a .. (Len(line) - v + 1) :
              SubSeq(value, a, b) = SubSeq(line, v + a - 1, v + b - 1)
    BY <2>1, PartFacts, Zenon
  <2> QED BY <1>5, <2>2, Zenon
<1>7. before = Width(line, v - 1)
  BY Zenon DEF Width
<1> HIDE DEF value, before
<1>8. value # << >> /\ value[1] = line[v]
  <2>1. 1 \in 1 .. last /\ v + 1 - 1 = v
    BY <1>2, <1>3, <1>4, <1>5
  <2> QED BY <1>6, <2>1, EmptySeq
<1>9. CASE value[1] = Quote
  <2>1. PICK e \in 2 .. last : IsSpan(span, value, 2, e)
    BY <1>1, <1>6, <1>8, <1>9, QuotedSpan
  <2>2. /\ span.start = Width(value, 1) /\ span.end = Width(value, e)
        /\ span.name \in Seq(Chars) /\ Len(span.name) <= e - 2 + 1
    BY <2>1 DEF IsSpan
  <2> HIDE DEF span
  <2>3. PICK a, b : a = v + 1 /\ b = v + e - 1
    OBVIOUS
  <2>4. /\ a \in 1 .. Len(line) /\ b \in a .. Len(line) /\ key \in 1 .. (a - 1)
        /\ a - 1 = v /\ v + 1 - 1 = v /\ b - a + 1 = e - 2 + 1
    BY <1>2, <1>3, <1>4, <1>5, <2>3
  <2>5. entry.start = Width(line, a - 1) /\ entry.end = Width(line, b)
    <3>1. 1 \in 0 .. last /\ e \in 0 .. last
      BY <2>1
    <3>2. /\ Width(line, v - 1) + Width(value, 1) = Width(line, v)
          /\ Width(line, v - 1) + Width(value, e) = Width(line, b)
      BY <1>6, <2>3, <2>4, <3>1
    <3>3. entry.start = before + span.start /\ entry.end = before + span.end
      BY <1>1
    <3> QED BY <1>7, <2>2, <2>4, <3>2, <3>3, Zenon
  <2>6. entry.name = span.name
    BY <1>1
  <2>7. \A j \in (key + 1) .. (a - 1) : IsWhitespace(line[j]) \/ line[j] = Quote
    <3> SUFFICES ASSUME NEW j \in (key + 1) .. (a - 1)
                 PROVE  IsWhitespace(line[j]) \/ line[j] = Quote
      OBVIOUS
    <3>1. j \in (key + 1) .. (v - 1) \/ j = v
      BY <1>3, <1>4, <2>4
    <3> QED BY <1>4, <1>8, <1>9, <3>1
  <2>8. Len(entry.name) <= b - a + 1 /\ entry.name \in Seq(Chars)
    BY <2>2, <2>4, <2>6, Zenon
  <2>9. line[a - 1] = Quote
    BY <1>8, <1>9, <2>4
  <2>10. IsEntry(entry, line, key, a, b)
    BY <1>1, <2>4, <2>5, <2>7, <2>8, <2>9, Zenon DEF IsEntry
  <2> QED BY <1>3, <2>4, <2>10
<1>10. CASE value[1] # Quote
  <2>1. PICK e \in 1 .. last : /\ IsSpan(span, value, 1, e)
                               /\ span.name = SubSeq(value, 1, e) /\ ~IsWhitespace(value[e])
    BY <1>1, <1>6, <1>8, <1>10, PlainSpan
  <2>2. /\ span.start = Width(value, 0) /\ span.end = Width(value, e)
        /\ span.name \in Seq(Chars) /\ Len(span.name) <= e - 1 + 1
    BY <2>1 DEF IsSpan
  <2> HIDE DEF span
  <2>3. PICK a, b : a = v /\ b = v + e - 1
    OBVIOUS
  <2>4. /\ a \in 1 .. Len(line) /\ b \in a .. Len(line) /\ key \in 1 .. (a - 1)
        /\ v + 0 - 1 = a - 1 /\ v + 1 - 1 = a /\ b - a + 1 = e - 1 + 1
    BY <1>2, <1>3, <1>4, <1>5, <2>3
  <2>5. entry.start = Width(line, a - 1) /\ entry.end = Width(line, b)
    <3>1. 0 \in 0 .. last /\ e \in 0 .. last
      BY <2>1
    <3>2. /\ Width(line, v - 1) + Width(value, 0) = Width(line, a - 1)
          /\ Width(line, v - 1) + Width(value, e) = Width(line, b)
      BY <1>6, <2>3, <2>4, <3>1
    <3>3. entry.start = before + span.start /\ entry.end = before + span.end
      BY <1>1
    <3> QED BY <1>7, <2>2, <3>2, <3>3, Zenon
  <2>6. entry.name = span.name
    BY <1>1
  <2>7. entry.name = SubSeq(line, a, b) /\ ~IsWhitespace(line[b])
    <3>1. 1 \in 1 .. last /\ e \in 1 .. last
      BY <2>1
    <3>2. SubSeq(value, 1, e) = SubSeq(line, a, b) /\ value[e] = line[b]
      BY <1>6, <2>1, <2>3, <2>4, <3>1
    <3> QED BY <2>1, <2>6, <3>2, Zenon
  <2>8. Len(entry.name) <= b - a + 1 /\ entry.name \in Seq(Chars)
    BY <2>2, <2>4, <2>6, Zenon
  <2>9. \A j \in (key + 1) .. (a - 1) : IsWhitespace(line[j]) \/ line[j] = Quote
    BY <1>4, <2>3
  <2>10. IsEntry(entry, line, key, a, b)
    BY <1>1, <2>4, <2>5, <2>7, <2>8, <2>9, Zenon DEF IsEntry
  <2> QED BY <1>3, <2>4, <2>10
<1> QED BY <1>9, <1>10

(* The name of a line as a place in the text is there when the line has an *)
(* entry, which it moves by the bytes before the line.                     *)
LEMMA MatchOfEntry ==
    ASSUME NEW text \in Seq(Chars), NEW l \in Nat, l + 1 \in 1 .. LineCount(text),
           NEW entry, entry = parse_schema_name_entry(LineOf(text, Segments(text)[l + 1])),
           NEW match, match = schema_field_name_match_at_line(text, l)
    PROVE  /\ entry = None <=> match = None
           /\ entry # None =>
                 /\ match.name = entry.name /\ match.line = l + 1
                 /\ match.start = Width(text, Segments(text)[l + 1].first - 1) + entry.start
                 /\ match.end = Width(text, Segments(text)[l + 1].first - 1) + entry.end
<1> DEFINE first == Segments(text)[l + 1].first
           found == [name |-> entry.name, line |-> l + 1,
                     start |-> ByteLen(SubSeq(text, 1, first - 1)) + entry.start,
                     end |-> ByteLen(SubSeq(text, 1, first - 1)) + entry.end]
<1>1. match = IF entry = None THEN None ELSE found
  <2>1. Len(Segments(text)) = LineCount(text) /\ LineCount(text) \in Nat
    BY LinesAreCounted
  <2>2. ~(l + 1 > Len(Segments(text)))
    BY <2>1
  <2> QED BY <2>2, Zenon DEF schema_field_name_match_at_line
<1>2. ByteLen(SubSeq(text, 1, first - 1)) = Width(text, first - 1)
  BY Zenon DEF Width
<1>3. first \in 1 .. Len(text)
  BY LineFacts
<1>4. CASE entry = None
  BY <1>1, <1>4
<1>5. CASE entry # None
  <2>1. match = found
    BY <1>1, <1>5
  <2>2. LineOf(text, Segments(text)[l + 1]) \in Seq(Chars)
    <3>1. PICK h \in (first - 1) .. Segments(text)[l + 1].last :
             LineOf(text, Segments(text)[l + 1]) = SubSeq(text, first, h)
      BY LineOfFacts
    <3>2. Segments(text)[l + 1].last \in first .. Len(text)
      BY LineFacts
    <3> HIDE DEF first
    <3>3. first - 1 \in 0 .. Len(text) /\ h \in (first - 1) .. Len(text) /\ (first - 1) + 1 = first
      BY <1>3, <3>1, <3>2
    <3>4. SubSeq(text, first, h) \in Seq(Chars)
      BY <3>3, WidthOfPart
    <3> QED BY <3>1, <3>4
  <2>3. entry.start \in Nat /\ entry.end \in Nat /\ entry.name \in Seq(Chars)
    <3> DEFINE line == LineOf(text, Segments(text)[l + 1])
    <3> HIDE DEF line
    <3>1. line \in Seq(Chars) /\ entry = parse_schema_name_entry(line)
      BY <2>2 DEF line
    <3>2. PICK a \in 1 .. Len(line), b \in 1 .. Len(line), k \in 1 .. Len(line) :
             IsEntry(entry, line, k, a, b)
      <4>1. \E a \in 1 .. Len(line) : \E b \in a .. Len(line) : \E k \in 1 .. Len(line) :
               IsEntry(entry, line, k, a, b)
        BY <1>5, <3>1, EntryFacts
      <4>2. Len(line) \in Nat
        BY <3>1, LenProperties
      <4> QED BY <4>1, <4>2
    <3>3. /\ entry.start = Width(line, a - 1) /\ entry.end = Width(line, b)
          /\ entry.name \in Seq(Chars)
      BY <3>2, Zenon DEF IsEntry
    <3>4. Len(line) \in Nat
      BY <3>1, LenProperties
    <3>5. a - 1 \in 0 .. Len(line) /\ b \in 0 .. Len(line)
      BY <3>2, <3>4
    <3>6. Width(line, a - 1) \in Nat /\ Width(line, b) \in Nat
      BY <3>1, <3>5, PrefixIsText
    <3> QED BY <3>3, <3>6
  <2>4. ByteLen(SubSeq(text, 1, first - 1)) \in Nat
    <3> HIDE DEF first
    <3>1. first - 1 \in 0 .. Len(text)
      BY <1>3
    <3> QED BY <1>2, <3>1, PrefixIsText
  <2>5. match # None
    <3> HIDE DEF first
    <3>1. found \in NameMatch
      BY <2>3, <2>4 DEF NameMatch
    <3> QED BY <2>1, <3>1, NoneAssumption
  <2>6. /\ match.name = entry.name /\ match.line = l + 1
        /\ match.start = ByteLen(SubSeq(text, 1, first - 1)) + entry.start
        /\ match.end = ByteLen(SubSeq(text, 1, first - 1)) + entry.end
    BY <2>1
  <2> QED BY <1>2, <1>5, <2>5, <2>6, Zenon
<1> QED BY <1>4, <1>5

(* A match is the elements from a to b of the text, behind the key k.      *)
IsMatch(match, text, k, a, b) ==
    /\ text[k] = Key
    /\ \A j \in (k + 1) .. (a - 1) : text[j] \in {Space, CR, Quote}
    /\ match.start = Width(text, a - 1)
    /\ match.end = Width(text, b)
    /\ Len(match.name) <= b - a + 1
    /\ text[a - 1] # Quote => match.name = SubSeq(text, a, b) /\ ~IsWhitespace(text[b])

(* An entry of a line that is a part of the text is a match of the text.   *)
LEMMA EntryOfPart ==
    ASSUME NEW text \in Seq(Chars), NEW first \in 1 .. Len(text), NEW h \in (first - 1) .. Len(text),
           NEW line, line = SubSeq(text, first, h), \A i \in first .. h : text[i] # LF,
           NEW entry, entry = parse_schema_name_entry(line), entry # None,
           NEW match, match.name = entry.name,
           match.start = Width(text, first - 1) + entry.start,
           match.end = Width(text, first - 1) + entry.end
    PROVE  \E a \in first .. h : \E b \in a .. h : \E k \in first .. (a - 1) :
              IsMatch(match, text, k, a, b)
<1>1. PICK n \in 0 .. Len(text) : n = h - first + 1 /\ h = n + first - 1
  OBVIOUS
<1>2. /\ line \in Seq(Chars) /\ Len(line) = n
      /\ \A i \in 1 .. n : line[i] = text[first + i - 1]
      /\ \A m \in 0 .. n : Width(text, first - 1) + Width(line, m) = Width(text, first + m - 1)
      /\ \A a \in 1 .. n : \A b \in a .. n :
            SubSeq(line, a, b) = SubSeq(text, first + a - 1, first + b - 1)
  <2>1. first \in 1 .. (Len(text) + 1) /\ h \in (first - 1) .. Len(text)
    OBVIOUS
  <2> QED BY <1>1, <2>1, PartFacts
<1>3. PICK a1 \in 1 .. n, b1 \in 1 .. n, k1 \in 1 .. n :
         b1 \in a1 .. n /\ IsEntry(entry, line, k1, a1, b1)
  <2>1. \E a \in 1 .. n : \E b \in a .. n : \E k \in 1 .. n : IsEntry(entry, line, k, a, b)
    BY <1>2, EntryFacts
  <2> QED BY <2>1
<1>4. /\ k1 \in 1 .. (a1 - 1) /\ line[k1] = Key
      /\ \A j \in (k1 + 1) .. (a1 - 1) : IsWhitespace(line[j]) \/ line[j] = Quote
      /\ entry.start = Width(line, a1 - 1)
      /\ entry.end = Width(line, b1)
      /\ Len(entry.name) <= b1 - a1 + 1
      /\ line[a1 - 1] # Quote => entry.name = SubSeq(line, a1, b1) /\ ~IsWhitespace(line[b1])
  BY <1>3 DEF IsEntry
<1>5. PICK a, b, k : a = first + a1 - 1 /\ b = first + b1 - 1 /\ k = first + k1 - 1
  OBVIOUS
<1>6. n \in Nat /\ a1 \in 1 .. n /\ b1 \in a1 .. n /\ k1 \in 1 .. (a1 - 1)
  BY <1>3, <1>4
<1>7. /\ a \in first .. h /\ b \in a .. h /\ k \in first .. (a - 1)
       /\ a1 - 1 \in 1 .. n /\ first + (a1 - 1) - 1 = a - 1 /\ b - a + 1 = b1 - a1 + 1
  BY <1>1, <1>5, <1>6
<1>8. match.start = Width(text, a - 1) /\ match.end = Width(text, b)
  <2>1. a1 - 1 \in 0 .. n /\ b1 \in 0 .. n
    BY <1>3, <1>7
  <2>2. /\ Width(text, first - 1) + Width(line, a1 - 1) = Width(text, a - 1)
        /\ Width(text, first - 1) + Width(line, b1) = Width(text, b)
    BY <1>2, <1>5, <1>7, <2>1
  <2> QED BY <1>4, <2>2, Zenon
<1>9. \A j \in (k + 1) .. (a - 1) : text[j] \in {Space, CR, Quote}
  <2> SUFFICES ASSUME NEW j \in (k + 1) .. (a - 1) PROVE text[j] \in {Space, CR, Quote}
    OBVIOUS
  <2>1. PICK i \in (k1 + 1) .. (a1 - 1) : j = first + i - 1
    <3>1. /\ j - first + 1 \in (k1 + 1) .. (a1 - 1)
          /\ j = first + (j - first + 1) - 1
      BY <1>5, <1>6
    <3> QED BY <3>1
  <2>2. i \in 1 .. n /\ j \in first .. h
    BY <1>1, <1>7, <1>6, <2>1
  <2>3. line[i] = text[j] /\ text[j] # LF
    BY <1>2, <2>1, <2>2
  <2>4. IsWhitespace(line[i]) \/ line[i] = Quote
    BY <1>4
  <2> QED BY <2>3, <2>4 DEF IsWhitespace
<1>10. line[k1] = text[k] /\ line[b1] = text[b] /\ line[a1 - 1] = text[a - 1]
  <2>1. /\ line[k1] = text[first + k1 - 1] /\ line[b1] = text[first + b1 - 1]
        /\ line[a1 - 1] = text[first + (a1 - 1) - 1]
    BY <1>2, <1>3, <1>7
  <2> QED BY <1>5, <1>7, <2>1, Zenon
<1>11. SubSeq(line, a1, b1) = SubSeq(text, a, b)
  BY <1>2, <1>3, <1>5
<1>12. IsMatch(match, text, k, a, b)
  <2>1. Len(match.name) <= b - a + 1
    BY <1>4, <1>7, Zenon
  <2>2. text[a - 1] # Quote => match.name = SubSeq(text, a, b) /\ ~IsWhitespace(text[b])
    BY <1>4, <1>10, <1>11, Zenon
  <2> QED BY <1>4, <1>8, <1>9, <1>10, <2>1, <2>2, Zenon DEF IsMatch
<1> QED BY <1>7, <1>12

LEMMA MatchFacts ==
    ASSUME NEW text \in Seq(Chars), NEW l \in Nat, l + 1 \in 1 .. LineCount(text),
           NEW match, match = schema_field_name_match_at_line(text, l), match # None,
           NEW first, NEW last,
           first = Segments(text)[l + 1].first, last = Segments(text)[l + 1].last
    PROVE  /\ match.line = l + 1
           /\ \E a \in first .. last : \E b \in a .. last : \E k \in first .. (a - 1) :
                 /\ IsMatch(match, text, k, a, b)
                 /\ \A i \in a .. b : text[i] # LF
<1>1. /\ first \in 1 .. Len(text) /\ last \in first .. Len(text)
  BY LineFacts
<1>2. PICK h \in (first - 1) .. last :
         /\ LineOf(text, Segments(text)[l + 1]) = SubSeq(text, first, h)
         /\ \A i \in first .. h : text[i] # LF
  BY LineOfFacts
<1>3. PICK entry : entry = parse_schema_name_entry(LineOf(text, Segments(text)[l + 1]))
  OBVIOUS
<1>4. /\ entry # None
      /\ match.name = entry.name /\ match.line = l + 1
      /\ match.start = Width(text, first - 1) + entry.start
      /\ match.end = Width(text, first - 1) + entry.end
  BY <1>3, MatchOfEntry
<1>5. PICK f \in 1 .. Len(text), e \in 1 .. Len(text) : f = first /\ e = last /\ e \in f .. Len(text)
  <2>1. \A e \in first .. Len(text) : e \in 1 .. Len(text)
    BY <1>1
  <2> QED BY <1>1, <2>1
<1>6. PICK g \in (f - 1) .. e : g = h
  BY <1>2, <1>5
<1>7. /\ entry = parse_schema_name_entry(SubSeq(text, f, g))
      /\ \A i \in f .. g : text[i] # LF
      /\ g \in (f - 1) .. Len(text)
  BY <1>2, <1>3, <1>5, <1>6
<1>8. \E a \in f .. g : \E b \in a .. g : \E k \in f .. (a - 1) : IsMatch(match, text, k, a, b)
  <2>1. /\ match.start = Width(text, f - 1) + entry.start
        /\ match.end = Width(text, f - 1) + entry.end
    BY <1>4, <1>5
  <2> QED BY <1>4, <1>7, <2>1, EntryOfPart, Zenon
<1>9. PICK a \in f .. g, b \in f .. g, k \in f .. g :
         /\ b \in a .. g /\ k \in f .. (a - 1) /\ IsMatch(match, text, k, a, b)
  BY <1>8
<1>10. a \in f .. e /\ b \in a .. e /\ k \in f .. (a - 1)
  BY <1>6, <1>9
<1>11. \A i \in a .. b : text[i] # LF
  BY <1>7, <1>9
<1> QED BY <1>4, <1>5, <1>9, <1>10, <1>11

(* The lines that declare a name are those where a click finds it.         *)
Declares(text, name, l) ==
    LET entry == parse_schema_name_entry(LineOf(text, Segments(text)[l]))
    IN entry # None /\ entry.name = name

LEMMA DeclaresFacts ==
    ASSUME NEW text \in Seq(Chars), NEW name, NEW l \in 0 .. (LineCount(text) - 1),
           NEW match, match = schema_field_name_match_at_line(text, l)
    PROVE  Declares(text, name, l + 1) <=> match # None /\ match.name = name
<1>1. l \in Nat /\ l + 1 \in 1 .. LineCount(text)
  BY LinesAreCounted
<1>2. PICK entry : entry = parse_schema_name_entry(LineOf(text, Segments(text)[l + 1]))
  OBVIOUS
<1>3. /\ entry = None <=> match = None
      /\ entry # None => match.name = entry.name
  BY <1>1, <1>2, MatchOfEntry
<1> QED BY <1>2, <1>3, Zenon DEF Declares

LEMMA FoundFacts ==
    ASSUME NEW text \in Seq(Chars), NEW name \in Names(text),
           NEW found, found = find_schema_name_entry(text, name)
    PROVE  \E l \in 1 .. LineCount(text) :
              /\ found.line = l
              /\ Declares(text, name, l)
              /\ \A e \in 1 .. (l - 1) : ~Declares(text, name, e)
              /\ found.start = Width(text, Segments(text)[l].first - 1)
              /\ found.end = Width(text, Segments(text)[l].first - 1)
                               + ByteLen(LineOf(text, Segments(text)[l]))
<1> DEFINE lines == {l \in 1 .. Len(Segments(text)) : Declares(text, name, l)}
           before == ByteLen(SubSeq(text, 1, Segments(text)[Min(lines)].first - 1))
           here == [line |-> Min(lines), start |-> before,
                    end |-> before + ByteLen(LineOf(text, Segments(text)[Min(lines)]))]
<1>1. found = IF lines = {} THEN None ELSE here
  BY Zenon DEF find_schema_name_entry, Declares
<1>2. Len(Segments(text)) = LineCount(text) /\ LineCount(text) \in Nat
  BY LinesAreCounted
<1>3. lines # {}
  <2>1. PICK k \in 0 .. (Len(Segments(text)) - 1) :
           /\ schema_field_name_match_at_line(text, k) # None
           /\ name = schema_field_name_match_at_line(text, k).name
    BY Zenon DEF Names
  <2>2. k \in 0 .. (LineCount(text) - 1)
    BY <1>2, <2>1
  <2>3. Declares(text, name, k + 1)
    BY <2>1, <2>2, DeclaresFacts
  <2>4. k + 1 \in 1 .. Len(Segments(text))
    BY <1>2, <2>1
  <2> QED BY <2>3, <2>4
<1>4. Min(lines) \in lines /\ \A j \in lines : Min(lines) <= j
  <2>1. lines \subseteq Nat
    BY <1>2
  <2> HIDE DEF lines
  <2> QED BY <1>3, <2>1, LeastOfNaturals
<1>5. PICK l \in 1 .. LineCount(text) :
         l = Min(lines) /\ Declares(text, name, l)
  BY <1>2, <1>4
<1>6. \A e \in 1 .. (l - 1) : ~Declares(text, name, e)
  <2> SUFFICES ASSUME NEW e \in 1 .. (l - 1), Declares(text, name, e) PROVE FALSE
    OBVIOUS
  <2>1. e \in 1 .. Len(Segments(text))
    BY <1>2, <1>5
  <2>2. e \in lines
    BY <2>1
  <2>3. l <= e
    BY <1>4, <1>5, <2>2
  <2> QED BY <1>2, <1>5, <2>3
<1>7. before = Width(text, Segments(text)[l].first - 1)
  BY <1>5, Zenon DEF Width
<1> HIDE DEF lines, before
<1>8. /\ found.line = l /\ found.start = before
      /\ found.end = before + ByteLen(LineOf(text, Segments(text)[l]))
  BY <1>1, <1>3, <1>5
<1> QED BY <1>5, <1>6, <1>7, <1>8, Zenon

LEMMA FoundIsLine ==
    ASSUME NEW text \in Seq(Chars), NEW name \in Names(text),
           NEW found, found = find_schema_name_entry(text, name)
    PROVE  \E l \in 1 .. LineCount(text) : \E first \in 1 .. Len(text) :
           \E last \in first .. Len(text) : \E h \in (first - 1) .. last :
              /\ found.line = l
              /\ first = Segments(text)[l].first /\ last = Segments(text)[l].last
              /\ Declares(text, name, l)
              /\ \A e \in 1 .. (l - 1) : ~Declares(text, name, e)
              /\ found.start = Width(text, first - 1)
              /\ found.end = Width(text, h)
              /\ \A i \in (h + 1) .. last : text[i] \in {LF, CR}
<1>1. PICK l \in 1 .. LineCount(text) :
         /\ found.line = l
         /\ Declares(text, name, l)
         /\ \A e \in 1 .. (l - 1) : ~Declares(text, name, e)
         /\ found.start = Width(text, Segments(text)[l].first - 1)
         /\ found.end = Width(text, Segments(text)[l].first - 1)
                          + ByteLen(LineOf(text, Segments(text)[l]))
  BY FoundFacts
<1>2. PICK segment : segment = Segments(text)[l]
  OBVIOUS
<1>3. /\ segment.first \in 1 .. Len(text) /\ segment.last \in segment.first .. Len(text)
  BY <1>2, LineFacts
<1>4. PICK h \in (segment.first - 1) .. segment.last :
         /\ LineOf(text, segment) = SubSeq(text, segment.first, h)
         /\ \A i \in (h + 1) .. segment.last : text[i] \in {LF, CR}
  BY <1>2, LineOfFacts
<1>5. PICK first \in 1 .. Len(text), last \in 1 .. Len(text) :
         first = segment.first /\ last = segment.last /\ last \in first .. Len(text)
  <2>1. \A e \in segment.first .. Len(text) : e \in 1 .. Len(text)
    BY <1>3
  <2> QED BY <1>3, <2>1
<1>6. PICK g \in (first - 1) .. last : g = h
  BY <1>4, <1>5
<1>7. ByteLen(LineOf(text, segment)) = ByteLen(SubSeq(text, first, g))
  BY <1>4, <1>5, <1>6
<1>8. Width(text, first - 1) + ByteLen(SubSeq(text, first, g)) = Width(text, g)
  <2>1. first - 1 \in 0 .. Len(text) /\ g \in (first - 1) .. Len(text) /\ (first - 1) + 1 = first
    BY <1>5, <1>6
  <2> QED BY <2>1, WidthOfPart
<1>9. /\ found.start = Width(text, first - 1) /\ found.end = Width(text, g)
  BY <1>1, <1>2, <1>5, <1>7, <1>8, Zenon
<1>10. \A i \in (g + 1) .. last : text[i] \in {LF, CR}
  BY <1>4, <1>5, <1>6
<1> QED BY <1>1, <1>2, <1>5, <1>6, <1>9, <1>10

-----------------------------------------------------------------------------
(* Frames *)

(* What is marked in the editor comes from a line of the text that is in   *)
(* it, and what the last frame highlighted is a range of bytes of the text *)
(* it was given.                                                           *)
TextOfEditor == schema_editor_text \in Seq(Chars)

MatchOfText ==
    \/ schema_match = None
    \/ \E name \in Names(schema_editor_text) :
          schema_match = find_schema_name_entry(schema_editor_text, name)

HighlightOfText ==
    \/ schema_cursor_name_highlight = None
    \/ \E l \in 0 .. (LineCount(schema_editor_text) - 1) :
          schema_cursor_name_highlight = schema_field_name_match_at_line(schema_editor_text, l)

RangeOfBytes == highlighted_range = None \/ highlighted_range \in Nat \X Nat

MarksAreOfTheText == TextOfEditor /\ MatchOfText /\ HighlightOfText /\ RangeOfBytes

LEMMA FrameTakesBytes ==
    ASSUME MarksAreOfTheText
    PROVE  RangeOfFrame = None \/ RangeOfFrame \in Nat \X Nat
<1> DEFINE text == schema_editor_text
<1>1. text \in Seq(Chars) /\ Len(text) \in Nat
  BY LenProperties DEF MarksAreOfTheText, TextOfEditor
<1>2. CASE schema_cursor_name_highlight # None
  <2> DEFINE mark == schema_cursor_name_highlight
  <2>1. RangeOfFrame = << mark.start, mark.end >>
    BY <1>2, Zenon DEF RangeOfFrame
  <2>2. PICK l \in 0 .. (LineCount(text) - 1) : mark = schema_field_name_match_at_line(text, l)
    BY <1>2 DEF MarksAreOfTheText, HighlightOfText
  <2>3. l \in Nat /\ l + 1 \in 1 .. LineCount(text)
    BY <1>1, <2>2, LinesAreCounted
  <2>4. PICK first, last : /\ first = Segments(text)[l + 1].first
                           /\ last = Segments(text)[l + 1].last
    OBVIOUS
  <2>5. first \in 1 .. Len(text) /\ last \in first .. Len(text)
    BY <1>1, <2>3, <2>4, LineFacts
  <2>6. PICK a \in first .. last : \E b \in a .. last : \E k \in first .. (a - 1) :
           IsMatch(mark, text, k, a, b)
    <3> HIDE DEF mark, text
    <3> QED BY <1>1, <1>2, <2>2, <2>3, <2>4, MatchFacts DEF mark
  <2>7. PICK b \in a .. last : \E k \in first .. (a - 1) : IsMatch(mark, text, k, a, b)
    BY <2>6
  <2>8. mark.start = Width(text, a - 1) /\ mark.end = Width(text, b)
    BY <2>7 DEF IsMatch
  <2>9. a - 1 \in 0 .. Len(text) /\ b \in 0 .. Len(text)
    BY <1>1, <2>5, <2>6, <2>7
  <2>10. Width(text, a - 1) \in Nat /\ Width(text, b) \in Nat
    BY <1>1, <2>9, PrefixIsText
  <2> QED BY <2>1, <2>8, <2>10
<1>3. CASE schema_cursor_name_highlight = None /\ schema_match # None
  <2> DEFINE mark == schema_match
  <2>1. RangeOfFrame = << mark.start, mark.end >>
    BY <1>3, Zenon DEF RangeOfFrame
  <2>2. PICK name \in Names(text) : mark = find_schema_name_entry(text, name)
    BY <1>3 DEF MarksAreOfTheText, MatchOfText
  <2>3. PICK first \in 1 .. Len(text) :
        \E last \in first .. Len(text) : \E h \in (first - 1) .. last :
           mark.start = Width(text, first - 1) /\ mark.end = Width(text, h)
    <3> HIDE DEF mark, text
    <3> QED BY <1>1, <2>2, FoundIsLine
  <2>4. PICK h \in 0 .. Len(text) :
           mark.start = Width(text, first - 1) /\ mark.end = Width(text, h)
    <3> HIDE DEF mark, text
    <3> QED BY <1>1, <2>3
  <2>5. first - 1 \in 0 .. Len(text)
    BY <1>1, <2>3
  <2>6. Width(text, first - 1) \in Nat /\ Width(text, h) \in Nat
    BY <1>1, <2>4, <2>5, PrefixIsText
  <2> QED BY <2>1, <2>4, <2>6
<1>4. CASE schema_cursor_name_highlight = None /\ schema_match = None
  BY <1>4, Zenon DEF RangeOfFrame
<1> QED BY <1>2, <1>3, <1>4

LEMMA CursorLineIsNumber ==
    ASSUME NEW text \in Seq(Chars), NEW c
    PROVE  line_index_for_char_index(text, c) \in Nat
<1> DEFINE S == {i \in 1 .. Len(text) : text[i] = LF /\ CharLen(SubSeq(text, 1, i - 1)) < c}
<1>1. Len(text) \in Nat
  BY LenProperties
<1>2. IsFiniteSet(1 .. Len(text))
  BY <1>1, FS_Interval
<1>3. S \subseteq 1 .. Len(text)
  OBVIOUS
<1>4. Cardinality(S) \in Nat
  <2> HIDE DEF S
  <2> QED BY <1>2, <1>3, FS_Subset, FS_CardinalityType
<1> QED BY <1>4, Zenon DEF line_index_for_char_index

(* What is marked in the editor always is of the text that is shown, never *)
(* of one before it: a keystroke, wherever it replaces whatever, unmarks   *)
(* the line and the name, a click and a selection look them up anew.       *)
THEOREM MarksStayOfTheText == Spec => []MarksAreOfTheText
<1>1. Init => MarksAreOfTheText
  <2> SUFFICES ASSUME Init PROVE MarksAreOfTheText
    OBVIOUS
  <2>1. schema_editor_text \in Seq(Chars)
    <3>1. schema_editor_text \in UNION {[1 .. m -> Chars] : m \in 0 .. MaxText}
      BY Zenon DEF Init, Text, BoundedSeq, SeqOf
    <3>2. PICK m \in 0 .. MaxText : schema_editor_text \in [1 .. m -> Chars]
      BY <3>1, Zenon
    <3>3. m \in Nat
      BY TextAssumption
    <3> QED BY <3>2, <3>3, IsASeq
  <2> QED BY <2>1 DEF Init, MarksAreOfTheText, TextOfEditor, MatchOfText, HighlightOfText,
                      RangeOfBytes
<1>2. ASSUME MarksAreOfTheText, [Next]_vars PROVE MarksAreOfTheText'
  <2>1. TextOfEditor /\ MatchOfText /\ HighlightOfText
    BY <1>2 DEF MarksAreOfTheText
  <2>2. ASSUME highlighted_range' = RangeOfFrame PROVE RangeOfBytes'
    BY <1>2, <2>2, FrameTakesBytes DEF RangeOfBytes
  <2>3. CASE Type
    <3>1. TextOfEditor'
      <4>1. PICK from \in 0 .. Len(schema_editor_text),
                 to \in 0 .. Len(schema_editor_text),
                 typed \in {<< >>} \cup {<< ch >> : ch \in Chars} :
               schema_editor_text' = SubSeq(schema_editor_text, 1, from) \o typed
                                     \o SubSeq(schema_editor_text, to + 1, Len(schema_editor_text))
        <5>1. Len(schema_editor_text) \in Nat
          BY <2>1, LenProperties DEF TextOfEditor
        <5>2. \A from \in 0 .. Len(schema_editor_text) :
                 from .. Len(schema_editor_text) \subseteq 0 .. Len(schema_editor_text)
          BY <5>1
        <5> QED BY <2>3, <5>2 DEF Type
      <4>2. typed \in Seq(Chars)
        <5>1. << >> \in Seq(Chars) /\ \A ch \in Chars : << ch >> \in Seq(Chars)
          BY EmptySeq
        <5> QED BY <4>1, <5>1
      <4>3. PICK head \in Seq(Chars), tail \in Seq(Chars) :
               /\ head = SubSeq(schema_editor_text, 1, from)
               /\ tail = SubSeq(schema_editor_text, to + 1, Len(schema_editor_text))
        <5>1. Len(schema_editor_text) \in to .. Len(schema_editor_text)
          BY <2>1, LenProperties DEF TextOfEditor
        <5> QED BY <2>1, <4>1, <5>1, PrefixIsText, WidthOfPart DEF TextOfEditor
      <4>4. head \o typed \o tail \in Seq(Chars)
        BY <4>2, <4>3
      <4> QED BY <4>1, <4>3, <4>4 DEF TextOfEditor
    <3>2. schema_match' = None /\ schema_cursor_name_highlight' = None /\ RangeOfBytes'
      BY <2>2, <2>3 DEF Type
    <3> QED BY <3>1, <3>2 DEF MarksAreOfTheText, MatchOfText, HighlightOfText
  <2>4. CASE MoveCursor
    <3>1. RangeOfBytes' /\ schema_editor_text' = schema_editor_text
      BY <2>2, <2>4 DEF MoveCursor
    <3>2. TextOfEditor' /\ (schema_match' \in {None, schema_match} => MatchOfText')
      BY <2>1, <3>1 DEF TextOfEditor, MatchOfText
    <3>3. PICK c, entry :
             /\ c \in 0 .. CharLen(schema_editor_text)
             /\ entry = schema_field_name_match_at_line(schema_editor_text,
                           line_index_for_char_index(schema_editor_text, c))
             /\ \/ schema_cursor_name_highlight' = None /\ UNCHANGED schema_match
                \/ /\ entry # None
                   /\ schema_cursor_name_highlight' = entry /\ schema_match' = None
      BY <2>4 DEF MoveCursor
    <3>4. CASE schema_cursor_name_highlight' = None /\ UNCHANGED schema_match
      BY <3>1, <3>2, <3>4 DEF MarksAreOfTheText, HighlightOfText
    <3>5. CASE entry # None /\ schema_cursor_name_highlight' = entry /\ schema_match' = None
      <4>1. PICK l \in Nat : l = line_index_for_char_index(schema_editor_text, c)
        BY <2>1, CursorLineIsNumber DEF TextOfEditor
      <4>2. ~(l + 1 > Len(Segments(schema_editor_text)))
        BY <3>3, <3>5, <4>1, Zenon DEF schema_field_name_match_at_line
      <4>3. l \in 0 .. (LineCount(schema_editor_text) - 1)
        BY <2>1, <4>2, LinesAreCounted DEF TextOfEditor
      <4>4. HighlightOfText'
        BY <3>1, <3>3, <3>5, <4>1, <4>3 DEF HighlightOfText
      <4> QED BY <3>1, <3>2, <3>5, <4>4 DEF MarksAreOfTheText
    <3> QED BY <3>3, <3>4, <3>5
  <2>5. CASE SelectRow
    <3>1. /\ RangeOfBytes' /\ schema_editor_text' = schema_editor_text
          /\ schema_cursor_name_highlight' = None
      BY <2>2, <2>5 DEF SelectRow
    <3>2. TextOfEditor' /\ HighlightOfText'
      BY <2>1, <3>1 DEF TextOfEditor, HighlightOfText
    <3>3. MatchOfText'
      BY <2>5, <3>1, Zenon DEF SelectRow, MatchOfText
    <3> QED BY <3>1, <3>2, <3>3 DEF MarksAreOfTheText
  <2>6. CASE UNCHANGED vars
    BY <1>2, <2>6 DEF vars, MarksAreOfTheText, TextOfEditor, MatchOfText, HighlightOfText,
                      RangeOfBytes
  <2> QED BY <1>2, <2>3, <2>4, <2>5, <2>6 DEF Next
<1> QED BY <1>1, <1>2, PTL DEF Spec

-----------------------------------------------------------------------------
(* Layout *)

LEMMA LayoutFacts ==
    ASSUME NEW text \in Seq(Chars), NEW range, range = None \/ range \in Nat \X Nat,
           NEW pieces, pieces = schema_editor_layout_job(text, range)
    PROVE  /\ FlattenSeq(pieces) = Bytes(text)
           /\ \A i \in 1 .. Len(pieces) : pieces[i] # << >> => pieces[i][1] = 1
<1>1. Bytes(text) \in Seq(Nat) /\ ByteLen(text) = Len(Bytes(text)) /\ ByteLen(text) \in Nat
  BY BytesAreSeq DEF ByteLen
<1>2. Bytes(text) # << >> => Bytes(text)[1] = 1
  BY TextBeginsWhole, BytesNone
<1>3. CASE pieces = << Bytes(text) >>
  <2>1. Len(pieces) = 1 /\ pieces[1] = Bytes(text)
    BY <1>3
  <2>2. FlattenSeq(pieces) = Bytes(text)
    BY <2>1, FlattenOne
  <2> QED BY <1>2, <2>1, <2>2
<1>4. CASE ~(pieces = << Bytes(text) >>)
  <2> DEFINE piece(from, to) == SubSeq(Bytes(text), from + 1, to)
             cut == << piece(0, range[1]), piece(range[1], range[2]),
                       piece(range[2], ByteLen(text)) >>
  <2>1. /\ range # None
        /\ range[1] <= range[2] /\ range[2] <= ByteLen(text)
        /\ is_char_boundary(text, range[1]) /\ is_char_boundary(text, range[2])
        /\ pieces = cut
    BY <1>4, Zenon DEF schema_editor_layout_job
  <2>2. PICK n \in Nat : n = ByteLen(text)
    BY <1>1
  <2>3. PICK i \in 0 .. n, j \in 0 .. n : i = range[1] /\ j = range[2] /\ i <= j
    <3>1. PICK i \in Nat, j \in Nat : i = range[1] /\ j = range[2]
      BY <2>1
    <3>2. i <= j /\ j <= n
      BY <2>1, <2>2, <3>1, Zenon
    <3>3. i \in 0 .. n /\ j \in 0 .. n
      BY <3>2
    <3> QED BY <3>1, <3>2, <3>3, Zenon
  <2>4. PICK bytes \in Seq(Nat) : bytes = Bytes(text) /\ Len(bytes) = n
    BY <1>1, <2>2
  <2>5. PICK p1 \in Seq(Nat), p2 \in Seq(Nat), p3 \in Seq(Nat) :
           /\ p1 = SubSeq(bytes, 1, i) /\ p2 = SubSeq(bytes, i + 1, j)
           /\ p3 = SubSeq(bytes, j + 1, n)
    <3>1. \A k \in 1 .. n : bytes[k] \in Nat
      BY <2>4, ElementOfSeq
    <3>2. /\ \A k \in 1 .. i : bytes[k] \in Nat
          /\ \A k \in (i + 1) .. j : bytes[k] \in Nat
          /\ \A k \in (j + 1) .. n : bytes[k] \in Nat
      BY <2>3, <3>1
    <3>3. /\ SubSeq(bytes, 1, i) \in Seq(Nat) /\ SubSeq(bytes, i + 1, j) \in Seq(Nat)
          /\ SubSeq(bytes, j + 1, n) \in Seq(Nat)
      BY <2>3, <3>2, SubSeqProperties
    <3> QED BY <3>3
  <2>6. pieces = << p1, p2, p3 >>
    <3>1. 0 + 1 = 1
      OBVIOUS
    <3> QED BY <2>1, <2>2, <2>3, <2>4, <2>5, <3>1, Zenon
  <2>7. FlattenSeq(pieces) = bytes
    <3>1. PICK x, y, z : x = << p1 >> /\ y = << p1, p2 >> /\ z = << p1, p2, p3 >>
      OBVIOUS
    <3>2. /\ Len(x) = 1 /\ x[1] = p1
          /\ Len(y) = 1 + 1 /\ y[1] = p1 /\ y[1 + 1] = p2
          /\ Len(z) = 2 + 1 /\ z[1] = p1 /\ z[2] = p2 /\ z[2 + 1] = p3 /\ Len(y) = 2 /\ y[2] = p2
      BY <3>1
    <3>3. FlattenSeq(z) = (p1 \o p2) \o p3
      <4>1. FlattenSeq(x) = p1
        BY <3>2, FlattenOne
      <4>2. /\ 1 \in Nat \ {0} /\ \A k \in 1 .. 1 : y[k] = x[k]
            /\ 2 \in Nat \ {0} /\ \A k \in 1 .. 2 : z[k] = y[k]
        BY <3>2
      <4>3. FlattenSeq(y) = FlattenSeq(x) \o y[1 + 1]
        BY <3>2, <4>2, FlattenNext
      <4>4. FlattenSeq(z) = FlattenSeq(y) \o z[2 + 1]
        BY <3>2, <4>2, FlattenNext
      <4> QED BY <3>2, <4>1, <4>3, <4>4, Zenon
    <3>4. p1 \o p2 = SubSeq(bytes, 1, j)
      <4>1. 1 \in 1 .. (Len(bytes) + 1) /\ i \in (1 - 1) .. Len(bytes) /\ j \in i .. Len(bytes)
        BY <2>3, <2>4
      <4> QED BY <2>5, <4>1, ConcatAdjacentSubSeq
    <3>5. SubSeq(bytes, 1, j) \o p3 = bytes
      <4>1. /\ 1 \in 1 .. (Len(bytes) + 1) /\ j \in (1 - 1) .. Len(bytes)
            /\ n \in j .. Len(bytes)
        BY <2>3, <2>4
      <4>2. SubSeq(bytes, 1, j) \o SubSeq(bytes, j + 1, n) = SubSeq(bytes, 1, n)
        BY <4>1, ConcatAdjacentSubSeq
      <4>3. SubSeq(bytes, 1, n) = bytes
        BY <2>4, SubSeqFull
      <4> QED BY <2>5, <4>2, <4>3
    <3> QED BY <2>6, <3>1, <3>3, <3>4, <3>5, Zenon
  <2>8. ASSUME NEW from \in 0 .. n, NEW to \in from .. n, is_char_boundary(text, from),
               SubSeq(bytes, from + 1, to) # << >>
        PROVE  SubSeq(bytes, from + 1, to)[1] = 1
    <3>1. from < to
      <4> SUFFICES ASSUME ~(from < to) PROVE FALSE
        OBVIOUS
      <4>1. to < from + 1
        OBVIOUS
      <4> QED BY <2>8, <4>1, SubSeqEmpty
    <3>2. SubSeq(bytes, from + 1, to)[1] = bytes[from + 1]
      <4>1. \A k \in (from + 1) .. to : bytes[k] \in Nat
        BY <2>4, ElementOfSeq
      <4>2. 1 \in 1 .. (to - (from + 1) + 1) /\ (from + 1) + 1 - 1 = from + 1
        BY <3>1
      <4>3. \A k \in 1 .. (to - (from + 1) + 1) :
               SubSeq(bytes, from + 1, to)[k] = bytes[(from + 1) + k - 1]
        BY <4>1, SubSeqProperties
      <4> QED BY <4>2, <4>3
    <3>3. from < ByteLen(text)
      BY <2>2, <3>1
    <3>4. Bytes(text)[from + 1] = 1
      BY <1>1, <2>8, <3>3 DEF is_char_boundary
    <3> QED BY <2>4, <3>2, <3>4
  <2>9. p1 # << >> => p1[1] = 1
    <3> SUFFICES ASSUME p1 # << >> PROVE p1[1] = 1
      OBVIOUS
    <3>1. 0 \in 0 .. n /\ i \in 0 .. n /\ 0 + 1 = 1
      BY <2>3
    <3>2. is_char_boundary(text, 0)
      <4>1. 0 \in 0 .. Len(text)
        BY LenProperties
      <4> QED BY <4>1, BoundaryAtStart, WidthNone
    <3>3. SubSeq(bytes, 0 + 1, i) # << >> => SubSeq(bytes, 0 + 1, i)[1] = 1
      BY <2>8, <3>1, <3>2
    <3> QED BY <2>5, <3>1, <3>3
  <2>10. (p2 # << >> => p2[1] = 1) /\ (p3 # << >> => p3[1] = 1)
    <3>1. j \in i .. n /\ n \in j .. n
      BY <2>3
    <3>2. is_char_boundary(text, i) /\ is_char_boundary(text, j)
      BY <2>1, <2>3
    <3> QED BY <2>3, <2>5, <2>8, <3>1, <3>2
  <2>11. \A k \in 1 .. Len(pieces) : pieces[k] # << >> => pieces[k][1] = 1
    <3>1. Len(pieces) = 3 /\ pieces[1] = p1 /\ pieces[2] = p2 /\ pieces[3] = p3
      BY <2>6
    <3>2. \A k \in 1 .. 3 : k = 1 \/ k = 2 \/ k = 3
      OBVIOUS
    <3> QED BY <2>9, <2>10, <3>1, <3>2, Zenon
  <2> QED BY <2>4, <2>7, <2>11
<1> QED BY <1>3, <1>4

(* Whatever range the frame before left behind, the text is shown as a     *)
(* whole, in order, and cut between characters only.                       *)
THEOREM NothingIsEverLost == Spec => []NothingIsLost
<1>1. MarksAreOfTheText => NothingIsLost
  <2> SUFFICES ASSUME MarksAreOfTheText PROVE NothingIsLost
    OBVIOUS
  <2>1. /\ schema_editor_text \in Seq(Chars)
        /\ highlighted_range = None \/ highlighted_range \in Nat \X Nat
    BY DEF MarksAreOfTheText, TextOfEditor, RangeOfBytes
  <2> QED BY <2>1, LayoutFacts, Zenon DEF NothingIsLost
<1> QED BY <1>1, MarksStayOfTheText, PTL

-----------------------------------------------------------------------------
(* Clicks *)

(* The characters that begin before a cursor are the first m.              *)
LEMMA CursorSplits ==
    ASSUME NEW text \in Seq(Chars), NEW c \in 0 .. CharLen(text)
    PROVE  \E m \in 0 .. Len(text) :
              /\ \A i \in 1 .. m : Count(text, i - 1) < c
              /\ m < Len(text) => c <= Count(text, m)
              /\ line_index_for_char_index(text, c) = LineEnds(text, m)
<1>1. PICK n \in Nat : n = Len(text)
  BY LenProperties
<1>2. c \in Nat
  BY CharsAreCounted
<1> DEFINE S == {i \in 0 .. n : i > 0 => Count(text, i - 1) < c}
<1>3. 0 \in S /\ S \in SUBSET (0 .. n)
  OBVIOUS
<1>4. PICK m \in S : \A j \in S : j <= m
  <2> HIDE DEF S
  <2> QED BY <1>3, GreatestOfInterval
<1>5. m \in 0 .. n /\ (m > 0 => Count(text, m - 1) < c)
  BY <1>4
<1>6. \A i \in 1 .. m : Count(text, i - 1) < c
  <2> SUFFICES ASSUME NEW i \in 1 .. m PROVE Count(text, i - 1) < c
    OBVIOUS
  <2>1. i - 1 \in 0 .. Len(text) /\ m - 1 \in (i - 1) .. Len(text) /\ m > 0
    BY <1>1, <1>5
  <2>2. /\ Count(text, i - 1) \in Nat /\ Count(text, m - 1) \in Nat
        /\ Count(text, i - 1) <= Count(text, m - 1)
    BY <2>1, CountGrows
  <2> QED BY <1>2, <1>5, <2>1, <2>2
<1>7. \A i \in 0 .. (n - 1) : Count(text, i) \in Nat /\ (m <= i => c <= Count(text, i))
  <2> SUFFICES ASSUME NEW i \in 0 .. (n - 1)
               PROVE  Count(text, i) \in Nat /\ (m <= i => c <= Count(text, i))
    OBVIOUS
  <2>1. i \in 0 .. Len(text) /\ i \in i .. Len(text)
    BY <1>1
  <2>2. Count(text, i) \in Nat
    BY <2>1, CountGrows
  <2>3. ASSUME m <= i PROVE c <= Count(text, i)
    <3>1. i + 1 \in 0 .. n /\ ~(i + 1 <= m) /\ (i + 1) - 1 = i /\ i + 1 > 0
      BY <1>5, <2>3
    <3>2. i + 1 \notin S
      BY <1>4, <3>1
    <3>3. ~(Count(text, i) < c)
      BY <3>1, <3>2
    <3> QED BY <1>2, <2>2, <3>3
  <2> QED BY <2>2, <2>3
<1>8. {i \in 1 .. Len(text) : text[i] = LF /\ CharLen(SubSeq(text, 1, i - 1)) < c}
        = {j \in 1 .. m : text[j] = LF}
  <2>1. ASSUME NEW i \in 1 .. n
        PROVE  Count(text, i - 1) < c <=> i \in 1 .. m
    <3>1. CASE i <= m
      BY <1>5, <1>6, <3>1
    <3>2. CASE ~(i <= m)
      <4>1. i - 1 \in 0 .. (n - 1) /\ m <= i - 1
        BY <1>5, <3>2
      <4>2. Count(text, i - 1) \in Nat /\ c <= Count(text, i - 1)
        BY <1>7, <4>1
      <4> QED BY <1>2, <3>2, <4>2
    <3> QED BY <3>1, <3>2
  <2>2. \A i : i \in 1 .. m => i \in 1 .. n
    BY <1>5
  <2>3. \A i : Count(text, i - 1) = CharLen(SubSeq(text, 1, i - 1))
    BY Zenon DEF Count
  <2> HIDE DEF S
  <2> QED BY <1>1, <2>1, <2>2, <2>3, Zenon
<1>9. line_index_for_char_index(text, c) = LineEnds(text, m)
  BY <1>8, Zenon DEF line_index_for_char_index, LineEnds
<1>10. m < Len(text) => c <= Count(text, m)
  <2> SUFFICES ASSUME m < Len(text) PROVE c <= Count(text, m)
    OBVIOUS
  <2>1. m \in 0 .. (n - 1) /\ m <= m
    BY <1>1, <1>5
  <2> QED BY <1>7, <2>1
<1> QED BY <1>1, <1>5, <1>6, <1>9, <1>10

LEMMA CursorFacts ==
    ASSUME NEW text \in Seq(Chars), NEW c \in 0 .. CharLen(text),
           NEW l, l = line_index_for_char_index(text, c),
           NEW first, NEW last,
           first = Segments(text)[l + 1].first, last = Segments(text)[l + 1].last
    PROVE  IF l + 1 <= LineCount(text)
           THEN /\ Count(text, first - 1) <= c
                /\ c <= Count(text, last)
                /\ text[last] = LF => c < Count(text, last)
           ELSE text = << >> \/ (c = CharLen(text) /\ text[Len(text)] = LF)
<1>1. PICK n \in Nat : n = Len(text)
  BY LenProperties
<1>2. c \in Nat /\ CharLen(text) \in Nat /\ c <= CharLen(text)
  BY CharsAreCounted
<1>3. CharLen(text) = Count(text, n)
  BY <1>1, SubSeqFull DEF Count
<1>4. PICK m \in 0 .. n :
         /\ \A i \in 1 .. m : Count(text, i - 1) < c
         /\ m < n => c <= Count(text, m)
         /\ l = LineEnds(text, m)
  BY <1>1, CursorSplits
<1>5. l \in Nat
  <2>1. m \in Nat /\ m <= m
    BY <1>4
  <2> QED BY <1>4, <2>1, LineEndsAscend
<1>6. LineCount(text) \in Nat
  BY LinesAreCounted
<1>7. CASE n = 0
  <2>1. text = << >>
    BY <1>1, <1>7, EmptySeq
  <2>2. LineCount(text) = 0
    BY <2>1 DEF LineCount
  <2> QED BY <1>5, <2>1, <2>2
<1>8. CASE n # 0
  <2>1. text # << >> /\ n \in Nat \ {0} /\ n - 1 \in Nat
    BY <1>1, <1>8, EmptySeq
  <2>2. /\ LineCount(text) = LineEnds(text, n - 1) + 1
        /\ LineEnds(text, n - 1) \in Nat
        /\ text[n] = LF => LineEnds(text, n) = LineEnds(text, n - 1) + 1
        /\ text[n] # LF => LineEnds(text, n) = LineEnds(text, n - 1)
    BY <1>1, <2>1, LineEndsNext DEF LineCount
  <2>3. CASE l + 1 <= LineCount(text)
    <3>1. l + 1 \in 1 .. LineCount(text) /\ (l + 1) - 1 = l
      BY <1>5, <1>6, <2>3
    <3>2. /\ first \in 1 .. n /\ last \in first .. n
          /\ \A i \in 1 .. n : LineEnds(text, i - 1) = l <=> first <= i /\ i <= last
          /\ first > 1 => text[first - 1] = LF
      <4>1. /\ first \in 1 .. Len(text) /\ last \in first .. Len(text)
            /\ \A i \in 1 .. Len(text) :
                  LineEnds(text, i - 1) = (l + 1) - 1 <=> first <= i /\ i <= last
            /\ first > 1 => text[first - 1] = LF
        <5>1. PICK k \in 1 .. LineCount(text) : k = l + 1
          BY <3>1
        <5>2. first = Segments(text)[k].first /\ last = Segments(text)[k].last
          BY <5>1
        <5>3. /\ first \in 1 .. Len(text) /\ last \in first .. Len(text)
              /\ \A i \in 1 .. Len(text) :
                    LineEnds(text, i - 1) = k - 1 <=> first <= i /\ i <= last
              /\ first > 1 => text[first - 1] = LF
          BY <5>2, LineFacts
        <5> QED BY <5>1, <5>3, Zenon
      <4> QED BY <1>1, <3>1, <4>1, Zenon
    <3>3. first - 1 <= m /\ c <= Count(text, last) /\ (text[last] = LF => c < Count(text, last))
      <4>1. CASE m < n
        <5>1. m + 1 \in 1 .. n /\ (m + 1) - 1 = m
          BY <1>4, <4>1
        <5>2. first <= m + 1 /\ m + 1 <= last
          BY <1>4, <3>2, <5>1
        <5>3. m \in 0 .. Len(text) /\ last \in m .. Len(text) /\ m < last /\ first - 1 <= m
          BY <1>1, <1>4, <3>2, <5>2
        <5>4. /\ Count(text, m) \in Nat /\ Count(text, last) \in Nat
              /\ Count(text, m) < Count(text, last)
          BY <5>3, CountGrows
        <5>5. c <= Count(text, m)
          BY <1>4, <4>1
        <5>6. c < Count(text, last)
          BY <1>2, <5>4, <5>5
        <5> QED BY <1>2, <5>3, <5>4, <5>6
      <4>2. CASE ~(m < n)
        <5>1. m = n
          BY <1>4, <4>2
        <5>2. text[n] # LF /\ LineEnds(text, n - 1) = l
          BY <1>4, <1>5, <2>2, <2>3, <5>1
        <5>3. n \in 1 .. n
          BY <2>1
        <5>4. n <= last
          BY <3>2, <5>2, <5>3
        <5>5. last = n /\ first - 1 <= m
          BY <3>2, <5>1, <5>4
        <5> QED BY <1>2, <1>3, <5>2, <5>5
      <4> QED BY <4>1, <4>2
    <3>4. Count(text, first - 1) <= c
      <4>1. CASE first = 1
        <5>1. Count(text, 0) = 0
          BY CountNone
        <5> QED BY <1>2, <4>1, <5>1
      <4>2. CASE first # 1
        <5>1. first - 1 \in 1 .. Len(text) /\ first - 1 \in 1 .. m /\ first > 1
          BY <1>1, <1>4, <3>2, <3>3, <4>2
        <5>2. /\ Count(text, first - 1) = Count(text, (first - 1) - 1) + 1
              /\ Count(text, (first - 1) - 1) \in Nat
          BY <3>2, <5>1, CountNext
        <5>3. Count(text, (first - 1) - 1) < c
          BY <1>4, <5>1
        <5> QED BY <1>2, <5>2, <5>3
      <4> QED BY <4>1, <4>2
    <3> QED BY <2>3, <3>3, <3>4
  <2>4. CASE ~(l + 1 <= LineCount(text))
    <3>1. LineEnds(text, n - 1) + 1 <= l
      BY <1>5, <1>6, <2>2, <2>4
    <3>2. m = n
      <4> SUFFICES ASSUME m # n PROVE FALSE
        OBVIOUS
      <4>1. m \in Nat /\ m <= n - 1
        BY <1>4
      <4>2. LineEnds(text, m) <= LineEnds(text, n - 1)
        BY <2>1, <4>1, LineEndsAscend
      <4> QED BY <1>4, <1>5, <2>2, <3>1, <4>2
    <3>3. text[n] = LF
      BY <1>4, <1>5, <2>2, <3>1, <3>2
    <3>4. n \in 1 .. m /\ n \in 1 .. Len(text)
      BY <1>1, <2>1, <3>2
    <3>5. Count(text, n - 1) < c /\ Count(text, n) = Count(text, n - 1) + 1 /\ Count(text, n - 1) \in Nat
      BY <1>4, <3>3, <3>4, CountNext
    <3>6. c = CharLen(text)
      BY <1>2, <1>3, <3>5
    <3> QED BY <1>1, <2>4, <3>3, <3>6
  <2> QED BY <2>3, <2>4
<1> QED BY <1>7, <1>8

(* A click on a character leads to its line, in a text of any length whose *)
(* characters are as wide as they like and whose lines end as they like.   *)
THEOREM CursorIsAlwaysOnLine == Spec => []CursorIsOnLine
<1>1. MarksAreOfTheText => CursorIsOnLine
  <2> SUFFICES ASSUME MarksAreOfTheText, NEW c \in 0 .. CharLen(schema_editor_text),
                      NEW l, l = line_index_for_char_index(schema_editor_text, c),
                      NEW segment, segment = Segments(schema_editor_text)[l + 1]
               PROVE  IF l + 1 <= Len(Segments(schema_editor_text))
                      THEN /\ Count(schema_editor_text, segment.first - 1) <= c
                           /\ c <= Count(schema_editor_text, segment.last)
                           /\ schema_editor_text[segment.last] = LF
                                => c < Count(schema_editor_text, segment.last)
                      ELSE \/ schema_editor_text = << >>
                           \/ /\ c = CharLen(schema_editor_text)
                              /\ schema_editor_text[Len(schema_editor_text)] = LF
    BY Zenon DEF CursorIsOnLine, Count
  <2>1. schema_editor_text \in Seq(Chars)
    BY DEF MarksAreOfTheText, TextOfEditor
  <2>2. Len(Segments(schema_editor_text)) = LineCount(schema_editor_text)
    BY <2>1, LinesAreCounted
  <2> QED BY <2>1, <2>2, CursorFacts, Zenon
<1> QED BY <1>1, MarksStayOfTheText, PTL

LEMMA IntervalFacts ==
    ASSUME NEW a \in Nat, NEW b \in Nat, a <= b
    PROVE  Min(a .. b) = a /\ Max(a .. b) = b /\ Cardinality(a .. b) = b - a + 1
<1>1. a .. b \in SUBSET (0 .. b) /\ a .. b \subseteq Nat /\ a \in a .. b /\ b \in a .. b /\ a .. b # {}
  OBVIOUS
<1>2. Min(a .. b) \in a .. b /\ \A j \in a .. b : Min(a .. b) <= j
  BY <1>1, LeastOfNaturals
<1>3. Max(a .. b) \in a .. b /\ \A j \in a .. b : j <= Max(a .. b)
  BY <1>1, GreatestOfInterval
<1>4. Cardinality(a .. b) = b - a + 1
  BY FS_Interval
<1>5. PICK i \in a .. b, j \in a .. b : i = Min(a .. b) /\ j = Max(a .. b)
  BY <1>2, <1>3
<1>6. i <= a /\ b <= j
  BY <1>1, <1>2, <1>3, <1>5
<1>7. i = a /\ j = b
  BY <1>5, <1>6
<1> QED BY <1>4, <1>5, <1>7

(* The elements that begin between two places of a text.                   *)
LEMMA ElementsBetween ==
    ASSUME NEW text \in Seq(Chars), NEW a \in 1 .. Len(text), NEW b \in a .. Len(text)
    PROVE  {i \in 1 .. Len(text) : /\ Width(text, a - 1) <= Width(text, i - 1)
                                   /\ Width(text, i - 1) < Width(text, b)} = a .. b
<1>1. PICK n \in Nat : n = Len(text)
  BY LenProperties
<1>2. ASSUME NEW i \in 1 .. n
      PROVE  /\ Width(text, a - 1) <= Width(text, i - 1) <=> a <= i
             /\ Width(text, i - 1) < Width(text, b) <=> i <= b
  <2>1. /\ a - 1 \in 0 .. Len(text) /\ i - 1 \in 0 .. Len(text) /\ b \in 0 .. Len(text)
    BY <1>1
  <2>2. /\ Width(text, a - 1) \in Nat /\ Width(text, i - 1) \in Nat /\ Width(text, b) \in Nat
    BY <2>1, PrefixIsText
  <2>3. Width(text, a - 1) <= Width(text, i - 1) <=> a <= i
    <3>1. CASE a < i
      <4>1. a - 1 < i - 1
        BY <1>1, <3>1
      <4>2. Width(text, a - 1) < Width(text, i - 1)
        BY <2>1, <4>1, WidthGrows
      <4> QED BY <1>1, <2>2, <3>1, <4>2
    <3>2. CASE a = i
      BY <1>1, <2>2, <3>2
    <3>3. CASE i < a
      <4>1. i - 1 < a - 1
        BY <1>1, <3>3
      <4>2. Width(text, i - 1) < Width(text, a - 1)
        BY <2>1, <4>1, WidthGrows
      <4> QED BY <1>1, <2>2, <3>3, <4>2
    <3> QED BY <1>1, <3>1, <3>2, <3>3
  <2>4. Width(text, i - 1) < Width(text, b) <=> i <= b
    <3>1. CASE i <= b
      <4>1. i - 1 < b
        BY <1>1, <3>1
      <4>2. Width(text, i - 1) < Width(text, b)
        BY <2>1, <4>1, WidthGrows
      <4> QED BY <3>1, <4>2
    <3>2. CASE i - 1 = b
      <4>1. ~(i <= b)
        BY <1>1, <3>2
      <4> QED BY <2>2, <3>2, <4>1
    <3>3. CASE b < i - 1
      <4>1. ~(i <= b)
        BY <1>1, <3>3
      <4>2. Width(text, b) < Width(text, i - 1)
        BY <2>1, <3>3, WidthGrows
      <4> QED BY <2>2, <4>1, <4>2
    <3> QED BY <1>1, <3>1, <3>2, <3>3
  <2> QED BY <2>3, <2>4
<1>3. \A i : i \in a .. b <=> i \in 1 .. n /\ a <= i /\ i <= b
  BY <1>1
<1> QED BY <1>1, <1>2, <1>3, Zenon

(* What HighlightIsName says of a mark and the elements inside.            *)
IsHighlight(mark, text, inside) ==
    /\ inside # {}
    /\ is_char_boundary(text, mark.start) /\ is_char_boundary(text, mark.end)
    /\ \A i \in inside : text[i] # LF
    /\ Cardinality({i \in 1 .. (Min(inside) - 1) : text[i] = LF}) = mark.line - 1
    /\ \E k \in 1 .. (Min(inside) - 1) :
          /\ text[k] = Key
          /\ \A i \in (k + 1) .. (Min(inside) - 1) : text[i] \in {Space, CR, Quote}
    /\ Cardinality(inside) >= Len(mark.name)
    /\ text[Min(inside) - 1] # Quote =>
          /\ mark.name = SubSeq(text, Min(inside), Max(inside))
          /\ ~IsWhitespace(text[Max(inside)])

LEMMA HighlightFacts ==
    ASSUME NEW text \in Seq(Chars), NEW l \in 0 .. (LineCount(text) - 1),
           NEW mark, mark = schema_field_name_match_at_line(text, l), mark # None,
           NEW inside, inside = {i \in 1 .. Len(text) : /\ mark.start <= Width(text, i - 1)
                                                        /\ Width(text, i - 1) < mark.end}
    PROVE  IsHighlight(mark, text, inside)
<1>1. l \in Nat /\ l + 1 \in 1 .. LineCount(text) /\ (l + 1) - 1 = l
  BY LinesAreCounted
<1>2. PICK first, last : /\ first = Segments(text)[l + 1].first
                         /\ last = Segments(text)[l + 1].last
  OBVIOUS
<1>3. PICK n \in Nat : n = Len(text)
  BY LenProperties
<1>4. /\ first \in 1 .. n /\ last \in first .. n
      /\ \A i \in 1 .. n : LineEnds(text, i - 1) = l <=> first <= i /\ i <= last
  BY <1>1, <1>2, <1>3, LineFacts
<1>5. /\ mark.line = l + 1
      /\ \E a \in first .. last : \E b \in a .. last : \E k \in first .. (a - 1) :
            IsMatch(mark, text, k, a, b) /\ \A i \in a .. b : text[i] # LF
  BY <1>1, <1>2, MatchFacts
<1>6. PICK a \in 1 .. n, b \in 1 .. n, k \in 1 .. n :
         /\ first <= a /\ a <= b /\ b <= last /\ k < a
         /\ IsMatch(mark, text, k, a, b) /\ \A i \in a .. b : text[i] # LF
  <2>1. PICK a \in first .. last :
        \E b \in a .. last : \E k \in first .. (a - 1) :
           IsMatch(mark, text, k, a, b) /\ \A i \in a .. b : text[i] # LF
    BY <1>5
  <2>2. PICK b \in a .. last :
        \E k \in first .. (a - 1) :
           IsMatch(mark, text, k, a, b) /\ \A i \in a .. b : text[i] # LF
    BY <2>1
  <2>3. PICK k \in first .. (a - 1) :
           IsMatch(mark, text, k, a, b) /\ \A i \in a .. b : text[i] # LF
    BY <2>2
  <2>4. /\ a \in 1 .. n /\ b \in 1 .. n /\ k \in 1 .. n
        /\ first <= a /\ a <= b /\ b <= last /\ k < a
    BY <1>4, <2>1, <2>2, <2>3
  <2> QED BY <2>3, <2>4
<1>7. /\ text[k] = Key
      /\ \A j \in (k + 1) .. (a - 1) : text[j] \in {Space, CR, Quote}
      /\ mark.start = Width(text, a - 1)
      /\ mark.end = Width(text, b)
      /\ Len(mark.name) <= b - a + 1
      /\ text[a - 1] # Quote => mark.name = SubSeq(text, a, b) /\ ~IsWhitespace(text[b])
  BY <1>6, Zenon DEF IsMatch
<1>8. inside = a .. b
  <2>1. a \in 1 .. Len(text) /\ b \in a .. Len(text)
    BY <1>3, <1>6
  <2> QED BY <1>7, <2>1, ElementsBetween
<1>9. Min(inside) = a /\ Max(inside) = b /\ Cardinality(inside) = b - a + 1
  <2>1. a \in Nat /\ b \in Nat /\ a <= b
    BY <1>6
  <2> QED BY <1>8, <2>1, IntervalFacts
<1>10. is_char_boundary(text, mark.start) /\ is_char_boundary(text, mark.end)
  <2>1. a - 1 \in 0 .. Len(text) /\ b \in 0 .. Len(text)
    BY <1>3, <1>6
  <2> QED BY <1>7, <2>1, BoundaryAtStart
<1>11. Cardinality({i \in 1 .. (Min(inside) - 1) : text[i] = LF}) = mark.line - 1
  <2>1. a <= last
    BY <1>4, <1>6
  <2>2. LineEnds(text, a - 1) = l
    BY <1>4, <1>6, <2>1
  <2>3. mark.line - 1 = l
    BY <1>1, <1>5
  <2> QED BY <1>9, <2>2, <2>3, Zenon DEF LineEnds
<1>12. inside # {} /\ \A i \in inside : text[i] # LF
  <2>1. a \in a .. b
    BY <1>6
  <2> QED BY <1>6, <1>8, <2>1, Zenon
<1>13. k \in 1 .. (a - 1)
  BY <1>6
<1>14. Cardinality(inside) >= Len(mark.name)
  <2>1. \A x, y \in Int : x <= y => y >= x
    OBVIOUS
  <2> QED BY <1>7, <1>9
<1> QED BY <1>7, <1>9, <1>10, <1>11, <1>12, <1>13, <1>14, Zenon DEF IsHighlight

(* The name under the cursor is highlighted, and nothing else.             *)
THEOREM HighlightIsAlwaysName == Spec => []HighlightIsName
<1>1. MarksAreOfTheText => HighlightIsName
  <2> SUFFICES ASSUME MarksAreOfTheText, schema_cursor_name_highlight # None
               PROVE  HighlightIsName
    BY DEF HighlightIsName
  <2>1. schema_editor_text \in Seq(Chars)
    BY DEF MarksAreOfTheText, TextOfEditor
  <2>2. PICK l \in 0 .. (LineCount(schema_editor_text) - 1) :
           schema_cursor_name_highlight = schema_field_name_match_at_line(schema_editor_text, l)
    BY DEF MarksAreOfTheText, HighlightOfText
  <2>3. \A i : StartOf(i) = Width(schema_editor_text, i - 1)
    BY Zenon DEF StartOf, Width
  <2> DEFINE mark == schema_cursor_name_highlight
             text == schema_editor_text
             inside == {i \in 1 .. Len(text) : mark.start <= StartOf(i) /\ StartOf(i) < mark.end}
  <2>4. inside = {i \in 1 .. Len(text) : /\ mark.start <= Width(text, i - 1)
                                         /\ Width(text, i - 1) < mark.end}
    BY <2>3, Zenon
  <2> HIDE DEF inside
  <2>5. IsHighlight(mark, text, inside)
    BY <2>1, <2>2, <2>4, HighlightFacts, Zenon
  <2> QED BY <2>5, Zenon DEF HighlightIsName, IsHighlight, inside
<1> QED BY <1>1, MarksStayOfTheText, PTL

(* A click finds the name it is on, in every text.                         *)
THEOREM ClicksAlwaysFindNames == Spec => []ClicksFindNames
BY CursorIsAlwaysOnLine, HighlightIsAlwaysName, PTL DEF ClicksFindNames

-----------------------------------------------------------------------------
(* Selected rows *)

LEMMA FoundIsFirst ==
    ASSUME NEW text \in Seq(Chars), NEW name \in Names(text),
           NEW found, found = find_schema_name_entry(text, name),
           NEW segment, segment = Segments(text)[found.line],
           NEW entry, entry = schema_field_name_match_at_line(text, found.line - 1)
    PROVE  /\ found.start = Width(text, segment.first - 1)
           /\ found.end <= Width(text, segment.last)
           /\ \A i \in 1 .. Len(text) :
                 found.end <= Width(text, i - 1) /\ i <= segment.last => text[i] \in {LF, CR}
           /\ (segment.last + 1) - 1 = segment.last
           /\ entry # None
           /\ \A l \in 0 .. (found.line - 2) :
                 schema_field_name_match_at_line(text, l) # None =>
                    schema_field_name_match_at_line(text, l).name # entry.name
<1>1. PICK n \in Nat : n = Len(text)
  BY LenProperties
<1>2. LineCount(text) \in Nat
  BY LinesAreCounted
<1>3. PICK line \in 1 .. LineCount(text) :
      \E first \in 1 .. Len(text) : \E last \in first .. Len(text) : \E h \in (first - 1) .. last :
         /\ found.line = line
         /\ first = Segments(text)[line].first /\ last = Segments(text)[line].last
         /\ Declares(text, name, line)
         /\ \A e \in 1 .. (line - 1) : ~Declares(text, name, e)
         /\ found.start = Width(text, first - 1)
         /\ found.end = Width(text, h)
         /\ \A i \in (h + 1) .. last : text[i] \in {LF, CR}
  BY FoundIsLine
<1>4. PICK first \in 1 .. n, last \in 0 .. n, h \in 0 .. n :
         /\ h <= last
         /\ found.line = line
         /\ first = Segments(text)[line].first /\ last = Segments(text)[line].last
         /\ Declares(text, name, line)
         /\ \A e \in 1 .. (line - 1) : ~Declares(text, name, e)
         /\ found.start = Width(text, first - 1)
         /\ found.end = Width(text, h)
         /\ \A i \in (h + 1) .. last : text[i] \in {LF, CR}
  <2>1. ASSUME NEW first \in 1 .. n, NEW last \in first .. n, NEW h \in (first - 1) .. last
        PROVE  last \in 0 .. n /\ h \in 0 .. n /\ h <= last
    OBVIOUS
  <2> QED BY <1>1, <1>3, <2>1, Zenon
<1>5. segment.first = first /\ segment.last = last /\ (last + 1) - 1 = last
  BY <1>4
<1>6. h \in 0 .. Len(text) /\ last \in 0 .. Len(text)
  BY <1>1
<1>7. Width(text, h) \in Nat /\ Width(text, last) \in Nat
  BY <1>6, PrefixIsText
<1>8. found.end <= Width(text, last)
  <2>1. CASE h = last
    BY <1>4, <1>7, <2>1
  <2>2. CASE h # last
    <3>1. h < last
      BY <1>4, <2>2
    <3>2. Width(text, h) < Width(text, last)
      BY <1>6, <3>1, WidthGrows
    <3> QED BY <1>4, <1>7, <3>2
  <2> QED BY <2>1, <2>2
<1>9. ASSUME NEW i \in 1 .. n, found.end <= Width(text, i - 1), i <= last
      PROVE  text[i] \in {LF, CR}
  <2>1. h <= i - 1
    <3> SUFFICES ASSUME i - 1 < h PROVE FALSE
      OBVIOUS
    <3>1. i - 1 \in 0 .. Len(text)
      BY <1>1
    <3>2. Width(text, i - 1) < Width(text, h) /\ Width(text, i - 1) \in Nat
      BY <1>6, <3>1, WidthGrows, PrefixIsText
    <3> QED BY <1>4, <1>7, <1>9, <3>2
  <2>2. i \in (h + 1) .. last
    BY <1>9, <2>1
  <2> QED BY <1>4, <2>2
<1>10. /\ line - 1 \in 0 .. (LineCount(text) - 1) /\ (line - 1) + 1 = line
       /\ found.line - 1 = line - 1 /\ found.line - 2 = line - 2
  BY <1>2, <1>4
<1>11. entry # None /\ entry.name = name
  <2>1. entry = schema_field_name_match_at_line(text, line - 1)
    BY <1>10
  <2>2. Declares(text, name, (line - 1) + 1)
    BY <1>4, <1>10, Zenon
  <2>3. PICK l \in 0 .. (LineCount(text) - 1) : l = line - 1
    BY <1>10
  <2>4. Declares(text, name, l + 1) /\ entry = schema_field_name_match_at_line(text, l)
    BY <2>1, <2>2, <2>3, Zenon
  <2> QED BY <2>4, DeclaresFacts
<1>12. ASSUME NEW l \in 0 .. (line - 2), schema_field_name_match_at_line(text, l) # None
       PROVE  schema_field_name_match_at_line(text, l).name # name
  <2>1. l \in 0 .. (LineCount(text) - 1) /\ l + 1 \in 1 .. (line - 1)
    BY <1>2
  <2>2. ~Declares(text, name, l + 1)
    BY <1>4, <2>1
  <2> QED BY <1>12, <2>1, <2>2, DeclaresFacts
<1> QED BY <1>1, <1>4, <1>5, <1>8, <1>9, <1>10, <1>11, <1>12

(* The line marked for a selected row is the first that declares its name, *)
(* as a whole and without its end: a click on it leads back to the name.   *)
THEOREM MatchIsAlwaysLine == Spec => []MatchIsLine
<1>1. MarksAreOfTheText => MatchIsLine
  <2> SUFFICES ASSUME MarksAreOfTheText, schema_match # None PROVE MatchIsLine
    BY DEF MatchIsLine
  <2>1. schema_editor_text \in Seq(Chars)
    BY DEF MarksAreOfTheText, TextOfEditor
  <2>2. PICK name \in Names(schema_editor_text) :
           schema_match = find_schema_name_entry(schema_editor_text, name)
    BY DEF MarksAreOfTheText, MatchOfText
  <2>3. \A i : StartOf(i) = Width(schema_editor_text, i - 1)
    BY Zenon DEF StartOf, Width
  <2> DEFINE text == schema_editor_text
             segment == Segments(text)[schema_match.line]
             entry == schema_field_name_match_at_line(text, schema_match.line - 1)
  <2>4. /\ schema_match.start = Width(text, segment.first - 1)
        /\ schema_match.end <= Width(text, segment.last)
        /\ \A i \in 1 .. Len(text) :
              schema_match.end <= Width(text, i - 1) /\ i <= segment.last => text[i] \in {LF, CR}
        /\ (segment.last + 1) - 1 = segment.last
        /\ entry # None
        /\ \A l \in 0 .. (schema_match.line - 2) :
              schema_field_name_match_at_line(text, l) # None =>
                 schema_field_name_match_at_line(text, l).name # entry.name
    BY <2>1, <2>2, FoundIsFirst
  <2>5. StartOf(segment.last + 1) = Width(text, segment.last)
    BY <2>3, <2>4, Zenon
  <2> QED BY <2>3, <2>4, <2>5, Zenon DEF MatchIsLine
<1> QED BY <1>1, MarksStayOfTheText, PTL
=============================================================================
