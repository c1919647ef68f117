------------------------- MODULE IncludeLoaderProofs -------------------------
(***************************************************************************)
(* Theorems about IncludeLoader, LoaderReference and SchemaErrors, for all *)
(* paths, links, contents and requests.                                    *)
(*                                                                         *)
(* Inv adds to the type that no file is read twice at one time and that    *)
(* every file but the first was reached by the include at which the file   *)
(* below it on the stack stands; it holds for every replacement of files   *)
(* during the call.                                                        *)
(*                                                                         *)
(* Right says what a call has established while no file was replaced: what *)
(* each frame holds is the reference's merge of the items it has taken,    *)
(* each file included so far is sound, and the answer is that of the       *)
(* reference.  It rests on lemmas about the include graph: what is reached *)
(* is the least closed set, and where no circle is reached the merge of a  *)
(* file is that of its items' merges.                                      *)
(***************************************************************************)
EXTENDS SchemaErrors, FiniteSetTheorems, SequenceTheorems, TLAPS

FileFrame ==
    [path : Path, doc : SchemaDoc, next : Nat \ {0},
     structures : Seq(StructureDef), fields : Seq(FieldItem)]

Linked(frames, f) ==
    frames[f + 1].path
       \in Spellings(Target(frames[f].path, frames[f].doc.items[frames[f].next]))

Chained == \A f \in 1 .. (Len(stack) - 1) : Linked(stack, f)

Inv == TypeOK /\ NoFileTwice /\ Chained

-----------------------------------------------------------------------------
(* What a step does to the stack and to the answer *)

Opens(path, content) ==
    /\ path \notin Reading
    /\ content \in SchemaDoc
    /\ stack' = Append(stack, Frame(path, content))
    /\ UNCHANGED outcome

Circles(path) == path \in Reading /\ Return(CycleTo(path))

Answers ==
    /\ outcome'.ok \in BOOLEAN
    /\ ~outcome'.ok => outcome'.kind # "IncludeCycle"
    /\ stack' = << >>

LEMMA FailureAnswers ==
    ASSUME NEW kind, NEW path, kind # "IncludeCycle", Return(Failed(kind, path))
    PROVE  Answers
BY DEF Return, Failed, Answers

LEMMA OpenCases ==
    ASSUME NEW path, NEW content \in SchemaDoc \cup {Garbled, Malformed},
           Open(path, content)
    PROVE  Opens(path, content) \/ Circles(path) \/ Answers
<1>1. CASE path \in Reading
  BY <1>1 DEF Open, Circles
<1>2. CASE path \notin Reading /\ content = Garbled
  BY <1>2, FailureAnswers DEF Open
<1>3. CASE path \notin Reading /\ content = Malformed
  BY <1>3, FailureAnswers DEF Open, Malformed, Garbled
<1>4. CASE path \notin Reading /\ content \notin {Garbled, Malformed}
  <2>1. CASE validate_include_endianness(RootEndianness(content), content.endianness)
    BY <1>4, <2>1 DEF Open, Opens
  <2>2. CASE ~validate_include_endianness(RootEndianness(content), content.endianness)
    BY <1>4, <2>2, FailureAnswers DEF Open
  <2> QED
    BY <2>1, <2>2
<1> QED
  BY <1>1, <1>2, <1>3, <1>4

(* A path is known by itself, by what its links lead to, or by itself in   *)
(* its directory's real place.                                             *)
LEMMA NormalizedPath ==
    ASSUME NEW path \in Path
    PROVE  normalize_for_cycle(path) \in Path \cap Spellings(path)
BY PathAssumption DEF normalize_for_cycle, Spellings

LEMMA FileCases ==
    ASSUME TypeOK, NEW path \in Path, parse_schema_file_inner(path)
    PROVE  \E content : \/ Opens(normalize_for_cycle(path), content)
                        \/ Circles(normalize_for_cycle(path))
                        \/ Answers
<1>1. PICK normalized \in Path : normalized = normalize_for_cycle(path)
  BY NormalizedPath
<1>2. disk[normalized] \in Docs
  BY <1>1, ContentAssumption DEF TypeOK
<1>3. CASE normalized \notin Reading /\ disk[normalized] = Missing
  BY <1>1, <1>3, FailureAnswers DEF parse_schema_file_inner
<1>4. CASE normalized \in Reading
  BY <1>1, <1>4 DEF parse_schema_file_inner, Open, Circles
<1>5. CASE normalized \notin Reading /\ disk[normalized] # Missing
  BY <1>1, <1>2, <1>5, OpenCases, ContentAssumption DEF parse_schema_file_inner
<1> QED
  BY <1>3, <1>4, <1>5

-----------------------------------------------------------------------------
(* Each way to go on keeps the invariant *)

LEMMA AnswersKeep ==
    ASSUME Inv, stack' = << >>
    PROVE  /\ stack' \in Seq(FileFrame)
           /\ NoFileTwice' /\ Chained'
BY DEF NoFileTwice, Chained

(* A file is put on the stack that is not on it, at the include that led   *)
(* to it.                                                                  *)
LEMMA OpensKeep ==
    ASSUME Inv, NEW path \in Path, NEW content, Opens(path, content),
           stack # << >> =>
              path \in Spellings(Target(Top.path, Top.doc.items[Top.next]))
    PROVE  /\ stack' \in Seq(FileFrame)
           /\ NoFileTwice' /\ Chained'
<1>1. stack \in Seq(FileFrame)
  BY DEF Inv, TypeOK, FileFrame
<1>2. PICK n \in Nat : n = Len(stack)
  BY <1>1
<1>3. PICK frame \in FileFrame : frame = Frame(path, content) /\ frame.path = path
  <2>1. content \in SchemaDoc /\ content.structures \in Seq(StructureDef)
    BY DEF Opens, SchemaDoc
  <2>2. << >> \in Seq(FieldItem) /\ 1 \in Nat \ {0}
    OBVIOUS
  <2>3. Frame(path, content) \in FileFrame
    BY <2>1, <2>2, Zenon DEF Frame, FileFrame
  <2> QED
    BY <2>3 DEF Frame
<1>4. stack' = Append(stack, frame)
  BY <1>3 DEF Opens
<1>5. /\ stack' \in Seq(FileFrame) /\ Len(stack') = n + 1
      /\ \A f \in 1 .. n : stack'[f] = stack[f]
      /\ stack'[n + 1] = frame
  BY <1>1, <1>2, <1>4
<1>6. NoFileTwice'
  <2> SUFFICES ASSUME NEW f \in 1 .. (n + 1), NEW g \in 1 .. (n + 1),
                      stack'[f].path = stack'[g].path
               PROVE  f = g
    BY <1>5 DEF NoFileTwice
  <2>1. \A h \in 1 .. n : stack[h].path # path
    BY <1>2 DEF Opens, Reading
  <2>2. CASE f \in 1 .. n /\ g \in 1 .. n
    BY <1>2, <1>5, <2>2 DEF Inv, NoFileTwice
  <2>3. CASE f = n + 1 /\ g \in 1 .. n
    BY <1>3, <1>5, <2>1, <2>3
  <2>4. CASE f \in 1 .. n /\ g = n + 1
    BY <1>3, <1>5, <2>1, <2>4
  <2> QED
    BY <2>2, <2>3, <2>4
<1>7. Chained'
  <2> SUFFICES ASSUME NEW f \in 1 .. n PROVE Linked(stack', f)
    BY <1>5 DEF Chained
  <2>1. CASE f = n
    BY <1>1, <1>2, <1>3, <1>5, <2>1 DEF Top, Linked
  <2>2. CASE f \in 1 .. (n - 1)
    <3>1. f + 1 \in 1 .. n
      BY <2>2
    <3> QED
      BY <1>2, <1>5, <2>2, <3>1 DEF Inv, Chained, Linked
  <2> QED
    BY <2>1, <2>2
<1> QED
  BY <1>5, <1>6, <1>7

(* The innermost frame, or what is left of the stack, is replaced by one   *)
(* of the same file.                                                       *)
LEMMA ReplaceKeeps ==
    ASSUME Inv, NEW n \in 1 .. Len(stack), NEW frame \in FileFrame,
           frame.path = stack[n].path,
           stack' \in Seq(FileFrame), Len(stack') = n,
           \A f \in 1 .. (n - 1) : stack'[f] = stack[f],
           stack'[n] = frame
    PROVE  NoFileTwice' /\ Chained'
<1>1. stack \in Seq(FileFrame) /\ Len(stack) \in Nat
  BY DEF Inv, TypeOK, FileFrame
<1>2. \A f \in 1 .. n : stack'[f].path = stack[f].path
  BY <1>1
<1>3. NoFileTwice'
  BY <1>1, <1>2 DEF Inv, NoFileTwice
<1>4. Chained'
  <2> SUFFICES ASSUME NEW f \in 1 .. (n - 1) PROVE Linked(stack', f)
    BY DEF Chained
  <2>1. f + 1 \in 1 .. n /\ f \in 1 .. (Len(stack) - 1)
    BY <1>1
  <2> QED
    BY <1>2, <2>1 DEF Inv, Chained, Linked
<1> QED
  BY <1>3, <1>4

-----------------------------------------------------------------------------
(* The steps *)

StackKept == stack' \in Seq(FileFrame) /\ NoFileTwice' /\ Chained'

(* An answer that is a circle is one.                                      *)
CircleIsReal ==
    outcome = None /\ outcome' # None /\ ~outcome'.ok /\ outcome'.kind = "IncludeCycle" =>
       LET c == outcome'.cycle
       IN /\ Len(c) > 1 /\ c[1] = c[Len(c)]
          /\ \A i \in 1 .. (Len(c) - 1) : \E f \in 1 .. Len(stack) :
                /\ stack[f].path = c[i]
                /\ LET target == Target(c[i], stack[f].doc.items[stack[f].next])
                   IN c[i + 1] \in Spellings(target)

StepKept ==
    /\ StackKept
    /\ outcome' # None => outcome'.ok \in BOOLEAN /\ stack' = << >>
    /\ CircleIsReal

LEMMA AnswersStep ==
    ASSUME Inv, Answers
    PROVE  StepKept
BY AnswersKeep DEF Answers, StepKept, StackKept, CircleIsReal

LEMMA OpensStep ==
    ASSUME Inv, outcome = None, NEW path \in Path, NEW content, Opens(path, content),
           stack # << >> =>
              path \in Spellings(Target(Top.path, Top.doc.items[Top.next]))
    PROVE  StepKept
BY OpensKeep DEF Opens, StepKept, StackKept, CircleIsReal

(* From the first frame of the path on, each file includes the next, and   *)
(* the last one includes the path.                                         *)
LEMMA CirclesStep ==
    ASSUME Inv, NEW path \in Path, Circles(path),
           path \in Spellings(Target(Top.path, Top.doc.items[Top.next]))
    PROVE  StepKept
<1>1. stack \in Seq(FileFrame)
  BY DEF Inv, TypeOK, FileFrame
<1>2. PICK n \in Nat : n = Len(stack)
  BY <1>1
<1>3. PICK k \in 1 .. n : k = Position(path) /\ stack[k].path = path
  BY <1>2 DEF Circles, Reading, Position
<1>4. outcome' = CycleTo(path) /\ stack' = << >>
  BY DEF Circles, Return
<1> DEFINE c == [f \in 1 .. (n - k + 2) |->
                    IF k + f - 1 > n THEN path ELSE stack[k + f - 1].path]
<1>5. outcome'.ok = FALSE /\ outcome'.cycle = c
  BY <1>2, <1>3, <1>4 DEF CycleTo, Cycle
<1>6. Len(c) = n - k + 2 /\ n - k + 2 \in Nat
  BY <1>3
<1>7. \A i \in 1 .. (n - k + 1) :
         c[i] = stack[k + i - 1].path /\ k + i - 1 \in 1 .. n
  BY <1>3
<1>8. c[1] = path /\ c[n - k + 2] = path
  BY <1>3
<1>9. ASSUME NEW i \in 1 .. (n - k + 1)
      PROVE  \E f \in 1 .. n :
                /\ stack[f].path = c[i]
                /\ c[i + 1] \in Spellings(Target(c[i], stack[f].doc.items[stack[f].next]))
  <2>1. PICK f \in 1 .. n : f = k + i - 1
    BY <1>7
  <2>2. stack[f].path = c[i]
    BY <1>7, <2>1
  <2>3. CASE i = n - k + 1
    <3>1. f = n /\ i + 1 = n - k + 2
      BY <1>3, <2>1, <2>3
    <3>3. c[i + 1] = path
      BY <1>8, <3>1, Zenon
    <3> HIDE DEF c
    <3>2. Top = stack[f]
      BY <1>2, <3>1 DEF Top
    <3> QED
      BY <2>2, <3>1, <3>2, <3>3
  <2>4. CASE i \in 1 .. (n - k)
    <3>1. c[i + 1] = stack[f + 1].path /\ f \in 1 .. (n - 1)
      BY <1>3, <2>1, <2>4
    <3> HIDE DEF c
    <3>2. Linked(stack, f)
      BY <1>2, <3>1 DEF Inv, Chained
    <3>3. stack[f + 1].path
             \in Spellings(Target(stack[f].path, stack[f].doc.items[stack[f].next]))
      BY <3>2 DEF Linked
    <3> QED
      BY <2>2, <3>1, <3>3, Zenon
  <2>5. i = n - k + 1 \/ i \in 1 .. (n - k)
    BY <1>3
  <2> QED
    BY <2>3, <2>4, <2>5, Zenon
<1>10. CircleIsReal
  <2> HIDE DEF c
  <2>1. Len(c) > 1 /\ c[1] = c[Len(c)] /\ Len(c) - 1 = n - k + 1
    BY <1>3, <1>6, <1>8
  <2> QED
    BY <1>2, <1>5, <1>9, <2>1 DEF CircleIsReal
<1> QED
  BY <1>4, <1>5, <1>10, AnswersKeep DEF StepKept, StackKept

LEMMA InitInv == Init => Inv
BY ContentAssumption, PathAssumption
   DEF Init, Inv, TypeOK, NoFileTwice, Chained

LEMMA StartStep ==
    ASSUME Inv, parse_schema_file \/ parse_schema_str_with_base_path \/ parse_schema_str
    PROVE  StepKept
<1>1. request \in Requests /\ disk \in [Path -> Docs]
  BY DEF Inv, TypeOK
<1>2. stack = << >> /\ outcome = None /\ Reading = {}
  BY DEF parse_schema_file, parse_schema_str_with_base_path, parse_schema_str,
         Starting, Reading
<1>3. \A path : ~Circles(path)
  BY <1>2 DEF Circles
<1>4. CASE parse_schema_file
  <2>1. request.path \in Path /\ parse_schema_file_inner(request.path)
    BY <1>1, <1>4, ContentAssumption DEF parse_schema_file, Starting
  <2> QED
    BY <1>2, <1>3, <2>1, FileCases, NormalizedPath, OpensStep, AnswersStep DEF Inv
<1>5. CASE parse_schema_str_with_base_path
  <2>1. /\ request.path \in Path
        /\ request.text \in SchemaDoc \cup {Garbled, Malformed}
        /\ Open(normalize_for_cycle(request.path), request.text)
    BY <1>1, <1>5, ContentAssumption DEF parse_schema_str_with_base_path, Starting
  <2>2. Opens(normalize_for_cycle(request.path), request.text) \/ Answers
    BY <1>3, <2>1, OpenCases
  <2>3. normalize_for_cycle(request.path) \in Path
    BY <2>1, NormalizedPath
  <2> QED
    BY <1>2, <2>2, <2>3, OpensStep, AnswersStep
<1>6. CASE parse_schema_str
  <2>1. Return(AloneResult(request.text))
    BY <1>6 DEF parse_schema_str
  <2>2. /\ AloneResult(request.text).ok \in BOOLEAN
        /\ ~AloneResult(request.text).ok =>
              AloneResult(request.text).kind # "IncludeCycle"
    BY DEF AloneResult, Failed, Loaded
  <2>3. Answers
    BY <2>1, <2>2 DEF Return, Answers
  <2> QED
    BY <2>3, AnswersStep
<1> QED
  BY <1>4, <1>5, <1>6

LEMMA TopFrame ==
    ASSUME Inv, stack # << >>
    PROVE  /\ stack \in Seq(FileFrame) /\ Len(stack) \in Nat \ {0}
           /\ Top \in FileFrame /\ Top = stack[Len(stack)]
           /\ InFile => ThisItem \in FieldItem \cup IncludeItem
<1>1. stack \in Seq(FileFrame)
  BY DEF Inv, TypeOK, FileFrame
<1>2. Len(stack) \in Nat \ {0} /\ Top \in FileFrame
  BY <1>1 DEF Top
<1>3. Top.doc.items \in Seq(FieldItem \cup IncludeItem) /\ Top.next \in Nat \ {0}
  BY <1>2 DEF FileFrame, SchemaDoc
<1> QED
  BY <1>1, <1>2, <1>3 DEF Top, InFile, ThisItem

LEMMA TakeItemStep ==
    ASSUME Inv, outcome = None, TakeItem
    PROVE  StepKept
<1>1. stack # << >> /\ InFile /\ ThisItem.tag # "include"
  BY DEF TakeItem, InFile
<1>2. ThisItem \in FieldItem
  BY <1>1, TopFrame DEF IncludeItem
<1>3. PICK n \in Nat \ {0} : n = Len(stack)
  BY <1>1, TopFrame
<1> DEFINE frame == [Top EXCEPT !.next = @ + 1, !.fields = Append(@, ThisItem)]
<1>4. frame \in FileFrame /\ frame.path = stack[n].path
  <2>1. Top \in FileFrame /\ Top = stack[n]
    BY <1>1, <1>3, TopFrame
  <2>2. Top.fields \in Seq(FieldItem) /\ Top.next \in Nat \ {0}
    BY <2>1 DEF FileFrame
  <2>3. Append(Top.fields, ThisItem) \in Seq(FieldItem) /\ Top.next + 1 \in Nat \ {0}
    BY <1>2, <2>2
  <2>4. frame = [Top EXCEPT !.next = Top.next + 1, !.fields = Append(Top.fields, ThisItem)]
    OBVIOUS
  <2> QED
    BY <2>1, <2>3, <2>4 DEF FileFrame
<1>5. stack' = [stack EXCEPT ![n] = frame]
  BY <1>1, <1>3, TopFrame DEF TakeItem, Top
<1> HIDE DEF frame
<1>6. /\ stack' \in Seq(FileFrame) /\ Len(stack') = n /\ stack'[n] = frame
      /\ \A f \in 1 .. (n - 1) : stack'[f] = stack[f]
  BY <1>1, <1>3, <1>4, <1>5, TopFrame
<1>7. NoFileTwice' /\ Chained'
  BY <1>3, <1>4, <1>6, ReplaceKeeps
<1> QED
  BY <1>6, <1>7 DEF TakeItem, StepKept, StackKept, CircleIsReal

LEMMA IncludeStep ==
    ASSUME Inv, outcome = None, Include
    PROVE  StepKept
<1>1. stack # << >> /\ InFile /\ ThisItem.tag = "include"
  BY DEF Include, InFile
<1>2. ThisItem \in IncludeItem
  BY <1>1, TopFrame DEF FieldItem, FieldDef, StructInstanceDef
<1>3. Top.path \in Path
  BY <1>1, TopFrame DEF FileFrame
<1>4. PICK target \in Path : target = Target(Top.path, ThisItem)
  BY <1>2, <1>3, PathAssumption
<1>5. PICK path \in Path : path = normalize_for_cycle(target)
  BY NormalizedPath
<1>6. path \in Spellings(Target(Top.path, Top.doc.items[Top.next]))
  BY <1>4, <1>5, NormalizedPath DEF ThisItem
<1>7. PICK content : Opens(path, content) \/ Circles(path) \/ Answers
  BY <1>4, <1>5, FileCases DEF Include, Inv
<1> QED
  BY <1>6, <1>7, OpensStep, CirclesStep, AnswersStep

LEMMA FinishFileStep ==
    ASSUME Inv, outcome = None, FinishFile
    PROVE  StepKept
<1>1. stack # << >>
  BY DEF FinishFile
<1>2. PICK n \in Nat \ {0} : n = Len(stack)
  BY <1>1, TopFrame
<1>3. CASE Return(Failed("Validation", Top.path))
  BY <1>3, FailureAnswers, AnswersStep
<1>4. CASE Return(Loaded(SchemaOf(Top)))
  <2>1. Answers
    BY <1>4 DEF Return, Loaded, Answers
  <2> QED
    BY <2>1, AnswersStep
<1>5. CASE /\ n # 1
           /\ stack' = [SubSeq(stack, 1, n - 1)
                           EXCEPT ![n - 1] = Extended(@, SchemaOf(Top))]
           /\ UNCHANGED outcome
  <2>1. stack \in Seq(FileFrame) /\ n - 1 \in 1 .. n /\ Top \in FileFrame
    BY <1>1, <1>2, <1>5, TopFrame
  <2>2. PICK below \in FileFrame : below = stack[n - 1]
    BY <1>2, <2>1
  <2> DEFINE frame == Extended(below, SchemaOf(Top))
  <2>3. frame \in FileFrame /\ frame.path = below.path
    <3>1. /\ Top.structures \in Seq(StructureDef) /\ Top.fields \in Seq(FieldItem)
          /\ below.structures \in Seq(StructureDef) /\ below.fields \in Seq(FieldItem)
          /\ below.next \in Nat \ {0}
      BY <2>1, <2>2 DEF FileFrame
    <3>2. /\ below.structures \o Top.structures \in Seq(StructureDef)
          /\ below.fields \o Top.fields \in Seq(FieldItem)
          /\ below.next + 1 \in Nat \ {0}
      BY <3>1
    <3>3. frame = [below EXCEPT !.next = below.next + 1,
                                !.structures = below.structures \o Top.structures,
                                !.fields = below.fields \o Top.fields]
      BY DEF Extended, SchemaOf
    <3> QED
      BY <2>2, <3>2, <3>3 DEF FileFrame
  <2> HIDE DEF frame
  <2> DEFINE left == SubSeq(stack, 1, n - 1)
  <2>4. /\ left \in Seq(FileFrame) /\ Len(left) = n - 1
        /\ \A f \in 1 .. (n - 1) : left[f] = stack[f]
    BY <1>2, <2>1
  <2>5. stack' = [left EXCEPT ![n - 1] = frame]
    BY <1>5, <2>2, <2>4 DEF frame
  <2> HIDE DEF left
  <2>6. /\ stack' \in Seq(FileFrame) /\ Len(stack') = n - 1 /\ stack'[n - 1] = frame
        /\ \A f \in 1 .. (n - 2) : stack'[f] = stack[f]
    BY <2>1, <2>3, <2>4, <2>5
  <2>7. NoFileTwice' /\ Chained'
    <3>1. PICK m \in 1 .. Len(stack) : m = n - 1
      BY <1>2, <2>1
    <3>2. m - 1 = n - 2
      BY <3>1
    <3> QED
      BY <2>2, <2>3, <2>6, <3>1, <3>2, ReplaceKeeps
  <2> QED
    BY <1>5, <2>6, <2>7 DEF StepKept, StackKept, CircleIsReal
<1> QED
  BY <1>2, <1>3, <1>4, <1>5 DEF FinishFile

LEMMA NextInv == Inv /\ [Next]_vars => Inv' /\ CircleIsReal
<1> SUFFICES ASSUME Inv, [Next]_vars PROVE Inv' /\ CircleIsReal
  OBVIOUS
<1>1. CASE Load
  <2>1. StepKept
    <3>1. outcome = None \/ stack = << >>
      BY DEF Inv, TypeOK
    <3>2. CASE parse_schema_file \/ parse_schema_str_with_base_path \/ parse_schema_str
      BY <3>2, StartStep
    <3>3. CASE TakeItem
      BY <3>1, <3>3, TakeItemStep DEF TakeItem, InFile
    <3>4. CASE Include
      BY <3>1, <3>4, IncludeStep DEF Include, InFile
    <3>5. CASE FinishFile
      BY <3>1, <3>5, FinishFileStep DEF FinishFile
    <3> QED
      BY <1>1, <3>2, <3>3, <3>4, <3>5 DEF Load
  <2>2. UNCHANGED <<disk, request, edits>>
    BY <1>1 DEF Load, parse_schema_file, parse_schema_str_with_base_path,
                parse_schema_str, TakeItem, Include, FinishFile
  <2> QED
    BY <2>1, <2>2 DEF Inv, TypeOK, StepKept, StackKept, FileFrame
<1>2. CASE ReplaceFile
  <2>1. disk' \in [Path -> Docs]
    BY <1>2 DEF ReplaceFile, Inv, TypeOK
  <2>2. edits' \in 0 .. MaxEdits
    BY <1>2, PathAssumption DEF ReplaceFile, Inv, TypeOK
  <2> QED
    BY <1>2, <2>1, <2>2
       DEF ReplaceFile, Inv, TypeOK, NoFileTwice, Chained, CircleIsReal
<1>3. CASE UNCHANGED vars
  BY <1>3 DEF vars, Inv, TypeOK, NoFileTwice, Chained, CircleIsReal
<1> QED
  BY <1>1, <1>2, <1>3 DEF Next, Done

-----------------------------------------------------------------------------
(* The theorems that hold whatever is replaced during the call *)

(* The invariant of the loader.                                            *)
THEOREM LoaderInvariance == Spec => []Inv
BY InitInv, NextInv, PTL DEF Spec

(* Every state of a call is well typed: the stack holds files that have    *)
(* been read and their merged parts, and a call that has answered has left *)
(* all of them.                                                            *)
THEOREM LoaderTypeCorrect == Spec => []TypeOK
<1>1. Inv => TypeOK
  BY DEF Inv
<1> QED
  BY <1>1, LoaderInvariance, PTL

(* No file is read inside itself, whatever is replaced during the call.    *)
THEOREM NoFileIsReadTwice == Spec => []NoFileTwice
<1>1. Inv => NoFileTwice
  BY DEF Inv
<1> QED
  BY <1>1, LoaderInvariance, PTL

(* The depth of the recursion is at most the number of paths.              *)
THEOREM RecursionIsBounded == Spec => [](Len(stack) <= Cardinality(Path))
<1>1. ASSUME Inv PROVE Len(stack) <= Cardinality(Path)
  <2>1. stack \in Seq(FileFrame)
    BY <1>1 DEF Inv, TypeOK, FileFrame
  <2>2. PICK n \in Nat : n = Len(stack)
    BY <2>1
  <2> DEFINE path == [f \in 1 .. n |-> stack[f].path]
  <2>3. \A f \in 1 .. n : stack[f].path \in Path
    <3>1. ASSUME NEW f \in 1 .. n PROVE stack[f] \in FileFrame
      BY <2>1, <2>2
    <3>2. \A frame \in FileFrame : frame.path \in Path
      BY DEF FileFrame
    <3> QED
      BY <3>1, <3>2
  <2>4. path \in Injection(1 .. n, Path)
    BY <1>1, <2>2, <2>3 DEF Injection, IsInjective, Inv, NoFileTwice
  <2>5. Cardinality(1 .. n) <= Cardinality(Path)
    BY <2>4, PathAssumption, FS_Injection
  <2>6. Cardinality(1 .. n) = n
    BY FS_Interval
  <2> QED
    BY <2>2, <2>5, <2>6
<1> QED
  BY <1>1, LoaderInvariance, PTL

(* A reported circle is one that the call went through.                    *)
THEOREM CyclesAreReal == Spec => CycleIsReal
<1>1. Inv /\ [Next]_vars => CircleIsReal
  BY NextInv
<1>2. CircleIsReal => [CircleIsReal]_vars
  OBVIOUS
<1> QED
  BY <1>1, <1>2, LoaderInvariance, PTL DEF Spec, CycleIsReal, CircleIsReal

-----------------------------------------------------------------------------
(* Induction over the naturals: the least member of a set of them          *)

LEMMA LeastOfNaturals ==
    ASSUME NEW T, T \subseteq Nat, T # {}
    PROVE  \E i \in T : \A j \in T : i <= j
<1> DEFINE R == {pair \in Nat \X Nat : pair[1] < pair[2]}
<1>1. ~ \E f \in [Nat -> Nat] : \A n \in Nat : <<f[n + 1], f[n]>> \in R
  BY NatLessThanWellFounded, Zenon DEF OpToRel, IsWellFoundedOn
<1>2. IsWellFoundedOn(R, Nat)
  BY <1>1 DEF IsWellFoundedOn
<1>3. PICK i \in T : \A j \in T : ~ (<<j, i>> \in R)
  BY <1>2, WFMin
<1>4. ASSUME NEW j \in T
      PROVE  ~ (j < i)
  <2>1. <<j, i>> \in Nat \X Nat /\ <<j, i>>[1] = j /\ <<j, i>>[2] = i
    OBVIOUS
  <2> QED
    BY <1>3, <2>1, Zenon
<1> QED
  BY <1>4

LEMMA NatLeast ==
    ASSUME NEW T, T \subseteq Nat, 0 \notin T,
           \A m \in Nat : m + 1 \in T => m \in T
    PROVE  T = {}
<1> SUFFICES ASSUME T # {} PROVE FALSE
  OBVIOUS
<1>1. PICK m \in T : \A t \in T : m <= t
  BY LeastOfNaturals
<1>2. m - 1 \in Nat /\ (m - 1) + 1 = m
  BY <1>1
<1> QED BY <1>1, <1>2

(* f solves the equation of Within up to n.                                *)
IsGrowth(f, graph, paths, n) ==
    f = [k \in 0 .. n |-> IF k = 0 THEN paths ELSE Grown(graph, f[k - 1])]

LEMMA GrowthIsDefined ==
    ASSUME NEW graph, NEW paths PROVE \A n \in Nat : \E f : IsGrowth(f, graph, paths, n)
<1> DEFINE T == {n \in Nat : ~ \E f : IsGrowth(f, graph, paths, n)}
<1>1. 0 \notin T
  <2>1. IsGrowth([k \in 0 .. 0 |-> paths], graph, paths, 0)
    BY DEF IsGrowth
  <2> QED BY <2>1
<1>2. ASSUME NEW m \in Nat, m \notin T PROVE m + 1 \notin T
  <2>1. PICK f : IsGrowth(f, graph, paths, m)
    BY <1>2
  <2> DEFINE g == [k \in 0 .. (m + 1) |->
                     IF k = m + 1 THEN Grown(graph, f[m]) ELSE f[k]]
  <2>2. \A k \in 0 .. m : f[k] = IF k = 0 THEN paths ELSE Grown(graph, f[k - 1])
    BY <2>1 DEF IsGrowth
  <2>3. ASSUME NEW k \in 0 .. (m + 1)
        PROVE g[k] = IF k = 0 THEN paths ELSE Grown(graph, g[k - 1])
    <3>1. CASE k = 0
      BY <2>2, <3>1
    <3>2. CASE k # 0
      <4>1. k - 1 \in 0 .. (m + 1) /\ k - 1 # m + 1
        BY <3>2
      <4>2. g[k - 1] = f[k - 1]
        BY <4>1
      <4>3. k = m + 1 => g[k] = Grown(graph, f[m])
        BY Zenon
      <4>4. k # m + 1 => k \in 0 .. m /\ g[k] = f[k]
        OBVIOUS
      <4>5. k = m + 1 => k - 1 = m
        OBVIOUS
      <4> HIDE DEF g
      <4> QED BY <2>2, <3>2, <4>2, <4>3, <4>4, <4>5, Zenon
    <3> QED BY <3>1, <3>2
  <2>4. IsGrowth(g, graph, paths, m + 1)
    <3>1. g = [k \in 0 .. (m + 1) |-> g[k]]
      OBVIOUS
    <3> HIDE DEF g
    <3> QED BY <2>3, <3>1, Zenon DEF IsGrowth
  <2> QED BY <2>4
<1> HIDE DEF T
<1>3. T = {}
  BY <1>1, <1>2, NatLeast DEF T
<1> QED BY <1>3 DEF T

LEMMA GrowthChosen ==
    ASSUME NEW graph, NEW paths, NEW n \in Nat
    PROVE  \E f : IsGrowth(f, graph, paths, n) /\ Within(graph, paths, n) = f[n]
<1> DEFINE within[k \in 0 .. n] == IF k = 0 THEN paths ELSE Grown(graph, within[k - 1])
<1>1. Within(graph, paths, n) = within[n]
  BY DEF Within
<1>2. within = CHOOSE f : IsGrowth(f, graph, paths, n)
  BY DEF IsGrowth
<1> HIDE DEF within
<1>3. IsGrowth(within, graph, paths, n)
  BY <1>2, GrowthIsDefined
<1> QED BY <1>1, <1>3

LEMMA GrowthsAgree ==
    ASSUME NEW graph, NEW paths, NEW n \in Nat, NEW m \in Nat, NEW f, NEW g,
           IsGrowth(f, graph, paths, n), IsGrowth(g, graph, paths, m),
           NEW d \in Nat, d <= n, d <= m
    PROVE  f[d] = g[d]
<1> DEFINE T == {k \in Nat : k <= d /\ f[k] # g[k]}
<1>1. \A k \in 0 .. n : f[k] = IF k = 0 THEN paths ELSE Grown(graph, f[k - 1])
  BY DEF IsGrowth
<1>2. \A k \in 0 .. m : g[k] = IF k = 0 THEN paths ELSE Grown(graph, g[k - 1])
  BY DEF IsGrowth
<1>3. 0 \notin T
  <2>1. 0 \in 0 .. n /\ 0 \in 0 .. m
    OBVIOUS
  <2> QED BY <1>1, <1>2, <2>1, Zenon
<1>4. ASSUME NEW k \in Nat, k \notin T PROVE k + 1 \notin T
  <2> SUFFICES ASSUME k + 1 <= d PROVE f[k + 1] = g[k + 1]
    OBVIOUS
  <2>1. f[k] = g[k]
    BY <1>4
  <2>2. /\ k + 1 \in 0 .. n /\ k + 1 \in 0 .. m
        /\ k + 1 # 0 /\ (k + 1) - 1 = k
    OBVIOUS
  <2>3. f[k + 1] = Grown(graph, f[k])
    BY <1>1, <2>2, Zenon
  <2>4. g[k + 1] = Grown(graph, g[k])
    BY <1>2, <2>2, Zenon
  <2> QED BY <2>1, <2>3, <2>4, Zenon
<1> HIDE DEF T
<1>5. T = {}
  BY <1>3, <1>4, NatLeast DEF T
<1> QED BY <1>5 DEF T

LEMMA WithinNone ==
    ASSUME NEW graph, NEW paths PROVE Within(graph, paths, 0) = paths
<1>1. PICK f : IsGrowth(f, graph, paths, 0) /\ Within(graph, paths, 0) = f[0]
  BY GrowthChosen
<1>2. 0 \in 0 .. 0
  OBVIOUS
<1> QED BY <1>1, <1>2 DEF IsGrowth

LEMMA WithinNext ==
    ASSUME NEW graph, NEW paths, NEW n \in Nat
    PROVE  Within(graph, paths, n + 1) = Grown(graph, Within(graph, paths, n))
<1>1. PICK f : IsGrowth(f, graph, paths, n) /\ Within(graph, paths, n) = f[n]
  BY GrowthChosen
<1>2. PICK g : IsGrowth(g, graph, paths, n + 1) /\ Within(graph, paths, n + 1) = g[n + 1]
  BY GrowthChosen
<1>3. f[n] = g[n]
  BY <1>1, <1>2, GrowthsAgree
<1>4. g[n + 1] = Grown(graph, g[n])
  <2>1. n + 1 \in 0 .. (n + 1) /\ n + 1 # 0 /\ (n + 1) - 1 = n
    OBVIOUS
  <2>2. \A k \in 0 .. (n + 1) : g[k] = IF k = 0 THEN paths ELSE Grown(graph, g[k - 1])
    BY <1>2 DEF IsGrowth
  <2> QED BY <2>1, <2>2, Zenon
<1> QED BY <1>1, <1>2, <1>3, <1>4

(* f solves the equation of Joined up to n.                                *)
IsJoining(f, parts, n) ==
    f = [k \in 0 .. n |-> IF k = 0 THEN << >> ELSE f[k - 1] \o parts[k]]

LEMMA JoiningIsDefined ==
    ASSUME NEW parts PROVE \A n \in Nat : \E f : IsJoining(f, parts, n)
<1> DEFINE T == {n \in Nat : ~ \E f : IsJoining(f, parts, n)}
<1>1. 0 \notin T
  <2>1. IsJoining([k \in 0 .. 0 |-> << >>], parts, 0)
    BY DEF IsJoining
  <2> QED BY <2>1
<1>2. ASSUME NEW m \in Nat, m \notin T PROVE m + 1 \notin T
  <2>1. PICK f : IsJoining(f, parts, m)
    BY <1>2
  <2> DEFINE g == [k \in 0 .. (m + 1) |->
                     IF k = m + 1 THEN f[m] \o parts[m + 1] ELSE f[k]]
  <2>2. \A k \in 0 .. m : f[k] = IF k = 0 THEN << >> ELSE f[k - 1] \o parts[k]
    BY <2>1 DEF IsJoining
  <2>3. ASSUME NEW k \in 0 .. (m + 1)
        PROVE g[k] = IF k = 0 THEN << >> ELSE g[k - 1] \o parts[k]
    <3>1. CASE k = 0
      BY <2>2, <3>1
    <3>2. CASE k # 0
      <4>1. k - 1 \in 0 .. (m + 1) /\ k - 1 # m + 1
        BY <3>2
      <4>2. g[k - 1] = f[k - 1]
        BY <4>1
      <4>3. k = m + 1 => g[k] = f[m] \o parts[m + 1]
        BY Zenon
      <4>4. k # m + 1 => k \in 0 .. m /\ g[k] = f[k]
        OBVIOUS
      <4>5. k = m + 1 => k - 1 = m
        OBVIOUS
      <4> HIDE DEF g
      <4> QED BY <2>2, <3>2, <4>2, <4>3, <4>4, <4>5, Zenon
    <3> QED BY <3>1, <3>2
  <2>4. IsJoining(g, parts, m + 1)
    <3>1. g = [k \in 0 .. (m + 1) |-> g[k]]
      OBVIOUS
    <3> HIDE DEF g
    <3> QED BY <2>3, <3>1, Zenon DEF IsJoining
  <2> QED BY <2>4
<1> HIDE DEF T
<1>3. T = {}
  BY <1>1, <1>2, NatLeast DEF T
<1> QED BY <1>3 DEF T

LEMMA JoiningChosen ==
    ASSUME NEW parts, NEW n \in Nat
    PROVE  \E f : IsJoining(f, parts, n) /\ Joined(parts, n) = f[n]
<1> DEFINE upTo[k \in 0 .. n] == IF k = 0 THEN << >> ELSE upTo[k - 1] \o parts[k]
<1>1. Joined(parts, n) = upTo[n]
  BY DEF Joined
<1>2. upTo = CHOOSE f : IsJoining(f, parts, n)
  BY DEF IsJoining
<1> HIDE DEF upTo
<1>3. IsJoining(upTo, parts, n)
  BY <1>2, JoiningIsDefined
<1> QED BY <1>1, <1>3

LEMMA JoiningsAgree ==
    ASSUME NEW parts, NEW n \in Nat, NEW m \in Nat, NEW f, NEW g,
           IsJoining(f, parts, n), IsJoining(g, parts, m),
           NEW d \in Nat, d <= n, d <= m
    PROVE  f[d] = g[d]
<1> DEFINE T == {k \in Nat : k <= d /\ f[k] # g[k]}
<1>1. \A k \in 0 .. n : f[k] = IF k = 0 THEN << >> ELSE f[k - 1] \o parts[k]
  BY DEF IsJoining
<1>2. \A k \in 0 .. m : g[k] = IF k = 0 THEN << >> ELSE g[k - 1] \o parts[k]
  BY DEF IsJoining
<1>3. 0 \notin T
  <2>1. 0 \in 0 .. n /\ 0 \in 0 .. m
    OBVIOUS
  <2> QED BY <1>1, <1>2, <2>1, Zenon
<1>4. ASSUME NEW k \in Nat, k \notin T PROVE k + 1 \notin T
  <2> SUFFICES ASSUME k + 1 <= d PROVE f[k + 1] = g[k + 1]
    OBVIOUS
  <2>1. f[k] = g[k]
    BY <1>4
  <2>2. /\ k + 1 \in 0 .. n /\ k + 1 \in 0 .. m
        /\ k + 1 # 0 /\ (k + 1) - 1 = k
    OBVIOUS
  <2>3. f[k + 1] = f[k] \o parts[k + 1]
    BY <1>1, <2>2, Zenon
  <2>4. g[k + 1] = g[k] \o parts[k + 1]
    BY <1>2, <2>2, Zenon
  <2> QED BY <2>1, <2>3, <2>4, Zenon
<1> HIDE DEF T
<1>5. T = {}
  BY <1>3, <1>4, NatLeast DEF T
<1> QED BY <1>5 DEF T

LEMMA JoinedNone ==
    ASSUME NEW parts PROVE Joined(parts, 0) = << >>
<1>1. PICK f : IsJoining(f, parts, 0) /\ Joined(parts, 0) = f[0]
  BY JoiningChosen
<1>2. 0 \in 0 .. 0
  OBVIOUS
<1> QED BY <1>1, <1>2 DEF IsJoining

LEMMA JoinedNext ==
    ASSUME NEW parts, NEW n \in Nat
    PROVE  Joined(parts, n + 1) = Joined(parts, n) \o parts[n + 1]
<1>1. PICK f : IsJoining(f, parts, n) /\ Joined(parts, n) = f[n]
  BY JoiningChosen
<1>2. PICK g : IsJoining(g, parts, n + 1) /\ Joined(parts, n + 1) = g[n + 1]
  BY JoiningChosen
<1>3. f[n] = g[n]
  BY <1>1, <1>2, JoiningsAgree
<1>4. g[n + 1] = g[n] \o parts[n + 1]
  <2>1. n + 1 \in 0 .. (n + 1) /\ n + 1 # 0 /\ (n + 1) - 1 = n
    OBVIOUS
  <2>2. \A k \in 0 .. (n + 1) : g[k] = IF k = 0 THEN << >> ELSE g[k - 1] \o parts[k]
    BY <1>2 DEF IsJoining
  <2> QED BY <2>1, <2>2, Zenon
<1> QED BY <1>1, <1>2, <1>3, <1>4

(* f solves the equation of FlattenedTo up to n.                           *)
IsFlattening(f, graph, n) ==
    f = [k \in 0 .. n |-> IF k = 0 THEN EmptyFiles ELSE MergedFiles(graph, f[k - 1])]

LEMMA FlatteningIsDefined ==
    ASSUME NEW graph PROVE \A n \in Nat : \E f : IsFlattening(f, graph, n)
<1> DEFINE T == {n \in Nat : ~ \E f : IsFlattening(f, graph, n)}
<1>1. 0 \notin T
  <2>1. IsFlattening([k \in 0 .. 0 |-> EmptyFiles], graph, 0)
    BY DEF IsFlattening
  <2> QED BY <2>1
<1>2. ASSUME NEW m \in Nat, m \notin T PROVE m + 1 \notin T
  <2>1. PICK f : IsFlattening(f, graph, m)
    BY <1>2
  <2> DEFINE g == [k \in 0 .. (m + 1) |->
                     IF k = m + 1 THEN MergedFiles(graph, f[m]) ELSE f[k]]
  <2>2. \A k \in 0 .. m : f[k] = IF k = 0 THEN EmptyFiles ELSE MergedFiles(graph, f[k - 1])
    BY <2>1 DEF IsFlattening
  <2>3. ASSUME NEW k \in 0 .. (m + 1)
        PROVE g[k] = IF k = 0 THEN EmptyFiles ELSE MergedFiles(graph, g[k - 1])
    <3>1. CASE k = 0
      BY <2>2, <3>1
    <3>2. CASE k # 0
      <4>1. k - 1 \in 0 .. (m + 1) /\ k - 1 # m + 1
        BY <3>2
      <4>2. g[k - 1] = f[k - 1]
        BY <4>1
      <4>3. k = m + 1 => g[k] = MergedFiles(graph, f[m])
        BY Zenon
      <4>4. k # m + 1 => k \in 0 .. m /\ g[k] = f[k]
        OBVIOUS
      <4>5. k = m + 1 => k - 1 = m
        OBVIOUS
      <4> HIDE DEF g
      <4> QED BY <2>2, <3>2, <4>2, <4>3, <4>4, <4>5, Zenon
    <3> QED BY <3>1, <3>2
  <2>4. IsFlattening(g, graph, m + 1)
    <3>1. g = [k \in 0 .. (m + 1) |-> g[k]]
      OBVIOUS
    <3> HIDE DEF g
    <3> QED BY <2>3, <3>1, Zenon DEF IsFlattening
  <2> QED BY <2>4
<1> HIDE DEF T
<1>3. T = {}
  BY <1>1, <1>2, NatLeast DEF T
<1> QED BY <1>3 DEF T

LEMMA FlatteningChosen ==
    ASSUME NEW graph, NEW n \in Nat
    PROVE  \E f : IsFlattening(f, graph, n) /\ FlattenedTo(graph, n) = f[n]
<1> DEFINE flat[k \in 0 .. n] == IF k = 0 THEN EmptyFiles ELSE MergedFiles(graph, flat[k - 1])
<1>1. FlattenedTo(graph, n) = flat[n]
  BY DEF FlattenedTo
<1>2. flat = CHOOSE f : IsFlattening(f, graph, n)
  BY DEF IsFlattening
<1> HIDE DEF flat
<1>3. IsFlattening(flat, graph, n)
  BY <1>2, FlatteningIsDefined
<1> QED BY <1>1, <1>3

LEMMA FlatteningsAgree ==
    ASSUME NEW graph, NEW n \in Nat, NEW m \in Nat, NEW f, NEW g,
           IsFlattening(f, graph, n), IsFlattening(g, graph, m),
           NEW d \in Nat, d <= n, d <= m
    PROVE  f[d] = g[d]
<1> DEFINE T == {k \in Nat : k <= d /\ f[k] # g[k]}
<1>1. \A k \in 0 .. n : f[k] = IF k = 0 THEN EmptyFiles ELSE MergedFiles(graph, f[k - 1])
  BY DEF IsFlattening
<1>2. \A k \in 0 .. m : g[k] = IF k = 0 THEN EmptyFiles ELSE MergedFiles(graph, g[k - 1])
  BY DEF IsFlattening
<1>3. 0 \notin T
  <2>1. 0 \in 0 .. n /\ 0 \in 0 .. m
    OBVIOUS
  <2> QED BY <1>1, <1>2, <2>1, Zenon
<1>4. ASSUME NEW k \in Nat, k \notin T PROVE k + 1 \notin T
  <2> SUFFICES ASSUME k + 1 <= d PROVE f[k + 1] = g[k + 1]
    OBVIOUS
  <2>1. f[k] = g[k]
    BY <1>4
  <2>2. /\ k + 1 \in 0 .. n /\ k + 1 \in 0 .. m
        /\ k + 1 # 0 /\ (k + 1) - 1 = k
    OBVIOUS
  <2>3. f[k + 1] = MergedFiles(graph, f[k])
    BY <1>1, <2>2, Zenon
  <2>4. g[k + 1] = MergedFiles(graph, g[k])
    BY <1>2, <2>2, Zenon
  <2> QED BY <2>1, <2>3, <2>4, Zenon
<1> HIDE DEF T
<1>5. T = {}
  BY <1>3, <1>4, NatLeast DEF T
<1> QED BY <1>5 DEF T

LEMMA FlattenedToNone ==
    ASSUME NEW graph PROVE FlattenedTo(graph, 0) = EmptyFiles
<1>1. PICK f : IsFlattening(f, graph, 0) /\ FlattenedTo(graph, 0) = f[0]
  BY FlatteningChosen
<1>2. 0 \in 0 .. 0
  OBVIOUS
<1> QED BY <1>1, <1>2 DEF IsFlattening

LEMMA FlattenedToNext ==
    ASSUME NEW graph, NEW n \in Nat
    PROVE  FlattenedTo(graph, n + 1) = MergedFiles(graph, FlattenedTo(graph, n))
<1>1. PICK f : IsFlattening(f, graph, n) /\ FlattenedTo(graph, n) = f[n]
  BY FlatteningChosen
<1>2. PICK g : IsFlattening(g, graph, n + 1) /\ FlattenedTo(graph, n + 1) = g[n + 1]
  BY FlatteningChosen
<1>3. f[n] = g[n]
  BY <1>1, <1>2, FlatteningsAgree
<1>4. g[n + 1] = MergedFiles(graph, g[n])
  <2>1. n + 1 \in 0 .. (n + 1) /\ n + 1 # 0 /\ (n + 1) - 1 = n
    OBVIOUS
  <2>2. \A k \in 0 .. (n + 1) : g[k] = IF k = 0 THEN EmptyFiles ELSE MergedFiles(graph, g[k - 1])
    BY <1>2 DEF IsFlattening
  <2> QED BY <2>1, <2>2, Zenon
<1> QED BY <1>1, <1>2, <1>3, <1>4

-----------------------------------------------------------------------------
(* What is reached in an include graph *)

FileItem == [tag : {"include"}, path : Path]

ResolvedDoc ==
    [kind : {"doc"}, schema_name : Name, schema_version : Nat,
     endianness : Option(Endianness), structures : Seq(StructureDef),
     items : Seq(FieldItem \cup FileItem)]

IncludeGraphs == [Path -> ResolvedDoc \cup {Missing, Garbled, Malformed}]

LEMMA ContentKinds ==
    ASSUME NEW content \in ResolvedDoc \cup {Missing, Garbled, Malformed}
    PROVE  IsDoc(content) <=> content \in ResolvedDoc
BY DEF IsDoc, ResolvedDoc, Missing, Garbled, Malformed

LEMMA ItemKinds ==
    ASSUME NEW item \in FieldItem \cup FileItem
    PROVE  IF item.tag = "include" THEN item \in FileItem ELSE item \in FieldItem
BY DEF FieldItem, FieldDef, StructInstanceDef, FileItem

LEMMA IncludedArePaths ==
    ASSUME NEW graph \in IncludeGraphs, NEW p \in Path
    PROVE  IncludedBy(graph[p]) \subseteq Path
<1>1. PICK content \in ResolvedDoc \cup {Missing, Garbled, Malformed} : content = graph[p]
  BY DEF IncludeGraphs
<1>2. CASE ~IsDoc(content)
  BY <1>1, <1>2 DEF IncludedBy
<1>3. CASE IsDoc(content)
  <2>1. content.items \in Seq(FieldItem \cup FileItem)
    BY <1>3, ContentKinds DEF ResolvedDoc
  <2>2. ASSUME NEW i \in 1 .. Len(content.items), content.items[i].tag = "include"
        PROVE  content.items[i].path \in Path
    <3>1. content.items[i] \in FieldItem \cup FileItem
      BY <2>1
    <3>2. content.items[i] \in FileItem
      BY <2>2, <3>1, ItemKinds
    <3> QED BY <3>2 DEF FileItem
  <2> QED BY <1>1, <1>3, <2>2 DEF IncludedBy
<1> QED BY <1>2, <1>3

ClosedIn(graph, paths) == \A p \in paths : IncludedBy(graph[p]) \subseteq paths

LEMMA GrownInside ==
    ASSUME NEW graph, NEW paths, NEW bound, paths \subseteq bound,
           \A p \in paths : IncludedBy(graph[p]) \subseteq bound
    PROVE  Grown(graph, paths) \subseteq bound
BY DEF Grown

LEMMA GrownIsClosed ==
    ASSUME NEW graph, NEW paths
    PROVE  /\ paths \subseteq Grown(graph, paths)
           /\ ClosedIn(graph, paths) <=> Grown(graph, paths) = paths
BY DEF Grown, ClosedIn

LEMMA WithinInside ==
    ASSUME NEW graph, NEW paths, NEW bound, paths \subseteq bound, ClosedIn(graph, bound)
    PROVE  \A n \in Nat : Within(graph, paths, n) \subseteq bound
<1> DEFINE T == {n \in Nat : ~ (Within(graph, paths, n) \subseteq bound)}
<1>1. 0 \notin T
  BY WithinNone
<1>2. ASSUME NEW m \in Nat, m \notin T PROVE m + 1 \notin T
  <2>1. Within(graph, paths, m) \subseteq bound
    BY <1>2
  <2>2. Within(graph, paths, m + 1) \subseteq bound
    BY <2>1, WithinNext, GrownInside DEF ClosedIn
  <2> QED BY <2>2
<1> HIDE DEF T
<1>3. T = {}
  BY <1>1, <1>2, NatLeast DEF T
<1> QED BY <1>3 DEF T

LEMMA WithinHas ==
    ASSUME NEW graph, NEW paths
    PROVE  \A n \in Nat : paths \subseteq Within(graph, paths, n)
<1> DEFINE T == {n \in Nat : ~ (paths \subseteq Within(graph, paths, n))}
<1>1. 0 \notin T
  BY WithinNone
<1>2. ASSUME NEW m \in Nat, m \notin T PROVE m + 1 \notin T
  <2>1. paths \subseteq Within(graph, paths, m)
    BY <1>2
  <2>2. paths \subseteq Within(graph, paths, m + 1)
    BY <2>1, WithinNext, GrownIsClosed
  <2> QED BY <2>2
<1> HIDE DEF T
<1>3. T = {}
  BY <1>1, <1>2, NatLeast DEF T
<1> QED BY <1>3 DEF T

(* Each step either adds a path or there is nothing left to add: after as  *)
(* many steps as there are paths, nothing is.                              *)
LEMMA WithinCloses ==
    ASSUME NEW graph \in IncludeGraphs, NEW paths \in SUBSET Path
    PROVE  ClosedIn(graph, Within(graph, paths, Cardinality(Path)))
<1> DEFINE W(n) == Within(graph, paths, n)
<1> DEFINE Large(n) == ClosedIn(graph, W(n)) \/ Cardinality(W(n)) >= n + 1
<1> DEFINE T == {n \in Nat : ~Large(n)}
<1>1. ClosedIn(graph, Path)
  BY IncludedArePaths DEF ClosedIn
<1>2. \A n \in Nat : W(n) \in SUBSET Path
  BY <1>1, WithinInside
<1>3. \A n \in Nat : IsFiniteSet(W(n)) /\ Cardinality(W(n)) \in Nat
  BY <1>2, PathAssumption, FS_Subset, FS_CardinalityType
<1>4. \A n \in Nat : W(n + 1) = Grown(graph, W(n))
  BY WithinNext
<1>5. W(0) = paths
  BY WithinNone
<1> HIDE DEF W
<1>6. 0 \notin T
  <2>1. CASE paths = {}
    BY <1>5, <2>1 DEF ClosedIn
  <2>2. CASE paths # {}
    <3>1. Cardinality(W(0)) # 0
      BY <1>3, <1>5, <2>2, FS_EmptySet
    <3>2. Cardinality(W(0)) >= 0 + 1
      BY <1>3, <3>1
    <3> QED BY <3>2
  <2> QED BY <2>1, <2>2
<1>7. ASSUME NEW m \in Nat, m \notin T PROVE m + 1 \notin T
  <2>1. CASE ClosedIn(graph, W(m))
    <3>1. W(m + 1) = W(m)
      BY <1>4, <2>1, GrownIsClosed
    <3>2. ClosedIn(graph, W(m + 1))
      BY <2>1, <3>1
    <3> QED BY <3>2
  <2>2. CASE ~ClosedIn(graph, W(m))
    <3>1. W(m) \subseteq W(m + 1) /\ W(m) # W(m + 1)
      BY <1>4, <2>2, GrownIsClosed
    <3>2. /\ IsFiniteSet(W(m + 1)) /\ W(m) \in SUBSET W(m + 1)
          /\ Cardinality(W(m)) \in Nat /\ Cardinality(W(m + 1)) \in Nat
      BY <1>3, <3>1
    <3>3. /\ Cardinality(W(m)) <= Cardinality(W(m + 1))
          /\ Cardinality(W(m)) # Cardinality(W(m + 1))
      BY <3>1, <3>2, FS_Subset
    <3>4. Cardinality(W(m)) >= m + 1
      BY <1>7, <2>2
    <3>5. Cardinality(W(m + 1)) >= (m + 1) + 1
      BY <3>2, <3>3, <3>4
    <3> QED BY <3>5
  <2> QED BY <2>1, <2>2
<1> HIDE DEF T
<1>8. T = {}
  BY <1>6, <1>7, NatLeast DEF T
<1>9. PICK n \in Nat : n = Cardinality(Path)
  BY PathAssumption, FS_CardinalityType
<1>10. Large(n)
  BY <1>8 DEF T
<1>11. Cardinality(W(n)) <= n
  BY <1>2, <1>9, PathAssumption, FS_Subset
<1>12. ClosedIn(graph, W(n))
  BY <1>3, <1>10, <1>11
<1> QED BY <1>9, <1>12 DEF W

(* The least closed set of paths that has the given ones.                  *)
Reached(graph, paths) == Within(graph, paths, Cardinality(Path))

LEMMA ReachedIsLeast ==
    ASSUME NEW graph \in IncludeGraphs, NEW paths \in SUBSET Path
    PROVE  /\ paths \subseteq Reached(graph, paths)
           /\ Reached(graph, paths) \in SUBSET Path
           /\ ClosedIn(graph, Reached(graph, paths))
           /\ \A bound : paths \subseteq bound /\ ClosedIn(graph, bound) =>
                 Reached(graph, paths) \subseteq bound
<1>1. Cardinality(Path) \in Nat
  BY PathAssumption, FS_CardinalityType
<1>2. ClosedIn(graph, Path)
  BY IncludedArePaths DEF ClosedIn
<1> QED BY <1>1, <1>2, WithinHas, WithinInside, WithinCloses DEF Reached

(* From where a path is reached all is reached that it reaches.            *)
LEMMA ReachedOnward ==
    ASSUME NEW graph \in IncludeGraphs, NEW paths \in SUBSET Path,
           NEW p \in Reached(graph, paths)
    PROVE  Reached(graph, {p}) \subseteq Reached(graph, paths)
<1>1. {p} \in SUBSET Path /\ {p} \subseteq Reached(graph, paths)
  BY ReachedIsLeast
<1> QED BY <1>1, ReachedIsLeast

(* What is reached from several paths is reached from one of them.         *)
LEMMA ReachedFromOne ==
    ASSUME NEW graph \in IncludeGraphs, NEW paths \in SUBSET Path,
           NEW q \in Reached(graph, paths)
    PROVE  \E p \in paths : q \in Reached(graph, {p})
<1> DEFINE bound == UNION {Reached(graph, {p}) : p \in paths}
<1>1. \A p \in paths : {p} \in SUBSET Path
  OBVIOUS
<1>2. paths \subseteq bound
  BY <1>1, ReachedIsLeast
<1>3. ClosedIn(graph, bound)
  <2> SUFFICES ASSUME NEW x \in bound PROVE IncludedBy(graph[x]) \subseteq bound
    BY DEF ClosedIn
  <2>1. PICK p \in paths : x \in Reached(graph, {p})
    OBVIOUS
  <2>2. ClosedIn(graph, Reached(graph, {p}))
    BY <1>1, ReachedIsLeast
  <2>3. IncludedBy(graph[x]) \subseteq Reached(graph, {p})
    BY <2>1, <2>2 DEF ClosedIn
  <2> QED BY <2>3
<1>4. q \in bound
  BY <1>2, <1>3, ReachedIsLeast
<1> QED BY <1>4

(* A path reaches itself and what its includes reach.                      *)
LEMMA ReachedByIncludes ==
    ASSUME NEW graph \in IncludeGraphs, NEW p \in Path
    PROVE  /\ p \in Reached(graph, {p})
           /\ IncludedBy(graph[p]) \in SUBSET Path
           /\ Reached(graph, IncludedBy(graph[p])) \subseteq Reached(graph, {p})
           /\ Reached(graph, {p}) = {p} \cup Reached(graph, IncludedBy(graph[p]))
<1>1. {p} \in SUBSET Path /\ IncludedBy(graph[p]) \in SUBSET Path
  BY IncludedArePaths
<1>2. p \in Reached(graph, {p})
  BY <1>1, ReachedIsLeast
<1>3. IncludedBy(graph[p]) \subseteq Reached(graph, {p})
  BY <1>1, <1>2, ReachedIsLeast DEF ClosedIn
<1>4. Reached(graph, IncludedBy(graph[p])) \subseteq Reached(graph, {p})
  BY <1>1, <1>3, ReachedIsLeast
<1>5. ClosedIn(graph, {p} \cup Reached(graph, IncludedBy(graph[p])))
  BY <1>1, ReachedIsLeast DEF ClosedIn
<1>6. Reached(graph, {p}) \subseteq {p} \cup Reached(graph, IncludedBy(graph[p]))
  BY <1>1, <1>5, ReachedIsLeast
<1> QED BY <1>1, <1>2, <1>4, <1>6

-----------------------------------------------------------------------------
(* What a file comes to with its includes in their places *)

FlatFile == [structures : Seq(StructureDef), fields : Seq(FieldItem)]

LEMMA JoinedIsSeq ==
    ASSUME NEW parts, NEW S, NEW n \in Nat, \A k \in 1 .. n : parts[k] \in Seq(S)
    PROVE  \A m \in Nat : m <= n => Joined(parts, m) \in Seq(S)
<1> DEFINE T == {m \in Nat : m <= n /\ Joined(parts, m) \notin Seq(S)}
<1>1. 0 \notin T
  BY JoinedNone, EmptySeq
<1>2. ASSUME NEW m \in Nat, m \notin T PROVE m + 1 \notin T
  <2> SUFFICES ASSUME m + 1 <= n PROVE Joined(parts, m + 1) \in Seq(S)
    OBVIOUS
  <2>1. Joined(parts, m) \in Seq(S) /\ parts[m + 1] \in Seq(S)
    BY <1>2
  <2> HIDE DEF T
  <2> QED BY <2>1, JoinedNext, ConcatProperties
<1> HIDE DEF T
<1>3. T = {}
  BY <1>1, <1>2, NatLeast DEF T
<1> QED BY <1>3 DEF T

LEMMA PartsOfItem ==
    ASSUME NEW content, NEW flat, NEW i \in 1 .. Len(content.items)
    PROVE  IF content.items[i].tag = "include"
           THEN /\ StructureParts(content, flat)[i] = flat[content.items[i].path].structures
                /\ FieldParts(content, flat)[i] = flat[content.items[i].path].fields
           ELSE /\ StructureParts(content, flat)[i] = << >>
                /\ FieldParts(content, flat)[i] = << content.items[i] >>
BY DEF StructureParts, FieldParts

LEMMA PartsAreTyped ==
    ASSUME NEW content \in ResolvedDoc, NEW flat \in [Path -> FlatFile],
           NEW i \in 1 .. Len(content.items)
    PROVE  /\ StructureParts(content, flat)[i] \in Seq(StructureDef)
           /\ FieldParts(content, flat)[i] \in Seq(FieldItem)
<1>1. content.items[i] \in FieldItem \cup FileItem
  BY DEF ResolvedDoc
<1>2. CASE content.items[i].tag = "include"
  <2>1. content.items[i].path \in Path
    BY <1>1, <1>2, ItemKinds DEF FileItem
  <2>2. PICK file \in FlatFile : file = flat[content.items[i].path]
    BY <2>1
  <2>3. file.structures \in Seq(StructureDef) /\ file.fields \in Seq(FieldItem)
    BY DEF FlatFile
  <2> QED BY <1>2, <2>2, <2>3, PartsOfItem
<1>3. CASE content.items[i].tag # "include"
  <2>1. PICK item \in FieldItem : item = content.items[i]
    BY <1>1, <1>3, ItemKinds
  <2>2. << item >> \in Seq(FieldItem)
    OBVIOUS
  <2>3. << >> \in Seq(StructureDef)
    BY EmptySeq
  <2> QED BY <1>3, <2>1, <2>2, <2>3, PartsOfItem
<1> QED BY <1>2, <1>3

LEMMA MergedIsTyped ==
    ASSUME NEW content \in ResolvedDoc \cup {Missing, Garbled, Malformed},
           NEW flat \in [Path -> FlatFile]
    PROVE  Merged(content, flat) \in FlatFile
<1>1. CASE ~IsDoc(content)
  BY <1>1, EmptySeq DEF Merged, FlatFile
<1>2. CASE IsDoc(content)
  <2>1. content \in ResolvedDoc
    BY <1>2, ContentKinds
  <2>2. PICK n \in Nat : n = Len(content.items)
    BY <2>1 DEF ResolvedDoc
  <2>3. /\ Joined(StructureParts(content, flat), n) \in Seq(StructureDef)
        /\ Joined(FieldParts(content, flat), n) \in Seq(FieldItem)
    <3>1. ASSUME NEW i \in 1 .. n
          PROVE  /\ StructureParts(content, flat)[i] \in Seq(StructureDef)
                 /\ FieldParts(content, flat)[i] \in Seq(FieldItem)
      BY <2>1, <2>2, PartsAreTyped
    <3>2. n <= n
      OBVIOUS
    <3> QED BY <3>1, <3>2, JoinedIsSeq
  <2>4. content.structures \in Seq(StructureDef)
    BY <2>1 DEF ResolvedDoc
  <2>5. content.structures \o Joined(StructureParts(content, flat), n) \in Seq(StructureDef)
    BY <2>3, <2>4, ConcatProperties
  <2> QED BY <1>2, <2>2, <2>3, <2>5 DEF Merged, FlatFile
<1> QED BY <1>1, <1>2

LEMMA FlattenedIsTyped ==
    ASSUME NEW graph \in IncludeGraphs
    PROVE  \A n \in Nat : FlattenedTo(graph, n) \in [Path -> FlatFile]
<1> DEFINE T == {n \in Nat : FlattenedTo(graph, n) \notin [Path -> FlatFile]}
<1>1. 0 \notin T
  <2>1. EmptyFiles \in [Path -> FlatFile]
    BY EmptySeq DEF EmptyFiles, FlatFile
  <2> QED BY <2>1, FlattenedToNone
<1>2. ASSUME NEW m \in Nat, m \notin T PROVE m + 1 \notin T
  <2>1. PICK flat \in [Path -> FlatFile] : flat = FlattenedTo(graph, m)
    BY <1>2
  <2>2. FlattenedTo(graph, m + 1) = [p \in Path |-> Merged(graph[p], flat)]
    BY <2>1, FlattenedToNext DEF MergedFiles
  <2>3. \A p \in Path : Merged(graph[p], flat) \in FlatFile
    BY MergedIsTyped DEF IncludeGraphs
  <2>4. FlattenedTo(graph, m + 1) \in [Path -> FlatFile]
    BY <2>2, <2>3
  <2> QED BY <2>4
<1> HIDE DEF T
<1>3. T = {}
  BY <1>1, <1>2, NatLeast DEF T
<1> QED BY <1>3 DEF T

(* What a file comes to depends on the files it includes only.             *)
LEMMA MergedAgrees ==
    ASSUME NEW content, NEW f, NEW g,
           \A q \in IncludedBy(content) : f[q] = g[q]
    PROVE  Merged(content, f) = Merged(content, g)
<1>1. CASE ~IsDoc(content)
  BY <1>1 DEF Merged
<1>2. CASE IsDoc(content)
  <2>1. ASSUME NEW i \in 1 .. Len(content.items), content.items[i].tag = "include"
        PROVE  f[content.items[i].path] = g[content.items[i].path]
    BY <1>2, <2>1 DEF IncludedBy
  <2>2. StructureParts(content, f) = StructureParts(content, g)
    BY <2>1, Zenon DEF StructureParts
  <2>3. FieldParts(content, f) = FieldParts(content, g)
    BY <2>1, Zenon DEF FieldParts
  <2> QED BY <2>2, <2>3, Zenon DEF Merged
<1> QED BY <1>1, <1>2

Acyclic(graph, p) ==
    \A q \in Reached(graph, {p}) : q \notin Reached(graph, IncludedBy(graph[q]))

(* Each include leaves at least one path behind.                           *)
LEMMA IncludesReachLess ==
    ASSUME NEW graph \in IncludeGraphs, NEW p \in Path, Acyclic(graph, p),
           NEW q \in IncludedBy(graph[p])
    PROVE  /\ q \in Path
           /\ Acyclic(graph, q)
           /\ Cardinality(Reached(graph, {p})) \in Nat
           /\ Cardinality(Reached(graph, {q})) \in Nat
           /\ Cardinality(Reached(graph, {q})) < Cardinality(Reached(graph, {p}))
<1>1. q \in Path /\ {p} \in SUBSET Path /\ {q} \in SUBSET Path
  BY IncludedArePaths
<1>2. /\ p \in Reached(graph, {p})
      /\ IncludedBy(graph[p]) \in SUBSET Path
      /\ Reached(graph, IncludedBy(graph[p])) \subseteq Reached(graph, {p})
  BY ReachedByIncludes
<1>3. q \in Reached(graph, IncludedBy(graph[p]))
  BY <1>2, ReachedIsLeast
<1>4. Reached(graph, {q}) \subseteq Reached(graph, IncludedBy(graph[p]))
  BY <1>2, <1>3, ReachedOnward
<1>5. p \notin Reached(graph, {q})
  BY <1>2, <1>4 DEF Acyclic
<1>6. Acyclic(graph, q)
  BY <1>2, <1>4 DEF Acyclic
<1>7. IsFiniteSet(Reached(graph, {p}))
  BY <1>1, ReachedIsLeast, PathAssumption, FS_Subset
<1>8. Reached(graph, {q}) \in SUBSET Reached(graph, {p})
  BY <1>2, <1>4
<1>9. /\ IsFiniteSet(Reached(graph, {q}))
      /\ Cardinality(Reached(graph, {q})) <= Cardinality(Reached(graph, {p}))
      /\ Cardinality(Reached(graph, {q})) # Cardinality(Reached(graph, {p}))
  BY <1>2, <1>5, <1>7, <1>8, FS_Subset
<1>10. Cardinality(Reached(graph, {p})) \in Nat /\ Cardinality(Reached(graph, {q})) \in Nat
  BY <1>7, <1>9, FS_CardinalityType
<1> QED BY <1>1, <1>6, <1>9, <1>10

(* To follow includes deeper than a file reaches changes nothing.          *)
LEMMA FlattenedSettles ==
    ASSUME NEW graph \in IncludeGraphs
    PROVE  \A n \in Nat : \A p \in Path : \A m \in Nat :
              /\ Acyclic(graph, p)
              /\ Cardinality(Reached(graph, {p})) <= n
              /\ n <= m
              => FlattenedTo(graph, m)[p] = FlattenedTo(graph, n)[p]
<1> DEFINE Settled(n) ==
      \A p \in Path : \A m \in Nat :
         /\ Acyclic(graph, p)
         /\ Cardinality(Reached(graph, {p})) <= n
         /\ n <= m
         => FlattenedTo(graph, m)[p] = FlattenedTo(graph, n)[p]
<1> DEFINE T == {n \in Nat : ~Settled(n)}
<1>1. \A n \in Nat, p \in Path :
         FlattenedTo(graph, n + 1)[p] = Merged(graph[p], FlattenedTo(graph, n))
  BY FlattenedToNext DEF MergedFiles
<1>2. 0 \notin T
  <2>1. ASSUME NEW p \in Path, Cardinality(Reached(graph, {p})) <= 0 PROVE FALSE
    <3>1. p \in Reached(graph, {p}) /\ {p} \in SUBSET Path
      BY ReachedByIncludes
    <3>2. IsFiniteSet(Reached(graph, {p}))
      BY <3>1, ReachedIsLeast, PathAssumption, FS_Subset
    <3>3. Cardinality(Reached(graph, {p})) \in Nat
      BY <3>2, FS_CardinalityType
    <3>4. Cardinality(Reached(graph, {p})) = 0
      BY <2>1, <3>3
    <3> QED BY <3>1, <3>2, <3>4, FS_EmptySet
  <2> QED BY <2>1
<1>3. ASSUME NEW n \in Nat, n \notin T PROVE n + 1 \notin T
  <2> SUFFICES ASSUME NEW p \in Path, NEW m \in Nat, Acyclic(graph, p),
                      Cardinality(Reached(graph, {p})) <= n + 1, n + 1 <= m
               PROVE  FlattenedTo(graph, m)[p] = FlattenedTo(graph, n + 1)[p]
    OBVIOUS
  <2>1. Settled(n)
    BY <1>3
  <2>2. PICK l \in Nat : m = l + 1 /\ n <= l
    <3>1. m - 1 \in Nat /\ m = (m - 1) + 1 /\ n <= m - 1
      OBVIOUS
    <3> QED BY <3>1
  <2>3. \A q \in IncludedBy(graph[p]) :
           FlattenedTo(graph, l)[q] = FlattenedTo(graph, n)[q]
    <3> TAKE q \in IncludedBy(graph[p])
    <3>1. q \in Path /\ Acyclic(graph, q) /\ Cardinality(Reached(graph, {q})) <= n
      BY IncludesReachLess
    <3> QED BY <2>1, <2>2, <3>1
  <2>4. Merged(graph[p], FlattenedTo(graph, l)) = Merged(graph[p], FlattenedTo(graph, n))
    BY <2>3, MergedAgrees
  <2> QED BY <1>1, <2>2, <2>4
<1> HIDE DEF T
<1>4. T = {}
  BY <1>2, <1>3, NatLeast DEF T
<1> QED BY <1>4 DEF T

Flats(graph) == FlattenedTo(graph, Cardinality(Path))

(* A file is in no circle if none of its includes reaches one.             *)
LEMMA AcyclicByIncludes ==
    ASSUME NEW graph \in IncludeGraphs, NEW p \in Path,
           \A q \in IncludedBy(graph[p]) : Acyclic(graph, q)
    PROVE  Acyclic(graph, p)
<1>1. /\ IncludedBy(graph[p]) \in SUBSET Path
      /\ Reached(graph, {p}) = {p} \cup Reached(graph, IncludedBy(graph[p]))
  BY ReachedByIncludes
<1>2. ASSUME NEW r \in Reached(graph, IncludedBy(graph[p]))
      PROVE  r \notin Reached(graph, IncludedBy(graph[r]))
  <2>1. PICK q \in IncludedBy(graph[p]) : r \in Reached(graph, {q})
    BY <1>1, ReachedFromOne
  <2> QED BY <2>1 DEF Acyclic
<1>3. p \notin Reached(graph, IncludedBy(graph[p]))
  BY <1>2
<1> QED BY <1>1, <1>2, <1>3 DEF Acyclic

(* A file comes to its own parts and those of its includes.                *)
LEMMA FlattenedUnfolds ==
    ASSUME NEW graph \in IncludeGraphs, NEW p \in Path,
           \A q \in IncludedBy(graph[p]) : Acyclic(graph, q)
    PROVE  Flats(graph)[p] = Merged(graph[p], Flats(graph))
<1>1. PICK n \in Nat : n + 1 = Cardinality(Path)
  <2>1. Cardinality(Path) \in Nat /\ Cardinality(Path) # 0
    BY PathAssumption, FS_CardinalityType, FS_EmptySet
  <2>2. Cardinality(Path) - 1 \in Nat
    BY <2>1
  <2> QED BY <2>1, <2>2
<1>2. FlattenedTo(graph, n + 1)[p] = Merged(graph[p], FlattenedTo(graph, n))
  BY FlattenedToNext DEF MergedFiles
<1>3. Acyclic(graph, p)
  BY AcyclicByIncludes
<1>4. Cardinality(Reached(graph, {p})) <= n + 1
  BY <1>1, ReachedIsLeast, PathAssumption, FS_Subset
<1>5. ASSUME NEW q \in IncludedBy(graph[p])
      PROVE  FlattenedTo(graph, n + 1)[q] = FlattenedTo(graph, n)[q]
  <2>1. /\ q \in Path /\ Acyclic(graph, q)
        /\ Cardinality(Reached(graph, {q})) <= n
    BY <1>3, <1>4, IncludesReachLess
  <2> QED BY <2>1, FlattenedSettles
<1>6. Merged(graph[p], FlattenedTo(graph, n + 1)) = Merged(graph[p], FlattenedTo(graph, n))
  BY <1>5, MergedAgrees
<1> QED BY <1>1, <1>2, <1>6 DEF Flats

-----------------------------------------------------------------------------
(* The include graph of a call                                             *)

Asked == request.kind \in {"file", "text"}

Held == [p \in Path |-> Content(p)]

LEMMA ResolvedItemIsTyped ==
    ASSUME NEW path \in Path, NEW item \in FieldItem \cup IncludeItem
    PROVE  /\ ResolvedItem(path, item) \in FieldItem \cup FileItem
           /\ ResolvedItem(path, item).tag = item.tag
           /\ item.tag # "include" => item \in FieldItem
           /\ item.tag = "include" => Target(path, item) \in Path
<1>1. CASE item.tag = "include"
  <2>1. item \in IncludeItem
    BY <1>1 DEF FieldItem, FieldDef, StructInstanceDef
  <2>2. Target(path, item) \in Path
    BY <2>1, PathAssumption
  <2>3. normalize_for_cycle(Target(path, item)) \in Path
    BY <2>2, NormalizedPath
  <2> QED BY <1>1, <2>2, <2>3 DEF ResolvedItem, FileItem
<1>2. CASE item.tag # "include"
  BY <1>2 DEF ResolvedItem, IncludeItem
<1> QED BY <1>1, <1>2

LEMMA ResolvedDocument ==
    ASSUME NEW path \in Path, NEW content \in SchemaDoc
    PROVE  /\ Resolved(path, content) \in ResolvedDoc
           /\ Len(Resolved(path, content).items) = Len(content.items)
           /\ \A i \in 1 .. Len(content.items) :
                 Resolved(path, content).items[i] = ResolvedItem(path, content.items[i])
           /\ Resolved(path, content).schema_name = content.schema_name
           /\ Resolved(path, content).schema_version = content.schema_version
           /\ Resolved(path, content).endianness = content.endianness
           /\ Resolved(path, content).structures = content.structures
<1>1. /\ IsDoc(content) /\ content.items \in Seq(FieldItem \cup IncludeItem)
      /\ Len(content.items) \in Nat
  BY DEF IsDoc, SchemaDoc
<1> DEFINE items == [i \in 1 .. Len(content.items) |-> ResolvedItem(path, content.items[i])]
<1>2. items \in Seq(FieldItem \cup FileItem) /\ Len(items) = Len(content.items)
  <2>1. \A i \in 1 .. Len(content.items) :
           ResolvedItem(path, content.items[i]) \in FieldItem \cup FileItem
    BY <1>1, ResolvedItemIsTyped
  <2> QED BY <1>1, <2>1
<1>3. \A i \in 1 .. Len(content.items) : items[i] = ResolvedItem(path, content.items[i])
  OBVIOUS
<1>4. Resolved(path, content) = [content EXCEPT !.items = items]
  BY <1>1 DEF Resolved
<1> HIDE DEF items
<1> QED BY <1>2, <1>3, <1>4 DEF SchemaDoc, ResolvedDoc

LEMMA ResolvedOther ==
    ASSUME NEW path, NEW content \in {Missing, Garbled, Malformed}
    PROVE  Resolved(path, content) = content
BY DEF Resolved, IsDoc, Missing, Garbled, Malformed

LEMMA ResolvedKinds ==
    ASSUME NEW path \in Path, NEW content \in SchemaDoc \cup {Missing, Garbled, Malformed}
    PROVE  /\ Resolved(path, content) \in ResolvedDoc \cup {Missing, Garbled, Malformed}
           /\ IsDoc(Resolved(path, content)) <=> content \in SchemaDoc
           /\ \A other \in {Missing, Garbled, Malformed} :
                 Resolved(path, content) = other <=> content = other
<1>1. CASE content \in SchemaDoc
  BY <1>1, ResolvedDocument DEF IsDoc, ResolvedDoc, SchemaDoc, Missing, Garbled, Malformed
<1>2. CASE content \in {Missing, Garbled, Malformed}
  BY <1>2, ResolvedOther DEF IsDoc, SchemaDoc, Missing, Garbled, Malformed
<1> QED BY <1>1, <1>2

LEMMA HeldIsTyped ==
    ASSUME TypeOK, Asked
    PROVE  /\ Root \in Path
           /\ \A p \in Path : Held[p] \in SchemaDoc \cup {Missing, Garbled, Malformed}
           /\ \A p \in Path : Graph[p] = Resolved(p, Held[p])
           /\ Graph \in IncludeGraphs
<1>1. /\ request \in Requests /\ request.path \in Path
      /\ request.kind = "text" => request.text \in SchemaDoc \cup {Garbled, Malformed}
  BY ContentAssumption DEF TypeOK, Asked
<1>2. Root \in Path
  BY <1>1, NormalizedPath DEF Root
<1>3. ASSUME NEW p \in Path
      PROVE  /\ Held[p] \in SchemaDoc \cup {Missing, Garbled, Malformed}
             /\ Graph[p] = Resolved(p, Held[p])
  <2>1. disk[p] \in Docs
    BY DEF TypeOK
  <2>2. disk[p] \in SchemaDoc \cup {Missing, Garbled, Malformed}
    BY <2>1, ContentAssumption
  <2> QED BY <1>1, <2>2 DEF Held, Content, Graph
<1>4. Graph \in IncludeGraphs
  <2>1. ASSUME NEW p \in Path
        PROVE  Resolved(p, Content(p)) \in ResolvedDoc \cup {Missing, Garbled, Malformed}
    <3>1. Held[p] = Content(p)
      BY DEF Held
    <3> QED BY <1>3, <3>1, ResolvedKinds
  <2> QED BY <2>1 DEF Graph, IncludeGraphs
<1> QED BY <1>2, <1>3, <1>4

(* While no file is replaced the graph stays what it is.                   *)
LEMMA GraphStays ==
    ASSUME UNCHANGED <<disk, request>>
    PROVE  Graph' = Graph /\ Held' = Held /\ Root' = Root
<1>1. \A p : normalize_for_cycle(p)' = normalize_for_cycle(p)
  BY DEF normalize_for_cycle
<1>2. Root' = Root
  BY DEF Root, normalize_for_cycle
<1>3. \A p : Content(p)' = Content(p)
  BY DEF Content, normalize_for_cycle
<1>4. Held' = Held
  BY <1>3 DEF Held
<1>5. \A p, item : ResolvedItem(p, item)' = ResolvedItem(p, item)
  BY DEF ResolvedItem, normalize_for_cycle
<1>6. \A p, content : Resolved(p, content)' = Resolved(p, content)
  BY <1>5 DEF Resolved
<1>7. Graph' = [p \in Path |-> Resolved(p, Content(p))']
  BY DEF Graph
<1>8. ASSUME NEW p \in Path PROVE Resolved(p, Content(p))' = Resolved(p, Content(p))
  BY <1>3, <1>6
<1> QED BY <1>2, <1>4, <1>7, <1>8 DEF Graph

-----------------------------------------------------------------------------
(* What the loader has established                                         *)

SoundFile(p) == Readable(p) /\ ~Circular(p) /\ validate_schema(FlatSchema(p))

Sound(p) == \A q \in Reachable({p}) : SoundFile(q)

Kept(frame) ==
    LET file == Graph[frame.path]
    IN /\ frame.path \in Files
       /\ frame.doc = Held[frame.path]
       /\ Readable(frame.path)
       /\ frame.next <= Len(file.items) + 1
       /\ \A i \in 1 .. (frame.next - 1) :
             file.items[i].tag = "include" => Sound(file.items[i].path)
       /\ frame.structures =
             file.structures \o Joined(StructureParts(file, Flats(Graph)), frame.next - 1)
       /\ frame.fields = Joined(FieldParts(file, Flats(Graph)), frame.next - 1)

(* A frame stands at the include of the one above it.                      *)
AtInclude(below, path) ==
    LET file == Graph[below.path]
    IN /\ below.next <= Len(file.items)
       /\ file.items[below.next].tag = "include"
       /\ file.items[below.next].path = path

Sane(frames) ==
    /\ \A f \in 1 .. Len(frames) : Kept(frames[f])
    /\ frames # << >> => frames[1].path = Root
    /\ \A f \in 1 .. (Len(frames) - 1) : AtInclude(frames[f], frames[f + 1].path)
    /\ \A g \in 1 .. Len(frames) : \A f \in 1 .. (g - 1) :
          frames[g].path \in Reachable(Includes(frames[f].path))

FaultNamed(answer) ==
    \/ /\ answer.kind = "Io"
       /\ answer.path \in Files /\ Graph[answer.path] = Missing
    \/ /\ answer.kind = "Yaml"
       /\ \E p \in Files : Graph[p] = Garbled
    \/ /\ answer.kind = "IncludeCycle"
       /\ \E p \in Files : Circular(p)
    \/ /\ answer.kind = "Validation"
       /\ answer.path \in Files
       /\ \/ ~Readable(answer.path)
          \/ /\ \A q \in Reachable(Includes(answer.path)) : SoundFile(q)
             /\ ~validate_schema(FlatSchema(answer.path))

AnswerRight(answer) ==
    IF answer.ok THEN Sound(Root) /\ answer.schema = FlatSchema(Root)
    ELSE FaultNamed(answer)

Right ==
    edits = 0 /\ Asked =>
       /\ \A frames : frames = stack => Sane(frames)
       /\ \A answer : answer = outcome /\ answer # None => AnswerRight(answer)

LEMMA ReachableStays ==
    ASSUME UNCHANGED <<disk, request>>
    PROVE  /\ Files' = Files
           /\ \A p : Includes(p)' = Includes(p)
           /\ \A paths : Reachable(paths)' = Reachable(paths)
           /\ \A p : FlatSchema(p)' = FlatSchema(p)
<1>1. Graph' = Graph /\ Root' = Root
  BY GraphStays
<1>2. \A paths : Reachable(paths)' = Reachable(paths)
  BY <1>1 DEF Reachable
<1>3. Files' = Files
  BY <1>1 DEF Files, Reachable
<1>4. \A p : Includes(p)' = Includes(p)
  BY <1>1 DEF Includes
<1>5. \A p : Flatten(p)' = Flatten(p)
  BY <1>1 DEF Flatten
<1>6. \A p : FlatSchema(p)' = FlatSchema(p)
  BY <1>1, <1>5 DEF FlatSchema
<1> QED BY <1>2, <1>3, <1>4, <1>6

LEMMA SoundStays ==
    ASSUME UNCHANGED <<disk, request>>
    PROVE  /\ \A p : Readable(p)' <=> Readable(p)
           /\ \A p : Circular(p)' <=> Circular(p)
           /\ \A p : SoundFile(p)' <=> SoundFile(p)
           /\ \A p : Sound(p)' <=> Sound(p)
<1>1. Graph' = Graph /\ Root' = Root
  BY GraphStays
<1>2. \A p : Readable(p)' <=> Readable(p)
  BY <1>1 DEF Readable
<1>3. \A p : Circular(p)' <=> Circular(p)
  BY <1>1 DEF Circular, Reachable, Includes
<1>4. \A p : SoundFile(p)' <=> SoundFile(p)
  BY <1>2, <1>3, ReachableStays DEF SoundFile
<1>5. \A p : Sound(p)' <=> Sound(p)
  BY <1>4, ReachableStays DEF Sound
<1> QED BY <1>2, <1>3, <1>4, <1>5

LEMMA SaneStays ==
    ASSUME UNCHANGED <<disk, request>>
    PROVE  \A frames : Sane(frames)' <=> Sane(frames)
<1>1. Graph' = Graph /\ Root' = Root /\ Held' = Held
  BY GraphStays
<1>2. \A frame : Kept(frame)' <=> Kept(frame)
  BY <1>1, SoundStays, ReachableStays DEF Kept
<1>3. \A below, path : AtInclude(below, path)' <=> AtInclude(below, path)
  BY <1>1 DEF AtInclude
<1>4. \A p : Reachable(Includes(p))' = Reachable(Includes(p))
  BY <1>1 DEF Reachable, Includes
<1> QED BY <1>1, <1>2, <1>3, <1>4 DEF Sane

LEMMA AnswerStays ==
    ASSUME UNCHANGED <<disk, request>>
    PROVE  \A answer : AnswerRight(answer)' <=> AnswerRight(answer)
<1>1. Graph' = Graph /\ Root' = Root
  BY GraphStays
<1>2. \A p : Reachable(Includes(p))' = Reachable(Includes(p))
  BY <1>1 DEF Reachable, Includes
<1>3. \A answer : FaultNamed(answer)' <=> FaultNamed(answer)
  BY <1>1, <1>2, SoundStays, ReachableStays DEF FaultNamed
<1>4. Sound(Root)' <=> Sound(Root)
  BY <1>1, SoundStays, ReachableStays DEF Sound
<1>5. FlatSchema(Root)' = FlatSchema(Root)
  BY <1>1 DEF FlatSchema, Flatten
<1> QED BY <1>3, <1>4, <1>5 DEF AnswerRight

(* The files of a call: the root and what it leads to, each with all that  *)
(* it leads to itself.                                                     *)
LEMMA FilesAreClosed ==
    ASSUME TypeOK, Asked, NEW p \in Files
    PROVE  /\ p \in Path /\ p \in Reachable({p})
           /\ Includes(p) \subseteq Files
           /\ Reachable({p}) \subseteq Files
           /\ Reachable({p}) = {p} \cup Reachable(Includes(p))
<1>1. PICK graph \in IncludeGraphs : graph = Graph
  BY HeldIsTyped
<1>2. PICK root \in Path : root = Root
  BY HeldIsTyped
<1>3. \A paths : Reachable(paths) = Reached(graph, paths)
  BY <1>1 DEF Reachable, Reached
<1>4. {root} \in SUBSET Path /\ Files = Reached(graph, {root})
  BY <1>2, <1>3 DEF Files
<1>5. p \in Path /\ ClosedIn(graph, Files)
  BY <1>4, ReachedIsLeast
<1>6. Includes(p) = IncludedBy(graph[p]) /\ Includes(p) \subseteq Files
  BY <1>1, <1>5 DEF Includes, ClosedIn
<1>7. Reachable({p}) \subseteq Files
  BY <1>3, <1>4, ReachedOnward
<1> QED BY <1>3, <1>5, <1>6, <1>7, ReachedByIncludes

LEMMA RootIsFile ==
    ASSUME TypeOK, Asked
    PROVE  Root \in Files
<1>1. PICK graph \in IncludeGraphs : graph = Graph
  BY HeldIsTyped
<1>2. PICK root \in Path : root = Root
  BY HeldIsTyped
<1>3. Files = Reached(graph, {root}) /\ {root} \in SUBSET Path
  BY <1>1, <1>2 DEF Files, Reachable, Reached
<1> QED BY <1>2, <1>3, ReachedIsLeast

(* What a file's includes lead to is reached from one of them.             *)
LEMMA ReachedThroughOne ==
    ASSUME TypeOK, Asked, NEW p \in Files
    PROVE  /\ Includes(p) \subseteq Reachable(Includes(p))
           /\ \A q \in Reachable(Includes(p)) : Includes(q) \subseteq Reachable(Includes(p))
           /\ \A q \in Reachable(Includes(p)) : \E r \in Includes(p) : q \in Reachable({r})
<1>1. PICK graph \in IncludeGraphs : graph = Graph
  BY HeldIsTyped
<1>2. p \in Path
  BY FilesAreClosed
<1>3. PICK paths \in SUBSET Path : paths = Includes(p)
  BY <1>1, <1>2, IncludedArePaths DEF Includes
<1>4. \A some : Reachable(some) = Reached(graph, some)
  BY <1>1 DEF Reachable, Reached
<1>5. paths \subseteq Reached(graph, paths) /\ ClosedIn(graph, Reached(graph, paths))
  BY ReachedIsLeast
<1>6. \A q \in Reached(graph, paths) : \E r \in paths : q \in Reached(graph, {r})
  BY ReachedFromOne
<1> QED BY <1>1, <1>3, <1>4, <1>5, <1>6 DEF ClosedIn, Includes

(* A file that is a document, and the includes that it has.                *)
LEMMA DocumentIncludes ==
    ASSUME TypeOK, Asked, NEW p \in Path, IsDoc(Graph[p])
    PROVE  /\ Held[p] \in SchemaDoc /\ Graph[p] = Resolved(p, Held[p])
           /\ Graph[p] \in ResolvedDoc
           /\ Len(Graph[p].items) \in Nat
           /\ \A i \in 1 .. Len(Graph[p].items) :
                 Graph[p].items[i].tag = "include" => Graph[p].items[i].path \in Includes(p)
           /\ \A q \in Includes(p) : \E i \in 1 .. Len(Graph[p].items) :
                 Graph[p].items[i].tag = "include" /\ Graph[p].items[i].path = q
<1>1. PICK file \in ResolvedDoc \cup {Missing, Garbled, Malformed} : file = Graph[p]
  BY HeldIsTyped DEF IncludeGraphs
<1>2. file \in ResolvedDoc /\ IsDoc(file)
  BY <1>1, ContentKinds
<1>3. Len(file.items) \in Nat
  BY <1>2 DEF ResolvedDoc
<1>4. Held[p] \in SchemaDoc /\ Graph[p] = Resolved(p, Held[p])
  BY HeldIsTyped, ResolvedKinds
<1>5. IncludedBy(file) = {file.items[i].path :
         i \in {j \in 1 .. Len(file.items) : file.items[j].tag = "include"}}
  BY <1>2 DEF IncludedBy
<1>6. Includes(p) = IncludedBy(file)
  BY <1>1 DEF Includes
<1> QED BY <1>1, <1>2, <1>3, <1>4, <1>5, <1>6

LEMMA SoundIsAcyclic ==
    ASSUME NEW p, Sound(p)
    PROVE  Acyclic(Graph, p)
BY DEF Sound, SoundFile, Circular, Reachable, Reached, Includes, Acyclic

(* The merged schema of a file all of whose includes are sound.            *)
LEMMA FlatSchemaUnfolds ==
    ASSUME TypeOK, Asked, NEW p \in Files, IsDoc(Graph[p]),
           \A q \in Includes(p) : Sound(q)
    PROVE  /\ FlatSchema(p).structures = Flats(Graph)[p].structures
           /\ FlatSchema(p).fields = Flats(Graph)[p].fields
           /\ Flats(Graph)[p].structures = Graph[p].structures
                 \o Joined(StructureParts(Graph[p], Flats(Graph)), Len(Graph[p].items))
           /\ Flats(Graph)[p].fields
                 = Joined(FieldParts(Graph[p], Flats(Graph)), Len(Graph[p].items))
           /\ FlatSchema(p) =
                 [schema_name |-> Graph[p].schema_name,
                  schema_version |-> Graph[p].schema_version,
                  endianness |-> Graph[p].endianness,
                  structures |-> Flats(Graph)[p].structures,
                  fields |-> Flats(Graph)[p].fields]
           /\ Acyclic(Graph, p)
<1>1. PICK graph \in IncludeGraphs : graph = Graph
  BY HeldIsTyped
<1>2. p \in Path
  BY FilesAreClosed
<1>3. \A q \in IncludedBy(graph[p]) : Acyclic(graph, q)
  BY <1>1, SoundIsAcyclic DEF Includes
<1>4. Flats(graph)[p] = Merged(graph[p], Flats(graph))
  BY <1>2, <1>3, FlattenedUnfolds
<1>5. /\ Flats(graph)[p].structures = graph[p].structures
              \o Joined(StructureParts(graph[p], Flats(graph)), Len(graph[p].items))
      /\ Flats(graph)[p].fields
              = Joined(FieldParts(graph[p], Flats(graph)), Len(graph[p].items))
  <2>1. Merged(graph[p], Flats(graph)) =
           [structures |-> graph[p].structures
                \o Joined(StructureParts(graph[p], Flats(graph)), Len(graph[p].items)),
            fields |-> Joined(FieldParts(graph[p], Flats(graph)), Len(graph[p].items))]
    BY <1>1 DEF Merged
  <2>2. PICK s : s = graph[p].structures
                    \o Joined(StructureParts(graph[p], Flats(graph)), Len(graph[p].items))
    OBVIOUS
  <2>3. PICK f : f = Joined(FieldParts(graph[p], Flats(graph)), Len(graph[p].items))
    OBVIOUS
  <2>4. Flats(graph)[p] = [structures |-> s, fields |-> f]
    BY <1>4, <2>1, <2>2, <2>3, Zenon
  <2>5. Flats(graph)[p].structures = s /\ Flats(graph)[p].fields = f
    BY <2>4
  <2> QED BY <2>2, <2>3, <2>5, Zenon
<1>6. Flatten(p) = Flats(graph)[p]
  BY <1>1 DEF Flatten, Flats
<1>7. FlatSchema(p) =
         [schema_name |-> graph[p].schema_name,
          schema_version |-> graph[p].schema_version,
          endianness |-> graph[p].endianness,
          structures |-> Flats(graph)[p].structures,
          fields |-> Flats(graph)[p].fields]
  BY <1>1, <1>6 DEF FlatSchema, SchemaOf, Frame
<1>8. Acyclic(graph, p)
  BY <1>2, <1>3, AcyclicByIncludes
<1>9. /\ FlatSchema(p).structures = Flats(graph)[p].structures
      /\ FlatSchema(p).fields = Flats(graph)[p].fields
  BY <1>7
<1> QED BY <1>1, <1>5, <1>7, <1>8, <1>9, Zenon

(* A file is sound if its includes are and it is right with them.          *)
LEMMA SoundByIncludes ==
    ASSUME TypeOK, Asked, NEW p \in Files, Readable(p),
           \A q \in Includes(p) : Sound(q)
    PROVE  /\ \A q \in Reachable(Includes(p)) : SoundFile(q)
           /\ validate_schema(FlatSchema(p)) => Sound(p)
<1>1. \A q \in Reachable(Includes(p)) : SoundFile(q)
  BY ReachedThroughOne DEF Sound
<1>2. IsDoc(Graph[p])
  BY DEF Readable
<1>3. Acyclic(Graph, p)
  BY <1>2, FlatSchemaUnfolds
<1>4. ~Circular(p)
  BY <1>3, FilesAreClosed DEF Circular, Acyclic, Reachable, Reached, Includes
<1>5. validate_schema(FlatSchema(p)) => SoundFile(p)
  BY <1>4 DEF SoundFile
<1> QED BY <1>1, <1>5, FilesAreClosed DEF Sound

-----------------------------------------------------------------------------
(* The frames of the files being read                                      *)

LEMMA JoinedParts ==
    ASSUME TypeOK, Asked, NEW p \in Path, IsDoc(Graph[p])
    PROVE  /\ Graph[p].structures \in Seq(StructureDef)
           /\ \A i \in 1 .. Len(Graph[p].items) :
                 /\ StructureParts(Graph[p], Flats(Graph))[i] \in Seq(StructureDef)
                 /\ FieldParts(Graph[p], Flats(Graph))[i] \in Seq(FieldItem)
           /\ \A n \in 0 .. Len(Graph[p].items) :
                 /\ Joined(StructureParts(Graph[p], Flats(Graph)), n) \in Seq(StructureDef)
                 /\ Joined(FieldParts(Graph[p], Flats(Graph)), n) \in Seq(FieldItem)
<1>1. PICK graph \in IncludeGraphs : graph = Graph
  BY HeldIsTyped
<1>2. PICK file \in ResolvedDoc : file = graph[p]
  BY <1>1, DocumentIncludes
<1>3. Cardinality(Path) \in Nat
  BY PathAssumption, FS_CardinalityType
<1>4. PICK flat \in [Path -> FlatFile] : flat = Flats(graph)
  BY <1>3, FlattenedIsTyped DEF Flats
<1>5. /\ file.structures \in Seq(StructureDef) /\ Len(file.items) \in Nat
  BY DEF ResolvedDoc
<1>6. \A i \in 1 .. Len(file.items) :
         /\ StructureParts(file, flat)[i] \in Seq(StructureDef)
         /\ FieldParts(file, flat)[i] \in Seq(FieldItem)
  BY PartsAreTyped
<1>7. \A n \in Nat : n <= Len(file.items) =>
         Joined(StructureParts(file, flat), n) \in Seq(StructureDef)
  BY <1>5, <1>6, JoinedIsSeq
<1>8. \A n \in Nat : n <= Len(file.items) =>
         Joined(FieldParts(file, flat), n) \in Seq(FieldItem)
  BY <1>5, <1>6, JoinedIsSeq
<1> QED BY <1>1, <1>2, <1>4, <1>5, <1>6, <1>7, <1>8

LEMMA NewFrameKept ==
    ASSUME TypeOK, Asked, NEW p \in Files, Readable(p)
    PROVE  Kept(Frame(p, Held[p]))
<1>1. p \in Path /\ IsDoc(Graph[p])
  BY FilesAreClosed DEF Readable
<1>2. PICK file \in ResolvedDoc : file = Graph[p]
  BY <1>1, DocumentIncludes
<1>3. Held[p].structures = file.structures
  BY <1>1, <1>2, DocumentIncludes, ResolvedDocument
<1>4. /\ file.structures \in Seq(StructureDef) /\ Len(file.items) \in Nat
  BY DEF ResolvedDoc
<1>5. file.structures \o Joined(StructureParts(file, Flats(Graph)), 0) = file.structures
  BY <1>4, JoinedNone, ConcatEmptySeq
<1>6. Joined(FieldParts(file, Flats(Graph)), 0) = << >>
  BY JoinedNone
<1> DEFINE frame == Frame(p, Held[p])
<1>7. /\ frame.path = p /\ frame.doc = Held[p] /\ frame.next = 1
      /\ frame.structures = file.structures /\ frame.fields = << >>
  BY <1>3 DEF Frame
<1> HIDE DEF frame
<1>8. frame.next - 1 = 0 /\ frame.next <= Len(file.items) + 1
  BY <1>4, <1>7
<1>9. \A i \in 1 .. (frame.next - 1) : FALSE
  BY <1>8
<1>10. Kept(frame)
  BY <1>2, <1>5, <1>6, <1>7, <1>8, <1>9, Zenon DEF Kept
<1> QED BY <1>10 DEF frame

(* A frame goes on to the next item with what the item comes to.           *)
LEMMA NextFrameKept ==
    ASSUME TypeOK, Asked, NEW frame \in FileFrame, Kept(frame),
           frame.next <= Len(Graph[frame.path].items),
           Graph[frame.path].items[frame.next].tag = "include" =>
              Sound(Graph[frame.path].items[frame.next].path),
           NEW onward,
           onward.path = frame.path, onward.doc = frame.doc,
           onward.next = frame.next + 1,
           onward.structures = frame.structures
              \o StructureParts(Graph[frame.path], Flats(Graph))[frame.next],
           onward.fields = frame.fields
              \o FieldParts(Graph[frame.path], Flats(Graph))[frame.next]
    PROVE  Kept(onward)
<1>1. PICK p : p = frame.path
  OBVIOUS
<1>2. PICK n \in Nat \ {0} : n = frame.next
  BY DEF FileFrame
<1>3. p \in Files /\ Readable(p)
  BY <1>1 DEF Kept
<1>4. p \in Path /\ IsDoc(Graph[p])
  BY <1>3, FilesAreClosed DEF Readable
<1>5. PICK file : file = Graph[p]
  OBVIOUS
<1>6. Len(file.items) \in Nat /\ n <= Len(file.items)
  BY <1>1, <1>2, <1>4, <1>5, DocumentIncludes
<1>7. PICK ss : ss = StructureParts(file, Flats(Graph))
  OBVIOUS
<1>8. PICK fs : fs = FieldParts(file, Flats(Graph))
  OBVIOUS
<1>9. n - 1 \in Nat /\ (n - 1) + 1 = n /\ n - 1 \in 0 .. Len(file.items)
  BY <1>6
<1>10. /\ file.structures \in Seq(StructureDef)
       /\ Joined(ss, n - 1) \in Seq(StructureDef) /\ ss[n] \in Seq(StructureDef)
  BY <1>4, <1>5, <1>6, <1>7, <1>9, JoinedParts
<1>11. Joined(ss, n) = Joined(ss, n - 1) \o ss[n] /\ Joined(fs, n) = Joined(fs, n - 1) \o fs[n]
  BY <1>9, JoinedNext
<1>12. onward.structures = file.structures \o Joined(ss, n)
  <2>1. onward.structures = (file.structures \o Joined(ss, n - 1)) \o ss[n]
    BY <1>1, <1>2, <1>5, <1>7, Zenon DEF Kept
  <2>2. (file.structures \o Joined(ss, n - 1)) \o ss[n]
           = file.structures \o (Joined(ss, n - 1) \o ss[n])
    <3>1. PICK s \in Seq(StructureDef) : s = file.structures
      BY <1>10
    <3>2. PICK t \in Seq(StructureDef) : t = Joined(ss, n - 1)
      BY <1>10
    <3>3. PICK u \in Seq(StructureDef) : u = ss[n]
      BY <1>10
    <3>4. (s \o t) \o u = s \o (t \o u)
      BY ConcatAssociative
    <3> QED BY <3>1, <3>2, <3>3, <3>4, Zenon
  <2> QED BY <1>11, <2>1, <2>2, Zenon
<1>13. onward.fields = Joined(fs, n)
  BY <1>1, <1>2, <1>5, <1>8, <1>11, Zenon DEF Kept
<1>14. onward.next - 1 = n /\ onward.next <= Len(file.items) + 1
  BY <1>2, <1>6
<1>15. ASSUME NEW i \in 1 .. n, file.items[i].tag = "include"
       PROVE  Sound(file.items[i].path)
  <2>1. CASE i = n
    BY <1>1, <1>2, <1>5, <1>15, <2>1
  <2>2. CASE i # n
    <3>1. i \in 1 .. (n - 1)
      BY <2>2
    <3> QED BY <1>1, <1>2, <1>5, <1>15, <3>1, Zenon DEF Kept
  <2> QED BY <2>1, <2>2
<1>16. onward.path = p /\ onward.doc = Held[p]
  BY <1>1, Zenon DEF Kept
<1> QED BY <1>3, <1>5, <1>7, <1>8, <1>12, <1>13, <1>14, <1>15, <1>16, Zenon DEF Kept

LEMMA SaneGrows ==
    ASSUME TypeOK, Asked, NEW frames \in Seq(FileFrame), Sane(frames),
           NEW frame \in FileFrame, Kept(frame),
           frames = << >> => frame.path = Root,
           frames # << >> => AtInclude(frames[Len(frames)], frame.path)
    PROVE  Sane(Append(frames, frame))
<1>1. PICK n \in Nat : n = Len(frames)
  OBVIOUS
<1>2. PICK grown : grown = Append(frames, frame)
  OBVIOUS
<1>3. /\ Len(grown) = n + 1 /\ grown[n + 1] = frame
      /\ \A f \in 1 .. n : grown[f] = frames[f]
      /\ n = 0 <=> frames = << >>
  BY <1>1, <1>2
<1>4. \A f \in 1 .. Len(grown) : Kept(grown[f])
  BY <1>1, <1>3 DEF Sane
<1>5. grown[1].path = Root
  <2>1. CASE n = 0
    BY <1>3, <2>1
  <2>2. CASE n # 0
    BY <1>3, <2>2 DEF Sane
  <2> QED BY <2>1, <2>2
<1>6. ASSUME NEW f \in 1 .. n
      PROVE  AtInclude(grown[f], grown[f + 1].path)
  <2>1. CASE f = n
    BY <1>1, <1>3, <2>1
  <2>2. CASE f # n
    <3>1. f \in 1 .. (n - 1) /\ f + 1 \in 1 .. n
      BY <2>2
    <3> QED BY <1>1, <1>3, <3>1 DEF Sane
  <2> QED BY <2>1, <2>2
<1>7. ASSUME NEW f \in 1 .. n
      PROVE  frame.path \in Reachable(Includes(frames[f].path))
  <2>1. PICK below : below = frames[n].path
    OBVIOUS
  <2>2. n # 0 /\ n \in 1 .. n
    BY <1>7
  <2>3. Kept(frames[n]) /\ below \in Files /\ Readable(below)
    BY <1>1, <2>1, <2>2 DEF Sane, Kept
  <2>4. below \in Path /\ IsDoc(Graph[below])
    BY <2>3, FilesAreClosed DEF Readable
  <2>5. frame.path \in Includes(below)
    <3>1. AtInclude(frames[n], frame.path) /\ frames[n].next \in Nat \ {0}
      <4>1. frames[n] \in FileFrame
        BY <1>1, <2>2
      <4>2. n = Len(frames) /\ frames # << >>
        BY <1>1, <1>3, <2>2
      <4> QED BY <4>1, <4>2 DEF FileFrame
    <3>2. Len(Graph[below].items) \in Nat
      BY <2>4, DocumentIncludes
    <3>3. frames[n].next \in 1 .. Len(Graph[below].items)
      BY <2>1, <3>1, <3>2 DEF AtInclude
    <3> QED BY <2>1, <2>4, <3>1, <3>3, DocumentIncludes DEF AtInclude
  <2>6. CASE f = n
    BY <2>1, <2>3, <2>5, <2>6, ReachedThroughOne
  <2>7. CASE f # n
    <3>1. f \in 1 .. (n - 1)
      BY <2>7
    <3>2. frames[f].path \in Files
      BY <1>1 DEF Sane, Kept
    <3>3. below \in Reachable(Includes(frames[f].path))
      BY <1>1, <2>1, <2>2, <3>1 DEF Sane
    <3> QED BY <2>5, <3>2, <3>3, ReachedThroughOne
  <2> QED BY <2>6, <2>7
<1>8. ASSUME NEW g \in 1 .. (n + 1), NEW f \in 1 .. (g - 1)
      PROVE  grown[g].path \in Reachable(Includes(grown[f].path))
  <2>1. f \in 1 .. n
    OBVIOUS
  <2>2. CASE g = n + 1
    BY <1>3, <1>7, <2>1, <2>2
  <2>3. CASE g # n + 1
    <3>1. g \in 1 .. n
      BY <2>3
    <3> QED BY <1>1, <1>3, <2>1, <3>1 DEF Sane
  <2> QED BY <2>2, <2>3
<1>9. Len(grown) - 1 = n
  BY <1>3
<1> QED BY <1>2, <1>3, <1>4, <1>5, <1>6, <1>8, <1>9, Zenon DEF Sane

(* The last frame, or what is left below it, goes on in the same file.     *)
LEMMA SaneGoesOn ==
    ASSUME NEW frames \in Seq(FileFrame), Sane(frames),
           NEW n \in 1 .. Len(frames), NEW frame, Kept(frame),
           frame.path = frames[n].path,
           NEW left, Len(left) = n, left[n] = frame,
           \A f \in 1 .. (n - 1) : left[f] = frames[f]
    PROVE  Sane(left)
<1>1. Len(frames) \in Nat
  OBVIOUS
<1>2. \A f \in 1 .. n : left[f].path = frames[f].path
  OBVIOUS
<1>3. \A f \in 1 .. n : Kept(left[f])
  BY <1>1 DEF Sane
<1>4. left[1].path = Root
  BY <1>1, <1>2 DEF Sane
<1>5. ASSUME NEW f \in 1 .. (n - 1)
      PROVE  AtInclude(left[f], left[f + 1].path)
  <2>1. f + 1 \in 1 .. n /\ f \in 1 .. (Len(frames) - 1)
    BY <1>1
  <2> QED BY <1>2, <2>1 DEF Sane
<1>6. ASSUME NEW g \in 1 .. n, NEW f \in 1 .. (g - 1)
      PROVE  left[g].path \in Reachable(Includes(left[f].path))
  <2>1. f \in 1 .. n /\ g \in 1 .. Len(frames)
    BY <1>1
  <2> QED BY <1>2, <2>1 DEF Sane
<1> QED BY <1>3, <1>4, <1>5, <1>6, Zenon DEF Sane

-----------------------------------------------------------------------------
(* What a step establishes                                                 *)

LEMMA KeptDocument ==
    ASSUME TypeOK, Asked, NEW frame, Kept(frame)
    PROVE  /\ frame.path \in Files /\ frame.path \in Path /\ IsDoc(Graph[frame.path])
           /\ frame.doc = Held[frame.path] /\ frame.doc \in SchemaDoc
           /\ Len(frame.doc.items) = Len(Graph[frame.path].items)
           /\ Len(frame.doc.items) \in Nat
           /\ \A i \in 1 .. Len(frame.doc.items) : Graph[frame.path].items[i]
                 = ResolvedItem(frame.path, frame.doc.items[i])
           /\ Graph[frame.path].schema_name = frame.doc.schema_name
           /\ Graph[frame.path].schema_version = frame.doc.schema_version
           /\ Graph[frame.path].endianness = frame.doc.endianness
<1>1. PICK p : p = frame.path
  OBVIOUS
<1>2. p \in Files /\ Readable(p) /\ frame.doc = Held[p]
  BY <1>1 DEF Kept
<1>3. p \in Path /\ IsDoc(Graph[p])
  BY <1>2, FilesAreClosed DEF Readable
<1>4. PICK doc \in SchemaDoc : doc = Held[p] /\ Graph[p] = Resolved(p, doc)
  BY <1>3, DocumentIncludes
<1>5. Len(doc.items) \in Nat
  BY DEF SchemaDoc
<1> QED BY <1>1, <1>2, <1>3, <1>4, <1>5, ResolvedDocument

LEMMA IncludedByFrame ==
    ASSUME TypeOK, Asked, NEW frame \in FileFrame, Kept(frame),
           NEW p, AtInclude(frame, p)
    PROVE  p \in Includes(frame.path)
<1>1. /\ frame.path \in Path /\ IsDoc(Graph[frame.path])
      /\ Len(Graph[frame.path].items) \in Nat
  BY KeptDocument
<1>2. frame.next \in 1 .. Len(Graph[frame.path].items)
  BY <1>1 DEF AtInclude, FileFrame
<1> QED BY <1>1, <1>2, DocumentIncludes DEF AtInclude

(* A file whose items are all taken has become its merged schema.          *)
LEMMA FinishedIsFlat ==
    ASSUME TypeOK, Asked, NEW frame \in FileFrame, Kept(frame),
           ~(frame.next <= Len(Graph[frame.path].items))
    PROVE  /\ \A q \in Includes(frame.path) : Sound(q)
           /\ SchemaOf(frame) = FlatSchema(frame.path)
           /\ frame.structures = Flats(Graph)[frame.path].structures
           /\ frame.fields = Flats(Graph)[frame.path].fields
<1>1. PICK p : p = frame.path
  OBVIOUS
<1>2. p \in Files /\ p \in Path /\ IsDoc(Graph[p])
  BY <1>1, KeptDocument
<1>3. PICK file : file = Graph[p]
  OBVIOUS
<1>4. PICK n \in Nat : n = Len(file.items)
  BY <1>1, <1>3, KeptDocument
<1>5. frame.next - 1 = n
  <2>1. frame.next <= n + 1
    BY <1>1, <1>3, <1>4 DEF Kept
  <2> QED BY <1>1, <1>3, <1>4, <2>1 DEF FileFrame
<1>6. \A i \in 1 .. n : file.items[i].tag = "include" => Sound(file.items[i].path)
  BY <1>1, <1>3, <1>5, Zenon DEF Kept
<1>7. \A q \in Includes(p) : Sound(q)
  BY <1>2, <1>3, <1>4, <1>6, DocumentIncludes
<1>8. frame.structures = Flats(Graph)[p].structures
  <2>1. frame.structures = file.structures \o Joined(StructureParts(file, Flats(Graph)), n)
    BY <1>1, <1>3, <1>5, Zenon DEF Kept
  <2> QED BY <1>2, <1>3, <1>4, <1>7, <2>1, FlatSchemaUnfolds
<1>9. frame.fields = Flats(Graph)[p].fields
  <2>1. frame.fields = Joined(FieldParts(file, Flats(Graph)), n)
    BY <1>1, <1>3, <1>5, Zenon DEF Kept
  <2> QED BY <1>2, <1>3, <1>4, <1>7, <2>1, FlatSchemaUnfolds
<1>10. SchemaOf(frame) = FlatSchema(p)
  BY <1>1, <1>2, <1>7, <1>8, <1>9, FlatSchemaUnfolds, KeptDocument DEF SchemaOf
<1> QED BY <1>1, <1>7, <1>8, <1>9, <1>10

StepRight ==
    /\ \A frames : frames = stack' => Sane(frames)
    /\ \A answer : answer = outcome' /\ answer # None => AnswerRight(answer)

LEMMA ReturnStep ==
    ASSUME NEW answer, AnswerRight(answer), Return(answer)
    PROVE  StepRight
<1>1. Sane(<< >>)
  BY DEF Sane
<1> QED BY <1>1 DEF Return, StepRight

LEMMA FailureStep ==
    ASSUME NEW answer, ~answer.ok, FaultNamed(answer), Return(answer)
    PROVE  StepRight
BY ReturnStep DEF AnswerRight

LEMMA FailureFields ==
    \A kind, path : /\ Failed(kind, path).ok = FALSE
                    /\ Failed(kind, path).kind = kind
                    /\ Failed(kind, path).path = path
BY DEF Failed

(* A file that is being read already includes itself.                      *)
LEMMA CircleStep ==
    ASSUME Inv, Asked, Sane(stack), NEW p \in Files, p \in Reading,
           AtInclude(Top, p), Return(CycleTo(p))
    PROVE  StepRight
<1>1. TypeOK /\ stack \in Seq(FileFrame)
  BY DEF Inv, TypeOK, FileFrame
<1>2. PICK n \in Nat : n = Len(stack)
  BY <1>1
<1>3. PICK f \in 1 .. n : stack[f].path = p
  BY <1>2 DEF Reading
<1>4. n \in 1 .. n /\ stack[n] \in FileFrame
  BY <1>1, <1>2, <1>3
<1>5. PICK top \in FileFrame : top = stack[n]
  BY <1>4
<1>6. Kept(top) /\ AtInclude(top, p)
  BY <1>2, <1>4, <1>5 DEF Sane, Top
<1>7. p \in Includes(top.path)
  BY <1>1, <1>6, IncludedByFrame
<1>8. p \in Reachable(Includes(p))
  <2>1. CASE f = n
    BY <1>1, <1>3, <1>5, <1>7, <2>1, ReachedThroughOne
  <2>2. CASE f # n
    <3>1. f \in 1 .. (n - 1)
      BY <2>2
    <3>2. top.path \in Reachable(Includes(p))
      BY <1>2, <1>3, <1>4, <1>5, <3>1 DEF Sane
    <3> QED BY <1>1, <1>7, <3>2, ReachedThroughOne
  <2> QED BY <2>1, <2>2
<1>9. CycleTo(p).ok = FALSE /\ CycleTo(p).kind = "IncludeCycle"
  BY DEF CycleTo, Cycle
<1> QED BY <1>8, <1>9, FailureStep DEF FaultNamed, Circular

LEMMA OpenStep ==
    ASSUME Inv, Asked, outcome = None, Sane(stack), NEW p \in Files, Held[p] # Missing,
           stack = << >> => p = Root,
           stack # << >> => AtInclude(Top, p),
           Open(p, Held[p])
    PROVE  StepRight
<1>1. TypeOK /\ stack \in Seq(FileFrame)
  BY DEF Inv, TypeOK, FileFrame
<1>2. p \in Path
  BY <1>1, FilesAreClosed
<1>3. PICK content \in SchemaDoc \cup {Garbled, Malformed} : content = Held[p]
  BY <1>1, <1>2, HeldIsTyped
<1>4. Graph[p] = Resolved(p, content)
  BY <1>1, <1>2, <1>3, HeldIsTyped
<1>5. CASE p \in Reading
  <2>1. Return(CycleTo(p)) /\ stack # << >>
    BY <1>5 DEF Open, Reading
  <2> QED BY <1>5, <2>1, CircleStep
<1>6. CASE p \notin Reading /\ content = Garbled
  <2>1. Return(Failed("Yaml", None))
    BY <1>3, <1>6 DEF Open
  <2>2. Graph[p] = Garbled
    BY <1>4, <1>6, ResolvedOther
  <2>3. FaultNamed(Failed("Yaml", None))
    BY <2>2, FailureFields DEF FaultNamed
  <2> QED BY <2>1, <2>3, FailureFields, FailureStep
<1>7. CASE p \notin Reading /\ content = Malformed
  <2>1. Return(Failed("Validation", p))
    BY <1>3, <1>7 DEF Open, Garbled, Malformed
  <2>2. ~Readable(p)
    BY <1>4, <1>7, ResolvedOther DEF Readable, IsDoc, Malformed
  <2>3. FaultNamed(Failed("Validation", p))
    BY <2>2, FailureFields DEF FaultNamed
  <2> QED BY <2>1, <2>3, FailureFields, FailureStep
<1>8. CASE p \notin Reading /\ content \in SchemaDoc
  <2>1. content # Garbled /\ content # Malformed
    BY <1>8 DEF SchemaDoc, Garbled, Malformed
  <2>2. Graph[p].endianness = content.endianness /\ IsDoc(Graph[p])
    BY <1>2, <1>4, <1>8, ResolvedDocument, ResolvedKinds
  <2>3. RootEndianness(content) = Graph[Root].endianness
    <3>1. CASE stack = << >>
      BY <2>2, <3>1 DEF RootEndianness
    <3>2. CASE stack # << >>
      <4>1. 1 \in 1 .. Len(stack)
        BY <1>1, <3>2
      <4>2. Kept(stack[1]) /\ stack[1].path = Root
        BY <3>2, <4>1 DEF Sane
      <4> QED BY <1>1, <3>2, <4>2, KeptDocument DEF RootEndianness
    <3> QED BY <3>1, <3>2
  <2>4. CASE validate_include_endianness(RootEndianness(content), content.endianness)
    <3>1. stack' = Append(stack, Frame(p, content)) /\ UNCHANGED outcome
      BY <1>3, <1>8, <2>1, <2>4 DEF Open
    <3>2. Readable(p)
      BY <2>2, <2>3, <2>4 DEF Readable
    <3>3. PICK frame : frame = Frame(p, content)
      OBVIOUS
    <3>4. Kept(frame) /\ frame.path = p
      BY <1>1, <1>3, <3>2, <3>3, NewFrameKept DEF Frame
    <3>5. frame \in FileFrame
      <4>1. content.structures \in Seq(StructureDef)
        BY <1>8 DEF SchemaDoc
      <4>2. << >> \in Seq(FieldItem) /\ 1 \in Nat \ {0}
        OBVIOUS
      <4> QED BY <1>2, <1>8, <3>3, <4>1, <4>2, Zenon DEF Frame, FileFrame
    <3>6. Sane(Append(stack, frame))
      BY <1>1, <3>4, <3>5, SaneGrows DEF Top
    <3> QED BY <3>1, <3>3, <3>6 DEF StepRight
  <2>5. CASE ~validate_include_endianness(RootEndianness(content), content.endianness)
    <3>1. Return(Failed("Validation", p))
      BY <1>3, <1>8, <2>1, <2>5 DEF Open
    <3>2. ~Readable(p)
      BY <2>2, <2>3, <2>5 DEF Readable
    <3>3. FaultNamed(Failed("Validation", p))
      BY <3>2, FailureFields DEF FaultNamed
    <3> QED BY <3>1, <3>3, FailureFields, FailureStep
  <2> QED BY <2>4, <2>5
<1> QED BY <1>3, <1>5, <1>6, <1>7, <1>8

(* Only the text of a call stands for another content than the disk has,   *)
(* and it is the first file to be read.                                    *)
LEMMA FileStep ==
    ASSUME Inv, Asked, outcome = None, Sane(stack), NEW target,
           NEW p \in Files, p = normalize_for_cycle(target),
           stack = << >> => p = Root /\ request.kind = "file",
           stack # << >> => AtInclude(Top, p),
           parse_schema_file_inner(target)
    PROVE  StepRight
<1>1. TypeOK /\ stack \in Seq(FileFrame)
  BY DEF Inv, TypeOK, FileFrame
<1>2. p \in Path
  BY <1>1, FilesAreClosed
<1>3. CASE p \in Reading
  <2>1. Return(CycleTo(p)) /\ stack # << >>
    BY <1>3 DEF parse_schema_file_inner, Open, Reading
  <2> QED BY <1>3, <2>1, CircleStep
<1>4. CASE p \notin Reading
  <2>1. Held[p] = disk[p]
    <3>1. ~(request.kind = "text" /\ p = Root)
      <4>1. CASE stack = << >>
        BY <4>1
      <4>2. CASE stack # << >>
        <5>1. 1 \in 1 .. Len(stack) /\ stack[1].path = Root
          BY <1>1, <4>2 DEF Sane
        <5> QED BY <1>4, <5>1 DEF Reading
      <4> QED BY <4>1, <4>2
    <3> QED BY <1>2, <3>1 DEF Held, Content, Root
  <2>2. CASE disk[p] = Missing
    <3>1. Return(Failed("Io", p))
      BY <1>4, <2>2 DEF parse_schema_file_inner
    <3>2. Graph[p] = Missing
      BY <1>1, <1>2, <2>1, <2>2, HeldIsTyped, ResolvedOther
    <3>3. FaultNamed(Failed("Io", p))
      BY <3>2, FailureFields DEF FaultNamed
    <3> QED BY <3>1, <3>3, FailureFields, FailureStep
  <2>3. CASE disk[p] # Missing
    <3>1. Open(p, Held[p])
      BY <1>4, <2>1, <2>3 DEF parse_schema_file_inner
    <3> QED BY <2>1, <2>3, <3>1, OpenStep
  <2> QED BY <2>2, <2>3
<1> QED BY <1>3, <1>4

LEMMA StartRight ==
    ASSUME Inv, Asked, outcome = None, Sane(stack),
           parse_schema_file \/ parse_schema_str_with_base_path
    PROVE  StepRight
<1>1. TypeOK /\ stack = << >>
  BY DEF Inv, parse_schema_file, parse_schema_str_with_base_path, Starting
<1>2. Root \in Files
  BY <1>1, RootIsFile
<1>3. CASE parse_schema_file
  <2>1. request.kind = "file" /\ parse_schema_file_inner(request.path)
    BY <1>3 DEF parse_schema_file, Starting
  <2>2. PICK target : target = request.path
    OBVIOUS
  <2>3. PICK p \in Files : p = Root /\ p = normalize_for_cycle(target)
    BY <1>2, <2>2 DEF Root
  <2> QED BY <1>1, <2>1, <2>2, <2>3, FileStep
<1>4. CASE parse_schema_str_with_base_path
  <2>1. request.kind = "text" /\ Open(Root, request.text)
    BY <1>4 DEF parse_schema_str_with_base_path, Starting, Root
  <2>2. Root \in Path /\ request \in Requests
    BY <1>1, HeldIsTyped DEF TypeOK
  <2>3. Held[Root] = request.text
    BY <2>1, <2>2 DEF Held, Content, Root
  <2>4. request.text # Missing
    BY <2>1, <2>2, ContentAssumption DEF SchemaDoc, Missing, Garbled, Malformed
  <2>5. PICK p \in Files : p = Root
    BY <1>2
  <2> QED BY <1>1, <2>1, <2>3, <2>4, <2>5, OpenStep
<1> QED BY <1>3, <1>4

LEMMA TopIsKept ==
    ASSUME Inv, Asked, Sane(stack), stack # << >>
    PROVE  /\ stack \in Seq(FileFrame) /\ Len(stack) \in Nat \ {0}
           /\ Top \in FileFrame /\ Top = stack[Len(stack)]
           /\ Kept(Top) /\ Top.next \in Nat \ {0}
           /\ Len(Top.doc.items) = Len(Graph[Top.path].items)
           /\ Len(Top.doc.items) \in Nat
           /\ InFile => /\ Top.next \in 1 .. Len(Top.doc.items)
                        /\ Graph[Top.path].items[Top.next] = ResolvedItem(Top.path, ThisItem)
<1>1. TypeOK /\ stack \in Seq(FileFrame) /\ Len(stack) \in Nat \ {0}
  BY TopFrame DEF Inv
<1>2. PICK top \in FileFrame : top = Top /\ top = stack[Len(stack)]
  BY TopFrame
<1>3. Kept(top) /\ top.next \in Nat \ {0}
  BY <1>1, <1>2 DEF Sane, FileFrame
<1>4. /\ Len(top.doc.items) = Len(Graph[top.path].items)
      /\ Len(top.doc.items) \in Nat
      /\ \A i \in 1 .. Len(top.doc.items) : Graph[top.path].items[i]
            = ResolvedItem(top.path, top.doc.items[i])
  BY <1>1, <1>3, KeptDocument
<1>5. ASSUME InFile
      PROVE  /\ top.next \in 1 .. Len(top.doc.items)
             /\ Graph[top.path].items[top.next] = ResolvedItem(top.path, ThisItem)
  BY <1>2, <1>3, <1>4, <1>5 DEF InFile, ThisItem
<1> QED BY <1>1, <1>2, <1>3, <1>4, <1>5

LEMMA TakeItemRight ==
    ASSUME Inv, Asked, outcome = None, Sane(stack), TakeItem
    PROVE  StepRight
<1>1. TypeOK /\ stack # << >> /\ InFile /\ ThisItem.tag # "include"
  BY DEF Inv, TakeItem, InFile
<1>2. PICK n \in Nat \ {0} : n = Len(stack)
  BY <1>1, TopIsKept
<1>3. PICK top \in FileFrame : top = Top /\ top = stack[n] /\ Kept(top)
  BY <1>1, <1>2, TopIsKept
<1>4. PICK item : item = ThisItem
  OBVIOUS
<1>5. Graph[top.path].items[top.next] = item
  BY <1>1, <1>3, <1>4, TopIsKept DEF ResolvedItem
<1>6. /\ top.next \in Nat \ {0} /\ top.next <= Len(Graph[top.path].items)
      /\ top.next \in 1 .. Len(Graph[top.path].items)
  BY <1>1, <1>3, TopIsKept
<1>7. /\ StructureParts(Graph[top.path], Flats(Graph))[top.next] = << >>
      /\ FieldParts(Graph[top.path], Flats(Graph))[top.next] = << item >>
  BY <1>1, <1>4, <1>5, <1>6, PartsOfItem
<1>8. PICK onward : onward = [top EXCEPT !.next = @ + 1, !.fields = Append(@, item)]
  OBVIOUS
<1>9. /\ onward.path = top.path /\ onward.doc = top.doc /\ onward.next = top.next + 1
      /\ onward.structures = top.structures \o << >>
      /\ onward.fields = top.fields \o << item >>
  <2>1. top.structures \in Seq(StructureDef) /\ top.fields \in Seq(FieldItem)
    BY DEF FileFrame
  <2>2. item \in FieldItem
    BY <1>1, <1>4, TopFrame DEF IncludeItem
  <2>3. top.structures \o << >> = top.structures
    BY <2>1, ConcatEmptySeq
  <2>4. Append(top.fields, item) = top.fields \o << item >>
    BY <2>1, <2>2
  <2> QED BY <1>8, <2>3, <2>4 DEF FileFrame
<1>10. Kept(onward)
  BY <1>1, <1>3, <1>4, <1>5, <1>6, <1>7, <1>9, NextFrameKept
<1>11. stack' = [stack EXCEPT ![n] = onward] /\ UNCHANGED outcome
  BY <1>2, <1>3, <1>4, <1>8 DEF TakeItem, Top
<1>12. PICK left : left = [stack EXCEPT ![n] = onward]
  OBVIOUS
<1>13. /\ stack \in Seq(FileFrame) /\ Len(left) = n /\ left[n] = onward
       /\ \A f \in 1 .. (n - 1) : left[f] = stack[f]
       /\ n \in 1 .. Len(stack)
  BY <1>1, <1>2, <1>12, TopIsKept
<1>14. Sane(left)
  BY <1>3, <1>9, <1>10, <1>13, SaneGoesOn
<1> QED BY <1>11, <1>12, <1>14 DEF StepRight

LEMMA IncludeRight ==
    ASSUME Inv, Asked, outcome = None, Sane(stack), Include
    PROVE  StepRight
<1>1. TypeOK /\ stack # << >> /\ InFile /\ ThisItem.tag = "include"
  BY DEF Inv, Include, InFile
<1>2. PICK top \in FileFrame : top = Top /\ Kept(top)
  BY <1>1, TopIsKept
<1>3. PICK target : target = Target(top.path, ThisItem)
  OBVIOUS
<1>4. PICK p : p = normalize_for_cycle(target)
  OBVIOUS
<1>5. AtInclude(top, p)
  <2>1. ResolvedItem(top.path, ThisItem) = [tag |-> "include", path |-> p]
    BY <1>1, <1>3, <1>4 DEF ResolvedItem
  <2>2. /\ Graph[top.path].items[top.next] = [tag |-> "include", path |-> p]
        /\ top.next <= Len(Graph[top.path].items)
    BY <1>1, <1>2, <2>1, TopIsKept
  <2> QED BY <2>2 DEF AtInclude
<1>6. p \in Files
  BY <1>1, <1>2, <1>5, IncludedByFrame, FilesAreClosed, KeptDocument
<1>7. parse_schema_file_inner(target)
  BY <1>2, <1>3 DEF Include
<1> QED BY <1>1, <1>2, <1>4, <1>5, <1>6, <1>7, FileStep

LEMMA FinishFileRight ==
    ASSUME Inv, Asked, outcome = None, Sane(stack), FinishFile
    PROVE  StepRight
<1>1. TypeOK /\ stack # << >> /\ ~InFile
  BY DEF Inv, FinishFile
<1>2. PICK n \in Nat \ {0} : n = Len(stack)
  BY <1>1, TopIsKept
<1>3. PICK top \in FileFrame : top = Top /\ top = stack[n] /\ Kept(top)
  BY <1>1, <1>2, TopIsKept
<1>4. PICK p \in Files : p = top.path /\ Readable(p)
  BY <1>3 DEF Kept
<1>5. ~(top.next <= Len(Graph[p].items))
  BY <1>1, <1>3, <1>4, TopIsKept DEF InFile
<1>6. /\ \A q \in Includes(p) : Sound(q)
      /\ SchemaOf(top) = FlatSchema(p)
      /\ top.structures = Flats(Graph)[p].structures
      /\ top.fields = Flats(Graph)[p].fields
  BY <1>1, <1>3, <1>4, <1>5, FinishedIsFlat
<1>7. CASE ~validate_schema(SchemaOf(top))
  <2>1. Return(Failed("Validation", p))
    BY <1>3, <1>4, <1>7 DEF FinishFile
  <2>2. \A q \in Reachable(Includes(p)) : SoundFile(q)
    BY <1>1, <1>4, <1>6, SoundByIncludes
  <2>3. FaultNamed(Failed("Validation", p))
    BY <1>6, <1>7, <2>2, FailureFields DEF FaultNamed
  <2> QED BY <2>1, <2>3, FailureFields, FailureStep
<1>8. CASE validate_schema(SchemaOf(top)) /\ n = 1
  <2>1. p = Root
    BY <1>1, <1>2, <1>3, <1>4, <1>8 DEF Sane
  <2>2. Return(Loaded(SchemaOf(top)))
    BY <1>2, <1>3, <1>8 DEF FinishFile
  <2>3. Sound(p)
    BY <1>1, <1>4, <1>6, <1>8, SoundByIncludes
  <2>4. AnswerRight(Loaded(SchemaOf(top)))
    BY <1>6, <2>1, <2>3 DEF AnswerRight, Loaded
  <2> QED BY <2>2, <2>4, ReturnStep
<1>9. CASE validate_schema(SchemaOf(top)) /\ n # 1
  <2>1. Sound(p)
    BY <1>1, <1>4, <1>6, <1>9, SoundByIncludes
  <2>2. PICK m \in Nat \ {0} : m = n - 1
    BY <1>9
  <2>3. stack \in Seq(FileFrame) /\ m \in 1 .. Len(stack) /\ m + 1 = n
    BY <1>1, <1>2, <2>2, TopIsKept
  <2>4. PICK below \in FileFrame : below = stack[m]
    BY <2>3
  <2>5. Kept(below) /\ AtInclude(below, p)
    BY <1>2, <1>3, <1>4, <2>3, <2>4 DEF Sane
  <2>6. PICK schema : schema = SchemaOf(top)
    OBVIOUS
  <2>7. schema.structures = top.structures /\ schema.fields = top.fields
    BY <2>6 DEF SchemaOf
  <2>8. PICK onward : onward = Extended(below, schema)
    OBVIOUS
  <2>9. below.next \in 1 .. Len(Graph[below.path].items)
    BY <1>1, <2>5, KeptDocument DEF AtInclude, FileFrame
  <2>10. /\ StructureParts(Graph[below.path], Flats(Graph))[below.next] = top.structures
         /\ FieldParts(Graph[below.path], Flats(Graph))[below.next] = top.fields
    BY <1>6, <2>5, <2>9, PartsOfItem DEF AtInclude
  <2>11. /\ onward.path = below.path /\ onward.doc = below.doc
         /\ onward.next = below.next + 1
         /\ onward.structures = below.structures \o top.structures
         /\ onward.fields = below.fields \o top.fields
    BY <2>7, <2>8 DEF Extended, FileFrame
  <2>12. Kept(onward)
    BY <1>1, <2>1, <2>5, <2>10, <2>11, NextFrameKept DEF AtInclude
  <2>13. PICK left : left = [SubSeq(stack, 1, m) EXCEPT ![m] = onward]
    OBVIOUS
  <2>14. /\ Len(left) = m /\ left[m] = onward
         /\ \A f \in 1 .. (m - 1) : left[f] = stack[f]
    <3>1. PICK lower : lower = SubSeq(stack, 1, m)
      OBVIOUS
    <3>2. /\ lower \in Seq(FileFrame) /\ Len(lower) = m
          /\ \A f \in 1 .. m : lower[f] = stack[f]
      BY <2>3, <3>1
    <3>3. lower = [f \in 1 .. m |-> lower[f]]
      BY <3>2
    <3>4. left = [f \in 1 .. m |-> IF f = m THEN onward ELSE lower[f]]
      BY <2>13, <3>1, <3>3
    <3>5. m \in 1 .. m
      OBVIOUS
    <3> QED BY <3>2, <3>4, <3>5
  <2>15. Sane(left)
    BY <2>3, <2>4, <2>11, <2>12, <2>14, SaneGoesOn
  <2>16. stack' = left /\ UNCHANGED outcome
    <3>1. /\ stack' = [SubSeq(stack, 1, n - 1) EXCEPT ![n - 1] = Extended(@, schema)]
          /\ UNCHANGED outcome
      BY <1>2, <1>3, <1>9, <2>6 DEF FinishFile
    <3>2. SubSeq(stack, 1, m)[m] = below
      BY <2>3, <2>4
    <3> QED BY <2>2, <2>8, <2>13, <3>1, <3>2
  <2> QED BY <2>15, <2>16 DEF StepRight
<1> QED BY <1>7, <1>8, <1>9

LEMMA RightInit == Init => Right
BY DEF Init, Right, Sane

LEMMA RightNext == Inv /\ Right /\ [Next]_vars => Right'
<1> SUFFICES ASSUME Inv, Right, [Next]_vars, edits' = 0, Asked'
             PROVE  /\ \A frames : frames = stack' => Sane(frames)'
                    /\ \A answer : answer = outcome' /\ answer # None => AnswerRight(answer)'
  BY DEF Right
<1>1. edits \in Nat
  BY PathAssumption DEF Inv, TypeOK
<1>2. /\ UNCHANGED <<disk, request>> /\ edits = 0 /\ Asked
      /\ Load \/ UNCHANGED <<stack, outcome>>
  <2>1. CASE Load
    BY <2>1 DEF Load, parse_schema_file, parse_schema_str_with_base_path,
                parse_schema_str, TakeItem, Include, FinishFile, Asked
  <2>2. CASE ReplaceFile
    BY <1>1, <2>2 DEF ReplaceFile
  <2>3. CASE UNCHANGED vars
    BY <2>3 DEF vars, Asked
  <2> QED BY <2>1, <2>2, <2>3 DEF Next, Done
<1>3. /\ \A frames : frames = stack => Sane(frames)
      /\ \A answer : answer = outcome /\ answer # None => AnswerRight(answer)
  BY <1>2 DEF Right
<1>4. Sane(stack)
  BY <1>3
<1>5. StepRight
  <2>1. CASE UNCHANGED <<stack, outcome>>
    BY <1>3, <2>1 DEF StepRight
  <2>2. CASE Load
    <3>1. stack # << >> => outcome = None
      BY DEF Inv, TypeOK
    <3>2. CASE parse_schema_file \/ parse_schema_str_with_base_path
      <4>1. outcome = None
        BY <3>2 DEF parse_schema_file, parse_schema_str_with_base_path, Starting
      <4> QED BY <1>2, <1>4, <3>2, <4>1, StartRight
    <3>3. CASE parse_schema_str
      BY <1>2, <3>3 DEF parse_schema_str, Starting, Asked
    <3>4. CASE TakeItem
      BY <1>2, <1>4, <3>1, <3>4, TakeItemRight DEF TakeItem, InFile
    <3>5. CASE Include
      BY <1>2, <1>4, <3>1, <3>5, IncludeRight DEF Include, InFile
    <3>6. CASE FinishFile
      BY <1>2, <1>4, <3>1, <3>6, FinishFileRight DEF FinishFile
    <3> QED BY <2>2, <3>2, <3>3, <3>4, <3>5, <3>6 DEF Load
  <2> QED BY <1>2, <2>1, <2>2
<1> QED BY <1>2, <1>5, SaneStays, AnswerStays DEF StepRight

(* What the loader has read and merged is right as long as no file has     *)
(* been replaced.                                                          *)
THEOREM LoaderIsRight == Spec => []Right
BY RightInit, RightNext, LoaderInvariance, PTL DEF Spec

LEMMA SoundIsLegal == Sound(Root) <=> Legal
BY DEF Sound, SoundFile, Legal, Files

(* A file at fault makes the call illegal.                                 *)
LEMMA FaultIsIllegal ==
    ASSUME NEW answer, FaultNamed(answer)
    PROVE  ~Legal
<1>1. CASE answer.kind = "Io"
  BY <1>1 DEF FaultNamed, Legal, Readable, IsDoc, Missing
<1>2. CASE answer.kind = "Yaml"
  BY <1>2 DEF FaultNamed, Legal, Readable, IsDoc, Garbled
<1>3. CASE answer.kind = "IncludeCycle"
  BY <1>3 DEF FaultNamed, Legal
<1>4. CASE answer.kind = "Validation"
  BY <1>4 DEF FaultNamed, Legal
<1> QED BY <1>1, <1>2, <1>3, <1>4 DEF FaultNamed

LEMMA AnsweredRight ==
    ASSUME Inv, Right, Answered
    PROVE  /\ outcome.ok \in BOOLEAN
           /\ outcome.ok => Legal /\ outcome.schema = FlatSchema(Root)
           /\ ~outcome.ok => ~Legal /\ FaultNamed(outcome)
<1>1. outcome # None /\ outcome.ok \in BOOLEAN /\ edits = 0 /\ Asked
  BY ContentAssumption DEF Inv, TypeOK, Answered, Asked
<1>2. AnswerRight(outcome)
  BY <1>1 DEF Right
<1> QED BY <1>1, <1>2, SoundIsLegal, FaultIsIllegal DEF AnswerRight

(* A call returns the merged schema exactly if every file it reaches is    *)
(* there, well formed, in no circle, of the root's byte order and valid    *)
(* with what it includes; the merge is the depth-first one.                *)
THEOREM LoadsAreExact == Spec => []LoadsExactlyTheLegal
<1>1. Inv /\ Right => LoadsExactlyTheLegal
  BY AnsweredRight DEF LoadsExactlyTheLegal
<1> QED BY <1>1, LoaderInvariance, LoaderIsRight, PTL

(* A call that fails names a file that is at fault, or finds a circle that *)
(* there is among the files.                                               *)
THEOREM ErrorsNameTheFault == Spec => []ErrorNamesTheFault
<1>1. ASSUME Inv, Right PROVE ErrorNamesTheFault
  <2> SUFFICES ASSUME Answered, ~outcome.ok PROVE ErrorNamesTheFault
    BY DEF ErrorNamesTheFault
  <2>1. FaultNamed(outcome)
    BY <1>1, AnsweredRight
  <2>2. CASE outcome.kind = "Io"
    BY <2>1, <2>2 DEF FaultNamed, ErrorNamesTheFault
  <2>3. CASE outcome.kind = "Yaml"
    BY <2>1, <2>3 DEF FaultNamed, ErrorNamesTheFault
  <2>4. CASE outcome.kind = "IncludeCycle"
    BY <2>1, <2>4 DEF FaultNamed, ErrorNamesTheFault
  <2>5. CASE outcome.kind = "Validation"
    BY <2>1, <2>5 DEF FaultNamed, ErrorNamesTheFault, SoundFile
  <2> QED BY <2>1, <2>2, <2>3, <2>4, <2>5 DEF FaultNamed
<1> QED BY <1>1, LoaderInvariance, LoaderIsRight, PTL

-----------------------------------------------------------------------------
(* The diagnostics panel                                                   *)

ErrorKinds == {"Yaml", "Validation", "Io", "IncludeCycle"}

(* An answer that is no schema is an error of a known kind; a text that is *)
(* no YAML gets no further than its own parsing.                           *)
KindsKnown ==
    /\ outcome # None /\ ~outcome.ok => outcome.kind \in ErrorKinds
    /\ request.kind = "text" /\ request.text = Garbled =>
          stack = << >> /\ outcome \in {None, Failed("Yaml", None)}

AnswerKnown == UNCHANGED outcome \/ outcome'.ok \/ outcome'.kind \in ErrorKinds

LEMMA OpenKinds ==
    ASSUME NEW path, NEW content, Open(path, content)
    PROVE  AnswerKnown
<1>1. CASE path \in Reading
  BY <1>1 DEF Open, Return, CycleTo, Cycle, AnswerKnown, ErrorKinds
<1>2. CASE path \notin Reading
  BY <1>2 DEF Open, Return, Failed, AnswerKnown, ErrorKinds
<1> QED BY <1>1, <1>2

LEMMA FileKinds ==
    ASSUME NEW path, parse_schema_file_inner(path)
    PROVE  AnswerKnown
<1>1. PICK normalized : normalized = normalize_for_cycle(path)
  OBVIOUS
<1>2. CASE normalized \notin Reading /\ disk[normalized] = Missing
  BY <1>1, <1>2 DEF parse_schema_file_inner, Return, Failed, AnswerKnown, ErrorKinds
<1>3. CASE ~(normalized \notin Reading /\ disk[normalized] = Missing)
  <2>1. Open(normalized, disk[normalized])
    BY <1>1, <1>3 DEF parse_schema_file_inner
  <2> QED BY <2>1, OpenKinds
<1> QED BY <1>2, <1>3

LEMMA KindsNext == KindsKnown /\ [Next]_vars => KindsKnown'
<1> SUFFICES ASSUME KindsKnown, [Next]_vars PROVE KindsKnown'
  OBVIOUS
<1>1. CASE parse_schema_file
  <2>1. AnswerKnown /\ UNCHANGED request
    BY <1>1, FileKinds DEF parse_schema_file
  <2> QED BY <1>1, <2>1 DEF KindsKnown, AnswerKnown, parse_schema_file, Starting
<1>2. CASE parse_schema_str_with_base_path
  <2>1. AnswerKnown /\ UNCHANGED request
    BY <1>2, OpenKinds DEF parse_schema_str_with_base_path
  <2>2. Reading = {}
    BY <1>2 DEF parse_schema_str_with_base_path, Starting, Reading
  <2>3. request.text = Garbled => Return(Failed("Yaml", None))
    BY <1>2, <2>2 DEF parse_schema_str_with_base_path, Open
  <2>4. request.text = Garbled => stack' = << >> /\ outcome' = Failed("Yaml", None)
    BY <2>3 DEF Return
  <2> QED BY <2>1, <2>4 DEF KindsKnown, AnswerKnown
<1>3. CASE parse_schema_str
  <2>1. outcome' = AloneResult(request.text) /\ UNCHANGED request /\ request.kind = "alone"
    BY <1>3 DEF parse_schema_str, Return, Starting
  <2>2. AloneResult(request.text).ok \/ AloneResult(request.text).kind \in ErrorKinds
    BY DEF AloneResult, Failed, Loaded, ErrorKinds
  <2> QED BY <2>1, <2>2 DEF KindsKnown
<1>4. CASE TakeItem
  BY <1>4 DEF TakeItem, InFile, KindsKnown
<1>5. CASE Include
  <2>1. AnswerKnown /\ UNCHANGED request /\ stack # << >>
    BY <1>5, FileKinds DEF Include, InFile
  <2> QED BY <2>1 DEF KindsKnown, AnswerKnown
<1>6. CASE FinishFile
  <2>1. AnswerKnown
    BY <1>6 DEF FinishFile, Return, Failed, Loaded, AnswerKnown, ErrorKinds
  <2>2. UNCHANGED request /\ stack # << >>
    BY <1>6 DEF FinishFile
  <2> QED BY <2>1, <2>2 DEF KindsKnown, AnswerKnown
<1>7. CASE ReplaceFile
  BY <1>7 DEF ReplaceFile, KindsKnown
<1>8. CASE UNCHANGED vars
  BY <1>8 DEF vars, KindsKnown
<1> QED BY <1>1, <1>2, <1>3, <1>4, <1>5, <1>6, <1>7, <1>8 DEF Next, Load, Done

(* The panel shows the diagnostic of the answer.                           *)
PanelShows ==
    panel # None =>
       /\ request.kind = "text" /\ outcome # None /\ ~outcome.ok
       /\ text_lines \in 1 .. MaxLines
       /\ fault_line = None \/ fault_line \in 1 .. MaxLines + 1
       /\ panel = schema_error_diagnostic(outcome, fault_line, text_lines, request.path)

LEMMA ErrorsStep == [NextErrors]_<<vars, errorVars>> => [Next]_vars
BY DEF NextErrors, Loading, ShowError, vars, errorVars

LEMMA ErrorsRefine ==
    SpecErrors => [](Inv /\ Right /\ KindsKnown)
<1>1. InitErrors => Inv /\ Right /\ KindsKnown
  BY InitInv, RightInit DEF InitErrors, Init, KindsKnown
<1>2. Inv /\ Right /\ KindsKnown /\ [NextErrors]_<<vars, errorVars>>
         => Inv' /\ Right' /\ KindsKnown'
  BY NextInv, RightNext, KindsNext, ErrorsStep
<1> QED BY <1>1, <1>2, PTL DEF SpecErrors

(* Once there is an answer the loader changes nothing.                     *)
LEMMA AnsweredStays ==
    ASSUME Inv, outcome # None, [Next]_vars
    PROVE  UNCHANGED vars
<1>1. stack = << >>
  BY DEF Inv, TypeOK
<1>2. ~Load /\ ~ReplaceFile
  BY <1>1 DEF Load, parse_schema_file, parse_schema_str_with_base_path, parse_schema_str,
              Starting, TakeItem, Include, FinishFile, InFile, ReplaceFile
<1> QED BY <1>2 DEF Next, Done

LEMMA PanelNext ==
    Inv /\ PanelShows /\ [NextErrors]_<<vars, errorVars>> => PanelShows'
<1> SUFFICES ASSUME Inv, PanelShows, [NextErrors]_<<vars, errorVars>> PROVE PanelShows'
  OBVIOUS
<1>1. CASE ShowError
  <2>1. /\ disk' = disk /\ request' = request /\ outcome' = outcome
        /\ request.kind = "text" /\ outcome # None /\ ~outcome.ok
    BY <1>1 DEF ShowError, vars
  <2>2. /\ text_lines' \in 1 .. MaxLines
        /\ fault_line' = None \/ fault_line' \in 1 .. MaxLines + 1
    BY <1>1 DEF ShowError
  <2>3. panel' = schema_error_diagnostic(outcome, fault_line', text_lines', request.path)
    BY <1>1 DEF ShowError
  <2>4. panel' = schema_error_diagnostic(outcome, fault_line, text_lines, request.path)'
    BY <2>1, <2>3 DEF schema_error_diagnostic, schema_snippet
  <2> QED BY <2>1, <2>2, <2>4 DEF PanelShows
<1>2. CASE panel # None /\ ~ShowError
  <2>1. [Next]_vars /\ outcome # None /\ UNCHANGED errorVars
    BY <1>2, ErrorsStep DEF PanelShows, NextErrors, Loading
  <2>2. UNCHANGED vars
    BY <2>1, AnsweredStays
  <2> QED BY <2>1, <2>2 DEF PanelShows, vars, errorVars, schema_error_diagnostic, schema_snippet
<1>3. CASE panel = None /\ ~ShowError
  BY <1>3 DEF PanelShows, NextErrors, Loading, errorVars
<1> QED BY <1>1, <1>2, <1>3

LEMMA PanelRight == SpecErrors => []PanelShows
<1>1. InitErrors => PanelShows
  BY DEF InitErrors, PanelShows
<1>2. [](Inv /\ Right /\ KindsKnown) => []Inv
  BY PTL
<1> QED BY <1>1, <1>2, PanelNext, ErrorsRefine, PTL DEF SpecErrors

(* What the panel says of each kind of error.                              *)
LEMMA PanelOfYaml ==
    ASSUME PanelShows, panel # None, outcome.kind = "Yaml"
    PROVE  /\ panel.category = "SchemaParse"
           /\ panel.location = source_location(request.path, fault_line)
           /\ panel.snippet = schema_snippet(panel.location, text_lines, request.path)
<1>1. PICK location : location = source_location(request.path, fault_line)
  OBVIOUS
<1>2. PICK snippet : snippet = schema_snippet(location, text_lines, request.path)
  OBVIOUS
<1>3. panel = Diagnostic("SchemaParse", location, snippet)
  BY <1>1, <1>2 DEF PanelShows, schema_error_diagnostic
<1> QED BY <1>1, <1>2, <1>3 DEF Diagnostic

LEMMA PanelOfValidation ==
    ASSUME PanelShows, panel # None, outcome.kind = "Validation"
    PROVE  panel.location = None /\ panel.snippet = None
<1>1. panel = Diagnostic("SchemaValidation", None, None)
  BY DEF PanelShows, schema_error_diagnostic, source_location, schema_snippet
<1> QED BY <1>1 DEF Diagnostic

LEMMA PanelOfIo ==
    ASSUME PanelShows, panel # None, outcome.kind = "Io"
    PROVE  /\ panel.category = "IncludeResolution" /\ panel.snippet = None
           /\ panel.location.path = outcome.path
<1>1. PICK location : location = Place(outcome.path, 1)
  OBVIOUS
<1>2. panel = Diagnostic("IncludeResolution", location, None)
  BY <1>1 DEF PanelShows, schema_error_diagnostic
<1> QED BY <1>1, <1>2 DEF Diagnostic, Place

LEMMA PanelOfCycle ==
    ASSUME PanelShows, panel # None, outcome.kind = "IncludeCycle"
    PROVE  panel.location = None /\ panel.snippet = None
<1>1. panel = Diagnostic("IncludeResolution", None, None)
  BY DEF PanelShows, schema_error_diagnostic
<1> QED BY <1>1 DEF Diagnostic

(* A file that the panel names is at fault, unless files were replaced     *)
(* while the text was loaded.                                              *)
THEOREM PlacesAreAtFault == SpecErrors => []PlaceIsAtFault
<1>1. ASSUME Inv, Right, KindsKnown, PanelShows PROVE PlaceIsAtFault
  <2> SUFFICES ASSUME panel # None, panel.location # None, edits = 0
               PROVE  PlaceIsAtFault
    BY DEF PlaceIsAtFault
  <2>1. /\ request.kind = "text" /\ outcome # None /\ ~outcome.ok
        /\ TypeOK /\ Asked /\ Answered
    BY <1>1 DEF PanelShows, Inv, Asked, Answered
  <2>2. FaultNamed(outcome)
    BY <1>1, <2>1, AnsweredRight
  <2>3. Root \in Path /\ request \in Requests
    BY <2>1, HeldIsTyped DEF TypeOK
  <2>4. request.text \in SchemaDoc \cup {Garbled, Malformed}
    BY <2>1, <2>3, ContentAssumption
  <2>5. Held[Root] = request.text
    BY <2>1, <2>3 DEF Held, Content, Root
  <2>6. Graph[Root] = Resolved(Root, request.text)
    BY <2>1, <2>3, <2>5, HeldIsTyped
  <2>7. /\ Graph[Root] # Missing
        /\ Graph[Root] = Garbled <=> request.text = Garbled
    <3>1. /\ Resolved(Root, request.text) = Missing <=> request.text = Missing
          /\ Resolved(Root, request.text) = Garbled <=> request.text = Garbled
      BY <2>3, <2>4, ResolvedKinds
    <3>2. request.text # Missing
      BY <2>4 DEF SchemaDoc, Missing, Garbled, Malformed
    <3> QED BY <2>6, <3>1, <3>2
  <2>8. CASE outcome.kind = "Yaml"
    <3>1. panel.category = "SchemaParse" /\ panel.location.path = request.path
      BY <1>1, <2>8, PanelOfYaml DEF source_location, Place
    <3>2. PICK p \in Files : Graph[p] = Garbled
      BY <2>2, <2>8 DEF FaultNamed
    <3>3. request.text = Garbled \/ \E included \in Files \ {Root} : Graph[included] = Garbled
      BY <2>7, <3>2
    <3> QED BY <3>1, <3>3 DEF PlaceIsAtFault
  <2>9. CASE outcome.kind = "Io"
    <3>1. panel.category = "IncludeResolution" /\ panel.location.path = outcome.path
      BY <1>1, <2>9, PanelOfIo
    <3>2. outcome.path \in Files /\ Graph[outcome.path] = Missing
      BY <2>2, <2>9 DEF FaultNamed
    <3> QED BY <2>7, <3>1, <3>2 DEF PlaceIsAtFault
  <2> QED BY <1>1, <2>2, <2>8, <2>9, PanelOfValidation, PanelOfCycle DEF FaultNamed
<1> QED BY <1>1, ErrorsRefine, PanelRight, PTL

LEMMA SnippetIsInText ==
    ASSUME NEW lines \in Nat, NEW line \in 1 .. lines
    PROVE  /\ source_snippet(lines, line) = Snippet(lines, line)
           /\ Snippet(lines, line) # None
           /\ Snippet(lines, line).marked = line
           /\ line \in Snippet(lines, line).first .. Snippet(lines, line).last
           /\ Snippet(lines, line).first .. Snippet(lines, line).last
                 = {l \in 1 .. lines : l - line \in -2 .. 2}
<1> DEFINE first == IF line > 2 THEN line - 2 ELSE 1
           last == IF line + 2 <= lines THEN line + 2 ELSE lines
<1>1. first \in Nat /\ last \in Nat /\ line \in Nat
  OBVIOUS
<1>2. line \in first .. last
  OBVIOUS
<1>3. first .. last = {l \in 1 .. lines : l - line \in -2 .. 2}
  OBVIOUS
<1>4. Snippet(lines, line) = [first |-> first, marked |-> line, last |-> last]
  BY DEF Snippet
<1> HIDE DEF first, last
<1>5. Snippet(lines, line) \in [first : Nat, marked : Nat, last : Nat]
  BY <1>1, <1>4
<1>6. Snippet(lines, line) # None
  BY <1>5, NoneAssumption
<1>7. source_snippet(lines, line) = Snippet(lines, line)
  BY DEF source_snippet
<1> QED BY <1>2, <1>3, <1>4, <1>6, <1>7

(* The panel quotes the line that it names, and only lines of the text     *)
(* that was loaded.                                                        *)
THEOREM QuotesAreOfTheText == SpecErrors => []QuotesTheFault
<1>1. ASSUME Inv, KindsKnown, PanelShows PROVE QuotesTheFault
  <2>1. /\ TypeOK /\ MaxLines \in Nat /\ None \notin Path \cup Nat
        /\ None \notin [path : Path, line : Nat]
    BY <1>1, LinesAssumption, NoneAssumption DEF Inv
  <2>2. ASSUME panel # None
        PROVE  /\ request.kind = "text" /\ request.path \in Path
               /\ outcome # None /\ ~outcome.ok /\ outcome.kind \in ErrorKinds
               /\ text_lines \in 1 .. MaxLines
               /\ fault_line = None \/ fault_line \in 1 .. MaxLines + 1
    BY <1>1, <2>1, <2>2, ContentAssumption DEF PanelShows, KindsKnown, TypeOK
  <2>3. ASSUME panel # None, outcome.kind = "Yaml", fault_line # None
        PROVE  /\ panel.location = Place(request.path, fault_line)
               /\ panel.location # None
               /\ panel.location.path = request.path /\ panel.location.line = fault_line
               /\ panel.snippet = source_snippet(text_lines, fault_line)
    <3>1. fault_line \in Nat /\ request.path \in Path
      BY <2>1, <2>2, <2>3
    <3>2. panel.location = Place(request.path, fault_line)
      BY <1>1, <2>1, <2>3, <3>1, PanelOfYaml DEF source_location
    <3>3. PICK location : location = Place(request.path, fault_line)
      OBVIOUS
    <3>4. location \in [path : Path, line : Nat]
      BY <3>1, <3>3 DEF Place
    <3>5. location # None /\ location.path = request.path /\ location.line = fault_line
      BY <2>1, <3>3, <3>4 DEF Place
    <3>6. panel.snippet = source_snippet(text_lines, fault_line)
      BY <1>1, <2>3, <3>2, <3>3, <3>5, PanelOfYaml DEF schema_snippet
    <3> QED BY <3>2, <3>3, <3>5, <3>6
  <2>4. ASSUME panel # None, request.text = Garbled, fault_line \in 1 .. text_lines
        PROVE  /\ panel.snippet # None
               /\ panel.snippet.marked = fault_line
               /\ panel.snippet.first .. panel.snippet.last =
                     {l \in 1 .. text_lines : l - fault_line \in -2 .. 2}
    <3>1. outcome.kind = "Yaml"
      BY <1>1, <2>2, <2>4, FailureFields DEF KindsKnown
    <3>2. text_lines \in Nat /\ fault_line # None
      BY <2>1, <2>2, <2>4
    <3>3. panel.snippet = Snippet(text_lines, fault_line)
      BY <2>3, <2>4, <3>1, <3>2, SnippetIsInText
    <3> QED BY <2>4, <3>2, <3>3, SnippetIsInText
  <2>5. ASSUME panel # None, panel.snippet # None
        PROVE  /\ panel.location.path = request.path
               /\ panel.snippet.marked = panel.location.line
               /\ panel.snippet.marked \in panel.snippet.first .. panel.snippet.last
               /\ panel.snippet.first .. panel.snippet.last \subseteq 1 .. text_lines
    <3>1. outcome.kind = "Yaml"
      BY <1>1, <2>2, <2>5, PanelOfValidation, PanelOfIo, PanelOfCycle DEF ErrorKinds
    <3>2. fault_line # None
      BY <1>1, <2>5, <3>1, PanelOfYaml DEF source_location, schema_snippet
    <3>3. fault_line \in 1 .. MaxLines + 1 /\ text_lines \in Nat
      BY <2>1, <2>2, <2>5, <3>2
    <3>4. panel.snippet = source_snippet(text_lines, fault_line)
      BY <2>3, <2>5, <3>1, <3>2
    <3>5. fault_line \in 1 .. text_lines
      BY <2>1, <2>5, <3>3, <3>4 DEF source_snippet
    <3>6. panel.snippet = Snippet(text_lines, fault_line)
      BY <3>3, <3>4, <3>5, SnippetIsInText
    <3>7. panel.snippet.first .. panel.snippet.last
             = {l \in 1 .. text_lines : l - fault_line \in -2 .. 2}
      BY <3>3, <3>5, <3>6, SnippetIsInText
    <3>8. /\ panel.snippet.marked = fault_line
          /\ fault_line \in panel.snippet.first .. panel.snippet.last
      BY <3>3, <3>5, <3>6, SnippetIsInText
    <3> QED BY <2>3, <2>5, <3>1, <3>2, <3>7, <3>8
  <2> QED BY <2>4, <2>5 DEF QuotesTheFault
<1> QED BY <1>1, ErrorsRefine, PanelRight, PTL
=============================================================================
