-------------------------- MODULE CommandLineProofs --------------------------
(***************************************************************************)
(* Theorems about CommandLine, for all command lines, files, schemas and   *)
(* interpretations of them.                                                *)
(*                                                                         *)
(* What has been written and what is still to be written are together the  *)
(* records of all rows with something before and behind them, with --json  *)
(* one array; before there are rows, nothing has been written.  Every byte *)
(* that is read is in a content that the file has had since it was opened, *)
(* at its place, and a copy ends where such a content ends or behind it.   *)
(***************************************************************************)
EXTENDS CommandLine, FiniteSetTheorems, SequenceTheorems, WellFoundedInduction, TLAPS

Buffer == [kind : {"memory"}, bytes : ByteSeq]
          \cup [kind : {"mapped"}, inode : Inode, len : 0 .. MaxLength]

Copy == [kind : {"reading"}, inode : Inode, bytes : ByteSeq]

DiskType ==
    /\ names \in [Path -> Inode \cup {None}]
    /\ store \in [Inode -> Entry]

(* What is known of the program before it has rows.                        *)
Progress ==
    /\ cli \in Arguments
    /\ pc \in {"metadata", "open"} => cli.file \in Path
    /\ pc = "read" => buffer \in Copy
    /\ pc \in {"schema", "interpret"} => buffer \in Buffer
    /\ pc = "interpret" => schema \in Schemas
    /\ pc \in {"arguments", "metadata", "open", "read", "schema"} =>
          schema = None /\ seen = << >>
    /\ pc \notin {"write", "done"} => rows = << >> /\ stdout = << >> /\ exit = None

(* The file that was opened is never replaced by something else.           *)
Backed ==
    pc \in {"read", "schema", "interpret"} /\ buffer.kind # "memory" =>
       store[buffer.inode].kind = "file"

Remembered == HeldNow \subseteq held /\ held \subseteq ByteSeq

Was(i, byte) == \E bytes \in held : i <= Len(bytes) /\ bytes[i] = byte

Copied == pc = "read" => \A i \in 1 .. Len(buffer.bytes) : Was(i, buffer.bytes[i])

Loaded ==
    pc \in {"schema", "interpret"} \/ Interpreted =>
       /\ buffer \in Buffer
       /\ buffer.kind = "memory" =>
             /\ \A i \in 1 .. Len(buffer.bytes) : Was(i, buffer.bytes[i])
             /\ \E bytes \in held : Len(bytes) <= Len(buffer.bytes)
       /\ buffer.kind = "mapped" => \E bytes \in held : Len(bytes) = buffer.len

(* What has been read of the buffer, and what was made of it.              *)
SeenInv ==
    /\ pc = "interpret" \/ Interpreted =>
          /\ DOMAIN seen \subseteq 1 .. file_size(buffer)
          /\ seen \in [DOMAIN seen -> Byte]
    /\ \A i \in DOMAIN seen : ReadFromFile(i)
    /\ Interpreted =>
          /\ DOMAIN seen = 1 .. file_size(buffer)
          /\ rows = Interpretation[schema][seen]
    /\ exit = Killed =>
          buffer.kind = "mapped" /\ \E bytes \in held : Len(bytes) < buffer.len

ReadInv == Backed /\ Remembered /\ Copied /\ Loaded /\ SeenInv

(* What a row is written as.                                               *)
Shown(r) ==
    [piece |-> "record", row |-> r, placed |-> rows[r].placed,
     value |-> IF rows[r].value = None THEN IF cli.json THEN Null ELSE Dash
               ELSE IF cli.json
               THEN render_json_value(rows[r].value, rows[r].byte_len, cli.full_bytes)
               ELSE render_field_value(rows[r].value, rows[r].byte_len, cli.full_bytes),
     failed |-> rows[r].failed]

Records == [r \in 1 .. Len(rows) |-> Shown(r)]

(* The records come behind the first pieces, and nothing else is a record. *)
Holds(s, before, records) ==
    /\ before \in Nat /\ before + Len(records) <= Len(s)
    /\ \A i \in 1 .. Len(s) :
          s[i].piece = "record" <=> i \in (before + 1) .. (before + Len(records))
    /\ \A r \in 1 .. Len(records) : s[before + r] = records[r]

IsArray(s) ==
    /\ Len(s) \in Nat /\ Len(s) >= 2
    /\ s[1] = Open /\ s[Len(s)] = Close
    /\ \A i \in 2 .. (Len(s) - 1) : s[i].piece = "record"

(* The output is split between what is written and what is not.            *)
Splits(pieces, s) ==
    /\ s \in Seq(pieces)
    /\ stdout \in Seq(pieces) /\ output \in Seq(pieces)
    /\ Len(stdout) + Len(output) = Len(s)
    /\ \A i \in 1 .. Len(stdout) : stdout[i] = s[i]
    /\ \A i \in 1 .. Len(output) : output[i] = s[Len(stdout) + i]

IsOutput(s) == (\E before : Holds(s, before, Records)) /\ (cli.json => IsArray(s))

Silent == stdout = << >> /\ pc # "write" /\ exit # 0

Writing ==
    /\ \E pieces, s : Splits(pieces, s) /\ IsOutput(s)
    /\ pc \in {"write", "done"}
    /\ exit \in {None, 0, Panicked}
    /\ exit = 0 => output = << >>

OutputInv == Silent \/ Writing

(* Rows are what an interpretation may return.                             *)
RowsType == Len(rows) \in Nat /\ \A r \in 1 .. Len(rows) : IsRow(rows[r])

Inv == DiskType /\ Progress /\ ReadInv /\ RowsType /\ OutputInv

-----------------------------------------------------------------------------
(* Files and buffers *)

LEMMA EntryType ==
    ASSUME NEW entry \in Entry
    PROVE  entry.kind = "file" => entry.bytes \in Contents
<1>1. CASE \E b \in Contents : entry = File(b) \/ entry = Locked(b)
  BY <1>1 DEF File, Locked
<1>2. CASE entry = Directory
  BY <1>2 DEF Directory
<1> QED
  BY <1>1, <1>2 DEF Entry

LEMMA ByteStrings ==
    ASSUME NEW bytes
    PROVE  bytes \in ByteSeq <=> bytes \in Seq(Byte) /\ Len(bytes) <= MaxLength
<1>1. ASSUME bytes \in ByteSeq PROVE bytes \in Seq(Byte) /\ Len(bytes) <= MaxLength
  <2>1. PICK n \in 0 .. MaxLength : bytes \in [1 .. n -> Byte]
    BY <1>1 DEF ByteSeq
  <2>2. bytes \in Seq(Byte)
    BY <2>1, BufferAssumption, SeqDef
  <2>3. Len(bytes) \in Nat /\ 1 .. Len(bytes) = 1 .. n
    BY <2>1, <2>2, LenProperties
  <2>4. Len(bytes) = n
    BY <2>1, <2>3
  <2> QED
    BY <2>1, <2>2, <2>4
<1>2. ASSUME bytes \in Seq(Byte), Len(bytes) <= MaxLength PROVE bytes \in ByteSeq
  <2>1. Len(bytes) \in 0 .. MaxLength /\ bytes \in [1 .. Len(bytes) -> Byte]
    BY <1>2, BufferAssumption, LenProperties
  <2> QED
    BY <2>1 DEF ByteSeq
<1> QED
  BY <1>1, <1>2

(* What a file holds that can be opened.                                   *)
LEMMA FileBytes ==
    ASSUME NEW files \in [Inode -> Entry], NEW inode \in Inode,
           files[inode].kind = "file"
    PROVE  /\ files[inode].bytes \in ByteSeq
           /\ files[inode].bytes \in Seq(Byte) /\ Len(files[inode].bytes) \in 0 .. MaxLength
<1>1. files[inode].bytes \in ByteSeq
  BY EntryType, BufferAssumption
<1> QED
  BY <1>1, ByteStrings

LEMMA OpenedBuffer ==
    ASSUME DiskType, NEW path \in Path, NEW len, NEW opened \in OpenBuffer(path, len),
           opened # None
    PROVE  /\ store[opened.inode].kind = "file"
           /\ \/ opened \in Copy /\ opened.bytes = << >>
              \/ /\ opened \in Buffer /\ opened.kind = "mapped"
                 /\ opened.len = Len(store[opened.inode].bytes)
<1>1. Exists(path) /\ At(path).kind = "file"
  BY DEF OpenBuffer
<1>2. names[path] \in Inode /\ At(path) = store[names[path]]
  BY <1>1 DEF Exists, At, DiskType
<1>3. metadata_len(path) \in 0 .. MaxLength
  BY <1>1, <1>2, FileBytes DEF DiskType, metadata_len
<1>4. CASE opened = Reading(names[path], << >>)
  <2>1. << >> \in Seq(Byte) /\ Len(<< >>) <= MaxLength
    BY BufferAssumption
  <2>2. << >> \in ByteSeq
    BY <2>1, ByteStrings
  <2> QED
    BY <1>1, <1>2, <1>4, <2>2 DEF Reading, Copy
<1>5. CASE opened = Mapped(names[path], metadata_len(path))
  BY <1>1, <1>2, <1>3, <1>5 DEF Mapped, Buffer, metadata_len
<1> QED
  BY <1>1, <1>4, <1>5 DEF OpenBuffer

-----------------------------------------------------------------------------
(* Sequences *)

(* A sequence of records between brackets is an array.                     *)
LEMMA Bracketed ==
    ASSUME NEW pieces, Open \in pieces, Close \in pieces, NEW records \in Seq(pieces),
           \A r \in 1 .. Len(records) : records[r].piece = "record"
    PROVE  LET s == << Open >> \o records \o << Close >>
           IN s \in Seq(pieces) /\ IsArray(s)
<1> DEFINE s == << Open >> \o records \o << Close >>
<1>1. PICK n \in Nat : n = Len(records)
  OBVIOUS
<1>2. << Open >> \in Seq(pieces) /\ << Close >> \in Seq(pieces)
  OBVIOUS
<1>3. /\ s \in Seq(pieces) /\ Len(s) = n + 2 /\ s[1] = Open /\ s[n + 2] = Close
      /\ \A i \in 2 .. (n + 1) : s[i] = records[i - 1]
  BY <1>1, <1>2
<1>4. \A i \in 2 .. (n + 1) : i - 1 \in 1 .. n
  OBVIOUS
<1> HIDE DEF s
<1>5. IsArray(s)
  BY <1>1, <1>3, <1>4 DEF IsArray
<1> QED
  BY <1>3, <1>5 DEF s

(* Pieces around the records of the rows.                                  *)
LEMMA Framed ==
    ASSUME NEW pieces, NEW front \in Seq(pieces), NEW records \in Seq(pieces),
           NEW back \in Seq(pieces),
           \A i \in 1 .. Len(front) : front[i].piece # "record",
           \A i \in 1 .. Len(back) : back[i].piece # "record",
           \A r \in 1 .. Len(records) : records[r].piece = "record"
    PROVE  LET s == front \o records \o back
           IN s \in Seq(pieces) /\ Holds(s, Len(front), records)
<1> DEFINE s == front \o records \o back
<1>1. PICK m \in Nat : m = Len(front)
  OBVIOUS
<1>2. PICK n \in Nat : n = Len(records)
  OBVIOUS
<1>3. PICK k \in Nat : k = Len(back)
  OBVIOUS
<1>4. /\ s \in Seq(pieces) /\ Len(s) = m + n + k
      /\ \A i \in 1 .. m : s[i] = front[i]
      /\ \A i \in (m + 1) .. (m + n) : s[i] = records[i - m]
      /\ \A i \in (m + n + 1) .. (m + n + k) : s[i] = back[i - (m + n)]
  BY <1>1, <1>2, <1>3
<1> HIDE DEF s
<1>5. ASSUME NEW i \in 1 .. Len(s)
      PROVE  s[i].piece = "record" <=> i \in (m + 1) .. (m + n)
  <2>1. CASE i \in 1 .. m
    BY <1>1, <1>4, <2>1
  <2>2. CASE i \in (m + 1) .. (m + n)
    <3>1. i - m \in 1 .. n
      BY <2>2
    <3> QED BY <1>2, <1>4, <2>2, <3>1
  <2>3. CASE i \in (m + n + 1) .. (m + n + k)
    <3>1. i - (m + n) \in 1 .. k
      BY <2>3
    <3> QED BY <1>3, <1>4, <2>3, <3>1
  <2> QED BY <1>4, <2>1, <2>2, <2>3
<1>6. ASSUME NEW r \in 1 .. n PROVE s[m + r] = records[r]
  <2>1. m + r \in (m + 1) .. (m + n) /\ (m + r) - m = r
    OBVIOUS
  <2> QED BY <1>4, <2>1
<1>7. m \in Nat /\ m + n <= Len(s)
  BY <1>4
<1> QED BY <1>1, <1>2, <1>4, <1>5, <1>6, <1>7 DEF Holds, s

(* What moves from the head of the rest to the end of what is written      *)
(* leaves the whole as it was.                                             *)
LEMMA PieceMoves ==
    ASSUME NEW pieces, NEW s, Splits(pieces, s), output # << >>,
           stdout' = Append(stdout, Head(output)), output' = Tail(output)
    PROVE  Splits(pieces, s)'
<1>1. /\ stdout \in Seq(pieces) /\ output \in Seq(pieces)
      /\ Len(stdout) \in Nat /\ Len(output) \in Nat \ {0}
  BY DEF Splits
<1>2. PICK m \in Nat : m = Len(stdout)
  BY <1>1
<1>3. PICK n \in Nat \ {0} : n = Len(output)
  BY <1>1
<1>4. output[1] = Head(output) /\ Head(output) \in pieces /\ output[1] = s[m + 1]
  BY <1>1, <1>2, <1>3 DEF Splits
<1>5. /\ stdout' \in Seq(pieces) /\ Len(stdout') = m + 1
      /\ \A i \in 1 .. m : stdout'[i] = stdout[i]
      /\ stdout'[m + 1] = Head(output)
  BY <1>1, <1>2, <1>4
<1>6. /\ output' \in Seq(pieces) /\ Len(output') = n - 1
      /\ \A i \in 1 .. (n - 1) : output'[i] = output[i + 1]
  BY <1>1, <1>3
<1>7. ASSUME NEW i \in 1 .. Len(stdout') PROVE stdout'[i] = s[i]
  <2>1. CASE i \in 1 .. m
    BY <1>2, <1>5, <2>1 DEF Splits
  <2>2. CASE i = m + 1
    BY <1>4, <1>5, <2>2
  <2> QED
    BY <1>5, <2>1, <2>2
<1>8. ASSUME NEW i \in 1 .. Len(output') PROVE output'[i] = s[Len(stdout') + i]
  <2>1. i + 1 \in 1 .. n /\ i \in 1 .. (n - 1) /\ m + (i + 1) = (m + 1) + i
    BY <1>6
  <2>2. output[i + 1] = s[m + (i + 1)]
    BY <1>2, <1>3, <2>1 DEF Splits
  <2> QED
    BY <1>5, <1>6, <2>1, <2>2
<1>9. Len(stdout') + Len(output') = Len(s)
  BY <1>2, <1>3, <1>5, <1>6 DEF Splits
<1>10. s \in Seq(pieces)
  BY DEF Splits
<1> QED
  BY <1>5, <1>6, <1>7, <1>8, <1>9, <1>10 DEF Splits

(* An output that nothing is written of yet.                               *)
LEMMA NothingWritten ==
    ASSUME NEW pieces, output' \in Seq(pieces), stdout' = << >>
    PROVE  \E s : s = output' /\ Splits(pieces, s)'
<1>1. PICK s : s = output'
  OBVIOUS
<1>2. Len(s) \in Nat /\ << >> \in Seq(pieces) /\ Len(stdout') = 0
  BY <1>1
<1>3. \A i \in 1 .. Len(stdout') : stdout'[i] = s[i]
  BY <1>2
<1>4. \A i \in 1 .. Len(output') : output'[i] = s[Len(stdout') + i]
  BY <1>1, <1>2
<1>5. Splits(pieces, s)'
  BY <1>1, <1>2, <1>3, <1>4 DEF Splits
<1> QED BY <1>1, <1>5

-----------------------------------------------------------------------------
(* Previews *)

(* A set of natural numbers with the predecessor of each of its members,   *)
(* but without 0, is empty.                                                *)
LEMMA NatLeast ==
    ASSUME NEW T, T \subseteq Nat, 0 \notin T,
           \A m \in Nat : m + 1 \in T => m \in T
    PROVE  T = {}
<1> SUFFICES ASSUME T # {} PROVE FALSE
  OBVIOUS
<1> DEFINE R == {ss \in Nat \X Nat : ss[1] < ss[2]}
<1>1. ~ \E f \in [Nat -> Nat] : \A n \in Nat : <<f[n + 1], f[n]>> \in R
  BY NatLessThanWellFounded, Zenon DEF OpToRel, IsWellFoundedOn
<1>2. IsWellFoundedOn(R, Nat)
  BY <1>1 DEF IsWellFoundedOn
<1>3. PICK m \in T : \A t \in T : ~ (<<t, m>> \in R)
  BY <1>2, WFMin
<1>4. m - 1 \in Nat /\ (m - 1) + 1 = m
  BY <1>3
<1>5. m - 1 \in T
  BY <1>4
<1>6. <<m - 1, m>> \in Nat \X Nat /\ <<m - 1, m>>[1] < <<m - 1, m>>[2]
  BY <1>4
<1>7. <<m - 1, m>> \in R
  BY <1>6, Zenon
<1> HIDE DEF R
<1> QED BY <1>3, <1>5, <1>7

IsTotals(f, lengths, n) ==
    f = [k \in 0 .. n |-> IF k = 0 THEN 0 ELSE f[k - 1] + lengths[k]]

LEMMA TotalsAreDefined ==
    ASSUME NEW lengths PROVE \A n \in Nat : \E f : IsTotals(f, lengths, n)
<1> DEFINE T == {n \in Nat : ~ \E f : IsTotals(f, lengths, n)}
<1>1. 0 \notin T
  <2>1. IsTotals([k \in 0 .. 0 |-> 0], lengths, 0)
    BY DEF IsTotals
  <2> QED BY <2>1
<1>2. ASSUME NEW m \in Nat, m \notin T PROVE m + 1 \notin T
  <2>1. PICK f : IsTotals(f, lengths, m)
    BY <1>2
  <2> DEFINE g == [k \in 0 .. (m + 1) |-> IF k = m + 1 THEN f[m] + lengths[m + 1] ELSE f[k]]
  <2>2. \A k \in 0 .. m : f[k] = IF k = 0 THEN 0 ELSE f[k - 1] + lengths[k]
    BY <2>1 DEF IsTotals
  <2>3. ASSUME NEW k \in 0 .. (m + 1)
        PROVE  g[k] = IF k = 0 THEN 0 ELSE g[k - 1] + lengths[k]
    <3>1. CASE k = 0
      BY <2>2, <3>1
    <3>2. CASE k # 0
      <4>1. k - 1 \in 0 .. (m + 1) /\ g[k - 1] = f[k - 1]
        BY <3>2
      <4> QED BY <2>2, <3>2, <4>1
    <3> QED BY <3>1, <3>2
  <2>4. g = [k \in 0 .. (m + 1) |-> g[k]]
    OBVIOUS
  <2> HIDE DEF g
  <2>5. IsTotals(g, lengths, m + 1)
    BY <2>3, <2>4, Zenon DEF IsTotals
  <2> QED BY <2>5
<1> HIDE DEF T
<1>3. T = {}
  BY <1>1, <1>2, NatLeast DEF T
<1> QED BY <1>3 DEF T

LEMMA TotalsAdd ==
    ASSUME NEW lengths, NEW n \in Nat
    PROVE  /\ Totals(lengths, n)[0] = 0
           /\ \A k \in 1 .. n :
                 Totals(lengths, n)[k] = Totals(lengths, n)[k - 1] + lengths[k]
<1> DEFINE sum[k \in 0 .. n] == IF k = 0 THEN 0 ELSE sum[k - 1] + lengths[k]
<1>1. Totals(lengths, n) = sum
  BY DEF Totals
<1>2. sum = CHOOSE f : IsTotals(f, lengths, n)
  BY DEF IsTotals
<1> HIDE DEF sum
<1>3. IsTotals(sum, lengths, n)
  BY <1>2, TotalsAreDefined
<1>4. \A k \in 0 .. n : sum[k] = IF k = 0 THEN 0 ELSE sum[k - 1] + lengths[k]
  BY <1>3 DEF IsTotals
<1> QED BY <1>1, <1>4

(* A replacement character is at least as wide as the bytes it stands for. *)
LEMMA WiderThanRaw ==
    ASSUME NEW text \in Seq(Char)
    PROVE  /\ \A k \in 0 .. Len(text) : Widths(text)[k] \in Nat
           /\ \A k \in 1 .. Len(text) :
                 Widths(text)[k] = Widths(text)[k - 1] + text[k].width
           /\ Widths(text)[0] = 0
           /\ RawLength(text) <= Widths(text)[Len(text)] /\ RawLength(text) \in Nat
<1> DEFINE widths == [k \in 1 .. Len(text) |-> text[k].width]
           raws == [k \in 1 .. Len(text) |-> text[k].raw]
           W == Totals(widths, Len(text))
           R == Totals(raws, Len(text))
<1>1. \A ch \in Char : ch.width \in Nat /\ ch.raw \in Nat /\ ch.raw <= ch.width
  BY DEF Char
<1>2. PICK n \in Nat : n = Len(text)
  OBVIOUS
<1>3. \A k \in 1 .. n : /\ widths[k] = text[k].width /\ raws[k] = text[k].raw
                        /\ widths[k] \in Nat /\ raws[k] \in Nat /\ raws[k] <= widths[k]
  BY <1>1, <1>2
<1>4. Widths(text) = W /\ RawLength(text) = R[n]
  BY <1>2 DEF Widths, RawLength
<1>5. /\ W[0] = 0 /\ \A k \in 1 .. n : W[k] = W[k - 1] + widths[k]
      /\ R[0] = 0 /\ \A k \in 1 .. n : R[k] = R[k - 1] + raws[k]
  <2> HIDE DEF widths, raws
  <2> QED BY <1>2, TotalsAdd
<1> HIDE DEF W, R, widths, raws
<1> DEFINE T == {k \in Nat : k <= n /\ ~(W[k] \in Nat /\ R[k] \in Nat /\ R[k] <= W[k])}
<1>6. 0 \notin T
  BY <1>5
<1>7. ASSUME NEW k \in Nat, k \notin T PROVE k + 1 \notin T
  <2> SUFFICES ASSUME k + 1 <= n
               PROVE  W[k + 1] \in Nat /\ R[k + 1] \in Nat /\ R[k + 1] <= W[k + 1]
    OBVIOUS
  <2>1. W[k] \in Nat /\ R[k] \in Nat /\ R[k] <= W[k]
    BY <1>7
  <2>2. k + 1 \in 1 .. n /\ (k + 1) - 1 = k
    OBVIOUS
  <2>3. W[k + 1] = W[k] + widths[k + 1] /\ R[k + 1] = R[k] + raws[k + 1]
    BY <1>5, <2>2
  <2> QED BY <1>3, <2>1, <2>2, <2>3
<1> HIDE DEF T
<1>8. T = {}
  BY <1>6, <1>7, NatLeast DEF T
<1>9. \A k \in 0 .. n : W[k] \in Nat /\ R[k] \in Nat /\ R[k] <= W[k]
  BY <1>8 DEF T
<1> QED BY <1>2, <1>3, <1>4, <1>5, <1>9

IsKept(f, text, max, n) ==
    f = [k \in 0 .. n |-> IF k = 0 THEN KeptNothing ELSE Keep(f[k - 1], text[k], max)]

LEMMA KeptIsDefined ==
    ASSUME NEW text, NEW max PROVE \A n \in Nat : \E f : IsKept(f, text, max, n)
<1> DEFINE T == {n \in Nat : ~ \E f : IsKept(f, text, max, n)}
<1>1. 0 \notin T
  <2>1. IsKept([k \in 0 .. 0 |-> KeptNothing], text, max, 0)
    BY DEF IsKept
  <2> QED BY <2>1
<1>2. ASSUME NEW m \in Nat, m \notin T PROVE m + 1 \notin T
  <2>1. PICK f : IsKept(f, text, max, m)
    BY <1>2
  <2> DEFINE g == [k \in 0 .. (m + 1) |->
                     IF k = m + 1 THEN Keep(f[m], text[m + 1], max) ELSE f[k]]
  <2>2. \A k \in 0 .. m :
           f[k] = IF k = 0 THEN KeptNothing ELSE Keep(f[k - 1], text[k], max)
    BY <2>1 DEF IsKept
  <2>3. ASSUME NEW k \in 0 .. (m + 1)
        PROVE  g[k] = IF k = 0 THEN KeptNothing ELSE Keep(g[k - 1], text[k], max)
    <3>1. CASE k = 0
      BY <2>2, <3>1
    <3>2. CASE k # 0
      <4>1. k - 1 \in 0 .. (m + 1) /\ g[k - 1] = f[k - 1]
        BY <3>2
      <4> QED BY <2>2, <3>2, <4>1
    <3> QED BY <3>1, <3>2
  <2>4. g = [k \in 0 .. (m + 1) |-> g[k]]
    OBVIOUS
  <2> HIDE DEF g
  <2>5. IsKept(g, text, max, m + 1)
    BY <2>3, <2>4, Zenon DEF IsKept
  <2> QED BY <2>5
<1> HIDE DEF T
<1>3. T = {}
  BY <1>1, <1>2, NatLeast DEF T
<1> QED BY <1>3 DEF T

(* While the loop is open it has kept every character, and all of them     *)
(* fit; once it is not, it has kept as many as fit.                        *)
Fitting(kept, text, max, k) ==
    /\ kept.shown \in 0 .. k /\ kept.used = Widths(text)[kept.shown]
    /\ kept.used <= max
    /\ IF kept.open THEN kept.shown = k
       ELSE kept.shown < k /\ Widths(text)[kept.shown + 1] > max

LEMMA KeepFits ==
    ASSUME NEW text \in Seq(Char), NEW max \in Nat, NEW k \in Nat, k + 1 <= Len(text),
           NEW kept, Fitting(kept, text, max, k)
    PROVE  Fitting(Keep(kept, text[k + 1], max), text, max, k + 1)
<1>1. PICK n \in Nat : n = Len(text)
  OBVIOUS
<1>2. PICK W : W = Widths(text)
  OBVIOUS
<1>3. /\ \A j \in 0 .. n : W[j] \in Nat
      /\ \A j \in 1 .. n : W[j] = W[j - 1] + text[j].width
  BY <1>1, <1>2, WiderThanRaw
<1>4. PICK s \in 0 .. k : s = kept.shown
  BY DEF Fitting
<1>5. /\ kept.used = W[s] /\ W[s] <= max
      /\ IF kept.open THEN s = k ELSE s < k /\ W[s + 1] > max
  BY <1>2, <1>4 DEF Fitting
<1>6. W[k + 1] = W[k] + text[k + 1].width /\ W[k] \in Nat /\ W[k + 1] \in Nat
  <2>1. k + 1 \in 1 .. n /\ (k + 1) - 1 = k /\ k \in 0 .. n /\ k + 1 \in 0 .. n
    BY <1>1
  <2>2. W[k + 1] = W[(k + 1) - 1] + text[k + 1].width
    BY <1>3, <2>1
  <2> QED BY <1>3, <2>1, <2>2
<1> DEFINE new == Keep(kept, text[k + 1], max)
<1>7. CASE kept.open /\ W[k + 1] <= max
  <2>2. new.shown = k + 1 /\ new.used = W[k + 1] /\ new.open
    BY <1>4, <1>5, <1>6, <1>7 DEF Keep
  <2> HIDE DEF new
  <2>3. Fitting(new, text, max, k + 1)
    BY <1>2, <1>7, <2>2 DEF Fitting
  <2> QED BY <2>3 DEF new
<1>8. CASE ~(kept.open /\ W[k + 1] <= max)
  <2>2. new.shown = s /\ new.used = W[s] /\ ~new.open
    BY <1>4, <1>5, <1>6, <1>8 DEF Keep
  <2> HIDE DEF new
  <2>3. s < k + 1 /\ W[s + 1] > max
    BY <1>4, <1>5, <1>6, <1>8
  <2>4. Fitting(new, text, max, k + 1)
    BY <1>2, <1>4, <1>5, <2>2, <2>3 DEF Fitting
  <2> QED BY <2>4 DEF new
<1> QED BY <1>7, <1>8

(* Of a text that is too long as many characters are shown as fit.         *)
LEMMA PreviewFits ==
    ASSUME NEW text \in Seq(Char), NEW max \in Nat, RawLength(text) > max
    PROVE  LET shown == render_ascii_preview(text, max)
           IN /\ shown \in Nat /\ shown < Len(text)
              /\ Widths(text)[shown] <= max /\ Widths(text)[shown + 1] > max
<1>1. PICK n \in Nat : n = Len(text)
  OBVIOUS
<1> DEFINE after[k \in 0 .. n] ==
             IF k = 0 THEN KeptNothing ELSE Keep(after[k - 1], text[k], max)
<1>2. render_ascii_preview(text, max) = after[n].shown
  BY <1>1 DEF render_ascii_preview
<1>3. after = CHOOSE f : IsKept(f, text, max, n)
  BY DEF IsKept
<1> HIDE DEF after
<1>4. IsKept(after, text, max, n)
  BY <1>3, KeptIsDefined
<1>5. \A k \in 0 .. n :
         after[k] = IF k = 0 THEN KeptNothing ELSE Keep(after[k - 1], text[k], max)
  BY <1>4 DEF IsKept
<1> DEFINE T == {k \in Nat : k <= n /\ ~Fitting(after[k], text, max, k)}
<1>6. 0 \notin T
  <2>1. after[0] = KeptNothing /\ Widths(text)[0] = 0
    BY <1>5, WiderThanRaw
  <2>2. after[0].used = 0 /\ after[0].shown = 0 /\ after[0].open
    BY <2>1 DEF KeptNothing
  <2> QED BY <2>1, <2>2 DEF Fitting
<1>7. ASSUME NEW k \in Nat, k \notin T PROVE k + 1 \notin T
  <2> SUFFICES ASSUME k + 1 <= n PROVE Fitting(after[k + 1], text, max, k + 1)
    OBVIOUS
  <2>1. Fitting(after[k], text, max, k)
    BY <1>7
  <2>2. after[k + 1] = Keep(after[k], text[k + 1], max)
    <3>1. k + 1 \in 0 .. n /\ k + 1 # 0 /\ (k + 1) - 1 = k
      OBVIOUS
    <3> QED BY <1>5, <3>1
  <2> QED BY <1>1, <2>1, <2>2, KeepFits
<1> HIDE DEF T
<1>8. T = {}
  BY <1>6, <1>7, NatLeast DEF T
<1>9. Fitting(after[n], text, max, n)
  BY <1>8 DEF T
<1>10. Widths(text)[n] > max
  <2>1. n \in 0 .. n
    OBVIOUS
  <2> QED BY <1>1, <2>1, WiderThanRaw
<1>11. PICK s \in 0 .. n : s = after[n].shown
  BY <1>9 DEF Fitting
<1>12. Widths(text)[s] <= max /\ s < n /\ Widths(text)[s + 1] > max
  <2>1. Widths(text)[s] <= max /\ (s = n \/ (s < n /\ Widths(text)[s + 1] > max))
    BY <1>9, <1>11 DEF Fitting
  <2>2. Widths(text)[n] \in Nat
    <3>1. n \in 0 .. n
      OBVIOUS
    <3> QED BY <1>1, <3>1, WiderThanRaw
  <2> QED BY <1>10, <2>1, <2>2
<1> QED BY <1>1, <1>2, <1>11, <1>12

-----------------------------------------------------------------------------
(* The steps *)

LEMMA InitInv == Init => Inv
<1> SUFFICES ASSUME Init PROVE Inv
  OBVIOUS
<1>1. DiskType
  BY DEF Init, DiskInit, DiskType
<1>2. Progress
  BY DEF Init, Progress
<1>3. ReadInv
  BY StatusAssumption
     DEF Init, ReadInv, Backed, Remembered, HeldNow, Copied, Loaded, SeenInv, Interpreted,
         Killed
<1>4. OutputInv /\ RowsType
  BY StatusAssumption DEF Init, OutputInv, Silent, RowsType
<1> QED
  BY <1>1, <1>2, <1>3, <1>4 DEF Inv

Holding == held' = held \cup HeldNow'

Unseen == UNCHANGED disk /\ Holding

(* What is remembered is what files held.                                  *)
LEMMA RememberedAgain ==
    ASSUME Inv, Holding, DiskType', Progress', Backed'
    PROVE  Remembered' /\ held \subseteq held'
<1>1. HeldNow' \subseteq ByteSeq
  <2> SUFFICES ASSUME pc' \in {"read", "schema", "interpret"}, buffer'.kind # "memory"
               PROVE  store'[buffer'.inode].bytes \in ByteSeq
    BY DEF HeldNow
  <2>1. buffer' \in Copy \/ buffer' \in Buffer
    BY DEF Progress
  <2>2. buffer'.inode \in Inode
    BY <2>1 DEF Copy, Buffer
  <2> QED
    BY <2>2, FileBytes DEF Backed, DiskType
<1> QED
  BY <1>1 DEF Holding, Inv, ReadInv, Remembered

(* More contents to remember change nothing of what was read.              *)
LEMMA ReadAlready ==
    ASSUME Inv, UNCHANGED <<buffer, schema, seen, rows>>, held \subseteq held',
           pc' = "read" => pc = "read",
           pc' \in {"schema", "interpret"} => pc \in {"schema", "interpret"},
           pc' = "interpret" => pc = "interpret" \/ seen = << >>,
           Interpreted' => Interpreted, exit' = Killed => exit = Killed
    PROVE  Copied' /\ Loaded' /\ SeenInv'
<1>1. \A i, byte : Was(i, byte) => Was(i, byte)'
  BY DEF Was
<1>2. Copied'
  BY <1>1 DEF Inv, ReadInv, Copied
<1>3. Loaded'
  <2> SUFFICES ASSUME pc' \in {"schema", "interpret"} \/ Interpreted'
               PROVE  Loaded'
    BY DEF Loaded
  <2>1. /\ buffer \in Buffer
        /\ buffer.kind = "memory" =>
              /\ \A i \in 1 .. Len(buffer.bytes) : Was(i, buffer.bytes[i])
              /\ \E bytes \in held : Len(bytes) <= Len(buffer.bytes)
        /\ buffer.kind = "mapped" => \E bytes \in held : Len(bytes) = buffer.len
    BY DEF Inv, ReadInv, Loaded
  <2> QED
    BY <1>1, <2>1 DEF Loaded
<1>4. SeenInv'
  <2>1. \A i \in DOMAIN seen : ReadFromFile(i)'
    BY DEF Inv, ReadInv, SeenInv, ReadFromFile
  <2>2. exit' = Killed =>
           buffer.kind = "mapped" /\ \E bytes \in held' : Len(bytes) < buffer.len
    BY DEF Inv, ReadInv, SeenInv
  <2>3. pc' = "interpret" \/ Interpreted' =>
          /\ DOMAIN seen \subseteq 1 .. file_size(buffer)
          /\ seen \in [DOMAIN seen -> Byte]
    <3>1. CASE pc = "interpret" \/ Interpreted
      BY <3>1 DEF Inv, ReadInv, SeenInv
    <3>2. CASE seen = << >>
      BY <3>2
    <3> QED
      BY <3>1, <3>2
  <2>4. Interpreted' =>
          DOMAIN seen = 1 .. file_size(buffer) /\ rows = Interpretation[schema][seen]
    BY DEF Inv, ReadInv, SeenInv
  <2> QED
    BY <2>1, <2>2, <2>3, <2>4 DEF SeenInv, file_size
<1> QED
  BY <1>2, <1>3, <1>4

LEMMA SameOutput ==
    ASSUME UNCHANGED <<cli, rows>>, NEW s, IsOutput(s) PROVE IsOutput(s)'
<1>1. Records' = Records
  BY DEF Records, Shown
<1>2. PICK before : Holds(s, before, Records)
  BY DEF IsOutput
<1>3. Holds(s, before, Records')
  BY <1>1, <1>2
<1> QED
  BY <1>3 DEF IsOutput, IsArray, Open, Close

LEMMA ParseArgumentsInv ==
    ASSUME Inv, ParseArguments, Unseen
    PROVE  Inv'
<1> USE DEF Unseen, disk, Exit
<1>1. cli' = cli /\ cli \in Cli
  BY CommandLineAssumption DEF Inv, Progress, ParseArguments
<1>2. DiskType' /\ Backed' /\ RowsType'
  BY DEF Inv, DiskType, Backed, RowsType, ParseArguments
<1>3. Progress'
  BY <1>1 DEF Inv, Progress, Cli, ParseArguments
<1>4. exit = None /\ stdout' = << >> /\ rows' = << >>
  BY DEF Inv, Progress, ParseArguments
<1>5. ASSUME pc' # "write" PROVE OutputInv'
  BY <1>4, <1>5, StatusAssumption DEF ParseArguments, OutputInv, Silent, Inv
<1>6. ASSUME pc' = "write" PROVE OutputInv'
  <2>1. output' = << Banner, Version >> /\ ~cli.json /\ exit' = None
    BY <1>4, <1>6 DEF ParseArguments
  <2>2. output' \in Seq({Banner, Version})
    BY <2>1
  <2>3. PICK s : s = output' /\ Splits({Banner, Version}, s)'
    <3>1. PICK pieces : pieces = {Banner, Version}
      OBVIOUS
    <3>2. \E s : s = output' /\ Splits(pieces, s)'
      BY <1>4, <2>2, <3>1, NothingWritten
    <3>3. PICK s : s = output' /\ Splits(pieces, s)'
      BY <3>2
    <3>4. Splits({Banner, Version}, s)'
      BY <3>1, <3>3 DEF Splits, Banner, Version
    <3> QED BY <3>3, <3>4
  <2>4. Records' = << >>
    BY <1>4 DEF Records
  <2>5. Holds(s, 2, << >>)
    BY <2>1, <2>3 DEF Holds, Banner, Version
  <2>6. IsOutput(s)'
    BY <1>1, <2>1, <2>4, <2>5 DEF IsOutput
  <2>7. \E pieces, whole : (Splits(pieces, whole) /\ IsOutput(whole))'
    <3>1. PICK pieces : pieces = {Banner, Version}
      OBVIOUS
    <3>2. Splits(pieces, s)'
      BY <2>3, <3>1 DEF Splits, Banner, Version
    <3> QED BY <2>6, <3>2
  <2> QED
    BY <1>6, <2>1, <2>7, StatusAssumption DEF OutputInv, Writing
<1>7. Remembered' /\ Copied' /\ Loaded' /\ SeenInv'
  <2>1. Remembered' /\ held \subseteq held'
    BY <1>2, <1>3, RememberedAgain
  <2>2. /\ pc = "arguments" /\ UNCHANGED <<buffer, schema, seen, rows>>
        /\ pc' \in {"done", "write", "metadata"} /\ exit' # Killed
    BY <1>4, StatusAssumption DEF ParseArguments, Killed
  <2>3. ~Interpreted'
    BY <2>2 DEF Inv, Progress, Interpreted
  <2> QED
    BY <2>1, <2>2, <2>3, ReadAlready
<1> QED
  BY <1>2, <1>3, <1>5, <1>6, <1>7 DEF Inv, ReadInv

LEMMA ReadMetadataInv ==
    ASSUME Inv, ReadMetadata, Unseen
    PROVE  Inv'
<1> USE DEF Unseen, disk, ReadMetadata, Exit
<1>1. DiskType' /\ Backed' /\ RowsType'
  BY DEF Inv, DiskType, Backed, RowsType
<1>2. Progress'
  BY DEF Inv, Progress
<1>3. OutputInv'
  BY StatusAssumption DEF Inv, Progress, OutputInv, Silent
<1>4. Remembered' /\ Copied' /\ Loaded' /\ SeenInv'
  <2>1. Remembered' /\ held \subseteq held'
    BY <1>1, <1>2, RememberedAgain
  <2>2. ~Interpreted' /\ exit' # Killed
    BY StatusAssumption DEF Inv, Progress, Interpreted, Killed
  <2> QED
    BY <2>1, <2>2, ReadAlready
<1> QED
  BY <1>1, <1>2, <1>3, <1>4 DEF Inv, ReadInv

(* A step that opens the file or reads on.                                 *)
LEMMA TakeInv ==
    ASSUME Inv, Unseen, pc \in {"open", "read"}, NEW result, Take(result),
           result # None =>
              \/ /\ result \in Copy
                 /\ store[result.inode].kind = "file"
                 /\ \A i \in 1 .. Len(result.bytes) :
                       \/ Was(i, result.bytes[i])
                       \/ /\ result.bytes[i] = store[result.inode].bytes[i]
                          /\ i <= Len(store[result.inode].bytes)
              \/ /\ result \in Buffer /\ result.kind = "memory"
                 /\ \A i \in 1 .. Len(result.bytes) : Was(i, result.bytes[i])
                 /\ \E bytes \in held : Len(bytes) <= Len(result.bytes)
              \/ /\ result \in Buffer /\ result.kind = "mapped"
                 /\ store[result.inode].kind = "file"
                 /\ result.len = Len(store[result.inode].bytes)
    PROVE  Inv'
<1>1. UNCHANGED <<cli, schema, seen, rows, output, stdout>> /\ UNCHANGED <<names, store>>
  BY DEF Take, Unseen, disk
<1>2. schema = None /\ seen = << >> /\ rows = << >> /\ stdout = << >> /\ exit = None
  BY DEF Inv, Progress
<1>3. DiskType' /\ RowsType'
  BY <1>1 DEF Inv, DiskType, RowsType
<1>4. pc' \in {"done", "read", "schema"} /\ exit' \in {None, 1}
  BY <1>2 DEF Take, Exit
<1>5. OutputInv'
  BY <1>1, <1>2, <1>4, StatusAssumption DEF OutputInv, Silent
<1>6. SeenInv' /\ ~Interpreted'
  <2>1. exit' # Killed
    BY <1>4, StatusAssumption DEF Killed
  <2> QED
    BY <1>1, <1>2, <1>4, <2>1 DEF SeenInv, Interpreted
<1>7. CASE result = None
  <2>1. pc' = "done" /\ buffer' = buffer
    BY <1>7 DEF Take, Exit
  <2>2. Progress' /\ Backed'
    BY <1>1, <2>1 DEF Inv, Progress, Backed
  <2>3. Remembered'
    BY <1>3, <2>2, RememberedAgain DEF Unseen
  <2>4. Copied' /\ Loaded'
    BY <1>6, <2>1 DEF Copied, Loaded
  <2> QED
    BY <1>3, <1>5, <1>6, <2>2, <2>3, <2>4 DEF Inv, ReadInv
<1>8. CASE result # None
  <2>1. /\ buffer' = result /\ exit' = exit
        /\ pc' = IF result.kind = "reading" THEN "read" ELSE "schema"
    BY <1>8 DEF Take
  <2>2. /\ result \in Copy => result.kind = "reading"
        /\ result \in Buffer => result.kind # "reading"
        /\ result \in Copy \/ result \in Buffer
    BY <1>8 DEF Copy, Buffer
  <2>3. Progress'
    BY <1>1, <1>2, <2>1, <2>2 DEF Inv, Progress
  <2>4. Backed'
    BY <1>1, <1>8, <2>1, <2>2 DEF Backed
  <2>5. Remembered' /\ held \subseteq held'
    BY <1>3, <2>3, <2>4, RememberedAgain DEF Unseen
  <2>6. \A i, byte : Was(i, byte) => Was(i, byte)'
    BY <2>5 DEF Was
  <2>7. result.kind # "memory" => store[result.inode].bytes \in held'
    BY <1>1, <2>1, <2>5 DEF Remembered, HeldNow
  <2>8. Copied'
    <3> SUFFICES ASSUME pc' = "read", NEW i \in 1 .. Len(result.bytes)
                 PROVE  Was(i, result.bytes[i])'
      BY <2>1 DEF Copied
    <3>1. result.kind = "reading"
      BY <2>1
    <3>2. CASE Was(i, result.bytes[i])
      BY <2>6, <3>2
    <3>3. CASE result.bytes[i] = store[result.inode].bytes[i]
               /\ i <= Len(store[result.inode].bytes)
      BY <2>7, <3>1, <3>3 DEF Was
    <3> QED
      BY <1>8, <2>2, <3>1, <3>2, <3>3
  <2>9. Loaded'
    <3>1. CASE result \in Copy
      BY <1>6, <2>1, <2>2, <3>1 DEF Loaded
    <3>2. CASE result \in Buffer /\ result.kind = "memory"
      <4>1. /\ \A i \in 1 .. Len(result.bytes) : Was(i, result.bytes[i])
            /\ \E bytes \in held : Len(bytes) <= Len(result.bytes)
        BY <1>8, <2>2, <3>2
      <4> QED
        BY <2>1, <2>5, <2>6, <3>2, <4>1 DEF Loaded
    <3>3. CASE result \in Buffer /\ result.kind = "mapped"
      <4>1. result.len = Len(store[result.inode].bytes)
        BY <1>8, <2>2, <3>3
      <4> QED
        BY <2>1, <2>7, <3>3, <4>1 DEF Loaded
    <3> QED
      BY <1>8, <3>1, <3>2, <3>3
  <2> QED
    BY <1>3, <1>5, <1>6, <2>3, <2>4, <2>5, <2>8, <2>9 DEF Inv, ReadInv
<1> QED
  BY <1>7, <1>8

LEMMA OpenFileInv ==
    ASSUME Inv, OpenFile, Unseen
    PROVE  Inv'
<1>1. PICK opened \in OpenBuffer(cli.file, size) : Take(opened)
  BY DEF OpenFile
<1>2. pc = "open" /\ cli.file \in Path
  BY DEF OpenFile, Inv, Progress
<1>3. opened # None =>
         /\ store[opened.inode].kind = "file"
         /\ \/ opened \in Copy /\ opened.bytes = << >>
            \/ /\ opened \in Buffer /\ opened.kind = "mapped"
               /\ opened.len = Len(store[opened.inode].bytes)
  BY <1>2, OpenedBuffer DEF Inv
<1> QED
  BY <1>1, <1>2, <1>3, TakeInv

LEMMA ReadFileInv ==
    ASSUME Inv, ReadFile, Unseen
    PROVE  Inv'
<1>1. PICK copy \in ReadOn(buffer) : Take(copy)
  BY DEF ReadFile
<1>2. /\ pc = "read" /\ buffer \in Copy /\ buffer.inode \in Inode
      /\ store[buffer.inode].kind = "file"
  BY DEF ReadFile, Inv, Progress, ReadInv, Backed, Copy
<1> DEFINE content == store[buffer.inode].bytes
<1>3. content \in Seq(Byte) /\ Len(content) \in 0 .. MaxLength
  BY <1>2, FileBytes DEF Inv, DiskType
<1>4. buffer.bytes \in Seq(Byte) /\ buffer.bytes \in ByteSeq
  BY <1>2, ByteStrings DEF Copy
<1>5. \A i \in 1 .. Len(buffer.bytes) : Was(i, buffer.bytes[i])
  BY <1>2 DEF Inv, ReadInv, Copied
<1>6. content \in held
  BY <1>2 DEF Inv, ReadInv, Remembered, HeldNow, Copy
<1> HIDE DEF content
<1>7. PICK n \in Nat : n = Len(buffer.bytes)
  BY <1>4
<1>8. CASE copy = Reading(buffer.inode, Append(buffer.bytes, content[n + 1]))
           /\ n < Len(content)
  <2> DEFINE bytes == Append(buffer.bytes, content[n + 1])
  <2>1. content[n + 1] \in Byte
    BY <1>3, <1>8, ElementOfSeq
  <2>2. /\ bytes \in Seq(Byte) /\ Len(bytes) = n + 1
        /\ \A i \in 1 .. n : bytes[i] = buffer.bytes[i]
        /\ bytes[n + 1] = content[n + 1]
    BY <1>4, <1>7, <2>1
  <2> HIDE DEF bytes
  <2>3. bytes \in ByteSeq
    BY <1>3, <1>8, <2>2, ByteStrings, BufferAssumption
  <2>4. copy \in Copy /\ copy.inode = buffer.inode /\ copy.bytes = bytes
    BY <1>2, <1>8, <2>3 DEF Reading, Copy, bytes
  <2>5. ASSUME NEW i \in 1 .. Len(bytes)
        PROVE  Was(i, bytes[i]) \/ (bytes[i] = content[i] /\ i <= Len(content))
    <3>1. CASE i \in 1 .. n
      BY <1>5, <1>7, <2>2, <3>1
    <3>2. CASE i = n + 1
      BY <1>3, <1>8, <2>2, <3>2
    <3> QED
      BY <2>2, <3>1, <3>2
  <2>6. \A i \in 1 .. Len(copy.bytes) :
           \/ Was(i, copy.bytes[i])
           \/ /\ copy.bytes[i] = store[copy.inode].bytes[i]
              /\ i <= Len(store[copy.inode].bytes)
    BY <2>4, <2>5 DEF content
  <2>7. store[copy.inode].kind = "file"
    BY <1>2, <2>4
  <2> QED
    BY <1>1, <1>2, <2>4, <2>6, <2>7, TakeInv
<1>9. CASE copy = InMemory(buffer.bytes) /\ ~(n < Len(content))
  <2>1. copy \in Buffer /\ copy.kind = "memory" /\ copy.bytes = buffer.bytes
    BY <1>4, <1>9 DEF InMemory, Buffer
  <2>2. \E bytes \in held : Len(bytes) <= Len(copy.bytes)
    BY <1>3, <1>6, <1>7, <1>9, <2>1
  <2> QED
    BY <1>1, <1>2, <1>5, <2>1, <2>2, TakeInv
<1>10. CASE copy = None
  BY <1>1, <1>2, <1>10, TakeInv
<1> QED
  BY <1>1, <1>7, <1>8, <1>9, <1>10 DEF ReadOn, content

LEMMA ParseSchemaInv ==
    ASSUME Inv, ParseSchema, Unseen
    PROVE  Inv'
<1> USE DEF Unseen, disk, ParseSchema, Exit
<1>1. DiskType' /\ Backed' /\ RowsType'
  BY DEF Inv, DiskType, ReadInv, Backed, RowsType
<1>2. Progress'
  BY DEF Inv, Progress
<1>3. OutputInv'
  BY StatusAssumption DEF Inv, Progress, OutputInv, Silent
<1>4. Remembered' /\ held \subseteq held'
  BY <1>1, <1>2, RememberedAgain
<1>5. exit' # Killed /\ seen' = << >> /\ ~Interpreted' /\ Copied'
  BY StatusAssumption DEF Inv, Progress, Killed, Interpreted, Copied
<1>6. SeenInv'
  BY <1>5 DEF SeenInv
<1>7. Loaded'
  <2>1. pc = "schema" /\ buffer' = buffer
    OBVIOUS
  <2>2. \A i, byte : Was(i, byte) => Was(i, byte)'
    BY <1>4 DEF Was
  <2>3. /\ buffer \in Buffer
        /\ buffer.kind = "memory" =>
              /\ \A i \in 1 .. Len(buffer.bytes) : Was(i, buffer.bytes[i])
              /\ \E bytes \in held : Len(bytes) <= Len(buffer.bytes)
        /\ buffer.kind = "mapped" => \E bytes \in held : Len(bytes) = buffer.len
    BY <2>1 DEF Inv, ReadInv, Loaded
  <2> QED
    BY <1>4, <2>1, <2>2, <2>3 DEF Loaded
<1> QED
  BY <1>1, <1>2, <1>3, <1>4, <1>5, <1>6, <1>7 DEF Inv, ReadInv

LEMMA BufferSize ==
    ASSUME NEW b \in Buffer PROVE file_size(b) \in 0 .. MaxLength
<1>1. CASE b \in [kind : {"memory"}, bytes : ByteSeq]
  <2>1. b.bytes \in Seq(Byte) /\ Len(b.bytes) <= MaxLength
    BY <1>1, ByteStrings
  <2> QED
    BY <1>1, <2>1, BufferAssumption DEF file_size
<1>2. CASE b \in [kind : {"mapped"}, inode : Inode, len : 0 .. MaxLength]
  BY <1>2 DEF file_size
<1> QED
  BY <1>1, <1>2 DEF Buffer

LEMMA ReadByteInv ==
    ASSUME Inv, ReadByte, Unseen
    PROVE  Inv'
<1>1. PICK i \in 1 .. file_size(buffer) :
         /\ i \notin DOMAIN seen
         /\ IF Faults(buffer, i) THEN Exit(Killed) /\ UNCHANGED seen
            ELSE /\ seen' = [j \in DOMAIN seen \cup {i} |->
                               IF j = i THEN ByteAt(buffer, i) ELSE seen[j]]
                 /\ UNCHANGED <<pc, exit>>
  BY DEF ReadByte
<1>2. /\ pc = "interpret" /\ UNCHANGED <<cli, buffer, schema, rows, output, stdout>>
      /\ UNCHANGED <<names, store>>
  BY DEF ReadByte, Unseen, disk
<1>3. /\ buffer \in Buffer /\ schema \in Schemas
      /\ rows = << >> /\ stdout = << >> /\ exit = None
      /\ seen \in [DOMAIN seen -> Byte] /\ DOMAIN seen \subseteq 1 .. file_size(buffer)
  BY <1>2 DEF Inv, Progress, ReadInv, SeenInv
<1>4. DiskType' /\ RowsType'
  BY <1>2 DEF Inv, DiskType, RowsType
<1>5. pc' \in {"interpret", "done"} /\ exit' \in {None, Killed}
      /\ (pc' = "done" => exit' = Killed)
  BY <1>1, <1>2, <1>3 DEF Exit
<1>6. Progress' /\ Backed'
  <2>1. cli' \in Arguments /\ Backed'
    BY <1>2, <1>5 DEF Inv, Progress, ReadInv, Backed
  <2>2. pc' = "interpret" => exit' = None
    BY <1>1, <1>2, <1>3 DEF Exit
  <2> QED
    BY <1>2, <1>3, <1>5, <2>1, <2>2 DEF Progress
<1>7. OutputInv'
  BY <1>2, <1>3, <1>5, StatusAssumption DEF OutputInv, Silent, Killed
<1>8. Remembered' /\ held \subseteq held'
  BY <1>4, <1>6, RememberedAgain DEF Unseen
<1>9. ~Interpreted' /\ Copied'
  BY <1>5 DEF Interpreted, Copied
<1>10. /\ buffer.kind = "memory" =>
             /\ \A j \in 1 .. Len(buffer.bytes) : Was(j, buffer.bytes[j])
             /\ \E bytes \in held : Len(bytes) <= Len(buffer.bytes)
       /\ buffer.kind = "mapped" => \E bytes \in held : Len(bytes) = buffer.len
  BY <1>2 DEF Inv, ReadInv, Loaded
<1>11. Loaded'
  <2>1. \A j, byte : Was(j, byte) => Was(j, byte)'
    BY <1>8 DEF Was
  <2> QED
    BY <1>2, <1>3, <1>8, <1>9, <1>10, <2>1 DEF Loaded
<1>12. buffer.kind = "mapped" =>
          /\ store[buffer.inode].bytes \in Seq(Byte) /\ store[buffer.inode].bytes \in held
          /\ Len(store[buffer.inode].bytes) \in Nat
  <2> SUFFICES ASSUME buffer.kind = "mapped"
               PROVE  /\ store[buffer.inode].bytes \in Seq(Byte)
                      /\ store[buffer.inode].bytes \in held
                      /\ Len(store[buffer.inode].bytes) \in Nat
    OBVIOUS
  <2>1. buffer.inode \in Inode /\ store[buffer.inode].kind = "file"
    BY <1>2, <1>3 DEF Buffer, Inv, ReadInv, Backed
  <2>2. store[buffer.inode].bytes \in held
    BY <1>2 DEF Inv, ReadInv, Remembered, HeldNow
  <2> QED
    BY <2>1, <2>2, FileBytes DEF Inv, DiskType
<1>13. file_size(buffer) \in Nat /\ i \in Nat \ {0}
  BY <1>3, BufferSize, BufferAssumption
<1>14. CASE Faults(buffer, i)
  <2>1. seen' = seen /\ pc' = "done" /\ exit' = Killed
    BY <1>1, <1>14 DEF Exit
  <2>2. buffer.kind = "mapped" /\ Len(store[buffer.inode].bytes) < buffer.len
    BY <1>12, <1>13, <1>14 DEF Faults, file_size
  <2>3. \A j \in DOMAIN seen : ReadFromFile(j)'
    BY <1>2, <1>8, <2>1 DEF Inv, ReadInv, SeenInv, ReadFromFile
  <2>4. SeenInv'
    BY <1>2, <1>8, <1>9, <1>12, <2>1, <2>2, <2>3 DEF SeenInv
  <2> QED
    BY <1>4, <1>6, <1>7, <1>8, <1>9, <1>11, <2>4 DEF Inv, ReadInv
<1>15. CASE ~Faults(buffer, i)
  <2>1. /\ seen' = [j \in DOMAIN seen \cup {i} |->
                      IF j = i THEN ByteAt(buffer, i) ELSE seen[j]]
        /\ pc' = pc /\ exit' = exit
    BY <1>1, <1>15
  <2>2. ByteAt(buffer, i) \in Byte
    <3>1. CASE buffer.kind = "memory"
      <4>1. buffer.bytes \in Seq(Byte) /\ i \in 1 .. Len(buffer.bytes)
        BY <1>3, <3>1, ByteStrings DEF Buffer, file_size
      <4> QED
        BY <3>1, <4>1, ElementOfSeq DEF ByteAt
    <3>2. CASE buffer.kind = "mapped"
      <4>1. i <= Len(store[buffer.inode].bytes) => store[buffer.inode].bytes[i] \in Byte
        BY <1>12, <1>13, <3>2, ElementOfSeq
      <4> QED
        BY <3>2, <4>1, BufferAssumption DEF ByteAt
    <3> QED
      BY <1>3, <3>1, <3>2 DEF Buffer
  <2>3. seen'[i] = ByteAt(buffer, i) /\ \A j \in DOMAIN seen : seen'[j] = seen[j]
    BY <1>1, <2>1
  <2>4. /\ DOMAIN seen' = DOMAIN seen \cup {i}
        /\ seen' \in [DOMAIN seen' -> Byte]
    BY <1>3, <2>1, <2>2
  <2>5. ReadFromFile(i)'
    <3>1. CASE buffer.kind = "memory"
      <4>1. i \in 1 .. Len(buffer.bytes) /\ seen'[i] = buffer.bytes[i]
        BY <2>3, <3>1 DEF ByteAt, file_size
      <4>2. PICK bytes \in held : i <= Len(bytes) /\ bytes[i] = buffer.bytes[i]
        BY <1>10, <3>1, <4>1 DEF Was
      <4> QED
        BY <1>8, <4>1, <4>2 DEF ReadFromFile
    <3>2. CASE buffer.kind = "mapped"
      <4>1. store[buffer.inode].bytes \in held'
        BY <1>8, <1>12, <3>2
      <4> QED
        BY <1>2, <2>3, <3>2, <4>1 DEF ReadFromFile, ByteAt
    <3> QED
      BY <1>3, <3>1, <3>2 DEF Buffer
  <2>6. ASSUME NEW j \in DOMAIN seen PROVE ReadFromFile(j)'
    <3>1. PICK bytes \in held :
             IF j <= Len(bytes) THEN seen[j] = bytes[j]
             ELSE buffer.kind = "mapped" /\ seen[j] = 0
      BY DEF Inv, ReadInv, SeenInv, ReadFromFile
    <3> QED
      BY <1>2, <1>8, <2>3, <3>1 DEF ReadFromFile
  <2>7. \A j \in DOMAIN seen' : ReadFromFile(j)'
    BY <2>4, <2>5, <2>6
  <2>8. exit' # Killed
    BY <1>3, <2>1, StatusAssumption DEF Killed
  <2>9. DOMAIN seen' \subseteq 1 .. file_size(buffer')
    BY <1>2, <1>3, <2>4
  <2>10. SeenInv'
    BY <1>9, <2>4, <2>7, <2>8, <2>9 DEF SeenInv
  <2> QED
    BY <1>4, <1>6, <1>7, <1>8, <1>9, <1>11, <2>10 DEF Inv, ReadInv
<1> QED
  BY <1>14, <1>15

(* The records of the rows with their frame, none of it written yet.       *)
LEMMA InterpretWrites ==
    ASSUME Inv, Interpret, RowsType', pc' = "write", output' = Output
    PROVE  \E pieces, s : (Splits(pieces, s) /\ IsOutput(s))'
<1>1. PICK n \in Nat : n = Len(rows')
  BY DEF RowsType
<1>2. cli' = cli /\ stdout' = << >>
  BY DEF Interpret, Inv, Progress
<1> DEFINE record(r) == IF cli.json THEN JsonRecord(r) ELSE TableRecord(r)
           records == [r \in 1 .. n |-> record(r)]
           front == IF cli.json THEN << Open >>
                    ELSE (IF cli.branding THEN << Banner, Version >> ELSE << >>)
                         \o << Header >>
           back == IF cli.json THEN << Close >> ELSE << >>
           pieces == {Open, Close, Banner, Version, Header} \cup {record(r) : r \in 1 .. n}
<1>3. records \in Seq(pieces) /\ Len(records) = n
  OBVIOUS
<1>4. \A r \in 1 .. n : records[r].piece = "record"
  BY DEF JsonRecord, TableRecord, Record
<1>5. Records' = records
  <2>1. \A r \in 1 .. n : Shown(r)' = record(r)
    BY <1>1, <1>2 DEF Shown, JsonRecord, TableRecord, Record
  <2> QED BY <1>1, <2>1 DEF Records
<1>6. front \in Seq(pieces) /\ back \in Seq(pieces)
  <2>1. {Open, Close, Banner, Version, Header} \subseteq pieces
    OBVIOUS
  <2> HIDE DEF pieces
  <2>2. << Open >> \in Seq(pieces) /\ << Close >> \in Seq(pieces)
        /\ << >> \in Seq(pieces) /\ << Banner, Version >> \in Seq(pieces)
        /\ << Header >> \in Seq(pieces)
    BY <2>1
  <2>3. \A x, y \in Seq(pieces) : x \o y \in Seq(pieces)
    OBVIOUS
  <2> QED BY <2>2, <2>3
<1>7. \A i \in 1 .. Len(front) : front[i].piece # "record"
  BY DEF Open, Banner, Version, Header
<1>8. \A i \in 1 .. Len(back) : back[i].piece # "record"
  BY DEF Close
<1>9. output' = front \o records \o back
  <2>1. CASE cli.json
    BY <1>1, <2>1 DEF Output
  <2>2. CASE ~cli.json
    <3>1. output' = front \o records
      BY <1>1, <2>2 DEF Output
    <3>2. back = << >>
      BY <2>2
    <3> HIDE DEF front, records, back, pieces
    <3> QED BY <1>3, <1>6, <3>1, <3>2
  <2> QED BY <2>1, <2>2
<1>10. cli.json => front = << Open >> /\ back = << Close >> /\ Open \in pieces
                   /\ Close \in pieces
  OBVIOUS
<1> HIDE DEF record, records, front, back, pieces
<1>11. output' \in Seq(pieces) /\ Holds(output', Len(front), records)
  BY <1>3, <1>4, <1>6, <1>7, <1>8, <1>9, Framed
<1>12. cli.json => IsArray(output')
  BY <1>3, <1>4, <1>9, <1>10, Bracketed
<1>13. PICK kinds : kinds = pieces
  OBVIOUS
<1>14. PICK s : s = output' /\ Splits(kinds, s)'
  BY <1>2, <1>11, <1>13, NothingWritten
<1>15. \E before : Holds(s, before, Records)'
  <2>1. PICK before : before = Len(front)
    OBVIOUS
  <2>2. Holds(s, before, Records')
    BY <1>5, <1>11, <1>14, <2>1
  <2> QED BY <2>2
<1>16. IsOutput(s)'
  BY <1>2, <1>12, <1>14, <1>15 DEF IsOutput, IsArray, Open, Close
<1> QED
  BY <1>14, <1>16

LEMMA InterpretInv ==
    ASSUME Inv, Interpret, Unseen
    PROVE  Inv'
<1>1. /\ pc = "interpret" /\ pc' = "write"
      /\ UNCHANGED <<cli, size, buffer, schema, seen, stdout, exit>>
      /\ UNCHANGED <<names, store>>
      /\ DOMAIN seen = 1 .. file_size(buffer)
      /\ rows' = Interpretation[schema][seen] /\ output' = Output
  BY DEF Interpret, Unseen, disk
<1>2. /\ schema \in Schemas /\ buffer \in Buffer
      /\ rows = << >> /\ stdout = << >> /\ exit = None
      /\ seen \in [DOMAIN seen -> Byte]
  BY <1>1 DEF Inv, Progress, ReadInv, SeenInv
<1>3. DiskType' /\ Backed'
  BY <1>1 DEF Inv, DiskType, Backed
<1>4. seen \in ByteSeq
  BY <1>1, <1>2, BufferSize DEF ByteSeq
<1>5. RowsType'
  BY <1>1, <1>2, <1>4, CommandLineAssumption DEF RowsType
<1>6. OutputInv'
  <2>1. \E pieces, s : (Splits(pieces, s) /\ IsOutput(s))'
    BY <1>1, <1>5, InterpretWrites
  <2> QED
    BY <1>1, <1>2, <2>1, StatusAssumption DEF OutputInv, Writing
<1>7. Progress'
  BY <1>1 DEF Inv, Progress
<1>8. Remembered' /\ held \subseteq held'
  BY <1>3, <1>7, RememberedAgain DEF Unseen
<1>9. Copied'
  BY <1>1 DEF Copied
<1>10. Loaded'
  <2>1. /\ buffer.kind = "memory" =>
              /\ \A i \in 1 .. Len(buffer.bytes) : Was(i, buffer.bytes[i])
              /\ \E bytes \in held : Len(bytes) <= Len(buffer.bytes)
        /\ buffer.kind = "mapped" => \E bytes \in held : Len(bytes) = buffer.len
    BY <1>1 DEF Inv, ReadInv, Loaded
  <2>2. \A i, byte : Was(i, byte) => Was(i, byte)'
    BY <1>8 DEF Was
  <2> QED
    BY <1>1, <1>2, <1>8, <2>1, <2>2 DEF Loaded
<1>11. SeenInv'
  <2>1. \A i \in DOMAIN seen : ReadFromFile(i)'
    BY <1>1, <1>8 DEF Inv, ReadInv, SeenInv, ReadFromFile
  <2>2. exit' # Killed
    BY <1>1, <1>2, StatusAssumption DEF Killed
  <2>3. DOMAIN seen' = 1 .. file_size(buffer')
    BY <1>1
  <2> QED
    BY <1>1, <1>2, <2>1, <2>2, <2>3 DEF SeenInv
<1> QED
  BY <1>3, <1>5, <1>6, <1>7, <1>8, <1>9, <1>10, <1>11 DEF Inv, ReadInv

LEMMA WriteInv ==
    ASSUME Inv, Write, Unseen
    PROVE  Inv'
<1>1. /\ pc = "write" /\ pc' \in {"write", "done"}
      /\ UNCHANGED <<cli, size, buffer, schema, seen, rows>> /\ UNCHANGED <<names, store>>
  BY DEF Write, Exit, Unseen, disk
<1>2. DiskType' /\ Backed' /\ RowsType'
  BY <1>1 DEF Inv, DiskType, Backed, RowsType
<1>3. Progress'
  BY <1>1 DEF Inv, Progress
<1>4. Writing'
  <2>1. Writing
    BY <1>1 DEF Inv, OutputInv, Silent
  <2>2. PICK pieces, s : Splits(pieces, s) /\ IsOutput(s)
    BY <2>1 DEF Writing
  <2>3. IsOutput(s)'
    BY <1>1, <2>2, SameOutput
  <2>4. CASE output = << >>
    <3>1. UNCHANGED <<output, stdout>> /\ exit' = 0 /\ pc' = "done"
      BY <2>4 DEF Write, Exit
    <3>2. Splits(pieces, s)'
      BY <2>2, <3>1 DEF Splits
    <3> QED
      BY <2>3, <2>4, <3>1, <3>2 DEF Writing
  <2>5. CASE output # << >> /\ reader
    <3>1. /\ stdout' = Append(stdout, Head(output)) /\ output' = Tail(output)
          /\ UNCHANGED <<pc, exit>>
      BY <2>5 DEF Write
    <3>2. Splits(pieces, s)'
      BY <2>2, <2>5, <3>1, PieceMoves
    <3> QED
      BY <1>1, <2>1, <2>3, <2>5, <3>1, <3>2 DEF Writing
  <2>6. CASE output # << >> /\ ~reader
    <3>1. UNCHANGED <<output, stdout>> /\ exit' = Panicked /\ pc' = "done"
      BY <2>6 DEF Write, Exit
    <3>2. Splits(pieces, s)'
      BY <2>2, <3>1 DEF Splits
    <3> QED
      BY <2>3, <3>1, <3>2 DEF Writing, Panicked
  <2> QED
    BY <2>4, <2>5, <2>6
<1>5. Remembered' /\ held \subseteq held'
  BY <1>2, <1>3, RememberedAgain DEF Unseen
<1>6. Copied' /\ Loaded' /\ SeenInv'
  <2>1. exit \in {None, 0, Panicked} /\ exit' \in {None, 0, Panicked}
    BY <1>1, <1>4 DEF Inv, OutputInv, Silent, Writing
  <2>2. exit # Killed /\ exit' # Killed
    BY <2>1, StatusAssumption DEF Killed, Panicked
  <2>3. Interpreted' => Interpreted
    BY <1>1, <2>2 DEF Interpreted
  <2> QED
    BY <1>1, <1>5, <2>2, <2>3, ReadAlready
<1> QED
  BY <1>2, <1>3, <1>4, <1>5, <1>6 DEF Inv, ReadInv, OutputInv

LEMMA SilentOrWriting ==
    ASSUME UNCHANGED program, Inv PROVE Progress' /\ RowsType' /\ OutputInv'
<1>1. UNCHANGED <<cli, pc, buffer, schema, seen, rows, output, stdout, exit>>
  BY DEF program
<1>2. Progress' /\ RowsType'
  BY <1>1 DEF Inv, Progress, RowsType
<1>3. ASSUME Silent PROVE OutputInv'
  BY <1>1, <1>3 DEF Silent, OutputInv
<1>4. ASSUME Writing PROVE OutputInv'
  <2>1. PICK pieces, s : Splits(pieces, s) /\ IsOutput(s)
    BY <1>4 DEF Writing
  <2>2. IsOutput(s)'
    BY <1>1, <2>1, SameOutput
  <2>3. Splits(pieces, s)'
    BY <1>1, <2>1 DEF Splits
  <2> QED BY <1>1, <1>4, <2>2, <2>3 DEF Writing, OutputInv
<1> QED BY <1>2, <1>3, <1>4 DEF Inv, OutputInv

(* What the file holds is remembered, and what was opened stays a file.    *)
LEMMA IdleInv ==
    ASSUME Inv, UNCHANGED program, Holding, DiskType',
           \A inode \in Inode : store[inode].kind = "file" => store'[inode].kind = "file"
    PROVE  Inv'
<1>1. Progress' /\ RowsType' /\ OutputInv'
  BY SilentOrWriting
<1>2. UNCHANGED <<pc, buffer, schema, seen, rows, exit>>
  BY DEF program
<1>3. Backed'
  <2> SUFFICES ASSUME pc \in {"read", "schema", "interpret"}, buffer.kind # "memory"
               PROVE  store'[buffer.inode].kind = "file"
    BY <1>2 DEF Backed
  <2>1. buffer \in Copy \/ buffer \in Buffer
    BY DEF Inv, Progress
  <2>2. buffer.inode \in Inode
    BY <2>1 DEF Copy, Buffer
  <2> QED
    BY <2>2 DEF Inv, ReadInv, Backed
<1>4. Remembered' /\ held \subseteq held'
  BY <1>1, <1>3, RememberedAgain
<1>5. Interpreted' = Interpreted
  BY <1>2 DEF Interpreted
<1>6. Copied' /\ Loaded' /\ SeenInv'
  BY <1>2, <1>4, <1>5, ReadAlready
<1> QED
  BY <1>1, <1>3, <1>4, <1>6 DEF Inv, ReadInv

LEMMA ChangeDiskKeeps ==
    ASSUME DiskType, ChangeDisk
    PROVE  /\ DiskType'
           /\ \A inode \in Inode : store[inode].kind = "file" => store'[inode].kind = "file"
<1>1. CASE Overwrite
  <2>1. PICK path \in Path, bytes \in Contents :
           /\ Exists(path)
           /\ store' = [store EXCEPT ![names[path]] = File(bytes)]
    BY <1>1 DEF Overwrite
  <2>2. names' = names /\ File(bytes) \in Entry /\ File(bytes).kind = "file"
    BY <1>1 DEF Overwrite, Entry, File
  <2> QED
    BY <2>1, <2>2 DEF DiskType, Exists
<1>2. CASE Rename
  BY <1>2 DEF Rename, DiskType
<1> QED
  BY <1>1, <1>2 DEF ChangeDisk

LEMMA NextInv == Inv /\ [Next]_vars => Inv'
<1> SUFFICES ASSUME Inv, [Next]_vars PROVE Inv'
  OBVIOUS
<1>1. CASE Step /\ UNCHANGED <<disk, reader>> /\ Holding
  <2>1. Unseen
    BY <1>1 DEF Unseen
  <2> QED
    BY <1>1, <2>1, ParseArgumentsInv, ReadMetadataInv, OpenFileInv, ReadFileInv,
       ParseSchemaInv, ReadByteInv, InterpretInv, WriteInv DEF Step
<1>2. CASE Environment /\ Holding
  <2>1. CASE ChangeDisk
    BY <1>2, <2>1, ChangeDiskKeeps, IdleInv DEF Environment, Inv
  <2>2. CASE UNCHANGED disk
    <3>1. DiskType' /\ store' = store
      BY <2>2 DEF disk, Inv, DiskType
    <3> QED
      BY <1>2, <3>1, IdleInv DEF Environment
  <2> QED
    BY <1>2, <2>1, <2>2 DEF Environment
<1>3. CASE UNCHANGED <<program, disk>> /\ Holding
  <2>1. DiskType' /\ store' = store
    BY <1>3 DEF disk, Inv, DiskType
  <2> QED
    BY <1>3, <2>1, IdleInv
<1>4. CASE UNCHANGED vars
  <2>1. HeldNow' = HeldNow /\ held' = held /\ UNCHANGED <<program, disk>>
    BY <1>4 DEF vars, program, disk, HeldNow
  <2>2. Holding
    BY <2>1 DEF Holding, Inv, ReadInv, Remembered
  <2> QED
    BY <1>3, <2>1, <2>2
<1> QED
  BY <1>1, <1>2, <1>3, <1>4 DEF Next, Done, Holding

-----------------------------------------------------------------------------
(* The theorems *)

(* The invariant of a run.                                                 *)
THEOREM CommandLineInvariance == Spec => []Inv
BY InitInv, NextInv, PTL DEF Spec

(* With --json nothing but the array is on stdout, nothing at all unless   *)
(* there are rows, and a run that succeeds has closed it.                  *)
THEOREM JsonStaysPure == Spec => []JsonIsPure
<1>1. ASSUME Inv PROVE JsonIsPure
  <2> SUFFICES ASSUME cli.json
               PROVE  /\ Written \cup {i \in 1 .. Len(stdout) : stdout[i] \in {Open, Close}}
                            = 1 .. Len(stdout)
                      /\ \A i \in 1 .. Len(stdout) :
                            /\ stdout[i] = Open <=> i = 1
                            /\ stdout[i] = Close => i = Len(stdout)
                      /\ stdout # << >> => exit \in {None, 0, Panicked}
                      /\ exit = 0 => Len(stdout) >= 2 /\ stdout[Len(stdout)] = Close
    BY DEF JsonIsPure
  <2>1. CASE Silent
    BY <2>1 DEF Silent, Written
  <2>2. CASE Writing
    <3>1. PICK pieces, s : Splits(pieces, s) /\ IsArray(s)
      BY <2>2 DEF Writing, IsOutput
    <3>2. /\ stdout \in Seq(pieces) /\ output \in Seq(pieces)
          /\ Len(stdout) \in Nat /\ Len(output) \in Nat /\ Len(s) \in Nat /\ Len(s) >= 2
          /\ Len(stdout) <= Len(s)
      BY <3>1 DEF Splits, IsArray
    <3>3. /\ Open # Close
          /\ \A piece : piece.piece = "record" => piece \notin {Open, Close}
      BY DEF Open, Close
    <3>4. ASSUME NEW i \in 1 .. Len(stdout)
          PROVE  /\ stdout[i].piece = "record" \/ stdout[i] \in {Open, Close}
                 /\ stdout[i] = Open <=> i = 1
                 /\ stdout[i] = Close => i = Len(stdout)
      <4>1. stdout[i] = s[i] /\ i \in 1 .. Len(s)
        BY <3>1, <3>2 DEF Splits
      <4>2. CASE i = 1
        BY <3>1, <3>3, <4>1, <4>2 DEF Splits, IsArray
      <4>3. CASE i = Len(s)
        BY <3>1, <3>2, <3>3, <4>1, <4>3 DEF Splits, IsArray
      <4>4. CASE i \in 2 .. (Len(s) - 1)
        BY <3>1, <3>3, <4>1, <4>4 DEF Splits, IsArray
      <4> QED
        BY <3>2, <4>1, <4>2, <4>3, <4>4
    <3>5. ASSUME exit = 0
          PROVE  Len(stdout) >= 2 /\ stdout[Len(stdout)] = Close
      <4>1. Len(stdout) = Len(s)
        BY <2>2, <3>1, <3>2, <3>5 DEF Writing, Splits
      <4> QED
        BY <3>1, <3>2, <4>1 DEF Splits, IsArray
    <3> QED
      BY <2>2, <3>4, <3>5 DEF Writing, Written
  <2> QED
    BY <1>1, <2>1, <2>2 DEF Inv, OutputInv
<1> QED
  BY <1>1, CommandLineInvariance, PTL

(* The records written are those of the first rows, all of them once       *)
(* nothing is left to write.                                               *)
LEMMA WrittenRecords ==
    ASSUME Inv, Writing
    PROVE  \E before \in Nat : \E last \in Nat :
              /\ Len(stdout) \in Nat
              /\ Written = (before + 1) .. last /\ last <= before + Len(rows)
              /\ output = << >> => last = before + Len(rows)
              /\ \A i \in Written : i - before \in 1 .. Len(rows)
                                    /\ stdout[i] = Shown(i - before)
<1>1. PICK pieces, s : Splits(pieces, s) /\ IsOutput(s)
  BY DEF Writing
<1>2. PICK before : Holds(s, before, Records)
  BY <1>1 DEF IsOutput
<1>3. PICK n \in Nat : n = Len(rows)
  BY DEF Inv, RowsType
<1>4. Len(Records) = n
  BY <1>3 DEF Records
<1>5. PICK len \in Nat : len = Len(stdout)
  BY <1>1 DEF Splits
<1>6. /\ before \in Nat /\ Len(s) \in Nat /\ before + n <= Len(s) /\ len <= Len(s)
      /\ output = << >> => len = Len(s)
  BY <1>1, <1>2, <1>4, <1>5 DEF Holds, Splits
<1>7. \A i \in 1 .. len : stdout[i] = s[i] /\ i \in 1 .. Len(s)
  BY <1>1, <1>5, <1>6 DEF Splits
<1>8. \A i \in 1 .. len : stdout[i].piece = "record" <=> i \in (before + 1) .. (before + n)
  BY <1>2, <1>4, <1>7 DEF Holds
<1>9. ASSUME NEW i \in Written
      PROVE  i - before \in 1 .. n /\ stdout[i] = Shown(i - before)
  <2>1. i \in 1 .. len /\ i \in (before + 1) .. (before + n)
    BY <1>5, <1>8 DEF Written
  <2>2. i - before \in 1 .. n /\ before + (i - before) = i
    BY <1>6, <2>1
  <2>3. s[before + (i - before)] = Records[i - before]
    BY <1>2, <1>4, <2>2 DEF Holds
  <2> QED BY <1>3, <1>7, <2>1, <2>2, <2>3 DEF Records
<1> DEFINE last == IF len <= before + n THEN len ELSE before + n
<1>10. Written = (before + 1) .. last /\ last \in Nat
  BY <1>5, <1>6, <1>8 DEF Written
<1>11. last <= before + n /\ (output = << >> => last = before + n)
  BY <1>6
<1> QED
  BY <1>3, <1>5, <1>6, <1>9, <1>10, <1>11

(* Every row before one that is written has been written, in order and     *)
(* once, and with status 0 all of them have.                               *)
THEOREM StatusIsHonest == Spec => []StatusTellsTheOutput
<1>1. ASSUME Inv PROVE StatusTellsTheOutput
  <2>1. CASE Silent
    <3>1. Written = {}
      BY <2>1 DEF Silent, Written
    <3> QED BY <2>1, <3>1 DEF Silent, StatusTellsTheOutput
  <2>2. CASE Writing
    <3>1. PICK before \in Nat, last \in Nat :
             /\ Written = (before + 1) .. last /\ last <= before + Len(rows)
             /\ output = << >> => last = before + Len(rows)
             /\ \A i \in Written : stdout[i] = Shown(i - before)
      BY <1>1, <2>2, WrittenRecords
    <3>2. PICK n \in Nat : n = Len(rows)
      BY <1>1 DEF Inv, RowsType
    <3>3. ASSUME NEW i \in Written
          PROVE  stdout[i].row = Cardinality(Written \cap (1 .. i))
      <4>1. i \in Int /\ before + 1 <= i /\ i <= last
        BY <3>1
      <4>2. Written \cap (1 .. i) = (before + 1) .. i
        BY <3>1, <4>1
      <4>3. Cardinality((before + 1) .. i) = i - (before + 1) + 1
        BY <4>1, FS_Interval
      <4>4. \A r : Shown(r).row = r
        BY DEF Shown
      <4>5. stdout[i] = Shown(i - before) /\ i - (before + 1) + 1 = i - before
        BY <3>1, <4>1
      <4> QED BY <4>2, <4>3, <4>4, <4>5, Zenon
    <3>4. ASSUME exit = 0 PROVE Cardinality(Written) = n
      <4>1. Written = (before + 1) .. (before + n)
        BY <2>2, <3>1, <3>2, <3>4 DEF Writing
      <4>2. Cardinality((before + 1) .. (before + n)) =
               IF before + 1 > before + n THEN 0 ELSE (before + n) - (before + 1) + 1
        BY FS_Interval
      <4> QED BY <4>1, <4>2
    <3> QED BY <3>2, <3>3, <3>4 DEF StatusTellsTheOutput
  <2> QED BY <1>1, <2>1, <2>2 DEF Inv, OutputInv
<1> QED
  BY <1>1, CommandLineInvariance, PTL

LEMMA ValueKinds ==
    ASSUME NEW value \in Value
    PROVE  /\ value.kind \in {"number", "float", "bytes", "ascii"}
           /\ value.kind = "float" => value = Float(value.finite) /\ value.finite \in BOOLEAN
           /\ value.kind = "bytes" => value.content \in Seq(Nat)
           /\ value.kind = "ascii" => value.content \in Seq(Char)
<1>1. CASE value = Number
  BY <1>1 DEF Number
<1>2. CASE \E finite \in BOOLEAN : value = Float(finite)
  BY <1>2 DEF Float
<1>3. CASE value \in [kind : {"bytes"}, content : Seq(Nat)]
  BY <1>3
<1>4. CASE value \in [kind : {"ascii"}, content : Seq(Char)]
  BY <1>4
<1> QED BY <1>1, <1>2, <1>3, <1>4 DEF Value

(* What a row is rendered as in either format, compared with the row.      *)
LEMMA RenderedRuns ==
    ASSUME NEW row, IsRow(row), row.value # None, IsRun(row.value), NEW full \in BOOLEAN
    PROVE  LET value == row.value
               shown == render_field_value(value, row.byte_len, full)
           IN /\ shown = render_json_value(value, row.byte_len, full)
              /\ shown \notin {Null, Dash}
              /\ shown.more <=> shown.shown < Len(value.content)
              /\ full => ~shown.more
              /\ value.kind = "ascii" /\ shown.more =>
                    /\ Widths(value.content)[shown.shown] <= MaxDisplay
                    /\ Widths(value.content)[shown.shown + 1] > MaxDisplay
              /\ ~full => shown = format_value(value, row.byte_len)
<1> DEFINE value == row.value
           shown == render_field_value(value, row.byte_len, full)
           length == Len(value.content)
<1>1. /\ value \in Value /\ value.kind \in {"bytes", "ascii"} /\ row.byte_len \in Nat
      /\ MaxDisplay \in Nat
  BY DisplayAssumption DEF IsRow, IsRun
<1>2. shown = render_json_value(value, row.byte_len, full)
  BY <1>1 DEF render_json_value
<1>3. ASSUME NEW count, NEW more \in BOOLEAN, shown = Preview(count, more)
      PROVE  shown.shown = count /\ shown.more = more /\ shown \notin {Null, Dash}
  <2>1. "shown" \in DOMAIN shown /\ "shown" \notin DOMAIN Null /\ "shown" \notin DOMAIN Dash
    BY <1>3 DEF Preview, Null, Dash
  <2> QED BY <1>3, <2>1 DEF Preview
<1>4. length \in Nat
  BY <1>1, ValueKinds
<1>5. CASE full \/ row.byte_len <= MaxDisplay
  <2>1. shown = Preview(length, FALSE)
    BY <1>1, <1>5 DEF render_field_value, render_bytes, render_ascii
  <2>2. ~full => shown = format_value(value, row.byte_len)
    <3> SUFFICES ASSUME ~full PROVE shown = format_value(value, row.byte_len)
      OBVIOUS
    <3>1. row.byte_len <= MaxDisplay /\ (row.byte_len > MaxDisplay) = FALSE
      BY <1>1, <1>5
    <3>2. format_bytes_preview(value.content, row.byte_len) = Preview(length, FALSE)
      BY <3>1, Zenon DEF format_bytes_preview
    <3>3. format_ascii_preview(value.content, row.byte_len) = Preview(length, FALSE)
      BY <3>1 DEF format_ascii_preview
    <3> HIDE DEF shown, length
    <3> QED BY <1>1, <2>1, <3>2, <3>3 DEF format_value
  <2>3. shown.shown = length /\ ~shown.more /\ shown \notin {Null, Dash}
    BY <2>1, <1>3
  <2> HIDE DEF shown, length
  <2> QED BY <1>2, <1>4, <2>2, <2>3 DEF shown, length
<1>6. CASE ~full /\ row.byte_len > MaxDisplay /\ value.kind = "bytes"
  <2>1. length = row.byte_len
    BY <1>6 DEF IsRow
  <2>2. shown = Preview(MaxDisplay, TRUE)
    <3>1. /\ shown = render_bytes(value.content, row.byte_len, full)
          /\ Least(length, MaxDisplay) = MaxDisplay
      BY <1>1, <1>6, <2>1 DEF render_field_value, Least
    <3>2. ~(full \/ row.byte_len <= MaxDisplay)
      BY <1>1, <1>6
    <3> QED BY <3>1, <3>2, Zenon DEF render_bytes
  <2>3. shown = format_value(value, row.byte_len)
    <3>1. /\ format_value(value, row.byte_len) =
                format_bytes_preview(value.content, row.byte_len)
          /\ Least(length, MaxDisplay) = MaxDisplay
      BY <1>1, <1>6, <2>1 DEF format_value, Least
    <3>2. ~(row.byte_len <= MaxDisplay) /\ (row.byte_len > MaxDisplay) = TRUE
      BY <1>1, <1>6
    <3> HIDE DEF shown
    <3> QED BY <2>2, <3>1, <3>2, Zenon DEF format_bytes_preview
  <2>4. shown.shown = MaxDisplay /\ shown.more /\ shown \notin {Null, Dash}
    BY <2>2, <1>3
  <2> HIDE DEF shown, length
  <2> QED BY <1>1, <1>2, <1>6, <2>1, <2>3, <2>4 DEF shown, length
<1>7. CASE ~full /\ row.byte_len > MaxDisplay /\ value.kind = "ascii"
  <2> DEFINE count == render_ascii_preview(value.content, MaxDisplay)
  <2>1. /\ value.content \in Seq(Char)
        /\ RawLength(value.content) = row.byte_len
    BY <1>1, <1>7, ValueKinds DEF IsRow
  <2>2. /\ count \in Nat /\ count < length
        /\ Widths(value.content)[count] <= MaxDisplay
        /\ Widths(value.content)[count + 1] > MaxDisplay
    BY <1>1, <1>7, <2>1, PreviewFits
  <2> HIDE DEF count
  <2>3. shown = Preview(count, TRUE)
    <3>1. shown = render_ascii(value.content, row.byte_len, full)
      BY <1>1, <1>7 DEF render_field_value
    <3>2. ~(full \/ row.byte_len <= MaxDisplay)
      BY <1>1, <1>7
    <3> QED BY <3>1, <3>2, Zenon DEF render_ascii, count
  <2>4. shown = format_value(value, row.byte_len)
    <3>1. format_value(value, row.byte_len) =
             format_ascii_preview(value.content, row.byte_len)
      BY <1>1, <1>7 DEF format_value
    <3>2. ~(row.byte_len <= MaxDisplay)
      BY <1>1, <1>7
    <3> HIDE DEF shown
    <3> QED BY <2>3, <3>1, <3>2, Zenon DEF format_ascii_preview, count
  <2>5. shown.shown = count /\ shown.more /\ shown \notin {Null, Dash}
    BY <2>3, <1>3
  <2> HIDE DEF shown
  <2> QED BY <1>2, <1>7, <2>2, <2>4, <2>5 DEF shown
<1> QED BY <1>1, <1>5, <1>6, <1>7

LEMMA ShownRows ==
    ASSUME NEW r, IsRow(rows[r]), cli \in Cli
    PROVE  LET row == rows[r]
               record == Shown(r)
           IN /\ record.value \in {Null, Dash} =>
                    record.failed \/ (cli.json /\ row.value = Float(FALSE))
              /\ record.placed \/ record.failed
              /\ row.value # None /\ IsRun(row.value) =>
                    /\ record.value.more <=> record.value.shown < Len(row.value.content)
                    /\ cli.full_bytes => ~record.value.more
                    /\ row.value.kind = "ascii" /\ record.value.more =>
                          /\ Widths(row.value.content)[record.value.shown] <= MaxDisplay
                          /\ Widths(row.value.content)[record.value.shown + 1] > MaxDisplay
                    /\ ~cli.full_bytes =>
                          record.value = format_value(row.value, row.byte_len)
<1> DEFINE row == rows[r]
           shown == render_field_value(row.value, row.byte_len, cli.full_bytes)
           json == render_json_value(row.value, row.byte_len, cli.full_bytes)
<1>1. cli.full_bytes \in BOOLEAN /\ cli.json \in BOOLEAN
  BY DEF Cli
<1>2. /\ Shown(r).placed = row.placed /\ Shown(r).failed = row.failed
      /\ row.value # None => Shown(r).value = IF cli.json THEN json ELSE shown
  BY DEF Shown
<1>3. (row.failed <=> row.value = None) /\ (row.placed \/ row.failed)
      /\ row.value \in Value \cup {None}
  BY DEF IsRow
<1> HIDE DEF shown, json
<1>4. CASE row.value = None
  BY <1>2, <1>3, <1>4
<1>5. CASE row.value # None /\ IsRun(row.value)
  <2>1. Shown(r).value = shown
    BY <1>1, <1>2, <1>5, RenderedRuns DEF shown, json
  <2>2. /\ shown \notin {Null, Dash}
        /\ shown.more <=> shown.shown < Len(row.value.content)
        /\ cli.full_bytes => ~shown.more
        /\ row.value.kind = "ascii" /\ shown.more =>
              /\ Widths(row.value.content)[shown.shown] <= MaxDisplay
              /\ Widths(row.value.content)[shown.shown + 1] > MaxDisplay
        /\ ~cli.full_bytes => shown = format_value(row.value, row.byte_len)
    BY <1>1, <1>5, RenderedRuns DEF shown
  <2> QED BY <1>2, <1>3, <1>5, <2>1, <2>2
<1>6. CASE row.value # None /\ ~IsRun(row.value)
  <2>1. /\ row.value.kind \in {"number", "float"}
        /\ row.value.kind = "float" =>
              row.value = Float(row.value.finite) /\ row.value.finite \in BOOLEAN
    BY <1>3, <1>6, ValueKinds DEF IsRun
  <2>2. shown = row.value
    BY <2>1 DEF shown, render_field_value
  <2>3. json \in {Null, Dash} => row.value = Float(FALSE)
    <3>1. CASE row.value.kind = "float" /\ ~row.value.finite
      <4>1. row.value.finite = FALSE
        BY <2>1, <3>1
      <4> QED BY <2>1, <3>1, <4>1
    <3>2. CASE ~(row.value.kind = "float" /\ ~row.value.finite)
      <4>1. json = row.value
        BY <2>2, <3>2 DEF json, shown, render_json_value
      <4> QED BY <2>1, <4>1 DEF Null, Dash
    <3> QED BY <3>1, <3>2
  <2>4. shown \notin {Null, Dash}
    BY <2>1, <2>2 DEF Null, Dash
  <2> QED BY <1>2, <1>3, <1>6, <2>3, <2>4
<1> QED BY <1>4, <1>5, <1>6

(* What the records say of their rows can be relied on: no value is left   *)
(* out without an error, dots stand for what really is left out, and the   *)
(* GUI cuts a value at the same place.                                     *)
THEOREM RecordsAreRight == Spec => []RecordsAreHonest
<1>1. ASSUME Inv PROVE RecordsAreHonest
  <2>1. ASSUME NEW i \in Written
        PROVE  \E r \in 1 .. Len(rows) : stdout[i] = Shown(r)
    <3>1. Writing
      BY <1>1, <2>1 DEF Inv, OutputInv, Silent, Written
    <3> QED BY <1>1, <2>1, <3>1, WrittenRecords
  <2>2. cli \in Cli
    BY <1>1, CommandLineAssumption DEF Inv, Progress
  <2>3. \A r : Shown(r).row = r
    BY DEF Shown
  <2>4. ASSUME NEW i \in Written
        PROVE  LET row == rows[stdout[i].row]
                   shown == stdout[i].value
               IN /\ shown \in {Null, Dash} =>
                        stdout[i].failed \/ (cli.json /\ row.value = Float(FALSE))
                  /\ stdout[i].placed \/ stdout[i].failed
                  /\ row.value # None /\ IsRun(row.value) =>
                        /\ shown.more <=> shown.shown < Len(row.value.content)
                        /\ cli.full_bytes => ~shown.more
                        /\ row.value.kind = "ascii" /\ shown.more =>
                              /\ Widths(row.value.content)[shown.shown] <= MaxDisplay
                              /\ Widths(row.value.content)[shown.shown + 1] > MaxDisplay
                        /\ ~cli.full_bytes => shown = format_value(row.value, row.byte_len)
    <3>1. PICK r \in 1 .. Len(rows) : stdout[i] = Shown(r)
      BY <2>1
    <3>2. IsRow(rows[r]) /\ stdout[i].row = r
      BY <1>1, <2>3, <3>1 DEF Inv, RowsType
    <3> QED BY <2>2, <3>1, <3>2, ShownRows
  <2> QED BY <2>4 DEF RecordsAreHonest, MissingValuesAreExplained, PreviewsAreHonest,
                      FrontEndsAgree
<1> QED
  BY <1>1, CommandLineInvariance, PTL

(* Every byte that is interpreted was in the file opened, at its place and *)
(* while it was read; the rows are those of one content unless the file    *)
(* was written meanwhile, and only a mapped file that became shorter ends  *)
(* the process.                                                            *)
THEOREM RowsAreOfNoOtherFile == Spec => []RowsAreOfTheFile
<1>1. ASSUME Inv PROVE RowsAreOfTheFile
  <2>1. /\ \A i \in DOMAIN seen : ReadFromFile(i)
        /\ exit = Killed =>
              buffer.kind = "mapped" /\ \E bytes \in held : Len(bytes) < buffer.len
    BY <1>1 DEF Inv, ReadInv, SeenInv
  <2>2. ASSUME Interpreted
        PROVE  /\ \E bytes \in held : Len(bytes) <= Len(seen)
               /\ \A bytes \in held : held = {bytes} => rows = Interpretation[schema][bytes]
    <3>1. /\ DOMAIN seen = 1 .. file_size(buffer) /\ seen \in [DOMAIN seen -> Byte]
          /\ rows = Interpretation[schema][seen]
      BY <1>1, <2>2 DEF Inv, ReadInv, SeenInv
    <3>2. /\ buffer \in Buffer
          /\ buffer.kind = "memory" =>
                \E bytes \in held : Len(bytes) <= Len(buffer.bytes)
          /\ buffer.kind = "mapped" => \E bytes \in held : Len(bytes) = buffer.len
      BY <1>1, <2>2 DEF Inv, ReadInv, Loaded
    <3>3. PICK n \in Nat : n = file_size(buffer)
      BY <3>2, BufferSize, BufferAssumption
    <3>4. seen \in Seq(Byte) /\ Len(seen) = n
      <4>1. seen \in [1 .. n -> Byte]
        BY <3>1, <3>3
      <4>2. seen \in Seq(Byte)
        BY <4>1, SeqDef
      <4>3. 1 .. Len(seen) = 1 .. n /\ Len(seen) \in Nat
        BY <4>1, <4>2, LenProperties
      <4> QED
        BY <4>2, <4>3
    <3>5. buffer.kind \in {"memory", "mapped"}
      BY <3>2 DEF Buffer
    <3>6. PICK shortest \in held :
             Len(shortest) <= n /\ (buffer.kind = "mapped" => Len(shortest) = n)
      BY <3>2, <3>3, <3>5, BufferAssumption DEF file_size
    <3>7. ASSUME NEW bytes \in held, held = {bytes} PROVE seen = bytes
      <4>1. bytes = shortest
        BY <3>7
      <4>2. bytes \in Seq(Byte) /\ Len(bytes) \in Nat
        BY ByteStrings, <1>1 DEF Inv, ReadInv, Remembered
      <4>3. ASSUME NEW i \in 1 .. n PROVE i <= Len(bytes) /\ seen[i] = bytes[i]
        <5>1. IF i <= Len(bytes) THEN seen[i] = bytes[i]
              ELSE buffer.kind = "mapped" /\ seen[i] = 0
          BY <2>1, <3>1, <3>3, <3>7 DEF ReadFromFile
        <5> QED
          BY <3>6, <4>1, <5>1
      <4>4. Len(bytes) = n
        <5>1. CASE n = 0
          BY <3>6, <4>1, <4>2, <5>1
        <5>2. CASE n # 0
          <6>1. n \in 1 .. n
            BY <5>2
          <6> QED
            BY <3>6, <4>1, <4>2, <4>3, <6>1
        <5> QED
          BY <5>1, <5>2
      <4> QED
        BY <3>4, <4>2, <4>3, <4>4, SeqEqual
    <3> QED
      BY <3>1, <3>4, <3>6, <3>7
  <2> QED
    BY <2>1, <2>2 DEF RowsAreOfTheFile
<1> QED
  BY <1>1, CommandLineInvariance, PTL

=============================================================================
