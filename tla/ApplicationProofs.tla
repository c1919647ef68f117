-------------------------- MODULE ApplicationProofs --------------------------
(***************************************************************************)
(* Theorems about Application, for any number of paths, files, contents    *)
(* and changes made to them.                                               *)
(*                                                                         *)
(* Inv adds to the types what is known while a file is being opened: as    *)
(* long as nobody has changed a file since its metadata was read, the size *)
(* that was told is still the length of the file, and the copy in the      *)
(* making is of this file and not longer.                                  *)
(***************************************************************************)
EXTENDS Application, SequenceTheorems, TLAPS

Buffer == [kind : {"memory"}, bytes : ByteSeq]
          \cup [kind : {"mapped"}, inode : Inode, len : Nat]

Copy == [kind : {"reading"}, inode : Inode, bytes : ByteSeq]

DocumentRecord ==
    [path : Path, size : Nat, buffer : Buffer, table : Schemas \cup {None}, raced : BOOLEAN]

TypeOK ==
    /\ names \in [Path -> Inode \cup {None}]
    /\ store \in [Inode -> Entry]
    /\ edits \in Nat
    /\ documents \in Seq(DocumentRecord)
    /\ current_doc \in 1 .. Len(documents) \cup {None}
    /\ opening \in [path : Path, size : Nat, edits : Nat, copy : Copy \cup {None}]
                  \cup {None}
    /\ alive \in BOOLEAN

(* A copy that nobody has disturbed is of the file that was picked, and is *)
(* not longer than that file.                                              *)
CopyIsCurrent(copy, path) ==
    /\ store[copy.inode].kind = "file"
    /\ opening.edits = edits =>
          copy.inode = names[path] /\ Len(copy.bytes) <= metadata_len(path)

OpeningIsCurrent ==
    opening # None =>
       /\ opening.edits <= edits
       /\ opening.edits = edits =>
             Exists(opening.path) /\ opening.size = metadata_len(opening.path)
       /\ opening.copy # None => CopyIsCurrent(opening.copy, opening.path)

Inv == TypeOK /\ OpeningIsCurrent /\ SizeIsLength

-----------------------------------------------------------------------------
(* Files and buffers *)

LEMMA ByteStrings ==
    ASSUME NEW bytes
    PROVE  bytes \in ByteSeq <=> bytes \in Seq(Byte) /\ Len(bytes) <= MaxLength
<1>1. ASSUME bytes \in ByteSeq PROVE bytes \in Seq(Byte) /\ Len(bytes) <= MaxLength
  <2>1. PICK n \in 0 .. MaxLength : bytes \in [1 .. n -> Byte]
    BY <1>1 DEF ByteSeq
  <2>2. bytes \in Seq(Byte)
    BY <2>1, BufferAssumption, SeqDef
  <2>3. Len(bytes) \in Nat /\ 1 .. Len(bytes) = 1 .. n
    BY <2>1, <2>2, LenProperties
  <2>4. Len(bytes) = n
    BY <2>1, <2>3
  <2> QED
    BY <2>1, <2>2, <2>4
<1>2. ASSUME bytes \in Seq(Byte), Len(bytes) <= MaxLength PROVE bytes \in ByteSeq
  <2>1. Len(bytes) \in 0 .. MaxLength /\ bytes \in [1 .. Len(bytes) -> Byte]
    BY <1>2, BufferAssumption, LenProperties
  <2> QED
    BY <2>1 DEF ByteSeq
<1> QED
  BY <1>1, <1>2

LEMMA EntryType ==
    ASSUME NEW entry \in Entry
    PROVE  /\ entry.bytes \in Seq(Byte) /\ Len(entry.bytes) \in Nat
           /\ entry.kind = "file" => entry.bytes \in ByteSeq /\ Len(entry.bytes) <= MaxLength
<1>1. CASE \E b \in Contents : entry = File(b) \/ entry = Locked(b)
  <2>1. PICK b \in Contents : entry = File(b) \/ entry = Locked(b)
    BY <1>1
  <2>2. b \in ByteSeq /\ b \in Seq(Byte) /\ Len(b) <= MaxLength
    BY ByteStrings, BufferAssumption
  <2> QED
    BY <2>1, <2>2 DEF File, Locked
<1>2. CASE entry = Directory
  BY <1>2 DEF Directory
<1> QED
  BY <1>1, <1>2 DEF Entry

LEMMA FileType ==
    ASSUME TypeOK, NEW path \in Path, Exists(path)
    PROVE  /\ names[path] \in Inode /\ At(path) = store[names[path]]
           /\ At(path) \in Entry /\ metadata_len(path) \in Nat
<1>1. names[path] \in Inode /\ At(path) \in Entry /\ At(path) = store[names[path]]
  BY DEF TypeOK, Exists, At
<1> QED
  BY <1>1, EntryType DEF metadata_len

(* What a call for the file may give, if it is not an error.               *)
Partial(buffer) == buffer \in Copy /\ CopyIsCurrent(buffer, opening.path)

Whole(buffer) ==
    /\ buffer \in Buffer /\ buffer.kind # "reading"
    /\ opening.edits = edits => file_size(buffer) = metadata_len(opening.path)

LEMMA OpenedBuffer ==
    ASSUME Inv, opening # None,
           NEW buffer \in OpenBuffer(opening.path, opening.size), buffer # None
    PROVE  Partial(buffer) \/ Whole(buffer)
<1> DEFINE path == opening.path
<1>1. path \in Path /\ Exists(path) /\ At(path).kind = "file"
  BY DEF OpenBuffer, Inv, TypeOK
<1>2. /\ names[path] \in Inode /\ At(path) = store[names[path]]
      /\ metadata_len(path) \in Nat
  BY <1>1, FileType DEF Inv
<1>3. CASE buffer = Reading(names[path], << >>)
  <2>1. << >> \in Seq(Byte) /\ Len(<< >>) <= MaxLength /\ Len(<< >>) = 0
    BY BufferAssumption
  <2>2. << >> \in ByteSeq
    BY <2>1, ByteStrings
  <2>3. buffer \in Copy /\ buffer.inode = names[path] /\ buffer.bytes = << >>
    BY <1>2, <1>3, <2>2 DEF Reading, Copy
  <2> QED
    BY <1>1, <1>2, <2>1, <2>3 DEF Partial, CopyIsCurrent
<1>4. CASE buffer = Mapped(names[path], metadata_len(path))
  BY <1>2, <1>4 DEF Mapped, Whole, Buffer, file_size
<1> QED
  BY <1>1, <1>3, <1>4 DEF OpenBuffer

LEMMA ReadBuffer ==
    ASSUME Inv, opening # None, opening.copy # None,
           NEW buffer \in ReadOn(opening.copy), buffer # None
    PROVE  Partial(buffer) \/ Whole(buffer)
<1>1. PICK copy : copy = opening.copy
  OBVIOUS
<1>2. copy \in Copy /\ CopyIsCurrent(copy, opening.path)
  BY <1>1 DEF Inv, TypeOK, OpeningIsCurrent
<1>3. PICK content : content = store[copy.inode].bytes
  OBVIOUS
<1>4. content \in Seq(Byte) /\ Len(content) \in Nat /\ Len(content) <= MaxLength
  BY <1>2, <1>3, EntryType DEF Copy, CopyIsCurrent, Inv, TypeOK
<1>5. copy.bytes \in ByteSeq /\ copy.bytes \in Seq(Byte) /\ copy.inode \in Inode
  BY <1>2, ByteStrings DEF Copy
<1>6. PICK n \in Nat : n = Len(copy.bytes)
  BY <1>5
<1>7. opening.edits = edits =>
         /\ copy.inode = names[opening.path] /\ n <= metadata_len(opening.path)
         /\ metadata_len(opening.path) = Len(content)
  BY <1>2, <1>3, <1>6 DEF CopyIsCurrent, metadata_len, At
<1>8. CASE buffer = Reading(copy.inode, Append(copy.bytes, content[n + 1]))
           /\ n < Len(content)
  <2>1. content[n + 1] \in Byte
    BY <1>4, <1>8, ElementOfSeq
  <2>2. PICK bytes : bytes = Append(copy.bytes, content[n + 1])
    OBVIOUS
  <2>3. bytes \in Seq(Byte) /\ Len(bytes) = n + 1
    BY <1>5, <1>6, <2>1, <2>2
  <2>4. bytes \in ByteSeq
    BY <1>4, <1>8, <2>3, ByteStrings, BufferAssumption
  <2>5. buffer \in Copy /\ buffer.inode = copy.inode /\ buffer.bytes = bytes
    BY <1>5, <1>8, <2>2, <2>4 DEF Reading, Copy
  <2> QED
    BY <1>2, <1>4, <1>7, <1>8, <2>3, <2>5 DEF Partial, CopyIsCurrent
<1>9. CASE buffer = InMemory(copy.bytes) /\ ~(n < Len(content))
  <2>1. buffer \in Buffer /\ buffer.kind = "memory" /\ buffer.bytes = copy.bytes
    BY <1>5, <1>9 DEF InMemory, Buffer
  <2> QED
    BY <1>4, <1>6, <1>7, <1>9, <2>1 DEF Whole, file_size
<1> QED
  BY <1>1, <1>3, <1>6, <1>8, <1>9 DEF ReadOn

-----------------------------------------------------------------------------
(* The steps *)

Untouched == UNCHANGED <<documents, current_doc>>

Opened ==
    /\ documents' \in Seq(DocumentRecord)
    /\ Len(documents') = Len(documents) + 1
    /\ current_doc' = Len(documents')
    /\ SubSeq(documents', 1, Len(documents)) = documents

Committed ==
    /\ documents' \in Seq(DocumentRecord)
    /\ current_doc' = current_doc /\ Len(documents') = Len(documents)
    /\ \A d \in 1 .. Len(documents) : d # current_doc => documents'[d] = documents[d]

(* Loading reads on, adds a document or does nothing; the size of the      *)
(* document is its length unless a change came in between.                 *)
LEMMA LoadStep ==
    ASSUME Inv, load_document_from_path, UNCHANGED disk
    PROVE  Inv' /\ (Untouched \/ Opened)
<1>1. /\ opening # None
      /\ opening.path \in Path /\ opening.size \in Nat /\ opening.edits \in Nat
      /\ alive' = alive
  BY DEF load_document_from_path, Inv, TypeOK
<1>2. PICK buffer \in NextBuffer :
         IF buffer # None /\ buffer.kind = "reading"
         THEN opening' = [opening EXCEPT !.copy = buffer]
              /\ UNCHANGED <<documents, current_doc>>
         ELSE /\ opening' = None
              /\ IF buffer = None THEN UNCHANGED <<documents, current_doc>>
                 ELSE AddDocument(buffer)
  BY DEF load_document_from_path
<1>3. buffer # None => Partial(buffer) \/ Whole(buffer)
  BY <1>1, <1>2, OpenedBuffer, ReadBuffer DEF NextBuffer
<1>4. UNCHANGED <<names, store, edits>>
  BY DEF disk
<1>5. CASE buffer = None
  <2>1. opening' = None /\ UNCHANGED <<documents, current_doc>>
    BY <1>2, <1>5
  <2> QED
    BY <1>1, <1>4, <2>1 DEF Untouched, Inv, TypeOK, OpeningIsCurrent, SizeIsLength, file_size
<1>6. CASE buffer # None /\ Partial(buffer)
  <2>1. buffer.kind = "reading" /\ buffer \in Copy
    BY <1>6 DEF Partial, Copy
  <2>2. opening' = [opening EXCEPT !.copy = buffer] /\ UNCHANGED <<documents, current_doc>>
    BY <1>2, <1>6, <2>1
  <2>3. opening \in [path : Path, size : Nat, edits : Nat, copy : Copy \cup {None}]
    BY <1>1 DEF Inv, TypeOK
  <2>4. /\ opening' \in [path : Path, size : Nat, edits : Nat, copy : Copy \cup {None}]
        /\ opening'.path = opening.path /\ opening'.size = opening.size
        /\ opening'.edits = opening.edits /\ opening'.copy = buffer
    BY <2>1, <2>2, <2>3
  <2>5. TypeOK'
    BY <1>1, <1>4, <2>2, <2>4 DEF Inv, TypeOK
  <2>6. CopyIsCurrent(buffer, opening.path)'
    BY <1>4, <1>6, <2>4 DEF Partial, CopyIsCurrent, metadata_len, At
  <2>7. OpeningIsCurrent'
    BY <1>1, <1>4, <2>4, <2>6
       DEF Inv, OpeningIsCurrent, CopyIsCurrent, Exists, metadata_len, At
  <2> QED
    BY <2>2, <2>5, <2>7 DEF Untouched, Inv, SizeIsLength, file_size
<1>7. CASE buffer # None /\ Whole(buffer)
  <2>1. opening' = None /\ AddDocument(buffer)
    BY <1>2, <1>7 DEF Whole
  <2> DEFINE document ==
         Document(opening.path, opening.size, buffer, edits # opening.edits)
  <2>2. /\ document \in DocumentRecord
        /\ document.size = opening.size /\ document.buffer = buffer
        /\ document.raced = (edits # opening.edits)
    BY <1>1, <1>7 DEF Document, DocumentRecord, Whole
  <2>3. documents' = Append(documents, document) /\ current_doc' = Len(documents')
    BY <2>1 DEF AddDocument
  <2> HIDE DEF document
  <2>4. PICK n \in Nat : n = Len(documents)
    BY DEF Inv, TypeOK
  <2>5. /\ documents' \in Seq(DocumentRecord) /\ Len(documents') = n + 1
        /\ \A d \in 1 .. n : documents'[d] = documents[d]
        /\ documents'[n + 1] = document
        /\ SubSeq(documents', 1, n) = documents
    BY <2>2, <2>3, <2>4 DEF Inv, TypeOK
  <2>6. document.size # file_size(document.buffer) => document.raced
    BY <1>1, <1>7, <2>2 DEF Inv, OpeningIsCurrent, Whole
  <2>7. SizeIsLength'
    <3> SUFFICES ASSUME NEW d \in 1 .. (n + 1),
                        documents'[d].size # file_size(documents'[d].buffer)
                 PROVE  documents'[d].raced
      BY <2>5 DEF SizeIsLength, file_size
    <3> QED
      BY <2>4, <2>5, <2>6 DEF Inv, SizeIsLength
  <2>8. TypeOK' /\ OpeningIsCurrent'
    BY <1>1, <1>4, <2>1, <2>3, <2>5 DEF Inv, TypeOK, OpeningIsCurrent
  <2> QED
    BY <2>3, <2>4, <2>5, <2>7, <2>8 DEF Opened, Inv
<1> QED
  BY <1>3, <1>5, <1>6, <1>7

(* Only the process may end when bytes are read.                           *)
LEMMA FaultStep ==
    ASSUME Inv, Fault, UNCHANGED <<current_doc, opening>>
    PROVE  Untouched /\ SizeIsLength' /\ alive' \in BOOLEAN
BY DEF Fault, Untouched, Inv, SizeIsLength, file_size

(* A schema changes the table of the document that is shown.               *)
LEMMA CommitStep ==
    ASSUME Inv, CommitSchema
    PROVE  (Untouched \/ Committed) /\ SizeIsLength' /\ alive' \in BOOLEAN
<1>1. current_doc \in 1 .. Len(documents) /\ current_doc' = current_doc
  BY DEF CommitSchema, Inv, TypeOK
<1>2. CASE Fault
  BY <1>2, FaultStep DEF CommitSchema
<1>3. ASSUME NEW schema \in Schemas, commit_schema(schema)
      PROVE  Committed /\ SizeIsLength' /\ alive' \in BOOLEAN
  <2>1. Shown \in DocumentRecord /\ Shown = documents[current_doc]
    BY <1>1 DEF Shown, Inv, TypeOK
  <2> DEFINE document == [Shown EXCEPT !.table = schema]
  <2>2. /\ document \in DocumentRecord
        /\ document.size = Shown.size /\ document.buffer = Shown.buffer
        /\ document.raced = Shown.raced
    BY <2>1 DEF DocumentRecord
  <2>3. documents' = [documents EXCEPT ![current_doc] = document] /\ alive' = alive
    BY <1>1, <1>3, <2>1 DEF commit_schema, Inv, TypeOK
  <2> HIDE DEF document
  <2>4. documents \in Seq(DocumentRecord) /\ Len(documents) \in Nat
    BY DEF Inv, TypeOK
  <2>5. /\ documents' \in Seq(DocumentRecord) /\ Len(documents') = Len(documents)
        /\ documents'[current_doc] = document
        /\ \A d \in 1 .. Len(documents) : d # current_doc => documents'[d] = documents[d]
    BY <1>1, <2>2, <2>3, <2>4
  <2>6. SizeIsLength'
    <3> SUFFICES ASSUME NEW d \in 1 .. Len(documents),
                        documents'[d].size # file_size(documents'[d].buffer)
                 PROVE  documents'[d].raced
      BY <2>5 DEF SizeIsLength, file_size
    <3>1. CASE d = current_doc
      BY <1>1, <2>1, <2>2, <2>5, <3>1 DEF Inv, SizeIsLength
    <3>2. CASE d # current_doc
      BY <2>5, <3>2 DEF Inv, SizeIsLength
    <3> QED
      BY <3>1, <3>2
  <2> QED
    BY <1>1, <2>3, <2>5, <2>6 DEF Committed, Inv, TypeOK
<1> QED
  BY <1>2, <1>3 DEF CommitSchema

LEMMA DiskStep ==
    ASSUME Inv, ChangeDisk, UNCHANGED app
    PROVE  Inv'
<1>1. edits' = edits + 1 /\ edits \in Nat
  BY DEF ChangeDisk, Overwrite, Rename, Edit, Inv, TypeOK
<1>2. /\ names' \in [Path -> Inode \cup {None}] /\ store' \in [Inode -> Entry]
      /\ \A inode \in Inode : store[inode].kind = "file" => store'[inode].kind = "file"
  <2>1. CASE Overwrite
    <3>1. PICK path \in Path, bytes \in Contents :
             /\ Exists(path)
             /\ store' = [store EXCEPT ![names[path]] = File(bytes)]
      BY <2>1 DEF Overwrite
    <3>2. names' = names /\ File(bytes) \in Entry /\ File(bytes).kind = "file"
      BY <2>1 DEF Overwrite, Entry, File
    <3> QED
      BY <3>1, <3>2 DEF Inv, TypeOK, Exists
  <2>2. CASE Rename
    BY <2>2 DEF Rename, Inv, TypeOK
  <2> QED
    BY <2>1, <2>2 DEF ChangeDisk
<1>3. TypeOK'
  BY <1>1, <1>2 DEF app, Inv, TypeOK
<1>4. OpeningIsCurrent'
  <2> SUFFICES ASSUME opening # None
               PROVE  /\ opening.edits < edits'
                      /\ opening.copy # None => store'[opening.copy.inode].kind = "file"
    BY <1>1 DEF app, Inv, TypeOK, OpeningIsCurrent, CopyIsCurrent
  <2>1. opening.edits \in Nat /\ opening.edits <= edits
    BY DEF Inv, TypeOK, OpeningIsCurrent
  <2>2. ASSUME opening.copy # None
        PROVE  opening.copy.inode \in Inode /\ store[opening.copy.inode].kind = "file"
    BY <2>2 DEF Inv, TypeOK, Copy, OpeningIsCurrent, CopyIsCurrent
  <2> QED
    BY <1>1, <1>2, <2>1, <2>2
<1>5. SizeIsLength'
  BY DEF app, Inv, SizeIsLength, file_size
<1> QED
  BY <1>3, <1>4, <1>5 DEF Inv

LEMMA InitInv == Init => Inv
BY DEF Init, DiskInit, Inv, TypeOK, OpeningIsCurrent, SizeIsLength

LEMMA NextInv ==
    ASSUME Inv, [Next]_vars
    PROVE  Inv' /\ (Untouched \/ Opened \/ Committed)
<1>1. CASE PickFile /\ UNCHANGED disk
  <2>1. PICK path \in Path :
           /\ Exists(path)
           /\ opening' = [path |-> path, size |-> metadata_len(path), edits |-> edits,
                          copy |-> None]
    BY <1>1 DEF PickFile
  <2>2. metadata_len(path) \in Nat
    BY <2>1, FileType DEF Inv
  <2>3. TypeOK'
    BY <1>1, <2>1, <2>2 DEF PickFile, disk, Inv, TypeOK
  <2>4. OpeningIsCurrent'
    BY <1>1, <2>1 DEF disk, Inv, TypeOK, OpeningIsCurrent, Exists, metadata_len, At
  <2>5. SizeIsLength'
    BY <1>1 DEF PickFile, Inv, SizeIsLength, file_size
  <2> QED
    BY <1>1, <2>3, <2>4, <2>5 DEF PickFile, Inv, Untouched
<1>2. CASE load_document_from_path /\ UNCHANGED disk
  BY <1>2, LoadStep
<1>3. CASE CommitSchema /\ UNCHANGED disk
  <2>1. (Untouched \/ Committed) /\ SizeIsLength' /\ alive' \in BOOLEAN
    BY <1>3, CommitStep
  <2>2. opening' = opening
    BY <1>3 DEF CommitSchema
  <2>3. TypeOK'
    BY <1>3, <2>1, <2>2 DEF disk, Untouched, Committed, Inv, TypeOK
  <2>4. OpeningIsCurrent'
    BY <1>3, <2>2
       DEF disk, Inv, OpeningIsCurrent, CopyIsCurrent, Exists, metadata_len, At
  <2> QED
    BY <2>1, <2>3, <2>4 DEF Inv
<1>4. CASE DrawFrame /\ UNCHANGED disk
  <2>1. Untouched /\ SizeIsLength' /\ alive' \in BOOLEAN
    BY <1>4, FaultStep DEF DrawFrame, Untouched, Inv, TypeOK, SizeIsLength, file_size
  <2>2. opening' = opening
    BY <1>4 DEF DrawFrame
  <2>3. TypeOK' /\ OpeningIsCurrent'
    BY <1>4, <2>1, <2>2
       DEF disk, Untouched, Inv, TypeOK, OpeningIsCurrent, CopyIsCurrent, Exists,
           metadata_len, At
  <2> QED
    BY <2>1, <2>3 DEF Inv
<1>5. CASE ChangeDisk /\ UNCHANGED app
  BY <1>5, DiskStep DEF app, Untouched
<1>6. CASE UNCHANGED vars
  BY <1>6 DEF vars, app, disk, Untouched, Inv, TypeOK, OpeningIsCurrent, SizeIsLength,
              CopyIsCurrent, Exists, metadata_len, At, file_size
<1> QED
  BY <1>1, <1>2, <1>3, <1>4, <1>5, <1>6 DEF Next, AppStep, Killed

-----------------------------------------------------------------------------
(* The theorems *)

(* The invariant of the application.                                       *)
THEOREM ApplicationInvariance == Spec => []Inv
<1>1. Inv /\ [Next]_vars => Inv'
  BY NextInv
<1> QED
  BY InitInv, <1>1, PTL DEF Spec

(* Paging and searching are limited by the real length of the buffer,      *)
(* unless the file was changed while it was being opened.                  *)
THEOREM SizesAreLengths == Spec => []SizeIsLength
<1>1. Inv => SizeIsLength
  BY DEF Inv
<1> QED
  BY <1>1, ApplicationInvariance, PTL

(* No step reaches a document that is not shown, and a file that cannot be *)
(* opened changes none.                                                    *)
THEOREM OthersAreUntouched == Spec => OnlyTheShownChanges
<1> DEFINE Reached ==
       documents' # documents \/ current_doc' # current_doc =>
          \/ /\ current_doc' = current_doc /\ Len(documents') = Len(documents)
             /\ \A d \in 1 .. Len(documents) :
                   d # current_doc => documents'[d] = documents[d]
          \/ /\ Len(documents') = Len(documents) + 1
             /\ current_doc' = Len(documents')
             /\ SubSeq(documents', 1, Len(documents)) = documents
<1>1. Inv /\ [Next]_vars => [Reached]_vars
  BY NextInv DEF Untouched, Opened, Committed
<1> QED
  BY <1>1, ApplicationInvariance, PTL DEF Spec, OnlyTheShownChanges

=============================================================================
