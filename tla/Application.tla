----------------------------- MODULE Application -----------------------------
(***************************************************************************)
(* The GUI application around its documents (struct BinOcularApp): files   *)
(* are opened, schemas are loaded into the document that is shown, and the *)
(* hex view reads its buffer on every frame, while other programs change   *)
(* the files on disk.                                                      *)
(*                                                                         *)
(* Of a document only what depends on the file is kept here: the recorded  *)
(* size, the buffer, and what the rows were made from.  The rest of it is  *)
(* modelled in Document.                                                   *)
(***************************************************************************)
EXTENDS FileBuffers

CONSTANTS
    Schemas,           \* what parsing a schema file may give
    MaxDocuments       \* bound: files opened

VARIABLES
    documents,         \* the documents opened, oldest first
    current_doc,       \* the index of the one shown, or None
    opening,           \* the path picked, the size told, what is copied so far
    alive              \* FALSE once the process has been killed

app == <<documents, current_doc, opening, alive>>
vars == <<app, disk>>

(* The rows of a table are a function of the schema and of the bytes that  *)
(* were read; only the schema is kept.  raced remembers whether a file was *)
(* changed between the reading of its metadata and the last of its bytes.  *)
Document(path, size, buffer, raced) ==
    [path |-> path, size |-> size, buffer |-> buffer, table |-> None, raced |-> raced]

Shown == documents[current_doc]

(* The dialog has returned a path: its metadata is read.  A path that      *)
(* cannot be opened, or is no file, changes nothing.                       *)
PickFile ==
    /\ opening = None /\ Len(documents) < MaxDocuments
    /\ \E path \in Path :
          /\ Exists(path) /\ At(path).kind # "directory"
          /\ opening' = [path |-> path, size |-> metadata_len(path), edits |-> edits,
                         copy |-> None]
    /\ UNCHANGED <<documents, current_doc, alive>>

(* What the next call for the file that is being opened may give.          *)
NextBuffer ==
    IF opening.copy = None THEN OpenBuffer(opening.path, opening.size)
    ELSE ReadOn(opening.copy)

AddDocument(buffer) ==
    /\ documents' = Append(documents,
          Document(opening.path, opening.size, buffer, edits # opening.edits))
    /\ current_doc' = Len(documents')

(* Bug: the new document is made current before it is there.               *)
OpenBeforeReading ==
    /\ opening # None
    /\ current_doc' = Len(documents) + 1
    /\ \E buffer \in NextBuffer :
          IF buffer # None /\ buffer.kind = "reading"
          THEN opening' = [opening EXCEPT !.copy = buffer] /\ UNCHANGED documents
          ELSE /\ opening' = None
               /\ IF buffer = None THEN UNCHANGED documents ELSE AddDocument(buffer)
    /\ UNCHANGED alive

(* Bug: only the part up to the threshold is mapped.                       *)
OpenPartly ==
    /\ opening # None
    /\ \E buffer \in NextBuffer :
          IF buffer # None /\ buffer.kind = "reading"
          THEN opening' = [opening EXCEPT !.copy = buffer]
               /\ UNCHANGED <<documents, current_doc>>
          ELSE /\ opening' = None
               /\ IF buffer = None THEN UNCHANGED <<documents, current_doc>>
                  ELSE AddDocument(IF buffer.kind = "mapped" /\ buffer.len > Threshold
                                   THEN [buffer EXCEPT !.len = Threshold] ELSE buffer)
    /\ UNCHANGED alive

(* The handler runs from the dialog to the end: nothing else of the        *)
(* program happens while a file is read.                                   *)
load_document_from_path ==
    /\ opening # None
    /\ \E buffer \in NextBuffer :
          IF buffer # None /\ buffer.kind = "reading"
          THEN opening' = [opening EXCEPT !.copy = buffer]
               /\ UNCHANGED <<documents, current_doc>>
          ELSE /\ opening' = None
               /\ IF buffer = None THEN UNCHANGED <<documents, current_doc>>
                  ELSE AddDocument(buffer)
    /\ UNCHANGED alive

(* Whoever reads the buffer that is shown may come to a page that cannot   *)
(* be read: which bytes are read depends on the schema and on the scroll   *)
(* position.                                                               *)
MayFault ==
    /\ current_doc # None
    /\ \E i \in 1 .. file_size(Shown.buffer) : Faults(Shown.buffer, i)

Fault == MayFault /\ alive' = FALSE /\ UNCHANGED documents

(* commit_schema, as the schema menu, Reload and Apply run it.             *)
commit_schema(schema) ==
    /\ documents' = [documents EXCEPT ![current_doc].table = schema]
    /\ UNCHANGED alive

CommitSchema ==
    /\ opening = None /\ current_doc # None
    /\ Fault \/ \E schema \in Schemas : commit_schema(schema)
    /\ UNCHANGED <<current_doc, opening>>

(* A frame reads the bytes of the page.                                    *)
DrawFrame ==
    /\ opening = None
    /\ Fault \/ UNCHANGED <<documents, alive>>
    /\ UNCHANGED <<current_doc, opening>>

AppStep ==
    /\ alive
    /\ PickFile \/ load_document_from_path \/ CommitSchema \/ DrawFrame
    /\ UNCHANGED disk

Init ==
    /\ DiskInit
    /\ documents = << >>
    /\ current_doc = None
    /\ opening = None
    /\ alive = TRUE

Killed == ~alive /\ UNCHANGED vars

Next == AppStep \/ (ChangeDisk /\ UNCHANGED app) \/ Killed

Spec == Init /\ [][Next]_vars

-----------------------------------------------------------------------------
(* Properties *)

(* The size that limits paging and searching is the length of the buffer,  *)
(* unless a file was changed while it was opened and read.                 *)
SizeIsLength ==
    \A d \in 1 .. Len(documents) :
       documents[d].size # file_size(documents[d].buffer) => documents[d].raced

(* A file that fails to open leaves the document on the screen and all     *)
(* others as they were; one that opens is added and shown; no step reaches *)
(* a document that is not on the screen.                                   *)
OnlyTheShownChanges ==
    [][ /\ documents' # documents \/ current_doc' # current_doc =>
             \/ /\ current_doc' = current_doc /\ Len(documents') = Len(documents)
                /\ \A d \in 1 .. Len(documents) :
                      d # current_doc => documents'[d] = documents[d]
             \/ /\ Len(documents') = Len(documents) + 1
                /\ current_doc' = Len(documents')
                /\ SubSeq(documents', 1, Len(documents)) = documents ]_vars
=============================================================================
