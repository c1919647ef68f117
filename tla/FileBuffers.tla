----------------------------- MODULE FileBuffers -----------------------------
(***************************************************************************)
(* Opening a binary file while other programs may change it: what both     *)
(* front ends do before they interpret anything (open_file_buffer of the   *)
(* command line, load_document_from_path of the GUI) and the two kinds of  *)
(* buffers of buffer.rs.                                                   *)
(*                                                                         *)
(* The length comes from the metadata, the bytes from later calls.  A      *)
(* short file is copied into memory, with one read after the other; a long *)
(* one is mapped, and a mapping shows what the file holds whenever it is   *)
(* read.                                                                   *)
(***************************************************************************)
EXTENDS Naturals, Sequences, FiniteSets

CONSTANTS
    None,
    Path,              \* where binary files are
    Inode,             \* the files a path may name
    Byte,              \* what a byte may be
    Contents,          \* what a file may hold, as sequences of bytes
    MaxLength,         \* bound: the length of a file
    PageSize,          \* of the memory that a file is mapped to
    Threshold,         \* MMAP_THRESHOLD_BYTES
    MaxEdits           \* bound: changes that other programs make to files

File(bytes) == [kind |-> "file", bytes |-> bytes]
Locked(bytes) == [kind |-> "locked", bytes |-> bytes]   \* may not be opened
Directory == [kind |-> "directory", bytes |-> << >>]    \* may not be read

Entry == {File(b) : b \in Contents} \cup {Locked(b) : b \in Contents} \cup {Directory}

ByteSeq == UNION {[1 .. n -> Byte] : n \in 0 .. MaxLength}

ASSUME BufferAssumption ==
    /\ Threshold \in Nat \ {0} /\ PageSize \in Nat \ {0} /\ MaxLength \in Nat
    /\ Byte \subseteq Nat /\ 0 \in Byte
    /\ Contents \subseteq ByteSeq
    /\ None \notin Inode

VARIABLES
    names,             \* the file each path names, or None
    store,             \* what each file holds
    edits              \* changes made so far

disk == <<names, store, edits>>

InMemory(bytes) == [kind |-> "memory", bytes |-> bytes]
Mapped(inode, length) == [kind |-> "mapped", inode |-> inode, len |-> length]

(* A copy in the making: the file stays the one that was opened.           *)
Reading(inode, bytes) == [kind |-> "reading", inode |-> inode, bytes |-> bytes]

DiskInit ==
    /\ names \in [Path -> Inode \cup {None}]
    /\ \A p, q \in Path : names[p] = names[q] /\ names[p] # None => p = q
    /\ store \in [Inode -> Entry]
    /\ edits = 0

Exists(path) == names[path] # None
At(path) == store[names[path]]
metadata_len(path) == Len(At(path).bytes)

(* What opening a path may give; None is the error.  Whether an empty file *)
(* can be mapped is up to the system.                                      *)
OpenBuffer(path, len) ==
    IF ~Exists(path) \/ At(path).kind # "file" THEN {None}
    ELSE IF len < Threshold THEN {Reading(names[path], << >>)}
    ELSE {Mapped(names[path], metadata_len(path))}
         \cup (IF metadata_len(path) = 0 THEN {None} ELSE {})

(* What the next read of fs::read may give: the byte that the file holds   *)
(* by then behind those read before, or at its end the copy.  A read may   *)
(* fail, and one of many bytes is many reads that nothing comes between.   *)
ReadOn(copy) ==
    LET bytes == store[copy.inode].bytes
        position == Len(copy.bytes)
    IN {None, IF position < Len(bytes)
              THEN Reading(copy.inode, Append(copy.bytes, bytes[position + 1]))
              ELSE InMemory(copy.bytes)}

file_size(buffer) ==
    IF buffer.kind = "memory" THEN Len(buffer.bytes) ELSE buffer.len

(* A page of a mapping that starts behind the end of the file cannot be    *)
(* read: the process is killed.                                            *)
Faults(buffer, i) ==
    /\ buffer.kind = "mapped"
    /\ \E start \in Len(store[buffer.inode].bytes) .. (i - 1) : start % PageSize = 0

(* What byte i of the buffer is now; the last page of a file is filled up  *)
(* with zeros.                                                             *)
ByteAt(buffer, i) ==
    IF buffer.kind = "memory" THEN buffer.bytes[i]
    ELSE IF i <= Len(store[buffer.inode].bytes) THEN store[buffer.inode].bytes[i]
    ELSE 0

-----------------------------------------------------------------------------
(* Other programs *)

Edit == edits < MaxEdits /\ edits' = edits + 1

(* A file is written in place: whoever has mapped it sees the new bytes.   *)
Overwrite ==
    /\ Edit
    /\ \E path \in Path, bytes \in Contents :
          /\ Exists(path) /\ At(path).kind = "file"
          /\ store' = [store EXCEPT ![names[path]] = File(bytes)]
    /\ UNCHANGED names

(* A path comes to name another file, or none: a mapping keeps the old one. *)
Rename ==
    /\ Edit
    /\ \E path \in Path, inode \in (Inode \cup {None}) \ {names[p] : p \in Path} :
          names' = [names EXCEPT ![path] = inode]
    /\ UNCHANGED store

ChangeDisk == Overwrite \/ Rename
=============================================================================
