----------------------------- MODULE CommandLine -----------------------------
(***************************************************************************)
(* One run of binocular-cli: main of the command line program.             *)
(*                                                                         *)
(* The arguments are refused or accepted, the file is opened, the schema   *)
(* parsed, the file interpreted, and the rows are written to stdout piece  *)
(* by piece.  Other programs may change the file meanwhile, between any    *)
(* two reads of it, and whoever reads stdout may stop reading: the next    *)
(* write then panics.  Stderr is only written to.                          *)
(***************************************************************************)
EXTENDS FileBuffers, Previews

CONSTANTS
    Arguments,         \* the command lines
    Schemas,           \* the schemas that the schema file may hold
    Interpretation     \* Interpretation[schema][bytes]: the rows

(* A command line: a path or None for the file, and whether each of the    *)
(* options is there.                                                       *)
Cli == [file : Path \cup {None}, schema : BOOLEAN, json : BOOLEAN,
        full_bytes : BOOLEAN, branding : BOOLEAN]

(* A row of the table: it has a value or an error, and no value unless it  *)
(* has a place (Interpreter!RowsWellFormed).  A run of bytes or characters *)
(* was read from as many bytes as the row has.                             *)
IsRow(row) ==
    /\ row.byte_len \in Nat
    /\ row.value \in Value \cup {None}
    /\ row.failed <=> row.value = None
    /\ row.placed \/ row.failed
    /\ row.value # None /\ IsRun(row.value) =>
          row.byte_len = IF row.value.kind = "bytes" THEN Len(row.value.content)
                         ELSE RawLength(row.value.content)

ASSUME CommandLineAssumption ==
    /\ Arguments \subseteq Cli
    /\ \A s \in Schemas : \A bytes \in ByteSeq :
          /\ Len(Interpretation[s][bytes]) \in Nat
          /\ \A r \in 1 .. Len(Interpretation[s][bytes]) : IsRow(Interpretation[s][bytes][r])

ASSUME StatusAssumption == None \notin {0, 1, 2, 7, 101}

VARIABLES
    cli, pc,
    size,              \* the length that the metadata told
    buffer, schema,
    seen,              \* the bytes interpret_schema has read, by position
    rows,              \* what interpret_schema returned
    output,            \* the pieces main is going to write
    stdout,            \* the pieces written
    reader,            \* whether stdout can still be written to
    exit,              \* None, or the status the process ended with
    held               \* what the file has held while it was read

program == <<cli, pc, size, buffer, schema, seen, rows, output, stdout, exit>>
vars == <<program, disk, reader, held>>

Killed == 7            \* SIGBUS, as a status no other path uses
Panicked == 101

(* What the file holds that was opened, as long as the program reads it:   *)
(* whatever its path names by then.                                        *)
HeldNow ==
    IF pc \in {"read", "schema", "interpret"} /\ buffer.kind # "memory"
    THEN {store[buffer.inode].bytes} ELSE {}

-----------------------------------------------------------------------------
(* Output *)

Banner == [piece |-> "banner"]
Version == [piece |-> "version"]
Header == [piece |-> "header"]
Open == [piece |-> "["]
Close == [piece |-> "]"]
Record(row, value) ==
    [piece |-> "record", row |-> row, placed |-> rows'[row].placed,
     value |-> value, failed |-> rows'[row].failed]

Null == [kind |-> "null"]
Dash == [kind |-> "dash"]

JsonRecord(row) ==
    Record(row, IF rows'[row].value = None THEN Null
                ELSE render_json_value(rows'[row].value, rows'[row].byte_len,
                                       cli.full_bytes))

TableRecord(row) ==
    Record(row, IF rows'[row].value = None THEN Dash
                ELSE render_field_value(rows'[row].value, rows'[row].byte_len,
                                        cli.full_bytes))

(* Bug: the early return after the JSON array is missing.                  *)
OutputThroughBoth ==
    LET table == << Header >> \o [r \in 1 .. Len(rows') |-> TableRecord(r)]
    IN IF cli.json
       THEN << Open >> \o [r \in 1 .. Len(rows') |-> JsonRecord(r)] \o << Close >> \o table
       ELSE (IF cli.branding THEN << Banner, Version >> ELSE << >>) \o table

Output ==
    IF cli.json
    THEN << Open >> \o [r \in 1 .. Len(rows') |-> JsonRecord(r)] \o << Close >>
    ELSE (IF cli.branding THEN << Banner, Version >> ELSE << >>)
         \o << Header >> \o [r \in 1 .. Len(rows') |-> TableRecord(r)]

-----------------------------------------------------------------------------
(* The steps of main *)

Exit(status) == pc' = "done" /\ exit' = status

(* Clap wants a file and a schema unless there is --branding; with         *)
(* --branding alone there is only the banner.  What is still missing then  *)
(* is an error, but only after --json has refused to be branded.           *)
ParseArguments ==
    /\ pc = "arguments"
    /\ IF ~cli.branding /\ (cli.file = None \/ ~cli.schema)
       THEN Exit(2) /\ output' = << >>
       ELSE IF cli.branding /\ ~cli.json /\ cli.file = None /\ ~cli.schema
       THEN pc' = "write" /\ exit' = exit /\ output' = << Banner, Version >>
       ELSE IF cli.json /\ cli.branding THEN Exit(2) /\ output' = << >>
       ELSE IF cli.file = None \/ ~cli.schema THEN Exit(1) /\ output' = << >>
       ELSE pc' = "metadata" /\ exit' = exit /\ output' = << >>
    /\ UNCHANGED <<cli, size, buffer, schema, seen, rows, stdout>>

ReadMetadata ==
    /\ pc = "metadata"
    /\ IF Exists(cli.file)
       THEN size' = metadata_len(cli.file) /\ pc' = "open" /\ exit' = exit
       ELSE Exit(1) /\ UNCHANGED size
    /\ UNCHANGED <<cli, buffer, schema, seen, rows, output, stdout>>

(* What opening or reading the file has given.                             *)
Take(result) ==
    /\ IF result = None THEN Exit(1) /\ UNCHANGED buffer
       ELSE /\ buffer' = result
            /\ pc' = IF result.kind = "reading" THEN "read" ELSE "schema"
            /\ exit' = exit
    /\ UNCHANGED <<cli, size, schema, seen, rows, output, stdout>>

OpenFile ==
    /\ pc = "open"
    /\ \E opened \in OpenBuffer(cli.file, size) : Take(opened)

(* Bug: no more bytes are read than the metadata told.                     *)
ReadFileOfSize ==
    /\ pc = "read"
    /\ IF Len(buffer.bytes) >= size THEN Take(InMemory(buffer.bytes))
       ELSE \E copy \in ReadOn(buffer) : Take(copy)

ReadFile ==
    /\ pc = "read"
    /\ \E copy \in ReadOn(buffer) : Take(copy)

(* parse_schema_file is modelled in IncludeLoader.                         *)
ParseSchema ==
    /\ pc = "schema"
    /\ \/ Exit(1) /\ UNCHANGED schema
       \/ schema' \in Schemas /\ pc' = "interpret" /\ exit' = exit
    /\ UNCHANGED <<cli, size, buffer, seen, rows, output, stdout>>

(* interpret_schema is modelled in Interpreter.  It reads a byte when the  *)
(* schema comes to it.                                                     *)
ReadByte ==
    /\ pc = "interpret"
    /\ \E i \in 1 .. file_size(buffer) :
          /\ i \notin DOMAIN seen
          /\ IF Faults(buffer, i) THEN Exit(Killed) /\ UNCHANGED seen
             ELSE /\ seen' = [j \in DOMAIN seen \cup {i} |->
                                IF j = i THEN ByteAt(buffer, i) ELSE seen[j]]
                  /\ UNCHANGED <<pc, exit>>
    /\ UNCHANGED <<cli, size, buffer, schema, rows, output, stdout>>

(* Nothing is written before all rows are there.                           *)
Interpret ==
    /\ pc = "interpret"
    /\ DOMAIN seen = 1 .. file_size(buffer)
    /\ rows' = Interpretation[schema][seen]
    /\ output' = Output
    /\ pc' = "write"
    /\ UNCHANGED <<cli, size, buffer, schema, seen, stdout, exit>>

(* Bug: a write that fails is ignored.                                     *)
WriteQuietly ==
    /\ pc = "write"
    /\ IF output = << >> THEN Exit(0) /\ UNCHANGED <<output, stdout>>
       ELSE /\ stdout' = IF reader THEN Append(stdout, Head(output)) ELSE stdout
            /\ output' = Tail(output)
            /\ UNCHANGED <<pc, exit>>
    /\ UNCHANGED <<cli, size, buffer, schema, seen, rows>>

(* print! panics when the write fails.  A piece of JSON leaves the buffer  *)
(* of stdout when that is full, so the reader may get a part of the array. *)
Write ==
    /\ pc = "write"
    /\ IF output = << >> THEN Exit(0) /\ UNCHANGED <<output, stdout>>
       ELSE IF reader
       THEN /\ stdout' = Append(stdout, Head(output))
            /\ output' = Tail(output)
            /\ UNCHANGED <<pc, exit>>
       ELSE Exit(Panicked) /\ UNCHANGED <<output, stdout>>
    /\ UNCHANGED <<cli, size, buffer, schema, seen, rows>>

Step ==
    \/ ParseArguments \/ ReadMetadata \/ OpenFile \/ ReadFile \/ ParseSchema
    \/ ReadByte \/ Interpret \/ Write

(* Other programs: the file changes, the reader of stdout goes away.       *)
Environment ==
    /\ pc # "done"
    /\ UNCHANGED program
    /\ \/ ChangeDisk /\ UNCHANGED reader
       \/ reader /\ reader' = FALSE /\ UNCHANGED disk

Done == pc = "done" /\ UNCHANGED <<program, disk, reader>>

Init ==
    /\ DiskInit
    /\ cli \in Arguments
    /\ pc = "arguments"
    /\ size = 0
    /\ buffer = None /\ schema = None
    /\ seen = << >> /\ rows = << >> /\ output = << >> /\ stdout = << >>
    /\ reader = TRUE
    /\ exit = None
    /\ held = {}

Next ==
    /\ (Step /\ UNCHANGED <<disk, reader>>) \/ Environment \/ Done
    /\ held' = held \cup HeldNow'

Spec == Init /\ [][Next]_vars

-----------------------------------------------------------------------------
(* Properties *)

Written == {i \in 1 .. Len(stdout) : stdout[i].piece = "record"}

(* With --json stdout is for a program to parse (main.rs:3-7): whatever    *)
(* else is on the command line and whatever fails, nothing but the array   *)
(* is ever on it, it stays empty unless there are rows to show, and a run  *)
(* that reports success has closed the array and said nothing after it.    *)
JsonIsPure ==
    cli.json =>
       /\ Written \cup {i \in 1 .. Len(stdout) : stdout[i] \in {Open, Close}}
             = 1 .. Len(stdout)
       /\ \A i \in 1 .. Len(stdout) :
             /\ stdout[i] = Open <=> i = 1
             /\ stdout[i] = Close => i = Len(stdout)
       /\ stdout # << >> => exit \in {None, 0, Panicked}
       /\ exit = 0 => Len(stdout) >= 2 /\ stdout[Len(stdout)] = Close

(* Status 0 means that every row of the interpretation has been written,   *)
(* in order and once, whether as a table or as JSON; rows are written in   *)
(* order and none is left out before one that is there, however the run    *)
(* ends.                                                                   *)
StatusTellsTheOutput ==
    /\ \A i \in Written : stdout[i].row = Cardinality(Written \cap (1 .. i))
    /\ exit = 0 => Cardinality(Written) = Len(rows)

(* A row that is shown without a value says why: it has an error.  The     *)
(* exception is JSON's null for a float that is infinite or no number,     *)
(* which the table shows.                                                  *)
MissingValuesAreExplained ==
    \A i \in Written :
       LET row == rows[stdout[i].row]
       IN /\ stdout[i].value \in {Null, Dash} =>
                \/ stdout[i].failed
                \/ cli.json /\ row.value = Float(FALSE)
          /\ stdout[i].placed \/ stdout[i].failed

(* Dots stand for something that is left out, and nothing is left out      *)
(* without them or if all of the bytes were asked for; what is shown is    *)
(* as many whole characters from the start as fit.                         *)
PreviewsAreHonest ==
    \A i \in Written :
       LET row == rows[stdout[i].row]
           shown == stdout[i].value
       IN row.value # None /\ IsRun(row.value) =>
             /\ shown.more <=> shown.shown < Len(row.value.content)
             /\ cli.full_bytes => ~shown.more
             /\ row.value.kind = "ascii" /\ shown.more =>
                   /\ Widths(row.value.content)[shown.shown] <= MaxDisplay
                   /\ Widths(row.value.content)[shown.shown + 1] > MaxDisplay

(* The two front ends cut a value at the same place.                       *)
FrontEndsAgree ==
    ~cli.full_bytes =>
       \A i \in Written :
          LET row == rows[stdout[i].row]
          IN row.value # None /\ IsRun(row.value) =>
                stdout[i].value = format_value(row.value, row.byte_len)

(* What the rows say can be relied on in both front ends: no value is left  *)
(* out without an error, dots stand for what really is left out, and the   *)
(* command line and the GUI cut a value at the same place.                 *)
RecordsAreHonest ==
    /\ MissingValuesAreExplained
    /\ PreviewsAreHonest
    /\ FrontEndsAgree

(* Byte i was read from the file that was opened, from its place and at    *)
(* some moment of the reading; a mapping shows zeros where the file ended. *)
ReadFromFile(i) ==
    \E bytes \in held :
       IF i <= Len(bytes) THEN seen[i] = bytes[i]
       ELSE buffer.kind = "mapped" /\ seen[i] = 0

Interpreted == schema # None /\ pc \in {"write", "done"} /\ exit # Killed

(* Metadata, opening, each read of a copy and each read of a mapping come  *)
(* one after the other, and the file may be written, cut off, or replaced  *)
(* under its path between any two of them.  Still the rows mix no two      *)
(* files, they are those of a whole content unless somebody wrote into the *)
(* file while it was read, and a growing file is not cut off at the length *)
(* that was told first.  The process is killed only if a mapped file has   *)
(* become shorter.                                                         *)
RowsAreOfTheFile ==
    /\ \A i \in DOMAIN seen : ReadFromFile(i)
    /\ Interpreted =>
          /\ \E bytes \in held : Len(bytes) <= Len(seen)
          /\ \A bytes \in held : held = {bytes} => rows = Interpretation[schema][bytes]
    /\ exit = Killed =>
          buffer.kind = "mapped" /\ \E bytes \in held : Len(bytes) < buffer.len

=============================================================================
