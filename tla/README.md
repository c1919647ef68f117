# BinOcular in TLA+

BinOcular shows what is inside a binary file: a YAML *schema* names fields, their
places and their types, and the program turns the file into a table of rows. This
directory holds a specification of the parts whose behaviour is not obvious from a
unit test, the TLC configurations that check it on small instances, and proofs of
its central properties for every file, schema and integer width.

`PROJECT.json` is the index: which definition stands for which lines of the code
(`map`), which run checks what (`runs`), which plausible bug each property would
catch (`mutants`), what is hard to test in this code (`hazards`).

## 1. The system

Four crates: `binocular-schema` (the schema language and its loader),
`binocular-core` (buffers and the interpreter), `binocular-cli` and
`binocular-gui` (two front ends). There are no threads. What is hard here is
sequential: long passes with many early returns that must all leave the right
trace, recursion over files that others may change, arithmetic at the edges of
its types, and a graphical document whose two dozen pieces of state are updated
by two dozen handlers in whatever order the user chooses.

| component | state it keeps | operations | what makes it correct |
|---|---|---|---|
| schema AST (`ast.rs`) | none | types, the deserializer of a condition | - |
| validation (`parser.rs:47-384`) | none | `validate_schema` and its parts | accepts only schemas the interpreter can run |
| include loader (`parser.rs:386-651`) | the stack of canonical paths being read | three entry points, one recursion | returns, finds every circle and nothing else, merges in order, blames the right file |
| YAML decoding | none | `serde_yaml`, `parse_raw_schema_str` | - |
| interpreter (`interpret.rs`) | the context (name -> latest value), the rows | `interpret_schema`, `interpret_field` | every item leaves its rows, a failure stays local, references see the latest value, no read or offset wraps |
| buffers (`buffer.rs`) | the bytes, or a mapping of a file | open, `len`, `read_bytes` | reads inside the file or fails; what is shown was in the file that was opened |
| byte search (`gui/main.rs:877-951`) | one scan | `find_byte_pattern_matches`, `visible_search_ranges` | exactly the occurrences, in order |
| GUI document (`gui/main.rs:104-709` and the panes) | schema, table, editor, diagnostics, selection, filter, page, search | one handler for each gesture | the panes agree about one schema, one selection and one search |
| schema editor text and schema diagnostics (`gui/main.rs:1013-1318`, `2356-2392`) | text, cursor, marks | cursor to line to name to bytes; the place and the quotation of an error | positions in characters, bytes and lines mean the same place |
| drawing (`gui/main.rs`, the `draw_*` and `format_*` functions) | the two splitters | a frame | what is drawn is what the state says; panes fit and stay |
| GUI application (`gui/main.rs`, `BinOcularApp`) | list of documents, the one shown | open a file, commit a schema, a frame | a failed open changes nothing; the size is that of the buffer |
| command line (`cli/main.rs`) | none | `main` | stdout is what a script may rely on |
| release script, CI | none | - | not modelled |

How they interact: the front ends open a file (metadata first, bytes later) and call
the loader, the loader calls validation on every merged schema, a schema that was
loaded is given to the interpreter with the buffer, the command line writes the rows
and the document keeps them. All of these are plain calls. The only concurrent
actors are outside the program: other programs that write the schema files (the
loader reads several of them, one after the other) or the binary file (its size is
read before its bytes, a copy takes several reads, and a mapping shows what the file
holds later), whoever reads
the command line's stdout and may stop, and the user, who decides which handler runs
next.

Behaviours that are hard to get right: failures in the middle of nested loops;
names that coincide (a field may be called `t[0].a`); `usize` narrower than `u64`;
includes in a circle, twice along different paths, or through links; files that
change during a load, while they are copied or after they were mapped; a pattern
across a chunk boundary; state that refers to a text or a table replaced since;
positions that count characters in one place and bytes in another; splitters kept as
fractions and clamped in every frame.

## 2. Modules

| module | what it is | stands for |
|---|---|---|
| `SchemaModel` | the schema language, integer widths, display names | `ast.rs` |
| `SchemaValidation` | `validate_schema` as predicates | `parser.rs:47-384` |
| `Interpreter` | state machine of one pass and its properties | `interpret.rs`, `error.rs`, `buffer.rs` |
| `RowBlocks` | abstract specification: what the table promises | - |
| `InterpreterBlocks` | `Interpreter` with a history variable, and the refinement of `RowBlocks` | - |
| `IncludeLoader` | the recursion over files as a stack of frames | `parser.rs:386-651` |
| `LoaderReference` | loading defined over the include graph, for comparison with the loader | - |
| `SchemaErrors` | composes the loader with the diagnostic the GUI makes of its answer | `gui/main.rs`, `schema_error_diagnostic` and what it calls |
| `ByteSearch` | the chunked scan | `gui/main.rs:877-917` |
| `HexRanges` | the parts of matches in a window | `visible_search_ranges` |
| `Document` | the state and handlers of a GUI document | `gui/main.rs` |
| `HexPage` | what a frame computes from that state: hex page, paint, status of the search | `gui/main.rs`, `draw_*` |
| `DocumentView` | the same for the table and the list of diagnostics; extends `HexPage` | `gui/main.rs`, `draw_*` |
| `SchemaText` | positions in the text of the editor | `gui/main.rs`, name spans and the layout of the editor |
| `PaneLayout` | the splitters, frame by frame | `draw_document_view`, `pane_widths` |
| `FileBuffers` | opening a file that other programs change | `buffer.rs` and its callers in both front ends |
| `Application` | documents and the files under them; extends `FileBuffers` | `BinOcularApp` |
| `Previews` | how long values are cut | `format_*` of the GUI, `render_*` of the CLI |
| `CommandLine` | one run of the program; extends `FileBuffers` and `Previews` | `cli/main.rs` |
| `*Proofs` | theorems about `Interpreter` with `RowBlocks` (`InterpreterProofs`), `IncludeLoader` with `LoaderReference` and `SchemaErrors` (`IncludeLoaderProofs`), `ByteSearch`, `Document` with `HexPage` and `DocumentView` (`DocumentProofs`), `SchemaText`, `PaneLayout`, `Application`, `CommandLine` | - |
| `MC*` | the values of the constants for the runs | - |

A definition whose comment begins with "Bug:" is not part of a specification: it is
the form a definition of the model would have if the code had that bug, and
`PROJECT.json` names the property that finds it.

### How they correspond to the code

**SchemaModel.** A display name is the sequence of identifiers and indices its text
spells: `<<t, 0, a>>` is `t[0].a`. The empty sequence is a blank string, which is all
validation asks about the text of a name. Integer widths are scaled by `ByteBase`,
the number of values of a byte: with 256 they are Rust's, with 2 a `u64` has eight
bits and an `i32` four. `UsizeMax`, `MaxRepeatCount` and `MaxBit` are constants.
Expressions nest at most two operators deep (the bound `ExprDepth` named in the
module); the code bounds them by the YAML parser's recursion limit only. The
evaluation is therefore written without recursion, as three operators.

**Interpreter.** `pc` names the loop the pass is in (`item`, `field`, `instance`,
`child`, `childRepeat`), `item`, `index`, `child`, `childIndex` are the loop
variables, `base` the placement of the current instance. One action is one turn of
a loop or one of its early exits: `SkipField`, `RejectField`, `EnterField` are the
three answers of `should_interpret_field`; `RejectPlacement` is the `continue` after
a failed placement, `RejectUnstrided` the `return` for a missing stride. `PushRow`
is the row together with the context entry that `interpret_scalar_at` records. The
error text of a row is abstracted to the variant of `InterpretError`. A decoded
number is kept, because later rows depend on it; the content of floats, bytes and
text is not, it is the slice at the row's offset.

**RowBlocks** promises: each item of the schema, in order, adds one block of rows, and
which blocks are possible is known from the text of the item. The freedom that is
left is whether a condition held, failed or could not be evaluated, and whether an
instance could be placed. `InterpreterBlocks` adds `mark`, the number of rows when the
current item was reached, and maps the abstract table to the first `mark` rows, so
the rows of an item appear at once, when the pass leaves it.

**IncludeLoader.** A file is a path, a path is a directory and a name; `Canon` and
`CanonDir` follow links for files and for directories, because
`normalize_for_cycle` follows the former only if the file exists and falls back to
the latter. A frame of the stack holds what an activation of
`parse_schema_source_inner` holds: the path, the document, the next item, the
structures and fields collected. `Open` is the part before the loop (cycle check,
parse, byte order), `TakeItem` and `Include` are turns of the loop, `FinishFile` is
the validation of the merged schema and the return into the including frame. A step
canonicalizes, reads and parses a file; `ReplaceFile` (another program) may occur
between any two steps, at most `MaxEdits` times in one call. Which links there are is
chosen at the start and does not change during a call; that `parse_schema_source_inner`
canonicalizes again after the read and checks again is part of the same step. Left out: errors of
`canonicalize` for a directory that does not exist, and of `current_dir`.

**LoaderReference** says the same without a traversal. `Graph` gives every path its content
with each include replaced by the file that it leads to; `Reachable` is what a finite
number of includes lead to, `FlatSchema` the structures and fields of a file with its
includes in their places, unfolded as often as there are paths. `Legal` is the
verdict that a call must agree with, `Readable` and `Circular` are its parts for one file. Its recursive definitions are functions on `0 .. n`, so
that they can be reasoned about.

**SchemaErrors** adds to the loader what happens to its answer: `ShowError` is
`schema_error_diagnostic`, with the line that the YAML parser tells (possibly the one
behind the last, possibly none) and the length of the text chosen when they first
matter. A text is its number of lines; quoting it is choosing an interval of them.

**ByteSearch.** One action per comparison, one per chunk read. `size` is the recorded
size and `file` the bytes, chosen independently, because the code reads the metadata
first. The slice of a comparison that leaves the chunk is `Panic`, as an index out of
range is in Rust. Bytes are compared only, so two values suffice.

**Document.** A step is one gesture with the whole handler it runs: `LoadSchema`,
`reload_schema_from_disk`, `apply_schema_editor`, `EditText`, a click on a line of the
editor, a row, a group or a diagnostic, a click outside the panes, the filter, the
offset box and its buttons, the search box and its buttons, and `DrawFrame`, which
honours and clears the pending requests to scroll. The parser, the interpreter and the
search are represented by what they may answer: a text has a set of tables and a set
of errors (its includes are on disk and change), a query has an answer for each mode.
Which line matches a row, which row matches a line, what a filter hides, and how a
page is chosen are modelled in full, because the properties are about them. Filters
compare one identifier instead of a substring. The text of the offset box, the
cursor's position and the two handlers' branches for a missing schema path are left
out: the buttons that would reach those branches are disabled (`main.rs:2416-2432`).
A search that panics (section 5) ends the program and is not an answer here.

**HexPage, DocumentView** have no state of their own. They compute what the frame after a
gesture draws: `HexPage` the rows of the hex page at each width that fits, what each byte is
painted as and the status of the search, `DocumentView` the items of the table and the order
in which their rows are drawn, which rows are drawn as selected, the list of diagnostics
with its counts. `BufferLen` is the length of the buffer and `Size` the size recorded, which differ only
if the file changed while it was opened (`Application`).

**SchemaText** looks at the same editor with positions instead of names: a text is a
sequence of characters of one or two bytes (`name:` is one element of five), with line
ends of one byte or two, quotes, escapes and comments. A step types, moves the cursor
or selects a row; the frame lays the text out with the range that was found in the
text before the step. Lines are given by what they are: the characters before which the same
number of lines ends. Single quotes behave as double quotes without escapes and are
left out, and so are names with indices, which `strip_repeat_indexes` removes. Which name a row
leads to is `Document`'s.

**PaneLayout.** A step is a frame: the window has some width, `pane_widths` clamps both
splitters and stores them back, and a drag moves one of them for the next frame. An
`f32` fraction is modelled as a quotient of integers, so rounding is by whole units,
coarser than in the code; `f32::clamp` panics if its limits cross, and so does the
model.

**FileBuffers, Application.** A path names a file or none; other programs write a file
in place or make a path name another file, at most `MaxEdits` times. A short file is
copied: `OpenBuffer` opens it and `ReadOn` is the next read of `fs::read`, a byte of what
the file holds by then, until the file ends; a read of many bytes is many such steps that
nothing comes between. So a copy may mix two contents of one file, as it may in the
program, but stays with the file that was opened. A long file is mapped: `ByteAt` is what
it holds when the byte is read, zero behind its end up to the end of the page
(`PageSize`), and a page that starts behind the end kills the process (`Faults`). A
mapping keeps its file when the path is given to another one.

`PickFile` reads the metadata, `load_document_from_path` opens what is there by then and
reads it, one call in each step, `CommitSchema` interprets what the buffer shows,
`DrawFrame` reads the page. Which bytes these two come to is up to the schema and to the scroll
position, so that either may or may not touch a page that is gone (`Fault`). A document
here is its size, its buffer and the schema of its table; `raced` remembers whether a file
changed between the metadata and the last byte.

**CommandLine, Previews.** `pc` names the call of `main` that comes next; each early exit
sets `exit` to the code the program has for it. What `main` prints is a sequence of
pieces (brand, header, records, brackets), written one by one, so that the file and the
reader of stdout may change in between; a write that nobody reads panics, as `println!`
does. `ReadFile` is one read of the copy. `ReadByte` is one byte of the interpreter's pass,
each read once and in any order, so that a mapped file may change between two of them; a
pass that leaves a byte out is one to which that byte makes no difference. (The program reads
a byte that several fields share once for each; of a mapping that is written meanwhile these
reads may differ, and the property holds of each of them.) Rows come from
`Interpretation`, a constant: what the interpreter makes of the bytes it has `seen`, under
each schema. `held` remembers what the opened file has held while it was read. `Previews`
keeps of a character two lengths, its own and that of the bytes it stands for, since they
differ for replacement characters.

## 3. Runs

Every run starts TLC with deadlock checking on; the modules whose program ends have a
step that stutters then (`Done`, or `Killed` in `Application`).

| run | instance | what it shows |
|---|---|---|
| `interpreter` | schemas of one to three items out of 31 and, in some, nine about long lengths; five files of 0-15 bytes; base 2, a `u64` of eight bits, a `usize` of four | the rows are right: types, context, places and bounds, references, locality, number; no field is hidden; validated schemas have no structural error; nothing is cut off by a cast; the pass implements `RowBlocks`, and so reaches every item |
| `include_loader` | four files in two directories with a file link and a directory link, every entry point, no edits; texts of up to six lines | loading succeeds exactly for legal include graphs, returns the depth-first merge, its error names a file at fault, and the panel quotes the line at fault or nothing |
| `include_loader_edits` | up to two replacements per call | no file is read within itself, reported circles are real, every call returns |
| `include_defaults` | as `include_loader` | violated: see section 5 |
| `byte_search` | files of up to 7 bytes, patterns up to 4, chunks of 2, recorded sizes 0-7 | all occurrences, each once; a panic exactly for short tails |
| `search_panics` | as `byte_search` | violated: see section 5 |
| `document_editor` | two schema files, three texts, two tables of three rows, a page of 3 in a file of 4 bytes | editor, diagnostics, selection, marks and the table drawn agree; what is selected is uncovered; what waits to scroll is scrolled to |
| `document_search` | two modes, five queries with every kind of answer, a page of 4 in a file of 6, rows of 1 to 5 bytes | search state, page, paint, status and error line agree; the current match is on the page |
| `command_line` | all 32 command lines, files of 0 to 3 bytes mapped from 2 on to pages of 2, two schemas, two changes to the file, values on either side of a limit of 4 | JSON is pure, status 0 means all rows, values are cut honestly and in both front ends alike, rows are of the file that was opened and, unless it is written meanwhile, of the whole of it |
| `application` | two paths, two files of which each may be absent, locked or a directory, two documents, two changes | the size is the buffer's, a failed open changes nothing, no step reaches a hidden document |
| `pane_layout` | windows 0 to 16 units wide, least widths 3, 2, 2, splitters of 1, drags of 1, 2 and 9 units either way | panes fit and nothing panics, a redraw moves nothing, a drag moves the other splitter by pushing only |
| `schema_text` | all texts of up to four elements out of ten | every click finds the line and the name it is on; the layout loses no byte, also when laid out with a range of the text before |

**Why the bounds are enough.** The interpreter carries information from one item to
another only through the context, so a source, an item that overwrites or uses it, and
one that uses the result exercise every flow; the catalogue holds for each rule of
validation an item that breaks it, and for each error an item that runs into it with
one of the files. With base 2 the limits of all widths lie within reach of the
literals, and with a `usize` of four bits lengths lie on either side of what the
machine can hold. For the loader, four files are a root, a chain of two and a second
branch: diamonds, circles of length one to three, circles entered from outside, and
faults at each depth occur; six lines leave two on either side of a line and more
beyond. Chunks of 2 and patterns of up to 4 give patterns shorter than, equal to and
longer than a chunk, and up to four chunks. The two tables of the document share names,
disagree about offsets, and hold a failed row, one without a place, one past the end,
one of no bytes, and a group whose rows are not neighbours; the file is longer than a
page and not a multiple of it; matches overlap each other, the selection and both ends
of the page. An open asks for the metadata and then reads a byte at a time, so two changes
give a race with the metadata and one with the bytes, or two with the bytes; three bytes in
pages of two have a byte behind the end of a shortened file on its last page and one on a
page that is gone; the second document shows what an open does to the first. The widths of the
panes lie on both sides of the least one, and a drag of 9 overshoots every limit. Four
elements hold a key, a quote, a name and a line end, or a wide character before them; what
this leaves out are names of several words.

**Fairness.** `Interpreter` assumes weak fairness of the next step and `IncludeLoader`
of its own steps (`Load`), not of `ReplaceFile`: each is one call of a sequential function
that runs until it returns. `Document` assumes weak fairness of `DrawFrame`: the event
loop draws a frame after every input (`egui` calls `update`), and nothing is assumed
about the user. `ScrollsAreHonoured` therefore makes an exception for a row that the
user keeps hiding. The other specifications assume nothing: their properties are about
safety.

## 4. Proofs

Checked by TLAPS for every value of the constants that the named assumptions allow:
`WidthAssumption` (a byte has an even number of values; `usize` is no wider than
`u64`), `InputAssumption` (files consist of bytes and fit `usize`; schemas are schemas,
valid or not), `PathAssumption` and `ContentAssumption` (finitely many paths, following
links twice is following them once, contents are documents or no YAML), `ChunkAssumption`
(chunks are not empty), `DocumentAssumption` (answers of parser and search are such),
`ViewAssumption` (rows of the hex page are not empty), `LinesAssumption` (texts have lines),
`TextAssumption` (texts in the editor have some greatest length, which no theorem depends on),
`LayoutAssumption` (widths are natural numbers and not all zero), `BufferAssumption`,
`CommandLineAssumption` (rows have a value or an error), `DisplayAssumption`, and those that
say that `None` is no other value. That the matches a query is answered with are in
file order is part of `DocumentAssumption`; `MatchesAreOrdered` proves it of the search.

The provers know nothing of recursion, and the library's induction theorems cannot be
instantiated. Induction is done by hand: if some number is a counterexample there is a least
one (`NatLeast`). For a recursive function this gives four lemmas, that a function
satisfying its equations exists up to every number (`...IsDefined`), that `CHOOSE` therefore
picks one (`...Chosen`), that any two agree (`...Agree`), and what the operator is at zero and
at the next number (`...None`, `...Next`). Everything else is proved from the last two.

*InterpreterProofs.* The lemmas follow the calls of the code from the inside out. A call
that may fail is said to *yield* a value of one set or an error of another (`Yields`);
there is a lemma for each resolver, for the evaluation of expressions and conditions,
for the placement of elements, children and instances, for decoding, and for each way
a row comes about. `StepEffect` sums up what a step does to rows and context: nothing,
one row with or without a context entry, or the error rows of an instance; `ControlStep`
says that the loop variables keep their places. From these:

- `TypeCorrect`: `TypeOK` is inductive as it stands, because it says which structure and
  which child exist at each `pc`.
- `RowsAreWellFormed`: each new row is well formed, the older ones are unchanged. That
  repeats lie where their index counts (`PlacesAreCounted`) is carried by `PlacesStep` from
  one turn of a loop to the next: a sum that does not fit yields an error, and every other
  one is exact (`AdvanceIsExact`). So no offset wraps, not even to a place in the file.
- `ValidationIsSufficient`: a row's error is structural only if its field, or the
  repeat of its instance, breaks a rule of `validate_schema`; this is the fact that
  connects the two crates.
- `ContextIsTheRows`: an entry of the context is the value of the latest row of its
  name that has one. A new row becomes the latest of its own name and no other's.

`ReferencesLookBack` is about past moments: what a row says of a context that
has changed since. `Referred` says it of the row's own moment, in terms of the context;
`ContextIsLastSuccess` turns the context into rows (`DenotedRow`); and what was true of
the rows before a row stays true of them as the table grows (`RefersInPrefix`). A failed
instance adds many rows at once, which have neither place nor value and so refer to
nothing (`OtherSteps`). `FieldsShowThemselves` has two halves. The one about fields that refer
to nothing needs `FieldsShown`, which adds the field whose loop has turned but has not been
left: `ItemStep` shows that nothing but the end of that loop leaves a static field behind. The one
about hidden fields needs `AllTold`, which says the same of every field and every child; a
step that leaves one behind without a row is `SkipField` or `SkipChild`, and then
`SkippedIsExcluded` finds the row whose value made the condition false, because the context
is that of the rows (`ContextIsTheRows`).

`RowsAreBounded` compares the table with a sum over the items begun. The
inductive form, `RowBudget`, counts inside an item too: the rows of an instance are those of the
children finished, each at most its repeats, plus the turns made of the present child;
`StructureBudget` and `InstanceBudget` show that what an instance may still add keeps
within the product that the bound allows. `TableFollowsTheSchema` is the
refinement of `RowBlocks`, initial states and steps: a step of the pass either leaves the
abstract table alone or appends one block that the item's text allows. `BlocksInv`
says which names the rows since `mark` may have at each `pc`: so many turns of a field, so
many instances and so many children of the one begun, or the one row of a placement that
failed. What a block is made of is a concatenation of parts, and the lemmas from
`ConcatenationIsDefined` to `JoinedNames` are the algebra of that.

*IncludeLoaderProofs.* `NoFileTwice` follows from the check in `Open` and needs nothing
about the disk. `CycleIsReal` does: `Inv` adds `Chained`, that each file on the stack was
reached by the include at which the file below it stands, under one of the three
spellings that `normalize_for_cycle` may have given it then. Nothing is said of what the
disk holds, so the theorems hold however it changes. `RecursionIsBounded` is the
pigeonhole principle: the stack is an injection into the finite set of paths.

`LoadsExactlyTheLegal` and `ErrorNamesTheFault` compare a traversal with a definition. Their
inductive invariant is `Right`: while no file has been replaced, every frame holds the
reference's merge of the items it has taken, every file that it has included is sound
(`Sound`: nothing that it reaches is at fault or circular), the files of the frames lead to
each other in the include graph, and the answer is the reference's. It rests on lemmas
about the graph alone: what is reached is the least closed set and is reached in at most as
many steps as there are paths (`ReachedIsLeast`; the steps that add something are at most
that many); the merge stops changing when it is unfolded that often, if no circle is reached
(`FlattenedSettles`, by the number of files below), so that it is the merge of its parts
(`FlatSchemaUnfolds`); and a file is sound if it is not at fault and includes only sound
files, none of which leads back (`SoundByIncludes`). Then each step of the traversal is one
step of the definition. The panel's theorems add `PanelShows`, that what is shown was made of
the answer; `QuotesAreOfTheText` holds whatever files are replaced.

*ByteSearchProofs.* `TypeOK` and the properties are not inductive: nothing in them says
what the chunk in memory is. `Inv` adds that it is the file's part at the offset, that
the offset is a multiple of the chunk size, that the matches are exactly the
occurrences before the position reached, and that every chunk boundary passed had
room for the pattern behind it. The last conjunct is what rules out a short tail
once the search has returned. `Invariance` proves it; `SearchIsExact`,
`MatchesAreOrdered`, `PanicsAreShortTails` and `SearchTypeCorrect` follow.

*DocumentProofs.* Two dozen gestures and two dozen variables would make each theorem a
table of trivial cases. The variables fall into four groups (schema and editor, the
error line, selection and marks, search and page), and for each group a lemma reduces
the gestures to what they may do to it: `OtherGestures` leave the schema alone,
a schema gesture is `Reported` or takes a schema over, a gesture keeps the selection with
its table, clears it or moves it to a row. The inductive invariants are `EditorInv`
(`EditorAgrees` and `ErrorsHaveDiagnostics` need each other: an error marks the text as not
in agreement), `SearchInv`, `SelectionIsRow` and `DocumentInv`, which is the type of the
whole document, the marks being lines of the text that is there included.
`CurrentMatchIsShown` is a step property; it follows from the arithmetic of revealing
an offset, for every size of file and page, and from `SearchInv`. So is
`SelectionIsRevealed`: a gesture that moves the selection either uncovers the row first or was
made on a row that is shown. For `MarksAreCurrent`, `MarkGestures` sorts the gestures into those
that clear the marks, keep them with text and selection, highlight a name or match a row.

`PageIsRight` is about one frame, so its proof needs of the state only its type and
`SearchInv`. `RangesAreMatches` proves `visible_search_ranges`, two binary searches and a loop that
cuts, exact for matches in file order; the rows of the page partition it
(`RowsPartition`, arithmetic of quotients); the precedence of colours does the
rest. `TableIsRight` needs what the grouping of rows keeps true while it takes one row after
another (`ItemsInv`: every row taken that passes the filter is in exactly one item, a group is in
one item, rows inside an item and first rows of items ascend); `FlattenedHas` and
`FlattenedInOrder` say what that means for the rows drawn one after the other, and the
counts are those of the sets that the lists enumerate.

*SchemaTextProofs.* A place in the text has three measures: how many bytes, how many characters and
how many line ends come before it (`Width`, `Count`, `LineEnds`). All are defined over the whole
prefix; the lemmas find what one more character adds to each (`WidthNext`, `CountNext`,
`LineEndsNext`) and that they ascend (`WidthGrows`, `CountGrows`, `LineEndsAscend`), by induction over
texts (`TextInduction`). So a place in one measure determines the place in the others.
`CursorIsAlwaysOnLine` is that argument: the characters before the cursor are a prefix
(`CursorSplits`), the line ends in it number the line. `LineFacts` and `LineOfFacts` say what
a line is; `QuotedSpan`, `PlainSpan` and `EntryFacts` follow a name from its value to its line,
`MatchFacts` to the text (`PartFacts` moves a place in a part to one of the whole). The
inductive invariant `MarksAreOfTheText` says that whatever is marked was found in the text that is
there now, while the range highlighted may be any range of bytes, which is why
`NothingIsEverLost` must hold for all of them: `LayoutFacts` needs the test of character
boundaries at both ends.

*PaneLayoutProofs.* Products and quotients are hidden behind one lemma that they are
integers; that a clamp forces its result between limits that are in order is then
linear arithmetic. `RedrawIsStable` needs the way back: a stored fraction of the width
it was stored for scales to the split itself.

*ApplicationProofs.* `SizeIsLength` needs `OpeningIsCurrent`: while a file is being opened
and nobody has changed a file since its metadata was read, the size told is still the
file's length, and what is copied so far is of that file and no longer than it.

*CommandLineProofs.* What is written and what is still to be written are together one
array (`Splits`), so every prefix is pure, and a run that has nothing left has closed it.
`RowsAreOfTheFile` follows from `ReadInv`. Every byte copied so far was at its place in the
opened file at some moment (`Copied`); a copy is complete only at the end of the file, and the
length of a mapping is one the file had (`Loaded`); so every byte the interpreter sees was
there, or is a zero behind the end (`SeenInv`). Nothing but the opened file is read, whatever
its path names by then (`Backed`, `Remembered`). If the file held only one content all the
while, all these moments agree and the rows are those of that content.

`StatusTellsTheOutput` follows from `OutputInv`: what has been written is a beginning of what
the arguments and the rows call for, and the whole of it once the run ends with
status 0. `RecordsAreHonest` is about texts of any length: `KeepFits` and `WiderThanRaw` show by
induction over the characters that the display cut by the command line and the one cut
by the GUI keep the same characters, since both count what they show.

Theorems state for every value of the constants what the runs check on small ones;
`TypeOK` of all modules but the interpreter, `InFileOrder`, `InvalidHasNoResults` and the
bound of the recursion are proved only, since a run would add nothing to the proof.

**Model-checked only.** Liveness, which TLAPS does not prove under fairness: `Returns`,
`ScrollsAreHonoured`, and of `ImplementsRowBlocks` that the pass goes on to the last item. Of the
safety properties all have a theorem but the two that fail (`NeverPanics`, `DefaultsMatch`).

## 5. Where the code and its documentation part

- **Byte order of includes** (`include_defaults`). The message of
  `validate_include_endianness` says that "schema-level defaults must match for includes
  in v1". The check compares declarations only. A root that declares nothing is read
  little-endian, may include a file that declares big, and its fields are then
  read little-endian without a word.
- **Short tails** (`search_panics`). A search panics if the file is longer than a chunk
  (64 KiB) and exceeds a multiple of it by less than the length of the pattern. The
  limit of the loop is `len - pattern + 1` with a subtraction that saturates before the one is
  added. `PanicsAreShortTails` proves that these are the only panics.

Remarks that are no properties: `README.md:218` says hexadecimal search is not supported,
the program has it (`SearchMode::Hex`). The YAML error of an included file has lost its
path, so that the panel may name its line in the including text (`PlaceIsAtFault` makes
this one exception). A reader of `--json` cannot tell an infinite float from a row without
a value except by the missing error (`RecordsAreHonest` makes this one exception).

## 6. Not modelled

- The release script and CI: no state, no interaction.
- Decoding YAML and parsing arguments: library code; only their outcomes matter here.
- Pixels, colours, wording, menus and the texts of error messages; rounding of `f32`
  within a unit of width.
- The text of the offset box (decimal or hexadecimal), which has two outcomes in
  `Document`, an offset or none.
- Files that are written while they are read: the models contain what then happens (a copy or
  a pass over a mapping mixes two contents, the process is killed), and `RowsAreOfTheFile`
  promises no more of it than that each byte was there, because the code does no more. A read
  that fails in the middle of a mapping for other reasons (a disk error) is left out.
- Rows without a place are drawn as selected together with an empty row at offset 0
  (`main.rs:1645`): the model does the same, and `TableIsRight` makes an exception of it.

## 7. Plan

Done, in this order: schema language and validation, the interpreter, its contract,
its proofs, the loader and its reference, the search and its proofs, the document; then
the document's proofs, drawing, the splitters, the text of the editor, the diagnostics of
schema errors composed with the loader, files and buffers, the application, the command
line, proofs for loader, application, command line and splitters; then the loader against its
reference, the bound of the table and its refinement of `RowBlocks`, what a frame draws, the
output of the command line, and the positions in the text of the editor.
What remains worth doing: the document composed with the search (its answers computed
from a file) and with the loader, so that reloads meet the errors that a given state of the
disk produces.
