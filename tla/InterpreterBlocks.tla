-------------------------- MODULE InterpreterBlocks --------------------------
(***************************************************************************)
(* The interpreter shown to implement RowBlocks.  `mark` is a history      *)
(* variable: how many rows there were when the current item was reached.   *)
(* A block counts as emitted when the pass leaves its item.                *)
(***************************************************************************)
EXTENDS Interpreter

VARIABLE mark

BlocksInit == Init /\ mark = 0

BlocksNext ==
    /\ Next
    /\ mark' = IF item' # item THEN Len(rows') ELSE mark

BlocksSpec == BlocksInit /\ [][BlocksNext]_<<vars, mark>>
                         /\ WF_<<vars, mark>>(BlocksNext)

Names(count) == [r \in 1 .. count |-> rows[r].display_name]

Table == INSTANCE RowBlocks WITH next <- item, names <- Names(mark)

(* The refinement: item by item, in schema order, the pass adds one legal  *)
(* block of names; a failure inside an item costs that item its values and *)
(* nothing else, and every item is reached.                                *)
ImplementsRowBlocks == Table!Spec
=============================================================================
