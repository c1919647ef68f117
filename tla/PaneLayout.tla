----------------------------- MODULE PaneLayout -----------------------------
(***************************************************************************)
(* How the panes of a document share the window: draw_document_view, the   *)
(* side-by-side view with its two splitters, and pane_widths.              *)
(*                                                                         *)
(* A step is a frame.  A splitter is kept as a fraction of the width, so a *)
(* new width moves it; pane_widths forces both back into their limits      *)
(* before it draws, and a drag takes effect in the next frame.  f32::clamp *)
(* panics if its limits are in the wrong order.                            *)
(***************************************************************************)
EXTENDS Integers

CONSTANTS
    HexMin, FieldMin, SchemaMin,   \* the least widths of the three panes
    Splitter,                      \* SPLITTER_WIDTH
    Width,                         \* how wide the window may be
    Delta,                         \* how far the pointer may move in a frame
    None

ASSUME LayoutAssumption ==
    /\ HexMin \in Nat /\ FieldMin \in Nat /\ SchemaMin \in Nat
    /\ HexMin + FieldMin + SchemaMin > 0
    /\ Splitter \in Nat
    /\ Width \subseteq Nat
    /\ Delta \subseteq Int

ASSUME NoneAssumption == None \notin {"left", "right"}

VARIABLES
    width,             \* available_width of the frame drawn last
    left, right,       \* left_split_fraction, right_split_fraction
    panes,             \* the widths drawn, or None in the stacked view
    drag,              \* the splitter that was dragged in it, or None
    panicked

vars == <<width, left, right, panes, drag, panicked>>

Fraction == [split : Int, of : Nat \ {0}]

(* Bug: the splitters are forgotten in the least width.                    *)
MinWidthOfPanes == HexMin + FieldMin + SchemaMin

SIDE_BY_SIDE_MIN_WIDTH == HexMin + FieldMin + SchemaMin + 2 * Splitter

Usable(available) == available - 2 * Splitter

(* A fraction of a width, in whole points.                                 *)
Scaled(fraction, usable) == (fraction.split * usable) \div fraction.of

(* Bug: the position is divided by a width that includes the splitters.    *)
FractionOfWindow(split, usable) ==
    IF usable > 0 THEN [split |-> split, of |-> usable + 2 * Splitter]
                  ELSE [split |-> 0, of |-> 1]

split_to_fraction(split, usable) ==
    IF usable > 0 THEN [split |-> split, of |-> usable] ELSE [split |-> 0, of |-> 1]

clamp(x, min, max) == IF x < min THEN min ELSE IF x > max THEN max ELSE x

MaxLeft(usable) == usable - FieldMin - SchemaMin
MinRight == HexMin + FieldMin
MaxRight(usable) == usable - SchemaMin

(* Bug: the left splitter gives way to the right one.                      *)
PushedLeft(usable) ==
    LET wanted == Scaled(left, usable)
        limit == Scaled(right, usable) - FieldMin
    IN clamp(IF wanted > limit THEN limit ELSE wanted, HexMin, MaxLeft(usable))

LeftSplit(usable) == clamp(Scaled(left, usable), HexMin, MaxLeft(usable))

RightSplit(usable) ==
    clamp(clamp(Scaled(right, usable), LeftSplit(usable) + FieldMin, MaxRight(usable)),
          MinRight, MaxRight(usable))

(* The limits of every clamp of pane_widths and of the two splitters.      *)
LimitsInOrder(usable) ==
    /\ HexMin <= MaxLeft(usable)
    /\ LeftSplit(usable) + FieldMin <= MaxRight(usable)
    /\ MinRight <= MaxRight(usable)

pane_widths(usable) ==
    << LeftSplit(usable), RightSplit(usable) - LeftSplit(usable),
       usable - RightSplit(usable) >>

(* draw_splitter: where a splitter is after a drag.                        *)
Dragged(split, delta, min, max) == clamp(split + delta, min, max)

-----------------------------------------------------------------------------
(* What the fractions are after a frame in which a splitter was dragged by *)
(* a distance, or none was.                                                *)
Redraw(usable, splitter, delta) ==
    /\ panes' = pane_widths(usable)
    /\ left' = split_to_fraction(
                  IF splitter = "left"
                  THEN Dragged(LeftSplit(usable), delta, HexMin, MaxLeft(usable))
                  ELSE LeftSplit(usable), usable)
    /\ right' = split_to_fraction(
                  IF splitter = "right"
                  THEN Dragged(RightSplit(usable), delta, MinRight, MaxRight(usable))
                  ELSE RightSplit(usable), usable)

SideBySide ==
    /\ width' >= SIDE_BY_SIDE_MIN_WIDTH
    /\ LET usable == Usable(width')
       IN IF LimitsInOrder(usable)
          THEN /\ \/ drag' = None /\ Redraw(usable, None, 0)
                  \/ \E delta \in Delta : drag' = "left" /\ Redraw(usable, "left", delta)
                  \/ \E delta \in Delta : drag' = "right" /\ Redraw(usable, "right", delta)
               /\ UNCHANGED panicked
          ELSE panicked' = TRUE /\ UNCHANGED <<left, right, panes, drag>>

Stacked ==
    /\ width' < SIDE_BY_SIDE_MIN_WIDTH
    /\ panes' = None /\ drag' = None
    /\ UNCHANGED <<left, right, panicked>>

Frame == ~panicked /\ width' \in Width /\ (SideBySide \/ Stacked)

Init ==
    /\ width \in Width
    /\ left = [split |-> 1, of |-> 2]
    /\ right = [split |-> 3, of |-> 4]
    /\ panes = None
    /\ drag = None
    /\ panicked = FALSE

Spec == Init /\ [][Frame]_vars

-----------------------------------------------------------------------------
(* Properties *)

TypeOK ==
    /\ width \in Width
    /\ left \in Fraction /\ right \in Fraction
    /\ panes # None => panes \in Int \X Int \X Int
    /\ drag \in {None, "left", "right"}
    /\ panicked \in BOOLEAN

(* No sequence of resizes and drags makes the limits of a clamp cross.     *)
NoPanic == ~panicked

(* Whatever widths and drags came before, the side-by-side view does not   *)
(* panic, the panes fill the window and none of them is narrower than its  *)
(* least width.                                                            *)
PanesFit ==
    /\ NoPanic
    /\ panes # None =>
          /\ panes[1] >= HexMin /\ panes[2] >= FieldMin /\ panes[3] >= SchemaMin
          /\ panes[1] + panes[2] + panes[3] = Usable(width)

(* The panes stay where they are unless the user moves something.          *)
RedrawIsStable ==
    [][ width' = width /\ drag = None /\ panes # None => panes' = panes ]_vars

(* A drag of the right splitter does not move the left one; a drag of the  *)
(* left one moves the right one only by pushing it.                        *)
SplittersMoveAlone ==
    [][ width' = width /\ panes # None =>
           /\ drag = "right" => panes'[1] = panes[1]
           /\ drag = "left" /\ panes'[3] # panes[3] =>
                 panes'[2] = FieldMin /\ panes'[3] < panes[3] ]_vars
=============================================================================
