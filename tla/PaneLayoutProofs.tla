-------------------------- MODULE PaneLayoutProofs --------------------------
(***************************************************************************)
(* Theorems about PaneLayout, for all least widths, windows and drags.     *)
(*                                                                         *)
(* Where a splitter is before it is clamped depends on a product and a     *)
(* quotient; all that the proofs need of them is that they are integers.   *)
(***************************************************************************)
EXTENDS PaneLayout, TLAPS

(* A quotient of integers by a positive number is an integer.              *)
LEMMA ScaledType ==
    ASSUME NEW fraction \in Fraction, NEW usable \in Int
    PROVE  Scaled(fraction, usable) \in Int
<1> DEFINE product == fraction.split * usable
           divisor == fraction.of
<1>1. product \in Int /\ divisor \in Nat \ {0}
  BY DEF Fraction
<1> HIDE DEF product, divisor
<1>2. product \div divisor \in Int
  BY <1>1
<1> QED
  BY <1>2 DEF Scaled, product, divisor

(* In a window wide enough for both splitters the limits are in order.     *)
LEMMA SplitsInLimits ==
    ASSUME NEW usable \in Int, left \in Fraction, right \in Fraction,
           usable >= HexMin + FieldMin + SchemaMin
    PROVE  /\ LeftSplit(usable) \in Int /\ RightSplit(usable) \in Int
           /\ HexMin <= LeftSplit(usable) /\ LeftSplit(usable) <= MaxLeft(usable)
           /\ LeftSplit(usable) + FieldMin <= RightSplit(usable)
           /\ MinRight <= RightSplit(usable) /\ RightSplit(usable) <= MaxRight(usable)
           /\ LimitsInOrder(usable)
<1>1. HexMin \in Int /\ FieldMin \in Int /\ SchemaMin \in Int
  BY LayoutAssumption
<1>2. PICK x \in Int : x = Scaled(left, usable)
  BY ScaledType
<1>3. PICK y \in Int : y = Scaled(right, usable)
  BY ScaledType
<1>4. /\ LeftSplit(usable) \in Int
      /\ HexMin <= LeftSplit(usable) /\ LeftSplit(usable) <= MaxLeft(usable)
  BY <1>1, <1>2 DEF LeftSplit, MaxLeft, clamp
<1>5. LeftSplit(usable) + FieldMin <= MaxRight(usable)
  BY <1>1, <1>4 DEF MaxLeft, MaxRight
<1>6. PICK l \in Int : l = LeftSplit(usable)
  BY <1>4
<1>7. /\ RightSplit(usable) \in Int
      /\ LeftSplit(usable) + FieldMin <= RightSplit(usable)
      /\ MinRight <= RightSplit(usable) /\ RightSplit(usable) <= MaxRight(usable)
  BY <1>1, <1>3, <1>4, <1>5, <1>6, LayoutAssumption
     DEF RightSplit, MinRight, MaxRight, MaxLeft, clamp
<1> QED
  BY <1>1, <1>4, <1>5, <1>7, LayoutAssumption
     DEF LimitsInOrder, MinRight, MaxRight, MaxLeft

(* A position over a width is a fraction, and a drag ends at a position.   *)
LEMMA FractionType ==
    ASSUME NEW split \in Int, NEW usable \in Int
    PROVE  split_to_fraction(split, usable) \in Fraction
BY DEF split_to_fraction, Fraction

LEMMA DraggedType ==
    ASSUME NEW split \in Int, NEW delta \in Int, NEW min \in Int, NEW max \in Int
    PROVE  Dragged(split, delta, min, max) \in Int
BY DEF Dragged, clamp

(* A frame that redraws the panes leaves two fractions and panes that fit. *)
LEMMA RedrawFits ==
    ASSUME NEW usable \in Int, NEW splitter, NEW delta \in Int,
           left \in Fraction, right \in Fraction,
           usable >= HexMin + FieldMin + SchemaMin,
           Redraw(usable, splitter, delta)
    PROVE  /\ left' \in Fraction /\ right' \in Fraction
           /\ panes' \in Int \X Int \X Int
           /\ panes'[1] >= HexMin /\ panes'[2] >= FieldMin /\ panes'[3] >= SchemaMin
           /\ panes'[1] + panes'[2] + panes'[3] = usable
<1>1. HexMin \in Int /\ FieldMin \in Int /\ SchemaMin \in Int
  BY LayoutAssumption
<1>2. PICK l \in Int : l = LeftSplit(usable)
  BY SplitsInLimits
<1>3. PICK r \in Int : r = RightSplit(usable)
  BY SplitsInLimits
<1>4. MaxLeft(usable) \in Int /\ MinRight \in Int /\ MaxRight(usable) \in Int
  BY <1>1 DEF MaxLeft, MinRight, MaxRight
<1>5. left' \in Fraction /\ right' \in Fraction
  BY <1>1, <1>2, <1>3, <1>4, FractionType, DraggedType DEF Redraw
<1>6. panes' = << l, r - l, usable - r >>
  BY <1>2, <1>3 DEF Redraw, pane_widths
<1>7. /\ HexMin <= l /\ l + FieldMin <= r /\ r <= usable - SchemaMin
  BY <1>2, <1>3, SplitsInLimits DEF MaxRight
<1> QED
  BY <1>1, <1>2, <1>3, <1>5, <1>6, <1>7

Inv == TypeOK /\ NoPanic /\ PanesFit

LEMMA InitInv == Init => Inv
<1> SUFFICES ASSUME Init PROVE Inv
  OBVIOUS
<1>1. left \in Fraction /\ right \in Fraction
  BY DEF Init, Fraction
<1>2. panes = None /\ drag = None /\ width \in Width /\ panicked = FALSE
  BY DEF Init
<1> QED
  BY <1>1, <1>2, Zenon DEF Inv, TypeOK, NoPanic, PanesFit

LEMMA FrameInv == Inv /\ [Frame]_vars => Inv'
<1> SUFFICES ASSUME Inv, [Frame]_vars PROVE Inv'
  OBVIOUS
<1> USE DEF Inv
<1>1. CASE SideBySide /\ Frame
  <2> DEFINE usable == Usable(width')
  <2>1. width' \in Nat /\ Splitter \in Int /\ Delta \subseteq Int
    BY <1>1, LayoutAssumption DEF Frame
  <2>2. usable \in Int /\ usable >= HexMin + FieldMin + SchemaMin
    BY <1>1, <2>1, LayoutAssumption DEF SideBySide, SIDE_BY_SIDE_MIN_WIDTH, Usable
  <2>3. left \in Fraction /\ right \in Fraction
    BY DEF TypeOK
  <2> HIDE DEF usable
  <2>4. LimitsInOrder(usable)
    BY <2>2, <2>3, SplitsInLimits
  <2>5. panicked' = panicked /\ drag' \in {None, "left", "right"}
    BY <1>1, <2>4, Zenon DEF SideBySide, usable
  <2>6. \/ Redraw(usable, None, 0)
        \/ \E delta \in Delta : Redraw(usable, "left", delta)
        \/ \E delta \in Delta : Redraw(usable, "right", delta)
    BY <1>1, <2>4, Zenon DEF SideBySide, usable
  <2>7. /\ left' \in Fraction /\ right' \in Fraction
        /\ panes' \in Int \X Int \X Int
        /\ panes'[1] >= HexMin /\ panes'[2] >= FieldMin /\ panes'[3] >= SchemaMin
        /\ panes'[1] + panes'[2] + panes'[3] = usable
    BY <2>1, <2>2, <2>3, <2>6, RedrawFits
  <2> QED
    BY <1>1, <2>5, <2>7 DEF TypeOK, NoPanic, PanesFit, Frame, usable
<1>2. CASE Stacked /\ Frame
  BY <1>2 DEF Stacked, Frame, TypeOK, NoPanic, PanesFit
<1>3. CASE UNCHANGED vars
  BY <1>3 DEF vars, TypeOK, NoPanic, PanesFit, Usable
<1> QED
  BY <1>1, <1>2, <1>3 DEF Frame

(* The layout is well typed, never panics and keeps every pane at its      *)
(* least width or above, whatever the least widths are and however the     *)
(* window is resized and the splitters are dragged.                        *)
THEOREM Invariance == Spec => []Inv
BY InitInv, FrameInv, PTL DEF Spec

(* No clamp of the layout ever meets crossed limits.                       *)
THEOREM LayoutNeverPanics == Spec => []NoPanic
<1>1. Inv => NoPanic
  BY DEF Inv
<1> QED
  BY <1>1, Invariance, PTL

(* The panes always fill the window, each at its least width or above.     *)
THEOREM PanesAlwaysFit == Spec => []PanesFit
<1>1. Inv => PanesFit
  BY DEF Inv
<1> QED
  BY <1>1, Invariance, PTL

(* The layout is well typed.                                               *)
THEOREM LayoutTypeCorrect == Spec => []TypeOK
<1>1. Inv => TypeOK
  BY DEF Inv
<1> QED
  BY <1>1, Invariance, PTL

-----------------------------------------------------------------------------
(* Stability.  A splitter that was not dragged is kept as the very place   *)
(* it was drawn at, over the width it was drawn in; multiplying the two    *)
(* gives the place back.                                                   *)
Settled ==
    panes # None =>
       /\ drag # "left" => left = [split |-> panes[1], of |-> Usable(width)]
       /\ drag # "right" => right = [split |-> panes[1] + panes[2], of |-> Usable(width)]
       /\ panes[1] <= MaxLeft(Usable(width))
       /\ MinRight <= panes[1] + panes[2]

(* Scaling a place over a width by that width gives the place.             *)
LEMMA ScaleBack ==
    ASSUME NEW x \in Int, NEW u \in Nat \ {0}
    PROVE  Scaled([split |-> x, of |-> u], u) = x
<1>1. (x * u) \div u = x
  BY SMTT(30)
<1> QED
  BY <1>1 DEF Scaled

(* What a redraw keeps of a splitter that it does not drag.                *)
LEMMA RedrawSettles ==
    ASSUME NEW usable \in Int, NEW splitter \in {None, "left", "right"}, NEW delta \in Int,
           left \in Fraction, right \in Fraction,
           usable >= HexMin + FieldMin + SchemaMin,
           Redraw(usable, splitter, delta)
    PROVE  /\ splitter # "left" => left' = [split |-> panes'[1], of |-> usable]
           /\ splitter # "right" =>
                 right' = [split |-> panes'[1] + panes'[2], of |-> usable]
           /\ panes'[1] <= MaxLeft(usable) /\ MinRight <= panes'[1] + panes'[2]
<1>1. HexMin \in Nat /\ FieldMin \in Nat /\ SchemaMin \in Nat /\ usable > 0
  BY LayoutAssumption
<1>2. PICK l \in Int : l = LeftSplit(usable)
  BY SplitsInLimits
<1>3. PICK r \in Int : r = RightSplit(usable)
  BY SplitsInLimits
<1>4. l <= MaxLeft(usable) /\ MinRight <= r
  BY <1>2, <1>3, SplitsInLimits
<1>5. panes' = << l, r - l, usable - r >>
  BY <1>2, <1>3 DEF Redraw, pane_widths
<1>6. panes'[1] = l /\ panes'[1] + panes'[2] = r
  BY <1>2, <1>3, <1>5
<1>7. splitter # "left" => left' = [split |-> l, of |-> usable]
  BY <1>1, <1>2 DEF Redraw, split_to_fraction
<1>8. splitter # "right" => right' = [split |-> r, of |-> usable]
  BY <1>1, <1>3 DEF Redraw, split_to_fraction
<1> QED
  BY <1>4, <1>6, <1>7, <1>8

LEMMA InitSettled == Init => Settled
BY DEF Init, Settled

LEMMA FrameSettles == Inv /\ Settled /\ [Frame]_vars => Settled'
<1> SUFFICES ASSUME Inv, Settled, [Frame]_vars PROVE Settled'
  OBVIOUS
<1>1. CASE SideBySide /\ Frame
  <2> DEFINE usable == Usable(width')
  <2>1. width' \in Nat /\ Splitter \in Int /\ Delta \subseteq Int
    BY <1>1, LayoutAssumption DEF Frame
  <2>2. usable \in Int /\ usable >= HexMin + FieldMin + SchemaMin
    BY <1>1, <2>1, LayoutAssumption DEF SideBySide, SIDE_BY_SIDE_MIN_WIDTH, Usable
  <2>3. left \in Fraction /\ right \in Fraction
    BY DEF Inv, TypeOK
  <2> HIDE DEF usable
  <2>4. LimitsInOrder(usable)
    BY <2>2, <2>3, SplitsInLimits
  <2>5. \/ drag' = None /\ Redraw(usable, None, 0)
        \/ \E delta \in Delta : drag' = "left" /\ Redraw(usable, "left", delta)
        \/ \E delta \in Delta : drag' = "right" /\ Redraw(usable, "right", delta)
    BY <1>1, <2>4, Zenon DEF SideBySide, usable
  <2>6. PICK splitter \in {None, "left", "right"}, delta \in Int :
           drag' = splitter /\ Redraw(usable, splitter, delta)
    <3>1. 0 \in Int
      OBVIOUS
    <3> QED
      BY <2>1, <2>5, <3>1, Zenon
  <2>7. /\ splitter # "left" => left' = [split |-> panes'[1], of |-> usable]
        /\ splitter # "right" =>
              right' = [split |-> panes'[1] + panes'[2], of |-> usable]
        /\ panes'[1] <= MaxLeft(usable) /\ MinRight <= panes'[1] + panes'[2]
    BY <2>2, <2>3, <2>6, RedrawSettles
  <2>8. Usable(width)' = usable
    BY DEF Usable, usable
  <2>9. MaxLeft(Usable(width))' = MaxLeft(usable)
    BY <2>8 DEF MaxLeft
  <2> QED
    BY <2>6, <2>7, <2>8, <2>9 DEF Settled, MinRight
<1>2. CASE Stacked /\ Frame
  BY <1>2 DEF Stacked, Settled
<1>3. CASE UNCHANGED vars
  BY <1>3 DEF vars, Settled, Usable, MaxLeft, MinRight
<1> QED
  BY <1>1, <1>2, <1>3 DEF Frame

LEMMA SettledInvariance == Spec => [](Inv /\ Settled)
BY InitInv, FrameInv, InitSettled, FrameSettles, PTL DEF Spec

(* The facts about a frame in the width of the one before it that the two  *)
(* properties of its splitters rest on.                                    *)
LEMMA SameWidth ==
    ASSUME Inv, Settled, Frame, width' = width, panes # None
    PROVE  \E l, r, u \in Int :
              /\ u = Usable(width)
              /\ l = LeftSplit(u) /\ r = RightSplit(u)
              /\ panes' = << l, r - l, u - r >>
              /\ drag # "left" => l = panes[1]
              /\ drag # "right" =>
                    LET old == panes[1] + panes[2]
                    IN r = IF old < l + FieldMin THEN l + FieldMin ELSE old
<1>1. /\ HexMin \in Nat /\ FieldMin \in Nat /\ SchemaMin \in Nat
      /\ Splitter \in Nat /\ width \in Nat
      /\ HexMin + FieldMin + SchemaMin > 0
  BY LayoutAssumption DEF Inv, TypeOK
<1>2. PICK a, b, c \in Int : panes = << a, b, c >>
  BY DEF Inv, TypeOK
<1>3. PICK u \in Int : u = Usable(width)
  BY <1>1 DEF Usable
<1>4. /\ a >= HexMin /\ b >= FieldMin /\ c >= SchemaMin /\ a + b + c = u
      /\ a <= MaxLeft(u) /\ MinRight <= a + b
      /\ drag # "left" => left = [split |-> a, of |-> u]
      /\ drag # "right" => right = [split |-> a + b, of |-> u]
  BY <1>2, <1>3 DEF Inv, PanesFit, Settled
<1>5. u >= HexMin + FieldMin + SchemaMin /\ u \in Nat \ {0}
  BY <1>1, <1>2, <1>4
<1>6. width' >= SIDE_BY_SIDE_MIN_WIDTH
  BY <1>1, <1>3, <1>5 DEF SIDE_BY_SIDE_MIN_WIDTH, Usable
<1>7. SIDE_BY_SIDE_MIN_WIDTH \in Int
  BY <1>1 DEF SIDE_BY_SIDE_MIN_WIDTH
<1>8. SideBySide
  BY <1>1, <1>6, <1>7 DEF Frame, Stacked
<1>9. left \in Fraction /\ right \in Fraction
  BY DEF Inv, TypeOK
<1>10. LimitsInOrder(u)
  BY <1>5, <1>9, SplitsInLimits
<1>11. panes' = pane_widths(u)
  <2>1. Usable(width') = u
    BY <1>3
  <2> QED
    BY <1>8, <1>10, <2>1, Zenon DEF SideBySide, Redraw
<1>12. PICK l \in Int : l = LeftSplit(u)
  BY <1>5, <1>9, SplitsInLimits
<1>13. PICK r \in Int : r = RightSplit(u)
  BY <1>5, <1>9, SplitsInLimits
<1>14. panes' = << l, r - l, u - r >>
  BY <1>11, <1>12, <1>13 DEF pane_widths
<1>15. l <= MaxLeft(u)
  BY <1>5, <1>9, <1>12, SplitsInLimits
<1>16. ASSUME drag # "left" PROVE l = a
  <2>1. Scaled(left, u) = a
    BY <1>2, <1>4, <1>5, <1>16, ScaleBack
  <2> QED
    BY <1>1, <1>2, <1>4, <1>5, <1>12, <2>1 DEF LeftSplit, MaxLeft, clamp
<1>17. ASSUME drag # "right"
       PROVE  r = IF a + b < l + FieldMin THEN l + FieldMin ELSE a + b
  <2>1. Scaled(right, u) = a + b
    BY <1>2, <1>4, <1>5, <1>17, ScaleBack
  <2>2. r = clamp(clamp(a + b, l + FieldMin, MaxRight(u)), MinRight, MaxRight(u))
    BY <1>12, <1>13, <2>1 DEF RightSplit
  <2> QED
    BY <1>1, <1>2, <1>4, <1>5, <1>12, <1>15, <2>2
       DEF MinRight, MaxRight, MaxLeft, clamp
<1>18. panes[1] = a /\ panes[1] + panes[2] = a + b
  BY <1>2
<1> QED
  BY <1>3, <1>12, <1>13, <1>14, <1>16, <1>17, <1>18

(* Nothing in the layout moves by itself.                                  *)
THEOREM LayoutIsStable == Spec => RedrawIsStable
<1>1. ASSUME Inv, Settled, [Frame]_vars, width' = width, drag = None, panes # None
      PROVE  panes' = panes
  <2>1. CASE UNCHANGED vars
    BY <2>1 DEF vars
  <2>2. CASE Frame
    <3>1. PICK l, r, u \in Int :
             /\ u = Usable(width)
             /\ panes' = << l, r - l, u - r >>
             /\ l = panes[1]
             /\ r = IF panes[1] + panes[2] < l + FieldMin THEN l + FieldMin
                    ELSE panes[1] + panes[2]
      BY <1>1, <2>2, SameWidth, NoneAssumption
    <3>2. PICK a, b, c \in Int : panes = << a, b, c >>
      BY <1>1 DEF Inv, TypeOK
    <3>3. b >= FieldMin /\ a + b + c = u /\ FieldMin \in Int
      BY <1>1, <3>1, <3>2, LayoutAssumption DEF Inv, PanesFit
    <3>4. l = a /\ r = a + b
      BY <3>1, <3>2, <3>3
    <3> QED
      BY <3>1, <3>2, <3>3, <3>4
  <2> QED
    BY <1>1, <2>1, <2>2
<1> QED
  BY <1>1, SettledInvariance, PTL DEF Spec, RedrawIsStable

(* A splitter moves the other one only by pushing it, and only the left    *)
(* one pushes.                                                             *)
THEOREM LayoutMovesAlone == Spec => SplittersMoveAlone
<1> DEFINE Alone ==
       width' = width /\ panes # None =>
          /\ drag = "right" => panes'[1] = panes[1]
          /\ drag = "left" /\ panes'[3] # panes[3] =>
                panes'[2] = FieldMin /\ panes'[3] < panes[3]
<1>1. ASSUME Inv, Settled, Frame PROVE Alone
  <2> SUFFICES ASSUME width' = width, panes # None
               PROVE  /\ drag = "right" => panes'[1] = panes[1]
                      /\ drag = "left" /\ panes'[3] # panes[3] =>
                            panes'[2] = FieldMin /\ panes'[3] < panes[3]
    OBVIOUS
  <2>1. PICK l, r, u \in Int :
           /\ u = Usable(width)
           /\ panes' = << l, r - l, u - r >>
           /\ drag # "left" => l = panes[1]
           /\ drag # "right" =>
                 r = IF panes[1] + panes[2] < l + FieldMin THEN l + FieldMin
                     ELSE panes[1] + panes[2]
    BY <1>1, SameWidth
  <2>2. PICK a, b, c \in Int : panes = << a, b, c >>
    BY <1>1 DEF Inv, TypeOK
  <2>3. a + b + c = u /\ FieldMin \in Int
    BY <1>1, <2>1, <2>2, LayoutAssumption DEF Inv, PanesFit
  <2>4. panes'[1] = l /\ panes'[2] = r - l /\ panes'[3] = u - r
    BY <2>1
  <2>5. panes[1] = a /\ panes[2] = b /\ panes[3] = c
    BY <2>2
  <2>6. drag = "right" => panes'[1] = panes[1]
    BY <2>1, <2>4
  <2>7. ASSUME drag = "left", panes'[3] # panes[3]
        PROVE  panes'[2] = FieldMin /\ panes'[3] < panes[3]
    <3>1. r = IF a + b < l + FieldMin THEN l + FieldMin ELSE a + b
      BY <2>1, <2>5, <2>7
    <3>2. u - r # c
      BY <2>4, <2>5, <2>7
    <3> QED
      BY <2>1, <2>2, <2>3, <2>4, <2>5, <3>1, <3>2
  <2> QED
    BY <2>6, <2>7
<1>2. ASSUME Inv, Settled, UNCHANGED vars PROVE UNCHANGED vars
  BY <1>2
<1>3. Inv /\ Settled /\ [Frame]_vars => [Alone]_vars
  BY <1>1, Zenon
<1> QED
  BY <1>3, SettledInvariance, PTL DEF Spec, SplittersMoveAlone
=============================================================================
