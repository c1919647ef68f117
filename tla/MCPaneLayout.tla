---------------------------- MODULE MCPaneLayout ----------------------------
(* Widths on either side of the least one for panes side by side, in units *)
(* of which a splitter takes one.                                          *)
EXTENDS PaneLayout

MCWidth == 0 .. 16
MCDelta == {-9, -2, -1, 1, 2, 9}
=============================================================================
