------------------------- MODULE MC_TerminalStream -------------------------
(***************************************************************************)
(* The pane of a terminal, of one size, whose session may fail to start    *)
(* again and again.                                                        *)
(***************************************************************************)
EXTENDS TerminalStream

PaneSizes == {<<80, 24>>}
PtySize == <<120, 35>>
=============================================================================
