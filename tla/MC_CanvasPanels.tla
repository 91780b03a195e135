-------------------------- MODULE MC_CanvasPanels --------------------------
(***************************************************************************)
(* The canvas with Sentiph and one child, large enough to create the       *)
(* child, to save its panel, and to load the page again.                   *)
(***************************************************************************)
EXTENDS CanvasPanels

CONSTANTS sentiph, child
=============================================================================
