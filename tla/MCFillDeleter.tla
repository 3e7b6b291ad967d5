--------------------------- MODULE MCFillDeleter ---------------------------
(* Positions close enough that regions end between, at and beyond positions. *)
EXTENDS FillDeleter

ScaledPositions == <<0, 4, 9, 20>>
=============================================================================
