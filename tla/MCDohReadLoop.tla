--------------------------- MODULE MCDohReadLoop ---------------------------
(* DohReadLoop with the sizes of its .cfg files.                           *)
EXTENDS DohReadLoop
=============================================================================
