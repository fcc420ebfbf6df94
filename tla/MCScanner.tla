----------------------------- MODULE MCScanner -----------------------------
(* More types than permits, and room for fewer resources than they can list. *)
EXTENDS Scanner

CONSTANTS t1, t2, t3

ThreeTypes == {t1, t2, t3}
=============================================================================
