------------------------------ MODULE MCBucket ------------------------------
(* Two workers stand for twenty, with channels of their number, as in the code. *)
EXTENDS Bucket

CONSTANTS w1, w2, v1, v2, v3, v4, v5

TwoWorkers == {w1, w2}
FiveVersions == {v1, v2, v3, v4, v5}
=============================================================================
