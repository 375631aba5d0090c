----------------------------- MODULE MCJsonReader -----------------------------
(* JsonReader on all texts of a few values. *)
EXTENDS JsonReader

CONSTANTS k1, k2

MCKeys == {k1, k2}

=============================================================================
