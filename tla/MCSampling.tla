----------------------------- MODULE MCSampling -----------------------------
(* Instances of Sampling for TLC.  The arguments of SET_INTERVAL reach      *)
(* beyond uint32_t: one refused, some in range, one that the cast turns     *)
(* into 0, and one that it turns into another interval.                     *)
EXTENDS Sampling

MCArguments == {-1, 2, 3, 7, Modulus, Modulus + 4}
=============================================================================
