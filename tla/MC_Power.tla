------------------------------ MODULE MC_Power ------------------------------
(* A finite instance of Power: three callers, and a profile past the last. *)
EXTENDS Power

MC_Asked == {POWER_SAVE, BALANCED, BIAS_POWER, POWER_NR_OF_SUPPORTED_PROFILES}
=============================================================================
