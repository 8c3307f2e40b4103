----------------------------- MODULE MCVarargs -----------------------------
(***************************************************************************)
(* Variadic calls of one guest thread for TLC: through the trampoline      *)
(* (Trampoline) and through a packed argument list (VarArgPack), one call  *)
(* at a time.                                                              *)
(***************************************************************************)
EXTENDS Trampoline, VarArgPack

Init == AtRest /\ Resting

Next ==
  \/ doing = "guest" /\ Passes /\ UNCHANGED packing
  \/ at = "guest" /\ PrintsPacked /\ UNCHANGED passing

Spec == Init /\ [][Next]_<<passing, packing>>

=============================================================================
