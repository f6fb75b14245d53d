------------------------- MODULE MCTunnelLifecycle -------------------------
(***************************************************************************)
(* Model-checking instance of TunnelLifecycle: profiles are model values.  *)
(***************************************************************************)
EXTENDS TunnelLifecycle, TLC

\* Profiles are interchangeable where no credentials are missing.
ProfileSymmetry == Permutations(Profiles)
=============================================================================
