-------------------------- MODULE MCDelegatedRuntime --------------------------
(* A small instance of DelegatedRuntime, with the health summary computed    *)
(* from it, for TLC.                                                         *)
EXTENDS RuntimeHealth

\* The role gains, once, the permission requests need; a clone may be older.
\* {0, 5} is not a mask (validate_policy_mask refuses it).
MCMasks == {{0}, {0, 5}}
=============================================================================
