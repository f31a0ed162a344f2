---------------------------- MODULE MCBaseRuntime ----------------------------
(* A small instance of BaseRuntime, with its history, for TLC.              *)
EXTENDS AdmissionHistory

\* The role starts with no permission.  It may gain the one that action 0
\* needs; {0, 5} is not a mask (validate_policy_mask refuses it).
MCMasks == {{0}, {0, 5}}

\* An action that may be covered, and one that is no action.
MCActions == {0, 5}
=============================================================================
