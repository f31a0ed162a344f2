----------------------------- MODULE BaseRuntime -----------------------------
(***************************************************************************)
(* One API key of the gatekeeper program on plain Solana: the accounts its *)
(* hot path reads and writes, and one action per instruction.  A Solana    *)
(* transaction is atomic and a failed one leaves nothing behind, so an     *)
(* instruction is one step whose failing checks are guards.  Every account *)
(* is a PDA of the key (or, for the role, shared with it), so two keys     *)
(* never write the same runtime: one key is the whole concurrency of it.   *)
(*                                                                         *)
(* The gateway, organization, role and key exist already, as the role      *)
(* (empty mask) and the key (active) leave their create instructions.      *)
(* Any principal may consume, in any order with the authority's steps.     *)
(***************************************************************************)
EXTENDS RuntimeOps, FiniteSets

CONSTANTS
  MaskInputs,        \* masks an authority may ask for
  ActionInputs,      \* action codes a caller may send
  MaxRequestsInputs, \* max_requests arguments
  WindowInputs,      \* window_seconds arguments
  MaxTime            \* bound: the clock stops here

ASSUME InputsAssumption ==
  /\ \A mask \in MaskInputs : mask \subseteq Nat
  /\ ActionInputs \subseteq Nat
  /\ MaxRequestsInputs \subseteq U64
  /\ WindowInputs \subseteq Timestamp

ASSUME MaxTimeAssumption == MaxTime \in 1..MaxI64

VARIABLES
  clock,            \* Clock sysvar: unix_timestamp of the current slot
  active,           \* ApiKey.active
  policy_mask,      \* Role.policy_mask
  quota_policy,     \* the QuotaPolicy account
  runtime,          \* the QuotaRuntime account
  checkpoint,       \* the AuditCheckpoint account
  settlement_count  \* Organization.settlement_count

controlVars == <<active, policy_mask, quota_policy>>
vars == <<clock, active, policy_mask, quota_policy, runtime, checkpoint,
          settlement_count>>

TypeOK ==
  /\ clock \in 1..MaxTime
  /\ active \in BOOLEAN
  /\ policy_mask \in SUBSET ALL_PERMISSIONS
  /\ quota_policy \in QuotaPolicy
  /\ runtime \in QuotaRuntime
  /\ checkpoint \in AuditCheckpoint
  /\ settlement_count \in U64

Init ==
  /\ clock = 1
  /\ active = TRUE
  /\ policy_mask = {}
  /\ quota_policy = ZeroedPolicy
  /\ runtime = ZeroedRuntime
  /\ checkpoint = ZeroedCheckpoint
  /\ settlement_count = 0

(***************************************************************************)
(* Administration, signed by the organization's authority.                 *)
(***************************************************************************)
AttachPolicyToRole(mask) ==
  /\ ValidPolicyMask(mask)
  /\ policy_mask' = mask
  /\ UNCHANGED <<clock, active, quota_policy, runtime, checkpoint,
                 settlement_count>>

RevokeApiKey ==
  /\ active
  /\ active' = FALSE
  /\ UNCHANGED <<clock, policy_mask, quota_policy, runtime, checkpoint,
                 settlement_count>>

\* Creates the policy or overwrites it: there is no update instruction.
CreateQuotaPolicy(max_requests, window_seconds) ==
  /\ ValidQuotaConfig(max_requests, window_seconds)
  /\ quota_policy' = [initialized |-> TRUE, max_requests |-> max_requests,
                      window_seconds |-> window_seconds]
  /\ UNCHANGED <<clock, active, policy_mask, runtime, checkpoint,
                 settlement_count>>

\* An initialised runtime may be initialised again.
FaultyReinitialize ==
  /\ quota_policy.initialized
  /\ runtime' = FreshRuntime(clock)
  /\ checkpoint' = FreshCheckpoint(checkpoint, clock)
  /\ UNCHANGED <<clock, active, policy_mask, quota_policy, settlement_count>>

InitializeQuotaRuntime ==
  /\ quota_policy.initialized
  /\ ~runtime.initialized
  /\ runtime' = FreshRuntime(clock)
  /\ checkpoint' = FreshCheckpoint(checkpoint, clock)
  /\ UNCHANGED <<clock, active, policy_mask, quota_policy, settlement_count>>

(***************************************************************************)
(* The request path, and the settlement that drains it.                    *)
(***************************************************************************)
ConsumeRequest(action) ==
  /\ runtime.initialized
  /\ Consume(runtime, active, policy_mask, quota_policy, action, clock, runtime')
  /\ UNCHANGED <<clock, active, policy_mask, quota_policy, checkpoint,
                 settlement_count>>

SettleRuntimeCheckpoint ==
  /\ runtime.initialized
  /\ ~runtime.is_delegated
  /\ settlement_count < MaxU64
  /\ checkpoint' = SettledCheckpoint(checkpoint, runtime, clock)
  /\ runtime' = SettledRuntime(runtime, clock)
  /\ settlement_count' = settlement_count + 1
  /\ UNCHANGED <<clock, active, policy_mask, quota_policy>>

Tick ==
  /\ clock < MaxTime
  /\ clock' = clock + 1
  /\ UNCHANGED <<active, policy_mask, quota_policy, runtime, checkpoint,
                 settlement_count>>

Next ==
  \/ \E mask \in MaskInputs : AttachPolicyToRole(mask)
  \/ RevokeApiKey
  \/ \E max_requests \in MaxRequestsInputs, window_seconds \in WindowInputs :
       CreateQuotaPolicy(max_requests, window_seconds)
  \/ InitializeQuotaRuntime
  \/ \E action \in ActionInputs : ConsumeRequest(action)
  \/ SettleRuntimeCheckpoint
  \/ Tick

Spec == Init /\ [][Next]_vars

(***************************************************************************)
(* Safety.                                                                 *)
(***************************************************************************)
\* rolling_audit is exactly the newest decisions that no settlement has
\* drained: consecutive sequence numbers, none of them settled, none missing
\* unless the eight-record capacity pushed it out (append_runtime_audit's
\* push/remove(0) against settle_runtime_checkpoint's clear).
AuditIsUnsettledSuffix == AuditIsSuffix(runtime)

\* The totals count each sequence number once, and the checkpoint is the
\* totals as they stood at the sequence number the runtime says was settled:
\* neither account ever claims a settlement the other does not know of.
CheckpointMirrorsRuntime ==
  EverySequenceCounted(runtime) /\ Mirrors(runtime, checkpoint)

AllowedIn(audit) == {i \in DOMAIN audit : audit[i].reason = "Allowed"}

\* The unsettled records account for the unsettled admissions: exactly when
\* nothing was evicted, and never for more than were made.  This is what an
\* operator relies on who reads the rolling audit next to the checkpoint.
AuditExplainsTotals ==
  LET audit    == runtime.rolling_audit
      admitted == runtime.total_allowed - checkpoint.total_allowed
  IN  /\ Cardinality(AllowedIn(audit)) <= admitted
      /\ Len(audit) = Unsettled(runtime) => Cardinality(AllowedIn(audit)) = admitted

\* A revoked key admits nothing, ever again: revocation is final (no
\* instruction sets `active` of an initialised key) and consume_request tests
\* it first, so neither quota nor mask changes bring a revoked key back.
RevokedKeyAdmitsNothing ==
  [][~active => /\ ~active'
                /\ runtime'.total_allowed = runtime.total_allowed
                /\ runtime'.current_window_used = runtime.current_window_used]_vars

\* Quota state moves forward only: a window, once left, is never re-entered,
\* and within one window the counter never falls back (which would hand out
\* the same quota twice), not even when the authority rewrites the policy.
WindowNeverRefunds ==
  [][runtime.initialized =>
       \/ runtime'.current_window_started_at > runtime.current_window_started_at
       \/ /\ runtime'.current_window_started_at = runtime.current_window_started_at
          /\ runtime'.current_window_used >= runtime.current_window_used]_vars

\* README's admission logic (README.md:297-303) decides every request and
\* appends an audit record for it.  A window_seconds that create_quota_policy
\* accepts, but whose window ends beyond i64, makes consume_request fail with
\* MathOverflow before either.
EveryRequestIsRecorded ==
  runtime.initialized /\ runtime.rolling_sequence < MaxU64 =>
    \A action \in ActionInputs : ENABLED ConsumeRequest(action)

(***************************************************************************)
(* Refinement: the runtime and the checkpoint implement the ledger.        *)
(***************************************************************************)
Ledger == INSTANCE AuditLedger WITH
  decided <- [admitted |-> runtime.total_allowed,
              refused  |-> runtime.total_rejected],
  settled <- [admitted |-> checkpoint.total_allowed,
              refused  |-> checkpoint.total_rejected]

\* Every step of the accounts is a ledger step or changes neither column.
ImplementsLedger == Ledger!Spec
=============================================================================
