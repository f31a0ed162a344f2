# Gatekeeper in TLA+

A verification project for the Gatekeeper program: an Anchor program that keeps
API keys, roles and request quotas on Solana, lets a MagicBlock ephemeral
rollup (ER) answer the requests of a key, and settles the outcome into a
durable checkpoint. Around the program stand a TypeScript client, a CLI and
operator scripts.

## 1. The system

### Components, state, operations

| component | state it keeps | operations | source |
|---|---|---|---|
| control plane | Gateway, Organization, Role, ApiKey (PDAs; counters of each parent) | initialize_gateway, create_organization, create_role, attach_policy_to_role, create_api_key, revoke_api_key | `programs/gatekeeper/src/instructions/` |
| request path | QuotaPolicy (rules), QuotaRuntime (totals, window, rolling audit of 8) | create_quota_policy, initialize_quota_runtime, consume_request | `consume_request.rs`, `utils.rs`, `state.rs` |
| settlement | AuditCheckpoint, Organization.settlement_count | settle_runtime_checkpoint | `settle_runtime_checkpoint.rs` |
| MagicBlock lifecycle | owner of the runtime account, `is_delegated`, the ER's copy, commits in flight | delegate_quota_runtime, commit_quota_runtime, commit_and_undelegate_quota_runtime | `delegate_*.rs`, `commit_*.rs` |
| health summary | none | summarizeRuntimeHealth over a fetched runtime and checkpoint | `client/gatekeeper.ts`, `scripts/runtime-health.ts` |
| operator scripts | none of their own: local variables between awaits | reconcile-runtime (4 modes), devnet-er-smoke, devnet-web2-demo | `scripts/` |
| CLI | none | one command per instruction, from flags through derived addresses; call-endpoint, view-audit, runtime-status, which await and read | `cli/gatekeeper.ts`, `client/gatekeeper.ts` |
| diagnostics | none; exit status and report | probe the router's and the base's endpoints, send a transfer and poll for it | `scripts/router-*.ts`, `scripts/local-transport-doctor.ts` |
| events and error codes | none | logged; the reason of a failed transaction | `events.rs`, `errors.rs` |

### How they interact

Every transaction is atomic on its layer. On base, anybody may consume; all
else needs the organization's authority. Delegation hands the runtime account
to the delegation program: base instructions that name it fail Anchor's owner
check, the ER answers requests on its copy, with read-only clones of the key,
the role and the policy that follow base late and each on its own. Commits
travel to base asynchronously; commit_and_undelegate clears the flag on the ER
and schedules the return. Scripts and CLI read through the Magic Router first
and fall back to base RPC silently, so what they hold may be either copy. A CLI
command or a script is a sequence of awaits; between two of them any other
client's transaction may take effect, and an await that throws may have had its
effect all the same. The scripts create what `fetchMaybe` does not find, and it
takes every failure for an absence.

### What is hard, and what makes each part correct

* *Request path.* A window that expires, a policy rewritten mid-window, u64 and
  i64 limits, an audit buffer at its capacity. Correct when quota is never
  handed out twice, every sequence number is counted once and the audit is
  exactly the newest unsettled decisions.
* *Settlement.* Two accounts change together. Correct when the checkpoint is
  always the totals as they stood at the settled sequence number, on whichever
  layer the runtime moved on since.
* *Lifecycle.* Two copies, two clocks, a flag that travels with data and an
  owner that does not, commits late, out of order or lost. Correct when the
  system still is one ledger of decisions, and an undelegation brings all of it
  back.
* *Control plane.* `init_if_needed` accounts and six separately passed accounts
  per request. Correct when nothing is counted or initialised twice, no
  combination of accounts mixes keys or tenants, and only the authority of an
  organization changes it.
* *CLI and scripts at a runtime.* Values read before an await and used after it,
  from a copy nobody names, beside other operators and callers. Correct when
  what is printed, advised or called done is true of the system.
* *CLI and scripts at the control plane.* Flags left out or swallowed, addresses
  derived in the client and constrained in the program, set-ups repeated after
  a failure. Correct when every account the program has can be reached, and a
  repeated set-up neither spoils nor gets stuck on what is there.
* *Diagnostics.* An exit status that others rely on, a deadline against a late
  transfer. Correct when a success means what it says, and they end.

`PROJECT.json` lists each of these hazards at its line.

## 2. Modules

| module | models |
|---|---|
| `RuntimeOps` | the records of `state.rs` and the pure part of every handler: argument checks, `role_allows`, `reset_runtime_if_expired`, `append_runtime_audit`, the five outcomes of `consume_request`, the two halves of settlement, the flag writes of delegation |
| `AuditLedger` | abstract: a ledger of admitted/refused decisions, whose settled part is only ever brought to a copy of the whole |
| `BaseRuntime` | one key's accounts on plain Solana, one action per instruction, a clock; its properties |
| `AdmissionHistory` | `BaseRuntime` with the list of admission times as a history variable |
| `DelegatedRuntime` | `BaseRuntime` with owner, ER copy, clones, second clock, commits in flight |
| `RuntimeHealth` | the summary operators over whichever copy a fetch may return in `DelegatedRuntime` |
| `Reconcile` | the reconcile script as a process beside `DelegatedRuntime`: one step per await, refused, killed, or losing the answer of a transaction that took effect |
| `Operator` | call-endpoint, view-audit, runtime-status, runtime-health.ts and devnet-er-smoke.ts at one terminal, await by await, beside `Reconcile` at another |
| `ControlPlane` | several organizations, roles, keys; addresses of PDAs; the account constraints of every instruction |
| `CliControl` | the CLI's commands on the control plane, from what is typed (a flag left out, or without its value) to the accounts sent |
| `DemoScript` | several runs of devnet-web2-demo.ts on the same two tenants, from `fetchMaybe` to the report, beside what anybody may send: requests and `initialize_gateway` |
| `Diagnostics` | `parseArgs`, the strict router check and the transport doctor with its deadline, beside a transfer that lands at any time or never |
| `RuntimeOpsProofs` | lemmas about the operators of `RuntimeOps` |
| `BaseRuntimeProofs` | the theorems about `BaseRuntime`, and step lemmas about quota and totals |
| `HistoryProofs` | the theorems about `AdmissionHistory`, and that the rolling audit explains the totals |
| `DelegatedRuntimeProofs` | the theorems about `DelegatedRuntime`, from the step lemmas of `BaseRuntimeProofs` |
| `OperatorProofs` | the theorems about `RuntimeHealth`, `Operator` and `Reconcile`, recovery by repeated runs among them |
| `DemoProofs` | the theorems about `DemoScript`, with those of `BaseRuntimeProofs` for each tenant |
| `ControlPlaneProofs` | the theorems about `ControlPlane` with the commands of `CliControl` |
| `DiagnosticsProofs` | the theorems about `Diagnostics` |
| `MC...` | instances for TLC |

`RuntimeOps` is extended by `BaseRuntime`, that by `AdmissionHistory` and
`DelegatedRuntime`, that by `RuntimeHealth`, that by `Reconcile`, that by
`Operator`; `BaseRuntime` and `DelegatedRuntime` instantiate `AuditLedger`.
`DemoScript` instantiates `BaseRuntime` twice, once per tenant, on one clock.
`ControlPlane`, extended by `CliControl`, models which accounts exist and match,
and leaves the contents of the runtime to the others. `Diagnostics` shares no
state with the program and stands alone.

### Correspondence

State variables are the accounts, fields named as in `state.rs`. An instruction
is one action: its account constraints and `require!`s are guards, a failed
`checked_add` disables the action because a failed transaction leaves nothing
behind. In `ControlPlane` an account is addressed by the seeds of its PDA, so
two seeds never meet by hashing.

Abstracted: bumps, the Pubkeys a record stores to name its key (each key has
PDAs of its own; `ControlPlane` is where they matter), `delegated_validator`,
`last_action`, labels, events. A hash, like an address, is the value it is taken
of. A script or command keeps of a fetched account what it uses after a later
await (`Glance` in `Operator`); of what it prints, only what a property is about.
In `Diagnostics` an answer is ok or not, a balance positive or not, and the 30
seconds are `Deadline` sleeps. A permission mask is the set of its bits. `allowed` in an audit record is `reason = "Allowed"`, which
`consume_request` sets together.

Platform assumptions, in `DelegatedRuntime`:

* the base data of a delegated account changes only by commits of the session;
* clones are taken when a session starts and refreshed one account at a time,
  at any time or never;
* the ER takes no write of an account whose undelegation is scheduled;
* ordinary commits land late, in any order, or never. The undelegation lands
  with its data and closes the delegation record, so commits under way when it
  lands are void;
* the two clocks advance independently.

### Faulty variants

An operator named `Faulty...` is the operator defined after it with one bug
in it. None of them is part of a specification: substituting one shows which
property notices the bug (`mutants` in `PROJECT.json`).

## 3. Model checking

| run | checks | expected | bounds, and why they are enough |
|---|---|---|---|
| `base_runtime` (MCBaseRuntime, MCBaseRuntime.cfg) | `TypeOK`, `AuditIsUnsettledSuffix`, `CheckpointMirrorsRuntime`, `AuditExplainsTotals`, `SlidingWindowBound`, `CountersAgreeWithHistory`, `RevokedKeyAdmitsNothing`, `WindowNeverRefunds`, `ImplementsLedger`. One key on plain Solana: audit, totals, window and checkpoint stay consistent under every order of consuming, settling, revoking and rewriting the policy, with counters reaching their u64 limit and windows beyond i64; they implement the ledger, agree with the real history of admissions and bound the request rate over any interval. | pass | capacity 2, MaxU64 5, MaxI64 5, clock 1..4, quotas 0 to 2, windows 0, 2 and 3, masks action 0 / not a mask, actions 0 and 5. Five decisions overflow the buffer, drain and overflow it again, exceed two full windows of the larger quota by one and reach the u64 limit; window 3 ends beyond i64 from time 3 on; window 2 expires within the clock; 0 is what the argument checks refuse; action 5 is invalid, and action 0 unauthorized until the role has its mask. |
| `base_recorded` (MCBaseRuntime, MCBaseRecorded.cfg) | `EveryRequestIsRecorded`. A window_seconds that create_quota_policy accepts makes consume_request fail without an audit record. | violation | as base_runtime. |
| `delegated_runtime` (MCDelegatedRuntime, MCDelegatedRuntime.cfg) | `DelegatedTypeOK`, `FlagMatchesOwner`, `CopiesNotAhead`, `LiveWellFormed`, `NoFalseAllClear`, `DriftIsLowerBound`, `RevocationHolds`, `LiveWindowNeverRefunds`, `ImplementsLiveLedger`. The same key with delegation sessions: stale clones, two clocks, commits landing late, out of order or never, and the undelegation racing them; nothing is lost, doubled or settled from a stale copy, and the health summary of whichever copy was fetched never calls unsettled work settled. | pass | capacity 2, MaxU64 3, two values of each clock, quota 1, window 1, one mask and one invalid one: three decisions fit eviction and two sessions, with a commit of each state of the ER in flight at once; the clocks differ both ways. |
| `settle_advice` (MCDelegatedRuntime, MCSettleAdvice.cfg) | `SettleAdviceHolds`. After commit_and_undelegate was accepted and before it reached base, the summary says the unsettled changes are on base and recommends settling. | violation | capacity 1, MaxU64 2, otherwise as delegated_runtime. |
| `eviction_note` (MCDelegatedRuntime, MCEvictionNote.cfg) | `EvictionNoteTrue`. A rolling audit that is exactly full is reported as having evicted entries. | violation | as settle_advice. |
| `operator` (MCOperator, MCOperator.cfg) | `OperatorTypeOK`, `DoneMeansSettled`, `CallReportsOwn`, `NoGapInView`, `NoneMeansSettled`, `SmokeSettlesItsRequest`. call-endpoint, view-audit, runtime-status and the smoke script at one terminal, or the reconcile script in every mode at another, await by await beside everything else that may happen to the runtime: what they print and what they call done is true. | pass | capacity 2, MaxU64 2, one clock value, quota 1, all modes of reconcile, one kill; the smoke script alone grants the permission. Two decisions: one of the command's own and one of somebody else's, on either side of each of its awaits, with as many sessions and settlements as the counters let happen. One terminal at a time. |
| `reconcile_recovers` (MCReconcile, MCReconcileRecovery.cfg) | `UndelegationDelivers`, `RunsRecover`. An accepted undelegation returns the account with every decision the ER made, and runs of undelegate-and-settle, started again after each failure, in the end settle every decision. | pass | capacity 1, MaxU64 2, no clock tick, no mask (every request is refused, which the script cannot tell from an admission), commit-only and undelegate-and-settle, one kill: two decisions fit before and during a run, with several sessions and settlements of others. |
| `reconcile_early` (MCReconcile, MCReconcileEarly.cfg) | `SettlesOnlyWhenBack`. After its own undelegation was accepted, the script passes its check and sends the settlement while the account is not back. | violation | as reconcile_recovers, with every mode. |
| `control_plane` (MCControlPlane, MCControlPlane.cfg) | `TypeOK`, `CountsMatchAccounts`, `OneTuplePerRuntime`, `CliReachesEveryRuntime`, `OnlyAuthorityChangesTenant`, `KeyBindingPermanent`, `BringUpCompletes`. Several organizations set up through the CLI beside any other client: counters count accounts, no combination of accounts mixes tenants or keys, the CLI's derived addresses reach every runtime, and nothing others do leaves a bring-up stuck. | pass | two principals, two organization names, a role name, two key materials, one name and one material being `true`, which is also what a flag without a value means; masks by number, by label and by a label that is unknown; one bring-up is persistent; MaxU64 2: another tenant's and another key's account exist for each to be confused with, and every counter reaches its limit. |
| `demo` (MCDemoScript, MCDemoScript.cfg) | `ReportIsOwn`, `SetUpUnderOwnWallet`, `SetUpKeepsWhatIsThere`. Two runs of the web2 demo given the same run id, by one wallet or two, failing anywhere, beside requests of anybody else: a report that is printed is about the run's own requests, and no set-up touches what it must not. | pass | two runs (symmetric), two wallets, two requests of anybody else to either tenant (`MaxOutside`), one window expiry in between; the buffer has its real capacity of 8, the counters room for all 12 requests. Two runs let one stop half-way and the other pass everywhere in between; two requests let anybody fall between a run's own before a check and between the last ones, admitted or refused. |
| `demo_reviewer` (MCDemoScript, MCDemoReviewer.cfg) | `OwnWalletSuffices`. On a cluster whose gateway belongs to somebody else, the demo cannot create its organizations with a wallet of its own. | violation | as demo, with one request of anybody else. |
| `diagnostics` (MCDiagnostics, MCDiagnostics.cfg) | `StrictMeansComplete`, `ContentMeansLanded`, `TimeoutShowsArrival`, `DiagnosisEnds`. The doctor and the strict router check, for every short command line: what exit status and report claim is true whenever answers come and the transfer lands, and they end. | pass | a deadline of three polls, command lines of up to four tokens over two flags and two values: every order and repetition of both flags with and without a value; a transfer landing before, during or after each poll. |

### What is not claimed

* `SlidingWindowBound` says *two* quotas per window length: a fixed window
  admits one quota at its end and another right after. One quota per sliding
  window does not hold and the code does not promise it.
* `RevocationHolds` starts when the ER has seen the revocation. Before its clone
  is refreshed a delegated key goes on admitting.
* `RunsRecover` says that a later run completes the work, not that the first one
  does: `SettlesOnlyWhenBack` shows the first one failing.
* `CallReportsOwn` lets call-endpoint report another caller's decision: it fetches
  the newest record after its own request, and prints the `rolling_sequence` that
  belongs to it, but not the one its own request got, which only the
  transaction's events say. When the audit was settled away meanwhile it prints
  `allowed: false` and exits with 0, whatever was decided. A request sent through
  the router may be answered by a report from base that is older than it.
* `SmokeSettlesItsRequest` is about runs that reach their report. The script
  prints "request admitted" for a refused request too, and settles without
  waiting for the account to come back: that settlement is refused, and the run
  ends, unless the account happens to be back.
* `ReportIsOwn` is about a run that reports. Two runs with one run id make each
  other fail, and so does anybody's request; nothing says that one of them gets
  through. What the owner of a run's wallet sends by hand meanwhile (another
  policy, a settlement) is not in `DemoScript`: nobody else can sign it.
* `StrictMeansComplete` is about the `--strict` that counts. Of several that is the
  last, unless the line begins with the flag: then it is the first token, which
  `parseArgs` puts back after its loop. So `--strict 0 --strict true` is not strict
  and may exit with 0 while methods are missing.
* `ContentMeansLanded` is about a transfer of something: told `--lamports 0` the
  doctor reports ok of a transfer that need not have landed. Its exit status
  ignores the router and the blockhash probes, and a transfer may land after the
  report that it did not.

### Fairness

Safety properties are checked without relying on any. `DelegatedSpec` has one
fairness condition, weak fairness of `Finalize`: an undelegation the platform
accepted is eventually completed. The code cannot retry it (the ER is locked,
base does not own the account), so without this assumption nothing could be
said; nobody is assumed to send any instruction, no commit is assumed to arrive
and the clocks may stop. `UndelegationDelivers` uses it.

`PersistentSpec`, for `RunsRecover`, adds an operator who follows the runbook: a
run that was started goes on to its end (weak fairness of `Script`; Node's event
loop resumes an await that was answered or refused), and after runs that end,
`undelegate-and-settle` is started again (strong fairness of that `Start`: between
two starts the script is running). The process may still die, `MaxKills` times,
and any transaction may lose its answer. The property excludes, by its
antecedent, an authority that opens new sessions for ever, and stops at the
model's bound on settlements. `UndelegationDelivers` is checked under it too.

`CliSpec`, for `BringUpCompletes`, has for each persistent bring-up an authority
that repeats each of its four commands until the program accepts it (weak
fairness of each): an operator's own persistence, as the runbook's sequence of
commands supposes. Everybody else does as they like, the same commands
included.

`DiagSpec`, for `DiagnosisEnds`, has weak fairness of the script's steps (the
calls of web3.js answer or throw) and of time. The transfer need never land.

## 4. Proofs

`BaseRuntimeProofs` proves, for every capacity, every u64 and i64 limit, every
set of inputs and every `MaxTime` (assumptions: the named `ASSUME`s of
`RuntimeOps` and `BaseRuntime` only):

| theorem | says |
|---|---|
| `Invariant` | `Spec => []IInv` |
| `TypeCorrect` | `[]TypeOK` |
| `AuditSuffixCorrect` | `[]AuditIsUnsettledSuffix` |
| `MirrorCorrect` | `[]CheckpointMirrorsRuntime` |
| `RevocationFinal` | `RevokedKeyAdmitsNothing` |
| `NoRefund` | `WindowNeverRefunds` |
| `LedgerImplemented` | `Spec => ImplementsLedger` |

The invariant is `IInv == TypeOK /\ SetupOrder /\ AuditIsUnsettledSuffix /\
CheckpointMirrorsRuntime`. The last two are not inductive alone.
`SetupOrder` says that an uninitialised runtime and its checkpoint are zeroed,
that an initialised runtime has an initialised policy, and that an initialised
policy has a positive quota and window. Without it, `initialize_quota_runtime`
could meet a checkpoint with totals next to a fresh runtime (mirror broken), and
`consume_request` a window of length zero, which resets in place and refunds
the quota. `RuntimeOpsProofs` gives what each handler does to
a well-formed record (`AppendEffect`, `ResetEffect`, `ConsumeEffect`,
`SettleEffect`, `FreshEffect`), so the step proof has one case per instruction
and cites one lemma in each. The ledger refinement maps an admission to
`Admit`, a refusal to `Refuse`, a settlement to `Settle` and all else to
stuttering, using the mirror to know that a settled checkpoint equals the
totals.

`DelegatedRuntimeProofs` proves for the two-layer system, from the same named
assumptions and for any number of sessions and commits:

| theorem | says |
|---|---|
| `DelegatedInvariant` | `DelegatedSpec => []DInv` |
| `DelegatedTypeCorrect` | `[]DelegatedTypeOK` |
| `FlagCorrect` | `[]FlagMatchesOwner` |
| `CopiesCorrect` | `[]CopiesNotAhead` |
| `LiveCorrect` | `[]LiveWellFormed` |
| `LiveNoRefund` | `LiveWindowNeverRefunds` |
| `RevocationReachesAll` | `RevocationHolds` |
| `LiveLedgerImplemented` | `DelegatedSpec => ImplementsLiveLedger` |
| `UndelegationReturns` | `UndelegationDelivers`, if its guard lets `Finalize` happen |

`DInv` is `DelegatedTypeOK /\ IInv /\ FlagMatchesOwner /\ SessionOrder /\
SessionWellFormed /\ CopiesNotAhead`: the base layer's invariant goes on holding
whatever lands on the account, because every copy that can land is of an
initialised runtime (`SessionOrder`) and well formed against the checkpoint
(`SessionWellFormed`); the checkpoint cannot move under those copies, because
`FlagMatchesOwner` leaves no commit under way outside a session and a settlement
needs the program to own the account. The properties of `Live` need one more
lemma, `LiveStep`: a step is BaseRuntime's on the base account, a decision on the
ER's copy, a revocation, or changes nothing of the runtime in use but the
delegation flag. Each property then follows from the corresponding step lemma of
`BaseRuntimeProofs`. What the theorems take from the platform is in the actions
they quantify over: the lock, the atomic arrival of final copy and ownership,
and that a commit dies with its session (section 6).

`HistoryProofs` proves from the assumptions of `BaseRuntime`:

| theorem | says |
|---|---|
| `HistoryInvariant` | `HistorySpec => []HInv` |
| `CountersCorrect` | `[]CountersAgreeWithHistory` |
| `SlidingWindowCorrect` | `[]SlidingWindowBound` |
| `AuditExplained` | `Spec => []AuditExplainsTotals` |

The bound on any interval does not follow from the counter of the present
window: a policy may have been rewritten, and the interval may straddle windows.
`HInv` says instead where the admissions lie: those of the present window are
the last `current_window_used` ones; all but the largest quota of the others are
a shortest window older than its start (`WindowsApart`), so two admissions two
largest quotas apart are a shortest window apart (`AdmissionsApart`). A set of
more than two quotas of admissions has two such members, and no interval
shorter than a window holds both. `AuditExplained` follows the counts of a
buffer through what a push adds, an eviction takes and a settlement clears.

`OperatorProofs` proves of the health summary `AllClearTrue` (`[]NoFalseAllClear`) and
`DriftCorrect` (`[]DriftIsLowerBound`), from `DelegatedInvariant`: whatever copy was
fetched is well formed against the one checkpoint and not ahead of the runtime
in use. It proves for the commands, the smoke script and the reconcile
script beside the two-layer system, with any number of runs, kills and
sessions; its one assumption of its own is that the action the smoke script
sends is among the actions people send:

| theorem | says |
|---|---|
| `OperatorInvariant` | `OperatorSpec => []OperatorInv` |
| `OperatorTypeCorrect` | `[]OperatorTypeOK` |
| `DoneIsSettled` | `[]DoneMeansSettled` |
| `ReportIsOwn` | `[]CallReportsOwn` |
| `ViewHasNoGap` | `[]NoGapInView` |
| `NoneIsSettled` | `[]NoneMeansSettled` |
| `SmokeIsSettled` | `[]SmokeSettlesItsRequest` |
| `RepeatedRunsRecover` | `PersistentSpec => RunsRecover`, if guards let steps happen and runs stop dying |

`OperatorInv == DInv /\ ScriptInv /\ CommandInv`. The system moves only forward
(`Onward`): sequence numbers and the settled sequence do not decrease, and every
copy a fetch can return later is one it could return now or the one that has
just decided a request (`CopiesFollow`). `ScriptInv` and `CommandInv` state, per
await, what the values kept from earlier ones bound; each survives a step of the
system by `Onward` and a step of its own process by what that await read.

`ControlPlaneProofs` proves, for any sets of organizations, names, keys and
signers, with the CLI's commands among the clients (assumptions: those of
`ControlPlane`, `TypedAssumption`, `KeyIdAssumption`, and `PersistentAssumption`:
the persistent tenants have names that can be typed):

| theorem | says |
|---|---|
| `ControlPlaneInvariant` | `CliSpec => []CpInv` |
| `ControlPlaneTypeCorrect` | `[]TypeOK` |
| `OneTuple` | `[]OneTuplePerRuntime` |
| `CliReaches` | `[]CliReachesEveryRuntime` |
| `KeyBindingKept` | `KeyBindingPermanent` |
| `TenantIsolation` | `OnlyAuthorityChangesTenant` |
| `CountersMatch` | `[]CountsMatchAccounts` |
| `BringUpsComplete` | `CliSpec => BringUpCompletes`, if guards let commands happen and names fit the counters |

`CpInv` is `TypeOK` and that every account's Pubkey fields name what its address
is derived from and that this exists. Whatever a CLI command sends is one of the
instructions (`CliNextIsInstruction`), so the step proof has one case per
instruction and none per command. The counters need one lemma more: creating an
account adds one to the cardinality of its parent's children, and re-creating a
policy or a runtime adds none.

`DemoProofs` proves for any number of runs of the demo, all with one run id and by
any wallets, failing anywhere, beside any number of requests that other people
make of the same tenants (assumptions: those of `RuntimeOps`, `WalletAssumption`,
`RunAssumption`, and `WidthAssumption`: the quotas that buildTenant asks for fit a
u64 and the clock an i64):

| theorem | says |
|---|---|
| `DemoIsClient` | `DemoSpec => acme!Spec /\ globex!Spec` |
| `DemoInvariant` | `DemoSpec => []DemoInv` |
| `ReportsAreOwn` | `[]ReportIsOwn` |
| `SetUpIsOwn` | `[]SetUpUnderOwnWallet` |
| `SetUpKeeps` | `SetUpKeepsWhatIsThere` |

`DemoIsClient` is a refinement: to the program a run is one more client, as is
whoever else sends a request, and each tenant's accounts are a `BaseRuntime`, so that `BaseRuntimeProofs`, instantiated
once per tenant, gives `IInv` for both. What makes a report the run's own is no
lock but the totals: a check passes only at the totals that the run's own
requests make, so at that moment nobody else's can be among them, and those that
others add later come behind (`ClaimInv`). At most one run gets past the first
check. A run that reports has seen, after its settlement, a buffer whose first
record is the refusal of a revoked key; `DecidedInv` says that as long as nothing
was refused since a settlement the buffer holds admissions only, so that record
is the first one since the settlement, and it is the run's (`FinishInv`).

`DiagnosticsProofs` proves, for every deadline and command lines of every length:

| theorem | says |
|---|---|
| `DoctorInvariant` | `DiagSpec => []DoctorInv` |
| `ContentCorrect` | `[]ContentMeansLanded` |
| `TimeoutCorrect` | `[]TimeoutShowsArrival` |
| `LastFlagWins` | the flag's last value counts, wherever it stands |
| `StrictCorrect` | `[]StrictMeansComplete` |
| `DiagnosisIsBounded` | at most `6 * Deadline + 23` steps are left, and every step leaves fewer |

`DoctorInv` says what each await knows of the time slept and of what the last poll
saw. `LastFlagWins` is about a recursive function: that the loop of `parseArgs` can
be followed to its end (`ScanExists`), and that a key's last value survives it, is
shown by a least counterexample among the tokens counted from the end, since the
library's induction theorems cannot be instantiated here.

`DiagnosisIsBounded` is the safety half of `DiagnosisEnds`: the await the doctor is
at, the time left before the deadline and the transfer still to come are
measured by one number (`StepsLeft`) that every step lowers. A poll is two awaits
and a sleep, and no sleep begins in the future (`SleepInv`), so the doctor polls
neither for ever nor without time passing.

### Liveness

Three of the liveness properties are theorems about fairness. The prover takes
`ENABLED` as it stands: it can use the weak fairness of an action, but cannot see
that the action is enabled. Each theorem therefore has one hypothesis of the form
`[](Guard => ENABLED <<A>>_v)`, with the guard written out next to it. It can be
read off the definition of the action, whose conjuncts are the guard's and one
assignment per variable, in whatever state; it is true of every behaviour. All
else, that the guards hold when they have to, that nobody takes them away and
that the steps lead where they should, is proved:

* `UndelegationReturns` (`FinalizeGuard`): while the ER is locked, only the arrival
  of the undelegation touches the lock or the copy (`LockHolds`), and
  `FlagMatchesOwner` says that the undelegation is under way.
* `BringUpsComplete` (`GuardsSuffice`): no account that exists goes away
  (`AccountsStay`) and every organization's authority can sign (`AuthoritiesSign`),
  so each of the four commands finds what the one before left, and what it
  creates itself is missing or there to stay. `checked_add` on a parent's counter
  could refuse it for ever: `Room` says that there are no more role names and key
  ids than a counter can count, and as the counters count accounts
  (`CountersMatch`) one more then fits.
* `RepeatedRunsRecover` (`RunGuardsSuffice`): a run that nobody kills ends, since it
  has an await fewer ahead with each of its own steps (`Ahead`, `RunGetsOn`), so
  runs are started again and again (`RunsAreStarted`). Three stages follow. A run
  that begins in a session is shown the flag by whichever copy it fetched and
  undelegates, if nobody else has (`SessionIsEnded`); the undelegation arrives
  (`LockIsLifted`); with no new session, a run that begins then sees the runtime in
  use, does not stop at the check between undelegation and settlement, and
  settles what drift it finds, if nobody else has (`HomeIsSettled`). The
  hypothesis that kills come to an end follows from the bound `MaxKills`; it is
  stated because counting down from a bound is an induction, which the prover
  lacks under temporal operators.

### What is model-checked only

Every invariant, every action property and both refinements of the passing runs
are stated by one of these theorems, and so are all liveness properties but
`DiagnosisEnds`, which needs an induction over the steps that `DiagnosisIsBounded`
leaves. That the guards suffice is for TLC too: the passing runs of the liveness
properties rely on no such hypothesis. The properties of the runs that expect a
violation have no theorem.

## 5. Divergences found

* `EveryRequestIsRecorded` (`base_recorded`): a `window_seconds` that
  create_quota_policy accepts overflows the window's end in
  `reset_runtime_if_expired`; from then on an authorised request is neither
  decided nor recorded, against the admission logic of the repository's README.
* `SettleAdviceHolds` (`settle_advice`): "Runtime has committed-but-unsettled
  changes on base." is said from the ER's copy while the undelegation is still
  under way.
* `SettlesOnlyWhenBack` (`reconcile_early`): the same early flag lets the
  reconcile script's own check pass, and it sends a settlement that is refused.
* `EvictionNoteTrue` (`eviction_note`): "older runtime-only entries have been
  evicted" is said of a buffer that is exactly full and has lost nothing.
* `OwnWalletSuffices` (`demo_reviewer`): the demo is recommended to reviewers
  because it provisions tenants "under their own wallet", but creating an
  organization takes the gateway authority's signature.

## 6. Not modelled, and what comes next

What the platform assumptions of `DelegatedRuntime` carry: without the lock,
`ImplementsLiveLedger` fails (decisions made after the final copy was taken are
lost); if commits could still land after the undelegation, `LiveWellFormed` and
`DriftIsLowerBound` fail; if the account came back without the final data,
`LiveWindowNeverRefunds` fails.

`Reconcile` and `Operator` always have a router configured. Without one every fetch
returns the base copy, which is among the copies that `RuntimeViews` lets a fetch
return, so their safety properties cover that case; but nobody without a router
closes a session, and `RunsRecover` says nothing of such an operator.

Left out for good: events and error codes (logging; an error is a transaction
that does not happen); printHelp, formatting and the reading of wallet files;
conversions of numbers typed on the command line beyond what `parseArgs` does
with a missing value; how an address is found from its seeds; tests and the IDL,
which the models were read against but which keep no state.

Everything in `src/` that keeps state is modelled, and every property of the
passing runs has a theorem but one. What the tools leave open:

1. `DiagnosisEnds` from `DiagnosisIsBounded`, and `RepeatedRunsRecover` without its
   hypothesis on kills, once the prover has temporal induction over the naturals.
2. The hypotheses on guards in the liveness theorems, once it has rules for
   `ENABLED`.
3. A change of the program: the `map` in `PROJECT.json` says which definitions stand
   for which lines, and the mutants which property notices which bug.
