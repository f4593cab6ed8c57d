---------------------------- MODULE AuditDomain ----------------------------
(***************************************************************************)
(* The vocabulary of one audit: the status values of its tables, the       *)
(* matrix of work an audit describes, and the two rules that turn run      *)
(* counts into an audit status.  Everything here is pure; the state        *)
(* machine is in AuditExecution.                                           *)
(***************************************************************************)
EXTENDS Integers, FiniteSets

CONSTANTS
    NumQueries,     \* query rows of the audit, ids 1..NumQueries
    MaxQueries,     \* audits.max_queries; 0 stands for NULL (no cap)
    NumTargets,     \* audit_targets rows, ids 1..NumTargets
    ProviderOf,     \* [1..NumTargets -> provider], AuditTarget.execution_provider
    RunsPerQuery,   \* audits.runs_per_query
    MaxRunNumber    \* bound of the model: largest run_number a retry may reach

ASSUME DomainAssumption ==
    /\ NumQueries \in Nat \ {0}
    /\ MaxQueries \in Nat
    /\ NumTargets \in Nat \ {0}
    /\ DOMAIN ProviderOf = 1..NumTargets
    /\ RunsPerQuery \in Nat \ {0}
    /\ MaxRunNumber \in Nat
    /\ RunsPerQuery <= MaxRunNumber

-----------------------------------------------------------------------------
(* Status columns.  "absent" stands for "there is no such row".            *)

AuditStatus == {"created", "running", "completed", "partial", "failed", "cancelled"}

TerminalSnapshotStatuses == {"completed", "partial", "cancelled", "failed"}

JobStatus == {"absent", "pending", "completed", "failed", "cancelled"}

BackgroundJobStatus ==
    {"absent", "queued", "running", "completed", "failed", "cancel_requested", "cancelled"}

ActiveBackgroundJobStatuses == {"queued", "running", "cancel_requested"}

\* error, timeout and rate_limited are counted together wherever the audit
\* life cycle reads them; "failure" stands for the three.
RunStatus == {"absent", "success", "failure"}

Outcome == {"success", "failure"}

-----------------------------------------------------------------------------
(* The matrix of work.  A unit is a (query, target) pair; a job, and the   *)
(* run it produces, is a unit and a run number: the idempotency key.       *)

EffectiveQueries ==
    IF MaxQueries = 0 THEN 1..NumQueries ELSE {q \in 1..NumQueries : q <= MaxQueries}

Unit == EffectiveQueries \X (1..NumTargets)

JobKey == Unit \X (1..MaxRunNumber)

UnitOf(k) == k[1]
RunNumber(k) == k[2]

\* the candidates of schedule_jobs_for_audit
ScheduledKeys == {k \in JobKey : RunNumber(k) <= RunsPerQuery}

\* Job.id order: the scheduler inserts by query, target and run number; the
\* jobs of a retry come later, in an order the SELECT of the retry leaves open.
InsertedBefore(j, k) ==
    LET u == UnitOf(j)
        v == UnitOf(k)
    IN  /\ j \in ScheduledKeys
        /\ \/ k \notin ScheduledKeys
           \/ u[1] < v[1]
           \/ u[1] = v[1] /\ u[2] < v[2]
           \/ u = v /\ RunNumber(j) < RunNumber(k)

\* audits.providers holds the distinct execution providers of the targets.
LegacyProviders == {ProviderOf[t] : t \in 1..NumTargets}

\* _expected_run_count of the pipeline and of post-processing counts the legacy
\* providers, although the API's get_expected_run_count counts target rows.
ExpectedRunCount ==
    Cardinality(EffectiveQueries) * Cardinality(LegacyProviders) * RunsPerQuery

-----------------------------------------------------------------------------
(* derive_final_audit_status.  counts has the fields of                    *)
(* AuditFinalStatusInputs but the fatal flag, which the pipeline never     *)
(* sets: its fatal paths write FAILED themselves.                          *)

HasRecoverableErrors(counts) ==
    \/ counts.terminal_failure > 0
    \/ counts.execution_errors > 0
    \/ counts.processing_errors > 0

\* mutant: one run more than expected is waited for
MoreThanExpectedTerminal(counts) == counts.terminal > counts.expected

AllExpectedTerminal(counts) ==
    counts.expected > 0 /\ counts.terminal >= counts.expected

\* mutant: completeness is decided before errors are looked at
CompletedFirst(counts) ==
    IF counts.usable = 0 THEN "failed"
    ELSE IF AllExpectedTerminal(counts) THEN "completed"
    ELSE IF HasRecoverableErrors(counts) THEN "partial"
    ELSE "running"

\* mutant: errors are looked at before usable results
PartialBeforeFailed(counts) ==
    IF HasRecoverableErrors(counts) THEN "partial"
    ELSE IF AllExpectedTerminal(counts) THEN "completed"
    ELSE "running"

\* mutant: errors do not end an audit that misses a run
RunningUnlessComplete(counts) ==
    IF AllExpectedTerminal(counts) /\ HasRecoverableErrors(counts) THEN "partial"
    ELSE IF AllExpectedTerminal(counts) THEN "completed"
    ELSE "running"

\* mutant: a failed run fails the audit whatever else was answered
FailedOnAnyFailure(counts) ==
    IF counts.terminal_failure > 0 THEN "failed"
    ELSE IF HasRecoverableErrors(counts) THEN "partial"
    ELSE IF AllExpectedTerminal(counts) THEN "completed"
    ELSE "running"

DeriveFinalAuditStatus(counts) ==
    IF /\ counts.usable = 0
       /\ \/ counts.terminal_failure > 0
          \/ counts.execution_errors > 0
          \/ AllExpectedTerminal(counts)
      THEN "failed"
    ELSE IF HasRecoverableErrors(counts) THEN "partial"
    ELSE IF AllExpectedTerminal(counts) THEN "completed"
    ELSE "running"

(* _derive_post_processing_status: the interim status written by the       *)
(* post-processing transaction, before the pipeline derives the final one. *)
DerivePostProcessingStatus(counts, current) ==
    IF /\ AllExpectedTerminal(counts)
       /\ counts.terminal_failure = 0
       /\ counts.usable = counts.successful
       /\ counts.processing_errors = 0
      THEN "completed"
    ELSE IF counts.terminal_failure > 0 \/ counts.processing_errors > 0 THEN "partial"
    ELSE IF counts.terminal > 0 THEN "running"
    ELSE current
=============================================================================
