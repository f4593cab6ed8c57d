---------------------------- MODULE AuditEditing ----------------------------
(***************************************************************************)
(* The rows that describe an audit, and what changes them: creation, edit, *)
(* duplicate, archive, restore and delete, next to the one pipeline the    *)
(* audit may have started.                                                 *)
(*                                                                         *)
(* The database is PostgreSQL at READ COMMITTED.  A DELETE sees the rows   *)
(* committed when the statement starts, waits for those another open       *)
(* transaction has deleted, and never sees what that transaction inserted; *)
(* so a DELETE is two actions here, and a handler that waits between two   *)
(* statements reads a later state in the second.                           *)
(*                                                                         *)
(* The rows of queries and of audit_targets are known by the write that    *)
(* inserted them: 0 is the creation of the audit, e the e-th edit.  A job  *)
(* or run is the pair of the writes its query and its target come from.    *)
(***************************************************************************)
EXTENDS Integers, FiniteSets

CONSTANTS
    Slots,          \* requests that may be in progress together
    Operations,     \* the operations users perform
    MaxEdits,       \* bound of the model: edit requests that pass the status check
    MaxCopies       \* bound of the model: duplicates made

ASSUME EditingAssumption ==
    /\ Operations \subseteq {"edit", "duplicate", "archive", "delete", "enqueue"}
    /\ MaxEdits \in Nat
    /\ MaxCopies \in Nat

Write == 0..MaxEdits

VARIABLES
    (* committed rows *)
    audit,      \* audits.status, "absent" before the audit is created and after it is deleted
    deleted,    \* the audit was deleted
    archived,   \* audits.archived_at IS NOT NULL
    queries,    \* writes that have rows in queries
    targets,    \* writes that have rows in audit_targets
    facts,      \* writes that have rows in brand_facts
    jobs,       \* pairs that have a job
    runs,       \* pairs that have a run
    bg,         \* the background job row of the pipeline
    copies,     \* the audits made by duplicate: the writes their rows come from
    (* process memory *)
    req,        \* [Slots -> Request]
    edits,      \* edit requests so far: the number of the next write
    pc,         \* stage of the pipeline
    plan        \* what the pipeline has read: queries and targets, then job rows

tables == <<audit, deleted, archived, queries, targets, facts, jobs, runs, bg, copies>>
pipeline == <<pc, plan>>
vars == <<tables, req, edits, pipeline>>

RequestStage ==
    {"idle", "edit", "queries_read", "queries_deleted", "targets_read", "targets_deleted",
     "duplicate", "delete"}

Request == [stage: RequestStage,
            write: Write,               \* the number of an edit
            locks_audit: BOOLEAN,       \* its payload changes a column of audits
            queries: SUBSET Write,      \* rows of queries it has read or deleted
            targets: SUBSET Write]

Idle == [stage |-> "idle", write |-> 0, locks_audit |-> FALSE, queries |-> {}, targets |-> {}]

PipelineStage == {"none", "queued", "queries", "targets", "schedule", "execute", "done"}

NoPlan == [queries |-> {}, targets |-> {}, jobs |-> {}]

TypeOK ==
    /\ audit \in {"absent", "created", "running", "completed", "partial", "failed"}
    /\ deleted \in BOOLEAN
    /\ archived \in BOOLEAN
    /\ queries \subseteq Write
    /\ targets \subseteq Write
    /\ facts \subseteq Write
    /\ jobs \subseteq Write \X Write
    /\ runs \subseteq Write \X Write
    /\ bg \in {"absent", "active", "ended"}
    /\ copies \subseteq [queries: SUBSET Write, targets: SUBSET Write]
    /\ req \in [Slots -> Request]
    /\ edits \in Write
    /\ pc \in PipelineStage
    /\ plan \in [queries: SUBSET Write, targets: SUBSET Write, jobs: SUBSET (Write \X Write)]

Init ==
    /\ audit = "absent"
    /\ deleted = FALSE
    /\ archived = FALSE
    /\ queries = {} /\ targets = {} /\ facts = {}
    /\ jobs = {} /\ runs = {}
    /\ bg = "absent"
    /\ copies = {}
    /\ req = [r \in Slots |-> Idle]
    /\ edits = 0
    /\ pc = "none"
    /\ plan = NoPlan

-----------------------------------------------------------------------------
(* Locks of open transactions.                                             *)

\* edits past their first statement: the row of audits is theirs if they change it
Writers(r) == {s \in Slots \ {r} :
                 req[s].stage \in {"queries_read", "queries_deleted", "targets_read",
                                   "targets_deleted"}}

\* the audits row is locked by an edit that changes it, or by the pipeline
\* between the flush of RUNNING and the commit of its schedule
AuditLockedFor(r) ==
    \/ \E s \in Writers(r) : req[s].locks_audit
    \/ pc \in {"targets", "schedule"}

\* mutant: a DELETE also waits for rows another one has only read
ReadQueriesAreLocked(r) == UNION {req[s].queries : s \in Writers(r)}

QueriesLockedFor(r) ==
    UNION {req[s].queries : s \in {s \in Writers(r) : req[s].stage # "queries_read"}}

TargetsLockedFor(r) ==
    UNION {req[s].targets : s \in {s \in Writers(r) : req[s].stage = "targets_deleted"}}

\* mutant: the row of the audit is not looked for
NoAuditNeeded == TRUE

\* the row an UPDATE of audits matches, and a foreign key to audits finds
AuditExists == audit # "absent"

-----------------------------------------------------------------------------
(* POST /audits, PUT /audits/{id}.                                         *)

\* create_audit_record: the audit and its rows in one commit
CreateAudit ==
    /\ audit = "absent" /\ ~ deleted
    /\ audit' = "created"
    /\ queries' = {0} /\ targets' = {0} /\ facts' = {0}
    /\ UNCHANGED <<deleted, archived, jobs, runs, bg, copies, req, edits, pipeline>>

\* the only check of update_audit_record
Editable == audit = "created"

BeginEdit(r) ==
    /\ "edit" \in Operations
    /\ req[r].stage = "idle"
    /\ Editable
    /\ edits < MaxEdits
    /\ edits' = edits + 1
    /\ \E changes \in BOOLEAN :
         req' = [req EXCEPT ![r] = [Idle EXCEPT !.stage = "edit",
                                                !.write = edits + 1,
                                                !.locks_audit = changes]]
    /\ UNCHANGED <<tables, pipeline>>

\* the autoflush of the assigned columns, then DELETE FROM queries starts
ReadDoomedQueries(r) ==
    /\ req[r].stage = "edit"
    /\ req[r].locks_audit => ~ AuditLockedFor(r)
    /\ req' = [req EXCEPT ![r].stage = "queries_read", ![r].queries = queries]
    /\ UNCHANGED <<tables, edits, pipeline>>

DeleteQueries(r) ==
    /\ req[r].stage = "queries_read"
    /\ req[r].queries \cap QueriesLockedFor(r) = {}
    /\ req' = [req EXCEPT ![r].stage = "queries_deleted", ![r].queries = @ \cap queries]
    /\ UNCHANGED <<tables, edits, pipeline>>

ReadDoomedTargets(r) ==
    /\ req[r].stage = "queries_deleted"
    /\ req' = [req EXCEPT ![r].stage = "targets_read", ![r].targets = targets]
    /\ UNCHANGED <<tables, edits, pipeline>>

DeleteTargets(r) ==
    /\ req[r].stage = "targets_read"
    /\ req[r].targets \cap TargetsLockedFor(r) = {}
    /\ req' = [req EXCEPT ![r].stage = "targets_deleted", ![r].targets = @ \cap targets]
    /\ UNCHANGED <<tables, edits, pipeline>>

\* mutant: the foreign key to audit_targets does not cascade
CascadeOfQueries(pairs, goneQueries, goneTargets) ==
    {p \in pairs : p[1] \notin goneQueries}

\* ON DELETE CASCADE of jobs and runs to their query and their target
Cascade(pairs, goneQueries, goneTargets) ==
    {p \in pairs : p[1] \notin goneQueries /\ p[2] \notin goneTargets}

\* mutant: the new rows are inserted before the old ones are deleted
RowsDeletedLast(rows, gone, write) == rows \ (gone \cup {write})

\* mutant: the counter is read after the next edit has begun
RowsOfNextEdit(rows, gone, write) == (rows \ gone) \cup {write + 1}

\* rows of a table after the edit: what it deleted is gone, what it adds is there
RowsAfterEdit(rows, gone, write) == (rows \ gone) \cup {write}

\* the INSERTs, replace_brand_facts_for_audit and the commit
CommitEdit(r) ==
    LET e == req[r]
    IN  /\ e.stage = "targets_deleted"
        /\ AuditExists
        /\ queries' = RowsAfterEdit(queries, e.queries, e.write)
        /\ targets' = RowsAfterEdit(targets, e.targets, e.write)
        /\ facts' = {e.write}
        /\ jobs' = Cascade(jobs, e.queries, e.targets)
        /\ runs' = Cascade(runs, e.queries, e.targets)
        /\ req' = [req EXCEPT ![r] = Idle]
        /\ UNCHANGED <<audit, deleted, archived, bg, copies, edits, pipeline>>

\* the audit was deleted meanwhile: the UPDATE or an INSERT fails
RefuseEdit(r) ==
    /\ req[r].stage \in {"edit", "targets_deleted"}
    /\ ~ AuditExists
    /\ req' = [req EXCEPT ![r] = Idle]
    /\ UNCHANGED <<tables, edits, pipeline>>

-----------------------------------------------------------------------------
(* POST /audits/{id}/duplicate: queries and targets are read by two        *)
(* SELECTs, then the copy is written in one commit.                        *)

BeginDuplicate(r) ==
    /\ "duplicate" \in Operations
    /\ req[r].stage = "idle"
    /\ audit # "absent"
    /\ Cardinality(copies) + Cardinality({s \in Slots : req[s].stage = "duplicate"}) < MaxCopies
    /\ req' = [req EXCEPT ![r] = [Idle EXCEPT !.stage = "duplicate", !.queries = queries]]
    /\ UNCHANGED <<tables, edits, pipeline>>

CommitDuplicate(r) ==
    /\ req[r].stage = "duplicate"
    /\ copies' = copies \cup {[queries |-> req[r].queries, targets |-> targets]}
    /\ req' = [req EXCEPT ![r] = Idle]
    /\ UNCHANGED <<audit, deleted, archived, queries, targets, facts, jobs, runs, bg, edits,
                   pipeline>>

-----------------------------------------------------------------------------
(* Archive, restore, delete.                                               *)

ArchiveAudit ==
    /\ "archive" \in Operations
    /\ audit # "absent" /\ ~ archived
    /\ archived' = TRUE
    /\ UNCHANGED <<audit, deleted, queries, targets, facts, jobs, runs, bg, copies, req, edits,
                   pipeline>>

RestoreAudit ==
    /\ "archive" \in Operations
    /\ audit # "absent" /\ archived
    /\ archived' = FALSE
    /\ UNCHANGED <<audit, deleted, queries, targets, facts, jobs, runs, bg, copies, req, edits,
                   pipeline>>

Deletable == audit # "absent" /\ archived

\* the check, before session.delete loads the collections of the audit
BeginDelete(r) ==
    /\ "delete" \in Operations
    /\ req[r].stage = "idle"
    /\ Deletable
    /\ req' = [req EXCEPT ![r] = [Idle EXCEPT !.stage = "delete"]]
    /\ UNCHANGED <<tables, edits, pipeline>>

\* DELETE of the loaded rows, ON DELETE CASCADE for the others; it waits for the
\* rows open transactions have changed
CommitDelete(r) ==
    /\ req[r].stage = "delete"
    /\ audit # "absent"
    /\ ~ AuditLockedFor(r)
    /\ QueriesLockedFor(r) = {}
    /\ audit' = "absent" /\ deleted' = TRUE /\ archived' = FALSE
    /\ queries' = {} /\ targets' = {} /\ facts' = {}
    /\ jobs' = {} /\ runs' = {}
    /\ bg' = "absent"
    /\ req' = [req EXCEPT ![r] = Idle]
    /\ UNCHANGED <<copies, edits, pipeline>>

\* another request has deleted the audit: its DELETE matches no row
DeleteNothing(r) ==
    /\ req[r].stage = "delete"
    /\ audit = "absent"
    /\ req' = [req EXCEPT ![r] = Idle]
    /\ UNCHANGED <<tables, edits, pipeline>>

-----------------------------------------------------------------------------
(* The pipeline.  AuditExecution models its requests and its stages; here  *)
(* it is what the rows of the audit are read and referenced by.            *)

Enqueue ==
    /\ "enqueue" \in Operations
    /\ audit = "created" /\ bg # "active" /\ pc = "none"
    /\ bg' = "active"
    /\ pc' = "queued"
    /\ UNCHANGED <<audit, deleted, archived, queries, targets, facts, jobs, runs, copies, req,
                   edits, plan>>

\* The pipeline ends and closes its background job, unless the row is gone.
EndPipeline ==
    /\ pc' = "done"
    /\ plan' = NoPlan
    /\ bg' = IF bg = "active" THEN "ended" ELSE bg

\* mark_background_job_running raises, or session.get(Audit) returns None
FindNothing ==
    /\ pc = "queued"
    /\ audit = "absent"
    /\ EndPipeline
    /\ UNCHANGED <<audit, deleted, archived, queries, targets, facts, jobs, runs, copies, req,
                   edits>>

\* audit.status = RUNNING is flushed by the first SELECT of the scheduler
ReadQueries ==
    /\ pc = "queued"
    /\ audit # "absent"
    /\ \A r \in Slots : req[r].locks_audit => req[r].stage \in {"idle", "edit"}
    /\ pc' = "targets"
    /\ plan' = [plan EXCEPT !.queries = queries]
    /\ UNCHANGED <<tables, req, edits>>

ReadTargets ==
    /\ pc = "targets"
    /\ pc' = "schedule"
    /\ plan' = [plan EXCEPT !.targets = targets]
    /\ UNCHANGED <<tables, req, edits>>

Planned == plan.queries \X plan.targets

\* the foreign keys of the rows to insert find their query and their target
ForeignKeysHold(pairs) == \A p \in pairs : p[1] \in queries /\ p[2] \in targets

\* an INSERT or UPDATE waits while its query or target is deleted by an open transaction
RowsAreUnlocked(pairs) ==
    \A r \in Slots, p \in pairs :
        /\ req[r].stage \in {"queries_deleted", "targets_read", "targets_deleted"}
             => p[1] \notin req[r].queries
        /\ req[r].stage = "targets_deleted" => p[2] \notin req[r].targets

CommitSchedule ==
    /\ pc = "schedule"
    /\ RowsAreUnlocked(Planned)
    /\ AuditExists
    /\ ForeignKeysHold(Planned)
    /\ audit' = "running"
    /\ jobs' = Planned
    /\ pc' = "execute"
    /\ plan' = [plan EXCEPT !.jobs = Planned]
    /\ UNCHANGED <<deleted, archived, queries, targets, facts, runs, bg, copies, req, edits>>

\* IntegrityError: rollback, _set_audit_status(FAILED)
FailSchedule ==
    /\ pc = "schedule"
    /\ RowsAreUnlocked(Planned)
    /\ ~ AuditExists \/ ~ ForeignKeysHold(Planned)
    /\ audit' = IF AuditExists THEN "failed" ELSE audit
    /\ EndPipeline
    /\ UNCHANGED <<deleted, archived, queries, targets, facts, jobs, runs, copies, req, edits>>

\* execute_job for one of the loaded jobs whose row is still there
ExecuteJob(p) ==
    /\ pc = "execute"
    /\ p \in plan.jobs \cap jobs
    /\ RowsAreUnlocked({p})
    /\ plan' = [plan EXCEPT !.jobs = @ \ {p}]
    /\ runs' = runs \cup {p}
    /\ UNCHANGED <<audit, deleted, archived, queries, targets, facts, jobs, bg, copies, req,
                   edits, pc>>

\* the row is gone: the UPDATE of jobs matches nothing, the exception leaves the
\* pipeline (see EscapeJob of AuditExecution)
LoseJob ==
    /\ pc = "execute"
    /\ ~ (plan.jobs \subseteq jobs)
    /\ EndPipeline
    /\ UNCHANGED <<audit, deleted, archived, queries, targets, facts, jobs, runs, copies, req,
                   edits>>

\* post-processing and the final status
FinishPipeline ==
    /\ pc = "execute"
    /\ plan.jobs = {}
    /\ IF AuditExists THEN audit' \in {"completed", "partial", "failed"}
                      ELSE UNCHANGED audit
    /\ EndPipeline
    /\ UNCHANGED <<deleted, archived, queries, targets, facts, jobs, runs, copies, req, edits>>

-----------------------------------------------------------------------------
BeginRequest(r) == BeginEdit(r) \/ BeginDuplicate(r) \/ BeginDelete(r)

FinishRequest(r) ==
    \/ ReadDoomedQueries(r)
    \/ DeleteQueries(r)
    \/ ReadDoomedTargets(r)
    \/ DeleteTargets(r)
    \/ CommitEdit(r)
    \/ RefuseEdit(r)
    \/ CommitDuplicate(r)
    \/ CommitDelete(r)
    \/ DeleteNothing(r)

PipelineStep ==
    \/ FindNothing
    \/ ReadQueries
    \/ ReadTargets
    \/ CommitSchedule
    \/ FailSchedule
    \/ \E p \in Write \X Write : ExecuteJob(p)
    \/ LoseJob
    \/ FinishPipeline

Next ==
    \/ CreateAudit
    \/ \E r \in Slots : BeginRequest(r) \/ FinishRequest(r)
    \/ ArchiveAudit
    \/ RestoreAudit
    \/ Enqueue
    \/ PipelineStep

Spec == Init /\ [][Next]_vars

\* a request past its check and the pipeline's task go on as soon as the locks
\* they wait for are released
Fairness == WF_vars(PipelineStep) /\ \A r \in Slots : WF_vars(FinishRequest(r))

FairSpec == Spec /\ Fairness

-----------------------------------------------------------------------------
(* Properties.                                                             *)

\* Whatever an edit or a delete removes under a running pipeline, the jobs and
\* runs that remain belong to stored queries and targets.
WorkBelongsToMatrix == ForeignKeysHold(jobs \cup runs)

\* However edits interleave, an audit is never left without queries, targets or
\* facts, so what its owner sees can always be run.
MatrixIsNeverEmpty ==
    audit # "absent" => queries # {} /\ targets # {} /\ facts # {}

\* A deleted audit leaves no row behind, and neither a pipeline that is still at
\* work nor an edit that passed its check brings one back.
DeletionIsFinal ==
    deleted => /\ audit = "absent" /\ bg = "absent"
               /\ queries \cup targets \cup facts = {}
               /\ jobs \cup runs = {}

\* an edit or a delete that waits for rows of other transactions
RequestWaits(r) ==
    \/ req[r].stage = "edit" /\ AuditExists /\ req[r].locks_audit /\ AuditLockedFor(r)
    \/ req[r].stage = "queries_read" /\ req[r].queries \cap QueriesLockedFor(r) # {}
    \/ req[r].stage = "targets_read" /\ req[r].targets \cap TargetsLockedFor(r) # {}
    \/ req[r].stage = "delete" /\ AuditExists /\ (AuditLockedFor(r) \/ QueriesLockedFor(r) # {})

\* the pipeline waits for the row of the audit, or for what its rows refer to
PipelineWaits ==
    \/ pc = "queued" /\ AuditExists
         /\ \E r \in Slots : req[r].locks_audit /\ req[r].stage \notin {"idle", "edit"}
    \/ pc = "schedule" /\ ~ RowsAreUnlocked(Planned)
    \/ pc = "execute" /\ \E p \in plan.jobs \cap jobs : ~ RowsAreUnlocked({p})

\* Edits, deletes and the pipeline lock the audit, its queries and its targets, and
\* keep the locks to their commit; they never all wait for each other, because all
\* of them take the rows in this order.
SomeoneCanGoOn ==
    (\E r \in Slots : req[r].stage # "idle") \/ pc \notin {"none", "done"}
      => \/ \E r \in Slots : req[r].stage # "idle" /\ ~ RequestWaits(r)
         \/ pc \notin {"none", "done"} /\ ~ PipelineWaits

\* Every edit, duplicate and delete past its reads ends, and so does the pipeline,
\* whatever the others hold.
RequestsAndPipelineEnd ==
    /\ \A r \in Slots : req[r].stage # "idle" ~> req[r].stage = "idle"
    /\ pc = "queued" ~> pc = "done"

\* An audit is edited only before it starts running (AUDIT_NOT_EDITABLE_DETAIL).
EditedOnlyBeforeRunning ==
    [][queries' # queries /\ queries # {} /\ queries' # {} => audit = "created"]_vars

\* Only an archived audit is deleted (AUDIT_DELETE_ACTIVE_DETAIL).
OnlyArchivedIsDeleted == [][deleted' # deleted => archived]_vars

\* After an edit the audit has the rows of one write.
EditReplacesMatrix == Cardinality(queries) <= 1 /\ Cardinality(targets) <= 1

\* A duplicate has the queries and the targets of one version of the audit.
DuplicateIsOneMatrix == \A c \in copies : c.queries = c.targets
=============================================================================
