------------------------- MODULE AuditEditingProofs -------------------------
(***************************************************************************)
(* Theorems about AuditEditing, for any number of requests, edits and      *)
(* copies and any choice of the operations that users perform.             *)
(***************************************************************************)
EXTENDS AuditEditing, TLAPS

\* An audit without a row has no other rows; nothing brings a deleted one back.
AbsentLeavesNothing ==
    audit = "absent" =>
        /\ queries = {} /\ targets = {} /\ facts = {}
        /\ jobs = {} /\ runs = {}
        /\ bg = "absent"

DeletedIsAbsent == deleted => audit = "absent"

IInv ==
    /\ TypeOK
    /\ AbsentLeavesNothing
    /\ DeletedIsAbsent
    /\ WorkBelongsToMatrix
    /\ MatrixIsNeverEmpty

-----------------------------------------------------------------------------
(* Type correctness.                                                       *)

LEMMA IdleType == Idle \in Request
BY EditingAssumption DEF EditingAssumption, Idle, Request, RequestStage, Write

LEMMA NoPlanType ==
  NoPlan \in [queries: SUBSET Write, targets: SUBSET Write, jobs: SUBSET (Write \X Write)]
BY DEF NoPlan

LEMMA InitIsConsistent == Init => IInv
<1> SUFFICES ASSUME Init PROVE IInv
  OBVIOUS
<1>1. 0 \in Write
  BY EditingAssumption DEF EditingAssumption, Write
<1>2. TypeOK
  BY <1>1, IdleType, NoPlanType DEF Init, TypeOK, PipelineStage
<1>3. AbsentLeavesNothing /\ DeletedIsAbsent /\ WorkBelongsToMatrix /\ MatrixIsNeverEmpty
  BY DEF Init, AbsentLeavesNothing, DeletedIsAbsent, WorkBelongsToMatrix, ForeignKeysHold,
         MatrixIsNeverEmpty
<1> QED
  BY <1>2, <1>3 DEF IInv

LEMMA RequestType ==
  ASSUME TypeOK, NEW r \in Slots, BeginRequest(r) \/ FinishRequest(r)
  PROVE  TypeOK'
<1> USE DEF TypeOK, tables, pipeline
<1>0. req[r] \in Request
  OBVIOUS
<1>1. CASE BeginEdit(r)
  <2>1. edits + 1 \in Write
    BY <1>1, EditingAssumption DEF BeginEdit, Write, EditingAssumption
  <2>2. \A changes \in BOOLEAN :
          [Idle EXCEPT !.stage = "edit", !.write = edits + 1, !.locks_audit = changes] \in Request
    BY <2>1 DEF Idle, Request, RequestStage
  <2> QED
    BY <1>1, <2>1, <2>2 DEF BeginEdit
<1>2. CASE BeginDuplicate(r)
  <2>1. [Idle EXCEPT !.stage = "duplicate", !.queries = queries] \in Request
    BY IdleType DEF Idle, Request, RequestStage
  <2> QED
    BY <1>2, <2>1 DEF BeginDuplicate
<1>3. CASE BeginDelete(r)
  <2>1. [Idle EXCEPT !.stage = "delete"] \in Request
    BY IdleType DEF Idle, Request, RequestStage
  <2> QED
    BY <1>3, <2>1 DEF BeginDelete
<1>4. CASE ReadDoomedQueries(r)
  BY <1>0, <1>4 DEF ReadDoomedQueries, Request, RequestStage
<1>5. CASE DeleteQueries(r)
  BY <1>0, <1>5 DEF DeleteQueries, Request, RequestStage
<1>6. CASE ReadDoomedTargets(r)
  BY <1>0, <1>6 DEF ReadDoomedTargets, Request, RequestStage
<1>7. CASE DeleteTargets(r)
  BY <1>0, <1>7 DEF DeleteTargets, Request, RequestStage
<1>8. CASE CommitEdit(r)
  BY <1>0, <1>8, IdleType DEF CommitEdit, RowsAfterEdit, Cascade, Request
<1>9. CASE RefuseEdit(r)
  BY <1>9, IdleType DEF RefuseEdit
<1>10. CASE CommitDuplicate(r)
  <2>1. [queries |-> req[r].queries, targets |-> targets]
          \in [queries: SUBSET Write, targets: SUBSET Write]
    BY <1>0 DEF Request
  <2> QED
    BY <1>10, <2>1, IdleType DEF CommitDuplicate
<1>11. CASE CommitDelete(r)
  BY <1>11, IdleType DEF CommitDelete
<1>12. CASE DeleteNothing(r)
  BY <1>12, IdleType DEF DeleteNothing
<1> QED
  BY <1>1, <1>2, <1>3, <1>4, <1>5, <1>6, <1>7, <1>8, <1>9, <1>10, <1>11, <1>12
     DEF BeginRequest, FinishRequest

LEMMA PipelineType == TypeOK /\ (Enqueue \/ PipelineStep) => TypeOK'
<1> SUFFICES ASSUME TypeOK, Enqueue \/ PipelineStep PROVE TypeOK'
  OBVIOUS
<1> USE DEF TypeOK, tables, PipelineStage
<1>1. CASE Enqueue
  BY <1>1 DEF Enqueue
<1>2. CASE FindNothing
  BY <1>2, NoPlanType DEF FindNothing, EndPipeline
<1>3. CASE ReadQueries
  BY <1>3 DEF ReadQueries
<1>4. CASE ReadTargets
  BY <1>4 DEF ReadTargets
<1>5. CASE CommitSchedule
  BY <1>5 DEF CommitSchedule, Planned
<1>6. CASE FailSchedule
  BY <1>6, NoPlanType DEF FailSchedule, EndPipeline
<1>7. ASSUME NEW p \in Write \X Write, ExecuteJob(p)
      PROVE  TypeOK'
  BY <1>7 DEF ExecuteJob
<1>8. CASE LoseJob
  BY <1>8, NoPlanType DEF LoseJob, EndPipeline
<1>9. CASE FinishPipeline
  BY <1>9, NoPlanType DEF FinishPipeline, EndPipeline
<1> QED
  BY <1>1, <1>2, <1>3, <1>4, <1>5, <1>6, <1>7, <1>8, <1>9 DEF PipelineStep

LEMMA TypeStep == TypeOK /\ [Next]_vars => TypeOK'
<1> SUFFICES ASSUME TypeOK, [Next]_vars PROVE TypeOK'
  OBVIOUS
<1>1. CASE CreateAudit
  <2>1. {0} \subseteq Write
    BY EditingAssumption DEF EditingAssumption, Write
  <2> QED
    BY <1>1, <2>1 DEF CreateAudit, TypeOK, pipeline
<1>2. CASE ArchiveAudit
  BY <1>2 DEF ArchiveAudit, TypeOK, pipeline
<1>3. CASE RestoreAudit
  BY <1>3 DEF RestoreAudit, TypeOK, pipeline
<1>4. CASE UNCHANGED vars
  BY <1>4 DEF vars, tables, pipeline, TypeOK
<1> QED
  BY <1>1, <1>2, <1>3, <1>4, RequestType, PipelineType DEF Next

-----------------------------------------------------------------------------
(* The rows stay consistent.                                               *)

\* Actions that change no table keep what is said about tables.
LEMMA TablesKept ==
  ASSUME IInv, UNCHANGED tables
  PROVE  AbsentLeavesNothing' /\ DeletedIsAbsent' /\ WorkBelongsToMatrix' /\ MatrixIsNeverEmpty'
BY DEF IInv, tables, AbsentLeavesNothing, DeletedIsAbsent, WorkBelongsToMatrix, ForeignKeysHold,
       MatrixIsNeverEmpty

LEMMA ConsistentStep == IInv /\ [Next]_vars => IInv'
<1> SUFFICES ASSUME IInv, [Next]_vars PROVE IInv'
  OBVIOUS
<1>t. TypeOK'
  BY TypeStep DEF IInv
<1> DEFINE Rest == AbsentLeavesNothing /\ DeletedIsAbsent /\ WorkBelongsToMatrix /\ MatrixIsNeverEmpty
<1> SUFFICES Rest'
  BY <1>t DEF IInv
<1> USE DEF IInv, AbsentLeavesNothing, DeletedIsAbsent, WorkBelongsToMatrix, ForeignKeysHold,
            MatrixIsNeverEmpty
<1>1. CASE CreateAudit
  BY <1>1 DEF CreateAudit
<1>2. ASSUME NEW r \in Slots, BeginRequest(r)
      PROVE  Rest'
  BY <1>2, TablesKept DEF BeginRequest, BeginEdit, BeginDuplicate, BeginDelete
<1>3. ASSUME NEW r \in Slots, ReadDoomedQueries(r) \/ DeleteQueries(r) \/ ReadDoomedTargets(r)
                                \/ DeleteTargets(r) \/ RefuseEdit(r) \/ DeleteNothing(r)
      PROVE  Rest'
  BY <1>3, TablesKept
     DEF ReadDoomedQueries, DeleteQueries, ReadDoomedTargets, DeleteTargets, RefuseEdit,
         DeleteNothing
<1>4. ASSUME NEW r \in Slots, CommitEdit(r)
      PROVE  Rest'
  <2>1. /\ queries' # {} /\ targets' # {} /\ facts' # {}
        /\ UNCHANGED <<audit, deleted>>
        /\ audit # "absent"
    BY <1>4 DEF CommitEdit, RowsAfterEdit, AuditExists
  <2>2. \A p \in (jobs \cup runs)' : p[1] \in queries' /\ p[2] \in targets'
    BY <1>4 DEF CommitEdit, RowsAfterEdit, Cascade
  <2> QED
    BY <2>1, <2>2
<1>5. ASSUME NEW r \in Slots, CommitDuplicate(r)
      PROVE  Rest'
  BY <1>5 DEF CommitDuplicate
<1>6. ASSUME NEW r \in Slots, CommitDelete(r)
      PROVE  Rest'
  BY <1>6 DEF CommitDelete
<1>7. CASE ArchiveAudit \/ RestoreAudit
  BY <1>7 DEF ArchiveAudit, RestoreAudit
<1>8. CASE Enqueue
  BY <1>8 DEF Enqueue
<1>9. CASE FindNothing \/ LoseJob
  BY <1>9 DEF FindNothing, LoseJob, EndPipeline
<1>10. CASE ReadQueries \/ ReadTargets
  BY <1>10, TablesKept DEF ReadQueries, ReadTargets, tables
<1>11. CASE CommitSchedule
  BY <1>11 DEF CommitSchedule, AuditExists
<1>12. CASE FailSchedule
  BY <1>12 DEF FailSchedule, EndPipeline, AuditExists
<1>13. ASSUME NEW p \in Write \X Write, ExecuteJob(p)
       PROVE  Rest'
  BY <1>13 DEF ExecuteJob
<1>14. CASE FinishPipeline
  BY <1>14 DEF FinishPipeline, EndPipeline, AuditExists
<1>15. CASE UNCHANGED vars
  BY <1>15, TablesKept DEF vars
<1> QED
  BY <1>1, <1>2, <1>3, <1>4, <1>5, <1>6, <1>7, <1>8, <1>9, <1>10, <1>11, <1>12, <1>13, <1>14, <1>15
     DEF Next, FinishRequest, PipelineStep

LEMMA RowsAreConsistent == Spec => []IInv
BY InitIsConsistent, ConsistentStep, PTL DEF Spec

-----------------------------------------------------------------------------
\* The rows, the requests and the pipeline have their declared types.
THEOREM EditingTypeCorrect == Spec => []TypeOK
<1>1. IInv => TypeOK
  BY DEF IInv
<1> QED
  BY RowsAreConsistent, <1>1, PTL

\* However edits, deletes and the pipeline interleave, a job or a run that is stored
\* belongs to a stored query and a stored target (the cascades of models.py).
THEOREM WorkAlwaysBelongsToMatrix == Spec => []WorkBelongsToMatrix
<1>1. IInv => WorkBelongsToMatrix
  BY DEF IInv
<1> QED
  BY RowsAreConsistent, <1>1, PTL

\* However edits interleave, a stored audit has queries, targets and facts
\* (update_audit_record inserts what it replaces in the same commit).
THEOREM MatrixIsNeverLost == Spec => []MatrixIsNeverEmpty
<1>1. IInv => MatrixIsNeverEmpty
  BY DEF IInv
<1> QED
  BY RowsAreConsistent, <1>1, PTL

\* A deleted audit leaves no row behind and none comes back, whatever was at work
\* when it was deleted (delete_archived_audit_record and the foreign keys).
THEOREM DeletionStaysFinal == Spec => []DeletionIsFinal
<1>1. IInv => DeletionIsFinal
  BY DEF IInv, DeletedIsAbsent, AbsentLeavesNothing, DeletionIsFinal
<1> QED
  BY RowsAreConsistent, <1>1, PTL

-----------------------------------------------------------------------------
(* Row locks.                                                              *)

EditStage ==
    {"edit", "queries_read", "queries_deleted", "targets_read", "targets_deleted"}

\* only edits change columns of the audit
OnlyEditsLockAudit == \A r \in Slots : req[r].locks_audit => req[r].stage \in EditStage

LEMMA OnlyEditsStep == TypeOK /\ OnlyEditsLockAudit /\ [Next]_vars => OnlyEditsLockAudit'
<1> SUFFICES ASSUME TypeOK, OnlyEditsLockAudit, [Next]_vars, NEW s \in Slots
             PROVE  (req[s].locks_audit => req[s].stage \in EditStage)'
  BY DEF OnlyEditsLockAudit
<1>1. ASSUME req'[s] = req[s] PROVE (req[s].locks_audit => req[s].stage \in EditStage)'
  BY <1>1 DEF OnlyEditsLockAudit
<1>2. ASSUME NEW r \in Slots, BeginRequest(r) \/ FinishRequest(r)
      PROVE  (req[s].locks_audit => req[s].stage \in EditStage)'
  <2>1. req \in [Slots -> Request] /\ req[r] \in Request
    BY DEF TypeOK
  <2>2. \A request : req' = [req EXCEPT ![r] = request] =>
          /\ req'[r] = request
          /\ s # r => req'[s] = req[s]
    BY <2>1
  <2>3. CASE BeginEdit(r)
    BY <1>1, <2>2, <2>3 DEF BeginEdit, Idle, EditStage
  <2>4. CASE BeginDuplicate(r) \/ BeginDelete(r)
    BY <1>1, <2>2, <2>4 DEF BeginDuplicate, BeginDelete, Idle
  <2>5. CASE ReadDoomedQueries(r) \/ DeleteQueries(r) \/ ReadDoomedTargets(r) \/ DeleteTargets(r)
    BY <1>1, <2>1, <2>5
       DEF ReadDoomedQueries, DeleteQueries, ReadDoomedTargets, DeleteTargets, EditStage, Request
  <2>6. CASE \/ CommitEdit(r) \/ RefuseEdit(r) \/ CommitDuplicate(r) \/ CommitDelete(r)
             \/ DeleteNothing(r)
    BY <1>1, <2>2, <2>6
       DEF CommitEdit, RefuseEdit, CommitDuplicate, CommitDelete, DeleteNothing, Idle
  <2> QED
    BY <1>2, <2>3, <2>4, <2>5, <2>6 DEF BeginRequest, FinishRequest
<1>3. CASE UNCHANGED req
  BY <1>1, <1>3
<1>4. CASE CreateAudit \/ ArchiveAudit \/ RestoreAudit \/ Enqueue \/ PipelineStep
  BY <1>3, <1>4 DEF CreateAudit, ArchiveAudit, RestoreAudit, Enqueue, PipelineStep, FindNothing,
     ReadQueries, ReadTargets, CommitSchedule, FailSchedule, ExecuteJob, LoseJob, FinishPipeline
<1>5. CASE UNCHANGED vars
  BY <1>3, <1>5 DEF vars
<1> QED
  BY <1>2, <1>4, <1>5 DEF Next

\* Of the edits past their first statement, the one that is furthest waits for no
\* one; where there are none, the pipeline holds the only lock.
LEMMA FurthestGoesOn ==
  ASSUME TypeOK, OnlyEditsLockAudit
  PROVE  SomeoneCanGoOn
<1> DEFINE At(stages) == {r \in Slots : req[r].stage \in stages}
           AtWork == pc \notin {"none", "done"}
<1>0. \A r \in Slots : req[r].stage \in RequestStage
  BY DEF TypeOK, Request
<1>1. CASE At({"queries_deleted", "targets_deleted", "duplicate"}) # {}
  <2>1. PICK r \in Slots : req[r].stage \in {"queries_deleted", "targets_deleted", "duplicate"}
    BY <1>1
  <2>2. req[r].stage # "idle" /\ ~ RequestWaits(r)
    BY <2>1 DEF RequestWaits
  <2> QED
    BY <2>2 DEF SomeoneCanGoOn
<1>2. CASE At({"queries_deleted", "targets_deleted", "duplicate"}) = {}
           /\ At({"targets_read"}) # {}
  <2>1. PICK r \in Slots : req[r].stage = "targets_read"
    BY <1>2
  <2>2. TargetsLockedFor(r) = {}
    BY <1>2 DEF TargetsLockedFor, Writers
  <2>3. req[r].stage # "idle" /\ ~ RequestWaits(r)
    BY <2>1, <2>2 DEF RequestWaits
  <2> QED
    BY <2>3 DEF SomeoneCanGoOn
<1>3. CASE At({"queries_deleted", "targets_deleted", "duplicate", "targets_read"}) = {}
           /\ At({"queries_read"}) # {}
  <2>1. PICK r \in Slots : req[r].stage = "queries_read"
    BY <1>3
  <2>2. QueriesLockedFor(r) = {}
    BY <1>3 DEF QueriesLockedFor, Writers
  <2>3. req[r].stage # "idle" /\ ~ RequestWaits(r)
    BY <2>1, <2>2 DEF RequestWaits
  <2> QED
    BY <2>3 DEF SomeoneCanGoOn
<1>4. CASE \A r \in Slots : req[r].stage \in {"idle", "edit", "delete"}
  <2>1. CASE AtWork
    <3>1. \A pairs : RowsAreUnlocked(pairs)
      BY <1>4 DEF RowsAreUnlocked
    <3>2. \A r \in Slots : req[r].locks_audit => req[r].stage \in {"idle", "edit"}
      BY <1>4 DEF OnlyEditsLockAudit, EditStage
    <3>3. ~ PipelineWaits
      BY <3>1, <3>2 DEF PipelineWaits
    <3> QED
      BY <2>1, <3>3 DEF SomeoneCanGoOn
  <2>2. CASE ~ AtWork
    <3> SUFFICES ASSUME NEW r \in Slots, req[r].stage # "idle"
                 PROVE  SomeoneCanGoOn
      BY <2>2 DEF SomeoneCanGoOn
    <3>1. Writers(r) = {}
      BY <1>4 DEF Writers
    <3>2. ~ AuditLockedFor(r) /\ QueriesLockedFor(r) = {}
      BY <2>2, <3>1 DEF AuditLockedFor, QueriesLockedFor
    <3>3. ~ RequestWaits(r)
      BY <1>4, <3>2 DEF RequestWaits
    <3> QED
      BY <3>3 DEF SomeoneCanGoOn
  <2> QED
    BY <2>1, <2>2
<1> QED
  BY <1>0, <1>1, <1>2, <1>3, <1>4 DEF RequestStage

\* Whatever edits, deletes, duplicates and the pipeline hold and wait for, one of
\* those at work goes on: queries before targets is the order of all handlers.
THEOREM EditsNeverDeadlock == Spec => []SomeoneCanGoOn
<1>1. Init => OnlyEditsLockAudit
  BY DEF Init, OnlyEditsLockAudit, Idle
<1>2. IInv /\ OnlyEditsLockAudit /\ [Next]_vars => OnlyEditsLockAudit'
  BY OnlyEditsStep DEF IInv
<1>3. IInv /\ OnlyEditsLockAudit => SomeoneCanGoOn
  BY FurthestGoesOn DEF IInv
<1> QED
  BY <1>1, <1>2, <1>3, RowsAreConsistent, PTL DEF Spec
=============================================================================
