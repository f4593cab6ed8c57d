----------------------- MODULE AuditAnalyticsProofs ------------------------
(***************************************************************************)
(* Theorems about AuditAnalytics, for any queries, targets and levels, any *)
(* number of runs and of concurrent re-evaluations and cancel requests.    *)
(***************************************************************************)
EXTENDS AuditAnalytics, FiniteSetTheorems, SequenceTheorems, WellFoundedInduction, TLAPS

\* Every job still makes one run at most, and there is room for it.
RunsFit == IsFiniteSet(jobs) /\ Len(runs) + Cardinality(jobs) <= MaxRuns

SnapshotForm ==
    \/ snapshots = << >>
    \/ \E snapshot : snapshots = <<snapshot>>

UsableIn(n) == {i \in 1..n : HasUsableAnswer(i)}

\* A re-evaluation holds each usable answer it has read: still to do, at hand, or locked.
RerunHoldsItsRuns(s) ==
    \/ rerun[s] = Idle
    \/ /\ rerun[s].stage # "idle"
       /\ rerun[s].seen <= Len(runs)
       /\ rerun[s].todo \cup rerun[s].locked \subseteq UsableIn(rerun[s].seen)
       /\ rerun[s].stage = "next" =>
            UsableIn(rerun[s].seen) = rerun[s].todo \cup rerun[s].locked
       /\ rerun[s].stage = "flush" =>
            /\ rerun[s].at \in UsableIn(rerun[s].seen)
            /\ UsableIn(rerun[s].seen) = rerun[s].todo \cup rerun[s].locked \cup {rerun[s].at}

\* The first run of a query at a target is the only one with number 1: a retry
\* numbers its jobs after the runs there are.
FirstRunIsUnique ==
    /\ \A i, k \in Ids :
         /\ runs[i].job.number = 1 /\ runs[k].job.number = 1
         /\ runs[i].job.query = runs[k].job.query /\ runs[i].job.target = runs[k].job.target
         => i = k
    /\ \A j \in jobs : j.number = 1 => RunsOfCell(j.query, j.target) = {}
    /\ \A j, k \in jobs : j.query = k.query /\ j.target = k.target => j = k

IInv ==
    /\ TypeOK
    /\ RunsFit
    /\ SnapshotForm
    /\ \A s \in Slots : RerunHoldsItsRuns(s)
    /\ FirstRunIsUnique

-----------------------------------------------------------------------------
(* Facts about the rows.                                                   *)

LEMMA IdleType == Idle \in Rerun
BY AnalyticsAssumption DEF AnalyticsAssumption, Idle, Rerun

LEMMA IdsType ==
  ASSUME TypeOK
  PROVE  /\ Len(runs) \in Nat
         /\ DOMAIN runs = Ids
         /\ \A i \in Ids : runs[i] \in Run
BY LenProperties, ElementOfSeq DEF TypeOK, Ids

LEMMA IdsAreFinite ==
  ASSUME TypeOK, NEW S \in SUBSET Ids
  PROVE  IsFiniteSet(S)
<1>1. IsFiniteSet(Ids)
  BY IdsType, FS_Interval DEF Ids
<1> QED
  BY <1>1, FS_Subset

\* Rows are added at the end; what was asked and answered never changes.
RowsGrow ==
    /\ runs' \in Seq(Run)
    /\ Len(runs') \in Nat /\ Len(runs) <= Len(runs')
    /\ \A i \in Ids : /\ runs'[i].job = runs[i].job
                      /\ runs'[i].status = runs[i].status
                      /\ runs'[i].says = runs[i].says

NewRun(j) ==
    [job: {j}, status: {"success"}, says: Verdicts, parsed: {"no"}]
      \cup [job: {j}, status: {"failed"}, says: {"nothing"}, parsed: {"no"}]

LEMMA ExecuteJobAppends ==
  ASSUME TypeOK, NEW j \in Job, ExecuteJob(j)
  PROVE  /\ RowsGrow
         /\ Len(runs') = Len(runs) + 1
         /\ \A i \in Ids : runs'[i] = runs[i]
         /\ runs'[Len(runs')].job = j
<1>1. PICK run \in NewRun(j) : runs' = Append(runs, run)
  BY DEF ExecuteJob, NewRun
<1>2. run \in Run /\ run.job = j
  BY <1>1 DEF NewRun, Run
<1>3. runs \in Seq(Run)
  BY DEF TypeOK
<1>4. /\ runs' \in Seq(Run)
      /\ Len(runs') = Len(runs) + 1
      /\ \A i \in 1 .. Len(runs) : runs'[i] = runs[i]
      /\ runs'[Len(runs) + 1] = run
  BY <1>1, <1>2, <1>3, AppendProperties
<1> QED
  BY <1>2, <1>4, IdsType DEF RowsGrow, Ids

LEMMA PostProcessKeepsRows ==
  ASSUME TypeOK, PostProcess
  PROVE  RowsGrow /\ Len(runs') = Len(runs)
<1>1. PICK processed \in SUBSET Unprocessed, mentions \in SUBSET Unprocessed :
        runs' = [i \in Ids |->
                   IF i \notin processed THEN runs[i]
                   ELSE [runs[i] EXCEPT !.parsed = IF i \in mentions THEN "found" ELSE "absent"]]
  BY DEF PostProcess
<1>2. \A i \in Ids : /\ runs'[i] \in Run
                     /\ runs'[i].job = runs[i].job
                     /\ runs'[i].status = runs[i].status
                     /\ runs'[i].says = runs[i].says
  <2> SUFFICES ASSUME NEW i \in Ids
               PROVE  /\ runs'[i] \in Run
                      /\ runs'[i].job = runs[i].job
                      /\ runs'[i].status = runs[i].status
                      /\ runs'[i].says = runs[i].says
    OBVIOUS
  <2>1. runs[i] \in Run
    BY IdsType
  <2>2. \/ runs'[i] = runs[i]
        \/ runs'[i] = [runs[i] EXCEPT !.parsed = "found"]
        \/ runs'[i] = [runs[i] EXCEPT !.parsed = "absent"]
    BY <1>1
  <2> QED
    BY <2>1, <2>2 DEF Run
<1>3. runs' \in [1 .. Len(runs) -> Run] /\ Len(runs) \in Nat
  BY <1>1, <1>2, IdsType DEF Ids
<1>4. runs' \in Seq(Run) /\ Len(runs') = Len(runs)
  BY <1>3
<1> QED
  BY <1>2, <1>3, <1>4 DEF RowsGrow

LEMMA RowsOnlyGrow ==
  ASSUME TypeOK, [Next]_vars
  PROVE  RowsGrow
<1>1. ASSUME runs' = runs PROVE RowsGrow
  BY <1>1, IdsType DEF TypeOK, RowsGrow
<1>2. ASSUME NEW s \in Slots, ReadRuns(s) \/ RerunStep(s) PROVE RowsGrow
  BY <1>1, <1>2 DEF ReadRuns, RerunStep, Evaluate, Flush, RefuseRerun, CommitRerun
<1>3. ASSUME NEW c \in Snapshotters, FindNoSnapshot(c) \/ SnapshotStep(c) PROVE RowsGrow
  BY <1>1, <1>3 DEF FindNoSnapshot, SnapshotStep, StoreSnapshot, RefuseSnapshot
<1>4. CASE PipelineStep
  BY <1>1, <1>4, ExecuteJobAppends, PostProcessKeepsRows DEF PipelineStep, CancelJobs, Retry
<1>5. CASE UNCHANGED vars
  BY <1>1, <1>5 DEF vars
<1> QED
  BY <1>2, <1>3, <1>4, <1>5 DEF Next

-----------------------------------------------------------------------------
(* Initial states.                                                         *)

LEMMA MatrixFits ==
  LET first == [query: Queries, target: Targets, number: {1}]
  IN  IsFiniteSet(first) /\ Cardinality(first) <= MaxRuns
<1> DEFINE first == [query: Queries, target: Targets, number: {1}]
           JobOf == [cell \in Queries \X Targets |->
                       [query |-> cell[1], target |-> cell[2], number |-> 1]]
<1>1. IsFiniteSet(Queries \X Targets) /\ Cardinality(Queries \X Targets) <= MaxRuns
  BY FS_Product, AnalyticsAssumption DEF AnalyticsAssumption
<1>2. JobOf \in Surjection(Queries \X Targets, first)
  <2>1. JobOf \in [Queries \X Targets -> first]
    OBVIOUS
  <2>2. ASSUME NEW j \in first PROVE \E cell \in Queries \X Targets : JobOf[cell] = j
    <3>1. <<j.query, j.target>> \in Queries \X Targets
      OBVIOUS
    <3>2. JobOf[<<j.query, j.target>>] = j
      BY <3>1
    <3> QED
      BY <3>1, <3>2
  <2> QED
    BY <2>1, <2>2 DEF Surjection
<1>3. IsFiniteSet(first) /\ Cardinality(first) <= Cardinality(Queries \X Targets)
  BY <1>1, <1>2, FS_Surjection
<1>4. Cardinality(first) \in Nat /\ Cardinality(Queries \X Targets) \in Nat
  BY <1>1, <1>3, FS_CardinalityType
<1> QED
  BY <1>1, <1>3, <1>4, AnalyticsAssumption DEF AnalyticsAssumption

LEMMA InitIsConsistent == Init => IInv
<1> SUFFICES ASSUME Init PROVE IInv
  OBVIOUS
<1>1. Len(runs) = 0 /\ runs \in Seq(Run)
  BY DEF Init
<1>2. Ids = {}
  BY <1>1 DEF Ids
<1>3. jobs \subseteq Job
  BY AnalyticsAssumption DEF Init, Job, AnalyticsAssumption
<1>4. TypeOK
  BY <1>1, <1>2, <1>3, IdleType DEF Init, TypeOK
<1>5. RunsFit
  <2>1. IsFiniteSet(jobs) /\ Cardinality(jobs) <= MaxRuns
    BY MatrixFits DEF Init
  <2>2. Cardinality(jobs) \in Nat
    BY <2>1, FS_CardinalityType
  <2> QED
    BY <1>1, <2>1, <2>2 DEF RunsFit
<1>6. SnapshotForm /\ \A s \in Slots : RerunHoldsItsRuns(s)
  BY DEF Init, SnapshotForm, RerunHoldsItsRuns
<1>7. FirstRunIsUnique
  <2>1. \A j, k \in jobs : j.query = k.query /\ j.target = k.target => j = k
    BY DEF Init
  <2> QED
    BY <1>2, <2>1 DEF FirstRunIsUnique, RunsOfCell
<1> QED
  BY <1>4, <1>5, <1>6, <1>7 DEF IInv

-----------------------------------------------------------------------------
(* Runs and jobs: their bound and their numbers.                           *)

LEMMA RunsFitIsInductive ==
  ASSUME IInv, [Next]_vars
  PROVE  RunsFit'
<1> USE DEF IInv
<1>0. IsFiniteSet(jobs) /\ Cardinality(jobs) \in Nat /\ Len(runs) \in Nat /\ MaxRuns \in Nat
  BY FS_CardinalityType, IdsType, AnalyticsAssumption DEF RunsFit, AnalyticsAssumption
<1>1. ASSUME UNCHANGED <<jobs, runs>> PROVE RunsFit'
  BY <1>1 DEF RunsFit
<1>2. ASSUME NEW j \in Job, ExecuteJob(j) PROVE RunsFit'
  <2>1. Len(runs') = Len(runs) + 1 /\ j \in jobs /\ jobs' = jobs \ {j}
    BY <1>2, ExecuteJobAppends DEF ExecuteJob
  <2>2. IsFiniteSet(jobs') /\ Cardinality(jobs') = Cardinality(jobs) - 1
    BY <1>0, <2>1, FS_RemoveElement
  <2> QED
    BY <1>0, <2>1, <2>2 DEF RunsFit
<1>3. CASE CancelJobs
  BY <1>0, <1>3, FS_EmptySet DEF CancelJobs, RunsFit
<1>4. CASE PostProcess
  BY <1>4, PostProcessKeepsRows DEF PostProcess, RunsFit
<1>5. CASE Retry
  <2>1. jobs' = RetryJobs /\ runs' = runs /\ Len(runs) + Cardinality(RetryJobs) <= MaxRuns
    BY <1>5 DEF Retry
  <2>2. IsFiniteSet(RetryJobs)
    <3>1. IsFiniteSet(Queries \X Targets)
      BY FS_Product, AnalyticsAssumption DEF AnalyticsAssumption
    <3>2. IsFiniteSet(1 .. MaxRuns)
      BY <1>0, FS_Interval
    <3>3. IsFiniteSet((Queries \X Targets) \X (1 .. MaxRuns))
      BY <3>1, <3>2, FS_Product
    <3> DEFINE JobOf == [c \in (Queries \X Targets) \X (1 .. MaxRuns) |->
                           [query |-> c[1][1], target |-> c[1][2], number |-> c[2]]]
    <3>4. JobOf \in [(Queries \X Targets) \X (1 .. MaxRuns) -> Job]
      BY DEF Job
    <3>5. ASSUME NEW j \in Job
          PROVE  \E c \in (Queries \X Targets) \X (1 .. MaxRuns) : JobOf[c] = j
      <4>1. <<<<j.query, j.target>>, j.number>> \in (Queries \X Targets) \X (1 .. MaxRuns)
        BY DEF Job
      <4>2. JobOf[<<<<j.query, j.target>>, j.number>>] = j
        BY <4>1 DEF Job
      <4> QED
        BY <4>1, <4>2
    <3>6. JobOf \in Surjection((Queries \X Targets) \X (1 .. MaxRuns), Job)
      BY <3>4, <3>5 DEF Surjection
    <3>7. IsFiniteSet(Job)
      BY <3>3, <3>6, FS_Surjection
    <3>8. RetryJobs \in SUBSET Job
      BY DEF RetryJobs
    <3> QED
      BY <3>7, <3>8, FS_Subset
  <2> QED
    BY <2>1, <2>2 DEF RunsFit
<1>6. ASSUME NEW s \in Slots, ReadRuns(s) \/ RerunStep(s) PROVE RunsFit'
  BY <1>1, <1>6 DEF ReadRuns, RerunStep, Evaluate, Flush, RefuseRerun, CommitRerun
<1>7. ASSUME NEW c \in Snapshotters, FindNoSnapshot(c) \/ SnapshotStep(c) PROVE RunsFit'
  BY <1>1, <1>7 DEF FindNoSnapshot, SnapshotStep, StoreSnapshot, RefuseSnapshot
<1> QED
  BY <1>1, <1>2, <1>3, <1>4, <1>5, <1>6, <1>7 DEF Next, PipelineStep, vars

LEMMA FirstRunStaysUnique ==
  ASSUME IInv, [Next]_vars
  PROVE  FirstRunIsUnique'
<1> USE DEF IInv
<1>1. ASSUME UNCHANGED <<jobs, runs>> PROVE FirstRunIsUnique'
  BY <1>1 DEF FirstRunIsUnique, RunsOfCell, Ids
<1>2. ASSUME NEW j \in Job, ExecuteJob(j) PROVE FirstRunIsUnique'
  <2>1. /\ Len(runs') = Len(runs) + 1
        /\ \A i \in Ids : runs'[i] = runs[i]
        /\ runs'[Len(runs')].job = j
        /\ j \in jobs /\ jobs' = jobs \ {j}
    BY <1>2, ExecuteJobAppends DEF ExecuteJob
  <2>2. Ids' = Ids \cup {Len(runs')}
    BY <2>1, IdsType DEF Ids
  <2>3. ASSUME j.number = 1 PROVE \A i \in Ids : ~ (runs[i].job.query = j.query
                                                     /\ runs[i].job.target = j.target)
    BY <2>1, <2>3 DEF FirstRunIsUnique, RunsOfCell
  <2>4. ASSUME NEW i \in Ids', NEW k \in Ids',
               runs'[i].job.number = 1, runs'[k].job.number = 1,
               runs'[i].job.query = runs'[k].job.query,
               runs'[i].job.target = runs'[k].job.target
        PROVE  i = k
    <3>1. CASE i \in Ids /\ k \in Ids
      BY <2>1, <2>4, <3>1 DEF FirstRunIsUnique
    <3>2. CASE i = Len(runs') /\ k = Len(runs')
      BY <3>2
    <3>3. CASE i \in Ids /\ k = Len(runs')
      BY <2>1, <2>3, <2>4, <3>3
    <3>4. CASE i = Len(runs') /\ k \in Ids
      BY <2>1, <2>3, <2>4, <3>4
    <3> QED
      BY <2>2, <3>1, <3>2, <3>3, <3>4
  <2>5. ASSUME NEW other \in jobs', other.number = 1
        PROVE  RunsOfCell(other.query, other.target)' = {}
    <3>1. other \in jobs /\ other # j
      BY <2>1
    <3>3. ~ (j.query = other.query /\ j.target = other.target)
      BY <2>1, <3>1 DEF FirstRunIsUnique
    <3>4. RunsOfCell(other.query, other.target) = {}
      BY <2>5, <3>1 DEF FirstRunIsUnique
    <3>5. \A i \in Ids' : ~ (runs'[i].job.query = other.query /\ runs'[i].job.target = other.target)
      <4> TAKE i \in Ids'
      <4>1. CASE i \in Ids
        BY <2>1, <3>4, <4>1 DEF RunsOfCell
      <4>2. CASE i = Len(runs')
        BY <2>1, <3>3, <4>2
      <4> QED
        BY <2>2, <4>1, <4>2
    <3> QED
      BY <3>5 DEF RunsOfCell
  <2>6. \A one, another \in jobs' :
          one.query = another.query /\ one.target = another.target => one = another
    BY <2>1 DEF FirstRunIsUnique
  <2> QED
    BY <2>4, <2>5, <2>6 DEF FirstRunIsUnique
<1>3. CASE CancelJobs
  BY <1>3 DEF CancelJobs, FirstRunIsUnique, RunsOfCell, Ids
<1>4. CASE PostProcess
  <2>1. Ids' = Ids /\ jobs' = {} /\ \A i \in Ids : runs'[i].job = runs[i].job
    BY <1>4, PostProcessKeepsRows DEF PostProcess, Ids, RowsGrow
  <2> QED
    BY <2>1 DEF FirstRunIsUnique
<1>5. CASE Retry
  <2>1. jobs' = RetryJobs /\ runs' = runs /\ Ids' = Ids
    BY <1>5 DEF Retry, Ids
  <2>2. ASSUME NEW j \in RetryJobs PROVE j.number # 1
    <3> DEFINE same == {i \in Ids : runs[i].job.query = j.query /\ runs[i].job.target = j.target}
    <3>1. same # {} /\ j.number = 1 + Cardinality(same)
      BY <2>2 DEF RetryJobs, Failed
    <3>2. IsFiniteSet(same)
      BY IdsAreFinite
    <3>3. Cardinality(same) \in Nat /\ Cardinality(same) # 0
      BY <3>1, <3>2, FS_CardinalityType, FS_EmptySet
    <3> QED
      BY <3>1, <3>3
  <2>3. \A j, k \in RetryJobs : j.query = k.query /\ j.target = k.target => j = k
    <3> TAKE j, k \in RetryJobs
    <3> HAVE j.query = k.query /\ j.target = k.target
    <3>1. \A one \in RetryJobs : one.number = 1 + Cardinality(RunsOfCell(one.query, one.target))
      BY DEF RetryJobs, RunsOfCell
    <3>2. j.number = k.number
      BY <3>1
    <3>3. j \in Job /\ k \in Job
      BY DEF RetryJobs
    <3> QED
      BY <3>2, <3>3 DEF Job
  <2> QED
    BY <2>1, <2>2, <2>3 DEF FirstRunIsUnique
<1>6. ASSUME NEW s \in Slots, ReadRuns(s) \/ RerunStep(s) PROVE FirstRunIsUnique'
  BY <1>1, <1>6 DEF ReadRuns, RerunStep, Evaluate, Flush, RefuseRerun, CommitRerun
<1>7. ASSUME NEW c \in Snapshotters, FindNoSnapshot(c) \/ SnapshotStep(c) PROVE FirstRunIsUnique'
  BY <1>1, <1>7 DEF FindNoSnapshot, SnapshotStep, StoreSnapshot, RefuseSnapshot
<1> QED
  BY <1>1, <1>2, <1>3, <1>4, <1>5, <1>6, <1>7 DEF Next, PipelineStep, vars

-----------------------------------------------------------------------------
(* Evaluations, snapshots and the requests in progress.                    *)

LEMMA UsableStaysUsable ==
  ASSUME TypeOK, RowsGrow, NEW n \in Nat, n <= Len(runs)
  PROVE  UsableIn(n)' = UsableIn(n)
<1>1. \A i \in 1 .. n : i \in Ids
  BY IdsType DEF Ids
<1>2. \A i \in 1 .. n : HasUsableAnswer(i)' <=> HasUsableAnswer(i)
  BY <1>1 DEF RowsGrow, HasUsableAnswer
<1> QED
  BY <1>2 DEF UsableIn

\* What a request in progress holds are rows of the audit with a verdict.
LEMMA HeldRunsAreUsable ==
  ASSUME TypeOK, NEW s \in Slots, RerunHoldsItsRuns(s), rerun[s].stage # "idle"
  PROVE  /\ \A i \in rerun[s].todo \cup rerun[s].locked : i \in Ids /\ Verdict(i) \in Verdicts
         /\ rerun[s].seen \in Nat /\ rerun[s].seen <= Len(runs)
<1>1. rerun[s] # Idle /\ rerun[s] \in Rerun
  BY DEF Idle, TypeOK
<1>2. rerun[s].seen \in Nat /\ rerun[s].seen <= Len(runs)
  BY <1>1, AnalyticsAssumption DEF RerunHoldsItsRuns, Rerun, AnalyticsAssumption
<1>3. \A i \in UsableIn(rerun[s].seen) : i \in Ids /\ HasUsableAnswer(i)
  BY <1>2, IdsType DEF UsableIn, Ids
<1>4. \A i \in Ids : HasUsableAnswer(i) => Verdict(i) \in Verdicts
  BY IdsType DEF HasUsableAnswer, Verdict, Run
<1> QED
  BY <1>1, <1>2, <1>3, <1>4 DEF RerunHoldsItsRuns

LEMMA RerunType ==
  ASSUME IInv, NEW s \in Slots, ReadRuns(s) \/ RerunStep(s)
  PROVE  TypeOK' /\ RerunHoldsItsRuns(s)'
<1> USE DEF IInv
<1>0. /\ rerun[s] \in Rerun
      /\ rerun \in [Slots -> Rerun]
      /\ \A r \in Rerun : [rerun EXCEPT ![s] = r] \in [Slots -> Rerun]
  BY DEF TypeOK
<1>1. ASSUME UNCHANGED <<stage, jobs, runs, evals, snapshots, found>>,
             NEW r \in Rerun, rerun' = [rerun EXCEPT ![s] = r]
      PROVE  TypeOK'
  BY <1>1, <1>0 DEF TypeOK, Ids
<1>2. CASE ReadRuns(s)
  <2> DEFINE r == [Idle EXCEPT !.stage = "next", !.seen = Len(runs),
                               !.todo = UsableIn(Len(runs))]
  <2>1. Len(runs) \in Nat /\ Len(runs) <= MaxRuns
    <3>1. Cardinality(jobs) \in Nat
      BY FS_CardinalityType DEF RunsFit
    <3> QED
      BY <3>1, IdsType, AnalyticsAssumption DEF RunsFit, AnalyticsAssumption
  <2>2. {i \in Ids : HasUsableAnswer(i)} = UsableIn(Len(runs))
    BY DEF Ids, UsableIn
  <2>3. UsableIn(Len(runs)) \in SUBSET (1 .. MaxRuns)
    BY <2>1, AnalyticsAssumption DEF UsableIn, AnalyticsAssumption
  <2>4. r \in Rerun
    <3>1. Len(runs) \in 0 .. MaxRuns
      BY <2>1, AnalyticsAssumption DEF AnalyticsAssumption
    <3> QED
      BY <2>3, <3>1, IdleType DEF Rerun
  <2>5. rerun' = [rerun EXCEPT ![s] = r] /\ UNCHANGED <<stage, jobs, runs, evals, snapshots, found>>
    BY <1>2, <2>2 DEF ReadRuns
  <2>6. rerun'[s] = r
    BY <1>0, <2>5
  <2>7. UsableIn(Len(runs))' = UsableIn(Len(runs))
    BY <2>5 DEF UsableIn, HasUsableAnswer
  <2>8. RerunHoldsItsRuns(s)'
    <3>1. /\ r.stage = "next" /\ r.seen = Len(runs) /\ r.todo = UsableIn(Len(runs))
          /\ r.locked = {}
      BY DEF Idle
    <3>2. UsableIn(rerun[s].seen)' = UsableIn(Len(runs))
      BY <2>5, <2>6, <3>1 DEF UsableIn, HasUsableAnswer
    <3> HIDE DEF r
    <3>3. /\ r.stage # "idle" /\ r.seen <= Len(runs)'
          /\ r.todo \cup r.locked = UsableIn(Len(runs))
      BY <2>1, <2>5, <3>1
    <3> QED
      BY <2>6, <3>1, <3>2, <3>3 DEF RerunHoldsItsRuns
  <2> QED
    BY <1>1, <2>4, <2>5, <2>8
<1>3. ASSUME rerun[s].stage # "idle"
      PROVE  RerunHoldsItsRuns(s) /\ rerun[s] # Idle
  BY <1>3 DEF Idle
<1>4. ASSUME rerun'[s].seen = rerun[s].seen, runs' = runs
      PROVE  UsableIn(rerun[s].seen)' = UsableIn(rerun[s].seen)
  BY <1>4 DEF UsableIn, HasUsableAnswer
<1>5. CASE Evaluate(s)
  <2>1. PICK i \in rerun[s].todo :
          rerun' = [rerun EXCEPT ![s].stage = "flush", ![s].todo = @ \ {i}, ![s].at = i,
                                 ![s].inserts = i \notin DOMAIN evals]
    BY <1>5 DEF Evaluate
  <2>2. PICK b \in BOOLEAN : b = (i \notin DOMAIN evals)
    OBVIOUS
  <2> DEFINE r == [rerun[s] EXCEPT !.stage = "flush", !.todo = rerun[s].todo \ {i}, !.at = i,
                                   !.inserts = b]
  <2>3. rerun' = [rerun EXCEPT ![s] = r] /\ UNCHANGED <<stage, jobs, runs, evals, snapshots, found>>
    BY <1>0, <1>5, <2>1, <2>2 DEF Evaluate
  <2>4. i \in 1 .. MaxRuns /\ MaxRuns \in Nat
    BY <1>0, AnalyticsAssumption DEF Rerun, AnalyticsAssumption
  <2>5. r \in Rerun
    <3>1. rerun[s].todo \ {i} \in SUBSET (1 .. MaxRuns) /\ i \in 0 .. MaxRuns
      BY <1>0, <2>4 DEF Rerun
    <3> QED
      BY <1>0, <2>2, <3>1 DEF Rerun
  <2>6. rerun'[s] = r
    BY <1>0, <2>3
  <2>7. /\ r.stage = "flush" /\ r.seen = rerun[s].seen /\ r.todo = rerun[s].todo \ {i}
        /\ r.at = i /\ r.locked = rerun[s].locked
    BY <1>0 DEF Rerun
  <2>8. RerunHoldsItsRuns(s)'
    <3>1. RerunHoldsItsRuns(s) /\ rerun[s] # Idle /\ rerun[s].stage = "next"
      BY <1>3, <1>5 DEF Evaluate
    <3>2. UsableIn(rerun[s].seen)' = UsableIn(rerun[s].seen)
      BY <1>4, <2>3, <2>6, <2>7
    <3>3. UsableIn(rerun[s].seen) = rerun[s].todo \cup rerun[s].locked
          /\ rerun[s].seen <= Len(runs)
      BY <3>1 DEF RerunHoldsItsRuns
    <3>4. UsableIn(rerun[s].seen) = r.todo \cup r.locked \cup {i}
      BY <2>7, <3>3
    <3> HIDE DEF r
    <3> QED
      BY <2>3, <2>6, <2>7, <3>2, <3>3, <3>4 DEF RerunHoldsItsRuns
  <2> QED
    BY <1>1, <2>3, <2>5, <2>8
<1>6. CASE Flush(s)
  <2> DEFINE r == [rerun[s] EXCEPT !.stage = "next", !.locked = rerun[s].locked \cup {rerun[s].at}]
  <2>1. rerun' = [rerun EXCEPT ![s] = r] /\ UNCHANGED <<stage, jobs, runs, evals, snapshots, found>>
    BY <1>0, <1>6 DEF Flush
  <2>2. RerunHoldsItsRuns(s) /\ rerun[s] # Idle /\ rerun[s].stage = "flush"
    BY <1>3, <1>6 DEF Flush
  <2>3. rerun[s].at \in UsableIn(rerun[s].seen) /\ rerun[s].seen \in 0 .. MaxRuns /\ MaxRuns \in Nat
    BY <1>0, <2>2, AnalyticsAssumption DEF RerunHoldsItsRuns, Rerun, AnalyticsAssumption
  <2>4. rerun[s].at \in 1 .. MaxRuns
    BY <2>3 DEF UsableIn
  <2>5. r \in Rerun
    BY <1>0, <2>4 DEF Rerun
  <2>6. rerun'[s] = r
    BY <1>0, <2>1
  <2>7. /\ r.stage = "next" /\ r.seen = rerun[s].seen /\ r.todo = rerun[s].todo
        /\ r.locked = rerun[s].locked \cup {rerun[s].at}
    BY <1>0 DEF Rerun
  <2>8. RerunHoldsItsRuns(s)'
    <3>1. UsableIn(rerun[s].seen)' = UsableIn(rerun[s].seen)
      BY <1>4, <2>1, <2>6, <2>7
    <3>2. UsableIn(rerun[s].seen) = r.todo \cup r.locked /\ rerun[s].seen <= Len(runs)
      BY <2>2, <2>7 DEF RerunHoldsItsRuns
    <3> HIDE DEF r
    <3> QED
      BY <2>1, <2>6, <2>7, <3>1, <3>2 DEF RerunHoldsItsRuns
  <2> QED
    BY <1>1, <2>1, <2>5, <2>8
<1>7. CASE RefuseRerun(s)
  <2>1. rerun' = [rerun EXCEPT ![s] = Idle] /\ UNCHANGED <<stage, jobs, runs, evals, snapshots, found>>
    BY <1>7 DEF RefuseRerun
  <2> QED
    BY <1>0, <1>1, <2>1, IdleType DEF RerunHoldsItsRuns
<1>8. CASE CommitRerun(s)
  <2>1. rerun' = [rerun EXCEPT ![s] = Idle] /\ UNCHANGED <<stage, jobs, runs, snapshots, found>>
    BY <1>8 DEF CommitRerun
  <2>2. \A i \in rerun[s].locked : i \in Ids /\ Verdict(i) \in Verdicts
    BY <1>3, <1>8, HeldRunsAreUsable DEF CommitRerun
  <2>3. /\ DOMAIN evals' = DOMAIN evals \cup rerun[s].locked
        /\ \A i \in DOMAIN evals' : evals'[i] = IF i \in rerun[s].locked THEN Verdict(i) ELSE evals[i]
    BY <1>8 DEF CommitRerun
  <2>4. DOMAIN evals' \subseteq Ids /\ \A i \in DOMAIN evals' : evals'[i] \in Verdicts
    BY <2>2, <2>3 DEF TypeOK
  <2> QED
    BY <1>0, <2>1, <2>4, IdleType DEF TypeOK, Ids, RerunHoldsItsRuns
<1> QED
  BY <1>2, <1>5, <1>6, <1>7, <1>8 DEF RerunStep

LEMMA TypeIsInductive ==
  ASSUME IInv, [Next]_vars
  PROVE  TypeOK'
<1> USE DEF IInv
<1>0. Ids \subseteq Ids' /\ runs' \in Seq(Run)
  BY RowsOnlyGrow, IdsType DEF RowsGrow, Ids
<1>1. ASSUME NEW j \in Job, ExecuteJob(j) PROVE TypeOK'
  BY <1>0, <1>1 DEF ExecuteJob, TypeOK
<1>2. CASE CancelJobs
  BY <1>0, <1>2 DEF CancelJobs, TypeOK
<1>3. CASE PostProcess
  BY <1>0, <1>3 DEF PostProcess, TypeOK
<1>4. CASE Retry
  BY <1>0, <1>4 DEF Retry, TypeOK, RetryJobs
<1>5. ASSUME NEW s \in Slots, ReadRuns(s) \/ RerunStep(s) PROVE TypeOK'
  BY <1>5, RerunType
<1>6. ASSUME NEW c \in Snapshotters, StoreSnapshot(c) PROVE TypeOK'
  <2>1. snapshots = << >>
    <3>1. CASE \E snapshot : snapshots = <<snapshot>>
      <4>1. Len(snapshots) = 1
        BY <3>1
      <4> QED
        BY <1>6, <4>1 DEF StoreSnapshot, VersionTaken
    <3> QED
      BY <3>1 DEF SnapshotForm
  <2>2. snapshots' = <<[runs |-> runs, evals |-> evals]>>
    BY <1>6, <2>1 DEF StoreSnapshot
  <2>3. Len(snapshots') = 1 /\ snapshots'[1] = [runs |-> runs, evals |-> evals]
    BY <2>2
  <2> QED
    BY <1>6, <2>3 DEF StoreSnapshot, TypeOK, Ids
<1>7. ASSUME NEW c \in Snapshotters, FindNoSnapshot(c) \/ RefuseSnapshot(c) PROVE TypeOK'
  BY <1>7 DEF FindNoSnapshot, RefuseSnapshot, TypeOK, Ids
<1>8. CASE UNCHANGED vars
  BY <1>8 DEF vars, TypeOK, Ids
<1> QED
  BY <1>1, <1>2, <1>3, <1>4, <1>5, <1>6, <1>7, <1>8 DEF Next, PipelineStep, SnapshotStep

\* Neither another request nor new rows disturb a re-evaluation in progress.
LEMMA RerunUndisturbed ==
  ASSUME IInv, [Next]_vars, NEW s \in Slots, rerun'[s] = rerun[s]
  PROVE  RerunHoldsItsRuns(s)'
<1>1. CASE rerun[s] = Idle
  BY <1>1 DEF RerunHoldsItsRuns, Idle
<1>2. CASE rerun[s] # Idle
  <2>1. RowsGrow
    BY RowsOnlyGrow DEF IInv
  <2>2. RerunHoldsItsRuns(s) /\ rerun[s].stage # "idle"
    BY <1>2 DEF IInv, RerunHoldsItsRuns
  <2>3. rerun[s].seen \in Nat /\ rerun[s].seen <= Len(runs)
    BY <2>2, HeldRunsAreUsable DEF IInv
  <2>4. UsableIn(rerun[s].seen)' = UsableIn(rerun[s].seen)
    <3>1. \A i \in 1 .. rerun[s].seen : i \in Ids
      BY <2>3, IdsType DEF Ids, IInv
    <3>2. \A i \in 1 .. rerun[s].seen : HasUsableAnswer(i)' <=> HasUsableAnswer(i)
      BY <2>1, <3>1 DEF RowsGrow, HasUsableAnswer
    <3> QED
      BY <3>2 DEF UsableIn
  <2>5. rerun[s].seen <= Len(runs')
    BY <2>1, <2>3, IdsType DEF RowsGrow, IInv
  <2> QED
    BY <1>2, <2>2, <2>4, <2>5 DEF RerunHoldsItsRuns
<1> QED
  BY <1>1, <1>2

LEMMA RerunsAreInductive ==
  ASSUME IInv, [Next]_vars
  PROVE  \A s \in Slots : RerunHoldsItsRuns(s)'
<1> SUFFICES ASSUME NEW s \in Slots PROVE RerunHoldsItsRuns(s)'
  OBVIOUS
<1>1. CASE ReadRuns(s) \/ RerunStep(s)
  BY <1>1, RerunType
<1>2. CASE rerun'[s] = rerun[s]
  BY <1>2, RerunUndisturbed
<1>3. ASSUME NEW other \in Slots \ {s}, ReadRuns(other) \/ RerunStep(other)
      PROVE  rerun'[s] = rerun[s]
  BY <1>3 DEF ReadRuns, RerunStep, Evaluate, Flush, RefuseRerun, CommitRerun, IInv, TypeOK
<1>4. ASSUME PipelineStep \/ (\E c \in Snapshotters : FindNoSnapshot(c) \/ SnapshotStep(c))
      PROVE  rerun'[s] = rerun[s]
  BY <1>4 DEF PipelineStep, ExecuteJob, CancelJobs, PostProcess, Retry,
              FindNoSnapshot, SnapshotStep, StoreSnapshot, RefuseSnapshot
<1> QED
  BY <1>1, <1>2, <1>3, <1>4 DEF Next, vars

LEMMA SnapshotStaysSingle ==
  ASSUME IInv, [Next]_vars
  PROVE  SnapshotForm'
<1>1. ASSUME snapshots' = snapshots PROVE SnapshotForm'
  BY <1>1 DEF IInv, SnapshotForm
<1>2. ASSUME NEW c \in Snapshotters, StoreSnapshot(c) PROVE SnapshotForm'
  <2>1. snapshots = << >>
    <3>1. CASE \E snapshot : snapshots = <<snapshot>>
      <4>1. Len(snapshots) = 1
        BY <3>1
      <4> QED
        BY <1>2, <4>1 DEF StoreSnapshot, VersionTaken
    <3> QED
      BY <3>1 DEF IInv, SnapshotForm
  <2>2. snapshots' = <<[runs |-> runs, evals |-> evals]>>
    BY <1>2, <2>1 DEF StoreSnapshot
  <2> QED
    BY <2>2 DEF SnapshotForm
<1>3. ASSUME NEW s \in Slots, ReadRuns(s) \/ RerunStep(s) PROVE snapshots' = snapshots
  BY <1>3 DEF ReadRuns, RerunStep, Evaluate, Flush, RefuseRerun, CommitRerun
<1>4. ASSUME PipelineStep PROVE snapshots' = snapshots
  BY <1>4 DEF PipelineStep, ExecuteJob, CancelJobs, PostProcess, Retry
<1>5. ASSUME NEW c \in Snapshotters, FindNoSnapshot(c) \/ RefuseSnapshot(c)
      PROVE  snapshots' = snapshots
  BY <1>5 DEF FindNoSnapshot, RefuseSnapshot
<1> QED
  BY <1>1, <1>2, <1>3, <1>4, <1>5 DEF Next, SnapshotStep, vars

LEMMA AnalyticsInvariant == Spec => []IInv
<1>1. Init => IInv
  BY InitIsConsistent
<1>2. IInv /\ [Next]_vars => IInv'
  BY TypeIsInductive, RunsFitIsInductive, SnapshotStaysSingle, RerunsAreInductive,
     FirstRunStaysUnique DEF IInv
<1> QED
  BY <1>1, <1>2, PTL DEF Spec

-----------------------------------------------------------------------------
(* The theorems.                                                           *)

\* Rows, requests in progress and snapshots keep their form in every behaviour:
\* what a request or a snapshot refers to are runs of the audit.
THEOREM AnalyticsTypeCorrect == Spec => []TypeOK
<1>1. IInv => TypeOK
  BY DEF IInv
<1> QED
  BY <1>1, AnalyticsInvariant, PTL

\* However many callers find no snapshot of an audit, the audit gets one at most.
THEOREM AuditHasOneSnapshot == Spec => []OneSnapshotPerAudit
<1>1. SnapshotForm => OneSnapshotPerAudit
  <2>1. \A snapshot : Len(<<snapshot>>) = 1
    OBVIOUS
  <2>2. Len(<< >>) = 0
    OBVIOUS
  <2>3. SnapshotForm => Len(snapshots) \in {0, 1}
    BY <2>1, <2>2, Zenon DEF SnapshotForm
  <2>4. \A n \in {0, 1} : n <= 1
    OBVIOUS
  <2> QED
    BY <2>3, <2>4, Zenon DEF OneSnapshotPerAudit
<1>2. IInv => OneSnapshotPerAudit
  BY <1>1 DEF IInv
<1> QED
  BY <1>2, AnalyticsInvariant, PTL

\* A re-evaluation that stores anything stores a verdict for every usable answer
\* it has read, whatever other re-evaluations, retries and pipelines do.
THEOREM RerunsLeaveAllOrNothing == Spec => RerunIsAtomic
<1> DEFINE Atomic ==
      evals' # evals =>
        \E s \in Slots :
           /\ rerun[s].stage # "idle" /\ rerun'[s].stage = "idle"
           /\ \A i \in 1..rerun[s].seen :
                HasUsableAnswer(i) => i \in DOMAIN evals' /\ evals'[i] = Verdict(i)
<1>1. IInv /\ [Next]_vars => [Atomic]_vars
  <2> SUFFICES ASSUME IInv, [Next]_vars, evals' # evals PROVE Atomic
    OBVIOUS
  <2>1. PICK s \in Slots : CommitRerun(s)
    BY DEF Next, PipelineStep, ExecuteJob, CancelJobs, PostProcess, Retry, ReadRuns, RerunStep,
           Evaluate, Flush, RefuseRerun, FindNoSnapshot, SnapshotStep, StoreSnapshot,
           RefuseSnapshot, vars
  <2>2. /\ rerun[s].stage = "next" /\ rerun[s].todo = {}
        /\ DOMAIN evals' = DOMAIN evals \cup rerun[s].locked
        /\ \A i \in rerun[s].locked : evals'[i] = Verdict(i)
    BY <2>1 DEF CommitRerun
  <2>3. rerun'[s].stage = "idle"
    BY <2>1 DEF CommitRerun, IInv, TypeOK, Idle
  <2>4. UsableIn(rerun[s].seen) = rerun[s].locked
    <3>1. RerunHoldsItsRuns(s) /\ rerun[s] # Idle
      BY <2>2 DEF IInv, Idle
    <3> QED
      BY <2>2, <3>1 DEF RerunHoldsItsRuns
  <2>5. ASSUME NEW i \in 1 .. rerun[s].seen, HasUsableAnswer(i)
        PROVE  i \in DOMAIN evals' /\ evals'[i] = Verdict(i)
    BY <2>2, <2>4, <2>5 DEF UsableIn
  <2> QED
    BY <2>2, <2>3, <2>5
<1> QED
  BY <1>1, AnalyticsInvariant, PTL DEF Spec, RerunIsAtomic

-----------------------------------------------------------------------------
(* Trends and summary.                                                     *)

\* An audit with targets, or one at level L1: the trends take a run without target for L1.
LevelsAreKnown == ScdlLevel = "L1" \/ NoTarget \notin Targets

LEMMA FirstIsAnElement ==
  ASSUME NEW ids \in SUBSET Nat, ids # {}
  PROVE  First(ids) \in ids
<1> DEFINE Less == {pair \in Nat \X Nat : pair[1] < pair[2]}
<1>0. IsWellFoundedOn(Less, Nat)
  BY NatLessThanWellFounded, Zenon DEF OpToRel
<1>1. PICK i \in ids : \A k \in ids : ~ (<<k, i>> \in Less)
  <2> HIDE DEF Less
  <2> QED
    BY <1>0, WFMin
<1>2. ASSUME NEW k \in ids PROVE i <= k
  <2>1. k \in Nat /\ i \in Nat
    OBVIOUS
  <2>2. k < i => <<k, i>> \in Less
    BY <2>1
  <2> HIDE DEF Less
  <2>3. ~ (k < i)
    BY <1>1, <2>2
  <2> QED
    BY <2>1, <2>3
<1> QED
  BY <1>2 DEF First

LEMMA LevelsAgree ==
  ASSUME TypeOK, LevelsAreKnown, NEW i \in Ids
  PROVE  /\ RowLevel(runs[i]) = TargetLevel(runs[i])
         /\ RowLevel(runs[i]) \in Level
<1>1. runs[i].job.target \in Targets
  BY IdsType DEF Run, Job
<1> QED
  BY <1>1, AnalyticsAssumption
  DEF RowLevel, TargetLevel, LevelsAreKnown, AnalyticsAssumption, Level

LEMMA MetricsAgree ==
  ASSUME TypeOK, LevelsAreKnown, NEW ids \in SUBSET Ids, NEW level \in Level
  PROVE  /\ Mentionability(runs, ids, level) = MentionabilityForLevel(ids, level)
         /\ Accuracy(runs, evals, ids, level) = AccuracyForLevel(ids, level)
<1>1. \A i \in ids : RowLevel(runs[i]) = TargetLevel(runs[i])
  BY LevelsAgree
<1>2. \A i \in ids : /\ runs[i].parsed \in {"no", "found", "absent"}
                     /\ (VisibleBrand(runs[i]) # "None") = (runs[i].parsed # "no")
                     /\ (VisibleBrand(runs[i]) = "True") = (runs[i].parsed = "found")
  BY IdsType DEF Run, VisibleBrand
<1> DEFINE answered == ProcessedRows(runs, RowsAt(runs, ids, level))
           visible == {i \in ids : /\ TargetLevel(runs[i]) = level
                                   /\ runs[i].status = "success"
                                   /\ VisibleBrand(runs[i]) # "None"}
<1>3. answered = visible
  BY <1>1, <1>2 DEF ProcessedRows, RowsAt
<1>4. {i \in answered : runs[i].parsed = "found"}
        = {i \in visible : VisibleBrand(runs[i]) = "True"}
  BY <1>2, <1>3 DEF ProcessedRows, RowsAt
<1>5. Mentionability(runs, ids, level) = MentionabilityForLevel(ids, level)
  BY <1>3, <1>4 DEF Mentionability, MentionabilityForLevel
<1> DEFINE strict == {i \in RowsAt(runs, ids, level) \cap DOMAIN evals :
                        evals[i] \in StrictVerdicts}
           counted == {i \in {k \in ids \cap DOMAIN evals : TargetLevel(runs[k]) = level} :
                         evals[i] \in StrictVerdicts}
<1>6. strict = counted
  BY <1>1 DEF RowsAt
<1>7. Accuracy(runs, evals, ids, level) = AccuracyForLevel(ids, level)
  BY <1>6 DEF Accuracy, AccuracyForLevel
<1> QED
  BY <1>5, <1>7

\* Trends and summary compute the same metrics from the same rows, overall and
\* for each model at the level the trends give it.
THEOREM TrendsFollowTheSummary ==
  ASSUME LevelsAreKnown
  PROVE  Spec => []TrendAgreesWithSummary
<1>1. TypeOK => TrendAgreesWithSummary
  <2> SUFFICES ASSUME TypeOK PROVE TrendAgreesWithSummary
    OBVIOUS
  <2>1. ASSUME NEW model \in ModelsIn(runs)
        PROVE  LET trend == ModelSummary(runs, evals, model)
               IN  /\ trend.mentionability = ModelLine(model).mr[trend.level]
                   /\ trend.accuracy = ModelLine(model).accuracy[trend.level]
    <3> DEFINE ids == {i \in Ids : ModelOf[runs[i].job.target] = model}
               level == RowLevel(runs[First(ids)])
    <3>1. DOMAIN runs = Ids /\ Ids \subseteq Nat
      BY IdsType DEF Ids
    <3>2. ids # {} /\ ids \in SUBSET Ids
      BY <3>1 DEF ModelsIn
    <3>3. First(ids) \in Ids
      BY <3>1, <3>2, FirstIsAnElement
    <3>4. level \in Level
      BY <3>3, LevelsAgree
    <3>5. ModelSummary(runs, evals, model) =
            [level |-> level, run_count |-> Cardinality(ids),
             mentionability |-> Mentionability(runs, ids, level),
             accuracy |-> Accuracy(runs, evals, ids, level)]
      BY <3>1 DEF ModelSummary
    <3>6. /\ ModelLine(model).mr[level] = MentionabilityForLevel(ids, level)
          /\ ModelLine(model).accuracy[level] = AccuracyForLevel(ids, level)
      BY <3>4 DEF ModelLine
    <3>7. /\ Mentionability(runs, ids, level) = MentionabilityForLevel(ids, level)
          /\ Accuracy(runs, evals, ids, level) = AccuracyForLevel(ids, level)
      BY <3>2, <3>4, MetricsAgree
    <3> HIDE DEF ids, level
    <3>8. /\ ModelSummary(runs, evals, model).level = level
          /\ ModelSummary(runs, evals, model).mentionability = Mentionability(runs, ids, level)
          /\ ModelSummary(runs, evals, model).accuracy = Accuracy(runs, evals, ids, level)
      BY <3>5
    <3> QED
      BY <3>6, <3>7, <3>8
  <2>2. \A level \in Level :
          /\ Mentionability(runs, Ids, level) = MentionabilityForLevel(Ids, level)
          /\ Accuracy(runs, evals, Ids, level) = AccuracyForLevel(Ids, level)
    BY MetricsAgree
  <2> QED
    BY <2>1, <2>2 DEF TrendAgreesWithSummary
<1> QED
  BY <1>1, AnalyticsTypeCorrect, PTL

-----------------------------------------------------------------------------
(* Answer matrix and summary.                                              *)

\* Until a retry adds runs, a cell has one run at most, and shows it.
LEMMA CellShowsItsRun ==
  ASSUME IInv, \A i \in Ids : runs[i].job.number = 1, NEW i \in Ids
  PROVE  RunOfCell(runs[i].job.query, runs[i].job.target) = i
<1> DEFINE cell == RunsOfCell(runs[i].job.query, runs[i].job.target)
<1>1. cell = {i}
  BY DEF IInv, FirstRunIsUnique, RunsOfCell
<1>2. \A k \in cell : runs[i].job.number <= runs[k].job.number
  BY <1>1
<1> HIDE DEF cell
<1>3. RunOfCell(runs[i].job.query, runs[i].job.target) \in cell
  BY <1>1, <1>2 DEF RunOfCell, cell
<1> QED
  BY <1>1, <1>3

LEMMA CompletedCells ==
  ASSUME IInv, \A i \in Ids : runs[i].job.number = 1, NEW q \in Queries, NEW t \in Targets
  PROVE  CellStatus(q, t) = "completed"
           <=> \E i \in Ids : /\ runs[i].job.query = q /\ runs[i].job.target = t
                              /\ runs[i].status = "success" /\ runs[i].parsed # "no"
<1>1. CASE RunsOfCell(q, t) = {}
  BY <1>1 DEF RunsOfCell, CellStatus
<1>2. CASE RunsOfCell(q, t) # {}
  <2>1. PICK i \in Ids : runs[i].job.query = q /\ runs[i].job.target = t
    BY <1>2 DEF RunsOfCell
  <2>2. RunOfCell(q, t) = i
    BY <2>1, CellShowsItsRun
  <2>3. \A k \in Ids : runs[k].job.query = q /\ runs[k].job.target = t => k = i
    BY <2>1 DEF IInv, FirstRunIsUnique
  <2>4. runs[i].status \in {"success", "failed"}
    BY IdsType DEF IInv, Run
  <2>5. CellStatus(q, t) = "completed" <=> runs[i].status = "success" /\ runs[i].parsed # "no"
    BY <1>2, <2>2, <2>4 DEF CellStatus
  <2> QED
    BY <2>1, <2>3, <2>5
<1> QED
  BY <1>1, <1>2

\* Until a retry adds runs, every processed run has a completed cell of its own in
\* the answer matrix, so that matrix and summary count the same answers.
THEOREM MatrixFollowsTheSummary == Spec => []MatrixAgreesWithSummary
<1>1. IInv => MatrixAgreesWithSummary
  <2> SUFFICES ASSUME IInv, \A i \in Ids : runs[i].job.number = 1, NEW level \in Level
               PROVE  Cardinality({cell \in Cells :
                                     /\ CellStatus(cell[1], cell[2]) = "completed"
                                     /\ TargetLevel([job |-> [target |-> cell[2]]]) = level})
                        = MentionabilityForLevel(Ids, level)[2]
    BY DEF MatrixAgreesWithSummary
  <2> DEFINE processed == {i \in Ids : /\ TargetLevel(runs[i]) = level
                                       /\ runs[i].status = "success"
                                       /\ VisibleBrand(runs[i]) # "None"}
             shown == {cell \in Cells :
                         /\ CellStatus(cell[1], cell[2]) = "completed"
                         /\ TargetLevel([job |-> [target |-> cell[2]]]) = level}
             CellOf == [i \in processed |-> <<runs[i].job.query, runs[i].job.target>>]
  <2>1. MentionabilityForLevel(Ids, level)[2] = Cardinality(processed)
    BY DEF MentionabilityForLevel, Metric
  <2>2. IsFiniteSet(processed)
    BY IdsAreFinite DEF IInv
  <2>3. \A i \in Ids : /\ runs[i].job.query \in Queries /\ runs[i].job.target \in Targets
                       /\ (VisibleBrand(runs[i]) # "None") = (runs[i].parsed # "no")
                       /\ TargetLevel(runs[i]) = TargetLevel([job |-> [target |-> runs[i].job.target]])
    BY IdsType DEF IInv, Run, Job, VisibleBrand, TargetLevel
  <2>0. \A q \in Queries, t \in Targets :
          <<q, t>> \in shown <=> /\ CellStatus(q, t) = "completed"
                                 /\ TargetLevel([job |-> [target |-> t]]) = level
    BY DEF Cells
  <2>4. ASSUME NEW i \in processed PROVE CellOf[i] \in shown
    <3> DEFINE q == runs[i].job.query
               t == runs[i].job.target
    <3>1. q \in Queries /\ t \in Targets /\ i \in Ids
      BY <2>3
    <3>2. CellStatus(q, t) = "completed"
      <4>1. \E k \in Ids : /\ runs[k].job.query = q /\ runs[k].job.target = t
                           /\ runs[k].status = "success" /\ runs[k].parsed # "no"
        BY <2>3, <3>1
      <4> HIDE DEF q, t
      <4> QED
        BY <3>1, <4>1, CompletedCells
    <3>3. TargetLevel([job |-> [target |-> t]]) = level
      BY <2>3
    <3>4. <<q, t>> \in shown
      <4> HIDE DEF shown, q, t
      <4> QED
        BY <2>0, <3>1, <3>2, <3>3
    <3> QED
      BY <3>4
  <2>5. ASSUME NEW i \in processed, NEW k \in processed, CellOf[i] = CellOf[k] PROVE i = k
    BY <2>5 DEF IInv, FirstRunIsUnique
  <2>6. ASSUME NEW cell \in shown PROVE \E i \in processed : CellOf[i] = cell
    <3>1. PICK q \in Queries, t \in Targets : cell = <<q, t>>
      BY DEF Cells
    <3>2. CellStatus(q, t) = "completed" /\ TargetLevel([job |-> [target |-> t]]) = level
      BY <3>1
    <3>3. PICK i \in Ids : /\ runs[i].job.query = q /\ runs[i].job.target = t
                           /\ runs[i].status = "success" /\ runs[i].parsed # "no"
      BY <3>2, CompletedCells
    <3>4. i \in processed
      BY <2>3, <3>2, <3>3
    <3> QED
      BY <3>1, <3>3, <3>4
  <2>7. CellOf \in Bijection(processed, shown)
    <3>1. DOMAIN CellOf = processed /\ CellOf = [i \in processed |-> CellOf[i]]
      OBVIOUS
    <3> HIDE DEF processed, shown, CellOf
    <3>2. CellOf \in [processed -> shown]
      BY <2>4, <3>1
    <3> QED
      BY <2>5, <2>6, <3>2 DEF Bijection, Injection, IsInjective, Surjection
  <2>8. Cardinality(shown) = Cardinality(processed)
    <3> HIDE DEF processed, shown, CellOf
    <3> QED
      BY <2>2, <2>7, FS_Bijection DEF ExistsBijection
  <2> QED
    BY <2>1, <2>8
<1> QED
  BY <1>1, AnalyticsInvariant, PTL

-----------------------------------------------------------------------------
(* Row locks.                                                              *)

\* What a re-evaluation has locked comes before what it writes next, and that
\* before what it has still to do.
LocksInOrder(s) ==
    /\ \A i \in rerun[s].locked, k \in rerun[s].todo : i < k
    /\ rerun[s].stage = "flush" =>
         /\ \A i \in rerun[s].locked : i < rerun[s].at
         /\ \A k \in rerun[s].todo : rerun[s].at < k

LEMMA LocksStayInOrder ==
  ASSUME IInv, NEW s \in Slots, ReadRuns(s) \/ RerunStep(s), LocksInOrder(s)
  PROVE  /\ LocksInOrder(s)'
         /\ \A t \in Slots \ {s} : rerun'[t] = rerun[t]
<1>1. /\ rerun \in [Slots -> Rerun] /\ rerun[s].todo \subseteq Nat /\ rerun[s].locked \subseteq Nat
      /\ rerun[s].at \in Nat
  BY AnalyticsAssumption DEF IInv, TypeOK, Rerun, AnalyticsAssumption
<1>2. ASSUME rerun' = [rerun EXCEPT ![s] = Idle]
      PROVE  LocksInOrder(s)' /\ \A t \in Slots \ {s} : rerun'[t] = rerun[t]
  BY <1>1, <1>2 DEF LocksInOrder, Idle
<1>3. CASE ReadRuns(s)
  BY <1>1, <1>3 DEF ReadRuns, LocksInOrder, Idle
<1>4. CASE Evaluate(s)
  <2>1. PICK i \in rerun[s].todo :
          /\ IsNextRow(s, i)
          /\ rerun' = [rerun EXCEPT ![s].stage = "flush", ![s].todo = @ \ {i}, ![s].at = i,
                                    ![s].inserts = i \notin DOMAIN evals]
    BY <1>4 DEF Evaluate
  <2>2. /\ rerun'[s].todo = rerun[s].todo \ {i} /\ rerun'[s].at = i
        /\ rerun'[s].locked = rerun[s].locked
        /\ \A t \in Slots \ {s} : rerun'[t] = rerun[t]
    BY <1>1, <2>1 DEF Rerun
  <2>3. \A k \in rerun[s].todo \ {i} : i < k
    BY <1>1, <2>1 DEF IsNextRow
  <2> QED
    BY <2>2, <2>3 DEF LocksInOrder
<1>5. CASE Flush(s)
  <2>1. /\ rerun'[s].todo = rerun[s].todo /\ rerun'[s].stage = "next"
        /\ rerun'[s].locked = rerun[s].locked \cup {rerun[s].at}
        /\ \A t \in Slots \ {s} : rerun'[t] = rerun[t]
    BY <1>1, <1>5 DEF Flush, Rerun
  <2>2. rerun[s].stage = "flush"
    BY <1>5 DEF Flush
  <2> QED
    BY <2>1, <2>2 DEF LocksInOrder
<1>6. CASE RefuseRerun(s) \/ CommitRerun(s)
  BY <1>2, <1>6 DEF RefuseRerun, CommitRerun
<1> QED
  BY <1>3, <1>4, <1>5, <1>6 DEF RerunStep

\* Of any re-evaluations, one that does not wait, or the one that waits for the
\* row of the highest id, waits for none of the others: they have locked only rows
\* before the one they wait for.
LEMMA OrderExcludesCircles ==
  ASSUME IInv, \A s \in Slots : LocksInOrder(s)
  PROVE  NoCircularWait
<1> SUFFICES ASSUME NEW waiting \in SUBSET Slots, waiting # {},
                    \A s \in waiting : WaitsFor(s) \cap waiting # {}
             PROVE  FALSE
  BY DEF NoCircularWait
<1>1. \A s \in waiting : /\ rerun[s].stage = "flush" /\ rerun[s].at \in Nat
                         /\ rerun[s].at <= MaxRuns
  <2>1. \A s \in waiting : rerun[s].stage = "flush"
    BY DEF WaitsFor
  <2>2. \A s \in waiting : rerun[s].at \in 0 .. MaxRuns
    BY DEF IInv, TypeOK, Rerun
  <2> QED
    BY <2>1, <2>2, AnalyticsAssumption DEF AnalyticsAssumption
<1> DEFINE Left == {MaxRuns - rerun[s].at : s \in waiting}
           R == OpToRel(<, Nat)
<1>2. MaxRuns \in Nat
  BY AnalyticsAssumption DEF AnalyticsAssumption
<1>3. Left \subseteq Nat /\ Left # {}
  BY <1>1, <1>2
<1>4. PICK n \in Left : \A m \in Left : ~ (<<m, n>> \in R)
  <2>1. IsWellFoundedOn(R, Nat)
    BY NatLessThanWellFounded
  <2> HIDE DEF R, Left
  <2> QED
    BY <1>3, <2>1, WFMin
<1>5. \A m \in Left : ~ (m < n)
  <2>1. \A m \in Nat : m < n => <<m, n>> \in R
    BY <1>3 DEF OpToRel
  <2> HIDE DEF R, Left
  <2> QED
    BY <1>3, <1>4, <2>1
<1>6. PICK s \in waiting : n = MaxRuns - rerun[s].at
  BY <1>4
<1>7. PICK t \in waiting : rerun[s].at \in rerun[t].locked
  BY DEF WaitsFor
<1>8. rerun[s].at < rerun[t].at
  BY <1>1, <1>7 DEF LocksInOrder
<1>9. MaxRuns - rerun[t].at \in Left /\ MaxRuns - rerun[t].at < n
  BY <1>1, <1>2, <1>6, <1>8
<1> QED
  BY <1>5, <1>9

\* However many users re-evaluate an audit, and whatever runs are added meanwhile,
\* the row locks of their transactions never close a circle: each transaction
\* writes in the order of ids of the runs it has read (ORDER BY runs.id).
THEOREM RerunsNeverDeadlock == Spec => []NoCircularWait
<1> DEFINE Ordered == \A s \in Slots : LocksInOrder(s)
<1>1. Init => Ordered
  BY DEF Init, LocksInOrder, Idle
<1>2. IInv /\ Ordered /\ [Next]_vars => Ordered'
  <2> SUFFICES ASSUME IInv, Ordered, [Next]_vars, NEW t \in Slots PROVE LocksInOrder(t)'
    OBVIOUS
  <2>1. ASSUME rerun'[t] = rerun[t] PROVE LocksInOrder(t)'
    BY <2>1 DEF LocksInOrder
  <2>2. ASSUME NEW s \in Slots, ReadRuns(s) \/ RerunStep(s) PROVE LocksInOrder(t)'
    <3>1. LocksInOrder(s)' /\ \A u \in Slots \ {s} : rerun'[u] = rerun[u]
      BY <2>2, LocksStayInOrder
    <3> QED
      BY <2>1, <3>1
  <2>3. CASE UNCHANGED rerun
    BY <2>1, <2>3
  <2>4. CASE PipelineStep
    BY <2>3, <2>4 DEF PipelineStep, ExecuteJob, CancelJobs, PostProcess, Retry
  <2>5. ASSUME NEW c \in Snapshotters, FindNoSnapshot(c) \/ SnapshotStep(c)
        PROVE  LocksInOrder(t)'
    BY <2>3, <2>5 DEF FindNoSnapshot, SnapshotStep, StoreSnapshot, RefuseSnapshot
  <2>6. CASE UNCHANGED vars
    BY <2>3, <2>6 DEF vars
  <2> QED
    BY <2>2, <2>4, <2>5, <2>6 DEF Next
<1>3. IInv /\ Ordered => NoCircularWait
  BY OrderExcludesCircles
<1> QED
  BY <1>1, <1>2, <1>3, AnalyticsInvariant, PTL DEF Spec
=============================================================================
