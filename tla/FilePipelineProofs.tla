------------------------- MODULE FilePipelineProofs -------------------------
(***************************************************************************)
(* Theorems about FilePipeline: type correctness, one run of the file at a *)
(* time, the status diagram, no object left behind. They hold for every    *)
(* number of workers, requests, attempts and failures.                     *)
(***************************************************************************)
EXTENDS FilePipeline, FiniteSetTheorems, TLAPS

-----------------------------------------------------------------------------
(* Types, variable by variable. *)

JobState == {"none", "waiting", "active", "delayed", "completed", "failed"}
Job == [state : JobState, by : Worker \cup {NoWorker}, made : 0..MaxAttempts - 1, stalls : 0..1]
RunPc == {"idle", "find", "claim", "fetch", "extract", "ready", "fail", "resolved", "rejected"}
Run == [pc : RunPc, made : 0..MaxAttempts - 1]
CallPc == {"idle", "store", "insert", "undo", "save", "getJob", "getState", "remove", "add",
           "takeBack", "giveUp", "done"}
Call == [pc : CallPc, text : BOOLEAN]

RowOK == status \in Status \cup {"ABSENT"} /\ attempts \in Nat /\ {text, stale} \subseteq BOOLEAN

Typed ==
    /\ RowOK
    /\ object \in BOOLEAN
    /\ job \in Job
    /\ run \in [Worker -> Run]
    /\ call \in [Caller -> Call]
    /\ delete \in [Delete -> {"idle", "row", "object", "done"}]
    /\ faults \in 0..MaxFault

LEMMA TypedIsTypeOK == Typed <=> TypeOK
BY DEF Typed, TypeOK, RowOK, Job, JobState, Run, RunPc, Call, CallPc

LEMMA TypedInit == Init => Typed
<1> SUFFICES ASSUME Init
             PROVE  Typed
  OBVIOUS
<1>1. 0 \in 0..MaxAttempts - 1 /\ 0 \in 0..MaxFault
  BY FilesAssumption
<1>2. RowOK /\ object \in BOOLEAN
  BY DEF Init, RowOK, Status
<1>3. job \in Job
  BY <1>1 DEF Init, NoJob, Job, JobState
<1>4. run \in [Worker -> Run]
  BY <1>1 DEF Init, NoRun, Run, RunPc
<1>5. call \in [Caller -> Call]
  BY DEF Init, Call, CallPc
<1> QED
  BY <1>1, <1>2, <1>3, <1>4, <1>5 DEF Init, Typed

\* What the building blocks of the actions write.
LEMMA FaultTyped == ASSUME faults \in 0..MaxFault, Fault PROVE faults' \in 0..MaxFault
BY FilesAssumption DEF Fault

LEMMA WriteTyped ==
    ASSUME NEW s \in Status \cup {"ABSENT"}, NEW a \in Nat, NEW t \in BOOLEAN, Write(s, a, t)
    PROVE  RowOK'
BY DEF Write, RowOK

LEMMA GoTyped ==
    ASSUME call \in [Caller -> Call], NEW c \in Caller, NEW pc \in CallPc, Go(c, pc)
    PROVE  call' \in [Caller -> Call]
BY DEF Go, Call

LEMMA ReturnTyped ==
    ASSUME call \in [Caller -> Call], NEW c \in Caller, Return(c)
    PROVE  call' \in [Caller -> Call]
BY GoTyped DEF Return, CallPc

LEMMA ToTyped ==
    ASSUME run \in [Worker -> Run], NEW w \in Worker, NEW pc \in RunPc, To(w, pc)
    PROVE  run' \in [Worker -> Run]
BY DEF To, Run

LEMMA JobTyped ==
    ASSUME job \in Job
    PROVE  /\ NoJob \in Job
           /\ \A state \in JobState : [NoJob EXCEPT !.state = state] \in Job
           /\ \A state \in JobState : [job EXCEPT !.state = state] \in Job
           /\ \A state \in JobState, w \in Worker \cup {NoWorker} :
                 [job EXCEPT !.state = state, !.by = w] \in Job
           /\ [job EXCEPT !.by = NoWorker] \in Job
           /\ [job EXCEPT !.state = "waiting", !.stalls = 1] \in Job
           /\ job.made + 1 < MaxAttempts =>
                 [job EXCEPT !.state = "delayed", !.by = NoWorker, !.made = @ + 1] \in Job
<1>1. NoJob \in Job
  BY FilesAssumption DEF Job, JobState, NoJob
<1>2. ASSUME NEW state \in JobState
      PROVE  [NoJob EXCEPT !.state = state] \in Job /\ [job EXCEPT !.state = state] \in Job
  BY <1>1, <1>2 DEF Job
<1>3. ASSUME NEW state \in JobState, NEW w \in Worker \cup {NoWorker}
      PROVE  [job EXCEPT !.state = state, !.by = w] \in Job
  BY <1>3 DEF Job
<1>4. [job EXCEPT !.by = NoWorker] \in Job
  BY DEF Job
<1>5. [job EXCEPT !.state = "waiting", !.stalls = 1] \in Job
  <2>1. ASSUME NEW state \in JobState, NEW n \in 0..1
        PROVE  [job EXCEPT !.state = state, !.stalls = n] \in Job
    BY <2>1 DEF Job
  <2> QED
    BY <2>1 DEF JobState
<1>6. ASSUME job.made + 1 < MaxAttempts
      PROVE  [job EXCEPT !.state = "delayed", !.by = NoWorker, !.made = @ + 1] \in Job
  <2>1. ASSUME NEW state \in JobState, NEW by \in Worker \cup {NoWorker},
               NEW n \in 0..MaxAttempts - 1
        PROVE  [job EXCEPT !.state = state, !.by = by, !.made = n] \in Job
    BY <2>1 DEF Job
  <2>2. job.made + 1 \in 0..MaxAttempts - 1
    BY <1>6, FilesAssumption DEF Job
  <2> QED
    BY <2>1, <2>2 DEF JobState
<1> QED
  BY <1>1, <1>2, <1>3, <1>4, <1>5, <1>6

LEMMA TypedCall ==
    ASSUME Typed, NEW c \in Caller, CallStep(c) \/ QueueFails(c) \/ ReadRow(c)
    PROVE  Typed'
<1> USE DEF Typed
<1>0. faults' \in 0..MaxFault /\ object' \in BOOLEAN
      /\ delete' \in [Delete -> {"idle", "row", "object", "done"}] /\ run' \in [Worker -> Run]
  BY FaultTyped DEF CallStep, GetJob, GetState, RemoveJob, AddJob, SaveRow, TakeBack, QueueFails,
                    ReadRow
<1>1. RowOK'
  <2>1. CASE UNCHANGED row
    BY <2>1 DEF RowOK, row
  <2>2. ASSUME Write("PROCESSING", 0, call[c].text)
        PROVE  RowOK'
    BY <2>2, WriteTyped DEF Status, Call
  <2>3. ASSUME Write("FAILED", attempts, text)
        PROVE  RowOK'
    BY <2>3, WriteTyped DEF Status, RowOK
  <2> QED
    BY <2>1, <2>2, <2>3 DEF CallStep, GetJob, GetState, RemoveJob, AddJob, SaveRow, TakeBack,
                            QueueFails, ReadRow
<1>2. job' \in Job
  BY JobTyped DEF CallStep, GetJob, GetState, RemoveJob, AddJob, SaveRow, TakeBack, QueueFails,
                  ReadRow, JobState
<1>3. call' \in [Caller -> Call]
  <2>1. ASSUME ReadRow(c)
        PROVE  call' \in [Caller -> Call]
    BY <2>1 DEF ReadRow, Call, CallPc, RowOK
  <2>2. ASSUME NEW pc \in CallPc, Go(c, pc)
        PROVE  call' \in [Caller -> Call]
    BY <2>2, GoTyped
  <2>3. ASSUME Return(c)
        PROVE  call' \in [Caller -> Call]
    BY <2>3, ReturnTyped
  <2>4. CASE CallStep(c)
    BY <2>2, <2>3, <2>4 DEF CallStep, GetJob, GetState, RemoveJob, AddJob, SaveRow, TakeBack,
                            CallPc
  <2>5. CASE QueueFails(c)
    BY <2>2, <2>3, <2>5 DEF QueueFails, CallPc
  <2> QED
    BY <2>1, <2>4, <2>5
<1> QED
  BY <1>0, <1>1, <1>2, <1>3

LEMMA TypedUpload ==
    ASSUME Typed, StoreObject \/ InsertRow \/ UndoObject \/ SweepRound \/ GiveUp
    PROVE  Typed'
<1> USE DEF Typed
<1>c. Upload \in Caller /\ Sweep \in Caller
  BY DEF Caller
<1>0. faults' \in 0..MaxFault /\ object' \in BOOLEAN /\ UNCHANGED <<job, run, delete>>
  BY FaultTyped DEF StoreObject, InsertRow, UndoObject, SweepRound, GiveUp
<1>1. RowOK'
  <2>1. CASE UNCHANGED row
    BY <2>1 DEF RowOK, row
  <2>2. ASSUME Write("UPLOADING", 0, FALSE)
        PROVE  RowOK'
    BY <2>2, WriteTyped DEF Status
  <2>3. ASSUME Write("FAILED", attempts, text)
        PROVE  RowOK'
    BY <2>3, WriteTyped DEF Status, RowOK
  <2> QED
    BY <2>1, <2>2, <2>3 DEF StoreObject, InsertRow, UndoObject, SweepRound, GiveUp, FailUnfinished
<1>3. call' \in [Caller -> Call]
  <2>2. ASSUME NEW c \in Caller, NEW pc \in CallPc, Go(c, pc)
        PROVE  call' \in [Caller -> Call]
    BY <2>2, GoTyped
  <2>3. ASSUME NEW c \in Caller, Return(c)
        PROVE  call' \in [Caller -> Call]
    BY <2>3, ReturnTyped
  <2> QED
    BY <1>c, <2>2, <2>3 DEF StoreObject, InsertRow, UndoObject, SweepRound, GiveUp, CallPc
<1> QED
  BY <1>0, <1>1, <1>3

LEMMA TypedDelete ==
    ASSUME Typed, NEW d \in Delete, FindToDelete(d) \/ DeleteRow(d) \/ DeleteObject(d)
    PROVE  Typed'
<1> USE DEF Typed
<1>1. faults' \in 0..MaxFault /\ object' \in BOOLEAN /\ UNCHANGED <<job, run, call>>
  BY FaultTyped DEF FindToDelete, DeleteRow, DeleteObject
<1>2. delete' \in [Delete -> {"idle", "row", "object", "done"}]
  BY DEF FindToDelete, DeleteRow, DeleteObject
<1>3. RowOK'
  <2>1. CASE UNCHANGED row
    BY <2>1 DEF RowOK, row
  <2>2. ASSUME Write("ABSENT", 0, FALSE)
        PROVE  RowOK'
    BY <2>2, WriteTyped
  <2> QED
    BY <2>1, <2>2 DEF FindToDelete, DeleteRow, DeleteObject
<1> QED
  BY <1>1, <1>2, <1>3

LEMMA TypedRun ==
    ASSUME Typed, NEW w \in Worker, RunStep(w)
    PROVE  Typed'
<1> USE DEF Typed
<1>1. faults' \in 0..MaxFault /\ UNCHANGED <<object, job, call, delete>>
  BY FaultTyped DEF RunStep, FindFile, Claim, FetchObject, Extract, MarkReady, MarkFailed
<1>2. RowOK'
  <2>1. CASE UNCHANGED row
    BY <2>1 DEF RowOK, row
  <2>2. ASSUME NEW s \in Status, NEW a \in Nat, NEW t \in BOOLEAN, Write(s, a, t)
        PROVE  RowOK'
    BY <2>2, WriteTyped
  <2>3. attempts \in Nat /\ attempts + 1 \in Nat /\ text \in BOOLEAN
    BY DEF RowOK
  <2>4. \/ UNCHANGED row
        \/ Write("PROCESSING", attempts + 1, text)
        \/ Write("READY", attempts, TRUE)
        \/ Write("FAILED", attempts, text)
    BY DEF RunStep, FindFile, Claim, FetchObject, Extract, MarkReady, MarkFailed, FailUnfinished
  <2> QED
    BY <2>1, <2>2, <2>3, <2>4 DEF Status
<1>3. run' \in [Worker -> Run]
  <2>1. ASSUME NEW pc \in RunPc, To(w, pc)
        PROVE  run' \in [Worker -> Run]
    BY <2>1, ToTyped
  <2>2. \E pc \in RunPc : To(w, pc)
    BY DEF RunStep, FindFile, Claim, FetchObject, Extract, MarkReady, MarkFailed, Transient, RunPc
  <2> QED
    BY <2>1, <2>2
<1> QED
  BY <1>1, <1>2, <1>3

LEMMA TypedQueue ==
    ASSUME Typed, \/ \E w \in Worker : TakeJob(w) \/ EndRun(w)
                  \/ BackoffEnds \/ CheckStalled \/ ForgetJob \/ LoseLock \/ LoseQueue
    PROVE  Typed'
<1> USE DEF Typed
<1>1. faults' \in 0..MaxFault /\ RowOK' /\ UNCHANGED <<object, call, delete>>
  BY FaultTyped DEF TakeJob, EndRun, BackoffEnds, CheckStalled, ForgetJob, LoseLock, LoseQueue,
                    RowOK, row
<1>2. job' \in Job
  <2>1. ASSUME NEW w \in Worker, EndRun(w)
        PROVE  job' \in Job
    BY <2>1, JobTyped DEF EndRun, Ended, JobState
  <2>2. ASSUME NEW w \in Worker, TakeJob(w)
        PROVE  job' \in Job
    BY <2>2, JobTyped DEF TakeJob, JobState
  <2>3. ASSUME BackoffEnds \/ CheckStalled \/ ForgetJob \/ LoseLock \/ LoseQueue
        PROVE  job' \in Job
    BY <2>3, JobTyped DEF BackoffEnds, CheckStalled, ForgetJob, LoseLock, LoseQueue, Ended,
                          JobState
  <2> QED
    BY <2>1, <2>2, <2>3
<1>3. run' \in [Worker -> Run]
  <2>1. NoRun \in Run
    BY FilesAssumption DEF NoRun, Run, RunPc
  <2>2. [pc |-> "find", made |-> job.made] \in Run
    BY DEF Run, RunPc, Job
  <2> QED
    BY <2>1, <2>2 DEF TakeJob, EndRun, BackoffEnds, CheckStalled, ForgetJob, LoseLock, LoseQueue
<1> QED
  BY <1>1, <1>2, <1>3

LEMMA TypedNext == Typed /\ [Next]_vars => Typed'
<1> SUFFICES ASSUME Typed, [Next]_vars
             PROVE  Typed'
  OBVIOUS
<1>1. ASSUME GrowStale
      PROVE  Typed'
  BY <1>1 DEF GrowStale, Typed, RowOK
<1>2. ASSUME Crash
      PROVE  Typed'
  <2>1. NoRun \in Run
    BY FilesAssumption DEF NoRun, Run, RunPc
  <2>2. call' \in [Caller -> Call]
    <3>1. [pc |-> "idle", text |-> FALSE] \in Call /\ [pc |-> "done", text |-> FALSE] \in Call
      BY DEF Call, CallPc
    <3> QED
      BY <1>2, <3>1 DEF Crash, Typed
  <2>3. delete' \in [Delete -> {"idle", "row", "object", "done"}]
    BY <1>2 DEF Crash
  <2> QED
    BY <1>2, <2>1, <2>2, <2>3, FaultTyped, JobTyped DEF Crash, Typed, RowOK, row
<1>3. CASE UNCHANGED vars
  BY <1>3 DEF vars, Typed, RowOK, row
<1> QED
  BY <1>1, <1>2, <1>3, TypedCall, TypedUpload, TypedDelete, TypedRun, TypedQueue DEF Next

\* Every variable keeps the shape the code gives it.
THEOREM TypeCorrect == Spec => []TypeOK
<1>1. Spec => []Typed
  BY TypedInit, TypedNext, PTL DEF Spec
<1> QED
  BY <1>1, TypedIsTypeOK, PTL

-----------------------------------------------------------------------------
(* One run at a time. A run that does not hold the job's lock has lost it to  *)
(* a failure; a locked job is neither removed nor replaced.                   *)

Loose == {w \in Worker : run[w].pc # "idle" /\ job.by # w}

RunsHoldTheJob ==
    /\ job.by # NoWorker => job.state = "active"
    /\ IsFiniteSet(Loose)
    /\ Cardinality(Loose) <= faults

LEMMA HoldInit == Init => RunsHoldTheJob
<1> SUFFICES ASSUME Init
             PROVE  RunsHoldTheJob
  OBVIOUS
<1>1. Loose = {}
  BY DEF Init, Loose, NoRun
<1> QED
  BY <1>1, FS_EmptySet DEF Init, RunsHoldTheJob, NoJob

\* One element more makes a finite set at most one larger.
LEMMA OneMore ==
    ASSUME NEW S, NEW v, IsFiniteSet(S)
    PROVE  IsFiniteSet(S \cup {v}) /\ Cardinality(S \cup {v}) <= Cardinality(S) + 1
<1>1. Cardinality(S) \in Nat
  BY FS_CardinalityType
<1>2. CASE v \in S
  <2>1. S \cup {v} = S
    BY <1>2
  <2>2. Cardinality(S) <= Cardinality(S) + 1
    BY <1>1
  <2> QED
    BY <2>1, <2>2, Zenon
<1>3. CASE v \notin S
  <2>1. IsFiniteSet(S \cup {v}) /\ Cardinality(S \cup {v}) = Cardinality(S) + 1
    BY <1>3, FS_AddElement
  <2> QED
    BY <2>1, <1>1
<1> QED
  BY <1>2, <1>3

\* Fewer loose runs are fewer to account for, and a fault accounts for one more.
LEMMA FewerLoose ==
    ASSUME Typed, RunsHoldTheJob, Loose' \subseteq Loose, faults' \in Nat, faults' >= faults
    PROVE  IsFiniteSet(Loose') /\ Cardinality(Loose') <= faults'
<1> DEFINE S == Loose
           T == Loose'
<1>1. IsFiniteSet(S) /\ Cardinality(S) <= faults /\ T \subseteq S
  BY DEF RunsHoldTheJob
<1>2. faults \in Nat
  BY FilesAssumption DEF Typed
<1> HIDE DEF S, T
<1>3. IsFiniteSet(T) /\ Cardinality(T) <= Cardinality(S)
  BY <1>1, FS_Subset
<1>4. Cardinality(S) \in Nat /\ Cardinality(T) \in Nat
  BY <1>1, <1>3, FS_CardinalityType
<1>5. IsFiniteSet(T) /\ Cardinality(T) <= faults'
  BY <1>1, <1>2, <1>3, <1>4
<1> QED
  BY <1>5 DEF T

LEMMA OneMoreLoose ==
    ASSUME Typed, RunsHoldTheJob, NEW v, Loose' \subseteq Loose \cup {v}, faults' = faults + 1
    PROVE  IsFiniteSet(Loose') /\ Cardinality(Loose') <= faults'
<1> DEFINE S == Loose
           T == Loose'
<1>1. IsFiniteSet(S) /\ Cardinality(S) <= faults /\ T \subseteq S \cup {v}
  BY DEF RunsHoldTheJob
<1>2. faults \in Nat
  BY FilesAssumption DEF Typed
<1> HIDE DEF S, T
<1>3. IsFiniteSet(S \cup {v}) /\ Cardinality(S \cup {v}) <= Cardinality(S) + 1
  BY <1>1, OneMore
<1>4. IsFiniteSet(T) /\ Cardinality(T) <= Cardinality(S \cup {v})
  BY <1>1, <1>3, FS_Subset
<1>5. Cardinality(S) \in Nat /\ Cardinality(T) \in Nat /\ Cardinality(S \cup {v}) \in Nat
  BY <1>1, <1>3, <1>4, FS_CardinalityType
<1>6. IsFiniteSet(T) /\ Cardinality(T) <= faults'
  BY <1>1, <1>2, <1>3, <1>4, <1>5
<1> QED
  BY <1>6 DEF T

LEMMA FaultsGrow == Typed /\ [Next]_vars => faults' \in Nat /\ faults' >= faults
<1> SUFFICES ASSUME Typed, [Next]_vars
             PROVE  faults' \in Nat /\ faults' >= faults
  OBVIOUS
<1>1. Fault \/ UNCHANGED faults
  BY DEF Next, CallStep, GetJob, GetState, RemoveJob, AddJob, SaveRow, TakeBack, QueueFails,
         ReadRow, StoreObject, InsertRow, UndoObject, SweepRound, GiveUp, FindToDelete,
         DeleteRow, DeleteObject, RunStep, FindFile, Claim, FetchObject, Extract, MarkReady,
         MarkFailed, TakeJob, EndRun, BackoffEnds, CheckStalled, ForgetJob, LoseLock,
         LoseQueue, GrowStale, Crash, vars
<1>2. faults \in Nat
  BY FilesAssumption DEF Typed
<1> QED
  BY <1>1, <1>2 DEF Fault

LEMMA HoldNext == Typed /\ RunsHoldTheJob /\ [Next]_vars => RunsHoldTheJob'
<1> SUFFICES ASSUME Typed, RunsHoldTheJob, [Next]_vars
             PROVE  RunsHoldTheJob'
  OBVIOUS
<1> DEFINE Locked == job'.by # NoWorker => job'.state = "active"
           Fewer == Loose' \subseteq Loose
           More == faults' = faults + 1 /\ \E v : Loose' \subseteq Loose \cup {v}
<1>f. faults' \in Nat /\ faults' >= faults
  BY FaultsGrow
<1>h. job.by # NoWorker => job.state = "active"
  BY DEF RunsHoldTheJob
<1>1. ASSUME NEW c \in Caller, CallStep(c) \/ QueueFails(c) \/ ReadRow(c)
      PROVE  Locked /\ Fewer
  <2>1. UNCHANGED run
    BY <1>1 DEF CallStep, GetJob, GetState, RemoveJob, AddJob, SaveRow, TakeBack, QueueFails, ReadRow
  <2>2. \/ UNCHANGED job
        \/ job.by = NoWorker /\ job'.by = NoWorker
    BY <1>1, <1>h
    DEF CallStep, GetJob, GetState, RemoveJob, AddJob, SaveRow, TakeBack, QueueFails, ReadRow, NoJob
  <2> QED
    BY <1>h, <2>1, <2>2 DEF Loose
<1>2. ASSUME NEW w \in Worker, RunStep(w)
      PROVE  Locked /\ Fewer
  <2>1. run[w].pc # "idle" /\ UNCHANGED job
    BY <1>2 DEF RunStep, FindFile, Claim, FetchObject, Extract, MarkReady, MarkFailed, At
  <2>2. \A v \in Worker \ {w} : run'[v] = run[v]
    BY <1>2 DEF RunStep, FindFile, Claim, FetchObject, Extract, MarkReady, MarkFailed, To, Typed
  <2> QED
    BY <1>h, <2>1, <2>2 DEF Loose
<1>3. ASSUME NEW w \in Worker, TakeJob(w)
      PROVE  Locked /\ Fewer
  <2>1. job'.by = w /\ job'.state = "active" /\ job.by = NoWorker
    BY <1>3, <1>h DEF TakeJob, Typed, Job
  <2>2. \A v \in Worker \ {w} : run'[v] = run[v]
    BY <1>3 DEF TakeJob, Typed
  <2> QED
    BY <2>1, <2>2, FilesAssumption DEF Loose
<1>4. ASSUME NEW w \in Worker, EndRun(w)
      PROVE  Locked /\ Fewer
  <2>1. \A v \in Worker : run'[v].pc # "idle" => v # w /\ run'[v] = run[v]
    BY <1>4 DEF EndRun, NoRun, Typed
  <2>2. CASE job.by = w
    <3>1. job'.by = NoWorker
      BY <1>4, <2>2 DEF EndRun, Typed, Job, Ended, NoJob
    <3> QED
      BY <2>1, <2>2, <3>1 DEF Loose
  <2>3. CASE job.by # w
    BY <1>4, <1>h, <2>1, <2>3 DEF EndRun, Loose
  <2> QED
    BY <2>2, <2>3
<1>5. ASSUME BackoffEnds \/ CheckStalled \/ ForgetJob
      PROVE  Locked /\ Fewer
  <2>1. job.by = NoWorker
    BY <1>5, <1>h DEF BackoffEnds, CheckStalled, ForgetJob
  <2>3. job'.by = NoWorker
    <3>1. CASE BackoffEnds
      BY <2>1, <3>1 DEF BackoffEnds, Typed, Job
    <3>2. CASE CheckStalled
      BY <2>1, <3>2 DEF CheckStalled, Typed, Job, NoJob, Ended
    <3>3. CASE ForgetJob
      BY <3>3 DEF ForgetJob, NoJob
    <3> QED
      BY <1>5, <3>1, <3>2, <3>3
  <2>2. UNCHANGED run
    BY <1>5 DEF BackoffEnds, CheckStalled, ForgetJob
  <2> QED
    BY <2>1, <2>2, <2>3, FilesAssumption DEF Loose
<1>6. ASSUME LoseLock \/ LoseQueue
      PROVE  Locked /\ More
  <2>1. job'.by = NoWorker /\ faults' = faults + 1 /\ UNCHANGED run
    BY <1>6 DEF LoseLock, LoseQueue, Fault, Typed, Job, NoJob
  <2>2. Loose' \subseteq Loose \cup {job.by}
    BY <2>1 DEF Loose
  <2> QED
    BY <2>1, <2>2
<1>7. ASSUME Crash
      PROVE  Locked /\ Fewer
  <2>1. job'.by = NoWorker
    BY <1>7 DEF Crash, Typed, Job
  <2>2. Loose' = {}
    BY <1>7 DEF Crash, Loose, NoRun
  <2> QED
    BY <2>1, <2>2
<1>8. ASSUME UNCHANGED <<run, job>>
      PROVE  Locked /\ Fewer
  BY <1>8, <1>h DEF Loose
<1>9. Locked /\ (Fewer \/ More)
  <2>1. CASE \/ LoseLock \/ LoseQueue \/ Crash
             \/ BackoffEnds \/ CheckStalled \/ ForgetJob
             \/ \E c \in Caller : CallStep(c) \/ QueueFails(c) \/ ReadRow(c)
             \/ \E w \in Worker : TakeJob(w) \/ RunStep(w) \/ EndRun(w)
    BY <2>1, <1>1, <1>2, <1>3, <1>4, <1>5, <1>6, <1>7
  <2>2. CASE UNCHANGED <<run, job>>
    BY <2>2, <1>8
  <2> QED
    BY <2>1, <2>2
    DEF Next, StoreObject, InsertRow, UndoObject, SweepRound, GiveUp, FindToDelete, DeleteRow,
        DeleteObject, GrowStale, vars
<1>10. CASE Fewer
  BY <1>9, <1>10, <1>f, FewerLoose DEF RunsHoldTheJob
<1>11. CASE More
  BY <1>9, <1>11, OneMoreLoose DEF RunsHoldTheJob
<1> QED
  BY <1>9, <1>10, <1>11

LEMMA TypedKept == Spec => []Typed
BY TypedInit, TypedNext, PTL DEF Spec

\* The runs are the loose ones and the one that holds the job.
LEMMA HoldIsOneRun == Typed /\ RunsHoldTheJob => OneRun
<1> SUFFICES ASSUME Typed, RunsHoldTheJob
             PROVE  OneRun
  OBVIOUS
<1> DEFINE S == Loose
           T == {w \in Worker : run[w].pc # "idle"}
           v == job.by
<1>1. T \subseteq S \cup {v}
  BY DEF Loose
<1>2. IsFiniteSet(S) /\ Cardinality(S) <= faults /\ faults \in Nat
  BY FilesAssumption DEF RunsHoldTheJob, Typed
<1> HIDE DEF S, T, v
<1>3. IsFiniteSet(S \cup {v}) /\ Cardinality(S \cup {v}) <= Cardinality(S) + 1
  BY <1>2, OneMore
<1>4. IsFiniteSet(T) /\ Cardinality(T) <= Cardinality(S \cup {v})
  BY <1>1, <1>3, FS_Subset
<1>5. Cardinality(S) \in Nat /\ Cardinality(T) \in Nat /\ Cardinality(S \cup {v}) \in Nat
  BY <1>2, <1>3, <1>4, FS_CardinalityType
<1>6. Cardinality(T) <= 1 + faults
  BY <1>2, <1>3, <1>4, <1>5
<1> QED
  BY <1>6 DEF T, OneRun

\* However often a file is enqueued, by however many callers at once, it is
\* not processed twice at the same time, but for one run for each failure.
THEOREM OneRunAtATime == Spec => []OneRun
BY HoldIsOneRun, HoldInit, HoldNext, TypedKept, PTL DEF Spec

-----------------------------------------------------------------------------
(* The object: what keeps it while there is no row is on its way to insert    *)
(* the row or to remove the object.                                           *)

LEMMA ObjectInit == Init => NoOrphanObject
BY DEF Init, NoOrphanObject

LEMMA ObjectNext == Typed /\ NoOrphanObject /\ [Next]_vars => NoOrphanObject'
<1> DEFINE Kept == \/ call[Upload].pc \in {"insert", "undo"}
                   \/ \E d \in Delete : delete[d] = "object"
<1> SUFFICES ASSUME Typed, NoOrphanObject, [Next]_vars, faults' = 0, object', status' = "ABSENT"
             PROVE  Kept'
  BY DEF NoOrphanObject
<1>f. ~Fault
  BY FilesAssumption DEF Fault, Typed
<1>0. faults = 0
  BY <1>f DEF Next, CallStep, GetJob, GetState, RemoveJob, AddJob, SaveRow, TakeBack, QueueFails,
              ReadRow, StoreObject, InsertRow, UndoObject, SweepRound, GiveUp, FindToDelete,
              DeleteRow, DeleteObject, RunStep, FindFile, Claim, FetchObject, Extract, MarkReady,
              MarkFailed, TakeJob, EndRun, BackoffEnds, CheckStalled, ForgetJob, LoseLock,
              LoseQueue, GrowStale, Crash, vars
<1>k. object /\ status = "ABSENT" => Kept
  BY <1>0 DEF NoOrphanObject
<1>c. Upload \in Caller /\ Sweep \in Caller /\ Upload # Sweep
  BY FilesAssumption DEF Caller
<1>u. ASSUME NEW c \in Caller, NEW pc, Go(c, pc) \/ Return(c), c # Upload
      PROVE  call'[Upload] = call[Upload]
  BY <1>c, <1>u DEF Go, Return, Typed
<1>1. ASSUME NEW c \in Caller, CallStep(c) \/ QueueFails(c) \/ ReadRow(c)
      PROVE  Kept'
  <2>1. UNCHANGED <<object, delete>> /\ status = "ABSENT"
    BY <1>1, <1>f DEF CallStep, GetJob, GetState, RemoveJob, AddJob, SaveRow, TakeBack, QueueFails,
                      ReadRow, Write, row
  <2>2. call[c].pc \notin {"insert", "undo"}
    BY <1>1 DEF CallStep, GetJob, GetState, RemoveJob, AddJob, SaveRow, TakeBack, QueueFails, ReadRow
  <2>3. c # Upload => call'[Upload] = call[Upload]
    <3>1. CASE ReadRow(c)
      BY <1>c, <3>1 DEF ReadRow, Typed
    <3>2. CASE CallStep(c) \/ QueueFails(c)
      BY <1>u, <3>2 DEF CallStep, GetJob, GetState, RemoveJob, AddJob, SaveRow, TakeBack, QueueFails
    <3> QED
      BY <1>1, <3>1, <3>2
  <2> QED
    BY <1>k, <2>1, <2>2, <2>3
<1>2. ASSUME StoreObject \/ InsertRow \/ UndoObject
      PROVE  Kept'
  <2>1. ASSUME NEW pc, Go(Upload, pc)
        PROVE  call'[Upload].pc = pc
    BY <1>c, <2>1 DEF Go, Typed
  <2>2. CASE StoreObject
    <3>1. Go(Upload, "insert")
      BY <2>2, <1>f DEF StoreObject
    <3> QED
      BY <2>1, <3>1
  <2>3. CASE InsertRow
    <3>1. Go(Upload, "undo")
      BY <2>3 DEF InsertRow, Write
    <3> QED
      BY <2>1, <3>1
  <2>4. CASE UndoObject
    BY <2>4, <1>f DEF UndoObject
  <2> QED
    BY <1>2, <2>2, <2>3, <2>4
<1>3. ASSUME SweepRound \/ GiveUp
      PROVE  Kept'
  <2>1. UNCHANGED <<object, delete>> /\ status = "ABSENT"
    BY <1>3, <1>f DEF SweepRound, GiveUp, FailUnfinished, Write, Unfinished, row
  <2>2. call'[Upload] = call[Upload]
    BY <1>3, <1>c, <1>u DEF SweepRound, GiveUp
  <2> QED
    BY <1>k, <2>1, <2>2
<1>4. ASSUME NEW d \in Delete, FindToDelete(d) \/ DeleteRow(d) \/ DeleteObject(d)
      PROVE  Kept'
  BY <1>4, <1>f, <1>k DEF FindToDelete, DeleteRow, DeleteObject, Typed, row
<1>5. ASSUME NEW w \in Worker, RunStep(w)
      PROVE  Kept'
  <2>1. UNCHANGED <<object, call, delete>>
    BY <1>5 DEF RunStep, FindFile, Claim, FetchObject, Extract, MarkReady, MarkFailed
  <2>2. status = "ABSENT"
    BY <1>5 DEF RunStep, FindFile, Claim, FetchObject, Extract, MarkReady, MarkFailed,
                FailUnfinished, Unfinished, Write, row
  <2> QED
    BY <1>k, <2>1, <2>2
<1>6. ASSUME UNCHANGED <<status, object, call, delete>>
      PROVE  Kept'
  BY <1>6, <1>k
<1> QED
  BY <1>f, <1>1, <1>2, <1>3, <1>4, <1>5, <1>6
  DEF Next, TakeJob, EndRun, BackoffEnds, CheckStalled, ForgetJob, LoseLock, LoseQueue, GrowStale,
      Crash, vars, row

\* A refused upload and a deletion leave no object behind as long as nothing
\* fails, whatever the worker, the sweeper and other requests do in between.
THEOREM NoObjectLeftBehind == Spec => []NoOrphanObject
BY ObjectInit, ObjectNext, TypedKept, PTL DEF Spec

-----------------------------------------------------------------------------
(* The status diagram. What it rests on: before the row is inserted nobody    *)
(* else is busy with the file; while nobody has claimed it, no run and no     *)
(* sweep is about to fail it; and only requests save what they read.          *)

BeforeRow ==
    call[Upload].pc \in {"store", "insert"} =>
        /\ status = "ABSENT"
        /\ job = NoJob
        /\ \A w \in Worker : run[w].pc = "idle"
        /\ \A c \in Caller \ {Upload} : call[c].pc = "idle"

Unclaimed ==
    status = "UPLOADING" =>
        /\ attempts = 0
        /\ \A w \in Worker : run[w].pc \notin {"fetch", "extract", "ready", "fail"}
        /\ call[Sweep].pc # "giveUp"

SavesAsked == \A c \in Caller : call[c].pc = "save" => c \in Asking

Orderly == BeforeRow /\ Unclaimed /\ SavesAsked

LEMMA OrderlyInit == Init => Orderly
BY FilesAssumption DEF Init, Orderly, BeforeRow, Unclaimed, SavesAsked, NoJob, NoRun, Caller

\* One caller moves, to where its action takes it.
LEMMA CallerMoves ==
    ASSUME Typed, NEW c \in Caller, CallStep(c) \/ QueueFails(c) \/ ReadRow(c)
    PROVE  /\ \A b \in Caller \ {c} : call'[b] = call[b]
           /\ call'[c].pc \notin {"store", "insert", "giveUp"}
           /\ call'[c].pc = "save" => c \in Asking
           /\ call[c].pc \notin {"store", "insert"}
           /\ call[c].pc = "idle" => c \in Asking /\ status # "ABSENT"
           /\ UNCHANGED run
<1>1. ASSUME NEW pc, Go(c, pc)
      PROVE  (\A b \in Caller \ {c} : call'[b] = call[b]) /\ call'[c].pc = pc
  BY <1>1 DEF Go, Typed
<1>2. CASE ReadRow(c)
  BY <1>2 DEF ReadRow, Typed, Call, Finished
<1>3. CASE CallStep(c) \/ QueueFails(c)
  <2>1. \E pc \in {"add", "getState", "remove", "idle", "done", "getJob", "takeBack"} : Go(c, pc)
    BY <1>3 DEF CallStep, GetJob, GetState, RemoveJob, AddJob, SaveRow, TakeBack, QueueFails, Return
  <2>2. call[c].pc \notin {"store", "insert", "idle"} /\ UNCHANGED run
    BY <1>3 DEF CallStep, GetJob, GetState, RemoveJob, AddJob, SaveRow, TakeBack, QueueFails
  <2> QED
    BY <1>1, <2>1, <2>2
<1> QED
  BY <1>2, <1>3

LEMMA OrderlyCall ==
    ASSUME Typed, Orderly, NEW c \in Caller, CallStep(c) \/ QueueFails(c) \/ ReadRow(c)
    PROVE  Orderly'
<1> USE DEF Orderly
<1>c. Upload \in Caller /\ Sweep \in Caller /\ Upload \notin Asking
  BY FilesAssumption DEF Caller
<1>1. BeforeRow'
  <2>1. SUFFICES ASSUME call'[Upload].pc \in {"store", "insert"}
                 PROVE  FALSE
    BY DEF BeforeRow
  <2>2. c # Upload /\ call[Upload].pc \in {"store", "insert"}
    BY <1>c, <2>1, CallerMoves
  <2>3. call[c].pc = "idle" /\ status = "ABSENT"
    BY <2>2 DEF BeforeRow
  <2> QED
    BY <2>3, CallerMoves
<1>2. Unclaimed'
  <2>1. SUFFICES ASSUME status' = "UPLOADING"
                 PROVE  Unclaimed'
    BY DEF Unclaimed
  <2>2. UNCHANGED row
    BY <2>1 DEF CallStep, GetJob, GetState, RemoveJob, AddJob, SaveRow, TakeBack, QueueFails,
                ReadRow, Write
  <2>3. Unclaimed /\ status = "UPLOADING" /\ attempts' = attempts
    BY <2>1, <2>2 DEF row
  <2>4. call'[Sweep].pc # "giveUp"
    BY <1>c, <2>3, CallerMoves DEF Unclaimed
  <2> QED
    BY <2>3, <2>4, CallerMoves DEF Unclaimed
<1>3. SavesAsked'
  BY CallerMoves DEF SavesAsked
<1> QED
  BY <1>1, <1>2, <1>3

LEMMA OrderlyUpload ==
    ASSUME Typed, Orderly, StoreObject \/ InsertRow \/ UndoObject \/ SweepRound \/ GiveUp
    PROVE  Orderly'
<1> USE DEF Orderly
<1>c. Upload \in Caller /\ Sweep \in Caller /\ Upload # Sweep
  BY FilesAssumption DEF Caller
<1>g. ASSUME NEW c \in Caller, NEW pc, Go(c, pc)
      PROVE  (\A b \in Caller \ {c} : call'[b] = call[b]) /\ call'[c].pc = pc
  BY <1>g DEF Go, Typed
<1>u. UNCHANGED <<job, run>>
  BY DEF StoreObject, InsertRow, UndoObject, SweepRound, GiveUp
<1>1. CASE StoreObject
  <2>1. \E pc \in {"insert", "done"} : Go(Upload, pc)
    BY <1>1, <1>c DEF StoreObject, Return
  <2>2. UNCHANGED row /\ call[Upload].pc = "store"
    BY <1>1 DEF StoreObject
  <2> QED
    BY <1>c, <1>g, <1>u, <2>1, <2>2 DEF BeforeRow, Unclaimed, SavesAsked, row
<1>2. CASE InsertRow
  <2>1. \E pc \in {"getJob", "undo"} : Go(Upload, pc)
    BY <1>2 DEF InsertRow
  <2>2. call[Upload].pc = "insert" /\ (UNCHANGED row \/ attempts' = 0)
    BY <1>2 DEF InsertRow, Write
  <2> QED
    BY <1>c, <1>g, <1>u, <2>1, <2>2 DEF BeforeRow, Unclaimed, SavesAsked, row
<1>3. CASE UndoObject
  <2>1. Go(Upload, "done") /\ UNCHANGED row
    BY <1>3, <1>c DEF UndoObject, Return
  <2> QED
    BY <1>c, <1>g, <1>u, <2>1 DEF BeforeRow, Unclaimed, SavesAsked, row
<1>4. CASE SweepRound
  <2>1. \E pc \in {"getJob", "giveUp"} : Go(Sweep, pc) /\ (pc = "giveUp" => attempts >= MaxAttempts)
    BY <1>4 DEF SweepRound
  <2>2. UNCHANGED row /\ status # "ABSENT" /\ (status = "UPLOADING" => ~(attempts >= MaxAttempts))
    BY <1>4, FilesAssumption DEF SweepRound, Unfinished, Unclaimed
  <2> QED
    BY <1>c, <1>g, <1>u, <2>1, <2>2 DEF BeforeRow, Unclaimed, SavesAsked, row
<1>5. CASE GiveUp
  <2>1. Go(Sweep, "idle") /\ call[Sweep].pc = "giveUp"
    BY <1>5 DEF GiveUp, Return
  <2>2. status' # "UPLOADING"
    BY <1>5, <2>1 DEF GiveUp, FailUnfinished, Write, Unfinished, Unclaimed, row
  <2> QED
    BY <1>c, <1>g, <1>u, <2>1, <2>2 DEF BeforeRow, Unclaimed, SavesAsked
<1> QED
  BY <1>1, <1>2, <1>3, <1>4, <1>5

LEMMA OrderlyDelete ==
    ASSUME Typed, Orderly, NEW d \in Delete, FindToDelete(d) \/ DeleteRow(d) \/ DeleteObject(d)
    PROVE  Orderly'
<1>1. UNCHANGED <<job, run, call>>
  BY DEF FindToDelete, DeleteRow, DeleteObject
<1>2. UNCHANGED row \/ status' = "ABSENT"
  BY DEF FindToDelete, DeleteRow, DeleteObject, Write
<1> QED
  BY <1>1, <1>2 DEF Orderly, BeforeRow, Unclaimed, SavesAsked, row

LEMMA OrderlyRun ==
    ASSUME Typed, Orderly, NEW w \in Worker, RunStep(w)
    PROVE  Orderly'
<1> USE DEF Orderly
<1>u. UNCHANGED <<job, call>>
  BY DEF RunStep, FindFile, Claim, FetchObject, Extract, MarkReady, MarkFailed
<1>1. BeforeRow' /\ SavesAsked'
  <2>1. run[w].pc # "idle"
    BY DEF RunStep, FindFile, Claim, FetchObject, Extract, MarkReady, MarkFailed, At
  <2> QED
    BY <1>u, <2>1 DEF BeforeRow, SavesAsked
<1>2. Unclaimed'
  <2>1. SUFFICES ASSUME status' = "UPLOADING"
                 PROVE  Unclaimed'
    BY DEF Unclaimed
  <2>2. status = "UPLOADING" /\ UNCHANGED row
    BY <2>1 DEF RunStep, FindFile, Claim, FetchObject, Extract, MarkReady, MarkFailed,
                FailUnfinished, Write, row
  <2>3. run[w].pc \notin {"fetch", "extract", "ready", "fail"}
    BY <2>2 DEF Unclaimed
  <2>4. \E pc \in {"claim", "resolved", "rejected"} : To(w, pc)
    BY <2>1, <2>2, <2>3 DEF RunStep, FindFile, Claim, FetchObject, Extract, MarkReady, MarkFailed,
                            At, Write
  <2>5. \A v \in Worker : run'[v].pc = run[v].pc \/ run'[v].pc \in {"claim", "resolved", "rejected"}
    BY <2>4 DEF To, Typed, Run
  <2> QED
    BY <1>u, <2>2, <2>5 DEF Unclaimed, row
<1> QED
  BY <1>1, <1>2

LEMMA OrderlyQueue ==
    ASSUME Typed, Orderly, \/ \E w \in Worker : TakeJob(w) \/ EndRun(w)
                           \/ BackoffEnds \/ CheckStalled \/ ForgetJob \/ LoseLock \/ LoseQueue
    PROVE  Orderly'
<1> USE DEF Orderly
<1>1. UNCHANGED <<row, call>>
  BY DEF TakeJob, EndRun, BackoffEnds, CheckStalled, ForgetJob, LoseLock, LoseQueue
<1>2. \A v \in Worker : run'[v].pc \in {run[v].pc, "idle", "find"}
  <2>1. ASSUME NEW w \in Worker, NEW pc \in {"idle", "find"}, NEW made,
               run' = [run EXCEPT ![w] = [pc |-> pc, made |-> made]]
        PROVE  \A v \in Worker : run'[v].pc \in {run[v].pc, "idle", "find"}
    BY <2>1 DEF Typed
  <2>2. CASE UNCHANGED run
    BY <2>2
  <2> QED
    BY <2>1, <2>2 DEF TakeJob, EndRun, BackoffEnds, CheckStalled, ForgetJob, LoseLock, LoseQueue,
                      NoRun
<1>3. BeforeRow'
  <2>1. SUFFICES ASSUME call[Upload].pc \in {"store", "insert"}
                 PROVE  UNCHANGED <<job, run>>
    BY <1>1 DEF BeforeRow, row
  <2>2. job.state = "none" /\ job.by = NoWorker /\ \A w \in Worker : run[w].pc = "idle"
    BY <2>1 DEF BeforeRow, NoJob
  <2>3. ASSUME NEW w \in Worker, TakeJob(w) \/ EndRun(w)
        PROVE  FALSE
    BY <2>2, <2>3 DEF TakeJob, EndRun
  <2>4. ~(BackoffEnds \/ CheckStalled \/ ForgetJob \/ LoseLock \/ LoseQueue)
    BY <2>2 DEF BackoffEnds, CheckStalled, ForgetJob, LoseLock, LoseQueue
  <2> QED
    BY <2>3, <2>4
<1> QED
  BY <1>1, <1>2, <1>3 DEF Unclaimed, SavesAsked, row

LEMMA OrderlyNext == Typed /\ Orderly /\ [Next]_vars => Orderly'
<1> SUFFICES ASSUME Typed, Orderly, [Next]_vars
             PROVE  Orderly'
  OBVIOUS
<1>1. CASE GrowStale \/ UNCHANGED vars
  <2>1. UNCHANGED <<status, attempts, job, run, call>>
    BY <1>1 DEF GrowStale, vars
  <2> QED
    BY <2>1 DEF Orderly, BeforeRow, Unclaimed, SavesAsked
<1>2. CASE Crash
  <2>1. UNCHANGED <<status, attempts>> /\ \A w \in Worker : run'[w].pc = "idle"
    BY <1>2 DEF Crash, NoRun, row
  <2>2. \A c \in Caller : \/ call'[c] = call[c] /\ call[c].pc # "save"
                          \/ call'[c].pc \in {"idle", "done"} /\ call[c].pc # "idle"
    BY <1>2 DEF Crash
  <2>3. job = NoJob => job' = NoJob
    BY <1>2 DEF Crash, NoJob
  <2>4. Upload \in Caller /\ Sweep \in Caller
    BY DEF Caller
  <2>5. BeforeRow'
    BY <2>1, <2>2, <2>3, <2>4 DEF Orderly, BeforeRow
  <2>6. Unclaimed'
    BY <2>1, <2>2, <2>4 DEF Orderly, Unclaimed
  <2>7. SavesAsked'
    BY <2>2 DEF SavesAsked
  <2> QED
    BY <2>5, <2>6, <2>7 DEF Orderly
<1> QED
  BY <1>1, <1>2, OrderlyCall, OrderlyUpload, OrderlyDelete, OrderlyRun, OrderlyQueue DEF Next

\* What a step does to the status.
LEMMA StatusSteps ==
    ASSUME Typed, Orderly, [Next]_vars
    PROVE  \/ status' = status
           \/ status = "ABSENT" \/ status' = "ABSENT"
           \/ status' = "PROCESSING" /\ status \in Unfinished
           \/ status' = "PROCESSING" /\ \E c \in Asking : call[c].pc = "save" /\ call'[c].pc # "save"
           \/ status = "PROCESSING" /\ status' \in Finished
<1> USE DEF Orderly
<1>1. ASSUME NEW c \in Caller, SaveRow(c), status' # status
      PROVE  /\ status' = "PROCESSING"
             /\ \E b \in Asking : call[b].pc = "save" /\ call'[b].pc # "save"
  BY <1>1 DEF SaveRow, Write, Go, Typed, SavesAsked, row
<1>2. ASSUME NEW c \in Caller, CallStep(c) \/ QueueFails(c) \/ ReadRow(c), ~SaveRow(c),
             status' # status
      PROVE  status = "PROCESSING" /\ status' \in Finished
  BY <1>2 DEF CallStep, GetJob, GetState, RemoveJob, AddJob, TakeBack, QueueFails, ReadRow, Write,
              Finished, row
<1>3. ASSUME InsertRow, status' # status
      PROVE  status = "ABSENT"
  BY <1>3 DEF InsertRow, BeforeRow
<1>4. ASSUME NEW w \in Worker, MarkFailed(w), status' # status
      PROVE  status = "PROCESSING" /\ status' \in Finished
  BY <1>4 DEF MarkFailed, FailUnfinished, At, Write, Unfinished, Finished, Unclaimed, row
<1>5. ASSUME GiveUp, status' # status
      PROVE  status = "PROCESSING" /\ status' \in Finished
  BY <1>5 DEF GiveUp, FailUnfinished, Write, Unfinished, Finished, Unclaimed, row
<1>6. ASSUME NEW w \in Worker, RunStep(w), ~MarkFailed(w), status' # status
      PROVE  \/ status' = "PROCESSING" /\ status \in Unfinished
             \/ status = "PROCESSING" /\ status' \in Finished
  BY <1>6 DEF RunStep, FindFile, Claim, FetchObject, Extract, MarkReady, Write, Finished, row
<1>7. ASSUME NEW d \in Delete, FindToDelete(d) \/ DeleteRow(d) \/ DeleteObject(d), status' # status
      PROVE  status' = "ABSENT"
  BY <1>7 DEF FindToDelete, DeleteRow, DeleteObject, Write, row
<1> QED
  BY <1>1, <1>2, <1>3, <1>4, <1>5, <1>6, <1>7
  DEF Next, StoreObject, UndoObject, SweepRound, TakeJob, EndRun, BackoffEnds, CheckStalled,
      ForgetJob, LoseLock, LoseQueue, GrowStale, Crash, vars, row

\* The status moves along the diagram of file.entity.ts; and no run of the
\* worker, however late, takes a finished file back into processing.
THEOREM StatusFollowsDiagram == Spec => FollowsDiagram
<1>1. Typed /\ Orderly /\ [Next]_vars =>
        [/\ {status, status'} \subseteq Status /\ status' # status => <<status, status'>> \in Diagram
         /\ status \in Finished /\ status' = "PROCESSING" =>
               \E c \in Asking : call[c].pc = "save" /\ call'[c].pc # "save"]_vars
  <2> SUFFICES ASSUME Typed, Orderly, [Next]_vars
               PROVE  /\ {status, status'} \subseteq Status /\ status' # status =>
                            <<status, status'>> \in Diagram
                      /\ status \in Finished /\ status' = "PROCESSING" =>
                            \E c \in Asking : call[c].pc = "save" /\ call'[c].pc # "save"
    OBVIOUS
  <2> QED
    BY StatusSteps DEF Status, Finished, Unfinished, Diagram
<1>2. Spec => []Orderly
  BY OrderlyInit, OrderlyNext, TypedKept, PTL DEF Spec
<1> QED
  BY <1>1, <1>2, TypedKept, PTL DEF Spec, FollowsDiagram

LEMMA TextNext == ReadyHasText /\ [Next]_vars => ReadyHasText'
<1> SUFFICES ASSUME ReadyHasText, [Next]_vars
             PROVE  ReadyHasText'
  OBVIOUS
<1>1. CASE UNCHANGED row
  BY <1>1 DEF ReadyHasText, row
<1>2. ASSUME NEW s \in Status \cup {"ABSENT"}, NEW a, NEW t, Write(s, a, t), s = "READY" => t = TRUE
      PROVE  ReadyHasText'
  BY <1>2 DEF ReadyHasText, Write
<1>3. \/ UNCHANGED row
      \/ \E s \in Status \cup {"ABSENT"}, a \in {0, attempts, attempts + 1} :
            /\ s # "READY"
            /\ \E t \in {TRUE, FALSE, text} \cup {call[c].text : c \in Caller} : Write(s, a, t)
      \/ Write("READY", attempts, TRUE)
      \/ GrowStale
  BY DEF Next, CallStep, GetJob, GetState, RemoveJob, AddJob, SaveRow, TakeBack, QueueFails,
         ReadRow, StoreObject, InsertRow, UndoObject, SweepRound, GiveUp, FindToDelete,
         DeleteRow, DeleteObject, RunStep, FindFile, Claim, FetchObject, Extract, MarkReady,
         MarkFailed, FailUnfinished, TakeJob, EndRun, BackoffEnds, CheckStalled, ForgetJob,
         LoseLock, LoseQueue, Crash, Status, vars, row
<1>4. CASE GrowStale
  BY <1>4 DEF GrowStale, ReadyHasText
<1> QED
  BY <1>1, <1>2, <1>3, <1>4 DEF Status

\* READY implies the extracted text, although a retry writes back the text
\* it read and several runs may write the row.
THEOREM ReadyMeansText == Spec => []ReadyHasText
<1>1. Init => ReadyHasText
  BY DEF Init, ReadyHasText
<1> QED
  BY <1>1, TextNext, PTL DEF Spec

=============================================================================
