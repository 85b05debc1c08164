---------------------------- MODULE FilePipeline ----------------------------
(***************************************************************************)
(* One uploaded file: FilesService (upload, retry, reprocess, delete),     *)
(* FileProcessingService (the worker's run and the orphan sweeper) and     *)
(* FileQueueService, over a row of PostgreSQL, an object in MinIO and a    *)
(* BullMQ job whose id is the file's.                                      *)
(*                                                                         *)
(* Every await is a point where the others may step in. TypeORM's save     *)
(* writes the entity that was read over the row that is there, and inserts *)
(* it if there is none.                                                    *)
(***************************************************************************)
EXTENDS Integers, FiniteSets

CONSTANTS
    Worker,       \* concurrent runs of the processor
    Upload,       \* the request that uploads the file
    Sweep,        \* the sweeper's timer; its rounds do not overlap
    Retry,        \* POST /files/:id/retry requests of the owner
    Reprocess,    \* POST /admin/files/:id/reprocess requests
    Delete,       \* DELETE /files/:id requests
    NoWorker,
    MaxAttempts,  \* attempts of a job, and claims after which the sweeper gives up
    MaxFault      \* bound: failed calls, lost locks, lost queues and restarts

Asking == Retry \cup Reprocess
Caller == {Upload, Sweep} \cup Asking

ASSUME FilesAssumption ==
    /\ Upload # Sweep
    /\ {Upload, Sweep} \cap Asking = {}
    /\ Retry \cap Reprocess = {}
    /\ NoWorker \notin Worker
    /\ MaxAttempts \in Nat \ {0}
    /\ MaxFault \in Nat

VARIABLES
    status,    \* files.status, ABSENT while there is no row
    attempts,  \* files.attempts
    text,      \* files.extractedText is set
    stale,     \* files.updatedAt is older than the sweeper's cutoff
    object,    \* the object is stored
    job,       \* the job with the file's id: its state, lock, failures and stalls
    run,       \* the runs of processFile
    call,      \* the callers of enqueueProcessing, and what they read of the row
    delete,    \* the deletions in flight
    faults

vars == <<status, attempts, text, stale, object, job, run, call, delete, faults>>
row == <<status, attempts, text, stale>>

Status == {"UPLOADING", "PROCESSING", "READY", "FAILED"}
Unfinished == {"UPLOADING", "PROCESSING"}
Finished == {"READY", "FAILED"}
NoJob == [state |-> "none", by |-> NoWorker, made |-> 0, stalls |-> 0]
NoRun == [pc |-> "idle", made |-> 0]

Init ==
    /\ status = "ABSENT" /\ attempts = 0 /\ text = FALSE /\ stale = FALSE
    /\ object = FALSE
    /\ job = NoJob
    /\ run = [w \in Worker |-> NoRun]
    /\ call = [c \in Caller |-> [pc |-> IF c = Upload THEN "store" ELSE "idle", text |-> FALSE]]
    /\ delete = [d \in Delete |-> "idle"]
    /\ faults = 0

Fault == faults < MaxFault /\ faults' = faults + 1

\* A write to the row.
Write(s, a, t) == status' = s /\ attempts' = a /\ text' = t /\ stale' = FALSE

Go(c, pc) == call' = [call EXCEPT ![c] = [pc |-> pc, text |-> FALSE]]
Return(c) == Go(c, IF c = Sweep THEN "idle" ELSE "done")

-----------------------------------------------------------------------------
(* FileQueueService.enqueueProcessing. *)

\* Is there a job with this id?
GetJob(c) ==
    /\ call[c].pc = "getJob"
    /\ Go(c, IF job.state = "none" THEN "add" ELSE "getState")
    /\ UNCHANGED <<row, object, job, run, delete, faults>>

\* A job that ended would hide the new one; a live one covers the file.
GetState(c) ==
    /\ call[c].pc = "getState"
    /\ IF job.state \in {"completed", "failed"} THEN Go(c, "remove") ELSE Return(c)
    /\ UNCHANGED <<row, object, job, run, delete, faults>>

\* Mutant of RemoveJob: a locked job is removed as well.
RemoveAnyJob(c) ==
    /\ call[c].pc = "remove"
    /\ job' = NoJob
    /\ Go(c, "add")
    /\ UNCHANGED <<row, object, run, delete, faults>>

\* A job that is locked cannot be removed; no failure to remove is noticed.
RemoveJob(c) ==
    /\ call[c].pc = "remove"
    /\ \/ job' = (IF job.by = NoWorker THEN NoJob ELSE job) /\ UNCHANGED faults
       \/ Fault /\ UNCHANGED job
    /\ Go(c, "add")
    /\ UNCHANGED <<row, object, run, delete>>

\* An id that is taken makes the queue ignore the new job.
AddJob(c) ==
    /\ call[c].pc = "add"
    /\ job' = IF job.state = "none" THEN [NoJob EXCEPT !.state = "waiting"] ELSE job
    /\ Return(c)
    /\ UNCHANGED <<row, object, run, delete, faults>>

\* The queue is out of reach. Upload and sweep go on without it, a reprocess
\* is answered with an error, a retry takes its change back.
QueueFails(c) ==
    /\ call[c].pc \in {"getJob", "getState", "add"}
    /\ Fault
    /\ IF c \in Retry THEN Go(c, "takeBack") ELSE Return(c)
    /\ UNCHANGED <<row, object, job, run, delete>>

-----------------------------------------------------------------------------
(* FilesService. *)

StoreObject ==
    /\ call[Upload].pc = "store"
    /\ \/ object' = TRUE /\ Go(Upload, "insert") /\ UNCHANGED faults
       \/ Fault /\ Return(Upload) /\ UNCHANGED object
    /\ UNCHANGED <<row, job, run, delete>>

\* Mutant of InsertRow: the object of a refused row is kept.
InsertRowOnly ==
    /\ call[Upload].pc = "insert"
    /\ \/ Write("UPLOADING", 0, FALSE) /\ Go(Upload, "getJob")
       \/ UNCHANGED row /\ Return(Upload)
    /\ UNCHANGED <<object, job, run, delete, faults>>

\* The insert may be refused; the code makes up for that by itself, so it does
\* not count as a fault.
InsertRow ==
    /\ call[Upload].pc = "insert"
    /\ \/ Write("UPLOADING", 0, FALSE) /\ Go(Upload, "getJob")
       \/ UNCHANGED row /\ Go(Upload, "undo")
    /\ UNCHANGED <<object, job, run, delete, faults>>

UndoObject ==
    /\ call[Upload].pc = "undo"
    /\ \/ object' = FALSE /\ UNCHANGED faults
       \/ Fault /\ UNCHANGED object
    /\ Return(Upload)
    /\ UNCHANGED <<row, job, run, delete>>

\* retryProcessing and reprocess: the row is read ...
ReadRow(c) ==
    /\ c \in Asking
    /\ call[c].pc = "idle"
    /\ status \in IF c \in Reprocess THEN Finished ELSE {"FAILED"}
    /\ call' = [call EXCEPT ![c] = [pc |-> "save", text |-> text]]
    /\ UNCHANGED <<row, object, job, run, delete, faults>>

\* ... and the entity saved, with a fresh budget of attempts.
SaveRow(c) ==
    /\ call[c].pc = "save"
    /\ \/ Write("PROCESSING", 0, call[c].text) /\ Go(c, "getJob") /\ UNCHANGED faults
       \/ Fault /\ UNCHANGED row /\ Return(c)
    /\ UNCHANGED <<object, job, run, delete>>

TakeBack(c) ==
    /\ call[c].pc = "takeBack"
    /\ \/ /\ IF status = "PROCESSING" THEN Write("FAILED", attempts, text) ELSE UNCHANGED row
          /\ UNCHANGED faults
       \/ Fault /\ UNCHANGED row
    /\ Return(c)
    /\ UNCHANGED <<object, job, run, delete>>

\* deleteOwned of a file that no message uses: found, then its row removed,
\* then its object, as far as that succeeds.
FindToDelete(d) ==
    /\ delete[d] = "idle"
    /\ status # "ABSENT"
    /\ delete' = [delete EXCEPT ![d] = "row"]
    /\ UNCHANGED <<row, object, job, run, call, faults>>

DeleteRow(d) ==
    /\ delete[d] = "row"
    /\ \/ /\ Write("ABSENT", 0, FALSE)
          /\ delete' = [delete EXCEPT ![d] = "object"]
          /\ UNCHANGED faults
       \/ Fault /\ UNCHANGED row /\ delete' = [delete EXCEPT ![d] = "done"]
    /\ UNCHANGED <<object, job, run, call>>

DeleteObject(d) ==
    /\ delete[d] = "object"
    /\ \/ object' = FALSE /\ UNCHANGED faults
       \/ Fault /\ UNCHANGED object
    /\ delete' = [delete EXCEPT ![d] = "done"]
    /\ UNCHANGED <<row, job, run, call>>

-----------------------------------------------------------------------------
(* FileProcessingService.processFile. *)

At(w, pc) == run[w].pc = pc
To(w, pc) == run' = [run EXCEPT ![w].pc = pc]

\* What is not a permanent failure is left to the queue, until the last attempt.
Transient(w) == IF run[w].made + 1 >= MaxAttempts THEN "fail" ELSE "rejected"

\* A finished or deleted file is not processed.
FindFile(w) ==
    /\ At(w, "find")
    /\ \/ To(w, IF status \in Unfinished THEN "claim" ELSE "resolved") /\ UNCHANGED faults
       \/ Fault /\ To(w, "rejected")
    /\ UNCHANGED <<row, object, job, call, delete>>

\* Mutant of Claim: the status found by FindFile is trusted.
ClaimUnchecked(w) ==
    /\ At(w, "claim")
    /\ IF status # "ABSENT"
       THEN Write("PROCESSING", attempts + 1, text) /\ To(w, "fetch")
       ELSE UNCHANGED row /\ To(w, "resolved")
    /\ UNCHANGED <<object, job, call, delete, faults>>

Claim(w) ==
    /\ At(w, "claim")
    /\ \/ /\ status \in Unfinished
          /\ Write("PROCESSING", attempts + 1, text)
          /\ To(w, "fetch")
          /\ UNCHANGED faults
       \/ status \notin Unfinished /\ To(w, "resolved") /\ UNCHANGED <<row, faults>>
       \/ Fault /\ To(w, "rejected") /\ UNCHANGED row
    /\ UNCHANGED <<object, job, call, delete>>

FetchObject(w) ==
    /\ At(w, "fetch")
    /\ \/ To(w, IF object THEN "extract" ELSE Transient(w)) /\ UNCHANGED faults
       \/ Fault /\ To(w, Transient(w))
    /\ UNCHANGED <<row, object, job, call, delete>>

\* The text, a permanent failure, or a failure (of the time limit, too) that
\* another attempt may not meet.
Extract(w) ==
    /\ At(w, "extract")
    /\ \E pc \in {"ready", "fail", Transient(w)} : To(w, pc)
    /\ UNCHANGED <<row, object, job, call, delete, faults>>

\* Mutant of MarkReady: status first, text later.
MarkReadyEarly(w) ==
    /\ At(w, "ready")
    /\ IF status = "PROCESSING" THEN Write("READY", attempts, FALSE) ELSE UNCHANGED row
    /\ To(w, "resolved")
    /\ UNCHANGED <<object, job, call, delete, faults>>

MarkReady(w) ==
    /\ At(w, "ready")
    /\ \/ /\ IF status = "PROCESSING" THEN Write("READY", attempts, TRUE) ELSE UNCHANGED row
          /\ To(w, "resolved")
          /\ UNCHANGED faults
       \/ Fault /\ To(w, Transient(w)) /\ UNCHANGED row
    /\ UNCHANGED <<object, job, call, delete>>

FailUnfinished == IF status \in Unfinished THEN Write("FAILED", attempts, text) ELSE UNCHANGED row

MarkFailed(w) ==
    /\ At(w, "fail")
    /\ \/ FailUnfinished /\ To(w, "resolved") /\ UNCHANGED faults
       \/ Fault /\ To(w, "rejected") /\ UNCHANGED row
    /\ UNCHANGED <<object, job, call, delete>>

RunStep(w) ==
    FindFile(w) \/ Claim(w) \/ FetchObject(w) \/ Extract(w) \/ MarkReady(w) \/ MarkFailed(w)

-----------------------------------------------------------------------------
(* BullMQ, as the processor meets it. *)

Ended(state) == [NoJob EXCEPT !.state = state]

TakeJob(w) ==
    /\ job.state = "waiting"
    /\ At(w, "idle")
    /\ job' = [job EXCEPT !.state = "active", !.by = w]
    /\ run' = [run EXCEPT ![w] = [pc |-> "find", made |-> job.made]]
    /\ UNCHANGED <<row, object, call, delete, faults>>

\* Mutant of EndRun: tried again without end.
EndRunAgain(w) ==
    /\ run[w].pc \in {"resolved", "rejected"}
    /\ run' = [run EXCEPT ![w] = NoRun]
    /\ job' = IF job.by # w THEN job
              ELSE IF At(w, "resolved") THEN Ended("completed")
              ELSE [job EXCEPT !.state = "delayed", !.by = NoWorker, !.made = @ + 1]
    /\ UNCHANGED <<row, object, call, delete, faults>>

\* The run has returned or thrown; if it still holds the job's lock, the job
\* is completed, or waits to be tried again, or has failed.
EndRun(w) ==
    /\ run[w].pc \in {"resolved", "rejected"}
    /\ run' = [run EXCEPT ![w] = NoRun]
    /\ job' = IF job.by # w THEN job
              ELSE IF At(w, "resolved") THEN Ended("completed")
              ELSE IF job.made + 1 < MaxAttempts
                   THEN [job EXCEPT !.state = "delayed", !.by = NoWorker, !.made = @ + 1]
              ELSE Ended("failed")
    /\ UNCHANGED <<row, object, call, delete, faults>>

BackoffEnds ==
    /\ job.state = "delayed"
    /\ job' = [job EXCEPT !.state = "waiting"]
    /\ UNCHANGED <<row, object, run, call, delete, faults>>

\* An active job without a lock is tried once more.
CheckStalled ==
    /\ job.state = "active"
    /\ job.by = NoWorker
    /\ job' = IF job.stalls = 0 THEN [job EXCEPT !.state = "waiting", !.stalls = 1]
              ELSE Ended("failed")
    /\ UNCHANGED <<row, object, run, call, delete, faults>>

\* Ended jobs are kept for a while.
ForgetJob ==
    /\ job.state \in {"completed", "failed"}
    /\ job' = NoJob
    /\ UNCHANGED <<row, object, run, call, delete, faults>>

\* A lock that was not renewed in time, and a queue that lost its data.
LoseLock ==
    /\ job.by # NoWorker
    /\ Fault
    /\ job' = [job EXCEPT !.by = NoWorker]
    /\ UNCHANGED <<row, object, run, call, delete>>

LoseQueue ==
    /\ job.state # "none"
    /\ Fault
    /\ job' = NoJob
    /\ UNCHANGED <<row, object, run, call, delete>>

-----------------------------------------------------------------------------
(* FileProcessingService.sweepOrphans. *)

\* Time: ten minutes without a write, or two for an upload. An extraction is
\* cut off earlier.
GrowStale ==
    /\ status \in Unfinished
    /\ ~stale
    /\ \A w \in Worker : ~At(w, "extract")
    /\ stale' = TRUE
    /\ UNCHANGED <<status, attempts, text, object, job, run, call, delete, faults>>

\* Mutant of SweepRound: only rows that no worker has claimed.
SweepUploads ==
    /\ call[Sweep].pc = "idle"
    /\ stale /\ status = "UPLOADING"
    /\ Go(Sweep, "getJob")
    /\ UNCHANGED <<row, object, job, run, delete, faults>>

SweepRound ==
    /\ call[Sweep].pc = "idle"
    /\ stale /\ status \in Unfinished
    /\ Go(Sweep, IF attempts >= MaxAttempts THEN "giveUp" ELSE "getJob")
    /\ UNCHANGED <<row, object, job, run, delete, faults>>

GiveUp ==
    /\ call[Sweep].pc = "giveUp"
    /\ \/ FailUnfinished /\ UNCHANGED faults
       \/ Fault /\ UNCHANGED row
    /\ Return(Sweep)
    /\ UNCHANGED <<object, job, run, delete>>

-----------------------------------------------------------------------------
\* The process dies. Rows, objects and the queue stay; so does the job's lock,
\* until it runs out.
Crash ==
    /\ Fault
    /\ run' = [w \in Worker |-> NoRun]
    /\ job' = [job EXCEPT !.by = NoWorker]
    /\ call' = [c \in Caller |->
                  IF call[c].pc \in {"idle", "store", "done"} THEN call[c]
                  ELSE [pc |-> IF c = Sweep THEN "idle" ELSE "done", text |-> FALSE]]
    /\ delete' = [d \in Delete |-> IF delete[d] = "idle" THEN "idle" ELSE "done"]
    /\ UNCHANGED <<row, object>>

CallStep(c) ==
    GetJob(c) \/ GetState(c) \/ RemoveJob(c) \/ AddJob(c) \/ SaveRow(c) \/ TakeBack(c)

Next ==
    \/ StoreObject \/ InsertRow \/ UndoObject
    \/ \E c \in Caller : CallStep(c) \/ QueueFails(c) \/ ReadRow(c)
    \/ \E d \in Delete : FindToDelete(d) \/ DeleteRow(d) \/ DeleteObject(d)
    \/ \E w \in Worker : TakeJob(w) \/ RunStep(w) \/ EndRun(w)
    \/ BackoffEnds \/ CheckStalled \/ ForgetJob \/ LoseLock \/ LoseQueue
    \/ GrowStale \/ SweepRound \/ GiveUp
    \/ Crash

\* The event loop runs every continuation, the queue hands out its jobs and
\* the sweeper's timer fires; users do as they like.
Fairness ==
    /\ \A w \in Worker : WF_vars(TakeJob(w)) /\ WF_vars(RunStep(w)) /\ WF_vars(EndRun(w))
    /\ \A c \in Caller : WF_vars(CallStep(c))
    /\ WF_vars(BackoffEnds) /\ WF_vars(CheckStalled)
    /\ WF_vars(GrowStale) /\ WF_vars(SweepRound) /\ WF_vars(GiveUp)

Spec == Init /\ [][Next]_vars
FairSpec == Spec /\ Fairness

-----------------------------------------------------------------------------
(* Correctness. *)

\* Every variable holds a value of the shape the code gives it.
TypeOK ==
    /\ status \in Status \cup {"ABSENT"}
    /\ attempts \in Nat
    /\ {text, stale, object} \subseteq BOOLEAN
    /\ job \in [state : {"none", "waiting", "active", "delayed", "completed", "failed"},
                by : Worker \cup {NoWorker}, made : 0..MaxAttempts - 1, stalls : 0..1]
    /\ run \in [Worker -> [pc : {"idle", "find", "claim", "fetch", "extract", "ready", "fail",
                                 "resolved", "rejected"},
                           made : 0..MaxAttempts - 1]]
    /\ call \in [Caller -> [pc : {"idle", "store", "insert", "undo", "save", "getJob", "getState",
                                  "remove", "add", "takeBack", "giveUp", "done"},
                            text : BOOLEAN]]
    /\ delete \in [Delete -> {"idle", "row", "object", "done"}]
    /\ faults \in 0..MaxFault

\* READY means processed, although requests save what they read earlier.
ReadyHasText == status = "READY" => text

\* The diagram of file.entity.ts; and a finished file, which a duplicate or
\* late run may still have in its hands, is processed again only because
\* somebody asked for it.
Diagram == {<<"UPLOADING", "PROCESSING">>, <<"PROCESSING", "READY">>, <<"PROCESSING", "FAILED">>,
            <<"READY", "PROCESSING">>, <<"FAILED", "PROCESSING">>}

FollowsDiagram ==
    [][/\ {status, status'} \subseteq Status /\ status' # status => <<status, status'>> \in Diagram
       /\ status \in Finished /\ status' = "PROCESSING" =>
             \E c \in Asking : call[c].pc = "save" /\ call'[c].pc # "save"]_vars

\* Removing an ended job and adding the new one, from several callers, never
\* has the file processed twice at once: for every run besides the one that
\* holds the job, something has failed.
OneRun == Cardinality({w \in Worker : run[w].pc # "idle"}) <= 1 + faults

\* An upload that was refused and a deletion leave no object behind, unless
\* something failed.
NoOrphanObject ==
    faults = 0 /\ object /\ status = "ABSENT" =>
        call[Upload].pc \in {"insert", "undo"} \/ \E d \in Delete : delete[d] = "object"

\* Whatever happened to its job, a file does not stay unfinished.
FileSettles == status \in Unfinished ~> status \notin Unfinished
=============================================================================
