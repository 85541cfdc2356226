------------------------------ MODULE JobQueue ------------------------------
(***************************************************************************)
(* The durable background-job queue: rows of background_jobs, the workers  *)
(* that lease them in batches, and everybody else who writes a row.        *)
(*                                                                         *)
(*   background_jobs.py                       enqueue, _mark_done,         *)
(*                                            _mark_retry                  *)
(*   background_job_execution_scope.py        the claim, the scope check   *)
(*   background_job_transaction_boundary.py   one attempt: refresh, scope, *)
(*                                            heartbeat, run, ownership    *)
(*                                            check, commit, recovery      *)
(*   api/admin_queue.py                       requeue of a dead job        *)
(*   processing_purpose_enforcement.py        a data-subject restriction   *)
(*                                                                         *)
(* These are the job types of the "background" queue, for which            *)
(* finalize_dead_webchat_ai_job returns at once.  Every action is one      *)
(* database transaction or one step between two transactions; time is      *)
(* abstracted to "the lease is still live" and "next_run_at is due".       *)
(***************************************************************************)
EXTENDS Integers, FiniteSets

CONSTANTS
    Jobs,           \* row ids; the claim serves the smallest first
    Workers,        \* worker processes
    Tokens,         \* lease tokens, naturals
    KeyOf,          \* the dedupe_key each row is enqueued with
    Executable,     \* rows whose scope envelope resolved when they were inserted
    MaxAttempts,    \* max_attempts of every row
    BatchLimit,     \* rows one dispatch call may claim
    MaxFaults,      \* bound: crashes, stalls and failed commits in a behaviour
    MaxRequeues     \* bound: admin requeues in a behaviour

ASSUME JobsAssumption == Jobs \subseteq Nat
ASSUME ExecutableAssumption == Executable \subseteq Jobs
ASSUME WorkersAssumption == IsFiniteSet(Workers)
ASSUME TokensAssumption == Tokens \subseteq Nat \ {0}
ASSUME BoundsAssumption ==
    /\ MaxAttempts \in Nat \ {0}
    /\ BatchLimit \in Nat \ {0}
    /\ MaxFaults \in Nat
    /\ MaxRequeues \in Nat

VARIABLES
    job,        \* job[j]: the committed row
    blocked,    \* rows whose scope or customer restriction refuses execution
    pc,         \* where each worker is in its dispatch call
    tok,        \* the token of the worker's current dispatch call
    batch,      \* rows it claimed and has not begun
    cur,        \* the row it is working on, as a set of at most one id
    loaded,     \* attempt_count of the rows in its session
    result,     \* what its session will write to the row of cur
    hb,         \* is the heartbeat thread renewing the lease of cur?
    faults,     \* faults so far
    requeues,   \* requeues so far
    runs,       \* history: handler executions of a row since it was (re)queued
    overtaken   \* history: rows claimed from a worker between check and commit

rowVars == <<job, blocked>>
workerVars == <<pc, tok, batch, cur, loaded, result, hb>>
vars == <<job, blocked, pc, tok, batch, cur, loaded, result, hb, faults, requeues, runs,
          overtaken>>

Statuses == {"absent", "pending", "processing", "done", "dead"}
Active == {"pending", "processing"}
Results == {"none", "done", "retry", "reject"}

\* locked_by IS NULL
NoToken == 0

Row == [status   : Statuses,
        attempts : Nat,
        due      : BOOLEAN,              \* next_run_at IS NULL OR next_run_at <= now
        token    : Tokens \cup {NoToken},\* locked_by
        live     : BOOLEAN]              \* locked_at within job_lock_seconds

NoRow == [status |-> "absent", attempts |-> 0, due |-> TRUE,
          token |-> NoToken, live |-> FALSE]

NothingLoaded == [j \in Jobs |-> 0]

Init ==
    /\ job = [j \in Jobs |-> NoRow]
    /\ blocked = {}
    /\ pc = [w \in Workers |-> "idle"]
    /\ tok = [w \in Workers |-> NoToken]
    /\ batch = [w \in Workers |-> {}]
    /\ cur = [w \in Workers |-> {}]
    /\ loaded = [w \in Workers |-> NothingLoaded]
    /\ result = [w \in Workers |-> "none"]
    /\ hb = [w \in Workers |-> FALSE]
    /\ faults = 0
    /\ requeues = 0
    /\ runs = [j \in Jobs |-> 0]
    /\ overtaken = {}

-----------------------------------------------------------------------------
(* The rows. *)

\* Mutant of KeyFree: an index over pending rows only.
KeyFreeAmongPending(j) ==
    \A i \in Jobs \ {j} : KeyOf[i] = KeyOf[j] => job[i].status # "pending"

\* uq_background_jobs_active_dedupe_key: at most one active row per key.
KeyFree(j) ==
    \A i \in Jobs \ {j} : KeyOf[i] = KeyOf[j] => job[i].status \notin Active

Unlocked(r) == [r EXCEPT !.token = NoToken, !.live = FALSE]

\* Mutant of MarkDone: a status the enumeration does not have.
MarkCompleted(r) == [Unlocked(r) EXCEPT !.status = "completed", !.due = TRUE]

\* _mark_done
MarkDone(r) == [Unlocked(r) EXCEPT !.status = "done", !.due = TRUE]

\* Mutant of MarkRetry: one attempt too many.
MarkRetryOffByOne(r, n) ==
    LET exhausted == n + 1 > MaxAttempts
    IN  [Unlocked(r) EXCEPT !.attempts = n + 1,
                            !.status = IF exhausted THEN "dead" ELSE "pending",
                            !.due = exhausted]

\* _mark_retry on a row whose attempt_count was n when the session read it.
MarkRetry(r, n) ==
    LET exhausted == n + 1 >= MaxAttempts
    IN  [Unlocked(r) EXCEPT !.attempts = n + 1,
                            !.status = IF exhausted THEN "dead" ELSE "pending",
                            !.due = exhausted]

\* The row as _reject_execution_scope leaves it.
MarkRejected(r) == [Unlocked(r) EXCEPT !.status = "dead", !.due = TRUE]

\* A handler schedules work.  An active row with the key is returned instead
\* (no step), by the query or after the unique index refused the insert.
enqueue_background_job(j) ==
    /\ job[j].status = "absent"
    /\ KeyFree(j)
    /\ \E due \in BOOLEAN :
         job' = [job EXCEPT ![j] = [NoRow EXCEPT !.status = "pending", !.due = due]]
    /\ UNCHANGED <<blocked, workerVars, faults, requeues, runs, overtaken>>

\* An administrator requeues a dead row; the index refuses it while another
\* row with the key is active.
requeue_dead_job(j) ==
    /\ requeues < MaxRequeues
    /\ job[j].status = "dead"
    /\ KeyFree(j)
    /\ job' = [job EXCEPT ![j] =
                  [Unlocked(@) EXCEPT !.status = "pending", !.attempts = 0, !.due = TRUE]]
    /\ requeues' = requeues + 1
    /\ runs' = [runs EXCEPT ![j] = 0]
    /\ UNCHANGED <<blocked, workerVars, faults, overtaken>>

\* The customer's processing is restricted: pending rows die at once, later
\* attempts are refused by the scope check.
restrict_processing(j) ==
    /\ job[j].status # "absent"
    /\ j \notin blocked
    /\ blocked' = blocked \cup {j}
    /\ job' = [job EXCEPT ![j] = IF @.status = "pending" THEN MarkRejected(@) ELSE @]
    /\ UNCHANGED <<workerVars, faults, requeues, runs, overtaken>>

BackoffElapses(j) ==
    /\ job[j].status = "pending"
    /\ ~job[j].due
    /\ job' = [job EXCEPT ![j].due = TRUE]
    /\ UNCHANGED <<blocked, workerVars, faults, requeues, runs, overtaken>>

-----------------------------------------------------------------------------
(* Leases. *)

Owns(w, j) == job[j].status = "processing" /\ job[j].token = tok[w]

Held(w) == batch[w] \cup cur[w]

Holders(j) == {w \in Workers : j \in Held(w) /\ Owns(w, j)}

\* Past the ownership check, before the commit it licenses.
Committing(w) == pc[w] \in {"checked", "recovered", "rejecting"}

\* Nobody renews the lease of a row whose worker is gone.
LeaseExpires(j) ==
    /\ job[j].status = "processing"
    /\ job[j].live
    /\ Holders(j) = {}
    /\ job' = [job EXCEPT ![j].live = FALSE]
    /\ UNCHANGED <<blocked, workerVars, faults, requeues, runs, overtaken>>

\* The worker is alive but too slow, and no heartbeat covers the row.
LeaseExpiresUnderWorker(w, j) ==
    /\ faults < MaxFaults
    /\ job[j].live
    /\ w \in Holders(j)
    /\ ~(j \in cur[w] /\ hb[w])
    /\ job' = [job EXCEPT ![j].live = FALSE]
    /\ faults' = faults + 1
    /\ UNCHANGED <<blocked, workerVars, requeues, runs, overtaken>>

\* The heartbeat thread ends: its update matched no row, or it raised.
HeartbeatStops(w) ==
    /\ hb[w]
    /\ hb' = [hb EXCEPT ![w] = FALSE]
    /\ UNCHANGED <<rowVars, pc, tok, batch, cur, loaded, result, faults, requeues, runs, overtaken>>

\* Mutant of Claimable: a leased row is taken although its lease is live.
ClaimableThoughLive(j) ==
    /\ j \in Executable
    /\ \/ job[j].status = "pending" /\ job[j].due
       \/ job[j].status = "processing"

\* Mutant of Claimable: expired leases are never taken over.
ClaimablePendingOnly(j) ==
    j \in Executable /\ job[j].status = "pending" /\ job[j].due

\* executable_background_job_scope_filter and _pending_filters: the stored
\* envelope is executable, and the row is pending and due or leased by
\* somebody whose lease ran out.
Claimable(j) ==
    /\ j \in Executable
    /\ \/ job[j].status = "pending" /\ job[j].due
       \/ job[j].status = "processing" /\ ~job[j].live

\* The worker of j has passed the ownership check and not committed yet.
InWindow(j) == \E w \in Holders(j) : j \in cur[w] /\ Committing(w)

\* The first n rows in claim order.
Oldest(S, n) == {j \in S : Cardinality({i \in S : i < j}) < n}

TokenInUse(t) == (\E w \in Workers : tok[w] = t) \/ (\E j \in Jobs : job[j].token = t)

\* _claim_token: a token nobody holds is as good as a fresh uuid.
FreshToken(t) == ~TokenInUse(t) /\ \A u \in Tokens : u < t => TokenInUse(u)

claim_executable_background_jobs(w) ==
    /\ pc[w] = "idle"
    /\ \E t \in Tokens :
         LET claimed == Oldest({j \in Jobs : Claimable(j)}, BatchLimit)
         IN  /\ FreshToken(t)
             /\ claimed # {}
             /\ job' = [j \in Jobs |->
                          IF j \in claimed
                          THEN [job[j] EXCEPT !.status = "processing", !.token = t, !.live = TRUE]
                          ELSE job[j]]
             /\ tok' = [tok EXCEPT ![w] = t]
             /\ batch' = [batch EXCEPT ![w] = claimed]
             /\ loaded' = [loaded EXCEPT ![w] = [j \in Jobs |-> IF j \in claimed THEN job[j].attempts ELSE 0]]
             /\ overtaken' = overtaken \cup {j \in claimed : InWindow(j)}
    /\ pc' = [pc EXCEPT ![w] = "batch"]
    /\ UNCHANGED <<blocked, cur, result, hb, faults, requeues, runs>>

-----------------------------------------------------------------------------
(* One attempt: _process_claimed_jobs_with_attempt_boundary. *)

\* The worker is through with cur: on to the rest of its batch, or idle.
Proceed(w, rest) ==
    /\ pc' = [pc EXCEPT ![w] = IF rest = {} THEN "idle" ELSE "batch"]
    /\ tok' = [tok EXCEPT ![w] = IF rest = {} THEN NoToken ELSE @]
    /\ batch' = [batch EXCEPT ![w] = rest]
    /\ cur' = [cur EXCEPT ![w] = {}]
    /\ result' = [result EXCEPT ![w] = "none"]
    /\ hb' = [hb EXCEPT ![w] = FALSE]
    /\ loaded' = [loaded EXCEPT ![w] = IF rest = {} THEN NothingLoaded ELSE @]

\* Its dispatch call ends here, whatever is left of the batch.
Abandon(w) == Proceed(w, {})

\* _refresh_job_lease on the next row of the batch.
RefreshLease(w) ==
    /\ pc[w] = "batch"
    /\ \E j \in batch[w] :
         /\ \A i \in batch[w] : j <= i
         /\ IF Owns(w, j)
            THEN /\ job' = [job EXCEPT ![j].live = TRUE]
                 /\ pc' = [pc EXCEPT ![w] = "leased"]
                 /\ cur' = [cur EXCEPT ![w] = {j}]
                 /\ batch' = [batch EXCEPT ![w] = @ \ {j}]
                 /\ UNCHANGED <<tok, loaded, result, hb>>
            ELSE Proceed(w, batch[w] \ {j}) /\ UNCHANGED job
    /\ UNCHANGED <<blocked, faults, requeues, runs, overtaken>>

\* require_executable_background_job_scope refuses: _reject_execution_scope
\* checks the lease before it kills the row.
RefuseScope(w) ==
    /\ pc[w] = "leased"
    /\ \E j \in cur[w] :
         /\ j \in blocked
         /\ IF Owns(w, j)
            THEN /\ pc' = [pc EXCEPT ![w] = "rejecting"]
                 /\ result' = [result EXCEPT ![w] = "reject"]
                 /\ UNCHANGED <<tok, batch, cur, loaded, hb>>
            ELSE Proceed(w, batch[w])
    /\ UNCHANGED <<rowVars, faults, requeues, runs, overtaken>>

\* The heartbeat starts and the handler runs, with its external effects.
StartAttempt(w) ==
    /\ pc[w] = "leased"
    /\ \E j \in cur[w] :
         /\ j \notin blocked
         /\ runs' = [runs EXCEPT ![j] = @ + 1]
    /\ pc' = [pc EXCEPT ![w] = "running"]
    /\ hb' = [hb EXCEPT ![w] = TRUE]
    /\ UNCHANGED <<rowVars, tok, batch, cur, loaded, result, faults, requeues, overtaken>>

\* process_background_job returns with the row marked in the session only.
process_background_job(w) ==
    /\ pc[w] = "running"
    /\ \E r \in {"done", "retry"} : result' = [result EXCEPT ![w] = r]
    /\ pc' = [pc EXCEPT ![w] = "finished"]
    /\ hb' = [hb EXCEPT ![w] = FALSE]
    /\ UNCHANGED <<rowVars, tok, batch, cur, loaded, faults, requeues, runs, overtaken>>

\* Mutant of CheckOwnership: every finished attempt goes on to its commit.
CheckNothing(w) ==
    /\ pc[w] = "finished"
    /\ pc' = [pc EXCEPT ![w] = "checked"]
    /\ UNCHANGED <<rowVars, tok, batch, cur, loaded, result, hb, faults, requeues, runs, overtaken>>

\* _owns_job_lease, read on a connection of its own; a stale attempt is
\* rolled back.
CheckOwnership(w) ==
    /\ pc[w] = "finished"
    /\ \E j \in cur[w] :
         IF Owns(w, j)
         THEN /\ pc' = [pc EXCEPT ![w] = "checked"]
              /\ UNCHANGED <<tok, batch, cur, loaded, result, hb>>
         ELSE Proceed(w, batch[w])
    /\ UNCHANGED <<rowVars, faults, requeues, runs, overtaken>>

\* What the session writes: the UPDATE selects by primary key alone.
Written(w, j) ==
    CASE result[w] = "done"   -> MarkDone(job[j])
      [] result[w] = "retry"  -> MarkRetry(job[j], loaded[w][j])
      [] result[w] = "reject" -> MarkRejected(job[j])

\* A row may not become active beside another active row with its key.
WriteAllowed(w, j) == Written(w, j).status \in Active => KeyFree(j)

Commit(w) ==
    /\ Committing(w)
    /\ \E j \in cur[w] :
         /\ WriteAllowed(w, j)
         /\ job' = [job EXCEPT ![j] = Written(w, j)]
    /\ Proceed(w, batch[w])
    /\ UNCHANGED <<blocked, faults, requeues, runs, overtaken>>

\* The commit raises.  Inside the try block the exception is recovered, from
\* the recovery and the scope rejection it ends the dispatch call.
Raised(w) ==
    IF pc[w] = "checked"
    THEN /\ pc' = [pc EXCEPT ![w] = "raised"]
         /\ result' = [result EXCEPT ![w] = "none"]
         /\ UNCHANGED <<tok, batch, cur, loaded, hb>>
    ELSE Abandon(w)

CommitConflicts(w) ==
    /\ Committing(w)
    /\ \E j \in cur[w] : ~WriteAllowed(w, j)
    /\ Raised(w)
    /\ UNCHANGED <<rowVars, faults, requeues, runs, overtaken>>

CommitFails(w) ==
    /\ faults < MaxFaults
    /\ Committing(w)
    /\ Raised(w)
    /\ faults' = faults + 1
    /\ UNCHANGED <<rowVars, requeues, runs, overtaken>>

\* _recover_unhandled_background_job_exception: the rollback expired the
\* session, so the row is read again.
RecoverException(w) ==
    /\ pc[w] = "raised"
    /\ \E j \in cur[w] :
         IF Owns(w, j)
         THEN /\ pc' = [pc EXCEPT ![w] = "recovered"]
              /\ loaded' = [loaded EXCEPT ![w][j] = job[j].attempts]
              /\ result' = [result EXCEPT ![w] = "retry"]
              /\ UNCHANGED <<tok, batch, cur, hb>>
         ELSE Proceed(w, batch[w])
    /\ UNCHANGED <<rowVars, faults, requeues, runs, overtaken>>

\* The process dies; its rows stay as they are until their lease runs out.
Crash(w) ==
    /\ faults < MaxFaults
    /\ pc[w] # "idle"
    /\ Abandon(w)
    /\ faults' = faults + 1
    /\ UNCHANGED <<rowVars, requeues, runs, overtaken>>

-----------------------------------------------------------------------------

WorkerStep(w) ==
    \/ RefreshLease(w)
    \/ RefuseScope(w)
    \/ StartAttempt(w)
    \/ process_background_job(w)
    \/ CheckOwnership(w)
    \/ Commit(w)
    \/ CommitConflicts(w)
    \/ RecoverException(w)

Next ==
    \/ \E j \in Jobs :
         \/ enqueue_background_job(j)
         \/ requeue_dead_job(j)
         \/ restrict_processing(j)
         \/ BackoffElapses(j)
         \/ LeaseExpires(j)
    \/ \E w \in Workers :
         \/ claim_executable_background_jobs(w)
         \/ WorkerStep(w)
         \/ HeartbeatStops(w)
         \/ CommitFails(w)
         \/ Crash(w)
         \/ \E j \in Jobs : LeaseExpiresUnderWorker(w, j)

Spec == Init /\ [][Next]_vars

\* Worker loops poll forever and clocks advance; enqueues, faults and
\* administrators owe nothing.
Fairness ==
    /\ \A w \in Workers :
         /\ WF_vars(claim_executable_background_jobs(w))
         /\ WF_vars(WorkerStep(w))
    /\ \A j \in Jobs :
         /\ WF_vars(BackoffElapses(j))
         /\ WF_vars(LeaseExpires(j))

FairSpec == Spec /\ Fairness

-----------------------------------------------------------------------------
(* Properties. *)

\* Every variable stays in its domain.
TypeOK ==
    /\ job \in [Jobs -> Row]
    /\ blocked \subseteq Jobs
    /\ pc \in [Workers -> {"idle", "batch", "leased", "running", "finished",
                           "checked", "raised", "recovered", "rejecting"}]
    /\ tok \in [Workers -> Tokens \cup {NoToken}]
    /\ batch \in [Workers -> SUBSET Jobs]
    /\ cur \in [Workers -> SUBSET Jobs]
    /\ loaded \in [Workers -> [Jobs -> Nat]]
    /\ result \in [Workers -> Results]
    /\ hb \in [Workers -> BOOLEAN]
    /\ faults \in 0..MaxFaults
    /\ requeues \in 0..MaxRequeues
    /\ runs \in [Jobs -> Nat]
    /\ overtaken \subseteq Jobs

\* A stale attempt commits only in the one way the code leaves open: its row
\* was claimed by another worker between its ownership check and its commit.
StaleOnlyIfOvertaken ==
    [][\A w \in Workers : Commit(w) => \A j \in cur[w] : Owns(w, j) \/ j \in overtaken]_vars

\* A row that is done stays done, whoever still works on it, unless it was
\* overtaken between ownership check and commit.
DoneIsFinal ==
    [][\A j \in Jobs \ overtaken : job[j].status = "done" => job'[j].status = "done"]_vars

\* attempt_count only grows, one committed failure at a time, until an
\* administrator requeues the row: no failure is lost to a concurrent writer
\* unless the row was overtaken between ownership check and commit.
AttemptsCountFailures ==
    [][\A j \in Jobs \ overtaken :
          \/ job'[j].attempts \in {job[j].attempts, job[j].attempts + 1}
          \/ requeues' > requeues]_vars

\* A background job dies only when its attempts are exhausted or its scope or
\* customer restriction refused it, and it is never active with attempts
\* exhausted (_mark_retry, _reject_execution_scope).
DeadIsJustified ==
    \A j \in Jobs :
        /\ job[j].status = "dead" => job[j].attempts = MaxAttempts \/ j \in blocked
        /\ job[j].status \in Active => job[j].attempts < MaxAttempts

\* Executions of a handler are paid for: each beyond the first is accounted
\* for by a committed failure or by a fault (crash, stall, failed commit),
\* unless the row was overtaken between ownership check and commit.
RunsArePaidFor ==
    \A j \in Jobs \ overtaken :
        runs[j] <= job[j].attempts + faults
                     + (IF job[j].status = "pending" THEN 0 ELSE 1)

\* The unique index holds although commits select by primary key alone: two
\* rows with one dedupe_key are never active together.
ActiveKeyUnique ==
    \A i, j \in Jobs :
        i # j /\ KeyOf[i] = KeyOf[j] => ~(job[i].status \in Active /\ job[j].status \in Active)

\* No job whose scope envelope is executable is stuck: with finitely many
\* faults and requeues it reaches done or dead, whatever its attempts do and
\* although rows without such an envelope wait before it for ever.
EveryJobResolves ==
    \A j \in Executable : job[j].status \in Active ~> job[j].status \in {"done", "dead"}
=============================================================================
