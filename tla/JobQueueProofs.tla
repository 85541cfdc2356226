--------------------------- MODULE JobQueueProofs ---------------------------
(***************************************************************************)
(* Proofs about JobQueue, for every set of rows, workers and tokens and    *)
(* every bound.                                                            *)
(***************************************************************************)
EXTENDS JobQueue, TLAPS

-----------------------------------------------------------------------------
(* The inductive invariant. *)

\* A session has something to write when its worker is past the handler, and
\* a rejection only from the scope check.
ResultMatchesPc ==
    \A w \in Workers :
        /\ result[w] = "reject" <=> pc[w] = "rejecting"
        /\ pc[w] \in {"finished", "checked", "recovered"} => result[w] \in {"done", "retry"}

\* A scope rejection is about a blocked row.
RejectedAreBlocked ==
    \A w \in Workers : pc[w] = "rejecting" => cur[w] \subseteq blocked

\* A worker works on one row at a time.
OneCurrent ==
    \A w \in Workers : \A i, j \in cur[w] : i = j

\* No session holds a row whose attempts were exhausted when it was read.
LoadedBelowMax ==
    \A w \in Workers, j \in Jobs : loaded[w][j] < MaxAttempts

IInv ==
    /\ TypeOK
    /\ ResultMatchesPc
    /\ OneCurrent
    /\ RejectedAreBlocked
    /\ LoadedBelowMax
    /\ DeadIsJustified
    /\ ActiveKeyUnique

USE JobsAssumption, TokensAssumption, BoundsAssumption

\* The initial state satisfies the invariant.
LEMMA InitIInv == Init => IInv
  BY DEF Init, IInv, TypeOK, ResultMatchesPc, OneCurrent, RejectedAreBlocked, LoadedBelowMax,
         DeadIsJustified, ActiveKeyUnique, NothingLoaded, NoRow, Row, Statuses, NoToken,
         Active, Results

\* What leaving a row does to the worker's variables: everything they are
\* constrained by still holds.
LEMMA ProceedKeeps ==
    ASSUME IInv, NEW w \in Workers, NEW rest \in SUBSET Jobs, Proceed(w, rest)
    PROVE  /\ pc' \in [Workers -> {"idle", "batch", "leased", "running", "finished",
                                   "checked", "raised", "recovered", "rejecting"}]
           /\ tok' \in [Workers -> Tokens \cup {NoToken}]
           /\ batch' \in [Workers -> SUBSET Jobs]
           /\ cur' \in [Workers -> SUBSET Jobs]
           /\ loaded' \in [Workers -> [Jobs -> Nat]]
           /\ result' \in [Workers -> Results]
           /\ hb' \in [Workers -> BOOLEAN]
           /\ ResultMatchesPc'
           /\ OneCurrent'
           /\ \A v \in Workers : pc'[v] = "rejecting" => cur'[v] \subseteq blocked
           /\ LoadedBelowMax'
  BY DEF IInv, TypeOK, Proceed, ResultMatchesPc, OneCurrent, RejectedAreBlocked,
         LoadedBelowMax, NothingLoaded, Results, NoToken

\* _mark_done returns a row that is done.
LEMMA MarkDoneRow ==
    ASSUME NEW r \in Row
    PROVE  MarkDone(r) \in Row /\ MarkDone(r).status = "done"
  BY DEF MarkDone, Unlocked, Row, Statuses, NoToken

\* A row refused by the scope check is dead.
LEMMA MarkRejectedRow ==
    ASSUME NEW r \in Row
    PROVE  MarkRejected(r) \in Row /\ MarkRejected(r).status = "dead"
  BY DEF MarkRejected, Unlocked, Row, Statuses, NoToken

\* Clearing the lock columns of a row leaves a row.
LEMMA UnlockedRow ==
    ASSUME NEW r \in Row
    PROVE  Unlocked(r) \in Row
  BY DEF Unlocked, Row, NoToken

\* _mark_retry counts one attempt and kills the row with the last one.
LEMMA MarkRetryRow ==
    ASSUME NEW r \in Row, NEW n \in Nat, n < MaxAttempts
    PROVE  /\ MarkRetry(r, n) \in Row
           /\ MarkRetry(r, n).attempts = n + 1
           /\ \/ MarkRetry(r, n).status = "dead" /\ n + 1 = MaxAttempts
              \/ MarkRetry(r, n).status = "pending" /\ n + 1 < MaxAttempts
  <1> DEFINE e == n + 1 >= MaxAttempts
             s == IF e THEN "dead" ELSE "pending"
             u == Unlocked(r)
             m == n + 1
  <1>1. m \in Nat /\ e \in BOOLEAN /\ s \in Statuses /\ u \in Row
    BY UnlockedRow DEF Statuses
  <1>2. \/ s = "dead" /\ m = MaxAttempts
        \/ s = "pending" /\ m < MaxAttempts
    OBVIOUS
  <1>3. MarkRetry(r, n) = [u EXCEPT !.attempts = m, !.status = s, !.due = e]
    BY DEF MarkRetry
  <1> HIDE DEF e, s, u, m
  <1>4. /\ MarkRetry(r, n) \in Row
        /\ MarkRetry(r, n).attempts = m
        /\ MarkRetry(r, n).status = s
    BY <1>1, <1>3 DEF Row
  <1> QED
    BY <1>2, <1>4 DEF m

\* A step that writes one row keeps the row invariants if the new row does.
LEMMA OneRow ==
    ASSUME IInv, NEW j \in Jobs, NEW r \in Row,
           job' = [job EXCEPT ![j] = r],
           blocked \subseteq blocked',
           r.status = "dead" => r.attempts = MaxAttempts \/ j \in blocked',
           r.status \in Active => r.attempts < MaxAttempts,
           r.status \in Active => job[j].status \in Active \/ KeyFree(j)
    PROVE  job' \in [Jobs -> Row] /\ DeadIsJustified' /\ ActiveKeyUnique'
  <1>1. job \in [Jobs -> Row]
    BY DEF IInv, TypeOK
  <1>2. /\ job' \in [Jobs -> Row]
        /\ job'[j] = r
        /\ \A i \in Jobs \ {j} : job'[i] = job[i]
    BY <1>1
  <1>3. DeadIsJustified'
    BY <1>2 DEF IInv, DeadIsJustified
  <1>4. ActiveKeyUnique'
    BY <1>2 DEF IInv, ActiveKeyUnique, KeyFree
  <1> QED
    BY <1>2, <1>3, <1>4

\* Commit writes a well-formed row, whatever the row has become meanwhile.
LEMMA WrittenRow ==
    ASSUME IInv, NEW w \in Workers, NEW j \in cur[w], Committing(w)
    PROVE  /\ Written(w, j) \in Row
           /\ Written(w, j).status = "dead"
                => Written(w, j).attempts = MaxAttempts \/ j \in blocked
           /\ Written(w, j).status \in Active => Written(w, j).attempts < MaxAttempts
  <1>1. j \in Jobs /\ job[j] \in Row
    BY DEF IInv, TypeOK
  <1>2. loaded[w][j] \in Nat /\ loaded[w][j] < MaxAttempts
    BY <1>1 DEF IInv, TypeOK, LoadedBelowMax
  <1>3. CASE result[w] = "done"
    <2>1. Written(w, j) = MarkDone(job[j])
      BY <1>3 DEF Written
    <2> QED
      BY <1>1, <2>1, MarkDoneRow DEF Active
  <1>4. CASE result[w] = "retry"
    <2>1. Written(w, j) = MarkRetry(job[j], loaded[w][j])
      BY <1>4 DEF Written
    <2> QED
      <3> DEFINE r == job[j]
                 n == loaded[w][j]
      <3>1. r \in Row /\ n \in Nat /\ n < MaxAttempts
        BY <1>1, <1>2
      <3> HIDE DEF r, n
      <3>2. /\ MarkRetry(r, n) \in Row
            /\ MarkRetry(r, n).attempts = n + 1
            /\ \/ MarkRetry(r, n).status = "dead" /\ n + 1 = MaxAttempts
               \/ MarkRetry(r, n).status = "pending" /\ n + 1 < MaxAttempts
        BY <3>1, MarkRetryRow
      <3>3. Written(w, j) = MarkRetry(r, n)
        BY <2>1 DEF r, n
      <3> QED
        BY <3>2, <3>3 DEF Active
  <1>5. CASE result[w] = "reject"
    <2>1. j \in blocked
      BY <1>5 DEF IInv, ResultMatchesPc, RejectedAreBlocked
    <2>2. Written(w, j) = MarkRejected(job[j])
      BY <1>5 DEF Written
    <2> QED
      BY <1>1, <2>1, <2>2, MarkRejectedRow DEF Active
  <1>6. result[w] \in {"done", "retry", "reject"}
    BY DEF IInv, ResultMatchesPc, Committing
  <1> QED
    BY <1>3, <1>4, <1>5, <1>6

\* A step that leaves the workers alone keeps what is said of them.
LEMMA WorkersUnchanged ==
    ASSUME IInv, UNCHANGED workerVars, blocked \subseteq blocked', blocked' \subseteq Jobs,
           job' \in [Jobs -> Row], DeadIsJustified', ActiveKeyUnique',
           faults' \in 0..MaxFaults, requeues' \in 0..MaxRequeues, runs' \in [Jobs -> Nat] /\ overtaken' \subseteq Jobs
    PROVE  IInv'
  <1>1. TypeOK'
    BY DEF IInv, TypeOK, workerVars
  <1>2. ResultMatchesPc' /\ OneCurrent' /\ RejectedAreBlocked' /\ LoadedBelowMax'
    BY DEF IInv, workerVars, ResultMatchesPc, OneCurrent, RejectedAreBlocked, LoadedBelowMax
  <1> QED
    BY <1>1, <1>2 DEF IInv

\* A step that leaves the rows alone keeps what is said of them.
LEMMA RowsUnchanged ==
    ASSUME IInv, UNCHANGED <<job, blocked, requeues>>,
           faults' \in 0..MaxFaults, runs' \in [Jobs -> Nat] /\ overtaken' \subseteq Jobs,
           pc' \in [Workers -> {"idle", "batch", "leased", "running", "finished",
                                "checked", "raised", "recovered", "rejecting"}],
           tok' \in [Workers -> Tokens \cup {NoToken}],
           batch' \in [Workers -> SUBSET Jobs],
           cur' \in [Workers -> SUBSET Jobs],
           loaded' \in [Workers -> [Jobs -> Nat]],
           result' \in [Workers -> Results],
           hb' \in [Workers -> BOOLEAN],
           ResultMatchesPc', OneCurrent', RejectedAreBlocked', LoadedBelowMax'
    PROVE  IInv'
  BY DEF IInv, TypeOK, DeadIsJustified, ActiveKeyUnique

\* The steps of rows: requests, administrators and clocks.
LEMMA RowStep ==
    ASSUME IInv, NEW j \in Jobs,
           \/ enqueue_background_job(j)
           \/ requeue_dead_job(j)
           \/ restrict_processing(j)
           \/ BackoffElapses(j)
           \/ LeaseExpires(j)
    PROVE  IInv'
  <1>1. /\ job \in [Jobs -> Row] /\ job[j] \in Row
        /\ blocked \subseteq Jobs /\ runs \in [Jobs -> Nat] /\ overtaken \subseteq Jobs
        /\ faults \in 0..MaxFaults /\ requeues \in 0..MaxRequeues
    BY DEF IInv, TypeOK
  <1>2. CASE enqueue_background_job(j)
    <2>1. PICK due \in BOOLEAN :
            job' = [job EXCEPT ![j] = [NoRow EXCEPT !.status = "pending", !.due = due]]
      BY <1>2 DEF enqueue_background_job
    <2> DEFINE r == [NoRow EXCEPT !.status = "pending", !.due = due]
    <2>2. r \in Row /\ r.status = "pending" /\ r.attempts = 0
      BY DEF NoRow, Row, Statuses, NoToken
    <2>3. job' = [job EXCEPT ![j] = r]
      BY <2>1
    <2> HIDE DEF r
    <2>4. job' \in [Jobs -> Row] /\ DeadIsJustified' /\ ActiveKeyUnique'
      <3>1. KeyFree(j) /\ blocked' = blocked /\ r.attempts < MaxAttempts
        <4>1. KeyFree(j) /\ blocked' = blocked
          BY <1>2 DEF enqueue_background_job
        <4> QED
          BY <2>2, <4>1
      <3> QED
        BY <2>2, <2>3, <3>1, OneRow
    <2> QED
      BY <1>1, <1>2, <2>4, WorkersUnchanged DEF enqueue_background_job, workerVars
  <1>3. CASE requeue_dead_job(j)
    <2> DEFINE r == [Unlocked(job[j]) EXCEPT !.status = "pending", !.attempts = 0, !.due = TRUE]
    <2>1. r \in Row /\ r.status = "pending" /\ r.attempts = 0
      BY <1>1 DEF Unlocked, Row, Statuses, NoToken
    <2>2. job' = [job EXCEPT ![j] = r]
      BY <1>1, <1>3 DEF requeue_dead_job
    <2> HIDE DEF r
    <2>3. job' \in [Jobs -> Row] /\ DeadIsJustified' /\ ActiveKeyUnique'
      <3>1. KeyFree(j) /\ blocked' = blocked /\ r.attempts < MaxAttempts
        BY <1>3, <2>1 DEF requeue_dead_job
      <3> QED
        BY <2>1, <2>2, <3>1, OneRow
    <2>4. requeues' \in 0..MaxRequeues /\ runs' \in [Jobs -> Nat] /\ overtaken' \subseteq Jobs
      BY <1>1, <1>3 DEF requeue_dead_job
    <2> QED
      BY <1>1, <1>3, <2>3, <2>4, WorkersUnchanged DEF requeue_dead_job, workerVars
  <1>4. CASE restrict_processing(j)
    <2> DEFINE r == IF job[j].status = "pending" THEN MarkRejected(job[j]) ELSE job[j]
    <2>1. r \in Row /\ (r.status \in Active => r = job[j])
      BY <1>1, MarkRejectedRow DEF Active
    <2>2. job' = [job EXCEPT ![j] = r] /\ blocked' = blocked \cup {j}
      BY <1>1, <1>4 DEF restrict_processing
    <2> HIDE DEF r
    <2>3. r.status \in Active => r.attempts < MaxAttempts
      BY <2>1 DEF IInv, DeadIsJustified
    <2>4. job' \in [Jobs -> Row] /\ DeadIsJustified' /\ ActiveKeyUnique'
      BY <2>1, <2>2, <2>3, OneRow
    <2> QED
      BY <1>1, <1>4, <2>2, <2>4, WorkersUnchanged DEF restrict_processing, workerVars
  <1>5. CASE BackoffElapses(j)
    <2> DEFINE r == [job[j] EXCEPT !.due = TRUE]
    <2>1. r \in Row /\ r.status = job[j].status /\ r.attempts = job[j].attempts
      BY <1>1 DEF Row
    <2>2. job' = [job EXCEPT ![j] = r]
      BY <1>5 DEF BackoffElapses
    <2> HIDE DEF r
    <2>3. job' \in [Jobs -> Row] /\ DeadIsJustified' /\ ActiveKeyUnique'
      BY <1>5, <2>1, <2>2, OneRow DEF BackoffElapses, IInv, DeadIsJustified
    <2> QED
      BY <1>1, <1>5, <2>3, WorkersUnchanged DEF BackoffElapses, workerVars
  <1>6. CASE LeaseExpires(j)
    <2> DEFINE r == [job[j] EXCEPT !.live = FALSE]
    <2>1. r \in Row /\ r.status = job[j].status /\ r.attempts = job[j].attempts
      BY <1>1 DEF Row
    <2>2. job' = [job EXCEPT ![j] = r]
      BY <1>6 DEF LeaseExpires
    <2> HIDE DEF r
    <2>3. job' \in [Jobs -> Row] /\ DeadIsJustified' /\ ActiveKeyUnique'
      BY <1>6, <2>1, <2>2, OneRow DEF LeaseExpires, IInv, DeadIsJustified
    <2> QED
      BY <1>1, <1>6, <2>3, WorkersUnchanged DEF LeaseExpires, workerVars
  <1> QED
    BY <1>2, <1>3, <1>4, <1>5, <1>6

\* Leaving a row without writing it.
LEMMA ProceedStep ==
    ASSUME IInv, NEW w \in Workers, NEW rest \in SUBSET Jobs, Proceed(w, rest),
           UNCHANGED <<job, blocked, requeues, runs, overtaken>>, faults' \in 0..MaxFaults
    PROVE  IInv'
  <1>1. RejectedAreBlocked'
    BY ProceedKeeps DEF RejectedAreBlocked
  <1>2. runs' \in [Jobs -> Nat] /\ overtaken' \subseteq Jobs
    BY DEF IInv, TypeOK
  <1> QED
    BY <1>1, <1>2, ProceedKeeps, RowsUnchanged

\* The steps of a worker that write no row.
LEMMA QuietStep ==
    ASSUME IInv, NEW w \in Workers,
           \/ RefuseScope(w)
           \/ StartAttempt(w)
           \/ process_background_job(w)
           \/ CheckOwnership(w)
           \/ CommitConflicts(w)
           \/ CommitFails(w)
           \/ RecoverException(w)
           \/ HeartbeatStops(w)
           \/ Crash(w)
    PROVE  IInv'
  <1> USE DEF rowVars
  <1>1. /\ batch[w] \in SUBSET Jobs /\ cur[w] \in SUBSET Jobs /\ {} \in SUBSET Jobs
        /\ faults \in 0..MaxFaults /\ runs \in [Jobs -> Nat] /\ overtaken \subseteq Jobs
        /\ faults < MaxFaults => faults + 1 \in 0..MaxFaults
    BY DEF IInv, TypeOK
  <1>2. CASE RefuseScope(w)
    <2>1. CASE Proceed(w, batch[w])
      BY <1>1, <1>2, <2>1, ProceedStep DEF RefuseScope
    <2>2. CASE ~Proceed(w, batch[w])
      <3>1. PICK j \in cur[w] :
              /\ j \in blocked
              /\ pc' = [pc EXCEPT ![w] = "rejecting"]
              /\ result' = [result EXCEPT ![w] = "reject"]
              /\ UNCHANGED <<tok, batch, cur, loaded, hb>>
        BY <1>2, <2>2 DEF RefuseScope
      <3>2. UNCHANGED <<job, blocked, faults, requeues, runs, overtaken>>
        BY <1>2 DEF RefuseScope
      <3>3. cur[w] \subseteq blocked
        BY <3>1 DEF IInv, OneCurrent
      <3> QED
        BY <1>1, <3>1, <3>2, <3>3
           DEF IInv, TypeOK, ResultMatchesPc, OneCurrent, RejectedAreBlocked, LoadedBelowMax,
               DeadIsJustified, ActiveKeyUnique, Results
    <2> QED
      BY <2>1, <2>2
  <1>3. CASE StartAttempt(w)
    BY <1>1, <1>3
       DEF StartAttempt, IInv, TypeOK, ResultMatchesPc, OneCurrent, RejectedAreBlocked,
           LoadedBelowMax, DeadIsJustified, ActiveKeyUnique
  <1>4. CASE process_background_job(w)
    BY <1>4
       DEF process_background_job, IInv, TypeOK, ResultMatchesPc, OneCurrent, RejectedAreBlocked,
           LoadedBelowMax, DeadIsJustified, ActiveKeyUnique, Results
  <1>5. CASE CheckOwnership(w)
    <2>1. CASE Proceed(w, batch[w])
      BY <1>1, <1>5, <2>1, ProceedStep DEF CheckOwnership
    <2>2. CASE ~Proceed(w, batch[w])
      <3>1. /\ pc[w] = "finished" /\ pc' = [pc EXCEPT ![w] = "checked"]
            /\ UNCHANGED <<tok, batch, cur, loaded, result, hb>>
            /\ UNCHANGED <<job, blocked, faults, requeues, runs, overtaken>>
        BY <1>5, <2>2 DEF CheckOwnership
      <3>2. TypeOK'
        BY <3>1 DEF IInv, TypeOK
      <3>3. ResultMatchesPc' /\ OneCurrent' /\ RejectedAreBlocked' /\ LoadedBelowMax'
        BY <3>1 DEF IInv, TypeOK, ResultMatchesPc, OneCurrent, RejectedAreBlocked, LoadedBelowMax
      <3> QED
        BY <3>1, <3>2, <3>3 DEF IInv, DeadIsJustified, ActiveKeyUnique
    <2> QED
      BY <2>1, <2>2
  <1>6. ASSUME Raised(w), Committing(w), UNCHANGED <<job, blocked, requeues, runs, overtaken>>,
               faults' \in 0..MaxFaults
        PROVE  IInv'
    <2>1. CASE Proceed(w, {})
      BY <1>1, <1>6, <2>1, ProceedStep
    <2>2. CASE ~Proceed(w, {})
      <3>1. /\ pc[w] = "checked" /\ pc' = [pc EXCEPT ![w] = "raised"]
            /\ result' = [result EXCEPT ![w] = "none"]
            /\ UNCHANGED <<tok, batch, cur, loaded, hb>>
        BY <1>6, <2>2 DEF Raised, Abandon
      <3>2. TypeOK'
        BY <1>6, <3>1 DEF IInv, TypeOK, Results
      <3>3. ResultMatchesPc' /\ OneCurrent' /\ RejectedAreBlocked' /\ LoadedBelowMax'
        BY <1>6, <3>1
           DEF IInv, TypeOK, ResultMatchesPc, OneCurrent, RejectedAreBlocked, LoadedBelowMax
      <3> QED
        BY <1>6, <3>2, <3>3 DEF IInv, DeadIsJustified, ActiveKeyUnique
    <2> QED
      BY <2>1, <2>2
  <1>7. CASE CommitConflicts(w)
    BY <1>1, <1>6, <1>7 DEF CommitConflicts
  <1>8. CASE CommitFails(w)
    BY <1>1, <1>6, <1>8 DEF CommitFails
  <1>9. CASE RecoverException(w)
    <2>1. CASE Proceed(w, batch[w])
      BY <1>1, <1>9, <2>1, ProceedStep DEF RecoverException
    <2>2. CASE ~Proceed(w, batch[w])
      <3>1. PICK j \in cur[w] :
              /\ Owns(w, j)
              /\ pc' = [pc EXCEPT ![w] = "recovered"]
              /\ loaded' = [loaded EXCEPT ![w][j] = job[j].attempts]
              /\ result' = [result EXCEPT ![w] = "retry"]
              /\ UNCHANGED <<tok, batch, cur, hb>>
        BY <1>9, <2>2 DEF RecoverException
      <3>2. UNCHANGED <<job, blocked, faults, requeues, runs, overtaken>> /\ pc[w] = "raised"
        BY <1>9 DEF RecoverException
      <3>3. j \in Jobs /\ job[j].attempts \in Nat /\ job[j].attempts < MaxAttempts
        BY <1>1, <3>1 DEF IInv, TypeOK, Owns, Active, DeadIsJustified, Row
      <3>4. loaded' \in [Workers -> [Jobs -> Nat]] /\ LoadedBelowMax'
        BY <3>1, <3>3 DEF IInv, TypeOK, LoadedBelowMax
      <3> QED
        BY <3>1, <3>2, <3>4
           DEF IInv, TypeOK, ResultMatchesPc, OneCurrent, RejectedAreBlocked,
               DeadIsJustified, ActiveKeyUnique, Results
    <2> QED
      BY <2>1, <2>2
  <1>10. CASE HeartbeatStops(w)
    BY <1>10
       DEF HeartbeatStops, IInv, TypeOK, ResultMatchesPc, OneCurrent, RejectedAreBlocked,
           LoadedBelowMax, DeadIsJustified, ActiveKeyUnique
  <1>11. CASE Crash(w)
    BY <1>1, <1>11, ProceedStep DEF Crash, Abandon
  <1> QED
    BY <1>2, <1>3, <1>4, <1>5, <1>7, <1>8, <1>9, <1>10, <1>11

\* The steps of a worker that write rows.
LEMMA WritingStep ==
    ASSUME IInv, NEW w \in Workers,
           \/ claim_executable_background_jobs(w)
           \/ RefreshLease(w)
           \/ Commit(w)
           \/ \E j \in Jobs : LeaseExpiresUnderWorker(w, j)
    PROVE  IInv'
  <1>1. /\ job \in [Jobs -> Row] /\ blocked \subseteq Jobs
        /\ batch[w] \in SUBSET Jobs /\ cur[w] \in SUBSET Jobs
        /\ faults \in 0..MaxFaults /\ requeues \in 0..MaxRequeues /\ runs \in [Jobs -> Nat] /\ overtaken \subseteq Jobs
    BY DEF IInv, TypeOK
  <1>2. CASE claim_executable_background_jobs(w)
    <2> DEFINE claimed == Oldest({j \in Jobs : Claimable(j)}, BatchLimit)
    <2>1. PICK t \in Tokens :
            /\ job' = [j \in Jobs |->
                         IF j \in claimed
                         THEN [job[j] EXCEPT !.status = "processing", !.token = t, !.live = TRUE]
                         ELSE job[j]]
            /\ tok' = [tok EXCEPT ![w] = t]
            /\ batch' = [batch EXCEPT ![w] = claimed]
            /\ loaded' = [loaded EXCEPT ![w] =
                            [j \in Jobs |-> IF j \in claimed THEN job[j].attempts ELSE 0]]
            /\ overtaken' = overtaken \cup {j \in claimed : InWindow(j)}
      BY <1>2 DEF claim_executable_background_jobs
    <2>2. /\ claimed \subseteq Jobs
          /\ \A j \in claimed : job[j].status \in Active
      BY DEF Oldest, Claimable, Active
    <2> HIDE DEF claimed
    <2>3. \A j \in Jobs : /\ job[j] \in Row
                          /\ job[j].attempts \in Nat
                          /\ j \in claimed => job[j].attempts < MaxAttempts
      BY <1>1, <2>2 DEF IInv, DeadIsJustified, Row
    <2>4. \A j \in Jobs : /\ job'[j] \in Row
                          /\ job'[j].attempts = job[j].attempts
                          /\ \/ j \in claimed /\ job'[j].status = "processing"
                             \/ job'[j].status = job[j].status
      <3> SUFFICES ASSUME NEW j \in Jobs
                   PROVE  /\ job'[j] \in Row
                          /\ job'[j].attempts = job[j].attempts
                          /\ \/ j \in claimed /\ job'[j].status = "processing"
                             \/ job'[j].status = job[j].status
        OBVIOUS
      <3>1. job[j] \in Row
        BY <2>3
      <3>2. CASE j \in claimed
        <4>1. job'[j] = [job[j] EXCEPT !.status = "processing", !.token = t, !.live = TRUE]
          BY <2>1, <3>2
        <4> QED
          BY <3>1, <3>2, <4>1 DEF Row, Statuses
      <3>3. CASE j \notin claimed
        BY <2>1, <3>1, <3>3
      <3> QED
        BY <3>2, <3>3
    <2>5. job' \in [Jobs -> Row]
      BY <2>1, <2>4
    <2>6. DeadIsJustified' /\ ActiveKeyUnique'
      <3>1. \A j \in Jobs : job'[j].status \in Active => job[j].status \in Active
        BY <2>2, <2>4
      <3>2. \A j \in Jobs : job'[j].status = "dead" => job[j].status = "dead"
        BY <2>4
      <3>3. blocked' = blocked
        BY <1>2 DEF claim_executable_background_jobs
      <3> QED
        BY <2>4, <3>1, <3>2, <3>3 DEF IInv, DeadIsJustified, ActiveKeyUnique
    <2>7. loaded' \in [Workers -> [Jobs -> Nat]] /\ LoadedBelowMax'
      <3> DEFINE f == [j \in Jobs |-> IF j \in claimed THEN job[j].attempts ELSE 0]
      <3>1. f \in [Jobs -> Nat] /\ \A j \in Jobs : f[j] < MaxAttempts
        <4>1. \A j \in Jobs : f[j] \in Nat /\ f[j] < MaxAttempts
          <5> SUFFICES ASSUME NEW j \in Jobs PROVE f[j] \in Nat /\ f[j] < MaxAttempts
            OBVIOUS
          <5>1. CASE j \in claimed
            BY <2>3, <5>1
          <5>2. CASE j \notin claimed
            BY <5>2
          <5> QED
            BY <5>1, <5>2
        <4> QED
          BY <4>1
      <3>2. loaded' = [loaded EXCEPT ![w] = f]
        BY <2>1
      <3> HIDE DEF f
      <3> QED
        BY <3>1, <3>2 DEF IInv, TypeOK, LoadedBelowMax
    <2> QED
      <3>1. /\ pc[w] = "idle" /\ pc' = [pc EXCEPT ![w] = "batch"]
            /\ UNCHANGED <<blocked, cur, result, hb, faults, requeues, runs>>
        BY <1>2 DEF claim_executable_background_jobs
      <3>2. tok' \in [Workers -> Tokens \cup {NoToken}] /\ batch' \in [Workers -> SUBSET Jobs]
        BY <2>1, <2>2 DEF IInv, TypeOK
      <3>a. overtaken' \subseteq Jobs
        BY <1>1, <2>1, <2>2
      <3>3. TypeOK'
        BY <2>5, <2>7, <3>1, <3>2, <3>a DEF IInv, TypeOK
      <3>4. ResultMatchesPc' /\ OneCurrent' /\ RejectedAreBlocked'
        BY <3>1 DEF IInv, TypeOK, ResultMatchesPc, OneCurrent, RejectedAreBlocked
      <3> QED
        BY <2>6, <2>7, <3>3, <3>4 DEF IInv
  <1>3. CASE RefreshLease(w)
    <2>1. PICK j \in batch[w] :
            IF Owns(w, j)
            THEN /\ job' = [job EXCEPT ![j].live = TRUE]
                 /\ pc' = [pc EXCEPT ![w] = "leased"]
                 /\ cur' = [cur EXCEPT ![w] = {j}]
                 /\ batch' = [batch EXCEPT ![w] = @ \ {j}]
                 /\ UNCHANGED <<tok, loaded, result, hb>>
            ELSE Proceed(w, batch[w] \ {j}) /\ UNCHANGED job
      BY <1>3 DEF RefreshLease
    <2>2. j \in Jobs /\ batch[w] \ {j} \in SUBSET Jobs
      BY <1>1
    <2>3. UNCHANGED <<blocked, faults, requeues, runs, overtaken>> /\ pc[w] = "batch"
      BY <1>3 DEF RefreshLease
    <2>4. CASE Owns(w, j)
      <3> DEFINE r == [job[j] EXCEPT !.live = TRUE]
      <3>1. job[j] \in Row
        BY <1>1, <2>2
      <3>2. r \in Row /\ r.status = job[j].status /\ r.attempts = job[j].attempts
        BY <3>1 DEF Row
      <3>3. job' = [job EXCEPT ![j] = r]
        BY <2>1, <2>4
      <3>4. r.status = "processing" /\ job[j].status \in Active /\ r.attempts < MaxAttempts
        BY <2>2, <2>4, <3>2 DEF Owns, Active, IInv, DeadIsJustified
      <3> HIDE DEF r
      <3>5. job' \in [Jobs -> Row] /\ DeadIsJustified' /\ ActiveKeyUnique'
        BY <2>2, <2>3, <3>2, <3>3, <3>4, OneRow
      <3> QED
        <4>1. /\ pc' = [pc EXCEPT ![w] = "leased"]
              /\ cur' = [cur EXCEPT ![w] = {j}]
              /\ batch' = [batch EXCEPT ![w] = @ \ {j}]
              /\ UNCHANGED <<tok, loaded, result, hb>>
          BY <2>1, <2>4
        <4>2. TypeOK'
          BY <2>2, <2>3, <3>5, <4>1 DEF IInv, TypeOK
        <4>3. ResultMatchesPc' /\ OneCurrent' /\ RejectedAreBlocked' /\ LoadedBelowMax'
          BY <2>3, <4>1
             DEF IInv, TypeOK, ResultMatchesPc, OneCurrent, RejectedAreBlocked, LoadedBelowMax
        <4> QED
          BY <3>5, <4>2, <4>3 DEF IInv
    <2>5. CASE ~Owns(w, j)
      BY <1>1, <2>1, <2>2, <2>3, <2>5, ProceedStep
    <2> QED
      BY <2>4, <2>5
  <1>4. CASE Commit(w)
    <2>1. PICK j \in cur[w] : WriteAllowed(w, j) /\ job' = [job EXCEPT ![j] = Written(w, j)]
      BY <1>4 DEF Commit
    <2>2. /\ Committing(w) /\ Proceed(w, batch[w])
          /\ UNCHANGED <<blocked, faults, requeues, runs, overtaken>>
      BY <1>4 DEF Commit
    <2>3. job' \in [Jobs -> Row] /\ DeadIsJustified' /\ ActiveKeyUnique'
      <3> DEFINE r == Written(w, j)
      <3>1. /\ j \in Jobs
            /\ r \in Row
            /\ r.status = "dead" => r.attempts = MaxAttempts \/ j \in blocked
            /\ r.status \in Active => r.attempts < MaxAttempts
        BY <1>1, <2>1, <2>2, WrittenRow
      <3>2. r.status \in Active => KeyFree(j)
        BY <2>1 DEF WriteAllowed
      <3>3. job' = [job EXCEPT ![j] = r]
        BY <2>1
      <3> HIDE DEF r
      <3> QED
        BY <2>2, <3>1, <3>2, <3>3, OneRow
    <2> QED
      BY <1>1, <2>2, <2>3, ProceedKeeps DEF IInv, TypeOK, RejectedAreBlocked
  <1>5. ASSUME NEW j \in Jobs, LeaseExpiresUnderWorker(w, j) PROVE IInv'
    <2> DEFINE r == [job[j] EXCEPT !.live = FALSE]
    <2>1. r \in Row /\ r.status = job[j].status /\ r.attempts = job[j].attempts
      <3>1. job[j] \in Row
        BY <1>1
      <3> QED
        BY <3>1 DEF Row
    <2>2. /\ job' = [job EXCEPT ![j] = r]
          /\ UNCHANGED <<blocked, workerVars, requeues, runs, overtaken>>
          /\ faults' \in 0..MaxFaults
      BY <1>1, <1>5 DEF LeaseExpiresUnderWorker
    <2> HIDE DEF r
    <2>3. job' \in [Jobs -> Row] /\ DeadIsJustified' /\ ActiveKeyUnique'
      BY <2>1, <2>2, OneRow DEF IInv, DeadIsJustified
    <2> QED
      BY <1>1, <2>2, <2>3, WorkersUnchanged
  <1> QED
    BY <1>2, <1>3, <1>4, <1>5

\* Every step preserves the invariant.
LEMMA NextIInv == IInv /\ [Next]_vars => IInv'
  <1> SUFFICES ASSUME IInv, [Next]_vars PROVE IInv'
    OBVIOUS
  <1>1. CASE UNCHANGED vars
    BY <1>1 DEF vars, IInv, TypeOK, ResultMatchesPc, OneCurrent, RejectedAreBlocked,
                LoadedBelowMax, DeadIsJustified, ActiveKeyUnique, KeyFree
  <1>2. CASE Next
    BY <1>2, RowStep, QuietStep, WritingStep DEF Next, WorkerStep
  <1> QED
    BY <1>1, <1>2

\* The invariant holds in every reachable state.
LEMMA Invariance == Spec => []IInv
  BY InitIInv, NextIInv, PTL DEF Spec

\* Type correctness of the queue.
THEOREM TypeCorrect == Spec => []TypeOK
  BY Invariance, PTL DEF IInv

\* For every number of rows, workers, faults and requeues, and although the
\* commit is not fenced: a job dies only exhausted or blocked (_mark_retry).
THEOREM DeadJustified == Spec => []DeadIsJustified
  BY Invariance, PTL DEF IInv

\* Two rows with one dedupe_key are never active together: enqueue, requeue
\* and the unfenced commit all run into the unique index.
THEOREM KeyUnique == Spec => []ActiveKeyUnique
  BY Invariance, PTL DEF IInv
=============================================================================
