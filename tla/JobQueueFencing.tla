-------------------------- MODULE JobQueueFencing ---------------------------
(***************************************************************************)
(* What the leases of JobQueue fence, for every set of rows, workers and   *)
(* tokens and every bound: an attempt that passed its ownership check and  *)
(* has not committed still owns its row, unless the row was claimed from   *)
(* it in between.                                                          *)
(***************************************************************************)
EXTENDS JobQueueProofs, FiniteSetTheorems

\* A worker in a dispatch call has a token.
TokenHeld == \A w \in Workers : pc[w] # "idle" => tok[w] # NoToken

\* Two dispatch calls never share a token.
TokensUnique ==
    \A v, w \in Workers : tok[v] = tok[w] /\ tok[v] # NoToken => v = w

\* Between check and commit the row is owned, or it was overtaken.
OwnedOrOvertaken ==
    \A w \in Workers : Committing(w) => \A j \in cur[w] : Owns(w, j) \/ j \in overtaken

FInv == TokenHeld /\ TokensUnique /\ OwnedOrOvertaken

-----------------------------------------------------------------------------

\* Nobody owns anything at first.
LEMMA InitFInv == Init => FInv
  BY DEF Init, FInv, TokenHeld, TokensUnique, OwnedOrOvertaken, Committing, NoToken

\* A step of rows keeps the fence if leased rows keep their lease.
LEMMA LeasesKept ==
    ASSUME FInv, UNCHANGED <<workerVars, overtaken>>,
           \A j \in Jobs : job[j].status = "processing" =>
               job'[j].status = "processing" /\ job'[j].token = job[j].token,
           TypeOK
    PROVE  FInv'
  BY DEF FInv, TokenHeld, TokensUnique, OwnedOrOvertaken, Committing, Owns, workerVars, TypeOK

\* A step of one worker keeps the fence if its token stays its own, if the
\* others keep their leases or are overtaken, and if it commits what it owns.
LEMMA OneWorkerMoves ==
    ASSUME FInv, NEW w \in Workers,
           \A v \in Workers \ {w} : pc'[v] = pc[v] /\ tok'[v] = tok[v] /\ cur'[v] = cur[v],
           overtaken \subseteq overtaken',
           \/ tok'[w] = NoToken \/ tok'[w] = tok[w]
           \/ \A v \in Workers : tok[v] # tok'[w],
           pc'[w] # "idle" => tok'[w] # NoToken,
           \A v \in Workers \ {w} : \A j \in cur[v] :
               Committing(v) /\ Owns(v, j) =>
                   \/ job'[j].status = "processing" /\ job'[j].token = job[j].token
                   \/ j \in overtaken',
           pc'[w] \in {"checked", "recovered", "rejecting"} =>
               \A j \in cur'[w] : job'[j].status = "processing" /\ job'[j].token = tok'[w]
    PROVE  FInv'
  <1>1. TokenHeld'
    BY DEF FInv, TokenHeld
  <1>2. TokensUnique'
    BY DEF FInv, TokensUnique
  <1>3. OwnedOrOvertaken'
    BY DEF FInv, OwnedOrOvertaken, Committing, Owns
  <1> QED
    BY <1>1, <1>2, <1>3 DEF FInv

\* A worker that leaves its row, or its call, without writing.
LEMMA LeavingKeeps ==
    ASSUME IInv, FInv, NEW w \in Workers, NEW rest, Proceed(w, rest), pc[w] # "idle",
           UNCHANGED <<job, overtaken>>
    PROVE  FInv'
  <1>1. /\ \A v \in Workers \ {w} : pc'[v] = pc[v] /\ tok'[v] = tok[v] /\ cur'[v] = cur[v]
        /\ pc'[w] \in {"idle", "batch"}
        /\ tok'[w] = NoToken \/ tok'[w] = tok[w]
        /\ pc'[w] # "idle" => tok'[w] = tok[w]
    BY DEF IInv, TypeOK, Proceed
  <1>2. pc'[w] # "idle" => tok'[w] # NoToken
    BY <1>1 DEF FInv, TokenHeld
  <1>3. \A v \in Workers \ {w} : \A j \in cur[v] :
            Committing(v) /\ Owns(v, j) => job'[j].status = "processing" /\ job'[j].token = job[j].token
    BY DEF Owns
  <1> QED
    BY <1>1, <1>2, <1>3, OneWorkerMoves

\* A worker that moves on within its row, and is licensed to commit only if
\* it owns the row.
LEMMA MovingKeeps ==
    ASSUME IInv, FInv, NEW w \in Workers, NEW p, pc' = [pc EXCEPT ![w] = p],
           UNCHANGED <<job, tok, cur, overtaken>>, pc[w] # "idle",
           p \in {"checked", "recovered", "rejecting"} => \A j \in cur[w] : Owns(w, j)
    PROVE  FInv'
  <1>1. pc'[w] = p /\ \A v \in Workers \ {w} : pc'[v] = pc[v]
    BY DEF IInv, TypeOK
  <1>2. tok'[w] # NoToken
    BY DEF FInv, TokenHeld
  <1> QED
    BY <1>1, <1>2, OneWorkerMoves DEF Owns

\* Requests, administrators and clocks never touch the lease of a row.
LEMMA RowsKeepFence ==
    ASSUME IInv, FInv, NEW j \in Jobs,
           \/ enqueue_background_job(j)
           \/ requeue_dead_job(j)
           \/ restrict_processing(j)
           \/ BackoffElapses(j)
           \/ LeaseExpires(j)
           \/ \E w \in Workers : LeaseExpiresUnderWorker(w, j)
    PROVE  FInv'
  <1>1. TypeOK /\ job \in [Jobs -> Row] /\ job[j] \in Row
    BY DEF IInv, TypeOK
  <1>2. UNCHANGED <<workerVars, overtaken>>
    BY DEF enqueue_background_job, requeue_dead_job, restrict_processing, BackoffElapses,
           LeaseExpires, LeaseExpiresUnderWorker
  <1>3. \A i \in Jobs \ {j} : job'[i] = job[i]
    BY <1>1 DEF enqueue_background_job, requeue_dead_job, restrict_processing, BackoffElapses,
                LeaseExpires, LeaseExpiresUnderWorker
  <1>4. job[j].status = "processing" =>
            job'[j].status = "processing" /\ job'[j].token = job[j].token
    <2>1. CASE enqueue_background_job(j) \/ requeue_dead_job(j) \/ BackoffElapses(j)
      BY <2>1 DEF enqueue_background_job, requeue_dead_job, BackoffElapses
    <2>2. CASE restrict_processing(j)
      BY <1>1, <2>2 DEF restrict_processing
    <2>3. CASE LeaseExpires(j) \/ \E w \in Workers : LeaseExpiresUnderWorker(w, j)
      <3>1. job' = [job EXCEPT ![j].live = FALSE]
        BY <2>3 DEF LeaseExpires, LeaseExpiresUnderWorker
      <3> QED
        BY <1>1, <3>1 DEF Row
    <2> QED
      BY <2>1, <2>2, <2>3
  <1>5. \A i \in Jobs : job[i].status = "processing" =>
            job'[i].status = "processing" /\ job'[i].token = job[i].token
    BY <1>3, <1>4
  <1> QED
    BY <1>1, <1>2, <1>5, LeasesKept

\* Steps of a worker that write no row.
LEMMA QuietKeepsFence ==
    ASSUME IInv, FInv, NEW w \in Workers,
           \/ RefuseScope(w)
           \/ StartAttempt(w)
           \/ process_background_job(w)
           \/ CheckOwnership(w)
           \/ CommitConflicts(w)
           \/ CommitFails(w)
           \/ RecoverException(w)
           \/ Crash(w)
    PROVE  FInv'
  <1>1. pc[w] # "idle" /\ UNCHANGED <<job, overtaken>>
    BY DEF RefuseScope, StartAttempt, process_background_job, CheckOwnership, CommitConflicts,
           CommitFails, RecoverException, Crash, Committing, rowVars
  <1>2. CASE \E rest : Proceed(w, rest)
    BY <1>1, <1>2, LeavingKeeps
  <1>3. CASE ~\E rest : Proceed(w, rest)
    <2>1. PICK p \in {"rejecting", "running", "finished", "checked", "raised", "recovered"} :
            /\ pc' = [pc EXCEPT ![w] = p]
            /\ UNCHANGED <<tok, cur>>
            /\ p \in {"checked", "recovered", "rejecting"} => \E j \in cur[w] : Owns(w, j)
      <3>1. CASE RefuseScope(w)
        BY <1>3, <3>1 DEF RefuseScope
      <3>2. CASE StartAttempt(w) \/ process_background_job(w)
        BY <3>2 DEF StartAttempt, process_background_job
      <3>3. CASE CheckOwnership(w)
        BY <1>3, <3>3 DEF CheckOwnership
      <3>4. CASE CommitConflicts(w) \/ CommitFails(w)
        BY <1>3, <3>4 DEF CommitConflicts, CommitFails, Raised, Abandon
      <3>5. CASE RecoverException(w)
        BY <1>3, <3>5 DEF RecoverException
      <3>6. CASE Crash(w)
        BY <1>3, <3>6 DEF Crash, Abandon
      <3> QED
        BY <3>1, <3>2, <3>3, <3>4, <3>5, <3>6
    <2>2. p \in {"checked", "recovered", "rejecting"} => \A j \in cur[w] : Owns(w, j)
      BY <2>1 DEF IInv, OneCurrent
    <2> QED
      BY <1>1, <2>1, <2>2, MovingKeeps
  <1> QED
    BY <1>2, <1>3

\* A claim takes a fresh token, and marks as overtaken what it takes from a
\* worker that is about to commit.
LEMMA ClaimKeepsFence ==
    ASSUME IInv, FInv, NEW w \in Workers, claim_executable_background_jobs(w)
    PROVE  FInv'
  <1> DEFINE claimed == Oldest({j \in Jobs : Claimable(j)}, BatchLimit)
  <1>1. PICK t \in Tokens :
          /\ FreshToken(t)
          /\ job' = [j \in Jobs |->
                       IF j \in claimed
                       THEN [job[j] EXCEPT !.status = "processing", !.token = t, !.live = TRUE]
                       ELSE job[j]]
          /\ tok' = [tok EXCEPT ![w] = t]
          /\ overtaken' = overtaken \cup {j \in claimed : InWindow(j)}
    BY DEF claim_executable_background_jobs
  <1>2. pc[w] = "idle" /\ pc' = [pc EXCEPT ![w] = "batch"] /\ cur' = cur
    BY DEF claim_executable_background_jobs
  <1> HIDE DEF claimed
  <1>3. /\ \A v \in Workers \ {w} : pc'[v] = pc[v] /\ tok'[v] = tok[v] /\ cur'[v] = cur[v]
        /\ pc'[w] = "batch" /\ tok'[w] = t
    BY <1>1, <1>2 DEF IInv, TypeOK
  <1>4. t # NoToken /\ \A v \in Workers : tok[v] # t
    BY <1>1, TokensAssumption DEF FreshToken, TokenInUse, NoToken
  <1>5. ASSUME NEW v \in Workers \ {w}, NEW j \in cur[v], Committing(v), Owns(v, j)
        PROVE  \/ job'[j].status = "processing" /\ job'[j].token = job[j].token
               \/ j \in overtaken'
    <2>1. j \in Jobs
      BY DEF IInv, TypeOK
    <2>2. CASE j \in claimed
      <3>1. v \in Holders(j)
        BY <1>5 DEF Holders, Held
      <3>2. InWindow(j)
        BY <1>5, <3>1 DEF InWindow
      <3> QED
        BY <1>1, <2>2, <3>2
    <2>3. CASE j \notin claimed
      BY <1>1, <1>5, <2>1, <2>3 DEF Owns
    <2> QED
      BY <2>2, <2>3
  <1>6. overtaken \subseteq overtaken'
    BY <1>1
  <1> QED
    BY <1>3, <1>4, <1>5, <1>6, OneWorkerMoves

\* A refresh renews the lease it owns.
LEMMA RefreshKeepsFence ==
    ASSUME IInv, FInv, NEW w \in Workers, RefreshLease(w)
    PROVE  FInv'
  <1>1. PICK j \in batch[w] :
          IF Owns(w, j)
          THEN /\ job' = [job EXCEPT ![j].live = TRUE]
               /\ pc' = [pc EXCEPT ![w] = "leased"]
               /\ cur' = [cur EXCEPT ![w] = {j}]
               /\ UNCHANGED tok
          ELSE Proceed(w, batch[w] \ {j}) /\ UNCHANGED job
    BY DEF RefreshLease
  <1>2. pc[w] = "batch" /\ UNCHANGED overtaken
    BY DEF RefreshLease
  <1>3. CASE Owns(w, j)
    <2>1. /\ \A v \in Workers \ {w} : pc'[v] = pc[v] /\ tok'[v] = tok[v] /\ cur'[v] = cur[v]
          /\ pc'[w] = "leased" /\ tok'[w] = tok[w]
      BY <1>1, <1>3 DEF IInv, TypeOK
    <2>2. ASSUME NEW i \in Jobs
          PROVE  job'[i].status = job[i].status /\ job'[i].token = job[i].token
      <3>1. job \in [Jobs -> Row] /\ job[i] \in Row /\ job' = [job EXCEPT ![j].live = TRUE]
        BY <1>1, <1>3 DEF IInv, TypeOK
      <3>2. CASE i = j
        BY <3>1, <3>2 DEF Row
      <3>3. CASE i # j
        BY <3>1, <3>3
      <3> QED
        BY <3>2, <3>3
    <2>3. tok'[w] # NoToken
      BY <1>2, <2>1 DEF FInv, TokenHeld
    <2>4. \A v \in Workers \ {w} : \A i \in cur[v] :
             Owns(v, i) => job'[i].status = "processing" /\ job'[i].token = job[i].token
      BY <2>2 DEF IInv, TypeOK, Owns
    <2> QED
      BY <1>2, <2>1, <2>3, <2>4, OneWorkerMoves
  <1>4. CASE ~Owns(w, j)
    BY <1>1, <1>2, <1>4, LeavingKeeps
  <1> QED
    BY <1>3, <1>4

\* A commit writes a row nobody else owns, or an overtaken one.
LEMMA CommitKeepsFence ==
    ASSUME IInv, FInv, NEW w \in Workers, Commit(w)
    PROVE  FInv'
  <1>1. PICK j \in cur[w] : job' = [job EXCEPT ![j] = Written(w, j)]
    BY DEF Commit
  <1>2. Committing(w) /\ pc[w] # "idle" /\ Proceed(w, batch[w]) /\ UNCHANGED overtaken
    BY DEF Commit, Committing
  <1>3. /\ \A v \in Workers \ {w} : pc'[v] = pc[v] /\ tok'[v] = tok[v] /\ cur'[v] = cur[v]
        /\ pc'[w] \in {"idle", "batch"}
        /\ tok'[w] = NoToken \/ tok'[w] = tok[w]
        /\ pc'[w] # "idle" => tok'[w] = tok[w]
    BY <1>2 DEF IInv, TypeOK, Proceed
  <1>4. pc'[w] # "idle" => tok'[w] # NoToken
    BY <1>2, <1>3 DEF FInv, TokenHeld
  <1>5. ASSUME NEW v \in Workers \ {w}, NEW i \in cur[v], Committing(v), Owns(v, i)
        PROVE  \/ job'[i].status = "processing" /\ job'[i].token = job[i].token
               \/ i \in overtaken'
    <2>1. i \in Jobs /\ pc[v] # "idle"
      BY <1>5 DEF IInv, TypeOK, Committing
    <2>2. CASE i # j
      BY <1>1, <1>5, <2>1, <2>2 DEF IInv, TypeOK, Owns
    <2>3. CASE i = j
      <3>1. Owns(w, j) \/ j \in overtaken
        BY <1>2 DEF FInv, OwnedOrOvertaken
      <3>2. ~Owns(w, j)
        BY <1>5, <2>1, <2>3 DEF Owns, FInv, TokenHeld, TokensUnique
      <3> QED
        BY <1>2, <2>3, <3>1, <3>2
    <2> QED
      BY <2>2, <2>3
  <1> QED
    BY <1>2, <1>3, <1>4, <1>5, OneWorkerMoves

\* Every step keeps the fence.
LEMMA NextFInv == IInv /\ FInv /\ [Next]_vars => FInv'
  <1> SUFFICES ASSUME IInv, FInv, [Next]_vars PROVE FInv'
    OBVIOUS
  <1>1. CASE UNCHANGED vars
    BY <1>1 DEF vars, FInv, TokenHeld, TokensUnique, OwnedOrOvertaken, Committing, Owns
  <1>2. ASSUME NEW w \in Workers, HeartbeatStops(w) PROVE FInv'
    BY <1>2 DEF HeartbeatStops, rowVars, FInv, TokenHeld, TokensUnique, OwnedOrOvertaken, Committing, Owns
  <1>3. CASE Next
    BY <1>2, <1>3, RowsKeepFence, QuietKeepsFence, ClaimKeepsFence, RefreshKeepsFence,
       CommitKeepsFence DEF Next, WorkerStep
  <1> QED
    BY <1>1, <1>3

\* The fence holds throughout.
LEMMA FenceHolds == Spec => [](IInv /\ FInv)
  BY Invariance, InitFInv, NextFInv, PTL DEF Spec

\* A stale attempt commits only if its row was claimed from it between its
\* ownership check and its commit (_process_claimed_jobs_with_attempt_boundary).
THEOREM FencedUnlessOvertaken == Spec => StaleOnlyIfOvertaken
  <1>1. IInv /\ FInv /\ [Next]_vars =>
          [\A w \in Workers : Commit(w) => \A j \in cur[w] : Owns(w, j) \/ j \in overtaken]_vars
    BY DEF FInv, OwnedOrOvertaken, Commit
  <1> QED
    BY <1>1, FenceHolds, PTL DEF Spec, StaleOnlyIfOvertaken

\* A done job that was never overtaken stays done: claims, requeues and
\* restrictions leave it alone, and no commit of a stale attempt reaches it.
THEOREM DoneStaysDone == Spec => DoneIsFinal
  <1>1. ASSUME IInv, FInv, [Next]_vars
        PROVE  [\A j \in Jobs \ overtaken : job[j].status = "done" => job'[j].status = "done"]_vars
    <2> SUFFICES ASSUME Next, NEW j \in Jobs \ overtaken, job[j].status = "done"
                 PROVE  job'[j].status = "done"
      BY <1>1
    <2>1. job \in [Jobs -> Row]
      BY <1>1 DEF IInv, TypeOK
    <2>2. ASSUME NEW i \in Jobs,
                 \/ enqueue_background_job(i) \/ requeue_dead_job(i) \/ restrict_processing(i)
                 \/ BackoffElapses(i) \/ LeaseExpires(i)
                 \/ \E w \in Workers : LeaseExpiresUnderWorker(w, i)
          PROVE  job'[j].status = "done"
      <3>1. CASE i # j
        BY <2>1, <2>2, <3>1 DEF enqueue_background_job, requeue_dead_job, restrict_processing,
             BackoffElapses, LeaseExpires, LeaseExpiresUnderWorker
      <3>2. CASE i = j
        BY <2>1, <2>2, <3>2 DEF enqueue_background_job, requeue_dead_job, restrict_processing,
             BackoffElapses, LeaseExpires, LeaseExpiresUnderWorker, Holders, Owns
      <3> QED
        BY <3>1, <3>2
    <2>3. ASSUME NEW w \in Workers, claim_executable_background_jobs(w)
          PROVE  job'[j].status = "done"
      <3>1. j \notin Oldest({i \in Jobs : Claimable(i)}, BatchLimit)
        BY DEF Oldest, Claimable
      <3> QED
        BY <2>3, <3>1 DEF claim_executable_background_jobs
    <2>4. ASSUME NEW w \in Workers, RefreshLease(w)
          PROVE  job'[j].status = "done"
      BY <2>1, <2>4 DEF RefreshLease, Owns, Row
    <2>5. ASSUME NEW w \in Workers, Commit(w)
          PROVE  job'[j].status = "done"
      <3>1. PICK i \in cur[w] : job' = [job EXCEPT ![i] = Written(w, i)]
        BY <2>5 DEF Commit
      <3>2. Owns(w, i) \/ i \in overtaken
        BY <1>1, <2>5 DEF FInv, OwnedOrOvertaken, Commit
      <3>3. i # j
        BY <3>2 DEF Owns
      <3> QED
        BY <2>1, <3>1, <3>3
    <2>6. ASSUME NEW w \in Workers,
                 \/ RefuseScope(w) \/ StartAttempt(w) \/ process_background_job(w)
                 \/ CheckOwnership(w) \/ CommitConflicts(w) \/ CommitFails(w)
                 \/ RecoverException(w) \/ HeartbeatStops(w) \/ Crash(w)
          PROVE  job'[j].status = "done"
      <3>1. job' = job
        BY <2>6 DEF RefuseScope, StartAttempt, process_background_job, CheckOwnership,
             CommitConflicts, CommitFails, RecoverException, HeartbeatStops, Crash, rowVars
      <3> QED
        BY <3>1
    <2> QED
      BY <2>2, <2>3, <2>4, <2>5, <2>6 DEF Next, WorkerStep
  <1>2. IInv /\ FInv /\ [Next]_vars =>
          [\A j \in Jobs \ overtaken : job[j].status = "done" => job'[j].status = "done"]_vars
    BY <1>1
  <1> QED
    BY <1>2, FenceHolds, PTL DEF Spec, DoneIsFinal

-----------------------------------------------------------------------------
(* What a handler execution is charged to.  A lease that runs out under its  *)
(* worker is a fault; it pays for the execution that worker has begun, or    *)
(* still begins although the row has been claimed from it.                   *)

\* A worker out of a dispatch call holds no row.
IdleHoldsNothing == \A w \in Workers : pc[w] = "idle" => Held(w) = {}

\* A session read the attempts of a row it owns while it owned it.
LoadedIsCurrent ==
    \A w \in Workers : \A j \in Held(w) : Owns(w, j) => loaded[w][j] = job[j].attempts

\* w has begun an execution of j under its lease.
Started(w, j) ==
    /\ pc[w] \in {"running", "finished", "checked", "raised", "recovered"}
    /\ j \in cur[w]
    /\ Owns(w, j)

\* Workers that are about to execute j although they have lost it.
Stale(j) == {w \in Workers : pc[w] = "leased" /\ j \in cur[w] /\ ~Owns(w, j)}

\* The lease of j ran out under the worker that still owns it.
Expired(j) == IF ~job[j].live /\ Holders(j) # {} THEN 1 ELSE 0

\* j has an execution that no committed failure has to account for.
Open(j) == IF job[j].status \in {"done", "dead"} \/ \E w \in Workers : Started(w, j) THEN 1 ELSE 0

Covered(j) == Cardinality(Stale(j)) + Expired(j) <= faults

Paid(j) ==
    runs[j] + Cardinality(Stale(j)) + Expired(j) <= job[j].attempts + faults + Open(j)

\* Before it is enqueued a row is neither held nor executed.
AbsentUntouched ==
    \A j \in Jobs : job[j].status = "absent" =>
        runs[j] = 0 /\ job[j].attempts = 0 /\ \A w \in Workers : j \notin Held(w)

Accounts == \A j \in Jobs \ overtaken : Covered(j) /\ Paid(j)

AInv == IdleHoldsNothing /\ LoadedIsCurrent /\ AbsentUntouched /\ Accounts

USE WorkersAssumption

\* Nothing has been executed at first.
LEMMA InitAInv == Init => AInv
  <1> SUFFICES ASSUME Init PROVE AInv
    OBVIOUS
  <1> USE DEF Init
  <1>1. IdleHoldsNothing /\ LoadedIsCurrent /\ AbsentUntouched
    BY DEF IdleHoldsNothing, LoadedIsCurrent, AbsentUntouched, Held, NoRow
  <1>2. ASSUME NEW j \in Jobs
        PROVE  Covered(j) /\ Paid(j)
    <2>1. Stale(j) = {} /\ Holders(j) = {}
      BY DEF Stale, Holders, Held
    <2>2. Cardinality(Stale(j)) = 0 /\ Expired(j) = 0 /\ Open(j) \in {0, 1}
      BY <2>1, FS_EmptySet DEF Expired, Open
    <2> QED
      BY <2>2 DEF Covered, Paid, NoRow
  <1> QED
    BY <1>1, <1>2 DEF AInv, Accounts

\* The numbers of an account are numbers.
LEMMA AccountNumbers ==
    ASSUME IInv, NEW j \in Jobs
    PROVE  /\ IsFiniteSet(Stale(j)) /\ Cardinality(Stale(j)) \in Nat
           /\ Expired(j) \in {0, 1} /\ Open(j) \in {0, 1}
           /\ runs[j] \in Nat /\ job[j].attempts \in Nat /\ faults \in Nat
  <1>1. IsFiniteSet(Stale(j))
    <2>1. Stale(j) \subseteq Workers
      BY DEF Stale
    <2> QED
      BY <2>1, FS_Subset
  <1>2. job[j] \in Row
    BY DEF IInv, TypeOK
  <1>3. runs[j] \in Nat /\ job[j].attempts \in Nat /\ faults \in Nat
    BY <1>2 DEF IInv, TypeOK, Row
  <1> QED
    BY <1>1, <1>3, FS_CardinalityType DEF Expired, Open

\* An account stays in balance if nothing is added to it, or a fault pays.
LEMMA Carried ==
    ASSUME IInv, IInv', NEW j \in Jobs, Covered(j), Paid(j),
           runs'[j] = runs[j], job'[j].attempts = job[j].attempts,
           Stale(j)' \subseteq Stale(j), Expired(j)' <= Expired(j),
           \/ faults' = faults /\ Open(j) <= Open(j)'
           \/ faults' = faults + 1
    PROVE  Covered(j)' /\ Paid(j)'
  <1> DEFINE n == Cardinality(Stale(j))
             m == Cardinality(Stale(j)')
             e == Expired(j)
             f == Expired(j)'
             o == Open(j)
             q == Open(j)'
  <1>1. /\ n \in Nat /\ e \in {0, 1} /\ o \in {0, 1}
        /\ runs[j] \in Nat /\ job[j].attempts \in Nat /\ faults \in Nat
    BY AccountNumbers
  <1>2. m <= n /\ m \in Nat
    <2>1. IsFiniteSet(Stale(j))
      BY AccountNumbers
    <2>2. IsFiniteSet(Stale(j)') /\ Cardinality(Stale(j)') <= Cardinality(Stale(j))
      BY <2>1, FS_Subset
    <2> QED
      BY <2>2, FS_CardinalityType
  <1>3. f \in {0, 1} /\ q \in {0, 1}
    BY DEF Expired, Open
  <1>4. /\ n + e <= faults
        /\ runs[j] + n + e <= job[j].attempts + faults + o
    BY DEF Covered, Paid
  <1>5. f <= e /\ ((faults' = faults /\ o <= q) \/ faults' = faults + 1)
    OBVIOUS
  <1>6. Cardinality(Stale(j))' = m
    OBVIOUS
  <1> HIDE DEF n, m, e, f, o, q
  <1>7. /\ m + f <= faults'
        /\ runs[j] + m + f <= job[j].attempts + faults' + q
    BY <1>1, <1>2, <1>3, <1>4, <1>5
  <1> QED
    BY <1>6, <1>7 DEF Covered, Paid, f, q, m

\* A step of rows changes no owner of a row whose lease it keeps.
LEMMA SameOwners ==
    ASSUME NEW j \in Jobs, UNCHANGED workerVars,
           job[j].status = "processing" <=> job'[j].status = "processing",
           job[j].status = "processing" => job'[j].token = job[j].token
    PROVE  /\ Stale(j)' = Stale(j) /\ Holders(j)' = Holders(j)
           /\ \A w \in Workers : Started(w, j)' <=> Started(w, j)
  BY DEF Stale, Holders, Held, Started, Owns, workerVars

\* Requests, administrators and clocks: what each makes of its row.
LEMMA RowsKeepAccounts ==
    ASSUME IInv, IInv', AInv, NEW j \in Jobs,
           \/ enqueue_background_job(j)
           \/ requeue_dead_job(j)
           \/ restrict_processing(j)
           \/ BackoffElapses(j)
           \/ LeaseExpires(j)
           \/ \E w \in Workers : LeaseExpiresUnderWorker(w, j)
    PROVE  AInv'
  <1>1. job \in [Jobs -> Row] /\ job[j] \in Row /\ runs \in [Jobs -> Nat] /\ faults \in Nat
    BY DEF IInv, TypeOK
  <1>2. UNCHANGED workerVars /\ overtaken' = overtaken
    BY DEF enqueue_background_job, requeue_dead_job, restrict_processing, BackoffElapses,
           LeaseExpires, LeaseExpiresUnderWorker
  <1>3. faults' \in {faults, faults + 1}
    BY DEF enqueue_background_job, requeue_dead_job, restrict_processing, BackoffElapses,
           LeaseExpires, LeaseExpiresUnderWorker
  <1>4. \A i \in Jobs \ {j} : job'[i] = job[i] /\ runs'[i] = runs[i]
    BY <1>1 DEF enqueue_background_job, requeue_dead_job, restrict_processing, BackoffElapses,
                LeaseExpires, LeaseExpiresUnderWorker
  <1>5. \/ /\ enqueue_background_job(j) \/ requeue_dead_job(j)
           /\ job[j].status \in {"absent", "dead"} /\ job'[j].status = "pending"
           /\ job'[j].attempts = 0 /\ runs'[j] = 0 /\ faults' = faults
        \/ /\ job'[j].attempts = job[j].attempts /\ runs'[j] = runs[j]
           /\ job[j].status = "pending" => job'[j].status \in {"pending", "dead"}
           /\ job[j].status # "pending" => job'[j].status = job[j].status
           /\ job[j].status # "absent"
           /\ job[j].status # "pending" => job'[j].token = job[j].token
           /\ \/ faults' = faults /\ (job[j].live = job'[j].live \/ job[j].status = "pending"
                                      \/ Holders(j) = {})
              \/ faults' = faults + 1 /\ job[j].live
    <2>1. CASE enqueue_background_job(j)
      <3>1. runs'[j] = 0 /\ job[j].status = "absent" /\ faults' = faults
        BY <2>1 DEF enqueue_background_job, AInv, AbsentUntouched
      <3>2. job'[j].status = "pending" /\ job'[j].attempts = 0
        BY <1>1, <2>1 DEF enqueue_background_job, NoRow
      <3> QED
        BY <2>1, <3>1, <3>2
    <2>2. CASE requeue_dead_job(j)
      <3>1. runs'[j] = 0 /\ job[j].status = "dead" /\ faults' = faults
        BY <1>1, <2>2 DEF requeue_dead_job
      <3>2. job'[j].status = "pending" /\ job'[j].attempts = 0
        BY <1>1, <2>2 DEF requeue_dead_job, Unlocked, Row
      <3> QED
        BY <2>2, <3>1, <3>2
    <2>3. CASE restrict_processing(j)
      <3>1. job'[j] = IF job[j].status = "pending" THEN MarkRejected(job[j]) ELSE job[j]
        BY <1>1, <2>3 DEF restrict_processing
      <3>2. MarkRejected(job[j]).status = "dead" /\ MarkRejected(job[j]).attempts = job[j].attempts
        BY <1>1 DEF MarkRejected, Unlocked, Row
      <3>3. runs' = runs /\ faults' = faults /\ job[j].status # "absent"
        BY <2>3 DEF restrict_processing
      <3> QED
        BY <3>1, <3>2, <3>3
    <2>4. CASE BackoffElapses(j)
      BY <1>1, <2>4 DEF BackoffElapses, Row
    <2>5. CASE LeaseExpires(j)
      BY <1>1, <2>5 DEF LeaseExpires, Row
    <2>6. ASSUME NEW w \in Workers, LeaseExpiresUnderWorker(w, j)
          PROVE  /\ job'[j].attempts = job[j].attempts /\ runs'[j] = runs[j]
                 /\ job[j].status = "processing" /\ job'[j].status = job[j].status
                 /\ job'[j].token = job[j].token
                 /\ faults' = faults + 1 /\ job[j].live
      BY <1>1, <2>6 DEF LeaseExpiresUnderWorker, Row, Holders, Owns
    <2> QED
      BY <2>1, <2>2, <2>3, <2>4, <2>5, <2>6
  <1>6. \A i \in Jobs : /\ job[i].status = "processing" <=> job'[i].status = "processing"
                        /\ job[i].status = "processing" =>
                              job'[i].token = job[i].token /\ job'[i].attempts = job[i].attempts
                        /\ job'[i].status = "absent" => job[i].status = "absent" /\ i # j
    BY <1>4, <1>5
  <1>7. IdleHoldsNothing' /\ LoadedIsCurrent' /\ AbsentUntouched'
    <2>1. IdleHoldsNothing'
      BY <1>2 DEF AInv, IdleHoldsNothing, Held, workerVars
    <2>2. LoadedIsCurrent'
      BY <1>2, <1>6 DEF AInv, LoadedIsCurrent, Held, Owns, workerVars, IInv, TypeOK
    <2>3. AbsentUntouched'
      BY <1>2, <1>4, <1>6 DEF AInv, AbsentUntouched, Held, workerVars
    <2> QED
      BY <2>1, <2>2, <2>3
  <1>8. ASSUME NEW i \in Jobs \ overtaken'
        PROVE  Covered(i)' /\ Paid(i)'
    <2>1. i \in Jobs /\ Covered(i) /\ Paid(i)
      BY <1>2 DEF AInv, Accounts
    <2>2. /\ Stale(i)' = Stale(i) /\ Holders(i)' = Holders(i)
          /\ \A w \in Workers : Started(w, i)' <=> Started(w, i)
      BY <1>2, <1>6, SameOwners
    <2>3. CASE i # j
      <3>1. job'[i] = job[i] /\ runs'[i] = runs[i]
        BY <1>4, <2>3
      <3>2. Expired(i)' = Expired(i) /\ Open(i)' = Open(i)
        BY <2>2, <3>1 DEF Expired, Open
      <3>3. Expired(i) \in Int /\ Open(i) \in Int
        BY AccountNumbers
      <3> QED
        BY <1>3, <2>1, <2>2, <3>1, <3>2, <3>3, Carried
    <2>4. CASE i = j /\ job'[j].attempts = 0 /\ runs'[j] = 0 /\ faults' = faults
                     /\ job'[j].status = "pending" /\ job[j].status \in {"absent", "dead"}
      <3>1. Holders(i) = {}
        BY <2>4 DEF Holders, Owns
      <3>2. Expired(i)' = 0 /\ Expired(i) = 0 /\ Open(i)' \in {0, 1}
        BY <2>2, <3>1 DEF Expired, Open
      <3>3. Cardinality(Stale(i))' = Cardinality(Stale(i)) /\ Cardinality(Stale(i)) \in Nat
        BY <2>1, <2>2, AccountNumbers
      <3>4. Cardinality(Stale(i)) + 0 <= faults
        BY <2>1, <3>2 DEF Covered
      <3> QED
        BY <1>1, <2>4, <3>2, <3>3, <3>4 DEF Covered, Paid
    <2>5. CASE i = j /\ job'[j].attempts = job[j].attempts /\ runs'[j] = runs[j]
                     /\ (job[j].status = "pending" => job'[j].status \in {"pending", "dead"})
                     /\ (job[j].status # "pending" => job'[j].status = job[j].status)
                     /\ \/ faults' = faults /\ (job[j].live = job'[j].live
                                     \/ job[j].status = "pending" \/ Holders(j) = {})
                        \/ faults' = faults + 1 /\ job[j].live
      <3>1. Open(i) <= Open(i)'
        BY <2>2, <2>5 DEF Open
      <3>2. job[j].status = "pending" => Holders(j) = {}
        BY DEF Holders, Owns
      <3>3. CASE faults' = faults
        <4>1. Expired(i)' <= Expired(i)
          <5>1. job[j].live = job'[j].live \/ Holders(j) = {}
            BY <1>1, <2>5, <3>2, <3>3
          <5> QED
            BY <2>2, <2>5, <5>1 DEF Expired
        <4> QED
          BY <2>1, <2>2, <2>5, <3>1, <3>3, <4>1, Carried
      <3>4. CASE faults' = faults + 1 /\ job[j].live
        <4> DEFINE n == Cardinality(Stale(i))
                   f == Expired(i)'
                   q == Open(i)'
                   o == Open(i)
        <4>1. Expired(i) = 0
          BY <2>5, <3>4 DEF Expired
        <4>2. Cardinality(Stale(i))' = n
          BY <2>2
        <4>3. f \in {0, 1} /\ n \in Nat /\ q \in {0, 1} /\ o \in {0, 1} /\ o <= q
              /\ runs[i] \in Nat /\ job[i].attempts \in Nat
          <5>1. f \in {0, 1} /\ q \in {0, 1}
            BY DEF Expired, Open
          <5>2. n \in Nat /\ o \in {0, 1} /\ runs[i] \in Nat /\ job[i].attempts \in Nat
            BY <2>1, AccountNumbers
          <5> QED
            BY <3>1, <5>1, <5>2
        <4>4. n + 0 <= faults /\ runs[i] + n + 0 <= job[i].attempts + faults + o
          BY <2>1, <4>1 DEF Covered, Paid
        <4> HIDE DEF n, f, q, o
        <4>5. n + f <= faults + 1 /\ runs[i] + n + f <= job[i].attempts + (faults + 1) + q
          BY <1>1, <4>3, <4>4
        <4> QED
          BY <2>5, <3>4, <4>2, <4>5 DEF Covered, Paid, n, f, q
      <3> QED
        BY <2>5, <3>3, <3>4
    <2> QED
      BY <1>5, <2>3, <2>4, <2>5
  <1> QED
    BY <1>7, <1>8 DEF AInv, Accounts

\* A row is in its account exactly what its workers make of it.
LEMMA SameAccount ==
    ASSUME IInv, IInv', AInv, NEW i \in Jobs \ overtaken, job'[i] = job[i], runs'[i] = runs[i],
           \A v \in Workers :
               /\ v \in Stale(i)' => v \in Stale(i)
               /\ v \in Holders(i)' => v \in Holders(i),
           \/ faults' = faults /\ \A v \in Workers : Started(v, i) => Started(v, i)'
           \/ faults' = faults + 1
    PROVE  Covered(i)' /\ Paid(i)'
  <1>1. Covered(i) /\ Paid(i)
    BY DEF AInv, Accounts
  <1>2. Stale(i)' \subseteq Stale(i)
    BY DEF Stale
  <1>3. Holders(i)' \subseteq Holders(i)
    BY DEF Holders
  <1>4. Expired(i)' <= Expired(i)
    BY <1>3 DEF Expired
  <1>5. faults' = faults => Open(i) <= Open(i)' \/ faults' = faults + 1
    BY DEF Open
  <1> QED
    BY <1>1, <1>2, <1>4, <1>5, Carried

\* A worker that leaves its row, or its call, without writing: it had not begun to
\* execute a row of its own, or a fault is charged.
LEMMA LeavingKeepsAccounts ==
    ASSUME IInv, IInv', AInv, NEW w \in Workers, NEW rest \in SUBSET batch[w], Proceed(w, rest),
           UNCHANGED <<job, runs, overtaken>>,
           \/ faults' = faults /\ \A j \in Jobs \ overtaken : ~Started(w, j)
           \/ faults' = faults + 1
    PROVE  AInv'
  <1>1. /\ \A v \in Workers \ {w} : /\ pc'[v] = pc[v] /\ tok'[v] = tok[v] /\ cur'[v] = cur[v]
                                    /\ batch'[v] = batch[v] /\ loaded'[v] = loaded[v]
        /\ pc'[w] \in {"idle", "batch"} /\ (pc'[w] = "idle" => rest = {})
        /\ cur'[w] = {} /\ batch'[w] = rest
        /\ rest # {} => tok'[w] = tok[w] /\ loaded'[w] = loaded[w]
    BY DEF IInv, TypeOK, Proceed
  <1>2. \A v \in Workers : \A j \in Held(v)' :
            /\ j \in Held(v) /\ tok'[v] = tok[v] /\ loaded'[v] = loaded[v]
            /\ Owns(v, j)' <=> Owns(v, j)
    <2>1. ASSUME NEW v \in Workers, NEW j \in Held(v)'
          PROVE  j \in Held(v) /\ tok'[v] = tok[v] /\ loaded'[v] = loaded[v]
      BY <1>1 DEF Held
    <2> QED
      BY <2>1 DEF Owns
  <1>3. IdleHoldsNothing'
    BY <1>1 DEF AInv, IdleHoldsNothing, Held
  <1>4. LoadedIsCurrent'
    BY <1>2 DEF AInv, LoadedIsCurrent
  <1>5. AbsentUntouched'
    BY <1>2 DEF AInv, AbsentUntouched
  <1>6. ASSUME NEW i \in Jobs \ overtaken
        PROVE  Covered(i)' /\ Paid(i)'
    <2>1. \A v \in Workers : /\ v \in Stale(i)' => v \in Stale(i)
                             /\ v \in Holders(i)' => v \in Holders(i)
      <3>1. ASSUME NEW v \in Workers, v \in Stale(i)'
            PROVE  v \in Stale(i)
        BY <1>1, <3>1 DEF Stale, Owns
      <3>2. ASSUME NEW v \in Workers, v \in Holders(i)'
            PROVE  v \in Holders(i)
        BY <1>2, <3>2 DEF Holders
      <3> QED
        BY <3>1, <3>2
    <2>2. \A v \in Workers \ {w} : Started(v, i) => Started(v, i)'
      BY <1>1 DEF Started, Owns
    <2> QED
      BY <2>1, <2>2, SameAccount
  <1> QED
    BY <1>3, <1>4, <1>5, <1>6 DEF AInv, Accounts

\* A worker that moves on within its row without executing it.
LEMMA MovingKeepsAccounts ==
    ASSUME IInv, IInv', AInv, NEW w \in Workers, NEW p, pc' = [pc EXCEPT ![w] = p],
           UNCHANGED <<job, runs, tok, batch, cur, overtaken>>, pc[w] # "idle",
           \/ loaded' = loaded
           \/ \E j \in cur[w] : loaded' = [loaded EXCEPT ![w][j] = job[j].attempts],
           p \in {"rejecting", "finished", "checked", "raised", "recovered"},
           p = "rejecting" => pc[w] = "leased",
           faults' \in {faults, faults + 1}
    PROVE  AInv'
  <1>1. pc'[w] = p /\ \A v \in Workers \ {w} : pc'[v] = pc[v]
    BY DEF IInv, TypeOK
  <1>2. \A v \in Workers, j \in Jobs : loaded'[v][j] = loaded[v][j] \/ loaded'[v][j] = job[j].attempts
    BY DEF IInv, TypeOK
  <1>3. IdleHoldsNothing' /\ AbsentUntouched'
    BY <1>1 DEF AInv, IdleHoldsNothing, AbsentUntouched, Held
  <1>4. LoadedIsCurrent'
    BY <1>2 DEF AInv, LoadedIsCurrent, Held, Owns, IInv, TypeOK
  <1>5. ASSUME NEW i \in Jobs \ overtaken
        PROVE  Covered(i)' /\ Paid(i)'
    <2>1. \A v \in Workers : /\ v \in Stale(i)' => v \in Stale(i)
                             /\ v \in Holders(i)' => v \in Holders(i)
      BY <1>1 DEF Stale, Holders, Held, Owns
    <2>2. \A v \in Workers : Started(v, i) => Started(v, i)'
      BY <1>1 DEF Started, Owns
    <2> QED
      BY <2>1, <2>2, SameAccount
  <1> QED
    BY <1>3, <1>4, <1>5 DEF AInv, Accounts

\* A row has one owner among the workers that hold it.
LEMMA OneHolder ==
    ASSUME FInv, AInv, NEW j, NEW v \in Holders(j), NEW w \in Holders(j)
    PROVE  v = w
  <1>1. /\ v \in Workers /\ w \in Workers /\ tok[v] = tok[w]
        /\ Held(v) # {} /\ Held(w) # {}
    BY DEF Holders, Owns
  <1>2. tok[v] # NoToken
    BY <1>1 DEF AInv, IdleHoldsNothing, FInv, TokenHeld
  <1> QED
    BY <1>1, <1>2 DEF FInv, TokensUnique

\* The owner is past its ownership check or it was overtaken: a commit that is not
\* refused for the key is of a row that is still active.
LEMMA NoConflictUnlessOvertaken ==
    ASSUME IInv, FInv, NEW w \in Workers, Committing(w), NEW j \in cur[w], ~WriteAllowed(w, j)
    PROVE  j \in overtaken
  <1>1. j \in Jobs
    BY DEF IInv, TypeOK
  <1>2. CASE Owns(w, j)
    <2>1. job[j].status \in Active
      BY <1>2 DEF Owns, Active
    <2>2. KeyFree(j)
      BY <1>1, <2>1 DEF IInv, ActiveKeyUnique, KeyFree
    <2> QED
      BY <2>2 DEF WriteAllowed
  <1>3. CASE ~Owns(w, j)
    BY <1>3 DEF FInv, OwnedOrOvertaken
  <1> QED
    BY <1>2, <1>3

\* The steps of a worker that neither write a row nor execute one.
LEMMA QuietKeepsAccounts ==
    ASSUME IInv, IInv', FInv, AInv, NEW w \in Workers,
           \/ RefuseScope(w)
           \/ process_background_job(w)
           \/ CheckOwnership(w)
           \/ CommitConflicts(w)
           \/ CommitFails(w)
           \/ RecoverException(w)
           \/ Crash(w)
    PROVE  AInv'
  <1> USE DEF rowVars
  <1>1. {} \in SUBSET batch[w] /\ batch[w] \in SUBSET batch[w]
    OBVIOUS
  <1>2. \A i, j \in cur[w] : i = j
    BY DEF IInv, OneCurrent
  <1>3. CASE RefuseScope(w)
    <2>1. \A j \in Jobs : ~Started(w, j)
      BY <1>3 DEF RefuseScope, Started
    <2>2. CASE Proceed(w, batch[w])
      BY <1>1, <1>3, <2>1, <2>2, LeavingKeepsAccounts DEF RefuseScope
    <2>3. CASE ~Proceed(w, batch[w])
      BY <1>3, <2>3, MovingKeepsAccounts DEF RefuseScope
    <2> QED
      BY <2>2, <2>3
  <1>4. CASE process_background_job(w)
    BY <1>4, MovingKeepsAccounts DEF process_background_job
  <1>5. CASE CheckOwnership(w)
    <2>1. CASE Proceed(w, batch[w]) /\ \E j \in cur[w] : ~Owns(w, j)
      <3>1. \A j \in Jobs : ~Started(w, j)
        BY <1>2, <2>1 DEF Started
      <3> QED
        BY <1>1, <1>5, <2>1, <3>1, LeavingKeepsAccounts DEF CheckOwnership
    <2>2. CASE ~(Proceed(w, batch[w]) /\ \E j \in cur[w] : ~Owns(w, j))
      BY <1>5, <2>2, MovingKeepsAccounts DEF CheckOwnership
    <2> QED
      BY <2>1, <2>2
  <1>6. CASE RecoverException(w)
    <2>1. CASE Proceed(w, batch[w]) /\ \E j \in cur[w] : ~Owns(w, j)
      <3>1. \A j \in Jobs : ~Started(w, j)
        BY <1>2, <2>1 DEF Started
      <3> QED
        BY <1>1, <1>6, <2>1, <3>1, LeavingKeepsAccounts DEF RecoverException
    <2>2. CASE ~(Proceed(w, batch[w]) /\ \E j \in cur[w] : ~Owns(w, j))
      <3>1. PICK j \in cur[w] : /\ pc' = [pc EXCEPT ![w] = "recovered"]
                                /\ loaded' = [loaded EXCEPT ![w][j] = job[j].attempts]
                                /\ UNCHANGED <<tok, batch, cur, hb>>
        BY <1>6, <2>2 DEF RecoverException
      <3>2. pc[w] = "raised" /\ UNCHANGED <<job, runs, overtaken, faults>>
        BY <1>6 DEF RecoverException
      <3> QED
        BY <3>1, <3>2, MovingKeepsAccounts
    <2> QED
      BY <2>1, <2>2
  <1>7. CASE Crash(w)
    BY <1>1, <1>7, LeavingKeepsAccounts DEF Crash, Abandon
  <1>8. CASE CommitFails(w)
    <2>1. CASE Proceed(w, {})
      BY <1>1, <1>8, <2>1, LeavingKeepsAccounts DEF CommitFails
    <2>2. CASE ~Proceed(w, {})
      BY <1>8, <2>2, MovingKeepsAccounts DEF CommitFails, Raised, Abandon
    <2> QED
      BY <2>1, <2>2
  <1>9. CASE CommitConflicts(w)
    <2>1. CASE Proceed(w, {})
      <3>1. PICK j \in cur[w] : ~WriteAllowed(w, j)
        BY <1>9 DEF CommitConflicts
      <3>2. j \in overtaken
        BY <1>9, <3>1, NoConflictUnlessOvertaken DEF CommitConflicts
      <3>3. \A i \in Jobs \ overtaken : ~Started(w, i)
        BY <1>2, <3>2 DEF Started
      <3> QED
        BY <1>1, <1>9, <2>1, <3>3, LeavingKeepsAccounts DEF CommitConflicts
    <2>2. CASE ~Proceed(w, {})
      BY <1>9, <2>2, MovingKeepsAccounts DEF CommitConflicts, Raised, Abandon
    <2> QED
      BY <2>1, <2>2
  <1> QED
    BY <1>3, <1>4, <1>5, <1>6, <1>7, <1>8, <1>9

\* An execution: it opens the account of a row the worker owns, and was paid for by
\* the fault that took the row from it otherwise.
LEMMA StartKeepsAccounts ==
    ASSUME IInv, IInv', FInv, AInv, NEW w \in Workers, StartAttempt(w)
    PROVE  AInv'
  <1>1. PICK j \in cur[w] : runs' = [runs EXCEPT ![j] = @ + 1]
    BY DEF StartAttempt
  <1>2. /\ pc[w] = "leased" /\ pc' = [pc EXCEPT ![w] = "running"]
        /\ UNCHANGED <<job, tok, batch, cur, loaded, faults, overtaken>>
    BY DEF StartAttempt, rowVars
  <1>3. pc'[w] = "running" /\ (\A v \in Workers \ {w} : pc'[v] = pc[v]) /\ j \in Jobs
    BY <1>2 DEF IInv, TypeOK
  <1>4. IdleHoldsNothing' /\ LoadedIsCurrent'
    BY <1>2, <1>3 DEF AInv, IdleHoldsNothing, LoadedIsCurrent, Held, Owns
  <1>5. AbsentUntouched'
    BY <1>1, <1>2, <1>3 DEF AInv, AbsentUntouched, Held, IInv, TypeOK
  <1>6. ASSUME NEW i \in Jobs \ overtaken
        PROVE  Covered(i)' /\ Paid(i)'
    <2>1. \A v \in Workers : /\ v \in Stale(i)' => v \in Stale(i)
                             /\ v \in Holders(i)' <=> v \in Holders(i)
                             /\ Started(v, i) => Started(v, i)'
      BY <1>2, <1>3 DEF Stale, Holders, Held, Owns, Started
    <2>2. CASE i # j
      <3>1. runs'[i] = runs[i]
        BY <1>1, <2>2 DEF IInv, TypeOK
      <3> QED
        BY <1>2, <2>1, <3>1, SameAccount
    <2>3. CASE i = j
      <3> DEFINE n == Cardinality(Stale(i))
                 m == Cardinality(Stale(i)')
                 e == Expired(i)
                 o == Open(i)
                 q == Open(i)'
      <3>1. /\ n \in Nat /\ e \in {0, 1} /\ o \in {0, 1} /\ IsFiniteSet(Stale(i))
            /\ runs[i] \in Nat /\ job[i].attempts \in Nat /\ faults \in Nat
        BY AccountNumbers
      <3>2. runs'[i] = runs[i] + 1
        BY <1>1, <2>3 DEF IInv, TypeOK
      <3>3. Expired(i)' = e
        BY <1>2, <2>1 DEF Expired, Holders
      <3>4. n + e <= faults /\ runs[i] + n + e <= job[i].attempts + faults + o
        BY DEF AInv, Accounts, Covered, Paid
      <3>5. q \in {0, 1} /\ o <= q
        BY <1>2, <2>1 DEF Open
      <3>6. Stale(i)' \subseteq Stale(i)
        BY <2>1 DEF Stale
      <3>7. m \in Nat /\ m <= n
        BY <3>1, <3>6, FS_Subset, FS_CardinalityType
      <3>8. CASE Owns(w, i)
        <4>1. q = 1
          <5>1. Started(w, i)'
            BY <1>2, <1>3, <2>3, <3>8 DEF Started, Owns
          <5> QED
            BY <5>1 DEF Open
        <4>2. o = 0
          <5>1. job[i].status \notin {"done", "dead"}
            BY <3>8 DEF Owns
          <5>2. ASSUME NEW v \in Workers, Started(v, i)
                PROVE  FALSE
            <6>1. v \in Holders(i) /\ w \in Holders(i)
              BY <2>3, <3>8, <5>2 DEF Holders, Held, Started
            <6>2. v = w
              BY <6>1, OneHolder
            <6> QED
              BY <1>2, <5>2, <6>2 DEF Started
          <5> QED
            BY <5>1, <5>2 DEF Open
        <4> HIDE DEF n, m, e, o, q
        <4>3. m + e <= faults /\ (runs[i] + 1) + m + e <= job[i].attempts + faults + q
          BY <3>1, <3>4, <3>7, <4>1, <4>2
        <4> QED
          BY <1>2, <3>2, <3>3, <4>3 DEF Covered, Paid, m, q
      <3>9. CASE ~Owns(w, i)
        <4>1. w \in Stale(i) /\ w \notin Stale(i)'
          BY <1>2, <1>3, <2>3, <3>9 DEF Stale
        <4>2. m + 1 <= n
          <5>1. Stale(i)' \subseteq Stale(i) \ {w}
            BY <3>6, <4>1
          <5>2. IsFiniteSet(Stale(i) \ {w}) /\ Cardinality(Stale(i) \ {w}) = n - 1
            BY <3>1, <4>1, FS_RemoveElement
          <5>3. m <= n - 1
            BY <5>1, <5>2, FS_Subset
          <5> QED
            BY <3>1, <3>7, <5>3
        <4> HIDE DEF n, m, e, o, q
        <4>3. m + e <= faults /\ (runs[i] + 1) + m + e <= job[i].attempts + faults + q
          BY <3>1, <3>4, <3>5, <3>7, <4>2
        <4> QED
          BY <1>2, <3>2, <3>3, <4>3 DEF Covered, Paid, m, q
      <3> QED
        BY <3>8, <3>9
    <2> QED
      BY <2>2, <2>3
  <1> QED
    BY <1>2, <1>4, <1>5, <1>6 DEF AInv, Accounts

\* A refresh renews the lease of a row the worker owns, or passes the row over.
LEMMA RefreshKeepsAccounts ==
    ASSUME IInv, IInv', FInv, AInv, NEW w \in Workers, RefreshLease(w)
    PROVE  AInv'
  <1>1. PICK j \in batch[w] :
          IF Owns(w, j)
          THEN /\ job' = [job EXCEPT ![j].live = TRUE]
               /\ pc' = [pc EXCEPT ![w] = "leased"]
               /\ cur' = [cur EXCEPT ![w] = {j}]
               /\ batch' = [batch EXCEPT ![w] = @ \ {j}]
               /\ UNCHANGED <<tok, loaded, result, hb>>
          ELSE Proceed(w, batch[w] \ {j}) /\ UNCHANGED job
    BY DEF RefreshLease
  <1>2. pc[w] = "batch" /\ UNCHANGED <<overtaken, faults, runs>>
    BY DEF RefreshLease
  <1>3. CASE Owns(w, j)
    <2>1. /\ \A v \in Workers \ {w} : pc'[v] = pc[v] /\ cur'[v] = cur[v] /\ batch'[v] = batch[v]
          /\ pc'[w] = "leased" /\ cur'[w] = {j} /\ batch'[w] = batch[w] \ {j}
          /\ tok' = tok /\ loaded' = loaded /\ j \in Jobs
      BY <1>1, <1>3 DEF IInv, TypeOK
    <2>2. ASSUME NEW i \in Jobs
          PROVE  /\ job'[i].status = job[i].status /\ job'[i].token = job[i].token
                 /\ job'[i].attempts = job[i].attempts
                 /\ job'[i].live = job[i].live \/ job'[i].live
      <3>1. job \in [Jobs -> Row] /\ job[i] \in Row /\ job' = [job EXCEPT ![j].live = TRUE]
        BY <1>1, <1>3 DEF IInv, TypeOK
      <3>2. CASE i = j
        BY <3>1, <3>2 DEF Row
      <3>3. CASE i # j
        BY <3>1, <3>3
      <3> QED
        BY <3>2, <3>3
    <2>3. \A v \in Workers : Held(v)' \subseteq Held(v) /\ Held(v) \subseteq Jobs
      BY <2>1 DEF Held, IInv, TypeOK
    <2>4. \A v \in Workers, i \in Jobs : Owns(v, i)' <=> Owns(v, i)
      BY <2>1, <2>2 DEF Owns
    <2>5. IdleHoldsNothing'
      BY <2>1 DEF AInv, IdleHoldsNothing, Held
    <2>6. LoadedIsCurrent'
      BY <2>1, <2>2, <2>3, <2>4 DEF AInv, LoadedIsCurrent
    <2>7. AbsentUntouched'
      BY <1>2, <2>2, <2>3 DEF AInv, AbsentUntouched
    <2>8. ASSUME NEW i \in Jobs \ overtaken
          PROVE  Covered(i)' /\ Paid(i)'
      <3>1. Stale(i)' \subseteq Stale(i)
        BY <1>3, <2>1, <2>4 DEF Stale
      <3>2. Holders(i)' \subseteq Holders(i)
        BY <2>3, <2>4 DEF Holders
      <3>3. \A v \in Workers : Started(v, i) => Started(v, i)'
        BY <1>2, <2>1, <2>4 DEF Started
      <3>4. Expired(i)' <= Expired(i)
        BY <2>2, <3>2 DEF Expired
      <3>5. Open(i) <= Open(i)'
        BY <2>2, <3>3 DEF Open
      <3>6. Covered(i) /\ Paid(i)
        BY DEF AInv, Accounts
      <3> QED
        BY <1>2, <2>2, <3>1, <3>4, <3>5, <3>6, Carried
    <2> QED
      BY <1>2, <2>5, <2>6, <2>7, <2>8 DEF AInv, Accounts
  <1>4. CASE ~Owns(w, j)
    <2>1. \A i \in Jobs : ~Started(w, i)
      BY <1>2 DEF Started
    <2>2. batch[w] \ {j} \in SUBSET batch[w] /\ Proceed(w, batch[w] \ {j}) /\ UNCHANGED job
      BY <1>1, <1>4
    <2> QED
      BY <1>2, <2>1, <2>2, LeavingKeepsAccounts
  <1> QED
    BY <1>3, <1>4

\* A claim: a row whose lease ran out under its worker was charged for what that
\* worker has begun, or may still begin.
LEMMA ClaimKeepsAccounts ==
    ASSUME IInv, IInv', FInv, AInv, NEW w \in Workers, claim_executable_background_jobs(w)
    PROVE  AInv'
  <1> DEFINE claimed == Oldest({j \in Jobs : Claimable(j)}, BatchLimit)
  <1>1. PICK t \in Tokens :
          /\ FreshToken(t)
          /\ job' = [j \in Jobs |->
                       IF j \in claimed
                       THEN [job[j] EXCEPT !.status = "processing", !.token = t, !.live = TRUE]
                       ELSE job[j]]
          /\ tok' = [tok EXCEPT ![w] = t]
          /\ batch' = [batch EXCEPT ![w] = claimed]
          /\ loaded' = [loaded EXCEPT ![w] = [j \in Jobs |-> IF j \in claimed THEN job[j].attempts ELSE 0]]
          /\ overtaken \subseteq overtaken'
    BY DEF claim_executable_background_jobs
  <1>2. pc[w] = "idle" /\ pc' = [pc EXCEPT ![w] = "batch"] /\ UNCHANGED <<cur, runs, faults>>
    BY DEF claim_executable_background_jobs
  <1>3. /\ claimed \subseteq Jobs
        /\ \A j \in claimed : Claimable(j)
    BY DEF Oldest
  <1> HIDE DEF claimed
  <1>4. /\ \A v \in Workers \ {w} : /\ pc'[v] = pc[v] /\ tok'[v] = tok[v] /\ cur'[v] = cur[v]
                                    /\ batch'[v] = batch[v] /\ loaded'[v] = loaded[v]
        /\ pc'[w] = "batch" /\ tok'[w] = t /\ batch'[w] = claimed /\ cur'[w] = {} /\ Held(w) = {}
        /\ \A j \in claimed : loaded'[w][j] = job[j].attempts
    BY <1>1, <1>2, <1>3 DEF IInv, TypeOK, AInv, IdleHoldsNothing, Held
  <1>5. /\ \A v \in Workers : tok[v] # t
        /\ \A j \in Jobs : job[j].token # t
    BY <1>1 DEF FreshToken, TokenInUse
  <1>6. ASSUME NEW j \in Jobs
        PROVE  IF j \in claimed
               THEN /\ job'[j].status = "processing" /\ job'[j].token = t /\ job'[j].live
                    /\ job'[j].attempts = job[j].attempts
               ELSE job'[j] = job[j]
    <2>1. job[j] \in Row
      BY DEF IInv, TypeOK
    <2> QED
      BY <1>1, <2>1 DEF Row
  <1>7. IdleHoldsNothing'
    BY <1>4 DEF AInv, IdleHoldsNothing, Held
  <1>8. LoadedIsCurrent'
    <2>1. ASSUME NEW v \in Workers, NEW j \in Held(v)', Owns(v, j)'
          PROVE  loaded'[v][j] = job'[j].attempts
      <3>1. CASE v = w
        BY <1>3, <1>4, <1>6, <3>1 DEF Held
      <3>2. CASE v # w
        <4>1. j \in Held(v) /\ j \in Jobs /\ tok'[v] = tok[v] /\ tok[v] # t /\ loaded'[v] = loaded[v]
          BY <1>4, <1>5, <3>2 DEF Held, IInv, TypeOK
        <4>2. j \notin claimed
          BY <1>6, <2>1, <4>1 DEF Owns
        <4> QED
          BY <1>6, <2>1, <4>1, <4>2 DEF Owns, AInv, LoadedIsCurrent
      <3> QED
        BY <3>1, <3>2
    <2> QED
      BY <2>1 DEF LoadedIsCurrent
  <1>9. AbsentUntouched'
    <2>1. ASSUME NEW j \in Jobs, job'[j].status = "absent"
          PROVE  runs'[j] = 0 /\ job'[j].attempts = 0 /\ \A v \in Workers : j \notin Held(v)'
      <3>1. j \notin claimed /\ job[j].status = "absent"
        BY <1>6, <2>1
      <3> QED
        BY <1>2, <1>4, <1>6, <3>1 DEF AInv, AbsentUntouched, Held
    <2> QED
      BY <2>1 DEF AbsentUntouched
  <1>10. ASSUME NEW i \in Jobs \ overtaken
         PROVE  Covered(i)' /\ Paid(i)'
    <2>1. CASE i \notin claimed
      <3>1. job'[i] = job[i] /\ runs'[i] = runs[i]
        BY <1>2, <1>6, <2>1
      <3>2. \A v \in Workers : /\ v \in Stale(i)' => v \in Stale(i)
                               /\ v \in Holders(i)' => v \in Holders(i)
                               /\ Started(v, i) => Started(v, i)'
        BY <1>2, <1>4, <2>1, <3>1 DEF Stale, Holders, Held, Owns, Started
      <3> QED
        BY <1>2, <3>1, <3>2, SameAccount
    <2>2. CASE i \in claimed
      <3> DEFINE n == Cardinality(Stale(i))
                 m == Cardinality(Stale(i)')
                 e == Expired(i)
                 o == Open(i)
                 q == Open(i)'
      <3>1. /\ n \in Nat /\ e \in {0, 1} /\ o \in {0, 1} /\ IsFiniteSet(Stale(i))
            /\ runs[i] \in Nat /\ job[i].attempts \in Nat /\ faults \in Nat
        BY AccountNumbers
      <3>2. n + e <= faults /\ runs[i] + n + e <= job[i].attempts + faults + o
        BY DEF AInv, Accounts, Covered, Paid
      <3>3. /\ job'[i].status = "processing" /\ job'[i].token = t /\ job'[i].live
            /\ job'[i].attempts = job[i].attempts
        BY <1>6, <2>2
      <3>4. Expired(i)' = 0 /\ q \in {0, 1}
        BY <3>3 DEF Expired, Open
      <3>5. \A v \in Stale(i)' : v \in Stale(i) \/ (v \in Holders(i) /\ pc[v] = "leased")
        BY <1>4 DEF Stale, Holders, Held
      <3>6. \A v \in Workers : Started(v, i) => v \in Holders(i) /\ pc[v] # "leased"
        BY DEF Started, Holders, Held
      <3>7. job[i].status \notin {"done", "dead"} /\ (job[i].live => Holders(i) = {})
        BY <1>3, <2>2 DEF Claimable, Holders, Owns
      <3>8. CASE Holders(i) = {}
        <4>1. o = 0 /\ Stale(i)' \subseteq Stale(i)
          BY <3>5, <3>6, <3>7, <3>8 DEF Open
        <4>2. m \in Nat /\ m <= n
          BY <3>1, <4>1, FS_Subset, FS_CardinalityType
        <4> HIDE DEF n, m, e, o, q
        <4>3. m <= faults /\ runs[i] + m <= job[i].attempts + faults + q
          BY <3>1, <3>2, <3>4, <4>1, <4>2
        <4> QED
          BY <1>2, <3>1, <3>3, <3>4, <4>2, <4>3 DEF Covered, Paid, m, q
      <3>9. CASE Holders(i) # {}
        <4>1. PICK h \in Holders(i) : \A v \in Holders(i) : v = h
          BY <3>9, OneHolder
        <4>2. e = 1
          BY <3>7, <3>9 DEF Expired
        <4>3. Stale(i)' \subseteq Stale(i) \cup {h}
          BY <3>5, <4>1
        <4>4. m \in Nat /\ m <= n + 1
          <5>1. IsFiniteSet(Stale(i) \cup {h}) /\ Cardinality(Stale(i) \cup {h}) \in {n, n + 1}
            BY <3>1, FS_AddElement
          <5>2. m <= Cardinality(Stale(i) \cup {h}) /\ IsFiniteSet(Stale(i)')
            BY <4>3, <5>1, FS_Subset
          <5>3. m \in Nat
            BY <5>2, FS_CardinalityType
          <5> QED
            BY <3>1, <5>1, <5>2, <5>3
        <4>5. o = 1 => m <= n
          <5>1. o = 1 => Stale(i)' \subseteq Stale(i)
            BY <3>5, <3>6, <3>7, <4>1 DEF Open
          <5> QED
            BY <3>1, <5>1, FS_Subset
        <4> HIDE DEF n, m, e, o, q
        <4>6. m <= faults /\ runs[i] + m <= job[i].attempts + faults + q
          BY <3>1, <3>2, <3>4, <4>2, <4>4, <4>5
        <4> QED
          BY <1>2, <3>1, <3>3, <3>4, <4>4, <4>6 DEF Covered, Paid, m, q
      <3> QED
        BY <3>8, <3>9
    <2> QED
      BY <2>1, <2>2
  <1> QED
    BY <1>1, <1>7, <1>8, <1>9, <1>10 DEF AInv, Accounts

\* What a commit makes of the attempts of a row.
LEMMA WrittenAttempts ==
    ASSUME IInv, NEW w \in Workers, NEW j \in cur[w], Committing(w)
    PROVE  /\ Written(w, j).status \in {"done", "dead", "pending"}
           /\ Written(w, j).attempts \in {job[j].attempts, loaded[w][j] + 1}
           /\ Written(w, j).status = "pending" => Written(w, j).attempts = loaded[w][j] + 1
  <1>1. j \in Jobs /\ job[j] \in Row
    BY DEF IInv, TypeOK
  <1>2. loaded[w][j] \in Nat /\ loaded[w][j] < MaxAttempts
    BY <1>1 DEF IInv, TypeOK, LoadedBelowMax
  <1>3. CASE result[w] = "done"
    <2>1. Written(w, j) = MarkDone(job[j])
      BY <1>3 DEF Written
    <2> QED
      BY <1>1, <2>1 DEF MarkDone, Unlocked, Row
  <1>4. CASE result[w] = "retry"
    <2>1. Written(w, j) = MarkRetry(job[j], loaded[w][j])
      BY <1>4 DEF Written
    <2> DEFINE r == job[j]
               n == loaded[w][j]
    <2>2. r \in Row /\ n \in Nat /\ n < MaxAttempts
      BY <1>1, <1>2
    <2> HIDE DEF r, n
    <2>3. MarkRetry(r, n).attempts = n + 1 /\ MarkRetry(r, n).status \in {"dead", "pending"}
      BY <2>2, MarkRetryRow
    <2> QED
      BY <2>1, <2>3 DEF r, n
  <1>5. CASE result[w] = "reject"
    <2>1. Written(w, j) = MarkRejected(job[j])
      BY <1>5 DEF Written
    <2> QED
      BY <1>1, <2>1 DEF MarkRejected, Unlocked, Row
  <1>6. result[w] \in {"done", "retry", "reject"}
    BY DEF IInv, ResultMatchesPc, Committing
  <1> QED
    BY <1>3, <1>4, <1>5, <1>6

\* A commit closes the account of its execution, or charges it as an attempt.
LEMMA CommitKeepsAccounts ==
    ASSUME IInv, IInv', FInv, AInv, NEW w \in Workers, Commit(w)
    PROVE  AInv'
  <1>1. PICK j \in cur[w] : job' = [job EXCEPT ![j] = Written(w, j)]
    BY DEF Commit
  <1>2. /\ Committing(w) /\ Proceed(w, batch[w]) /\ UNCHANGED <<runs, faults, overtaken>>
        /\ j \in Jobs
    BY DEF Commit, IInv, TypeOK
  <1>3. /\ \A v \in Workers \ {w} : /\ pc'[v] = pc[v] /\ tok'[v] = tok[v] /\ cur'[v] = cur[v]
                                    /\ batch'[v] = batch[v] /\ loaded'[v] = loaded[v]
        /\ pc'[w] \in {"idle", "batch"} /\ (pc'[w] = "idle" => batch[w] = {})
        /\ cur'[w] = {} /\ batch'[w] = batch[w]
        /\ batch[w] # {} => tok'[w] = tok[w] /\ loaded'[w] = loaded[w]
    BY <1>2 DEF IInv, TypeOK, Proceed
  <1>4. /\ Written(w, j).status \in {"done", "dead", "pending"}
        /\ Written(w, j).attempts \in {job[j].attempts, loaded[w][j] + 1}
        /\ Written(w, j).status = "pending" => Written(w, j).attempts = loaded[w][j] + 1
    BY <1>2, WrittenAttempts
  <1>5. job'[j] = Written(w, j) /\ \A i \in Jobs \ {j} : job'[i] = job[i]
    BY <1>1, <1>2 DEF IInv, TypeOK
  <1>6. \A v \in Workers : \A i \in Held(v)' :
            i \in Held(v) /\ i \in Jobs /\ tok'[v] = tok[v] /\ loaded'[v] = loaded[v]
    BY <1>3 DEF Held, IInv, TypeOK
  <1>7. IdleHoldsNothing'
    BY <1>3 DEF AInv, IdleHoldsNothing, Held
  <1>8. LoadedIsCurrent'
    <2>1. ASSUME NEW v \in Workers, NEW i \in Held(v)', Owns(v, i)'
          PROVE  loaded'[v][i] = job'[i].attempts
      <3>1. i # j
        BY <1>4, <1>5, <2>1 DEF Owns
      <3> QED
        BY <1>5, <1>6, <2>1, <3>1 DEF Owns, AInv, LoadedIsCurrent
    <2> QED
      BY <2>1 DEF LoadedIsCurrent
  <1>9. AbsentUntouched'
    BY <1>2, <1>4, <1>5, <1>6 DEF AInv, AbsentUntouched
  <1>10. ASSUME NEW i \in Jobs \ overtaken
         PROVE  Covered(i)' /\ Paid(i)'
    <2>1. CASE i # j
      <3>1. job'[i] = job[i] /\ runs'[i] = runs[i] /\ i \notin cur[w]
        BY <1>2, <1>5, <2>1 DEF IInv, OneCurrent
      <3>2. ASSUME NEW v \in Workers
            PROVE  /\ v \in Stale(i)' => v \in Stale(i)
                   /\ v \in Holders(i)' => v \in Holders(i)
                   /\ Started(v, i) => Started(v, i)'
        <4>1. CASE v = w
          BY <1>3, <1>6, <3>1, <4>1 DEF Stale, Holders, Held, Owns, Started
        <4>2. CASE v # w
          BY <1>3, <3>1, <4>2 DEF Stale, Holders, Held, Owns, Started
        <4> QED
          BY <4>1, <4>2
      <3> QED
        BY <1>2, <3>1, <3>2, SameAccount
    <2>2. CASE i = j
      <3> DEFINE n == Cardinality(Stale(i))
                 m == Cardinality(Stale(i)')
                 e == Expired(i)
                 o == Open(i)
                 q == Open(i)'
                 a == job[i].attempts
                 b == job'[i].attempts
      <3>1. /\ n \in Nat /\ e \in {0, 1} /\ o \in {0, 1} /\ IsFiniteSet(Stale(i))
            /\ runs[i] \in Nat /\ a \in Nat /\ faults \in Nat
        BY AccountNumbers
      <3>2. n + e <= faults /\ runs[i] + n + e <= a + faults + o
        BY DEF AInv, Accounts, Covered, Paid
      <3>3. Owns(w, i) /\ w \in Holders(i)
        BY <1>2, <2>2 DEF FInv, OwnedOrOvertaken, Holders, Held
      <3>4. loaded[w][i] = a
        BY <2>2, <3>3 DEF AInv, LoadedIsCurrent, Held
      <3>5. b \in {a, a + 1} /\ (job'[i].status = "pending" => b = a + 1)
        BY <1>4, <1>5, <2>2, <3>4
      <3>6. Expired(i)' = 0
        BY <1>4, <1>5, <2>2 DEF Expired, Holders, Owns
      <3>7. q \in {0, 1} /\ (job'[i].status # "pending" => q = 1)
        BY <1>4, <1>5, <2>2 DEF Open
      <3>8. Stale(i)' \subseteq Stale(i)
        <4>1. ASSUME NEW v \in Stale(i)'
              PROVE  v \in Stale(i)
          <5>1. v \in Workers /\ v # w /\ pc[v] = "leased" /\ i \in cur[v]
            BY <1>3 DEF Stale
          <5>2. ~Owns(v, i)
            BY <3>3, <5>1, OneHolder DEF Holders, Held
          <5> QED
            BY <5>1, <5>2 DEF Stale
        <4> QED
          BY <4>1
      <3>9. m \in Nat /\ m <= n
        BY <3>1, <3>8, FS_Subset, FS_CardinalityType
      <3> HIDE DEF n, m, e, o, q, a, b
      <3>10. m <= faults /\ runs[i] + m <= b + faults + q
        <4>1. CASE job'[i].status = "pending"
          BY <3>1, <3>2, <3>5, <3>7, <3>9, <4>1
        <4>2. CASE job'[i].status # "pending"
          BY <3>1, <3>2, <3>5, <3>7, <3>9, <4>2
        <4> QED
          BY <4>1, <4>2
      <3> QED
        BY <1>2, <3>1, <3>6, <3>9, <3>10 DEF Covered, Paid, m, q, b
    <2> QED
      BY <2>1, <2>2
  <1> QED
    BY <1>2, <1>7, <1>8, <1>9, <1>10 DEF AInv, Accounts

\* Every step keeps the accounts.
LEMMA NextAInv == IInv /\ IInv' /\ FInv /\ AInv /\ [Next]_vars => AInv'
  <1> SUFFICES ASSUME IInv, IInv', FInv, AInv, [Next]_vars PROVE AInv'
    OBVIOUS
  <1>1. ASSUME UNCHANGED <<job, pc, tok, batch, cur, loaded, faults, runs, overtaken>>
        PROVE  AInv'
    <2>1. IdleHoldsNothing' /\ LoadedIsCurrent' /\ AbsentUntouched'
      BY <1>1 DEF AInv, IdleHoldsNothing, LoadedIsCurrent, AbsentUntouched, Held, Owns
    <2>2. ASSUME NEW i \in Jobs \ overtaken
          PROVE  Covered(i)' /\ Paid(i)'
      <3>1. \A v \in Workers : /\ v \in Stale(i)' => v \in Stale(i)
                               /\ v \in Holders(i)' => v \in Holders(i)
                               /\ Started(v, i) => Started(v, i)'
        BY <1>1 DEF Stale, Holders, Held, Owns, Started
      <3> QED
        BY <1>1, <3>1, SameAccount
    <2> QED
      BY <1>1, <2>1, <2>2 DEF AInv, Accounts
  <1>2. CASE UNCHANGED vars
    BY <1>1, <1>2 DEF vars
  <1>3. ASSUME NEW w \in Workers, HeartbeatStops(w) PROVE AInv'
    BY <1>1, <1>3 DEF HeartbeatStops, rowVars
  <1>4. CASE Next
    BY <1>3, <1>4, RowsKeepAccounts, QuietKeepsAccounts, StartKeepsAccounts, RefreshKeepsAccounts,
       ClaimKeepsAccounts, CommitKeepsAccounts DEF Next, WorkerStep
  <1> QED
    BY <1>2, <1>4

\* The accounts balance throughout.
LEMMA AccountsHold == Spec => [](IInv /\ FInv /\ AInv)
  BY FenceHolds, InitAInv, NextAInv, PTL DEF Spec

\* For every number of workers and faults: an execution of a handler beyond the first is
\* accounted for by a committed failure or by a fault, unless the row was claimed between
\* an ownership check and its commit.
THEOREM ExecutionsPaid == Spec => []RunsArePaidFor
  <1>1. ASSUME IInv, AInv PROVE RunsArePaidFor
    <2> SUFFICES ASSUME NEW j \in Jobs \ overtaken
                 PROVE  runs[j] <= job[j].attempts + faults
                                     + (IF job[j].status = "pending" THEN 0 ELSE 1)
      BY DEF RunsArePaidFor
    <2> DEFINE n == Cardinality(Stale(j))
               e == Expired(j)
               o == Open(j)
    <2>1. /\ n \in Nat /\ e \in {0, 1} /\ o \in {0, 1}
          /\ runs[j] \in Nat /\ job[j].attempts \in Nat /\ faults \in Nat
      BY <1>1, AccountNumbers
    <2>2. runs[j] + n + e <= job[j].attempts + faults + o
      BY <1>1 DEF AInv, Accounts, Paid
    <2>3. job[j].status = "pending" => o = 0
      BY DEF Open, Started, Owns
    <2> HIDE DEF n, e, o
    <2> QED
      BY <2>1, <2>2, <2>3
  <1> QED
    BY <1>1, AccountsHold, PTL

\* attempt_count grows by one committed failure at a time until an administrator
\* requeues the row: what a session read when it claimed is what it finds when it commits.
THEOREM FailuresCounted == Spec => AttemptsCountFailures
  <1>1. ASSUME IInv, FInv, AInv, Next, NEW j \in Jobs \ overtaken
        PROVE  \/ job'[j].attempts \in {job[j].attempts, job[j].attempts + 1}
               \/ requeues' > requeues
    <2>1. job \in [Jobs -> Row] /\ job[j] \in Row /\ requeues \in Nat
      BY <1>1 DEF IInv, TypeOK
    <2>2. ASSUME NEW i \in Jobs,
                 \/ enqueue_background_job(i) \/ requeue_dead_job(i) \/ restrict_processing(i)
                 \/ BackoffElapses(i) \/ LeaseExpires(i)
                 \/ \E w \in Workers : LeaseExpiresUnderWorker(w, i)
          PROVE  job'[j].attempts = job[j].attempts \/ requeues' > requeues
      <3>1. CASE i # j
        BY <2>1, <2>2, <3>1 DEF enqueue_background_job, requeue_dead_job, restrict_processing,
             BackoffElapses, LeaseExpires, LeaseExpiresUnderWorker
      <3>2. CASE i = j /\ enqueue_background_job(i)
        <4>1. job[j].attempts = 0
          BY <1>1, <3>2 DEF enqueue_background_job, AInv, AbsentUntouched
        <4> QED
          BY <2>1, <3>2, <4>1 DEF enqueue_background_job, NoRow
      <3>3. CASE requeue_dead_job(i)
        BY <2>1, <3>3 DEF requeue_dead_job
      <3>4. CASE i = j /\ restrict_processing(i)
        BY <2>1, <3>4 DEF restrict_processing, MarkRejected, Unlocked, Row
      <3>5. CASE i = j /\ (BackoffElapses(i) \/ LeaseExpires(i)
                            \/ \E w \in Workers : LeaseExpiresUnderWorker(w, i))
        BY <2>1, <3>5 DEF BackoffElapses, LeaseExpires, LeaseExpiresUnderWorker, Row
      <3> QED
        BY <2>2, <3>1, <3>2, <3>3, <3>4, <3>5
    <2>3. ASSUME NEW w \in Workers, claim_executable_background_jobs(w)
          PROVE  job'[j].attempts = job[j].attempts
      <3>1. PICK t \in Tokens :
              job'[j] \in {job[j],
                          [job[j] EXCEPT !.status = "processing", !.token = t, !.live = TRUE]}
        BY <2>3 DEF claim_executable_background_jobs
      <3> QED
        BY <2>1, <3>1 DEF Row
    <2>4. ASSUME NEW w \in Workers, RefreshLease(w)
          PROVE  job'[j].attempts = job[j].attempts
      BY <2>1, <2>4 DEF RefreshLease, Row
    <2>5. ASSUME NEW w \in Workers, Commit(w)
          PROVE  job'[j].attempts \in {job[j].attempts, job[j].attempts + 1}
      <3>1. PICK i \in cur[w] : job' = [job EXCEPT ![i] = Written(w, i)]
        BY <2>5 DEF Commit
      <3>2. CASE i # j
        BY <2>1, <3>1, <3>2
      <3>3. CASE i = j
        <4>1. Committing(w)
          BY <2>5 DEF Commit
        <4>2. Owns(w, j)
          BY <1>1, <3>3, <4>1 DEF FInv, OwnedOrOvertaken
        <4>3. loaded[w][j] = job[j].attempts
          BY <1>1, <3>3, <4>2 DEF AInv, LoadedIsCurrent, Held
        <4>4. Written(w, j).attempts \in {job[j].attempts, loaded[w][j] + 1}
          BY <1>1, <3>3, <4>1, WrittenAttempts
        <4> QED
          BY <2>1, <3>1, <3>3, <4>3, <4>4
      <3> QED
        BY <3>2, <3>3
    <2>6. ASSUME NEW w \in Workers,
                 \/ RefuseScope(w) \/ StartAttempt(w) \/ process_background_job(w)
                 \/ CheckOwnership(w) \/ CommitConflicts(w) \/ CommitFails(w)
                 \/ RecoverException(w) \/ HeartbeatStops(w) \/ Crash(w)
          PROVE  job'[j].attempts = job[j].attempts
      <3>1. job' = job
        BY <2>6 DEF RefuseScope, StartAttempt, process_background_job, CheckOwnership,
             CommitConflicts, CommitFails, RecoverException, HeartbeatStops, Crash, rowVars
      <3> QED
        BY <3>1
    <2> QED
      BY <1>1, <2>2, <2>3, <2>4, <2>5, <2>6 DEF Next, WorkerStep
  <1>2. IInv /\ FInv /\ AInv /\ [Next]_vars =>
          [\A j \in Jobs \ overtaken :
              \/ job'[j].attempts \in {job[j].attempts, job[j].attempts + 1}
              \/ requeues' > requeues]_vars
    BY <1>1
  <1> QED
    BY <1>2, AccountsHold, PTL DEF Spec, AttemptsCountFailures
=============================================================================
