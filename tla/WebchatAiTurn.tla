--------------------------- MODULE WebchatAiTurn ----------------------------
(***************************************************************************)
(* The AI turns of one WebChat conversation: what the visitor's messages   *)
(* schedule, how a worker runs the job of a turn, how an operator takes    *)
(* the conversation over, and how the reconciler repairs what is left.     *)
(*                                                                         *)
(* A turn is named after the visitor message that triggered it (its        *)
(* trigger_message_id is unique), and so is its background job.  An        *)
(* action is a transaction, or a step between two reads or writes that     *)
(* others can interleave with.  Sessions keep what they loaded             *)
(* (expire_on_commit=False): a worker's view of the conversation and of    *)
(* the turn is a cache, and an update writes the columns it changed.  A    *)
(* flushed row is locked until commit or rollback.                         *)
(***************************************************************************)
EXTENDS Naturals, Sequences, FiniteSets, FiniteSetsExt

CONSTANTS
    Workers,       \* processes that run dispatch_pending_webchat_ai_reply_jobs
    Reconcilers,   \* processes that run reconcile_webchat_ai_state
    MaxMessages,   \* bound: visitor messages
    MaxAttempts,   \* max_attempts of a job
    MaxFaults,     \* bound: crashes, lost leases, failed commits, refusals
    MaxTakeovers,  \* bound: times an operator takes over
    Refusals,      \* may a job be refused for its execution scope?
    Overlap,       \* does anything happen between a reconciler's read and its write?
    NoWorker       \* locked_by is NULL

ASSUME TurnAssumption ==
    /\ MaxMessages \in Nat
    /\ MaxAttempts \in Nat \ {0}
    /\ MaxFaults \in Nat
    /\ MaxTakeovers \in Nat
    /\ {Refusals, Overlap} \subseteq BOOLEAN
    /\ NoWorker \notin Workers

VARIABLES
    posted,     \* visitor messages committed so far: the latest one's number
    slot,       \* webchat_conversations: active_ai_turn_id, next_ai_turn_id
    suspended,  \* webchat_conversations: is_ai_suspended_for_handoff
    turn,       \* webchat_ai_turns
    job,        \* background_jobs of type webchat_ai_reply
    replies,    \* AI messages the visitor sees: their turn (or 0) and their job
    answered,   \* the last visitor message before the newest of them
    pc,         \* where a worker is
    cur,        \* the job it claimed
    sess,       \* what its session loaded
    pend,       \* what it flushed and has not committed
    rec,        \* what a reconciler loaded, if it is between read and write
    faults,     \* faults so far
    takeovers   \* takeovers so far

rowVars == <<slot, suspended, turn, job, replies, answered>>
workerVars == <<pc, cur, sess, pend>>
vars == <<posted, rowVars, workerVars, rec, faults, takeovers>>

Turns == 1..MaxMessages

Open == {"queued", "bridge_calling"}
Terminal == {"completed", "superseded", "cancelled", "timeout"}

Slot == [active : 0..MaxMessages, next : 0..MaxMessages]
Turn == [status : {"none"} \cup Open \cup Terminal, latest : 0..MaxMessages,
         cutoff : 0..MaxMessages, allowed : BOOLEAN]
Job == [status : {"none", "pending", "processing", "done", "dead"},
        attempts : 0..MaxAttempts, owner : Workers \cup {NoWorker}, expired : BOOLEAN]
Reply == [turn : 0..MaxMessages, by : Turns]

NoTurn == [status |-> "none", latest |-> 0, cutoff |-> 0, allowed |-> FALSE]
NoJob == [status |-> "none", attempts |-> 0, owner |-> NoWorker, expired |-> FALSE]
NoSession == [slot |-> [active |-> 0, next |-> 0], suspended |-> FALSE,
              picked |-> 0, row |-> NoTurn]

\* Nothing flushed.
Clean == [turns |-> [t \in {} |-> NoTurn], conv |-> FALSE, slot |-> [active |-> 0, next |-> 0],
          killed |-> {}, reply |-> {}, job |-> "none", attempts |-> 0]

Init ==
    /\ posted = 0
    /\ slot = [active |-> 0, next |-> 0]
    /\ suspended = FALSE
    /\ turn = [t \in Turns |-> NoTurn]
    /\ job = [t \in Turns |-> NoJob]
    /\ replies = <<>>
    /\ answered = 0
    /\ pc = [w \in Workers |-> "idle"]
    /\ cur = [w \in Workers |-> 0]
    /\ sess = [w \in Workers |-> NoSession]
    /\ pend = [w \in Workers |-> Clean]
    /\ rec = [r \in Reconcilers |-> [on |-> FALSE, view |-> NoSession]]
    /\ faults = 0
    /\ takeovers = 0

-----------------------------------------------------------------------------
(* Rows, caches and locks *)

ConvLocked == \E w \in Workers : pend[w].conv
Locked(t) == \E w \in Workers : t \in DOMAIN pend[w].turns

\* An UPDATE by primary key: the columns that differ from the cached row.
Update(committed, cached, new) ==
    [c \in DOMAIN committed |-> IF new[c] # cached[c] THEN new[c] ELSE committed[c]]

\* The table after the rows of new are written.
Written(new, table) == [t \in Turns |-> IF t \in DOMAIN new THEN new[t] ELSE table[t]]

Fresh(t) == [slot |-> slot, suspended |-> suspended, picked |-> t,
             row |-> IF t = 0 THEN NoTurn ELSE turn[t]]

Owns(w) == job[cur[w]].owner = w /\ job[cur[w]].status = "processing"

Killed(j) == [job[j] EXCEPT !.status = "dead", !.owner = NoWorker, !.expired = FALSE]
Done(j) == [job[j] EXCEPT !.status = "done", !.owner = NoWorker, !.expired = FALSE]

\* Number of AI messages of a turn.
RepliesOf(t) == Cardinality({i \in DOMAIN replies : replies[i].turn = t})

-----------------------------------------------------------------------------
(* webchat_ai_turn_service: what ends a turn *)

promote_next_turn(s) ==
    IF turn[s.next].status \in Open
    THEN [active |-> s.next, next |-> 0]
    ELSE [active |-> 0, next |-> 0]

\* The end of complete_ai_turn_with_reply and of supersede_ai_turn.
Release(s, t) ==
    IF s.active # t THEN s
    ELSE IF s.next # 0 THEN promote_next_turn(s)
    ELSE [s EXCEPT !.active = 0]

complete_ai_turn(row) == [row EXCEPT !.status = "completed"]
supersede_ai_turn(row) == [row EXCEPT !.status = "superseded", !.allowed = FALSE]

Stale(row) == posted > (IF row.cutoff # 0 THEN row.cutoff ELSE row.latest)

should_suppress_stale_reply(view) ==
    view.suspended \/ ~view.row.allowed \/ view.row.status \in Terminal \/ Stale(view.row)

\* The open turns an operator's takeover, or a worker that finds one, cancels.
OpenTurns == {t \in Turns : turn[t].status \in Open}

cancel_open_ai_turns(T) ==
    [t \in T |-> [turn[t] EXCEPT !.status = "cancelled", !.allowed = FALSE]]

\* Mutant: the job of an attempt under way is left to its worker.
CancelledPendingJobs(T) == {t \in T : job[t].status = "pending"}

CancelledJobs(T) == {t \in T : job[t].status \in {"pending", "processing"}}

\* finalize_dead_webchat_ai_job: the one outcome of a dead job, from what the
\* session holds of the turn and of the conversation; messages are read fresh.
finalize_dead_webchat_ai_job(view) ==
    LET t == view.picked
        settled == view.row.status \in {"completed", "superseded", "cancelled"}
        silent == ~view.row.allowed \/ view.suspended \/ Stale(view.row) \/ answered >= view.row.latest
    IN  IF RepliesOf(t) > 0
        THEN [row |-> complete_ai_turn(view.row), slot |-> Release(view.slot, t), reply |-> FALSE]
        ELSE IF silent
        THEN [row  |-> IF settled THEN view.row ELSE supersede_ai_turn(view.row),
              slot |-> IF settled THEN view.slot ELSE Release(view.slot, t),
              reply |-> FALSE]
        ELSE [row |-> complete_ai_turn(view.row), slot |-> Release(view.slot, t), reply |-> TRUE]

-----------------------------------------------------------------------------
(* The visitor and the operator *)

\* Message m is coalesced into the active turn while that is queued, becomes the
\* next turn while it is in flight, and the active turn otherwise.
schedule_webchat_ai_turn(m) ==
    LET a == IF slot.active # 0 /\ turn[slot.active].status \in Open THEN slot.active ELSE 0
        queued == [status |-> "queued", latest |-> m, cutoff |-> 0, allowed |-> TRUE]
        NewTurn == /\ turn' = [turn EXCEPT ![m] = queued]
                   /\ job' = [job EXCEPT ![m] = [NoJob EXCEPT !.status = "pending"]]
    IN  \/ /\ suspended
           /\ UNCHANGED <<slot, turn, job>>
        \/ /\ ~suspended /\ a # 0
           /\ turn[a].status = "queued"
           /\ ~Locked(a)
           /\ turn' = [turn EXCEPT ![a].latest = m]
           /\ UNCHANGED <<slot, job>>
        \/ /\ ~suspended /\ a # 0
           /\ turn[a].status = "bridge_calling"
           /\ NewTurn
           /\ slot' = [slot EXCEPT !.next = m]
        \/ /\ ~suspended /\ a = 0
           /\ NewTurn
           /\ slot' = [slot EXCEPT !.active = m]

\* The conversation FOR UPDATE, the message, its turn.
send_webchat_message ==
    /\ posted < MaxMessages
    /\ ~ConvLocked
    /\ posted' = posted + 1
    /\ schedule_webchat_ai_turn(posted + 1)
    /\ UNCHANGED <<suspended, replies, answered, workerVars, rec, faults, takeovers>>

\* force_takeover_ticket: the conversation FOR UPDATE, then
\* cancel_open_ai_turns_for_handoff.
force_takeover_ticket ==
    /\ takeovers < MaxTakeovers
    /\ ~suspended
    /\ ~ConvLocked
    /\ \A t \in OpenTurns : ~Locked(t)
    /\ takeovers' = takeovers + 1
    /\ suspended' = TRUE
    /\ turn' = Written(cancel_open_ai_turns(OpenTurns), turn)
    /\ job' = Written([t \in CancelledJobs(OpenTurns) |-> Killed(t)], job)
    /\ slot' = [active |-> 0, next |-> 0]
    /\ UNCHANGED <<posted, replies, answered, workerVars, rec, faults>>

resume_ai_for_handoff ==
    /\ suspended
    /\ ~ConvLocked
    /\ suspended' = FALSE
    /\ UNCHANGED <<posted, slot, turn, job, replies, answered, workerVars, rec, faults, takeovers>>

-----------------------------------------------------------------------------
(* A worker *)

\* The worker flushes: rows are locked, the ownership check comes next.
Flush(w, p) ==
    /\ ~ConvLocked \/ ~p.conv
    /\ \A t \in DOMAIN p.turns : ~Locked(t)
    /\ pend' = [pend EXCEPT ![w] = p]
    /\ pc' = [pc EXCEPT ![w] = "finish"]

\* What a session that loaded view flushes when it ends the turn with a new
\* row and a new slot.
Ending(view, row, newSlot, outcome) ==
    LET t == view.picked
    IN  [turns  |-> [i \in {t} \ {0} |-> Update(turn[i], view.row, row)],
         conv   |-> newSlot # view.slot,
         slot   |-> Update(slot, view.slot, newSlot),
         killed |-> {}, reply |-> {}, job |-> outcome, attempts |-> 0]

Superseding(view, row) ==
    Ending(view, supersede_ai_turn(row), Release(view.slot, view.picked), "done")
Completing(view, row) ==
    IF view.picked = 0 THEN [Clean EXCEPT !.job = "done"]
    ELSE Ending(view, complete_ai_turn(row), Release(view.slot, view.picked), "done")

\* Mutant: the attempts are never used up.
RetryingWithoutLimit(w) ==
    [Clean EXCEPT !.job = "retry", !.attempts = job[cur[w]].attempts + 1]

\* _mark_retry, and finalize_dead_webchat_ai_job when the attempts are used up.
\* The handler's objects are gone by then: turn and conversation are loaded
\* again, FOR UPDATE.
Retrying(w) ==
    LET j == cur[w]
        f == finalize_dead_webchat_ai_job(Fresh(j))
    IN  IF job[j].attempts + 1 < MaxAttempts THEN [Clean EXCEPT !.job = "retry", !.attempts = job[j].attempts + 1]
        ELSE [Ending(Fresh(j), f.row, f.slot, "resolved")
                EXCEPT !.conv = TRUE,
                       !.reply = IF f.reply THEN {[turn |-> j, by |-> j]} ELSE {}]

Claimable(j) ==
    \/ job[j].status = "pending"
    \/ job[j].status = "processing" /\ job[j].expired

claim_job(w) ==
    /\ pc[w] = "idle"
    /\ \E j \in Turns :
          /\ Claimable(j)
          /\ job' = [job EXCEPT ![j].status = "processing", ![j].owner = w, ![j].expired = FALSE]
          /\ cur' = [cur EXCEPT ![w] = j]
    /\ pc' = [pc EXCEPT ![w] = "claimed"]
    /\ UNCHANGED <<posted, slot, suspended, turn, replies, answered, sess, pend, rec, faults, takeovers>>

\* _reject_execution_scope: the job dies without an outcome.
RejectScope(w) ==
    /\ pc[w] = "claimed" /\ Owns(w)
    /\ Refusals /\ faults < MaxFaults
    /\ faults' = faults + 1
    /\ job' = [job EXCEPT ![cur[w]] = Killed(cur[w])]
    /\ pc' = [pc EXCEPT ![w] = "idle"]
    /\ UNCHANGED <<posted, slot, suspended, turn, replies, answered, cur, sess, pend, rec, takeovers>>

\* _open_turn_for_message: the first open turn the message belongs to, or the
\* active one.
open_turn_for_message(j) ==
    LET C == {t \in OpenTurns : t = j \/ turn[t].latest = j \/ slot.active = t}
    IN  IF C = {} THEN 0 ELSE Min(C)

\* _refresh_job_lease, then what the handler loads.
LoadContext(w) ==
    /\ pc[w] = "claimed"
    /\ \/ /\ ~Owns(w)
          /\ pc' = [pc EXCEPT ![w] = "idle"]
          /\ UNCHANGED sess
       \/ /\ Owns(w)
          /\ sess' = [sess EXCEPT ![w] = Fresh(open_turn_for_message(cur[w]))]
          /\ pc' = [pc EXCEPT ![w] = "loaded"]
    /\ UNCHANGED <<posted, rowVars, cur, pend, rec, faults, takeovers>>

\* The conversation as refreshed by should_suppress_stale_reply.
Refreshed(w) ==
    IF sess[w].picked = 0 THEN sess[w]
    ELSE [sess[w] EXCEPT !.slot = slot, !.suspended = suspended]

\* process_webchat_ai_reply_job up to commit_webchat_agent_provider_boundary.
PrepareTurn(w) ==
    LET t == sess[w].picked
        start == t # 0 /\ sess[w].row.status = "queued"
        row == IF start THEN [sess[w].row EXCEPT !.status = "bridge_calling", !.cutoff = posted]
               ELSE sess[w].row
        view == [Refreshed(w) EXCEPT !.row = row]
        stale == t # 0 /\ should_suppress_stale_reply(view)
    IN  /\ pc[w] = "loaded"
        /\ \/ /\ sess[w].suspended
              /\ Flush(w, [turns  |-> cancel_open_ai_turns(OpenTurns),
                           conv   |-> OpenTurns # {} \/ sess[w].slot # NoSession.slot,
                           slot   |-> Update(slot, sess[w].slot, [active |-> 0, next |-> 0]),
                           killed |-> CancelledJobs(OpenTurns) \ {cur[w]},
                           reply  |-> {}, job |-> "done", attempts |-> 0])
              /\ UNCHANGED <<turn, sess>>
           \/ /\ ~sess[w].suspended
              /\ answered >= cur[w]
              /\ Flush(w, Completing(sess[w], row))
              /\ UNCHANGED <<turn, sess>>
           \/ /\ ~sess[w].suspended
              /\ answered < cur[w]
              /\ stale
              /\ Flush(w, Superseding(Refreshed(w), row))
              /\ UNCHANGED <<turn, sess>>
           \/ /\ ~sess[w].suspended
              /\ answered < cur[w]
              /\ ~stale
              /\ start => ~Locked(t) /\ (sess[w].slot.active = t => ~ConvLocked)
              /\ turn' = IF start THEN [turn EXCEPT ![t] = Update(turn[t], sess[w].row, row)] ELSE turn
              /\ sess' = [sess EXCEPT ![w] = view]
              /\ pc' = [pc EXCEPT ![w] = "bridge"]
              /\ UNCHANGED pend
        /\ UNCHANGED <<posted, slot, suspended, job, replies, answered, cur, rec, faults, takeovers>>

\* webchat_ai_service.process_webchat_ai_reply_job up to the provider call.
StartRuntime(w) ==
    LET view == Refreshed(w)
    IN  /\ pc[w] = "bridge"
        /\ \/ /\ answered >= cur[w]
              /\ Flush(w, Completing(sess[w], sess[w].row))
              /\ UNCHANGED sess
           \/ /\ answered < cur[w]
              /\ view.picked # 0 /\ should_suppress_stale_reply(view)
              /\ Flush(w, Superseding(view, view.row))
              /\ UNCHANGED sess
           \/ /\ answered < cur[w]
              /\ ~(view.picked # 0 /\ should_suppress_stale_reply(view))
              /\ sess' = [sess EXCEPT ![w] = view]
              /\ pc' = [pc EXCEPT ![w] = "runtime"]
              /\ UNCHANGED pend
        /\ UNCHANGED <<posted, rowVars, cur, rec, faults, takeovers>>

\* The provider call raises, or leaves no public outcome.
RuntimeRaises(w) ==
    /\ pc[w] = "runtime"
    /\ Flush(w, Retrying(w))
    /\ UNCHANGED <<posted, rowVars, cur, sess, rec, faults, takeovers>>

\* The provider call returns: _committed_handoff_owns_conversation,
\* suppress_stale_reply_if_needed, and the conversation reloaded.
DecideReply(w) ==
    LET view == Refreshed(w)
        fresh == Fresh(sess[w].picked)
    IN  /\ pc[w] = "runtime"
        /\ \/ /\ view.picked # 0 /\ suspended
              /\ Flush(w, IF fresh.row.status \in Terminal THEN [Clean EXCEPT !.job = "done"]
                          ELSE Superseding(fresh, fresh.row))
              /\ UNCHANGED sess
           \/ /\ view.picked # 0 /\ ~suspended
              /\ should_suppress_stale_reply(view)
              /\ Flush(w, Superseding(view, view.row))
              /\ UNCHANGED sess
           \/ /\ ~(view.picked # 0 /\ should_suppress_stale_reply(view))
              /\ sess' = [sess EXCEPT ![w] = [@ EXCEPT !.slot = slot, !.suspended = suspended]]
              /\ pc' = [pc EXCEPT ![w] = "persist"]
              /\ UNCHANGED pend
        /\ UNCHANGED <<posted, rowVars, cur, rec, faults, takeovers>>

\* The reply is inserted, the conversation touched, the turn completed.
PersistReply(w) ==
    /\ pc[w] = "persist"
    /\ Flush(w, [Completing(sess[w], sess[w].row) EXCEPT
                   !.conv  = TRUE,
                   !.slot  = Update(slot, sess[w].slot,
                               IF sess[w].picked = 0 THEN sess[w].slot
                               ELSE Release(sess[w].slot, sess[w].picked)),
                   !.reply = {[turn |-> sess[w].picked, by |-> cur[w]]}])
    /\ UNCHANGED <<posted, rowVars, cur, sess, rec, faults, takeovers>>

\* Mutant: the outcome is committed whoever owns the job by now.
CheckNothing(w) ==
    /\ pc[w] = "finish"
    /\ pc' = [pc EXCEPT ![w] = "commit"]
    /\ UNCHANGED <<posted, rowVars, cur, sess, pend, rec, faults, takeovers>>

\* Mutant: any job but a dead one passes.
CheckNotDead(w) ==
    /\ pc[w] = "finish"
    /\ pc' = [pc EXCEPT ![w] = IF job[cur[w]].status # "dead" THEN "commit" ELSE "idle"]
    /\ pend' = IF job[cur[w]].status # "dead" THEN pend ELSE [pend EXCEPT ![w] = Clean]
    /\ UNCHANGED <<posted, rowVars, cur, sess, rec, faults, takeovers>>

\* _owns_job_lease: on a connection of its own.
CheckOwnership(w) ==
    /\ pc[w] = "finish"
    /\ pc' = [pc EXCEPT ![w] = IF Owns(w) THEN "commit" ELSE "idle"]
    /\ pend' = IF Owns(w) THEN pend ELSE [pend EXCEPT ![w] = Clean]
    /\ UNCHANGED <<posted, rowVars, cur, sess, rec, faults, takeovers>>

Settled(j, p) ==
    IF p.job = "retry"
    THEN [NoJob EXCEPT !.status = "pending", !.attempts = p.attempts]
    ELSE Done(j)

Commit(w) ==
    LET p == pend[w]
    IN  /\ pc[w] \in {"commit", "recommit"}
        /\ turn' = Written(p.turns, turn)
        /\ slot' = IF p.conv THEN p.slot ELSE slot
        /\ job' = [Written([j \in p.killed |-> Killed(j)], job) EXCEPT ![cur[w]] = Settled(cur[w], p)]
        /\ IF p.reply = {} THEN UNCHANGED <<replies, answered>>
           ELSE /\ replies' = Append(replies, CHOOSE r \in p.reply : TRUE)
                /\ answered' = posted
        /\ pc' = [pc EXCEPT ![w] = "idle"]
        /\ pend' = [pend EXCEPT ![w] = Clean]
        /\ UNCHANGED <<posted, suspended, cur, sess, rec, faults, takeovers>>

\* db.commit() raises (a serialization failure, a deadlock victim).
CommitFails(w) ==
    /\ pc[w] = "commit"
    /\ faults < MaxFaults
    /\ faults' = faults + 1
    /\ pend' = [pend EXCEPT ![w] = Clean]
    /\ pc' = [pc EXCEPT ![w] = "recover"]
    /\ UNCHANGED <<posted, rowVars, cur, sess, rec, takeovers>>

\* _recover_unhandled_background_job_exception; its own commit is not covered
\* by a handler, and its failure is a crash.
RecoverException(w) ==
    /\ pc[w] = "recover"
    /\ \/ /\ ~Owns(w)
          /\ pc' = [pc EXCEPT ![w] = "idle"]
          /\ UNCHANGED pend
       \/ /\ Owns(w)
          /\ ~(Retrying(w).conv /\ ConvLocked)
          /\ \A t \in DOMAIN Retrying(w).turns : ~Locked(t)
          /\ pend' = [pend EXCEPT ![w] = Retrying(w)]
          /\ pc' = [pc EXCEPT ![w] = "recommit"]
    /\ UNCHANGED <<posted, rowVars, cur, sess, rec, faults, takeovers>>

\* The heartbeat stopped and the lease ran out under a live worker.
LeaseExpires(w) ==
    /\ pc[w] # "idle" /\ Owns(w) /\ ~job[cur[w]].expired
    /\ faults < MaxFaults
    /\ faults' = faults + 1
    /\ job' = [job EXCEPT ![cur[w]].expired = TRUE]
    /\ UNCHANGED <<posted, slot, suspended, turn, replies, answered, workerVars, rec, takeovers>>

\* The process dies; its lease runs out and its transaction is rolled back.
Crash(w) ==
    /\ pc[w] # "idle"
    /\ faults < MaxFaults
    /\ faults' = faults + 1
    /\ job' = IF Owns(w) THEN [job EXCEPT ![cur[w]].owner = NoWorker, ![cur[w]].expired = TRUE] ELSE job
    /\ pc' = [pc EXCEPT ![w] = "idle"]
    /\ pend' = [pend EXCEPT ![w] = Clean]
    /\ UNCHANGED <<posted, slot, suspended, turn, replies, answered, cur, sess, rec, takeovers>>

-----------------------------------------------------------------------------
(* reconcile_webchat_ai_state: reads without a lock, then repairs *)

ReconcileRead(r) ==
    /\ ~rec[r].on
    /\ slot.active # 0
    /\ Overlap \/ (~ConvLocked /\ \A t \in Turns : ~Locked(t))
    /\ rec' = [rec EXCEPT ![r] = [on |-> TRUE, view |-> Fresh(slot.active)]]
    /\ UNCHANGED <<posted, rowVars, workerVars, faults, takeovers>>

NeedsOutcomeRepair(v) ==
    v.row.status = "timeout" /\ v.row.allowed /\ RepliesOf(v.picked) = 0

\* The active turn is terminal: the cache is cleared.
ReconcileClear(r) ==
    LET v == rec[r].view
    IN  /\ rec[r].on
        /\ v.row.status \in Terminal
        /\ ~NeedsOutcomeRepair(v)
        /\ ~ConvLocked
        /\ slot' = [slot EXCEPT !.active = 0]
        /\ rec' = [rec EXCEPT ![r] = [on |-> FALSE, view |-> NoSession]]
        /\ UNCHANGED <<posted, suspended, turn, job, replies, answered, workerVars, faults, takeovers>>

\* The turn is open and its job dead, or the watchdog's time is over: the turn
\* is finalized from what was read, under the locks of turn and conversation.
ReconcileFinalize(r) ==
    LET v == rec[r].view
        t == v.picked
        f == finalize_dead_webchat_ai_job(v)
        timeout == job[t].status # "dead"
        row == IF timeout THEN [f.row EXCEPT !.status = "timeout"] ELSE f.row
    IN  /\ rec[r].on
        /\ v.row.status \in Open \/ NeedsOutcomeRepair(v)
        /\ ~ConvLocked /\ ~Locked(t)
        /\ turn' = [turn EXCEPT ![t] = Update(@, v.row, row)]
        /\ slot' = Update(slot, v.slot, f.slot)
        /\ job' = [job EXCEPT ![t] = [Done(t) EXCEPT !.attempts = IF timeout THEN MaxAttempts ELSE @]]
        /\ IF f.reply
           THEN /\ replies' = Append(replies, [turn |-> t, by |-> t])
                /\ answered' = posted
           ELSE UNCHANGED <<replies, answered>>
        /\ rec' = [rec EXCEPT ![r] = [on |-> FALSE, view |-> NoSession]]
        /\ UNCHANGED <<posted, suspended, workerVars, faults, takeovers>>

\* Neither: nothing to repair.
ReconcileSkip(r) ==
    /\ rec[r].on
    /\ rec[r].view.row.status \in Open
    /\ job[rec[r].view.picked].status # "dead"
    /\ rec' = [rec EXCEPT ![r] = [on |-> FALSE, view |-> NoSession]]
    /\ UNCHANGED <<posted, rowVars, workerVars, faults, takeovers>>

-----------------------------------------------------------------------------

WorkerStep(w) ==
    \/ claim_job(w) \/ LoadContext(w) \/ PrepareTurn(w) \/ StartRuntime(w)
    \/ RuntimeRaises(w) \/ DecideReply(w) \/ PersistReply(w)
    \/ CheckOwnership(w) \/ Commit(w) \/ RecoverException(w)

Quiet == Overlap \/ \A r \in Reconcilers : ~rec[r].on

Next ==
    \/ Quiet /\ (send_webchat_message \/ force_takeover_ticket \/ resume_ai_for_handoff)
    \/ \E w \in Workers : Quiet /\
          (WorkerStep(w) \/ RejectScope(w) \/ CommitFails(w) \/ LeaseExpires(w) \/ Crash(w))
    \/ \E r \in Reconcilers :
          ReconcileRead(r) \/ ReconcileClear(r) \/ ReconcileFinalize(r) \/ ReconcileSkip(r)

Spec == Init /\ [][Next]_vars

-----------------------------------------------------------------------------
(* Properties *)

Session == [slot : Slot, suspended : BOOLEAN, picked : 0..MaxMessages, row : Turn]
Pending(T) == [turns : [T -> Turn], conv : BOOLEAN, slot : Slot, killed : SUBSET Turns,
               reply : SUBSET Reply, job : {"none", "retry", "done", "resolved"},
               attempts : 0..MaxAttempts]

\* Every variable has its type; in particular no attempt is counted past
\* max_attempts, and no session holds a turn that does not exist.
TypeOK ==
    /\ posted \in 0..MaxMessages
    /\ slot \in Slot
    /\ suspended \in BOOLEAN
    /\ turn \in [Turns -> Turn]
    /\ job \in [Turns -> Job]
    /\ replies \in Seq(Reply)
    /\ answered \in 0..MaxMessages
    /\ pc \in [Workers -> {"idle", "claimed", "loaded", "bridge", "runtime", "persist",
                           "finish", "commit", "recover", "recommit"}]
    /\ cur \in [Workers -> 0..MaxMessages]
    /\ sess \in [Workers -> Session]
    /\ DOMAIN pend = Workers
    /\ \A w \in Workers : /\ DOMAIN pend[w].turns \subseteq Turns
                          /\ pend[w] \in Pending(DOMAIN pend[w].turns)
    /\ rec \in [Reconcilers -> [on : BOOLEAN, view : Session]]
    /\ faults \in 0..MaxFaults
    /\ takeovers \in 0..MaxTakeovers

\* A job gives the visitor one answer, through retries, crashes, lost leases
\* taken over by another worker, failed commits, the fallback of a dead job and
\* the reconciler's own fallback.  A second one comes only as the fallback of
\* its own turn, after the job had answered another turn and left its own open.
JobAnswersOnce ==
    \A i, k \in DOMAIN replies :
        i < k /\ replies[i].by = replies[k].by
            => replies[i].turn # replies[i].by /\ replies[k].turn = replies[k].by

\* A dead job posts nothing, although its worker checks the job and commits the
\* reply in two steps: the locks of the flushed reply keep a takeover out in
\* between.  Only a lease that runs out right there, and a scope refusal by the
\* worker that claims the job next, two faults, get past them.
KilledJobSilent ==
    [][\A w \in Workers :
          Commit(w) /\ replies' # replies /\ faults < 2 => job[cur[w]].status # "dead"]_vars

\* cancel_open_ai_turns_for_handoff: "Fail closed for queued/in-flight AI turns
\* when a human handoff owns the session."  That is true of the turns that were
\* open.  A job can post after the takeover only if its own turn had been closed
\* before, by the job of a later message that served it: such a job has no open
\* turn, the takeover does not kill it, and nothing stops it any more once its
\* handoff check has passed.  The first takeover is meant: a retry committed
\* just after it revives a job it killed, and the next one finds that job
\* running without an open turn.
LateReplyIsOrphan ==
    [][\A w \in Workers :
          Commit(w) /\ replies' # replies /\ suspended /\ takeovers < 2
             => turn[cur[w]].status \in Terminal \ {"cancelled"}]_vars

\* Workers poll for jobs without end and finish what they started.  The
\* reconciler runs without end; a turn that stays stuck is past its watchdog
\* time at one of the passes.
LiveSpec ==
    /\ Spec
    /\ \A w \in Workers : WF_vars(Quiet /\ WorkerStep(w))
    /\ \A r \in Reconcilers :
          /\ WF_vars(ReconcileRead(r) \/ ReconcileClear(r) \/ ReconcileSkip(r))
          /\ SF_vars(ReconcileFinalize(r))

\* reconcile_webchat_ai_state: "Repair WebChat AI state without allowing silent
\* customer terminal outcomes."  Every visitor message gets an answer after it,
\* unless a human took over.  The code does not keep this: a job whose own message
\* has an answer completes whichever turn is active as answered, and the job of
\* that turn may have been spent on an earlier one.
EveryMessageAnswered ==
    \A m \in Turns : posted >= m ~> answered >= m \/ takeovers > 0
=============================================================================
