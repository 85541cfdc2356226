-------------------------- MODULE OutboundDispatch --------------------------
(***************************************************************************)
(* The outbound dispatcher: rows of ticket_outbound_messages, the workers  *)
(* that hand them to a provider, and the API handlers that write a row.    *)
(*                                                                         *)
(*   outbound_dispatch_transaction_boundary.py  reclaim, refresh, the      *)
(*                                              ownership check, recovery  *)
(*   message_dispatch.py                        claim, one dispatch,       *)
(*                                              _mark_sent/_retry/_dead,   *)
(*                                              requeue                    *)
(*   whatsapp_outbound_parts.py, outbound_adapters/email.py   providers    *)
(*   email_delivery_receipt_service.py          a recorded receipt         *)
(*   processing_purpose_enforcement.py          a processing restriction   *)
(*                                                                         *)
(* Rows are automatic messages of the external channels.  A worker keeps   *)
(* one session: what it flushed is visible to its own reads and to nobody  *)
(* else, and locks the row until the commit or the rollback.  The guard on *)
(* restricted rows (_guard_outbound_effect) is registered with the API's   *)
(* routers, so it runs in the API process and in no worker.                *)
(***************************************************************************)
EXTENDS Integers, FiniteSets

CONSTANTS
    Messages,       \* row ids; claim and reclaim serve the smallest first
    WhatsApp,       \* the rows of channel whatsapp; the others are email
    Workers,
    Tokens,         \* lease tokens, naturals
    MaxRetries,     \* max_retries of every row
    BatchLimit,     \* rows one dispatch call may reclaim, and claim
    MaxFaults,      \* bound: crashes, stalls and exceptions in a behaviour
    MaxRequeues     \* bound: admin requeues in a behaviour

ASSUME MessagesAssumption == Messages \subseteq Nat /\ WhatsApp \subseteq Messages
ASSUME WorkersAssumption == IsFiniteSet(Workers)
ASSUME LeaseTokensAssumption == Tokens \subseteq Nat \ {0}
ASSUME LimitsAssumption ==
    /\ MaxRetries \in Nat \ {0}
    /\ BatchLimit \in Nat \ {0}
    /\ MaxFaults \in Nat
    /\ MaxRequeues \in Nat

VARIABLES
    emailEnabled,   \* is email dispatch authorised by the settings?
    row,            \* row[m]: the committed row
    restricted,     \* rows whose customer restricted automatic outbound
    pc,             \* where each worker is in its dispatch call
    tok,            \* the token of its dispatch call
    batch,          \* rows it claimed and has not begun
    cur,            \* the row it is working on, as a set of at most one id
    loaded,         \* retry_count of the row of cur, as its session read it
    view,           \* what its session made of the row of cur
    accepted,       \* history: how often a provider accepted the row
    requeued,       \* history: how often the row was requeued
    overwritten,    \* history: how often a recovery overwrote a newer row
    faults          \* faults so far

rowVars == <<row, restricted>>
workerVars == <<pc, tok, batch, cur, loaded, view>>
history == <<accepted, requeued, overwritten, faults>>
vars == <<emailEnabled, row, restricted, pc, tok, batch, cur, loaded, view,
          accepted, requeued, overwritten, faults>>

Views == {"none", "sent", "retry", "dead"}
InFlight == {"pending", "processing"}
Settled == {"sent", "failed", "dead"}

NoToken == 0

Message == [status  : {"absent"} \cup InFlight \cup Settled,
            retries : Nat,
            due     : BOOLEAN,                \* next_retry_at IS NULL OR <= now
            token   : Tokens \cup {NoToken},  \* locked_by
            live    : BOOLEAN]                \* locked_at within outbox_lock_seconds

NoMessage == [status |-> "absent", retries |-> 0, due |-> TRUE,
              token |-> NoToken, live |-> FALSE]

Init ==
    /\ emailEnabled \in BOOLEAN
    /\ row = [m \in Messages |-> NoMessage]
    /\ restricted = {}
    /\ pc = [w \in Workers |-> "idle"]
    /\ tok = [w \in Workers |-> NoToken]
    /\ batch = [w \in Workers |-> {}]
    /\ cur = [w \in Workers |-> {}]
    /\ loaded = [w \in Workers |-> 0]
    /\ view = [w \in Workers |-> "none"]
    /\ accepted = [m \in Messages |-> 0]
    /\ requeued = [m \in Messages |-> 0]
    /\ overwritten = [m \in Messages |-> 0]
    /\ faults = 0

-----------------------------------------------------------------------------
(* The rows. *)

Unlocked(r) == [r EXCEPT !.token = NoToken, !.live = FALSE]

\* Mutant of MarkRetry: the exhausted row is tried once more.
MarkRetryOnceMore(r, n) ==
    LET exhausted == n + 1 > MaxRetries
    IN  [Unlocked(r) EXCEPT !.retries = n + 1,
                            !.status = IF exhausted THEN "dead" ELSE "pending",
                            !.due = exhausted]

\* _mark_retry on a row whose retry_count was n when the session read it.
MarkRetry(r, n) ==
    LET exhausted == n + 1 >= MaxRetries
    IN  [Unlocked(r) EXCEPT !.retries = n + 1,
                            !.status = IF exhausted THEN "dead" ELSE "pending",
                            !.due = exhausted]

\* Mutant of MarkDead: a status the enumeration does not have.
MarkExpired(r) == [Unlocked(r) EXCEPT !.status = "expired", !.due = TRUE]

\* _mark_dead
MarkDead(r) == [Unlocked(r) EXCEPT !.status = "dead", !.due = TRUE]

\* _mark_sent
MarkSent(r) == [Unlocked(r) EXCEPT !.status = "sent", !.due = TRUE]

\* The row as the session of w sees it after its flush.
Flushed(w, m) ==
    CASE view[w] = "sent"  -> MarkSent(row[m])
      [] view[w] = "retry" -> MarkRetry(row[m], loaded[w])
      [] view[w] = "dead"  -> MarkDead(row[m])
      [] view[w] = "none"  -> row[m]

\* A flushed UPDATE locks the row against every other writer; the parts a
\* WhatsApp dispatch inserts before its send lock it against FOR UPDATE.
UpdateLocked(m) == \E w \in Workers : m \in cur[w] /\ pc[w] = "flushed"

Locked(m) ==
    \/ UpdateLocked(m)
    \/ m \in WhatsApp /\ \E w \in Workers : m \in cur[w] /\ pc[w] = "sending"

\* An insert for a restricted customer is refused by the guard.
queue_outbound_message(m) ==
    /\ row[m].status = "absent"
    /\ m \notin restricted
    /\ row' = [row EXCEPT ![m].status = "pending"]
    /\ UNCHANGED <<emailEnabled, restricted, workerVars, history>>

requeue_dead_outbound_message(m) ==
    /\ requeued[m] < MaxRequeues
    /\ row[m].status = "dead"
    /\ ~UpdateLocked(m)
    /\ m \notin restricted
    /\ row' = [row EXCEPT ![m] = [Unlocked(@) EXCEPT !.status = "pending", !.retries = 0, !.due = TRUE]]
    /\ requeued' = [requeued EXCEPT ![m] = @ + 1]
    /\ UNCHANGED <<emailEnabled, restricted, workerVars, accepted, overwritten, faults>>

\* Somebody records what became of an email; nothing asks whether it was ever
\* sent.  The lock columns stay as they are.
record_email_delivery_receipt(m) ==
    /\ m \notin WhatsApp
    /\ row[m].status # "absent"
    /\ ~UpdateLocked(m)
    /\ \E s \in Settled :
         /\ s = "sent" => m \notin restricted
         /\ row[m].status # s
         /\ row' = [row EXCEPT ![m].status = s]
    /\ UNCHANGED <<emailEnabled, restricted, workerVars, history>>

\* _cancel_pending_restricted_effects: pending rows die, others are left.
restrict_processing(m) ==
    /\ row[m].status # "absent"
    /\ m \notin restricted
    /\ ~UpdateLocked(m)
    /\ restricted' = restricted \cup {m}
    /\ row' = [row EXCEPT ![m] = IF @.status = "pending" THEN MarkDead(@) ELSE @]
    /\ UNCHANGED <<emailEnabled, workerVars, history>>

BackoffElapses(m) ==
    /\ row[m].status = "pending"
    /\ ~row[m].due
    /\ row' = [row EXCEPT ![m].due = TRUE]
    /\ UNCHANGED <<emailEnabled, restricted, workerVars, history>>

-----------------------------------------------------------------------------
(* Leases. *)

Owns(w, m) == row[m].status = "processing" /\ row[m].token = tok[w]

Holders(m) == {w \in Workers : m \in batch[w] \cup cur[w] /\ Owns(w, m)}

LeaseExpires(m) ==
    /\ row[m].status = "processing"
    /\ row[m].live
    /\ Holders(m) = {}
    /\ row' = [row EXCEPT ![m].live = FALSE]
    /\ UNCHANGED <<emailEnabled, restricted, workerVars, history>>

\* The worker is alive but too slow: no heartbeat renews an outbound lease.
LeaseExpiresUnderWorker(m) ==
    /\ faults < MaxFaults
    /\ row[m].live
    /\ Holders(m) # {}
    /\ row' = [row EXCEPT ![m].live = FALSE]
    /\ faults' = faults + 1
    /\ UNCHANGED <<emailEnabled, restricted, workerVars, accepted, requeued, overwritten>>

\* The first n rows in claim order; locked rows are skipped.
Oldest(S, n) == {m \in S : Cardinality({i \in S : i < m}) < n}

\* Mutant of Reclaimable: the age of the lease is not looked at.
ReclaimableThoughLive(m) == row[m].status = "processing" /\ ~Locked(m)

\* Mutant of Reclaimable: only rows nobody ever locked are reclaimed.
ReclaimableUnlocked(m) == row[m].status = "processing" /\ row[m].token = NoToken

Reclaimable(m) == row[m].status = "processing" /\ ~row[m].live /\ ~Locked(m)

\* A dispatch call begins: expired attempts go back to the retry machine.
reclaim_stale_processing_messages(w) ==
    /\ pc[w] = "idle"
    /\ LET stale == Oldest({m \in Messages : Reclaimable(m)}, BatchLimit)
       IN  row' = [m \in Messages |-> IF m \in stale THEN MarkRetry(row[m], row[m].retries) ELSE row[m]]
    /\ pc' = [pc EXCEPT ![w] = "reclaimed"]
    /\ UNCHANGED <<emailEnabled, restricted, tok, batch, cur, loaded, view, history>>

Claimable(m) == row[m].status = "pending" /\ row[m].due /\ ~row[m].live /\ ~Locked(m)

TokenInUse(t) == (\E w \in Workers : tok[w] = t) \/ (\E m \in Messages : row[m].token = t)

\* _claim_token: a token nobody holds is as good as a fresh uuid.
FreshToken(t) == ~TokenInUse(t) /\ \A u \in Tokens : u < t => TokenInUse(u)

\* The call goes on to claim a batch, or ends with nothing to do.
claim_pending_messages(w) ==
    /\ pc[w] = "reclaimed"
    /\ LET claimed == Oldest({m \in Messages : Claimable(m)}, BatchLimit)
       IN  IF claimed = {}
           THEN /\ pc' = [pc EXCEPT ![w] = "idle"]
                /\ UNCHANGED <<row, tok, batch>>
           ELSE \E t \in Tokens :
                  /\ FreshToken(t)
                  /\ row' = [m \in Messages |->
                               IF m \in claimed
                               THEN [row[m] EXCEPT !.status = "processing", !.token = t, !.live = TRUE]
                               ELSE row[m]]
                  /\ tok' = [tok EXCEPT ![w] = t]
                  /\ batch' = [batch EXCEPT ![w] = claimed]
                  /\ pc' = [pc EXCEPT ![w] = "batch"]
    /\ UNCHANGED <<emailEnabled, restricted, cur, loaded, view, history>>

-----------------------------------------------------------------------------
(* One message of the batch. *)

\* On to the rest of the batch, or the dispatch call ends.
Proceed(w, rest) ==
    /\ pc' = [pc EXCEPT ![w] = IF rest = {} THEN "idle" ELSE "batch"]
    /\ tok' = [tok EXCEPT ![w] = IF rest = {} THEN NoToken ELSE @]
    /\ batch' = [batch EXCEPT ![w] = rest]
    /\ cur' = [cur EXCEPT ![w] = {}]
    /\ loaded' = [loaded EXCEPT ![w] = 0]
    /\ view' = [view EXCEPT ![w] = "none"]

\* _refresh_message_lease: a conditional UPDATE that must match the lease.
RefreshLease(w) ==
    /\ pc[w] = "batch"
    /\ \E m \in batch[w] :
         /\ \A i \in batch[w] : m <= i
         /\ ~UpdateLocked(m)
         /\ IF Owns(w, m)
            THEN /\ row' = [row EXCEPT ![m].live = TRUE]
                 /\ pc' = [pc EXCEPT ![w] = "leased"]
                 /\ batch' = [batch EXCEPT ![w] = @ \ {m}]
                 /\ cur' = [cur EXCEPT ![w] = {m}]
                 /\ loaded' = [loaded EXCEPT ![w] = row[m].retries]
                 /\ UNCHANGED <<tok, view>>
            ELSE Proceed(w, batch[w] \ {m}) /\ UNCHANGED row
    /\ UNCHANGED <<emailEnabled, restricted, history>>

EmailBlocked(m) == m \notin WhatsApp /\ ~emailEnabled

\* _mark_runtime_blocked_message, committed without an ownership check.
MarkRuntimeBlocked(w) ==
    /\ pc[w] = "leased"
    /\ \E m \in cur[w] :
         /\ EmailBlocked(m)
         /\ ~UpdateLocked(m)
         /\ row' = [row EXCEPT ![m] = MarkDead(@)]
    /\ Proceed(w, batch[w])
    /\ UNCHANGED <<emailEnabled, restricted, history>>

\* process_outbound_message reaches the provider; the parts of a WhatsApp
\* message are unique, so their insert waits for another session's.
StartSend(w) ==
    /\ pc[w] = "leased"
    /\ \E m \in cur[w] : ~EmailBlocked(m) /\ (m \in WhatsApp => ~Locked(m))
    /\ pc' = [pc EXCEPT ![w] = "sending"]
    /\ UNCHANGED <<emailEnabled, rowVars, tok, batch, cur, loaded, view, history>>

\* The outcome v is marked, and log_event flushes it.
Flush(w, v) ==
    /\ \A m \in cur[w] : ~UpdateLocked(m)
    /\ pc' = [pc EXCEPT ![w] = "flushed"]
    /\ view' = [view EXCEPT ![w] = v]
    /\ UNCHANGED <<tok, batch, cur, loaded>>

\* No send: origin, kill switch, policy or route refuse the message, or the
\* provider does.
RefuseMessage(w) ==
    /\ pc[w] \in {"leased", "sending"}
    /\ \E m \in cur[w] : ~EmailBlocked(m)
    /\ \E v \in {"retry", "dead"} : Flush(w, v)
    /\ UNCHANGED <<emailEnabled, rowVars, history>>

\* The provider takes the message; a lost answer, or a later part that fails,
\* makes a retry of it.
ProviderAccepts(w) ==
    /\ pc[w] = "sending"
    /\ \E m \in cur[w] : accepted' = [accepted EXCEPT ![m] = @ + 1]
    /\ \E v \in {"sent", "retry"} : Flush(w, v)
    /\ UNCHANGED <<emailEnabled, rowVars, requeued, overwritten, faults>>

\* _owns_message_lease reads through the session that flushed the outcome.
OwnsInSession(w, m) == Flushed(w, m).status = "processing" /\ Flushed(w, m).token = tok[w]

\* The outcome is committed, or rolled back as a stale completion.
CheckOwnership(w) ==
    /\ pc[w] = "flushed"
    /\ \E m \in cur[w] :
         row' = [row EXCEPT ![m] = IF OwnsInSession(w, m) THEN Flushed(w, m) ELSE @]
    /\ Proceed(w, batch[w])
    /\ UNCHANGED <<emailEnabled, restricted, history>>

\* The attempt raises: rollback.
AttemptRaises(w) ==
    /\ faults < MaxFaults
    /\ pc[w] \in {"leased", "sending", "flushed"}
    /\ \E m \in cur[w] : ~EmailBlocked(m)
    /\ pc' = [pc EXCEPT ![w] = "raised"]
    /\ view' = [view EXCEPT ![w] = "none"]
    /\ faults' = faults + 1
    /\ UNCHANGED <<emailEnabled, rowVars, tok, batch, cur, loaded, accepted, requeued, overwritten>>

\* _recover_unhandled_dispatch_exception: ownership is read, then the row.
RecoverException(w) ==
    /\ pc[w] = "raised"
    /\ \E m \in cur[w] :
         IF Owns(w, m)
         THEN /\ pc' = [pc EXCEPT ![w] = "recovering"]
              /\ loaded' = [loaded EXCEPT ![w] = row[m].retries]
              /\ view' = [view EXCEPT ![w] = "retry"]
              /\ UNCHANGED <<tok, batch, cur>>
         ELSE Proceed(w, batch[w])
    /\ UNCHANGED <<emailEnabled, rowVars, history>>

\* The row moved on between the read and the commit of a recovery.
Outdated(w, m) == row[m].status # "processing" \/ row[m].retries # loaded[w]

\* The UPDATE selects by primary key alone.
CommitRecovery(w) ==
    /\ pc[w] = "recovering"
    /\ \E m \in cur[w] :
         /\ ~UpdateLocked(m)
         /\ row' = [row EXCEPT ![m] = Flushed(w, m)]
         /\ overwritten' = [overwritten EXCEPT ![m] = @ + (IF Outdated(w, m) THEN 1 ELSE 0)]
    /\ Proceed(w, batch[w])
    /\ UNCHANGED <<emailEnabled, restricted, accepted, requeued, faults>>

\* The process dies, or a failure outside the try block ends the call.
Crash(w) ==
    /\ faults < MaxFaults
    /\ pc[w] # "idle"
    /\ Proceed(w, {})
    /\ faults' = faults + 1
    /\ UNCHANGED <<emailEnabled, rowVars, accepted, requeued, overwritten>>

-----------------------------------------------------------------------------

WorkerStep(w) ==
    \/ reclaim_stale_processing_messages(w)
    \/ claim_pending_messages(w)
    \/ RefreshLease(w)
    \/ MarkRuntimeBlocked(w)
    \/ StartSend(w)
    \/ RefuseMessage(w)
    \/ ProviderAccepts(w)
    \/ CheckOwnership(w)
    \/ RecoverException(w)
    \/ CommitRecovery(w)

Next ==
    \/ \E m \in Messages :
         \/ queue_outbound_message(m)
         \/ requeue_dead_outbound_message(m)
         \/ record_email_delivery_receipt(m)
         \/ restrict_processing(m)
         \/ BackoffElapses(m)
         \/ LeaseExpires(m)
         \/ LeaseExpiresUnderWorker(m)
    \/ \E w \in Workers :
         \/ WorkerStep(w)
         \/ AttemptRaises(w)
         \/ Crash(w)

Spec == Init /\ [][Next]_vars

\* Worker loops poll forever and clocks advance; nothing else is owed.
Fairness ==
    /\ \A w \in Workers : WF_vars(WorkerStep(w))
    /\ \A m \in Messages : WF_vars(BackoffElapses(m)) /\ WF_vars(LeaseExpires(m))

FairSpec == Spec /\ Fairness

-----------------------------------------------------------------------------
(* Properties. *)

\* Every variable stays in its domain.
TypeOK ==
    /\ emailEnabled \in BOOLEAN
    /\ row \in [Messages -> Message]
    /\ restricted \subseteq Messages
    /\ pc \in [Workers -> {"idle", "reclaimed", "batch", "leased", "sending",
                           "flushed", "raised", "recovering"}]
    /\ tok \in [Workers -> Tokens \cup {NoToken}]
    /\ batch \in [Workers -> SUBSET Messages]
    /\ cur \in [Workers -> SUBSET Messages]
    /\ loaded \in [Workers -> Nat]
    /\ view \in [Workers -> Views]
    /\ accepted \in [Messages -> Nat]
    /\ requeued \in [Messages -> 0..MaxRequeues]
    /\ overwritten \in [Messages -> Nat]
    /\ faults \in 0..MaxFaults

\* The customer gets a message at most MaxRetries times, and as often again
\* for each requeue and for each recovery that overwrote a newer row
\* (_recover_unhandled_dispatch_exception): every claim that can end in a send
\* costs a retry_count, although no claim records what it sent.
SendsBounded ==
    \A m \in Messages :
        accepted[m] <= MaxRetries * (1 + requeued[m] + overwritten[m])

\* Leases keep dispatch attempts apart: two workers work on one message only
\* if faults (a stall past outbox_lock_seconds) let them, or a requeue of a
\* row that a receipt settled under its worker.
DispatchExclusive ==
    \A m \in Messages :
        Cardinality({w \in Workers : m \in cur[w] /\ pc[w] \in {"leased", "sending"}})
            <= 1 + faults + requeued[m]

\* No message is stuck: in flight leads to sent, failed or dead.
EveryMessageSettles ==
    \A m \in Messages : row[m].status \in InFlight ~> row[m].status \in Settled

\* A successful dispatch whose lease is still held is recorded as sent.
SentIsRecorded ==
    [][\A w \in Workers : \A m \in cur[w] :
          CheckOwnership(w) /\ view[w] = "sent" /\ Owns(w, m) => row'[m].status = "sent"]_vars

=============================================================================
