---------------------------- MODULE VoiceCommands ----------------------------
(***************************************************************************)
(* The commands an operator gives to a call (hold, keypad, transfer,       *)
(* hangup ...), the workers that hand them to the voice provider, and the  *)
(* inbox through which the provider's controller confirms them.            *)
(*                                                                         *)
(* Some commands are done when the provider call returns.  The others,     *)
(* Controller, are only delivered by it and end with a command.succeeded   *)
(* or command.failed event.  A step is a transaction, or what happens      *)
(* between two of them.  Time is two marks of a row: a lease has expired,  *)
(* a back-off has elapsed.                                                 *)
(***************************************************************************)
EXTENDS Naturals, FiniteSets

CONSTANTS
    Commands,      \* webchat_voice_session_actions of one voice session, in order
    Controller,    \* those the provider only delivers
    Hangup,        \* those that are still carried out once the session is closed
    Workers,       \* processes that run _dispatch_realtime_control_work
    MaxAttempts,   \* COMMAND_MAX_ATTEMPTS, and _MAX_ATTEMPTS of the inbox
    BatchLimit,    \* limit of the two claims
    MaxFaults,     \* bound: crashes, exceptions, failed commits and projections
    MaxDeliveries  \* bound: times an event is delivered

ASSUME VoiceAssumption ==
    /\ Commands \subseteq Nat \ {0}
    /\ Controller \subseteq Commands
    /\ Hangup \subseteq Commands
    /\ IsFiniteSet(Workers)
    /\ MaxAttempts \in Nat \ {0}
    /\ BatchLimit \in Nat \ {0}
    /\ MaxFaults \in Nat
    /\ MaxDeliveries \in Nat

VARIABLES
    row,        \* webchat_voice_session_actions
    closed,     \* the voice session is ended, missed, failed or cancelled
    inbox,      \* telephony_event_inbox, the command events of the session
    executed,   \* history: how often a command was given to the provider
    pc,         \* where a worker is
    batch,      \* the rest of the commands it claimed
    cur,        \* the command it works on, or 0
    replay,     \* the rest of the events it claimed
    evt,        \* the event it works on, or none
    seen,       \* the attempt_count its session loaded
    result,     \* what it is about to write
    faults      \* faults so far

rows == <<row, closed, inbox, executed>>
workers == <<pc, batch, cur, replay, evt, seen, result>>
vars == <<rows, workers, faults>>

\* Every attempt at a controller command may be answered by an event.
Events == Controller \X (1..MaxAttempts)

Settled == {"succeeded", "failed", "cancelled"}
Lease == {"none", "live", "expired"}
Row == [status : {"absent", "requested", "dispatching", "retryable"} \cup Settled,
        delivered : BOOLEAN, attempts : 0..MaxAttempts, due : BOOLEAN, lease : Lease]
Event == [status : {"absent", "processing", "retryable", "processed", "dead_letter"},
          ok : BOOLEAN, attempts : 0..(MaxAttempts + MaxDeliveries), due : BOOLEAN, lease : Lease,
          deliveries : 0..MaxDeliveries]

NoRow == [status |-> "absent", delivered |-> FALSE, attempts |-> 0, due |-> TRUE,
          lease |-> "none"]
NoEvent == [status |-> "absent", ok |-> FALSE, attempts |-> 0, due |-> TRUE,
            lease |-> "none", deliveries |-> 0]
NoEvt == <<>>

Init ==
    /\ row = [c \in Commands |-> NoRow]
    /\ closed = FALSE
    /\ inbox = [e \in Events |-> NoEvent]
    /\ executed = [c \in Commands |-> 0]
    /\ pc = [w \in Workers |-> "idle"]
    /\ batch = [w \in Workers |-> {}]
    /\ cur = [w \in Workers |-> 0]
    /\ replay = [w \in Workers |-> {}]
    /\ evt = [w \in Workers |-> NoEvt]
    /\ seen = [w \in Workers |-> 0]
    /\ result = [w \in Workers |-> "none"]
    /\ faults = 0

-----------------------------------------------------------------------------
(* What is written to a command *)

finish(r, status) == [r EXCEPT !.status = status, !.delivered = FALSE, !.due = TRUE,
                               !.lease = "none"]

\* The status is set to dispatching, which the session has loaded: the column
\* is not part of the update, and keeps what others have made of it.
await_provider_event(r) == [r EXCEPT !.delivered = TRUE, !.due = TRUE, !.lease = "live"]

retry(r) == [r EXCEPT !.status = "retryable", !.delivered = FALSE, !.due = FALSE,
                      !.lease = "none"]

Written(r, outcome) ==
    CASE outcome = "await" -> await_provider_event(r)
      [] outcome = "retry" -> retry(r)
      [] OTHER -> finish(r, outcome)

\* Mutation: the confirmation does not look at what has become of the command.
resolve_and_reopen(r, ok) == IF ok THEN finish(r, "succeeded") ELSE retry(r)

\* A confirmation of the provider ends a command that has not ended yet.
resolve_voice_command(r, ok) ==
    IF r.status \in Settled THEN r ELSE finish(r, IF ok THEN "succeeded" ELSE "failed")

-----------------------------------------------------------------------------
(* The API *)

enqueue_voice_command(c) ==
    /\ row[c].status = "absent"
    /\ \A d \in Commands : d < c => row[d].status # "absent"
    /\ row' = [row EXCEPT ![c] = [NoRow EXCEPT !.status = "requested"]]
    /\ UNCHANGED <<closed, inbox, executed, workers, faults>>

\* A hangup, an event or a time-out ends the session.
CloseSession ==
    /\ ~closed
    /\ closed' = TRUE
    /\ UNCHANGED <<row, inbox, executed, workers, faults>>

-----------------------------------------------------------------------------
(* The event inbox *)

start_processing(e) == [e EXCEPT !.status = "processing", !.attempts = @ + 1,
                                 !.due = TRUE, !.lease = "live"]
complete(e, status) == [e EXCEPT !.status = status, !.due = TRUE, !.lease = "none"]

\* The attempts are those the session loaded.
retry_event(e, attempts) ==
    IF attempts >= MaxAttempts THEN complete(e, "dead_letter")
    ELSE [e EXCEPT !.status = "retryable", !.due = FALSE, !.lease = "none"]

\* The webhook of an event: the row is made or locked, the event projected and
\* the row completed in one transaction.
process_controller_event(e) ==
    /\ executed[e[1]] >= e[2]
    /\ inbox[e].deliveries < MaxDeliveries
    /\ inbox[e].status \notin {"processed", "dead_letter"}
    /\ inbox[e].status = "retryable" => inbox[e].due
    /\ \E ok \in BOOLEAN :
        LET started == [start_processing(inbox[e]) EXCEPT !.deliveries = @ + 1, !.ok = ok]
        IN  /\ inbox[e].status # "absent" => ok = inbox[e].ok
            /\ \/ /\ inbox' = [inbox EXCEPT ![e] = complete(started, "processed")]
                  /\ row' = [row EXCEPT ![e[1]] = resolve_voice_command(@, ok)]
                  /\ UNCHANGED faults
               \/ /\ faults < MaxFaults
                  /\ inbox' = [inbox EXCEPT ![e] = retry_event(started, started.attempts)]
                  /\ faults' = faults + 1
                  /\ UNCHANGED row
    /\ UNCHANGED <<closed, executed, workers>>

-----------------------------------------------------------------------------
(* dispatch_pending_voice_commands *)

Unconfirmed(c) ==
    /\ row[c].status = "dispatching" /\ row[c].delivered
    /\ row[c].lease = "expired" /\ row[c].attempts >= MaxAttempts

expire_unconfirmed_commands(w) ==
    /\ pc[w] = "idle"
    /\ row' = [c \in Commands |-> IF Unconfirmed(c) THEN finish(row[c], "failed") ELSE row[c]]
    /\ pc' = [pc EXCEPT ![w] = "claim"]
    /\ UNCHANGED <<closed, inbox, executed, batch, cur, replay, evt, seen, result, faults>>

\* Mutation: a command whose worker died is not found again.
ClaimableDue(c) ==
    /\ row[c].attempts < MaxAttempts
    /\ row[c].status \in {"requested", "retryable"} /\ row[c].due

\* Mutation: the last attempt is taken once more.
ClaimableOnceMore(c) ==
    /\ row[c].attempts <= MaxAttempts
    /\ \/ row[c].status \in {"requested", "retryable"} /\ row[c].due
       \/ row[c].status = "dispatching" /\ row[c].lease = "expired"

Claimable(c) ==
    /\ row[c].attempts < MaxAttempts
    /\ \/ row[c].status \in {"requested", "retryable"} /\ row[c].due
       \/ row[c].status = "dispatching" /\ row[c].lease = "expired"

\* Mutation: a lease that is taken over is not counted as an attempt.
ClaimedFree(r) ==
    [r EXCEPT !.status = "dispatching", !.delivered = FALSE, !.lease = "live",
              !.attempts = IF r.status = "dispatching" THEN @ ELSE @ + 1]

Claimed(r) == [r EXCEPT !.status = "dispatching", !.delivered = FALSE,
                        !.attempts = @ + 1, !.lease = "live"]

\* The oldest of a set, as many as a claim takes.
Oldest(S, T) ==
    /\ T \subseteq S
    /\ \A c \in T : \A d \in S \ T : c < d
    /\ T = S \/ Cardinality(T) = BatchLimit
    /\ Cardinality(T) <= BatchLimit

claim_due_commands(w) ==
    /\ pc[w] = "claim"
    /\ \E T \in SUBSET {c \in Commands : Claimable(c)} :
        /\ Oldest({c \in Commands : Claimable(c)}, T)
        /\ row' = [c \in Commands |-> IF c \in T THEN Claimed(row[c]) ELSE row[c]]
        /\ batch' = [batch EXCEPT ![w] = T]
    /\ pc' = [pc EXCEPT ![w] = "batch"]
    /\ UNCHANGED <<closed, inbox, executed, cur, replay, evt, seen, result, faults>>

\* _dispatch_one up to the provider call: the next command of the batch is
\* loaded, and skipped if it is no longer dispatching.  Whose lease it is under
\* is not looked at.
LoadCommand(w) ==
    /\ pc[w] = "batch"
    /\ \E c \in batch[w] :
        /\ \A d \in batch[w] : c <= d
        /\ batch' = [batch EXCEPT ![w] = @ \ {c}]
        /\ IF row[c].status # "dispatching"
           THEN UNCHANGED <<pc, cur, seen, result>>
           ELSE /\ cur' = [cur EXCEPT ![w] = c]
                /\ seen' = [seen EXCEPT ![w] = row[c].attempts]
                /\ \/ /\ closed /\ c \notin Hangup
                      /\ pc' = [pc EXCEPT ![w] = "write"]
                      /\ result' = [result EXCEPT ![w] = "cancelled"]
                   \/ /\ ~closed \/ c \in Hangup
                      /\ pc' = [pc EXCEPT ![w] = "call"]
                      /\ UNCHANGED result
    /\ UNCHANGED <<rows, replay, evt, faults>>

\* The provider call.  An error may or may not have reached the call; one that
\* can be retried is, while the session has not seen the last attempt.
Outcomes(w) ==
    {IF cur[w] \in Controller THEN "await" ELSE "succeeded", "failed"}
        \cup (IF seen[w] < MaxAttempts THEN {"retry"} ELSE {})

execute_action(w) ==
    /\ pc[w] = "call"
    /\ executed' = [executed EXCEPT ![cur[w]] = @ + 1]
    /\ \E outcome \in Outcomes(w) : result' = [result EXCEPT ![w] = outcome]
    /\ pc' = [pc EXCEPT ![w] = "write"]
    /\ UNCHANGED <<row, closed, inbox, batch, cur, replay, evt, seen, faults>>

\* The session is done with the command, or the event, it worked on.
Forget(w) ==
    /\ cur' = [cur EXCEPT ![w] = 0]
    /\ evt' = [evt EXCEPT ![w] = NoEvt]
    /\ seen' = [seen EXCEPT ![w] = 0]
    /\ result' = [result EXCEPT ![w] = "none"]

\* The outcome is committed, by primary key.
WriteOutcome(w) ==
    /\ pc[w] \in {"write", "rewrite"}
    /\ row' = [row EXCEPT ![cur[w]] = Written(@, result[w])]
    /\ pc' = [pc EXCEPT ![w] = "batch"]
    /\ Forget(w)
    /\ UNCHANGED <<closed, inbox, executed, batch, replay, faults>>

\* An exception in _dispatch_one, before the provider call or at the commit.  In
\* the recovery itself it ends the call of the dispatcher.
AttemptRaises(w) ==
    /\ pc[w] \in {"call", "write", "rewrite"}
    /\ faults < MaxFaults
    /\ faults' = faults + 1
    /\ \/ /\ pc[w] = "rewrite"
          /\ pc' = [pc EXCEPT ![w] = "idle"]
          /\ batch' = [batch EXCEPT ![w] = {}]
          /\ Forget(w)
       \/ /\ pc[w] # "rewrite"
          /\ pc' = [pc EXCEPT ![w] = "recover"]
          /\ UNCHANGED <<batch, cur, evt, seen, result>>
    /\ UNCHANGED <<rows, replay>>

\* dispatcher_internal_error: retried whatever the attempts.
RecoverException(w) ==
    /\ pc[w] = "recover"
    /\ IF row[cur[w]].status = "dispatching"
       THEN /\ pc' = [pc EXCEPT ![w] = "rewrite"]
            /\ result' = [result EXCEPT ![w] = "retry"]
            /\ UNCHANGED <<cur, evt, seen>>
       ELSE /\ pc' = [pc EXCEPT ![w] = "batch"]
            /\ Forget(w)
    /\ UNCHANGED <<rows, batch, replay, faults>>

-----------------------------------------------------------------------------
(* reprocess_due_telephony_events *)

DueEvents ==
    {e \in Events : /\ inbox[e].attempts < MaxAttempts
                    /\ \/ inbox[e].status = "retryable" /\ inbox[e].due
                       \/ inbox[e].status = "processing" /\ inbox[e].lease = "expired"}

claim_due_events(w) ==
    /\ pc[w] = "batch" /\ batch[w] = {}
    /\ \E T \in SUBSET DueEvents :
        /\ T = DueEvents \/ Cardinality(T) = BatchLimit
        /\ Cardinality(T) <= BatchLimit
        /\ inbox' = [e \in Events |-> IF e \in T THEN start_processing(inbox[e]) ELSE inbox[e]]
        /\ replay' = [replay EXCEPT ![w] = T]
        /\ pc' = [pc EXCEPT ![w] = IF T = {} THEN "idle" ELSE "events"]
    /\ UNCHANGED <<row, closed, executed, batch, cur, evt, seen, result, faults>>

LoadEvent(w) ==
    /\ pc[w] = "events"
    /\ \E e \in replay[w] :
        /\ replay' = [replay EXCEPT ![w] = @ \ {e}]
        /\ \/ /\ inbox[e].status = "processing"
              /\ evt' = [evt EXCEPT ![w] = e]
              /\ seen' = [seen EXCEPT ![w] = inbox[e].attempts]
              /\ pc' = [pc EXCEPT ![w] = "project"]
           \/ /\ inbox[e].status # "processing"
              /\ pc' = [pc EXCEPT ![w] = IF replay[w] = {e} THEN "idle" ELSE "events"]
              /\ UNCHANGED <<evt, seen>>
    /\ UNCHANGED <<rows, batch, cur, result, faults>>

AfterEvent(w) ==
    /\ pc' = [pc EXCEPT ![w] = IF replay[w] = {} THEN "idle" ELSE "events"]
    /\ Forget(w)
    /\ UNCHANGED <<closed, executed, batch, replay>>

\* _reprocess_one: the event is projected and its row completed.
ProjectEvent(w) ==
    /\ pc[w] = "project"
    /\ inbox' = [inbox EXCEPT ![evt[w]] = complete(@, "processed")]
    /\ row' = [row EXCEPT ![evt[w][1]] = resolve_voice_command(@, inbox[evt[w]].ok)]
    /\ AfterEvent(w)
    /\ UNCHANGED faults

\* The projection fails and the loaded row is put back, or the transaction
\* fails and a fresh one is, if it is still in processing.
ProjectionFails(w) ==
    /\ pc[w] = "project"
    /\ faults < MaxFaults
    /\ faults' = faults + 1
    /\ \/ inbox' = [inbox EXCEPT ![evt[w]] = retry_event(@, seen[w])]
       \/ /\ inbox[evt[w]].status = "processing"
          /\ inbox' = [inbox EXCEPT ![evt[w]] = retry_event(@, @.attempts)]
    /\ AfterEvent(w)
    /\ UNCHANGED row

-----------------------------------------------------------------------------
(* Time and failure *)

LeaseExpires(c) ==
    /\ row[c].lease = "live"
    /\ row' = [row EXCEPT ![c].lease = "expired"]
    /\ UNCHANGED <<closed, inbox, executed, workers, faults>>

BackoffElapses(c) ==
    /\ ~row[c].due
    /\ row' = [row EXCEPT ![c].due = TRUE]
    /\ UNCHANGED <<closed, inbox, executed, workers, faults>>

EventLeaseExpires(e) ==
    /\ inbox[e].lease = "live"
    /\ inbox' = [inbox EXCEPT ![e].lease = "expired"]
    /\ UNCHANGED <<row, closed, executed, workers, faults>>

EventBackoffElapses(e) ==
    /\ ~inbox[e].due
    /\ inbox' = [inbox EXCEPT ![e].due = TRUE]
    /\ UNCHANGED <<row, closed, executed, workers, faults>>

Crash(w) ==
    /\ pc[w] # "idle"
    /\ faults < MaxFaults
    /\ faults' = faults + 1
    /\ pc' = [pc EXCEPT ![w] = "idle"]
    /\ batch' = [batch EXCEPT ![w] = {}]
    /\ replay' = [replay EXCEPT ![w] = {}]
    /\ Forget(w)
    /\ UNCHANGED rows

WorkerStep(w) ==
    \/ expire_unconfirmed_commands(w) \/ claim_due_commands(w)
    \/ LoadCommand(w) \/ execute_action(w) \/ WriteOutcome(w) \/ RecoverException(w)
    \/ claim_due_events(w) \/ LoadEvent(w) \/ ProjectEvent(w)

Next ==
    \/ \E c \in Commands : enqueue_voice_command(c) \/ LeaseExpires(c) \/ BackoffElapses(c)
    \/ CloseSession
    \/ \E e \in Events : \/ process_controller_event(e)
                         \/ EventLeaseExpires(e) \/ EventBackoffElapses(e)
    \/ \E w \in Workers : \/ WorkerStep(w) \/ AttemptRaises(w) \/ ProjectionFails(w)
                          \/ Crash(w)

Spec == Init /\ [][Next]_vars

\* Workers poll for ever and time passes; operators, the provider and faults
\* owe nothing.
FairSpec ==
    /\ Spec
    /\ \A w \in Workers : WF_vars(WorkerStep(w))
    /\ \A c \in Commands : WF_vars(LeaseExpires(c)) /\ WF_vars(BackoffElapses(c))
    /\ \A e \in Events : WF_vars(EventLeaseExpires(e)) /\ WF_vars(EventBackoffElapses(e))

-----------------------------------------------------------------------------
(* Properties *)

\* Every variable keeps its domain: attempt_count never passes its maximum,
\* whoever claims, retries or recovers.
TypeOK ==
    /\ row \in [Commands -> Row]
    /\ closed \in BOOLEAN
    /\ inbox \in [Events -> Event]
    /\ executed \in [Commands -> Nat]
    /\ pc \in [Workers -> {"idle", "claim", "batch", "call", "write", "recover", "rewrite",
                           "events", "project"}]
    /\ batch \in [Workers -> SUBSET Commands]
    /\ cur \in [Workers -> {0} \cup Commands]
    /\ replay \in [Workers -> SUBSET Events]
    /\ evt \in [Workers -> {NoEvt} \cup Events]
    /\ seen \in [Workers -> 0..(MaxAttempts + MaxDeliveries)]
    /\ result \in [Workers -> {"none", "await", "retry"} \cup Settled]
    /\ faults \in 0..MaxFaults

\* Every call of the provider is paid for by an attempt.  _dispatch_one looks at
\* no lease, and two workers whose leases overlap both give the command to the
\* provider; still a caller hears a keypad tone, or is transferred, at most as
\* often as attempt_count says, and so at most COMMAND_MAX_ATTEMPTS times.
ExecutionsPaidFor == \A c \in Commands : executed[c] <= row[c].attempts

\* A command that has ended is opened again only by the write of a worker that
\* had loaded it before: no claim, no recovery read, no time-out of a
\* confirmation and no late or contradicting event revives it.
RevivedOnlyInFlight ==
    [][\A c \in Commands :
        row[c].status \in Settled /\ row'[c].status \notin Settled =>
            \E w \in Workers : cur[w] = c /\ pc[w] \in {"write", "rewrite"}]_vars

\* The holes of the claim: at the last attempt neither a lease that was lost nor
\* a retry is found again.
Stranded(c) ==
    /\ row[c].attempts = MaxAttempts
    /\ row[c].status = "retryable" \/ (row[c].status = "dispatching" /\ ~row[c].delivered)
    /\ \A w \in Workers : c \notin batch[w] /\ cur[w] # c

\* Every command ends, unless it is lost at its last attempt: crashes,
\* exceptions, missing and contradicting events and overlapping leases leave
\* no other way to stay open for ever.
SettlesOrStranded ==
    \A c \in Commands :
        row[c].status = "requested" ~> (row[c].status \in Settled \/ Stranded(c))

=============================================================================
