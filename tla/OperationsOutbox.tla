-------------------------- MODULE OperationsOutbox --------------------------
(***************************************************************************)
(* The outbox of operations dispatches: rows that workers claim under a    *)
(* lease, hand to a provider's adapter and settle.  A row is named by its  *)
(* unique dispatch_key.  A step is a transaction or a call of the adapter; *)
(* a worker may die between any two.                                       *)
(*                                                                         *)
(* The lease columns are read of rows in processing only.  Between the     *)
(* outcome of an attempt and the next claim of its loop a worker spends    *)
(* less than the shortest retry delay of 30 seconds, so no claim finds a   *)
(* row the session still holds from an earlier turn.                       *)
(***************************************************************************)
EXTENDS Naturals

CONSTANTS
    Dispatches,   \* dispatch keys
    Tenanted,     \* the keys whose tenant_key names a tenant: not empty, not "default"
    Workers,
    MaxAttempts   \* max_attempts of a row

ASSUME OutboxAssumption == MaxAttempts \in Nat \ {0}
ASSUME TenantedAssumption == Tenanted \subseteq Dispatches

VARIABLES
    row,         \* operations_dispatch_outbox
    worker,      \* what a worker works on: its envelope, and the adapter's result
    cancelling,  \* rows as cancellations have loaded and not written them yet
    called,      \* the attempts of a dispatch that have called the provider
    taken        \* the dispatches the provider took

vars == <<row, worker, cancelling, called, taken>>

None == "none"
Statuses == {"absent", "pending", "processing", "retryable", "dispatched", "failed",
             "dead_letter", "cancelled"}
Results == {"success", "retryable", "refused"}

Row == [status : Statuses, attempts : 0..MaxAttempts, owner : Workers \cup {None},
        live : BOOLEAN,   \* lease_expires_at is in the future
        due : BOOLEAN]    \* next_retry_at has passed
Loaded == [item : Dispatches, leased : BOOLEAN]
Idle == [pc |-> "idle", item |-> None, attempt |-> 0, result |-> None]

Absent == [status |-> "absent", attempts |-> 0, owner |-> None, live |-> FALSE, due |-> FALSE]

Init ==
    /\ row = [d \in Dispatches |-> Absent]
    /\ worker = [w \in Workers |-> Idle]
    /\ cancelling = {}
    /\ called = [d \in Dispatches |-> {}]
    /\ taken = {}

-----------------------------------------------------------------------------
(* A key that exists is returned as it is. *)
enqueue_operations_dispatch(d) ==
    /\ row[d].status = "absent"
    /\ row' = [row EXCEPT ![d].status = "pending"]
    /\ UNCHANGED <<worker, cancelling, called, taken>>

Settled(r, status) == [r EXCEPT !.status = status, !.owner = None, !.live = FALSE, !.due = FALSE]

Exhausted(r) == r.attempts >= MaxAttempts

recover_expired_lease(r) ==
    IF r.status # "processing" \/ r.live THEN r
    ELSE IF Exhausted(r) THEN Settled(r, "dead_letter")
    ELSE [Settled(r, "retryable") EXCEPT !.due = TRUE]

dead_letter_exhausted(r) ==
    IF r.status \in {"pending", "retryable"} /\ Exhausted(r) THEN Settled(r, "dead_letter") ELSE r

\* What a claim makes of the other rows first.
Swept(r) == dead_letter_exhausted(recover_expired_lease(r))

Claimable(r) ==
    /\ r.status = "pending" \/ (r.status = "retryable" /\ r.due)
    /\ r.attempts < MaxAttempts

ClaimedBy(w, r) == [r EXCEPT !.status = "processing", !.attempts = @ + 1, !.owner = w,
                             !.live = TRUE, !.due = FALSE]

\* Mutation: the envelope is made before the attempt is counted.
EnvelopeBefore(d, r) == [pc |-> "call", item |-> d, attempt |-> r.attempts - 1, result |-> None]

Envelope(d, r) == [pc |-> "call", item |-> d, attempt |-> r.attempts, result |-> None]

\* Rows that other transactions have locked are skipped, so any due row may be
\* the one.  The claim is committed before the adapter is called.
claim_next_operations_dispatch(w) ==
    /\ worker[w] = Idle
    /\ \/ \E d \in Dispatches :
            /\ Claimable(Swept(row[d]))
            /\ row' = [e \in Dispatches |-> IF e = d THEN ClaimedBy(w, Swept(row[e]))
                                            ELSE Swept(row[e])]
            /\ worker' = [worker EXCEPT ![w] = Envelope(d, ClaimedBy(w, Swept(row[d])))]
       \/ /\ \A d \in Dispatches : ~Claimable(Swept(row[d]))
          /\ row' = [e \in Dispatches |-> Swept(row[e])]
          /\ UNCHANGED worker
    /\ UNCHANGED <<cancelling, called, taken>>

Returns(w, result) == worker' = [worker EXCEPT ![w].pc = "report", ![w].result = result]

\* The adapter and the check of its acknowledgement.  An exception after the
\* provider took the dispatch is a retryable failure all the same.
CallAdapter(w, d) ==
    /\ called' = [called EXCEPT ![d] = @ \cup {worker[w].attempt}]
    /\ \E result \in Results :
        /\ taken' \in IF result = "success" THEN {taken \cup {d}} ELSE {taken, taken \cup {d}}
        /\ Returns(w, result)

\* tenant_authority_unavailable: refused without a call.
RefuseTenant(w) ==
    /\ Returns(w, "refused")
    /\ UNCHANGED <<called, taken>>

dispatch(w) ==
    LET d == worker[w].item IN
    /\ worker[w].pc = "call"
    /\ \/ d \in Tenanted /\ CallAdapter(w, d)
       \/ d \notin Tenanted /\ RefuseTenant(w)
    /\ UNCHANGED <<row, cancelling>>

\* Mutation: a worker is known by the row it works on, not by the lease.
OwnedByAnyone(w, r) == r.status = "processing" /\ r.live

\* _owned_processing_record
Owned(w, r) == r.status = "processing" /\ r.owner = w /\ r.live

\* Mutation: what the adapter said does not matter.
FinalizedUnchecked(r, result) ==
    IF result = "retryable" /\ ~Exhausted(r) THEN Settled(r, "retryable")
    ELSE Settled(r, "dispatched")

\* mark_operations_dispatch_success and mark_operations_dispatch_failure
Finalized(r, result) ==
    IF result = "success" THEN Settled(r, "dispatched")
    ELSE IF Exhausted(r) THEN Settled(r, "dead_letter")
    ELSE Settled(r, IF result = "retryable" THEN "retryable" ELSE "failed")

\* A lost lease rolls the transaction back.
Report(w) ==
    LET d == worker[w].item IN
    /\ worker[w].pc = "report"
    /\ row' = IF Owned(w, row[d]) THEN [row EXCEPT ![d] = Finalized(@, worker[w].result)] ELSE row
    /\ worker' = [worker EXCEPT ![w] = Idle]
    /\ UNCHANGED <<cancelling, called, taken>>

\* The process dies, or the transaction that settles the row fails.
Crash(w) ==
    /\ worker[w] # Idle
    /\ worker' = [worker EXCEPT ![w] = Idle]
    /\ UNCHANGED <<row, cancelling, called, taken>>

\* A cancellation loads the row without a lock, and updates it by its key.
CancelLoads(d) ==
    /\ row[d].status \notin {"absent", "dispatched", "dead_letter"}
    /\ cancelling' = cancelling \cup {[item |-> d, leased |-> row[d].status = "processing"]}
    /\ UNCHANGED <<row, worker, called, taken>>

\* ck_operations_dispatch_outbox_lease_state: an update that did not see the
\* lease does not clear it, and is refused and rolled back.
Cancelled(r, c) ==
    IF r.status = "processing" /\ ~c.leased THEN r ELSE Settled(r, "cancelled")

cancel_operations_dispatch(d) ==
    /\ \E c \in cancelling :
         /\ c.item = d
         /\ row' = [row EXCEPT ![d] = Cancelled(@, c)]
         /\ cancelling' = cancelling \ {c}
    /\ UNCHANGED <<worker, called, taken>>

LeaseExpires(d) ==
    /\ row[d].status = "processing" /\ row[d].live
    /\ row' = [row EXCEPT ![d].live = FALSE]
    /\ UNCHANGED <<worker, cancelling, called, taken>>

RetryFallsDue(d) ==
    /\ row[d].status = "retryable" /\ ~row[d].due
    /\ row' = [row EXCEPT ![d].due = TRUE]
    /\ UNCHANGED <<worker, cancelling, called, taken>>

Next ==
    \/ \E d \in Dispatches : \/ enqueue_operations_dispatch(d) \/ CancelLoads(d)
                             \/ cancel_operations_dispatch(d)
                             \/ LeaseExpires(d) \/ RetryFallsDue(d)
    \/ \E w \in Workers : \/ claim_next_operations_dispatch(w) \/ dispatch(w)
                          \/ Report(w) \/ Crash(w)

Spec == Init /\ [][Next]_vars

-----------------------------------------------------------------------------
(* Properties *)

Working(w) ==
    worker[w] \in [pc : {"call", "report"}, item : Dispatches, attempt : 1..MaxAttempts,
                   result : Results \cup {None}]

\* Every variable keeps its domain: no row is attempted more than MaxAttempts
\* times, however many leases expire and workers die.
TypeOK ==
    /\ row \in [Dispatches -> Row]
    /\ DOMAIN worker = Workers
    /\ \A w \in Workers : worker[w] = Idle \/ Working(w)
    /\ cancelling \subseteq Loaded
    /\ called \in [Dispatches -> SUBSET (1..MaxAttempts)]
    /\ taken \subseteq Dispatches

\* A worker that comes back from the adapter when its dispatch has been given to
\* a newer attempt leaves the row of that attempt alone.
NewerAttemptKept ==
    [][\A w \in Workers :
        LET d == worker[w].item IN
        worker[w].pc = "report" /\ worker[w].attempt # row[d].attempts /\ worker'[w] # worker[w]
            => row'[d] = row[d]]_vars

Outcome(status) ==
    CASE status = "dispatched" -> "done"
      [] status = "failed" -> "refused"
      [] status = "dead_letter" -> "dead"
      [] status = "cancelled" -> "withdrawn"
      [] OTHER -> "open"

Delivery == INSTANCE BoundedDelivery WITH
    Items <- Dispatches, Admitted <- Tenanted, MaxTries <- MaxAttempts,
    tries <- [d \in Dispatches |-> row[d].attempts],
    outcome <- [d \in Dispatches |-> Outcome(row[d].status)]

\* The outbox implements bounded delivery: each attempt calls the provider at
\* most once and that of a row without a tenant never, a row is dispatched only
\* if the provider took it, failed only after a call or for want of a tenant,
\* dead only after its last attempt, and only a cancellation changes an outcome.
DeliversBounded == Delivery!Spec

=============================================================================
