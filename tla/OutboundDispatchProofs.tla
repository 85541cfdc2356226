----------------------- MODULE OutboundDispatchProofs -----------------------
(***************************************************************************)
(* Proofs about OutboundDispatch, for every set of messages, every finite  *)
(* set of workers and every bound.                                         *)
(*                                                                         *)
(* The bound on sends is an accounting argument.  A claim arms its worker  *)
(* to send the message once; the row pays for the claim, at once by being  *)
(* charged and later by its retry_count, and a requeue or an overwriting   *)
(* recovery refills the account by MaxRetries.                             *)
(***************************************************************************)
EXTENDS OutboundDispatch, FiniteSetTheorems, TLAPS

-----------------------------------------------------------------------------
(* The inductive invariant. *)

\* Workers that may still hand m to its provider under a claim they made.
Armed(m) ==
    {w \in Workers : m \in batch[w] \/ (m \in cur[w] /\ pc[w] \in {"leased", "sending"})}

\* 1 if the row has been claimed and its retry_count does not say so.
Charge(r) == IF r.status \in {"absent", "pending"} \/ r.retries = MaxRetries THEN 0 ELSE 1

Refills(m) == requeued[m] + overwritten[m]

\* Claims the row has paid for.
Paid(m) == MaxRetries * Refills(m) + row[m].retries + Charge(row[m])

\* retry_count never passes MaxRetries, nor reaches it while in flight.
RetriesBelowMax ==
    \A m \in Messages :
        /\ row[m].retries <= MaxRetries
        /\ row[m].status \in InFlight \cup {"absent"} => row[m].retries < MaxRetries

\* A recovery holds a retry_count it read from a row in flight.
RecoveryLoaded ==
    \A w \in Workers :
        pc[w] = "recovering" => loaded[w] < MaxRetries /\ view[w] = "retry"

\* A worker works on one message at a time, which has left its batch, on none
\* between dispatches, and hands over no blocked email.
OneCurrent ==
    \A w \in Workers :
        /\ \A i, m \in cur[w] : i = m
        /\ \A m \in cur[w] : m \notin batch[w]
        /\ pc[w] \in {"idle", "reclaimed", "batch"} => cur[w] = {}
        /\ pc[w] = "sending" => \A m \in cur[w] : ~EmailBlocked(m)

\* What was accepted and may still be sent has been paid for.
Accounted(m) ==
    IF EmailBlocked(m) THEN accepted[m] = 0
                       ELSE accepted[m] + Cardinality(Armed(m)) <= Paid(m)

SendsAccounted == \A m \in Messages : Accounted(m)

\* The worker part of TypeOK.
WorkersTyped ==
    /\ pc \in [Workers -> {"idle", "reclaimed", "batch", "leased", "sending",
                           "flushed", "raised", "recovering"}]
    /\ tok \in [Workers -> Tokens \cup {NoToken}]
    /\ batch \in [Workers -> SUBSET Messages]
    /\ cur \in [Workers -> SUBSET Messages]
    /\ loaded \in [Workers -> Nat]
    /\ view \in [Workers -> Views]

\* Everything the worker variables must satisfy by themselves.
WorkersOK == WorkersTyped /\ RecoveryLoaded /\ OneCurrent

IInv ==
    /\ TypeOK
    /\ RetriesBelowMax
    /\ RecoveryLoaded
    /\ OneCurrent
    /\ SendsAccounted

USE MessagesAssumption, WorkersAssumption, LeaseTokensAssumption, LimitsAssumption

-----------------------------------------------------------------------------
(* Lemmas: counting, rows, and what an account needs. *)

\* The workers armed for a message are finitely many.
LEMMA ArmedFinite ==
    ASSUME NEW m
    PROVE  IsFiniteSet(Armed(m)) /\ Cardinality(Armed(m)) \in Nat
  <1>1. Armed(m) \in SUBSET Workers
    BY DEF Armed
  <1>2. IsFiniteSet(Armed(m))
    BY <1>1, FS_Subset, WorkersAssumption
  <1> QED
    BY <1>2, FS_CardinalityType

\* One more refill is worth MaxRetries claims.
LEMMA RefillWorth ==
    ASSUME NEW k \in Nat
    PROVE  /\ MaxRetries * k \in Nat
           /\ MaxRetries * (k + 1) = MaxRetries * k + MaxRetries
  BY SMT

\* Numbers an account is made of.
LEMMA AccountTypes ==
    ASSUME IInv, NEW m \in Messages
    PROVE  /\ row[m] \in Message /\ row[m].retries \in Nat
           /\ accepted[m] \in Nat
           /\ requeued[m] \in Nat /\ overwritten[m] \in Nat /\ Refills(m) \in Nat
           /\ Charge(row[m]) \in {0, 1}
           /\ row[m].retries + Charge(row[m]) <= MaxRetries
           /\ MaxRetries * Refills(m) \in Nat
  <1>1. /\ row[m] \in Message /\ row[m].retries \in Nat
        /\ accepted[m] \in Nat
        /\ requeued[m] \in Nat /\ overwritten[m] \in Nat /\ Refills(m) \in Nat
        /\ row[m].retries <= MaxRetries
    BY DEF IInv, TypeOK, Message, Refills, RetriesBelowMax
  <1> QED
    BY <1>1, RefillWorth DEF Charge

\* _mark_retry, _mark_dead and _mark_sent return rows.
LEMMA MarkedRows ==
    ASSUME NEW r \in Message
    PROVE  /\ Unlocked(r) \in Message
           /\ MarkDead(r) \in Message /\ MarkDead(r).status = "dead" /\ MarkDead(r).retries = r.retries
           /\ MarkSent(r) \in Message /\ MarkSent(r).status = "sent" /\ MarkSent(r).retries = r.retries
  BY DEF Unlocked, MarkDead, MarkSent, Message, NoToken, InFlight, Settled

\* _mark_retry counts one attempt and kills the row with the last one.
LEMMA MarkRetryRow ==
    ASSUME NEW r \in Message, NEW n \in Nat, n < MaxRetries
    PROVE  /\ MarkRetry(r, n) \in Message
           /\ MarkRetry(r, n).retries = n + 1
           /\ \/ MarkRetry(r, n).status = "dead" /\ n + 1 = MaxRetries
              \/ MarkRetry(r, n).status = "pending" /\ n + 1 < MaxRetries
           /\ Charge(MarkRetry(r, n)) = 0
  <1> DEFINE e == n + 1 >= MaxRetries
             s == IF e THEN "dead" ELSE "pending"
             u == Unlocked(r)
             k == n + 1
  <1>1. k \in Nat /\ e \in BOOLEAN /\ s \in {"pending", "dead"} /\ u \in Message
    BY MarkedRows
  <1>2. \/ s = "dead" /\ k = MaxRetries
        \/ s = "pending" /\ k < MaxRetries
    OBVIOUS
  <1>3. MarkRetry(r, n) = [u EXCEPT !.retries = k, !.status = s, !.due = e]
    BY DEF MarkRetry
  <1> HIDE DEF e, s, u, k
  <1>4. /\ MarkRetry(r, n) \in Message
        /\ MarkRetry(r, n).retries = k
        /\ MarkRetry(r, n).status = s
    BY <1>1, <1>3 DEF Message, InFlight, Settled
  <1> QED
    BY <1>2, <1>4 DEF k, Charge

\* An account stays in order if nobody new is armed and no payment is lost.
LEMMA AccountKept ==
    ASSUME IInv, NEW m \in Messages,
           emailEnabled' = emailEnabled,
           accepted'[m] = accepted[m],
           Armed(m)' \subseteq Armed(m),
           Paid(m) <= Paid(m)', Paid(m)' \in Nat
    PROVE  Accounted(m)'
  <1>1. EmailBlocked(m)' = EmailBlocked(m)
    BY DEF EmailBlocked
  <1>2. Accounted(m)
    BY DEF IInv, SendsAccounted
  <1>3. /\ Cardinality(Armed(m)') \in Nat /\ Cardinality(Armed(m)) \in Nat
        /\ Cardinality(Armed(m)') <= Cardinality(Armed(m))
    <2>1. IsFiniteSet(Armed(m)) /\ Cardinality(Armed(m)) \in Nat
      BY ArmedFinite
    <2>2. Armed(m)' \in SUBSET Armed(m)
      OBVIOUS
    <2>3. IsFiniteSet(Armed(m)') /\ Cardinality(Armed(m)') <= Cardinality(Armed(m))
      BY <2>1, <2>2, FS_Subset
    <2> QED
      BY <2>1, <2>3, FS_CardinalityType
  <1>4. accepted[m] \in Nat /\ Paid(m) \in Nat
    BY AccountTypes DEF Paid
  <1> QED
    BY <1>1, <1>2, <1>3, <1>4 DEF Accounted

\* No row, refill or acceptance changes: the account follows the arming.
LEMMA AccountUntouched ==
    ASSUME IInv, NEW m \in Messages,
           emailEnabled' = emailEnabled,
           accepted'[m] = accepted[m],
           requeued'[m] = requeued[m], overwritten'[m] = overwritten[m],
           row'[m] = row[m],
           Armed(m)' \subseteq Armed(m)
    PROVE  Accounted(m)'
  <1>1. Paid(m)' = Paid(m)
    BY DEF Paid, Refills
  <1>2. Paid(m) \in Nat
    BY AccountTypes DEF Paid
  <1>3. Paid(m) <= Paid(m)' /\ Paid(m)' \in Nat
    BY <1>1, <1>2
  <1> QED
    BY <1>3, AccountKept

\* A new row that is charged no less keeps the account in order.
LEMMA RowPays ==
    ASSUME IInv, NEW m \in Messages,
           emailEnabled' = emailEnabled,
           accepted'[m] = accepted[m],
           requeued'[m] = requeued[m], overwritten'[m] = overwritten[m],
           row'[m] \in Message,
           row[m].retries + Charge(row[m]) <= row'[m].retries + Charge(row'[m]),
           Armed(m)' \subseteq Armed(m)
    PROVE  Accounted(m)'
  <1>1. Refills(m)' = Refills(m)
    BY DEF Refills
  <1>2. row'[m].retries \in Nat /\ Charge(row'[m]) \in {0, 1}
    BY DEF Message, Charge
  <1>3. Paid(m)' = MaxRetries * Refills(m) + row'[m].retries + Charge(row'[m])
    BY <1>1 DEF Paid, Charge
  <1>4. Paid(m) <= Paid(m)' /\ Paid(m)' \in Nat
    BY <1>2, <1>3, AccountTypes DEF Paid
  <1> QED
    BY <1>4, AccountKept

\* A refill pays for whatever the row has lost.
LEMMA RefillPays ==
    ASSUME IInv, NEW m \in Messages,
           emailEnabled' = emailEnabled,
           accepted'[m] = accepted[m],
           requeued'[m] + overwritten'[m] = requeued[m] + overwritten[m] + 1,
           row'[m] \in Message,
           Armed(m)' \subseteq Armed(m)
    PROVE  Accounted(m)'
  <1>1. Refills(m)' = Refills(m) + 1
    BY AccountTypes DEF Refills
  <1>2. row'[m].retries \in Nat /\ Charge(row'[m]) \in {0, 1}
    BY DEF Message, Charge
  <1>3. Paid(m)' = MaxRetries * Refills(m) + MaxRetries + row'[m].retries + Charge(row'[m])
    BY <1>1, RefillWorth, AccountTypes DEF Paid, Charge
  <1>4. Paid(m) <= Paid(m)' /\ Paid(m)' \in Nat
    BY <1>2, <1>3, AccountTypes DEF Paid
  <1> QED
    BY <1>4, AccountKept

\* Leaving a message arms nobody and keeps the worker variables in order.
LEMMA ProceedKeeps ==
    ASSUME IInv, NEW w \in Workers, NEW rest \in SUBSET batch[w], Proceed(w, rest),
           emailEnabled' = emailEnabled
    PROVE  WorkersOK' /\ \A m : Armed(m)' \subseteq Armed(m)
  <1>1. WorkersTyped'
    BY DEF IInv, TypeOK, Proceed, NoToken, Views, WorkersTyped
  <1>2. RecoveryLoaded'
    BY DEF IInv, TypeOK, Proceed, RecoveryLoaded
  <1>3. OneCurrent'
    <2>1. cur'[w] = {}
      BY DEF IInv, TypeOK, Proceed
    <2>2. \A u \in Workers \ {w} : cur'[u] = cur[u] /\ batch'[u] = batch[u] /\ pc'[u] = pc[u]
      BY DEF IInv, TypeOK, Proceed
    <2> QED
      BY <2>1, <2>2 DEF IInv, OneCurrent, EmailBlocked
  <1>4. \A m : Armed(m)' \subseteq Armed(m)
    BY DEF IInv, TypeOK, Proceed, Armed
  <1> QED
    BY <1>1, <1>2, <1>3, <1>4 DEF WorkersOK

-----------------------------------------------------------------------------
(* The steps. *)

\* The initial state satisfies the invariant.
LEMMA InitIInv == Init => IInv
  <1> SUFFICES ASSUME Init PROVE IInv
    OBVIOUS
  <1>1. TypeOK
    BY DEF Init, TypeOK, NoMessage, Message, InFlight, NoToken, Views
  <1>2. RetriesBelowMax /\ RecoveryLoaded /\ OneCurrent
    BY DEF Init, RetriesBelowMax, RecoveryLoaded, OneCurrent, NoMessage
  <1>3. SendsAccounted
    <2> SUFFICES ASSUME NEW m \in Messages PROVE Accounted(m)
      BY DEF SendsAccounted
    <2>1. Armed(m) = {}
      BY DEF Init, Armed
    <2>2. Cardinality(Armed(m)) = 0
      BY <2>1, FS_EmptySet
    <2>3. accepted[m] = 0 /\ Refills(m) = 0 /\ row[m].retries = 0 /\ Charge(row[m]) = 0
      BY DEF Init, Refills, NoMessage, Charge
    <2> QED
      BY <2>2, <2>3, RefillWorth DEF Accounted, Paid
  <1> QED
    BY <1>1, <1>2, <1>3 DEF IInv

\* A step of the rows alone, no worker's: one row changes.
LEMMA RowStep ==
    ASSUME IInv, NEW m \in Messages, NEW r \in Message,
           UNCHANGED <<emailEnabled, workerVars, accepted, overwritten>>,
           row' = [row EXCEPT ![m] = r],
           restricted' \subseteq Messages, faults' \in 0..MaxFaults,
           requeued' \in [Messages -> 0..MaxRequeues],
           \A i \in Messages \ {m} : requeued'[i] = requeued[i],
           r.retries <= MaxRetries,
           r.status \in InFlight \cup {"absent"} => r.retries < MaxRetries,
           \/ /\ requeued'[m] = requeued[m]
              /\ row[m].retries + Charge(row[m]) <= r.retries + Charge(r)
           \/ requeued'[m] = requeued[m] + 1
    PROVE  IInv'
  <1>1. /\ row' \in [Messages -> Message]
        /\ row'[m] = r
        /\ \A i \in Messages \ {m} : row'[i] = row[i]
    BY DEF IInv, TypeOK
  <1>2. TypeOK'
    BY <1>1 DEF IInv, TypeOK, workerVars
  <1>3. RetriesBelowMax'
    BY <1>1 DEF IInv, RetriesBelowMax
  <1>4. RecoveryLoaded' /\ OneCurrent'
    BY DEF IInv, RecoveryLoaded, OneCurrent, EmailBlocked, workerVars
  <1>5. \A i : Armed(i)' = Armed(i)
    BY DEF Armed, workerVars
  <1>6. ASSUME NEW i \in Messages \ {m} PROVE Accounted(i)'
    BY <1>1, <1>5, AccountUntouched
  <1>7. Accounted(m)'
    <2>1. CASE /\ requeued'[m] = requeued[m]
               /\ row[m].retries + Charge(row[m]) <= r.retries + Charge(r)
      BY <1>1, <1>5, <2>1, RowPays
    <2>2. CASE requeued'[m] = requeued[m] + 1
      <3>1. requeued'[m] + overwritten'[m] = requeued[m] + overwritten[m] + 1
        BY <2>2, AccountTypes
      <3> QED
        BY <1>1, <1>5, <3>1, RefillPays
    <2> QED
      BY <2>1, <2>2
  <1>8. SendsAccounted'
    BY <1>6, <1>7 DEF SendsAccounted
  <1> QED
    BY <1>2, <1>3, <1>4, <1>8 DEF IInv

\* The API handlers and the clock keep the invariant.
LEMMA RowActions ==
    ASSUME IInv, NEW m \in Messages,
           \/ queue_outbound_message(m)
           \/ requeue_dead_outbound_message(m)
           \/ record_email_delivery_receipt(m)
           \/ restrict_processing(m)
           \/ BackoffElapses(m)
           \/ LeaseExpires(m)
           \/ LeaseExpiresUnderWorker(m)
    PROVE  IInv'
  <1>1. /\ row[m] \in Message
        /\ row[m].retries \in Nat /\ row[m].retries <= MaxRetries
        /\ row[m].status \in InFlight \cup {"absent"} => row[m].retries < MaxRetries
        /\ row \in [Messages -> Message]
        /\ restricted \subseteq Messages
        /\ requeued \in [Messages -> 0..MaxRequeues]
        /\ faults \in 0..MaxFaults
    BY DEF IInv, TypeOK, RetriesBelowMax, Message
  <1>2. CASE queue_outbound_message(m)
    <2> DEFINE r == [row[m] EXCEPT !.status = "pending"]
    <2>1. /\ r \in Message /\ r.retries = row[m].retries
          /\ r.retries < MaxRetries /\ Charge(r) = 0 /\ Charge(row[m]) = 0
      BY <1>1, <1>2 DEF queue_outbound_message, Message, InFlight, Charge
    <2>2. row' = [row EXCEPT ![m] = r]
      BY <1>2 DEF queue_outbound_message
    <2> HIDE DEF r
    <2>3. /\ r.retries <= MaxRetries
          /\ row[m].retries + Charge(row[m]) <= r.retries + Charge(r)
      BY <1>1, <2>1
    <2>4. UNCHANGED <<emailEnabled, restricted, workerVars, accepted, requeued, overwritten, faults>>
      BY <1>2 DEF queue_outbound_message, history
    <2> QED
      BY <1>1, <2>1, <2>2, <2>3, <2>4, RowStep
  <1>3. CASE requeue_dead_outbound_message(m)
    <2> DEFINE u == Unlocked(row[m])
               r == [u EXCEPT !.status = "pending", !.retries = 0, !.due = TRUE]
    <2>1. u \in Message
      BY <1>1, MarkedRows
    <2>2. row' = [row EXCEPT ![m] = r]
      BY <1>3 DEF requeue_dead_outbound_message
    <2> HIDE DEF u
    <2>3. r \in Message /\ r.retries = 0
      BY <2>1 DEF Message, InFlight
    <2>4. /\ requeued' \in [Messages -> 0..MaxRequeues]
          /\ requeued'[m] = requeued[m] + 1
          /\ \A i \in Messages \ {m} : requeued'[i] = requeued[i]
      BY <1>1, <1>3 DEF requeue_dead_outbound_message
    <2> HIDE DEF r
    <2>5. r.retries <= MaxRetries /\ r.retries < MaxRetries
      BY <2>3
    <2>6. UNCHANGED <<emailEnabled, restricted, workerVars, accepted, overwritten, faults>>
      BY <1>3 DEF requeue_dead_outbound_message
    <2> QED
      BY <1>1, <2>2, <2>3, <2>4, <2>5, <2>6, RowStep
  <1>4. CASE record_email_delivery_receipt(m)
    <2> PICK s \in Settled : row' = [row EXCEPT ![m].status = s]
      BY <1>4 DEF record_email_delivery_receipt
    <2> DEFINE r == [row[m] EXCEPT !.status = s]
    <2>1. /\ r \in Message /\ r.retries = row[m].retries /\ r.status \in Settled
      BY <1>1 DEF Message
    <2>2. row' = [row EXCEPT ![m] = r]
      OBVIOUS
    <2> HIDE DEF r
    <2>3. Charge(row[m]) <= Charge(r)
      BY <1>1, <2>1 DEF Charge, Settled
    <2>4. row[m].retries + Charge(row[m]) <= r.retries + Charge(r)
      BY <1>1, <2>1, <2>3 DEF Charge
    <2> QED
      BY <1>1, <1>4, <2>1, <2>2, <2>4, RowStep
      DEF record_email_delivery_receipt, history, Settled, InFlight
  <1>5. CASE restrict_processing(m)
    <2> DEFINE r == IF row[m].status = "pending" THEN MarkDead(row[m]) ELSE row[m]
    <2>1. /\ r \in Message /\ r.retries = row[m].retries
          /\ r.status = "dead" \/ r = row[m]
          /\ Charge(row[m]) <= Charge(r)
      BY <1>1, MarkedRows DEF Charge
    <2>2. row' = [row EXCEPT ![m] = r]
      BY <1>5 DEF restrict_processing
    <2>3. restricted' \subseteq Messages
      BY <1>1, <1>5 DEF restrict_processing
    <2> HIDE DEF r
    <2>4. row[m].retries + Charge(row[m]) <= r.retries + Charge(r)
      BY <1>1, <2>1 DEF Charge
    <2> QED
      BY <1>1, <1>5, <2>1, <2>2, <2>3, <2>4, RowStep DEF restrict_processing, history, InFlight
  <1>6. CASE BackoffElapses(m)
    <2> DEFINE r == [row[m] EXCEPT !.due = TRUE]
    <2>1. /\ r \in Message /\ r.retries = row[m].retries /\ r.status = row[m].status
      BY <1>1 DEF Message
    <2>2. row' = [row EXCEPT ![m] = r]
      BY <1>6 DEF BackoffElapses
    <2> HIDE DEF r
    <2>3. row[m].retries + Charge(row[m]) <= r.retries + Charge(r)
      BY <1>1, <2>1 DEF Charge
    <2> QED
      BY <1>1, <1>6, <2>1, <2>2, <2>3, RowStep DEF BackoffElapses, history
  <1>7. CASE LeaseExpires(m) \/ LeaseExpiresUnderWorker(m)
    <2> DEFINE r == [row[m] EXCEPT !.live = FALSE]
    <2>1. /\ r \in Message /\ r.retries = row[m].retries /\ r.status = row[m].status
      BY <1>1 DEF Message
    <2>2. row' = [row EXCEPT ![m] = r]
      BY <1>7 DEF LeaseExpires, LeaseExpiresUnderWorker
    <2>3. faults' \in 0..MaxFaults
      BY <1>1, <1>7 DEF LeaseExpires, LeaseExpiresUnderWorker, history
    <2> HIDE DEF r
    <2>4. row[m].retries + Charge(row[m]) <= r.retries + Charge(r)
      BY <1>1, <2>1 DEF Charge
    <2> QED
      BY <1>1, <1>7, <2>1, <2>2, <2>3, <2>4, RowStep
      DEF LeaseExpires, LeaseExpiresUnderWorker, history
  <1> QED
    BY <1>2, <1>3, <1>4, <1>5, <1>6, <1>7

\* A worker moves on without writing a row.
LEMMA QuietStep ==
    ASSUME IInv, WorkersOK', \A m : Armed(m)' \subseteq Armed(m),
           UNCHANGED <<emailEnabled, rowVars, accepted, requeued, overwritten>>,
           faults' \in 0..MaxFaults
    PROVE  IInv'
  <1>1. TypeOK'
    BY DEF IInv, TypeOK, WorkersOK, WorkersTyped, rowVars
  <1>2. RetriesBelowMax'
    BY DEF IInv, RetriesBelowMax, rowVars
  <1>3. SendsAccounted'
    BY AccountUntouched DEF SendsAccounted, rowVars
  <1> QED
    BY <1>1, <1>2, <1>3 DEF IInv, WorkersOK

\* A worker writes one row.
LEMMA WriteStep ==
    ASSUME IInv, WorkersOK', \A i : Armed(i)' \subseteq Armed(i),
           NEW m \in Messages, NEW r \in Message,
           UNCHANGED <<emailEnabled, restricted, accepted, requeued, faults>>,
           row' = [row EXCEPT ![m] = r],
           overwritten' \in [Messages -> Nat],
           \A i \in Messages \ {m} : overwritten'[i] = overwritten[i],
           r.retries <= MaxRetries,
           r.status \in InFlight \cup {"absent"} => r.retries < MaxRetries,
           \/ EmailBlocked(m)
           \/ /\ overwritten'[m] = overwritten[m]
              /\ row[m].retries + Charge(row[m]) <= r.retries + Charge(r)
           \/ overwritten'[m] = overwritten[m] + 1
    PROVE  IInv'
  <1>1. /\ row' \in [Messages -> Message]
        /\ row'[m] = r
        /\ \A i \in Messages \ {m} : row'[i] = row[i]
    BY DEF IInv, TypeOK
  <1>2. TypeOK'
    BY <1>1 DEF IInv, TypeOK, WorkersOK, WorkersTyped
  <1>3. RetriesBelowMax'
    BY <1>1 DEF IInv, RetriesBelowMax
  <1>4. ASSUME NEW i \in Messages \ {m} PROVE Accounted(i)'
    BY <1>1, AccountUntouched
  <1>5. Accounted(m)'
    <2>1. CASE EmailBlocked(m)
      BY <2>1 DEF IInv, SendsAccounted, Accounted, EmailBlocked
    <2>2. CASE /\ overwritten'[m] = overwritten[m]
               /\ row[m].retries + Charge(row[m]) <= r.retries + Charge(r)
      BY <1>1, <2>2, RowPays
    <2>3. CASE overwritten'[m] = overwritten[m] + 1
      <3>1. requeued'[m] + overwritten'[m] = requeued[m] + overwritten[m] + 1
        BY <2>3, AccountTypes
      <3> QED
        BY <1>1, <3>1, RefillPays
    <2> QED
      BY <2>1, <2>2, <2>3
  <1>6. SendsAccounted'
    BY <1>4, <1>5 DEF SendsAccounted
  <1> QED
    BY <1>2, <1>3, <1>6 DEF IInv, WorkersOK

\* reclaim_stale_processing_messages: every reclaimed claim is paid for by
\* the retry_count its row gains.
LEMMA ReclaimStep ==
    ASSUME IInv, NEW w \in Workers, reclaim_stale_processing_messages(w)
    PROVE  IInv'
  <1> DEFINE stale == Oldest({m \in Messages : Reclaimable(m)}, BatchLimit)
  <1>1. /\ row' = [m \in Messages |-> IF m \in stale THEN MarkRetry(row[m], row[m].retries) ELSE row[m]]
        /\ \A m \in stale : m \in Messages /\ row[m].status = "processing"
    BY DEF reclaim_stale_processing_messages, Oldest, Reclaimable
  <1> HIDE DEF stale
  <1>2. WorkersOK' /\ \A m : Armed(m)' \subseteq Armed(m)
    <2>1. WorkersTyped'
      BY DEF IInv, TypeOK, WorkersTyped, reclaim_stale_processing_messages
    <2>2. RecoveryLoaded' /\ OneCurrent'
      BY DEF IInv, TypeOK, RecoveryLoaded, OneCurrent, EmailBlocked, reclaim_stale_processing_messages
    <2>3. \A m : Armed(m)' \subseteq Armed(m)
      BY DEF IInv, TypeOK, Armed, reclaim_stale_processing_messages
    <2> QED
      BY <2>1, <2>2, <2>3 DEF WorkersOK
  <1>3. UNCHANGED <<emailEnabled, restricted, accepted, requeued, overwritten, faults>>
    BY DEF reclaim_stale_processing_messages, history
  <1>4. ASSUME NEW m \in Messages
        PROVE  /\ row'[m] \in Message /\ row'[m].retries <= MaxRetries
               /\ row'[m].status \in InFlight \cup {"absent"} => row'[m].retries < MaxRetries
               /\ row[m].retries + Charge(row[m]) <= row'[m].retries + Charge(row'[m])
    <2>1. CASE m \in stale
      <3>1. /\ row[m] \in Message /\ row[m].retries \in Nat /\ row[m].retries < MaxRetries
            /\ Charge(row[m]) \in {0, 1}
        BY <1>1, <2>1, AccountTypes DEF IInv, RetriesBelowMax, InFlight
      <3>2. row'[m] = MarkRetry(row[m], row[m].retries)
        BY <1>1, <2>1
      <3> DEFINE r == row[m]
                 n == row[m].retries
                 new == MarkRetry(r, n)
      <3>a. r \in Message /\ n \in Nat /\ n < MaxRetries
        BY <3>1
      <3> HIDE DEF r, n
      <3>b. /\ new \in Message
            /\ new.retries = n + 1
            /\ \/ new.status = "dead" /\ n + 1 = MaxRetries
               \/ new.status = "pending" /\ n + 1 < MaxRetries
            /\ Charge(new) = 0
        BY <3>a, MarkRetryRow
      <3> HIDE DEF new
      <3>c. row'[m] = new /\ n = row[m].retries
        BY <3>2 DEF new, r, n
      <3>3. /\ row'[m] \in Message
            /\ row'[m].retries = row[m].retries + 1
            /\ \/ row'[m].status = "dead" /\ row[m].retries + 1 = MaxRetries
               \/ row'[m].status = "pending" /\ row[m].retries + 1 < MaxRetries
            /\ Charge(row'[m]) = 0
        BY <3>b, <3>c
      <3> QED
        BY <3>1, <3>3 DEF InFlight
    <2>2. CASE m \notin stale
      <3>1. row'[m] = row[m]
        BY <1>1, <2>2
      <3> QED
        BY <3>1, AccountTypes DEF IInv, RetriesBelowMax
    <2> QED
      BY <2>1, <2>2
  <1>5. row' \in [Messages -> Message]
    BY <1>1, <1>4
  <1>6. TypeOK'
    BY <1>2, <1>3, <1>5 DEF IInv, TypeOK, WorkersOK, WorkersTyped
  <1>7. RetriesBelowMax'
    BY <1>4 DEF RetriesBelowMax
  <1>8. SendsAccounted'
    BY <1>2, <1>3, <1>4, RowPays DEF SendsAccounted
  <1> QED
    BY <1>2, <1>6, <1>7, <1>8 DEF IInv, WorkersOK

\* Without refills, an account moves by what is accepted, armed and paid.
LEMMA AccountMoves ==
    ASSUME IInv, NEW m \in Messages,
           emailEnabled' = emailEnabled,
           requeued'[m] = requeued[m], overwritten'[m] = overwritten[m],
           row'[m] \in Message,
           accepted'[m] \in Nat, NEW c \in Nat, c = Cardinality(Armed(m)'),
           EmailBlocked(m) => accepted'[m] = accepted[m],
           accepted'[m] + c + row[m].retries + Charge(row[m])
             <= accepted[m] + Cardinality(Armed(m)) + row'[m].retries + Charge(row'[m])
    PROVE  Accounted(m)'
  <1>1. EmailBlocked(m)' = EmailBlocked(m)
    BY DEF EmailBlocked
  <1>2. Accounted(m)
    BY DEF IInv, SendsAccounted
  <1>3. CASE EmailBlocked(m)
    BY <1>1, <1>2, <1>3 DEF Accounted
  <1>4. CASE ~EmailBlocked(m)
    <2> DEFINE q == MaxRetries * Refills(m)
    <2>1. Refills(m)' = Refills(m)
      BY DEF Refills
    <2>2. row'[m].retries \in Nat /\ Charge(row'[m]) \in {0, 1}
      BY DEF Message, Charge
    <2>3. /\ row[m].retries \in Nat /\ Charge(row[m]) \in {0, 1} /\ accepted[m] \in Nat
          /\ q \in Nat
      BY AccountTypes
    <2>4. Paid(m)' = q + row'[m].retries + Charge(row'[m])
      BY <2>1 DEF Paid, Charge
    <2>5. Paid(m) = q + row[m].retries + Charge(row[m])
      BY DEF Paid
    <2>6. accepted[m] + Cardinality(Armed(m)) <= Paid(m)
      BY <1>2, <1>4 DEF Accounted
    <2>7. Cardinality(Armed(m)) \in Nat
      BY ArmedFinite
    <2> HIDE DEF q
    <2>8. accepted'[m] + c <= Paid(m)'
      BY <2>2, <2>3, <2>4, <2>5, <2>6, <2>7
    <2> QED
      BY <1>1, <1>4, <2>8 DEF Accounted
  <1> QED
    BY <1>3, <1>4

\* A claimed row is a row, in processing, with its retry_count unchanged.
LEMMA ClaimedRow ==
    ASSUME NEW r \in Message, NEW t \in Tokens, NEW c,
           c = [r EXCEPT !.status = "processing", !.token = t, !.live = TRUE]
    PROVE  c \in Message /\ c.retries = r.retries /\ c.status = "processing"
  BY DEF Message, InFlight

\* claim_pending_messages: the claim arms one worker and charges the row.
LEMMA ClaimStep ==
    ASSUME IInv, NEW w \in Workers, claim_pending_messages(w)
    PROVE  IInv'
  <1> DEFINE claimed == Oldest({m \in Messages : Claimable(m)}, BatchLimit)
  <1>1. \A m \in claimed : m \in Messages /\ row[m].status = "pending"
    BY DEF Oldest, Claimable
  <1>2. UNCHANGED <<emailEnabled, restricted, cur, loaded, view, accepted, requeued, overwritten, faults>>
    BY DEF claim_pending_messages, history
  <1>a. pc[w] = "reclaimed" /\ cur[w] = {}
    BY DEF claim_pending_messages, IInv, OneCurrent
  <1>b. \A u \in Workers : cur'[u] = cur[u] /\ view'[u] = view[u] /\ loaded'[u] = loaded[u]
    BY <1>2
  <1>3. CASE claimed = {}
    <2>1. pc' = [pc EXCEPT ![w] = "idle"] /\ UNCHANGED <<row, tok, batch>>
      BY <1>3 DEF claim_pending_messages
    <2>2. WorkersTyped'
      BY <1>2, <2>1 DEF IInv, TypeOK, WorkersTyped
    <2>3. RecoveryLoaded' /\ OneCurrent'
      BY <1>2, <1>a, <2>1 DEF IInv, TypeOK, RecoveryLoaded, OneCurrent, EmailBlocked
    <2>4. \A m : Armed(m)' \subseteq Armed(m)
      BY <1>2, <2>1 DEF IInv, TypeOK, Armed
    <2>5. faults' \in 0..MaxFaults
      BY <1>2 DEF IInv, TypeOK
    <2> QED
      BY <1>2, <2>1, <2>2, <2>3, <2>4, <2>5, QuietStep DEF WorkersOK, rowVars
  <1>4. CASE claimed # {}
    <2>0. PICK t \in Tokens :
          /\ row' = [m \in Messages |->
                       IF m \in claimed
                       THEN [row[m] EXCEPT !.status = "processing", !.token = t, !.live = TRUE]
                       ELSE row[m]]
          /\ tok' = [tok EXCEPT ![w] = t]
          /\ batch' = [batch EXCEPT ![w] = claimed]
          /\ pc' = [pc EXCEPT ![w] = "batch"]
      BY <1>4 DEF claim_pending_messages
    <2> HIDE DEF claimed
    <2>2. WorkersTyped'
      BY <1>1, <1>2, <2>0 DEF IInv, TypeOK, WorkersTyped
    <2>a. /\ pc'[w] = "batch" /\ batch'[w] = claimed
          /\ \A u \in Workers \ {w} : pc'[u] = pc[u] /\ batch'[u] = batch[u]
      BY <2>0 DEF IInv, TypeOK
    <2>3. RecoveryLoaded' /\ OneCurrent'
      <3>1. RecoveryLoaded'
        BY <1>b, <2>a DEF IInv, RecoveryLoaded
      <3>2. OneCurrent'
        BY <1>2, <1>a, <1>b, <2>a DEF IInv, OneCurrent, EmailBlocked
      <3> QED
        BY <3>1, <3>2
    <2>4. ASSUME NEW m \in Messages
          PROVE  /\ row'[m] \in Message
                 /\ row'[m].retries = row[m].retries
                 /\ m \notin claimed => row'[m] = row[m]
                 /\ m \in claimed => row'[m].status = "processing"
      <3>1. row[m] \in Message
        BY DEF IInv, TypeOK
      <3>2. CASE m \in claimed
        <4> DEFINE r == row[m]
                   c == [r EXCEPT !.status = "processing", !.token = t, !.live = TRUE]
        <4>1. row'[m] = c /\ r \in Message
          BY <2>0, <3>1, <3>2
        <4> HIDE DEF r
        <4>a. c \in Message /\ c.retries = r.retries /\ c.status = "processing"
          BY <4>1, ClaimedRow
        <4> HIDE DEF c
        <4>2. /\ row'[m] \in Message /\ row'[m].retries = row[m].retries
              /\ row'[m].status = "processing"
          BY <4>1, <4>a DEF r
        <4> QED
          BY <3>2, <4>2
      <3>3. CASE m \notin claimed
        BY <2>0, <3>1, <3>3
      <3> QED
        BY <3>2, <3>3
    <2>5. row' \in [Messages -> Message]
      BY <2>0, <2>4
    <2>6. TypeOK'
      BY <1>2, <2>2, <2>5 DEF IInv, TypeOK, WorkersTyped
    <2>7. RetriesBelowMax'
      BY <1>1, <2>4 DEF IInv, RetriesBelowMax, InFlight
    <2>8. ASSUME NEW m \in Messages, m \notin claimed PROVE Accounted(m)'
      <3>1. Armed(m)' \subseteq Armed(m)
        BY <1>b, <1>a, <2>a, <2>8 DEF Armed
      <3> QED
        BY <1>2, <2>4, <2>8, <3>1, AccountUntouched
    <2>9. ASSUME NEW m \in Messages, m \in claimed PROVE Accounted(m)'
      <3> DEFINE A == Armed(m)
                 B == Armed(m) \cup {w}
                 C == Armed(m)'
      <3>1. C \in SUBSET B
        BY <1>b, <2>a DEF Armed
      <3>2. IsFiniteSet(A) /\ Cardinality(A) \in Nat
        BY ArmedFinite
      <3>9. accepted[m] \in Nat /\ row[m].retries \in Nat
        BY AccountTypes
      <3>7. Charge(row[m]) = 0 /\ Charge(row'[m]) = 1
        <4>1. row[m].status = "pending" /\ row[m].retries < MaxRetries
          BY <1>1, <2>9 DEF IInv, RetriesBelowMax, InFlight
        <4>2. row'[m].status = "processing" /\ row'[m].retries = row[m].retries
          BY <2>4, <2>9
        <4> QED
          BY <3>9, <4>1, <4>2 DEF Charge
      <3> HIDE DEF A
      <3>3. /\ IsFiniteSet(B) /\ Cardinality(B) \in Nat
            /\ Cardinality(B) <= Cardinality(A) + 1
        <4>1. /\ IsFiniteSet(A \cup {w})
              /\ Cardinality(A \cup {w}) = IF w \in A THEN Cardinality(A) ELSE Cardinality(A) + 1
          BY <3>2, FS_AddElement
        <4>2. B = A \cup {w}
          BY DEF A
        <4> QED
          BY <3>2, <4>1, <4>2
      <3> HIDE DEF B, C
      <3>5. IsFiniteSet(C) /\ Cardinality(C) <= Cardinality(B)
        BY <3>1, <3>3, FS_Subset
      <3>6. Cardinality(C) \in Nat
        BY <3>5, FS_CardinalityType
      <3> DEFINE c == Cardinality(C)
      <3>8. accepted'[m] = accepted[m] /\ row'[m].retries = row[m].retries
        BY <1>2, <2>4
      <3>10. accepted'[m] + c + row[m].retries + Charge(row[m])
               <= accepted[m] + Cardinality(A) + row'[m].retries + Charge(row'[m])
        BY <3>2, <3>3, <3>5, <3>6, <3>7, <3>8, <3>9
      <3>11. c = Cardinality(Armed(m)') /\ Cardinality(A) = Cardinality(Armed(m))
        BY DEF A, C
      <3> HIDE DEF c
      <3>12. c \in Nat /\ accepted'[m] \in Nat
        BY <3>6, <3>8, <3>9 DEF c
      <3> QED
        BY <1>2, <2>4, <3>8, <3>10, <3>11, <3>12, AccountMoves
    <2>10. SendsAccounted'
      BY <2>8, <2>9 DEF SendsAccounted
    <2> QED
      BY <2>3, <2>6, <2>7, <2>10 DEF IInv
  <1> QED
    BY <1>3, <1>4

\* ProviderAccepts: the send disarms the worker that made it.
LEMMA AcceptStep ==
    ASSUME IInv, NEW w \in Workers, ProviderAccepts(w)
    PROVE  IInv'
  <1>1. PICK m \in cur[w] : accepted' = [accepted EXCEPT ![m] = @ + 1]
    BY DEF ProviderAccepts
  <1>2. PICK v \in {"sent", "retry"} : Flush(w, v)
    BY DEF ProviderAccepts
  <1>3. /\ pc[w] = "sending"
        /\ pc' = [pc EXCEPT ![w] = "flushed"]
        /\ view' = [view EXCEPT ![w] = v]
        /\ UNCHANGED <<tok, batch, cur, loaded, emailEnabled, row, restricted, requeued, overwritten, faults>>
    BY <1>2 DEF Flush, ProviderAccepts, rowVars
  <1>4. m \in Messages /\ ~EmailBlocked(m) /\ m \notin batch[w]
    BY <1>3 DEF IInv, TypeOK, OneCurrent
  <1>5. WorkersTyped'
    BY <1>3 DEF IInv, TypeOK, WorkersTyped, Views
  <1>6. RecoveryLoaded' /\ OneCurrent'
    BY <1>3 DEF IInv, TypeOK, RecoveryLoaded, OneCurrent, EmailBlocked
  <1>7. \A i : Armed(i)' \subseteq Armed(i)
    BY <1>3 DEF IInv, TypeOK, Armed
  <1>a. /\ accepted' \in [Messages -> Nat]
        /\ accepted[m] \in Nat /\ accepted'[m] = accepted[m] + 1
        /\ \A i \in Messages \ {m} : accepted'[i] = accepted[i]
    BY <1>1, <1>4 DEF IInv, TypeOK
  <1>8. TypeOK'
    BY <1>3, <1>5, <1>a DEF IInv, TypeOK, WorkersTyped
  <1>9. RetriesBelowMax'
    BY <1>3 DEF IInv, RetriesBelowMax
  <1>10. ASSUME NEW i \in Messages \ {m} PROVE Accounted(i)'
    BY <1>3, <1>7, <1>a, AccountUntouched
  <1>11. Accounted(m)'
    <2> DEFINE A == Armed(m)
               C == Armed(m)'
    <2>1. w \in A /\ C \in SUBSET (A \ {w})
      BY <1>3, <1>4 DEF IInv, TypeOK, Armed
    <2>2. IsFiniteSet(A) /\ Cardinality(A) \in Nat
      BY ArmedFinite
    <2> HIDE DEF A, C
    <2>3. IsFiniteSet(A \ {w}) /\ Cardinality(A \ {w}) = Cardinality(A) - 1
      BY <2>1, <2>2, FS_RemoveElement
    <2>4. IsFiniteSet(C) /\ Cardinality(C) <= Cardinality(A \ {w})
      BY <2>1, <2>3, FS_Subset
    <2>5. Cardinality(C) \in Nat
      BY <2>4, FS_CardinalityType
    <2> DEFINE c == Cardinality(C)
    <2>6. row[m].retries \in Nat /\ Charge(row[m]) \in {0, 1} /\ row[m] \in Message
      BY <1>4, AccountTypes
    <2>7. row' = row
      BY <1>3
    <2>8. accepted'[m] + c + row[m].retries + Charge(row[m])
            <= accepted[m] + Cardinality(A) + row[m].retries + Charge(row[m])
      BY <1>a, <2>2, <2>3, <2>4, <2>5, <2>6
    <2>9. c = Cardinality(Armed(m)') /\ Cardinality(A) = Cardinality(Armed(m))
      BY DEF A, C
    <2> HIDE DEF c
    <2>10. c \in Nat /\ accepted'[m] \in Nat
      BY <1>a, <2>5 DEF c
    <2>11. accepted'[m] + c + row[m].retries + Charge(row[m])
             <= accepted[m] + Cardinality(Armed(m)) + row'[m].retries + Charge(row'[m])
      BY <2>7, <2>8, <2>9
    <2>12. row'[m] \in Message
      BY <2>6, <2>7
    <2> QED
      BY <1>3, <1>4, <2>9, <2>10, <2>11, <2>12, AccountMoves
  <1>12. SendsAccounted'
    BY <1>10, <1>11 DEF SendsAccounted
  <1> QED
    BY <1>6, <1>8, <1>9, <1>12 DEF IInv

\* RefreshLease: a message moves from the batch to the worker's hands.
LEMMA RefreshStep ==
    ASSUME IInv, NEW w \in Workers, RefreshLease(w)
    PROVE  IInv'
  <1>1. PICK m \in batch[w] :
          IF Owns(w, m)
          THEN /\ row' = [row EXCEPT ![m].live = TRUE]
               /\ pc' = [pc EXCEPT ![w] = "leased"]
               /\ batch' = [batch EXCEPT ![w] = @ \ {m}]
               /\ cur' = [cur EXCEPT ![w] = {m}]
               /\ loaded' = [loaded EXCEPT ![w] = row[m].retries]
               /\ UNCHANGED <<tok, view>>
          ELSE Proceed(w, batch[w] \ {m}) /\ UNCHANGED row
    BY DEF RefreshLease
  <1>2. UNCHANGED <<emailEnabled, restricted, accepted, requeued, overwritten, faults>>
    BY DEF RefreshLease, history
  <1>3. /\ m \in Messages /\ row[m] \in Message /\ row[m].retries \in Nat
        /\ row[m].retries <= MaxRetries
        /\ row[m].status \in InFlight \cup {"absent"} => row[m].retries < MaxRetries
    BY DEF IInv, TypeOK, Message, RetriesBelowMax
  <1>4. CASE Owns(w, m)
    <2> DEFINE r == [row[m] EXCEPT !.live = TRUE]
    <2>1. r \in Message /\ r.retries = row[m].retries /\ r.status = row[m].status
      BY <1>3 DEF Message
    <2>2. row' = [row EXCEPT ![m] = r]
      BY <1>1, <1>4
    <2> HIDE DEF r
    <2>3. /\ pc' = [pc EXCEPT ![w] = "leased"]
          /\ batch' = [batch EXCEPT ![w] = @ \ {m}]
          /\ cur' = [cur EXCEPT ![w] = {m}]
          /\ loaded' = [loaded EXCEPT ![w] = row[m].retries]
          /\ UNCHANGED <<tok, view>>
      BY <1>1, <1>4
    <2>4. WorkersTyped'
      BY <1>3, <2>3 DEF IInv, TypeOK, WorkersTyped
    <2>5. /\ pc'[w] = "leased" /\ batch'[w] = batch[w] \ {m} /\ cur'[w] = {m}
          /\ \A u \in Workers \ {w} : /\ pc'[u] = pc[u] /\ batch'[u] = batch[u] /\ cur'[u] = cur[u]
                                      /\ loaded'[u] = loaded[u] /\ view'[u] = view[u]
      BY <2>3 DEF IInv, TypeOK
    <2>6. RecoveryLoaded'
      BY <2>5 DEF IInv, RecoveryLoaded
    <2>7. OneCurrent'
      BY <1>2, <2>5 DEF IInv, OneCurrent, EmailBlocked
    <2>8. \A i : Armed(i)' \subseteq Armed(i)
      BY <2>5 DEF Armed
    <2>9. row[m].retries + Charge(row[m]) <= r.retries + Charge(r)
      BY <1>3, <2>1 DEF Charge
    <2>10. overwritten' \in [Messages -> Nat]
      BY <1>2 DEF IInv, TypeOK
    <2> QED
      BY <1>2, <1>3, <2>1, <2>2, <2>4, <2>6, <2>7, <2>8, <2>9, <2>10, WriteStep DEF WorkersOK
  <1>5. CASE ~Owns(w, m)
    <2>1. Proceed(w, batch[w] \ {m}) /\ row' = row
      BY <1>1, <1>5
    <2>2. WorkersOK' /\ \A i : Armed(i)' \subseteq Armed(i)
      BY <1>2, <2>1, ProceedKeeps
    <2>3. faults' \in 0..MaxFaults
      BY <1>2 DEF IInv, TypeOK
    <2> QED
      BY <1>2, <2>1, <2>2, <2>3, QuietStep DEF rowVars
  <1> QED
    BY <1>4, <1>5

\* MarkRuntimeBlocked: the row of a blocked email dies, whoever owns it.
LEMMA BlockedStep ==
    ASSUME IInv, NEW w \in Workers, MarkRuntimeBlocked(w)
    PROVE  IInv'
  <1>1. PICK m \in cur[w] : EmailBlocked(m) /\ row' = [row EXCEPT ![m] = MarkDead(@)]
    BY DEF MarkRuntimeBlocked
  <1>2. /\ UNCHANGED <<emailEnabled, restricted, accepted, requeued, overwritten, faults>>
        /\ Proceed(w, batch[w])
    BY DEF MarkRuntimeBlocked, history
  <1>3. m \in Messages /\ row[m] \in Message /\ row[m].retries <= MaxRetries
    BY DEF IInv, TypeOK, RetriesBelowMax
  <1> DEFINE r == MarkDead(row[m])
  <1>4. r \in Message /\ r.status = "dead" /\ r.retries = row[m].retries
    BY <1>3, MarkedRows
  <1>5. row' = [row EXCEPT ![m] = r]
    BY <1>1
  <1> HIDE DEF r
  <1>6. WorkersOK' /\ \A i : Armed(i)' \subseteq Armed(i)
    BY <1>2, ProceedKeeps
  <1>7. /\ overwritten' \in [Messages -> Nat]
        /\ r.retries <= MaxRetries
        /\ r.status \in InFlight \cup {"absent"} => r.retries < MaxRetries
    BY <1>2, <1>3, <1>4 DEF IInv, TypeOK, InFlight
  <1> QED
    BY <1>1, <1>2, <1>3, <1>4, <1>5, <1>6, <1>7, WriteStep

\* StartSend, RefuseMessage and AttemptRaises write no row and arm nobody.
LEMMA SessionStep ==
    ASSUME IInv, NEW w \in Workers,
           StartSend(w) \/ RefuseMessage(w) \/ AttemptRaises(w)
    PROVE  IInv'
  <1>1. /\ UNCHANGED <<emailEnabled, row, restricted, tok, batch, cur, loaded, accepted, requeued, overwritten>>
        /\ faults' \in 0..MaxFaults
    BY DEF StartSend, RefuseMessage, Flush, AttemptRaises, rowVars, history, IInv, TypeOK
  <1>2. PICK m \in cur[w] : ~EmailBlocked(m)
    BY DEF StartSend, RefuseMessage, AttemptRaises
  <1>3. PICK p \in {"sending", "flushed", "raised"}, v \in Views :
          /\ pc' = [pc EXCEPT ![w] = p]
          /\ view' = [view EXCEPT ![w] = v]
          /\ pc[w] \in {"leased", "sending", "flushed"}
          /\ p = "sending" => pc[w] = "leased"
    <2>1. CASE StartSend(w)
      <3>1. view' = [view EXCEPT ![w] = view[w]] /\ view[w] \in Views
        BY <2>1 DEF StartSend, IInv, TypeOK
      <3> QED
        BY <2>1, <3>1 DEF StartSend
    <2>2. CASE RefuseMessage(w)
      BY <2>2 DEF RefuseMessage, Flush, Views
    <2>3. CASE AttemptRaises(w)
      BY <2>3 DEF AttemptRaises, Views
    <2> QED
      BY <2>1, <2>2, <2>3
  <1>4. WorkersTyped'
    BY <1>1, <1>3 DEF IInv, TypeOK, WorkersTyped
  <1>5. /\ pc'[w] = p
        /\ \A u \in Workers \ {w} : pc'[u] = pc[u] /\ view'[u] = view[u]
    BY <1>3 DEF IInv, TypeOK
  <1>6. RecoveryLoaded'
    BY <1>1, <1>5 DEF IInv, RecoveryLoaded
  <1>7. OneCurrent'
    BY <1>1, <1>2, <1>5 DEF IInv, OneCurrent, EmailBlocked
  <1>8. \A i : Armed(i)' \subseteq Armed(i)
    BY <1>1, <1>3, <1>5 DEF Armed
  <1> QED
    BY <1>1, <1>4, <1>6, <1>7, <1>8, QuietStep DEF WorkersOK, rowVars

\* CheckOwnership: a session that flushed an outcome no longer finds its row
\* in processing, so whatever is committed is the row that was there.
LEMMA OwnershipStep ==
    ASSUME IInv, NEW w \in Workers, CheckOwnership(w)
    PROVE  IInv'
  <1>1. PICK m \in cur[w] :
          row' = [row EXCEPT ![m] = IF OwnsInSession(w, m) THEN Flushed(w, m) ELSE @]
    BY DEF CheckOwnership
  <1>2. /\ UNCHANGED <<emailEnabled, restricted, accepted, requeued, overwritten, faults>>
        /\ Proceed(w, batch[w])
    BY DEF CheckOwnership, history
  <1>3. /\ m \in Messages /\ row[m] \in Message /\ row \in [Messages -> Message]
        /\ view[w] \in Views /\ loaded[w] \in Nat
    BY DEF IInv, TypeOK
  <1>4. OwnsInSession(w, m) => Flushed(w, m) = row[m]
    <2>1. MarkSent(row[m]).status = "sent" /\ MarkDead(row[m]).status = "dead"
      BY <1>3, MarkedRows
    <2>2. MarkRetry(row[m], loaded[w]).status \in {"dead", "pending"}
      <3>1. Unlocked(row[m]) \in Message
        BY <1>3, MarkedRows
      <3> DEFINE u == Unlocked(row[m])
                 e == loaded[w] + 1 >= MaxRetries
      <3>2. MarkRetry(row[m], loaded[w])
              = [u EXCEPT !.retries = loaded[w] + 1, !.status = IF e THEN "dead" ELSE "pending", !.due = e]
        BY DEF MarkRetry
      <3>3. u \in Message
        BY <3>1
      <3> HIDE DEF u, e
      <3> QED
        BY <3>2, <3>3 DEF Message
    <2> QED
      BY <1>3, <2>1, <2>2 DEF OwnsInSession, Flushed, Views
  <1>5. row' = row
    BY <1>1, <1>3, <1>4
  <1>6. WorkersOK' /\ \A i : Armed(i)' \subseteq Armed(i)
    BY <1>2, ProceedKeeps
  <1>7. faults' \in 0..MaxFaults
    BY <1>2 DEF IInv, TypeOK
  <1> QED
    BY <1>2, <1>5, <1>6, <1>7, QuietStep DEF rowVars

\* RecoverException: the retry_count it reads is that of a row in flight.
LEMMA RecoverStep ==
    ASSUME IInv, NEW w \in Workers, RecoverException(w)
    PROVE  IInv'
  <1>1. PICK m \in cur[w] :
         IF Owns(w, m)
         THEN /\ pc' = [pc EXCEPT ![w] = "recovering"]
              /\ loaded' = [loaded EXCEPT ![w] = row[m].retries]
              /\ view' = [view EXCEPT ![w] = "retry"]
              /\ UNCHANGED <<tok, batch, cur>>
         ELSE Proceed(w, batch[w])
    BY DEF RecoverException
  <1>2. UNCHANGED <<emailEnabled, row, restricted, accepted, requeued, overwritten, faults>>
    BY DEF RecoverException, rowVars, history
  <1>3. m \in Messages /\ row[m].retries \in Nat /\ faults' \in 0..MaxFaults
    BY <1>2 DEF IInv, TypeOK, Message
  <1>4. WorkersOK' /\ \A i : Armed(i)' \subseteq Armed(i)
    <2>1. CASE Owns(w, m)
      <3>1. /\ pc' = [pc EXCEPT ![w] = "recovering"]
            /\ loaded' = [loaded EXCEPT ![w] = row[m].retries]
            /\ view' = [view EXCEPT ![w] = "retry"]
            /\ UNCHANGED <<tok, batch, cur>>
        BY <1>1, <2>1
      <3>2. row[m].retries < MaxRetries
        BY <1>3, <2>1 DEF Owns, IInv, RetriesBelowMax, InFlight
      <3>3. WorkersTyped'
        BY <1>3, <3>1 DEF IInv, TypeOK, WorkersTyped, Views
      <3>4. /\ pc'[w] = "recovering" /\ loaded'[w] = row[m].retries /\ view'[w] = "retry"
            /\ \A u \in Workers \ {w} : pc'[u] = pc[u] /\ view'[u] = view[u] /\ loaded'[u] = loaded[u]
        BY <3>1 DEF IInv, TypeOK
      <3>5. RecoveryLoaded'
        BY <3>2, <3>4 DEF IInv, RecoveryLoaded
      <3>6. OneCurrent'
        BY <1>2, <3>1, <3>4 DEF IInv, OneCurrent, EmailBlocked
      <3>7. \A i : Armed(i)' \subseteq Armed(i)
        BY <3>1, <3>4 DEF Armed
      <3> QED
        BY <3>3, <3>5, <3>6, <3>7 DEF WorkersOK
    <2>2. CASE ~Owns(w, m)
      BY <1>1, <1>2, <2>2, ProceedKeeps
    <2> QED
      BY <2>1, <2>2
  <1> QED
    BY <1>2, <1>3, <1>4, QuietStep DEF rowVars

\* CommitRecovery: an up-to-date recovery pays by the retry_count it writes,
\* an outdated one is counted as an overwrite.
LEMMA CommitStep ==
    ASSUME IInv, NEW w \in Workers, CommitRecovery(w)
    PROVE  IInv'
  <1>1. PICK m \in cur[w] :
         /\ row' = [row EXCEPT ![m] = Flushed(w, m)]
         /\ overwritten' = [overwritten EXCEPT ![m] = @ + (IF Outdated(w, m) THEN 1 ELSE 0)]
    BY DEF CommitRecovery
  <1>2. /\ UNCHANGED <<emailEnabled, restricted, accepted, requeued, faults>>
        /\ Proceed(w, batch[w])
        /\ pc[w] = "recovering"
    BY DEF CommitRecovery
  <1>3. /\ m \in Messages /\ row[m] \in Message /\ row[m].retries \in Nat
        /\ loaded[w] \in Nat /\ loaded[w] < MaxRetries /\ view[w] = "retry"
        /\ overwritten \in [Messages -> Nat]
        /\ row[m].status = "processing" => row[m].retries < MaxRetries
    BY <1>2 DEF IInv, TypeOK, Message, RecoveryLoaded, RetriesBelowMax, InFlight
  <1> DEFINE r == MarkRetry(row[m], loaded[w])
  <1>4. /\ r \in Message /\ r.retries = loaded[w] + 1
        /\ \/ r.status = "dead" /\ loaded[w] + 1 = MaxRetries
           \/ r.status = "pending" /\ loaded[w] + 1 < MaxRetries
        /\ Charge(r) = 0
    BY <1>3, MarkRetryRow
  <1>5. row' = [row EXCEPT ![m] = r]
    BY <1>1, <1>3 DEF Flushed
  <1> HIDE DEF r
  <1>6. WorkersOK' /\ \A i : Armed(i)' \subseteq Armed(i)
    BY <1>2, ProceedKeeps
  <1>7. /\ overwritten' \in [Messages -> Nat]
        /\ \A i \in Messages \ {m} : overwritten'[i] = overwritten[i]
        /\ Outdated(w, m) => overwritten'[m] = overwritten[m] + 1
        /\ ~Outdated(w, m) => overwritten'[m] = overwritten[m]
    BY <1>1, <1>3
  <1>8. /\ r.retries <= MaxRetries
        /\ r.status \in InFlight \cup {"absent"} => r.retries < MaxRetries
    BY <1>3, <1>4 DEF InFlight
  <1>9. ~Outdated(w, m) => row[m].retries + Charge(row[m]) <= r.retries + Charge(r)
    BY <1>3, <1>4 DEF Outdated, Charge
  <1> QED
    BY <1>2, <1>3, <1>4, <1>5, <1>6, <1>7, <1>8, <1>9, WriteStep

\* A crash disarms its worker.
LEMMA CrashStep ==
    ASSUME IInv, NEW w \in Workers, Crash(w)
    PROVE  IInv'
  <1>1. /\ UNCHANGED <<emailEnabled, row, restricted, accepted, requeued, overwritten>>
        /\ Proceed(w, {}) /\ faults' \in 0..MaxFaults
    BY DEF Crash, rowVars, IInv, TypeOK
  <1>2. WorkersOK' /\ \A i : Armed(i)' \subseteq Armed(i)
    BY <1>1, ProceedKeeps
  <1> QED
    BY <1>1, <1>2, QuietStep DEF rowVars

\* Every step keeps the invariant.
LEMMA NextIInv == IInv /\ [Next]_vars => IInv'
  <1> SUFFICES ASSUME IInv, [Next]_vars PROVE IInv'
    OBVIOUS
  <1>1. CASE UNCHANGED vars
    <2>1. WorkersOK'
      BY <1>1 DEF vars, IInv, TypeOK, WorkersOK, WorkersTyped, RecoveryLoaded, OneCurrent, EmailBlocked
    <2>2. \A m : Armed(m)' = Armed(m)
      BY <1>1 DEF vars, Armed
    <2>3. /\ UNCHANGED <<emailEnabled, rowVars, accepted, requeued, overwritten>>
          /\ faults' \in 0..MaxFaults
      BY <1>1 DEF vars, rowVars, IInv, TypeOK
    <2> QED
      BY <2>1, <2>2, <2>3, QuietStep
  <1>2. CASE Next
    BY <1>2, RowActions, ReclaimStep, ClaimStep, RefreshStep, BlockedStep, SessionStep,
       AcceptStep, OwnershipStep, RecoverStep, CommitStep, CrashStep DEF Next, WorkerStep
  <1> QED
    BY <1>1, <1>2

\* The invariant holds throughout.
LEMMA InvariantHolds == Spec => []IInv
  BY InitIInv, NextIInv, PTL DEF Spec

\* Every variable of the dispatcher stays in its domain.
THEOREM OutboundTypeCorrect == Spec => []TypeOK
  <1>1. IInv => TypeOK
    BY DEF IInv
  <1> QED
    BY <1>1, InvariantHolds, PTL

\* However workers crash, stall, raise and race, the customer gets a message
\* at most MaxRetries times for each time its row was given a fresh
\* retry_count: by queue_outbound_message, by a requeue, or by a recovery that
\* overwrote a newer row.
THEOREM SendsAreBounded == Spec => []SendsBounded
  <1>1. IInv => SendsBounded
    <2> SUFFICES ASSUME IInv, NEW m \in Messages
                 PROVE  accepted[m] <= MaxRetries * (1 + requeued[m] + overwritten[m])
      BY DEF SendsBounded
    <2> DEFINE q == MaxRetries * Refills(m)
    <2>1. /\ q \in Nat /\ accepted[m] \in Nat /\ Refills(m) \in Nat
          /\ row[m].retries \in Nat /\ Charge(row[m]) \in {0, 1}
          /\ row[m].retries + Charge(row[m]) <= MaxRetries
      BY AccountTypes
    <2>2. Cardinality(Armed(m)) \in Nat
      BY ArmedFinite
    <2>3. 1 + requeued[m] + overwritten[m] = Refills(m) + 1
      BY AccountTypes DEF Refills
    <2>4. MaxRetries * (1 + requeued[m] + overwritten[m]) = q + MaxRetries
      BY <2>1, <2>3, RefillWorth
    <2>5. Accounted(m)
      BY DEF IInv, SendsAccounted
    <2>6. Paid(m) = q + row[m].retries + Charge(row[m])
      BY DEF Paid
    <2> HIDE DEF q
    <2>7. accepted[m] <= q + MaxRetries
      BY <2>1, <2>2, <2>5, <2>6 DEF Accounted
    <2> QED
      BY <2>4, <2>7
  <1> QED
    BY <1>1, InvariantHolds, PTL

-----------------------------------------------------------------------------
(* How many workers can work on one message.  A worker that goes on with a    *)
(* message it has lost, or may overwrite another's claim when it recovers,    *)
(* is charged to a fault or to a requeue.                                     *)

\* A worker between dispatch calls holds nothing, one in a call has a token.
CallsHoldTokens ==
    \A w \in Workers : IF pc[w] \in {"idle", "reclaimed"} THEN batch[w] = {} /\ cur[w] = {}
                                                        ELSE tok[w] # NoToken

\* Two dispatch calls never share a token.
TokensUnique ==
    \A v, w \in Workers : tok[v] = tok[w] /\ tok[v] # NoToken => v = w

\* Workers that dispatch m without owning it, or may release it although another
\* owns it.
Doubtful(m) ==
    {w \in Workers : /\ m \in cur[w]
                     /\ \/ pc[w] \in {"raised", "recovering"}
                        \/ pc[w] \in {"leased", "sending"} /\ ~Owns(w, m)}

\* The lease of m ran out under its owner.
Expired(m) == IF ~row[m].live /\ Holders(m) # {} THEN 1 ELSE 0

\* A row is settled under its owner by a receipt or by a blocked email.
Loose(m) == IF row[m].status \in Settled THEN 1 ELSE 0

Charged(m) == Cardinality(Doubtful(m)) + Expired(m) <= faults + requeued[m] + Loose(m)

XInv == CallsHoldTokens /\ TokensUnique /\ \A m \in Messages : Charged(m)

Budget(m) == faults + requeued[m] + Loose(m)

\* Everything a worker is judged by here stays as it is, but for w.
OthersStay(w) ==
    \A v \in Workers \ {w} :
        pc'[v] = pc[v] /\ tok'[v] = tok[v] /\ batch'[v] = batch[v] /\ cur'[v] = cur[v]

\* The doubtful workers are finitely many, and the account is one of numbers.
LEMMA DoubtTypes ==
  ASSUME IInv, NEW m \in Messages
  PROVE  /\ IsFiniteSet(Doubtful(m)) /\ Cardinality(Doubtful(m)) \in Nat
         /\ Expired(m) \in {0, 1} /\ Loose(m) \in {0, 1} /\ Budget(m) \in Nat
         /\ faults \in Nat /\ requeued[m] \in Nat
  <1>1. Doubtful(m) \subseteq Workers
    BY DEF Doubtful
  <1>2. IsFiniteSet(Doubtful(m)) /\ Cardinality(Doubtful(m)) \in Nat
    BY <1>1, WorkersAssumption, FS_Subset, FS_CardinalityType
  <1>3. faults \in Nat /\ requeued[m] \in Nat
    BY LimitsAssumption DEF IInv, TypeOK
  <1>4. Expired(m) \in {0, 1} /\ Loose(m) \in {0, 1}
    BY DEF Expired, Loose
  <1> QED
    BY <1>2, <1>3, <1>4 DEF Budget

\* The account still balances after k more doubtful workers when what is left
\* of the lease and of the budget covers them.
LEMMA Balanced ==
  ASSUME IInv, IInv', NEW m \in Messages, Charged(m), NEW k \in Int,
         Cardinality(Doubtful(m))' <= Cardinality(Doubtful(m)) + k,
         Expired(m)' + k + Budget(m) <= Expired(m) + Budget(m)'
  PROVE  Charged(m)'
  <1> DEFINE n == Cardinality(Doubtful(m))  e == Expired(m)  b == Budget(m)
  <1>1. n \in Nat /\ e \in {0, 1} /\ b \in Nat
    BY DoubtTypes
  <1>2. n' \in Nat /\ e' \in {0, 1} /\ b' \in Nat
    <2>1. Doubtful(m)' \subseteq Workers
      BY DEF Doubtful
    <2>2. Cardinality(Doubtful(m)') \in Nat
      BY <2>1, FS_Subset, FS_CardinalityType
    <2>3. faults' \in Nat /\ requeued'[m] \in Nat
      BY DEF IInv, TypeOK
    <2>4. Expired(m)' \in {0, 1} /\ Loose(m)' \in {0, 1}
      BY DEF Expired, Loose
    <2> QED
      BY <2>2, <2>3, <2>4 DEF Budget
  <1>3. n + e <= b
    BY DEF Charged, Budget
  <1>4. n' <= n + k /\ e' + k + b <= e + b'
    OBVIOUS
  <1>5. Charged(m)' <=> n' + e' <= b'
    BY <1>2 DEF Charged, Budget
  <1>6. \A n1, n2, b1, b2 \in Nat : \A e1, e2 \in {0, 1} :
            n1 + e1 <= b1 /\ n2 <= n1 + k /\ e2 + k + b1 <= e1 + b2 => n2 + e2 <= b2
    OBVIOUS
  <1>7. n' + e' <= b'
    BY <1>1, <1>2, <1>3, <1>4, <1>6
  <1> QED
    BY <1>5, <1>7

\* Nobody new is doubtful and nothing else is lost.
LEMMA ChargeKept ==
  ASSUME IInv, IInv', NEW m \in Messages, Charged(m),
         Doubtful(m)' \subseteq Doubtful(m), Expired(m)' <= Expired(m), Budget(m) <= Budget(m)'
  PROVE  Charged(m)'
  <1>1. Cardinality(Doubtful(m)') <= Cardinality(Doubtful(m))
    BY DoubtTypes, FS_Subset
  <1>2. /\ Cardinality(Doubtful(m)) \in Nat /\ Budget(m) \in Nat
        /\ Expired(m) \in {0, 1} /\ Expired(m)' \in {0, 1}
    BY DoubtTypes DEF Expired
  <1>3. Budget(m)' \in Nat
    BY DEF IInv, TypeOK, Budget, Loose
  <1>4. /\ Cardinality(Doubtful(m))' <= Cardinality(Doubtful(m)) + 0
        /\ Expired(m)' + 0 + Budget(m) <= Expired(m) + Budget(m)'
    BY <1>1, <1>2, <1>3
  <1> QED
    BY <1>4, Balanced

\* One more worker becomes doubtful, and an expired lease or the budget pays.
LEMMA ChargeJoined ==
  ASSUME IInv, IInv', NEW m \in Messages, Charged(m), NEW v,
         Doubtful(m)' \subseteq Doubtful(m) \cup {v},
         Expired(m)' + 1 + Budget(m) <= Expired(m) + Budget(m)'
  PROVE  Charged(m)'
  <1>1. /\ IsFiniteSet(Doubtful(m) \cup {v})
        /\ Cardinality(Doubtful(m) \cup {v}) <= Cardinality(Doubtful(m)) + 1
        /\ Cardinality(Doubtful(m) \cup {v}) \in Nat
    <2>1. IsFiniteSet(Doubtful(m)) /\ Cardinality(Doubtful(m)) \in Nat
      BY DoubtTypes
    <2>2. /\ IsFiniteSet(Doubtful(m) \cup {v})
          /\ \/ Cardinality(Doubtful(m) \cup {v}) = Cardinality(Doubtful(m))
             \/ Cardinality(Doubtful(m) \cup {v}) = Cardinality(Doubtful(m)) + 1
      BY <2>1, FS_AddElement
    <2> QED
      BY <2>1, <2>2
  <1>2. Cardinality(Doubtful(m)') \in Nat /\ Cardinality(Doubtful(m)') <= Cardinality(Doubtful(m) \cup {v})
    BY <1>1, FS_Subset, FS_CardinalityType
  <1>3. Cardinality(Doubtful(m))' <= Cardinality(Doubtful(m)) + 1
    BY <1>1, <1>2, DoubtTypes
  <1> QED
    BY <1>3, Balanced

\* A doubtful worker leaves; the budget may shrink by one for it.
LEMMA ChargeLeft ==
  ASSUME IInv, IInv', NEW m \in Messages, Charged(m), NEW u \in Doubtful(m),
         Doubtful(m)' \subseteq Doubtful(m) \ {u},
         Expired(m)' + Budget(m) <= Expired(m) + 1 + Budget(m)'
  PROVE  Charged(m)'
  <1>1. /\ IsFiniteSet(Doubtful(m) \ {u})
        /\ Cardinality(Doubtful(m) \ {u}) = Cardinality(Doubtful(m)) - 1
    BY DoubtTypes, FS_RemoveElement
  <1>2. /\ Cardinality(Doubtful(m) \ {u}) \in Nat /\ Cardinality(Doubtful(m)') \in Nat
        /\ Cardinality(Doubtful(m)') <= Cardinality(Doubtful(m) \ {u})
    BY <1>1, FS_Subset, FS_CardinalityType
  <1>3. Cardinality(Doubtful(m))' <= Cardinality(Doubtful(m)) + (-1)
    BY <1>1, <1>2, DoubtTypes
  <1>4. Budget(m)' \in Nat /\ Budget(m) \in Nat /\ Expired(m) \in {0, 1} /\ Expired(m)' \in {0, 1}
    BY DoubtTypes DEF IInv, TypeOK, Budget, Loose, Expired
  <1>5. Expired(m)' + (-1) + Budget(m) <= Expired(m) + Budget(m)'
    BY <1>4
  <1> QED
    BY <1>3, <1>5, Balanced

\* A doubtful worker leaves and takes the row from its owner, who is now
\* doubtful in its place.
LEMMA ChargeSwapped ==
  ASSUME IInv, IInv', NEW m \in Messages, Charged(m), NEW u \in Doubtful(m), NEW v,
         Doubtful(m)' \subseteq (Doubtful(m) \ {u}) \cup {v},
         Expired(m)' <= Expired(m), Budget(m) <= Budget(m)'
  PROVE  Charged(m)'
  <1>1. /\ IsFiniteSet(Doubtful(m) \ {u})
        /\ Cardinality(Doubtful(m) \ {u}) = Cardinality(Doubtful(m)) - 1
    BY DoubtTypes, FS_RemoveElement
  <1> DEFINE S == (Doubtful(m) \ {u}) \cup {v}
  <1>2. /\ IsFiniteSet(S) /\ Cardinality(S) \in Nat /\ Cardinality(Doubtful(m) \ {u}) \in Nat
        /\ Cardinality(S) <= Cardinality(Doubtful(m) \ {u}) + 1
    BY <1>1, FS_AddElement, FS_CardinalityType
  <1>3. Cardinality(Doubtful(m)') \in Nat /\ Cardinality(Doubtful(m)') <= Cardinality(S)
    BY <1>2, FS_Subset, FS_CardinalityType
  <1>4. Cardinality(Doubtful(m))' <= Cardinality(Doubtful(m)) + 0
    BY <1>1, <1>2, <1>3, DoubtTypes
  <1>5. Budget(m)' \in Nat /\ Budget(m) \in Nat /\ Expired(m) \in {0, 1} /\ Expired(m)' \in {0, 1}
    BY DoubtTypes DEF IInv, TypeOK, Budget, Loose, Expired
  <1>6. Expired(m)' + 0 + Budget(m) <= Expired(m) + Budget(m)'
    BY <1>5
  <1> QED
    BY <1>4, <1>6, Balanced

\* At most one worker holds the lease of a row.
LEMMA OneHolder ==
  ASSUME CallsHoldTokens, TokensUnique, NEW m \in Messages,
         NEW v \in Holders(m), NEW w \in Holders(m)
  PROVE  v = w
  BY DEF CallsHoldTokens, TokensUnique, Holders, Owns

\* Where only w moves and the row of m keeps its lease, m is charged as before
\* if w is no newcomer to it.
LEMMA SameLease ==
  ASSUME IInv, IInv', NEW m \in Messages, Charged(m), NEW w, OthersStay(w),
         row'[m].status = row[m].status, row'[m].token = row[m].token,
         row'[m].live \/ ~row[m].live,
         w \in Doubtful(m)' => w \in Doubtful(m),
         w \in Holders(m)' => row'[m].live \/ w \in Holders(m),
         faults <= faults', requeued[m] <= requeued'[m]
  PROVE  Charged(m)'
  <1>1. Doubtful(m)' \subseteq Doubtful(m)
    BY DEF OthersStay, Doubtful, Owns
  <1>2. ~row'[m].live => Holders(m)' \subseteq Holders(m)
    BY DEF OthersStay, Holders, Owns
  <1>3. Expired(m)' <= Expired(m)
    BY <1>2 DEF Expired
  <1>4. Budget(m) <= Budget(m)'
    <2>1. Loose(m)' = Loose(m)
      BY DEF Loose
    <2> QED
      BY <2>1 DEF Budget, IInv, TypeOK, Loose
  <1> QED
    BY <1>1, <1>3, <1>4, ChargeKept

\* A row that nobody processes is held by nobody, and nobody new is doubtful
\* about it but who held it.
LEMMA LostLease ==
  ASSUME NEW m \in Messages, NEW w, OthersStay(w), row'[m].status # "processing"
  PROVE  /\ Expired(m)' = 0
         /\ Doubtful(m)' \subseteq Doubtful(m) \cup Holders(m) \cup {w}
         /\ w \notin Doubtful(m)' => Doubtful(m)' \subseteq Doubtful(m) \cup Holders(m)
  BY DEF OthersStay, Doubtful, Holders, Owns, Expired

-----------------------------------------------------------------------------
(* The steps and the leases. *)

\* Initially nobody works on anything.
LEMMA InitXInv == Init => XInv
  <1> SUFFICES ASSUME Init PROVE XInv
    OBVIOUS
  <1>1. CallsHoldTokens /\ TokensUnique
    BY DEF Init, CallsHoldTokens, TokensUnique
  <1>2. ASSUME NEW m \in Messages PROVE Charged(m)
    <2>1. Doubtful(m) = {} /\ Holders(m) = {}
      BY DEF Init, Doubtful, Holders
    <2>2. Cardinality(Doubtful(m)) = 0
      BY <2>1, FS_EmptySet
    <2>3. Expired(m) = 0 /\ Loose(m) = 0
      BY <2>1 DEF Init, Expired, Loose, NoMessage, Settled
    <2> QED
      BY <2>2, <2>3 DEF Charged, Init
  <1> QED
    BY <1>1, <1>2 DEF XInv

\* The worker parts do not look at rows.
LEMMA SameCalls ==
  ASSUME XInv, UNCHANGED workerVars
  PROVE  CallsHoldTokens' /\ TokensUnique' /\ \A w : OthersStay(w)
  BY DEF XInv, workerVars, CallsHoldTokens, TokensUnique, OthersStay

\* A worker goes on without the message: others stay, it is not doubtful and
\* holds no more than before.
LEMMA ProceedLeaves ==
  ASSUME IInv, XInv, NEW w \in Workers, NEW rest \in SUBSET batch[w], Proceed(w, rest),
         rest = {} \/ pc[w] \notin {"idle", "reclaimed"}
  PROVE  /\ CallsHoldTokens' /\ TokensUnique' /\ OthersStay(w)
         /\ pc'[w] \in {"idle", "batch"} /\ cur'[w] = {} /\ batch'[w] = rest
         /\ \A m \in Messages : w \notin Doubtful(m)'
         /\ \A m \in Messages : row'[m].status = row[m].status /\ row'[m].token = row[m].token
               => (w \in Holders(m)' => w \in Holders(m))
  <1>1. /\ pc'[w] = (IF rest = {} THEN "idle" ELSE "batch")
        /\ tok'[w] = (IF rest = {} THEN NoToken ELSE tok[w])
        /\ batch'[w] = rest /\ cur'[w] = {}
        /\ OthersStay(w)
    BY DEF IInv, TypeOK, Proceed, OthersStay
  <1>2. CallsHoldTokens' /\ TokensUnique'
    BY <1>1 DEF XInv, CallsHoldTokens, TokensUnique, OthersStay
  <1>3. \A m \in Messages : w \notin Doubtful(m)'
    BY <1>1 DEF Doubtful
  <1>4. ASSUME NEW m \in Messages, row'[m].status = row[m].status, row'[m].token = row[m].token,
               w \in Holders(m)'
        PROVE  w \in Holders(m)
    <2>1. m \in rest /\ row'[m].status = "processing" /\ row'[m].token = tok'[w]
      BY <1>1, <1>4 DEF Holders, Owns
    <2> QED
      BY <1>1, <1>4, <2>1 DEF Holders, Owns
  <1> QED
    BY <1>1, <1>2, <1>3, <1>4

\* A step that writes no row but that of m leaves the others charged as before.
LEMMA OtherRows ==
  ASSUME IInv, IInv', XInv, NEW w, OthersStay(w), NEW m,
         \A i \in Messages \ {m} : row'[i] = row[i] /\ requeued'[i] = requeued[i],
         faults <= faults',
         \A i \in Messages \ {m} : w \in Doubtful(i)' => w \in Doubtful(i),
         \A i \in Messages \ {m} : w \in Holders(i)' => w \in Holders(i)
  PROVE  \A i \in Messages \ {m} : Charged(i)'
  <1> SUFFICES ASSUME NEW i \in Messages \ {m} PROVE Charged(i)'
    OBVIOUS
  <1>1. row'[i] = row[i] /\ requeued'[i] = requeued[i] /\ requeued[i] \in Nat /\ row[i].live \in BOOLEAN
    BY DEF IInv, TypeOK, Message
  <1>2. Charged(i)
    BY DEF XInv
  <1>3. row'[i].live \/ ~row[i].live
    BY <1>1
  <1>4. requeued[i] <= requeued'[i]
    BY <1>1
  <1> QED
    BY <1>1, <1>2, <1>3, <1>4, SameLease

\* A requeue gives a settled row back, and is counted.
LEMMA RequeueCharged ==
  ASSUME IInv, IInv', XInv, NEW m \in Messages, requeue_dead_outbound_message(m)
  PROVE  XInv'
  <1>1. UNCHANGED workerVars /\ faults' = faults /\ faults \in Nat
    BY DEF requeue_dead_outbound_message, IInv, TypeOK
  <1>2. CallsHoldTokens' /\ TokensUnique' /\ \A w : OthersStay(w)
    BY <1>1, SameCalls
  <1>3. \A w : \A i \in Messages \ {m} :
           row'[i] = row[i] /\ requeued'[i] = requeued[i]
           /\ (w \in Doubtful(i)' => w \in Doubtful(i)) /\ (w \in Holders(i)' => w \in Holders(i))
    BY <1>1 DEF requeue_dead_outbound_message, IInv, TypeOK, Doubtful, Holders, Owns, workerVars
  <1>4. \A i \in Messages \ {m} : Charged(i)'
    BY <1>1, <1>2, <1>3, OtherRows
  <1>5. Charged(m)'
    <2>1. /\ row[m].status = "dead" /\ row'[m].status = "pending"
          /\ requeued'[m] = requeued[m] + 1 /\ requeued[m] \in Nat
      BY DEF requeue_dead_outbound_message, IInv, TypeOK, Message, Unlocked
    <2>2. Expired(m)' = 0 /\ Doubtful(m)' \subseteq Doubtful(m)
      BY <1>1, <2>1 DEF Expired, Doubtful, Holders, Owns, workerVars
    <2>3. Budget(m)' = Budget(m) /\ Budget(m) \in Nat
      BY <1>1, <2>1 DEF Budget, Loose, Settled
    <2>4. Expired(m)' <= Expired(m) /\ Budget(m) <= Budget(m)'
      BY <2>2, <2>3 DEF Expired
    <2> QED
      BY <2>2, <2>4, ChargeKept DEF XInv
  <1> QED
    BY <1>2, <1>4, <1>5 DEF XInv

\* A receipt may settle a row under its worker, who works on without it.
LEMMA ReceiptCharged ==
  ASSUME IInv, IInv', XInv, NEW m \in Messages, record_email_delivery_receipt(m)
  PROVE  XInv'
  <1>1. UNCHANGED workerVars /\ faults' = faults /\ faults \in Nat /\ requeued' = requeued
    BY DEF record_email_delivery_receipt, history, IInv, TypeOK
  <1>2. CallsHoldTokens' /\ TokensUnique' /\ \A w : OthersStay(w)
    BY <1>1, SameCalls
  <1>3. \A w : \A i \in Messages \ {m} :
           row'[i] = row[i] /\ requeued'[i] = requeued[i]
           /\ (w \in Doubtful(i)' => w \in Doubtful(i)) /\ (w \in Holders(i)' => w \in Holders(i))
    BY <1>1 DEF record_email_delivery_receipt, IInv, TypeOK, Doubtful, Holders, Owns, workerVars
  <1>4. \A i \in Messages \ {m} : Charged(i)'
    BY <1>1, <1>2, <1>3, OtherRows
  <1>5. Charged(m)'
    <2>1. row'[m].status \in Settled /\ requeued[m] \in Nat
      BY DEF record_email_delivery_receipt, IInv, TypeOK, Message
    <2>2. Expired(m)' = 0 /\ Doubtful(m)' \subseteq Doubtful(m) \cup Holders(m)
      BY <1>1, <2>1 DEF Expired, Doubtful, Holders, Owns, workerVars, Settled
    <2>3. Loose(m)' = 1
      BY <2>1 DEF Loose
    <2>4. CASE Holders(m) = {}
      <3>1. Budget(m) <= Budget(m)' /\ Expired(m)' <= Expired(m)
        BY <1>1, <2>1, <2>2, <2>3 DEF Budget, Loose, Expired
      <3> QED
        BY <2>2, <2>4, <3>1, ChargeKept DEF XInv
    <2>5. CASE Holders(m) # {}
      <3>1. PICK v : v \in Holders(m)
        BY <2>5
      <3>2. Holders(m) = {v}
        BY <3>1, OneHolder DEF XInv
      <3>3. Loose(m) = 0
        BY <3>1 DEF Holders, Owns, Loose, Settled
      <3>4. Expired(m)' + 1 + Budget(m) <= Expired(m) + Budget(m)'
        BY <1>1, <2>1, <2>2, <2>3, <3>3 DEF Budget, Expired
      <3> QED
        BY <2>2, <3>2, <3>4, ChargeJoined DEF XInv
    <2> QED
      BY <2>4, <2>5
  <1> QED
    BY <1>2, <1>4, <1>5 DEF XInv

\* A row that is not leased, before or after, is charged as before unless it
\* leaves the settled rows.
LEMMA UnleasedRow ==
  ASSUME IInv, IInv', XInv, NEW m \in Messages, UNCHANGED <<workerVars, requeued>>,
         row[m].status # "processing", row'[m].status # "processing",
         row[m].status \in Settled => row'[m].status \in Settled, faults <= faults'
  PROVE  Charged(m)'
  <1>1. Expired(m)' = 0 /\ Doubtful(m)' \subseteq Doubtful(m)
    BY DEF Expired, Doubtful, Holders, Owns, workerVars
  <1>2. Expired(m)' <= Expired(m)
    BY <1>1 DEF Expired
  <1>3. Loose(m) <= Loose(m)' /\ Loose(m) \in {0, 1} /\ Loose(m)' \in {0, 1}
    BY DEF Loose
  <1>4. /\ faults \in Nat /\ faults' \in Nat
        /\ requeued[m] \in Nat /\ requeued'[m] = requeued[m]
    BY DEF IInv, TypeOK
  <1>5. Budget(m) <= Budget(m)'
    BY <1>3, <1>4 DEF Budget
  <1> QED
    BY <1>1, <1>2, <1>5, ChargeKept DEF XInv

\* A row action that changes no worker and nothing but the row of m.
LEMMA RowCharged ==
  ASSUME IInv, IInv', XInv, NEW m \in Messages, UNCHANGED <<workerVars, requeued>>, faults <= faults',
         \A i \in Messages \ {m} : row'[i] = row[i], Charged(m)'
  PROVE  XInv'
  <1>1. CallsHoldTokens' /\ TokensUnique' /\ \A w : OthersStay(w)
    BY SameCalls
  <1>2. \A w : \A i \in Messages \ {m} :
           row'[i] = row[i] /\ requeued'[i] = requeued[i]
           /\ (w \in Doubtful(i)' => w \in Doubtful(i)) /\ (w \in Holders(i)' => w \in Holders(i))
    BY DEF Doubtful, Holders, Owns, workerVars
  <1>3. \A i \in Messages \ {m} : Charged(i)'
    BY <1>1, <1>2, OtherRows
  <1> QED
    BY <1>1, <1>3 DEF XInv

\* Queueing, restricting and the clocks.
LEMMA ClockCharged ==
  ASSUME IInv, IInv', XInv, NEW m \in Messages,
         \/ queue_outbound_message(m) \/ restrict_processing(m) \/ BackoffElapses(m)
         \/ LeaseExpires(m) \/ LeaseExpiresUnderWorker(m)
  PROVE  XInv'
  <1>1. /\ UNCHANGED <<workerVars, requeued>> /\ faults <= faults'
        /\ \A i \in Messages \ {m} : row'[i] = row[i]
    BY DEF queue_outbound_message, restrict_processing, BackoffElapses, LeaseExpires,
           LeaseExpiresUnderWorker, history, IInv, TypeOK
  <1>2. row[m] \in Message /\ row' \in [Messages -> Message]
    BY DEF IInv, TypeOK
  <1>3. CASE \/ queue_outbound_message(m) \/ BackoffElapses(m)
             \/ restrict_processing(m) /\ row[m].status # "processing"
    <2>1. /\ row[m].status # "processing" /\ row'[m].status # "processing"
          /\ row[m].status \in Settled => row'[m].status \in Settled
      <3>1. row \in [Messages -> Message]
        BY DEF IInv, TypeOK
      <3>2. CASE queue_outbound_message(m)
        BY <3>1, <3>2 DEF queue_outbound_message, Message, Settled
      <3>3. CASE BackoffElapses(m)
        BY <3>1, <3>3 DEF BackoffElapses, Message, Settled
      <3>4. CASE restrict_processing(m) /\ row[m].status # "processing"
        <4>1. row'[m] = IF row[m].status = "pending" THEN MarkDead(row[m]) ELSE row[m]
          BY <3>1, <3>4 DEF restrict_processing
        <4>2. MarkDead(row[m]).status = "dead"
          BY <1>2 DEF MarkDead, Unlocked, Message
        <4> QED
          BY <3>4, <4>1, <4>2 DEF Settled
      <3> QED
        BY <1>3, <3>2, <3>3, <3>4
    <2>2. Charged(m)'
      BY <1>1, <2>1, UnleasedRow
    <2> QED
      BY <1>1, <2>2, RowCharged
  <1>4. CASE restrict_processing(m) /\ row[m].status = "processing"
    <2>1. row'[m] = row[m]
      BY <1>4 DEF restrict_processing, IInv, TypeOK
    <2>2. \A w : OthersStay(w)
      BY <1>1, SameCalls
    <2>3. \A w : /\ w \in Doubtful(m)' => w \in Doubtful(m)
                 /\ w \in Holders(m)' => w \in Holders(m)
      BY <1>1, <2>1 DEF Doubtful, Holders, Owns, workerVars
    <2>4. requeued[m] <= requeued'[m] /\ (row'[m].live \/ ~row[m].live)
      BY <1>1, <2>1 DEF IInv, TypeOK
    <2>5. Charged(m)'
      BY <1>1, <2>1, <2>2, <2>3, <2>4, SameLease DEF XInv
    <2> QED
      BY <1>1, <2>5, RowCharged
  <1>5. CASE LeaseExpires(m) \/ LeaseExpiresUnderWorker(m)
    <2>1. row'[m].status = row[m].status /\ row'[m].token = row[m].token
      BY <1>2, <1>5 DEF LeaseExpires, LeaseExpiresUnderWorker, IInv, TypeOK, Message
    <2>2. Doubtful(m)' = Doubtful(m) /\ Holders(m)' = Holders(m) /\ Loose(m)' = Loose(m)
      BY <1>1, <2>1 DEF Doubtful, Holders, Owns, workerVars, Loose
    <2>3. Expired(m)' <= Expired(m) + (faults' - faults)
      BY <1>5, <2>2 DEF LeaseExpires, LeaseExpiresUnderWorker, Expired, history, IInv, TypeOK
    <2>4. /\ faults \in Nat /\ faults' \in Nat /\ requeued[m] \in Nat /\ requeued'[m] = requeued[m]
          /\ Loose(m) \in {0, 1} /\ Expired(m) \in {0, 1} /\ Expired(m)' \in {0, 1}
      BY <1>1 DEF IInv, TypeOK, Loose, Expired
    <2>5. Budget(m)' = Budget(m) + (faults' - faults) /\ Budget(m) \in Nat
      BY <2>2, <2>4 DEF Budget
    <2>6. /\ Expired(m)' + 0 + Budget(m) <= Expired(m) + Budget(m)'
          /\ Cardinality(Doubtful(m))' <= Cardinality(Doubtful(m)) + 0
      BY <2>2, <2>3, <2>4, <2>5, DoubtTypes
    <2>7. Charged(m)'
      BY <2>6, Balanced DEF XInv
    <2> QED
      BY <1>1, <2>7, RowCharged
  <1> QED
    BY <1>3, <1>4, <1>5

\* A worker step that writes no row: w becomes neither doubtful nor a holder.
LEMMA QuietCharged ==
  ASSUME IInv, IInv', XInv, NEW w \in Workers, OthersStay(w), CallsHoldTokens', TokensUnique',
         row' = row, requeued' = requeued, faults <= faults',
         \A m \in Messages : w \in Doubtful(m)' => w \in Doubtful(m),
         \A m \in Messages : w \in Holders(m)' => w \in Holders(m)
  PROVE  XInv'
  <1> DEFINE nobody == CHOOSE m : m \notin Messages
  <1>1. nobody \notin Messages
    <2>1. Messages \subseteq Nat
      OBVIOUS
    <2>2. -1 \notin Messages
      BY <2>1
    <2> QED
      BY <2>2
  <1> HIDE DEF nobody
  <1>2. \A i \in Messages \ {nobody} : Charged(i)'
    BY OtherRows
  <1> QED
    BY <1>1, <1>2 DEF XInv

\* Within one dispatch, up to the flush, and a crash of it.
LEMMA SessionCharged ==
  ASSUME IInv, IInv', XInv, NEW w \in Workers,
         StartSend(w) \/ RefuseMessage(w) \/ ProviderAccepts(w) \/ Crash(w)
  PROVE  XInv'
  <1>1. row' = row /\ requeued' = requeued /\ faults <= faults'
    BY DEF StartSend, RefuseMessage, ProviderAccepts, Crash, rowVars, history, IInv, TypeOK
  <1>2. CASE Crash(w)
    <2>1. OthersStay(w) /\ CallsHoldTokens' /\ TokensUnique'
          /\ \A m \in Messages : /\ w \notin Doubtful(m)'
                                 /\ w \in Holders(m)' => w \in Holders(m)
      BY <1>1, <1>2, ProceedLeaves DEF Crash
    <2> QED
      BY <1>1, <2>1, QuietCharged
  <1>3. CASE StartSend(w) \/ RefuseMessage(w) \/ ProviderAccepts(w)
    <2>1. /\ UNCHANGED <<tok, batch, cur>> /\ OthersStay(w)
          /\ pc[w] \in {"leased", "sending"} /\ pc'[w] \in {"sending", "flushed"}
      BY <1>3 DEF StartSend, RefuseMessage, ProviderAccepts, Flush, OthersStay, IInv, TypeOK
    <2>2. CallsHoldTokens' /\ TokensUnique'
      BY <2>1 DEF XInv, CallsHoldTokens, TokensUnique, OthersStay
    <2>3. \A m \in Messages : /\ w \in Doubtful(m)' => w \in Doubtful(m)
                              /\ w \in Holders(m)' => w \in Holders(m)
      BY <1>1, <2>1 DEF Doubtful, Holders, Owns
    <2> QED
      BY <1>1, <2>1, <2>2, <2>3, QuietCharged
  <1> QED
    BY <1>2, <1>3

\* The outcome flushed by the session is no lease any more, so the ownership
\* check finds none and the row stays as it is.
LEMMA CheckCharged ==
  ASSUME IInv, IInv', XInv, NEW w \in Workers, CheckOwnership(w)
  PROVE  XInv'
  <1>1. row' = row
    <2>1. PICK m \in cur[w] : row' = [row EXCEPT ![m] = IF OwnsInSession(w, m) THEN Flushed(w, m) ELSE @]
      BY DEF CheckOwnership
    <2>2. row[m] \in Message /\ view[w] \in Views
      BY DEF IInv, TypeOK
    <2>3. OwnsInSession(w, m) => Flushed(w, m) = row[m]
      <3>1. MarkSent(row[m]).status = "sent" /\ MarkDead(row[m]).status = "dead"
        BY <2>2 DEF MarkSent, MarkDead, Unlocked, Message
      <3>2. MarkRetry(row[m], loaded[w]).status \in {"dead", "pending"}
        BY <2>2 DEF MarkRetry, Unlocked, Message
      <3> QED
        BY <2>2, <3>1, <3>2 DEF OwnsInSession, Flushed, Views
    <2> QED
      BY <2>1, <2>3 DEF IInv, TypeOK
  <1>2. /\ requeued' = requeued /\ faults <= faults' /\ Proceed(w, batch[w]) /\ pc[w] = "flushed"
    BY DEF CheckOwnership, history, IInv, TypeOK
  <1>3. OthersStay(w) /\ CallsHoldTokens' /\ TokensUnique'
        /\ \A m \in Messages : /\ w \notin Doubtful(m)'
                               /\ w \in Holders(m)' => w \in Holders(m)
    BY <1>1, <1>2, ProceedLeaves
  <1> QED
    BY <1>1, <1>2, <1>3, QuietCharged

\* A recovery that reads its lease stays doubtful; one that lost it leaves.
LEMMA RecoverCharged ==
  ASSUME IInv, IInv', XInv, NEW w \in Workers, RecoverException(w)
  PROVE  XInv'
  <1>1. row' = row /\ requeued' = requeued /\ faults <= faults' /\ pc[w] = "raised"
    BY DEF RecoverException, rowVars, history, IInv, TypeOK
  <1>2. CASE Proceed(w, batch[w])
    <2>1. OthersStay(w) /\ CallsHoldTokens' /\ TokensUnique'
          /\ \A m \in Messages : /\ w \notin Doubtful(m)'
                                 /\ w \in Holders(m)' => w \in Holders(m)
      BY <1>1, <1>2, ProceedLeaves
    <2> QED
      BY <1>1, <2>1, QuietCharged
  <1>3. CASE pc' = [pc EXCEPT ![w] = "recovering"] /\ UNCHANGED <<tok, batch, cur>>
    <2>1. OthersStay(w) /\ pc'[w] = "recovering"
      BY <1>3 DEF OthersStay, IInv, TypeOK
    <2>2. CallsHoldTokens' /\ TokensUnique'
      BY <1>1, <1>3, <2>1 DEF XInv, CallsHoldTokens, TokensUnique, OthersStay
    <2>3. \A m \in Messages : /\ w \in Doubtful(m)' => w \in Doubtful(m)
                              /\ w \in Holders(m)' => w \in Holders(m)
      BY <1>1, <1>3, <2>1 DEF Doubtful, Holders, Owns
    <2> QED
      BY <1>1, <2>1, <2>2, <2>3, QuietCharged
  <1> QED
    BY <1>2, <1>3 DEF RecoverException

\* What a retry leaves is no lease.
LEMMA RetryUnleases ==
  ASSUME NEW r \in Message, NEW n \in Nat
  PROVE  MarkRetry(r, n).status \in {"dead", "pending"}
  BY DEF MarkRetry, Unlocked, Message

\* The owner of m, if any, loses a lease that had expired under it.
LEMMA ReclaimedCharged ==
  ASSUME IInv, IInv', XInv, NEW m \in Messages, NEW w, OthersStay(w), w \notin Doubtful(m)',
         row[m].status = "processing", ~row[m].live, row'[m].status # "processing",
         requeued' = requeued, faults' = faults
  PROVE  Charged(m)'
  <1>1. Expired(m)' = 0 /\ Doubtful(m)' \subseteq Doubtful(m) \cup Holders(m)
    BY LostLease
  <1>2. Loose(m) = 0 /\ Loose(m)' \in {0, 1} /\ faults \in Nat /\ requeued[m] \in Nat
    BY DEF Loose, Settled, IInv, TypeOK
  <1>3. Budget(m) <= Budget(m)' /\ Budget(m) \in Nat /\ Budget(m)' \in Nat
    BY <1>2 DEF Budget
  <1>4. CASE Holders(m) = {}
    <2>1. Expired(m)' <= Expired(m)
      BY <1>1 DEF Expired
    <2> QED
      BY <1>1, <1>3, <1>4, <2>1, ChargeKept DEF XInv
  <1>5. CASE Holders(m) # {}
    <2>1. PICK v : v \in Holders(m)
      BY <1>5
    <2>2. Holders(m) = {v}
      BY <2>1, OneHolder DEF XInv
    <2>3. Expired(m) = 1
      BY <1>5 DEF Expired
    <2>4. Expired(m)' + 1 + Budget(m) <= Expired(m) + Budget(m)'
      BY <1>1, <1>3, <2>3
    <2> QED
      BY <1>1, <2>2, <2>4, ChargeJoined DEF XInv
  <1> QED
    BY <1>4, <1>5

\* reclaim_stale_processing_messages takes rows whose lease has run out only.
LEMMA ReclaimCharged ==
  ASSUME IInv, IInv', XInv, NEW w \in Workers, reclaim_stale_processing_messages(w)
  PROVE  XInv'
  <1> DEFINE stale == Oldest({m \in Messages : Reclaimable(m)}, BatchLimit)
  <1>1. /\ pc[w] = "idle" /\ pc' = [pc EXCEPT ![w] = "reclaimed"]
        /\ UNCHANGED <<tok, batch, cur, requeued, faults>>
        /\ row' = [m \in Messages |-> IF m \in stale THEN MarkRetry(row[m], row[m].retries) ELSE row[m]]
    BY DEF reclaim_stale_processing_messages, history
  <1>2. \A m \in stale : m \in Messages /\ row[m].status = "processing" /\ ~row[m].live
    BY DEF Oldest, Reclaimable
  <1> HIDE DEF stale
  <1>3. OthersStay(w) /\ pc'[w] = "reclaimed" /\ cur'[w] = {} /\ batch'[w] = {}
    BY <1>1 DEF OthersStay, IInv, TypeOK, XInv, CallsHoldTokens
  <1>4. CallsHoldTokens' /\ TokensUnique'
    BY <1>1, <1>3 DEF XInv, CallsHoldTokens, TokensUnique, OthersStay
  <1>5. ASSUME NEW m \in Messages PROVE Charged(m)'
    <2>1. w \notin Doubtful(m)' /\ w \notin Holders(m)'
      BY <1>3 DEF Doubtful, Holders
    <2>2. CASE m \in stale
      <3>1. row'[m].status \in {"dead", "pending"}
        <4>1. row[m] \in Message /\ row[m].retries \in Nat
          BY DEF IInv, TypeOK, Message
        <4> QED
          BY <1>1, <2>2, <4>1, RetryUnleases
      <3> QED
        BY <1>1, <1>2, <1>3, <2>1, <2>2, <3>1, ReclaimedCharged
    <2>3. CASE m \notin stale
      <3>1. row'[m] = row[m] /\ requeued[m] <= requeued'[m] /\ faults <= faults'
        BY <1>1, <2>3 DEF IInv, TypeOK
      <3>2. row'[m].live \/ ~row[m].live
        BY <3>1
      <3> QED
        BY <1>3, <2>1, <3>1, <3>2, SameLease DEF XInv
    <2> QED
      BY <2>2, <2>3
  <1> QED
    BY <1>4, <1>5 DEF XInv

\* claim_pending_messages leases rows nobody holds, under a token nobody has.
LEMMA ClaimCharged ==
  ASSUME IInv, IInv', XInv, NEW w \in Workers, claim_pending_messages(w)
  PROVE  XInv'
  <1> DEFINE claimed == Oldest({m \in Messages : Claimable(m)}, BatchLimit)
  <1>1. UNCHANGED <<cur, requeued, faults>> /\ pc[w] = "reclaimed"
    BY DEF claim_pending_messages, history
  <1>2. \A m \in claimed : m \in Messages /\ row[m].status = "pending"
    BY DEF Oldest, Claimable
  <1>3. cur[w] = {} /\ cur'[w] = {} /\ batch[w] = {}
    BY <1>1 DEF XInv, CallsHoldTokens
  <1>4. CASE claimed = {}
    <2>1. pc' = [pc EXCEPT ![w] = "idle"] /\ UNCHANGED <<row, tok, batch>>
      BY <1>4 DEF claim_pending_messages
    <2>2. OthersStay(w) /\ pc'[w] = "idle"
      BY <1>1, <2>1 DEF OthersStay, IInv, TypeOK
    <2>3. CallsHoldTokens' /\ TokensUnique'
      BY <1>1, <1>3, <2>1, <2>2 DEF XInv, CallsHoldTokens, TokensUnique, OthersStay
    <2>4. \A m \in Messages : w \notin Doubtful(m)' /\ w \notin Holders(m)'
      BY <1>3, <2>1 DEF Doubtful, Holders
    <2>5. faults <= faults'
      BY <1>1 DEF IInv, TypeOK
    <2> QED
      BY <1>1, <2>1, <2>2, <2>3, <2>4, <2>5, QuietCharged
  <1>5. CASE claimed # {}
    <2>1. PICK t \in Tokens :
            /\ FreshToken(t)
            /\ row' = [m \in Messages |->
                         IF m \in claimed
                         THEN [row[m] EXCEPT !.status = "processing", !.token = t, !.live = TRUE]
                         ELSE row[m]]
            /\ tok' = [tok EXCEPT ![w] = t]
            /\ batch' = [batch EXCEPT ![w] = claimed]
            /\ pc' = [pc EXCEPT ![w] = "batch"]
      BY <1>5 DEF claim_pending_messages
    <2> HIDE DEF claimed
    <2>2. t # NoToken /\ (\A v \in Workers : tok[v] # t) /\ (\A m \in Messages : row[m].token # t)
      BY <2>1 DEF FreshToken, TokenInUse, NoToken
    <2>3. OthersStay(w) /\ pc'[w] = "batch" /\ tok'[w] = t /\ batch'[w] = claimed
      BY <1>1, <2>1 DEF OthersStay, IInv, TypeOK
    <2>4. CallsHoldTokens' /\ TokensUnique'
      BY <1>1, <1>3, <2>2, <2>3 DEF XInv, CallsHoldTokens, TokensUnique, OthersStay
    <2>5. ASSUME NEW m \in Messages PROVE Charged(m)'
      <3>1. w \notin Doubtful(m)'
        BY <1>3 DEF Doubtful
      <3>2. requeued[m] <= requeued'[m] /\ faults <= faults' /\ row[m] \in Message
        BY <1>1 DEF IInv, TypeOK
      <3>3. CASE m \notin claimed
        <4>1. row'[m] = row[m]
          BY <2>1, <3>3
        <4>2. w \notin Holders(m)'
          BY <1>3, <2>3, <3>3 DEF Holders
        <4>3. row'[m].live \/ ~row[m].live
          BY <4>1
        <4> QED
          BY <2>3, <3>1, <3>2, <4>1, <4>2, <4>3, SameLease DEF XInv
      <3>4. CASE m \in claimed
        <4>1. row'[m].live = TRUE /\ row'[m].status = "processing" /\ row'[m].token = t
          BY <2>1, <3>2, <3>4 DEF Message
        <4>2. Doubtful(m)' \subseteq Doubtful(m)
          BY <1>2, <2>3, <3>1, <3>4 DEF OthersStay, Doubtful, Owns
        <4>3. Expired(m)' = 0
          BY <4>1 DEF Expired
        <4>4. Expired(m)' <= Expired(m)
          BY <4>3 DEF Expired
        <4>5. Loose(m) = 0 /\ Loose(m)' = 0
          BY <1>2, <3>4, <4>1 DEF Loose, Settled
        <4>6. Budget(m) <= Budget(m)'
          BY <1>1, <4>5 DEF Budget, IInv, TypeOK
        <4> QED
          BY <4>2, <4>4, <4>6, ChargeKept DEF XInv
      <3> QED
        BY <3>3, <3>4
    <2> QED
      BY <2>4, <2>5 DEF XInv
  <1> QED
    BY <1>4, <1>5

\* The conditional UPDATE of _refresh_message_lease matches only the owner.
LEMMA RefreshCharged ==
  ASSUME IInv, IInv', XInv, NEW w \in Workers, RefreshLease(w)
  PROVE  XInv'
  <1>1. PICK m \in batch[w] :
         IF Owns(w, m)
         THEN /\ row' = [row EXCEPT ![m].live = TRUE]
              /\ pc' = [pc EXCEPT ![w] = "leased"]
              /\ batch' = [batch EXCEPT ![w] = @ \ {m}]
              /\ cur' = [cur EXCEPT ![w] = {m}]
              /\ UNCHANGED <<tok, view>>
         ELSE Proceed(w, batch[w] \ {m}) /\ UNCHANGED row
    BY DEF RefreshLease
  <1>2. requeued' = requeued /\ faults' = faults /\ faults <= faults' /\ pc[w] = "batch" /\ cur[w] = {}
    BY DEF RefreshLease, history, IInv, TypeOK, OneCurrent
  <1>3. CASE ~Owns(w, m)
    <2>1. Proceed(w, batch[w] \ {m}) /\ row' = row
      BY <1>1, <1>3
    <2>2. OthersStay(w) /\ CallsHoldTokens' /\ TokensUnique'
          /\ \A i \in Messages : /\ w \notin Doubtful(i)'
                                 /\ w \in Holders(i)' => w \in Holders(i)
      BY <1>2, <2>1, ProceedLeaves
    <2> QED
      BY <1>2, <2>1, <2>2, QuietCharged
  <1>4. CASE Owns(w, m)
    <2>1. /\ row' = [row EXCEPT ![m].live = TRUE] /\ tok' = tok
          /\ pc'[w] = "leased" /\ batch'[w] = batch[w] \ {m} /\ cur'[w] = {m}
          /\ OthersStay(w)
      BY <1>1, <1>4 DEF OthersStay, IInv, TypeOK
    <2>2. CallsHoldTokens' /\ TokensUnique'
      BY <1>2, <2>1 DEF XInv, CallsHoldTokens, TokensUnique, OthersStay
    <2>3. ASSUME NEW i \in Messages PROVE Charged(i)'
      <3>1. /\ row'[i].status = row[i].status /\ row'[i].token = row[i].token
            /\ row'[i].live \/ ~row[i].live
            /\ i = m => row'[i].live = TRUE
        BY <2>1 DEF IInv, TypeOK, Message
      <3>2. w \notin Doubtful(i)'
        BY <1>4, <2>1, <3>1 DEF Doubtful, Owns
      <3>3. w \in Holders(i)' => row'[i].live \/ w \in Holders(i)
        BY <2>1, <3>1 DEF Holders, Owns
      <3>4. requeued[i] <= requeued'[i]
        BY <1>2 DEF IInv, TypeOK
      <3> QED
        BY <1>2, <2>1, <3>1, <3>2, <3>3, <3>4, SameLease DEF XInv
    <2> QED
      BY <2>2, <2>3 DEF XInv
  <1> QED
    BY <1>3, <1>4

\* A doubtful worker that unleases the row hands its place to the owner.
LEMMA UnleasedBy ==
  ASSUME IInv, IInv', XInv, NEW m \in Messages, NEW w \in Doubtful(m), OthersStay(w),
         w \notin Doubtful(m)', row'[m].status \in {"dead", "pending"},
         requeued' = requeued, faults' = faults
  PROVE  Charged(m)'
  <1>1. Expired(m)' = 0 /\ Doubtful(m)' \subseteq (Doubtful(m) \cup Holders(m)) \ {w}
    BY LostLease
  <1>2. /\ faults \in Nat /\ requeued[m] \in Nat
        /\ Loose(m) \in {0, 1} /\ Loose(m)' \in {0, 1}
        /\ Expired(m) \in {0, 1}
    BY DEF Loose, Expired, IInv, TypeOK
  <1>3. CASE Loose(m) = 1
    <2>1. Holders(m) = {}
      BY <1>3 DEF Loose, Settled, Holders, Owns
    <2>2. Doubtful(m)' \subseteq Doubtful(m) \ {w}
      BY <1>1, <2>1
    <2>3. Expired(m)' + Budget(m) <= Expired(m) + 1 + Budget(m)'
      BY <1>1, <1>2 DEF Budget
    <2> QED
      BY <2>2, <2>3, ChargeLeft DEF XInv
  <1>4. CASE Loose(m) = 0
    <2>1. Expired(m)' <= Expired(m) /\ Budget(m) <= Budget(m)'
      BY <1>1, <1>2, <1>4 DEF Budget
    <2>2. CASE Holders(m) = {}
      <3>1. Doubtful(m)' \subseteq Doubtful(m)
        BY <1>1, <2>2
      <3> QED
        BY <2>1, <3>1, ChargeKept DEF XInv
    <2>3. CASE Holders(m) # {}
      <3>1. PICK v : v \in Holders(m)
        BY <2>3
      <3>2. Holders(m) = {v}
        BY <3>1, OneHolder DEF XInv
      <3>3. Doubtful(m)' \subseteq (Doubtful(m) \ {w}) \cup {v}
        BY <1>1, <3>2
      <3> QED
        BY <2>1, <3>3, ChargeSwapped DEF XInv
    <2> QED
      BY <2>2, <2>3
  <1> QED
    BY <1>2, <1>3, <1>4

\* _mark_runtime_blocked_message writes the row of its owner, or of another.
LEMMA BlockedCharged ==
  ASSUME IInv, IInv', XInv, NEW w \in Workers, MarkRuntimeBlocked(w)
  PROVE  XInv'
  <1>1. PICK m \in cur[w] : row' = [row EXCEPT ![m] = MarkDead(@)]
    BY DEF MarkRuntimeBlocked
  <1>2. /\ requeued' = requeued /\ faults' = faults /\ faults <= faults' /\ pc[w] = "leased"
        /\ Proceed(w, batch[w])
    BY DEF MarkRuntimeBlocked, history, IInv, TypeOK
  <1>3. /\ m \in Messages /\ row[m] \in Message /\ row \in [Messages -> Message]
    BY DEF IInv, TypeOK
  <1>4. /\ row'[m].status = "dead"
        /\ \A i \in Messages \ {m} : row'[i] = row[i] /\ requeued'[i] = requeued[i]
    BY <1>1, <1>2, <1>3 DEF MarkDead, Unlocked, Message
  <1>5. /\ OthersStay(w) /\ CallsHoldTokens' /\ TokensUnique'
        /\ \A i \in Messages : w \notin Doubtful(i)'
        /\ \A i \in Messages : row'[i].status = row[i].status /\ row'[i].token = row[i].token
               => (w \in Holders(i)' => w \in Holders(i))
    BY <1>2, ProceedLeaves
  <1>6. \A i \in Messages \ {m} : Charged(i)'
    BY <1>2, <1>4, <1>5, OtherRows
  <1>7. Charged(m)'
    <2>1. CASE Owns(w, m)
      <3>1. w \in Holders(m)
        BY <1>3, <2>1 DEF Holders
      <3>2. Holders(m) = {w}
        BY <1>3, <3>1, OneHolder DEF XInv
      <3>3. Expired(m)' = 0 /\ Doubtful(m)' \subseteq Doubtful(m)
        BY <1>3, <1>4, <1>5, <3>2, LostLease
      <3>4. Loose(m) \in {0, 1} /\ Loose(m)' = 1 /\ faults \in Nat /\ requeued[m] \in Nat
        BY <1>3, <1>4 DEF Loose, Settled, IInv, TypeOK
      <3>5. Expired(m)' <= Expired(m) /\ Budget(m) <= Budget(m)'
        BY <1>2, <3>3, <3>4 DEF Budget, Expired
      <3> QED
        BY <1>3, <3>3, <3>5, ChargeKept DEF XInv
    <2>2. CASE ~Owns(w, m)
      <3>1. w \in Doubtful(m)
        BY <1>2, <2>2 DEF Doubtful
      <3> QED
        BY <1>2, <1>3, <1>4, <1>5, <3>1, UnleasedBy
    <2> QED
      BY <2>1, <2>2
  <1> QED
    BY <1>5, <1>6, <1>7 DEF XInv

\* An exception is a fault, and makes its worker doubtful.
LEMMA RaiseCharged ==
  ASSUME IInv, IInv', XInv, NEW w \in Workers, AttemptRaises(w)
  PROVE  XInv'
  <1>1. /\ row' = row /\ requeued' = requeued /\ faults' = faults + 1
        /\ UNCHANGED <<tok, batch, cur>>
        /\ pc[w] \in {"leased", "sending", "flushed"} /\ pc' = [pc EXCEPT ![w] = "raised"]
    BY DEF AttemptRaises, rowVars
  <1>2. OthersStay(w) /\ pc'[w] = "raised"
    BY <1>1 DEF OthersStay, IInv, TypeOK
  <1>3. CallsHoldTokens' /\ TokensUnique'
    BY <1>1, <1>2 DEF XInv, CallsHoldTokens, TokensUnique, OthersStay
  <1>4. ASSUME NEW m \in Messages PROVE Charged(m)'
    <2>1. Doubtful(m)' \subseteq Doubtful(m) \cup {w}
      BY <1>1, <1>2 DEF OthersStay, Doubtful, Owns
    <2>2. Expired(m)' = Expired(m) /\ Loose(m)' = Loose(m)
      BY <1>1 DEF Expired, Loose, Holders, Owns
    <2>3. Expired(m)' + 1 + Budget(m) <= Expired(m) + Budget(m)'
      BY <1>1, <2>2 DEF Budget, Expired, Loose, IInv, TypeOK
    <2> QED
      BY <2>1, <2>3, ChargeJoined DEF XInv
  <1> QED
    BY <1>3, <1>4 DEF XInv

\* The UPDATE of a recovery takes the row from whoever owns it by then, and
\* the recovering worker is gone.
LEMMA CommitCharged ==
  ASSUME IInv, IInv', XInv, NEW w \in Workers, CommitRecovery(w)
  PROVE  XInv'
  <1>1. PICK m \in cur[w] : row' = [row EXCEPT ![m] = Flushed(w, m)]
    BY DEF CommitRecovery
  <1>2. /\ requeued' = requeued /\ faults' = faults /\ faults <= faults' /\ pc[w] = "recovering"
        /\ Proceed(w, batch[w])
    BY DEF CommitRecovery, IInv, TypeOK
  <1>3. /\ m \in Messages /\ row[m] \in Message /\ loaded[w] \in Nat
        /\ row \in [Messages -> Message] /\ view[w] = "retry"
    BY <1>2 DEF IInv, TypeOK, RecoveryLoaded
  <1>4. /\ row'[m] = MarkRetry(row[m], loaded[w])
        /\ \A i \in Messages \ {m} : row'[i] = row[i] /\ requeued'[i] = requeued[i]
    BY <1>1, <1>2, <1>3 DEF Flushed
  <1>5. /\ OthersStay(w) /\ CallsHoldTokens' /\ TokensUnique'
        /\ \A i \in Messages : w \notin Doubtful(i)'
        /\ \A i \in Messages : row'[i].status = row[i].status /\ row'[i].token = row[i].token
               => (w \in Holders(i)' => w \in Holders(i))
    BY <1>2, ProceedLeaves
  <1>6. \A i \in Messages \ {m} : Charged(i)'
    BY <1>2, <1>4, <1>5, OtherRows
  <1>7. w \in Doubtful(m) /\ row'[m].status \in {"dead", "pending"}
    BY <1>2, <1>3, <1>4, RetryUnleases DEF Doubtful
  <1>8. Charged(m)'
    BY <1>2, <1>3, <1>5, <1>7, UnleasedBy
  <1> QED
    BY <1>5, <1>6, <1>8 DEF XInv

\* Every step keeps the leases accounted for.
LEMMA NextXInv == IInv /\ IInv' /\ XInv /\ [Next]_vars => XInv'
  <1> SUFFICES ASSUME IInv, IInv', XInv, [Next]_vars PROVE XInv'
    OBVIOUS
  <1>1. CASE UNCHANGED vars
    BY <1>1 DEF vars, XInv, CallsHoldTokens, TokensUnique, Charged, Doubtful, Expired, Loose, Holders, Owns
  <1>2. CASE Next
    BY <1>2, RequeueCharged, ReceiptCharged, ClockCharged, ReclaimCharged, ClaimCharged,
       RefreshCharged, BlockedCharged, SessionCharged, CheckCharged, RecoverCharged,
       CommitCharged, RaiseCharged DEF Next, WorkerStep
  <1> QED
    BY <1>1, <1>2

\* Leases keep dispatch attempts apart: every worker that works on a message
\* beside its owner was let in by a fault (a stall past outbox_lock_seconds or
\* an exception whose recovery writes blindly), or by the requeue of a row
\* that was settled under its worker.
THEOREM DispatchIsExclusive == Spec => []DispatchExclusive
  <1>1. IInv /\ XInv => DispatchExclusive
    <2> SUFFICES ASSUME IInv, XInv, NEW m \in Messages
                 PROVE  Cardinality({w \in Workers : m \in cur[w] /\ pc[w] \in {"leased", "sending"}})
                          <= 1 + faults + requeued[m]
      BY DEF DispatchExclusive
    <2> DEFINE busy == {w \in Workers : m \in cur[w] /\ pc[w] \in {"leased", "sending"}}
    <2>1. busy \subseteq Doubtful(m) \cup Holders(m)
      BY DEF Doubtful, Holders
    <2>2. /\ IsFiniteSet(Doubtful(m)) /\ Cardinality(Doubtful(m)) \in Nat
          /\ Expired(m) \in {0, 1} /\ Loose(m) \in {0, 1}
          /\ faults \in Nat /\ requeued[m] \in Nat
      BY DoubtTypes
    <2>3. Cardinality(Doubtful(m)) + Expired(m) <= faults + requeued[m] + Loose(m)
      BY DEF XInv, Charged
    <2> HIDE DEF busy
    <2>4. CASE Holders(m) = {}
      <3>1. Cardinality(busy) \in Nat /\ Cardinality(busy) <= Cardinality(Doubtful(m))
        BY <2>1, <2>2, <2>4, FS_Subset, FS_CardinalityType
      <3>2. Cardinality(busy) <= 1 + faults + requeued[m]
        BY <2>2, <2>3, <3>1
      <3> QED
        BY <3>2 DEF busy
    <2>5. CASE Holders(m) # {}
      <3>1. PICK v : v \in Holders(m)
        BY <2>5
      <3>2. Holders(m) = {v} /\ Loose(m) = 0
        BY <3>1, OneHolder DEF XInv, Holders, Owns, Loose, Settled
      <3> DEFINE all == Doubtful(m) \cup {v}
      <3>3. /\ IsFiniteSet(all)
            /\ \/ Cardinality(all) = Cardinality(Doubtful(m))
               \/ Cardinality(all) = Cardinality(Doubtful(m)) + 1
        BY <2>2, FS_AddElement
      <3>4. busy \subseteq all
        BY <2>1, <3>2
      <3> HIDE DEF all
      <3>5. Cardinality(busy) \in Nat /\ Cardinality(busy) <= Cardinality(all)
        BY <3>3, <3>4, FS_Subset, FS_CardinalityType
      <3>6. Cardinality(busy) <= 1 + faults + requeued[m]
        BY <2>2, <2>3, <3>2, <3>3, <3>5
      <3> QED
        BY <3>6 DEF busy
    <2> QED
      BY <2>4, <2>5
  <1>2. Spec => []XInv
    BY InvariantHolds, InitXInv, NextXInv, PTL DEF Spec
  <1> QED
    BY <1>1, <1>2, InvariantHolds, PTL

=============================================================================
