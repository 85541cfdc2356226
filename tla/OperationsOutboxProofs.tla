----------------------- MODULE OperationsOutboxProofs -----------------------
(***************************************************************************)
(* Proofs about OperationsOutbox, for any dispatches, workers and number   *)
(* of attempts: its types, the fencing of a newer attempt, and that it     *)
(* implements BoundedDelivery.                                             *)
(***************************************************************************)
EXTENDS OperationsOutbox, TLAPS

-----------------------------------------------------------------------------
(* The inductive invariant: what a worker holds is an attempt of its own. *)

\* A worker's attempt was counted in the row.
AttemptCounted(w) == worker[w].attempt <= row[worker[w].item].attempts

\* The provider has been called for it exactly when the adapter has returned,
\* or never if the dispatch has no tenant.
CallRecorded(w) ==
    /\ worker[w].pc = "call" => worker[w].attempt \notin called[worker[w].item]
    /\ worker[w].pc = "report" => /\ \/ worker[w].attempt \in called[worker[w].item]
                                     \/ worker[w].item \notin Tenanted
                                  /\ worker[w].result \in Results
    /\ worker[w].pc = "report" /\ worker[w].result = "success" => worker[w].item \in taken

\* A lease in the worker's name is the lease of that attempt.
LeaseOfAttempt(w) ==
    row[worker[w].item].status = "processing" /\ row[worker[w].item].owner = w
        => worker[w].attempt = row[worker[w].item].attempts

\* No two workers hold the same attempt.
AttemptsDiffer(v, w) == worker[v].item = worker[w].item => worker[v].attempt # worker[w].attempt

Holding(w) == worker[w].pc # "idle"

Inv ==
    /\ TypeOK
    /\ \A d \in Dispatches : called[d] \subseteq 1..row[d].attempts
    /\ \A w \in Workers : Holding(w) => AttemptCounted(w) /\ CallRecorded(w) /\ LeaseOfAttempt(w)
    /\ \A v, w \in Workers : v # w /\ Holding(v) /\ Holding(w) => AttemptsDiffer(v, w)

-----------------------------------------------------------------------------
(* What the operations make of one row *)

LEMMA SettledRow ==
    ASSUME NEW r \in Row, NEW s \in Statuses
    PROVE  /\ Settled(r, s) \in Row
           /\ Settled(r, s).status = s
           /\ Settled(r, s).attempts = r.attempts
BY DEF Settled, Row

\* The sweep of a claim counts no attempt, leaves a row that stays in processing
\* alone, and ends only a row whose attempts are used up.
LEMMA SweptRow ==
    ASSUME NEW r \in Row
    PROVE  /\ Swept(r) \in Row
           /\ Swept(r).attempts = r.attempts
           /\ Swept(r).status = "processing" => Swept(r) = r
           /\ \/ Outcome(Swept(r).status) = Outcome(r.status)
              \/ /\ Outcome(r.status) = "open" /\ r.attempts = MaxAttempts
                 /\ Outcome(Swept(r).status) = "dead"
<1> DEFINE q == recover_expired_lease(r)
<1> USE OutboxAssumption
<1>1. r.attempts \in 0..MaxAttempts /\ r.status \in Statuses  BY DEF Row
<1>2. /\ q \in Row /\ q.attempts = r.attempts
      /\ q = r \/ q.status \in {"retryable", "dead_letter"}
      /\ q # r => r.status = "processing"
      /\ q.status = "dead_letter" => q = r \/ Exhausted(r)
  <2>1. CASE r.status # "processing" \/ r.live  BY <2>1 DEF recover_expired_lease
  <2>2. CASE r.status = "processing" /\ ~r.live /\ Exhausted(r)
    <3>1. q = Settled(r, "dead_letter")  BY <2>2 DEF recover_expired_lease
    <3>2. "dead_letter" \in Statuses  BY DEF Statuses
    <3> QED  BY <2>2, <3>1, <3>2, SettledRow
  <2>3. CASE r.status = "processing" /\ ~r.live /\ ~Exhausted(r)
    <3>1. q = [Settled(r, "retryable") EXCEPT !.due = TRUE]  BY <2>3 DEF recover_expired_lease
    <3>2. "retryable" \in Statuses  BY DEF Statuses
    <3> DEFINE t == Settled(r, "retryable")
    <3>3. t \in Row /\ t.status = "retryable" /\ t.attempts = r.attempts  BY <3>2, SettledRow
    <3> HIDE DEF t
    <3>4. /\ [t EXCEPT !.due = TRUE] \in Row
          /\ [t EXCEPT !.due = TRUE].status = "retryable"
          /\ [t EXCEPT !.due = TRUE].attempts = r.attempts
      BY <3>3 DEF Row
    <3> QED  BY <2>3, <3>1, <3>4 DEF t
  <2> QED  BY <2>1, <2>2, <2>3 DEF Row
<1>3. Swept(r) = q \/ /\ q.status \in {"pending", "retryable"} /\ Exhausted(q)
                      /\ Swept(r) = Settled(q, "dead_letter")
  BY DEF Swept, dead_letter_exhausted
<1>4. CASE Swept(r) = q
  <2>1. Swept(r).status = "processing" => Swept(r) = r  BY <1>2, <1>4
  <2>2. CASE q = r  BY <1>2, <1>4, <2>1, <2>2
  <2>3. CASE q # r
    <3>1. CASE q.status = "retryable"
      BY <1>2, <1>4, <2>1, <2>3, <3>1 DEF Outcome
    <3>2. CASE q.status = "dead_letter"
      <4>1. r.attempts = MaxAttempts  BY <1>1, <1>2, <2>3, <3>2 DEF Exhausted
      <4> QED  BY <1>2, <1>4, <2>1, <2>3, <3>2, <4>1 DEF Outcome
    <3> QED  BY <1>2, <2>3, <3>1, <3>2
  <2> QED  BY <2>2, <2>3
<1>5. CASE q.status \in {"pending", "retryable"} /\ Exhausted(q)
           /\ Swept(r) = Settled(q, "dead_letter")
  <2>1. "dead_letter" \in Statuses  BY DEF Statuses
  <2>2. /\ Swept(r) \in Row /\ Swept(r).status = "dead_letter"
        /\ Swept(r).attempts = r.attempts
    BY <1>2, <1>5, <2>1, SettledRow
  <2>3. r.attempts = MaxAttempts  BY <1>1, <1>2, <1>5 DEF Exhausted
  <2>4. Outcome(r.status) = "open"  BY <1>2, <1>5 DEF Outcome
  <2>5. Outcome(Swept(r).status) = "dead"  BY <2>2 DEF Outcome
  <2> QED  BY <2>2, <2>3, <2>4, <2>5
<1> QED  BY <1>3, <1>4, <1>5

LEMMA ClaimedRow ==
    ASSUME NEW r \in Row, NEW w \in Workers, Claimable(r)
    PROVE  /\ ClaimedBy(w, r) \in Row
           /\ ClaimedBy(w, r).attempts = r.attempts + 1
           /\ r.attempts < MaxAttempts
           /\ ClaimedBy(w, r).status = "processing" /\ ClaimedBy(w, r).owner = w
           /\ Outcome(r.status) = "open" /\ Outcome(ClaimedBy(w, r).status) = "open"
<1> USE OutboxAssumption
<1>1. r.attempts \in Nat /\ r.attempts < MaxAttempts /\ r.status \in {"pending", "retryable"}
  BY DEF Claimable, Row
<1>2. r.attempts + 1 \in 0..MaxAttempts  BY <1>1
<1>3. ClaimedBy(w, r) \in Row  BY <1>2 DEF ClaimedBy, Row, Statuses
<1>4. /\ ClaimedBy(w, r).attempts = r.attempts + 1
      /\ ClaimedBy(w, r).status = "processing" /\ ClaimedBy(w, r).owner = w
  BY DEF ClaimedBy, Row
<1> QED  BY <1>1, <1>3, <1>4 DEF Outcome

LEMMA FinalizedRow ==
    ASSUME NEW r \in Row, NEW result \in Results
    PROVE  /\ Finalized(r, result) \in Row
           /\ Finalized(r, result).attempts = r.attempts
           /\ \/ Finalized(r, result).status = "dispatched" /\ result = "success"
              \/ Finalized(r, result).status = "dead_letter" /\ r.attempts = MaxAttempts
              \/ Finalized(r, result).status = "retryable"
              \/ Finalized(r, result).status = "failed"
<1> USE OutboxAssumption
<1>1. {"dispatched", "dead_letter", "retryable", "failed"} \subseteq Statuses  BY DEF Statuses
<1>2. r.attempts \in 0..MaxAttempts  BY DEF Row
<1>3. CASE result = "success"  BY <1>1, <1>3, SettledRow DEF Finalized
<1>4. CASE result # "success" /\ Exhausted(r)
  <2>1. Finalized(r, result) = Settled(r, "dead_letter")  BY <1>4 DEF Finalized
  <2>2. r.attempts = MaxAttempts  BY <1>2, <1>4 DEF Exhausted
  <2>3. /\ Settled(r, "dead_letter") \in Row
        /\ Settled(r, "dead_letter").status = "dead_letter"
        /\ Settled(r, "dead_letter").attempts = r.attempts
    BY <1>1, SettledRow
  <2> QED  BY <2>1, <2>2, <2>3
<1>5. CASE result # "success" /\ ~Exhausted(r)
  BY <1>1, <1>5, SettledRow DEF Finalized
<1> QED  BY <1>3, <1>4, <1>5

-----------------------------------------------------------------------------
(* Inv is inductive *)

LEMMA InitInv == Init => Inv
<1> USE OutboxAssumption
<1> SUFFICES ASSUME Init PROVE Inv  OBVIOUS
<1>1. Absent \in Row  BY DEF Absent, Row, Statuses
<1>2. \A d \in Dispatches : row[d] = Absent /\ called[d] = {}  BY DEF Init
<1>3. \A w \in Workers : worker[w] = Idle /\ ~Holding(w)  BY DEF Init, Idle, Holding
<1>4. TypeOK  BY <1>1, <1>3 DEF Init, TypeOK
<1> QED  BY <1>2, <1>3, <1>4 DEF Inv

\* A worker that holds an attempt, in the terms of TypeOK.
LEMMA HoldingType ==
    ASSUME TypeOK, NEW w \in Workers, Holding(w)
    PROVE  /\ worker[w].item \in Dispatches
           /\ worker[w].attempt \in 1..MaxAttempts
           /\ worker[w].pc \in {"call", "report"}
           /\ worker[w].result \in Results \cup {None}
BY DEF TypeOK, Working, Holding, Idle

\* A step that leaves the workers and the calls alone keeps Inv if it changes no
\* count of attempts and moves no row into processing.
LEMMA RowStep ==
    ASSUME Inv, UNCHANGED <<worker, called, taken>>,
           row' \in [Dispatches -> Row], cancelling' \subseteq Loaded,
           \A d \in Dispatches : /\ row'[d].attempts = row[d].attempts
                                 /\ row'[d].status = "processing" =>
                                        row[d].status = "processing" /\ row'[d].owner = row[d].owner
    PROVE  Inv'
<1>1. TypeOK'  BY DEF Inv, TypeOK, Working
<1>2. \A w \in Workers : Holding(w) => worker[w].item \in Dispatches  BY HoldingType DEF Inv
<1>3. \A w \in Workers : Holding(w) =>
        AttemptCounted(w)' /\ CallRecorded(w)' /\ LeaseOfAttempt(w)'
  BY <1>2 DEF Inv, AttemptCounted, CallRecorded, LeaseOfAttempt
<1>4. \A v, w \in Workers : v # w /\ Holding(v) /\ Holding(w) => AttemptsDiffer(v, w)'
  BY DEF Inv, AttemptsDiffer
<1>5. \A d \in Dispatches : called'[d] \subseteq 1..row'[d].attempts  BY DEF Inv
<1> QED  BY <1>1, <1>3, <1>4, <1>5 DEF Inv, Holding

LEMMA EnqueueInv ==
    ASSUME Inv, NEW d \in Dispatches, enqueue_operations_dispatch(d)
    PROVE  Inv'
<1>1. row \in [Dispatches -> Row] /\ cancelling \subseteq Loaded  BY DEF Inv, TypeOK
<1>2. row' = [row EXCEPT ![d] = [row[d] EXCEPT !.status = "pending"]]
      /\ UNCHANGED <<worker, cancelling, called, taken>>
  BY DEF enqueue_operations_dispatch
<1>3. [row[d] EXCEPT !.status = "pending"] \in Row  BY <1>1 DEF Row, Statuses
<1>4. row' \in [Dispatches -> Row]  BY <1>1, <1>2, <1>3
<1>5. \A e \in Dispatches : /\ row'[e].attempts = row[e].attempts
                            /\ row'[e].status = "processing" => row'[e] = row[e]
  BY <1>1, <1>2 DEF Row
<1> QED  BY <1>1, <1>2, <1>4, <1>5, RowStep

LEMMA CancelInv ==
    ASSUME Inv, NEW d \in Dispatches, cancel_operations_dispatch(d)
    PROVE  Inv'
<1>1. row \in [Dispatches -> Row] /\ cancelling \subseteq Loaded  BY DEF Inv, TypeOK
<1>2. /\ row' = row \/ row' = [row EXCEPT ![d] = Settled(row[d], "cancelled")]
      /\ cancelling' \subseteq Loaded /\ UNCHANGED <<worker, called, taken>>
  <2>1. PICK c \in cancelling : /\ row' = [row EXCEPT ![d] = Cancelled(row[d], c)]
                                /\ cancelling' = cancelling \ {c}
    BY DEF cancel_operations_dispatch
  <2>2. Cancelled(row[d], c) = row[d] \/ Cancelled(row[d], c) = Settled(row[d], "cancelled")
    BY DEF Cancelled
  <2> QED  BY <1>1, <2>1, <2>2 DEF cancel_operations_dispatch
<1>3. "cancelled" \in Statuses  BY DEF Statuses
<1>4. /\ Settled(row[d], "cancelled") \in Row
      /\ Settled(row[d], "cancelled").attempts = row[d].attempts
      /\ Settled(row[d], "cancelled").status = "cancelled"
  BY <1>1, <1>3, SettledRow
<1>5. row' \in [Dispatches -> Row]  BY <1>1, <1>2, <1>4
<1>6. \A e \in Dispatches : /\ row'[e].attempts = row[e].attempts
                            /\ row'[e].status = "processing" => row'[e] = row[e]
  BY <1>1, <1>2, <1>4
<1> QED  BY <1>2, <1>5, <1>6, RowStep

LEMMA TimeInv ==
    ASSUME Inv, NEW d \in Dispatches, LeaseExpires(d) \/ RetryFallsDue(d)
    PROVE  Inv'
<1>1. row \in [Dispatches -> Row] /\ cancelling \subseteq Loaded  BY DEF Inv, TypeOK
<1>2. UNCHANGED <<worker, cancelling, called, taken>>  BY DEF LeaseExpires, RetryFallsDue
<1>3. \/ row' = [row EXCEPT ![d] = [row[d] EXCEPT !.live = FALSE]]
      \/ row' = [row EXCEPT ![d] = [row[d] EXCEPT !.due = TRUE]]
  BY DEF LeaseExpires, RetryFallsDue
<1>4. row' \in [Dispatches -> Row]  BY <1>1, <1>3 DEF Row
<1>5. \A e \in Dispatches : /\ row'[e].attempts = row[e].attempts
                            /\ row'[e].status = row[e].status /\ row'[e].owner = row[e].owner
  BY <1>1, <1>3 DEF Row
<1> QED  BY <1>1, <1>2, <1>4, <1>5, RowStep

LEMMA CancelLoadsInv ==
    ASSUME Inv, NEW d \in Dispatches, CancelLoads(d)
    PROVE  Inv'
<1>1. row \in [Dispatches -> Row] /\ cancelling \subseteq Loaded  BY DEF Inv, TypeOK
<1>2. row' = row /\ cancelling' \subseteq Loaded /\ UNCHANGED <<worker, called, taken>>
  <2>1. (row[d].status = "processing") \in BOOLEAN  OBVIOUS
  <2>2. \A b \in BOOLEAN : [item |-> d, leased |-> b] \in Loaded  BY DEF Loaded
  <2>3. [item |-> d, leased |-> row[d].status = "processing"] \in Loaded  BY <2>1, <2>2, Zenon
  <2> QED  BY <1>1, <2>3, Zenon DEF CancelLoads
<1> QED  BY <1>1, <1>2, RowStep

LEMMA CrashInv ==
    ASSUME Inv, NEW w \in Workers, Crash(w)
    PROVE  Inv'
<1>1. /\ worker' = [worker EXCEPT ![w] = Idle] /\ DOMAIN worker = Workers
      /\ UNCHANGED <<row, cancelling, called, taken>>
  BY DEF Crash, Inv, TypeOK
<1>2. \A v \in Workers : worker'[v] = worker[v] \/ worker'[v] = Idle  BY <1>1
<1>3. \A v \in Workers : Holding(v)' => v # w /\ Holding(v) /\ worker'[v] = worker[v]
  BY <1>1 DEF Holding, Idle
<1>4. TypeOK'  BY <1>1, <1>2 DEF Inv, TypeOK, Working
<1>5. \A v \in Workers : Holding(v)' =>
        AttemptCounted(v)' /\ CallRecorded(v)' /\ LeaseOfAttempt(v)'
  BY <1>1, <1>3 DEF Inv, AttemptCounted, CallRecorded, LeaseOfAttempt
<1>6. \A u, v \in Workers : u # v /\ Holding(u)' /\ Holding(v)' => AttemptsDiffer(u, v)'
  BY <1>3 DEF Inv, AttemptsDiffer
<1> QED  BY <1>1, <1>4, <1>5, <1>6 DEF Inv

\* The end of an attempt: the row first, then the worker.
LEMMA ReportInv ==
    ASSUME Inv, NEW w \in Workers, Report(w)
    PROVE  Inv'
<1> DEFINE d == worker[w].item
<1>1. /\ worker' = [worker EXCEPT ![w] = Idle] /\ DOMAIN worker = Workers
      /\ row' = IF Owned(w, row[d]) THEN [row EXCEPT ![d] = Finalized(row[d], worker[w].result)]
                ELSE row
      /\ UNCHANGED <<cancelling, called, taken>>
      /\ worker[w].pc = "report"
  BY DEF Report, Inv, TypeOK
<1>2. Holding(w) /\ d \in Dispatches /\ worker[w].result \in Results
  BY <1>1, HoldingType DEF Holding, Inv, CallRecorded
<1>3. row \in [Dispatches -> Row]  BY DEF Inv, TypeOK
<1>4. /\ Finalized(row[d], worker[w].result) \in Row
      /\ Finalized(row[d], worker[w].result).attempts = row[d].attempts
      /\ Finalized(row[d], worker[w].result).status # "processing"
  BY <1>2, <1>3, FinalizedRow
<1>5. row' \in [Dispatches -> Row]  BY <1>1, <1>3, <1>4
<1>6. \A e \in Dispatches : /\ row'[e].attempts = row[e].attempts
                            /\ row'[e].status = "processing" => row'[e] = row[e]
  BY <1>1, <1>3, <1>4
<1>7. \A v \in Workers : worker'[v] = worker[v] \/ worker'[v] = Idle  BY <1>1
<1>8. \A v \in Workers : Holding(v)' => v # w /\ Holding(v) /\ worker'[v] = worker[v]
                                        /\ worker[v].item \in Dispatches
  BY <1>1, HoldingType DEF Holding, Idle, Inv
<1>9. TypeOK'  BY <1>1, <1>5, <1>7 DEF Inv, TypeOK, Working
<1>10. \A v \in Workers : Holding(v)' =>
        AttemptCounted(v)' /\ CallRecorded(v)' /\ LeaseOfAttempt(v)'
  BY <1>1, <1>6, <1>8 DEF Inv, AttemptCounted, CallRecorded, LeaseOfAttempt
<1>11. \A u, v \in Workers : u # v /\ Holding(u)' /\ Holding(v)' => AttemptsDiffer(u, v)'
  BY <1>8 DEF Inv, AttemptsDiffer
<1>12. \A e \in Dispatches : called'[e] \subseteq 1..row'[e].attempts  BY <1>1, <1>6 DEF Inv
<1> QED  BY <1>9, <1>10, <1>11, <1>12 DEF Inv

LEMMA DispatchInv ==
    ASSUME Inv, NEW w \in Workers, dispatch(w)
    PROVE  Inv'
<1> DEFINE d == worker[w].item
<1> DEFINE k == worker[w].attempt
<1> USE OutboxAssumption
<1>1. /\ DOMAIN worker = Workers /\ worker[w].pc = "call"
      /\ \/ called' = [called EXCEPT ![d] = called[d] \cup {k}]
         \/ called' = called /\ d \notin Tenanted
      /\ UNCHANGED <<row, cancelling>>
  BY DEF dispatch, CallAdapter, RefuseTenant, Inv, TypeOK
<1>2. PICK result \in Results :
        /\ taken' \in {taken, taken \cup {d}}
        /\ result = "success" => taken' = taken \cup {d}
        /\ worker' = [worker EXCEPT ![w].pc = "report", ![w].result = result]
  <2>1. "refused" \in Results /\ "refused" # "success"  BY DEF Results
  <2> QED  BY <2>1 DEF dispatch, CallAdapter, RefuseTenant, Returns
<1>3. /\ Holding(w) /\ d \in Dispatches /\ k \in 1..MaxAttempts /\ Working(w)
  <2>1. Holding(w)  BY <1>1 DEF Holding
  <2>2. Working(w)  BY <2>1 DEF Inv, TypeOK, Holding, Idle
  <2> QED  BY <2>1, <2>2, HoldingType DEF Inv
<1>4. /\ called \in [Dispatches -> SUBSET (1..MaxAttempts)] /\ taken \subseteq Dispatches
      /\ row \in [Dispatches -> Row] /\ cancelling \subseteq Loaded
  BY DEF Inv, TypeOK
<1>5. /\ \A v \in Workers : v # w => worker'[v] = worker[v]
      /\ worker'[w].pc = "report" /\ worker'[w].item = d /\ worker'[w].attempt = k
      /\ worker'[w].result = result
      /\ DOMAIN worker' = Workers
  BY <1>1, <1>2, <1>3 DEF Working
<1>6. Working(w)'  BY <1>1, <1>2, <1>3 DEF Working
<1>7. /\ called' \in [Dispatches -> SUBSET (1..MaxAttempts)] /\ taken' \subseteq Dispatches
      /\ taken \subseteq taken'
      /\ result = "success" => d \in taken'
  BY <1>1, <1>2, <1>3, <1>4
<1>8. TypeOK'
  <2>1. \A v \in Workers : v # w => (worker[v] = Idle \/ Working(v))'
    BY <1>5 DEF Inv, TypeOK, Working
  <2> QED  BY <1>1, <1>4, <1>5, <1>6, <1>7, <2>1 DEF TypeOK
<1>9. \A e \in Dispatches : called'[e] \subseteq 1..row'[e].attempts
  <2>1. k \in 1..row[d].attempts
    BY <1>3, <1>4 DEF Inv, AttemptCounted, Row
  <2> QED  BY <1>1, <1>3, <1>4, <2>1 DEF Inv
<1>10. \A v \in Workers : Holding(v)' => Holding(v) /\ worker[v].item \in Dispatches
                                        /\ worker'[v].item = worker[v].item
                                        /\ worker'[v].attempt = worker[v].attempt
  BY <1>3, <1>5, HoldingType DEF Holding, Inv
<1>11. \A v \in Workers : Holding(v)' => AttemptCounted(v)' /\ LeaseOfAttempt(v)'
  BY <1>1, <1>10 DEF Inv, AttemptCounted, LeaseOfAttempt
<1>12. \A u, v \in Workers : u # v /\ Holding(u)' /\ Holding(v)' => AttemptsDiffer(u, v)'
  BY <1>10 DEF Inv, AttemptsDiffer
<1>13. ASSUME NEW v \in Workers, Holding(v)' PROVE CallRecorded(v)'
  <2>1. CASE v = w
    <3>1. k \in called'[d] \/ d \notin Tenanted  BY <1>1, <1>3, <1>4
    <3>2. CallRecorded(w)' <=> /\ k \in called'[d] \/ d \notin Tenanted
                               /\ result \in Results
                               /\ result = "success" => d \in taken'
      BY <1>5 DEF CallRecorded
    <3> QED  BY <1>2, <1>7, <2>1, <3>1, <3>2
  <2>2. CASE v # w
    <3>1. worker'[v] = worker[v] /\ Holding(v) /\ worker[v].item \in Dispatches
      BY <1>5, <1>10, <1>13, <2>2
    <3>2. worker[v].item = d => worker[v].attempt # k
      BY <1>3, <2>2, <3>1 DEF Inv, AttemptsDiffer
    <3>3. CallRecorded(v)  BY <3>1 DEF Inv
    <3>4. worker[v].attempt \in called'[worker[v].item]
            <=> worker[v].attempt \in called[worker[v].item]
      BY <1>1, <1>3, <1>4, <3>1, <3>2
    <3>5. worker[v].item \in taken => worker[v].item \in taken'  BY <1>7
    <3> HIDE DEF d, k
    <3> QED  BY <3>1, <3>3, <3>4, <3>5 DEF CallRecorded
  <2> QED  BY <2>1, <2>2
<1> QED  BY <1>8, <1>9, <1>11, <1>12, <1>13 DEF Inv

\* What a claim that finds a row leaves of every row.
LEMMA ClaimRows ==
    ASSUME TypeOK, NEW w \in Workers, NEW d \in Dispatches, Claimable(Swept(row[d])),
           row' = [e \in Dispatches |-> IF e = d THEN ClaimedBy(w, Swept(row[e]))
                                        ELSE Swept(row[e])]
    PROVE  /\ row' \in [Dispatches -> Row]
           /\ \A e \in Dispatches : e # d => /\ row'[e].attempts = row[e].attempts
                                             /\ row'[e].status = "processing" => row'[e] = row[e]
           /\ row'[d].attempts = row[d].attempts + 1 /\ row[d].attempts < MaxAttempts
           /\ row'[d].owner = w /\ row'[d].attempts \in 1..MaxAttempts
           /\ row'[d] = ClaimedBy(w, Swept(row[d]))
<1> USE OutboxAssumption
<1>1. row \in [Dispatches -> Row]  BY DEF TypeOK
<1>2. \A e \in Dispatches : /\ Swept(row[e]) \in Row
                            /\ Swept(row[e]).attempts = row[e].attempts
                            /\ Swept(row[e]).status = "processing" => Swept(row[e]) = row[e]
  BY <1>1, SweptRow
<1>3. /\ ClaimedBy(w, Swept(row[d])) \in Row
      /\ ClaimedBy(w, Swept(row[d])).attempts = Swept(row[d]).attempts + 1
      /\ Swept(row[d]).attempts < MaxAttempts
      /\ ClaimedBy(w, Swept(row[d])).owner = w
  BY <1>2, ClaimedRow
<1>4. row'[d] = ClaimedBy(w, Swept(row[d])) /\ \A e \in Dispatches : e # d => row'[e] = Swept(row[e])
  OBVIOUS
<1>5. row' \in [Dispatches -> Row]  BY <1>2, <1>3
<1>6. row[d].attempts \in Nat  BY <1>1 DEF Row
<1> QED  BY <1>2, <1>3, <1>4, <1>5, <1>6

LEMMA ClaimInv ==
    ASSUME Inv, NEW w \in Workers, claim_next_operations_dispatch(w)
    PROVE  Inv'
<1> USE OutboxAssumption
<1>1. /\ row \in [Dispatches -> Row] /\ DOMAIN worker = Workers /\ worker[w] = Idle
      /\ UNCHANGED <<cancelling, called, taken>> /\ cancelling \subseteq Loaded
  BY DEF Inv, TypeOK, claim_next_operations_dispatch
<1>2. CASE row' = [e \in Dispatches |-> Swept(row[e])] /\ UNCHANGED worker
  <2>1. \A e \in Dispatches : /\ Swept(row[e]) \in Row
                              /\ Swept(row[e]).attempts = row[e].attempts
                              /\ Swept(row[e]).status = "processing" => Swept(row[e]) = row[e]
    BY <1>1, SweptRow
  <2>2. row' \in [Dispatches -> Row]  BY <1>2, <2>1
  <2>3. \A e \in Dispatches : /\ row'[e].attempts = row[e].attempts
                              /\ row'[e].status = "processing" => row'[e] = row[e]
    BY <1>2, <2>1
  <2> QED  BY <1>1, <1>2, <2>2, <2>3, RowStep
<1>3. ASSUME NEW d \in Dispatches, Claimable(Swept(row[d])),
             row' = [e \in Dispatches |-> IF e = d THEN ClaimedBy(w, Swept(row[e]))
                                          ELSE Swept(row[e])],
             worker' = [worker EXCEPT ![w] = Envelope(d, ClaimedBy(w, Swept(row[d])))]
      PROVE  Inv'
  <2>1. TypeOK  BY DEF Inv
  <2>2. /\ row' \in [Dispatches -> Row]
        /\ \A e \in Dispatches : e # d => /\ row'[e].attempts = row[e].attempts
                                          /\ row'[e].status = "processing" => row'[e] = row[e]
        /\ row'[d].attempts = row[d].attempts + 1 /\ row[d].attempts < MaxAttempts
        /\ row'[d].owner = w /\ row'[d].attempts \in 1..MaxAttempts
        /\ row'[d] = ClaimedBy(w, Swept(row[d]))
    BY <1>3, <2>1, ClaimRows
  <2>3. row[d].attempts \in Nat  BY <1>1 DEF Row
  <2>4. /\ \A v \in Workers : v # w => worker'[v] = worker[v]
        /\ worker'[w] = [pc |-> "call", item |-> d, attempt |-> row'[d].attempts, result |-> None]
        /\ DOMAIN worker' = Workers
    BY <1>1, <1>3, <2>2 DEF Envelope
  <2>5. Working(w)'  BY <2>2, <2>4 DEF Working
  <2>6. TypeOK'
    <3>1. \A v \in Workers : v # w => (worker[v] = Idle \/ Working(v))'
      BY <2>1, <2>4 DEF TypeOK, Working
    <3> QED  BY <1>1, <2>1, <2>2, <2>4, <2>5, <3>1 DEF TypeOK
  <2>7. \A e \in Dispatches : called[e] \subseteq 1..row[e].attempts  BY DEF Inv
  <2>8. \A e \in Dispatches : called'[e] \subseteq 1..row'[e].attempts
    <3>1. ASSUME NEW e \in Dispatches PROVE called'[e] \subseteq 1..row'[e].attempts
      <4>1. CASE e = d  BY <1>1, <2>2, <2>3, <2>7, <4>1
      <4>2. CASE e # d  BY <1>1, <2>2, <2>7, <4>2
      <4> QED  BY <4>1, <4>2
    <3> QED  BY <3>1
  <2>9. ASSUME NEW v \in Workers, v # w, Holding(v)'
        PROVE  /\ Holding(v) /\ worker'[v] = worker[v] /\ worker[v].item \in Dispatches
               /\ worker[v].attempt \in Nat
               /\ worker[v].attempt <= row[worker[v].item].attempts
               /\ CallRecorded(v) /\ LeaseOfAttempt(v)
    BY <2>1, <2>4, <2>9, HoldingType DEF Holding, Inv, AttemptCounted
  <2>10. ASSUME NEW v \in Workers, Holding(v)'
         PROVE  AttemptCounted(v)' /\ CallRecorded(v)' /\ LeaseOfAttempt(v)'
    <3>1. CASE v = w
      <4>1. row'[d].attempts \notin called'[d]  BY <1>1, <2>2, <2>3, <2>7
      <4>2. AttemptCounted(w)'  BY <2>2, <2>4 DEF AttemptCounted
      <4>3. CallRecorded(w)'  BY <2>4, <4>1 DEF CallRecorded
      <4>4. LeaseOfAttempt(w)'  BY <2>4 DEF LeaseOfAttempt
      <4> QED  BY <3>1, <4>2, <4>3, <4>4
    <3>2. CASE v # w
      <4>1. AttemptCounted(v)'
        <5>1. CASE worker[v].item = d  BY <2>2, <2>3, <2>9, <2>10, <3>2, <5>1 DEF AttemptCounted
        <5>2. CASE worker[v].item # d  BY <2>2, <2>9, <2>10, <3>2, <5>2 DEF AttemptCounted
        <5> QED  BY <5>1, <5>2
      <4>2. CallRecorded(v)'  BY <1>1, <2>9, <2>10, <3>2 DEF CallRecorded
      <4>3. LeaseOfAttempt(v)'
        <5>1. CASE worker[v].item = d  BY <2>2, <2>9, <2>10, <3>2, <5>1 DEF LeaseOfAttempt
        <5>2. CASE worker[v].item # d  BY <2>2, <2>9, <2>10, <3>2, <5>2 DEF LeaseOfAttempt
        <5> QED  BY <5>1, <5>2
      <4> QED  BY <4>1, <4>2, <4>3
    <3> QED  BY <3>1, <3>2
  <2>11. ASSUME NEW v \in Workers, v # w, Holding(v)', worker'[v].item = d
         PROVE  worker'[v].attempt # row'[d].attempts
    BY <2>2, <2>3, <2>9, <2>11
  <2>12. ASSUME NEW u \in Workers, NEW v \in Workers, u # v, Holding(u)', Holding(v)'
         PROVE  AttemptsDiffer(u, v)'
    <3>1. CASE u # w /\ v # w  BY <2>9, <2>12, <3>1 DEF Inv, AttemptsDiffer
    <3>2. CASE u = w  BY <2>4, <2>11, <2>12, <3>2 DEF AttemptsDiffer
    <3>3. CASE v = w  BY <2>4, <2>11, <2>12, <3>3 DEF AttemptsDiffer
    <3> QED  BY <3>1, <3>2, <3>3
  <2> QED  BY <2>6, <2>8, <2>10, <2>12 DEF Inv
<1> QED  BY <1>2, <1>3 DEF claim_next_operations_dispatch

LEMMA NextInv == Inv /\ [Next]_vars => Inv'
<1> SUFFICES ASSUME Inv, [Next]_vars PROVE Inv'  OBVIOUS
<1>1. ASSUME NEW d \in Dispatches,
             \/ enqueue_operations_dispatch(d) \/ CancelLoads(d) \/ cancel_operations_dispatch(d)
             \/ LeaseExpires(d) \/ RetryFallsDue(d)
      PROVE  Inv'
  BY <1>1, EnqueueInv, CancelLoadsInv, CancelInv, TimeInv
<1>2. ASSUME NEW w \in Workers,
             claim_next_operations_dispatch(w) \/ dispatch(w) \/ Report(w) \/ Crash(w)
      PROVE  Inv'
  BY <1>2, ClaimInv, DispatchInv, ReportInv, CrashInv
<1>3. CASE UNCHANGED vars
  <2>1. UNCHANGED <<row, worker, cancelling, called, taken>>  BY <1>3 DEF vars
  <2>2. row \in [Dispatches -> Row] /\ cancelling \subseteq Loaded  BY DEF Inv, TypeOK
  <2> QED  BY <2>1, <2>2, RowStep
<1> QED  BY <1>1, <1>2, <1>3 DEF Next

THEOREM Invariance == Spec => []Inv
BY InitInv, NextInv, PTL DEF Spec

-----------------------------------------------------------------------------
(* The properties *)

\* Every variable of the outbox stays in its domain: no dispatch is attempted
\* more than max_attempts times.
THEOREM OutboxTypeCorrect == Spec => []TypeOK
BY Invariance, PTL DEF Inv

\* A worker that comes back late leaves the row of a newer attempt alone: the
\* lease that _owned_processing_record asks for is the lease of its own attempt.
THEOREM NewerAttemptIsKept == Spec => NewerAttemptKept
<1> DEFINE Kept(w) ==
        worker[w].pc = "report" /\ worker[w].attempt # row[worker[w].item].attempts
            /\ worker'[w] # worker[w] => row'[worker[w].item] = row[worker[w].item]
<1>1. ASSUME Inv, [Next]_vars PROVE [\A w \in Workers : Kept(w)]_vars
  <2> SUFFICES ASSUME NEW w \in Workers, worker[w].pc = "report",
                      worker[w].attempt # row[worker[w].item].attempts,
                      worker'[w] # worker[w], Next
               PROVE  row'[worker[w].item] = row[worker[w].item]
    BY <1>1
  <2>1. DOMAIN worker = Workers  BY <1>1 DEF Inv, TypeOK
  <2>2. Holding(w) /\ LeaseOfAttempt(w)  BY <1>1 DEF Inv, Holding
  <2>3. ASSUME NEW v \in Workers, claim_next_operations_dispatch(v) PROVE FALSE
    <3>1. v # w  BY <2>3 DEF claim_next_operations_dispatch, Idle
    <3> QED  BY <2>1, <2>3, <3>1 DEF claim_next_operations_dispatch
  <2>4. ASSUME NEW v \in Workers, dispatch(v) PROVE FALSE
    <3>1. v # w  BY <2>4 DEF dispatch
    <3> QED  BY <2>1, <2>4, <3>1 DEF dispatch, CallAdapter, RefuseTenant, Returns
  <2>5. ASSUME NEW v \in Workers, Report(v) PROVE row' = row
    <3>1. v = w  BY <2>1, <2>5 DEF Report
    <3>2. ~Owned(w, row[worker[w].item])  BY <2>2 DEF Owned, LeaseOfAttempt
    <3> QED  BY <2>5, <3>1, <3>2 DEF Report
  <2>6. ASSUME NEW v \in Workers, Crash(v) PROVE row' = row  BY <2>6 DEF Crash
  <2>7. ASSUME NEW d \in Dispatches,
               \/ enqueue_operations_dispatch(d) \/ CancelLoads(d) \/ cancel_operations_dispatch(d)
               \/ LeaseExpires(d) \/ RetryFallsDue(d)
        PROVE  FALSE
    BY <2>7 DEF enqueue_operations_dispatch, CancelLoads, cancel_operations_dispatch,
                LeaseExpires, RetryFallsDue
  <2> QED  BY <2>3, <2>4, <2>5, <2>6, <2>7 DEF Next
<1>2. NewerAttemptKept <=> [][\A w \in Workers : Kept(w)]_vars  BY DEF NewerAttemptKept
<1> QED  BY <1>1, <1>2, Invariance, PTL DEF Spec

-----------------------------------------------------------------------------
(* The refinement *)

Abstract == <<[d \in Dispatches |-> row[d].attempts], called, taken,
              [d \in Dispatches |-> Outcome(row[d].status)]>>

LEMMA InitRefines == Init => Delivery!Init
<1> SUFFICES ASSUME Init PROVE Delivery!Init  OBVIOUS
<1>1. \A d \in Dispatches : row[d].attempts = 0 /\ Outcome(row[d].status) = "open"
  BY DEF Init, Absent, Outcome
<1> QED  BY <1>1 DEF Init, Delivery!Init

\* A step that counts no attempt, calls nobody and ends no row is no step.
LEMMA StutterRefines ==
    ASSUME \A d \in Dispatches : /\ row'[d].attempts = row[d].attempts
                                 /\ Outcome(row'[d].status) = Outcome(row[d].status),
           UNCHANGED <<called, taken>>
    PROVE  UNCHANGED Abstract
BY DEF Abstract

LEMMA ClaimRefines ==
    ASSUME Inv, NEW w \in Workers, claim_next_operations_dispatch(w)
    PROVE  Delivery!Next
<1> DEFINE dead == {e \in Dispatches : Outcome(Swept(row[e]).status) # Outcome(row[e].status)}
<1>1. row \in [Dispatches -> Row] /\ TypeOK  BY DEF Inv, TypeOK
<1>2. \A e \in Dispatches :
        /\ Swept(row[e]) \in Row /\ Swept(row[e]).attempts = row[e].attempts
        /\ e \in dead => /\ Outcome(row[e].status) = "open" /\ row[e].attempts = MaxAttempts
                         /\ Outcome(Swept(row[e]).status) = "dead"
        /\ e \notin dead => Outcome(Swept(row[e]).status) = Outcome(row[e].status)
  BY <1>1, SweptRow
<1> HIDE DEF dead
<1>3. dead \in SUBSET Dispatches  BY DEF dead
<1>4. UNCHANGED <<called, taken>>  BY DEF claim_next_operations_dispatch
<1>5. CASE row' = [e \in Dispatches |-> Swept(row[e])]
  <2>1. Delivery!Turn(dead, {})  BY <1>2, <1>3, <1>4, <1>5 DEF Delivery!Turn
  <2> QED  BY <1>3, <2>1 DEF Delivery!Next
<1>6. ASSUME NEW d \in Dispatches, Claimable(Swept(row[d])),
             row' = [e \in Dispatches |-> IF e = d THEN ClaimedBy(w, Swept(row[e]))
                                          ELSE Swept(row[e])]
      PROVE  Delivery!Next
  <2>1. /\ row'[d] = ClaimedBy(w, Swept(row[d]))
        /\ \A e \in Dispatches : e # d => row'[e] = Swept(row[e])
    BY <1>6
  <2>2. /\ row'[d].attempts = row[d].attempts + 1 /\ row[d].attempts < MaxAttempts
        /\ Outcome(Swept(row[d]).status) = "open" /\ Outcome(row'[d].status) = "open"
    BY <1>2, <1>6, <2>1, ClaimedRow
  <2>3. d \notin dead /\ Outcome(row[d].status) = "open"  BY <1>2, <2>2
  <2>4. Delivery!Turn(dead, {d})
    BY <1>2, <1>3, <1>4, <2>1, <2>2, <2>3 DEF Delivery!Turn
  <2>5. {d} \in SUBSET Dispatches  OBVIOUS
  <2> QED  BY <1>3, <2>4, <2>5 DEF Delivery!Next
<1> QED  BY <1>5, <1>6 DEF claim_next_operations_dispatch

LEMMA DispatchRefines ==
    ASSUME Inv, NEW w \in Workers, dispatch(w)
    PROVE  Delivery!Next \/ UNCHANGED Abstract
<1> DEFINE d == worker[w].item
<1> DEFINE k == worker[w].attempt
<1>1. Holding(w) /\ worker[w].pc = "call" /\ TypeOK  BY DEF dispatch, Holding, Inv
<1>2. d \in Dispatches /\ k \in 1..MaxAttempts  BY <1>1, HoldingType
<1>3. k <= row[d].attempts /\ k \notin called[d]
  BY <1>1 DEF Inv, AttemptCounted, CallRecorded
<1>4. row[d].attempts \in Nat  BY <1>1, <1>2, OutboxAssumption DEF TypeOK, Row
<1>5. CASE d \in Tenanted
  <2>1. /\ called' = [called EXCEPT ![d] = called[d] \cup {k}]
        /\ taken' \in {taken, taken \cup {d}} /\ row' = row
    BY <1>5 DEF dispatch, CallAdapter
  <2>2. Delivery!Call(d, k)  BY <1>2, <1>3, <1>4, <1>5, <2>1 DEF Delivery!Call
  <2> QED  BY <1>2, <2>2 DEF Delivery!Next
<1>6. CASE d \notin Tenanted
  <2>1. UNCHANGED <<row, called, taken>>  BY <1>6 DEF dispatch, RefuseTenant
  <2> QED  BY <2>1, StutterRefines
<1> QED  BY <1>5, <1>6

LEMMA ReportRefines ==
    ASSUME Inv, NEW w \in Workers, Report(w)
    PROVE  Delivery!Next \/ UNCHANGED Abstract
<1> DEFINE d == worker[w].item
<1> DEFINE r == worker[w].result
<1>1. /\ Holding(w) /\ worker[w].pc = "report" /\ TypeOK
      /\ UNCHANGED <<called, taken>> /\ row \in [Dispatches -> Row]
  BY DEF Report, Holding, Inv, TypeOK
<1>2. d \in Dispatches /\ (called[d] # {} \/ d \notin Tenanted) /\ r \in Results /\ (r = "success" => d \in taken)
  BY <1>1, HoldingType DEF Inv, CallRecorded
<1>3. CASE ~Owned(w, row[d])
  <2>1. row' = row  BY <1>3 DEF Report
  <2> QED  BY <1>1, <2>1, StutterRefines
<1>4. CASE Owned(w, row[d])
  <2>1. row' = [row EXCEPT ![d] = Finalized(row[d], r)]  BY <1>4 DEF Report
  <2>2. Outcome(row[d].status) = "open"  BY <1>4 DEF Owned, Outcome
  <2>3. /\ row'[d].attempts = row[d].attempts
        /\ \/ row'[d].status = "dispatched" /\ r = "success"
           \/ row'[d].status = "dead_letter" /\ row[d].attempts = MaxAttempts
           \/ row'[d].status = "retryable"
           \/ row'[d].status = "failed"
    BY <1>1, <1>2, <2>1, FinalizedRow
  <2>4. \A e \in Dispatches : /\ row'[e].attempts = row[e].attempts
                              /\ e # d => row'[e] = row[e]
    BY <1>1, <2>1, <2>3
  <2>5. CASE row'[d].status = "dispatched" /\ r = "success"
    <3>1. Outcome(row'[d].status) = "done"  BY <2>5 DEF Outcome
    <3>2. Delivery!Conclude(d, "done")
      BY <1>1, <1>2, <2>2, <2>4, <2>5, <3>1 DEF Delivery!Conclude
    <3> QED  BY <1>2, <3>2 DEF Delivery!Next, Delivery!Outcomes
  <2>6. CASE row'[d].status = "failed"
    <3>1. Outcome(row'[d].status) = "refused"  BY <2>6 DEF Outcome
    <3>2. Delivery!Conclude(d, "refused")
      BY <1>1, <1>2, <2>2, <2>4, <3>1 DEF Delivery!Conclude
    <3> QED  BY <1>2, <3>2 DEF Delivery!Next, Delivery!Outcomes
  <2>7. CASE row'[d].status = "dead_letter" /\ row[d].attempts = MaxAttempts
    <3>1. Outcome(row'[d].status) = "dead"  BY <2>7 DEF Outcome
    <3>2. Delivery!Turn({d}, {})
      BY <1>1, <1>2, <2>2, <2>4, <2>7, <3>1 DEF Delivery!Turn
    <3>3. {d} \in SUBSET Dispatches /\ {} \in SUBSET Dispatches  BY <1>2
    <3> QED  BY <3>2, <3>3 DEF Delivery!Next
  <2>8. CASE row'[d].status = "retryable"
    <3>1. Outcome(row'[d].status) = "open"  BY <2>8 DEF Outcome
    <3> QED  BY <1>1, <2>2, <2>4, <3>1, StutterRefines
  <2> QED  BY <2>3, <2>5, <2>6, <2>7, <2>8
<1> QED  BY <1>3, <1>4

LEMMA RowRefines ==
    ASSUME Inv, NEW d \in Dispatches,
           \/ enqueue_operations_dispatch(d) \/ CancelLoads(d) \/ cancel_operations_dispatch(d)
           \/ LeaseExpires(d) \/ RetryFallsDue(d)
    PROVE  Delivery!Next \/ UNCHANGED Abstract
<1>1. row \in [Dispatches -> Row]  BY DEF Inv, TypeOK
<1>2. UNCHANGED <<called, taken>>
  BY DEF enqueue_operations_dispatch, CancelLoads, cancel_operations_dispatch,
         LeaseExpires, RetryFallsDue
<1>3. CASE enqueue_operations_dispatch(d)
  <2>1. /\ row[d].status = "absent"
        /\ row' = [row EXCEPT ![d] = [row[d] EXCEPT !.status = "pending"]]
    BY <1>3 DEF enqueue_operations_dispatch
  <2>2. \A e \in Dispatches : row'[e].attempts = row[e].attempts /\ (e # d => row'[e] = row[e])
    BY <1>1, <2>1 DEF Row
  <2>3. Outcome(row'[d].status) = "open" /\ Outcome(row[d].status) = "open"
    BY <1>1, <2>1 DEF Row, Outcome
  <2> QED  BY <1>2, <2>2, <2>3, StutterRefines
<1>4. CASE cancel_operations_dispatch(d)
  <2> SUFFICES ASSUME row' # row PROVE Delivery!Next
    BY <1>2, StutterRefines
  <2>1. row' = [row EXCEPT ![d] = Settled(row[d], "cancelled")]
    <3>1. PICK c \in cancelling : row' = [row EXCEPT ![d] = Cancelled(row[d], c)]
      BY <1>4 DEF cancel_operations_dispatch
    <3>2. Cancelled(row[d], c) = row[d] \/ Cancelled(row[d], c) = Settled(row[d], "cancelled")
      BY DEF Cancelled
    <3> QED  BY <1>1, <3>1, <3>2
  <2>2. "cancelled" \in Statuses  BY DEF Statuses
  <2>3. row'[d].attempts = row[d].attempts /\ row'[d].status = "cancelled"
    BY <1>1, <2>1, <2>2, SettledRow
  <2>4. \A e \in Dispatches : row'[e].attempts = row[e].attempts /\ (e # d => row'[e] = row[e])
    BY <1>1, <2>1, <2>3
  <2>5. Outcome(row'[d].status) = "withdrawn"  BY <2>3 DEF Outcome
  <2>6. Delivery!Conclude(d, "withdrawn")  BY <1>2, <2>4, <2>5 DEF Delivery!Conclude
  <2> QED  BY <2>6 DEF Delivery!Next, Delivery!Outcomes
<1>5. CASE CancelLoads(d)
  <2>1. row' = row  BY <1>5 DEF CancelLoads
  <2> QED  BY <1>2, <2>1, StutterRefines
<1>6. CASE LeaseExpires(d) \/ RetryFallsDue(d)
  <2>1. \A e \in Dispatches : row'[e].attempts = row[e].attempts /\ row'[e].status = row[e].status
    BY <1>1, <1>6 DEF LeaseExpires, RetryFallsDue, Row
  <2> QED  BY <1>2, <2>1, StutterRefines
<1> QED  BY <1>3, <1>4, <1>5, <1>6

\* The outbox with its workers, leases, crashes and late reports implements
\* bounded delivery: at most max_attempts calls of the provider for a dispatch,
\* one for each attempt, and none for one without a tenant; dispatched only if
\* the provider took it; failed only after a call or for want of a tenant;
\* dead_letter only after the last attempt; and no outcome changes but by a
\* cancellation.
THEOREM ImplementsBoundedDelivery == Spec => DeliversBounded
<1>1. ASSUME Inv, [Next]_vars PROVE Delivery!Next \/ UNCHANGED Abstract
  <2>1. ASSUME NEW w \in Workers, Crash(w) PROVE UNCHANGED Abstract
    <3>1. UNCHANGED <<row, called, taken>>  BY <2>1 DEF Crash
    <3> QED  BY <3>1, StutterRefines
  <2>2. CASE UNCHANGED vars
    <3>1. UNCHANGED <<row, called, taken>>  BY <2>2 DEF vars
    <3> QED  BY <3>1, StutterRefines
  <2> QED  BY <1>1, <2>1, <2>2, ClaimRefines, DispatchRefines, ReportRefines, RowRefines DEF Next
<1>2. Inv /\ [Next]_vars => [Delivery!Next]_Abstract  BY <1>1
<1>3. DeliversBounded <=> Delivery!Init /\ [][Delivery!Next]_Abstract
  BY DEF DeliversBounded, Delivery!Spec, Abstract
<1> QED  BY <1>2, <1>3, InitRefines, Invariance, PTL DEF Spec

=============================================================================
