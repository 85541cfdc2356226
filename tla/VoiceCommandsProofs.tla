------------------------ MODULE VoiceCommandsProofs ------------------------
(***************************************************************************)
(* Proofs about VoiceCommands, for any commands, any finite set of workers *)
(* and any bounds: its types, that every provider call is paid for by an   *)
(* attempt, and who may open a command that has ended.                     *)
(***************************************************************************)
EXTENDS VoiceCommands, FiniteSetTheorems, TLAPS

-----------------------------------------------------------------------------
(* The inductive invariant *)

Outcome == {"await", "retry"} \cup Settled

\* What a worker holds at each place of its loop.
WorkerShape(w) ==
    /\ pc[w] \in {"call", "write", "recover", "rewrite"} => cur[w] \in Commands
    /\ pc[w] = "call" => cur[w] \notin batch[w]
    /\ pc[w] \in {"write", "rewrite"} => result[w] \in Outcome
    /\ pc[w] = "project" => evt[w] \in Events

\* An event is processed again only by a delivery, or by a claim that looks at
\* the maximum.
EventShape(e) == inbox[e].attempts <= MaxAttempts + inbox[e].deliveries

\* A command that was not given yet has no attempts.
RowShape(c) == row[c].status = "absent" => row[c].attempts = 0

Shape ==
    /\ \A w \in Workers : WorkerShape(w)
    /\ \A e \in Events : EventShape(e)
    /\ \A c \in Commands : RowShape(c)

\* The workers that may still give the command to the provider on a claim that
\* is already counted.
Armed(c) == {w \in Workers : c \in batch[w] \/ (cur[w] = c /\ pc[w] = "call")}

Paid == \A c \in Commands : executed[c] + Cardinality(Armed(c)) <= row[c].attempts

Inv == TypeOK /\ Shape /\ Paid

\* What a write to a row q, found as r, leaves of it.
Carries(r, q) ==
    /\ q \in Row /\ q.attempts = r.attempts
    /\ q.status = "absent" => r.status = "absent"

RowsCarried == row' \in [Commands -> Row] /\ \A c \in Commands : Carries(row[c], row'[c])

\* A step that neither calls the provider nor counts an attempt.
Quiet ==
    /\ executed' = executed
    /\ \A c \in Commands : row'[c].attempts = row[c].attempts /\ Armed(c)' \subseteq Armed(c)

\* A step of w leaves the other workers where they are.
OthersKept(w) ==
    \A v \in Workers \ {w} : /\ pc'[v] = pc[v] /\ batch'[v] = batch[v] /\ cur'[v] = cur[v]
                             /\ evt'[v] = evt[v] /\ result'[v] = result[v]

\* w is not given a command to execute.
ArmsNothing(w) ==
    \A c \in Commands :
        c \in batch'[w] \/ (cur'[w] = c /\ pc'[w] = "call") =>
            c \in batch[w] \/ (cur[w] = c /\ pc[w] = "call")

-----------------------------------------------------------------------------
(* Rows and events *)

LEMMA EmptyRow == NoRow \in Row
BY VoiceAssumption DEF NoRow, Row, Lease

LEMMA FinishRow ==
    ASSUME NEW r \in Row, NEW s \in Settled
    PROVE  Carries(r, finish(r, s)) /\ finish(r, s).status = s
BY DEF finish, Row, Settled, Lease, Carries

LEMMA RetryRow ==
    ASSUME NEW r \in Row
    PROVE  Carries(r, retry(r))
BY DEF retry, Row, Lease, Carries

LEMMA AwaitRow ==
    ASSUME NEW r \in Row
    PROVE  Carries(r, await_provider_event(r))
BY DEF await_provider_event, Row, Lease, Carries

LEMMA WrittenRow ==
    ASSUME NEW r \in Row, NEW o \in Outcome
    PROVE  Carries(r, Written(r, o))
<1>1. CASE o = "await"  BY <1>1, AwaitRow DEF Written
<1>2. CASE o = "retry"  BY <1>2, RetryRow DEF Written
<1>3. CASE o \in Settled
  <2>1. o # "await" /\ o # "retry"  BY <1>3 DEF Settled
  <2> QED  BY <1>3, <2>1, FinishRow DEF Written
<1> QED  BY <1>1, <1>2, <1>3 DEF Outcome

LEMMA ResolvedRow ==
    ASSUME NEW r \in Row, NEW ok \in BOOLEAN
    PROVE  /\ Carries(r, resolve_voice_command(r, ok))
           /\ r.status \in Settled => resolve_voice_command(r, ok) = r
<1>1. {"succeeded", "failed"} \subseteq Settled  BY DEF Settled
<1>2. CASE r.status \in Settled  BY <1>2 DEF resolve_voice_command, Carries
<1>3. CASE r.status \notin Settled /\ ok
  BY <1>1, <1>3, FinishRow DEF resolve_voice_command
<1>4. CASE r.status \notin Settled /\ ~ok
  BY <1>1, <1>4, FinishRow DEF resolve_voice_command
<1> QED  BY <1>2, <1>3, <1>4

LEMMA ClaimedRow ==
    ASSUME NEW r \in Row, r.attempts < MaxAttempts
    PROVE  Claimed(r) \in Row /\ Claimed(r).attempts = r.attempts + 1
<1> USE VoiceAssumption
<1>1. r.attempts + 1 \in 0..MaxAttempts  BY DEF Row
<1> QED  BY <1>1 DEF Claimed, Row, Lease

LEMMA StartedEvent ==
    ASSUME NEW e \in Event, e.attempts + 1 \in 0..(MaxAttempts + MaxDeliveries)
    PROVE  /\ start_processing(e) \in Event
           /\ start_processing(e).attempts = e.attempts + 1
           /\ start_processing(e).deliveries = e.deliveries
BY DEF start_processing, Event, Lease

Delivered(e, ok, n) == [e EXCEPT !.deliveries = n, !.ok = ok]

LEMMA DeliveredEvent ==
    ASSUME NEW e \in Event, NEW ok \in BOOLEAN, NEW n \in 0..MaxDeliveries
    PROVE  /\ Delivered(e, ok, n) \in Event
           /\ Delivered(e, ok, n).attempts = e.attempts
           /\ Delivered(e, ok, n).deliveries = n
BY DEF Event, Delivered

LEMMA CompletedEvent ==
    ASSUME NEW e \in Event, NEW s \in {"processed", "dead_letter"}
    PROVE  /\ complete(e, s) \in Event
           /\ complete(e, s).attempts = e.attempts
           /\ complete(e, s).deliveries = e.deliveries
BY DEF complete, Event, Lease

LEMMA RetriedEvent ==
    ASSUME NEW e \in Event, NEW n \in Nat
    PROVE  /\ retry_event(e, n) \in Event
           /\ retry_event(e, n).attempts = e.attempts
           /\ retry_event(e, n).deliveries = e.deliveries
<1>1. CASE n >= MaxAttempts  BY <1>1, CompletedEvent DEF retry_event
<1>2. CASE ~(n >= MaxAttempts)  BY <1>2 DEF retry_event, Event, Lease
<1> QED  BY <1>1, <1>2

LEMMA EventFacts ==
    ASSUME NEW e \in Events
    PROVE  e[1] \in Commands
BY VoiceAssumption DEF Events

-----------------------------------------------------------------------------
(* Types and shape are inductive *)

LEMMA InitTyped == Init => TypeOK /\ Shape
<1> SUFFICES ASSUME Init PROVE TypeOK /\ Shape  OBVIOUS
<1> USE VoiceAssumption
<1>1. NoRow \in Row  BY EmptyRow
<1>2. NoEvent \in Event  BY DEF NoEvent, Event, Lease
<1>3. TypeOK
  <2>1. row \in [Commands -> Row] /\ inbox \in [Events -> Event]  BY <1>1, <1>2 DEF Init
  <2>2. executed \in [Commands -> Nat] /\ faults \in 0..MaxFaults  BY DEF Init
  <2>7. closed \in BOOLEAN  BY DEF Init
  <2>3. /\ pc \in [Workers -> {"idle", "claim", "batch", "call", "write", "recover",
                             "rewrite", "events", "project"}]
        /\ result \in [Workers -> {"none", "await", "retry"} \cup Settled]
    BY DEF Init
  <2>4. batch \in [Workers -> SUBSET Commands] /\ cur \in [Workers -> {0} \cup Commands]
    BY DEF Init
  <2>5. seen \in [Workers -> 0..(MaxAttempts + MaxDeliveries)]  BY DEF Init
  <2>6. replay \in [Workers -> SUBSET Events] /\ evt \in [Workers -> {NoEvt} \cup Events]
    BY DEF Init
  <2> QED  BY <2>1, <2>2, <2>3, <2>4, <2>5, <2>6, <2>7 DEF TypeOK
<1>4. \A e \in Events : EventShape(e)  BY DEF Init, EventShape, NoEvent
<1>5. \A w \in Workers : WorkerShape(w)  BY DEF Init, WorkerShape
<1>6. \A c \in Commands : RowShape(c)  BY DEF Init, RowShape, NoRow
<1> QED  BY <1>3, <1>4, <1>5, <1>6 DEF Shape

LEMMA RowsCarriedShape ==
    ASSUME TypeOK, Shape, RowsCarried
    PROVE  \A c \in Commands : RowShape(c)' /\ row'[c].attempts = row[c].attempts
BY DEF RowsCarried, Carries, Shape, RowShape

\* A step of the tables leaves the workers as they are.
LEMMA TablesTyped ==
    ASSUME TypeOK, Shape, UNCHANGED workers, faults' \in 0..MaxFaults, closed' \in BOOLEAN,
           RowsCarried, inbox' \in [Events -> Event],
           executed' = executed, \A e \in Events : EventShape(e)'
    PROVE  TypeOK' /\ Shape' /\ Quiet
<1>1. TypeOK'  BY DEF TypeOK, workers, RowsCarried
<1>2. \A w \in Workers : WorkerShape(w)'  BY DEF Shape, WorkerShape, workers
<1>3. \A c \in Commands : Armed(c)' \subseteq Armed(c)  BY DEF Armed, workers
<1> QED  BY <1>1, <1>2, <1>3, RowsCarriedShape DEF Shape, Quiet

LEMMA RowsUnchanged ==
    ASSUME TypeOK, UNCHANGED row
    PROVE  RowsCarried
BY DEF TypeOK, RowsCarried, Carries

LEMMA EventsKept ==
    ASSUME Shape, UNCHANGED inbox
    PROVE  \A e \in Events : EventShape(e)'
BY DEF Shape, EventShape

LEMMA EnqueueKeeps ==
    ASSUME TypeOK, Shape, NEW c \in Commands,
           enqueue_voice_command(c) \/ LeaseExpires(c) \/ BackoffElapses(c)
    PROVE  TypeOK' /\ Shape' /\ Quiet
<1>1. row[c] \in Row /\ row \in [Commands -> Row]  BY DEF TypeOK
<1>2. PICK q \in Row : row' = [row EXCEPT ![c] = q] /\ Carries(row[c], q)
  <2>1. CASE enqueue_voice_command(c)
    <3>1. [NoRow EXCEPT !.status = "requested"] \in Row  BY EmptyRow DEF Row
    <3>2. row[c].attempts = 0  BY <2>1 DEF enqueue_voice_command, Shape, RowShape
    <3>3. Carries(row[c], [NoRow EXCEPT !.status = "requested"])
      BY <3>1, <3>2 DEF Carries, NoRow
    <3> QED  BY <2>1, <3>1, <3>3 DEF enqueue_voice_command
  <2>2. CASE LeaseExpires(c)
    <3>1. Carries(row[c], [row[c] EXCEPT !.lease = "expired"])  BY <1>1 DEF Row, Lease, Carries
    <3>2. row' = [row EXCEPT ![c] = [row[c] EXCEPT !.lease = "expired"]]
      BY <2>2, <1>1 DEF LeaseExpires
    <3> QED  BY <3>1, <3>2 DEF Carries
  <2>3. CASE BackoffElapses(c)
    <3>1. Carries(row[c], [row[c] EXCEPT !.due = TRUE])  BY <1>1 DEF Row, Lease, Carries
    <3>2. row' = [row EXCEPT ![c] = [row[c] EXCEPT !.due = TRUE]]
      BY <2>3, <1>1 DEF BackoffElapses
    <3> QED  BY <3>1, <3>2 DEF Carries
  <2> QED  BY <2>1, <2>2, <2>3
<1>3. RowsCarried  BY <1>1, <1>2 DEF RowsCarried, Carries
<1>4. UNCHANGED <<closed, inbox, executed, workers, faults>>
  BY DEF enqueue_voice_command, LeaseExpires, BackoffElapses
<1> QED  BY <1>3, <1>4, TablesTyped, EventsKept DEF TypeOK

LEMMA CloseKeeps ==
    ASSUME TypeOK, Shape, CloseSession
    PROVE  TypeOK' /\ Shape' /\ Quiet
BY TablesTyped, EventsKept, RowsUnchanged DEF TypeOK, CloseSession

LEMMA InboxTimeKeeps ==
    ASSUME TypeOK, Shape, NEW e \in Events, EventLeaseExpires(e) \/ EventBackoffElapses(e)
    PROVE  TypeOK' /\ Shape' /\ Quiet
<1>1. inbox[e] \in Event /\ inbox \in [Events -> Event]  BY DEF TypeOK
<1>2. /\ inbox' \in [Events -> Event]
      /\ \A d \in Events : /\ inbox'[d].attempts = inbox[d].attempts
                           /\ inbox'[d].deliveries = inbox[d].deliveries
  <2>1. CASE EventLeaseExpires(e)  BY <1>1, <2>1 DEF EventLeaseExpires, Event, Lease
  <2>2. CASE EventBackoffElapses(e)  BY <1>1, <2>2 DEF EventBackoffElapses, Event, Lease
  <2> QED  BY <2>1, <2>2
<1>3. \A d \in Events : EventShape(d)'  BY <1>2 DEF Shape, EventShape
<1>4. UNCHANGED <<row, closed, executed, workers, faults>>
  BY DEF EventLeaseExpires, EventBackoffElapses
<1> QED  BY <1>2, <1>3, <1>4, TablesTyped, RowsUnchanged DEF TypeOK

LEMMA DeliveryKeeps ==
    ASSUME TypeOK, Shape, NEW e \in Events, process_controller_event(e)
    PROVE  TypeOK' /\ Shape' /\ Quiet
<1> USE VoiceAssumption
<1>1. /\ inbox \in [Events -> Event] /\ row \in [Commands -> Row]
      /\ inbox[e] \in Event /\ e[1] \in Commands /\ row[e[1]] \in Row
  BY EventFacts DEF TypeOK
<1>2. inbox[e].deliveries < MaxDeliveries /\ EventShape(e)
  BY DEF process_controller_event, Shape
<1>3. inbox[e].attempts + 1 \in 0..(MaxAttempts + MaxDeliveries)
  BY <1>1, <1>2 DEF EventShape, Event
<1> DEFINE started(ok) == [start_processing(inbox[e]) EXCEPT !.deliveries = @ + 1, !.ok = ok]
<1>4. PICK ok \in BOOLEAN :
        \/ /\ inbox' = [inbox EXCEPT ![e] = complete(started(ok), "processed")]
           /\ row' = [row EXCEPT ![e[1]] = resolve_voice_command(@, ok)]
           /\ UNCHANGED faults
        \/ /\ faults < MaxFaults
           /\ inbox' = [inbox EXCEPT ![e] = retry_event(started(ok), started(ok).attempts)]
           /\ faults' = faults + 1
           /\ UNCHANGED row
  BY Zenon DEF process_controller_event
<1> DEFINE s == start_processing(inbox[e])
           t == started(ok)
<1>5. s \in Event /\ s.attempts = inbox[e].attempts + 1 /\ s.deliveries = inbox[e].deliveries
  BY <1>1, <1>3, StartedEvent
<1>6. t = [s EXCEPT !.deliveries = @ + 1, !.ok = ok]  OBVIOUS
<1> HIDE DEF s, t
<1>7. t \in Event /\ t.attempts = s.attempts /\ t.deliveries = s.deliveries + 1
  <2>1. s.deliveries + 1 \in 0..MaxDeliveries  BY <1>1, <1>2, <1>5 DEF Event
  <2>2. t = [s EXCEPT !.deliveries = s.deliveries + 1, !.ok = ok]  BY <1>6
  <2> DEFINE n == s.deliveries + 1
  <2>3. s \in Event /\ n \in 0..MaxDeliveries  BY <1>5, <2>1
  <2> HIDE DEF n
  <2>4. /\ Delivered(s, ok, n) \in Event
        /\ Delivered(s, ok, n).attempts = s.attempts
        /\ Delivered(s, ok, n).deliveries = n
    BY <2>3, DeliveredEvent, Zenon
  <2>5. t = Delivered(s, ok, n)  BY <2>2 DEF n, Delivered
  <2> QED  BY <2>4, <2>5, Zenon DEF n
<1>8. t.attempts \in Nat  BY <1>7 DEF Event
<1>9. PICK n \in Event : /\ inbox' = [inbox EXCEPT ![e] = n]
                         /\ n.attempts = t.attempts /\ n.deliveries = t.deliveries
  BY <1>4, <1>7, <1>8, CompletedEvent, RetriedEvent DEF t
<1>10. inbox' \in [Events -> Event]  BY <1>1, <1>9
<1>11. \A d \in Events : EventShape(d)'
  <2> TAKE d \in Events
  <2>1. CASE d = e
    <3>1. inbox'[d] = n  BY <1>1, <1>9, <2>1
    <3>2. inbox[e].attempts \in Nat /\ inbox[e].deliveries \in Nat  BY <1>1 DEF Event
    <3> QED  BY <1>2, <1>5, <1>7, <1>9, <3>1, <3>2 DEF EventShape
  <2>2. CASE d # e
    <3>1. inbox'[d] = inbox[d]  BY <1>1, <1>9, <2>2
    <3> QED  BY <3>1 DEF Shape, EventShape
  <2> QED  BY <2>1, <2>2
<1>12. RowsCarried
  <2>1. CASE UNCHANGED row  BY <2>1, RowsUnchanged
  <2>2. CASE row' = [row EXCEPT ![e[1]] = resolve_voice_command(@, ok)]
    <3>1. Carries(row[e[1]], resolve_voice_command(row[e[1]], ok))  BY <1>1, ResolvedRow, Zenon
    <3> DEFINE q == resolve_voice_command(row[e[1]], ok)
    <3>2. row' = [row EXCEPT ![e[1]] = q]  BY <2>2
    <3> HIDE DEF q
    <3>3. Carries(row[e[1]], q)  BY <3>1 DEF q
    <3> QED  BY <1>1, <3>2, <3>3 DEF RowsCarried, Carries
  <2> QED  BY <1>4, <2>1, <2>2
<1>13. faults' \in 0..MaxFaults  BY <1>4 DEF TypeOK
<1>14. UNCHANGED <<closed, executed, workers>>  BY DEF process_controller_event
<1> QED  BY <1>10, <1>11, <1>12, <1>13, <1>14, TablesTyped DEF TypeOK

-----------------------------------------------------------------------------
(* The steps of a worker *)

Places == {"idle", "claim", "batch", "call", "write", "recover", "rewrite", "events", "project"}

LEMMA ForgetTyped ==
    ASSUME TypeOK, NEW w \in Workers, Forget(w)
    PROVE  /\ cur' \in [Workers -> {0} \cup Commands]
           /\ evt' \in [Workers -> {NoEvt} \cup Events]
           /\ seen' \in [Workers -> 0..(MaxAttempts + MaxDeliveries)]
           /\ result' \in [Workers -> {"none", "await", "retry"} \cup Settled]
           /\ cur'[w] = 0
           /\ \A v \in Workers \ {w} : /\ cur'[v] = cur[v] /\ evt'[v] = evt[v]
                                       /\ result'[v] = result[v]
<1> USE VoiceAssumption DEF Forget
<1>1. cur' \in [Workers -> {0} \cup Commands]  BY DEF TypeOK
<1>2. evt' \in [Workers -> {NoEvt} \cup Events]  BY DEF TypeOK
<1>3. seen' \in [Workers -> 0..(MaxAttempts + MaxDeliveries)]  BY DEF TypeOK
<1>4. result' \in [Workers -> {"none", "await", "retry"} \cup Settled]  BY DEF TypeOK
<1>5. cur'[w] = 0  BY DEF TypeOK
<1>6. \A v \in Workers \ {w} : cur'[v] = cur[v] /\ evt'[v] = evt[v] /\ result'[v] = result[v]
  BY DEF TypeOK
<1> QED  BY <1>1, <1>2, <1>3, <1>4, <1>5, <1>6

LEMMA WorkersShape ==
    ASSUME TypeOK, Shape, NEW w \in Workers, OthersKept(w), WorkerShape(w)'
    PROVE  \A v \in Workers : WorkerShape(v)'
<1> TAKE v \in Workers
<1>1. CASE v = w  BY <1>1
<1>2. CASE v # w
  <2>1. WorkerShape(v) /\ v \in Workers \ {w}  BY <1>2 DEF Shape
  <2> QED  BY <2>1 DEF OthersKept, WorkerShape
<1> QED  BY <1>1, <1>2

LEMMA ArmedKept ==
    ASSUME NEW w \in Workers, OthersKept(w), ArmsNothing(w), NEW c \in Commands
    PROVE  Armed(c)' \subseteq Armed(c)
<1> SUFFICES ASSUME NEW v \in Workers, c \in batch'[v] \/ (cur'[v] = c /\ pc'[v] = "call")
             PROVE  c \in batch[v] \/ (cur[v] = c /\ pc[v] = "call")
  BY DEF Armed
<1>1. CASE v = w  BY <1>1 DEF ArmsNothing
<1>2. CASE v # w  BY <1>2 DEF OthersKept
<1> QED  BY <1>1, <1>2

\* What has to be shown of a step of w that is quiet.
LEMMA WorkerKeeps ==
    ASSUME TypeOK, Shape, NEW w \in Workers, TypeOK', OthersKept(w), WorkerShape(w)',
           ArmsNothing(w), executed' = executed, RowsCarried,
           \A e \in Events : EventShape(e)'
    PROVE  TypeOK' /\ Shape' /\ Quiet
BY WorkersShape, ArmedKept, RowsCarriedShape DEF Shape, Quiet

LEMMA ExpireKeeps ==
    ASSUME TypeOK, Shape, NEW w \in Workers, expire_unconfirmed_commands(w)
    PROVE  TypeOK' /\ Shape' /\ Quiet
<1> USE DEF expire_unconfirmed_commands
<1>1. \A c \in Commands : row[c] \in Row /\ Carries(row[c], row[c])
                          /\ Carries(row[c], finish(row[c], "failed"))
  BY FinishRow DEF TypeOK, Carries, Settled
<1>2. \A c \in Commands : Carries(row[c], row'[c])  BY <1>1
<1>3. RowsCarried  BY <1>2 DEF RowsCarried, Carries
<1>4. TypeOK'  BY <1>3 DEF TypeOK, RowsCarried
<1>5. pc'[w] = "claim" /\ OthersKept(w)  BY DEF TypeOK, OthersKept
<1>6. WorkerShape(w)' /\ ArmsNothing(w)  BY <1>5 DEF WorkerShape, ArmsNothing
<1> QED  BY <1>3, <1>4, <1>5, <1>6, EventsKept, WorkerKeeps

LEMMA LoadCommandKeeps ==
    ASSUME TypeOK, Shape, NEW w \in Workers, LoadCommand(w)
    PROVE  TypeOK' /\ Shape' /\ Quiet
<1> USE VoiceAssumption
<1>1. UNCHANGED <<row, closed, inbox, executed, replay, evt, faults>> /\ pc[w] = "batch"
  BY DEF LoadCommand, rows
<1>2. PICK c \in batch[w] :
        /\ batch' = [batch EXCEPT ![w] = @ \ {c}]
        /\ \/ UNCHANGED <<pc, cur, seen, result>>
           \/ /\ cur' = [cur EXCEPT ![w] = c]
              /\ seen' = [seen EXCEPT ![w] = row[c].attempts]
              /\ \/ /\ pc' = [pc EXCEPT ![w] = "write"]
                    /\ result' = [result EXCEPT ![w] = "cancelled"]
                 \/ /\ pc' = [pc EXCEPT ![w] = "call"]
                    /\ UNCHANGED result
  BY Zenon DEF LoadCommand
<1>3. c \in Commands /\ row[c].attempts \in 0..(MaxAttempts + MaxDeliveries)
  BY DEF TypeOK, Row
<1>4. batch' \in [Workers -> SUBSET Commands] /\ batch'[w] = batch[w] \ {c}
  BY <1>2 DEF TypeOK
<1>5. /\ cur' \in [Workers -> {0} \cup Commands]
      /\ seen' \in [Workers -> 0..(MaxAttempts + MaxDeliveries)]
  BY <1>2, <1>3 DEF TypeOK
<1>6. /\ pc' \in [Workers -> Places]
      /\ result' \in [Workers -> {"none", "await", "retry"} \cup Settled]
  BY <1>2 DEF TypeOK, Places, Settled
<1>7. TypeOK'  BY <1>1, <1>4, <1>5, <1>6 DEF TypeOK, Places
<1>8. OthersKept(w)  BY <1>1, <1>2 DEF TypeOK, OthersKept
<1>9. WorkerShape(w)'
  <2>1. CASE UNCHANGED <<pc, cur, seen, result>>  BY <1>1, <2>1 DEF WorkerShape
  <2>2. CASE ~UNCHANGED <<pc, cur, seen, result>>
    BY <1>1, <1>2, <1>3, <1>4, <2>2 DEF WorkerShape, TypeOK, Outcome, Settled
  <2> QED  BY <2>1, <2>2
<1>10. ArmsNothing(w)  BY <1>1, <1>2, <1>3, <1>4 DEF ArmsNothing, TypeOK
<1> QED  BY <1>1, <1>7, <1>8, <1>9, <1>10, EventsKept, RowsUnchanged, WorkerKeeps

LEMMA WriteOutcomeKeeps ==
    ASSUME TypeOK, Shape, NEW w \in Workers, WriteOutcome(w)
    PROVE  TypeOK' /\ Shape' /\ Quiet
<1> USE DEF WriteOutcome
<1>1. cur[w] \in Commands /\ result[w] \in Outcome /\ row[cur[w]] \in Row
  BY DEF Shape, WorkerShape, TypeOK
<1> DEFINE q == Written(row[cur[w]], result[w])
<1>2. Carries(row[cur[w]], q)  BY <1>1, WrittenRow
<1>3. row' = [row EXCEPT ![cur[w]] = q]  OBVIOUS
<1> HIDE DEF q
<1>4. RowsCarried  BY <1>1, <1>2, <1>3 DEF RowsCarried, Carries, TypeOK
<1>5. pc' \in [Workers -> Places] /\ pc'[w] = "batch"  BY DEF TypeOK, Places
<1>6. TypeOK'  BY <1>4, <1>5, ForgetTyped DEF TypeOK, RowsCarried, Places
<1>7. OthersKept(w)  BY ForgetTyped DEF TypeOK, OthersKept
<1>8. WorkerShape(w)' /\ ArmsNothing(w)  BY <1>5 DEF WorkerShape, ArmsNothing
<1> QED  BY <1>4, <1>6, <1>7, <1>8, EventsKept, WorkerKeeps

LEMMA AttemptRaisesKeeps ==
    ASSUME TypeOK, Shape, NEW w \in Workers, AttemptRaises(w)
    PROVE  TypeOK' /\ Shape' /\ Quiet
<1> USE VoiceAssumption
<1>1. /\ UNCHANGED <<row, closed, inbox, executed, replay>>
      /\ faults' \in 0..MaxFaults /\ pc[w] \in {"call", "write", "rewrite"}
  BY DEF AttemptRaises, rows, TypeOK
<1>2. RowsCarried /\ \A e \in Events : EventShape(e)'  BY <1>1, RowsUnchanged, EventsKept
<1>3. CASE /\ pc' = [pc EXCEPT ![w] = "idle"]
           /\ batch' = [batch EXCEPT ![w] = {}]
           /\ Forget(w)
  <2>1. pc' \in [Workers -> Places] /\ pc'[w] = "idle"  BY <1>3 DEF TypeOK, Places
  <2>2. batch' \in [Workers -> SUBSET Commands] /\ batch'[w] = {}  BY <1>3 DEF TypeOK
  <2>3. TypeOK'  BY <1>1, <1>3, <2>1, <2>2, ForgetTyped DEF TypeOK, Places
  <2>4. OthersKept(w)  BY <1>3, ForgetTyped DEF TypeOK, OthersKept
  <2>5. WorkerShape(w)' /\ ArmsNothing(w)  BY <2>1, <2>2 DEF WorkerShape, ArmsNothing
  <2> QED  BY <1>1, <1>2, <2>3, <2>4, <2>5, WorkerKeeps
<1>4. CASE pc' = [pc EXCEPT ![w] = "recover"] /\ UNCHANGED <<batch, cur, evt, seen, result>>
  <2>1. pc' \in [Workers -> Places] /\ pc'[w] = "recover"  BY <1>4 DEF TypeOK, Places
  <2>2. TypeOK'  BY <1>1, <1>4, <2>1 DEF TypeOK, Places
  <2>3. OthersKept(w)  BY <1>4 DEF TypeOK, OthersKept
  <2>4. WorkerShape(w)' /\ ArmsNothing(w)
    BY <1>1, <1>4, <2>1 DEF Shape, WorkerShape, ArmsNothing
  <2> QED  BY <1>1, <1>2, <2>2, <2>3, <2>4, WorkerKeeps
<1> QED  BY <1>3, <1>4 DEF AttemptRaises

LEMMA RecoverKeeps ==
    ASSUME TypeOK, Shape, NEW w \in Workers, RecoverException(w)
    PROVE  TypeOK' /\ Shape' /\ Quiet
<1>1. UNCHANGED <<row, closed, inbox, executed, batch, replay, faults>> /\ pc[w] = "recover"
  BY DEF RecoverException, rows
<1>2. RowsCarried /\ \A e \in Events : EventShape(e)'  BY <1>1, RowsUnchanged, EventsKept
<1>3. CASE /\ pc' = [pc EXCEPT ![w] = "rewrite"]
           /\ result' = [result EXCEPT ![w] = "retry"]
           /\ UNCHANGED <<cur, evt, seen>>
  <2>1. pc' \in [Workers -> Places] /\ pc'[w] = "rewrite"  BY <1>3 DEF TypeOK, Places
  <2>2. /\ result' \in [Workers -> {"none", "await", "retry"} \cup Settled]
        /\ result'[w] = "retry"
    BY <1>3 DEF TypeOK
  <2>3. TypeOK'  BY <1>1, <1>3, <2>1, <2>2 DEF TypeOK, Places
  <2>4. OthersKept(w)  BY <1>1, <1>3 DEF TypeOK, OthersKept
  <2>5. WorkerShape(w)' /\ ArmsNothing(w)
    BY <1>1, <1>3, <2>1, <2>2 DEF Shape, WorkerShape, ArmsNothing, Outcome
  <2> QED  BY <1>1, <1>2, <2>3, <2>4, <2>5, WorkerKeeps
<1>4. CASE pc' = [pc EXCEPT ![w] = "batch"] /\ Forget(w)
  <2>1. pc' \in [Workers -> Places] /\ pc'[w] = "batch"  BY <1>4 DEF TypeOK, Places
  <2>2. TypeOK'  BY <1>1, <1>4, <2>1, ForgetTyped DEF TypeOK, Places
  <2>3. OthersKept(w)  BY <1>1, <1>4, ForgetTyped DEF TypeOK, OthersKept
  <2>4. WorkerShape(w)' /\ ArmsNothing(w)  BY <1>1, <2>1 DEF WorkerShape, ArmsNothing
  <2> QED  BY <1>1, <1>2, <2>2, <2>3, <2>4, WorkerKeeps
<1> QED  BY <1>3, <1>4 DEF RecoverException

LEMMA CrashKeeps ==
    ASSUME TypeOK, Shape, NEW w \in Workers, Crash(w)
    PROVE  TypeOK' /\ Shape' /\ Quiet
<1> USE VoiceAssumption
<1>1. UNCHANGED <<row, closed, inbox, executed>> /\ faults' \in 0..MaxFaults
  BY DEF Crash, rows, TypeOK
<1>2. RowsCarried /\ \A e \in Events : EventShape(e)'  BY <1>1, RowsUnchanged, EventsKept
<1>3. pc' \in [Workers -> Places] /\ pc'[w] = "idle"  BY DEF Crash, TypeOK, Places
<1>4. /\ batch' \in [Workers -> SUBSET Commands] /\ batch'[w] = {}
      /\ replay' \in [Workers -> SUBSET Events]
  BY DEF Crash, TypeOK
<1>5. TypeOK'  BY <1>1, <1>3, <1>4, ForgetTyped DEF Crash, TypeOK, Places
<1>6. OthersKept(w)  BY ForgetTyped DEF Crash, TypeOK, OthersKept
<1>7. WorkerShape(w)' /\ ArmsNothing(w)  BY <1>3, <1>4 DEF WorkerShape, ArmsNothing
<1> QED  BY <1>1, <1>2, <1>5, <1>6, <1>7, WorkerKeeps

LEMMA ClaimEventsKeeps ==
    ASSUME TypeOK, Shape, NEW w \in Workers, claim_due_events(w)
    PROVE  TypeOK' /\ Shape' /\ Quiet
<1> USE VoiceAssumption
<1>1. PICK T \in SUBSET DueEvents :
        /\ inbox' = [e \in Events |-> IF e \in T THEN start_processing(inbox[e]) ELSE inbox[e]]
        /\ replay' = [replay EXCEPT ![w] = T]
        /\ pc' = [pc EXCEPT ![w] = IF T = {} THEN "idle" ELSE "events"]
  BY DEF claim_due_events
<1>2. UNCHANGED <<row, closed, executed, batch, cur, evt, seen, result, faults>>
  BY DEF claim_due_events
<1>3. T \subseteq Events /\ \A e \in T : inbox[e].attempts < MaxAttempts  BY DEF DueEvents
<1>4. \A e \in Events : inbox'[e] \in Event /\ EventShape(e)'
  <2> TAKE e \in Events
  <2>1. inbox[e] \in Event /\ EventShape(e)  BY DEF TypeOK, Shape
  <2>2. CASE e \in T
    <3>1. inbox[e].attempts + 1 \in 0..(MaxAttempts + MaxDeliveries)
      BY <1>3, <2>1, <2>2 DEF Event
    <3>2. inbox'[e] = start_processing(inbox[e])  BY <1>1, <2>2
    <3>3. inbox[e].attempts + 1 <= MaxAttempts + inbox[e].deliveries
      BY <1>3, <2>1, <2>2 DEF Event
    <3> QED  BY <2>1, <3>1, <3>2, <3>3, StartedEvent DEF EventShape
  <2>3. CASE e \notin T  BY <1>1, <2>1, <2>3 DEF EventShape
  <2> QED  BY <2>2, <2>3
<1>5. inbox' \in [Events -> Event]  BY <1>1, <1>4
<1>6. /\ pc' \in [Workers -> Places] /\ pc'[w] \in {"idle", "events"}
      /\ replay' \in [Workers -> SUBSET Events]
  BY <1>1, <1>3 DEF TypeOK, Places
<1>7. TypeOK'  BY <1>2, <1>5, <1>6 DEF TypeOK, Places
<1>8. OthersKept(w)  BY <1>1, <1>2 DEF TypeOK, OthersKept
<1>9. WorkerShape(w)' /\ ArmsNothing(w)  BY <1>2, <1>6 DEF WorkerShape, ArmsNothing
<1> QED  BY <1>2, <1>4, <1>7, <1>8, <1>9, RowsUnchanged, WorkerKeeps

LEMMA LoadEventKeeps ==
    ASSUME TypeOK, Shape, NEW w \in Workers, LoadEvent(w)
    PROVE  TypeOK' /\ Shape' /\ Quiet
<1> USE VoiceAssumption
<1>1. UNCHANGED <<row, closed, inbox, executed, batch, cur, result, faults>>
  BY DEF LoadEvent, rows
<1>2. PICK e \in replay[w] :
        /\ replay' = [replay EXCEPT ![w] = @ \ {e}]
        /\ \/ /\ evt' = [evt EXCEPT ![w] = e]
              /\ seen' = [seen EXCEPT ![w] = inbox[e].attempts]
              /\ pc' = [pc EXCEPT ![w] = "project"]
           \/ /\ pc' = [pc EXCEPT ![w] = IF replay[w] = {e} THEN "idle" ELSE "events"]
              /\ UNCHANGED <<evt, seen>>
  BY Zenon DEF LoadEvent
<1>3. e \in Events /\ inbox[e].attempts \in 0..(MaxAttempts + MaxDeliveries)
  BY DEF TypeOK, Event
<1>4. /\ replay' \in [Workers -> SUBSET Events]
      /\ seen' \in [Workers -> 0..(MaxAttempts + MaxDeliveries)]
  BY <1>2, <1>3 DEF TypeOK
<1>5. evt' \in [Workers -> {NoEvt} \cup Events] /\ (pc'[w] = "project" => evt'[w] \in Events)
  BY <1>2, <1>3 DEF TypeOK
<1>6. pc' \in [Workers -> Places] /\ pc'[w] \in {"idle", "events", "project"}
  BY <1>2 DEF TypeOK, Places
<1>7. TypeOK'  BY <1>1, <1>4, <1>5, <1>6 DEF TypeOK, Places
<1>8. OthersKept(w)  BY <1>1, <1>2 DEF TypeOK, OthersKept
<1>9. WorkerShape(w)' /\ ArmsNothing(w)  BY <1>1, <1>5, <1>6 DEF WorkerShape, ArmsNothing
<1> QED  BY <1>1, <1>7, <1>8, <1>9, EventsKept, RowsUnchanged, WorkerKeeps

\* What is left to show of the two ways to end an event.
LEMMA AfterEventKeeps ==
    ASSUME TypeOK, Shape, NEW w \in Workers, AfterEvent(w), RowsCarried,
           inbox' \in [Events -> Event], faults' \in 0..MaxFaults,
           \A e \in Events : EventShape(e)'
    PROVE  TypeOK' /\ Shape' /\ Quiet
<1> USE DEF AfterEvent
<1>1. pc' \in [Workers -> Places] /\ pc'[w] \in {"idle", "events"}  BY DEF TypeOK, Places
<1>2. TypeOK'  BY <1>1, ForgetTyped DEF TypeOK, RowsCarried, Places
<1>3. OthersKept(w)  BY ForgetTyped DEF TypeOK, OthersKept
<1>4. WorkerShape(w)' /\ ArmsNothing(w)  BY <1>1 DEF WorkerShape, ArmsNothing
<1> QED  BY <1>2, <1>3, <1>4, WorkerKeeps

\* An event that keeps its attempts and deliveries keeps its shape.
LEMMA EventWritten ==
    ASSUME TypeOK, Shape, NEW e \in Events, NEW n \in Event,
           inbox' = [inbox EXCEPT ![e] = n],
           n.attempts = inbox[e].attempts, n.deliveries = inbox[e].deliveries
    PROVE  inbox' \in [Events -> Event] /\ \A d \in Events : EventShape(d)'
<1>1. inbox' \in [Events -> Event]  BY DEF TypeOK
<1>2. \A d \in Events : /\ inbox'[d].attempts = inbox[d].attempts
                        /\ inbox'[d].deliveries = inbox[d].deliveries
  BY DEF TypeOK
<1> QED  BY <1>1, <1>2 DEF Shape, EventShape

LEMMA ProjectEventKeeps ==
    ASSUME TypeOK, Shape, NEW w \in Workers, ProjectEvent(w)
    PROVE  TypeOK' /\ Shape' /\ Quiet
<1> DEFINE e == evt[w]
<1>1. e \in Events  BY DEF ProjectEvent, Shape, WorkerShape
<1>2. inbox[e] \in Event /\ e[1] \in Commands /\ row[e[1]] \in Row
  BY <1>1, EventFacts DEF TypeOK
<1>3. inbox[e].ok \in BOOLEAN  BY <1>2 DEF Event
<1> DEFINE n == complete(inbox[e], "processed")
           q == resolve_voice_command(row[e[1]], inbox[e].ok)
<1>4. n \in Event /\ n.attempts = inbox[e].attempts /\ n.deliveries = inbox[e].deliveries
  BY <1>2, CompletedEvent
<1>5. Carries(row[e[1]], q)  BY <1>2, <1>3, ResolvedRow, Zenon
<1>6. inbox' = [inbox EXCEPT ![e] = n] /\ row' = [row EXCEPT ![e[1]] = q]
  BY DEF ProjectEvent
<1> HIDE DEF e, n, q
<1>7. RowsCarried  BY <1>2, <1>5, <1>6 DEF RowsCarried, Carries, TypeOK
<1>8. inbox' \in [Events -> Event] /\ \A d \in Events : EventShape(d)'
  BY <1>1, <1>4, <1>6, EventWritten
<1>9. AfterEvent(w) /\ faults' \in 0..MaxFaults  BY DEF ProjectEvent, TypeOK
<1> QED  BY <1>7, <1>8, <1>9, AfterEventKeeps

LEMMA ProjectionFailsKeeps ==
    ASSUME TypeOK, Shape, NEW w \in Workers, ProjectionFails(w)
    PROVE  TypeOK' /\ Shape' /\ Quiet
<1> USE VoiceAssumption
<1> DEFINE e == evt[w]
<1>1. e \in Events  BY DEF ProjectionFails, Shape, WorkerShape
<1>2. inbox[e] \in Event /\ inbox[e].attempts \in Nat /\ seen[w] \in Nat
  BY <1>1 DEF TypeOK, Event
<1>3. \/ inbox' = [inbox EXCEPT ![e] = retry_event(inbox[e], seen[w])]
      \/ inbox' = [inbox EXCEPT ![e] = retry_event(inbox[e], inbox[e].attempts)]
  BY DEF ProjectionFails
<1>4. PICK k \in Nat : inbox' = [inbox EXCEPT ![e] = retry_event(inbox[e], k)]
  BY <1>2, <1>3
<1> DEFINE n == retry_event(inbox[e], k)
<1>5. n \in Event /\ n.attempts = inbox[e].attempts /\ n.deliveries = inbox[e].deliveries
  BY <1>2, RetriedEvent
<1>6. inbox' = [inbox EXCEPT ![e] = n]  BY <1>4
<1> HIDE DEF e, n
<1>7. inbox' \in [Events -> Event] /\ \A d \in Events : EventShape(d)'
  BY <1>1, <1>5, <1>6, EventWritten
<1>8. AfterEvent(w) /\ faults' \in 0..MaxFaults /\ RowsCarried
  BY RowsUnchanged DEF ProjectionFails, TypeOK
<1> QED  BY <1>7, <1>8, AfterEventKeeps

-----------------------------------------------------------------------------
(* Attempts and executions *)

LEMMA ArmedFinite ==
    ASSUME NEW c \in Commands
    PROVE  /\ IsFiniteSet(Armed(c)) /\ Cardinality(Armed(c)) \in Nat
           /\ IsFiniteSet(Armed(c)') /\ Cardinality(Armed(c)') \in Nat
<1>1. Armed(c) \subseteq Workers /\ Armed(c)' \subseteq Workers  BY DEF Armed
<1>2. IsFiniteSet(Workers)  BY VoiceAssumption
<1> QED  BY <1>1, <1>2, FS_Subset, FS_CardinalityType

LEMMA QuietPays ==
    ASSUME TypeOK, Paid, Quiet
    PROVE  Paid'
<1> SUFFICES ASSUME NEW c \in Commands
             PROVE  executed'[c] + Cardinality(Armed(c)') <= row'[c].attempts
  BY DEF Paid
<1>1. Cardinality(Armed(c)') <= Cardinality(Armed(c))
  BY ArmedFinite, FS_Subset DEF Quiet
<1>2. executed[c] \in Nat /\ row[c].attempts \in Nat  BY VoiceAssumption DEF TypeOK, Row
<1> QED  BY <1>1, <1>2, ArmedFinite DEF Quiet, Paid

\* A claim counts the attempt that it arms its worker for.
LEMMA ClaimKeeps ==
    ASSUME TypeOK, Shape, Paid, NEW w \in Workers, claim_due_commands(w)
    PROVE  TypeOK' /\ Shape' /\ Paid'
<1> USE VoiceAssumption
<1>1. PICK T \in SUBSET {c \in Commands : Claimable(c)} :
        /\ row' = [c \in Commands |-> IF c \in T THEN Claimed(row[c]) ELSE row[c]]
        /\ batch' = [batch EXCEPT ![w] = T]
  BY DEF claim_due_commands
<1>2. /\ pc' = [pc EXCEPT ![w] = "batch"]
      /\ UNCHANGED <<closed, inbox, executed, cur, replay, evt, seen, result, faults>>
  BY DEF claim_due_commands
<1>3. T \subseteq Commands /\ \A c \in T : row[c].attempts < MaxAttempts
  BY <1>1 DEF Claimable
<1>4. \A c \in Commands :
        /\ row'[c] \in Row /\ RowShape(c)'
        /\ row'[c].attempts = IF c \in T THEN row[c].attempts + 1 ELSE row[c].attempts
  <2> TAKE c \in Commands
  <2>1. row[c] \in Row /\ RowShape(c)  BY DEF TypeOK, Shape
  <2>2. CASE c \in T
    <3>1. row'[c] = Claimed(row[c])  BY <1>1, <2>2
    <3>2. Claimed(row[c]).status = "dispatching"  BY <2>1 DEF Claimed, Row
    <3> QED  BY <1>3, <2>1, <2>2, <3>1, <3>2, ClaimedRow DEF RowShape
  <2>3. CASE c \notin T  BY <1>1, <2>1, <2>3 DEF RowShape
  <2> QED  BY <2>2, <2>3
<1>5. row' \in [Commands -> Row]  BY <1>1, <1>4
<1>6. batch' \in [Workers -> SUBSET Commands] /\ batch'[w] = T  BY <1>1, <1>3 DEF TypeOK
<1>7. pc' \in [Workers -> Places] /\ pc'[w] = "batch"  BY <1>2 DEF TypeOK, Places
<1>8. TypeOK'  BY <1>2, <1>5, <1>6, <1>7 DEF TypeOK, Places
<1>9. OthersKept(w)  BY <1>1, <1>2 DEF TypeOK, OthersKept
<1>10. WorkerShape(w)'  BY <1>7 DEF WorkerShape
<1>11. Shape'  BY <1>2, <1>4, <1>9, <1>10, WorkersShape, EventsKept DEF Shape
<1>12. ASSUME NEW c \in Commands
       PROVE  executed'[c] + Cardinality(Armed(c)') <= row'[c].attempts
  <2>1. /\ executed[c] \in Nat /\ row[c].attempts \in Nat /\ executed'[c] = executed[c]
        /\ executed[c] + Cardinality(Armed(c)) <= row[c].attempts
    BY <1>2 DEF TypeOK, Row, Paid
  <2>4. Cardinality(Armed(c)) \in Nat /\ Cardinality(Armed(c)') \in Nat  BY ArmedFinite
  <2>2. CASE c \in T
    <3>1. Armed(c)' \subseteq Armed(c) \cup {w}
      BY <1>9 DEF Armed, OthersKept
    <3>2. /\ IsFiniteSet(Armed(c) \cup {w})
          /\ Cardinality(Armed(c) \cup {w}) <= Cardinality(Armed(c)) + 1
          /\ Cardinality(Armed(c) \cup {w}) \in Nat
      <4>1. /\ IsFiniteSet(Armed(c) \cup {w})
            /\ Cardinality(Armed(c) \cup {w}) =
                 IF w \in Armed(c) THEN Cardinality(Armed(c)) ELSE Cardinality(Armed(c)) + 1
        BY ArmedFinite, FS_AddElement
      <4> QED  BY <4>1, ArmedFinite
    <3>3. Cardinality(Armed(c)') <= Cardinality(Armed(c) \cup {w})
      BY <3>1, <3>2, FS_Subset
    <3>4. row'[c].attempts = row[c].attempts + 1  BY <1>4, <2>2
    <3> QED  BY <2>1, <3>2, <3>3, <3>4, <2>4
  <2>3. CASE c \notin T
    <3>1. Armed(c)' \subseteq Armed(c)
      BY <1>6, <1>7, <1>9, <2>3 DEF Armed, OthersKept
    <3>2. Cardinality(Armed(c)') <= Cardinality(Armed(c))  BY <3>1, ArmedFinite, FS_Subset
    <3>3. row'[c].attempts = row[c].attempts  BY <1>4, <2>3
    <3> QED  BY <2>1, <3>2, <3>3, <2>4
  <2> QED  BY <2>2, <2>3
<1>13. Paid'  BY <1>12 DEF Paid
<1> QED  BY <1>8, <1>11, <1>13

\* The provider call uses up what its worker was armed for.
LEMMA ExecuteKeeps ==
    ASSUME TypeOK, Shape, Paid, NEW w \in Workers, execute_action(w)
    PROVE  TypeOK' /\ Shape' /\ Paid'
<1> USE VoiceAssumption
<1>1. /\ pc[w] = "call" /\ pc' = [pc EXCEPT ![w] = "write"]
      /\ executed' = [executed EXCEPT ![cur[w]] = @ + 1]
      /\ UNCHANGED <<row, closed, inbox, batch, cur, replay, evt, seen, faults>>
  BY DEF execute_action
<1>2. cur[w] \in Commands /\ cur[w] \notin batch[w]  BY <1>1 DEF Shape, WorkerShape
<1>3. PICK outcome \in Outcomes(w) : result' = [result EXCEPT ![w] = outcome]
  BY DEF execute_action
<1>4. outcome \in Outcome /\ outcome \in {"none", "await", "retry"} \cup Settled
  BY <1>3 DEF Outcomes, Outcome, Settled
<1>5. /\ result' \in [Workers -> {"none", "await", "retry"} \cup Settled]
      /\ result'[w] = outcome
  BY <1>3, <1>4 DEF TypeOK
<1>6. pc' \in [Workers -> Places] /\ pc'[w] = "write"  BY <1>1 DEF TypeOK, Places
<1>7. executed' \in [Commands -> Nat]
  <2>1. executed \in [Commands -> Nat]  BY DEF TypeOK
  <2>2. \A c \in Commands : executed[c] + 1 \in Nat  BY <2>1
  <2> QED  BY <1>1, <1>2, <2>1, <2>2
<1>8. TypeOK'  BY <1>1, <1>5, <1>6, <1>7 DEF TypeOK, Places
<1>9. OthersKept(w)  BY <1>1, <1>3 DEF TypeOK, OthersKept
<1>10. WorkerShape(w)'  BY <1>1, <1>2, <1>4, <1>5, <1>6 DEF WorkerShape
<1>11. \A c \in Commands : RowShape(c)'  BY <1>1 DEF Shape, RowShape
<1>12. Shape'  BY <1>1, <1>9, <1>10, <1>11, WorkersShape, EventsKept DEF Shape
<1>13. ASSUME NEW c \in Commands
       PROVE  executed'[c] + Cardinality(Armed(c)') <= row'[c].attempts
  <2>1. /\ executed[c] \in Nat /\ row[c].attempts \in Nat /\ row'[c] = row[c]
        /\ executed[c] + Cardinality(Armed(c)) <= row[c].attempts
    BY <1>1 DEF TypeOK, Row, Paid
  <2>4. Cardinality(Armed(c)) \in Nat /\ Cardinality(Armed(c)') \in Nat  BY ArmedFinite
  <2>2. CASE c = cur[w]
    <3>1. w \in Armed(c)  BY <1>1, <2>2 DEF Armed
    <3>2. Armed(c)' \subseteq Armed(c) \ {w}
      BY <1>1, <1>2, <1>6, <1>9, <2>2 DEF Armed, OthersKept
    <3>3. /\ IsFiniteSet(Armed(c) \ {w})
          /\ Cardinality(Armed(c) \ {w}) = Cardinality(Armed(c)) - 1
      BY <3>1, ArmedFinite, FS_RemoveElement
    <3>4. Cardinality(Armed(c)') <= Cardinality(Armed(c) \ {w})  BY <3>2, <3>3, FS_Subset
    <3>5. executed'[c] = executed[c] + 1  BY <1>1, <1>2, <2>2 DEF TypeOK
    <3> QED  BY <2>1, <3>3, <3>4, <3>5, <2>4
  <2>3. CASE c # cur[w]
    <3>1. Armed(c)' \subseteq Armed(c)  BY <1>1, <1>6, <1>9 DEF Armed, OthersKept
    <3>2. Cardinality(Armed(c)') <= Cardinality(Armed(c))  BY <3>1, ArmedFinite, FS_Subset
    <3>3. executed'[c] = executed[c]  BY <1>1, <1>2, <2>3 DEF TypeOK
    <3> QED  BY <2>1, <3>2, <3>3, <2>4
  <2> QED  BY <2>2, <2>3
<1>14. Paid'  BY <1>13 DEF Paid
<1> QED  BY <1>8, <1>12, <1>14

LEMMA StutterKeeps ==
    ASSUME Inv, UNCHANGED vars
    PROVE  Inv'
<1>1. TypeOK' /\ Paid'  BY DEF Inv, vars, rows, workers, TypeOK, Paid, Armed
<1>2. Shape'  BY DEF Inv, vars, rows, workers, Shape, WorkerShape, EventShape, RowShape
<1> QED  BY <1>1, <1>2 DEF Inv

LEMMA NextKeeps ==
    ASSUME Inv, Next
    PROVE  Inv'
<1> USE DEF Inv
<1>1. CASE \E c \in Commands : enqueue_voice_command(c) \/ LeaseExpires(c) \/ BackoffElapses(c)
  BY <1>1, EnqueueKeeps, QuietPays
<1>2. CASE CloseSession  BY <1>2, CloseKeeps, QuietPays
<1>3. CASE \E e \in Events : process_controller_event(e)  BY <1>3, DeliveryKeeps, QuietPays
<1>4. CASE \E e \in Events : EventLeaseExpires(e) \/ EventBackoffElapses(e)
  BY <1>4, InboxTimeKeeps, QuietPays
<1>5. ASSUME NEW w \in Workers,
             \/ WorkerStep(w) \/ AttemptRaises(w) \/ ProjectionFails(w) \/ Crash(w)
      PROVE  Inv'
  <2>1. CASE expire_unconfirmed_commands(w)  BY <2>1, ExpireKeeps, QuietPays
  <2>2. CASE claim_due_commands(w)  BY <2>2, ClaimKeeps
  <2>3. CASE LoadCommand(w)  BY <2>3, LoadCommandKeeps, QuietPays
  <2>4. CASE execute_action(w)  BY <2>4, ExecuteKeeps
  <2>5. CASE WriteOutcome(w)  BY <2>5, WriteOutcomeKeeps, QuietPays
  <2>6. CASE RecoverException(w)  BY <2>6, RecoverKeeps, QuietPays
  <2>7. CASE claim_due_events(w)  BY <2>7, ClaimEventsKeeps, QuietPays
  <2>8. CASE LoadEvent(w)  BY <2>8, LoadEventKeeps, QuietPays
  <2>9. CASE ProjectEvent(w)  BY <2>9, ProjectEventKeeps, QuietPays
  <2>10. CASE AttemptRaises(w)  BY <2>10, AttemptRaisesKeeps, QuietPays
  <2>11. CASE ProjectionFails(w)  BY <2>11, ProjectionFailsKeeps, QuietPays
  <2>12. CASE Crash(w)  BY <2>12, CrashKeeps, QuietPays
  <2> QED  BY <1>5, <2>1, <2>2, <2>3, <2>4, <2>5, <2>6, <2>7, <2>8, <2>9, <2>10, <2>11, <2>12
           DEF WorkerStep
<1> QED  BY <1>1, <1>2, <1>3, <1>4, <1>5 DEF Next

LEMMA InitInv == Init => Inv
<1> SUFFICES ASSUME Init PROVE Inv  OBVIOUS
<1>1. TypeOK /\ Shape  BY InitTyped
<1>2. ASSUME NEW c \in Commands
      PROVE  executed[c] + Cardinality(Armed(c)) <= row[c].attempts
  <2>1. Armed(c) = {}
    <3>1. \A w \in Workers : c \notin batch[w] /\ pc[w] # "call"  BY DEF Init
    <3> QED  BY <3>1 DEF Armed
  <2>2. executed[c] = 0 /\ row[c].attempts = 0  BY DEF Init, NoRow
  <2> QED  BY <2>1, <2>2, FS_EmptySet
<1> QED  BY <1>1, <1>2 DEF Inv, Paid

LEMMA Invariant == Spec => []Inv
<1>1. Init => Inv  BY InitInv
<1>2. Inv /\ [Next]_vars => Inv'  BY NextKeeps, StutterKeeps
<1> QED  BY <1>1, <1>2, PTL DEF Spec

-----------------------------------------------------------------------------
(* Commands that have ended *)

EndsStay == \A c \in Commands : row[c].status \in Settled => row'[c].status \in Settled

LEMMA ApiEnds ==
    ASSUME TypeOK, NEW c \in Commands,
           enqueue_voice_command(c) \/ LeaseExpires(c) \/ BackoffElapses(c)
    PROVE  EndsStay
<1>1. row \in [Commands -> Row] /\ row[c] \in Row  BY DEF TypeOK
<1>2. CASE enqueue_voice_command(c)
  <2>1. row[c].status \notin Settled  BY <1>2 DEF enqueue_voice_command, Settled
  <2>2. \A d \in Commands \ {c} : row'[d] = row[d]  BY <1>1, <1>2 DEF enqueue_voice_command
  <2> QED  BY <2>1, <2>2 DEF EndsStay
<1>3. CASE LeaseExpires(c)
  <2>1. \A d \in Commands : row'[d].status = row[d].status
    BY <1>1, <1>3 DEF LeaseExpires, Row
  <2> QED  BY <2>1 DEF EndsStay
<1>4. CASE BackoffElapses(c)
  <2>1. \A d \in Commands : row'[d].status = row[d].status
    BY <1>1, <1>4 DEF BackoffElapses, Row
  <2> QED  BY <2>1 DEF EndsStay
<1> QED  BY <1>2, <1>3, <1>4

\* A confirmation, by the webhook or by a replay.
LEMMA ConfirmationEnds ==
    ASSUME TypeOK, NEW c \in Commands, NEW ok \in BOOLEAN,
           row' = [row EXCEPT ![c] = resolve_voice_command(row[c], ok)]
    PROVE  EndsStay
<1>1. row \in [Commands -> Row] /\ row[c] \in Row  BY DEF TypeOK
<1>2. row[c].status \in Settled => resolve_voice_command(row[c], ok) = row[c]
  BY <1>1, ResolvedRow, Zenon
<1> DEFINE q == resolve_voice_command(row[c], ok)
<1>3. row[c].status \in Settled => q = row[c]  BY <1>2
<1>4. row' = [row EXCEPT ![c] = q]  OBVIOUS
<1> HIDE DEF q
<1> QED  BY <1>1, <1>3, <1>4 DEF EndsStay

LEMMA SweepEnds ==
    ASSUME TypeOK, NEW w \in Workers, expire_unconfirmed_commands(w) \/ claim_due_commands(w)
    PROVE  EndsStay
<1>1. \A c \in Commands : row[c] \in Row  BY DEF TypeOK
<1>2. CASE expire_unconfirmed_commands(w)
  <2>1. \A c \in Commands : finish(row[c], "failed").status \in Settled
    BY <1>1, FinishRow DEF Settled
  <2> QED  BY <1>2, <2>1 DEF expire_unconfirmed_commands, EndsStay
<1>3. CASE claim_due_commands(w)
  <2>1. \A c \in Commands : Claimable(c) => row[c].status \notin Settled
    BY DEF Claimable, Settled
  <2>2. PICK T \in SUBSET {c \in Commands : Claimable(c)} :
          row' = [c \in Commands |-> IF c \in T THEN Claimed(row[c]) ELSE row[c]]
    BY <1>3 DEF claim_due_commands
  <2> QED  BY <2>1, <2>2 DEF EndsStay
<1> QED  BY <1>2, <1>3

\* Every step but the write of a worker.
LEMMA EndsStayUnlessWritten ==
    ASSUME Inv, Next, \A w \in Workers : ~WriteOutcome(w)
    PROVE  EndsStay
<1> USE DEF Inv
<1>1. CASE \E c \in Commands : enqueue_voice_command(c) \/ LeaseExpires(c) \/ BackoffElapses(c)
  BY <1>1, ApiEnds
<1>2. CASE UNCHANGED row  BY <1>2 DEF EndsStay
<1>3. ASSUME NEW e \in Events, process_controller_event(e)
      PROVE  EndsStay
  <2>1. PICK ok \in BOOLEAN :
          row' = [row EXCEPT ![e[1]] = resolve_voice_command(row[e[1]], ok)] \/ UNCHANGED row
    BY <1>3, Zenon DEF process_controller_event
  <2> QED  BY <1>2, <2>1, EventFacts, ConfirmationEnds
<1>4. ASSUME NEW w \in Workers, ProjectEvent(w)
      PROVE  EndsStay
  <2>1. evt[w] \in Events  BY <1>4 DEF ProjectEvent, Shape, WorkerShape
  <2>2. evt[w][1] \in Commands /\ inbox[evt[w]].ok \in BOOLEAN
    BY <2>1, EventFacts DEF TypeOK, Event
  <2>3. row' = [row EXCEPT ![evt[w][1]] =
                  resolve_voice_command(row[evt[w][1]], inbox[evt[w]].ok)]
    BY <1>4 DEF ProjectEvent
  <2> QED  BY <2>2, <2>3, ConfirmationEnds, Zenon
<1>5. ASSUME NEW w \in Workers, expire_unconfirmed_commands(w) \/ claim_due_commands(w)
      PROVE  EndsStay
  BY <1>5, SweepEnds
<1>6. CASE CloseSession \/ \E e \in Events : EventLeaseExpires(e) \/ EventBackoffElapses(e)
  BY <1>2, <1>6 DEF CloseSession, EventLeaseExpires, EventBackoffElapses
<1>7. ASSUME NEW w \in Workers,
             \/ LoadCommand(w) \/ execute_action(w) \/ RecoverException(w)
             \/ claim_due_events(w) \/ LoadEvent(w) \/ AttemptRaises(w) \/ ProjectionFails(w)
             \/ Crash(w)
      PROVE  EndsStay
  BY <1>2, <1>7 DEF LoadCommand, execute_action, RecoverException, claim_due_events, LoadEvent,
                    AttemptRaises, ProjectionFails, Crash, rows
<1> QED  BY <1>1, <1>3, <1>4, <1>5, <1>6, <1>7 DEF Next, WorkerStep

LEMMA RevivedStep ==
    ASSUME Inv, [Next]_vars, NEW c \in Commands,
           row[c].status \in Settled, row'[c].status \notin Settled
    PROVE  \E w \in Workers : cur[w] = c /\ pc[w] \in {"write", "rewrite"}
<1>1. ~EndsStay  BY DEF EndsStay
<1>2. ~UNCHANGED row  OBVIOUS
<1>3. Next  BY <1>2 DEF vars, rows
<1>4. PICK w \in Workers : WriteOutcome(w)  BY <1>1, <1>3, EndsStayUnlessWritten
<1>5. pc[w] \in {"write", "rewrite"}  BY <1>4 DEF WriteOutcome
<1>6. row' = [row EXCEPT ![cur[w]] = Written(@, result[w])]  BY <1>4 DEF WriteOutcome
<1>7. cur[w] = c  BY <1>6 DEF Inv, TypeOK
<1> QED  BY <1>5, <1>7

-----------------------------------------------------------------------------
(* The theorems *)

\* Types are kept by the API, the inbox and any number of workers: whoever
\* claims, retries or recovers, attempt_count stays within its maximum.
THEOREM VoiceTypeCorrect == Spec => []TypeOK
<1>1. Inv => TypeOK  BY DEF Inv
<1> QED  BY <1>1, Invariant, PTL

\* Every call of the provider is paid for by an attempt, for any number of
\* workers whose leases overlap and any faults: a caller is never given a
\* command more often than COMMAND_MAX_ATTEMPTS.
THEOREM ExecutionsArePaidFor == Spec => []ExecutionsPaidFor
<1>1. Inv => ExecutionsPaidFor
  <2> SUFFICES ASSUME Inv, NEW c \in Commands PROVE executed[c] <= row[c].attempts
    BY DEF ExecutionsPaidFor
  <2>1. executed[c] \in Nat /\ row[c].attempts \in Nat
    BY VoiceAssumption DEF Inv, TypeOK, Row
  <2>2. executed[c] + Cardinality(Armed(c)) <= row[c].attempts  BY DEF Inv, Paid
  <2> QED  BY <2>1, <2>2, ArmedFinite
<1> QED  BY <1>1, Invariant, PTL

\* A command that has ended is opened again only by the write of a worker that
\* had loaded it: not by a claim, a sweep, a late or contradicting event, or the
\* recovery of another worker.
THEOREM RevivedOnlyByWorkerInFlight == Spec => RevivedOnlyInFlight
<1>1. ASSUME Inv, [Next]_vars
      PROVE  [\A c \in Commands :
                row[c].status \in Settled /\ row'[c].status \notin Settled =>
                    \E w \in Workers : cur[w] = c /\ pc[w] \in {"write", "rewrite"}]_vars
  BY <1>1, RevivedStep
<1> QED  BY <1>1, Invariant, PTL DEF Spec, RevivedOnlyInFlight
=============================================================================
