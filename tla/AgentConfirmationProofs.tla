---------------------- MODULE AgentConfirmationProofs ----------------------
(***************************************************************************)
(* Proofs about AgentConfirmation, for every finite set of workers, every  *)
(* set of calls and every bound.                                           *)
(*                                                                         *)
(* What keeps an action from taking place twice is the row a transaction   *)
(* has locked.  The conversation has one active row, so two transactions   *)
(* that are both about to execute a call would have locked the same one;   *)
(* and the executed log is read behind that lock.                          *)
(***************************************************************************)
EXTENDS AgentConfirmation, FiniteSetTheorems, SequenceTheorems, TLAPS

-----------------------------------------------------------------------------
(* The inductive invariant. *)

\* The partial unique index.
OneActive == \A i, k \in ActiveRows : i = k

\* Message m of the customer is a yes.
Consent(m) == m \in DOMAIN msgs /\ m # 0 /\ msgs[m] = "confirmed"

\* A row is confirmed, or used up, by a yes of the customer.
RowsAnswered ==
    \A i \in DOMAIN rows : rows[i].status \in {"confirmed", "consumed"} => Consent(rows[i].response)

\* The rows a worker's transaction has locked.
Held(n) == {n.grant, n.stale} \ {0}

\* The provider has acted, or Nexus is about to: only the commit is missing.
Acted(n) == n.pc = "commit" /\ n.outcome = "execute"

\* What the record of a worker says of the rest of the state.
Placed(n) ==
    /\ n.pc # "idle" => n.msg \in DOMAIN msgs
    /\ n.subject # 0 => n.subject \in DOMAIN rows
    /\ n.pc = "confirmed" => n.subject # 0
    /\ n.pc \in {"tool", "call", "commit"} => n.call \in Calls
    /\ n.pc \notin {"call", "commit"} => n.outcome = "none" /\ n.grant = 0 /\ n.stale = 0

\* A grant is a standing yes to the call of the transaction; an execution under way
\* has one, and is the first.
Granted(n) ==
    /\ n.grant # 0 => /\ n.grant \in DOMAIN rows
                      /\ rows[n.grant].status = "confirmed"
                      /\ rows[n.grant].call = n.call
    /\ n.pc = "call" => n.outcome = "execute" /\ n.call \in External
    /\ n.outcome = "ask" => n.grant = 0
    /\ n.outcome = "execute" => n.grant # 0 /\ executed[n.call] = 0

WorkersPlaced == \A w \in Workers : Placed(worker[w]) /\ Granted(worker[w])

LocksDiffer == \A v, w \in Workers : v # w => Held(worker[v]) \cap Held(worker[w]) = {}

\* Is a commit of an execution of c outstanding?
Outstanding(c) ==
    IF \E w \in Workers : Acted(worker[w]) /\ worker[w].call = c THEN 1 ELSE 0

\* An effect is on record, about to be, or the work of a fault.
EffectsCounted ==
    \A c \in Calls : IF c \in External THEN effects[c] <= executed[c] + Outstanding(c) + faults
                     ELSE effects[c] = executed[c]

\* An execution on record has its confirmation.
Spent(c) == \E i \in DOMAIN rows : rows[i].call = c /\ rows[i].status = "consumed"

ExecutedSpent == \A c \in Calls : executed[c] = 0 \/ (executed[c] = 1 /\ Spent(c))

\* The types, without the counting of TypeOK.
Typed ==
    /\ msgs \in Seq(Decisions) /\ Len(msgs) <= MaxMessages
    /\ done \subseteq DOMAIN msgs /\ killed \subseteq DOMAIN msgs
    /\ rows \in Seq(Row)
    /\ executed \in [Calls -> Nat]
    /\ effects \in [Calls -> Nat]
    /\ worker \in [Workers -> Worker]
    /\ faults \in 0..MaxFaults
    /\ overlaps \in 0..MaxOverlaps

IInv ==
    /\ Typed /\ OneActive /\ RowsAnswered
    /\ WorkersPlaced /\ LocksDiffer
    /\ EffectsCounted /\ ExecutedSpent

USE ConfirmationAssumption

-----------------------------------------------------------------------------
(* Lemmas: sequences of rows, single rows, and what a step leaves alone. *)

\* A list of rows, and the places in it.
LEMMA RowList ==
    ASSUME NEW s \in Seq(Row)
    PROVE  /\ Len(s) \in Nat /\ DOMAIN s = 1..Len(s)
           /\ \A i \in DOMAIN s : s[i] \in Row /\ i \in Nat /\ i # 0
  OBVIOUS

\* Rows that are rewritten one by one are a list of rows as long as before.
LEMMA Rewritten ==
    ASSUME NEW s \in Seq(Row), NEW t, DOMAIN t = DOMAIN s, t = [i \in DOMAIN s |-> t[i]],
           \A i \in DOMAIN s : t[i] \in Row
    PROVE  t \in Seq(Row) /\ Len(t) = Len(s)
  <1>1. t \in [1..Len(s) -> Row]
    BY RowList
  <1>2. t \in Seq(Row)
    BY <1>1, RowList, SeqDef
  <1> QED
    BY <1>1, <1>2, RowList

\* A set of naturals has a least element.
LEMMA LeastNumber ==
    ASSUME NEW S, S \subseteq Nat, S # {}
    PROVE  \E i \in S : \A k \in S : i <= k
  <1> DEFINE R == OpToRel(<, Nat)
  <1>1. \E i \in S : \A k \in S : ~(<<k, i>> \in R)
    BY NatLessThanWellFounded, WFMin
  <1>2. \A i, k \in Nat : <<k, i>> \in R <=> k < i
    BY DEF OpToRel
  <1> HIDE DEF R
  <1>3. PICK i \in S : \A k \in S : ~(<<k, i>> \in R)
    BY <1>1
  <1>4. ASSUME NEW k \in S
        PROVE  i <= k
    <2>1. ~(<<k, i>> \in R)
      BY <1>3
    <2>2. i \in Nat /\ k \in Nat
      OBVIOUS
    <2>3. ~(k < i)
      BY <1>2, <2>1, <2>2
    <2> QED
      BY <2>2, <2>3
  <1> QED
    BY <1>4

\* Newest of at most one row is that row.
LEMMA NewestOfOne ==
    ASSUME NEW S, S \subseteq Nat \ {0}, \A i, k \in S : i = k
    PROVE  /\ Newest(S) \in Nat
           /\ Newest(S) # 0 <=> S # {}
           /\ S # {} => Newest(S) \in S
  <1>1. CASE S = {}
    BY <1>1 DEF Newest
  <1>2. CASE S # {}
    <2>1. PICK i \in S : S = {i}
      BY <1>2
    <2>2. Max(S) = i
      BY <2>1 DEF Max
    <2> QED
      BY <1>2, <2>1, <2>2 DEF Newest
  <1> QED
    BY <1>1, <1>2

\* expire_confirmation_if_needed closes a row or leaves it.
LEMMA ExpireRow ==
    ASSUME NEW r \in Row
    PROVE  /\ Expire(r) \in Row
           /\ Expire(r).call = r.call /\ Expire(r).response = r.response
           /\ Expire(r).status = r.status \/ (r.status \in Active /\ Expire(r).status = "expired")
  BY DEF Expire, Row, Active, Closed

\* The clock and the result of an attempt leave the call, the status and the answer.
LEMMA MarkedRow ==
    ASSUME NEW r \in Row, NEW q, q \in {r, [r EXCEPT !.late = TRUE], [r EXCEPT !.tried = TRUE]}
    PROVE  q \in Row /\ q.call = r.call /\ q.status = r.status /\ q.response = r.response
  BY DEF Row

\* What a step may make of a row: nothing, the answer of the customer, its use by the
\* transaction that was granted it, or its end.
Moves(r, q) ==
    /\ q.call = r.call
    /\ \/ q.status = r.status /\ q.response = r.response
       \/ r.status \in Active /\ q.status \in {"denied", "expired", "cancelled"}
       \/ r.status = "pending" /\ q.status = "confirmed" /\ Consent(q.response)
       \/ r.status = "confirmed" /\ q.status = "consumed" /\ q.response = r.response

\* Such steps keep the index, the answers and what has been spent.
LEMMA RowsMoved ==
    ASSUME IInv, msgs' = msgs, rows' \in Seq(Row), DOMAIN rows' = DOMAIN rows,
           \A i \in DOMAIN rows : Moves(rows[i], rows'[i])
    PROVE  /\ OneActive' /\ RowsAnswered'
           /\ \A c \in Calls : Spent(c) => Spent(c)'
  <1>1. \A i \in DOMAIN rows : rows[i] \in Row /\ rows'[i] \in Row
    BY RowList DEF IInv, Typed
  <1>2. ActiveRows' \subseteq ActiveRows
    BY <1>1 DEF Moves, ActiveRows, Active
  <1>3. OneActive'
    BY <1>2 DEF IInv, OneActive
  <1>4. RowsAnswered'
    BY <1>1 DEF IInv, RowsAnswered, Moves, Consent, Active
  <1>5. \A c \in Calls : Spent(c) => Spent(c)'
    BY <1>1 DEF Spent, Moves, Active
  <1> QED
    BY <1>3, <1>4, <1>5

\* The transactions of two workers that execute one call would share its one grant.
LEMMA OneExecutes ==
    ASSUME IInv, NEW v \in Workers, NEW w \in Workers,
           worker[v].outcome = "execute", worker[w].outcome = "execute"
    PROVE  v = w
  <1>1. \A x \in {v, w} : /\ worker[x].grant \in ActiveRows
                          /\ worker[x].grant \in Held(worker[x])
    BY RowList DEF IInv, Typed, WorkersPlaced, Granted, Held, ActiveRows, Active
  <1>2. worker[v].grant = worker[w].grant
    BY <1>1 DEF IInv, OneActive
  <1> QED
    BY <1>1, <1>2 DEF IInv, LocksDiffer

\* A step of w that respects the locks leaves every other worker where it was.
LEMMA OthersPlaced ==
    ASSUME IInv, NEW w \in Workers, NEW v \in Workers, v # w,
           worker'[v] = worker[v],
           msgs' = msgs, DOMAIN rows \subseteq DOMAIN rows',
           \A i \in DOMAIN rows : /\ rows'[i].call = rows[i].call
                                  /\ rows'[i].status = rows[i].status \/ ~LockedByOther(w, i),
           \/ executed' = executed
           \/ worker[w].outcome = "execute"
    PROVE  (Placed(worker[v]) /\ Granted(worker[v]))'
  <1>1. Placed(worker[v]) /\ Granted(worker[v])
    BY DEF IInv, WorkersPlaced
  <1>2. Placed(worker[v])'
    BY <1>1 DEF Placed
  <1>3. worker[v].grant # 0 => LockedByOther(w, worker[v].grant)
    BY DEF LockedByOther
  <1>4. worker[v].outcome = "execute" => executed' = executed
    BY OneExecutes
  <1> QED
    BY <1>1, <1>2, <1>3, <1>4 DEF Granted

\* The locks of w's new transaction, if it has one, are nobody else's.
LEMMA LocksKept ==
    ASSUME IInv, NEW w \in Workers, NEW n \in Worker,
           worker' = [worker EXCEPT ![w] = n],
           \A i \in Held(n) : ~LockedByOther(w, i)
    PROVE  LocksDiffer'
  <1>1. \A v \in Workers : v # w => worker'[v] = worker[v]
    BY DEF IInv, Typed
  <1>2. worker'[w] = n
    BY DEF IInv, Typed
  <1>3. \A v \in Workers : v # w => Held(n) \cap Held(worker[v]) = {}
    BY DEF Held, LockedByOther
  <1>4. ASSUME NEW v \in Workers, NEW u \in Workers, v # u
        PROVE  Held(worker'[v]) \cap Held(worker'[u]) = {}
    BY <1>1, <1>2, <1>3, <1>4 DEF IInv, LocksDiffer
  <1> QED
    BY <1>4 DEF LocksDiffer, Held

\* What was about to be recorded still is, or a fault took it.
LEMMA EffectsKept ==
    ASSUME IInv, NEW w \in Workers, NEW n \in Worker,
           worker' = [worker EXCEPT ![w] = n],
           effects' = effects, executed' = executed, faults' \in 0..MaxFaults,
           \/ faults' = faults + 1
           \/ faults' = faults /\ (Acted(worker[w]) => Acted(n) /\ n.call = worker[w].call)
    PROVE  EffectsCounted'
  <1>1. \A c \in Calls : /\ effects[c] \in Nat /\ executed[c] \in Nat
                         /\ Outstanding(c) \in {0, 1} /\ Outstanding(c)' \in {0, 1}
    BY DEF IInv, Typed, Outstanding
  <1>2. \A v \in Workers : worker'[v] = IF v = w THEN n ELSE worker[v]
    BY DEF IInv, Typed
  <1>3. faults \in Nat /\ faults' \in Nat
    BY DEF IInv, Typed
  <1>4. ASSUME NEW c \in Calls, faults' = faults
        PROVE  Outstanding(c) <= Outstanding(c)'
    <2>1. CASE \E v \in Workers : Acted(worker[v]) /\ worker[v].call = c
      <3> PICK v \in Workers : Acted(worker[v]) /\ worker[v].call = c
        BY <2>1
      <3>1. Acted(worker'[v]) /\ worker'[v].call = c
        BY <1>2, <1>4, <1>3
      <3>2. Outstanding(c)' = 1
        BY <3>1 DEF Outstanding, Acted
      <3> QED
        BY <3>2, <1>1
    <2>2. CASE ~\E v \in Workers : Acted(worker[v]) /\ worker[v].call = c
      BY <2>2, <1>1 DEF Outstanding
    <2> QED
      BY <2>1, <2>2
  <1>5. ASSUME NEW c \in Calls
        PROVE  IF c \in External THEN effects[c] <= executed[c] + Outstanding(c)' + faults'
               ELSE effects[c] = executed[c]
    <2>1. CASE faults' = faults + 1
      BY <2>1, <1>1, <1>3 DEF IInv, EffectsCounted
    <2>2. CASE faults' = faults
      BY <2>2, <1>1, <1>4, <1>3 DEF IInv, EffectsCounted
    <2> QED
      BY <2>1, <2>2
  <1> QED
    BY <1>5 DEF EffectsCounted

\* A step of w that writes no row.
LEMMA LocalStep ==
    ASSUME IInv, NEW w \in Workers, NEW n \in Worker,
           worker' = [worker EXCEPT ![w] = n],
           msgs' = msgs, rows' = rows, executed' = executed,
           effects' \in [Calls -> Nat], EffectsCounted',
           done' \subseteq DOMAIN msgs, killed' \subseteq DOMAIN msgs,
           faults' \in 0..MaxFaults, overlaps' \in 0..MaxOverlaps,
           Placed(n), Granted(n), \A i \in Held(n) : ~LockedByOther(w, i)
    PROVE  IInv'
  <1>1. Typed'
    BY DEF IInv, Typed
  <1>2. OneActive' /\ RowsAnswered' /\ ExecutedSpent'
    BY DEF IInv, OneActive, ActiveRows, RowsAnswered, Consent, ExecutedSpent, Spent
  <1>3. LocksDiffer'
    BY LocksKept
  <1>4. \A v \in Workers : v # w => (Placed(worker[v]) /\ Granted(worker[v]))'
    BY OthersPlaced DEF IInv, Typed
  <1>5. (Placed(worker[w]) /\ Granted(worker[w]))'
    BY DEF IInv, Typed, Placed, Granted
  <1>6. WorkersPlaced'
    BY <1>4, <1>5 DEF WorkersPlaced
  <1> QED
    BY <1>1, <1>2, <1>3, <1>6 DEF IInv

\* Such a step outside of a transaction, or one that ends it with a fault.
LEMMA QuietStep ==
    ASSUME IInv, NEW w \in Workers, NEW n \in Worker,
           worker' = [worker EXCEPT ![w] = n],
           msgs' = msgs, rows' = rows, executed' = executed, effects' = effects,
           done' \subseteq DOMAIN msgs, killed' \subseteq DOMAIN msgs,
           overlaps' \in 0..MaxOverlaps, faults' \in 0..MaxFaults,
           faults' = faults + 1 \/ (faults' = faults /\ ~Acted(worker[w])),
           Placed(n), Granted(n), Held(n) = {}
    PROVE  IInv'
  <1>1. EffectsCounted'
    BY EffectsKept
  <1> QED
    BY <1>1, LocalStep DEF IInv, Typed

-----------------------------------------------------------------------------
(* The initial state, and the steps that write no row. *)

\* A worker without a run.
LEMMA IdleWorker == Idle \in Worker /\ Placed(Idle) /\ Granted(Idle) /\ Held(Idle) = {}
  BY DEF Idle, Worker, Stages, Outcomes, Placed, Granted, Held

\* The invariant holds initially.
LEMMA Initially == Init => IInv
  <1> SUFFICES ASSUME Init PROVE IInv
    OBVIOUS
  <1> USE DEF Init
  <1>2. Typed
    BY IdleWorker DEF Typed
  <1>3. OneActive /\ RowsAnswered
    BY DEF OneActive, ActiveRows, RowsAnswered
  <1>4. WorkersPlaced /\ LocksDiffer
    BY DEF WorkersPlaced, Placed, Granted, LocksDiffer, Held, Idle
  <1>5. EffectsCounted /\ ExecutedSpent
    <2>1. \A c \in Calls : Outstanding(c) = 0
      BY DEF Outstanding, Acted, Idle
    <2> QED
      BY <2>1 DEF EffectsCounted, ExecutedSpent
  <1> QED
    BY <1>2, <1>3, <1>4, <1>5 DEF IInv

\* SendMessage: earlier messages stay what they were.
LEMMA SendMessageKeeps ==
    ASSUME IInv, NEW d \in Decisions, SendMessage(d)
    PROVE  IInv'
  <1> USE DEF SendMessage
  <1>1. /\ msgs' \in Seq(Decisions) /\ Len(msgs') <= MaxMessages
        /\ DOMAIN msgs \subseteq DOMAIN msgs'
        /\ \A m \in DOMAIN msgs : msgs'[m] = msgs[m]
    BY DEF IInv, Typed
  <1>2. Typed'
    BY <1>1 DEF IInv, Typed, rowVars
  <1>3. OneActive' /\ RowsAnswered' /\ ExecutedSpent'
    BY <1>1 DEF IInv, OneActive, ActiveRows, RowsAnswered, Consent, ExecutedSpent, Spent, rowVars
  <1>4. WorkersPlaced' /\ LocksDiffer'
    BY <1>1 DEF IInv, WorkersPlaced, Placed, Granted, LocksDiffer, Held, rowVars
  <1>5. EffectsCounted'
    BY DEF IInv, EffectsCounted, Outstanding, Acted, rowVars
  <1> QED
    BY <1>2, <1>3, <1>4, <1>5 DEF IInv

\* StartRun: the oldest message without an outcome is one of the customer's.
LEMMA StartRunKeeps ==
    ASSUME IInv, NEW w \in Workers, StartRun(w)
    PROVE  IInv'
  <1> DEFINE m == Min(Waiting)
             n == [Idle EXCEPT !.pc = "resolve", !.msg = m]
  <1>1. m \in DOMAIN msgs
    <2>1. Waiting \subseteq Nat /\ Waiting # {} /\ Waiting \subseteq DOMAIN msgs
      BY DEF StartRun, Waiting, IInv, Typed
    <2> QED
      BY <2>1, LeastNumber DEF Min
  <1>2. m \in 0..MaxMessages
    BY <1>1 DEF IInv, Typed
  <1> HIDE DEF m
  <1>3. n \in Worker
    BY <1>2, IdleWorker DEF Worker, Stages
  <1>4. worker' = [worker EXCEPT ![w] = n] /\ ~Acted(worker[w])
    BY DEF StartRun, Acted, m
  <1>5. Placed(n) /\ Granted(n) /\ Held(n) = {}
    BY <1>1 DEF Placed, Granted, Held, Idle
  <1>6. /\ msgs' = msgs /\ rows' = rows /\ executed' = executed /\ effects' = effects
        /\ done' = done /\ killed' = killed /\ faults' = faults /\ overlaps' \in 0..MaxOverlaps
    BY DEF StartRun, rowVars, IInv, Typed
  <1> HIDE DEF n
  <1> QED
    BY <1>3, <1>4, <1>5, <1>6, QuietStep DEF IInv, Typed

\* BeginConfirmed: the row of _execute_confirmed_action exists, and so its call.
LEMMA BeginConfirmedKeeps ==
    ASSUME IInv, NEW w \in Workers, BeginConfirmed(w)
    PROVE  IInv'
  <1> DEFINE i == worker[w].subject
  <1>1. worker[w] \in Worker /\ i \in DOMAIN rows /\ rows[i] \in Row
    BY RowList DEF IInv, Typed, WorkersPlaced, Placed, BeginConfirmed
  <1>2. Placed(worker[w]) /\ Granted(worker[w])
    BY DEF IInv, WorkersPlaced
  <1>3. PICK n \in Worker : /\ worker' = [worker EXCEPT ![w] = n]
                            /\ Placed(n) /\ Granted(n) /\ Held(n) = {}
    <2>1. CASE worker' = [worker EXCEPT ![w].pc = "tool", ![w].call = rows[i].call]
      <3> DEFINE n == [worker[w] EXCEPT !.pc = "tool", !.call = rows[i].call]
      <3>1. n \in Worker
        BY <1>1 DEF Worker, Stages, Row
      <3>2. Placed(n) /\ Granted(n) /\ Held(n) = {}
        BY <1>1, <1>2 DEF Placed, Granted, Held, BeginConfirmed, Worker, Row
      <3>3. worker' = [worker EXCEPT ![w] = n]
        BY <1>1, <2>1 DEF IInv, Typed, Worker
      <3> HIDE DEF n
      <3> QED
        BY <3>1, <3>2, <3>3
    <2>2. CASE worker' = [worker EXCEPT ![w].pc = "record"]
      <3> DEFINE n == [worker[w] EXCEPT !.pc = "record"]
      <3>1. n \in Worker
        BY <1>1 DEF Worker, Stages
      <3>2. Placed(n) /\ Granted(n) /\ Held(n) = {}
        BY <1>1, <1>2 DEF Placed, Granted, Held, BeginConfirmed, Worker
      <3>3. worker' = [worker EXCEPT ![w] = n]
        BY <1>1, <2>2 DEF IInv, Typed, Worker
      <3> HIDE DEF n
      <3> QED
        BY <3>1, <3>2, <3>3
    <2>3. CASE worker' = [worker EXCEPT ![w].pc = "agent", ![w].subject = 0]
      <3> DEFINE n == [worker[w] EXCEPT !.pc = "agent", !.subject = 0]
      <3>1. n \in Worker
        BY <1>1 DEF Worker, Stages
      <3>2. Placed(n) /\ Granted(n) /\ Held(n) = {}
        BY <1>1, <1>2 DEF Placed, Granted, Held, BeginConfirmed, Worker
      <3>3. worker' = [worker EXCEPT ![w] = n]
        BY <1>1, <2>3 DEF IInv, Typed, Worker
      <3> HIDE DEF n
      <3> QED
        BY <3>1, <3>2, <3>3
    <2> QED
      BY <2>1, <2>2, <2>3 DEF BeginConfirmed
  <1>4. ~Acted(worker[w])
    BY DEF BeginConfirmed, Acted
  <1>5. /\ msgs' = msgs /\ rows' = rows /\ executed' = executed /\ effects' = effects
        /\ done' = done /\ killed' = killed /\ faults' = faults /\ overlaps' = overlaps
    BY DEF BeginConfirmed, rowVars
  <1> QED
    BY <1>3, <1>4, <1>5, QuietStep DEF IInv, Typed

\* Propose: the model asks for one of the calls.
LEMMA ProposeKeeps ==
    ASSUME IInv, NEW w \in Workers, NEW c \in Calls, Propose(w, c)
    PROVE  IInv'
  <1> DEFINE n == [worker[w] EXCEPT !.pc = "tool", !.call = c, !.rounds = worker[w].rounds - 1]
  <1>1. worker[w] \in Worker /\ Placed(worker[w]) /\ Granted(worker[w])
    BY DEF IInv, Typed, WorkersPlaced
  <1>2. n \in Worker
    <2>1. MaxRounds \in Nat /\ worker[w].rounds \in 0..MaxRounds /\ worker[w].rounds > 0
      BY <1>1 DEF Worker, Propose
    <2>2. worker[w].rounds - 1 \in 0..MaxRounds
      BY <2>1
    <2> QED
      BY <1>1, <2>2 DEF Worker, Stages
  <1>3. Placed(n) /\ Granted(n) /\ Held(n) = {}
    BY <1>1 DEF Placed, Granted, Held, Propose, Worker
  <1>4. worker' = [worker EXCEPT ![w] = n] /\ ~Acted(worker[w])
    BY <1>1 DEF Propose, Acted, IInv, Typed, Worker
  <1>5. /\ msgs' = msgs /\ rows' = rows /\ executed' = executed /\ effects' = effects
        /\ done' = done /\ killed' = killed /\ faults' = faults /\ overlaps' = overlaps
    BY DEF Propose, rowVars
  <1> HIDE DEF n
  <1> QED
    BY <1>2, <1>3, <1>4, <1>5, QuietStep DEF IInv, Typed

\* Finish: the message of the run has an outcome.
LEMMA FinishKeeps ==
    ASSUME IInv, NEW w \in Workers, Finish(w)
    PROVE  IInv'
  <1>1. worker' = [worker EXCEPT ![w] = Idle] /\ ~Acted(worker[w])
    BY DEF Finish, Acted
  <1>2. done' \subseteq DOMAIN msgs
    BY DEF Finish, IInv, Typed, WorkersPlaced, Placed
  <1>3. /\ msgs' = msgs /\ rows' = rows /\ executed' = executed /\ effects' = effects
        /\ killed' = killed /\ faults' = faults /\ overlaps' = overlaps
    BY DEF Finish, rowVars
  <1> QED
    BY <1>1, <1>2, <1>3, IdleWorker, QuietStep DEF IInv, Typed

\* Crash: what the run had not committed is a fault's.
LEMMA CrashKeeps ==
    ASSUME IInv, NEW w \in Workers, Crash(w)
    PROVE  IInv'
  <1>1. worker' = [worker EXCEPT ![w] = Idle] /\ faults' = faults + 1 /\ faults' \in 0..MaxFaults
    BY DEF Crash, IInv, Typed
  <1>2. /\ msgs' = msgs /\ rows' = rows /\ executed' = executed /\ effects' = effects
        /\ done' = done /\ overlaps' = overlaps
    BY DEF Crash, rowVars
  <1>3. killed' \subseteq DOMAIN msgs
    BY DEF Crash, IInv, Typed, WorkersPlaced, Placed
  <1> QED
    BY <1>1, <1>2, <1>3, IdleWorker, QuietStep DEF IInv, Typed

\* TakeOver: only the jobs' fate changes.
LEMMA TakeOverKeeps ==
    ASSUME IInv, TakeOver
    PROVE  IInv'
  <1>1. /\ msgs' = msgs /\ done' = done /\ rows' = rows /\ executed' = executed
        /\ effects' = effects /\ worker' = worker /\ faults' = faults /\ overlaps' = overlaps
    BY DEF TakeOver, rowVars
  <1>2. killed' \subseteq DOMAIN msgs
    BY DEF TakeOver, Waiting, IInv, Typed
  <1>3. Typed' /\ OneActive' /\ RowsAnswered' /\ ExecutedSpent'
    BY <1>1, <1>2 DEF IInv, Typed, OneActive, ActiveRows, RowsAnswered, Consent, ExecutedSpent, Spent
  <1>4. WorkersPlaced' /\ LocksDiffer' /\ EffectsCounted'
    BY <1>1 DEF IInv, WorkersPlaced, Placed, Granted, LocksDiffer, Held, EffectsCounted,
                Outstanding, Acted
  <1> QED
    BY <1>3, <1>4 DEF IInv

\* The record of a worker after its transaction: it holds nothing.
Released(n) == [n EXCEPT !.pc = IF n.subject # 0 THEN "record" ELSE "loop",
                         !.call = NoCall, !.outcome = "none", !.grant = 0, !.stale = 0]

\* Where AfterTx leaves the worker.
LEMMA AfterTxWorker ==
    ASSUME IInv, NEW w \in Workers, worker[w].pc \in {"tool", "call", "commit"}
    PROVE  /\ Released(worker[w]) \in Worker
           /\ AfterTx(w) = [worker EXCEPT ![w] = Released(worker[w])]
           /\ Placed(Released(worker[w])) /\ Granted(Released(worker[w]))
           /\ Held(Released(worker[w])) = {}
  <1> DEFINE n == Released(worker[w])
  <1>1. worker[w] \in Worker /\ Placed(worker[w])
    BY DEF IInv, Typed, WorkersPlaced
  <1>2. n \in Worker
    BY <1>1 DEF Released, Worker, Stages, Outcomes
  <1>3. AfterTx(w) = [worker EXCEPT ![w] = n]
    BY <1>1 DEF AfterTx, Direct, Released, IInv, Typed, Worker
  <1>4. /\ n.pc \in {"record", "loop"} /\ n.msg = worker[w].msg /\ n.subject = worker[w].subject
        /\ n.outcome = "none" /\ n.grant = 0 /\ n.stale = 0
    BY <1>1 DEF Released, Worker
  <1>5. Placed(n) /\ Granted(n) /\ Held(n) = {}
    BY <1>1, <1>4 DEF Placed, Granted, Held
  <1> QED
    BY <1>2, <1>3, <1>5

\* TxRestricted: the transaction ends before it began.
LEMMA TxRestrictedKeeps ==
    ASSUME IInv, NEW w \in Workers, TxRestricted(w)
    PROVE  IInv'
  <1>1. /\ worker' = [worker EXCEPT ![w] = Released(worker[w])]
        /\ ~Acted(worker[w])
    BY AfterTxWorker DEF TxRestricted, Acted
  <1>2. /\ msgs' = msgs /\ rows' = rows /\ executed' = executed /\ effects' = effects
        /\ done' = done /\ killed' = killed /\ faults' = faults /\ overlaps' = overlaps
    BY DEF TxRestricted, rowVars
  <1>3. PICK n \in Worker : n = Released(worker[w])
    BY AfterTxWorker DEF TxRestricted
  <1>4. Placed(n) /\ Granted(n) /\ Held(n) = {}
    BY <1>3, AfterTxWorker DEF TxRestricted
  <1> QED
    BY <1>1, <1>2, <1>3, <1>4, QuietStep DEF IInv, Typed

\* ToolException: rolled back, and a fault.
LEMMA ToolExceptionKeeps ==
    ASSUME IInv, NEW w \in Workers, ToolException(w)
    PROVE  IInv'
  <1> DEFINE n == [Released(worker[w]) EXCEPT !.rounds = 0]
  <1>1. /\ Released(worker[w]) \in Worker
        /\ AfterTx(w) = [worker EXCEPT ![w] = Released(worker[w])]
        /\ Placed(Released(worker[w])) /\ Granted(Released(worker[w]))
        /\ Held(Released(worker[w])) = {}
    BY AfterTxWorker DEF ToolException
  <1>2. n \in Worker
    BY <1>1 DEF Worker
  <1>3. worker' = [worker EXCEPT ![w] = n]
    BY <1>1 DEF ToolException, IInv, Typed
  <1>4. Placed(n) /\ Granted(n) /\ Held(n) = {}
    BY <1>1 DEF Placed, Granted, Held, Worker
  <1>5. /\ msgs' = msgs /\ rows' = rows /\ executed' = executed /\ effects' = effects
        /\ done' = done /\ killed' = killed /\ faults' = faults + 1 /\ faults' \in 0..MaxFaults /\ overlaps' = overlaps
    BY DEF ToolException, rowVars, IInv, Typed
  <1> HIDE DEF n
  <1> QED
    BY <1>2, <1>3, <1>4, <1>5, QuietStep DEF IInv, Typed

-----------------------------------------------------------------------------
(* The transaction reads, and calls the provider. *)

\* What a transaction has locked nobody else has.
LEMMA OwnLock ==
    ASSUME IInv, NEW w \in Workers, NEW i \in Held(worker[w])
    PROVE  ~LockedByOther(w, i)
  <1>1. SUFFICES ASSUME NEW v \in Workers \ {w}, i \in {worker[v].grant, worker[v].stale}
                 PROVE  FALSE
    BY DEF LockedByOther
  <1>2. i \in Held(worker[v]) \cap Held(worker[w])
    BY <1>1 DEF Held
  <1> QED
    BY <1>2 DEF IInv, LocksDiffer

\* TxStart: what it locks is free, and a verdict to execute has the standing grant and
\* finds nothing in the log.
LEMMA TxStartKeeps ==
    ASSUME IInv, NEW w \in Workers, TxStart(w)
    PROVE  IInv'
  <1> DEFINE c == worker[w].call
             exact == ExactConfirmed(c)
             late == {i \in exact : rows[i].late}
             ready == exact \ late
  <1>1. worker[w] \in Worker /\ Placed(worker[w]) /\ Granted(worker[w]) /\ c \in Calls
    BY DEF IInv, Typed, WorkersPlaced, Placed, TxStart
  <1>2. exact \subseteq ActiveRows /\ ActiveRows \subseteq Nat \ {0}
    BY RowList DEF ExactConfirmed, ActiveRows, Active, IInv, Typed
  <1>3. /\ ready \subseteq Nat \ {0} /\ late \subseteq Nat \ {0}
        /\ \A i, k \in ready : i = k
        /\ \A i, k \in late : i = k
    BY <1>2 DEF IInv, OneActive
  <1>4. /\ Newest(ready) \in Nat
        /\ Newest(ready) # 0 <=> ready # {}
        /\ ready # {} => Newest(ready) \in ready
    BY <1>3, NewestOfOne
  <1>5. /\ Newest(late) \in Nat
        /\ Newest(late) # 0 => Newest(late) \in late
    BY <1>3, NewestOfOne
  <1>6. PICK o \in Verdicts(w, ready # {}) :
          worker' = [worker EXCEPT
              ![w].pc = IF o = "execute" /\ c \in External THEN "call" ELSE "commit",
              ![w].outcome = o,
              ![w].grant = Newest(ready),
              ![w].stale = Newest(late)]
    BY DEF TxStart
  <1>7. /\ o \in Outcomes
        /\ o = "execute" => ready # {} /\ ~(executed[c] > 0)
        /\ o = "ask" => ready = {}
    BY <1>6 DEF Verdicts, Outcomes
  <1>8. \A i \in exact : ~LockedByOther(w, i) /\ i \in DOMAIN rows
                         /\ rows[i].status = "confirmed" /\ rows[i].call = c
    BY DEF TxStart, Unlocked, ExactConfirmed
  <1> DEFINE n == [worker[w] EXCEPT
              !.pc = IF o = "execute" /\ c \in External THEN "call" ELSE "commit",
              !.outcome = o, !.grant = Newest(ready), !.stale = Newest(late)]
  <1> HIDE DEF ready, late, exact
  <1>9. n \in Worker
    BY <1>1, <1>4, <1>5, <1>7 DEF Worker, Stages
  <1>10. worker' = [worker EXCEPT ![w] = n] /\ ~Acted(worker[w])
    BY <1>1, <1>6 DEF IInv, Typed, TxStart, Acted
  <1>11. /\ n.pc = (IF o = "execute" /\ c \in External THEN "call" ELSE "commit")
         /\ n.outcome = o /\ n.grant = Newest(ready) /\ n.stale = Newest(late)
         /\ n.msg = worker[w].msg /\ n.subject = worker[w].subject /\ n.call = c
    BY <1>1 DEF Worker
  <1> HIDE DEF n
  <1>12. Placed(n)
    BY <1>1, <1>11 DEF Placed, TxStart
  <1>13. Granted(n)
    <2>1. n.grant # 0 => n.grant \in exact
      BY <1>4, <1>11 DEF ready
    <2>2. executed[c] \in Nat
      BY <1>1 DEF IInv, Typed
    <2> QED
      BY <1>4, <1>7, <1>8, <1>11, <2>1, <2>2 DEF Granted
  <1>14. \A i \in Held(n) : ~LockedByOther(w, i)
    BY <1>4, <1>5, <1>8, <1>11 DEF Held, ready, late
  <1>15. /\ msgs' = msgs /\ rows' = rows /\ executed' = executed /\ effects' = effects
         /\ done' = done /\ killed' = killed /\ faults' = faults /\ overlaps' = overlaps
    BY DEF TxStart, rowVars
  <1>16. EffectsCounted'
    BY <1>9, <1>10, <1>15, EffectsKept DEF IInv, Typed
  <1> QED
    BY <1>9, <1>10, <1>12, <1>13, <1>14, <1>15, <1>16, LocalStep DEF IInv, Typed

\* CallProvider: an effect that is not answered is a fault's, one that is will be committed.
LEMMA CallProviderKeeps ==
    ASSUME IInv, NEW w \in Workers, CallProvider(w)
    PROVE  IInv'
  <1>1. worker[w] \in Worker /\ Placed(worker[w]) /\ Granted(worker[w])
    BY DEF IInv, Typed, WorkersPlaced
  <1>2. PICK c \in Calls : /\ c = worker[w].call /\ c \in External
                           /\ worker[w].outcome = "execute" /\ worker[w].pc = "call"
    BY <1>1 DEF Granted, Placed, CallProvider
  <1>3. PICK acted \in 0..1, lost \in 0..1, again \in 0..1 :
          /\ acted = 1 \/ lost = 0
          /\ faults' = faults + lost + again /\ faults' <= MaxFaults
          /\ effects' = [effects EXCEPT ![c] = @ + acted + again]
          /\ worker' = [worker EXCEPT ![w].pc = "commit",
                          ![w].outcome = IF acted = 1 /\ lost = 0 THEN "execute" ELSE "refused"]
    BY <1>2 DEF CallProvider
  <1> DEFINE n == [worker[w] EXCEPT !.pc = "commit",
                     !.outcome = IF acted = 1 /\ lost = 0 THEN "execute" ELSE "refused"]
  <1>4. n \in Worker
    BY <1>1 DEF Worker, Stages, Outcomes
  <1>5. worker' = [worker EXCEPT ![w] = n]
    BY <1>1, <1>3 DEF IInv, Typed
  <1>6. /\ n.pc = "commit" /\ n.outcome = (IF acted = 1 /\ lost = 0 THEN "execute" ELSE "refused")
        /\ n.msg = worker[w].msg /\ n.subject = worker[w].subject /\ n.call = c
        /\ n.grant = worker[w].grant /\ n.stale = worker[w].stale
    BY <1>1, <1>2 DEF Worker
  <1> HIDE DEF n
  <1>7. Placed(n) /\ Granted(n)
    BY <1>1, <1>2, <1>6 DEF Placed, Granted
  <1>8. \A i \in Held(n) : ~LockedByOther(w, i)
    BY <1>6, OwnLock DEF Held
  <1>9. /\ msgs' = msgs /\ rows' = rows /\ executed' = executed
        /\ done' = done /\ killed' = killed /\ overlaps' = overlaps
    BY DEF CallProvider, rowVars
  <1>10. faults \in Nat /\ faults' \in Nat /\ faults' \in 0..MaxFaults /\ faults <= faults'
    BY <1>3 DEF IInv, Typed
  <1>11. effects' \in [Calls -> Nat]
    BY <1>2, <1>3 DEF IInv, Typed
  <1>12. EffectsCounted'
    <2>1. \A d \in Calls : Outstanding(d) = 0
      BY <1>2, OneExecutes DEF Outstanding, Acted
    <2>2. \A d \in Calls : Outstanding(d)' \in {0, 1}
      BY DEF Outstanding
    <2>3. acted = 1 /\ lost = 0 => Outstanding(c)' = 1
      <3>1. worker'[w] = n
        BY <1>5 DEF IInv, Typed
      <3> QED
        BY <1>6, <3>1 DEF Outstanding, Acted
    <2>4. ASSUME NEW d \in Calls
          PROVE  IF d \in External THEN effects'[d] <= executed[d] + Outstanding(d)' + faults'
                 ELSE effects'[d] = executed[d]
      <3>1. IF d \in External THEN effects[d] <= executed[d] + faults
            ELSE effects[d] = executed[d]
        BY <2>1, <1>10 DEF IInv, EffectsCounted, Typed
      <3>2. effects[d] \in Nat /\ executed[d] \in Nat /\ Outstanding(d)' \in {0, 1}
        BY <2>2 DEF IInv, Typed
      <3>3. CASE d # c
        <4>1. effects'[d] = effects[d]
          BY <1>3, <3>3 DEF IInv, Typed
        <4> QED
          BY <3>1, <3>2, <4>1, <1>10
      <3>4. CASE d = c
        <4>1. effects'[d] = effects[d] + acted + again
          BY <1>3, <3>4 DEF IInv, Typed
        <4>2. acted <= Outstanding(d)' + lost
          BY <1>3, <2>3, <3>2, <3>4
        <4> QED
          BY <1>3, <3>1, <3>2, <3>4, <4>1, <4>2, <1>2, <1>10
      <3> QED
        BY <3>3, <3>4
    <2> QED
      BY <2>4, <1>9 DEF EffectsCounted
  <1> QED
    BY <1>4, <1>5, <1>7, <1>8, <1>9, <1>10, <1>11, <1>12, LocalStep DEF IInv, Typed

-----------------------------------------------------------------------------
(* The steps that write rows. *)

\* A step of w that writes rows nobody else has locked, and leaves it without locks.
LEMMA RowStep ==
    ASSUME IInv, NEW w \in Workers, NEW n \in Worker,
           worker' = [worker EXCEPT ![w] = n], ~Acted(worker[w]),
           msgs' = msgs, done' = done, killed' = killed, executed' = executed, effects' = effects,
           faults' = faults, overlaps' = overlaps,
           rows' \in Seq(Row), DOMAIN rows \subseteq DOMAIN rows',
           OneActive', RowsAnswered', \A c \in Calls : Spent(c) => Spent(c)',
           \A i \in DOMAIN rows : /\ rows'[i].call = rows[i].call
                                  /\ rows'[i].status = rows[i].status \/ ~LockedByOther(w, i),
           Placed(n), n.pc \notin {"tool", "call", "commit"}
    PROVE  IInv'
  <1>1. n.outcome = "none" /\ n.grant = 0 /\ n.stale = 0 /\ Held(n) = {}
    BY DEF Placed, Held
  <1>2. Typed'
    BY DEF IInv, Typed
  <1>3. LocksDiffer'
    BY <1>1, LocksKept
  <1>4. \A v \in Workers : v # w => (Placed(worker[v]) /\ Granted(worker[v]))'
    BY OthersPlaced DEF IInv, Typed
  <1>5. (Placed(worker[w]) /\ Granted(worker[w]))'
    <2>1. worker'[w] = n
      BY DEF IInv, Typed
    <2> QED
      BY <1>1, <2>1 DEF Placed, Granted
  <1>6. WorkersPlaced'
    BY <1>4, <1>5 DEF WorkersPlaced
  <1>7. EffectsCounted'
    BY EffectsKept DEF IInv, Typed
  <1>8. ExecutedSpent'
    BY DEF IInv, ExecutedSpent
  <1> QED
    BY <1>2, <1>3, <1>6, <1>7, <1>8 DEF IInv

\* Such a step that moves rows and adds none.
LEMMA MoveStep ==
    ASSUME IInv, NEW w \in Workers, NEW n \in Worker,
           worker' = [worker EXCEPT ![w] = n], ~Acted(worker[w]),
           msgs' = msgs, done' = done, killed' = killed, executed' = executed, effects' = effects,
           faults' = faults, overlaps' = overlaps,
           DOMAIN rows' = DOMAIN rows, rows' = [i \in DOMAIN rows |-> rows'[i]],
           \A i \in DOMAIN rows : /\ rows'[i] \in Row /\ Moves(rows[i], rows'[i])
                                  /\ rows'[i].status = rows[i].status \/ ~LockedByOther(w, i),
           Placed(n), n.pc \notin {"tool", "call", "commit"}
    PROVE  IInv'
  <1>1. rows' \in Seq(Row)
    BY Rewritten DEF IInv, Typed
  <1>2. OneActive' /\ RowsAnswered' /\ \A c \in Calls : Spent(c) => Spent(c)'
    BY <1>1, RowsMoved
  <1>3. \A i \in DOMAIN rows : rows'[i].call = rows[i].call
    BY DEF Moves
  <1> QED
    BY <1>1, <1>2, <1>3, RowStep

\* TimePasses: nobody's status changes.
LEMMA TimePassesKeeps == ASSUME IInv, TimePasses PROVE IInv'
  <1>1. PICK i \in DOMAIN rows : rows' = [rows EXCEPT ![i].late = TRUE]
    BY DEF TimePasses, ActiveRows
  <1>2. /\ DOMAIN rows' = DOMAIN rows /\ rows' = [k \in DOMAIN rows |-> rows'[k]]
        /\ \A k \in DOMAIN rows : rows'[k] = IF k = i THEN [rows[k] EXCEPT !.late = TRUE] ELSE rows[k]
    BY <1>1 DEF IInv, Typed
  <1>3. \A k \in DOMAIN rows : /\ rows'[k] \in Row
                               /\ rows'[k].call = rows[k].call /\ rows'[k].status = rows[k].status
                               /\ rows'[k].response = rows[k].response
    <2>1. \A k \in DOMAIN rows : rows[k] \in Row
      BY RowList DEF IInv, Typed
    <2> QED
      BY <1>2, <2>1, MarkedRow
  <1>4. rows' \in Seq(Row)
    BY <1>2, <1>3, Rewritten DEF IInv, Typed
  <1>5. /\ msgs' = msgs /\ done' = done /\ killed' = killed /\ executed' = executed /\ effects' = effects
        /\ worker' = worker /\ faults' = faults /\ overlaps' = overlaps
    BY DEF TimePasses
  <1>6. OneActive' /\ RowsAnswered' /\ \A c \in Calls : Spent(c) => Spent(c)'
    BY <1>2, <1>3, <1>4, <1>5, RowsMoved DEF Moves
  <1>7. Typed' /\ ExecutedSpent'
    BY <1>4, <1>5, <1>6 DEF IInv, Typed, ExecutedSpent
  <1>8. WorkersPlaced' /\ LocksDiffer'
    BY <1>2, <1>3, <1>5 DEF IInv, WorkersPlaced, Placed, Granted, LocksDiffer, Held
  <1>9. EffectsCounted'
    BY <1>5 DEF IInv, EffectsCounted, Outstanding, Acted
  <1> QED
    BY <1>6, <1>7, <1>8, <1>9 DEF IInv

\* The customer's answer to a row.
LEMMA AnswerMoves ==
    ASSUME IInv, NEW m \in DOMAIN msgs, NEW r \in Row, r.status \in Active
    PROVE  Answer(r, m) \in Row /\ Moves(r, Answer(r, m))
  <1>1. m \in 0..MaxMessages /\ m # 0 /\ msgs[m] \in Decisions
    BY DEF IInv, Typed
  <1>2. CASE r.status = "pending" /\ ~r.late /\ msgs[m] # "ambiguous"
    <2>1. Answer(r, m) = [r EXCEPT !.status = msgs[m], !.response = m]
      BY <1>2 DEF Answer
    <2> QED
      BY <1>1, <1>2, <2>1 DEF Row, Moves, Consent, Decisions, Active, Closed
  <1>3. CASE ~(r.status = "pending" /\ ~r.late /\ msgs[m] # "ambiguous")
    BY <1>3, ExpireRow DEF Answer, Moves
  <1> QED
    BY <1>2, <1>3

\* Resolve: the answer reaches the open row, and nobody has it locked.
LEMMA ResolveKeeps ==
    ASSUME IInv, NEW w \in Workers, Resolve(w)
    PROVE  IInv'
  <1>1. worker[w] \in Worker /\ Placed(worker[w]) /\ worker[w].msg \in DOMAIN msgs
    BY DEF IInv, Typed, WorkersPlaced, Placed, Resolve
  <1>2. /\ DOMAIN rows' = DOMAIN rows /\ rows' = [i \in DOMAIN rows |-> rows'[i]]
        /\ \A i \in DOMAIN rows :
              rows'[i] = IF i \in ActiveRows THEN Answer(rows[i], worker[w].msg) ELSE rows[i]
    BY DEF Resolve
  <1>3. ASSUME NEW i \in DOMAIN rows
        PROVE  /\ rows'[i] \in Row /\ Moves(rows[i], rows'[i])
               /\ rows'[i].status = rows[i].status \/ ~LockedByOther(w, i)
    <2>1. rows[i] \in Row
      BY RowList DEF IInv, Typed
    <2>2. CASE i \in ActiveRows
      <3>1. rows[i].status \in Active /\ ~LockedByOther(w, i)
        BY <2>2 DEF ActiveRows, Resolve, Unlocked
      <3> QED
        BY <1>1, <1>2, <2>1, <2>2, <3>1, AnswerMoves
    <2>3. CASE i \notin ActiveRows
      BY <1>2, <2>1, <2>3 DEF Moves
    <2> QED
      BY <2>2, <2>3
  <1>4. PICK n \in Worker : /\ worker' = [worker EXCEPT ![w] = n] /\ Placed(n)
                            /\ n.pc \notin {"tool", "call", "commit"}
    <2>1. ASSUME NEW i \in ActiveRows,
                 worker' = [worker EXCEPT ![w].pc = "confirmed", ![w].subject = i]
          PROVE  \E n \in Worker : /\ worker' = [worker EXCEPT ![w] = n] /\ Placed(n)
                                   /\ n.pc \notin {"tool", "call", "commit"}
      <3> DEFINE n == [worker[w] EXCEPT !.pc = "confirmed", !.subject = i]
      <3>1. i \in DOMAIN rows /\ i \in Nat /\ i # 0
        BY RowList DEF ActiveRows, IInv, Typed
      <3>2. n \in Worker
        BY <1>1, <3>1 DEF Worker, Stages
      <3>3. Placed(n) /\ n.pc \notin {"tool", "call", "commit"}
        BY <1>1, <3>1 DEF Placed, Worker, Resolve
      <3>4. worker' = [worker EXCEPT ![w] = n]
        BY <1>1, <2>1 DEF IInv, Typed, Worker
      <3> HIDE DEF n
      <3> QED
        BY <3>2, <3>3, <3>4
    <2>2. ASSUME worker' = [worker EXCEPT ![w].pc = "agent"]
          PROVE  \E n \in Worker : /\ worker' = [worker EXCEPT ![w] = n] /\ Placed(n)
                                   /\ n.pc \notin {"tool", "call", "commit"}
      <3> DEFINE n == [worker[w] EXCEPT !.pc = "agent"]
      <3>1. n \in Worker
        BY <1>1 DEF Worker, Stages
      <3>2. Placed(n) /\ n.pc \notin {"tool", "call", "commit"}
        BY <1>1 DEF Placed, Worker, Resolve
      <3>3. worker' = [worker EXCEPT ![w] = n]
        BY <1>1, <2>2 DEF IInv, Typed, Worker
      <3> HIDE DEF n
      <3> QED
        BY <3>1, <3>2, <3>3
    <2> QED
      BY <2>1, <2>2 DEF Resolve
  <1>5. /\ msgs' = msgs /\ done' = done /\ killed' = killed /\ executed' = executed /\ effects' = effects
        /\ faults' = faults /\ overlaps' = overlaps /\ ~Acted(worker[w])
    BY DEF Resolve, Acted
  <1> QED
    BY <1>2, <1>3, <1>4, <1>5, MoveStep

\* RecordResult: the row keeps its status.
LEMMA RecordResultKeeps ==
    ASSUME IInv, NEW w \in Workers, RecordResult(w)
    PROVE  IInv'
  <1> DEFINE s == worker[w].subject
  <1>1. worker[w] \in Worker /\ Placed(worker[w])
    BY DEF IInv, Typed, WorkersPlaced
  <1>2. /\ DOMAIN rows' = DOMAIN rows /\ rows' = [i \in DOMAIN rows |-> rows'[i]]
        /\ \A i \in DOMAIN rows : rows'[i] = IF i = s THEN [rows[i] EXCEPT !.tried = TRUE] ELSE rows[i]
    BY DEF RecordResult, IInv, Typed
  <1>3. \A i \in DOMAIN rows : /\ rows'[i] \in Row /\ Moves(rows[i], rows'[i])
                               /\ rows'[i].status = rows[i].status
    <2>1. \A i \in DOMAIN rows : rows[i] \in Row
      BY RowList DEF IInv, Typed
    <2> QED
      BY <1>2, <2>1, MarkedRow DEF Moves
  <1>4. PICK n \in Worker : n = [worker[w] EXCEPT !.pc = "agent", !.subject = 0]
    BY <1>1 DEF Worker, Stages
  <1>5. worker' = [worker EXCEPT ![w] = n] /\ ~Acted(worker[w])
    BY <1>1, <1>4 DEF RecordResult, IInv, Typed, Acted
  <1>6. Placed(n) /\ n.pc \notin {"tool", "call", "commit"}
    BY <1>1, <1>4 DEF Placed, Worker, RecordResult
  <1>7. /\ msgs' = msgs /\ done' = done /\ killed' = killed /\ executed' = executed /\ effects' = effects
        /\ faults' = faults /\ overlaps' = overlaps
    BY DEF RecordResult
  <1> QED
    BY <1>2, <1>3, <1>5, <1>6, <1>7, MoveStep

\* BuildContext: only the active row can expire, and nobody has it locked.
LEMMA BuildContextKeeps ==
    ASSUME IInv, NEW w \in Workers, BuildContext(w)
    PROVE  IInv'
  <1>1. worker[w] \in Worker /\ Placed(worker[w])
    BY DEF IInv, Typed, WorkersPlaced
  <1>2. /\ DOMAIN rows' = DOMAIN rows /\ rows' = [i \in DOMAIN rows |-> rows'[i]]
        /\ \A i \in DOMAIN rows : rows'[i] = Expire(rows[i])
    BY DEF BuildContext
  <1>3. ASSUME NEW i \in DOMAIN rows
        PROVE  /\ rows'[i] \in Row /\ Moves(rows[i], rows'[i])
               /\ rows'[i].status = rows[i].status \/ ~LockedByOther(w, i)
    <2>1. rows[i] \in Row
      BY RowList DEF IInv, Typed
    <2>2. rows[i].status \in Active => ~LockedByOther(w, i)
      BY DEF ActiveRows, BuildContext, Unlocked
    <2> QED
      BY <1>2, <2>1, <2>2, ExpireRow DEF Moves
  <1>4. PICK n \in Worker : n = [worker[w] EXCEPT !.pc = "loop", !.rounds = MaxRounds]
    <2>1. MaxRounds \in 0..MaxRounds
      OBVIOUS
    <2> QED
      BY <1>1, <2>1 DEF Worker, Stages
  <1>5. worker' = [worker EXCEPT ![w] = n] /\ ~Acted(worker[w])
    BY <1>1, <1>4 DEF BuildContext, IInv, Typed, Acted
  <1>6. Placed(n) /\ n.pc \notin {"tool", "call", "commit"}
    BY <1>1, <1>4 DEF Placed, Worker, BuildContext
  <1>7. /\ msgs' = msgs /\ done' = done /\ killed' = killed /\ executed' = executed /\ effects' = effects
        /\ faults' = faults /\ overlaps' = overlaps
    BY DEF BuildContext
  <1> QED
    BY <1>2, <1>3, <1>5, <1>6, <1>7, MoveStep

-----------------------------------------------------------------------------
(* The commits. *)

\* What a transaction leaves of a row: the grant used, or what it had to expire expired.
LEMMA CommittedRow ==
    ASSUME IInv, NEW w \in Workers, NEW i \in DOMAIN rows,
           NEW q \in {Used(w)[i], Kept(w)[i]}
    PROVE  /\ q \in Row /\ Moves(rows[i], q)
           /\ q.status = rows[i].status \/ ~LockedByOther(w, i)
  <1>1. rows[i] \in Row /\ i # 0
    BY RowList DEF IInv, Typed
  <1>2. Granted(worker[w])
    BY DEF IInv, WorkersPlaced
  <1>3. CASE q = Used(w)[i]
    <2>1. q = IF i = worker[w].grant THEN [rows[i] EXCEPT !.status = "consumed"] ELSE rows[i]
      BY <1>3 DEF Used
    <2>2. CASE i = worker[w].grant
      <3>1. rows[i].status = "confirmed"
        BY <1>1, <1>2, <2>2 DEF Granted
      <3>2. ~LockedByOther(w, i)
        BY <1>1, <2>2, OwnLock DEF Held
      <3> QED
        BY <1>1, <2>1, <2>2, <3>1, <3>2 DEF Row, Moves, Active, Closed
    <2>3. CASE i # worker[w].grant
      BY <1>1, <2>1, <2>3 DEF Moves
    <2> QED
      BY <2>2, <2>3
  <1>4. CASE q = Kept(w)[i]
    <2>1. q = IF i = worker[w].stale THEN Expire(rows[i]) ELSE rows[i]
      BY <1>4 DEF Kept
    <2>2. CASE i = worker[w].stale
      <3>1. ~LockedByOther(w, i)
        BY <1>1, <2>2, OwnLock DEF Held
      <3> QED
        BY <1>1, <2>1, <2>2, <3>1, ExpireRow DEF Moves
    <2>3. CASE i # worker[w].stale
      BY <1>1, <2>1, <2>3 DEF Moves
    <2> QED
      BY <2>2, <2>3
  <1> QED
    BY <1>3, <1>4

\* CommitDuplicate and CommitRefused: a row moves, and nothing else.
LEMMA CommitMovesKeeps ==
    ASSUME IInv, NEW w \in Workers, TxCommit(w), CommitDuplicate(w) \/ CommitRefused(w)
    PROVE  IInv'
  <1>1. rows' \in {Used(w), Kept(w)} /\ executed' = executed /\ effects' = effects
    BY DEF CommitDuplicate, CommitRefused
  <1>2. /\ DOMAIN rows' = DOMAIN rows /\ rows' = [i \in DOMAIN rows |-> rows'[i]]
        /\ \A i \in DOMAIN rows : rows'[i] \in {Used(w)[i], Kept(w)[i]}
    BY <1>1 DEF Used, Kept
  <1>3. \A i \in DOMAIN rows : /\ rows'[i] \in Row /\ Moves(rows[i], rows'[i])
                               /\ rows'[i].status = rows[i].status \/ ~LockedByOther(w, i)
    BY <1>2, CommittedRow
  <1>4. PICK n \in Worker : n = Released(worker[w])
    BY AfterTxWorker DEF TxCommit
  <1>5. worker' = [worker EXCEPT ![w] = n] /\ Placed(n) /\ n.pc \notin {"tool", "call", "commit"}
    BY <1>4, AfterTxWorker DEF TxCommit, Released, Worker
  <1>6. /\ msgs' = msgs /\ done' = done /\ killed' = killed /\ faults' = faults /\ overlaps' = overlaps
        /\ ~Acted(worker[w])
    BY DEF TxCommit, CommitDuplicate, CommitRefused, Acted
  <1> QED
    BY <1>1, <1>2, <1>3, <1>5, <1>6, MoveStep

\* create_or_reuse_confirmation on a row: it stays, or it is closed.
LEMMA ClosedRow ==
    ASSUME NEW r \in Row, NEW c \in Calls
    PROVE  /\ CloseFor(r, c) \in Row /\ CloseFor(r, c).call = r.call
           /\ \/ CloseFor(r, c) = r /\ (Reusable(r, c) \/ r.status \notin Active)
              \/ r.status \in Active /\ CloseFor(r, c).status \in {"expired", "cancelled"}
  <1>1. CASE r.status \notin Active
    BY <1>1 DEF CloseFor, Reusable, Expire, Active
  <1>2. CASE r.status \in Active /\ Reusable(r, c)
    BY <1>2 DEF CloseFor, Reusable
  <1>3. CASE r.status \in Active /\ ~Reusable(r, c) /\ r.late
    <2>1. CloseFor(r, c) = [r EXCEPT !.status = "expired"]
      BY <1>3 DEF CloseFor, Expire
    <2> QED
      BY <1>3, <2>1 DEF Row, Active, Closed
  <1>4. CASE r.status \in Active /\ ~Reusable(r, c) /\ ~r.late
    <2>1. CloseFor(r, c) = [r EXCEPT !.status = "cancelled"]
      BY <1>4 DEF CloseFor
    <2> QED
      BY <1>4, <2>1 DEF Row, Active, Closed
  <1> QED
    BY <1>1, <1>2, <1>3, <1>4

\* CommitAsk: the question is the one that is open, or a new one beside closed ones.
LEMMA CommitAskKeeps ==
    ASSUME IInv, NEW w \in Workers, TxCommit(w), CommitAsk(w)
    PROVE  IInv'
  <1> USE DEF CommitAsk
  <1>1. PICK c \in Calls : c = worker[w].call
    BY DEF IInv, WorkersPlaced, Placed, TxCommit
  <1> DEFINE rs == Kept(w)
             closed == [i \in DOMAIN rs |-> CloseFor(rs[i], c)]
  <1>2. rows \in Seq(Row) /\ DOMAIN closed = DOMAIN rows /\ DOMAIN rs = DOMAIN rows
    BY DEF IInv, Typed, Kept
  <1>3. ASSUME NEW i \in DOMAIN rows
        PROVE  /\ closed[i] \in Row /\ Moves(rows[i], closed[i])
               /\ closed[i].status = rows[i].status \/ ~LockedByOther(w, i)
               /\ closed[i].status \in Active => Reusable(rs[i], c) /\ rows[i].status \in Active
    <2>1. rs[i] \in Row /\ Moves(rows[i], rs[i])
          /\ (rs[i].status = rows[i].status \/ ~LockedByOther(w, i))
      BY CommittedRow
    <2>2. closed[i] = CloseFor(rs[i], c)
      BY <1>2
    <2>3. rows[i].status \in Active => ~LockedByOther(w, i)
      BY DEF ActiveRows, Unlocked
    <2>4. rows[i] \in Row
      BY <1>2, RowList
    <2> HIDE DEF rs, closed
    <2>5. \/ closed[i] = rs[i] /\ (Reusable(rs[i], c) \/ rs[i].status \notin Active)
          \/ rs[i].status \in Active /\ closed[i].status \in {"expired", "cancelled"}
      BY <2>1, <2>2, ClosedRow
    <2>6. closed[i] \in Row /\ closed[i].call = rows[i].call
      BY <2>1, <2>2, ClosedRow DEF Moves
    <2>7. rs[i].status \in Active => rows[i].status \in Active
      BY <2>1, <2>4 DEF Moves, Active
    <2>8. Moves(rows[i], closed[i])
      BY <2>1, <2>5, <2>6, <2>7 DEF Moves
    <2>9. closed[i].status \in Active => Reusable(rs[i], c) /\ rows[i].status \in Active
      BY <2>5, <2>7 DEF Active
    <2>10. closed[i].status = rows[i].status \/ ~LockedByOther(w, i)
      BY <2>1, <2>3, <2>5, <2>7
    <2> QED
      BY <2>6, <2>8, <2>9, <2>10
  <1>4. closed \in Seq(Row) /\ Len(closed) = Len(rows)
    BY <1>2, <1>3, Rewritten
  <1>5. rows' = IF \E i \in DOMAIN rs : Reusable(rs[i], c) THEN closed ELSE Append(closed, NewRow(c))
    BY <1>1 DEF CreateOrReuse
  <1>6. PICK n \in Worker : n = Released(worker[w])
    BY AfterTxWorker DEF TxCommit
  <1>7. worker' = [worker EXCEPT ![w] = n] /\ Placed(n) /\ n.pc \notin {"tool", "call", "commit"}
    BY <1>6, AfterTxWorker DEF TxCommit, Released, Worker
  <1>8. /\ msgs' = msgs /\ done' = done /\ killed' = killed /\ faults' = faults /\ overlaps' = overlaps
        /\ executed' = executed /\ effects' = effects /\ ~Acted(worker[w])
    BY DEF TxCommit, Acted
  <1>9. CASE \E i \in DOMAIN rs : Reusable(rs[i], c)
    <2>1. rows' = closed
      BY <1>5, <1>9
    <2>2. /\ DOMAIN rows' = DOMAIN rows /\ rows' = [i \in DOMAIN rows |-> rows'[i]]
          /\ \A i \in DOMAIN rows : rows'[i] = closed[i]
      BY <1>2, <2>1
    <2> HIDE DEF rs, closed
    <2> QED
      BY <1>3, <1>7, <1>8, <2>2, MoveStep
  <1>10. CASE ~\E i \in DOMAIN rs : Reusable(rs[i], c)
    <2>1. rows' = Append(closed, NewRow(c))
      BY <1>5, <1>10
    <2>2. NewRow(c) \in Row
      BY DEF NewRow, Row, Active
    <2>3. \A i \in DOMAIN rows : closed[i].status \notin Active
      BY <1>2, <1>3, <1>10
    <2> HIDE DEF rs, closed
    <2>4. /\ rows' \in Seq(Row) /\ DOMAIN rows' = DOMAIN rows \cup {Len(rows) + 1}
          /\ \A i \in DOMAIN rows : rows'[i] = closed[i]
          /\ rows'[Len(rows) + 1] = NewRow(c)
      BY <1>2, <1>4, <2>1, <2>2
    <2>5. OneActive'
      BY <2>3, <2>4 DEF OneActive, ActiveRows
    <2>6. RowsAnswered'
      <3>1. \A i \in DOMAIN rows : closed[i].status \in {"confirmed", "consumed"}
                                     => Consent(closed[i].response)
        BY <1>3, <2>3 DEF IInv, RowsAnswered, Moves, Consent, Active
      <3>2. NewRow(c).status \notin {"confirmed", "consumed"}
        BY DEF NewRow
      <3> QED
        BY <1>8, <2>4, <3>1, <3>2 DEF RowsAnswered, Consent
    <2>7. \A d \in Calls : Spent(d) => Spent(d)'
      BY <1>3, <2>4 DEF Spent, Moves, Active
    <2>8. \A i \in DOMAIN rows : rows'[i].call = rows[i].call
      BY <1>3, <2>4 DEF Moves
    <2> QED
      BY <1>3, <1>7, <1>8, <2>4, <2>5, <2>6, <2>7, <2>8, RowStep
  <1> QED
    BY <1>9, <1>10

\* CommitExecuted: the one execution of its call, and its confirmation used up.
LEMMA CommitExecutedKeeps ==
    ASSUME IInv, NEW w \in Workers, TxCommit(w), CommitExecuted(w)
    PROVE  IInv'
  <1> USE DEF CommitExecuted
  <1>1. worker[w] \in Worker /\ Placed(worker[w]) /\ Granted(worker[w])
    BY DEF IInv, Typed, WorkersPlaced
  <1>2. PICK c \in Calls : c = worker[w].call
    BY <1>1 DEF Placed, TxCommit
  <1>3. /\ executed \in [Calls -> Nat] /\ effects \in [Calls -> Nat] /\ executed[c] = 0
        /\ rows \in Seq(Row) /\ faults \in Nat
    BY <1>1, <1>2 DEF IInv, Typed, Granted
  <1>4. /\ executed' = [executed EXCEPT ![c] = executed[c] + 1]
        /\ effects' = IF c \in External THEN effects ELSE [effects EXCEPT ![c] = effects[c] + 1]
    BY <1>2
  <1>5. /\ DOMAIN rows' = DOMAIN rows /\ rows' = [i \in DOMAIN rows |-> rows'[i]]
        /\ \A i \in DOMAIN rows : rows'[i] \in {Used(w)[i], Kept(w)[i]}
    BY DEF Used
  <1>6. \A i \in DOMAIN rows : /\ rows'[i] \in Row /\ Moves(rows[i], rows'[i])
                               /\ rows'[i].status = rows[i].status \/ ~LockedByOther(w, i)
    BY <1>5, CommittedRow
  <1>7. rows' \in Seq(Row)
    BY <1>3, <1>5, <1>6, Rewritten
  <1>8. /\ msgs' = msgs /\ done' = done /\ killed' = killed /\ faults' = faults /\ overlaps' = overlaps
    BY DEF TxCommit
  <1>9. OneActive' /\ RowsAnswered' /\ \A d \in Calls : Spent(d) => Spent(d)'
    BY <1>5, <1>6, <1>7, <1>8, RowsMoved
  <1>10. PICK n \in Worker : n = Released(worker[w])
    BY AfterTxWorker DEF TxCommit
  <1>11. /\ worker' = [worker EXCEPT ![w] = n] /\ Placed(n)
         /\ n.pc \notin {"tool", "call", "commit"}
         /\ n.outcome = "none" /\ n.grant = 0 /\ n.stale = 0 /\ Held(n) = {}
    BY <1>10, AfterTxWorker DEF TxCommit, Released, Worker
  <1>12. \A v \in Workers : worker'[v] = IF v = w THEN n ELSE worker[v]
    BY <1>11 DEF IInv, Typed
  <1>13. Typed'
    <2>1. executed[c] + 1 \in Nat /\ effects[c] + 1 \in Nat
      BY <1>3
    <2>2. executed' \in [Calls -> Nat]
      BY <1>3, <1>4, <2>1
    <2>3. effects' \in [Calls -> Nat]
      BY <1>3, <1>4, <2>1
    <2> QED
      BY <1>7, <1>8, <1>11, <2>2, <2>3 DEF IInv, Typed
  <1>14. LocksDiffer'
    BY <1>11, LocksKept
  <1>15. WorkersPlaced'
    <2>1. \A i \in DOMAIN rows : rows'[i].call = rows[i].call
      BY <1>6 DEF Moves
    <2>2. \A v \in Workers : v # w => (Placed(worker[v]) /\ Granted(worker[v]))'
      BY <1>5, <1>6, <1>8, <1>12, <2>1, OthersPlaced
    <2>3. (Placed(worker[w]) /\ Granted(worker[w]))'
      BY <1>5, <1>8, <1>11, <1>12 DEF Placed, Granted
    <2> QED
      BY <2>2, <2>3 DEF WorkersPlaced
  <1>16. ExecutedSpent'
    <2>1. worker[w].grant \in DOMAIN rows /\ rows[worker[w].grant].call = c
      BY <1>1, <1>2 DEF Granted
    <2>2. PICK g \in DOMAIN rows : g = worker[w].grant
      BY <2>1
    <2>3. rows[g] \in Row
      BY <1>3, RowList
    <2>4. rows'[g].status = "consumed" /\ rows'[g].call = c
      BY <2>1, <2>2, <2>3 DEF Used, Row
    <2>5. Spent(c)'
      BY <1>5, <2>4 DEF Spent
    <2> QED
      BY <1>3, <1>4, <1>9, <2>5 DEF IInv, ExecutedSpent
  <1>17. EffectsCounted'
    <2>1. \A d \in Calls : /\ Outstanding(d) \in {0, 1} /\ Outstanding(d)' \in {0, 1}
                           /\ effects[d] \in Nat /\ executed[d] \in Nat
      BY <1>3 DEF Outstanding
    <2>2. ASSUME NEW d \in Calls, d # c
          PROVE  Outstanding(d) <= Outstanding(d)'
      <3>1. CASE \E v \in Workers : Acted(worker[v]) /\ worker[v].call = d
        <4>1. PICK v \in Workers : Acted(worker[v]) /\ worker[v].call = d
          BY <3>1
        <4>2. Acted(worker'[v]) /\ worker'[v].call = d
          BY <1>2, <1>12, <2>2, <4>1
        <4>3. Outstanding(d)' = 1
          BY <4>2 DEF Outstanding, Acted
        <4> QED
          BY <2>1, <4>3
      <3>2. CASE ~\E v \in Workers : Acted(worker[v]) /\ worker[v].call = d
        BY <2>1, <3>2 DEF Outstanding
      <3> QED
        BY <3>1, <3>2
    <2>3. ASSUME NEW d \in Calls
          PROVE  IF d \in External THEN effects'[d] <= executed'[d] + Outstanding(d)' + faults
                 ELSE effects'[d] = executed'[d]
      <3>1. IF d \in External THEN effects[d] <= executed[d] + Outstanding(d) + faults
            ELSE effects[d] = executed[d]
        BY DEF IInv, EffectsCounted
      <3> DEFINE before == Outstanding(d)
                 after == Outstanding(d)'
      <3>0. /\ before \in {0, 1} /\ after \in {0, 1}
            /\ effects[d] \in Nat /\ executed[d] \in Nat /\ faults \in Nat
        BY <1>3, <2>1
      <3> HIDE DEF before, after
      <3>2. CASE d # c
        <4>1. effects'[d] = effects[d] /\ executed'[d] = executed[d]
          BY <1>3, <1>4, <3>2
        <4>2. before <= after
          BY <2>2, <3>2 DEF before, after
        <4>3. CASE d \in External
          <5>1. effects[d] <= executed[d] + before + faults
            BY <3>1, <4>3 DEF before
          <5>2. effects[d] <= executed[d] + after + faults
            BY <3>0, <4>2, <5>1
          <5> QED
            BY <4>1, <4>3, <5>2 DEF after
        <4>4. CASE d \notin External
          BY <3>1, <4>1, <4>4
        <4> QED
          BY <4>3, <4>4
      <3>3. CASE d = c
        <4>1. executed'[d] = 1 /\ executed[d] = 0
          BY <1>3, <1>4, <3>3
        <4>2. effects'[d] = IF d \in External THEN effects[d] ELSE effects[d] + 1
          BY <1>3, <1>4, <3>3
        <4>3. CASE d \in External
          <5>1. effects[d] <= executed[d] + before + faults
            BY <3>1, <4>3 DEF before
          <5>2. effects'[d] <= executed'[d] + after + faults
            BY <3>0, <4>1, <4>2, <4>3, <5>1
          <5> QED
            BY <4>3, <5>2 DEF after
        <4>4. CASE d \notin External
          BY <2>1, <3>1, <4>1, <4>2, <4>4
        <4> QED
          BY <4>3, <4>4
      <3> QED
        BY <3>2, <3>3
    <2> QED
      BY <1>8, <2>3 DEF EffectsCounted
  <1> QED
    BY <1>9, <1>13, <1>14, <1>15, <1>16, <1>17 DEF IInv

\* TxCommit: one of the four commits.
LEMMA TxCommitKeeps ==
    ASSUME IInv, NEW w \in Workers, TxCommit(w)
    PROVE  IInv'
  <1>1. CommitExecuted(w) \/ CommitDuplicate(w) \/ CommitAsk(w) \/ CommitRefused(w)
    BY DEF TxCommit
  <1> QED
    BY <1>1, CommitExecutedKeeps, CommitMovesKeeps, CommitAskKeeps

-----------------------------------------------------------------------------
(* The theorems. *)

\* Every step keeps the invariant.
LEMMA Inductive == IInv /\ [Next]_vars => IInv'
  <1> SUFFICES ASSUME IInv, [Next]_vars PROVE IInv'
    OBVIOUS
  <1>1. CASE UNCHANGED vars
    <2>1. /\ msgs' = msgs /\ done' = done /\ killed' = killed /\ rows' = rows /\ executed' = executed
          /\ effects' = effects /\ worker' = worker /\ faults' = faults /\ overlaps' = overlaps
      BY <1>1 DEF vars, rowVars
    <2>2. Typed' /\ OneActive' /\ RowsAnswered' /\ ExecutedSpent'
      BY <2>1 DEF IInv, Typed, OneActive, ActiveRows, RowsAnswered, Consent, ExecutedSpent, Spent
    <2>3. WorkersPlaced' /\ LocksDiffer' /\ EffectsCounted'
      BY <2>1 DEF IInv, WorkersPlaced, Placed, Granted, LocksDiffer, Held, EffectsCounted,
                  Outstanding, Acted
    <2> QED
      BY <2>2, <2>3 DEF IInv
  <1>2. ASSUME NEW d \in Decisions, SendMessage(d) PROVE IInv'
    BY <1>2, SendMessageKeeps
  <1>3. CASE TimePasses
    BY <1>3, TimePassesKeeps
  <1>4. ASSUME NEW w \in Workers, Run(w) PROVE IInv'
    <2>1. CASE StartRun(w) \/ Resolve(w) \/ BeginConfirmed(w) \/ RecordResult(w) \/ BuildContext(w)
      BY <2>1, StartRunKeeps, ResolveKeeps, BeginConfirmedKeeps, RecordResultKeeps, BuildContextKeeps
    <2>2. ASSUME NEW c \in Calls, Propose(w, c) PROVE IInv'
      BY <2>2, ProposeKeeps
    <2>3. CASE TxRestricted(w) \/ TxStart(w) \/ CallProvider(w) \/ TxCommit(w) \/ Finish(w)
      BY <2>3, TxRestrictedKeeps, TxStartKeeps, CallProviderKeeps, TxCommitKeeps, FinishKeeps
    <2> QED
      BY <1>4, <2>1, <2>2, <2>3 DEF Run
  <1>5. ASSUME NEW w \in Workers, ToolException(w) \/ Crash(w) PROVE IInv'
    BY <1>5, ToolExceptionKeeps, CrashKeeps
  <1>6. CASE TakeOver
    BY <1>6, TakeOverKeeps
  <1> QED
    BY <1>1, <1>2, <1>3, <1>4, <1>5, <1>6 DEF Next

\* The invariant holds throughout every behaviour.
LEMMA Always == Spec => []IInv
  BY Initially, Inductive, PTL DEF Spec

\* A set that holds at most one number has at most one element.
LEMMA AtMostOne ==
    ASSUME NEW S, \A i, k \in S : i = k
    PROVE  Cardinality(S) <= 1
  <1>1. CASE S = {}
    BY <1>1, FS_EmptySet
  <1>2. CASE S # {}
    <2>1. PICK i \in S : S = {i}
      BY <1>2
    <2>2. Cardinality(S) = 1
      BY <2>1, FS_Singleton, Zenon
    <2> QED
      BY <2>2
  <1> QED
    BY <1>1, <1>2

\* The tables keep their types, and a conversation never has two open questions or
\* standing answers: what uq_agent_tool_confirmation_active_conversation demands is
\* never refused by it.
THEOREM ConfirmationTypeCorrect == Spec => []TypeOK
  <1>1. IInv => TypeOK
    BY AtMostOne DEF IInv, Typed, OneActive, TypeOK
  <1> QED
    BY <1>1, Always, PTL

\* However many runs of the job overlap, repeat or propose the call again, an action
\* recorded in Nexus takes place at most once, a provider's at most once more than
\* there were faults.
THEOREM ExecutesOnce == Spec => []ExecutedOnce
  <1>1. IInv => ExecutedOnce
    <2> SUFFICES ASSUME IInv, NEW c \in Calls
                 PROVE  effects[c] <= IF c \in External THEN 1 + faults ELSE 1
      BY DEF ExecutedOnce
    <2>1. effects[c] \in Nat /\ executed[c] \in {0, 1} /\ faults \in Nat
      BY DEF IInv, Typed, ExecutedSpent
    <2>2. CASE c \notin External
      BY <2>1, <2>2 DEF IInv, EffectsCounted
    <2>3. CASE c \in External
      <3>1. effects[c] <= executed[c] + Outstanding(c) + faults
        BY <2>3 DEF IInv, EffectsCounted
      <3>2. Outstanding(c) \in {0, 1}
        BY DEF Outstanding
      <3>3. Outstanding(c) = 1 => executed[c] = 0
        BY DEF Outstanding, Acted, IInv, WorkersPlaced, Granted
      <3> QED
        BY <2>1, <2>3, <3>1, <3>2, <3>3
    <2> QED
      BY <2>2, <2>3
  <1> QED
    BY <1>1, Always, PTL

\* As long as a transaction is about to act, or has acted and not committed, the yes to
\* exactly its call stands.
THEOREM GrantIsHeld == Spec => []GrantHeld
  <1>1. IInv => GrantHeld
    BY DEF IInv, WorkersPlaced, Granted, GrantHeld
  <1> QED
    BY <1>1, Always, PTL

\* Every execution on record has used up a confirmation of exactly its call, which a
\* message of the customer had answered with yes.
THEOREM ConsentIsSpent == Spec => []ConsentSpent
  <1>1. ASSUME IInv PROVE ConsentSpent
    <2> SUFFICES ASSUME NEW c \in Calls
                 PROVE  executed[c] <= Cardinality({i \in DOMAIN rows :
                                      /\ rows[i].call = c
                                      /\ rows[i].status = "consumed"
                                      /\ rows[i].response # 0
                                      /\ msgs[rows[i].response] = "confirmed"})
      BY DEF ConsentSpent
    <2> DEFINE S == {i \in DOMAIN rows : /\ rows[i].call = c
                                         /\ rows[i].status = "consumed"
                                         /\ rows[i].response # 0
                                         /\ msgs[rows[i].response] = "confirmed"}
    <2>1. IsFiniteSet(S) /\ Cardinality(S) \in Nat
      <3>1. IsFiniteSet(DOMAIN rows)
        <4>1. rows \in Seq(Row)
          BY <1>1 DEF IInv, Typed
        <4>2. Len(rows) \in Int /\ 1 \in Int /\ DOMAIN rows = 1..Len(rows)
          BY <4>1
        <4> HIDE DEF S
        <4> QED
          BY <4>2, FS_Interval
      <3> QED
        BY <3>1, FS_Subset, FS_CardinalityType
    <2>2. executed[c] = 1 => S # {}
      BY <1>1 DEF IInv, ExecutedSpent, Spent, RowsAnswered, Consent
    <2> HIDE DEF S
    <2>3. S # {} => Cardinality(S) # 0
      BY <2>1, FS_EmptySet
    <2>4. executed[c] <= Cardinality(S)
      BY <1>1, <2>1, <2>2, <2>3 DEF IInv, ExecutedSpent
    <2> QED
      BY <2>4 DEF S
  <1> QED
    BY <1>1, Always, PTL

=============================================================================
