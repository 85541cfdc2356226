------------------------ MODULE WebchatAiTurnProofs -------------------------
(***************************************************************************)
(* Proofs about WebchatAiTurn, for every number of messages, workers,      *)
(* reconcilers, attempts, faults and takeovers: its types, what a job may  *)
(* post (JobAnswersOnce), what a dead job may post (KilledJobSilent) and   *)
(* what may still be posted during the first takeover (LateReplyIsOrphan). *)
(*                                                                         *)
(* None of them is inductive.  A worker checks its job and commits in two  *)
(* steps, and most of what it commits was read earlier still, so the       *)
(* invariant says, for every worker, what is true of the transaction it    *)
(* has flushed: what the locks of that transaction exclude, who owns the   *)
(* job, and at the price of how many faults it may own it no longer.       *)
(***************************************************************************)
EXTENDS WebchatAiTurn, FiniteSetTheorems, SequenceTheorems, WellFoundedInduction, TLAPS

-----------------------------------------------------------------------------
(* The inductive invariant *)

Window == {"commit", "recommit"}          \* checked, and not committed yet
Flushing == {"finish"} \cup Window

Existing(t) == turn[t].status # "none"

\* Rows are those of messages posted so far, and a job has its turn.
RowsExist ==
    /\ \A t \in Turns : Existing(t) => t <= posted
    /\ \A j \in Turns : job[j].status # "none" => Existing(j)
    /\ \A j \in Turns : job[j].owner # NoWorker =>
          cur[job[j].owner] = j /\ pc[job[j].owner] # "idle" /\ job[j].status = "processing"
    /\ \A j \in Turns : job[j].expired => faults >= 1

\* A busy worker has a job; the turn its session picked was open, and what a
\* reconciler holds of an existing turn is of an existing turn.
SessionsOK ==
    /\ \A w \in Workers : pc[w] # "idle" => cur[w] \in Turns /\ Existing(cur[w])
    /\ \A w \in Workers : pc[w] \in {"loaded", "bridge", "runtime", "persist"} /\ sess[w].picked # 0
          => Existing(sess[w].picked) /\ sess[w].row.status \in Open
    /\ \A r \in Reconcilers : rec[r].on /\ rec[r].view.row.status # "none"
          => rec[r].view.picked \in Turns /\ Existing(rec[r].view.picked)

\* Flushed rows are locked for one worker.
LocksOK ==
    /\ pend = [w \in Workers |-> pend[w]]
    /\ \A w \in Workers : pc[w] \notin Flushing => pend[w] = Clean
    /\ \A v, w \in Workers : pend[v].conv /\ pend[w].conv => v = w
    /\ \A v, w \in Workers : \A t \in DOMAIN pend[v].turns \cap DOMAIN pend[w].turns : v = w

\* The AI message a job has posted.
Posted(j) == \E i \in DOMAIN replies : replies[i].by = j
TurnSilent(t) == \A i \in DOMAIN replies : replies[i].turn # t

\* What a worker may have flushed: it closes existing turns, cancels and kills
\* under the lock of the conversation, and posts one message of its own job
\* under that lock; a fallback only for its own turn while that has no message
\* and no human owns the conversation.
FlushOK(w, p) ==
    /\ \A t \in DOMAIN p.turns : Existing(t) /\ p.turns[t].status \in Terminal
    /\ \A t \in DOMAIN p.turns : p.turns[t].status = "cancelled" => p.conv
    /\ \A j \in p.killed : Existing(j) /\ p.conv
    /\ p.reply # {} =>
          /\ p.conv
          /\ p.job \in {"done", "resolved"}
          /\ \E t \in 0..MaxMessages : p.reply = {[turn |-> t, by |-> cur[w]]}
    /\ p.reply # {} /\ p.job = "resolved" =>
          /\ p.reply = {[turn |-> cur[w], by |-> cur[w]]}
          /\ TurnSilent(cur[w])
          /\ ~suspended

FlushesOK == \A w \in Workers : FlushOK(w, pend[w])

\* A worker that will post, or has flushed, an answer of its own.
Answering(w) ==
    \/ pc[w] \in {"runtime", "persist"}
    \/ pc[w] = "finish" /\ pend[w].reply # {} /\ pend[w].job = "done"

\* A message of a job answers its trigger; a worker that may still answer has
\* lost a job that was answered, and one past its check has one that was not.
AnswersOK ==
    /\ answered <= posted
    /\ \A j \in Turns : Posted(j) => j <= answered
    /\ \A w \in Workers : Answering(w) /\ Owns(w) => ~Posted(cur[w])
    /\ \A w \in Workers : pc[w] \in Window /\ pend[w].reply # {} /\ pend[w].job = "done"
          => ~Posted(cur[w])
    /\ \A w \in Workers : pc[w] = "recommit" => pend[w].job # "done"

\* A job is safe in a worker's window, or a fault has happened; without a reply
\* to post, the worker has no lock to keep a takeover or a reconciler out.
Held(w) == Owns(w) /\ ~job[cur[w]].expired

WindowsOK ==
    /\ \A w \in Workers : pc[w] \in Window =>
          \/ Held(w)
          \/ faults >= 1
          \/ pend[w].reply = {} /\ job[cur[w]].status \in {"done", "dead"}
    /\ \A v, w \in Workers : pc[v] \in Window /\ pc[w] \in Window /\ cur[v] = cur[w] /\ v # w
          => faults >= 1
    /\ \A w \in Workers : pc[w] \in Window /\ pend[w].reply # {} /\ job[cur[w]].status = "dead"
          => faults >= 2

\* A worker that does not know of the takeover, if there was one.
Unaware(w) ==
    \/ pc[w] = "loaded" /\ ~sess[w].suspended
    \/ pc[w] \in {"bridge", "runtime", "persist"}
    \/ pc[w] = "finish" /\ pend[w].reply # {}

\* Before the first takeover nothing is cancelled.  While a human owns the
\* conversation no turn is open, and during the first takeover a worker that
\* does not know of it has lost its job or a turn that was closed before.
HandoffOK ==
    /\ suspended => OpenTurns = {}
    /\ takeovers = 0 =>
          /\ ~suspended
          /\ \A t \in Turns : turn[t].status # "cancelled"
          /\ \A w \in Workers : ~sess[w].suspended
          /\ \A w \in Workers : \A t \in DOMAIN pend[w].turns : pend[w].turns[t].status # "cancelled"
    /\ takeovers < 2 /\ suspended =>
          /\ \A w \in Workers : \A t \in DOMAIN pend[w].turns :
                pend[w].turns[t].status = "cancelled" => turn[t].status = "cancelled"
          /\ \A w \in Workers : Unaware(w) /\ Owns(w) => turn[cur[w]].status # "cancelled"
          /\ \A w \in Workers : pc[w] \in Window /\ pend[w].reply # {}
                => turn[cur[w]].status # "cancelled"

IInv ==
    /\ TypeOK
    /\ RowsExist
    /\ SessionsOK
    /\ LocksOK
    /\ FlushesOK
    /\ AnswersOK
    /\ JobAnswersOnce
    /\ WindowsOK
    /\ HandoffOK

USE TurnAssumption

-----------------------------------------------------------------------------
(* What the operators return *)

\* Every non-empty set of naturals has a least element, and it is Min's choice.
LEMMA MinIsMember ==
  ASSUME NEW S \in SUBSET Nat, S # {}
  PROVE  Min(S) \in S
  <1> DEFINE Less == OpToRel(<, Nat)
  <1>1. \E x \in S : \A y \in S : ~(<<y, x>> \in Less)
    BY NatLessThanWellFounded, WFMin
  <1>2. \A x, y \in Nat : <<y, x>> \in Less <=> y < x
    BY DEF OpToRel
  <1> HIDE DEF Less
  <1>3. PICK x \in S : \A y \in S : ~(<<y, x>> \in Less)
    BY <1>1
  <1>4. \A y \in S : ~(y < x) /\ x \in Nat /\ y \in Nat
    BY <1>2, <1>3
  <1>5. \A y \in S : x <= y
    BY <1>4
  <1> QED
    BY <1>5 DEF Min

\* An UPDATE of a row leaves a row: no column of another type is written.
LEMMA UpdateTypes ==
  /\ \A c, d, n \in Turn : /\ Update(c, d, n) \in Turn
                           /\ Update(c, d, n).status = IF n.status # d.status THEN n.status ELSE c.status
                           /\ c = d => Update(c, d, n) = n
  /\ \A c, d, n \in Slot : Update(c, d, n) \in Slot
  <1>1. ASSUME NEW c \in Turn, NEW d \in Turn, NEW n \in Turn
        PROVE  /\ Update(c, d, n) \in Turn
               /\ Update(c, d, n).status = IF n.status # d.status THEN n.status ELSE c.status
               /\ c = d => Update(c, d, n) = n
    BY DEF Update, Turn
  <1>2. ASSUME NEW c \in Slot, NEW d \in Slot, NEW n \in Slot PROVE Update(c, d, n) \in Slot
    BY DEF Update, Slot
  <1> QED
    BY <1>1, <1>2

\* Releasing a turn leaves a slot.
LEMMA ReleaseTypes ==
  ASSUME TypeOK, NEW s \in Slot, NEW t \in 0..MaxMessages
  PROVE  Release(s, t) \in Slot
  BY DEF Release, promote_next_turn, Slot

\* Constants and closings of a row.
LEMMA RowTypes ==
  /\ NoTurn \in Turn /\ NoJob \in Job /\ NoSession \in Session
  /\ \A r \in Turn : /\ complete_ai_turn(r) \in Turn /\ complete_ai_turn(r).status = "completed"
                     /\ supersede_ai_turn(r) \in Turn /\ supersede_ai_turn(r).status = "superseded"
  <1>1. NoTurn \in Turn /\ NoJob \in Job
    BY DEF NoTurn, Turn, NoJob, Job
  <1>2. NoSession \in Session
    BY <1>1 DEF NoSession, Session, Slot
  <1>3. \A r \in Turn : /\ complete_ai_turn(r) \in Turn /\ complete_ai_turn(r).status = "completed"
                        /\ supersede_ai_turn(r) \in Turn /\ supersede_ai_turn(r).status = "superseded"
    BY DEF complete_ai_turn, supersede_ai_turn, Turn, Terminal
  <1> QED
    BY <1>1, <1>2, <1>3

\* A fresh read of the conversation and of a turn is a session's view.
LEMMA FreshTypes ==
  ASSUME TypeOK, NEW t \in 0..MaxMessages
  PROVE  /\ Fresh(t) \in Session
         /\ Fresh(t).picked = t /\ Fresh(t).suspended = suspended /\ Fresh(t).slot = slot
         /\ t \in Turns => Fresh(t).row = turn[t]
  BY RowTypes DEF Fresh, Session, TypeOK, Turns

\* Nothing flushed: no turn, no lock, no reply.
LEMMA CleanTypes ==
  /\ DOMAIN Clean.turns = {} /\ Clean \in Pending({})
  /\ Clean.conv = FALSE /\ Clean.killed = {} /\ Clean.reply = {} /\ Clean.job = "none"
  <1>1. Clean.turns = [t \in {} |-> NoTurn] /\ Clean.turns \in [{} -> Turn]
    BY DEF Clean
  <1>2. DOMAIN Clean.turns = {}
    BY <1>1
  <1> QED
    BY <1>1, <1>2 DEF Clean, Pending, Slot

\* A transaction that closes nothing.
LEMMA CleanFlush ==
  ASSUME NEW w \in Workers
  PROVE  FlushOK(w, Clean)
  BY CleanTypes DEF FlushOK

\* The number of messages of a turn is positive if and only if it has one.
LEMMA SilentTurns ==
  ASSUME TypeOK, NEW t
  PROVE  RepliesOf(t) \in Nat /\ (RepliesOf(t) = 0 <=> TurnSilent(t))
  <1> DEFINE S == {i \in DOMAIN replies : replies[i].turn = t}
  <1>1. IsFiniteSet(DOMAIN replies)
    <2>1. DOMAIN replies = 1..Len(replies) /\ Len(replies) \in Nat
      BY DEF TypeOK
    <2> QED
      BY <2>1, FS_Interval
  <1>2. IsFiniteSet(S)
    BY <1>1, FS_Subset
  <1>3. Cardinality(S) \in Nat /\ (Cardinality(S) = 0 <=> S = {})
    BY <1>2, FS_CardinalityType, FS_EmptySet
  <1>4. S = {} <=> TurnSilent(t)
    BY DEF TurnSilent
  <1>5. RepliesOf(t) = Cardinality(S)
    BY DEF RepliesOf
  <1> QED
    BY <1>3, <1>4, <1>5

-----------------------------------------------------------------------------
(* What a worker flushes *)

\* What FlushStep asks of a transaction beyond FlushOK.
FlushGood(w, p) ==
    /\ DOMAIN p.turns \subseteq Turns
    /\ p \in Pending(DOMAIN p.turns)
    /\ FlushOK(w, p)
    /\ p.job # "none"
    /\ p.reply # {} /\ p.job = "done" => pc[w] = "persist"
    /\ p.reply # {} => ~suspended \/ pc[w] = "persist"
    /\ \A t \in DOMAIN p.turns : p.turns[t].status = "cancelled" =>
          takeovers # 0 /\ (takeovers < 2 /\ suspended => turn[t].status = "cancelled")

\* The columns of an ended turn.
LEMMA EndingTypes ==
  ASSUME TypeOK, NEW view \in Session, NEW row \in Turn, NEW newSlot \in Slot,
         NEW outcome \in {"done", "resolved"}
  PROVE  LET p == Ending(view, row, newSlot, outcome)
         IN  /\ DOMAIN p.turns = {view.picked} \ {0} /\ DOMAIN p.turns \subseteq Turns
             /\ p \in Pending(DOMAIN p.turns)
             /\ p.reply = {} /\ p.killed = {} /\ p.job = outcome
             /\ \A t \in DOMAIN p.turns : p.turns[t] = Update(turn[t], view.row, row)
  <1> DEFINE t == view.picked
             p == Ending(view, row, newSlot, outcome)
             T == {t} \ {0}
             f == [i \in T |-> Update(turn[i], view.row, row)]
  <1>1. t \in 0..MaxMessages /\ view.row \in Turn /\ view.slot \in Slot
    BY DEF Session
  <1>2. T \subseteq Turns
    BY <1>1 DEF Turns
  <1>3. \A i \in T : Update(turn[i], view.row, row) \in Turn
    BY <1>1, <1>2, UpdateTypes DEF TypeOK
  <1>4. f \in [T -> Turn] /\ DOMAIN f = T
    BY <1>3
  <1>5. Update(slot, view.slot, newSlot) \in Slot
    BY <1>1, UpdateTypes DEF TypeOK
  <1>6. p = [turns |-> f, conv |-> newSlot # view.slot, slot |-> Update(slot, view.slot, newSlot),
             killed |-> {}, reply |-> {}, job |-> outcome, attempts |-> 0]
    BY DEF Ending
  <1> HIDE DEF p, f
  <1>7. p.turns = f /\ p.killed = {} /\ p.reply = {} /\ p.job = outcome
    BY <1>6
  <1>8. p \in Pending(T)
    BY <1>4, <1>5, <1>6 DEF Pending
  <1>9. \A i \in T : f[i] = Update(turn[i], view.row, row)
    BY DEF f
  <1> QED
    BY <1>2, <1>4, <1>7, <1>8, <1>9 DEF p

\* A job may be done with nothing else.
LEMMA DoneGood ==
  ASSUME NEW w \in Workers
  PROVE  FlushGood(w, [Clean EXCEPT !.job = "done"])
  <1> DEFINE p == [Clean EXCEPT !.job = "done"]
  <1>1. p.turns = Clean.turns /\ ~p.conv /\ p.killed = {} /\ p.reply = {} /\ p.job = "done"
    BY DEF Clean
  <1>2. p \in Pending({}) /\ DOMAIN p.turns = {}
    BY CleanTypes, <1>1 DEF Pending
  <1> HIDE DEF p
  <1>3. FlushGood(w, p)
    BY <1>1, <1>2 DEF FlushGood, FlushOK
  <1> QED
    BY <1>3 DEF p

\* A view of an open turn, or of none, may be completed or superseded.
LEMMA ClosingGood ==
  ASSUME IInv, NEW w \in Workers, NEW view \in Session, NEW row \in Turn,
         view.picked # 0 => Existing(view.picked) /\ view.row.status \in Open
  PROVE  FlushGood(w, Completing(view, row)) /\ FlushGood(w, Superseding(view, row))
  <1>1. TypeOK
    BY DEF IInv
  <1>2. Release(view.slot, view.picked) \in Slot
    BY <1>1, ReleaseTypes DEF Session
  <1>3. ASSUME NEW new \in Turn, new.status \in {"completed", "superseded"}
        PROVE  FlushGood(w, Ending(view, new, Release(view.slot, view.picked), "done"))
    <2> DEFINE p == Ending(view, new, Release(view.slot, view.picked), "done")
    <2>1. /\ DOMAIN p.turns = {view.picked} \ {0} /\ DOMAIN p.turns \subseteq Turns
          /\ p \in Pending(DOMAIN p.turns)
          /\ p.reply = {} /\ p.killed = {} /\ p.job = "done"
          /\ \A t \in DOMAIN p.turns : p.turns[t] = Update(turn[t], view.row, new)
      BY <1>1, <1>2, EndingTypes
    <2> HIDE DEF p
    <2>2. \A t \in DOMAIN p.turns : Existing(t) /\ p.turns[t].status = new.status
      <3> SUFFICES ASSUME NEW t \in DOMAIN p.turns PROVE Existing(t) /\ p.turns[t].status = new.status
        OBVIOUS
      <3>1. t = view.picked /\ t # 0 /\ t \in Turns
        BY <2>1
      <3>2. Existing(t) /\ view.row.status \in Open /\ view.row \in Turn /\ turn[t] \in Turn
        BY <1>1, <3>1 DEF TypeOK, Session
      <3>3. new.status # view.row.status
        BY <1>3, <3>2 DEF Open
      <3> QED
        BY <2>1, <3>2, <3>3, UpdateTypes
    <2>3. FlushGood(w, p)
      BY <1>3, <2>1, <2>2 DEF FlushGood, FlushOK, Terminal
    <2> QED
      BY <2>3 DEF p
  <1>4. complete_ai_turn(row) \in Turn /\ complete_ai_turn(row).status = "completed"
        /\ supersede_ai_turn(row) \in Turn /\ supersede_ai_turn(row).status = "superseded"
    BY RowTypes
  <1>5. FlushGood(w, Superseding(view, row))
    BY <1>3, <1>4 DEF Superseding
  <1>6. FlushGood(w, [Clean EXCEPT !.job = "done"])
    BY DoneGood
  <1>7. FlushGood(w, Completing(view, row))
    BY <1>3, <1>4, <1>6 DEF Completing
  <1> QED
    BY <1>5, <1>7

\* A transaction with the fields replaced that a retry, a fallback or a reply set.
Retried(p, n) == [p EXCEPT !.job = "retry", !.attempts = n]
FellBack(p, x) == [p EXCEPT !.conv = TRUE, !.reply = x]
Replied(p, s, x) == [p EXCEPT !.conv = TRUE, !.slot = s, !.reply = x]

\* A retry changes what becomes of the job alone.
LEMMA RetriedPending ==
  ASSUME NEW T, NEW p \in Pending(T), NEW n \in 0..MaxAttempts
  PROVE  /\ Retried(p, n) \in Pending(T) /\ Retried(p, n).turns = p.turns
         /\ Retried(p, n).conv = p.conv /\ Retried(p, n).killed = p.killed
         /\ Retried(p, n).reply = p.reply /\ Retried(p, n).job = "retry"
  BY DEF Pending, Retried

\* A fallback comes under the lock of the conversation.
LEMMA FellBackPending ==
  ASSUME NEW T, NEW p \in Pending(T), NEW x \in SUBSET Reply
  PROVE  /\ FellBack(p, x) \in Pending(T) /\ FellBack(p, x).turns = p.turns
         /\ FellBack(p, x).conv /\ FellBack(p, x).killed = p.killed
         /\ FellBack(p, x).reply = x /\ FellBack(p, x).job = p.job
  BY DEF Pending, FellBack

\* So does a reply, with what it makes of the slot.
LEMMA RepliedPending ==
  ASSUME NEW T, NEW p \in Pending(T), NEW s \in Slot, NEW x \in SUBSET Reply
  PROVE  /\ Replied(p, s, x) \in Pending(T) /\ Replied(p, s, x).turns = p.turns
         /\ Replied(p, s, x).conv /\ Replied(p, s, x).killed = p.killed
         /\ Replied(p, s, x).reply = x /\ Replied(p, s, x).job = p.job
  BY DEF Pending, Replied

\* The outcome of a dead job closes the turn, or leaves one that was closed;
\* the fallback is for a turn without a message and a conversation without a
\* human.
LEMMA FinalizeTypes ==
  ASSUME TypeOK, NEW v \in Session
  PROVE  LET f == finalize_dead_webchat_ai_job(v)
         IN  /\ f.row \in Turn /\ f.slot \in Slot /\ f.reply \in BOOLEAN
             /\ f.row.status \in {"completed", "superseded", "cancelled"}
             /\ f.row.status = "cancelled" => v.row.status = "cancelled"
             /\ f.reply => TurnSilent(v.picked) /\ ~v.suspended
  <1> DEFINE t == v.picked
             silent == ~v.row.allowed \/ v.suspended \/ Stale(v.row) \/ answered >= v.row.latest
             settled == v.row.status \in {"completed", "superseded", "cancelled"}
             f == finalize_dead_webchat_ai_job(v)
  <1>1. t \in 0..MaxMessages /\ v.row \in Turn /\ v.slot \in Slot /\ v.suspended \in BOOLEAN
    BY DEF Session
  <1>2. Release(v.slot, t) \in Slot
    BY <1>1, ReleaseTypes
  <1>3. /\ complete_ai_turn(v.row) \in Turn /\ complete_ai_turn(v.row).status = "completed"
        /\ supersede_ai_turn(v.row) \in Turn /\ supersede_ai_turn(v.row).status = "superseded"
    BY <1>1, RowTypes
  <1>4. RepliesOf(t) \in Nat /\ (RepliesOf(t) = 0 <=> TurnSilent(t))
    BY SilentTurns
  <1>5. f = IF RepliesOf(t) > 0
            THEN [row |-> complete_ai_turn(v.row), slot |-> Release(v.slot, t), reply |-> FALSE]
            ELSE IF silent
            THEN [row  |-> IF settled THEN v.row ELSE supersede_ai_turn(v.row),
                  slot |-> IF settled THEN v.slot ELSE Release(v.slot, t),
                  reply |-> FALSE]
            ELSE [row |-> complete_ai_turn(v.row), slot |-> Release(v.slot, t), reply |-> TRUE]
    BY DEF finalize_dead_webchat_ai_job
  <1>6. silent \in BOOLEAN /\ (~silent => ~v.suspended)
    BY <1>1
  <1> HIDE DEF f, silent
  <1>7. CASE RepliesOf(t) > 0
    <2>1. f = [row |-> complete_ai_turn(v.row), slot |-> Release(v.slot, t), reply |-> FALSE]
      BY <1>5, <1>7
    <2> QED
      BY <2>1, <1>2, <1>3 DEF f
  <1>8. CASE ~(RepliesOf(t) > 0) /\ silent
    <2>1. f = [row  |-> IF settled THEN v.row ELSE supersede_ai_turn(v.row),
               slot |-> IF settled THEN v.slot ELSE Release(v.slot, t), reply |-> FALSE]
      BY <1>5, <1>8
    <2> QED
      BY <2>1, <1>1, <1>2, <1>3 DEF f
  <1>9. CASE ~(RepliesOf(t) > 0) /\ ~silent
    <2>1. f = [row |-> complete_ai_turn(v.row), slot |-> Release(v.slot, t), reply |-> TRUE]
      BY <1>5, <1>9
    <2>2. RepliesOf(t) = 0
      BY <1>4, <1>9
    <2> QED
      BY <2>1, <2>2, <1>1, <1>2, <1>3, <1>4, <1>6, <1>9 DEF f
  <1> QED
    BY <1>6, <1>7, <1>8, <1>9

\* A retry flushes the job alone, or the outcome of a dead job.
LEMMA RetryingGood ==
  ASSUME IInv, NEW w \in Workers, pc[w] # "idle"
  PROVE  FlushGood(w, Retrying(w)) /\ Retrying(w).job \in {"retry", "resolved"}
  <1> DEFINE j == cur[w]
             f == finalize_dead_webchat_ai_job(Fresh(j))
             e == Ending(Fresh(j), f.row, f.slot, "resolved")
             x == IF f.reply THEN {[turn |-> j, by |-> j]} ELSE {}
  <1>1. TypeOK /\ j \in Turns /\ Existing(j)
    BY DEF IInv, SessionsOK
  <1>2. Fresh(j) \in Session /\ Fresh(j).picked = j /\ Fresh(j).suspended = suspended
        /\ Fresh(j).row = turn[j] /\ j \in 0..MaxMessages /\ j # 0
    BY <1>1, FreshTypes DEF Turns
  <1>3. job[j] \in Job /\ job[j].attempts \in 0..MaxAttempts
    BY <1>1 DEF TypeOK, Job
  <1>4. CASE job[j].attempts + 1 < MaxAttempts
    <2> DEFINE p == [Clean EXCEPT !.job = "retry", !.attempts = job[j].attempts + 1]
    <2>1. Retrying(w) = p
      BY <1>4 DEF Retrying
    <2>2. job[j].attempts + 1 \in 0..MaxAttempts
      BY <1>3, <1>4
    <2>3. /\ p \in Pending({}) /\ p.turns = Clean.turns /\ p.conv = Clean.conv /\ p.killed = Clean.killed
          /\ p.reply = Clean.reply /\ p.job = "retry"
      <3>1. p = Retried(Clean, job[j].attempts + 1)
        BY Zenon DEF Retried
      <3> HIDE DEF p
      <3> QED
        BY <2>2, <3>1, CleanTypes, RetriedPending
    <2> HIDE DEF p
    <2>4. FlushGood(w, p)
      BY <2>3, CleanTypes DEF FlushGood, FlushOK
    <2> QED
      BY <2>1, <2>3, <2>4
  <1>5. CASE ~(job[j].attempts + 1 < MaxAttempts)
    <2> DEFINE p == [e EXCEPT !.conv = TRUE, !.reply = x]
    <2>1. Retrying(w) = p
      BY <1>5 DEF Retrying
    <2>2. /\ f.row \in Turn /\ f.slot \in Slot /\ f.reply \in BOOLEAN
          /\ f.row.status \in {"completed", "superseded", "cancelled"}
          /\ f.row.status = "cancelled" => turn[j].status = "cancelled"
          /\ f.reply => TurnSilent(j) /\ ~suspended
      BY <1>1, <1>2, FinalizeTypes
    <2> HIDE DEF f
    <2>3. /\ DOMAIN e.turns = {j} \ {0} /\ DOMAIN e.turns \subseteq Turns
          /\ e \in Pending(DOMAIN e.turns)
          /\ e.reply = {} /\ e.killed = {} /\ e.job = "resolved"
          /\ \A t \in DOMAIN e.turns : e.turns[t] = Update(turn[t], turn[j], f.row)
      BY <1>1, <1>2, <2>2, EndingTypes
    <2> HIDE DEF e
    <2>4. Update(turn[j], turn[j], f.row) = f.row
      BY <1>1, <2>2, UpdateTypes DEF TypeOK
    <2>5. x \in SUBSET Reply
      BY <1>1, <1>2 DEF Reply
    <2>6. /\ p \in Pending(DOMAIN e.turns) /\ p.turns = e.turns /\ p.conv /\ p.killed = {}
          /\ p.reply = x /\ p.job = "resolved"
      <3>1. /\ p \in Pending(DOMAIN e.turns) /\ p.turns = e.turns /\ p.conv /\ p.killed = e.killed
            /\ p.reply = x /\ p.job = e.job
        <4>1. p = FellBack(e, x)
          BY Zenon DEF FellBack
        <4> HIDE DEF p, x
        <4> QED
          BY <2>3, <2>5, <4>1, FellBackPending
      <3> QED
        BY <2>3, <3>1, Zenon
    <2> HIDE DEF p
    <2>7. \A t \in DOMAIN p.turns : t = j /\ p.turns[t] = f.row
      BY <1>2, <2>3, <2>4, <2>6
    <2>8. turn[j].status = "cancelled" => takeovers # 0
      BY <1>1 DEF IInv, HandoffOK
    <2>9. x # {} => f.reply /\ x = {[turn |-> j, by |-> j]}
      OBVIOUS
    <2> HIDE DEF x
    <2>10. FlushOK(w, p)
      BY <1>1, <1>2, <2>2, <2>6, <2>7, <2>9 DEF FlushOK, Terminal
    <2>11. FlushGood(w, p)
      BY <2>2, <2>3, <2>6, <2>7, <2>8, <2>9, <2>10 DEF FlushGood
    <2> QED
      BY <2>1, <2>6, <2>11
  <1> QED
    BY <1>4, <1>5

\* A worker that finds a human cancels the open turns, which are none if the
\* human is still there.
LEMMA CancellingGood ==
  ASSUME IInv, NEW w \in Workers, sess[w].suspended, NEW c \in BOOLEAN, OpenTurns # {} => c
  PROVE  FlushGood(w, [turns  |-> cancel_open_ai_turns(OpenTurns), conv |-> c,
                       slot   |-> Update(slot, sess[w].slot, [active |-> 0, next |-> 0]),
                       killed |-> CancelledJobs(OpenTurns) \ {cur[w]},
                       reply  |-> {}, job |-> "done", attempts |-> 0])
  <1> DEFINE g == cancel_open_ai_turns(OpenTurns)
             s == Update(slot, sess[w].slot, [active |-> 0, next |-> 0])
             K == CancelledJobs(OpenTurns) \ {cur[w]}
             p == [turns |-> g, conv |-> c, slot |-> s, killed |-> K,
                   reply |-> {}, job |-> "done", attempts |-> 0]
  <1>1. TypeOK /\ takeovers # 0 /\ (suspended => OpenTurns = {})
    BY DEF IInv, HandoffOK
  <1>2. OpenTurns \subseteq Turns /\ \A t \in OpenTurns : Existing(t)
    BY DEF OpenTurns, Existing, Open
  <1>3. \A t \in OpenTurns : [turn[t] EXCEPT !.status = "cancelled", !.allowed = FALSE] \in Turn
                             /\ [turn[t] EXCEPT !.status = "cancelled", !.allowed = FALSE].status = "cancelled"
    <2>1. \A r \in Turn : [r EXCEPT !.status = "cancelled", !.allowed = FALSE] \in Turn
                         /\ [r EXCEPT !.status = "cancelled", !.allowed = FALSE].status = "cancelled"
      BY DEF Turn, Terminal
    <2>2. \A t \in OpenTurns : turn[t] \in Turn
      BY <1>1, <1>2 DEF TypeOK
    <2> QED
      BY <2>1, <2>2, Zenon
  <1>4. DOMAIN g = OpenTurns /\ g \in [OpenTurns -> Turn] /\ \A t \in OpenTurns : g[t].status = "cancelled"
    BY <1>3 DEF cancel_open_ai_turns
  <1>5. s \in Slot
    <2>1. [active |-> 0, next |-> 0] \in Slot /\ sess[w].slot \in Slot /\ slot \in Slot
      BY <1>1 DEF TypeOK, Session, Slot
    <2> QED
      BY <2>1, UpdateTypes
  <1>6. K \subseteq OpenTurns
    BY DEF CancelledJobs
  <1> HIDE DEF g, s, K
  <1>7. /\ p.turns = g /\ p.conv = c /\ p.killed = K /\ p.reply = {} /\ p.job = "done"
        /\ p \in Pending(OpenTurns)
    BY <1>2, <1>4, <1>5, <1>6 DEF Pending
  <1> HIDE DEF p
  <1>8. FlushOK(w, p)
    BY <1>2, <1>4, <1>6, <1>7 DEF FlushOK, Terminal
  <1>9. FlushGood(w, p)
    BY <1>1, <1>2, <1>4, <1>7, <1>8 DEF FlushGood
  <1> QED
    BY <1>9 DEF p, g, s, K

\* The reply of a worker's own job.
LEMMA PersistGood ==
  ASSUME IInv, NEW w \in Workers, pc[w] = "persist"
  PROVE  FlushGood(w, [Completing(sess[w], sess[w].row) EXCEPT
                         !.conv  = TRUE,
                         !.slot  = Update(slot, sess[w].slot,
                                     IF sess[w].picked = 0 THEN sess[w].slot
                                     ELSE Release(sess[w].slot, sess[w].picked)),
                         !.reply = {[turn |-> sess[w].picked, by |-> cur[w]]}])
  <1> DEFINE e == Completing(sess[w], sess[w].row)
             n == IF sess[w].picked = 0 THEN sess[w].slot ELSE Release(sess[w].slot, sess[w].picked)
             s == Update(slot, sess[w].slot, n)
             x == {[turn |-> sess[w].picked, by |-> cur[w]]}
             p == [e EXCEPT !.conv = TRUE, !.slot = s, !.reply = x]
  <1>1. TypeOK /\ cur[w] \in Turns
    BY DEF IInv, SessionsOK
  <1>2. sess[w] \in Session /\ sess[w].row \in Turn /\ sess[w].slot \in Slot /\ sess[w].picked \in 0..MaxMessages
    BY <1>1 DEF TypeOK, Session
  <1>3. sess[w].picked # 0 => Existing(sess[w].picked) /\ sess[w].row.status \in Open
    BY DEF IInv, SessionsOK
  <1>4. FlushGood(w, e)
    BY <1>2, <1>3, ClosingGood
  <1>5. e.job = "done"
    BY CleanTypes DEF Completing, Ending, Clean
  <1>6. n \in Slot
    BY <1>1, <1>2, ReleaseTypes
  <1>7. s \in Slot
    BY <1>1, <1>2, <1>6, UpdateTypes DEF TypeOK
  <1>8. x \in SUBSET Reply
    BY <1>1, <1>2 DEF Reply
  <1> HIDE DEF e, n, s
  <1>9. /\ DOMAIN e.turns \subseteq Turns /\ e \in Pending(DOMAIN e.turns) /\ FlushOK(w, e)
        /\ \A t \in DOMAIN e.turns : e.turns[t].status = "cancelled" =>
              takeovers # 0 /\ (takeovers < 2 /\ suspended => turn[t].status = "cancelled")
    BY <1>4 DEF FlushGood
  <1>10. /\ p \in Pending(DOMAIN e.turns) /\ p.turns = e.turns /\ p.conv /\ p.killed = e.killed
         /\ p.reply = x /\ p.job = "done"
    <2>1. /\ p \in Pending(DOMAIN e.turns) /\ p.turns = e.turns /\ p.conv /\ p.killed = e.killed
          /\ p.reply = x /\ p.job = e.job
      <3>1. p = Replied(e, s, x)
        BY Zenon DEF Replied
      <3> HIDE DEF p, x
      <3> QED
        BY <1>7, <1>8, <1>9, <3>1, RepliedPending
    <2> QED
      BY <1>5, <2>1, Zenon
  <1> HIDE DEF p
  <1>11. FlushOK(w, p)
    BY <1>2, <1>9, <1>10 DEF FlushOK
  <1>12. FlushGood(w, p)
    BY <1>9, <1>10, <1>11 DEF FlushGood
  <1> QED
    BY <1>12 DEF p, e, n, s

-----------------------------------------------------------------------------
(* Steps of a worker that change no row *)

PCs == {"idle", "claimed", "loaded", "bridge", "runtime", "persist",
        "finish", "commit", "recover", "recommit"}

\* A worker flushes a good transaction: its check comes next, or the commit of
\* a recovery that has just checked.
LEMMA FlushStep ==
  ASSUME IInv, NEW w \in Workers, NEW p, FlushGood(w, p), NEW l \in {"finish", "recommit"},
         pc[w] \notin Flushing \cup {"idle"},
         l = "recommit" => Owns(w) /\ p.job # "done" /\ pc[w] # "persist",
         ~ConvLocked \/ ~p.conv,
         \A t \in DOMAIN p.turns : ~Locked(t),
         pend' = [pend EXCEPT ![w] = p],
         pc' = [pc EXCEPT ![w] = l],
         UNCHANGED <<posted, rowVars, cur, sess, rec, faults, takeovers>>
  PROVE  IInv'
  <1> USE DEF rowVars
  <1>t. TypeOK /\ pend = [v \in Workers |-> pend[v]]
    BY DEF IInv, LocksOK
  <1>1. /\ \A v \in Workers : pend'[v] = IF v = w THEN p ELSE pend[v]
        /\ DOMAIN pend' = Workers
        /\ pend' = [v \in Workers |-> pend'[v]]
    BY <1>t
  <1>2. \A v \in Workers : pc'[v] = IF v = w THEN l ELSE pc[v]
    BY <1>t DEF TypeOK
  <1>3. pc' \in [Workers -> PCs]
    BY <1>t DEF TypeOK, PCs
  <1>4. TypeOK'
    <2>1. \A v \in Workers : DOMAIN pend'[v].turns \subseteq Turns /\ pend'[v] \in Pending(DOMAIN pend'[v].turns)
      BY <1>t, <1>1 DEF TypeOK, FlushGood
    <2> QED
      BY <1>t, <1>1, <1>3, <2>1 DEF TypeOK, PCs
  <1>5. RowsExist'
    BY <1>2 DEF IInv, RowsExist, Existing, TypeOK, Job
  <1>6. SessionsOK'
    BY <1>2 DEF IInv, SessionsOK, Existing, Flushing, Window
  <1>7. LocksOK'
    <2>1. \A v \in Workers : pc'[v] \notin Flushing => pend'[v] = Clean
      BY <1>1, <1>2 DEF IInv, LocksOK, Flushing, Window
    <2>2. \A v, u \in Workers : pend'[v].conv /\ pend'[u].conv => v = u
      BY <1>1 DEF IInv, LocksOK, ConvLocked
    <2>3. \A v, u \in Workers : \A t \in DOMAIN pend'[v].turns \cap DOMAIN pend'[u].turns : v = u
      BY <1>1 DEF IInv, LocksOK, Locked
    <2> QED
      BY <1>1, <2>1, <2>2, <2>3 DEF LocksOK
  <1>8. FlushesOK'
    <2> SUFFICES ASSUME NEW v \in Workers PROVE FlushOK(v, pend[v])'
      BY DEF FlushesOK
    <2>1. FlushOK(v, pend'[v])
      BY <1>1 DEF FlushGood, IInv, FlushesOK
    <2> QED
      BY <2>1 DEF FlushOK, Existing, TurnSilent
  <1>9. AnswersOK'
    <2>0. \A j : Posted(j)' <=> Posted(j)
      BY DEF Posted
    <2>1. \A v \in Workers : (Answering(v) /\ Owns(v))' => Answering(v) /\ Owns(v)
      BY <1>1, <1>2 DEF Answering, Owns, FlushGood
    <2>2. \A v \in Workers : pc'[v] \in Window /\ pend'[v].reply # {} /\ pend'[v].job = "done"
            => pc[v] \in Window /\ pend[v].reply # {} /\ pend[v].job = "done"
      BY <1>1, <1>2 DEF Window
    <2>3. \A v \in Workers : pc'[v] = "recommit" => pend'[v].job # "done"
      BY <1>1, <1>2 DEF IInv, AnswersOK
    <2> QED
      BY <2>0, <2>1, <2>2, <2>3 DEF IInv, AnswersOK
  <1>10. JobAnswersOnce'
    BY DEF IInv, JobAnswersOnce
  <1>11. WindowsOK'
    <2>0. \A v \in Workers : pc'[v] \in Window /\ v # w => pc[v] \in Window /\ pend'[v] = pend[v]
      BY <1>1, <1>2
    <2>1. pc'[w] \in Window => Owns(w) /\ (Held(w) \/ faults >= 1)
      <3>1. pc'[w] \in Window => Owns(w)
        BY <1>2 DEF Window
      <3>2. job[cur[w]].expired => faults >= 1
        BY DEF IInv, RowsExist, SessionsOK
      <3> QED
        BY <3>1, <3>2 DEF Held
    <2>2. \A v \in Workers : Owns(v)' = Owns(v) /\ Held(v)' = Held(v)
      BY DEF Owns, Held
    <2>3. \A v \in Workers : pc'[v] \in Window =>
             \/ Held(v)'
             \/ faults' >= 1
             \/ pend'[v].reply = {} /\ job'[cur'[v]].status \in {"done", "dead"}
      BY <2>0, <2>1, <2>2 DEF IInv, WindowsOK
    <2>4. \A v \in Workers : pc'[v] \in Window /\ pc'[w] \in Window /\ cur[v] = cur[w] /\ v # w => faults >= 1
      BY <2>0, <2>1 DEF IInv, WindowsOK, Owns, Held
    <2>5. \A v, u \in Workers : pc'[v] \in Window /\ pc'[u] \in Window /\ cur'[v] = cur'[u] /\ v # u
             => faults' >= 1
      BY <2>0, <2>4 DEF IInv, WindowsOK
    <2>6. \A v \in Workers : pc'[v] \in Window /\ pend'[v].reply # {} /\ job'[cur'[v]].status = "dead"
             => faults' >= 2
      BY <2>0, <2>1 DEF IInv, WindowsOK, Owns
    <2> QED
      BY <2>3, <2>5, <2>6 DEF WindowsOK
  <1>12. HandoffOK'
    <2>1. \A v \in Workers : (Unaware(v) /\ Owns(v))' /\ suspended => Unaware(v) /\ Owns(v)
      BY <1>1, <1>2 DEF Unaware, Owns, FlushGood
    <2>2. \A v \in Workers : pc'[v] \in Window /\ pend'[v].reply # {} /\ suspended
             => pc[v] \in Window /\ pend[v].reply # {}
      BY <1>1, <1>2 DEF Window, FlushGood
    <2>3. \A v \in Workers : \A t \in DOMAIN pend'[v].turns : pend'[v].turns[t].status = "cancelled" =>
             takeovers # 0 /\ (takeovers < 2 /\ suspended => turn[t].status = "cancelled")
      BY <1>1 DEF FlushGood, IInv, HandoffOK
    <2> QED
      BY <2>1, <2>2, <2>3 DEF IInv, HandoffOK, OpenTurns
  <1> QED
    BY <1>4, <1>5, <1>6, <1>7, <1>8, <1>9, <1>10, <1>11, <1>12 DEF IInv

\* A worker that has flushed nothing moves on, with a view of its own and maybe
\* a turn taken up while no human owns the conversation.
LEMMA QuietStep ==
  ASSUME IInv, NEW w \in Workers, pc[w] \notin Flushing \cup {"idle"},
         NEW l \in {"idle", "loaded", "bridge", "runtime", "persist"}, NEW s \in Session,
         l = "idle" => ~Owns(w),
         l # "idle" /\ s.picked # 0 => Existing(s.picked) /\ s.row.status \in Open,
         s.suspended => takeovers # 0,
         l \in {"runtime", "persist"} => pc[w] = "runtime" \/ ~Posted(cur[w]),
         l = "idle" \/ (l = "loaded" /\ (suspended => s.suspended)) \/ (l # "loaded" /\ Unaware(w)),
         turn' \in [Turns -> Turn],
         \A t \in Turns : turn'[t].status # "none" <=> Existing(t),
         \A t \in Turns : turn'[t].status = "cancelled" => turn[t].status = "cancelled",
         suspended => turn' = turn,
         sess' = [sess EXCEPT ![w] = s],
         pc' = [pc EXCEPT ![w] = l],
         UNCHANGED <<posted, slot, suspended, job, replies, answered, cur, pend, rec, faults, takeovers>>
  PROVE  IInv'
  <1>t. TypeOK
    BY DEF IInv
  <1>1. \A v \in Workers : sess'[v] = IF v = w THEN s ELSE sess[v]
    BY <1>t DEF TypeOK
  <1>2. \A v \in Workers : pc'[v] = IF v = w THEN l ELSE pc[v]
    BY <1>t DEF TypeOK
  <1>3. \A t \in Turns : Existing(t)' <=> Existing(t)
    BY DEF Existing
  <1>4. TypeOK'
    <2>1. pc' \in [Workers -> PCs] /\ sess' \in [Workers -> Session]
      BY <1>t DEF TypeOK, PCs
    <2> QED
      BY <1>t, <2>1 DEF TypeOK, PCs
  <1>5. RowsExist'
    <2>1. \A j \in Turns : job[j].owner = w => Owns(w)
      BY DEF IInv, RowsExist, Owns
    <2>2. \A j \in Turns : job[j].owner # NoWorker => pc'[job[j].owner] # "idle"
      <3> SUFFICES ASSUME NEW j \in Turns, job[j].owner # NoWorker PROVE pc'[job[j].owner] # "idle"
        OBVIOUS
      <3>1. job[j].owner \in Workers /\ pc[job[j].owner] # "idle"
        BY <1>t DEF IInv, RowsExist, TypeOK, Job
      <3> QED
        BY <1>2, <2>1, <3>1
    <2> QED
      BY <1>3, <2>2 DEF IInv, RowsExist
  <1>6. SessionsOK'
    <2>1. \A v \in Workers : pc'[v] # "idle" => cur[v] \in Turns /\ Existing(cur[v])
      BY <1>2 DEF IInv, SessionsOK
    <2>2. \A v \in Workers : pc'[v] \in {"loaded", "bridge", "runtime", "persist"} /\ sess'[v].picked # 0
             => sess'[v].picked \in Turns /\ Existing(sess'[v].picked) /\ sess'[v].row.status \in Open
      <3> SUFFICES ASSUME NEW v \in Workers, pc'[v] \in {"loaded", "bridge", "runtime", "persist"},
                          sess'[v].picked # 0
                   PROVE  sess'[v].picked \in Turns /\ Existing(sess'[v].picked)
                          /\ sess'[v].row.status \in Open
        OBVIOUS
      <3>1. sess'[v].picked \in Turns
        BY <1>4 DEF TypeOK, Session, Turns
      <3> QED
        BY <1>1, <1>2, <3>1 DEF IInv, SessionsOK
    <2> QED
      BY <1>3, <2>1, <2>2 DEF IInv, SessionsOK
  <1>7. LocksOK'
    BY <1>2 DEF IInv, LocksOK, Flushing, Window
  <1>8. FlushesOK'
    <2> SUFFICES ASSUME NEW v \in Workers PROVE FlushOK(v, pend[v])'
      BY DEF FlushesOK
    <2>1. FlushOK(v, pend[v]) /\ DOMAIN pend[v].turns \subseteq Turns /\ pend[v].killed \subseteq Turns
      BY <1>t DEF IInv, FlushesOK, TypeOK, Pending
    <2> QED
      BY <1>3, <2>1 DEF FlushOK, TurnSilent
  <1>9. AnswersOK'
    <2>0. \A j : Posted(j)' <=> Posted(j)
      BY DEF Posted
    <2>1. \A v \in Workers : Owns(v)' <=> Owns(v)
      BY DEF Owns
    <2>2. \A v \in Workers : (Answering(v) /\ Owns(v))' => ~Posted(cur[v])
      BY <1>2, <2>1 DEF Answering, IInv, AnswersOK
    <2>3. \A v \in Workers : pc'[v] \in Window => pc[v] \in Window
      BY <1>2 DEF Window
    <2>4. \A v \in Workers : pc'[v] = "recommit" => pc[v] = "recommit"
      BY <1>2
    <2> QED
      BY <2>0, <2>2, <2>3, <2>4 DEF IInv, AnswersOK
  <1>10. JobAnswersOnce'
    BY DEF IInv, JobAnswersOnce
  <1>11. WindowsOK'
    <2>1. \A v \in Workers : pc'[v] \in Window => pc[v] \in Window
      BY <1>2 DEF Window
    <2>2. \A v \in Workers : Held(v)' <=> Held(v)
      BY DEF Owns, Held
    <2> QED
      BY <2>1, <2>2 DEF IInv, WindowsOK
  <1>12. HandoffOK'
    <2>1. \A v \in Workers : (Unaware(v) /\ Owns(v))' /\ suspended => Unaware(v) /\ Owns(v)
      BY <1>1, <1>2 DEF Unaware, Owns
    <2>2. \A v \in Workers : pc'[v] \in Window => pc[v] \in Window
      BY <1>2 DEF Window
    <2>3. takeovers = 0 => \A v \in Workers : ~sess'[v].suspended
      BY <1>1 DEF IInv, HandoffOK
    <2>4. takeovers = 0 => \A t \in Turns : turn'[t].status # "cancelled"
      BY DEF IInv, HandoffOK
    <2>5. suspended => OpenTurns' = {}
      BY DEF IInv, HandoffOK, OpenTurns
    <2> QED
      BY <2>1, <2>2, <2>3, <2>4, <2>5 DEF IInv, HandoffOK
  <1> QED
    BY <1>4, <1>5, <1>6, <1>7, <1>8, <1>9, <1>10, <1>11, <1>12 DEF IInv

\* A transaction is rolled back, or a lease runs out: no status changes, and a
\* job that changes owner or runs out costs a fault.
LEMMA FaultStep ==
  ASSUME IInv, NEW w \in Workers, pc[w] # "idle", NEW l, NEW q,
         (q = pend[w] /\ l = pc[w]) \/ (q = Clean /\ l \in {"idle", "recover"}),
         pend' = [pend EXCEPT ![w] = q],
         pc' = [pc EXCEPT ![w] = l],
         faults' \in 0..MaxFaults, faults' >= faults,
         job' \in [Turns -> Job],
         \A j \in Turns : /\ job'[j].status = job[j].status
                          /\ job'[j].owner = job[j].owner \/ job'[j].owner = NoWorker
                          /\ l = "idle" => job'[j].owner # w
                          /\ job'[j] = job[j] \/ faults' >= 1,
         UNCHANGED <<posted, slot, suspended, turn, replies, answered, cur, sess, rec, takeovers>>
  PROVE  IInv'
  <1>t. TypeOK /\ pend = [v \in Workers |-> pend[v]]
    BY DEF IInv, LocksOK
  <1>1. /\ \A v \in Workers : pend'[v] = IF v = w THEN q ELSE pend[v]
        /\ DOMAIN pend' = Workers
        /\ pend' = [v \in Workers |-> pend'[v]]
    BY <1>t
  <1>2. \A v \in Workers : pc'[v] = IF v = w THEN l ELSE pc[v]
    BY <1>t DEF TypeOK
  <1>3. \A v \in Workers : (pend'[v] = pend[v] /\ pc'[v] = pc[v]) \/ (pend'[v] = Clean /\ pc'[v] \in {"idle", "recover"})
    BY <1>1, <1>2
  <1>f. faults \in Nat /\ faults' \in Nat
    BY <1>t DEF TypeOK
  <1>4. TypeOK'
    <2>1. pc' \in [Workers -> PCs]
      BY <1>t DEF TypeOK, PCs
    <2>2. \A v \in Workers : DOMAIN pend'[v].turns \subseteq Turns /\ pend'[v] \in Pending(DOMAIN pend'[v].turns)
      <3>1. DOMAIN Clean.turns \subseteq Turns /\ Clean \in Pending(DOMAIN Clean.turns)
        BY CleanTypes
      <3>2. \A v \in Workers : DOMAIN pend[v].turns \subseteq Turns /\ pend[v] \in Pending(DOMAIN pend[v].turns)
        BY <1>t DEF TypeOK
      <3> QED
        BY <1>3, <3>1, <3>2, Zenon
    <2> QED
      BY <1>t, <1>1, <2>1, <2>2 DEF TypeOK, PCs
  <1>5. RowsExist'
    <2>1. \A j \in Turns : job'[j].owner # NoWorker =>
             cur[job'[j].owner] = j /\ pc'[job'[j].owner] # "idle" /\ job'[j].status = "processing"
      <3> SUFFICES ASSUME NEW j \in Turns, job'[j].owner # NoWorker
                   PROVE  cur[job'[j].owner] = j /\ pc'[job'[j].owner] # "idle" /\ job'[j].status = "processing"
        OBVIOUS
      <3>1. job'[j].owner = job[j].owner /\ job[j].owner \in Workers /\ job'[j].status = job[j].status
        BY <1>t DEF TypeOK, Job
      <3>2. cur[job[j].owner] = j /\ pc[job[j].owner] # "idle" /\ job[j].status = "processing"
        BY <3>1 DEF IInv, RowsExist
      <3> QED
        BY <1>2, <3>1, <3>2
    <2>2. \A j \in Turns : job'[j].expired => faults' >= 1
      BY <1>f DEF IInv, RowsExist
    <2> QED
      BY <2>1, <2>2 DEF IInv, RowsExist, Existing
  <1>6. SessionsOK'
    BY <1>3 DEF IInv, SessionsOK, Existing
  <1>7. LocksOK'
    <2>1. \A v \in Workers : pc'[v] \notin Flushing => pend'[v] = Clean
      BY <1>3 DEF IInv, LocksOK
    <2>2. \A v, u \in Workers : pend'[v].conv /\ pend'[u].conv => v = u
      BY <1>3, CleanTypes DEF IInv, LocksOK
    <2>3. \A v, u \in Workers : \A t \in DOMAIN pend'[v].turns \cap DOMAIN pend'[u].turns : v = u
      BY <1>3, CleanTypes DEF IInv, LocksOK
    <2> QED
      BY <1>1, <2>1, <2>2, <2>3 DEF LocksOK
  <1>8. FlushesOK'
    <2> SUFFICES ASSUME NEW v \in Workers PROVE FlushOK(v, pend[v])'
      BY DEF FlushesOK
    <2>1. FlushOK(v, pend'[v])
      BY <1>3, CleanFlush DEF IInv, FlushesOK
    <2> QED
      BY <2>1 DEF FlushOK, Existing, TurnSilent
  <1>o. \A v \in Workers : pc'[v] # "idle" => (Owns(v)' => Owns(v)) /\ (Held(v) => Held(v)' \/ faults' >= 1)
    <2> SUFFICES ASSUME NEW v \in Workers, pc'[v] # "idle"
                 PROVE  (Owns(v)' => Owns(v)) /\ (Held(v) => Held(v)' \/ faults' >= 1)
      OBVIOUS
    <2>1. cur[v] \in Turns
      BY <1>2, <1>6 DEF SessionsOK
    <2> QED
      BY <2>1 DEF Owns, Held
  <1>9. AnswersOK'
    <2>0. \A j : Posted(j)' <=> Posted(j)
      BY DEF Posted
    <2>1. \A v \in Workers : (Answering(v) /\ Owns(v))' => Answering(v) /\ Owns(v)
      BY <1>3, <1>o, CleanTypes DEF Answering
    <2>2. \A v \in Workers : pc'[v] \in Window => pc[v] = pc'[v] /\ pend'[v] = pend[v]
      BY <1>3 DEF Window
    <2>3. \A v \in Workers : pc'[v] = "recommit" => pend'[v].job # "done"
      BY <1>3 DEF IInv, AnswersOK
    <2> QED
      BY <2>0, <2>1, <2>2, <2>3 DEF IInv, AnswersOK
  <1>10. JobAnswersOnce'
    BY DEF IInv, JobAnswersOnce
  <1>11. WindowsOK'
    <2>1. \A v \in Workers : pc'[v] \in Window =>
             pc[v] \in Window /\ pend'[v] = pend[v] /\ cur[v] \in Turns /\ pc'[v] # "idle"
      BY <1>3 DEF Window, IInv, SessionsOK
    <2>2. \A v \in Workers : pc'[v] \in Window =>
             \/ Held(v)'
             \/ faults' >= 1
             \/ pend'[v].reply = {} /\ job'[cur'[v]].status \in {"done", "dead"}
      BY <1>f, <1>o, <2>1 DEF IInv, WindowsOK
    <2>3. \A v, u \in Workers : pc'[v] \in Window /\ pc'[u] \in Window /\ cur'[v] = cur'[u] /\ v # u
             => faults' >= 1
      BY <1>f, <2>1 DEF IInv, WindowsOK
    <2>4. \A v \in Workers : pc'[v] \in Window /\ pend'[v].reply # {} /\ job'[cur'[v]].status = "dead"
             => faults' >= 2
      BY <1>f, <2>1 DEF IInv, WindowsOK
    <2> QED
      BY <2>2, <2>3, <2>4 DEF WindowsOK
  <1>12. HandoffOK'
    <2>1. \A v \in Workers : (Unaware(v) /\ Owns(v))' => Unaware(v) /\ Owns(v)
      BY <1>3, <1>o, CleanTypes DEF Unaware
    <2>2. \A v \in Workers : pc'[v] \in Window => pc[v] \in Window /\ pend'[v] = pend[v]
      BY <1>3 DEF Window
    <2>3. \A v \in Workers : \A t \in DOMAIN pend'[v].turns :
             t \in DOMAIN pend[v].turns /\ pend'[v].turns[t] = pend[v].turns[t]
      BY <1>3, CleanTypes
    <2> QED
      BY <2>1, <2>2, <2>3 DEF IInv, HandoffOK, OpenTurns
  <1> QED
    BY <1>4, <1>5, <1>6, <1>7, <1>8, <1>9, <1>10, <1>11, <1>12 DEF IInv

-----------------------------------------------------------------------------
(* The actions of a worker up to its commit *)

\* The turn a message belongs to is open, if there is one.
LEMMA OpenTurnTypes ==
  ASSUME NEW j
  PROVE  LET t == open_turn_for_message(j)
         IN  t \in 0..MaxMessages /\ (t # 0 => t \in Turns /\ turn[t].status \in Open)
  <1> DEFINE C == {t \in OpenTurns : t = j \/ turn[t].latest = j \/ slot.active = t}
  <1>1. C \subseteq Turns /\ C \subseteq Nat /\ \A t \in C : turn[t].status \in Open
    BY DEF OpenTurns, Turns
  <1>2. open_turn_for_message(j) = IF C = {} THEN 0 ELSE Min(C)
    BY DEF open_turn_for_message
  <1> HIDE DEF C
  <1>3. C # {} => Min(C) \in C
    BY <1>1, MinIsMember
  <1>4. CASE C = {}
    BY <1>2, <1>4
  <1>5. CASE C # {}
    <2> DEFINE m == open_turn_for_message(j)
    <2>1. m = Min(C)
      BY <1>2, <1>5
    <2>2. m \in C
      BY <1>3, <1>5, <2>1
    <2> HIDE DEF m
    <2>3. m \in Turns /\ turn[m].status \in Open
      BY <1>1, <2>2
    <2>4. m \in 0..MaxMessages
      BY <2>3 DEF Turns
    <2> QED
      BY <2>3, <2>4 DEF m
  <1> QED
    BY <1>4, <1>5

\* A refreshed view is of the same turn.
LEMMA RefreshedTypes ==
  ASSUME TypeOK, HandoffOK, NEW w \in Workers
  PROVE  /\ sess[w] \in Session /\ Refreshed(w) \in Session
         /\ Refreshed(w).picked = sess[w].picked /\ Refreshed(w).row = sess[w].row
         /\ Refreshed(w).suspended => takeovers # 0
         /\ sess[w].picked # 0 /\ suspended => Refreshed(w).suspended
  <1>1. sess[w] \in Session /\ slot \in Slot /\ suspended \in BOOLEAN
    BY DEF TypeOK
  <1>2. (sess[w].suspended \/ suspended) => takeovers # 0
    BY DEF HandoffOK
  <1>3. CASE sess[w].picked = 0
    BY <1>1, <1>2, <1>3 DEF Refreshed
  <1>4. CASE sess[w].picked # 0
    <2> DEFINE s == [sess[w] EXCEPT !.slot = slot, !.suspended = suspended]
    <2>1. Refreshed(w) = s
      BY <1>4 DEF Refreshed
    <2>2. s \in Session /\ s.picked = sess[w].picked /\ s.row = sess[w].row /\ s.suspended = suspended
      BY <1>1 DEF Session
    <2> HIDE DEF s
    <2> QED
      BY <1>1, <1>2, <2>1, <2>2
  <1> QED
    BY <1>3, <1>4

\* LoadContext preserves the invariant.
LEMMA LoadContextStep ==
  ASSUME IInv, NEW w \in Workers, LoadContext(w)
  PROVE  IInv'
  <1>t. TypeOK /\ HandoffOK
    BY DEF IInv
  <1>1. pc[w] = "claimed" /\ pc[w] \notin Flushing \cup {"idle"} /\ sess[w] \in Session
    BY <1>t DEF LoadContext, Flushing, Window, TypeOK
  <1>2. turn \in [Turns -> Turn] /\ \A t \in Turns : turn[t].status # "none" <=> Existing(t)
    BY <1>t DEF TypeOK, Existing
  <1>3. CASE ~Owns(w) /\ pc' = [pc EXCEPT ![w] = "idle"] /\ UNCHANGED sess
    <2>1. sess' = [sess EXCEPT ![w] = sess[w]]
      BY <1>3, <1>t DEF TypeOK
    <2>2. sess[w].suspended => takeovers # 0
      BY <1>t DEF HandoffOK
    <2>3. UNCHANGED <<posted, slot, suspended, turn, job, replies, answered, cur, pend, rec, faults, takeovers>>
      BY DEF LoadContext, rowVars
    <2> QED
      BY <1>1, <1>2, <1>3, <2>1, <2>2, <2>3, QuietStep
  <1>4. CASE Owns(w) /\ pc' = [pc EXCEPT ![w] = "loaded"]
             /\ sess' = [sess EXCEPT ![w] = Fresh(open_turn_for_message(cur[w]))]
    <2> DEFINE t == open_turn_for_message(cur[w])
               s == Fresh(t)
    <2>1. t \in 0..MaxMessages /\ (t # 0 => t \in Turns /\ turn[t].status \in Open)
      BY OpenTurnTypes
    <2>2. s \in Session /\ s.picked = t /\ (s.suspended <=> suspended) /\ (t # 0 => s.row = turn[t])
      BY <1>t, <2>1, FreshTypes
    <2>3. UNCHANGED <<posted, slot, suspended, turn, job, replies, answered, cur, pend, rec, faults, takeovers>>
          /\ sess' = [sess EXCEPT ![w] = s]
      BY <1>4 DEF LoadContext, rowVars
    <2>4. suspended => takeovers # 0
      BY <1>t DEF HandoffOK
    <2> HIDE DEF t, s
    <2>5. t # 0 => Existing(t)
      BY <2>1 DEF Existing, Open
    <2> QED
      BY <1>1, <1>2, <1>4, <2>1, <2>2, <2>3, <2>4, <2>5, QuietStep
  <1> QED
    BY <1>3, <1>4 DEF LoadContext

\* What a worker's session holds before it flushes.
LEMMA SessionFacts ==
  ASSUME IInv, NEW w \in Workers, pc[w] \in {"loaded", "bridge", "runtime", "persist"}
  PROVE  /\ pc[w] \notin Flushing \cup {"idle"}
         /\ sess[w] \in Session /\ sess[w].row \in Turn /\ Refreshed(w) \in Session
         /\ sess[w].picked \in 0..MaxMessages
         /\ sess[w].picked # 0 => sess[w].picked \in Turns /\ Existing(sess[w].picked)
                                  /\ sess[w].row.status \in Open
         /\ Refreshed(w).picked = sess[w].picked /\ Refreshed(w).row = sess[w].row
         /\ sess[w].suspended \/ suspended \/ Refreshed(w).suspended => takeovers # 0
         /\ sess[w].picked # 0 /\ suspended => Refreshed(w).suspended
         /\ turn \in [Turns -> Turn]
         /\ \A t \in Turns : turn[t].status # "none" <=> Existing(t)
  <1>1. TypeOK /\ HandoffOK
    BY DEF IInv
  <1>2. sess[w] \in Session /\ turn \in [Turns -> Turn]
    BY <1>1 DEF TypeOK
  <1>3. sess[w].row \in Turn /\ sess[w].picked \in 0..MaxMessages
    BY <1>2 DEF Session
  <1>4. sess[w].suspended \/ suspended => takeovers # 0
    BY <1>1 DEF HandoffOK
  <1>5. sess[w].picked # 0 => sess[w].picked \in Turns /\ Existing(sess[w].picked)
                              /\ sess[w].row.status \in Open
    BY <1>3 DEF IInv, SessionsOK, Turns
  <1> QED
    BY <1>1, <1>2, <1>3, <1>4, <1>5, RefreshedTypes DEF Flushing, Window, Existing

\* StartRuntime preserves the invariant.
LEMMA StartRuntimeStep ==
  ASSUME IInv, NEW w \in Workers, StartRuntime(w)
  PROVE  IInv'
  <1> DEFINE view == Refreshed(w)
  <1>1. pc[w] = "bridge" /\ UNCHANGED <<posted, rowVars, cur, rec, faults, takeovers>>
    BY DEF StartRuntime
  <1>2. /\ pc[w] \notin Flushing \cup {"idle"}
        /\ sess[w] \in Session /\ sess[w].row \in Turn /\ view \in Session
        /\ sess[w].picked # 0 => Existing(sess[w].picked) /\ sess[w].row.status \in Open
        /\ view.picked = sess[w].picked /\ view.row = sess[w].row
        /\ view.suspended => takeovers # 0
        /\ turn \in [Turns -> Turn]
        /\ \A t \in Turns : turn[t].status # "none" <=> Existing(t)
    BY <1>1, SessionFacts
  <1>3. CASE Flush(w, Completing(sess[w], sess[w].row)) /\ UNCHANGED sess
    <2>1. FlushGood(w, Completing(sess[w], sess[w].row))
      BY <1>2, ClosingGood
    <2> QED
      BY <1>1, <1>2, <1>3, <2>1, FlushStep DEF Flush
  <1>4. CASE Flush(w, Superseding(view, view.row)) /\ UNCHANGED sess
    <2>1. FlushGood(w, Superseding(view, view.row))
      BY <1>2, ClosingGood
    <2> QED
      BY <1>1, <1>2, <1>4, <2>1, FlushStep DEF Flush
  <1>5. CASE /\ answered < cur[w]
             /\ sess' = [sess EXCEPT ![w] = view]
             /\ pc' = [pc EXCEPT ![w] = "runtime"]
             /\ UNCHANGED pend
    <2>1. ~Posted(cur[w])
      <3>1. cur[w] \in Turns /\ cur[w] \in Nat /\ answered \in Nat
        BY <1>1 DEF IInv, SessionsOK, TypeOK, Turns
      <3> QED
        BY <1>5, <3>1 DEF IInv, AnswersOK
    <2>2. Unaware(w)
      BY <1>1 DEF Unaware
    <2>3. UNCHANGED <<posted, slot, suspended, turn, job, replies, answered, cur, pend, rec, faults, takeovers>>
      BY <1>1, <1>5 DEF rowVars
    <2> HIDE DEF view
    <2> QED
      BY <1>2, <1>5, <2>1, <2>2, <2>3, QuietStep
  <1> QED
    BY <1>3, <1>4, <1>5 DEF StartRuntime

\* RuntimeRaises and PersistReply preserve the invariant.
LEMMA FlushingSteps ==
  ASSUME IInv, NEW w \in Workers, RuntimeRaises(w) \/ PersistReply(w)
  PROVE  IInv'
  <1>1. CASE RuntimeRaises(w)
    <2>1. FlushGood(w, Retrying(w)) /\ pc[w] \notin Flushing \cup {"idle"}
      BY <1>1, RetryingGood DEF RuntimeRaises, Flushing, Window
    <2> QED
      BY <1>1, <2>1, FlushStep DEF RuntimeRaises, Flush
  <1>2. CASE PersistReply(w)
    <2> DEFINE p == [Completing(sess[w], sess[w].row) EXCEPT
                      !.conv  = TRUE,
                      !.slot  = Update(slot, sess[w].slot,
                                  IF sess[w].picked = 0 THEN sess[w].slot
                                  ELSE Release(sess[w].slot, sess[w].picked)),
                      !.reply = {[turn |-> sess[w].picked, by |-> cur[w]]}]
    <2>1. pc[w] = "persist" /\ pc[w] \notin Flushing \cup {"idle"}
      BY <1>2 DEF PersistReply, Flushing, Window
    <2>2. FlushGood(w, p)
      BY <2>1, PersistGood
    <2>3. Flush(w, p) /\ UNCHANGED <<posted, rowVars, cur, sess, rec, faults, takeovers>>
      BY <1>2 DEF PersistReply
    <2> HIDE DEF p
    <2> QED
      BY <2>1, <2>2, <2>3, FlushStep DEF Flush
  <1> QED
    BY <1>1, <1>2

\* DecideReply preserves the invariant.
LEMMA DecideReplyStep ==
  ASSUME IInv, NEW w \in Workers, DecideReply(w)
  PROVE  IInv'
  <1> DEFINE view == Refreshed(w)
             fresh == Fresh(sess[w].picked)
  <1>1. pc[w] = "runtime" /\ UNCHANGED <<posted, rowVars, cur, rec, faults, takeovers>>
    BY DEF DecideReply
  <1>2. /\ pc[w] \notin Flushing \cup {"idle"}
        /\ sess[w] \in Session /\ sess[w].row \in Turn /\ view \in Session
        /\ sess[w].picked \in 0..MaxMessages
        /\ sess[w].picked # 0 => sess[w].picked \in Turns /\ Existing(sess[w].picked)
                                 /\ sess[w].row.status \in Open
        /\ view.picked = sess[w].picked /\ view.row = sess[w].row
        /\ suspended => takeovers # 0
        /\ turn \in [Turns -> Turn]
        /\ \A t \in Turns : turn[t].status # "none" <=> Existing(t)
    BY <1>1, SessionFacts
  <1>t. TypeOK
    BY DEF IInv
  <1>3. CASE /\ view.picked # 0
             /\ Flush(w, IF fresh.row.status \in Terminal THEN [Clean EXCEPT !.job = "done"]
                         ELSE Superseding(fresh, fresh.row))
             /\ UNCHANGED sess
    <2> DEFINE p == IF fresh.row.status \in Terminal THEN [Clean EXCEPT !.job = "done"]
                    ELSE Superseding(fresh, fresh.row)
    <2>1. /\ fresh \in Session /\ fresh.picked = sess[w].picked
          /\ fresh.row = turn[sess[w].picked] /\ fresh.row \in Turn
      BY <1>2, <1>3, <1>t, FreshTypes
    <2> HIDE DEF fresh
    <2>2. fresh.row.status \notin Terminal => FlushGood(w, Superseding(fresh, fresh.row))
      <3>1. fresh.row.status \notin Terminal => fresh.row.status \in Open
        BY <1>2, <1>3, <2>1 DEF Existing, Turn
      <3> QED
        BY <1>2, <1>3, <2>1, <3>1, ClosingGood
    <2>3. FlushGood(w, p)
      BY <2>2, DoneGood, Zenon
    <2>4. Flush(w, p)
      BY <1>3
    <2> HIDE DEF p
    <2> QED
      BY <1>1, <1>2, <1>3, <2>3, <2>4, FlushStep DEF Flush
  <1>4. CASE Flush(w, Superseding(view, view.row)) /\ UNCHANGED sess
    <2>1. FlushGood(w, Superseding(view, view.row))
      BY <1>2, ClosingGood
    <2> QED
      BY <1>1, <1>2, <1>4, <2>1, FlushStep DEF Flush
  <1>5. CASE /\ sess' = [sess EXCEPT ![w] = [@ EXCEPT !.slot = slot, !.suspended = suspended]]
             /\ pc' = [pc EXCEPT ![w] = "persist"]
             /\ UNCHANGED pend
    <2> DEFINE s == [sess[w] EXCEPT !.slot = slot, !.suspended = suspended]
    <2>1. s \in Session /\ s.picked = sess[w].picked /\ s.row = sess[w].row /\ (s.suspended <=> suspended)
      BY <1>2, <1>t DEF Session, TypeOK
    <2>2. sess' = [sess EXCEPT ![w] = s]
      BY <1>5, <1>t DEF TypeOK
    <2>3. UNCHANGED <<posted, slot, suspended, turn, job, replies, answered, cur, pend, rec, faults, takeovers>>
      BY <1>1, <1>5 DEF rowVars
    <2>4. Unaware(w)
      BY <1>1 DEF Unaware
    <2>5. pc' = [pc EXCEPT ![w] = "persist"]
      BY <1>5
    <2>6. s.suspended => takeovers # 0
      BY <1>2, <2>1
    <2> HIDE DEF s, view, fresh
    <2> QED
      BY <1>1, <1>2, <2>1, <2>2, <2>3, <2>4, <2>5, <2>6, QuietStep
  <1> QED
    BY <1>3, <1>4, <1>5 DEF DecideReply

\* PrepareTurn preserves the invariant: a turn is taken up only while no human
\* owns the conversation, since the conversation is read again just before.
LEMMA PrepareTurnStep ==
  ASSUME IInv, NEW w \in Workers, PrepareTurn(w)
  PROVE  IInv'
  <1> DEFINE t == sess[w].picked
             start == t # 0 /\ sess[w].row.status = "queued"
             row == IF start THEN [sess[w].row EXCEPT !.status = "bridge_calling", !.cutoff = posted]
                    ELSE sess[w].row
             view == [Refreshed(w) EXCEPT !.row = row]
             stale == t # 0 /\ should_suppress_stale_reply(view)
  <1>1. pc[w] = "loaded" /\ UNCHANGED <<posted, slot, suspended, job, replies, answered, cur, rec, faults, takeovers>>
    BY DEF PrepareTurn
  <1>t. TypeOK
    BY DEF IInv
  <1>2. /\ pc[w] \notin Flushing \cup {"idle"}
        /\ sess[w] \in Session /\ sess[w].row \in Turn /\ Refreshed(w) \in Session
        /\ t \in 0..MaxMessages
        /\ t # 0 => t \in Turns /\ Existing(t) /\ sess[w].row.status \in Open
        /\ Refreshed(w).picked = t /\ Refreshed(w).row = sess[w].row
        /\ sess[w].suspended \/ suspended \/ Refreshed(w).suspended => takeovers # 0
        /\ t # 0 /\ suspended => Refreshed(w).suspended
        /\ turn \in [Turns -> Turn]
        /\ \A x \in Turns : turn[x].status # "none" <=> Existing(x)
    BY <1>1, SessionFacts
  <1>3. row \in Turn /\ (start => row.status = "bridge_calling") /\ (t # 0 => row.status \in Open)
    <2>1. \A r \in Turn, n \in 0..MaxMessages :
             /\ [r EXCEPT !.status = "bridge_calling", !.cutoff = n] \in Turn
             /\ [r EXCEPT !.status = "bridge_calling", !.cutoff = n].status = "bridge_calling"
      BY DEF Turn, Open
    <2>2. posted \in 0..MaxMessages
      BY <1>t DEF TypeOK
    <2>3. CASE start
      BY <1>2, <2>1, <2>2, <2>3 DEF Open
    <2>4. CASE ~start
      BY <1>2, <2>4
    <2> QED
      BY <2>3, <2>4
  <1> HIDE DEF row
  <1>4. view \in Session /\ view.picked = t /\ view.row = row
        /\ (view.suspended => takeovers # 0) /\ (t # 0 /\ suspended => view.suspended)
    BY <1>2, <1>3 DEF Session
  <1>5. CASE /\ sess[w].suspended
             /\ Flush(w, [turns  |-> cancel_open_ai_turns(OpenTurns),
                          conv   |-> OpenTurns # {} \/ sess[w].slot # NoSession.slot,
                          slot   |-> Update(slot, sess[w].slot, [active |-> 0, next |-> 0]),
                          killed |-> CancelledJobs(OpenTurns) \ {cur[w]},
                          reply  |-> {}, job |-> "done", attempts |-> 0])
             /\ UNCHANGED <<turn, sess>>
    <2> DEFINE c == OpenTurns # {} \/ sess[w].slot # NoSession.slot
               p == [turns  |-> cancel_open_ai_turns(OpenTurns), conv |-> c,
                     slot   |-> Update(slot, sess[w].slot, [active |-> 0, next |-> 0]),
                     killed |-> CancelledJobs(OpenTurns) \ {cur[w]},
                     reply  |-> {}, job |-> "done", attempts |-> 0]
    <2>1. c \in BOOLEAN /\ (OpenTurns # {} => c)
      OBVIOUS
    <2>2. Flush(w, p)
      BY <1>5
    <2>3. FlushGood(w, p)
      <3> HIDE DEF c
      <3> QED
        BY <1>5, <2>1, CancellingGood
    <2> HIDE DEF p
    <2> QED
      BY <1>1, <1>2, <1>5, <2>2, <2>3, FlushStep DEF Flush, rowVars
  <1>6. CASE Flush(w, Completing(sess[w], row)) /\ UNCHANGED <<turn, sess>>
    <2>1. FlushGood(w, Completing(sess[w], row))
      BY <1>2, <1>3, ClosingGood
    <2> QED
      BY <1>1, <1>2, <1>6, <2>1, FlushStep DEF Flush, rowVars
  <1>7. CASE Flush(w, Superseding(Refreshed(w), row)) /\ UNCHANGED <<turn, sess>>
    <2>1. FlushGood(w, Superseding(Refreshed(w), row))
      BY <1>2, <1>3, ClosingGood
    <2> QED
      BY <1>1, <1>2, <1>7, <2>1, FlushStep DEF Flush, rowVars
  <1>8. CASE /\ ~sess[w].suspended /\ ~stale
             /\ turn' = IF start THEN [turn EXCEPT ![t] = Update(turn[t], sess[w].row, row)] ELSE turn
             /\ sess' = [sess EXCEPT ![w] = view]
             /\ pc' = [pc EXCEPT ![w] = "bridge"]
             /\ UNCHANGED pend
    <2>1. Unaware(w)
      BY <1>1, <1>8 DEF Unaware
    <2>2. t # 0 => ~suspended
      <3>1. t # 0 => ~view.suspended
        BY <1>8 DEF should_suppress_stale_reply
      <3> QED
        BY <1>4, <3>1
    <2>3. start => /\ Update(turn[t], sess[w].row, row) \in Turn
                   /\ Update(turn[t], sess[w].row, row).status = "bridge_calling"
      BY <1>2, <1>3, UpdateTypes
    <2>4. /\ turn' \in [Turns -> Turn]
          /\ \A x \in Turns : turn'[x].status # "none" <=> Existing(x)
          /\ \A x \in Turns : turn'[x].status = "cancelled" => turn[x].status = "cancelled"
          /\ suspended => turn' = turn
      <3>1. CASE ~start
        BY <1>2, <1>8, <3>1
      <3>2. CASE start
        <4>1. \A x \in Turns : turn'[x] = IF x = t THEN Update(turn[t], sess[w].row, row) ELSE turn[x]
          BY <1>2, <1>8, <3>2
        <4>2. turn' \in [Turns -> Turn]
          BY <1>2, <1>8, <2>3, <3>2
        <4> QED
          BY <1>2, <2>2, <2>3, <3>2, <4>1, <4>2
      <3> QED
        BY <3>1, <3>2
    <2>5. UNCHANGED <<posted, slot, suspended, job, replies, answered, cur, pend, rec, faults, takeovers>>
          /\ sess' = [sess EXCEPT ![w] = view] /\ pc' = [pc EXCEPT ![w] = "bridge"]
      BY <1>1, <1>8
    <2>6. view.picked # 0 => Existing(view.picked) /\ view.row.status \in Open
      BY <1>2, <1>3, <1>4, Zenon
    <2> HIDE DEF view, start, t, stale
    <2> QED
      BY <1>2, <1>4, <2>1, <2>4, <2>5, <2>6, QuietStep
  <1> QED
    BY <1>5, <1>6, <1>7, <1>8 DEF PrepareTurn, row

\* CheckOwnership, when the worker still owns its job.
LEMMA PassingStep ==
  ASSUME IInv, NEW w \in Workers, pc[w] = "finish", Owns(w), pc' = [pc EXCEPT ![w] = "commit"],
         UNCHANGED <<posted, rowVars, cur, sess, pend, rec, faults, takeovers>>
  PROVE  IInv'
  <1> USE DEF rowVars
  <1>t. TypeOK
    BY DEF IInv
  <1>2. \A v \in Workers : pc'[v] = IF v = w THEN "commit" ELSE pc[v]
    BY <1>t DEF TypeOK
  <1>4. TypeOK'
    <2>1. pc' \in [Workers -> PCs]
      BY <1>t DEF TypeOK, PCs
    <2> QED
      BY <1>t, <2>1 DEF TypeOK, PCs
  <1>5. RowsExist'
    BY <1>2 DEF IInv, RowsExist, Existing, TypeOK, Job
  <1>6. SessionsOK'
    BY <1>2 DEF IInv, SessionsOK, Existing
  <1>7. LocksOK'
    BY <1>2 DEF IInv, LocksOK, Flushing, Window
  <1>8. FlushesOK'
    BY DEF IInv, FlushesOK, FlushOK, Existing, TurnSilent
  <1>9. AnswersOK'
    <2>0. \A j : Posted(j)' <=> Posted(j)
      BY DEF Posted
    <2>1. \A v \in Workers : (Answering(v) /\ Owns(v))' => Answering(v) /\ Owns(v)
      BY <1>2 DEF Answering, Owns
    <2>2. \A v \in Workers : pc'[v] \in Window /\ pend[v].reply # {} /\ pend[v].job = "done" => ~Posted(cur[v])
      BY <1>2 DEF Window, IInv, AnswersOK, Answering
    <2>3. \A v \in Workers : pc'[v] = "recommit" => pend[v].job # "done"
      BY <1>2 DEF IInv, AnswersOK
    <2> QED
      BY <2>0, <2>1, <2>2, <2>3 DEF IInv, AnswersOK
  <1>10. JobAnswersOnce'
    BY DEF IInv, JobAnswersOnce
  <1>11. WindowsOK'
    <2>0. \A v \in Workers : pc'[v] \in Window /\ v # w => pc[v] \in Window
      BY <1>2
    <2>1. Held(w) \/ faults >= 1
      <3>1. job[cur[w]].expired => faults >= 1
        BY DEF IInv, RowsExist, SessionsOK
      <3> QED
        BY <3>1 DEF Held
    <2>2. \A v \in Workers : Held(v)' <=> Held(v)
      BY DEF Owns, Held
    <2>3. \A v \in Workers : pc'[v] \in Window =>
             \/ Held(v)'
             \/ faults' >= 1
             \/ pend'[v].reply = {} /\ job'[cur'[v]].status \in {"done", "dead"}
      BY <2>0, <2>1, <2>2 DEF IInv, WindowsOK
    <2>4. \A v \in Workers : pc'[v] \in Window /\ cur[v] = cur[w] /\ v # w => faults >= 1
      BY <2>0 DEF IInv, WindowsOK, Owns, Held
    <2>5. \A v, u \in Workers : pc'[v] \in Window /\ pc'[u] \in Window /\ cur'[v] = cur'[u] /\ v # u
             => faults' >= 1
      BY <2>0, <2>4 DEF IInv, WindowsOK
    <2>6. \A v \in Workers : pc'[v] \in Window /\ pend'[v].reply # {} /\ job'[cur'[v]].status = "dead"
             => faults' >= 2
      BY <2>0 DEF IInv, WindowsOK, Owns
    <2> QED
      BY <2>3, <2>5, <2>6 DEF WindowsOK
  <1>12. HandoffOK'
    <2>1. \A v \in Workers : (Unaware(v) /\ Owns(v))' => Unaware(v) /\ Owns(v)
      BY <1>2 DEF Unaware, Owns
    <2>2. takeovers < 2 /\ suspended => \A v \in Workers : pc'[v] \in Window /\ pend[v].reply # {}
             => turn[cur[v]].status # "cancelled"
      BY <1>2 DEF Window, IInv, HandoffOK, Unaware
    <2> QED
      BY <2>1, <2>2 DEF IInv, HandoffOK, OpenTurns
  <1> QED
    BY <1>4, <1>5, <1>6, <1>7, <1>8, <1>9, <1>10, <1>11, <1>12 DEF IInv

\* CheckOwnership preserves the invariant.
LEMMA CheckOwnershipStep ==
  ASSUME IInv, NEW w \in Workers, CheckOwnership(w)
  PROVE  IInv'
  <1>t. TypeOK
    BY DEF IInv
  <1>1. pc[w] = "finish" /\ UNCHANGED <<posted, rowVars, cur, sess, rec, faults, takeovers>>
    BY DEF CheckOwnership
  <1>2. CASE Owns(w)
    <2>1. pc' = [pc EXCEPT ![w] = "commit"] /\ UNCHANGED pend
      BY <1>2 DEF CheckOwnership
    <2> QED
      BY <1>1, <1>2, <2>1, PassingStep
  <1>3. CASE ~Owns(w)
    <2>1. pc' = [pc EXCEPT ![w] = "idle"] /\ pend' = [pend EXCEPT ![w] = Clean]
      BY <1>3 DEF CheckOwnership
    <2>2. \A j \in Turns : job[j].owner # w
      BY <1>3, <1>t DEF IInv, RowsExist, Owns
    <2>3. job \in [Turns -> Job] /\ faults \in 0..MaxFaults /\ faults >= faults
      BY <1>t DEF TypeOK
    <2> QED
      BY <1>1, <2>1, <2>2, <2>3, FaultStep DEF rowVars
  <1> QED
    BY <1>2, <1>3

\* RecoverException preserves the invariant.
LEMMA RecoverExceptionStep ==
  ASSUME IInv, NEW w \in Workers, RecoverException(w)
  PROVE  IInv'
  <1>t. TypeOK
    BY DEF IInv
  <1>1. /\ pc[w] = "recover" /\ pc[w] \notin Flushing \cup {"idle"}
        /\ UNCHANGED <<posted, rowVars, cur, sess, rec, faults, takeovers>>
    BY DEF RecoverException, Flushing, Window
  <1>2. CASE ~Owns(w) /\ pc' = [pc EXCEPT ![w] = "idle"] /\ UNCHANGED pend
    <2>1. pend' = [pend EXCEPT ![w] = Clean]
      BY <1>1, <1>2 DEF IInv, LocksOK
    <2>2. \A j \in Turns : job[j].owner # w
      BY <1>2, <1>t DEF IInv, RowsExist, Owns
    <2>3. job \in [Turns -> Job] /\ faults \in 0..MaxFaults /\ faults >= faults
      BY <1>t DEF TypeOK
    <2> QED
      BY <1>1, <1>2, <2>1, <2>2, <2>3, FaultStep DEF rowVars
  <1>3. CASE /\ Owns(w)
             /\ ~(Retrying(w).conv /\ ConvLocked)
             /\ \A t \in DOMAIN Retrying(w).turns : ~Locked(t)
             /\ pend' = [pend EXCEPT ![w] = Retrying(w)]
             /\ pc' = [pc EXCEPT ![w] = "recommit"]
    <2>1. FlushGood(w, Retrying(w)) /\ Retrying(w).job \in {"retry", "resolved"}
      BY <1>1, RetryingGood
    <2> QED
      BY <1>1, <1>3, <2>1, FlushStep
  <1> QED
    BY <1>2, <1>3 DEF RecoverException

\* CommitFails, LeaseExpires and Crash preserve the invariant.
LEMMA FaultSteps ==
  ASSUME IInv, NEW w \in Workers, CommitFails(w) \/ LeaseExpires(w) \/ Crash(w)
  PROVE  IInv'
  <1>t. /\ TypeOK /\ job \in [Turns -> Job] /\ faults \in 0..MaxFaults
        /\ pend = [v \in Workers |-> pend[v]] /\ pc \in [Workers -> PCs]
    BY DEF IInv, LocksOK, TypeOK, PCs
  <1>1. pc[w] # "idle" /\ cur[w] \in Turns
    BY DEF CommitFails, LeaseExpires, Crash, IInv, SessionsOK
  <1>2. faults' \in 0..MaxFaults /\ faults' >= faults /\ faults' >= 1
    BY <1>t DEF CommitFails, LeaseExpires, Crash
  <1>3. \A x \in Job :
           /\ [x EXCEPT !.expired = TRUE] \in Job
           /\ [x EXCEPT !.expired = TRUE].status = x.status
           /\ [x EXCEPT !.expired = TRUE].owner = x.owner
           /\ [x EXCEPT !.owner = NoWorker, !.expired = TRUE] \in Job
           /\ [x EXCEPT !.owner = NoWorker, !.expired = TRUE].status = x.status
           /\ [x EXCEPT !.owner = NoWorker, !.expired = TRUE].owner = NoWorker
    BY DEF Job
  <1>4. CASE CommitFails(w)
    <2>1. /\ pend' = [pend EXCEPT ![w] = Clean] /\ pc' = [pc EXCEPT ![w] = "recover"]
          /\ UNCHANGED <<posted, rowVars, cur, sess, rec, takeovers>>
      BY <1>4 DEF CommitFails
    <2>2. UNCHANGED <<posted, slot, suspended, turn, replies, answered, cur, sess, rec, takeovers>>
          /\ job' = job
      BY <2>1 DEF rowVars
    <2> DEFINE l == "recover"
    <2>3. job' \in [Turns -> Job] /\ l # "idle" /\ l \in {"idle", "recover"}
          /\ pc' = [pc EXCEPT ![w] = l]
      BY <1>t, <2>1, <2>2
    <2> HIDE DEF l
    <2>4. \A j \in Turns : /\ job'[j].status = job[j].status
                           /\ job'[j].owner = job[j].owner \/ job'[j].owner = NoWorker
                           /\ l = "idle" => job'[j].owner # w
                           /\ job'[j] = job[j] \/ faults' >= 1
      BY <2>2, <2>3
    <2> QED
      BY <1>1, <1>2, <2>1, <2>2, <2>3, <2>4, FaultStep
  <1>5. CASE LeaseExpires(w)
    <2>1. /\ pend' = [pend EXCEPT ![w] = pend[w]] /\ pc' = [pc EXCEPT ![w] = pc[w]]
          /\ UNCHANGED <<posted, slot, suspended, turn, replies, answered, cur, sess, rec, takeovers>>
      BY <1>5, <1>t DEF LeaseExpires, workerVars
    <2>2. job' = [job EXCEPT ![cur[w]] = [job[cur[w]] EXCEPT !.expired = TRUE]]
      BY <1>5 DEF LeaseExpires
    <2>3. job[cur[w]] \in Job
      BY <1>t, <1>1
    <2> DEFINE y == [job[cur[w]] EXCEPT !.expired = TRUE]
    <2>4. y \in Job /\ y.status = job[cur[w]].status /\ y.owner = job[cur[w]].owner
      BY <1>3, <2>3
    <2>5. job' = [job EXCEPT ![cur[w]] = y]
      BY <2>2
    <2> HIDE DEF y
    <2>6. job' \in [Turns -> Job] /\ \A j \in Turns : job'[j] = IF j = cur[w] THEN y ELSE job[j]
      BY <1>t, <2>4, <2>5
    <2>7. \A j \in Turns : job'[j].status = job[j].status /\ job'[j].owner = job[j].owner
      BY <2>4, <2>6
    <2>8. \A j \in Turns : /\ job'[j].status = job[j].status
                           /\ job'[j].owner = job[j].owner \/ job'[j].owner = NoWorker
                           /\ pc[w] = "idle" => job'[j].owner # w
                           /\ job'[j] = job[j] \/ faults' >= 1
      BY <1>1, <1>2, <2>7
    <2> DEFINE q == pend[w]
               l == pc[w]
    <2>9. /\ q = pend[w] /\ l = pc[w]
          /\ pend' = [pend EXCEPT ![w] = q] /\ pc' = [pc EXCEPT ![w] = l]
      BY <2>1
    <2>10. \A j \in Turns : /\ job'[j].status = job[j].status
                            /\ job'[j].owner = job[j].owner \/ job'[j].owner = NoWorker
                            /\ l = "idle" => job'[j].owner # w
                            /\ job'[j] = job[j] \/ faults' >= 1
      BY <2>8
    <2>11. UNCHANGED <<posted, slot, suspended, turn, replies, answered, cur, sess, rec, takeovers>>
      BY <2>1
    <2>12. job' \in [Turns -> Job]
      BY <2>6
    <2> HIDE DEF q, l
    <2> QED
      BY <1>1, <1>2, <2>9, <2>10, <2>11, <2>12, FaultStep
  <1>6. CASE Crash(w)
    <2>1. /\ pend' = [pend EXCEPT ![w] = Clean] /\ pc' = [pc EXCEPT ![w] = "idle"]
          /\ UNCHANGED <<posted, slot, suspended, turn, replies, answered, cur, sess, rec, takeovers>>
      BY <1>6 DEF Crash
    <2>2. \A j \in Turns : job[j].owner = w => j = cur[w] /\ Owns(w)
      BY <1>t DEF IInv, RowsExist, Owns
    <2>3. CASE ~Owns(w)
      <3>1. job' = job
        BY <1>6, <2>3 DEF Crash
      <3> QED
        BY <1>t, <1>1, <1>2, <2>1, <2>2, <2>3, <3>1, FaultStep
    <2>4. CASE Owns(w)
      <3>1. job' = [job EXCEPT ![cur[w]] = [job[cur[w]] EXCEPT !.owner = NoWorker, !.expired = TRUE]]
        BY <1>6, <2>4, <1>t, <1>1 DEF Crash
      <3>2. job[cur[w]] \in Job
        BY <1>t, <1>1
      <3> DEFINE y == [job[cur[w]] EXCEPT !.owner = NoWorker, !.expired = TRUE]
      <3>3. y \in Job /\ y.status = job[cur[w]].status /\ y.owner = NoWorker
        BY <1>3, <3>2
      <3>4. job' = [job EXCEPT ![cur[w]] = y]
        BY <3>1
      <3> HIDE DEF y
      <3>5. job' \in [Turns -> Job] /\ \A j \in Turns : job'[j] = IF j = cur[w] THEN y ELSE job[j]
        BY <1>t, <3>3, <3>4
      <3>6. \A j \in Turns : job'[j].status = job[j].status
                             /\ (job'[j].owner = job[j].owner \/ job'[j].owner = NoWorker)
                             /\ job'[j].owner # w
        BY <2>2, <3>3, <3>5
      <3> QED
        BY <1>1, <1>2, <2>1, <3>5, <3>6, FaultStep
    <2> QED
      BY <2>3, <2>4
  <1> QED
    BY <1>4, <1>5, <1>6

\* claim_job preserves the invariant: a job that is claimed in another worker's
\* window had run out there.
LEMMA ClaimStep ==
  ASSUME IInv, NEW w \in Workers, claim_job(w)
  PROVE  IInv'
  <1>t. /\ TypeOK /\ job \in [Turns -> Job] /\ pc \in [Workers -> PCs] /\ cur \in [Workers -> 0..MaxMessages]
        /\ NoWorker \notin Workers /\ faults \in Nat
    BY DEF IInv, TypeOK, PCs
  <1>1. PICK j \in Turns :
           /\ Claimable(j)
           /\ job' = [job EXCEPT ![j].status = "processing", ![j].owner = w, ![j].expired = FALSE]
           /\ cur' = [cur EXCEPT ![w] = j]
    BY DEF claim_job
  <1>2. /\ pc[w] = "idle" /\ pc' = [pc EXCEPT ![w] = "claimed"]
        /\ UNCHANGED <<posted, slot, suspended, turn, replies, answered, sess, pend, rec, faults, takeovers>>
    BY DEF claim_job
  <1>3. \A v \in Workers : pc'[v] = (IF v = w THEN "claimed" ELSE pc[v])
                           /\ cur'[v] = (IF v = w THEN j ELSE cur[v])
    BY <1>t, <1>1, <1>2
  <1>4. /\ job' \in [Turns -> Job]
        /\ job'[j].status = "processing" /\ job'[j].owner = w /\ ~job'[j].expired
        /\ \A i \in Turns : i # j => job'[i] = job[i]
    BY <1>t, <1>1 DEF Job
  <1>5. Existing(j) /\ pend[w] = Clean /\ job[j].status \in {"pending", "processing"}
        /\ (job[j].status = "processing" => job[j].expired)
    BY <1>1, <1>2 DEF Claimable, IInv, RowsExist, LocksOK, Flushing, Window
  <1>6. \A i \in Turns : job[i].owner # w
    BY <1>2, <1>t DEF IInv, RowsExist
  <1>7. TypeOK'
    <2>1. pc' \in [Workers -> PCs] /\ cur' \in [Workers -> 0..MaxMessages]
      BY <1>t, <1>1, <1>2 DEF PCs, Turns
    <2> QED
      BY <1>t, <1>2, <1>4, <2>1 DEF TypeOK, PCs
  <1>8. RowsExist'
    <2>1. \A i \in Turns : job'[i].owner # NoWorker =>
             cur'[job'[i].owner] = i /\ pc'[job'[i].owner] # "idle" /\ job'[i].status = "processing"
      <3> SUFFICES ASSUME NEW i \in Turns, job'[i].owner # NoWorker
                   PROVE  cur'[job'[i].owner] = i /\ pc'[job'[i].owner] # "idle" /\ job'[i].status = "processing"
        OBVIOUS
      <3>1. CASE i = j
        BY <1>3, <1>4, <3>1
      <3>2. CASE i # j
        <4>1. job'[i] = job[i] /\ job[i].owner # w /\ job[i].owner \in Workers
          BY <1>t, <1>4, <1>6, <3>2 DEF Job
        <4>2. cur[job[i].owner] = i /\ pc[job[i].owner] # "idle" /\ job[i].status = "processing"
          BY <4>1 DEF IInv, RowsExist
        <4> QED
          BY <1>3, <4>1, <4>2
      <3> QED
        BY <3>1, <3>2
    <2>2. \A i \in Turns : job'[i].expired => faults >= 1
      BY <1>4 DEF IInv, RowsExist
    <2>3. \A i \in Turns : job'[i].status # "none" => Existing(i)
      BY <1>4, <1>5 DEF IInv, RowsExist
    <2> QED
      BY <1>2, <2>1, <2>2, <2>3 DEF IInv, RowsExist, Existing
  <1>9. SessionsOK'
    BY <1>2, <1>3, <1>5 DEF IInv, SessionsOK, Existing
  <1>10. LocksOK'
    BY <1>2, <1>3, <1>5 DEF IInv, LocksOK
  <1>11. FlushesOK'
    <2> SUFFICES ASSUME NEW v \in Workers PROVE FlushOK(v, pend[v])'
      BY DEF FlushesOK
    <2>1. FlushOK(v, pend[v])
      BY DEF IInv, FlushesOK
    <2>2. CASE v = w
      <3>1. pend'[v] = Clean
        BY <1>2, <1>5, <2>2
      <3> QED
        BY <3>1, CleanTypes DEF FlushOK
    <2>3. CASE v # w
      BY <1>2, <1>3, <2>1, <2>3 DEF FlushOK, Existing, TurnSilent
    <2> QED
      BY <2>2, <2>3
  <1>12. \A v \in Workers : v # w /\ pc[v] # "idle" =>
            /\ Owns(v)' => Owns(v)
            /\ Held(v) => Held(v)'
            /\ job'[cur[v]] = job[cur[v]] \/ (cur[v] = j /\ ~Held(v))
    <2> SUFFICES ASSUME NEW v \in Workers, v # w, pc[v] # "idle"
                 PROVE  /\ Owns(v)' => Owns(v)
                        /\ Held(v) => Held(v)'
                        /\ job'[cur[v]] = job[cur[v]] \/ (cur[v] = j /\ ~Held(v))
      OBVIOUS
    <2>1. cur[v] \in Turns /\ cur'[v] = cur[v]
      BY <1>3 DEF IInv, SessionsOK
    <2>2. CASE cur[v] = j
      BY <1>4, <1>5, <2>1, <2>2 DEF Owns, Held
    <2>3. CASE cur[v] # j
      BY <1>4, <2>1, <2>3 DEF Owns, Held
    <2> QED
      BY <2>2, <2>3
  <1>13. AnswersOK'
    <2>0. \A i : Posted(i)' <=> Posted(i)
      BY <1>2 DEF Posted
    <2>1. \A v \in Workers : (Answering(v) /\ Owns(v))' => v # w /\ Answering(v) /\ Owns(v) /\ cur'[v] = cur[v]
      BY <1>2, <1>3, <1>12 DEF Answering
    <2>2. \A v \in Workers : pc'[v] \in Window => v # w /\ pc[v] = pc'[v] /\ cur'[v] = cur[v]
      BY <1>3 DEF Window
    <2>3. \A v \in Workers : pc'[v] = "recommit" => pc[v] = "recommit"
      BY <1>3
    <2> QED
      BY <1>2, <2>0, <2>1, <2>2, <2>3 DEF IInv, AnswersOK
  <1>14. JobAnswersOnce'
    BY <1>2 DEF IInv, JobAnswersOnce
  <1>15. WindowsOK'
    <2>1. \A v \in Workers : pc'[v] \in Window => v # w /\ pc[v] \in Window /\ cur'[v] = cur[v] /\ pc[v] # "idle"
      BY <1>3 DEF Window
    <2>2. \A v \in Workers : pc'[v] \in Window =>
             \/ Held(v)'
             \/ faults' >= 1
             \/ pend'[v].reply = {} /\ job'[cur'[v]].status \in {"done", "dead"}
      BY <1>2, <1>5, <1>12, <2>1 DEF IInv, WindowsOK
    <2>3. \A v, u \in Workers : pc'[v] \in Window /\ pc'[u] \in Window /\ cur'[v] = cur'[u] /\ v # u
             => faults' >= 1
      BY <1>2, <2>1 DEF IInv, WindowsOK
    <2>4. \A v \in Workers : pc'[v] \in Window /\ pend'[v].reply # {} /\ job'[cur'[v]].status = "dead"
             => faults' >= 2
      BY <1>2, <1>4, <1>12, <2>1 DEF IInv, WindowsOK
    <2> QED
      BY <2>2, <2>3, <2>4 DEF WindowsOK
  <1>16. HandoffOK'
    <2>1. \A v \in Workers : (Unaware(v) /\ Owns(v))' => v # w /\ Unaware(v) /\ Owns(v) /\ cur'[v] = cur[v]
      BY <1>2, <1>3, <1>12 DEF Unaware
    <2>2. \A v \in Workers : pc'[v] \in Window => v # w /\ pc[v] \in Window /\ cur'[v] = cur[v]
      BY <1>3 DEF Window
    <2> QED
      BY <1>2, <2>1, <2>2 DEF IInv, HandoffOK, OpenTurns
  <1> QED
    BY <1>7, <1>8, <1>9, <1>10, <1>11, <1>13, <1>14, <1>15, <1>16 DEF IInv

\* RejectScope preserves the invariant: a job refused in another worker's window
\* was lost there by a fault, and the refusal is the second.
LEMMA RejectScopeStep ==
  ASSUME IInv, NEW w \in Workers, RejectScope(w)
  PROVE  IInv'
  <1> DEFINE j == cur[w]
  <1>t. /\ TypeOK /\ job \in [Turns -> Job] /\ pc \in [Workers -> PCs]
        /\ NoWorker \notin Workers /\ faults \in Nat /\ j \in Turns
    BY DEF IInv, TypeOK, PCs, RejectScope, SessionsOK
  <1>1. /\ pc[w] = "claimed" /\ Owns(w) /\ faults < MaxFaults /\ faults' = faults + 1
        /\ job' = [job EXCEPT ![j] = Killed(j)] /\ pc' = [pc EXCEPT ![w] = "idle"]
        /\ UNCHANGED <<posted, slot, suspended, turn, replies, answered, cur, sess, pend, rec, takeovers>>
    BY DEF RejectScope
  <1>2. \A v \in Workers : pc'[v] = IF v = w THEN "idle" ELSE pc[v]
    BY <1>t, <1>1
  <1>3. /\ Killed(j) \in Job /\ Killed(j).status = "dead" /\ Killed(j).owner = NoWorker
        /\ ~Killed(j).expired
    <2>1. job[j] \in Job
      BY <1>t
    <2> QED
      BY <2>1 DEF Killed, Job
  <1>4. /\ job' \in [Turns -> Job]
        /\ job'[j].status = "dead" /\ job'[j].owner = NoWorker
        /\ \A i \in Turns : i # j => job'[i] = job[i]
    BY <1>t, <1>1, <1>3
  <1>5. faults' >= 1 /\ faults' \in 0..MaxFaults
    BY <1>t, <1>1
  <1>7. TypeOK'
    <2>1. pc' \in [Workers -> PCs]
      BY <1>t, <1>1 DEF PCs
    <2> QED
      BY <1>t, <1>1, <1>4, <1>5, <2>1 DEF TypeOK, PCs
  <1>8. RowsExist'
    <2>1. \A i \in Turns : job'[i].owner # NoWorker =>
             cur'[job'[i].owner] = i /\ pc'[job'[i].owner] # "idle" /\ job'[i].status = "processing"
      <3> SUFFICES ASSUME NEW i \in Turns, job'[i].owner # NoWorker
                   PROVE  cur'[job'[i].owner] = i /\ pc'[job'[i].owner] # "idle" /\ job'[i].status = "processing"
        OBVIOUS
      <3>1. i # j /\ job'[i] = job[i] /\ job[i].owner \in Workers
        BY <1>t, <1>4 DEF Job
      <3>2. cur[job[i].owner] = i /\ pc[job[i].owner] # "idle" /\ job[i].status = "processing"
        BY <3>1 DEF IInv, RowsExist
      <3> QED
        BY <1>1, <1>2, <3>1, <3>2
    <2>2. \A i \in Turns : job'[i].status # "none" => Existing(i)
      BY <1>1, <1>4 DEF IInv, RowsExist, Owns
    <2> QED
      BY <1>1, <1>5, <2>1, <2>2 DEF IInv, RowsExist, Existing
  <1>9. SessionsOK'
    BY <1>1, <1>2 DEF IInv, SessionsOK, Existing
  <1>10. LocksOK'
    BY <1>1, <1>2 DEF IInv, LocksOK, Flushing, Window
  <1>11. FlushesOK'
    BY <1>1 DEF IInv, FlushesOK, FlushOK, Existing, TurnSilent
  <1>12. \A v \in Workers : v # w /\ pc[v] # "idle" => (Owns(v)' => Owns(v))
    <2> SUFFICES ASSUME NEW v \in Workers, v # w, pc[v] # "idle", Owns(v)' PROVE Owns(v)
      OBVIOUS
    <2>1. cur[v] \in Turns /\ cur'[v] = cur[v]
      BY <1>1 DEF IInv, SessionsOK
    <2> QED
      BY <1>4, <2>1 DEF Owns
  <1>13. AnswersOK'
    <2>0. \A i : Posted(i)' <=> Posted(i)
      BY <1>1 DEF Posted
    <2>1. \A v \in Workers : (Answering(v) /\ Owns(v))' => Answering(v) /\ Owns(v)
      BY <1>1, <1>2, <1>12 DEF Answering
    <2>2. \A v \in Workers : pc'[v] \in Window => pc[v] = pc'[v]
      BY <1>2 DEF Window
    <2>3. \A v \in Workers : pc'[v] = "recommit" => pc[v] = "recommit"
      BY <1>2
    <2> QED
      BY <1>1, <2>0, <2>1, <2>2, <2>3 DEF IInv, AnswersOK
  <1>14. JobAnswersOnce'
    BY <1>1 DEF IInv, JobAnswersOnce
  <1>15. WindowsOK'
    <2>1. \A v \in Workers : pc'[v] \in Window => v # w /\ pc[v] \in Window /\ cur[v] \in Turns
      BY <1>2 DEF Window, IInv, SessionsOK
    <2>2. \A v \in Workers : pc'[v] \in Window /\ pend'[v].reply # {} /\ job'[cur'[v]].status = "dead"
             => faults' >= 2
      <3> SUFFICES ASSUME NEW v \in Workers, pc'[v] \in Window, pend'[v].reply # {},
                          job'[cur'[v]].status = "dead"
                   PROVE  faults >= 1
        BY <1>t, <1>1
      <3>1. CASE cur[v] = j
        BY <1>1, <2>1, <3>1 DEF IInv, WindowsOK, Owns, Held
      <3>2. CASE cur[v] # j
        BY <1>t, <1>1, <1>4, <2>1, <3>2 DEF IInv, WindowsOK
      <3> QED
        BY <3>1, <3>2
    <2> QED
      BY <1>5, <2>2 DEF WindowsOK
  <1>16. HandoffOK'
    <2>1. \A v \in Workers : (Unaware(v) /\ Owns(v))' => Unaware(v) /\ Owns(v)
      BY <1>1, <1>2, <1>12 DEF Unaware
    <2>2. \A v \in Workers : pc'[v] \in Window => pc[v] \in Window
      BY <1>2 DEF Window
    <2> QED
      BY <1>1, <2>1, <2>2 DEF IInv, HandoffOK, OpenTurns
  <1> QED
    BY <1>7, <1>8, <1>9, <1>10, <1>11, <1>13, <1>14, <1>15, <1>16 DEF IInv

-----------------------------------------------------------------------------
(* The commit *)

\* What a commit does to the rows and to the messages.
LEMMA CommitEffect ==
  ASSUME IInv, NEW w \in Workers, Commit(w)
  PROVE  /\ turn' \in [Turns -> Turn]
         /\ \A t \in Turns : turn'[t] = IF t \in DOMAIN pend[w].turns THEN pend[w].turns[t] ELSE turn[t]
         /\ slot' \in Slot
         /\ job' \in [Turns -> Job]
         /\ job'[cur[w]].status \in {"pending", "done"} /\ job'[cur[w]].owner = NoWorker
         /\ ~job'[cur[w]].expired
         /\ \A i \in Turns : \/ i = cur[w]
                             \/ i \in pend[w].killed /\ job'[i].status = "dead" /\ job'[i].owner = NoWorker
                                /\ ~job'[i].expired
                             \/ job'[i] = job[i]
         /\ \/ pend[w].reply = {} /\ replies' = replies /\ answered' = answered
            \/ \E t \in 0..MaxMessages :
                  /\ pend[w].reply = {[turn |-> t, by |-> cur[w]]}
                  /\ replies' = Append(replies, [turn |-> t, by |-> cur[w]])
                  /\ answered' = posted
  <1> DEFINE p == pend[w]
             j == cur[w]
             K == [k \in p.killed |-> Killed(k)]
             W == Written(K, job)
  <1>t. /\ TypeOK /\ turn \in [Turns -> Turn] /\ job \in [Turns -> Job] /\ j \in Turns /\ slot \in Slot
        /\ DOMAIN p.turns \subseteq Turns /\ p \in Pending(DOMAIN p.turns) /\ FlushOK(w, p)
    BY DEF IInv, TypeOK, SessionsOK, Commit, FlushesOK
  <1>1. /\ p.turns \in [DOMAIN p.turns -> Turn] /\ p.slot \in Slot /\ p.killed \subseteq Turns
        /\ p.attempts \in 0..MaxAttempts /\ p.conv \in BOOLEAN
    BY <1>t DEF Pending
  <1>2. \A k \in Turns : Killed(k) \in Job /\ Killed(k).status = "dead" /\ Killed(k).owner = NoWorker
                         /\ ~Killed(k).expired
    <2>1. \A x \in Job : LET y == [x EXCEPT !.status = "dead", !.owner = NoWorker, !.expired = FALSE]
                         IN  y \in Job /\ y.status = "dead" /\ y.owner = NoWorker /\ ~y.expired
      BY DEF Job
    <2> QED
      BY <1>t, <2>1 DEF Killed
  <1>3. Settled(j, p) \in Job /\ Settled(j, p).status \in {"pending", "done"} /\ Settled(j, p).owner = NoWorker
        /\ ~Settled(j, p).expired
    <2>1. \A x \in Job : LET y == [x EXCEPT !.status = "done", !.owner = NoWorker, !.expired = FALSE]
                         IN  y \in Job /\ y.status = "done" /\ y.owner = NoWorker /\ ~y.expired
      BY DEF Job
    <2>2. LET y == [NoJob EXCEPT !.status = "pending", !.attempts = p.attempts]
          IN  y \in Job /\ y.status = "pending" /\ y.owner = NoWorker /\ ~y.expired
      BY <1>1 DEF NoJob, Job
    <2>3. job[j] \in Job
      BY <1>t
    <2>4. CASE p.job = "retry"
      BY <2>2, <2>4 DEF Settled
    <2>5. CASE p.job # "retry"
      BY <2>1, <2>3, <2>5 DEF Settled, Done
    <2> QED
      BY <2>4, <2>5
  <1>4. /\ turn' \in [Turns -> Turn]
        /\ \A t \in Turns : turn'[t] = IF t \in DOMAIN p.turns THEN p.turns[t] ELSE turn[t]
    <2>1. turn' = [t \in Turns |-> IF t \in DOMAIN p.turns THEN p.turns[t] ELSE turn[t]]
      BY DEF Commit, Written
    <2>2. \A t \in DOMAIN p.turns : p.turns[t] \in Turn
      BY <1>1
    <2> QED
      BY <1>t, <2>1, <2>2
  <1>5. slot' \in Slot
    <2>1. slot' = IF p.conv THEN p.slot ELSE slot
      BY DEF Commit
    <2> QED
      BY <1>t, <1>1, <2>1
  <1>6. /\ W \in [Turns -> Job]
        /\ \A i \in Turns : W[i] = IF i \in p.killed THEN Killed(i) ELSE job[i]
    <2>1. W = [i \in Turns |-> IF i \in p.killed THEN Killed(i) ELSE job[i]]
      BY DEF Written
    <2> HIDE DEF W
    <2> QED
      BY <1>t, <1>2, <2>1
  <1>7. job' = [W EXCEPT ![j] = Settled(j, p)]
    BY DEF Commit
  <1> HIDE DEF W
  <1>8. job' \in [Turns -> Job] /\ job'[j] = Settled(j, p) /\ \A i \in Turns : i # j => job'[i] = W[i]
    BY <1>t, <1>3, <1>6, <1>7
  <1>9. \A i \in Turns : \/ i = j
                         \/ i \in p.killed /\ job'[i].status = "dead" /\ job'[i].owner = NoWorker
                            /\ ~job'[i].expired
                         \/ job'[i] = job[i]
    BY <1>2, <1>6, <1>8
  <1>10. \/ p.reply = {} /\ replies' = replies /\ answered' = answered
         \/ \E t \in 0..MaxMessages :
               /\ p.reply = {[turn |-> t, by |-> j]}
               /\ replies' = Append(replies, [turn |-> t, by |-> j])
               /\ answered' = posted
    <2>1. CASE p.reply = {}
      BY <2>1 DEF Commit
    <2>2. CASE p.reply # {}
      <3>1. PICK t \in 0..MaxMessages : p.reply = {[turn |-> t, by |-> j]}
        BY <1>t, <2>2 DEF FlushOK
      <3>2. replies' = Append(replies, CHOOSE r \in p.reply : TRUE) /\ answered' = posted
        BY <2>2 DEF Commit
      <3>3. (CHOOSE r \in p.reply : TRUE) = [turn |-> t, by |-> j]
        BY <3>1
      <3> QED
        BY <3>1, <3>2, <3>3
    <2> QED
      BY <2>1, <2>2
  <1> QED
    BY <1>3, <1>4, <1>5, <1>8, <1>9, <1>10

\* Commit preserves the invariant.
LEMMA CommitStep ==
  ASSUME IInv, NEW w \in Workers, Commit(w)
  PROVE  IInv'
  <1> DEFINE p == pend[w]
             j == cur[w]
  <1>t. /\ TypeOK /\ j \in Turns /\ Existing(j) /\ pc[w] \in Window /\ FlushOK(w, p) /\ NoWorker \notin Workers
        /\ DOMAIN p.turns \subseteq Turns /\ p.killed \subseteq Turns /\ p \in Pending(DOMAIN p.turns)
        /\ pend = [v \in Workers |-> pend[v]] /\ faults \in Nat /\ pc[w] # "idle"
    BY DEF IInv, TypeOK, SessionsOK, Commit, FlushesOK, Pending, LocksOK, Window
  <1>e. /\ turn' \in [Turns -> Turn]
        /\ \A t \in Turns : turn'[t] = IF t \in DOMAIN p.turns THEN p.turns[t] ELSE turn[t]
        /\ slot' \in Slot
        /\ job' \in [Turns -> Job]
        /\ job'[j].status \in {"pending", "done"} /\ job'[j].owner = NoWorker /\ ~job'[j].expired
        /\ \A i \in Turns : \/ i = j
                            \/ i \in p.killed /\ job'[i].status = "dead" /\ job'[i].owner = NoWorker
                               /\ ~job'[i].expired
                            \/ job'[i] = job[i]
    BY CommitEffect
  <1>r. \/ p.reply = {} /\ replies' = replies /\ answered' = answered
        \/ \E t \in 0..MaxMessages :
              /\ p.reply = {[turn |-> t, by |-> j]}
              /\ replies' = Append(replies, [turn |-> t, by |-> j])
              /\ answered' = posted
    BY CommitEffect
  <1>u. /\ pc' = [pc EXCEPT ![w] = "idle"] /\ pend' = [pend EXCEPT ![w] = Clean]
        /\ UNCHANGED <<posted, suspended, cur, sess, rec, faults, takeovers>>
    BY DEF Commit
  <1> HIDE DEF p, j
  <1>1. /\ \A v \in Workers : pend'[v] = IF v = w THEN Clean ELSE pend[v]
        /\ DOMAIN pend' = Workers
        /\ pend' = [v \in Workers |-> pend'[v]]
    BY <1>t, <1>u
  <1>2. \A v \in Workers : pc'[v] = IF v = w THEN "idle" ELSE pc[v]
    BY <1>t, <1>u DEF TypeOK
  <1>3. \A t \in Turns : Existing(t)' <=> Existing(t)
    BY <1>t, <1>e DEF Existing, FlushOK, Terminal
  <1>4. \A v \in Workers : v # w /\ pend[v].conv => p.reply = {} /\ p.killed = {}
    BY <1>t DEF p, IInv, LocksOK, FlushOK
  <1>5. \A v \in Workers : pend[v].reply # {} => pend[v].conv
    BY DEF IInv, FlushesOK, FlushOK
  <1>6. TypeOK'
    <2>1. pc' \in [Workers -> PCs]
      BY <1>t, <1>u DEF TypeOK, PCs
    <2>2. \A v \in Workers : DOMAIN pend'[v].turns \subseteq Turns /\ pend'[v] \in Pending(DOMAIN pend'[v].turns)
      <3>1. DOMAIN Clean.turns \subseteq Turns /\ Clean \in Pending(DOMAIN Clean.turns)
        BY CleanTypes
      <3>2. \A v \in Workers : DOMAIN pend[v].turns \subseteq Turns /\ pend[v] \in Pending(DOMAIN pend[v].turns)
        BY <1>t DEF TypeOK
      <3> QED
        BY <1>1, <3>1, <3>2, Zenon
    <2>3. replies' \in Seq(Reply)
      <3>1. replies \in Seq(Reply) /\ \A t \in 0..MaxMessages : [turn |-> t, by |-> j] \in Reply
        BY <1>t DEF TypeOK, Reply
      <3>2. CASE p.reply = {}
        BY <1>r, <3>1, <3>2
      <3>3. CASE p.reply # {}
        <4>1. PICK t \in 0..MaxMessages : replies' = Append(replies, [turn |-> t, by |-> j])
          BY <1>r, <3>3
        <4>2. [turn |-> t, by |-> j] \in Reply
          BY <3>1
        <4> QED
          BY <3>1, <4>1, <4>2, AppendProperties
      <3> QED
        BY <3>2, <3>3
    <2>4. answered' \in 0..MaxMessages
      BY <1>t, <1>r DEF TypeOK
    <2> QED
      BY <1>t, <1>e, <1>u, <1>1, <2>1, <2>2, <2>3, <2>4 DEF TypeOK, PCs
  <1>7. \A v \in Workers : v # w /\ pc[v] # "idle" =>
           /\ cur[v] \in Turns
           /\ Owns(v)' => Owns(v) /\ cur[v] # j
           /\ Held(v) => Held(v)' \/ cur[v] = j \/ cur[v] \in p.killed
    <2> SUFFICES ASSUME NEW v \in Workers, v # w, pc[v] # "idle"
                 PROVE  /\ cur[v] \in Turns
                        /\ Owns(v)' => Owns(v) /\ cur[v] # j
                        /\ Held(v) => Held(v)' \/ cur[v] = j \/ cur[v] \in p.killed
      OBVIOUS
    <2>1. cur[v] \in Turns /\ cur'[v] = cur[v]
      BY <1>u DEF IInv, SessionsOK
    <2> QED
      BY <1>t, <1>e, <2>1 DEF Owns, Held
  <1>8. RowsExist'
    <2>1. \A i \in Turns : job'[i].owner # NoWorker =>
             cur'[job'[i].owner] = i /\ pc'[job'[i].owner] # "idle" /\ job'[i].status = "processing"
      <3> SUFFICES ASSUME NEW i \in Turns, job'[i].owner # NoWorker
                   PROVE  cur'[job'[i].owner] = i /\ pc'[job'[i].owner] # "idle" /\ job'[i].status = "processing"
        OBVIOUS
      <3>1. i # j /\ job'[i] = job[i] /\ job[i].owner \in Workers
        BY <1>t, <1>e DEF Job
      <3>2. cur[job[i].owner] = i /\ pc[job[i].owner] # "idle" /\ job[i].status = "processing"
        BY <3>1 DEF IInv, RowsExist
      <3>3. job[i].owner # w
        BY <3>1, <3>2 DEF j
      <3> QED
        BY <1>u, <1>2, <3>1, <3>2, <3>3
    <2>2. \A i \in Turns : job'[i].status # "none" => Existing(i)
      BY <1>t, <1>e DEF IInv, RowsExist, FlushOK
    <2>3. \A i \in Turns : job'[i].expired => faults >= 1
      BY <1>e DEF IInv, RowsExist
    <2> QED
      BY <1>u, <1>3, <2>1, <2>2, <2>3 DEF IInv, RowsExist
  <1>9. SessionsOK'
    <2>1. \A v \in Workers : pc'[v] # "idle" => pc[v] = pc'[v]
      BY <1>2
    <2>2. \A v \in Workers : sess[v].picked # 0 => sess[v].picked \in Turns
      BY <1>t DEF TypeOK, Session, Turns
    <2>3. \A v \in Workers : pc'[v] # "idle" => cur[v] \in Turns /\ Existing(cur[v])'
      BY <1>3, <1>u, <2>1 DEF IInv, SessionsOK
    <2>4. \A v \in Workers : pc'[v] \in {"loaded", "bridge", "runtime", "persist"} /\ sess[v].picked # 0
             => Existing(sess[v].picked)' /\ sess[v].row.status \in Open
      BY <1>3, <1>u, <2>1, <2>2 DEF IInv, SessionsOK
    <2>5. \A r \in Reconcilers : rec[r].on /\ rec[r].view.row.status # "none"
             => rec[r].view.picked \in Turns /\ Existing(rec[r].view.picked)'
      BY <1>3, <1>u DEF IInv, SessionsOK
    <2> QED
      BY <1>u, <2>3, <2>4, <2>5 DEF SessionsOK, Existing
  <1>10. LocksOK'
    <2>1. \A v \in Workers : pc'[v] \notin Flushing => pend'[v] = Clean
      BY <1>1, <1>2 DEF IInv, LocksOK
    <2>2. \A v, u \in Workers : pend'[v].conv /\ pend'[u].conv => v = u
      BY <1>1, CleanTypes DEF IInv, LocksOK
    <2>3. \A v, u \in Workers : \A t \in DOMAIN pend'[v].turns \cap DOMAIN pend'[u].turns : v = u
      BY <1>1, CleanTypes DEF IInv, LocksOK
    <2> QED
      BY <1>1, <2>1, <2>2, <2>3 DEF LocksOK
  <1>11. FlushesOK'
    <2> SUFFICES ASSUME NEW v \in Workers PROVE FlushOK(v, pend[v])'
      BY DEF FlushesOK
    <2>1. CASE v = w
      <3>1. pend'[v] = Clean
        BY <1>1, <2>1
      <3> QED
        BY <3>1, CleanTypes DEF FlushOK
    <2>2. CASE v # w
      <3>1. FlushOK(v, pend[v]) /\ DOMAIN pend[v].turns \subseteq Turns /\ pend[v].killed \subseteq Turns
        BY <1>t DEF IInv, FlushesOK, TypeOK, Pending
      <3>2. pend[v].reply # {} => replies' = replies
        BY <1>4, <1>5, <1>r, <2>2
      <3>3. pend'[v] = pend[v]
        BY <1>1, <2>2
      <3> QED
        BY <1>3, <1>u, <3>1, <3>2, <3>3 DEF FlushOK, TurnSilent
    <2> QED
      BY <2>1, <2>2
  <1>12. \A i : Posted(i)' => Posted(i) \/ (i = j /\ p.reply # {})
    <2>1. CASE p.reply = {}
      BY <1>r, <2>1 DEF Posted
    <2>2. CASE p.reply # {}
      <3>1. PICK t \in 0..MaxMessages : replies' = Append(replies, [turn |-> t, by |-> j])
        BY <1>r, <2>2
      <3>2. \A i \in DOMAIN replies' : replies'[i] = [turn |-> t, by |-> j]
                                       \/ (i \in DOMAIN replies /\ replies'[i] = replies[i])
        BY <1>t, <3>1 DEF TypeOK
      <3> QED
        BY <2>2, <3>2 DEF Posted
    <2> QED
      BY <2>1, <2>2
  <1>13. AnswersOK'
    <2>1. answered' <= posted' /\ \A i \in Turns : Posted(i)' => i <= answered'
      <3>1. posted \in Nat /\ answered \in Nat /\ answered <= posted /\ j <= posted
        BY <1>t DEF IInv, AnswersOK, TypeOK, RowsExist
      <3>2. p.reply # {} => answered' = posted
        BY <1>r
      <3>3. p.reply = {} => answered' = answered
        BY <1>r
      <3>4. \A i \in Turns : Posted(i) => i <= answered
        BY DEF IInv, AnswersOK
      <3>5. \A i \in Turns : i \in Nat
        BY DEF Turns
      <3>6. CASE p.reply = {}
        BY <1>u, <1>12, <3>1, <3>3, <3>4, <3>6
      <3>7. CASE p.reply # {}
        <4> SUFFICES ASSUME NEW i \in Turns, Posted(i)' PROVE i <= posted
          BY <1>u, <3>1, <3>2, <3>7
        <4> QED
          BY <1>12, <3>1, <3>4, <3>5
      <3> QED
        BY <3>6, <3>7
    <2>2. \A v \in Workers : (Answering(v) /\ Owns(v))' => v # w /\ Answering(v) /\ Owns(v) /\ cur[v] # j
      BY <1>1, <1>2, <1>7 DEF Answering
    <2>3. \A v \in Workers : pc'[v] \in Window /\ pend'[v].reply # {} /\ pend'[v].job = "done"
             => v # w /\ p.reply = {} /\ pc[v] \in Window /\ pend[v].reply # {} /\ pend[v].job = "done"
      BY <1>1, <1>2, <1>4, <1>5 DEF Window
    <2>4. \A v \in Workers : pc'[v] = "recommit" => pc[v] = "recommit" /\ pend'[v] = pend[v]
      BY <1>1, <1>2
    <2>5. \A v \in Workers : (Answering(v) /\ Owns(v))' => ~Posted(cur[v])'
      BY <1>12, <1>u, <2>2 DEF IInv, AnswersOK
    <2>6. \A v \in Workers : pc'[v] \in Window /\ pend'[v].reply # {} /\ pend'[v].job = "done" => ~Posted(cur[v])'
      BY <1>12, <1>u, <2>3 DEF IInv, AnswersOK
    <2>7. \A v \in Workers : pc'[v] = "recommit" => pend'[v].job # "done"
      BY <2>4 DEF IInv, AnswersOK
    <2> QED
      BY <2>1, <2>5, <2>6, <2>7 DEF AnswersOK
  <1>14. JobAnswersOnce'
    <2>1. CASE p.reply = {}
      BY <1>r, <2>1 DEF IInv, JobAnswersOnce
    <2>2. CASE p.reply # {}
      <3>1. PICK t \in 0..MaxMessages : /\ p.reply = {[turn |-> t, by |-> j]}
                                        /\ replies' = Append(replies, [turn |-> t, by |-> j])
        BY <1>r, <2>2
      <3> DEFINE r == [turn |-> t, by |-> j]
      <3>2. /\ Len(replies) \in Nat /\ DOMAIN replies = 1..Len(replies)
            /\ DOMAIN replies' = 1..(Len(replies) + 1)
            /\ \A i \in 1..Len(replies) : replies'[i] = replies[i]
            /\ replies'[Len(replies) + 1] = r
        BY <1>t, <3>1 DEF TypeOK
      <3>3. \A i \in 1..Len(replies) : replies[i].by = j => replies[i].turn # j /\ t = j
        <4>1. CASE p.job = "done"
          <5>1. ~Posted(j)
            BY <1>t, <2>2, <4>1 DEF p, j, IInv, AnswersOK
          <5> QED
            BY <3>2, <5>1 DEF Posted
        <4>2. CASE p.job = "resolved"
          <5>1. p.reply = {[turn |-> j, by |-> j]} /\ TurnSilent(j)
            BY <1>t, <2>2, <4>2 DEF FlushOK, j
          <5>2. t = j
            <6>1. [turn |-> t, by |-> j] = [turn |-> j, by |-> j]
              BY <3>1, <5>1
            <6> QED
              BY <6>1
          <5> QED
            BY <3>2, <5>1, <5>2 DEF TurnSilent
        <4> QED
          BY <1>t, <2>2, <4>1, <4>2 DEF FlushOK
      <3>4. r.by = j /\ r.turn = t
        OBVIOUS
      <3> HIDE DEF r
      <3> SUFFICES ASSUME NEW i \in 1..(Len(replies) + 1), NEW k \in 1..(Len(replies) + 1),
                          i < k, replies'[i].by = replies'[k].by
                   PROVE  replies'[i].turn # replies'[i].by /\ replies'[k].turn = replies'[k].by
        BY <3>2 DEF JobAnswersOnce
      <3>5. i \in 1..Len(replies) /\ replies'[i] = replies[i]
        BY <3>2
      <3>6. CASE k \in 1..Len(replies)
        BY <3>2, <3>5, <3>6 DEF IInv, JobAnswersOnce
      <3>7. CASE k = Len(replies) + 1
        BY <3>2, <3>3, <3>4, <3>5, <3>7
      <3> QED
        BY <3>2, <3>6, <3>7
    <2> QED
      BY <2>1, <2>2
  <1>15. WindowsOK'
    <2>1. \A v \in Workers : pc'[v] \in Window =>
             /\ v # w /\ pc[v] \in Window /\ pend'[v] = pend[v] /\ cur[v] \in Turns /\ pc[v] # "idle"
             /\ cur[v] = j => faults >= 1
             /\ cur[v] \in p.killed => pend[v].reply = {}
      BY <1>t, <1>1, <1>2, <1>4, <1>5, <1>7 DEF Window, j, IInv, WindowsOK
    <2>2. \A v \in Workers : pc'[v] \in Window =>
             \/ Held(v)'
             \/ faults' >= 1
             \/ pend'[v].reply = {} /\ job'[cur'[v]].status \in {"done", "dead"}
      <3> SUFFICES ASSUME NEW v \in Workers, pc'[v] \in Window, ~(faults >= 1)
                   PROVE  Held(v)' \/ (pend[v].reply = {} /\ job'[cur[v]].status \in {"done", "dead"})
        BY <1>u, <2>1
      <3>1. Held(v) \/ (pend[v].reply = {} /\ job[cur[v]].status \in {"done", "dead"})
        BY <2>1 DEF IInv, WindowsOK
      <3>2. cur[v] # j /\ cur[v] \in Turns
        BY <2>1
      <3>3. CASE cur[v] \in p.killed /\ job'[cur[v]].status = "dead"
        BY <2>1, <3>3
      <3>4. CASE job'[cur[v]] = job[cur[v]]
        BY <1>u, <3>1, <3>4 DEF Held, Owns
      <3> QED
        BY <1>e, <3>2, <3>3, <3>4
    <2>3. \A v, u \in Workers : pc'[v] \in Window /\ pc'[u] \in Window /\ cur'[v] = cur'[u] /\ v # u
             => faults' >= 1
      BY <1>u, <2>1 DEF IInv, WindowsOK
    <2>4. \A v \in Workers : pc'[v] \in Window /\ pend'[v].reply # {} /\ job'[cur'[v]].status = "dead"
             => faults' >= 2
      BY <1>u, <1>e, <2>1 DEF IInv, WindowsOK
    <2> QED
      BY <2>2, <2>3, <2>4 DEF WindowsOK
  <1>16. HandoffOK'
    <2>1. \A v \in Workers : (Unaware(v) /\ Owns(v))' => v # w /\ Unaware(v) /\ Owns(v)
      BY <1>1, <1>2, <1>u, <1>7 DEF Unaware
    <2>2. \A v \in Workers : pc'[v] \in Window => v # w /\ pc[v] \in Window /\ pend'[v] = pend[v] /\ cur[v] \in Turns
      BY <1>1, <1>2, <1>7 DEF Window
    <2>3. takeovers < 2 /\ suspended => \A t \in Turns : turn'[t].status = "cancelled" => turn[t].status = "cancelled"
      BY <1>t, <1>e DEF p, IInv, HandoffOK
    <2>4. takeovers = 0 => \A t \in Turns : turn'[t].status # "cancelled"
      BY <1>t, <1>e DEF p, IInv, HandoffOK
    <2>5. suspended => OpenTurns' = {}
      <3>1. \A t \in Turns : turn'[t].status \in Open => turn[t].status \in Open
        BY <1>t, <1>e DEF FlushOK, Open, Terminal
      <3> QED
        BY <3>1 DEF OpenTurns, IInv, HandoffOK
    <2>6. \A v \in Workers : \A t \in DOMAIN pend'[v].turns :
             v # w /\ t \in DOMAIN pend[v].turns /\ pend'[v].turns[t] = pend[v].turns[t] /\ turn'[t] = turn[t]
      <3> SUFFICES ASSUME NEW v \in Workers, NEW t \in DOMAIN pend'[v].turns
                   PROVE  v # w /\ t \in DOMAIN pend[v].turns /\ pend'[v].turns[t] = pend[v].turns[t]
                          /\ turn'[t] = turn[t]
        OBVIOUS
      <3>1. v # w /\ pend'[v] = pend[v]
        BY <1>1, CleanTypes
      <3>2. t \in Turns /\ t \notin DOMAIN p.turns
        BY <1>t, <3>1 DEF p, IInv, LocksOK, TypeOK
      <3> QED
        BY <1>e, <3>1, <3>2
    <2>7. \A v \in Workers : Unaware(v)' => cur[v] \in Turns
      BY <1>2, <1>7 DEF Unaware
    <2>8. takeovers = 0 => /\ \A v \in Workers : ~sess'[v].suspended
                           /\ \A v \in Workers : \A t \in DOMAIN pend'[v].turns :
                                 pend'[v].turns[t].status # "cancelled"
      BY <1>u, <2>6 DEF IInv, HandoffOK
    <2>9. takeovers < 2 /\ suspended =>
             /\ \A v \in Workers : \A t \in DOMAIN pend'[v].turns :
                   pend'[v].turns[t].status = "cancelled" => turn'[t].status = "cancelled"
             /\ \A v \in Workers : (Unaware(v) /\ Owns(v))' => turn'[cur'[v]].status # "cancelled"
             /\ \A v \in Workers : pc'[v] \in Window /\ pend'[v].reply # {}
                   => turn'[cur'[v]].status # "cancelled"
      BY <1>u, <2>1, <2>2, <2>3, <2>6, <2>7 DEF IInv, HandoffOK
    <2>10. takeovers = 0 => ~suspended
      BY DEF IInv, HandoffOK
    <2> QED
      BY <1>u, <2>4, <2>5, <2>8, <2>9, <2>10 DEF HandoffOK
  <1> QED
    BY <1>6, <1>8, <1>9, <1>10, <1>11, <1>13, <1>14, <1>15, <1>16 DEF IInv

-----------------------------------------------------------------------------
(* The visitor, the operator and the reconciler *)

\* A reconciler's own view changes.
LEMMA ViewStep ==
  ASSUME IInv, TypeOK',
         \A r \in Reconcilers : rec'[r].on /\ rec'[r].view.row.status # "none"
            => rec'[r].view.picked \in Turns /\ Existing(rec'[r].view.picked),
         UNCHANGED <<posted, rowVars, workerVars, faults, takeovers>>
  PROVE  IInv'
  <1> USE DEF rowVars, workerVars
  <1>1. RowsExist'
    BY DEF IInv, RowsExist, Existing
  <1>2. SessionsOK'
    BY DEF IInv, SessionsOK, Existing
  <1>3. LocksOK'
    BY DEF IInv, LocksOK
  <1>4. FlushesOK'
    BY DEF IInv, FlushesOK, FlushOK, Existing, TurnSilent
  <1>5. AnswersOK'
    BY DEF IInv, AnswersOK, Posted, Answering, Owns
  <1>6. JobAnswersOnce'
    BY DEF IInv, JobAnswersOnce
  <1>7. WindowsOK'
    BY DEF IInv, WindowsOK, Held, Owns
  <1>8. HandoffOK'
    BY DEF IInv, HandoffOK, OpenTurns, Unaware, Owns
  <1> QED
    BY <1>1, <1>2, <1>3, <1>4, <1>5, <1>6, <1>7, <1>8 DEF IInv

\* Somebody else writes rows under the lock of the conversation: no worker has
\* a reply flushed then, and the jobs that change are new or closed.
LEMMA RowsStep ==
  ASSUME IInv, ~ConvLocked, TypeOK', posted' >= posted,
         \A t \in Turns : Existing(t) => Existing(t)',
         \A t \in Turns : Existing(t)' => t <= posted',
         \A j \in Turns : \/ job'[j] = job[j]
                          \/ /\ job'[j].owner = NoWorker /\ ~job'[j].expired
                             /\ Existing(j)'
                             /\ Existing(j) => job'[j].status \in {"done", "dead"},
         \A r \in Reconcilers : rec'[r].on /\ rec'[r].view.row.status # "none"
            => rec'[r].view.picked \in Turns /\ Existing(rec[r].view.picked)',
         answered' <= posted',
         \A j \in Turns : Posted(j)' => j <= answered',
         \A j \in Turns : job'[j].owner # NoWorker /\ Posted(j)' => Posted(j),
         JobAnswersOnce',
         suspended' => OpenTurns' = {},
         takeovers' = 0 => takeovers = 0 /\ ~suspended' /\ \A t \in Turns : turn'[t].status # "cancelled",
         takeovers' < 2 /\ suspended' => \A w \in Workers :
            Unaware(w) /\ Owns(w) /\ job'[cur[w]] = job[cur[w]] => turn'[cur[w]].status # "cancelled",
         UNCHANGED <<workerVars, faults>>
  PROVE  IInv'
  <1> USE DEF workerVars
  <1>t. TypeOK /\ NoWorker \notin Workers
    BY DEF IInv
  <1>1. \A w \in Workers : /\ ~pend[w].conv /\ pend[w].reply = {} /\ pend[w].killed = {}
                           /\ \A t \in DOMAIN pend[w].turns : t \in Turns /\ pend[w].turns[t].status # "cancelled"
    BY <1>t DEF ConvLocked, IInv, FlushesOK, FlushOK, TypeOK
  <1>2. \A w \in Workers : pc[w] # "idle" =>
           /\ cur[w] \in Turns /\ Existing(cur[w])
           /\ \/ job'[cur[w]] = job[cur[w]]
              \/ job'[cur[w]].owner = NoWorker /\ job'[cur[w]].status \in {"done", "dead"}
    BY DEF IInv, SessionsOK
  <1>3. \A w \in Workers : pc[w] # "idle" /\ Owns(w)' => Owns(w) /\ job'[cur[w]] = job[cur[w]]
                                                       /\ job'[cur[w]].owner # NoWorker
    BY <1>t, <1>2 DEF Owns
  <1>4. RowsExist'
    <2>1. \A j \in Turns : job'[j].owner # NoWorker =>
             cur[job'[j].owner] = j /\ pc[job'[j].owner] # "idle" /\ job'[j].status = "processing"
      BY DEF IInv, RowsExist
    <2>2. \A j \in Turns : job'[j].status # "none" => Existing(j)'
      BY DEF IInv, RowsExist
    <2>3. \A j \in Turns : job'[j].expired => faults >= 1
      BY DEF IInv, RowsExist
    <2> QED
      BY <2>1, <2>2, <2>3 DEF RowsExist
  <1>5. SessionsOK'
    <2>1. \A w \in Workers : pc[w] # "idle" => cur[w] \in Turns /\ Existing(cur[w])'
      BY <1>2
    <2>2. \A w \in Workers : pc[w] \in {"loaded", "bridge", "runtime", "persist"} /\ sess[w].picked # 0
             => Existing(sess[w].picked)' /\ sess[w].row.status \in Open
      <3>1. \A w \in Workers : sess[w].picked # 0 => sess[w].picked \in Turns
        BY <1>t DEF TypeOK, Session, Turns
      <3> QED
        BY <3>1 DEF IInv, SessionsOK
    <2> QED
      BY <2>1, <2>2 DEF SessionsOK
  <1>6. LocksOK'
    BY DEF IInv, LocksOK
  <1>7. FlushesOK'
    <2> SUFFICES ASSUME NEW w \in Workers PROVE FlushOK(w, pend[w])'
      BY DEF FlushesOK
    <2>1. FlushOK(w, pend[w])
      BY DEF IInv, FlushesOK
    <2>2. \A t \in DOMAIN pend[w].turns : Existing(t)' /\ pend[w].turns[t].status \in Terminal
      BY <1>1, <2>1 DEF FlushOK
    <2> QED
      BY <1>1, <2>2 DEF FlushOK
  <1>8. AnswersOK'
    <2>1. \A w \in Workers : (Answering(w) /\ Owns(w))' => ~Posted(cur[w])'
      <3> SUFFICES ASSUME NEW w \in Workers, Answering(w)', Owns(w)' PROVE ~Posted(cur[w])'
        OBVIOUS
      <3>1. Answering(w) /\ pc[w] # "idle"
        BY DEF Answering
      <3>2. Owns(w) /\ job'[cur[w]].owner # NoWorker /\ cur[w] \in Turns
        BY <1>2, <1>3, <3>1
      <3>3. ~Posted(cur[w])
        BY <3>1, <3>2 DEF IInv, AnswersOK
      <3> QED
        BY <3>2, <3>3
    <2>2. \A w \in Workers : pc[w] = "recommit" => pend[w].job # "done"
      BY DEF IInv, AnswersOK
    <2> QED
      BY <1>1, <2>1, <2>2 DEF AnswersOK
  <1>9. WindowsOK'
    <2>1. \A w \in Workers : pc[w] \in Window => pc[w] # "idle"
      BY DEF Window
    <2>2. \A w \in Workers : pc[w] \in Window =>
             \/ Held(w)'
             \/ faults >= 1
             \/ job'[cur[w]].status \in {"done", "dead"}
      <3> SUFFICES ASSUME NEW w \in Workers, pc[w] \in Window
                   PROVE  Held(w)' \/ faults >= 1 \/ job'[cur[w]].status \in {"done", "dead"}
        OBVIOUS
      <3>1. CASE job'[cur[w]] = job[cur[w]]
        BY <3>1 DEF IInv, WindowsOK, Held, Owns
      <3> QED
        BY <1>2, <2>1, <3>1
    <2>3. \A v, w \in Workers : pc[v] \in Window /\ pc[w] \in Window /\ cur[v] = cur[w] /\ v # w => faults >= 1
      BY DEF IInv, WindowsOK
    <2> QED
      BY <1>1, <2>2, <2>3 DEF WindowsOK
  <1>10. HandoffOK'
    <2>1. \A w \in Workers : (Unaware(w) /\ Owns(w))' => Unaware(w) /\ Owns(w) /\ job'[cur[w]] = job[cur[w]]
      <3>1. \A w \in Workers : Unaware(w)' => Unaware(w) /\ pc[w] # "idle"
        BY DEF Unaware
      <3> QED
        BY <1>3, <3>1
    <2>2. takeovers' = 0 => \A w \in Workers : ~sess[w].suspended
      BY DEF IInv, HandoffOK
    <2> QED
      BY <1>1, <2>1, <2>2 DEF HandoffOK
  <1> QED
    BY <1>4, <1>5, <1>6, <1>7, <1>8, <1>9, <1>10 DEF IInv

\* A visitor's message preserves the invariant: it writes the row of the active
\* turn, or rows that did not exist.
LEMMA SendStep ==
  ASSUME IInv, send_webchat_message
  PROVE  IInv'
  <1> DEFINE m == posted + 1
             a == IF slot.active # 0 /\ turn[slot.active].status \in Open THEN slot.active ELSE 0
             queued == [status |-> "queued", latest |-> m, cutoff |-> 0, allowed |-> TRUE]
             pending == [NoJob EXCEPT !.status = "pending"]
             NewTurn == turn' = [turn EXCEPT ![m] = queued] /\ job' = [job EXCEPT ![m] = pending]
  <1>t. /\ TypeOK /\ posted \in 0..MaxMessages /\ slot \in Slot /\ turn \in [Turns -> Turn]
        /\ job \in [Turns -> Job] /\ NoWorker \notin Workers
    BY DEF IInv, TypeOK
  <1>1. /\ posted < MaxMessages /\ ~ConvLocked /\ posted' = m /\ schedule_webchat_ai_turn(m)
        /\ UNCHANGED <<suspended, replies, answered, workerVars, rec, faults, takeovers>>
    BY DEF send_webchat_message
  <1>2. m \in Turns /\ m \in 0..MaxMessages /\ m \in Nat /\ posted \in Nat /\ m > posted
    BY <1>t, <1>1 DEF Turns
  <1>3. ~Existing(m) /\ job[m].status = "none"
    BY <1>2 DEF IInv, RowsExist
  <1>4. slot.active \in 0..MaxMessages /\ a \in 0..MaxMessages /\ (a # 0 => a \in Turns)
    BY <1>t DEF Slot, Turns
  <1>5. queued \in Turn /\ queued.status = "queued"
    BY <1>2 DEF Turn, Open
  <1>6. pending \in Job /\ pending.status = "pending" /\ pending.owner = NoWorker /\ ~pending.expired
    <2>1. \A x \in Job : LET y == [x EXCEPT !.status = "pending"]
                         IN  y \in Job /\ y.status = "pending" /\ y.owner = x.owner /\ y.expired = x.expired
      BY DEF Job
    <2>2. NoJob \in Job /\ NoJob.owner = NoWorker /\ ~NoJob.expired
      BY RowTypes DEF NoJob
    <2> QED
      BY <2>1, <2>2
  <1> HIDE DEF queued, pending
  <1>7. /\ slot' \in Slot /\ turn' \in [Turns -> Turn] /\ job' \in [Turns -> Job]
        /\ \A t \in Turns : t # m => turn'[t].status = turn[t].status /\ job'[t] = job[t]
        /\ \/ turn'[m].status = turn[m].status /\ job'[m] = job[m]
           \/ turn'[m].status = "queued" /\ job'[m].owner = NoWorker /\ ~job'[m].expired
        /\ suspended => turn' = turn
    <2>1. CASE suspended /\ UNCHANGED <<slot, turn, job>>
      BY <1>t, <2>1
    <2>2. CASE /\ ~suspended /\ a # 0 /\ turn' = [turn EXCEPT ![a].latest = m]
               /\ UNCHANGED <<slot, job>>
      <3>1. [turn[a] EXCEPT !.latest = m] \in Turn /\ [turn[a] EXCEPT !.latest = m].status = turn[a].status
        <4>1. turn[a] \in Turn
          BY <1>t, <1>4, <2>2
        <4> HIDE DEF a
        <4> QED
          BY <1>2, <4>1 DEF Turn
      <3>2. turn' = [turn EXCEPT ![a] = [turn[a] EXCEPT !.latest = m]]
        BY <2>2
      <3> DEFINE y == [turn[a] EXCEPT !.latest = m]
      <3>3. y \in Turn /\ y.status = turn[a].status /\ turn' = [turn EXCEPT ![a] = y] /\ a \in Turns
        BY <1>4, <2>2, <3>1, <3>2
      <3> HIDE DEF y, a
      <3>4. turn' \in [Turns -> Turn] /\ \A t \in Turns : turn'[t].status = turn[t].status
        BY <1>t, <3>3
      <3> QED
        BY <1>t, <1>2, <2>2, <3>4
    <2>3. CASE ~suspended /\ NewTurn /\ slot' \in Slot
      BY <1>t, <1>2, <1>5, <1>6, <2>3
    <2>4. [slot EXCEPT !.next = m] \in Slot /\ [slot EXCEPT !.active = m] \in Slot
      BY <1>t, <1>2 DEF Slot
    <2>5. \/ suspended /\ UNCHANGED <<slot, turn, job>>
          \/ ~suspended /\ a # 0 /\ turn' = [turn EXCEPT ![a].latest = m] /\ UNCHANGED <<slot, job>>
          \/ ~suspended /\ NewTurn /\ slot' = [slot EXCEPT !.next = m]
          \/ ~suspended /\ NewTurn /\ slot' = [slot EXCEPT !.active = m]
      BY <1>1 DEF schedule_webchat_ai_turn, queued, pending
    <2> QED
      BY <2>1, <2>2, <2>3, <2>4, <2>5
  <1> HIDE DEF m
  <1>8. TypeOK'
    BY <1>t, <1>1, <1>2, <1>7 DEF TypeOK, workerVars
  <1>9. \A t \in Turns : Existing(t) => Existing(t)' /\ t # m /\ t <= posted
    BY <1>3, <1>7 DEF Existing, IInv, RowsExist
  <1>10. \A t \in Turns : Existing(t)' => t <= posted'
    <2>1. \A t \in Turns : t \in Nat
      BY DEF Turns
    <2>2. \A t \in Turns : Existing(t)' => Existing(t) \/ t = m
      BY <1>7 DEF Existing
    <2> QED
      BY <1>1, <1>2, <1>9, <2>1, <2>2
  <1>11. \A j \in Turns : \/ job'[j] = job[j]
                          \/ /\ job'[j].owner = NoWorker /\ ~job'[j].expired
                             /\ Existing(j)'
                             /\ Existing(j) => job'[j].status \in {"done", "dead"}
    BY <1>3, <1>7 DEF Existing
  <1>12. answered' <= posted' /\ (\A j : Posted(j)' <=> Posted(j)) /\ posted' >= posted
    <2>1. answered \in Nat /\ answered <= posted
      BY <1>t DEF IInv, AnswersOK, TypeOK
    <2> QED
      BY <1>1, <1>2, <2>1 DEF Posted
  <1>13. JobAnswersOnce'
    BY <1>1 DEF IInv, JobAnswersOnce
  <1>14. suspended' => OpenTurns' = {}
    BY <1>1, <1>7 DEF IInv, HandoffOK, OpenTurns
  <1>15. takeovers' = 0 => takeovers = 0 /\ ~suspended' /\ \A t \in Turns : turn'[t].status # "cancelled"
    BY <1>1, <1>7 DEF IInv, HandoffOK
  <1>16. takeovers' < 2 /\ suspended' => \A w \in Workers :
            Unaware(w) /\ Owns(w) /\ job'[cur[w]] = job[cur[w]] => turn'[cur[w]].status # "cancelled"
    BY <1>1, <1>7 DEF IInv, HandoffOK
  <1>17. \A r \in Reconcilers : rec'[r].on /\ rec'[r].view.row.status # "none"
            => rec'[r].view.picked \in Turns /\ Existing(rec[r].view.picked)'
    BY <1>1, <1>9 DEF IInv, SessionsOK
  <1>18. \A j \in Turns : Posted(j)' => j <= answered'
    BY <1>1, <1>12 DEF IInv, AnswersOK
  <1> QED
    BY <1>1, <1>8, <1>9, <1>10, <1>11, <1>12, <1>13, <1>14, <1>15, <1>16, <1>17, <1>18, RowsStep

\* A takeover preserves the invariant: it kills the jobs of the turns it cancels,
\* and no worker has a reply flushed.
LEMMA TakeoverStep ==
  ASSUME IInv, force_takeover_ticket
  PROVE  IInv'
  <1>t. /\ TypeOK /\ turn \in [Turns -> Turn] /\ job \in [Turns -> Job] /\ takeovers \in 0..MaxTakeovers
        /\ NoWorker \notin Workers
    BY DEF IInv, TypeOK
  <1>1. /\ takeovers < MaxTakeovers /\ ~suspended /\ ~ConvLocked /\ takeovers' = takeovers + 1 /\ suspended' = TRUE
        /\ slot' = [active |-> 0, next |-> 0]
        /\ UNCHANGED <<posted, replies, answered, workerVars, rec, faults>>
    BY DEF force_takeover_ticket
  <1>2. /\ turn' \in [Turns -> Turn]
        /\ \A t \in Turns : \/ turn[t].status \in Open /\ turn'[t].status = "cancelled"
                            \/ turn[t].status \notin Open /\ turn'[t] = turn[t]
    <2>1. turn' = [t \in Turns |-> IF t \in OpenTurns
                                   THEN [turn[t] EXCEPT !.status = "cancelled", !.allowed = FALSE] ELSE turn[t]]
      <3>1. turn' = [t \in Turns |-> IF t \in DOMAIN cancel_open_ai_turns(OpenTurns)
                                     THEN cancel_open_ai_turns(OpenTurns)[t] ELSE turn[t]]
        BY DEF force_takeover_ticket, Written
      <3>2. DOMAIN cancel_open_ai_turns(OpenTurns) = OpenTurns
            /\ \A t \in OpenTurns : cancel_open_ai_turns(OpenTurns)[t]
                  = [turn[t] EXCEPT !.status = "cancelled", !.allowed = FALSE]
        BY DEF cancel_open_ai_turns
      <3> QED
        BY <3>1, <3>2
    <2>2. \A x \in Turn : LET y == [x EXCEPT !.status = "cancelled", !.allowed = FALSE]
                          IN  y \in Turn /\ y.status = "cancelled"
      BY DEF Turn, Terminal
    <2>3. \A t \in Turns : t \in OpenTurns <=> turn[t].status \in Open
      BY DEF OpenTurns
    <2> QED
      BY <1>t, <2>1, <2>2, <2>3
  <1>3. /\ job' \in [Turns -> Job]
        /\ \A j \in Turns :
              \/ /\ turn[j].status \in Open /\ job'[j].status = "dead" /\ job'[j].owner = NoWorker /\ ~job'[j].expired
              \/ /\ job'[j] = job[j]
                 /\ turn[j].status \in Open => job[j].status # "processing"
    <2> DEFINE C == CancelledJobs(OpenTurns)
    <2>1. job' = [j \in Turns |-> IF j \in C THEN Killed(j) ELSE job[j]]
      <3>1. job' = [j \in Turns |-> IF j \in DOMAIN [k \in C |-> Killed(k)] THEN [k \in C |-> Killed(k)][j] ELSE job[j]]
        BY DEF force_takeover_ticket, Written
      <3> HIDE DEF C
      <3> QED
        BY <3>1
    <2>2. \A x \in Job : LET y == [x EXCEPT !.status = "dead", !.owner = NoWorker, !.expired = FALSE]
                         IN  y \in Job /\ y.status = "dead" /\ y.owner = NoWorker /\ ~y.expired
      BY DEF Job
    <2>3. \A j \in Turns : Killed(j) \in Job /\ Killed(j).status = "dead" /\ Killed(j).owner = NoWorker
                           /\ ~Killed(j).expired
      BY <1>t, <2>2 DEF Killed
    <2>4. \A j \in Turns : j \in C <=> turn[j].status \in Open /\ job[j].status \in {"pending", "processing"}
      BY DEF CancelledJobs, OpenTurns
    <2> HIDE DEF C
    <2> QED
      BY <1>t, <2>1, <2>3, <2>4
  <1>4. TypeOK'
    <2>1. takeovers' \in 0..MaxTakeovers /\ slot' \in Slot
      BY <1>t, <1>1 DEF Slot
    <2> QED
      BY <1>t, <1>1, <1>2, <1>3, <2>1 DEF TypeOK, workerVars
  <1>5. \A t \in Turns : Existing(t)' <=> Existing(t)
    BY <1>2 DEF Existing, Open
  <1>6. \A j \in Turns : \/ job'[j] = job[j]
                         \/ /\ job'[j].owner = NoWorker /\ ~job'[j].expired
                            /\ Existing(j)'
                            /\ Existing(j) => job'[j].status \in {"done", "dead"}
    BY <1>3, <1>5 DEF Existing, Open
  <1>7. /\ answered' <= posted' /\ (\A j : Posted(j)' <=> Posted(j)) /\ posted' >= posted
        /\ \A j \in Turns : Posted(j)' => j <= answered'
    <2>1. posted \in Nat
      BY <1>t DEF TypeOK
    <2> QED
      BY <1>1, <2>1 DEF Posted, IInv, AnswersOK
  <1>8. JobAnswersOnce'
    BY <1>1 DEF IInv, JobAnswersOnce
  <1>9. OpenTurns' = {}
    BY <1>2 DEF OpenTurns, Open
  <1>10. takeovers' # 0
    BY <1>t, <1>1
  <1>11. takeovers' < 2 => \A w \in Workers :
            Unaware(w) /\ Owns(w) /\ job'[cur[w]] = job[cur[w]] => turn'[cur[w]].status # "cancelled"
    <2> SUFFICES ASSUME takeovers' < 2, NEW w \in Workers, Unaware(w), Owns(w), job'[cur[w]] = job[cur[w]]
                 PROVE  turn'[cur[w]].status # "cancelled"
      OBVIOUS
    <2>1. takeovers = 0
      BY <1>t, <1>1
    <2>2. cur[w] \in Turns
      BY DEF Unaware, IInv, SessionsOK
    <2>3. turn[cur[w]].status # "cancelled"
      BY <2>1, <2>2 DEF IInv, HandoffOK
    <2>4. turn[cur[w]].status \notin Open
      BY <1>3, <2>2 DEF Owns
    <2> QED
      BY <1>2, <2>2, <2>3, <2>4
  <1>12. \A r \in Reconcilers : rec'[r].on /\ rec'[r].view.row.status # "none"
            => rec'[r].view.picked \in Turns /\ Existing(rec[r].view.picked)'
    BY <1>1, <1>5 DEF IInv, SessionsOK
  <1>13. \A t \in Turns : Existing(t)' => t <= posted'
    BY <1>1, <1>5 DEF IInv, RowsExist
  <1> QED
    BY <1>1, <1>4, <1>5, <1>6, <1>7, <1>8, <1>9, <1>10, <1>11, <1>12, <1>13, RowsStep

\* The end of a takeover preserves the invariant.
LEMMA ResumeStep ==
  ASSUME IInv, resume_ai_for_handoff
  PROVE  IInv'
  <1>t. TypeOK
    BY DEF IInv
  <1>1. /\ suspended /\ ~ConvLocked /\ suspended' = FALSE
        /\ UNCHANGED <<posted, slot, turn, job, replies, answered, workerVars, rec, faults, takeovers>>
    BY DEF resume_ai_for_handoff
  <1>2. TypeOK'
    BY <1>t, <1>1 DEF TypeOK, workerVars
  <1>3. \A t \in Turns : Existing(t)' <=> Existing(t)
    BY <1>1 DEF Existing
  <1>4. /\ answered' <= posted' /\ (\A j : Posted(j)' <=> Posted(j)) /\ posted' >= posted
        /\ \A j \in Turns : Posted(j)' => j <= answered'
    <2>1. posted \in Nat
      BY <1>t DEF TypeOK
    <2> QED
      BY <1>1, <2>1 DEF Posted, IInv, AnswersOK
  <1>5. JobAnswersOnce'
    BY <1>1 DEF IInv, JobAnswersOnce
  <1>6. takeovers' # 0
    BY <1>1 DEF IInv, HandoffOK
  <1>7. \A r \in Reconcilers : rec'[r].on /\ rec'[r].view.row.status # "none"
            => rec'[r].view.picked \in Turns /\ Existing(rec[r].view.picked)'
    BY <1>1, <1>3 DEF IInv, SessionsOK
  <1>8. \A t \in Turns : Existing(t)' => t <= posted'
    BY <1>1, <1>3 DEF IInv, RowsExist
  <1>9. ~suspended' /\ UNCHANGED <<workerVars, faults>> /\ \A j \in Turns : job'[j] = job[j]
    BY <1>1
  <1> QED
    BY <1>1, <1>2, <1>3, <1>4, <1>5, <1>6, <1>7, <1>8, <1>9, RowsStep

\* A reconciler that reads, skips or clears preserves the invariant.
LEMMA ReconcileReadStep ==
  ASSUME IInv, NEW r \in Reconcilers, ReconcileRead(r) \/ ReconcileSkip(r)
  PROVE  IInv'
  <1>t. /\ TypeOK /\ slot.active \in 0..MaxMessages /\ rec \in [Reconcilers -> [on : BOOLEAN, view : Session]]
    BY DEF IInv, TypeOK, Slot
  <1>1. UNCHANGED <<posted, rowVars, workerVars, faults, takeovers>>
    BY DEF ReconcileRead, ReconcileSkip
  <1>2. PICK x \in [on : BOOLEAN, view : Session] :
           /\ rec' = [rec EXCEPT ![r] = x]
           /\ x.on /\ x.view.row.status # "none" => x.view.picked \in Turns /\ Existing(x.view.picked)
    <2>1. CASE ReconcileRead(r)
      <3> DEFINE v == Fresh(slot.active)
      <3>1. slot.active \in Turns
        BY <1>t, <2>1 DEF ReconcileRead, Turns
      <3>2. v \in Session /\ v.picked = slot.active /\ v.row = turn[slot.active]
        BY <1>t, <3>1, FreshTypes
      <3> HIDE DEF v
      <3>3. [on |-> TRUE, view |-> v] \in [on : BOOLEAN, view : Session]
        BY <3>2
      <3>4. rec' = [rec EXCEPT ![r] = [on |-> TRUE, view |-> v]]
        BY <2>1 DEF ReconcileRead, v
      <3> QED
        BY <3>1, <3>2, <3>3, <3>4 DEF Existing
    <2>2. CASE ReconcileSkip(r)
      <3>1. rec' = [rec EXCEPT ![r] = [on |-> FALSE, view |-> NoSession]]
        BY <2>2 DEF ReconcileSkip
      <3>2. [on |-> FALSE, view |-> NoSession] \in [on : BOOLEAN, view : Session]
        BY RowTypes
      <3> QED
        BY <3>1, <3>2
    <2> QED
      BY <2>1, <2>2
  <1>3. /\ rec' \in [Reconcilers -> [on : BOOLEAN, view : Session]]
        /\ \A q \in Reconcilers : rec'[q] = IF q = r THEN x ELSE rec[q]
    BY <1>t, <1>2
  <1>4. TypeOK'
    BY <1>t, <1>1, <1>3 DEF TypeOK, rowVars, workerVars
  <1>5. \A q \in Reconcilers : rec'[q].on /\ rec'[q].view.row.status # "none"
           => rec'[q].view.picked \in Turns /\ Existing(rec'[q].view.picked)
    BY <1>2, <1>3 DEF IInv, SessionsOK
  <1> QED
    BY <1>1, <1>4, <1>5, ViewStep

\* A reconciler has done its work.
LEMMA RecordDone ==
  ASSUME IInv, NEW r \in Reconcilers, rec' = [rec EXCEPT ![r] = [on |-> FALSE, view |-> NoSession]],
         \A t \in Turns : Existing(t) => Existing(t)'
  PROVE  /\ rec' \in [Reconcilers -> [on : BOOLEAN, view : Session]]
         /\ \A q \in Reconcilers : rec'[q].on /\ rec'[q].view.row.status # "none"
               => rec'[q].view.picked \in Turns /\ Existing(rec[q].view.picked)'
  <1>1. rec \in [Reconcilers -> [on : BOOLEAN, view : Session]]
    BY DEF IInv, TypeOK
  <1>2. [on |-> FALSE, view |-> NoSession] \in [on : BOOLEAN, view : Session]
    BY RowTypes
  <1>3. \A q \in Reconcilers : rec'[q] = IF q = r THEN [on |-> FALSE, view |-> NoSession] ELSE rec[q]
    BY <1>1
  <1>4. \A q \in Reconcilers : rec'[q].on => rec'[q] = rec[q]
    BY <1>3
  <1>5. \A q \in Reconcilers : rec[q].on /\ rec[q].view.row.status # "none"
           => rec[q].view.picked \in Turns /\ Existing(rec[q].view.picked)
    BY DEF IInv, SessionsOK
  <1>6. ASSUME NEW q \in Reconcilers, rec'[q].on, rec'[q].view.row.status # "none"
        PROVE  rec'[q].view.picked \in Turns /\ Existing(rec[q].view.picked)'
    <2>1. rec'[q] = rec[q] /\ rec[q].view.picked \in Turns /\ Existing(rec[q].view.picked)
      BY <1>4, <1>5, <1>6
    <2>2. \A t \in Turns : Existing(t) => turn'[t].status # "none"
      BY DEF Existing
    <2> QED
      BY <2>1, <2>2 DEF Existing
  <1> QED
    BY <1>1, <1>2, <1>6

\* ReconcileClear preserves the invariant.
LEMMA ReconcileClearStep ==
  ASSUME IInv, NEW r \in Reconcilers, ReconcileClear(r)
  PROVE  IInv'
  <1>t. TypeOK /\ slot \in Slot
    BY DEF IInv, TypeOK
  <1>1. /\ ~ConvLocked /\ slot' = [slot EXCEPT !.active = 0]
        /\ rec' = [rec EXCEPT ![r] = [on |-> FALSE, view |-> NoSession]]
        /\ UNCHANGED <<posted, suspended, turn, job, replies, answered, workerVars, faults, takeovers>>
    BY DEF ReconcileClear
  <1>2. \A t \in Turns : Existing(t)' <=> Existing(t)
    BY <1>1 DEF Existing
  <1>3. /\ rec' \in [Reconcilers -> [on : BOOLEAN, view : Session]]
        /\ \A q \in Reconcilers : rec'[q].on /\ rec'[q].view.row.status # "none"
              => rec'[q].view.picked \in Turns /\ Existing(rec[q].view.picked)'
    BY <1>1, <1>2, RecordDone
  <1>4. TypeOK'
    <2>1. slot' \in Slot
      BY <1>t, <1>1 DEF Slot
    <2> QED
      BY <1>t, <1>1, <1>3, <2>1 DEF TypeOK, workerVars
  <1>5. /\ answered' <= posted' /\ (\A j : Posted(j)' <=> Posted(j)) /\ posted' >= posted
        /\ \A j \in Turns : Posted(j)' => j <= answered'
    <2>1. posted \in Nat
      BY <1>t DEF TypeOK
    <2> QED
      BY <1>1, <2>1 DEF Posted, IInv, AnswersOK
  <1>6. JobAnswersOnce'
    BY <1>1 DEF IInv, JobAnswersOnce
  <1>7. /\ suspended' => OpenTurns' = {}
        /\ takeovers' = 0 => takeovers = 0 /\ ~suspended' /\ \A t \in Turns : turn'[t].status # "cancelled"
    BY <1>1 DEF IInv, HandoffOK, OpenTurns
  <1>8. takeovers' < 2 /\ suspended' => \A w \in Workers :
           Unaware(w) /\ Owns(w) /\ job'[cur[w]] = job[cur[w]] => turn'[cur[w]].status # "cancelled"
    BY <1>1 DEF IInv, HandoffOK
  <1>9. \A t \in Turns : Existing(t)' => t <= posted'
    BY <1>1, <1>2 DEF IInv, RowsExist
  <1>10. \A j \in Turns : job'[j] = job[j]
    BY <1>1
  <1> QED
    BY <1>1, <1>2, <1>3, <1>4, <1>5, <1>6, <1>7, <1>8, <1>9, <1>10, RowsStep

\* ReconcileFinalize preserves the invariant: the fallback goes to a turn without
\* a message, and nobody holds a reply back meanwhile.
LEMMA ReconcileFinalizeStep ==
  ASSUME IInv, NEW r \in Reconcilers, ReconcileFinalize(r)
  PROVE  IInv'
  <1> DEFINE v == rec[r].view
             t == v.picked
             f == finalize_dead_webchat_ai_job(v)
             timeout == job[t].status # "dead"
             row == IF timeout THEN [f.row EXCEPT !.status = "timeout"] ELSE f.row
             closed == [Done(t) EXCEPT !.attempts = IF timeout THEN MaxAttempts ELSE @]
  <1>t. /\ TypeOK /\ turn \in [Turns -> Turn] /\ job \in [Turns -> Job] /\ slot \in Slot /\ v \in Session
        /\ v.row \in Turn /\ v.slot \in Slot /\ NoWorker \notin Workers /\ replies \in Seq(Reply)
    <2>1. TypeOK /\ v \in Session
      BY DEF IInv, TypeOK
    <2> QED
      BY <2>1 DEF TypeOK, Session
  <1>1. /\ rec[r].on /\ (v.row.status \in Open \/ NeedsOutcomeRepair(v)) /\ ~ConvLocked /\ ~Locked(t)
        /\ turn' = [turn EXCEPT ![t] = Update(turn[t], v.row, row)]
        /\ slot' = Update(slot, v.slot, f.slot)
        /\ job' = [job EXCEPT ![t] = closed]
        /\ \/ f.reply /\ replies' = Append(replies, [turn |-> t, by |-> t]) /\ answered' = posted
           \/ ~f.reply /\ UNCHANGED <<replies, answered>>
        /\ rec' = [rec EXCEPT ![r] = [on |-> FALSE, view |-> NoSession]]
        /\ UNCHANGED <<posted, suspended, workerVars, faults, takeovers>>
    BY DEF ReconcileFinalize
  <1>2. v.row.status \in Open \cup {"timeout"}
    BY <1>1 DEF NeedsOutcomeRepair
  <1>3. t \in Turns /\ Existing(t)
    BY <1>1, <1>2 DEF IInv, SessionsOK, Open
  <1>4. /\ f.row \in Turn /\ f.slot \in Slot /\ f.reply \in BOOLEAN
        /\ f.row.status \in {"completed", "superseded"}
        /\ f.reply => TurnSilent(t)
    <2>1. /\ f.row \in Turn /\ f.slot \in Slot /\ f.reply \in BOOLEAN
          /\ f.row.status \in {"completed", "superseded", "cancelled"}
          /\ f.row.status = "cancelled" => v.row.status = "cancelled"
          /\ f.reply => TurnSilent(t)
      BY <1>t, FinalizeTypes
    <2> HIDE DEF f
    <2> QED
      BY <1>2, <2>1 DEF Open
  <1> HIDE DEF f
  <1>5. row \in Turn /\ row.status \in {"completed", "superseded", "timeout"}
    <2>1. \A x \in Turn : [x EXCEPT !.status = "timeout"] \in Turn /\ [x EXCEPT !.status = "timeout"].status = "timeout"
      BY DEF Turn, Terminal
    <2> QED
      BY <1>4, <2>1
  <1>6. closed \in Job /\ closed.status = "done" /\ closed.owner = NoWorker /\ ~closed.expired
    <2>1. \A x \in Job : LET y == [x EXCEPT !.status = "done", !.owner = NoWorker, !.expired = FALSE]
                         IN  y \in Job /\ y.status = "done" /\ y.owner = NoWorker /\ ~y.expired
      BY DEF Job
    <2>2. Done(t) \in Job /\ Done(t).status = "done" /\ Done(t).owner = NoWorker /\ ~Done(t).expired
      BY <1>t, <1>3, <2>1 DEF Done
    <2>3. \A x \in Job, n \in 0..MaxAttempts :
             LET y == [x EXCEPT !.attempts = n]
             IN  y \in Job /\ y.status = x.status /\ y.owner = x.owner /\ (y.expired <=> x.expired)
      BY DEF Job
    <2>4. PICK n \in 0..MaxAttempts : closed = [Done(t) EXCEPT !.attempts = n]
      <3>1. Done(t).attempts \in 0..MaxAttempts /\ MaxAttempts \in 0..MaxAttempts
        BY <2>2 DEF Job
      <3>2. CASE timeout
        BY <3>1, <3>2
      <3>3. CASE ~timeout
        BY <3>1, <3>3
      <3> QED
        BY <3>2, <3>3
    <2> HIDE DEF closed
    <2> QED
      BY <2>2, <2>3, <2>4
  <1> HIDE DEF row, closed, timeout
  <1> DEFINE new == Update(turn[t], v.row, row)
  <1>7. new \in Turn /\ new.status \in {"completed", "superseded", "timeout", turn[t].status}
    BY <1>t, <1>3, <1>5, UpdateTypes
  <1>8. turn' = [turn EXCEPT ![t] = new]
    BY <1>1
  <1> HIDE DEF new
  <1>9. /\ turn' \in [Turns -> Turn] /\ job' \in [Turns -> Job]
        /\ \A x \in Turns : /\ turn'[x] = (IF x = t THEN new ELSE turn[x])
                            /\ job'[x] = (IF x = t THEN closed ELSE job[x])
    BY <1>t, <1>1, <1>6, <1>7, <1>8
  <1>10. /\ \A x \in Turns : Existing(x)' <=> Existing(x)
         /\ \A x \in Turns : turn'[x].status = "cancelled" => turn[x].status = "cancelled"
         /\ \A x \in Turns : turn'[x].status \in Open => turn[x].status \in Open
    BY <1>3, <1>7, <1>9 DEF Existing, Open
  <1>11. /\ rec' \in [Reconcilers -> [on : BOOLEAN, view : Session]]
         /\ \A q \in Reconcilers : rec'[q].on /\ rec'[q].view.row.status # "none"
               => rec'[q].view.picked \in Turns /\ Existing(rec[q].view.picked)'
    BY <1>1, <1>10, RecordDone
  <1> DEFINE a == [turn |-> t, by |-> t]
  <1>12. a \in Reply /\ a.turn = t /\ a.by = t
    BY <1>3 DEF Reply, Turns
  <1>13. \/ ~f.reply /\ replies' = replies /\ answered' = answered
         \/ f.reply /\ answered' = posted
            /\ replies' \in Seq(Reply)
            /\ Len(replies) \in Nat /\ DOMAIN replies = 1..Len(replies)
            /\ DOMAIN replies' = 1..(Len(replies) + 1)
            /\ (\A i \in 1..Len(replies) : replies'[i] = replies[i])
            /\ replies'[Len(replies) + 1] = a
    <2>1. CASE ~f.reply
      BY <1>1, <2>1
    <2>2. CASE f.reply
      <3>1. replies' = Append(replies, a) /\ answered' = posted
        BY <1>1, <2>2
      <3> HIDE DEF a
      <3>2. Append(replies, a) \in Seq(Reply)
        BY <1>t, <1>12, AppendProperties
      <3>3. /\ Len(replies) \in Nat /\ DOMAIN replies = 1..Len(replies)
            /\ DOMAIN replies' = 1..(Len(replies) + 1)
            /\ (\A i \in 1..Len(replies) : replies'[i] = replies[i])
            /\ replies'[Len(replies) + 1] = a
        BY <1>t, <1>12, <3>1
      <3> QED
        BY <2>2, <3>1, <3>2, <3>3
    <2> QED
      BY <1>4, <2>1, <2>2
  <1> HIDE DEF a
  <1>14. TypeOK'
    <2>1. slot' \in Slot
      BY <1>t, <1>1, <1>4, UpdateTypes
    <2>2. replies' \in Seq(Reply)
      BY <1>t, <1>13
    <2>3. answered' \in 0..MaxMessages
      BY <1>t, <1>13 DEF TypeOK
    <2> QED
      BY <1>t, <1>1, <1>9, <1>11, <2>1, <2>2, <2>3 DEF TypeOK, workerVars
  <1>15. \A j : Posted(j)' => Posted(j) \/ (j = t /\ f.reply)
    <2>1. CASE replies' = replies
      BY <2>1 DEF Posted
    <2>2. CASE f.reply /\ replies' # replies
      BY <1>12, <1>13, <2>2 DEF Posted
    <2> QED
      BY <1>13, <2>1, <2>2
  <1>16. answered' <= posted' /\ posted' >= posted /\ \A j \in Turns : Posted(j)' => j <= answered'
    <2>1. posted \in Nat /\ answered \in Nat /\ answered <= posted /\ t <= posted
      BY <1>t, <1>3 DEF IInv, AnswersOK, TypeOK, RowsExist
    <2>2. \A j \in Turns : j \in Nat /\ (Posted(j) => j <= answered)
      BY DEF IInv, AnswersOK, Turns
    <2>3. ASSUME NEW j \in Turns, Posted(j)' PROVE j <= answered'
      <3>1. CASE f.reply
        BY <1>13, <1>15, <2>1, <2>2, <2>3, <3>1
      <3>2. CASE ~f.reply
        BY <1>13, <1>15, <2>1, <2>2, <2>3, <3>2
      <3> QED
        BY <3>1, <3>2
    <2> QED
      BY <1>1, <1>13, <2>1, <2>3
  <1>17. \A j \in Turns : job'[j].owner # NoWorker /\ Posted(j)' => Posted(j)
    BY <1>6, <1>9, <1>15
  <1>18. JobAnswersOnce'
    <2>1. CASE replies' = replies
      BY <2>1 DEF IInv, JobAnswersOnce
    <2>2. CASE f.reply /\ replies' # replies
      <3> SUFFICES ASSUME NEW i \in 1..(Len(replies) + 1), NEW k \in 1..(Len(replies) + 1),
                          i < k, replies'[i].by = replies'[k].by
                   PROVE  replies'[i].turn # replies'[i].by /\ replies'[k].turn = replies'[k].by
        BY <1>13, <2>2 DEF JobAnswersOnce
      <3>1. Len(replies) \in Nat
        BY <1>13, <2>2
      <3>2. i \in 1..Len(replies) /\ replies'[i] = replies[i]
        BY <1>13, <2>2, <3>1
      <3>3. CASE k \in 1..Len(replies)
        BY <1>13, <2>2, <3>2, <3>3 DEF IInv, JobAnswersOnce
      <3>4. CASE k = Len(replies) + 1
        <4>1. replies[i].turn # t
          BY <1>4, <1>13, <2>2, <3>2 DEF TurnSilent
        <4> QED
          BY <1>12, <1>13, <2>2, <3>2, <3>4, <4>1
      <3> QED
        BY <3>1, <3>3, <3>4
    <2> QED
      BY <1>13, <2>1, <2>2
  <1>19. /\ suspended' => OpenTurns' = {}
         /\ takeovers' = 0 => takeovers = 0 /\ ~suspended' /\ \A x \in Turns : turn'[x].status # "cancelled"
    BY <1>1, <1>10 DEF IInv, HandoffOK, OpenTurns
  <1>20. takeovers' < 2 /\ suspended' => \A w \in Workers :
            Unaware(w) /\ Owns(w) /\ job'[cur[w]] = job[cur[w]] => turn'[cur[w]].status # "cancelled"
    <2> SUFFICES ASSUME takeovers < 2, suspended, NEW w \in Workers, Unaware(w), Owns(w)
                 PROVE  turn'[cur[w]].status # "cancelled"
      BY <1>1
    <2>1. cur[w] \in Turns
      BY DEF Unaware, IInv, SessionsOK
    <2>2. turn[cur[w]].status # "cancelled"
      BY DEF IInv, HandoffOK
    <2> QED
      BY <1>10, <2>1, <2>2
  <1>21. \A x \in Turns : Existing(x)' => x <= posted'
    BY <1>1, <1>10 DEF IInv, RowsExist
  <1>22. \A j \in Turns : \/ job'[j] = job[j]
                          \/ /\ job'[j].owner = NoWorker /\ ~job'[j].expired
                             /\ Existing(j)'
                             /\ Existing(j) => job'[j].status \in {"done", "dead"}
    BY <1>3, <1>6, <1>9, <1>10
  <1>23. ~ConvLocked /\ UNCHANGED <<workerVars, faults>>
    BY <1>1
  <1> QED
    BY <1>10, <1>11, <1>14, <1>16, <1>17, <1>18, <1>19, <1>20, <1>21, <1>22, <1>23, RowsStep

-----------------------------------------------------------------------------
(* The theorems *)

\* The empty conversation satisfies the invariant.
LEMMA InitIInv ==
  ASSUME Init
  PROVE  IInv
  <1>1. /\ posted = 0 /\ slot = [active |-> 0, next |-> 0] /\ suspended = FALSE
        /\ turn = [t \in Turns |-> NoTurn] /\ job = [t \in Turns |-> NoJob]
        /\ replies = <<>> /\ answered = 0 /\ pc = [w \in Workers |-> "idle"]
        /\ cur = [w \in Workers |-> 0] /\ sess = [w \in Workers |-> NoSession]
        /\ pend = [w \in Workers |-> Clean]
        /\ rec = [r \in Reconcilers |-> [on |-> FALSE, view |-> NoSession]]
        /\ faults = 0 /\ takeovers = 0
    BY DEF Init
  <1>2. /\ \A t \in Turns : turn[t] = NoTurn /\ job[t] = NoJob
        /\ \A w \in Workers : pc[w] = "idle" /\ sess[w] = NoSession /\ pend[w] = Clean
        /\ \A r \in Reconcilers : rec[r] = [on |-> FALSE, view |-> NoSession]
    BY <1>1
  <1>3. /\ NoTurn.status = "none" /\ NoJob.status = "none" /\ NoJob.owner = NoWorker /\ ~NoJob.expired
        /\ ~NoSession.suspended
    BY DEF NoTurn, NoJob, NoSession
  <1>4. TypeOK
    <2>1. turn \in [Turns -> Turn] /\ job \in [Turns -> Job] /\ sess \in [Workers -> Session]
      BY <1>1, RowTypes
    <2>2. rec \in [Reconcilers -> [on : BOOLEAN, view : Session]]
      BY <1>1, RowTypes
    <2>3. slot \in Slot
      BY <1>1 DEF Slot
    <2>4. DOMAIN pend = Workers /\ \A w \in Workers : DOMAIN pend[w].turns \subseteq Turns
                                                    /\ pend[w] \in Pending(DOMAIN pend[w].turns)
      BY <1>1, <1>2, CleanTypes
    <2>5. replies \in Seq(Reply)
      BY <1>1
    <2>6. pc \in [Workers -> PCs] /\ cur \in [Workers -> 0..MaxMessages]
      BY <1>1 DEF PCs
    <2>7. /\ posted \in 0..MaxMessages /\ answered \in 0..MaxMessages /\ suspended \in BOOLEAN
          /\ faults \in 0..MaxFaults /\ takeovers \in 0..MaxTakeovers
      <3>1. MaxMessages \in Nat /\ MaxFaults \in Nat /\ MaxTakeovers \in Nat
        OBVIOUS
      <3>2. \A n \in Nat : 0 \in 0..n
        OBVIOUS
      <3>3. suspended \in BOOLEAN
        BY <1>1
      <3>4. posted = 0 /\ answered = 0 /\ faults = 0 /\ takeovers = 0
        BY <1>1
      <3> QED
        BY <3>1, <3>2, <3>3, <3>4
    <2> QED
      BY <2>1, <2>2, <2>3, <2>4, <2>5, <2>6, <2>7 DEF TypeOK, PCs
  <1>5. RowsExist
    BY <1>2, <1>3 DEF RowsExist, Existing
  <1>6. SessionsOK
    BY <1>2 DEF SessionsOK
  <1>7. LocksOK
    <2>1. pend = [w \in Workers |-> pend[w]]
      BY <1>1, <1>2
    <2> QED
      BY <1>2, <2>1, CleanTypes DEF LocksOK
  <1>8. FlushesOK
    BY <1>2, CleanFlush DEF FlushesOK
  <1>9. AnswersOK
    BY <1>1, <1>2 DEF AnswersOK, Posted, Answering, Window
  <1>10. JobAnswersOnce
    BY <1>1 DEF JobAnswersOnce
  <1>11. WindowsOK
    BY <1>2 DEF WindowsOK, Window
  <1>12. HandoffOK
    <2>1. \A w \in Workers : ~Unaware(w) /\ pc[w] \notin Window
      BY <1>2 DEF Unaware, Window
    <2>2. \A w \in Workers : ~sess[w].suspended /\ DOMAIN pend[w].turns = {}
      BY <1>2, <1>3, CleanTypes
    <2> QED
      BY <1>1, <1>2, <1>3, <2>1, <2>2 DEF HandoffOK, OpenTurns, Open
  <1> QED
    BY <1>4, <1>5, <1>6, <1>7, <1>8, <1>9, <1>10, <1>11, <1>12 DEF IInv

\* A stuttering step preserves the invariant.
LEMMA StutterIInv ==
  ASSUME IInv, UNCHANGED vars
  PROVE  IInv'
  <1>1. UNCHANGED <<posted, rowVars, workerVars, rec, faults, takeovers>>
    BY DEF vars
  <1>2. TypeOK'
    BY <1>1 DEF IInv, TypeOK, rowVars, workerVars
  <1>3. \A r \in Reconcilers : rec'[r].on /\ rec'[r].view.row.status # "none"
            => rec'[r].view.picked \in Turns /\ Existing(rec'[r].view.picked)
    BY <1>1 DEF IInv, SessionsOK
  <1> QED
    BY <1>1, <1>2, <1>3, ViewStep

\* Every step preserves the invariant.
LEMMA NextIInv ==
  ASSUME IInv, [Next]_vars
  PROVE  IInv'
  <1>1. CASE send_webchat_message \/ force_takeover_ticket \/ resume_ai_for_handoff
    BY <1>1, SendStep, TakeoverStep, ResumeStep
  <1>2. ASSUME NEW w \in Workers, WorkerStep(w) PROVE IInv'
    BY <1>2, ClaimStep, LoadContextStep, PrepareTurnStep, StartRuntimeStep, FlushingSteps, DecideReplyStep,
       CheckOwnershipStep, CommitStep, RecoverExceptionStep DEF WorkerStep
  <1>3. ASSUME NEW w \in Workers, RejectScope(w) \/ CommitFails(w) \/ LeaseExpires(w) \/ Crash(w) PROVE IInv'
    BY <1>3, RejectScopeStep, FaultSteps
  <1>4. ASSUME NEW r \in Reconcilers,
               ReconcileRead(r) \/ ReconcileClear(r) \/ ReconcileFinalize(r) \/ ReconcileSkip(r)
        PROVE  IInv'
    BY <1>4, ReconcileReadStep, ReconcileClearStep, ReconcileFinalizeStep
  <1>5. CASE UNCHANGED vars
    BY <1>5, StutterIInv
  <1> QED
    BY <1>1, <1>2, <1>3, <1>4, <1>5 DEF Next

\* The inductive invariant holds in every reachable state.
THEOREM TurnInvariant == Spec => []IInv
  <1>1. Init => IInv
    BY InitIInv
  <1>2. IInv /\ [Next]_vars => IInv'
    BY NextIInv
  <1> QED
    BY <1>1, <1>2, PTL DEF Spec

\* Every variable of the AI turns keeps its type; no attempt is counted past
\* max_attempts and no session holds a turn that does not exist.
THEOREM TurnTypeCorrect == Spec => []TypeOK
  <1>1. IInv => TypeOK
    BY DEF IInv
  <1> QED
    BY <1>1, TurnInvariant, PTL

\* process_webchat_ai_reply_job and the reconciler's finalize: a job gives the
\* visitor one answer, and a second one only as the fallback of its own turn
\* after it had answered another.
THEOREM JobsAnswerOnce == Spec => []JobAnswersOnce
  <1>1. IInv => JobAnswersOnce
    BY DEF IInv
  <1> QED
    BY <1>1, TurnInvariant, PTL

\* A worker commits no reply for a dead job before the second fault, although it
\* checks the job (_owns_job_lease) and commits in two steps.
THEOREM DeadJobsAreSilent == Spec => KilledJobSilent
  <1>1. ASSUME IInv, NEW w \in Workers, Commit(w), replies' # replies, faults < 2
        PROVE  job[cur[w]].status # "dead"
    <2>1. pc[w] \in Window /\ pend[w].reply # {}
      BY <1>1 DEF Commit, Window
    <2>2. faults \in Nat
      BY <1>1 DEF IInv, TypeOK
    <2> QED
      BY <1>1, <2>1, <2>2 DEF IInv, WindowsOK
  <1>2. IInv /\ [Next]_vars =>
          [\A w \in Workers : Commit(w) /\ replies' # replies /\ faults < 2 => job[cur[w]].status # "dead"]_vars
    BY <1>1
  <1> QED
    BY <1>2, TurnInvariant, PTL DEF Spec, KilledJobSilent

\* cancel_open_ai_turns_for_handoff: during the first takeover a reply comes only
\* from a job whose own turn had been closed before it.
THEOREM LateRepliesAreOrphans == Spec => LateReplyIsOrphan
  <1>1. ASSUME IInv, NEW w \in Workers, Commit(w), replies' # replies, suspended, takeovers < 2
        PROVE  turn[cur[w]].status \in Terminal \ {"cancelled"}
    <2>1. pc[w] \in Window /\ pend[w].reply # {} /\ pc[w] # "idle"
      BY <1>1 DEF Commit, Window
    <2>2. turn[cur[w]].status # "cancelled" /\ OpenTurns = {}
      BY <1>1, <2>1 DEF IInv, HandoffOK
    <2>3. cur[w] \in Turns /\ Existing(cur[w]) /\ turn[cur[w]] \in Turn
      BY <1>1, <2>1 DEF IInv, SessionsOK, TypeOK
    <2>4. turn[cur[w]].status \notin Open
      BY <2>2, <2>3 DEF OpenTurns
    <2> QED
      BY <2>2, <2>3, <2>4 DEF Existing, Turn
  <1>2. IInv /\ [Next]_vars =>
          [\A w \in Workers : Commit(w) /\ replies' # replies /\ suspended /\ takeovers < 2
              => turn[cur[w]].status \in Terminal \ {"cancelled"}]_vars
    BY <1>1
  <1> QED
    BY <1>2, TurnInvariant, PTL DEF Spec, LateReplyIsOrphan

=============================================================================
