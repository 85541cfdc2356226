------------------------- MODULE AgentConfirmation --------------------------
(***************************************************************************)
(* The customer confirmations of one conversation and the governed tool    *)
(* transactions they authorise: a run of the AI reply job resolves the     *)
(* open question with the customer's message, executes the confirmed       *)
(* action, and lets the agent propose further calls.                       *)
(*                                                                         *)
(* A call is one tool with one set of arguments, so two calls are equal    *)
(* exactly when their digests are.  An action is a transaction, except for *)
(* the tool transaction, which is its reads (TxStart), the provider's      *)
(* request if it makes one (CallProvider) and its commit (TxCommit): it    *)
(* keeps the row it read FOR UPDATE locked, and a failure rolls it back.   *)
(***************************************************************************)
EXTENDS Naturals, Sequences, FiniteSets, FiniteSetsExt

CONSTANTS
    Workers,      \* processes that run process_webchat_ai_reply_job
    Calls,        \* tool calls that need the customer's confirmation
    NoCall,       \* no tool transaction is open
    External,     \* those of integration.write: an HTTP request in the transaction
    MaxMessages,  \* bound: customer messages
    MaxRows,      \* bound: confirmations after which the model proposes no more
    MaxRounds,    \* max_tool_rounds of an agent run
    MaxFaults,    \* bound: crashes, exceptions, lost answers
    MaxOverlaps   \* bound: runs beside one that still processes the message, or a dead job

ASSUME ConfirmationAssumption ==
    /\ IsFiniteSet(Workers)
    /\ External \subseteq Calls
    /\ NoCall \notin Calls
    /\ {MaxMessages, MaxRows, MaxRounds, MaxFaults, MaxOverlaps} \subseteq Nat

VARIABLES
    msgs,      \* the customer's messages with a job, as classify_customer_confirmation reads them
    done,      \* messages whose run ended with a customer outcome
    killed,    \* messages whose job died without one
    rows,      \* agent_tool_confirmations of the conversation, by id
    executed,  \* tool_call_logs with status executed, per call
    effects,   \* times the action really took place
    worker,    \* what a worker is doing
    faults,    \* faults so far
    overlaps   \* overlapping runs so far

rowVars == <<rows, executed>>
vars == <<msgs, done, killed, rowVars, effects, worker, faults, overlaps>>

Decisions == {"confirmed", "denied", "ambiguous"}
Active == {"pending", "confirmed"}
Closed == {"denied", "expired", "consumed", "cancelled"}
Stages == {"idle", "resolve", "confirmed", "tool", "call", "commit", "record", "agent", "loop"}
Outcomes == {"none", "refused", "duplicate", "ask", "execute"}

Row == [call : Calls, status : Active \cup Closed, late : BOOLEAN,
        response : 0..MaxMessages, tried : BOOLEAN]

\* pc; the message it runs; the row _execute_confirmed_action works for (0: none); the
\* call of its transaction, what that will commit, and the confirmed row it locked as a
\* grant, or to expire it (0: none); the tool rounds left.
Worker == [pc : Stages, msg : 0..MaxMessages, subject : Nat, call : Calls \cup {NoCall},
           outcome : Outcomes, grant : Nat, stale : Nat, rounds : 0..MaxRounds]

Idle == [pc |-> "idle", msg |-> 0, subject |-> 0, call |-> NoCall,
         outcome |-> "none", grant |-> 0, stale |-> 0, rounds |-> 0]

Init ==
    /\ msgs = <<>>
    /\ done = {}
    /\ killed = {}
    /\ rows = <<>>
    /\ executed = [c \in Calls |-> 0]
    /\ effects = [c \in Calls |-> 0]
    /\ worker = [w \in Workers |-> Idle]
    /\ faults = 0
    /\ overlaps = 0

-----------------------------------------------------------------------------
(* The confirmation rows *)

\* uq_agent_tool_confirmation_active_conversation: at most one.
ActiveRows == {i \in DOMAIN rows : rows[i].status \in Active}

\* Mutant: the confirmed row is read without FOR UPDATE.
NoRowLock(w, i) == FALSE

\* Row i is read FOR UPDATE by the open transaction of another worker.
LockedByOther(w, i) ==
    \E v \in Workers \ {w} : i \in {worker[v].grant, worker[v].stale}

\* What w may lock now: nothing another transaction holds.
Unlocked(w, set) == \A i \in set : ~LockedByOther(w, i)

\* expire_confirmation_if_needed
Expire(r) == IF r.late /\ r.status \in Active THEN [r EXCEPT !.status = "expired"] ELSE r

NewRow(c) == [call |-> c, status |-> "pending", late |-> FALSE, response |-> 0,
              tried |-> FALSE]

\* The pending row that asks the same question: it is asked again, not twice.
Reusable(r, c) == r.status = "pending" /\ ~r.late /\ r.call = c

\* Mutant: the open question is left open beside the new one.
LeaveOpen(r, c) == IF r.status \in Active /\ r.late THEN Expire(r) ELSE r

\* create_or_reuse_confirmation on rows rs: what the active row becomes, and whether
\* a new row follows.  An active row for anything else is cancelled.
CloseFor(r, c) ==
    CASE r.status \notin Active -> r
      [] Reusable(r, c) -> r
      [] r.late -> Expire(r)
      [] OTHER -> [r EXCEPT !.status = "cancelled"]

CreateOrReuse(rs, c) ==
    LET closed == [i \in DOMAIN rs |-> CloseFor(rs[i], c)]
    IN  IF \E i \in DOMAIN rs : Reusable(rs[i], c) THEN closed ELSE Append(closed, NewRow(c))

\* resolve_confirmation_from_customer_message: only a pending row takes an answer.
Answer(r, m) ==
    IF r.status = "pending" /\ ~r.late /\ msgs[m] # "ambiguous"
    THEN [r EXCEPT !.status = msgs[m], !.response = m]
    ELSE Expire(r)

\* The rows a transaction of w leaves behind: the grant consumed (consume_confirmation)
\* if the call succeeded, a late row expired in any case.
Used(w) == [i \in DOMAIN rows |-> IF i = worker[w].grant
                                  THEN [rows[i] EXCEPT !.status = "consumed"] ELSE rows[i]]
Kept(w) == [i \in DOMAIN rows |-> IF i = worker[w].stale THEN Expire(rows[i]) ELSE rows[i]]

\* Mutant: any confirmed row will do; the arguments' digest is not compared.
AnyConfirmed(c) == {i \in DOMAIN rows : rows[i].status = "confirmed"}

\* _active_exact_confirmation: the confirmed row for exactly this call.
ExactConfirmed(c) == {i \in DOMAIN rows : rows[i].status = "confirmed" /\ rows[i].call = c}

Newest(set) == IF set = {} THEN 0 ELSE Max(set)

-----------------------------------------------------------------------------
(* The customer and the clock *)

\* The customer writes, and schedule_webchat_ai_turn enqueues the job of the message.
SendMessage(d) ==
    /\ Len(msgs) < MaxMessages
    /\ msgs' = Append(msgs, d)
    /\ UNCHANGED <<done, killed, rowVars, effects, worker, faults, overlaps>>

\* The expires_at of the open row passes: ten minutes after it was last asked.
TimePasses ==
    /\ \E i \in ActiveRows :
          /\ ~rows[i].late
          /\ rows' = [rows EXCEPT ![i].late = TRUE]
    /\ UNCHANGED <<msgs, done, killed, executed, effects, worker, faults, overlaps>>

-----------------------------------------------------------------------------
(* A run of the AI reply job *)

Waiting == DOMAIN msgs \ (done \cup killed)

\* A worker claims the job of the oldest message that has one and no outcome; its lease
\* may have been lost by a run that is still going, and so may a dead job still have one.
StartRun(w) ==
    /\ worker[w].pc = "idle"
    /\ Waiting # {}
    /\ LET m == Min(Waiting)
           again == \E v \in Workers : worker[v].msg \in killed \cup {m}
       IN  /\ again => overlaps < MaxOverlaps
           /\ overlaps' = IF again THEN overlaps + 1 ELSE overlaps
           /\ worker' = [worker EXCEPT ![w] = [Idle EXCEPT !.pc = "resolve", !.msg = m]]
    /\ UNCHANGED <<msgs, done, killed, rowVars, effects, faults>>

\* A human takes the conversation over: cancel_open_ai_turns_for_handoff kills the pending
\* and the processing jobs of its open turns.  A run that is going on does not notice.
TakeOver ==
    /\ Waiting # {}
    /\ killed' = killed \cup Waiting
    /\ UNCHANGED <<msgs, done, rowVars, effects, worker, faults, overlaps>>


\* _resolve_customer_confirmation.  A row that is confirmed afterwards is acted upon,
\* whichever run received the answer.
Resolve(w) ==
    /\ worker[w].pc = "resolve"
    /\ Unlocked(w, ActiveRows)
    /\ rows' = [i \in DOMAIN rows |->
                  IF i \in ActiveRows THEN Answer(rows[i], worker[w].msg) ELSE rows[i]]
    /\ \/ \E i \in ActiveRows :
             /\ rows'[i].status = "confirmed"
             /\ worker' = [worker EXCEPT ![w].pc = "confirmed", ![w].subject = i]
       \/ /\ \A i \in ActiveRows : rows'[i].status # "confirmed"
          /\ worker' = [worker EXCEPT ![w].pc = "agent"]
    /\ UNCHANGED <<msgs, done, killed, executed, effects, faults, overlaps>>

\* _execute_confirmed_action up to its transaction: the row is read again, and the
\* tool may no longer be available to the agent.
BeginConfirmed(w) ==
    /\ worker[w].pc = "confirmed"
    /\ LET i == worker[w].subject
       IN  \/ /\ rows[i].status = "confirmed"
              /\ \/ worker' = [worker EXCEPT ![w].pc = "tool", ![w].call = rows[i].call]
                 \/ worker' = [worker EXCEPT ![w].pc = "record"]
           \/ /\ rows[i].status # "confirmed"
              /\ worker' = [worker EXCEPT ![w].pc = "agent", ![w].subject = 0]
    /\ UNCHANGED <<msgs, done, killed, rowVars, effects, faults, overlaps>>

\* record_confirmation_execution_result, with its event.
RecordResult(w) ==
    /\ worker[w].pc = "record"
    /\ LET i == worker[w].subject
       IN  /\ Unlocked(w, {i})
           /\ rows' = [rows EXCEPT ![i].tried = TRUE]
    /\ worker' = [worker EXCEPT ![w].pc = "agent", ![w].subject = 0]
    /\ UNCHANGED <<msgs, done, killed, executed, effects, faults, overlaps>>

\* active_confirmation_context, when the context of the agent run is built.
BuildContext(w) ==
    /\ worker[w].pc = "agent"
    /\ Unlocked(w, ActiveRows)
    /\ rows' = [i \in DOMAIN rows |-> Expire(rows[i])]
    /\ worker' = [worker EXCEPT ![w].pc = "loop", ![w].rounds = MaxRounds]
    /\ UNCHANGED <<msgs, done, killed, executed, effects, faults, overlaps>>

\* The model asks for a call.
Propose(w, c) ==
    /\ worker[w].pc = "loop"
    /\ worker[w].rounds > 0
    /\ Len(rows) < MaxRows
    /\ worker' = [worker EXCEPT ![w].pc = "tool", ![w].call = c,
                                ![w].rounds = worker[w].rounds - 1]
    /\ UNCHANGED <<msgs, done, killed, rowVars, effects, faults, overlaps>>

\* The customer has an outcome: the agent's reply, or one of the early returns of the
\* job (handoff, existing reply, newer message, automatic replies off).  The run of a dead
\* job owns no lease, and its outcome is rolled back.
Finish(w) ==
    /\ worker[w].pc \in {"agent", "loop"}
    /\ done' = done \cup ({worker[w].msg} \ killed)
    /\ worker' = [worker EXCEPT ![w] = Idle]
    /\ UNCHANGED <<msgs, killed, rowVars, effects, faults, overlaps>>

-----------------------------------------------------------------------------
(* The tool transaction *)

\* The transaction of _execute_confirmed_action, or one the agent asked for.
Direct(w) == worker[w].subject # 0

\* integration.write is a high-risk write, and _execute_confirmed_action neither
\* allows those nor brings a release snapshot: only the agent loop can run it.
Barred(w) == Direct(w) /\ worker[w].call \in External

AfterTx(w) == [worker EXCEPT ![w].pc = IF Direct(w) THEN "record" ELSE "loop",
                 ![w].call = NoCall, ![w].outcome = "none", ![w].grant = 0, ![w].stale = 0]

\* A data-processing restriction: nothing was read, nothing is committed.
TxRestricted(w) ==
    /\ worker[w].pc = "tool"
    /\ worker' = AfterTx(w)
    /\ UNCHANGED <<msgs, done, killed, rowVars, effects, faults, overlaps>>

\* Mutant: a call is not looked up in the executed log.
VerdictsWithoutLog(w, granted) ==
    {"refused"} \cup IF Barred(w) THEN {} ELSE IF granted THEN {"execute"} ELSE {"ask"}

\* What the gates, the executed log and the policy make of a call; any of them, or the
\* handler itself, may refuse it.
Verdicts(w, granted) ==
    {"refused"} \cup IF Barred(w) THEN {}
                     ELSE IF executed[worker[w].call] > 0 THEN {"duplicate"}
                     ELSE IF granted THEN {"execute"}
                     ELSE {"ask"}

\* _execute_one up to the handler: the exact confirmation FOR UPDATE, then the verdict.
TxStart(w) ==
    /\ worker[w].pc = "tool"
    /\ LET c == worker[w].call
           exact == ExactConfirmed(c)
           late == {i \in exact : rows[i].late}
       IN  /\ Unlocked(w, exact)
           /\ \E o \in Verdicts(w, exact \ late # {}) :
                 worker' = [worker EXCEPT
                    ![w].pc = IF o = "execute" /\ c \in External THEN "call" ELSE "commit",
                    ![w].outcome = o,
                    ![w].grant = Newest(exact \ late),
                    ![w].stale = Newest(late)]
    /\ UNCHANGED <<msgs, done, killed, rowVars, effects, faults, overlaps>>

\* execute_integration_operation: the provider acts and its answer arrives, refuses, or
\* acts and the answer is lost (a timeout, a broken connection: reported as a failure).
\* An MCP request that is answered with 400, 404, 409 or 410 is sent again, even if the
\* provider had acted on it, which is its fault.
CallProvider(w) ==
    /\ worker[w].pc = "call"
    /\ \E acted, lost, again \in 0..1 :
          /\ acted = 1 \/ lost = 0
          /\ faults' = faults + lost + again
          /\ faults' <= MaxFaults
          /\ effects' = [effects EXCEPT ![worker[w].call] = @ + acted + again]
          /\ worker' = [worker EXCEPT ![w].pc = "commit",
                          ![w].outcome = IF acted = 1 /\ lost = 0 THEN "execute" ELSE "refused"]
    /\ UNCHANGED <<msgs, done, killed, rowVars, overlaps>>

\* The executed log is written, the grant consumed, and all of it committed.
CommitExecuted(w) ==
    /\ worker[w].outcome = "execute"
    /\ LET c == worker[w].call
       IN  /\ executed' = [executed EXCEPT ![c] = @ + 1]
           /\ effects' = IF c \in External THEN effects ELSE [effects EXCEPT ![c] = @ + 1]
    /\ rows' = Used(w)

\* A call already executed succeeds again: it uses up the grant, if it had one.
CommitDuplicate(w) ==
    /\ worker[w].outcome = "duplicate"
    /\ rows' = IF worker[w].grant # 0 THEN Used(w) ELSE Kept(w)
    /\ UNCHANGED <<executed, effects>>

\* confirmation_required: the question is recorded.
CommitAsk(w) ==
    /\ worker[w].outcome = "ask"
    /\ Unlocked(w, ActiveRows)
    /\ rows' = CreateOrReuse(Kept(w), worker[w].call)
    /\ UNCHANGED <<executed, effects>>

\* Blocked or failed: the grant is kept.
CommitRefused(w) ==
    /\ worker[w].outcome = "refused"
    /\ rows' = Kept(w)
    /\ UNCHANGED <<executed, effects>>

TxCommit(w) ==
    /\ worker[w].pc = "commit"
    /\ CommitExecuted(w) \/ CommitDuplicate(w) \/ CommitAsk(w) \/ CommitRefused(w)
    /\ worker' = AfterTx(w)
    /\ UNCHANGED <<msgs, done, killed, faults, overlaps>>

\* A transaction of the agent loop raises: it is rolled back, and the run goes straight to
\* the terminal fallback.
ToolException(w) ==
    /\ worker[w].pc \in {"tool", "call", "commit"}
    /\ ~Direct(w)
    /\ faults < MaxFaults
    /\ faults' = faults + 1
    /\ worker' = [AfterTx(w) EXCEPT ![w].rounds = 0]
    /\ UNCHANGED <<msgs, done, killed, rowVars, effects, overlaps>>

\* The process dies, or the job raises: what it had not committed is gone, and the
\* message has no outcome.  Its job runs again, unless this was the last attempt.
Crash(w) ==
    /\ worker[w].pc # "idle"
    /\ faults < MaxFaults
    /\ faults' = faults + 1
    /\ killed' \in {killed, killed \cup {worker[w].msg}}
    /\ worker' = [worker EXCEPT ![w] = Idle]
    /\ UNCHANGED <<msgs, done, rowVars, effects, overlaps>>

-----------------------------------------------------------------------------

Run(w) ==
    \/ StartRun(w) \/ Resolve(w) \/ BeginConfirmed(w) \/ RecordResult(w)
    \/ BuildContext(w) \/ \E c \in Calls : Propose(w, c)
    \/ TxRestricted(w) \/ TxStart(w) \/ CallProvider(w) \/ TxCommit(w) \/ Finish(w)

Next ==
    \/ \E d \in Decisions : SendMessage(d)
    \/ TimePasses
    \/ TakeOver
    \/ \E w \in Workers : Run(w) \/ ToolException(w) \/ Crash(w)

\* A worker goes on with its run, and an idle one picks up the job of a message that has
\* no outcome yet, if that job is alive.  Customers, clocks, operators and faults owe
\* nothing.
Spec == Init /\ [][Next]_vars /\ \A w \in Workers : WF_vars(Run(w))

-----------------------------------------------------------------------------

\* The types of the state, and one active row (the partial unique index).
TypeOK ==
    /\ msgs \in Seq(Decisions) /\ Len(msgs) <= MaxMessages
    /\ done \subseteq DOMAIN msgs
    /\ killed \subseteq DOMAIN msgs
    /\ rows \in Seq(Row)
    /\ Cardinality(ActiveRows) <= 1
    /\ executed \in [Calls -> Nat]
    /\ effects \in [Calls -> Nat]
    /\ worker \in [Workers -> Worker]
    /\ faults \in 0..MaxFaults
    /\ overlaps \in 0..MaxOverlaps

\* Whatever runs of the job overlap, are repeated or propose the call again, an action
\* recorded in Nexus takes place at most once in a conversation, and a provider's at most
\* once more than there were faults (the provider is given no idempotency key): the row
\* lock of _active_exact_confirmation and the log read behind it close the race.
ExecutedOnce ==
    \A c \in Calls : effects[c] <= IF c \in External THEN 1 + faults ELSE 1

\* While a transaction is about to act, or has acted and not committed, the customer's
\* yes to exactly that call stands: no other run can cancel, expire or consume the row it
\* relies on (consume_confirmation would raise agent_confirmation_not_confirmed).
GrantHeld ==
    \A w \in Workers :
        worker[w].outcome = "execute" =>
            /\ worker[w].grant \in DOMAIN rows
            /\ rows[worker[w].grant].status = "confirmed"
            /\ rows[worker[w].grant].call = worker[w].call

\* Every execution on record has a confirmation of its own behind it: for exactly its
\* call, answered yes by a message of the customer, and used up.
ConsentSpent ==
    \A c \in Calls :
        executed[c] <= Cardinality({i \in DOMAIN rows :
                                      /\ rows[i].call = c
                                      /\ rows[i].status = "consumed"
                                      /\ rows[i].response # 0
                                      /\ msgs[rows[i].response] = "confirmed"})

\* A yes that has been neither used, replaced or found late, nor tried, and that the job
\* of the answering message can still take up.  There is at most one (TypeOK).
YesWaits ==
    \E i \in DOMAIN rows : /\ rows[i].status = "confirmed" /\ ~rows[i].tried
                           /\ rows[i].response \notin killed


=============================================================================
