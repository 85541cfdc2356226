---------------------------- MODULE HandoffRouting ----------------------------
(***************************************************************************)
(* The text handoffs of WebChat conversations and the routing of them to   *)
(* agents.  A handoff request of a conversation that has a ticket is       *)
(* routed by a plan of a few generations; one without a ticket only by the *)
(* scope of the agents, who are all taken to be in scope.                  *)
(*                                                                         *)
(* A step is a transaction.  The calls of an operator and of a visitor are *)
(* several steps: they load rows, one after the other, before they lock    *)
(* them, and the session keeps the loaded columns when the locking query   *)
(* returns, decides on them, and writes the columns that differ from them. *)
(* The routing of a new request loads the agents the same way.  What time  *)
(* decides (how long a request waits, how old an acceptance is) is left    *)
(* open.                                                                   *)
(***************************************************************************)
EXTENDS Naturals, FiniteSets

CONSTANTS
    Agents,          \* operators, all in scope
    Supervisors,     \* those with the global capabilities
    Conversations,
    Ticketed,        \* conversations that have a ticket
    MaxCapacity,     \* MAX_AGENT_CAPACITY
    MaxGenerations,  \* max_generations of a plan
    MaxRequests,     \* bound: handoff requests
    MaxCalls         \* bound: calls that load a row and lock it later

None == "none"

ASSUME RoutingAssumption ==
    /\ None \notin Agents \cup Conversations
    /\ Supervisors \subseteq Agents
    /\ Ticketed \subseteq Conversations
    /\ MaxCapacity \in Nat \ {0}
    /\ MaxGenerations \in Nat \ {0}
    /\ MaxRequests \in Nat
    /\ MaxCalls \in Nat

VARIABLES
    req,    \* webchat_handoff_requests, with the agents who declined
    conv,   \* the handoff columns of webchat_conversations
    plan,   \* handoff_routing_plans, with the attempts of a generation
    agent,  \* operator_agent_states
    call,   \* the call an operator has under way
    visit,  \* what the visitor's message has loaded
    route,  \* the agents the routing of a new request has loaded, if it has
    scenario,  \* conversations whose ticket has a case scenario
    calls   \* how many calls there were

vars == <<req, conv, plan, agent, call, visit, route, scenario, calls>>

Requests == 1..MaxRequests
Somebody == Agents \cup {None}
Open == {"requested", "accepted"}

Request == [conv : Conversations \cup {None},
            status : {"absent", "resumed_ai", "closed"} \cup Open,
            agent : Somebody, declined : SUBSET Agents]
Conversation == [open : BOOLEAN, handoff : {"none", "closed"} \cup Open, agent : Somebody,
                 current : {0} \cup Requests, suspended : BOOLEAN]
Plan == [status : {"none", "active", "retry_scheduled", "assigned", "exhausted", "closed"},
         due : BOOLEAN, generation : 0..MaxGenerations, attempted : SUBSET Agents,
         valid : BOOLEAN]
State == [online : BOOLEAN, fresh : BOOLEAN, capacity : 1..MaxCapacity]

NoRequest == [conv |-> None, status |-> "absent", agent |-> None, declined |-> {}]
NoHandoff == [open |-> TRUE, handoff |-> "none", agent |-> None, current |-> 0,
              suspended |-> FALSE]
NoPlan == [status |-> "none", due |-> FALSE, generation |-> 0, attempted |-> {}, valid |-> TRUE]
Offline == [online |-> FALSE, fresh |-> FALSE, capacity |-> 1]

\* What a call works on: the columns its session loaded.  An "accept" that has
\* loaded the conversation too is an "assign".
Kinds == {"accept", "assign", "release", "resume", "close"}
Columns(r) == [status |-> r.status, agent |-> r.agent]
NoCall == [kind |-> None, req |-> 0, conv |-> None, loaded |-> Columns(NoRequest),
           snapshot |-> NoHandoff]
Call == [kind : Kinds \cup {None}, req : {0} \cup Requests, conv : Conversations \cup {None},
         loaded : [status : {"absent", "resumed_ai", "closed"} \cup Open, agent : Somebody],
         snapshot : Conversation]

Init ==
    /\ req = [r \in Requests |-> NoRequest]
    /\ conv = [c \in Conversations |-> NoHandoff]
    /\ plan = [r \in Requests |-> NoPlan]
    /\ agent = [a \in Agents |-> Offline]
    /\ call = [a \in Agents |-> NoCall]
    /\ visit = [c \in Conversations |-> NoCall]
    /\ route = [c \in Conversations |-> {}]
    /\ scenario \in SUBSET Ticketed
    /\ calls = 0

-----------------------------------------------------------------------------
(* A transaction is a function of the tables it writes. *)

Tables == [req |-> req, conv |-> conv, plan |-> plan, agent |-> agent]
Commit(tables) ==
    \E T \in {tables} : req' = T.req /\ conv' = T.conv /\ plan' = T.plan /\ agent' = T.agent

\* The columns that differ from the loaded ones are written.
Update(row, loaded, written) ==
    [x \in DOMAIN row |-> IF x \notin DOMAIN loaded \/ written[x] = loaded[x] THEN row[x]
                          ELSE written[x]]

\* uq_webchat_handoff_open_conversation
Unique(T) ==
    \A r, s \in Requests :
        r # s /\ T.req[r].status \in Open /\ T.req[s].status \in Open =>
            T.req[r].conv # T.req[s].conv

HasTicket(T, r) == T.req[r].conv \in Ticketed

active_agent_load(T, a) ==
    Cardinality({r \in Requests : /\ T.req[r].status = "accepted" /\ T.req[r].agent = a
                                  /\ T.conv[T.req[r].conv].open})

Present(T, a) == T.agent[a].online /\ T.agent[a].fresh

-----------------------------------------------------------------------------
(* The routing plan of a request *)

\* The ticket has no scenario, or another than the plan was made for: 409, and
\* the transaction is rolled back.
Refused(T, r) == HasTicket(T, r) /\ (T.req[r].conv \notin scenario \/ T.plan[r].valid = FALSE)

\* The plan of a request that is not refused.
ensure_handoff_routing_plan(T, r) ==
    IF HasTicket(T, r) /\ T.plan[r].status = "none"
    THEN [NoPlan EXCEPT !.status = "active", !.generation = 1]
    ELSE T.plan[r]

\* Mutation: one generation too many.
NextGenerationOnceMore(p) ==
    IF p.generation > MaxGenerations THEN [p EXCEPT !.status = "exhausted", !.due = FALSE]
    ELSE [p EXCEPT !.status = "active", !.due = FALSE, !.generation = @ + 1, !.attempted = {}]

NextGeneration(p) ==
    IF p.generation >= MaxGenerations THEN [p EXCEPT !.status = "exhausted", !.due = FALSE]
    ELSE [p EXCEPT !.status = "active", !.due = FALSE, !.generation = @ + 1, !.attempted = {}]

\* Mutation: the comparison with the retry time is reversed.
activate_early_generation(p) ==
    IF p.status = "retry_scheduled" /\ ~p.due THEN NextGeneration(p) ELSE p

activate_due_generation(p) ==
    IF p.status = "retry_scheduled" /\ p.due THEN NextGeneration(p) ELSE p

\* The plan as the authorization of a candidate leaves it.
Activated(T, r) == activate_due_generation(ensure_handoff_routing_plan(T, r))

candidate_is_authorized(T, r, a, exclude_attempted) ==
    ~HasTicket(T, r) \/ /\ Activated(T, r).status = "active"
                        /\ exclude_attempted => a \notin Activated(T, r).attempted

schedule_retry_or_exhaust(p) ==
    IF p.generation >= MaxGenerations THEN [p EXCEPT !.status = "exhausted"]
    ELSE [p EXCEPT !.status = "retry_scheduled", !.due = FALSE]

MarkAssigned(p, a) == [p EXCEPT !.status = "assigned", !.due = FALSE, !.attempted = @ \cup {a}]

-----------------------------------------------------------------------------
(* Assignment *)

\* agent_routing_primitives: the request and its conversation, not the plan.
TakeRequest(T, r, a, loaded, snapshot) ==
    LET c == T.req[r].conv
    IN  [T EXCEPT
            !.req[r] = Update(@, loaded, [loaded EXCEPT !.status = "accepted", !.agent = a]),
            !.conv[c] = Update(@, snapshot, [snapshot EXCEPT !.current = r, !.agent = a,
                                                !.handoff = "accepted", !.suspended = TRUE])]

\* The same for rows just loaded: the requests of R, which are of different
\* conversations, go to a.
TakeFresh(T, R, a) ==
    [T EXCEPT
        !.req = [r \in Requests |->
            IF r \in R THEN [@[r] EXCEPT !.status = "accepted", !.agent = a] ELSE @[r]],
        !.conv = [c \in Conversations |->
            IF \E r \in R : T.req[r].conv = c
            THEN [@[c] EXCEPT !.current = CHOOSE r \in R : T.req[r].conv = c, !.agent = a,
                              !.handoff = "accepted", !.suspended = TRUE]
            ELSE @[c]]]

\* Mutation: the plan of an accepted request stays as it was.
PlanForgotten(T, R, a) == T

\* agent_routing_service: and their plans, if there are any.
PlanAssigned(T, R, a) ==
    [T EXCEPT !.plan = [r \in Requests |->
        IF r \in R /\ HasTicket(T, r) THEN MarkAssigned(Activated(T, r), a) ELSE @[r]]]

HasRoom(T, a) == active_agent_load(T, a) < T.agent[a].capacity

CanAssign(T, r, a, loaded) ==
    /\ Present(T, a) /\ HasRoom(T, a)
    /\ loaded.status = "requested"
    /\ candidate_is_authorized(T, r, a, FALSE)

Waiting(T, r) == T.req[r].status = "requested" /\ T.conv[T.req[r].conv].open

\* Mutation: the loop does not look at the room the agent has left.
ReachedPastCapacity(T, R, E, a) == R

\* The loop of a refill takes the requests of E, oldest first, until the agent is
\* full: those of R it comes to before that.
Reached(T, R, E, a) ==
    {r \in R : active_agent_load(T, a) + Cardinality({s \in E : s < r}) < T.agent[a].capacity}

\* The requests the loop looks at, and those among them that it may take.
Offered(T, a) == {r \in Requests : Waiting(T, r) /\ (HasTicket(T, r) \/ a \notin T.req[r].declined)}
Eligible(T, a) == {r \in Offered(T, a) : candidate_is_authorized(T, r, a, TRUE)}

\* A plan the loop comes to is left as the authorization left it, or assigned.
fill_agent_capacity(T, a) ==
    LET reached == Reached(T, Offered(T, a), Eligible(T, a), a)
        taken == reached \cap Eligible(T, a)
        asked == [T EXCEPT !.plan = [r \in Requests |->
                      IF r \in reached THEN Activated(T, r) ELSE @[r]]]
    IN  IF Present(T, a) THEN PlanAssigned(TakeFresh(asked, taken, a), taken, a) ELSE T

\* The loop makes sure of the plan of every waiting request it comes to, whoever
\* is to get it: one that is refused ends the whole transaction.
Aborts(T, a) ==
    /\ Present(T, a)
    /\ \E r \in Reached(T, {s \in Requests : Waiting(T, s)}, Eligible(T, a), a) : Refused(T, r)

\* agent_routing_primitives has a fill_agent_capacity of its own, which asks no
\* plan.  close_conversation of the same module calls that one.
OfferedUnplanned(T, a) == {r \in Requests : Waiting(T, r) /\ a \notin T.req[r].declined}

fill_unplanned(T, a) ==
    LET offered == OfferedUnplanned(T, a)
    IN  IF Present(T, a) THEN TakeFresh(T, Reached(T, offered, offered, a), a) ELSE T

-----------------------------------------------------------------------------
(* Requests *)

OpenRequest(c) == {r \in Requests : req[r].conv = c /\ req[r].status \in Open}

\* The next row of the table.
NewRequest(c, r) ==
    /\ req[r].status = "absent" /\ \A s \in 1..(r - 1) : req[s].status # "absent"
    /\ OpenRequest(c) = {}

Snapshot(v, r) == [v EXCEPT !.current = r, !.handoff = "requested", !.agent = None,
                            !.suspended = TRUE]

Inserted(c, r) ==
    [Tables EXCEPT !.req[r] = [NoRequest EXCEPT !.conv = c, !.status = "requested"],
                   !.conv[c] = Snapshot(@, r)]

CountCall == calls < MaxCalls /\ calls' = calls + 1

\* While the transaction of a new request routes it, its uncommitted rows keep
\* every other writer of the conversation waiting.
Unlocked(c) == route[c] = {}

\* The routing loads the agents, without a lock, and keeps the rows.
eligible_agents(c) ==
    /\ Unlocked(c) /\ conv[c].open /\ CountCall
    /\ \E r \in Requests : NewRequest(c, r) /\ ~Refused(Inserted(c, r), r)
    /\ route' = [route EXCEPT ![c] = {agent}]
    /\ UNCHANGED <<req, conv, plan, agent, call, visit, scenario>>

\* The first eligible agent that has room, in the order of their last change, or
\* else a retry of the plan.  Presence and capacity are those of the loaded rows.
auto_assign_text_request(T, r, rows) ==
    LET able == {a \in Agents : CanAssign([T EXCEPT !.agent = rows], r, a, T.req[r])}
        p == Activated(T, r)
    IN  \/ \E a \in able : Commit(PlanAssigned(TakeFresh(T, {r}, a), {r}, a))
        \/ /\ able = {}
           /\ Commit([T EXCEPT !.plan[r] = IF p.status = "active"
                                           THEN schedule_retry_or_exhaust(p) ELSE p])

\* The tools of the AI turn and of voice calls.
request_handoff(c) ==
    /\ conv[c].open
    /\ \/ \E r \in Requests, rows \in IF Unlocked(c) THEN {agent} ELSE route[c] :
            /\ NewRequest(c, r) /\ ~Refused(Inserted(c, r), r)
            /\ auto_assign_text_request(Inserted(c, r), r, rows)
       \/ \E r \in OpenRequest(c) :
            /\ req[r].status = "requested" /\ ~Refused(Tables, r)
            /\ Commit([Tables EXCEPT !.plan[r] = ensure_handoff_routing_plan(Tables, r)])
    /\ route' = [route EXCEPT ![c] = {}]
    /\ UNCHANGED <<call, visit, scenario, calls>>

\* The visitor's card, a privacy restriction and a switched-off AI: no plan, no
\* assignment, and the snapshot is reset although the open request may be
\* accepted.
request_webchat_handoff(c) ==
    /\ conv[c].open /\ Unlocked(c)
    /\ \/ \E r \in Requests : NewRequest(c, r) /\ Commit(Inserted(c, r))
       \/ \E r \in OpenRequest(c) : Commit([Tables EXCEPT !.conv[c] = Snapshot(@, r)])
    /\ UNCHANGED <<call, visit, route, scenario, calls>>

\* A supervisor gives the ticket another scenario, or its first one: the plans
\* there are were made for another.
reclassify_case_scenario(c) ==
    /\ c \in Ticketed
    /\ scenario' = scenario \cup {c}
    /\ plan' = [r \in Requests |->
            IF req[r].conv = c /\ plan[r].status # "none"
            THEN [plan[r] EXCEPT !.valid = FALSE] ELSE plan[r]]
    /\ UNCHANGED <<req, conv, agent, call, visit, route, calls>>

-----------------------------------------------------------------------------
(* Calls of an operator: the load, and the rest *)

Begin(a, kind, r, c, snapshot) ==
    /\ call[a] = NoCall /\ CountCall
    /\ call' = [call EXCEPT ![a] =
            [kind |-> kind, req |-> r, conv |-> c, snapshot |-> snapshot,
             loaded |-> Columns(IF r = 0 THEN NoRequest ELSE req[r])]]
    /\ UNCHANGED <<req, conv, plan, agent, visit, route, scenario>>

\* What the loaded status decides is decided here.
LoadRequest(a) ==
    \E r \in Requests :
        LET c == req[r].conv IN
        \/ /\ req[r].status = "requested"
           /\ Begin(a, "accept", r, c, NoHandoff)
        \/ /\ req[r].status = "accepted" /\ (req[r].agent = a \/ a \in Supervisors)
           /\ Begin(a, "release", r, c, NoHandoff)
        \/ /\ req[r].status \in Open
           /\ \/ c \in Ticketed \/ a \in Supervisors
              \/ req[r].status = "accepted" /\ req[r].agent = a
           /\ Begin(a, "resume", r, c, NoHandoff)

\* The statement after that loads the conversation: always in the operator
\* console, and for a request without a ticket.
LoadItsConversation(a) ==
    /\ call[a].kind = "accept"
    /\ call' = [call EXCEPT ![a] = [@ EXCEPT !.kind = "assign", !.snapshot = conv[call[a].conv]]]
    /\ UNCHANGED <<req, conv, plan, agent, visit, route, scenario, calls>>

LoadConversation(a) ==
    \E c \in Conversations :
        /\ conv[c].open
        /\ conv[c].agent \in {None, a} \/ a \in Supervisors
        /\ Begin(a, "close", 0, c, conv[c])

Return(a) ==
    /\ call' = [call EXCEPT ![a] = NoCall]
    /\ UNCHANGED <<visit, route, scenario, calls>>

\* Every refusal (409, 403) and every row that would break the unique index
\* rolls the transaction back.
Finish(a, kind, allowed, T) ==
    /\ call[a].kind = kind /\ Unlocked(call[a].conv)
    /\ IF allowed /\ Unique(T) THEN Commit(T) ELSE UNCHANGED <<req, conv, plan, agent>>
    /\ Return(a)

\* The request is what was loaded; the conversation too, unless the request has a
\* ticket and is accepted by webchat_handoff_service, which locks it first.
Accept(a, kind, snapshot) ==
    LET r == call[a].req
        loaded == call[a].loaded
    IN  Finish(a, kind, ~Refused(Tables, r) /\ CanAssign(Tables, r, a, loaded),
               PlanAssigned(TakeRequest(Tables, r, a, loaded, snapshot), {r}, a))

accept_handoff_request(a) ==
    \/ Accept(a, "assign", call[a].snapshot)
    \/ call[a].conv \in Ticketed /\ Accept(a, "accept", conv[call[a].conv])

decline_handoff_request(a) ==
    /\ call[a] = NoCall
    /\ \E r \in Requests : /\ req[r].status = "requested"
                           /\ req' = [req EXCEPT ![r].declined = @ \cup {a}]
    /\ UNCHANGED <<conv, plan, agent, call, visit, route, scenario, calls>>

\* Without a ticket the agent who gives the request up is not offered it again,
\* and gets other work; with one, the plan stays assigned.
release_handoff_request(a) ==
    LET r == call[a].req
        c == call[a].conv
        loaded == call[a].loaded
        T == [Tables EXCEPT
                !.req[r] = Update(@, loaded, [loaded EXCEPT !.status = "requested", !.agent = None]),
                !.conv[c] = Snapshot(@, r)]
        U == [T EXCEPT !.req[r].declined = @ \cup {loaded.agent}]
    IN  Finish(a, "release", c \in Ticketed \/ ~Aborts(U, loaded.agent),
               IF c \in Ticketed THEN T ELSE fill_agent_capacity(U, loaded.agent))

resume_ai_for_handoff(a) ==
    LET r == call[a].req
        c == call[a].conv
        loaded == call[a].loaded
        T == [Tables EXCEPT
                !.req[r] = Update(@, loaded, [loaded EXCEPT !.status = "resumed_ai", !.agent = None]),
                !.conv[c] = [NoHandoff EXCEPT !.open = conv[c].open]]
        alone == c \in Ticketed \/ loaded.agent = None
    IN  Finish(a, "resume",
               /\ c \in Ticketed \/ a \in Supervisors \/ conv[c].agent = a
               /\ alone \/ ~Aborts(T, loaded.agent),
               IF alone THEN T ELSE fill_agent_capacity(T, loaded.agent))

\* The open request of the conversation decides whether the agent may close it;
\* the request that is closed is the current one of the conversation as loaded.
close_conversation(a) ==
    LET c == call[a].conv
        v == call[a].snapshot
        active == OpenRequest(c)
        checked == [Tables EXCEPT !.plan = [s \in Requests |->
                        IF s \in active THEN Activated(Tables, s) ELSE @[s]]]
        closed == [checked EXCEPT
            !.req = [s \in Requests |-> IF s = v.current /\ @[s].status \in Open
                                        THEN [@[s] EXCEPT !.status = "closed"] ELSE @[s]],
            !.conv[c] = Update(@, v, [v EXCEPT !.open = FALSE, !.current = 0, !.agent = None,
                                               !.handoff = "closed", !.suspended = TRUE])]
        filled == IF v.agent = None THEN closed ELSE fill_unplanned(closed, v.agent)
    IN  Finish(a, "close",
               \A s \in active : ~Refused(Tables, s) /\ candidate_is_authorized(Tables, s, a, FALSE),
               [filled EXCEPT !.plan = [s \in Requests |->
                    IF s = v.current /\ @[s].status # "none"
                    THEN [@[s] EXCEPT !.status = "closed", !.due = FALSE] ELSE @[s]]])

\* A supervisor takes a conversation with a ticket: its rows are locked by the
\* query that loads them.
force_takeover_ticket(a) ==
    /\ a \in Supervisors /\ call[a] = NoCall
    /\ \E c \in Ticketed : Unlocked(c) /\
        \/ \E r \in Requests :
            LET T == [Tables EXCEPT !.req[r] = [NoRequest EXCEPT !.conv = c, !.status = "requested"]]
            IN  /\ NewRequest(c, r) /\ ~Refused(T, r) /\ CanAssign(T, r, a, T.req[r])
                /\ Commit(PlanAssigned(TakeFresh(T, {r}, a), {r}, a))
        \/ \E r \in OpenRequest(c) :
            /\ ~Refused(Tables, r) /\ CanAssign(Tables, r, a, req[r])
            /\ Commit(PlanAssigned(TakeFresh(Tables, {r}, a), {r}, a))
    /\ UNCHANGED <<call, visit, route, scenario, calls>>

-----------------------------------------------------------------------------
(* A message of the visitor, which resumes the AI if the request has waited   *)
(* too long.  Nothing is locked.                                              *)

VisitorLoads(c) ==
    LET r == conv[c].current IN
    /\ c \in Ticketed /\ conv[c].open /\ visit[c] = NoCall /\ CountCall
    /\ conv[c].handoff = "requested" /\ conv[c].agent = None
    /\ r # 0 => req[r].status = "requested"
    /\ visit' = [visit EXCEPT ![c] =
            [kind |-> "resume", req |-> r, conv |-> c,
             loaded |-> Columns(IF r = 0 THEN NoRequest ELSE req[r]), snapshot |-> conv[c]]]
    /\ UNCHANGED <<req, conv, plan, agent, call, route, scenario>>

resume_stale_requested_handoff(c) ==
    LET v == visit[c] IN
    /\ v # NoCall /\ Unlocked(c)
    /\ req' = [r \in Requests |-> IF r = v.req
                                  THEN Update(req[r], v.loaded, [v.loaded EXCEPT !.status = "resumed_ai"])
                                  ELSE req[r]]
    /\ conv' = [conv EXCEPT ![c] = Update(@, v.snapshot, [NoHandoff EXCEPT !.open = v.snapshot.open])]
    /\ visit' = [visit EXCEPT ![c] = NoCall]
    /\ UNCHANGED <<plan, agent, call, route, scenario, calls>>

-----------------------------------------------------------------------------
(* Abandoned handoffs *)

\* The agent is away for the grace period, or has not answered since the request
\* was accepted: whether it has is left open.
Abandoned(T, r) ==
    /\ T.req[r].status = "accepted" /\ T.req[r].agent # None
    /\ T.conv[T.req[r].conv].open

reopen_routing_plan(p, a) ==
    LET recorded == IF p.status = "none" THEN p ELSE [p EXCEPT !.attempted = @ \cup {a}]
    IN  IF p.status = "assigned" THEN NextGeneration(recorded) ELSE recorded

\* Mutation: the snapshots of the conversations still name the agent.
ReleaseRequestsOnly(T, R) ==
    [T EXCEPT
        !.req = [r \in Requests |->
            IF r \in R THEN [@[r] EXCEPT !.status = "requested", !.agent = None] ELSE @[r]],
        !.plan = [r \in Requests |->
            IF r \in R THEN reopen_routing_plan(@[r], T.req[r].agent) ELSE @[r]]]

\* _release_one, for requests of different conversations.
Release(T, R) ==
    [T EXCEPT
        !.req = [r \in Requests |->
            IF r \in R THEN [@[r] EXCEPT !.status = "requested", !.agent = None] ELSE @[r]],
        !.conv = [c \in Conversations |->
            IF \E r \in R : T.req[r].conv = c
            THEN Snapshot(@[c], CHOOSE r \in R : T.req[r].conv = c) ELSE @[c]],
        !.plan = [r \in Requests |->
            IF r \in R THEN reopen_routing_plan(@[r], T.req[r].agent) ELSE @[r]]]

\* The worker's reconciler, for the requests whose time has come.
reconcile_stale_text_handoffs(r) ==
    /\ Abandoned(Tables, r)
    /\ Commit(Release(Tables, {r}))
    /\ UNCHANGED <<call, visit, route, scenario, calls>>

\* The requests an agent's own call begins with: the reconciler is run for them.
AbandonedBy(a) == {r \in Requests : req[r].agent = a /\ Abandoned(Tables, r)}

-----------------------------------------------------------------------------
(* Presence *)

heartbeat_agent(a) ==
    /\ agent[a].online
    /\ \E R \in SUBSET AbandonedBy(a) :
          \E T \in {[Release(Tables, R) EXCEPT !.agent[a].fresh = TRUE]} :
              ~Aborts(T, a) /\ Commit(fill_agent_capacity(T, a))
    /\ UNCHANGED <<call, visit, route, scenario, calls>>

ChangeState(a, R, state) ==
    /\ agent[a] # state
    /\ \E T \in {[Release(Tables, R) EXCEPT !.agent[a] = state]} :
          ~Aborts(T, a) /\ Commit(fill_agent_capacity(T, a))
    /\ UNCHANGED <<call, visit, route, scenario, calls>>

\* The capacity, which only a manager may change, may fall below what the agent
\* has accepted.
set_agent_state(a) ==
    \E R \in SUBSET AbandonedBy(a), online \in BOOLEAN, capacity \in 1..MaxCapacity :
        /\ capacity = agent[a].capacity \/ a \in Supervisors
        /\ ChangeState(a, R, [online |-> online, fresh |-> online, capacity |-> capacity])

\* A manager sets the capacity, whether the agent is there or not.
set_operator_agent_capacity(a) ==
    \E R \in SUBSET AbandonedBy(a), capacity \in 1..MaxCapacity :
        ChangeState(a, R, [agent[a] EXCEPT !.capacity = capacity])

HeartbeatLapses(a) ==
    /\ agent[a].fresh
    /\ agent' = [agent EXCEPT ![a].fresh = FALSE]
    /\ UNCHANGED <<req, conv, plan, call, visit, route, scenario, calls>>

RetryFallsDue(r) ==
    /\ plan[r].status = "retry_scheduled" /\ ~plan[r].due
    /\ plan' = [plan EXCEPT ![r].due = TRUE]
    /\ UNCHANGED <<req, conv, agent, call, visit, route, scenario, calls>>

-----------------------------------------------------------------------------

FinishCall(a) ==
    \/ accept_handoff_request(a) \/ release_handoff_request(a)
    \/ resume_ai_for_handoff(a) \/ close_conversation(a)

Next ==
    \/ \E c \in Conversations : \/ eligible_agents(c) \/ request_handoff(c)
                                \/ request_webchat_handoff(c) \/ reclassify_case_scenario(c)
                                \/ VisitorLoads(c) \/ resume_stale_requested_handoff(c)
    \/ \E a \in Agents : \/ LoadRequest(a) \/ LoadItsConversation(a)
                         \/ LoadConversation(a) \/ FinishCall(a)
                         \/ decline_handoff_request(a) \/ force_takeover_ticket(a)
                         \/ heartbeat_agent(a) \/ set_agent_state(a)
                         \/ set_operator_agent_capacity(a) \/ HeartbeatLapses(a)
    \/ \E r \in Requests : reconcile_stale_text_handoffs(r) \/ RetryFallsDue(r)

Spec == Init /\ [][Next]_vars

AgentIsAway(r) == req[r].agent # None /\ ~Present(Tables, req[r].agent)

\* A transaction ends, time passes, and the worker runs its reconciler.  The
\* console of an agent who is online sends a heartbeat every few seconds and a
\* request is taken back minutes after it was accepted, so a heartbeat that could
\* be given a request time and again is given it: strong fairness.
FairSpec ==
    /\ Spec
    /\ \A a \in Agents : WF_vars(LoadItsConversation(a) \/ FinishCall(a))
    /\ \A c \in Conversations : WF_vars(~Unlocked(c) /\ request_handoff(c))
    /\ \A a \in Agents, r \in Requests :
            SF_vars(Waiting(Tables, r) /\ heartbeat_agent(a) /\ req'[r].agent = a)
    /\ \A r \in Requests : /\ WF_vars(AgentIsAway(r) /\ reconcile_stale_text_handoffs(r))
                          /\ WF_vars(RetryFallsDue(r))

-----------------------------------------------------------------------------
(* Properties *)

\* Every variable keeps its domain: a plan never passes its last generation.
TypeOK ==
    /\ req \in [Requests -> Request]
    /\ conv \in [Conversations -> Conversation]
    /\ plan \in [Requests -> Plan]
    /\ agent \in [Agents -> State]
    /\ call \in [Agents -> Call]
    /\ visit \in [Conversations -> Call]
    /\ route \in [Conversations -> SUBSET [Agents -> State]]
    /\ scenario \in SUBSET Ticketed
    /\ calls \in 0..MaxCalls

Owner(c) == {a \in Agents : \E r \in Requests : /\ req[r].conv = c /\ req[r].status = "accepted"
                                                /\ req[r].agent = a}

\* The agent whom an open, accepted conversation lets reply has accepted a request
\* of it.
Owned(c) == conv[c].open /\ conv[c].handoff = "accepted" => conv[c].agent \in Owner(c)

\* The accept of an agent who already owned the conversation when it loaded it: it
\* does not write that column.
AcceptsAgain(a, c) ==
    /\ call[a].kind = "assign" /\ call[a].conv = c /\ call[a].snapshot.agent = a
    /\ call'[a] = NoCall

\* Whoever may reply (ensure_can_reply_in_handoff) stays the owner, whatever calls
\* of operators, reconciler and visitor write over each other from stale rows: the
\* one step that may part them is an accept whose agent was given the request
\* between its load of the request and its load of the conversation.
OwnershipKept ==
    [][\A c \in Conversations :
        Owned(c) /\ ~Owned(c)' => \E a \in Agents : AcceptsAgain(a, c)]_vars

\* No step, automatic or manual, gives an agent more open conversations than its
\* capacity: two calls may take the last place, requests come back, other calls
\* refill, and the capacity may be lowered in between.  The routing of a new
\* request keeps to the capacity it has loaded.
CapacityRespected ==
    [][\A a \in Agents :
        active_agent_load(Tables, a)' > active_agent_load(Tables, a) =>
            \/ active_agent_load(Tables, a)' <= agent'[a].capacity
            \/ \E c \in Conversations : \E rows \in route[c] :
                  route'[c] = {} /\ active_agent_load(Tables, a)' <= rows[a].capacity]_vars

\* The customer waits, or was given to an agent who has left.
Unserved(r) ==
    /\ req[r].status \in Open /\ conv[req[r].conv].open
    /\ req[r].status = "accepted" => req[r].agent # None /\ ~agent[req[r].agent].online

\* The plan of a waiting request has come to its end.
Unroutable(r) ==
    /\ req[r].status = "requested" /\ req[r].conv \in Ticketed
    /\ plan[r].status \in {"assigned", "exhausted", "closed"}

\* Somebody the request may still be given to has room for it, and no request
\* whose plan is refused ends every refill.
Available(a, r) ==
    /\ Present(Tables, a) /\ HasRoom(Tables, a) /\ ~Aborts(Tables, a)
    /\ IF req[r].conv \in Ticketed THEN plan[r].status = "active" => a \notin plan[r].attempted
       ELSE a \notin req[r].declined

\* A customer who waits for a human, or whose agent has left, is served as long
\* as an agent is available: the reconciler takes the request back, its plan goes
\* to the next generation and a heartbeat assigns it, unless the plan has ended.
CustomerIsServed ==
    \A r \in Requests :
        Unserved(r) ~> (~Unserved(r) \/ Unroutable(r) \/ ~\E a \in Agents : Available(a, r))

\* agent_routing_service is to be the one place where handoffs are assigned: an
\* agent who gets a request that has a plan gets it by the plan, except the one
\* who closes a conversation, whom agent_routing_primitives refills.
AcceptedByPlan ==
    [][\A r \in Requests :
        /\ req[r].status # "accepted" /\ req'[r].status = "accepted"
        /\ req'[r].conv \in Ticketed /\ plan'[r].status # "assigned"
        => \E a \in Agents : close_conversation(a)]_vars
=============================================================================
