------------------------ MODULE HandoffRoutingProofs ------------------------
(***************************************************************************)
(* Proofs about HandoffRouting, for every number of agents, conversations, *)
(* requests and calls, every capacity and every length of a plan.          *)
(*                                                                         *)
(* A call writes the columns that differ from those it loaded, and the     *)
(* rows may have changed since.  HandoffInv says what stays true of loaded *)
(* rows whoever writes in between, and what the tables satisfy after every *)
(* transaction.  Transactions are taken apart into assignments (Assigns)   *)
(* and givings back (GivesBack); each kind keeps the tables right, a       *)
(* request with its conversation, a closed conversation closed, who may    *)
(* reply the owner, and an agent's growing load within its capacity        *)
(* (StepOK).  Two steps keep less: an accept may leave the conversation to *)
(* another agent than the owner, and the routing of a new request keeps to *)
(* the capacity it has loaded.                                             *)
(***************************************************************************)
EXTENDS HandoffRouting, FiniteSetTheorems, TLAPS

-----------------------------------------------------------------------------
(* The inductive invariant *)

TablesType == [req : [Requests -> Request], conv : [Conversations -> Conversation],
               plan : [Requests -> Plan], agent : [Agents -> State]]

\* A request that exists is of a conversation.
IsOf(T, r, c) == T.req[r].status # "absent" /\ T.req[r].conv = c

\* A request is of a conversation; an accepted one names an agent, a waiting one none.
RowsOK(T) ==
    \A r \in Requests :
        /\ T.req[r].status # "absent" => T.req[r].conv \in Conversations
        /\ T.req[r].status = "requested" => T.req[r].agent = None
        /\ T.req[r].status = "accepted" => T.req[r].agent \in Agents

\* The current request of a conversation is one of its requests.
SnapshotOK(T, c) == T.conv[c].current # 0 => IsOf(T, T.conv[c].current, c)

TablesOK(T) ==
    /\ RowsOK(T)
    /\ Unique(T)
    /\ \A c \in Conversations : SnapshotOK(T, c)

\* What remains true of the rows a call has loaded, whoever has written them.
CallOK(T, k) ==
    /\ k.kind \in {"accept", "assign", "release", "resume"} =>
          k.req \in Requests /\ IsOf(T, k.req, k.conv)
    /\ k.kind \in {"accept", "assign"} => k.loaded.status = "requested" /\ k.loaded.agent = None
    /\ k.kind = "release" => k.loaded.status = "accepted" /\ k.loaded.agent \in Agents
    /\ k.kind = "resume" => k.loaded.status \in Open
    /\ k.kind = "close" =>
          /\ k.conv \in Conversations /\ k.snapshot.open
          /\ k.snapshot.current # 0 => IsOf(T, k.snapshot.current, k.conv)

VisitOK(T, c, k) ==
    k # NoCall =>
        /\ c \in Ticketed
        /\ k.snapshot.handoff = "requested" /\ k.snapshot.agent = None
        /\ k.req # 0 => IsOf(T, k.req, c) /\ k.loaded.status = "requested" /\ k.loaded.agent = None

HandoffInv ==
    /\ TypeOK
    /\ TablesOK(Tables)
    /\ \A a \in Agents : CallOK(Tables, call[a])
    /\ \A c \in Conversations : VisitOK(Tables, c, visit[c])

\* What every transaction keeps: a request stays with its conversation, and a
\* closed conversation stays closed.
Evolves(T, U) ==
    /\ \A r \in Requests : T.req[r].status # "absent" =>
          U.req[r].status # "absent" /\ U.req[r].conv = T.req[r].conv
    /\ \A c \in Conversations : U.conv[c].open => T.conv[c].open

\* The agent the conversation lets reply has accepted a request of it.
RowOwned(T, c) ==
    T.conv[c].open /\ T.conv[c].handoff = "accepted" =>
        \E r \in Requests : /\ T.req[r].conv = c /\ T.req[r].status = "accepted"
                            /\ T.req[r].agent = T.conv[c].agent

OwnedKept(T, U) == \A c \in Conversations : RowOwned(T, c) => RowOwned(U, c)

\* Nobody gets a request, and nobody loses one he may reply in.
Quiet(T, U) ==
    /\ \A r \in Requests : U.req[r].status = "accepted" =>
          T.req[r].status = "accepted" /\ U.req[r].agent = T.req[r].agent
    /\ OwnedKept(T, U)

\* The requests that count as the load of an agent.
LoadSet(T, a) == {r \in Requests : /\ T.req[r].status = "accepted" /\ T.req[r].agent = a
                                   /\ T.conv[T.req[r].conv].open}

\* What the action properties say of a transaction.
CapacityHeld(T, U, rows) ==
    \A a \in Agents : \/ LoadSet(U, a) \subseteq LoadSet(T, a)
                      \/ active_agent_load(U, a) <= rows[a].capacity

CapacityKept(T, U) == CapacityHeld(T, U, U.agent)

Planned(T, U) ==
    \A r \in Requests :
        /\ T.req[r].status # "accepted" /\ U.req[r].status = "accepted"
        /\ U.req[r].conv \in Ticketed
        => U.plan[r].status = "assigned"

-----------------------------------------------------------------------------
(* Tables as records *)

\* A table in which two columns are replaced, or three.
LEMMA ReplaceTwo ==
    ASSUME NEW T \in TablesType, NEW x, NEW y
    PROVE  [T EXCEPT !.req = x, !.conv = y]
             = [req |-> x, conv |-> y, plan |-> T.plan, agent |-> T.agent]
<1> DEFINE V == [T EXCEPT !.req = x]
<1>1. V = [req |-> x, conv |-> T.conv, plan |-> T.plan, agent |-> T.agent]
  BY DEF TablesType
<1> HIDE DEF V
<1>2. [V EXCEPT !.conv = y] = [req |-> x, conv |-> y, plan |-> T.plan, agent |-> T.agent]
  BY <1>1
<1>3. QED
  BY <1>2, Zenon DEF V

\* The same for three columns.
LEMMA ReplaceThree ==
    ASSUME NEW T \in TablesType, NEW x, NEW y, NEW z
    PROVE  [T EXCEPT !.req = x, !.conv = y, !.plan = z]
             = [req |-> x, conv |-> y, plan |-> z, agent |-> T.agent]
<1> DEFINE V == [T EXCEPT !.req = x, !.conv = y]
<1>1. V = [req |-> x, conv |-> y, plan |-> T.plan, agent |-> T.agent]
  BY ReplaceTwo
<1> HIDE DEF V
<1>2. [V EXCEPT !.plan = z] = [req |-> x, conv |-> y, plan |-> z, agent |-> T.agent]
  BY <1>1
<1>3. QED
  BY <1>2, Zenon DEF V

\* The tables of a state, and of the state after a commit.
LEMMA TablesTyped ==
    ASSUME TypeOK
    PROVE  /\ Tables \in TablesType
           /\ Tables.req = req /\ Tables.conv = conv /\ Tables.plan = plan /\ Tables.agent = agent
BY DEF TypeOK, Tables, TablesType

\* Commit writes the tables it is given.
LEMMA CommitWrites ==
    ASSUME NEW U \in TablesType, Commit(U)
    PROVE  /\ Tables' = U
           /\ req' = U.req /\ conv' = U.conv /\ plan' = U.plan /\ agent' = U.agent
BY DEF Commit, Tables, TablesType

-----------------------------------------------------------------------------
(* Plans *)

\* The next generation, or the end of the plan.
LEMMA NextGenerationType ==
    ASSUME NEW p \in Plan
    PROVE  NextGeneration(p) \in Plan
<1>1. p.generation \in 0..MaxGenerations
  BY Zenon DEF Plan
<1>2. ~(p.generation >= MaxGenerations) => p.generation + 1 \in 0..MaxGenerations
  BY <1>1, RoutingAssumption, SMT
<1>3. CASE p.generation >= MaxGenerations
  BY <1>3, Zenon DEF NextGeneration, Plan
<1>4. CASE ~(p.generation >= MaxGenerations)
  BY <1>2, <1>4, Zenon DEF NextGeneration, Plan
<1>5. QED
  BY <1>3, <1>4

\* A retry, or the end of the plan.
LEMMA RetryType ==
    ASSUME NEW p \in Plan
    PROVE  schedule_retry_or_exhaust(p) \in Plan
BY DEF schedule_retry_or_exhaust, Plan

\* Every change of a plan keeps its type.
LEMMA PlanTypes ==
    ASSUME NEW p \in Plan, NEW a \in Agents
    PROVE  /\ MarkAssigned(p, a) \in Plan /\ MarkAssigned(p, a).status = "assigned"
           /\ reopen_routing_plan(p, a) \in Plan
<1>2. MarkAssigned(p, a) \in Plan /\ MarkAssigned(p, a).status = "assigned"
  BY DEF MarkAssigned, Plan
<1>3. reopen_routing_plan(p, a) \in Plan
  <2> DEFINE q == IF p.status = "none" THEN p ELSE [p EXCEPT !.attempted = @ \cup {a}]
  <2>1. q \in Plan
    BY DEF Plan
  <2>2. NextGeneration(q) \in Plan
    BY <2>1, NextGenerationType
  <2>3. QED
    BY <2>1, <2>2 DEF reopen_routing_plan
<1>4. QED
  BY <1>2, <1>3

\* So does the authorization of a candidate.
LEMMA ActivatedType ==
    ASSUME NEW T \in TablesType, NEW r \in Requests
    PROVE  /\ ensure_handoff_routing_plan(T, r) \in Plan
           /\ Activated(T, r) \in Plan
<1>1. T.plan[r] \in Plan
  BY DEF TablesType
<1>2. ensure_handoff_routing_plan(T, r) \in Plan
  <2>1. 0 \in 0..MaxGenerations /\ 1 \in 0..MaxGenerations
    BY RoutingAssumption
  <2>2. QED
    BY <1>1, <2>1, Zenon DEF ensure_handoff_routing_plan, NoPlan, Plan
<1>3. activate_due_generation(ensure_handoff_routing_plan(T, r)) \in Plan
  BY <1>2, NextGenerationType, Zenon DEF activate_due_generation
<1>4. QED
  BY <1>2, <1>3 DEF Activated

-----------------------------------------------------------------------------
(* Assignment *)

\* What the assignment of the requests of R does to the tables.
Took(T, R, a, U) ==
    /\ U.agent = T.agent
    /\ \A r \in Requests :
          /\ U.req[r].conv = T.req[r].conv
          /\ r \in R => U.req[r].status = "accepted" /\ U.req[r].agent = a
          /\ r \notin R => U.req[r] = T.req[r]
    /\ \A c \in Conversations :
          /\ U.conv[c].open = T.conv[c].open
          /\ (\E r \in R : T.req[r].conv = c) =>
                \/ U.conv[c].current = T.conv[c].current
                \/ \E r \in R : T.req[r].conv = c /\ U.conv[c].current = r
          /\ ~(\E r \in R : T.req[r].conv = c) => U.conv[c] = T.conv[c]

\* And that their conversations name the agent.
Shown(T, R, a, U) ==
    \A c \in Conversations :
        (\E r \in R : T.req[r].conv = c) => U.conv[c].handoff = "accepted" /\ U.conv[c].agent = a

\* It is what TakeFresh does.
LEMMA TakeFreshEffect ==
    ASSUME NEW T \in TablesType, NEW R \in SUBSET Requests, NEW a \in Agents
    PROVE  /\ TakeFresh(T, R, a) \in TablesType
           /\ Took(T, R, a, TakeFresh(T, R, a)) /\ Shown(T, R, a, TakeFresh(T, R, a))
<1> DEFINE F == [r \in Requests |-> IF r \in R THEN [T.req[r] EXCEPT !.status = "accepted", !.agent = a]
                                    ELSE T.req[r]]
           G == [c \in Conversations |->
                   IF \E r \in R : T.req[r].conv = c
                   THEN [T.conv[c] EXCEPT !.current = CHOOSE r \in R : T.req[r].conv = c,
                                          !.agent = a, !.handoff = "accepted", !.suspended = TRUE]
                   ELSE T.conv[c]]
<1>1. TakeFresh(T, R, a) = [T EXCEPT !.req = F, !.conv = G]
  BY Zenon DEF TakeFresh
<1>2. \A r \in Requests :
        /\ F[r] \in Request /\ F[r].conv = T.req[r].conv
        /\ r \in R => F[r].status = "accepted" /\ F[r].agent = a
        /\ r \notin R => F[r] = T.req[r]
  <2> TAKE r \in Requests
  <2>1. T.req[r] \in Request
    BY DEF TablesType
  <2> QED
    BY <2>1, Zenon DEF Request, Open, Somebody
<1>3. F \in [Requests -> Request]
  BY <1>2, Zenon
<1>4. \A c \in Conversations :
        /\ G[c] \in Conversation /\ G[c].open = T.conv[c].open
        /\ (\E r \in R : T.req[r].conv = c) =>
              /\ \E r \in R : T.req[r].conv = c /\ G[c].current = r
              /\ G[c].handoff = "accepted" /\ G[c].agent = a
        /\ ~(\E r \in R : T.req[r].conv = c) => G[c] = T.conv[c]
  <2> TAKE c \in Conversations
  <2>1. T.conv[c] \in Conversation
    BY DEF TablesType
  <2>2. CASE \E r \in R : T.req[r].conv = c
    <3> DEFINE m == CHOOSE r \in R : T.req[r].conv = c
    <3>1. m \in R /\ T.req[m].conv = c
      BY <2>2, Zenon
    <3>2. G[c] = [T.conv[c] EXCEPT !.current = m, !.agent = a, !.handoff = "accepted", !.suspended = TRUE]
      BY <2>2, Zenon
    <3> HIDE DEF m, G
    <3>3. m \in {0} \cup Requests
      BY <3>1, Zenon
    <3>4. QED
      BY <2>1, <2>2, <3>1, <3>2, <3>3, Zenon DEF Conversation, Open, Somebody
  <2>3. CASE ~\E r \in R : T.req[r].conv = c
    <3>1. G[c] = T.conv[c]
      BY <2>3, Zenon
    <3> QED
      BY <2>1, <2>3, <3>1, Zenon
  <2>4. QED
    BY <2>2, <2>3
<1>5. G \in [Conversations -> Conversation]
  BY <1>4, Zenon
<1> HIDE DEF F, G
<1>6. TakeFresh(T, R, a) = [req |-> F, conv |-> G, plan |-> T.plan, agent |-> T.agent]
  BY <1>1, ReplaceTwo, Zenon
<1> DEFINE U == TakeFresh(T, R, a)
<1>7. U \in TablesType /\ U.req = F /\ U.conv = G /\ U.plan = T.plan /\ U.agent = T.agent
  BY <1>3, <1>5, <1>6 DEF TablesType
<1>8. QED
  BY <1>2, <1>4, <1>7, Zenon DEF Took, Shown

\* The plans are the only table PlanAssigned writes.
LEMMA PlanAssignedEffect ==
    ASSUME NEW T \in TablesType, NEW R \in SUBSET Requests, NEW a \in Agents
    PROVE  /\ PlanAssigned(T, R, a) \in TablesType
           /\ PlanAssigned(T, R, a).req = T.req
           /\ PlanAssigned(T, R, a).conv = T.conv
           /\ PlanAssigned(T, R, a).agent = T.agent
           /\ \A r \in R : HasTicket(T, r) => PlanAssigned(T, R, a).plan[r].status = "assigned"
<1> DEFINE P == [r \in Requests |-> IF r \in R /\ HasTicket(T, r) THEN MarkAssigned(Activated(T, r), a)
                                    ELSE T.plan[r]]
<1>1. PlanAssigned(T, R, a) = [T EXCEPT !.plan = P]
  BY Zenon DEF PlanAssigned
<1>2. \A r \in Requests : T.plan[r] \in Plan
  BY DEF TablesType
<1>3. \A r \in Requests : /\ MarkAssigned(Activated(T, r), a) \in Plan
                          /\ MarkAssigned(Activated(T, r), a).status = "assigned"
  BY ActivatedType, PlanTypes, Zenon
<1>4. P \in [Requests -> Plan]
  BY <1>2, <1>3, Zenon
<1>5. \A r \in R : HasTicket(T, r) => P[r].status = "assigned"
  BY <1>3, Zenon
<1> HIDE DEF P
<1>6. PlanAssigned(T, R, a) = [req |-> T.req, conv |-> T.conv, plan |-> P, agent |-> T.agent]
  BY <1>1 DEF TablesType
<1>7. QED
  BY <1>4, <1>5, <1>6 DEF TablesType

\* Writing other tables than the requests and the conversations keeps them good.
LEMMA SameRows ==
    ASSUME NEW T, NEW U, U.req = T.req, U.conv = T.conv
    PROVE  /\ TablesOK(T) => TablesOK(U)
           /\ Evolves(T, U) /\ Quiet(T, U)
           /\ \A a : LoadSet(U, a) = LoadSet(T, a)
<1>1. RowsOK(T) => RowsOK(U)
  BY Zenon DEF RowsOK
<1>2. Unique(T) => Unique(U)
  BY Zenon DEF Unique
<1>3. \A c : SnapshotOK(T, c) => SnapshotOK(U, c)
  BY Zenon DEF SnapshotOK, IsOf
<1>4. Evolves(T, U) /\ Quiet(T, U)
  BY Zenon DEF Evolves, Quiet, OwnedKept, RowOwned
<1>5. \A a : LoadSet(U, a) = LoadSet(T, a)
  BY Zenon DEF LoadSet
<1>6. QED
  BY <1>1, <1>2, <1>3, <1>4, <1>5, Zenon DEF TablesOK

\* Requests can be given to an agent, if that makes no duplicate.
LEMMA TookOK ==
    ASSUME NEW T \in TablesType, NEW R \in SUBSET Requests, NEW a \in Agents, NEW U \in TablesType,
           TablesOK(T), \A r \in R : T.req[r].status # "absent",
           Took(T, R, a, U), Unique(U)
    PROVE  TablesOK(U) /\ Evolves(T, U)
<1>1. /\ \A r \in Requests :
            /\ U.req[r].conv = T.req[r].conv
            /\ r \in R => U.req[r].status = "accepted" /\ U.req[r].agent = a
            /\ r \notin R => U.req[r] = T.req[r]
      /\ \A c \in Conversations :
            /\ U.conv[c].open = T.conv[c].open
            /\ (\E r \in R : T.req[r].conv = c) =>
                  \/ U.conv[c].current = T.conv[c].current
                  \/ \E r \in R : T.req[r].conv = c /\ U.conv[c].current = r
            /\ ~(\E r \in R : T.req[r].conv = c) => U.conv[c] = T.conv[c]
  BY DEF Took
<1>2. RowsOK(U)
  BY <1>1 DEF TablesOK, RowsOK
<1>3. Evolves(T, U)
  BY <1>1 DEF Evolves
<1>4. \A c \in Conversations : SnapshotOK(U, c)
  <2> TAKE c \in Conversations
  <2>1. SnapshotOK(T, c)
    BY DEF TablesOK
  <2>2. T.conv[c].current \in {0} \cup Requests
    BY DEF TablesType, Conversation
  <2>3. T.conv[c].current # 0 => IsOf(U, T.conv[c].current, c)
    BY <2>1, <2>2, <1>3 DEF SnapshotOK, IsOf, Evolves
  <2>4. CASE U.conv[c].current = T.conv[c].current
    BY <2>3, <2>4 DEF SnapshotOK
  <2>5. CASE \E s \in R : T.req[s].conv = c /\ U.conv[c].current = s
    BY <1>1, <2>5 DEF IsOf, SnapshotOK
  <2>6. QED
    BY <1>1, <2>4, <2>5
<1>5. QED
  BY <1>2, <1>3, <1>4 DEF TablesOK

\* The agent may reply in the conversations it has got.
LEMMA TookOwned ==
    ASSUME NEW T, NEW R \in SUBSET Requests, NEW a, NEW U,
           Took(T, R, a, U), Shown(T, R, a, U)
    PROVE  OwnedKept(T, U)
<1> SUFFICES ASSUME NEW c \in Conversations, RowOwned(T, c) PROVE RowOwned(U, c)
  BY DEF OwnedKept
<1>1. \A r \in Requests :
            /\ U.req[r].conv = T.req[r].conv
            /\ r \in R => U.req[r].status = "accepted" /\ U.req[r].agent = a
            /\ r \notin R => U.req[r] = T.req[r]
  BY DEF Took
<1>2. CASE \E r \in R : T.req[r].conv = c
  <2>1. PICK r \in R : T.req[r].conv = c
    BY <1>2
  <2>2. U.conv[c].agent = a
    BY <1>2 DEF Shown
  <2>3. r \in Requests /\ U.req[r].conv = c /\ U.req[r].status = "accepted" /\ U.req[r].agent = a
    BY <1>1, <2>1
  <2>4. QED
    BY <2>2, <2>3 DEF RowOwned
<1>3. CASE ~\E r \in R : T.req[r].conv = c
  <2>1. U.conv[c] = T.conv[c]
    BY <1>3 DEF Took
  <2>2. \A r \in Requests : T.req[r].conv = c => U.req[r] = T.req[r]
    BY <1>1, <1>3
  <2>3. QED
    BY <2>1, <2>2 DEF RowOwned
<1>4. QED
  BY <1>2, <1>3

-----------------------------------------------------------------------------
(* Loads *)

\* The load of an agent is the size of a finite set.
LEMMA LoadIsFinite ==
    ASSUME NEW T, NEW a
    PROVE  /\ IsFiniteSet(Requests)
           /\ IsFiniteSet(LoadSet(T, a))
           /\ active_agent_load(T, a) = Cardinality(LoadSet(T, a))
           /\ active_agent_load(T, a) \in Nat
<1>1. IsFiniteSet(Requests)
  BY FS_Interval, RoutingAssumption DEF Requests
<1>2. LoadSet(T, a) \in SUBSET Requests
  BY DEF LoadSet
<1>3. IsFiniteSet(LoadSet(T, a))
  BY <1>1, <1>2, FS_Subset
<1>4. active_agent_load(T, a) = Cardinality(LoadSet(T, a))
  BY Zenon DEF active_agent_load, LoadSet
<1>5. QED
  BY <1>1, <1>3, <1>4, FS_CardinalityType

\* A step in which nobody gets a request gives nobody load.
LEMMA QuietLoad ==
    ASSUME NEW T, NEW U, RowsOK(T), Evolves(T, U), Quiet(T, U)
    PROVE  \A a : LoadSet(U, a) \subseteq LoadSet(T, a)
<1> TAKE a
<1> SUFFICES ASSUME NEW r \in LoadSet(U, a) PROVE r \in LoadSet(T, a)
  OBVIOUS
<1>1. r \in Requests /\ U.req[r].status = "accepted" /\ U.req[r].agent = a /\ U.conv[U.req[r].conv].open
  BY DEF LoadSet
<1>2. T.req[r].status = "accepted" /\ T.req[r].agent = a
  BY <1>1 DEF Quiet
<1>3. U.req[r].conv = T.req[r].conv /\ T.req[r].conv \in Conversations
  BY <1>1, <1>2 DEF Evolves, RowsOK
<1>4. T.conv[T.req[r].conv].open
  BY <1>1, <1>3 DEF Evolves
<1>5. QED
  BY <1>1, <1>2, <1>4 DEF LoadSet

\* An agent that is given as many requests as it has room for is not overloaded.
LEMMA TookCapacity ==
    ASSUME NEW T \in TablesType, NEW R \in SUBSET Requests, NEW a \in Agents, NEW U \in TablesType,
           Took(T, R, a, U), RowsOK(T),
           NEW rows \in [Agents -> State],
           R # {} => active_agent_load(T, a) + Cardinality(R) <= rows[a].capacity
    PROVE  CapacityHeld(T, U, rows)
<1> SUFFICES ASSUME NEW b \in Agents
             PROVE  \/ LoadSet(U, b) \subseteq LoadSet(T, b)
                    \/ active_agent_load(U, b) <= rows[b].capacity
  BY DEF CapacityHeld
<1>1. \A r \in Requests :
            /\ U.req[r].conv = T.req[r].conv
            /\ r \in R => U.req[r].status = "accepted" /\ U.req[r].agent = a
            /\ r \notin R => U.req[r] = T.req[r]
  BY DEF Took
<1>2. \A c \in Conversations : U.conv[c].open = T.conv[c].open
  BY DEF Took
<1>3. \A r \in LoadSet(U, b) : r \notin R => r \in LoadSet(T, b)
  <2> SUFFICES ASSUME NEW r \in LoadSet(U, b), r \notin R PROVE r \in LoadSet(T, b)
    OBVIOUS
  <2>1. r \in Requests /\ U.req[r].status = "accepted" /\ U.req[r].agent = b /\ U.conv[U.req[r].conv].open
    BY DEF LoadSet
  <2>2. U.req[r] = T.req[r]
    BY <1>1, <2>1
  <2>3. T.req[r].conv \in Conversations
    BY <2>1, <2>2 DEF RowsOK
  <2>4. QED
    BY <1>2, <2>1, <2>2, <2>3 DEF LoadSet
<1>4. CASE b # a \/ R = {}
  <2>1. \A r \in LoadSet(U, b) : r \notin R
    BY <1>1, <1>4 DEF LoadSet
  <2>2. QED
    BY <1>3, <2>1
<1>5. CASE b = a /\ R # {}
  <2>1. LoadSet(U, a) \in SUBSET (LoadSet(T, a) \cup R)
    BY <1>3, <1>5
  <2>2. IsFiniteSet(R) /\ IsFiniteSet(LoadSet(T, a))
    BY LoadIsFinite, FS_Subset
  <2>3. /\ IsFiniteSet(LoadSet(T, a) \cup R)
        /\ Cardinality(LoadSet(T, a) \cup R)
             = Cardinality(LoadSet(T, a)) + Cardinality(R) - Cardinality(LoadSet(T, a) \cap R)
    BY <2>2, FS_Union
  <2>4. Cardinality(LoadSet(T, a) \cap R) \in Nat
    BY <2>2, FS_Intersection, FS_CardinalityType
  <2>5. Cardinality(LoadSet(U, a)) <= Cardinality(LoadSet(T, a) \cup R)
    BY <2>1, <2>3, FS_Subset
  <2>6. /\ active_agent_load(T, a) = Cardinality(LoadSet(T, a)) /\ active_agent_load(T, a) \in Nat
        /\ active_agent_load(U, a) = Cardinality(LoadSet(U, a)) /\ active_agent_load(U, a) \in Nat
    BY LoadIsFinite
  <2>7. Cardinality(R) \in Nat
    BY <2>2, FS_CardinalityType
  <2>8. rows[a].capacity \in Nat
    BY RoutingAssumption DEF State
  <2>9. active_agent_load(U, a) <= rows[a].capacity
    BY <1>5, <2>3, <2>4, <2>5, <2>6, <2>7, <2>8
  <2>10. QED
    BY <1>5, <2>9
<1>6. QED
  BY <1>4, <1>5

\* A nonempty set of requests has a last one.
LEMMA LastRequest ==
    ASSUME NEW S \in SUBSET Requests, S # {}
    PROVE  \E m \in S : \A s \in S : s <= m
<1> DEFINE D == {MaxRequests - s : s \in S}
<1>1. MaxRequests \in Nat /\ \A s \in S : s \in Nat /\ s <= MaxRequests
  BY RoutingAssumption DEF Requests
<1>2. D \in SUBSET Nat /\ D # {}
  BY <1>1
<1> DEFINE Less == OpToRel(<, Nat)
<1>3. \E n \in D : \A k \in D : ~(<<k, n>> \in Less)
  <2> HIDE DEF D
  <2> QED
    BY <1>2, NatLessThanWellFounded, WFMin
<1>4. \A n, k \in Nat : <<k, n>> \in Less <=> k < n
  BY DEF OpToRel
<1>5. \E n \in D : \A k \in D : n <= k
  <2> HIDE DEF Less, D
  <2>1. PICK n \in D : \A k \in D : ~(<<k, n>> \in Less)
    BY <1>3
  <2>2. \A k \in D : k \in Nat /\ n \in Nat /\ ~(k < n)
    BY <1>2, <1>4, <2>1
  <2>3. QED
    BY <2>2
<1>6. PICK m \in S : \A k \in D : MaxRequests - m <= k
  BY <1>5
<1>7. \A s \in S : s <= m
  <2> TAKE s \in S
  <2>1. MaxRequests - m <= MaxRequests - s
    BY <1>6
  <2>2. s \in Nat /\ m \in Nat /\ MaxRequests \in Nat
    BY <1>1
  <2>3. QED
    BY <2>1, <2>2
<1>8. QED
  BY <1>7

\* The requests a refill takes fit into the room the agent has.
LEMMA ReachedFits ==
    ASSUME NEW T \in TablesType, NEW a \in Agents, NEW R \in SUBSET Requests, NEW E \in SUBSET Requests,
           Reached(T, R, E, a) \cap E # {}
    PROVE  active_agent_load(T, a) + Cardinality(Reached(T, R, E, a) \cap E) <= T.agent[a].capacity
<1> DEFINE S == Reached(T, R, E, a) \cap E
<1>1. S \in SUBSET Requests
  OBVIOUS
<1>2. PICK m \in S : \A s \in S : s <= m
  BY <1>1, LastRequest
<1> DEFINE B == {s \in E : s < m}
<1>3. S \in SUBSET (B \cup {m})
  <2>1. \A s \in S : s \in Nat /\ m \in Nat /\ s <= m /\ s \in E
    BY <1>1, <1>2, RoutingAssumption DEF Requests
  <2> HIDE DEF S
  <2>2. \A s \in S : s # m => s \in B
    BY <2>1
  <2>3. QED
    BY <2>2
<1>4. active_agent_load(T, a) + Cardinality(B) < T.agent[a].capacity
  BY <1>2 DEF Reached
<1>5. IsFiniteSet(B)
  <2>1. B \in SUBSET Requests
    OBVIOUS
  <2>2. QED
    BY <2>1, LoadIsFinite, FS_Subset
<1>6. IsFiniteSet(B \cup {m}) /\ Cardinality(B \cup {m}) <= Cardinality(B) + 1
  <2> HIDE DEF B
  <2>1. Cardinality(B) \in Nat
    BY <1>5, FS_CardinalityType
  <2>2. /\ IsFiniteSet(B \cup {m})
        /\ Cardinality(B \cup {m}) = IF m \in B THEN Cardinality(B) ELSE Cardinality(B) + 1
    BY <1>5, FS_AddElement
  <2>3. QED
    BY <2>1, <2>2
<1>7. IsFiniteSet(S) /\ Cardinality(S) <= Cardinality(B \cup {m})
  BY <1>3, <1>6, FS_Subset
<1>8. active_agent_load(T, a) \in Nat /\ T.agent[a].capacity \in Nat
  BY LoadIsFinite, RoutingAssumption DEF TablesType, State
<1>9. Cardinality(S) \in Nat /\ Cardinality(B) \in Nat /\ Cardinality(B \cup {m}) \in Nat
  BY <1>5, <1>6, <1>7, FS_CardinalityType
<1> HIDE DEF B, S
<1>10. active_agent_load(T, a) + Cardinality(S) <= T.agent[a].capacity
  BY <1>4, <1>6, <1>7, <1>8, <1>9
<1>11. QED
  BY <1>10 DEF S

-----------------------------------------------------------------------------
(* Assignments and refills *)

\* A transaction that gives waiting requests to an agent, and one that gives it
\* no more than it has room for.
Gives(T, R, a, U) ==
    /\ Took(T, R, a, U) /\ Shown(T, R, a, U)
    /\ \A r \in R : T.req[r].status = "requested"

Assigns(T, R, a, U) ==
    /\ Gives(T, R, a, U)
    /\ R # {} => active_agent_load(T, a) + Cardinality(R) <= T.agent[a].capacity

\* What a transaction leaves behind.
Sound(T, U) == TablesOK(U) /\ Evolves(T, U) /\ OwnedKept(T, U)
StepOK(T, U) == Sound(T, U) /\ CapacityKept(T, U)

\* The effect of giving, and that it makes or hides no duplicate.
LEMMA GivesOK ==
    ASSUME NEW T \in TablesType, NEW R \in SUBSET Requests, NEW a \in Agents, NEW U \in TablesType,
           Gives(T, R, a, U)
    PROVE  /\ TablesOK(T) => Sound(T, U)
           /\ Unique(U) => Unique(T)
           /\ (\A r \in R : HasTicket(T, r) => U.plan[r].status = "assigned") => Planned(T, U)
<1>1. \A r \in Requests :
            /\ U.req[r].conv = T.req[r].conv
            /\ r \in R => U.req[r].status = "accepted" /\ T.req[r].status = "requested"
            /\ r \notin R => U.req[r] = T.req[r]
  BY DEF Took, Gives
<1>2. Unique(U) <=> Unique(T)
  <2>1. \A r \in Requests : T.req[r].status \in Open <=> U.req[r].status \in Open
    BY <1>1 DEF Open
  <2>2. QED
    BY <1>1, <2>1 DEF Unique
<1>3. TablesOK(T) => Sound(T, U)
  <2> SUFFICES ASSUME TablesOK(T) PROVE Sound(T, U)
    OBVIOUS
  <2>1. \A r \in R : T.req[r].status # "absent"
    BY <1>1
  <2>2. TablesOK(U) /\ Evolves(T, U)
    BY <1>2, <2>1, TookOK DEF Gives, TablesOK
  <2>3. OwnedKept(T, U)
    BY TookOwned DEF Gives
  <2>4. QED
    BY <2>2, <2>3 DEF Sound
<1>4. (\A r \in R : HasTicket(T, r) => U.plan[r].status = "assigned") => Planned(T, U)
  BY <1>1 DEF Planned, HasTicket
<1>5. QED
  BY <1>2, <1>3, <1>4

\* The effect of an assignment.
LEMMA AssignsOK ==
    ASSUME NEW T \in TablesType, NEW R \in SUBSET Requests, NEW a \in Agents, NEW U \in TablesType,
           Assigns(T, R, a, U)
    PROVE  /\ TablesOK(T) => StepOK(T, U)
           /\ Unique(U) => Unique(T)
           /\ (\A r \in R : HasTicket(T, r) => U.plan[r].status = "assigned") => Planned(T, U)
<1>1. Gives(T, R, a, U)
  BY DEF Assigns
<1>2. ASSUME TablesOK(T) PROVE StepOK(T, U)
  <2>1. U.agent = T.agent /\ T.agent \in [Agents -> State]
    BY <1>1 DEF Gives, Took, TablesType
  <2>2. CapacityHeld(T, U, T.agent)
    BY <1>1, <1>2, <2>1, TookCapacity DEF Assigns, Gives, TablesOK
  <2>3. QED
    BY <1>1, <1>2, <2>1, <2>2, GivesOK DEF StepOK, CapacityKept
<1>3. QED
  BY <1>1, <1>2, GivesOK

\* Only the requests, the conversations and the agents matter for what was taken.
LEMMA TookSame ==
    ASSUME NEW W, NEW V, NEW T, NEW U, NEW R, NEW a, Took(W, R, a, V),
           T.req = W.req, T.conv = W.conv, T.agent = W.agent,
           U.req = V.req, U.conv = V.conv, U.agent = V.agent
    PROVE  Took(T, R, a, U) /\ (Shown(W, R, a, V) => Shown(T, R, a, U))
<1>1. U.agent = T.agent
  BY Zenon DEF Took
<1>2. ASSUME NEW r \in Requests
      PROVE  /\ U.req[r].conv = T.req[r].conv
             /\ r \in R => U.req[r].status = "accepted" /\ U.req[r].agent = a
             /\ r \notin R => U.req[r] = T.req[r]
  BY SMT DEF Took
<1>3. ASSUME NEW c \in Conversations
      PROVE  /\ U.conv[c].open = T.conv[c].open
             /\ (\E r \in R : T.req[r].conv = c) =>
                   \/ U.conv[c].current = T.conv[c].current
                   \/ \E r \in R : T.req[r].conv = c /\ U.conv[c].current = r
             /\ ~(\E r \in R : T.req[r].conv = c) => U.conv[c] = T.conv[c]
  BY SMT DEF Took
<1>4. Shown(W, R, a, V) => Shown(T, R, a, U)
  BY Zenon DEF Shown
<1>5. QED
  BY <1>1, <1>2, <1>3, <1>4, Zenon DEF Took

\* An empty assignment.
LEMMA AssignsNothing ==
    ASSUME NEW T, NEW a
    PROVE  Assigns(T, {}, a, T)
BY SMT DEF Assigns, Gives, Took, Shown

\* One request goes to an agent, with its plan, if the agent has room by the rows
\* that are looked at.
LEMMA GiveOne ==
    ASSUME NEW T \in TablesType, NEW r \in Requests, NEW a \in Agents,
           NEW rows \in [Agents -> State],
           T.req[r].status = "requested", active_agent_load(T, a) < rows[a].capacity
    PROVE  LET U == PlanAssigned(TakeFresh(T, {r}, a), {r}, a) IN
           /\ U \in TablesType /\ U.agent = T.agent
           /\ TablesOK(T) => Sound(T, U) /\ CapacityHeld(T, U, rows) /\ Planned(T, U)
<1> DEFINE V == TakeFresh(T, {r}, a)
           U == PlanAssigned(V, {r}, a)
<1>1. V \in TablesType /\ Took(T, {r}, a, V) /\ Shown(T, {r}, a, V)
  BY TakeFreshEffect
<1> HIDE DEF V
<1>2. /\ U \in TablesType /\ U.req = V.req /\ U.conv = V.conv /\ U.agent = V.agent
      /\ HasTicket(V, r) => U.plan[r].status = "assigned"
  BY <1>1, PlanAssignedEffect
<1> HIDE DEF U
<1>3. Took(T, {r}, a, U) /\ Shown(T, {r}, a, U)
  BY <1>1, <1>2, TookSame
<1>4. active_agent_load(T, a) + Cardinality({r}) <= rows[a].capacity
  <2>1. active_agent_load(T, a) \in Nat /\ rows[a].capacity \in Nat
    BY LoadIsFinite, RoutingAssumption DEF State
  <2>2. Cardinality({r}) = 1
    BY FS_Singleton
  <2>3. QED
    BY <2>1, <2>2
<1>5. Gives(T, {r}, a, U)
  BY <1>3 DEF Gives
<1>6. HasTicket(T, r) => HasTicket(V, r)
  BY <1>1 DEF Took, HasTicket
<1>7. {r} \in SUBSET Requests
  OBVIOUS
<1>8. ASSUME TablesOK(T) PROVE Sound(T, U) /\ CapacityHeld(T, U, rows) /\ Planned(T, U)
  <2>1. Sound(T, U) /\ Planned(T, U)
    BY <1>2, <1>5, <1>6, <1>7, <1>8, GivesOK
  <2>2. CapacityHeld(T, U, rows)
    BY <1>2, <1>3, <1>4, <1>7, <1>8, TookCapacity DEF TablesOK
  <2>3. QED
    BY <2>1, <2>2
<1>9. U.agent = T.agent
  BY <1>3 DEF Took
<1>10. QED
  BY <1>2, <1>8, <1>9, Zenon DEF U, V

\* The same with the rows of the table: the agent has room.
LEMMA AssignOne ==
    ASSUME NEW T \in TablesType, NEW r \in Requests, NEW a \in Agents,
           T.req[r].status = "requested", HasRoom(T, a)
    PROVE  LET U == PlanAssigned(TakeFresh(T, {r}, a), {r}, a) IN
           /\ U \in TablesType
           /\ TablesOK(T) => StepOK(T, U) /\ Planned(T, U)
<1> DEFINE U == PlanAssigned(TakeFresh(T, {r}, a), {r}, a)
<1>1. T.agent \in [Agents -> State] /\ active_agent_load(T, a) < T.agent[a].capacity
  BY DEF HasRoom, TablesType
<1>2. /\ U \in TablesType /\ U.agent = T.agent
      /\ TablesOK(T) => Sound(T, U) /\ CapacityHeld(T, U, T.agent) /\ Planned(T, U)
  BY <1>1, GiveOne, Zenon
<1> HIDE DEF U
<1>3. TablesOK(T) => StepOK(T, U) /\ Planned(T, U)
  BY <1>2 DEF StepOK, CapacityKept
<1>4. QED
  BY <1>2, <1>3, Zenon DEF U

\* The refill of an agent by agent_routing_service.
LEMMA FillAssigns ==
    ASSUME NEW T \in TablesType, NEW a \in Agents
    PROVE  /\ fill_agent_capacity(T, a) \in TablesType
           /\ \E R \in SUBSET Requests :
                 /\ Assigns(T, R, a, fill_agent_capacity(T, a))
                 /\ \A r \in R : HasTicket(T, r) => fill_agent_capacity(T, a).plan[r].status = "assigned"
<1> DEFINE reached == Reached(T, Offered(T, a), Eligible(T, a), a)
           R == reached \cap Eligible(T, a)
           P == [r \in Requests |-> IF r \in reached THEN Activated(T, r) ELSE T.plan[r]]
           W == [T EXCEPT !.plan = P]
           V == TakeFresh(W, R, a)
           U == PlanAssigned(V, R, a)
<1>1. CASE ~Present(T, a)
  <2>1. fill_agent_capacity(T, a) = T
    BY <1>1, Zenon DEF fill_agent_capacity
  <2>2. Assigns(T, {}, a, T)
    BY AssignsNothing
  <2>3. /\ {} \in SUBSET Requests
        /\ \A r \in {} : HasTicket(T, r) => T.plan[r].status = "assigned"
    OBVIOUS
  <2>4. QED
    BY <2>1, <2>2, <2>3, Zenon
<1>2. CASE Present(T, a)
  <2>1. fill_agent_capacity(T, a) = U
    BY <1>2, Zenon DEF fill_agent_capacity
  <2>2. W \in TablesType /\ W.req = T.req /\ W.conv = T.conv /\ W.agent = T.agent
    <3>1. P \in [Requests -> Plan]
      <4>1. \A r \in Requests : T.plan[r] \in Plan /\ Activated(T, r) \in Plan
        BY ActivatedType DEF TablesType
      <4>2. QED
        BY <4>1, Zenon
    <3> HIDE DEF P
    <3>2. W = [req |-> T.req, conv |-> T.conv, plan |-> P, agent |-> T.agent]
      BY DEF TablesType
    <3>3. QED
      BY <3>1, <3>2 DEF TablesType
  <2>3. R \in SUBSET Requests /\ \A r \in R : T.req[r].status = "requested"
    <3>1. \A r \in Eligible(T, a) : r \in Requests /\ T.req[r].status = "requested"
      BY Zenon DEF Eligible, Offered, Waiting
    <3>2. QED
      BY <3>1, Zenon
  <2>4. Offered(T, a) \in SUBSET Requests /\ Eligible(T, a) \in SUBSET Requests
    BY DEF Offered, Eligible
  <2>5. R # {} => active_agent_load(T, a) + Cardinality(R) <= T.agent[a].capacity
    BY <2>4, ReachedFits
  <2> HIDE DEF R, W
  <2>6. V \in TablesType /\ Took(W, R, a, V) /\ Shown(W, R, a, V)
    BY <2>2, <2>3, TakeFreshEffect
  <2> HIDE DEF V
  <2>7. /\ U \in TablesType /\ U.req = V.req /\ U.conv = V.conv /\ U.agent = V.agent
        /\ \A r \in R : HasTicket(V, r) => U.plan[r].status = "assigned"
    BY <2>3, <2>6, PlanAssignedEffect
  <2> HIDE DEF U
  <2>8. Took(T, R, a, U) /\ Shown(T, R, a, U)
    BY <2>2, <2>6, <2>7, TookSame
  <2>9. \A r \in R : HasTicket(T, r) => HasTicket(V, r)
    BY <2>2, <2>3, <2>6, SMT DEF Took, HasTicket
  <2>10. Assigns(T, R, a, U) /\ \A r \in R : HasTicket(T, r) => U.plan[r].status = "assigned"
    BY <2>3, <2>5, <2>7, <2>8, <2>9 DEF Assigns, Gives
  <2>11. QED
    BY <2>1, <2>3, <2>7, <2>10, Zenon
<1>3. QED
  BY <1>1, <1>2

\* The refill of an agent by agent_routing_primitives.
LEMMA FillUnplannedAssigns ==
    ASSUME NEW T \in TablesType, NEW a \in Agents
    PROVE  /\ fill_unplanned(T, a) \in TablesType
           /\ \E R \in SUBSET Requests : Assigns(T, R, a, fill_unplanned(T, a))
<1> DEFINE E == OfferedUnplanned(T, a)
           R == Reached(T, E, E, a)
<1>1. CASE ~Present(T, a)
  <2>1. fill_unplanned(T, a) = T
    BY <1>1, Zenon DEF fill_unplanned
  <2>2. Assigns(T, {}, a, T)
    BY AssignsNothing
  <2>3. QED
    BY <2>1, <2>2, Zenon
<1>2. CASE Present(T, a)
  <2>1. fill_unplanned(T, a) = TakeFresh(T, R, a)
    BY <1>2, Zenon DEF fill_unplanned
  <2>2. R \in SUBSET Requests /\ \A r \in R : T.req[r].status = "requested"
    <3>1. \A r \in E : r \in Requests /\ T.req[r].status = "requested"
      BY Zenon DEF OfferedUnplanned, Waiting
    <3> HIDE DEF E
    <3>2. \A r \in R : r \in E
      BY Zenon DEF Reached
    <3>3. QED
      BY <3>1, <3>2, Zenon
  <2>3. E \in SUBSET Requests /\ R \cap E = R
    <3>1. \A r \in E : r \in Requests
      BY Zenon DEF OfferedUnplanned
    <3> HIDE DEF E
    <3>2. \A r \in R : r \in E
      BY Zenon DEF Reached
    <3> HIDE DEF R
    <3>3. QED
      BY <3>1, <3>2
  <2>4. R # {} => active_agent_load(T, a) + Cardinality(R) <= T.agent[a].capacity
    <3> HIDE DEF E
    <3> QED
      BY <2>3, ReachedFits
  <2> HIDE DEF R
  <2>5. /\ TakeFresh(T, R, a) \in TablesType
        /\ Took(T, R, a, TakeFresh(T, R, a)) /\ Shown(T, R, a, TakeFresh(T, R, a))
    BY <2>2, TakeFreshEffect
  <2>6. Assigns(T, R, a, TakeFresh(T, R, a))
    BY <2>2, <2>4, <2>5, Zenon DEF Assigns, Gives
  <2>7. QED
    BY <2>1, <2>2, <2>5, <2>6, Zenon
<1>3. QED
  BY <1>1, <1>2

-----------------------------------------------------------------------------
(* Transactions that give nobody a request, alone and before a refill *)

\* Requests change hands only to end or to wait again, and a conversation they
\* belong to names no agent after that.
GivesBack(T, U) ==
    /\ \A r \in Requests :
          /\ U.req[r].conv = T.req[r].conv
          /\ \/ U.req[r].status = T.req[r].status /\ U.req[r].agent = T.req[r].agent
             \/ /\ T.req[r].status # "absent"
                /\ U.req[r].status \in {"requested", "resumed_ai", "closed"}
                /\ U.req[r].status = "requested" => U.req[r].agent = None
    /\ \A c \in Conversations :
          /\ U.conv[c].open => T.conv[c].open
          /\ \/ /\ U.conv[c] = T.conv[c]
                /\ \A r \in Requests : T.req[r].conv = c =>
                      U.req[r].status = T.req[r].status /\ U.req[r].agent = T.req[r].agent
             \/ /\ U.conv[c].current \in {0, T.conv[c].current} \/ IsOf(T, U.conv[c].current, c)
                /\ U.conv[c].open => U.conv[c].handoff # "accepted"
    /\ Unique(U)

\* Such a transaction keeps the tables good.
LEMMA GivesBackOK ==
    ASSUME NEW T \in TablesType, NEW U \in TablesType, TablesOK(T), GivesBack(T, U)
    PROVE  TablesOK(U) /\ Evolves(T, U) /\ Quiet(T, U)
<1>1. RowsOK(U)
  BY DEF GivesBack, TablesOK, RowsOK
<1>2. Evolves(T, U)
  BY DEF GivesBack, Evolves
<1>3. OwnedKept(T, U)
  <2> SUFFICES ASSUME NEW c \in Conversations, RowOwned(T, c) PROVE RowOwned(U, c)
    BY DEF OwnedKept
  <2>1. CASE /\ U.conv[c] = T.conv[c]
             /\ \A r \in Requests : T.req[r].conv = c =>
                   U.req[r].status = T.req[r].status /\ U.req[r].agent = T.req[r].agent
    <3>1. \A r \in Requests : U.req[r].conv = T.req[r].conv
      BY DEF GivesBack
    <3>2. QED
      BY <2>1, <3>1 DEF RowOwned
  <2>2. CASE U.conv[c].open => U.conv[c].handoff # "accepted"
    BY <2>2 DEF RowOwned
  <2>3. QED
    BY <2>1, <2>2 DEF GivesBack
<1>4. Quiet(T, U)
  BY <1>3 DEF GivesBack, Quiet
<1>5. \A c \in Conversations : SnapshotOK(U, c)
  <2> TAKE c \in Conversations
  <2>1. SnapshotOK(T, c)
    BY DEF TablesOK
  <2>2. T.conv[c].current \in {0} \cup Requests /\ U.conv[c].current \in {0} \cup Requests
    BY DEF TablesType, Conversation
  <2>3. T.conv[c].current # 0 => IsOf(U, T.conv[c].current, c)
    BY <1>2, <2>1, <2>2 DEF SnapshotOK, IsOf, Evolves
  <2>4. CASE U.conv[c] = T.conv[c]
    BY <2>3, <2>4 DEF SnapshotOK
  <2>5. CASE U.conv[c].current \in {0, T.conv[c].current} \/ IsOf(T, U.conv[c].current, c)
    <3>1. U.conv[c].current # 0 => IsOf(U, U.conv[c].current, c)
      BY <1>2, <2>2, <2>3, <2>5 DEF IsOf, Evolves
    <3>2. QED
      BY <3>1 DEF SnapshotOK
  <2>6. QED
    BY <2>4, <2>5 DEF GivesBack
<1>6. QED
  BY <1>1, <1>2, <1>4, <1>5 DEF GivesBack, TablesOK

\* Nobody got a request: the action properties have nothing to say.
LEMMA QuietStep ==
    ASSUME NEW T, NEW U, TablesOK(T), TablesOK(U), Evolves(T, U), Quiet(T, U)
    PROVE  StepOK(T, U) /\ Planned(T, U)
<1>1. CapacityKept(T, U)
  BY QuietLoad DEF CapacityKept, CapacityHeld, TablesOK
<1>2. Planned(T, U)
  BY DEF Planned, Quiet
<1>3. QED
  BY <1>1, <1>2 DEF StepOK, Sound, Quiet

\* The same transaction may then assign.
LEMMA QuietThenStep ==
    ASSUME NEW T, NEW V, NEW U, TablesOK(T), Evolves(T, V), Quiet(T, V)
    PROVE  /\ StepOK(V, U) => StepOK(T, U)
           /\ Sound(V, U) => Sound(T, U)
           /\ \A rows : CapacityHeld(V, U, rows) => CapacityHeld(T, U, rows)
           /\ Planned(V, U) => Planned(T, U)
<1>1. Evolves(V, U) => Evolves(T, U)
  BY DEF Evolves
<1>2. \A b : LoadSet(V, b) \subseteq LoadSet(T, b)
  BY QuietLoad DEF TablesOK
<1>3. \A rows : CapacityHeld(V, U, rows) => CapacityHeld(T, U, rows)
  BY <1>2 DEF CapacityHeld
<1>4. Planned(V, U) => Planned(T, U)
  BY DEF Planned, Quiet
<1>5. OwnedKept(V, U) => OwnedKept(T, U)
  BY DEF OwnedKept, Quiet
<1>6. QED
  BY <1>1, <1>3, <1>4, <1>5 DEF StepOK, Sound, CapacityKept

\* The refill at the end of a transaction.
LEMMA FillStep ==
    ASSUME NEW T \in TablesType, NEW V \in TablesType, NEW a \in Agents,
           TablesOK(T), TablesOK(V), Evolves(T, V), Quiet(T, V)
    PROVE  /\ fill_agent_capacity(V, a) \in TablesType
           /\ StepOK(T, fill_agent_capacity(V, a)) /\ Planned(T, fill_agent_capacity(V, a))
           /\ fill_unplanned(V, a) \in TablesType
           /\ StepOK(T, fill_unplanned(V, a))
<1>1. fill_agent_capacity(V, a) \in TablesType /\ fill_unplanned(V, a) \in TablesType
  BY FillAssigns, FillUnplannedAssigns
<1>2. PICK R \in SUBSET Requests :
        /\ Assigns(V, R, a, fill_agent_capacity(V, a))
        /\ \A r \in R : HasTicket(V, r) => fill_agent_capacity(V, a).plan[r].status = "assigned"
  BY FillAssigns
<1>3. StepOK(V, fill_agent_capacity(V, a)) /\ Planned(V, fill_agent_capacity(V, a))
  BY <1>1, <1>2, AssignsOK
<1>4. PICK S \in SUBSET Requests : Assigns(V, S, a, fill_unplanned(V, a))
  BY FillUnplannedAssigns
<1>5. StepOK(V, fill_unplanned(V, a))
  BY <1>1, <1>4, AssignsOK
<1>6. QED
  BY <1>1, <1>3, <1>5, QuietThenStep

-----------------------------------------------------------------------------
(* Rows that are written *)

Loaded == [status : {"absent", "resumed_ai", "closed"} \cup Open, agent : Somebody]

\* An update writes the columns that differ from the loaded ones.
LEMMA UpdateRequest ==
    ASSUME NEW row \in Request, NEW l \in Loaded, NEW w \in Loaded
    PROVE  /\ Update(row, l, w) \in Request
           /\ Update(row, l, w).conv = row.conv
           /\ Update(row, l, w).status = IF w.status = l.status THEN row.status ELSE w.status
           /\ Update(row, l, w).agent = IF w.agent = l.agent THEN row.agent ELSE w.agent
BY DEF Update, Request, Loaded

\* The same for the snapshot of a conversation.
LEMMA UpdateConversation ==
    ASSUME NEW row \in Conversation, NEW v \in Conversation, NEW w \in Conversation
    PROVE  /\ Update(row, v, w) \in Conversation
           /\ Update(row, v, w).open = IF w.open = v.open THEN row.open ELSE w.open
           /\ Update(row, v, w).handoff = IF w.handoff = v.handoff THEN row.handoff ELSE w.handoff
           /\ Update(row, v, w).agent = IF w.agent = v.agent THEN row.agent ELSE w.agent
           /\ Update(row, v, w).current = IF w.current = v.current THEN row.current ELSE w.current
BY DEF Update, Conversation

\* The snapshot of a request that waits.
LEMMA SnapshotRow ==
    ASSUME NEW v \in Conversation, NEW r \in Requests
    PROVE  /\ Snapshot(v, r) \in Conversation
           /\ Snapshot(v, r).open = v.open /\ Snapshot(v, r).handoff = "requested"
           /\ Snapshot(v, r).agent = None /\ Snapshot(v, r).current = r
BY Zenon DEF Snapshot, Conversation, Open, Somebody

\* The row of a new request.
LEMMA NewRow ==
    ASSUME NEW c \in Conversations
    PROVE  LET x == [NoRequest EXCEPT !.conv = c, !.status = "requested"] IN
           /\ x \in Request
           /\ x.conv = c /\ x.status = "requested" /\ x.agent = None
BY Zenon DEF NoRequest, Request, Open, Somebody

\* One row of the requests and one of the conversations are replaced.
PutRows(T, r, x, c, y, U) ==
    /\ U.plan = T.plan /\ U.agent = T.agent
    /\ U.req[r] = x /\ \A s \in Requests : s # r => U.req[s] = T.req[s]
    /\ U.conv[c] = y /\ \A d \in Conversations : d # c => U.conv[d] = T.conv[d]

\* It is what the tables do.
LEMMA PutRowsEffect ==
    ASSUME NEW T \in TablesType, NEW r \in Requests, NEW x \in Request,
           NEW c \in Conversations, NEW y \in Conversation
    PROVE  /\ [T EXCEPT !.req[r] = x, !.conv[c] = y] \in TablesType
           /\ PutRows(T, r, x, c, y, [T EXCEPT !.req[r] = x, !.conv[c] = y])
<1> DEFINE F == [T.req EXCEPT ![r] = x]
           G == [T.conv EXCEPT ![c] = y]
           U == [T EXCEPT !.req[r] = x, !.conv[c] = y]
<1>1. U = [T EXCEPT !.req = F, !.conv = G]
  BY Zenon DEF TablesType
<1>2. /\ F \in [Requests -> Request] /\ F[r] = x /\ \A s \in Requests : s # r => F[s] = T.req[s]
      /\ G \in [Conversations -> Conversation] /\ G[c] = y
      /\ \A d \in Conversations : d # c => G[d] = T.conv[d]
  BY DEF TablesType
<1> HIDE DEF F, G, U
<1>3. U = [req |-> F, conv |-> G, plan |-> T.plan, agent |-> T.agent]
  BY <1>1, ReplaceTwo, Zenon
<1>4. U \in TablesType /\ PutRows(T, r, x, c, y, U)
  BY <1>2, <1>3 DEF TablesType, PutRows
<1>5. QED
  BY <1>4 DEF U

\* A single row of the conversations, or of the requests.
LEMMA PutRow ==
    ASSUME NEW T \in TablesType, NEW r \in Requests, NEW x \in Request,
           NEW c \in Conversations, NEW y \in Conversation, NEW p \in Plan
    PROVE  /\ [T EXCEPT !.conv[c] = y] \in TablesType
           /\ PutRows(T, r, T.req[r], c, y, [T EXCEPT !.conv[c] = y])
           /\ [T EXCEPT !.req[r] = x] \in TablesType
           /\ PutRows(T, r, x, c, T.conv[c], [T EXCEPT !.req[r] = x])
           /\ [T EXCEPT !.plan[r] = p] \in TablesType
           /\ [T EXCEPT !.plan[r] = p].req = T.req
           /\ [T EXCEPT !.plan[r] = p].conv = T.conv
           /\ [T EXCEPT !.plan[r] = p].agent = T.agent
<1> DEFINE F == [T.req EXCEPT ![r] = x]
           G == [T.conv EXCEPT ![c] = y]
           P == [T.plan EXCEPT ![r] = p]
<1>1. /\ F \in [Requests -> Request] /\ F[r] = x /\ \A s \in Requests : s # r => F[s] = T.req[s]
      /\ G \in [Conversations -> Conversation] /\ G[c] = y
      /\ \A d \in Conversations : d # c => G[d] = T.conv[d]
      /\ P \in [Requests -> Plan]
  BY DEF TablesType
<1>2. [T EXCEPT !.conv[c] = y] = [req |-> T.req, conv |-> G, plan |-> T.plan, agent |-> T.agent]
  BY DEF TablesType
<1>3. [T EXCEPT !.req[r] = x] = [req |-> F, conv |-> T.conv, plan |-> T.plan, agent |-> T.agent]
  BY DEF TablesType
<1>4. [T EXCEPT !.plan[r] = p] = [req |-> T.req, conv |-> T.conv, plan |-> P, agent |-> T.agent]
  BY DEF TablesType
<1> HIDE DEF F, G, P
<1>5. [T EXCEPT !.conv[c] = y] \in TablesType /\ PutRows(T, r, T.req[r], c, y, [T EXCEPT !.conv[c] = y])
  BY <1>1, <1>2 DEF TablesType, PutRows
<1>6. [T EXCEPT !.req[r] = x] \in TablesType /\ PutRows(T, r, x, c, T.conv[c], [T EXCEPT !.req[r] = x])
  BY <1>1, <1>3 DEF TablesType, PutRows
<1>7. /\ [T EXCEPT !.plan[r] = p] \in TablesType
      /\ [T EXCEPT !.plan[r] = p].req = T.req
      /\ [T EXCEPT !.plan[r] = p].conv = T.conv
      /\ [T EXCEPT !.plan[r] = p].agent = T.agent
  BY <1>1, <1>4 DEF TablesType
<1>8. QED
  BY <1>5, <1>6, <1>7

\* The row of a request that ends or waits again, and of its conversation.
LEMMA PutRowsGivesBack ==
    ASSUME NEW T \in TablesType, NEW U \in TablesType, NEW r \in Requests, NEW c \in Conversations,
           NEW x \in Request, NEW y \in Conversation,
           TablesOK(T), PutRows(T, r, x, c, y, U), IsOf(T, r, c), x.conv = c,
           \/ x.status = T.req[r].status /\ x.agent = T.req[r].agent
           \/ x.status \in {"requested", "resumed_ai", "closed"},
           x.status = "requested" => x.agent = None,
           y.open => T.conv[c].open,
           y.current \in {0, T.conv[c].current} \/ IsOf(T, y.current, c),
           y.open => y.handoff # "accepted",
           x.status = "requested" => Unique(U)
    PROVE  GivesBack(T, U)
<1>1. \A s \in Requests : s # r => U.req[s] = T.req[s]
  BY DEF PutRows
<1>2. U.req[r] = x /\ U.conv[c] = y
  BY DEF PutRows
<1>3. \A d \in Conversations : d # c =>
        /\ U.conv[d] = T.conv[d]
        /\ \A s \in Requests : T.req[s].conv = d => U.req[s] = T.req[s]
  BY <1>1 DEF PutRows, IsOf
<1>4. Unique(U)
  <2>1. CASE x.status = "requested"
    BY <2>1
  <2>2. CASE x.status # "requested"
    <3>1. \A s \in Requests : /\ U.req[s].conv = T.req[s].conv
                              /\ U.req[s].status \in Open => T.req[s].status \in Open
      BY <1>1, <1>2, <2>2 DEF IsOf, Open
    <3>2. QED
      BY <3>1 DEF Unique, TablesOK
  <2>3. QED
    BY <2>1, <2>2
<1>5. \A s \in Requests :
          /\ U.req[s].conv = T.req[s].conv
          /\ \/ U.req[s].status = T.req[s].status /\ U.req[s].agent = T.req[s].agent
             \/ /\ T.req[s].status # "absent"
                /\ U.req[s].status \in {"requested", "resumed_ai", "closed"}
                /\ U.req[s].status = "requested" => U.req[s].agent = None
  BY <1>1, <1>2 DEF IsOf
<1>6. QED
  BY <1>2, <1>3, <1>4, <1>5 DEF GivesBack

\* A new request of a conversation that has no open one.
LEMMA InsertOK ==
    ASSUME NEW T \in TablesType, NEW U \in TablesType, NEW r \in Requests, NEW c \in Conversations,
           NEW x \in Request, NEW y \in Conversation,
           TablesOK(T), PutRows(T, r, x, c, y, U),
           T.req[r].status = "absent",
           \A s \in Requests : ~(T.req[s].conv = c /\ T.req[s].status \in Open),
           x.conv = c, x.status = "requested", x.agent = None,
           y.open = T.conv[c].open,
           y = T.conv[c] \/ (y.handoff = "requested" /\ y.agent = None /\ y.current = r)
    PROVE  TablesOK(U) /\ Evolves(T, U) /\ Quiet(T, U)
<1>1. U.req[r] = x /\ \A s \in Requests : s # r => U.req[s] = T.req[s]
  BY DEF PutRows
<1>2. U.conv[c] = y /\ \A d \in Conversations : d # c => U.conv[d] = T.conv[d]
  BY DEF PutRows
<1>3. RowsOK(U)
  BY <1>1 DEF TablesOK, RowsOK
<1>4. Unique(U)
  BY <1>1 DEF TablesOK, Unique
<1>5. Evolves(T, U)
  BY <1>1, <1>2 DEF Evolves
<1>6. Quiet(T, U)
  <2>1. \A s \in Requests : T.req[s].status = "accepted" => U.req[s] = T.req[s]
    BY <1>1
  <2>2. OwnedKept(T, U)
    BY <1>2, <2>1 DEF OwnedKept, RowOwned
  <2>3. QED
    BY <1>1, <2>2 DEF Quiet
<1>7. ASSUME NEW d \in Conversations PROVE SnapshotOK(U, d)
  <2>1. SnapshotOK(T, d)
    BY DEF TablesOK
  <2>2. T.conv[d].current \in {0} \cup Requests
    BY DEF TablesType, Conversation
  <2>3. T.conv[d].current # 0 => IsOf(U, T.conv[d].current, d)
    BY <1>5, <2>1, <2>2 DEF SnapshotOK, IsOf, Evolves
  <2>4. CASE U.conv[d] = T.conv[d]
    BY <2>3, <2>4 DEF SnapshotOK
  <2>5. CASE d = c /\ y.handoff = "requested" /\ y.agent = None /\ y.current = r
    <3>1. IsOf(U, r, c)
      BY <1>1 DEF IsOf
    <3>2. QED
      BY <1>2, <2>5, <3>1 DEF SnapshotOK
  <2>6. QED
    BY <1>2, <2>4, <2>5
<1>8. QED
  BY <1>3, <1>4, <1>5, <1>6, <1>7 DEF TablesOK

-----------------------------------------------------------------------------
(* The transactions *)

\* What a state gives a transaction to start from.
LEMMA Start ==
    ASSUME HandoffInv
    PROVE  /\ TypeOK /\ Tables \in TablesType /\ TablesOK(Tables)
           /\ Tables.req = req /\ Tables.conv = conv /\ Tables.plan = plan /\ Tables.agent = agent
BY TablesTyped DEF HandoffInv

\* A transaction that writes the plan of one request, or none.
LEMMA PlanStep ==
    ASSUME HandoffInv, NEW r \in Requests, NEW p \in Plan, Commit([Tables EXCEPT !.plan[r] = p])
    PROVE  Tables' \in TablesType /\ StepOK(Tables, Tables') /\ Planned(Tables, Tables')
<1> DEFINE U == [Tables EXCEPT !.plan[r] = p]
<1>1. Tables.plan[r] \in Plan /\ Tables.req[r] \in Request
  BY Start DEF TablesType
<1>2. U \in TablesType /\ U.req = Tables.req /\ U.conv = Tables.conv
  BY Start DEF TablesType
<1> HIDE DEF U
<1>3. TablesOK(U) /\ Evolves(Tables, U) /\ Quiet(Tables, U)
  BY <1>2, Start, SameRows
<1>4. Tables' = U
  BY <1>2, CommitWrites DEF U
<1>5. QED
  BY <1>2, <1>3, <1>4, Start, QuietStep

\* A new row of the requests, with or without the snapshot.
LEMMA InsertedOK ==
    ASSUME HandoffInv, NEW c \in Conversations, NEW r \in Requests, NewRequest(c, r)
    PROVE  /\ Inserted(c, r) \in TablesType /\ TablesOK(Inserted(c, r))
           /\ Evolves(Tables, Inserted(c, r)) /\ Quiet(Tables, Inserted(c, r))
           /\ Inserted(c, r).req[r].status = "requested" /\ Inserted(c, r).agent = agent
<1> DEFINE x == [NoRequest EXCEPT !.conv = c, !.status = "requested"]
           y == Snapshot(conv[c], r)
<1>1. x \in Request /\ x.conv = c /\ x.status = "requested" /\ x.agent = None
  BY NewRow, Zenon
<1>2. conv[c] \in Conversation
  BY Start DEF TypeOK
<1>3. y \in Conversation /\ y.open = conv[c].open /\ y.handoff = "requested" /\ y.agent = None /\ y.current = r
  BY <1>2, SnapshotRow
<1>4. Inserted(c, r) = [Tables EXCEPT !.req[r] = x, !.conv[c] = y]
  BY Start, Zenon DEF Inserted
<1>5. /\ Tables.req[r].status = "absent"
      /\ \A s \in Requests : ~(Tables.req[s].conv = c /\ Tables.req[s].status \in Open)
  BY Start DEF NewRequest, OpenRequest
<1> HIDE DEF x, y
<1>6. Inserted(c, r) \in TablesType /\ PutRows(Tables, r, x, c, y, Inserted(c, r))
  <2> DEFINE U == [Tables EXCEPT !.req[r] = x, !.conv[c] = y]
  <2>1. U \in TablesType /\ PutRows(Tables, r, x, c, y, U)
    BY <1>1, <1>3, Start, PutRowsEffect
  <2>2. QED
    BY <1>4, <2>1, Zenon
<1>7. QED
  BY <1>1, <1>3, <1>5, <1>6, Start, InsertOK DEF PutRows

\* The agents the routing of a request looks at, as loaded.
Rows(c) == IF Unlocked(c) THEN {agent} ELSE route[c]

\* They are agents.
LEMMA RowsTyped ==
    ASSUME HandoffInv, NEW c \in Conversations, NEW rows \in Rows(c)
    PROVE  rows \in [Agents -> State]
<1>1. agent \in [Agents -> State] /\ route[c] \in SUBSET [Agents -> State]
  BY Start DEF TypeOK
<1>2. QED
  BY <1>1 DEF Rows

\* The tool's request, which is assigned at once if an agent is available: by the
\* rows that were loaded.
LEMMA RequestStep ==
    ASSUME HandoffInv, NEW c \in Conversations, request_handoff(c)
    PROVE  /\ Tables' \in TablesType /\ Sound(Tables, Tables') /\ Planned(Tables, Tables')
           /\ \/ CapacityKept(Tables, Tables')
              \/ \E rows \in Rows(c) : agent' = agent /\ CapacityHeld(Tables, Tables', rows)
<1>1. ASSUME NEW r \in Requests, NEW rows \in Rows(c), NewRequest(c, r),
             auto_assign_text_request(Inserted(c, r), r, rows)
      PROVE  /\ Tables' \in TablesType /\ Sound(Tables, Tables') /\ Planned(Tables, Tables')
             /\ \/ CapacityKept(Tables, Tables')
                \/ agent' = agent /\ CapacityHeld(Tables, Tables', rows)
  <2> DEFINE V == Inserted(c, r)
  <2>1. /\ V \in TablesType /\ TablesOK(V) /\ V.req[r].status = "requested"
        /\ V.agent = agent /\ Evolves(Tables, V) /\ Quiet(Tables, V)
    BY <1>1, InsertedOK
  <2>2. auto_assign_text_request(V, r, rows) /\ rows \in [Agents -> State]
    BY <1>1, RowsTyped
  <2> HIDE DEF V
  <2>3. ASSUME NEW a \in Agents, CanAssign([V EXCEPT !.agent = rows], r, a, V.req[r]),
               Commit(PlanAssigned(TakeFresh(V, {r}, a), {r}, a))
        PROVE  /\ Tables' \in TablesType /\ Sound(V, Tables') /\ Planned(V, Tables')
               /\ agent' = agent /\ CapacityHeld(V, Tables', rows)
    <3> DEFINE U == PlanAssigned(TakeFresh(V, {r}, a), {r}, a)
               W == [V EXCEPT !.agent = rows]
    <3>1. W.req = V.req /\ W.conv = V.conv /\ W.agent = rows
      BY <2>1 DEF TablesType
    <3>2. HasRoom(W, a)
      BY <2>3 DEF CanAssign
    <3> HIDE DEF W
    <3>3. active_agent_load(W, a) = active_agent_load(V, a)
      <4>1. LoadSet(W, a) = LoadSet(V, a)
        BY <3>1 DEF LoadSet
      <4>2. /\ active_agent_load(W, a) = Cardinality(LoadSet(W, a))
            /\ active_agent_load(V, a) = Cardinality(LoadSet(V, a))
        BY LoadIsFinite
      <4>3. QED
        BY <4>1, <4>2
    <3>4. active_agent_load(V, a) < rows[a].capacity
      BY <3>1, <3>2, <3>3 DEF HasRoom
    <3>5. /\ U \in TablesType /\ U.agent = V.agent
          /\ Sound(V, U) /\ CapacityHeld(V, U, rows) /\ Planned(V, U)
      BY <2>1, <2>2, <3>4, GiveOne, Zenon
    <3> HIDE DEF U
    <3>6. Tables' = U /\ agent' = U.agent
      BY <2>3, <3>5, CommitWrites DEF U
    <3>7. QED
      BY <2>1, <3>5, <3>6
  <2>4. ASSUME NEW p \in Plan, Commit([V EXCEPT !.plan[r] = p])
        PROVE  Tables' \in TablesType /\ StepOK(V, Tables') /\ Planned(V, Tables')
    <3> DEFINE U == [V EXCEPT !.plan[r] = p]
    <3>1. U \in TablesType /\ U.req = V.req /\ U.conv = V.conv
      BY <2>1 DEF TablesType
    <3> HIDE DEF U
    <3>2. TablesOK(U) /\ Evolves(V, U) /\ Quiet(V, U)
      BY <2>1, <3>1, SameRows
    <3>3. Tables' = U
      BY <2>4, <3>1, CommitWrites DEF U
    <3>4. QED
      BY <2>1, <3>1, <3>2, <3>3, QuietStep
  <2> DEFINE q == Activated(V, r)
             p == IF q.status = "active" THEN schedule_retry_or_exhaust(q) ELSE q
  <2>5. p \in Plan
    BY <2>1, ActivatedType, RetryType
  <2>6. \/ \E a \in Agents : /\ CanAssign([V EXCEPT !.agent = rows], r, a, V.req[r])
                             /\ Commit(PlanAssigned(TakeFresh(V, {r}, a), {r}, a))
        \/ Commit([V EXCEPT !.plan[r] = p])
    BY <2>2, Zenon DEF auto_assign_text_request
  <2> HIDE DEF p
  <2>7. CASE \E a \in Agents : /\ CanAssign([V EXCEPT !.agent = rows], r, a, V.req[r])
                               /\ Commit(PlanAssigned(TakeFresh(V, {r}, a), {r}, a))
    <3>1. /\ Tables' \in TablesType /\ Sound(V, Tables') /\ Planned(V, Tables')
          /\ agent' = agent /\ CapacityHeld(V, Tables', rows)
      BY <2>3, <2>7
    <3>2. QED
      BY <2>1, <3>1, Start, QuietThenStep
  <2>8. CASE Commit([V EXCEPT !.plan[r] = p])
    <3>1. Tables' \in TablesType /\ StepOK(V, Tables') /\ Planned(V, Tables')
      BY <2>4, <2>5, <2>8
    <3>2. StepOK(Tables, Tables') /\ Planned(Tables, Tables')
      BY <2>1, <3>1, Start, QuietThenStep
    <3>3. QED
      BY <3>1, <3>2 DEF StepOK
  <2>9. QED
    BY <2>6, <2>7, <2>8
<1>2. ASSUME NEW r \in Requests, Commit([Tables EXCEPT !.plan[r] = ensure_handoff_routing_plan(Tables, r)])
      PROVE  Tables' \in TablesType /\ StepOK(Tables, Tables') /\ Planned(Tables, Tables')
  <2>1. ensure_handoff_routing_plan(Tables, r) \in Plan
    BY Start, ActivatedType
  <2>2. QED
    BY <1>2, <2>1, PlanStep
<1>3. \/ \E r \in Requests, rows \in Rows(c) :
            NewRequest(c, r) /\ auto_assign_text_request(Inserted(c, r), r, rows)
      \/ \E r \in Requests : Commit([Tables EXCEPT !.plan[r] = ensure_handoff_routing_plan(Tables, r)])
  BY Zenon DEF request_handoff, OpenRequest, Rows
<1>4. QED
  BY <1>1, <1>2, <1>3 DEF StepOK

\* The ticket gets another scenario: only plans are written.
LEMMA ReclassifyStep ==
    ASSUME HandoffInv, NEW c \in Conversations, reclassify_case_scenario(c)
    PROVE  Tables' \in TablesType /\ StepOK(Tables, Tables') /\ Planned(Tables, Tables')
<1>1. req' = req /\ conv' = conv /\ agent' = agent
  BY DEF reclassify_case_scenario
<1>2. plan' \in [Requests -> Plan]
  <2>1. ASSUME NEW r \in Requests
        PROVE  (IF req[r].conv = c /\ plan[r].status # "none"
                THEN [plan[r] EXCEPT !.valid = FALSE] ELSE plan[r]) \in Plan
    <3>1. plan[r] \in Plan
      BY Start DEF TypeOK
    <3>2. QED
      BY <3>1, Zenon DEF Plan
  <2>2. QED
    BY <2>1, Zenon DEF reclassify_case_scenario
<1>3. Tables' \in TablesType /\ Tables'.req = Tables.req /\ Tables'.conv = Tables.conv
  BY <1>1, <1>2, Start DEF TypeOK, Tables, TablesType
<1>4. TablesOK(Tables') /\ Evolves(Tables, Tables') /\ Quiet(Tables, Tables')
  BY <1>3, Start, SameRows
<1>5. QED
  BY <1>3, <1>4, Start, QuietStep

\* The visitor's card, which resets the snapshot of the conversation.
LEMMA RequestWebchatStep ==
    ASSUME HandoffInv, NEW c \in Conversations, request_webchat_handoff(c)
    PROVE  Tables' \in TablesType /\ StepOK(Tables, Tables') /\ Planned(Tables, Tables')
<1>1. ASSUME NEW r \in Requests, NewRequest(c, r), Commit(Inserted(c, r))
      PROVE  Tables' \in TablesType /\ StepOK(Tables, Tables') /\ Planned(Tables, Tables')
  <2>1. /\ Inserted(c, r) \in TablesType /\ TablesOK(Inserted(c, r))
        /\ Evolves(Tables, Inserted(c, r)) /\ Quiet(Tables, Inserted(c, r))
    BY <1>1, InsertedOK
  <2>2. Tables' = Inserted(c, r)
    BY <1>1, <2>1, CommitWrites
  <2>3. QED
    BY <2>1, <2>2, Start, QuietStep
<1>2. ASSUME NEW r \in OpenRequest(c), Commit([Tables EXCEPT !.conv[c] = Snapshot(conv[c], r)])
      PROVE  Tables' \in TablesType /\ StepOK(Tables, Tables') /\ Planned(Tables, Tables')
  <2> DEFINE y == Snapshot(conv[c], r)
             U == [Tables EXCEPT !.conv[c] = y]
  <2>1. r \in Requests /\ req[r].conv = c /\ req[r].status \in Open
    BY <1>2 DEF OpenRequest
  <2>2. conv[c] \in Conversation /\ req[r] \in Request /\ plan[r] \in Plan
    BY <2>1, Start DEF TypeOK
  <2>3. y \in Conversation /\ y.open = conv[c].open /\ y.handoff = "requested" /\ y.agent = None /\ y.current = r
    BY <2>1, <2>2, SnapshotRow
  <2> HIDE DEF y
  <2>4. U \in TablesType /\ PutRows(Tables, r, Tables.req[r], c, y, U)
    BY <2>1, <2>2, <2>3, Start, PutRow
  <2> HIDE DEF U
  <2>5. IsOf(Tables, r, c) /\ Tables.req[r] \in Request
    BY <2>1, <2>2, Start DEF IsOf, Open
  <2>6. Unique(U)
    BY <2>4, Start DEF PutRows, Unique, TablesOK
  <2>7. Tables.req[r].status = "requested" => Tables.req[r].agent = None
    BY <2>1, Start DEF TablesOK, RowsOK
  <2>8. GivesBack(Tables, U)
    BY <2>1, <2>3, <2>4, <2>5, <2>6, <2>7, Start, PutRowsGivesBack DEF IsOf
  <2>9. TablesOK(U) /\ Evolves(Tables, U) /\ Quiet(Tables, U)
    BY <2>4, <2>8, Start, GivesBackOK
  <2>10. Tables' = U
    BY <1>2, <2>4, CommitWrites DEF U, y
  <2>11. QED
    BY <2>4, <2>9, <2>10, Start, QuietStep
<1>3. \/ \E r \in Requests : NewRequest(c, r) /\ Commit(Inserted(c, r))
      \/ \E r \in OpenRequest(c) : Commit([Tables EXCEPT !.conv[c] = Snapshot(conv[c], r)])
  BY Start, Zenon DEF request_webchat_handoff
<1>4. QED
  BY <1>1, <1>2, <1>3

\* An agent declines: no column that matters here.
LEMMA DeclineStep ==
    ASSUME HandoffInv, NEW a \in Agents, decline_handoff_request(a)
    PROVE  Tables' \in TablesType /\ StepOK(Tables, Tables') /\ Planned(Tables, Tables')
<1>1. PICK r \in Requests : req' = [req EXCEPT ![r].declined = req[r].declined \cup {a}]
  BY Zenon DEF decline_handoff_request
<1>2. /\ req' \in [Requests -> Request]
      /\ \A s \in Requests : /\ req'[s].conv = req[s].conv
                             /\ req'[s].status = req[s].status /\ req'[s].agent = req[s].agent
  <2>1. req \in [Requests -> Request]
    BY Start DEF TypeOK
  <2>2. QED
    BY <1>1, <2>1 DEF Request
<1>3. conv' = conv /\ plan' = plan /\ agent' = agent
  BY DEF decline_handoff_request
<1>4. /\ Tables' \in TablesType
      /\ Tables'.conv = Tables.conv
      /\ \A s \in Requests : /\ Tables'.req[s].conv = Tables.req[s].conv
                             /\ Tables'.req[s].status = Tables.req[s].status
                             /\ Tables'.req[s].agent = Tables.req[s].agent
  BY <1>2, <1>3, Start DEF TypeOK, Tables, TablesType
<1>5. GivesBack(Tables, Tables')
  <2>1. Unique(Tables')
    BY <1>4, Start DEF TablesOK, Unique
  <2>2. QED
    BY <1>4, <2>1 DEF GivesBack
<1>6. TablesOK(Tables') /\ Evolves(Tables, Tables') /\ Quiet(Tables, Tables')
  BY <1>4, <1>5, Start, GivesBackOK
<1>7. QED
  BY <1>4, <1>6, Start, QuietStep

\* The message of a visitor whose request has waited too long, as it was loaded.
LEMMA ResumeStaleStep ==
    ASSUME HandoffInv, NEW c \in Conversations, resume_stale_requested_handoff(c)
    PROVE  Tables' \in TablesType /\ StepOK(Tables, Tables') /\ Planned(Tables, Tables')
<1> DEFINE v == visit[c]
           w == [v.loaded EXCEPT !.status = "resumed_ai"]
           y == [NoHandoff EXCEPT !.open = v.snapshot.open]
<1>1. /\ c \in Ticketed /\ v.snapshot.handoff = "requested" /\ v.snapshot.agent = None
      /\ v.req # 0 => IsOf(Tables, v.req, c) /\ v.loaded.status = "requested" /\ v.loaded.agent = None
  BY DEF HandoffInv, VisitOK, resume_stale_requested_handoff
<1>2. /\ v.req \in {0} \cup Requests /\ v.loaded \in Loaded /\ v.snapshot \in Conversation
  <2>1. v \in Call
    BY Start DEF TypeOK
  <2>2. QED
    BY <2>1 DEF Call, Loaded
<1>3. w \in Loaded /\ w.status = "resumed_ai" /\ w.agent = v.loaded.agent
  <2> DEFINE l == v.loaded
  <2>1. l \in Loaded
    BY <1>2
  <2> HIDE DEF l
  <2>2. /\ [l EXCEPT !.status = "resumed_ai"] \in Loaded
        /\ [l EXCEPT !.status = "resumed_ai"].status = "resumed_ai"
        /\ [l EXCEPT !.status = "resumed_ai"].agent = l.agent
    BY <2>1 DEF Loaded
  <2>3. QED
    BY <2>2, Zenon DEF l
<1>4. /\ y \in Conversation /\ y.open = v.snapshot.open /\ y.handoff = "none"
      /\ y.agent = None /\ y.current = 0
  <2>1. v.snapshot.open \in BOOLEAN
    BY <1>2 DEF Conversation
  <2>2. QED
    BY <2>1, Zenon DEF NoHandoff, Conversation, Somebody
<1>5. req \in [Requests -> Request] /\ conv \in [Conversations -> Conversation] /\ conv[c] \in Conversation
  BY Start DEF TypeOK
<1>6. /\ req' = [r \in Requests |-> IF r = v.req THEN Update(req[r], v.loaded, w) ELSE req[r]]
      /\ conv' = [conv EXCEPT ![c] = Update(conv[c], v.snapshot, y)]
      /\ plan' = plan /\ agent' = agent
  BY Zenon DEF resume_stale_requested_handoff
<1> HIDE DEF v, w, y
<1>7. /\ Update(conv[c], v.snapshot, y) \in Conversation
      /\ Update(conv[c], v.snapshot, y).open = conv[c].open
      /\ Update(conv[c], v.snapshot, y).handoff = "none"
      /\ Update(conv[c], v.snapshot, y).current \in {0, conv[c].current}
  BY <1>1, <1>2, <1>4, <1>5, UpdateConversation
<1>8. /\ conv' \in [Conversations -> Conversation]
      /\ conv'[c].open = conv[c].open /\ conv'[c].handoff = "none"
      /\ conv'[c].current \in {0, conv[c].current}
      /\ \A d \in Conversations : d # c => conv'[d] = conv[d]
  BY <1>5, <1>6, <1>7
<1>9. ASSUME NEW r \in Requests
      PROVE  /\ req'[r] \in Request /\ req'[r].conv = req[r].conv
             /\ r # v.req => req'[r] = req[r]
             /\ r = v.req => req'[r].status = "resumed_ai"
  <2>1. r # v.req => req'[r] = req[r]
    BY <1>6
  <2>2. CASE r = v.req
    <3>1. req'[r] = Update(req[r], v.loaded, w)
      BY <1>6, <2>2
    <3>2. v.loaded.status = "requested"
      BY <1>1, <2>2, RoutingAssumption DEF Requests
    <3>3. req[r] \in Request
      BY <1>5
    <3>4. QED
      BY <2>2, <3>1, <3>2, <3>3, <1>2, <1>3, UpdateRequest
  <2>3. QED
    BY <1>5, <2>1, <2>2
<1>10. req' \in [Requests -> Request]
  BY <1>6, <1>9
<1>11. /\ Tables' \in TablesType /\ Tables'.req = req' /\ Tables'.conv = conv'
  BY <1>6, <1>8, <1>10, Start DEF TypeOK, Tables, TablesType
<1>12. GivesBack(Tables, Tables')
  <2>1. v.req \in Requests => IsOf(Tables, v.req, c)
    BY <1>1, RoutingAssumption DEF Requests
  <2>2. \A r \in Requests : /\ Tables'.req[r].status \in Open => Tables'.req[r] = Tables.req[r]
                            /\ Tables'.req[r].conv = Tables.req[r].conv
    BY <1>9, <1>11, Start DEF Open
  <2>3. Unique(Tables')
    BY <2>2, Start DEF TablesOK, Unique
  <2>4. \A r \in Requests :
          /\ Tables'.req[r].conv = Tables.req[r].conv
          /\ \/ Tables'.req[r] = Tables.req[r]
             \/ Tables.req[r].status # "absent" /\ Tables'.req[r].status = "resumed_ai"
    BY <1>9, <1>11, <2>1, Start DEF IsOf
  <2>5. \A d \in Conversations : d # c =>
          \A r \in Requests : Tables.req[r].conv = d => Tables'.req[r] = Tables.req[r]
    BY <1>9, <1>11, <2>1, Start DEF IsOf
  <2>6. QED
    BY <1>1, <1>8, <1>11, <2>3, <2>4, <2>5, Start DEF GivesBack
<1>13. TablesOK(Tables') /\ Evolves(Tables, Tables') /\ Quiet(Tables, Tables')
  BY <1>11, <1>12, Start, GivesBackOK
<1>14. QED
  BY <1>11, <1>13, Start, QuietStep

\* The requests of R are taken back from their agents.
LEMMA ReleaseEffect ==
    ASSUME NEW T \in TablesType, NEW R \in SUBSET Requests, TablesOK(T),
           \A r \in R : T.req[r].status = "accepted"
    PROVE  Release(T, R) \in TablesType /\ GivesBack(T, Release(T, R))
<1> DEFINE F == [r \in Requests |->
                   IF r \in R THEN [T.req[r] EXCEPT !.status = "requested", !.agent = None] ELSE T.req[r]]
           G == [c \in Conversations |->
                   IF \E r \in R : T.req[r].conv = c
                   THEN Snapshot(T.conv[c], CHOOSE r \in R : T.req[r].conv = c) ELSE T.conv[c]]
           P == [r \in Requests |->
                   IF r \in R THEN reopen_routing_plan(T.plan[r], T.req[r].agent) ELSE T.plan[r]]
           U == Release(T, R)
<1>1. U = [T EXCEPT !.req = F, !.conv = G, !.plan = P]
  BY Zenon DEF Release
<1>2. \A r \in Requests :
        /\ F[r] \in Request /\ F[r].conv = T.req[r].conv
        /\ r \in R => F[r].status = "requested" /\ F[r].agent = None
        /\ r \notin R => F[r] = T.req[r]
  <2> TAKE r \in Requests
  <2>1. T.req[r] \in Request
    BY DEF TablesType
  <2>2. QED
    BY <2>1, Zenon DEF Request, Open, Somebody
<1>3. \A c \in Conversations :
        /\ G[c] \in Conversation /\ G[c].open = T.conv[c].open
        /\ (\E r \in R : T.req[r].conv = c) =>
              /\ G[c].handoff = "requested" /\ G[c].agent = None
              /\ \E r \in R : T.req[r].conv = c /\ G[c].current = r
        /\ ~(\E r \in R : T.req[r].conv = c) => G[c] = T.conv[c]
  <2> TAKE c \in Conversations
  <2>1. T.conv[c] \in Conversation
    BY DEF TablesType
  <2>2. CASE \E r \in R : T.req[r].conv = c
    <3> DEFINE m == CHOOSE r \in R : T.req[r].conv = c
    <3>1. m \in R /\ T.req[m].conv = c
      BY <2>2, Zenon
    <3>2. G[c] = Snapshot(T.conv[c], m)
      BY <2>2, Zenon
    <3> HIDE DEF m, G
    <3>3. /\ G[c] \in Conversation /\ G[c].open = T.conv[c].open
          /\ G[c].handoff = "requested" /\ G[c].agent = None /\ G[c].current = m
      BY <2>1, <3>1, <3>2, SnapshotRow
    <3>4. QED
      BY <2>2, <3>1, <3>3, Zenon
  <2>3. CASE ~\E r \in R : T.req[r].conv = c
    <3>1. G[c] = T.conv[c]
      BY <2>3, Zenon
    <3>2. QED
      BY <2>1, <2>3, <3>1, Zenon
  <2>4. QED
    BY <2>2, <2>3
<1>4. P \in [Requests -> Plan]
  <2>1. ASSUME NEW r \in Requests
        PROVE  (IF r \in R THEN reopen_routing_plan(T.plan[r], T.req[r].agent) ELSE T.plan[r]) \in Plan
    <3>1. T.plan[r] \in Plan
      BY DEF TablesType
    <3>2. r \in R => T.req[r].agent \in Agents
      BY DEF TablesOK, RowsOK
    <3>3. QED
      BY <3>1, <3>2, PlanTypes
  <2>2. QED
    BY <2>1, Zenon
<1>5. F \in [Requests -> Request] /\ G \in [Conversations -> Conversation]
  BY <1>2, <1>3, Zenon
<1> HIDE DEF F, G, P, U
<1>6. U = [req |-> F, conv |-> G, plan |-> P, agent |-> T.agent]
  BY <1>1, ReplaceThree, Zenon
<1>7. U \in TablesType /\ U.req = F /\ U.conv = G
  BY <1>4, <1>5, <1>6 DEF TablesType
<1>8. Unique(U)
  <2>1. \A r \in Requests : /\ U.req[r].conv = T.req[r].conv
                            /\ U.req[r].status \in Open => T.req[r].status \in Open
    BY <1>2, <1>7 DEF Open
  <2>2. QED
    BY <2>1 DEF TablesOK, Unique
<1>9. ASSUME NEW c \in Conversations
      PROVE  /\ U.conv[c].open => T.conv[c].open
             /\ \/ /\ U.conv[c] = T.conv[c]
                   /\ \A r \in Requests : T.req[r].conv = c =>
                         U.req[r].status = T.req[r].status /\ U.req[r].agent = T.req[r].agent
                \/ /\ U.conv[c].current \in {0, T.conv[c].current} \/ IsOf(T, U.conv[c].current, c)
                   /\ U.conv[c].open => U.conv[c].handoff # "accepted"
  <2>1. CASE \E r \in R : T.req[r].conv = c
    <3>1. IsOf(T, U.conv[c].current, c)
      BY <1>3, <1>7, <2>1 DEF IsOf
    <3>2. QED
      BY <1>3, <1>7, <2>1, <3>1
  <2>2. CASE ~\E r \in R : T.req[r].conv = c
    BY <1>2, <1>3, <1>7, <2>2
  <2>3. QED
    BY <2>1, <2>2
<1>10. \A r \in Requests :
          /\ U.req[r].conv = T.req[r].conv
          /\ \/ U.req[r].status = T.req[r].status /\ U.req[r].agent = T.req[r].agent
             \/ /\ T.req[r].status # "absent"
                /\ U.req[r].status \in {"requested", "resumed_ai", "closed"}
                /\ U.req[r].status = "requested" => U.req[r].agent = None
  BY <1>2, <1>7
<1>11. GivesBack(T, U)
  BY <1>8, <1>9, <1>10 DEF GivesBack
<1>12. QED
  BY <1>7, <1>11 DEF U

\* The reconciler of the worker.
LEMMA ReconcileStep ==
    ASSUME HandoffInv, NEW r \in Requests, reconcile_stale_text_handoffs(r)
    PROVE  Tables' \in TablesType /\ StepOK(Tables, Tables') /\ Planned(Tables, Tables')
<1> DEFINE U == Release(Tables, {r})
<1>1. Tables.req[r].status = "accepted"
  BY DEF reconcile_stale_text_handoffs, Abandoned
<1>2. U \in TablesType /\ GivesBack(Tables, U)
  BY <1>1, Start, ReleaseEffect
<1> HIDE DEF U
<1>3. Tables' = U
  BY <1>2, CommitWrites DEF U, reconcile_stale_text_handoffs
<1>4. QED
  BY <1>2, <1>3, Start, GivesBackOK, QuietStep

\* A row of the agents is replaced.
LEMMA PutAgent ==
    ASSUME NEW V \in TablesType, NEW a \in Agents, NEW state \in State
    PROVE  /\ [V EXCEPT !.agent[a] = state] \in TablesType
           /\ [V EXCEPT !.agent[a] = state].req = V.req
           /\ [V EXCEPT !.agent[a] = state].conv = V.conv
<1> DEFINE A == [V.agent EXCEPT ![a] = state]
<1>1. A \in [Agents -> State]
  BY DEF TablesType
<1>2. [V EXCEPT !.agent[a] = state] = [req |-> V.req, conv |-> V.conv, plan |-> V.plan, agent |-> A]
  BY DEF TablesType
<1> HIDE DEF A
<1>3. QED
  BY <1>1, <1>2 DEF TablesType

\* The row of an agent is written after the release and before the refill.
LEMMA PresenceStep ==
    ASSUME HandoffInv, NEW a \in Agents, NEW R \in SUBSET AbandonedBy(a), NEW state \in State,
           NEW T, T = [Release(Tables, R) EXCEPT !.agent[a] = state],
           Commit(fill_agent_capacity(T, a))
    PROVE  Tables' \in TablesType /\ StepOK(Tables, Tables') /\ Planned(Tables, Tables')
<1> DEFINE V == Release(Tables, R)
<1>1. R \in SUBSET Requests /\ \A r \in R : Tables.req[r].status = "accepted"
  BY DEF AbandonedBy, Abandoned
<1>2. V \in TablesType /\ GivesBack(Tables, V)
  BY <1>1, Start, ReleaseEffect
<1>3. T = [V EXCEPT !.agent[a] = state]
  OBVIOUS
<1> HIDE DEF V
<1>4. T \in TablesType /\ T.req = V.req /\ T.conv = V.conv
  <2>1. /\ [V EXCEPT !.agent[a] = state] \in TablesType
        /\ [V EXCEPT !.agent[a] = state].req = V.req
        /\ [V EXCEPT !.agent[a] = state].conv = V.conv
    BY <1>2, PutAgent, Zenon
  <2>2. QED
    BY <1>3, <2>1, Zenon
<1>5. TablesOK(V) /\ Evolves(Tables, V) /\ Quiet(Tables, V)
  BY <1>2, Start, GivesBackOK
<1>6. TablesOK(T)
  BY <1>4, <1>5, SameRows
<1>7. Evolves(Tables, T) /\ Quiet(Tables, T)
  BY <1>4, <1>5 DEF Evolves, Quiet, OwnedKept, RowOwned
<1>8. /\ fill_agent_capacity(T, a) \in TablesType
      /\ StepOK(Tables, fill_agent_capacity(T, a)) /\ Planned(Tables, fill_agent_capacity(T, a))
  BY <1>4, <1>6, <1>7, Start, FillStep
<1>9. QED
  BY <1>8, CommitWrites

\* A heartbeat, which takes abandoned requests back and fills the agent.
LEMMA HeartbeatStep ==
    ASSUME HandoffInv, NEW a \in Agents, heartbeat_agent(a)
    PROVE  Tables' \in TablesType /\ StepOK(Tables, Tables') /\ Planned(Tables, Tables')
<1>1. PICK R \in SUBSET AbandonedBy(a) :
        Commit(fill_agent_capacity([Release(Tables, R) EXCEPT !.agent[a].fresh = TRUE], a))
  BY Zenon DEF heartbeat_agent
<1> DEFINE V == Release(Tables, R)
           T == [V EXCEPT !.agent[a].fresh = TRUE]
           state == [V.agent[a] EXCEPT !.fresh = TRUE]
<1>2. R \in SUBSET Requests /\ \A r \in R : Tables.req[r].status = "accepted"
  BY DEF AbandonedBy, Abandoned
<1>3. V \in TablesType
  BY <1>2, Start, ReleaseEffect
<1>4. state \in State
  <2>1. V.agent[a] \in State
    BY <1>3 DEF TablesType
  <2>2. QED
    BY <2>1, Zenon DEF State
<1>5. T = [V EXCEPT !.agent[a] = state]
  BY Zenon
<1>6. Commit(fill_agent_capacity(T, a))
  BY <1>1
<1> HIDE DEF T, state
<1>7. QED
  BY <1>4, <1>5, <1>6, PresenceStep

\* The presence and the capacity of an agent change.
LEMMA ChangeStateStep ==
    ASSUME HandoffInv, NEW a \in Agents, set_agent_state(a) \/ set_operator_agent_capacity(a)
    PROVE  Tables' \in TablesType /\ StepOK(Tables, Tables') /\ Planned(Tables, Tables')
<1>1. ASSUME NEW R \in SUBSET AbandonedBy(a), NEW state \in State, ChangeState(a, R, state)
      PROVE  Tables' \in TablesType /\ StepOK(Tables, Tables') /\ Planned(Tables, Tables')
  <2> DEFINE T == [Release(Tables, R) EXCEPT !.agent[a] = state]
  <2>1. Commit(fill_agent_capacity(T, a))
    BY <1>1, Zenon DEF ChangeState
  <2> HIDE DEF T
  <2>2. T = [Release(Tables, R) EXCEPT !.agent[a] = state]
    BY DEF T
  <2>3. QED
    BY <2>1, <2>2, PresenceStep
<1>2. CASE set_agent_state(a)
  <2>1. PICK R \in SUBSET AbandonedBy(a), online \in BOOLEAN, capacity \in 1..MaxCapacity :
          ChangeState(a, R, [online |-> online, fresh |-> online, capacity |-> capacity])
    BY <1>2, Zenon DEF set_agent_state
  <2>2. [online |-> online, fresh |-> online, capacity |-> capacity] \in State
    BY DEF State
  <2>3. QED
    BY <1>1, <2>1, <2>2
<1>3. CASE set_operator_agent_capacity(a)
  <2>1. PICK R \in SUBSET AbandonedBy(a), capacity \in 1..MaxCapacity :
          ChangeState(a, R, [agent[a] EXCEPT !.capacity = capacity])
    BY <1>3, Zenon DEF set_operator_agent_capacity
  <2>2. agent[a] \in State
    BY Start DEF TypeOK
  <2>3. [agent[a] EXCEPT !.capacity = capacity] \in State
    BY <2>2, Zenon DEF State
  <2>4. QED
    BY <1>1, <2>1, <2>3
<1>4. QED
  BY <1>2, <1>3

\* Time passes for a heartbeat, or for a retry.
LEMMA TimeStep ==
    ASSUME HandoffInv,
           \/ \E a \in Agents : HeartbeatLapses(a)
           \/ \E r \in Requests : RetryFallsDue(r)
    PROVE  Tables' \in TablesType /\ StepOK(Tables, Tables') /\ Planned(Tables, Tables')
<1>1. req' = req /\ conv' = conv
  BY DEF HeartbeatLapses, RetryFallsDue
<1>2. agent' \in [Agents -> State] /\ plan' \in [Requests -> Plan]
  <2>0. agent \in [Agents -> State] /\ plan \in [Requests -> Plan]
    BY Start DEF TypeOK
  <2>1. ASSUME NEW a \in Agents, HeartbeatLapses(a)
        PROVE  agent' \in [Agents -> State] /\ plan' \in [Requests -> Plan]
    BY <2>0, <2>1 DEF HeartbeatLapses, State
  <2>2. ASSUME NEW r \in Requests, RetryFallsDue(r)
        PROVE  agent' \in [Agents -> State] /\ plan' \in [Requests -> Plan]
    BY <2>0, <2>2 DEF RetryFallsDue, Plan
  <2>3. QED
    BY <2>1, <2>2
<1>3. Tables' \in TablesType /\ Tables'.req = Tables.req /\ Tables'.conv = Tables.conv
  BY <1>1, <1>2, Start DEF TypeOK, Tables, TablesType
<1>4. TablesOK(Tables') /\ Evolves(Tables, Tables') /\ Quiet(Tables, Tables')
  BY <1>3, Start, SameRows
<1>5. QED
  BY <1>3, <1>4, Start, QuietStep

\* A supervisor takes a conversation with a ticket.
LEMMA TakeoverStep ==
    ASSUME HandoffInv, NEW a \in Agents, force_takeover_ticket(a)
    PROVE  Tables' \in TablesType /\ StepOK(Tables, Tables') /\ Planned(Tables, Tables')
<1>1. ASSUME NEW c \in Ticketed, NEW r \in Requests, NEW T,
             T = [Tables EXCEPT !.req[r] = [NoRequest EXCEPT !.conv = c, !.status = "requested"]],
             NewRequest(c, r), CanAssign(T, r, a, T.req[r]),
             Commit(PlanAssigned(TakeFresh(T, {r}, a), {r}, a))
      PROVE  Tables' \in TablesType /\ StepOK(Tables, Tables') /\ Planned(Tables, Tables')
  <2> DEFINE x == [NoRequest EXCEPT !.conv = c, !.status = "requested"]
             U == PlanAssigned(TakeFresh(T, {r}, a), {r}, a)
  <2>1. c \in Conversations
    BY RoutingAssumption
  <2>2. x \in Request /\ x.conv = c /\ x.status = "requested" /\ x.agent = None
    BY <2>1, NewRow, Zenon
  <2>3. T = [Tables EXCEPT !.req[r] = x]
    BY <1>1
  <2>4. /\ Tables.req[r].status = "absent"
        /\ \A s \in Requests : ~(Tables.req[s].conv = c /\ Tables.req[s].status \in Open)
    BY <1>1, Start DEF NewRequest, OpenRequest
  <2> HIDE DEF x
  <2>5. Tables.conv[c] \in Conversation /\ Tables.plan[r] \in Plan
    BY <2>1, Start DEF TablesType
  <2>6. T \in TablesType /\ PutRows(Tables, r, x, c, Tables.conv[c], T)
    BY <2>1, <2>2, <2>3, <2>5, Start, PutRow
  <2>7. TablesOK(T) /\ Evolves(Tables, T) /\ Quiet(Tables, T)
    BY <2>1, <2>2, <2>4, <2>5, <2>6, Start, InsertOK
  <2>8. T.req[r].status = "requested" /\ HasRoom(T, a)
    BY <1>1, <2>2, <2>6 DEF PutRows, CanAssign
  <2>9. U \in TablesType /\ StepOK(T, U) /\ Planned(T, U)
    BY <2>6, <2>7, <2>8, AssignOne, Zenon
  <2> HIDE DEF U
  <2>10. Tables' = U
    BY <1>1, <2>9, CommitWrites DEF U
  <2>11. QED
    BY <2>7, <2>9, <2>10, Start, QuietThenStep
<1>2. ASSUME NEW r \in Requests, CanAssign(Tables, r, a, req[r]),
             Commit(PlanAssigned(TakeFresh(Tables, {r}, a), {r}, a))
      PROVE  Tables' \in TablesType /\ StepOK(Tables, Tables') /\ Planned(Tables, Tables')
  <2> DEFINE U == PlanAssigned(TakeFresh(Tables, {r}, a), {r}, a)
  <2>1. Tables.req[r].status = "requested" /\ HasRoom(Tables, a)
    BY <1>2, Start DEF CanAssign
  <2>2. Tables \in TablesType /\ TablesOK(Tables)
    BY Start
  <2>3. U \in TablesType /\ StepOK(Tables, U) /\ Planned(Tables, U)
    BY <2>1, <2>2, AssignOne, Zenon
  <2> HIDE DEF U
  <2>4. Tables' = U
    BY <1>2, <2>3, CommitWrites DEF U
  <2>5. QED
    BY <2>3, <2>4
<1>3. PICK c \in Ticketed :
        \/ \E r \in Requests :
              LET T == [Tables EXCEPT !.req[r] = [NoRequest EXCEPT !.conv = c, !.status = "requested"]]
              IN  /\ NewRequest(c, r) /\ CanAssign(T, r, a, T.req[r])
                  /\ Commit(PlanAssigned(TakeFresh(T, {r}, a), {r}, a))
        \/ \E r \in OpenRequest(c) :
              /\ CanAssign(Tables, r, a, req[r])
              /\ Commit(PlanAssigned(TakeFresh(Tables, {r}, a), {r}, a))
  BY Zenon DEF force_takeover_ticket
<1>4. QED
  <2>1. CASE \E r \in Requests :
              LET T == [Tables EXCEPT !.req[r] = [NoRequest EXCEPT !.conv = c, !.status = "requested"]]
              IN  /\ NewRequest(c, r) /\ CanAssign(T, r, a, T.req[r])
                  /\ Commit(PlanAssigned(TakeFresh(T, {r}, a), {r}, a))
    BY <1>1, <2>1, Zenon
  <2>2. CASE \E r \in OpenRequest(c) :
              /\ CanAssign(Tables, r, a, req[r])
              /\ Commit(PlanAssigned(TakeFresh(Tables, {r}, a), {r}, a))
    BY <1>2, <2>2, Zenon DEF OpenRequest
  <2>3. QED
    BY <1>3, <2>1, <2>2

-----------------------------------------------------------------------------
(* The calls of an operator, which work on rows loaded earlier *)

\* A call that is refused, or whose rows would not be unique, changes nothing.
LEMMA Finished ==
    ASSUME HandoffInv, NEW a \in Agents, NEW kind, NEW allowed, NEW T, Finish(a, kind, allowed, T),
           allowed /\ Unique(T) => T \in TablesType
    PROVE  \/ allowed /\ Unique(T) /\ Tables' = T
           \/ Tables' \in TablesType /\ StepOK(Tables, Tables') /\ Planned(Tables, Tables')
<1>1. CASE allowed /\ Unique(T)
  <2>1. Commit(T)
    BY <1>1 DEF Finish
  <2>2. Tables' = T
    BY <1>1, <2>1, CommitWrites
  <2>3. QED
    BY <1>1, <2>2
<1>2. CASE ~(allowed /\ Unique(T))
  <2>1. UNCHANGED <<req, conv, plan, agent>>
    BY <1>2, Zenon DEF Finish
  <2>2. Tables' = Tables
    BY <2>1 DEF Tables
  <2>3. TablesOK(Tables) /\ Evolves(Tables, Tables) /\ Quiet(Tables, Tables)
    BY Start, SameRows
  <2>4. QED
    BY <2>2, <2>3, Start, QuietStep
<1>3. QED
  BY <1>1, <1>2

\* So it is enough to look at what would be written.
LEMMA FinishStep ==
    ASSUME HandoffInv, NEW a \in Agents, NEW kind, NEW allowed, NEW T, Finish(a, kind, allowed, T),
           allowed /\ Unique(T) =>
               T \in TablesType /\ StepOK(Tables, T) /\ (kind # "close" => Planned(Tables, T))
    PROVE  /\ Tables' \in TablesType /\ StepOK(Tables, Tables')
           /\ kind # "close" => Planned(Tables, Tables')
BY Finished

\* The types of what a call has loaded.
LEMMA CallTypes ==
    ASSUME HandoffInv, NEW a \in Agents
    PROVE  /\ CallOK(Tables, call[a])
           /\ call[a].req \in {0} \cup Requests /\ call[a].conv \in Conversations \cup {None}
           /\ call[a].loaded \in Loaded /\ call[a].snapshot \in Conversation
<1>1. call[a] \in Call
  BY Start DEF TypeOK
<1>2. QED
  BY <1>1 DEF Call, Loaded, HandoffInv

\* The agent accepts a request: it gets it, whatever has become of it since, and
\* may reply, unless it owned the conversation it has loaded.
LEMMA AcceptOne ==
    ASSUME HandoffInv, NEW a \in Agents, NEW kind, NEW v, Accept(a, kind, v),
           \/ kind = "assign" /\ v = call[a].snapshot
           \/ kind = "accept" /\ v = conv[call[a].conv]
    PROVE  /\ Tables' \in TablesType /\ TablesOK(Tables') /\ Evolves(Tables, Tables')
           /\ CapacityKept(Tables, Tables') /\ Planned(Tables, Tables')
           /\ \A d \in Conversations : RowOwned(Tables, d) => RowOwned(Tables', d) \/ AcceptsAgain(a, d)
<1> DEFINE r == call[a].req
           c == call[a].conv
           l == call[a].loaded
           V == TakeRequest(Tables, r, a, l, v)
           U == PlanAssigned(V, {r}, a)
           w == [l EXCEPT !.status = "accepted", !.agent = a]
           z == [v EXCEPT !.current = r, !.agent = a, !.handoff = "accepted", !.suspended = TRUE]
           x == Update(req[r], l, w)
           y == Update(conv[c], v, z)
           allowed == ~Refused(Tables, r) /\ CanAssign(Tables, r, a, l)
<1>1. Finish(a, kind, allowed, U)
  BY Zenon DEF Accept
<1>2. call[a].kind = kind /\ call'[a] = NoCall
  <2>1. call \in [Agents -> Call]
    BY Start DEF TypeOK
  <2>2. QED
    BY <1>1, <2>1, SMT DEF Finish, Return
<1>3. /\ r \in Requests /\ IsOf(Tables, r, c) /\ l \in Loaded
      /\ l.status = "requested" /\ l.agent = None
  BY <1>2, CallTypes, Start DEF CallOK
<1>4. c \in Conversations
  BY <1>3, Start DEF IsOf, TablesOK, RowsOK
<1>5. req[r] \in Request /\ conv[c] \in Conversation /\ v \in Conversation
  BY <1>3, <1>4, CallTypes, Start DEF TypeOK
<1>6. v.agent = a => conv[c].agent = a \/ AcceptsAgain(a, c)
  BY <1>2 DEF AcceptsAgain
<1>7. req[r].conv = c
  BY <1>3, Start DEF IsOf
<1>8. V = [Tables EXCEPT !.req[r] = x, !.conv[c] = y]
  <2>1. Tables.req[r].conv = c /\ Tables.req = req /\ Tables.conv = conv
    BY <1>7, Start
  <2> HIDE DEF r, c, l
  <2>2. QED
    BY <2>1, Zenon DEF TakeRequest
<1> HIDE DEF r, c, l, U, allowed
<1>9. w \in Loaded /\ w.status = "accepted" /\ w.agent = a
  <2>1. l \in Loaded
    BY <1>3
  <2>2. QED
    BY <2>1, Zenon DEF Loaded, Open, Somebody
<1>10. x \in Request /\ x.status = "accepted" /\ x.agent = a /\ x.conv = c
  <2> HIDE DEF w
  <2>1. l.agent # a
    BY <1>3, RoutingAssumption
  <2>2. QED
    BY <1>3, <1>5, <1>7, <1>9, <2>1, UpdateRequest
<1>11. /\ z \in Conversation /\ z.open = v.open /\ z.handoff = "accepted" /\ z.agent = a /\ z.current = r
  <2>1. r \in {0} \cup Requests
    BY <1>3
  <2>2. QED
    BY <1>5, <2>1, Zenon DEF Conversation, Open, Somebody
<1>12. /\ y \in Conversation /\ y.open = conv[c].open /\ y.current \in {r, conv[c].current}
       /\ y.agent = a \/ AcceptsAgain(a, c)
  <2> HIDE DEF z
  <2>1. /\ y \in Conversation /\ y.open = conv[c].open /\ y.current \in {r, conv[c].current}
        /\ y.agent = IF v.agent = a THEN conv[c].agent ELSE a
    BY <1>5, <1>11, UpdateConversation
  <2> HIDE DEF y
  <2>2. QED
    BY <1>6, <2>1
<1> HIDE DEF x, y, V
<1>13. V \in TablesType /\ PutRows(Tables, r, x, c, y, V)
  <2> DEFINE W == [Tables EXCEPT !.req[r] = x, !.conv[c] = y]
  <2>1. W \in TablesType /\ PutRows(Tables, r, x, c, y, W)
    BY <1>3, <1>4, <1>10, <1>12, Start, PutRowsEffect
  <2>2. QED
    BY <1>8, <2>1, Zenon
<1>14. Took(Tables, {r}, a, V)
  <2>1. \A s \in Requests :
          /\ V.req[s].conv = Tables.req[s].conv
          /\ s \in {r} => V.req[s].status = "accepted" /\ V.req[s].agent = a
          /\ s \notin {r} => V.req[s] = Tables.req[s]
    BY <1>3, <1>10, <1>13 DEF PutRows, IsOf
  <2>2. ASSUME NEW d \in Conversations
        PROVE  /\ V.conv[d].open = Tables.conv[d].open
               /\ (\E s \in {r} : Tables.req[s].conv = d) =>
                     \/ V.conv[d].current = Tables.conv[d].current
                     \/ \E s \in {r} : Tables.req[s].conv = d /\ V.conv[d].current = s
               /\ ~(\E s \in {r} : Tables.req[s].conv = d) => V.conv[d] = Tables.conv[d]
    <3>1. CASE d = c
      BY <1>3, <1>12, <1>13, <3>1, Start DEF PutRows, IsOf
    <3>2. CASE d # c
      BY <1>3, <1>13, <3>2 DEF PutRows, IsOf
    <3>3. QED
      BY <3>1, <3>2
  <2>3. V.agent = Tables.agent
    BY <1>13 DEF PutRows
  <2>4. QED
    BY <2>1, <2>2, <2>3, Zenon DEF Took
<1>15. /\ U \in TablesType /\ U.req = V.req /\ U.conv = V.conv /\ U.agent = V.agent
       /\ HasTicket(V, r) => U.plan[r].status = "assigned"
  BY <1>3, <1>13, PlanAssignedEffect DEF U
<1>16. Took(Tables, {r}, a, U)
  BY <1>14, <1>15, TookSame
<1>17. ASSUME NEW d \in Conversations, RowOwned(Tables, d)
       PROVE  RowOwned(U, d) \/ AcceptsAgain(a, d)
  <2>1. U.req[r] = x /\ \A s \in Requests : s # r => U.req[s] = Tables.req[s]
    BY <1>13, <1>15 DEF PutRows
  <2>2. CASE d = c
    <3>1. U.conv[d] = y
      BY <1>13, <1>15, <2>2 DEF PutRows
    <3>2. y.agent = a => RowOwned(U, d)
      BY <1>3, <1>10, <2>1, <2>2, <3>1 DEF RowOwned
    <3>3. QED
      BY <1>12, <2>2, <3>2
  <2>3. CASE d # c
    <3>1. U.conv[d] = Tables.conv[d]
      BY <1>13, <1>15, <2>3 DEF PutRows
    <3>2. \A s \in Requests : Tables.req[s].conv = d => U.req[s] = Tables.req[s]
      BY <1>3, <2>1, <2>3 DEF IsOf
    <3>3. QED
      BY <1>17, <3>1, <3>2 DEF RowOwned
  <2>4. QED
    BY <2>2, <2>3
<1>18. ASSUME allowed, Unique(U)
       PROVE  TablesOK(U) /\ Evolves(Tables, U) /\ CapacityKept(Tables, U) /\ Planned(Tables, U)
  <2>1. TablesOK(U) /\ Evolves(Tables, U)
    <3>1. \A s \in {r} : Tables.req[s].status # "absent"
      BY <1>3 DEF IsOf
    <3>2. QED
      BY <1>3, <1>15, <1>16, <1>18, <3>1, Start, TookOK
  <2>2. active_agent_load(Tables, a) + Cardinality({r}) <= Tables.agent[a].capacity
    <3>1. active_agent_load(Tables, a) \in Nat /\ Tables.agent[a].capacity \in Nat
      BY Start, LoadIsFinite, RoutingAssumption DEF TablesType, State
    <3>2. Cardinality({r}) = 1
      BY FS_Singleton
    <3>3. HasRoom(Tables, a)
      BY <1>18 DEF allowed, CanAssign
    <3>4. QED
      BY <3>1, <3>2, <3>3 DEF HasRoom
  <2>3. CapacityKept(Tables, U)
    <3>1. U.agent = Tables.agent /\ Tables.agent \in [Agents -> State]
      BY <1>16, Start DEF Took, TablesType
    <3>2. CapacityHeld(Tables, U, Tables.agent)
      BY <1>3, <1>15, <1>16, <2>2, <3>1, Start, TookCapacity DEF TablesOK
    <3>3. QED
      BY <3>1, <3>2 DEF CapacityKept
  <2>4. Planned(Tables, U)
    <3>1. U.req[r].conv \in Ticketed => U.plan[r].status = "assigned"
      BY <1>15 DEF HasTicket
    <3>2. \A s \in Requests : s # r => U.req[s] = Tables.req[s]
      BY <1>16 DEF Took
    <3>3. QED
      BY <3>1, <3>2 DEF Planned
  <2>5. QED
    BY <2>1, <2>3, <2>4
<1>19. CASE allowed /\ Unique(U) /\ Tables' = U
  BY <1>15, <1>17, <1>18, <1>19
<1>20. CASE Tables' \in TablesType /\ StepOK(Tables, Tables') /\ Planned(Tables, Tables')
  BY <1>20 DEF StepOK, Sound, OwnedKept
<1>21. QED
  BY <1>1, <1>15, <1>19, <1>20, Finished

\* With the conversation as it was loaded, or as it is.
LEMMA AcceptStep ==
    ASSUME HandoffInv, NEW a \in Agents, accept_handoff_request(a)
    PROVE  /\ Tables' \in TablesType /\ TablesOK(Tables') /\ Evolves(Tables, Tables')
           /\ CapacityKept(Tables, Tables') /\ Planned(Tables, Tables')
           /\ \A d \in Conversations : RowOwned(Tables, d) => RowOwned(Tables', d) \/ AcceptsAgain(a, d)
<1> DEFINE k == call[a].snapshot
           v == conv[call[a].conv]
<1>1. CASE Accept(a, "assign", k)
  <2> HIDE DEF k
  <2>1. k = call[a].snapshot
    BY DEF k
  <2>2. QED
    BY <1>1, <2>1, AcceptOne
<1>2. CASE Accept(a, "accept", v)
  <2> HIDE DEF v
  <2>1. v = conv[call[a].conv]
    BY DEF v
  <2>2. QED
    BY <1>2, <2>1, AcceptOne
<1>3. QED
  BY <1>1, <1>2 DEF accept_handoff_request

\* An agent gives a request up, and without a ticket gets other work.
LEMMA ReleaseStep ==
    ASSUME HandoffInv, NEW a \in Agents, release_handoff_request(a)
    PROVE  Tables' \in TablesType /\ StepOK(Tables, Tables') /\ Planned(Tables, Tables')
<1> DEFINE r == call[a].req
           c == call[a].conv
           l == call[a].loaded
           w == [l EXCEPT !.status = "requested", !.agent = None]
           x == Update(req[r], l, w)
           y == Snapshot(conv[c], r)
           T == [Tables EXCEPT !.req[r] = x, !.conv[c] = y]
           V == [T EXCEPT !.req[r].declined = T.req[r].declined \cup {l.agent}]
           U == IF c \in Ticketed THEN T ELSE fill_agent_capacity(V, l.agent)
           allowed == c \in Ticketed \/ ~Aborts(V, l.agent)
<1>1. Finish(a, "release", allowed, U)
  <2>1. Tables.req = req /\ Tables.conv = conv
    BY Start
  <2>2. QED
    BY <2>1, Zenon DEF release_handoff_request
<1>2. call[a].kind = "release"
  BY <1>1 DEF Finish
<1>3. /\ r \in Requests /\ IsOf(Tables, r, c) /\ l \in Loaded
      /\ l.status = "accepted" /\ l.agent \in Agents
  BY <1>2, CallTypes DEF CallOK
<1>4. c \in Conversations
  BY <1>3, Start DEF IsOf, TablesOK, RowsOK
<1>5. req[r] \in Request /\ conv[c] \in Conversation /\ req[r].conv = c
  BY <1>3, <1>4, Start DEF TypeOK, IsOf
<1> HIDE DEF r, c, l, allowed
<1>6. w \in Loaded /\ w.status = "requested" /\ w.agent = None
  <2>1. l \in Loaded
    BY <1>3
  <2>2. QED
    BY <2>1, Zenon DEF Loaded, Open, Somebody
<1>7. x \in Request /\ x.status = "requested" /\ x.agent = None /\ x.conv = c
  <2> HIDE DEF w
  <2>1. l.agent # None
    BY <1>3, RoutingAssumption
  <2>2. QED
    BY <1>3, <1>5, <1>6, <2>1, UpdateRequest
<1>8. y \in Conversation /\ y.open = conv[c].open /\ y.handoff = "requested" /\ y.agent = None /\ y.current = r
  BY <1>3, <1>5, SnapshotRow
<1> HIDE DEF x, y
<1>9. T \in TablesType /\ PutRows(Tables, r, x, c, y, T)
  BY <1>3, <1>4, <1>7, <1>8, Start, PutRowsEffect
<1>10. \A W \in TablesType, q \in Request :
          /\ PutRows(Tables, r, q, c, y, W) /\ Unique(W)
          /\ q.conv = c /\ q.status = "requested" /\ q.agent = None
          => TablesOK(W) /\ Evolves(Tables, W) /\ Quiet(Tables, W)
  <2> TAKE W \in TablesType, q \in Request
  <2> HAVE /\ PutRows(Tables, r, q, c, y, W) /\ Unique(W)
           /\ q.conv = c /\ q.status = "requested" /\ q.agent = None
  <2>1. y.open => Tables.conv[c].open
    BY <1>8, Start
  <2>2. GivesBack(Tables, W)
    BY <1>3, <1>4, <1>8, <2>1, Start, PutRowsGivesBack
  <2>3. QED
    BY <2>2, Start, GivesBackOK
<1>11. ASSUME c \in Ticketed, Unique(U)
       PROVE  U \in TablesType /\ StepOK(Tables, U) /\ Planned(Tables, U)
  <2>1. U = T
    BY <1>11
  <2> HIDE DEF U, T
  <2>2. TablesOK(T) /\ Evolves(Tables, T) /\ Quiet(Tables, T)
    BY <1>7, <1>9, <1>10, <1>11, <2>1
  <2>3. QED
    BY <1>9, <2>1, <2>2, Start, QuietStep
<1>12. ASSUME c \notin Ticketed, Unique(U)
       PROVE  U \in TablesType /\ StepOK(Tables, U) /\ Planned(Tables, U)
  <2> DEFINE q == [T.req[r] EXCEPT !.declined = @ \cup {l.agent}]
  <2>1. U = fill_agent_capacity(V, l.agent)
    BY <1>12
  <2>2. V = [T EXCEPT !.req[r] = q]
    BY Zenon
  <2> HIDE DEF T, U, V
  <2>3. T.req[r] = x
    BY <1>9 DEF PutRows
  <2>4. q \in Request /\ q.conv = c /\ q.status = "requested" /\ q.agent = None
    <3>1. q = [x EXCEPT !.declined = @ \cup {l.agent}]
      BY <2>3, Zenon
    <3>2. QED
      BY <1>3, <1>7, <3>1, Zenon DEF Request
  <2> HIDE DEF q
  <2>5. T.conv[c] \in Conversation /\ T.plan[r] \in Plan
    BY <1>3, <1>4, <1>9 DEF TablesType
  <2>6. V \in TablesType /\ PutRows(T, r, q, c, T.conv[c], V)
    <3> DEFINE W == [T EXCEPT !.req[r] = q]
    <3>1. W \in TablesType /\ PutRows(T, r, q, c, T.conv[c], W)
      BY <1>3, <1>4, <1>9, <2>4, <2>5, PutRow
    <3>2. QED
      BY <2>2, <3>1, Zenon
  <2>7. PutRows(Tables, r, q, c, y, V)
    BY <1>9, <2>6 DEF PutRows
  <2>8. Unique(V)
    <3>1. PICK R \in SUBSET Requests : Assigns(V, R, l.agent, U)
      BY <1>3, <2>1, <2>6, FillAssigns
    <3>2. U \in TablesType
      BY <1>3, <2>1, <2>6, FillAssigns
    <3>3. QED
      BY <1>3, <1>12, <2>6, <3>1, <3>2, AssignsOK
  <2>9. TablesOK(V) /\ Evolves(Tables, V) /\ Quiet(Tables, V)
    BY <1>10, <2>4, <2>6, <2>7, <2>8
  <2>10. QED
    BY <1>3, <2>1, <2>6, <2>9, Start, FillStep
<1> HIDE DEF U, T, V
<1>13. Unique(U) => U \in TablesType /\ StepOK(Tables, U) /\ Planned(Tables, U)
  BY <1>11, <1>12
<1>14. QED
  BY <1>1, <1>13, FinishStep

\* The AI is resumed, and without a ticket the agent gets other work.
LEMMA ResumeStep ==
    ASSUME HandoffInv, NEW a \in Agents, resume_ai_for_handoff(a)
    PROVE  Tables' \in TablesType /\ StepOK(Tables, Tables') /\ Planned(Tables, Tables')
<1> DEFINE r == call[a].req
           c == call[a].conv
           l == call[a].loaded
           w == [l EXCEPT !.status = "resumed_ai", !.agent = None]
           x == Update(req[r], l, w)
           y == [NoHandoff EXCEPT !.open = conv[c].open]
           T == [Tables EXCEPT !.req[r] = x, !.conv[c] = y]
           U == IF c \in Ticketed \/ l.agent = None THEN T ELSE fill_agent_capacity(T, l.agent)
           allowed == /\ c \in Ticketed \/ a \in Supervisors \/ conv[c].agent = a
                      /\ c \in Ticketed \/ l.agent = None \/ ~Aborts(T, l.agent)
<1>1. Finish(a, "resume", allowed, U)
  <2>1. Tables.req = req /\ Tables.conv = conv
    BY Start
  <2>2. QED
    BY <2>1, Zenon DEF resume_ai_for_handoff
<1>2. call[a].kind = "resume"
  BY <1>1 DEF Finish
<1>3. r \in Requests /\ IsOf(Tables, r, c) /\ l \in Loaded /\ l.status \in Open
  BY <1>2, CallTypes DEF CallOK
<1>4. c \in Conversations
  BY <1>3, Start DEF IsOf, TablesOK, RowsOK
<1>5. req[r] \in Request /\ conv[c] \in Conversation /\ req[r].conv = c
  BY <1>3, <1>4, Start DEF TypeOK, IsOf
<1> HIDE DEF r, c, l, allowed
<1>6. w \in Loaded /\ w.status = "resumed_ai" /\ w.agent = None
  <2>1. l \in Loaded
    BY <1>3
  <2>2. QED
    BY <2>1, Zenon DEF Loaded, Open, Somebody
<1>7. x \in Request /\ x.status = "resumed_ai" /\ x.conv = c
  <2> HIDE DEF w
  <2>1. l.status # "resumed_ai"
    BY <1>3 DEF Open
  <2>2. QED
    BY <1>3, <1>5, <1>6, <2>1, UpdateRequest
<1>8. y \in Conversation /\ y.open = conv[c].open /\ y.handoff = "none" /\ y.agent = None /\ y.current = 0
  <2>1. conv[c].open \in BOOLEAN
    BY <1>5 DEF Conversation
  <2>2. QED
    BY <2>1, Zenon DEF NoHandoff, Conversation, Somebody
<1> HIDE DEF x, y
<1>9. T \in TablesType /\ PutRows(Tables, r, x, c, y, T)
  BY <1>3, <1>4, <1>7, <1>8, Start, PutRowsEffect
<1> HIDE DEF T
<1>10. y.open => Tables.conv[c].open
  BY <1>8, Start
<1>11. GivesBack(Tables, T)
  BY <1>3, <1>4, <1>7, <1>8, <1>9, <1>10, Start, PutRowsGivesBack
<1>12. TablesOK(T) /\ Evolves(Tables, T) /\ Quiet(Tables, T)
  BY <1>9, <1>11, Start, GivesBackOK
<1>13. U \in TablesType /\ StepOK(Tables, U) /\ Planned(Tables, U)
  <2>1. CASE c \in Ticketed \/ l.agent = None
    <3>1. U = T
      BY <2>1
    <3> HIDE DEF U
    <3>2. QED
      BY <1>9, <1>12, <3>1, Start, QuietStep
  <2>2. CASE ~(c \in Ticketed \/ l.agent = None)
    <3>1. U = fill_agent_capacity(T, l.agent)
      BY <2>2
    <3>2. l.agent \in Agents
      BY <1>3, <2>2 DEF Loaded, Somebody
    <3> HIDE DEF U
    <3>3. QED
      BY <1>9, <1>12, <3>1, <3>2, Start, FillStep
  <2>3. QED
    BY <2>1, <2>2
<1> HIDE DEF U
<1>14. QED
  BY <1>1, <1>13, FinishStep

\* The plans and nothing else are written after a step.
LEMMA StepSame ==
    ASSUME NEW T, NEW U, NEW W, StepOK(T, U), W.req = U.req, W.conv = U.conv, W.agent = U.agent
    PROVE  StepOK(T, W)
<1>1. TablesOK(W)
  BY SameRows DEF StepOK, Sound
<1>2. Evolves(T, W)
  BY DEF StepOK, Sound, Evolves
<1>3. \A b : LoadSet(W, b) = LoadSet(U, b)
  BY SameRows
<1>4. \A b : active_agent_load(W, b) = active_agent_load(U, b)
  BY <1>3, LoadIsFinite
<1>5. CapacityKept(T, W)
  BY <1>3, <1>4 DEF StepOK, CapacityKept, CapacityHeld
<1>6. OwnedKept(T, W)
  BY DEF StepOK, Sound, OwnedKept, RowOwned
<1>7. QED
  BY <1>1, <1>2, <1>5, <1>6 DEF StepOK, Sound

\* The table of the plans is replaced.
LEMMA PutPlans ==
    ASSUME NEW T \in TablesType, NEW P \in [Requests -> Plan]
    PROVE  /\ [T EXCEPT !.plan = P] \in TablesType
           /\ [T EXCEPT !.plan = P].req = T.req
           /\ [T EXCEPT !.plan = P].conv = T.conv
           /\ [T EXCEPT !.plan = P].agent = T.agent
<1>1. [T EXCEPT !.plan = P] = [req |-> T.req, conv |-> T.conv, plan |-> P, agent |-> T.agent]
  BY DEF TablesType
<1>2. QED
  BY <1>1 DEF TablesType

\* The request that is current in the loaded row is closed with the conversation.
LEMMA ClosedOK ==
    ASSUME NEW T \in TablesType, NEW K \in TablesType, TablesOK(T),
           K.req = T.req, K.conv = T.conv,
           NEW c \in Conversations, NEW v \in Conversation, v.open = TRUE,
           v.current # 0 => IsOf(T, v.current, c)
    PROVE  LET U == [K EXCEPT
                 !.req = [s \in Requests |-> IF s = v.current /\ K.req[s].status \in Open
                                             THEN [K.req[s] EXCEPT !.status = "closed"] ELSE K.req[s]],
                 !.conv[c] = Update(K.conv[c], v,
                     [v EXCEPT !.open = FALSE, !.current = 0, !.agent = None,
                               !.handoff = "closed", !.suspended = TRUE])] IN
           U \in TablesType /\ TablesOK(U) /\ Evolves(T, U) /\ Quiet(T, U)
<1> DEFINE F == [s \in Requests |-> IF s = v.current /\ K.req[s].status \in Open
                                    THEN [K.req[s] EXCEPT !.status = "closed"] ELSE K.req[s]]
           w == [v EXCEPT !.open = FALSE, !.current = 0, !.agent = None,
                          !.handoff = "closed", !.suspended = TRUE]
           y == Update(K.conv[c], v, w)
           G == [K.conv EXCEPT ![c] = y]
           U == [K EXCEPT !.req = F, !.conv[c] = y]
<1>1. U = [K EXCEPT !.req = F, !.conv = G]
  BY Zenon
<1>2. w \in Conversation /\ w.open = FALSE /\ w.current = 0
  BY Zenon DEF Conversation, Somebody
<1>3. K.conv[c] \in Conversation
  BY DEF TablesType
<1>4. y \in Conversation /\ y.open = FALSE /\ y.current \in {0, T.conv[c].current}
  <2> HIDE DEF w
  <2> DEFINE k == K.conv[c]
  <2> HIDE DEF k
  <2>0. k \in Conversation /\ y = Update(k, v, w)
    BY <1>3 DEF k
  <2>1. /\ y \in Conversation
        /\ y.open = IF w.open = v.open THEN k.open ELSE w.open
        /\ y.current = IF w.current = v.current THEN k.current ELSE w.current
    <3> HIDE DEF y
    <3> QED
      BY <1>2, <2>0, UpdateConversation
  <2>2. v.open \in BOOLEAN /\ w.open \in BOOLEAN
    BY <1>2 DEF Conversation
  <2> HIDE DEF y
  <2>3. QED
    BY <1>2, <2>1, <2>2 DEF k
<1>5. \A s \in Requests :
        /\ F[s] \in Request /\ F[s].conv = T.req[s].conv
        /\ s # v.current => F[s] = T.req[s]
        /\ F[s] = T.req[s] \/ F[s].status = "closed"
  <2> TAKE s \in Requests
  <2>1. K.req[s] \in Request
    BY DEF TablesType
  <2>2. CASE s = v.current /\ K.req[s].status \in Open
    <3>1. F[s] = [K.req[s] EXCEPT !.status = "closed"]
      BY <2>2, Zenon
    <3> HIDE DEF F
    <3>2. F[s] \in Request /\ F[s].conv = K.req[s].conv /\ F[s].status = "closed"
      BY <2>1, <3>1, Zenon DEF Request
    <3>3. QED
      BY <2>2, <3>2, Zenon
  <2>3. CASE ~(s = v.current /\ K.req[s].status \in Open)
    <3>1. F[s] = K.req[s]
      BY <2>3, Zenon
    <3> HIDE DEF F
    <3>2. QED
      BY <2>1, <3>1, Zenon
  <2>4. QED
    BY <2>2, <2>3, Zenon
<1>6. F \in [Requests -> Request]
  BY <1>5, Zenon
<1> HIDE DEF y, F
<1>7. /\ G \in [Conversations -> Conversation] /\ G[c] = y
      /\ \A d \in Conversations : d # c => G[d] = T.conv[d]
  BY <1>4 DEF TablesType
<1> HIDE DEF G, U
<1>8. U = [req |-> F, conv |-> G, plan |-> K.plan, agent |-> K.agent]
  BY <1>1, ReplaceTwo, Zenon
<1>9. U \in TablesType /\ U.req = F /\ U.conv = G
  BY <1>6, <1>7, <1>8 DEF TablesType
<1>10. \A s \in Requests :
          /\ U.req[s].conv = T.req[s].conv
          /\ \/ U.req[s].status = T.req[s].status /\ U.req[s].agent = T.req[s].agent
             \/ /\ T.req[s].status # "absent"
                /\ U.req[s].status = "closed"
  <2> TAKE s \in Requests
  <2>1. s = v.current => T.req[s].status # "absent"
    BY RoutingAssumption DEF IsOf, Requests
  <2>2. QED
    BY <1>5, <1>9, <2>1
<1>11. Unique(U)
  <2>1. \A s \in Requests : /\ U.req[s].conv = T.req[s].conv
                            /\ U.req[s].status \in Open => T.req[s].status \in Open
    BY <1>10 DEF Open
  <2>2. QED
    BY <2>1 DEF TablesOK, Unique
<1>12. \A d \in Conversations : d # c =>
         /\ U.conv[d] = T.conv[d]
         /\ \A s \in Requests : T.req[s].conv = d => U.req[s] = T.req[s]
  <2> TAKE d \in Conversations
  <2> HAVE d # c
  <2>1. U.conv[d] = T.conv[d]
    BY <1>7, <1>9
  <2>2. ASSUME NEW s \in Requests, T.req[s].conv = d PROVE U.req[s] = T.req[s]
    <3>1. s # v.current
      BY <2>2, RoutingAssumption DEF IsOf, Requests
    <3>2. QED
      BY <1>5, <1>9, <3>1
  <2>3. QED
    BY <2>1, <2>2
<1>13. ~U.conv[c].open /\ U.conv[c].current \in {0, T.conv[c].current}
  BY <1>4, <1>7, <1>9
<1>14. GivesBack(T, U)
  BY <1>10, <1>11, <1>12, <1>13 DEF GivesBack
<1>15. U \in TablesType /\ TablesOK(U) /\ Evolves(T, U) /\ Quiet(T, U)
  BY <1>9, <1>14, GivesBackOK
<1>16. QED
  BY <1>15, Zenon DEF U, F, y

\* A conversation is closed, its request too, and the agent is refilled.
LEMMA CloseStep ==
    ASSUME HandoffInv, NEW a \in Agents, close_conversation(a)
    PROVE  Tables' \in TablesType /\ StepOK(Tables, Tables')
<1> DEFINE c == call[a].conv
           v == call[a].snapshot
           active == OpenRequest(c)
           Q == [s \in Requests |-> IF s \in active THEN Activated(Tables, s) ELSE Tables.plan[s]]
           checked == [Tables EXCEPT !.plan = Q]
           closed == [checked EXCEPT
               !.req = [s \in Requests |-> IF s = v.current /\ checked.req[s].status \in Open
                                           THEN [checked.req[s] EXCEPT !.status = "closed"]
                                           ELSE checked.req[s]],
               !.conv[c] = Update(checked.conv[c], v,
                               [v EXCEPT !.open = FALSE, !.current = 0, !.agent = None,
                                         !.handoff = "closed", !.suspended = TRUE])]
           filled == IF v.agent = None THEN closed ELSE fill_unplanned(closed, v.agent)
           P == [s \in Requests |->
                    IF s = v.current /\ filled.plan[s].status # "none"
                    THEN [filled.plan[s] EXCEPT !.status = "closed", !.due = FALSE]
                    ELSE filled.plan[s]]
           U == [filled EXCEPT !.plan = P]
           allowed == \A s \in active : /\ ~Refused(Tables, s)
                                        /\ candidate_is_authorized(Tables, s, a, FALSE)
<1>1. Finish(a, "close", allowed, U)
  BY Zenon DEF close_conversation
<1>2. call[a].kind = "close"
  BY <1>1 DEF Finish
<1>3. /\ c \in Conversations /\ v \in Conversation /\ v.open = TRUE
      /\ v.current # 0 => IsOf(Tables, v.current, c)
  <2>1. v \in Conversation /\ v.open
    BY <1>2, CallTypes DEF CallOK
  <2>2. v.open = TRUE
    BY <2>1 DEF Conversation
  <2>3. QED
    BY <1>2, <2>1, <2>2, CallTypes DEF CallOK
<1> HIDE DEF c, v, active, allowed
<1>4. checked \in TablesType /\ checked.req = Tables.req /\ checked.conv = Tables.conv
  <2>1. \A s \in Requests : Tables.plan[s] \in Plan /\ Activated(Tables, s) \in Plan
    BY Start, ActivatedType DEF TablesType
  <2>2. Q \in [Requests -> Plan]
    BY <2>1, Zenon
  <2> HIDE DEF Q
  <2>3. QED
    BY <2>2, Start, PutPlans
<1> HIDE DEF checked
<1>5. closed \in TablesType /\ TablesOK(closed) /\ Evolves(Tables, closed) /\ Quiet(Tables, closed)
  <2>1. Tables \in TablesType /\ TablesOK(Tables)
    BY Start
  <2>2. QED
    BY <1>3, <1>4, <2>1, ClosedOK, Zenon
<1> HIDE DEF closed
<1>6. filled \in TablesType /\ StepOK(Tables, filled)
  <2>1. CASE v.agent = None
    BY <1>5, <2>1, Start, QuietStep
  <2>2. CASE v.agent # None
    <3>1. v.agent \in Agents
      BY <1>3, <2>2 DEF Conversation, Somebody
    <3>2. QED
      BY <1>5, <2>2, <3>1, Start, FillStep
  <2>3. QED
    BY <2>1, <2>2
<1> HIDE DEF filled
<1>7. U \in TablesType /\ U.req = filled.req /\ U.conv = filled.conv /\ U.agent = filled.agent
  <2>1. ASSUME NEW s \in Requests
        PROVE  (IF s = v.current /\ filled.plan[s].status # "none"
                THEN [filled.plan[s] EXCEPT !.status = "closed", !.due = FALSE]
                ELSE filled.plan[s]) \in Plan
    <3>1. filled.plan[s] \in Plan
      BY <1>6 DEF TablesType
    <3>2. QED
      BY <3>1, Zenon DEF Plan
  <2>2. P \in [Requests -> Plan]
    BY <2>1, Zenon
  <2> HIDE DEF P
  <2>3. QED
    BY <1>6, <2>2, PutPlans, Zenon
<1> HIDE DEF U
<1>8. StepOK(Tables, U)
  BY <1>6, <1>7, StepSame
<1>9. allowed /\ Unique(U) =>
        U \in TablesType /\ StepOK(Tables, U) /\ ("close" # "close" => Planned(Tables, U))
  BY <1>7, <1>8
<1>10. QED
  BY <1>1, <1>9, FinishStep

-----------------------------------------------------------------------------
(* The steps of the specification *)

\* A step that writes no table.
LEMMA NoTableStep ==
    ASSUME HandoffInv, UNCHANGED <<req, conv, plan, agent>>
    PROVE  Tables' \in TablesType /\ StepOK(Tables, Tables') /\ Planned(Tables, Tables')
<1>1. Tables' = Tables
  BY DEF Tables
<1>2. TablesOK(Tables) /\ Evolves(Tables, Tables) /\ Quiet(Tables, Tables)
  BY Start, SameRows
<1>3. QED
  BY <1>1, <1>2, Start, QuietStep

\* What a step may do to the right to reply, and to the load of the agents.
ReplyKept ==
    \A c \in Conversations :
        RowOwned(Tables, c) => RowOwned(Tables', c) \/ \E a \in Agents : AcceptsAgain(a, c)

LoadKept ==
    \A a \in Agents :
        \/ LoadSet(Tables', a) \subseteq LoadSet(Tables, a)
        \/ active_agent_load(Tables', a) <= agent'[a].capacity
        \/ \E c \in Conversations : \E rows \in route[c] :
              route'[c] = {} /\ active_agent_load(Tables', a) <= rows[a].capacity

\* A transaction that keeps both.
LEMMA StepKeeps ==
    ASSUME HandoffInv
    PROVE  /\ Sound(Tables, Tables') => TablesOK(Tables') /\ Evolves(Tables, Tables') /\ ReplyKept
           /\ CapacityKept(Tables, Tables') => LoadKept
<1>1. Tables'.agent = agent'
  BY DEF Tables
<1>2. QED
  BY <1>1 DEF Sound, OwnedKept, ReplyKept, CapacityKept, CapacityHeld, LoadKept

\* The routing of a request, by the agents it loaded or by those of the table.
LEMMA RoutingKeeps ==
    ASSUME HandoffInv, NEW c \in Conversations, request_handoff(c)
    PROVE  /\ Tables' \in TablesType /\ TablesOK(Tables') /\ Evolves(Tables, Tables')
           /\ ReplyKept /\ LoadKept /\ Planned(Tables, Tables')
<1>1. /\ Tables' \in TablesType /\ Sound(Tables, Tables') /\ Planned(Tables, Tables')
      /\ \/ CapacityKept(Tables, Tables')
         \/ \E rows \in Rows(c) : agent' = agent /\ CapacityHeld(Tables, Tables', rows)
  BY RequestStep
<1>2. ASSUME NEW rows \in Rows(c), agent' = agent, CapacityHeld(Tables, Tables', rows)
      PROVE  LoadKept
  <2>1. CASE Unlocked(c)
    <3>1. rows = agent'
      BY <1>2, <2>1 DEF Rows
    <3>2. QED
      BY <1>2, <3>1 DEF CapacityHeld, LoadKept
  <2>2. CASE ~Unlocked(c)
    <3>1. rows \in route[c]
      BY <2>2 DEF Rows
    <3>2. route'[c] = {}
      <4>1. route \in [Conversations -> SUBSET [Agents -> State]]
        BY Start DEF TypeOK
      <4>2. route' = [route EXCEPT ![c] = {}]
        BY Zenon DEF request_handoff
      <4>3. QED
        BY <4>1, <4>2
    <3>3. QED
      BY <1>2, <3>1, <3>2 DEF CapacityHeld, LoadKept
  <2>3. QED
    BY <2>1, <2>2
<1>3. QED
  BY <1>1, <1>2, StepKeeps

\* What every step does to the tables.  The refill at the end of
\* close_conversation is the only assignment that leaves a plan behind.
LEMMA EveryStep ==
    ASSUME HandoffInv, [Next]_vars
    PROVE  /\ Tables' \in TablesType /\ TablesOK(Tables') /\ Evolves(Tables, Tables')
           /\ ReplyKept /\ LoadKept
           /\ Planned(Tables, Tables') \/ \E a \in Agents : close_conversation(a)
<1> DEFINE Good == Tables' \in TablesType /\ StepOK(Tables, Tables') /\ Planned(Tables, Tables')
           Kept == /\ Tables' \in TablesType /\ TablesOK(Tables') /\ Evolves(Tables, Tables')
                   /\ ReplyKept /\ LoadKept
<1>1. CASE UNCHANGED vars
  <2>1. Good
    BY <1>1, NoTableStep DEF vars
  <2>2. QED
    BY <2>1, StepKeeps DEF StepOK
<1>2. ASSUME NEW c \in Conversations,
             \/ eligible_agents(c) \/ request_webchat_handoff(c) \/ reclassify_case_scenario(c)
             \/ VisitorLoads(c) \/ resume_stale_requested_handoff(c)
      PROVE  Good
  <2>1. CASE eligible_agents(c) \/ VisitorLoads(c)
    BY <2>1, NoTableStep DEF eligible_agents, VisitorLoads
  <2>2. QED
    BY <1>2, <2>1, ReclassifyStep, RequestWebchatStep, ResumeStaleStep
<1>3. ASSUME NEW a \in Agents,
             \/ LoadRequest(a) \/ LoadItsConversation(a) \/ LoadConversation(a)
             \/ release_handoff_request(a) \/ resume_ai_for_handoff(a)
             \/ decline_handoff_request(a) \/ force_takeover_ticket(a)
             \/ heartbeat_agent(a) \/ set_agent_state(a)
             \/ set_operator_agent_capacity(a) \/ HeartbeatLapses(a)
      PROVE  Good
  <2>1. CASE LoadRequest(a) \/ LoadItsConversation(a) \/ LoadConversation(a)
    BY <2>1, NoTableStep DEF LoadRequest, LoadItsConversation, LoadConversation, Begin
  <2>2. CASE HeartbeatLapses(a)
    BY <2>2, TimeStep
  <2>3. QED
    BY <1>3, <2>1, <2>2, ReleaseStep, ResumeStep, DeclineStep, TakeoverStep,
       HeartbeatStep, ChangeStateStep
<1>4. ASSUME NEW a \in Agents, close_conversation(a)
      PROVE  Kept
  <2>1. Tables' \in TablesType /\ StepOK(Tables, Tables')
    BY <1>4, CloseStep
  <2>2. QED
    BY <2>1, StepKeeps DEF StepOK
<1>5. ASSUME NEW r \in Requests, reconcile_stale_text_handoffs(r) \/ RetryFallsDue(r)
      PROVE  Good
  BY <1>5, ReconcileStep, TimeStep
<1>6. ASSUME NEW a \in Agents, accept_handoff_request(a)
      PROVE  Kept /\ Planned(Tables, Tables')
  <2>1. /\ Tables' \in TablesType /\ TablesOK(Tables') /\ Evolves(Tables, Tables')
        /\ CapacityKept(Tables, Tables') /\ Planned(Tables, Tables')
        /\ \A d \in Conversations : RowOwned(Tables, d) => RowOwned(Tables', d) \/ AcceptsAgain(a, d)
    BY <1>6, AcceptStep
  <2>2. ReplyKept
    BY <2>1 DEF ReplyKept
  <2>3. QED
    BY <2>1, <2>2, StepKeeps
<1>7. ASSUME NEW c \in Conversations, request_handoff(c)
      PROVE  Kept /\ Planned(Tables, Tables')
  BY <1>7, RoutingKeeps
<1>8. Good => Kept /\ Planned(Tables, Tables')
  BY StepKeeps DEF StepOK
<1> HIDE DEF Good
<1>9. QED
  BY <1>1, <1>2, <1>3, <1>4, <1>5, <1>6, <1>7, <1>8 DEF Next, FinishCall

\* What is true of the rows a call has loaded stays true.
LEMMA CallKept ==
    ASSUME NEW T \in TablesType, NEW U \in TablesType, TablesOK(T), Evolves(T, U),
           NEW k \in Call, CallOK(T, k)
    PROVE  CallOK(U, k)
<1>1. \A r \in {0} \cup Requests : \A c :
        r # 0 /\ IsOf(T, r, c) => IsOf(U, r, c) /\ c \in Conversations
  BY DEF IsOf, Evolves, TablesOK, RowsOK
<1>2. k.req \in {0} \cup Requests /\ k.snapshot.current \in {0} \cup Requests
  BY DEF Call, Conversation
<1>3. 0 \notin Requests
  BY RoutingAssumption DEF Requests
<1>4. ASSUME k.kind \in {"accept", "assign", "release", "resume"}
      PROVE  k.req \in Requests /\ IsOf(U, k.req, k.conv)
  BY <1>1, <1>3, <1>4 DEF CallOK
<1>5. ASSUME k.kind = "close"
      PROVE  k.snapshot.current # 0 => IsOf(U, k.snapshot.current, k.conv)
  BY <1>1, <1>2, <1>5 DEF CallOK
<1>6. QED
  BY <1>4, <1>5 DEF CallOK

\* The same for the visitor.
LEMMA VisitKept ==
    ASSUME NEW T \in TablesType, NEW U \in TablesType, Evolves(T, U),
           NEW c \in Conversations, NEW k \in Call, VisitOK(T, c, k)
    PROVE  VisitOK(U, c, k)
<1>1. k.req \in {0} \cup Requests
  BY DEF Call
<1>2. IsOf(T, k.req, c) /\ k.req # 0 => IsOf(U, k.req, c)
  BY <1>1 DEF IsOf, Evolves
<1>3. QED
  BY <1>2 DEF VisitOK

\* No call.
LEMMA NoCallOK ==
    /\ NoCall \in Call
    /\ \A T : CallOK(T, NoCall)
    /\ \A T, c : VisitOK(T, c, NoCall)
<1>1. NoCall \in Call
  BY Zenon DEF NoCall, Call, Columns, NoRequest, NoHandoff, Conversation, Somebody
<1>2. NoCall.kind = "none"
  BY DEF NoCall, None
<1>3. QED
  BY <1>1, <1>2 DEF CallOK, VisitOK

\* A step keeps the invariant if what it loads is right.
LEMMA InvKept ==
    ASSUME HandoffInv, Tables' \in TablesType, TablesOK(Tables'), Evolves(Tables, Tables'),
           calls' \in 0..MaxCalls, scenario' \in SUBSET Ticketed,
           route' \in [Conversations -> SUBSET [Agents -> State]],
           call' \in [Agents -> Call], visit' \in [Conversations -> Call],
           \A a \in Agents : call'[a] # call[a] => CallOK(Tables', call'[a]),
           \A c \in Conversations : visit'[c] # visit[c] => VisitOK(Tables', c, visit'[c])
    PROVE  HandoffInv'
<1>1. TypeOK'
  BY DEF TypeOK, Tables, TablesType
<1>3. \A a \in Agents : CallOK(Tables', call'[a])
  <2> TAKE a \in Agents
  <2>1. call[a] \in Call /\ CallOK(Tables, call[a])
    BY Start DEF TypeOK, HandoffInv
  <2>2. CallOK(Tables', call[a])
    BY <2>1, Start, CallKept
  <2>3. QED
    BY <2>2
<1>4. \A c \in Conversations : VisitOK(Tables', c, visit'[c])
  <2> TAKE c \in Conversations
  <2>1. visit[c] \in Call /\ VisitOK(Tables, c, visit[c])
    BY Start DEF TypeOK, HandoffInv
  <2>2. VisitOK(Tables', c, visit[c])
    BY <2>1, Start, VisitKept
  <2>3. QED
    BY <2>2
<1>5. QED
  BY <1>1, <1>3, <1>4, Zenon DEF HandoffInv

\* What a call begins with.
Session(kind, r, c, snapshot) ==
    [kind |-> kind, req |-> r, conv |-> c, snapshot |-> snapshot,
     loaded |-> Columns(IF r = 0 THEN NoRequest ELSE req[r])]

\* The rows are loaded as they are.
LEMMA BeginCall ==
    ASSUME HandoffInv, NEW kind \in Kinds, NEW r \in {0} \cup Requests,
           NEW c \in Conversations, NEW snapshot \in Conversation
    PROVE  /\ Session(kind, r, c, snapshot) \in Call
           /\ Session(kind, r, c, snapshot).kind = kind
           /\ Session(kind, r, c, snapshot).req = r
           /\ Session(kind, r, c, snapshot).conv = c
           /\ Session(kind, r, c, snapshot).snapshot = snapshot
           /\ r # 0 => /\ Session(kind, r, c, snapshot).loaded.status = req[r].status
                       /\ Session(kind, r, c, snapshot).loaded.agent = req[r].agent
<1> DEFINE k == Session(kind, r, c, snapshot)
<1>1. (IF r = 0 THEN NoRequest ELSE req[r]) \in Request
  <2>1. NoRequest \in Request
    BY Zenon DEF NoRequest, Request, Somebody
  <2>2. r # 0 => req[r] \in Request
    BY Start DEF TypeOK
  <2>3. QED
    BY <2>1, <2>2
<1>2. Columns(IF r = 0 THEN NoRequest ELSE req[r]) \in Loaded
  BY <1>1, Zenon DEF Columns, Request, Loaded
<1>3. k \in Call
  BY <1>2 DEF Session, Call, Loaded
<1>4. /\ k.kind = kind /\ k.req = r /\ k.conv = c /\ k.snapshot = snapshot
      /\ r # 0 => k.loaded = Columns(req[r])
  BY DEF Session
<1> HIDE DEF k
<1>5. r # 0 => k.loaded.status = req[r].status /\ k.loaded.agent = req[r].agent
  BY <1>4 DEF Columns
<1>6. QED
  BY <1>3, <1>4, <1>5 DEF k

\* What a call of an operator has loaded satisfies the invariant.
LEMMA LoadsOK ==
    ASSUME HandoffInv, NEW a \in Agents,
           LoadRequest(a) \/ LoadItsConversation(a) \/ LoadConversation(a)
    PROVE  /\ calls' \in 0..MaxCalls /\ call' \in [Agents -> Call] /\ visit' = visit
           /\ UNCHANGED <<req, conv, plan, agent, route, scenario>>
           /\ \A b \in Agents : call'[b] # call[b] => CallOK(Tables, call'[b])
<1>1. /\ UNCHANGED <<req, conv, plan, agent, visit, route, scenario>> /\ calls' \in 0..MaxCalls
  <2>1. calls \in 0..MaxCalls
    BY Start DEF TypeOK
  <2>2. QED
    BY <2>1, RoutingAssumption DEF LoadRequest, LoadItsConversation, LoadConversation, Begin, CountCall
<1>2. ASSUME NEW k \in Call, CallOK(Tables, k), call' = [call EXCEPT ![a] = k]
      PROVE  /\ call' \in [Agents -> Call]
             /\ \A b \in Agents : call'[b] # call[b] => CallOK(Tables, call'[b])
  <2>1. call \in [Agents -> Call]
    BY Start DEF TypeOK
  <2>2. QED
    BY <1>2, <2>1
<1>3. ASSUME LoadRequest(a)
      PROVE  \E k \in Call : CallOK(Tables, k) /\ call' = [call EXCEPT ![a] = k]
  <2>1. PICK r \in Requests :
          \/ /\ req[r].status = "requested"
             /\ Begin(a, "accept", r, req[r].conv, NoHandoff)
          \/ /\ req[r].status = "accepted"
             /\ Begin(a, "release", r, req[r].conv, NoHandoff)
          \/ /\ req[r].status \in Open
             /\ Begin(a, "resume", r, req[r].conv, NoHandoff)
    BY <1>3, Zenon DEF LoadRequest
  <2> DEFINE c == req[r].conv
  <2>2. c \in Conversations /\ req[r].status # "absent" /\ IsOf(Tables, r, c)
    BY <2>1, Start DEF TablesOK, RowsOK, IsOf, Open
  <2>3. NoHandoff \in Conversation /\ conv[c] \in Conversation
    <3>1. NoHandoff \in Conversation
      BY Zenon DEF NoHandoff, Conversation, Somebody
    <3>2. QED
      BY <2>2, <3>1, Start DEF TypeOK
  <2>4. r # 0 /\ r \in {0} \cup Requests
    BY RoutingAssumption DEF Requests
  <2>5. CASE req[r].status = "requested" /\ Begin(a, "accept", r, c, NoHandoff)
    <3> DEFINE k == Session("accept", r, c, NoHandoff)
    <3>1. call' = [call EXCEPT ![a] = k]
      BY <2>5, Zenon DEF Begin, Session
    <3> HIDE DEF k, c
    <3>2. /\ k \in Call /\ k.kind = "accept" /\ k.req = r /\ k.conv = c
          /\ k.loaded.status = req[r].status /\ k.loaded.agent = req[r].agent
      BY <2>2, <2>3, <2>4, BeginCall DEF Kinds, k
    <3>3. req[r].agent = None
      BY <2>5, Start DEF TablesOK, RowsOK
    <3>4. CallOK(Tables, k)
      BY <2>2, <2>5, <3>2, <3>3 DEF CallOK
    <3>5. QED
      BY <3>1, <3>2, <3>4
  <2>6. CASE req[r].status = "accepted" /\ Begin(a, "release", r, c, NoHandoff)
    <3> DEFINE k == Session("release", r, c, NoHandoff)
    <3>1. call' = [call EXCEPT ![a] = k]
      BY <2>6, Zenon DEF Begin, Session
    <3> HIDE DEF k, c
    <3>2. /\ k \in Call /\ k.kind = "release" /\ k.req = r /\ k.conv = c
          /\ k.loaded.status = req[r].status /\ k.loaded.agent = req[r].agent
      BY <2>2, <2>3, <2>4, BeginCall DEF Kinds, k
    <3>3. req[r].agent \in Agents
      BY <2>6, Start DEF TablesOK, RowsOK
    <3>4. CallOK(Tables, k)
      BY <2>2, <2>6, <3>2, <3>3 DEF CallOK
    <3>5. QED
      BY <3>1, <3>2, <3>4
  <2>7. CASE req[r].status \in Open /\ Begin(a, "resume", r, c, NoHandoff)
    <3> DEFINE k == Session("resume", r, c, NoHandoff)
    <3>1. call' = [call EXCEPT ![a] = k]
      BY <2>7, Zenon DEF Begin, Session
    <3> HIDE DEF k, c
    <3>2. /\ k \in Call /\ k.kind = "resume" /\ k.req = r /\ k.conv = c
          /\ k.loaded.status = req[r].status
      BY <2>2, <2>3, <2>4, BeginCall DEF Kinds, k
    <3>3. CallOK(Tables, k)
      BY <2>2, <2>7, <3>2 DEF CallOK
    <3>4. QED
      BY <3>1, <3>2, <3>3
  <2>8. QED
    BY <2>1, <2>5, <2>6, <2>7
<1>4. ASSUME LoadConversation(a)
      PROVE  \E k \in Call : CallOK(Tables, k) /\ call' = [call EXCEPT ![a] = k]
  <2>1. PICK c \in Conversations : conv[c].open /\ Begin(a, "close", 0, c, conv[c])
    BY <1>4, Zenon DEF LoadConversation
  <2> DEFINE k == Session("close", 0, c, conv[c])
  <2>2. call' = [call EXCEPT ![a] = k]
    BY <2>1, Zenon DEF Begin, Session
  <2> HIDE DEF k
  <2>3. conv[c] \in Conversation
    BY Start DEF TypeOK
  <2>4. k \in Call /\ k.kind = "close" /\ k.conv = c /\ k.snapshot = conv[c]
    BY <2>3, BeginCall DEF Kinds, k
  <2>5. conv[c].current # 0 => IsOf(Tables, conv[c].current, c)
    BY Start DEF TablesOK, SnapshotOK
  <2>6. CallOK(Tables, k)
    BY <2>1, <2>4, <2>5 DEF CallOK
  <2>7. QED
    BY <2>2, <2>4, <2>6
<1>5. ASSUME LoadItsConversation(a)
      PROVE  \E k \in Call : CallOK(Tables, k) /\ call' = [call EXCEPT ![a] = k]
  <2> DEFINE l == call[a]
             v == conv[call[a].conv]
             k == [l EXCEPT !.kind = "assign", !.snapshot = v]
  <2>1. call' = [call EXCEPT ![a] = k]
    BY <1>5, Zenon DEF LoadItsConversation
  <2>2. l \in Call /\ l.kind = "accept" /\ CallOK(Tables, l)
    BY <1>5, Start DEF TypeOK, HandoffInv, LoadItsConversation
  <2>3. l.req \in Requests /\ IsOf(Tables, l.req, l.conv)
    BY <2>2 DEF CallOK
  <2>4. v \in Conversation
    BY <2>3, Start DEF IsOf, TablesOK, RowsOK, TypeOK
  <2> HIDE DEF l, v
  <2>5. /\ k \in Call /\ k.kind = "assign" /\ k.req = l.req /\ k.conv = l.conv
        /\ k.loaded = l.loaded
    BY <2>2, <2>4, Zenon DEF Call, Kinds
  <2> HIDE DEF k
  <2>6. CallOK(Tables, k)
    BY <2>2, <2>3, <2>5 DEF CallOK
  <2>7. QED
    BY <2>1, <2>5, <2>6
<1>6. QED
  BY <1>1, <1>2, <1>3, <1>4, <1>5

\* And what the message of a visitor has loaded.
LEMMA VisitorLoadsOK ==
    ASSUME HandoffInv, NEW c \in Conversations, VisitorLoads(c)
    PROVE  /\ calls' \in 0..MaxCalls /\ visit' \in [Conversations -> Call] /\ call' = call
           /\ UNCHANGED <<req, conv, plan, agent, route, scenario>>
           /\ \A d \in Conversations : visit'[d] # visit[d] => VisitOK(Tables, d, visit'[d])
<1> DEFINE r == conv[c].current
           k == Session("resume", r, c, conv[c])
<1>1. /\ UNCHANGED <<req, conv, plan, agent, call, route, scenario>> /\ calls' \in 0..MaxCalls
  <2>1. calls \in 0..MaxCalls
    BY Start DEF TypeOK
  <2>2. QED
    BY <2>1, RoutingAssumption DEF VisitorLoads, CountCall
<1>2. visit' = [visit EXCEPT ![c] = k]
  BY Zenon DEF VisitorLoads, Session
<1>3. /\ c \in Ticketed /\ conv[c].handoff = "requested" /\ conv[c].agent = None
      /\ r # 0 => req[r].status = "requested"
  BY DEF VisitorLoads
<1>4. conv[c] \in Conversation /\ r \in {0} \cup Requests
  <2>1. conv[c] \in Conversation
    BY Start DEF TypeOK
  <2>2. QED
    BY <2>1 DEF Conversation
<1>5. r # 0 => IsOf(Tables, r, c) /\ req[r].agent = None
  BY <1>3, <1>4, Start DEF TablesOK, SnapshotOK, RowsOK
<1> HIDE DEF r, k
<1>6. /\ k \in Call /\ k.req = r /\ k.snapshot = conv[c]
      /\ r # 0 => k.loaded.status = req[r].status /\ k.loaded.agent = req[r].agent
  BY <1>4, BeginCall DEF Kinds, k
<1>7. VisitOK(Tables, c, k)
  BY <1>3, <1>5, <1>6 DEF VisitOK
<1>8. visit \in [Conversations -> Call]
  BY Start DEF TypeOK
<1>9. QED
  BY <1>1, <1>2, <1>6, <1>7, <1>8

\* The initial state satisfies the invariant: there is no request and no call.
LEMMA InitInv ==
    ASSUME Init
    PROVE  HandoffInv
<1>1. /\ NoRequest \in Request /\ NoHandoff \in Conversation /\ Offline \in State
      /\ NoPlan \in Plan
  <2>1. NoRequest \in Request /\ NoHandoff \in Conversation
    BY Zenon DEF NoRequest, Request, Somebody, NoHandoff, Conversation
  <2>2. Offline \in State
    BY RoutingAssumption DEF Offline, State
  <2>3. NoPlan \in Plan
    BY RoutingAssumption DEF NoPlan, Plan
  <2>4. QED
    BY <2>1, <2>2, <2>3
<1>2. calls \in 0..MaxCalls
  BY RoutingAssumption DEF Init
<1>3. TypeOK
  <2>1. route \in [Conversations -> SUBSET [Agents -> State]] /\ scenario \in SUBSET Ticketed
    BY Zenon DEF Init
  <2>2. QED
    BY <1>1, <1>2, <2>1, NoCallOK, Zenon DEF Init, TypeOK
<1>4. /\ \A r \in Requests : Tables.req[r].status = "absent"
      /\ \A c \in Conversations : /\ Tables.conv[c].current = 0 /\ Tables.conv[c].handoff = "none"
                                  /\ Tables.conv[c].agent = None
  BY <1>3, TablesTyped DEF Init, NoRequest, NoHandoff
<1>5. TablesOK(Tables)
  BY <1>4 DEF TablesOK, RowsOK, Unique, Open, SnapshotOK
<1>6. /\ \A a \in Agents : CallOK(Tables, call[a])
      /\ \A c \in Conversations : VisitOK(Tables, c, visit[c])
  BY NoCallOK, Zenon DEF Init
<1>7. QED
  BY <1>3, <1>5, <1>6 DEF HandoffInv

\* A step that loads nothing keeps the invariant: calls end, but none begins.
LEMMA NothingLoaded ==
    ASSUME HandoffInv, [Next]_vars, calls' = calls,
           \/ call' = call
           \/ \E a \in Agents : call' = [call EXCEPT ![a] = NoCall],
           \/ visit' = visit
           \/ \E c \in Conversations : visit' = [visit EXCEPT ![c] = NoCall],
           scenario' \in SUBSET Ticketed,
           \/ route' = route
           \/ \E c \in Conversations : route' = [route EXCEPT ![c] = {}]
    PROVE  HandoffInv'
<1>0. route' \in [Conversations -> SUBSET [Agents -> State]]
  BY Start DEF TypeOK
<1>1. /\ call \in [Agents -> Call] /\ visit \in [Conversations -> Call] /\ calls \in 0..MaxCalls
  BY Start DEF TypeOK
<1>2. call' \in [Agents -> Call] /\ \A a \in Agents : call'[a] = call[a] \/ call'[a] = NoCall
  BY <1>1, NoCallOK
<1>3. /\ visit' \in [Conversations -> Call]
      /\ \A c \in Conversations : visit'[c] = visit[c] \/ visit'[c] = NoCall
  BY <1>1, NoCallOK
<1>4. Tables' \in TablesType /\ TablesOK(Tables') /\ Evolves(Tables, Tables')
  BY EveryStep
<1>5. /\ \A a \in Agents : call'[a] # call[a] => CallOK(Tables', call'[a])
      /\ \A c \in Conversations : visit'[c] # visit[c] => VisitOK(Tables', c, visit'[c])
  <2>1. \A c \in Conversations : CallOK(Tables', NoCall) /\ VisitOK(Tables', c, NoCall)
    BY NoCallOK
  <2>2. ASSUME NEW a \in Agents, call'[a] # call[a] PROVE CallOK(Tables', call'[a])
    <3>1. call'[a] = NoCall
      BY <1>2, <2>2
    <3>2. CallOK(Tables', NoCall)
      BY NoCallOK
    <3>3. QED
      BY <3>1, <3>2
  <2>3. ASSUME NEW c \in Conversations, visit'[c] # visit[c] PROVE VisitOK(Tables', c, visit'[c])
    <3>1. visit'[c] = NoCall
      BY <1>3, <2>3
    <3>2. QED
      BY <2>1, <3>1
  <2>4. QED
    BY <2>2, <2>3
<1>6. QED
  BY <1>0, <1>1, <1>2, <1>3, <1>4, <1>5, InvKept

\* Every step keeps the invariant.
LEMMA NextInv ==
    ASSUME HandoffInv, [Next]_vars
    PROVE  HandoffInv'
<1>0. scenario \in SUBSET Ticketed /\ route \in [Conversations -> SUBSET [Agents -> State]]
  BY Start DEF TypeOK
<1>1. CASE UNCHANGED vars
  BY <1>0, <1>1, NothingLoaded DEF vars
<1>2. ASSUME NEW c \in Conversations,
             \/ request_handoff(c) \/ request_webchat_handoff(c) \/ reclassify_case_scenario(c)
             \/ resume_stale_requested_handoff(c)
      PROVE  HandoffInv'
  <2>1. CASE request_handoff(c)
    <3>1. UNCHANGED <<call, visit, scenario, calls>> /\ route' = [route EXCEPT ![c] = {}]
      BY <2>1, Zenon DEF request_handoff
    <3>2. QED
      BY <1>0, <3>1, NothingLoaded
  <2>2. CASE request_webchat_handoff(c)
    <3>1. UNCHANGED <<call, visit, route, scenario, calls>>
      BY <2>2, Zenon DEF request_webchat_handoff
    <3>2. QED
      BY <1>0, <3>1, NothingLoaded
  <2>3. CASE resume_stale_requested_handoff(c)
    <3>1. UNCHANGED <<call, route, scenario, calls>> /\ visit' = [visit EXCEPT ![c] = NoCall]
      BY <2>3, Zenon DEF resume_stale_requested_handoff
    <3>2. QED
      BY <1>0, <3>1, NothingLoaded
  <2>4. CASE reclassify_case_scenario(c)
    <3>1. UNCHANGED <<call, visit, route, calls>> /\ scenario' \in SUBSET Ticketed
      BY <1>0, <2>4 DEF reclassify_case_scenario
    <3>2. QED
      BY <3>1, NothingLoaded
  <2>5. QED
    BY <1>2, <2>1, <2>2, <2>3, <2>4
<1>3. ASSUME NEW c \in Conversations, VisitorLoads(c)
      PROVE  HandoffInv'
  <2>1. /\ calls' \in 0..MaxCalls /\ visit' \in [Conversations -> Call] /\ call' = call
        /\ UNCHANGED <<req, conv, plan, agent, route, scenario>>
        /\ \A d \in Conversations : visit'[d] # visit[d] => VisitOK(Tables, d, visit'[d])
    BY <1>3, VisitorLoadsOK
  <2>2. Tables' = Tables /\ call' \in [Agents -> Call]
    BY <2>1, Start DEF Tables, TypeOK
  <2>3. Tables' \in TablesType /\ TablesOK(Tables') /\ Evolves(Tables, Tables')
    BY EveryStep
  <2>4. QED
    BY <1>0, <2>1, <2>2, <2>3, InvKept
<1>4. ASSUME NEW a \in Agents, LoadRequest(a) \/ LoadItsConversation(a) \/ LoadConversation(a)
      PROVE  HandoffInv'
  <2>1. /\ calls' \in 0..MaxCalls /\ call' \in [Agents -> Call] /\ visit' = visit
        /\ UNCHANGED <<req, conv, plan, agent, route, scenario>>
        /\ \A b \in Agents : call'[b] # call[b] => CallOK(Tables, call'[b])
    BY <1>4, LoadsOK
  <2>2. Tables' = Tables /\ visit' \in [Conversations -> Call]
    BY <2>1, Start DEF Tables, TypeOK
  <2>3. Tables' \in TablesType /\ TablesOK(Tables') /\ Evolves(Tables, Tables')
    BY EveryStep
  <2>4. QED
    BY <1>0, <2>1, <2>2, <2>3, InvKept
<1>5. ASSUME NEW a \in Agents, FinishCall(a)
      PROVE  HandoffInv'
  <2>1. Return(a)
    BY <1>5, Zenon DEF FinishCall, accept_handoff_request, Accept, release_handoff_request,
                       resume_ai_for_handoff, close_conversation, Finish
  <2>2. UNCHANGED <<visit, route, scenario, calls>> /\ call' = [call EXCEPT ![a] = NoCall]
    BY <2>1 DEF Return
  <2>3. QED
    BY <1>0, <2>2, NothingLoaded
<1>6. ASSUME NEW a \in Agents,
             \/ decline_handoff_request(a) \/ force_takeover_ticket(a)
             \/ heartbeat_agent(a) \/ set_agent_state(a)
             \/ set_operator_agent_capacity(a) \/ HeartbeatLapses(a)
      PROVE  HandoffInv'
  <2>1. UNCHANGED <<call, visit, route, scenario, calls>>
    BY <1>6, Zenon DEF decline_handoff_request, force_takeover_ticket, heartbeat_agent,
                       set_agent_state, set_operator_agent_capacity, ChangeState, HeartbeatLapses
  <2>2. QED
    BY <1>0, <2>1, NothingLoaded
<1>7. ASSUME NEW r \in Requests, reconcile_stale_text_handoffs(r) \/ RetryFallsDue(r)
      PROVE  HandoffInv'
  <2>1. UNCHANGED <<call, visit, route, scenario, calls>>
    BY <1>7, Zenon DEF reconcile_stale_text_handoffs, RetryFallsDue
  <2>2. QED
    BY <1>0, <2>1, NothingLoaded
<1>8. ASSUME NEW c \in Conversations, eligible_agents(c)
      PROVE  HandoffInv'
  <2>1. /\ UNCHANGED <<req, conv, plan, agent, call, visit, scenario>>
        /\ route' = [route EXCEPT ![c] = {agent}]
        /\ calls < MaxCalls /\ calls' = calls + 1
    BY <1>8, Zenon DEF eligible_agents, CountCall
  <2>2. route' \in [Conversations -> SUBSET [Agents -> State]] /\ calls' \in 0..MaxCalls
    BY <1>0, <2>1, Start, RoutingAssumption DEF TypeOK
  <2>3. call' \in [Agents -> Call] /\ visit' \in [Conversations -> Call]
    BY <2>1, Start DEF TypeOK
  <2>4. Tables' \in TablesType /\ TablesOK(Tables') /\ Evolves(Tables, Tables')
    BY EveryStep
  <2>5. QED
    BY <1>0, <2>1, <2>2, <2>3, <2>4, InvKept
<1>9. QED
  BY <1>1, <1>2, <1>3, <1>4, <1>5, <1>6, <1>7, <1>8 DEF Next

-----------------------------------------------------------------------------
(* The theorems *)

\* Every reachable state satisfies the inductive invariant: however calls of
\* operators, visitors and the reconciler overlap.
THEOREM HandoffInvariant == Spec => []HandoffInv
<1>1. Init => HandoffInv
  BY InitInv
<1>2. HandoffInv /\ [Next]_vars => HandoffInv'
  BY NextInv
<1>3. QED
  BY <1>1, <1>2, PTL DEF Spec

\* Every variable keeps its domain; a plan never passes its last generation.
THEOREM RoutingTypeCorrect == Spec => []TypeOK
<1>1. HandoffInv => TypeOK
  BY DEF HandoffInv
<1>2. QED
  BY <1>1, HandoffInvariant, PTL

\* The agent whom ensure_can_reply_in_handoff lets reply stays one who has accepted
\* a request of the conversation, although rows are written over from stale loads,
\* except by the accept of an agent whose loaded conversation already named it.
THEOREM RepliersStayOwners == Spec => OwnershipKept
<1> DEFINE P == \A c \in Conversations :
                   Owned(c) /\ ~Owned(c)' => \E a \in Agents : AcceptsAgain(a, c)
<1>1. ASSUME HandoffInv, NEW c \in Conversations PROVE Owned(c) <=> RowOwned(Tables, c)
  <2>1. Tables.req = req /\ Tables.conv = conv
    BY <1>1, Start
  <2>2. \A r \in Requests : req[r].status = "accepted" => req[r].agent \in Agents
    BY <1>1, <2>1, Start DEF TablesOK, RowsOK
  <2>3. QED
    BY <2>1, <2>2 DEF Owned, Owner, RowOwned
<1>2. HandoffInv /\ [Next]_vars => P
  <2> SUFFICES ASSUME HandoffInv, [Next]_vars, NEW c \in Conversations, Owned(c), ~Owned(c)'
               PROVE  \E a \in Agents : AcceptsAgain(a, c)
    OBVIOUS
  <2>1. HandoffInv'
    BY NextInv
  <2>2. RowOwned(Tables, c)
    BY <1>1
  <2>3. Owned(c)' <=> RowOwned(Tables', c)
    <3>1. Tables'.req = req' /\ Tables'.conv = conv'
      BY DEF Tables
    <3>2. TablesOK(Tables')
      BY EveryStep
    <3>3. \A r \in Requests : req'[r].status = "accepted" => req'[r].agent \in Agents
      BY <3>1, <3>2 DEF TablesOK, RowsOK
    <3>4. QED
      BY <3>1, <3>3 DEF Owned, Owner, RowOwned
  <2>4. ReplyKept
    BY EveryStep
  <2>5. QED
    BY <2>2, <2>3, <2>4 DEF ReplyKept
<1>3. HandoffInv /\ [Next]_vars => [P]_vars
  BY <1>2
<1>4. QED
  BY <1>3, HandoffInvariant, PTL DEF Spec, OwnershipKept

\* No step gives an agent more open conversations than its capacity: assignment,
\* refill, takeover and the acceptance of a row loaded before somebody else
\* took the last place; the routing of a new request, no more than the capacity it
\* has loaded.
THEOREM CapacityIsRespected == Spec => CapacityRespected
<1> DEFINE P == \A a \in Agents :
                   active_agent_load(Tables, a)' > active_agent_load(Tables, a) =>
                       \/ active_agent_load(Tables, a)' <= agent'[a].capacity
                       \/ \E c \in Conversations : \E rows \in route[c] :
                             route'[c] = {} /\ active_agent_load(Tables, a)' <= rows[a].capacity
<1>1. HandoffInv /\ [Next]_vars => P
  <2> SUFFICES ASSUME HandoffInv, [Next]_vars, NEW a \in Agents,
                      active_agent_load(Tables', a) > active_agent_load(Tables, a)
               PROVE  \/ active_agent_load(Tables', a) <= agent'[a].capacity
                      \/ \E c \in Conversations : \E rows \in route[c] :
                            route'[c] = {} /\ active_agent_load(Tables', a) <= rows[a].capacity
    BY DEF active_agent_load
  <2>1. LoadKept
    BY EveryStep
  <2>2. ~(LoadSet(Tables', a) \subseteq LoadSet(Tables, a))
    <3>1. /\ IsFiniteSet(LoadSet(Tables, a))
          /\ active_agent_load(Tables, a) = Cardinality(LoadSet(Tables, a))
          /\ active_agent_load(Tables', a) = Cardinality(LoadSet(Tables', a))
          /\ active_agent_load(Tables, a) \in Nat /\ active_agent_load(Tables', a) \in Nat
      BY LoadIsFinite
    <3>2. LoadSet(Tables', a) \subseteq LoadSet(Tables, a) =>
             Cardinality(LoadSet(Tables', a)) <= Cardinality(LoadSet(Tables, a))
      BY <3>1, FS_Subset
    <3>3. QED
      BY <3>1, <3>2
  <2>3. QED
    BY <2>1, <2>2 DEF LoadKept
<1>2. HandoffInv /\ [Next]_vars => [P]_vars
  BY <1>1
<1>3. QED
  BY <1>2, HandoffInvariant, PTL DEF Spec, CapacityRespected

\* A request with a plan is accepted by its plan, except by the refill at the end
\* of close_conversation, which asks none.
THEOREM AcceptedByPlans == Spec => AcceptedByPlan
<1> DEFINE P == \A r \in Requests :
                   /\ req[r].status # "accepted" /\ req'[r].status = "accepted"
                   /\ req'[r].conv \in Ticketed /\ plan'[r].status # "assigned"
                   => \E a \in Agents : close_conversation(a)
<1>1. HandoffInv /\ [Next]_vars => P
  <2> SUFFICES ASSUME HandoffInv, [Next]_vars, ~\E a \in Agents : close_conversation(a),
                      NEW r \in Requests,
                      req[r].status # "accepted", req'[r].status = "accepted",
                      req'[r].conv \in Ticketed
               PROVE  plan'[r].status = "assigned"
    BY Zenon
  <2>1. Planned(Tables, Tables')
    BY EveryStep
  <2>2. Tables.req = req /\ Tables'.req = req' /\ Tables'.plan = plan'
    BY DEF Tables
  <2>3. QED
    BY <2>1, <2>2 DEF Planned
<1>2. HandoffInv /\ [Next]_vars => [P]_vars
  BY <1>1
<1>3. QED
  BY <1>2, HandoffInvariant, PTL DEF Spec, AcceptedByPlan
=============================================================================
