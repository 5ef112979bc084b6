----------------------------- MODULE AgentTurns -----------------------------
(***************************************************************************)
(* Agent turns and their token budgets (agents.py).                        *)
(*                                                                         *)
(* A request runs one turn, or dispatches one turn each to several agents, *)
(* in one READ COMMITTED transaction.  It comes from an administrator or   *)
(* from a Temporal activity, which is retried when it times out although   *)
(* the first request may still be running: a retry is a request like any   *)
(* other.  The agents are read once, at the start; their objects stay in   *)
(* the session's identity map for all the turns.  A turn resets the budget *)
(* window on a new day, compares agent and cohort spending with the caps,  *)
(* and records its log, its effect and the new budget.  An UPDATE of an    *)
(* agent holds its row to the end of the transaction.                      *)
(*                                                                         *)
(* Of what a turn does, text actions (post, reply, escalate, dm) differ    *)
(* from links (follow, like), of which one row may exist, and from idling. *)
(***************************************************************************)
EXTENDS Integers, Sequences, FiniteSetsExt

CONSTANTS
    Agents, Cohorts, NoCohort,
    Requests,      \* HTTP requests, retries included
    Passes,        \* the sequences of agents a request may run turns for
    AgentCap,      \* per cohort of the agent: the smaller of its budget and the hard cap
    CohortCap,     \* cohort_daily_token_hard_cap
    TextCosts,     \* what generated text can cost
    FlatCost,      \* the cost of a turn without text
    FallbackCost,  \* the cost of a text turn that finds nobody to address
    MaxRunning,    \* bound: requests in progress at once
    MaxDay,        \* bound: days
    MaxMoves       \* bound: cohort assignments

ASSUME ConstantsAssumption ==
    /\ IsFiniteSet(Agents) /\ IsFiniteSet(Requests)
    /\ NoCohort \notin Cohorts
    /\ Passes \subseteq Seq(Agents)
    /\ \A p \in Passes : IsInjective(p)  \* a dispatch selects each agent once
    /\ AgentCap \in [Cohorts \cup {NoCohort} -> Nat]
    /\ CohortCap \in Nat
    /\ TextCosts \subseteq Nat /\ FlatCost \in Nat /\ FallbackCost \in Nat
    /\ \A c \in TextCosts : FallbackCost <= c
    /\ MaxRunning \in Nat /\ MaxDay \in Nat \ {0} /\ MaxMoves \in Nat

VARIABLES
    budget,  \* agents.budget_state: spent_today_tokens and last_reset_date
    cohort,  \* agents.primary_cohort_id
    logs,    \* agent_turn_logs; window and link are what the turn was charged to and made
    links,   \* agents whose follow or like row exists
    day,     \* the date of datetime.now(UTC)
    moves,   \* cohort assignments so far
    pc,      \* where each request is
    pass,    \* the agents it runs turns for
    next,    \* which of them is next
    mine,    \* its session's objects of the agents
    plan,    \* the turn it decided
    own,     \* turn logs it flushed
    linked,  \* agents whose link row it flushed
    held     \* agents whose row it flushed, and so holds

tables == <<budget, cohort, logs, links>>
session == <<pass, next, mine, plan, own, linked, held>>
vars == <<tables, day, moves, pc, session>>

Kinds == {"text", "link", "idle"}
Unloaded == [a \in Agents |-> [spent |-> 0, on |-> 1, cohort |-> NoCohort]]
NoPlan == [kind |-> "idle", cost |-> 0, new |-> FALSE]
Running == {r \in Requests : pc[r] \in {"turn", "record"}}
Tokens(L) == SumFunctionOnSet([l \in L |-> l.cost], L)

CostsOf(kind) == IF kind = "text" THEN TextCosts ELSE {FlatCost}

Init ==
    /\ budget = [a \in Agents |-> [spent |-> 0, on |-> 1]]
    /\ cohort \in [Agents -> Cohorts \cup {NoCohort}]
    /\ logs = {}
    /\ links = {}
    /\ day = 1
    /\ moves = 0
    /\ pc = [r \in Requests |-> "new"]
    /\ pass = [r \in Requests |-> <<>>]
    /\ next = [r \in Requests |-> 1]
    /\ mine = [r \in Requests |-> Unloaded]
    /\ plan = [r \in Requests |-> NoPlan]
    /\ own = [r \in Requests |-> {}]
    /\ linked = [r \in Requests |-> {}]
    /\ held = [r \in Requests |-> {}]

\* The session is closed, and with it go its objects and its locks.
Close(r) ==
    /\ pc' = [pc EXCEPT ![r] = "done"]
    /\ next' = [next EXCEPT ![r] = 1]
    /\ mine' = [mine EXCEPT ![r] = Unloaded]
    /\ plan' = [plan EXCEPT ![r] = NoPlan]
    /\ own' = [own EXCEPT ![r] = {}]
    /\ linked' = [linked EXCEPT ![r] = {}]
    /\ held' = [held EXCEPT ![r] = {}]

\* A rolled back request leaves nothing behind.
Rollback(r) == Close(r) /\ UNCHANGED pass

-----------------------------------------------------------------------------
(* Requests *)

\* The agent of the route, or the active agents the dispatch selects.
Load(r) ==
    /\ pc[r] = "new"
    /\ Cardinality(Running) < MaxRunning
    /\ \E p \in Passes : pass' = [pass EXCEPT ![r] = p]
    /\ mine' = [mine EXCEPT ![r] = [a \in Agents |->
         [spent |-> budget[a].spent, on |-> budget[a].on, cohort |-> cohort[a]]]]
    /\ pc' = [pc EXCEPT ![r] = "turn"]
    /\ UNCHANGED <<tables, day, moves, next, plan, own, linked, held>>

Current(r) == pass[r][next[r]]
Free(r, a) == \A q \in Requests \ {r} : a \notin held[q]

\* _reset_budget_window on the session's object.
Reset(agent) ==
    IF agent.on = day THEN agent ELSE [agent EXCEPT !.spent = 0, !.on = day]

\* Variant: the turns the request itself has flushed are not seen.
CohortSpentCommitted(r, c) ==
    Tokens({l \in logs : cohort[l.agent] = c /\ l.status = "completed" /\ l.day = day})

\* _cohort_spent_today: the completed logs of today of the agents now in the
\* cohort, the request's own flushed ones among them.
CohortSpent(r, c) ==
    Tokens({l \in logs \cup own[r] : cohort[l.agent] = c /\ l.status = "completed"
                                     /\ l.day = day})

\* The caps that block a turn before it is paid for, and because of its cost.
Reached(r, agent) ==
    \/ AgentCap[agent.cohort] <= agent.spent
    \/ agent.cohort # NoCohort /\ CohortSpent(r, agent.cohort) >= CohortCap
Exceeded(r, agent, cost) ==
    \/ agent.spent + cost > AgentCap[agent.cohort]
    \/ agent.cohort # NoCohort /\ CohortSpent(r, agent.cohort) + cost > CohortCap

\* Variant: only a cap that was reached blocks.
BlockedWhenReached(r, agent, cost) == Reached(r, agent)

\* The four returns of _blocked_turn.
Blocked(r, agent, cost) == Reached(r, agent) \/ Exceeded(r, agent, cost)

LogOf(r, status, cost, link) ==
    [by |-> r, agent |-> Current(r), status |-> status, cost |-> cost,
     day |-> day, window |-> mine'[r][Current(r)].on, link |-> link]

\* Reset the window, plan an action, and let the caps block it or not.  The
\* first flush after a reset takes the row.  A link is new if there is a target
\* and no row yet.
Decide(r) ==
    /\ pc[r] = "turn"
    /\ next[r] <= Len(pass[r])
    /\ LET a == Current(r)
           agent == Reset(mine[r][a])
       IN  /\ IF agent = mine[r][a]
              THEN UNCHANGED held
              ELSE Free(r, a) /\ held' = [held EXCEPT ![r] = @ \cup {a}]
           /\ mine' = [mine EXCEPT ![r][a] = agent]
           /\ \E kind \in Kinds : \E cost \in CostsOf(kind) :
                \/ /\ Blocked(r, agent, cost)
                   /\ own' = [own EXCEPT ![r] = @ \cup {LogOf(r, "blocked",
                        IF Reached(r, agent) THEN 0 ELSE cost, FALSE)}]
                   /\ next' = [next EXCEPT ![r] = @ + 1]
                   /\ UNCHANGED <<pc, plan>>
                \/ /\ ~Blocked(r, agent, cost)
                   /\ \E new \in BOOLEAN :
                        /\ new => kind = "link" /\ a \notin links \cup linked[r]
                        /\ plan' = [plan EXCEPT ![r] =
                             [kind |-> kind, cost |-> cost, new |-> new]]
                   /\ pc' = [pc EXCEPT ![r] = "record"]
                   /\ UNCHANGED <<own, next>>
    /\ UNCHANGED <<tables, day, moves, pass, linked>>

\* Variants: the sign of the cost, and a charge to the budget in the database, which
\* does not know of the session's reset.
ChargeRefunded(r, a, cost) == [mine[r][a] EXCEPT !.spent = @ - cost]
ChargeStored(r, a, cost) == [mine[r][a] EXCEPT !.spent = budget[a].spent + cost]

\* The new budget_state: what the session's object says, plus the cost.
Charge(r, a, cost) == [mine[r][a] EXCEPT !.spent = @ + cost]

\* Variant: without the unique constraints of likes and follows.
TakenNever(r, a) == FALSE

\* The unique constraint of the link was taken since the row was looked for.
Taken(r, a) == plan[r].new /\ a \in links

\* The effect, the log and the new budget are flushed, after the requests that
\* hold the same rows have ended; a link that exists by then raises.
Record(r) ==
    /\ pc[r] = "record"
    /\ LET a == Current(r)
       IN  /\ Free(r, a)
           /\ plan[r].new => \A q \in Requests \ {r} : a \notin linked[q]
           /\ \/ Taken(r, a) /\ Rollback(r)
              \/ /\ ~Taken(r, a)
                 /\ \E cost \in {plan[r].cost} \cup
                                (IF plan[r].kind = "text" THEN {FallbackCost} ELSE {}) :
                      /\ mine' = [mine EXCEPT ![r][a] = Charge(r, a, cost)]
                      /\ own' = [own EXCEPT ![r] =
                           @ \cup {LogOf(r, "completed", cost, plan[r].new)}]
                 /\ linked' = IF plan[r].new THEN [linked EXCEPT ![r] = @ \cup {a}] ELSE linked
                 /\ held' = [held EXCEPT ![r] = @ \cup {a}]
                 /\ next' = [next EXCEPT ![r] = @ + 1]
                 /\ plan' = [plan EXCEPT ![r] = NoPlan]
                 /\ pc' = [pc EXCEPT ![r] = "turn"]
                 /\ UNCHANGED pass
    /\ UNCHANGED <<tables, day, moves>>

\* Only the agents the session changed are updated.
Commit(r) ==
    /\ pc[r] = "turn"
    /\ next[r] > Len(pass[r])
    /\ budget' = [a \in Agents |->
         IF a \in held[r] THEN [spent |-> mine[r][a].spent, on |-> mine[r][a].on]
                          ELSE budget[a]]
    /\ logs' = logs \cup own[r]
    /\ links' = links \cup linked[r]
    /\ Close(r)
    /\ UNCHANGED <<cohort, day, moves, pass>>

\* Variant: the logs of the turns before the failing one are committed.
KeptOnFailure(r) == logs \cup own[r]

\* What is left of a request that fails.
Kept(r) == logs

\* An exception, a crash or a deadlock victim: the route never commits.
Fail(r) ==
    /\ r \in Running
    /\ logs' = Kept(r)
    /\ Close(r)
    /\ UNCHANGED <<budget, cohort, links, day, moves, pass>>

-----------------------------------------------------------------------------
(* The environment *)

NewDay ==
    /\ day < MaxDay
    /\ day' = day + 1
    /\ UNCHANGED <<tables, moves, pc, session>>

\* assign_agent_cohort
AssignCohort(a, c) ==
    /\ moves < MaxMoves
    /\ cohort[a] # c
    /\ \A r \in Requests : a \notin held[r]
    /\ cohort' = [cohort EXCEPT ![a] = c]
    /\ moves' = moves + 1
    /\ UNCHANGED <<budget, logs, links, day, pc, session>>

Next ==
    \/ \E r \in Requests : Load(r) \/ Decide(r) \/ Record(r) \/ Commit(r) \/ Fail(r)
    \/ NewDay
    \/ \E a \in Agents, c \in Cohorts : AssignCohort(a, c)

Spec == Init /\ [][Next]_vars

-----------------------------------------------------------------------------
(* Properties *)

Days == 1 .. MaxDay
Logs == [by : Requests, agent : Agents, status : {"completed", "blocked"}, cost : Nat,
         day : Days, window : Days, link : BOOLEAN]

TypeOK ==
    /\ budget \in [Agents -> [spent : Nat, on : Days]]
    /\ cohort \in [Agents -> Cohorts \cup {NoCohort}]
    /\ logs \subseteq Logs
    /\ links \subseteq Agents
    /\ day \in Days
    /\ moves \in 0 .. MaxMoves
    /\ pc \in [Requests -> {"new", "turn", "record", "done"}]
    /\ pass \in [Requests -> Passes \cup {<<>>}]
    /\ next \in [Requests -> Nat \ {0}]
    /\ mine \in [Requests -> [Agents ->
         [spent : Nat, on : Days, cohort : Cohorts \cup {NoCohort}]]]
    /\ plan \in [Requests -> [kind : Kinds, cost : Nat, new : BOOLEAN]]
    /\ own \in [Requests -> SUBSET Logs]
    /\ linked \in [Requests -> SUBSET Agents]
    /\ held \in [Requests -> SUBSET Agents]

Completed == {l \in logs : l.status = "completed"}
Charged(a, d) == Tokens({l \in Completed : l.agent = a /\ l.window = d})

\* When requests run one at a time, what an agent has spent today is what its
\* completed turns cost, whatever was blocked, fell back, failed or straddled
\* midnight (execute_agent_turn).
BudgetIsLedger == \A a \in Agents : budget[a].spent = Charged(a, budget[a].on)

\* The hard cap holds for what an agent's turns really cost, day by day.
DailyCapHeld ==
    \A a \in Agents, d \in Days :
        \E c \in Cohorts \cup {NoCohort} : Charged(a, d) <= AgentCap[c]

\* The cohort cap holds for the logs of a day, though a request adds several turns
\* before it commits and a turn may straddle midnight.
CohortCapHeld ==
    \A c \in Cohorts, d \in Days :
        Tokens({l \in Completed : cohort[l.agent] = c /\ l.day = d}) <= CohortCap

\* Whatever races, the stored budget never claims more than the logs bear out, so a
\* turn is never blocked for tokens nobody spent ...
NeverOvercharged ==
    \A a \in Agents : budget[a].spent <= Charged(a, budget[a].on)

\* ... and never exceeds the largest cap.
SpentWithinCap ==
    \A a \in Agents : \E c \in Cohorts \cup {NoCohort} : budget[a].spent <= AgentCap[c]

\* A dispatch leaves one log for each of its agents, or none at all.
WholeRequest ==
    \A r \in Requests :
        LET logged == {l \in logs : l.by = r}
        IN  logged # {} =>
              /\ {l.agent : l \in logged} = {pass[r][i] : i \in DOMAIN pass[r]}
              /\ Cardinality(logged) = Len(pass[r])

\* However turns race, an agent's follow or like is made by one turn at most, and
\* every link has its turn.
LinkedOnce ==
    \A a \in Agents :
        Cardinality({l \in logs : l.agent = a /\ l.link}) = IF a \in links THEN 1 ELSE 0
=============================================================================
