-------------------------- MODULE AgentTurnsProofs --------------------------
(***************************************************************************)
(* Theorems about agent turns for any agents, caps, costs and requests.    *)
(***************************************************************************)
EXTENDS AgentTurns, SumLemmas, SequenceTheorems, TLAPS

USE ConstantsAssumption

-----------------------------------------------------------------------------
(* Types.  A request decides and records a turn only for an agent of its     *)
(* pass.                                                                     *)

InPass == \A r \in Requests : pc[r] = "record" => next[r] <= Len(pass[r])
TypeInv == TypeOK /\ InPass

LEMMA InitType == Init => TypeInv
  BY DEF Init, TypeInv, TypeOK, InPass, Days, Unloaded, NoPlan, Kinds

\* The agent a request has reached is one of the agents.
LEMMA CurrentIsAgent ==
    ASSUME TypeOK, NEW r \in Requests, next[r] <= Len(pass[r])
    PROVE  Current(r) \in Agents
<1>1. pass[r] \in Seq(Agents) /\ next[r] \in Nat \ {0}
  BY DEF TypeOK
<1>2. next[r] \in 1 .. Len(pass[r])
  BY <1>1
<1>. QED  BY <1>1, <1>2, ElementOfSeq DEF Current

\* Closing a session keeps the types of everything it touches.
LEMMA CloseType ==
    ASSUME TypeInv, NEW r \in Requests, Close(r)
    PROVE  /\ pc' \in [Requests -> {"new", "turn", "record", "done"}]
           /\ next' \in [Requests -> Nat \ {0}]
           /\ mine' \in [Requests -> [Agents ->
                [spent : Nat, on : Days, cohort : Cohorts \cup {NoCohort}]]]
           /\ plan' \in [Requests -> [kind : Kinds, cost : Nat, new : BOOLEAN]]
           /\ own' \in [Requests -> SUBSET Logs]
           /\ linked' \in [Requests -> SUBSET Agents]
           /\ held' \in [Requests -> SUBSET Agents]
           /\ \A q \in Requests : pc'[q] = "record" => q # r /\ pc[q] = "record" /\ next'[q] = next[q]
<1>1. Unloaded \in [Agents -> [spent : Nat, on : Days, cohort : Cohorts \cup {NoCohort}]]
  BY DEF Unloaded, Days
<1>2. NoPlan \in [kind : Kinds, cost : Nat, new : BOOLEAN]
  BY DEF NoPlan, Kinds
<1>3. own' \in [Requests -> SUBSET Logs]
  BY DEF Close, TypeInv, TypeOK
<1>. QED  BY <1>1, <1>2, <1>3 DEF Close, TypeInv, TypeOK

LEMMA LoadType == ASSUME TypeInv, NEW r \in Requests, Load(r) PROVE TypeInv'
<1>1. PICK p \in Passes : pass' = [pass EXCEPT ![r] = p]
  BY DEF Load
<1>2. pass' \in [Requests -> Passes \cup {<<>>}]
  BY <1>1 DEF TypeInv, TypeOK
<1>3. mine' \in [Requests -> [Agents ->
          [spent : Nat, on : Days, cohort : Cohorts \cup {NoCohort}]]]
  BY DEF Load, TypeInv, TypeOK
<1>. QED  BY <1>2, <1>3 DEF Load, TypeInv, TypeOK, InPass, tables

\* A reset leaves an agent object of its type.
LEMMA ResetType ==
    ASSUME day \in Days, NEW agent \in [spent : Nat, on : Days, cohort : Cohorts \cup {NoCohort}]
    PROVE  Reset(agent) \in [spent : Nat, on : Days, cohort : Cohorts \cup {NoCohort}]
  BY DEF Reset

LEMMA CostsType == \A kind \in Kinds : CostsOf(kind) \subseteq Nat
  BY DEF CostsOf

LEMMA DecideType == ASSUME TypeInv, NEW r \in Requests, Decide(r) PROVE TypeInv'
<1> DEFINE a == Current(r)
<1> DEFINE agent == Reset(mine[r][a])
<1>1. a \in Agents
  BY CurrentIsAgent DEF Decide, TypeInv
<1>2. agent \in [spent : Nat, on : Days, cohort : Cohorts \cup {NoCohort}]
  BY <1>1, ResetType DEF TypeInv, TypeOK
<1>3. mine' = [mine EXCEPT ![r][a] = agent]
  BY DEF Decide
<1>4. /\ mine' \in [Requests -> [Agents ->
           [spent : Nat, on : Days, cohort : Cohorts \cup {NoCohort}]]]
      /\ mine'[r][a] = agent
  BY <1>1, <1>2, <1>3 DEF TypeInv, TypeOK
<1>5. held' \in [Requests -> SUBSET Agents]
  <2>1. held \in [Requests -> SUBSET Agents]
    BY DEF TypeInv, TypeOK
  <2>2. CASE held' = held
    BY <2>1, <2>2
  <2>3. CASE held' = [held EXCEPT ![r] = @ \cup {a}]
    <3>1. held[r] \cup {a} \in SUBSET Agents
      BY <1>1, <2>1
    <3>. QED  BY <2>1, <2>3, <3>1
  <2>. QED  BY <2>2, <2>3 DEF Decide
<1>6. PICK kind \in Kinds, cost \in Nat :
        \/ /\ own' = [own EXCEPT ![r] = @ \cup {LogOf(r, "blocked",
                 IF Reached(r, agent) THEN 0 ELSE cost, FALSE)}]
           /\ next' = [next EXCEPT ![r] = @ + 1]
           /\ UNCHANGED <<pc, plan>>
        \/ /\ \E new \in BOOLEAN :
                plan' = [plan EXCEPT ![r] = [kind |-> kind, cost |-> cost, new |-> new]]
           /\ pc' = [pc EXCEPT ![r] = "record"]
           /\ UNCHANGED <<own, next>>
  BY CostsType DEF Decide
<1>7. CASE /\ own' = [own EXCEPT ![r] = @ \cup {LogOf(r, "blocked",
                IF Reached(r, agent) THEN 0 ELSE cost, FALSE)}]
           /\ next' = [next EXCEPT ![r] = @ + 1]
           /\ UNCHANGED <<pc, plan>>
  <2>1. LogOf(r, "blocked", IF Reached(r, agent) THEN 0 ELSE cost, FALSE) \in Logs
    BY <1>1, <1>2, <1>4 DEF LogOf, Logs, TypeInv, TypeOK
  <2>2. own' \in [Requests -> SUBSET Logs]
    BY <1>7, <2>1 DEF TypeInv, TypeOK
  <2>3. next' \in [Requests -> Nat \ {0}]
    BY <1>7 DEF TypeInv, TypeOK
  <2>4. pc[r] = "turn" /\ UNCHANGED <<tables, day, moves, pass, linked>>
    BY DEF Decide
  <2>5. InPass'
    BY <1>7, <2>4 DEF TypeInv, TypeOK, InPass
  <2>. QED  BY <1>4, <1>5, <1>7, <2>2, <2>3, <2>4, <2>5 DEF TypeInv, TypeOK, tables
<1>8. CASE /\ \E new \in BOOLEAN :
                plan' = [plan EXCEPT ![r] = [kind |-> kind, cost |-> cost, new |-> new]]
           /\ pc' = [pc EXCEPT ![r] = "record"]
           /\ UNCHANGED <<own, next>>
  <2>1. plan' \in [Requests -> [kind : Kinds, cost : Nat, new : BOOLEAN]]
    BY <1>8 DEF TypeInv, TypeOK
  <2>2. next[r] <= Len(pass[r]) /\ UNCHANGED <<tables, day, moves, pass, linked>>
    BY DEF Decide
  <2>3. InPass'
    BY <1>8, <2>2 DEF TypeInv, TypeOK, InPass
  <2>. QED  BY <1>4, <1>5, <1>8, <2>1, <2>2, <2>3 DEF TypeInv, TypeOK, tables
<1>. QED  BY <1>6, <1>7, <1>8

LEMMA RecordType == ASSUME TypeInv, NEW r \in Requests, Record(r) PROVE TypeInv'
<1> DEFINE a == Current(r)
<1>1. a \in Agents
  BY CurrentIsAgent DEF Record, TypeInv, InPass
<1>2. UNCHANGED <<tables, day, moves>>
  BY DEF Record
<1>3. CASE Rollback(r)
  BY <1>2, <1>3, CloseType DEF Rollback, TypeInv, TypeOK, InPass, tables
<1>4. CASE ~Taken(r, a)
  <2>1. PICK cost \in {plan[r].cost} \cup
                     (IF plan[r].kind = "text" THEN {FallbackCost} ELSE {}) :
          /\ mine' = [mine EXCEPT ![r][a] = Charge(r, a, cost)]
          /\ own' = [own EXCEPT ![r] = @ \cup {LogOf(r, "completed", cost, plan[r].new)}]
    BY <1>4 DEF Record
  <2>2. cost \in Nat /\ plan[r].new \in BOOLEAN
    BY <2>1 DEF TypeInv, TypeOK
  <2>3. Charge(r, a, cost) \in [spent : Nat, on : Days, cohort : Cohorts \cup {NoCohort}]
    <3>1. mine[r][a] \in [spent : Nat, on : Days, cohort : Cohorts \cup {NoCohort}]
      BY <1>1 DEF TypeInv, TypeOK
    <3>. QED  BY <2>2, <3>1 DEF Charge
  <2>4. /\ mine' \in [Requests -> [Agents ->
             [spent : Nat, on : Days, cohort : Cohorts \cup {NoCohort}]]]
        /\ mine'[r][a] = Charge(r, a, cost)
    BY <1>1, <2>1, <2>3 DEF TypeInv, TypeOK
  <2>5. LogOf(r, "completed", cost, plan[r].new) \in Logs
    BY <1>1, <2>2, <2>3, <2>4 DEF LogOf, Logs, TypeInv, TypeOK
  <2>6. own' \in [Requests -> SUBSET Logs]
    BY <2>1, <2>5 DEF TypeInv, TypeOK
  <2>7. /\ linked' = IF plan[r].new THEN [linked EXCEPT ![r] = @ \cup {a}] ELSE linked
        /\ held' = [held EXCEPT ![r] = @ \cup {a}]
        /\ next' = [next EXCEPT ![r] = @ + 1]
        /\ plan' = [plan EXCEPT ![r] = NoPlan]
        /\ pc' = [pc EXCEPT ![r] = "turn"]
        /\ UNCHANGED pass
    BY <1>4 DEF Record
  <2>8. /\ linked' \in [Requests -> SUBSET Agents]
        /\ held' \in [Requests -> SUBSET Agents]
        /\ next' \in [Requests -> Nat \ {0}]
        /\ plan' \in [Requests -> [kind : Kinds, cost : Nat, new : BOOLEAN]]
        /\ pc' \in [Requests -> {"new", "turn", "record", "done"}]
        /\ InPass'
    BY <1>1, <2>7 DEF TypeInv, TypeOK, InPass, NoPlan, Kinds
  <2>. QED  BY <1>2, <2>4, <2>6, <2>7, <2>8 DEF TypeInv, TypeOK, tables
<1>. QED  BY <1>3, <1>4 DEF Record

LEMMA EndType == ASSUME TypeInv, NEW r \in Requests, Commit(r) \/ Fail(r) PROVE TypeInv'
<1>1. Close(r)
  BY DEF Commit, Fail
<1>2. InPass'
  BY <1>1, CloseType DEF Commit, Fail, TypeInv, InPass
<1>3. CASE Commit(r)
  <2>1. budget' \in [Agents -> [spent : Nat, on : Days]]
    BY <1>3 DEF Commit, TypeInv, TypeOK
  <2>2. logs' \subseteq Logs /\ links' \subseteq Agents
    BY <1>3 DEF Commit, TypeInv, TypeOK
  <2>. QED  BY <1>1, <1>2, <1>3, <2>1, <2>2, CloseType DEF Commit, TypeInv, TypeOK
<1>4. CASE Fail(r)
  BY <1>1, <1>2, <1>4, CloseType DEF Fail, Kept, TypeInv, TypeOK
<1>. QED  BY <1>3, <1>4

LEMMA NextType == TypeInv /\ [Next]_vars => TypeInv'
<1> SUFFICES ASSUME TypeInv, [Next]_vars PROVE TypeInv'
  OBVIOUS
<1>1. CASE NewDay
  BY <1>1 DEF NewDay, TypeInv, TypeOK, InPass, Days, tables, session
<1>2. ASSUME NEW a \in Agents, NEW c \in Cohorts, AssignCohort(a, c) PROVE TypeInv'
  BY <1>2 DEF AssignCohort, TypeInv, TypeOK, InPass, session
<1>3. CASE UNCHANGED vars
  BY <1>3 DEF vars, tables, session, TypeInv, TypeOK, InPass
<1>. QED  BY <1>1, <1>2, <1>3, LoadType, DecideType, RecordType, EndType DEF Next

\* Every reachable state is well typed.
THEOREM TypeCorrect == Spec => []TypeOK
<1>1. TypeInv => TypeOK  BY DEF TypeInv
<1>. QED  BY <1>1, InitType, NextType, PTL DEF Spec

-----------------------------------------------------------------------------
(* No stored budget exceeds the largest cap.  Nor does the budget of any     *)
(* session's object, to which a decided turn may still add its cost.         *)

WithinCap(n) == \E c \in Cohorts \cup {NoCohort} : n <= AgentCap[c]

ObjectsWithinCap ==
    \A r \in Requests, a \in Agents : WithinCap(mine[r][a].spent)
PlansWithinCap ==
    \A r \in Requests : pc[r] = "record" =>
        /\ WithinCap(mine[r][Current(r)].spent + plan[r].cost)
        /\ plan[r].kind = "text" => FallbackCost <= plan[r].cost

CapInv == TypeInv /\ SpentWithinCap /\ ObjectsWithinCap /\ PlansWithinCap

LEMMA NothingWithinCap == WithinCap(0)
  BY DEF WithinCap

LEMMA LessWithinCap ==
    ASSUME NEW m \in Nat, NEW n \in Nat, m <= n, WithinCap(n)
    PROVE  WithinCap(m)
  BY DEF WithinCap

LEMMA InitCap == Init => CapInv
  BY InitType, NothingWithinCap
     DEF Init, CapInv, SpentWithinCap, WithinCap, ObjectsWithinCap, PlansWithinCap, Unloaded

LEMMA LoadCap == ASSUME CapInv, NEW r \in Requests, Load(r) PROVE CapInv'
<1>1. TypeInv'
  BY LoadType DEF CapInv
<1>2. SpentWithinCap'
  BY DEF Load, tables, CapInv, SpentWithinCap
<1>3. ObjectsWithinCap'
  BY DEF Load, CapInv, TypeInv, TypeOK, SpentWithinCap, ObjectsWithinCap, WithinCap
<1>4. \A q \in Requests : pc'[q] = "record" =>
        /\ q # r /\ pc[q] = "record" /\ mine'[q] = mine[q] /\ Current(q)' = Current(q)
        /\ plan'[q] = plan[q]
  BY DEF Load, CapInv, TypeInv, TypeOK, Current
<1>5. PlansWithinCap'
  BY <1>4 DEF CapInv, PlansWithinCap, WithinCap
<1>. QED  BY <1>1, <1>2, <1>3, <1>5 DEF CapInv

\* Deciding leaves the budgets of other objects alone; the one it may reset stays
\* within a cap, and a turn that is not blocked does with its cost.
LEMMA DecideCap == ASSUME CapInv, NEW r \in Requests, Decide(r) PROVE CapInv'
<1> DEFINE a == Current(r)
<1> DEFINE agent == Reset(mine[r][a])
<1>1. TypeInv'
  BY DecideType DEF CapInv
<1>2. a \in Agents
  BY CurrentIsAgent DEF Decide, CapInv, TypeInv
<1>3. agent \in [spent : Nat, on : Days, cohort : Cohorts \cup {NoCohort}]
  BY <1>2, ResetType DEF CapInv, TypeInv, TypeOK
<1>4. WithinCap(agent.spent)
  <2>1. mine[r][a] \in [spent : Nat, on : Days, cohort : Cohorts \cup {NoCohort}]
    BY <1>2 DEF CapInv, TypeInv, TypeOK
  <2>2. agent.spent = 0 \/ agent.spent = mine[r][a].spent
    BY <2>1 DEF Reset
  <2>3. WithinCap(mine[r][a].spent)
    BY <1>2 DEF CapInv, ObjectsWithinCap
  <2>. QED  BY <2>2, <2>3, NothingWithinCap
<1>5. /\ mine' = [mine EXCEPT ![r][a] = agent]
      /\ UNCHANGED <<tables, day, moves, pass, linked>>
  BY DEF Decide
<1>6. SpentWithinCap'
  BY <1>5 DEF tables, CapInv, SpentWithinCap
<1>7. \A q \in Requests, b \in Agents :
        mine'[q][b] = IF q = r /\ b = a THEN agent ELSE mine[q][b]
  BY <1>2, <1>5 DEF CapInv, TypeInv, TypeOK
<1>8. ObjectsWithinCap'
  BY <1>4, <1>7 DEF CapInv, ObjectsWithinCap, WithinCap
<1>9. PlansWithinCap'
  <2>1. PICK kind \in Kinds, cost \in Nat :
          /\ kind = "text" => FallbackCost <= cost
          /\ \/ next' = [next EXCEPT ![r] = @ + 1] /\ UNCHANGED <<pc, plan>>
             \/ /\ ~Blocked(r, agent, cost)
                /\ \E new \in BOOLEAN :
                     plan' = [plan EXCEPT ![r] = [kind |-> kind, cost |-> cost, new |-> new]]
                /\ pc' = [pc EXCEPT ![r] = "record"]
                /\ UNCHANGED <<own, next>>
    <3>1. \A kind \in Kinds : \A cost \in CostsOf(kind) :
            cost \in Nat /\ (kind = "text" => FallbackCost <= cost)
      BY DEF CostsOf
    <3>. QED  BY <3>1 DEF Decide
  <2>2. pc[r] = "turn"
    BY DEF Decide
  <2>3. \A q \in Requests \ {r} : pc'[q] = "record" =>
          /\ pc[q] = "record" /\ mine'[q] = mine[q] /\ plan'[q] = plan[q]
          /\ Current(q)' = Current(q)
    BY <1>5, <2>1 DEF CapInv, TypeInv, TypeOK, Current
  <2>4. CASE next' = [next EXCEPT ![r] = @ + 1] /\ UNCHANGED <<pc, plan>>
    BY <2>2, <2>3, <2>4 DEF CapInv, PlansWithinCap, WithinCap
  <2>5. CASE /\ ~Blocked(r, agent, cost)
             /\ \E new \in BOOLEAN :
                  plan' = [plan EXCEPT ![r] = [kind |-> kind, cost |-> cost, new |-> new]]
             /\ pc' = [pc EXCEPT ![r] = "record"]
             /\ UNCHANGED <<own, next>>
    <3>1. agent.spent + cost <= AgentCap[agent.cohort]
      BY <1>3, <2>1, <2>5 DEF Blocked, Exceeded
    <3>2. WithinCap(agent.spent + cost)
      BY <1>3, <3>1 DEF WithinCap
    <3>3. mine'[r][a] = agent /\ Current(r)' = a
      BY <1>2, <1>5, <1>7, <2>5 DEF Current
    <3>4. plan'[r].cost = cost /\ plan'[r].kind = kind
      BY <2>5 DEF CapInv, TypeInv, TypeOK
    <3>5. /\ WithinCap(mine'[r][Current(r)'].spent + plan'[r].cost)
          /\ plan'[r].kind = "text" => FallbackCost <= plan'[r].cost
      BY <2>1, <3>2, <3>3, <3>4
    <3>. QED  BY <2>3, <3>5 DEF CapInv, PlansWithinCap, WithinCap
  <2>. QED  BY <2>1, <2>4, <2>5
<1>. QED  BY <1>1, <1>6, <1>8, <1>9 DEF CapInv

\* A closed session has no objects and no plan left.
LEMMA CloseCap ==
    ASSUME CapInv, NEW r \in Requests, Close(r), UNCHANGED pass
    PROVE  ObjectsWithinCap' /\ PlansWithinCap'
<1>1. \A q \in Requests, b \in Agents :
        mine'[q][b].spent = IF q = r THEN 0 ELSE mine[q][b].spent
  BY DEF Close, Unloaded, CapInv, TypeInv, TypeOK
<1>2. ObjectsWithinCap'
  BY <1>1, NothingWithinCap DEF CapInv, ObjectsWithinCap, WithinCap
<1>3. \A q \in Requests : pc'[q] = "record" =>
        /\ pc[q] = "record" /\ mine'[q] = mine[q] /\ plan'[q] = plan[q]
        /\ Current(q)' = Current(q)
  BY DEF Close, CapInv, TypeInv, TypeOK, Current
<1>4. PlansWithinCap'
  BY <1>3 DEF CapInv, PlansWithinCap, WithinCap
<1>. QED  BY <1>2, <1>4

\* Recording a turn adds its cost, or the smaller cost of the fallback.
LEMMA RecordCap == ASSUME CapInv, NEW r \in Requests, Record(r) PROVE CapInv'
<1> DEFINE a == Current(r)
<1>1. TypeInv'
  BY RecordType DEF CapInv
<1>2. a \in Agents
  BY CurrentIsAgent DEF Record, CapInv, TypeInv, InPass
<1>3. SpentWithinCap'
  BY DEF Record, tables, CapInv, SpentWithinCap
<1>4. CASE Rollback(r)
  BY <1>1, <1>3, <1>4, CloseCap DEF Rollback, CapInv
<1>5. CASE ~Taken(r, a)
  <2>1. PICK cost \in {plan[r].cost} \cup
                     (IF plan[r].kind = "text" THEN {FallbackCost} ELSE {}) :
          mine' = [mine EXCEPT ![r][a] = Charge(r, a, cost)]
    BY <1>5 DEF Record
  <2>2. /\ mine[r][a] \in [spent : Nat, on : Days, cohort : Cohorts \cup {NoCohort}]
        /\ plan[r].cost \in Nat
    BY <1>2 DEF CapInv, TypeInv, TypeOK
  <2>3. /\ WithinCap(mine[r][a].spent + plan[r].cost)
        /\ plan[r].kind = "text" => FallbackCost <= plan[r].cost
    BY DEF Record, CapInv, PlansWithinCap
  <2>4. cost \in Nat /\ cost <= plan[r].cost
    BY <2>1, <2>2, <2>3
  <2>5. WithinCap(mine[r][a].spent + cost)
    <3>1. mine[r][a].spent + cost <= mine[r][a].spent + plan[r].cost
      BY <2>2, <2>4
    <3>. QED  BY <2>2, <2>3, <2>4, <3>1, LessWithinCap
  <2>6. Charge(r, a, cost).spent = mine[r][a].spent + cost
    BY <2>2 DEF Charge
  <2>7. \A q \in Requests, b \in Agents :
          mine'[q][b] = IF q = r /\ b = a THEN Charge(r, a, cost) ELSE mine[q][b]
    BY <1>2, <2>1 DEF CapInv, TypeInv, TypeOK
  <2>8. ObjectsWithinCap'
    BY <2>5, <2>6, <2>7 DEF CapInv, ObjectsWithinCap, WithinCap
  <2>9. \A q \in Requests : pc'[q] = "record" =>
          /\ pc[q] = "record" /\ mine'[q] = mine[q] /\ plan'[q] = plan[q]
          /\ Current(q)' = Current(q)
    <3>1. /\ pc' = [pc EXCEPT ![r] = "turn"]
          /\ plan' = [plan EXCEPT ![r] = NoPlan]
          /\ next' = [next EXCEPT ![r] = @ + 1]
          /\ UNCHANGED pass
      BY <1>5 DEF Record
    <3>. QED  BY <2>1, <3>1 DEF CapInv, TypeInv, TypeOK, Current
  <2>10. PlansWithinCap'
    BY <2>9 DEF CapInv, PlansWithinCap, WithinCap
  <2>. QED  BY <1>1, <1>3, <2>8, <2>10 DEF CapInv
<1>. QED  BY <1>4, <1>5 DEF Record

LEMMA EndCap == ASSUME CapInv, NEW r \in Requests, Commit(r) \/ Fail(r) PROVE CapInv'
<1>1. TypeInv'
  BY EndType DEF CapInv
<1>2. ObjectsWithinCap' /\ PlansWithinCap'
  BY CloseCap DEF Commit, Fail
<1>3. SpentWithinCap'
  <2>1. CASE Fail(r)
    BY <2>1 DEF Fail, CapInv, SpentWithinCap
  <2>2. CASE Commit(r)
    <3>1. \A b \in Agents :
            budget'[b].spent = mine[r][b].spent \/ budget'[b].spent = budget[b].spent
      BY <2>2 DEF Commit
    <3>. QED  BY <3>1 DEF CapInv, SpentWithinCap, ObjectsWithinCap, WithinCap
  <2>. QED  BY <2>1, <2>2
<1>. QED  BY <1>1, <1>2, <1>3 DEF CapInv

LEMMA NextCap == CapInv /\ [Next]_vars => CapInv'
<1> SUFFICES ASSUME CapInv, [Next]_vars PROVE CapInv'
  OBVIOUS
<1>1. TypeInv'
  BY NextType DEF CapInv
<1>2. CASE NewDay
  BY <1>1, <1>2 DEF NewDay, tables, session, CapInv, SpentWithinCap, ObjectsWithinCap,
                    PlansWithinCap, WithinCap, Current
<1>3. ASSUME NEW a \in Agents, NEW c \in Cohorts, AssignCohort(a, c) PROVE CapInv'
  BY <1>1, <1>3 DEF AssignCohort, session, CapInv, SpentWithinCap, ObjectsWithinCap,
                    PlansWithinCap, WithinCap, Current
<1>4. CASE UNCHANGED vars
  BY <1>1, <1>4 DEF vars, tables, session, CapInv, SpentWithinCap, ObjectsWithinCap,
                    PlansWithinCap, WithinCap, Current
<1>. QED  BY <1>2, <1>3, <1>4, LoadCap, DecideCap, RecordCap, EndCap DEF Next

\* However turns race, retry and fail, no stored budget exceeds the largest cap
\* (execute_agent_turn charges an object it has just compared with the cap).
THEOREM SpentStaysWithinCap == Spec => []SpentWithinCap
<1>1. CapInv => SpentWithinCap  BY DEF CapInv
<1>. QED  BY <1>1, InitCap, NextCap, PTL DEF Spec
-----------------------------------------------------------------------------
(* What a turn leaves in the session, for all invariants about the logs.     *)

\* A decided turn, or the log of one that is blocked.
LEMMA DecideStep ==
    ASSUME TypeInv, NEW r \in Requests, Decide(r)
    PROVE  LET a == Current(r)
               agent == Reset(mine[r][a])
           IN  /\ a \in Agents /\ pc[r] = "turn" /\ next[r] <= Len(pass[r])
               /\ mine' = [mine EXCEPT ![r][a] = agent]
               /\ UNCHANGED <<tables, day, moves, pass, linked>>
               /\ \/ \E l \in Logs :
                       /\ l.by = r /\ l.agent = a /\ l.status = "blocked" /\ ~l.link /\ l.day = day
                       /\ own' = [own EXCEPT ![r] = @ \cup {l}]
                       /\ next' = [next EXCEPT ![r] = @ + 1]
                       /\ UNCHANGED <<pc, plan>>
                  \/ \E cost \in Nat, p \in [kind : Kinds, cost : Nat, new : BOOLEAN] :
                       /\ p.cost = cost /\ (p.kind = "text" => FallbackCost <= cost)
                       /\ ~Blocked(r, agent, cost)
                       /\ p.new => a \notin links \cup linked[r]
                       /\ plan' = [plan EXCEPT ![r] = p]
                       /\ pc' = [pc EXCEPT ![r] = "record"]
                       /\ UNCHANGED <<own, next>>
<1> DEFINE a == Current(r)
           agent == Reset(mine[r][a])
<1>1. a \in Agents
  BY CurrentIsAgent DEF Decide, TypeInv
<1>2. /\ pc[r] = "turn" /\ next[r] <= Len(pass[r])
      /\ mine' = [mine EXCEPT ![r][a] = agent]
      /\ UNCHANGED <<tables, day, moves, pass, linked>>
  BY DEF Decide
<1>3. agent \in [spent : Nat, on : Days, cohort : Cohorts \cup {NoCohort}] /\ mine'[r][a] = agent
  BY <1>1, <1>2, ResetType DEF TypeInv, TypeOK
<1>4. PICK kind \in Kinds, cost \in Nat :
        /\ kind = "text" => FallbackCost <= cost
        /\ \/ /\ own' = [own EXCEPT ![r] = @ \cup {LogOf(r, "blocked",
                    IF Reached(r, agent) THEN 0 ELSE cost, FALSE)}]
              /\ next' = [next EXCEPT ![r] = @ + 1]
              /\ UNCHANGED <<pc, plan>>
           \/ /\ ~Blocked(r, agent, cost)
              /\ \E new \in BOOLEAN :
                   /\ new => a \notin links \cup linked[r]
                   /\ plan' = [plan EXCEPT ![r] = [kind |-> kind, cost |-> cost, new |-> new]]
              /\ pc' = [pc EXCEPT ![r] = "record"]
              /\ UNCHANGED <<own, next>>
  <2>1. \A kind \in Kinds : \A cost \in CostsOf(kind) :
          cost \in Nat /\ (kind = "text" => FallbackCost <= cost)
    BY DEF CostsOf
  <2>. QED  BY <2>1 DEF Decide
<1>5. cost \in Nat /\ (kind = "text" => FallbackCost <= cost)
  BY <1>4
<1>6. CASE /\ own' = [own EXCEPT ![r] = @ \cup {LogOf(r, "blocked",
                IF Reached(r, agent) THEN 0 ELSE cost, FALSE)}]
           /\ next' = [next EXCEPT ![r] = @ + 1]
           /\ UNCHANGED <<pc, plan>>
  <2> DEFINE l == LogOf(r, "blocked", IF Reached(r, agent) THEN 0 ELSE cost, FALSE)
  <2>1. l \in Logs
    BY <1>1, <1>3, <1>5 DEF LogOf, Logs, TypeInv, TypeOK
  <2>2. l.by = r /\ l.agent = a /\ l.status = "blocked" /\ ~l.link /\ l.day = day
    BY DEF LogOf
  <2> HIDE DEF l
  <2>. QED  BY <1>1, <1>2, <1>6, <2>1, <2>2 DEF l
<1>7. CASE /\ ~Blocked(r, agent, cost)
           /\ \E new \in BOOLEAN :
                /\ new => a \notin links \cup linked[r]
                /\ plan' = [plan EXCEPT ![r] = [kind |-> kind, cost |-> cost, new |-> new]]
           /\ pc' = [pc EXCEPT ![r] = "record"]
           /\ UNCHANGED <<own, next>>
  <2>1. PICK new \in BOOLEAN :
          /\ new => a \notin links \cup linked[r]
          /\ plan' = [plan EXCEPT ![r] = [kind |-> kind, cost |-> cost, new |-> new]]
    BY <1>7
  <2>2. \E p \in [kind : Kinds, cost : Nat, new : BOOLEAN] :
          p = [kind |-> kind, cost |-> cost, new |-> new]
    BY <1>5
  <2>. QED  BY <1>1, <1>2, <1>5, <1>7, <2>1, <2>2
<1>. QED  BY <1>4, <1>6, <1>7

\* A recorded turn, unless its link was taken.
LEMMA RecordStep ==
    ASSUME TypeInv, NEW r \in Requests, Record(r), ~Rollback(r)
    PROVE  LET a == Current(r)
           IN  /\ a \in Agents /\ pc[r] = "record" /\ next[r] <= Len(pass[r])
               /\ UNCHANGED <<tables, day, moves, pass>>
               /\ plan[r].new => a \notin links /\ \A q \in Requests \ {r} : a \notin linked[q]
               /\ \E l \in Logs :
                    /\ l.by = r /\ l.agent = a /\ l.status = "completed" /\ l.day = day
                    /\ l.link = plan[r].new /\ l.window = mine[r][a].on
                    /\ l.cost = plan[r].cost \/ (plan[r].kind = "text" /\ l.cost = FallbackCost)
                    /\ own' = [own EXCEPT ![r] = @ \cup {l}]
                    /\ mine' = [mine EXCEPT ![r][a].spent = @ + l.cost]
               /\ linked' = IF plan[r].new THEN [linked EXCEPT ![r] = @ \cup {a}] ELSE linked
               /\ held' = [held EXCEPT ![r] = @ \cup {a}]
               /\ next' = [next EXCEPT ![r] = @ + 1]
               /\ pc' = [pc EXCEPT ![r] = "turn"]
<1> DEFINE a == Current(r)
<1>1. a \in Agents /\ next[r] <= Len(pass[r])
  BY CurrentIsAgent DEF Record, TypeInv, InPass
<1>2. ~Taken(r, a)
  BY DEF Record
<1>3. PICK cost \in {plan[r].cost} \cup (IF plan[r].kind = "text" THEN {FallbackCost} ELSE {}) :
        /\ mine' = [mine EXCEPT ![r][a] = Charge(r, a, cost)]
        /\ own' = [own EXCEPT ![r] = @ \cup {LogOf(r, "completed", cost, plan[r].new)}]
  BY <1>2 DEF Record
<1>4. mine[r][a] \in [spent : Nat, on : Days, cohort : Cohorts \cup {NoCohort}] /\ plan[r].cost \in Nat
      /\ plan[r].new \in BOOLEAN /\ day \in Days
  BY <1>1 DEF TypeInv, TypeOK
<1>5. cost \in Nat
  BY <1>3, <1>4
<1>6. mine'[r][a].on = mine[r][a].on
  BY <1>1, <1>3 DEF Charge, TypeInv, TypeOK
<1> DEFINE l == LogOf(r, "completed", cost, plan[r].new)
<1>7. l \in Logs
  BY <1>1, <1>4, <1>5, <1>6 DEF LogOf, Logs
<1>8. /\ l.by = r /\ l.agent = a /\ l.status = "completed" /\ l.day = day
      /\ l.link = plan[r].new /\ l.window = mine[r][a].on /\ l.cost = cost
  BY <1>6 DEF LogOf
<1>9. mine' = [mine EXCEPT ![r][a].spent = @ + cost]
  BY <1>1, <1>3, <1>4 DEF Charge, TypeInv, TypeOK
<1>10. \E m \in Logs :
         /\ m.by = r /\ m.agent = a /\ m.status = "completed" /\ m.day = day
         /\ m.link = plan[r].new /\ m.window = mine[r][a].on
         /\ m.cost = plan[r].cost \/ (plan[r].kind = "text" /\ m.cost = FallbackCost)
         /\ own' = [own EXCEPT ![r] = @ \cup {m}]
         /\ mine' = [mine EXCEPT ![r][a].spent = @ + m.cost]
  <2> HIDE DEF l
  <2>. QED  BY <1>3, <1>7, <1>8, <1>9 DEF l
<1>11. /\ pc[r] = "record" /\ UNCHANGED <<tables, day, moves, pass>>
       /\ plan[r].new => \A q \in Requests \ {r} : a \notin linked[q]
       /\ linked' = IF plan[r].new THEN [linked EXCEPT ![r] = @ \cup {a}] ELSE linked
       /\ held' = [held EXCEPT ![r] = @ \cup {a}]
       /\ next' = [next EXCEPT ![r] = @ + 1]
       /\ pc' = [pc EXCEPT ![r] = "turn"]
  BY <1>2 DEF Record
<1>12. plan[r].new => a \notin links
  BY <1>2 DEF Taken
<1>. QED  BY <1>1, <1>10, <1>11, <1>12

-----------------------------------------------------------------------------
(* The logs a request has flushed are one for each of its turns so far, and  *)
(* none of a request that has ended or not begun; only requests that have    *)
(* ended have logs in the table.                                             *)

AgentsOf(L) == {l.agent : l \in L}
Before(p, n) == {p[i] : i \in 1 .. n - 1}

OwnTurns(r, L, p, n) ==
    /\ IsFiniteSet(L) /\ n <= Len(p) + 1
    /\ \A l \in L : l.by = r
    /\ AgentsOf(L) = Before(p, n)
    /\ Cardinality(L) = n - 1

FlushedInv ==
    /\ TypeInv
    /\ IsFiniteSet(logs)
    /\ \A l \in logs : pc[l.by] = "done"
    /\ \A r \in Requests :
         /\ OwnTurns(r, own[r], pass[r], next[r])
         /\ pc[r] \in {"new", "done"} => own[r] = {} /\ linked[r] = {} /\ next[r] = 1

LEMMA PassIsInjective ==
    ASSUME TypeOK, NEW r \in Requests
    PROVE  pass[r] \in Seq(Agents) /\ IsInjective(pass[r])
<1>1. CASE pass[r] \in Passes
  BY <1>1
<1>2. CASE pass[r] = <<>>
  <2>1. <<>> \in Seq(Agents) /\ DOMAIN <<>> = {}
    OBVIOUS
  <2>. QED  BY <1>2, <2>1 DEF IsInjective
<1>. QED  BY <1>1, <1>2 DEF TypeOK

LEMMA NoTurns ==
    ASSUME NEW r, NEW p \in Seq(Agents)
    PROVE  OwnTurns(r, {}, p, 1)
<1>1. AgentsOf({}) = {} /\ Before(p, 1) = {}
  BY DEF AgentsOf, Before
<1>2. 1 <= Len(p) + 1 /\ Cardinality({}) = 1 - 1 /\ IsFiniteSet({})
  BY FS_EmptySet
<1>. QED  BY <1>1, <1>2 DEF OwnTurns

\* The log of one more turn is a new one.
LEMMA OneMoreTurn ==
    ASSUME NEW r, NEW L, NEW p \in Seq(Agents), IsInjective(p), NEW n \in Nat \ {0}, n <= Len(p),
           OwnTurns(r, L, p, n), NEW l, l.by = r, l.agent = p[n]
    PROVE  l \notin L /\ OwnTurns(r, L \cup {l}, p, n + 1)
<1>1. \A i \in 1 .. n - 1 : p[i] # p[n]
  BY DEF IsInjective
<1>2. l \notin L
  <2>1. p[n] \notin Before(p, n)
    BY <1>1 DEF Before
  <2>2. l \in L => p[n] \in AgentsOf(L)
    BY DEF AgentsOf
  <2>. QED  BY <2>1, <2>2 DEF OwnTurns
<1>3. IsFiniteSet(L \cup {l}) /\ Cardinality(L \cup {l}) = n + 1 - 1
  <2>1. IsFiniteSet(L) /\ Cardinality(L) = n - 1
    BY DEF OwnTurns
  <2>2. IsFiniteSet(L \cup {l}) /\ Cardinality(L \cup {l}) = Cardinality(L) + 1
    BY <1>2, <2>1, FS_AddElement
  <2>. QED  BY <2>1, <2>2
<1>4. 1 .. n + 1 - 1 = (1 .. n - 1) \cup {n}
  OBVIOUS
<1>5. AgentsOf(L \cup {l}) = AgentsOf(L) \cup {p[n]}
  BY DEF AgentsOf
<1>6. Before(p, n + 1) = Before(p, n) \cup {p[n]}
  BY <1>4 DEF Before
<1>7. n + 1 <= Len(p) + 1
  OBVIOUS
<1>8. AgentsOf(L \cup {l}) = Before(p, n + 1)
  BY <1>5, <1>6 DEF OwnTurns
<1>9. \A m \in L \cup {l} : m.by = r
  BY DEF OwnTurns
<1>. QED  BY <1>2, <1>3, <1>7, <1>8, <1>9 DEF OwnTurns

LEMMA InitFlushed == Init => FlushedInv
<1> SUFFICES ASSUME Init PROVE FlushedInv
  OBVIOUS
<1>1. \A r \in Requests : OwnTurns(r, {}, <<>>, 1)
  <2>1. <<>> \in Seq(Agents)
    OBVIOUS
  <2>. QED  BY <2>1, NoTurns
<1>. QED  BY <1>1, InitType, FS_EmptySet DEF Init, FlushedInv

LEMMA LoadFlushed == ASSUME FlushedInv, NEW r \in Requests, Load(r) PROVE FlushedInv'
<1>1. TypeInv'
  BY LoadType DEF FlushedInv
<1>2. pass'[r] \in Seq(Agents)
  <2>1. pass'[r] \in Passes \cup {<<>>} /\ <<>> \in Seq(Agents)
    BY <1>1 DEF TypeInv, TypeOK
  <2>. QED  BY <2>1
<1>3. /\ pc[r] = "new" /\ own[r] = {} /\ next[r] = 1
      /\ UNCHANGED <<logs, own, next, linked>>
      /\ \A q \in Requests \ {r} : pass'[q] = pass[q] /\ pc'[q] = pc[q]
      /\ pc'[r] = "turn"
  BY DEF Load, tables, FlushedInv, TypeInv, TypeOK
<1>4. OwnTurns(r, own'[r], pass'[r], next'[r])
  BY <1>2, <1>3, NoTurns
<1>5. \A q \in Requests : OwnTurns(q, own'[q], pass'[q], next'[q])
  BY <1>3, <1>4 DEF FlushedInv
<1>6. \A l \in logs' : pc'[l.by] = "done"
  <2>1. \A l \in logs : l.by \in Requests
    BY DEF FlushedInv, TypeInv, TypeOK, Logs
  <2>. QED  BY <1>3, <2>1 DEF FlushedInv
<1>. QED  BY <1>1, <1>3, <1>5, <1>6 DEF FlushedInv

\* A turn that was blocked or recorded flushes the log of the agent reached.
LEMMA FlushOne ==
    ASSUME FlushedInv, NEW r \in Requests, pc[r] \in {"turn", "record"}, next[r] <= Len(pass[r]),
           NEW l \in Logs, l.by = r, l.agent = Current(r)
    PROVE  /\ l \notin logs \cup own[r]
           /\ OwnTurns(r, own[r] \cup {l}, pass[r], next[r] + 1)
<1>1. l \notin logs
  BY DEF FlushedInv
<1>2. l \notin own[r] /\ OwnTurns(r, own[r] \cup {l}, pass[r], next[r] + 1)
  <2>1. pass[r] \in Seq(Agents) /\ IsInjective(pass[r]) /\ next[r] \in Nat \ {0}
    BY PassIsInjective DEF FlushedInv, TypeInv, TypeOK
  <2>2. OwnTurns(r, own[r], pass[r], next[r]) /\ l.agent = pass[r][next[r]]
    BY DEF FlushedInv, Current
  <2>. QED  BY <2>1, <2>2, OneMoreTurn
<1>. QED  BY <1>1, <1>2

LEMMA DecideFlushed == ASSUME FlushedInv, NEW r \in Requests, Decide(r) PROVE FlushedInv'
<1>1. TypeInv'
  BY DecideType DEF FlushedInv
<1>2. TypeInv
  BY DEF FlushedInv
<1>3. /\ pc[r] = "turn" /\ next[r] <= Len(pass[r])
      /\ UNCHANGED <<logs, pass, linked>>
  BY DEF Decide, tables
<1>4. CASE \E l \in Logs :
             /\ l.by = r /\ l.agent = Current(r)
             /\ own' = [own EXCEPT ![r] = @ \cup {l}]
             /\ next' = [next EXCEPT ![r] = @ + 1]
             /\ UNCHANGED pc
  <2>1. PICK l \in Logs :
             /\ l.by = r /\ l.agent = Current(r)
             /\ own' = [own EXCEPT ![r] = @ \cup {l}]
             /\ next' = [next EXCEPT ![r] = @ + 1]
             /\ UNCHANGED pc
    BY <1>4
  <2>2. OwnTurns(r, own[r] \cup {l}, pass[r], next[r] + 1)
    BY <1>3, <2>1, FlushOne
  <2>3. \A q \in Requests : OwnTurns(q, own'[q], pass'[q], next'[q])
    BY <1>3, <2>1, <2>2 DEF FlushedInv, TypeInv, TypeOK
  <2>4. \A q \in Requests : pc'[q] \in {"new", "done"} =>
           q # r /\ own'[q] = own[q] /\ next'[q] = next[q] /\ pc[q] = pc'[q]
    BY <1>3, <2>1 DEF FlushedInv, TypeInv, TypeOK
  <2>. QED  BY <1>1, <1>3, <2>1, <2>3, <2>4 DEF FlushedInv
<1>5. CASE pc' = [pc EXCEPT ![r] = "record"] /\ UNCHANGED <<own, next>>
  <2>1. \A q \in Requests : pc'[q] \in {"new", "done"} => pc[q] = pc'[q]
    BY <1>5 DEF FlushedInv, TypeInv, TypeOK
  <2>2. \A l \in logs : l.by \in Requests /\ l.by # r
    BY <1>3 DEF FlushedInv, TypeInv, TypeOK, Logs
  <2>3. \A l \in logs : pc'[l.by] = "done"
    BY <1>5, <2>2 DEF FlushedInv, TypeInv, TypeOK
  <2>. QED  BY <1>1, <1>3, <1>5, <2>1, <2>3 DEF FlushedInv
<1>. QED  BY <1>2, <1>4, <1>5, DecideStep

LEMMA CloseFlushed ==
    ASSUME FlushedInv, TypeInv', NEW r \in Requests, Close(r), UNCHANGED pass,
           logs' \subseteq logs \cup own[r]
    PROVE  FlushedInv'
<1>1. pass[r] \in Seq(Agents)
  BY PassIsInjective DEF FlushedInv, TypeInv
<1>2. /\ own'[r] = {} /\ next'[r] = 1 /\ linked'[r] = {} /\ pc'[r] = "done"
      /\ \A q \in Requests \ {r} : /\ own'[q] = own[q] /\ next'[q] = next[q]
                                   /\ linked'[q] = linked[q] /\ pc'[q] = pc[q]
  BY DEF Close, FlushedInv, TypeInv, TypeOK
<1>3. \A q \in Requests : OwnTurns(q, own'[q], pass'[q], next'[q])
  <2>1. OwnTurns(r, own'[r], pass'[r], next'[r])
    BY <1>1, <1>2, NoTurns
  <2>2. \A q \in Requests \ {r} : OwnTurns(q, own'[q], pass'[q], next'[q])
    BY <1>2 DEF FlushedInv
  <2>. QED  BY <2>1, <2>2
<1>4. IsFiniteSet(logs')
  <2>1. IsFiniteSet(logs \cup own[r])
    BY FS_Union DEF FlushedInv, OwnTurns
  <2>. QED  BY <2>1, FS_Subset
<1>5. \A l \in logs' : pc'[l.by] = "done"
  <2>1. \A l \in logs \cup own[r] : l.by \in Requests /\ (l.by = r \/ pc[l.by] = "done")
    BY DEF FlushedInv, OwnTurns, TypeInv, TypeOK, Logs
  <2>. QED  BY <1>2, <2>1
<1>. QED  BY <1>2, <1>3, <1>4, <1>5 DEF FlushedInv

LEMMA RecordFlushed == ASSUME FlushedInv, NEW r \in Requests, Record(r) PROVE FlushedInv'
<1>1. TypeInv'
  BY RecordType DEF FlushedInv
<1>2. TypeInv
  BY DEF FlushedInv
<1>3. UNCHANGED logs
  BY DEF Record, tables
<1>4. CASE Rollback(r)
  BY <1>1, <1>3, <1>4, CloseFlushed DEF Rollback
<1>5. CASE ~Rollback(r)
  <2>1. /\ pc[r] = "record" /\ next[r] <= Len(pass[r]) /\ UNCHANGED pass
        /\ \A q \in Requests \ {r} : linked'[q] = linked[q]
        /\ next' = [next EXCEPT ![r] = @ + 1]
        /\ pc' = [pc EXCEPT ![r] = "turn"]
    <3>1. /\ pc[r] = "record" /\ next[r] <= Len(pass[r]) /\ UNCHANGED pass
          /\ linked' = IF plan[r].new THEN [linked EXCEPT ![r] = @ \cup {Current(r)}] ELSE linked
          /\ next' = [next EXCEPT ![r] = @ + 1]
          /\ pc' = [pc EXCEPT ![r] = "turn"]
      BY <1>2, <1>5, RecordStep
    <3>2. \A q \in Requests \ {r} : linked'[q] = linked[q]
      BY <1>2, <3>1 DEF TypeInv, TypeOK
    <3>. QED  BY <3>1, <3>2
  <2>2. PICK l \in Logs : l.by = r /\ l.agent = Current(r) /\ own' = [own EXCEPT ![r] = @ \cup {l}]
    BY <1>2, <1>5, RecordStep
  <2>3. OwnTurns(r, own[r] \cup {l}, pass[r], next[r] + 1)
    BY <2>1, <2>2, FlushOne
  <2>4. \A q \in Requests : OwnTurns(q, own'[q], pass'[q], next'[q])
    BY <2>1, <2>2, <2>3 DEF FlushedInv, TypeInv, TypeOK
  <2>5. \A q \in Requests : pc'[q] \in {"new", "done"} =>
           q # r /\ own'[q] = own[q] /\ next'[q] = next[q] /\ pc[q] = pc'[q]
    BY <2>1, <2>2 DEF FlushedInv, TypeInv, TypeOK
  <2>6. \A m \in logs : m.by \in Requests /\ m.by # r
    BY <2>1 DEF FlushedInv, TypeInv, TypeOK, Logs
  <2>7. \A m \in logs : pc'[m.by] = "done"
    BY <2>1, <2>6 DEF FlushedInv, TypeInv, TypeOK
  <2>. QED  BY <1>1, <1>3, <2>1, <2>4, <2>5, <2>7 DEF FlushedInv
<1>. QED  BY <1>4, <1>5

LEMMA NextFlushed == FlushedInv /\ [Next]_vars => FlushedInv'
<1> SUFFICES ASSUME FlushedInv, [Next]_vars PROVE FlushedInv'
  OBVIOUS
<1>1. TypeInv'
  BY NextType DEF FlushedInv
<1>2. ASSUME NEW r \in Requests, Commit(r) \/ Fail(r) PROVE FlushedInv'
  BY <1>1, <1>2, CloseFlushed DEF Commit, Fail, Kept
<1>3. CASE NewDay \/ (\E a \in Agents, c \in Cohorts : AssignCohort(a, c)) \/ UNCHANGED vars
  <2>1. UNCHANGED <<logs, pc, own, pass, next, linked>>
    BY <1>3 DEF NewDay, AssignCohort, vars, tables, session
  <2>. QED  BY <1>1, <2>1 DEF FlushedInv
<1>. QED  BY <1>2, <1>3, LoadFlushed, DecideFlushed, RecordFlushed DEF Next

LEMMA FlushedLogs == Spec => []FlushedInv
  BY InitFlushed, NextFlushed, PTL DEF Spec

\* A dispatch leaves one log for each of its agents, or none at all
\* (dispatch_agent_turns flushes every turn and the route commits them together).
THEOREM DispatchIsWhole == Spec => []WholeRequest
<1>1. Init => WholeRequest
  BY DEF Init, WholeRequest
<1>2. FlushedInv /\ WholeRequest /\ [Next]_vars => WholeRequest'
  <2> SUFFICES ASSUME FlushedInv, WholeRequest, [Next]_vars,
                      NEW q \in Requests, {l \in logs' : l.by = q} # {}
               PROVE  LET logged == {l \in logs' : l.by = q}
                      IN  /\ {l.agent : l \in logged} = {pass'[q][i] : i \in DOMAIN pass'[q]}
                          /\ Cardinality(logged) = Len(pass'[q])
    BY DEF WholeRequest
  <2>1. CASE logs' = logs
    <3>1. pc[q] = "done"
      BY <2>1 DEF FlushedInv
    <3>2. pass'[q] = pass[q]
      <4>1. \A r \in Requests : Load(r) => r # q
        BY <3>1 DEF Load
      <4>2. ASSUME NEW r \in Requests, Load(r) PROVE pass'[q] = pass[q]
        BY <4>1, <4>2 DEF Load, FlushedInv, TypeInv, TypeOK
      <4>3. \/ UNCHANGED pass
            \/ \E r \in Requests : Load(r)
        BY DEF Next, Decide, Record, Rollback, Commit, Fail, NewDay, AssignCohort, vars, session
      <4>. QED  BY <4>2, <4>3
    <3>. QED  BY <2>1, <3>2 DEF WholeRequest
  <2>2. ASSUME NEW r \in Requests, Commit(r)
        PROVE  LET logged == {l \in logs' : l.by = q}
               IN  /\ {l.agent : l \in logged} = {pass'[q][i] : i \in DOMAIN pass'[q]}
                   /\ Cardinality(logged) = Len(pass'[q])
    <3>1. /\ pc[r] = "turn" /\ next[r] > Len(pass[r]) /\ UNCHANGED pass
          /\ logs' = logs \cup own[r]
      BY <2>2 DEF Commit
    <3>2. \A l \in own[r] : l.by = r
      BY DEF FlushedInv, OwnTurns
    <3>3. CASE q # r
      <4>1. {l \in logs' : l.by = q} = {l \in logs : l.by = q}
        BY <3>1, <3>2, <3>3
      <4>2. pass'[q] = pass[q]
        BY <3>1
      <4>3. {l \in logs : l.by = q} # {}
        BY <4>1
      <4> DEFINE logged == {l \in logs : l.by = q}
      <4>4. {l.agent : l \in logged} = {pass[q][i] : i \in DOMAIN pass[q]}
            /\ Cardinality(logged) = Len(pass[q])
        BY <4>3 DEF WholeRequest
      <4>. QED  BY <4>1, <4>2, <4>4, Zenon
    <3>4. CASE q = r
      <4>1. {l \in logs' : l.by = q} = own[r]
        BY <3>1, <3>2, <3>4 DEF FlushedInv
      <4>2. pass[r] \in Seq(Agents) /\ next[r] \in Nat
        BY PassIsInjective DEF FlushedInv, TypeInv, TypeOK
      <4>3. next[r] = Len(pass[r]) + 1
        BY <3>1, <4>2 DEF FlushedInv, OwnTurns
      <4>4. 1 .. next[r] - 1 = DOMAIN pass[r] /\ next[r] - 1 = Len(pass[r])
        BY <4>2, <4>3
      <4>5. {l.agent : l \in own[r]} = {pass[r][i] : i \in DOMAIN pass[r]}
            /\ Cardinality(own[r]) = Len(pass[r])
        BY <4>4 DEF FlushedInv, OwnTurns, AgentsOf, Before
      <4>6. pass'[q] = pass[r]
        BY <3>1, <3>4
      <4>. QED  BY <4>1, <4>5, <4>6, Zenon
    <3>. QED  BY <3>3, <3>4
  <2>3. logs' = logs \/ \E r \in Requests : Commit(r)
    BY DEF Next, Load, Decide, Record, Fail, Kept, NewDay, AssignCohort, vars, tables
  <2>. QED  BY <2>1, <2>2, <2>3
<1>. QED  BY <1>1, <1>2, FlushedLogs, PTL DEF Spec

-----------------------------------------------------------------------------
(* Every link row has the one log of the turn that made it, in the tables    *)
(* and in each session, and no two sessions hold a row for the same agent.   *)

LinksOf(L, a) == {l \in L : l.agent = a /\ l.link}
MadeBy(L, K) == \A a \in Agents : Cardinality(LinksOf(L, a)) = IF a \in K THEN 1 ELSE 0

LinkInv ==
    /\ FlushedInv
    /\ MadeBy(logs, links)
    /\ \A r \in Requests :
         /\ MadeBy(own[r], linked[r])
         /\ linked[r] \cap links = {}
         /\ \A q \in Requests \ {r} : linked[r] \cap linked[q] = {}
         /\ pc[r] = "record" /\ plan[r].new => Current(r) \notin linked[r]

LEMMA NothingMade == MadeBy({}, {})
<1>1. \A a \in Agents : LinksOf({}, a) = {}
  BY DEF LinksOf
<1>. QED  BY <1>1, FS_EmptySet DEF MadeBy

LEMMA OneMoreMade ==
    ASSUME NEW L, IsFiniteSet(L), NEW K, MadeBy(L, K),
           NEW l \in Logs, l \notin L, l.link => l.agent \notin K
    PROVE  MadeBy(L \cup {l}, IF l.link THEN K \cup {l.agent} ELSE K)
<1> SUFFICES ASSUME NEW a \in Agents
             PROVE  Cardinality(LinksOf(L \cup {l}, a)) =
                      IF a \in (IF l.link THEN K \cup {l.agent} ELSE K) THEN 1 ELSE 0
  BY DEF MadeBy
<1>1. Cardinality(LinksOf(L, a)) = IF a \in K THEN 1 ELSE 0
  BY DEF MadeBy
<1>2. CASE l.link /\ l.agent = a
  <2>1. LinksOf(L \cup {l}, a) = LinksOf(L, a) \cup {l}
    BY <1>2 DEF LinksOf
  <2>2. IsFiniteSet(LinksOf(L, a)) /\ l \notin LinksOf(L, a)
    BY FS_Subset DEF LinksOf
  <2>3. Cardinality(LinksOf(L, a)) = 0
    BY <1>1, <1>2
  <2>4. Cardinality(LinksOf(L, a) \cup {l}) = Cardinality(LinksOf(L, a)) + 1
    BY <2>2, FS_AddElement
  <2>5. Cardinality(LinksOf(L \cup {l}, a)) = Cardinality(LinksOf(L, a) \cup {l})
    BY <2>1, Zenon
  <2>. QED  BY <1>2, <2>3, <2>4, <2>5
<1>3. CASE ~(l.link /\ l.agent = a)
  <2>1. LinksOf(L \cup {l}, a) = LinksOf(L, a)
    BY <1>3 DEF LinksOf
  <2>. QED  BY <1>1, <1>3, <2>1
<1>. QED  BY <1>2, <1>3

LEMMA BothMade ==
    ASSUME NEW L, NEW M, IsFiniteSet(L), IsFiniteSet(M), L \cap M = {},
           NEW K, NEW J, K \cap J = {}, MadeBy(L, K), MadeBy(M, J)
    PROVE  MadeBy(L \cup M, K \cup J)
<1> SUFFICES ASSUME NEW a \in Agents
             PROVE  Cardinality(LinksOf(L \cup M, a)) = IF a \in K \cup J THEN 1 ELSE 0
  BY DEF MadeBy
<1>1. /\ Cardinality(LinksOf(L, a)) = IF a \in K THEN 1 ELSE 0
      /\ Cardinality(LinksOf(M, a)) = IF a \in J THEN 1 ELSE 0
  BY DEF MadeBy
<1>2. LinksOf(L \cup M, a) = LinksOf(L, a) \cup LinksOf(M, a)
      /\ LinksOf(L, a) \cap LinksOf(M, a) = {}
  BY DEF LinksOf
<1>3. IsFiniteSet(LinksOf(L, a)) /\ IsFiniteSet(LinksOf(M, a))
  BY FS_Subset DEF LinksOf
<1>4. Cardinality(LinksOf(L \cup M, a)) = Cardinality(LinksOf(L, a)) + Cardinality(LinksOf(M, a))
  <2>1. Cardinality(LinksOf(L, a) \cup LinksOf(M, a)) =
          Cardinality(LinksOf(L, a)) + Cardinality(LinksOf(M, a))
            - Cardinality(LinksOf(L, a) \cap LinksOf(M, a))
    BY <1>3, FS_Union
  <2>2. Cardinality(LinksOf(L, a) \cap LinksOf(M, a)) = 0
    BY <1>2, FS_EmptySet
  <2>3. Cardinality(LinksOf(L \cup M, a)) = Cardinality(LinksOf(L, a) \cup LinksOf(M, a))
    BY <1>2, Zenon
  <2>. QED  BY <1>1, <2>1, <2>2, <2>3
<1>. QED  BY <1>1, <1>4

LEMMA InitLink == Init => LinkInv
  BY InitFlushed, NothingMade DEF Init, LinkInv

\* A closed session has no rows of its own.
LEMMA CloseLink ==
    ASSUME LinkInv, FlushedInv', NEW r \in Requests, Close(r), UNCHANGED pass,
           MadeBy(logs', links'), links' \subseteq links \cup linked[r]
    PROVE  LinkInv'
<1>1. FlushedInv /\ TypeInv
  BY DEF LinkInv, FlushedInv
<1>2. /\ own'[r] = {} /\ linked'[r] = {} /\ pc'[r] = "done"
      /\ \A q \in Requests \ {r} :
           /\ own'[q] = own[q] /\ linked'[q] = linked[q] /\ pc'[q] = pc[q] /\ plan'[q] = plan[q]
           /\ Current(q)' = Current(q)
  BY <1>1 DEF Close, TypeInv, TypeOK, Current
<1>3. \A q \in Requests : MadeBy(own'[q], linked'[q])
  BY <1>2, NothingMade DEF LinkInv
<1>4. \A q \in Requests : linked'[q] \cap links' = {}
  BY <1>2 DEF LinkInv
<1>5. \A p, q \in Requests : p # q => linked'[p] \cap linked'[q] = {}
  BY <1>2 DEF LinkInv
<1>6. \A q \in Requests : pc'[q] = "record" /\ plan'[q].new => Current(q)' \notin linked'[q]
  BY <1>2 DEF LinkInv
<1>. QED  BY <1>3, <1>4, <1>5, <1>6 DEF LinkInv

LEMMA LoadLink == ASSUME LinkInv, NEW r \in Requests, Load(r) PROVE LinkInv'
<1>1. FlushedInv' /\ TypeInv
  BY LoadFlushed DEF LinkInv, FlushedInv
<1>2. UNCHANGED <<logs, links, own, linked, plan>>
  BY DEF Load, tables
<1>3. \A q \in Requests : pc'[q] = "record" => pc[q] = "record" /\ Current(q)' = Current(q)
  BY <1>1 DEF Load, TypeInv, TypeOK, Current
<1>. QED  BY <1>1, <1>2, <1>3 DEF LinkInv

LEMMA DecideLink == ASSUME LinkInv, NEW r \in Requests, Decide(r) PROVE LinkInv'
<1>1. FlushedInv' /\ FlushedInv /\ TypeInv
  BY DecideFlushed DEF LinkInv, FlushedInv
<1>2. pc[r] = "turn" /\ next[r] <= Len(pass[r]) /\ UNCHANGED <<logs, links, linked, pass>>
  BY DEF Decide, tables
<1>3. CASE \E l \in Logs :
             /\ l.by = r /\ l.agent = Current(r) /\ ~l.link
             /\ own' = [own EXCEPT ![r] = @ \cup {l}]
             /\ next' = [next EXCEPT ![r] = @ + 1]
             /\ UNCHANGED <<pc, plan>>
  <2>1. PICK l \in Logs :
             /\ l.by = r /\ l.agent = Current(r) /\ ~l.link
             /\ own' = [own EXCEPT ![r] = @ \cup {l}]
             /\ next' = [next EXCEPT ![r] = @ + 1]
             /\ UNCHANGED <<pc, plan>>
    BY <1>3
  <2>2. l \notin own[r]
    BY <1>1, <1>2, <2>1, FlushOne
  <2>3. IsFiniteSet(own[r]) /\ MadeBy(own[r], linked[r])
    BY <1>1 DEF LinkInv, FlushedInv, OwnTurns
  <2>4. MadeBy(own[r] \cup {l}, linked[r])
    BY <2>1, <2>2, <2>3, OneMoreMade
  <2>5. \A q \in Requests : MadeBy(own'[q], linked'[q])
    BY <1>1, <1>2, <2>1, <2>4 DEF LinkInv, TypeInv, TypeOK
  <2>6. \A q \in Requests : pc'[q] = "record" => pc[q] = "record" /\ Current(q)' = Current(q)
    BY <1>1, <1>2, <2>1 DEF TypeInv, TypeOK, Current
  <2>. QED  BY <1>1, <1>2, <2>1, <2>5, <2>6 DEF LinkInv
<1>4. CASE \E p \in [kind : Kinds, cost : Nat, new : BOOLEAN] :
             /\ p.new => Current(r) \notin links \cup linked[r]
             /\ plan' = [plan EXCEPT ![r] = p]
             /\ pc' = [pc EXCEPT ![r] = "record"]
             /\ UNCHANGED <<own, next>>
  <2>1. PICK p \in [kind : Kinds, cost : Nat, new : BOOLEAN] :
             /\ p.new => Current(r) \notin links \cup linked[r]
             /\ plan' = [plan EXCEPT ![r] = p]
             /\ pc' = [pc EXCEPT ![r] = "record"]
             /\ UNCHANGED <<own, next>>
    BY <1>4
  <2>2. plan'[r].new => Current(r)' \notin linked'[r]
    BY <1>1, <1>2, <2>1 DEF TypeInv, TypeOK, Current
  <2>3. \A q \in Requests \ {r} :
           pc'[q] = pc[q] /\ plan'[q] = plan[q] /\ Current(q)' = Current(q)
    BY <1>1, <1>2, <2>1 DEF TypeInv, TypeOK, Current
  <2>4. \A q \in Requests : pc'[q] = "record" /\ plan'[q].new => Current(q)' \notin linked'[q]
    BY <1>2, <2>2, <2>3 DEF LinkInv
  <2>. QED  BY <1>1, <1>2, <2>1, <2>4 DEF LinkInv
<1>. QED  BY <1>1, <1>3, <1>4, DecideStep

LEMMA RecordLink == ASSUME LinkInv, NEW r \in Requests, Record(r) PROVE LinkInv'
<1>1. FlushedInv' /\ FlushedInv /\ TypeInv
  BY RecordFlushed DEF LinkInv, FlushedInv
<1>2. UNCHANGED <<logs, links>>
  BY DEF Record, tables
<1>3. CASE Rollback(r)
  BY <1>1, <1>2, <1>3, CloseLink DEF Rollback, LinkInv
<1>4. CASE ~Rollback(r)
  <2> DEFINE a == Current(r)
  <2>1. /\ a \in Agents /\ pc[r] = "record" /\ next[r] <= Len(pass[r]) /\ UNCHANGED pass
        /\ plan[r].new => a \notin links /\ \A q \in Requests \ {r} : a \notin linked[q]
        /\ linked' = IF plan[r].new THEN [linked EXCEPT ![r] = @ \cup {a}] ELSE linked
        /\ next' = [next EXCEPT ![r] = @ + 1]
        /\ pc' = [pc EXCEPT ![r] = "turn"]
    BY <1>1, <1>4, RecordStep
  <2>2. PICK l \in Logs :
          l.by = r /\ l.agent = a /\ l.link = plan[r].new /\ own' = [own EXCEPT ![r] = @ \cup {l}]
    BY <1>1, <1>4, RecordStep
  <2>3. plan' = [plan EXCEPT ![r] = NoPlan]
    <3>1. ~Taken(r, a)
      BY <1>4 DEF Record
    <3>. QED  BY <1>4 DEF Record
  <2>4. l \notin own[r]
    BY <1>1, <2>1, <2>2, FlushOne
  <2>5. IsFiniteSet(own[r]) /\ MadeBy(own[r], linked[r]) /\ (plan[r].new => a \notin linked[r])
    BY <1>1, <2>1 DEF LinkInv, FlushedInv, OwnTurns
  <2>6. MadeBy(own[r] \cup {l}, IF l.link THEN linked[r] \cup {l.agent} ELSE linked[r])
    BY <2>2, <2>4, <2>5, OneMoreMade
  <2>7. /\ linked'[r] = IF l.link THEN linked[r] \cup {l.agent} ELSE linked[r]
        /\ own'[r] = own[r] \cup {l}
        /\ \A q \in Requests \ {r} : own'[q] = own[q] /\ linked'[q] = linked[q]
    BY <1>1, <2>1, <2>2 DEF TypeInv, TypeOK
  <2>8. \A q \in Requests : MadeBy(own'[q], linked'[q])
    BY <2>6, <2>7 DEF LinkInv
  <2>9. \A q \in Requests : linked'[q] \cap links' = {}
    BY <1>2, <2>1, <2>2, <2>7 DEF LinkInv
  <2>10. \A p, q \in Requests : p # q => linked'[p] \cap linked'[q] = {}
    BY <2>1, <2>2, <2>7 DEF LinkInv
  <2>11. \A q \in Requests : pc'[q] = "record" =>
            /\ pc[q] = "record" /\ plan'[q] = plan[q] /\ Current(q)' = Current(q)
            /\ linked'[q] = linked[q]
    BY <1>1, <2>1, <2>3, <2>7 DEF TypeInv, TypeOK, Current
  <2>. QED  BY <1>1, <1>2, <2>8, <2>9, <2>10, <2>11 DEF LinkInv
<1>. QED  BY <1>3, <1>4

LEMMA CommitLink == ASSUME LinkInv, NEW r \in Requests, Commit(r) PROVE LinkInv'
<1>1. FlushedInv' /\ FlushedInv
  BY NextFlushed DEF LinkInv, Next
<1>2. logs' = logs \cup own[r] /\ links' = links \cup linked[r] /\ Close(r) /\ UNCHANGED pass
      /\ pc[r] = "turn"
  BY DEF Commit
<1>3. IsFiniteSet(logs) /\ IsFiniteSet(own[r]) /\ logs \cap own[r] = {}
  BY <1>1, <1>2 DEF FlushedInv, OwnTurns
<1>4. MadeBy(logs \cup own[r], links \cup linked[r])
  BY <1>3, BothMade DEF LinkInv
<1>. QED  BY <1>1, <1>2, <1>4, CloseLink

LEMMA NextLink == LinkInv /\ [Next]_vars => LinkInv'
<1> SUFFICES ASSUME LinkInv, [Next]_vars PROVE LinkInv'
  OBVIOUS
<1>1. FlushedInv'
  BY NextFlushed DEF LinkInv
<1>2. ASSUME NEW r \in Requests, Fail(r) PROVE LinkInv'
  <2>1. Close(r) /\ UNCHANGED <<logs, links, pass>>
    BY <1>2 DEF Fail, Kept
  <2>2. MadeBy(logs', links') /\ links' \subseteq links \cup linked[r]
    BY <2>1 DEF LinkInv
  <2>. QED  BY <1>1, <2>1, <2>2, CloseLink
<1>3. CASE NewDay \/ (\E a \in Agents, c \in Cohorts : AssignCohort(a, c)) \/ UNCHANGED vars
  <2>1. UNCHANGED <<logs, links, pc, own, pass, next, linked, plan>>
    BY <1>3 DEF NewDay, AssignCohort, vars, tables, session
  <2>. QED  BY <1>1, <2>1 DEF LinkInv, Current
<1>. QED  BY <1>2, <1>3, LoadLink, DecideLink, RecordLink, CommitLink DEF Next

\* However turns race, one turn at most makes an agent's link, and every link has its
\* turn (the unique constraints of likes and follows, and a rollback of the loser).
THEOREM LinksAreMadeOnce == Spec => []LinkedOnce
<1>1. LinkInv => LinkedOnce  BY DEF LinkInv, MadeBy, LinksOf, LinkedOnce
<1>. QED  BY <1>1, InitLink, NextLink, PTL DEF Spec

-----------------------------------------------------------------------------
(* What logs cost.                                                           *)

LEMMA TokensType ==
    ASSUME NEW L, IsFiniteSet(L), L \subseteq Logs
    PROVE  Tokens(L) \in Nat
<1> DEFINE f == [l \in L |-> l.cost]
<1>1. \A l \in L : f[l] \in Nat
  BY DEF Logs
<1> HIDE DEF f
<1>2. SumFunctionOnSet(f, L) \in Nat
  BY <1>1, SumType
<1>. QED  BY <1>2, Zenon DEF Tokens, f

LEMMA TokensMore ==
    ASSUME NEW L, IsFiniteSet(L), L \subseteq Logs, NEW l \in Logs, l \notin L
    PROVE  Tokens(L \cup {l}) = Tokens(L) + l.cost
<1> DEFINE f == [k \in L \cup {l} |-> k.cost]
           g == [k \in L |-> k.cost]
<1>1. \A k \in L \cup {l} : f[k] \in Nat
  BY DEF Logs
<1>2. f[l] = l.cost /\ \A k \in L : f[k] = g[k]
  OBVIOUS
<1> HIDE DEF f, g
<1>3. SumFunctionOnSet(f, L \cup {l}) = f[l] + SumFunctionOnSet(f, L)
  BY <1>1, SumAdd
<1>4. SumFunctionOnSet(f, L) = SumFunctionOnSet(g, L)
  BY <1>2, SumAgree
<1>5. Tokens(L \cup {l}) = SumFunctionOnSet(f, L \cup {l}) /\ Tokens(L) = SumFunctionOnSet(g, L)
  BY Zenon DEF Tokens, f, g
<1>6. Tokens(L) \in Nat /\ l.cost \in Nat
  BY TokensType DEF Logs
<1>. QED  BY <1>2, <1>3, <1>4, <1>5, <1>6

LEMMA TokensPart ==
    ASSUME NEW L, IsFiniteSet(L), L \subseteq Logs, NEW K \in SUBSET L
    PROVE  Tokens(K) <= Tokens(L)
<1> DEFINE f == [k \in L |-> k.cost]
           g == [k \in K |-> k.cost]
<1>1. \A k \in L : f[k] \in Nat
  BY DEF Logs
<1>2. \A k \in K : f[k] = g[k]
  OBVIOUS
<1>3. IsFiniteSet(K)
  BY FS_Subset
<1> HIDE DEF f, g
<1>4. SumFunctionOnSet(f, K) <= SumFunctionOnSet(f, L)
  BY <1>1, SumPart
<1>5. SumFunctionOnSet(f, K) = SumFunctionOnSet(g, K)
  BY <1>2, <1>3, SumAgree
<1>6. Tokens(L) = SumFunctionOnSet(f, L) /\ Tokens(K) = SumFunctionOnSet(g, K)
  BY Zenon DEF Tokens, f, g
<1>. QED  BY <1>4, <1>5, <1>6

LEMMA TokensNone == Tokens({}) = 0
  BY SumEmpty DEF Tokens

\* Of the logs of a kind P, one log more.
LEMMA TokensAmongMore ==
    ASSUME NEW L, IsFiniteSet(L), L \subseteq Logs, NEW l \in Logs, l \notin L, NEW P
    PROVE  /\ l \in P => Tokens((L \cup {l}) \cap P) = Tokens(L \cap P) + l.cost
           /\ l \notin P => Tokens((L \cup {l}) \cap P) = Tokens(L \cap P)
<1>1. CASE l \in P
  <2>1. (L \cup {l}) \cap P = (L \cap P) \cup {l}
    BY <1>1
  <2>2. IsFiniteSet(L \cap P) /\ L \cap P \subseteq Logs /\ l \notin L \cap P
    BY FS_Subset
  <2>3. Tokens((L \cap P) \cup {l}) = Tokens(L \cap P) + l.cost
    BY <2>2, TokensMore
  <2>4. Tokens((L \cup {l}) \cap P) = Tokens((L \cap P) \cup {l})
    BY <2>1, Zenon
  <2>. QED  BY <1>1, <2>3, <2>4
<1>2. CASE l \notin P
  <2>1. (L \cup {l}) \cap P = L \cap P
    BY <1>2
  <2>. QED  BY <1>2, <2>1, Zenon
<1>. QED  BY <1>1, <1>2

LEMMA TokensAmongPart ==
    ASSUME NEW L, IsFiniteSet(L), L \subseteq Logs, NEW K \in SUBSET L, NEW P
    PROVE  Tokens(K \cap P) \in Nat /\ Tokens(L \cap P) \in Nat
           /\ Tokens(K \cap P) <= Tokens(L \cap P)
<1>1. IsFiniteSet(L \cap P) /\ L \cap P \subseteq Logs /\ IsFiniteSet(K \cap P)
      /\ K \cap P \subseteq L \cap P /\ K \cap P \subseteq Logs
  BY FS_Subset
<1>. QED  BY <1>1, TokensType, TokensPart

\* The completed turns of an agent in a budget window, and what they cost.
ChargedTo(a, d) == {l \in Logs : l.status = "completed" /\ l.agent = a /\ l.window = d}
Spent(L, a, d) == Tokens(L \cap ChargedTo(a, d))

LEMMA ChargedIsSpent ==
    ASSUME logs \subseteq Logs, NEW a, NEW d
    PROVE  Charged(a, d) = Spent(logs, a, d)
<1>1. {l \in Completed : l.agent = a /\ l.window = d} = logs \cap ChargedTo(a, d)
  BY DEF Completed, ChargedTo
<1>. QED  BY <1>1, Zenon DEF Charged, Spent

\* The logs a session sees: those in the table and those it has flushed.
Seen(r) == logs \cup own[r]

LEMMA SeenLogs ==
    ASSUME FlushedInv
    PROVE  /\ IsFiniteSet(logs) /\ logs \subseteq Logs
           /\ \A r \in Requests : IsFiniteSet(Seen(r)) /\ Seen(r) \subseteq Logs
<1>1. IsFiniteSet(logs) /\ logs \subseteq Logs
  BY DEF FlushedInv, TypeInv, TypeOK
<1>2. \A r \in Requests : IsFiniteSet(own[r]) /\ own[r] \subseteq Logs
  BY DEF FlushedInv, OwnTurns, TypeInv, TypeOK
<1>. QED  BY <1>1, <1>2, FS_Union DEF Seen

-----------------------------------------------------------------------------
(* No budget, stored or in a session, claims more than the logs bear out.    *)

BorneOut(L, b, a) == b.spent <= Spent(L, a, b.on)

BorneInv ==
    /\ FlushedInv
    /\ \A a \in Agents : BorneOut(logs, budget[a], a)
    /\ \A r \in Requests, a \in Agents : BorneOut(Seen(r), mine[r][a], a)

\* More logs bear out more, and nothing spent needs none.
LEMMA BorneOutByMore ==
    ASSUME NEW L, IsFiniteSet(L), L \subseteq Logs, NEW K \in SUBSET L, NEW a,
           NEW b, b.spent \in Nat, BorneOut(K, b, a) \/ b.spent = 0
    PROVE  BorneOut(L, b, a)
<1>1. Spent(K, a, b.on) \in Nat /\ Spent(L, a, b.on) \in Nat /\ Spent(K, a, b.on) <= Spent(L, a, b.on)
  BY TokensAmongPart DEF Spent
<1>. QED  BY <1>1 DEF BorneOut

LEMMA InitBorne == Init => BorneInv
<1> SUFFICES ASSUME Init PROVE BorneInv
  OBVIOUS
<1>1. FlushedInv
  BY InitFlushed
<1>2. /\ \A a \in Agents : budget[a].spent = 0
      /\ \A r \in Requests, a \in Agents : mine[r][a].spent = 0
  BY DEF Init, Unloaded
<1>. QED  BY <1>1, <1>2, SeenLogs, BorneOutByMore DEF BorneInv

LEMMA NextBorne == BorneInv /\ [Next]_vars => BorneInv'
<1> SUFFICES ASSUME BorneInv, [Next]_vars PROVE BorneInv'
  OBVIOUS
<1>1. FlushedInv /\ FlushedInv' /\ TypeInv /\ TypeInv'
  BY NextFlushed DEF BorneInv, FlushedInv
<1>2. /\ IsFiniteSet(logs') /\ logs' \subseteq Logs
      /\ \A q \in Requests : IsFiniteSet(Seen(q)') /\ Seen(q)' \subseteq Logs
  <2>1. IsFiniteSet(logs') /\ logs' \subseteq Logs
    BY <1>1 DEF FlushedInv, TypeInv, TypeOK
  <2>2. \A q \in Requests : IsFiniteSet(own'[q]) /\ own'[q] \subseteq Logs
    BY <1>1 DEF FlushedInv, OwnTurns, TypeInv, TypeOK
  <2>. QED  BY <2>1, <2>2, FS_Union DEF Seen
<1>3. \A a \in Agents : budget[a].spent \in Nat /\ \A q \in Requests : mine[q][a].spent \in Nat
  BY <1>1 DEF TypeInv, TypeOK
<1>4. ASSUME NEW r \in Requests, Load(r) PROVE BorneInv'
  <2>1. /\ UNCHANGED <<budget, logs, own>>
        /\ \A a \in Agents : /\ mine'[r][a].spent = budget[a].spent
                             /\ mine'[r][a].on = budget[a].on
                             /\ \A q \in Requests \ {r} : mine'[q][a] = mine[q][a]
    BY <1>1, <1>4 DEF Load, tables, TypeInv, TypeOK
  <2>2. \A a \in Agents : BorneOut(logs, mine'[r][a], a) /\ mine'[r][a].spent \in Nat
    BY <1>3, <2>1 DEF BorneInv, BorneOut
  <2>3. logs \subseteq Seen(r)' /\ \A q \in Requests : Seen(q)' = Seen(q)
    BY <2>1 DEF Seen
  <2>4. \A a \in Agents : BorneOut(Seen(r)', mine'[r][a], a)
    BY <1>2, <2>2, <2>3, BorneOutByMore
  <2>. QED  BY <1>1, <2>1, <2>3, <2>4 DEF BorneInv, BorneOut
<1>5. ASSUME NEW r \in Requests, Decide(r) PROVE BorneInv'
  <2> DEFINE a == Current(r)
  <2>1. /\ a \in Agents /\ mine' = [mine EXCEPT ![r][a] = Reset(mine[r][a])]
        /\ UNCHANGED <<budget, logs>>
        /\ (own' = own \/ \E l \in Logs : own' = [own EXCEPT ![r] = @ \cup {l}])
    BY <1>1, <1>5, DecideStep DEF tables
  <2>2. mine[r][a] \in [spent : Nat, on : Days, cohort : Cohorts \cup {NoCohort}]
    BY <1>1, <2>1 DEF TypeInv, TypeOK
  <2>3. \A q \in Requests, b \in Agents :
           mine'[q][b].spent \in Nat /\ (mine'[q][b] = mine[q][b] \/ mine'[q][b].spent = 0)
    BY <1>1, <1>3, <2>1, <2>2 DEF TypeInv, TypeOK, Reset
  <2>4. \A q \in Requests : Seen(q) \subseteq Seen(q)'
    <3>1. CASE own' = own
      BY <2>1, <3>1 DEF Seen
    <3>2. ASSUME NEW l \in Logs, own' = [own EXCEPT ![r] = @ \cup {l}]
          PROVE  \A q \in Requests : Seen(q) \subseteq Seen(q)'
      BY <1>1, <2>1, <3>2 DEF Seen, TypeInv, TypeOK
    <3>. QED  BY <2>1, <3>1, <3>2
  <2>5. ASSUME NEW q \in Requests, NEW b \in Agents PROVE BorneOut(Seen(q)', mine'[q][b], b)
    <3>1. BorneOut(Seen(q), mine'[q][b], b) \/ mine'[q][b].spent = 0
      BY <2>3 DEF BorneInv
    <3>. QED  BY <1>2, <2>3, <2>4, <3>1, BorneOutByMore
  <2>. QED  BY <1>1, <2>1, <2>5 DEF BorneInv, BorneOut
<1>6. ASSUME NEW r \in Requests, Record(r), ~Rollback(r) PROVE BorneInv'
  <2> DEFINE a == Current(r)
  <2>1. a \in Agents /\ pc[r] = "record" /\ next[r] <= Len(pass[r]) /\ UNCHANGED <<budget, logs>>
    BY <1>1, <1>6, RecordStep DEF tables
  <2>2. PICK l \in Logs :
          /\ l.by = r /\ l.agent = a /\ l.status = "completed" /\ l.window = mine[r][a].on
          /\ own' = [own EXCEPT ![r] = @ \cup {l}]
          /\ mine' = [mine EXCEPT ![r][a].spent = @ + l.cost]
    BY <1>1, <1>6, RecordStep
  <2>3. l \notin Seen(r)
    BY <1>1, <2>1, <2>2, FlushOne DEF Seen
  <2>4. Seen(r)' = Seen(r) \cup {l} /\ \A q \in Requests \ {r} : Seen(q)' = Seen(q)
    BY <1>1, <2>1, <2>2 DEF Seen, TypeInv, TypeOK
  <2>5. /\ mine'[r][a].spent = mine[r][a].spent + l.cost /\ mine'[r][a].on = mine[r][a].on
        /\ \A q \in Requests, b \in Agents : q # r \/ b # a => mine'[q][b] = mine[q][b]
    BY <1>1, <2>1, <2>2 DEF TypeInv, TypeOK
  <2>6. Spent(Seen(r) \cup {l}, a, mine[r][a].on) = Spent(Seen(r), a, mine[r][a].on) + l.cost
    <3>1. l \in ChargedTo(a, mine[r][a].on)
      BY <2>2 DEF ChargedTo
    <3>. QED  BY <1>1, <2>3, <3>1, SeenLogs, TokensAmongMore DEF Spent
  <2>7. BorneOut(Seen(r)', mine'[r][a], a)
    <3>1. /\ mine[r][a].spent \in Nat /\ l.cost \in Nat
          /\ mine[r][a].spent <= Spent(Seen(r), a, mine[r][a].on)
      BY <1>3, <2>1 DEF BorneInv, BorneOut, Logs
    <3>2. Spent(Seen(r), a, mine[r][a].on) \in Nat
      BY <1>1, SeenLogs, TokensAmongPart DEF Spent
    <3>3. Spent(Seen(r)', a, mine[r][a].on) = Spent(Seen(r) \cup {l}, a, mine[r][a].on)
      BY <2>4, Zenon
    <3>. QED  BY <2>5, <2>6, <3>1, <3>2, <3>3 DEF BorneOut
  <2>8. ASSUME NEW q \in Requests, NEW b \in Agents, q # r \/ b # a
        PROVE  BorneOut(Seen(q)', mine'[q][b], b)
    <3>1. Seen(q) \subseteq Seen(q)' /\ mine'[q][b] = mine[q][b]
      BY <2>4, <2>5, <2>8
    <3>2. BorneOut(Seen(q), mine'[q][b], b)
      BY <3>1 DEF BorneInv
    <3>. QED  BY <1>2, <1>3, <3>1, <3>2, BorneOutByMore
  <2>. QED  BY <1>1, <2>1, <2>7, <2>8 DEF BorneInv, BorneOut
<1>7. ASSUME NEW r \in Requests, Close(r), logs' = logs \/ logs' = Seen(r),
             \A a \in Agents : \/ budget'[a] = budget[a]
                               \/ /\ logs' = Seen(r)
                                  /\ budget'[a].spent = mine[r][a].spent
                                  /\ budget'[a].on = mine[r][a].on
      PROVE  BorneInv'
  <2>1. /\ \A a \in Agents : mine'[r][a].spent = 0
        /\ \A q \in Requests \ {r} : mine'[q] = mine[q] /\ own'[q] = own[q]
    BY <1>1, <1>7 DEF Close, Unloaded, TypeInv, TypeOK
  <2>2. logs \subseteq logs' /\ \A q \in Requests \ {r} : Seen(q) \subseteq Seen(q)'
    BY <1>7, <2>1 DEF Seen
  <2>3. ASSUME NEW q \in Requests, NEW b \in Agents PROVE BorneOut(Seen(q)', mine'[q][b], b)
    <3>1. CASE q = r
      <4>1. mine'[r][b].spent = 0 /\ {} \subseteq Seen(r)'
        BY <2>1
      <4>. QED  BY <1>2, <3>1, <4>1, BorneOutByMore
    <3>2. CASE q # r
      BY <1>2, <1>3, <2>1, <2>2, <3>2, BorneOutByMore DEF BorneInv
    <3>. QED  BY <3>1, <3>2
  <2>4. ASSUME NEW b \in Agents PROVE BorneOut(logs', budget'[b], b)
    <3>1. CASE budget'[b] = budget[b]
      <4>1. BorneOut(logs, budget'[b], b)
        BY <3>1 DEF BorneInv
      <4>. QED  BY <1>2, <1>3, <2>2, <3>1, <4>1, BorneOutByMore
    <3>2. CASE logs' = Seen(r) /\ budget'[b].spent = mine[r][b].spent /\ budget'[b].on = mine[r][b].on
      <4>1. BorneOut(Seen(r), mine[r][b], b)
        BY DEF BorneInv
      <4>2. Spent(logs', b, budget'[b].on) = Spent(Seen(r), b, mine[r][b].on)
        BY <3>2, Zenon
      <4>. QED  BY <3>2, <4>1, <4>2 DEF BorneOut
    <3>. QED  BY <1>7, <3>1, <3>2
  <2>. QED  BY <1>1, <2>3, <2>4 DEF BorneInv, BorneOut
<1>8. ASSUME NEW r \in Requests, (Rollback(r) /\ Record(r)) \/ Fail(r) PROVE BorneInv'
  BY <1>7, <1>8 DEF Rollback, Record, Fail, Kept, tables
<1>9. ASSUME NEW r \in Requests, Commit(r) PROVE BorneInv'
  <2>1. /\ Close(r) /\ logs' = Seen(r)
        /\ \A a \in Agents : \/ budget'[a] = budget[a]
                             \/ /\ budget'[a].spent = mine[r][a].spent
                                /\ budget'[a].on = mine[r][a].on
    BY <1>9 DEF Commit, Seen
  <2>. QED  BY <1>7, <2>1
<1>10. CASE NewDay \/ (\E a \in Agents, c \in Cohorts : AssignCohort(a, c)) \/ UNCHANGED vars
  <2>1. UNCHANGED <<logs, budget, own, mine>>
    BY <1>10 DEF NewDay, AssignCohort, vars, tables, session
  <2>. QED  BY <1>1, <2>1 DEF BorneInv, BorneOut, Seen
<1>. QED  BY <1>4, <1>5, <1>6, <1>8, <1>9, <1>10 DEF Next

\* Whatever races, retries or fails, no agent's budget is charged for tokens that no
\* committed turn spent (execute_agent_turn writes log and budget in one transaction).
THEOREM NobodyIsOvercharged == Spec => []NeverOvercharged
<1>1. BorneInv => NeverOvercharged
  BY ChargedIsSpent DEF BorneInv, BorneOut, NeverOvercharged, FlushedInv, TypeInv, TypeOK
<1>. QED  BY <1>1, InitBorne, NextBorne, PTL DEF Spec

-----------------------------------------------------------------------------
(* Requests that run one at a time: a budget is what its agent's completed   *)
(* turns cost, in the tables and in the session, and the turns of each day   *)
(* stay within a cap.                                                        *)

Alone == \A q, r \in Running : q = r

Balanced(L, b, a) ==
    /\ b.spent = Spent(L, a, b.on)
    /\ b.on <= day
    /\ \A l \in L : l.agent = a /\ l.status = "completed" => l.window <= b.on
    /\ \A d \in Days : WithinCap(Spent(L, a, d))

LedgerInv ==
    /\ FlushedInv /\ CapInv /\ Alone
    /\ \A a \in Agents : Balanced(logs, budget[a], a)
    /\ \A r \in Running, a \in Agents :
         /\ Balanced(Seen(r), mine[r][a], a)
         /\ a \notin held[r] => \A l \in own[r] : ~(l.agent = a /\ l.status = "completed")

LEMMA NextAlone ==
    ASSUME MaxRunning = 1, TypeInv, Alone, [Next]_vars
    PROVE  Alone'
<1>1. ASSUME NEW r \in Requests, Load(r) PROVE Running' = {r}
  <2>1. IsFiniteSet(Running) /\ Cardinality(Running) \in Nat /\ Cardinality(Running) < 1
    BY <1>1, FS_Subset, FS_CardinalityType DEF Load, Running
  <2>2. Cardinality(Running) = 0
    BY <2>1
  <2>3. Running = {}
    BY <2>1, <2>2, FS_EmptySet
  <2>4. pc' = [pc EXCEPT ![r] = "turn"]
    BY <1>1 DEF Load
  <2>. QED  BY <2>3, <2>4 DEF Running, TypeInv, TypeOK
<1>2. ASSUME NEW r \in Requests, Decide(r) \/ Record(r) \/ Commit(r) \/ Fail(r)
      PROVE  Running' \subseteq Running
  <2>1. \/ r \in Running /\ \E x : pc' = [pc EXCEPT ![r] = x]
        \/ UNCHANGED pc
    BY <1>2 DEF Decide, Record, Rollback, Commit, Fail, Close, Running
  <2>. QED  BY <2>1 DEF Running, TypeInv, TypeOK
<1>3. CASE NewDay \/ (\E a \in Agents, c \in Cohorts : AssignCohort(a, c)) \/ UNCHANGED vars
  BY <1>3 DEF NewDay, AssignCohort, vars, session, Alone, Running
<1>. QED  BY <1>1, <1>2, <1>3 DEF Alone, Next

\* What logs that are not completed turns of the agent do not change.
LEMMA BalancedWithout ==
    ASSUME NEW L, L \subseteq Logs, NEW K, NEW a, NEW b, Balanced(L, b, a),
           \A l \in K : ~(l.agent = a /\ l.status = "completed")
    PROVE  Balanced(L \cup K, b, a)
<1>1. ASSUME NEW d PROVE Spent(L \cup K, a, d) = Spent(L, a, d)
  <2>1. (L \cup K) \cap ChargedTo(a, d) = L \cap ChargedTo(a, d)
    BY DEF ChargedTo
  <2>. QED  BY <2>1, Zenon DEF Spent
<1>. QED  BY <1>1 DEF Balanced

\* A reset on a new day starts from a window nothing was charged to.
LEMMA BalancedReset ==
    ASSUME TypeOK, NEW L, IsFiniteSet(L), L \subseteq Logs, NEW a,
           NEW b \in [spent : Nat, on : Days, cohort : Cohorts \cup {NoCohort}], Balanced(L, b, a)
    PROVE  Balanced(L, Reset(b), a)
<1>1. CASE b.on = day
  BY <1>1 DEF Reset
<1>2. CASE b.on # day
  <2>1. Reset(b).spent = 0 /\ Reset(b).on = day
    BY <1>2 DEF Reset
  <2>2. day \in Int /\ b.on \in Int /\ b.on < day
    BY <1>2 DEF Balanced, TypeOK, Days
  <2>3. \A l \in L : l.agent = a /\ l.status = "completed" => l.window # day /\ l.window <= day
    BY <2>2 DEF Balanced, Logs, Days
  <2>4. L \cap ChargedTo(a, day) = {}
    BY <2>3 DEF ChargedTo
  <2>5. Spent(L, a, day) = 0
    BY <2>4, TokensNone, Zenon DEF Spent
  <2>. QED  BY <2>1, <2>2, <2>3, <2>5 DEF Balanced
<1>. QED  BY <1>1, <1>2

\* A completed turn, charged to the window of the budget it is added to.
LEMMA BalancedMore ==
    ASSUME NEW L, IsFiniteSet(L), L \subseteq Logs, NEW a, NEW b, Balanced(L, b, a), b.on \in Days,
           NEW l \in Logs, l \notin L, l.agent = a, l.status = "completed", l.window = b.on,
           NEW c, c.spent = b.spent + l.cost, c.on = b.on, WithinCap(c.spent)
    PROVE  Balanced(L \cup {l}, c, a)
<1>1. Spent(L \cup {l}, a, b.on) = Spent(L, a, b.on) + l.cost
  <2>1. l \in ChargedTo(a, b.on)
    BY DEF ChargedTo
  <2>. QED  BY <2>1, TokensAmongMore DEF Spent
<1>2. ASSUME NEW d, d # b.on PROVE Spent(L \cup {l}, a, d) = Spent(L, a, d)
  <2>1. l \notin ChargedTo(a, d)
    BY <1>2 DEF ChargedTo
  <2>. QED  BY <2>1, TokensAmongMore DEF Spent
<1>3. c.spent = Spent(L \cup {l}, a, c.on)
  BY <1>1 DEF Balanced
<1>4. \A k \in L \cup {l} : k.agent = a /\ k.status = "completed" => k.window <= c.on
  BY DEF Balanced, Days
<1>5. \A d \in Days : WithinCap(Spent(L \cup {l}, a, d))
  BY <1>2, <1>3 DEF Balanced
<1>. QED  BY <1>3, <1>4, <1>5 DEF Balanced

LEMMA InitLedger == Init => LedgerInv
<1> SUFFICES ASSUME Init PROVE LedgerInv
  OBVIOUS
<1>1. FlushedInv /\ CapInv
  BY InitFlushed, InitCap
<1>2. Running = {}
  BY DEF Init, Running
<1>3. \A a, d : Spent({}, a, d) = 0
  <2>1. \A a, d : {} \cap ChargedTo(a, d) = {}
    OBVIOUS
  <2>. QED  BY <2>1, TokensNone, Zenon DEF Spent
<1>4. \A a \in Agents : Balanced(logs, budget[a], a)
  BY <1>3, NothingWithinCap DEF Init, Balanced
<1>. QED  BY <1>1, <1>2, <1>4 DEF LedgerInv, Alone

LEMMA LoadLedger ==
    ASSUME MaxRunning = 1, LedgerInv, NEW r \in Requests, Load(r)
    PROVE  LedgerInv'
<1>1. FlushedInv' /\ CapInv' /\ Alone' /\ TypeInv
  BY LoadFlushed, LoadCap, NextAlone DEF LedgerInv, CapInv, Next
<1>2. /\ UNCHANGED <<budget, logs, own, day>> /\ own[r] = {} /\ r \in Running'
      /\ \A a \in Agents : mine'[r][a].spent = budget[a].spent /\ mine'[r][a].on = budget[a].on
  BY <1>1 DEF Load, tables, LedgerInv, FlushedInv, TypeInv, TypeOK, Running
<1>3. Running' = {r}
  BY <1>1, <1>2 DEF Alone
<1>4. Seen(r)' = logs
  BY <1>2 DEF Seen
<1>5. \A a \in Agents : Balanced(logs, budget[a], a)
  BY DEF LedgerInv
<1>6. \A a \in Agents : Balanced(logs, budget[a], a)'
  BY <1>2, <1>5 DEF Balanced
<1>7. \A a \in Agents : Balanced(Seen(r), mine[r][a], a)'
  <2>1. \A a \in Agents : \A d : Spent(Seen(r)', a, d) = Spent(logs, a, d)
    BY <1>4, Zenon
  <2>. QED  BY <1>2, <1>4, <1>5, <2>1 DEF Balanced
<1>. QED  BY <1>1, <1>2, <1>3, <1>6, <1>7 DEF LedgerInv

LEMMA DecideLedger ==
    ASSUME MaxRunning = 1, LedgerInv, NEW r \in Requests, Decide(r)
    PROVE  LedgerInv'
<1> DEFINE a == Current(r)
<1>1. FlushedInv' /\ CapInv' /\ Alone' /\ FlushedInv /\ TypeInv
  BY DecideFlushed, DecideCap, NextAlone DEF LedgerInv, CapInv, Next
<1>2. /\ a \in Agents /\ pc[r] = "turn" /\ UNCHANGED <<budget, logs, day>>
      /\ mine' = [mine EXCEPT ![r][a] = Reset(mine[r][a])]
  BY <1>1, DecideStep DEF tables
<1>3. r \in Running /\ pc'[r] \in {"turn", "record"}
  BY <1>1, <1>2, DecideStep DEF Running, TypeInv, TypeOK
<1>4. Running' = {r}
  BY <1>1, <1>3 DEF Alone, Running
<1>5. \E K \in SUBSET Logs :
        /\ own'[r] = own[r] \cup K
        /\ \A l \in K : l.status = "blocked"
  <2>1. CASE UNCHANGED own
    BY <2>1
  <2>2. ASSUME NEW l \in Logs, l.status = "blocked", own' = [own EXCEPT ![r] = @ \cup {l}]
        PROVE  \E K \in SUBSET Logs : own'[r] = own[r] \cup K /\ \A k \in K : k.status = "blocked"
    <3>1. own'[r] = own[r] \cup {l}
      BY <1>1, <2>2 DEF TypeInv, TypeOK
    <3>2. {l} \in SUBSET Logs /\ \A k \in {l} : k.status = "blocked"
      BY <2>2
    <3>. QED  BY <3>1, <3>2, Zenon
  <2>3. UNCHANGED own \/ \E l \in Logs : l.status = "blocked" /\ own' = [own EXCEPT ![r] = @ \cup {l}]
    BY <1>1, DecideStep
  <2>. QED  BY <2>1, <2>2, <2>3
<1>6. PICK K \in SUBSET Logs : own'[r] = own[r] \cup K /\ \A l \in K : l.status = "blocked"
  BY <1>5
<1>7. Seen(r)' = Seen(r) \cup K
  BY <1>2, <1>6 DEF Seen
<1>8. \A b \in Agents : mine'[r][b] = IF b = a THEN Reset(mine[r][a]) ELSE mine[r][b]
  BY <1>1, <1>2 DEF TypeInv, TypeOK
<1>9. ASSUME NEW b \in Agents PROVE Balanced(Seen(r), mine[r][b], b)'
  <2>1. /\ Balanced(Seen(r), mine[r][b], b) /\ Seen(r) \subseteq Logs /\ IsFiniteSet(Seen(r))
        /\ mine[r][b] \in [spent : Nat, on : Days, cohort : Cohorts \cup {NoCohort}] /\ TypeOK
    BY <1>1, <1>3, SeenLogs DEF LedgerInv, TypeInv, TypeOK
  <2>2. Balanced(Seen(r), mine'[r][b], b)
    BY <1>8, <2>1, BalancedReset
  <2>3. Balanced(Seen(r) \cup K, mine'[r][b], b)
    BY <1>6, <2>1, <2>2, BalancedWithout
  <2>4. \A d : Spent(Seen(r)', b, d) = Spent(Seen(r) \cup K, b, d)
    BY <1>7, Zenon
  <2>. QED  BY <1>2, <1>7, <2>3, <2>4 DEF Balanced
<1>10. ASSUME NEW b \in Agents, b \notin held'[r], NEW l \in own'[r]
       PROVE  ~(l.agent = b /\ l.status = "completed")
  <2>1. b \notin held[r]
    BY <1>1, <1>10 DEF Decide, TypeInv, TypeOK
  <2>. QED  BY <1>3, <1>6, <1>10, <2>1 DEF LedgerInv
<1>11. (\A b \in Agents : Balanced(logs, budget[b], b))'
  BY <1>2 DEF LedgerInv, Balanced
<1>. QED  BY <1>1, <1>4, <1>9, <1>10, <1>11 DEF LedgerInv

LEMMA EndLedger ==
    ASSUME MaxRunning = 1, LedgerInv, NEW r \in Requests, r \in Running, [Next]_vars,
           Close(r), UNCHANGED day,
           \/ UNCHANGED <<budget, logs>>
           \/ /\ logs' = Seen(r)
              /\ budget' = [a \in Agents |->
                   IF a \in held[r] THEN [spent |-> mine[r][a].spent, on |-> mine[r][a].on]
                                    ELSE budget[a]]
    PROVE  LedgerInv'
<1>1. FlushedInv' /\ CapInv' /\ Alone' /\ FlushedInv /\ TypeInv
  BY NextFlushed, NextCap, NextAlone DEF LedgerInv, CapInv
<1>2. Running' = {}
  BY <1>1 DEF Close, Running, Alone, LedgerInv, TypeInv, TypeOK
<1>3. CASE UNCHANGED <<budget, logs>>
  <2>1. (\A a \in Agents : Balanced(logs, budget[a], a))'
    BY <1>3 DEF LedgerInv, Balanced
  <2>. QED  BY <1>1, <1>2, <2>1 DEF LedgerInv
<1>4. CASE /\ logs' = Seen(r)
           /\ budget' = [a \in Agents |->
                IF a \in held[r] THEN [spent |-> mine[r][a].spent, on |-> mine[r][a].on]
                                 ELSE budget[a]]
  <2>1. ASSUME NEW a \in Agents PROVE Balanced(logs, budget[a], a)'
    <3>1. \A d : Spent(logs', a, d) = Spent(Seen(r), a, d)
      BY <1>4, Zenon
    <3>2. CASE a \in held[r]
      <4>1. budget'[a].spent = mine[r][a].spent /\ budget'[a].on = mine[r][a].on
        BY <1>4, <3>2
      <4>2. Balanced(Seen(r), mine[r][a], a)
        BY DEF LedgerInv
      <4>. QED  BY <1>4, <3>1, <4>1, <4>2 DEF Balanced
    <3>3. CASE a \notin held[r]
      <4>1. budget'[a] = budget[a]
        BY <1>4, <3>3
      <4>2. Balanced(logs, budget[a], a) /\ \A l \in own[r] : ~(l.agent = a /\ l.status = "completed")
        BY <3>3 DEF LedgerInv
      <4>3. logs \subseteq Logs
        BY <1>1, SeenLogs
      <4>4. Balanced(Seen(r), budget[a], a)
        BY <4>2, <4>3, BalancedWithout DEF Seen
      <4>. QED  BY <1>4, <3>1, <4>1, <4>4 DEF Balanced
    <3>. QED  BY <3>2, <3>3
  <2>. QED  BY <1>1, <1>2, <2>1 DEF LedgerInv
<1>. QED  BY <1>3, <1>4

LEMMA RecordLedger ==
    ASSUME MaxRunning = 1, LedgerInv, NEW r \in Requests, Record(r)
    PROVE  LedgerInv'
<1> DEFINE a == Current(r)
<1>1. FlushedInv' /\ CapInv' /\ Alone' /\ FlushedInv /\ TypeInv
  BY RecordFlushed, RecordCap, NextAlone DEF LedgerInv, CapInv, Next
<1>2. UNCHANGED <<budget, logs, day>> /\ r \in Running
  BY DEF Record, tables, Running
<1>3. CASE Rollback(r)
  BY <1>2, <1>3, EndLedger DEF Rollback, Next
<1>4. CASE ~Rollback(r)
  <2>1. /\ a \in Agents /\ pc[r] = "record" /\ next[r] <= Len(pass[r])
        /\ held' = [held EXCEPT ![r] = @ \cup {a}]
        /\ pc' = [pc EXCEPT ![r] = "turn"]
    BY <1>1, <1>4, RecordStep
  <2>2. PICK l \in Logs :
          /\ l.by = r /\ l.agent = a /\ l.status = "completed" /\ l.window = mine[r][a].on
          /\ own' = [own EXCEPT ![r] = @ \cup {l}]
          /\ mine' = [mine EXCEPT ![r][a].spent = @ + l.cost]
    BY <1>1, <1>4, RecordStep
  <2>3. l \notin Seen(r)
    BY <1>1, <2>1, <2>2, FlushOne DEF Seen
  <2>4. own'[r] = own[r] \cup {l} /\ Seen(r)' = Seen(r) \cup {l} /\ held'[r] = held[r] \cup {a}
    BY <1>1, <1>2, <2>1, <2>2 DEF Seen, TypeInv, TypeOK
  <2>5. /\ mine'[r][a].spent = mine[r][a].spent + l.cost /\ mine'[r][a].on = mine[r][a].on
        /\ \A b \in Agents \ {a} : mine'[r][b] = mine[r][b]
        /\ \A b \in Agents : mine[r][b].on \in Days
    BY <1>1, <2>1, <2>2 DEF TypeInv, TypeOK
  <2>6. Running' = {r}
    BY <1>1, <1>2, <2>1 DEF Alone, Running, TypeInv, TypeOK
  <2>7. IsFiniteSet(Seen(r)) /\ Seen(r) \subseteq Logs
    BY <1>1, SeenLogs
  <2>8. WithinCap(mine'[r][a].spent)
    BY <1>1, <2>1 DEF CapInv, ObjectsWithinCap, WithinCap
  <2>9. Balanced(Seen(r) \cup {l}, mine'[r][a], a)
    <3> DEFINE b == mine[r][a]
               c == mine'[r][a]
               L == Seen(r)
    <3>1. Balanced(L, b, a) /\ b.on \in Days
      BY <1>2, <2>1, <2>5 DEF LedgerInv
    <3>2. IsFiniteSet(L) /\ L \subseteq Logs /\ l \notin L
      BY <2>3, <2>7
    <3>3. l.agent = a /\ l.status = "completed" /\ l.window = b.on
      BY <2>2
    <3>4. c.spent = b.spent + l.cost /\ c.on = b.on /\ WithinCap(c.spent)
      BY <2>5, <2>8
    <3> HIDE DEF a, b, c, L
    <3>5. Balanced(L \cup {l}, c, a)
      BY <3>1, <3>2, <3>3, <3>4, BalancedMore
    <3>. QED  BY <3>5 DEF c, L
  <2>10. ASSUME NEW b \in Agents PROVE Balanced(Seen(r), mine[r][b], b)'
    <3>1. Balanced(Seen(r), mine[r][b], b)
      BY <1>2 DEF LedgerInv
    <3>2. Balanced(Seen(r) \cup {l}, mine'[r][b], b)
      <4>1. CASE b = a
        BY <2>9, <4>1
      <4>2. CASE b # a
        BY <2>2, <2>5, <2>7, <3>1, <4>2, BalancedWithout
      <4>. QED  BY <4>1, <4>2
    <3>3. \A d : Spent(Seen(r)', b, d) = Spent(Seen(r) \cup {l}, b, d)
      BY <2>4, Zenon
    <3>. QED  BY <1>2, <2>4, <3>2, <3>3 DEF Balanced
  <2>11. \A b \in Agents : b \notin held'[r] =>
            \A k \in own'[r] : ~(k.agent = b /\ k.status = "completed")
    BY <1>2, <2>2, <2>4 DEF LedgerInv
  <2>12. (\A b \in Agents : Balanced(logs, budget[b], b))'
    BY <1>2 DEF LedgerInv, Balanced
  <2>. QED  BY <1>1, <2>6, <2>10, <2>11, <2>12 DEF LedgerInv
<1>. QED  BY <1>3, <1>4

LEMMA NextLedger ==
    ASSUME MaxRunning = 1
    PROVE  LedgerInv /\ [Next]_vars => LedgerInv'
<1> SUFFICES ASSUME LedgerInv, [Next]_vars PROVE LedgerInv'
  OBVIOUS
<1>1. FlushedInv' /\ CapInv' /\ Alone' /\ TypeInv
  BY NextFlushed, NextCap, NextAlone DEF LedgerInv, CapInv
<1>2. ASSUME NEW r \in Requests, Commit(r) PROVE LedgerInv'
  <2>1. /\ r \in Running /\ Close(r) /\ UNCHANGED day /\ logs' = Seen(r)
        /\ budget' = [a \in Agents |->
             IF a \in held[r] THEN [spent |-> mine[r][a].spent, on |-> mine[r][a].on]
                              ELSE budget[a]]
    BY <1>2 DEF Commit, Running, Seen
  <2>. QED  BY <2>1, EndLedger
<1>3. ASSUME NEW r \in Requests, Fail(r) PROVE LedgerInv'
  <2>1. r \in Running /\ Close(r) /\ UNCHANGED <<budget, logs, day>>
    BY <1>3 DEF Fail, Kept
  <2>. QED  BY <2>1, EndLedger
<1>4. CASE NewDay
  <2>1. UNCHANGED <<budget, logs, own, mine, held, pc>> /\ day' = day + 1
    BY <1>4 DEF NewDay, tables, session
  <2>2. \A a \in Agents : budget[a].on \in Int /\ \A r \in Requests : mine[r][a].on \in Int
    BY <1>1 DEF TypeInv, TypeOK, Days
  <2>3. day \in Int
    BY <1>1 DEF TypeInv, TypeOK, Days
  <2>4. (\A a \in Agents : Balanced(logs, budget[a], a))'
    BY <2>1, <2>2, <2>3 DEF LedgerInv, Balanced
  <2>5. Running' = Running /\ \A r \in Requests : Seen(r)' = Seen(r)
    BY <2>1 DEF Running, Seen
  <2>6. Running \subseteq Requests
    BY DEF Running
  <2>7. (\A r \in Running, a \in Agents : Balanced(Seen(r), mine[r][a], a))'
    BY <2>1, <2>2, <2>3, <2>5, <2>6 DEF LedgerInv, Balanced
  <2>. QED  BY <1>1, <2>1, <2>4, <2>5, <2>7 DEF LedgerInv
<1>5. CASE (\E a \in Agents, c \in Cohorts : AssignCohort(a, c)) \/ UNCHANGED vars
  <2>1. UNCHANGED <<budget, logs, own, mine, held, pc, day>>
    BY <1>5 DEF AssignCohort, vars, tables, session
  <2>. QED  BY <1>1, <2>1 DEF LedgerInv, Balanced, Running, Seen
<1>. QED  BY <1>2, <1>3, <1>4, <1>5, LoadLedger, DecideLedger, RecordLedger DEF Next

\* Requests that run one at a time leave each budget equal to what its agent's turns
\* of that window cost (execute_agent_turn), failures, fallbacks and midnight included.
THEOREM SerialBudgetIsLedger == ASSUME MaxRunning = 1 PROVE Spec => []BudgetIsLedger
<1>1. LedgerInv => BudgetIsLedger
  BY ChargedIsSpent DEF LedgerInv, Balanced, BudgetIsLedger, CapInv, TypeInv, TypeOK
<1>. QED  BY <1>1, InitLedger, NextLedger, PTL DEF Spec

\* Requests that run one at a time keep the tokens of an agent's completed turns
\* within its daily cap, day by day.
THEOREM SerialDailyCap == ASSUME MaxRunning = 1 PROVE Spec => []DailyCapHeld
<1>1. LedgerInv => DailyCapHeld
  <2> SUFFICES ASSUME LedgerInv, NEW a \in Agents, NEW d \in Days
               PROVE  \E c \in Cohorts \cup {NoCohort} : Charged(a, d) <= AgentCap[c]
    BY DEF DailyCapHeld
  <2>1. Charged(a, d) = Spent(logs, a, d)
    BY ChargedIsSpent DEF LedgerInv, CapInv, TypeInv, TypeOK
  <2>2. WithinCap(Spent(logs, a, d))
    BY DEF LedgerInv, Balanced
  <2>. QED  BY <2>1, <2>2 DEF WithinCap
<1>. QED  BY <1>1, InitLedger, NextLedger, PTL DEF Spec

-----------------------------------------------------------------------------
(* Requests that run one at a time keep a cohort's tokens of a day within    *)
(* its cap, as long as agents stay in their cohorts.                         *)

LoggedFor(c, d) ==
    {l \in Logs : cohort[l.agent] = c /\ l.status = "completed" /\ l.day = d}

CohortBounded(L) ==
    /\ \A l \in L : l.day <= day
    /\ \A c \in Cohorts, d \in Days : Tokens(L \cap LoggedFor(c, d)) <= CohortCap

PlanBounded(r) ==
    pc[r] = "record" /\ cohort[Current(r)] \in Cohorts =>
        Tokens(Seen(r) \cap LoggedFor(cohort[Current(r)], day)) + plan[r].cost <= CohortCap

CohortInv ==
    /\ FlushedInv /\ CapInv /\ Alone
    /\ CohortBounded(logs)
    /\ \A r \in Running :
         /\ CohortBounded(Seen(r))
         /\ PlanBounded(r)
         /\ \A a \in Agents : mine[r][a].cohort = cohort[a]

LEMMA InitCohort == Init => CohortInv
<1> SUFFICES ASSUME Init PROVE CohortInv
  OBVIOUS
<1>1. FlushedInv /\ CapInv
  BY InitFlushed, InitCap
<1>2. Running = {} /\ logs = {}
  BY DEF Init, Running
<1>3. \A c \in Cohorts, d \in Days : Tokens(logs \cap LoggedFor(c, d)) = 0
  <2>1. \A c, d : logs \cap LoggedFor(c, d) = {}
    BY <1>2
  <2>. QED  BY <2>1, TokensNone, Zenon
<1>. QED  BY <1>1, <1>2, <1>3 DEF CohortInv, Alone, CohortBounded

\* Nobody changes cohorts.
LEMMA CohortsStay ==
    ASSUME MaxMoves = 0, TypeOK, [Next]_vars
    PROVE  cohort' = cohort /\ \A c, d : LoggedFor(c, d)' = LoggedFor(c, d)
<1>1. ~\E a \in Agents, c \in Cohorts : AssignCohort(a, c)
  BY DEF AssignCohort, TypeOK
<1>2. cohort' = cohort
  BY <1>1 DEF Next, Load, Decide, Record, Rollback, Commit, Fail, NewDay, vars, tables
<1>. QED  BY <1>2 DEF LoggedFor, Logs, Days

LEMMA LoadCohort ==
    ASSUME MaxRunning = 1, MaxMoves = 0, CohortInv, NEW r \in Requests, Load(r)
    PROVE  CohortInv'
<1>1. FlushedInv' /\ CapInv' /\ Alone' /\ TypeInv /\ TypeOK
  BY LoadFlushed, LoadCap, NextAlone DEF CohortInv, CapInv, TypeInv, Next
<1>2. cohort' = cohort /\ \A c, d : LoggedFor(c, d)' = LoggedFor(c, d)
  BY <1>1, CohortsStay DEF Next
<1>3. /\ UNCHANGED <<logs, own, day>> /\ own[r] = {} /\ r \in Running' /\ pc'[r] = "turn"
      /\ \A a \in Agents : mine'[r][a].cohort = cohort[a]
  BY <1>1 DEF Load, tables, CohortInv, FlushedInv, TypeInv, TypeOK, Running
<1>4. Running' = {r}
  BY <1>1, <1>3 DEF Alone
<1>5. Seen(r)' = logs
  BY <1>3 DEF Seen
<1>6. CohortBounded(logs)'
  BY <1>2, <1>3 DEF CohortInv, CohortBounded
<1>7. CohortBounded(Seen(r))'
  <2>1. \A c, d : Tokens(Seen(r)' \cap LoggedFor(c, d)') = Tokens(logs \cap LoggedFor(c, d))
    BY <1>2, <1>5, Zenon
  <2>. QED  BY <1>3, <1>5, <2>1 DEF CohortInv, CohortBounded
<1>. QED  BY <1>1, <1>2, <1>3, <1>4, <1>6, <1>7 DEF CohortInv, PlanBounded

LEMMA DecideCohort ==
    ASSUME MaxRunning = 1, MaxMoves = 0, CohortInv, NEW r \in Requests, Decide(r)
    PROVE  CohortInv'
<1> DEFINE a == Current(r)
           agent == Reset(mine[r][a])
<1>1. FlushedInv' /\ CapInv' /\ Alone' /\ FlushedInv /\ TypeInv /\ TypeOK
  BY DecideFlushed, DecideCap, NextAlone DEF CohortInv, CapInv, TypeInv, Next
<1>2. cohort' = cohort /\ \A c, d : LoggedFor(c, d)' = LoggedFor(c, d)
  BY <1>1, CohortsStay DEF Next
<1>3. /\ a \in Agents /\ pc[r] = "turn" /\ UNCHANGED <<logs, day, pass>>
      /\ mine' = [mine EXCEPT ![r][a] = agent]
  BY <1>1, DecideStep DEF tables
<1>4. r \in Running /\ pc'[r] \in {"turn", "record"}
  BY <1>1, <1>3, DecideStep DEF Running, TypeInv, TypeOK
<1>5. Running' = {r}
  BY <1>1, <1>4 DEF Alone, Running
<1>6. CohortBounded(logs)'
  BY <1>2, <1>3 DEF CohortInv, CohortBounded
<1>7. agent.cohort = cohort[a] /\ \A b \in Agents : mine'[r][b].cohort = cohort'[b]
  <2>1. mine[r][a] \in [spent : Nat, on : Days, cohort : Cohorts \cup {NoCohort}]
    BY <1>1, <1>3 DEF TypeOK
  <2>2. \A b \in Agents : mine[r][b].cohort = cohort[b]
    BY <1>4 DEF CohortInv
  <2>3. agent.cohort = mine[r][a].cohort
    BY <2>1 DEF Reset
  <2>4. \A b \in Agents : mine'[r][b] = IF b = a THEN agent ELSE mine[r][b]
    BY <1>1, <1>3 DEF TypeOK
  <2>. QED  BY <1>2, <1>3, <2>2, <2>3, <2>4
<1>8. CASE \E l \in Logs :
             /\ l.status = "blocked" /\ l.day = day
             /\ own' = [own EXCEPT ![r] = @ \cup {l}]
             /\ UNCHANGED pc
  <2>1. PICK l \in Logs :
             /\ l.status = "blocked" /\ l.day = day
             /\ own' = [own EXCEPT ![r] = @ \cup {l}]
             /\ UNCHANGED pc
    BY <1>8
  <2>2. Seen(r)' = Seen(r) \cup {l}
    BY <1>1, <1>3, <2>1 DEF Seen, TypeOK
  <2>3. \A c, d : Tokens(Seen(r)' \cap LoggedFor(c, d)') = Tokens(Seen(r) \cap LoggedFor(c, d))
    <3>1. \A c, d : Seen(r)' \cap LoggedFor(c, d)' = Seen(r) \cap LoggedFor(c, d)
      BY <1>2, <2>1, <2>2 DEF LoggedFor
    <3>. QED  BY <3>1, Zenon
  <2>4. \A k \in Seen(r)' : k.day <= day
    <3>1. \A k \in Seen(r) : k.day <= day
      BY <1>4 DEF CohortInv, CohortBounded
    <3>. QED  BY <1>1, <2>1, <2>2, <3>1 DEF TypeOK, Days
  <2>5. CohortBounded(Seen(r))'
    BY <1>3, <1>4, <2>3, <2>4 DEF CohortInv, CohortBounded
  <2>6. pc'[r] # "record"
    BY <1>3, <2>1
  <2>. QED  BY <1>1, <1>5, <1>6, <1>7, <2>5, <2>6 DEF CohortInv, PlanBounded
<1>9. CASE \E cost \in Nat, p \in [kind : Kinds, cost : Nat, new : BOOLEAN] :
             /\ p.cost = cost /\ ~Blocked(r, agent, cost)
             /\ plan' = [plan EXCEPT ![r] = p]
             /\ UNCHANGED <<own, next>>
  <2>1. PICK cost \in Nat, p \in [kind : Kinds, cost : Nat, new : BOOLEAN] :
             /\ p.cost = cost /\ ~Blocked(r, agent, cost)
             /\ plan' = [plan EXCEPT ![r] = p]
             /\ UNCHANGED <<own, next>>
    BY <1>9
  <2>2. Seen(r)' = Seen(r) /\ Current(r)' = a /\ plan'[r].cost = cost
    BY <1>1, <1>3, <2>1 DEF Seen, Current, TypeOK
  <2>3. \A c, d : Tokens(Seen(r)' \cap LoggedFor(c, d)') = Tokens(Seen(r) \cap LoggedFor(c, d))
    BY <1>2, <2>2, Zenon
  <2>4. CohortBounded(Seen(r))'
    BY <1>3, <1>4, <2>2, <2>3 DEF CohortInv, CohortBounded
  <2>5. ASSUME cohort[a] \in Cohorts
        PROVE  Tokens(Seen(r) \cap LoggedFor(cohort[a], day)) + cost <= CohortCap
    <3>1. CohortSpent(r, cohort[a]) = Tokens(Seen(r) \cap LoggedFor(cohort[a], day))
      <4>1. {l \in logs \cup own[r] : cohort[l.agent] = cohort[a] /\ l.status = "completed"
                                     /\ l.day = day}
              = Seen(r) \cap LoggedFor(cohort[a], day)
        BY <1>1, SeenLogs DEF Seen, LoggedFor
      <4>. QED  BY <4>1, Zenon DEF CohortSpent
    <3>2. CohortSpent(r, cohort[a]) \in Nat
      <4>1. IsFiniteSet(Seen(r)) /\ Seen(r) \subseteq Logs /\ Seen(r) \in SUBSET Seen(r)
        BY <1>1, SeenLogs
      <4>2. Tokens(Seen(r) \cap LoggedFor(cohort[a], day)) \in Nat
        BY <4>1, TokensAmongPart
      <4>. QED  BY <3>1, <4>2
    <3>3. ~(CohortSpent(r, cohort[a]) + cost > CohortCap)
      BY <1>7, <2>1, <2>5 DEF Blocked, Exceeded
    <3>. QED  BY <3>1, <3>2, <3>3
  <2>6. PlanBounded(r)'
    BY <1>2, <1>3, <2>2, <2>3, <2>5 DEF PlanBounded
  <2>. QED  BY <1>1, <1>5, <1>6, <1>7, <2>4, <2>6 DEF CohortInv
<1>. QED  BY <1>1, <1>8, <1>9, DecideStep

LEMMA EndCohort ==
    ASSUME MaxRunning = 1, MaxMoves = 0, CohortInv, NEW r \in Requests, r \in Running, [Next]_vars,
           Close(r), UNCHANGED day, logs' = logs \/ logs' = Seen(r)
    PROVE  CohortInv'
<1>1. FlushedInv' /\ CapInv' /\ Alone' /\ TypeInv /\ TypeOK
  BY NextFlushed, NextCap, NextAlone DEF CohortInv, CapInv, TypeInv
<1>2. \A c, d : LoggedFor(c, d)' = LoggedFor(c, d)
  BY <1>1, CohortsStay
<1>3. Running' = {}
  BY <1>1 DEF Close, Running, Alone, CohortInv, TypeOK
<1>4. CohortBounded(logs)'
  <2>1. CASE logs' = logs
    BY <1>2, <2>1 DEF CohortInv, CohortBounded
  <2>2. CASE logs' = Seen(r)
    <3>1. \A c, d : Tokens(logs' \cap LoggedFor(c, d)') = Tokens(Seen(r) \cap LoggedFor(c, d))
      BY <1>2, <2>2, Zenon
    <3>. QED  BY <2>2, <3>1 DEF CohortInv, CohortBounded
  <2>. QED  BY <2>1, <2>2
<1>. QED  BY <1>1, <1>3, <1>4 DEF CohortInv

LEMMA RecordCohort ==
    ASSUME MaxRunning = 1, MaxMoves = 0, CohortInv, NEW r \in Requests, Record(r)
    PROVE  CohortInv'
<1> DEFINE a == Current(r)
<1>1. FlushedInv' /\ CapInv' /\ Alone' /\ FlushedInv /\ TypeInv /\ TypeOK
  BY RecordFlushed, RecordCap, NextAlone DEF CohortInv, CapInv, TypeInv, Next
<1>2. UNCHANGED <<logs, day>> /\ r \in Running
  BY DEF Record, tables, Running
<1>3. cohort' = cohort /\ \A c, d : LoggedFor(c, d)' = LoggedFor(c, d)
  BY <1>1, CohortsStay DEF Next
<1>4. CASE Rollback(r)
  BY <1>2, <1>4, EndCohort DEF Rollback, Next
<1>5. CASE ~Rollback(r)
  <2>1. /\ a \in Agents /\ pc[r] = "record" /\ next[r] <= Len(pass[r])
        /\ pc' = [pc EXCEPT ![r] = "turn"]
    BY <1>1, <1>5, RecordStep
  <2>2. PICK l \in Logs :
          /\ l.by = r /\ l.agent = a /\ l.status = "completed" /\ l.day = day
          /\ l.cost = plan[r].cost \/ (plan[r].kind = "text" /\ l.cost = FallbackCost)
          /\ own' = [own EXCEPT ![r] = @ \cup {l}]
          /\ mine' = [mine EXCEPT ![r][a].spent = @ + l.cost]
    BY <1>1, <1>5, RecordStep
  <2>3. l \notin Seen(r)
    BY <1>1, <2>1, <2>2, FlushOne DEF Seen
  <2>4. Seen(r)' = Seen(r) \cup {l}
    BY <1>1, <1>2, <2>2 DEF Seen, TypeOK
  <2>5. l.cost \in Nat /\ plan[r].cost \in Nat /\ l.cost <= plan[r].cost
    <3>1. plan[r].kind = "text" => FallbackCost <= plan[r].cost
      BY <2>1 DEF CohortInv, CapInv, PlansWithinCap
    <3>2. l.cost \in Nat /\ plan[r].cost \in Nat
      BY <1>1 DEF Logs, TypeOK
    <3>. QED  BY <2>2, <3>1, <3>2
  <2>6. IsFiniteSet(Seen(r)) /\ Seen(r) \subseteq Logs /\ Seen(r) \in SUBSET Seen(r)
    BY <1>1, SeenLogs
  <2>7. CohortBounded(Seen(r)) /\ PlanBounded(r)
    BY <1>2 DEF CohortInv
  <2>8. ASSUME NEW c \in Cohorts, NEW d \in Days
        PROVE  Tokens(Seen(r)' \cap LoggedFor(c, d)') <= CohortCap
    <3>1. Tokens(Seen(r)' \cap LoggedFor(c, d)') = Tokens((Seen(r) \cup {l}) \cap LoggedFor(c, d))
      BY <1>3, <2>4, Zenon
    <3>2. CASE l \in LoggedFor(c, d)
      <4>1. cohort[a] = c /\ d = day
        BY <2>2, <3>2 DEF LoggedFor
      <4>2. Tokens(Seen(r) \cap LoggedFor(c, d)) + plan[r].cost <= CohortCap
        BY <2>1, <2>7, <4>1 DEF PlanBounded
      <4>3. Tokens((Seen(r) \cup {l}) \cap LoggedFor(c, d)) = Tokens(Seen(r) \cap LoggedFor(c, d)) + l.cost
        BY <2>3, <2>6, <3>2, TokensAmongMore
      <4>4. Tokens(Seen(r) \cap LoggedFor(c, d)) \in Nat
        BY <2>6, TokensAmongPart
      <4>. QED  BY <2>5, <3>1, <4>2, <4>3, <4>4
    <3>3. CASE l \notin LoggedFor(c, d)
      <4>1. Tokens((Seen(r) \cup {l}) \cap LoggedFor(c, d)) = Tokens(Seen(r) \cap LoggedFor(c, d))
        BY <2>3, <2>6, <3>3, TokensAmongMore
      <4>. QED  BY <2>7, <3>1, <4>1 DEF CohortBounded
    <3>. QED  BY <3>2, <3>3
  <2>9. \A k \in Seen(r)' : k.day <= day'
    BY <1>1, <1>2, <2>2, <2>4, <2>7 DEF CohortBounded, TypeOK, Days
  <2>10. CohortBounded(Seen(r))'
    BY <2>8, <2>9 DEF CohortBounded, Days
  <2>11. Running' = {r} /\ pc'[r] # "record"
    BY <1>1, <1>2, <2>1 DEF Alone, Running, TypeOK
  <2>12. \A b \in Agents : mine'[r][b].cohort = cohort'[b]
    <3>1. \A b \in Agents : mine'[r][b].cohort = mine[r][b].cohort
      BY <1>1, <2>1, <2>2 DEF TypeOK
    <3>. QED  BY <1>2, <1>3, <3>1 DEF CohortInv
  <2>13. CohortBounded(logs)'
    BY <1>2, <1>3 DEF CohortInv, CohortBounded
  <2>. QED  BY <1>1, <2>10, <2>11, <2>12, <2>13 DEF CohortInv, PlanBounded
<1>. QED  BY <1>4, <1>5

\* The turn that was decided before midnight finds nothing logged for the new day.
LEMMA NewDayCohort ==
    ASSUME MaxRunning = 1, MaxMoves = 0, CohortInv, NewDay
    PROVE  CohortInv'
<1>1. FlushedInv' /\ CapInv' /\ Alone' /\ FlushedInv /\ TypeOK
  BY NextFlushed, NextCap, NextAlone DEF CohortInv, CapInv, TypeInv, Next
<1>2. UNCHANGED <<logs, own, mine, pc, cohort, plan, pass, next>> /\ day' = day + 1 /\ day \in Int
  BY <1>1 DEF NewDay, tables, session, TypeOK, Days
<1>3. \A c, d : LoggedFor(c, d)' = LoggedFor(c, d)
  BY <1>1, CohortsStay DEF Next
<1>4. Running' = Running /\ Running \subseteq Requests
      /\ \A r \in Requests : Seen(r)' = Seen(r) /\ Current(r)' = Current(r)
  BY <1>2 DEF Running, Seen, Current
<1>5. ASSUME NEW L, L \subseteq Logs, CohortBounded(L)
      PROVE  /\ \A k \in L : k.day <= day'
             /\ \A c \in Cohorts, d \in Days : Tokens(L \cap LoggedFor(c, d)') <= CohortCap
  <2>1. \A k \in L : k.day \in Int /\ k.day <= day
    BY <1>5 DEF CohortBounded, Logs, Days
  <2>2. \A c, d : Tokens(L \cap LoggedFor(c, d)') = Tokens(L \cap LoggedFor(c, d))
    BY <1>3, Zenon
  <2>3. \A k \in L : k.day <= day'
    BY <1>2, <2>1
  <2>4. \A c \in Cohorts, d \in Days : Tokens(L \cap LoggedFor(c, d)) <= CohortCap
    BY <1>5 DEF CohortBounded
  <2>. QED  BY <2>2, <2>3, <2>4
<1>6. CohortBounded(logs)' /\ \A r \in Running : CohortBounded(Seen(r))'
  <2>1. logs \subseteq Logs /\ CohortBounded(logs)
    BY <1>1, SeenLogs DEF CohortInv
  <2>2. CohortBounded(logs)'
    BY <1>2, <1>5, <2>1 DEF CohortBounded, Days
  <2>3. ASSUME NEW r \in Running PROVE CohortBounded(Seen(r))'
    <3>1. Seen(r) \subseteq Logs /\ CohortBounded(Seen(r)) /\ Seen(r)' = Seen(r)
      BY <1>1, <1>4, SeenLogs DEF CohortInv
    <3>2. \A c, d : Tokens(Seen(r)' \cap LoggedFor(c, d)') = Tokens(Seen(r) \cap LoggedFor(c, d)')
      BY <3>1, Zenon
    <3>. QED  BY <1>5, <3>1, <3>2 DEF CohortBounded, Days
  <2>. QED  BY <2>2, <2>3
<1>7. ASSUME NEW r \in Running PROVE PlanBounded(r)'
  <2> DEFINE S == Seen(r) \cap LoggedFor(cohort[Current(r)], day)
  <2>1. SUFFICES ASSUME pc[r] = "record", cohort[Current(r)] \in Cohorts
                 PROVE  Tokens(S)' + plan[r].cost <= CohortCap
    BY <1>2, <1>4 DEF PlanBounded
  <2>2. Seen(r) \subseteq Logs /\ IsFiniteSet(Seen(r)) /\ Seen(r) \in SUBSET Seen(r)
        /\ plan[r].cost \in Nat
    BY <1>1, <1>4, SeenLogs DEF TypeOK
  <2>3. Tokens(S) + plan[r].cost <= CohortCap
    BY <2>1 DEF CohortInv, PlanBounded
  <2>4. Tokens(S) \in Nat
    BY <2>2, TokensAmongPart
  <2>5. \A k \in Seen(r) : k.day <= day /\ k.day \in Int
    BY <2>2 DEF CohortInv, CohortBounded, Logs, Days
  <2>6. S' = {}
    BY <1>2, <1>4, <2>5 DEF LoggedFor
  <2>7. Tokens(S)' = 0
    <3>1. Tokens(S') = 0
      BY <2>6, TokensNone, Zenon
    <3>. QED  BY <3>1 DEF Tokens
  <2>. QED  BY <2>2, <2>3, <2>4, <2>7
<1>. QED  BY <1>1, <1>2, <1>4, <1>6, <1>7 DEF CohortInv

LEMMA NextCohort ==
    ASSUME MaxRunning = 1, MaxMoves = 0
    PROVE  CohortInv /\ [Next]_vars => CohortInv'
<1> SUFFICES ASSUME CohortInv, [Next]_vars PROVE CohortInv'
  OBVIOUS
<1>1. FlushedInv' /\ CapInv' /\ Alone' /\ TypeOK
  BY NextFlushed, NextCap, NextAlone DEF CohortInv, CapInv, TypeInv
<1>2. ASSUME NEW r \in Requests, Commit(r) \/ Fail(r) PROVE CohortInv'
  <2>1. r \in Running /\ Close(r) /\ UNCHANGED day /\ (logs' = logs \/ logs' = Seen(r))
    BY <1>2 DEF Commit, Fail, Kept, Running, Seen
  <2>. QED  BY <2>1, EndCohort
<1>3. CASE UNCHANGED vars
  <2>1. UNCHANGED <<logs, own, mine, pc, cohort, plan, pass, next, day>>
    BY <1>3 DEF vars, tables, session
  <2>2. \A c, d : LoggedFor(c, d)' = LoggedFor(c, d)
    BY <1>1, CohortsStay
  <2>. QED  BY <1>1, <2>1, <2>2 DEF CohortInv, CohortBounded, PlanBounded, Running, Seen, Current
<1>4. ~\E a \in Agents, c \in Cohorts : AssignCohort(a, c)
  BY <1>1 DEF AssignCohort, TypeOK
<1>. QED  BY <1>2, <1>3, <1>4, LoadCohort, DecideCohort, RecordCohort, NewDayCohort DEF Next

\* Requests that run one at a time, over agents that stay in their cohorts, keep the
\* tokens of a cohort's completed turns of a day within the cohort cap, though one
\* request adds several turns and a turn may straddle midnight (_cohort_spent_today).
THEOREM SerialCohortCap == ASSUME MaxRunning = 1, MaxMoves = 0 PROVE Spec => []CohortCapHeld
<1>1. CohortInv => CohortCapHeld
  <2> SUFFICES ASSUME CohortInv, NEW c \in Cohorts, NEW d \in Days
               PROVE  Tokens({l \in Completed : cohort[l.agent] = c /\ l.day = d}) <= CohortCap
    BY DEF CohortCapHeld
  <2>1. logs \subseteq Logs
    BY DEF CohortInv, CapInv, TypeInv, TypeOK
  <2>2. {l \in Completed : cohort[l.agent] = c /\ l.day = d} = logs \cap LoggedFor(c, d)
    BY <2>1 DEF Completed, LoggedFor
  <2>3. Tokens(logs \cap LoggedFor(c, d)) <= CohortCap
    BY DEF CohortInv, CohortBounded
  <2>4. Tokens({l \in Completed : cohort[l.agent] = c /\ l.day = d}) = Tokens(logs \cap LoggedFor(c, d))
    BY <2>2, Zenon
  <2>. QED  BY <2>3, <2>4
<1>. QED  BY <1>1, InitCohort, NextCohort, PTL DEF Spec

=============================================================================
