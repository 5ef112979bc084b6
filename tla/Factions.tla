------------------------------ MODULE Factions ------------------------------
(***************************************************************************)
(* The factions of the agents (rebuild_factions and list_factions in       *)
(* services/observability.py, the admin routes in                          *)
(* routes/observability.py).                                               *)
(*                                                                         *)
(* A rebuild reads the active agents, groups them by their signature,      *)
(* reads the factions, stores those that are missing (each with a flush of *)
(* its own, which waits for another session that stores the same name)     *)
(* and assigns the agents in the end.  Agents are created, and scenario    *)
(* injections move their beliefs, meanwhile.                               *)
(***************************************************************************)
EXTENDS Naturals, FiniteSets

CONSTANTS
    Rebuilds,    \* requests
    Agents,      \* active agents
    Signatures,  \* what _belief_signature makes of a vector and a cohort
    MaxMoves     \* bound: agents created and beliefs moved

ASSUME FactionsAssumption == "none" \notin Signatures /\ MaxMoves \in Nat /\ IsFiniteSet(Rebuilds)

VARIABLES
    signature,  \* of each agent, none before it is created
    faction,    \* the name of the faction faction_id refers to
    stored,     \* the names of the stored factions (unique)
    at,         \* where each rebuild is
    seen,       \* the signatures of the agents it read
    linked,     \* the factions of those agents, as read
    known,      \* the factions it read or stored
    mine,       \* those it stored and has not committed
    moves,      \* moves so far
    settled,    \* history: the agents whose last move was before the last rebuild read them
    orderly     \* no two rebuilds were under way at once so far

factionVars ==
    <<signature, faction, stored, at, seen, linked, known, mine, moves, settled, orderly>>

Active == {r \in Rebuilds : at[r] \notin {"idle", "done"}}
Nobody == [a \in Agents |-> "none"]
Members(r) == {a \in Agents : seen[r][a] # "none"}

FactionsInit ==
    /\ signature \in [Agents -> Signatures \cup {"none"}]
    /\ faction = Nobody
    /\ stored = {}
    /\ at = [r \in Rebuilds |-> "idle"]
    /\ seen = [r \in Rebuilds |-> Nobody]
    /\ linked = [r \in Rebuilds |-> Nobody]
    /\ known = [r \in Rebuilds |-> {}]
    /\ mine = [r \in Rebuilds |-> {}]
    /\ moves = 0
    /\ settled = {}
    /\ orderly = TRUE

\* create_agent, or an injection that moves the beliefs of an agent.
Move(a) ==
    /\ moves < MaxMoves
    /\ \E g \in Signatures \ {signature[a]} : signature' = [signature EXCEPT ![a] = g]
    /\ moves' = moves + 1
    /\ settled' = settled \ {a}
    /\ UNCHANGED <<faction, stored, at, seen, linked, known, mine, orderly>>

\* A rebuild that is asked for, or a list that finds no factions: the active agents.
ReadAgents(r) ==
    /\ at[r] = "idle"
    /\ signature # Nobody
    /\ seen' = [seen EXCEPT ![r] = signature]
    /\ linked' = [linked EXCEPT ![r] = faction]
    /\ at' = [at EXCEPT ![r] = "factions"]
    /\ settled' = settled \cup {a \in Agents : signature[a] # "none"}
    /\ orderly' = (orderly /\ Active = {})
    /\ UNCHANGED <<signature, faction, stored, known, mine, moves>>

ReadFactions(r) ==
    /\ at[r] = "factions"
    /\ known' = [known EXCEPT ![r] = stored]
    /\ at' = [at EXCEPT ![r] = "assign"]
    /\ UNCHANGED <<signature, faction, stored, seen, linked, mine, moves, settled, orderly>>

Missing(r) == {seen[r][a] : a \in Members(r)} \ known[r]

\* A faction is flushed, once no other session holds its name.
StoreFaction(r, g) ==
    /\ at[r] = "assign"
    /\ g \in Missing(r) \ stored
    /\ \A o \in Rebuilds : g \notin mine[o]
    /\ known' = [known EXCEPT ![r] = @ \cup {g}]
    /\ mine' = [mine EXCEPT ![r] = @ \cup {g}]
    /\ UNCHANGED <<signature, faction, stored, at, seen, linked, moves, settled, orderly>>

CloseRebuild(r) ==
    /\ at' = [at EXCEPT ![r] = "done"]
    /\ seen' = [seen EXCEPT ![r] = Nobody]
    /\ linked' = [linked EXCEPT ![r] = Nobody]
    /\ known' = [known EXCEPT ![r] = {}]
    /\ mine' = [mine EXCEPT ![r] = {}]
    /\ UNCHANGED <<signature, moves, orderly>>

\* Variant: only the members of the new factions are assigned.
AssignedNew(r, a) == IF seen[r][a] \in mine[r] THEN seen[r][a] ELSE faction[a]

\* An agent's faction_id is written if it is not the one that was read.
Assigned(r, a) ==
    IF a \in Members(r) /\ seen[r][a] # linked[r][a] THEN seen[r][a] ELSE faction[a]

\* The members are assigned: the last flush and the commit of the route.
CommitFactions(r) ==
    /\ at[r] = "assign"
    /\ Missing(r) = {}
    /\ stored' = stored \cup mine[r]
    /\ faction' = [a \in Agents |-> Assigned(r, a)]
    /\ CloseRebuild(r)
    /\ UNCHANGED settled

\* A rollback: a name another session has committed meanwhile (Faction.name is
\* unique), a deadlock with it, a crash.
AbortRebuild(r) ==
    /\ r \in Active
    /\ settled' = {}
    /\ CloseRebuild(r)
    /\ UNCHANGED <<faction, stored>>

FactionsNext ==
    \/ \E a \in Agents : Move(a)
    \/ \E r \in Rebuilds :
         \/ ReadAgents(r) \/ ReadFactions(r) \/ CommitFactions(r) \/ AbortRebuild(r)
         \/ \E g \in Signatures : StoreFaction(r, g)

FactionsSpec == FactionsInit /\ [][FactionsNext]_factionVars

-----------------------------------------------------------------------------
(* Properties *)

\* An agent refers to a faction that is stored, a faction is never stored twice, and
\* after rebuilds that did not overlap an agent that has not moved since the last one
\* read it is in the faction of its signature (rebuild_factions: what was read is
\* assigned after other sessions have committed).
FactionsFollowBeliefs ==
    /\ \A a \in Agents : faction[a] \in stored \cup {"none"}
    /\ \A r, o \in Rebuilds : mine[r] \cap stored = {} /\ (r # o => mine[r] \cap mine[o] = {})
    /\ orderly /\ Active = {} => \A a \in settled : faction[a] = signature[a]
=============================================================================
