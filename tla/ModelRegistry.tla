---------------------------- MODULE ModelRegistry ----------------------------
(***************************************************************************)
(* The versions of one model name (services/ml.py, bootstrap_pipeline.py,  *)
(* routes/ml.py).                                                          *)
(*                                                                         *)
(* A version is stored by a request that trains one, or that lists the     *)
(* models and finds none; it is promoted, or given another state, by an    *)
(* administrator.  A promotion deprecates the active versions it reads.    *)
(* Time stamps are taken before the flush; a flush and its commit are one  *)
(* step, at which a column is written only if the request changed the      *)
(* value it had read.  The version in service is the active one with the   *)
(* latest promoted_at.  A version is named by the request that stored it.  *)
(***************************************************************************)
EXTENDS Naturals, SequencesExt, FiniteSets

CONSTANTS
    Calls,         \* requests
    Seed,          \* the version the seed stored
    NoVersion,     \* no version
    States,        \* registry states that are asked for
    DefaultState,  \* the catalog's default_state
    MaxCalls       \* bound: requests in progress at once

Versions == Calls \cup {Seed}

ASSUME RegistryAssumption ==
    /\ IsFiniteSet(Calls) /\ Seed \notin Calls /\ NoVersion \notin Versions
    /\ DefaultState \in States /\ "active" \in States
    /\ "absent" \notin States
    /\ MaxCalls \in Nat

VARIABLES
    state,     \* registry_state of each version, or absent
    promoted,  \* its promoted_at, 0 for NULL
    clock,     \* time stamps taken so far
    pc,        \* where each request is
    job,       \* the version and state a request is about, and the state it read
    others,    \* the active versions it read
    stamp,     \* the time stamp it took
    line,      \* history: the versions that came into service and were not taken out again
    serial     \* no two requests were in progress at once so far

registry == <<state, promoted>>
registryVars == <<registry, clock, pc, job, others, stamp, line, serial>>

NoJob == [version |-> NoVersion, to |-> "absent", was |-> "absent"]
Busy == {r \in Calls : pc[r] \notin {"idle", "done"}}
ActiveVersions == {v \in Versions : state[v] = "active"}

\* What latest_model_version returns of some versions.
Latest(S) == IF S = {} THEN NoVersion ELSE CHOOSE v \in S : \A w \in S : promoted[w] <= promoted[v]

\* An empty registry, or the model the seed trained.
RegistryInit ==
    /\ \E first \in {"absent", DefaultState} :
         /\ state = [v \in Versions |-> IF v = Seed THEN first ELSE "absent"]
         /\ promoted = [v \in Versions |-> IF v = Seed /\ first = "active" THEN 1 ELSE 0]
         /\ line = IF first = "active" THEN <<Seed>> ELSE <<>>
    /\ clock = 1
    /\ pc = [r \in Calls |-> "idle"]
    /\ job = [r \in Calls |-> NoJob]
    /\ others = [r \in Calls |-> {}]
    /\ stamp = [r \in Calls |-> 0]
    /\ serial = TRUE

Start(r, where, about) ==
    /\ pc[r] = "idle"
    /\ Cardinality(Busy) < MaxCalls
    /\ pc' = [pc EXCEPT ![r] = where]
    /\ job' = [job EXCEPT ![r] = about]
    /\ serial' = (serial /\ Busy = {})
    /\ UNCHANGED <<registry, others, line>>

\* The session is closed.
End(r) ==
    /\ pc' = [pc EXCEPT ![r] = "done"]
    /\ job' = [job EXCEPT ![r] = NoJob]
    /\ others' = [others EXCEPT ![r] = {}]
    /\ stamp' = [stamp EXCEPT ![r] = 0]
    /\ UNCHANGED <<clock, serial>>

TakeStamp(r) == stamp' = [stamp EXCEPT ![r] = clock + 1] /\ clock' = clock + 1

\* A model trained in the state active is stamped too.
Stamped(r, to) == IF to = "active" THEN TakeStamp(r) ELSE UNCHANGED <<stamp, clock>>

\* bootstrap_model: train a version, in a given state or the default one.
StartTraining(r) ==
    \E to \in States :
        /\ Start(r, "store", [version |-> r, to |-> to, was |-> "absent"])
        /\ Stamped(r, to)

\* list_models: train one if there is none.
StartListing(r) ==
    /\ \A v \in Versions : state[v] = "absent"
    /\ Start(r, "store", [version |-> r, to |-> DefaultState, was |-> "absent"])
    /\ Stamped(r, DefaultState)

\* promote_model reads the version; without one it is a 404.
StartPromotion(r) ==
    /\ \E v \in Versions, to \in States :
         /\ state[v] # "absent"
         /\ Start(r, IF to = "active" THEN "others" ELSE "write",
                  [version |-> v, to |-> to, was |-> state[v]])
    /\ UNCHANGED <<stamp, clock>>

\* The other active versions, then the time of the promotion.
ReadActive(r) ==
    /\ pc[r] = "others"
    /\ others' = [others EXCEPT ![r] = ActiveVersions \ {job[r].version}]
    /\ pc' = [pc EXCEPT ![r] = "write"]
    /\ TakeStamp(r)
    /\ UNCHANGED <<registry, job, line, serial>>

\* The new version with its data set and evaluation.
Store(r) ==
    /\ pc[r] = "store"
    /\ state' = [state EXCEPT ![r] = job[r].to]
    /\ promoted' = [promoted EXCEPT ![r] = stamp[r]]
    /\ line' = IF job[r].to = "active" THEN Append(line, r) ELSE line
    /\ End(r)

\* Variant: the other versions stay as they are.
StatesLeft(r) == [state EXCEPT ![job[r].version] = job[r].to]

\* The registry states a promotion leaves.
StatesAfter(r) ==
    [v \in Versions |->
        IF v \in others[r] THEN "deprecated"
        ELSE IF v = job[r].version /\ job[r].to # job[r].was THEN job[r].to
        ELSE state[v]]

\* promote_model's flush and the commit of the route.
Write(r) ==
    /\ pc[r] = "write"
    /\ state' = StatesAfter(r)
    /\ promoted' = IF job[r].to = "active"
                   THEN [promoted EXCEPT ![job[r].version] = stamp[r]] ELSE promoted
    /\ line' = IF job[r].to = "active" THEN <<job[r].version>>
               ELSE RemoveFirst(line, job[r].version)
    /\ End(r)

\* A crash, or a data set that was named in the same second (dataset_ref is unique).
Lose(r) == r \in Busy /\ End(r) /\ UNCHANGED <<registry, line>>

RegistryNext ==
    \E r \in Calls :
        \/ StartTraining(r) \/ StartListing(r) \/ StartPromotion(r)
        \/ ReadActive(r) \/ Store(r) \/ Write(r) \/ Lose(r)

RegistrySpec == RegistryInit /\ [][RegistryNext]_registryVars

-----------------------------------------------------------------------------
(* Properties *)

\* The version in service is well defined, however requests overlap: an active
\* version has a promoted_at of its own, which decides (latest_model_version, where
\* a NULL would come first).  Without overlap the active versions are the one that
\* was promoted last and those stored as active since, without those given another
\* state, and the last of them to come serves (promote_model).
ServiceWellDefined ==
    /\ \A v, w \in ActiveVersions : promoted[v] # 0 /\ (promoted[v] = promoted[w] => v = w)
    /\ serial => /\ ActiveVersions = {line[i] : i \in DOMAIN line}
                 /\ line # <<>> => Latest(ActiveVersions) = line[Len(line)]
=============================================================================
