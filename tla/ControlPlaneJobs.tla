-------------------------- MODULE ControlPlaneJobs --------------------------
(***************************************************************************)
(* Experiment ticks, scenario injections, their job rows, and the Temporal *)
(* workflow that asks for ticks (simulation.py, workers/temporal).         *)
(*                                                                         *)
(* A tick reads its experiment, claims a job row, activates a draft, adds  *)
(* an injection, changes the targeted agents, counts itself, and completes *)
(* the job, in one READ COMMITTED transaction that takes no lock when it   *)
(* reads.  A flushed row stays held to the end.  The steps are the ones    *)
(* other transactions can get between: the read of the experiment, the     *)
(* flush of the job, the flush of the injection with the read of the       *)
(* agents, and the rest, which only waits for held rows.                   *)
(*                                                                         *)
(* The workflow calls the tick route once per tick.  It repeats a call     *)
(* that fails or takes too long, and a call it gave up keeps running.      *)
(*                                                                         *)
(* Turns, dispatches and calibrations are jobs too (kind "other").  A      *)
(* caller may name any stored job, of another experiment or of another     *)
(* kind: the row is taken over, and nothing compares it with the request.  *)
(*                                                                         *)
(* An injection adds to (or multiplies) a number of every targeted agent;  *)
(* "level" is how many such changes the stored number contains.            *)
(***************************************************************************)
EXTENDS Integers, Sequences, FiniteSetsExt, Functions

CONSTANTS
    Experiments, Agents,
    Targets,      \* the agents in the cohort of each experiment
    Started,      \* experiments created with start_immediately
    WithModel,    \* experiments whose target_model is in the registry
    Calls,        \* requests of the workflow, retries included
    Clients,      \* requests of administrators and other services
    NoRequest,
    Scheduled,    \* the experiment of the workflow
    Ticks,        \* how many ticks it was asked for
    MaxRunning,   \* bound: requests in progress at once
    MaxTroubles   \* bound: calls given up, and failures for other reasons than a missing model

Requests == Calls \cup Clients

ASSUME ConstantsAssumption ==
    /\ Targets \in [Experiments -> SUBSET Agents]
    /\ Started \subseteq Experiments /\ WithModel \subseteq Experiments
    /\ Calls \subseteq Nat /\ Clients \subseteq Nat /\ Calls \cap Clients = {}
    /\ IsFiniteSet(Requests)
    /\ NoRequest \notin Requests
    /\ Experiments \cap Requests = {}
    /\ Scheduled \in Experiments
    /\ Ticks \in Int
    /\ MaxRunning \in Nat /\ MaxTroubles \in Nat

VARIABLES
    experiments,  \* experiment_runs: state and metrics_json
    jobs,         \* control_plane_jobs, by the request that created them
    injections,   \* scenario_injections.state, by the request that created them
    level,        \* what injections changed in the agents
    applied,      \* <<request, injection>> whose scenario_injected events exist
    pc,           \* where each request is
    work,         \* what it was asked
    mine,         \* its session's objects: the experiment, the levels of agents
    held,         \* job and experiment rows it flushed, and so holds
    results,      \* results of the workflow: the calls that succeeded
    call,         \* the call it waits for
    gaveUp,       \* calls it no longer waits for
    failures,     \* requests that failed
    alone         \* no two requests were in progress at once so far

tables == <<experiments, jobs, injections, level, applied>>
session == <<work, mine, held>>
flow == <<results, call, gaveUp>>
vars == <<tables, pc, session, flow, failures, alone>>

Kinds == {"tick", "report", "create", "inject", "apply", "other"}
Idle == [kind |-> "create", of |-> Scheduled, on |-> NoRequest]
NoTicks == [state |-> "draft", ticks |-> 0, job |-> NoRequest, injection |-> NoRequest]
Absent == [status |-> "absent", result |-> NoRequest]
Unread == [experiment |-> NoTicks, level |-> [a \in Agents |-> 0]]
Running == {r \in Requests : pc[r] \in {"claim", "inject", "commit"}}

IsTick(r) == work[r].kind \in {"tick", "report"}
HasJob(r) == IsTick(r) \/ work[r].kind = "other"
StoredJobs == {j \in Requests : jobs[j].status # "absent"}
Free(r, row) == \A q \in Requests \ {r} : row \notin held[q]

Init ==
    /\ experiments = [e \in Experiments |->
                         [NoTicks EXCEPT !.state = IF e \in Started THEN "active" ELSE "draft"]]
    /\ jobs = [r \in Requests |-> Absent]
    /\ injections = [r \in Requests |-> "absent"]
    /\ level = [a \in Agents |-> 0]
    /\ applied = {}
    /\ pc = [r \in Requests |-> "new"]
    /\ work = [r \in Requests |-> Idle]
    /\ mine = [r \in Requests |-> Unread]
    /\ held = [r \in Requests |-> {}]
    /\ results = <<>>
    /\ call = NoRequest
    /\ gaveUp = 0
    /\ failures = 0
    /\ alone = TRUE

-----------------------------------------------------------------------------
(* Requests.  Within its pool a request takes the next unused number.      *)

NextOf(pool, r) == pc[r] = "new" /\ \A q \in pool : pc[q] = "new" => r <= q

\* What a request reads first: a tick uses the experiment, an apply the agents.
Arrive(r, w, at) ==
    /\ Cardinality(Running) < MaxRunning
    /\ pc' = [pc EXCEPT ![r] = at]
    /\ work' = [work EXCEPT ![r] = w]
    /\ mine' = [mine EXCEPT ![r] = [experiment |-> experiments[w.of], level |-> level]]
    /\ alone' = (alone /\ Running = {})
    /\ UNCHANGED <<tables, held, failures>>

\* run_experiment_tick_job up to the look for the job row: the experiment is read here,
\* and the named job found whatever it is about.
\* A request that names no job, or one that does not exist, will insert its own.
StartTick(r, e, j, kind) == Arrive(r, [kind |-> kind, of |-> e, on |-> j], "claim")

\* create_injection, with apply_now ("inject") or without ("create").
StartCreate(r, e, kind) == Arrive(r, [kind |-> kind, of |-> e, on |-> r], "inject")

\* apply_injection of a stored injection, whatever its state: it reads the agents.
StartApply(r, i) ==
    /\ injections[i] # "absent"
    /\ Arrive(r, [kind |-> "apply", of |-> work[i].of, on |-> i], "commit")

\* run_agent_turn_job, run_agent_dispatch_job and run_calibration_job: here, only their job.
StartOther(r, j) == Arrive(r, [kind |-> "other", of |-> Scheduled, on |-> j], "claim")

ClientRequest(r) ==
    /\ NextOf(Clients, r)
    /\ \/ \E e \in Experiments, kind \in {"tick", "report"} :
             \E j \in {r} \cup StoredJobs : StartTick(r, e, j, kind)
       \/ \E j \in {r} \cup StoredJobs : StartOther(r, j)
       \/ \E e \in Experiments, kind \in {"create", "inject"} : StartCreate(r, e, kind)
       \/ \E i \in Requests : StartApply(r, i)
    /\ UNCHANGED flow

\* Variant: marking the job as running is committed at once.
ClaimCommitted(r) ==
    /\ pc[r] = "claim"
    /\ Free(r, work[r].on)
    /\ jobs' = [jobs EXCEPT ![work[r].on].status = "running"]
    /\ held' = [held EXCEPT ![r] = {work[r].on}]
    /\ pc' = [pc EXCEPT ![r] = IF IsTick(r) THEN "inject" ELSE "commit"]
    /\ UNCHANGED <<experiments, injections, level, applied, work, mine, flow, failures, alone>>

\* The job row is inserted, or a named one marked as running: nobody else sees it yet.
Claim(r) ==
    /\ pc[r] = "claim"
    /\ Free(r, work[r].on)
    /\ held' = [held EXCEPT ![r] = {work[r].on}]
    /\ pc' = [pc EXCEPT ![r] = IF IsTick(r) THEN "inject" ELSE "commit"]
    /\ UNCHANGED <<tables, work, mine, flow, failures, alone>>

\* The injection is inserted, together with the activation of a draft, whose row is held;
\* then the agents are read.
Inject(r) ==
    /\ pc[r] = "inject"
    /\ IF IsTick(r) /\ mine[r].experiment.state = "draft"
         THEN /\ Free(r, work[r].of)
              /\ held' = [held EXCEPT ![r] = @ \cup {work[r].of}]
         ELSE held' = held
    /\ mine' = [mine EXCEPT ![r].level = level]
    /\ pc' = [pc EXCEPT ![r] = "commit"]
    /\ UNCHANGED <<tables, work, flow, failures, alone>>

-----------------------------------------------------------------------------
(* The end of a request.                                                   *)

\* The session ends: its objects and locks are gone.
Close(r) ==
    /\ held' = [held EXCEPT ![r] = {}]
    /\ mine' = [mine EXCEPT ![r] = Unread]

\* The injection a request makes or applies.
Injected(r) == IF work[r].kind = "apply" THEN work[r].on ELSE r

\* Variant: the earlier metrics are not carried over.
TickedAnew(r) ==
    [state |-> "active", ticks |-> 1, job |-> work[r].on, injection |-> r]

\* Variant: the last job is always taken to be a new one.
TickedByNewJob(r) ==
    [state |-> "active", ticks |-> mine[r].experiment.ticks + 1, job |-> r, injection |-> r]

\* What a tick stores in its experiment, computed from what it read at its start.
Ticked(r) ==
    [state |-> IF mine[r].experiment.state = "draft"
                 THEN "active" ELSE experiments[work[r].of].state,
     ticks |-> mine[r].experiment.ticks + 1,
     job |-> work[r].on,
     injection |-> r]

\* Variant: the route applies once more what was created with apply_now.
BoostedTwice(r) ==
    [a \in Agents |-> IF a \in Targets[work[r].of]
                        THEN mine[r].level[a] + IF work[r].kind = "inject" THEN 2 ELSE 1
                        ELSE level[a]]

\* What applying an injection stores in the agents of the cohort.
Boosted(r) ==
    [a \in Agents |-> IF a \in Targets[work[r].of] THEN mine[r].level[a] + 1 ELSE level[a]]

\* Variant: apply leaves the state of the injection as it is.
StateLeft(r) == IF work[r].kind \in {"create", "apply"} THEN "pending" ELSE "applied"

\* The state an injection ends in.
StateOf(r) == IF work[r].kind = "create" THEN "pending" ELSE "applied"

\* The follow-up report finds no version of the target model.
Unreportable(r) == work[r].kind = "report" /\ work[r].of \notin WithModel

Commit(r) ==
    /\ pc[r] = "commit"
    /\ ~Unreportable(r)
    /\ IF work[r].kind = "other"
         THEN UNCHANGED injections
         ELSE injections' = [injections EXCEPT ![Injected(r)] = StateOf(r)]
    /\ IF work[r].kind \in {"create", "other"}
         THEN UNCHANGED <<level, applied>>
         ELSE /\ level' = Boosted(r)
              /\ applied' = applied \cup {<<r, Injected(r)>>}
    /\ IF IsTick(r)
         THEN /\ Free(r, work[r].of)
              /\ experiments' = [experiments EXCEPT ![work[r].of] = Ticked(r)]
         ELSE UNCHANGED experiments
    /\ IF HasJob(r)
         THEN jobs' = [jobs EXCEPT ![work[r].on] = [status |-> "completed", result |-> r]]
         ELSE UNCHANGED jobs
    /\ pc' = [pc EXCEPT ![r] = "done"]
    /\ Close(r)
    /\ UNCHANGED <<work, flow, failures, alone>>

\* The exception leaves the route, the session is closed and everything rolled back,
\* the status set by fail_control_plane_job with the rest.
Rollback(r) ==
    /\ pc' = [pc EXCEPT ![r] = "failed"]
    /\ work' = [work EXCEPT ![r] = Idle]
    /\ Close(r)
    /\ UNCHANGED <<tables, flow, alone>>

NoModel(r) ==
    /\ pc[r] = "commit" /\ Unreportable(r)
    /\ Rollback(r)
    /\ UNCHANGED failures

Fail(r) ==
    /\ r \in Running
    /\ failures + gaveUp < MaxTroubles
    /\ failures' = failures + 1
    /\ Rollback(r)

-----------------------------------------------------------------------------
(* ScheduledExperimentWorkflow.                                            *)

Length == IF Ticks > 1 THEN Ticks ELSE 1

\* The next activity starts an attempt; only the last tick includes the report.
CallTick(r) ==
    /\ call = NoRequest /\ Len(results) < Length
    /\ NextOf(Calls, r)
    /\ StartTick(r, Scheduled, r, IF Len(results) = Ticks - 1 THEN "report" ELSE "tick")
    /\ call' = r
    /\ UNCHANGED <<results, gaveUp>>

\* Variant: an error answer is taken for a result.
ReturnAnything ==
    /\ call # NoRequest /\ pc[call] \in {"done", "failed"}
    /\ results' = Append(results, call)
    /\ call' = NoRequest
    /\ UNCHANGED <<tables, pc, session, gaveUp, failures, alone>>

\* The answer arrives.
Return ==
    /\ call # NoRequest /\ pc[call] = "done"
    /\ results' = Append(results, call)
    /\ call' = NoRequest
    /\ UNCHANGED <<tables, pc, session, gaveUp, failures, alone>>

\* Variant: errors are not retried.
RetryNever == FALSE /\ UNCHANGED vars

\* An error answer raises in the activity, which is attempted again.
Retry ==
    /\ call # NoRequest /\ pc[call] = "failed"
    /\ call' = NoRequest
    /\ UNCHANGED <<tables, pc, session, results, gaveUp, failures, alone>>

\* The HTTP client or the activity runs out of time, or the answer is lost.
GiveUp ==
    /\ call # NoRequest
    /\ failures + gaveUp < MaxTroubles
    /\ gaveUp' = gaveUp + 1
    /\ call' = NoRequest
    /\ UNCHANGED <<tables, pc, session, results, failures, alone>>

-----------------------------------------------------------------------------
Proceed(r) == Claim(r) \/ Inject(r) \/ Commit(r) \/ NoModel(r)

Workflow == (\E r \in Calls : CallTick(r)) \/ Return \/ Retry

Next ==
    \/ \E r \in Clients : ClientRequest(r)
    \/ \E r \in Requests : Proceed(r) \/ Fail(r)
    \/ Workflow
    \/ GiveUp

Spec == Init /\ [][Next]_vars

\* Requests run in threads of the server, Temporal keeps a workflow going.
FairSpec ==
    /\ Spec
    /\ \A r \in Requests : WF_vars(Proceed(r))
    /\ WF_vars(Workflow)

-----------------------------------------------------------------------------
(* Properties.                                                             *)

\* Every variable has its type.  "failed" is no status of a stored job: the transaction that
\* would store it is always rolled back (fail_control_plane_job).
TypeOK ==
    /\ experiments \in [Experiments -> [state : {"draft", "active"}, ticks : Nat,
                                        job : Requests \cup {NoRequest},
                                        injection : Requests \cup {NoRequest}]]
    /\ jobs \in [Requests -> [status : {"absent", "running", "completed"},
                              result : Requests \cup {NoRequest}]]
    /\ injections \in [Requests -> {"absent", "pending", "applied"}]
    /\ level \in [Agents -> Nat]
    /\ applied \subseteq Requests \X Requests
    /\ pc \in [Requests -> {"new", "claim", "inject", "commit", "done", "failed"}]
    /\ work \in [Requests -> [kind : Kinds, of : Experiments,
                              on : Requests \cup {NoRequest}]]
    /\ mine \in [Requests -> [experiment : [state : {"draft", "active"}, ticks : Nat,
                                            job : Requests \cup {NoRequest},
                                            injection : Requests \cup {NoRequest}],
                              level : [Agents -> Nat]]]
    /\ held \in [Requests -> SUBSET (Requests \cup Experiments)]
    /\ results \in Seq(Calls)
    /\ call \in Calls \cup {NoRequest}
    /\ gaveUp \in Nat /\ failures \in Nat
    /\ alone \in BOOLEAN

\* The ticks whose injection is stored.
TicksOf(e) == {i \in Requests : IsTick(i) /\ work[i].of = e /\ injections[i] # "absent"}

\* A visible job is completed, and its result is that of a request that worked on this very
\* job; a tick's is an applied injection.  So it is whatever failed, was repeated, took the job
\* over from another experiment, or ran at the same time (run_experiment_tick_job).
JobsTellTheTruth ==
    \A j \in StoredJobs :
        LET r == jobs[j].result
        IN  /\ jobs[j].status = "completed"
            /\ r \in Requests /\ HasJob(r) /\ work[r].on = j
            /\ IsTick(r) => injections[r] = "applied"

\* The last job and the last injection an experiment names (metrics_json: last_job_id,
\* last_injection_id) are those of one tick of its own, and the injection is the job's result
\* unless a tick of another experiment, or other work, took the job over since.
LastTickAgrees ==
    \A e \in Experiments : TicksOf(e) # {} =>
        LET i == experiments[e].injection
        IN  /\ i \in TicksOf(e)
            /\ experiments[e].job = work[i].on
            /\ jobs[work[i].on].result \in TicksOf(e) => jobs[work[i].on].result = i

\* An experiment never counts more ticks than it has injections from ticks, and exactly as
\* many as long as requests came one at a time; a ticked experiment is active
\* (metrics_json.ticks_run).
TicksCounted ==
    \A e \in Experiments :
        /\ experiments[e].ticks <= Cardinality(TicksOf(e))
        /\ alone => experiments[e].ticks = Cardinality(TicksOf(e))
        /\ TicksOf(e) # {} => experiments[e].state = "active" /\ experiments[e].ticks > 0

\* An agent never has more injections in its numbers than its events tell, and exactly as
\* many as long as requests came one at a time (apply_scenario_injection).
LevelIsHistory ==
    \A a \in Agents :
        LET told == {p \in applied : a \in Targets[work[p[2]].of]}
        IN  /\ level[a] <= Cardinality(told)
            /\ alone => level[a] = Cardinality(told)

\* An injection is marked as applied if and only if some request applied it
\* (scenario_injections.state).
StateIsHistory ==
    \A i \in Requests :
        injections[i] = "applied" <=> \E r \in Requests : <<r, i>> \in applied

\* Each result of the workflow is a tick of its own; calls ticked more often than the workflow
\* knows only where it gave a call up (execute_activity of run_experiment_tick_activity).
ResultsAreTicks ==
    LET ticked == TicksOf(Scheduled) \cap Calls
    IN  /\ Range(results) \subseteq ticked
        /\ Cardinality(Range(results)) = Len(results)
        /\ Cardinality(ticked \ (Range(results) \cup {call})) <= gaveUp

\* When the model of the last tick's report exists, and failures and time-outs end, the
\* workflow gets all its results (ScheduledExperimentWorkflow.run).
WorkflowFinishes == Scheduled \in WithModel => <>(Len(results) = Length)
=============================================================================
