----------------------- MODULE ControlPlaneJobsProofs -----------------------
(***************************************************************************)
(* Theorems about jobs, ticks and injections for any experiments, cohorts, *)
(* requests, failures and time-outs.                                       *)
(***************************************************************************)
EXTENDS ControlPlaneJobs, FiniteSetTheorems, TLAPS

USE ConstantsAssumption

Works == [kind : Kinds, of : Experiments, on : Requests \cup {NoRequest}]
Rows == [state : {"draft", "active"}, ticks : Nat,
         job : Requests \cup {NoRequest}, injection : Requests \cup {NoRequest}]
Objects == [experiment : Rows, level : [Agents -> Nat]]
Job == [status : {"absent", "running", "completed"}, result : Requests \cup {NoRequest}]

-----------------------------------------------------------------------------
(* A request in progress works on a row that is its own or is stored.  What *)
(* is stored was stored by requests that are done.                          *)

WorkOK ==
    \A r \in Running :
        /\ pc[r] = "claim" => HasJob(r)
        /\ pc[r] = "inject" => work[r].kind # "other"
        /\ HasJob(r) => /\ work[r].on \in Requests
                        /\ work[r].on # r => jobs[work[r].on].status # "absent"
        /\ work[r].kind = "apply" => /\ work[r].on \in Requests
                                     /\ injections[work[r].on] # "absent"
                                     /\ pc[r] = "commit"

StoredByDone ==
    /\ \A j \in Requests : jobs[j].status # "absent" =>
           /\ pc[j] = "done"
           /\ jobs[j].result # NoRequest => pc[jobs[j].result] = "done"
    /\ \A i \in Requests : injections[i] # "absent" => pc[i] = "done"

JobNamed == \A r \in Requests : HasJob(r) => work[r].on \in Requests

JobInv ==
    /\ TypeOK
    /\ WorkOK
    /\ JobNamed
    /\ StoredByDone
    /\ JobsTellTheTruth
    /\ LastTickAgrees
    /\ StateIsHistory

LEMMA InitType == Init => TypeOK
  BY DEF Init, TypeOK, NoTicks, Absent, Idle, Kinds, Unread

LEMMA UnreadType == Unread \in Objects
  BY DEF Unread, Objects, Rows, NoTicks

LEMMA IdleType == Idle \in Works
  BY DEF Idle, Works, Kinds

\* A request that arrives with well-typed work keeps the types.
LEMMA ArriveType ==
    ASSUME TypeOK, NEW r \in Requests, NEW w \in Works, NEW at \in {"claim", "inject", "commit"},
           Arrive(r, w, at),
           results' \in Seq(Calls), call' \in Calls \cup {NoRequest}, gaveUp' \in Nat
    PROVE  TypeOK'
<1>1. [experiment |-> experiments[w.of], level |-> level] \in Objects
  BY DEF Works, Objects, Rows, TypeOK
<1>2. mine' \in [Requests -> Objects]
  BY <1>1 DEF Arrive, TypeOK, Objects, Rows
<1>3. work' \in [Requests -> Works]
  BY DEF Arrive, TypeOK, Works
<1>4. UNCHANGED <<experiments, jobs, injections, level, applied, held, failures>>
  BY DEF Arrive, tables
<1>. QED  BY <1>2, <1>3, <1>4 DEF Arrive, TypeOK, Works, Objects, Rows

LEMMA ClientRequestType == ASSUME TypeOK, NEW r \in Clients, ClientRequest(r) PROVE TypeOK'
<1>1. r \in Requests
  BY DEF Requests
<1>2. results' \in Seq(Calls) /\ call' \in Calls \cup {NoRequest} /\ gaveUp' \in Nat
  BY DEF ClientRequest, flow, TypeOK
<1>3. CASE \E e \in Experiments, kind \in {"tick", "report"} :
               \E j \in {r} \cup StoredJobs : StartTick(r, e, j, kind)
  BY <1>1, <1>2, <1>3, ArriveType DEF StartTick, StoredJobs, Works, Kinds
<1>4. CASE \E e \in Experiments, kind \in {"create", "inject"} : StartCreate(r, e, kind)
  BY <1>1, <1>2, <1>4, ArriveType DEF StartCreate, Works, Kinds
<1>5. CASE \E i \in Requests : StartApply(r, i)
  <2>1. PICK i \in Requests : StartApply(r, i)
    BY <1>5
  <2>2. [kind |-> "apply", of |-> work[i].of, on |-> i] \in Works
    BY DEF Works, Kinds, TypeOK
  <2>. QED  BY <1>1, <1>2, <2>1, <2>2, ArriveType DEF StartApply
<1>6. CASE \E j \in {r} \cup StoredJobs : StartOther(r, j)
  BY <1>1, <1>2, <1>6, ArriveType DEF StartOther, StoredJobs, Works, Kinds
<1>. QED  BY <1>3, <1>4, <1>5, <1>6 DEF ClientRequest

LEMMA CallTickType == ASSUME TypeOK, NEW r \in Calls, CallTick(r) PROVE TypeOK'
<1>1. r \in Requests
  BY DEF Requests
<1>2. results' \in Seq(Calls) /\ call' \in Calls \cup {NoRequest} /\ gaveUp' \in Nat
  BY DEF CallTick, TypeOK
<1> DEFINE kind == IF Len(results) = Ticks - 1 THEN "report" ELSE "tick"
<1>3. [kind |-> kind, of |-> Scheduled, on |-> r] \in Works
  BY <1>1 DEF Works, Kinds
<1>. QED  BY <1>1, <1>2, <1>3, ArriveType DEF CallTick, StartTick

LEMMA ClaimType == ASSUME TypeOK, NEW r \in Requests, work[r].on \in Requests, Claim(r) PROVE TypeOK'
<1>1. held' \in [Requests -> SUBSET (Requests \cup Experiments)]
  BY DEF Claim, TypeOK
<1>. QED  BY <1>1 DEF Claim, TypeOK, tables, flow

LEMMA InjectType == ASSUME TypeOK, NEW r \in Requests, Inject(r) PROVE TypeOK'
<1>1. held' \in [Requests -> SUBSET (Requests \cup Experiments)]
  <2>1. /\ held \in [Requests -> SUBSET (Requests \cup Experiments)]
        /\ work[r].of \in Experiments
    BY DEF TypeOK
  <2>2. held' = held \/ held' = [held EXCEPT ![r] = @ \cup {work[r].of}]
    BY DEF Inject
  <2>3. held[r] \cup {work[r].of} \in SUBSET (Requests \cup Experiments)
    BY <2>1
  <2>. QED  BY <2>1, <2>2, <2>3
<1>2. mine' \in [Requests -> Objects]
  <2>1. mine \in [Requests -> Objects] /\ level \in [Agents -> Nat]
    BY DEF TypeOK, Objects, Rows
  <2>2. mine' = [mine EXCEPT ![r] = [mine[r] EXCEPT !.level = level]]
    BY DEF Inject
  <2>3. [mine[r] EXCEPT !.level = level] \in Objects
    BY <2>1 DEF Objects
  <2>. QED  BY <2>1, <2>2, <2>3
<1>. QED  BY <1>1, <1>2 DEF Inject, TypeOK, tables, flow, Objects, Rows

\* The end of a session keeps the types of what it touches.
LEMMA CloseType ==
    ASSUME TypeOK, NEW r \in Requests, Close(r)
    PROVE  /\ held' \in [Requests -> SUBSET (Requests \cup Experiments)]
           /\ mine' \in [Requests -> Objects]
<1>1. mine \in [Requests -> Objects]
  BY DEF TypeOK, Objects, Rows
<1>2. mine' \in [Requests -> Objects]
  BY <1>1, UnreadType DEF Close
<1>3. held' \in [Requests -> SUBSET (Requests \cup Experiments)]
  BY DEF Close, TypeOK
<1>. QED  BY <1>2, <1>3

\* The injection a request stores is a request, and what it stores has its type.
LEMMA CommitValues ==
    ASSUME JobInv, NEW r \in Requests, pc[r] = "commit"
    PROVE  /\ Injected(r) \in Requests
           /\ HasJob(r) => work[r].on \in Requests
           /\ IsTick(r) => HasJob(r) /\ Ticked(r) \in Rows
           /\ Boosted(r) \in [Agents -> Nat]
           /\ StateOf(r) \in {"pending", "applied"}
<1>1. r \in Running
  BY DEF Running
<1>2. Injected(r) \in Requests /\ (HasJob(r) => work[r].on \in Requests) /\ (IsTick(r) => HasJob(r))
  BY <1>1 DEF JobInv, WorkOK, Injected, HasJob
<1>3. ASSUME IsTick(r) PROVE Ticked(r) \in Rows
  <2>1. mine[r].experiment \in Rows /\ experiments[work[r].of] \in Rows
    BY DEF JobInv, TypeOK, Rows
  <2>2. mine[r].experiment.ticks + 1 \in Nat
    BY <2>1 DEF Rows
  <2>. QED  BY <1>2, <1>3, <2>1, <2>2 DEF Ticked, Rows
<1>4. mine[r].level \in [Agents -> Nat] /\ level \in [Agents -> Nat]
  BY DEF JobInv, TypeOK
<1>5. Boosted(r) \in [Agents -> Nat]
  BY <1>4 DEF Boosted
<1>. QED  BY <1>2, <1>3, <1>5 DEF StateOf

LEMMA CommitType == ASSUME JobInv, NEW r \in Requests, Commit(r) PROVE TypeOK'
<1>1. TypeOK /\ pc[r] = "commit" /\ Close(r)
  BY DEF JobInv, Commit
<1>2. /\ held' \in [Requests -> SUBSET (Requests \cup Experiments)]
      /\ mine' \in [Requests -> Objects]
  BY <1>1, CloseType
<1>3. experiments' \in [Experiments -> Rows]
  <2>1. experiments \in [Experiments -> Rows]
    BY <1>1 DEF TypeOK, Rows
  <2>. QED  BY <1>1, <2>1, CommitValues DEF Commit
<1>4. jobs' \in [Requests -> Job]
  <2>1. jobs \in [Requests -> Job]
    BY <1>1 DEF TypeOK, Job
  <2>2. [status |-> "completed", result |-> r] \in Job
    BY DEF Job
  <2>. QED  BY <1>1, <2>1, <2>2, CommitValues DEF Commit
<1>5. injections' \in [Requests -> {"absent", "pending", "applied"}]
  BY <1>1, CommitValues DEF Commit, TypeOK
<1>6. level' \in [Agents -> Nat] /\ applied' \subseteq Requests \X Requests
  BY <1>1, CommitValues DEF Commit, TypeOK
<1>7. pc' \in [Requests -> {"new", "claim", "inject", "commit", "done", "failed"}]
  BY <1>1 DEF Commit, TypeOK
<1>. QED  BY <1>1, <1>2, <1>3, <1>4, <1>5, <1>6, <1>7 DEF Commit, TypeOK, flow, Objects, Rows, Job

LEMMA RollbackType == ASSUME TypeOK, NEW r \in Requests, Rollback(r), failures' \in Nat PROVE TypeOK'
<1>1. /\ held' \in [Requests -> SUBSET (Requests \cup Experiments)]
      /\ mine' \in [Requests -> Objects]
  BY CloseType DEF Rollback
<1>2. work' \in [Requests -> Works]
  <2>1. work \in [Requests -> Works]
    BY DEF TypeOK, Works
  <2>. QED  BY <2>1, IdleType DEF Rollback
<1>. QED  BY <1>1, <1>2 DEF Rollback, TypeOK, tables, flow, Objects, Rows, Works

-----------------------------------------------------------------------------
(* The invariant, action by action.                                        *)

LEMMA InitInv == Init => JobInv
<1> SUFFICES ASSUME Init PROVE JobInv
  OBVIOUS
<1>1. Running = {}
  BY DEF Init, Running
<1>2. \A j \in Requests : jobs[j].status = "absent"
  BY DEF Init, Absent
<1>3. \A e : TicksOf(e) = {}
  BY DEF Init, TicksOf
<1>. QED  BY <1>1, <1>2, <1>3, InitType
          DEF Init, Idle, JobInv, WorkOK, JobNamed, HasJob, IsTick, StoredByDone, JobsTellTheTruth, StoredJobs, LastTickAgrees, StateIsHistory

\* The ticks of an experiment are those of requests that are done, and finite in number.
LEMMA TicksKept ==
    ASSUME StoredByDone, injections' = injections,
           \A q \in Requests : pc[q] = "done" => work'[q] = work[q]
    PROVE  \A e : TicksOf(e)' = TicksOf(e)
  BY DEF StoredByDone, TicksOf, IsTick

\* What is stored stays true as long as nothing is stored, and requests that are done keep
\* what they were asked.
LEMMA DoneKeepsTruth ==
    ASSUME JobInv, UNCHANGED <<experiments, jobs, injections>>,
           \A q \in Requests : pc[q] = "done" => work'[q] = work[q]
    PROVE  JobsTellTheTruth' /\ LastTickAgrees'
<1>1. \A e : TicksOf(e)' = TicksOf(e)
  BY TicksKept DEF JobInv
<1>2. \A j \in Requests : jobs[j].status # "absent" =>
          /\ jobs[j].result \in Requests
          /\ work'[jobs[j].result] = work[jobs[j].result]
  BY DEF JobInv, JobsTellTheTruth, StoredJobs, StoredByDone
<1>3. JobsTellTheTruth'
  BY <1>2 DEF JobInv, JobsTellTheTruth, StoredJobs, HasJob, IsTick
<1>4. \A e, i : i \in TicksOf(e) => i \in Requests /\ work'[i] = work[i]
  BY DEF JobInv, StoredByDone, TicksOf
<1>5. LastTickAgrees'
  BY <1>1, <1>4 DEF JobInv, LastTickAgrees
<1>. QED  BY <1>3, <1>5

\* A request that arrives for a row of its own or a stored one disturbs nothing stored.
LEMMA ArriveInv ==
    ASSUME JobInv, TypeOK', NEW r \in Requests, NEW w \in Works,
           NEW at \in {"claim", "inject", "commit"}, pc[r] = "new", Arrive(r, w, at),
           w.on \in Requests,
           w.kind \in {"tick", "report", "other"} => w.on = r \/ jobs[w.on].status # "absent",
           at = "claim" => w.kind \in {"tick", "report", "other"},
           at = "inject" => w.kind # "other",
           w.kind = "apply" => injections[w.on] # "absent" /\ at = "commit"
    PROVE  JobInv'
<1>1. /\ UNCHANGED <<experiments, jobs, injections, level, applied>>
      /\ pc' = [pc EXCEPT ![r] = at] /\ work' = [work EXCEPT ![r] = w]
  BY DEF Arrive, tables
<1>2. /\ pc \in [Requests -> {"new", "claim", "inject", "commit", "done", "failed"}]
      /\ DOMAIN work = Requests
  BY DEF JobInv, TypeOK
<1>3. \A q \in Requests : q # r => pc'[q] = pc[q] /\ work'[q] = work[q]
  BY <1>1, <1>2
<1>4. pc'[r] = at /\ work'[r] = w
  BY <1>1, <1>2
<1>5. \A q \in Requests : pc[q] = "done" => q # r
  OBVIOUS
<1>6. StoredByDone'
  <2>1. \A j \in Requests : jobs[j].result # NoRequest => jobs[j].result \in Requests
    BY DEF JobInv, TypeOK
  <2>. QED  BY <1>1, <1>3, <1>5, <2>1 DEF JobInv, StoredByDone
<1>7. WorkOK'
  <2> SUFFICES ASSUME NEW q \in Running'
               PROVE  /\ pc'[q] = "claim" => HasJob(q)'
                      /\ pc'[q] = "inject" => work'[q].kind # "other"
                      /\ HasJob(q)' => /\ work'[q].on \in Requests
                                       /\ work'[q].on # q => jobs'[work'[q].on].status # "absent"
                      /\ work'[q].kind = "apply" => /\ work'[q].on \in Requests
                                                    /\ injections'[work'[q].on] # "absent"
                                                    /\ pc'[q] = "commit"
    BY DEF WorkOK
  <2>1. CASE q = r
    BY <1>1, <1>4, <2>1 DEF IsTick, HasJob
  <2>2. CASE q # r
    <3>1. q \in Running /\ pc'[q] = pc[q] /\ work'[q] = work[q]
      BY <1>3, <2>2 DEF Running
    <3>. QED  BY <1>1, <3>1 DEF JobInv, WorkOK, IsTick, HasJob
  <2>. QED  BY <2>1, <2>2
<1>8. JobsTellTheTruth' /\ LastTickAgrees'
  BY <1>1, <1>3, <1>5, DoneKeepsTruth DEF JobInv
<1>9. StateIsHistory'
  BY <1>1 DEF JobInv, StateIsHistory
<1>10. JobNamed'
  BY <1>3, <1>4 DEF JobInv, JobNamed, HasJob, IsTick
<1>. QED  BY <1>6, <1>7, <1>8, <1>9, <1>10 DEF JobInv

LEMMA ClientRequestInv == ASSUME JobInv, NEW r \in Clients, ClientRequest(r) PROVE JobInv'
<1>1. r \in Requests /\ pc[r] = "new" /\ TypeOK'
  BY ClientRequestType DEF Requests, ClientRequest, NextOf, JobInv
<1>2. CASE \E e \in Experiments, kind \in {"tick", "report"} :
               \E j \in {r} \cup StoredJobs : StartTick(r, e, j, kind)
  <2>0. PICK e \in Experiments, kind \in {"tick", "report"} :
               \E j \in {r} \cup StoredJobs : StartTick(r, e, j, kind)
    BY <1>2
  <2>1. PICK j \in {r} \cup StoredJobs : StartTick(r, e, j, kind)
    BY <2>0
  <2>2. j \in Requests /\ (j = r \/ jobs[j].status # "absent")
    BY <1>1, <2>1 DEF StoredJobs
  <2>3. [kind |-> kind, of |-> e, on |-> j] \in Works
    BY <2>1, <2>2 DEF Works, Kinds
  <2>. QED  BY <1>1, <2>1, <2>2, <2>3, ArriveInv DEF StartTick
<1>3. CASE \E e \in Experiments, kind \in {"create", "inject"} : StartCreate(r, e, kind)
  BY <1>1, <1>3, ArriveInv DEF StartCreate, Works, Kinds
<1>4. CASE \E i \in Requests : StartApply(r, i)
  <2>1. PICK i \in Requests : StartApply(r, i)
    BY <1>4
  <2>2. [kind |-> "apply", of |-> work[i].of, on |-> i] \in Works
    BY DEF Works, Kinds, JobInv, TypeOK
  <2>. QED  BY <1>1, <2>1, <2>2, ArriveInv DEF StartApply
<1>5. CASE \E j \in {r} \cup StoredJobs : StartOther(r, j)
  <2>1. PICK j \in {r} \cup StoredJobs : StartOther(r, j)
    BY <1>5
  <2>2. j \in Requests /\ (j = r \/ jobs[j].status # "absent")
    BY <1>1, <2>1 DEF StoredJobs
  <2>3. [kind |-> "other", of |-> Scheduled, on |-> j] \in Works
    BY <2>2 DEF Works, Kinds
  <2>. QED  BY <1>1, <2>1, <2>2, <2>3, ArriveInv DEF StartOther
<1>. QED  BY <1>2, <1>3, <1>4, <1>5 DEF ClientRequest

LEMMA CallTickInv == ASSUME JobInv, NEW r \in Calls, CallTick(r) PROVE JobInv'
<1>1. r \in Requests /\ pc[r] = "new" /\ TypeOK'
  BY CallTickType DEF Requests, CallTick, NextOf, JobInv
<1> DEFINE kind == IF Len(results) = Ticks - 1 THEN "report" ELSE "tick"
<1>2. [kind |-> kind, of |-> Scheduled, on |-> r] \in Works
  BY <1>1 DEF Works, Kinds
<1>. QED  BY <1>1, <1>2, ArriveInv DEF CallTick, StartTick

\* A step inside a request stores nothing.
LEMMA ProgressInv ==
    ASSUME JobInv, TypeOK', NEW r \in Requests, NEW at \in {"inject", "commit"},
           UNCHANGED <<tables, work>>, pc[r] \in {"claim", "inject"}, work[r].kind # "apply",
           at = "inject" => work[r].kind # "other", pc' = [pc EXCEPT ![r] = at]
    PROVE  JobInv'
<1>1. pc \in [Requests -> {"new", "claim", "inject", "commit", "done", "failed"}]
  BY DEF JobInv, TypeOK
<1>2. /\ \A q \in Requests : q # r => pc'[q] = pc[q]
      /\ pc'[r] = at
      /\ \A q \in Requests : pc[q] = "done" => pc'[q] = "done"
  BY <1>1
<1>3. Running' = Running
  BY <1>2 DEF Running
<1>4. WorkOK'
  BY <1>2, <1>3 DEF JobInv, WorkOK, IsTick, HasJob, tables, Running
<1>5. StoredByDone'
  <2>1. \A j \in Requests : jobs[j].result # NoRequest => jobs[j].result \in Requests
    BY DEF JobInv, TypeOK
  <2>. QED  BY <1>2, <2>1 DEF JobInv, StoredByDone, tables
<1>6. JobsTellTheTruth' /\ LastTickAgrees'
  BY DoneKeepsTruth DEF tables
<1>7. StateIsHistory' /\ JobNamed'
  BY DEF JobInv, StateIsHistory, JobNamed, HasJob, IsTick, tables
<1>. QED  BY <1>4, <1>5, <1>6, <1>7 DEF JobInv

\* An apply has only its commit before it.
LEMMA NotAnApply ==
    ASSUME JobInv, NEW r \in Requests, pc[r] \in {"claim", "inject"}
    PROVE  work[r].kind # "apply"
<1>1. r \in Running
  BY DEF Running
<1>. QED  BY <1>1 DEF JobInv, WorkOK

LEMMA ClaimInv == ASSUME JobInv, NEW r \in Requests, Claim(r) PROVE JobInv'
<1>1. work[r].on \in Requests
  BY DEF Claim, JobInv, WorkOK, Running
<1>2. TypeOK'
  BY <1>1, ClaimType DEF JobInv
<1> DEFINE at == IF IsTick(r) THEN "inject" ELSE "commit"
<1>3. at \in {"inject", "commit"} /\ (at = "inject" => work[r].kind # "other")
  BY DEF IsTick
<1>4. pc' = [pc EXCEPT ![r] = at] /\ pc[r] = "claim" /\ UNCHANGED <<tables, work>>
  BY DEF Claim
<1>. HIDE DEF at
<1>. QED  BY <1>2, <1>3, <1>4, NotAnApply, ProgressInv

LEMMA InjectInv == ASSUME JobInv, NEW r \in Requests, Inject(r) PROVE JobInv'
<1>1. TypeOK'
  BY InjectType DEF JobInv
<1>. QED  BY <1>1, NotAnApply, ProgressInv DEF Inject

\* A rollback forgets a request nobody else works on.
LEMMA RollbackInv ==
    ASSUME JobInv, TypeOK', NEW r \in Running, Rollback(r)
    PROVE  JobInv'
<1>1. /\ pc \in [Requests -> {"new", "claim", "inject", "commit", "done", "failed"}]
      /\ DOMAIN work = Requests /\ r \in Requests /\ pc[r] # "done"
  BY DEF JobInv, TypeOK, Running
<1>2. /\ \A q \in Requests : q # r => pc'[q] = pc[q] /\ work'[q] = work[q]
      /\ pc'[r] = "failed"
      /\ \A q \in Requests : pc[q] = "done" => q # r /\ pc'[q] = "done"
  BY <1>1 DEF Rollback
<1>3. UNCHANGED <<experiments, jobs, injections, level, applied>>
  BY DEF Rollback, tables
<1>4. WorkOK'
  <2> SUFFICES ASSUME NEW q \in Running'
               PROVE  /\ pc'[q] = "claim" => HasJob(q)'
                      /\ pc'[q] = "inject" => work'[q].kind # "other"
                      /\ HasJob(q)' => /\ work'[q].on \in Requests
                                       /\ work'[q].on # q => jobs'[work'[q].on].status # "absent"
                      /\ work'[q].kind = "apply" => /\ work'[q].on \in Requests
                                                    /\ injections'[work'[q].on] # "absent"
                                                    /\ pc'[q] = "commit"
    BY DEF WorkOK
  <2>1. q \in Requests /\ q # r /\ q \in Running /\ pc'[q] = pc[q] /\ work'[q] = work[q]
    BY <1>2 DEF Running
  <2>. QED  BY <1>3, <2>1 DEF JobInv, WorkOK, IsTick, HasJob
<1>5. StoredByDone'
  <2>1. \A j \in Requests : jobs[j].result # NoRequest => jobs[j].result \in Requests
    BY DEF JobInv, TypeOK
  <2>. QED  BY <1>2, <1>3, <2>1 DEF JobInv, StoredByDone
<1>6. JobsTellTheTruth' /\ LastTickAgrees'
  BY <1>2, <1>3, DoneKeepsTruth
<1>7. StateIsHistory' /\ JobNamed'
  <2>1. work'[r] = Idle
    BY <1>1 DEF Rollback
  <2>. QED  BY <1>2, <1>3, <2>1 DEF JobInv, StateIsHistory, JobNamed, HasJob, IsTick, Idle
<1>. QED  BY <1>4, <1>5, <1>6, <1>7 DEF JobInv

LEMMA CommitInv == ASSUME JobInv, NEW r \in Requests, Commit(r) PROVE JobInv'
<1> DEFINE i == Injected(r)
           j == work[r].on
<1>1. /\ TypeOK /\ TypeOK' /\ r \in Running
      /\ pc \in [Requests -> {"new", "claim", "inject", "commit", "done", "failed"}]
      /\ work' = work /\ pc[r] = "commit"
  BY CommitType DEF JobInv, TypeOK, Commit, Running
<1>2. /\ \A q \in Requests : q # r => pc'[q] = pc[q]
      /\ pc'[r] = "done"
      /\ \A q \in Requests : pc[q] = "done" => pc'[q] = "done"
  BY <1>1 DEF Commit
<1>3. i \in Requests /\ (i = r \/ injections[i] # "absent") /\ pc'[i] = "done"
  BY <1>1, <1>2, CommitValues DEF Injected, JobInv, WorkOK, StoredByDone
<1>4. /\ \A k \in Requests : k # i => injections'[k] = injections[k]
      /\ work[r].kind = "other" => injections' = injections
      /\ work[r].kind # "other" => injections'[i] = StateOf(r)
      /\ StateOf(r) \in {"pending", "applied"}
  BY <1>1, <1>3, CommitValues DEF Commit, TypeOK
<1>5. ASSUME work[r].kind = "create"
      PROVE  i = r /\ injections[i] = "absent" /\ applied' = applied /\ StateOf(r) = "pending"
  BY <1>1, <1>5 DEF StateOf, Injected, Commit, JobInv, StoredByDone
<1>6. ASSUME work[r].kind = "other" PROVE applied' = applied
  BY <1>6 DEF Commit
<1>7. ASSUME work[r].kind \notin {"create", "other"}
      PROVE  applied' = applied \cup {<<r, i>>} /\ StateOf(r) = "applied"
  BY <1>7 DEF StateOf, Commit
<1>8. ASSUME HasJob(r)
      PROVE  /\ j \in Requests /\ pc'[j] = "done"
             /\ jobs'[j] = [status |-> "completed", result |-> r]
             /\ \A k \in Requests : k # j => jobs'[k] = jobs[k]
  <2>1. j \in Requests /\ (j = r \/ jobs[j].status # "absent")
    BY <1>1, <1>8 DEF JobInv, WorkOK
  <2>2. pc'[j] = "done"
    BY <1>2, <2>1 DEF JobInv, StoredByDone
  <2>3. DOMAIN jobs = Requests
    BY <1>1 DEF TypeOK
  <2>. QED  BY <1>8, <2>1, <2>2, <2>3 DEF Commit
<1>9. ASSUME ~HasJob(r) PROVE UNCHANGED jobs
  BY <1>9 DEF Commit
<1>10. ASSUME IsTick(r)
       PROVE  /\ HasJob(r) /\ i = r /\ injections'[r] = "applied"
              /\ \A e \in Experiments : e # work[r].of => experiments'[e] = experiments[e]
              /\ experiments'[work[r].of] = Ticked(r)
  <2>1. i = r /\ injections'[r] = "applied" /\ HasJob(r)
    BY <1>4, <1>10 DEF Injected, StateOf, IsTick, HasJob
  <2>2. work[r].of \in Experiments /\ DOMAIN experiments = Experiments
    BY <1>1 DEF TypeOK
  <2>. QED  BY <1>10, <2>1, <2>2 DEF Commit
<1>11. \A k \in Requests : /\ injections[k] # "absent" => injections'[k] # "absent"
                           /\ injections[k] = "applied" => injections'[k] = "applied"
                           /\ jobs[k].status # "absent" => jobs'[k].status # "absent"
  <2>1. \A k \in Requests : /\ injections[k] # "absent" => injections'[k] # "absent"
                            /\ injections[k] = "applied" => injections'[k] = "applied"
    BY <1>4, <1>5, <1>7
  <2>2. \A k \in Requests : jobs[k].status # "absent" => jobs'[k].status # "absent"
    BY <1>8, <1>9
  <2>. QED  BY <2>1, <2>2
<1>12. WorkOK'
  <2> SUFFICES ASSUME NEW q \in Running'
               PROVE  /\ pc'[q] = "claim" => HasJob(q)'
                      /\ pc'[q] = "inject" => work'[q].kind # "other"
                      /\ HasJob(q)' => /\ work'[q].on \in Requests
                                       /\ work'[q].on # q => jobs'[work'[q].on].status # "absent"
                      /\ work'[q].kind = "apply" => /\ work'[q].on \in Requests
                                                    /\ injections'[work'[q].on] # "absent"
                                                    /\ pc'[q] = "commit"
    BY DEF WorkOK
  <2>1. q \in Requests /\ q # r /\ q \in Running /\ pc'[q] = pc[q]
    BY <1>2 DEF Running
  <2>. QED  BY <1>1, <1>11, <2>1 DEF JobInv, WorkOK, IsTick, HasJob
<1>13. StoredByDone'
  <2>1. \A k \in Requests : jobs'[k].status # "absent" =>
            /\ pc'[k] = "done"
            /\ jobs'[k].result # NoRequest => pc'[jobs'[k].result] = "done"
    <3>1. \A k \in Requests : jobs[k].result # NoRequest => jobs[k].result \in Requests
      BY <1>1 DEF TypeOK
    <3>2. CASE HasJob(r)
      BY <1>2, <1>8, <3>1, <3>2 DEF JobInv, StoredByDone
    <3>3. CASE ~HasJob(r)
      BY <1>2, <1>9, <3>1, <3>3 DEF JobInv, StoredByDone
    <3>. QED  BY <3>2, <3>3
  <2>2. \A k \in Requests : injections'[k] # "absent" => pc'[k] = "done"
    BY <1>2, <1>3, <1>4 DEF JobInv, StoredByDone
  <2>. QED  BY <2>1, <2>2 DEF StoredByDone
<1>14. JobsTellTheTruth'
  <2> SUFFICES ASSUME NEW k \in Requests, jobs'[k].status # "absent", NEW q, q = jobs'[k].result
               PROVE  /\ jobs'[k].status = "completed"
                      /\ q \in Requests /\ HasJob(q) /\ work[q].on = k
                      /\ IsTick(q) => injections'[q] = "applied"
    BY <1>1 DEF JobsTellTheTruth, StoredJobs, HasJob, IsTick
  <2>1. CASE HasJob(r) /\ k = j
    BY <1>8, <1>10, <2>1
  <2>2. CASE ~(HasJob(r) /\ k = j)
    <3>1. jobs'[k] = jobs[k]
      BY <1>8, <1>9, <2>2
    <3>. QED  BY <1>11, <3>1 DEF JobInv, JobsTellTheTruth, StoredJobs
  <2>. QED  BY <2>1, <2>2
<1>15. \A e : TicksOf(e)' = TicksOf(e) \cup {k \in {r} : IsTick(r) /\ work[r].of = e}
  <2>1. \A k \in Requests : injections'[k] # "absent" /\ IsTick(k) <=>
                              (injections[k] # "absent" \/ k = r) /\ IsTick(k)
    BY <1>3, <1>4, <1>10, <1>11 DEF IsTick
  <2>. QED  BY <1>1, <2>1 DEF TicksOf, IsTick
<1>16. LastTickAgrees'
  <2> SUFFICES ASSUME NEW e \in Experiments, TicksOf(e)' # {}, NEW n, n = experiments'[e].injection
               PROVE  /\ n \in TicksOf(e)'
                      /\ experiments'[e].job = work[n].on
                      /\ jobs'[work[n].on].result \in TicksOf(e)' => jobs'[work[n].on].result = n
    BY <1>1 DEF LastTickAgrees
  <2>1. CASE IsTick(r) /\ e = work[r].of
    <3>1. n = r /\ experiments'[e].job = j
      BY <1>10, <2>1 DEF Ticked
    <3>. QED  BY <1>1, <1>8, <1>10, <1>15, <2>1, <3>1
  <2>2. CASE ~(IsTick(r) /\ e = work[r].of)
    <3>1. TicksOf(e)' = TicksOf(e) /\ r \notin TicksOf(e)
      BY <1>15, <2>2 DEF TicksOf
    <3>2. experiments'[e] = experiments[e]
      <4>1. CASE IsTick(r)
        BY <1>10, <2>2, <4>1
      <4>2. CASE ~IsTick(r)
        BY <4>2 DEF Commit
      <4>. QED  BY <4>1, <4>2
    <3>3. /\ n \in TicksOf(e) /\ n \in Requests /\ experiments[e].job = work[n].on
          /\ jobs[work[n].on].result \in TicksOf(e) => jobs[work[n].on].result = n
      BY <3>1, <3>2 DEF JobInv, LastTickAgrees, TicksOf
    <3>4. work[n].on \in Requests
      BY <3>3 DEF JobInv, JobNamed, TicksOf, HasJob
    <3>5. CASE HasJob(r) /\ work[n].on = j
      BY <1>8, <3>1, <3>2, <3>3, <3>5
    <3>6. CASE ~(HasJob(r) /\ work[n].on = j)
      <4>1. jobs'[work[n].on] = jobs[work[n].on]
        BY <1>8, <1>9, <3>4, <3>6
      <4>. QED  BY <3>1, <3>2, <3>3, <4>1
    <3>. QED  BY <3>5, <3>6
  <2>. QED  BY <2>1, <2>2
<1>17. StateIsHistory'
  <2>1. CASE work[r].kind = "create"
    BY <1>4, <1>5, <2>1 DEF JobInv, StateIsHistory
  <2>2. CASE work[r].kind = "other"
    BY <1>4, <1>6, <2>2 DEF JobInv, StateIsHistory
  <2>3. CASE work[r].kind \notin {"create", "other"}
    BY <1>3, <1>4, <1>7, <2>3 DEF JobInv, StateIsHistory
  <2>. QED  BY <2>1, <2>2, <2>3
<1>18. JobNamed'
  BY <1>1 DEF JobInv, JobNamed, HasJob, IsTick
<1>. QED  BY <1>1, <1>12, <1>13, <1>14, <1>16, <1>17, <1>18 DEF JobInv

\* The workflow's own steps touch none of the tables.
LEMMA FlowInv ==
    ASSUME JobInv, UNCHANGED <<tables, pc, session, failures, alone>>,
           results' \in Seq(Calls), call' \in Calls \cup {NoRequest}, gaveUp' \in Nat
    PROVE  JobInv'
<1>1. TypeOK'
  BY DEF JobInv, TypeOK, tables, session
<1>2. WorkOK' /\ StoredByDone'
  BY DEF JobInv, WorkOK, StoredByDone, IsTick, HasJob, Running, tables, session
<1>3. JobsTellTheTruth' /\ LastTickAgrees'
  BY DoneKeepsTruth DEF tables, session
<1>4. StateIsHistory' /\ JobNamed'
  BY DEF JobInv, StateIsHistory, JobNamed, HasJob, IsTick, tables, session
<1>. QED  BY <1>1, <1>2, <1>3, <1>4 DEF JobInv

LEMMA NextInv == JobInv /\ [Next]_vars => JobInv'
<1> SUFFICES ASSUME JobInv, [Next]_vars PROVE JobInv'
  OBVIOUS
<1>1. TypeOK
  BY DEF JobInv
<1>2. ASSUME NEW r \in Clients, ClientRequest(r) PROVE JobInv'
  BY <1>2, ClientRequestInv
<1>3. ASSUME NEW r \in Requests, Claim(r) PROVE JobInv'
  BY <1>3, ClaimInv
<1>4. ASSUME NEW r \in Requests, Inject(r) PROVE JobInv'
  BY <1>4, InjectInv
<1>5. ASSUME NEW r \in Requests, Commit(r) PROVE JobInv'
  BY <1>5, CommitInv
<1>6. ASSUME NEW r \in Requests, NoModel(r) PROVE JobInv'
  <2>1. r \in Running /\ failures' \in Nat /\ Rollback(r)
    BY <1>1, <1>6 DEF NoModel, Running, TypeOK
  <2>. QED  BY <1>1, <2>1, RollbackType, RollbackInv DEF Running
<1>7. ASSUME NEW r \in Requests, Fail(r) PROVE JobInv'
  <2>1. r \in Running /\ failures' \in Nat /\ Rollback(r)
    BY <1>1, <1>7 DEF Fail, TypeOK
  <2>. QED  BY <1>1, <2>1, RollbackType, RollbackInv DEF Running
<1>8. ASSUME NEW r \in Calls, CallTick(r) PROVE JobInv'
  BY <1>8, CallTickInv
<1>9. ASSUME Return PROVE JobInv'
  <2>1. call \in Calls /\ results \in Seq(Calls)
    BY <1>1, <1>9 DEF Return, TypeOK
  <2>2. results' \in Seq(Calls)
    BY <1>9, <2>1 DEF Return
  <2>. QED  BY <1>1, <1>9, <2>2, FlowInv DEF Return, TypeOK
<1>10. ASSUME Retry \/ GiveUp PROVE JobInv'
  <2>1. results' \in Seq(Calls) /\ call' = NoRequest /\ gaveUp' \in Nat
    BY <1>1, <1>10 DEF Retry, GiveUp, TypeOK
  <2>. QED  BY <1>10, <2>1, FlowInv DEF Retry, GiveUp
<1>11. CASE UNCHANGED vars
  <2>1. UNCHANGED <<tables, pc, session, failures, alone, results, call, gaveUp>>
    BY <1>11 DEF vars, flow
  <2>. QED  BY <1>1, <2>1, FlowInv DEF TypeOK
<1>. QED  BY <1>2, <1>3, <1>4, <1>5, <1>6, <1>7, <1>8, <1>9, <1>10, <1>11 DEF Next, Proceed, Workflow

LEMMA Invariant == Spec => []JobInv
  BY InitInv, NextInv, PTL DEF Spec

-----------------------------------------------------------------------------
(* Theorems.                                                               *)

\* Every variable keeps its type, whatever overlaps, fails or is repeated; among it, that no
\* stored job ever has the status "failed".
THEOREM TypeCorrect == Spec => []TypeOK
<1>1. JobInv => TypeOK
  BY DEF JobInv
<1>. QED  BY <1>1, Invariant, PTL

\* A visible job is always completed, and its result is that of a request that worked on this
\* very job; the result of a tick is an applied injection.
THEOREM JobsAlwaysTellTheTruth == Spec => []JobsTellTheTruth
<1>1. JobInv => JobsTellTheTruth
  BY DEF JobInv
<1>. QED  BY <1>1, Invariant, PTL

\* The last job and the last injection an experiment names are always those of one tick of its
\* own, and the injection is the job's result unless something else took the job over.
THEOREM LastTickAlwaysAgrees == Spec => []LastTickAgrees
<1>1. JobInv => LastTickAgrees
  BY DEF JobInv
<1>. QED  BY <1>1, Invariant, PTL

\* An injection is always marked as applied exactly if some request applied it.
THEOREM StateIsAlwaysHistory == Spec => []StateIsHistory
<1>1. JobInv => StateIsHistory
  BY DEF JobInv
<1>. QED  BY <1>1, Invariant, PTL

-----------------------------------------------------------------------------
(* Counts.  What a request in progress has read of its experiment and of its *)
(* agents was true once, and is still true as long as no two requests were   *)
(* in progress at once.                                                      *)

ToldOf(a) == {p \in applied : a \in Targets[work[p[2]].of]}

ReadOK(r, e) ==
    /\ mine[r].experiment.state = "active" => experiments[e].state = "active"
    /\ mine[r].experiment.ticks <= Cardinality(TicksOf(e))
    /\ alone => mine[r].experiment.ticks = experiments[e].ticks
    /\ work[r].kind = "apply" => work[work[r].on].of = e
    /\ \A a \in Agents : /\ mine[r].level[a] <= Cardinality(ToldOf(a))
                         /\ alone => mine[r].level[a] = level[a]

HistoryInv ==
    /\ JobInv
    /\ TicksCounted
    /\ LevelIsHistory
    /\ \A p \in applied : pc[p[1]] = "done" /\ pc[p[2]] = "done"
    /\ alone => \A q, r \in Running : q = r
    /\ \A r \in Running, e \in Experiments : work[r].of = e => ReadOK(r, e)

LEMMA HistoryIsFinite ==
    ASSUME TypeOK
    PROVE  /\ \A e : IsFiniteSet(TicksOf(e)) /\ Cardinality(TicksOf(e)) \in Nat
           /\ \A a : IsFiniteSet(ToldOf(a)) /\ Cardinality(ToldOf(a)) \in Nat
<1>1. \A e : TicksOf(e) \in SUBSET Requests
  BY DEF TicksOf
<1>2. IsFiniteSet(Requests \X Requests)
  BY FS_Product
<1>3. \A a : ToldOf(a) \in SUBSET (Requests \X Requests)
  BY DEF ToldOf, TypeOK
<1>. QED  BY <1>1, <1>2, <1>3, FS_Subset, FS_CardinalityType

LEMMA InitHistory == Init => HistoryInv
<1> SUFFICES ASSUME Init PROVE HistoryInv
  OBVIOUS
<1>1. Running = {} /\ JobInv /\ applied = {}
  BY InitInv DEF Init, Running
<1>2. \A e : TicksOf(e) = {}
  BY DEF Init, TicksOf
<1>3. \A a : ToldOf(a) = {}
  BY <1>1 DEF ToldOf
<1>4. /\ \A e : Cardinality(TicksOf(e)) = 0
      /\ \A a : Cardinality(ToldOf(a)) = 0
  BY <1>2, <1>3, FS_EmptySet, Zenon
<1>5. TicksCounted
  BY <1>2, <1>4 DEF Init, NoTicks, TicksCounted
<1>6. LevelIsHistory
  BY <1>4 DEF Init, LevelIsHistory, ToldOf
<1>. QED  BY <1>1, <1>5, <1>6 DEF HistoryInv

\* A step that stores nothing, and in which requests in progress read what is stored.
LEMMA KeepHistory ==
    ASSUME HistoryInv, JobInv', UNCHANGED tables, alone' => alone,
           \A i \in Requests : pc[i] = "done" => work'[i] = work[i] /\ pc'[i] = "done",
           alone' => \A q, r \in Running' : q = r,
           \A q \in Running' :
              \/ /\ q \in Running /\ work'[q] = work[q]
                 /\ mine'[q].experiment = mine[q].experiment
                 /\ mine'[q].level = mine[q].level \/ mine'[q].level = level
              \/ /\ work'[q].of \in Experiments
                 /\ mine'[q].experiment = experiments[work'[q].of]
                 /\ mine'[q].level = level
                 /\ work'[q].kind = "apply" => /\ work'[q].on \in Requests
                                               /\ pc[work'[q].on] = "done"
                                               /\ work[work'[q].on].of = work'[q].of
    PROVE  HistoryInv'
<1>1. TypeOK /\ JobInv /\ UNCHANGED <<experiments, jobs, injections, level, applied>>
  BY DEF HistoryInv, JobInv, tables
<1>2. \A i \in Requests : injections[i] # "absent" => pc[i] = "done"
  BY <1>1 DEF JobInv, StoredByDone
<1>3. applied \subseteq Requests \X Requests /\ \A p \in applied : pc[p[1]] = "done" /\ pc[p[2]] = "done"
  BY <1>1 DEF HistoryInv, TypeOK
<1>4. \A e : TicksOf(e)' = TicksOf(e)
  BY <1>1, <1>2 DEF TicksOf, IsTick
<1>5. \A a : ToldOf(a)' = ToldOf(a)
  BY <1>1, <1>3 DEF ToldOf
<1>6. /\ \A e : Cardinality(TicksOf(e)') = Cardinality(TicksOf(e))
      /\ \A a : Cardinality(ToldOf(a)') = Cardinality(ToldOf(a))
  BY <1>4, <1>5, Zenon
<1>7. TicksCounted'
  BY <1>1, <1>4, <1>6 DEF HistoryInv, TicksCounted
<1>8. LevelIsHistory'
  <2>1. \A a \in Agents : level[a] <= Cardinality(ToldOf(a)) /\ (alone => level[a] = Cardinality(ToldOf(a)))
    BY DEF HistoryInv, LevelIsHistory, ToldOf
  <2>2. \A a \in Agents : /\ level'[a] <= Cardinality(ToldOf(a)')
                          /\ alone' => level'[a] = Cardinality(ToldOf(a)')
    BY <1>1, <1>6, <2>1
  <2>. QED  BY <2>2 DEF LevelIsHistory, ToldOf
<1>9. \A p \in applied' : pc'[p[1]] = "done" /\ pc'[p[2]] = "done"
  BY <1>1, <1>3
<1>10. ASSUME NEW q \in Running', NEW e \in Experiments, work'[q].of = e PROVE ReadOK(q, e)'
  <2>1. q \in Requests
    BY DEF Running
  <2>2. /\ \A a \in Agents : level[a] <= Cardinality(ToldOf(a))
        /\ experiments[e].ticks <= Cardinality(TicksOf(e))
    BY DEF HistoryInv, LevelIsHistory, TicksCounted, ToldOf
  <2>3. CASE /\ q \in Running /\ work'[q] = work[q]
             /\ mine'[q].experiment = mine[q].experiment
             /\ mine'[q].level = mine[q].level \/ mine'[q].level = level
    <3>1. ReadOK(q, e)
      BY <1>10, <2>3 DEF HistoryInv
    <3>2. work[q].kind = "apply" => work'[work[q].on].of = e
      BY <1>1, <1>2, <2>3, <3>1 DEF JobInv, WorkOK, ReadOK
    <3>3. mine'[q].experiment.ticks <= Cardinality(TicksOf(e)')
      BY <1>6, <2>3, <3>1 DEF ReadOK
    <3>4. \A a \in Agents : /\ mine'[q].level[a] <= Cardinality(ToldOf(a)')
                            /\ alone' => mine'[q].level[a] = level'[a]
      BY <1>1, <1>6, <2>2, <2>3, <3>1 DEF ReadOK
    <3>. QED  BY <1>1, <2>3, <3>1, <3>2, <3>3, <3>4 DEF ReadOK
  <2>4. CASE /\ work'[q].of \in Experiments
             /\ mine'[q].experiment = experiments[work'[q].of]
             /\ mine'[q].level = level
             /\ work'[q].kind = "apply" => /\ work'[q].on \in Requests
                                           /\ pc[work'[q].on] = "done"
                                           /\ work[work'[q].on].of = work'[q].of
    <3>1. mine'[q].experiment.ticks <= Cardinality(TicksOf(e)')
      BY <1>6, <1>10, <2>2, <2>4
    <3>2. \A a \in Agents : mine'[q].level[a] <= Cardinality(ToldOf(a)')
      BY <1>6, <2>2, <2>4
    <3>3. work'[q].kind = "apply" => work'[work'[q].on].of = e
      BY <1>10, <2>4
    <3>. QED  BY <1>1, <1>10, <2>4, <3>1, <3>2, <3>3 DEF ReadOK
  <2>. QED  BY <2>3, <2>4
<1>. QED  BY <1>7, <1>8, <1>9, <1>10 DEF HistoryInv

LEMMA ArriveHistory ==
    ASSUME HistoryInv, JobInv', NEW r \in Requests, pc[r] = "new", NEW w \in Works,
           NEW at \in {"claim", "inject", "commit"}, Arrive(r, w, at),
           w.kind = "apply" => /\ w.on \in Requests
                               /\ injections[w.on] # "absent"
                               /\ work[w.on].of = w.of
    PROVE  HistoryInv'
<1>1. TypeOK /\ JobInv
  BY DEF HistoryInv, JobInv
<1>2. /\ UNCHANGED tables /\ alone' = (alone /\ Running = {})
      /\ \A q \in Requests : q # r => pc'[q] = pc[q] /\ work'[q] = work[q] /\ mine'[q] = mine[q]
      /\ pc'[r] = at /\ work'[r] = w
      /\ mine'[r] = [experiment |-> experiments[w.of], level |-> level]
  BY <1>1 DEF Arrive, TypeOK
<1>3. \A i \in Requests : pc[i] = "done" => work'[i] = work[i] /\ pc'[i] = "done"
  BY <1>2
<1>4. \A q \in Running' : q = r \/ q \in Running
  BY <1>2 DEF Running
<1>5. Running' \subseteq Requests /\ w.of \in Experiments
  BY DEF Running, Works
<1>6. w.kind = "apply" => pc[w.on] = "done"
  BY <1>1 DEF JobInv, StoredByDone
<1>7. \A q \in Running' :
              \/ /\ q \in Running /\ work'[q] = work[q]
                 /\ mine'[q].experiment = mine[q].experiment
                 /\ mine'[q].level = mine[q].level \/ mine'[q].level = level
              \/ /\ work'[q].of \in Experiments
                 /\ mine'[q].experiment = experiments[work'[q].of]
                 /\ mine'[q].level = level
                 /\ work'[q].kind = "apply" => /\ work'[q].on \in Requests
                                               /\ pc[work'[q].on] = "done"
                                               /\ work[work'[q].on].of = work'[q].of
  <2> SUFFICES ASSUME NEW q \in Running'
               PROVE  \/ /\ q \in Running /\ work'[q] = work[q]
                         /\ mine'[q].experiment = mine[q].experiment
                         /\ mine'[q].level = mine[q].level \/ mine'[q].level = level
                      \/ /\ work'[q].of \in Experiments
                         /\ mine'[q].experiment = experiments[work'[q].of]
                         /\ mine'[q].level = level
                         /\ work'[q].kind = "apply" => /\ work'[q].on \in Requests
                                                       /\ pc[work'[q].on] = "done"
                                                       /\ work[work'[q].on].of = work'[q].of
    OBVIOUS
  <2>1. CASE q = r
    BY <1>2, <1>5, <1>6, <2>1
  <2>2. CASE q # r
    BY <1>2, <1>4, <1>5, <2>2
  <2>. QED  BY <2>1, <2>2
<1>8. alone' => \A p, q \in Running' : p = q
  BY <1>2, <1>4
<1>9. alone' => alone
  BY <1>2
<1>. QED  BY <1>2, <1>3, <1>7, <1>8, <1>9, KeepHistory

\* A step of a request in progress, or its rollback, stores nothing either.
LEMMA ProceedHistory ==
    ASSUME HistoryInv, JobInv', NEW r \in Running, UNCHANGED <<tables, alone>>, NEW at,
           at # "done", pc' = [pc EXCEPT ![r] = at],
           \A q \in Requests \ {r} : work'[q] = work[q] /\ mine'[q] = mine[q],
           at \in {"inject", "commit"} =>
              /\ work'[r] = work[r] /\ mine'[r].experiment = mine[r].experiment
              /\ mine'[r].level = mine[r].level \/ mine'[r].level = level,
           at \in {"inject", "commit", "failed"}
    PROVE  HistoryInv'
<1>1. TypeOK
  BY DEF HistoryInv, JobInv
<1>2. r \in Requests /\ pc[r] # "done" /\ pc'[r] = at /\ \A q \in Requests \ {r} : pc'[q] = pc[q]
  BY <1>1 DEF Running, TypeOK
<1>3. \A i \in Requests : pc[i] = "done" => work'[i] = work[i] /\ pc'[i] = "done"
  BY <1>2
<1>4. Running' \subseteq Running
  BY <1>2 DEF Running
<1>5. alone' => \A p, q \in Running' : p = q
  BY <1>4 DEF HistoryInv
<1>6. \A q \in Running' : /\ q \in Running /\ work'[q] = work[q]
                          /\ mine'[q].experiment = mine[q].experiment
                          /\ mine'[q].level = mine[q].level \/ mine'[q].level = level
  <2> SUFFICES ASSUME NEW q \in Running'
               PROVE  /\ q \in Running /\ work'[q] = work[q]
                      /\ mine'[q].experiment = mine[q].experiment
                      /\ mine'[q].level = mine[q].level \/ mine'[q].level = level
    OBVIOUS
  <2>1. q \in Running /\ q \in Requests
    BY <1>4 DEF Running
  <2>2. CASE q = r
    <3>1. at \in {"inject", "commit"}
      BY <1>2, <2>2 DEF Running
    <3>. QED  BY <2>1, <2>2, <3>1
  <2>3. CASE q # r
    BY <2>1, <2>3
  <2>. QED  BY <2>2, <2>3
<1>. QED  BY <1>3, <1>5, <1>6, KeepHistory

\* What a commit adds to the ticks of an experiment and to the history of an agent.
LEMMA CommitAdds ==
    ASSUME HistoryInv, NEW r \in Requests, Commit(r), NEW o, o = work[r].of
    PROVE  /\ o \in Experiments /\ r \in Running /\ ReadOK(r, o)
           /\ \A e : ~(IsTick(r) /\ e = o) => Cardinality(TicksOf(e)') = Cardinality(TicksOf(e))
           /\ IsTick(r) => Cardinality(TicksOf(o)') = Cardinality(TicksOf(o)) + 1
           /\ \A a : IF work[r].kind \notin {"create", "other"} /\ a \in Targets[o]
                       THEN Cardinality(ToldOf(a)') = Cardinality(ToldOf(a)) + 1
                       ELSE Cardinality(ToldOf(a)') = Cardinality(ToldOf(a))
           /\ pc[Injected(r)] = "done" \/ Injected(r) = r
           /\ TicksOf(o)' # TicksOf(o) => IsTick(r)
           /\ \A e : e # o => TicksOf(e)' = TicksOf(e)
<1>1. /\ TypeOK /\ WorkOK /\ StoredByDone /\ r \in Running /\ pc[r] = "commit" /\ o \in Experiments
      /\ work' = work
      /\ injections' = IF work[r].kind = "other" THEN injections
                                                 ELSE [injections EXCEPT ![Injected(r)] = StateOf(r)]
  BY DEF HistoryInv, JobInv, Commit, TypeOK, Running
<1>2. ReadOK(r, o)
  BY <1>1 DEF HistoryInv
<1>3. injections[r] = "absent" /\ StateOf(r) # "absent"
  BY <1>1 DEF StoredByDone, StateOf
<1>4. /\ Injected(r) \in Requests /\ work[Injected(r)].of = o
      /\ Injected(r) # r => /\ work[r].kind = "apply" /\ injections[Injected(r)] # "absent"
                            /\ pc[Injected(r)] = "done"
      /\ IsTick(r) => Injected(r) = r
      /\ work[r].kind # "apply" => Injected(r) = r
  BY <1>1, <1>2 DEF WorkOK, ReadOK, StoredByDone, Injected, IsTick
<1>5. \A i \in Requests : IsTick(i) =>
          (injections'[i] # "absent" <=> injections[i] # "absent" \/ i = Injected(r))
  BY <1>1, <1>3, <1>4 DEF TypeOK, IsTick
<1>6. \A e : ~(IsTick(r) /\ e = o) => TicksOf(e)' = TicksOf(e)
  <2> SUFFICES ASSUME NEW e, ~(IsTick(r) /\ e = o) PROVE TicksOf(e)' = TicksOf(e)
    OBVIOUS
  <2>1. CASE Injected(r) = r
    BY <1>1, <1>5, <2>1 DEF TicksOf, IsTick
  <2>2. CASE Injected(r) # r
    BY <1>1, <1>4, <1>5, <2>2 DEF TicksOf, IsTick
  <2>. QED  BY <2>1, <2>2
<1>7. IsTick(r) => TicksOf(o)' = TicksOf(o) \cup {r}
  BY <1>1, <1>4, <1>5 DEF TicksOf, IsTick
<1>8. /\ r \notin TicksOf(o)
      /\ IsFiniteSet(TicksOf(o)) /\ \A a : IsFiniteSet(ToldOf(a))
  BY <1>1, <1>3, HistoryIsFinite DEF TicksOf
<1>9. IsTick(r) => Cardinality(TicksOf(o)') = Cardinality(TicksOf(o)) + 1
  <2>1. Cardinality(TicksOf(o) \cup {r}) = Cardinality(TicksOf(o)) + 1
    BY <1>8, FS_AddElement
  <2>2. IsTick(r) => Cardinality(TicksOf(o)') = Cardinality(TicksOf(o) \cup {r})
    BY <1>7, Zenon
  <2>. QED  BY <2>1, <2>2
<1>10. \A e : ~(IsTick(r) /\ e = o) => Cardinality(TicksOf(e)') = Cardinality(TicksOf(e))
  BY <1>6, Zenon
<1>11. ASSUME NEW a, work[r].kind \notin {"create", "other"}, a \in Targets[o]
       PROVE  Cardinality(ToldOf(a)') = Cardinality(ToldOf(a)) + 1
  <2> DEFINE p == <<r, Injected(r)>>
  <2>1. p \notin ToldOf(a)
    BY <1>1 DEF HistoryInv, ToldOf
  <2>2. ToldOf(a)' = ToldOf(a) \cup {p}
    BY <1>1, <1>4, <1>11 DEF ToldOf, Commit
  <2>3. Cardinality(ToldOf(a)') = Cardinality(ToldOf(a) \cup {p})
    BY <2>2, Zenon
  <2>. HIDE DEF p
  <2>4. Cardinality(ToldOf(a) \cup {p}) = Cardinality(ToldOf(a)) + 1
    BY <1>8, <2>1, FS_AddElement
  <2>. QED  BY <2>3, <2>4
<1>12. ASSUME NEW a, ~(work[r].kind \notin {"create", "other"} /\ a \in Targets[o])
       PROVE  Cardinality(ToldOf(a)') = Cardinality(ToldOf(a))
  <2>1. ToldOf(a)' = ToldOf(a)
    BY <1>1, <1>4, <1>12 DEF ToldOf, Commit
  <2>. QED  BY <2>1, Zenon
<1>. QED  BY <1>1, <1>2, <1>4, <1>6, <1>9, <1>10, <1>11, <1>12

LEMMA CommitHistory == ASSUME HistoryInv, JobInv', NEW r \in Requests, Commit(r) PROVE HistoryInv'
<1>1. /\ TypeOK /\ JobInv /\ work' = work /\ alone' = alone
      /\ \A q \in Requests : q # r => pc'[q] = pc[q] /\ mine'[q] = mine[q]
      /\ pc'[r] = "done" /\ r \in Running
  BY DEF HistoryInv, JobInv, Commit, Close, TypeOK, Running
<1>2. PICK o : o = work[r].of
  OBVIOUS
<1>3. /\ o \in Experiments /\ ReadOK(r, o)
      /\ \A e : ~(IsTick(r) /\ e = o) => Cardinality(TicksOf(e)') = Cardinality(TicksOf(e))
      /\ IsTick(r) => Cardinality(TicksOf(o)') = Cardinality(TicksOf(o)) + 1
      /\ \A a : IF work[r].kind \notin {"create", "other"} /\ a \in Targets[o]
                  THEN Cardinality(ToldOf(a)') = Cardinality(ToldOf(a)) + 1
                  ELSE Cardinality(ToldOf(a)') = Cardinality(ToldOf(a))
      /\ pc[Injected(r)] = "done" \/ Injected(r) = r
      /\ TicksOf(o)' # TicksOf(o) => IsTick(r)
      /\ \A e : e # o => TicksOf(e)' = TicksOf(e)
  BY <1>2, CommitAdds
<1>4. /\ \A e : Cardinality(TicksOf(e)) \in Nat
      /\ \A a : Cardinality(ToldOf(a)) \in Nat
  BY <1>1, HistoryIsFinite
<1>5. Running' \subseteq Running \ {r} /\ Running \subseteq Requests
  BY <1>1 DEF Running
<1>6. \A e \in Experiments : ~(IsTick(r) /\ e = o) => experiments'[e] = experiments[e]
  BY <1>1, <1>2 DEF Commit, TypeOK
<1>7. ASSUME IsTick(r)
      PROVE  /\ experiments'[o].ticks = mine[r].experiment.ticks + 1
             /\ experiments'[o].state = "active"
             /\ mine[r].experiment.ticks \in Nat
  <2>1. experiments'[o] = Ticked(r)
    BY <1>1, <1>2, <1>3, <1>7 DEF Commit, TypeOK
  <2>2. mine[r].experiment.state \in {"draft", "active"} /\ mine[r].experiment.ticks \in Nat
    BY <1>1 DEF TypeOK
  <2>. QED  BY <1>2, <1>3, <2>1, <2>2 DEF Ticked, ReadOK
<1>8. TicksCounted'
  <2> SUFFICES ASSUME NEW e \in Experiments
               PROVE  /\ experiments'[e].ticks <= Cardinality(TicksOf(e)')
                      /\ alone' => experiments'[e].ticks = Cardinality(TicksOf(e)')
                      /\ TicksOf(e)' # {} => experiments'[e].state = "active" /\ experiments'[e].ticks > 0
    BY DEF TicksCounted
  <2>1. /\ experiments[e].ticks <= Cardinality(TicksOf(e))
        /\ alone => experiments[e].ticks = Cardinality(TicksOf(e))
        /\ TicksOf(e) # {} => experiments[e].state = "active" /\ experiments[e].ticks > 0
    BY DEF HistoryInv, TicksCounted
  <2>2. CASE IsTick(r) /\ e = o
    <3>1. experiments'[e].ticks = mine[r].experiment.ticks + 1 /\ mine[r].experiment.ticks \in Nat
      BY <1>7, <2>2
    <3>2. /\ mine[r].experiment.ticks <= Cardinality(TicksOf(e))
          /\ alone => mine[r].experiment.ticks = Cardinality(TicksOf(e))
      BY <1>3, <2>1, <2>2 DEF ReadOK
    <3>3. Cardinality(TicksOf(e)') = Cardinality(TicksOf(e)) + 1
      BY <1>3, <2>2
    <3>. QED  BY <1>1, <1>4, <1>7, <2>2, <3>1, <3>2, <3>3
  <2>3. CASE ~(IsTick(r) /\ e = o)
    <3>1. TicksOf(e)' = TicksOf(e)
      BY <1>3, <2>3
    <3>. QED  BY <1>1, <1>3, <1>6, <2>1, <2>3, <3>1
  <2>. QED  BY <2>2, <2>3
<1>9. LevelIsHistory'
  <2> SUFFICES ASSUME NEW a \in Agents
               PROVE  /\ level'[a] <= Cardinality(ToldOf(a)')
                      /\ alone' => level'[a] = Cardinality(ToldOf(a)')
    BY DEF LevelIsHistory, ToldOf
  <2>1. level[a] <= Cardinality(ToldOf(a)) /\ (alone => level[a] = Cardinality(ToldOf(a)))
    BY DEF HistoryInv, LevelIsHistory, ToldOf
  <2>2. CASE work[r].kind \notin {"create", "other"} /\ a \in Targets[o]
    <3>1. level'[a] = mine[r].level[a] + 1 /\ mine[r].level[a] \in Nat
      BY <1>1, <1>2, <2>2 DEF Commit, Boosted, TypeOK
    <3>2. /\ mine[r].level[a] <= Cardinality(ToldOf(a))
          /\ alone => mine[r].level[a] = Cardinality(ToldOf(a))
      BY <1>3, <2>1 DEF ReadOK
    <3>3. Cardinality(ToldOf(a)') = Cardinality(ToldOf(a)) + 1
      BY <1>3, <2>2
    <3>. QED  BY <1>1, <1>4, <3>1, <3>2, <3>3
  <2>3. CASE ~(work[r].kind \notin {"create", "other"} /\ a \in Targets[o])
    <3>1. level'[a] = level[a]
      BY <1>1, <1>2, <2>3 DEF Commit, Boosted
    <3>. QED  BY <1>1, <1>3, <2>1, <2>3, <3>1
  <2>. QED  BY <2>2, <2>3
<1>10. \A p \in applied' : pc'[p[1]] = "done" /\ pc'[p[2]] = "done"
  <2>1. \A p \in applied' : p \in applied \/ p = <<r, Injected(r)>>
    BY DEF Commit
  <2>2. \A p \in applied : p \in Requests \X Requests /\ pc[p[1]] = "done" /\ pc[p[2]] = "done"
    BY <1>1 DEF HistoryInv, TypeOK
  <2>3. Injected(r) \in Requests
    BY <1>1, CommitValues DEF Commit
  <2>. QED  BY <1>1, <1>3, <2>1, <2>2, <2>3
<1>11. alone' => \A p, q \in Running' : p = q
  BY <1>1, <1>5 DEF HistoryInv
<1>12. ASSUME NEW q \in Running', NEW e \in Experiments, work'[q].of = e PROVE ReadOK(q, e)'
  <2>1. q \in Running /\ q # r /\ q \in Requests /\ mine'[q] = mine[q] /\ ~alone'
    BY <1>1, <1>5 DEF HistoryInv
  <2>2. ReadOK(q, e)
    BY <1>1, <1>12, <2>1 DEF HistoryInv
  <2>3. Cardinality(TicksOf(e)) <= Cardinality(TicksOf(e)')
    BY <1>3, <1>4
  <2>4. \A a : Cardinality(ToldOf(a)) <= Cardinality(ToldOf(a)')
    BY <1>3, <1>4
  <2>5. mine[q].experiment.ticks <= Cardinality(TicksOf(e)')
    <3>1. mine[q].experiment.ticks \in Nat /\ mine[q].experiment.ticks <= Cardinality(TicksOf(e))
      BY <1>1, <2>1, <2>2 DEF ReadOK, TypeOK
    <3>2. Cardinality(TicksOf(e)) \in Nat /\ Cardinality(TicksOf(e)') \in Nat
      BY <1>3, <1>4
    <3>. QED  BY <2>3, <3>1, <3>2
  <2>6. \A a \in Agents : mine[q].level[a] <= Cardinality(ToldOf(a)')
    <3> SUFFICES ASSUME NEW a \in Agents PROVE mine[q].level[a] <= Cardinality(ToldOf(a)')
      OBVIOUS
    <3>1. mine[q].level[a] \in Nat /\ mine[q].level[a] <= Cardinality(ToldOf(a))
      BY <1>1, <2>1, <2>2 DEF ReadOK, TypeOK
    <3>2. Cardinality(ToldOf(a)) \in Nat /\ Cardinality(ToldOf(a)') \in Nat
      BY <1>3, <1>4
    <3>. QED  BY <2>4, <3>1, <3>2
  <2>7. experiments[e].state = "active" => experiments'[e].state = "active"
    BY <1>6, <1>7
  <2>. QED  BY <1>1, <2>1, <2>2, <2>5, <2>6, <2>7 DEF ReadOK
<1>. QED  BY <1>8, <1>9, <1>10, <1>11, <1>12 DEF HistoryInv

LEMMA NextHistory == HistoryInv /\ [Next]_vars => HistoryInv'
<1> SUFFICES ASSUME HistoryInv, [Next]_vars PROVE HistoryInv'
  OBVIOUS
<1>1. TypeOK /\ JobInv /\ JobInv'
  BY NextInv DEF HistoryInv, JobInv
<1>2. ASSUME NEW r \in Clients, ClientRequest(r) PROVE HistoryInv'
  <2>1. r \in Requests /\ pc[r] = "new"
    BY <1>2 DEF Requests, ClientRequest, NextOf
  <2>2. CASE \E e \in Experiments, kind \in {"tick", "report"} :
                 \E j \in {r} \cup StoredJobs : StartTick(r, e, j, kind)
    <3>1. PICK e \in Experiments, kind \in {"tick", "report"} :
                 \E j \in {r} \cup StoredJobs : StartTick(r, e, j, kind)
      BY <2>2
    <3>2. PICK j \in {r} \cup StoredJobs : StartTick(r, e, j, kind)
      BY <3>1
    <3>3. [kind |-> kind, of |-> e, on |-> j] \in Works
      BY <2>1, <3>2 DEF Works, Kinds, StoredJobs
    <3>. QED  BY <1>1, <2>1, <3>2, <3>3, ArriveHistory DEF StartTick
  <2>3. CASE \E e \in Experiments, kind \in {"create", "inject"} : StartCreate(r, e, kind)
    BY <1>1, <2>1, <2>3, ArriveHistory DEF StartCreate, Works, Kinds
  <2>4. CASE \E i \in Requests : StartApply(r, i)
    <3>1. PICK i \in Requests : StartApply(r, i)
      BY <2>4
    <3>2. [kind |-> "apply", of |-> work[i].of, on |-> i] \in Works
      BY <1>1 DEF Works, Kinds, TypeOK
    <3>. QED  BY <1>1, <2>1, <3>1, <3>2, ArriveHistory DEF StartApply
  <2>5. CASE \E j \in {r} \cup StoredJobs : StartOther(r, j)
    <3>1. PICK j \in {r} \cup StoredJobs : StartOther(r, j)
      BY <2>5
    <3>2. [kind |-> "other", of |-> Scheduled, on |-> j] \in Works
      BY <2>1, <3>1 DEF Works, Kinds, StoredJobs
    <3>. QED  BY <1>1, <2>1, <3>1, <3>2, ArriveHistory DEF StartOther
  <2>. QED  BY <1>2, <2>2, <2>3, <2>4, <2>5 DEF ClientRequest
<1>3. ASSUME NEW r \in Requests, Claim(r) PROVE HistoryInv'
  <2> DEFINE at == IF IsTick(r) THEN "inject" ELSE "commit"
  <2>1. at \in {"inject", "commit"} /\ r \in Running
    BY <1>3 DEF Claim, Running
  <2>2. /\ pc' = [pc EXCEPT ![r] = at] /\ UNCHANGED <<tables, alone, work, mine>>
    BY <1>3 DEF Claim
  <2>. HIDE DEF at
  <2>. QED  BY <1>1, <2>1, <2>2, ProceedHistory
<1>4. ASSUME NEW r \in Requests, Inject(r) PROVE HistoryInv'
  <2>1. /\ mine'[r].experiment = mine[r].experiment /\ mine'[r].level = level
        /\ \A q \in Requests \ {r} : mine'[q] = mine[q]
    BY <1>1, <1>4 DEF Inject, TypeOK
  <2>. QED  BY <1>1, <1>4, <2>1, ProceedHistory DEF Inject, Running
<1>5. ASSUME NEW r \in Requests, Commit(r) PROVE HistoryInv'
  BY <1>1, <1>5, CommitHistory
<1>6. ASSUME NEW r \in Running, Rollback(r) PROVE HistoryInv'
  <2>1. \A q \in Requests \ {r} : work'[q] = work[q] /\ mine'[q] = mine[q]
    BY <1>1, <1>6 DEF Rollback, Close, TypeOK
  <2>. QED  BY <1>1, <1>6, <2>1, ProceedHistory DEF Rollback
<1>7. ASSUME NEW r \in Calls, CallTick(r) PROVE HistoryInv'
  <2>1. r \in Requests /\ pc[r] = "new"
    BY <1>7 DEF Requests, CallTick, NextOf
  <2> DEFINE kind == IF Len(results) = Ticks - 1 THEN "report" ELSE "tick"
  <2>2. [kind |-> kind, of |-> Scheduled, on |-> r] \in Works
    BY <2>1 DEF Works, Kinds
  <2>3. kind # "apply"
    OBVIOUS
  <2>. QED  BY <1>1, <1>7, <2>1, <2>2, <2>3, ArriveHistory DEF CallTick, StartTick
<1>8. ASSUME UNCHANGED <<tables, pc, session, alone>> PROVE HistoryInv'
  <2>1. Running' = Running
    BY <1>8 DEF Running
  <2>2. \A q \in Running' : /\ q \in Running /\ work'[q] = work[q]
                            /\ mine'[q].experiment = mine[q].experiment
                            /\ mine'[q].level = mine[q].level
    BY <1>8, <2>1 DEF session
  <2>3. alone' => \A p, q \in Running' : p = q
    BY <1>8, <2>1 DEF HistoryInv
  <2>. QED  BY <1>1, <1>8, <2>2, <2>3, KeepHistory DEF session
<1>9. ASSUME NEW r \in Requests, NoModel(r) \/ Fail(r) PROVE HistoryInv'
  <2>1. r \in Running /\ Rollback(r)
    BY <1>9 DEF NoModel, Fail, Running
  <2>. QED  BY <1>6, <2>1
<1>10. ASSUME Return \/ Retry \/ GiveUp PROVE HistoryInv'
  BY <1>8, <1>10 DEF Return, Retry, GiveUp
<1>11. CASE UNCHANGED vars
  BY <1>8, <1>11 DEF vars
<1>. QED  BY <1>2, <1>3, <1>4, <1>5, <1>7, <1>9, <1>10, <1>11 DEF Next, Proceed, Workflow

\* No experiment ever counts more ticks than it has injections from ticks, and it counts them
\* all as long as requests came one at a time; whatever was ticked is active.
THEOREM TicksAreCounted == Spec => []TicksCounted
<1>1. HistoryInv => TicksCounted
  BY DEF HistoryInv
<1>. QED  BY <1>1, InitHistory, NextHistory, PTL DEF Spec

\* No agent's numbers ever contain more injections than its events tell, and they contain
\* them all as long as requests came one at a time.
THEOREM LevelIsAlwaysHistory == Spec => []LevelIsHistory
<1>1. HistoryInv => LevelIsHistory
  BY DEF HistoryInv
<1>. QED  BY <1>1, InitHistory, NextHistory, PTL DEF Spec

-----------------------------------------------------------------------------
(* The workflow.  The calls that are neither unused nor rolled back are its *)
(* results, the one it waits for, and others it gave up.                    *)

Live == {r \in Calls : pc[r] \notin {"new", "failed"}}

Loose == Live \ (Range(results) \cup {call})

WorkflowInv ==
    /\ JobInv
    /\ \A r \in Live : /\ IsTick(r) /\ work[r].of = Scheduled
                       /\ pc[r] = "done" => injections[r] # "absent"
    /\ call # NoRequest => pc[call] # "new" /\ call \notin Range(results)
    /\ \A r \in Range(results) : pc[r] = "done"
    /\ Cardinality(Range(results)) = Len(results)
    /\ Cardinality(Loose) <= gaveUp

LEMMA LooseIsFinite == IsFiniteSet(Loose) /\ Cardinality(Loose) \in Nat
<1>1. Loose \in SUBSET Requests
  BY DEF Loose, Live, Requests
<1>. QED  BY <1>1, FS_Subset, FS_CardinalityType

LEMMA ResultsAreCalls ==
    ASSUME TypeOK
    PROVE  /\ Range(results) \in SUBSET Calls /\ IsFiniteSet(Range(results))
           /\ gaveUp \in Nat /\ Len(results) \in Nat
<1>1. Range(results) \in SUBSET Calls /\ Range(results) \in SUBSET Requests
  BY DEF TypeOK, Range, Requests
<1>. QED  BY <1>1, FS_Subset DEF TypeOK

LEMMA InitWorkflow == Init => WorkflowInv
<1> SUFFICES ASSUME Init PROVE WorkflowInv
  OBVIOUS
<1>1. Live = {} /\ Range(results) = {} /\ call = NoRequest /\ Len(results) = 0
  BY DEF Init, Live, Range, Requests
<1>2. Loose = {}
  BY <1>1 DEF Loose
<1>3. Cardinality(Loose) = 0 /\ Cardinality(Range(results)) = 0
  <2>1. Cardinality({}) = 0
    BY FS_EmptySet
  <2>. QED  BY <1>1, <1>2, <2>1, Zenon
<1>. QED  BY <1>1, <1>3, InitInv DEF Init, WorkflowInv

\* A step of a request keeps the invariant when no new call of the workflow comes to life.
LEMMA KeepWorkflow ==
    ASSUME WorkflowInv, JobInv', UNCHANGED flow,
           \A q \in Calls : pc[q] = "done" => pc'[q] = "done",
           \A q \in Requests : pc[q] # "new" => pc'[q] # "new",
           \A q \in Live' : /\ q \in Live /\ work'[q] = work[q]
                            /\ pc'[q] = "done" => pc[q] = "done" \/ injections'[q] # "absent",
           \A q \in Requests : injections[q] # "absent" => injections'[q] # "absent"
    PROVE  WorkflowInv'
<1>1. TypeOK /\ results' = results /\ call' = call /\ gaveUp' = gaveUp
  BY DEF WorkflowInv, JobInv, flow
<1>2. Loose' \in SUBSET Loose
  BY <1>1 DEF Loose
<1>3. Cardinality(Loose') <= Cardinality(Loose)
  BY <1>2, LooseIsFinite, FS_Subset
<1>4. Cardinality(Loose') \in Nat
  BY <1>2, LooseIsFinite, FS_Subset, FS_CardinalityType
<1>5. Cardinality(Loose') <= gaveUp'
  BY <1>1, <1>3, <1>4, LooseIsFinite, ResultsAreCalls DEF WorkflowInv
<1>6. \A q \in Live' : /\ IsTick(q)' /\ work'[q].of = Scheduled
                       /\ pc'[q] = "done" => injections'[q] # "absent"
  BY DEF WorkflowInv, IsTick, Live, Requests
<1>7. call' # NoRequest => pc'[call'] # "new" /\ call' \notin Range(results')
  BY <1>1 DEF WorkflowInv, TypeOK, Requests
<1>8. \A r \in Range(results') : pc'[r] = "done"
  BY <1>1, ResultsAreCalls DEF WorkflowInv
<1>9. Cardinality(Range(results')) = Len(results')
  BY <1>1 DEF WorkflowInv
<1>. QED  BY <1>5, <1>6, <1>7, <1>8, <1>9 DEF WorkflowInv

\* The workflow's own next call.
LEMMA CallTickWorkflow == ASSUME WorkflowInv, JobInv', NEW r \in Calls, CallTick(r) PROVE WorkflowInv'
<1>1. /\ TypeOK /\ JobInv /\ r \in Requests /\ pc[r] = "new" /\ r # NoRequest
      /\ call = NoRequest /\ call' = r /\ results' = results /\ gaveUp' = gaveUp
      /\ injections' = injections
  BY DEF WorkflowInv, JobInv, CallTick, NextOf, Requests, StartTick, Arrive, tables
<1>2. /\ pc'[r] = "claim" /\ work'[r].kind \in {"tick", "report"} /\ work'[r].of = Scheduled
      /\ \A q \in Requests : q # r => pc'[q] = pc[q] /\ work'[q] = work[q]
  BY <1>1 DEF CallTick, StartTick, Arrive, TypeOK
<1>3. Range(results) \in SUBSET Calls /\ r \notin Range(results)
  BY <1>1, ResultsAreCalls DEF WorkflowInv
<1>4. Live' = Live \cup {r} /\ r \notin Live
  BY <1>1, <1>2 DEF Live, Requests
<1>5. Loose' = Loose
  BY <1>1, <1>3, <1>4 DEF Loose, Live, Requests
<1>6. Cardinality(Loose') = Cardinality(Loose)
  BY <1>5, Zenon
<1>7. \A q \in Live' : /\ IsTick(q)' /\ work'[q].of = Scheduled
                       /\ pc'[q] = "done" => injections'[q] # "absent"
  <2> SUFFICES ASSUME NEW q \in Live'
               PROVE  /\ IsTick(q)' /\ work'[q].of = Scheduled
                      /\ pc'[q] = "done" => injections'[q] # "absent"
    OBVIOUS
  <2>1. CASE q = r
    BY <1>2, <2>1 DEF IsTick
  <2>2. CASE q # r
    <3>1. q \in Live /\ q \in Requests
      BY <1>4, <2>2 DEF Live, Requests
    <3>. QED  BY <1>1, <1>2, <2>2, <3>1 DEF WorkflowInv, IsTick
  <2>. QED  BY <2>1, <2>2
<1>8. \A q \in Range(results') : pc'[q] = "done"
  BY <1>1, <1>2, <1>3 DEF WorkflowInv, Requests
<1>. QED  BY <1>1, <1>2, <1>3, <1>6, <1>7, <1>8 DEF WorkflowInv

LEMMA ReturnWorkflow == ASSUME WorkflowInv, JobInv', Return PROVE WorkflowInv'
<1>1. /\ TypeOK /\ call \in Calls /\ call # NoRequest /\ pc[call] = "done" /\ call' = NoRequest
      /\ results' = Append(results, call) /\ gaveUp' = gaveUp
      /\ pc' = pc /\ work' = work /\ injections' = injections
  BY DEF WorkflowInv, JobInv, Return, TypeOK, tables, session
<1>2. Range(results') = Range(results) \cup {call}
  <2>1. /\ Len(results) \in Nat /\ DOMAIN results = 1..Len(results)
        /\ DOMAIN results' = 1..(Len(results) + 1)
        /\ \A i \in 1..Len(results) : results'[i] = results[i]
        /\ results'[Len(results) + 1] = call
    BY <1>1 DEF TypeOK
  <2>2. \A i : i \in DOMAIN results' <=> i \in DOMAIN results \/ i = Len(results) + 1
    BY <2>1
  <2>. QED  BY <2>1, <2>2 DEF Range
<1>3. call \notin Range(results)
  BY <1>1 DEF WorkflowInv
<1>4. Cardinality(Range(results')) = Len(results')
  <2>1. Cardinality(Range(results) \cup {call}) = Cardinality(Range(results)) + 1
    BY <1>1, <1>3, ResultsAreCalls, FS_AddElement
  <2>2. Cardinality(Range(results')) = Cardinality(Range(results) \cup {call})
    BY <1>2, Zenon
  <2>3. Len(results') = Len(results) + 1
    BY <1>1 DEF TypeOK
  <2>. QED  BY <2>1, <2>2, <2>3 DEF WorkflowInv
<1>5. Live' = Live /\ NoRequest \notin Live
  BY <1>1 DEF Live, Requests
<1>6. Loose' = Loose
  BY <1>1, <1>2, <1>5 DEF Loose
<1>7. Cardinality(Loose') = Cardinality(Loose)
  BY <1>6, Zenon
<1>8. \A q \in Range(results') : pc'[q] = "done"
  BY <1>1, <1>2 DEF WorkflowInv
<1>. QED  BY <1>1, <1>4, <1>5, <1>7, <1>8 DEF WorkflowInv, IsTick

LEMMA LetGoWorkflow == ASSUME WorkflowInv, JobInv', Retry \/ GiveUp PROVE WorkflowInv'
<1>1. /\ TypeOK /\ call \in Calls /\ call # NoRequest /\ call' = NoRequest /\ results' = results
      /\ pc' = pc /\ work' = work /\ injections' = injections
      /\ (gaveUp' = gaveUp /\ pc[call] = "failed") \/ gaveUp' = gaveUp + 1
  BY DEF WorkflowInv, JobInv, Retry, GiveUp, TypeOK, tables, session
<1>2. Live' = Live /\ NoRequest \notin Live
  BY <1>1 DEF Live, Requests
<1>3. Cardinality(Loose) \in Nat /\ gaveUp \in Nat /\ Cardinality(Loose) <= gaveUp
  BY <1>1, LooseIsFinite, ResultsAreCalls DEF WorkflowInv
<1>4. Cardinality(Loose') <= gaveUp'
  <2>1. CASE call \notin Live
    <3>1. Loose' = Loose
      BY <1>1, <1>2, <2>1 DEF Loose
    <3>2. Cardinality(Loose') = Cardinality(Loose)
      BY <3>1, Zenon
    <3>. QED  BY <1>1, <1>3, <3>2
  <2>2. CASE call \in Live
    <3>1. gaveUp' = gaveUp + 1 /\ call \notin Loose
      BY <1>1, <2>2 DEF Live, Loose
    <3>2. Loose' = Loose \cup {call}
      BY <1>1, <1>2, <2>2 DEF Loose, WorkflowInv
    <3>3. Cardinality(Loose \cup {call}) = Cardinality(Loose) + 1
      BY <3>1, LooseIsFinite, FS_AddElement
    <3>4. Cardinality(Loose') = Cardinality(Loose \cup {call})
      BY <3>2, Zenon
    <3>. QED  BY <1>3, <3>1, <3>3, <3>4
  <2>. QED  BY <2>1, <2>2
<1>. QED  BY <1>1, <1>2, <1>4 DEF WorkflowInv, IsTick

LEMMA NextWorkflow == WorkflowInv /\ [Next]_vars => WorkflowInv'
<1> SUFFICES ASSUME WorkflowInv, [Next]_vars PROVE WorkflowInv'
  OBVIOUS
<1>1. TypeOK /\ JobInv /\ JobInv'
  BY NextInv DEF WorkflowInv, JobInv
<1>2. ASSUME NEW r \in Clients, ClientRequest(r) PROVE WorkflowInv'
  <2>1. PICK w, at : Arrive(r, w, at) /\ at \in {"claim", "inject", "commit"}
    BY <1>2 DEF ClientRequest, StartTick, StartCreate, StartApply, StartOther
  <2>2. /\ r \in Requests /\ r \notin Calls /\ pc[r] = "new" /\ UNCHANGED flow
        /\ pc' = [pc EXCEPT ![r] = at] /\ work' = [work EXCEPT ![r] = w] /\ injections' = injections
    BY <1>2, <2>1 DEF Requests, ClientRequest, NextOf, Arrive, tables
  <2>3. \A q \in Requests : pc[q] # "new" => pc'[q] # "new"
    BY <1>1, <2>1, <2>2 DEF TypeOK
  <2>4. \A q \in Calls : pc'[q] = pc[q] /\ work'[q] = work[q]
    BY <1>1, <2>2 DEF TypeOK, Requests
  <2>. QED  BY <1>1, <2>2, <2>3, <2>4, KeepWorkflow DEF Live
<1>3. ASSUME NEW r \in Requests, Claim(r) \/ Inject(r) PROVE WorkflowInv'
  <2>1. /\ pc[r] \in {"claim", "inject"} /\ UNCHANGED <<flow, work, injections>>
        /\ pc'[r] \in {"inject", "commit"}
        /\ \A q \in Requests : q # r => pc'[q] = pc[q]
    BY <1>1, <1>3 DEF Claim, Inject, TypeOK, tables
  <2>2. Live' \in SUBSET Live
    BY <2>1 DEF Live, Requests
  <2>3. \A q \in Live' : pc'[q] = "done" => pc[q] = "done"
    BY <2>1 DEF Live, Requests
  <2>. QED  BY <1>1, <2>1, <2>2, <2>3, KeepWorkflow DEF Requests
<1>4. ASSUME NEW r \in Requests, Commit(r) PROVE WorkflowInv'
  <2>1. /\ pc[r] = "commit" /\ UNCHANGED <<flow, work>> /\ pc'[r] = "done"
        /\ \A q \in Requests : q # r => pc'[q] = pc[q]
        /\ injections' = IF work[r].kind = "other" THEN injections
                                                   ELSE [injections EXCEPT ![Injected(r)] = StateOf(r)]
    BY <1>1, <1>4 DEF Commit, TypeOK
  <2>2. Live' \in SUBSET Live
    BY <2>1 DEF Live, Requests
  <2>3. StateOf(r) # "absent"
    BY DEF StateOf
  <2>4. \A q \in Requests : injections[q] # "absent" => injections'[q] # "absent"
    BY <1>1, <2>1, <2>3 DEF TypeOK
  <2>5. ASSUME r \in Live PROVE injections'[r] # "absent"
    <3>1. Injected(r) = r /\ work[r].kind # "other"
      BY <2>5 DEF WorkflowInv, IsTick, Injected
    <3>. QED  BY <1>1, <2>1, <2>3, <3>1 DEF TypeOK
  <2>6. \A q \in Live' : pc'[q] = "done" => pc[q] = "done" \/ injections'[q] # "absent"
    BY <2>1, <2>2, <2>5 DEF Live, Requests
  <2>. QED  BY <1>1, <2>1, <2>2, <2>4, <2>6, KeepWorkflow DEF Requests
<1>5. ASSUME NEW r \in Running, Rollback(r) PROVE WorkflowInv'
  <2>1. /\ r \in Requests /\ pc[r] \in {"claim", "inject", "commit"} /\ pc'[r] = "failed"
        /\ UNCHANGED <<flow, injections>>
        /\ \A q \in Requests : q # r => pc'[q] = pc[q] /\ work'[q] = work[q]
    BY <1>1, <1>5 DEF Rollback, Running, TypeOK, tables
  <2>2. Live' \in SUBSET Live /\ r \notin Live'
    BY <2>1 DEF Live, Requests
  <2>3. \A q \in Live' : pc'[q] = pc[q] /\ work'[q] = work[q]
    BY <2>1, <2>2 DEF Live, Requests
  <2>. QED  BY <1>1, <2>1, <2>2, <2>3, KeepWorkflow DEF Requests
<1>6. ASSUME NEW r \in Requests, NoModel(r) \/ Fail(r) PROVE WorkflowInv'
  <2>1. r \in Running /\ Rollback(r)
    BY <1>6 DEF NoModel, Fail, Running
  <2>. QED  BY <1>5, <2>1
<1>7. ASSUME NEW r \in Calls, CallTick(r) PROVE WorkflowInv'
  BY <1>1, <1>7, CallTickWorkflow
<1>8. ASSUME Return PROVE WorkflowInv'
  BY <1>1, <1>8, ReturnWorkflow
<1>9. ASSUME Retry \/ GiveUp PROVE WorkflowInv'
  BY <1>1, <1>9, LetGoWorkflow
<1>10. CASE UNCHANGED vars
  <2>1. UNCHANGED <<flow, pc, work, injections>>
    BY <1>10 DEF vars, tables, session
  <2>2. Live' = Live
    BY <2>1 DEF Live
  <2>. QED  BY <1>1, <2>1, <2>2, KeepWorkflow
<1>. QED  BY <1>2, <1>3, <1>4, <1>6, <1>7, <1>8, <1>9, <1>10 DEF Next, Proceed, Workflow

\* Every result of the workflow is always a stored tick of its own, no two are the same, and
\* it never caused more ticks that it does not know of than it gave calls up.
THEOREM ResultsAreAlwaysTicks == Spec => []ResultsAreTicks
<1>1. ASSUME WorkflowInv PROVE ResultsAreTicks
  <2> DEFINE ticked == TicksOf(Scheduled) \cap Calls
  <2>1. TypeOK /\ StoredByDone
    BY <1>1 DEF WorkflowInv, JobInv
  <2>2. ticked \in SUBSET Live
    BY <2>1 DEF TicksOf, StoredByDone, Live
  <2>3. ticked \ (Range(results) \cup {call}) \in SUBSET Loose
    BY <2>2 DEF Loose
  <2>4. Range(results) \subseteq ticked
    BY <1>1, <2>1, ResultsAreCalls DEF WorkflowInv, Live, TicksOf, Requests
  <2>. HIDE DEF ticked
  <2>5. LET loose == ticked \ (Range(results) \cup {call})
        IN  Cardinality(loose) \in Nat /\ Cardinality(loose) <= Cardinality(Loose)
    BY <2>3, LooseIsFinite, FS_Subset, FS_CardinalityType
  <2>6. Cardinality(ticked \ (Range(results) \cup {call})) <= gaveUp
    BY <1>1, <2>1, <2>5, LooseIsFinite, ResultsAreCalls DEF WorkflowInv
  <2>. QED  BY <1>1, <2>4, <2>6 DEF WorkflowInv, ResultsAreTicks, ticked
<1>. QED  BY <1>1, InitWorkflow, NextWorkflow, PTL DEF Spec

=============================================================================
