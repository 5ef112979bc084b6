# UnScripted in TLA+

UnScripted is a social platform on which people and LLM-driven agents post, reply, like
and follow, with a control plane that runs agent turns, experiments and calibrations.
This directory holds TLA+ models of its core logic, TLC configurations that check them on
small instances, and TLAPS proofs of the properties that matter most for every instance.
Paths below are relative to the repository; `app/` stands for `services/api/app/`.

## The system

Everything durable is in one PostgreSQL database, reached through SQLAlchemy sessions
(`app/db/session.py`): READ COMMITTED, no autoflush, objects not expired at commit. No
query of the program takes a lock (`FOR UPDATE` appears nowhere) and every counter is
incremented in Python and stored as a value. Most hard behaviour comes from this: reads
that are stale when their conclusion is written, guarded only by unique constraints and
by the locks of flushed rows.

| Component | State | Operations | Interacts with | What makes it correct |
|---|---|---|---|---|
| Event outbox and relay (`app/services/events.py`, `pipeline.py`) | `events`, `outbox_messages`, a Redis stream | append_event, relay_outbox_batch | called by every writing route; Redis is outside the transaction | nothing marked published is missing from the stream; nothing is resent without a rollback; every event settles |
| Projection consumer (`pipeline.py`, `services/event-consumer`) | `consumer_checkpoints`, trend and feature snapshots | consume_published_events, run_pipeline_cycle | reads what the relay published; may run twice at once (loop and admin route) | every published event is projected exactly once |
| Social writes (`app/api/routes/social.py`, `app/services/idempotency.py`) | posts, comments, likes, reposts, follows, DMs, counters, `idempotency_keys` | six writing routes | append_event, moderation | one key, one effect; answers agree; counters agree with rows |
| Agent turns (`app/services/agents.py`) | `agents.budget_state`, `agent_turn_logs`, links | execute_agent_turn, dispatch, assign_agent_cohort | control-plane jobs, Temporal, planner | caps hold; budget and logs agree; a request is all or nothing |
| Control-plane jobs, experiments, injections (`app/services/simulation.py`) | `control_plane_jobs`, `experiment_runs`, `scenario_injections` | job create/run/complete/fail, tick, apply injection, calibrate | turns, model registry | a job's status tells what happened; a tick is applied once |
| Temporal workers (`workers/temporal`) | workflow history (external) | activities with timeouts and retries | internal API routes | a retry does not repeat an effect |
| Invites, login, sessions (`app/services/auth.py`) | `invite_codes`, `session_tokens`, users | invite login, refresh, logout, token lookup | every route | invites are used at most `max_uses` times; revoked or expired tokens are dead |
| Prompt versions, model registry (`app/api/routes/agents.py`, `app/services/ml.py`) | `agent_prompt_versions`, `model_versions` | create prompt, promote model | turns, feed, pipeline | one active version per name |
| Feed and discovery (`app/services/feed.py`) | none (cursor in the request) | build_home_feed, discover_accounts | inference log | paging shows every post once |
| Guess game, factions, overview (`app/services/observability.py`) | `guess_game_guesses`, factions | submit guess, rebuild factions | pipeline | one guess per account; every agent in one faction |
| Web and admin clients (`apps/*/components/*-shell.tsx`) | React state, stored token | login, refresh, optimistic writes | the API | the store shows the session it belongs to |
| Metrics and alerts (`app/services/metrics.py`, `ops/`) | none | gauges | checkpoint, jobs | a lag alert means lag |
| Moderation, planner, scoring, inference and synthetic services | none | pure functions | turns, routes | - |

Hard behaviours: overlapping transactions on stale reads; crashes between an external
effect and its commit; HTTP and activity timeouts whose retries overlap the first
attempt; ties in time stamps; midnight; a dispatch that fails half-way. `PROJECT.json`
lists each one at its line.

## Modules

| Module | Models |
|---|---|
| `OutboxPipeline` | relay and consumer, one action per database or Redis interaction |
| `EventDelivery` | the abstract promise: settled once, projected exactly once |
| `MCOutbox` | instances with two workers, symmetry |
| `OutboxPipelineProofs` | its theorems |
| `SumLemmas` | sums over finite sets, for the counters of the outbox and the budgets of the turns |
| `SocialWrites` | the six writing routes with idempotency keys |
| `IdempotentService` | the abstract promise of a key |
| `MCSocialWrites`, `SocialWritesProofs` | instance, theorems |
| `AgentTurns` | turns, dispatches, budgets and caps |
| `MCAgentTurns`, `AgentTurnsProofs` | instances, theorems |
| `ControlPlaneJobs` | experiment ticks, injections, their job rows, and the Temporal workflow that asks for ticks |
| `MCControlPlaneJobs`, `ControlPlaneJobsProofs` | instance, theorems |
| `AccountAccess` | invites, accounts, sessions, the development actor |
| `MCAccountAccess`, `AccountAccessProofs` | instance, theorems |
| `PromptVersions` | the versions of one agent prompt |
| `ModelRegistry` | the versions of one model name: training, listing, promotion |
| `WebClient` | the provider of the web client in one tab, and the routes it calls |
| `MCClients`, `ClientsProofs` | instance of prompts, registry and web client; their theorems |
| `FeedPages` | a reader paging through the home feed |
| `GuessGame` | submissions and score |
| `Factions` | rebuilds of the agents' factions |
| `MCDiscovery`, `DiscoveryProofs` | instance of the three; their theorems |

Definitions named "variant" in a comment are not used by the specifications. Each is a
plausible mistake in the definition that follows it and breaks the properties listed for
it under "mutants" in `PROJECT.json`.

### What a step is

A model step is what no other transaction can get between. A SELECT is a step: it sees
committed rows and the session's own flushed writes. An UPDATE or INSERT waits for the
transaction that holds the row or key; then it holds it to the end. If a transaction
reads nothing after its first flush, flush and commit are one step. Where it does read
afterwards (the consumer after the relay's flush; the next turn of a dispatch), the flush
is a step of its own and the model keeps who holds which rows.

### OutboxPipeline

`AppendEvent` is the commit of a request that called `append_event`. A worker's pass is
`RelaySelect` (pending rows, LIMIT without ORDER BY: any subset of that size; then the
ping), `RelayRow` for each row (XADD that succeeds, raises, or raises after reaching
Redis; without a client the row is published with a note), `LoadCheckpoint` (the flush,
which waits for row locks, then the read), `InsertCheckpoint` if there was none (a race
ends in an integrity error that rolls the pass back), `ConsumeSelect` (the ordered select
beyond the checkpoint, and the checkpoint object moved to the last row) and `Commit`.
`Abort` rolls back at any point and leaves the stream as it is. Times are naturals; two
stamps of one pass may be equal (`Ticks` contains 0), a commit takes longer than the
resolution of the clock. An id is a number, and rows are appended in any order of ids, as
random UUIDs are.

### SocialWrites

An attempt is an HTTP request; retries are attempts with the same key. `Lookup` is
`get_saved_response`, `Check` the handler's reads and refusals, `Commit` its flush, saved
response and commit or the integrity error, `Answer` the reply. An attempt that stops
anywhere is a crashed server or a lost connection. Payloads are compared as the hash does:
kind, target, text, which are the fields of the hashed dictionaries. Event, outbox row and
moderation signal are written with the row and never apart from it, so `rows` stands for
them all.

### AgentTurns

A request loads its agents (`Load`), then for each of them `Decide` (window reset, plan,
caps, blocked log) and `Record` (effect, log, charge), then `Commit`; `Fail` rolls back.
`mine` is the session's identity map: agents are read once, so a later turn of the same
request works on what was read at the start. `held` are agents whose row the session has
flushed. The cap of an agent is a constant per cohort that stands for
`_agent_hard_cap`: the smaller of budget times multiplier and the hard cap. Posts, replies,
escalations and DMs are "text"; a text turn that finds nobody to address is charged the
constant fallback (5), which is below the least cost of text (60). Likes and follows are
"link", with one row per agent. The log of a completed turn records which budget window it
was charged to; this column exists only in the model.

### ControlPlaneJobs

A tick reads its experiment (`StartTick`), inserts its job or marks a named one as running
(`Claim`), inserts the injection, activates a draft and reads the agents (`Inject`), and
stores agents, metrics and the completed job (`Commit`). What it stores is computed from
what it read; the flushed job and the activated draft are `held`. Administrators create
injections, with or without `apply_now`, and apply stored ones whatever their state. A
failure rolls everything back (`Rollback`), also the status "failed", which
`fail_control_plane_job` only flushes: a stored job is always completed. A follow-up report
without a registered model always fails (`NoModel`). A job or injection is named by the
request that created it. The targets of an experiment are a constant. `level` counts the
changes an agent's numbers contain; `applied` are the events that tell of them. Additions
(belief, budget) and multiplications (cadence) are one increment; a scenario override,
which sets the same value again, is not modelled. `alone` is a history variable: no two
requests were in progress at once so far.

The workflow makes one call per tick. `Return` takes a result, `Retry` forgets a call that
failed, `GiveUp` one that took too long; the request of the latter goes on.

No activity names a job. Other callers of the internal routes may, and the code finds the row
by its identifier alone (`simulation.py:451`): neither `target_ref` nor `job_type` is compared
with the request. So a request of the model names a job of its own or any stored job
(`StoredJobs`), also one of another experiment, and turns, dispatches and calibrations, which
handle jobs in the same way, are requests of the kind "other", of which only the job row is
modelled here. Who completes a job that was another's overwrites its result. This bounds
what may be said of jobs. `JobsTellTheTruth`: a stored job is completed, with the result of a
request that worked on this very job, and a tick's result is an applied injection. It need
not be of the experiment the job was made for. `LastTickAgrees`: the last job and the last
injection an experiment names are those of one tick of its own; the job's result is this
injection, unless a tick of another experiment or other work took the job over since.

### AccountAccess

A request logs in, uses or ends a session, or acts for the development actor. `ReadInvite`
and `ReadAccount` are the two selects of `create_or_consume_invite` with their refusals,
`Grant` its flush with the commit of the route: the new account with the invite's count, or
the invite of an account that had none, and the session; or the integrity error of a handle
somebody took since. `ReadToken` is the lookup of a session, `Touch` and `Revoke` the
commits of a route that uses it and of `logout`; `last_used_at` is all that a use writes.
`ReadSubject` and `InsertActor` are `ensure_user_for_actor`. `Expire` lets the time of an
invite or session pass. Seeded accounts have no invite until their first login.

### PromptVersions and ModelRegistry

An edit of a prompt reads the latest number (`ReadLatest`), the active versions if it
activates its own (`ReadOthers`), and stores (`StoreVersion`) or fails on the unique number.
In the registry a version is trained on request or by the first listing; a promotion reads
the other active versions (`ReadActive`) and deprecates them (`Write`), writing only columns
that differ from what it read. `line` is a history variable: what a serial registry would
serve, in order. `Latest` is `latest_model_version`; time stamps are distinct, as the clock's
resolution makes them.

### WebClient

A click captures the session of the moment (a closure of React) and sends a call; the server
serves what is on the `wire` in any order, and the answers return in any order. `login`,
`createPost`, `submitGuess` and `createComment` go on with `refreshAll`, which replaces the
whole store or, if any of its reads fails, ends the session of the tab. Posts and follows are
shown before they are sent and taken back if they fail. `LoseAnswer` is a failed request,
which the server may still serve later; `Reload` forgets all calls and takes the token of the
local storage. The server half keeps who owns which session, which sessions ended, the posts
with their idempotency keys, and the follows; a repetition that collides with the first may
fail. The lists of one refresh are read at once: nothing relates one list to another. The
feed is taken to fit on a page and to pass moderation. `since` and `inOrder` are history
variables: whether a refresh overtook a call, or a call outlived its session.

### FeedPages, GuessGame, Factions

`SelectRows` is the select behind the cursor with its LIMIT of twice the page, `Answer` the
ranking, the log rows and the page; scores are any numbers, since every factor of them is
read anew. Posts come into sight at any time stamp (`Publish`), as stamps are taken before
commits. A guess reads the player's earlier guess and inserts or updates; an update writes
the columns that differ. A rebuild of the factions reads agents and factions, flushes the
missing ones one by one, waiting for another session that holds the name, and assigns what it
read; agents are created and moved meanwhile.

In `MCClients` and `MCDiscovery` the next-state relation is a disjunction in which one module
moves while the others are in an initial state: they share no rows, so that their product
would only multiply states.

## Runs

| Run | Instance | Shows |
|---|---|---|
| `outbox_one` | 3 events, 1 worker, consume batch 1, relay batch 2, one crash, Redis failing at will, ties | no event is lost, skipped or doubled; every event settles; `EventDelivery` is implemented |
| `outbox_two` | 2 events, 2 workers | what is published is in the stream, marks are never ahead of the stream, no projection of what was not published, the count never ahead of the projections |
| `outbox_missed` | as `outbox_two`, ends in a violation | an event whose pass waited for locks is never projected |
| `social` | 2 accounts, 6 requests: doubled like, like without key, repeated comment, forbidden request under a used key | one effect per key, agreeing answers, bounded counters; `IdempotentService` is implemented |
| `social_likes` | the same, ends in a violation | two concurrent likes are counted once |
| `turns_serial` | 2 agents, 3 requests one at a time, 2 days | budget = ledger; agent and cohort caps hold |
| `turns_race` | 2 agents, 2 overlapping requests, 2 days, one cohort move | what holds under overlap |
| `jobs` | a workflow of 2 ticks (3 calls), 2 client requests, 2 at once, one failure or time-out, a draft and an active experiment, one without a model, nested cohorts | any stored job may be taken over; visible jobs are complete, with the result of a request that worked on them; an experiment names job and injection of one tick; counts never exceed what happened and are exact without overlap; results are distinct ticks and only given-up calls tick more; the workflow gets its results |
| `turns_overlap` | 2 overlapping requests, ends in a violation | the hard cap does not hold under overlap |
| `access` | 4 requests, 2 at a time; 2 free handles, a seeded and a disabled one; invites for one and for two; one expiry | use counts stay within `max_uses` and within the accounts admitted, and are exact without overlap; an account keeps the invite that admitted it; a session that ended serves nobody who comes later |
| `clients` | 4 edits of a prompt; 4 registry requests, 3 at a time; 4 clicks of a tab that 2 members use, a publishable and an unpublishable text, one lost answer, expiry or reload | the active prompt is the newest stored as active; the version in service is determined, and is the one promoted last without overlap; a text is published at most once and what is reported as published is; no optimistic post stays, and unless answers overtake each other the tab shows its own session |
| `discovery` | 3 posts with 3 time stamps, pages of 1 or 2, one lost answer; 3 guesses of 2 players; 2 rebuilds of 2 agents with 2 moves | no post is skipped or doubled while scores fall with age; paging ends in any case; the score is what players were told; factions are stored, single, and follow beliefs without overlap |

Why the bounds are enough. Outbox: three events with batches of 1 and 2 give a split
batch, a tie across a batch boundary and a leftover; the crash is bounded at one because
a second one restarts from a state the first already reaches, up to the stream count. Two
workers with two events reach every overwriting order of marks and checkpoint. Social:
the hazards are pairs (two attempts with one key; two attempts on one counter; a key under
two payloads) and each pair is there, next to an independent attempt. Turns: caps of 5 and
6 against costs of 3, 2 and 1 allow one or two turns, so that reached, exceeded and
fallback all occur on both sides of the cap; two days give one midnight inside every
interval.

Access: a race needs two logins, its effect a third, and a session that is used while it is
ended three requests; the fourth is a bystander or a further login. Clients: three edits and
promotions are needed for a version deactivated by a request that did not see it; a tab needs
login, logout and another login for a late refresh of the first, or login, post, reload and
the post again. Discovery: three posts give a window of two pages with one post left over,
and ties within and across pages; two guesses race and a third finds the result; two rebuilds
race for a name while an agent moves.

Jobs: two requests at once, since every hazard is a pair: two ticks, a tick and an apply,
two users of one job id (of one experiment, of two, of two kinds), a given-up call and its retry. The third call is the retry of
either trouble.

Deadlock is checked for the outbox. In the other runs requests are finitely many
and the system may stop when all are done, so it is not; in the turns two requests that
wait for each other's rows are also broken up by the database, which is `Fail`.

Fairness. Three properties need it. For `EventuallySettled`, `FairSpec` has weak fairness of each worker's
steps. The consumer loops for ever (`services/event-consumer/app/main.py:7`), has no
`try`, and is restarted from outside when it dies; crashes (`MaxAborts`) are finitely
many. For `WorkflowFinishes`, requests that arrived go on, as threads of the server do,
and the workflow calls, returns and retries, as Temporal's default policy does without a
limit of attempts; failures and time-outs are finitely many (`MaxTroubles`), and the model
of the report exists. For `PagingEnds`, the server answers and the reader goes on asking
(`FeedFairness`), and lost answers are finitely many (`MaxLosses`); new posts are as many as
there are identifiers. Nothing else is assumed of clients, nothing of Redis.

### Findings

- `outbox_missed`: `published_at` is stamped at the mark, and visible only at the commit;
  overlapping passes can publish behind the checkpoint. The event stays out of every
  projection though the overview counts processed *published events*.
- `social_likes`: `post.like_count += 1` stores a value computed from a stale read; the post card's
  number of likes stays too small.
- `turns_overlap`: the daily hard cap is compared with, and charged to, a budget read
  earlier; a timed out activity and its retry overspend it.

## Proofs

TLAPS checks these for every value of the constants, from the ASSUMEd types of the
constants alone (TLC evaluates the assumptions in the runs). Every safety property of the
passing runs is a theorem, and so are both refinements. Each row names the inductive
invariant; TLC finds it to hold on the whole instance of the run that checks the property
(`PromptInv` and `FeedInv` with their `\E n \in Nat` bounded, as TLC cannot enumerate it).

| Theorem | Property | Argument |
|---|---|---|
| `OutboxPipelineProofs!TypeCorrect` | `TypeOK` | one lemma per action |
| `OutboxPipelineProofs!PublishedIsStreamed` | `PublishedMeansStreamed` | `StreamInv`: a worker's own mark "published" implies a stream entry already; the stream never shrinks |
| `OutboxPipelineProofs!OnlyPublishedIsProjected` | `ProjectedWasPublished` | `StampInv`: whoever sees a row as published sees the stamp of a pass, its own or a committed one |
| `OutboxPipelineProofs!CountIsNeverAhead` | `CountNeverAhead` | `CountInv`: the copies of the checkpoint that passes hold are not ahead either, and a pass adds to the count what it adds to the sum of the projections |
| `OutboxPipelineProofs!OneWorkerSkipsNothing`, `OneWorkerProjectsOnce` | `NothingSkipped`, `ProjectedOnce` | `OnceInv`: a published row was projected exactly if it is not beyond the checkpoint; stamps and checkpoint lie before the clock, so that what a pass marks lies beyond both |
| `OutboxPipelineProofs!OneWorkerResends` | `ResentOnlyAfterAbort` | `ResentInv`: a row the pass has not touched was sent at most once per abort |
| `OutboxPipelineProofs!OneWorkerDelivers` | `DeliveredExactlyOnce` | under `OnceInv` the commit of a pass maps to the step `Pass` of `EventDelivery`, `AppendEvent` to its `Record`, everything else to a stutter |
| `SocialWritesProofs!TypeCorrect` | `TypeOK` | |
| `SocialWritesProofs!OneEffectPerKey` | `EffectOncePerKey` | `KeyInv`: a committed row with a key has its saved response (`rows` and `saved` agree on keyed attempts), so the unique key refuses a second one |
| `SocialWritesProofs!AnswersAgreeAlways` | `AnswersAgree` | `KeyInv`: an attempt that answers "created" is in `rows`; one told another's result shares its key and payload |
| `SocialWritesProofs!RoutesImplementService` | `ImplementsService` | each step maps to `Perform`, `Tell` or a stutter under `KeyInv` |
| `SocialWritesProofs!CountersStayBounded` | `CountersBounded` | `CountInv`: a session has read a counter no greater than the rows committed so far, and rows are never removed |
| `AgentTurnsProofs!TypeCorrect` | `TypeOK` | needs that a request records only within its pass |
| `AgentTurnsProofs!SpentStaysWithinCap` | `SpentWithinCap` | `CapInv`: budgets of session objects are within a cap, and stay so with the cost of a decided turn; a fallback costs no more than the text it replaces |
| `AgentTurnsProofs!DispatchIsWhole` | `WholeRequest` | `FlushedInv`: the flushed logs of a request are those of the agents of its pass so far, one each |
| `AgentTurnsProofs!LinksAreMadeOnce` | `LinkedOnce` | `LinkInv`: what sessions have flushed is disjoint, and each flushed link has its one flushed log |
| `AgentTurnsProofs!NobodyIsOvercharged` | `NeverOvercharged` | `BorneInv`: an object of a session claims no more than committed and flushed logs together bear out, and logs only become more |
| `AgentTurnsProofs!SerialBudgetIsLedger`, `SerialDailyCap` | `BudgetIsLedger`, `DailyCapHeld` | `LedgerInv`: the only running request sees budgets that balance with the logs it sees |
| `AgentTurnsProofs!SerialCohortCap` | `CohortCapHeld` | `CohortInv`: with the plan decided, the logs a request sees stay within the cohort cap |
| `ControlPlaneJobsProofs!TypeCorrect` | `TypeOK` | part of `JobInv`; no stored job is "failed" |
| `ControlPlaneJobsProofs!JobsAlwaysTellTheTruth` | `JobsTellTheTruth` | `JobInv`: a request in progress works on a row that is its own or is stored (`WorkOK`); what is stored was stored by requests that are done (`StoredByDone`), so that nothing in progress can take it back. It assumes nothing of whose job a request names |
| `ControlPlaneJobsProofs!LastTickAlwaysAgrees` | `LastTickAgrees` | `JobInv` has it as a conjunct: a tick that takes a job over changes the row and its experiment's record at once, and what was a tick of an experiment stays one; a result that is a tick of the same experiment was stored together with the record |
| `ControlPlaneJobsProofs!StateIsAlwaysHistory` | `StateIsHistory` | `JobInv`: only the request that creates an injection can leave it pending |
| `ControlPlaneJobsProofs!TicksAreCounted`, `LevelIsAlwaysHistory` | `TicksCounted`, `LevelIsHistory` | `HistoryInv`: the numbers a request has read are bounded by what was applied by then, and alone they are the stored ones |
| `ControlPlaneJobsProofs!ResultsAreAlwaysTicks` | `ResultsAreTicks` | `WorkflowInv`: calls that went on, are neither results nor the call the workflow waits for, were given up |
| `AccountAccessProofs!TypeCorrect` | `TypeOK` | with: a request in a login names an account and an invite |
| `AccountAccessProofs!SessionsEnd` | `NoUseAfterEnd` | `SessionInv`: a confirmed logout stays in the row, because no step makes a revoked session live; who comes late has not passed the lookup |
| `AccountAccessProofs!InvitesAreForLife` | `OneInviteForLife` | `RowInv`: the row of an account that a login created never changes; a login about to grant knows it (`GrantReads`), and alone it knows every row (`AloneReads`) |
| `AccountAccessProofs!InviteUsesAlwaysBounded` | `InviteUsesBounded` | `CountInv`: the count a login read is at most the number of accounts admitted so far, which never falls; alone it is the stored count |
| `ClientsProofs!PromptTypeCorrect` | `PromptTypeOK` | |
| `ClientsProofs!PromptsAlwaysInOrder` | `PromptsInOrder` | `PromptInv`: the numbers are 1 .. n and a busy request holds one of 1 .. n+1; an activating request whose number is still free has read every active version, and it deactivates what it read |
| `ClientsProofs!ServiceIsAlwaysWellDefined` | `ServiceWellDefined` | `RegistryInv`: stamps of versions and of requests are all different, up to the clock; alone, a request knows the state of its version and every active one, and `line` lists the active versions by their stamps |
| `ClientsProofs!TextsArePublishedOnce` | `PublishedOnce` | `WebInv`: keys of posts are unique and stand for author and text; the answer to a post is given when it is stored, and a session, once granted, never changes its account |
| `ClientsProofs!StoreAlwaysFollowsSession` | `StoreFollowsSession` | `WebInv`: drafts belong to calls under way; in order, what is not shown yet will be brought by a refresh of the session that is under way, and each refresh that was served too early has a later one behind it |
| `DiscoveryProofs!FeedIsAlwaysComplete` | `FeedComplete` | `FeedInv`: what was shown lies before the cursor and the window behind it; what was public at first is shown, in the window, or older than a full window |
| `DiscoveryProofs!ScoreIsAlwaysWhatWasAnswered` | `ScoreIsWhatWasAnswered` | `GuessInv`: there is one row for each pair that was answered; a verdict that was read fits the guess that was read, so an update that writes one column does not break the other |
| `DiscoveryProofs!FactionsAlwaysFollow` | `FactionsFollowBeliefs` | `FactionsInv`: names a rebuild knows are stored or its own; alone it has read the agents that are settled as they are |

Three groups have a hypothesis besides the types. `OneWorker` (one member of `Workers`) is
the deployment with the event consumer alone; `outbox_missed` refutes the same claims for two.
`MaxRunning = 1` says that turn requests come one at a time; `turns_overlap` is the
counterexample without it. `MaxMoves = 0` keeps agents in their cohorts: the cohort cap is
compared with the present members' logs of the day, so that a move carries an agent's tokens
into a cohort that never planned for them. The runs that check these properties give their
constants the same values.

Notes on the invariants. `SpentWithinCap` is not inductive: a commit stores the session's
object, and that object was charged with a cost compared two steps before; `CapInv` covers the
objects and the decided plans. Nor is `BudgetIsLedger`, which says nothing of a request in the
middle of its pass: `LedgerInv` balances each object with the logs its own session sees,
flushed ones included, and the window of an object is the day of its last decision. In
`WebInv` the clause about refreshes needs their order: `Now` is later than every call under
way, hence a refresh that covers what was reported stands behind every older one, and the
closing of the older one cannot overtake it.

Sums and least elements. `Tokens` and the count of projections are folds over finite sets. Each
induction about them is the choice of a least counterexample from the library's theorem that
finite subsets are well-founded (`SumLemmas!LeastSubset`); `ClientsProofs!LeastNumber` does the
same for numbers (the latest `since`, the first occurrence in `line`). The passes of a dispatch
are assumed to be injective, as `run_agent_dispatch_job` takes its agents from one query
(`app/services/simulation.py:351-359`).

Only model-checked: the three liveness properties (`EventuallySettled`, `WorkflowFinishes`,
`PagingEnds`), since TLAPS knows neither ENABLED nor fairness as a hypothesis to reason from.
Of `EventDelivery` and `IdempotentService` the theorems show the safety part, which is all that
these specifications state.

## Not modelled

What the projections, the planner and the scoring compute (floating-point heuristics, a free
choice in the models); texts; memories, influence and the inference log of agents; reading
routes (threads, overview, public trends, `discover_accounts`); the snapshots and reports of
calibration jobs, rows nothing else changes (the jobs are modelled); schedules of the
Temporal client; the files of trained models and their metrics; `update_me` and the creation
of invites, which write one row each. Of the web client: likes, threads, notices and display.
The admin client, the metrics gauges, moderation and the HTTP wrappers of the planner and
the scoring are listed in `PROJECT.json` with the reason. The lag gauge
(`app/services/metrics.py:27`) measures the age of the last projected event and is no lag
while nothing is published; no step of the program reads it.

Two things that the models made visible and no run refutes, since no document speaks of
them: `last_followup_evaluation_id` (`app/services/simulation.py:484`) is set after the
flush that stored its dictionary and never written; and the composer takes 280 characters
(`apps/web/components/views.tsx:224`) where the key `post:` with the text must fit into 128
(`app/models/auth.py:58`), so that a longer post always fails on PostgreSQL. In `WebClient`
such a text is one that is not in `Keyable`.

## Plan

1. Proofs: what overlapping turns can overspend at most; that a workflow's given-up calls
   account exactly for its extra ticks.
2. Calibration snapshots; schedules.
3. The web client with two tabs that share the local storage; likes and their rollback.

A part gets one passing run, or a share in one, and one more where a document disagrees with
the code.
