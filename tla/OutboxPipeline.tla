--------------------------- MODULE OutboxPipeline ---------------------------
(***************************************************************************)
(* The transactional outbox and the projection consumer.                   *)
(*                                                                         *)
(* A request handler commits its domain rows, one events row and one       *)
(* pending outbox_messages row together (events.py).  Pipeline workers --  *)
(* the event-consumer process and the admin route that runs a cycle --     *)
(* then repeat, each pass inside one database transaction: select pending  *)
(* rows, XADD each to the Redis stream and mark it, load the consumer      *)
(* checkpoint, select the published rows beyond it, project them, commit.  *)
(*                                                                         *)
(* The database runs at READ COMMITTED.  A SELECT sees committed rows and  *)
(* the worker's own writes and takes no lock; an UPDATE holds its row from *)
(* the flush to the end of the transaction and stores values computed by   *)
(* the session.  A write that no other read of the same transaction        *)
(* follows is therefore one step with the commit.  Redis is outside the    *)
(* transaction: an XADD stays when the transaction rolls back.             *)
(***************************************************************************)
EXTENDS Integers, FiniteSets, Functions

CONSTANTS
    Messages,      \* outbox rows, numbered by their id, which breaks ties in time
    Workers,       \* concurrent pipeline workers
    RelayBatch,    \* LIMIT of the relay's select
    ConsumeBatch,  \* LIMIT of the consumer's select
    Ticks,         \* how far the clock may move from one stamp to the next; 0 is a tie
    MaxAborts      \* bound: how many passes may crash or raise

ASSUME ConstantsAssumption ==
    /\ Messages \subseteq Nat \ {0} /\ IsFiniteSet(Messages)
    /\ RelayBatch \in Nat \ {0}
    /\ ConsumeBatch \in Nat \ {0}
    /\ Ticks \subseteq Nat
    /\ MaxAborts \in Nat

VARIABLES
    status,       \* outbox_messages.status; "absent" before the row is committed
    publishedAt,  \* outbox_messages.published_at, 0 while null
    lastError,    \* outbox_messages.last_error
    attempts,     \* outbox_messages.attempts
    checkpoint,   \* the consumer_checkpoints row
    processed,    \* how many committed passes projected the row
    stream,       \* how many entries of the Redis stream carry the row
    clock,        \* datetime.now(UTC)
    aborts,       \* passes rolled back by a crash or an exception so far
    pc,           \* where each worker is
    batch,        \* rows its relay selected
    client,       \* whether _build_redis_client returned a client
    outcome,      \* what its session wrote on each row of batch
    stamp,        \* the published_at its session wrote on each row
    inserting,    \* whether its transaction inserted the checkpoint row
    copy,         \* its session's checkpoint object
    rows          \* rows it projects in this pass

tables == <<status, publishedAt, lastError, attempts, checkpoint, processed>>
session == <<batch, client, outcome, stamp, inserting, copy, rows>>
vars == <<tables, stream, clock, aborts, pc, session>>

Statuses == {"absent", "pending", "published", "failed"}
Errors == {"none", "no-redis", "xadd"}
Outcomes == {"untouched", "published", "fallback", "failed"}
PCs == {"idle", "relay", "insert", "consume", "commit"}

\* No consumer_checkpoints row, and the row _checkpoint creates.
NoCheckpoint == [exists |-> FALSE, at |-> 0, id |-> 0, count |-> 0]
FreshCheckpoint == [exists |-> TRUE, at |-> 0, id |-> 0, count |-> 0]

\* Variant: a relay that would pick failed rows again.
PendingOrFailed == {m \in Messages : status[m] \in {"pending", "failed"}}

Pending == {m \in Messages : status[m] = "pending"}
Lesser(i, j) == IF i <= j THEN i ELSE j

\* The lexicographic order (published_at, id) the consumer reads in.
Precedes(at1, id1, at2, id2) == at1 < at2 \/ (at1 = at2 /\ id1 < id2)

\* Variant: a select that does not look at the status of the session's own rows.
SeesPublishedAnyMark(w, m) == m \in batch[w] \/ status[m] = "published"

\* What a select of worker w sees: committed values under its own flushed writes.
SeesPublished(w, m) ==
    IF m \in batch[w] THEN outcome[w][m] \in {"published", "fallback"}
                      ELSE status[m] = "published"
SeesAt(w, m) ==
    IF m \in batch[w] THEN stamp[w][m] ELSE publishedAt[m]

\* Variants: no tie-break by id, and a checkpoint row that is read again.
BeyondByTimeOnly(c, at, id) == c.at < at
BeyondOrAt(c, at, id) == ~Precedes(at, id, c.at, c.id)

\* The where-clause of the consumer's select.
Beyond(c, at, id) == Precedes(c.at, c.id, at, id)

Unread(w) == {m \in Messages : SeesPublished(w, m) /\ Beyond(copy[w], SeesAt(w, m), m)}

\* After its relay flush a worker holds the locks of its batch until it ends.
HoldsRows(v) == pc[v] \in {"insert", "consume", "commit"}

Init ==
    /\ status = [m \in Messages |-> "absent"]
    /\ publishedAt = [m \in Messages |-> 0]
    /\ lastError = [m \in Messages |-> "none"]
    /\ attempts = [m \in Messages |-> 0]
    /\ checkpoint = NoCheckpoint
    /\ processed = [m \in Messages |-> 0]
    /\ stream = [m \in Messages |-> 0]
    /\ clock = 1
    /\ aborts = 0
    /\ pc = [w \in Workers |-> "idle"]
    /\ batch = [w \in Workers |-> {}]
    /\ client = [w \in Workers |-> FALSE]
    /\ outcome = [w \in Workers |-> [m \in Messages |-> "untouched"]]
    /\ stamp = [w \in Workers |-> [m \in Messages |-> 0]]
    /\ inserting = [w \in Workers |-> FALSE]
    /\ copy = [w \in Workers |-> NoCheckpoint]
    /\ rows = [w \in Workers |-> {}]

\* A session ends: its identity map, writes and locks are gone.
Close(w) ==
    /\ pc' = [pc EXCEPT ![w] = "idle"]
    /\ batch' = [batch EXCEPT ![w] = {}]
    /\ client' = [client EXCEPT ![w] = FALSE]
    /\ outcome' = [outcome EXCEPT ![w] = [m \in Messages |-> "untouched"]]
    /\ stamp' = [stamp EXCEPT ![w] = [m \in Messages |-> 0]]
    /\ inserting' = [inserting EXCEPT ![w] = FALSE]
    /\ copy' = [copy EXCEPT ![w] = NoCheckpoint]
    /\ rows' = [rows EXCEPT ![w] = {}]

-----------------------------------------------------------------------------
(* The writers *)

\* A request that called append_event commits: event and outbox row appear.
AppendEvent(m) ==
    /\ status[m] = "absent"
    /\ status' = [status EXCEPT ![m] = "pending"]
    /\ UNCHANGED <<publishedAt, lastError, attempts, checkpoint, processed, stream, clock,
                   aborts, pc, session>>

-----------------------------------------------------------------------------
(* The relay *)

\* The select has a LIMIT and no ORDER BY: any rows of that number may come
\* back.  The ping that follows decides whether this pass has a client.
RelaySelect(w) ==
    /\ pc[w] = "idle"
    /\ \E B \in SUBSET Pending, up \in BOOLEAN :
         /\ Cardinality(B) = Lesser(RelayBatch, Cardinality(Pending))
         /\ batch' = [batch EXCEPT ![w] = B]
         /\ client' = [client EXCEPT ![w] = up]
    /\ pc' = [pc EXCEPT ![w] = "relay"]
    /\ UNCHANGED <<tables, stream, clock, aborts, outcome, stamp, inserting, copy, rows>>

\* Variant: an XADD whose exception is swallowed before the row is marked.
RelayResultsSwallowed(up) ==
    IF up THEN {<<"published", 1>>, <<"published", 0>>} ELSE {<<"fallback", 0>>}

\* What one turn of the loop can write on the row, with what reaches the stream.
\* Without a client the row counts as published, with a note; an XADD that
\* raises may have reached the stream all the same.
RelayResults(up) ==
    IF up THEN {<<"published", 1>>, <<"failed", 0>>, <<"failed", 1>>}
          ELSE {<<"fallback", 0>>}

\* One turn of the loop over the selected rows.
RelayRow(w, m) ==
    /\ pc[w] = "relay"
    /\ m \in batch[w]
    /\ outcome[w][m] = "untouched"
    /\ \E r \in RelayResults(client[w]) :
         /\ outcome' = [outcome EXCEPT ![w][m] = r[1]]
         /\ stream' = [stream EXCEPT ![m] = @ + r[2]]
         /\ IF r[1] = "failed"
            THEN UNCHANGED <<stamp, clock>>
            ELSE /\ stamp' = [stamp EXCEPT ![w][m] = clock]
                 /\ \E t \in Ticks : clock' = clock + t
    /\ UNCHANGED <<tables, aborts, pc, batch, client, inserting, copy, rows>>

-----------------------------------------------------------------------------
(* The consumer *)

\* The relay's flush waits for the row locks of the others, then _checkpoint
\* reads the row; if there is none it goes on to insert one.
LoadCheckpoint(w) ==
    /\ pc[w] = "relay"
    /\ \A m \in batch[w] : outcome[w][m] # "untouched"
    /\ \A v \in Workers \ {w} : HoldsRows(v) => batch[v] \cap batch[w] = {}
    /\ copy' = [copy EXCEPT ![w] = checkpoint]
    /\ pc' = [pc EXCEPT ![w] = IF checkpoint.exists THEN "consume" ELSE "insert"]
    /\ UNCHANGED <<tables, stream, clock, aborts, batch, client, outcome, stamp,
                   inserting, rows>>

\* The INSERT waits for another transaction's uncommitted one.  If that commits,
\* the key is taken: IntegrityError, and the whole pass is rolled back.
InsertCheckpoint(w) ==
    /\ pc[w] = "insert"
    /\ \A v \in Workers : ~inserting[v]
    /\ \/ /\ ~checkpoint.exists
          /\ inserting' = [inserting EXCEPT ![w] = TRUE]
          /\ copy' = [copy EXCEPT ![w] = FreshCheckpoint]
          /\ pc' = [pc EXCEPT ![w] = "consume"]
          /\ UNCHANGED <<batch, client, outcome, stamp, rows>>
       \/ /\ checkpoint.exists
          /\ Close(w)
    /\ UNCHANGED <<tables, stream, clock, aborts>>

\* Variant: the pass itself is counted along with its rows.
AdvanceCountingPass(c, n, at, id) ==
    [exists |-> TRUE, at |-> at, id |-> id, count |-> c.count + n + 1]

\* The session's checkpoint object after n rows, the last one at (at, id).
Advance(c, n, at, id) ==
    [exists |-> TRUE, at |-> at, id |-> id, count |-> c.count + n]

\* The ordered select beyond the checkpoint, and the loop that moves the
\* session's checkpoint object to the last row.
ConsumeSelect(w) ==
    /\ pc[w] = "consume"
    /\ \E R \in SUBSET Unread(w) :
         /\ Cardinality(R) = Lesser(ConsumeBatch, Cardinality(Unread(w)))
         /\ \A r \in R, u \in Unread(w) \ R :
              Precedes(SeesAt(w, r), r, SeesAt(w, u), u)
         /\ rows' = [rows EXCEPT ![w] = R]
         /\ \/ R = {} /\ UNCHANGED copy
            \/ \E last \in R :
                 /\ \A r \in R \ {last} :
                      Precedes(SeesAt(w, r), r, SeesAt(w, last), last)
                 /\ copy' = [copy EXCEPT ![w] =
                      Advance(@, Cardinality(R), SeesAt(w, last), last)]
    /\ pc' = [pc EXCEPT ![w] = "commit"]
    /\ UNCHANGED <<tables, stream, clock, aborts, batch, client, outcome, stamp,
                   inserting>>

\* Variant: the outcome is stored where the enumeration's value belongs.
NewStatusRaw(w, m) == IF m \in batch[w] THEN outcome[w][m] ELSE status[m]

\* The columns of a row after this session's UPDATE: only those it changed.
NewStatus(w, m) ==
    IF m \notin batch[w] THEN status[m]
    ELSE IF outcome[w][m] = "failed" THEN "failed" ELSE "published"
NewPublishedAt(w, m) ==
    IF m \in batch[w] /\ outcome[w][m] # "failed" THEN stamp[w][m] ELSE publishedAt[m]
NewLastError(w, m) ==
    IF m \notin batch[w] \/ outcome[w][m] = "published" THEN lastError[m]
    ELSE IF outcome[w][m] = "failed" THEN "xadd" ELSE "no-redis"
\* Every session read the row with no attempt: it was pending then.
NewAttempts(w, m) ==
    IF m \in batch[w] /\ outcome[w][m] = "failed" THEN 1 ELSE attempts[m]

\* The flush of the projections and the checkpoint, and the commit, which
\* takes longer than the resolution of the clock.
Commit(w) ==
    /\ pc[w] = "commit"
    /\ status' = [m \in Messages |-> NewStatus(w, m)]
    /\ publishedAt' = [m \in Messages |-> NewPublishedAt(w, m)]
    /\ lastError' = [m \in Messages |-> NewLastError(w, m)]
    /\ attempts' = [m \in Messages |-> NewAttempts(w, m)]
    /\ checkpoint' = IF rows[w] # {} \/ inserting[w] THEN copy[w] ELSE checkpoint
    /\ processed' = [m \in Messages |->
         IF m \in rows[w] THEN processed[m] + 1 ELSE processed[m]]
    /\ clock' = IF batch[w] = {} THEN clock ELSE clock + 1
    /\ Close(w)
    /\ UNCHANGED <<stream, aborts>>

\* The process dies or an exception escapes: the transaction rolls back, and
\* what XADD put on the stream stays there.
Abort(w) ==
    /\ pc[w] # "idle"
    /\ aborts < MaxAborts
    /\ aborts' = aborts + 1
    /\ Close(w)
    /\ UNCHANGED <<tables, stream, clock>>

-----------------------------------------------------------------------------
WorkerStep(w) ==
    \/ RelaySelect(w)
    \/ \E m \in Messages : RelayRow(w, m)
    \/ LoadCheckpoint(w)
    \/ InsertCheckpoint(w)
    \/ ConsumeSelect(w)
    \/ Commit(w)

Next ==
    \/ \E m \in Messages : AppendEvent(m)
    \/ \E w \in Workers : WorkerStep(w) \/ Abort(w)

Spec == Init /\ [][Next]_vars

\* The event consumer loops for ever and is restarted; crashes are finitely many.
FairSpec == Spec /\ \A w \in Workers : WF_vars(WorkerStep(w))

-----------------------------------------------------------------------------
(* Properties *)

Checkpoints == [exists : BOOLEAN, at : Nat, id : Messages \cup {0}, count : Nat]

TypeOK ==
    /\ status \in [Messages -> Statuses]
    /\ publishedAt \in [Messages -> Nat]
    /\ lastError \in [Messages -> Errors]
    /\ attempts \in [Messages -> 0..1]
    /\ checkpoint \in Checkpoints
    /\ processed \in [Messages -> Nat]
    /\ stream \in [Messages -> Nat]
    /\ clock \in Nat
    /\ aborts \in Nat
    /\ pc \in [Workers -> PCs]
    /\ batch \in [Workers -> SUBSET Messages]
    /\ client \in [Workers -> BOOLEAN]
    /\ outcome \in [Workers -> [Messages -> Outcomes]]
    /\ stamp \in [Workers -> [Messages -> Nat]]
    /\ inserting \in [Workers -> BOOLEAN]
    /\ copy \in [Workers -> Checkpoints]
    /\ rows \in [Workers -> SUBSET Messages]

\* A row that says it was published, with no note that Redis was away, is in
\* the stream: no crash, failed XADD or overwriting worker can lose the entry
\* behind a committed mark (relay_outbox_batch).
PublishedMeansStreamed ==
    \A m \in Messages :
        status[m] = "published" /\ lastError[m] = "none" => stream[m] >= 1

\* The checkpoint never passes a published row that no committed pass has
\* projected (consume_published_events).
NothingSkipped ==
    \A m \in Messages :
        /\ status[m] = "published"
        /\ ~Precedes(checkpoint.at, checkpoint.id, publishedAt[m], m)
        => processed[m] >= 1

\* The overview calls checkpoint.count the processed published events: when no
\* pass runs, nothing is pending and nothing lies beyond the checkpoint, every
\* published event has been projected.
CaughtUp ==
    /\ \A w \in Workers : pc[w] = "idle"
    /\ Pending = {}
    /\ \A m \in Messages : status[m] = "published" => ~Beyond(checkpoint, publishedAt[m], m)
CaughtUpMeansProcessed ==
    CaughtUp => \A m \in Messages : status[m] = "published" => processed[m] >= 1

\* Only what a committed pass published is projected, never a mark that was
\* rolled back or a row whose XADD failed.
ProjectedWasPublished ==
    \A m \in Messages : processed[m] >= 1 => publishedAt[m] # 0

\* Lost updates of the checkpoint can only make its count too small: it never
\* claims more projections than passes committed (consume_published_events).
CountNeverAhead == checkpoint.count <= SumFunctionOnSet(processed, Messages)

\* A row is projected at most once.
ProjectedOnce == \A m \in Messages : processed[m] <= 1

\* Only a pass that was rolled back makes the relay send a row again.
ResentOnlyAfterAbort == \A m \in Messages : stream[m] <= 1 + aborts

\* A committed event reaches the projections, unless its XADD failed: the row
\* is then dead, for no select ever picks a failed row again.
EventuallySettled ==
    \A m \in Messages :
        status[m] = "pending" ~> (status[m] = "failed" \/ processed[m] >= 1)

\* The promise of EventDelivery, kept when one worker runs at a time.
Delivery == INSTANCE EventDelivery WITH
    recorded <- {m \in Messages : status[m] # "absent"},
    published <- {m \in Messages : status[m] = "published"},
    dead <- {m \in Messages : status[m] = "failed"},
    projected <- {m \in Messages : processed[m] >= 1},
    total <- checkpoint.count

DeliveredExactlyOnce == Delivery!Spec
=============================================================================
