---------------------------- MODULE SocialWrites ----------------------------
(***************************************************************************)
(* The writing routes of social.py and the idempotency keys that guard     *)
(* them: posts, comments, likes, reposts, follows and direct messages.     *)
(*                                                                         *)
(* One attempt is one HTTP request.  Clients repeat requests after a lost  *)
(* reply or before the first one has ended, so several attempts may carry  *)
(* the same key.  Every handler runs in one READ COMMITTED transaction:    *)
(* look for a saved response; read the target, its counter and an existing *)
(* row; flush the new row, the counter, the event and the saved response;  *)
(* commit; answer.  Nothing is read after the flush, and a duplicate key   *)
(* waits there for the transaction that holds it, so the flush and the     *)
(* commit are one step, at which the unique constraints hold.              *)
(*                                                                         *)
(* Nothing is fair here.  A server or a connection that goes away is an    *)
(* attempt that takes no further step: before its commit it leaves nothing *)
(* behind, after it the row stays and the client never hears of it.        *)
(***************************************************************************)
EXTENDS Naturals, FiniteSets

CONSTANTS
    Attempts,   \* HTTP requests, retries included
    Request,    \* what each attempt asks: actor, key, kind, target and text
    Targets,    \* the posts and accounts that exist
    NoKey,      \* no Idempotency-Key header
    Nobody      \* no attempt

Kinds == {"post", "comment", "like", "repost", "follow", "dm"}

ASSUME AttemptsAssumption ==
    /\ IsFiniteSet(Attempts)
    /\ Nobody \notin Attempts
    /\ \A a \in Attempts : Request[a].kind \in Kinds

VARIABLES
    rows,   \* attempts whose row was committed, with its event and outbox message
    saved,  \* attempts whose response is in idempotency_keys
    count,  \* reply_count, like_count and repost_count of each target
    pc,     \* where each attempt is
    seen,   \* the counter its session read
    reply   \* what its client was told

tables == <<rows, saved, count>>
vars == <<tables, pc, seen, reply>>

\* The kinds that increment a counter of the target post, and those that a
\* unique constraint allows once for an actor and a target.
Counted == {"comment", "like", "repost"}
Unique == {"like", "repost", "follow"}

PCs == {"lookup", "check", "write", "answer", "done"}
Replies == {"none", "created", "replayed", "already", "refused", "error"}

\* The same actor and Idempotency-Key: the key of idempotency_keys.
SameKey(a, b) ==
    /\ Request[a].key # NoKey
    /\ Request[a].key = Request[b].key
    /\ Request[a].actor = Request[b].actor

\* Variant: the stored hash is not compared.
SamePayloadUnchecked(a, b) == TRUE

\* The request hash covers what is asked.
SamePayload(a, b) ==
    \A field \in {"kind", "target", "text"} : Request[a][field] = Request[b][field]

\* The key of likes, reposts and follows.
SameSlot(a, b) ==
    /\ Request[a].kind \in Unique
    /\ \A field \in {"actor", "kind", "target"} : Request[a][field] = Request[b][field]

\* A post has no target; everything else needs one, and nobody follows himself.
Allowed(a) ==
    \/ Request[a].kind = "post"
    \/ /\ Request[a].target \in Targets
       /\ Request[a].kind = "follow" => Request[a].target # Request[a].actor

Init ==
    /\ rows = {}
    /\ saved = {}
    /\ count = [k \in Counted |-> [t \in Targets |-> 0]]
    /\ pc = [a \in Attempts |-> "lookup"]
    /\ seen = [a \in Attempts |-> 0]
    /\ reply = [a \in Attempts |-> [kind |-> "none", of |-> Nobody]]

Finish(a, kind, of) ==
    /\ pc' = [pc EXCEPT ![a] = "done"]
    /\ reply' = [reply EXCEPT ![a] = [kind |-> kind, of |-> of]]

\* get_saved_response: a record with another hash raises, one with the same
\* hash is the answer.
Lookup(a) ==
    /\ pc[a] = "lookup"
    /\ \/ \E b \in saved :
            /\ SameKey(a, b)
            /\ IF SamePayload(a, b) THEN Finish(a, "replayed", b)
                                    ELSE Finish(a, "error", Nobody)
       \/ /\ \A b \in saved : ~SameKey(a, b)
          /\ pc' = [pc EXCEPT ![a] = "check"]
          /\ UNCHANGED reply
    /\ UNCHANGED <<tables, seen>>

\* The handler's reads: target, counter, existing row.
Check(a) ==
    /\ pc[a] = "check"
    /\ \/ ~Allowed(a) /\ Finish(a, "refused", Nobody) /\ UNCHANGED seen
       \/ /\ Allowed(a)
          /\ \E b \in rows : SameSlot(a, b)
          /\ Finish(a, "already", Nobody)
          /\ UNCHANGED seen
       \/ /\ Allowed(a)
          /\ \A b \in rows : ~SameSlot(a, b)
          /\ seen' = IF Request[a].kind \in Counted
                     THEN [seen EXCEPT ![a] = count[Request[a].kind][Request[a].target]]
                     ELSE seen
          /\ pc' = [pc EXCEPT ![a] = "write"]
          /\ UNCHANGED reply
    /\ UNCHANGED tables

\* Variant: an increment that is forgotten.
CountersUnbumped(a) == count

\* The counter column is stored as a value the session computed.
Counters(a) ==
    IF Request[a].kind \in Counted
    THEN [count EXCEPT ![Request[a].kind][Request[a].target] = seen[a] + 1]
    ELSE count

\* Variants: a handler that forgets persist_response, and a record that holds
\* the key without the response.
PersistedNothing(a) == {}
PersistedKeyOnly(a) == {Request[a].key}

\* persist_response, in the handler's own transaction.
Persisted(a) == IF Request[a].key = NoKey THEN {} ELSE {a}

\* A unique constraint another attempt has taken by now.
Taken(a) == (\E b \in rows : SameSlot(a, b)) \/ (\E b \in saved : SameKey(a, b))

\* Flush and commit, or an IntegrityError that rolls everything back.
Commit(a) ==
    /\ pc[a] = "write"
    /\ \/ /\ ~Taken(a)
          /\ rows' = rows \cup {a}
          /\ saved' = saved \cup Persisted(a)
          /\ count' = Counters(a)
          /\ pc' = [pc EXCEPT ![a] = "answer"]
          /\ UNCHANGED reply
       \/ Taken(a) /\ Finish(a, "error", Nobody) /\ UNCHANGED tables
    /\ UNCHANGED seen

Answer(a) ==
    /\ pc[a] = "answer"
    /\ Finish(a, "created", a)
    /\ UNCHANGED <<tables, seen>>

Next == \E a \in Attempts : Lookup(a) \/ Check(a) \/ Commit(a) \/ Answer(a)

Spec == Init /\ [][Next]_vars

-----------------------------------------------------------------------------
(* Properties *)

TypeOK ==
    /\ rows \subseteq Attempts
    /\ saved \subseteq Attempts
    /\ count \in [Counted -> [Targets -> Nat]]
    /\ pc \in [Attempts -> PCs]
    /\ seen \in [Attempts -> Nat]
    /\ reply \in [Attempts -> [kind : Replies, of : Attempts \cup {Nobody}]]

\* Whatever is repeated, raced or lost, one key of one actor takes effect once.
EffectOncePerKey == \A a, b \in rows : SameKey(a, b) => a = b

\* Whoever is given a result is given that of a committed row, for the actor, kind,
\* target and text it asked for; and two clients that were both given a result
\* under one key were given the same one.
AnswersAgree ==
    \A a, b \in Attempts :
        /\ reply[a].of # Nobody =>
               /\ reply[a].of \in rows
               /\ \A field \in {"actor", "kind", "target", "text"} :
                      Request[reply[a].of][field] = Request[a][field]
        /\ SameKey(a, b) /\ reply[a].of # Nobody /\ reply[b].of # Nobody
               => reply[a].of = reply[b].of

\* Racing attempts may lose increments of a counter, but never all of them,
\* and the counter never runs ahead of the rows it counts.
RowsOf(k, t) == {a \in rows : Request[a].kind = k /\ Request[a].target = t}
CountersBounded ==
    \A k \in Counted, t \in Targets :
        /\ count[k][t] <= Cardinality(RowsOf(k, t))
        /\ RowsOf(k, t) # {} => count[k][t] >= 1

\* What a post card shows as its likes is the number of its likes.
LikesShownAreLikes ==
    \A t \in Targets : count["like"][t] = Cardinality(RowsOf("like", t))

\* The promise of IdempotentService; an attempt without a key is on its own.
Slot == [a \in Attempts |->
    <<Request[a].actor, Request[a].key, IF Request[a].key = NoKey THEN a ELSE Nobody>>]
Service == INSTANCE IdempotentService WITH
    Slots <- {Slot[a] : a \in Attempts},
    SlotOf <- Slot,
    effects <- [s \in {Slot[a] : a \in Attempts} |-> {a \in rows : Slot[a] = s}],
    told <- [a \in Attempts |-> reply[a].of]

ImplementsService == Service!Spec
=============================================================================
