------------------------- MODULE SocialWritesProofs -------------------------
(***************************************************************************)
(* Theorems about the writing routes for any attempts, accounts and keys.  *)
(***************************************************************************)
EXTENDS SocialWrites, FiniteSetTheorems, TLAPS

USE AttemptsAssumption

-----------------------------------------------------------------------------
(* Types.  A counter is only touched by an attempt whose target exists.      *)

WritersAllowed == \A a \in Attempts : pc[a] = "write" => Allowed(a)
TypeInv == TypeOK /\ WritersAllowed

LEMMA InitType == Init => TypeInv
  BY DEF Init, TypeInv, TypeOK, WritersAllowed, PCs, Replies

\* Finishing an attempt keeps the types and makes no new writer.
LEMMA FinishType ==
    ASSUME TypeInv, NEW a \in Attempts, NEW kind \in Replies,
           NEW of \in Attempts \cup {Nobody}, Finish(a, kind, of)
    PROVE  /\ pc' \in [Attempts -> PCs]
           /\ reply' \in [Attempts -> [kind : Replies, of : Attempts \cup {Nobody}]]
           /\ WritersAllowed'
  BY DEF TypeInv, TypeOK, WritersAllowed, Finish, PCs, Allowed

LEMMA NextType == TypeInv /\ [Next]_vars => TypeInv'
<1> SUFFICES ASSUME TypeInv, [Next]_vars PROVE TypeInv'
  OBVIOUS
<1>1. ASSUME NEW a \in Attempts, Lookup(a) PROVE TypeInv'
  <2>1. CASE \E b \in saved : Finish(a, "replayed", b) \/ Finish(a, "error", Nobody)
    BY <1>1, <2>1, FinishType DEF Lookup, TypeInv, TypeOK, Replies, tables
  <2>2. CASE pc' = [pc EXCEPT ![a] = "check"] /\ UNCHANGED reply
    BY <1>1, <2>2 DEF Lookup, TypeInv, TypeOK, WritersAllowed, Allowed, PCs, tables
  <2>. QED  BY <1>1, <2>1, <2>2 DEF Lookup
<1>2. ASSUME NEW a \in Attempts, Check(a) PROVE TypeInv'
  <2>1. CASE (Finish(a, "refused", Nobody) \/ Finish(a, "already", Nobody)) /\ UNCHANGED seen
    BY <1>2, <2>1, FinishType DEF Check, TypeInv, TypeOK, Replies, tables
  <2>2. CASE /\ Allowed(a)
             /\ seen' = IF Request[a].kind \in Counted
                        THEN [seen EXCEPT ![a] = count[Request[a].kind][Request[a].target]]
                        ELSE seen
             /\ pc' = [pc EXCEPT ![a] = "write"]
             /\ UNCHANGED reply
    <3>1. Request[a].kind \in Counted =>
              count[Request[a].kind][Request[a].target] \in Nat
      BY <2>2 DEF Allowed, Counted, TypeInv, TypeOK
    <3>. QED  BY <1>2, <2>2, <3>1 DEF Check, TypeInv, TypeOK, WritersAllowed, Allowed, PCs,
              tables
  <2>. QED  BY <1>2, <2>1, <2>2 DEF Check
<1>3. ASSUME NEW a \in Attempts, Commit(a) PROVE TypeInv'
  <2>1. CASE Finish(a, "error", Nobody) /\ UNCHANGED tables
    BY <1>3, <2>1, FinishType DEF Commit, TypeInv, TypeOK, Replies, tables
  <2>2. CASE /\ rows' = rows \cup {a}
             /\ saved' = saved \cup Persisted(a)
             /\ count' = Counters(a)
             /\ pc' = [pc EXCEPT ![a] = "answer"]
             /\ UNCHANGED reply
    <3>1. Counters(a) \in [Counted -> [Targets -> Nat]]
      <4>1. CASE Request[a].kind \in Counted
        <5>1. seen[a] + 1 \in Nat
          BY DEF TypeInv, TypeOK
        <5>2. [count[Request[a].kind] EXCEPT ![Request[a].target] = seen[a] + 1]
                 \in [Targets -> Nat]
          BY <4>1, <5>1 DEF TypeInv, TypeOK
        <5>. QED  BY <4>1, <5>2 DEF Counters, TypeInv, TypeOK
      <4>2. CASE Request[a].kind \notin Counted
        BY <4>2 DEF Counters, TypeInv, TypeOK
      <4>. QED  BY <4>1, <4>2
    <3>2. Persisted(a) \subseteq Attempts
      BY DEF Persisted
    <3>. QED  BY <1>3, <2>2, <3>1, <3>2 DEF Commit, TypeInv, TypeOK, WritersAllowed, Allowed,
              PCs
  <2>. QED  BY <1>3, <2>1, <2>2 DEF Commit
<1>4. ASSUME NEW a \in Attempts, Answer(a) PROVE TypeInv'
  BY <1>4, FinishType DEF Answer, TypeInv, TypeOK, Replies, tables
<1>5. CASE UNCHANGED vars
  BY <1>5 DEF vars, tables, TypeInv, TypeOK, WritersAllowed, Allowed
<1>. QED  BY <1>1, <1>2, <1>3, <1>4, <1>5 DEF Next

\* Every reachable state is well typed.
THEOREM TypeCorrect == Spec => []TypeOK
<1>1. TypeInv => TypeOK  BY DEF TypeInv
<1>. QED  BY <1>1, InitType, NextType, PTL DEF Spec

-----------------------------------------------------------------------------
(* One effect and one answer per key.  The strengthening: a keyed row is     *)
(* saved with it, an attempt that has not committed has no row, and every    *)
(* answer names a row that is the attempt's own or shares its key.           *)

SavedAreRows == saved \subseteq rows
KeyedAreSaved == \A a \in rows : Request[a].key # NoKey => a \in saved
OpenHasNoRow == \A a \in rows : pc[a] \in {"answer", "done"}
AnsweredIsRow == \A a \in Attempts : pc[a] = "answer" => a \in rows
AnswerNamesRow ==
    \A a \in Attempts : reply[a].of # Nobody =>
        /\ reply[a].of \in rows
        /\ SamePayload(a, reply[a].of)
        /\ reply[a].of = a \/ SameKey(a, reply[a].of)
OpenHasNoReply == \A a \in Attempts : pc[a] # "done" => reply[a].of = Nobody

KeyInv ==
    /\ TypeInv
    /\ SavedAreRows
    /\ KeyedAreSaved
    /\ OpenHasNoRow
    /\ AnsweredIsRow
    /\ AnswerNamesRow
    /\ OpenHasNoReply
    /\ EffectOncePerKey

LEMMA InitKey == Init => KeyInv
  BY InitType
     DEF Init, KeyInv, SavedAreRows, KeyedAreSaved, OpenHasNoRow, AnsweredIsRow,
         AnswerNamesRow, OpenHasNoReply, EffectOncePerKey

\* A step that finishes attempt a, open until now, and leaves the tables alone.
LEMMA FinishKey ==
    ASSUME KeyInv, NEW a \in Attempts, NEW kind, NEW of \in rows \cup {Nobody},
           Finish(a, kind, of), UNCHANGED tables, TypeInv',
           of # Nobody => /\ SamePayload(a, of)
                          /\ of = a \/ SameKey(a, of)
    PROVE  KeyInv'
<1>1. \A b \in Attempts : b # a => pc'[b] = pc[b] /\ reply'[b] = reply[b]
  BY DEF Finish, KeyInv, TypeInv, TypeOK
<1>2. pc'[a] = "done" /\ reply'[a] = [kind |-> kind, of |-> of]
  BY DEF Finish, KeyInv, TypeInv, TypeOK
<1>3. rows' = rows /\ saved' = saved /\ rows \subseteq Attempts
  BY DEF tables, KeyInv, TypeInv, TypeOK
<1>4. SavedAreRows' /\ KeyedAreSaved' /\ EffectOncePerKey'
  BY <1>3 DEF KeyInv, SavedAreRows, KeyedAreSaved, EffectOncePerKey, SameKey
<1>5. OpenHasNoRow' /\ AnsweredIsRow' /\ OpenHasNoReply'
  BY <1>1, <1>2, <1>3 DEF KeyInv, OpenHasNoRow, AnsweredIsRow, OpenHasNoReply
<1>6. AnswerNamesRow'
  BY <1>1, <1>2, <1>3 DEF KeyInv, AnswerNamesRow, SameKey
<1>. QED  BY <1>4, <1>5, <1>6 DEF KeyInv

\* A step that moves attempt a between two open stages before its commit.
LEMMA AdvanceKey ==
    ASSUME KeyInv, NEW a \in Attempts, NEW stage \in {"check", "write"},
           pc[a] \in {"lookup", "check"}, pc' = [pc EXCEPT ![a] = stage],
           UNCHANGED <<tables, reply>>, TypeInv'
    PROVE  KeyInv'
<1>1. \A b \in Attempts : b # a => pc'[b] = pc[b]
  BY DEF KeyInv, TypeInv, TypeOK
<1>2. pc'[a] = stage /\ a \notin rows /\ rows \subseteq Attempts
  BY DEF KeyInv, TypeInv, TypeOK, OpenHasNoRow
<1>3. rows' = rows /\ saved' = saved /\ reply' = reply
  BY DEF tables
<1>4. SavedAreRows' /\ KeyedAreSaved' /\ EffectOncePerKey' /\ AnswerNamesRow'
  BY <1>3 DEF KeyInv, SavedAreRows, KeyedAreSaved, EffectOncePerKey, AnswerNamesRow, SameKey
<1>5. OpenHasNoRow' /\ AnsweredIsRow' /\ OpenHasNoReply'
  BY <1>1, <1>2, <1>3 DEF KeyInv, OpenHasNoRow, AnsweredIsRow, OpenHasNoReply
<1>. QED  BY <1>4, <1>5 DEF KeyInv

\* The commit of attempt a when no unique constraint is taken.
LEMMA CommitKey ==
    ASSUME KeyInv, NEW a \in Attempts, pc[a] = "write", ~Taken(a),
           rows' = rows \cup {a}, saved' = saved \cup Persisted(a),
           pc' = [pc EXCEPT ![a] = "answer"], UNCHANGED reply, TypeInv'
    PROVE  KeyInv'
<1>1. \A b \in Attempts : b # a => pc'[b] = pc[b]
  BY DEF KeyInv, TypeInv, TypeOK
<1>2. pc'[a] = "answer" /\ a \notin rows /\ rows \subseteq Attempts
  BY DEF KeyInv, TypeInv, TypeOK, OpenHasNoRow
<1>3. \A b \in rows : ~SameKey(a, b) /\ ~SameKey(b, a)
  BY <1>2 DEF Taken, KeyInv, KeyedAreSaved, SameKey
<1>4. SavedAreRows' /\ KeyedAreSaved'
  BY DEF KeyInv, SavedAreRows, KeyedAreSaved, Persisted
<1>5. EffectOncePerKey'
  BY <1>3 DEF KeyInv, EffectOncePerKey, SameKey
<1>6. AnswerNamesRow'
  BY DEF KeyInv, AnswerNamesRow, SameKey
<1>7. OpenHasNoRow' /\ AnsweredIsRow' /\ OpenHasNoReply'
  BY <1>1, <1>2 DEF KeyInv, OpenHasNoRow, AnsweredIsRow, OpenHasNoReply
<1>. QED  BY <1>4, <1>5, <1>6, <1>7 DEF KeyInv

LEMMA NextKey == KeyInv /\ [Next]_vars => KeyInv'
<1> SUFFICES ASSUME KeyInv, [Next]_vars PROVE KeyInv'
  OBVIOUS
<1>0. TypeInv'
  BY NextType DEF KeyInv
<1>1. ASSUME NEW a \in Attempts, Lookup(a) PROVE KeyInv'
  <2>1. ASSUME NEW b \in saved, SameKey(a, b), SamePayload(a, b), Finish(a, "replayed", b)
        PROVE  KeyInv'
    <3>1. b \in rows
      BY DEF KeyInv, SavedAreRows
    <3>. QED  BY <1>0, <1>1, <2>1, <3>1, FinishKey DEF Lookup
  <2>2. CASE Finish(a, "error", Nobody)
    BY <1>0, <1>1, <2>2, FinishKey DEF Lookup
  <2>3. CASE pc' = [pc EXCEPT ![a] = "check"] /\ UNCHANGED reply
    BY <1>0, <1>1, <2>3, AdvanceKey DEF Lookup, tables
  <2>. QED  BY <1>1, <2>1, <2>2, <2>3 DEF Lookup
<1>2. ASSUME NEW a \in Attempts, Check(a) PROVE KeyInv'
  <2>1. CASE Finish(a, "refused", Nobody) \/ Finish(a, "already", Nobody)
    BY <1>0, <1>2, <2>1, FinishKey DEF Check
  <2>2. CASE pc' = [pc EXCEPT ![a] = "write"] /\ UNCHANGED reply
    BY <1>0, <1>2, <2>2, AdvanceKey DEF Check, tables
  <2>. QED  BY <1>2, <2>1, <2>2 DEF Check
<1>3. ASSUME NEW a \in Attempts, Commit(a) PROVE KeyInv'
  <2>1. CASE Taken(a)
    BY <1>0, <1>3, <2>1, FinishKey DEF Commit
  <2>2. CASE ~Taken(a)
    BY <1>0, <1>3, <2>2, CommitKey DEF Commit
  <2>. QED  BY <2>1, <2>2
<1>4. ASSUME NEW a \in Attempts, Answer(a) PROVE KeyInv'
  <2>1. a \in rows /\ SamePayload(a, a)
    BY <1>4 DEF Answer, KeyInv, AnsweredIsRow, SamePayload
  <2>. QED  BY <1>0, <1>4, <2>1, FinishKey DEF Answer
<1>5. CASE UNCHANGED vars
  BY <1>0, <1>5
     DEF vars, tables, KeyInv, SavedAreRows, KeyedAreSaved, OpenHasNoRow, AnsweredIsRow,
         AnswerNamesRow, OpenHasNoReply, EffectOncePerKey, SameKey
<1>. QED  BY <1>1, <1>2, <1>3, <1>4, <1>5 DEF Next

LEMMA KeyInvariant == Spec => []KeyInv
  BY InitKey, NextKey, PTL DEF Spec

\* However attempts race or repeat, one key of one actor takes effect once.
THEOREM OneEffectPerKey == Spec => []EffectOncePerKey
<1>1. KeyInv => EffectOncePerKey  BY DEF KeyInv
<1>. QED  BY <1>1, KeyInvariant, PTL

\* Every answer is that of a committed row which asked the same, and the answers
\* under one key agree.
THEOREM AnswersAgreeAlways == Spec => []AnswersAgree
<1>1. KeyInv => AnswersAgree
  <2> SUFFICES ASSUME KeyInv, NEW a \in Attempts, NEW b \in Attempts,
                      reply[a].of # Nobody
               PROVE  /\ reply[a].of \in rows
                      /\ \A field \in {"actor", "kind", "target", "text"} :
                             Request[reply[a].of][field] = Request[a][field]
                      /\ SameKey(a, b) /\ reply[b].of # Nobody => reply[a].of = reply[b].of
    BY DEF AnswersAgree
  <2>1. /\ reply[a].of \in rows
        /\ Request[reply[a].of].actor = Request[a].actor
        /\ Request[reply[a].of].kind = Request[a].kind
        /\ Request[reply[a].of].target = Request[a].target
        /\ Request[reply[a].of].text = Request[a].text
    BY DEF KeyInv, AnswerNamesRow, SameKey, SamePayload
  <2>2. ASSUME SameKey(a, b), reply[b].of # Nobody PROVE reply[a].of = reply[b].of
    BY <2>2 DEF KeyInv, AnswerNamesRow, EffectOncePerKey, SameKey
  <2>. QED  BY <2>1, <2>2
<1>. QED  BY <1>1, KeyInvariant, PTL

-----------------------------------------------------------------------------
(* The routes implement IdempotentService.                                   *)

\* Attempts of one slot are one attempt or share a key.
LEMMA SlotShared ==
    ASSUME NEW a \in Attempts, NEW b \in Attempts
    PROVE  /\ SameKey(a, b) => Slot[b] = Slot[a]
           /\ Slot[b] = Slot[a] => a = b \/ SameKey(a, b)
  BY DEF Slot, SameKey

AllSlots == {Slot[a] : a \in Attempts}
Effects == [s \in AllSlots |-> {a \in rows : Slot[a] = s}]
Told == [a \in Attempts |-> reply[a].of]

LEMMA InitService == Init => Service!Init
  BY DEF Init, Service!Init

\* An attempt that ends without being given a result changes nothing outside.
LEMMA FinishSilent ==
    ASSUME KeyInv, NEW a \in Attempts, pc[a] # "done", NEW kind, Finish(a, kind, Nobody),
           UNCHANGED tables
    PROVE  UNCHANGED <<Effects, Told>>
  BY DEF KeyInv, TypeInv, TypeOK, OpenHasNoReply, Finish, tables, Effects, Told

\* An attempt that is given the result of a row in its slot is told that one's.
LEMMA FinishTells ==
    ASSUME KeyInv, NEW a \in Attempts, pc[a] # "done", NEW kind, NEW b \in rows,
           Slot[b] = Slot[a], Finish(a, kind, b), UNCHANGED tables
    PROVE  Service!Tell(a)
<1>1. reply \in [Attempts -> [kind : Replies, of : Attempts \cup {Nobody}]]
  BY DEF KeyInv, TypeInv, TypeOK
<1>2. Told[a] = Nobody
  BY DEF KeyInv, OpenHasNoReply, Told
<1>3. Told' = [Told EXCEPT ![a] = b]
  BY <1>1 DEF Finish, Told
<1>4. b \in Effects[Slot[a]]
  BY DEF Effects, AllSlots
<1>5. Effects' = Effects
  BY DEF Effects, tables
<1>. QED  BY <1>2, <1>3, <1>4, <1>5 DEF Service!Tell, Effects, Told, AllSlots

\* A commit is the first effect of its slot.
LEMMA CommitPerforms ==
    ASSUME KeyInv, NEW a \in Attempts, pc[a] = "write", ~Taken(a),
           rows' = rows \cup {a}, UNCHANGED reply
    PROVE  Service!Perform(a)
<1>1. rows \subseteq Attempts /\ a \notin rows
  BY DEF KeyInv, TypeInv, TypeOK, OpenHasNoRow
<1>2. \A b \in rows : Slot[b] # Slot[a]
  BY <1>1, SlotShared DEF Taken, KeyInv, KeyedAreSaved, SameKey
<1>3. Effects[Slot[a]] = {}
  BY <1>2 DEF Effects, AllSlots
<1>4. Effects' = [Effects EXCEPT ![Slot[a]] = {a}]
  <2>1. ASSUME NEW s \in AllSlots
        PROVE  {b \in rows' : Slot[b] = s} =
                   IF s = Slot[a] THEN {a} ELSE {b \in rows : Slot[b] = s}
    BY <1>1, <1>2
  <2>. QED  BY <2>1 DEF Effects, AllSlots
<1>5. Told' = Told
  BY DEF Told
<1>. QED  BY <1>3, <1>4, <1>5 DEF Service!Perform, Effects, Told, AllSlots

LEMMA NextService ==
    KeyInv /\ [Next]_vars => [Service!Next]_<<Effects, Told>>
<1> SUFFICES ASSUME KeyInv, [Next]_vars PROVE [Service!Next]_<<Effects, Told>>
  OBVIOUS
<1>1. ASSUME NEW a \in Attempts, Lookup(a) PROVE [Service!Next]_<<Effects, Told>>
  <2>1. ASSUME NEW b \in saved, SameKey(a, b), Finish(a, "replayed", b)
        PROVE  Service!Tell(a)
    <3>1. b \in rows /\ b \in Attempts
      BY DEF KeyInv, SavedAreRows, TypeInv, TypeOK
    <3>2. Slot[b] = Slot[a]
      BY <2>1, <3>1, SlotShared
    <3>. QED  BY <1>1, <2>1, <3>1, <3>2, FinishTells DEF Lookup
  <2>2. CASE Finish(a, "error", Nobody)
    BY <1>1, <2>2, FinishSilent DEF Lookup
  <2>3. CASE UNCHANGED reply
    BY <1>1, <2>3 DEF Lookup, tables, Effects, Told
  <2>. QED  BY <1>1, <2>1, <2>2, <2>3 DEF Lookup, Service!Next
<1>2. ASSUME NEW a \in Attempts, Check(a) PROVE UNCHANGED <<Effects, Told>>
  <2>1. CASE Finish(a, "refused", Nobody) \/ Finish(a, "already", Nobody)
    BY <1>2, <2>1, FinishSilent DEF Check
  <2>2. CASE UNCHANGED reply
    BY <1>2, <2>2 DEF Check, tables, Effects, Told
  <2>. QED  BY <1>2, <2>1, <2>2 DEF Check
<1>3. ASSUME NEW a \in Attempts, Commit(a) PROVE [Service!Next]_<<Effects, Told>>
  <2>1. CASE Taken(a)
    BY <1>3, <2>1, FinishSilent DEF Commit
  <2>2. CASE ~Taken(a)
    BY <1>3, <2>2, CommitPerforms DEF Commit, Service!Next
  <2>. QED  BY <2>1, <2>2
<1>4. ASSUME NEW a \in Attempts, Answer(a) PROVE Service!Tell(a)
  BY <1>4, FinishTells DEF Answer, KeyInv, AnsweredIsRow
<1>5. CASE UNCHANGED vars
  BY <1>5 DEF vars, tables, Effects, Told
<1>. QED  BY <1>1, <1>2, <1>3, <1>4, <1>5 DEF Next, Service!Next

\* Every behaviour of the writing routes is one of the idempotent service.
THEOREM RoutesImplementService == Spec => ImplementsService
<1>1. [Service!Next]_<<Effects, Told>> => [Service!Next]_(Service!vars)
  BY DEF Effects, Told, AllSlots, Service!vars
<1>. QED  BY <1>1, InitService, NextService, KeyInvariant, PTL
          DEF Spec, ImplementsService, Service!Spec

-----------------------------------------------------------------------------
(* Counters.  A writer's session has read a counter no greater than the      *)
(* number of rows it counts, and rows are never removed.                     *)

SeenBounded ==
    \A a \in Attempts : pc[a] = "write" /\ Request[a].kind \in Counted =>
        seen[a] <= Cardinality(RowsOf(Request[a].kind, Request[a].target))

CountInv == KeyInv /\ CountersBounded /\ SeenBounded

LEMMA InitCount == Init => CountInv
<1> SUFFICES ASSUME Init PROVE CountInv
  OBVIOUS
<1>1. \A k, t : RowsOf(k, t) = {}
  BY DEF Init, RowsOf
<1>2. CountersBounded
  <2>1. \A k \in Counted, t \in Targets : count[k][t] = 0
    BY DEF Init
  <2>2. \A k, t : Cardinality(RowsOf(k, t)) = 0
    BY <1>1, FS_EmptySet, Zenon
  <2>. QED  BY <1>1, <2>1, <2>2 DEF CountersBounded
<1>. QED  BY <1>2, InitKey DEF Init, CountInv, SeenBounded

LEMMA RowsAreFinite ==
    ASSUME NEW R, R \subseteq Attempts, NEW S \in SUBSET R
    PROVE  IsFiniteSet(S) /\ Cardinality(S) \in Nat /\ IsFiniteSet(R) /\ Cardinality(R) \in Nat
           /\ Cardinality(S) <= Cardinality(R)
  BY FS_Subset, FS_CardinalityType

\* The commit of a row raises the number its own counter counts, and no other's.
LEMMA CommitRows ==
    ASSUME KeyInv, NEW a \in Attempts, a \notin rows, rows' = rows \cup {a}, NEW k, NEW t
    PROVE  Cardinality(RowsOf(k, t)') =
             IF Request[a].kind = k /\ Request[a].target = t
             THEN Cardinality(RowsOf(k, t)) + 1 ELSE Cardinality(RowsOf(k, t))
<1>1. IsFiniteSet(RowsOf(k, t)) /\ a \notin RowsOf(k, t)
  BY RowsAreFinite DEF KeyInv, TypeInv, TypeOK, RowsOf
<1>2. CASE Request[a].kind = k /\ Request[a].target = t
  <2>1. RowsOf(k, t)' = RowsOf(k, t) \cup {a}
    BY <1>2 DEF RowsOf
  <2>2. Cardinality(RowsOf(k, t) \cup {a}) = Cardinality(RowsOf(k, t)) + 1
    BY <1>1, FS_AddElement
  <2>3. Cardinality(RowsOf(k, t)') = Cardinality(RowsOf(k, t) \cup {a})
    BY <2>1, Zenon
  <2>. QED  BY <1>2, <2>2, <2>3
<1>3. CASE ~(Request[a].kind = k /\ Request[a].target = t)
  <2>1. RowsOf(k, t)' = RowsOf(k, t)
    BY <1>3 DEF RowsOf
  <2>. QED  BY <1>3, <2>1, Zenon
<1>. QED  BY <1>2, <1>3

LEMMA NextCount == CountInv /\ [Next]_vars => CountInv'
<1> SUFFICES ASSUME CountInv, [Next]_vars PROVE CountInv'
  OBVIOUS
<1>1. KeyInv' /\ KeyInv /\ TypeOK /\ WritersAllowed
  BY NextKey DEF CountInv, KeyInv, TypeInv
<1>2. \A k, t : Cardinality(RowsOf(k, t)) \in Nat
  <2>1. \A k, t : RowsOf(k, t) \in SUBSET Attempts
    BY <1>1 DEF RowsOf, TypeOK
  <2>. QED  BY <2>1, RowsAreFinite
<1>3. ASSUME UNCHANGED tables,
             \A a \in Attempts : pc'[a] = "write" /\ Request[a].kind \in Counted =>
                 \/ pc[a] = "write" /\ seen'[a] = seen[a]
                 \/ seen'[a] = count[Request[a].kind][Request[a].target]
                    /\ Request[a].target \in Targets
      PROVE  CountInv'
  <2>1. \A k, t : RowsOf(k, t)' = RowsOf(k, t)
    BY <1>3 DEF RowsOf, tables
  <2>2. \A k, t : Cardinality(RowsOf(k, t)') = Cardinality(RowsOf(k, t))
    BY <2>1, Zenon
  <2>3. CountersBounded'
    BY <1>3, <2>1, <2>2 DEF CountInv, CountersBounded, tables
  <2>4. SeenBounded'
    BY <1>3, <2>2 DEF CountInv, SeenBounded, CountersBounded
  <2>. QED  BY <1>1, <2>3, <2>4 DEF CountInv
<1>4. CASE (\E a \in Attempts : Lookup(a) \/ Answer(a)) \/ UNCHANGED vars
  <2>1. UNCHANGED <<tables, seen>> /\ \A b \in Attempts : pc'[b] = "write" => pc[b] = "write"
    BY <1>1, <1>4 DEF Lookup, Answer, Finish, vars, TypeOK
  <2>. QED  BY <1>3, <2>1
<1>5. ASSUME NEW a \in Attempts, Check(a) PROVE CountInv'
  <2>1. CASE Finish(a, "refused", Nobody) \/ Finish(a, "already", Nobody)
    <3>1. UNCHANGED <<tables, seen>> /\ \A b \in Attempts : pc'[b] = "write" => pc[b] = "write"
      BY <1>1, <1>5, <2>1 DEF Check, Finish, TypeOK, PCs
    <3>. QED  BY <1>3, <3>1
  <2>2. CASE /\ Allowed(a)
             /\ seen' = IF Request[a].kind \in Counted
                        THEN [seen EXCEPT ![a] = count[Request[a].kind][Request[a].target]]
                        ELSE seen
             /\ pc' = [pc EXCEPT ![a] = "write"]
    <3>1. UNCHANGED tables
      BY <1>5 DEF Check
    <3>2. \A b \in Attempts : b # a /\ pc'[b] = "write" => pc[b] = "write" /\ seen'[b] = seen[b]
      BY <1>1, <2>2 DEF TypeOK
    <3>3. Request[a].kind \in Counted =>
            seen'[a] = count[Request[a].kind][Request[a].target] /\ Request[a].target \in Targets
      BY <1>1, <2>2 DEF Allowed, Counted, TypeOK
    <3>. QED  BY <1>3, <3>1, <3>2, <3>3
  <2>. QED  BY <1>5, <2>1, <2>2 DEF Check
<1>6. ASSUME NEW a \in Attempts, Commit(a) PROVE CountInv'
  <2>1. CASE Taken(a)
    <3>1. UNCHANGED <<tables, seen>> /\ \A b \in Attempts : pc'[b] = "write" => pc[b] = "write"
      BY <1>1, <1>6, <2>1 DEF Commit, Finish, TypeOK
    <3>. QED  BY <1>3, <3>1
  <2>2. CASE ~Taken(a)
    <3> DEFINE k == Request[a].kind
               t == Request[a].target
    <3>1. /\ pc[a] = "write" /\ rows' = rows \cup {a} /\ count' = Counters(a)
          /\ pc' = [pc EXCEPT ![a] = "answer"] /\ UNCHANGED seen
      BY <1>6, <2>2 DEF Commit
    <3>2. a \notin rows
      BY <1>1, <3>1 DEF KeyInv, OpenHasNoRow
    <3>3. \A j, u : Cardinality(RowsOf(j, u)') =
            IF k = j /\ t = u THEN Cardinality(RowsOf(j, u)) + 1 ELSE Cardinality(RowsOf(j, u))
      BY <1>1, <3>1, <3>2, CommitRows
    <3>4. \A j, u : ~(k = j /\ t = u) => RowsOf(j, u)' = RowsOf(j, u)
      BY <3>1 DEF RowsOf
    <3>5. k \in Counted => t \in Targets
      BY <1>1, <3>1 DEF WritersAllowed, Allowed, Counted
    <3>6. \A j \in Counted, u \in Targets :
            count'[j][u] = IF k = j /\ t = u THEN seen[a] + 1 ELSE count[j][u]
      BY <1>1, <3>1, <3>5 DEF Counters, TypeOK
    <3>7. CountersBounded'
      <4> SUFFICES ASSUME NEW j \in Counted, NEW u \in Targets
                   PROVE  /\ count'[j][u] <= Cardinality(RowsOf(j, u)')
                          /\ RowsOf(j, u)' # {} => count'[j][u] >= 1
        BY DEF CountersBounded
      <4>1. CASE k = j /\ t = u
        <5>1. seen[a] \in Nat /\ seen[a] <= Cardinality(RowsOf(j, u))
          BY <1>1, <3>1, <4>1 DEF CountInv, SeenBounded, TypeOK
        <5>. QED  BY <1>2, <3>3, <3>6, <4>1, <5>1
      <4>2. CASE ~(k = j /\ t = u)
        <5>1. /\ count[j][u] <= Cardinality(RowsOf(j, u))
              /\ RowsOf(j, u) # {} => count[j][u] >= 1
          BY DEF CountInv, CountersBounded
        <5>. QED  BY <3>3, <3>4, <3>6, <4>2, <5>1
      <4>. QED  BY <4>1, <4>2
    <3>8. SeenBounded'
      <4> SUFFICES ASSUME NEW b \in Attempts, pc'[b] = "write", Request[b].kind \in Counted
                   PROVE  seen'[b] <= Cardinality(RowsOf(Request[b].kind, Request[b].target)')
        BY DEF SeenBounded
      <4>1. pc[b] = "write" /\ seen'[b] = seen[b] /\ seen[b] \in Nat
        BY <1>1, <3>1 DEF TypeOK
      <4>2. seen[b] <= Cardinality(RowsOf(Request[b].kind, Request[b].target))
        BY <4>1 DEF CountInv, SeenBounded
      <4>. QED  BY <1>2, <3>3, <4>1, <4>2
    <3>. QED  BY <1>1, <3>7, <3>8 DEF CountInv
  <2>. QED  BY <2>1, <2>2
<1>. QED  BY <1>4, <1>5, <1>6 DEF Next

\* Racing attempts may lose increments of a counter but never all of them, and the
\* counter never runs ahead of its rows (reply_count, like_count and repost_count are
\* written as the value the session read, plus one).
THEOREM CountersStayBounded == Spec => []CountersBounded
<1>1. CountInv => CountersBounded  BY DEF CountInv
<1>. QED  BY <1>1, InitCount, NextCount, PTL DEF Spec

=============================================================================
