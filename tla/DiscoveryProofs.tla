--------------------------- MODULE DiscoveryProofs ---------------------------
(***************************************************************************)
(* Theorems about the factions, the guess game and the home feed, for any  *)
(* agents, accounts, posts and requests.                                   *)
(***************************************************************************)
EXTENDS FeedPages, GuessGame, Factions, FiniteSetTheorems, TLAPS

-----------------------------------------------------------------------------
(* Factions.  A rebuild assigns only factions that are stored or that it    *)
(* stores itself; alone, it has read where the settled agents belong and    *)
(* where they are.                                                          *)

Places == [Agents -> Signatures \cup {"none"}]

FactionsTypeOK ==
    /\ signature \in Places /\ faction \in Places
    /\ at \in [Rebuilds -> {"idle", "factions", "assign", "done"}]
    /\ seen \in [Rebuilds -> Places] /\ linked \in [Rebuilds -> Places]
    /\ stored \in SUBSET Signatures
    /\ known \in [Rebuilds -> SUBSET Signatures]
    /\ mine \in [Rebuilds -> SUBSET Signatures]
    /\ settled \in SUBSET Agents

NamesOK ==
    /\ \A a \in Agents : faction[a] \in stored \cup {"none"}
    /\ \A r, o \in Rebuilds : mine[r] \cap stored = {} /\ (r # o => mine[r] \cap mine[o] = {})
    /\ \A r \in Rebuilds : known[r] \subseteq stored \cup mine[r]

SettledOK ==
    /\ \A a \in settled : signature[a] # "none"
    /\ orderly =>
         /\ \A q, r \in Active : q = r
         /\ Active = {} => \A a \in settled : faction[a] = signature[a]
         /\ \A r \in Active : linked[r] = faction /\ \A a \in settled : seen[r][a] = signature[a]

FactionsInv == FactionsTypeOK /\ NamesOK /\ SettledOK

LEMMA FactionsInitInv == FactionsInit => FactionsInv
<1> SUFFICES ASSUME FactionsInit PROVE FactionsInv
  OBVIOUS
<1>1. Nobody \in Places /\ Active = {}
  BY DEF FactionsInit, Nobody, Places, Active
<1>2. FactionsTypeOK
  BY <1>1 DEF FactionsInit, FactionsTypeOK, Places
<1>3. NamesOK
  BY DEF FactionsInit, NamesOK, Nobody
<1>. QED  BY <1>1, <1>2, <1>3 DEF FactionsInit, FactionsInv, SettledOK

LEMMA MoveInv == ASSUME FactionsInv, NEW a \in Agents, Move(a) PROVE FactionsInv'
<1>1. PICK g \in Signatures \ {signature[a]} : signature' = [signature EXCEPT ![a] = g]
  BY DEF Move
<1>2. FactionsTypeOK'
  BY <1>1 DEF FactionsInv, FactionsTypeOK, Move, Places
<1>3. NamesOK'
  BY DEF FactionsInv, NamesOK, Move
<1>4. Active' = Active
  BY DEF Active, Move
<1>5. \A b \in settled' : b \in settled /\ b \in Agents /\ signature'[b] = signature[b]
  BY <1>1 DEF Move, FactionsInv, FactionsTypeOK, Places
<1>6. SettledOK'
  BY <1>4, <1>5 DEF FactionsInv, SettledOK, Move
<1>. QED  BY <1>2, <1>3, <1>6 DEF FactionsInv

LEMMA ReadAgentsInv == ASSUME FactionsInv, NEW r \in Rebuilds, ReadAgents(r) PROVE FactionsInv'
<1>1. /\ at' = [at EXCEPT ![r] = "factions"] /\ at[r] = "idle"
      /\ seen' = [seen EXCEPT ![r] = signature] /\ linked' = [linked EXCEPT ![r] = faction]
      /\ settled' = settled \cup {a \in Agents : signature[a] # "none"}
      /\ orderly' = (orderly /\ Active = {})
      /\ UNCHANGED <<signature, faction, stored, known, mine>>
  BY DEF ReadAgents
<1>2. FactionsTypeOK'
  BY <1>1 DEF FactionsInv, FactionsTypeOK
<1>3. NamesOK'
  BY <1>1 DEF FactionsInv, NamesOK
<1>4. SettledOK'
  <2>1. \A a \in settled' : signature'[a] # "none"
    BY <1>1 DEF FactionsInv, SettledOK
  <2>2. Active' = Active \cup {r}
    BY <1>1 DEF Active, FactionsInv, FactionsTypeOK
  <2>3. linked'[r] = faction' /\ seen'[r] = signature'
    BY <1>1 DEF FactionsInv, FactionsTypeOK
  <2>. QED  BY <1>1, <2>1, <2>2, <2>3 DEF SettledOK
<1>. QED  BY <1>2, <1>3, <1>4 DEF FactionsInv

LEMMA ReadFactionsInv == ASSUME FactionsInv, NEW r \in Rebuilds, ReadFactions(r) PROVE FactionsInv'
<1>1. /\ at' = [at EXCEPT ![r] = "assign"] /\ at[r] = "factions"
      /\ known' = [known EXCEPT ![r] = stored]
      /\ UNCHANGED <<signature, faction, stored, seen, linked, mine, settled, orderly>>
  BY DEF ReadFactions
<1>2. FactionsTypeOK'
  BY <1>1 DEF FactionsInv, FactionsTypeOK
<1>3. NamesOK'
  BY <1>1 DEF FactionsInv, FactionsTypeOK, NamesOK
<1>4. Active' = Active
  BY <1>1 DEF Active, FactionsInv, FactionsTypeOK
<1>. QED  BY <1>1, <1>2, <1>3, <1>4 DEF FactionsInv, SettledOK

LEMMA StoreFactionInv ==
    ASSUME FactionsInv, NEW r \in Rebuilds, NEW g \in Signatures, StoreFaction(r, g) PROVE FactionsInv'
<1>1. /\ known' = [known EXCEPT ![r] = @ \cup {g}] /\ mine' = [mine EXCEPT ![r] = @ \cup {g}]
      /\ g \notin stored /\ \A o \in Rebuilds : g \notin mine[o]
      /\ UNCHANGED <<signature, faction, stored, at, seen, linked, settled, orderly>>
  BY DEF StoreFaction
<1>2. FactionsTypeOK'
  BY <1>1 DEF FactionsInv, FactionsTypeOK
<1>3. NamesOK'
  BY <1>1 DEF FactionsInv, FactionsTypeOK, NamesOK
<1>. QED  BY <1>1, <1>2, <1>3 DEF FactionsInv, SettledOK, Active

LEMMA CommitFactionsInv == ASSUME FactionsInv, NEW r \in Rebuilds, CommitFactions(r) PROVE FactionsInv'
<1>1. /\ at[r] = "assign" /\ Missing(r) = {}
      /\ stored' = stored \cup mine[r] /\ faction' = [a \in Agents |-> Assigned(r, a)]
      /\ at' = [at EXCEPT ![r] = "done"] /\ seen' = [seen EXCEPT ![r] = Nobody]
      /\ linked' = [linked EXCEPT ![r] = Nobody] /\ known' = [known EXCEPT ![r] = {}]
      /\ mine' = [mine EXCEPT ![r] = {}] /\ UNCHANGED <<signature, settled, orderly>>
  BY DEF CommitFactions, CloseRebuild
<1>2. Nobody \in Places
  BY DEF Nobody, Places
<1>3. \A a \in Agents : Assigned(r, a) = faction[a] \/ Assigned(r, a) \in known[r]
  BY <1>1 DEF Missing, Members, Assigned
<1>4. \A a \in Agents : faction'[a] \in stored' \cup {"none"}
  BY <1>1, <1>3 DEF FactionsInv, NamesOK
<1>5. FactionsTypeOK'
  BY <1>1, <1>2, <1>4 DEF FactionsInv, FactionsTypeOK, Places
<1>6. NamesOK'
  <2>1. /\ \A o \in Rebuilds : o # r => mine'[o] = mine[o] /\ known'[o] = known[o]
        /\ mine'[r] = {} /\ known'[r] = {}
    BY <1>1 DEF FactionsInv, FactionsTypeOK
  <2>. QED  BY <1>1, <1>4, <2>1 DEF FactionsInv, NamesOK
<1>7. SettledOK'
  <2>1. Active' = Active \ {r} /\ r \in Active
    BY <1>1 DEF Active, FactionsInv, FactionsTypeOK
  <2>2. ASSUME orderly PROVE Active' = {} /\ \A a \in settled : faction'[a] = signature[a]
    <3>1. Active = {r} /\ linked[r] = faction /\ \A a \in settled : seen[r][a] = signature[a]
      BY <2>1, <2>2 DEF FactionsInv, SettledOK
    <3>2. ASSUME NEW a \in settled PROVE Assigned(r, a) = signature[a]
      <4>1. a \in Members(r) /\ a \in Agents
        BY <3>1 DEF Members, FactionsInv, FactionsTypeOK, SettledOK
      <4>. QED  BY <3>1, <4>1 DEF Assigned
    <3>. QED  BY <1>1, <2>1, <3>1, <3>2 DEF FactionsInv, FactionsTypeOK
  <2>. QED  BY <1>1, <2>2 DEF FactionsInv, SettledOK
<1>. QED  BY <1>5, <1>6, <1>7 DEF FactionsInv

LEMMA AbortRebuildInv == ASSUME FactionsInv, NEW r \in Rebuilds, AbortRebuild(r) PROVE FactionsInv'
<1>1. /\ r \in Active /\ settled' = {}
      /\ at' = [at EXCEPT ![r] = "done"] /\ seen' = [seen EXCEPT ![r] = Nobody]
      /\ linked' = [linked EXCEPT ![r] = Nobody] /\ known' = [known EXCEPT ![r] = {}]
      /\ mine' = [mine EXCEPT ![r] = {}] /\ UNCHANGED <<signature, faction, stored, orderly>>
  BY DEF AbortRebuild, CloseRebuild
<1>2. Nobody \in Places
  BY DEF Nobody, Places
<1>3. FactionsTypeOK'
  BY <1>1, <1>2 DEF FactionsInv, FactionsTypeOK
<1>4. NamesOK'
  BY <1>1 DEF FactionsInv, FactionsTypeOK, NamesOK
<1>5. Active' = Active \ {r}
  BY <1>1 DEF Active, FactionsInv, FactionsTypeOK
<1>6. SettledOK'
  BY <1>1, <1>5 DEF FactionsInv, SettledOK
<1>. QED  BY <1>3, <1>4, <1>6 DEF FactionsInv

LEMMA FactionsNextInv == FactionsInv /\ [FactionsNext]_factionVars => FactionsInv'
<1> SUFFICES ASSUME FactionsInv, [FactionsNext]_factionVars PROVE FactionsInv'
  OBVIOUS
<1>1. CASE UNCHANGED factionVars
  BY <1>1 DEF factionVars, FactionsInv, FactionsTypeOK, NamesOK, SettledOK, Active
<1>. QED  BY <1>1, MoveInv, ReadAgentsInv, ReadFactionsInv, StoreFactionInv, CommitFactionsInv,
             AbortRebuildInv DEF FactionsNext

\* However rebuilds and moves overlap, agents only ever refer to stored factions and no two
\* rebuilds store the same one; rebuilds one at a time leave every settled agent in the faction
\* of its signature.
THEOREM FactionsAlwaysFollow == FactionsSpec => []FactionsFollowBeliefs
<1>1. FactionsInv => FactionsFollowBeliefs
  BY DEF FactionsInv, NamesOK, SettledOK, FactionsFollowBeliefs
<1>. QED  BY <1>1, FactionsInitInv, FactionsNextInv, PTL DEF FactionsSpec

-----------------------------------------------------------------------------
(* The guess game.  There is one row for each pair of which a guess was      *)
(* answered.  What an update has read was a row of its pair, whose verdict   *)
(* fitted its guess; as there are two kinds of accounts, the update writes   *)
(* both columns or none.                                                     *)

Guesses == [pair : Pairs, guess : Kinds, correct : BOOLEAN]
Asks == [pair : Pairs, guess : Kinds]
Columns == [guess : Kinds \cup {"none"}, correct : BOOLEAN]

GuessTypeOK ==
    /\ kind \in [Accounts -> Kinds]
    /\ pc \in [Submissions -> {"idle", "read", "insert", "update", "done"}]
    /\ ask \in [Submissions -> Asks \cup {NoAsk}]
    /\ read \in [Submissions -> Columns]
    /\ last \in [Pairs -> Kinds \cup {"none"}]
    /\ rows \in SUBSET Guesses

RowsOK ==
    /\ IsFiniteSet(rows)
    /\ \A g, h \in rows : g.pair = h.pair => g = h
    /\ \A g \in rows : g.correct = (g.guess = kind[g.pair[2]])
    /\ \A k \in Pairs : last[k] # "none" <=> \E g \in rows : g.pair = k
    /\ apart => \A g \in rows : last[g.pair] = g.guess

SubmissionOK(s) ==
    /\ ask[s] \in Asks
    /\ apart /\ pc[s] = "insert" => RowsOf(ask[s].pair) = {}
    /\ pc[s] = "update" =>
         /\ RowsOf(ask[s].pair) # {}
         /\ read[s].guess \in Kinds
         /\ read[s].correct = (read[s].guess = kind[ask[s].pair[2]])
         /\ apart => \A g \in RowsOf(ask[s].pair) : read[s].guess = g.guess

GuessInv ==
    /\ GuessTypeOK
    /\ RowsOK
    /\ \A s \in Underway : SubmissionOK(s)
    /\ apart => \A s, o \in Underway : ask[s].pair = ask[o].pair => s = o

LEMMA GuessInitInv == GuessInit => GuessInv
<1> SUFFICES ASSUME GuessInit PROVE GuessInv
  OBVIOUS
<1>1. Underway = {}
  BY DEF GuessInit, Underway
<1>2. GuessTypeOK
  BY DEF GuessInit, GuessTypeOK, NoRow, Columns
<1>3. RowsOK
  BY FS_EmptySet DEF GuessInit, RowsOK
<1>. QED  BY <1>1, <1>2, <1>3 DEF GuessInv

LEMMA SubmitGuessInv ==
    ASSUME GuessInv, NEW s \in Submissions, NEW pair \in Pairs, NEW guess \in Kinds,
           SubmitGuess(s, pair, guess)
    PROVE  GuessInv'
<1>1. /\ pc[s] = "idle" /\ pc' = [pc EXCEPT ![s] = "read"]
      /\ ask' = [ask EXCEPT ![s] = [pair |-> pair, guess |-> guess]]
      /\ apart' = (apart /\ \A o \in Underway : ask[o].pair # pair)
      /\ UNCHANGED <<kind, rows, read, last>>
  BY DEF SubmitGuess
<1>2. GuessTypeOK'
  BY <1>1 DEF GuessInv, GuessTypeOK, Asks
<1>3. RowsOK'
  BY <1>1 DEF GuessInv, RowsOK
<1>4. /\ Underway' = Underway \cup {s} /\ s \notin Underway
      /\ \A o \in Submissions : o # s => pc'[o] = pc[o] /\ ask'[o] = ask[o]
      /\ pc'[s] = "read" /\ ask'[s] = [pair |-> pair, guess |-> guess]
      /\ Underway \subseteq Submissions
  BY <1>1 DEF GuessInv, GuessTypeOK, Underway
<1>5. ASSUME NEW o \in Underway' PROVE SubmissionOK(o)'
  <2>1. CASE o = s
    BY <1>4, <2>1 DEF SubmissionOK, Asks
  <2>2. CASE o # s
    <3>1. /\ o \in Underway /\ SubmissionOK(o) /\ pc'[o] = pc[o] /\ ask'[o] = ask[o]
          /\ read'[o] = read[o]
      BY <1>1, <1>4, <2>2 DEF GuessInv
    <3>. QED  BY <1>1, <3>1 DEF SubmissionOK, RowsOf
  <2>. QED  BY <2>1, <2>2
<1>6. apart' => \A o, q \in Underway' : ask'[o].pair = ask'[q].pair => o = q
  <2> SUFFICES ASSUME apart', NEW o \in Underway', NEW q \in Underway',
                      ask'[o].pair = ask'[q].pair
               PROVE  o = q
    OBVIOUS
  <2>1. ask'[s].pair = pair /\ \A i \in Underway : ask'[i].pair = ask[i].pair /\ ask[i].pair # pair
    <3>1. \A i \in Underway : ask[i].pair # pair
      BY <1>1
    <3>2. \A i \in Underway : ask'[i] = ask[i]
      BY <1>4
    <3>3. ask'[s].pair = pair
      BY <1>4
    <3>. QED  BY <3>1, <3>2, <3>3
  <2>2. \A i, j \in Underway : ask[i].pair = ask[j].pair => i = j
    BY <1>1 DEF GuessInv
  <2>3. CASE o = s
    BY <1>4, <2>1, <2>3
  <2>4. CASE o \in Underway
    BY <1>4, <2>1, <2>2, <2>4
  <2>. QED  BY <1>4, <2>3, <2>4
<1>. QED  BY <1>2, <1>3, <1>5, <1>6 DEF GuessInv

LEMMA ReadEarlierInv == ASSUME GuessInv, NEW s \in Submissions, ReadEarlier(s) PROVE GuessInv'
<1>1. /\ pc[s] = "read" /\ UNCHANGED <<kind, rows, ask, last, apart>> /\ s \in Underway
      /\ SubmissionOK(s)
  BY DEF ReadEarlier, Underway, GuessInv
<1>2. /\ GuessTypeOK' /\ \A o \in Submissions : o # s => pc'[o] = pc[o] /\ read'[o] = read[o]
      /\ Underway' = Underway /\ SubmissionOK(s)'
  <2>1. CASE RowsOf(ask[s].pair) = {}
    <3>1. pc' = [pc EXCEPT ![s] = "insert"] /\ read' = read
      BY <2>1 DEF ReadEarlier
    <3>2. GuessTypeOK'
      BY <1>1, <3>1 DEF GuessInv, GuessTypeOK
    <3>3. pc'[s] = "insert" /\ \A o \in Submissions : o # s => pc'[o] = pc[o]
      BY <3>1 DEF GuessInv, GuessTypeOK
    <3>4. SubmissionOK(s)'
      BY <1>1, <2>1, <3>3 DEF SubmissionOK, RowsOf
    <3>. QED  BY <1>1, <3>1, <3>2, <3>3, <3>4 DEF Underway
  <2>2. CASE RowsOf(ask[s].pair) # {}
    <3>1. PICK g \in RowsOf(ask[s].pair) :
             read' = [read EXCEPT ![s] = [guess |-> g.guess, correct |-> g.correct]]
      BY <2>2 DEF ReadEarlier
    <3>2. pc' = [pc EXCEPT ![s] = "update"]
      BY <2>2 DEF ReadEarlier
    <3>3. g \in Guesses /\ g \in rows /\ g.pair = ask[s].pair
      BY <3>1 DEF RowsOf, GuessInv, GuessTypeOK
    <3>4. GuessTypeOK'
      BY <1>1, <3>1, <3>2, <3>3 DEF GuessInv, GuessTypeOK, Columns, Guesses
    <3>5. /\ pc'[s] = "update" /\ read'[s] = [guess |-> g.guess, correct |-> g.correct]
          /\ \A o \in Submissions : o # s => pc'[o] = pc[o] /\ read'[o] = read[o]
      BY <3>1, <3>2 DEF GuessInv, GuessTypeOK
    <3>6. /\ read'[s].guess \in Kinds
          /\ read'[s].correct = (read'[s].guess = kind[ask[s].pair[2]])
          /\ \A h \in RowsOf(ask[s].pair) : read'[s].guess = h.guess
      BY <3>3, <3>5 DEF GuessInv, RowsOK, RowsOf, Guesses
    <3>7. SubmissionOK(s)'
      BY <1>1, <2>2, <3>5, <3>6 DEF SubmissionOK, RowsOf
    <3>. QED  BY <1>1, <3>4, <3>5, <3>7 DEF Underway
  <2>. QED  BY <2>1, <2>2
<1>3. RowsOK'
  BY <1>1 DEF GuessInv, RowsOK
<1>4. ASSUME NEW o \in Underway', o # s PROVE SubmissionOK(o)'
  <2>1. /\ o \in Underway /\ SubmissionOK(o) /\ pc'[o] = pc[o] /\ ask'[o] = ask[o]
        /\ read'[o] = read[o]
    BY <1>1, <1>2, <1>4 DEF GuessInv, Underway
  <2>. QED  BY <1>1, <2>1 DEF SubmissionOK, RowsOf
<1>. QED  BY <1>1, <1>2, <1>3, <1>4 DEF GuessInv

\* What the end of a submission leaves of the others, whose rows it may change only while
\* they are not apart.
LEMMA CloseGuessInv ==
    ASSUME GuessInv, NEW s \in Underway, CloseGuess(s), rows' \in SUBSET Guesses,
           last' \in [Pairs -> Kinds \cup {"none"}], RowsOK',
           \A k \in Pairs : RowsOf(k) # {} => RowsOf(k)' # {},
           \A k \in Pairs : k # ask[s].pair => RowsOf(k)' = RowsOf(k)
    PROVE  GuessInv'
<1>1. /\ s \in Submissions /\ pc' = [pc EXCEPT ![s] = "done"]
      /\ ask' = [ask EXCEPT ![s] = NoAsk]
      /\ read' = [read EXCEPT ![s] = NoRow] /\ UNCHANGED <<kind, apart>>
  BY DEF CloseGuess, Underway
<1>2. GuessTypeOK'
  BY <1>1 DEF GuessInv, GuessTypeOK, NoRow, Columns
<1>3. /\ Underway' = Underway \ {s}
      /\ \A o \in Submissions : o # s => pc'[o] = pc[o] /\ ask'[o] = ask[o] /\ read'[o] = read[o]
      /\ Underway \subseteq Submissions
  BY <1>1 DEF GuessInv, GuessTypeOK, Underway
<1>4. ASSUME NEW o \in Underway' PROVE SubmissionOK(o)'
  <2>1. /\ o \in Underway /\ o # s /\ SubmissionOK(o) /\ pc'[o] = pc[o] /\ ask'[o] = ask[o]
        /\ read'[o] = read[o]
    BY <1>3 DEF GuessInv
  <2>2. PICK k \in Pairs : k = ask[o].pair
    BY <2>1 DEF SubmissionOK, Asks
  <2>3. apart => k # ask[s].pair
    BY <2>1, <2>2 DEF GuessInv
  <2>4. apart => RowsOf(k)' = RowsOf(k)
    BY <2>3
  <2>5. (RowsOf(ask[o].pair))' = RowsOf(k)'
    BY <2>1, <2>2 DEF RowsOf
  <2>6. RowsOf(ask[o].pair) = RowsOf(k)
    BY <2>2 DEF RowsOf
  <2>7. k \in Pairs /\ (RowsOf(k) # {} => RowsOf(k)' # {})
    BY <2>2
  <2>. QED  BY <1>1, <2>1, <2>2, <2>4, <2>5, <2>6, <2>7 DEF SubmissionOK
<1>. QED  BY <1>1, <1>2, <1>3, <1>4 DEF GuessInv

LEMMA InsertGuessInv == ASSUME GuessInv, NEW s \in Submissions, InsertGuess(s) PROVE GuessInv'
<1>1. s \in Underway /\ SubmissionOK(s) /\ CloseGuess(s) /\ UNCHANGED <<kind, apart>>
  BY DEF InsertGuess, Underway, GuessInv, CloseGuess
<1>2. PICK k \in Pairs : k = ask[s].pair
  BY <1>1 DEF SubmissionOK, Asks
<1>3. CASE RowsOf(k) = {}
  <2> DEFINE g == [pair |-> ask[s].pair, guess |-> ask[s].guess, correct |-> Correct(s)]
  <2>1. rows' = rows \cup {g} /\ last' = [last EXCEPT ![k] = ask[s].guess]
    BY <1>2, <1>3 DEF InsertGuess, Answered
  <2>2. g \in Guesses /\ g.pair = k /\ g.guess = ask[s].guess /\ g.guess \in Kinds
        /\ g.correct = (g.guess = kind[g.pair[2]])
    BY <1>1, <1>2 DEF SubmissionOK, Asks, Guesses, Correct
  <2>. HIDE DEF g
  <2>3. \A h \in rows : h.pair # k
    BY <1>3 DEF RowsOf
  <2>4. rows' \in SUBSET Guesses /\ last' \in [Pairs -> Kinds \cup {"none"}]
    BY <2>1, <2>2 DEF GuessInv, GuessTypeOK
  <2>5. last'[k] = g.guess /\ \A j \in Pairs : j # k => last'[j] = last[j]
    BY <2>1, <2>2 DEF GuessInv, GuessTypeOK
  <2>6. "none" \notin Kinds
    BY DEF Kinds
  <2>7. RowsOK'
    <3>1. IsFiniteSet(rows')
      BY <2>1, FS_AddElement DEF GuessInv, RowsOK
    <3>2. \A a, b \in rows' : a.pair = b.pair => a = b
      BY <2>1, <2>2, <2>3 DEF GuessInv, RowsOK
    <3>3. \A a \in rows' : a.correct = (a.guess = kind'[a.pair[2]])
      BY <1>1, <2>1, <2>2 DEF GuessInv, RowsOK
    <3>4. \A j \in Pairs : last'[j] # "none" <=> \E a \in rows' : a.pair = j
      BY <2>1, <2>2, <2>3, <2>5, <2>6 DEF GuessInv, RowsOK
    <3>5. apart' => \A a \in rows' : last'[a.pair] = a.guess
      BY <1>1, <2>1, <2>2, <2>3, <2>5 DEF GuessInv, RowsOK, GuessTypeOK, Guesses
    <3>. QED  BY <3>1, <3>2, <3>3, <3>4, <3>5 DEF RowsOK
  <2>8. \A j \in Pairs : RowsOf(j) # {} => RowsOf(j)' # {}
    BY <2>1 DEF RowsOf
  <2>9. \A j \in Pairs : j # ask[s].pair => RowsOf(j)' = RowsOf(j)
    BY <1>2, <2>1, <2>2 DEF RowsOf
  <2>. QED  BY <1>1, <2>4, <2>7, <2>8, <2>9, CloseGuessInv
<1>4. CASE RowsOf(k) # {}
  <2>1. UNCHANGED <<rows, last>>
    BY <1>2, <1>4 DEF InsertGuess
  <2>2. RowsOK'
    BY <1>1, <2>1 DEF GuessInv, RowsOK
  <2>3. rows' \in SUBSET Guesses /\ last' \in [Pairs -> Kinds \cup {"none"}]
    BY <2>1 DEF GuessInv, GuessTypeOK
  <2>4. \A j : RowsOf(j)' = RowsOf(j)
    BY <2>1 DEF RowsOf
  <2>. QED  BY <1>1, <2>2, <2>3, <2>4, CloseGuessInv
<1>. QED  BY <1>3, <1>4

LEMMA UpdateGuessInv == ASSUME GuessInv, NEW s \in Submissions, UpdateGuess(s) PROVE GuessInv'
<1>1. /\ s \in Underway /\ SubmissionOK(s) /\ CloseGuess(s) /\ UNCHANGED <<kind, apart>>
      /\ pc[s] = "update"
  BY DEF UpdateGuess, Underway, GuessInv, CloseGuess
<1>2. PICK k \in Pairs : k = ask[s].pair
  BY <1>1 DEF SubmissionOK, Asks
<1>3. ask[s].guess \in Kinds /\ Kinds = {"human", "agent"} /\ kind[k[2]] \in Kinds
  BY <1>1, <1>2 DEF SubmissionOK, Asks, Kinds, GuessInv, GuessTypeOK, Pairs, GuessAssumption
<1>4. PICK g \in rows : g.pair = k
  BY <1>1, <1>2 DEF SubmissionOK, RowsOf
<1>5. \A h \in rows : h.pair = k => h = g
  BY <1>4 DEF GuessInv, RowsOK
<1> DEFINE u == Updated(s, g)
<1>6. rows' = (rows \ {g}) \cup {u}
  <2>1. rows' = {IF h.pair = k THEN Updated(s, h) ELSE h : h \in rows}
    BY <1>2 DEF UpdateGuess
  <2>2. \A h \in rows : (h.pair = k) <=> (h = g)
    BY <1>4, <1>5
  <2>. HIDE DEF u
  <2>3. \A h \in rows : (IF h.pair = k THEN Updated(s, h) ELSE h) = (IF h = g THEN u ELSE h)
    BY <2>2 DEF u
  <2>4. rows' = {IF h = g THEN u ELSE h : h \in rows}
    BY <2>1, <2>3
  <2>. QED  BY <1>4, <2>4
<1>7. g \in Guesses /\ g.correct = (g.guess = kind[k[2]])
  BY <1>4 DEF GuessInv, GuessTypeOK, RowsOK
<1>8. /\ read[s].guess \in Kinds /\ read[s].correct = (read[s].guess = kind[k[2]])
      /\ apart => read[s].guess = g.guess
  BY <1>1, <1>2, <1>4 DEF SubmissionOK, RowsOf
<1>9. /\ u \in Guesses /\ u.pair = k
      /\ u.guess = IF ask[s].guess = read[s].guess THEN g.guess ELSE ask[s].guess
      /\ u.correct = IF Correct(s) = read[s].correct THEN g.correct ELSE Correct(s)
  BY <1>3, <1>4, <1>7 DEF Updated, Guesses, Correct
<1>10. Correct(s) = (ask[s].guess = kind[k[2]])
  BY <1>2 DEF Correct
<1>11. u.correct = (u.guess = kind[k[2]])
  BY <1>3, <1>7, <1>8, <1>9, <1>10
<1>12. apart => u.guess = ask[s].guess
  BY <1>8, <1>9
<1>. HIDE DEF u
<1>13. last' = [last EXCEPT ![k] = ask[s].guess]
  BY <1>2 DEF UpdateGuess, Answered
<1>14. last'[k] = ask[s].guess /\ \A j \in Pairs : j # k => last'[j] = last[j]
  BY <1>13 DEF GuessInv, GuessTypeOK
<1>15. rows' \in SUBSET Guesses /\ last' \in [Pairs -> Kinds \cup {"none"}]
  BY <1>3, <1>6, <1>9, <1>13 DEF GuessInv, GuessTypeOK
<1>16. RowsOK'
  <2>1. IsFiniteSet(rows')
    BY <1>6, FS_AddElement, FS_RemoveElement DEF GuessInv, RowsOK
  <2>2. \A a, b \in rows' : a.pair = b.pair => a = b
    BY <1>5, <1>6, <1>9 DEF GuessInv, RowsOK
  <2>3. \A a \in rows' : a.correct = (a.guess = kind'[a.pair[2]])
    BY <1>1, <1>6, <1>9, <1>11 DEF GuessInv, RowsOK
  <2>4. \A j \in Pairs : last'[j] # "none" <=> \E a \in rows' : a.pair = j
    <3> SUFFICES ASSUME NEW j \in Pairs PROVE last'[j] # "none" <=> \E a \in rows' : a.pair = j
      OBVIOUS
    <3>1. CASE j = k
      BY <1>3, <1>6, <1>9, <1>14, <3>1
    <3>2. CASE j # k
      BY <1>4, <1>6, <1>9, <1>14, <3>2 DEF GuessInv, RowsOK
    <3>. QED  BY <3>1, <3>2
  <2>5. apart' => \A a \in rows' : last'[a.pair] = a.guess
    <3> SUFFICES ASSUME apart, NEW a \in rows' PROVE last'[a.pair] = a.guess
      BY <1>1
    <3>1. CASE a = u
      BY <1>9, <1>12, <1>14, <3>1
    <3>2. CASE a # u
      <4>1. a \in rows /\ a.pair # k /\ a.pair \in Pairs
        BY <1>5, <1>6, <3>2 DEF GuessInv, GuessTypeOK, Guesses
      <4>. QED  BY <1>14, <4>1 DEF GuessInv, RowsOK
    <3>. QED  BY <3>1, <3>2
  <2>. QED  BY <2>1, <2>2, <2>3, <2>4, <2>5 DEF RowsOK
<1>17. \A j \in Pairs : RowsOf(j) # {} => RowsOf(j)' # {}
  BY <1>4, <1>6, <1>9 DEF RowsOf
<1>18. \A j \in Pairs : j # ask[s].pair => RowsOf(j)' = RowsOf(j)
  BY <1>2, <1>4, <1>6, <1>9 DEF RowsOf
<1>. QED  BY <1>1, <1>15, <1>16, <1>17, <1>18, CloseGuessInv

LEMMA GuessNextInv == GuessInv /\ [GuessNext]_guessVars => GuessInv'
<1> SUFFICES ASSUME GuessInv, [GuessNext]_guessVars PROVE GuessInv'
  OBVIOUS
<1>1. ASSUME NEW s \in Submissions, LoseGuess(s) PROVE GuessInv'
  <2>1. s \in Underway /\ CloseGuess(s) /\ UNCHANGED <<kind, rows, last, apart>>
    BY <1>1 DEF LoseGuess, CloseGuess
  <2>2. RowsOK'
    BY <2>1 DEF GuessInv, RowsOK
  <2>3. \A j : RowsOf(j)' = RowsOf(j)
    BY <2>1 DEF RowsOf
  <2>4. rows' \in SUBSET Guesses /\ last' \in [Pairs -> Kinds \cup {"none"}]
    BY <2>1 DEF GuessInv, GuessTypeOK
  <2>. QED  BY <2>1, <2>2, <2>3, <2>4, CloseGuessInv
<1>2. CASE UNCHANGED guessVars
  <2>1. GuessTypeOK' /\ RowsOK'
    BY <1>2 DEF guessVars, GuessInv, GuessTypeOK, RowsOK
  <2>2. Underway' = Underway
    BY <1>2 DEF guessVars, Underway
  <2>3. \A s : SubmissionOK(s)' <=> SubmissionOK(s)
    BY <1>2 DEF guessVars, SubmissionOK, RowsOf
  <2>. QED  BY <1>2, <2>1, <2>2, <2>3 DEF guessVars, GuessInv
<1>. QED  BY <1>1, <1>2, SubmitGuessInv, ReadEarlierInv, InsertGuessInv, UpdateGuessInv DEF GuessNext

\* As many rows as pairs: the pair of a row says which row it is.
LEMMA PairsOfRows ==
    ASSUME NEW S, IsFiniteSet(S), \A g, h \in S : g.pair = h.pair => g = h
    PROVE  LET P == {g.pair : g \in S} IN IsFiniteSet(P) /\ Cardinality(P) = Cardinality(S)
<1> DEFINE P == {g.pair : g \in S}
           f == [g \in S |-> g.pair]
<1>1. f \in Bijection(S, P)
  BY DEF Bijection, Injection, IsInjective, Surjection
<1>. HIDE DEF P, f
<1>2. ExistsBijection(S, P)
  BY <1>1 DEF ExistsBijection
<1>3. IsFiniteSet(P) /\ Cardinality(P) = Cardinality(S)
  BY <1>2, FS_Bijection
<1>. QED  BY <1>3 DEF P

\* However submissions overlap, a player has one attempt for each account a guess about was
\* answered, with a verdict that fits the stored guess; when no two guesses about one account
\* overlap, exactly those last answered right count as correct.
THEOREM ScoreIsAlwaysWhatWasAnswered == GuessSpec => []ScoreIsWhatWasAnswered
<1>1. ASSUME GuessInv PROVE ScoreIsWhatWasAnswered
  <2>1. /\ GuessTypeOK /\ IsFiniteSet(rows)
        /\ \A g, h \in rows : g.pair = h.pair => g = h
        /\ \A g \in rows : g.correct = (g.guess = kind[g.pair[2]])
        /\ \A k \in Pairs : last[k] # "none" <=> \E g \in rows : g.pair = k
        /\ apart => \A g \in rows : last[g.pair] = g.guess
        /\ \A g \in rows : g.pair \in Pairs
    BY <1>1 DEF GuessInv, RowsOK, GuessTypeOK, Guesses
  <2> SUFFICES ASSUME NEW u \in Players
               PROVE  LET told == {k \in Pairs : k[1] = u /\ last[k] # "none"} IN
                      /\ Score(u).attempts = Cardinality(told)
                      /\ apart => Score(u).correct = Cardinality({k \in told : last[k] = kind[k[2]]})
    BY <2>1 DEF ScoreIsWhatWasAnswered
  <2> DEFINE told == {k \in Pairs : k[1] = u /\ last[k] # "none"}
             right == {k \in told : last[k] = kind[k[2]]}
             mineOf == {g \in rows : g.pair[1] = u}
             rightOf == {g \in rows : g.pair[1] = u /\ g.correct}
  <2>2. told = {g.pair : g \in mineOf}
    BY <2>1
  <2>3. ASSUME apart PROVE right = {g.pair : g \in rightOf}
    <3>1. \A g \in rows : g.correct <=> last[g.pair] = kind[g.pair[2]]
      BY <2>1, <2>3
    <3>. QED  BY <2>1, <3>1
  <2>4. /\ mineOf \in SUBSET rows /\ rightOf \in SUBSET rows
        /\ Score(u).attempts = Cardinality(mineOf) /\ Score(u).correct = Cardinality(rightOf)
    BY DEF Score
  <2>5. SUFFICES /\ Score(u).attempts = Cardinality(told)
                 /\ apart => Score(u).correct = Cardinality(right)
    OBVIOUS
  <2>. HIDE DEF told, right, mineOf, rightOf
  <2>6. IsFiniteSet(mineOf) /\ IsFiniteSet(rightOf)
    BY <2>1, <2>4, FS_Subset
  <2>7. Cardinality({g.pair : g \in mineOf}) = Cardinality(mineOf)
    BY <2>1, <2>4, <2>6, PairsOfRows
  <2>8. Cardinality({g.pair : g \in rightOf}) = Cardinality(rightOf)
    BY <2>1, <2>4, <2>6, PairsOfRows
  <2>9. Cardinality(told) = Cardinality({g.pair : g \in mineOf})
    BY <2>2, Zenon
  <2>10. apart => Cardinality(right) = Cardinality({g.pair : g \in rightOf})
    BY <2>3, Zenon
  <2>. QED  BY <2>4, <2>7, <2>8, <2>9, <2>10
<1>. QED  BY <1>1, GuessInitInv, GuessNextInv, PTL DEF GuessSpec

-----------------------------------------------------------------------------
(* The home feed.  As long as pages come in the order of time, what was     *)
(* shown lies before the cursor and the window behind it; whatever was      *)
(* public at first is shown, or in the window, or older than a full window. *)

Passed(q, p) == p = q \/ Behind(q, p)

Distinct == \A p, q \in Public : time[p] = time[q] => p = q

WindowOK ==
    /\ limit \in Limits
    /\ \E n \in Nat :
         /\ window \in [1..n -> Public]
         /\ \A i \in 1..n : shown[window[i]] = 0 /\ \A q \in cursor : Behind(window[i], q)
         /\ \A i, j \in 1..n : i < j => time[window[i]] > time[window[j]]
         /\ \A p \in first : \/ shown[p] = 1
                             \/ \E i \in 1..n : p = window[i]
                             \/ n = 2 * limit /\ \A i \in 1..n : time[p] < time[window[i]]

WalkOK ==
    /\ Distinct
    /\ first \subseteq Public /\ cursor \subseteq Public
    /\ \A p \in Posts : shown[p] # 0 => shown[p] = 1 /\ p \in Public
    /\ walk # "end" => \A p \in Posts : shown[p] = 1 => \E q \in cursor : Passed(q, p)
    /\ \A p \in first, q \in cursor : Passed(q, p) => shown[p] = 1
    /\ walk = "end" => \A p \in first : shown[p] = 1
    /\ walk = "waits" => WindowOK

FeedInv ==
    /\ time \in [Posts -> Nat] /\ shown \in [Posts -> 0..2]
    /\ \A p \in Posts : shown[p] # 0 => p \in logged
    /\ straight => WalkOK

LEMMA FeedInitInv == FeedInit => FeedInv
<1> SUFFICES ASSUME FeedInit PROVE FeedInv
  OBVIOUS
<1>1. time \in [Posts -> Nat] /\ shown \in [Posts -> 0..2] /\ \A p \in Posts : shown[p] = 0
  BY FeedAssumption DEF FeedInit
<1>2. straight => WalkOK
  BY <1>1 DEF FeedInit, WalkOK, Distinct
<1>. QED  BY <1>1, <1>2 DEF FeedInv

\* A post that comes into sight changes nothing about the posts that already were.
LEMMA PublishInv == ASSUME FeedInv, NEW p \in Posts, Publish(p) PROVE FeedInv'
<1>1. PICK t \in 1..MaxTime : /\ time' = [time EXCEPT ![p] = t]
                              /\ straight' = (straight /\ \A q \in Public : time[q] # t)
  BY DEF Publish
<1>2. /\ time[p] = 0 /\ UNCHANGED <<walk, cursor, limit, window, first, shown, logged>>
      /\ t \in Nat /\ t # 0
  BY FeedAssumption DEF Publish
<1>3. /\ time' \in [Posts -> Nat] /\ time'[p] = t
      /\ \A q \in Posts : q # p => time'[q] = time[q]
  BY <1>1, <1>2 DEF FeedInv
<1>4. Public' = Public \cup {p} /\ p \notin Public /\ Public \subseteq Posts
  BY <1>2, <1>3 DEF Public
<1>5. \A q \in Public : time'[q] = time[q]
  BY <1>3, <1>4
<1>6. \A q, r \in Public : Behind(q, r)' <=> Behind(q, r)
  BY <1>5 DEF Behind
<1>7. \A q, r \in Public : Passed(q, r)' <=> Passed(q, r)
  BY <1>6 DEF Passed
<1>8. ASSUME straight' PROVE WalkOK'
  <2>1. WalkOK /\ \A q \in Public : time[q] # t
    BY <1>1, <1>8 DEF FeedInv
  <2>2. Distinct'
    BY <1>3, <1>4, <1>5, <2>1 DEF WalkOK, Distinct
  <2>3. first' \subseteq Public' /\ cursor' \subseteq Public'
    BY <1>2, <1>4, <2>1 DEF WalkOK
  <2>4. \A q \in Posts : shown'[q] # 0 => shown'[q] = 1 /\ q \in Public'
    BY <1>2, <1>4, <2>1 DEF WalkOK
  <2>5. walk' # "end" => \A q \in Posts : shown'[q] = 1 => \E r \in cursor' : Passed(r, q)'
    BY <1>2, <1>7, <2>1 DEF WalkOK
  <2>6. \A q \in first', r \in cursor' : Passed(r, q)' => shown'[q] = 1
    BY <1>2, <1>7, <2>1 DEF WalkOK
  <2>7. ASSUME walk = "waits" PROVE WindowOK'
    <3>1. limit \in Limits /\ first \subseteq Public /\ cursor \subseteq Public
      BY <2>1, <2>7 DEF WalkOK, WindowOK
    <3>2. PICK n \in Nat :
            /\ window \in [1..n -> Public]
            /\ \A i \in 1..n : shown[window[i]] = 0 /\ \A q \in cursor : Behind(window[i], q)
            /\ \A i, j \in 1..n : i < j => time[window[i]] > time[window[j]]
            /\ \A q \in first : \/ shown[q] = 1
                                \/ \E i \in 1..n : q = window[i]
                                \/ n = 2 * limit /\ \A i \in 1..n : time[q] < time[window[i]]
      BY <2>1, <2>7 DEF WalkOK, WindowOK
    <3>3. window' \in [1..n -> Public'] /\ \A i \in 1..n : window[i] \in Public
      BY <1>2, <1>4, <3>2
    <3>4. \A i \in 1..n : shown'[window'[i]] = 0 /\ \A q \in cursor' : Behind(window[i], q)'
      BY <1>2, <1>6, <3>1, <3>2, <3>3
    <3>5. \A i, j \in 1..n : i < j => time'[window'[i]] > time'[window'[j]]
      BY <1>2, <1>5, <3>2, <3>3
    <3>6. \A q \in first' : \/ shown'[q] = 1
                            \/ \E i \in 1..n : q = window'[i]
                            \/ n = 2 * limit' /\ \A i \in 1..n : time'[q] < time'[window'[i]]
      BY <1>2, <1>5, <3>1, <3>2, <3>3
    <3>7. \A i \in 1..n : \A q \in cursor' : (Behind(window[i], q))'
      BY <1>2, <3>4 DEF Behind
    <3>. QED  BY <1>2, <3>1, <3>3, <3>4, <3>5, <3>6, <3>7 DEF WindowOK
  <2>. QED  BY <1>2, <2>1, <2>2, <2>3, <2>4, <2>5, <2>6, <2>7 DEF WalkOK
<1>. QED  BY <1>2, <1>3, <1>8 DEF FeedInv

\* What may be selected: posts of distinct ranks, all there are or as many as were asked for.
LEMMA WindowIs ==
    ASSUME NEW m \in Nat, NEW w \in Windows(m)
    PROVE  \E n \in 0..m :
              /\ w \in [1..n -> Selected]
              /\ \A i, j \in 1..n : i < j => w[i] # w[j] /\ time[w[i]] >= time[w[j]]
              /\ \A p \in Selected : \/ \E i \in 1..n : p = w[i]
                                     \/ n = m /\ \A i \in 1..n : time[p] <= time[w[i]]
<1> DEFINE c == Cardinality(Selected)
           n == IF c < m THEN c ELSE m
           R == {w[i] : i \in 1..n}
<1>1. Selected \in SUBSET Posts
  BY DEF Selected, Public
<1>2. IsFiniteSet(Selected) /\ c \in Nat
  BY <1>1, FeedAssumption, FS_Subset, FS_CardinalityType
<1>3. /\ w \in [1..n -> Selected]
      /\ \A i, j \in 1..n : i < j => w[i] # w[j] /\ time[w[i]] >= time[w[j]]
      /\ \A p \in Selected \ R : \A i \in 1..n : time[p] <= time[w[i]]
  BY DEF Windows
<1>4. n \in 0..m
  BY <1>2
<1>5. ASSUME n # m PROVE R = Selected
  <2>1. n = c
    BY <1>5
  <2> DEFINE f == [i \in 1..n |-> w[i]]
  <2>2. f \in Bijection(1..n, R)
    <3>1. \A i, j \in 1..n : w[i] = w[j] => i = j
      BY <1>3, <1>4
    <3>. QED  BY <3>1 DEF Bijection, Injection, IsInjective, Surjection
  <2>. HIDE DEF f, R, n
  <2>3. IsFiniteSet(1..n) /\ Cardinality(1..n) = n
    BY <1>4, FS_Interval
  <2>4. ExistsBijection(1..n, R)
    BY <2>2 DEF ExistsBijection
  <2>5. IsFiniteSet(R) /\ Cardinality(R) = n
    BY <2>3, <2>4, FS_Bijection
  <2>6. R \in SUBSET Selected
    BY <1>3 DEF R
  <2>. QED  BY <1>2, <2>1, <2>5, <2>6, FS_Subset
<1>6. \A p \in Selected : \/ \E i \in 1..n : p = w[i]
                          \/ n = m /\ \A i \in 1..n : time[p] <= time[w[i]]
  BY <1>3, <1>5
<1>. HIDE DEF n
<1>. QED  BY <1>3, <1>4, <1>6

LEMMA SelectRowsInv == ASSUME FeedInv, SelectRows PROVE FeedInv'
<1>1. PICK l \in Limits : limit' = l /\ window' \in Windows(2 * l)
  BY DEF SelectRows
<1>2. /\ walk = "asks" /\ walk' = "waits" /\ first' = IF cursor = {} THEN Public ELSE first
      /\ UNCHANGED <<time, cursor, shown, logged, straight>>
  BY DEF SelectRows
<1>3. l \in Nat /\ 2 * l \in Nat /\ Public \subseteq Posts /\ Posts \subseteq Nat
  BY FeedAssumption DEF Public
<1>4. ASSUME straight PROVE WalkOK'
  <2>1. WalkOK
    BY <1>4 DEF FeedInv
  <2>2. PICK n \in 0..(2 * l) :
              /\ window' \in [1..n -> Selected]
              /\ \A i, j \in 1..n : i < j => /\ window'[i] # window'[j]
                                             /\ time[window'[i]] >= time[window'[j]]
              /\ \A p \in Selected :
                    \/ \E i \in 1..n : p = window'[i]
                    \/ n = 2 * l /\ \A i \in 1..n : time[p] <= time[window'[i]]
    BY <1>1, <1>3, WindowIs
  <2>3. Selected \subseteq Public /\ \A p \in Selected, q \in cursor : Behind(p, q)
    BY DEF Selected
  <2>4. \A p \in Public : time[p] \in Nat
    BY <1>3 DEF FeedInv
  <2>5. \A p, q \in Public : Passed(q, p) <=> ~Behind(p, q)
    BY <1>3, <2>1, <2>4 DEF Passed, Behind, WalkOK, Distinct
  <2>6. \A p \in Selected : shown[p] = 0
    <3> SUFFICES ASSUME NEW p \in Selected, shown[p] # 0 PROVE FALSE
      OBVIOUS
    <3>1. PICK q \in cursor : Passed(q, p)
      BY <1>2, <1>3, <2>1, <2>3 DEF WalkOK
    <3>. QED  BY <2>1, <2>3, <2>5, <3>1 DEF WalkOK
  <2>7. \A p \in first' : shown[p] = 1 \/ p \in Selected
    <3> SUFFICES ASSUME NEW p \in first', shown[p] # 1 PROVE p \in Selected
      OBVIOUS
    <3>1. p \in Public
      BY <1>2, <2>1 DEF WalkOK
    <3>2. \A q \in cursor : Behind(p, q)
      BY <1>2, <2>1, <2>5, <3>1 DEF WalkOK
    <3>. QED  BY <3>1, <3>2 DEF Selected
  <2>8. window' \in [1..n -> Public] /\ \A i \in 1..n : window'[i] \in Selected
    BY <2>2, <2>3
  <2>9. \A i \in 1..n : shown[window'[i]] = 0 /\ \A q \in cursor : Behind(window'[i], q)
    BY <2>3, <2>6, <2>8
  <2>10. \A i, j \in 1..n : i < j => time[window'[i]] > time[window'[j]]
    <3> SUFFICES ASSUME NEW i \in 1..n, NEW j \in 1..n, i < j
                 PROVE  time[window'[i]] > time[window'[j]]
      OBVIOUS
    <3>1. window'[i] # window'[j] /\ time[window'[i]] >= time[window'[j]]
      BY <2>2
    <3>2. time[window'[i]] # time[window'[j]]
      BY <2>1, <2>3, <2>8, <3>1 DEF WalkOK, Distinct
    <3>. QED  BY <2>3, <2>4, <2>8, <3>1, <3>2
  <2>11. \A p \in first' : \/ shown[p] = 1
                           \/ \E i \in 1..n : p = window'[i]
                           \/ n = 2 * l /\ \A i \in 1..n : time[p] < time[window'[i]]
    <3> SUFFICES ASSUME NEW p \in first', shown[p] # 1, ~\E i \in 1..n : p = window'[i]
                 PROVE  n = 2 * l /\ \A i \in 1..n : time[p] < time[window'[i]]
      OBVIOUS
    <3>1. p \in Selected
      BY <2>7
    <3>2. n = 2 * l /\ \A i \in 1..n : time[p] <= time[window'[i]]
      BY <2>2, <3>1
    <3>3. \A i \in 1..n : time[p] # time[window'[i]]
      BY <2>1, <2>3, <2>8, <3>1 DEF WalkOK, Distinct
    <3>. QED  BY <2>3, <2>4, <2>8, <3>1, <3>2, <3>3
  <2>12. WindowOK'
    <3>1. n \in Nat
      BY <1>3, <2>2
    <3>2. window' \in [1..n -> Public']
      BY <1>2, <2>8 DEF Public
    <3>3. \A i \in 1..n : shown'[window'[i]] = 0 /\ \A q \in cursor' : (Behind(window[i], q))'
      BY <1>2, <2>9 DEF Behind
    <3>. QED  BY <1>1, <1>2, <2>10, <2>11, <3>1, <3>2, <3>3 DEF WindowOK
  <2>13. Distinct' /\ first' \subseteq Public' /\ cursor' \subseteq Public'
    BY <1>2, <2>1 DEF WalkOK, Distinct, Public
  <2>14. \A p, q : Passed(q, p)' <=> Passed(q, p)
    BY <1>2 DEF Passed, Behind
  <2>15. \A p \in first', q \in cursor' : Passed(q, p)' => shown'[p] = 1
    BY <1>2, <2>1, <2>14 DEF WalkOK
  <2>. QED  BY <1>2, <2>1, <2>12, <2>13, <2>14, <2>15 DEF WalkOK, Public
<1>. QED  BY <1>2, <1>4 DEF FeedInv

\* A page has as many posts as were asked for, or as the window has.
LEMMA PageLength ==
    ASSUME NEW n \in Nat, NEW S, window \in [1..n -> S], limit \in Nat, NEW score
    PROVE  Len(Page(score)) = IF limit < n THEN limit ELSE n
<1> DEFINE better(i, j) == score[i] > score[j] \/ (score[i] = score[j] /\ i < j)
           value(k) == CHOOSE p \in PostsOn(window) :
                          \E i \in DOMAIN window :
                              /\ p = window[i]
                              /\ Cardinality({j \in DOMAIN window : better(j, i)}) = k - 1
           ranked == [k \in DOMAIN window |-> value(k)]
           m == IF limit < Len(window) THEN limit ELSE Len(window)
<1>1. DOMAIN window = 1..n /\ Len(window) = n
  BY DEF PostsOn
<1>2. Page(score) = SubSeq(ranked, 1, m)
  BY DEF Page
<1>. HIDE DEF value
<1>3. DOMAIN ranked = 1..n /\ ranked \in Seq({value(k) : k \in 1..n})
  BY <1>1
<1>4. m \in 0..n /\ m = IF limit < n THEN limit ELSE n
  BY <1>1
<1>. HIDE DEF ranked, m
<1>5. Len(ranked) = n
  BY <1>3
<1>6. Len(SubSeq(ranked, 1, m)) = m
  BY <1>3, <1>4, <1>5
<1>. QED  BY <1>2, <1>4, <1>6

\* The beginning of a window.
LEMMA PrefixIs ==
    ASSUME NEW n \in Nat, NEW S, NEW w \in [1..n -> S], NEW m \in 0..n
    PROVE  /\ DOMAIN SubSeq(w, 1, m) = 1..m
           /\ \A i \in 1..m : SubSeq(w, 1, m)[i] = w[i]
<1>1. w \in Seq(S) /\ Len(w) = n
  OBVIOUS
<1>. QED  BY <1>1

LEMMA AnswerInv == ASSUME FeedInv, Answer PROVE FeedInv'
<1>1. PICK score \in [DOMAIN window -> Scores] :
         LET page == Page(score) IN
         /\ Log(page)
         /\ shown' = [p \in Posts |-> IF p \notin PostsOn(page) THEN shown[p]
                                     ELSE IF shown[p] = 0 THEN 1 ELSE 2]
         /\ cursor' = NextCursor(page)
         /\ walk' = IF NextCursor(page) = {} THEN "end" ELSE "asks"
         /\ straight' = (straight /\ page = SubSeq(window, 1, Len(page)))
  BY DEF Answer
<1>2. walk = "waits" /\ UNCHANGED <<time, first>>
  BY DEF Answer
<1>3. PICK page : page = Page(score)
  OBVIOUS
<1>4. /\ logged' = logged \cup PostsOn(page)
      /\ shown' = [p \in Posts |-> IF p \notin PostsOn(page) THEN shown[p]
                                  ELSE IF shown[p] = 0 THEN 1 ELSE 2]
      /\ cursor' = NextCursor(page)
      /\ walk' = IF NextCursor(page) = {} THEN "end" ELSE "asks"
      /\ straight' = (straight /\ page = SubSeq(window, 1, Len(page)))
  BY <1>1, <1>3 DEF Log
<1>5. shown' \in [Posts -> 0..2] /\ \A p \in Posts : shown'[p] # 0 => p \in logged'
  BY <1>4 DEF FeedInv
<1>6. ASSUME straight' PROVE WalkOK'
  <2>1. WalkOK /\ WindowOK /\ page = SubSeq(window, 1, Len(page))
    BY <1>2, <1>4, <1>6 DEF FeedInv, WalkOK
  <2>2. PICK n \in Nat :
         /\ window \in [1..n -> Public]
         /\ \A i \in 1..n : shown[window[i]] = 0 /\ \A q \in cursor : Behind(window[i], q)
         /\ \A i, j \in 1..n : i < j => time[window[i]] > time[window[j]]
         /\ \A p \in first : \/ shown[p] = 1
                             \/ \E i \in 1..n : p = window[i]
                             \/ n = 2 * limit /\ \A i \in 1..n : time[p] < time[window[i]]
    BY <2>1 DEF WindowOK
  <2>3. limit \in Nat /\ limit # 0 /\ Public \subseteq Posts /\ Posts \subseteq Nat
    BY <2>1, FeedAssumption DEF WindowOK, Public
  <2>4. PICK m \in 0..n : m = IF limit < n THEN limit ELSE n
    BY <2>3
  <2>5. Len(page) = m
    BY <1>3, <2>2, <2>3, <2>4, PageLength
  <2>6. DOMAIN page = 1..m /\ \A i \in 1..m : page[i] = window[i]
    BY <2>1, <2>2, <2>5, PrefixIs
  <2>7. \A p : p \in PostsOn(page) <=> \E i \in 1..m : p = window[i]
    BY <2>6 DEF PostsOn
  <2>8. \A p \in Public : time[p] \in Nat
    BY <2>3 DEF FeedInv
  <2>9. \A p \in Posts : shown'[p] = IF \E i \in 1..m : p = window[i] THEN 1 ELSE shown[p]
    BY <1>4, <2>2, <2>4, <2>7
  <2>10. \A i \in 1..n : window[i] \in Public
    BY <2>2
  <2>11. \A p, q : Passed(q, p)' <=> Passed(q, p)
    BY <1>2 DEF Passed, Behind
  <2>12. Distinct' /\ first' \subseteq Public'
    BY <1>2, <2>1 DEF WalkOK, Distinct, Public
  <2>13. \A p \in Posts : shown'[p] # 0 => shown'[p] = 1 /\ p \in Public'
    BY <1>2, <2>1, <2>4, <2>9, <2>10 DEF WalkOK, Public
  <2>14. CASE m = limit
    <3>1. cursor' = {window[m]} /\ m \in 1..n /\ walk' = "asks"
      BY <1>4, <2>3, <2>4, <2>5, <2>6, <2>14 DEF NextCursor
    <3>2. cursor' \subseteq Public'
      BY <1>2, <2>10, <3>1 DEF Public
    <3>3. \A p \in Posts : shown'[p] = 1 => \E q \in cursor' : Passed(q, p)'
      <4> SUFFICES ASSUME NEW p \in Posts, shown'[p] = 1 PROVE Passed(window[m], p)
        BY <2>11, <3>1
      <4>1. CASE \E i \in 1..m : p = window[i]
        <5>1. PICK i \in 1..m : p = window[i]
          BY <4>1
        <5>2. i = m \/ time[window[i]] > time[window[m]]
          BY <2>2, <2>4, <3>1
        <5>. QED  BY <2>4, <2>8, <2>10, <3>1, <5>1, <5>2 DEF Passed, Behind
      <4>2. CASE ~\E i \in 1..m : p = window[i]
        <5>1. shown[p] = 1 /\ p \in Public
          BY <2>1, <2>9, <4>2 DEF WalkOK
        <5>2. PICK q \in cursor : Passed(q, p)
          BY <1>2, <2>1, <5>1 DEF WalkOK
        <5>3. q \in Public /\ Behind(window[m], q)
          BY <2>1, <2>2, <3>1 DEF WalkOK
        <5>4. PICK w \in Public : w = window[m]
          BY <2>10, <3>1
        <5>5. /\ w \in Nat /\ q \in Nat /\ p \in Nat
              /\ time[w] \in Nat /\ time[q] \in Nat /\ time[p] \in Nat
          BY <2>3, <2>8, <5>1, <5>3, <5>4
        <5>6. Behind(w, q) /\ (p = q \/ Behind(q, p))
          BY <5>2, <5>3, <5>4 DEF Passed
        <5>7. Behind(w, p)
          BY <5>5, <5>6 DEF Behind
        <5>. QED  BY <5>4, <5>7 DEF Passed
      <4>. QED  BY <4>1, <4>2
    <3>4. \A p \in first', q \in cursor' : Passed(q, p)' => shown'[p] = 1
      <4> SUFFICES ASSUME NEW p \in first, Passed(window[m], p), shown'[p] # 1 PROVE FALSE
        BY <1>2, <2>11, <3>1
      <4>1. p \in Public /\ p \in Posts
        BY <2>1, <2>3 DEF WalkOK
      <4>2. shown[p] # 1 /\ ~\E i \in 1..m : p = window[i]
        BY <2>9, <4>1
      <4>3. time[p] < time[window[m]]
        <5>1. CASE \E i \in 1..n : p = window[i]
          <6>1. PICK i \in 1..n : p = window[i]
            BY <5>1
          <6>2. m < i
            BY <2>4, <4>2, <6>1
          <6>3. time[window[m]] > time[window[i]]
            BY <2>2, <3>1, <6>2
          <6>. QED  BY <2>8, <2>10, <3>1, <6>1, <6>3
        <5>2. CASE ~\E i \in 1..n : p = window[i]
          BY <2>2, <3>1, <4>2, <5>2
        <5>. QED  BY <5>1, <5>2
      <4>4. time[p] \in Nat /\ time[window[m]] \in Nat
        BY <2>8, <2>10, <3>1, <4>1
      <4>. QED  BY <4>3, <4>4 DEF Passed, Behind
    <3>. QED  BY <2>12, <2>13, <3>1, <3>2, <3>3, <3>4 DEF WalkOK
  <2>15. CASE m # limit
    <3>1. cursor' = {} /\ walk' = "end" /\ m = n /\ n < limit
      BY <1>4, <2>3, <2>4, <2>5, <2>15 DEF NextCursor
    <3>2. \A p \in first' : shown'[p] = 1
      <4> SUFFICES ASSUME NEW p \in first PROVE shown'[p] = 1
        BY <1>2
      <4>1. p \in Posts
        BY <2>1, <2>3 DEF WalkOK
      <4>2. shown[p] = 1 \/ \E i \in 1..n : p = window[i]
        BY <2>2, <2>3, <3>1
      <4>. QED  BY <2>9, <3>1, <4>1, <4>2
    <3>. QED  BY <2>12, <2>13, <3>1, <3>2 DEF WalkOK
  <2>. QED  BY <2>14, <2>15
<1>. QED  BY <1>2, <1>5, <1>6 DEF FeedInv

LEMMA FeedNextInv == FeedInv /\ [FeedNext]_feedVars => FeedInv'
<1> SUFFICES ASSUME FeedInv, [FeedNext]_feedVars PROVE FeedInv'
  OBVIOUS
<1>1. ASSUME UNCHANGED <<time, cursor, first, shown, straight>>, walk # "end", walk' = "asks",
             logged \subseteq logged'
      PROVE  FeedInv'
  <2>1. Public' = Public /\ \A p, q : Passed(q, p)' <=> Passed(q, p)
    BY <1>1 DEF Public, Passed, Behind
  <2>2. ASSUME straight PROVE WalkOK'
    <3>1. WalkOK
      BY <2>2 DEF FeedInv
    <3>. QED  BY <1>1, <2>1, <3>1 DEF WalkOK, Distinct
  <2>. QED  BY <1>1, <2>2 DEF FeedInv
<1>2. ASSUME OpenFeed PROVE FeedInv'
  BY <1>1, <1>2 DEF OpenFeed
<1>3. ASSUME LoseAnswer PROVE FeedInv'
  <2>1. logged \subseteq logged'
    BY <1>3 DEF LoseAnswer, Log
  <2>. QED  BY <1>1, <1>3, <2>1 DEF LoseAnswer
<1>4. CASE UNCHANGED feedVars
  <2>1. Public' = Public /\ \A p, q : Passed(q, p)' <=> Passed(q, p)
    BY <1>4 DEF feedVars, Public, Passed, Behind
  <2>2. WindowOK' <=> WindowOK
    BY <1>4 DEF feedVars, WindowOK, Public, Behind
  <2>. QED  BY <1>4, <2>1, <2>2 DEF feedVars, FeedInv, WalkOK, Distinct
<1>. QED  BY <1>2, <1>3, <1>4, PublishInv, SelectRowsInv, AnswerInv DEF FeedNext

\* While pages come in the order of time, no post is shown twice and none of the first is passed
\* over, whatever is published meanwhile and whatever answers are lost; and every post that was
\* shown is logged, whatever the scores.
THEOREM FeedIsAlwaysComplete == FeedSpec => []FeedComplete
<1>1. ASSUME FeedInv PROVE FeedComplete
  <2>1. \A p \in Posts : shown[p] \in 0..2 /\ (shown[p] > 0 => p \in logged)
    BY <1>1 DEF FeedInv
  <2>2. ASSUME straight, NEW p \in Posts
        PROVE  /\ shown[p] <= 1
               /\ p \in first /\ walk \in {"asks", "end"}
                    /\ (walk = "end" \/ \E q \in cursor : p = q \/ Behind(q, p)) => shown[p] = 1
    BY <1>1, <2>1, <2>2 DEF FeedInv, WalkOK, Passed
  <2>. QED  BY <2>1, <2>2 DEF FeedComplete
<1>. QED  BY <1>1, FeedInitInv, FeedNextInv, PTL DEF FeedSpec

=============================================================================
