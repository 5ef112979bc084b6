----------------------------- MODULE GuessGame -----------------------------
(***************************************************************************)
(* The guess game: is an account a person or an agent?                     *)
(* (submit_guess in routes/observability.py, build_guess_score and         *)
(* list_guessable_accounts in services/observability.py, models/game.py)   *)
(*                                                                         *)
(* A submission reads the earlier guess of the player about the account    *)
(* and then inserts one or updates it: two may pass each other.  An update *)
(* writes the columns that differ from those that were read.               *)
(***************************************************************************)
EXTENDS Naturals, FiniteSets

CONSTANTS
    Submissions,  \* requests
    Players,      \* accounts that guess
    Accounts      \* all accounts

ASSUME GuessAssumption == Players \subseteq Accounts /\ IsFiniteSet(Submissions)

NoRow == [guess |-> "none", correct |-> FALSE]
Kinds == {"human", "agent"}

VARIABLES
    kind,     \* is_agent_account
    rows,     \* the stored guesses
    pc,       \* where each submission is
    ask,      \* its player, account and guess
    read,     \* the columns of the earlier guess it read
    last,     \* history: the guess of the last submission of a pair that was answered
    apart     \* no two submissions of a player about an account were under way at once

guessVars == <<kind, rows, pc, ask, read, last, apart>>

Pairs == {k \in Players \X Accounts : k[1] # k[2]}
NoAsk == [pair |-> <<>>, guess |-> "none"]
Underway == {s \in Submissions : pc[s] \notin {"idle", "done"}}

RowsOf(pair) == {g \in rows : g.pair = pair}
Correct(s) == ask[s].guess = kind[ask[s].pair[2]]

GuessInit ==
    /\ kind \in [Accounts -> Kinds]
    /\ rows = {}
    /\ pc = [s \in Submissions |-> "idle"]
    /\ ask = [s \in Submissions |-> NoAsk]
    /\ read = [s \in Submissions |-> NoRow]
    /\ last = [k \in Pairs |-> "none"]
    /\ apart = TRUE

\* A guess about oneself or about nobody is refused before anything is read.
SubmitGuess(s, pair, guess) ==
    /\ pc[s] = "idle"
    /\ pc' = [pc EXCEPT ![s] = "read"]
    /\ ask' = [ask EXCEPT ![s] = [pair |-> pair, guess |-> guess]]
    /\ apart' = (apart /\ \A o \in Underway : ask[o].pair # pair)
    /\ UNCHANGED <<kind, rows, read, last>>

\* The earlier guess.
ReadEarlier(s) ==
    /\ pc[s] = "read"
    /\ IF RowsOf(ask[s].pair) = {}
       THEN pc' = [pc EXCEPT ![s] = "insert"] /\ UNCHANGED read
       ELSE /\ pc' = [pc EXCEPT ![s] = "update"]
            /\ \E g \in RowsOf(ask[s].pair) :
                 read' = [read EXCEPT ![s] = [guess |-> g.guess, correct |-> g.correct]]
    /\ UNCHANGED <<kind, rows, ask, last, apart>>

CloseGuess(s) ==
    /\ pc' = [pc EXCEPT ![s] = "done"]
    /\ ask' = [ask EXCEPT ![s] = NoAsk]
    /\ read' = [read EXCEPT ![s] = NoRow]
    /\ UNCHANGED <<kind, apart>>

Answered(s) == last' = [last EXCEPT ![ask[s].pair] = ask[s].guess]

\* The commit of a first guess; uq_guess_game_guesses_user_target refuses a second.
InsertGuess(s) ==
    /\ pc[s] = "insert"
    /\ IF RowsOf(ask[s].pair) = {}
       THEN /\ rows' = rows \cup {[pair |-> ask[s].pair, guess |-> ask[s].guess, correct |-> Correct(s)]}
            /\ Answered(s)
       ELSE UNCHANGED <<rows, last>>
    /\ CloseGuess(s)

\* Variant: the verdict on the earlier guess stays.
GuessReplaced(s, g) == [g EXCEPT !.guess = IF ask[s].guess = read[s].guess THEN @ ELSE ask[s].guess]

\* The row after an update: a column is written if it is not what was read.
Updated(s, g) ==
    [g EXCEPT !.guess = IF ask[s].guess = read[s].guess THEN @ ELSE ask[s].guess,
              !.correct = IF Correct(s) = read[s].correct THEN @ ELSE Correct(s)]

\* The commit of another guess.
UpdateGuess(s) ==
    /\ pc[s] = "update"
    /\ rows' = {IF g.pair = ask[s].pair THEN Updated(s, g) ELSE g : g \in rows}
    /\ Answered(s)
    /\ CloseGuess(s)

\* The request fails before its commit.
LoseGuess(s) == s \in Underway /\ CloseGuess(s) /\ UNCHANGED <<rows, last>>

GuessNext ==
    \E s \in Submissions :
        \/ \E pair \in Pairs, guess \in Kinds : SubmitGuess(s, pair, guess)
        \/ ReadEarlier(s) \/ InsertGuess(s) \/ UpdateGuess(s) \/ LoseGuess(s)

GuessSpec == GuessInit /\ [][GuessNext]_guessVars

\* build_guess_score
Score(u) ==
    [attempts |-> Cardinality({g \in rows : g.pair[1] = u}),
     correct  |-> Cardinality({g \in rows : g.pair[1] = u /\ g.correct})]

-----------------------------------------------------------------------------
(* Properties *)

\* The score is what the player was told: one attempt for each account a guess about
\* was answered, however submissions overlap, with a verdict that fits the guess that
\* is stored (two columns that two updates write apart).  Without overlap of two
\* guesses about one account it counts as correct just those last answered so
\* (submit_guess, build_guess_score).
ScoreIsWhatWasAnswered ==
    /\ \A g \in rows : g.correct = (g.guess = kind[g.pair[2]])
    /\ \A u \in Players :
         LET told == {k \in Pairs : k[1] = u /\ last[k] # "none"} IN
         /\ Score(u).attempts = Cardinality(told)
         /\ apart => Score(u).correct = Cardinality({k \in told : last[k] = kind[k[2]]})
=============================================================================
