----------------------------- MODULE MCDiscovery -----------------------------
(* The feed, the guess game and the factions write no rows that another of them *)
(* reads: each is explored while the others rest. *)
EXTENDS FeedPages, GuessGame, Factions

FeedRests == FeedInit /\ Public = {}
GuessRests == GuessInit /\ \A a \in Accounts : kind[a] = "human"
FactionsRest == FactionsInit /\ signature = Nobody

Init ==
    \/ FeedInit /\ GuessRests /\ FactionsRest
    \/ GuessInit /\ FeedRests /\ FactionsRest
    \/ FactionsInit /\ FeedRests /\ GuessRests

Next ==
    \/ GuessRests /\ FactionsRest /\ FeedNext /\ UNCHANGED <<guessVars, factionVars>>
    \/ FeedRests /\ FactionsRest /\ GuessNext /\ UNCHANGED <<feedVars, factionVars>>
    \/ FeedRests /\ GuessRests /\ FactionsNext /\ UNCHANGED <<feedVars, guessVars>>

Spec == Init /\ [][Next]_<<feedVars, guessVars, factionVars>> /\ FeedFairness
=============================================================================
