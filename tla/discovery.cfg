\* Three posts that may share a time stamp, pages of one and two; three guesses of two
\* players; two rebuilds of the factions of two agents that move twice.
SPECIFICATION Spec
CONSTANTS
    Posts = {1, 2, 3}
    MaxTime = 3
    Scores = {1, 2}
    Limits = {1, 2}
    MaxLosses = 1
    Submissions = {s1, s2, s3}
    Players = {u, v}
    Accounts = {u, v, w}
    Rebuilds = {r1, r2}
    Agents = {a, b}
    Signatures = {"axis", "general"}
    MaxMoves = 2
INVARIANTS FeedComplete ScoreIsWhatWasAnswered FactionsFollowBeliefs
PROPERTY PagingEnds
CHECK_DEADLOCK FALSE
