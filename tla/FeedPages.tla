----------------------------- MODULE FeedPages -----------------------------
(***************************************************************************)
(* A reader pages through the home feed (services/feed.py, ml.py,          *)
(* GET /v1/feed).                                                          *)
(*                                                                         *)
(* A page is cut from a window of twice its size: the newest posts behind  *)
(* the cursor, ranked by a score each, the best of them served.  The next  *)
(* cursor is the last of the page by score, while the window is selected   *)
(* by time.  A score is calculated from counters, features and a           *)
(* calibration read for every post anew, so it is any score.  A post is    *)
(* stamped before its commit: it may come into sight behind newer ones.    *)
(* The posts are the numbers that order their identifiers.                 *)
(***************************************************************************)
EXTENDS Naturals, Sequences, FiniteSets

CONSTANTS
    Posts,      \* identifiers of posts, which are compared in cursors
    MaxTime,    \* bound: time stamps
    Scores,     \* scores of posts
    Limits,     \* page sizes that are asked for
    MaxLosses   \* bound: answers that are lost

ASSUME FeedAssumption ==
    /\ Posts \subseteq Nat /\ IsFiniteSet(Posts)
    /\ Scores \subseteq Nat /\ Scores # {}
    /\ Limits \subseteq Nat \ {0} /\ Limits # {}
    /\ MaxTime \in Nat /\ MaxLosses \in Nat

VARIABLES
    time,      \* created_at of each post, 0 while it is not public
    walk,      \* where the reader is: home, asks, waits, end
    cursor,    \* the posts the cursor names: none or one
    limit,     \* the page size asked for
    window,    \* the rows selected for the request
    first,     \* history: the posts public when the first window was selected
    shown,     \* how often each post was shown to the reader, 2 for more than once
    logged,    \* the posts with a row in the inference log
    losses,    \* answers lost so far
    straight   \* history: time stamps distinct and every page served in their order

feedVars == <<time, walk, cursor, limit, window, first, shown, logged, losses, straight>>

Public == {p \in Posts : time[p] # 0}

\* _apply_cursor
Behind(p, q) == time[p] < time[q] \/ (time[p] = time[q] /\ p < q)

\* Variant: the post of the cursor comes again.
SelectedAgain == {p \in Public : \A q \in cursor : p = q \/ Behind(p, q)}

\* The public posts a request may select.
Selected == {p \in Public : \A q \in cursor : Behind(p, q)}

\* ORDER BY created_at DESC LIMIT n: posts of the same time come in any order.
Windows(n) ==
    LET size == IF Cardinality(Selected) < n THEN Cardinality(Selected) ELSE n
    IN  {w \in [1..size -> Selected] :
            /\ \A i, j \in 1..size : i < j => w[i] # w[j] /\ time[w[i]] >= time[w[j]]
            /\ \A p \in Selected \ {w[i] : i \in 1..size} : \A i \in 1..size : time[p] <= time[w[i]]}

PostsOn(page) == {page[i] : i \in DOMAIN page}

\* The stable sort by score, and the page cut from it.
Page(score) ==
    LET better(i, j) == score[i] > score[j] \/ (score[i] = score[j] /\ i < j)
        ranked == [k \in DOMAIN window |->
                      CHOOSE p \in PostsOn(window) :
                          \E i \in DOMAIN window :
                              /\ p = window[i]
                              /\ Cardinality({j \in DOMAIN window : better(j, i)}) = k - 1]
    IN  SubSeq(ranked, 1, IF limit < Len(window) THEN limit ELSE Len(window))

FeedInit ==
    /\ time \in [Posts -> 0..MaxTime]
    /\ walk = "home" /\ cursor = {} /\ limit = 0 /\ window = <<>> /\ first = {}
    /\ shown = [p \in Posts |-> 0]
    /\ logged = {}
    /\ losses = 0
    /\ straight = (\A p, q \in Public : time[p] = time[q] => p = q)

\* create_post and its companions: a post comes into sight.
Publish(p) ==
    /\ time[p] = 0
    /\ \E t \in 1..MaxTime :
         /\ time' = [time EXCEPT ![p] = t]
         /\ straight' = (straight /\ \A q \in Public : time[q] # t)
    /\ UNCHANGED <<walk, cursor, limit, window, first, shown, logged, losses>>

OpenFeed ==
    /\ walk = "home"
    /\ walk' = "asks"
    /\ UNCHANGED <<time, cursor, limit, window, first, shown, logged, losses, straight>>

\* GET /v1/feed, as far as the selected rows.
SelectRows ==
    /\ walk = "asks"
    /\ \E n \in Limits : limit' = n /\ window' \in Windows(2 * n)
    /\ walk' = "waits"
    /\ first' = IF cursor = {} THEN Public ELSE first
    /\ UNCHANGED <<time, cursor, shown, logged, losses, straight>>

\* Variant: the first post of a page names the next one.
CursorOfFirst(page) == IF Len(page) = limit THEN {page[1]} ELSE {}

\* encode_feed_cursor: none after a page that is not full, or without rows.
NextCursor(page) == IF Len(page) = limit THEN {page[Len(page)]} ELSE {}

\* log_feed_rankings: a row for each post served (and one of the shadow model beside it).
Log(page) == logged' = logged \cup PostsOn(page)

\* The posts are scored, ranked, logged and the page arrives.
Answer ==
    /\ walk = "waits"
    /\ \E score \in [DOMAIN window -> Scores] :
         LET page == Page(score) IN
         /\ Log(page)
         /\ shown' = [p \in Posts |-> IF p \notin PostsOn(page) THEN shown[p]
                                     ELSE IF shown[p] = 0 THEN 1 ELSE 2]
         /\ cursor' = NextCursor(page)
         /\ walk' = IF NextCursor(page) = {} THEN "end" ELSE "asks"
         /\ straight' = (straight /\ page = SubSeq(window, 1, Len(page)))
    /\ limit' = 0 /\ window' = <<>>
    /\ UNCHANGED <<time, first, losses>>

\* The answer is lost, before the commit or after it; the reader asks again.
LoseAnswer ==
    /\ walk = "waits"
    /\ losses < MaxLosses
    /\ \/ UNCHANGED <<logged>>
       \/ \E score \in [DOMAIN window -> Scores] : Log(Page(score))
    /\ losses' = losses + 1
    /\ walk' = "asks" /\ limit' = 0 /\ window' = <<>>
    /\ UNCHANGED <<time, cursor, first, shown, straight>>

FeedNext ==
    \/ \E p \in Posts : Publish(p)
    \/ OpenFeed \/ SelectRows \/ Answer \/ LoseAnswer

\* The server answers and the reader goes on asking.
FeedFairness == WF_feedVars(SelectRows) /\ WF_feedVars(Answer)

FeedSpec == FeedInit /\ [][FeedNext]_feedVars /\ FeedFairness

-----------------------------------------------------------------------------
(* Properties *)

\* What a reader relies on while scores fall with age and no two posts share a time
\* stamp: no post is shown twice, and each of those public when the walk began is
\* shown before the cursor passes it (the cursor against the window,
\* build_home_feed).  And always: a post that was shown is in the inference log
\* (log_feed_rankings).
FeedComplete ==
    /\ straight =>
         \A p \in Posts :
             /\ shown[p] <= 1
             /\ p \in first /\ walk \in {"asks", "end"}
                  /\ (walk = "end" \/ \E q \in cursor : p = q \/ Behind(q, p)) => shown[p] = 1
    /\ \A p \in Posts : shown[p] > 0 => p \in logged

\* A reader who goes on asking comes to the last page, whatever the scores and
\* whatever is published meanwhile: every cursor lies behind the one before
\* (_apply_cursor).
PagingEnds == walk = "asks" ~> walk = "end"
=============================================================================
