------------------------------ MODULE WebClient ------------------------------
(***************************************************************************)
(* The provider of the web client (app-shell.tsx) in one browser tab, and  *)
(* the routes it calls, as far as it can tell them apart.                  *)
(*                                                                         *)
(* Every click starts an asynchronous call that captures the session of    *)
(* the moment; a call may go on with a refresh of the whole store.  Calls  *)
(* are served and return in any order; an answer may be lost before or     *)
(* after the server did its part, and a reload of the page forgets the     *)
(* calls and keeps what is in the local storage.                           *)
(*                                                                         *)
(* Calls are numbered as they begin; a session is named by the call that   *)
(* logged in.  The lists of the store are reduced to posts and followed    *)
(* accounts; likes, guesses and trends come and go with them.              *)
(***************************************************************************)
EXTENDS Naturals, FiniteSetsExt

CONSTANTS
    Members,     \* accounts
    Texts,       \* what is posted
    Keyable,     \* texts that fit into a header and into idempotency_keys.key
    Nobody,      \* no account
    MaxClicks,   \* bound: clicks, and loads of the page
    MaxTroubles  \* bound: answers lost, sessions expired, pages loaded again

ASSUME WebAssumption ==
    /\ Keyable \subseteq Texts
    /\ Nobody \notin Members
    /\ MaxClicks \in Nat /\ MaxTroubles \in Nat

Clicks == 1..MaxClicks
NoSession == 0

VARIABLES
    session,   \* the provider's token
    saved,     \* the token in the local storage
    store,     \* what the provider shows, and of whom
    busy,      \* isBusy
    told,      \* whose posts were reported as published
    at,        \* where each call is
    call,      \* what it does, in which session
    got,       \* what a refresh has received
    wire,      \* calls the server has not served
    owner,     \* server: the account of each session
    dead,      \* server: sessions that were logged out or have expired
    posts,     \* server: the posts, each with its idempotency key
    followed,  \* server: who follows whom
    troubles,  \* troubles so far
    since,     \* history: the order in which calls under way began or went on, 0 if overtaken
    inOrder    \* history: no overtaken call returned, nor one that outlived its session

tab == <<session, saved, store, busy, told>>
server == <<owner, dead, posts, followed>>
order == <<since, inOrder>>
webVars == <<tab, at, call, got, wire, server, troubles, order>>

Blank == [profile |-> Nobody, of |-> Nobody, feed |-> {}, drafts |-> {}, follows |-> {}]
NoCall == [kind |-> "none", session |-> NoSession, about |-> Nobody]
NoLists == [feed |-> {}, follows |-> {}]

IsNext(c) == \A d \in Clicks : at[d] = "idle" <=> d >= c
Pending == {c \in Clicks : at[c] \notin {"idle", "done"}}
Alive(c) == call[c].session \notin dead
Who(c) == owner[call[c].session]

WebInit ==
    /\ session = NoSession /\ saved = NoSession /\ store = Blank /\ busy = FALSE /\ told = {}
    /\ at = [c \in Clicks |-> "idle"]
    /\ call = [c \in Clicks |-> NoCall]
    /\ got = [c \in Clicks |-> NoLists]
    /\ wire = {}
    /\ owner = [c \in Clicks |-> Nobody]
    /\ dead = {} /\ posts = {} /\ followed = {}
    /\ troubles = 0
    /\ since = [c \in Clicks |-> 0] /\ inOrder = TRUE

Now == 1 + Max({since[c] : c \in Clicks})

\* A request leaves the tab, or the six of a refresh.
Send(c, does) ==
    /\ call' = [call EXCEPT ![c] = does]
    /\ at' = [at EXCEPT ![c] = "waits"]
    /\ wire' = wire \cup {c}
    /\ since' = [since EXCEPT ![c] = Now]

-----------------------------------------------------------------------------
(* What the user does.  Without a session only the form to log in is shown. *)

Click(c, kind, about) ==
    /\ IsNext(c)
    /\ Send(c, [kind |-> kind, session |-> session, about |-> about])
    /\ UNCHANGED <<session, saved, told, got, server, troubles, inOrder>>

LogIn(c) ==
    /\ session = NoSession /\ ~busy
    /\ \E m \in Members : Click(c, "login", m)
    /\ busy' = TRUE
    /\ UNCHANGED store

\* createPost shows the post at once.
PublishPost(c) ==
    /\ session # NoSession /\ store.profile # Nobody /\ ~busy
    /\ \E x \in Texts : Click(c, "post", x)
    /\ store' = [store EXCEPT !.drafts = @ \cup {c}]
    /\ UNCHANGED busy

\* followAccount, for an account of the list that is not followed, shows it followed.
Follow(c) ==
    /\ session # NoSession /\ store.of # Nobody
    /\ \E m \in Members \ (store.follows \cup {store.of}) :
         /\ Click(c, "follow", m)
         /\ store' = [store EXCEPT !.follows = @ \cup {m}]
    /\ UNCHANGED busy

\* logout, saveProfile, and submitGuess or createComment, which refresh afterwards.
Request(c) ==
    /\ session # NoSession
    /\ \E kind \in {"logout", "profile", "reply"} : Click(c, kind, Nobody)
    /\ UNCHANGED <<store, busy>>

-----------------------------------------------------------------------------
(* The server *)

Arrives(c, kind) == c \in wire /\ call[c].kind = kind

\* The answer is on its way, if the tab still waits for it.
Served(c, accepted) ==
    /\ wire' = wire \ {c}
    /\ at' = IF at[c] # "waits" THEN at
             ELSE [at EXCEPT ![c] = IF accepted THEN "ok" ELSE "failed"]
    /\ call' = IF at[c] = "done" THEN [call EXCEPT ![c] = NoCall] ELSE call
    /\ UNCHANGED <<tab, troubles, order>>

ServeLogin(c) ==
    /\ Arrives(c, "login")
    /\ Served(c, TRUE)
    /\ owner' = [owner EXCEPT ![c] = call[c].about]
    /\ UNCHANGED <<got, dead, posts, followed>>

ServeLogout(c) ==
    /\ Arrives(c, "logout")
    /\ Served(c, Alive(c))
    /\ dead' = dead \cup {call[c].session}
    /\ UNCHANGED <<got, owner, posts, followed>>

\* saveProfile, submitGuess, createComment: their rows are of no account here.
ServeOther(c) ==
    /\ Arrives(c, "profile") \/ Arrives(c, "reply")
    /\ Served(c, Alive(c))
    /\ UNCHANGED <<got, server>>

\* Variant: a key for every click.
KeyOfClick(c) == <<Who(c), c>>

\* The Idempotency-Key of a post, which counts per account.
Key(c) == <<Who(c), call[c].about>>

What(c) == [by |-> Who(c), text |-> call[c].about]

\* A post; one with the key of another is answered with it, or fails if it came while
\* the other was being stored.  A text that is no header or too long for a key fails.
ServePost(c) ==
    /\ Arrives(c, "post")
    /\ LET fits == Alive(c) /\ call[c].about \in Keyable
           known == \E p \in posts : p.key = Key(c)
       IN  /\ \E accepted \in IF fits /\ known THEN BOOLEAN ELSE {fits} : Served(c, accepted)
           /\ posts' = IF fits /\ ~known
                       THEN posts \cup {[id |-> c, key |-> Key(c), what |-> What(c)]} ELSE posts
    /\ UNCHANGED <<got, owner, dead, followed>>

\* A second follow, too, is answered or collides with the first.
ServeFollow(c) ==
    /\ Arrives(c, "follow")
    /\ LET fits == Alive(c) /\ Who(c) # call[c].about
           link == <<Who(c), call[c].about>>
       IN  /\ \E accepted \in IF fits /\ link \in followed THEN BOOLEAN ELSE {fits} :
                Served(c, accepted)
           /\ followed' = IF fits THEN followed \cup {link} ELSE followed
    /\ UNCHANGED <<got, owner, dead, posts>>

\* The reads of a refresh; they come at different moments, but nothing relates them.
ServeRefresh(c) ==
    /\ Arrives(c, "refresh")
    /\ Served(c, Alive(c))
    /\ got' = IF ~Alive(c) THEN got
              ELSE [got EXCEPT ![c] =
                [feed |-> posts, follows |-> {m \in Members : <<Who(c), m>> \in followed}]]
    /\ UNCHANGED server

-----------------------------------------------------------------------------
(* The answers *)

\* A call returns, perhaps after a refresh that began later than it, or when the tab
\* is no longer in the session in which the call was sent.
Return(c, answer) ==
    /\ at[c] = answer
    /\ inOrder' = (inOrder /\ since[c] # 0 /\ call[c].session = session)
    /\ UNCHANGED <<server, troubles>>

\* A call has nothing more to do; as a refresh it overtook the calls sent before.
Close(c, overtaken) ==
    /\ since' = [d \in Clicks |-> IF d = c \/ d \in overtaken THEN 0 ELSE since[d]]
    /\ at' = [at EXCEPT ![c] = "done"]
    /\ got' = [got EXCEPT ![c] = NoLists]
    /\ call' = IF c \in wire THEN call ELSE [call EXCEPT ![c] = NoCall]
    /\ UNCHANGED wire

\* It goes on with refreshAll, for the session it began with or got.
Refresh(c, s) ==
    /\ Send(c, [call[c] EXCEPT !.kind = "refresh", !.session = s])
    /\ busy' = TRUE
    /\ UNCHANGED got

Forget == session' = NoSession /\ saved' = NoSession /\ store' = Blank

LoginReturns(c) ==
    /\ call[c].kind = "login"
    /\ \/ /\ Return(c, "ok")
          /\ saved' = c /\ session' = c
          /\ Refresh(c, c)
          /\ UNCHANGED store
       \/ /\ Return(c, "failed")
          /\ busy' = FALSE
          /\ Close(c, {})
          /\ UNCHANGED <<session, saved, store>>
    /\ UNCHANGED told

\* Whether or not the server took notice.
LogoutReturns(c) ==
    /\ call[c].kind = "logout"
    /\ Return(c, "ok") \/ Return(c, "failed")
    /\ Forget
    /\ Close(c, {})
    /\ UNCHANGED <<busy, told>>

PostReturns(c) ==
    /\ call[c].kind = "post"
    /\ \/ /\ Return(c, "ok")
          /\ told' = told \cup {What(c)}
          /\ Refresh(c, call[c].session)
          /\ UNCHANGED store
       \/ /\ Return(c, "failed")
          /\ store' = [store EXCEPT !.drafts = @ \ {c}]
          /\ Close(c, {})
          /\ UNCHANGED <<busy, told>>
    /\ UNCHANGED <<session, saved>>

FollowReturns(c) ==
    /\ call[c].kind = "follow"
    /\ \/ Return(c, "ok") /\ UNCHANGED store
       \/ /\ Return(c, "failed")
          /\ store' = [store EXCEPT !.follows = @ \ {call[c].about}]
    /\ Close(c, {})
    /\ UNCHANGED <<session, saved, busy, told>>

ProfileReturns(c) ==
    /\ call[c].kind = "profile"
    /\ \/ Return(c, "ok") /\ store' = [store EXCEPT !.profile = Who(c)]
       \/ Return(c, "failed") /\ UNCHANGED store
    /\ Close(c, {})
    /\ UNCHANGED <<session, saved, busy, told>>

ReplyReturns(c) ==
    /\ call[c].kind = "reply"
    /\ \/ Return(c, "ok") /\ Refresh(c, call[c].session)
       \/ Return(c, "failed") /\ Close(c, {}) /\ UNCHANGED busy
    /\ UNCHANGED <<session, saved, store, told>>

\* Variant: what the user posted stays in front of the feed.
RefreshedBehind(c) ==
    [profile |-> Who(c), of |-> Who(c), feed |-> got[c].feed, drafts |-> store.drafts,
     follows |-> got[c].follows]

\* What a refresh puts in place of all that was shown.
Refreshed(c) ==
    [profile |-> Who(c), of |-> Who(c), feed |-> got[c].feed, drafts |-> {},
     follows |-> got[c].follows]

\* A refresh that failed ends the session of the tab, whichever it is.
RefreshReturns(c) ==
    /\ call[c].kind = "refresh"
    /\ \/ Return(c, "ok") /\ store' = Refreshed(c) /\ UNCHANGED <<session, saved>>
       \/ Return(c, "failed") /\ Forget
    /\ busy' = FALSE
    /\ Close(c, {d \in Pending : since[d] < since[c]})
    /\ UNCHANGED told

-----------------------------------------------------------------------------
(* Troubles *)

Trouble == troubles < MaxTroubles /\ troubles' = troubles + 1

\* An answer is lost, or the request, or the request comes late.
LoseAnswer(c) ==
    /\ Trouble
    /\ at[c] \in {"waits", "ok"}
    /\ at' = [at EXCEPT ![c] = "failed"]
    /\ wire' \in {wire, wire \ {c}}
    /\ call[c].kind = "refresh" => c \notin wire'
    /\ UNCHANGED <<tab, call, got, server, order>>

SessionExpires(s) ==
    /\ Trouble
    /\ owner[s] # Nobody
    /\ dead' = dead \cup {s}
    /\ UNCHANGED <<tab, at, call, got, wire, owner, posts, followed, order>>

\* The page is loaded again: useEffect takes the saved session and refreshes.
Reload(c) ==
    /\ Trouble
    /\ IsNext(c)
    /\ session' = saved
    /\ store' = Blank
    /\ LET late == {d \in wire : call[d].kind # "refresh"}
           next == IF saved = NoSession THEN {} ELSE {c}
       IN  /\ at' = [d \in Clicks |-> IF d \in next THEN "waits"
                                     ELSE IF at[d] = "idle" THEN "idle" ELSE "done"]
           /\ wire' = late \cup next
           /\ call' = [d \in Clicks |->
                IF d \in next THEN [kind |-> "refresh", session |-> saved, about |-> Nobody]
                ELSE IF d \in late THEN call[d] ELSE NoCall]
           /\ since' = [d \in Clicks |-> IF d \in next THEN 1 ELSE 0]
           /\ busy' = (next # {})
    /\ got' = [d \in Clicks |-> NoLists]
    /\ UNCHANGED <<saved, told, server, inOrder>>

WebNext ==
    \E c \in Clicks :
        \/ LogIn(c) \/ PublishPost(c) \/ Follow(c) \/ Request(c)
        \/ ServeLogin(c) \/ ServeLogout(c) \/ ServeOther(c) \/ ServePost(c)
        \/ ServeFollow(c) \/ ServeRefresh(c)
        \/ LoginReturns(c) \/ LogoutReturns(c) \/ PostReturns(c) \/ FollowReturns(c)
        \/ ProfileReturns(c) \/ ReplyReturns(c) \/ RefreshReturns(c)
        \/ LoseAnswer(c) \/ SessionExpires(c) \/ Reload(c)

WebSpec == WebInit /\ [][WebNext]_webVars

-----------------------------------------------------------------------------
(* Properties *)

\* A text is published at most once by an account, however often the user clicks,
\* loses answers or loads the page again, and what was reported as published is
\* (createPost's key; a later post of the same text is reported and not stored).
PublishedOnce ==
    /\ \A p, q \in posts : p.what = q.what => p = q
    /\ \A t \in told : \E p \in posts : p.what = t

\* When nothing is under way no optimistic post is left in the feed, whatever
\* overlapped or failed.  Unless a refresh overtook a call or a call outlived its
\* session, the tab then shows the account of its session (refreshAll against logout
\* and login), as following only whom it follows, and all it reported as published.
StoreFollowsSession ==
    Pending = {} =>
        /\ store.drafts = {}
        /\ inOrder /\ session # NoSession =>
             LET me == owner[session] IN
             /\ store.profile = me /\ store.of = me
             /\ \A m \in store.follows : <<me, m>> \in followed
             /\ \A t \in told : \E p \in store.feed : p.what = t
=============================================================================
