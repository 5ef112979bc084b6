---------------------------- MODULE AccountAccess ----------------------------
(***************************************************************************)
(* Invites, accounts and session tokens (services/auth.py, accounts.py).   *)
(*                                                                         *)
(* A request logs in with an invite, uses or ends a session, or, in        *)
(* development, acts for the account its headers name.  Each is one READ   *)
(* COMMITTED transaction; a handler reads nothing after its first flush,   *)
(* so the flush and the commit are one step, at which the unique handle    *)
(* and subject hold.  A login that finds no account admits a new one and   *)
(* stores the invite's use count as the value it read plus one.            *)
(*                                                                         *)
(* A session is named by the login that issued it.  Nothing is fair: a     *)
(* request that stops is a lost connection or server.                      *)
(***************************************************************************)
EXTENDS Naturals, FiniteSets

CONSTANTS
    Requests,    \* HTTP requests
    Handles,     \* users.handle
    Seeded,      \* the handles of accounts that exist from the start, without an invite
    Disabled,    \* those of them whose status is not active
    DevHandle,   \* the handle of the development actor
    Invites,     \* invite codes
    MaxUses,     \* invite_codes.max_uses
    NoInvite,    \* no invite
    NoRequest,   \* no session
    NoHandle,    \* no account named
    MaxRunning,  \* bound: requests in progress at once
    MaxExpiries  \* bound: invites and sessions that expire

ASSUME ConstantsAssumption ==
    /\ IsFiniteSet(Requests) /\ IsFiniteSet(Handles)
    /\ Seeded \subseteq Handles /\ Disabled \subseteq Seeded
    /\ DevHandle \in Handles \ Seeded
    /\ MaxUses \in [Invites -> Nat]
    /\ NoInvite \notin Invites /\ NoRequest \notin Requests /\ NoHandle \notin Handles
    /\ Requests \cap Invites = {}
    /\ MaxRunning \in Nat /\ MaxExpiries \in Nat

VARIABLES
    account,  \* per handle: where its row of users comes from, and its invite_code_id
    uses,     \* invite_codes.use_count
    token,    \* the session_tokens a login issued: live, or revoked_at is set
    expired,  \* invites and sessions whose expires_at has passed
    pc,       \* where each request is
    ask,      \* what it asks
    seen,     \* the use_count or the invite_code_id its session read
    reply,    \* what its client was told
    late,     \* requests that use a session known to have ended before they arrived
    alone     \* no two requests were in progress at once so far

tables == <<account, uses, token>>
history == <<late, alone>>
vars == <<tables, expired, pc, ask, seen, reply, history>>

Absent == [from |-> "nowhere", invite |-> NoInvite]
Stored(h) == account[h] # Absent
Active(h) == h \notin Disabled

NoAsk == [kind |-> "none", handle |-> NoHandle, invite |-> NoInvite, token |-> NoRequest]
LoginAsks == [kind : {"login"}, handle : Handles, invite : Invites, token : {NoRequest}]
TokenAsks == [kind : {"use", "logout"}, handle : {NoHandle}, invite : {NoInvite},
              token : Requests]
DevAsk == [NoAsk EXCEPT !.kind = "dev", !.handle = DevHandle]
Asks == LoginAsks \cup TokenAsks \cup {DevAsk}

Nothing == [uses |-> 0, invite |-> NoInvite, new |-> FALSE]
FirstStep == [login |-> "invite", dev |-> "subject", use |-> "token", logout |-> "token"]
PCs == {"idle", "invite", "account", "grant", "subject", "insert", "token", "touch",
        "revoke", "done"}
Replies == {"none", "granted", "refused", "error", "served", "bye"}
Running == {r \in Requests : pc[r] \notin {"idle", "done"}}

Init ==
    /\ account = [h \in Handles |->
         IF h \in Seeded THEN [from |-> "seed", invite |-> NoInvite] ELSE Absent]
    /\ uses = [i \in Invites |-> 0]
    /\ token = [r \in Requests |-> "none"]
    /\ expired = {}
    /\ pc = [r \in Requests |-> "idle"]
    /\ ask = [r \in Requests |-> NoAsk]
    /\ seen = [r \in Requests |-> Nothing]
    /\ reply = [r \in Requests |-> "none"]
    /\ late = {}
    /\ alone = TRUE

\* A session somebody was told the end of, or whose time has passed.
Ended(t) ==
    \/ t \in expired
    \/ \E q \in Requests : ask[q].token = t /\ reply[q] = "bye"

\* A client sends a request; a session can be named once it was issued.
Arrive(r) ==
    /\ pc[r] = "idle"
    /\ Cardinality(Running) < MaxRunning
    /\ \E a \in Asks :
         /\ a.token # NoRequest => token[a.token] # "none"
         /\ ask' = [ask EXCEPT ![r] = a]
         /\ pc' = [pc EXCEPT ![r] = FirstStep[a.kind]]
         /\ late' = IF a.kind = "use" /\ Ended(a.token) THEN late \cup {r} ELSE late
    /\ alone' = (alone /\ Running = {})
    /\ UNCHANGED <<tables, expired, seen, reply>>

Proceed(r, to) == pc' = [pc EXCEPT ![r] = to] /\ UNCHANGED reply

\* The session is closed: what it read is gone.
Finish(r, answer) ==
    /\ pc' = [pc EXCEPT ![r] = "done"]
    /\ reply' = [reply EXCEPT ![r] = answer]
    /\ seen' = [seen EXCEPT ![r] = Nothing]

-----------------------------------------------------------------------------
(* Login with an invite *)

\* The invite, its expiry and its count.
ReadInvite(r) ==
    /\ pc[r] = "invite"
    /\ \/ /\ ask[r].invite \in expired
          /\ Finish(r, "refused")
       \/ /\ ask[r].invite \notin expired
          /\ seen' = [seen EXCEPT ![r].uses = uses[ask[r].invite]]
          /\ Proceed(r, "account")
    /\ UNCHANGED <<tables, expired, ask, history>>

\* Variant: accounts are not tied to the invite that admitted them.
OtherInviteIgnored(r, h) == FALSE

\* The account was bound to another invite.
OtherInvite(r, h) == account[h].invite \notin {NoInvite, ask[r].invite}

Full(r) == seen[r].uses >= MaxUses[ask[r].invite]

\* The account with the handle, and the refusals.
ReadAccount(r) ==
    /\ pc[r] = "account"
    /\ LET h == ask[r].handle
           refused == IF Stored(h) THEN OtherInvite(r, h) \/ ~Active(h) ELSE Full(r)
       IN  \/ refused /\ Finish(r, "refused")
           \/ /\ ~refused
              /\ seen' = [seen EXCEPT ![r].invite = account[h].invite,
                                      ![r].new = ~Stored(h)]
              /\ Proceed(r, "grant")
    /\ UNCHANGED <<tables, expired, ask, history>>

\* Variant: every login is counted.
CountedAlways(r) == [uses EXCEPT ![ask[r].invite] = seen[r].uses + 1]

\* use_count is stored as a value, for new accounts only.
Counted(r) ==
    IF seen[r].new THEN [uses EXCEPT ![ask[r].invite] = seen[r].uses + 1] ELSE uses

\* Flush and commit: the new account with its count, or the invite of an account
\* that had none, and the session; or the handle was taken since.
Grant(r) ==
    /\ pc[r] = "grant"
    /\ LET h == ask[r].handle
           bind == seen[r].invite = NoInvite
       IN  \/ seen[r].new /\ Stored(h) /\ Finish(r, "error") /\ UNCHANGED tables
           \/ /\ ~(seen[r].new /\ Stored(h))
              /\ account' = IF seen[r].new
                            THEN [account EXCEPT ![h] =
                                    [from |-> "login", invite |-> ask[r].invite]]
                            ELSE IF bind
                            THEN [account EXCEPT ![h].invite = ask[r].invite]
                            ELSE account
              /\ uses' = Counted(r)
              /\ token' = [token EXCEPT ![r] = "live"]
              /\ Finish(r, "granted")
    /\ UNCHANGED <<expired, ask, history>>

-----------------------------------------------------------------------------
(* Sessions *)

\* What the lookup of a session refuses; a logout does not look at the expiry.
Dead(r) ==
    \/ token[ask[r].token] = "revoked"
    \/ ask[r].kind = "use" /\ ask[r].token \in expired

\* _resolve_user_from_session, get_active_session_token.
ReadToken(r) ==
    /\ pc[r] = "token"
    /\ \/ Dead(r) /\ Finish(r, "refused")
       \/ /\ ~Dead(r)
          /\ Proceed(r, IF ask[r].kind = "use" THEN "touch" ELSE "revoke")
          /\ UNCHANGED seen
    /\ UNCHANGED <<tables, expired, ask, history>>

\* Variant: the whole row is written back as it was read.
TouchedWhole(r) == [token EXCEPT ![ask[r].token] = "live"]

\* Only last_used_at is stored, whatever became of the row meanwhile.
Touched(r) == token

\* The route does its work and commits.
Touch(r) ==
    /\ pc[r] = "touch"
    /\ token' = Touched(r)
    /\ Finish(r, "served")
    /\ UNCHANGED <<account, uses, expired, ask, history>>

\* logout
Revoke(r) ==
    /\ pc[r] = "revoke"
    /\ token' = [token EXCEPT ![ask[r].token] = "revoked"]
    /\ Finish(r, "bye")
    /\ UNCHANGED <<account, uses, expired, ask, history>>

-----------------------------------------------------------------------------
(* The development actor *)

\* ensure_user_for_actor looks for the subject of the headers.
ReadSubject(r) ==
    /\ pc[r] = "subject"
    /\ \/ account[DevHandle].from = "dev" /\ Finish(r, "served")
       \/ account[DevHandle].from # "dev" /\ Proceed(r, "insert") /\ UNCHANGED seen
    /\ UNCHANGED <<tables, expired, ask, history>>

\* It stores the account, which lasts if the route commits.
InsertActor(r) ==
    /\ pc[r] = "insert"
    /\ \/ Stored(DevHandle) /\ Finish(r, "error") /\ UNCHANGED account
       \/ /\ ~Stored(DevHandle)
          /\ account' = [account EXCEPT ![DevHandle] = [from |-> "dev", invite |-> NoInvite]]
          /\ Finish(r, "served")
       \/ ~Stored(DevHandle) /\ Finish(r, "served") /\ UNCHANGED account
    /\ UNCHANGED <<uses, token, expired, ask, history>>

\* Time passes: an invite, or a session that was issued.
Expire(x) ==
    /\ x \notin expired
    /\ Cardinality(expired) < MaxExpiries
    /\ x \in Requests => token[x] # "none"
    /\ expired' = expired \cup {x}
    /\ UNCHANGED <<tables, pc, ask, seen, reply, history>>

Next ==
    \/ \E r \in Requests :
         \/ Arrive(r) \/ ReadInvite(r) \/ ReadAccount(r) \/ Grant(r)
         \/ ReadToken(r) \/ Touch(r) \/ Revoke(r)
         \/ ReadSubject(r) \/ InsertActor(r)
    \/ \E x \in Invites \cup Requests : Expire(x)

Spec == Init /\ [][Next]_vars

-----------------------------------------------------------------------------
(* Properties *)

Origins == {"nowhere", "seed", "login", "dev"}

\* The type of every variable; only logins issue sessions, and they are their own.
TypeOK ==
    /\ account \in [Handles -> [from : Origins, invite : Invites \cup {NoInvite}]]
    /\ uses \in [Invites -> Nat]
    /\ token \in [Requests -> {"none", "live", "revoked"}]
    /\ expired \subseteq Invites \cup Requests
    /\ pc \in [Requests -> PCs]
    /\ ask \in [Requests -> Asks \cup {NoAsk}]
    /\ seen \in [Requests ->
         [uses : Nat, invite : Invites \cup {NoInvite}, new : BOOLEAN]]
    /\ reply \in [Requests -> Replies]
    /\ late \subseteq Requests
    /\ alone \in BOOLEAN

\* The accounts an invite admitted (create_or_consume_invite).
Admitted(i) == {h \in Handles : account[h].from = "login" /\ account[h].invite = i}

\* The recorded count of an invite never passes max_uses nor the accounts it
\* admitted, it is never lost altogether, and without overlapping requests it is
\* exact, so that no more than max_uses accounts were admitted.
InviteUsesBounded ==
    \A i \in Invites :
        /\ uses[i] <= MaxUses[i]
        /\ uses[i] <= Cardinality(Admitted(i))
        /\ Admitted(i) # {} => uses[i] >= 1
        /\ alone => uses[i] = Cardinality(Admitted(i))

\* Every session of an account that an invite admitted was obtained with that
\* invite, whatever raced; that of an older account too, if nothing did
\* (create_or_consume_invite binds it at its first login).
OneInviteForLife ==
    \A r \in Requests :
        token[r] # "none" =>
            LET row == account[ask[r].handle]
            IN  row.from = "login" \/ alone => row.invite = ask[r].invite

\* A request that arrives after its session's logout was confirmed, or after the
\* session expired, is not served, though other requests that found the session
\* alive still end and write to its row (_resolve_user_from_session, logout).
NoUseAfterEnd == \A r \in late : reply[r] # "served"
=============================================================================
