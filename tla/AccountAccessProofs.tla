------------------------- MODULE AccountAccessProofs -------------------------
(***************************************************************************)
(* Invites, accounts and sessions for any requests, accounts and invites.  *)
(*                                                                         *)
(* The invariant is built in layers, each proved action by action: types;  *)
(* sessions and their ends; the invites of accounts; the use counts.       *)
(***************************************************************************)
EXTENDS AccountAccess, FiniteSetTheorems, TLAPS

USE ConstantsAssumption

LoginSteps == {"invite", "account", "grant"}
TokenSteps == {"token", "touch", "revoke"}

-----------------------------------------------------------------------------
(* Types.  A request in a login names an account and an invite, one that   *)
(* looks up a session names a session.                                     *)

Asked ==
    \A r \in Requests :
        /\ pc[r] \in LoginSteps => ask[r] \in LoginAsks
        /\ pc[r] \in TokenSteps => ask[r] \in TokenAsks
        /\ pc[r] = "idle" => reply[r] = "none" /\ seen[r] = Nothing

TypeInv == TypeOK /\ Asked

LEMMA LoginAsk ==
    ASSUME NEW r \in Requests, ask[r] \in LoginAsks
    PROVE  ask[r].handle \in Handles /\ ask[r].invite \in Invites /\ ask[r].kind = "login"
  BY DEF LoginAsks

LEMMA TokenAsk ==
    ASSUME NEW r \in Requests, ask[r] \in TokenAsks
    PROVE  ask[r].token \in Requests /\ ask[r].kind \in {"use", "logout"}
  BY DEF TokenAsks

\* What is asked decides where a request begins.
LEMMA AskKinds ==
    ASSUME NEW a \in Asks
    PROVE  /\ FirstStep[a.kind] \in PCs \ {"idle", "done"}
           /\ FirstStep[a.kind] \in LoginSteps => a \in LoginAsks
           /\ FirstStep[a.kind] \in TokenSteps => a \in TokenAsks
           /\ a.kind = "use" => FirstStep[a.kind] = "token"
           /\ FirstStep[a.kind] \notin {"account", "grant"}
<1>1. CASE a \in LoginAsks
  <2>1. a.kind = "login" /\ FirstStep[a.kind] = "invite"
    BY <1>1 DEF LoginAsks, FirstStep
  <2>. QED  BY <1>1, <2>1 DEF PCs, LoginSteps, TokenSteps
<1>2. CASE a \in TokenAsks
  <2>1. a.kind \in {"use", "logout"} /\ FirstStep[a.kind] = "token"
    BY <1>2 DEF TokenAsks, FirstStep
  <2>. QED  BY <1>2, <2>1 DEF PCs, LoginSteps, TokenSteps
<1>3. CASE a = DevAsk
  <2>1. a.kind = "dev" /\ FirstStep[a.kind] = "subject"
    BY <1>3 DEF DevAsk, NoAsk, FirstStep
  <2>. QED  BY <2>1 DEF PCs, LoginSteps, TokenSteps
<1>. QED  BY <1>1, <1>2, <1>3 DEF Asks

LEMMA InitType == Init => TypeInv
<1> SUFFICES ASSUME Init PROVE TypeInv
  OBVIOUS
<1>1. TypeOK
  BY DEF Init, TypeOK, Absent, Origins, PCs, Replies, Nothing, Asks
<1>2. Asked
  BY DEF Init, Asked, LoginSteps, TokenSteps
<1>. QED  BY <1>1, <1>2 DEF TypeInv

\* Ending a request keeps the types of what it writes.
LEMMA FinishType ==
    ASSUME TypeInv, NEW r \in Requests, pc[r] # "idle", NEW answer \in Replies,
           Finish(r, answer), UNCHANGED ask
    PROVE  /\ pc' \in [Requests -> PCs]
           /\ reply' \in [Requests -> Replies]
           /\ seen' \in [Requests -> [uses : Nat, invite : Invites \cup {NoInvite}, new : BOOLEAN]]
           /\ Asked'
  BY DEF TypeInv, TypeOK, Asked, Finish, PCs, Nothing, LoginSteps, TokenSteps

\* So does going on to the next step of the same kind.
LEMMA ProceedType ==
    ASSUME TypeInv, NEW r \in Requests, NEW to \in PCs \ {"idle"}, Proceed(r, to),
           \/ pc[r] \in LoginSteps /\ to \in LoginSteps
           \/ pc[r] \in TokenSteps /\ to \in TokenSteps
           \/ to \in {"insert"},
           UNCHANGED ask, \A q \in Requests \ {r} : seen'[q] = seen[q]
    PROVE  pc' \in [Requests -> PCs] /\ reply' \in [Requests -> Replies] /\ Asked'
  BY DEF TypeInv, TypeOK, Asked, Proceed, PCs, LoginSteps, TokenSteps

LEMMA NextType == TypeInv /\ [Next]_vars => TypeInv'
<1> SUFFICES ASSUME TypeInv, [Next]_vars PROVE TypeInv'
  OBVIOUS
<1>0. CASE UNCHANGED vars
  BY <1>0 DEF vars, tables, history, TypeInv, TypeOK, Asked
<1>1. ASSUME NEW r \in Requests, Arrive(r) PROVE TypeInv'
  <2>1. PICK a \in Asks :
          /\ ask' = [ask EXCEPT ![r] = a]
          /\ pc' = [pc EXCEPT ![r] = FirstStep[a.kind]]
          /\ late' = IF a.kind = "use" /\ Ended(a.token) THEN late \cup {r} ELSE late
    BY <1>1 DEF Arrive
  <2>2. TypeOK'
    BY <1>1, <2>1, AskKinds DEF Arrive, tables, TypeInv, TypeOK
  <2>3. Asked'
    BY <1>1, <2>1, AskKinds DEF Arrive, TypeInv, TypeOK, Asked
  <2>. QED  BY <2>2, <2>3 DEF TypeInv
<1>2. ASSUME NEW r \in Requests, ReadInvite(r) PROVE TypeInv'
  <2>1. ask[r] \in LoginAsks
    BY <1>2 DEF ReadInvite, TypeInv, Asked, LoginSteps
  <2>2. CASE Finish(r, "refused")
    BY <1>2, <2>2, FinishType DEF ReadInvite, tables, history, Replies, TypeInv, TypeOK
  <2>3. CASE seen' = [seen EXCEPT ![r].uses = uses[ask[r].invite]] /\ Proceed(r, "account")
    <3>1. uses[ask[r].invite] \in Nat
      BY <2>1, LoginAsk DEF TypeInv, TypeOK
    <3>2. seen' \in [Requests -> [uses : Nat, invite : Invites \cup {NoInvite}, new : BOOLEAN]]
          /\ \A q \in Requests \ {r} : seen'[q] = seen[q]
      BY <2>3, <3>1 DEF TypeInv, TypeOK
    <3>3. pc' \in [Requests -> PCs] /\ reply' \in [Requests -> Replies] /\ Asked'
      BY <1>2, <2>3, <3>2, ProceedType DEF ReadInvite, PCs, LoginSteps
    <3>. QED  BY <1>2, <3>2, <3>3 DEF ReadInvite, tables, history, TypeInv, TypeOK
  <2>. QED  BY <1>2, <2>2, <2>3 DEF ReadInvite
<1>3. ASSUME NEW r \in Requests, ReadAccount(r) PROVE TypeInv'
  <2>1. ask[r] \in LoginAsks
    BY <1>3 DEF ReadAccount, TypeInv, Asked, LoginSteps
  <2>2. CASE Finish(r, "refused")
    BY <1>3, <2>2, FinishType DEF ReadAccount, tables, history, Replies, TypeInv, TypeOK
  <2>3. CASE /\ seen' = [seen EXCEPT ![r].invite = account[ask[r].handle].invite,
                                     ![r].new = ~Stored(ask[r].handle)]
             /\ Proceed(r, "grant")
    <3>1. account[ask[r].handle].invite \in Invites \cup {NoInvite}
      BY <2>1, LoginAsk DEF TypeInv, TypeOK
    <3>. DEFINE new == ~Stored(ask[r].handle)
    <3>4. new \in BOOLEAN
      OBVIOUS
    <3>5. seen' = [seen EXCEPT ![r].invite = account[ask[r].handle].invite, ![r].new = new]
      BY <2>3
    <3>. HIDE DEF new
    <3>2. seen' \in [Requests -> [uses : Nat, invite : Invites \cup {NoInvite}, new : BOOLEAN]]
          /\ \A q \in Requests \ {r} : seen'[q] = seen[q]
      BY <3>1, <3>4, <3>5 DEF TypeInv, TypeOK
    <3>3. pc' \in [Requests -> PCs] /\ reply' \in [Requests -> Replies] /\ Asked'
      BY <1>3, <2>3, <3>2, ProceedType DEF ReadAccount, PCs, LoginSteps
    <3>. QED  BY <1>3, <3>2, <3>3 DEF ReadAccount, tables, history, TypeInv, TypeOK
  <2>. QED  BY <1>3, <2>2, <2>3 DEF ReadAccount
<1>4. ASSUME NEW r \in Requests, Grant(r) PROVE TypeInv'
  <2>1. ask[r] \in LoginAsks
    BY <1>4 DEF Grant, TypeInv, Asked, LoginSteps
  <2>2. CASE Finish(r, "error") /\ UNCHANGED tables
    BY <1>4, <2>2, FinishType DEF Grant, tables, history, Replies, TypeInv, TypeOK
  <2>3. CASE /\ account' = IF seen[r].new
                           THEN [account EXCEPT ![ask[r].handle] =
                                   [from |-> "login", invite |-> ask[r].invite]]
                           ELSE IF seen[r].invite = NoInvite
                           THEN [account EXCEPT ![ask[r].handle].invite = ask[r].invite]
                           ELSE account
             /\ uses' = Counted(r)
             /\ token' = [token EXCEPT ![r] = "live"]
             /\ Finish(r, "granted")
    <3>1. account' \in [Handles -> [from : Origins, invite : Invites \cup {NoInvite}]]
      <4>. DEFINE h == ask[r].handle
      <4>1. h \in Handles /\ ask[r].invite \in Invites
        BY <2>1, LoginAsk
      <4>2. [from |-> "login", invite |-> ask[r].invite]
               \in [from : Origins, invite : Invites \cup {NoInvite}]
        BY <4>1 DEF Origins
      <4>3. [account[h] EXCEPT !.invite = ask[r].invite]
               \in [from : Origins, invite : Invites \cup {NoInvite}]
        BY <4>1 DEF TypeInv, TypeOK
      <4>. QED  BY <2>3, <4>1, <4>2, <4>3 DEF TypeInv, TypeOK
    <3>2. uses' \in [Invites -> Nat]
      <4>1. seen[r].uses + 1 \in Nat
        BY DEF TypeInv, TypeOK
      <4>2. uses' = uses \/ uses' = [uses EXCEPT ![ask[r].invite] = seen[r].uses + 1]
        BY <2>3 DEF Counted
      <4>. QED  BY <4>1, <4>2 DEF TypeInv, TypeOK
    <3>3. token' \in [Requests -> {"none", "live", "revoked"}]
      BY <2>3 DEF TypeInv, TypeOK
    <3>. QED  BY <1>4, <2>3, <3>1, <3>2, <3>3, FinishType DEF Grant, history, Replies, TypeInv, TypeOK
  <2>. QED  BY <1>4, <2>2, <2>3 DEF Grant
<1>5. ASSUME NEW r \in Requests, ReadToken(r) PROVE TypeInv'
  <2>1. CASE Finish(r, "refused")
    BY <1>5, <2>1, FinishType DEF ReadToken, tables, history, Replies, TypeInv, TypeOK
  <2>2. CASE Proceed(r, IF ask[r].kind = "use" THEN "touch" ELSE "revoke") /\ UNCHANGED seen
    <3>1. pc' \in [Requests -> PCs] /\ reply' \in [Requests -> Replies] /\ Asked'
      BY <1>5, <2>2, ProceedType DEF ReadToken, PCs, TokenSteps
    <3>. QED  BY <1>5, <2>2, <3>1 DEF ReadToken, tables, history, TypeInv, TypeOK
  <2>. QED  BY <1>5, <2>1, <2>2 DEF ReadToken
<1>6. ASSUME NEW r \in Requests, Touch(r) PROVE TypeInv'
  BY <1>6, FinishType DEF Touch, Touched, history, Replies, TypeInv, TypeOK
<1>7. ASSUME NEW r \in Requests, Revoke(r) PROVE TypeInv'
  BY <1>7, FinishType DEF Revoke, history, Replies, TypeInv, TypeOK
<1>8. ASSUME NEW r \in Requests, ReadSubject(r) PROVE TypeInv'
  <2>1. CASE Finish(r, "served")
    BY <1>8, <2>1, FinishType DEF ReadSubject, tables, history, Replies, TypeInv, TypeOK
  <2>2. CASE Proceed(r, "insert") /\ UNCHANGED seen
    <3>1. pc' \in [Requests -> PCs] /\ reply' \in [Requests -> Replies] /\ Asked'
      BY <1>8, <2>2, ProceedType DEF ReadSubject, PCs
    <3>. QED  BY <1>8, <2>2, <3>1 DEF ReadSubject, tables, history, TypeInv, TypeOK
  <2>. QED  BY <1>8, <2>1, <2>2 DEF ReadSubject
<1>9. ASSUME NEW r \in Requests, InsertActor(r) PROVE TypeInv'
  <2>1. account' \in [Handles -> [from : Origins, invite : Invites \cup {NoInvite}]]
    BY <1>9 DEF InsertActor, TypeInv, TypeOK, Origins
  <2>2. Finish(r, "error") \/ Finish(r, "served")
    BY <1>9 DEF InsertActor
  <2>. QED  BY <1>9, <2>1, <2>2, FinishType DEF InsertActor, history, Replies, TypeInv, TypeOK
<1>10. ASSUME NEW x \in Invites \cup Requests, Expire(x) PROVE TypeInv'
  BY <1>10 DEF Expire, tables, history, TypeInv, TypeOK, Asked
<1>. QED  BY <1>0, <1>1, <1>2, <1>3, <1>4, <1>5, <1>6, <1>7, <1>8, <1>9, <1>10 DEF Next

\* The types of the variables, for any requests, accounts and invites.
THEOREM TypeCorrect == Spec => []TypeOK
<1>1. Spec => []TypeInv
  BY InitType, NextType, PTL DEF Spec
<1>. QED  BY <1>1, PTL DEF TypeInv

-----------------------------------------------------------------------------
(* Sessions and their ends.  A request that comes after the end of its     *)
(* session finds the row revoked or expired, because nothing revives it:   *)
(* the login that issued it is over, and a use writes other columns.       *)

\* Before its end a request has answered nothing and issued no session.
Fresh == \A r \in Requests : pc[r] # "done" => reply[r] = "none" /\ token[r] = "none"

\* A session that is named was issued.
NamedWereIssued == \A r \in Requests : ask[r].token \in Requests => token[ask[r].token] # "none"

LogoutsHold ==
    \A r \in Requests :
        reply[r] = "bye" => ask[r].token \in Requests /\ token[ask[r].token] = "revoked"

LateAreRefused ==
    \A r \in late :
        /\ pc[r] \in {"token", "done"} /\ reply[r] # "served"
        /\ ask[r].kind = "use" /\ ask[r].token \in Requests
        /\ ask[r].token \in expired \/ token[ask[r].token] = "revoked"

SessionInv == Fresh /\ NamedWereIssued /\ LogoutsHold /\ LateAreRefused

LEMMA InitSession == Init => SessionInv
  BY DEF Init, SessionInv, Fresh, NamedWereIssued, LogoutsHold, LateAreRefused, NoAsk

\* A step changes no session but its own or, to end it, the one it names.
SessionsKept(r) ==
    /\ \A t \in Requests :
         /\ token[t] = "revoked" => token'[t] = "revoked"
         /\ token[t] # "none" => token'[t] # "none"
         /\ pc[t] # "done" /\ t # r => token'[t] = token[t]
    /\ expired' = expired
    /\ ask' = ask /\ late' = late

LEMMA ProceedSession ==
    ASSUME TypeInv, SessionInv, NEW r \in Requests, pc[r] \notin {"idle", "done"},
           NEW to \in PCs \ {"idle", "done"}, Proceed(r, to), SessionsKept(r),
           token' = token, pc[r] = "token" => r \notin late
    PROVE  SessionInv'
<1>1. pc' = [pc EXCEPT ![r] = to] /\ reply' = reply
  BY DEF Proceed
<1>2. pc \in [Requests -> PCs] /\ late \subseteq Requests
  BY DEF TypeInv, TypeOK
<1>3. r \notin late
  BY DEF SessionInv, LateAreRefused
<1>4. Fresh' /\ NamedWereIssued' /\ LogoutsHold'
  BY <1>1, <1>2 DEF SessionInv, Fresh, NamedWereIssued, LogoutsHold, SessionsKept
<1>5. LateAreRefused'
  BY <1>1, <1>2, <1>3 DEF SessionInv, LateAreRefused, SessionsKept
<1>. QED  BY <1>4, <1>5 DEF SessionInv

LEMMA FinishSession ==
    ASSUME TypeInv, SessionInv, NEW r \in Requests, pc[r] \notin {"idle", "done"},
           NEW answer \in Replies, Finish(r, answer), SessionsKept(r),
           answer = "served" => r \notin late,
           answer = "bye" => ask[r].token \in Requests /\ token'[ask[r].token] = "revoked"
    PROVE  SessionInv'
<1>1. pc' = [pc EXCEPT ![r] = "done"] /\ reply' = [reply EXCEPT ![r] = answer]
  BY DEF Finish
<1>2. /\ pc \in [Requests -> PCs] /\ reply \in [Requests -> Replies]
      /\ late \subseteq Requests
  BY DEF TypeInv, TypeOK
<1>3. Fresh'
  BY <1>1, <1>2 DEF SessionInv, Fresh, SessionsKept
<1>4. NamedWereIssued' /\ LogoutsHold'
  BY <1>1, <1>2 DEF SessionInv, NamedWereIssued, LogoutsHold, SessionsKept
<1>5. LateAreRefused'
  BY <1>1, <1>2 DEF SessionInv, LateAreRefused, SessionsKept
<1>. QED  BY <1>3, <1>4, <1>5 DEF SessionInv

LEMMA NextSession == TypeInv /\ SessionInv /\ [Next]_vars => SessionInv'
<1> SUFFICES ASSUME TypeInv, SessionInv, [Next]_vars PROVE SessionInv'
  OBVIOUS
<1>0. CASE UNCHANGED vars
  BY <1>0 DEF vars, tables, history, SessionInv, Fresh, NamedWereIssued, LogoutsHold, LateAreRefused
<1>1. ASSUME NEW r \in Requests, Arrive(r) PROVE SessionInv'
  <2>1. PICK a \in Asks :
          /\ a.token # NoRequest => token[a.token] # "none"
          /\ ask' = [ask EXCEPT ![r] = a]
          /\ pc' = [pc EXCEPT ![r] = FirstStep[a.kind]]
          /\ late' = IF a.kind = "use" /\ Ended(a.token) THEN late \cup {r} ELSE late
    BY <1>1 DEF Arrive
  <2>2. /\ pc \in [Requests -> PCs] /\ ask \in [Requests -> Asks \cup {NoAsk}]
        /\ late \subseteq Requests
    BY DEF TypeInv, TypeOK
  <2>3. UNCHANGED <<token, expired, reply>> /\ pc[r] = "idle" /\ reply[r] = "none"
    BY <1>1 DEF Arrive, tables, TypeInv, Asked
  <2>4. r \notin late
    BY <2>3 DEF SessionInv, LateAreRefused
  <2>5. Fresh' /\ NamedWereIssued'
    BY <2>1, <2>2, <2>3, AskKinds DEF SessionInv, Fresh, NamedWereIssued
  <2>6. LogoutsHold'
    BY <2>1, <2>2, <2>3 DEF SessionInv, LogoutsHold
  <2>7. LateAreRefused'
    <3>1. ASSUME NEW q \in late'
          PROVE  /\ pc'[q] \in {"token", "done"} /\ reply'[q] # "served"
                 /\ ask'[q].kind = "use" /\ ask'[q].token \in Requests
                 /\ ask'[q].token \in expired' \/ token'[ask'[q].token] = "revoked"
      <4>1. CASE q \in late
        BY <2>1, <2>2, <2>3, <2>4, <4>1 DEF SessionInv, LateAreRefused
      <4>2. CASE q = r /\ a.kind = "use" /\ Ended(a.token)
        <5>1. a \in TokenAsks /\ FirstStep[a.kind] = "token"
          BY <4>2, AskKinds DEF TokenSteps
        <5>2. a.token \in Requests
          BY <5>1 DEF TokenAsks
        <5>3. a.token \in expired \/ token[a.token] = "revoked"
          BY <4>2 DEF Ended, SessionInv, LogoutsHold
        <5>. QED  BY <2>1, <2>2, <2>3, <4>2, <5>1, <5>2, <5>3
      <4>. QED  BY <2>1, <3>1, <4>1, <4>2
    <3>. QED  BY <3>1 DEF LateAreRefused
  <2>. QED  BY <2>5, <2>6, <2>7 DEF SessionInv
<1>2. ASSUME NEW r \in Requests, ReadInvite(r) PROVE SessionInv'
  <2>1. SessionsKept(r) /\ token' = token /\ pc[r] = "invite"
    BY <1>2 DEF ReadInvite, tables, history, SessionsKept
  <2>. QED  BY <1>2, <2>1, FinishSession, ProceedSession DEF ReadInvite, Replies, PCs
<1>3. ASSUME NEW r \in Requests, ReadAccount(r) PROVE SessionInv'
  <2>1. SessionsKept(r) /\ token' = token /\ pc[r] = "account"
    BY <1>3 DEF ReadAccount, tables, history, SessionsKept
  <2>. QED  BY <1>3, <2>1, FinishSession, ProceedSession DEF ReadAccount, Replies, PCs
<1>4. ASSUME NEW r \in Requests, Grant(r) PROVE SessionInv'
  <2>1. pc[r] = "grant" /\ ask' = ask /\ late' = late /\ expired' = expired
    BY <1>4 DEF Grant, history
  <2>2. token' = token \/ token' = [token EXCEPT ![r] = "live"]
    BY <1>4 DEF Grant, tables
  <2>3. token[r] = "none"
    BY <2>1 DEF SessionInv, Fresh
  <2>4. SessionsKept(r)
    BY <2>1, <2>2, <2>3 DEF SessionsKept, TypeInv, TypeOK
  <2>5. Finish(r, "error") \/ Finish(r, "granted")
    BY <1>4 DEF Grant
  <2>. QED  BY <2>1, <2>4, <2>5, FinishSession DEF Replies
<1>5. ASSUME NEW r \in Requests, ReadToken(r) PROVE SessionInv'
  <2>1. SessionsKept(r) /\ token' = token /\ pc[r] = "token"
    BY <1>5 DEF ReadToken, tables, history, SessionsKept
  <2>2. CASE Finish(r, "refused")
    BY <2>1, <2>2, FinishSession DEF Replies
  <2>3. CASE ~Dead(r) /\ Proceed(r, IF ask[r].kind = "use" THEN "touch" ELSE "revoke")
    <3>1. r \notin late
      BY <2>3 DEF Dead, SessionInv, LateAreRefused
    <3>. QED  BY <2>1, <2>3, <3>1, ProceedSession DEF PCs
  <2>. QED  BY <1>5, <2>2, <2>3 DEF ReadToken
<1>6. ASSUME NEW r \in Requests, Touch(r) PROVE SessionInv'
  <2>1. SessionsKept(r) /\ pc[r] = "touch" /\ Finish(r, "served")
    BY <1>6 DEF Touch, Touched, history, SessionsKept
  <2>2. r \notin late
    BY <2>1 DEF SessionInv, LateAreRefused
  <2>. QED  BY <2>1, <2>2, FinishSession DEF Replies
<1>7. ASSUME NEW r \in Requests, Revoke(r) PROVE SessionInv'
  <2>1. ask[r].token \in Requests /\ token[ask[r].token] # "none"
    BY <1>7, TokenAsk DEF Revoke, TypeInv, Asked, TokenSteps, SessionInv, NamedWereIssued
  <2>2. token' = [token EXCEPT ![ask[r].token] = "revoked"] /\ Finish(r, "bye")
    BY <1>7 DEF Revoke
  <2>3. SessionsKept(r)
    BY <1>7, <2>1, <2>2 DEF Revoke, history, SessionsKept, TypeInv, TypeOK, SessionInv, Fresh
  <2>4. token'[ask[r].token] = "revoked"
    BY <2>1, <2>2 DEF TypeInv, TypeOK
  <2>. QED  BY <1>7, <2>1, <2>2, <2>3, <2>4, FinishSession DEF Revoke, Replies
<1>8. ASSUME NEW r \in Requests, ReadSubject(r) PROVE SessionInv'
  <2>1. SessionsKept(r) /\ token' = token /\ pc[r] = "subject"
    BY <1>8 DEF ReadSubject, tables, history, SessionsKept
  <2>2. r \notin late
    BY <2>1 DEF SessionInv, LateAreRefused
  <2>. QED  BY <1>8, <2>1, <2>2, FinishSession, ProceedSession DEF ReadSubject, Replies, PCs
<1>9. ASSUME NEW r \in Requests, InsertActor(r) PROVE SessionInv'
  <2>1. SessionsKept(r) /\ pc[r] = "insert"
    BY <1>9 DEF InsertActor, history, SessionsKept
  <2>2. r \notin late
    BY <2>1 DEF SessionInv, LateAreRefused
  <2>. QED  BY <1>9, <2>1, <2>2, FinishSession DEF InsertActor, Replies
<1>10. ASSUME NEW x \in Invites \cup Requests, Expire(x) PROVE SessionInv'
  BY <1>10 DEF Expire, tables, history, SessionInv, Fresh, NamedWereIssued, LogoutsHold,
           LateAreRefused
<1>. QED  BY <1>0, <1>1, <1>2, <1>3, <1>4, <1>5, <1>6, <1>7, <1>8, <1>9, <1>10 DEF Next

\* Whatever requests overlap and expire, one that arrives after the end of its session
\* is not served (_resolve_user_from_session, logout).
THEOREM SessionsEnd == Spec => []NoUseAfterEnd
<1>1. TypeInv /\ SessionInv /\ [Next]_vars => (TypeInv /\ SessionInv)'
  BY NextType, NextSession
<1>2. Init => TypeInv /\ SessionInv
  BY InitType, InitSession
<1>3. Spec => [](TypeInv /\ SessionInv)
  BY <1>1, <1>2, PTL DEF Spec
<1>4. SessionInv => NoUseAfterEnd
  BY DEF SessionInv, LateAreRefused, NoUseAfterEnd
<1>. QED  BY <1>3, <1>4, PTL

-----------------------------------------------------------------------------
(* The invites of accounts.  The row of an account that a login created    *)
(* never changes: whoever found the account stored saw its invite, and who *)
(* did not fails on the handle.  Without overlap what a login read of any  *)
(* account still holds at its commit.                                      *)

RowsSound ==
    \A h \in Handles :
        /\ account[h].from = "nowhere" => ~Stored(h)
        /\ account[h].from = "login" => account[h].invite \in Invites

\* What a login that found the account knows of it.
GrantReads ==
    \A r \in Requests :
        pc[r] = "grant" /\ ~seen[r].new =>
            LET row == account[ask[r].handle]
            IN  /\ row.from # "nowhere"
                /\ row.from = "login" => row.invite = ask[r].invite /\ seen[r].invite = ask[r].invite

SessionRows ==
    \A r \in Requests :
        token[r] # "none" => ask[r] \in LoginAsks /\ account[ask[r].handle].from # "nowhere"

OneAtATime == alone => \A q, r \in Running : q = r

AloneReads ==
    alone => \A r \in Requests :
        pc[r] = "grant" =>
            /\ account[ask[r].handle].invite = seen[r].invite
            /\ seen[r].invite \in {NoInvite, ask[r].invite}

RowInv == RowsSound /\ GrantReads /\ SessionRows /\ OneAtATime /\ AloneReads /\ OneInviteForLife

LEMMA InitRows == Init => RowInv
<1> SUFFICES ASSUME Init PROVE RowInv
  OBVIOUS
<1>1. RowsSound
  BY DEF Init, RowsSound, Stored, Absent
<1>. QED  BY <1>1 DEF Init, RowInv, GrantReads, SessionRows, OneAtATime, AloneReads, OneInviteForLife, Running

\* An account that is not stored comes from nowhere.
LEMMA StoredRows ==
    ASSUME RowsSound, NEW h \in Handles
    PROVE  Stored(h) <=> account[h].from # "nowhere"
  BY DEF RowsSound, Stored, Absent

\* A step of one request leaves the others where they are.
Apart(r) == \A q \in Requests \ {r} : pc'[q] = pc[q] /\ seen'[q] = seen[q] /\ ask'[q] = ask[q]

\* Requests that run alone go on to.
LEMMA AloneStep ==
    ASSUME TypeInv, RowInv, NEW r \in Requests, Apart(r),
           alone' => alone /\ (pc[r] \notin {"idle", "done"} \/ Running = {})
    PROVE  /\ OneAtATime'
           /\ alone' => \A q \in Requests : pc'[q] = "grant" => q = r
  BY DEF TypeInv, TypeOK, RowInv, OneAtATime, Running, Apart

\* A step that changes no account and comes to no grant.
LEMMA QuietRows ==
    ASSUME TypeInv, RowInv, NEW r \in Requests, Apart(r), account' = account,
           pc'[r] # "grant", ask'[r] = ask[r] \/ token[r] = "none",
           \A t \in Requests : token'[t] # "none" => token[t] # "none",
           alone' => alone /\ (pc[r] \notin {"idle", "done"} \/ Running = {})
    PROVE  RowInv'
<1>1. RowsSound'
  BY DEF RowInv, RowsSound, Stored
<1>2. \A q \in Requests : pc'[q] = "grant" =>
         q # r /\ pc[q] = "grant" /\ seen'[q] = seen[q] /\ ask'[q] = ask[q]
  BY DEF Apart
<1>3. GrantReads'
  BY <1>2 DEF RowInv, GrantReads
<1>4. \A q \in Requests : token'[q] # "none" => token[q] # "none" /\ ask'[q] = ask[q]
  BY DEF Apart
<1>5. SessionRows'
  BY <1>4 DEF RowInv, SessionRows
<1>6. OneAtATime' /\ AloneReads'
  BY <1>2, AloneStep DEF RowInv, AloneReads
<1>7. OneInviteForLife'
  BY <1>4 DEF RowInv, OneInviteForLife
<1>. QED  BY <1>1, <1>3, <1>5, <1>6, <1>7 DEF RowInv

\* Where a login that found no refusal stands.
LEMMA ReadAccountRows ==
    ASSUME TypeInv, SessionInv, RowInv, NEW r \in Requests, ReadAccount(r), Proceed(r, "grant"),
           ~(IF Stored(ask[r].handle)
             THEN OtherInvite(r, ask[r].handle) \/ ~Active(ask[r].handle) ELSE Full(r)),
           seen' = [seen EXCEPT ![r].invite = account[ask[r].handle].invite,
                                ![r].new = ~Stored(ask[r].handle)]
    PROVE  RowInv'
<1>. DEFINE h == ask[r].handle
<1>1. h \in Handles /\ ask[r].invite \in Invites
  BY LoginAsk DEF ReadAccount, TypeInv, Asked, LoginSteps
<1>2. /\ UNCHANGED <<account, token, ask, alone>> /\ pc[r] = "account"
      /\ pc' = [pc EXCEPT ![r] = "grant"]
  BY DEF ReadAccount, Proceed, tables, history
<1>3. seen'[r].invite = account[h].invite /\ (~seen'[r].new => Stored(h))
  BY DEF TypeInv, TypeOK
<1>4. Apart(r)
  BY <1>2 DEF Apart, TypeInv, TypeOK
<1>5. account[h].invite \in {NoInvite, ask[r].invite}
  <2>1. CASE Stored(h)
    BY <2>1 DEF OtherInvite
  <2>2. CASE ~Stored(h)
    BY <2>2 DEF Stored, Absent
  <2>. QED  BY <2>1, <2>2
<1>6. OneAtATime' /\ (alone' => \A q \in Requests : pc'[q] = "grant" => q = r)
  BY <1>2, <1>4, AloneStep
<1>7. AloneReads'
  BY <1>2, <1>3, <1>5, <1>6 DEF AloneReads
<1>8. GrantReads'
  <2>1. ASSUME ~seen'[r].new
        PROVE  /\ account[h].from # "nowhere"
               /\ account[h].from = "login" =>
                    account[h].invite = ask[r].invite /\ seen'[r].invite = ask[r].invite
    BY <1>1, <1>3, <1>5, <2>1, StoredRows DEF RowInv, RowsSound
  <2>2. \A q \in Requests \ {r} : pc'[q] = pc[q] /\ seen'[q] = seen[q]
    BY <1>4 DEF Apart
  <2>. QED  BY <1>2, <2>1, <2>2 DEF RowInv, GrantReads
<1>9. RowsSound' /\ SessionRows' /\ OneInviteForLife'
  BY <1>2 DEF RowInv, RowsSound, Stored, SessionRows, OneInviteForLife
<1>. QED  BY <1>6, <1>7, <1>8, <1>9 DEF RowInv

\* The rows of accounts that logins created keep their invite, and no row goes.
RowsKept ==
    \A h \in Handles :
        account[h].from # "nowhere" =>
            /\ account'[h].from = account[h].from
            /\ account[h].from = "login" => account'[h] = account[h]

\* A step that writes accounts or sessions and ends its request.
LEMMA WrittenRows ==
    ASSUME TypeInv, RowInv, NEW r \in Requests, Apart(r), pc[r] \notin {"idle", "done"},
           RowsKept, RowsSound', pc'[r] = "done", ask' = ask, alone' = alone,
           \A t \in Requests \ {r} : token'[t] # "none" => token[t] # "none",
           token'[r] # "none" =>
               /\ ask[r] \in LoginAsks /\ account'[ask[r].handle].from # "nowhere"
               /\ account'[ask[r].handle].from = "login" \/ alone =>
                      account'[ask[r].handle].invite = ask[r].invite,
           alone => \A h \in Handles : account[h].from # "nowhere" /\ account[h].invite # NoInvite
                                         => account'[h].invite = account[h].invite
    PROVE  RowInv'
<1>1. \A q \in Requests : pc'[q] = "grant" => q # r /\ pc[q] = "grant" /\ seen'[q] = seen[q]
  BY DEF Apart
<1>2. OneAtATime' /\ AloneReads'
  BY <1>1, AloneStep DEF AloneReads
<1>3. ASSUME NEW q \in Requests, pc'[q] = "grant", ~seen'[q].new
      PROVE  LET row == account'[ask[q].handle]
             IN  /\ row.from # "nowhere"
                 /\ row.from = "login" => row.invite = ask[q].invite /\ seen'[q].invite = ask[q].invite
  <2>1. pc[q] = "grant" /\ seen'[q] = seen[q] /\ ask[q].handle \in Handles
    BY <1>1, <1>3, LoginAsk DEF TypeInv, Asked, LoginSteps
  <2>2. account[ask[q].handle].from # "nowhere"
    BY <1>3, <2>1 DEF RowInv, GrantReads
  <2>. QED  BY <1>3, <2>1, <2>2 DEF RowInv, GrantReads, RowsKept
<1>4. GrantReads'
  BY <1>3 DEF GrantReads
<1>5. ASSUME NEW q \in Requests, token'[q] # "none"
      PROVE  /\ ask[q] \in LoginAsks /\ account'[ask[q].handle].from # "nowhere"
             /\ account'[ask[q].handle].from = "login" \/ alone =>
                   account'[ask[q].handle].invite = ask[q].invite
  <2>1. CASE q = r
    BY <1>5, <2>1
  <2>2. CASE q # r
    <3>1. token[q] # "none"
      BY <1>5, <2>2
    <3>2. ask[q] \in LoginAsks /\ ask[q].handle \in Handles /\ ask[q].invite \in Invites
      BY <3>1, LoginAsk DEF RowInv, SessionRows
    <3>3. /\ account[ask[q].handle].from # "nowhere"
          /\ account[ask[q].handle].from = "login" \/ alone =>
                account[ask[q].handle].invite = ask[q].invite
      BY <3>1 DEF RowInv, SessionRows, OneInviteForLife
    <3>. QED  BY <3>2, <3>3 DEF RowsKept
  <2>. QED  BY <2>1, <2>2
<1>6. SessionRows' /\ OneInviteForLife'
  BY <1>5 DEF SessionRows, OneInviteForLife
<1>. QED  BY <1>2, <1>4, <1>6 DEF RowInv

\* The commit of a login.
LEMMA GrantRows ==
    ASSUME TypeInv, SessionInv, RowInv, NEW r \in Requests, Grant(r)
    PROVE  RowInv'
<1>. DEFINE h == ask[r].handle
<1>1. h \in Handles /\ ask[r].invite \in Invites /\ ask[r] \in LoginAsks
  BY LoginAsk DEF Grant, TypeInv, Asked, LoginSteps
<1>2. pc[r] = "grant" /\ ask' = ask /\ alone' = alone
  BY DEF Grant, history
<1>3. Finish(r, "error") \/ Finish(r, "granted")
  BY DEF Grant
<1>4. Apart(r) /\ pc'[r] = "done"
  BY <1>2, <1>3 DEF Finish, Apart, TypeInv, TypeOK
<1>5. CASE UNCHANGED tables
  BY <1>2, <1>4, <1>5, QuietRows DEF tables
<1>6. CASE seen[r].new /\ ~Stored(h)
           /\ account' = [account EXCEPT ![h] = [from |-> "login", invite |-> ask[r].invite]]
           /\ token' = [token EXCEPT ![r] = "live"]
  <2>1. account[h].from = "nowhere" /\ account'[h] = [from |-> "login", invite |-> ask[r].invite]
        /\ \A g \in Handles \ {h} : account'[g] = account[g]
    BY <1>1, <1>6, StoredRows DEF TypeInv, TypeOK, RowInv
  <2>2. RowsKept
    BY <2>1 DEF RowsKept
  <2>3. RowsSound'
    BY <1>1, <2>1 DEF RowInv, RowsSound, Stored
  <2>4. \A t \in Requests \ {r} : token'[t] # "none" => token[t] # "none"
    BY <1>6 DEF TypeInv, TypeOK
  <2>5. alone => \A g \in Handles : account[g].from # "nowhere" /\ account[g].invite # NoInvite
                                      => account'[g].invite = account[g].invite
    BY <2>1
  <2>6. account'[h].from # "nowhere" /\ account'[h].invite = ask[r].invite
    BY <2>1
  <2>. QED  BY <1>1, <1>2, <1>4, <2>2, <2>3, <2>4, <2>5, <2>6, WrittenRows
<1>7. CASE ~seen[r].new /\ seen[r].invite = NoInvite
           /\ account' = [account EXCEPT ![h].invite = ask[r].invite]
           /\ token' = [token EXCEPT ![r] = "live"]
  <2>1. account[h].from \notin {"nowhere", "login"}
    BY <1>1, <1>2, <1>7 DEF RowInv, GrantReads
  <2>2. account'[h].from = account[h].from /\ account'[h].invite = ask[r].invite
        /\ \A g \in Handles \ {h} : account'[g] = account[g]
    BY <1>1, <1>7 DEF TypeInv, TypeOK
  <2>3. RowsKept
    BY <2>1, <2>2 DEF RowsKept
  <2>4. RowsSound'
    <3>1. account'[h].from \notin {"nowhere", "login"}
      BY <2>1, <2>2
    <3>. QED  BY <2>2, <3>1 DEF RowInv, RowsSound, Stored
  <2>5. \A t \in Requests \ {r} : token'[t] # "none" => token[t] # "none"
    BY <1>7 DEF TypeInv, TypeOK
  <2>6. alone => account[h].invite = NoInvite
    BY <1>2, <1>7 DEF RowInv, AloneReads
  <2>7. alone => \A g \in Handles : account[g].from # "nowhere" /\ account[g].invite # NoInvite
                                      => account'[g].invite = account[g].invite
    BY <2>2, <2>6
  <2>. QED  BY <1>1, <1>2, <1>4, <2>1, <2>2, <2>3, <2>4, <2>5, <2>7, WrittenRows
<1>8. CASE ~seen[r].new /\ seen[r].invite # NoInvite /\ account' = account
           /\ token' = [token EXCEPT ![r] = "live"]
  <2>1. /\ account[h].from # "nowhere"
        /\ account[h].from = "login" => account[h].invite = ask[r].invite
        /\ alone => account[h].invite = ask[r].invite
    BY <1>2, <1>8 DEF RowInv, GrantReads, AloneReads
  <2>2. RowsKept /\ RowsSound'
    BY <1>8 DEF RowsKept, RowInv, RowsSound, Stored
  <2>3. \A t \in Requests \ {r} : token'[t] # "none" => token[t] # "none"
    BY <1>8 DEF TypeInv, TypeOK
  <2>4. /\ account'[h].from # "nowhere"
        /\ account'[h].from = "login" \/ alone => account'[h].invite = ask[r].invite
    BY <1>8, <2>1
  <2>5. alone => \A g \in Handles : account[g].from # "nowhere" /\ account[g].invite # NoInvite
                                      => account'[g].invite = account[g].invite
    BY <1>8
  <2>. QED  BY <1>1, <1>2, <1>4, <2>2, <2>3, <2>4, <2>5, WrittenRows
<1>. QED  BY <1>5, <1>6, <1>7, <1>8 DEF Grant

\* The account of the development actor.
LEMMA InsertActorRows ==
    ASSUME TypeInv, SessionInv, RowInv, NEW r \in Requests, InsertActor(r)
    PROVE  RowInv'
<1>1. /\ pc[r] = "insert" /\ ask' = ask /\ alone' = alone
      /\ token' = token /\ token[r] = "none"
  BY DEF InsertActor, history, SessionInv, Fresh
<1>2. Apart(r) /\ pc'[r] = "done"
  BY <1>1 DEF InsertActor, Finish, Apart, TypeInv, TypeOK
<1>3. CASE account' = account
  BY <1>1, <1>2, <1>3, QuietRows
<1>4. CASE ~Stored(DevHandle)
           /\ account' = [account EXCEPT ![DevHandle] = [from |-> "dev", invite |-> NoInvite]]
  <2>1. /\ DevHandle \in Handles /\ account[DevHandle].from = "nowhere"
        /\ account'[DevHandle] = [from |-> "dev", invite |-> NoInvite]
        /\ \A g \in Handles \ {DevHandle} : account'[g] = account[g]
    BY <1>4, StoredRows DEF TypeInv, TypeOK, RowInv
  <2>2. RowsKept
    BY <2>1 DEF RowsKept
  <2>3. RowsSound'
    BY <2>1 DEF RowInv, RowsSound, Stored
  <2>4. \A g \in Handles : account[g].from # "nowhere" => account'[g] = account[g]
    BY <2>1
  <2>. QED  BY <1>1, <1>2, <2>2, <2>3, <2>4, WrittenRows
<1>. QED  BY <1>3, <1>4 DEF InsertActor

LEMMA NextRows == TypeInv /\ SessionInv /\ RowInv /\ [Next]_vars => RowInv'
<1> SUFFICES ASSUME TypeInv, SessionInv, RowInv, [Next]_vars PROVE RowInv'
  OBVIOUS
<1>0. CASE UNCHANGED vars
  BY <1>0 DEF vars, tables, history, RowInv, RowsSound, Stored, GrantReads, SessionRows, OneAtATime,
           AloneReads, OneInviteForLife, Running
<1>1. ASSUME NEW r \in Requests, Arrive(r) PROVE RowInv'
  <2>1. PICK a \in Asks :
          ask' = [ask EXCEPT ![r] = a] /\ pc' = [pc EXCEPT ![r] = FirstStep[a.kind]]
    BY <1>1 DEF Arrive
  <2>2. /\ pc[r] = "idle" /\ alone' = (alone /\ Running = {})
        /\ UNCHANGED <<account, token, seen>>
    BY <1>1 DEF Arrive, tables
  <2>3. Apart(r) /\ pc'[r] # "grant" /\ token[r] = "none"
    BY <2>1, <2>2, AskKinds DEF Apart, TypeInv, TypeOK, SessionInv, Fresh
  <2>. QED  BY <2>2, <2>3, QuietRows
<1>2. ASSUME NEW r \in Requests, ReadInvite(r) PROVE RowInv'
  <2>1. /\ pc[r] = "invite" /\ UNCHANGED <<account, token, ask, alone>>
        /\ Apart(r) /\ pc'[r] # "grant"
    BY <1>2 DEF ReadInvite, Finish, Proceed, tables, history, Apart, TypeInv, TypeOK
  <2>. QED  BY <2>1, QuietRows
<1>3. ASSUME NEW r \in Requests, ReadAccount(r) PROVE RowInv'
  <2>1. CASE Finish(r, "refused")
    <3>1. /\ pc[r] = "account" /\ UNCHANGED <<account, token, ask, alone>>
          /\ Apart(r) /\ pc'[r] # "grant"
      BY <1>3, <2>1 DEF ReadAccount, Finish, tables, history, Apart, TypeInv, TypeOK
    <3>. QED  BY <3>1, QuietRows
  <2>2. CASE ~Finish(r, "refused")
    BY <1>3, <2>2, ReadAccountRows DEF ReadAccount
  <2>. QED  BY <2>1, <2>2
<1>4. ASSUME NEW r \in Requests, Grant(r) PROVE RowInv'
  BY <1>4, GrantRows
<1>5. ASSUME NEW r \in Requests, ReadToken(r) PROVE RowInv'
  <2>1. /\ pc[r] = "token" /\ UNCHANGED <<account, token, ask, alone>>
        /\ Apart(r) /\ pc'[r] # "grant"
    BY <1>5 DEF ReadToken, Finish, Proceed, tables, history, Apart, TypeInv, TypeOK
  <2>. QED  BY <2>1, QuietRows
<1>6. ASSUME NEW r \in Requests, Touch(r) PROVE RowInv'
  <2>1. /\ pc[r] = "touch" /\ UNCHANGED <<account, token, ask, alone>>
        /\ Apart(r) /\ pc'[r] # "grant"
    BY <1>6 DEF Touch, Touched, Finish, history, Apart, TypeInv, TypeOK
  <2>. QED  BY <2>1, QuietRows
<1>7. ASSUME NEW r \in Requests, Revoke(r) PROVE RowInv'
  <2>1. /\ pc[r] = "revoke" /\ UNCHANGED <<account, ask, alone>>
        /\ Apart(r) /\ pc'[r] # "grant"
    BY <1>7 DEF Revoke, Finish, history, Apart, TypeInv, TypeOK
  <2>2. ask[r].token \in Requests /\ token[ask[r].token] # "none"
    BY <2>1, TokenAsk DEF TypeInv, Asked, TokenSteps, SessionInv, NamedWereIssued
  <2>3. \A t \in Requests : token'[t] # "none" => token[t] # "none"
    BY <1>7, <2>2 DEF Revoke, TypeInv, TypeOK
  <2>. QED  BY <2>1, <2>3, QuietRows
<1>8. ASSUME NEW r \in Requests, ReadSubject(r) PROVE RowInv'
  <2>1. /\ pc[r] = "subject" /\ UNCHANGED <<account, token, ask, alone>>
        /\ Apart(r) /\ pc'[r] # "grant"
    BY <1>8 DEF ReadSubject, Finish, Proceed, tables, history, Apart, TypeInv, TypeOK
  <2>. QED  BY <2>1, QuietRows
<1>9. ASSUME NEW r \in Requests, InsertActor(r) PROVE RowInv'
  BY <1>9, InsertActorRows
<1>10. ASSUME NEW x \in Invites \cup Requests, Expire(x) PROVE RowInv'
  BY <1>10 DEF Expire, tables, history, RowInv, RowsSound, Stored, GrantReads, SessionRows,
           OneAtATime, AloneReads, OneInviteForLife, Running
<1>. QED  BY <1>0, <1>1, <1>2, <1>3, <1>4, <1>5, <1>6, <1>7, <1>8, <1>9, <1>10 DEF Next

\* However requests race, an account an invite admitted only ever has sessions obtained
\* with that invite; so has an older one if nothing raced (create_or_consume_invite).
THEOREM InvitesAreForLife == Spec => []OneInviteForLife
<1>1. TypeInv /\ SessionInv /\ RowInv /\ [Next]_vars => (TypeInv /\ SessionInv /\ RowInv)'
  BY NextType, NextSession, NextRows
<1>2. Init => TypeInv /\ SessionInv /\ RowInv
  BY InitType, InitSession, InitRows
<1>3. Spec => [](TypeInv /\ SessionInv /\ RowInv)
  BY <1>1, <1>2, PTL DEF Spec
<1>4. RowInv => OneInviteForLife
  BY DEF RowInv
<1>. QED  BY <1>3, <1>4, PTL

-----------------------------------------------------------------------------
(* The use counts of invites.  What a login read is at most the accounts   *)
(* its invite admitted, whose number never falls; a lost count only leaves *)
(* the stored one behind them.                                             *)

UsesRead ==
    \A r \in Requests :
        /\ pc[r] \in {"account", "grant"} => seen[r].uses <= Cardinality(Admitted(ask[r].invite))
        /\ pc[r] = "grant" /\ seen[r].new => seen[r].uses < MaxUses[ask[r].invite]

AloneUses ==
    alone => \A r \in Requests :
        pc[r] \in {"account", "grant"} => seen[r].uses = uses[ask[r].invite]

CountInv == UsesRead /\ AloneUses /\ InviteUsesBounded

LEMMA AdmittedCount ==
    ASSUME NEW i \in Invites
    PROVE  IsFiniteSet(Admitted(i)) /\ Cardinality(Admitted(i)) \in Nat
<1>1. Admitted(i) \subseteq Handles
  BY DEF Admitted
<1>. QED  BY <1>1, FS_Subset, FS_CardinalityType

LEMMA InitCount == Init => CountInv
<1> SUFFICES ASSUME Init PROVE CountInv
  OBVIOUS
<1>1. \A i \in Invites : Admitted(i) = {}
  BY DEF Init, Admitted, Absent
<1>2. Cardinality({}) = 0
  BY FS_EmptySet
<1>. QED  BY <1>1, <1>2 DEF Init, CountInv, UsesRead, AloneUses, InviteUsesBounded

\* A step that admits nobody, counts nothing and reads no count.
LEMMA QuietCount ==
    ASSUME TypeInv, CountInv, NEW r \in Requests, Apart(r), uses' = uses,
           \A i \in Invites : Admitted(i)' = Admitted(i),
           pc'[r] \notin {"account", "grant"}, alone' => alone
    PROVE  CountInv'
<1>1. ASSUME NEW q \in Requests, pc'[q] \in {"account", "grant"}
      PROVE  /\ q # r /\ pc'[q] = pc[q] /\ seen'[q] = seen[q] /\ ask'[q] = ask[q]
             /\ ask[q].invite \in Invites
  <2>1. q # r /\ pc'[q] = pc[q] /\ seen'[q] = seen[q] /\ ask'[q] = ask[q]
    BY <1>1 DEF Apart
  <2>. QED  BY <1>1, <2>1, LoginAsk DEF TypeInv, Asked, LoginSteps
<1>2. UsesRead'
  BY <1>1 DEF CountInv, UsesRead
<1>3. AloneUses'
  BY <1>1 DEF CountInv, AloneUses
<1>4. InviteUsesBounded'
  BY DEF CountInv, InviteUsesBounded
<1>. QED  BY <1>2, <1>3, <1>4 DEF CountInv

\* A step that reads a count, or goes on with the one it read.
LEMMA ReadCount ==
    ASSUME TypeInv, CountInv, NEW r \in Requests, Apart(r), ask[r] \in LoginAsks,
           UNCHANGED <<account, uses, ask, alone>>,
           seen'[r].uses <= Cardinality(Admitted(ask[r].invite)),
           alone => seen'[r].uses = uses[ask[r].invite],
           pc'[r] = "grant" /\ seen'[r].new => seen'[r].uses < MaxUses[ask[r].invite]
    PROVE  CountInv'
<1>1. \A i : Admitted(i)' = Admitted(i)
  BY DEF Admitted
<1>2. \A q \in Requests \ {r} : pc'[q] = pc[q] /\ seen'[q] = seen[q]
  BY DEF Apart
<1>3. UsesRead'
  BY <1>1, <1>2 DEF CountInv, UsesRead
<1>4. AloneUses'
  BY <1>2 DEF CountInv, AloneUses
<1>5. InviteUsesBounded'
  BY <1>1 DEF CountInv, InviteUsesBounded
<1>. QED  BY <1>3, <1>4, <1>5 DEF CountInv

\* A login that admits a new account.
LEMMA AdmitCount ==
    ASSUME TypeInv, RowInv, CountInv, NEW r \in Requests, Grant(r),
           seen[r].new, ~Stored(ask[r].handle),
           account' = [account EXCEPT ![ask[r].handle] =
                         [from |-> "login", invite |-> ask[r].invite]],
           uses' = [uses EXCEPT ![ask[r].invite] = seen[r].uses + 1]
    PROVE  CountInv'
<1>. DEFINE h == ask[r].handle
            i == ask[r].invite
<1>1. /\ pc[r] = "grant" /\ ask' = ask /\ alone' = alone /\ h \in Handles /\ i \in Invites
      /\ seen[r].uses \in Nat /\ uses \in [Invites -> Nat] /\ MaxUses[i] \in Nat
  BY LoginAsk DEF Grant, history, TypeInv, TypeOK, Asked, LoginSteps
<1>2. Apart(r) /\ pc'[r] = "done"
  BY <1>1 DEF Grant, Finish, Apart, TypeInv, TypeOK
<1>3. h \notin Admitted(i) /\ Admitted(i)' = Admitted(i) \cup {h}
      /\ \A j \in Invites \ {i} : Admitted(j)' = Admitted(j)
  BY <1>1 DEF Stored, Absent, Admitted, TypeInv, TypeOK
<1>4. Cardinality(Admitted(i)') = Cardinality(Admitted(i)) + 1
  BY <1>1, <1>3, AdmittedCount, FS_AddElement
<1>5. uses'[i] = seen[r].uses + 1 /\ \A j \in Invites \ {i} : uses'[j] = uses[j]
  BY <1>1
<1>6. /\ seen[r].uses <= Cardinality(Admitted(i)) /\ seen[r].uses < MaxUses[i]
      /\ alone => seen[r].uses = uses[i] /\ uses[i] = Cardinality(Admitted(i))
  BY <1>1 DEF CountInv, UsesRead, AloneUses, InviteUsesBounded
<1>7. InviteUsesBounded'
  <2>1. ASSUME NEW j \in Invites
        PROVE  /\ uses'[j] <= MaxUses[j]
               /\ uses'[j] <= Cardinality(Admitted(j)')
               /\ Admitted(j)' # {} => uses'[j] >= 1
               /\ alone' => uses'[j] = Cardinality(Admitted(j)')
    <3>1. CASE j = i
      <4>1. Cardinality(Admitted(i)) \in Nat
        BY <1>1, AdmittedCount
      <4>. QED  BY <1>1, <1>4, <1>5, <1>6, <3>1, <4>1
    <3>2. CASE j # i
      BY <1>1, <1>3, <1>5, <3>2 DEF CountInv, InviteUsesBounded
    <3>. QED  BY <3>1, <3>2
  <2>. QED  BY <2>1 DEF InviteUsesBounded
<1>8. UsesRead'
  <2>1. ASSUME NEW j \in Invites
        PROVE  /\ Cardinality(Admitted(j)) <= Cardinality(Admitted(j)')
               /\ Cardinality(Admitted(j)) \in Nat /\ Cardinality(Admitted(j)') \in Nat
    <3>1. Cardinality(Admitted(j)) \in Nat
      BY AdmittedCount
    <3>2. CASE j = i
      BY <1>1, <1>4, <3>1, <3>2
    <3>3. CASE j # i
      BY <1>3, <3>1, <3>3
    <3>. QED  BY <3>2, <3>3
  <2>2. ASSUME NEW q \in Requests, pc'[q] \in {"account", "grant"}
        PROVE  (seen[q].uses <= Cardinality(Admitted(ask[q].invite)))'
               /\ (pc[q] = "grant" /\ seen[q].new => seen[q].uses < MaxUses[ask[q].invite])'
    <3>1. q # r /\ pc'[q] = pc[q] /\ seen'[q] = seen[q] /\ ask'[q] = ask[q]
      BY <1>1, <1>2, <2>2 DEF Apart
    <3>2. ask[q].invite \in Invites /\ seen[q].uses \in Nat
      BY <2>2, <3>1, LoginAsk DEF TypeInv, TypeOK, Asked, LoginSteps
    <3>3. PICK j \in Invites : j = ask[q].invite
      BY <3>2
    <3>4. seen[q].uses <= Cardinality(Admitted(j))
      BY <2>2, <3>1, <3>3 DEF CountInv, UsesRead
    <3>5. seen[q].uses <= Cardinality(Admitted(j)')
      BY <2>1, <3>2, <3>4
    <3>6. ask'[q].invite = j
      BY <3>1, <3>3
    <3>7. Admitted(ask[q].invite)' = Admitted(j)'
      BY <3>6 DEF Admitted
    <3>8. pc[q] = "grant" /\ seen[q].new => seen[q].uses < MaxUses[j]
      BY <3>3 DEF CountInv, UsesRead
    <3>9. (pc[q] = "grant" /\ seen[q].new => seen[q].uses < MaxUses[ask[q].invite])'
      BY <3>1, <3>6, <3>8
    <3>10. (seen[q].uses <= Cardinality(Admitted(ask[q].invite)))'
      BY <3>1, <3>5, <3>7
    <3>. QED  BY <3>9, <3>10
  <2>. QED  BY <2>2 DEF UsesRead
<1>9. AloneUses'
  <2>1. ASSUME alone, NEW q \in Requests, pc'[q] \in {"account", "grant"} PROVE FALSE
    <3>1. q # r /\ pc[q] \in {"account", "grant"}
      BY <1>2, <2>1 DEF Apart
    <3>. QED  BY <1>1, <2>1, <3>1 DEF RowInv, OneAtATime, Running
  <2>. QED  BY <1>1, <2>1 DEF AloneUses
<1>. QED  BY <1>7, <1>8, <1>9 DEF CountInv

\* A login that ends, whether or not it admits an account.
LEMMA GrantCount ==
    ASSUME TypeInv, RowInv, CountInv, NEW r \in Requests, Grant(r)
    PROVE  CountInv'
<1>. DEFINE h == ask[r].handle
<1>1. h \in Handles /\ ask[r].invite \in Invites
  BY LoginAsk DEF Grant, TypeInv, Asked, LoginSteps
<1>2. pc[r] = "grant" /\ ask' = ask /\ alone' = alone
  BY DEF Grant, history
<1>3. Finish(r, "error") \/ Finish(r, "granted")
  BY DEF Grant
<1>4. Apart(r) /\ pc'[r] = "done"
  BY <1>2, <1>3 DEF Finish, Apart, TypeInv, TypeOK
<1>5. CASE account' = account /\ uses' = uses
  <2>1. \A i \in Invites : Admitted(i)' = Admitted(i)
    BY <1>5 DEF Admitted
  <2>. QED  BY <1>2, <1>4, <1>5, <2>1, QuietCount
<1>6. CASE /\ seen[r].new /\ ~Stored(h)
           /\ account' = [account EXCEPT ![h] = [from |-> "login", invite |-> ask[r].invite]]
           /\ uses' = [uses EXCEPT ![ask[r].invite] = seen[r].uses + 1]
  BY <1>6, AdmitCount
<1>7. CASE /\ ~seen[r].new /\ account' = [account EXCEPT ![h].invite = ask[r].invite]
           /\ seen[r].invite = NoInvite /\ uses' = uses
  <2>1. account[h].from # "login"
    BY <1>1, <1>2, <1>7, ConstantsAssumption DEF RowInv, GrantReads
  <2>2. account'[h].from # "login" /\ \A g \in Handles \ {h} : account'[g] = account[g]
    BY <1>1, <1>7, <2>1 DEF TypeInv, TypeOK
  <2>3. \A i \in Invites : Admitted(i)' = Admitted(i)
    BY <2>1, <2>2 DEF Admitted
  <2>. QED  BY <1>2, <1>4, <1>7, <2>3, QuietCount
<1>8. UNCHANGED tables => account' = account /\ uses' = uses
  BY DEF tables
<1>. QED  BY <1>5, <1>6, <1>7, <1>8 DEF Grant, Counted

\* The reads of a login, of its invite's count and of its account.
LEMMA LoginReadCount ==
    ASSUME TypeInv, CountInv, NEW r \in Requests, ReadInvite(r) \/ ReadAccount(r)
    PROVE  CountInv'
<1>1. /\ ask[r] \in LoginAsks /\ ask[r].invite \in Invites /\ uses[ask[r].invite] \in Nat
      /\ seen[r] \in [uses : Nat, invite : Invites \cup {NoInvite}, new : BOOLEAN]
      /\ MaxUses[ask[r].invite] \in Nat
  BY LoginAsk, ConstantsAssumption
     DEF ReadInvite, ReadAccount, TypeInv, TypeOK, Asked, LoginSteps
<1>2. UNCHANGED <<account, uses, ask, alone>> /\ Apart(r)
  BY DEF ReadInvite, ReadAccount, Finish, Proceed, tables, history, Apart, TypeInv, TypeOK
<1>3. \A i \in Invites : Admitted(i)' = Admitted(i)
  BY <1>2 DEF Admitted
<1>4. CASE Finish(r, "refused")
  <2>1. pc'[r] = "done"
    BY <1>4 DEF Finish, TypeInv, TypeOK
  <2>. QED  BY <1>2, <1>3, <2>1, QuietCount
<1>5. CASE ReadInvite(r) /\ ~Finish(r, "refused")
  <2>1. pc'[r] = "account" /\ seen'[r].uses = uses[ask[r].invite]
    BY <1>5 DEF ReadInvite, Proceed, TypeInv, TypeOK
  <2>2. uses[ask[r].invite] <= Cardinality(Admitted(ask[r].invite))
    BY <1>1 DEF CountInv, InviteUsesBounded
  <2>. QED  BY <1>1, <1>2, <2>1, <2>2, ReadCount
<1>6. CASE ReadAccount(r) /\ ~Finish(r, "refused")
  <2>. DEFINE h == ask[r].handle
              known == Stored(h)
  <2>1. h \in Handles /\ pc[r] = "account"
    BY <1>1, <1>6 DEF LoginAsks, ReadAccount
  <2>2. /\ seen' = [seen EXCEPT ![r].invite = account[h].invite, ![r].new = ~known]
        /\ known \/ ~Full(r)
    BY <1>6 DEF ReadAccount
  <2>3. known \in BOOLEAN
    BY DEF Stored
  <2>. HIDE DEF known
  <2>4. seen'[r].uses = seen[r].uses /\ seen'[r].new = ~known
    BY <1>1, <2>2, <2>3 DEF TypeInv, TypeOK
  <2>5. seen[r].uses <= Cardinality(Admitted(ask[r].invite))
        /\ (alone => seen[r].uses = uses[ask[r].invite])
    BY <2>1 DEF CountInv, UsesRead, AloneUses
  <2>6. seen'[r].new => ~Full(r)
    BY <2>2, <2>3, <2>4
  <2>7. seen[r].uses \in Nat /\ MaxUses[ask[r].invite] \in Nat
    BY <1>1
  <2>8. ~Full(r) => seen[r].uses < MaxUses[ask[r].invite]
    BY <2>7 DEF Full
  <2>. QED  BY <1>1, <1>2, <2>4, <2>5, <2>6, <2>8, ReadCount
<1>. QED  BY <1>4, <1>5, <1>6

\* The account of the development actor is nobody's invitee.
LEMMA InsertActorCount ==
    ASSUME TypeInv, CountInv, NEW r \in Requests, InsertActor(r)
    PROVE  CountInv'
<1>1. /\ pc[r] = "insert" /\ UNCHANGED <<uses, ask, alone>>
      /\ Apart(r) /\ pc'[r] = "done"
  BY DEF InsertActor, Finish, history, Apart, TypeInv, TypeOK
<1>2. CASE account' = account
  <2>1. \A i \in Invites : Admitted(i)' = Admitted(i)
    BY <1>2 DEF Admitted
  <2>. QED  BY <1>1, <2>1, QuietCount
<1>3. CASE ~Stored(DevHandle)
           /\ account' = [account EXCEPT ![DevHandle] = [from |-> "dev", invite |-> NoInvite]]
  <2>1. account[DevHandle].from # "login" /\ account'[DevHandle].from # "login"
        /\ \A g \in Handles \ {DevHandle} : account'[g] = account[g]
    BY <1>3, ConstantsAssumption DEF Stored, Absent, TypeInv, TypeOK
  <2>2. \A i \in Invites : Admitted(i)' = Admitted(i)
    BY <2>1 DEF Admitted
  <2>. QED  BY <1>1, <2>2, QuietCount
<1>. QED  BY <1>2, <1>3 DEF InsertActor

LEMMA NextCount == TypeInv /\ RowInv /\ CountInv /\ [Next]_vars => CountInv'
<1> SUFFICES ASSUME TypeInv, RowInv, CountInv, [Next]_vars PROVE CountInv'
  OBVIOUS
<1>1. CASE UNCHANGED <<account, uses, pc, ask, seen, alone>>
  <2>1. \A i : Admitted(i)' = Admitted(i)
    BY <1>1 DEF Admitted
  <2>2. UsesRead'
    BY <1>1, <2>1 DEF CountInv, UsesRead
  <2>3. AloneUses' /\ InviteUsesBounded'
    BY <1>1, <2>1 DEF CountInv, AloneUses, InviteUsesBounded
  <2>. QED  BY <2>2, <2>3 DEF CountInv
<1>2. ASSUME NEW r \in Requests, Arrive(r) PROVE CountInv'
  <2>1. PICK a \in Asks :
          ask' = [ask EXCEPT ![r] = a] /\ pc' = [pc EXCEPT ![r] = FirstStep[a.kind]]
    BY <1>2 DEF Arrive
  <2>2. alone' => alone /\ UNCHANGED <<account, uses, seen>>
    BY <1>2 DEF Arrive, tables
  <2>3. Apart(r) /\ pc'[r] \notin {"account", "grant"} /\ uses' = uses /\ account' = account
    BY <1>2, <2>1, AskKinds DEF Arrive, tables, FirstStep, Apart, TypeInv, TypeOK
  <2>4. \A i \in Invites : Admitted(i)' = Admitted(i)
    BY <2>3 DEF Admitted
  <2>. QED  BY <2>2, <2>3, <2>4, QuietCount
<1>3. ASSUME NEW r \in Requests, ReadInvite(r) \/ ReadAccount(r) PROVE CountInv'
  BY <1>3, LoginReadCount
<1>4. ASSUME NEW r \in Requests, Grant(r) PROVE CountInv'
  BY <1>4, GrantCount
<1>5. ASSUME NEW r \in Requests, ReadToken(r) \/ Touch(r) \/ Revoke(r) \/ ReadSubject(r)
      PROVE  CountInv'
  <2>1. UNCHANGED <<account, uses, ask, alone>>
    BY <1>5 DEF ReadToken, Touch, Revoke, ReadSubject, tables, history
  <2>2. Apart(r) /\ pc'[r] \notin {"account", "grant"}
    BY <1>5 DEF ReadToken, Touch, Revoke, ReadSubject, Finish, Proceed, history, Apart,
                TypeInv, TypeOK
  <2>3. \A i \in Invites : Admitted(i)' = Admitted(i)
    BY <2>1 DEF Admitted
  <2>. QED  BY <2>1, <2>2, <2>3, QuietCount
<1>6. ASSUME NEW r \in Requests, InsertActor(r) PROVE CountInv'
  BY <1>6, InsertActorCount
<1>7. (\E x \in Invites \cup Requests : Expire(x)) \/ UNCHANGED vars
         => UNCHANGED <<account, uses, pc, ask, seen, alone>>
  BY DEF Expire, vars, tables, history
<1>. QED  BY <1>1, <1>2, <1>3, <1>4, <1>5, <1>6, <1>7 DEF Next

\* The recorded count of an invite is never above max_uses nor above the accounts it
\* admitted, never lost altogether, and exact while logins do not overlap.
THEOREM InviteUsesAlwaysBounded == Spec => []InviteUsesBounded
<1>1. TypeInv /\ SessionInv /\ RowInv /\ CountInv /\ [Next]_vars
         => (TypeInv /\ SessionInv /\ RowInv /\ CountInv)'
  BY NextType, NextSession, NextRows, NextCount
<1>2. Init => TypeInv /\ SessionInv /\ RowInv /\ CountInv
  BY InitType, InitSession, InitRows, InitCount
<1>3. Spec => [](TypeInv /\ SessionInv /\ RowInv /\ CountInv)
  BY <1>1, <1>2, PTL DEF Spec
<1>4. CountInv => InviteUsesBounded
  BY DEF CountInv
<1>. QED  BY <1>3, <1>4, PTL
=============================================================================
