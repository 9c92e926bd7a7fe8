------------------------------- MODULE Accounts -------------------------------
(***************************************************************************)
(* What accounts promise whoever calls the server, and nothing about       *)
(* hashes, statements, rows or slots: a call to sign in or to change a     *)
(* password takes effect at one instant between its arrival and its        *)
(* answer, if at all, and it is the account as it is at that instant which *)
(* decides.  A change of an account or of its roles ends its sessions with *)
(* it.  A call made with a live session goes on in the roles its user has  *)
(* had since it came.  Access.tla implements this specification.           *)
(***************************************************************************)
CONSTANTS User, Password, Project, Role, Session, Request, None, Founder

VARIABLES
    password,   \* the password of each user
    disabled,   \* whether the account is disabled
    roles,      \* the role of each user in each project
    session,    \* whose each session is, and whether it is live
    calls       \* calls under way

accountVars == <<password, disabled, roles, session, calls>>

\* seen: the roles the user of a call has had since it came.
Call == [op: {"none", "login", "reset", "change", "act"}, user: User \cup {None},
         presented: Password \cup {None}, seen: [Project -> SUBSET Role] \cup {None}]
NoCall == [op |-> "none", user |-> None, presented |-> None, seen |-> None]

TypeOK ==
    /\ password \in [User -> Password] /\ disabled \in [User -> BOOLEAN]
    /\ roles \in [User -> [Project -> Role]]
    /\ session \in [Session -> [user: User \cup {None}, state: {"none", "live", "ended"}]]
    /\ calls \in [Request -> Call]

Init ==
    /\ \E first \in Password : password = [u \in User |-> first]
    /\ disabled = [u \in User |-> FALSE]
    /\ roles = [u \in User |-> Founder]
    /\ session = [s \in Session |-> [user |-> None, state |-> "none"]]
    /\ calls = [r \in Request |-> NoCall]

-----------------------------------------------------------------------------
(* Calls come, and go without effect.                                      *)

\* To sign in, or for an operator to set a password.
Logins == [op: {"login"}, user: User, presented: Password, seen: {None}]
Resets == [op: {"reset"}, user: User, presented: {None}, seen: {None}]

\* With a session.
Acting(s) == [op |-> "act", user |-> session[s].user, presented |-> None,
              seen |-> [p \in Project |-> {roles[session[s].user][p]}]]
Actings == {Acting(s) : s \in {t \in Session : session[t].state = "live"}}

\* To set the own password, and the one presented for it.
Changes(u) == [op: {"change"}, user: {u}, presented: Password, seen: {None}]

\* A call comes, or one with a session asks for a new password.
Come(r) ==
    /\ \/ calls[r].op = "none" /\ calls'[r] \in Logins \cup Resets \cup Actings
       \/ calls[r].op = "act" /\ calls'[r] \in Changes(calls[r].user)
    /\ calls' = [calls EXCEPT ![r] = calls'[r]]
    /\ UNCHANGED <<password, disabled, roles, session>>

\* The calls in S are refused, answered or lost.
Drop(S) ==
    /\ calls' = [r \in Request |-> IF r \in S THEN NoCall ELSE calls[r]]
    /\ UNCHANGED <<password, disabled, roles, session>>

-----------------------------------------------------------------------------
(* Calls take effect.                                                      *)

Ended(s) == [session[s] EXCEPT !.state = "ended"]

EndSessions(u) ==
    session' = [s \in Session |-> IF session[s].user = u THEN Ended(s) ELSE session[s]]

\* A user signs in, with the password as it is, to an account that is not disabled.
Enter(r, s) ==
    LET u == calls[r].user
    IN  /\ session[s].state = "none"
        /\ calls[r].presented = password[u] /\ ~disabled[u]
        /\ session' = [session EXCEPT ![s] = [user |-> u, state |-> "live"]]
        /\ calls' = [calls EXCEPT ![r] = NoCall]
        /\ UNCHANGED <<password, disabled, roles>>

\* A password gives way to a new one, for an operator or one who presents it.
Replace(r, new) ==
    LET u == calls[r].user
    IN  /\ calls[r].op = "change" => calls[r].presented = password[u]
        /\ password' = [password EXCEPT ![u] = new]
        /\ EndSessions(u)
        /\ calls' = [calls EXCEPT ![r] = NoCall]
        /\ UNCHANGED <<disabled, roles>>

Disable(u, flag) ==
    /\ disabled' = [disabled EXCEPT ![u] = flag]
    /\ EndSessions(u)
    /\ UNCHANGED <<password, roles, calls>>

\* A role is given, or taken away as "none"; the calls under way see it.
Assign(u, p, role) ==
    /\ roles' = [roles EXCEPT ![u][p] = role]
    /\ IF role = "none" THEN roles[u][p] # "none" ELSE ~disabled[u]
    /\ EndSessions(u)
    /\ UNCHANGED <<password, disabled>>

Seeing(r, u, p, role) ==
    IF calls[r].op = "act" /\ calls[r].user = u
    THEN [calls[r] EXCEPT !.seen[p] = @ \cup {role}] ELSE calls[r]

OperatorAssigns(u, p, role) ==
    /\ Assign(u, p, role)
    /\ calls' = [r \in Request |-> Seeing(r, u, p, role)]

\* One who has been an administrator of the project since the call came does it.
AdminAssigns(r, u, p, role) ==
    /\ "admin" \in calls[r].seen[p]
    /\ Assign(u, p, role)
    /\ calls' = [t \in Request |-> IF t = r THEN NoCall ELSE Seeing(t, u, p, role)]

\* A session runs out, or is ended by its user.
Expire(s) ==
    /\ session' = [session EXCEPT ![s] = Ended(s)]
    /\ UNCHANGED <<password, disabled, roles, calls>>

SignOut(r, s) ==
    /\ session[s].user = calls[r].user
    /\ session' = [session EXCEPT ![s] = Ended(s)]
    /\ calls' = [calls EXCEPT ![r] = NoCall]
    /\ UNCHANGED <<password, disabled, roles>>

-----------------------------------------------------------------------------
Effect(r) ==
    \/ calls[r].op = "login" /\ \E s \in Session : Enter(r, s)
    \/ calls[r].op \in {"reset", "change"} /\ \E new \in Password : Replace(r, new)
    \/ /\ calls[r].op = "act"
       /\ \/ \E s \in Session : SignOut(r, s)
          \/ \E u \in User, p \in Project, role \in Role : AdminAssigns(r, u, p, role)

Next ==
    \/ \E S \in SUBSET {r \in Request : calls[r].op # "none"} : Drop(S)
    \/ \E u \in User, p \in Project, role \in Role : OperatorAssigns(u, p, role)
    \/ \E s \in Session : Expire(s)
    \/ \E u \in User, flag \in BOOLEAN : Disable(u, flag)
    \/ \E r \in Request : Come(r) \/ Effect(r)

Spec == Init /\ [][Next]_accountVars
=============================================================================
