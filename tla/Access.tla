-------------------------------- MODULE Access --------------------------------
(***************************************************************************)
(* Accounts, sessions, project roles and API keys: internal/httpapi/users  *)
(* and keys.go over internal/storage/users.go and keys.go, and the slots   *)
(* for password work of internal/access/users.go.                          *)
(*                                                                         *)
(* A request reads, checks and writes in separate statements.  Between any *)
(* two of them other requests run: accounts change, sessions end, roles    *)
(* are taken away, messages disappear.                                     *)
(***************************************************************************)
EXTENDS Integers, FiniteSets

CONSTANTS
    User, Password, Project, Session, Key, Message,
    Request,        \* requests the server can have under way
    None,           \* no user, credential, project or hash
    HomeOf,         \* the project of each message's inbox
    ScopeOf,        \* the project of each API key
    Grants,         \* the permissions of each API key
    Founder,        \* the roles every user starts with: an operator assigned them
    Assigned,       \* bound: the roles that are assigned, "none" to take one away
    KdfSlots,       \* password operations at a time
    MaxChanges      \* bound: changes of an account or of its memberships

Permission == {"read", "write", "delete"}
Role == {"none", "viewer", "member", "admin"}
RolePermissions ==
    [none |-> {}, viewer |-> {"read"}, member |-> {"read", "write"}, admin |-> Permission]

\* A hash is told from another of the same password by its salt.
Hashes == [password: Password, salt: Nat]

ASSUME AccessAssumption ==
    /\ HomeOf \in [Message -> Project]
    /\ ScopeOf \in [Key -> Project] /\ Grants \in [Key -> SUBSET Permission]
    /\ Founder \in [Project -> Role] /\ Assigned \subseteq Role
    /\ Session \cap Key = {} /\ None \notin User \cup Session \cup Key \cup Hashes
    /\ KdfSlots \in Nat \ {0} /\ MaxChanges \in Nat
    /\ IsFiniteSet(Request)

VARIABLES
    users,          \* each account: its password, the salt of its hash, whether it is disabled
    memberships,    \* the role of each user in each project
    sessions,       \* rows of user_sessions
    keys,           \* API keys: "none", "live" or "ended"
    messages,       \* messages that were not deleted
    requests,       \* requests under way
    active,         \* slots of the guard in use
    epoch           \* history: how often each account or its memberships have changed

vars == <<users, memberships, sessions, keys, messages, requests, active, epoch>>

Hash(u) == [password |-> users[u].password, salt |-> users[u].salt]

Account == [password: Password, salt: Nat, disabled: BOOLEAN]
\* born and password are history of a live session: the account when it was created and
\* what was presented.
SessionRow == [user: User \cup {None}, state: {"none", "live", "ended"},
               born: Nat, password: Password \cup {None}]
NoSession == [user |-> None, state |-> "none", born |-> 0, password |-> None]

\* alive and held are history: whether the credential was good when the request
\* arrived, and the roles its user has had since.
RequestState ==
    [pc: {"idle", "credential", "verify", "create", "confirm", "session", "roles", "key",
          "admitted", "check", "delete", "change"},
     cred: Session \cup Key \cup {None}, user: User \cup {None},
     password: Password \cup {None}, hash: Hashes \cup {None},
     roles: [Project -> Role], scope: Project \cup {None},
     ids: SUBSET Message, todo: SUBSET Message,
     alive: BOOLEAN, held: [Project -> SUBSET Role]]
Idle == [pc |-> "idle", cred |-> None, user |-> None, password |-> None, hash |-> None,
         roles |-> [p \in Project |-> "none"], scope |-> None, ids |-> {}, todo |-> {},
         alive |-> FALSE, held |-> [p \in Project |-> {}]]

TypeOK ==
    /\ users \in [User -> Account]
    /\ memberships \in [User -> [Project -> Role]]
    /\ sessions \in [Session -> SessionRow]
    /\ keys \in [Key -> {"none", "live", "ended"}]
    /\ messages \subseteq Message
    /\ requests \in [Request -> RequestState]
    /\ active \in Nat
    /\ epoch \in [User -> Nat]

Init ==
    /\ \E first \in Password :
        users = [u \in User |-> [password |-> first, salt |-> 0, disabled |-> FALSE]]
    /\ memberships = [u \in User |-> Founder]
    /\ sessions = [s \in Session |-> NoSession]
    /\ keys = [k \in Key |-> "none"]
    /\ messages = Message
    /\ requests = [r \in Request |-> Idle]
    /\ active = 0
    /\ epoch = [u \in User |-> 0]

-----------------------------------------------------------------------------
(* Requests and the slots for password work.                               *)

\* passwordWork returned a release that is still deferred.
Working(r) == requests[r].pc \in {"credential", "verify", "create", "confirm", "change"}

\* Mutant: only a request that gets its answer releases its slot.
MutantReleased(r) == IF requests[r].pc \in {"confirm", "change"} THEN active - 1 ELSE active

\* The deferred release, on whatever path the handler returns.
Released(r) == IF Working(r) THEN active - 1 ELSE active

Goes(r, request) == requests' = [requests EXCEPT ![r] = request]
Finish(r) == Goes(r, Idle) /\ active' = Released(r)

stored == <<users, memberships, sessions, keys, messages, epoch>>

\* Statements fail, clients go away, checks refuse, reads are answered.
Abort(r) ==
    /\ requests[r].pc # "idle"
    /\ Finish(r)
    /\ UNCHANGED stored

-----------------------------------------------------------------------------
(* Transactions on accounts.                                               *)

\* A session that was revoked or whose time has come.
Ended(s) == [NoSession EXCEPT !.user = sessions[s].user, !.state = "ended"]

\* Every session of u that was not revoked.
revokeSessions(u) ==
    [s \in Session |-> IF sessions[s].user = u THEN Ended(s) ELSE sessions[s]]

\* A change of an account, its memberships included, ends its sessions with it.
Changed(u) ==
    /\ epoch[u] < MaxChanges
    /\ epoch' = [epoch EXCEPT ![u] = @ + 1]
    /\ sessions' = revokeSessions(u)

SetUserDisabled(u, disabled) ==
    /\ Changed(u)
    /\ users' = [users EXCEPT ![u].disabled = disabled]
    /\ UNCHANGED <<memberships, keys, messages, requests, active>>

SetUserPassword(u, password) ==
    /\ Changed(u)
    /\ users' = [users EXCEPT ![u].password = password, ![u].salt = epoch[u] + 1]

\* Requests under way, once u has a role in p.
Held(u, p, role) ==
    [r \in Request |-> IF requests[r].pc # "idle" /\ requests[r].user = u
                       THEN [requests[r] EXCEPT !.held[p] = @ \cup {role}] ELSE requests[r]]

\* SetMembership, or RemoveMembership for the role "none".
Assign(u, p, role) ==
    /\ IF role = "none" THEN memberships[u][p] # "none" ELSE ~users[u].disabled
    /\ Changed(u)
    /\ memberships' = [memberships EXCEPT ![u][p] = role]
    /\ UNCHANGED <<users, keys, messages>>

OperatorAssigns(u, p, role) ==
    /\ Assign(u, p, role)
    /\ requests' = Held(u, p, role)
    /\ UNCHANGED active

Expire(s) ==
    /\ sessions[s].state = "live"
    /\ sessions' = [sessions EXCEPT ![s] = Ended(s)]
    /\ UNCHANGED <<users, memberships, keys, messages, requests, active, epoch>>

CreateAPIKey(k) ==
    /\ keys[k] = "none"
    /\ keys' = [keys EXCEPT ![k] = "live"]
    /\ UNCHANGED <<users, memberships, sessions, messages, requests, active, epoch>>

\* RevokeAPIKey, or the end of its time.
EndAPIKey(k) ==
    /\ keys[k] = "live"
    /\ keys' = [keys EXCEPT ![k] = "ended"]
    /\ UNCHANGED <<users, memberships, sessions, messages, requests, active, epoch>>

-----------------------------------------------------------------------------
(* Signing in, and changing a password.                                    *)

Login(r, u, password) ==
    /\ requests[r].pc = "idle" /\ active < KdfSlots
    /\ Goes(r, [Idle EXCEPT !.pc = "credential", !.user = u, !.password = password])
    /\ active' = active + 1
    /\ UNCHANGED stored

\* UserCredential.  A login to a disabled account is refused with its verification.
ReadCredential(r) ==
    LET u == requests[r].user
    IN  /\ requests[r].pc = "credential"
        /\ IF requests[r].cred = None /\ users[u].disabled THEN Finish(r)
           ELSE Goes(r, [requests[r] EXCEPT !.pc = "verify", !.hash = Hash(u)]) /\ UNCHANGED active
        /\ UNCHANGED stored

\* VerifyPassword, of a login or of a request that changes a password.
Verify(r) ==
    /\ requests[r].pc = "verify"
    /\ IF requests[r].password # requests[r].hash.password THEN Finish(r)
       ELSE /\ Goes(r, [requests[r] EXCEPT !.pc = IF requests[r].cred = None THEN "create" ELSE "change"])
            /\ UNCHANGED active
    /\ UNCHANGED stored

\* Mutant: the account is not looked at again.
MutantCanCreate(u, hash) == TRUE

\* What CreateUserSession asks of the account that was verified.
CanCreate(u, hash) == Hash(u) = hash /\ ~users[u].disabled

CreateUserSession(r, s) ==
    LET u == requests[r].user
    IN  /\ requests[r].pc = "create"
        /\ IF CanCreate(u, requests[r].hash)
           THEN /\ sessions[s].state = "none"
                /\ sessions' = [sessions EXCEPT ![s] = [user |-> u, state |-> "live",
                                    born |-> epoch[u], password |-> requests[r].password]]
                /\ Goes(r, [Idle EXCEPT !.pc = "confirm"]) /\ UNCHANGED active
           ELSE Finish(r) /\ UNCHANGED sessions
        /\ UNCHANGED <<users, memberships, keys, messages, epoch>>

\* The new session is read back for the answer.
Confirm(r) ==
    /\ requests[r].pc = "confirm"
    /\ Finish(r)
    /\ UNCHANGED stored

\* An operator resets a password.
Reset(r, u) ==
    /\ requests[r].pc = "idle" /\ active < KdfSlots
    /\ Goes(r, [Idle EXCEPT !.pc = "change", !.user = u])
    /\ active' = active + 1
    /\ UNCHANGED stored

\* A user changes the own password, and presents the one in force.
ChangeOwn(r, password) ==
    /\ requests[r].pc = "admitted" /\ requests[r].cred \in Session /\ active < KdfSlots
    /\ Goes(r, [requests[r] EXCEPT !.pc = "credential", !.password = password])
    /\ active' = active + 1
    /\ UNCHANGED stored

\* Mutant: the update does not ask for the hash that was verified.
MutantMatches(u, hash) == TRUE

\* SetUserPassword's condition; an operator's reset expects nothing.
Matches(u, hash) == hash = None \/ Hash(u) = hash

ChangePassword(r, password) ==
    LET u == requests[r].user
    IN  /\ requests[r].pc = "change"
        /\ IF Matches(u, requests[r].hash) THEN SetUserPassword(u, password)
           ELSE UNCHANGED <<users, sessions, epoch>>
        /\ Finish(r)
        /\ UNCHANGED <<memberships, keys, messages>>

-----------------------------------------------------------------------------
(* Requests with a session or a key.                                       *)

Arrive(r, s) ==
    LET u == sessions[s].user
    IN  /\ requests[r].pc = "idle" /\ sessions[s].state # "none"
        /\ Goes(r, [Idle EXCEPT !.pc = "session", !.cred = s, !.user = u,
                                !.alive = sessions[s].state = "live",
                                !.held = [p \in Project |-> {memberships[u][p]}]])
        /\ UNCHANGED <<stored, active>>

\* UserSessionByHash, its first statement.
ReadSession(r) ==
    /\ requests[r].pc = "session"
    /\ IF sessions[requests[r].cred].state = "live" /\ ~users[requests[r].user].disabled
       THEN Goes(r, [requests[r] EXCEPT !.pc = "roles"]) /\ UNCHANGED active
       ELSE Finish(r)
    /\ UNCHANGED stored

\* Its second statement: the roles now, which the session may have ended with.
ReadRoles(r) ==
    /\ requests[r].pc = "roles"
    /\ Goes(r, [requests[r] EXCEPT !.pc = "admitted", !.roles = memberships[requests[r].user]])
    /\ UNCHANGED <<stored, active>>

ArriveKey(r, k) ==
    /\ requests[r].pc = "idle" /\ keys[k] # "none"
    /\ Goes(r, [Idle EXCEPT !.pc = "key", !.cred = k, !.alive = keys[k] = "live"])
    /\ UNCHANGED <<stored, active>>

\* APIKeyByHash.
ReadKey(r) ==
    /\ requests[r].pc = "key"
    /\ IF keys[requests[r].cred] = "live"
       THEN Goes(r, [requests[r] EXCEPT !.pc = "admitted"]) /\ UNCHANGED active
       ELSE Finish(r)
    /\ UNCHANGED stored

\* A project administrator assigns a role, or takes it away, the own one perhaps.
TeamAssigns(r, u, p, role) ==
    /\ requests[r].pc = "admitted" /\ requests[r].cred \in Session
    /\ requests[r].roles[p] = "admin"
    /\ Assign(u, p, role)
    /\ requests' = [Held(u, p, role) EXCEPT ![r] = Idle] /\ active' = Released(r)

\* Logging out, or ending another session of the same user.
RevokeUserSession(r, s) ==
    /\ requests[r].pc = "admitted" /\ sessions[s].user = requests[r].user
    /\ requests[r].cred \in Session
    /\ sessions' = [sessions EXCEPT ![s] = Ended(s)]
    /\ Finish(r)
    /\ UNCHANGED <<users, memberships, keys, messages, epoch>>

\* Deletion of ids begins: the first one decides upon a user's project and permissions.
Select(r, ids, first) ==
    LET q == requests[r]
        scope == IF q.cred \in Key THEN ScopeOf[q.cred] ELSE HomeOf[first]
        granted == IF q.cred \in Key THEN Grants[q.cred] ELSE RolePermissions[q.roles[scope]]
    IN  /\ q.pc = "admitted" /\ first \in ids
        /\ q.cred \in Session => first \in messages
        /\ "delete" \in granted
        /\ Goes(r, [q EXCEPT !.pc = "check", !.scope = scope, !.ids = ids, !.todo = ids])
        /\ UNCHANGED <<stored, active>>

\* Mutant: any message that is there will do.
MutantInScope(q, m) == m \in messages

\* keyMessage: the message is there, in the project of the credential.
InScope(q, m) == m \in messages /\ HomeOf[m] = q.scope

CheckMessage(r, m) ==
    LET q == requests[r]
    IN  /\ q.pc = "check" /\ m \in q.todo
        /\ IF ~InScope(q, m) THEN Finish(r)
           ELSE /\ Goes(r, IF q.todo = {m} THEN [q EXCEPT !.pc = "delete", !.todo = q.ids, !.ids = {}]
                           ELSE [q EXCEPT !.todo = @ \ {m}])
                /\ UNCHANGED active
        /\ UNCHANGED stored

\* One message after the other; what has gone meanwhile is passed over.
DeleteMessage(r, m) ==
    LET q == requests[r]
    IN  /\ q.pc = "delete" /\ m \in q.todo
        /\ messages' = messages \ {m}
        /\ IF q.todo = {m} THEN Finish(r)
           ELSE Goes(r, [q EXCEPT !.todo = @ \ {m}]) /\ UNCHANGED active
        /\ UNCHANGED <<users, memberships, sessions, keys, epoch>>

\* The process ends; the guard starts anew.
Restart ==
    /\ requests' = [r \in Request |-> Idle]
    /\ active' = 0
    /\ UNCHANGED stored

-----------------------------------------------------------------------------
Operator ==
    \/ \E u \in User : \/ \E disabled \in BOOLEAN : SetUserDisabled(u, disabled)
                       \/ \E p \in Project, role \in Assigned : OperatorAssigns(u, p, role)
    \/ \E k \in Key : CreateAPIKey(k) \/ EndAPIKey(k)

SignIn(r) ==
    \/ \E u \in User : Reset(r, u) \/ \E password \in Password : Login(r, u, password)
    \/ ReadCredential(r) \/ Verify(r) \/ Confirm(r)
    \/ \E s \in Session : CreateUserSession(r, s)
    \/ \E password \in Password : ChangeOwn(r, password) \/ ChangePassword(r, password)

Serve(r) ==
    \/ \E s \in Session : Arrive(r, s) \/ RevokeUserSession(r, s)
    \/ \E k \in Key : ArriveKey(r, k)
    \/ ReadSession(r) \/ ReadRoles(r) \/ ReadKey(r)
    \/ \E u \in User, p \in Project, role \in Assigned : TeamAssigns(r, u, p, role)
    \/ \E ids \in SUBSET Message : \E first \in ids : Select(r, ids, first)
    \/ \E m \in Message : CheckMessage(r, m) \/ DeleteMessage(r, m)

Next ==
    \/ Operator \/ Restart \/ \E s \in Session : Expire(s)
    \/ \E r \in Request : SignIn(r) \/ Serve(r) \/ Abort(r)

Spec == Init /\ [][Next]_vars

-----------------------------------------------------------------------------
(* Properties.                                                             *)

\* A session that can be used was created after the last change of its account and of
\* its memberships, by one who knew the password in force, although a login reads the
\* account, works on the password for long, and only then creates the session.
SessionsCurrent ==
    \A s \in Session :
        sessions[s].state = "live" =>
            LET u == sessions[s].user
            IN  /\ ~users[u].disabled
                /\ sessions[s].born = epoch[u]
                /\ sessions[s].password = users[u].password

Admitted(q) == q.cred # None /\ q.pc \notin {"idle", "session", "roles", "key"}

\* What a request may do with the messages of p, going by what was so since it arrived.
Permits(q, p) ==
    IF q.cred \in Key THEN (IF ScopeOf[q.cred] = p THEN Grants[q.cred] ELSE {})
    ELSE UNION {RolePermissions[role] : role \in q.held[p]}

\* A request acts with a credential that was good when it arrived and in roles that its
\* user has had since then; a deletion touches no message of another project.
Granted ==
    \A r \in Request :
        LET q == requests[r]
        IN  Admitted(q) =>
                /\ q.alive
                /\ q.cred \in Session => \A p \in Project : q.roles[p] \in q.held[p]
                /\ q.pc = "delete" => \A m \in q.todo : "delete" \in Permits(q, HomeOf[m])

\* Slots are neither lost nor handed out twice, on whatever path a request ends.
SlotsExact == active = Cardinality({r \in Request : Working(r)}) /\ active <= KdfSlots

\* A password is replaced by an operator, or by a user who has presented the one that is
\* replaced: a change that verified an older one does not undo an operator's reset.
ReplacedKnowingly ==
    \A u \in User :
        users'[u].salt # users[u].salt =>
            \E r \in Request :
                /\ requests[r].pc = "change" /\ requests[r].user = u
                /\ requests[r].cred = None \/ requests[r].password = users[u].password
ChangedByOwner == [][ReplacedKnowingly]_vars
-----------------------------------------------------------------------------
(* What accounts promise whoever calls.                                    *)

\* What a request is for, to the one who waits for its answer.  A credential that had
\* ended when it came asks for nothing, and a login that has its session neither.
Purpose(q) ==
    IF q.pc \in {"idle", "confirm"} \/ q.cred \in Key \/ (q.cred # None /\ ~q.alive) THEN "none"
    ELSE IF q.cred # None
    THEN (IF q.pc \in {"credential", "verify", "change"} THEN "change" ELSE "act")
    ELSE IF q.pc = "change" THEN "reset" ELSE "login"

Call(q) ==
    LET op == Purpose(q)
    IN  [op |-> op,
         user |-> IF op = "none" THEN None ELSE q.user,
         presented |-> IF op \in {"login", "change"} THEN q.password ELSE None,
         seen |-> IF op = "act" THEN q.held ELSE None]

Atomic == INSTANCE Accounts WITH
    password <- [u \in User |-> users[u].password],
    disabled <- [u \in User |-> users[u].disabled],
    roles <- memberships,
    session <- [s \in Session |-> [user |-> sessions[s].user, state |-> sessions[s].state]],
    calls <- [r \in Request |-> Call(requests[r])]

\* Every behaviour of requests that read, verify and write in separate statements is one of
\* Accounts, in which a login and a change of a password happen at one instant: nothing is
\* decided by what an account was when it was read, and no ended credential does anything.
RefinesAccounts == Atomic!Spec
=============================================================================
