---------------------------- MODULE AccessProofs ----------------------------
(***************************************************************************)
(* Proofs about Access, for any number of accounts, sessions, keys,        *)
(* messages and requests and any number of slots.                          *)
(***************************************************************************)
EXTENDS Access, FiniteSetTheorems, TLAPS

-----------------------------------------------------------------------------
(* The inductive invariant.                                                *)

\* What a request under way knows, and may rely on, whatever happens meanwhile.

\* Which credentials a request may have where it stands.
Presented(q) ==
    /\ q.pc \in {"session", "roles"} => q.cred \in Session
    /\ q.pc = "key" => q.cred \in Key
    /\ q.pc \in {"credential", "verify", "change"} => q.cred \in Session \cup {None}
    /\ q.pc \in {"admitted", "check", "delete"} => q.cred \in Session \cup Key
    /\ q.pc \in {"idle", "create", "confirm"} => q.cred = None
    /\ q.cred \in Session \/ q.pc \in {"credential", "verify", "create", "change"}
            => q.user \in User

\* The password is the one that was hashed, once it was verified.
Verified(q) ==
    /\ q.pc = "verify" => q.hash \in Hashes
    /\ q.pc = "create" \/ (q.pc = "change" /\ q.cred # None)
            => q.hash \in Hashes /\ q.password = q.hash.password

\* A credential that had ended when the request arrived is ended, and not accepted.
Arrived(q, ss, ks) ==
    /\ q.pc = "session" => q.alive \/ ss[q.cred].state = "ended"
    /\ q.pc = "key" => q.alive \/ ks[q.cred] = "ended"
    /\ q.pc = "roles" \/ Admitted(q) => q.alive

\* The roles of the user are among those seen since, and so are the roles that were read.
Follows(q, ms) ==
    q.cred \in Session =>
        \A p \in Project : /\ ms[q.user][p] \in q.held[p]
                           /\ Admitted(q) => q.roles[p] \in q.held[p]

\* Deletion is permitted in one project, and to that the messages checked so far belong.
Confined(q) ==
    /\ q.pc \in {"check", "delete"} => q.scope \in Project /\ "delete" \in Permits(q, q.scope)
    /\ q.pc = "check" => \A m \in q.ids \ q.todo : HomeOf[m] = q.scope
    /\ q.pc = "delete" => \A m \in q.todo : HomeOf[m] = q.scope

Good(q, ss, ks, ms) ==
    Presented(q) /\ Verified(q) /\ Arrived(q, ss, ks) /\ Follows(q, ms) /\ Confined(q)

SessionsOwned == \A s \in Session : sessions[s].state # "none" => sessions[s].user \in User

StoredOK ==
    /\ users \in [User -> Account]
    /\ memberships \in [User -> [Project -> Role]]
    /\ sessions \in [Session -> SessionRow]
    /\ keys \in [Key -> {"none", "live", "ended"}]
    /\ messages \subseteq Message
    /\ epoch \in [User -> Nat]
    /\ SessionsOwned /\ SessionsCurrent

RequestsOK ==
    /\ requests \in [Request -> RequestState]
    /\ \A r \in Request : Good(requests[r], sessions, keys, memberships)

SlotsOK == active \in Nat /\ SlotsExact

AccessInv == StoredOK /\ RequestsOK /\ SlotsOK

-----------------------------------------------------------------------------
(* How a request moves.                                                    *)

\* r becomes a request as it may be; its credential and roles included.
Moves(r) == \E q \in RequestState : Goes(r, q) /\ Good(q, sessions', keys', memberships')

\* What has ended stays so, and nobody's roles change.
Settled ==
    /\ memberships' = memberships
    /\ \A s \in Session : sessions[s].state = "ended" => sessions'[s].state = "ended"
    /\ \A k \in Key : keys[k] = "ended" => keys'[k] = "ended"

\* A slot is kept, taken while one is free, or given back.
KeepsSlot(r) == (Working(r)' <=> Working(r)) /\ active' = active
TakesSlot(r) == ~Working(r) /\ Working(r)' /\ active < KdfSlots /\ active' = active + 1
LeavesSlot(r) == ~Working(r)' /\ active' = Released(r)
Slots(r) == KeepsSlot(r) \/ TakesSlot(r) \/ LeavesSlot(r)

\* The request a move is about is the only one that changes.
LEMMA MovesRequests ==
    ASSUME RequestsOK, NEW r \in Request, Moves(r), Settled
    PROVE  RequestsOK'
<1>1. PICK q \in RequestState : Goes(r, q) /\ Good(q, sessions', keys', memberships')
    BY DEF Moves
<1>2. requests' \in [Request -> RequestState]
    BY <1>1 DEF Goes, RequestsOK
<1>3. ASSUME NEW t \in Request PROVE Good(requests'[t], sessions', keys', memberships')
    <2>1. CASE t = r
        BY <1>1, <2>1 DEF Goes, RequestsOK
    <2>2. CASE t # r
        <3>1. requests'[t] = requests[t] /\ Good(requests[t], sessions, keys, memberships)
            BY <1>1, <2>2 DEF Goes, RequestsOK
        <3>2. Arrived(requests[t], sessions', keys')
            BY <3>1 DEF Good, Arrived, Presented, Settled
        <3>3. QED BY <3>1, <3>2 DEF Good, Settled
    <2>3. QED BY <2>1, <2>2
<1>4. QED BY <1>2, <1>3 DEF RequestsOK

\* The number of slots in use follows the requests that hold one.
LEMMA MovesSlots ==
    ASSUME SlotsOK, RequestsOK, NEW r \in Request, Moves(r), Slots(r)
    PROVE  SlotsOK'
<1> DEFINE W == {t \in Request : Working(t)}
<1>1. IsFiniteSet(W) /\ IsFiniteSet(Request)
    BY AccessAssumption, FS_Subset
<1>2. Cardinality(W) \in Nat /\ active = Cardinality(W) /\ active <= KdfSlots /\ active \in Nat
    BY <1>1, FS_CardinalityType DEF SlotsOK, SlotsExact
<1>3. \A t \in Request : t # r => (Working(t)' <=> Working(t))
    BY DEF Moves, Goes, Working, RequestsOK
<1>4. CASE KeepsSlot(r)
    <2>1. W' = W
        BY <1>3, <1>4 DEF KeepsSlot
    <2>2. QED BY <1>2, <1>4, <2>1 DEF SlotsOK, SlotsExact, KeepsSlot
<1>5. CASE TakesSlot(r)
    <2>1. W' = W \cup {r} /\ r \notin W
        BY <1>3, <1>5 DEF TakesSlot
    <2>2. Cardinality(W') = Cardinality(W) + 1
        BY <1>1, <2>1, FS_AddElement
    <2>3. QED BY <1>2, <1>5, <2>2, AccessAssumption DEF SlotsOK, SlotsExact, TakesSlot
<1>6. CASE LeavesSlot(r) /\ Working(r)
    <2>1. W' = W \ {r} /\ r \in W
        BY <1>3, <1>6 DEF LeavesSlot
    <2>2. Cardinality(W') = Cardinality(W) - 1
        BY <1>1, <2>1, FS_RemoveElement
    <2>3. Cardinality(W') \in Nat
        BY <1>1, <2>1, FS_RemoveElement, FS_CardinalityType
    <2>4. QED BY <1>2, <1>6, <2>2, <2>3, AccessAssumption DEF SlotsOK, SlotsExact, LeavesSlot, Released
<1>7. CASE LeavesSlot(r) /\ ~Working(r)
    <2>1. W' = W
        BY <1>3, <1>7 DEF LeavesSlot
    <2>2. QED BY <1>2, <1>7, <2>1 DEF SlotsOK, SlotsExact, LeavesSlot, Released
<1>8. QED BY <1>4, <1>5, <1>6, <1>7 DEF Slots

-----------------------------------------------------------------------------
(* The actions that only move their request.                               *)

LEMMA IdleGood ==
    ASSUME NEW ss, NEW ks, NEW ms
    PROVE  Idle \in RequestState /\ Good(Idle, ss, ks, ms)
<1>1. Idle.pc = "idle" /\ Idle.cred = None
    BY DEF Idle
<1>2. None \notin Session \cup Key
    BY AccessAssumption
<1>3. Good(Idle, ss, ks, ms)
    BY <1>1, <1>2, Zenon DEF Good, Presented, Verified, Arrived, Follows, Confined, Admitted
<1>4. Idle \in RequestState
    BY DEF Idle, RequestState, Role
<1>5. QED BY <1>3, <1>4

LEMMA FinishMoves ==
    ASSUME RequestsOK, NEW r \in Request, Finish(r)
    PROVE  Moves(r) /\ Slots(r)
<1>1. Moves(r)
    BY IdleGood DEF Moves, Finish
<1>2. requests'[r] = Idle
    BY DEF Finish, Goes, RequestsOK
<1>3. LeavesSlot(r)
    BY <1>2 DEF LeavesSlot, Working, Finish, Idle
<1>4. QED BY <1>1, <1>3 DEF Slots

LEMMA StoredSettles ==
    ASSUME UNCHANGED stored
    PROVE  Settled /\ (StoredOK => StoredOK')
BY DEF stored, Settled, StoredOK, SessionsOwned, SessionsCurrent

\* The actions that take a slot.
LEMMA LoginMoves ==
    ASSUME StoredOK, RequestsOK, NEW r \in Request, NEW u \in User, NEW w \in Password, Login(r, u, w)
    PROVE  Moves(r) /\ Slots(r)
<1> DEFINE q == [Idle EXCEPT !.pc = "credential", !.user = u, !.password = w]
<1>1. q \in RequestState
    BY IdleGood DEF RequestState
<1>2. q.pc = "credential" /\ q.cred = None /\ q.user = u
    BY DEF Idle
<1>3. Goes(r, q) /\ requests'[r] = q
    BY DEF Login, Goes, RequestsOK
<1> HIDE DEF q
<1>4. Good(q, sessions', keys', memberships')
    BY <1>2, AccessAssumption DEF Good, Presented, Verified, Arrived, Follows, Confined, Admitted
<1>5. TakesSlot(r)
    BY <1>2, <1>3 DEF TakesSlot, Working, Login
<1>6. QED BY <1>1, <1>3, <1>4, <1>5 DEF Moves, Slots

LEMMA ResetMoves ==
    ASSUME StoredOK, RequestsOK, NEW r \in Request, NEW u \in User, Reset(r, u)
    PROVE  Moves(r) /\ Slots(r)
<1> DEFINE q == [Idle EXCEPT !.pc = "change", !.user = u]
<1>1. q \in RequestState
    BY IdleGood DEF RequestState
<1>2. q.pc = "change" /\ q.cred = None /\ q.user = u
    BY DEF Idle
<1>3. Goes(r, q) /\ requests'[r] = q
    BY DEF Reset, Goes, RequestsOK
<1> HIDE DEF q
<1>4. Good(q, sessions', keys', memberships')
    BY <1>2, AccessAssumption DEF Good, Presented, Verified, Arrived, Follows, Confined, Admitted
<1>5. TakesSlot(r)
    BY <1>2, <1>3 DEF TakesSlot, Working, Reset
<1>6. QED BY <1>1, <1>3, <1>4, <1>5 DEF Moves, Slots

LEMMA ChangeOwnMoves ==
    ASSUME StoredOK, RequestsOK, NEW r \in Request, NEW w \in Password, ChangeOwn(r, w)
    PROVE  Moves(r) /\ Slots(r)
<1> DEFINE q == [requests[r] EXCEPT !.pc = "credential", !.password = w]
<1>0. requests[r] \in RequestState /\ Good(requests[r], sessions, keys, memberships)
    BY DEF RequestsOK
<1>1. q \in RequestState
    BY <1>0 DEF RequestState
<1>2. /\ q.pc = "credential" /\ q.cred = requests[r].cred /\ q.user = requests[r].user
      /\ q.alive = requests[r].alive /\ q.roles = requests[r].roles /\ q.held = requests[r].held
    BY <1>0 DEF RequestState
<1>3. Goes(r, q) /\ requests'[r] = q
    BY DEF ChangeOwn, Goes, RequestsOK
<1> HIDE DEF q
<1>4. Good(q, sessions', keys', memberships')
    BY <1>0, <1>2, AccessAssumption
    DEF ChangeOwn, stored, Good, Presented, Verified, Arrived, Follows, Confined, Admitted
<1>5. TakesSlot(r)
    BY <1>2, <1>3 DEF TakesSlot, Working, ChangeOwn
<1>6. QED BY <1>1, <1>3, <1>4, <1>5 DEF Moves, Slots

\* The actions that keep their slot.
LEMMA ReadCredentialMoves ==
    ASSUME StoredOK, RequestsOK, NEW r \in Request, ReadCredential(r)
    PROVE  Moves(r) /\ Slots(r)
<1> DEFINE u == requests[r].user
           q == [requests[r] EXCEPT !.pc = "verify", !.hash = Hash(u)]
<1>0. requests[r] \in RequestState /\ Good(requests[r], sessions, keys, memberships)
    BY DEF RequestsOK
<1>1. CASE Finish(r)
    BY <1>1, FinishMoves
<1>2. CASE Goes(r, q) /\ UNCHANGED active
    <2>1. u \in User /\ Hash(u) \in Hashes
        BY <1>0 DEF ReadCredential, Good, Presented, StoredOK, Account, Hash, Hashes
    <2>2. q \in RequestState
        BY <1>0, <2>1 DEF RequestState
    <2>3. /\ q.pc = "verify" /\ q.cred = requests[r].cred /\ q.user = requests[r].user
          /\ q.alive = requests[r].alive /\ q.roles = requests[r].roles /\ q.held = requests[r].held
          /\ q.hash = Hash(u)
        BY <1>0 DEF RequestState
    <2>4. Goes(r, q) /\ requests'[r] = q
        BY <1>2 DEF Goes, RequestsOK
    <2> HIDE DEF q
    <2>5. Good(q, sessions', keys', memberships')
        BY <1>0, <2>1, <2>3, AccessAssumption
        DEF ReadCredential, stored, Good, Presented, Verified, Arrived, Follows, Confined, Admitted
    <2>6. KeepsSlot(r)
        BY <1>2, <2>3, <2>4 DEF KeepsSlot, Working, ReadCredential
    <2>7. QED BY <2>2, <2>4, <2>5, <2>6 DEF Moves, Slots
<1>3. QED BY <1>1, <1>2 DEF ReadCredential

LEMMA VerifyMoves ==
    ASSUME StoredOK, RequestsOK, NEW r \in Request, Verify(r)
    PROVE  Moves(r) /\ Slots(r)
<1> DEFINE pc == IF requests[r].cred = None THEN "create" ELSE "change"
           q == [requests[r] EXCEPT !.pc = pc]
<1>0. requests[r] \in RequestState /\ Good(requests[r], sessions, keys, memberships)
    BY DEF RequestsOK
<1>1. CASE Finish(r)
    BY <1>1, FinishMoves
<1>2. CASE requests[r].password = requests[r].hash.password /\ Goes(r, q) /\ UNCHANGED active
    <2>2. q \in RequestState
        BY <1>0 DEF RequestState
    <2>3. /\ q.pc = pc /\ q.cred = requests[r].cred /\ q.user = requests[r].user
          /\ q.alive = requests[r].alive /\ q.roles = requests[r].roles /\ q.held = requests[r].held
          /\ q.hash = requests[r].hash /\ q.password = requests[r].password
        BY <1>0 DEF RequestState
    <2>4. Goes(r, q) /\ requests'[r] = q
        BY <1>2 DEF Goes, RequestsOK
    <2> HIDE DEF q
    <2>5. Good(q, sessions', keys', memberships')
        BY <1>0, <1>2, <2>3, AccessAssumption
        DEF Verify, stored, Good, Presented, Verified, Arrived, Follows, Confined, Admitted
    <2>6. KeepsSlot(r)
        BY <1>2, <2>3, <2>4 DEF KeepsSlot, Working, Verify
    <2>7. QED BY <2>2, <2>4, <2>5, <2>6 DEF Moves, Slots
<1>3. QED BY <1>1, <1>2 DEF Verify

LEMMA ArriveMoves ==
    ASSUME StoredOK, RequestsOK, NEW r \in Request, NEW s \in Session, Arrive(r, s)
    PROVE  Moves(r) /\ Slots(r)
<1> DEFINE u == sessions[s].user
           held == [p \in Project |-> {memberships[u][p]}]
           q == [Idle EXCEPT !.pc = "session", !.cred = s, !.user = u,
                             !.alive = sessions[s].state = "live", !.held = held]
<1>1. u \in User /\ sessions[s].state \in {"live", "ended"} /\ held \in [Project -> SUBSET Role]
    BY DEF Arrive, StoredOK, SessionsOwned, SessionRow
<1>2. q \in RequestState
    BY <1>1, IdleGood DEF RequestState
<1>3. /\ q.pc = "session" /\ q.cred = s /\ q.user = u
      /\ q.alive = (sessions[s].state = "live") /\ q.held = held
    BY DEF Idle
<1>4. Goes(r, q) /\ requests'[r] = q
    BY DEF Arrive, Goes, RequestsOK
<1> HIDE DEF q
<1>5. Follows(q, memberships')
    BY <1>3 DEF Follows, Admitted, Arrive, stored
<1>6. Arrived(q, sessions', keys')
    BY <1>1, <1>3 DEF Arrived, Admitted, Arrive, stored
<1>7. Good(q, sessions', keys', memberships')
    BY <1>1, <1>3, <1>5, <1>6, AccessAssumption
    DEF Good, Presented, Verified, Confined
<1>8. KeepsSlot(r)
    BY <1>3, <1>4 DEF KeepsSlot, Working, Arrive
<1>9. QED BY <1>2, <1>4, <1>7, <1>8 DEF Moves, Slots

LEMMA ArriveKeyMoves ==
    ASSUME StoredOK, RequestsOK, NEW r \in Request, NEW k \in Key, ArriveKey(r, k)
    PROVE  Moves(r) /\ Slots(r)
<1> DEFINE q == [Idle EXCEPT !.pc = "key", !.cred = k, !.alive = keys[k] = "live"]
<1>1. keys[k] \in {"live", "ended"}
    BY DEF ArriveKey, StoredOK
<1>2. q \in RequestState
    BY <1>1, IdleGood DEF RequestState
<1>3. q.pc = "key" /\ q.cred = k /\ q.alive = (keys[k] = "live")
    BY DEF Idle
<1>4. Goes(r, q) /\ requests'[r] = q
    BY DEF ArriveKey, Goes, RequestsOK
<1> HIDE DEF q
<1>5. Good(q, sessions', keys', memberships')
    BY <1>1, <1>3, AccessAssumption
    DEF ArriveKey, stored, Good, Presented, Verified, Arrived, Follows, Confined, Admitted
<1>6. KeepsSlot(r)
    BY <1>3, <1>4 DEF KeepsSlot, Working, ArriveKey
<1>7. QED BY <1>2, <1>4, <1>5, <1>6 DEF Moves, Slots

LEMMA ReadSessionMoves ==
    ASSUME StoredOK, RequestsOK, NEW r \in Request, ReadSession(r)
    PROVE  Moves(r) /\ Slots(r)
<1> DEFINE q == [requests[r] EXCEPT !.pc = "roles"]
<1>1. requests[r] \in RequestState /\ Good(requests[r], sessions, keys, memberships)
    BY DEF RequestsOK
<1>2. CASE Finish(r)
    BY <1>2, FinishMoves
<1>3. CASE sessions[requests[r].cred].state = "live" /\ Goes(r, q) /\ UNCHANGED active
    <2>1. q \in RequestState
        BY <1>1 DEF RequestState, StoredOK
    <2>2. /\ q.cred = requests[r].cred /\ q.user = requests[r].user
          /\ q.alive = requests[r].alive /\ q.held = requests[r].held
          /\ q.pc = "roles"
        BY <1>1 DEF RequestState
    <2>3. Goes(r, q) /\ requests'[r] = q
        BY <1>3 DEF Goes, RequestsOK
    <2> HIDE DEF q
    <2>4. Good(q, sessions', keys', memberships')
        BY <1>1, <1>3, <2>2, AccessAssumption
        DEF ReadSession, stored, StoredOK, Good, Presented, Verified, Arrived, Follows, Confined, Admitted
    <2>5. KeepsSlot(r)
        BY <1>3, <2>2, <2>3 DEF KeepsSlot, Working, ReadSession
    <2>6. QED BY <2>1, <2>3, <2>4, <2>5 DEF Moves, Slots
<1>4. QED BY <1>2, <1>3 DEF ReadSession

LEMMA ReadKeyMoves ==
    ASSUME StoredOK, RequestsOK, NEW r \in Request, ReadKey(r)
    PROVE  Moves(r) /\ Slots(r)
<1> DEFINE q == [requests[r] EXCEPT !.pc = "admitted"]
<1>1. requests[r] \in RequestState /\ Good(requests[r], sessions, keys, memberships)
    BY DEF RequestsOK
<1>2. CASE Finish(r)
    BY <1>2, FinishMoves
<1>3. CASE keys[requests[r].cred] = "live" /\ Goes(r, q) /\ UNCHANGED active
    <2>1. q \in RequestState
        BY <1>1 DEF RequestState, StoredOK
    <2>2. /\ q.cred = requests[r].cred /\ q.user = requests[r].user
          /\ q.alive = requests[r].alive /\ q.held = requests[r].held
          /\ q.pc = "admitted"
        BY <1>1 DEF RequestState
    <2>3. Goes(r, q) /\ requests'[r] = q
        BY <1>3 DEF Goes, RequestsOK
    <2> HIDE DEF q
    <2>4. Good(q, sessions', keys', memberships')
        BY <1>1, <1>3, <2>2, AccessAssumption
        DEF ReadKey, stored, StoredOK, Good, Presented, Verified, Arrived, Follows, Confined, Admitted
    <2>5. KeepsSlot(r)
        BY <1>3, <2>2, <2>3 DEF KeepsSlot, Working, ReadKey
    <2>6. QED BY <2>1, <2>3, <2>4, <2>5 DEF Moves, Slots
<1>4. QED BY <1>2, <1>3 DEF ReadKey

LEMMA ReadRolesMoves ==
    ASSUME StoredOK, RequestsOK, NEW r \in Request, ReadRoles(r)
    PROVE  Moves(r) /\ Slots(r)
<1> DEFINE roles == memberships[requests[r].user]
           q == [requests[r] EXCEPT !.pc = "admitted", !.roles = roles]
<1>1. requests[r] \in RequestState /\ Good(requests[r], sessions, keys, memberships)
    BY DEF RequestsOK
<1>2. requests[r].user \in User /\ roles \in [Project -> Role]
    BY <1>1 DEF ReadRoles, StoredOK, Good, Presented
<1>3. q \in RequestState
    BY <1>1, <1>2 DEF RequestState
<1>4. /\ q.cred = requests[r].cred /\ q.user = requests[r].user
      /\ q.alive = requests[r].alive /\ q.held = requests[r].held
      /\ q.pc = "admitted" /\ q.roles = roles
    BY <1>1 DEF RequestState
<1>5. Goes(r, q) /\ requests'[r] = q
    BY DEF ReadRoles, Goes, RequestsOK
<1> HIDE DEF q
<1>6. Good(q, sessions', keys', memberships')
    BY <1>1, <1>4, AccessAssumption
    DEF ReadRoles, stored, Good, Presented, Verified, Arrived, Follows, Confined, Admitted
<1>7. KeepsSlot(r)
    BY <1>4, <1>5 DEF KeepsSlot, Working, ReadRoles
<1>8. QED BY <1>3, <1>5, <1>6, <1>7 DEF Moves, Slots

\* The actions of a bulk deletion.
LEMMA SelectMoves ==
    ASSUME StoredOK, RequestsOK, NEW r \in Request,
           NEW ids \in SUBSET Message, NEW first \in ids, Select(r, ids, first)
    PROVE  Moves(r) /\ Slots(r)
<1> DEFINE scope == IF requests[r].cred \in Key THEN ScopeOf[requests[r].cred] ELSE HomeOf[first]
           q == [requests[r] EXCEPT !.pc = "check", !.scope = scope, !.ids = ids, !.todo = ids]
<1>1. requests[r] \in RequestState /\ Good(requests[r], sessions, keys, memberships)
    BY DEF RequestsOK
<1>2. scope \in Project
    BY AccessAssumption
<1>3. q \in RequestState
    BY <1>1, <1>2 DEF RequestState
<1>4. /\ q.cred = requests[r].cred /\ q.user = requests[r].user
      /\ q.alive = requests[r].alive /\ q.held = requests[r].held
      /\ q.roles = requests[r].roles
      /\ q.pc = "check" /\ q.scope = scope /\ q.ids = ids /\ q.todo = ids
    BY <1>1 DEF RequestState
<1>5. Goes(r, q) /\ requests'[r] = q
    BY DEF Select, Goes, RequestsOK
<1>6. /\ requests[r].pc = "admitted"
      /\ q.cred \in Key => scope = ScopeOf[q.cred] /\ "delete" \in Grants[q.cred]
      /\ q.cred \notin Key => "delete" \in RolePermissions[q.roles[scope]]
    BY <1>4, Zenon DEF Select
<1> HIDE DEF q, scope
<1>7. q.cred \notin Key => q.roles[scope] \in q.held[scope]
    BY <1>1, <1>2, <1>4, <1>6, AccessAssumption DEF Good, Presented, Follows, Admitted
<1>8. "delete" \in Permits(q, scope)
    BY <1>6, <1>7, Zenon DEF Permits
<1>9. Good(q, sessions', keys', memberships')
    BY <1>1, <1>2, <1>4, <1>8, AccessAssumption
    DEF Select, stored, Good, Presented, Verified, Arrived, Follows, Confined, Admitted
<1>10. KeepsSlot(r)
    BY <1>4, <1>5, <1>6 DEF KeepsSlot, Working, Select
<1>11. QED BY <1>3, <1>5, <1>9, <1>10 DEF Moves, Slots

LEMMA CheckMessageMoves ==
    ASSUME StoredOK, RequestsOK, NEW r \in Request, NEW m \in Message, CheckMessage(r, m)
    PROVE  Moves(r) /\ Slots(r)
<1> DEFINE p == requests[r]
           last == [p EXCEPT !.pc = "delete", !.todo = p.ids, !.ids = {}]
           more == [p EXCEPT !.todo = @ \ {m}]
<1>1. p \in RequestState /\ Good(p, sessions, keys, memberships)
    BY DEF RequestsOK
<1>2. CASE Finish(r)
    BY <1>2, FinishMoves
<1>3. CASE InScope(p, m) /\ p.todo = {m} /\ Goes(r, last) /\ UNCHANGED active
    <2>1. last \in RequestState
        BY <1>1 DEF RequestState
    <2>2. /\ last.cred = p.cred /\ last.user = p.user /\ last.alive = p.alive
          /\ last.held = p.held /\ last.roles = p.roles /\ last.scope = p.scope
          /\ last.pc = "delete" /\ last.todo = p.ids
        BY <1>1 DEF RequestState
    <2>3. Goes(r, last) /\ requests'[r] = last
        BY <1>3 DEF Goes, RequestsOK
    <2> HIDE DEF last
    <2>4. Good(last, sessions', keys', memberships')
        BY <1>1, <1>3, <2>2, AccessAssumption
        DEF CheckMessage, InScope, Permits, stored,
            Good, Presented, Verified, Arrived, Follows, Confined, Admitted
    <2>5. KeepsSlot(r)
        BY <1>3, <2>2, <2>3 DEF KeepsSlot, Working, CheckMessage
    <2>6. QED BY <2>1, <2>3, <2>4, <2>5 DEF Moves, Slots
<1>4. CASE InScope(p, m) /\ p.todo # {m} /\ Goes(r, more) /\ UNCHANGED active
    <2>1. more \in RequestState
        BY <1>1 DEF RequestState
    <2>2. /\ more.cred = p.cred /\ more.user = p.user /\ more.alive = p.alive
          /\ more.held = p.held /\ more.roles = p.roles /\ more.scope = p.scope
          /\ more.pc = p.pc /\ more.ids = p.ids /\ more.todo = p.todo \ {m}
        BY <1>1 DEF RequestState
    <2>3. Goes(r, more) /\ requests'[r] = more
        BY <1>4 DEF Goes, RequestsOK
    <2> HIDE DEF more
    <2>4. Good(more, sessions', keys', memberships')
        BY <1>1, <1>4, <2>2, AccessAssumption
        DEF CheckMessage, InScope, Permits, stored,
            Good, Presented, Verified, Arrived, Follows, Confined, Admitted
    <2>5. KeepsSlot(r)
        BY <1>4, <2>2, <2>3 DEF KeepsSlot, Working, CheckMessage
    <2>6. QED BY <2>1, <2>3, <2>4, <2>5 DEF Moves, Slots
<1>5. QED BY <1>2, <1>3, <1>4 DEF CheckMessage

-----------------------------------------------------------------------------
(* The actions that change what is stored.                                 *)

\* An account changes, and its sessions end.
LEMMA ChangedStored ==
    ASSUME StoredOK, NEW u \in User, Changed(u), keys' = keys, messages' = messages,
           users' \in [User -> Account], memberships' \in [User -> [Project -> Role]],
           \A v \in User \ {u} : users'[v] = users[v]
    PROVE  /\ StoredOK'
           /\ \A s \in Session : sessions[s].state = "ended" => sessions'[s].state = "ended"
<1>1. epoch' \in [User -> Nat] /\ \A v \in User \ {u} : epoch'[v] = epoch[v]
    BY DEF StoredOK, Changed
<1>2. \A s \in Session :
          /\ sessions[s] \in SessionRow
          /\ sessions'[s] = IF sessions[s].user = u THEN Ended(s) ELSE sessions[s]
    BY DEF StoredOK, Changed, revokeSessions
<1>3. \A s \in Session :
          /\ Ended(s) \in SessionRow
          /\ Ended(s).state = "ended" /\ Ended(s).user = sessions[s].user
    BY <1>2 DEF Ended, NoSession, SessionRow
<1>4. sessions' \in [Session -> SessionRow]
    BY <1>3 DEF StoredOK, Changed, revokeSessions
<1>5. SessionsOwned'
    BY <1>2, <1>3 DEF SessionsOwned, StoredOK
<1>6. SessionsCurrent'
    <2>1. ASSUME NEW s \in Session, sessions'[s].state = "live"
          PROVE  sessions'[s] = sessions[s] /\ sessions[s].user \in User \ {u}
        BY <1>2, <1>3, <2>1 DEF StoredOK, SessionsOwned
    <2>2. QED BY <1>1, <2>1 DEF SessionsCurrent, StoredOK
<1>7. QED BY <1>1, <1>2, <1>3, <1>4, <1>5, <1>6 DEF StoredOK

LEMMA SetUserDisabledStored ==
    ASSUME StoredOK, NEW u \in User, NEW disabled \in BOOLEAN, SetUserDisabled(u, disabled)
    PROVE  StoredOK' /\ Settled /\ UNCHANGED <<requests, active>>
<1>1. users' \in [User -> Account] /\ \A v \in User \ {u} : users'[v] = users[v]
    BY DEF SetUserDisabled, StoredOK, Account
<1>2. QED BY <1>1, ChangedStored DEF SetUserDisabled, StoredOK, Settled

LEMMA ExpireStored ==
    ASSUME StoredOK, NEW s \in Session,
           sessions' = [sessions EXCEPT ![s] = Ended(s)], sessions[s].user \in User,
           UNCHANGED <<users, memberships, keys, messages, epoch>>
    PROVE  StoredOK' /\ Settled
<1>1. Ended(s) \in SessionRow /\ Ended(s).state = "ended" /\ Ended(s).user = sessions[s].user
    BY DEF Ended, NoSession, SessionRow, StoredOK
<1>2. sessions' \in [Session -> SessionRow]
    BY <1>1 DEF StoredOK
<1>3. SessionsOwned' /\ SessionsCurrent' /\ Settled
    BY <1>1 DEF StoredOK, SessionsOwned, SessionsCurrent, Settled
<1>4. QED BY <1>2, <1>3 DEF StoredOK

LEMMA KeyStored ==
    ASSUME StoredOK, NEW k \in Key, CreateAPIKey(k) \/ EndAPIKey(k)
    PROVE  StoredOK' /\ Settled /\ UNCHANGED <<requests, active>>
BY DEF StoredOK, SessionsOwned, SessionsCurrent, Settled, CreateAPIKey, EndAPIKey

\* A session is created for the account as it was verified.
LEMMA CreateUserSessionMoves ==
    ASSUME StoredOK, RequestsOK, NEW r \in Request, NEW s \in Session, CreateUserSession(r, s)
    PROVE  StoredOK' /\ Settled /\ Moves(r) /\ Slots(r)
<1> DEFINE u == requests[r].user
           row == [user |-> u, state |-> "live", born |-> epoch[u], password |-> requests[r].password]
           q == [Idle EXCEPT !.pc = "confirm"]
<1>1. requests[r] \in RequestState /\ Good(requests[r], sessions, keys, memberships)
    BY DEF RequestsOK
<1>2. CASE Finish(r) /\ UNCHANGED sessions
    BY <1>2, FinishMoves, StoredSettles DEF CreateUserSession, stored
<1>3. CASE /\ CanCreate(u, requests[r].hash) /\ sessions[s].state = "none"
           /\ sessions' = [sessions EXCEPT ![s] = row]
           /\ Goes(r, q) /\ UNCHANGED active
    <2>1. u \in User /\ requests[r].hash \in Hashes
          /\ requests[r].password = requests[r].hash.password
        BY <1>1 DEF CreateUserSession, Good, Presented, Verified
    <2>2. requests[r].password = users[u].password /\ ~users[u].disabled
        BY <1>3, <2>1 DEF CanCreate, Hash
    <2>3. row \in SessionRow
        BY <2>1 DEF SessionRow, StoredOK, Hashes
    <2>4. row.user = u /\ row.state = "live" /\ row.born = epoch[u]
          /\ row.password = users[u].password
        BY <2>2
    <2>5. q \in RequestState
        BY IdleGood DEF RequestState
    <2>6. q.pc = "confirm" /\ q.cred = None
        BY DEF Idle
    <2>7. requests'[r] = q /\ Goes(r, q)
        BY <1>3 DEF Goes, RequestsOK
    <2>8. \A t \in Session : sessions'[t] = IF t = s THEN row ELSE sessions[t]
        BY <1>3 DEF StoredOK
    <2>9. sessions' \in [Session -> SessionRow]
        BY <1>3, <2>3 DEF StoredOK
    <2> HIDE DEF q, row
    <2>10. Good(q, sessions', keys', memberships')
        BY <2>6, AccessAssumption DEF Good, Presented, Verified, Arrived, Follows, Confined, Admitted
    <2>11. KeepsSlot(r)
        BY <1>3, <2>6, <2>7 DEF KeepsSlot, Working, CreateUserSession
    <2>12. SessionsOwned' /\ SessionsCurrent'
        BY <2>1, <2>2, <2>4, <2>8 DEF StoredOK, SessionsOwned, SessionsCurrent, CreateUserSession
    <2>13. Settled
        BY <1>3, <2>8 DEF Settled, CreateUserSession
    <2>14. StoredOK'
        BY <2>9, <2>12 DEF StoredOK, CreateUserSession
    <2>15. QED BY <2>5, <2>7, <2>10, <2>11, <2>13, <2>14 DEF Moves, Slots
<1>4. QED BY <1>2, <1>3 DEF CreateUserSession

LEMMA ChangePasswordMoves ==
    ASSUME StoredOK, RequestsOK, NEW r \in Request, NEW w \in Password, ChangePassword(r, w)
    PROVE  StoredOK' /\ Settled /\ Moves(r) /\ Slots(r)
<1> DEFINE u == requests[r].user
<1>1. u \in User
    BY DEF RequestsOK, Good, Presented, ChangePassword
<1>2. Moves(r) /\ Slots(r)
    BY FinishMoves DEF ChangePassword
<1>3. CASE UNCHANGED <<users, sessions, epoch>>
    BY <1>2, <1>3, StoredSettles DEF ChangePassword, stored
<1>4. CASE SetUserPassword(u, w)
    <2>1. epoch[u] + 1 \in Nat
        BY <1>1 DEF StoredOK
    <2>2. users' \in [User -> Account] /\ \A v \in User \ {u} : users'[v] = users[v]
        BY <1>1, <1>4, <2>1 DEF SetUserPassword, StoredOK, Account
    <2>3. Changed(u)
        BY <1>4 DEF SetUserPassword
    <2>4. QED BY <1>1, <1>2, <2>2, <2>3, ChangedStored DEF ChangePassword, StoredOK, Settled
<1>5. QED BY <1>3, <1>4 DEF ChangePassword

LEMMA RevokeUserSessionMoves ==
    ASSUME StoredOK, RequestsOK, NEW r \in Request, NEW s \in Session, RevokeUserSession(r, s)
    PROVE  StoredOK' /\ Settled /\ Moves(r) /\ Slots(r)
<1>1. sessions[s].user \in User
    BY DEF RequestsOK, Good, Presented, RevokeUserSession
<1>2. Moves(r) /\ Slots(r)
    BY FinishMoves DEF RevokeUserSession
<1>3. QED BY <1>1, <1>2, ExpireStored DEF RevokeUserSession

LEMMA DeleteMessageMoves ==
    ASSUME StoredOK, RequestsOK, NEW r \in Request, NEW m \in Message, DeleteMessage(r, m)
    PROVE  StoredOK' /\ Settled /\ Moves(r) /\ Slots(r)
<1> DEFINE p == requests[r]
           q == [p EXCEPT !.todo = @ \ {m}]
<1>1. p \in RequestState /\ Good(p, sessions, keys, memberships)
    BY DEF RequestsOK
<1>2. StoredOK' /\ Settled
    BY DEF DeleteMessage, StoredOK, SessionsOwned, SessionsCurrent, Settled
<1>3. CASE Finish(r)
    BY <1>2, <1>3, FinishMoves
<1>4. CASE Goes(r, q) /\ UNCHANGED active
    <2>1. q \in RequestState
        BY <1>1 DEF RequestState
    <2>2. /\ q.cred = p.cred /\ q.user = p.user /\ q.alive = p.alive
          /\ q.held = p.held /\ q.roles = p.roles /\ q.scope = p.scope
          /\ q.pc = p.pc /\ q.ids = p.ids /\ q.todo = p.todo \ {m}
        BY <1>1 DEF RequestState
    <2>3. Goes(r, q) /\ requests'[r] = q
        BY <1>4 DEF Goes, RequestsOK
    <2> HIDE DEF q
    <2>4. Good(q, sessions', keys', memberships')
        BY <1>1, <2>2, AccessAssumption
        DEF DeleteMessage, Permits, Good, Presented, Verified, Arrived, Follows, Confined, Admitted
    <2>5. KeepsSlot(r)
        BY <1>4, <2>2, <2>3 DEF KeepsSlot, Working, DeleteMessage
    <2>6. QED BY <1>2, <2>1, <2>3, <2>4, <2>5 DEF Moves, Slots
<1>5. QED BY <1>3, <1>4 DEF DeleteMessage

\* A request under way sees the role that its user gets.
LEMMA HeldGood ==
    ASSUME StoredOK, RequestsOK, NEW u \in User, NEW p \in Project, NEW role \in Role,
           Assign(u, p, role), NEW t \in Request
    PROVE  /\ Held(u, p, role)[t] \in RequestState
           /\ Held(u, p, role)[t].pc = requests[t].pc
           /\ Good(Held(u, p, role)[t], sessions', keys', memberships')
<1> DEFINE q == requests[t]
           h == [q EXCEPT !.held[p] = @ \cup {role}]
<1>1. q \in RequestState /\ Good(q, sessions, keys, memberships)
    BY DEF RequestsOK
<1>2. /\ memberships' \in [User -> [Project -> Role]]
      /\ keys' = keys
      /\ \A v \in User, o \in Project :
            memberships'[v][o] = IF v = u /\ o = p THEN role ELSE memberships[v][o]
    BY DEF Assign, StoredOK
<1>3. \A s \in Session : sessions[s].state = "ended" => sessions'[s].state = "ended"
    BY <1>2, ChangedStored DEF Assign, StoredOK
<1>4. CASE q.pc # "idle" /\ q.user = u
    <2>1. Held(u, p, role)[t] = h
        BY <1>4 DEF Held
    <2>2. h \in RequestState
        BY <1>1 DEF RequestState
    <2>3. /\ h.pc = q.pc /\ h.cred = q.cred /\ h.user = q.user /\ h.alive = q.alive
          /\ h.roles = q.roles /\ h.scope = q.scope /\ h.ids = q.ids /\ h.todo = q.todo
          /\ h.hash = q.hash /\ h.password = q.password
          /\ \A o \in Project : h.held[o] = IF o = p THEN q.held[o] \cup {role} ELSE q.held[o]
        BY <1>1 DEF RequestState
    <2> HIDE DEF h
    <2>4. Follows(h, memberships')
        <3>1. SUFFICES ASSUME q.cred \in Session, NEW o \in Project
                       PROVE  /\ memberships'[u][o] \in h.held[o]
                              /\ Admitted(q) => q.roles[o] \in h.held[o]
            BY <1>4, <2>3, Zenon DEF Follows, Admitted
        <3>2. memberships[u][o] \in q.held[o] /\ (Admitted(q) => q.roles[o] \in q.held[o])
            BY <1>1, <1>4, <3>1, Zenon DEF Good, Follows
        <3>3. QED BY <1>2, <2>3, <3>2
    <2>5. \A o \in Project : Permits(q, o) \subseteq Permits(h, o)
        BY <2>3 DEF Permits
    <2>6. Confined(h)
        BY <1>1, <2>3, <2>5 DEF Good, Confined
    <2>7. Presented(h) /\ Verified(h)
        BY <1>1, <2>3 DEF Good, Presented, Verified
    <2>8. Arrived(h, sessions', keys')
        BY <1>1, <1>2, <1>3, <2>3 DEF Good, Arrived, Admitted, Presented
    <2>9. QED BY <2>1, <2>2, <2>3, <2>4, <2>6, <2>7, <2>8 DEF Good
<1>5. CASE ~(q.pc # "idle" /\ q.user = u)
    <2>1. Held(u, p, role)[t] = q
        BY <1>5 DEF Held
    <2>2. q.cred \in Session => q.pc # "idle"
        BY <1>1, AccessAssumption DEF Good, Presented
    <2>3. Follows(q, memberships')
        BY <1>1, <1>2, <1>5, <2>2 DEF Good, Presented, Follows
    <2>4. Arrived(q, sessions', keys')
        BY <1>1, <1>2, <1>3 DEF Good, Arrived, Presented
    <2>5. QED BY <1>1, <2>1, <2>3, <2>4 DEF Good
<1>6. QED BY <1>4, <1>5

LEMMA AssignStored ==
    ASSUME StoredOK, NEW u \in User, NEW p \in Project, NEW role \in Role, Assign(u, p, role)
    PROVE  StoredOK'
<1>1. memberships' \in [User -> [Project -> Role]]
    BY DEF Assign, StoredOK
<1>2. QED BY <1>1, ChangedStored DEF Assign, StoredOK

\* Nobody takes or gives back a slot.
LEMMA SlotsKept ==
    ASSUME SlotsOK, active' = active, \A t \in Request : Working(t)' <=> Working(t)
    PROVE  SlotsOK'
<1>1. {t \in Request : Working(t)}' = {t \in Request : Working(t)}
    OBVIOUS
<1>2. QED BY <1>1 DEF SlotsOK, SlotsExact

LEMMA OperatorAssignsStep ==
    ASSUME AccessInv, NEW u \in User, NEW p \in Project, NEW role \in Role,
           OperatorAssigns(u, p, role)
    PROVE  AccessInv'
<1>1. StoredOK /\ RequestsOK /\ SlotsOK /\ Assign(u, p, role) /\ requests' = Held(u, p, role)
    BY DEF AccessInv, OperatorAssigns
<1>2. RequestsOK'
    <2>1. requests' \in [Request -> RequestState]
        BY <1>1, HeldGood DEF Held
    <2>2. \A t \in Request : Good(requests'[t], sessions', keys', memberships')
        BY <1>1, HeldGood
    <2>3. QED BY <2>1, <2>2 DEF RequestsOK
<1>3. SlotsOK'
    BY <1>1, HeldGood, SlotsKept DEF OperatorAssigns, Working
<1>4. QED BY <1>1, <1>2, <1>3, AssignStored DEF AccessInv

LEMMA TeamAssignsStep ==
    ASSUME AccessInv, NEW r \in Request, NEW u \in User, NEW p \in Project, NEW role \in Role,
           TeamAssigns(r, u, p, role)
    PROVE  AccessInv'
<1> DEFINE held == Held(u, p, role)
<1>1. /\ StoredOK /\ RequestsOK /\ SlotsOK /\ Assign(u, p, role)
      /\ requests' = [held EXCEPT ![r] = Idle] /\ active' = Released(r)
      /\ requests[r].pc = "admitted"
    BY DEF AccessInv, TeamAssigns
<1>2. /\ requests' \in [Request -> RequestState]
      /\ \A t \in Request : requests'[t] = IF t = r THEN Idle ELSE held[t]
    <2>1. held \in [Request -> RequestState]
        BY <1>1, HeldGood DEF Held
    <2>2. QED BY <1>1, <2>1, IdleGood
<1>3. RequestsOK'
    <2>1. \A t \in Request : Good(requests'[t], sessions', keys', memberships')
        <3> HIDE DEF held
        <3>1. \A t \in Request : Good(held[t], sessions', keys', memberships')
            BY <1>1, HeldGood DEF held
        <3>2. Good(Idle, sessions', keys', memberships')
            BY IdleGood
        <3>3. QED BY <1>2, <3>1, <3>2
    <2>2. QED BY <1>2, <2>1 DEF RequestsOK
<1>4. SlotsOK'
    <2>1. active' = active
        BY <1>1 DEF Released, Working
    <2>2. \A t \in Request : requests'[t].pc = IF t = r THEN "idle" ELSE requests[t].pc
        BY <1>1, <1>2, HeldGood DEF Idle
    <2>3. \A t \in Request : Working(t)' <=> Working(t)
        BY <1>1, <2>2 DEF Working
    <2>4. QED BY <1>1, <2>1, <2>3, SlotsKept
<1>5. QED BY <1>1, <1>3, <1>4, AssignStored DEF AccessInv

LEMMA RestartStep ==
    ASSUME AccessInv, Restart
    PROVE  AccessInv'
<1>1. StoredOK'
    BY StoredSettles DEF AccessInv, Restart
<1>2. RequestsOK'
    BY IdleGood DEF RequestsOK, Restart
<1>3. SlotsOK'
    <2>1. {t \in Request : Working(t)}' = {}
        BY DEF Restart, Working, Idle
    <2>2. active' = 0 /\ Cardinality({}) = 0
        BY FS_EmptySet DEF Restart
    <2>3. KdfSlots \in Nat
        BY AccessAssumption
    <2>4. Cardinality({t \in Request : Working(t)})' = 0
        BY <2>1, <2>2, Zenon
    <2>5. QED BY <2>2, <2>3, <2>4 DEF SlotsOK, SlotsExact
<1>4. QED BY <1>1, <1>2, <1>3 DEF AccessInv

-----------------------------------------------------------------------------
(* The theorems.                                                           *)

LEMMA InitInv == Init => AccessInv
<1> SUFFICES ASSUME Init PROVE AccessInv
    OBVIOUS
<1>1. StoredOK
    BY AccessAssumption
    DEF Init, StoredOK, Account, SessionRow, NoSession, SessionsOwned, SessionsCurrent
<1>2. RequestsOK
    BY IdleGood DEF Init, RequestsOK
<1>3. SlotsOK
    <2>1. {t \in Request : Working(t)} = {}
        BY DEF Init, Working, Idle
    <2>2. active = 0 /\ Cardinality({}) = 0 /\ KdfSlots \in Nat
        BY FS_EmptySet, AccessAssumption DEF Init
    <2>3. Cardinality({t \in Request : Working(t)}) = 0
        BY <2>1, <2>2, Zenon
    <2>4. QED BY <2>2, <2>3 DEF SlotsOK, SlotsExact
<1>4. QED BY <1>1, <1>2, <1>3 DEF AccessInv

\* A request that moves, and what it stores.
LEMMA MovesInv ==
    ASSUME AccessInv, NEW r \in Request, StoredOK', Settled, Moves(r), Slots(r)
    PROVE  AccessInv'
BY MovesRequests, MovesSlots DEF AccessInv

\* Statements that change nothing a request looks at.
LEMMA QuietInv ==
    ASSUME AccessInv, StoredOK', Settled, UNCHANGED <<requests, active>>
    PROVE  AccessInv'
<1>1. RequestsOK'
    <2>1. ASSUME NEW t \in Request PROVE Good(requests[t], sessions', keys', memberships')
        <3>1. Good(requests[t], sessions, keys, memberships)
            BY DEF AccessInv, RequestsOK
        <3>2. Arrived(requests[t], sessions', keys')
            BY <3>1 DEF Good, Arrived, Presented, Settled
        <3>3. QED BY <3>1, <3>2 DEF Good, Settled
    <2>2. QED BY <2>1 DEF AccessInv, RequestsOK
<1>2. SlotsOK'
    BY SlotsKept DEF AccessInv, Working
<1>3. QED BY <1>1, <1>2 DEF AccessInv

LEMMA SignInStep ==
    ASSUME AccessInv, NEW r \in Request, SignIn(r)
    PROVE  AccessInv'
<1> USE DEF AccessInv
<1>1. ASSUME NEW u \in User, Reset(r, u) PROVE AccessInv'
    <2>1. UNCHANGED stored
        BY <1>1 DEF Reset
    <2>2. QED BY <1>1, <2>1, ResetMoves, StoredSettles, MovesInv
<1>2. ASSUME NEW u \in User, NEW w \in Password, Login(r, u, w) PROVE AccessInv'
    <2>1. UNCHANGED stored
        BY <1>2 DEF Login
    <2>2. QED BY <1>2, <2>1, LoginMoves, StoredSettles, MovesInv
<1>3. CASE ReadCredential(r)
    <2>1. UNCHANGED stored
        BY <1>3 DEF ReadCredential
    <2>2. QED BY <1>3, <2>1, ReadCredentialMoves, StoredSettles, MovesInv
<1>4. CASE Verify(r)
    <2>1. UNCHANGED stored
        BY <1>4 DEF Verify
    <2>2. QED BY <1>4, <2>1, VerifyMoves, StoredSettles, MovesInv
<1>5. CASE Confirm(r)
    <2>1. UNCHANGED stored /\ Finish(r)
        BY <1>5 DEF Confirm
    <2>2. QED BY <2>1, FinishMoves, StoredSettles, MovesInv
<1>6. ASSUME NEW s \in Session, CreateUserSession(r, s) PROVE AccessInv'
    BY <1>6, CreateUserSessionMoves, MovesInv
<1>7. ASSUME NEW w \in Password, ChangeOwn(r, w) PROVE AccessInv'
    <2>1. UNCHANGED stored
        BY <1>7 DEF ChangeOwn
    <2>2. QED BY <1>7, <2>1, ChangeOwnMoves, StoredSettles, MovesInv
<1>8. ASSUME NEW w \in Password, ChangePassword(r, w) PROVE AccessInv'
    BY <1>8, ChangePasswordMoves, MovesInv
<1>9. QED BY <1>1, <1>2, <1>3, <1>4, <1>5, <1>6, <1>7, <1>8 DEF SignIn

LEMMA ServeStep ==
    ASSUME AccessInv, NEW r \in Request, Serve(r)
    PROVE  AccessInv'
<1> USE DEF AccessInv
<1>1. ASSUME NEW s \in Session, Arrive(r, s) PROVE AccessInv'
    <2>1. UNCHANGED stored
        BY <1>1 DEF Arrive, stored
    <2>2. QED BY <1>1, <2>1, ArriveMoves, StoredSettles, MovesInv
<1>2. ASSUME NEW s \in Session, RevokeUserSession(r, s) PROVE AccessInv'
    BY <1>2, RevokeUserSessionMoves, MovesInv
<1>3. ASSUME NEW k \in Key, ArriveKey(r, k) PROVE AccessInv'
    <2>1. UNCHANGED stored
        BY <1>3 DEF ArriveKey, stored
    <2>2. QED BY <1>3, <2>1, ArriveKeyMoves, StoredSettles, MovesInv
<1>4. CASE ReadSession(r)
    <2>1. UNCHANGED stored
        BY <1>4 DEF ReadSession
    <2>2. QED BY <1>4, <2>1, ReadSessionMoves, StoredSettles, MovesInv
<1>5. CASE ReadRoles(r)
    <2>1. UNCHANGED stored
        BY <1>5 DEF ReadRoles, stored
    <2>2. QED BY <1>5, <2>1, ReadRolesMoves, StoredSettles, MovesInv
<1>6. CASE ReadKey(r)
    <2>1. UNCHANGED stored
        BY <1>6 DEF ReadKey
    <2>2. QED BY <1>6, <2>1, ReadKeyMoves, StoredSettles, MovesInv
<1>7. ASSUME NEW u \in User, NEW p \in Project, NEW role \in Assigned, TeamAssigns(r, u, p, role)
      PROVE  AccessInv'
    BY <1>7, TeamAssignsStep, AccessAssumption
<1>8. ASSUME NEW ids \in SUBSET Message, NEW first \in ids, Select(r, ids, first) PROVE AccessInv'
    <2>1. UNCHANGED stored
        BY <1>8 DEF Select, stored
    <2>2. QED BY <1>8, <2>1, SelectMoves, StoredSettles, MovesInv
<1>9. ASSUME NEW m \in Message, CheckMessage(r, m) PROVE AccessInv'
    <2>1. UNCHANGED stored
        BY <1>9 DEF CheckMessage
    <2>2. QED BY <1>9, <2>1, CheckMessageMoves, StoredSettles, MovesInv
<1>10. ASSUME NEW m \in Message, DeleteMessage(r, m) PROVE AccessInv'
    BY <1>10, DeleteMessageMoves, MovesInv
<1>11. QED
    BY <1>1, <1>2, <1>3, <1>4, <1>5, <1>6, <1>7, <1>8, <1>9, <1>10 DEF Serve

LEMMA NextInv == AccessInv /\ [Next]_vars => AccessInv'
<1> SUFFICES ASSUME AccessInv, [Next]_vars PROVE AccessInv'
    OBVIOUS
<1>1. ASSUME NEW u \in User, NEW disabled \in BOOLEAN, SetUserDisabled(u, disabled)
      PROVE  AccessInv'
    BY <1>1, SetUserDisabledStored, QuietInv DEF AccessInv
<1>2. ASSUME NEW u \in User, NEW p \in Project, NEW role \in Assigned, OperatorAssigns(u, p, role)
      PROVE  AccessInv'
    BY <1>2, OperatorAssignsStep, AccessAssumption
<1>3. ASSUME NEW k \in Key, CreateAPIKey(k) \/ EndAPIKey(k) PROVE AccessInv'
    BY <1>3, KeyStored, QuietInv DEF AccessInv
<1>4. CASE Restart
    BY <1>4, RestartStep
<1>5. ASSUME NEW s \in Session, Expire(s) PROVE AccessInv'
    <2>1. sessions[s].user \in User
        BY <1>5 DEF Expire, AccessInv, StoredOK, SessionsOwned
    <2>2. StoredOK' /\ Settled /\ UNCHANGED <<requests, active>>
        BY <1>5, <2>1, ExpireStored DEF Expire, AccessInv
    <2>3. QED BY <2>2, QuietInv
<1>6. ASSUME NEW r \in Request, SignIn(r) PROVE AccessInv'
    BY <1>6, SignInStep
<1>7. ASSUME NEW r \in Request, Serve(r) PROVE AccessInv'
    BY <1>7, ServeStep
<1>8. ASSUME NEW r \in Request, Abort(r) PROVE AccessInv'
    <2>1. UNCHANGED stored /\ Finish(r)
        BY <1>8 DEF Abort
    <2>2. QED BY <2>1, FinishMoves, StoredSettles, MovesInv DEF AccessInv
<1>9. CASE UNCHANGED vars
    <2>1. StoredOK' /\ Settled
        BY <1>9, StoredSettles DEF vars, stored, AccessInv
    <2>2. QED BY <1>9, <2>1, QuietInv DEF vars
<1>10. QED
    BY <1>1, <1>2, <1>3, <1>4, <1>5, <1>6, <1>7, <1>8, <1>9 DEF Next, Operator

\* The inductive invariant holds of accounts, requests and slots alike.
THEOREM Invariance == Spec => []AccessInv
BY InitInv, NextInv, PTL DEF Spec

\* Every variable keeps its type, requests with all they carry included.
THEOREM TypeCorrect == Spec => []TypeOK
<1>1. AccessInv => TypeOK
    BY DEF AccessInv, StoredOK, RequestsOK, SlotsOK, TypeOK
<1>2. QED BY <1>1, Invariance, PTL

\* No session outlives a change of its account, however logins and changes interleave.
THEOREM NoStaleSession == Spec => []SessionsCurrent
<1>1. AccessInv => SessionsCurrent
    BY DEF AccessInv, StoredOK
<1>2. QED BY <1>1, Invariance, PTL

\* No request acts beyond its credential, the roles of its user and one project.
THEOREM NothingBeyondGrant == Spec => []Granted
<1>1. ASSUME AccessInv PROVE Granted
    <2>1. ASSUME NEW r \in Request, Admitted(requests[r])
          PROVE  LET q == requests[r]
                 IN  /\ q.alive
                     /\ q.cred \in Session => \A p \in Project : q.roles[p] \in q.held[p]
                     /\ q.pc = "delete" => \A m \in q.todo : "delete" \in Permits(q, HomeOf[m])
        BY <1>1, <2>1 DEF AccessInv, RequestsOK, Good, Arrived, Follows, Confined
    <2>2. QED BY <2>1, Zenon DEF Granted
<1>2. QED BY <1>1, Invariance, PTL

\* The guard counts exactly the requests that work on passwords, and never too many.
THEOREM GuardExact == Spec => []SlotsExact
<1>1. AccessInv => SlotsExact
    BY DEF AccessInv, SlotsOK
<1>2. QED BY <1>1, Invariance, PTL

\* Only a change of password gives an account another salt.
LEMMA SaltChanges ==
    ASSUME AccessInv, [Next]_vars, NEW u \in User, users'[u].salt # users[u].salt
    PROVE  \E r \in Request, w \in Password :
              ChangePassword(r, w) /\ requests[r].user = u /\ Matches(u, requests[r].hash)
<1> DEFINE Goal == \E r \in Request, w \in Password :
              ChangePassword(r, w) /\ requests[r].user = u /\ Matches(u, requests[r].hash)
<1> SUFFICES Goal
    OBVIOUS
<1>1. users \in [User -> Account] /\ users' # users
    BY DEF AccessInv, StoredOK
<1>2. ASSUME NEW v \in User, NEW disabled \in BOOLEAN, SetUserDisabled(v, disabled) PROVE Goal
    <2>1. users'[u].salt = users[u].salt
        BY <1>1, <1>2 DEF SetUserDisabled, Account
    <2>2. QED BY <2>1
<1>3. ASSUME NEW r \in Request, NEW w \in Password, ChangePassword(r, w) PROVE Goal
    <2>1. requests[r].user = u
        BY <1>1, <1>3 DEF ChangePassword, SetUserPassword
    <2>2. Matches(u, requests[r].hash)
        BY <1>1, <1>3, <2>1 DEF ChangePassword
    <2>3. QED BY <1>3, <2>1, <2>2
<1>4. ASSUME NEW r \in Request, SignIn(r) PROVE Goal
    BY <1>1, <1>3, <1>4, Zenon
    DEF SignIn, Reset, Login, ReadCredential, Verify, Confirm, CreateUserSession, ChangeOwn, stored
<1>5. ASSUME NEW r \in Request, Serve(r) PROVE Goal
    BY <1>1, <1>5
    DEF Serve, Arrive, RevokeUserSession, ArriveKey, ReadSession, ReadRoles, ReadKey, TeamAssigns,
        Assign, Select, CheckMessage, DeleteMessage, stored
<1>6. ASSUME Operator \/ Restart \/ (\E s \in Session : Expire(s)) PROVE Goal
    BY <1>1, <1>2, <1>6
    DEF Operator, OperatorAssigns, Assign, CreateAPIKey, EndAPIKey, Restart, Expire, stored
<1>7. ASSUME NEW r \in Request, Abort(r) PROVE Goal
    BY <1>1, <1>7 DEF Abort, stored
<1>8. QED BY <1>1, <1>4, <1>5, <1>6, <1>7 DEF Next, vars

\* A password gives way to an operator, or to one who knew it: resets are not undone.
THEOREM PasswordOwned == Spec => ChangedByOwner
<1>1. ASSUME AccessInv, [Next]_vars PROVE ReplacedKnowingly
    <2>1. SUFFICES ASSUME NEW u \in User, users'[u].salt # users[u].salt
                   PROVE  \E r \in Request :
                             /\ requests[r].pc = "change" /\ requests[r].user = u
                             /\ requests[r].cred = None \/ requests[r].password = users[u].password
        BY DEF ReplacedKnowingly
    <2>2. PICK r \in Request, w \in Password :
              ChangePassword(r, w) /\ requests[r].user = u /\ Matches(u, requests[r].hash)
        BY <1>1, <2>1, SaltChanges
    <2>3. requests[r].pc = "change" /\ Verified(requests[r])
        BY <1>1, <2>2 DEF AccessInv, RequestsOK, Good, ChangePassword
    <2>4. CASE requests[r].cred # None
        <3>1. /\ requests[r].hash \in Hashes
              /\ requests[r].password = requests[r].hash.password
            BY <2>3, <2>4 DEF Verified
        <3>2. Hash(u) = requests[r].hash
            BY <2>2, <3>1, AccessAssumption DEF Matches
        <3>3. requests[r].password = users[u].password
            BY <3>1, <3>2 DEF Hash
        <3>4. QED BY <2>2, <2>3, <3>3
    <2>5. CASE requests[r].cred = None
        BY <2>2, <2>3, <2>5
    <2>6. QED BY <2>4, <2>5
<1>2. QED BY <1>1, Invariance, PTL DEF Spec, ChangedByOwner
-----------------------------------------------------------------------------
(* The refinement of Accounts.                                             *)

LEMMA CallFields ==
    ASSUME NEW q
    PROVE  /\ Call(q) = [op |-> Purpose(q), user |-> Call(q).user,
                         presented |-> Call(q).presented, seen |-> Call(q).seen]
           /\ Call(q).op = Purpose(q)
           /\ Purpose(q) # "none" => Call(q).user = q.user
           /\ Purpose(q) \in {"login", "change"} => Call(q).presented = q.password
           /\ Purpose(q) \notin {"login", "change"} => Call(q).presented = None
           /\ Purpose(q) = "act" => Call(q).seen = q.held
           /\ Purpose(q) # "act" => Call(q).seen = None
BY DEF Call

LEMMA NothingAsked ==
    ASSUME NEW q, Purpose(q) = "none"
    PROVE  Call(q) = Atomic!NoCall
BY DEF Call, Atomic!NoCall

LEMMA IdleAsksNothing == Purpose(Idle) = "none"
BY DEF Purpose, Idle

\* Two states of a request that make the same call.
LEMMA SameCall ==
    ASSUME NEW q, NEW p, Purpose(p) = Purpose(q),
           p.user = q.user, p.password = q.password, p.held = q.held
    PROVE  Call(p) = Call(q)
BY DEF Call

\* Only the call of the request that goes on is another.
LEMMA CallsGo ==
    ASSUME RequestsOK, NEW r \in Request, NEW q, Goes(r, q)
    PROVE  \A t \in Request : Call(requests'[t]) = IF t = r THEN Call(q) ELSE Call(requests[t])
BY DEF Goes, RequestsOK

\* A request that goes on with the same call, or gives it up, does nothing to accounts.
LEMMA GoesOn ==
    ASSUME RequestsOK, NEW r \in Request, NEW q, Goes(r, q),
           Call(q) = Call(requests[r]) \/ Purpose(q) = "none",
           UNCHANGED <<users, memberships, sessions>>
    PROVE  [Atomic!Next]_(Atomic!accountVars)
<1>1. \A t \in Request : Call(requests'[t]) = IF t = r THEN Call(q) ELSE Call(requests[t])
    BY CallsGo
<1>2. CASE Call(q) = Call(requests[r])
    BY <1>1, <1>2 DEF Atomic!accountVars
<1>3. CASE Call(q) # Call(requests[r])
    <2>1. Purpose(q) = "none" /\ Purpose(requests[r]) # "none"
        BY <1>3, NothingAsked
    <2>2. PICK S \in SUBSET Request : S = {r}
        OBVIOUS
    <2>3. \A t \in Request : Call(requests'[t]) = IF t \in S THEN Atomic!NoCall ELSE Call(requests[t])
        BY <1>1, <2>1, <2>2, NothingAsked
    <2>4. Atomic!Drop(S)
        BY <2>3 DEF Atomic!Drop
    <2>5. \A t \in S : Call(requests[t]).op # "none"
        BY <2>1, <2>2, CallFields
    <2>6. S \in SUBSET {t \in Request : [x \in Request |-> Call(requests[x])][t].op # "none"}
        BY <2>5
    <2>7. QED BY <2>4, <2>6 DEF Atomic!Next
<1>4. QED BY <1>2, <1>3

LEMMA FinishGoesOn ==
    ASSUME RequestsOK, NEW r \in Request, Finish(r), UNCHANGED <<users, memberships, sessions>>
    PROVE  [Atomic!Next]_(Atomic!accountVars)
BY GoesOn, IdleAsksNothing DEF Finish

\* A request that makes a new call.
LEMMA CallComes ==
    ASSUME RequestsOK, NEW r \in Request, NEW q, Goes(r, q),
           UNCHANGED <<users, memberships, sessions>>,
           \/ /\ Purpose(requests[r]) = "none"
              /\ Call(q) \in Atomic!Logins \cup Atomic!Resets \cup Atomic!Actings
           \/ /\ Purpose(requests[r]) = "act"
              /\ Call(q) \in Atomic!Changes(Call(requests[r]).user)
    PROVE  Atomic!Next
<1>1. \A t \in Request : Call(requests'[t]) = IF t = r THEN Call(q) ELSE Call(requests[t])
    BY CallsGo
<1>2. Call(requests[r]).op = Purpose(requests[r])
    BY CallFields
<1>3. [t \in Request |-> Call(requests'[t])]
        = [[t \in Request |-> Call(requests[t])] EXCEPT ![r] = Call(requests'[r])]
    BY <1>1
<1>4. Atomic!Come(r)
    BY <1>1, <1>2, <1>3 DEF Atomic!Come
<1>5. QED BY <1>4 DEF Atomic!Next

\* What a request asks for where it stands.
LEMMA Asking ==
    ASSUME RequestsOK, NEW r \in Request
    PROVE  /\ requests[r].pc \in {"idle", "confirm", "key"} => Purpose(requests[r]) = "none"
           /\ requests[r].pc = "create" => Purpose(requests[r]) = "login"
           /\ requests[r].pc = "change" =>
                  Purpose(requests[r]) = IF requests[r].cred = None THEN "reset" ELSE "change"
           /\ requests[r].pc \in {"admitted", "check", "delete"} /\ requests[r].cred \in Session
                  => Purpose(requests[r]) = "act"
<1>1. Good(requests[r], sessions, keys, memberships)
    BY DEF RequestsOK
<1>2. QED BY <1>1, AccessAssumption DEF Good, Presented, Arrived, Admitted, Purpose

-----------------------------------------------------------------------------
(* Requests that come.                                                     *)

LEMMA LoginComes ==
    ASSUME RequestsOK, NEW r \in Request, NEW u \in User, NEW w \in Password, Login(r, u, w)
    PROVE  Atomic!Next
<1> DEFINE q == [Idle EXCEPT !.pc = "credential", !.user = u, !.password = w]
<1>1. q.pc = "credential" /\ q.cred = None /\ q.user = u /\ q.password = w
    BY DEF Idle
<1>2. Goes(r, q) /\ UNCHANGED <<users, memberships, sessions>> /\ requests[r].pc = "idle"
    BY DEF Login, stored
<1> HIDE DEF q
<1>3. Purpose(q) = "login"
    BY <1>1, AccessAssumption DEF Purpose
<1>4. Call(q) \in Atomic!Logins
    BY <1>1, <1>3, CallFields DEF Atomic!Logins
<1>5. QED BY <1>2, <1>4, Asking, CallComes

LEMMA ResetComes ==
    ASSUME RequestsOK, NEW r \in Request, NEW u \in User, Reset(r, u)
    PROVE  Atomic!Next
<1> DEFINE q == [Idle EXCEPT !.pc = "change", !.user = u]
<1>1. q.pc = "change" /\ q.cred = None /\ q.user = u
    BY DEF Idle
<1>2. Goes(r, q) /\ UNCHANGED <<users, memberships, sessions>> /\ requests[r].pc = "idle"
    BY DEF Reset, stored
<1> HIDE DEF q
<1>3. Purpose(q) = "reset"
    BY <1>1, AccessAssumption DEF Purpose
<1>4. Call(q) \in Atomic!Resets
    BY <1>1, <1>3, CallFields DEF Atomic!Resets
<1>5. QED BY <1>2, <1>4, Asking, CallComes

LEMMA ChangeOwnComes ==
    ASSUME RequestsOK, NEW r \in Request, NEW w \in Password, ChangeOwn(r, w)
    PROVE  Atomic!Next
<1> DEFINE q == [requests[r] EXCEPT !.pc = "credential", !.password = w]
<1>1. /\ q.pc = "credential" /\ q.cred = requests[r].cred /\ q.user = requests[r].user
      /\ q.alive = requests[r].alive /\ q.password = w
    BY DEF RequestsOK, RequestState
<1>2. /\ Goes(r, q) /\ UNCHANGED <<users, memberships, sessions>>
      /\ requests[r].pc = "admitted" /\ requests[r].cred \in Session
    BY DEF ChangeOwn, stored
<1> HIDE DEF q
<1>3. Purpose(requests[r]) = "act"
    BY <1>2, Asking
<1>4. Purpose(q) = "change"
    BY <1>1, <1>3 DEF Purpose
<1>5. Call(q) \in Atomic!Changes(Call(requests[r]).user)
    BY <1>1, <1>3, <1>4, CallFields DEF Atomic!Changes
<1>6. QED BY <1>2, <1>3, <1>5, CallComes

\* A session that had ended when the request came makes no call.
LEMMA ArriveComes ==
    ASSUME StoredOK, RequestsOK, NEW r \in Request, NEW s \in Session, Arrive(r, s)
    PROVE  [Atomic!Next]_(Atomic!accountVars)
<1> DEFINE u == sessions[s].user
           held == [p \in Project |-> {memberships[u][p]}]
           q == [Idle EXCEPT !.pc = "session", !.cred = s, !.user = u,
                             !.alive = sessions[s].state = "live", !.held = held]
<1>1. /\ q.pc = "session" /\ q.cred = s /\ q.user = u
      /\ q.alive = (sessions[s].state = "live") /\ q.held = held
    BY DEF Idle
<1>2. Goes(r, q) /\ UNCHANGED <<users, memberships, sessions>> /\ requests[r].pc = "idle"
    BY DEF Arrive, stored
<1> HIDE DEF q
<1>3. Purpose(requests[r]) = "none"
    BY <1>2, Asking
<1>4. CASE sessions[s].state = "live"
    <2>1. Purpose(q) = "act"
        BY <1>1, <1>4, AccessAssumption DEF Purpose
    <2>2. Call(q) = [op |-> "act", user |-> u, presented |-> None, seen |-> held]
        BY <1>1, <2>1, CallFields
    <2>3. Call(q) \in Atomic!Actings
        BY <1>4, <2>2 DEF Atomic!Actings, Atomic!Acting
    <2>4. QED BY <1>2, <1>3, <2>3, CallComes
<1>5. CASE sessions[s].state # "live"
    <2>1. Purpose(q) = "none"
        BY <1>1, <1>5, AccessAssumption DEF Purpose
    <2>2. QED BY <1>2, <2>1, GoesOn
<1>6. QED BY <1>4, <1>5

-----------------------------------------------------------------------------
(* Requests that read, verify and check, and have no effect on accounts.   *)

LEMMA ReadCredentialGoesOn ==
    ASSUME RequestsOK, NEW r \in Request, ReadCredential(r)
    PROVE  [Atomic!Next]_(Atomic!accountVars)
<1> DEFINE q == [requests[r] EXCEPT !.pc = "verify", !.hash = Hash(requests[r].user)]
<1>1. UNCHANGED <<users, memberships, sessions>> /\ requests[r].pc = "credential"
    BY DEF ReadCredential, stored
<1>2. CASE Finish(r)
    BY <1>1, <1>2, FinishGoesOn
<1>3. CASE Goes(r, q)
    <2>1. /\ q.pc = "verify" /\ q.cred = requests[r].cred /\ q.user = requests[r].user
          /\ q.alive = requests[r].alive /\ q.password = requests[r].password
          /\ q.held = requests[r].held
        BY DEF RequestsOK, RequestState
    <2> HIDE DEF q
    <2>2. Purpose(q) = Purpose(requests[r])
        BY <1>1, <2>1 DEF Purpose
    <2>3. QED BY <1>1, <1>3, <2>1, <2>2, SameCall, GoesOn
<1>4. QED BY <1>2, <1>3 DEF ReadCredential

LEMMA VerifyGoesOn ==
    ASSUME RequestsOK, NEW r \in Request, Verify(r)
    PROVE  [Atomic!Next]_(Atomic!accountVars)
<1> DEFINE pc == IF requests[r].cred = None THEN "create" ELSE "change"
           q == [requests[r] EXCEPT !.pc = pc]
<1>1. UNCHANGED <<users, memberships, sessions>> /\ requests[r].pc = "verify"
    BY DEF Verify, stored
<1>2. CASE Finish(r)
    BY <1>1, <1>2, FinishGoesOn
<1>3. CASE Goes(r, q)
    <2>1. /\ q.pc = pc /\ q.cred = requests[r].cred /\ q.user = requests[r].user
          /\ q.alive = requests[r].alive /\ q.password = requests[r].password
          /\ q.held = requests[r].held
        BY DEF RequestsOK, RequestState
    <2> HIDE DEF q
    <2>2. Purpose(q) = Purpose(requests[r])
        BY <1>1, <2>1 DEF Purpose
    <2>3. QED BY <1>1, <1>3, <2>1, <2>2, SameCall, GoesOn
<1>4. QED BY <1>2, <1>3 DEF Verify

LEMMA ReadSessionGoesOn ==
    ASSUME RequestsOK, NEW r \in Request, ReadSession(r)
    PROVE  [Atomic!Next]_(Atomic!accountVars)
<1> DEFINE q == [requests[r] EXCEPT !.pc = "roles"]
<1>1. UNCHANGED <<users, memberships, sessions>> /\ requests[r].pc = "session"
    BY DEF ReadSession, stored
<1>2. CASE Finish(r)
    BY <1>1, <1>2, FinishGoesOn
<1>3. CASE Goes(r, q)
    <2>1. /\ q.pc = "roles" /\ q.cred = requests[r].cred /\ q.user = requests[r].user
          /\ q.alive = requests[r].alive /\ q.password = requests[r].password
          /\ q.held = requests[r].held /\ requests[r].cred \in Session
        BY <1>1 DEF RequestsOK, RequestState, Good, Presented
    <2> HIDE DEF q
    <2>2. Purpose(q) = Purpose(requests[r])
        BY <1>1, <2>1, AccessAssumption DEF Purpose
    <2>3. QED BY <1>1, <1>3, <2>1, <2>2, SameCall, GoesOn
<1>4. QED BY <1>2, <1>3 DEF ReadSession

LEMMA ReadRolesGoesOn ==
    ASSUME RequestsOK, NEW r \in Request, ReadRoles(r)
    PROVE  [Atomic!Next]_(Atomic!accountVars)
<1> DEFINE q == [requests[r] EXCEPT !.pc = "admitted", !.roles = memberships[requests[r].user]]
<1>1. /\ UNCHANGED <<users, memberships, sessions>> /\ requests[r].pc = "roles"
      /\ Goes(r, q)
    BY DEF ReadRoles, stored
<1>2. /\ q.pc = "admitted" /\ q.cred = requests[r].cred /\ q.user = requests[r].user
      /\ q.alive = requests[r].alive /\ q.password = requests[r].password
      /\ q.held = requests[r].held /\ requests[r].cred \in Session
    BY <1>1 DEF RequestsOK, RequestState, Good, Presented
<1> HIDE DEF q
<1>3. Purpose(q) = Purpose(requests[r])
    BY <1>1, <1>2, AccessAssumption DEF Purpose
<1>4. QED BY <1>1, <1>2, <1>3, SameCall, GoesOn

\* Keys ask nothing of accounts.
LEMMA KeyGoesOn ==
    ASSUME RequestsOK, NEW r \in Request, ReadKey(r) \/ \E k \in Key : ArriveKey(r, k)
    PROVE  [Atomic!Next]_(Atomic!accountVars)
<1>1. UNCHANGED <<users, memberships, sessions>>
    BY DEF ReadKey, ArriveKey, stored
<1>2. CASE Finish(r)
    BY <1>1, <1>2, FinishGoesOn
<1>3. ASSUME NEW k \in Key, ArriveKey(r, k) PROVE [Atomic!Next]_(Atomic!accountVars)
    <2> DEFINE q == [Idle EXCEPT !.pc = "key", !.cred = k, !.alive = keys[k] = "live"]
    <2>1. Goes(r, q) /\ q.cred = k
        BY <1>3 DEF ArriveKey, Idle
    <2> HIDE DEF q
    <2>2. Purpose(q) = "none"
        BY <2>1 DEF Purpose
    <2>3. QED BY <1>1, <2>1, <2>2, GoesOn
<1>4. CASE ReadKey(r) /\ Goes(r, [requests[r] EXCEPT !.pc = "admitted"])
    <2> DEFINE q == [requests[r] EXCEPT !.pc = "admitted"]
    <2>1. Goes(r, q) /\ q.cred \in Key
        BY <1>4 DEF ReadKey, RequestsOK, RequestState, Good, Presented
    <2> HIDE DEF q
    <2>2. Purpose(q) = "none"
        BY <2>1 DEF Purpose
    <2>3. QED BY <1>1, <2>1, <2>2, GoesOn
<1>5. QED BY <1>2, <1>3, <1>4 DEF ReadKey

\* Neither does a bulk deletion, which goes on with the request as it was admitted.
LEMMA DeletionGoesOn ==
    ASSUME RequestsOK, NEW r \in Request, NEW q, Goes(r, q),
           UNCHANGED <<users, memberships, sessions>>,
           requests[r].pc \in {"admitted", "check", "delete"}, q.pc \in {"check", "delete"},
           q.cred = requests[r].cred, q.user = requests[r].user, q.alive = requests[r].alive,
           q.password = requests[r].password, q.held = requests[r].held
    PROVE  [Atomic!Next]_(Atomic!accountVars)
<1>1. requests[r].cred # None
    BY AccessAssumption DEF RequestsOK, Good, Presented
<1>2. Purpose(q) = Purpose(requests[r])
    BY <1>1 DEF Purpose
<1>3. QED BY <1>2, SameCall, GoesOn

LEMMA SelectGoesOn ==
    ASSUME RequestsOK, NEW r \in Request, NEW ids \in SUBSET Message, NEW first \in ids,
           Select(r, ids, first)
    PROVE  [Atomic!Next]_(Atomic!accountVars)
<1> DEFINE scope == IF requests[r].cred \in Key THEN ScopeOf[requests[r].cred] ELSE HomeOf[first]
           q == [requests[r] EXCEPT !.pc = "check", !.scope = scope, !.ids = ids, !.todo = ids]
<1>1. /\ Goes(r, q) /\ UNCHANGED <<users, memberships, sessions>> /\ requests[r].pc = "admitted"
    BY DEF Select, stored
<1>2. /\ q.pc = "check" /\ q.cred = requests[r].cred /\ q.user = requests[r].user
      /\ q.alive = requests[r].alive /\ q.password = requests[r].password
      /\ q.held = requests[r].held
    BY DEF RequestsOK, RequestState
<1> HIDE DEF q
<1>3. QED BY <1>1, <1>2, DeletionGoesOn

LEMMA CheckMessageGoesOn ==
    ASSUME RequestsOK, NEW r \in Request, NEW m \in Message, CheckMessage(r, m)
    PROVE  [Atomic!Next]_(Atomic!accountVars)
<1>1. UNCHANGED <<users, memberships, sessions>> /\ requests[r].pc = "check"
    BY DEF CheckMessage, stored
<1>2. CASE Finish(r)
    BY <1>1, <1>2, FinishGoesOn
<1>3. CASE Goes(r, [requests[r] EXCEPT !.pc = "delete", !.todo = requests[r].ids, !.ids = {}])
    <2> DEFINE q == [requests[r] EXCEPT !.pc = "delete", !.todo = requests[r].ids, !.ids = {}]
    <2>1. /\ q.pc = "delete" /\ q.cred = requests[r].cred /\ q.user = requests[r].user
          /\ q.alive = requests[r].alive /\ q.password = requests[r].password
          /\ q.held = requests[r].held
        BY DEF RequestsOK, RequestState
    <2> HIDE DEF q
    <2>2. QED BY <1>1, <1>3, <2>1, DeletionGoesOn DEF q
<1>4. CASE Goes(r, [requests[r] EXCEPT !.todo = @ \ {m}])
    <2> DEFINE q == [requests[r] EXCEPT !.todo = @ \ {m}]
    <2>1. /\ q.pc = "check" /\ q.cred = requests[r].cred /\ q.user = requests[r].user
          /\ q.alive = requests[r].alive /\ q.password = requests[r].password
          /\ q.held = requests[r].held
        BY <1>1 DEF RequestsOK, RequestState
    <2> HIDE DEF q
    <2>2. QED BY <1>1, <1>4, <2>1, DeletionGoesOn DEF q
<1>5. QED BY <1>2, <1>3, <1>4 DEF CheckMessage

LEMMA DeleteMessageGoesOn ==
    ASSUME RequestsOK, NEW r \in Request, NEW m \in Message, DeleteMessage(r, m)
    PROVE  [Atomic!Next]_(Atomic!accountVars)
<1>1. UNCHANGED <<users, memberships, sessions>> /\ requests[r].pc = "delete"
    BY DEF DeleteMessage
<1>2. CASE Finish(r)
    BY <1>1, <1>2, FinishGoesOn
<1>3. CASE Goes(r, [requests[r] EXCEPT !.todo = @ \ {m}])
    <2> DEFINE q == [requests[r] EXCEPT !.todo = @ \ {m}]
    <2>1. /\ q.pc = "delete" /\ q.cred = requests[r].cred /\ q.user = requests[r].user
          /\ q.alive = requests[r].alive /\ q.password = requests[r].password
          /\ q.held = requests[r].held
        BY <1>1 DEF RequestsOK, RequestState
    <2> HIDE DEF q
    <2>2. QED BY <1>1, <1>3, <2>1, DeletionGoesOn DEF q
<1>4. QED BY <1>2, <1>3 DEF DeleteMessage

-----------------------------------------------------------------------------
(* Requests that take effect, and what operators do.                       *)

LEMMA SessionsEnd ==
    ASSUME StoredOK, NEW u \in User, sessions' = revokeSessions(u)
    PROVE  Atomic!EndSessions(u)
<1>1. \A s \in Session :
          /\ sessions'[s].user = sessions[s].user
          /\ sessions'[s].state = IF sessions[s].user = u THEN "ended" ELSE sessions[s].state
    BY DEF revokeSessions, Ended, NoSession
<1>2. QED BY <1>1 DEF Atomic!EndSessions, Atomic!Ended

\* The account is looked at again in the statement that creates the session.
LEMMA CreateUserSessionEnters ==
    ASSUME StoredOK, RequestsOK, NEW r \in Request, NEW s \in Session, CreateUserSession(r, s)
    PROVE  [Atomic!Next]_(Atomic!accountVars)
<1> DEFINE u == requests[r].user
           row == [user |-> u, state |-> "live", born |-> epoch[u], password |-> requests[r].password]
           q == [Idle EXCEPT !.pc = "confirm"]
<1>1. CASE Finish(r) /\ UNCHANGED sessions
    BY <1>1, FinishGoesOn DEF CreateUserSession
<1>2. CASE /\ CanCreate(u, requests[r].hash) /\ sessions[s].state = "none"
           /\ sessions' = [sessions EXCEPT ![s] = row]
           /\ Goes(r, q)
    <2>1. /\ u \in User /\ requests[r].hash \in Hashes
          /\ requests[r].password = requests[r].hash.password
          /\ Purpose(requests[r]) = "login"
        BY Asking DEF CreateUserSession, RequestsOK, Good, Presented, Verified
    <2>2. requests[r].password = users[u].password /\ ~users[u].disabled
        BY <1>2, <2>1 DEF CanCreate, Hash
    <2>3. Purpose(q) = "none"
        BY DEF Purpose, Idle
    <2>4. \A t \in Request :
              Call(requests'[t]) = IF t = r THEN Atomic!NoCall ELSE Call(requests[t])
        <3> HIDE DEF q
        <3>1. QED BY <1>2, <2>3, CallsGo, NothingAsked
    <2>5. \A t \in Session : /\ sessions'[t].user = IF t = s THEN u ELSE sessions[t].user
                             /\ sessions'[t].state = IF t = s THEN "live" ELSE sessions[t].state
        BY <1>2 DEF StoredOK
    <2>6. /\ Call(requests[r]).op = "login" /\ Call(requests[r]).user = u
          /\ Call(requests[r]).presented = requests[r].password
        BY <2>1, CallFields
    <2>7. UNCHANGED <<users, memberships>>
        BY DEF CreateUserSession
    <2> HIDE DEF u, row, q
    <2>8. Atomic!Enter(r, s)
        BY <1>2, <2>1, <2>2, <2>4, <2>5, <2>6, <2>7 DEF Atomic!Enter
    <2>9. Atomic!Effect(r)
        BY <2>6, <2>8 DEF Atomic!Effect
    <2>10. QED BY <2>9 DEF Atomic!Next
<1>3. QED BY <1>1, <1>2 DEF CreateUserSession

\* So it is in the statement that replaces a password.
LEMMA ChangePasswordReplaces ==
    ASSUME StoredOK, RequestsOK, NEW r \in Request, NEW w \in Password, ChangePassword(r, w)
    PROVE  [Atomic!Next]_(Atomic!accountVars)
<1>0. PICK u \in User : u = requests[r].user
    BY DEF ChangePassword, RequestsOK, Good, Presented
<1>1. CASE UNCHANGED <<users, sessions>>
    BY <1>1, FinishGoesOn DEF ChangePassword
<1>2. CASE Matches(u, requests[r].hash) /\ SetUserPassword(u, w)
    <2>1. /\ Purpose(requests[r]) \in {"reset", "change"}
          /\ Purpose(requests[r]) = "change" => requests[r].cred # None
        BY Asking DEF ChangePassword, RequestsOK, Good, Presented
    <2>2. Purpose(requests[r]) = "change" => requests[r].password = users[u].password
        <3>1. requests[r].cred # None => /\ requests[r].hash \in Hashes
                                         /\ requests[r].password = requests[r].hash.password
            BY DEF ChangePassword, RequestsOK, Good, Verified
        <3>2. QED BY <1>2, <2>1, <3>1, AccessAssumption DEF Matches, Hash
    <2>3. \A t \in Request :
              Call(requests'[t]) = IF t = r THEN Atomic!NoCall ELSE Call(requests[t])
        BY CallsGo, IdleAsksNothing, NothingAsked DEF ChangePassword, Finish
    <2>4. \A v \in User : /\ users'[v].password = IF v = u THEN w ELSE users[v].password
                          /\ users'[v].disabled = users[v].disabled
        BY <1>2 DEF SetUserPassword, StoredOK, Account
    <2>5. Atomic!EndSessions(u)
        BY <1>2, SessionsEnd DEF SetUserPassword, Changed
    <2>6. /\ Call(requests[r]).op = Purpose(requests[r]) /\ Call(requests[r]).user = u
          /\ Purpose(requests[r]) = "change" => Call(requests[r]).presented = requests[r].password
        BY <1>0, <2>1, CallFields
    <2>7. UNCHANGED memberships
        BY DEF ChangePassword
    <2>8. /\ [t \in Request |-> Call(requests[t])][r].op = "change"
                 => [t \in Request |-> Call(requests[t])][r].presented
                        = [v \in User |-> users[v].password][u]
          /\ [v \in User |-> users[v].password]'
                 = [[v \in User |-> users[v].password] EXCEPT ![u] = w]
          /\ [t \in Request |-> Call(requests[t])]'
                 = [[t \in Request |-> Call(requests[t])] EXCEPT ![r] = Atomic!NoCall]
          /\ UNCHANGED <<[v \in User |-> users[v].disabled], memberships>>
        BY <2>2, <2>3, <2>4, <2>6, <2>7
    <2>9. [t \in Request |-> Call(requests[t])][r].user = u
        BY <2>6
    <2>10. Atomic!Replace(r, w)
        BY <2>5, <2>8, <2>9 DEF Atomic!Replace, Atomic!EndSessions, Atomic!Ended
    <2>11. Atomic!Effect(r)
        BY <2>1, <2>6, <2>10 DEF Atomic!Effect
    <2>12. QED BY <2>11 DEF Atomic!Next
<1>3. QED BY <1>0, <1>1, <1>2 DEF ChangePassword

\* Calls under way see the role that their user gets.
LEMMA HeldSeen ==
    ASSUME RequestsOK, NEW u \in User, NEW p \in Project, NEW role \in Role, NEW t \in Request
    PROVE  Call(Held(u, p, role)[t])
              = IF Call(requests[t]).op = "act" /\ Call(requests[t]).user = u
                THEN [Call(requests[t]) EXCEPT !.seen[p] = @ \cup {role}]
                ELSE Call(requests[t])
<1> DEFINE q == requests[t]
           h == [q EXCEPT !.held[p] = @ \cup {role}]
<1>1. q \in RequestState
    BY DEF RequestsOK
<1>2. CASE q.pc # "idle" /\ q.user = u
    <2>1. Held(u, p, role)[t] = h
        BY <1>2 DEF Held
    <2>2. /\ h.pc = q.pc /\ h.cred = q.cred /\ h.user = q.user /\ h.alive = q.alive
          /\ h.password = q.password /\ h.held = [q.held EXCEPT ![p] = @ \cup {role}]
        BY <1>1 DEF RequestState
    <2> HIDE DEF h
    <2>3. Purpose(h) = Purpose(q)
        BY <2>2 DEF Purpose
    <2>4. QED BY <1>2, <2>1, <2>2, <2>3 DEF Call
<1>3. CASE ~(q.pc # "idle" /\ q.user = u)
    <2>1. Held(u, p, role)[t] = q
        BY <1>3 DEF Held
    <2>2. q.pc = "idle" => Purpose(q) = "none"
        BY Asking
    <2>3. QED BY <1>3, <2>1, <2>2, CallFields
<1>4. QED BY <1>2, <1>3

LEMMA AssignAssigns ==
    ASSUME StoredOK, NEW u \in User, NEW p \in Project, NEW role \in Role, Assign(u, p, role)
    PROVE  Atomic!Assign(u, p, role)
<1>1. Atomic!EndSessions(u)
    BY SessionsEnd DEF Assign, Changed
<1>2. QED BY <1>1 DEF Assign, Atomic!Assign

LEMMA OperatorAssignsAssigns ==
    ASSUME StoredOK, RequestsOK, NEW u \in User, NEW p \in Project, NEW role \in Role,
           OperatorAssigns(u, p, role)
    PROVE  Atomic!Next
<1>1. Atomic!Assign(u, p, role)
    BY AssignAssigns DEF OperatorAssigns
<1>2. \A t \in Request : Call(requests'[t]) = Call(Held(u, p, role)[t])
    BY DEF OperatorAssigns
<1>3. Atomic!OperatorAssigns(u, p, role)
    BY <1>1, <1>2, HeldSeen DEF Atomic!OperatorAssigns, Atomic!Seeing
<1>4. QED BY <1>3 DEF Atomic!Next

\* An administrator goes by a role that the user has had since the request arrived.
LEMMA TeamAssignsAssigns ==
    ASSUME StoredOK, RequestsOK, NEW r \in Request, NEW u \in User, NEW p \in Project,
           NEW role \in Role, TeamAssigns(r, u, p, role)
    PROVE  Atomic!Next
<1>1. Atomic!Assign(u, p, role)
    BY AssignAssigns DEF TeamAssigns
<1>2. /\ requests[r].pc = "admitted" /\ requests[r].cred \in Session
      /\ requests[r].roles[p] = "admin" /\ Follows(requests[r], memberships)
    BY DEF TeamAssigns, RequestsOK, Good
<1>3. Purpose(requests[r]) = "act"
    BY <1>2, Asking
<1>4. "admin" \in requests[r].held[p]
    BY <1>2, AccessAssumption DEF Follows, Admitted
<1>5. Call(requests[r]).op = "act" /\ "admin" \in Call(requests[r]).seen[p]
    BY <1>3, <1>4, CallFields
<1>6. \A t \in Request :
          Call(requests'[t]) = IF t = r THEN Atomic!NoCall ELSE Call(Held(u, p, role)[t])
    <2>1. \A t \in Request : requests'[t] = IF t = r THEN Idle ELSE Held(u, p, role)[t]
        BY DEF TeamAssigns, Held
    <2>2. QED BY <2>1, IdleAsksNothing, NothingAsked
<1>7. Atomic!AdminAssigns(r, u, p, role)
    BY <1>1, <1>5, <1>6, HeldSeen DEF Atomic!AdminAssigns, Atomic!Seeing
<1>8. Atomic!Effect(r)
    BY <1>5, <1>7 DEF Atomic!Effect
<1>9. QED BY <1>8 DEF Atomic!Next

LEMMA SignsOut ==
    ASSUME StoredOK, RequestsOK, NEW r \in Request, NEW s \in Session, RevokeUserSession(r, s)
    PROVE  Atomic!Next
<1>1. /\ requests[r].pc = "admitted" /\ requests[r].cred \in Session
      /\ sessions[s].user = requests[r].user /\ UNCHANGED <<users, memberships>>
      /\ Goes(r, Idle)
    BY DEF RevokeUserSession, Finish
<1>2. Purpose(requests[r]) = "act"
    BY <1>1, Asking
<1>3. Call(requests[r]).op = "act" /\ Call(requests[r]).user = requests[r].user
    BY <1>2, CallFields
<1>4. \A t \in Request :
          Call(requests'[t]) = IF t = r THEN Atomic!NoCall ELSE Call(requests[t])
    BY <1>1, CallsGo, IdleAsksNothing, NothingAsked
<1>5. \A t \in Session : /\ sessions'[t].user = sessions[t].user
                         /\ sessions'[t].state = IF t = s THEN "ended" ELSE sessions[t].state
    BY DEF RevokeUserSession, Ended, NoSession, StoredOK
<1>6. Atomic!SignOut(r, s)
    BY <1>1, <1>3, <1>4, <1>5 DEF Atomic!SignOut, Atomic!Ended
<1>7. Atomic!Effect(r)
    BY <1>3, <1>6 DEF Atomic!Effect
<1>8. QED BY <1>7 DEF Atomic!Next

\* What an operator does, the process and time.
LEMMA OperatorRefines ==
    ASSUME StoredOK, RequestsOK, Operator \/ Restart \/ \E s \in Session : Expire(s)
    PROVE  [Atomic!Next]_(Atomic!accountVars)
<1>1. ASSUME NEW u \in User, NEW disabled \in BOOLEAN, SetUserDisabled(u, disabled)
      PROVE  Atomic!Next
    <2>1. \A v \in User : /\ users'[v].password = users[v].password
                          /\ users'[v].disabled = IF v = u THEN disabled ELSE users[v].disabled
        BY <1>1 DEF SetUserDisabled, StoredOK, Account
    <2>2. Atomic!EndSessions(u) /\ UNCHANGED <<memberships, requests>>
        BY <1>1, SessionsEnd DEF SetUserDisabled, Changed
    <2>3. Atomic!Disable(u, disabled)
        BY <2>1, <2>2 DEF Atomic!Disable
    <2>4. QED BY <2>3 DEF Atomic!Next
<1>2. ASSUME NEW u \in User, NEW p \in Project, NEW role \in Assigned, OperatorAssigns(u, p, role)
      PROVE  Atomic!Next
    BY <1>2, OperatorAssignsAssigns, AccessAssumption
<1>3. ASSUME NEW k \in Key, CreateAPIKey(k) \/ EndAPIKey(k)
      PROVE  UNCHANGED Atomic!accountVars
    BY <1>3 DEF CreateAPIKey, EndAPIKey, Atomic!accountVars
<1>4. ASSUME Restart PROVE Atomic!Next \/ UNCHANGED Atomic!accountVars
    <2>1. PICK S \in SUBSET Request : S = {t \in Request : Purpose(requests[t]) # "none"}
        OBVIOUS
    <2>2. \A t \in Request :
              /\ Call(requests'[t]) = IF t \in S THEN Atomic!NoCall ELSE Call(requests[t])
              /\ t \in S => Call(requests[t]).op # "none"
        BY <1>4, <2>1, IdleAsksNothing, NothingAsked, CallFields DEF Restart
    <2>3. Atomic!Drop(S)
        BY <1>4, <2>2 DEF Atomic!Drop, Restart, stored
    <2>4. S \in SUBSET {t \in Request : [x \in Request |-> Call(requests[x])][t].op # "none"}
        BY <2>2
    <2>5. QED BY <2>3, <2>4 DEF Atomic!Next
<1>5. ASSUME NEW s \in Session, Expire(s) PROVE Atomic!Next
    <2>1. \A t \in Session : /\ sessions'[t].user = sessions[t].user
                             /\ sessions'[t].state = IF t = s THEN "ended" ELSE sessions[t].state
        BY <1>5 DEF Expire, Ended, NoSession, StoredOK
    <2>2. UNCHANGED <<users, memberships, requests>>
        BY <1>5 DEF Expire
    <2>3. Atomic!Expire(s)
        BY <2>1, <2>2 DEF Atomic!Expire, Atomic!Ended
    <2>4. QED BY <2>3 DEF Atomic!Next
<1>6. QED BY <1>1, <1>2, <1>3, <1>4, <1>5 DEF Operator

LEMMA RequestRefines ==
    ASSUME StoredOK, RequestsOK, NEW r \in Request, SignIn(r) \/ Serve(r) \/ Abort(r)
    PROVE  [Atomic!Next]_(Atomic!accountVars)
<1>1. CASE SignIn(r)
    <2>1. ASSUME Confirm(r) PROVE [Atomic!Next]_(Atomic!accountVars)
        BY <2>1, FinishGoesOn DEF Confirm, stored
    <2>2. QED
        BY <1>1, <2>1, ResetComes, LoginComes, ChangeOwnComes, ReadCredentialGoesOn, VerifyGoesOn,
           CreateUserSessionEnters, ChangePasswordReplaces DEF SignIn
<1>2. CASE Serve(r)
    <2>1. ASSUME NEW u \in User, NEW p \in Project, NEW role \in Assigned, TeamAssigns(r, u, p, role)
          PROVE  Atomic!Next
        BY <2>1, TeamAssignsAssigns, AccessAssumption
    <2>2. QED
        BY <1>2, <2>1, ArriveComes, SignsOut, KeyGoesOn, ReadSessionGoesOn, ReadRolesGoesOn,
           SelectGoesOn, CheckMessageGoesOn, DeleteMessageGoesOn DEF Serve
<1>3. CASE Abort(r)
    BY <1>3, FinishGoesOn DEF Abort, stored
<1>4. QED BY <1>1, <1>2, <1>3

LEMMA InitAccounts == Init => Atomic!Init
<1> SUFFICES ASSUME Init PROVE Atomic!Init
    OBVIOUS
<1>1. PICK first \in Password :
          users = [u \in User |-> [password |-> first, salt |-> 0, disabled |-> FALSE]]
    BY DEF Init
<1>2. \A r \in Request : Call(requests[r]) = Atomic!NoCall
    BY IdleAsksNothing, NothingAsked DEF Init
<1>3. QED BY <1>1, <1>2 DEF Init, NoSession, Atomic!Init

\* Requests that read, verify and write in separate statements implement Accounts, in which
\* each takes effect at one instant, going by the account as it is then, or not at all.
THEOREM AccountsRefinement == Spec => RefinesAccounts
<1>1. ASSUME AccessInv, [Next]_vars PROVE [Atomic!Next]_(Atomic!accountVars)
    <2>1. StoredOK /\ RequestsOK
        BY <1>1 DEF AccessInv
    <2>2. CASE UNCHANGED vars
        BY <2>2 DEF vars, Atomic!accountVars
    <2>3. QED BY <1>1, <2>1, <2>2, OperatorRefines, RequestRefines DEF Next
<1>2. Init => Atomic!Init
    BY InitAccounts
<1>3. QED BY Invariance, <1>1, <1>2, PTL DEF Spec, RefinesAccounts, Atomic!Spec

=============================================================================
