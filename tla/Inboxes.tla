------------------------------- MODULE Inboxes -------------------------------
(***************************************************************************)
(* The message table and those who fill, empty, change and page through    *)
(* it: internal/storage/sqlite.go, workspace.go and audit.go under the     *)
(* handlers of internal/httpapi/server.go and workspace.go, and the loop   *)
(* of `textdock export' (internal/cli/cli.go).                             *)
(*                                                                         *)
(* A message gets its time and id when its request is read and its row     *)
(* later, so rows do not arrive in the order of the list.  Bulk deletions  *)
(* look each message up before they delete it, in transactions of their    *)
(* own; purges and retention delete in between, and so does another bulk   *)
(* deletion.  A client reads the list page by page, in requests of its     *)
(* own, while all this goes on.  Every change of the table writes its      *)
(* audit event in the same transaction.                                    *)
(***************************************************************************)
EXTENDS Integers, FiniteSets

CONSTANTS
    Message,     \* message ids, numbered in the order SQLite compares them in
    Inbox,       \* inboxes
    Deleter,     \* deletion requests being served at a time
    None,        \* no row, no cursor
    MaxLimit,    \* rows a page may have (200)
    MaxList,     \* rows a query may have (201)
    DefaultList, \* rows of a query that asks for more (100)
    MaxIds,      \* messages of a deletion request (200)
    Retention,   \* age at which Prune removes messages, in ticks
    Skew,        \* how old `now' may be when Prune's transaction runs, in ticks
    MaxTime,     \* bound: the clock stops here
    MaxChanges,  \* bound: favourites set or unset
    MaxWalks     \* bound: exports

ASSUME InboxesAssumption ==
    /\ Message \subseteq Nat /\ IsFiniteSet(Message) /\ None \notin Message
    /\ {MaxLimit, MaxList, DefaultList, MaxIds} \subseteq Nat \ {0}
    /\ MaxList = MaxLimit + 1
    /\ {Retention, Skew, MaxTime, MaxChanges, MaxWalks} \subseteq Nat

VARIABLES
    clock,      \* time.Now() in ticks
    messages,   \* "free", "draft" (built, not stored), "kept" or "gone"
    created_at, \* of each message
    inbox,      \* of each message
    favorite,   \* rows with the favourite flag
    audit,      \* by inbox: audited creations less audited deletions, purges and prunings
    deleters,   \* each deletion request
    walk,       \* the exporting client
    copies,     \* history: how often the walk was handed each message
    owed,       \* history: in the list of the walk ever since it began
    changes, walks      \* bounded counters

table == <<messages, created_at, inbox, favorite, audit>>
export == <<walk, copies, owed, walks>>
vars == <<clock, table, deleters, export, changes>>

Deletion == [pc: {"idle", "get", "delete"}, ids: SUBSET Message, id: Message \cup {None}]
Idle == [pc |-> "idle", ids |-> {}, id |-> None]
Walk == [pc: {"idle", "run", "done"}, inbox: Inbox, favorite: BOOLEAN, limit: 1..MaxLimit,
         cursor: Message \cup {None}]

TypeOK ==
    /\ clock \in Nat
    /\ messages \in [Message -> {"free", "draft", "kept", "gone"}]
    /\ created_at \in [Message -> Nat]
    /\ inbox \in [Message -> Inbox]
    /\ favorite \subseteq Message
    /\ audit \in [Inbox -> Int]
    /\ deleters \in [Deleter -> Deletion]
    /\ walk \in Walk
    /\ copies \in [Message -> Nat]
    /\ owed \subseteq Message
    /\ changes \in Nat /\ walks \in Nat

\* Which inbox a message will be for is chosen here.
Init ==
    /\ clock = 0
    /\ messages = [m \in Message |-> "free"]
    /\ created_at = [m \in Message |-> 0]
    /\ inbox \in [Message -> Inbox]
    /\ favorite = {}
    /\ audit = [i \in Inbox |-> 0]
    /\ deleters = [d \in Deleter |-> Idle]
    /\ \E i \in Inbox : walk = [pc |-> "idle", inbox |-> i, favorite |-> FALSE, limit |-> 1,
                                cursor |-> None]
    /\ copies = [m \in Message |-> 0]
    /\ owed = {}
    /\ changes = 0 /\ walks = 0

-----------------------------------------------------------------------------
(* The table and its audit.                                                *)

Kept == {m \in Message : messages[m] = "kept"}
Rows(i) == {m \in Kept : inbox[m] = i}

\* insertAudit, in the transaction that changes the table.
Audited(i, n) == audit' = [audit EXCEPT ![i] = @ + n]

\* The rows in S are deleted, and are in no list any more.
Deleted(S) ==
    /\ messages' = [m \in Message |-> IF m \in S THEN "gone" ELSE messages[m]]
    /\ favorite' = favorite \ S
    /\ owed' = owed \ S

\* message.New: the time is taken here.
Draft(m) ==
    /\ messages[m] = "free"
    /\ messages' = [messages EXCEPT ![m] = "draft"]
    /\ created_at' = [created_at EXCEPT ![m] = clock]
    /\ UNCHANGED <<clock, inbox, favorite, audit, deleters, export, changes>>

\* Schedule, and insertMessage in it.
Insert(m) ==
    /\ messages[m] = "draft"
    /\ messages' = [messages EXCEPT ![m] = "kept"]
    /\ Audited(inbox[m], 1)
    /\ UNCHANGED <<clock, created_at, inbox, favorite, deleters, export, changes>>

\* The capture is refused, or dies with its process, before the row is stored.
Abandon(m) ==
    /\ messages[m] = "draft"
    /\ messages' = [messages EXCEPT ![m] = "gone"]
    /\ UNCHANGED <<clock, created_at, inbox, favorite, audit, deleters, export, changes>>

\* Whether the walk lists a row: f.Inbox and f.Favorite.
Listed(m, favorites) == inbox[m] = walk.inbox /\ (walk.favorite => m \in favorites)

\* Update: a row may leave a filtered list and enter it again.
Update(m) ==
    /\ m \in Kept /\ changes < MaxChanges
    /\ favorite' = IF m \in favorite THEN favorite \ {m} ELSE favorite \cup {m}
    /\ owed' = {n \in owed : Listed(n, favorite')}
    /\ changes' = changes + 1
    /\ UNCHANGED <<clock, messages, created_at, inbox, audit, deleters, walk, copies, walks>>

\* Purge through auditedExec: one statement, audited with the rows it affected.
Purge(i) ==
    /\ Rows(i) # {}
    /\ Deleted(Rows(i))
    /\ Audited(i, -Cardinality(Rows(i)))
    /\ UNCHANGED <<clock, created_at, inbox, deleters, walk, copies, walks, changes>>

Old(now) == {m \in Kept : created_at[m] < now - Retention}

\* The counts by inbox that the first query of Prune returns.
Counted(i, now) == Cardinality({m \in Old(now) : inbox[m] = i})

\* Prune: counts and deletion in one transaction, with a time taken before it.
Prune ==
    \E now \in clock - Skew..clock :
        /\ Old(now) # {}
        /\ Deleted(Old(now))
        /\ audit' = [i \in Inbox |-> audit[i] - Counted(i, now)]
        /\ UNCHANGED <<clock, created_at, inbox, deleters, walk, copies, walks, changes>>

-----------------------------------------------------------------------------
(* Deletion requests: DELETE with one id, or POST with up to MaxIds.       *)

Answer(d, r) ==
    /\ deleters' = [deleters EXCEPT ![d] = r]
    /\ UNCHANGED <<clock, created_at, inbox, walk, copies, walks, changes>>

Ask(d, S) ==
    /\ deleters[d] = Idle
    /\ S # {} /\ Cardinality(S) <= MaxIds
    /\ \A m \in S : messages[m] \in {"kept", "gone"}
    /\ Answer(d, [pc |-> "get", ids |-> S, id |-> None])
    /\ UNCHANGED <<messages, favorite, audit, owed>>

\* The request with m dealt with: the next id, or the answer.
Without(r, m) == IF r.ids = {m} THEN Idle ELSE [pc |-> "get", ids |-> r.ids \ {m}, id |-> None]

\* Store.Get: an id that is not there is skipped.
Get(d, m) ==
    /\ deleters[d].pc = "get" /\ m \in deleters[d].ids
    /\ Answer(d, IF m \in Kept THEN [deleters[d] EXCEPT !.pc = "delete", !.id = m]
                               ELSE Without(deleters[d], m))
    /\ UNCHANGED <<messages, favorite, audit, owed>>

\* Mutant: Delete trusts the lookup of the handler.
MutantPresent(m) == TRUE

\* The SELECT in the transaction of Delete.
Present(m) == m \in Kept

Delete(d) ==
    LET m == deleters[d].id IN
    /\ deleters[d].pc = "delete"
    /\ Answer(d, Without(deleters[d], m))
    /\ IF Present(m)
       THEN Deleted({m}) /\ Audited(inbox[m], -1)
       ELSE UNCHANGED <<messages, favorite, audit, owed>>

\* An error ends the request; what it has deleted stays deleted.
Fail(d) ==
    /\ deleters[d].pc # "idle"
    /\ Answer(d, Idle)
    /\ UNCHANGED <<messages, favorite, audit, owed>>

-----------------------------------------------------------------------------
(* The list, page by page.                                                 *)

\* ORDER BY created_at DESC, id DESC.
Newer(m, n) == created_at[m] > created_at[n] \/ (created_at[m] = created_at[n] /\ m > n)

\* Mutant: the cursor is compared by time only.
MutantPast(m) == created_at[m] <= created_at[walk.cursor]

\* The rows after the cursor.
Past(m) == Newer(walk.cursor, m)

\* The rows that the query of the next page selects from.
Rest == {m \in Kept : Listed(m, favorite) /\ (walk.cursor # None => Past(m))}

\* P is what LIMIT n leaves of S.
First(P, S, n) ==
    /\ \A m \in P, k \in S \ P : Newer(m, k)
    /\ IF Cardinality(S) <= n THEN P = S ELSE Cardinality(P) = n

\* Mutant: queries are not granted the row beyond the largest page.
MutantClamp(n) == IF n < 1 \/ n > MaxLimit THEN DefaultList ELSE n

\* The limit of List.
Clamp(n) == IF n < 1 \/ n > MaxList THEN DefaultList ELSE n

\* `textdock export' begins, or begins again.
StartWalk(i, f, n) ==
    /\ walks < MaxWalks
    /\ walk' = [pc |-> "run", inbox |-> i, favorite |-> f, limit |-> n, cursor |-> None]
    /\ copies' = [m \in Message |-> 0]
    /\ owed' = {m \in Rows(i) : f => m \in favorite}
    /\ walks' = walks + 1
    /\ UNCHANGED <<clock, table, deleters, changes>>

Handed(P) == copies' = [m \in Message |-> IF m \in P THEN copies[m] + 1 ELSE copies[m]]

\* page: one row more than asked for is read, to see whether there is another page; the
\* cursor is the last row of this one.
NextPage ==
    /\ walk.pc = "run"
    /\ \E items \in SUBSET Rest :
        /\ First(items, Rest, Clamp(walk.limit + 1))
        /\ \/ /\ Cardinality(items) <= walk.limit
              /\ Handed(items)
              /\ walk' = [walk EXCEPT !.pc = "done", !.cursor = None]
           \/ /\ Cardinality(items) > walk.limit
              /\ \E page \in SUBSET items : \E last \in page :
                    /\ First(page, items, walk.limit)
                    /\ \A m \in page \ {last} : Newer(m, last)
                    /\ Handed(page)
                    /\ walk' = [walk EXCEPT !.cursor = last]
    /\ UNCHANGED <<clock, table, deleters, owed, walks, changes>>

Tick ==
    /\ clock < MaxTime
    /\ clock' = clock + 1
    /\ UNCHANGED <<table, deleters, export, changes>>

Next ==
    \/ Tick \/ Prune
    \/ \E m \in Message : Draft(m) \/ Insert(m) \/ Abandon(m) \/ Update(m)
    \/ \E i \in Inbox : Purge(i)
    \/ \E d \in Deleter : Delete(d) \/ Fail(d)
    \/ \E d \in Deleter, S \in SUBSET Message : Ask(d, S)
    \/ \E d \in Deleter, m \in Message : Get(d, m)
    \/ \E i \in Inbox, f \in BOOLEAN, n \in 1..MaxLimit : StartWalk(i, f, n)
    \/ NextPage

Spec == Init /\ [][Next]_vars

-----------------------------------------------------------------------------
(* What must hold.                                                         *)

\* A deletion request holds an id it still has to deal with, and one it has looked up is its
\* own; the favourites are rows of the table.
RequestsOK ==
    /\ favorite \subseteq Kept
    /\ \A d \in Deleter : LET r == deleters[d] IN
        /\ (r.pc = "idle") = (r.ids = {})
        /\ IF r.pc = "delete" THEN r.id \in r.ids ELSE r.id = None

\* What the cursor stands for: whatever was handed out is not after it, and what the walk
\* owes is, or was handed out.
WalkOK ==
    /\ walk.cursor # None => walk.pc = "run" /\ messages[walk.cursor] \in {"kept", "gone"}
    /\ \A m \in Message : copies[m] > 0 =>
        /\ copies[m] = 1
        /\ messages[m] \in {"kept", "gone"}
        /\ walk.pc = "run" => walk.cursor # None /\ ~ Past(m)
    /\ \A m \in owed :
        /\ m \in Kept /\ Listed(m, favorite)
        /\ walk.pc # "idle"
        /\ copies[m] = 1 \/ m \in Rest
        /\ walk.pc = "done" => copies[m] = 1

\* The audit accounts for the table: in every inbox, the messages the audit log says were
\* created, less those it says were deleted, purged or pruned, are the rows that are there,
\* however deletions overlap (insertAudit and its callers in storage).
AuditBalance == \A i \in Inbox : audit[i] = Cardinality(Rows(i))

\* An export that has ended handed out every message that was in its list from beginning to
\* end, whatever arrived, was changed or was deleted between its pages (page, List).
WalkComplete == walk.pc = "done" => \A m \in owed : copies[m] > 0

\* No message is handed out twice by one export, though older ones are deleted, late ones
\* arrive and favourites come and go between its pages (docs/DEVELOPER-WORKFLOW.md:20).
NoDuplicates == \A m \in Message : copies[m] <= 1

\* The inductive invariant: the types, what requests and the walk carry between their steps,
\* and the balance of the audit.
Inv == TypeOK /\ RequestsOK /\ WalkOK /\ AuditBalance
=============================================================================
