---------------------------- MODULE InboxesProofs ----------------------------
(***************************************************************************)
(* Proofs about Inboxes, for every number of messages, inboxes, deletion   *)
(* requests and rows of a page: the audit balances, and an export is       *)
(* handed every message it is owed, none of them twice.                    *)
(***************************************************************************)
EXTENDS Inboxes, FiniteSetTheorems, TLAPS

-----------------------------------------------------------------------------
(* Sets of rows.                                                           *)

LEMMA FiniteRows == \A S \in SUBSET Message : IsFiniteSet(S) /\ Cardinality(S) \in Nat
  BY InboxesAssumption, FS_Subset, FS_CardinalityType

LEMMA RowsFinite ==
    ASSUME NEW i \in Inbox
    PROVE  /\ Rows(i) \subseteq Message /\ IsFiniteSet(Rows(i)) /\ Cardinality(Rows(i)) \in Nat
           /\ Kept \subseteq Message
  BY FiniteRows DEF Rows, Kept

\* The order of the list is strict and total.
LEMMA Order ==
    ASSUME TypeOK
    PROVE  /\ \A m \in Message : ~ Newer(m, m)
           /\ \A m, n \in Message : Newer(m, n) => ~ Newer(n, m)
           /\ \A m, n, k \in Message : Newer(m, n) /\ Newer(n, k) => Newer(m, k)
           /\ \A m, n, k \in Message : Newer(m, n) /\ ~ Newer(k, n) => ~ Newer(k, m)
  <1>1. Message \subseteq Nat /\ created_at \in [Message -> Nat]
    BY InboxesAssumption DEF TypeOK
  <1>2. \A m, n, k \in Message : Newer(m, n) /\ Newer(n, k) => Newer(m, k)
    BY <1>1 DEF Newer
  <1>3. \A m, n \in Message : Newer(m, n) => ~ Newer(n, m)
    BY <1>1 DEF Newer
  <1>4. \A m \in Message : ~ Newer(m, m)
    BY <1>3
  <1>5. \A m, n, k \in Message : Newer(m, n) /\ ~ Newer(k, n) => ~ Newer(k, m)
    BY <1>2
  <1>6. QED
    BY <1>2, <1>3, <1>4, <1>5

LEMMA InitInv == Init => Inv
  <1> SUFFICES ASSUME Init PROVE Inv
    OBVIOUS
  <1>1. TypeOK
    <2>1. Idle \in Deletion
      BY DEF Idle, Deletion
    <2>2. walk \in Walk /\ 1 \in 1..MaxLimit
      BY InboxesAssumption DEF Init, Walk
    <2>3. QED
      BY <2>1, <2>2 DEF Init, TypeOK
  <1>2. RequestsOK
    BY DEF Init, RequestsOK, Idle
  <1>3. WalkOK
    BY DEF Init, WalkOK
  <1>4. AuditBalance
    <2>1. \A i \in Inbox : Rows(i) = {}
      BY DEF Init, Rows, Kept
    <2>2. QED
      BY <2>1, FS_EmptySet DEF Init, AuditBalance
  <1>5. QED
    BY <1>1, <1>2, <1>3, <1>4 DEF Inv

-----------------------------------------------------------------------------
(* Types, and what requests carry.                                         *)

LEMMA WithoutType ==
    ASSUME NEW r \in Deletion, NEW m \in Message, r.ids # {}
    PROVE  /\ Without(r, m) \in Deletion
           /\ (Without(r, m).pc = "idle") = (Without(r, m).ids = {})
           /\ Without(r, m).pc # "delete" /\ Without(r, m).id = None
  <1>1. CASE r.ids = {m}
    BY <1>1 DEF Without, Idle, Deletion
  <1>2. CASE r.ids # {m}
    <2>1. r.ids \ {m} # {} /\ r.ids \ {m} \subseteq Message
      BY <1>2 DEF Deletion
    <2>2. QED
      BY <1>2, <2>1 DEF Without, Deletion
  <1>3. QED
    BY <1>1, <1>2

LEMMA DeletedType ==
    ASSUME TypeOK, NEW S \in SUBSET Message, Deleted(S), RequestsOK
    PROVE  /\ messages' \in [Message -> {"free", "draft", "kept", "gone"}]
           /\ favorite' \subseteq Message /\ owed' \subseteq Message
           /\ Kept' = Kept \ S
           /\ favorite' \subseteq Kept'
  BY DEF TypeOK, Deleted, Kept, RequestsOK

\* A step of one deletion request to r.
LEMMA AnswerKeeps ==
    ASSUME TypeOK, RequestsOK, NEW d \in Deleter, NEW r \in Deletion, Answer(d, r),
           (r.pc = "idle") = (r.ids = {}),
           IF r.pc = "delete" THEN r.id \in r.ids ELSE r.id = None
    PROVE  /\ deleters' \in [Deleter -> Deletion]
           /\ \A e \in Deleter : LET q == deleters'[e] IN
                 /\ (q.pc = "idle") = (q.ids = {})
                 /\ IF q.pc = "delete" THEN q.id \in q.ids ELSE q.id = None
  <1>1. deleters' = [deleters EXCEPT ![d] = r]
    BY DEF Answer
  <1>2. \A e \in Deleter : deleters'[e] = IF e = d THEN r ELSE deleters[e]
    BY <1>1 DEF TypeOK
  <1>3. QED
    BY <1>1, <1>2 DEF TypeOK, RequestsOK

LEMMA RequestStep ==
    ASSUME TypeOK, RequestsOK, NEW d \in Deleter,
           \/ \E S \in SUBSET Message : Ask(d, S)
           \/ \E m \in Message : Get(d, m)
           \/ Delete(d)
           \/ Fail(d)
    PROVE  TypeOK' /\ RequestsOK'
  <1>1. ASSUME NEW S \in SUBSET Message, Ask(d, S)
        PROVE  TypeOK' /\ RequestsOK'
    <2> DEFINE r == [pc |-> "get", ids |-> S, id |-> None]
    <2>1. r \in Deletion /\ S # {} /\ Answer(d, r)
      BY <1>1 DEF Ask, Deletion
    <2>2. QED
      BY <1>1, <2>1, AnswerKeeps DEF Ask, Answer, TypeOK, RequestsOK, Kept
  <1>2. ASSUME NEW m \in Message, Get(d, m)
        PROVE  TypeOK' /\ RequestsOK'
    <2>1. deleters[d] \in Deletion /\ deleters[d].ids # {}
      BY <1>2 DEF Get, TypeOK, RequestsOK
    <2>2. CASE m \in Kept
      <3> DEFINE r == [deleters[d] EXCEPT !.pc = "delete", !.id = m]
      <3>1. r \in Deletion /\ r.pc = "delete" /\ r.id = m /\ r.ids = deleters[d].ids
        BY <2>1 DEF Deletion
      <3>2. m \in r.ids /\ Answer(d, r)
        BY <1>2, <2>2, <3>1 DEF Get
      <3> HIDE DEF r
      <3>3. QED
        BY <1>2, <2>1, <3>1, <3>2, AnswerKeeps DEF Get, Answer, TypeOK, RequestsOK, Kept
    <2>3. CASE m \notin Kept
      <3>1. Answer(d, Without(deleters[d], m))
        BY <1>2, <2>3 DEF Get
      <3>2. QED
        BY <1>2, <2>1, <3>1, WithoutType, AnswerKeeps DEF Get, Answer, TypeOK, RequestsOK, Kept
    <2>4. QED
      BY <2>2, <2>3
  <1>3. CASE Delete(d)
    <2> DEFINE m == deleters[d].id
    <2>1. deleters[d] \in Deletion /\ deleters[d].ids # {} /\ m \in Message
      BY <1>3 DEF Delete, TypeOK, RequestsOK, Deletion
    <2>2. Answer(d, Without(deleters[d], m))
      BY <1>3 DEF Delete
    <2>3. /\ deleters' \in [Deleter -> Deletion]
          /\ \A e \in Deleter : LET q == deleters'[e] IN
                 /\ (q.pc = "idle") = (q.ids = {})
                 /\ IF q.pc = "delete" THEN q.id \in q.ids ELSE q.id = None
      BY <2>1, <2>2, WithoutType, AnswerKeeps
    <2>4. CASE Deleted({m}) /\ Audited(inbox[m], -1)
      <3>1. audit' \in [Inbox -> Int]
        BY <2>1, <2>4 DEF Audited, TypeOK
      <3>2. QED
        BY <2>1, <2>2, <2>3, <2>4, <3>1, DeletedType DEF Answer, TypeOK, RequestsOK
    <2>5. CASE UNCHANGED <<messages, favorite, audit, owed>>
      BY <2>2, <2>3, <2>5 DEF Answer, TypeOK, RequestsOK, Kept
    <2>6. QED
      BY <1>3, <2>4, <2>5 DEF Delete
  <1>4. CASE Fail(d)
    <2>1. Idle \in Deletion /\ Idle.pc = "idle" /\ Idle.ids = {} /\ Idle.id = None
      BY DEF Idle, Deletion
    <2>2. QED
      BY <1>4, <2>1, AnswerKeeps DEF Fail, Answer, TypeOK, RequestsOK, Kept
  <1>5. QED
    BY <1>1, <1>2, <1>3, <1>4

LEMMA HandedType ==
    ASSUME TypeOK, NEW P \in SUBSET Message, Handed(P)
    PROVE  copies' \in [Message -> Nat]
  BY DEF TypeOK, Handed

LEMMA TypeStep == TypeOK /\ RequestsOK /\ [Next]_vars => TypeOK' /\ RequestsOK'
  <1> SUFFICES ASSUME TypeOK, RequestsOK, [Next]_vars PROVE TypeOK' /\ RequestsOK'
    OBVIOUS
  <1>1. CASE Tick
    BY <1>1 DEF Tick, TypeOK, RequestsOK, table, export, Kept
  <1>2. CASE Prune
    <2>1. PICK now \in clock - Skew..clock :
             /\ Deleted(Old(now))
             /\ audit' = [i \in Inbox |-> audit[i] - Counted(i, now)]
             /\ UNCHANGED <<clock, created_at, inbox, deleters, walk, copies, walks, changes>>
      BY <1>2 DEF Prune
    <2>2. Old(now) \subseteq Message
      BY DEF Old, Kept
    <2>3. \A i \in Inbox : Counted(i, now) \in Nat
      BY <2>2, FiniteRows DEF Counted
    <2>4. audit' \in [Inbox -> Int]
      BY <2>1, <2>3 DEF TypeOK
    <2>5. QED
      BY <2>1, <2>2, <2>4, DeletedType DEF TypeOK, RequestsOK
  <1>3. ASSUME NEW m \in Message, Draft(m) \/ Insert(m) \/ Abandon(m) \/ Update(m)
        PROVE  TypeOK' /\ RequestsOK'
    <2>1. CASE Draft(m)
      BY <2>1 DEF Draft, TypeOK, RequestsOK, Kept, export
    <2>2. CASE Insert(m)
      BY <2>2 DEF Insert, Audited, TypeOK, RequestsOK, Kept, export
    <2>3. CASE Abandon(m)
      BY <2>3 DEF Abandon, TypeOK, RequestsOK, Kept, export
    <2>4. CASE Update(m)
      BY <2>4 DEF Update, TypeOK, RequestsOK, Kept
    <2>5. QED
      BY <1>3, <2>1, <2>2, <2>3, <2>4
  <1>4. ASSUME NEW i \in Inbox, Purge(i)
        PROVE  TypeOK' /\ RequestsOK'
    <2>1. audit' \in [Inbox -> Int]
      BY <1>4, RowsFinite DEF Purge, Audited, TypeOK
    <2>2. QED
      BY <1>4, <2>1, RowsFinite, DeletedType DEF Purge, TypeOK, RequestsOK
  <1>5. ASSUME NEW i \in Inbox, NEW f \in BOOLEAN, NEW n \in 1..MaxLimit, StartWalk(i, f, n)
        PROVE  TypeOK' /\ RequestsOK'
    <2>1. walk' \in Walk
      BY <1>5 DEF StartWalk, Walk
    <2>2. QED
      BY <1>5, <2>1, RowsFinite DEF StartWalk, TypeOK, RequestsOK, Kept, table
  <1>6. CASE NextPage
    <2>1. walk' \in Walk /\ copies' \in [Message -> Nat]
      <3>1. PICK items \in SUBSET Rest :
               \/ Handed(items) /\ walk' = [walk EXCEPT !.pc = "done", !.cursor = None]
               \/ \E page \in SUBSET items : \E last \in page :
                     Handed(page) /\ walk' = [walk EXCEPT !.cursor = last]
        BY <1>6 DEF NextPage
      <3>2. items \subseteq Message
        BY DEF Rest, Kept
      <3>3. QED
        BY <3>1, <3>2, HandedType DEF TypeOK, Walk
    <2>2. QED
      BY <1>6, <2>1 DEF NextPage, TypeOK, RequestsOK, Kept, table
  <1>7. CASE UNCHANGED vars
    BY <1>7 DEF vars, table, export, TypeOK, RequestsOK, Kept
  <1>8. QED
    BY <1>1, <1>2, <1>3, <1>4, <1>5, <1>6, <1>7, RequestStep DEF Next

-----------------------------------------------------------------------------
(* The audit.                                                              *)

LEMMA BalanceKept ==
    ASSUME AuditBalance, UNCHANGED <<messages, inbox, audit>>
    PROVE  AuditBalance'
  BY DEF AuditBalance, Rows, Kept

\* Neither a draft nor a captured message that comes to nothing is a row.
LEMMA BalanceOutside ==
    ASSUME AuditBalance, TypeOK, UNCHANGED <<inbox, audit>>,
           NEW m \in Message, messages[m] # "kept", messages'[m] # "kept",
           \A n \in Message \ {m} : messages'[n] = messages[n]
    PROVE  AuditBalance'
  <1>1. \A i \in Inbox : Rows(i)' = Rows(i)
    BY DEF Rows, Kept
  <1>2. QED
    BY <1>1 DEF AuditBalance

LEMMA BalanceDelete ==
    ASSUME TypeOK, AuditBalance, NEW m \in Message, Present(m), Deleted({m}),
           Audited(inbox[m], -1), UNCHANGED inbox
    PROVE  AuditBalance'
  <1> SUFFICES ASSUME NEW i \in Inbox
               PROVE  audit'[i] = Cardinality(Rows(i)')
    BY DEF AuditBalance
  <1>1. IsFiniteSet(Rows(i)) /\ Cardinality(Rows(i)) \in Nat /\ audit[i] = Cardinality(Rows(i))
    BY RowsFinite DEF AuditBalance
  <1>2. Rows(i)' = Rows(i) \ {m}
    BY DEF Rows, Kept, Deleted
  <1>3. m \in Rows(i) <=> inbox[m] = i
    BY DEF Rows, Present
  <1>4. audit'[i] = IF inbox[m] = i THEN audit[i] - 1 ELSE audit[i]
    BY DEF Audited, TypeOK
  <1>5. Cardinality(Rows(i) \ {m}) = IF m \in Rows(i) THEN Cardinality(Rows(i)) - 1
                                                      ELSE Cardinality(Rows(i))
    BY <1>1, FS_RemoveElement
  <1>6. QED
    BY <1>1, <1>2, <1>3, <1>4, <1>5

LEMMA BalanceInsert ==
    ASSUME TypeOK, AuditBalance, NEW m \in Message, Insert(m)
    PROVE  AuditBalance'
  <1> SUFFICES ASSUME NEW i \in Inbox
               PROVE  audit'[i] = Cardinality(Rows(i)')
    BY DEF AuditBalance
  <1>1. IsFiniteSet(Rows(i)) /\ Cardinality(Rows(i)) \in Nat /\ audit[i] = Cardinality(Rows(i))
    BY RowsFinite DEF AuditBalance
  <1>2. messages'[m] = "kept" /\ \A n \in Message \ {m} : messages'[n] = messages[n]
    BY DEF Insert, TypeOK
  <1>3. m \notin Rows(i)
    BY DEF Insert, Rows, Kept
  <1>4. Rows(i)' = IF inbox[m] = i THEN Rows(i) \cup {m} ELSE Rows(i)
    BY <1>2, <1>3 DEF Insert, Rows, Kept
  <1>5. audit'[i] = IF inbox[m] = i THEN audit[i] + 1 ELSE audit[i]
    BY DEF Insert, Audited, TypeOK
  <1>6. Cardinality(Rows(i) \cup {m}) = Cardinality(Rows(i)) + 1
    BY <1>1, <1>3, FS_AddElement
  <1>7. QED
    BY <1>1, <1>4, <1>5, <1>6

LEMMA BalancePurge ==
    ASSUME TypeOK, AuditBalance, NEW i \in Inbox, Purge(i)
    PROVE  AuditBalance'
  <1> SUFFICES ASSUME NEW j \in Inbox
               PROVE  audit'[j] = Cardinality(Rows(j)')
    BY DEF AuditBalance
  <1>1. \A k \in Inbox : Cardinality(Rows(k)) \in Nat /\ audit[k] = Cardinality(Rows(k))
    BY RowsFinite DEF AuditBalance
  <1>2. Rows(j)' = IF j = i THEN {} ELSE Rows(j)
    BY DEF Purge, Deleted, Rows, Kept, TypeOK
  <1>3. audit'[j] = IF j = i THEN 0 ELSE audit[j]
    BY <1>1 DEF Purge, Audited, TypeOK
  <1>4. QED
    BY <1>1, <1>2, <1>3, FS_EmptySet

LEMMA BalancePrune ==
    ASSUME TypeOK, AuditBalance, Prune
    PROVE  AuditBalance'
  <1> SUFFICES ASSUME NEW i \in Inbox
               PROVE  audit'[i] = Cardinality(Rows(i)')
    BY DEF AuditBalance
  <1>1. IsFiniteSet(Rows(i)) /\ audit[i] = Cardinality(Rows(i))
    BY RowsFinite DEF AuditBalance
  <1>2. PICK now \in clock - Skew..clock :
          /\ Deleted(Old(now)) /\ UNCHANGED inbox
          /\ audit' = [j \in Inbox |-> audit[j] - Counted(j, now)]
    BY DEF Prune
  <1>3. Rows(i)' = Rows(i) \ Old(now)
    BY <1>2 DEF Deleted, Rows, Kept, Old
  <1>4. Counted(i, now) = Cardinality(Rows(i) \cap Old(now))
    <2>1. Rows(i) \cap Old(now) = {m \in Old(now) : inbox[m] = i}
      BY DEF Rows, Old
    <2>2. QED
      BY <2>1 DEF Counted
  <1>5. QED
    BY <1>1, <1>2, <1>3, <1>4, FS_Difference

LEMMA BalanceStep == TypeOK /\ RequestsOK /\ AuditBalance /\ [Next]_vars => AuditBalance'
  <1> SUFFICES ASSUME TypeOK, RequestsOK, AuditBalance, [Next]_vars PROVE AuditBalance'
    OBVIOUS
  <1>1. CASE Tick \/ NextPage \/ UNCHANGED vars
    BY <1>1, BalanceKept DEF Tick, NextPage, vars, table
  <1>2. ASSUME NEW m \in Message, Draft(m) \/ Abandon(m)
        PROVE  AuditBalance'
    <2>1. messages'[m] # "kept" /\ \A n \in Message \ {m} : messages'[n] = messages[n]
      BY <1>2 DEF Draft, Abandon, TypeOK
    <2>2. QED
      BY <1>2, <2>1, BalanceOutside DEF Draft, Abandon
  <1>3. ASSUME NEW m \in Message, Update(m)
        PROVE  AuditBalance'
    BY <1>3, BalanceKept DEF Update
  <1>4. ASSUME NEW i \in Inbox, NEW f \in BOOLEAN, NEW n \in 1..MaxLimit, StartWalk(i, f, n)
        PROVE  AuditBalance'
    BY <1>4, BalanceKept DEF StartWalk, table
  <1>5. ASSUME NEW d \in Deleter,
               \/ \E S \in SUBSET Message : Ask(d, S)
               \/ \E m \in Message : Get(d, m)
               \/ Fail(d)
        PROVE  AuditBalance'
    BY <1>5, BalanceKept DEF Ask, Get, Fail, Answer
  <1>6. ASSUME NEW d \in Deleter, Delete(d)
        PROVE  AuditBalance'
    <2>1. deleters[d].id \in Message
      BY <1>6 DEF Delete, TypeOK, RequestsOK, Deletion
    <2>2. QED
      BY <1>6, <2>1, BalanceKept, BalanceDelete DEF Delete, Answer
  <1>7. QED
    BY <1>1, <1>2, <1>3, <1>4, <1>5, <1>6, BalanceInsert, BalancePurge, BalancePrune DEF Next

-----------------------------------------------------------------------------
(* The walk.                                                               *)

\* Rows come, go and are changed beside the walk: what was handed out was never a draft, and
\* the walk is owed no row that left its list.
LEMMA WalkKeeps ==
    ASSUME TypeOK, WalkOK, UNCHANGED <<inbox, walk, copies>>,
           \A m \in Message : messages[m] # "free" => created_at'[m] = created_at[m],
           \A m \in Message : messages[m] \in {"kept", "gone"} => messages'[m] \in {"kept", "gone"},
           owed' \subseteq owed,
           \A m \in owed' : messages'[m] = "kept" /\ Listed(m, favorite')
    PROVE  WalkOK'
  <1>1. walk.cursor # None => walk.cursor \in Message /\ messages[walk.cursor] # "free"
    BY DEF WalkOK, TypeOK, Walk
  <1>2. \A m \in Message :
          walk.cursor # None /\ messages[m] # "free" => Past(m)' = Past(m)
    BY <1>1 DEF Past, Newer
  <1>3. walk.cursor # None => walk.pc = "run" /\ messages'[walk.cursor] \in {"kept", "gone"}
    BY <1>1 DEF WalkOK
  <1>4. ASSUME NEW m \in Message, copies[m] > 0
        PROVE  /\ copies[m] = 1 /\ messages'[m] \in {"kept", "gone"}
               /\ walk.pc = "run" => walk.cursor # None /\ ~ Past(m)'
    BY <1>2, <1>4 DEF WalkOK
  <1>5. ASSUME NEW m \in owed'
        PROVE  /\ m \in Kept' /\ Listed(m, favorite)'
               /\ walk.pc # "idle"
               /\ copies[m] = 1 \/ m \in Rest'
               /\ walk.pc = "done" => copies[m] = 1
    <2>1. m \in owed /\ m \in Message /\ messages[m] = "kept"
      BY <1>5 DEF TypeOK, WalkOK, Kept
    <2>2. m \in Kept' /\ Listed(m, favorite)'
      BY <1>5, <2>1 DEF Kept, Listed
    <2>3. m \in Rest => m \in Rest'
      BY <1>2, <2>1, <2>2 DEF Rest
    <2>4. QED
      BY <2>1, <2>2, <2>3 DEF WalkOK
  <1>6. QED
    BY <1>3, <1>4, <1>5 DEF WalkOK

\* A page that is followed by another one: the cursor parts the list.
LEMMA WalkPage ==
    ASSUME TypeOK, WalkOK, walk.pc = "run", NEW items \in SUBSET Rest,
           First(items, Rest, Clamp(walk.limit + 1)),
           NEW page \in SUBSET items, NEW last \in page,
           First(page, items, walk.limit), \A m \in page \ {last} : Newer(m, last),
           Handed(page), walk' = [walk EXCEPT !.cursor = last],
           UNCHANGED <<table, owed>>
    PROVE  WalkOK'
  <1>1. last \in Rest /\ page \subseteq Message /\ last \in Message /\ last # None /\ last \in Kept
    BY InboxesAssumption DEF Rest, Kept
  <1>2. walk'.cursor = last /\ walk'.pc = "run" /\ walk'.inbox = walk.inbox
        /\ walk'.favorite = walk.favorite
    BY DEF TypeOK, Walk
  <1>3. \A m \in Message : Past(m)' = Newer(last, m)
    BY <1>2 DEF Past, Newer, table
  <1>4. \A m \in page : ~ Newer(last, m) /\ copies[m] = 0 /\ copies'[m] = 1
    <2> SUFFICES ASSUME NEW m \in page
                 PROVE  ~ Newer(last, m) /\ copies[m] = 0 /\ copies'[m] = 1
      OBVIOUS
    <2>1. ~ Newer(last, m)
      BY <1>1, Order
    <2>2. copies[m] = 0
      <3>1. m \in Rest /\ m \in Message /\ copies[m] \in Nat
        BY <1>1 DEF TypeOK
      <3>2. QED
        BY <3>1 DEF WalkOK, Rest
    <2>3. QED
      BY <1>1, <2>1, <2>2 DEF Handed
  <1>5. \A m \in Message \ page : copies'[m] = copies[m]
    BY DEF Handed
  <1>6. ASSUME NEW m \in Message, copies'[m] > 0
        PROVE  /\ copies'[m] = 1 /\ messages'[m] \in {"kept", "gone"} /\ ~ Past(m)'
    <2>1. CASE m \in page
      BY <1>3, <1>4, <2>1 DEF Rest, Kept, table
    <2>2. CASE m \notin page
      <3>1. /\ copies[m] = 1 /\ messages[m] \in {"kept", "gone"}
            /\ walk.cursor # None /\ walk.cursor \in Message /\ ~ Newer(walk.cursor, m)
        BY <1>5, <1>6, <2>2 DEF WalkOK, Past, TypeOK, Walk
      <3>2. Newer(walk.cursor, last)
        BY <1>1, <3>1 DEF Rest, Past
      <3>3. ~ Newer(last, m)
        BY <1>1, <3>1, <3>2, Order
      <3>4. QED
        BY <1>3, <1>5, <2>2, <3>1, <3>3 DEF table
    <2>3. QED
      BY <2>1, <2>2
  <1>7. ASSUME NEW m \in owed
        PROVE  /\ m \in Kept' /\ Listed(m, favorite)' /\ (copies'[m] = 1 \/ m \in Rest')
    <2>1. m \in Message /\ m \in Kept' /\ Listed(m, favorite)'
      BY <1>2 DEF WalkOK, TypeOK, Kept, Listed, table
    <2>2. CASE copies[m] = 1
      BY <1>4, <1>5, <2>1, <2>2
    <2>3. CASE m \in page
      BY <1>4, <2>1, <2>3
    <2>4. CASE m \in Rest /\ m \notin page
      <3>1. Newer(last, m)
        BY <2>4 DEF First
      <3>2. m \in Rest'
        BY <1>3, <2>1, <3>1 DEF Rest
      <3>3. QED
        BY <2>1, <3>2
    <2>5. QED
      BY <2>1, <2>2, <2>3, <2>4 DEF WalkOK
  <1>8. QED
    BY <1>1, <1>2, <1>6, <1>7 DEF WalkOK, table, Kept

\* The last page: List was allowed one row more than the page, and did not have it.
LEMMA WalkEnd ==
    ASSUME TypeOK, WalkOK, walk.pc = "run", NEW items \in SUBSET Rest,
           First(items, Rest, Clamp(walk.limit + 1)), Cardinality(items) <= walk.limit,
           Handed(items), walk' = [walk EXCEPT !.pc = "done", !.cursor = None],
           UNCHANGED <<table, owed>>
    PROVE  WalkOK'
  <1>1. walk'.cursor = None /\ walk'.pc = "done" /\ walk'.inbox = walk.inbox
        /\ walk'.favorite = walk.favorite
    BY DEF TypeOK, Walk
  <1>2. Rest \in SUBSET Message
    BY DEF Rest, Kept
  <1>3. items = Rest
    <2>1. walk.limit \in 1..MaxLimit
      BY DEF TypeOK, Walk
    <2>2. Clamp(walk.limit + 1) = walk.limit + 1
      BY <2>1, InboxesAssumption DEF Clamp
    <2>3. Cardinality(items) \in Nat /\ Cardinality(Rest) \in Nat /\ walk.limit \in Nat
      BY <1>2, <2>1, FiniteRows, InboxesAssumption
    <2>4. QED
      BY <2>2, <2>3 DEF First
  <1>4. \A m \in Message : copies'[m] = IF m \in Rest THEN copies[m] + 1 ELSE copies[m]
    BY <1>3 DEF Handed
  <1>5. \A m \in Rest : copies[m] = 0
    <2> SUFFICES ASSUME NEW m \in Rest PROVE copies[m] = 0
      OBVIOUS
    <2>1. m \in Message /\ copies[m] \in Nat
      BY <1>2 DEF TypeOK
    <2>2. QED
      BY <2>1 DEF WalkOK, Rest
  <1>6. ASSUME NEW m \in Message, copies'[m] > 0
        PROVE  copies'[m] = 1 /\ messages'[m] \in {"kept", "gone"}
    BY <1>4, <1>5, <1>6 DEF WalkOK, Rest, Kept, table
  <1>7. ASSUME NEW m \in owed
        PROVE  m \in Kept' /\ Listed(m, favorite)' /\ copies'[m] = 1
    <2>1. m \in Message /\ m \in Kept' /\ Listed(m, favorite)'
      BY <1>1 DEF WalkOK, TypeOK, Kept, Listed, table
    <2>2. copies[m] = 1 \/ m \in Rest
      BY DEF WalkOK
    <2>3. QED
      BY <1>4, <1>5, <2>1, <2>2
  <1>8. QED
    BY <1>1, <1>6, <1>7 DEF WalkOK, table

LEMMA WalkStep == TypeOK /\ RequestsOK /\ WalkOK /\ [Next]_vars => WalkOK'
  <1> SUFFICES ASSUME TypeOK, RequestsOK, WalkOK, [Next]_vars PROVE WalkOK'
    OBVIOUS
  <1>1. \A m \in owed : m \in Message /\ messages[m] = "kept" /\ Listed(m, favorite)
    BY DEF WalkOK, TypeOK, Kept
  <1>2. CASE Tick \/ UNCHANGED vars
    BY <1>1, <1>2, WalkKeeps DEF Tick, vars, table, export, Listed
  <1>3. ASSUME NEW m \in Message, Draft(m) \/ Insert(m) \/ Abandon(m)
        PROVE  WalkOK'
    <2>1. m \notin owed /\ \A n \in Message \ {m} : messages'[n] = messages[n]
      BY <1>1, <1>3 DEF Draft, Insert, Abandon, TypeOK
    <2>2. /\ \A n \in Message : messages[n] # "free" => created_at'[n] = created_at[n]
          /\ \A n \in Message : messages[n] \in {"kept", "gone"} => messages'[n] \in {"kept", "gone"}
      BY <1>3, <2>1 DEF Draft, Insert, Abandon, TypeOK
    <2>3. QED
      BY <1>1, <1>3, <2>1, <2>2, WalkKeeps DEF Draft, Insert, Abandon, export, TypeOK, Listed
  <1>4. ASSUME NEW m \in Message, Update(m)
        PROVE  WalkOK'
    BY <1>1, <1>4, WalkKeeps DEF Update
  <1>5. ASSUME NEW S \in SUBSET Message, Deleted(S),
               UNCHANGED <<created_at, inbox, walk, copies>>
        PROVE  WalkOK'
    <2>1. \A m \in Message : messages'[m] = IF m \in S THEN "gone" ELSE messages[m]
      BY <1>5 DEF Deleted
    <2>2. \A m \in owed' : m \in owed /\ m \notin S /\ (m \in favorite => m \in favorite')
      BY <1>5 DEF Deleted
    <2>3. QED
      BY <1>1, <1>5, <2>1, <2>2, WalkKeeps DEF Deleted, Listed
  <1>6. ASSUME NEW i \in Inbox, Purge(i)
        PROVE  WalkOK'
    BY <1>5, <1>6, RowsFinite DEF Purge
  <1>7. CASE Prune
    <2>1. \A now : Old(now) \subseteq Message
      BY DEF Old, Kept
    <2>2. QED
      BY <1>5, <1>7, <2>1 DEF Prune
  <1>8. ASSUME NEW d \in Deleter,
               \/ \E S \in SUBSET Message : Ask(d, S)
               \/ \E m \in Message : Get(d, m)
               \/ Fail(d)
        PROVE  WalkOK'
    <2>1. UNCHANGED <<messages, favorite, owed, created_at, inbox, walk, copies>>
      BY <1>8 DEF Ask, Get, Fail, Answer
    <2>2. QED
      BY <1>1, <2>1, WalkKeeps DEF Listed
  <1>9. ASSUME NEW d \in Deleter, Delete(d)
        PROVE  WalkOK'
    <2>1. deleters[d].id \in Message
      BY <1>9 DEF Delete, TypeOK, RequestsOK, Deletion
    <2>2. UNCHANGED <<created_at, inbox, walk, copies>>
      BY <1>9 DEF Delete, Answer
    <2>3. CASE Deleted({deleters[d].id})
      BY <1>5, <2>1, <2>2, <2>3
    <2>4. CASE UNCHANGED <<messages, favorite, owed>>
      BY <1>1, <2>2, <2>4, WalkKeeps DEF Listed
    <2>5. QED
      BY <1>9, <2>3, <2>4 DEF Delete
  <1>10. ASSUME NEW i \in Inbox, NEW f \in BOOLEAN, NEW n \in 1..MaxLimit, StartWalk(i, f, n)
         PROVE  WalkOK'
    <2>1. /\ walk'.pc = "run" /\ walk'.inbox = i /\ walk'.favorite = f /\ walk'.cursor = None
          /\ \A m \in Message : copies'[m] = 0
          /\ UNCHANGED table
      BY <1>10 DEF StartWalk
    <2>2. \A m \in owed' : m \in Kept' /\ Listed(m, favorite)' /\ m \in Rest'
      BY <1>10, <2>1 DEF StartWalk, Rows, Kept, Listed, Rest, table
    <2>3. QED
      BY <2>1, <2>2 DEF WalkOK
  <1>11. CASE NextPage
    <2>1. walk.pc = "run" /\ UNCHANGED <<table, owed>>
      BY <1>11 DEF NextPage
    <2>2. PICK items \in SUBSET Rest :
            /\ First(items, Rest, Clamp(walk.limit + 1))
            /\ \/ /\ Cardinality(items) <= walk.limit
                  /\ Handed(items)
                  /\ walk' = [walk EXCEPT !.pc = "done", !.cursor = None]
               \/ \E page \in SUBSET items : \E last \in page :
                    /\ First(page, items, walk.limit)
                    /\ \A m \in page \ {last} : Newer(m, last)
                    /\ Handed(page)
                    /\ walk' = [walk EXCEPT !.cursor = last]
      BY <1>11 DEF NextPage
    <2>3. QED
      BY <2>1, <2>2, WalkPage, WalkEnd
  <1>12. QED
    BY <1>2, <1>3, <1>4, <1>6, <1>7, <1>8, <1>9, <1>10, <1>11 DEF Next

-----------------------------------------------------------------------------
(* The theorems.                                                           *)

\* The inductive invariant, whatever is captured, changed and deleted between two pages.
THEOREM Invariance == Spec => []Inv
  <1>1. Inv /\ [Next]_vars => Inv'
    BY TypeStep, BalanceStep, WalkStep DEF Inv
  <1>2. QED
    BY InitInv, <1>1, PTL DEF Spec

\* The audit log accounts for every row, however deletion requests, purges and retention
\* overlap (storage: insertAudit and its callers).
THEOREM AuditExact == Spec => []AuditBalance
  BY Invariance, PTL DEF Inv

\* An export that has ended was handed all it was owed (httpapi: page; storage: List).
THEOREM ExportComplete == Spec => []WalkComplete
  <1>1. Inv => WalkComplete
    BY DEF Inv, WalkOK, WalkComplete
  <1>2. QED
    BY Invariance, <1>1, PTL

\* No message is on two pages of an export (docs/DEVELOPER-WORKFLOW.md:20).
THEOREM ExportOnce == Spec => []NoDuplicates
  <1>1. Inv => NoDuplicates
    <2> SUFFICES ASSUME Inv, NEW m \in Message PROVE copies[m] <= 1
      BY DEF NoDuplicates
    <2>1. copies[m] \in Nat /\ (copies[m] > 0 => copies[m] = 1)
      BY DEF Inv, TypeOK, WalkOK
    <2>2. QED
      BY <2>1
  <1>2. QED
    BY Invariance, <1>1, PTL
=============================================================================
