----------------------------- MODULE PushProofs -----------------------------
(***************************************************************************)
(* Proofs about PushOutbox, for every number of phones, endpoints,         *)
(* messages and workers and every value of the times and limits.           *)
(***************************************************************************)
EXTENDS PushOutbox, FiniteSetTheorems, TLAPS

-----------------------------------------------------------------------------
(* The inductive invariant.                                                *)

\* Ids tell the alerts of a phone apart and were handed out; at most one alert waits.
Distinct ==
    /\ \A j \in jobs : j.id < nextId
    /\ \A i, j \in jobs : i.device = j.device /\ i.id = j.id => i = j
    /\ \A i, j \in jobs :
        i.device = j.device /\ i.state = "pending" /\ j.state = "pending" => i = j

\* An alert that waits has an attempt left.
AttemptLeft == \A j \in jobs : j.state = "pending" => j.attempts < Attempts

\* What a worker knows of its alert: whichever row has that id now belongs to the
\* subscription the alert was claimed for; "expired" is what the push service said of
\* that subscription; an alert is only to be retried if it has an attempt left.
Knows(w) ==
    /\ workers[w].pc # "idle" =>
        /\ workers[w].device \in Device /\ workers[w].id < nextId
        /\ \A j \in jobs : j.device = workers[w].device /\ j.id = workers[w].id
                            => j.generation = workers[w].generation
    /\ workers[w].pc = "finish" /\ workers[w].state = "expired"
        => workers[w].generation \in gone
    /\ workers[w].pc = "finish" /\ workers[w].state = "retrying"
        => workers[w].attempts < Attempts

Undeleted == \A m \in Message : messages[m] # "gone"

\* What a phone is still to be told of, and no test alert has swallowed, an alert in the
\* outbox announces.
Covered ==
    Undeleted =>
        \A d \in Device : \A m \in owed[d] \ swallowed[d] :
            \E j \in jobs : j.device = d /\ j.kind = "inbox" /\ m \in j.covers

OutboxInv ==
    /\ TypeOK /\ Distinct /\ JobsMatchSubscription /\ StatusIsCurrent
    /\ \A w \in Worker : Knows(w)
    /\ AttemptsBounded /\ AttemptLeft /\ Covered

-----------------------------------------------------------------------------
(* Rows.                                                                   *)

\* Rows with another state, other counts and times are rows.
LEMMA RunningIsJob ==
    ASSUME NEW j \in Job, NEW n \in Nat, NEW t \in Nat, NEW r \in Nat
    PROVE  [j EXCEPT !.state = "running", !.attempts = n, !.lease_until = t,
                     !.recovered = r] \in Job
  <1>1. [j EXCEPT !.state = "running", !.attempts = n] \in Job
    BY DEF Job
  <1>2. [[j EXCEPT !.state = "running", !.attempts = n] EXCEPT !.lease_until = t] \in Job
    BY <1>1 DEF Job
  <1>3. QED
    BY <1>2 DEF Job

LEMMA WaitingIsJob ==
    ASSUME NEW j \in Job, NEW t \in Nat
    PROVE  [j EXCEPT !.state = "pending", !.due = t, !.lease_until = 0] \in Job
  BY DEF Job

LEMMA AbsorbingIsJob ==
    ASSUME NEW j \in Job, NEW g \in Nat, NEW t \in Nat, NEW m \in Message,
           NEW c \in SUBSET Message
    PROVE  [j EXCEPT !.message = m, !.generation = g, !.expires_at = t, !.covers = c] \in Job
  <1>1. [j EXCEPT !.message = m, !.generation = g] \in Job
    BY DEF Job
  <1>2. QED
    BY <1>1 DEF Job

\* A claim changes the state, the lease and the count of an alert.
LEMMA ClaimedRow ==
    ASSUME PushAssumption, clock \in Nat, NEW j \in Job
    PROVE  LET k == Claimed(j) IN
           /\ k \in Job /\ k.id = j.id /\ k.device = j.device /\ k.generation = j.generation
           /\ k.kind = j.kind
           /\ k.state = "running" /\ k.attempts = j.attempts + 1 /\ k.covers = j.covers
           /\ k.recovered = IF j.state = "running" THEN j.recovered + 1 ELSE j.recovered
  <1> DEFINE n == j.attempts + 1
             t == clock + Lease
             r == IF j.state = "running" THEN j.recovered + 1 ELSE j.recovered
  <1>1. n \in Nat /\ t \in Nat /\ r \in Nat
    BY DEF Job, PushAssumption
  <1>2. Claimed(j) = [j EXCEPT !.state = "running", !.attempts = n, !.lease_until = t,
                               !.recovered = r]
    BY DEF Claimed, Job
  <1> HIDE DEF n, t, r
  <1>3. [j EXCEPT !.state = "running", !.attempts = n, !.lease_until = t,
                  !.recovered = r] \in Job
    BY <1>1, RunningIsJob
  <1>4. /\ Claimed(j).id = j.id /\ Claimed(j).device = j.device
        /\ Claimed(j).generation = j.generation /\ Claimed(j).kind = j.kind
        /\ Claimed(j).state = "running" /\ Claimed(j).attempts = n
        /\ Claimed(j).covers = j.covers /\ Claimed(j).recovered = r
    BY <1>2 DEF Job
  <1>5. Claimed(j) \in Job
    BY <1>2, <1>3, Zenon
  <1>6. QED
    BY <1>4, <1>5 DEF n, r

\* A retry changes the state and the times of an alert.
LEMMA PostponedRow ==
    ASSUME clock \in Nat, NEW j \in Job, NEW wait \in Nat
    PROVE  LET k == Postponed(j, wait) IN
           /\ k \in Job /\ k.id = j.id /\ k.device = j.device /\ k.generation = j.generation
           /\ k.kind = j.kind
           /\ k.state = "pending" /\ k.attempts = j.attempts /\ k.covers = j.covers
           /\ k.recovered = j.recovered
  <1> DEFINE t == clock + wait
  <1>1. t \in Nat
    OBVIOUS
  <1>2. Postponed(j, wait) = [j EXCEPT !.state = "pending", !.due = t, !.lease_until = 0]
    BY DEF Postponed
  <1> HIDE DEF t
  <1>3. Postponed(j, wait) \in Job
    BY <1>1, <1>2, WaitingIsJob
  <1>4. QED
    BY <1>2, <1>3 DEF Job

\* A newer alert that takes an older one over only covers more.
LEMMA MergedRow ==
    ASSUME NEW n \in Job, NEW j \in Job
    PROVE  LET k == Merged(n, j) IN
           /\ k \in Job /\ k.id = n.id /\ k.device = n.device /\ k.generation = n.generation
           /\ k.kind = n.kind
           /\ k.state = n.state /\ k.attempts = n.attempts /\ k.covers = n.covers \cup j.covers
           /\ k.recovered = n.recovered
  BY DEF Merged, Job

\* An alert that absorbs a message gets the generation of the subscription.
LEMMA CoalescedRow ==
    ASSUME PushAssumption, clock \in Nat, NEW j \in Job, NEW m \in Message,
           subscriptions[j.device] \in Subscription
    PROVE  LET k == Coalesced(j, m) IN
           /\ k \in Job /\ k.id = j.id /\ k.device = j.device
           /\ k.generation = subscriptions[j.device].generation /\ k.kind = j.kind
           /\ k.state = j.state /\ k.attempts = j.attempts /\ k.covers = j.covers \cup {m}
           /\ k.recovered = j.recovered
  <1> DEFINE g == subscriptions[j.device].generation
             t == clock + TTL
             c == j.covers \cup {m}
  <1>1. g \in Nat /\ t \in Nat /\ c \in SUBSET Message
    BY DEF Job, PushAssumption, Subscription
  <1>2. Coalesced(j, m) = [j EXCEPT !.message = m, !.generation = g, !.expires_at = t,
                                    !.covers = c]
    BY DEF Coalesced, Job
  <1> HIDE DEF g, t, c
  <1>3. [j EXCEPT !.message = m, !.generation = g, !.expires_at = t, !.covers = c] \in Job
    BY <1>1, AbsorbingIsJob
  <1>4. /\ Coalesced(j, m).id = j.id /\ Coalesced(j, m).device = j.device
        /\ Coalesced(j, m).generation = g /\ Coalesced(j, m).state = j.state
        /\ Coalesced(j, m).kind = j.kind
        /\ Coalesced(j, m).attempts = j.attempts /\ Coalesced(j, m).covers = c
        /\ Coalesced(j, m).recovered = j.recovered
    BY <1>2 DEF Job
  <1>5. Coalesced(j, m) \in Job
    BY <1>2, <1>3, Zenon
  <1>6. QED
    BY <1>4, <1>5 DEF g, c

\* A new alert.
LEMMA NewRow ==
    ASSUME PushAssumption, clock \in Nat, NEW d \in Device, NEW kind \in Kind,
           NEW m \in Message \cup {None}, NEW id \in Nat, NEW due \in Nat,
           subscriptions[d] \in Subscription
    PROVE  LET k == NewJob(d, kind, m, id, due) IN
           /\ k \in Job /\ k.id = id /\ k.device = d /\ k.kind = kind
           /\ k.generation = subscriptions[d].generation
           /\ k.state = "pending" /\ k.attempts = 0 /\ k.covers = {m} \ {None}
           /\ k.recovered = 0
  BY DEF PushAssumption, NewJob, Job, Subscription

-----------------------------------------------------------------------------
(* What a step leaves of the outbox.                                       *)

\* A step keeps some rows, each as it is or changed (f), and adds waiting alerts under
\* the next id for phones that have none.
LEMMA Reshaped ==
    ASSUME OutboxInv, NEW f, NEW kept \in SUBSET jobs, NEW new \in SUBSET Job,
           \A k \in jobs' : k \in new \/ \E j \in kept : k = f[j],
           \A j \in kept : /\ f[j] \in Job /\ f[j].id = j.id /\ f[j].device = j.device
                           /\ f[j].attempts <= Attempts + f[j].recovered
                           /\ f[j].state = "pending" => f[j].attempts < Attempts,
           \A i, j \in kept :
                i.device = j.device /\ f[i].state = "pending" /\ f[j].state = "pending" => i = j,
           \A k \in new : k.id = nextId /\ k.state = "pending" /\ k.attempts = 0
                          /\ k.recovered = 0,
           \A k \in new : \A j \in kept : j.device = k.device => f[j].state # "pending",
           \A i, k \in new : i.device = k.device => i = k,
           nextId' \in Nat, nextId' >= nextId, new # {} => nextId' > nextId,
           PushAssumption
    PROVE  jobs' \subseteq Job /\ Distinct' /\ AttemptsBounded' /\ AttemptLeft'
  <1>1. /\ jobs \subseteq Job /\ nextId \in Nat /\ Attempts \in Nat /\ Attempts > 0
        /\ \A j \in Job : j.id \in Nat /\ j.recovered \in Nat
    BY DEF OutboxInv, TypeOK, Job, PushAssumption
  <1>2. \A j \in jobs : j.id < nextId
    BY DEF OutboxInv, Distinct
  <1>3. \A i, j \in jobs : i.device = j.device /\ i.id = j.id => i = j
    BY DEF OutboxInv, Distinct
  <1>4. \A k \in jobs' : k \in Job /\ k.id < nextId'
    BY <1>1, <1>2
  <1>5. ASSUME NEW i \in jobs', NEW k \in jobs', i.device = k.device, i.id = k.id
        PROVE  i = k
    <2>1. CASE i \in new /\ k \in new
      BY <1>5, <2>1
    <2>2. CASE i \notin new /\ k \notin new
      BY <1>3, <1>5, <2>2
    <2>3. CASE i \in new /\ k \notin new
      BY <1>1, <1>2, <1>5, <2>3
    <2>4. CASE i \notin new /\ k \in new
      BY <1>1, <1>2, <1>5, <2>4
    <2>5. QED
      BY <2>1, <2>2, <2>3, <2>4
  <1>6. ASSUME NEW i \in jobs', NEW k \in jobs', i.device = k.device,
               i.state = "pending", k.state = "pending"
        PROVE  i = k
    <2>1. CASE i \in new /\ k \in new
      BY <1>6, <2>1
    <2>2. CASE i \notin new /\ k \notin new
      BY <1>6, <2>2
    <2>3. CASE i \in new /\ k \notin new
      BY <1>6, <2>3
    <2>4. CASE i \notin new /\ k \in new
      BY <1>6, <2>4
    <2>5. QED
      BY <2>1, <2>2, <2>3, <2>4
  <1>7. Distinct'
    BY <1>4, <1>5, <1>6 DEF Distinct
  <1>8. AttemptsBounded' /\ AttemptLeft'
    BY <1>1 DEF AttemptsBounded, AttemptLeft
  <1>9. QED
    BY <1>4, <1>7, <1>8

\* Rows that go take nothing of the invariant along.
LEMMA Shrinks ==
    ASSUME OutboxInv, jobs' \subseteq jobs, nextId' \in Nat, nextId' >= nextId
    PROVE  jobs' \subseteq Job /\ Distinct' /\ AttemptsBounded' /\ AttemptLeft'
  <1>1. /\ jobs \subseteq Job /\ nextId \in Nat
        /\ \A j \in Job : j.id \in Nat
    BY DEF OutboxInv, TypeOK, Job
  <1>2. QED
    BY <1>1 DEF OutboxInv, Distinct, AttemptsBounded, AttemptLeft

\* A worker that stays as it is, or gives up, goes on knowing what it knew as long as
\* the rows keep their generations.
LEMMA KnowsStill ==
    ASSUME OutboxInv, nextId' \in Nat, nextId' >= nextId, gone \subseteq gone',
           NEW w \in Worker, workers'[w] = workers[w] \/ workers'[w] = Idle,
           \A k \in jobs' : \/ \E j \in jobs : /\ k.device = j.device /\ k.id = j.id
                                              /\ k.generation = j.generation
                            \/ k.id = nextId
    PROVE  Knows(w)'
  <1>1. /\ nextId \in Nat /\ Idle.pc = "idle" /\ workers[w].id \in Nat /\ Knows(w)
    BY DEF OutboxInv, TypeOK, Idle, Loop
  <1>2. CASE workers'[w] = Idle
    BY <1>1, <1>2 DEF Knows
  <1>3. CASE workers'[w] = workers[w]
    BY <1>1, <1>3 DEF Knows
  <1>4. QED
    BY <1>2, <1>3

\* What is waived with the rows that go is not owed, and the other rows announce the rest.
LEMMA WaivedStaysCovered ==
    ASSUME OutboxInv, NEW ended, ended \subseteq jobs, jobs' = jobs \ ended,
           NEW waived, \A j \in ended : j.kind = "inbox" => j \in waived, Waive(waived),
           UNCHANGED <<messages, swallowed>>
    PROVE  Covered' /\ owed' \in [Device -> SUBSET Message]
  <1>1. /\ owed \in [Device -> SUBSET Message]
        /\ owed' = [d \in Device |-> owed[d] \ UNION {j.covers : j \in OfDevice(waived, d)}]
    BY DEF OutboxInv, TypeOK, Waive
  <1>2. ASSUME Undeleted', NEW d \in Device, NEW m \in owed'[d] \ swallowed'[d]
        PROVE  \E j \in jobs' : j.device = d /\ j.kind = "inbox" /\ m \in j.covers
    <2>1. m \in owed[d] \ swallowed[d] /\ m \notin UNION {j.covers : j \in OfDevice(waived, d)}
      BY <1>1, <1>2
    <2>2. Undeleted
      BY <1>2 DEF Undeleted
    <2>3. PICK j \in jobs : j.device = d /\ j.kind = "inbox" /\ m \in j.covers
      BY <2>1, <2>2 DEF OutboxInv, Covered
    <2>4. j \notin ended
      BY <2>1, <2>3 DEF OfDevice
    <2>5. QED
      BY <2>3, <2>4
  <1>3. QED
    BY <1>1, <1>2 DEF Covered

\* What test alerts have swallowed only grows, by all that the test alerts stand for.
LEMMA SwallowGrows ==
    ASSUME OutboxInv, Swallow, jobs' \subseteq Job
    PROVE  /\ swallowed' \in [Device -> SUBSET Message]
           /\ \A d \in Device : swallowed[d] \subseteq swallowed'[d]
           /\ \A d \in Device : \A j \in jobs' :
                j.device = d /\ j.kind = "test" => j.covers \subseteq swallowed'[d]
  <1>1. /\ swallowed \in [Device -> SUBSET Message]
        /\ swallowed' = [d \in Device |-> swallowed[d] \cup
                UNION {j.covers : j \in {i \in OfDevice(jobs', d) : i.kind = "test"}}]
    BY DEF OutboxInv, TypeOK, Swallow
  <1>2. \A j \in jobs' : j.covers \subseteq Message
    BY DEF Job
  <1>3. \A d \in Device :
            UNION {j.covers : j \in {i \in OfDevice(jobs', d) : i.kind = "test"}} \subseteq Message
    BY <1>2 DEF OfDevice
  <1>4. swallowed' \in [Device -> SUBSET Message]
    BY <1>1, <1>3
  <1>5. ASSUME NEW d \in Device, NEW j \in jobs', j.device = d, j.kind = "test"
        PROVE  j.covers \subseteq swallowed'[d]
    BY <1>1, <1>5 DEF OfDevice
  <1>6. \A d \in Device : swallowed[d] \subseteq swallowed'[d]
    BY <1>1
  <1>7. QED
    BY <1>4, <1>5, <1>6

-----------------------------------------------------------------------------
(* The steps of the phones and of the server.                              *)

LEMMA TickKeeps ==
    ASSUME OutboxInv, Tick
    PROVE  OutboxInv'
  <1>1. /\ UNCHANGED <<messages, devices, subscriptions, jobs, status, nextId, nextGeneration>>
        /\ UNCHANGED <<workers, owed, gone, swallowed, changes, upsets>>
        /\ clock' = clock + 1
    BY DEF Tick, rows, history, counters
  <1>2. TypeOK'
    BY <1>1 DEF OutboxInv, TypeOK
  <1>3. \A w \in Worker : Knows(w)'
    BY <1>1 DEF OutboxInv, Knows
  <1>4. QED
    BY <1>1, <1>2, <1>3 DEF OutboxInv, Distinct, JobsMatchSubscription, StatusIsCurrent,
                            AttemptsBounded, AttemptLeft, Covered, Undeleted

LEMMA DeleteMessageKeeps ==
    ASSUME OutboxInv, NEW m \in Message, DeleteMessage(m)
    PROVE  OutboxInv'
  <1>1. /\ UNCHANGED <<devices, subscriptions, status, nextId, nextGeneration, workers>>
        /\ UNCHANGED <<clock, gone, swallowed, changes>> /\ upsets' = upsets + 1
        /\ messages' = [messages EXCEPT ![m] = "gone"] /\ jobs' = {j \in jobs : j.message # m}
        /\ owed' = [d \in Device |-> owed[d] \ {m}]
    BY DEF DeleteMessage
  <1>2. TypeOK'
    BY <1>1 DEF OutboxInv, TypeOK
  <1>3. Distinct' /\ AttemptsBounded' /\ AttemptLeft'
    BY <1>1, Shrinks DEF OutboxInv, TypeOK
  <1>4. \A w \in Worker : Knows(w)'
    BY <1>1, KnowsStill DEF OutboxInv, TypeOK
  <1>5. JobsMatchSubscription' /\ StatusIsCurrent'
    BY <1>1 DEF OutboxInv, JobsMatchSubscription, StatusIsCurrent
  <1>6. ~Undeleted'
    BY <1>1 DEF OutboxInv, TypeOK, Undeleted
  <1>7. QED
    BY <1>2, <1>3, <1>4, <1>5, <1>6 DEF OutboxInv, Covered

LEMMA PutPushSubscriptionKeeps ==
    ASSUME OutboxInv, NEW d \in Device, NEW e \in Endpoint, PutPushSubscription(d, e)
    PROVE  OutboxInv'
  <1> DEFINE replaced == Holders(e) \cup {d}
             ended == {j \in jobs : j.device \in replaced}
  <1>1. /\ UNCHANGED <<clock, messages, devices, nextId, workers, gone, swallowed, upsets>>
        /\ subscriptions' = [x \in Device |->
                CASE x = d -> [endpoint |-> e, generation |-> nextGeneration]
                  [] x \in replaced \ {d} -> None
                  [] OTHER -> subscriptions[x]]
        /\ jobs' = {j \in jobs : j.device \notin replaced}
        /\ status' = [status EXCEPT ![d] = [state |-> "ready", generation |-> nextGeneration]]
        /\ nextGeneration' = nextGeneration + 1 /\ changes' = changes + 1
        /\ Waive(ended)
    BY DEF PutPushSubscription
  <1>2. jobs' = jobs \ ended
    BY <1>1
  <1>3. Covered' /\ owed' \in [Device -> SUBSET Message]
    BY <1>1, <1>2, WaivedStaysCovered
  <1>4. jobs' \subseteq Job /\ Distinct' /\ AttemptsBounded' /\ AttemptLeft'
    BY <1>1, Shrinks DEF OutboxInv, TypeOK
  <1>5. \A w \in Worker : Knows(w)'
    BY <1>1, KnowsStill DEF OutboxInv, TypeOK
  <1>6. [state |-> "ready", generation |-> nextGeneration] \in Status
    BY DEF Status, OutboxInv, TypeOK
  <1>7. \A x \in Device : subscriptions'[x] =
                CASE x = d -> [endpoint |-> e, generation |-> nextGeneration]
                  [] x \in replaced \ {d} -> None
                  [] OTHER -> subscriptions[x]
    BY <1>1
  <1>8. /\ subscriptions'[d] = [endpoint |-> e, generation |-> nextGeneration]
        /\ \A x \in replaced \ {d} : x \in Device => subscriptions'[x] = None
        /\ \A x \in Device \ replaced : subscriptions'[x] = subscriptions[x]
    BY <1>7
  <1>9. [endpoint |-> e, generation |-> nextGeneration] \in Subscription
    BY DEF Subscription, OutboxInv, TypeOK
  <1>10. \A x \in Device : subscriptions'[x] \in Subscription \cup {None}
    BY <1>8, <1>9 DEF OutboxInv, TypeOK
  <1>11. /\ messages \in [Message -> {"free", "kept", "gone"}]
         /\ devices \in [Device -> {"active", "ended"}] /\ status' \in [Device -> Status]
    BY <1>1, <1>6 DEF OutboxInv, TypeOK
  <1>12. TypeOK'
    BY <1>1, <1>3, <1>4, <1>10, <1>11 DEF OutboxInv, TypeOK
  <1>13. JobsMatchSubscription'
    BY <1>1, <1>8 DEF OutboxInv, TypeOK, Job, JobsMatchSubscription
  <1>14. StatusIsCurrent'
    BY <1>1, <1>8 DEF OutboxInv, TypeOK, StatusIsCurrent
  <1>15. QED
    BY <1>3, <1>4, <1>5, <1>12, <1>13, <1>14 DEF OutboxInv

LEMMA DeletePushSubscriptionKeeps ==
    ASSUME OutboxInv, NEW d \in Device, DeletePushSubscription(d)
    PROVE  OutboxInv'
  <1>1. /\ UNCHANGED <<clock, messages, devices, nextId, nextGeneration, workers>>
        /\ UNCHANGED <<gone, swallowed, upsets>> /\ changes' = changes + 1
        /\ subscriptions' = [subscriptions EXCEPT ![d] = None]
        /\ jobs' = jobs \ OfDevice(jobs, d)
        /\ status' = [status EXCEPT ![d] = NoStatus]
        /\ Waive(OfDevice(jobs, d))
    BY DEF DeletePushSubscription
  <1>2. Covered' /\ owed' \in [Device -> SUBSET Message]
    BY <1>1, WaivedStaysCovered DEF OfDevice
  <1>3. jobs' \subseteq Job /\ Distinct' /\ AttemptsBounded' /\ AttemptLeft'
    BY <1>1, Shrinks DEF OutboxInv, TypeOK
  <1>4. \A w \in Worker : Knows(w)'
    BY <1>1, KnowsStill DEF OutboxInv, TypeOK
  <1>5. NoStatus \in Status
    BY DEF NoStatus, Status
  <1>6. TypeOK'
    <2>1. subscriptions' \in [Device -> Subscription \cup {None}]
      BY <1>1 DEF OutboxInv, TypeOK
    <2>2. status' \in [Device -> Status]
      BY <1>1, <1>5 DEF OutboxInv, TypeOK
    <2>3. {changes', upsets'} \subseteq Nat
      BY <1>1 DEF OutboxInv, TypeOK
    <2>4. QED
      BY <1>1, <1>2, <1>3, <2>1, <2>2, <2>3 DEF OutboxInv, TypeOK
  <1>7. JobsMatchSubscription' /\ StatusIsCurrent'
    BY <1>1 DEF OutboxInv, TypeOK, Job, OfDevice, JobsMatchSubscription, StatusIsCurrent
  <1>8. QED
    BY <1>2, <1>3, <1>4, <1>6, <1>7 DEF OutboxInv

LEMMA EndSessionKeeps ==
    ASSUME OutboxInv, NEW d \in Device, EndSession(d)
    PROVE  OutboxInv'
  <1>1. /\ UNCHANGED <<clock, messages, status, nextId, nextGeneration, workers>>
        /\ UNCHANGED <<gone, swallowed, upsets>> /\ changes' = changes + 1
        /\ devices' = [devices EXCEPT ![d] = "ended"]
    BY DEF EndSession
  <1>2. CASE /\ subscriptions' = [subscriptions EXCEPT ![d] = None]
             /\ jobs' = jobs \ OfDevice(jobs, d)
             /\ Waive(OfDevice(jobs, d))
    <2>1. Covered' /\ owed' \in [Device -> SUBSET Message]
      BY <1>1, <1>2, WaivedStaysCovered DEF OfDevice
    <2>2. jobs' \subseteq Job /\ Distinct' /\ AttemptsBounded' /\ AttemptLeft'
      BY <1>1, <1>2, Shrinks DEF OutboxInv, TypeOK
    <2>3. \A w \in Worker : Knows(w)'
      BY <1>1, <1>2, KnowsStill DEF OutboxInv, TypeOK
    <2>4. TypeOK'
      <3>1. subscriptions' \in [Device -> Subscription \cup {None}]
        BY <1>2 DEF OutboxInv, TypeOK
      <3>2. devices' \in [Device -> {"active", "ended"}]
        BY <1>1 DEF OutboxInv, TypeOK
      <3>3. {changes', upsets'} \subseteq Nat
        BY <1>1 DEF OutboxInv, TypeOK
      <3>4. QED
        BY <1>1, <2>1, <2>2, <3>1, <3>2, <3>3 DEF OutboxInv, TypeOK
    <2>5. JobsMatchSubscription' /\ StatusIsCurrent'
      BY <1>1, <1>2 DEF OutboxInv, TypeOK, Job, OfDevice, JobsMatchSubscription,
                        StatusIsCurrent
    <2>6. QED
      BY <2>1, <2>2, <2>3, <2>4, <2>5 DEF OutboxInv
  <1>3. CASE UNCHANGED <<subscriptions, jobs, owed>>
    <2>1. TypeOK'
      BY <1>1, <1>3 DEF OutboxInv, TypeOK
    <2>2. \A w \in Worker : Knows(w)'
      BY <1>1, <1>3 DEF OutboxInv, Knows
    <2>3. QED
      BY <1>1, <1>3, <2>1, <2>2 DEF OutboxInv, Distinct, JobsMatchSubscription,
             StatusIsCurrent, AttemptsBounded, AttemptLeft, Covered, Undeleted
  <1>4. QED
    BY <1>2, <1>3 DEF EndSession
\* A test alert for a phone without a waiting one.
LEMMA QueuePushTestKeeps ==
    ASSUME PushAssumption, OutboxInv, NEW d \in Device, QueuePushTest(d)
    PROVE  OutboxInv'
  <1> DEFINE k == NewJob(d, "test", None, nextId, clock)
             f == [j \in jobs |-> j]
  <1>1. /\ UNCHANGED <<clock, messages, devices, subscriptions, status, nextGeneration, workers>>
        /\ UNCHANGED <<owed, gone, swallowed, changes>>
        /\ jobs' = jobs \cup {k} /\ nextId' = nextId + 1 /\ upsets' = upsets + 1
        /\ subscriptions[d] # None /\ Pending(d) = {}
    BY DEF QueuePushTest, Subscribed, history
  <1>2. clock \in Nat /\ nextId \in Nat /\ jobs \subseteq Job
        /\ subscriptions[d] \in Subscription
    BY <1>1 DEF OutboxInv, TypeOK
  <1>3. /\ k \in Job /\ k.id = nextId /\ k.device = d
        /\ k.generation = subscriptions[d].generation
        /\ k.state = "pending" /\ k.attempts = 0 /\ k.recovered = 0
    <2>1. "test" \in Kind /\ None \in Message \cup {None}
      BY DEF Kind
    <2>2. QED
      BY <1>2, <2>1, NewRow
  <1> HIDE DEF k
  <1>4. jobs' = {f[j] : j \in jobs} \cup {k}
    BY <1>1
  <1>5. \A j \in jobs : /\ f[j] = j /\ j.attempts <= Attempts + j.recovered
                        /\ j.state = "pending" => j.attempts < Attempts
    BY DEF OutboxInv, AttemptsBounded, AttemptLeft
  <1>6. \A i, j \in jobs :
            i.device = j.device /\ i.state = "pending" /\ j.state = "pending" => i = j
    BY DEF OutboxInv, Distinct
  <1>7. \A j \in jobs : j.device = d => j.state # "pending"
    BY <1>1 DEF Pending
  <1> DEFINE new == {k}
  <1>20. /\ new \in SUBSET Job /\ \A x \in jobs' : x \in new \/ \E j \in jobs : x = f[j]
         /\ \A x \in new : x.id = nextId /\ x.state = "pending" /\ x.attempts = 0
                           /\ x.recovered = 0
         /\ \A x \in new : \A j \in jobs : j.device = x.device => f[j].state # "pending"
         /\ \A i, x \in new : i.device = x.device => i = x
    BY <1>3, <1>4, <1>5, <1>7
  <1>21. /\ nextId' \in Nat /\ nextId' >= nextId /\ (new # {} => nextId' > nextId)
         /\ jobs \in SUBSET jobs
    BY <1>1, <1>2
  <1>22. /\ \A j \in jobs : /\ f[j] \in Job /\ f[j].id = j.id /\ f[j].device = j.device
                            /\ f[j].attempts <= Attempts + f[j].recovered
                            /\ f[j].state = "pending" => f[j].attempts < Attempts
         /\ \A i, j \in jobs :
                i.device = j.device /\ f[i].state = "pending" /\ f[j].state = "pending" => i = j
    BY <1>2, <1>5, <1>6
  <1> HIDE DEF f, new
  <1>8. jobs' \subseteq Job /\ Distinct' /\ AttemptsBounded' /\ AttemptLeft'
    BY <1>20, <1>21, <1>22, Reshaped, ZenonT(60)
  <1>9. \A w \in Worker : Knows(w)'
    BY <1>1, <1>2, <1>3, KnowsStill
  <1>10. TypeOK'
    <2>1. {changes', upsets'} \subseteq Nat
      BY <1>1 DEF OutboxInv, TypeOK
    <2>2. QED
      BY <1>1, <1>8, <2>1 DEF OutboxInv, TypeOK
  <1>11. JobsMatchSubscription' /\ StatusIsCurrent' /\ Covered'
    BY <1>1, <1>3 DEF OutboxInv, JobsMatchSubscription, StatusIsCurrent,
                      Covered, Undeleted
  <1>12. QED
    BY <1>8, <1>9, <1>10, <1>11 DEF OutboxInv

\* A captured message: the waiting alert of a phone absorbs it, or a new one stands for it.
LEMMA CaptureKeeps ==
    ASSUME PushAssumption, OutboxInv, NEW m \in Message, NEW S \in SUBSET Device, Capture(m, S)
    PROVE  OutboxInv'
  <1> DEFINE served == {d \in S : Subscribed(d)}
             absorbing == UNION {Pending(d) : d \in served}
             fresh == {d \in served : Pending(d) = {}}
             new == {NewJob(d, "inbox", m, nextId, clock + Delay) : d \in fresh}
             f == [j \in jobs |-> IF j \in absorbing THEN Coalesced(j, m) ELSE j]
  <1>1. /\ UNCHANGED <<clock, devices, subscriptions, status, nextGeneration, workers>>
        /\ UNCHANGED <<gone, changes, upsets>> /\ Swallow
        /\ messages[m] = "free" /\ messages' = [messages EXCEPT ![m] = "kept"]
        /\ jobs' = (jobs \ absorbing) \cup {Coalesced(j, m) : j \in absorbing} \cup new
        /\ nextId' = nextId + 1
        /\ owed' = [d \in Device |-> IF d \in served THEN owed[d] \cup {m} ELSE owed[d]]
    BY DEF Capture, Enqueued, counters
  <1>2. /\ clock \in Nat /\ nextId \in Nat /\ jobs \subseteq Job /\ clock + Delay \in Nat
        /\ \A d \in served : d \in Device /\ subscriptions[d] \in Subscription
    BY DEF OutboxInv, TypeOK, Subscribed, PushAssumption
  <1>3. \A k \in new : \E d \in fresh :
            /\ k = NewJob(d, "inbox", m, nextId, clock + Delay)
            /\ k \in Job /\ k.id = nextId /\ k.device = d /\ k.kind = "inbox"
            /\ k.generation = subscriptions[d].generation
            /\ k.state = "pending" /\ k.attempts = 0 /\ k.covers = {m} \ {None}
            /\ k.recovered = 0
    <2>1. "inbox" \in Kind
      BY DEF Kind
    <2>2. QED
      BY <1>2, <2>1, NewRow
  <1>4. ASSUME NEW j \in absorbing
        PROVE  /\ j \in jobs /\ j.device \in served /\ j.state = "pending"
               /\ f[j] = Coalesced(j, m) /\ f[j] \in Job /\ f[j].id = j.id
               /\ f[j].device = j.device /\ f[j].state = j.state
               /\ f[j].generation = subscriptions[j.device].generation
               /\ f[j].attempts = j.attempts /\ f[j].covers = j.covers \cup {m}
               /\ f[j].kind = j.kind
               /\ f[j].recovered = j.recovered
    <2>1. j \in jobs /\ j.device \in served /\ j.state = "pending"
      BY DEF Pending
    <2>2. subscriptions[j.device] \in Subscription /\ j \in Job
      BY <1>2, <2>1
    <2>3. f[j] = Coalesced(j, m)
      BY <2>1
    <2> HIDE DEF f, absorbing, served
    <2>4. QED
      BY <1>2, <2>1, <2>2, <2>3, CoalescedRow
  <1>5. \A j \in jobs \ absorbing : f[j] = j
    OBVIOUS
  <1>6. \A j \in jobs : /\ f[j] \in Job /\ f[j].id = j.id /\ f[j].device = j.device
                        /\ f[j].state = j.state /\ f[j].attempts = j.attempts
                        /\ f[j].generation = j.generation /\ j.covers \subseteq f[j].covers
                        /\ f[j].recovered = j.recovered /\ f[j].kind = j.kind
    <2> HIDE DEF f, absorbing, served
    <2>1. QED
      BY <1>2, <1>4, <1>5 DEF OutboxInv, JobsMatchSubscription
  <1>7. \A d \in Device : \A i \in Pending(d) : i \in jobs /\ i.device = d /\ i.state = "pending"
    BY DEF Pending
  <1>8. \A j \in jobs : j.state = "pending" => j \in Pending(j.device)
    BY DEF Pending
  <1>9. new \subseteq Job /\ \A i, k \in new : i.device = k.device => i = k
    <2> HIDE DEF new, fresh
    <2>1. QED
      BY <1>3
  <1>10. \A k \in new : \A j \in jobs : j.device = k.device => f[j].state # "pending"
    <2>1. \A k \in new : Pending(k.device) = {}
      BY <1>3
    <2> HIDE DEF f, new
    <2>2. QED
      BY <1>6, <1>8, <2>1
  <1>11. jobs' = {f[j] : j \in jobs} \cup new
    <2> HIDE DEF f, absorbing, new
    <2>1. {f[j] : j \in jobs} = {f[j] : j \in jobs \ absorbing} \cup {f[j] : j \in absorbing}
      BY <1>4
    <2>2. {f[j] : j \in jobs \ absorbing} = jobs \ absorbing
      BY <1>5
    <2>3. {f[j] : j \in absorbing} = {Coalesced(j, m) : j \in absorbing}
      BY <1>4
    <2>4. QED
      BY <1>1, <2>1, <2>2, <2>3
  <1> HIDE DEF new, absorbing, f
  <1>12. jobs' \subseteq Job /\ Distinct' /\ AttemptsBounded' /\ AttemptLeft'
    <2>1. \A j \in jobs : /\ f[j] \in Job /\ f[j].id = j.id /\ f[j].device = j.device
                          /\ f[j].attempts <= Attempts + f[j].recovered
                          /\ f[j].state = "pending" => f[j].attempts < Attempts
      BY <1>6 DEF OutboxInv, AttemptsBounded, AttemptLeft
    <2>4. \A i, j \in jobs :
                i.device = j.device /\ f[i].state = "pending" /\ f[j].state = "pending" => i = j
      BY <1>6 DEF OutboxInv, Distinct
    <2>5. /\ nextId' \in Nat /\ nextId' >= nextId /\ (new # {} => nextId' > nextId)
          /\ jobs \in SUBSET jobs
      BY <1>1, <1>2
    <2>2. \A k \in new : k.id = nextId /\ k.state = "pending" /\ k.attempts = 0
                         /\ k.recovered = 0
      BY <1>3
    <2>3. new \in SUBSET Job /\ \A k \in jobs' : k \in new \/ \E j \in jobs : k = f[j]
      BY <1>9, <1>11
    <2>6. QED
      BY <1>9, <1>10, <2>1, <2>2, <2>3, <2>4, <2>5, Reshaped, ZenonT(60)
  <1>13. \A w \in Worker : Knows(w)'
    <2>1. \A k \in jobs' : \/ \E j \in jobs : /\ k.device = j.device /\ k.id = j.id
                                             /\ k.generation = j.generation
                           \/ k.id = nextId
      BY <1>3, <1>6, <1>11
    <2>2. QED
      BY <1>1, <1>2, <2>1, KnowsStill
  <1>14. TypeOK'
    <2>1. owed' \in [Device -> SUBSET Message]
      BY <1>1 DEF OutboxInv, TypeOK
    <2>2. messages' \in [Message -> {"free", "kept", "gone"}]
      BY <1>1 DEF OutboxInv, TypeOK
    <2>3. swallowed' \in [Device -> SUBSET Message]
      BY <1>1, <1>12, SwallowGrows
    <2>4. QED
      BY <1>1, <1>2, <1>12, <2>1, <2>2, <2>3 DEF OutboxInv, TypeOK
  <1>15. JobsMatchSubscription'
    BY <1>1, <1>3, <1>6, <1>11 DEF OutboxInv, JobsMatchSubscription, Subscribed
  <1>16. StatusIsCurrent'
    BY <1>1 DEF OutboxInv, StatusIsCurrent
  <1>17. ASSUME Undeleted', NEW d \in Device, NEW x \in owed'[d] \ swallowed'[d]
         PROVE  \E k \in jobs' : k.device = d /\ k.kind = "inbox" /\ x \in k.covers
    <2>1. /\ Undeleted /\ x \notin swallowed[d]
          /\ \A k \in jobs' : k.device = d /\ x \in k.covers => k.kind = "inbox"
      <3>1. Undeleted
        BY <1>1, <1>17 DEF Undeleted, OutboxInv, TypeOK
      <3>2. /\ swallowed[d] \subseteq swallowed'[d]
            /\ \A k \in jobs' : k.device = d /\ k.kind = "test" => k.covers \subseteq swallowed'[d]
        BY <1>1, <1>12, SwallowGrows
      <3>3. \A k \in jobs' : k.kind = "inbox" \/ k.kind = "test"
        BY <1>12 DEF Job, Kind
      <3>4. QED
        BY <1>17, <3>1, <3>2, <3>3
    <2>2. CASE x \in owed[d]
      BY <1>6, <1>11, <2>1, <2>2 DEF OutboxInv, Covered
    <2>3. CASE x \notin owed[d]
      <3>1. x = m /\ d \in served
        BY <1>1, <2>3, <1>17
      <3>2. CASE Pending(d) = {}
        <4>1. NewJob(d, "inbox", m, nextId, clock + Delay) \in new
          BY <3>1, <3>2 DEF new
        <4>2. /\ NewJob(d, "inbox", m, nextId, clock + Delay).device = d
              /\ NewJob(d, "inbox", m, nextId, clock + Delay).covers = {m} \ {None}
          <5>1. "inbox" \in Kind
            BY DEF Kind
          <5>2. QED
            BY <1>2, <3>1, <5>1, NewRow
        <4>3. QED
          BY <1>11, <2>1, <3>1, <4>1, <4>2 DEF PushAssumption
      <3>3. CASE Pending(d) # {}
        <4>1. PICK j \in Pending(d) : TRUE
          BY <3>3
        <4>2. j \in absorbing /\ j \in jobs /\ j.device = d
          BY <3>1, <4>1, <1>7 DEF absorbing
        <4>3. QED
          BY <1>4, <1>11, <2>1, <3>1, <4>2
      <3>4. QED
        BY <3>2, <3>3
    <2>4. QED
      BY <2>2, <2>3
  <1>18. Covered'
    BY <1>17 DEF Covered
  <1>19. QED
    BY <1>12, <1>13, <1>14, <1>15, <1>16, <1>18 DEF OutboxInv
-----------------------------------------------------------------------------
(* The steps of the workers.                                               *)

\* The loop of a worker with a row in hand.
LEMMA ClaimIsLoop ==
    ASSUME NEW id \in Nat, NEW d \in Device, NEW g \in Nat, NEW k \in Kind, NEW n \in Nat
    PROVE  [Idle EXCEPT !.pc = "check", !.id = id, !.device = d, !.generation = g,
                        !.kind = k, !.attempts = n] \in Loop
  <1>1. Idle \in Loop
    BY DEF Idle, Loop, Kind, OutcomeState
  <1>2. [Idle EXCEPT !.pc = "check", !.id = id] \in Loop
    BY <1>1 DEF Loop
  <1>3. [[Idle EXCEPT !.pc = "check", !.id = id] EXCEPT !.device = d, !.generation = g] \in Loop
    BY <1>2 DEF Loop
  <1>4. [[Idle EXCEPT !.pc = "check", !.id = id, !.device = d, !.generation = g]
            EXCEPT !.kind = k, !.attempts = n] \in Loop
    BY <1>3 DEF Loop
  <1>5. QED
    BY <1>4

\* A claim removes what is outdated, and takes the row it keeps under a new attempt.
LEMMA ClaimPushKeeps ==
    ASSUME PushAssumption, OutboxInv, NEW w \in Worker, ClaimPush(w)
    PROVE  OutboxInv'
  <1>1. /\ UNCHANGED <<clock, messages, devices, subscriptions, status, nextId, nextGeneration>>
        /\ UNCHANGED <<gone, swallowed, changes, upsets>> /\ Waive(Outdated)
    BY DEF ClaimPush, counters
  <1>2. PICK j \in Ready :
            /\ jobs' = (jobs \ (Outdated \cup {j})) \cup {Claimed(j)}
            /\ workers' = [workers EXCEPT
                    ![w] = [Idle EXCEPT !.pc = "check", !.id = j.id, !.device = j.device,
                                        !.generation = j.generation, !.kind = j.kind,
                                        !.attempts = j.attempts + 1]]
    BY DEF ClaimPush
  <1> DEFINE kept == jobs \ Outdated
             f == [i \in jobs |-> IF i = j THEN Claimed(j) ELSE i]
             loop == [Idle EXCEPT !.pc = "check", !.id = j.id, !.device = j.device,
                                  !.generation = j.generation, !.kind = j.kind,
                                  !.attempts = j.attempts + 1]
             n == j.attempts + 1
  <1>3. /\ clock \in Nat /\ nextId \in Nat /\ jobs \subseteq Job /\ Attempts \in Nat
        /\ j \in kept /\ j \in jobs /\ j \in Job /\ kept \in SUBSET jobs
        /\ j.attempts \in Nat /\ j.recovered \in Nat
    BY DEF OutboxInv, TypeOK, PushAssumption, Ready, Job
  <1>4. /\ Claimed(j) \in Job /\ Claimed(j).id = j.id /\ Claimed(j).device = j.device
        /\ Claimed(j).generation = j.generation /\ Claimed(j).state = "running"
        /\ Claimed(j).attempts = n /\ Claimed(j).covers = j.covers /\ Claimed(j).kind = j.kind
        /\ Claimed(j).recovered = IF j.state = "running" THEN j.recovered + 1 ELSE j.recovered
    BY <1>3, ClaimedRow
  <1>5. n \in Nat /\ n <= Attempts + Claimed(j).recovered
    <2>1. CASE j.state = "running"
      BY <1>3, <1>4, <2>1 DEF OutboxInv, AttemptsBounded
    <2>2. CASE j.state # "running"
      <3>1. j.state = "pending"
        BY <1>3, <2>2 DEF Job
      <3>2. QED
        BY <1>3, <1>4, <3>1 DEF OutboxInv, AttemptLeft
    <2>3. QED
      BY <2>1, <2>2
  <1>6. f[j] = Claimed(j) /\ \A i \in jobs : i # j => f[i] = i
    BY <1>3
  <1>7. \A k \in jobs' : \E i \in kept : k = f[i]
    <2> HIDE DEF f
    <2>1. QED
      BY <1>2, <1>3, <1>6
  <1>8. \A i \in kept : f[i] \in jobs'
    <2> HIDE DEF f
    <2>1. QED
      BY <1>2, <1>3, <1>6
  <1> HIDE DEF f, n
  <1>9. \A i \in kept : /\ f[i] \in Job /\ f[i].id = i.id /\ f[i].device = i.device
                        /\ f[i].generation = i.generation /\ f[i].covers = i.covers
                        /\ f[i].kind = i.kind
                        /\ f[i].attempts <= Attempts + f[i].recovered
                        /\ f[i].state = "pending" => f[i].attempts < Attempts
                        /\ f[i].state = "pending" => i.state = "pending"
    <2>1. \A i \in jobs : i.attempts <= Attempts + i.recovered
                           /\ (i.state = "pending" => i.attempts < Attempts)
      BY DEF OutboxInv, AttemptsBounded, AttemptLeft
    <2>2. QED
      BY <1>3, <1>4, <1>5, <1>6, <2>1
  <1>10. jobs' \subseteq Job /\ Distinct' /\ AttemptsBounded' /\ AttemptLeft'
    <2>1. \A i, k \in kept :
                i.device = k.device /\ f[i].state = "pending" /\ f[k].state = "pending" => i = k
      BY <1>3, <1>9 DEF OutboxInv, Distinct
    <2> DEFINE new == {}
    <2>2. /\ new \in SUBSET Job /\ \A k \in jobs' : k \in new \/ \E i \in kept : k = f[i]
          /\ \A k \in new : k.id = nextId /\ k.state = "pending" /\ k.attempts = 0
                            /\ k.recovered = 0
          /\ \A k \in new : \A i \in kept : i.device = k.device => f[i].state # "pending"
          /\ \A i, k \in new : i.device = k.device => i = k
      BY <1>7
    <2>3. nextId' \in Nat /\ nextId' >= nextId /\ (new # {} => nextId' > nextId)
      BY <1>1, <1>3
    <2> HIDE DEF new
    <2>4. kept \in SUBSET jobs
      OBVIOUS
    <2> HIDE DEF kept
    <2>5. \A i \in kept : /\ f[i] \in Job /\ f[i].id = i.id /\ f[i].device = i.device
                          /\ f[i].attempts <= Attempts + f[i].recovered
                          /\ f[i].state = "pending" => f[i].attempts < Attempts
      BY <1>9
    <2>6. QED
      BY <2>1, <2>2, <2>3, <2>4, <2>5, Reshaped, ZenonT(60)
  <1>11. \A k \in jobs' : \E i \in jobs : /\ k.device = i.device /\ k.id = i.id
                                         /\ k.generation = i.generation
    BY <1>3, <1>7, <1>9
  <1>12. /\ loop.pc = "check" /\ loop.id = j.id /\ loop.device = j.device
         /\ loop.generation = j.generation
         /\ workers'[w] = loop /\ \A v \in Worker : v # w => workers'[v] = workers[v]
    BY <1>2 DEF Idle, OutboxInv, TypeOK
  <1>13. loop \in Loop
    <2>1. /\ j.id \in Nat /\ j.device \in Device /\ j.generation \in Nat /\ n \in Nat
          /\ j.kind \in Kind
      BY <1>3, <1>5 DEF Job
    <2>2. QED
      BY <2>1, ClaimIsLoop DEF n
  <1> HIDE DEF loop
  <1>14. Knows(w)'
    <2>1. j.device \in Device /\ j.id < nextId'
      BY <1>1, <1>3 DEF Job, OutboxInv, Distinct
    <2>2. ASSUME NEW k \in jobs', k.device = j.device, k.id = j.id
          PROVE  k.generation = j.generation
      BY <1>3, <1>11, <2>2 DEF OutboxInv, Distinct
    <2>3. QED
      BY <1>12, <2>1, <2>2 DEF Knows
  <1>15. \A v \in Worker : Knows(v)'
    <2>1. nextId' \in Nat /\ nextId' >= nextId /\ gone \subseteq gone'
      BY <1>1, <1>3
    <2>2. ASSUME NEW v \in Worker, v # w
          PROVE  Knows(v)'
      BY <1>11, <1>12, <2>1, <2>2, KnowsStill
    <2>3. QED
      BY <1>14, <2>2
  <1>16. Covered' /\ owed' \in [Device -> SUBSET Message]
    <2>1. /\ owed \in [Device -> SUBSET Message]
          /\ owed' = [d \in Device |-> owed[d] \ UNION {i.covers : i \in OfDevice(Outdated, d)}]
      BY <1>1 DEF OutboxInv, TypeOK, Waive
    <2>2. ASSUME Undeleted', NEW d \in Device, NEW m \in owed'[d] \ swallowed'[d]
          PROVE  \E k \in jobs' : k.device = d /\ k.kind = "inbox" /\ m \in k.covers
      <3>1. m \in owed[d] \ swallowed[d] /\ m \notin UNION {i.covers : i \in OfDevice(Outdated, d)}
        BY <1>1, <2>1, <2>2
      <3>2. Undeleted
        BY <1>1, <2>2 DEF Undeleted
      <3>3. PICK i \in jobs : i.device = d /\ i.kind = "inbox" /\ m \in i.covers
        BY <3>1, <3>2 DEF OutboxInv, Covered
      <3>4. i \in kept
        BY <3>1, <3>3 DEF OfDevice
      <3>5. QED
        BY <1>8, <1>9, <3>3, <3>4
    <2>3. QED
      BY <2>1, <2>2 DEF Covered
  <1>17. TypeOK'
    <2>1. workers' \in [Worker -> Loop]
      BY <1>12, <1>13, <1>2 DEF OutboxInv, TypeOK, loop
    <2>2. QED
      BY <1>1, <1>10, <1>16, <2>1 DEF OutboxInv, TypeOK
  <1>18. JobsMatchSubscription'
    BY <1>1, <1>3, <1>7, <1>9 DEF OutboxInv, JobsMatchSubscription
  <1>19. StatusIsCurrent'
    BY <1>1 DEF OutboxInv, StatusIsCurrent
  <1>20. QED
    BY <1>10, <1>15, <1>16, <1>17, <1>18, <1>19 DEF OutboxInv

LEMMA ClaimNothingKeeps ==
    ASSUME OutboxInv, NEW w \in Worker, ClaimNothing(w)
    PROVE  OutboxInv'
  <1>1. /\ UNCHANGED <<clock, messages, devices, subscriptions, status, nextId, nextGeneration>>
        /\ UNCHANGED <<workers, gone, swallowed, changes, upsets>>
        /\ jobs' = jobs \ Outdated /\ Waive(Outdated) /\ Outdated \subseteq jobs
    BY DEF ClaimNothing, counters, Outdated
  <1>2. Covered' /\ owed' \in [Device -> SUBSET Message]
    BY <1>1, WaivedStaysCovered
  <1>3. jobs' \subseteq Job /\ Distinct' /\ AttemptsBounded' /\ AttemptLeft'
    BY <1>1, Shrinks DEF OutboxInv, TypeOK
  <1>4. \A v \in Worker : Knows(v)'
    BY <1>1, KnowsStill DEF OutboxInv, TypeOK
  <1>5. TypeOK'
    BY <1>1, <1>2, <1>3 DEF OutboxInv, TypeOK
  <1>6. JobsMatchSubscription' /\ StatusIsCurrent'
    BY <1>1 DEF OutboxInv, JobsMatchSubscription, StatusIsCurrent
  <1>7. QED
    BY <1>2, <1>3, <1>4, <1>5, <1>6 DEF OutboxInv

\* A step of one worker that leaves the outbox alone.
LEMMA WorkerAlone ==
    ASSUME OutboxInv, NEW w \in Worker, NEW loop \in Loop,
           workers' = [workers EXCEPT ![w] = loop],
           loop.pc # "idle" => /\ workers[w].pc # "idle" /\ loop.id = workers[w].id
                               /\ loop.device = workers[w].device
                               /\ loop.generation = workers[w].generation,
           loop.pc = "finish" /\ loop.state = "expired" => loop.generation \in gone',
           loop.pc = "finish" /\ loop.state = "retrying" => loop.attempts < Attempts,
           UNCHANGED <<clock, messages, devices, rows, swallowed, changes>>,
           gone \subseteq gone', gone' \subseteq Nat, upsets' \in Nat,
           owed' \in [Device -> SUBSET Message], \A d \in Device : owed'[d] \subseteq owed[d]
    PROVE  OutboxInv'
  <1>1. /\ UNCHANGED <<clock, messages, devices, subscriptions, jobs, status, nextId>>
        /\ UNCHANGED <<nextGeneration, swallowed, changes>>
    BY DEF rows
  <1>2. /\ workers'[w] = loop /\ workers' \in [Worker -> Loop]
        /\ \A v \in Worker : v # w => workers'[v] = workers[v]
    BY DEF OutboxInv, TypeOK
  <1>3. TypeOK'
    <2>1. {changes', upsets'} \subseteq Nat
      BY <1>1 DEF OutboxInv, TypeOK
    <2>2. QED
      BY <1>1, <1>2, <2>1 DEF OutboxInv, TypeOK
  <1>4. Knows(w)'
    <2>1. Knows(w)
      BY DEF OutboxInv
    <2>2. QED
      BY <1>1, <1>2, <2>1 DEF Knows
  <1>5. ASSUME NEW v \in Worker, v # w
        PROVE  Knows(v)'
    <2>1. Knows(v)
      BY DEF OutboxInv
    <2>2. QED
      BY <1>1, <1>2, <1>5, <2>1 DEF Knows
  <1>6. Covered'
    BY <1>1 DEF OutboxInv, Covered, Undeleted
  <1>7. QED
    BY <1>1, <1>3, <1>4, <1>5, <1>6 DEF OutboxInv, Distinct, JobsMatchSubscription,
           StatusIsCurrent, AttemptsBounded, AttemptLeft
LEMMA CrashKeeps ==
    ASSUME OutboxInv, NEW w \in Worker, Crash(w)
    PROVE  OutboxInv'
  <1>1. /\ workers' = [workers EXCEPT ![w] = Idle] /\ upsets' = upsets + 1
        /\ UNCHANGED <<clock, messages, devices, rows, swallowed, changes>>
        /\ UNCHANGED <<owed, gone>>
    BY DEF Crash, history
  <1>2. Idle \in Loop /\ Idle.pc = "idle"
    BY DEF Idle, Loop, Kind, OutcomeState
  <1>3. upsets' \in Nat /\ gone' \subseteq Nat /\ owed' \in [Device -> SUBSET Message]
    BY <1>1 DEF OutboxInv, TypeOK
  <1>4. QED
    BY <1>1, <1>2, <1>3, WorkerAlone

LEMMA CheckKeeps ==
    ASSUME OutboxInv, NEW w \in Worker, Check(w)
    PROVE  OutboxInv'
  <1>1. /\ UNCHANGED <<clock, messages, devices, rows, swallowed, changes>>
        /\ UNCHANGED <<owed, gone, upsets>> /\ workers[w].pc = "check" /\ workers[w] \in Loop
    BY DEF Check, history, counters, OutboxInv, TypeOK
  <1>2. upsets' \in Nat /\ gone' \subseteq Nat /\ owed' \in [Device -> SUBSET Message]
    BY <1>1 DEF OutboxInv, TypeOK
  <1>3. ASSUME NEW state \in {"cancelled", "failed"}, workers' = Ends(w, state)
        PROVE  OutboxInv'
    <2> DEFINE loop == [workers[w] EXCEPT !.pc = "finish", !.state = state]
    <2>1. /\ loop \in Loop /\ loop.pc = "finish" /\ loop.state = state
          /\ loop.id = workers[w].id /\ loop.device = workers[w].device
          /\ loop.generation = workers[w].generation
      BY <1>1 DEF Loop, OutcomeState
    <2>2. workers' = [workers EXCEPT ![w] = loop]
      BY <1>3 DEF Ends
    <2> HIDE DEF loop
    <2>3. QED
      BY <1>1, <1>2, <2>1, <2>2, WorkerAlone
  <1>4. ASSUME workers' = [workers EXCEPT ![w].pc = "post"]
        PROVE  OutboxInv'
    <2> DEFINE loop == [workers[w] EXCEPT !.pc = "post"]
    <2>1. /\ loop \in Loop /\ loop.pc = "post"
          /\ loop.id = workers[w].id /\ loop.device = workers[w].device
          /\ loop.generation = workers[w].generation
      BY <1>1 DEF Loop
    <2>2. workers' = [workers EXCEPT ![w] = loop]
      BY <1>4
    <2> HIDE DEF loop
    <2>3. QED
      BY <1>1, <1>2, <2>1, <2>2, WorkerAlone
  <1>5. QED
    BY <1>3, <1>4 DEF Check

LEMMA PostKeeps ==
    ASSUME PushAssumption, OutboxInv, NEW w \in Worker, Post(w)
    PROVE  OutboxInv'
  <1>1. /\ UNCHANGED <<clock, messages, devices, rows, swallowed, changes>>
        /\ UNCHANGED upsets /\ workers[w].pc = "post" /\ workers[w] \in Loop
        /\ workers[w].generation \in Nat /\ workers[w].attempts \in Nat
    BY DEF Post, counters, OutboxInv, TypeOK, Loop
  <1>2. PICK answer \in {"accepted", "expired", "retrying", "failed"}, wait \in Waits :
            /\ workers' = [workers EXCEPT
                    ![w] = [@ EXCEPT !.pc = "finish", !.wait = wait,
                                     !.state = Verdict(answer, workers[w].attempts)]]
            /\ gone' = IF answer = "expired" THEN gone \cup {workers[w].generation} ELSE gone
            /\ owed' = IF /\ answer = "accepted" /\ workers[w].kind = "inbox"
                          /\ InForce(workers[w].device, workers[w].generation)
                       THEN [owed EXCEPT ![workers[w].device] = {}] ELSE owed
    BY DEF Post
  <1> DEFINE verdict == Verdict(answer, workers[w].attempts)
             loop == [workers[w] EXCEPT !.pc = "finish", !.wait = wait, !.state = verdict]
  <1>3. /\ verdict \in OutcomeState /\ (verdict = "expired" => answer = "expired")
        /\ (verdict = "retrying" => workers[w].attempts < Attempts) /\ wait \in Nat
    BY <1>1 DEF Verdict, OutcomeState, PushAssumption
  <1>4. workers' = [workers EXCEPT ![w] = loop]
    BY <1>2
  <1> HIDE DEF verdict
  <1>5. [workers[w] EXCEPT !.pc = "finish", !.wait = wait] \in Loop
    BY <1>1, <1>3 DEF Loop
  <1>6. /\ loop \in Loop /\ loop.pc = "finish" /\ loop.state = verdict
        /\ loop.id = workers[w].id /\ loop.device = workers[w].device
        /\ loop.generation = workers[w].generation /\ loop.attempts = workers[w].attempts
    BY <1>1, <1>3, <1>5 DEF Loop
  <1> HIDE DEF loop
  <1>7. /\ upsets' \in Nat /\ gone \subseteq gone' /\ gone' \subseteq Nat
        /\ (verdict = "expired" => workers[w].generation \in gone')
    BY <1>1, <1>2, <1>3 DEF OutboxInv, TypeOK
  <1>8. owed' \in [Device -> SUBSET Message] /\ \A d \in Device : owed'[d] \subseteq owed[d]
    BY <1>2 DEF OutboxInv, TypeOK
  <1>9. QED
    BY <1>1, <1>3, <1>4, <1>6, <1>7, <1>8, WorkerAlone

\* The outcome of an attempt that is to be made again.
LEMMA RetryKeeps ==
    ASSUME PushAssumption, OutboxInv, NEW w \in Worker, NEW j \in jobs, NEW wait \in Nat,
           j.attempts < Attempts,
           jobs' = Retried(j, wait), Swallow,
           UNCHANGED <<nextId, owed, subscriptions, messages>>
    PROVE  /\ jobs' \subseteq Job /\ Distinct' /\ AttemptsBounded' /\ AttemptLeft'
           /\ swallowed' \in [Device -> SUBSET Message] /\ Covered' /\ JobsMatchSubscription'
           /\ \A k \in jobs' : \E i \in jobs : /\ k.device = i.device /\ k.id = i.id
                                              /\ k.generation = i.generation
  <1> DEFINE kept == IF Newer(j) # {} THEN jobs \ {j} ELSE jobs
             f == [i \in jobs |-> IF i \in Newer(j) THEN Merged(i, j)
                                  ELSE IF i = j THEN Postponed(j, wait) ELSE i]
             new == {}
  <1>1. /\ clock \in Nat /\ nextId \in Nat /\ jobs \subseteq Job /\ j \in Job
        /\ kept \in SUBSET jobs /\ j \notin Newer(j)
        /\ Newer(j) = {i \in jobs : i # j /\ i.device = j.device /\ i.state = "pending"}
    BY DEF OutboxInv, TypeOK, Newer, Pending
  <1>2. f[j] = Postponed(j, wait) /\ \A i \in Newer(j) : f[i] = Merged(i, j)
    BY <1>1
  <1>3. \A i \in jobs \ (Newer(j) \cup {j}) : f[i] = i
    OBVIOUS
  <1> HIDE DEF f
  <1>4. /\ f[j] \in Job /\ f[j].id = j.id /\ f[j].device = j.device
        /\ f[j].generation = j.generation /\ f[j].state = "pending"
        /\ f[j].attempts = j.attempts /\ f[j].covers = j.covers /\ f[j].recovered = j.recovered
        /\ f[j].kind = j.kind
    BY <1>1, <1>2, PostponedRow
  <1>5. \A i \in jobs : i # j =>
            /\ f[i] \in Job /\ f[i].id = i.id /\ f[i].device = i.device
            /\ f[i].generation = i.generation /\ f[i].state = i.state
            /\ f[i].attempts = i.attempts /\ i.covers \subseteq f[i].covers
            /\ f[i].recovered = i.recovered /\ f[i].kind = i.kind
            /\ i \in Newer(j) => j.covers \subseteq f[i].covers
    BY <1>1, <1>2, <1>3, MergedRow
  <1>6. \A k \in jobs' : \E i \in kept : k = f[i]
    <2>1. CASE Newer(j) # {}
      BY <1>1, <1>2, <1>3, <2>1 DEF Retried
    <2>2. CASE Newer(j) = {}
      BY <1>1, <1>2, <1>3, <2>2 DEF Retried
    <2>3. QED
      BY <2>1, <2>2
  <1>7. \A i \in kept : f[i] \in jobs'
    <2>1. CASE Newer(j) # {}
      BY <1>1, <1>2, <1>3, <2>1 DEF Retried
    <2>2. CASE Newer(j) = {}
      BY <1>1, <1>2, <1>3, <2>2 DEF Retried
    <2>3. QED
      BY <2>1, <2>2
  <1>8. jobs' \subseteq Job /\ Distinct' /\ AttemptsBounded' /\ AttemptLeft'
    <2>1. \A i \in kept : /\ f[i] \in Job /\ f[i].id = i.id /\ f[i].device = i.device
                          /\ f[i].attempts <= Attempts + f[i].recovered
                          /\ f[i].state = "pending" => f[i].attempts < Attempts
      BY <1>1, <1>4, <1>5 DEF OutboxInv, AttemptsBounded, AttemptLeft
    <2>2. \A i, k \in kept :
                i.device = k.device /\ f[i].state = "pending" /\ f[k].state = "pending" => i = k
      <3>1. CASE Newer(j) # {}
        BY <1>5, <3>1 DEF OutboxInv, Distinct
      <3>2. CASE Newer(j) = {}
        BY <1>1, <1>4, <1>5, <3>2 DEF OutboxInv, Distinct
      <3>3. QED
        BY <3>1, <3>2
    <2>3. /\ new \in SUBSET Job /\ \A k \in jobs' : k \in new \/ \E i \in kept : k = f[i]
          /\ \A k \in new : k.id = nextId /\ k.state = "pending" /\ k.attempts = 0
                            /\ k.recovered = 0
          /\ \A k \in new : \A i \in kept : i.device = k.device => f[i].state # "pending"
          /\ \A i, k \in new : i.device = k.device => i = k
      BY <1>6
    <2>4. /\ nextId' \in Nat /\ nextId' >= nextId /\ (new # {} => nextId' > nextId)
          /\ kept \in SUBSET jobs
      BY <1>1
    <2> HIDE DEF kept, new
    <2>5. QED
      BY <2>1, <2>2, <2>3, <2>4, Reshaped, ZenonT(60)
  <1>9. \A k \in jobs' : \E i \in jobs : /\ k.device = i.device /\ k.id = i.id
                                        /\ k.generation = i.generation
    BY <1>4, <1>5, <1>6
  <1>10. JobsMatchSubscription'
    BY <1>9 DEF OutboxInv, JobsMatchSubscription
  <1>11. /\ swallowed' \in [Device -> SUBSET Message]
         /\ \A d \in Device : swallowed[d] \subseteq swallowed'[d]
         /\ \A d \in Device : \A k \in jobs' :
                k.device = d /\ k.kind = "test" => k.covers \subseteq swallowed'[d]
    BY <1>8, SwallowGrows
  <1>12. ASSUME Undeleted', NEW d \in Device, NEW m \in owed'[d] \ swallowed'[d]
         PROVE  \E k \in jobs' : k.device = d /\ k.kind = "inbox" /\ m \in k.covers
    <2>0. \A k \in jobs' : k.device = d /\ m \in k.covers => k.kind = "inbox"
      <3>1. \A k \in jobs' : k.kind = "inbox" \/ k.kind = "test"
        BY <1>8 DEF Job, Kind
      <3>2. QED
        BY <1>11, <1>12, <3>1
    <2>1. PICK i \in jobs : i.device = d /\ i.kind = "inbox" /\ m \in i.covers
      BY <1>11, <1>12 DEF OutboxInv, Covered, Undeleted
    <2>2. CASE i \in kept
      BY <1>4, <1>5, <1>7, <2>1, <2>2
    <2>3. CASE i \notin kept
      <3>1. i = j /\ Newer(j) # {}
        BY <2>1, <2>3
      <3>2. PICK n \in Newer(j) : TRUE
        BY <3>1
      <3>3. n \in kept /\ n # j /\ n.device = j.device /\ n \in jobs
        BY <1>1, <3>1
      <3>4. QED
        BY <1>5, <1>7, <2>0, <2>1, <3>1, <3>2, <3>3
    <2>4. QED
      BY <2>2, <2>3
  <1>13. Covered'
    BY <1>12 DEF Covered
  <1>14. QED
    BY <1>8, <1>9, <1>10, <1>11, <1>13
\* A worker that is done, while rows keep their generations.
LEMMA WorkerDone ==
    ASSUME OutboxInv, NEW w \in Worker, workers' = [workers EXCEPT ![w] = Idle],
           UNCHANGED <<nextId, gone>>,
           \A k \in jobs' : \E i \in jobs : /\ k.device = i.device /\ k.id = i.id
                                           /\ k.generation = i.generation
    PROVE  workers' \in [Worker -> Loop] /\ \A v \in Worker : Knows(v)'
  <1>1. Idle \in Loop
    BY DEF Idle, Loop, Kind, OutcomeState
  <1>2. \A v \in Worker : workers'[v] = workers[v] \/ workers'[v] = Idle
    BY DEF OutboxInv, TypeOK
  <1>3. nextId' \in Nat /\ nextId' >= nextId /\ gone \subseteq gone'
    BY DEF OutboxInv, TypeOK
  <1>4. \A v \in Worker : Knows(v)'
    BY <1>2, <1>3, KnowsStill
  <1>5. QED
    BY <1>1, <1>4 DEF OutboxInv, TypeOK

\* A late outcome, and one that counts: retried, final, or the end of the subscription.
LEMMA FinishPushKeeps ==
    ASSUME PushAssumption, OutboxInv, NEW w \in Worker, FinishPush(w)
    PROVE  OutboxInv'
  <1> DEFINE loop == workers[w]
             d == loop.device
             current == {j \in InHand(w) : InForce(j.device, j.generation)}
  <1>1. /\ UNCHANGED <<clock, messages, devices, nextId, nextGeneration, gone>>
        /\ UNCHANGED <<changes, upsets>> /\ workers' = [workers EXCEPT ![w] = Idle]
        /\ loop.pc = "finish"
    BY DEF FinishPush, counters
  <1>2. /\ InHand(w) \subseteq jobs /\ loop \in Loop /\ d \in Device
        /\ loop.generation \in Nat /\ loop.wait \in Nat /\ loop.state \in OutcomeState
        /\ \A i, k \in InHand(w) : i = k
        /\ \A i \in InHand(w) : /\ i.device = d /\ i.attempts = loop.attempts
                                /\ i.generation = loop.generation
    <2>1. InHand(w) \subseteq jobs /\ loop \in Loop
      BY DEF InHand, OutboxInv, TypeOK
    <2>2. Knows(w)
      BY DEF OutboxInv
    <2>3. \A i \in InHand(w) : /\ i.device = d /\ i.id = loop.id /\ i.attempts = loop.attempts
                               /\ i \in jobs
      BY DEF InHand
    <2>4. QED
      BY <1>1, <2>1, <2>2, <2>3 DEF Knows, OutboxInv, Distinct, Loop
  <1>3. CASE current = {}
    <2>1. /\ jobs' = jobs \ InHand(w) /\ Waive(InHand(w))
          /\ UNCHANGED <<subscriptions, status, swallowed>>
      BY <1>3 DEF FinishPush
    <2>2. Covered' /\ owed' \in [Device -> SUBSET Message]
      BY <1>1, <1>2, <2>1, WaivedStaysCovered
    <2>3. jobs' \subseteq Job /\ Distinct' /\ AttemptsBounded' /\ AttemptLeft'
      BY <1>1, <2>1, Shrinks DEF OutboxInv, TypeOK
    <2>4. workers' \in [Worker -> Loop] /\ \A v \in Worker : Knows(v)'
      BY <1>1, <2>1, WorkerDone
    <2>5. TypeOK'
      BY <1>1, <2>1, <2>2, <2>3, <2>4 DEF OutboxInv, TypeOK
    <2>6. JobsMatchSubscription' /\ StatusIsCurrent'
      BY <1>1, <2>1 DEF OutboxInv, JobsMatchSubscription, StatusIsCurrent
    <2>7. QED
      BY <2>2, <2>3, <2>4, <2>5, <2>6 DEF OutboxInv
  <1>4. CASE current # {}
    <2>1. PICK j \in InHand(w) : InForce(j.device, j.generation)
      BY <1>4
    <2>2. /\ j \in jobs /\ j.device = d /\ j.generation = loop.generation
          /\ j.attempts = loop.attempts /\ current = {j} /\ InHand(w) = {j}
          /\ subscriptions[d].generation = loop.generation
      BY <1>2, <2>1 DEF InForce
    <2>3. /\ status' = [status EXCEPT ![d] = [state |-> loop.state, generation |-> loop.generation]]
          /\ subscriptions' = IF loop.state = "expired"
                              THEN Unsubscribed(d, loop.generation) ELSE subscriptions
          /\ \/ /\ loop.state = "retrying"
                /\ jobs' = UNION {Retried(i, loop.wait) : i \in current}
                /\ Swallow /\ UNCHANGED owed
             \/ /\ loop.state # "retrying"
                /\ jobs' = jobs \ Ending(w)
                /\ Waive(Ended(w)) /\ UNCHANGED swallowed
      BY <1>4 DEF FinishPush
    <2>4. status' \in [Device -> Status] /\ status'[d].generation = loop.generation
          /\ \A x \in Device : x # d => status'[x] = status[x]
      <3>1. [state |-> loop.state, generation |-> loop.generation] \in Status
        BY <1>2 DEF Status
      <3>2. QED
        BY <1>2, <2>3, <3>1 DEF OutboxInv, TypeOK
    <2>5. CASE loop.state = "retrying"
      <3>1. /\ jobs' = Retried(j, loop.wait) /\ Swallow /\ UNCHANGED <<owed, subscriptions>>
        <4>1. /\ jobs' = UNION {Retried(i, loop.wait) : i \in {j}}
              /\ Swallow /\ UNCHANGED <<owed, subscriptions>>
          BY <2>2, <2>3, <2>5
        <4>2. UNION {Retried(i, loop.wait) : i \in {j}} = Retried(j, loop.wait)
          OBVIOUS
        <4>3. QED
          BY <4>1, <4>2
      <3>2. j.attempts < Attempts
        BY <1>1, <2>2, <2>5 DEF OutboxInv, Knows
      <3>3. /\ jobs' \subseteq Job /\ Distinct' /\ AttemptsBounded' /\ AttemptLeft'
            /\ swallowed' \in [Device -> SUBSET Message] /\ Covered' /\ JobsMatchSubscription'
            /\ \A k \in jobs' : \E i \in jobs : /\ k.device = i.device /\ k.id = i.id
                                               /\ k.generation = i.generation
        BY <1>1, <1>2, <2>1, <2>2, <3>1, <3>2, RetryKeeps
      <3>4. workers' \in [Worker -> Loop] /\ \A v \in Worker : Knows(v)'
        BY <1>1, <3>3, WorkerDone
      <3>5. TypeOK'
        BY <1>1, <2>4, <3>1, <3>3, <3>4 DEF OutboxInv, TypeOK
      <3>6. StatusIsCurrent'
        BY <1>1, <2>2, <2>4, <3>1 DEF OutboxInv, StatusIsCurrent
      <3>7. QED
        BY <3>3, <3>4, <3>5, <3>6 DEF OutboxInv
    <2>6. CASE loop.state # "retrying"
      <3>1. /\ jobs' = jobs \ Ending(w) /\ Ending(w) \subseteq jobs
            /\ Waive(Ended(w)) /\ UNCHANGED swallowed
            /\ \A i \in Ending(w) : i.kind = "inbox" => i \in Ended(w)
        BY <1>2, <2>3, <2>6 DEF Ending, Ended, OfDevice
      <3>2. Covered' /\ owed' \in [Device -> SUBSET Message]
        BY <1>1, <3>1, WaivedStaysCovered
      <3>3. jobs' \subseteq Job /\ Distinct' /\ AttemptsBounded' /\ AttemptLeft'
        BY <1>1, <3>1, Shrinks DEF OutboxInv, TypeOK
      <3>4. workers' \in [Worker -> Loop] /\ \A v \in Worker : Knows(v)'
        BY <1>1, <3>1, WorkerDone
      <3>5. CASE loop.state = "expired"
        <4>1. /\ subscriptions' = Unsubscribed(d, loop.generation)
              /\ Ending(w) = {i \in jobs : i.device = d /\ i.generation = loop.generation}
          BY <2>3, <3>5 DEF Ending, OfDevice
        <4>2. \A x \in Device : subscriptions'[x] = None \/ subscriptions'[x] = subscriptions[x]
          BY <4>1 DEF Unsubscribed
        <4>3. /\ subscriptions' \in [Device -> Subscription \cup {None}]
              /\ subscriptions'[d] = None
              /\ \A x \in Device : x # d => subscriptions'[x] = subscriptions[x]
          <5>1. /\ subscriptions \in [Device -> Subscription \cup {None}]
                /\ subscriptions' = [x \in Device |->
                        IF x = d /\ subscriptions[x] # None
                                 /\ subscriptions[x].generation = loop.generation
                        THEN None ELSE subscriptions[x]]
            BY <4>1 DEF Unsubscribed, OutboxInv, TypeOK
          <5>2. QED
            BY <1>2, <2>2, <4>2, <5>1
        <4>5. \A i \in jobs' : i.device # d
          BY <2>2, <3>1, <4>1 DEF OutboxInv, JobsMatchSubscription
        <4>6. JobsMatchSubscription'
          BY <3>1, <3>3, <4>3, <4>5 DEF OutboxInv, JobsMatchSubscription, Job
        <4>7. StatusIsCurrent'
          BY <2>4, <4>3 DEF OutboxInv, StatusIsCurrent
        <4>8. TypeOK'
          BY <1>1, <2>4, <3>1, <3>2, <3>3, <3>4, <4>3 DEF OutboxInv, TypeOK
        <4>9. QED
          BY <3>2, <3>3, <3>4, <4>6, <4>7, <4>8 DEF OutboxInv
      <3>6. CASE loop.state # "expired"
        <4>1. UNCHANGED subscriptions
          BY <2>3, <3>6
        <4>2. JobsMatchSubscription'
          BY <1>1, <3>1, <4>1 DEF OutboxInv, JobsMatchSubscription
        <4>3. StatusIsCurrent'
          BY <2>2, <2>4, <4>1 DEF OutboxInv, StatusIsCurrent
        <4>4. TypeOK'
          BY <1>1, <2>4, <3>1, <3>2, <3>3, <3>4, <4>1 DEF OutboxInv, TypeOK
        <4>5. QED
          BY <3>2, <3>3, <3>4, <4>2, <4>3, <4>4 DEF OutboxInv
      <3>7. QED
        BY <3>5, <3>6
    <2>7. QED
      BY <2>5, <2>6
  <1>5. QED
    BY <1>3, <1>4

-----------------------------------------------------------------------------
(* The theorems.                                                           *)

LEMMA InitHolds ==
    ASSUME PushAssumption, Init
    PROVE  OutboxInv
  <1>1. NoStatus \in Status /\ Idle \in Loop /\ Idle.pc = "idle"
    BY DEF NoStatus, Status, Idle, Loop, Kind, OutcomeState
  <1>2. TypeOK
    BY <1>1 DEF Init, TypeOK
  <1>3. QED
    BY <1>1, <1>2 DEF Init, OutboxInv, Distinct, JobsMatchSubscription, StatusIsCurrent, Knows,
                      AttemptsBounded, AttemptLeft, Covered

LEMMA StepKeeps ==
    ASSUME PushAssumption, OutboxInv, [Next]_vars
    PROVE  OutboxInv'
  <1>1. ASSUME NEW m \in Message, DeleteMessage(m)
        PROVE  OutboxInv'
    BY <1>1, DeleteMessageKeeps
  <1>2. ASSUME NEW m \in Message, NEW S \in SUBSET Device, Capture(m, S)
        PROVE  OutboxInv'
    BY <1>2, CaptureKeeps
  <1>3. ASSUME NEW d \in Device, Phone(d)
        PROVE  OutboxInv'
    BY <1>3, QueuePushTestKeeps, DeletePushSubscriptionKeeps, EndSessionKeeps,
       PutPushSubscriptionKeeps DEF Phone
  <1>4. ASSUME NEW w \in Worker, Step(w) \/ Crash(w)
        PROVE  OutboxInv'
    BY <1>4, ClaimPushKeeps, ClaimNothingKeeps, CheckKeeps, PostKeeps, FinishPushKeeps,
       CrashKeeps DEF Step
  <1>5. CASE Tick
    BY <1>5, TickKeeps
  <1>6. CASE UNCHANGED vars
    <2>1. /\ UNCHANGED <<clock, messages, devices, subscriptions, jobs, status, nextId>>
          /\ UNCHANGED <<nextGeneration, workers, owed, gone, swallowed, changes, upsets>>
      BY <1>6 DEF vars, rows, history, counters
    <2>2. TypeOK'
      BY <2>1 DEF OutboxInv, TypeOK
    <2>3. \A w \in Worker : Knows(w)'
      BY <2>1 DEF OutboxInv, Knows
    <2>4. QED
      BY <2>1, <2>2, <2>3 DEF OutboxInv, Distinct, JobsMatchSubscription, StatusIsCurrent,
             AttemptsBounded, AttemptLeft, Covered, Undeleted
  <1>7. QED
    BY <1>1, <1>2, <1>3, <1>4, <1>5, <1>6 DEF Next

\* The invariant holds of the outbox: push.go and worker.go together.
THEOREM OutboxInvariant == Spec => []OutboxInv
  <1>1. Init => OutboxInv
    BY PushAssumption, InitHolds
  <1>2. OutboxInv /\ [Next]_vars => OutboxInv'
    BY PushAssumption, StepKeeps
  <1>3. QED
    BY <1>1, <1>2, PTL DEF Spec

\* Every variable keeps its type.
THEOREM OutboxTyped == Spec => []TypeOK
  <1>1. OutboxInv => TypeOK
    BY DEF OutboxInv
  <1>2. QED
    BY <1>1, OutboxInvariant, PTL

\* No statement runs into the unique index push_pending_device: captures coalesce and a
\* retry that would wait beside a newer alert is taken over by it.
THEOREM OneAlertWaits == Spec => []OnePending
  <1>1. ASSUME OutboxInv, NEW d \in Device
        PROVE  Cardinality(Pending(d)) <= 1
    <2>1. \A i, j \in Pending(d) : i = j
      BY <1>1 DEF OutboxInv, Distinct, Pending
    <2>2. CASE Pending(d) = {}
      BY <2>2, FS_EmptySet
    <2>3. CASE Pending(d) # {}
      <3>1. PICK j \in Pending(d) : TRUE
        BY <2>3
      <3>2. Pending(d) = {j}
        BY <2>1, <3>1
      <3>3. QED
        BY <3>2, FS_Singleton
    <2>4. QED
      BY <2>2, <2>3
  <1>2. OutboxInv => OnePending
    BY <1>1 DEF OnePending
  <1>3. QED
    BY <1>2, OutboxInvariant, PTL

\* However often an endpoint moves between pairings, nothing of an earlier subscription
\* stays in the outbox.
THEOREM NothingForeignQueued == Spec => []JobsMatchSubscription
  <1>1. OutboxInv => JobsMatchSubscription
    BY DEF OutboxInv
  <1>2. QED
    BY <1>1, OutboxInvariant, PTL

\* A late answer of the push service never overwrites the diagnostic of a newer subscription.
THEOREM DiagnosticIsCurrent == Spec => []StatusIsCurrent
  <1>1. OutboxInv => StatusIsCurrent
    BY DEF OutboxInv
  <1>2. QED
    BY <1>1, OutboxInvariant, PTL

\* Only FinishPush changes the workers and the subscriptions, and the subscription it
\* removes has the generation that the push service answered for.
LEMMA WorkersDropOnlyGone ==
    ASSUME OutboxInv, [Next]_vars, NEW d \in Device, workers' # workers,
           subscriptions'[d] # subscriptions[d]
    PROVE  subscriptions'[d] = None /\ subscriptions[d].generation \in gone
  <1>1. ASSUME NEW w \in Worker, FinishPush(w)
        PROVE  subscriptions'[d] = None /\ subscriptions[d].generation \in gone
    <2>1. /\ workers[w].pc = "finish" /\ workers[w].state = "expired"
          /\ subscriptions' = Unsubscribed(workers[w].device, workers[w].generation)
      BY <1>1 DEF FinishPush
    <2>2. workers[w].generation \in gone
      BY <2>1 DEF OutboxInv, Knows
    <2>3. subscriptions'[d] = None /\ subscriptions[d].generation = workers[w].generation
      BY <2>1 DEF Unsubscribed
    <2>4. QED
      BY <2>2, <2>3
  <1>2. ASSUME NEW w \in Worker,
               ClaimPush(w) \/ ClaimNothing(w) \/ Check(w) \/ Post(w) \/ Crash(w)
        PROVE  FALSE
    BY <1>2 DEF ClaimPush, ClaimNothing, Check, Post, Crash, rows
  <1>3. ASSUME NEW m \in Message, DeleteMessage(m) \/ \E S \in SUBSET Device : Capture(m, S)
        PROVE  FALSE
    BY <1>3 DEF DeleteMessage, Capture
  <1>4. ASSUME NEW p \in Device, Phone(p)
        PROVE  FALSE
    BY <1>4 DEF Phone, QueuePushTest, DeletePushSubscription, EndSession, PutPushSubscription
  <1>5. CASE Tick \/ UNCHANGED vars
    BY <1>5 DEF Tick, vars
  <1>6. QED
    BY <1>1, <1>2, <1>3, <1>4, <1>5 DEF Next, Step

\* FinishPush drops a subscription only if it is the one the push service said is gone; a
\* subscription that has replaced it stays (push.go, DELETE ... AND generation=?).
THEOREM ReplacementSurvives == Spec => OnlyGoneDropped
  <1>1. OutboxInv /\ [Next]_vars =>
            [\A d \in Device :
                workers' # workers /\ subscriptions'[d] # subscriptions[d] =>
                    subscriptions'[d] = None /\ subscriptions[d].generation \in gone]_vars
    BY WorkersDropOnlyGone
  <1>2. QED
    BY <1>1, OutboxInvariant, PTL DEF Spec, OnlyGoneDropped

\* Retries are bounded: beyond the attempts allowed there are only claims that took the
\* alert over from an expired lease.
THEOREM RetriesBounded == Spec => []AttemptsBounded
  <1>1. OutboxInv => AttemptsBounded
    BY DEF OutboxInv
  <1>2. QED
    BY <1>1, OutboxInvariant, PTL

\* As long as no message is deleted, a phone that is to be told of a message that no test
\* alert has swallowed has an alert that tells it.
THEOREM OnlyDeletionsAndTestsLose == Spec => []NoOtherAlertLost
  <1>1. ASSUME OutboxInv, Undeleted, NEW d \in Device, owed[d] \ swallowed[d] # {}
        PROVE  Announced(d)
    BY <1>1 DEF OutboxInv, Covered, OfDevice, Announced
  <1>2. OutboxInv => NoOtherAlertLost
    BY <1>1 DEF NoOtherAlertLost, Undeleted
  <1>3. QED
    BY <1>2, OutboxInvariant, PTL
=============================================================================
