------------------------------ MODULE PushOutbox ------------------------------
(***************************************************************************)
(* The Web Push outbox: internal/storage/push.go and the worker of         *)
(* internal/push/worker.go.                                                *)
(*                                                                         *)
(* A captured message puts an alert into the outbox of every subscribed    *)
(* phone it is in scope of; an alert that waits absorbs the next one.  The *)
(* worker claims an alert, checks that its subscription is still in force, *)
(* posts it to the push service and records the answer.  Between any two   *)
(* of these steps the phone may subscribe again, hand its endpoint to      *)
(* another pairing or be revoked, and the process may die.                 *)
(*                                                                         *)
(* An alert says what its kind says: "New message in your TextDock inbox", *)
(* or, if a user asked for it, "Test notification" (web/public/phone-sw.js)*)
(* whatever it has absorbed since.                                         *)
(***************************************************************************)
EXTENDS Integers, FiniteSets

CONSTANTS
    Device,         \* paired phones
    Endpoint,       \* push subscriptions of browsers
    Message,        \* message ids
    Worker,         \* server processes running the worker
    None,           \* SQL NULL / no row
    Delay,          \* how long an inbox alert waits for others (1 s), in ticks
    TTL,            \* life of an alert (60 s), in ticks
    Lease,          \* how long a claim lasts (15 s), in ticks
    Waits,          \* retry delays: exponential, or what Retry-After asks for, in ticks
    Attempts,       \* attempts an alert is given (3)
    MaxTime,        \* bound: the clock stops here
    MaxChanges,     \* bound: subscriptions put, deleted or revoked
    Tests,          \* bound: whether phones ask for test alerts
    MaxUpsets       \* bound: test alerts, messages deleted and steps of a worker cut off

ASSUME PushAssumption ==
    /\ None \notin Message /\ Waits \subseteq Nat /\ Attempts \in Nat \ {0}
    /\ {Delay, TTL, Lease, MaxTime, MaxChanges, MaxUpsets} \subseteq Nat /\ Tests \in BOOLEAN

VARIABLES
    clock,          \* time.Now() in ticks
    messages,       \* messages: "free", "kept" or "gone"
    devices,        \* pairings: "active" or "ended" (revoked, or past their expiry)
    subscriptions,  \* push_subscriptions by device
    jobs,           \* push_jobs
    status,         \* push_status by device, with the generation that caused it
    workers,        \* each worker: program counter, job in hand, outcome
    nextId, nextGeneration,     \* AUTOINCREMENT; random, hence fresh
    owed,           \* history: messages of a device whose phone no alert has spoken of, and
                    \* whose alert was not given up
    swallowed,      \* history: messages of a device that a test alert has stood for
    gone,           \* history: generations the push service answered 404 or 410 for
    changes, upsets     \* bounded counters

counters == <<changes, upsets>>
rows == <<subscriptions, jobs, status, nextId, nextGeneration>>
history == <<owed, swallowed, gone>>
vars == <<clock, messages, devices, rows, workers, history, counters>>

Subscription == [endpoint: Endpoint, generation: Nat]
\* covers (history) is the set of messages the alert stands for; recovered
\* (history) counts claims that took it over from an expired lease.
Kind == {"inbox", "test"}
Job == [id: Nat, device: Device, generation: Nat, kind: Kind, state: {"pending", "running"},
        attempts: Nat, due: Nat, expires_at: Nat, lease_until: Nat,
        message: Message \cup {None}, covers: SUBSET Message, recovered: Nat]
OutcomeState == {"accepted", "expired", "retrying", "failed", "cancelled"}
Status == [state: OutcomeState \cup {"none", "ready"}, generation: Nat]
NoStatus == [state |-> "none", generation |-> 0]
Loop == [pc: {"idle", "check", "post", "finish"}, id: Nat, device: Device \cup {None},
         generation: Nat, kind: Kind, attempts: Nat, state: OutcomeState, wait: Nat]
Idle == [pc |-> "idle", id |-> 0, device |-> None, generation |-> 0, kind |-> "inbox",
         attempts |-> 0, state |-> "cancelled", wait |-> 0]

TypeOK ==
    /\ clock \in Nat
    /\ messages \in [Message -> {"free", "kept", "gone"}]
    /\ devices \in [Device -> {"active", "ended"}]
    /\ subscriptions \in [Device -> Subscription \cup {None}]
    /\ jobs \subseteq Job
    /\ status \in [Device -> Status]
    /\ workers \in [Worker -> Loop]
    /\ nextId \in Nat /\ nextGeneration \in Nat
    /\ {owed, swallowed} \subseteq [Device -> SUBSET Message]
    /\ gone \subseteq Nat
    /\ {changes, upsets} \subseteq Nat

Init ==
    /\ clock = 0
    /\ messages = [m \in Message |-> "free"]
    /\ devices = [d \in Device |-> "active"]
    /\ subscriptions = [d \in Device |-> None]
    /\ jobs = {}
    /\ status = [d \in Device |-> NoStatus]
    /\ workers = [w \in Worker |-> Idle]
    /\ nextId = 1 /\ nextGeneration = 1
    /\ owed = [d \in Device |-> {}] /\ swallowed = [d \in Device |-> {}] /\ gone = {}
    /\ changes = 0 /\ upsets = 0

-----------------------------------------------------------------------------
OfDevice(S, d) == {j \in S : j.device = d}
Pending(d) == {j \in jobs : j.device = d /\ j.state = "pending"}
Subscribed(d) == subscriptions[d] # None /\ devices[d] = "active"

\* A subscription of this generation, of a pairing still in force.
InForce(d, generation) == Subscribed(d) /\ subscriptions[d].generation = generation

\* Alerts that end without being sent are owed to nobody any more.
Waive(ended) ==
    owed' = [d \in Device |-> owed[d] \ UNION {j.covers : j \in OfDevice(ended, d)}]

\* From here on the test alerts of the outbox stand for what they have absorbed.
Swallow ==
    swallowed' = [d \in Device |->
        swallowed[d] \cup UNION {j.covers : j \in {i \in OfDevice(jobs', d) : i.kind = "test"}}]

NewJob(d, kind, m, id, due) ==
    [id |-> id, device |-> d, generation |-> subscriptions[d].generation, kind |-> kind,
     state |-> "pending", attempts |-> 0, due |-> due, expires_at |-> clock + TTL,
     lease_until |-> 0, message |-> m, covers |-> {m} \ {None}, recovered |-> 0]

\* ON CONFLICT(device_id) WHERE state='pending': the waiting alert stands for m too.
\* Its due time, the attempts it has spent and its kind stay: a test remains a test.
Coalesced(j, m) ==
    [j EXCEPT !.message = m, !.generation = subscriptions[j.device].generation,
              !.expires_at = clock + TTL, !.covers = @ \cup {m}]

\* The outbox after message m is captured for the phones in S.  Jobs of one
\* message share an id here: ids only tell the jobs of one device apart.
Enqueued(S, m) ==
    LET absorbing == UNION {Pending(d) : d \in S}
        fresh == {d \in S : Pending(d) = {}}
    IN  (jobs \ absorbing) \cup {Coalesced(j, m) : j \in absorbing}
            \cup {NewJob(d, "inbox", m, nextId, clock + Delay) : d \in fresh}

\* A message in the scope of the phones in S is saved; enqueuePush runs in its
\* transaction and serves those of them that are subscribed.
Capture(m, S) ==
    LET served == {d \in S : Subscribed(d)}
    IN  /\ messages[m] = "free" /\ clock < MaxTime
        /\ messages' = [messages EXCEPT ![m] = "kept"]
        /\ jobs' = Enqueued(served, m)
        /\ nextId' = nextId + 1
        /\ owed' = [d \in Device |-> IF d \in served THEN owed[d] \cup {m} ELSE owed[d]]
        /\ Swallow
        /\ UNCHANGED <<clock, devices, subscriptions, status, nextGeneration, workers, gone,
                       counters>>

\* Jobs refer to the last message they absorbed ON DELETE CASCADE.
DeleteMessage(m) ==
    /\ messages[m] = "kept" /\ upsets < MaxUpsets
    /\ messages' = [messages EXCEPT ![m] = "gone"]
    /\ jobs' = {j \in jobs : j.message # m}
    /\ owed' = [d \in Device |-> owed[d] \ {m}]
    /\ upsets' = upsets + 1
    /\ UNCHANGED <<clock, devices, subscriptions, status, nextId, nextGeneration, workers,
                   swallowed, gone, changes>>

\* A waiting alert makes a test superfluous.
QueuePushTest(d) ==
    /\ Subscribed(d) /\ Pending(d) = {} /\ Tests /\ upsets < MaxUpsets /\ clock < MaxTime
    /\ jobs' = jobs \cup {NewJob(d, "test", None, nextId, clock)}
    /\ nextId' = nextId + 1
    /\ upsets' = upsets + 1
    /\ UNCHANGED <<clock, messages, devices, subscriptions, status, nextGeneration, workers,
                   history, changes>>

\* Whoever has the endpoint now (its row is UNIQUE).
Holders(e) == {d \in Device : subscriptions[d] # None /\ subscriptions[d].endpoint = e}

\* A new generation for d; the endpoint moves, and everything queued for its
\* previous pairing or for d goes.  Keys that disagree are refused before this.
PutPushSubscription(d, e) ==
    LET replaced == Holders(e) \cup {d}
    IN  /\ devices[d] = "active" /\ changes < MaxChanges
        /\ subscriptions' = [x \in Device |->
                CASE x = d -> [endpoint |-> e, generation |-> nextGeneration]
                  [] x \in replaced \ {d} -> None
                  [] OTHER -> subscriptions[x]]
        /\ jobs' = {j \in jobs : j.device \notin replaced}
        /\ status' = [status EXCEPT ![d] = [state |-> "ready", generation |-> nextGeneration]]
        /\ nextGeneration' = nextGeneration + 1
        /\ Waive({j \in jobs : j.device \in replaced})
        /\ changes' = changes + 1
        /\ UNCHANGED <<clock, messages, devices, nextId, workers, swallowed, gone, upsets>>

DeletePushSubscription(d) ==
    /\ devices[d] = "active" /\ subscriptions[d] # None /\ changes < MaxChanges
    /\ subscriptions' = [subscriptions EXCEPT ![d] = None]
    /\ jobs' = jobs \ OfDevice(jobs, d)
    /\ status' = [status EXCEPT ![d] = NoStatus]
    /\ Waive(OfDevice(jobs, d))
    /\ changes' = changes + 1
    /\ UNCHANGED <<clock, messages, devices, nextId, nextGeneration, workers, swallowed, gone,
                   upsets>>

\* RevokeDevice deletes the rows; a pairing that merely expires leaves them.
EndSession(d) ==
    /\ devices[d] = "active" /\ changes < MaxChanges
    /\ devices' = [devices EXCEPT ![d] = "ended"]
    /\ \/ /\ subscriptions' = [subscriptions EXCEPT ![d] = None]
          /\ jobs' = jobs \ OfDevice(jobs, d)
          /\ Waive(OfDevice(jobs, d))
       \/ UNCHANGED <<subscriptions, jobs, owed>>
    /\ changes' = changes + 1
    /\ UNCHANGED <<clock, messages, status, nextId, nextGeneration, workers, swallowed, gone,
                   upsets>>

-----------------------------------------------------------------------------
\* The worker.

\* The row the worker claimed, if it is still there under the same attempt.
InHand(w) == {j \in jobs : /\ j.id = workers[w].id /\ j.device = workers[w].device
                           /\ j.attempts = workers[w].attempts}

\* Removed by every claim: expired alerts, and those of a subscription or session
\* that is over.
Outdated == {j \in jobs : j.expires_at <= clock \/ ~InForce(j.device, j.generation)}

Ready == {j \in jobs \ Outdated :
            /\ j.due <= clock
            /\ j.state = "pending" \/ j.lease_until <= clock}

\* An alert under a new attempt number and a new lease.
Claimed(j) == [j EXCEPT !.state = "running", !.attempts = @ + 1, !.lease_until = clock + Lease,
                        !.recovered = IF j.state = "running" THEN @ + 1 ELSE @]

\* The oldest alert that is ready.
ClaimPush(w) ==
    /\ workers[w].pc = "idle"
    /\ \E j \in Ready :
        /\ \A i \in Ready : j.due < i.due \/ (j.due = i.due /\ j.id <= i.id)
        /\ jobs' = (jobs \ (Outdated \cup {j})) \cup {Claimed(j)}
        /\ workers' = [workers EXCEPT
                ![w] = [Idle EXCEPT !.pc = "check", !.id = j.id, !.device = j.device,
                                    !.generation = j.generation, !.kind = j.kind,
                                    !.attempts = j.attempts + 1]]
    /\ Waive(Outdated)
    /\ UNCHANGED <<clock, messages, devices, subscriptions, status, nextId, nextGeneration,
                   swallowed, gone, counters>>

\* Nothing is ready; what is outdated goes all the same.
ClaimNothing(w) ==
    /\ workers[w].pc = "idle" /\ Ready = {} /\ Outdated # {}
    /\ jobs' = jobs \ Outdated
    /\ Waive(Outdated)
    /\ UNCHANGED <<clock, messages, devices, subscriptions, status, nextId, nextGeneration,
                   workers, swallowed, gone, counters>>

Ends(w, state) == [workers EXCEPT ![w] = [@ EXCEPT !.pc = "finish", !.state = state]]

\* PushJobActive, and the endpoint rules of a configuration changed since.
Check(w) ==
    LET active == \E j \in InHand(w) : j.state = "running" /\ InForce(j.device, j.generation)
    IN  /\ workers[w].pc = "check"
        /\ \/ ~active /\ workers' = Ends(w, "cancelled")
           \/ active /\ workers' = [workers EXCEPT ![w].pc = "post"]
           \/ active /\ workers' = Ends(w, "failed")
        /\ UNCHANGED <<clock, messages, devices, rows, history, counters>>

\* Mutant: one attempt too many.
MutantVerdict(answer, attempts) ==
    IF answer = "retrying" /\ attempts > Attempts THEN "failed" ELSE answer

\* A retryable answer is final after the last attempt.
Verdict(answer, attempts) ==
    IF answer = "retrying" /\ attempts >= Attempts THEN "failed" ELSE answer

\* The request to the push service: 2xx, 404 or 410, anything worth a retry (429,
\* 5xx, no answer), any other refusal.  An alert that is accepted tells the phone of all
\* its messages, a test of none.
Post(w) ==
    LET d == workers[w].device
        generation == workers[w].generation
    IN  /\ workers[w].pc = "post"
        /\ \E answer \in {"accepted", "expired", "retrying", "failed"}, wait \in Waits :
            /\ workers' = [workers EXCEPT
                    ![w] = [@ EXCEPT !.pc = "finish", !.wait = wait,
                                     !.state = Verdict(answer, workers[w].attempts)]]
            /\ gone' = IF answer = "expired" THEN gone \cup {generation} ELSE gone
            /\ owed' = IF answer = "accepted" /\ workers[w].kind = "inbox" /\ InForce(d, generation)
                       THEN [owed EXCEPT ![d] = {}] ELSE owed
        /\ UNCHANGED <<clock, messages, devices, rows, swallowed, counters>>

\* Mutant: a retry goes back into the outbox beside a newer alert.
MutantNewer(j) == {}

\* An alert that came in while j was under way and waits.
Newer(j) == Pending(j.device) \ {j}

\* The alert waits again.
Postponed(j, wait) == [j EXCEPT !.state = "pending", !.due = clock + wait, !.lease_until = 0]

\* The newer alert n stands for what j stood for, whatever n says.
Merged(n, j) == [n EXCEPT !.covers = @ \cup j.covers]

\* Mutant: the alert to be retried is always given up for a newer one.
MutantRetried(j, wait) == jobs \ {j}

\* The outbox when j is to be retried: a newer alert stands for it, or it waits again.
Retried(j, wait) ==
    IF Newer(j) # {}
    THEN (jobs \ ({j} \cup Newer(j))) \cup {Merged(n, j) : n \in Newer(j)}
    ELSE (jobs \ {j}) \cup {Postponed(j, wait)}

\* Mutant: the outcome is recorded for the device, whatever it is subscribed to now.
MutantFinishPush(w) ==
    LET loop == workers[w]
        d == loop.device
    IN  /\ loop.pc = "finish"
        /\ status' = [status EXCEPT ![d] = [state |-> loop.state, generation |-> loop.generation]]
        /\ jobs' = IF loop.state = "retrying" /\ InHand(w) # {}
                   THEN UNION {Retried(j, loop.wait) : j \in InHand(w)} ELSE jobs \ InHand(w)
        /\ Waive(IF loop.state = "retrying" THEN {} ELSE InHand(w)) /\ Swallow
        /\ subscriptions' = IF loop.state = "expired" THEN [subscriptions EXCEPT ![d] = None]
                            ELSE subscriptions
        /\ workers' = [workers EXCEPT ![w] = Idle]
        /\ UNCHANGED <<clock, messages, devices, nextId, nextGeneration, gone, counters>>

\* Mutant: the alert waiting behind the one that found its subscription gone stays.
MutantEnding(w) == InHand(w)

\* What leaves the outbox with an attempt that is not retried: the alert, or all
\* alerts of a subscription that is gone.
Ending(w) ==
    IF workers[w].state = "expired"
    THEN {j \in OfDevice(jobs, workers[w].device) : j.generation = workers[w].generation}
    ELSE InHand(w)

\* Those of them whose messages have been told or given up; a test that was accepted did
\* neither.
Ended(w) == {j \in Ending(w) : workers[w].state = "accepted" => j.kind # "test"}

\* DELETE FROM push_subscriptions WHERE device_id=? AND generation=?
Unsubscribed(d, generation) ==
    [x \in Device |-> IF x = d /\ subscriptions[x] # None /\ subscriptions[x].generation = generation
                      THEN None ELSE subscriptions[x]]

\* Records the outcome of the attempt, if the alert and its subscription are still
\* those it was claimed for; otherwise only removes what is left of the row.
FinishPush(w) ==
    LET loop == workers[w]
        d == loop.device
        current == {j \in InHand(w) : InForce(j.device, j.generation)}
    IN  /\ loop.pc = "finish"
        /\ IF current = {}
           THEN /\ jobs' = jobs \ InHand(w)
                /\ Waive(InHand(w))
                /\ UNCHANGED <<subscriptions, status, swallowed>>
           ELSE /\ status' = [status EXCEPT
                        ![d] = [state |-> loop.state, generation |-> loop.generation]]
                /\ \/ /\ loop.state = "retrying"
                      /\ jobs' = UNION {Retried(j, loop.wait) : j \in current}
                      /\ Swallow
                      /\ UNCHANGED owed
                   \/ /\ loop.state # "retrying"
                      /\ jobs' = jobs \ Ending(w)
                      /\ Waive(Ended(w))
                      /\ UNCHANGED swallowed
                /\ subscriptions' = IF loop.state = "expired"
                                    THEN Unsubscribed(d, loop.generation) ELSE subscriptions
        /\ workers' = [workers EXCEPT ![w] = Idle]
        /\ UNCHANGED <<clock, messages, devices, nextId, nextGeneration, gone, counters>>

\* The process dies, or is told to stop, in the middle of a step.
Crash(w) ==
    /\ workers[w].pc # "idle" /\ upsets < MaxUpsets
    /\ workers' = [workers EXCEPT ![w] = Idle]
    /\ upsets' = upsets + 1
    /\ UNCHANGED <<clock, messages, devices, rows, history, changes>>

Tick ==
    /\ clock < MaxTime
    /\ clock' = clock + 1
    /\ UNCHANGED <<messages, devices, rows, workers, history, counters>>

Step(w) == ClaimPush(w) \/ ClaimNothing(w) \/ Check(w) \/ Post(w) \/ FinishPush(w)

Phone(d) ==
    \/ QueuePushTest(d) \/ DeletePushSubscription(d) \/ EndSession(d)
    \/ \E e \in Endpoint : PutPushSubscription(d, e)

Next ==
    \/ \E m \in Message : DeleteMessage(m) \/ \E S \in SUBSET Device : Capture(m, S)
    \/ \E d \in Device : Phone(d)
    \/ \E w \in Worker : Step(w) \/ Crash(w)
    \/ Tick

Spec == Init /\ [][Next]_vars

-----------------------------------------------------------------------------
(* Properties.                                                             *)

\* At most one alert of a phone waits.  The unique index push_pending_device would
\* refuse a second one, and with it the capture of a message or the record of an
\* attempt: no statement of the code may ever run into it.
OnePending == \A d \in Device : Cardinality(Pending(d)) <= 1

\* Everything queued or under way in the outbox belongs to the subscription its
\* phone has now, however often subscriptions move between pairings.
JobsMatchSubscription ==
    \A j \in jobs : /\ subscriptions[j.device] # None
                    /\ j.generation = subscriptions[j.device].generation

\* The diagnostic of a phone is about the subscription it has: a late answer for
\* an earlier one is not reported under the new one.
StatusIsCurrent ==
    \A d \in Device : subscriptions[d] # None =>
        status[d].generation = subscriptions[d].generation

\* A worker removes a subscription only if the push service said that this very one is
\* gone, not the one before it (storage/push_lifecycle_test.go: "stale expiry deleted a
\* replacement subscription").
OnlyGoneDropped ==
    [][\A d \in Device :
        workers' # workers /\ subscriptions'[d] # subscriptions[d] =>
            subscriptions'[d] = None /\ subscriptions[d].generation \in gone]_vars

\* Retries stay within the attempts allowed, but for claims of a dead process's work.
AttemptsBounded == \A j \in jobs : j.attempts <= Attempts + j.recovered

\* An alert that says that there are new messages.
Announced(d) == \E j \in OfDevice(jobs, d) : j.kind = "inbox"

\* No alert is lost: as long as a phone has not been told of a message it was
\* subscribed for, and the alert was not given up, an alert that will tell it is in the
\* outbox.
AlertsKept == \A d \in Device : owed[d] # {} => Announced(d)

\* There are two ways to lose one: a deletion may take the alert of another message along,
\* and a test alert that waits may swallow a message.  There is no third.
NoOtherAlertLost ==
    (\A m \in Message : messages[m] # "gone") =>
        \A d \in Device : owed[d] \ swallowed[d] # {} => Announced(d)
=============================================================================
