------------------------------ MODULE Simulation ------------------------------
(***************************************************************************)
(* Simulated delivery: internal/storage/simulation.go and the loop of      *)
(* internal/simulation/worker.go.                                          *)
(*                                                                         *)
(* A scheduled message gets two transitions, "sent" and its final status;  *)
(* each one appends an event and may enqueue a callback.  Every server     *)
(* process on the database runs one loop: lease the oldest ready job, do   *)
(* it, record the outcome.  Callbacks are posted outside transactions, so  *)
(* the process may die, or outlive its lease, between the steps.           *)
(***************************************************************************)
EXTENDS Integers, Sequences, SequencesExt

CONSTANTS
    Message,        \* message ids
    Worker,         \* server processes running the loop
    None,           \* no job in hand
    Delays,         \* scenario delays, in ticks (milliseconds)
    Budget,         \* attempts a callback is given before it fails
    Lease,          \* how long a claim lasts, in ticks
    Retry,          \* the unit of the exponential retry delay, in ticks
    Skew,           \* how old `now' may be when its transaction runs
    Horizon,        \* bound: nothing is scheduled after this time
    MaxTime,        \* bound: the clock stops here
    MaxCrashes,     \* bound: interrupted steps
    MaxReplays,     \* bound: callbacks replayed by hand
    Lag             \* bound: how long a ready job or a step may stay untouched

ASSUME SimulationAssumption ==
    /\ Delays \subseteq Nat /\ Budget \in Nat \ {0} /\ Lease \in Nat /\ Retry \in Nat
    /\ {Skew, Horizon, MaxTime, MaxCrashes, MaxReplays, Lag} \subseteq Nat

VARIABLES
    clock,      \* time.Now() in ticks
    status,     \* the status of each message row; "free" before insert, "gone" after delete
    events,     \* the statuses in message_events, oldest first
    url,        \* whether the jobs of the message carry a callback URL
    jobs,       \* the jobs table
    workers,    \* each loop: program counter and the job in hand
    posts,      \* history: requests made for a callback
    accepted,   \* history: callbacks whose receiver answered 2xx, heard or not
    recovered,  \* history: claims that took a job over from an expired lease
    crashes, replays    \* bounded counters

vars == <<clock, status, events, url, jobs, workers, posts, accepted, recovered,
          crashes, replays>>

Transitions == {"sent", "final"}
Hooks == {"onReceive", "onSent", "onFinal"}
\* A message has at most one job of each kind.
JobId == Message \X (Transitions \cup Hooks)
HookId == Message \X Hooks
HookOf(s) == IF s = "sent" THEN "onSent" ELSE "onFinal"
IsTransition(j) == j[2] \in Transitions

Job == [state: {"none", "pending", "running", "done", "failed"}, due: Nat,
        attempts: Nat, max_attempts: Nat, lease_until: Nat]
NoJob == [state |-> "none", due |-> 0, attempts |-> 0, max_attempts |-> 0, lease_until |-> 0]

Loop == [pc: {"idle", "transition", "post", "finish"}, job: JobId \cup {None},
         attempts: Nat, max_attempts: Nat, now: Nat, success: BOOLEAN]
Idle == [pc |-> "idle", job |-> None, attempts |-> 0,
         max_attempts |-> 0, now |-> 0, success |-> FALSE]

\* The life of an outbound message; "final" is the scenario's outcome, computed
\* from its seed and never changed.
Life == <<"queued", "sent", "final">>
Status == {"free", "received", "gone"} \cup {"queued", "sent", "final"}

TypeOK ==
    /\ clock \in Nat
    /\ status \in [Message -> Status]
    /\ events \in [Message -> Seq(Status)]
    /\ url \in [Message -> BOOLEAN]
    /\ jobs \in [JobId -> Job]
    /\ workers \in [Worker -> Loop]
    /\ posts \in [HookId -> Nat] /\ accepted \in SUBSET HookId
    /\ recovered \in [JobId -> Nat]
    /\ crashes \in Nat /\ replays \in Nat

Init ==
    /\ clock = 0
    /\ status = [m \in Message |-> "free"]
    /\ events = [m \in Message |-> <<>>]
    /\ url = [m \in Message |-> FALSE]
    /\ jobs = [j \in JobId |-> NoJob]
    /\ workers = [w \in Worker |-> Idle]
    /\ posts = [j \in HookId |-> 0] /\ accepted = {}
    /\ recovered = [j \in JobId |-> 0]
    /\ crashes = 0 /\ replays = 0

Recent == {t \in 0..clock : clock - t <= Skew}
Larger(a, b) == IF a >= b THEN a ELSE b

\* A row as insertJob writes it; max_attempts is the column's default.
NewJob(due) == [NoJob EXCEPT !.state = "pending", !.due = due, !.max_attempts = Budget]

-----------------------------------------------------------------------------
\* HTTP callers.

\* Mutant: without the minimum a scenario without delay ends before it starts.
MutantDueAt(s, born, delay) ==
    IF s = "sent" THEN born + Larger(1, delay \div 2) ELSE born + delay

\* When a transition is due.  "sent" is always due strictly before the final one.
DueAt(s, born, delay) ==
    LET wait == Larger(delay, 2)
    IN  IF s = "sent" THEN born + Larger(1, wait \div 2) ELSE born + wait

\* Capture.Send in a scenario: message, first event and both jobs in one transaction.
Schedule(m, delay, callback) ==
    /\ status[m] = "free" /\ clock <= Horizon
    /\ status' = [status EXCEPT ![m] = "queued"]
    /\ events' = [events EXCEPT ![m] = <<"queued">>]
    /\ url' = [url EXCEPT ![m] = callback]
    /\ \E born \in Recent :
        jobs' = [j \in JobId |-> IF j[1] = m /\ IsTransition(j)
                                 THEN NewJob(DueAt(j[2], born, delay)) ELSE jobs[j]]
    /\ UNCHANGED <<clock, workers, posts, accepted, recovered, crashes, replays>>

\* Capture.Send of an inbound message: no transitions, at most one callback.
Receive(m, callback) ==
    /\ status[m] = "free" /\ clock <= Horizon
    /\ status' = [status EXCEPT ![m] = "received"]
    /\ events' = [events EXCEPT ![m] = <<"received">>]
    /\ url' = [url EXCEPT ![m] = callback]
    /\ \E born \in Recent :
        jobs' = IF callback THEN [jobs EXCEPT ![<<m, "onReceive">>] = NewJob(born)] ELSE jobs
    /\ UNCHANGED <<clock, workers, posts, accepted, recovered, crashes, replays>>

\* Mutant: a replay starts counting attempts from zero again.
MutantReplayed(job, now) ==
    [job EXCEPT !.state = "pending", !.due = now, !.lease_until = 0,
                !.attempts = 0, !.max_attempts = Budget]

\* Mutant: a replay gets no budget of its own.
MutantReplayedSameBudget(job, now) ==
    [job EXCEPT !.state = "pending", !.due = now, !.lease_until = 0]

\* Another budget, on top of the attempts already made.
Replayed(job, now) ==
    [job EXCEPT !.state = "pending", !.due = now, !.lease_until = 0,
                !.max_attempts = job.attempts + Budget]

\* "Replay callback", once the callback is completed or has failed.
RetryWebhook(j) ==
    /\ jobs[j].state \in {"done", "failed"} /\ replays < MaxReplays
    /\ \E now \in Recent : jobs' = [jobs EXCEPT ![j] = Replayed(@, now)]
    /\ replays' = replays + 1
    /\ UNCHANGED <<clock, status, events, url, workers, posts, accepted, recovered, crashes>>

\* Delete, purge or retention: events and jobs go with the message row.
Delete(m) ==
    /\ status[m] \notin {"free", "gone"}
    /\ status' = [status EXCEPT ![m] = "gone"]
    /\ events' = [events EXCEPT ![m] = <<>>]
    /\ jobs' = [j \in JobId |-> IF j[1] = m THEN NoJob ELSE jobs[j]]
    /\ UNCHANGED <<clock, url, workers, posts, accepted, recovered, crashes, replays>>

-----------------------------------------------------------------------------
\* The loop.

\* Transitions of the same message that must be done first.  The code breaks
\* a tie by id; DueAt leaves none.
Earlier(j) == {i \in JobId : /\ i[1] = j[1] /\ IsTransition(i)
                             /\ jobs[i].state \notin {"none", "done"}
                             /\ jobs[i].due < jobs[j].due}

\* Mutant: only jobs never claimed are ready; an interrupted one stays running.
MutantClaimable(j, now) == jobs[j].state = "pending" /\ jobs[j].due <= now

\* Pending, or left behind by a process whose lease has run out.
Claimable(j, now) ==
    /\ jobs[j].due <= now
    /\ \/ jobs[j].state = "pending"
       \/ jobs[j].state = "running" /\ jobs[j].lease_until <= now

Ready(now) == {j \in JobId : Claimable(j, now) /\ (IsTransition(j) => Earlier(j) = {})}

\* A row under a new attempt number and a new lease.
Claimed(job, now) ==
    [job EXCEPT !.state = "running", !.attempts = @ + 1, !.lease_until = now + Lease]

\* One UPDATE ... RETURNING: the oldest ready job.
NextJob(w) ==
    /\ workers[w].pc = "idle"
    /\ \E now \in Recent, j \in JobId :
        /\ j \in Ready(now)
        /\ \A i \in Ready(now) : jobs[j].due <= jobs[i].due
        /\ jobs' = [jobs EXCEPT ![j] = Claimed(@, now)]
        /\ recovered' = [recovered EXCEPT ![j] = IF jobs[j].state = "running" THEN @ + 1 ELSE @]
        /\ workers' = [workers EXCEPT
                ![w] = [pc |-> IF IsTransition(j) THEN "transition" ELSE "post", job |-> j,
                        attempts |-> jobs'[j].attempts, max_attempts |-> jobs[j].max_attempts,
                        now |-> now, success |-> FALSE]]
    /\ UNCHANGED <<clock, status, events, url, posts, accepted, crashes, replays>>

\* Mutant: the row is found by its id alone.
MutantHolds(w) == jobs[workers[w].job].state # "none"

\* The fence: WHERE state='running' AND attempts=? matches one row.
Holds(w) ==
    LET job == jobs[workers[w].job]
    IN  job.state = "running" /\ job.attempts = workers[w].attempts

\* Mutant: the job is marked done whether or not its work is.
MutantCompleteTransition(w) ==
    LET j == workers[w].job
    IN  /\ workers[w].pc = "transition"
        /\ jobs' = IF Holds(w) THEN [jobs EXCEPT ![j].state = "done"] ELSE jobs
        /\ status' = IF Holds(w) THEN [status EXCEPT ![j[1]] = j[2]] ELSE status
        /\ events' = IF Holds(w) THEN [events EXCEPT ![j[1]] = Append(@, j[2])] ELSE events
        /\ workers' = [workers EXCEPT ![w] = Idle]
        /\ UNCHANGED <<clock, url, posts, accepted, recovered, crashes, replays>>

\* One commit: the job is done, the status moves, an event and a callback appear.
CompleteTransition(w) ==
    LET j == workers[w].job
        m == j[1]
        next == j[2]
    IN  /\ workers[w].pc = "transition"
        /\ IF Holds(w)
           THEN /\ status' = [status EXCEPT ![m] = next]
                /\ events' = [events EXCEPT ![m] = Append(@, next)]
                /\ jobs' = [i \in JobId |->
                        CASE i = j -> [jobs[j] EXCEPT !.state = "done"]
                          [] i = <<m, HookOf(next)>> /\ url[m] -> NewJob(workers[w].now)
                          [] OTHER -> jobs[i]]
           ELSE UNCHANGED <<status, events, jobs>>
        /\ workers' = [workers EXCEPT ![w] = Idle]
        /\ UNCHANGED <<clock, url, posts, accepted, recovered, crashes, replays>>

\* Mutant: an answer that never came counts as success.
MutantAnswers(took) == BOOLEAN

\* The answers the loop may see: a 2xx may be lost, and nothing else is success.
Answers(took) == IF took THEN BOOLEAN ELSE {FALSE}

\* The HTTP request, outside any transaction.
Post(w) ==
    LET j == workers[w].job
    IN  /\ workers[w].pc = "post"
        /\ posts' = [posts EXCEPT ![j] = @ + 1]
        /\ \E took \in BOOLEAN :
            /\ accepted' = IF took THEN accepted \cup {j} ELSE accepted
            /\ \E success \in Answers(took) :
                workers' = [workers EXCEPT ![w] = [@ EXCEPT !.pc = "finish", !.success = success]]
        /\ UNCHANGED <<clock, status, events, url, jobs, recovered, crashes, replays>>

Outcome(loop) ==
    CASE loop.success -> "done"
      [] ~loop.success /\ loop.attempts >= loop.max_attempts -> "failed"
      [] OTHER -> "pending"

\* Doubled for every attempt, six times at most.
RetryDelay(attempts) ==
    LET doublings == IF attempts < 6 THEN attempts ELSE 6
    IN  Retry * <<1, 2, 4, 8, 16, 32, 64>>[doublings + 1]

\* Records the attempt under the fence; `next' counts from when the step began.
FinishWebhook(w) ==
    LET loop == workers[w]
        j == loop.job
    IN  /\ loop.pc = "finish"
        /\ jobs' = IF Holds(w)
                   THEN [jobs EXCEPT ![j] = [@ EXCEPT !.state = Outcome(loop), !.lease_until = 0,
                                                      !.due = loop.now + RetryDelay(loop.attempts)]]
                   ELSE jobs
        /\ workers' = [workers EXCEPT ![w] = Idle]
        /\ UNCHANGED <<clock, status, events, url, posts, accepted, recovered, crashes, replays>>

\* The process dies or is told to stop: a step in progress is not recorded.
Crash(w) ==
    /\ workers[w].pc # "idle" /\ crashes < MaxCrashes
    /\ workers' = [workers EXCEPT ![w] = Idle]
    /\ crashes' = crashes + 1
    /\ UNCHANGED <<clock, status, events, url, jobs, posts, accepted, recovered, replays>>

-----------------------------------------------------------------------------
\* Time.  A Lag as large as MaxTime bounds nothing; a smaller one says that the
\* loops keep up with the clock (they poll every 200 ms and a request ends in 5 s).
Tick ==
    /\ clock < MaxTime
    /\ Ready(clock - Lag) = {}
    /\ \A w \in Worker : workers[w].pc # "idle" => clock < workers[w].now + Lag
    /\ clock' = clock + 1
    /\ UNCHANGED <<status, events, url, jobs, workers, posts, accepted, recovered,
                   crashes, replays>>

Step(w) == NextJob(w) \/ CompleteTransition(w) \/ Post(w) \/ FinishWebhook(w)

Next ==
    \/ \E m \in Message, delay \in Delays, callback \in BOOLEAN : Schedule(m, delay, callback)
    \/ \E m \in Message, callback \in BOOLEAN : Receive(m, callback)
    \/ \E m \in Message : Delete(m)
    \/ \E j \in HookId : RetryWebhook(j)
    \/ \E w \in Worker : Step(w) \/ Crash(w)
    \/ Tick

Spec == Init /\ [][Next]_vars

\* The loops run and time passes.  Nothing is assumed of callers or receivers.
FairSpec == Spec /\ WF_vars(Tick) /\ \A w \in Worker : WF_vars(Step(w))

-----------------------------------------------------------------------------
(* Properties.                                                             *)

\* The event log of a message tells its life in order, each step once, and the
\* status is its last entry: whatever processes crash, outlive their lease or
\* report late (docs/SIMULATION.md: a crash "cannot turn delivered back into sent").
LogInOrder ==
    \A m \in Message :
        CASE status[m] \in {"free", "gone"} -> events[m] = <<>>
          [] status[m] = "received" -> events[m] = <<"received">>
          [] OTHER -> IsPrefix(events[m], Life) /\ status[m] = Last(events[m])

\* A transition and its callback are one commit: the callback row exists exactly
\* when the event is in the log and the message has a URL.
HookPerEvent ==
    \A m \in Message, s \in Transitions :
        /\ jobs[<<m, s>>].state = "done" <=> s \in ToSet(events[m])
        /\ jobs[<<m, HookOf(s)>>].state # "none" <=> s \in ToSet(events[m]) /\ url[m]

\* A callback is recorded as delivered only if its receiver did answer 2xx.
DoneMeansAccepted == \A j \in HookId : jobs[j].state = "done" => j \in accepted

\* No two processes hold the same attempt of a job, so a late report can be told
\* from a current one, also when the callback was replayed in between.
OneHolder ==
    \A v, w \in Worker :
        /\ v # w /\ workers[v].pc # "idle" /\ workers[w].pc # "idle"
        /\ workers[v].job = workers[w].job
        => workers[v].attempts # workers[w].attempts

\* A budget is only exceeded by attempts that took over an expired lease.
BudgetPlusRecoveries ==
    \A j \in HookId : jobs[j].attempts <= jobs[j].max_attempts + recovered[j]

\* Every scheduled message reaches its final status, and every callback is
\* delivered or given up, unless the message is deleted.
Completes ==
    /\ \A m \in Message : status[m] \in {"queued", "sent"} ~> status[m] \in {"final", "gone"}
    /\ \A j \in HookId :
        jobs[j].state \in {"pending", "running"} ~> jobs[j].state \in {"none", "done", "failed"}

-----------------------------------------------------------------------------
(* Refinement: Simulation implements Delivery.                             *)

\* What a row of the jobs table says of a callback.  A claim does not change it.
Standing(state) ==
    CASE state = "none" -> "none"
      [] state \in {"pending", "running"} -> "owed"
      [] state = "done" -> "delivered"
      [] state = "failed" -> "given up"

Promise == INSTANCE Delivery WITH
    life <- status,
    wanted <- url,
    callback <- [j \in HookId |-> Standing(jobs[j].state)],
    asked <- {j \in HookId : posts[j] > 0}

\* Every behaviour of the job table and its processes is one of Delivery: also a claim, a
\* lost lease, a late report, a crash or a request that fails is a step of its callback or
\* none at all.  What was delivered is not taken back by a report that comes late, nothing
\* is given up unasked, and a job of a deleted message is never revived.
RefinesDelivery == Promise!Spec
=============================================================================
