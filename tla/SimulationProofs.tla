--------------------------- MODULE SimulationProofs ---------------------------
(***************************************************************************)
(* Proofs about Simulation, for every number of messages and processes and *)
(* every value of the delays, budgets and bounds.                          *)
(***************************************************************************)
EXTENDS Simulation, SequenceTheorems, TLAPS

-----------------------------------------------------------------------------
(* The inductive invariant.                                                *)

Sent(m) == jobs[<<m, "sent">>]
Final(m) == jobs[<<m, "final">>]
NoHooks(m) == jobs[<<m, "onSent">>].state = "none" /\ jobs[<<m, "onFinal">>].state = "none"
Called(m, hook) == jobs[<<m, hook>>].state # "none" <=> url[m]

\* Where a message is in its life: the log, the state of its two transitions and the
\* callbacks that were created agree.  While "sent" is to come, it is due first.
Phase(m) ==
    /\ status[m] \in {"free", "gone"} =>
        /\ events[m] = <<>>
        /\ \A kind \in Transitions \cup Hooks : jobs[<<m, kind>>].state = "none"
    /\ status[m] = "received" =>
        /\ events[m] = <<"received">> /\ NoHooks(m)
        /\ Sent(m).state = "none" /\ Final(m).state = "none"
    /\ status[m] = "queued" =>
        /\ events[m] = <<"queued">> /\ NoHooks(m) /\ Sent(m).due < Final(m).due
        /\ Sent(m).state \in {"pending", "running"} /\ Final(m).state = "pending"
    /\ status[m] = "sent" =>
        /\ events[m] = <<"queued", "sent">> /\ Called(m, "onSent")
        /\ jobs[<<m, "onFinal">>].state = "none"
        /\ Sent(m).state = "done" /\ Final(m).state \in {"pending", "running"}
    /\ status[m] = "final" =>
        /\ events[m] = <<"queued", "sent", "final">>
        /\ Called(m, "onSent") /\ Called(m, "onFinal")
        /\ Sent(m).state = "done" /\ Final(m).state = "done"

\* What a process knows of the job in its hand: the row is still there unless the message
\* is not, and nobody has gone back behind its attempt; while it holds the job, the budget
\* is the one it read; a success it reports is one the receiver answered.
Knows(w) ==
    LET loop == workers[w]
        j == loop.job
    IN  loop.pc # "idle" =>
            /\ j \in JobId /\ (loop.pc = "transition" <=> IsTransition(j))
            /\ jobs[j].state = "none" => status[j[1]] = "gone"
            /\ jobs[j].state # "none" => loop.attempts <= jobs[j].attempts
            /\ Holds(w) => loop.max_attempts = jobs[j].max_attempts
            /\ loop.pc = "finish" /\ loop.success => j \in accepted

\* A callback that waits has an attempt left.
BudgetLeft ==
    \A j \in HookId : jobs[j].state = "pending" => jobs[j].attempts < jobs[j].max_attempts + recovered[j]

SimInv ==
    /\ TypeOK /\ OneHolder /\ DoneMeansAccepted /\ BudgetPlusRecoveries /\ BudgetLeft
    /\ \A m \in Message : Phase(m)
    /\ \A w \in Worker : Knows(w)

-----------------------------------------------------------------------------
(* Rows and ids.                                                           *)

LEMMA Ids ==
    /\ \A m \in Message : \A kind \in Transitions \cup Hooks : <<m, kind>> \in JobId
    /\ \A m \in Message : \A kind \in Hooks : <<m, kind>> \in HookId
    /\ HookId \subseteq JobId
    /\ \A j \in JobId : /\ j[1] \in Message /\ j[2] \in Transitions \cup Hooks
                        /\ j = <<j[1], j[2]>>
                        /\ j \in HookId <=> ~IsTransition(j)
  BY DEF JobId, HookId, Transitions, Hooks, IsTransition

\* A new row waits with its whole budget.
LEMMA NewRow ==
    ASSUME SimulationAssumption, NEW due \in Nat
    PROVE  LET k == NewJob(due) IN
           /\ k \in Job /\ k.state = "pending" /\ k.due = due /\ k.attempts = 0
           /\ k.max_attempts = Budget
  BY DEF SimulationAssumption, NewJob, NoJob, Job

LEMMA NoRow == NoJob \in Job /\ NoJob.state = "none" /\ NoJob.attempts = 0 /\ NoJob.max_attempts = 0
  BY DEF NoJob, Job

\* A claim changes the state, the lease and the count.
LEMMA ClaimedRow ==
    ASSUME SimulationAssumption, NEW job \in Job, NEW now \in Nat
    PROVE  LET k == Claimed(job, now) IN
           /\ k \in Job /\ k.state = "running" /\ k.attempts = job.attempts + 1
           /\ k.due = job.due /\ k.max_attempts = job.max_attempts
  <1> DEFINE n == job.attempts + 1
             t == now + Lease
  <1>1. n \in Nat /\ t \in Nat
    BY DEF Job, SimulationAssumption
  <1>2. Claimed(job, now) = [job EXCEPT !.state = "running", !.attempts = n, !.lease_until = t]
    BY DEF Claimed, Job
  <1> HIDE DEF n, t
  <1>3. LET k == [job EXCEPT !.state = "running", !.attempts = n, !.lease_until = t] IN
        /\ k \in Job /\ k.state = "running" /\ k.attempts = n
        /\ k.due = job.due /\ k.max_attempts = job.max_attempts
    BY <1>1 DEF Job
  <1>4. QED
    BY <1>2, <1>3 DEF n

\* A replay gives another budget on top of the attempts made.
LEMMA ReplayedRow ==
    ASSUME SimulationAssumption, NEW job \in Job, NEW now \in Nat
    PROVE  LET k == Replayed(job, now) IN
           /\ k \in Job /\ k.state = "pending" /\ k.attempts = job.attempts
           /\ k.max_attempts = job.attempts + Budget
  <1> DEFINE n == job.attempts + Budget
  <1>1. n \in Nat
    BY DEF Job, SimulationAssumption
  <1> HIDE DEF n
  <1>2. [job EXCEPT !.state = "pending", !.due = now] \in Job
    BY DEF Job
  <1>3. LET k == [job EXCEPT !.state = "pending", !.due = now, !.lease_until = 0,
                             !.max_attempts = n] IN
        /\ k \in Job /\ k.state = "pending" /\ k.attempts = job.attempts /\ k.max_attempts = n
    BY <1>1, <1>2 DEF Job
  <1>4. QED
    BY <1>3 DEF n, Replayed

\* "sent" is due before the final transition, whatever the delay.
LEMMA SentFirst ==
    ASSUME NEW born \in Nat, NEW delay \in Nat
    PROVE  /\ DueAt("sent", born, delay) \in Nat /\ DueAt("final", born, delay) \in Nat
           /\ DueAt("sent", born, delay) < DueAt("final", born, delay)
  BY DEF DueAt, Larger

LEMMA RetryLater ==
    ASSUME SimulationAssumption, NEW n \in Nat
    PROVE  RetryDelay(n) \in Nat
  <1>1. CASE n = 0
    BY <1>1 DEF RetryDelay, SimulationAssumption
  <1>2. CASE n \in 1..5
    <2>1. n = 1 \/ n = 2 \/ n = 3 \/ n = 4 \/ n = 5
      BY <1>2
    <2>2. QED
      BY <2>1 DEF RetryDelay, SimulationAssumption
  <1>3. CASE n >= 6
    BY <1>3 DEF RetryDelay, SimulationAssumption
  <1>4. QED
    BY <1>1, <1>2, <1>3

\* What the invariant says of the log.
LEMMA LogFollows ==
    ASSUME SimInv
    PROVE  LogInOrder /\ HookPerEvent
  <1>1. /\ IsPrefix(<<"queued">>, Life) /\ Last(<<"queued">>) = "queued"
        /\ IsPrefix(<<"queued", "sent">>, Life) /\ Last(<<"queued", "sent">>) = "sent"
        /\ IsPrefix(<<"queued", "sent", "final">>, Life)
        /\ Last(<<"queued", "sent", "final">>) = "final"
    BY DEF IsPrefix, Last, Life
  <1>2. LogInOrder
    BY <1>1 DEF SimInv, TypeOK, Status, Phase, LogInOrder
  <1>3. /\ ToSet(<<>>) = {} /\ ToSet(<<"received">>) = {"received"}
        /\ ToSet(<<"queued">>) = {"queued"} /\ ToSet(<<"queued", "sent">>) = {"queued", "sent"}
        /\ ToSet(<<"queued", "sent", "final">>) = {"queued", "sent", "final"}
    BY DEF ToSet
  <1>4. HookPerEvent
    BY <1>3 DEF SimInv, TypeOK, Status, Phase, HookPerEvent, HookOf, Transitions, Hooks,
                NoHooks, Called, Sent, Final
  <1>5. QED
    BY <1>2, <1>4
-----------------------------------------------------------------------------
(* What a step may do to the rest of the state.                            *)

\* Rows that go on: as they are, gone with their message, created when nobody can hold
\* them, or no longer under the attempt they were under.
Moves(j) ==
    \/ jobs'[j] = jobs[j] /\ (status[j[1]] = "gone" => status'[j[1]] = "gone")
    \/ jobs'[j].state = "none" /\ status'[j[1]] = "gone"
    \/ jobs[j].state = "none" /\ status[j[1]] # "gone"
    \/ /\ jobs[j].state # "none" /\ jobs'[j].state # "none"
       /\ jobs'[j].attempts >= jobs[j].attempts
       /\ jobs'[j].state = "running" => jobs'[j].attempts > jobs[j].attempts

LEMMA KnowsStill ==
    ASSUME SimInv, NEW w \in Worker, workers'[w] = workers[w] \/ workers'[w] = Idle,
           jobs' \in [JobId -> Job], accepted \subseteq accepted', \A j \in JobId : Moves(j)
    PROVE  Knows(w)'
  <1>1. Idle.pc = "idle"
    BY DEF Idle
  <1>2. CASE workers'[w] = Idle
    BY <1>1, <1>2 DEF Knows
  <1>3. CASE workers'[w] = workers[w] /\ workers[w].pc # "idle"
    <2> DEFINE loop == workers[w]
               j == loop.job
    <2>1. /\ j \in JobId /\ (loop.pc = "transition" <=> IsTransition(j))
          /\ jobs[j].state = "none" => status[j[1]] = "gone"
          /\ jobs[j].state # "none" => loop.attempts <= jobs[j].attempts
          /\ Holds(w) => loop.max_attempts = jobs[j].max_attempts
          /\ loop.pc = "finish" /\ loop.success => j \in accepted
      BY <1>3 DEF SimInv, Knows
    <2>2. jobs[j].attempts \in Nat /\ jobs'[j].attempts \in Nat /\ loop.attempts \in Nat
      BY <2>1 DEF SimInv, TypeOK, Job, Loop
    <2>3. Moves(j)
      BY <2>1
    <2>4. /\ jobs'[j].state = "none" => status'[j[1]] = "gone"
          /\ jobs'[j].state # "none" => loop.attempts <= jobs'[j].attempts
      BY <2>1, <2>2, <2>3 DEF Moves
    <2>5. jobs'[j].state = "running" /\ jobs'[j].attempts = loop.attempts
            => loop.max_attempts = jobs'[j].max_attempts
      BY <2>1, <2>2, <2>3 DEF Moves, Holds
    <2>6. QED
      BY <1>3, <2>1, <2>4, <2>5 DEF Knows, Holds
  <1>4. CASE workers'[w] = workers[w] /\ workers[w].pc = "idle"
    BY <1>4 DEF Knows
  <1>5. QED
    BY <1>2, <1>3, <1>4

\* No process takes a job up.
LEMMA HoldersStay ==
    ASSUME SimInv,
           \A w \in Worker : \/ workers'[w] = workers[w] \/ workers'[w] = Idle
                             \/ /\ workers[w].pc # "idle" /\ workers'[w].job = workers[w].job
                                /\ workers'[w].attempts = workers[w].attempts
    PROVE  OneHolder'
  BY DEF SimInv, OneHolder, Idle

LEMMA PhaseStill ==
    ASSUME SimInv, NEW m \in Message, status'[m] = status[m], events'[m] = events[m],
           url'[m] = url[m],
           \A kind \in Transitions : /\ jobs'[<<m, kind>>].state = jobs[<<m, kind>>].state
                                     /\ jobs'[<<m, kind>>].due = jobs[<<m, kind>>].due,
           \A kind \in Hooks : jobs'[<<m, kind>>].state = "none"
                                    <=> jobs[<<m, kind>>].state = "none"
    PROVE  Phase(m)'
  <1>1. Phase(m)
    BY DEF SimInv
  <1>2. \A kind \in Transitions \cup Hooks : jobs'[<<m, kind>>].state = "none"
                                                <=> jobs[<<m, kind>>].state = "none"
    OBVIOUS
  <1>3. NoHooks(m)' <=> NoHooks(m)
    BY DEF NoHooks, Hooks
  <1>4. /\ Called(m, "onSent")' <=> Called(m, "onSent")
        /\ Called(m, "onFinal")' <=> Called(m, "onFinal")
    BY DEF Called, Hooks
  <1>5. /\ Sent(m).state' = Sent(m).state /\ Sent(m).due' = Sent(m).due
        /\ Final(m).state' = Final(m).state /\ Final(m).due' = Final(m).due
    BY DEF Sent, Final, Transitions
  <1>6. jobs'[<<m, "onFinal">>].state = "none" <=> jobs[<<m, "onFinal">>].state = "none"
    BY DEF Hooks
  <1>7. QED
    BY <1>1, <1>2, <1>3, <1>4, <1>5, <1>6 DEF Phase

-----------------------------------------------------------------------------
(* HTTP callers.                                                           *)

LEMMA ScheduleKeeps ==
    ASSUME SimulationAssumption, SimInv, NEW m \in Message, NEW delay \in Delays,
           NEW callback \in BOOLEAN, Schedule(m, delay, callback)
    PROVE  SimInv'
  <1>1. /\ UNCHANGED <<clock, workers, posts, accepted, recovered, crashes, replays>>
        /\ status[m] = "free" /\ status' = [status EXCEPT ![m] = "queued"]
        /\ events' = [events EXCEPT ![m] = <<"queued">>]
        /\ url' = [url EXCEPT ![m] = callback]
    BY DEF Schedule
  <1>2. PICK born \in Recent :
            jobs' = [j \in JobId |-> IF j[1] = m /\ IsTransition(j)
                                     THEN NewJob(DueAt(j[2], born, delay)) ELSE jobs[j]]
    BY DEF Schedule
  <1>3. born \in Nat /\ delay \in Nat
    <2>1. born \in Nat
      BY DEF Recent, SimInv, TypeOK
    <2>2. delay \in Nat
      BY DEF SimulationAssumption
    <2>3. QED
      BY <2>1, <2>2
  <1>4. \A s \in Transitions :
            LET k == NewJob(DueAt(s, born, delay)) IN
            /\ k \in Job /\ k.state = "pending" /\ k.due = DueAt(s, born, delay)
    BY <1>3, SentFirst, NewRow DEF Transitions
  <1>5. \A j \in JobId : jobs'[j] = IF j[1] = m /\ IsTransition(j)
                                     THEN NewJob(DueAt(j[2], born, delay)) ELSE jobs[j]
    BY <1>2
  <1>6. jobs' \in [JobId -> Job]
    <2>1. \A j \in JobId : jobs'[j] \in Job
      BY <1>4, <1>5 DEF IsTransition, SimInv, TypeOK
    <2>2. QED
      BY <1>2, <2>1
  <1>7. /\ \A kind \in Transitions \cup Hooks : jobs[<<m, kind>>].state = "none"
        /\ \A j \in JobId : j[1] = m => jobs[j].state = "none"
    <2>1. Phase(m)
      BY DEF SimInv
    <2>2. QED
      BY <1>1, <2>1, Ids DEF Phase
  <1>8. \A j \in HookId : jobs'[j] = jobs[j]
    BY <1>5, Ids
  <1>9. \A w \in Worker : Knows(w)'
    <2>1. \A j \in JobId : Moves(j)
      BY <1>1, <1>5, <1>7, Ids DEF Moves, SimInv, TypeOK
    <2>2. QED
      BY <1>1, <1>6, <2>1, KnowsStill
  <1>10. OneHolder'
    BY <1>1, HoldersStay
  <1>11. DoneMeansAccepted' /\ BudgetPlusRecoveries' /\ BudgetLeft'
    BY <1>1, <1>8 DEF SimInv, DoneMeansAccepted, BudgetPlusRecoveries, BudgetLeft
  <1>12. Phase(m)'
    <2>1. /\ jobs'[<<m, "sent">>] = NewJob(DueAt("sent", born, delay))
          /\ jobs'[<<m, "final">>] = NewJob(DueAt("final", born, delay))
      BY <1>5, Ids DEF IsTransition, Transitions
    <2>2. /\ jobs'[<<m, "onSent">>].state = "none" /\ jobs'[<<m, "onFinal">>].state = "none"
      BY <1>7, <1>8, Ids DEF Hooks
    <2>3. jobs'[<<m, "sent">>].due < jobs'[<<m, "final">>].due
      <3>1. /\ jobs'[<<m, "sent">>].due = DueAt("sent", born, delay)
            /\ jobs'[<<m, "final">>].due = DueAt("final", born, delay)
        BY <1>4, <2>1 DEF Transitions
      <3>2. DueAt("sent", born, delay) < DueAt("final", born, delay)
        BY <1>3, SentFirst
      <3>3. QED
        BY <3>1, <3>2
    <2>4. jobs'[<<m, "sent">>].state = "pending" /\ jobs'[<<m, "final">>].state = "pending"
      BY <1>4, <2>1 DEF Transitions
    <2>5. status'[m] = "queued" /\ events'[m] = <<"queued">>
      BY <1>1 DEF SimInv, TypeOK
    <2>6. QED
      BY <2>2, <2>3, <2>4, <2>5 DEF Phase, NoHooks, Sent, Final
  <1>13. ASSUME NEW x \in Message, x # m
         PROVE  Phase(x)'
    <2>1. \A kind \in Transitions \cup Hooks : jobs'[<<x, kind>>] = jobs[<<x, kind>>]
      BY <1>5, <1>13, Ids
    <2>2. status'[x] = status[x] /\ events'[x] = events[x] /\ url'[x] = url[x]
      BY <1>1, <1>13 DEF SimInv, TypeOK
    <2>3. QED
      BY <2>1, <2>2, PhaseStill
  <1>14. TypeOK'
    <2>1. status' \in [Message -> Status] /\ url' \in [Message -> BOOLEAN]
      BY <1>1 DEF SimInv, TypeOK, Status
    <2>2. events' \in [Message -> Seq(Status)]
      <3>1. <<"queued">> \in Seq(Status)
        BY DEF Status
      <3>2. QED
        BY <1>1, <3>1 DEF SimInv, TypeOK
    <2>3. QED
      BY <1>1, <1>6, <2>1, <2>2 DEF SimInv, TypeOK
  <1>15. QED
    BY <1>9, <1>10, <1>11, <1>12, <1>13, <1>14 DEF SimInv

LEMMA ReceiveKeeps ==
    ASSUME SimulationAssumption, SimInv, NEW m \in Message,
           NEW callback \in BOOLEAN, Receive(m, callback)
    PROVE  SimInv'
  <1> DEFINE hook == <<m, "onReceive">>
  <1>1. /\ UNCHANGED <<clock, workers, posts, accepted, recovered, crashes, replays>>
        /\ status[m] = "free" /\ status' = [status EXCEPT ![m] = "received"]
        /\ events' = [events EXCEPT ![m] = <<"received">>]
        /\ url' = [url EXCEPT ![m] = callback]
    BY DEF Receive
  <1>2. PICK born \in Recent :
            jobs' = IF callback THEN [jobs EXCEPT ![hook] = NewJob(born)] ELSE jobs
    BY DEF Receive
  <1>3. /\ NewJob(born) \in Job /\ NewJob(born).state = "pending" /\ NewJob(born).attempts = 0
        /\ NewJob(born).max_attempts = Budget /\ Budget \in Nat /\ Budget > 0
    BY NewRow DEF Recent, SimInv, TypeOK, SimulationAssumption
  <1>4. hook \in HookId /\ hook \in JobId /\ hook[1] = m /\ hook[2] = "onReceive"
    BY Ids DEF Hooks
  <1>5. /\ jobs' \in [JobId -> Job] /\ jobs'[hook] = IF callback THEN NewJob(born) ELSE jobs[hook]
        /\ \A j \in JobId : j # hook => jobs'[j] = jobs[j]
    BY <1>2, <1>3, <1>4 DEF SimInv, TypeOK
  <1>6. \A kind \in Transitions \cup Hooks : jobs[<<m, kind>>].state = "none"
    <2>1. Phase(m)
      BY DEF SimInv
    <2>2. QED
      BY <1>1, <2>1 DEF Phase
  <1>7. jobs[hook].state = "none" /\ recovered[hook] \in Nat
    BY <1>4, <1>6 DEF Hooks, SimInv, TypeOK
  <1> HIDE DEF hook
  <1>8. \A w \in Worker : Knows(w)'
    <2>1. ASSUME NEW j \in JobId
          PROVE  Moves(j)
      <3>1. CASE j = hook
        BY <1>1, <1>4, <1>7, <3>1 DEF Moves
      <3>2. CASE j # hook
        BY <1>1, <1>5, <3>2, Ids DEF Moves, SimInv, TypeOK
      <3>3. QED
        BY <3>1, <3>2
    <2>2. QED
      BY <1>1, <1>5, <2>1, KnowsStill
  <1>9. OneHolder'
    BY <1>1, HoldersStay
  <1>10. DoneMeansAccepted' /\ BudgetPlusRecoveries' /\ BudgetLeft'
    BY <1>1, <1>3, <1>5, <1>7, Ids DEF SimInv, DoneMeansAccepted, BudgetPlusRecoveries, BudgetLeft
  <1>11. Phase(m)'
    <2>1. \A kind \in Transitions \cup Hooks : kind # "onReceive" =>
                jobs'[<<m, kind>>].state = "none"
      BY <1>4, <1>5, <1>6, Ids DEF hook
    <2>2. status'[m] = "received" /\ events'[m] = <<"received">>
      BY <1>1 DEF SimInv, TypeOK
    <2>3. QED
      BY <2>1, <2>2 DEF Phase, NoHooks, Sent, Final, Transitions, Hooks
  <1>12. ASSUME NEW x \in Message, x # m
         PROVE  Phase(x)'
    <2>1. \A kind \in Transitions \cup Hooks : jobs'[<<x, kind>>] = jobs[<<x, kind>>]
      BY <1>4, <1>5, <1>12, Ids
    <2>2. status'[x] = status[x] /\ events'[x] = events[x] /\ url'[x] = url[x]
      BY <1>1, <1>12 DEF SimInv, TypeOK
    <2>3. QED
      BY <2>1, <2>2, PhaseStill
  <1>13. TypeOK'
    <2>1. status' \in [Message -> Status] /\ url' \in [Message -> BOOLEAN]
      BY <1>1 DEF SimInv, TypeOK, Status
    <2>2. events' \in [Message -> Seq(Status)]
      <3>1. <<"received">> \in Seq(Status)
        BY DEF Status
      <3>2. QED
        BY <1>1, <3>1 DEF SimInv, TypeOK
    <2>3. QED
      BY <1>1, <1>5, <2>1, <2>2 DEF SimInv, TypeOK
  <1>14. QED
    BY <1>8, <1>9, <1>10, <1>11, <1>12, <1>13 DEF SimInv
LEMMA DeleteKeeps ==
    ASSUME SimInv, NEW m \in Message, Delete(m)
    PROVE  SimInv'
  <1>1. /\ UNCHANGED <<clock, url, workers, posts, accepted, recovered, crashes, replays>>
        /\ status' = [status EXCEPT ![m] = "gone"] /\ events' = [events EXCEPT ![m] = <<>>]
        /\ jobs' = [j \in JobId |-> IF j[1] = m THEN NoJob ELSE jobs[j]]
    BY DEF Delete
  <1>2. /\ jobs' \in [JobId -> Job] /\ \A j \in JobId : j[1] = m => jobs'[j] = NoJob
        /\ \A j \in JobId : j[1] # m => jobs'[j] = jobs[j]
    BY <1>1, NoRow DEF SimInv, TypeOK
  <1>3. /\ status'[m] = "gone" /\ events'[m] = <<>>
        /\ \A x \in Message : x # m => status'[x] = status[x] /\ events'[x] = events[x]
    BY <1>1 DEF SimInv, TypeOK
  <1>4. \A w \in Worker : Knows(w)'
    <2>1. \A j \in JobId : Moves(j)
      BY <1>2, <1>3, NoRow, Ids DEF Moves
    <2>2. QED
      BY <1>1, <1>2, <2>1, KnowsStill
  <1>5. OneHolder'
    BY <1>1, HoldersStay
  <1>6. DoneMeansAccepted' /\ BudgetPlusRecoveries' /\ BudgetLeft'
    <2>1. \A j \in HookId : recovered[j] \in Nat
      BY Ids DEF SimInv, TypeOK
    <2>2. QED
      BY <1>1, <1>2, <2>1, Ids, NoRow
         DEF SimInv, DoneMeansAccepted, BudgetPlusRecoveries, BudgetLeft
  <1>7. Phase(m)'
    BY <1>2, <1>3, Ids, NoRow DEF Phase
  <1>8. ASSUME NEW x \in Message, x # m
        PROVE  Phase(x)'
    <2>1. \A kind \in Transitions \cup Hooks : jobs'[<<x, kind>>] = jobs[<<x, kind>>]
      BY <1>2, <1>8, Ids
    <2>2. QED
      BY <1>1, <1>3, <1>8, <2>1, PhaseStill
  <1>9. TypeOK'
    <2>1. status' \in [Message -> Status]
      BY <1>1 DEF SimInv, TypeOK, Status
    <2>2. events' \in [Message -> Seq(Status)]
      <3>1. <<>> \in Seq(Status)
        OBVIOUS
      <3>2. QED
        BY <1>1, <3>1 DEF SimInv, TypeOK
    <2>3. QED
      BY <1>1, <1>2, <2>1, <2>2 DEF SimInv, TypeOK
  <1>10. QED
    BY <1>4, <1>5, <1>6, <1>7, <1>8, <1>9 DEF SimInv

\* A step that changes one row and neither status nor log.
LEMMA OneRow ==
    ASSUME SimInv, NEW j \in JobId, NEW row \in Job, jobs' = [jobs EXCEPT ![j] = row],
           UNCHANGED <<status, events, url>>, jobs[j].state # "none", row.state # "none",
           IsTransition(j) => row.state = jobs[j].state /\ row.due = jobs[j].due,
           row.attempts >= jobs[j].attempts,
           row.state = "running" => row.attempts > jobs[j].attempts
    PROVE  /\ jobs' \in [JobId -> Job] /\ jobs'[j] = row
           /\ \A i \in JobId : i # j => jobs'[i] = jobs[i]
           /\ \A i \in JobId : Moves(i)
           /\ \A m \in Message : Phase(m)'
  <1>1. /\ jobs' \in [JobId -> Job] /\ jobs'[j] = row
        /\ \A i \in JobId : i # j => jobs'[i] = jobs[i]
    BY DEF SimInv, TypeOK
  <1>2. \A i \in JobId : Moves(i)
    BY <1>1 DEF Moves
  <1>3. ASSUME NEW m \in Message
        PROVE  Phase(m)'
    <2>1. \A kind \in Transitions : /\ jobs'[<<m, kind>>].state = jobs[<<m, kind>>].state
                                    /\ jobs'[<<m, kind>>].due = jobs[<<m, kind>>].due
      BY <1>1, Ids DEF IsTransition, Transitions, Hooks
    <2>2. \A kind \in Hooks : jobs'[<<m, kind>>].state = "none"
                                    <=> jobs[<<m, kind>>].state = "none"
      BY <1>1, Ids
    <2>3. QED
      BY <2>1, <2>2, PhaseStill
  <1>4. QED
    BY <1>1, <1>2, <1>3

LEMMA RetryWebhookKeeps ==
    ASSUME SimulationAssumption, SimInv, NEW j \in HookId, RetryWebhook(j)
    PROVE  SimInv'
  <1>1. /\ UNCHANGED <<clock, status, events, url, workers, posts, accepted, recovered, crashes>>
        /\ jobs[j].state \in {"done", "failed"} /\ replays' = replays + 1
    BY DEF RetryWebhook
  <1>2. PICK now \in Recent : jobs' = [jobs EXCEPT ![j] = Replayed(jobs[j], now)]
    BY DEF RetryWebhook
  <1> DEFINE row == Replayed(jobs[j], now)
  <1>3. /\ j \in JobId /\ ~IsTransition(j) /\ jobs[j] \in Job /\ now \in Nat
        /\ jobs[j].attempts \in Nat /\ recovered[j] \in Nat /\ Budget \in Nat /\ Budget > 0
    <2>1. j \in JobId /\ ~IsTransition(j)
      BY Ids
    <2>2. jobs[j] \in Job /\ recovered[j] \in Nat
      BY <2>1 DEF SimInv, TypeOK
    <2>3. now \in Nat
      BY DEF Recent, SimInv, TypeOK
    <2>4. QED
      BY <2>1, <2>2, <2>3 DEF Job, SimulationAssumption
  <1>4. /\ row \in Job /\ row.state = "pending" /\ row.attempts = jobs[j].attempts
        /\ row.max_attempts = jobs[j].attempts + Budget
    BY <1>3, ReplayedRow
  <1> HIDE DEF row
  <1>5. /\ jobs' \in [JobId -> Job] /\ jobs'[j] = row
        /\ \A i \in JobId : i # j => jobs'[i] = jobs[i]
        /\ \A i \in JobId : Moves(i)
        /\ \A m \in Message : Phase(m)'
    <2>1. jobs' = [jobs EXCEPT ![j] = row]
      BY <1>2 DEF row
    <2>2. /\ jobs[j].state # "none" /\ row.state # "none" /\ row.state # "running"
          /\ row.attempts >= jobs[j].attempts
      BY <1>1, <1>3, <1>4
    <2>3. QED
      BY <1>1, <1>3, <1>4, <2>1, <2>2, OneRow
  <1>6. \A w \in Worker : Knows(w)'
    BY <1>1, <1>5, KnowsStill
  <1>7. OneHolder'
    BY <1>1, HoldersStay
  <1>8. DoneMeansAccepted' /\ BudgetPlusRecoveries' /\ BudgetLeft'
    <2>1. DoneMeansAccepted'
      BY <1>1, <1>3, <1>4, <1>5, Ids DEF SimInv, DoneMeansAccepted
    <2>2. BudgetPlusRecoveries'
      BY <1>1, <1>3, <1>4, <1>5, Ids DEF SimInv, BudgetPlusRecoveries
    <2>3. BudgetLeft'
      BY <1>1, <1>3, <1>4, <1>5, Ids DEF SimInv, BudgetLeft
    <2>4. QED
      BY <2>1, <2>2, <2>3
  <1>9. TypeOK'
    <2>1. replays' \in Nat
      BY <1>1 DEF SimInv, TypeOK
    <2>2. jobs' \in [JobId -> Job]
      BY <1>5
    <2>3. UNCHANGED <<clock, status, events, url, workers, posts, accepted, recovered, crashes>>
      BY <1>1
    <2>4. QED
      BY <2>1, <2>2, <2>3 DEF SimInv, TypeOK
  <1>10. QED
    BY <1>5, <1>6, <1>7, <1>8, <1>9 DEF SimInv

-----------------------------------------------------------------------------
(* The loop.                                                               *)

\* A step that leaves the rows alone.
LEMMA RowsAlone ==
    ASSUME SimInv, UNCHANGED <<status, events, url, jobs, recovered>>,
           accepted \subseteq accepted'
    PROVE  /\ \A m \in Message : Phase(m)'
           /\ DoneMeansAccepted' /\ BudgetPlusRecoveries' /\ BudgetLeft'
           /\ \A j \in JobId : Moves(j)
  <1>1. \A m \in Message : Phase(m)'
    BY DEF SimInv, Phase, NoHooks, Called, Sent, Final
  <1>2. DoneMeansAccepted' /\ BudgetPlusRecoveries' /\ BudgetLeft'
    BY DEF SimInv, DoneMeansAccepted, BudgetPlusRecoveries, BudgetLeft
  <1>3. \A j \in JobId : Moves(j)
    BY DEF Moves
  <1>4. QED
    BY <1>1, <1>2, <1>3

LEMMA TickKeeps ==
    ASSUME SimInv, Tick
    PROVE  SimInv'
  <1>1. /\ clock' = clock + 1
        /\ UNCHANGED <<status, events, url, jobs, workers, posts, accepted, recovered>>
        /\ UNCHANGED <<crashes, replays>>
    BY DEF Tick
  <1>2. /\ \A m \in Message : Phase(m)'
        /\ DoneMeansAccepted' /\ BudgetPlusRecoveries' /\ BudgetLeft'
        /\ \A j \in JobId : Moves(j)
    BY <1>1, RowsAlone
  <1>3. \A w \in Worker : Knows(w)'
    BY <1>1, <1>2, KnowsStill DEF SimInv, TypeOK
  <1>4. OneHolder'
    BY <1>1, HoldersStay
  <1>5. TypeOK'
    BY <1>1 DEF SimInv, TypeOK
  <1>6. QED
    BY <1>2, <1>3, <1>4, <1>5 DEF SimInv

LEMMA IdleLoop == Idle \in Loop /\ Idle.pc = "idle"
  BY DEF Idle, Loop

LEMMA CrashKeeps ==
    ASSUME SimInv, NEW w \in Worker, Crash(w)
    PROVE  SimInv'
  <1>1. /\ workers' = [workers EXCEPT ![w] = Idle] /\ crashes' = crashes + 1
        /\ UNCHANGED <<clock, status, events, url, jobs, posts, accepted, recovered, replays>>
    BY DEF Crash
  <1>2. /\ \A m \in Message : Phase(m)'
        /\ DoneMeansAccepted' /\ BudgetPlusRecoveries' /\ BudgetLeft'
        /\ \A j \in JobId : Moves(j)
    BY <1>1, RowsAlone
  <1>3. /\ workers' \in [Worker -> Loop]
        /\ \A v \in Worker : workers'[v] = workers[v] \/ workers'[v] = Idle
    BY <1>1, IdleLoop DEF SimInv, TypeOK
  <1>4. \A v \in Worker : Knows(v)'
    BY <1>1, <1>2, <1>3, KnowsStill DEF SimInv, TypeOK
  <1>5. OneHolder'
    BY <1>3, HoldersStay
  <1>6. TypeOK'
    BY <1>1, <1>3 DEF SimInv, TypeOK
  <1>7. QED
    BY <1>2, <1>4, <1>5, <1>6 DEF SimInv

LEMMA PostKeeps ==
    ASSUME SimInv, NEW w \in Worker, Post(w)
    PROVE  SimInv'
  <1> DEFINE j == workers[w].job
  <1>1. /\ workers[w].pc = "post" /\ posts' = [posts EXCEPT ![j] = @ + 1]
        /\ UNCHANGED <<clock, status, events, url, jobs, recovered, crashes, replays>>
    BY DEF Post
  <1>2. PICK took \in BOOLEAN :
            /\ accepted' = IF took THEN accepted \cup {j} ELSE accepted
            /\ \E success \in Answers(took) :
                workers' = [workers EXCEPT ![w] = [@ EXCEPT !.pc = "finish", !.success = success]]
    BY DEF Post
  <1>3. PICK success \in Answers(took) :
            workers' = [workers EXCEPT ![w] = [@ EXCEPT !.pc = "finish", !.success = success]]
    BY <1>2
  <1> DEFINE loop == [workers[w] EXCEPT !.pc = "finish", !.success = success]
  <1>4. success \in BOOLEAN /\ (success => took)
    BY DEF Answers
  <1>5. workers[w] \in Loop
    BY DEF SimInv, TypeOK
  <1>6. loop \in Loop
    BY <1>4, <1>5 DEF Loop
  <1>7. /\ loop.pc = "finish" /\ loop.job = j /\ loop.success = success
        /\ loop.attempts = workers[w].attempts /\ loop.max_attempts = workers[w].max_attempts
    BY <1>5 DEF Loop
  <1>8. workers' = [workers EXCEPT ![w] = loop]
    BY <1>3
  <1> HIDE DEF loop
  <1>9. /\ workers' \in [Worker -> Loop] /\ workers'[w] = loop
        /\ \A v \in Worker : v # w => workers'[v] = workers[v]
    BY <1>6, <1>8 DEF SimInv, TypeOK
  <1>10. /\ j \in JobId /\ j \in HookId /\ ~IsTransition(j)
         /\ jobs[j].state = "none" => status[j[1]] = "gone"
         /\ jobs[j].state # "none" => workers[w].attempts <= jobs[j].attempts
         /\ Holds(w) => workers[w].max_attempts = jobs[j].max_attempts
    BY <1>1, Ids DEF SimInv, Knows
  <1>11. accepted \subseteq accepted' /\ accepted' \in SUBSET HookId /\ (success => j \in accepted')
    BY <1>2, <1>4, <1>10 DEF SimInv, TypeOK
  <1>12. /\ \A m \in Message : Phase(m)'
         /\ DoneMeansAccepted' /\ BudgetPlusRecoveries' /\ BudgetLeft'
         /\ \A i \in JobId : Moves(i)
    BY <1>1, <1>11, RowsAlone
  <1>13. Knows(w)'
    BY <1>1, <1>7, <1>9, <1>10, <1>11 DEF Knows, Holds
  <1>14. \A v \in Worker : v # w => Knows(v)'
    BY <1>1, <1>9, <1>11, <1>12, KnowsStill DEF SimInv, TypeOK
  <1>15. OneHolder'
    BY <1>1, <1>7, <1>9, HoldersStay
  <1>16. TypeOK'
    <2>1. posts' \in [HookId -> Nat]
      BY <1>1, <1>10 DEF SimInv, TypeOK
    <2>2. QED
      BY <1>1, <1>9, <1>11, <2>1 DEF SimInv, TypeOK
  <1>17. QED
    BY <1>12, <1>13, <1>14, <1>15, <1>16 DEF SimInv
\* The oldest ready job, under an attempt nobody has had.  The final transition is only
\* ready when "sent" is done.
LEMMA NextJobKeeps ==
    ASSUME SimulationAssumption, SimInv, NEW w \in Worker, NextJob(w)
    PROVE  SimInv'
  <1>1. UNCHANGED <<clock, status, events, url, posts, accepted, crashes, replays>>
    BY DEF NextJob
  <1>2. PICK now \in Recent, j \in JobId :
            /\ j \in Ready(now)
            /\ jobs' = [jobs EXCEPT ![j] = Claimed(jobs[j], now)]
            /\ recovered' = [recovered EXCEPT ![j] = IF jobs[j].state = "running" THEN @ + 1 ELSE @]
            /\ workers' = [workers EXCEPT
                    ![w] = [pc |-> IF IsTransition(j) THEN "transition" ELSE "post", job |-> j,
                            attempts |-> jobs'[j].attempts, max_attempts |-> jobs[j].max_attempts,
                            now |-> now, success |-> FALSE]]
    BY DEF NextJob
  <1> DEFINE row == Claimed(jobs[j], now)
             loop == [pc |-> IF IsTransition(j) THEN "transition" ELSE "post", job |-> j,
                      attempts |-> jobs'[j].attempts, max_attempts |-> jobs[j].max_attempts,
                      now |-> now, success |-> FALSE]
             m == j[1]
  <1>3. now \in Nat
    BY DEF Recent, SimInv, TypeOK
  <1>4. jobs[j] \in Job /\ recovered[j] \in Nat
    BY DEF SimInv, TypeOK
  <1>5. /\ jobs[j].state \in {"pending", "running"} /\ (IsTransition(j) => Earlier(j) = {})
        /\ jobs[j].attempts \in Nat /\ jobs[j].max_attempts \in Nat
    BY <1>2, <1>4 DEF Ready, Claimable, Job
  <1>6. jobs' = [jobs EXCEPT ![j] = row]
    BY <1>2
  <1>7. /\ row \in Job /\ row.state = "running" /\ row.attempts = jobs[j].attempts + 1
        /\ row.due = jobs[j].due /\ row.max_attempts = jobs[j].max_attempts
    BY <1>3, <1>4, ClaimedRow
  <1> HIDE DEF row
  <1>8. /\ jobs' \in [JobId -> Job] /\ jobs'[j] = row
        /\ \A i \in JobId : i # j => jobs'[i] = jobs[i]
    BY <1>6, <1>7 DEF SimInv, TypeOK
  <1>9. /\ loop \in Loop /\ loop.pc # "idle" /\ loop.pc # "finish" /\ loop.job = j
        /\ (loop.pc = "transition" <=> IsTransition(j))
        /\ loop.attempts = row.attempts /\ loop.max_attempts = row.max_attempts
    BY <1>3, <1>5, <1>7, <1>8 DEF Loop
  <1>10. workers' = [workers EXCEPT ![w] = loop]
    BY <1>2
  <1> HIDE DEF loop
  <1>11. /\ workers' \in [Worker -> Loop] /\ workers'[w] = loop
         /\ \A v \in Worker : v # w => workers'[v] = workers[v]
    BY <1>9, <1>10 DEF SimInv, TypeOK
  <1>12. /\ recovered' \in [JobId -> Nat]
         /\ recovered'[j] = IF jobs[j].state = "running" THEN recovered[j] + 1 ELSE recovered[j]
         /\ \A i \in JobId : i # j => recovered'[i] = recovered[i]
    BY <1>2, <1>4 DEF SimInv, TypeOK
  <1>13. \A i \in JobId : Moves(i)
    BY <1>1, <1>5, <1>7, <1>8 DEF Moves
  <1>14. Knows(w)'
    BY <1>5, <1>7, <1>8, <1>9, <1>11 DEF Knows, Holds
  <1>15. \A v \in Worker : v # w => Knows(v)'
    BY <1>1, <1>8, <1>11, <1>13, KnowsStill
  <1>16. OneHolder'
    <2>1. ASSUME NEW v \in Worker, v # w, workers[v].pc # "idle", workers[v].job = j
          PROVE  workers[v].attempts < loop.attempts
      <3>1. workers[v].attempts <= jobs[j].attempts /\ workers[v].attempts \in Nat
        BY <1>5, <2>1 DEF SimInv, Knows, TypeOK, Loop
      <3>2. QED
        BY <1>5, <1>7, <1>9, <3>1
    <2>2. \A v \in Worker : workers[v].attempts \in Nat
      BY DEF SimInv, TypeOK, Loop
    <2>3. loop.attempts \in Nat
      BY <1>5, <1>7, <1>9
    <2>4. ASSUME NEW u \in Worker, NEW v \in Worker, u # v, workers'[u].pc # "idle",
                 workers'[v].pc # "idle", workers'[u].job = workers'[v].job
          PROVE  workers'[u].attempts # workers'[v].attempts
      <3>1. CASE u = w
        BY <1>9, <1>11, <2>1, <2>2, <2>3, <2>4, <3>1
      <3>2. CASE v = w
        BY <1>9, <1>11, <2>1, <2>2, <2>3, <2>4, <3>2
      <3>3. CASE u # w /\ v # w
        BY <1>11, <2>4, <3>3 DEF SimInv, OneHolder
      <3>4. QED
        BY <3>1, <3>2, <3>3
    <2>5. QED
      BY <2>4 DEF OneHolder
  <1>17. DoneMeansAccepted' /\ BudgetLeft'
    BY <1>1, <1>7, <1>8, <1>12, Ids DEF SimInv, DoneMeansAccepted, BudgetLeft
  <1>18. BudgetPlusRecoveries'
    <2>1. j \in HookId => row.attempts <= row.max_attempts + recovered'[j]
      <3>1. CASE jobs[j].state = "running"
        BY <1>4, <1>5, <1>7, <1>12, <3>1 DEF SimInv, BudgetPlusRecoveries
      <3>2. CASE jobs[j].state = "pending"
        BY <1>4, <1>5, <1>7, <1>12, <3>2 DEF SimInv, BudgetLeft
      <3>3. QED
        BY <1>5, <3>1, <3>2
    <2>2. QED
      BY <1>8, <1>12, <2>1, Ids DEF SimInv, BudgetPlusRecoveries
  <1>19. m \in Message /\ Phase(m) /\ status[m] \in Status /\ j = <<m, j[2]>>
         /\ j[2] \in Transitions \cup Hooks
    BY Ids DEF SimInv, TypeOK
  <1>20. CASE ~IsTransition(j)
    <2>1. /\ jobs[j].state # "none" /\ row.state # "none"
          /\ row.attempts >= jobs[j].attempts /\ row.attempts > jobs[j].attempts
      BY <1>5, <1>7
    <2>2. \A x \in Message : Phase(x)'
      BY <1>1, <1>6, <1>7, <1>20, <2>1, OneRow
    <2>3. QED
      BY <2>2, <1>1, <1>8, <1>11, <1>12, <1>14, <1>15, <1>16, <1>17, <1>18 DEF SimInv, TypeOK
  <1>21. CASE IsTransition(j)
    <2>1. /\ \A kind \in Transitions \cup Hooks : <<m, kind>> # j =>
                    jobs'[<<m, kind>>] = jobs[<<m, kind>>]
          /\ status'[m] = status[m] /\ events'[m] = events[m] /\ url'[m] = url[m]
      BY <1>1, <1>8, <1>19, Ids
    <2>2. ASSUME j[2] = "sent"
          PROVE  Phase(m)'
      <3>1. j = <<m, "sent">> /\ Sent(m) = jobs[j]
        BY <1>19, <2>2 DEF Sent
      <3>2. status[m] = "queued"
        BY <1>5, <1>19, <3>1, <2>2 DEF Phase, Status, Transitions
      <3>3. Sent(m)' = row /\ Final(m)' = Final(m)
        BY <1>8, <2>1, <3>1 DEF Sent, Final, Transitions
      <3>4. NoHooks(m)' <=> NoHooks(m)
        BY <2>1, <3>1 DEF NoHooks, Hooks
      <3>5. QED
        BY <1>7, <1>19, <2>1, <3>1, <3>2, <3>3, <3>4 DEF Phase
    <2>3. ASSUME j[2] = "final"
          PROVE  Phase(m)'
      <3>1. j = <<m, "final">> /\ Final(m) = jobs[j]
        BY <1>19, <2>3 DEF Final
      <3>2. status[m] \in {"queued", "sent"}
        BY <1>5, <1>19, <3>1, <2>3 DEF Phase, Status, Transitions
      <3>3. status[m] # "queued"
        <4>1. SUFFICES ASSUME status[m] = "queued" PROVE <<m, "sent">> \in Earlier(j)
          BY <1>5, <1>21
        <4>2. <<m, "sent">> \in JobId /\ IsTransition(<<m, "sent">>)
          BY <1>19, Ids DEF IsTransition, Transitions
        <4>3. QED
          BY <1>19, <3>1, <4>1, <4>2 DEF Phase, Earlier, Sent
      <3>4. Final(m)' = row /\ Sent(m)' = Sent(m)
        BY <1>8, <2>1, <3>1 DEF Sent, Final, Transitions
      <3>5. /\ Called(m, "onSent")' <=> Called(m, "onSent")
            /\ jobs'[<<m, "onFinal">>] = jobs[<<m, "onFinal">>]
        BY <2>1, <3>1 DEF Called, Hooks
      <3>6. QED
        BY <1>7, <1>19, <2>1, <3>2, <3>3, <3>4, <3>5 DEF Phase
    <2>4. Phase(m)'
      BY <1>21, <2>2, <2>3 DEF IsTransition, Transitions
    <2>5. ASSUME NEW x \in Message, x # m
          PROVE  Phase(x)'
      <3>1. \A kind \in Transitions \cup Hooks : jobs'[<<x, kind>>] = jobs[<<x, kind>>]
        BY <1>8, <2>5, Ids
      <3>2. QED
        BY <1>1, <3>1, PhaseStill
    <2>6. QED
      BY <2>4, <2>5, <1>1, <1>8, <1>11, <1>12, <1>14, <1>15, <1>16, <1>17, <1>18
         DEF SimInv, TypeOK
  <1>22. QED
    BY <1>20, <1>21

\* A loop that is done.
LEMMA LoopDone ==
    ASSUME SimInv, NEW w \in Worker, workers' = [workers EXCEPT ![w] = Idle],
           jobs' \in [JobId -> Job], UNCHANGED accepted, \A j \in JobId : Moves(j)
    PROVE  workers' \in [Worker -> Loop] /\ OneHolder' /\ \A v \in Worker : Knows(v)'
  <1>1. \A v \in Worker : workers'[v] = workers[v] \/ workers'[v] = Idle
    BY DEF SimInv, TypeOK
  <1>2. workers' \in [Worker -> Loop]
    BY IdleLoop DEF SimInv, TypeOK
  <1>3. QED
    BY <1>1, <1>2, KnowsStill, HoldersStay

LEMMA FinishWebhookKeeps ==
    ASSUME SimulationAssumption, SimInv, NEW w \in Worker, FinishWebhook(w)
    PROVE  SimInv'
  <1> DEFINE loop == workers[w]
             j == loop.job
             t == loop.now + RetryDelay(loop.attempts)
             s == Outcome(loop)
             row == [jobs[j] EXCEPT !.state = s, !.lease_until = 0, !.due = t]
  <1>1. /\ loop.pc = "finish" /\ workers' = [workers EXCEPT ![w] = Idle]
        /\ UNCHANGED <<clock, status, events, url, posts, accepted, recovered, crashes, replays>>
        /\ jobs' = IF Holds(w) THEN [jobs EXCEPT ![j] = row] ELSE jobs
    BY DEF FinishWebhook
  <1>2. /\ j \in JobId /\ j \in HookId /\ ~IsTransition(j) /\ (loop.success => j \in accepted)
        /\ Holds(w) => loop.max_attempts = jobs[j].max_attempts
    BY <1>1, Ids DEF SimInv, Knows
  <1>3. loop \in Loop /\ loop.now \in Nat /\ loop.attempts \in Nat /\ loop.success \in BOOLEAN
        /\ loop.max_attempts \in Nat /\ jobs[j] \in Job /\ recovered[j] \in Nat
    BY <1>2 DEF SimInv, TypeOK, Loop
  <1>4. t \in Nat
    BY <1>3, RetryLater
  <1>5. /\ s \in {"done", "failed", "pending"}
        /\ s = "done" => j \in accepted
        /\ s = "pending" => loop.attempts < loop.max_attempts
    BY <1>2, <1>3 DEF Outcome
  <1> HIDE DEF s, t
  <1>6. /\ row \in Job /\ row.state = s /\ row.attempts = jobs[j].attempts
        /\ row.max_attempts = jobs[j].max_attempts
    BY <1>3, <1>4, <1>5 DEF Job
  <1> HIDE DEF row
  <1>7. CASE Holds(w)
    <2>1. /\ jobs[j].state = "running" /\ jobs[j].attempts = loop.attempts
          /\ jobs' = [jobs EXCEPT ![j] = row]
      BY <1>1, <1>7 DEF Holds
    <2>2. /\ jobs' \in [JobId -> Job] /\ jobs'[j] = row
          /\ \A i \in JobId : i # j => jobs'[i] = jobs[i]
          /\ \A i \in JobId : Moves(i)
          /\ \A m \in Message : Phase(m)'
      <3>1. /\ jobs[j].state # "none" /\ row.state # "none" /\ row.state # "running"
            /\ row.attempts >= jobs[j].attempts
        BY <1>3, <1>5, <1>6, <2>1
      <3>2. QED
        BY <1>1, <1>2, <1>6, <2>1, <3>1, OneRow
    <2>3. workers' \in [Worker -> Loop] /\ OneHolder' /\ \A v \in Worker : Knows(v)'
      BY <1>1, <2>2, LoopDone
    <2>4. DoneMeansAccepted'
      BY <1>1, <1>5, <1>6, <2>2, Ids DEF SimInv, DoneMeansAccepted
    <2>5. BudgetPlusRecoveries'
      BY <1>1, <1>2, <1>6, <2>2, Ids DEF SimInv, BudgetPlusRecoveries
    <2>6. BudgetLeft'
      BY <1>1, <1>2, <1>3, <1>5, <1>6, <1>7, <2>1, <2>2, Ids DEF SimInv, BudgetLeft
    <2>7. TypeOK'
      BY <1>1, <2>2, <2>3 DEF SimInv, TypeOK
    <2>8. QED
      BY <2>2, <2>3, <2>4, <2>5, <2>6, <2>7 DEF SimInv
  <1>8. CASE ~Holds(w)
    <2>1. UNCHANGED jobs
      BY <1>1, <1>8
    <2>2. /\ \A m \in Message : Phase(m)'
          /\ DoneMeansAccepted' /\ BudgetPlusRecoveries' /\ BudgetLeft'
          /\ \A i \in JobId : Moves(i)
      BY <1>1, <2>1, RowsAlone
    <2>3. workers' \in [Worker -> Loop] /\ OneHolder' /\ \A v \in Worker : Knows(v)'
      BY <1>1, <2>1, <2>2, LoopDone DEF SimInv, TypeOK
    <2>4. TypeOK'
      BY <1>1, <2>1, <2>3 DEF SimInv, TypeOK
    <2>5. QED
      BY <2>2, <2>3, <2>4 DEF SimInv
  <1>9. QED
    BY <1>7, <1>8
LEMMA AppendedTo ==
    ASSUME NEW log \in Seq(Status), NEW s \in Status
    PROVE  /\ Append(log, s) \in Seq(Status) /\ Len(Append(log, s)) = Len(log) + 1
           /\ \A i \in 1..Len(log) : Append(log, s)[i] = log[i]
           /\ Append(log, s)[Len(log) + 1] = s
  BY AppendProperties

LEMMA Appended ==
    /\ Append(<<"queued">>, "sent") = <<"queued", "sent">>
    /\ Append(<<"queued", "sent">>, "final") = <<"queued", "sent", "final">>
  <1> DEFINE one == <<"queued">>
             two == <<"queued", "sent">>
             three == <<"queued", "sent", "final">>
  <1>1. /\ one \in Seq(Status) /\ Len(one) = 1 /\ one[1] = "queued"
        /\ two \in Seq(Status) /\ Len(two) = 2 /\ two[1] = "queued" /\ two[2] = "sent"
        /\ three \in Seq(Status) /\ Len(three) = 3
        /\ three[1] = "queued" /\ three[2] = "sent" /\ three[3] = "final"
        /\ "sent" \in Status /\ "final" \in Status
    BY DEF Status
  <1> HIDE DEF one, two, three
  <1>2. /\ Append(one, "sent") \in Seq(Status) /\ Len(Append(one, "sent")) = 2
        /\ Append(one, "sent")[1] = "queued" /\ Append(one, "sent")[2] = "sent"
    <2>1. /\ Append(one, "sent") \in Seq(Status)
          /\ Len(Append(one, "sent")) = Len(one) + 1
          /\ \A i \in 1..Len(one) : Append(one, "sent")[i] = one[i]
          /\ Append(one, "sent")[Len(one) + 1] = "sent"
      BY <1>1, AppendedTo
    <2>2. QED
      BY <1>1, <2>1
  <1>3. /\ Append(two, "final") \in Seq(Status) /\ Len(Append(two, "final")) = 3
        /\ Append(two, "final")[1] = "queued" /\ Append(two, "final")[2] = "sent"
        /\ Append(two, "final")[3] = "final"
    <2>1. /\ Append(two, "final") \in Seq(Status)
          /\ Len(Append(two, "final")) = Len(two) + 1
          /\ \A i \in 1..Len(two) : Append(two, "final")[i] = two[i]
          /\ Append(two, "final")[Len(two) + 1] = "final"
      BY <1>1, AppendedTo
    <2>2. QED
      BY <1>1, <2>1
  <1>4. Append(one, "sent") = two
    <2>1. \A i \in 1..2 : Append(one, "sent")[i] = two[i]
      BY <1>1, <1>2
    <2>2. QED
      BY <1>1, <1>2, <2>1, SeqEqual
  <1>5. Append(two, "final") = three
    <2>1. \A i \in 1..3 : Append(two, "final")[i] = three[i]
      BY <1>1, <1>3
    <2>2. QED
      BY <1>1, <1>3, <2>1, SeqEqual
  <1>6. QED
    BY <1>4, <1>5 DEF one, two, three

\* The commit of a transition: the message is where the transition expects it, and the
\* callback it creates did not exist.
LEMMA CompleteTransitionKeeps ==
    ASSUME SimulationAssumption, SimInv, NEW w \in Worker, CompleteTransition(w)
    PROVE  SimInv'
  <1>1. /\ workers[w].pc = "transition" /\ workers' = [workers EXCEPT ![w] = Idle]
        /\ UNCHANGED <<clock, url, posts, accepted, recovered, crashes, replays>>
    BY DEF CompleteTransition
  <1>7. PICK j \in JobId : j = workers[w].job /\ IsTransition(j)
    BY <1>1 DEF SimInv, Knows
  <1> DEFINE m == j[1]
             next == j[2]
             hook == <<m, HookOf(next)>>
             fresh == NewJob(workers[w].now)
             done == [jobs[j] EXCEPT !.state = "done"]
  <1>2. j \in JobId /\ IsTransition(j) /\ m \in Message /\ j = <<m, next>>
        /\ next \in {"sent", "final"}
    BY <1>7, Ids DEF IsTransition, Transitions
  <1>3. /\ jobs[j] \in Job /\ url[m] \in BOOLEAN /\ Phase(m) /\ status[m] \in Status
        /\ workers[w].now \in Nat
    BY <1>2 DEF SimInv, TypeOK, Loop
  <1>4. CASE ~Holds(w)
    <2>1. UNCHANGED <<status, events, jobs>>
      BY <1>4 DEF CompleteTransition
    <2>2. /\ \A x \in Message : Phase(x)'
          /\ DoneMeansAccepted' /\ BudgetPlusRecoveries' /\ BudgetLeft'
          /\ \A i \in JobId : Moves(i)
      BY <1>1, <2>1, RowsAlone
    <2>3. workers' \in [Worker -> Loop] /\ OneHolder' /\ \A v \in Worker : Knows(v)'
      BY <1>1, <2>1, <2>2, LoopDone DEF SimInv, TypeOK
    <2>4. TypeOK'
      BY <1>1, <2>1, <2>3 DEF SimInv, TypeOK
    <2>5. QED
      BY <2>2, <2>3, <2>4 DEF SimInv
  <1>5. CASE Holds(w)
    <2>1. /\ status' = [status EXCEPT ![m] = next]
          /\ events' = [events EXCEPT ![m] = Append(@, next)]
          /\ jobs' = [i \in JobId |-> CASE i = j -> done
                                        [] i = hook /\ url[m] -> fresh
                                        [] OTHER -> jobs[i]]
          /\ jobs[j].state = "running"
      BY <1>5, <1>7 DEF CompleteTransition, Holds
    <2>2. done \in Job /\ done.state = "done" /\ done.attempts = jobs[j].attempts
      BY <1>3 DEF Job
    <2>3. /\ fresh \in Job /\ fresh.state = "pending" /\ fresh.attempts = 0
          /\ fresh.max_attempts = Budget /\ Budget \in Nat /\ Budget > 0
      BY <1>3, NewRow DEF SimulationAssumption
    <2>4. /\ HookOf(next) \in {"onSent", "onFinal"} /\ hook \in HookId /\ hook \in JobId
          /\ hook # j /\ hook[1] = m /\ ~IsTransition(hook)
      BY <1>2, Ids DEF HookOf, Hooks
    <2> HIDE DEF hook, fresh, done
    <2>5. \A i \in JobId : jobs'[i] = CASE i = j -> done
                                        [] i = hook /\ url[m] -> fresh
                                        [] OTHER -> jobs[i]
      BY <2>1
    <2>6. /\ jobs'[j] = done
          /\ url[m] => jobs'[hook] = fresh
          /\ \A i \in JobId : i # j /\ (i # hook \/ ~url[m]) => jobs'[i] = jobs[i]
      BY <1>2, <2>4, <2>5
    <2>7. jobs' \in [JobId -> Job]
      <3>1. \A i \in JobId : jobs'[i] \in Job
        BY <2>2, <2>3, <2>6 DEF SimInv, TypeOK
      <3>2. QED
        BY <2>1, <3>1
    <2>8. /\ status'[m] = next /\ events'[m] = Append(events[m], next)
          /\ \A x \in Message : x # m => status'[x] = status[x] /\ events'[x] = events[x]
      BY <1>2, <2>1 DEF SimInv, TypeOK
    <2>9. \/ next = "sent" /\ status[m] = "queued"
          \/ next = "final" /\ status[m] = "sent"
      BY <1>2, <1>3, <2>1 DEF Phase, Status, Sent, Final, Transitions
    <2>10. jobs[hook].state = "none"
      BY <1>3, <2>9 DEF Phase, NoHooks, HookOf, hook
    <2>11. events'[m] = IF next = "sent" THEN <<"queued", "sent">>
                        ELSE <<"queued", "sent", "final">>
      <3>1. CASE next = "sent"
        <4>1. events[m] = <<"queued">>
          BY <1>3, <2>9, <3>1 DEF Phase
        <4>2. QED
          BY <2>8, <3>1, <4>1, Appended
      <3>2. CASE next = "final"
        <4>1. events[m] = <<"queued", "sent">>
          BY <1>3, <2>9, <3>2 DEF Phase
        <4>2. QED
          BY <2>8, <3>2, <4>1, Appended
      <3>3. QED
        BY <1>2, <3>1, <3>2
    <2>12. \A i \in JobId : Moves(i)
      <3>1. Moves(j)
        <4>1. jobs[j].attempts \in Nat
          BY <1>3 DEF Job
        <4>2. QED
          BY <2>1, <2>2, <2>6, <4>1 DEF Moves
      <3>2. Moves(hook)
        BY <2>4, <2>9, <2>10 DEF Moves
      <3>3. ASSUME NEW i \in JobId, i # j, i # hook
            PROVE  Moves(i)
        <4>1. jobs'[i] = jobs[i] /\ i[1] \in Message
          BY <2>6, <3>3, Ids
        <4>2. status[i[1]] = "gone" => status'[i[1]] = "gone"
          BY <2>8, <2>9, <4>1
        <4>3. QED
          BY <4>1, <4>2 DEF Moves
      <3>4. QED
        BY <3>1, <3>2, <3>3
    <2>13. workers' \in [Worker -> Loop] /\ OneHolder' /\ \A v \in Worker : Knows(v)'
      BY <1>1, <2>7, <2>12, LoopDone
    <2>14. \A i \in HookId : i \in JobId /\ i # j /\ recovered[i] \in Nat
      BY <1>2, Ids DEF SimInv, TypeOK
    <2>15. DoneMeansAccepted' /\ BudgetPlusRecoveries' /\ BudgetLeft'
      BY <1>1, <2>3, <2>6, <2>14 DEF SimInv, DoneMeansAccepted, BudgetPlusRecoveries, BudgetLeft
    <2>16. Phase(m)'
      <3>1. \A kind \in Transitions \cup Hooks :
                <<m, kind>> # j /\ <<m, kind>> # hook => jobs'[<<m, kind>>] = jobs[<<m, kind>>]
        BY <1>2, <2>6, Ids
      <3>2. jobs'[hook].state # "none" <=> url[m]
        BY <2>3, <2>4, <2>6, <2>10
      <3>3. url'[m] = url[m]
        BY <1>1
      <3>4. CASE next = "sent"
        <4>1. /\ j = <<m, "sent">> /\ hook = <<m, "onSent">>
              /\ status'[m] = "sent" /\ events'[m] = <<"queued", "sent">>
          BY <1>2, <2>8, <2>11, <3>4 DEF HookOf, hook
        <4>2. /\ jobs'[<<m, "final">>] = jobs[<<m, "final">>]
              /\ jobs'[<<m, "onFinal">>] = jobs[<<m, "onFinal">>]
          BY <3>1, <4>1 DEF Transitions, Hooks
        <4>3. Final(m).state = "pending" /\ jobs[<<m, "onFinal">>].state = "none"
          BY <1>3, <2>9, <3>4 DEF Phase, NoHooks
        <4>4. Sent(m)' = done /\ Final(m)' = Final(m)
          BY <2>6, <4>1, <4>2 DEF Sent, Final
        <4>5. Called(m, "onSent")'
          BY <3>2, <3>3, <4>1 DEF Called
        <4>6. QED
          BY <2>2, <4>1, <4>2, <4>3, <4>4, <4>5 DEF Phase
      <3>5. CASE next = "final"
        <4>1. /\ j = <<m, "final">> /\ hook = <<m, "onFinal">>
              /\ status'[m] = "final" /\ events'[m] = <<"queued", "sent", "final">>
          BY <1>2, <2>8, <2>11, <3>5 DEF HookOf, hook
        <4>2. /\ jobs'[<<m, "sent">>] = jobs[<<m, "sent">>]
              /\ jobs'[<<m, "onSent">>] = jobs[<<m, "onSent">>]
          BY <3>1, <4>1 DEF Transitions, Hooks
        <4>3. Sent(m).state = "done" /\ (jobs[<<m, "onSent">>].state # "none" <=> url[m])
          BY <1>3, <2>9, <3>5 DEF Phase, Called
        <4>4. Final(m)' = done /\ Sent(m)' = Sent(m)
          BY <2>6, <4>1, <4>2 DEF Sent, Final
        <4>5. Called(m, "onSent")' /\ Called(m, "onFinal")'
          BY <3>2, <3>3, <4>1, <4>2, <4>3 DEF Called
        <4>6. QED
          BY <2>2, <4>1, <4>3, <4>4, <4>5 DEF Phase
      <3>6. QED
        BY <1>2, <3>4, <3>5
    <2>17. ASSUME NEW x \in Message, x # m
           PROVE  Phase(x)'
      <3>1. \A kind \in Transitions \cup Hooks : jobs'[<<x, kind>>] = jobs[<<x, kind>>]
        BY <1>2, <2>4, <2>6, <2>17, Ids
      <3>2. QED
        BY <1>1, <2>8, <2>17, <3>1, PhaseStill
    <2>18. TypeOK'
      <3>1. status' \in [Message -> Status]
        BY <1>2, <2>1 DEF SimInv, TypeOK, Status
      <3>2. events' \in [Message -> Seq(Status)]
        <4>1. events[m] \in Seq(Status) /\ next \in Status
          BY <1>2 DEF SimInv, TypeOK, Status
        <4>2. Append(events[m], next) \in Seq(Status)
          BY <4>1
        <4>3. QED
          BY <2>1, <4>2 DEF SimInv, TypeOK
      <3>3. QED
        BY <1>1, <2>7, <2>13, <3>1, <3>2 DEF SimInv, TypeOK
    <2>19. \A x \in Message : Phase(x)'
      BY <2>16, <2>17
    <2>20. QED
      BY <2>13, <2>15, <2>18, <2>19 DEF SimInv
  <1>6. QED
    BY <1>4, <1>5

-----------------------------------------------------------------------------
(* The theorems.                                                           *)

LEMMA InitHolds ==
    ASSUME Init
    PROVE  SimInv
  <1>1. TypeOK
    <2>1. \A m \in Message : <<>> \in Seq(Status)
      OBVIOUS
    <2>2. QED
      BY <2>1, NoRow, IdleLoop DEF Init, TypeOK, Status
  <1>2. \A m \in Message : Phase(m)
    BY Ids, NoRow DEF Init, Phase
  <1>3. DoneMeansAccepted /\ BudgetPlusRecoveries /\ BudgetLeft
    BY Ids, NoRow DEF Init, DoneMeansAccepted, BudgetPlusRecoveries, BudgetLeft
  <1>4. QED
    BY <1>1, <1>2, <1>3, IdleLoop DEF Init, SimInv, OneHolder, Knows

LEMMA StepKeeps ==
    ASSUME SimulationAssumption, SimInv, [Next]_vars
    PROVE  SimInv'
  <1>1. CASE \E m \in Message, delay \in Delays, callback \in BOOLEAN :
                Schedule(m, delay, callback)
    BY <1>1, ScheduleKeeps
  <1>2. CASE \E m \in Message, callback \in BOOLEAN : Receive(m, callback)
    BY <1>2, ReceiveKeeps
  <1>3. CASE \E m \in Message : Delete(m)
    BY <1>3, DeleteKeeps
  <1>4. CASE \E j \in HookId : RetryWebhook(j)
    BY <1>4, RetryWebhookKeeps
  <1>5. CASE \E w \in Worker : Step(w) \/ Crash(w)
    BY <1>5, NextJobKeeps, CompleteTransitionKeeps, PostKeeps, FinishWebhookKeeps, CrashKeeps
       DEF Step
  <1>6. CASE Tick
    BY <1>6, TickKeeps
  <1>7. CASE UNCHANGED vars
    <2>1. /\ UNCHANGED <<clock, status, events, url, jobs, workers, posts, accepted>>
          /\ UNCHANGED <<recovered, crashes, replays>>
      BY <1>7 DEF vars
    <2>2. /\ \A m \in Message : Phase(m)'
          /\ DoneMeansAccepted' /\ BudgetPlusRecoveries' /\ BudgetLeft'
          /\ \A j \in JobId : Moves(j)
      BY <2>1, RowsAlone
    <2>3. OneHolder' /\ \A w \in Worker : Knows(w)'
      BY <2>1, <2>2, KnowsStill, HoldersStay DEF SimInv, TypeOK
    <2>4. TypeOK'
      BY <2>1 DEF SimInv, TypeOK
    <2>5. QED
      BY <2>2, <2>3, <2>4 DEF SimInv
  <1>8. QED
    BY <1>1, <1>2, <1>3, <1>4, <1>5, <1>6, <1>7 DEF Next

\* The invariant holds of simulation.go and the loops of worker.go together.
THEOREM SimulationInvariant == Spec => []SimInv
  <1>1. Init => SimInv
    BY InitHolds
  <1>2. SimInv /\ [Next]_vars => SimInv'
    BY SimulationAssumption, StepKeeps
  <1>3. QED
    BY <1>1, <1>2, PTL DEF Spec

\* Every variable keeps its type.
THEOREM SimulationTyped == Spec => []TypeOK
  <1>1. SimInv => TypeOK
    BY DEF SimInv
  <1>2. QED
    BY <1>1, SimulationInvariant, PTL

\* However many processes crash, outlive their lease or report late, the event log of a
\* message is a prefix of its life and its status is the last entry.
THEOREM LifeInOrder == Spec => []LogInOrder
  <1>1. SimInv => LogInOrder
    BY LogFollows
  <1>2. QED
    BY <1>1, SimulationInvariant, PTL

\* The event of a transition and its callback are one commit.
THEOREM CallbackPerEvent == Spec => []HookPerEvent
  <1>1. SimInv => HookPerEvent
    BY LogFollows
  <1>2. QED
    BY <1>1, SimulationInvariant, PTL

\* FinishWebhook records success only for callbacks whose receiver answered 2xx.
THEOREM DeliveredWasAnswered == Spec => []DoneMeansAccepted
  <1>1. SimInv => DoneMeansAccepted
    BY DEF SimInv
  <1>2. QED
    BY <1>1, SimulationInvariant, PTL

\* The attempt number is a fence: no two processes ever hold the same one of a job.
THEOREM AttemptsFence == Spec => []OneHolder
  <1>1. SimInv => OneHolder
    BY DEF SimInv
  <1>2. QED
    BY <1>1, SimulationInvariant, PTL

\* Whatever replays and late reports do, only recovered leases exceed the budget.
THEOREM BudgetRespected == Spec => []BudgetPlusRecoveries
  <1>1. SimInv => BudgetPlusRecoveries
    BY DEF SimInv
  <1>2. QED
    BY <1>1, SimulationInvariant, PTL

-----------------------------------------------------------------------------
(* Refinement: each action of Next is one of Delivery, or none.            *)

\* What a process is about to record was asked for.
Asked ==
    \A w \in Worker : workers[w].pc = "finish" => posts[workers[w].job] > 0

LEMMA AskedStays ==
    ASSUME SimInv, Asked, [Next]_vars
    PROVE  Asked'
  <1>1. posts \in [HookId -> Nat] /\ workers \in [Worker -> Loop]
    BY DEF SimInv, TypeOK
  <1>2. CASE UNCHANGED posts /\ \A w \in Worker : \/ workers'[w] = workers[w]
                                                  \/ workers'[w].pc # "finish"
    BY <1>2 DEF Asked
  <1>3. ASSUME NEW v \in Worker, Post(v)
        PROVE  Asked'
    <2> DEFINE j == workers[v].job
    <2>1. j \in HookId /\ posts' = [posts EXCEPT ![j] = @ + 1] /\ workers[v].pc = "post"
      BY <1>3, Ids DEF Post, SimInv, Knows
    <2>2. /\ posts'[j] > 0
          /\ \A i \in HookId : posts'[i] >= posts[i]
      BY <1>1, <2>1
    <2>3. workers'[v].job = j /\ \A w \in Worker : w # v => workers'[w] = workers[w]
      BY <1>1, <1>3 DEF Post
    <2>4. ASSUME NEW w \in Worker, workers[w].pc = "finish"
          PROVE  workers[w].job \in HookId
      BY <2>4, Ids DEF SimInv, Knows
    <2>5. ASSUME NEW w \in Worker, workers'[w].pc = "finish"
          PROVE  posts'[workers'[w].job] > 0
      <3>1. CASE w = v
        BY <2>2, <2>3, <3>1
      <3>2. CASE w # v
        <4>1. /\ workers'[w] = workers[w] /\ workers[w].job \in HookId
              /\ posts[workers[w].job] > 0
          BY <2>3, <2>4, <2>5, <3>2 DEF Asked
        <4>2. posts[workers[w].job] \in Nat /\ posts'[workers[w].job] \in Nat
          BY <1>1, <2>1, <4>1
        <4>3. QED
          BY <2>2, <4>1, <4>2
      <3>3. QED
        BY <3>1, <3>2
    <2>6. QED
      BY <2>5 DEF Asked
  <1>4. ASSUME NEW v \in Worker, NextJob(v)
        PROVE  Asked'
    BY <1>1, <1>2, <1>4 DEF NextJob
  <1>5. ASSUME NEW v \in Worker, CompleteTransition(v) \/ FinishWebhook(v) \/ Crash(v)
        PROVE  Asked'
    BY <1>1, <1>2, <1>5 DEF CompleteTransition, FinishWebhook, Crash, Idle
  <1>6. CASE \/ \E m \in Message, delay \in Delays, callback \in BOOLEAN :
                   Schedule(m, delay, callback)
             \/ \E m \in Message, callback \in BOOLEAN : Receive(m, callback)
    BY <1>2, <1>6 DEF Schedule, Receive
  <1>7. CASE \E m \in Message : Delete(m)
    BY <1>2, <1>7 DEF Delete
  <1>8. CASE \E j \in HookId : RetryWebhook(j)
    BY <1>2, <1>8 DEF RetryWebhook
  <1>9. CASE Tick \/ UNCHANGED vars
    BY <1>2, <1>9 DEF Tick, vars
  <1>10. QED
    BY <1>3, <1>4, <1>5, <1>6, <1>7, <1>8, <1>9 DEF Next, Step

LEMMA Callbacks == Promise!Callback = HookId
  BY DEF Promise!Callback, HookId, Hooks

\* A step that leaves the standing of every callback and the world alone is none of Delivery.
LEMMA Stutters ==
    ASSUME SimInv, \A j \in HookId : Standing(jobs'[j].state) = Standing(jobs[j].state),
           UNCHANGED <<status, url, posts, accepted, replays>>
    PROVE  UNCHANGED Promise!deliveryVars
  BY DEF Promise!deliveryVars

LEMMA StandingIs ==
    /\ Standing("none") = "none" /\ Standing("pending") = "owed" /\ Standing("running") = "owed"
    /\ Standing("done") = "delivered" /\ Standing("failed") = "given up"
  BY DEF Standing

LEMMA ScheduleSends ==
    ASSUME SimInv, NEW m \in Message, NEW delay \in Delays, NEW callback \in BOOLEAN,
           Schedule(m, delay, callback)
    PROVE  Promise!Send(m, callback)
  <1>1. \A j \in HookId : jobs'[j] = jobs[j]
    BY Ids DEF Schedule
  <1>2. QED
    BY <1>1 DEF Promise!Send, Schedule

LEMMA ReceiveReceives ==
    ASSUME SimulationAssumption, SimInv, NEW m \in Message, NEW callback \in BOOLEAN,
           Receive(m, callback)
    PROVE  Promise!Receive(m, callback)
  <1> DEFINE c == <<m, "onReceive">>
  <1>1. PICK born \in Recent : jobs' = IF callback THEN [jobs EXCEPT ![c] = NewJob(born)] ELSE jobs
    BY DEF Receive
  <1>2. /\ status[m] = "free" /\ status' = [status EXCEPT ![m] = "received"]
        /\ url' = [url EXCEPT ![m] = callback] /\ url'[m] = callback
        /\ UNCHANGED <<posts, accepted, replays>>
    BY DEF Receive, SimInv, TypeOK
  <1>3. NewJob(born).state = "pending"
    BY NewRow DEF Recent
  <1>4. \A j \in HookId : Standing(jobs'[j].state)
                           = IF j = c /\ url'[m] THEN "owed" ELSE Standing(jobs[j].state)
    BY <1>1, <1>2, <1>3, StandingIs, Ids DEF SimInv, TypeOK
  <1>5. QED
    BY <1>2, <1>4, Callbacks DEF Promise!Receive, Promise!Moves

LEMMA DeleteDeletes ==
    ASSUME SimInv, NEW m \in Message, Delete(m)
    PROVE  Promise!Delete(m)
  <1>1. \A j \in HookId : Standing(jobs'[j].state)
                            = IF j[1] = m THEN "none" ELSE Standing(jobs[j].state)
    BY NoRow, StandingIs, Ids DEF Delete
  <1>2. QED
    BY <1>1, Callbacks DEF Promise!Delete, Delete

LEMMA RetryReplays ==
    ASSUME SimulationAssumption, SimInv, NEW j \in HookId, RetryWebhook(j)
    PROVE  Promise!Replay(j)
  <1>1. PICK now \in Recent : jobs' = [jobs EXCEPT ![j] = Replayed(jobs[j], now)]
    BY DEF RetryWebhook
  <1>2. Replayed(jobs[j], now).state = "pending"
    <2>1. jobs[j] \in Job /\ now \in Nat
      BY Ids DEF SimInv, TypeOK, Recent
    <2>2. QED
      BY <2>1, ReplayedRow
  <1>3. \A i \in HookId : Standing(jobs'[i].state)
                            = IF i = j THEN "owed" ELSE Standing(jobs[i].state)
    BY <1>1, <1>2, StandingIs, Ids DEF SimInv, TypeOK
  <1>4. Standing(jobs[j].state) \in {"delivered", "given up"}
    BY StandingIs DEF RetryWebhook
  <1>5. QED
    BY <1>3, <1>4 DEF Promise!Replay, RetryWebhook

LEMMA PostAsks ==
    ASSUME SimInv, NEW w \in Worker, Post(w)
    PROVE  \E j \in HookId : Promise!Ask(j)
  <1> PICK j \in HookId : j = workers[w].job
    BY Ids DEF Post, SimInv, Knows
  <1>1. /\ j \in HookId /\ j[1] \in Message /\ jobs[j] \in Job
        /\ jobs[j].state = "none" => status[j[1]] = "gone"
    BY Ids DEF Post, SimInv, Knows, TypeOK
  <1>2. jobs[j].state # "none" => Standing(jobs[j].state) # "none"
    BY <1>1, StandingIs DEF Job
  <1>3. posts \in [HookId -> Nat] /\ posts' = [posts EXCEPT ![j] = @ + 1]
    BY DEF SimInv, TypeOK, Post
  <1>4. {i \in HookId : posts'[i] > 0} = {i \in HookId : posts[i] > 0} \cup {j}
    BY <1>1, <1>3
  <1>5. accepted' \in {accepted, accepted \cup {j}} /\ UNCHANGED <<status, url, jobs, replays>>
    BY DEF Post
  <1>6. QED
    BY <1>1, <1>2, <1>4, <1>5 DEF Promise!Ask

LEMMA ClaimStutters ==
    ASSUME SimulationAssumption, SimInv, NEW w \in Worker, NextJob(w)
    PROVE  UNCHANGED Promise!deliveryVars
  <1>1. PICK now \in Recent, j \in JobId :
            j \in Ready(now) /\ jobs' = [jobs EXCEPT ![j] = Claimed(jobs[j], now)]
    BY DEF NextJob
  <1>2. jobs[j].state \in {"pending", "running"}
    BY <1>1 DEF Ready, Claimable
  <1>3. Claimed(jobs[j], now).state = "running"
    <2>1. jobs[j] \in Job /\ now \in Nat
      BY DEF SimInv, TypeOK, Recent
    <2>2. QED
      BY <2>1, ClaimedRow
  <1>4. \A i \in HookId : Standing(jobs'[i].state) = Standing(jobs[i].state)
    BY <1>1, <1>2, <1>3, StandingIs, Ids DEF SimInv, TypeOK
  <1>5. QED
    BY <1>4, Stutters DEF NextJob

LEMMA FinishRecords ==
    ASSUME SimulationAssumption, SimInv, Asked, NEW w \in Worker, FinishWebhook(w)
    PROVE  \/ Promise!Deliver(workers[w].job) \/ Promise!GiveUp(workers[w].job)
           \/ UNCHANGED Promise!deliveryVars
  <1> DEFINE loop == workers[w]
             j == loop.job
             t == loop.now + RetryDelay(loop.attempts)
             s == Outcome(loop)
             row == [jobs[j] EXCEPT !.state = s, !.lease_until = 0, !.due = t]
  <1>1. /\ loop.pc = "finish" /\ UNCHANGED <<status, url, posts, accepted, replays>>
        /\ jobs' = IF Holds(w) THEN [jobs EXCEPT ![j] = row] ELSE jobs
    BY DEF FinishWebhook
  <1>2. /\ j \in HookId /\ j \in JobId /\ jobs[j] \in Job /\ posts[j] > 0
        /\ loop.success => j \in accepted
    BY <1>1, Ids DEF SimInv, Knows, TypeOK, Asked
  <1>3. /\ s \in {"done", "failed", "pending"} /\ (s = "done" => j \in accepted)
    BY <1>2 DEF Outcome, SimInv, TypeOK, Loop
  <1>4. row.state = s
    BY <1>2 DEF Job
  <1>5. CASE ~ Holds(w)
    BY <1>1, <1>5, Stutters
  <1>6. CASE Holds(w)
    <2>1. jobs[j].state = "running"
      BY <1>6 DEF Holds
    <2> HIDE DEF s, row
    <2>2. \A i \in HookId : Standing(jobs'[i].state) = IF i = j THEN Standing(s)
                                                       ELSE Standing(jobs[i].state)
      <3>1. jobs' = [jobs EXCEPT ![j] = row] /\ jobs \in [JobId -> Job]
        BY <1>1, <1>6 DEF SimInv, TypeOK
      <3>2. \A i \in HookId : jobs'[i] = IF i = j THEN row ELSE jobs[i]
        BY <1>2, <3>1, Ids
      <3>3. QED
        BY <1>4, <3>2
    <2>3. CASE s = "done"
      BY <1>1, <1>2, <1>3, <2>1, <2>2, <2>3, StandingIs DEF Promise!Deliver
    <2>4. CASE s = "failed"
      BY <1>1, <1>2, <1>3, <2>1, <2>2, <2>4, StandingIs DEF Promise!GiveUp
    <2>5. CASE s = "pending"
      BY <1>1, <2>1, <2>2, <2>5, StandingIs, Stutters
    <2>6. QED
      BY <1>3, <2>3, <2>4, <2>5
  <1>7. QED
    BY <1>5, <1>6

LEMMA CompletionMoves ==
    ASSUME SimulationAssumption, SimInv, NEW w \in Worker, CompleteTransition(w)
    PROVE  \/ \E m \in Message : Promise!Sent(m) \/ Promise!Ended(m)
           \/ UNCHANGED Promise!deliveryVars
  <1>1. PICK j \in JobId : j = workers[w].job /\ IsTransition(j)
    BY DEF CompleteTransition, SimInv, Knows
  <1> DEFINE m == j[1]
             next == j[2]
             hook == <<m, HookOf(next)>>
             fresh == NewJob(workers[w].now)
  <1>2. m \in Message /\ j = <<m, next>> /\ next \in {"sent", "final"} /\ j \notin HookId
    BY <1>1, Ids DEF IsTransition, Transitions
  <1>3. UNCHANGED <<url, posts, accepted, replays>>
    BY DEF CompleteTransition
  <1>4. CASE ~ Holds(w)
    BY <1>3, <1>4, Stutters DEF CompleteTransition
  <1>5. CASE Holds(w)
    <2>1. /\ status' = [status EXCEPT ![m] = next] /\ jobs[j].state = "running"
          /\ jobs' = [i \in JobId |-> CASE i = j -> [jobs[j] EXCEPT !.state = "done"]
                                        [] i = hook /\ url[m] -> fresh
                                        [] OTHER -> jobs[i]]
      BY <1>1, <1>5 DEF CompleteTransition, Holds
    <2>2. fresh.state = "pending"
      BY NewRow DEF SimInv, TypeOK, Loop
    <2> HIDE DEF hook, fresh
    <2>3. \A i \in HookId : jobs'[i] = IF i = hook /\ url[m] THEN fresh ELSE jobs[i]
      BY <1>2, <2>1, Ids
    <2>4. \A i \in HookId : Standing(jobs'[i].state)
                              = IF i = hook /\ url'[m] THEN "owed" ELSE Standing(jobs[i].state)
      BY <1>3, <2>2, <2>3, StandingIs
    <2>5. /\ next = "sent" => status[m] = "queued"
          /\ next = "final" => status[m] = "sent"
      <3>1. Phase(m) /\ status[m] \in Status
        BY <1>2 DEF SimInv, TypeOK
      <3>2. QED
        BY <1>2, <2>1, <3>1 DEF Phase, Status, Sent, Final, Transitions
    <2>6. CASE next = "sent"
      <3>1. hook = <<m, "onSent">>
        BY <2>6 DEF HookOf, hook
      <3>2. Promise!Sent(m)
        BY <1>3, <2>1, <2>4, <2>5, <2>6, <3>1, Callbacks DEF Promise!Sent, Promise!Moves
      <3>3. QED
        BY <1>2, <3>2
    <2>7. CASE next = "final"
      <3>1. hook = <<m, "onFinal">>
        BY <2>7 DEF HookOf, hook
      <3>2. Promise!Ended(m)
        BY <1>3, <2>1, <2>4, <2>5, <2>7, <3>1, Callbacks DEF Promise!Ended, Promise!Moves
      <3>3. QED
        BY <1>2, <3>2
    <2>8. QED
      BY <1>2, <2>6, <2>7
  <1>6. QED
    BY <1>4, <1>5

LEMMA InitPromises ==
    ASSUME Init
    PROVE  Promise!Init
  <1>1. \A j \in HookId : Standing(jobs[j].state) = "none" /\ posts[j] = 0
    BY NoRow, StandingIs, Ids DEF Init
  <1>2. QED
    BY <1>1, Callbacks DEF Promise!Init, Init

LEMMA StepPromises ==
    ASSUME SimulationAssumption, SimInv, Asked, [Next]_vars
    PROVE  [Promise!Next]_Promise!deliveryVars
  <1>1. ASSUME NEW m \in Message, NEW delay \in Delays, NEW callback \in BOOLEAN,
               Schedule(m, delay, callback)
        PROVE  Promise!Next
    BY <1>1, ScheduleSends DEF Promise!Next
  <1>2. ASSUME NEW m \in Message, NEW callback \in BOOLEAN, Receive(m, callback)
        PROVE  Promise!Next
    BY <1>2, ReceiveReceives DEF Promise!Next
  <1>3. ASSUME NEW m \in Message, Delete(m)
        PROVE  Promise!Next
    BY <1>3, DeleteDeletes DEF Promise!Next
  <1>4. ASSUME NEW j \in HookId, RetryWebhook(j)
        PROVE  Promise!Next
    BY <1>4, RetryReplays, Callbacks DEF Promise!Next
  <1>5. ASSUME NEW w \in Worker, Post(w)
        PROVE  Promise!Next
    BY <1>5, PostAsks, Callbacks DEF Promise!Next
  <1>6. ASSUME NEW w \in Worker, FinishWebhook(w)
        PROVE  Promise!Next \/ UNCHANGED Promise!deliveryVars
    <2>1. workers[w].job \in HookId
      BY <1>6, Ids DEF FinishWebhook, SimInv, Knows
    <2>2. QED
      BY <1>6, <2>1, FinishRecords, Callbacks DEF Promise!Next
  <1>7. ASSUME NEW w \in Worker, CompleteTransition(w)
        PROVE  Promise!Next \/ UNCHANGED Promise!deliveryVars
    BY <1>7, CompletionMoves DEF Promise!Next
  <1>8. ASSUME NEW w \in Worker, NextJob(w)
        PROVE  UNCHANGED Promise!deliveryVars
    BY <1>8, ClaimStutters
  <1>9. ASSUME NEW w \in Worker, Crash(w)
        PROVE  UNCHANGED Promise!deliveryVars
    BY <1>9, Stutters DEF Crash
  <1>10. CASE Tick \/ UNCHANGED vars
    BY <1>10, Stutters DEF Tick, vars
  <1>11. QED
    BY <1>1, <1>2, <1>3, <1>4, <1>5, <1>6, <1>7, <1>8, <1>9, <1>10 DEF Next, Step

\* The job table and its processes implement Delivery, whatever crashes, outlives its lease or
\* reports late: a life goes on once and in order, a callback is owed with the step it tells
\* of, recorded as delivered only when it was accepted, given up only when it was asked, owed
\* again only by a replay.
THEOREM SimulationRefinement == Spec => RefinesDelivery
  <1>1. Init => SimInv /\ Asked
    BY InitHolds, IdleLoop DEF Init, Asked
  <1>2. SimInv /\ Asked /\ [Next]_vars => SimInv' /\ Asked'
    BY SimulationAssumption, StepKeeps, AskedStays
  <1>3. SimInv /\ Asked /\ [Next]_vars => [Promise!Next]_Promise!deliveryVars
    BY SimulationAssumption, StepPromises
  <1>4. Init => Promise!Init
    BY InitPromises
  <1>5. QED
    BY <1>1, <1>2, <1>3, <1>4, PTL DEF Spec, RefinesDelivery, Promise!Spec
=============================================================================
