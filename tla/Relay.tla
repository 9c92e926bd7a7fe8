-------------------------------- MODULE Relay --------------------------------
(***************************************************************************)
(* The real-SMS relay: the tables of RelayStore with everything that uses  *)
(* them.                                                                   *)
(*  - HTTP callers queue, replay and delete messages.                      *)
(*  - The server loop of internal/relay/worker.go recovers leases and,     *)
(*    when the driver is "twilio", claims and sends one job at a time.     *)
(*  - The carrier answers, loses the answer, and calls back later, out of  *)
(*    order and more than once.                                            *)
(*  - Android gateways claim jobs over HTTP, hand them to the phone's      *)
(*    radio and post the outcome; requests and answers may be lost, and    *)
(*    the app may be killed, re-created or reset.                          *)
(*  - The server may crash and restart with another driver at any time.    *)
(***************************************************************************)
EXTENDS RelayStore

CONSTANTS
    Drivers,    \* the drivers the operator may (re)start the server with
    Horizon,    \* bound: nobody queues a message after this time
    MaxTime,    \* bound: the clock stops here
    MaxCalls    \* bound: claim requests of one gateway in the server at once

ASSUME ConfigAssumption ==
    /\ Drivers \subseteq Driver \cup {"none"} /\ Drivers # {}
    /\ Horizon \in Nat /\ MaxTime \in Nat /\ MaxCalls \in Nat

VARIABLES
    driver,     \* TEXTDOCK_RELAY_DRIVER of the running process
    worker,     \* the server loop: program counter and the job in hand
    gateways,   \* enrolment of each gateway
    calls,      \* claim requests past the credential check, per gateway
    posts,      \* result requests past the credential check
    phone,      \* the gateway app: its preferences and its poll thread
    radio,      \* messages the phone's radio has not reported on yet
    submitted,  \* how often a carrier was asked to send the message
    fate,       \* what became of the message at the carrier
    receipts    \* callbacks Twilio may deliver, any number of times

serverVars == <<driver, worker, gateways, calls, posts>>
carrierVars == <<submitted, fate, receipts>>
phoneVars == <<phone, radio>>
vars == <<clock, storeVars, serverVars, phoneVars, carrierVars>>

Fate == {"none", "rejected", "accepted", "sent", "delivered", "failed", "mixed"}
ReceiptState == {"accepted", "sent", "delivered", "failed"}
Receipt == [provider_id: Nat, state: ReceiptState]
Result == [state: {"accepted", "sent", "failed", "unknown"}, provider_id: Nat]
GatewayState == {"sent", "failed", "unknown"}
Post == [gateway: Gateway, message: Message, token: Nat, state: GatewayState]
Worker == [pc: {"expire", "step", "send", "complete"}, job: Message \cup {None},
           token: Nat, result: Result]
\* job, token, phase and result are SharedPreferences and survive the process;
\* awaiting (the POST in progress) and submit (the job the poll thread is about
\* to hand to SmsManager) are the running thread's.
Phone == [job: Message \cup {None}, token: Nat, phase: {"idle", "dispatching", "ack"},
          result: GatewayState, awaiting: GatewayState \cup {"nothing"},
          submit: Message \cup {None}]

NoResult == [state |-> "unknown", provider_id |-> 0]
LoopStart == [pc |-> "expire", job |-> None, token |-> 0, result |-> NoResult]
IdlePhone == [job |-> None, token |-> 0, phase |-> "idle", result |-> "unknown",
              awaiting |-> "nothing", submit |-> None]

TypeOK ==
    /\ StoreTypeOK
    /\ driver \in Drivers
    /\ worker \in Worker
    /\ gateways \in [Gateway -> {"none", "active", "revoked"}]
    /\ calls \in [Gateway -> Nat]
    /\ posts \in SUBSET Post
    /\ phone \in [Gateway -> Phone]
    /\ radio \in [Gateway -> SUBSET Message]
    /\ submitted \in [Message -> Nat]
    /\ fate \in [Message -> Fate]
    /\ receipts \in [Message -> SUBSET Receipt]

Init ==
    /\ StoreInit
    /\ driver \in Drivers
    /\ worker = LoopStart
    /\ gateways = [g \in Gateway |-> "none"]
    /\ calls = [g \in Gateway |-> 0]
    /\ posts = {}
    /\ phone = [g \in Gateway |-> IdlePhone]
    /\ radio = [g \in Gateway |-> {}]
    /\ submitted = [m \in Message |-> 0]
    /\ fate = [m \in Message |-> "none"]
    /\ receipts = [m \in Message |-> {}]

-----------------------------------------------------------------------------
\* HTTP callers.  A refused request (ErrDisabled, ErrRecipient, ErrLimit,
\* ErrIdempotency) changes nothing and is no step.

Queue(m, k, c) ==
    /\ driver \in Driver /\ clock <= Horizon
    /\ \E born \in Recent : EnqueueRelay(m, k, driver, c, born)
    /\ UNCHANGED <<clock, serverVars, phoneVars, carrierVars>>

Replay(k, c) ==
    /\ driver \in Driver
    /\ ReplayRelay(k, driver, c)
    /\ UNCHANGED <<clock, serverVars, phoneVars, carrierVars>>

Delete(m) ==
    /\ DeleteMessages({m})
    /\ UNCHANGED <<clock, serverVars, phoneVars, carrierVars>>

Purge ==
    /\ DeleteMessages({m \in Message : Present(m)})
    /\ UNCHANGED <<clock, serverVars, phoneVars, carrierVars>>

-----------------------------------------------------------------------------
\* The server loop: recover leases, then try one job, then wait a second.

LoopExpire ==
    /\ worker.pc = "expire"
    /\ \E now \in Recent : ExpireRelays(now)
    /\ worker' = IF driver = "twilio" THEN [worker EXCEPT !.pc = "step"] ELSE worker
    /\ UNCHANGED <<clock, driver, gateways, calls, posts, phoneVars, carrierVars>>

LoopClaim ==
    /\ worker.pc = "step"
    /\ \E now \in Recent, m \in Message :
        /\ ClaimRelay(m, "twilio", "server", now)
        /\ worker' = [worker EXCEPT !.pc = "send", !.job = m,
                                    !.token = relay_jobs'[m].token]
    /\ UNCHANGED <<clock, driver, gateways, calls, posts, phoneVars, carrierVars>>

LoopIdle ==
    /\ worker.pc = "step"
    /\ \E now \in Recent : ~CanClaim("twilio", now)
    /\ worker' = LoopStart
    /\ UNCHANGED <<clock, storeVars, driver, gateways, calls, posts, phoneVars, carrierVars>>

\* Mutant: a request without an answer is reported as a failure.
MutantAnswersFailOnTimeout(outcome, id) ==
    LET failed == [state |-> "failed", provider_id |-> 0]
    IN  IF outcome = "accepted" THEN {[state |-> "accepted", provider_id |-> id], failed}
        ELSE {failed}

\* What the carrier does with a request, and what Worker.send may return for it.
Answers(outcome, id) ==
    CASE outcome = "accepted" -> {[state |-> "accepted", provider_id |-> id], NoResult}
      [] outcome = "rejected" -> {[state |-> "failed", provider_id |-> 0], NoResult}
      [] OTHER -> {NoResult}

\* The POST to Twilio: accepted, rejected or lost on the way; so may the answer be.
LoopSend ==
    /\ worker.pc = "send"
    /\ LET m == worker.job
           id == submitted[worker.job] + 1
       IN  \E outcome \in {"accepted", "rejected", "none"} :
            /\ \E result \in Answers(outcome, id) :
                worker' = [worker EXCEPT !.pc = "complete", !.result = result]
            /\ submitted' = [submitted EXCEPT ![m] = id]
            /\ fate' = [fate EXCEPT ![m] = outcome]
            /\ receipts' = IF outcome # "accepted" THEN receipts
                           ELSE [receipts EXCEPT ![m] =
                                    @ \cup {[provider_id |-> id, state |-> "accepted"]}]
    /\ UNCHANGED <<clock, storeVars, driver, gateways, calls, posts, phoneVars>>

LoopComplete ==
    /\ worker.pc = "complete"
    /\ CompleteRelay(worker.job, worker.token, "server", worker.result)
    /\ worker' = LoopStart
    /\ UNCHANGED <<clock, driver, gateways, calls, posts, phoneVars, carrierVars>>

\* Crash or shutdown at any point, and a start with another configuration.
Restart(d) ==
    /\ driver' = d
    /\ worker' = LoopStart
    /\ calls' = [g \in Gateway |-> 0]
    /\ posts' = {}
    /\ UNCHANGED <<clock, storeVars, gateways, phoneVars, carrierVars>>

-----------------------------------------------------------------------------
\* Twilio after it accepted a request.

CarrierAdvances(m) ==
    /\ \E state \in ReceiptState :
        /\ \/ fate[m] = "accepted" /\ state \in {"sent", "failed"}
           \/ fate[m] = "sent" /\ state \in {"delivered", "failed"}
        /\ \E r \in receipts[m] :
            receipts' = [receipts EXCEPT ![m] =
                            @ \cup {[provider_id |-> r.provider_id, state |-> state]}]
        /\ fate' = [fate EXCEPT ![m] = state]
    /\ UNCHANGED <<clock, storeVars, serverVars, phoneVars, submitted>>

TwilioReceipt(m) ==
    /\ \E r \in receipts[m] : RelayReceipt(m, r)
    /\ UNCHANGED <<clock, serverVars, phoneVars, carrierVars>>

-----------------------------------------------------------------------------
\* Gateway enrolment.  A credential that reaches its expiry behaves like a
\* revoked one: GatewayByHash finds neither.

Enrol(g) ==
    /\ driver = "android" /\ gateways[g] = "none"
    /\ gateways' = [gateways EXCEPT ![g] = "active"]
    /\ UNCHANGED <<clock, storeVars, driver, worker, calls, posts, phoneVars, carrierVars>>

Revoke(g) ==
    /\ gateways[g] = "active"
    /\ gateways' = [gateways EXCEPT ![g] = "revoked"]
    /\ UNCHANGED <<clock, storeVars, driver, worker, calls, posts, phoneVars, carrierVars>>

\* gatewayAPI's driver and credential checks.
Admitted(g) == driver = "android" /\ gateways[g] = "active"

-----------------------------------------------------------------------------
\* The gateway app and its requests.

\* The poll thread asks for a job.  A call the phone gave up on stays in the server.
PhoneCalls(g) ==
    /\ phone[g].job = None /\ phone[g].submit = None
    /\ Admitted(g) /\ calls[g] < MaxCalls
    /\ calls' = [calls EXCEPT ![g] = @ + 1]
    /\ UNCHANGED <<clock, storeVars, driver, worker, gateways, posts, phoneVars, carrierVars>>

\* The claim commits; its answer reaches an idle phone, or nobody.
ServeClaim(g) ==
    /\ calls[g] > 0
    /\ calls' = [calls EXCEPT ![g] = @ - 1]
    /\ \E now \in Recent, m \in Message :
        /\ ClaimRelay(m, "android", g, now)
        /\ \/ UNCHANGED phone
           \/ /\ phone[g].job = None /\ phone[g].submit = None
              /\ phone' = [phone EXCEPT
                    ![g] = [IdlePhone EXCEPT !.job = m, !.token = relay_jobs'[m].token,
                                             !.phase = "dispatching", !.submit = m]]
    /\ UNCHANGED <<clock, driver, worker, gateways, posts, radio, carrierVars>>

ServeNothing(g) ==
    /\ calls[g] > 0
    /\ \E now \in Recent : ~CanClaim("android", now)
    /\ calls' = [calls EXCEPT ![g] = @ - 1]
    /\ UNCHANGED <<clock, storeVars, driver, worker, gateways, posts, phoneVars, carrierVars>>

\* The preferences once an outcome is written; without a job there is nothing to ack.
Acked(p, result) ==
    IF p.job = None THEN p ELSE [p EXCEPT !.phase = "ack", !.result = result]

\* The SIM or the SMS permission is missing: nothing is handed to the radio.
PhoneRefuses(g) ==
    /\ phone[g].submit # None
    /\ phone' = [phone EXCEPT ![g] = [Acked(@, "failed") EXCEPT !.submit = None]]
    /\ UNCHANGED <<clock, storeVars, serverVars, radio, carrierVars>>

\* sendMultipartTextMessage, which may throw before or after the radio has the job.
PhoneSubmits(g) ==
    /\ phone[g].submit # None
    /\ LET m == phone[g].submit
       IN  \E reached, threw \in BOOLEAN :
            /\ reached \/ threw
            /\ submitted' = [submitted EXCEPT ![m] = @ + 1]
            /\ IF reached
               THEN /\ fate' = [fate EXCEPT ![m] = "accepted"]
                    /\ radio' = [radio EXCEPT ![g] = @ \cup {m}]
               ELSE UNCHANGED <<fate, radio>>
            /\ phone' = [phone EXCEPT
                    ![g] = [IF threw THEN Acked(@, "unknown") ELSE @ EXCEPT !.submit = None]]
    /\ UNCHANGED <<clock, storeVars, serverVars, receipts>>

\* The radio reports all segments; the broadcast may find no app to receive it.
\* SmsSentReceiver only overrules a pending job or an "unknown" outcome.
RadioReports(g, m) ==
    /\ m \in radio[g]
    /\ radio' = [radio EXCEPT ![g] = @ \ {m}]
    /\ \E outcome \in {"sent", "failed", "mixed"} :
        LET p == phone[g]
            result == IF outcome = "mixed" THEN "unknown" ELSE outcome
            heard == /\ p.job = m
                     /\ p.phase = "dispatching" \/ p.result = "unknown"
        IN  /\ fate' = [fate EXCEPT ![m] = outcome]
            /\ \/ UNCHANGED phone
               \/ heard /\ phone' = [phone EXCEPT ![g] = Acked(@, result)]
    /\ UNCHANGED <<clock, storeVars, serverVars, submitted, receipts>>

\* No SMS result within 45 seconds of the phone's own clock.
PhoneTimesOut(g) ==
    /\ phone[g].phase = "dispatching" /\ phone[g].submit = None
    /\ phone' = [phone EXCEPT ![g] = Acked(@, "unknown")]
    /\ UNCHANGED <<clock, storeVars, serverVars, radio, carrierVars>>

\* Mutant: a restarted app sends the job it finds in its preferences.
MutantPhoneResends(g) ==
    /\ phone[g].phase = "dispatching"
    /\ phone' = [phone EXCEPT ![g].submit = phone[g].job]
    /\ UNCHANGED <<clock, storeVars, serverVars, radio, carrierVars>>

\* GatewayService.onCreate.  Within one process the old poll thread may still be
\* about to submit; a new process has no thread left.
PhoneRestarts(g) ==
    /\ phone[g].phase = "dispatching" \/ phone[g].submit # None
    /\ \E killed \in BOOLEAN :
        LET p == IF phone[g].phase = "dispatching" THEN Acked(phone[g], "unknown") ELSE phone[g]
        IN  phone' = [phone EXCEPT
                ![g] = IF killed THEN [p EXCEPT !.submit = None, !.awaiting = "nothing"] ELSE p]
    /\ UNCHANGED <<clock, storeVars, serverVars, radio, carrierVars>>

\* "Reset connection" forgets the pending job; the thread may be past its last check.
PhoneResets(g) ==
    /\ phone[g].job # None
    /\ \E submit \in {phone[g].submit, None} :
        phone' = [phone EXCEPT ![g] = [IdlePhone EXCEPT !.submit = submit]]
    /\ UNCHANGED <<clock, storeVars, serverVars, radio, carrierVars>>

PhonePosts(g) ==
    LET p == phone[g]
    IN  /\ p.phase = "ack" /\ p.submit = None /\ Admitted(g)
        /\ posts' = posts \cup {[gateway |-> g, message |-> p.job, token |-> p.token,
                                 state |-> p.result]}
        /\ phone' = [phone EXCEPT ![g].awaiting = p.result]
        /\ UNCHANGED <<clock, storeVars, driver, worker, gateways, calls, radio, carrierVars>>

\* The result is recorded or refused (409); either answer lets the phone forget the
\* job it posted, whatever its receiver wrote meanwhile.  The answer may be lost.
ServeResult(r) ==
    LET p == phone[r.gateway]
    IN  /\ posts' = posts \ {r}
        /\ CompleteRelay(r.message, r.token, r.gateway, [state |-> r.state, provider_id |-> 0])
        /\ \/ UNCHANGED phone
           \/ /\ p.job = r.message /\ p.awaiting = r.state
              /\ phone' = [phone EXCEPT ![r.gateway] = IdlePhone]
        /\ UNCHANGED <<clock, driver, worker, gateways, calls, radio, carrierVars>>

-----------------------------------------------------------------------------
Tick ==
    /\ clock < MaxTime
    /\ clock' = clock + 1
    /\ UNCHANGED <<storeVars, serverVars, phoneVars, carrierVars>>

Callers ==
    \/ \E m \in Message, k \in Key \cup {NoKey}, c \in Content : Queue(m, k, c)
    \/ \E k \in Key, c \in Content : Replay(k, c)
    \/ \E m \in Message : Delete(m)
    \/ Purge

Loop == LoopExpire \/ LoopClaim \/ LoopIdle \/ LoopSend \/ LoopComplete

Carrier == \E m \in Message : CarrierAdvances(m) \/ TwilioReceipt(m)

App(g) ==
    \/ Enrol(g) \/ Revoke(g)
    \/ PhoneCalls(g) \/ ServeClaim(g) \/ ServeNothing(g)
    \/ PhoneRefuses(g) \/ PhoneSubmits(g) \/ PhoneTimesOut(g)
    \/ PhoneRestarts(g) \/ PhoneResets(g) \/ PhonePosts(g)
    \/ \E m \in Message : RadioReports(g, m)

Next ==
    \/ Callers
    \/ Loop
    \/ Carrier
    \/ \E g \in Gateway : App(g)
    \/ \E r \in posts : ServeResult(r)
    \/ \E d \in Drivers : Restart(d)
    \/ Tick

Spec == Init /\ [][Next]_vars

\* The server loop runs every second, its HTTP request times out after ten, and
\* time passes.  Nothing is assumed of callers, carriers or phones.
FairSpec == Spec /\ WF_vars(Loop) /\ WF_vars(Tick)

-----------------------------------------------------------------------------
(* Properties.                                                             *)

\* A carrier is asked at most once per message, whatever is lost, late,
\* retried, crashed or reconfigured between the claim and the outcome
\* (docs/RELAY.md: an interrupted lease "is never put back into the queue").
SentAtMostOnce == \A m \in Message : submitted[m] <= 1

\* All the requests made with one idempotency key together reach a carrier at
\* most once, also after the message they created was deleted.
IntentSentOnce ==
    \A k \in Key : \A m, n \in answered[k] : submitted[m] > 0 /\ submitted[n] > 0 => m = n

\* The recorded state never claims more, or other, than the carrier knows.
Truthful ==
    \A m \in Message :
        CASE messages[m] \in {"free", "queued", "expired"} -> fate[m] = "none"
          [] messages[m] = "accepted" -> fate[m] \in {"accepted", "sent", "delivered", "failed"}
          [] messages[m] = "sent" -> fate[m] \in {"sent", "delivered", "failed"}
          [] messages[m] = "delivered" -> fate[m] = "delivered"
          [] messages[m] = "failed" -> fate[m] \in {"none", "rejected", "failed"}
          [] OTHER -> TRUE

\* An outcome never regresses: a job leaves the queue once, and later reports,
\* receipts and recovery scans only move it forward until it is deleted.
Stage == [s \in JobState \cup {"free", "gone"} |->
    CASE s = "free" -> 0
      [] s = "queued" -> 1
      [] s = "dispatching" -> 2
      [] s = "unknown" -> 3
      [] s = "accepted" -> 4
      [] s = "sent" -> 5
      [] s \in {"delivered", "failed", "expired"} -> 6
      [] s = "gone" -> 7]

MovesForward ==
    \A m \in Message : messages'[m] = messages[m] \/ Stage[messages'[m]] > Stage[messages[m]]

OutcomeNeverRegresses == [][MovesForward]_vars

\* In any interval a minute long, less the time a claim may have waited for the
\* database, at most Limit jobs were handed out.
DispatchRate ==
    \A t \in 0..clock :
        Cardinality({c \in claims : t + Skew - Window <= c.at /\ c.at <= t}) <= Limit

\* No message waits for ever: each queued or dispatching job is settled, or deleted.
Settles ==
    \A m \in Message :
        messages[m] \in {"queued", "dispatching"} ~> messages[m] \notin {"queued", "dispatching"}

-----------------------------------------------------------------------------
(* The inductive invariant behind the safety properties.                   *)

\* Somebody may still ask a carrier: a live thread is about to hand over message m.
Held(m) ==
    \/ worker.pc = "send" /\ worker.job = m
    \/ \E g \in Gateway : phone[g].submit = m

\* What a thread or an app works on is a message.
JobInHand ==
    /\ worker.pc \in {"send", "complete"} => worker.job \in Message
    /\ \A g \in Gateway : phone[g].phase # "idle" => phone[g].job \in Message

\* The public status of a message is the private state of its job.
InStep ==
    \A m \in Message : IF Present(m) THEN messages[m] = relay_jobs[m].state
                       ELSE relay_jobs[m] = NoJob

\* A message that was never claimed is in nobody's hands and no carrier knows it.
Unclaimed ==
    \A m \in Message : messages[m] \in {"free", "queued", "expired"} =>
        ~Held(m) /\ submitted[m] = 0

\* Nobody holds a message that a carrier was asked to send, and only one holds another.
HeldOnce ==
    /\ \A m \in Message : Held(m) => submitted[m] = 0
    /\ worker.pc = "send" => \A g \in Gateway : phone[g].submit # worker.job
    /\ \A g, h \in Gateway : phone[g].submit = phone[h].submit /\ g # h => phone[g].submit = None

\* Twilio only calls back about a message it was asked to send.
Solicited == \A m \in Message : receipts[m] # {} => submitted[m] > 0

\* A key is answered with the message it is bound to, and stays used when that is deleted.
KeyBound ==
    \A k \in Key :
        /\ relay_keys[k].fingerprint = None => answered[k] = {}
        /\ relay_keys[k].message # None => answered[k] = {relay_keys[k].message}
        /\ \A m, n \in answered[k] : m = n

\* The rows the limit is counted over include every claim of the last minute.
Counted ==
    /\ IsFiniteSet(claims)
    /\ relay_dispatches \subseteq claims
    /\ \A c \in claims : /\ c.at <= clock
                         /\ c.at >= clock - Window => c \in relay_dispatches

\* Everything the proofs of the safety properties rest on.  SentAtMostOnce and
\* DispatchRate are not inductive alone: the first needs to know who may still
\* ask a carrier, the second that no claim is forgotten too early.
Inv ==
    /\ TypeOK /\ JobInHand /\ InStep /\ Unclaimed /\ HeldOnce /\ Solicited
    /\ KeyBound /\ Counted /\ SentAtMostOnce /\ DispatchRate

\* What the carrier knows of message m bears state s out, and nothing that may
\* still happen takes that back.
Bears(m, s) ==
    /\ s = "accepted" => /\ fate[m] \in {"accepted", "sent", "delivered", "failed"}
                         /\ \A g \in Gateway : m \notin radio[g]
    /\ s = "sent" => fate[m] \in {"sent", "delivered", "failed"}
    /\ s = "delivered" => fate[m] = "delivered"
    /\ s = "failed" => \/ fate[m] \in {"rejected", "failed"}
                       \/ fate[m] = "none" /\ ~Held(m)

\* The message was claimed or deleted, so nobody will be given it again.
Left(m) == m \in Message /\ messages[m] \notin {"free", "queued", "expired"}

\* Truthful is not inductive alone: every outcome on its way to the database, in
\* the loop, in an app, in a request or in a callback, is borne out as well.
Told ==
    /\ \A m \in Message : /\ submitted[m] = 0 => fate[m] = "none"
                          /\ Bears(m, messages[m])
                          /\ \A r \in receipts[m] : Bears(m, r.state)
    /\ worker.pc = "complete" => Left(worker.job) /\ Bears(worker.job, worker.result.state)
    /\ \A g \in Gateway :
        /\ phone[g].job # None => Left(phone[g].job)
        /\ phone[g].phase = "ack" => Bears(phone[g].job, phone[g].result)
        /\ None \in {phone[g].job, phone[g].submit} \/ phone[g].submit = phone[g].job
    /\ \A r \in posts : Left(r.message) /\ Bears(r.message, r.state)
    /\ \A g \in Gateway : \A m \in radio[g] :
        /\ fate[m] = "accepted" /\ submitted[m] > 0 /\ receipts[m] = {}
        /\ \A h \in Gateway : m \in radio[h] => h = g

-----------------------------------------------------------------------------
(* Refinement: Relay implements SendOnce.                                  *)

Intent(m) ==
    CASE submitted[m] > 0 -> "handed"
      [] messages[m] = "free" -> "new"
      [] messages[m] = "queued" \/ Held(m) -> "open"
      [] OTHER -> "closed"

Once == INSTANCE SendOnce
    WITH intent <- [m \in Message |-> Intent(m)],
         bound <- [k \in Key |-> IF answered[k] = {} THEN None
                                 ELSE CHOOSE m \in Message : m \in answered[k]]

\* Every behaviour of the relay is one of SendOnce: also an expired, deleted or
\* interrupted job is never sent later, and a key never moves to another message.
RefinesSendOnce == Once!Spec
=============================================================================
