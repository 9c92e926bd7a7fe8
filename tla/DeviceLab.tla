------------------------------ MODULE DeviceLab ------------------------------
(***************************************************************************)
(* The Android device lab: Service.Inject and Service.Recover of           *)
(* internal/devicelab/service.go over the tables of                        *)
(* internal/storage/devicelab.go.                                          *)
(*                                                                         *)
(* A request reserves an injection (message, row and key in one            *)
(* transaction), runs one adb command outside of any transaction and       *)
(* records what the emulator's console answered.  Requests with the same   *)
(* key race each other, the recovery loop races the request whose lease    *)
(* has run out, messages are deleted at any time, and the process may die  *)
(* while the command it started goes on.                                   *)
(***************************************************************************)
EXTENDS Naturals

CONSTANTS
    Message,    \* message ids (random, never reused)
    Key,        \* (inbox, idempotency key) pairs
    NoKey,      \* a request without a key
    Request,    \* requests being served at a time
    None        \* SQL NULL / no row

ASSUME LabAssumption == NoKey \notin Key /\ None \notin Message

VARIABLES
    messages,       \* status of each message row; "free" before insert, "gone" after delete
    lab_injections, \* status of the injection row of each message, or "none"
    lapsed,         \* injections whose lease_until has passed
    lab_keys,       \* idempotency rows; message = None once the message is deleted
    requests,       \* each request: program counter, what it asks for, outcome to record
    recovery,       \* ids Recover has read and not worked off yet
    console,        \* the emulator: what became of the command for a message
    submitted,      \* history: commands started for each message
    bound           \* history: the message each key was first used for

tables == <<messages, lab_injections, lapsed, lab_keys>>
vars == <<tables, requests, recovery, console, submitted, bound>>

Outcome == {"injected", "failed", "unknown"}
InjectionState == Outcome \cup {"injecting"}
KeyRow == [used: BOOLEAN, message: Message \cup {None}]
Service == [pc: {"idle", "check", "send", "wait", "finish"}, key: Key \cup {NoKey},
            message: Message \cup {None}, state: Outcome]
Idle == [pc |-> "idle", key |-> NoKey, message |-> None, state |-> "unknown"]

TypeOK ==
    /\ messages \in [Message -> InjectionState \cup {"free", "gone"}]
    /\ lab_injections \in [Message -> InjectionState \cup {"none"}]
    /\ lapsed \subseteq Message
    /\ lab_keys \in [Key -> KeyRow]
    /\ requests \in [Request -> Service]
    /\ recovery \subseteq Message
    /\ console \in [Message -> {"none", "open", "took", "refused"}]
    /\ submitted \in [Message -> Nat]
    /\ bound \in [Key -> Message \cup {None}]

Init ==
    /\ messages = [m \in Message |-> "free"]
    /\ lab_injections = [m \in Message |-> "none"]
    /\ lapsed = {}
    /\ lab_keys = [k \in Key |-> [used |-> FALSE, message |-> None]]
    /\ requests = [r \in Request |-> Idle]
    /\ recovery = {}
    /\ console = [m \in Message |-> "none"]
    /\ submitted = [m \in Message |-> 0]
    /\ bound = [k \in Key |-> None]

-----------------------------------------------------------------------------
(* Service.Inject.                                                         *)

\* A key no injection was ever reserved under.  A key in use is answered with its
\* injection, or refused if the fingerprint of the data differs or the message is
\* gone; neither changes anything, so what the data are does not matter here.
Unused(k) == k # NoKey => ~lab_keys[k].used

\* Valid input; LookupInjection finds the key unused.
Lookup(r, k) ==
    /\ requests[r].pc = "idle" /\ Unused(k)
    /\ requests' = [requests EXCEPT ![r] = [Idle EXCEPT !.pc = "check", !.key = k]]
    /\ UNCHANGED <<tables, recovery, console, submitted, bound>>

\* adb, its device list, the boot state, the SIM or the console rule the target out;
\* or the request's 30 s are over, or its transaction fails.
Refuse(r) ==
    /\ requests[r].pc = "check"
    /\ requests' = [requests EXCEPT ![r] = Idle]
    /\ UNCHANGED <<tables, recovery, console, submitted, bound>>

\* Mutant: the reservation relies on the lookup made before the target was checked.
MutantReserveInjection(r, m) ==
    LET k == requests[r].key
    IN  /\ requests[r].pc = "check" /\ messages[m] = "free"
        /\ messages' = [messages EXCEPT ![m] = "injecting"]
        /\ lab_injections' = [lab_injections EXCEPT ![m] = "injecting"]
        /\ lab_keys' = IF k = NoKey THEN lab_keys
                       ELSE [lab_keys EXCEPT ![k] = [used |-> TRUE, message |-> m]]
        /\ bound' = IF k = NoKey THEN bound ELSE [bound EXCEPT ![k] = m]
        /\ requests' = [requests EXCEPT ![r].pc = "send", ![r].message = m]
        /\ UNCHANGED <<lapsed, recovery, console, submitted>>

\* Message, injection and key in one transaction, unless another request has used
\* the key in the meantime.
ReserveInjection(r, m) ==
    LET k == requests[r].key
    IN  /\ requests[r].pc = "check" /\ messages[m] = "free" /\ Unused(k)
        /\ messages' = [messages EXCEPT ![m] = "injecting"]
        /\ lab_injections' = [lab_injections EXCEPT ![m] = "injecting"]
        /\ lab_keys' = IF k = NoKey THEN lab_keys
                       ELSE [lab_keys EXCEPT ![k] = [used |-> TRUE, message |-> m]]
        /\ bound' = IF k = NoKey THEN bound ELSE [bound EXCEPT ![k] = m]
        /\ requests' = [requests EXCEPT ![r].pc = "send", ![r].message = m]
        /\ UNCHANGED <<lapsed, recovery, console, submitted>>

\* The key was used while the target was checked.
LoseRace(r) ==
    /\ requests[r].pc = "check" /\ ~Unused(requests[r].key)
    /\ requests' = [requests EXCEPT ![r] = Idle]
    /\ UNCHANGED <<tables, recovery, console, submitted, bound>>

\* adb emu sms send, with no transaction open: whether the message still exists is
\* not looked at again.
StartCommand(r) ==
    LET m == requests[r].message
    IN  /\ requests[r].pc = "send"
        /\ requests' = [requests EXCEPT ![r].pc = "wait"]
        /\ submitted' = [submitted EXCEPT ![m] = @ + 1]
        /\ console' = [console EXCEPT ![m] = "open"]
        /\ UNCHANGED <<tables, recovery, bound>>

\* The request's context ended before adb could be started.
CannotStart(r) ==
    /\ requests[r].pc = "send"
    /\ requests' = [requests EXCEPT ![r].pc = "finish", ![r].state = "unknown"]
    /\ UNCHANGED <<tables, recovery, console, submitted, bound>>

\* Mutant: a command that did not answer in time counts as rejected.
MutantVerdicts(m) ==
    CASE console[m] = "took" -> {"injected", "failed"}
      [] OTHER -> {"failed"}

\* What Inject concludes: an OK line, KO: in the output, or neither (timeout, lost or
\* oversized output, an error exit), whatever the emulator did.
Verdicts(m) ==
    CASE console[m] = "took" -> {"injected", "unknown"}
      [] console[m] = "refused" -> {"failed", "unknown"}
      [] OTHER -> {"unknown"}

Conclude(r) ==
    /\ requests[r].pc = "wait"
    /\ \E state \in Verdicts(requests[r].message) :
        requests' = [requests EXCEPT ![r].pc = "finish", ![r].state = state]
    /\ UNCHANGED <<tables, recovery, console, submitted, bound>>

-----------------------------------------------------------------------------
(* Outcomes and recovery.                                                  *)

\* Mutant: FinishInjection without a condition on the status.
MutantUnsettled == InjectionState

\* Mutant: only an uncertain injection can be finished.
MutantUnsettledUnknown == {"unknown"}

\* Statuses FinishInjection overwrites; others stand.
Unsettled == {"injecting", "unknown"}

\* The row and its message take the outcome together, unless another stands; a
\* message deleted in the meantime has no row left to write to.
FinishInjection(m, state) ==
    LET settled == IF lab_injections[m] \in Unsettled THEN state ELSE lab_injections[m]
    IN  /\ IF lab_injections[m] = "none" THEN UNCHANGED <<messages, lab_injections>>
           ELSE /\ lab_injections' = [lab_injections EXCEPT ![m] = settled]
                /\ messages' = [messages EXCEPT ![m] = settled]
        /\ UNCHANGED <<lapsed, lab_keys>>

\* The outcome is recorded in a context of its own ...
Finish(r) ==
    /\ requests[r].pc = "finish"
    /\ FinishInjection(requests[r].message, requests[r].state)
    /\ requests' = [requests EXCEPT ![r] = Idle]
    /\ UNCHANGED <<recovery, console, submitted, bound>>

\* ... which may end, or fail, all the same.
FailToFinish(r) ==
    /\ requests[r].pc = "finish"
    /\ requests' = [requests EXCEPT ![r] = Idle]
    /\ UNCHANGED <<tables, recovery, console, submitted, bound>>

Recoverable == {m \in lapsed : lab_injections[m] = "injecting"}

\* RecoverInjections reads the ids first ...
RecoverScan ==
    /\ recovery = {} /\ Recoverable # {}
    /\ recovery' = Recoverable
    /\ UNCHANGED <<tables, requests, console, submitted, bound>>

\* ... and finishes each in a transaction of its own; nothing is sent again.
RecoverOne(m) ==
    /\ m \in recovery
    /\ FinishInjection(m, "unknown")
    /\ recovery' = recovery \ {m}
    /\ UNCHANGED <<requests, console, submitted, bound>>

\* One of them fails: the rest waits for the next tick.
RecoverFails ==
    /\ recovery # {}
    /\ recovery' = {}
    /\ UNCHANGED <<tables, requests, console, submitted, bound>>

-----------------------------------------------------------------------------
(* The surroundings.                                                       *)

\* The lease is a minute of wall-clock time, the request's 33 s are monotonic time:
\* they part when the machine sleeps, so a lease may end at any moment.
LeaseEnds(m) ==
    /\ lab_injections[m] = "injecting" /\ m \notin lapsed
    /\ lapsed' = lapsed \cup {m}
    /\ UNCHANGED <<messages, lab_injections, lab_keys, requests, recovery, console,
                   submitted, bound>>

\* Delete, Purge and Prune: injections go with their messages, keys stay.
DeleteMessages(S) ==
    /\ S # {} /\ \A m \in S : messages[m] \in InjectionState
    /\ messages' = [m \in Message |-> IF m \in S THEN "gone" ELSE messages[m]]
    /\ lab_injections' = [m \in Message |-> IF m \in S THEN "none" ELSE lab_injections[m]]
    /\ lapsed' = lapsed \ S
    /\ lab_keys' = [k \in Key |-> IF lab_keys[k].message \in S
                                  THEN [lab_keys[k] EXCEPT !.message = None] ELSE lab_keys[k]]
    /\ UNCHANGED <<requests, recovery, console, submitted, bound>>

\* The console takes or refuses the SMS, even if nobody waits for its answer any more.
Console(m) ==
    /\ console[m] = "open"
    /\ \E answer \in {"took", "refused"} : console' = [console EXCEPT ![m] = answer]
    /\ UNCHANGED <<tables, requests, recovery, submitted, bound>>

\* The process dies and starts again; commands go on.
Restart ==
    /\ requests' = [r \in Request |-> Idle]
    /\ recovery' = {}
    /\ UNCHANGED <<tables, console, submitted, bound>>

Inject(r) ==
    \/ \E k \in Key \cup {NoKey} : Lookup(r, k)
    \/ Refuse(r) \/ LoseRace(r)
    \/ \E m \in Message : ReserveInjection(r, m)
    \/ StartCommand(r) \/ CannotStart(r) \/ Conclude(r) \/ Finish(r) \/ FailToFinish(r)

Recover == RecoverScan \/ RecoverFails \/ \E m \in Message : RecoverOne(m)

Next ==
    \/ \E r \in Request : Inject(r)
    \/ Recover
    \/ \E m \in Message : LeaseEnds(m) \/ Console(m)
    \/ \E S \in SUBSET Message : DeleteMessages(S)
    \/ Restart

Spec == Init /\ [][Next]_vars

\* The clock goes on, Recover runs every five seconds, and its transactions do not
\* fail, nor the process die, every single time.
Fairness ==
    /\ WF_vars(RecoverScan)
    /\ \A m \in Message : WF_vars(LeaseEnds(m)) /\ SF_vars(RecoverOne(m))

FairSpec == Spec /\ Fairness

-----------------------------------------------------------------------------
(* Properties.                                                             *)

\* r is the request that reserved m and has yet to run, or record, its command.
Holds(r, m) == requests[r].message = m /\ requests[r].pc \in {"send", "wait", "finish"}

\* The row agrees with its message, whoever wrote them last.
RowsAgree ==
    \A m \in Message :
        lab_injections[m] = IF messages[m] \in InjectionState THEN messages[m] ELSE "none"

\* No other request works on a message; one that is yet to be sent was not sent, and
\* none was sent twice.
OneCommand ==
    /\ \A r, s \in Request, m \in Message : Holds(r, m) /\ Holds(s, m) => r = s
    /\ \A m \in Message : submitted[m] <= 1
    /\ \A r \in Request : requests[r].pc = "send" => submitted[requests[r].message] = 0

\* A message says what the emulator did, or that it is not known
\* (docs/DEVICE-LAB.md, "Results and history").
Truthful ==
    \A m \in Message : /\ messages[m] = "injected" => console[m] = "took"
                       /\ messages[m] = "failed" => console[m] = "refused"

\* What a request is about to record is true.
AboutToTell ==
    \A r \in Request : requests[r].pc = "finish" =>
        /\ requests[r].state = "injected" => console[requests[r].message] = "took"
        /\ requests[r].state = "failed" => console[requests[r].message] = "refused"

\* A key keeps the one message it was used for, and names it as long as there is an
\* injection to answer a repetition with.
KeysBound ==
    \A k \in Key : /\ lab_keys[k].used <=> bound[k] # None
                   /\ lab_keys[k].message \in {bound[k], None}
                   /\ lab_keys[k].message # None =>
                        messages[lab_keys[k].message] \in InjectionState

\* A message nobody stored has no command and no request.
Fresh ==
    \A m \in Message : messages[m] = "free" =>
        /\ submitted[m] = 0 /\ console[m] = "none"
        /\ \A r \in Request : ~Holds(r, m)

HoldsMessage == \A r \in Request : requests[r].pc \in {"send", "wait", "finish"} =>
                                        requests[r].message \in Message

\* The console has a command exactly for what was submitted.
ConsoleKnows == \A m \in Message : submitted[m] = 0 <=> console[m] = "none"

Inv == /\ TypeOK /\ RowsAgree /\ OneCommand /\ Truthful /\ AboutToTell /\ KeysBound /\ Fresh
       /\ HoldsMessage /\ ConsoleKnows

\* What the console said stands: neither recovery nor a late request changes it
\* (storage/devicelab.go FinishInjection: "status IN ('injecting','unknown')").
OutcomeStands ==
    [][\A m \in Message : messages[m] \in {"injected", "failed"} =>
            messages'[m] \in {messages[m], "gone"}]_vars

\* The life of the intent behind m.
Intent(m) ==
    IF messages[m] = "free" THEN "new"
    ELSE IF submitted[m] > 0 THEN "handed"
    ELSE IF \E r \in Request : requests[r].pc = "send" /\ requests[r].message = m THEN "open"
    ELSE "closed"

Once == INSTANCE SendOnce WITH intent <- [m \in Message |-> Intent(m)]

\* The lab keeps the promise of the relay: an accepted injection is handed to the
\* emulator at most once, and a key stands for one injection for ever
\* (docs/DEVICE-LAB.md: "Interrupted attempts are not automatically repeated", "Key
\* fingerprints survive message deletion").
RefinesSendOnce == Once!Spec

\* No injection stays "injecting", whatever became of the request.
Resolves == \A m \in Message : lab_injections[m] = "injecting" ~> lab_injections[m] # "injecting"
=============================================================================
