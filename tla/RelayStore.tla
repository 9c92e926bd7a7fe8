----------------------------- MODULE RelayStore -----------------------------
(***************************************************************************)
(* The relay tables of internal/storage/relay.go and the transactions that *)
(* change them.  SQLite runs on a single connection, so every transaction  *)
(* is one atomic step; `now' is read by the caller BEFORE its transaction  *)
(* gets that connection, so it may be up to Skew ticks old by then.        *)
(*                                                                         *)
(* This module has no Next: Relay.tla composes these transactions with the *)
(* server loop, the carrier, the gateways and the HTTP callers.            *)
(***************************************************************************)
EXTENDS Integers, FiniteSets

CONSTANTS
    Message,    \* message ids (random, never reused)
    Key,        \* (inbox, idempotency key) pairs
    NoKey,      \* an intent submitted without a key
    Content,    \* what a fingerprint covers beside the driver: to, from, body, run
    Gateway,    \* ids of enrolled Android gateways
    None,       \* SQL NULL / no row
    Limit,      \* TEXTDOCK_RELAY_LIMIT, for admission and for dispatch
    Window,     \* the minute the limit is counted over, in ticks
    TTL,        \* TEXTDOCK_RELAY_TTL, in ticks
    Lease,      \* the dispatch lease (one minute), in ticks
    Skew        \* how old `now' may be when its transaction runs, in ticks

ASSUME TimesAssumption ==
    /\ Window \in Nat /\ TTL \in Nat \ {0} /\ Lease \in Nat \ {0}
    /\ Skew \in Nat /\ Limit \in Nat \ {0}

ASSUME NamesAssumption ==
    /\ None \notin Message \cup ({"twilio", "android"} \X Content)
    /\ NoKey \notin Key
    /\ "server" \notin Gateway /\ "none" \notin Gateway

VARIABLES
    clock,              \* time.Now() in ticks
    messages,           \* status of each message row; "free" before insert, "gone" after delete
    relay_jobs,         \* the job row of each message
    relay_keys,         \* idempotency rows; message = None once the message is deleted
    relay_admissions,   \* rows that count against the admission limit
    relay_dispatches,   \* rows that count against the dispatch limit
    claims,             \* history: every claim ever committed
    answered            \* history: the messages each key was ever answered with

tables == <<messages, relay_jobs, relay_keys, relay_admissions, relay_dispatches>>
storeVars == <<tables, claims, answered>>

Driver == {"twilio", "android"}
JobState == {"queued", "dispatching", "unknown", "accepted",
             "sent", "delivered", "failed", "expired"}
Owner == Gateway \cup {"server"}
Fingerprint == Driver \X Content

Job == [driver: Driver \cup {"none"}, state: JobState \cup {"none"}, owner: Owner \cup {"none"},
        token: Nat, lease_until: Nat, provider_id: Nat, expires_at: Nat, created_at: Nat]
Admission == [message: Message, at: Nat]
Claim == [message: Message, token: Nat, at: Nat]

\* A message without a relay_jobs row.
NoJob == [driver |-> "none", state |-> "none", owner |-> "none", token |-> 0, lease_until |-> 0,
          provider_id |-> 0, expires_at |-> 0, created_at |-> 0]

StoreTypeOK ==
    /\ clock \in Nat
    /\ messages \in [Message -> JobState \cup {"free", "gone"}]
    /\ relay_jobs \in [Message -> Job]
    /\ relay_keys \in [Key -> [fingerprint: Fingerprint \cup {None},
                               message: Message \cup {None}]]
    /\ relay_admissions \in SUBSET Admission
    /\ relay_dispatches \in SUBSET Claim
    /\ claims \in SUBSET Claim
    /\ answered \in [Key -> SUBSET Message]

StoreInit ==
    /\ clock = 0
    /\ messages = [m \in Message |-> "free"]
    /\ relay_jobs = [m \in Message |-> NoJob]
    /\ relay_keys = [k \in Key |-> [fingerprint |-> None, message |-> None]]
    /\ relay_admissions = {}
    /\ relay_dispatches = {}
    /\ claims = {}
    /\ answered = [k \in Key |-> {}]

-----------------------------------------------------------------------------
\* The message row exists, and its job row with it (UNIQUE, ON DELETE CASCADE).
Present(m) == messages[m] \notin {"free", "gone"}

\* The values a caller's `now' may still have when its transaction runs.
Recent == {t \in 0..clock : clock - t <= Skew}

\* DELETE ... WHERE at < now-60000 leaves these rows.
InWindow(rows, now) == {r \in rows : r.at >= now - Window}

\* UPDATE relay_jobs SET state,provider_id,lease_until=0 and updateRelayMessage.
Settle(m, state, provider_id) ==
    /\ relay_jobs' = [relay_jobs EXCEPT
            ![m] = [@ EXCEPT !.state = state, !.provider_id = provider_id, !.lease_until = 0]]
    /\ messages' = [messages EXCEPT ![m] = state]
    /\ UNCHANGED <<relay_keys, relay_admissions, relay_dispatches, claims, answered>>

\* A fresh intent: message, job, admission and key row in one transaction.
\* `born' is message.CreatedAt, read before the transaction started.
EnqueueRelay(m, k, driver, c, born) ==
    /\ messages[m] = "free"
    /\ k # NoKey => relay_keys[k].fingerprint = None
    /\ Cardinality(InWindow(relay_admissions, clock)) < Limit
    /\ messages' = [messages EXCEPT ![m] = "queued"]
    /\ relay_jobs' = [relay_jobs EXCEPT
            ![m] = [NoJob EXCEPT !.driver = driver, !.state = "queued",
                                 !.created_at = clock, !.expires_at = born + TTL]]
    /\ relay_admissions' = InWindow(relay_admissions, clock)
                               \cup {[message |-> m, at |-> clock]}
    /\ relay_keys' = IF k = NoKey THEN relay_keys
                     ELSE [relay_keys EXCEPT
                             ![k] = [fingerprint |-> <<driver, c>>, message |-> m]]
    /\ answered' = IF k = NoKey THEN answered
                   ELSE [answered EXCEPT ![k] = @ \cup {m}]
    /\ UNCHANGED <<relay_dispatches, claims>>

\* The same key and content again: the caller gets the original message.
\* Any other content, or a deleted original, is ErrIdempotency and changes nothing.
ReplayRelay(k, driver, c) ==
    /\ relay_keys[k].fingerprint = <<driver, c>>
    /\ relay_keys[k].message # None
    /\ answered' = [answered EXCEPT ![k] = @ \cup {relay_keys[k].message}]
    /\ UNCHANGED <<tables, claims>>

\* Queued jobs of a driver whose TTL has not passed.
Claimable(driver, now) ==
    {m \in Message : /\ relay_jobs[m].state = "queued"
                     /\ relay_jobs[m].driver = driver
                     /\ relay_jobs[m].expires_at > now}

\* ORDER BY created_at,id LIMIT 1: ids are random, so a tie may go either way.
Oldest(S) == {m \in S : \A n \in S : relay_jobs[m].created_at <= relay_jobs[n].created_at}

\* Mutant: the limit is off by one.
MutantCanClaimOneMore(driver, now) ==
    /\ Cardinality(InWindow(relay_dispatches, now)) <= Limit
    /\ Claimable(driver, now) # {}

CanClaim(driver, now) ==
    /\ Cardinality(InWindow(relay_dispatches, now)) < Limit
    /\ Claimable(driver, now) # {}

\* One queued job becomes the owner's, under a fresh token and a lease.
ClaimRelay(m, driver, owner, now) ==
    LET token == relay_jobs[m].token + 1
        row == [message |-> m, token |-> token, at |-> now]
    IN  /\ CanClaim(driver, now)
        /\ m \in Oldest(Claimable(driver, now))
        /\ relay_jobs' = [relay_jobs EXCEPT
                ![m] = [@ EXCEPT !.state = "dispatching", !.owner = owner,
                                 !.token = token, !.lease_until = now + Lease]]
        /\ messages' = [messages EXCEPT ![m] = "dispatching"]
        /\ relay_dispatches' = InWindow(relay_dispatches, now) \cup {row}
        /\ claims' = claims \cup {row}
        /\ UNCHANGED <<relay_keys, relay_admissions, answered>>

\* A progress report that a later state has already overtaken keeps that state.
Absorbed(old, new) ==
    IF old \in {"sent", "delivered", "failed"} /\ new \in {"accepted", "unknown"}
    THEN old ELSE new

\* CompleteRelay's checks; ErrLease when they fail.
CanComplete(m, token, owner, result) ==
    LET job == relay_jobs[m]
    IN  /\ Present(m) /\ job.token = token /\ job.owner = owner
        /\ 0 \in {job.provider_id, result.provider_id} \/ job.provider_id = result.provider_id
        /\ job.state \in {"dispatching", "unknown", Absorbed(job.state, result.state)}

\* The owner of a lease reports a result; a refused report changes nothing.
CompleteRelay(m, token, owner, result) ==
    IF CanComplete(m, token, owner, result)
    THEN Settle(m, Absorbed(relay_jobs[m].state, result.state),
                IF result.provider_id = 0 THEN relay_jobs[m].provider_id
                ELSE result.provider_id)
    ELSE UNCHANGED storeVars

\* The order receipts may advance a job in; "expired" has no entry in the Go map.
Rank == [s \in JobState |->
    CASE s = "accepted" -> 1
      [] s = "sent" -> 2
      [] s \in {"delivered", "failed"} -> 3
      [] OTHER -> 0]

\* Mutant: callbacks are applied in the order they arrive.
MutantReceiptUnranked(m, receipt) ==
    LET job == relay_jobs[m]
    IN  /\ Present(m) /\ job.driver = "twilio"
        /\ job.provider_id \in {0, receipt.provider_id}
        /\ Settle(m, receipt.state, receipt.provider_id)

\* A signed Twilio callback; a stale one keeps the state but still ends the lease.
RelayReceipt(m, receipt) ==
    LET job == relay_jobs[m]
    IN  /\ Present(m) /\ job.driver = "twilio"
        /\ job.provider_id \in {0, receipt.provider_id}
        /\ Settle(m, IF Rank[job.state] >= Rank[receipt.state] THEN job.state
                     ELSE receipt.state, receipt.provider_id)

\* Mutant: an interrupted dispatch goes back into the queue.
MutantExpiredRequeues(job, now) ==
    CASE job.state = "dispatching" /\ job.lease_until <= now -> "queued"
      [] job.state = "queued" /\ job.expires_at <= now -> "expired"
      [] OTHER -> job.state

\* Mutant: interrupted dispatches are not recovered.
MutantExpiredForgetsLeases(job, now) ==
    IF job.state = "queued" /\ job.expires_at <= now THEN "expired" ELSE job.state

\* What the recovery scan does to a job at time now.
Expired(job, now) ==
    CASE job.state = "dispatching" /\ job.lease_until <= now -> "unknown"
      [] job.state = "queued" /\ job.expires_at <= now -> "expired"
      [] OTHER -> job.state

Due(now) == {m \in Message : Expired(relay_jobs[m], now) # relay_jobs[m].state}

\* All interrupted leases become unknown and all stale queued jobs expired, at once.
ExpireRelays(now) ==
    /\ relay_jobs' = [m \in Message |->
            IF m \in Due(now)
            THEN [relay_jobs[m] EXCEPT !.state = Expired(relay_jobs[m], now), !.lease_until = 0]
            ELSE relay_jobs[m]]
    /\ messages' = [m \in Message |->
            IF m \in Due(now) THEN Expired(relay_jobs[m], now) ELSE messages[m]]
    /\ UNCHANGED <<relay_keys, relay_admissions, relay_dispatches, claims, answered>>

\* Mutant: ON DELETE CASCADE where the schema says SET NULL.
MutantDeleteForgetsKeys(S) ==
    /\ S # {} /\ \A m \in S : Present(m)
    /\ messages' = [m \in Message |-> IF m \in S THEN "gone" ELSE messages[m]]
    /\ relay_jobs' = [m \in Message |-> IF m \in S THEN NoJob ELSE relay_jobs[m]]
    /\ relay_keys' = [k \in Key |-> IF relay_keys[k].message \in S
                                    THEN [fingerprint |-> None, message |-> None]
                                    ELSE relay_keys[k]]
    /\ UNCHANGED <<relay_admissions, relay_dispatches, claims, answered>>

\* Rows are deleted with their jobs; key rows stay, with message_id set to NULL.
DeleteMessages(S) ==
    /\ S # {} /\ \A m \in S : Present(m)
    /\ messages' = [m \in Message |-> IF m \in S THEN "gone" ELSE messages[m]]
    /\ relay_jobs' = [m \in Message |-> IF m \in S THEN NoJob ELSE relay_jobs[m]]
    /\ relay_keys' = [k \in Key |-> IF relay_keys[k].message \in S
                                    THEN [relay_keys[k] EXCEPT !.message = None]
                                    ELSE relay_keys[k]]
    /\ UNCHANGED <<relay_admissions, relay_dispatches, claims, answered>>

=============================================================================
