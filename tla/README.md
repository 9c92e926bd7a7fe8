# TextDock verification

TextDock is a local SMS workbench: applications send it messages over HTTP, it
captures them, simulates their delivery, relays them to a real carrier when
asked to, and shows them on desktops and paired phones. One Go process with one
SQLite database does all of it; an Android app can serve as an SMS gateway.

This directory holds TLA+ models of the parts where steps of several actors
interleave, TLC configurations that check them on small instances, and proofs
that TLAPS checks for instances of every size.

## 1. The system

### Components

| Component | State | Operations |
|---|---|---|
| Message store (`internal/storage/sqlite.go`, `workspace.go`) | `messages`; everything about a message refers to it `ON DELETE CASCADE` | save, update, delete, purge an inbox, prune by age |
| Relay store (`internal/storage/relay.go`) | `relay_jobs` (state, owner, fencing token, lease), `relay_keys` (idempotency), `relay_admissions` and `relay_dispatches` (rows the rate limit counts) | enqueue or replay, claim, complete, receipt, expire |
| Relay loop and HTTP surface (`internal/relay`, `internal/httpapi/relay.go`) | the job in hand, the configured driver | expire, claim, send to Twilio, record; gateway claim and result; Twilio callbacks; gateway enrolment |
| Android gateway (`android/app`) | preferences: job, token, phase, result; a poll thread; the radio | poll, submit, SMS result broadcasts, post result, restart, reset |
| Simulated delivery (`internal/simulation`, `internal/storage/simulation.go`) | `jobs` (state, attempts, budget, lease), `message_events` | schedule, next job, complete transition, post callback, record attempt, replay |
| Push outbox (`internal/push`, `internal/storage/push.go`) | `push_subscriptions`, `push_jobs`, `push_status` | subscribe, unsubscribe, enqueue with capture, test, claim, check, post, record |
| Event hub and streams (`internal/events`, `internal/httpapi/connect.go`, `web/src/hooks/useLiveEvents.ts`) | subscribers with one-element channels; streams; pages | subscribe, changed, resync, revoke; stream; follow and re-read |
| Pairing and devices (`internal/storage/connect.go`) | `pairings`, `devices` | create and claim a code, authenticate, revoke |
| Users, sessions, login guard, API keys (`internal/access`, `storage/users.go`, `storage/keys.go`) | `users`, `memberships`, `user_sessions`, `api_keys`, attempts in memory | login, change password, disable, change membership, revoke; scope checks |
| Audit (`internal/audit`, `storage/audit.go`) | `audit_events` | append in the transaction of the change |
| Workspaces, lists and export (`internal/httpapi/workspace.go`, `server.go`, `internal/cli`) | a cursor in the hands of the client | list page by page, mark, bulk delete, purge, retention |
| Device lab (`internal/devicelab`, `storage/devicelab.go`) | `lab_injections` under a lease, `lab_keys` | look up, probe the emulator, reserve, run adb, finish, recover; escape a body for the console |
| Message construction (`internal/message`) | none | validate, segment, extract a one-time code |
| Adapters, configuration, CLI, web UI, SDK, samples, website | none that outlives a request | translation and presentation |

### Interactions

* A *capture* (`application.Capture.Send`) is one transaction that writes the
  message with its relay job, its simulation jobs or nothing, and its push
  alerts; afterwards, outside the transaction, the hub is told.
* Four loops run in the process: relay, simulation, push and device-lab
  recovery, plus retention. They share nothing but the database and the hub.
* SQLite runs on a single connection (`SetMaxOpenConns(1)`): a transaction is
  one atomic step, but `time.Now()` is usually read before it starts.
* The relay, simulation and push loops work in three steps: *claim* under a lease in one transaction, act
  outside any transaction (an HTTP request), *record* in another transaction,
  fenced by an attempt number or token. An injection is *reserved*, run and
  *finished* in the same way, but by the request itself; its loop only ends what
  a request left behind. The process may stop between any two steps.
* Deleting a message reaches into every one of these tables by cascades.

### What is hard, and what makes it correct

| Part | Hard behaviour | Correctness |
|---|---|---|
| Relay | lost answers of a carrier, crashes between request and record, expiring leases, stale clocks, driver changes, callbacks out of order, keys reused after deletion, an app that is killed or re-created while it submits | a carrier is asked at most once per message and per key; the state never claims what the carrier does not know; outcomes never regress; the rate limit holds; every message settles |
| Simulation | two processes, leases that run out under a slow request, manual replay, deletion in flight | the event log tells the message's life in order, once; a callback exists exactly for each event; late reports change nothing; budgets; everything completes |
| Push | subscriptions replaced or moved between claim, check, post and record; coalescing; retries meeting newer alerts; leases | nothing of an earlier subscription is kept, reported or acted on; one alert waits per phone; bounded attempts; no alert lost but in the two ways of section 5 |
| Streams | revocation between authentication and subscription, coalesced events, reads older than changes, queries that fail, restarts | no stream survives its credential; no update is missed; only who is denied is cut off; pages become current |
| Access | password or membership changed during login; a user and an operator changing one password; checks in one statement and use in another; slots released on every path | no session from before a change; a reset is not undone; no act beyond credential, role and project; slots exact |
| Device lab | requests with one key while the emulator is probed, answers later than the lease, crash while adb runs, deletion of the message | one command per injection and one injection per key for ever; an outcome is what the console said, or "unknown"; every injection ends |
| Message table and lists | rows that arrive out of order, bulk deletion against purge and retention, a client that pages through all of it | the audit accounts for the rows of every inbox; an export is complete and hands out nothing twice |
| Segmentation, console lines | characters of two units at the end of a segment; escapes of escapes | the fewest segments of whole characters; the emulator receives the text that was sent |

The hazards, each at its line and with the properties aimed at it, are in
`PROJECT.json`.

## 2. Modules

| Module | Models | Composes |
|---|---|---|
| `RelayStore` | transactions of `storage/relay.go` and message deletion | |
| `Relay` | server loop, carrier, gateways, callers, restarts; all relay properties | EXTENDS `RelayStore` |
| `SendOnce` | abstract specification: what the relay and the lab promise a caller | implemented by `Relay` and by `DeviceLab` |
| `RelayProofs` | proofs, the refinement among them | EXTENDS `Relay` |
| `Simulation` | simulated delivery | INSTANCE `Delivery` |
| `Delivery` | abstract specification: what simulated delivery promises a sender | implemented by `Simulation` |
| `SimulationProofs` | proofs, the refinement among them | EXTENDS `Simulation` |
| `PushOutbox` | push outbox and its worker | |
| `PushProofs` | proofs | EXTENDS `PushOutbox` |
| `Streams` | hub, streams, pages | INSTANCE `Mailbox` |
| `Mailbox` | abstract specification: what live updates promise a page | implemented by `Streams` |
| `StreamsProofs` | proofs, the refinement among them | EXTENDS `Streams` |
| `Access` | accounts, sessions, roles, API keys, slots for password work | INSTANCE `Accounts` |
| `Accounts` | abstract specification: what accounts promise whoever calls | implemented by `Access` |
| `AccessProofs` | proofs, the refinement among them | EXTENDS `Access` |
| `DeviceLab` | injection into an emulator, its reservation, outcome and recovery | INSTANCE `SendOnce` |
| `DeviceLabProofs` | proofs | EXTENDS `DeviceLab` |
| `Inboxes` | the message table, deletion, retention, audit, paged export | |
| `InboxesProofs` | proofs | EXTENDS `Inboxes` |
| `SmsText` | encoding and segments of a body, its line for the console | |
| `SmsTextProofs` | proofs | EXTENDS `SmsText` |
| `MCRelay`, `MCSimulation`, `MCPushOutbox`, `MCStreams`, `MCAccess`, `MCDeviceLab`, `MCInboxes`, `MCSmsText` | symmetry sets and values of constants for TLC | EXTENDS the module checked |

### RelayStore and Relay

State: `messages` is the public status of each message row (`"free"` before the
insert, `"gone"` after deletion); `relay_jobs`, `relay_keys`,
`relay_admissions`, `relay_dispatches` are the tables; `claims` and `answered`
are history and read by properties only. `worker` is the loop of
`relay/worker.go` with the job it holds, `phone` the preferences and poll thread
of each gateway app, `radio` what the phone's radio has not reported yet,
`calls` and `posts` HTTP requests past the credential check but not yet in the
database, `fate`, `submitted` and `receipts` the world outside.

Each storage function is one operator (`EnqueueRelay`, `ReplayRelay`,
`ClaimRelay`, `CompleteRelay`, `RelayReceipt`, `ExpireRelays`,
`DeleteMessages`), used inside the actions of whoever calls it. Every `now` a
function receives is chosen from `Recent`, the last `Skew` ticks, because it is
read before the transaction begins. A fingerprint is a driver with a content;
idempotency keys are (inbox, key) pairs. Left out: the recipient allowlist and
signatures (they decide whether a request is made, not what it does),
heartbeats, the event log and audit rows.

`SendOnce` knows intents and keys only: an intent opens, is handed to a carrier
once, or is closed; a key is bound to one intent for ever. The refinement
mapping (`Intent`) reads `"handed"` off the number of requests a carrier
received, so the theorem speaks of the carrier and not of the database.

### Simulation

`jobs` by message and kind (two transitions, three callbacks), `events` and
`status` of each message; `workers` are server processes on one database, each
with a program counter between `NextJob`, `CompleteTransition` or `Post`, and
`FinishWebhook`. `Holds` is the fence (`state='running' AND attempts=?`).
`url` abstracts where callbacks go to whether there are any. Left out: scenario
editing, rejection by a scenario (it saves nothing), payloads.

`Delivery` knows neither jobs nor processes: a message has a life, each step of it
owes a callback, and an owed callback is asked for until it is accepted or given up.
The refinement mapping reads the life off the status, what has become of a callback
off the state of its row (`Standing`: pending and running rows are both owed, so
that a claim, a lost lease and a recovery are no steps at all), and whether a
receiver was asked off the requests that went out.

### PushOutbox

`subscriptions` and `status` by device, `jobs` as a set of rows, `workers`
between `ClaimPush`, `Check`, `Post` and `FinishPush`. Generations and job ids
are fresh numbers. Scopes are abstracted: `Capture(m, S)` says which phones are
in scope of the message. An alert keeps its `kind`: an inbox alert tells the phone
that there are messages, a test alert (`QueuePushTest`) says that it is a test
(`web/public/phone-sw.js:48`), whatever it absorbs or is given the place of.
`owed` is history: the messages a phone was subscribed for and that no inbox alert
has told it of. They leave `owed` too with an alert that ends unsent, is refused or
waived, except where the code loses one. `swallowed` is history as well: the
messages a test alert has come to stand for, by coalescing (`Coalesced`) or in the
place of an alert that was to be retried (`Merged`). `gone` are the generations the
push service has answered 404 or 410 for, which is what a worker may remove.

### Streams

`version[p]` counts commits that changed the messages in the scope of `p`;
`writers` and `revokers` are requests between their commit and their call of
the hub. A stream is a program counter along `deviceAPI` and `stream`, its
channel (capacity one), the event it is about to send, and `wire`, what its
client has not read. A client is the page: the connection it follows, the read
under way, the version it shows, whether it shows an error, whether it has
dropped its credential. Hub operations hold a mutex throughout and are atomic.
`Scoped` are API keys and user sessions, which `send` checks before every
frame; devices are not. A read is authenticated and answered in one step.

The query for a credential may fail. Where a stream is authenticated that is an
error of the server, and the page tries again; where it is rechecked
(`httpapi/connect.go:142`) and before a frame (line 151) any error counts as the end
of the session (`Misread`), and the page drops a credential that is in force. The
history variable `doubted` holds those whom this has befallen. Only these two steps
put somebody there, so the properties say what they can: who is cut off was either
over or had a query that failed.

`Mailbox` is what a page is promised: it is told when it falls behind, and is told
until it has looked and seen the stock as it is, or shows that looking failed; it
never goes back, and leaves only when its access has ended or somebody failed to
find out whether it has (`Doubt`). The refinement mapping
takes a page for told when something is on its way that will make it read
(`WillRead`, wherever that is: in a channel, on the wire, in a read under way, in a
connection to be made), for in trouble when it shows its error, and for gone when it
has dropped its credential. A dropped event, a lost frame and a restart must then
leave every page that needs it told.

### Access

`users`, `memberships`, `sessions`, `keys` are the tables; a password hash is the
password with a salt, so that a password set twice has two hashes. A request is a
program counter with what its handler has read: a login or a change of the own
password goes through credential, verification and the statement that relies on it
(`CreateUserSession` and `SetUserPassword` compare the hash that was verified); a
request with a session reads the session and the roles in two statements, as
`UserSessionByHash` does outside a transaction; a bulk deletion fixes its project,
checks one message after the other and deletes one after the other. `active` is
the counter of `LoginGuard`, given back by the deferred release wherever a handler
returns; a handler may fail at any point (`Abort`). `epoch`, `alive` and `held` are
history: changes of an account, whether the credential was good on arrival, and the
roles the user has had since.

The two statements of `UserSessionByHash` let a request act in a role that was
assigned after it arrived, although the assignment ended its session: `Granted`
therefore says "a role the user has had since the request arrived", which is what
`docs/USERS.md` means by requests already admitted that may finish. Abstracted: the
budgets of the guard are refusals, which may happen anyway; a key restricted to an
inbox is one restricted to a project; purging and single messages pass the checks
of a bulk deletion of one. Left out: creation of accounts, listings, audit rows,
pairing codes.

`Accounts` knows no hashes, rows, statements or slots: a call to sign in or to change
a password takes effect at one instant, by the account as it is then, or not at all.
The refinement mapping (`Purpose`, `Call`) reads off a request what its caller asks
for, which password it presents and which roles it may act in. A request whose
credential had ended when it arrived asks for nothing, although the handler may find
that out only later; nor does a login that has its session and waits to answer.
API keys, messages and slots have no counterpart there: `Granted` and `SlotsExact`
speak of them.

### DeviceLab

`messages`, `lab_injections` and `lab_keys` are the tables; an injection whose
`lease_until` has passed is in `lapsed`. A request is a program counter along
`Service.Inject`: the lookup of its key, the probes of the emulator, the
reservation, the command, what it concluded, the record. `console` is the
emulator, which may take an SMS long after nobody waits for its answer. Whether
the data of a repeated request agree decides only what it is answered, so
fingerprints are left out. The lease is wall-clock time and the request's 33
seconds are monotonic; the two part when the machine sleeps, so `LeaseEnds` may
happen at any moment. `RecoverInjections` reads the ids and then ends one after
the other in transactions of their own (`RecoverScan`, `RecoverOne`). The refinement
mapping reads `"handed"` off the commands started, as the relay's does off requests.

### Inboxes

`messages` tells drafts, which have their time and id, from rows; ids are
numbered in the order SQLite compares them in, and times tie. `deleters` are
deletion requests between `Get` and `Delete` of each id. `walk` is the export loop
with the cursor it was given; `NextPage` is a whole request, one query of
`limit+1` rows cut to `limit`. A filter is abstracted to "favourites only", the
one a row may leave and enter again; tags and status filter in the same way.
`audit` is the sum of the audit rows of each inbox, created less deleted. `owed`
and `copies` are history: what was in the list ever since the walk began, and
how often each message was handed out. What a walk owes is reset when it begins,
so an export that fails and is started anew counts as another.

### SmsText

One action per turn of each loop of `analyze`. Runes stand for the kinds the code
tells apart: those of the basic table, of the extension table, other ones of one
and of two UTF-16 units, and among them the ones the console escapes. `other` is
the definition the code is compared with: a packing of the same runes that may begin
a new segment anywhere, so every way to pack is some behaviour of it. The line for
the console is written by `Escaped`; the emulator reads it one symbol after the other
(`Hears`), with whether an escape is open (`ModeAfter`), and `heard` is what it has
made of the line so far.

## 3. Runs

| Run | Instance | Shows |
|---|---|---|
| `relay_twilio` | 2 messages, 1 key, 2 contents, limit 1 per 2 ticks, skew 1, 6 ticks | at most one request per message and key, truthful states, rate limit, no regress, with crashes, lost answers, repeated callbacks, deletion and driver changes |
| `relay_live` | 1 message, 1 key, 2 gateways, both drivers, 5 ticks | at most one request with apps that are killed, re-created, reset or revoked; implements `SendOnce`; every message settles |
| `simulation_stale` | 1 message, 2 processes, delays 0 and 3, budget 2, 1 crash, 1 replay | log order, callbacks, fencing; implements `Delivery` |
| `simulation_live` | 1 message, 1 process, 1 crash, 16 ticks | everything completes |
| `push` | 2 devices, 1 endpoint, 2 messages, 2 workers, 2 attempts, 2 subscription changes, 1 upset (crash, deletion or test alert) | old subscriptions leave nothing behind; retries, leases, coalescing; no alert lost but to deletions and test alerts |
| `push_deleted` | 1 device, 2 messages, 1 deletion, no test alerts | finding, below |
| `streams` | 1 device, 1 key, 2 connections, 1 change, 1 end of a credential, 1 fault | zombies, missed updates; the inductive invariant of the proof, by which only who is denied is cut off |
| `streams_live` | 1 device, 2 connections, 2 changes, 1 end, 1 fault | streams end, pages converge; implements `Mailbox` |
| `access` | 1 account, 2 passwords, 2 projects with a message each, 1 session, 1 key, 2 requests, 2 slots, 2 changes | stale sessions, acts beyond a grant, lost slots; implements `Accounts`, by which no reset is undone |
| `device_lab` | 2 messages, 1 key, 2 requests; restarts, deletions and ends of leases without bound | one command per injection and key, true outcomes that stand, implements `SendOnce`; every injection ends |
| `inboxes` | 3 messages, 2 inboxes, pages of 1 and 2, 1 deletion request at a time, 2 times, 1 favourite set, 1 export | the audit balances; exports are complete and without duplicates |
| `sms_text` | bodies of up to 5 of 8 runes; 4 and 3 units of GSM-7, 3 and 2 of UTF-16 | the fewest segments; the console's text is the one sent |

### Bounds

Every bound is a CONSTANT, named in the module where a guard uses it (`MaxTime`,
`MaxCrashes`, `Horizon`, ...). They are as small as the interesting case allows:

* Two messages are what a key reuse, a rate limit of one, a coalesced alert and
  an overtaking alert need. The proofs of the relay remove the bound there.
* Two workers are what a lost lease needs: one that holds the old attempt and
  one that has the new one. In `simulation_stale` the lease is one tick of four,
  so leases expire at every point of a step.
* Time: leases, delays and windows are one to three ticks, and the clock runs
  past the last of them, so every order of expiry, retry and report happens.
  `relay_live` and `simulation_live` stop the clock only after every deadline
  has passed; `Horizon` keeps new messages from arriving too late to settle.
* Two endings of a process, or two deletions, add nothing a single one and an
  arbitrary interleaving do not reach, because nothing but the database and the
  app's preferences survives a crash.
* In `access` two requests and two changes are what a reset between verification
  and update, and a login across both, need. One session row serves: an ended one
  is never usable again. `Assigned`, the roles that are given or taken away, are
  "admin" and "none": among the permissions that modelled requests use, "viewer" and
  "member" have none that "none" has not; the founder is a "viewer" in one of the
  projects. The proofs have none of these bounds.
* In `device_lab` nothing but data is bounded: one reservation wins a key and another
  comes without one. `Restart` and `LeaseEnds` happen whenever they can.
* In `inboxes` three messages are a page of two and a row beyond it, the case the
  limit of the query is about (`MaxList` is `MaxLimit` plus one as in the code);
  two ticks give ties and distinct times. `DefaultList` is smaller than `MaxLimit`,
  as 100 is than 200.
* In `sms_text` segments are a few units long, so that a pair meets the end of a
  segment at every offset, of one segment and of two; the proof has the code's
  limits among all others.
* `Tests` says whether phones ask for test alerts; `push_deleted` does without, so
  that its counterexample is about the deletion alone.
* The fault of `streams` may be a failed query before a frame; `streams_live` has no
  scoped credential and so only the one of the recheck. The proofs have both.
* `Window = 1` in `streams` makes writes block behind a single unread frame.

`CHECK_DEADLOCK FALSE` is used where counters are bounded: the model stops when
they are used up; the system does not.

### Fairness

* Relay: `WF(Loop)` and `WF(Tick)`. The loop runs every second, its requests
  time out after ten, and nothing is assumed of carriers, phones or callers.
* Simulation: `WF` of each loop's step and of time. `Lag` says that loops keep
  up with the clock: a job that is ready is picked within a tick, as a loop
  polls every 200 ms and a request ends after five seconds. Without it a
  bounded clock could run out before the last retry is due.
* Device lab: `WF` of the lease's end and of the scan, which runs every five
  seconds, and `SF` of the end of each id it read: a transaction may fail and a
  process die again and again, but not every time. Nothing is assumed of
  requests, adb or the emulator.
* Streams: handlers and hub callers run on (`WF`); a case of a `select` that is
  ready again and again is taken (`SF`), because Go chooses among ready cases at
  random and heartbeats are 15 seconds apart; browsers read, reconnect and get
  answers (`WF`). A client that does not read, a dropped connection, a failed
  read or query and a restart are faults, and there are finitely many.

Each property of a passing run has a mutant in `PROJECT.json`: a small change to
a mapped definition, as a plausible bug would make, that TLC finds to violate
the property under the same configuration. They are the operators named
`Mutant...` and no specification uses them.

## 4. Proofs

`RelayProofs` proves, for every set of messages, keys, contents and gateways,
every limit, window, lease, skew and horizon, from the ASSUMEs of `RelayStore`
and `Relay` alone:

| Theorem | Statement |
|---|---|
| `TypeCorrect` | `Spec => []TypeOK` |
| `Invariance` | `Spec => []Inv` |
| `AtMostOnce` | `Spec => []SentAtMostOnce` |
| `IntentOnce` | `Spec => []IntentSentOnce` |
| `RateLimited` | `Spec => []DispatchRate` |
| `NeverRegresses` | `Spec => OutcomeNeverRegresses` |
| `RecordsTrue` | `Spec => []Truthful` |
| `Refinement` | `Spec => RefinesSendOnce` |

*Why the invariant is what it is.* `SentAtMostOnce` alone is not inductive: a
state in which a message was sent and a thread still holds it satisfies it. The
invariant adds who may still ask a carrier (`Held`), that such a message was not
sent yet and has one holder (`HeldOnce`), that a message never claimed is in
nobody's hands (`Unclaimed`), and that the public status and the job agree
(`InStep`), so that only a queued message can be claimed. `IntentSentOnce` needs
that a key stays bound after its message was deleted (`KeyBound`: the schema
sets the reference to NULL and keeps the row). `DispatchRate` needs that rows
are not purged while a window still counts them (`Counted`); the bound it proves
is the limit in any window shortened by `Skew`, the exact price of reading the
clock before the transaction. `Truthful` is about the database, and what will be
written there is in flight long before: `Told` says of every outcome in the loop's
hands, an app's preferences, a request or a callback that the carrier bears it out
(`Bears`), and that nothing it may still do takes that back; a "failed" of a message
nobody was asked to send, for instance, is true only while nobody holds it.

*Layout.* The actions of `Next` are first reduced to a few transactions
(`StepsOfStore`, `StepsOther`), and each conjunct is preserved by one lemma over
those: `InStepStep`, `StatusMoves`, `HandOverStep`, `KeyBoundStep`,
`ClaimsStep`. `QuietUnless` says which actions can change who holds what; the
other actions are dealt with there once. What a carrier knows changes in four ways
(`FateMoves`), and a true outcome survives each (`BearsStays`). The refinement
states its mapping in the invariant's terms (`IntentCases`) and shows that queueing opens, that the
two ways to ask a carrier hand over, and that every other step closes intents or
stutters.

`StreamsProofs` proves, for every set of principals, connections and writers and
every capacity of a connection, from `StreamsAssumption` alone:

| Theorem | Statement |
|---|---|
| `TypeCorrect` | `Spec => []TypeOK` |
| `Invariance` | `Spec => []Inv` |
| `NoStreamSurvives` | `Spec => []NoZombie` |
| `NoUpdateMissed` | `Spec => []NoMissedUpdate` |
| `OnlyDeniedPagesLeave` | `Spec => []OnlyDeniedLeave` |
| `MailboxRefinement` | `Spec => RefinesMailbox` |

*Why the invariant is what it is.* `NoMissedUpdate` lets a page with an error
shown be behind; when it then reads again, something else must excuse it, so
`Fresh` accepts the error only while no read is under way. An event on its way
helps the page only if the stream serves that page and no other (`Linked`). An
answer that arrives must not be older than what the page shows already, or a page
that is current could fall behind (`Ordered`). That a page leaves only when its
credential has ended or could not be read needs that nothing in a channel, about to be
sent or on the wire says so without cause (`Founded`); a failed query is a cause for
the stream it befell, never for what the hub or a read of the messages says. The
refinement adds that a page which has left
reads nothing any more (`Silent`). `OnlyDeniedLeave` is a conjunct of `Inv`, which
`streams` checks.

*Layout.* `StreamStep` says what a change of one connection must respect
(`Allowed`), and each step of a stream is shown to; `ClientStep` does the same for
one client; `EndStep` covers revocation and expiry. The hub and the process have
lemmas of their own. For the refinement, a step that leaves the pages alone can only
tell them more (`OnlyTells`); the steps of a page are dealt with one by one.

`AccessProofs` proves, for any number of accounts, credentials, projects, messages,
requests and slots, from `AccessAssumption` alone:

| Theorem | Statement |
|---|---|
| `TypeCorrect` | `Spec => []TypeOK` |
| `Invariance` | `Spec => []AccessInv` |
| `NoStaleSession` | `Spec => []SessionsCurrent` |
| `NothingBeyondGrant` | `Spec => []Granted` |
| `GuardExact` | `Spec => []SlotsExact` |
| `PasswordOwned` | `Spec => ChangedByOwner` |
| `AccountsRefinement` | `Spec => RefinesAccounts` |

*Why the invariant is what it is.* What a request may do is decided by what it read
earlier, so `AccessInv` says of each request what still holds of it (`Good`): which
credential it can have where it stands (`Presented`), that the password it carries
is the one behind the hash it will compare (`Verified`), that a credential which had
ended on arrival is still ended and was not accepted (`Arrived`), that the roles its
user has now, and the ones it read, were all held since (`Follows`), and that the
messages it has checked belong to the project it may delete in (`Confined`).

*Layout.* `Moves`, `Settled` and `Slots` say what one request's step does to that
request, to the tables and to the guard. Each action has a lemma that it does so,
`MovesRequests` and `MovesSlots` draw the conclusion once, and role assignments,
which touch every request of a user, are dealt with apart (`HeldGood`).

The refinement sorts the steps of a request by what they are to its caller: most of
them change nothing it asks for or give it up (`GoesOn`), some begin a call
(`CallComes`), and those that write have a lemma each that the write is the effect of
the call. There `Verified` does the work: the hash a login or a change compares is
the one in the table, so the password presented is the one in force at that instant,
whenever it was verified. `ChangedByOwner` says no more of a password than `Accounts`
does, which is why no run checks it separately.

`DeviceLabProofs` proves, for any number of messages, keys and requests, from
`LabAssumption` alone, `Invariance` (`Spec => []Inv`), `OutcomesStand`
(`Spec => OutcomeStands`) and `LabRefinement` (`Spec => RefinesSendOnce`). The
invariant says of a request that has yet to run its command that nobody else holds
the message and no command was started (`OneCommand`), and of one that is about to
record that what it records is true (`AboutToTell`); `OutcomeStands` and the
refinement follow from it step by step.

`InboxesProofs` proves, for any finite set of numbered messages, any inboxes and
deletion requests, all sizes of pages and every clock, from `InboxesAssumption`
alone, `Invariance` (`Spec => []Inv`), `AuditExact` (`AuditBalance`),
`ExportComplete` (`WalkComplete`) and `ExportOnce` (`NoDuplicates`). What carries
them is the meaning of a cursor (`WalkOK`): a message handed out is not after it,
though its row may be gone; a message owed is after it or was handed out. A row
whose cursor was deleted still divides the list, because the cursor holds its time
and id. The cardinalities of the audit need only that the table is finite.

`SmsTextProofs` proves, for bodies of every length and all limits from two up, from
`SmsTextAssumption` alone, `Invariance` (`Spec => []Inv`), `SegmentsMinimal`
(`Spec => []FewestSegments`) and `ConsoleHearsBody` (`Spec => []ConsoleFaithful`). The code is compared with any other packing rune by
rune (`Ahead`): it has begun no more segments and, if as many, its last is not
fuller, so that where it has to begin a segment the other has no room left
either, or has begun one before. That a split message has at least two segments needs that
everything in a first segment is what was packed. For the console it is enough that
after the escape of each rune the reader has taken in exactly that rune's units and
has no escape open: each kind of rune is followed through its symbols, so the proof
needs no induction over a line.

`SimulationProofs` proves, for any number of messages and processes, every delay,
lease and budget, from `SimulationAssumption` alone, `SimulationTyped` (`TypeOK`),
`LifeInOrder` (`LogInOrder`), `CallbackPerEvent` (`HookPerEvent`),
`DeliveredWasAnswered` (`DoneMeansAccepted`), `AttemptsFence` (`OneHolder`),
`BudgetRespected` (`BudgetPlusRecoveries`) and `SimulationRefinement`
(`Spec => RefinesDelivery`). The log of a message, its status, its two
transitions and its three callbacks move through four phases together (`Phase` in
`SimInv`): none of them is inductive without the others. A process may hold an
attempt that was taken from it, so `Knows` bounds what it holds by the row's count;
only who holds exactly that count passes the fence, and every claim, replay and
recovery raises it or leaves it with nobody. The refinement follows: only who passes
the fence changes what has become of a callback, and `SimInv` says that the
receiver it reports on was asked, and accepted if that is what it reports.

`PushProofs` proves, for any number of phones, endpoints, messages and workers and
every time and limit, from `PushAssumption` alone, `OutboxTyped` (`TypeOK`),
`OneAlertWaits` (`OnePending`), `NothingForeignQueued` (`JobsMatchSubscription`),
`DiagnosticIsCurrent` (`StatusIsCurrent`), `ReplacementSurvives` (`OnlyGoneDropped`),
`RetriesBounded` (`AttemptsBounded`) and `OnlyDeletionsAndTestsLose`
(`NoOtherAlertLost`). What a
worker knows is a copy of a row that may have been replaced since: `OutboxInv` keeps
of it that a row with that id, if there still is one, belongs to the subscription the
worker read, and that "expired" is what the push service said of that generation
(`Knows`), which is why acting on a late answer is harmless. `OnlyGoneDropped` is about
steps: it looks at the row that disappears in a step of a worker, and the guard of
`Unsubscribed` is what makes it the one answered for. That no other alert
is lost rests on inbox alerts standing for all that is owed and not swallowed
(`Covered`), and a waiting row having an attempt left (`AttemptLeft`).

TLC checked each `Inv`, as it stands, in `relay_twilio`, `streams` and
`device_lab`, and the other inductive invariants (`Told`, `AccessInv`, `SimInv`,
`OutboxInv` and those of `Inboxes` and `SmsText`) on the instances of the runs of
their modules. A small instance does not show that an invariant is inductive: the
need for `Ordered` came to light in the proof.

Every safety property, action property and refinement that a passing run checks is
proved. All liveness (`Settles`, `Completes`, `StreamsEnd`, `Converges`, `Resolves`) is
model-checked only: it is beyond the prover. So is `AlertsKept`, which the code
violates (below).

## 5. Findings

* **Deleting a message may silence the alert for another one** (`push_deleted`).
  A pending alert absorbs later messages by overwriting `message_id`
  (`storage/push.go:153`), which refers to `messages ON DELETE CASCADE`
  (line 31). If the newest message is deleted while the alert waits, the alert
  goes, and the earlier messages it stood for, which still exist, are never
  announced.

Three more observations have no run of their own.

* A waiting test alert absorbs messages and remains a test: `ON CONFLICT`
  (`storage/push.go:153`) does not update `kind`, and an inbox alert to be retried
  gives way to any newer row (line 233). The phone then shows "Test notification" and
  nothing of the message, for which `docs/NOTIFICATIONS.md:68` promises a
  notification. `NoOtherAlertLost` (`push`) says that this and the deletion are the
  only ways: nothing else loses an alert.
* One query that fails ends a session for its page. `stream` takes every error of
  `DeviceByHash` and `keyAlive` for the end of the credential
  (`httpapi/connect.go:142,151`), `deviceAPI` only `ErrInvalid`, so whether a database
  that is busy for a moment costs the pairing depends on where it is met; by
  `docs/CONNECT.md:58` an expired or revoked device must pair again.
  `OnlyDeniedLeave` and `Mailbox` say that nothing else does.
* `docs/SIMULATION.md` promises up to five
  attempts of a callback; `NextJob` (`storage/simulation.go:165-174`) takes over a
  running job whose lease has expired without comparing `attempts` with
  `max_attempts`, so a process that stops between the last post and its record is
  followed by one more post, at every such interruption. `BudgetPlusRecoveries`
  (`simulation_stale`) is the bound that does hold.

## 6. Plan

Done, in this order: 1 relay (store, loop, gateways, refinement), 2 simulation,
3 push outbox, 4 hub, streams and pages, 5 access, 6 device lab, 7 message table,
export and segmentation, and the proofs of all of them.

Next, in order of what they would add:

1. Pairing codes (`storage/connect.go`): a code makes one device, of the scope it was
   created for, and only before it expires. One `DELETE ... RETURNING` decides it, so
   nothing can come between.
2. The budgets of the login guard over its window, and audit rows of actions other
   than on messages: each change has its row, and none without a change.
3. An abstract specification of the push outbox: as long as nothing is deleted and no
   test waits, each message a phone subscribed for is owed until an alert for it, or for
   a later one, was accepted or given up. `PushOutbox` says so with history variables
   now (`NoOtherAlertLost`).

## 7. Not modelled

Gateway health, adapters, configuration, the CLI but for its export loop, SDK,
samples, website: they keep no state that steps of several actors could disturb. Migrations run once,
before anything else. Scenario and workspace editing are single statements.
Message bodies, numbers, headers and wording are abstracted everywhere to what
the properties can tell apart.

## 8. Running

    tlc -config MCRelayTwilio.cfg MCRelay.tla        # and so for every run
    for m in Relay Streams Access DeviceLab Inboxes SmsText Simulation Push; do
        tlapm ${m}Proofs.tla
    done
