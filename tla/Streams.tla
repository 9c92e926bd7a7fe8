------------------------------- MODULE Streams -------------------------------
(***************************************************************************)
(* Live updates: the hub of internal/events/hub.go, the event streams of   *)
(* internal/httpapi/connect.go and the clients that follow them,           *)
(* web/src/hooks/useLiveEvents.ts and web/src/PhoneApp.tsx.                *)
(*                                                                         *)
(* The hub tells a stream that something changed, never what: a client     *)
(* reads the messages in its scope again after every "sync".  Requests     *)
(* commit to the database first and tell the hub afterwards, streams       *)
(* subscribe, check their credential again and only then start: between    *)
(* any two of these steps others run.                                      *)
(***************************************************************************)
EXTENDS Integers, Sequences

CONSTANTS
    Principal,      \* paired devices, API keys and user sessions
    Scoped,         \* those whose credential every send checks: keys and sessions
    Stream,         \* connections the server can have open
    Writer,         \* requests and workers that change messages
    None,           \* no connection
    Window,         \* frames a connection holds before writes block
    MaxChanges,     \* bound: commits
    MaxEnds,        \* bound: revocations and expiries
    MaxFaults       \* bound: dropped connections, failed reads and queries, server restarts

ASSUME StreamsAssumption ==
    /\ Scoped \subseteq Principal /\ None \notin Principal \cup Stream
    /\ Window \in Nat \ {0} /\ {MaxChanges, MaxEnds, MaxFaults} \subseteq Nat

VARIABLES
    version,        \* of the messages in each principal's scope: commits that changed them
    access,         \* "active", "revoked" or "expired"
    writers,        \* each writer: whose scope it has changed and not announced yet
    revokers,       \* principals whose revocation is committed and not announced yet
    streams,        \* each connection at the server
    clients,        \* each client: its connection, its read under way, what it shows
    doubted,        \* history: principals told that it is over as a query for their credential failed
    changes, ends, faults       \* bounded counters

counters == <<changes, ends, faults>>
vars == <<version, access, writers, revokers, streams, clients, doubted, counters>>

Event == {"sync", "heartbeat", "revoked"}
Frame == Event \cup {"401"}
\* channel is the subscriber's channel of capacity one, wire what the client has not read.
Connection == [pc: {"off", "auth", "subscribe", "recheck", "check", "write", "select"},
               owner: Principal \cup {None}, channel: Event \cup {"empty"}, event: Event,
               wire: Seq(Frame)]
Off(wire) == [pc |-> "off", owner |-> None, channel |-> "empty", event |-> "sync", wire |-> wire]
\* A client that is out has dropped its credential.
Client == [conn: Stream \cup {None}, out: BOOLEAN, read: {"none", "asked", "answered", "refused"},
           answer: Nat, shown: Nat, error: BOOLEAN]
NewClient == [conn |-> None, out |-> FALSE, read |-> "none", answer |-> 0, shown |-> 0,
              error |-> FALSE]

TypeOK ==
    /\ version \in [Principal -> Nat]
    /\ access \in [Principal -> {"active", "revoked", "expired"}]
    /\ writers \in [Writer -> SUBSET Principal]
    /\ revokers \subseteq Principal
    /\ streams \in [Stream -> Connection]
    /\ clients \in [Principal -> Client]
    /\ doubted \subseteq Principal
    /\ {changes, ends, faults} \subseteq Nat

Init ==
    /\ version = [p \in Principal |-> 0]
    /\ access = [p \in Principal |-> "active"]
    /\ writers = [w \in Writer |-> {}]
    /\ revokers = {} /\ doubted = {}
    /\ streams = [s \in Stream |-> Off(<<>>)]
    /\ clients = [p \in Principal |-> NewClient]
    /\ changes = 0 /\ ends = 0 /\ faults = 0

-----------------------------------------------------------------------------
(* The hub: each operation holds its mutex throughout.                     *)

Subscribed(s) == streams[s].pc \in {"recheck", "check", "write", "select"}

\* Mutant: a stream that is busy sending is passed over.
MutantOffered(S) ==
    [s \in Stream |-> IF streams[s].pc = "select" /\ streams[s].owner \in S /\ streams[s].channel = "empty"
                      THEN [streams[s] EXCEPT !.channel = "sync"] ELSE streams[s]]

\* Changed and Resync: "sync" for the streams of S, dropped where an event waits.
Offered(S) ==
    [s \in Stream |-> IF Subscribed(s) /\ streams[s].owner \in S /\ streams[s].channel = "empty"
                      THEN [streams[s] EXCEPT !.channel = "sync"] ELSE streams[s]]

\* Mutant: "revoked" is offered like "sync", without draining the channel.
MutantRevoked(p) ==
    [s \in Stream |-> IF Subscribed(s) /\ streams[s].owner = p /\ streams[s].channel = "empty"
                      THEN [streams[s] EXCEPT !.channel = "revoked"] ELSE streams[s]]

\* Revoke: "revoked" takes the place of an event that waits.
Revoked(p) ==
    [s \in Stream |-> IF Subscribed(s) /\ streams[s].owner = p
                      THEN [streams[s] EXCEPT !.channel = "revoked"] ELSE streams[s]]

-----------------------------------------------------------------------------
(* Requests: commit, then tell the hub.                                    *)

\* Messages in the scope of S are captured, edited or deleted.
Commit(w, S) ==
    /\ writers[w] = {} /\ changes < MaxChanges
    /\ version' = [p \in Principal |-> IF p \in S THEN version[p] + 1 ELSE version[p]]
    /\ writers' = [writers EXCEPT ![w] = S]
    /\ changes' = changes + 1
    /\ UNCHANGED <<access, revokers, streams, clients, doubted, ends, faults>>

\* One message's scope, or everyone after a bulk operation (Resync).
Announce(w) ==
    /\ writers[w] # {}
    /\ \E S \in {writers[w], Principal} : streams' = Offered(S)
    /\ writers' = [writers EXCEPT ![w] = {}]
    /\ UNCHANGED <<version, access, revokers, clients, doubted, counters>>

\* A device or a key is revoked, or all sessions of a user with one transaction.
RevokeAccess(S) ==
    /\ ends < MaxEnds /\ \A p \in S : access[p] = "active"
    /\ S # {} /\ ((\E p \in S : S = {p}) \/ S \subseteq Scoped)
    /\ access' = [p \in Principal |-> IF p \in S THEN "revoked" ELSE access[p]]
    /\ revokers' = revokers \cup S
    /\ ends' = ends + 1
    /\ UNCHANGED <<version, writers, streams, clients, doubted, changes, faults>>

AnnounceRevoked(p) ==
    /\ p \in revokers
    /\ streams' = Revoked(p)
    /\ revokers' = revokers \ {p}
    /\ UNCHANGED <<version, access, writers, clients, doubted, counters>>

Expire(p) ==
    /\ access[p] = "active" /\ ends < MaxEnds
    /\ access' = [access EXCEPT ![p] = "expired"]
    /\ ends' = ends + 1
    /\ UNCHANGED <<version, writers, revokers, streams, clients, doubted, changes, faults>>

-----------------------------------------------------------------------------
(* A stream of the server.                                                 *)

Becomes(s, connection) ==
    /\ streams' = [streams EXCEPT ![s] = connection]
    /\ UNCHANGED <<version, access, writers, revokers, clients, doubted, counters>>

\* Something fails on the way.
Breaks(s, connection) ==
    /\ faults < MaxFaults /\ faults' = faults + 1
    /\ streams' = [streams EXCEPT ![s] = connection]
    /\ UNCHANGED <<version, access, writers, revokers, clients, changes, ends>>

\* The query for the credential fails (the database is busy, full or closed already): the
\* server takes any error for the end of the session, and says so.
Misread(s, connection) ==
    /\ Breaks(s, connection)
    /\ doubted' = doubted \cup {streams[s].owner}

\* The stream is about to send event: a scoped credential is checked first.
Sending(s, event) ==
    [streams[s] EXCEPT !.pc = IF streams[s].owner \in Scoped THEN "check" ELSE "write",
                       !.event = event]

Alive(s) == access[streams[s].owner] = "active"
Attached(s) == streams[s].owner # None /\ clients[streams[s].owner].conn = s

\* Here a query that fails is an error of the server (500), and the client tries again.
Authenticate(s) ==
    /\ streams[s].pc = "auth"
    /\ \/ Becomes(s, IF Alive(s) THEN [streams[s] EXCEPT !.pc = "subscribe"] ELSE Off(<<"401">>))
       \/ Breaks(s, Off(<<>>)) /\ UNCHANGED doubted

Subscribe(s) ==
    /\ streams[s].pc = "subscribe"
    /\ Becomes(s, [streams[s] EXCEPT !.pc = "recheck"])

\* Mutant: the credential is not checked again.
MutantRecheck(s) ==
    /\ streams[s].pc = "recheck"
    /\ Becomes(s, Sending(s, "sync"))

\* Mutant: the stream waits for its first event.
MutantRecheckSilent(s) ==
    /\ streams[s].pc = "recheck"
    /\ \/ Becomes(s, IF Alive(s) THEN [streams[s] EXCEPT !.pc = "select"] ELSE Off(<<"401">>))
       \/ Misread(s, Off(<<"401">>))

\* "Subscribe before rechecking".  Every stream starts with a sync.
Recheck(s) ==
    /\ streams[s].pc = "recheck"
    /\ \/ Becomes(s, IF Alive(s) THEN Sending(s, "sync") ELSE Off(<<"401">>))
       \/ Misread(s, Off(<<"401">>))

\* keyAlive, before every frame of a key or session.
Check(s) ==
    /\ streams[s].pc = "check"
    /\ \/ Becomes(s, [streams[s] EXCEPT !.pc = "write",
                                        !.event = IF Alive(s) THEN @ ELSE "revoked"])
       \/ Misread(s, [streams[s] EXCEPT !.pc = "write", !.event = "revoked"])

\* A write waits for room; it fails when the client has gone.
Write(s) ==
    LET connection == streams[s]
        written == Append(connection.wire, connection.event)
    IN  /\ connection.pc = "write"
        /\ Attached(s) => Len(connection.wire) < Window
        /\ Becomes(s, IF ~Attached(s) THEN Off(<<>>)
                      ELSE IF connection.event = "revoked" THEN Off(written)
                      ELSE [connection EXCEPT !.pc = "select", !.event = "sync", !.wire = written])

\* A client that does not read for five seconds is released.
GiveUp(s) ==
    /\ streams[s].pc = "write" /\ Attached(s) /\ Len(streams[s].wire) >= Window
    /\ Breaks(s, Off(streams[s].wire)) /\ UNCHANGED doubted

Take(s) ==
    /\ streams[s].pc = "select" /\ streams[s].channel # "empty"
    /\ Becomes(s, [Sending(s, streams[s].channel) EXCEPT !.channel = "empty"])

Heartbeat(s) ==
    /\ streams[s].pc = "select"
    /\ Becomes(s, Sending(s, "heartbeat"))

\* Mutant: the timer is for keys and sessions only.
MutantExpiration(s) ==
    /\ streams[s].pc = "select" /\ access[streams[s].owner] = "expired"
    /\ streams[s].owner \in Scoped
    /\ Becomes(s, Sending(s, "revoked"))

\* The timer of a credential that has run out.
Expiration(s) ==
    /\ streams[s].pc = "select" /\ access[streams[s].owner] = "expired"
    /\ Becomes(s, Sending(s, "revoked"))

\* The context of the request is cancelled: the client hung up.
HangUp(s) ==
    /\ streams[s].pc \in {"auth", "recheck", "select"} /\ ~Attached(s)
    /\ Becomes(s, Off(<<>>))

\* Mutant: a read that fails leaves no trace.
MutantFailedRead(client) == [client EXCEPT !.read = "none", !.answer = 0]

\* The read of the messages fails; the page says so.
FailedRead(client) == [client EXCEPT !.read = "none", !.answer = 0, !.error = TRUE]

\* The process ends; hub, streams and whatever was to be announced go with it.
Restart ==
    /\ faults < MaxFaults
    /\ streams' = [s \in Stream |-> Off(<<>>)]
    /\ writers' = [w \in Writer |-> {}]
    /\ revokers' = {}
    /\ clients' = [p \in Principal |-> IF clients[p].read = "asked" THEN FailedRead(clients[p])
                                      ELSE clients[p]]
    /\ faults' = faults + 1
    /\ UNCHANGED <<version, access, doubted, changes, ends>>

-----------------------------------------------------------------------------
(* A client: the page of a phone or of a desktop.                          *)

Updates(p, client) ==
    /\ clients' = [clients EXCEPT ![p] = client]
    /\ UNCHANGED <<version, access, writers, revokers, doubted, changes, ends>>

Free(s) == streams[s].pc = "off" /\ \A p \in Principal : clients[p].conn # s

Connect(p) ==
    /\ clients[p].conn = None /\ ~clients[p].out
    /\ \E s \in Stream :
        /\ Free(s)
        /\ streams' = [streams EXCEPT ![s] = [Off(<<>>) EXCEPT !.pc = "auth", !.owner = p]]
        /\ Updates(p, [clients[p] EXCEPT !.conn = s])
    /\ UNCHANGED faults

\* The session is over for the client: it forgets its credential and its messages.
Disconnected == [NewClient EXCEPT !.out = TRUE]

\* The next frame: a sync starts a read, and abandons the one under way.
Receive(p) ==
    LET s == clients[p].conn
    IN  /\ s # None /\ streams[s].wire # <<>>
        /\ streams' = [streams EXCEPT ![s].wire = Tail(@)]
        /\ LET frame == Head(streams[s].wire)
           IN  Updates(p, CASE frame = "sync" -> [clients[p] EXCEPT !.read = "asked", !.answer = 0]
                            [] frame = "heartbeat" -> clients[p]
                            [] OTHER -> Disconnected)
        /\ UNCHANGED faults

\* End of the stream, or the network drops the connection: it will reconnect.
Lose(p) ==
    LET s == clients[p].conn
    IN  /\ s # None
        /\ \/ streams[s].pc = "off" /\ streams[s].wire = <<>> /\ UNCHANGED faults
           \/ faults < MaxFaults /\ faults' = faults + 1
        /\ Updates(p, [clients[p] EXCEPT !.conn = None])
        /\ streams' = [streams EXCEPT ![s].wire = <<>>]

\* The server answers the read with the messages in scope.
ServeRead(p) ==
    /\ clients[p].read = "asked"
    /\ Updates(p, IF access[p] = "active"
                  THEN [clients[p] EXCEPT !.read = "answered", !.answer = version[p]]
                  ELSE [clients[p] EXCEPT !.read = "refused"])
    /\ UNCHANGED <<streams, faults>>

Show(p) ==
    /\ \/ /\ clients[p].read = "answered"
          /\ Updates(p, [clients[p] EXCEPT !.read = "none", !.shown = clients[p].answer,
                                           !.answer = 0, !.error = FALSE])
       \/ /\ clients[p].read = "refused"
          /\ Updates(p, Disconnected)
    /\ UNCHANGED <<streams, faults>>

ReadFails(p) ==
    /\ clients[p].read \in {"asked", "answered"} /\ faults < MaxFaults
    /\ faults' = faults + 1
    /\ Updates(p, FailedRead(clients[p]))
    /\ UNCHANGED streams

-----------------------------------------------------------------------------
Serve(s) == Authenticate(s) \/ Subscribe(s) \/ Recheck(s) \/ Check(s) \/ Write(s) \/ HangUp(s)
Follow(p) == Connect(p) \/ Receive(p) \/ Show(p)
EndOfStream(p) == clients[p].conn # None /\ streams[clients[p].conn].pc = "off" /\ Lose(p)

Next ==
    \/ \E w \in Writer : Announce(w) \/ \E S \in SUBSET Principal : Commit(w, S)
    \/ \E S \in SUBSET Principal : RevokeAccess(S)
    \/ \E p \in Principal : \/ AnnounceRevoked(p) \/ Expire(p) \/ Follow(p) \/ Lose(p)
                            \/ ServeRead(p) \/ ReadFails(p)
    \/ \E s \in Stream : Serve(s) \/ Take(s) \/ Heartbeat(s) \/ Expiration(s) \/ GiveUp(s)
    \/ Restart

Spec == Init /\ [][Next]_vars

\* Handlers run on; an endlessly ready case of a select is taken (it chooses at
\* random); browsers read, reconnect and get answers.
Fairness ==
    /\ \A w \in Writer : WF_vars(Announce(w))
    /\ \A s \in Stream : WF_vars(Serve(s)) /\ SF_vars(Take(s)) /\ SF_vars(Expiration(s))
    /\ \A p \in Principal : /\ WF_vars(AnnounceRevoked(p)) /\ WF_vars(Connect(p))
                            /\ WF_vars(Receive(p)) /\ WF_vars(EndOfStream(p))
                            /\ WF_vars(ServeRead(p)) /\ WF_vars(Show(p))

FairSpec == Spec /\ Fairness

-----------------------------------------------------------------------------
(* Properties.                                                             *)

\* The frames a client acts upon, and those that end its session.
Tidings == Frame \ {"heartbeat"}
Endings == {"revoked", "401"}
Waits(wire, S) == \E i \in 1..Len(wire) : wire[i] \in S

\* The stream c will tell its client that the session is over.
Closing(c) == c.channel = "revoked" \/ (c.pc \in {"check", "write"} /\ c.event = "revoked")

\* No stream outlives a revocation: once the hub was told, a stream of the principal
\* has not checked its credential again yet, or holds "revoked", or is sending it.
NoZombie ==
    \A s \in Stream :
        LET c == streams[s]
        IN  (Subscribed(s) /\ access[c.owner] = "revoked" /\ c.owner \notin revokers)
                => c.pc = "recheck" \/ Closing(c)

\* A client of c will hear of something: the stream has yet to start, or broke off, or
\* has an event in its channel, on its way or on the wire.
WillHear(c) ==
    \/ c.pc \in {"off", "auth", "subscribe", "recheck"}
    \/ c.channel # "empty"
    \/ c.pc \in {"check", "write"} /\ c.event # "heartbeat"
    \/ Waits(c.wire, Tidings)

\* The client of p will read again, or learn that it is cut off.
WillRead(p) ==
    \/ clients[p].read \in {"asked", "refused"}
    \/ clients[p].read = "answered" /\ clients[p].answer = version[p]
    \/ \E w \in Writer : p \in writers[w]
    \/ clients[p].conn = None \/ WillHear(streams[clients[p].conn])

\* No update is missed: a client in the session that shows old messages says that its
\* last read failed, or is about to read again, although the hub coalesces events and
\* has no memory of them.
NoMissedUpdate ==
    \A p \in Principal :
        (~clients[p].out /\ clients[p].shown # version[p]) => clients[p].error \/ WillRead(p)

\* A credential that was said to be over: it is, or the server failed to find out.
Denied(p) == access[p] # "active" \/ p \in doubted

\* Nobody else is cut off: a client gives up its credential only when it has ended, or
\* when one of its streams failed to find out whether it has.
OnlyDeniedLeave == \A p \in Principal : clients[p].out => Denied(p)

-----------------------------------------------------------------------------
(* The inductive invariant behind the safety properties.                   *)

\* A stream that runs serves the client that is attached to it, and no other.
Linked ==
    /\ \A s \in Stream : streams[s].pc # "off" => streams[s].owner \in Principal
    /\ \A p \in Principal :
        LET s == clients[p].conn
        IN  s # None => /\ ~clients[p].out
                        /\ streams[s].pc # "off" => streams[s].owner = p
                        /\ \A q \in Principal : clients[q].conn = s => q = p

\* Nothing says that a session is over unless it is; a stream may also say so when it
\* failed to find out, the hub and the reads of the messages may not.
Founded ==
    /\ \A p \in revokers : access[p] = "revoked"
    /\ \A s \in Stream :
        streams[s].pc # "off" =>
            /\ streams[s].channel = "revoked" => access[streams[s].owner] # "active"
            /\ Closing(streams[s]) => Denied(streams[s].owner)
    /\ \A p \in Principal :
        /\ clients[p].read = "refused" => access[p] # "active"
        /\ clients[p].conn # None /\ Waits(streams[clients[p].conn].wire, Endings) => Denied(p)

\* NoMissedUpdate, but a failed read excuses nobody once another one is under way.
Informed(p) ==
    \/ clients[p].out \/ clients[p].shown = version[p]
    \/ clients[p].error /\ clients[p].read = "none"
    \/ WillRead(p)

Fresh ==
    /\ \A s \in Stream : streams[s].channel # "heartbeat"
    /\ \A p \in Principal : Informed(p)

\* An answer is not older than what is shown, or from the future.
Ordered ==
    \A p \in Principal :
        /\ clients[p].shown <= version[p]
        /\ clients[p].read = "answered" =>
                clients[p].shown <= clients[p].answer /\ clients[p].answer <= version[p]

\* A client that is out reads nothing any more.
Silent == \A p \in Principal : clients[p].out => clients[p].read = "none"

Inv == TypeOK /\ Linked /\ Founded /\ NoZombie /\ Fresh /\ Ordered /\ Silent /\ OnlyDeniedLeave

-----------------------------------------------------------------------------
(* What the pages are promised.                                            *)

Promise == INSTANCE Mailbox WITH
    stock <- version,
    open <- [p \in Principal |-> access[p] = "active"],
    shown <- [p \in Principal |-> clients[p].shown],
    told <- [p \in Principal |-> ~clients[p].out /\ WillRead(p)],
    trouble <- [p \in Principal |-> clients[p].error],
    left <- [p \in Principal |-> clients[p].out]

\* Every behaviour of hub, streams and pages is one of Mailbox: no step of a stream, of the
\* hub or of the network, no restart and no expiry makes a page that is behind forget to
\* look; a page never goes back to older messages, and only one whose access has ended,
\* or could not be checked, leaves, for good.
RefinesMailbox == Promise!Spec

-----------------------------------------------------------------------------
\* A stream whose credential has ended closes.
StreamsEnd ==
    \A s \in Stream, p \in Principal :
        (streams[s].owner = p /\ access[p] # "active") ~> (streams[s].owner # p)

\* Every client with access ends up showing the messages there are, or the failure of its
\* last read, unless a failed check of its credential has sent it away; every other client
\* finds out that its session is over.
Converges ==
    \A p \in Principal :
        <>[](IF access[p] = "active"
             THEN clients[p].shown = version[p] \/ clients[p].error \/ (clients[p].out /\ p \in doubted)
             ELSE clients[p].out)
=============================================================================
