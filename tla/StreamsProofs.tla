---------------------------- MODULE StreamsProofs ----------------------------
(***************************************************************************)
(* Proofs of the safety properties of Streams, for every set of principals,*)
(* connections and writers and every capacity of a connection.             *)
(*                                                                         *)
(* Steps of a stream change one connection: StreamStep says what such a    *)
(* change must respect to preserve the invariant, and each of them is      *)
(* shown to.  Steps of requests and of clients are dealt with one by one.  *)
(***************************************************************************)
EXTENDS Streams, TLAPS

-----------------------------------------------------------------------------
(* What is on the wire.                                                    *)

LEMMA WaitsNone == \A S : ~Waits(<<>>, S)
  BY DEF Waits

LEMMA WaitsOne == ASSUME NEW f, NEW S PROVE Waits(<<f>>, S) <=> f \in S
  BY DEF Waits

LEMMA WaitsAppend ==
    ASSUME NEW wire \in Seq(Frame), NEW f \in Frame, NEW S
    PROVE  Waits(Append(wire, f), S) <=> Waits(wire, S) \/ f \in S
  <1>1. /\ Len(Append(wire, f)) = Len(wire) + 1
        /\ Append(wire, f)[Len(wire) + 1] = f
        /\ \A i \in 1..Len(wire) : Append(wire, f)[i] = wire[i]
        /\ Len(wire) \in Nat
    OBVIOUS
  <1>2. 1..(Len(wire) + 1) = (1..Len(wire)) \cup {Len(wire) + 1}
    BY <1>1
  <1> QED  BY <1>1, <1>2 DEF Waits

LEMMA WaitsTail ==
    ASSUME NEW wire \in Seq(Frame), wire # <<>>, NEW S
    PROVE  Waits(wire, S) <=> Head(wire) \in S \/ Waits(Tail(wire), S)
  <1>1. /\ Len(wire) \in Nat \ {0}
        /\ Len(Tail(wire)) = Len(wire) - 1
        /\ Head(wire) = wire[1]
        /\ \A i \in 1..(Len(wire) - 1) : Tail(wire)[i] = wire[i + 1]
    OBVIOUS
  <1>2. ASSUME NEW i \in 1..Len(wire), wire[i] \in S
        PROVE  Head(wire) \in S \/ Waits(Tail(wire), S)
    <2>1. CASE i = 1
      BY <2>1, <1>1, <1>2
    <2>2. CASE i # 1
      <3>1. i - 1 \in 1..(Len(wire) - 1) /\ (i - 1) + 1 = i
        BY <2>2, <1>1
      <3>2. Tail(wire)[i - 1] = wire[i]
        BY <3>1, <1>1
      <3> QED  BY <3>1, <3>2, <1>1, <1>2 DEF Waits
    <2> QED  BY <2>1, <2>2
  <1>3. ASSUME NEW i \in 1..Len(Tail(wire)), Tail(wire)[i] \in S
        PROVE  Waits(wire, S)
    <2>1. i + 1 \in 1..Len(wire) /\ wire[i + 1] = Tail(wire)[i]
      BY <1>1, <1>3
    <2> QED  BY <2>1, <1>3 DEF Waits
  <1>4. 1 \in 1..Len(wire)
    BY <1>1
  <1> QED  BY <1>1, <1>2, <1>3, <1>4 DEF Waits

LEMMA OffType ==
    ASSUME NEW wire \in Seq(Frame)
    PROVE  /\ Off(wire) \in Connection /\ Off(wire).pc = "off" /\ Off(wire).wire = wire
           /\ Off(wire).channel = "empty" /\ ~Closing(Off(wire)) /\ WillHear(Off(wire))
  BY DEF Off, Connection, Event, Closing, WillHear

LEMMA SendingType ==
    ASSUME TypeOK, NEW s \in Stream, NEW e \in Event
    PROVE  /\ Sending(s, e) \in Connection
           /\ Sending(s, e).pc \in {"check", "write"} /\ Sending(s, e).event = e
           /\ Sending(s, e).owner = streams[s].owner
           /\ Sending(s, e).channel = streams[s].channel
           /\ Sending(s, e).wire = streams[s].wire
  <1>1. streams[s] \in Connection
    BY DEF TypeOK
  <1> QED  BY <1>1 DEF Sending, Connection

-----------------------------------------------------------------------------
(* One connection changes.                                                 *)

\* What a stream may do to its connection if those of D are doubted afterwards.  Only a
\* running stream goes on, for the same owner; it says that the session is over only if
\* it is, or doubted; it does not lose a revocation it was told of, nor an event its
\* client has to hear of.
Allowed(s, c, D) ==
    LET old == streams[s]
    IN  /\ c \in Connection /\ c.channel # "heartbeat"
        /\ c.pc # "off" => old.pc # "off" /\ c.owner = old.owner
        /\ c.pc # "off" /\ c.channel = "revoked" => access[old.owner] # "active"
        /\ c.pc # "off" /\ Closing(c) => access[old.owner] # "active" \/ old.owner \in D
        /\ Waits(c.wire, Endings) => \/ Waits(old.wire, Endings)
                                     \/ /\ old.pc # "off"
                                        /\ access[old.owner] # "active" \/ old.owner \in D
        /\ (c.pc \in {"recheck", "check", "write", "select"} /\ access[old.owner] = "revoked"
                /\ old.owner \notin revokers) => c.pc = "recheck" \/ Closing(c)
        /\ WillHear(old) => WillHear(c)

\* A step of streams and hub that does nothing to the pages but tell them, and may cast
\* doubt on one.
OnlyTells ==
    /\ UNCHANGED <<version, access, clients>>
    /\ UNCHANGED doubted \/ \E p \in Principal : doubted' = doubted \cup {p}
    /\ \A p \in Principal : WillRead(p) => WillRead(p)'

LEMMA StreamStep ==
    ASSUME Inv, NEW s \in Stream, NEW c, Allowed(s, c, doubted'),
           streams' = [streams EXCEPT ![s] = c],
           UNCHANGED <<version, access, writers, revokers, clients>>,
           UNCHANGED doubted \/ \E p \in Principal : doubted' = doubted \cup {p},
           {changes, ends, faults}' \subseteq Nat
    PROVE  Inv' /\ OnlyTells
  <1>1. /\ streams' \in [Stream -> Connection]
        /\ streams'[s] = c
        /\ \A t \in Stream : t # s => streams'[t] = streams[t]
    BY DEF Inv, TypeOK, Allowed
  <1>2. TypeOK'
    BY <1>1 DEF Inv, TypeOK
  <1>3. Linked'
    BY <1>1 DEF Inv, Linked, TypeOK, Client, Allowed
  <1>4. Founded'
    <2>1. ASSUME NEW p \in Principal, ~Denied(p)', clients[p].conn # None
          PROVE  ~Waits(streams'[clients[p].conn].wire, Endings)
      <3>1. clients[p].conn \in Stream /\ access[p] = "active" /\ p \notin doubted'
        BY <2>1 DEF Inv, TypeOK, Client, Denied
      <3>2. ~Waits(streams[clients[p].conn].wire, Endings)
        BY <2>1, <3>1 DEF Inv, Founded, Denied
      <3>3. CASE clients[p].conn = s
        BY <1>1, <2>1, <3>1, <3>2, <3>3 DEF Inv, Linked, Allowed
      <3> QED  BY <1>1, <3>1, <3>2, <3>3
    <2>2. ASSUME NEW t \in Stream, streams'[t].pc # "off"
          PROVE  /\ streams'[t].channel = "revoked" => access[streams'[t].owner] # "active"
                 /\ Closing(streams'[t]) => \/ access[streams'[t].owner] # "active"
                                            \/ streams'[t].owner \in doubted'
      BY <1>1, <2>2 DEF Inv, Founded, Allowed, Denied
    <2> QED  BY <2>1, <2>2 DEF Inv, Founded, Denied
  <1>5. NoZombie'
    BY <1>1 DEF Inv, NoZombie, Subscribed, Allowed
  <1>6. \A p \in Principal : WillRead(p) => WillRead(p)'
    <2>1. ASSUME NEW p \in Principal, clients[p].conn # None, WillHear(streams[clients[p].conn])
          PROVE  WillHear(streams'[clients[p].conn])
      BY <1>1, <2>1 DEF Inv, TypeOK, Client, Allowed
    <2> QED  BY <2>1 DEF WillRead
  <1>7. Fresh'
    <2>1. \A t \in Stream : streams'[t].channel # "heartbeat"
      BY <1>1 DEF Inv, Fresh, Allowed
    <2> QED  BY <1>6, <2>1 DEF Inv, Fresh, Informed
  <1>8. OnlyDeniedLeave' /\ Ordered' /\ Silent'
    BY DEF Inv, OnlyDeniedLeave, Denied, Ordered, Silent
  <1> QED  BY <1>2, <1>3, <1>4, <1>5, <1>6, <1>7, <1>8 DEF Inv, OnlyTells

\* The three ways in which a stream goes on.
LEMMA StreamBecomes ==
    ASSUME Inv, NEW s \in Stream, NEW c, Allowed(s, c, doubted), Becomes(s, c)
    PROVE  Inv' /\ OnlyTells
  <1>1. {changes, ends, faults}' \subseteq Nat /\ doubted' = doubted
    BY DEF Inv, TypeOK, Becomes, counters
  <1> QED  BY <1>1, StreamStep DEF Becomes

LEMMA StreamBreaks ==
    ASSUME Inv, NEW s \in Stream, NEW c, Allowed(s, c, doubted), Breaks(s, c), UNCHANGED doubted
    PROVE  Inv' /\ OnlyTells
  <1>1. {changes, ends, faults}' \subseteq Nat
    BY DEF Inv, TypeOK, Breaks
  <1> QED  BY <1>1, StreamStep DEF Breaks

LEMMA StreamMisread ==
    ASSUME Inv, NEW s \in Stream, streams[s].pc # "off", NEW c,
           Allowed(s, c, doubted \cup {streams[s].owner}), Misread(s, c)
    PROVE  Inv' /\ OnlyTells
  <1>1. {changes, ends, faults}' \subseteq Nat
    BY DEF Inv, TypeOK, Misread, Breaks
  <1>2. PICK p \in Principal : p = streams[s].owner
    BY DEF Inv, Linked
  <1>3. doubted' = doubted \cup {p}
    BY <1>2 DEF Misread
  <1>4. Allowed(s, c, doubted')
    BY <1>2, <1>3
  <1> QED  BY <1>1, <1>3, <1>4, StreamStep DEF Misread, Breaks

\* A stream may break off, whatever it still holds, if it writes nothing unfounded.
LEMMA BreakOff ==
    ASSUME Inv, NEW s \in Stream, NEW D, NEW wire \in Seq(Frame),
           Waits(wire, Endings) => \/ Waits(streams[s].wire, Endings)
                                   \/ /\ streams[s].pc # "off"
                                      /\ ~Alive(s) \/ streams[s].owner \in D
    PROVE  Allowed(s, Off(wire), D)
  BY OffType DEF Allowed, Alive

LEMMA Empty == <<>> \in Seq(Frame) /\ <<"401">> \in Seq(Frame)
  <1>1. "401" \in Frame
    BY DEF Frame
  <1> QED  BY <1>1

\* A stream may start to send: a revocation that it was told of stays in its channel,
\* or is what it sends.
LEMMA StartToSend ==
    ASSUME Inv, NEW s \in Stream, NEW e \in Event,
           streams[s].pc \in {"recheck", "select"},
           e = "revoked" => ~Alive(s),
           streams[s].pc = "recheck" => Alive(s) /\ e # "heartbeat"
    PROVE  Allowed(s, Sending(s, e), doubted)
  <1> DEFINE c == Sending(s, e)
             old == streams[s]
  <1>1. /\ c \in Connection /\ c.pc \in {"check", "write"} /\ c.event = e
        /\ c.owner = old.owner /\ c.channel = old.channel /\ c.wire = old.wire
    BY SendingType DEF Inv
  <1> HIDE DEF c
  <1>2. /\ old.channel # "heartbeat"
        /\ old.channel = "revoked" => access[old.owner] # "active"
    BY DEF Inv, Fresh, Founded
  <1>3. Closing(c) => access[old.owner] # "active"
    BY <1>1, <1>2 DEF Closing, Alive
  <1>4. access[old.owner] = "revoked" /\ old.owner \notin revokers => Closing(c)
    BY <1>1 DEF Inv, NoZombie, Subscribed, Closing, Alive
  <1>5. WillHear(old) => WillHear(c)
    BY <1>1 DEF WillHear
  <1>6. Allowed(s, c, doubted)
    BY <1>1, <1>2, <1>3, <1>4, <1>5 DEF Allowed
  <1> QED  BY <1>6 DEF c

LEMMA AuthenticateStep == ASSUME Inv, NEW s \in Stream, Authenticate(s) PROVE Inv' /\ OnlyTells
  <1> DEFINE c == [streams[s] EXCEPT !.pc = "subscribe"]
  <1>1. \/ Alive(s) /\ Becomes(s, c)
        \/ ~Alive(s) /\ Becomes(s, Off(<<"401">>))
        \/ Breaks(s, Off(<<>>)) /\ UNCHANGED doubted
    BY DEF Authenticate
  <1>2. CASE Becomes(s, c)
    <2>1. /\ c \in Connection /\ c.pc = "subscribe" /\ c.owner = streams[s].owner
          /\ c.channel = streams[s].channel /\ c.wire = streams[s].wire
      BY DEF Inv, TypeOK, Connection
    <2> HIDE DEF c
    <2>2. Closing(c) <=> c.channel = "revoked"
      BY <2>1 DEF Closing
    <2>3. Allowed(s, c, doubted)
      BY <2>1, <2>2 DEF Authenticate, Allowed, WillHear, Inv, Fresh, Founded
    <2> QED  BY <1>2, <2>3, StreamBecomes
  <1>3. CASE ~Alive(s) /\ Becomes(s, Off(<<"401">>))
    <2>1. Allowed(s, Off(<<"401">>), doubted)
      BY <1>3, BreakOff, Empty DEF Authenticate
    <2> QED  BY <1>3, <2>1, StreamBecomes
  <1>4. CASE Breaks(s, Off(<<>>)) /\ UNCHANGED doubted
    <2>1. Allowed(s, Off(<<>>), doubted)
      BY BreakOff, Empty, WaitsNone
    <2> QED  BY <1>4, <2>1, StreamBreaks
  <1> QED  BY <1>1, <1>2, <1>3, <1>4

LEMMA SubscribeStep == ASSUME Inv, NEW s \in Stream, Subscribe(s) PROVE Inv' /\ OnlyTells
  <1> DEFINE c == [streams[s] EXCEPT !.pc = "recheck"]
  <1>1. /\ c \in Connection /\ c.pc = "recheck" /\ c.owner = streams[s].owner
        /\ c.channel = streams[s].channel /\ c.wire = streams[s].wire
    BY DEF Inv, TypeOK, Connection
  <1>2. Becomes(s, c)
    BY DEF Subscribe
  <1> HIDE DEF c
  <1>3. Closing(c) <=> c.channel = "revoked"
    BY <1>1 DEF Closing
  <1>4. Allowed(s, c, doubted)
    BY <1>1, <1>3 DEF Subscribe, Allowed, WillHear, Inv, Fresh, Founded
  <1> QED  BY <1>2, <1>4, StreamBecomes

LEMMA RecheckStep == ASSUME Inv, NEW s \in Stream, Recheck(s) PROVE Inv' /\ OnlyTells
  <1>1. \/ Alive(s) /\ Becomes(s, Sending(s, "sync"))
        \/ ~Alive(s) /\ Becomes(s, Off(<<"401">>))
        \/ Misread(s, Off(<<"401">>))
    BY DEF Recheck
  <1>2. CASE Alive(s) /\ Becomes(s, Sending(s, "sync"))
    <2>1. Allowed(s, Sending(s, "sync"), doubted)
      BY <1>2, StartToSend DEF Recheck, Event
    <2> QED  BY <1>2, <2>1, StreamBecomes
  <1>3. CASE ~Alive(s) /\ Becomes(s, Off(<<"401">>))
    <2>1. Allowed(s, Off(<<"401">>), doubted)
      BY <1>3, BreakOff, Empty DEF Recheck
    <2> QED  BY <1>3, <2>1, StreamBecomes
  <1>4. CASE Misread(s, Off(<<"401">>))
    <2>1. Allowed(s, Off(<<"401">>), doubted \cup {streams[s].owner})
      BY BreakOff, Empty DEF Recheck
    <2> QED  BY <1>4, <2>1, StreamMisread DEF Recheck
  <1> QED  BY <1>1, <1>2, <1>3, <1>4

LEMMA CheckStep == ASSUME Inv, NEW s \in Stream, Check(s) PROVE Inv' /\ OnlyTells
  <1> DEFINE old == streams[s]
             c(e) == [old EXCEPT !.pc = "write", !.event = e]
  <1>1. /\ old.pc = "check"
        /\ \/ Becomes(s, c(IF Alive(s) THEN old.event ELSE "revoked"))
           \/ Misread(s, c("revoked"))
    BY Zenon DEF Check
  <1>2. old \in Connection /\ old.channel # "heartbeat"
    BY DEF Inv, TypeOK, Fresh
  <1>3. ASSUME NEW e \in Event, ~Alive(s) => e = "revoked", e \in {old.event, "revoked"},
               NEW D, doubted \subseteq D,
               e = "revoked" => ~Alive(s) \/ old.owner \in D \/ old.event = "revoked"
        PROVE  Allowed(s, c(e), D)
    <2>1. /\ c(e) \in Connection /\ c(e).pc = "write" /\ c(e).event = e
          /\ c(e).owner = old.owner /\ c(e).channel = old.channel /\ c(e).wire = old.wire
      BY <1>2 DEF Connection
    <2>2. old.channel = "revoked" => access[old.owner] # "active"
      BY <1>1 DEF Inv, Founded
    <2>3. Closing(c(e)) => access[old.owner] # "active" \/ old.owner \in D
      BY <1>1, <1>3, <2>1, <2>2 DEF Inv, Founded, Closing, Alive, Denied
    <2>4. access[old.owner] = "revoked" => Closing(c(e))
      BY <1>3, <2>1 DEF Closing, Alive
    <2>5. WillHear(old) => WillHear(c(e))
      BY <1>1, <1>3, <2>1 DEF WillHear
    <2> HIDE DEF c
    <2> QED  BY <1>1, <1>2, <2>1, <2>2, <2>3, <2>4, <2>5 DEF Allowed
  <1>4. old.event \in Event /\ "revoked" \in Event
    BY <1>2 DEF Connection, Event
  <1>5. CASE Becomes(s, c(IF Alive(s) THEN old.event ELSE "revoked"))
    <2>1. Allowed(s, c(IF Alive(s) THEN old.event ELSE "revoked"), doubted)
      BY <1>3, <1>4
    <2> HIDE DEF c
    <2> QED  BY <1>5, <2>1, StreamBecomes
  <1>6. CASE Misread(s, c("revoked"))
    <2>1. Allowed(s, c("revoked"), doubted \cup {old.owner})
      BY <1>3, <1>4
    <2> HIDE DEF c
    <2> QED  BY <1>1, <1>6, <2>1, StreamMisread
  <1> QED  BY <1>1, <1>5, <1>6

LEMMA WriteStep == ASSUME Inv, NEW s \in Stream, Write(s) PROVE Inv' /\ OnlyTells
  <1> DEFINE old == streams[s]
             written == Append(old.wire, old.event)
  <1>1. /\ old \in Connection /\ old.pc = "write" /\ old.event \in Event /\ old.event \in Frame
        /\ old.wire \in Seq(Frame) /\ written \in Seq(Frame)
    BY DEF Write, Inv, TypeOK, Connection, Frame
  <1>2. \A S : Waits(written, S) <=> Waits(old.wire, S) \/ old.event \in S
    BY <1>1, WaitsAppend
  <1>3. old.event \in Endings =>
            /\ old.event = "revoked"
            /\ access[old.owner] # "active" \/ old.owner \in doubted
    BY <1>1 DEF Inv, Founded, Closing, Denied, Endings, Event
  <1>4. CASE ~Attached(s)
    <2>1. Allowed(s, Off(<<>>), doubted)
      BY BreakOff, Empty, WaitsNone
    <2>2. Becomes(s, Off(<<>>))
      BY <1>4 DEF Write
    <2> QED  BY <2>1, <2>2, StreamBecomes
  <1>5. CASE Attached(s) /\ old.event = "revoked"
    <2>1. Allowed(s, Off(written), doubted)
      BY <1>1, <1>2, <1>3, BreakOff DEF Alive
    <2>2. Becomes(s, Off(written))
      BY <1>5 DEF Write
    <2> QED  BY <2>1, <2>2, StreamBecomes
  <1>6. CASE Attached(s) /\ old.event # "revoked"
    <2> DEFINE c == [old EXCEPT !.pc = "select", !.event = "sync", !.wire = written]
    <2>1. Becomes(s, c)
      BY <1>6, Zenon DEF Write
    <2> HIDE DEF written
    <2>2. /\ c \in Connection /\ c.pc = "select" /\ c.owner = old.owner
          /\ c.channel = old.channel /\ c.wire = written
      BY <1>1 DEF Connection, Event
    <2> HIDE DEF c
    <2>3. Closing(c) <=> Closing(old)
      BY <1>1, <1>6, <2>2 DEF Closing
    <2>4. Waits(c.wire, Endings) => Waits(old.wire, Endings)
      BY <1>2, <1>3, <1>6, <2>2
    <2>5. WillHear(old) => WillHear(c)
      BY <1>1, <1>2, <2>2 DEF WillHear, Tidings, Event, Frame
    <2>6. /\ old.channel # "heartbeat"
          /\ old.channel = "revoked" => access[old.owner] # "active"
          /\ Closing(old) => access[old.owner] # "active" \/ old.owner \in doubted
      BY <1>1 DEF Inv, Fresh, Founded, Denied
    <2>7. access[old.owner] = "revoked" /\ old.owner \notin revokers => Closing(old)
      BY <1>1 DEF Inv, NoZombie, Subscribed
    <2>8. Allowed(s, c, doubted)
      BY <1>1, <2>2, <2>3, <2>4, <2>5, <2>6, <2>7 DEF Allowed
    <2> QED  BY <2>1, <2>8, StreamBecomes
  <1> QED  BY <1>4, <1>5, <1>6

LEMMA GiveUpStep == ASSUME Inv, NEW s \in Stream, GiveUp(s) PROVE Inv' /\ OnlyTells
  <1>1. Allowed(s, Off(streams[s].wire), doubted)
    BY BreakOff DEF Inv, TypeOK, Connection
  <1> QED  BY <1>1, StreamBreaks DEF GiveUp

LEMMA TakeStep == ASSUME Inv, NEW s \in Stream, Take(s) PROVE Inv' /\ OnlyTells
  <1> DEFINE old == streams[s]
             sending == Sending(s, old.channel)
             c == [sending EXCEPT !.channel = "empty"]
  <1>1. Becomes(s, c)
    BY DEF Take
  <1>2. old.pc = "select" /\ old.channel \in Event /\ old.channel # "heartbeat"
    BY DEF Take, Inv, TypeOK, Connection, Fresh
  <1>3. /\ sending \in Connection /\ sending.pc \in {"check", "write"}
        /\ sending.event = old.channel /\ sending.owner = old.owner /\ sending.wire = old.wire
    BY <1>2, SendingType DEF Inv
  <1> HIDE DEF sending
  <1>4. /\ c \in Connection /\ c.pc \in {"check", "write"} /\ c.event = old.channel
        /\ c.owner = old.owner /\ c.wire = old.wire /\ c.channel = "empty"
    BY <1>3 DEF Connection
  <1> HIDE DEF c
  <1>5. Closing(c) <=> Closing(old)
    BY <1>2, <1>4 DEF Closing
  <1>6. Closing(old) => access[old.owner] # "active" \/ old.owner \in doubted
    BY <1>2 DEF Inv, Founded, Denied
  <1>7. access[old.owner] = "revoked" /\ old.owner \notin revokers => Closing(old)
    BY <1>2 DEF Inv, NoZombie, Subscribed
  <1>8. Allowed(s, c, doubted)
    BY <1>2, <1>4, <1>5, <1>6, <1>7 DEF Allowed, WillHear
  <1> QED  BY <1>1, <1>8, StreamBecomes

LEMMA HeartbeatStep == ASSUME Inv, NEW s \in Stream, Heartbeat(s) PROVE Inv' /\ OnlyTells
  <1>1. Allowed(s, Sending(s, "heartbeat"), doubted)
    BY StartToSend DEF Heartbeat, Event
  <1> QED  BY <1>1, StreamBecomes DEF Heartbeat

LEMMA ExpirationStep == ASSUME Inv, NEW s \in Stream, Expiration(s) PROVE Inv' /\ OnlyTells
  <1>1. Allowed(s, Sending(s, "revoked"), doubted)
    BY StartToSend DEF Expiration, Event, Alive
  <1> QED  BY <1>1, StreamBecomes DEF Expiration

LEMMA HangUpStep == ASSUME Inv, NEW s \in Stream, HangUp(s) PROVE Inv' /\ OnlyTells
  <1>1. Allowed(s, Off(<<>>), doubted)
    BY BreakOff, Empty, WaitsNone
  <1> QED  BY <1>1, StreamBecomes DEF HangUp
-----------------------------------------------------------------------------
(* One client changes.                                                     *)

\* Steps of a client other than Connect.  It keeps its connection or drops it, leaves
\* only when its credential has ended or is doubted, and takes frames from its own wire only.
LEMMA ClientStep ==
    ASSUME Inv, NEW p \in Principal, NEW client \in Client,
           Updates(p, client), faults' \in Nat,
           client.conn \in {clients[p].conn, None},
           client.out => client.conn = None /\ client.read = "none" /\ Denied(p),
           client.read = "refused" => access[p] # "active",
           client.shown <= version[p],
           client.read = "answered" => client.shown <= client.answer /\ client.answer <= version[p],
           streams' \in [Stream -> Connection],
           \A s \in Stream : /\ streams'[s].pc = streams[s].pc
                             /\ streams'[s].owner = streams[s].owner
                             /\ streams'[s].channel = streams[s].channel
                             /\ streams'[s].event = streams[s].event
                             /\ s # clients[p].conn => streams'[s].wire = streams[s].wire
                             /\ client.conn = s /\ Waits(streams'[s].wire, Endings)
                                    => Waits(streams[s].wire, Endings),
           Informed(p)'
    PROVE  Inv'
  <1>1. /\ clients' \in [Principal -> Client]
        /\ clients'[p] = client
        /\ \A q \in Principal : q # p => clients'[q] = clients[q]
    BY DEF Inv, TypeOK, Updates
  <1>2. UNCHANGED <<version, access, writers, revokers, doubted, changes, ends>>
    BY DEF Updates
  <1>3. TypeOK'
    BY <1>1, <1>2 DEF Inv, TypeOK
  <1>4. \A q \in Principal : /\ clients[q].conn \in Stream \cup {None}
                             /\ clients[q].conn # None => /\ ~clients[q].out
                                                          /\ clients[p].conn = clients[q].conn => q = p
    BY DEF Inv, TypeOK, Client, Linked
  <1>5. Linked'
    <2>1. \A s \in Stream : streams'[s].pc # "off" => streams'[s].owner \in Principal
      BY DEF Inv, Linked
    <2>2. ASSUME NEW q \in Principal, clients'[q].conn # None
          PROVE  /\ ~clients'[q].out
                 /\ streams'[clients'[q].conn].pc # "off" => streams'[clients'[q].conn].owner = q
                 /\ \A r \in Principal : clients'[r].conn = clients'[q].conn => r = q
      <3>1. clients'[q].conn = clients[q].conn /\ clients[q].conn \in Stream
        BY <1>1, <1>4, <2>2
      <3>2. ~clients'[q].out
        BY <1>1, <1>4, <2>2
      <3>3. streams'[clients'[q].conn].pc # "off" => streams'[clients'[q].conn].owner = q
        BY <2>2, <3>1 DEF Inv, Linked
      <3>4. ASSUME NEW r \in Principal, clients'[r].conn = clients'[q].conn
            PROVE  r = q
        <4>1. clients'[r].conn = clients[r].conn
          BY <1>1, <2>2, <3>4
        <4>2. clients[q].conn # None /\ clients[r].conn = clients[q].conn
          BY <2>2, <3>1, <3>4, <4>1
        <4> QED  BY <4>2, Zenon DEF Inv, Linked
      <3> QED  BY <3>2, <3>3, <3>4
    <2> QED  BY <2>1, <2>2 DEF Linked
  <1>6. Founded'
    <2>1. ASSUME NEW q \in Principal
          PROVE  /\ clients'[q].read = "refused" => access[q] # "active"
                 /\ clients'[q].conn # None /\ Waits(streams'[clients'[q].conn].wire, Endings)
                        => Denied(q)
      BY <1>1, <1>4 DEF Inv, Founded
    <2>2. \A s \in Stream : streams'[s].pc # "off" =>
                /\ streams'[s].channel = "revoked" => access[streams'[s].owner] # "active"
                /\ Closing(streams'[s]) => \/ access[streams'[s].owner] # "active"
                                           \/ streams'[s].owner \in doubted
      BY DEF Inv, Founded, Closing, Denied
    <2> QED  BY <1>2, <2>1, <2>2 DEF Inv, Founded, Denied
  <1>7. NoZombie'
    BY <1>2 DEF Inv, NoZombie, Subscribed, Closing
  <1>8. Fresh'
    <2>1. ASSUME NEW q \in Principal, q # p
          PROVE  Informed(q)'
      <3>1. clients'[q] = clients[q] /\ Informed(q)
        BY <1>1, <2>1 DEF Inv, Fresh
      <3>2. clients[q].conn # None /\ WillHear(streams[clients[q].conn])
                => WillHear(streams'[clients[q].conn])
        BY <1>4, <2>1 DEF WillHear
      <3> QED  BY <1>2, <3>1, <3>2 DEF Informed, WillRead
    <2> QED  BY <2>1 DEF Inv, Fresh
  <1>9. Ordered'
    BY <1>1, <1>2 DEF Inv, Ordered
  <1>10. OnlyDeniedLeave' /\ Silent'
    BY <1>1, <1>2 DEF Inv, OnlyDeniedLeave, Denied, Silent
  <1> QED  BY <1>3, <1>5, <1>6, <1>7, <1>8, <1>9, <1>10 DEF Inv

LEMMA DisconnectedType ==
    /\ Disconnected \in Client /\ Disconnected.out /\ Disconnected.conn = None
    /\ Disconnected.read = "none" /\ Disconnected.shown = 0
  BY DEF Disconnected, NewClient, Client

LEMMA ReceiveStep == ASSUME Inv, NEW p \in Principal, Receive(p) PROVE Inv'
  <1> DEFINE s == clients[p].conn
             wire == streams[s].wire
             frame == Head(wire)
  <1>1. /\ s \in Stream /\ wire \in Seq(Frame) /\ wire # <<>>
        /\ frame \in Frame /\ Tail(wire) \in Seq(Frame) /\ clients[p] \in Client
    BY DEF Receive, Inv, TypeOK, Client, Connection
  <1>2. \A S : Waits(wire, S) <=> frame \in S \/ Waits(Tail(wire), S)
    BY <1>1, WaitsTail
  <1>3. /\ streams' = [streams EXCEPT ![s] = [streams[s] EXCEPT !.wire = Tail(wire)]]
        /\ faults' \in Nat
    BY DEF Receive, Inv, TypeOK
  <1>4. /\ streams' \in [Stream -> Connection]
        /\ streams'[s].wire = Tail(wire)
        /\ \A t \in Stream : /\ streams'[t].pc = streams[t].pc
                             /\ streams'[t].owner = streams[t].owner
                             /\ streams'[t].channel = streams[t].channel
                             /\ streams'[t].event = streams[t].event
                             /\ t # s => streams'[t].wire = streams[t].wire
                             /\ s = t /\ Waits(streams'[t].wire, Endings)
                                    => Waits(streams[t].wire, Endings)
    <2>1. [streams[s] EXCEPT !.wire = Tail(wire)] \in Connection
      BY <1>1 DEF Inv, TypeOK, Connection
    <2>2. streams \in [Stream -> Connection]
      BY DEF Inv, TypeOK
    <2> QED  BY <1>1, <1>2, <1>3, <2>1, <2>2 DEF Connection
  <1>5. /\ clients[p].shown <= version[p] /\ Informed(p)
        /\ clients[p].read = "answered" =>
                clients[p].shown <= clients[p].answer /\ clients[p].answer <= version[p]
        /\ clients[p].read = "refused" => access[p] # "active"
        /\ ~clients[p].out
    BY <1>1 DEF Inv, Ordered, Fresh, Founded, Linked, Receive
  <1>6. CASE frame = "sync"
    <2> DEFINE client == [clients[p] EXCEPT !.read = "asked", !.answer = 0]
    <2>1. Updates(p, client)
      BY <1>6, Zenon DEF Receive
    <2>2. /\ client \in Client /\ client.read = "asked" /\ client.conn = s
          /\ client.shown = clients[p].shown /\ client.out = clients[p].out
      BY <1>1 DEF Client
    <2> HIDE DEF client
    <2>3. clients'[p] = client
      BY <2>1 DEF Updates, Inv, TypeOK
    <2>4. Informed(p)'
      BY <2>2, <2>3 DEF Informed, WillRead
    <2> QED  BY <1>3, <1>4, <1>5, <2>1, <2>2, <2>4, ClientStep
  <1>7. CASE frame = "heartbeat"
    <2>1. Updates(p, clients[p])
      BY <1>7 DEF Receive
    <2>2. clients' = clients /\ version' = version /\ writers' = writers
      BY <2>1 DEF Updates, Inv, TypeOK
    <2>3. WillHear(streams[s]) => WillHear(streams'[s])
      BY <1>1, <1>2, <1>4, <1>7 DEF WillHear, Tidings
    <2>4. Informed(p)'
      BY <1>5, <2>2, <2>3 DEF Informed, WillRead
    <2> QED  BY <1>1, <1>3, <1>4, <1>5, <2>1, <2>4, ClientStep
  <1>8. CASE frame \in Endings
    <2>1. Updates(p, Disconnected)
      BY <1>8 DEF Receive, Endings
    <2>2. Denied(p)
      BY <1>1, <1>2, <1>8 DEF Inv, Founded, Receive
    <2>3. clients'[p] = Disconnected
      BY <2>1 DEF Updates, Inv, TypeOK
    <2>4. Informed(p)'
      BY <2>3, DisconnectedType DEF Informed
    <2>5. 0 <= version[p] /\ None \notin Stream
      BY StreamsAssumption DEF Inv, TypeOK
    <2> QED  BY <1>1, <1>3, <1>4, <2>1, <2>2, <2>4, <2>5, DisconnectedType, ClientStep
  <1> QED  BY <1>1, <1>6, <1>7, <1>8 DEF Frame, Event, Endings

LEMMA LoseStep == ASSUME Inv, NEW p \in Principal, Lose(p) PROVE Inv'
  <1> DEFINE s == clients[p].conn
             client == [clients[p] EXCEPT !.conn = None]
  <1>1. s \in Stream /\ clients[p] \in Client /\ streams \in [Stream -> Connection]
    BY DEF Lose, Inv, TypeOK, Client
  <1>2. Updates(p, client) /\ faults' \in Nat
    BY DEF Lose, Inv, TypeOK
  <1>3. streams' = [streams EXCEPT ![s] = [streams[s] EXCEPT !.wire = <<>>]]
    BY DEF Lose
  <1>4. [streams[s] EXCEPT !.wire = <<>>] \in Connection
    BY <1>1, Empty DEF Connection
  <1>5. /\ streams' \in [Stream -> Connection]
        /\ \A t \in Stream : /\ streams'[t].pc = streams[t].pc
                             /\ streams'[t].owner = streams[t].owner
                             /\ streams'[t].channel = streams[t].channel
                             /\ streams'[t].event = streams[t].event
                             /\ t # s => streams'[t].wire = streams[t].wire
    BY <1>1, <1>3, <1>4 DEF Connection
  <1>6. /\ client \in Client /\ client.conn = None /\ client.read = clients[p].read
        /\ client.answer = clients[p].answer /\ client.shown = clients[p].shown
        /\ client.out = clients[p].out
    BY <1>1 DEF Client
  <1> HIDE DEF client
  <1>7. clients'[p] = client
    BY <1>2 DEF Updates, Inv, TypeOK
  <1>8. Informed(p)'
    BY <1>6, <1>7 DEF Informed, WillRead
  <1>9. /\ client.shown <= version[p]
        /\ client.read = "answered" => client.shown <= client.answer /\ client.answer <= version[p]
        /\ client.read = "refused" => access[p] # "active"
        /\ ~client.out
        /\ None \notin Stream
    BY <1>1, <1>6, StreamsAssumption DEF Inv, Ordered, Founded, Linked
  <1> QED  BY <1>2, <1>5, <1>6, <1>8, <1>9, ClientStep

\* A step of a client that leaves the server's streams alone.
LEMMA ReadStep ==
    ASSUME Inv, NEW p \in Principal, NEW client \in Client,
           Updates(p, client), streams' = streams, faults' \in Nat,
           client.conn \in {clients[p].conn, None},
           client.out => client.conn = None /\ client.read = "none" /\ Denied(p),
           client.read = "refused" => access[p] # "active",
           client.shown <= version[p],
           client.read = "answered" => client.shown <= client.answer /\ client.answer <= version[p],
           Informed(p)'
    PROVE  Inv'
  <1>1. streams' \in [Stream -> Connection]
    BY DEF Inv, TypeOK
  <1> QED  BY <1>1, ClientStep

LEMMA ServeReadStep == ASSUME Inv, NEW p \in Principal, ServeRead(p) PROVE Inv'
  <1>1. /\ clients[p] \in Client /\ version[p] \in Nat /\ faults' \in Nat /\ streams' = streams
        /\ clients[p].shown <= version[p] /\ version' = version
        /\ ~clients[p].out
    BY DEF ServeRead, Updates, Inv, TypeOK, Ordered, Silent
  <1>2. CASE access[p] = "active"
    <2> DEFINE client == [clients[p] EXCEPT !.read = "answered", !.answer = version[p]]
    <2>1. Updates(p, client)
      BY <1>2, Zenon DEF ServeRead
    <2>2. /\ client \in Client /\ client.read = "answered" /\ client.answer = version[p]
          /\ client.conn = clients[p].conn /\ client.out = clients[p].out
          /\ client.shown = clients[p].shown
      BY <1>1 DEF Client
    <2> HIDE DEF client
    <2>3. clients'[p] = client
      BY <2>1 DEF Updates, Inv, TypeOK
    <2>4. Informed(p)'
      BY <1>1, <2>2, <2>3 DEF Informed, WillRead
    <2> QED  BY <1>1, <2>1, <2>2, <2>4, ReadStep
  <1>3. CASE access[p] # "active"
    <2> DEFINE client == [clients[p] EXCEPT !.read = "refused"]
    <2>1. Updates(p, client)
      BY <1>3 DEF ServeRead
    <2>2. /\ client \in Client /\ client.read = "refused"
          /\ client.conn = clients[p].conn /\ client.out = clients[p].out
          /\ client.shown = clients[p].shown
      BY <1>1 DEF Client
    <2> HIDE DEF client
    <2>3. clients'[p] = client
      BY <2>1 DEF Updates, Inv, TypeOK
    <2>4. Informed(p)'
      BY <2>2, <2>3 DEF Informed, WillRead
    <2> QED  BY <1>1, <1>3, <2>1, <2>2, <2>4, ReadStep
  <1> QED  BY <1>2, <1>3

LEMMA ShowStep == ASSUME Inv, NEW p \in Principal, Show(p) PROVE Inv'
  <1>1. /\ clients[p] \in Client /\ version[p] \in Nat /\ faults' \in Nat /\ streams' = streams
        /\ ~clients[p].out
    BY DEF Show, Inv, TypeOK, Silent
  <1>2. CASE clients[p].read = "answered"
    <2> DEFINE client == [clients[p] EXCEPT !.read = "none", !.shown = clients[p].answer,
                                            !.answer = 0, !.error = FALSE]
    <2>1. Updates(p, client)
      BY <1>2, Zenon DEF Show
    <2>2. /\ client \in Client /\ client.read = "none" /\ client.shown = clients[p].answer
          /\ client.conn = clients[p].conn /\ client.out = clients[p].out
      <3>1. {clients[p].answer, 0} \subseteq Nat /\ "none" \in {"none", "asked", "answered", "refused"}
        BY <1>1 DEF Client
      <3> QED  BY <1>1, <3>1, Zenon DEF Client
    <2> HIDE DEF client
    <2>3. clients'[p] = client /\ version' = version /\ writers' = writers
      BY <2>1 DEF Updates, Inv, TypeOK
    <2>4. /\ clients[p].shown <= clients[p].answer /\ clients[p].answer <= version[p]
          /\ {clients[p].shown, clients[p].answer} \subseteq Nat
      BY <1>1, <1>2 DEF Inv, Ordered, Client
    <2>5. Informed(p)
      BY DEF Inv, Fresh
    <2>6. clients[p].shown = version[p] => clients[p].answer = version[p]
      BY <1>1, <2>4
    <2>7. Informed(p)'
      BY <1>1, <1>2, <2>2, <2>3, <2>5, <2>6 DEF Informed, WillRead
    <2> QED  BY <1>1, <2>1, <2>2, <2>4, <2>7, ReadStep
  <1>3. CASE clients[p].read = "refused"
    <2>1. Updates(p, Disconnected)
      BY <1>3 DEF Show
    <2>2. Denied(p) /\ 0 <= version[p]
      BY <1>1, <1>3 DEF Inv, Founded, Denied
    <2>3. clients'[p] = Disconnected
      BY <2>1 DEF Updates, Inv, TypeOK
    <2>4. Informed(p)'
      BY <2>3, DisconnectedType DEF Informed
    <2> QED  BY <1>1, <2>1, <2>2, <2>4, DisconnectedType, ReadStep
  <1> QED  BY <1>2, <1>3 DEF Show

LEMMA FailedReadType ==
    ASSUME NEW client \in Client
    PROVE  /\ FailedRead(client) \in Client /\ FailedRead(client).read = "none"
           /\ FailedRead(client).error /\ FailedRead(client).conn = client.conn
           /\ FailedRead(client).out = client.out /\ FailedRead(client).shown = client.shown
  <1>1. 0 \in Nat /\ "none" \in {"none", "asked", "answered", "refused"}
    OBVIOUS
  <1> QED  BY <1>1, Zenon DEF FailedRead, Client

LEMMA ReadFailsStep == ASSUME Inv, NEW p \in Principal, ReadFails(p) PROVE Inv'
  <1>1. /\ clients[p] \in Client /\ faults' \in Nat /\ streams' = streams
        /\ clients[p].shown <= version[p]
        /\ ~clients[p].out
        /\ Updates(p, FailedRead(clients[p]))
    BY DEF ReadFails, Inv, TypeOK, Ordered, Silent
  <1>2. clients'[p] = FailedRead(clients[p])
    BY <1>1 DEF Updates, Inv, TypeOK
  <1>3. Informed(p)'
    BY <1>1, <1>2, FailedReadType DEF Informed
  <1> QED  BY <1>1, <1>3, FailedReadType, ReadStep

LEMMA ConnectStep == ASSUME Inv, NEW p \in Principal, Connect(p) PROVE Inv'
  <1>1. PICK s \in Stream :
            /\ Free(s)
            /\ streams' = [streams EXCEPT ![s] = [Off(<<>>) EXCEPT !.pc = "auth", !.owner = p]]
            /\ Updates(p, [clients[p] EXCEPT !.conn = s])
    BY DEF Connect
  <1> DEFINE c == [Off(<<>>) EXCEPT !.pc = "auth", !.owner = p]
             client == [clients[p] EXCEPT !.conn = s]
  <1>2. /\ c \in Connection /\ c.pc = "auth" /\ c.owner = p /\ c.wire = <<>>
        /\ c.channel = "empty"
    BY Empty DEF Off, Connection, Event
  <1>3. /\ client \in Client /\ client.conn = s /\ client.out = clients[p].out
        /\ client.read = clients[p].read /\ client.shown = clients[p].shown
        /\ client.answer = clients[p].answer
    BY DEF Inv, TypeOK, Client
  <1>4. streams' = [streams EXCEPT ![s] = c] /\ Updates(p, client) /\ faults' = faults
    BY <1>1, Zenon DEF Connect
  <1> HIDE DEF c, client
  <1>5. /\ streams' \in [Stream -> Connection] /\ streams'[s] = c
        /\ \A t \in Stream : t # s => streams'[t] = streams[t]
    BY <1>2, <1>4 DEF Inv, TypeOK
  <1>6. /\ clients' \in [Principal -> Client] /\ clients'[p] = client
        /\ \A q \in Principal : q # p => clients'[q] = clients[q]
        /\ UNCHANGED <<version, access, writers, revokers, doubted, changes, ends>>
    BY <1>3, <1>4 DEF Inv, TypeOK, Updates
  <1>7. /\ ~clients[p].out /\ clients[p].conn = None /\ s # None
        /\ \A q \in Principal : clients[q].conn # s
    BY <1>1, StreamsAssumption DEF Connect, Free
  <1>8. TypeOK'
    BY <1>4, <1>5, <1>6 DEF Inv, TypeOK
  <1>9. Linked'
    <2>1. \A t \in Stream : streams'[t].pc # "off" => streams'[t].owner \in Principal
      BY <1>2, <1>5 DEF Inv, Linked
    <2>2. ASSUME NEW q \in Principal, clients'[q].conn # None
          PROVE  /\ ~clients'[q].out
                 /\ streams'[clients'[q].conn].pc # "off" => streams'[clients'[q].conn].owner = q
                 /\ \A r \in Principal : clients'[r].conn = clients'[q].conn => r = q
      <3>1. CASE q = p
        BY <1>2, <1>3, <1>5, <1>6, <1>7, <3>1
      <3>2. CASE q # p
        <4>1. clients'[q] = clients[q] /\ clients[q].conn \in Stream /\ clients[q].conn # s
          BY <1>6, <1>7, <2>2, <3>2 DEF Inv, TypeOK, Client
        <4>2. streams'[clients[q].conn] = streams[clients[q].conn]
          BY <1>5, <4>1
        <4>3. /\ ~clients[q].out
              /\ streams[clients[q].conn].pc # "off" => streams[clients[q].conn].owner = q
              /\ \A r \in Principal : clients[r].conn = clients[q].conn => r = q
          BY <2>2, <4>1, Zenon DEF Inv, Linked
        <4> QED  BY <1>3, <1>6, <4>1, <4>2, <4>3
      <3> QED  BY <3>1, <3>2
    <2> QED  BY <2>1, <2>2 DEF Linked
  <1>10. Founded'
    <2>1. ASSUME NEW q \in Principal
          PROVE  /\ clients'[q].read = "refused" => access[q] # "active"
                 /\ clients'[q].conn # None /\ Waits(streams'[clients'[q].conn].wire, Endings)
                        => Denied(q)
      <3>1. clients'[q].read = clients[q].read
        BY <1>3, <1>6
      <3>2. CASE q = p
        BY <1>2, <1>3, <1>5, <1>6, <3>1, <3>2, WaitsNone DEF Inv, Founded
      <3>3. CASE q # p
        BY <1>5, <1>6, <1>7, <3>3 DEF Inv, Founded, TypeOK, Client
      <3> QED  BY <3>2, <3>3
    <2>2. \A t \in Stream : streams'[t].pc # "off" =>
                /\ streams'[t].channel = "revoked" => access[streams'[t].owner] # "active"
                /\ Closing(streams'[t]) => \/ access[streams'[t].owner] # "active"
                                           \/ streams'[t].owner \in doubted
      BY <1>2, <1>5 DEF Inv, Founded, Closing, Denied
    <2> QED  BY <1>6, <2>1, <2>2 DEF Inv, Founded, Denied
  <1>11. NoZombie'
    BY <1>2, <1>5, <1>6 DEF Inv, NoZombie, Subscribed
  <1>12. Fresh'
    <2>1. WillHear(c)
      BY <1>2 DEF WillHear
    <2>2. ASSUME NEW q \in Principal
          PROVE  Informed(q)'
      <3>1. Informed(q)
        BY DEF Inv, Fresh
      <3>2. CASE q = p
        BY <1>3, <1>5, <1>6, <2>1, <3>2 DEF Informed, WillRead
      <3>3. CASE q # p
        <4>1. clients'[q] = clients[q]
          BY <1>6, <3>3
        <4>2. clients[q].conn # None => streams'[clients[q].conn] = streams[clients[q].conn]
          BY <1>5, <1>7 DEF Inv, TypeOK, Client
        <4> QED  BY <1>6, <3>1, <4>1, <4>2 DEF Informed, WillRead
      <3> QED  BY <3>2, <3>3
    <2>3. \A t \in Stream : streams'[t].channel # "heartbeat"
      BY <1>2, <1>5 DEF Inv, Fresh
    <2> QED  BY <2>2, <2>3 DEF Fresh
  <1>13. Ordered'
    BY <1>3, <1>6 DEF Inv, Ordered
  <1>14. OnlyDeniedLeave' /\ Silent'
    BY <1>3, <1>6 DEF Inv, OnlyDeniedLeave, Denied, Silent
  <1> QED  BY <1>8, <1>9, <1>10, <1>11, <1>12, <1>13, <1>14 DEF Inv

-----------------------------------------------------------------------------
(* Requests, the hub, and the process.                                     *)

LEMMA CommitStep ==
    ASSUME Inv, NEW w \in Writer, NEW S \in SUBSET Principal, Commit(w, S)
    PROVE  Inv'
  <1>1. /\ version' = [p \in Principal |-> IF p \in S THEN version[p] + 1 ELSE version[p]]
        /\ writers' = [writers EXCEPT ![w] = S] /\ writers[w] = {}
        /\ UNCHANGED <<access, revokers, streams, clients, doubted, ends, faults>>
        /\ changes' = changes + 1
    BY DEF Commit
  <1>2. TypeOK'
    BY <1>1 DEF Inv, TypeOK
  <1>3. Linked' /\ Founded' /\ NoZombie' /\ OnlyDeniedLeave' /\ Silent'
    BY <1>1 DEF Inv, Linked, Founded, NoZombie, OnlyDeniedLeave, Denied, Silent, Subscribed
  <1>4. Fresh'
    <2>1. ASSUME NEW p \in Principal
          PROVE  Informed(p)'
      <3>1. CASE p \in S
        <4>1. p \in writers'[w]
          BY <1>1, <3>1 DEF Inv, TypeOK
        <4> QED  BY <4>1 DEF Informed, WillRead
      <3>2. CASE p \notin S
        <4>1. version'[p] = version[p] /\ Informed(p)
          BY <1>1, <3>2 DEF Inv, Fresh
        <4>2. \A v \in Writer : p \in writers[v] => p \in writers'[v]
          BY <1>1 DEF Inv, TypeOK
        <4> QED  BY <1>1, <4>1, <4>2 DEF Informed, WillRead
      <3> QED  BY <3>1, <3>2
    <2> QED  BY <1>1, <2>1 DEF Inv, Fresh
  <1>5. Ordered'
    <2>1. ASSUME NEW p \in Principal
          PROVE  /\ version[p] <= version'[p] /\ {version[p], version'[p]} \subseteq Nat
                 /\ {clients[p].shown, clients[p].answer} \subseteq Nat
      BY <1>1 DEF Inv, TypeOK, Client
    <2> QED  BY <1>1, <2>1 DEF Inv, Ordered
  <1> QED  BY <1>2, <1>3, <1>4, <1>5 DEF Inv

\* What the hub does to a stream: it may put an event into its channel.
LEMMA Delivered ==
    ASSUME Inv, NEW s \in Stream, NEW e \in {"sync", "revoked"}
    PROVE  LET c == [streams[s] EXCEPT !.channel = e]
           IN  /\ c \in Connection /\ c.channel = e /\ c.pc = streams[s].pc
               /\ c.owner = streams[s].owner /\ c.event = streams[s].event
               /\ c.wire = streams[s].wire
  BY DEF Inv, TypeOK, Connection, Event

LEMMA AnnounceStep == ASSUME Inv, NEW w \in Writer, Announce(w) PROVE Inv' /\ OnlyTells
  <1>1. PICK S \in {writers[w], Principal} : streams' = Offered(S)
    BY DEF Announce
  <1>2. /\ writers' = [writers EXCEPT ![w] = {}] /\ writers[w] \subseteq S
        /\ UNCHANGED <<version, access, revokers, clients, doubted, changes, ends, faults>>
    BY <1>1 DEF Announce, counters, Inv, TypeOK
  <1>3. ASSUME NEW s \in Stream
        PROVE  /\ streams'[s] \in Connection /\ streams'[s].pc = streams[s].pc
               /\ streams'[s].owner = streams[s].owner /\ streams'[s].wire = streams[s].wire
               /\ streams'[s].event = streams[s].event
               /\ \/ streams'[s].channel = streams[s].channel
                  \/ streams[s].channel = "empty" /\ streams'[s].channel = "sync"
               /\ (Subscribed(s) /\ streams[s].owner \in S) => streams'[s].channel # "empty"
    BY <1>1, Delivered DEF Offered, Inv, TypeOK
  <1>4. TypeOK'
    <2>1. streams' \in [Stream -> Connection]
      BY <1>1, <1>3 DEF Offered
    <2> QED  BY <1>2, <2>1 DEF Inv, TypeOK
  <1>5. \A p \in Principal : clients[p].conn = None \/ clients[p].conn \in Stream
    BY DEF Inv, TypeOK, Client
  <1>6. Linked'
    BY <1>2, <1>3, <1>5 DEF Inv, Linked
  <1>7. Founded'
    <2>1. \A s \in Stream : Closing(streams'[s]) => Closing(streams[s])
      BY <1>3 DEF Closing
    <2>2. \A s \in Stream : streams'[s].channel = "revoked" => streams[s].channel = "revoked"
      BY <1>3
    <2> QED  BY <1>2, <1>3, <1>5, <2>1, <2>2 DEF Inv, Founded, Denied
  <1>8. NoZombie'
    <2>1. \A s \in Stream : Closing(streams[s]) => Closing(streams'[s])
      BY <1>3 DEF Closing
    <2> QED  BY <1>2, <1>3, <2>1 DEF Inv, NoZombie, Subscribed
  <1>9. \A p \in Principal : WillRead(p) => WillRead(p)'
    <2>1. ASSUME NEW p \in Principal, WillRead(p)
          PROVE  WillRead(p)'
      <3> DEFINE s == clients[p].conn
      <3>1. CASE s # None /\ ~WillHear(streams'[s])
        <4>1. /\ s \in Stream /\ ~WillHear(streams[s]) /\ Subscribed(s)
              /\ streams'[s].channel = "empty"
          BY <1>3, <1>5, <3>1 DEF WillHear, Subscribed, Inv, TypeOK, Connection
        <4>2. streams[s].owner = p
          BY <3>1, <4>1 DEF Inv, Linked, Subscribed
        <4>3. p \notin writers[w]
          BY <1>2, <1>3, <4>1, <4>2
        <4>4. \A v \in Writer : p \in writers[v] => p \in writers'[v]
          BY <1>2, <4>3 DEF Inv, TypeOK
        <4> QED  BY <1>2, <2>1, <3>1, <4>1, <4>4 DEF WillRead
      <3>2. CASE s = None \/ WillHear(streams'[s])
        BY <1>2, <3>2 DEF WillRead
      <3> QED  BY <3>1, <3>2
    <2> QED  BY <2>1
  <1>10. Fresh'
    <2>1. \A s \in Stream : streams'[s].channel # "heartbeat"
      BY <1>3 DEF Inv, Fresh
    <2> QED  BY <1>2, <1>9, <2>1 DEF Inv, Fresh, Informed
  <1>11. Ordered' /\ Silent' /\ OnlyDeniedLeave'
    BY <1>2 DEF Inv, Ordered, Silent, OnlyDeniedLeave, Denied
  <1> QED  BY <1>2, <1>4, <1>6, <1>7, <1>8, <1>9, <1>10, <1>11 DEF Inv, OnlyTells

\* Access ends for some, who are announced if they are revoked.
LEMMA EndStep ==
    ASSUME Inv, access' \in [Principal -> {"active", "revoked", "expired"}],
           revokers \subseteq revokers', revokers' \subseteq Principal,
           \A p \in revokers' \ revokers : access'[p] = "revoked",
           \A p \in Principal : \/ access'[p] = access[p]
                                \/ access[p] = "active" /\ access'[p] # "active"
                                   /\ (access'[p] = "revoked" => p \in revokers'),
           UNCHANGED <<version, writers, streams, clients, doubted, changes, faults>>, ends' \in Nat
    PROVE  Inv'
  <1>1. TypeOK'
    BY DEF Inv, TypeOK
  <1>2. Linked' /\ Ordered' /\ Silent'
    BY DEF Inv, Linked, Ordered, Silent
  <1>3. \A s \in Stream : streams[s].pc # "off" => streams[s].owner \in Principal
    BY DEF Inv, Linked
  <1>4. Founded'
    <2>1. \A p \in revokers : access[p] = "revoked" /\ p \in Principal
      BY DEF Inv, Founded, TypeOK
    <2>2. \A p \in revokers' : access'[p] = "revoked"
      BY <2>1
    <2> QED  BY <1>3, <2>2 DEF Inv, Founded, Denied
  <1>5. NoZombie'
    BY <1>3 DEF Inv, NoZombie, Subscribed
  <1>6. Fresh'
    BY DEF Inv, Fresh, Informed, WillRead
  <1>7. OnlyDeniedLeave'
    BY DEF Inv, OnlyDeniedLeave, Denied
  <1> QED  BY <1>1, <1>2, <1>4, <1>5, <1>6, <1>7 DEF Inv

LEMMA RevokeAccessStep ==
    ASSUME Inv, NEW S \in SUBSET Principal, RevokeAccess(S)
    PROVE  Inv'
  BY EndStep DEF RevokeAccess, Inv, TypeOK

LEMMA ExpireStep == ASSUME Inv, NEW p \in Principal, Expire(p) PROVE Inv'
  BY EndStep DEF Expire, Inv, TypeOK

LEMMA AnnounceRevokedStep == ASSUME Inv, NEW p \in Principal, AnnounceRevoked(p) PROVE Inv' /\ OnlyTells
  <1>1. /\ streams' = Revoked(p) /\ p \in revokers /\ revokers' = revokers \ {p}
        /\ UNCHANGED <<version, access, writers, clients, doubted, changes, ends, faults>>
    BY DEF AnnounceRevoked, counters
  <1>2. ASSUME NEW s \in Stream
        PROVE  /\ streams'[s] \in Connection /\ streams'[s].pc = streams[s].pc
               /\ streams'[s].owner = streams[s].owner /\ streams'[s].wire = streams[s].wire
               /\ streams'[s].event = streams[s].event
               /\ streams'[s].channel = IF Subscribed(s) /\ streams[s].owner = p THEN "revoked"
                                        ELSE streams[s].channel
    BY <1>1, Delivered DEF Revoked, Inv, TypeOK
  <1>3. TypeOK'
    <2>1. streams' \in [Stream -> Connection]
      BY <1>1, <1>2 DEF Revoked
    <2> QED  BY <1>1, <2>1 DEF Inv, TypeOK
  <1>4. \A q \in Principal : clients[q].conn = None \/ clients[q].conn \in Stream
    BY DEF Inv, TypeOK, Client
  <1>5. Linked'
    BY <1>1, <1>2, <1>4 DEF Inv, Linked
  <1>6. Founded'
    <2>1. access[p] = "revoked"
      BY <1>1 DEF Inv, Founded
    <2>2. \A s \in Stream : streams'[s].pc # "off" =>
                /\ streams'[s].channel = "revoked" => access[streams'[s].owner] # "active"
                /\ Closing(streams'[s]) => \/ access[streams'[s].owner] # "active"
                                           \/ streams'[s].owner \in doubted
      BY <1>2, <2>1 DEF Inv, Founded, Closing, Denied
    <2> QED  BY <1>1, <1>2, <1>4, <2>2 DEF Inv, Founded, Denied
  <1>7. NoZombie'
    <2>1. \A s \in Stream : Closing(streams[s]) => Closing(streams'[s])
      BY <1>2 DEF Closing
    <2>2. \A s \in Stream : Subscribed(s) /\ streams[s].owner = p => Closing(streams'[s])
      BY <1>2 DEF Closing
    <2> QED  BY <1>1, <1>2, <2>1, <2>2 DEF Inv, NoZombie, Subscribed
  <1>8. \A q \in Principal : WillRead(q) => WillRead(q)'
    <2>1. \A s \in Stream : WillHear(streams[s]) => WillHear(streams'[s])
      BY <1>2 DEF WillHear
    <2> QED  BY <1>1, <1>4, <2>1 DEF WillRead
  <1>9. Fresh'
    <2>1. \A s \in Stream : streams'[s].channel # "heartbeat"
      BY <1>2 DEF Inv, Fresh
    <2> QED  BY <1>1, <1>8, <2>1 DEF Inv, Fresh, Informed
  <1>10. Ordered' /\ Silent' /\ OnlyDeniedLeave'
    BY <1>1 DEF Inv, Ordered, Silent, OnlyDeniedLeave, Denied
  <1> QED  BY <1>1, <1>3, <1>5, <1>6, <1>7, <1>8, <1>9, <1>10 DEF Inv, OnlyTells

LEMMA RestartStep == ASSUME Inv, Restart PROVE Inv'
  <1>1. ASSUME NEW s \in Stream
        PROVE  /\ streams'[s] \in Connection /\ streams'[s].pc = "off"
               /\ streams'[s].wire = <<>> /\ streams'[s].channel = "empty"
               /\ WillHear(streams'[s])
    BY OffType, Empty DEF Restart
  <1>2. ASSUME NEW p \in Principal
        PROVE  /\ clients'[p] \in Client /\ clients'[p].conn = clients[p].conn
               /\ clients'[p].out = clients[p].out /\ clients'[p].shown = clients[p].shown
               /\ \/ clients'[p] = clients[p]
                  \/ clients'[p].read = "none" /\ clients'[p].error
    BY FailedReadType DEF Restart, Inv, TypeOK
  <1>3. /\ UNCHANGED <<version, access, doubted, changes, ends>> /\ revokers' = {} /\ faults' \in Nat
        /\ writers' \in [Writer -> SUBSET Principal]
        /\ streams' \in [Stream -> Connection] /\ clients' \in [Principal -> Client]
    BY <1>1, <1>2 DEF Restart, Inv, TypeOK
  <1>4. TypeOK'
    BY <1>3 DEF Inv, TypeOK
  <1>5. \A p \in Principal : clients[p].conn = None \/ clients[p].conn \in Stream
    BY DEF Inv, TypeOK, Client
  <1>6. Linked'
    BY <1>1, <1>2, <1>5 DEF Inv, Linked
  <1>7. Founded'
    BY <1>1, <1>2, <1>3, <1>5, WaitsNone DEF Inv, Founded, Denied
  <1>8. NoZombie'
    BY <1>1 DEF NoZombie, Subscribed
  <1>9. Fresh'
    BY <1>1, <1>2, <1>3, <1>5 DEF Inv, Fresh, Informed, WillRead
  <1>10. Ordered' /\ OnlyDeniedLeave' /\ Silent'
    BY <1>2, <1>3 DEF Inv, Ordered, OnlyDeniedLeave, Denied, Silent
  <1> QED  BY <1>4, <1>6, <1>7, <1>8, <1>9, <1>10 DEF Inv

-----------------------------------------------------------------------------
(* The theorems.                                                           *)

LEMMA InitInv == Init => Inv
  <1> SUFFICES ASSUME Init PROVE Inv
    OBVIOUS
  <1>1. NewClient \in Client /\ NewClient.conn = None /\ ~NewClient.out
        /\ NewClient.read = "none" /\ NewClient.shown = 0
    BY DEF NewClient, Client
  <1>2. Off(<<>>) \in Connection /\ Off(<<>>).pc = "off" /\ Off(<<>>).channel = "empty"
    BY OffType, Empty
  <1>3. TypeOK
    BY <1>1, <1>2 DEF Init, TypeOK
  <1>4. Linked /\ Founded /\ NoZombie
    BY <1>1, <1>2 DEF Init, Linked, Founded, NoZombie, Subscribed
  <1>5. Fresh /\ Ordered /\ OnlyDeniedLeave /\ Silent
    BY <1>1, <1>2 DEF Init, Fresh, Informed, Ordered, OnlyDeniedLeave, Silent
  <1> QED  BY <1>3, <1>4, <1>5 DEF Inv

LEMMA NextInv == Inv /\ [Next]_vars => Inv'
  <1> SUFFICES ASSUME Inv, [Next]_vars PROVE Inv'
    OBVIOUS
  <1>1. ASSUME NEW w \in Writer, Announce(w) \/ \E S \in SUBSET Principal : Commit(w, S)
        PROVE  Inv'
    BY <1>1, AnnounceStep, CommitStep
  <1>2. ASSUME NEW S \in SUBSET Principal, RevokeAccess(S)
        PROVE  Inv'
    BY <1>2, RevokeAccessStep
  <1>3. ASSUME NEW p \in Principal, \/ AnnounceRevoked(p) \/ Expire(p) \/ Follow(p) \/ Lose(p)
                                    \/ ServeRead(p) \/ ReadFails(p)
        PROVE  Inv'
    BY <1>3, AnnounceRevokedStep, ExpireStep, ConnectStep, ReceiveStep, ShowStep, LoseStep,
       ServeReadStep, ReadFailsStep DEF Follow
  <1>4. ASSUME NEW s \in Stream,
               Serve(s) \/ Take(s) \/ Heartbeat(s) \/ Expiration(s) \/ GiveUp(s)
        PROVE  Inv'
    BY <1>4, AuthenticateStep, SubscribeStep, RecheckStep, CheckStep, WriteStep, HangUpStep,
       TakeStep, HeartbeatStep, ExpirationStep, GiveUpStep DEF Serve
  <1>5. CASE Restart
    BY <1>5, RestartStep
  <1>6. CASE UNCHANGED vars
    <2>1. UNCHANGED <<version, access, writers, revokers, streams, clients, doubted, changes, ends,
                      faults>>
      BY <1>6 DEF vars, counters
    <2>2. TypeOK' /\ Linked' /\ Founded' /\ OnlyDeniedLeave'
      BY <2>1 DEF Inv, TypeOK, Linked, Founded, OnlyDeniedLeave, Denied
    <2>3. NoZombie' /\ Fresh' /\ Ordered' /\ Silent'
      BY <2>1 DEF Inv, NoZombie, Subscribed, Fresh, Informed, WillRead, Ordered, Silent
    <2> QED  BY <2>2, <2>3 DEF Inv
  <1> QED  BY <1>1, <1>2, <1>3, <1>4, <1>5, <1>6 DEF Next

\* Streams, hub and clients keep the inductive invariant, of which all that follows is
\* a part: the handler of internal/httpapi/connect.go, the hub and the pages.
THEOREM Invariance == Spec => []Inv
  <1> QED  BY InitInv, NextInv, PTL DEF Spec

\* Every variable keeps its type.
THEOREM TypeCorrect == Spec => []TypeOK
  <1>1. Inv => TypeOK
    BY DEF Inv
  <1> QED  BY <1>1, Invariance, PTL

\* Once the hub has been told of a revocation, no stream of the principal goes on
\* without ending it: the order of Subscribe, the second check and Revoke in the handler.
THEOREM NoStreamSurvives == Spec => []NoZombie
  <1>1. Inv => NoZombie
    BY DEF Inv
  <1> QED  BY <1>1, Invariance, PTL

\* A page in the session that shows old messages is about to read again, or says that
\* its last read failed: a "sync" that the hub drops is one that nobody misses.
THEOREM NoUpdateMissed == Spec => []NoMissedUpdate
  <1>1. Inv => NoMissedUpdate
    BY DEF Inv, Fresh, Informed, NoMissedUpdate
  <1> QED  BY <1>1, Invariance, PTL

\* A page drops its credential only when the server has ended it, or failed to read it
\* while one of the page's streams was served: stream and its send take every error of
\* that query for the end of the session.
THEOREM OnlyDeniedPagesLeave == Spec => []OnlyDeniedLeave
  <1>1. Inv => OnlyDeniedLeave
    BY DEF Inv
  <1> QED  BY <1>1, Invariance, PTL

-----------------------------------------------------------------------------
(* The refinement: hub, streams and pages implement Mailbox.               *)

\* Init maps to Mailbox's: nobody is connected, so that everybody will read.
LEMMA InitPromises == Init => Promise!Init
  <1> SUFFICES ASSUME Init PROVE Promise!Init
    OBVIOUS
  <1>1. \A p \in Principal : /\ clients[p].shown = 0 /\ clients[p].conn = None
                             /\ clients[p].error = FALSE /\ clients[p].out = FALSE
    BY DEF Init, NewClient
  <1>2. \A p \in Principal : WillRead(p)
    BY <1>1 DEF WillRead
  <1> QED  BY <1>1, <1>2 DEF Init, Promise!Init

\* What only tells pages is a step of Mailbox that does, or a doubt.
LEMMA Tells ==
    ASSUME Inv, OnlyTells
    PROVE  Promise!Tell \/ \E p \in Principal : Promise!Doubt(p)
  <1>1. \A p \in Principal : WillRead(p) \in BOOLEAN /\ WillRead(p)' \in BOOLEAN
    BY DEF WillRead
  <1>2. clients' = clients /\ version' = version /\ access' = access
    BY DEF OnlyTells
  <1>3. \A p \in Principal : WillRead(p) => WillRead(p)'
    BY DEF OnlyTells
  <1>4. \A p \in Principal : clients[p].out \in BOOLEAN
    BY DEF Inv, TypeOK, Client
  <1>5. Promise!Telling({})
    BY <1>1, <1>2, <1>3, <1>4 DEF Promise!Telling
  <1>6. CASE UNCHANGED doubted
    BY <1>2, <1>5, <1>6 DEF Promise!Tell
  <1>7. ASSUME NEW p \in Principal, doubted' = doubted \cup {p}
        PROVE  Promise!Doubt(p)
    BY <1>2, <1>5, <1>7 DEF Promise!Doubt
  <1> QED  BY <1>6, <1>7 DEF OnlyTells

\* A page that has a read under way is in its session and will look.
LEMMA Reading ==
    ASSUME Inv, NEW p \in Principal, clients[p].read # "none"
    PROVE  ~clients[p].out /\ WillRead(p)
  <1>1. ~clients[p].out /\ clients[p] \in Client /\ version[p] \in Nat
    BY DEF Inv, Silent, TypeOK
  <1>2. CASE clients[p].read \in {"asked", "refused"}
    BY <1>1, <1>2 DEF WillRead
  <1>3. CASE clients[p].read = "answered"
    <2>1. clients[p].shown <= clients[p].answer /\ clients[p].answer <= version[p]
      BY <1>3 DEF Inv, Ordered
    <2>2. {clients[p].shown, clients[p].answer} \subseteq Nat
      BY <1>1 DEF Client
    <2>3. clients[p].shown = version[p] => clients[p].answer = version[p]
      BY <1>1, <2>1, <2>2
    <2>4. Informed(p)
      BY DEF Inv, Fresh
    <2> QED  BY <1>1, <1>3, <2>3, <2>4 DEF Informed, WillRead
  <1> QED  BY <1>1, <1>2, <1>3 DEF Client

\* A step of one client changes nothing for another whose connection stays as it is.
LEMMA OthersKeep ==
    ASSUME Inv, NEW p \in Principal, NEW q \in Principal,
           clients'[q] = clients[q], UNCHANGED <<version, writers>>,
           clients[q].conn # None => streams'[clients[q].conn] = streams[clients[q].conn]
    PROVE  WillRead(q)' <=> WillRead(q)
  BY DEF WillRead

\* A commit is a change of the stock; the writer that is about to tell the hub counts as
\* telling.
LEMMA CommitChanges ==
    ASSUME Inv, NEW w \in Writer, NEW S \in SUBSET Principal, Commit(w, S)
    PROVE  Promise!Change(S)
  <1>1. /\ version' = [p \in Principal |-> IF p \in S THEN version[p] + 1 ELSE version[p]]
        /\ writers' = [writers EXCEPT ![w] = S] /\ writers[w] = {}
        /\ UNCHANGED <<access, streams, clients, doubted>>
    BY DEF Commit
  <1>2. ASSUME NEW p \in Principal
        PROVE  /\ p \in S => WillRead(p)'
               /\ p \notin S => (WillRead(p) => WillRead(p)')
    <2>1. CASE p \in S
      BY <1>1, <2>1 DEF WillRead, Inv, TypeOK
    <2>2. CASE p \notin S
      <3>1. \A v \in Writer : p \in writers[v] => p \in writers'[v]
        BY <1>1 DEF Inv, TypeOK
      <3> QED  BY <1>1, <2>2, <3>1 DEF WillRead
    <2> QED  BY <2>1, <2>2
  <1>3. \A p \in Principal : WillRead(p) \in BOOLEAN /\ WillRead(p)' \in BOOLEAN
    BY DEF WillRead
  <1>4. \A p \in Principal : clients[p].out \in BOOLEAN
    BY DEF Inv, TypeOK, Client
  <1> QED  BY <1>1, <1>2, <1>3, <1>4 DEF Promise!Change, Promise!Telling

\* Revocation and expiry end access.
LEMMA AccessEnds ==
    ASSUME Inv, NEW S \in SUBSET Principal,
           RevokeAccess(S) \/ \E p \in Principal : S = {p} /\ Expire(p)
    PROVE  Promise!End(S)
  <1>1. /\ \A p \in S : access[p] = "active"
        /\ \A p \in Principal : access'[p] = "active" <=> access[p] = "active" /\ p \notin S
        /\ UNCHANGED <<version, clients, streams, writers, doubted>>
    BY DEF RevokeAccess, Expire, Inv, TypeOK
  <1>2. \A p \in Principal : WillRead(p)' <=> WillRead(p)
    BY <1>1 DEF WillRead
  <1>3. \A p \in Principal : WillRead(p) \in BOOLEAN /\ WillRead(p)' \in BOOLEAN
    BY DEF WillRead
  <1> QED  BY <1>1, <1>2, <1>3 DEF Promise!End

\* A step of one client that shows what it showed, and does not forget to read.
LEMMA ClientTells ==
    ASSUME Inv, NEW p \in Principal, NEW client, Updates(p, client),
           client.out = clients[p].out, client.shown = clients[p].shown,
           client.error = clients[p].error, WillRead(p) => WillRead(p)',
           \A s \in Stream : s # clients[p].conn => streams'[s] = streams[s]
                                                  \/ \A q \in Principal : clients[q].conn # s
    PROVE  Promise!Tell
  <1>1. /\ clients'[p] = client /\ \A q \in Principal : q # p => clients'[q] = clients[q]
        /\ UNCHANGED <<version, access, writers, doubted>>
    BY DEF Updates, Inv, TypeOK
  <1>2. ASSUME NEW q \in Principal, WillRead(q)
        PROVE  WillRead(q)'
    <2>1. CASE q # p
      <3>1. clients[q].conn # None => clients[q].conn \in Stream /\ clients[q].conn # clients[p].conn
        BY <2>1 DEF Inv, TypeOK, Client, Linked
      <3> QED  BY <1>1, <1>2, <2>1, <3>1, OthersKeep
    <2> QED  BY <1>2, <2>1
  <1>3. \A q \in Principal : WillRead(q) \in BOOLEAN /\ WillRead(q)' \in BOOLEAN
    BY DEF WillRead
  <1>4. \A q \in Principal : /\ clients[q].out \in BOOLEAN /\ clients'[q].out = clients[q].out
                             /\ clients'[q].shown = clients[q].shown
                             /\ clients'[q].error = clients[q].error
    BY <1>1 DEF Inv, TypeOK, Client
  <1> QED  BY <1>1, <1>2, <1>3, <1>4 DEF Promise!Tell, Promise!Telling

\* A new connection comes with a sync.
LEMMA ConnectTells == ASSUME Inv, NEW p \in Principal, Connect(p) PROVE Promise!Tell
  <1>1. PICK s \in Stream :
            /\ Free(s)
            /\ streams' = [streams EXCEPT ![s] = [Off(<<>>) EXCEPT !.pc = "auth", !.owner = p]]
            /\ Updates(p, [clients[p] EXCEPT !.conn = s])
    BY DEF Connect
  <1> DEFINE client == [clients[p] EXCEPT !.conn = s]
  <1>2. /\ client.out = clients[p].out /\ client.shown = clients[p].shown
        /\ client.error = clients[p].error /\ client.conn = s
    BY DEF Inv, TypeOK, Client
  <1>3. /\ streams'[s].pc = "auth"
        /\ \A t \in Stream : t # s => streams'[t] = streams[t]
        /\ \A q \in Principal : clients[q].conn # s
    BY <1>1 DEF Inv, TypeOK, Off, Connection, Free
  <1>4. Updates(p, client)
    BY <1>1
  <1> HIDE DEF client
  <1>5. clients'[p] = client
    BY <1>4 DEF Updates, Inv, TypeOK
  <1>6. WillRead(p)'
    BY <1>2, <1>3, <1>5 DEF WillRead, WillHear
  <1> QED  BY <1>2, <1>3, <1>4, <1>6, ClientTells

\* The page loses its connection: it will connect again, and read.
LEMMA LoseTells == ASSUME Inv, NEW p \in Principal, Lose(p) PROVE Promise!Tell
  <1> DEFINE client == [clients[p] EXCEPT !.conn = None]
             s == clients[p].conn
  <1>1. Updates(p, client) /\ streams' = [streams EXCEPT ![s].wire = <<>>]
    BY DEF Lose
  <1>2. /\ client.out = clients[p].out /\ client.shown = clients[p].shown
        /\ client.error = clients[p].error /\ client.conn = None
    BY DEF Inv, TypeOK, Client
  <1>3. \A t \in Stream : t # clients[p].conn => streams'[t] = streams[t]
    BY <1>1 DEF Inv, TypeOK
  <1> HIDE DEF client
  <1>4. clients'[p] = client
    BY <1>1 DEF Updates, Inv, TypeOK
  <1>5. WillRead(p)'
    BY <1>2, <1>4 DEF WillRead
  <1> QED  BY <1>1, <1>2, <1>3, <1>5, ClientTells

\* The server answers: a new answer is as good as a read to come.
LEMMA ServeReadTells == ASSUME Inv, NEW p \in Principal, ServeRead(p) PROVE Promise!Tell
  <1>1. PICK client : /\ Updates(p, client) /\ client.out = clients[p].out
                      /\ client.shown = clients[p].shown /\ client.error = clients[p].error
                      /\ \/ client.read = "refused"
                         \/ client.read = "answered" /\ client.answer = version[p]
    <2>1. clients[p] \in Client
      BY DEF Inv, TypeOK
    <2>2. CASE access[p] = "active"
      <3> DEFINE c == [clients[p] EXCEPT !.read = "answered", !.answer = version[p]]
      <3>1. Updates(p, c)
        BY <2>2, Zenon DEF ServeRead
      <3>2. /\ c.out = clients[p].out /\ c.shown = clients[p].shown
            /\ c.error = clients[p].error /\ c.read = "answered" /\ c.answer = version[p]
        BY <2>1 DEF Client
      <3> QED  BY <3>1, <3>2
    <2>3. CASE access[p] # "active"
      <3> DEFINE c == [clients[p] EXCEPT !.read = "refused"]
      <3>1. Updates(p, c)
        BY <2>3 DEF ServeRead
      <3>2. /\ c.out = clients[p].out /\ c.shown = clients[p].shown
            /\ c.error = clients[p].error /\ c.read = "refused"
        BY <2>1 DEF Client
      <3> QED  BY <3>1, <3>2
    <2> QED  BY <2>2, <2>3
  <1>2. clients'[p] = client /\ streams' = streams /\ version' = version
    BY <1>1 DEF ServeRead, Updates, Inv, TypeOK
  <1>3. WillRead(p)'
    BY <1>1, <1>2 DEF WillRead
  <1> QED  BY <1>1, <1>2, <1>3, ClientTells

\* A page forgets everything when it is told that its access has ended.
LEMMA Leaves ==
    ASSUME Inv, NEW p \in Principal, ~clients[p].out, Denied(p),
           Updates(p, Disconnected),
           \A s \in Stream : s # clients[p].conn => streams'[s] = streams[s]
    PROVE  Promise!Leave(p)
  <1>1. /\ clients'[p] = Disconnected /\ \A q \in Principal : q # p => clients'[q] = clients[q]
        /\ UNCHANGED <<version, access, writers, doubted>>
    BY DEF Updates, Inv, TypeOK
  <1>2. /\ Disconnected.out = TRUE /\ Disconnected.shown = 0 /\ Disconnected.error = FALSE
    BY DEF Disconnected, NewClient
  <1>3. ASSUME NEW q \in Principal, q # p
        PROVE  WillRead(q)' <=> WillRead(q)
    <2>1. clients[q].conn # None => clients[q].conn \in Stream /\ clients[q].conn # clients[p].conn
      BY <1>3 DEF Inv, TypeOK, Client, Linked
    <2> QED  BY <1>1, <1>3, <2>1, OthersKeep
  <1>4. \A q \in Principal : WillRead(q) \in BOOLEAN /\ WillRead(q)' \in BOOLEAN
    BY DEF WillRead
  <1>5. access[p] # "active" \/ p \in doubted
    BY DEF Denied
  <1> QED  BY <1>1, <1>2, <1>3, <1>4, <1>5 DEF Promise!Leave

\* A frame: a sync is a read to come, a heartbeat nothing, and the rest the end.
LEMMA ReceiveTells ==
    ASSUME Inv, NEW p \in Principal, Receive(p)
    PROVE  Promise!Tell \/ Promise!Leave(p)
  <1> DEFINE s == clients[p].conn
             wire == streams[s].wire
             frame == Head(wire)
  <1>1. /\ s \in Stream /\ wire \in Seq(Frame) /\ wire # <<>> /\ s # None
        /\ frame \in Frame /\ clients[p] \in Client /\ streams[s] \in Connection
    BY DEF Receive, Inv, TypeOK, Client, Connection
  <1>2. /\ streams' = [streams EXCEPT ![s] = [streams[s] EXCEPT !.wire = Tail(wire)]]
        /\ \A t \in Stream : t # clients[p].conn => streams'[t] = streams[t]
    BY DEF Receive, Inv, TypeOK
  <1>3. CASE frame = "sync"
    <2> DEFINE client == [clients[p] EXCEPT !.read = "asked", !.answer = 0]
    <2>1. Updates(p, client)
      BY <1>3, Zenon DEF Receive
    <2>2. /\ client.read = "asked" /\ client.error = clients[p].error
          /\ client.shown = clients[p].shown /\ client.out = clients[p].out
      BY <1>1 DEF Client
    <2> HIDE DEF client
    <2>3. clients'[p] = client
      BY <2>1 DEF Updates, Inv, TypeOK
    <2>4. WillRead(p)'
      BY <2>2, <2>3 DEF WillRead
    <2>5. Promise!Tell
      BY <1>2, <2>1, <2>2, <2>4, ClientTells
    <2> QED  BY <2>5
  <1>4. CASE frame = "heartbeat"
    <2>1. Updates(p, clients[p])
      BY <1>4 DEF Receive
    <2>2. clients' = clients /\ version' = version /\ writers' = writers
      BY <2>1 DEF Updates, Inv, TypeOK
    <2>3. /\ streams'[s].pc = streams[s].pc /\ streams'[s].channel = streams[s].channel
          /\ streams'[s].event = streams[s].event /\ streams'[s].wire = Tail(wire)
      BY <1>1, <1>2 DEF Inv, TypeOK, Connection
    <2>4. \A S : Waits(wire, S) <=> frame \in S \/ Waits(Tail(wire), S)
      BY <1>1, WaitsTail
    <2>5. WillHear(streams[s]) => WillHear(streams'[s])
      BY <1>4, <2>3, <2>4 DEF WillHear, Tidings
    <2>6. WillRead(p) => WillRead(p)'
      BY <2>2, <2>5 DEF WillRead
    <2>7. Promise!Tell
      BY <1>2, <2>1, <2>6, ClientTells
    <2> QED  BY <2>7
  <1>5. CASE frame \in Endings
    <2>1. Updates(p, Disconnected)
      BY <1>5 DEF Receive, Endings
    <2>2. Waits(wire, Endings) <=> frame \in Endings \/ Waits(Tail(wire), Endings)
      BY <1>1, WaitsTail
    <2>3. Denied(p) /\ ~clients[p].out
      BY <1>1, <1>5, <2>2 DEF Inv, Founded, Linked
    <2>4. Promise!Leave(p)
      BY <1>2, <2>1, <2>3, Leaves
    <2> QED  BY <2>4
  <1> QED  BY <1>1, <1>3, <1>4, <1>5 DEF Frame, Event, Endings

\* An answer is shown, which is a look, or says that access has ended.
LEMMA ShowLooks ==
    ASSUME Inv, NEW p \in Principal, Show(p)
    PROVE  Promise!Look(p) \/ Promise!Leave(p)
  <1>1. /\ clients[p] \in Client /\ version[p] \in Nat /\ streams' = streams
        /\ clients[p].read \in {"answered", "refused"}
    BY DEF Show, Inv, TypeOK
  <1>2. ~clients[p].out /\ WillRead(p)
    BY <1>1, Reading
  <1>3. CASE clients[p].read = "answered"
    <2> DEFINE client == [clients[p] EXCEPT !.read = "none", !.shown = clients[p].answer,
                                            !.answer = 0, !.error = FALSE]
    <2>1. Updates(p, client)
      BY <1>3, Zenon DEF Show
    <2>2. /\ client.shown = clients[p].answer /\ client.out = clients[p].out
          /\ client.error = FALSE /\ client.conn = clients[p].conn
      BY <1>1 DEF Client
    <2> HIDE DEF client
    <2>3. /\ clients'[p] = client /\ \A q \in Principal : q # p => clients'[q] = clients[q]
          /\ UNCHANGED <<version, access, writers, doubted>>
      BY <2>1 DEF Updates, Inv, TypeOK
    <2>4. /\ clients[p].shown <= clients[p].answer /\ clients[p].answer <= version[p]
          /\ {clients[p].shown, clients[p].answer} \subseteq Nat
      BY <1>1, <1>3 DEF Inv, Ordered, Client
    <2>5. \A q \in Principal : q # p => (WillRead(q)' <=> WillRead(q))
      BY <1>1, <2>3, OthersKeep
    <2>6. clients[p].answer # version[p] => WillRead(p)'
      BY <1>1, <1>2, <1>3, <2>2, <2>3 DEF WillRead
    <2>7. \A q \in Principal : WillRead(q) \in BOOLEAN /\ WillRead(q)' \in BOOLEAN
      BY DEF WillRead
    <2>8. \A q \in Principal : clients'[q].out = clients[q].out /\ clients[q].out \in BOOLEAN
      BY <2>2, <2>3 DEF Inv, TypeOK, Client
    <2>9. clients[p].answer \in clients[p].shown..version[p]
      BY <1>1, <2>4
    <2>10. Promise!Look(p)
      <3> DEFINE Shown == [q \in Principal |-> clients[q].shown]
                 Told == [q \in Principal |-> ~clients[q].out /\ WillRead(q)]
                 settled == IF clients[p].answer = version[p] THEN {p} ELSE {}
      <3>1. Shown' = [Shown EXCEPT ![p] = clients[p].answer]
        BY <2>2, <2>3
      <3>2. [q \in Principal |-> clients[q].error]'
                = [[q \in Principal |-> clients[q].error] EXCEPT ![p] = FALSE]
        BY <2>2, <2>3
      <3>3. /\ Told' \in [Principal -> BOOLEAN]
            /\ \A q \in Principal : Told'[q] # Told[q] =>
                    ~clients[q].out /\ (Told'[q] \/ q \in settled)
        BY <1>2, <2>5, <2>6, <2>7, <2>8
      <3>4. Told[p] /\ Shown[p] = clients[p].shown
        BY <1>2
      <3>5. [q \in Principal |-> clients[q].out]' = [q \in Principal |-> clients[q].out]
        BY <2>8
      <3>6. \E seen \in Shown[p]..version[p] :
                /\ Shown' = [Shown EXCEPT ![p] = seen]
                /\ Promise!Telling(IF seen = version[p] THEN {p} ELSE {})
        <4>1. PICK seen : seen = clients[p].answer
          OBVIOUS
        <4>2. seen \in Shown[p]..version[p]
          BY <2>9, <3>4, <4>1
        <4>3. Shown' = [Shown EXCEPT ![p] = seen]
          BY <3>1, <4>1
        <4>4. Promise!Telling(IF seen = version[p] THEN {p} ELSE {})
          BY <3>3, <4>1 DEF Promise!Telling
        <4> HIDE DEF Shown
        <4> QED  BY <4>2, <4>3, <4>4, Zenon
      <3> QED  BY <1>2, <2>3, <3>2, <3>4, <3>5, <3>6 DEF Promise!Look
    <2> QED  BY <2>10
  <1>4. CASE clients[p].read = "refused"
    <2>1. Updates(p, Disconnected)
      BY <1>4 DEF Show
    <2>2. Denied(p)
      BY <1>4 DEF Inv, Founded, Denied
    <2>3. Promise!Leave(p)
      BY <1>1, <1>2, <2>1, <2>2, Leaves
    <2> QED  BY <2>3
  <1> QED  BY <1>1, <1>3, <1>4

\* A read fails, and the page says so.
LEMMA ReadFailsFails == ASSUME Inv, NEW p \in Principal, ReadFails(p) PROVE Promise!Fail({p})
  <1>1. /\ clients[p] \in Client /\ clients[p].read # "none" /\ streams' = streams
        /\ Updates(p, FailedRead(clients[p]))
    BY DEF ReadFails, Inv, TypeOK
  <1>2. ~clients[p].out /\ WillRead(p)
    BY <1>1, Reading
  <1>3. /\ clients'[p] = FailedRead(clients[p])
        /\ \A q \in Principal : q # p => clients'[q] = clients[q]
        /\ UNCHANGED <<version, access, writers, doubted>>
    BY <1>1 DEF Updates, Inv, TypeOK
  <1>4. FailedRead(clients[p]).error = TRUE
    BY <1>1 DEF FailedRead, Client
  <1>5. \A q \in Principal : /\ clients'[q].out = clients[q].out /\ clients[q].out \in BOOLEAN
                             /\ clients'[q].shown = clients[q].shown
                             /\ clients[q].error \in BOOLEAN
                             /\ clients'[q].error = (clients[q].error \/ q \in {p})
    BY <1>1, <1>3, <1>4, FailedReadType DEF Inv, TypeOK, Client
  <1>6. \A q \in Principal : q # p => (WillRead(q)' <=> WillRead(q))
    BY <1>1, <1>3, OthersKeep
  <1>7. \A q \in Principal : WillRead(q) \in BOOLEAN /\ WillRead(q)' \in BOOLEAN
    BY DEF WillRead
  <1> QED  BY <1>2, <1>3, <1>5, <1>6, <1>7 DEF Promise!Fail, Promise!Telling

\* The process ends: reads under way fail, and every page has to connect again.
LEMMA RestartFails ==
    ASSUME Inv, Restart
    PROVE  \E S \in SUBSET Principal : Promise!Fail(S)
  <1>0. PICK S \in SUBSET Principal : S = {p \in Principal : clients[p].read = "asked"}
    OBVIOUS
  <1>1. \A p \in S : ~clients[p].out /\ WillRead(p)
    BY <1>0, Reading
  <1>2. ASSUME NEW p \in Principal
        PROVE  /\ clients'[p].out = clients[p].out /\ clients[p].out \in BOOLEAN
               /\ clients'[p].shown = clients[p].shown /\ clients'[p].conn = clients[p].conn
               /\ clients[p].error \in BOOLEAN
               /\ clients'[p].error = (clients[p].error \/ p \in S)
    <2>1. clients[p] \in Client
      BY DEF Inv, TypeOK
    <2>2. clients'[p] = IF p \in S THEN FailedRead(clients[p]) ELSE clients[p]
      BY <1>0 DEF Restart
    <2>3. FailedRead(clients[p]).error = TRUE
      BY <2>1 DEF FailedRead, Client
    <2> QED  BY <2>1, <2>2, <2>3, FailedReadType DEF Client
  <1>3. ASSUME NEW p \in Principal
        PROVE  WillRead(p)'
    <2>1. clients'[p].conn = None \/ clients'[p].conn \in Stream
      BY <1>2 DEF Inv, TypeOK, Client
    <2>2. \A s \in Stream : WillHear(streams'[s])
      BY OffType, Empty DEF Restart
    <2> QED  BY <2>1, <2>2 DEF WillRead
  <1>4. \A p \in Principal : WillRead(p) \in BOOLEAN
    BY DEF WillRead
  <1>5. UNCHANGED <<version, access, doubted>>
    BY DEF Restart
  <1>6. /\ \A p \in S : p \in Principal
        /\ [p \in Principal |-> clients[p].error]'
                = [p \in Principal |-> clients[p].error \/ p \in S]
        /\ [p \in Principal |-> clients[p].out]' = [p \in Principal |-> clients[p].out]
        /\ [p \in Principal |-> clients[p].shown]' = [p \in Principal |-> clients[p].shown]
    BY <1>2
  <1>7. Promise!Telling(S)
    BY <1>2, <1>3, <1>4 DEF Promise!Telling
  <1>8. Promise!Fail(S)
    BY <1>1, <1>5, <1>6, <1>7 DEF Promise!Fail
  <1> QED  BY <1>8

LEMMA StepPromises == Inv /\ [Next]_vars => [Promise!Next]_(Promise!mailboxVars)
  <1> SUFFICES ASSUME Inv, [Next]_vars PROVE [Promise!Next]_(Promise!mailboxVars)
    OBVIOUS
  <1>1. ASSUME NEW w \in Writer, Announce(w) \/ \E S \in SUBSET Principal : Commit(w, S)
        PROVE  Promise!Next
    BY <1>1, AnnounceStep, Tells, CommitChanges DEF Promise!Next
  <1>2. ASSUME NEW S \in SUBSET Principal, RevokeAccess(S)
        PROVE  Promise!Next
    BY <1>2, AccessEnds DEF Promise!Next
  <1>3. ASSUME NEW p \in Principal, AnnounceRevoked(p) \/ Connect(p) \/ Lose(p) \/ ServeRead(p)
        PROVE  Promise!Next
    BY <1>3, AnnounceRevokedStep, Tells, ConnectTells, LoseTells, ServeReadTells
       DEF Promise!Next
  <1>4. ASSUME NEW p \in Principal, Expire(p)
        PROVE  Promise!Next
    <2>1. PICK S \in SUBSET Principal : S = {p}
      OBVIOUS
    <2>2. Promise!End(S)
      BY <1>4, <2>1, AccessEnds
    <2> QED  BY <2>2 DEF Promise!Next
  <1>5. ASSUME NEW p \in Principal, Receive(p) \/ Show(p)
        PROVE  Promise!Next
    BY <1>5, ReceiveTells, ShowLooks DEF Promise!Next
  <1>6. ASSUME NEW p \in Principal, ReadFails(p)
        PROVE  Promise!Next
    <2>1. Promise!Fail({p})
      BY <1>6, ReadFailsFails
    <2>2. {p} \in SUBSET Principal
      OBVIOUS
    <2> QED  BY <2>1, <2>2 DEF Promise!Next
  <1>7. ASSUME NEW s \in Stream,
               Serve(s) \/ Take(s) \/ Heartbeat(s) \/ Expiration(s) \/ GiveUp(s)
        PROVE  Promise!Next
    <2>1. OnlyTells
      BY <1>7, AuthenticateStep, SubscribeStep, RecheckStep, CheckStep, WriteStep, HangUpStep,
         TakeStep, HeartbeatStep, ExpirationStep, GiveUpStep DEF Serve
    <2> QED  BY <2>1, Tells DEF Promise!Next
  <1>8. CASE Restart
    BY <1>8, RestartFails DEF Promise!Next
  <1>9. CASE UNCHANGED vars
    <2>1. UNCHANGED <<version, access, writers, streams, clients, doubted>>
      BY <1>9 DEF vars
    <2>2. \A p \in Principal : WillRead(p)' <=> WillRead(p)
      BY <2>1 DEF WillRead
    <2>3. \A p \in Principal : WillRead(p) \in BOOLEAN /\ WillRead(p)' \in BOOLEAN
      BY DEF WillRead
    <2> QED  BY <2>1, <2>2, <2>3 DEF Promise!mailboxVars
  <1> QED  BY <1>1, <1>2, <1>3, <1>4, <1>5, <1>6, <1>7, <1>8, <1>9 DEF Next, Follow

\* Hub, streams and pages implement Mailbox: whatever is coalesced, dropped or broken off
\* between server and page, a page that is behind keeps being told until it has looked or
\* says that it failed, never goes back, and leaves only when its access has ended or a
\* query for it has failed.
THEOREM MailboxRefinement == Spec => RefinesMailbox
  <1>1. Inv /\ [Next]_vars => [Promise!Next]_(Promise!mailboxVars)
    BY StepPromises
  <1>2. Init => Promise!Init
    BY InitPromises
  <1> QED  BY Invariance, <1>1, <1>2, PTL DEF Spec, RefinesMailbox, Promise!Spec
=============================================================================
