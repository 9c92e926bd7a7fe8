------------------------------- MODULE Delivery -------------------------------
(***************************************************************************)
(* What simulated delivery promises the sender of a message, and nothing   *)
(* about jobs, leases, attempts or processes: a message goes through its   *)
(* life once and in order, each step owes the sender its callback, and a   *)
(* callback that is owed is asked for until its receiver has accepted it   *)
(* or it is given up.  What was delivered or given up is owed again only   *)
(* when somebody asks for a replay.  Simulation.tla implements this        *)
(* specification.                                                          *)
(***************************************************************************)
EXTENDS Naturals

CONSTANTS Message

VARIABLES
    life,       \* the life of each message
    wanted,     \* whether its sender wants to be called back
    callback,   \* what has become of each callback
    asked,      \* callbacks some receiver was ever asked to take
    accepted,   \* those a receiver took, whether or not that was heard
    replays     \* replays asked for

deliveryVars == <<life, wanted, callback, asked, accepted, replays>>

Callback == Message \X {"onReceive", "onSent", "onFinal"}

TypeOK ==
    /\ life \in [Message -> {"free", "received", "queued", "sent", "final", "gone"}]
    /\ wanted \in [Message -> BOOLEAN]
    /\ callback \in [Callback -> {"none", "owed", "delivered", "given up"}]
    /\ asked \in SUBSET Callback /\ accepted \in SUBSET asked
    /\ replays \in Nat

Init ==
    /\ life = [m \in Message |-> "free"]
    /\ wanted = [m \in Message |-> FALSE]
    /\ callback = [c \in Callback |-> "none"]
    /\ asked = {} /\ accepted = {} /\ replays = 0

\* A step of a life, which owes its callback if there is to be one.
Moves(m, next, owes) ==
    /\ life' = [life EXCEPT ![m] = next]
    /\ callback' = [c \in Callback |-> IF c = <<m, owes>> /\ wanted'[m] THEN "owed"
                                       ELSE callback[c]]
    /\ UNCHANGED <<asked, accepted, replays>>

\* An outbound message is accepted; nothing is owed yet.
Send(m, want) ==
    /\ life[m] = "free"
    /\ life' = [life EXCEPT ![m] = "queued"]
    /\ wanted' = [wanted EXCEPT ![m] = want]
    /\ UNCHANGED <<callback, asked, accepted, replays>>

\* An inbound message is accepted.
Receive(m, want) ==
    /\ life[m] = "free"
    /\ wanted' = [wanted EXCEPT ![m] = want]
    /\ Moves(m, "received", "onReceive")

\* An outbound message is sent.
Sent(m) == life[m] = "queued" /\ Moves(m, "sent", "onSent") /\ UNCHANGED wanted

\* It comes to its end.
Ended(m) == life[m] = "sent" /\ Moves(m, "final", "onFinal") /\ UNCHANGED wanted

\* A receiver is asked, and may accept: a callback that was owed once, of a message that
\* may have been deleted since.
Ask(c) ==
    /\ callback[c] # "none" \/ life[c[1]] = "gone"
    /\ asked' = asked \cup {c}
    /\ accepted' \in {accepted, accepted \cup {c}}
    /\ UNCHANGED <<life, wanted, callback, replays>>

\* The callback is recorded as delivered; its receiver has accepted it.
Deliver(c) ==
    /\ callback[c] = "owed" /\ c \in accepted
    /\ callback' = [callback EXCEPT ![c] = "delivered"]
    /\ UNCHANGED <<life, wanted, asked, accepted, replays>>

\* It is given up, never unasked.
GiveUp(c) ==
    /\ callback[c] = "owed" /\ c \in asked
    /\ callback' = [callback EXCEPT ![c] = "given up"]
    /\ UNCHANGED <<life, wanted, asked, accepted, replays>>

\* Somebody wants it sent again.
Replay(c) ==
    /\ callback[c] \in {"delivered", "given up"}
    /\ callback' = [callback EXCEPT ![c] = "owed"]
    /\ replays' = replays + 1
    /\ UNCHANGED <<life, wanted, asked, accepted>>

\* The message is deleted, and with it all that is owed.
Delete(m) ==
    /\ life[m] \notin {"free", "gone"}
    /\ life' = [life EXCEPT ![m] = "gone"]
    /\ callback' = [c \in Callback |-> IF c[1] = m THEN "none" ELSE callback[c]]
    /\ UNCHANGED <<wanted, asked, accepted, replays>>

Next ==
    \/ \E m \in Message, want \in BOOLEAN : Send(m, want) \/ Receive(m, want)
    \/ \E m \in Message : Sent(m) \/ Ended(m) \/ Delete(m)
    \/ \E c \in Callback : Ask(c) \/ Deliver(c) \/ GiveUp(c) \/ Replay(c)

Spec == Init /\ [][Next]_deliveryVars
=============================================================================
