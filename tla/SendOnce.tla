------------------------------ MODULE SendOnce ------------------------------
(***************************************************************************)
(* What the relay promises the callers of its API, and nothing about how:  *)
(* an intent to send is handed to a carrier at most once, an intent that   *)
(* was given up is never handed over later, and an idempotency key stands  *)
(* for one intent for ever.  Relay.tla implements this specification.      *)
(***************************************************************************)
CONSTANTS Message, Key, NoKey, None

VARIABLES
    intent,     \* the life of each intent
    bound       \* the intent each key stands for, or None

onceVars == <<intent, bound>>

TypeOK ==
    /\ intent \in [Message -> {"new", "open", "handed", "closed"}]
    /\ bound \in [Key -> Message \cup {None}]

Init ==
    /\ intent = [m \in Message |-> "new"]
    /\ bound = [k \in Key |-> None]

\* A caller's intent is accepted, under a key not used before or without one.
Open(m, k) ==
    /\ intent[m] = "new"
    /\ intent' = [intent EXCEPT ![m] = "open"]
    /\ k # NoKey => bound[k] = None
    /\ bound' = IF k = NoKey THEN bound ELSE [bound EXCEPT ![k] = m]

\* The one request to a carrier.
Hand(m) ==
    /\ intent[m] = "open"
    /\ intent' = [intent EXCEPT ![m] = "handed"]
    /\ UNCHANGED bound

\* Intents are given up: expired, deleted, or lost with a process that held them.
Close(S) ==
    /\ \A m \in S : intent[m] = "open"
    /\ intent' = [m \in Message |-> IF m \in S THEN "closed" ELSE intent[m]]
    /\ UNCHANGED bound

Next ==
    \/ \E m \in Message, k \in Key \cup {NoKey} : Open(m, k)
    \/ \E m \in Message : Hand(m)
    \/ \E S \in SUBSET Message : Close(S)

Spec == Init /\ [][Next]_onceVars
=============================================================================
