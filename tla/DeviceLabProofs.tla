--------------------------- MODULE DeviceLabProofs ---------------------------
(***************************************************************************)
(* Proofs about DeviceLab, for every number of messages, keys and requests *)
(* served at a time: the invariant, that outcomes stand, and that the lab  *)
(* implements SendOnce.                                                    *)
(***************************************************************************)
EXTENDS DeviceLab, TLAPS

\* The type of requests after a step of r.
LEMMA RequestType ==
    ASSUME TypeOK, NEW r \in Request, NEW q \in Service,
           requests' = [requests EXCEPT ![r] = q]
    PROVE  /\ requests' \in [Request -> Service]
           /\ requests'[r] = q
           /\ \A s \in Request \ {r} : requests'[s] = requests[s]
  BY DEF TypeOK

LEMMA IdleType == Idle \in Service
  BY DEF Idle, Service, Outcome

LEMMA InitInv == Init => Inv
  <1> SUFFICES ASSUME Init PROVE Inv
    OBVIOUS
  <1>1. \A r \in Request : requests[r] = Idle /\ requests[r].pc = "idle"
    BY DEF Init, Idle
  <1>2. TypeOK
    BY IdleType DEF Init, TypeOK, InjectionState, Outcome, KeyRow
  <1>3. RowsAgree /\ Truthful /\ Fresh
    BY <1>1 DEF Init, RowsAgree, InjectionState, Outcome, Truthful, Fresh, Holds
  <1>4. OneCommand /\ AboutToTell /\ HoldsMessage
    BY <1>1 DEF Init, OneCommand, AboutToTell, HoldsMessage, Holds
  <1>5. KeysBound /\ ConsoleKnows
    BY DEF Init, KeysBound, ConsoleKnows
  <1>6. QED
    BY <1>2, <1>3, <1>4, <1>5 DEF Inv

-----------------------------------------------------------------------------
(* Steps that touch the requests only.                                     *)

\* A request r goes to q: it works on no message it did not work on, does not go
\* back to a command it has yet to start, and what it is about to tell is true.
LEMMA RequestMoves ==
    ASSUME Inv, NEW r \in Request, NEW q \in Service,
           requests' = [requests EXCEPT ![r] = q],
           UNCHANGED <<tables, console, submitted, bound>>,
           recovery' = recovery,
           q.pc \in {"idle", "check", "wait", "finish"},
           q.pc \in {"wait", "finish"} =>
                q.message = requests[r].message /\ requests[r].pc \in {"send", "wait", "finish"},
           q.pc = "finish" => /\ q.state = "injected" => console[q.message] = "took"
                              /\ q.state = "failed" => console[q.message] = "refused"
    PROVE  Inv'
  <1>1. /\ requests' \in [Request -> Service]
        /\ requests'[r] = q
        /\ \A s \in Request \ {r} : requests'[s] = requests[s]
    BY RequestType DEF Inv
  <1>2. \A s \in Request, m \in Message : Holds(s, m)' => Holds(s, m)
    BY <1>1 DEF Holds
  <1>3. TypeOK'
    BY <1>1 DEF Inv, TypeOK, tables
  <1>4. RowsAgree' /\ Truthful' /\ KeysBound' /\ ConsoleKnows'
    BY DEF Inv, RowsAgree, Truthful, KeysBound, ConsoleKnows, tables
  <1>5. OneCommand'
    <2>1. \A s, t \in Request, m \in Message : Holds(s, m)' /\ Holds(t, m)' => s = t
      BY <1>2 DEF Inv, OneCommand
    <2>2. \A s \in Request : requests'[s].pc = "send" => submitted'[requests'[s].message] = 0
      BY <1>1 DEF Inv, OneCommand
    <2>3. QED
      BY <2>1, <2>2 DEF Inv, OneCommand
  <1>6. AboutToTell'
    BY <1>1 DEF Inv, AboutToTell
  <1>7. Fresh'
    BY <1>2 DEF Inv, Fresh, tables
  <1>8. HoldsMessage'
    BY <1>1 DEF Inv, HoldsMessage
  <1>9. QED
    BY <1>3, <1>4, <1>5, <1>6, <1>7, <1>8 DEF Inv

LEMMA LookupInv ==
    ASSUME Inv, NEW r \in Request, NEW k \in Key \cup {NoKey}, Lookup(r, k)
    PROVE  Inv'
  <1> DEFINE q == [Idle EXCEPT !.pc = "check", !.key = k]
  <1>1. q \in Service /\ q.pc = "check"
    BY DEF Idle, Service, Outcome
  <1>2. requests' = [requests EXCEPT ![r] = q]
    BY DEF Lookup
  <1> HIDE DEF q
  <1>3. QED
    BY <1>1, <1>2, RequestMoves DEF Lookup

\* Every step that ends the request without recording anything.
LEMMA EndInv ==
    ASSUME Inv, NEW r \in Request, Refuse(r) \/ LoseRace(r) \/ FailToFinish(r)
    PROVE  Inv'
  <1>1. requests' = [requests EXCEPT ![r] = Idle] /\ Idle.pc = "idle"
    BY DEF Refuse, LoseRace, FailToFinish, Idle
  <1>2. QED
    BY <1>1, IdleType, RequestMoves DEF Refuse, LoseRace, FailToFinish

LEMMA CannotStartInv ==
    ASSUME Inv, NEW r \in Request, CannotStart(r)
    PROVE  Inv'
  <1> DEFINE q == [requests[r] EXCEPT !.pc = "finish", !.state = "unknown"]
  <1>1. requests[r] \in Service
    BY DEF Inv, TypeOK
  <1>2. q \in Service
    BY <1>1 DEF Service, Outcome
  <1>3. q.pc = "finish" /\ q.message = requests[r].message /\ q.state = "unknown"
    BY <1>1 DEF Service
  <1>4. requests' = [requests EXCEPT ![r] = q]
    BY DEF CannotStart
  <1> HIDE DEF q
  <1>5. QED
    BY <1>2, <1>3, <1>4, RequestMoves DEF CannotStart

LEMMA ConcludeInv ==
    ASSUME Inv, NEW r \in Request, Conclude(r)
    PROVE  Inv'
  <1>1. PICK state \in Verdicts(requests[r].message) :
            requests' = [requests EXCEPT ![r].pc = "finish", ![r].state = state]
    BY DEF Conclude
  <1> DEFINE q == [requests[r] EXCEPT !.pc = "finish", !.state = state]
  <1>2. requests[r] \in Service
    BY DEF Inv, TypeOK
  <1>3. /\ state \in Outcome
        /\ state = "injected" => console[requests[r].message] = "took"
        /\ state = "failed" => console[requests[r].message] = "refused"
    BY <1>1 DEF Verdicts, Outcome
  <1>4. q \in Service
    BY <1>2, <1>3 DEF Service
  <1>5. q.pc = "finish" /\ q.message = requests[r].message /\ q.state = state
    BY <1>2 DEF Service
  <1>6. requests' = [requests EXCEPT ![r] = q]
    BY <1>1
  <1> HIDE DEF q
  <1>7. QED
    BY <1>3, <1>4, <1>5, <1>6, RequestMoves DEF Conclude

-----------------------------------------------------------------------------
(* Reservation and command.                                                *)

LEMMA ReserveInv ==
    ASSUME Inv, NEW r \in Request, NEW m \in Message, ReserveInjection(r, m)
    PROVE  Inv'
  <1> DEFINE k == requests[r].key
             q == [requests[r] EXCEPT !.pc = "send", !.message = m]
  <1>1. requests[r] \in Service /\ None \notin Message
    BY LabAssumption DEF Inv, TypeOK
  <1>2. q \in Service
    BY <1>1 DEF Service
  <1>3. q.pc = "send" /\ q.message = m
    BY <1>1 DEF Service
  <1>4. requests' = [requests EXCEPT ![r] = q]
    BY DEF ReserveInjection
  <1> HIDE DEF q
  <1>5. /\ requests' \in [Request -> Service]
        /\ requests'[r] = q
        /\ \A s \in Request \ {r} : requests'[s] = requests[s]
    BY <1>2, <1>4, RequestType DEF Inv
  <1>6. messages[m] = "free" /\ UNCHANGED <<lapsed, recovery, console, submitted>>
    BY DEF ReserveInjection
  <1>7. submitted[m] = 0 /\ console[m] = "none" /\ \A s \in Request : ~Holds(s, m)
    BY <1>6 DEF Inv, Fresh
  <1>8. /\ messages' = [messages EXCEPT ![m] = "injecting"]
        /\ lab_injections' = [lab_injections EXCEPT ![m] = "injecting"]
    BY DEF ReserveInjection
  <1>9. /\ k = NoKey => UNCHANGED <<lab_keys, bound>>
        /\ k # NoKey => /\ k \in Key /\ ~lab_keys[k].used
                        /\ lab_keys' = [lab_keys EXCEPT ![k] = [used |-> TRUE, message |-> m]]
                        /\ bound' = [bound EXCEPT ![k] = m]
    BY <1>1 DEF ReserveInjection, Unused, Service
  <1>10. TypeOK'
    <2>1. messages' \in [Message -> InjectionState \cup {"free", "gone"}]
      BY <1>8 DEF Inv, TypeOK, InjectionState
    <2>2. lab_injections' \in [Message -> InjectionState \cup {"none"}]
      BY <1>8 DEF Inv, TypeOK, InjectionState
    <2>3. lab_keys' \in [Key -> KeyRow] /\ bound' \in [Key -> Message \cup {None}]
      <3>1. [used |-> TRUE, message |-> m] \in KeyRow
        BY DEF KeyRow
      <3>2. QED
        BY <1>9, <3>1 DEF Inv, TypeOK
    <2>4. QED
      BY <1>5, <1>6, <2>1, <2>2, <2>3 DEF Inv, TypeOK
  <1>11. RowsAgree' /\ Truthful'
    BY <1>6, <1>8 DEF Inv, TypeOK, RowsAgree, Truthful, InjectionState
  <1>12. OneCommand'
    <2>1. \A s, t \in Request, n \in Message : Holds(s, n)' /\ Holds(t, n)' => s = t
      BY <1>3, <1>5, <1>7 DEF Inv, OneCommand, Holds
    <2>2. \A s \in Request : requests'[s].pc = "send" => submitted'[requests'[s].message] = 0
      BY <1>3, <1>5, <1>6, <1>7 DEF Inv, OneCommand
    <2>3. QED
      BY <1>6, <2>1, <2>2 DEF Inv, OneCommand
  <1>13. AboutToTell' /\ HoldsMessage' /\ ConsoleKnows'
    BY <1>3, <1>5, <1>6 DEF Inv, AboutToTell, HoldsMessage, ConsoleKnows
  <1>14. Fresh'
    BY <1>3, <1>5, <1>6, <1>8 DEF Inv, Fresh, Holds, TypeOK
  <1>15. KeysBound'
    <2> SUFFICES ASSUME NEW j \in Key
                 PROVE  (/\ lab_keys[j].used <=> bound[j] # None
                         /\ lab_keys[j].message \in {bound[j], None}
                         /\ lab_keys[j].message # None =>
                                messages[lab_keys[j].message] \in InjectionState)'
      BY DEF KeysBound
    <2>1. /\ lab_keys[j] \in KeyRow /\ bound[j] \in Message \cup {None}
          /\ lab_keys[j].used <=> bound[j] # None
          /\ lab_keys[j].message \in {bound[j], None}
          /\ lab_keys[j].message # None => messages[lab_keys[j].message] \in InjectionState
      BY DEF Inv, KeysBound, TypeOK
    <2>2. \A n \in Message : messages[n] \in InjectionState => messages'[n] \in InjectionState
      BY <1>8 DEF InjectionState, Inv, TypeOK
    <2>3. CASE k = j /\ k # NoKey
      <3>1. lab_keys'[j] = [used |-> TRUE, message |-> m] /\ bound'[j] = m
        BY <1>9, <2>3 DEF Inv, TypeOK
      <3>2. messages'[m] \in InjectionState
        BY <1>8 DEF Inv, TypeOK, InjectionState
      <3>3. QED
        BY <1>1, <3>1, <3>2
    <2>4. CASE ~(k = j /\ k # NoKey)
      <3>1. lab_keys'[j] = lab_keys[j] /\ bound'[j] = bound[j]
        BY <1>9, <2>4 DEF Inv, TypeOK
      <3>2. lab_keys[j].message \in Message \cup {None}
        BY <2>1
      <3>3. QED
        BY <2>1, <2>2, <3>1, <3>2
    <2>5. QED
      BY <2>3, <2>4
  <1>16. QED
    BY <1>10, <1>11, <1>12, <1>13, <1>14, <1>15 DEF Inv

LEMMA StartCommandInv ==
    ASSUME Inv, NEW r \in Request, StartCommand(r)
    PROVE  Inv'
  <1> DEFINE m == requests[r].message
             q == [requests[r] EXCEPT !.pc = "wait"]
  <1>1. requests[r] \in Service /\ requests[r].pc = "send"
    BY DEF Inv, TypeOK, StartCommand
  <1>2. q \in Service
    BY <1>1 DEF Service
  <1>3. q.pc = "wait" /\ q.message = m
    BY <1>1 DEF Service
  <1>4. requests' = [requests EXCEPT ![r] = q]
    BY DEF StartCommand
  <1>5. m \in Message /\ submitted[m] = 0 /\ Holds(r, m)
    BY <1>1 DEF Inv, HoldsMessage, OneCommand, Holds
  <1>6. /\ submitted' = [submitted EXCEPT ![m] = @ + 1]
        /\ console' = [console EXCEPT ![m] = "open"]
        /\ UNCHANGED <<tables, recovery, bound>>
    BY DEF StartCommand
  <1> HIDE DEF q, m
  <1>7. /\ requests' \in [Request -> Service]
        /\ requests'[r] = q
        /\ \A s \in Request \ {r} : requests'[s] = requests[s]
    BY <1>2, <1>4, RequestType DEF Inv
  <1>8. \A s \in Request, n \in Message : Holds(s, n)' => Holds(s, n)
    BY <1>3, <1>5, <1>7 DEF Holds
  <1>9. /\ submitted'[m] = 1 /\ console'[m] = "open"
        /\ \A n \in Message \ {m} : submitted'[n] = submitted[n] /\ console'[n] = console[n]
    BY <1>5, <1>6 DEF Inv, TypeOK
  <1>10. console[m] = "none" /\ \A s \in Request \ {r} : ~Holds(s, m)
    BY <1>5 DEF Inv, ConsoleKnows, OneCommand
  <1>11. TypeOK'
    BY <1>5, <1>6, <1>7 DEF Inv, TypeOK, tables
  <1>12. RowsAgree' /\ KeysBound'
    BY <1>6 DEF Inv, RowsAgree, KeysBound, tables
  <1>13. OneCommand'
    <2>1. \A s, t \in Request, n \in Message : Holds(s, n)' /\ Holds(t, n)' => s = t
      BY <1>8 DEF Inv, OneCommand
    <2>2. ASSUME NEW s \in Request, requests'[s].pc = "send"
          PROVE  submitted'[requests'[s].message] = 0
      <3>1. s # r /\ requests'[s] = requests[s]
        BY <1>3, <1>7, <2>2
      <3>2. requests[s].message \in Message /\ requests[s].message # m
        BY <1>10, <2>2, <3>1 DEF Inv, HoldsMessage, Holds
      <3>3. QED
        BY <1>9, <2>2, <3>1, <3>2 DEF Inv, OneCommand
    <2>3. \A n \in Message : submitted'[n] <= 1
      BY <1>9 DEF Inv, OneCommand
    <2>4. QED
      BY <2>1, <2>2, <2>3 DEF OneCommand
  <1>14. Truthful'
    BY <1>6, <1>9, <1>10 DEF Inv, Truthful, tables
  <1>15. AboutToTell'
    <2> SUFFICES ASSUME NEW s \in Request, requests'[s].pc = "finish"
                 PROVE  /\ requests'[s].state = "injected" => console'[requests'[s].message] = "took"
                        /\ requests'[s].state = "failed" => console'[requests'[s].message] = "refused"
      BY DEF AboutToTell
    <2>1. s # r /\ requests'[s] = requests[s]
      BY <1>3, <1>7
    <2>2. requests[s].message \in Message /\ requests[s].message # m
      BY <1>10, <2>1 DEF Inv, HoldsMessage, Holds
    <2>3. QED
      BY <1>9, <2>1, <2>2 DEF Inv, AboutToTell
  <1>16. Fresh'
    <2>1. messages[m] # "free"
      BY <1>5 DEF Inv, Fresh
    <2>2. QED
      BY <1>6, <1>8, <1>9, <2>1 DEF Inv, Fresh, tables
  <1>17. HoldsMessage' /\ ConsoleKnows'
    BY <1>3, <1>5, <1>7, <1>9 DEF Inv, HoldsMessage, ConsoleKnows
  <1>18. QED
    BY <1>11, <1>12, <1>13, <1>14, <1>15, <1>16, <1>17 DEF Inv

-----------------------------------------------------------------------------
(* Recording outcomes.                                                     *)

\* A row takes an outcome that is true of the console, and its message with it.
LEMMA FinishInjectionInv ==
    ASSUME Inv, NEW m \in Message, NEW state \in Outcome, FinishInjection(m, state),
           state = "injected" => console[m] = "took",
           state = "failed" => console[m] = "refused",
           requests' \in [Request -> Service], recovery' \subseteq Message,
           UNCHANGED <<console, submitted, bound>>,
           \A s \in Request : requests'[s] = requests[s] \/ requests'[s].pc = "idle"
    PROVE  Inv'
  <1> DEFINE settled == IF lab_injections[m] \in Unsettled THEN state ELSE lab_injections[m]
  <1>1. /\ lab_injections[m] = "none" => UNCHANGED <<messages, lab_injections>>
        /\ lab_injections[m] # "none" =>
                /\ lab_injections' = [lab_injections EXCEPT ![m] = settled]
                /\ messages' = [messages EXCEPT ![m] = settled]
        /\ UNCHANGED <<lapsed, lab_keys>>
    BY DEF FinishInjection
  <1>2. lab_injections[m] # "none" => /\ messages[m] = lab_injections[m]
                                      /\ messages[m] \in InjectionState
    BY DEF Inv, RowsAgree
  <1>3. lab_injections[m] # "none" =>
            /\ settled \in InjectionState
            /\ settled = "injected" => console[m] = "took"
            /\ settled = "failed" => console[m] = "refused"
    BY <1>2 DEF Inv, Truthful, InjectionState
  <1> HIDE DEF settled
  <1>4. TypeOK'
    BY <1>1, <1>3 DEF Inv, TypeOK
  <1>5. RowsAgree' /\ Truthful'
    BY <1>1, <1>3 DEF Inv, TypeOK, RowsAgree, Truthful
  <1>6. \A s \in Request, n \in Message : Holds(s, n)' => Holds(s, n)
    BY DEF Holds
  <1>7. OneCommand' /\ AboutToTell' /\ HoldsMessage' /\ ConsoleKnows'
    <2>1. \A s, t \in Request, n \in Message : Holds(s, n)' /\ Holds(t, n)' => s = t
      BY <1>6 DEF Inv, OneCommand
    <2>2. OneCommand'
      BY <2>1 DEF Inv, OneCommand
    <2>3. QED
      BY <2>2 DEF Inv, AboutToTell, HoldsMessage, ConsoleKnows
  <1>8. \A n \in Message : /\ messages'[n] = "free" => messages[n] = "free"
                           /\ messages[n] \in InjectionState => messages'[n] \in InjectionState
    <2>1. CASE lab_injections[m] = "none"
      BY <1>1, <2>1
    <2>2. CASE lab_injections[m] # "none"
      <3>1. messages'[m] = settled /\ \A n \in Message \ {m} : messages'[n] = messages[n]
        BY <1>1, <2>2 DEF Inv, TypeOK
      <3>2. settled \in InjectionState /\ "free" \notin InjectionState
        BY <1>3, <2>2 DEF InjectionState, Outcome
      <3>3. QED
        BY <3>1, <3>2
    <2>3. QED
      BY <2>1, <2>2
  <1>9. Fresh'
    <2> SUFFICES ASSUME NEW n \in Message, messages'[n] = "free"
                 PROVE  /\ submitted[n] = 0 /\ console[n] = "none"
                        /\ \A s \in Request : ~Holds(s, n)'
      BY DEF Fresh
    <2>1. messages[n] = "free"
      BY <1>8
    <2>2. QED
      BY <1>6, <2>1 DEF Inv, Fresh
  <1>10. KeysBound'
    <2> SUFFICES ASSUME NEW k \in Key
                 PROVE  /\ lab_keys[k].used <=> bound[k] # None
                        /\ lab_keys[k].message \in {bound[k], None}
                        /\ lab_keys[k].message # None =>
                                messages'[lab_keys[k].message] \in InjectionState
      BY <1>1 DEF KeysBound
    <2>1. lab_keys[k].message \in Message \cup {None}
      BY DEF Inv, TypeOK, KeyRow
    <2>2. QED
      BY <1>8, <2>1 DEF Inv, KeysBound
  <1>11. QED
    BY <1>4, <1>5, <1>7, <1>9, <1>10 DEF Inv

LEMMA FinishInv ==
    ASSUME Inv, NEW r \in Request, Finish(r)
    PROVE  Inv'
  <1>1. requests' = [requests EXCEPT ![r] = Idle] /\ Idle.pc = "idle"
    BY DEF Finish, Idle
  <1>2. /\ requests' \in [Request -> Service]
        /\ requests'[r] = Idle
        /\ \A s \in Request \ {r} : requests'[s] = requests[s]
    BY <1>1, IdleType, RequestType DEF Inv
  <1>3. requests[r].pc = "finish" /\ requests[r].state \in Outcome
    BY DEF Finish, Inv, TypeOK, Service
  <1>4. /\ requests[r].message \in Message
        /\ requests[r].state = "injected" => console[requests[r].message] = "took"
        /\ requests[r].state = "failed" => console[requests[r].message] = "refused"
    BY <1>3 DEF Inv, HoldsMessage, AboutToTell
  <1>5. /\ FinishInjection(requests[r].message, requests[r].state)
        /\ UNCHANGED <<recovery, console, submitted, bound>>
    BY DEF Finish
  <1>6. recovery' \subseteq Message
    BY <1>5 DEF Inv, TypeOK
  <1>7. \A s \in Request : requests'[s] = requests[s] \/ requests'[s].pc = "idle"
    BY <1>1, <1>2
  <1>8. QED
    BY <1>2, <1>3, <1>4, <1>5, <1>6, <1>7, FinishInjectionInv

LEMMA RecoverOneInv ==
    ASSUME Inv, NEW m \in Message, RecoverOne(m)
    PROVE  Inv'
  <1>1. FinishInjection(m, "unknown") /\ UNCHANGED <<requests, console, submitted, bound>>
    BY DEF RecoverOne
  <1>2. recovery' \subseteq Message /\ requests' \in [Request -> Service]
    BY DEF RecoverOne, Inv, TypeOK
  <1>3. "unknown" \in Outcome
    BY DEF Outcome
  <1>4. QED
    BY <1>1, <1>2, <1>3, FinishInjectionInv

-----------------------------------------------------------------------------
(* The surroundings.                                                       *)

\* Steps that change neither rows nor requests, except requests that end.
LEMMA QuietInv ==
    ASSUME Inv, UNCHANGED <<messages, lab_injections, lab_keys, console, submitted, bound>>,
           lapsed' \subseteq Message, recovery' \subseteq Message,
           requests' \in [Request -> Service],
           \A s \in Request : requests'[s] = requests[s] \/ requests'[s].pc = "idle"
    PROVE  Inv'
  <1>1. \A s \in Request, n \in Message : Holds(s, n)' => Holds(s, n)
    BY DEF Holds
  <1>2. TypeOK'
    BY DEF Inv, TypeOK
  <1>3. OneCommand'
    <2>1. \A s, t \in Request, n \in Message : Holds(s, n)' /\ Holds(t, n)' => s = t
      BY <1>1 DEF Inv, OneCommand
    <2>2. QED
      BY <2>1 DEF Inv, OneCommand
  <1>4. RowsAgree' /\ Truthful' /\ KeysBound' /\ ConsoleKnows'
    BY DEF Inv, RowsAgree, Truthful, KeysBound, ConsoleKnows
  <1>5. AboutToTell' /\ HoldsMessage'
    BY DEF Inv, AboutToTell, HoldsMessage
  <1>6. Fresh'
    BY <1>1 DEF Inv, Fresh
  <1>7. QED
    BY <1>2, <1>3, <1>4, <1>5, <1>6 DEF Inv

LEMMA RestartInv == ASSUME Inv, Restart PROVE Inv'
  <1>1. /\ requests' = [r \in Request |-> Idle] /\ recovery' = {}
        /\ UNCHANGED <<tables, console, submitted, bound>>
    BY DEF Restart
  <1>2. requests' \in [Request -> Service]
    BY <1>1, IdleType
  <1>3. \A s \in Request : requests'[s].pc = "idle"
    BY <1>1 DEF Idle
  <1>4. lapsed' \subseteq Message
    BY <1>1 DEF Inv, TypeOK, tables
  <1>5. QED
    BY <1>1, <1>2, <1>3, <1>4, QuietInv DEF tables

LEMMA LeaseInv == ASSUME Inv, NEW m \in Message, LeaseEnds(m) PROVE Inv'
  <1>1. lapsed' \subseteq Message /\ recovery' \subseteq Message /\ requests' \in [Request -> Service]
    BY DEF LeaseEnds, Inv, TypeOK
  <1>2. QED
    BY <1>1, QuietInv DEF LeaseEnds

LEMMA RecoverInv == ASSUME Inv, RecoverScan \/ RecoverFails PROVE Inv'
  <1>1. /\ lapsed' \subseteq Message /\ recovery' \subseteq Message
        /\ requests' \in [Request -> Service]
    BY DEF RecoverScan, RecoverFails, Recoverable, Inv, TypeOK, tables
  <1>2. QED
    BY <1>1, QuietInv DEF RecoverScan, RecoverFails, tables

LEMMA ConsoleInv == ASSUME Inv, NEW m \in Message, Console(m) PROVE Inv'
  <1>1. PICK answer \in {"took", "refused"} : console' = [console EXCEPT ![m] = answer]
    BY DEF Console
  <1>2. console[m] = "open" /\ UNCHANGED <<tables, requests, recovery, submitted, bound>>
    BY DEF Console
  <1>3. /\ console'[m] = answer /\ \A n \in Message \ {m} : console'[n] = console[n]
        /\ console' \in [Message -> {"none", "open", "took", "refused"}]
    BY <1>1 DEF Inv, TypeOK
  <1>4. TypeOK' /\ RowsAgree' /\ KeysBound' /\ HoldsMessage'
    BY <1>2, <1>3 DEF Inv, TypeOK, RowsAgree, KeysBound, HoldsMessage, tables
  <1>5. OneCommand'
    BY <1>2 DEF Inv, OneCommand, Holds
  <1>6. Truthful' /\ ConsoleKnows'
    BY <1>2, <1>3 DEF Inv, Truthful, ConsoleKnows, tables
  <1>7. AboutToTell'
    BY <1>2, <1>3 DEF Inv, AboutToTell, HoldsMessage
  <1>8. Fresh'
    BY <1>2, <1>3 DEF Inv, Fresh, Holds, tables
  <1>9. QED
    BY <1>4, <1>5, <1>6, <1>7, <1>8 DEF Inv

LEMMA DeleteInv == ASSUME Inv, NEW S \in SUBSET Message, DeleteMessages(S) PROVE Inv'
  <1>1. /\ \A m \in S : messages[m] \in InjectionState
        /\ messages' = [m \in Message |-> IF m \in S THEN "gone" ELSE messages[m]]
        /\ lab_injections' = [m \in Message |-> IF m \in S THEN "none" ELSE lab_injections[m]]
        /\ lapsed' = lapsed \ S
        /\ lab_keys' = [k \in Key |-> IF lab_keys[k].message \in S
                                       THEN [lab_keys[k] EXCEPT !.message = None] ELSE lab_keys[k]]
        /\ UNCHANGED <<requests, recovery, console, submitted, bound>>
    BY DEF DeleteMessages
  <1>2. \A k \in Key : /\ lab_keys[k] \in KeyRow
                       /\ lab_keys'[k] \in KeyRow /\ lab_keys'[k].used = lab_keys[k].used
                       /\ \/ lab_keys'[k] = lab_keys[k] /\ lab_keys[k].message \notin S
                          \/ lab_keys'[k].message = None
    BY <1>1 DEF Inv, TypeOK, KeyRow
  <1>3. TypeOK'
    <2>1. lab_keys' \in [Key -> KeyRow]
      BY <1>1, <1>2
    <2>2. QED
      BY <1>1, <2>1 DEF Inv, TypeOK
  <1>4. RowsAgree' /\ Truthful'
    <2>1. "gone" \notin InjectionState
      BY DEF InjectionState, Outcome
    <2>2. RowsAgree'
      BY <1>1, <2>1 DEF Inv, RowsAgree
    <2>3. QED
      BY <1>1, <2>2 DEF Inv, Truthful
  <1>5. OneCommand' /\ AboutToTell' /\ HoldsMessage' /\ ConsoleKnows'
    BY <1>1 DEF Inv, OneCommand, AboutToTell, HoldsMessage, ConsoleKnows, Holds
  <1>6. Fresh'
    BY <1>1 DEF Inv, Fresh, Holds
  <1>7. KeysBound'
    <2> SUFFICES ASSUME NEW k \in Key
                 PROVE  (/\ lab_keys[k].used <=> bound[k] # None
                         /\ lab_keys[k].message \in {bound[k], None}
                         /\ lab_keys[k].message # None =>
                                messages[lab_keys[k].message] \in InjectionState)'
      BY DEF KeysBound
    <2>1. /\ lab_keys[k].used <=> bound[k] # None
          /\ lab_keys[k].message \in {bound[k], None}
          /\ lab_keys[k].message # None => messages[lab_keys[k].message] \in InjectionState
          /\ lab_keys[k].message \in Message \cup {None}
      BY <1>2 DEF Inv, KeysBound, KeyRow
    <2>2. QED
      BY <1>1, <1>2, <2>1
  <1>8. QED
    BY <1>3, <1>4, <1>5, <1>6, <1>7 DEF Inv

-----------------------------------------------------------------------------
(* The invariant.                                                          *)

LEMMA StepInv == Inv /\ [Next]_vars => Inv'
  <1> SUFFICES ASSUME Inv, [Next]_vars PROVE Inv'
    OBVIOUS
  <1>1. ASSUME NEW r \in Request, Inject(r) PROVE Inv'
    BY <1>1, LookupInv, EndInv, ReserveInv, StartCommandInv, CannotStartInv, ConcludeInv,
       FinishInv DEF Inject
  <1>2. CASE Recover
    BY <1>2, RecoverInv, RecoverOneInv DEF Recover
  <1>3. ASSUME NEW m \in Message, LeaseEnds(m) \/ Console(m) PROVE Inv'
    BY <1>3, LeaseInv, ConsoleInv
  <1>4. CASE Restart
    BY <1>4, RestartInv
  <1>5. CASE UNCHANGED vars
    BY <1>5, QuietInv DEF vars, tables, Inv, TypeOK
  <1>6. QED
    BY <1>1, <1>2, <1>3, <1>4, <1>5, DeleteInv DEF Next

\* In every reachable state of the lab: rows and messages agree, no command is started
\* twice, and what is recorded is what the emulator did
\* (devicelab/service.go Inject and Recover, storage/devicelab.go).
THEOREM Invariance == Spec => []Inv
  BY InitInv, StepInv, PTL DEF Spec

-----------------------------------------------------------------------------
(* Outcomes stand.                                                         *)

LEMMA OutcomeStep ==
    ASSUME Inv, [Next]_vars, NEW m \in Message, messages[m] \in {"injected", "failed"}
    PROVE  messages'[m] \in {messages[m], "gone"}
  <1>1. ASSUME NEW n \in Message, NEW state, FinishInjection(n, state)
        PROVE  messages'[m] = messages[m]
    <2>1. lab_injections[m] = messages[m] /\ messages[m] \notin Unsettled
      BY DEF Inv, RowsAgree, InjectionState, Outcome, Unsettled
    <2>2. QED
      BY <1>1, <2>1 DEF FinishInjection, Inv, TypeOK
  <1>2. ASSUME NEW r \in Request, Inject(r)
        PROVE  messages'[m] = messages[m]
    <2>1. CASE \E n \in Message : ReserveInjection(r, n)
      BY <2>1 DEF ReserveInjection, Inv, TypeOK
    <2>2. CASE Finish(r)
      BY <1>1, <2>2 DEF Finish, Inv, HoldsMessage
    <2>3. QED
      BY <1>2, <2>1, <2>2 DEF Inject, Lookup, Refuse, LoseRace, StartCommand, CannotStart, Conclude,
                              FailToFinish, tables
  <1>3. CASE Recover
    BY <1>1, <1>3 DEF Recover, RecoverScan, RecoverFails, RecoverOne, tables
  <1>4. ASSUME NEW S \in SUBSET Message, DeleteMessages(S)
        PROVE  messages'[m] \in {messages[m], "gone"}
    BY <1>4 DEF DeleteMessages
  <1>5. QED
    BY <1>2, <1>3, <1>4 DEF Next, LeaseEnds, Console, Restart, vars, tables

\* What the console was seen to say about an SMS is never changed again, by the
\* recovery loop or by a request that comes late
\* (storage/devicelab.go FinishInjection, RecoverInjections).
THEOREM OutcomesStand == Spec => OutcomeStands
  <1>1. Inv /\ [Next]_vars => [\A m \in Message : messages[m] \in {"injected", "failed"} =>
                                    messages'[m] \in {messages[m], "gone"}]_vars
    BY OutcomeStep
  <1>2. QED
    BY <1>1, Invariance, PTL DEF Spec, OutcomeStands

-----------------------------------------------------------------------------
(* Refinement.                                                             *)

IntentMap == [m \in Message |-> Intent(m)]

\* A request has reserved m and not started its command.
Reserved(m) == \E r \in Request : requests[r].pc = "send" /\ requests[r].message = m

\* What Intent says in terms of the invariant.
IntentMeaning ==
    \A m \in Message :
        /\ Intent(m) = "new" <=> messages[m] = "free"
        /\ Intent(m) = "handed" <=> submitted[m] > 0
        /\ Intent(m) = "open" <=> Reserved(m)
        /\ Intent(m) \in {"new", "open", "handed", "closed"}

LEMMA IntentCases == Inv => IntentMeaning
  <1> SUFFICES ASSUME Inv, NEW m \in Message
               PROVE  /\ Intent(m) = "new" <=> messages[m] = "free"
                      /\ Intent(m) = "handed" <=> submitted[m] > 0
                      /\ Intent(m) = "open" <=> Reserved(m)
                      /\ Intent(m) \in {"new", "open", "handed", "closed"}
    BY DEF IntentMeaning
  <1>1. Reserved(m) => submitted[m] = 0 /\ messages[m] # "free"
    BY DEF Inv, Reserved, OneCommand, Fresh, Holds
  <1>2. messages[m] = "free" => submitted[m] = 0
    BY DEF Inv, Fresh
  <1>3. submitted[m] \in Nat
    BY DEF Inv, TypeOK
  <1>4. QED
    BY <1>1, <1>2, <1>3 DEF Intent, Reserved

\* Reserving opens the intent and binds its key.
LEMMA ReserveOpens ==
    ASSUME Inv, Inv', NEW r \in Request, NEW m \in Message, ReserveInjection(r, m)
    PROVE  Once!Next
  <1> DEFINE k == requests[r].key
             q == [requests[r] EXCEPT !.pc = "send", !.message = m]
  <1>1. requests[r] \in Service /\ k \in Key \cup {NoKey}
    BY DEF Inv, TypeOK, Service
  <1>2. q.pc = "send" /\ q.message = m /\ requests' = [requests EXCEPT ![r] = q]
    BY <1>1 DEF Service, ReserveInjection
  <1>3. messages[m] = "free" /\ requests[r].pc = "check" /\ submitted' = submitted
    BY DEF ReserveInjection
  <1> HIDE DEF q
  <1>4. requests'[r] = q /\ \A s \in Request \ {r} : requests'[s] = requests[s]
    BY <1>2 DEF Inv, TypeOK
  <1>5. messages'[m] = "injecting" /\ \A n \in Message \ {m} : messages'[n] = messages[n]
    BY DEF ReserveInjection, Inv, TypeOK
  <1>6. Reserved(m)' /\ \A n \in Message \ {m} : Reserved(n)' <=> Reserved(n)
    BY <1>2, <1>3, <1>4 DEF Reserved
  <1>0. IntentMeaning /\ IntentMeaning'
    BY IntentCases, PTL
  <1>7. Intent(m) = "new" /\ Intent(m)' = "open"
    BY <1>0, <1>3, <1>6 DEF IntentMeaning
  <1>8. \A n \in Message \ {m} : Intent(n)' = Intent(n)
    BY <1>3, <1>5, <1>6 DEF Intent, Reserved
  <1>9. IntentMap' = [IntentMap EXCEPT ![m] = "open"]
    BY <1>7, <1>8 DEF IntentMap
  <1>10. /\ k # NoKey => bound[k] = None
         /\ bound' = IF k = NoKey THEN bound ELSE [bound EXCEPT ![k] = m]
    BY <1>1 DEF ReserveInjection, Unused, Inv, KeysBound
  <1>11. Once!Open(m, k)
    BY <1>7, <1>9, <1>10 DEF IntentMap, Once!Open
  <1>12. QED
    BY <1>1, <1>11 DEF Once!Next

\* Starting the command hands the intent over.
LEMMA StartHands ==
    ASSUME Inv, Inv', NEW r \in Request, StartCommand(r)
    PROVE  Once!Next
  <1> DEFINE q == [requests[r] EXCEPT !.pc = "wait"]
  <1>1. requests[r] \in Service /\ requests[r].pc = "send"
    BY DEF Inv, TypeOK, StartCommand
  <1>2. q.pc = "wait" /\ requests' = [requests EXCEPT ![r] = q]
    BY <1>1 DEF Service, StartCommand
  <1>3. PICK m \in Message : m = requests[r].message /\ Reserved(m)
    BY <1>1 DEF Inv, HoldsMessage, Reserved
  <1>4. submitted' = [submitted EXCEPT ![m] = @ + 1] /\ messages' = messages /\ bound' = bound
    BY <1>3 DEF StartCommand, tables
  <1> HIDE DEF q
  <1>5. requests'[r] = q /\ \A s \in Request \ {r} : requests'[s] = requests[s]
    BY <1>2 DEF Inv, TypeOK
  <1>6. submitted'[m] > 0 /\ \A n \in Message \ {m} : submitted'[n] = submitted[n]
    BY <1>3, <1>4 DEF Inv, TypeOK
  <1>7. \A n \in Message \ {m} : Reserved(n)' <=> Reserved(n)
    BY <1>1, <1>2, <1>3, <1>5 DEF Reserved
  <1>0. IntentMeaning /\ IntentMeaning'
    BY IntentCases, PTL
  <1>8. Intent(m) = "open" /\ Intent(m)' = "handed"
    BY <1>0, <1>3, <1>6 DEF IntentMeaning
  <1>9. \A n \in Message \ {m} : Intent(n)' = Intent(n)
    BY <1>4, <1>6, <1>7 DEF Intent, Reserved
  <1>10. IntentMap' = [IntentMap EXCEPT ![m] = "handed"]
    BY <1>8, <1>9 DEF IntentMap
  <1>11. Once!Hand(m)
    BY <1>3, <1>4, <1>8, <1>10 DEF IntentMap, Once!Hand
  <1>12. QED
    BY <1>3, <1>11 DEF Once!Next

\* Whatever else happens stores no new message and starts no command; a reservation
\* can only be forgotten.
LEMMA OthersKeep ==
    ASSUME Inv, [Next]_vars,
           \A r \in Request : ~StartCommand(r) /\ \A m \in Message : ~ReserveInjection(r, m)
    PROVE  /\ UNCHANGED <<submitted, bound>>
           /\ \A m \in Message : /\ messages'[m] = "free" <=> messages[m] = "free"
                                 /\ Reserved(m)' => Reserved(m)
  <1> DEFINE Goal == /\ UNCHANGED <<submitted, bound>>
                     /\ \A m \in Message : /\ messages'[m] = "free" <=> messages[m] = "free"
                                           /\ Reserved(m)' => Reserved(m)
  <1>1. requests \in [Request -> Service]
    BY DEF Inv, TypeOK
  <1>2. ASSUME NEW m \in Message, NEW state \in Outcome, FinishInjection(m, state)
        PROVE  \A n \in Message : messages'[n] = "free" <=> messages[n] = "free"
    <2> DEFINE settled == IF lab_injections[m] \in Unsettled THEN state ELSE lab_injections[m]
    <2>1. CASE lab_injections[m] = "none"
      BY <1>2, <2>1 DEF FinishInjection
    <2>2. CASE lab_injections[m] # "none"
      <3>1. messages[m] = lab_injections[m] /\ messages[m] \in InjectionState
        BY <2>2 DEF Inv, RowsAgree
      <3>2. settled # "free" /\ messages[m] # "free"
        BY <3>1 DEF InjectionState, Outcome
      <3>3. messages' = [messages EXCEPT ![m] = settled]
        BY <1>2, <2>2 DEF FinishInjection
      <3> HIDE DEF settled
      <3>4. QED
        BY <3>2, <3>3 DEF Inv, TypeOK
    <2>3. QED
      BY <2>1, <2>2
  <1>3. ASSUME NEW r \in Request, NEW q \in Service, requests' = [requests EXCEPT ![r] = q], q.pc # "send"
        PROVE  \A m \in Message : Reserved(m)' => Reserved(m)
    BY <1>1, <1>3 DEF Reserved
  <1>4. ASSUME NEW r \in Request, Inject(r)
        PROVE  Goal
    <2>1. CASE \E k \in Key \cup {NoKey} : Lookup(r, k)
      <3>1. PICK k \in Key \cup {NoKey} : Lookup(r, k)
        BY <2>1
      <3> DEFINE q == [Idle EXCEPT !.pc = "check", !.key = k]
      <3>2. q \in Service /\ q.pc = "check" /\ requests' = [requests EXCEPT ![r] = q]
        BY <3>1 DEF Idle, Service, Outcome, Lookup
      <3> HIDE DEF q
      <3>3. QED
        BY <1>3, <3>1, <3>2 DEF Lookup, tables
    <2>2. CASE Refuse(r) \/ LoseRace(r) \/ FailToFinish(r)
      <3>1. requests' = [requests EXCEPT ![r] = Idle] /\ Idle.pc # "send"
        BY <2>2 DEF Refuse, LoseRace, FailToFinish, Idle
      <3>2. QED
        BY <1>3, <2>2, <3>1, IdleType DEF Refuse, LoseRace, FailToFinish, tables
    <2>3. CASE Finish(r)
      <3>1. requests' = [requests EXCEPT ![r] = Idle] /\ Idle.pc # "send"
        BY <2>3 DEF Finish, Idle
      <3>2. requests[r].message \in Message /\ requests[r].state \in Outcome
        BY <1>1, <2>3 DEF Finish, Inv, HoldsMessage, Service
      <3>3. QED
        BY <1>2, <1>3, <2>3, <3>1, <3>2, IdleType DEF Finish
    <2>4. CASE CannotStart(r) \/ Conclude(r)
      <3>1. requests'[r].pc = "finish" /\ \A s \in Request \ {r} : requests'[s] = requests[s]
        BY <1>1, <2>4 DEF CannotStart, Conclude, Service
      <3>2. \A m \in Message : Reserved(m)' => Reserved(m)
        BY <3>1 DEF Reserved
      <3>3. QED
        BY <2>4, <3>2 DEF CannotStart, Conclude, tables
    <2>5. QED
      BY <1>4, <2>1, <2>2, <2>3, <2>4 DEF Inject
  <1>5. CASE Recover
    <2>1. ASSUME NEW m \in Message, RecoverOne(m) PROVE Goal
      <3>1. "unknown" \in Outcome
        BY DEF Outcome
      <3>2. QED
        BY <1>2, <2>1, <3>1 DEF RecoverOne, Reserved
    <2>2. QED
      BY <1>5, <2>1 DEF Recover, RecoverScan, RecoverFails, tables, Reserved
  <1>6. ASSUME NEW S \in SUBSET Message, DeleteMessages(S)
        PROVE  Goal
    BY <1>6 DEF DeleteMessages, InjectionState, Outcome, Reserved
  <1>7. CASE Restart
    BY <1>7 DEF Restart, Idle, Reserved, tables
  <1>8. ASSUME NEW m \in Message, LeaseEnds(m) \/ Console(m)
        PROVE  Goal
    BY <1>8 DEF LeaseEnds, Console, Reserved, tables
  <1>9. CASE UNCHANGED vars
    BY <1>9 DEF vars, tables, Reserved
  <1>10. QED
    BY <1>4, <1>5, <1>6, <1>7, <1>8, <1>9 DEF Next

\* Every such step gives up the reservations it forgets.
LEMMA OthersClose ==
    ASSUME Inv, Inv', [Next]_vars,
           \A r \in Request : ~StartCommand(r) /\ \A m \in Message : ~ReserveInjection(r, m)
    PROVE  Once!Next
  <1> DEFINE S == {m \in Message : Intent(m) = "open" /\ Intent(m)' # "open"}
  <1>1. /\ UNCHANGED <<submitted, bound>>
        /\ \A m \in Message : /\ messages'[m] = "free" <=> messages[m] = "free"
                              /\ Reserved(m)' => Reserved(m)
    BY OthersKeep
  <1>2. IntentMeaning /\ IntentMeaning'
    BY IntentCases, PTL
  <1>4. \A m \in Message : IF m \in S THEN Intent(m)' = "closed" ELSE Intent(m)' = Intent(m)
    BY <1>1, <1>2 DEF IntentMeaning
  <1>5. Once!Close(S)
    BY <1>1, <1>4 DEF Once!Close
  <1>6. QED
    BY <1>5 DEF Once!Next

\* The lab implements SendOnce, the promise the relay makes to its callers: whatever
\* dies, races or is deleted, no SMS is injected twice and no key moves on to another
\* injection (docs/DEVICE-LAB.md, "Results and history").
THEOREM LabRefinement == Spec => RefinesSendOnce
  <1>1. Init => Once!Init
    <2> SUFFICES ASSUME Init PROVE Once!Init
      OBVIOUS
    <2>1. \A m \in Message : Intent(m) = "new"
      BY DEF Init, Intent
    <2>2. QED
      BY <2>1 DEF Init, Once!Init
  <1>2. Inv /\ [Next]_vars => Once!Next
    <2> SUFFICES ASSUME Inv, [Next]_vars PROVE Once!Next
      OBVIOUS
    <2>1. Inv'
      BY StepInv
    <2>2. QED
      BY <2>1, ReserveOpens, StartHands, OthersClose
  <1>3. QED
    BY <1>1, <1>2, Invariance, PTL DEF Spec, RefinesSendOnce, Once!Spec
=============================================================================
