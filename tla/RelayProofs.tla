----------------------------- MODULE RelayProofs -----------------------------
(***************************************************************************)
(* Proofs about Relay, for every number of messages, keys and gateways and *)
(* every value of the limits and times.                                    *)
(***************************************************************************)
EXTENDS Relay, FiniteSetTheorems, TLAPS

-----------------------------------------------------------------------------
(* Type correctness                                                        *)

\* The store transactions preserve the types of the tables.  Settle is the
\* common part of CompleteRelay and RelayReceipt.
LEMMA JobsType ==
    ASSUME StoreTypeOK, NEW m \in Message, NEW e \in Job,
           relay_jobs' = [relay_jobs EXCEPT ![m] = e]
    PROVE  relay_jobs' \in [Message -> Job]
  BY DEF StoreTypeOK

LEMMA SettleType ==
    ASSUME StoreTypeOK, NEW m \in Message, NEW s \in JobState, NEW p \in Nat,
           Settle(m, s, p), clock' = clock
    PROVE  StoreTypeOK'
  <1>1. [relay_jobs[m] EXCEPT !.state = s, !.provider_id = p, !.lease_until = 0] \in Job
    <2>1. relay_jobs[m] \in Job /\ 0 \in Nat
      BY DEF StoreTypeOK
    <2>2. QED
      BY <2>1, Zenon DEF Job
  <1>2. relay_jobs' \in [Message -> Job]
    <2>1. relay_jobs' = [relay_jobs EXCEPT ![m] = [relay_jobs[m] EXCEPT
                            !.state = s, !.provider_id = p, !.lease_until = 0]]
      BY DEF Settle
    <2>2. QED
      BY <1>1, <2>1, JobsType
  <1>3. messages' \in [Message -> JobState \cup {"free", "gone"}]
    BY DEF StoreTypeOK, Settle
  <1>4. QED
    BY <1>2, <1>3 DEF StoreTypeOK, Settle

LEMMA EnqueueType ==
    ASSUME StoreTypeOK, NEW m \in Message, NEW k \in Key \cup {NoKey}, NEW d \in Driver,
           NEW c \in Content, NEW born \in Nat, EnqueueRelay(m, k, d, c, born), clock' = clock
    PROVE  StoreTypeOK'
  <1>1. [NoJob EXCEPT !.driver = d, !.state = "queued",
                      !.created_at = clock, !.expires_at = born + TTL] \in Job
    <2>1. /\ NoJob \in Job /\ "queued" \in JobState
          /\ clock \in Nat /\ born + TTL \in Nat
      BY TimesAssumption DEF StoreTypeOK, NoJob, Job, JobState
    <2>2. QED
      BY <2>1, Zenon DEF Job
  <1>2. relay_jobs' \in [Message -> Job]
    BY <1>1 DEF StoreTypeOK, EnqueueRelay
  <1>3. messages' \in [Message -> JobState \cup {"free", "gone"}]
    BY DEF StoreTypeOK, EnqueueRelay, JobState
  <1>4. relay_keys' \in [Key -> [fingerprint: Fingerprint \cup {None},
                                 message: Message \cup {None}]]
    BY DEF StoreTypeOK, EnqueueRelay, Fingerprint
  <1>5. relay_admissions' \in SUBSET Admission
    BY DEF StoreTypeOK, EnqueueRelay, InWindow, Admission
  <1>6. answered' \in [Key -> SUBSET Message]
    BY DEF StoreTypeOK, EnqueueRelay
  <1>7. QED
    BY <1>2, <1>3, <1>4, <1>5, <1>6 DEF StoreTypeOK, EnqueueRelay

LEMMA ReplayType ==
    ASSUME StoreTypeOK, NEW k \in Key, NEW d, NEW c, ReplayRelay(k, d, c), clock' = clock
    PROVE  StoreTypeOK'
  BY DEF StoreTypeOK, ReplayRelay, tables

LEMMA ClaimType ==
    ASSUME StoreTypeOK, NEW m \in Message, NEW d, NEW o \in Owner, NEW now \in Nat,
           ClaimRelay(m, d, o, now), clock' = clock
    PROVE  /\ StoreTypeOK'
           /\ relay_jobs'[m].token \in Nat
  <1>1. relay_jobs[m] \in Job
    BY DEF StoreTypeOK
  <1>2. [relay_jobs[m] EXCEPT !.state = "dispatching", !.owner = o,
              !.token = relay_jobs[m].token + 1, !.lease_until = now + Lease] \in Job
    <2>1. /\ relay_jobs[m].token + 1 \in Nat
          /\ now + Lease \in Nat /\ "dispatching" \in JobState
      BY <1>1, TimesAssumption DEF Job, JobState
    <2>2. QED
      BY <1>1, <2>1, Zenon DEF Job
  <1>3. relay_jobs' \in [Message -> Job]
    BY <1>2 DEF StoreTypeOK, ClaimRelay
  <1>4. relay_jobs'[m].token = relay_jobs[m].token + 1
    BY <1>1 DEF StoreTypeOK, ClaimRelay, Job
  <1>5. [message |-> m, token |-> relay_jobs[m].token + 1, at |-> now] \in Claim
    BY <1>1 DEF Job, Claim
  <1>6. claims' \in SUBSET Claim /\ relay_dispatches' \in SUBSET Claim
    BY <1>5 DEF StoreTypeOK, ClaimRelay, InWindow
  <1>7. messages' \in [Message -> JobState \cup {"free", "gone"}]
    BY DEF StoreTypeOK, ClaimRelay, JobState
  <1>8. QED
    BY <1>1, <1>3, <1>4, <1>6, <1>7 DEF StoreTypeOK, ClaimRelay, Job

LEMMA CompleteType ==
    ASSUME StoreTypeOK, NEW m \in Message, NEW t, NEW o, NEW r \in Result,
           CompleteRelay(m, t, o, r), clock' = clock
    PROVE  StoreTypeOK'
  <1>1. CASE CanComplete(m, t, o, r)
    <2>1. relay_jobs[m] \in Job
      BY DEF StoreTypeOK
    <2>2. Absorbed(relay_jobs[m].state, r.state) \in JobState
      BY <2>1 DEF Absorbed, Result, JobState, Job
    <2>3. (IF r.provider_id = 0 THEN relay_jobs[m].provider_id ELSE r.provider_id) \in Nat
      BY <2>1 DEF Job, Result
    <2>4. QED
      BY <1>1, <2>2, <2>3, SettleType DEF CompleteRelay
  <1>2. CASE ~CanComplete(m, t, o, r)
    BY <1>2 DEF CompleteRelay, StoreTypeOK, storeVars, tables
  <1>3. QED
    BY <1>1, <1>2

LEMMA ReceiptType ==
    ASSUME StoreTypeOK, NEW m \in Message, NEW r \in Receipt,
           RelayReceipt(m, r), clock' = clock,
           messages[m] = relay_jobs[m].state
    PROVE  StoreTypeOK'
  <1>1. relay_jobs[m] \in Job /\ messages[m] \in JobState
    BY DEF StoreTypeOK, RelayReceipt, Present
  <1>2. (IF Rank[relay_jobs[m].state] >= Rank[r.state] THEN relay_jobs[m].state
         ELSE r.state) \in JobState
    BY <1>1 DEF Receipt, ReceiptState, JobState
  <1>3. QED
    BY <1>2, SettleType DEF RelayReceipt, Receipt

\* Times read recently, and deletions and scans.
LEMMA RecentType ==
    ASSUME StoreTypeOK, NEW t \in Recent
    PROVE  t \in Nat /\ t <= clock /\ clock - t <= Skew
  BY DEF Recent, StoreTypeOK

LEMMA ExpireType ==
    ASSUME StoreTypeOK, InStep, NEW now \in Nat, ExpireRelays(now), clock' = clock
    PROVE  StoreTypeOK'
  <1>1. ASSUME NEW m \in Due(now)
        PROVE  Expired(relay_jobs[m], now) \in {"unknown", "expired"}
    BY DEF Due, Expired
  <1>2. ASSUME NEW m \in Message, NEW s \in {"unknown", "expired"}
        PROVE  [relay_jobs[m] EXCEPT !.state = s, !.lease_until = 0] \in Job
    <2>1. relay_jobs[m] \in Job /\ 0 \in Nat /\ s \in JobState
      BY <1>2 DEF StoreTypeOK, JobState
    <2>2. QED
      BY <2>1, Zenon DEF Job
  <1>3. relay_jobs' \in [Message -> Job]
    BY <1>1, <1>2 DEF StoreTypeOK, ExpireRelays
  <1>4. messages' \in [Message -> JobState \cup {"free", "gone"}]
    BY <1>1 DEF StoreTypeOK, ExpireRelays, JobState
  <1>5. QED
    BY <1>3, <1>4 DEF StoreTypeOK, ExpireRelays

LEMMA DeleteType ==
    ASSUME StoreTypeOK, NEW S, DeleteMessages(S), clock' = clock
    PROVE  StoreTypeOK'
  <1>1. NoJob \in Job
    BY DEF NoJob, Job
  <1>2. relay_jobs' \in [Message -> Job]
    BY <1>1 DEF StoreTypeOK, DeleteMessages
  <1>3. messages' \in [Message -> JobState \cup {"free", "gone"}]
    BY DEF StoreTypeOK, DeleteMessages
  <1>4. relay_keys' \in [Key -> [fingerprint: Fingerprint \cup {None},
                                 message: Message \cup {None}]]
    BY DEF StoreTypeOK, DeleteMessages
  <1>5. QED
    BY <1>2, <1>3, <1>4 DEF StoreTypeOK, DeleteMessages

\* What the app writes keeps the shape of its preferences, and of the job in hand.
LEMMA AckedType ==
    ASSUME NEW p \in Phone, NEW r \in GatewayState
    PROVE  /\ Acked(p, r) \in Phone
           /\ Acked(p, r).job = p.job /\ Acked(p, r).token = p.token
           /\ Acked(p, r).submit = p.submit /\ Acked(p, r).awaiting = p.awaiting
           /\ Acked(p, r).phase # "idle" => p.job # None \/ p.phase # "idle"
  <1>1. CASE p.job = None
    BY <1>1 DEF Acked
  <1>2. CASE p.job # None
    <2>1. "ack" \in {"idle", "dispatching", "ack"}
      OBVIOUS
    <2>2. Acked(p, r) = [p EXCEPT !.phase = "ack", !.result = r]
      BY <1>2 DEF Acked
    <2>3. Acked(p, r) \in Phone
      BY <2>1, <2>2, Zenon DEF Phone
    <2>4. QED
      BY <1>2, <2>2, <2>3 DEF Phone
  <1>3. QED
    BY <1>1, <1>2

LEMMA SubmitType ==
    ASSUME NEW p \in Phone, NEW m \in Message \cup {None}
    PROVE  /\ [p EXCEPT !.submit = m] \in Phone
           /\ [p EXCEPT !.submit = m].job = p.job
           /\ [p EXCEPT !.submit = m].phase = p.phase
           /\ [p EXCEPT !.submit = m].submit = m
  BY DEF Phone

LEMMA IdleType == IdlePhone \in Phone /\ IdlePhone.job = None /\ IdlePhone.phase = "idle"
  BY DEF IdlePhone, Phone, GatewayState

LEMMA PhonesType ==
    ASSUME phone \in [Gateway -> Phone], NEW g \in Gateway, NEW e \in Phone,
           phone' = [phone EXCEPT ![g] = e],
           e.phase # "idle" => e.job \in Message,
           \A h \in Gateway : phone[h].phase # "idle" => phone[h].job \in Message
    PROVE  /\ phone' \in [Gateway -> Phone]
           /\ \A h \in Gateway : phone'[h].phase # "idle" => phone'[h].job \in Message
  OBVIOUS

\* The steps of the callers, the server loop and the carrier.
LEMMA ServerTypeStep ==
    ASSUME TypeOK, JobInHand, InStep,
           Callers \/ Loop \/ Carrier \/ Tick \/ (\E d \in Drivers : Restart(d))
    PROVE  TypeOK' /\ JobInHand'
  <1> USE DEF serverVars, carrierVars, phoneVars
  <1>1. ASSUME NEW m \in Message, NEW k \in Key \cup {NoKey}, NEW c \in Content, Queue(m, k, c)
        PROVE  TypeOK' /\ JobInHand'
    <2>1. PICK born \in Recent : EnqueueRelay(m, k, driver, c, born)
      BY <1>1 DEF Queue
    <2>2. StoreTypeOK'
      BY <1>1, <2>1, RecentType, EnqueueType DEF Queue, TypeOK
    <2>3. QED
      BY <1>1, <2>2 DEF Queue, TypeOK, JobInHand
  <1>2. ASSUME NEW k \in Key, NEW c \in Content, Replay(k, c)
        PROVE  TypeOK' /\ JobInHand'
    <2>1. StoreTypeOK'
      BY <1>2, ReplayType DEF Replay, TypeOK
    <2>2. QED
      BY <1>2, <2>1 DEF Replay, TypeOK, JobInHand
  <1>3. ASSUME NEW m \in Message, Delete(m)
        PROVE  TypeOK' /\ JobInHand'
    <2>1. StoreTypeOK'
      BY <1>3, DeleteType DEF Delete, TypeOK
    <2>2. QED
      BY <1>3, <2>1 DEF Delete, TypeOK, JobInHand
  <1>4. CASE Purge
    <2>1. StoreTypeOK'
      BY <1>4, DeleteType DEF Purge, TypeOK
    <2>2. QED
      BY <1>4, <2>1 DEF Purge, TypeOK, JobInHand
  <1>5. CASE LoopExpire
    <2>1. PICK now \in Recent : ExpireRelays(now)
      BY <1>5 DEF LoopExpire
    <2>2. StoreTypeOK'
      BY <1>5, <2>1, RecentType, ExpireType DEF LoopExpire, TypeOK
    <2>3. worker' \in Worker /\ (worker'.pc \in {"send", "complete"} => worker'.job \in Message)
      BY <1>5 DEF LoopExpire, TypeOK, Worker
    <2>4. QED
      BY <1>5, <2>2, <2>3 DEF LoopExpire, TypeOK, JobInHand
  <1>6. CASE LoopClaim
    <2>1. PICK now \in Recent, m \in Message :
            /\ ClaimRelay(m, "twilio", "server", now)
            /\ worker' = [worker EXCEPT !.pc = "send", !.job = m, !.token = relay_jobs'[m].token]
      BY <1>6 DEF LoopClaim
    <2>2. StoreTypeOK' /\ relay_jobs'[m].token \in Nat
      BY <1>6, <2>1, RecentType, ClaimType DEF LoopClaim, TypeOK, Owner
    <2>3. worker' \in Worker /\ worker'.job \in Message
      BY <2>1, <2>2 DEF TypeOK, Worker
    <2>4. QED
      BY <1>6, <2>2, <2>3 DEF LoopClaim, TypeOK, JobInHand
  <1>7. LoopStart \in Worker /\ LoopStart.pc = "expire"
    BY DEF LoopStart, NoResult, Worker, Result
  <1>8. CASE LoopIdle
    BY <1>7, <1>8 DEF LoopIdle, TypeOK, StoreTypeOK, storeVars, tables, JobInHand
  <1>9. CASE LoopSend
    <2> DEFINE m == worker.job
               id == submitted[worker.job] + 1
    <2>1. m \in Message /\ worker \in Worker /\ id \in Nat
      BY <1>9 DEF LoopSend, JobInHand, TypeOK
    <2>2. PICK outcome \in {"accepted", "rejected", "none"} :
            /\ \E result \in Answers(outcome, id) :
                worker' = [worker EXCEPT !.pc = "complete", !.result = result]
            /\ submitted' = [submitted EXCEPT ![m] = id]
            /\ fate' = [fate EXCEPT ![m] = outcome]
            /\ receipts' = IF outcome # "accepted" THEN receipts
                           ELSE [receipts EXCEPT ![m] =
                                    @ \cup {[provider_id |-> id, state |-> "accepted"]}]
      BY <1>9 DEF LoopSend
    <2>3. PICK result \in Answers(outcome, id) :
            worker' = [worker EXCEPT !.pc = "complete", !.result = result]
      BY <2>2
    <2>4. result \in Result
      BY <2>1, <2>3 DEF Answers, NoResult, Result
    <2>5. worker' \in Worker /\ worker'.job \in Message
      BY <2>1, <2>3, <2>4 DEF Worker
    <2>6. /\ submitted' \in [Message -> Nat]
          /\ fate' \in [Message -> Fate]
      BY <2>1, <2>2 DEF TypeOK, Fate
    <2>7. [provider_id |-> id, state |-> "accepted"] \in Receipt
      BY <2>1 DEF Receipt, ReceiptState
    <2>8. receipts' \in [Message -> SUBSET Receipt]
      BY <2>1, <2>2, <2>7 DEF TypeOK
    <2>9. QED
      BY <1>9, <2>5, <2>6, <2>8
         DEF LoopSend, TypeOK, StoreTypeOK, storeVars, tables, JobInHand
  <1>10. CASE LoopComplete
    <2>1. worker.job \in Message /\ worker.result \in Result
      BY <1>10 DEF LoopComplete, JobInHand, TypeOK, Worker
    <2>2. StoreTypeOK'
      BY <1>10, <2>1, CompleteType DEF LoopComplete, TypeOK
    <2>3. QED
      BY <1>7, <1>10, <2>2 DEF LoopComplete, TypeOK, JobInHand
  <1>11. ASSUME NEW d \in Drivers, Restart(d)
         PROVE  TypeOK' /\ JobInHand'
    BY <1>7, <1>11 DEF Restart, TypeOK, StoreTypeOK, storeVars, tables, JobInHand
  <1>12. ASSUME NEW m \in Message, CarrierAdvances(m)
         PROVE  TypeOK' /\ JobInHand'
    <2>1. PICK state \in ReceiptState, r \in receipts[m] :
            /\ receipts' = [receipts EXCEPT ![m] =
                                @ \cup {[provider_id |-> r.provider_id, state |-> state]}]
            /\ fate' = [fate EXCEPT ![m] = state]
      BY <1>12 DEF CarrierAdvances
    <2>2. [provider_id |-> r.provider_id, state |-> state] \in Receipt
      BY <2>1 DEF TypeOK, Receipt
    <2>3. receipts' \in [Message -> SUBSET Receipt]
      BY <2>1, <2>2 DEF TypeOK
    <2>4. fate' \in [Message -> Fate]
      BY <2>1 DEF TypeOK, Fate, ReceiptState
    <2>5. QED
      BY <1>12, <2>3, <2>4 DEF CarrierAdvances, TypeOK, StoreTypeOK, storeVars, tables, JobInHand
  <1>13. ASSUME NEW m \in Message, TwilioReceipt(m)
         PROVE  TypeOK' /\ JobInHand'
    <2>1. PICK r \in receipts[m] : RelayReceipt(m, r)
      BY <1>13 DEF TwilioReceipt
    <2>2. r \in Receipt /\ messages[m] = relay_jobs[m].state
      BY <2>1 DEF TypeOK, InStep, RelayReceipt
    <2>3. StoreTypeOK'
      BY <1>13, <2>1, <2>2, ReceiptType DEF TwilioReceipt, TypeOK
    <2>4. QED
      BY <1>13, <2>3 DEF TwilioReceipt, TypeOK, JobInHand
  <1>14. CASE Tick
    BY <1>14 DEF Tick, TypeOK, StoreTypeOK, storeVars, tables, JobInHand
  <1>15. QED
    BY <1>1, <1>2, <1>3, <1>4, <1>5, <1>6, <1>8, <1>9, <1>10, <1>11, <1>12, <1>13, <1>14
       DEF Callers, Loop, Carrier

\* The steps of the gateways and their requests.
LEMMA GatewayTypeStep ==
    ASSUME TypeOK, JobInHand,
           (\E g \in Gateway : App(g)) \/ (\E r \in posts : ServeResult(r))
    PROVE  TypeOK' /\ JobInHand'
  <1> USE DEF serverVars, carrierVars, phoneVars
  <1> DEFINE PhonesOK == /\ phone \in [Gateway -> Phone]
                         /\ \A h \in Gateway : phone[h].phase # "idle" => phone[h].job \in Message
  <1>0. PhonesOK
    BY DEF TypeOK, JobInHand
  <1>1. ASSUME NEW g \in Gateway, Enrol(g) \/ Revoke(g) \/ PhoneCalls(g) \/ ServeNothing(g)
        PROVE  TypeOK' /\ JobInHand'
    <2>1. gateways' \in [Gateway -> {"none", "active", "revoked"}]
      BY <1>1 DEF Enrol, Revoke, PhoneCalls, ServeNothing, TypeOK
    <2>2. calls' \in [Gateway -> Nat]
      BY <1>1 DEF Enrol, Revoke, PhoneCalls, ServeNothing, TypeOK
    <2>3. QED
      BY <1>1, <2>1, <2>2 DEF Enrol, Revoke, PhoneCalls, ServeNothing,
            TypeOK, StoreTypeOK, storeVars, tables, JobInHand
  <1>2. ASSUME NEW g \in Gateway, ServeClaim(g)
        PROVE  TypeOK' /\ JobInHand'
    <2>1. PICK now \in Recent, m \in Message :
            /\ ClaimRelay(m, "android", g, now)
            /\ \/ UNCHANGED phone
               \/ phone' = [phone EXCEPT
                    ![g] = [IdlePhone EXCEPT !.job = m, !.token = relay_jobs'[m].token,
                                             !.phase = "dispatching", !.submit = m]]
      BY <1>2 DEF ServeClaim
    <2>2. StoreTypeOK' /\ relay_jobs'[m].token \in Nat
      BY <1>2, <2>1, RecentType, ClaimType DEF ServeClaim, TypeOK, Owner
    <2> DEFINE e == [IdlePhone EXCEPT !.job = m, !.token = relay_jobs'[m].token,
                                      !.phase = "dispatching", !.submit = m]
    <2>3. e \in Phone /\ e.job = m
      BY <2>2 DEF IdlePhone, Phone, GatewayState
    <2>4. PhonesOK'
      <3>1. CASE UNCHANGED phone
        BY <1>0, <3>1
      <3>2. CASE phone' = [phone EXCEPT ![g] = e]
        <4> HIDE DEF e
        <4>1. QED
          BY <1>0, <2>3, <3>2, PhonesType
      <3>3. QED
        BY <2>1, <3>1, <3>2
    <2>5. calls' \in [Gateway -> Nat]
      BY <1>2 DEF ServeClaim, TypeOK
    <2>6. QED
      BY <1>2, <2>2, <2>4, <2>5 DEF ServeClaim, TypeOK, JobInHand
  <1>3. ASSUME NEW g \in Gateway, PhoneRefuses(g)
        PROVE  TypeOK' /\ JobInHand'
    <2> DEFINE e == [Acked(phone[g], "failed") EXCEPT !.submit = None]
    <2>1. e \in Phone /\ (e.phase # "idle" => e.job \in Message)
      BY <1>0, AckedType, SubmitType DEF GatewayState, Phone
    <2>2. phone' = [phone EXCEPT ![g] = e]
      BY <1>3 DEF PhoneRefuses
    <2>3. PhonesOK'
      <3> HIDE DEF e
      <3>1. QED
        BY <1>0, <2>1, <2>2, PhonesType
    <2>4. QED
      BY <1>3, <2>3 DEF PhoneRefuses, TypeOK, StoreTypeOK, storeVars, tables, JobInHand
  <1>4. ASSUME NEW g \in Gateway, PhoneSubmits(g)
        PROVE  TypeOK' /\ JobInHand'
    <2> DEFINE m == phone[g].submit
    <2>1. m \in Message
      BY <1>0, <1>4 DEF PhoneSubmits, Phone
    <2>2. PICK reached \in BOOLEAN, threw \in BOOLEAN :
            /\ submitted' = [submitted EXCEPT ![m] = @ + 1]
            /\ IF reached
               THEN /\ fate' = [fate EXCEPT ![m] = "accepted"]
                    /\ radio' = [radio EXCEPT ![g] = @ \cup {m}]
               ELSE UNCHANGED <<fate, radio>>
            /\ phone' = [phone EXCEPT
                    ![g] = [IF threw THEN Acked(@, "unknown") ELSE @ EXCEPT !.submit = None]]
      BY <1>4 DEF PhoneSubmits
    <2> DEFINE q == IF threw THEN Acked(phone[g], "unknown") ELSE phone[g]
               e == [q EXCEPT !.submit = None]
    <2>3. q \in Phone /\ (q.phase # "idle" => q.job \in Message)
      BY <1>0, AckedType DEF GatewayState, Phone
    <2>4. e \in Phone /\ (e.phase # "idle" => e.job \in Message)
      <3> HIDE DEF q
      <3>1. QED
        BY <2>3, SubmitType
    <2>5. phone' = [phone EXCEPT ![g] = e]
      BY <2>2
    <2>6. PhonesOK'
      <3> HIDE DEF e
      <3>1. QED
        BY <1>0, <2>4, <2>5, PhonesType
    <2>7. /\ submitted' \in [Message -> Nat]
          /\ fate' \in [Message -> Fate]
          /\ radio' \in [Gateway -> SUBSET Message]
      BY <2>1, <2>2 DEF TypeOK, Fate
    <2>8. QED
      BY <1>4, <2>6, <2>7 DEF PhoneSubmits, TypeOK, StoreTypeOK, storeVars, tables, JobInHand
  <1>5. ASSUME NEW g \in Gateway, PhoneTimesOut(g)
        PROVE  TypeOK' /\ JobInHand'
    <2> DEFINE e == Acked(phone[g], "unknown")
    <2>1. e \in Phone /\ (e.phase # "idle" => e.job \in Message)
      BY <1>0, AckedType DEF GatewayState, Phone
    <2>2. phone' = [phone EXCEPT ![g] = e]
      BY <1>5 DEF PhoneTimesOut
    <2>3. PhonesOK'
      <3> HIDE DEF e
      <3>1. QED
        BY <1>0, <2>1, <2>2, PhonesType
    <2>4. QED
      BY <1>5, <2>3 DEF PhoneTimesOut, TypeOK, StoreTypeOK, storeVars, tables, JobInHand
  <1>6. ASSUME NEW g \in Gateway, PhoneRestarts(g)
        PROVE  TypeOK' /\ JobInHand'
    <2> DEFINE p == IF phone[g].phase = "dispatching" THEN Acked(phone[g], "unknown")
                    ELSE phone[g]
    <2>1. PICK killed \in BOOLEAN : phone' = [phone EXCEPT
            ![g] = IF killed THEN [p EXCEPT !.submit = None, !.awaiting = "nothing"] ELSE p]
      BY <1>6 DEF PhoneRestarts
    <2>2. p \in Phone /\ (p.phase # "idle" => p.job \in Message)
      BY <1>0, AckedType DEF GatewayState, Phone
    <2> DEFINE e == IF killed THEN [p EXCEPT !.submit = None, !.awaiting = "nothing"] ELSE p
    <2>3. e \in Phone /\ (e.phase # "idle" => e.job \in Message)
      <3> HIDE DEF p
      <3>1. [p EXCEPT !.submit = None, !.awaiting = "nothing"] \in Phone
        BY <2>2, Zenon DEF Phone
      <3>2. QED
        BY <2>2, <3>1 DEF Phone
    <2>4. phone' = [phone EXCEPT ![g] = e]
      BY <2>1
    <2>5. PhonesOK'
      <3> HIDE DEF e
      <3>1. QED
        BY <1>0, <2>3, <2>4, PhonesType
    <2>6. QED
      BY <1>6, <2>5 DEF PhoneRestarts, TypeOK, StoreTypeOK, storeVars, tables, JobInHand
  <1>7. ASSUME NEW g \in Gateway, PhoneResets(g)
        PROVE  TypeOK' /\ JobInHand'
    <2>1. PICK submit \in {phone[g].submit, None} :
            phone' = [phone EXCEPT ![g] = [IdlePhone EXCEPT !.submit = submit]]
      BY <1>7 DEF PhoneResets
    <2> DEFINE e == [IdlePhone EXCEPT !.submit = submit]
    <2>2. e \in Phone /\ e.phase = "idle"
      BY <1>0, IdleType, SubmitType DEF Phone
    <2>3. PhonesOK'
      <3> HIDE DEF e
      <3>1. phone' = [phone EXCEPT ![g] = e]
        BY <2>1 DEF e
      <3>2. QED
        BY <1>0, <2>2, <3>1, PhonesType
    <2>4. QED
      BY <1>7, <2>3 DEF PhoneResets, TypeOK, StoreTypeOK, storeVars, tables, JobInHand
  <1>8. ASSUME NEW g \in Gateway, PhonePosts(g)
        PROVE  TypeOK' /\ JobInHand'
    <2>1. phone[g] \in Phone /\ phone[g].job \in Message
      BY <1>0, <1>8 DEF PhonePosts
    <2>2. [gateway |-> g, message |-> phone[g].job, token |-> phone[g].token,
           state |-> phone[g].result] \in Post
      BY <2>1 DEF Post, Phone
    <2>3. posts' \in SUBSET Post
      BY <1>8, <2>2 DEF PhonePosts, TypeOK
    <2> DEFINE e == [phone[g] EXCEPT !.awaiting = phone[g].result]
    <2>4. e \in Phone /\ e.job = phone[g].job
      BY <2>1 DEF Phone
    <2>5. PhonesOK'
      <3>1. phone' = [phone EXCEPT ![g] = e]
        BY <1>8 DEF PhonePosts
      <3> HIDE DEF e
      <3>2. QED
        BY <1>0, <2>1, <2>4, <3>1, PhonesType
    <2>6. QED
      BY <1>8, <2>3, <2>5 DEF PhonePosts, TypeOK, StoreTypeOK, storeVars, tables, JobInHand
  <1>9. ASSUME NEW g \in Gateway, NEW m \in Message, RadioReports(g, m)
        PROVE  TypeOK' /\ JobInHand'
    <2>1. PICK outcome \in {"sent", "failed", "mixed"} :
            /\ fate' = [fate EXCEPT ![m] = outcome]
            /\ \/ UNCHANGED phone
               \/ phone' = [phone EXCEPT
                    ![g] = Acked(@, IF outcome = "mixed" THEN "unknown" ELSE outcome)]
      BY <1>9 DEF RadioReports
    <2> DEFINE result == IF outcome = "mixed" THEN "unknown" ELSE outcome
               e == Acked(phone[g], result)
    <2>2. result \in GatewayState
      BY DEF GatewayState
    <2>3. e \in Phone /\ (e.phase # "idle" => e.job \in Message)
      <3> HIDE DEF result
      <3>1. QED
        BY <1>0, <2>2, AckedType DEF Phone
    <2>4. PhonesOK'
      <3>1. CASE UNCHANGED phone
        BY <1>0, <3>1
      <3>2. CASE phone' = [phone EXCEPT ![g] = e]
        <4> HIDE DEF e
        <4>1. QED
          BY <1>0, <2>3, <3>2, PhonesType
      <3>3. QED
        BY <2>1, <3>1, <3>2
    <2>5. fate' \in [Message -> Fate] /\ radio' \in [Gateway -> SUBSET Message]
      BY <1>9, <2>1 DEF RadioReports, TypeOK, Fate
    <2>6. QED
      BY <1>9, <2>4, <2>5 DEF RadioReports, TypeOK, StoreTypeOK, storeVars, tables, JobInHand
  <1>10. ASSUME NEW r \in posts, ServeResult(r)
         PROVE  TypeOK' /\ JobInHand'
    <2> DEFINE result == [state |-> r.state, provider_id |-> 0]
    <2>1. r \in Post /\ result \in Result
      BY DEF TypeOK, Post, GatewayState, Result
    <2>2. StoreTypeOK'
      <3>1. CompleteRelay(r.message, r.token, r.gateway, result) /\ clock' = clock
        BY <1>10 DEF ServeResult
      <3>2. r.message \in Message
        BY <2>1 DEF Post
      <3> HIDE DEF result
      <3>3. QED
        BY <2>1, <3>1, <3>2, CompleteType DEF TypeOK
    <2>3. PhonesOK'
      BY <1>0, <1>10, <2>1, IdleType, PhonesType DEF ServeResult, Post
    <2>4. posts' \in SUBSET Post
      BY <1>10 DEF ServeResult, TypeOK
    <2>5. QED
      BY <1>10, <2>2, <2>3, <2>4 DEF ServeResult, TypeOK, JobInHand
  <1>11. QED
    BY <1>1, <1>2, <1>3, <1>4, <1>5, <1>6, <1>7, <1>8, <1>9, <1>10 DEF App

-----------------------------------------------------------------------------
(* Steps as the store sees them                                            *)

\* Every step runs at most one transaction: EnqueueRelay, another one, or none.
OtherTransaction ==
    \/ UNCHANGED storeVars
    \/ \E k \in Key, d \in Driver, c \in Content : ReplayRelay(k, d, c)
    \/ \E m \in Message, d \in Driver, o \in Owner, now \in Recent : ClaimRelay(m, d, o, now)
    \/ \E m \in Message, t \in Nat, o \in Owner, r \in Result : CompleteRelay(m, t, o, r)
    \/ \E m \in Message : \E r \in receipts[m] : RelayReceipt(m, r)
    \/ \E now \in Recent : ExpireRelays(now)
    \/ \E S \in SUBSET Message : DeleteMessages(S)

StoreStep ==
    \/ OtherTransaction
    \/ \E m \in Message, k \in Key \cup {NoKey}, d \in Driver, c \in Content, born \in Nat :
            EnqueueRelay(m, k, d, c, born)

LEMMA StepsOther ==
    ASSUME TypeOK, JobInHand, [Next]_vars,
           \A m \in Message, k \in Key \cup {NoKey}, c \in Content : ~Queue(m, k, c)
    PROVE  /\ OtherTransaction
           /\ clock' = clock \/ (clock' = clock + 1 /\ UNCHANGED storeVars)
  <1>1. CASE UNCHANGED vars
    BY <1>1 DEF vars, OtherTransaction
  <1>2. CASE Callers
    <2>1. ASSUME NEW k \in Key, NEW c \in Content, Replay(k, c)
          PROVE  OtherTransaction /\ clock' = clock
      BY <2>1 DEF Replay, OtherTransaction
    <2>2. ASSUME NEW m \in Message, Delete(m)
          PROVE  OtherTransaction /\ clock' = clock
      BY <2>2 DEF Delete, OtherTransaction
    <2>3. CASE Purge
      BY <2>3 DEF Purge, OtherTransaction
    <2>4. QED
      BY <1>2, <2>1, <2>2, <2>3 DEF Callers
  <1>3. CASE Loop
    <2>1. CASE LoopExpire
      BY <2>1 DEF LoopExpire, OtherTransaction
    <2>2. CASE LoopClaim
      BY <2>2 DEF LoopClaim, OtherTransaction, Driver, Owner
    <2>3. CASE LoopIdle \/ LoopSend
      BY <2>3 DEF LoopIdle, LoopSend, OtherTransaction
    <2>4. CASE LoopComplete
      BY <2>4 DEF LoopComplete, OtherTransaction, TypeOK, JobInHand, Worker, Owner
    <2>5. QED
      BY <1>3, <2>1, <2>2, <2>3, <2>4 DEF Loop
  <1>4. CASE Carrier
    BY <1>4 DEF Carrier, CarrierAdvances, TwilioReceipt, OtherTransaction
  <1>5. ASSUME NEW g \in Gateway, App(g)
        PROVE  OtherTransaction /\ clock' = clock
    <2>1. CASE ServeClaim(g)
      BY <2>1 DEF ServeClaim, OtherTransaction, Driver, Owner
    <2>2. CASE ~ServeClaim(g)
      BY <1>5, <2>2 DEF App, Enrol, Revoke, PhoneCalls, ServeNothing, PhoneRefuses,
            PhoneSubmits, PhoneTimesOut, PhoneRestarts, PhoneResets, PhonePosts,
            RadioReports, OtherTransaction
    <2>3. QED
      BY <2>1, <2>2
  <1>6. ASSUME NEW r \in posts, ServeResult(r)
        PROVE  OtherTransaction /\ clock' = clock
    <2>1. r \in Post
      BY DEF TypeOK
    <2>2. /\ r.message \in Message /\ r.token \in Nat /\ r.gateway \in Owner
          /\ [state |-> r.state, provider_id |-> 0] \in Result
      BY <2>1 DEF Post, Result, GatewayState, Owner
    <2>3. CompleteRelay(r.message, r.token, r.gateway, [state |-> r.state, provider_id |-> 0])
          /\ clock' = clock
      BY <1>6 DEF ServeResult
    <2>4. QED
      BY <2>2, <2>3, Zenon DEF OtherTransaction
  <1>7. ASSUME NEW d \in Drivers, Restart(d)
        PROVE  OtherTransaction /\ clock' = clock
    BY <1>7 DEF Restart, OtherTransaction
  <1>8. CASE Tick
    BY <1>8 DEF Tick, OtherTransaction
  <1>9. QED
    BY <1>1, <1>2, <1>3, <1>4, <1>5, <1>6, <1>7, <1>8 DEF Next

LEMMA StepsOfStore ==
    ASSUME TypeOK, JobInHand, [Next]_vars
    PROVE  /\ StoreStep
           /\ clock' = clock \/ (clock' = clock + 1 /\ UNCHANGED storeVars)
  <1>1. ASSUME NEW m \in Message, NEW k \in Key \cup {NoKey}, NEW c \in Content, Queue(m, k, c)
        PROVE  StoreStep /\ clock' = clock
    <2>1. PICK born \in Recent : EnqueueRelay(m, k, driver, c, born)
      BY <1>1 DEF Queue
    <2>2. born \in Nat
      BY RecentType DEF TypeOK
    <2>3. QED
      BY <1>1, <2>1, <2>2 DEF Queue, StoreStep
  <1>2. QED
    BY <1>1, StepsOther DEF StoreStep

\* A report is settled as one of the states a job may have left the queue for.
LEMMA CompleteSettles ==
    ASSUME TypeOK, NEW m \in Message, NEW t, NEW o, NEW r \in Result,
           CompleteRelay(m, t, o, r), CanComplete(m, t, o, r)
    PROVE  \E s \in {"accepted", "sent", "delivered", "failed", "unknown"}, p \in Nat :
                Settle(m, s, p) /\ s = Absorbed(relay_jobs[m].state, r.state)
  <1>1. relay_jobs[m] \in Job
    BY DEF TypeOK, StoreTypeOK
  <1>2. Absorbed(relay_jobs[m].state, r.state)
            \in {"accepted", "sent", "delivered", "failed", "unknown"}
    BY DEF Absorbed, Result
  <1>3. (IF r.provider_id = 0 THEN relay_jobs[m].provider_id ELSE r.provider_id) \in Nat
    BY <1>1 DEF Job, Result
  <1>4. QED
    BY <1>2, <1>3 DEF CompleteRelay

LEMMA ReceiptSettles ==
    ASSUME TypeOK, NEW m \in Message, NEW r \in receipts[m], RelayReceipt(m, r)
    PROVE  \E p \in Nat :
                Settle(m, IF Rank[relay_jobs[m].state] >= Rank[r.state] THEN relay_jobs[m].state
                          ELSE r.state, p)
  BY DEF TypeOK, Receipt, RelayReceipt

\* The status of a message and its job row change together.
LEMMA InStepStep ==
    ASSUME TypeOK, InStep, StoreStep
    PROVE  InStep'
  <1> DEFINE Ok == \A m \in Message : IF Present(m) THEN messages[m] = relay_jobs[m].state
                                     ELSE relay_jobs[m] = NoJob
  <1>0. Ok /\ StoreTypeOK
    BY DEF InStep, TypeOK
  <1>1. CASE UNCHANGED storeVars
    BY <1>0, <1>1 DEF InStep, storeVars, tables, Present
  <1>2. ASSUME NEW m \in Message, NEW k \in Key \cup {NoKey}, NEW d \in Driver,
               NEW c \in Content, NEW born \in Nat, EnqueueRelay(m, k, d, c, born)
        PROVE  InStep'
    <2>1. /\ messages' = [messages EXCEPT ![m] = "queued"]
          /\ relay_jobs' = [relay_jobs EXCEPT
                ![m] = [NoJob EXCEPT !.driver = d, !.state = "queued",
                                     !.created_at = clock, !.expires_at = born + TTL]]
      BY <1>2 DEF EnqueueRelay
    <2>2. messages'[m] = "queued" /\ relay_jobs'[m].state = "queued"
      BY <1>0, <2>1 DEF StoreTypeOK, NoJob
    <2>3. \A n \in Message \ {m} : messages'[n] = messages[n] /\ relay_jobs'[n] = relay_jobs[n]
      BY <1>0, <2>1 DEF StoreTypeOK
    <2>4. QED
      BY <1>0, <2>2, <2>3 DEF InStep, Present
  <1>3. ASSUME NEW k \in Key, NEW d \in Driver, NEW c \in Content, ReplayRelay(k, d, c)
        PROVE  InStep'
    BY <1>0, <1>3 DEF ReplayRelay, InStep, tables, Present
  <1>4. ASSUME NEW m \in Message, NEW d \in Driver, NEW o \in Owner, NEW now \in Recent,
               ClaimRelay(m, d, o, now)
        PROVE  InStep'
    <2>1. messages' = [messages EXCEPT ![m] = "dispatching"]
      BY <1>4 DEF ClaimRelay
    <2>2. /\ relay_jobs'[m].state = "dispatching"
          /\ \A n \in Message \ {m} : relay_jobs'[n] = relay_jobs[n]
      BY <1>0, <1>4 DEF ClaimRelay, StoreTypeOK, Job
    <2>3. messages'[m] = "dispatching" /\ \A n \in Message \ {m} : messages'[n] = messages[n]
      BY <1>0, <2>1 DEF StoreTypeOK
    <2>4. QED
      BY <1>0, <2>2, <2>3 DEF InStep, Present
  <1>5. ASSUME NEW m \in Message, NEW s \in JobState, NEW p \in Nat, Settle(m, s, p)
        PROVE  InStep'
    <2>1. messages' = [messages EXCEPT ![m] = s]
      BY <1>5 DEF Settle
    <2>2. /\ relay_jobs'[m].state = s
          /\ \A n \in Message \ {m} : relay_jobs'[n] = relay_jobs[n]
      BY <1>0, <1>5 DEF Settle, StoreTypeOK, Job
    <2>3. messages'[m] = s /\ \A n \in Message \ {m} : messages'[n] = messages[n]
      BY <1>0, <2>1 DEF StoreTypeOK
    <2>4. s \notin {"free", "gone"}
      BY <1>5 DEF JobState
    <2>5. QED
      BY <1>0, <2>2, <2>3, <2>4 DEF InStep, Present
  <1>6. ASSUME NEW m \in Message, NEW t \in Nat, NEW o \in Owner, NEW r \in Result,
               CompleteRelay(m, t, o, r)
        PROVE  InStep'
    <2>1. CASE CanComplete(m, t, o, r)
      BY <1>5, <1>6, <2>1, CompleteSettles DEF JobState
    <2>2. CASE ~CanComplete(m, t, o, r)
      BY <1>1, <1>6, <2>2 DEF CompleteRelay
    <2>3. QED
      BY <2>1, <2>2
  <1>7. ASSUME NEW m \in Message, NEW r \in receipts[m], RelayReceipt(m, r)
        PROVE  InStep'
    <2>1. messages[m] \in JobState /\ messages[m] = relay_jobs[m].state
      BY <1>0, <1>7 DEF RelayReceipt, Present, StoreTypeOK
    <2>2. r.state \in JobState
      BY DEF TypeOK, Receipt, ReceiptState, JobState
    <2>3. QED
      BY <1>5, <1>7, <2>1, <2>2, ReceiptSettles
  <1>8. ASSUME NEW now \in Recent, ExpireRelays(now)
        PROVE  InStep'
    <2>1. \A m \in Due(now) : /\ relay_jobs[m].state \in JobState
                             /\ Expired(relay_jobs[m], now) \in {"unknown", "expired"}
      BY DEF Due, Expired, JobState
    <2>2. \A m \in Due(now) : Present(m)
      BY <1>0, <2>1 DEF Due, NoJob, JobState
    <2>3. \A m \in Due(now) : /\ relay_jobs'[m].state = Expired(relay_jobs[m], now)
                             /\ messages'[m] = Expired(relay_jobs[m], now)
      BY <1>0, <1>8 DEF ExpireRelays, StoreTypeOK, Job, Due
    <2>4. \A m \in Message \ Due(now) : messages'[m] = messages[m] /\ relay_jobs'[m] = relay_jobs[m]
      BY <1>8 DEF ExpireRelays
    <2>5. QED
      BY <1>0, <2>1, <2>2, <2>3, <2>4 DEF InStep, Present
  <1>9. ASSUME NEW S \in SUBSET Message, DeleteMessages(S)
        PROVE  InStep'
    <2>1. \A m \in Message : IF m \in S THEN messages'[m] = "gone" /\ relay_jobs'[m] = NoJob
                             ELSE messages'[m] = messages[m] /\ relay_jobs'[m] = relay_jobs[m]
      BY <1>9 DEF DeleteMessages
    <2>2. QED
      BY <1>0, <2>1 DEF InStep, Present
  <1>10. QED
    BY <1>1, <1>2, <1>3, <1>4, <1>6, <1>7, <1>8, <1>9 DEF StoreStep, OtherTransaction

\* The moves a message's status can make.
Move(old, new) ==
    \/ old = "free" /\ new = "queued"
    \/ old = "queued" /\ new \in {"dispatching", "expired"}
    \/ old = "dispatching" /\ new \in {"unknown", "accepted", "sent", "delivered", "failed"}
    \/ old = "unknown" /\ new \in {"accepted", "sent", "delivered", "failed"}
    \/ old = "accepted" /\ new \in {"sent", "delivered", "failed"}
    \/ old = "sent" /\ new \in {"delivered", "failed"}
    \/ old \in JobState /\ new = "gone"

LEMMA StatusMoves ==
    ASSUME TypeOK, InStep, Unclaimed, Solicited, StoreStep, NEW n \in Message
    PROVE  messages'[n] = messages[n] \/ Move(messages[n], messages'[n])
  <1> DEFINE Goal == messages'[n] = messages[n] \/ Move(messages[n], messages'[n])
  <1>0. /\ messages \in [Message -> JobState \cup {"free", "gone"}]
        /\ relay_jobs \in [Message -> Job]
    BY DEF TypeOK, StoreTypeOK
  <1>1. CASE UNCHANGED storeVars
    BY <1>1 DEF storeVars, tables
  <1>2. ASSUME NEW m \in Message, NEW k \in Key \cup {NoKey}, NEW d \in Driver,
               NEW c \in Content, NEW born \in Nat, EnqueueRelay(m, k, d, c, born)
        PROVE  Goal
    BY <1>0, <1>2 DEF EnqueueRelay, Move
  <1>3. ASSUME NEW k \in Key, NEW d \in Driver, NEW c \in Content, ReplayRelay(k, d, c)
        PROVE  Goal
    BY <1>3 DEF ReplayRelay, tables
  <1>4. ASSUME NEW m \in Message, NEW d \in Driver, NEW o \in Owner, NEW now \in Recent,
               ClaimRelay(m, d, o, now)
        PROVE  Goal
    <2>1. relay_jobs[m].state = "queued"
      BY <1>4 DEF ClaimRelay, Oldest, Claimable
    <2>2. messages[m] = "queued"
      BY <2>1 DEF InStep, NoJob
    <2>3. QED
      BY <1>0, <1>4, <2>2 DEF ClaimRelay, Move
  <1>5. ASSUME NEW m \in Message, NEW t \in Nat, NEW o \in Owner, NEW r \in Result,
               CompleteRelay(m, t, o, r)
        PROVE  Goal
    <2>1. CASE CanComplete(m, t, o, r)
      <3>1. PICK s \in {"accepted", "sent", "delivered", "failed", "unknown"}, p \in Nat :
                Settle(m, s, p) /\ s = Absorbed(relay_jobs[m].state, r.state)
        BY <1>5, <2>1, CompleteSettles
      <3>2. messages[m] = relay_jobs[m].state /\ r.state \in {"accepted", "sent", "failed", "unknown"}
        BY <2>1 DEF CanComplete, InStep, Result
      <3>3. messages[m] \in {"dispatching", "unknown", s}
        BY <2>1, <3>1, <3>2 DEF CanComplete
      <3>4. messages[m] = s \/ Move(messages[m], s)
        BY <3>1, <3>2, <3>3 DEF Move, Absorbed
      <3>5. messages' = [messages EXCEPT ![m] = s]
        BY <3>1 DEF Settle
      <3>6. QED
        BY <1>0, <3>4, <3>5
    <2>2. CASE ~CanComplete(m, t, o, r)
      BY <1>1, <1>5, <2>2 DEF CompleteRelay
    <2>3. QED
      BY <2>1, <2>2
  <1>6. ASSUME NEW m \in Message, NEW r \in receipts[m], RelayReceipt(m, r)
        PROVE  Goal
    <2> DEFINE s == IF Rank[relay_jobs[m].state] >= Rank[r.state] THEN relay_jobs[m].state
                    ELSE r.state
    <2>1. messages' = [messages EXCEPT ![m] = s]
      BY <1>6, ReceiptSettles DEF Settle
    <2>2. messages[m] = relay_jobs[m].state /\ messages[m] \in JobState
      BY <1>0, <1>6 DEF RelayReceipt, InStep, Present
    <2>3. messages[m] \notin {"queued", "expired"}
      BY DEF TypeOK, Solicited, Unclaimed
    <2>4. r.state \in ReceiptState
      BY DEF TypeOK, Receipt
    <2>5. messages[m] = s \/ Move(messages[m], s)
      BY <2>2, <2>3, <2>4 DEF Rank, Move, JobState, ReceiptState
    <2> HIDE DEF s
    <2>6. QED
      BY <1>0, <2>1, <2>5
  <1>7. ASSUME NEW now \in Recent, ExpireRelays(now)
        PROVE  Goal
    <2>1. CASE n \in Due(now)
      <3>1. /\ Expired(relay_jobs[n], now) # relay_jobs[n].state
            /\ messages'[n] = Expired(relay_jobs[n], now)
        BY <1>7, <2>1 DEF ExpireRelays, Due
      <3>2. relay_jobs[n].state \in JobState
        BY <3>1 DEF Expired, JobState
      <3>3. messages[n] = relay_jobs[n].state
        BY <3>2 DEF InStep, NoJob, JobState
      <3>4. QED
        BY <3>1, <3>3 DEF Expired, Move
    <2>2. CASE n \notin Due(now)
      BY <1>7, <2>2 DEF ExpireRelays
    <2>3. QED
      BY <2>1, <2>2
  <1>8. ASSUME NEW S \in SUBSET Message, DeleteMessages(S)
        PROVE  Goal
    BY <1>0, <1>8 DEF DeleteMessages, Present, Move
  <1>9. QED
    BY <1>1, <1>2, <1>3, <1>4, <1>5, <1>6, <1>7, <1>8 DEF StoreStep, OtherTransaction

-----------------------------------------------------------------------------
(* Who may ask a carrier                                                   *)

\* A step after which nobody holds a message that did not hold it before, no
\* carrier was asked, and Twilio has no callbacks for a message it had none for.
Quiet ==
    /\ worker'.pc = "send" => worker.pc = "send" /\ worker'.job = worker.job
    /\ \A g \in Gateway : phone'[g].submit \in {phone[g].submit, None}
    /\ submitted' = submitted
    /\ \A m \in Message : receipts'[m] # {} => receipts[m] # {}

LEMMA QuietUnless ==
    ASSUME TypeOK, JobInHand, [Next]_vars, ~LoopClaim, ~LoopSend,
           \A g \in Gateway : ~ServeClaim(g) /\ ~PhoneSubmits(g)
    PROVE  Quiet
  <1> USE DEF serverVars, carrierVars, phoneVars
  <1>0. phone \in [Gateway -> Phone]
    BY DEF TypeOK
  <1>1. CASE UNCHANGED vars
    BY <1>1 DEF vars, Quiet
  <1>2. CASE Callers \/ Tick \/ (\E d \in Drivers : Restart(d))
    <2>1. CASE Callers
      BY <2>1 DEF Callers, Queue, Replay, Delete, Purge, Quiet
    <2>2. CASE Tick
      BY <2>2 DEF Tick, Quiet
    <2>3. ASSUME NEW d \in Drivers, Restart(d)
          PROVE  Quiet
      BY <2>3 DEF Restart, LoopStart, Quiet
    <2>4. QED
      BY <1>2, <2>1, <2>2, <2>3
  <1>3. CASE LoopExpire
    <2>1. worker'.pc = "send" => worker'.pc = worker.pc /\ worker'.job = worker.job
      BY <1>3 DEF LoopExpire, TypeOK, Worker
    <2>2. QED
      BY <1>3, <2>1 DEF LoopExpire, Quiet
  <1>4. CASE LoopIdle \/ LoopComplete
    BY <1>4 DEF LoopIdle, LoopComplete, LoopStart, Quiet
  <1>5. ASSUME NEW m \in Message, CarrierAdvances(m)
        PROVE  Quiet
    BY <1>5 DEF CarrierAdvances, TypeOK, Quiet
  <1>6. ASSUME NEW m \in Message, TwilioReceipt(m)
        PROVE  Quiet
    BY <1>6 DEF TwilioReceipt, Quiet
  <1>7. ASSUME NEW g \in Gateway, Enrol(g) \/ Revoke(g) \/ PhoneCalls(g) \/ ServeNothing(g)
        PROVE  Quiet
    BY <1>7 DEF Enrol, Revoke, PhoneCalls, ServeNothing, Quiet
  <1>8. ASSUME NEW g \in Gateway, NEW e \in Phone, phone' = [phone EXCEPT ![g] = e],
               e.submit \in {phone[g].submit, None}, UNCHANGED <<worker, submitted, receipts>>
        PROVE  Quiet
    BY <1>0, <1>8 DEF Quiet
  <1>9. ASSUME NEW g \in Gateway, PhoneRefuses(g)
        PROVE  Quiet
    <2> DEFINE e == [Acked(phone[g], "failed") EXCEPT !.submit = None]
    <2>1. phone' = [phone EXCEPT ![g] = e] /\ UNCHANGED <<worker, submitted, receipts>>
      BY <1>9 DEF PhoneRefuses
    <2>2. e \in Phone /\ e.submit = None
      BY <1>0, AckedType, SubmitType DEF GatewayState
    <2> HIDE DEF e
    <2>3. QED
      BY <1>8, <2>1, <2>2
  <1>10. ASSUME NEW g \in Gateway, PhoneTimesOut(g)
         PROVE  Quiet
    BY <1>0, <1>8, <1>10, AckedType DEF PhoneTimesOut, GatewayState
  <1>11. ASSUME NEW g \in Gateway, PhoneRestarts(g)
         PROVE  Quiet
    <2> DEFINE p == IF phone[g].phase = "dispatching" THEN Acked(phone[g], "unknown")
                    ELSE phone[g]
               q == [p EXCEPT !.submit = None, !.awaiting = "nothing"]
    <2>1. PICK killed \in BOOLEAN : phone' = [phone EXCEPT ![g] = IF killed THEN q ELSE p]
      BY <1>11 DEF PhoneRestarts
    <2>2. p \in Phone /\ p.submit = phone[g].submit
      BY <1>0, AckedType DEF GatewayState
    <2>3. q \in Phone /\ q.submit = None
      <3> HIDE DEF p
      <3>1. q \in Phone
        BY <2>2, Zenon DEF Phone
      <3>2. QED
        BY <2>2, <3>1 DEF Phone
    <2>4. UNCHANGED <<worker, submitted, receipts>>
      BY <1>11 DEF PhoneRestarts
    <2> HIDE DEF p, q
    <2>5. QED
      BY <1>8, <2>1, <2>2, <2>3, <2>4
  <1>12. ASSUME NEW g \in Gateway, PhoneResets(g)
         PROVE  Quiet
    <2>1. PICK submit \in {phone[g].submit, None} :
            phone' = [phone EXCEPT ![g] = [IdlePhone EXCEPT !.submit = submit]]
      BY <1>12 DEF PhoneResets
    <2> DEFINE e == [IdlePhone EXCEPT !.submit = submit]
    <2>2. e \in Phone /\ e.submit = submit
      BY <1>0, IdleType, SubmitType DEF Phone
    <2>3. phone' = [phone EXCEPT ![g] = e] /\ UNCHANGED <<worker, submitted, receipts>>
      BY <1>12, <2>1 DEF PhoneResets
    <2> HIDE DEF e
    <2>4. QED
      BY <1>8, <2>1, <2>2, <2>3
  <1>13. ASSUME NEW g \in Gateway, PhonePosts(g)
         PROVE  Quiet
    BY <1>0, <1>13 DEF PhonePosts, Phone, Quiet
  <1>14. ASSUME NEW g \in Gateway, NEW m \in Message, RadioReports(g, m)
         PROVE  Quiet
    <2>1. PICK r \in GatewayState :
            UNCHANGED phone \/ phone' = [phone EXCEPT ![g] = Acked(@, r)]
      BY <1>14 DEF RadioReports, GatewayState
    <2>2. UNCHANGED <<worker, submitted, receipts>>
      BY <1>14 DEF RadioReports
    <2>3. CASE UNCHANGED phone
      BY <2>2, <2>3 DEF Quiet
    <2>4. CASE phone' = [phone EXCEPT ![g] = Acked(@, r)]
      BY <1>0, <1>8, <2>2, <2>4, AckedType
    <2>5. QED
      BY <2>1, <2>3, <2>4
  <1>15. ASSUME NEW r \in posts, ServeResult(r)
         PROVE  Quiet
    <2>1. r.gateway \in Gateway
      BY DEF TypeOK, Post
    <2>2. CASE UNCHANGED phone
      BY <1>15, <2>2 DEF ServeResult, Quiet
    <2>3. CASE phone' = [phone EXCEPT ![r.gateway] = IdlePhone]
      BY <1>8, <1>15, <2>1, <2>3, IdleType DEF ServeResult, IdlePhone
    <2>4. QED
      BY <1>15, <2>2, <2>3 DEF ServeResult
  <1>16. QED
    BY <1>1, <1>2, <1>3, <1>4, <1>5, <1>6, <1>7, <1>9, <1>10, <1>11, <1>12, <1>13,
       <1>14, <1>15 DEF Next, Loop, Carrier, App

HandOver == Unclaimed /\ HeldOnce /\ Solicited /\ SentAtMostOnce

\* Only a claim puts a message into anybody's hands, and it takes it from the
\* queue, which nothing returns to; asking the carrier takes it out of them.
LEMMA HandOverStep ==
    ASSUME TypeOK, JobInHand, InStep, HandOver, [Next]_vars
    PROVE  HandOver'
  <1> DEFINE Never == {"free", "queued", "expired"}
  <1>0. /\ phone \in [Gateway -> Phone] /\ worker \in Worker
        /\ submitted \in [Message -> Nat]
        /\ messages \in [Message -> JobState \cup {"free", "gone"}]
    BY DEF TypeOK, StoreTypeOK
  <1>1. ASSUME NEW n \in Message, messages'[n] \in Never
        PROVE  messages[n] \in Never
    BY <1>1, StepsOfStore, StatusMoves DEF HandOver, Move
  <1>2. ASSUME NEW m \in Message, relay_jobs[m].state = "queued"
        PROVE  messages[m] = "queued" /\ ~Held(m) /\ submitted[m] = 0
    <2>1. messages[m] = "queued"
      BY <1>2 DEF InStep, NoJob
    <2>2. QED
      BY <2>1 DEF HandOver, Unclaimed
  <1>3. CASE Quiet
    <2>1. \A n \in Message : Held(n)' => Held(n)
      BY <1>3, NamesAssumption DEF Quiet, Held
    <2>2. Unclaimed'
      BY <1>1, <1>3, <2>1 DEF HandOver, Unclaimed, Quiet
    <2>3. HeldOnce'
      <3>1. \A m \in Message : Held(m)' => submitted'[m] = 0
        BY <1>3, <2>1 DEF Quiet, HandOver, HeldOnce
      <3>2. worker'.pc = "send" => \A g \in Gateway : phone'[g].submit # worker'.job
        <4> SUFFICES ASSUME worker'.pc = "send", NEW g \in Gateway
                     PROVE  phone'[g].submit # worker'.job
          OBVIOUS
        <4>1. worker.pc = "send" /\ worker'.job = worker.job
          BY <1>3 DEF Quiet
        <4>2. worker.job # None
          BY <4>1, NamesAssumption DEF JobInHand
        <4>3. phone[g].submit # worker.job
          BY <4>1 DEF HandOver, HeldOnce
        <4>4. phone'[g].submit \in {phone[g].submit, None}
          BY <1>3 DEF Quiet
        <4>5. QED
          BY <4>1, <4>2, <4>3, <4>4
      <3>3. \A g, h \in Gateway :
                phone'[g].submit = phone'[h].submit /\ g # h => phone'[g].submit = None
        BY <1>3 DEF Quiet, HandOver, HeldOnce
      <3>4. QED
        BY <3>1, <3>2, <3>3 DEF HeldOnce
    <2>4. QED
      BY <1>3, <2>2, <2>3 DEF Quiet, HandOver, Solicited, SentAtMostOnce
  <1>4. CASE LoopClaim
    <2>1. PICK now \in Recent, m \in Message :
            /\ ClaimRelay(m, "twilio", "server", now)
            /\ worker' = [worker EXCEPT !.pc = "send", !.job = m, !.token = relay_jobs'[m].token]
      BY <1>4 DEF LoopClaim
    <2>2. ~Held(m) /\ submitted[m] = 0
      BY <1>2, <2>1 DEF ClaimRelay, Oldest, Claimable
    <2>3. worker'.pc = "send" /\ worker'.job = m
      BY <1>0, <2>1 DEF Worker
    <2>4. UNCHANGED <<phone, submitted, receipts>>
      BY <1>4 DEF LoopClaim, phoneVars, carrierVars
    <2>5. messages'[m] = "dispatching"
      BY <1>0, <2>1 DEF ClaimRelay
    <2>6. \A n \in Message : Held(n)' => Held(n) \/ n = m
      BY <2>3, <2>4 DEF Held
    <2>7. Unclaimed'
      BY <1>1, <2>4, <2>5, <2>6 DEF HandOver, Unclaimed
    <2>8. HeldOnce'
      BY <2>2, <2>3, <2>4, <2>6 DEF HandOver, HeldOnce, Held
    <2>9. QED
      BY <2>4, <2>7, <2>8 DEF HandOver, Solicited, SentAtMostOnce
  <1>5. ASSUME NEW g \in Gateway, ServeClaim(g)
        PROVE  HandOver'
    <2> DEFINE e(m) == [IdlePhone EXCEPT !.job = m, !.token = relay_jobs'[m].token,
                                         !.phase = "dispatching", !.submit = m]
    <2>1. PICK now \in Recent, m \in Message :
            /\ ClaimRelay(m, "android", g, now)
            /\ UNCHANGED phone \/ phone' = [phone EXCEPT ![g] = e(m)]
      BY <1>5 DEF ServeClaim
    <2>2. ~Held(m) /\ submitted[m] = 0
      BY <1>2, <2>1 DEF ClaimRelay, Oldest, Claimable
    <2>3. UNCHANGED <<worker, submitted, receipts>>
      BY <1>5 DEF ServeClaim, carrierVars
    <2>4. CASE UNCHANGED phone
      BY <1>3, <2>3, <2>4 DEF Quiet
    <2>5. CASE phone' = [phone EXCEPT ![g] = e(m)]
      <3>1. phone'[g].submit = m /\ \A h \in Gateway \ {g} : phone'[h] = phone[h]
        BY <1>0, <2>5 DEF IdlePhone
      <3>2. messages'[m] = "dispatching"
        BY <1>0, <2>1 DEF ClaimRelay
      <3>3. \A n \in Message : Held(n)' => Held(n) \/ n = m
        BY <2>3, <3>1 DEF Held
      <3>4. Unclaimed'
        BY <1>1, <2>3, <3>2, <3>3 DEF HandOver, Unclaimed
      <3>5. HeldOnce'
        BY <2>2, <2>3, <3>1, <3>3 DEF HandOver, HeldOnce, Held
      <3>6. QED
        BY <2>3, <3>4, <3>5 DEF HandOver, Solicited, SentAtMostOnce
    <2>6. QED
      BY <2>1, <2>4, <2>5
  <1>6. CASE LoopSend
    <2> DEFINE m == worker.job
    <2>1. m \in Message /\ Held(m) /\ submitted[m] = 0
      BY <1>6 DEF LoopSend, JobInHand, Held, HandOver, HeldOnce
    <2>2. messages[m] \notin Never /\ messages' = messages
      BY <1>6, <2>1 DEF LoopSend, HandOver, Unclaimed, storeVars, tables
    <2>3. worker'.pc = "complete" /\ UNCHANGED phone
      BY <1>0, <1>6 DEF LoopSend, phoneVars, Worker
    <2>4. submitted' = [submitted EXCEPT ![m] = 1]
      BY <1>6, <2>1 DEF LoopSend
    <2>5. \A n \in Message \ {m} : receipts'[n] = receipts[n]
      BY <1>6, <2>1 DEF LoopSend, TypeOK
    <2>6. \A n \in Message : Held(n)' => Held(n) /\ n # m
      BY <1>6, <2>3 DEF Held, LoopSend, HandOver, HeldOnce
    <2>7. submitted'[m] = 1 /\ \A n \in Message \ {m} : submitted'[n] = submitted[n]
      BY <1>0, <2>1, <2>4
    <2> HIDE DEF m
    <2>8. Unclaimed' /\ Solicited' /\ SentAtMostOnce'
      BY <2>1, <2>2, <2>5, <2>6, <2>7 DEF HandOver, Unclaimed, Solicited, SentAtMostOnce
    <2>9. HeldOnce'
      BY <2>3, <2>6, <2>7 DEF HandOver, HeldOnce
    <2>10. QED
      BY <2>8, <2>9 DEF HandOver
  <1>7. ASSUME NEW g \in Gateway, PhoneSubmits(g)
        PROVE  HandOver'
    <2> DEFINE m == phone[g].submit
               q(threw) == IF threw THEN Acked(phone[g], "unknown") ELSE phone[g]
    <2>1. m \in Message /\ Held(m) /\ submitted[m] = 0
      BY <1>0, <1>7 DEF PhoneSubmits, Phone, Held, HandOver, HeldOnce
    <2>2. messages[m] \notin Never /\ messages' = messages
      BY <1>7, <2>1 DEF PhoneSubmits, HandOver, Unclaimed, storeVars, tables
    <2>3. /\ submitted' = [submitted EXCEPT ![m] = @ + 1]
          /\ \E threw \in BOOLEAN : phone' = [phone EXCEPT ![g] = [q(threw) EXCEPT !.submit = None]]
          /\ UNCHANGED <<worker, receipts>>
      BY <1>7 DEF PhoneSubmits, serverVars
    <2>4. \A threw \in BOOLEAN : [q(threw) EXCEPT !.submit = None].submit = None
      <3>1. \A threw \in BOOLEAN : q(threw) \in Phone
        BY <1>0, AckedType DEF GatewayState
      <3> HIDE DEF q
      <3>2. QED
        BY <3>1, SubmitType
    <2>5. phone'[g].submit = None /\ \A h \in Gateway \ {g} : phone'[h] = phone[h]
      <3> HIDE DEF q
      <3>1. QED
        BY <1>0, <2>3, <2>4
    <2>6. submitted'[m] = 1 /\ \A n \in Message \ {m} : submitted'[n] = submitted[n]
      BY <1>0, <2>1, <2>3
    <2>7. \A n \in Message : Held(n)' => Held(n) /\ n # m
      <3>1. m # None
        BY <2>1, NamesAssumption
      <3>2. \A h \in Gateway : phone'[h].submit # m
        BY <2>5, <3>1 DEF HandOver, HeldOnce
      <3>3. worker.pc = "send" => worker.job # m
        BY DEF HandOver, HeldOnce
      <3> HIDE DEF m
      <3>4. ASSUME NEW n \in Message, Held(n)'
            PROVE  Held(n) /\ n # m
        <4>1. CASE worker.pc = "send" /\ worker.job = n
          BY <3>3, <4>1 DEF Held
        <4>2. ASSUME NEW h \in Gateway, phone'[h].submit = n
              PROVE  Held(n) /\ n # m
          BY <2>5, <3>2, <4>2, NamesAssumption DEF Held
        <4>3. QED
          BY <2>3, <3>4, <4>1, <4>2 DEF Held
      <3>5. QED
        BY <3>4
    <2> HIDE DEF m
    <2>8. Unclaimed' /\ Solicited' /\ SentAtMostOnce'
      BY <2>1, <2>2, <2>3, <2>6, <2>7 DEF HandOver, Unclaimed, Solicited, SentAtMostOnce
    <2>9. HeldOnce'
      <3>1. \A n \in Message : Held(n)' => submitted'[n] = 0
        BY <2>6, <2>7 DEF HandOver, HeldOnce
      <3>2. worker'.pc = "send" => \A h \in Gateway : phone'[h].submit # worker'.job
        <4> SUFFICES ASSUME worker.pc = "send", NEW h \in Gateway
                     PROVE  phone'[h].submit # worker.job
          BY <2>3
        <4>1. worker.job # None
          BY NamesAssumption DEF JobInHand
        <4>2. phone[h].submit # worker.job
          BY DEF HandOver, HeldOnce
        <4>3. QED
          BY <2>5, <4>1, <4>2
      <3>3. \A h, i \in Gateway :
                phone'[h].submit = phone'[i].submit /\ h # i => phone'[h].submit = None
        BY <2>5 DEF HandOver, HeldOnce
      <3>4. QED
        BY <3>1, <3>2, <3>3 DEF HeldOnce
    <2>10. QED
      BY <2>8, <2>9 DEF HandOver
  <1>8. QED
    BY <1>3, <1>4, <1>5, <1>6, <1>7, QuietUnless

-----------------------------------------------------------------------------
(* Idempotency keys                                                        *)

LEMMA KeyBoundStep ==
    ASSUME TypeOK, KeyBound, StoreStep
    PROVE  KeyBound'
  <1>0. /\ relay_keys \in [Key -> [fingerprint: Fingerprint \cup {None}, message: Message \cup {None}]]
        /\ answered \in [Key -> SUBSET Message]
    BY DEF TypeOK, StoreTypeOK
  <1>1. ASSUME UNCHANGED <<relay_keys, answered>>
        PROVE  KeyBound'
    BY <1>1 DEF KeyBound
  <1>2. ASSUME NEW m \in Message, NEW k \in Key \cup {NoKey}, NEW d \in Driver,
               NEW c \in Content, NEW born \in Nat, EnqueueRelay(m, k, d, c, born)
        PROVE  KeyBound'
    <2>1. CASE k = NoKey
      BY <1>1, <1>2, <2>1 DEF EnqueueRelay
    <2>2. CASE k # NoKey
      <3>1. k \in Key /\ answered[k] = {} /\ <<d, c>> # None
        BY <1>2, <2>2, NamesAssumption DEF EnqueueRelay, KeyBound, Driver
      <3>2. /\ relay_keys' = [relay_keys EXCEPT ![k] = [fingerprint |-> <<d, c>>, message |-> m]]
            /\ answered' = [answered EXCEPT ![k] = @ \cup {m}]
        BY <1>2, <2>2 DEF EnqueueRelay
      <3>3. /\ relay_keys'[k].fingerprint # None /\ relay_keys'[k].message = m
            /\ answered'[k] = {m}
        BY <1>0, <3>1, <3>2
      <3>4. \A j \in Key \ {k} : relay_keys'[j] = relay_keys[j] /\ answered'[j] = answered[j]
        BY <1>0, <3>2
      <3>5. QED
        BY <3>3, <3>4 DEF KeyBound
    <2>3. QED
      BY <2>1, <2>2
  <1>3. ASSUME NEW k \in Key, NEW d \in Driver, NEW c \in Content, ReplayRelay(k, d, c)
        PROVE  KeyBound'
    <2>1. /\ relay_keys' = relay_keys /\ relay_keys[k].message # None
          /\ relay_keys[k].fingerprint # None
          /\ answered' = [answered EXCEPT ![k] = @ \cup {relay_keys[k].message}]
      BY <1>3, NamesAssumption DEF ReplayRelay, tables, Driver
    <2>2. answered'[k] = {relay_keys[k].message}
      BY <1>0, <2>1 DEF KeyBound
    <2>3. \A j \in Key \ {k} : answered'[j] = answered[j]
      BY <1>0, <2>1
    <2>4. QED
      BY <2>1, <2>2, <2>3 DEF KeyBound
  <1>4. ASSUME NEW S \in SUBSET Message, DeleteMessages(S)
        PROVE  KeyBound'
    <2>1. \A k \in Key : /\ relay_keys'[k].fingerprint = relay_keys[k].fingerprint
                        /\ relay_keys'[k].message \in {None, relay_keys[k].message}
                        /\ answered' = answered
      BY <1>0, <1>4 DEF DeleteMessages
    <2>2. QED
      BY <2>1 DEF KeyBound
  <1>5. CASE UNCHANGED storeVars
    BY <1>1, <1>5 DEF storeVars, tables
  <1>6. ASSUME NEW m \in Message, NEW d \in Driver, NEW o \in Owner, NEW now \in Recent,
               ClaimRelay(m, d, o, now)
        PROVE  KeyBound'
    BY <1>1, <1>6 DEF ClaimRelay
  <1>7. ASSUME NEW m \in Message, NEW t \in Nat, NEW o \in Owner, NEW r \in Result,
               CompleteRelay(m, t, o, r)
        PROVE  KeyBound'
    BY <1>1, <1>7 DEF CompleteRelay, Settle, storeVars, tables
  <1>8. ASSUME NEW m \in Message, NEW r \in receipts[m], RelayReceipt(m, r)
        PROVE  KeyBound'
    BY <1>1, <1>8 DEF RelayReceipt, Settle
  <1>9. ASSUME NEW now \in Recent, ExpireRelays(now)
        PROVE  KeyBound'
    BY <1>1, <1>9 DEF ExpireRelays
  <1>10. QED
    BY <1>2, <1>3, <1>4, <1>5, <1>6, <1>7, <1>8, <1>9 DEF StoreStep, OtherTransaction

-----------------------------------------------------------------------------
(* The dispatch limit                                                      *)

\* A claim is the only step that hands out a job or forgets an old dispatch.
LEMMA ClaimsStep ==
    ASSUME StoreStep
    PROVE  \/ UNCHANGED <<relay_dispatches, claims>>
           \/ \E m \in Message, d \in Driver, o \in Owner, now \in Recent : ClaimRelay(m, d, o, now)
  BY DEF StoreStep, OtherTransaction, EnqueueRelay, ReplayRelay, CompleteRelay, RelayReceipt, Settle,
         ExpireRelays, DeleteMessages, storeVars, tables

LEMMA CountedStep ==
    ASSUME TypeOK, Counted, StoreStep,
           clock' = clock \/ (clock' = clock + 1 /\ UNCHANGED storeVars)
    PROVE  Counted'
  <1>0. clock \in Nat /\ \A c \in claims : c.at \in Nat
    BY DEF TypeOK, StoreTypeOK, Claim
  <1>1. CASE UNCHANGED <<relay_dispatches, claims>>
    BY <1>0, <1>1, TimesAssumption DEF Counted
  <1>2. ASSUME NEW m \in Message, NEW d \in Driver, NEW o \in Owner, NEW now \in Recent,
               ClaimRelay(m, d, o, now), clock' = clock
        PROVE  Counted'
    <2> DEFINE row == [message |-> m, token |-> relay_jobs[m].token + 1, at |-> now]
    <2>1. /\ claims' = claims \cup {row} /\ row.at = now
          /\ relay_dispatches' = InWindow(relay_dispatches, now) \cup {row}
      BY <1>2 DEF ClaimRelay
    <2>2. now \in Nat /\ now <= clock
      BY RecentType DEF TypeOK
    <2> HIDE DEF row
    <2>3. IsFiniteSet(claims')
      BY <2>1, FS_AddElement DEF Counted
    <2>4. relay_dispatches' \subseteq claims'
      BY <2>1 DEF Counted, InWindow
    <2>5. ASSUME NEW c \in claims'
          PROVE  c.at <= clock' /\ (c.at >= clock' - Window => c \in relay_dispatches')
      <3>1. CASE c = row
        BY <1>2, <2>1, <2>2, <3>1
      <3>2. CASE c \in claims
        BY <1>0, <1>2, <2>1, <2>2, <3>2, TimesAssumption DEF Counted, InWindow
      <3>3. QED
        BY <2>1, <3>1, <3>2
    <2>6. QED
      BY <2>3, <2>4, <2>5 DEF Counted
  <1>3. QED
    BY <1>1, <1>2, ClaimsStep DEF storeVars, tables

LEMMA DispatchRateStep ==
    ASSUME TypeOK, Counted, DispatchRate, StoreStep,
           clock' = clock \/ (clock' = clock + 1 /\ UNCHANGED storeVars)
    PROVE  DispatchRate'
  <1> DEFINE In(t, C) == {c \in C : t + Skew - Window <= c.at /\ c.at <= t}
  <1>0. /\ clock \in Nat /\ \A c \in claims : c.at \in Nat
        /\ Limit \in Nat /\ Skew \in Nat /\ Window \in Nat
    BY TimesAssumption DEF TypeOK, StoreTypeOK, Claim
  <1>1. IsFiniteSet(claims)
    BY DEF Counted
  <1>2. CASE UNCHANGED claims
    <2> SUFFICES ASSUME NEW t \in 0..clock'
                 PROVE  Cardinality(In(t, claims)) <= Limit
      BY <1>2 DEF DispatchRate
    <2>1. CASE t \in 0..clock
      BY <2>1 DEF DispatchRate
    <2>2. CASE t = clock + 1
      <3>1. In(t, claims) \subseteq In(clock, claims)
        BY <1>0, <2>2 DEF Counted
      <3>2. IsFiniteSet(In(clock, claims))
        <4>1. In(clock, claims) \in SUBSET claims
          OBVIOUS
        <4>2. QED
          BY <1>1, <4>1, FS_Subset
      <3>3. Cardinality(In(clock, claims)) <= Limit
        BY <1>0 DEF DispatchRate
      <3>4. IsFiniteSet(In(t, claims)) /\ Cardinality(In(t, claims)) <= Cardinality(In(clock, claims))
        BY <3>1, <3>2, FS_Subset
      <3>5. Cardinality(In(t, claims)) \in Nat /\ Cardinality(In(clock, claims)) \in Nat
        BY <3>2, <3>4, FS_CardinalityType
      <3>6. QED
        BY <1>0, <3>3, <3>4, <3>5
    <2>3. QED
      BY <1>0, <2>1, <2>2
  <1>3. ASSUME NEW m \in Message, NEW d \in Driver, NEW o \in Owner, NEW now \in Recent,
               ClaimRelay(m, d, o, now), clock' = clock
        PROVE  DispatchRate'
    <2> DEFINE row == [message |-> m, token |-> relay_jobs[m].token + 1, at |-> now]
               Rows == InWindow(relay_dispatches, now)
    <2>1. /\ claims' = claims \cup {row} /\ row.at = now
          /\ Cardinality(Rows) < Limit
      BY <1>3 DEF ClaimRelay, CanClaim
    <2>2. now \in Nat /\ now <= clock /\ clock - now <= Skew
      BY RecentType DEF TypeOK
    <2>3. Rows \subseteq claims
      BY DEF Counted, InWindow
    <2>4. IsFiniteSet(Rows) /\ Cardinality(Rows) \in Nat
      BY <1>1, <2>3, FS_Subset, FS_CardinalityType
    <2>5. ASSUME NEW c \in claims, c.at >= clock - Window, c.at >= now - Window
          PROVE  c \in Rows
      BY <2>5 DEF Counted, InWindow
    <2> HIDE DEF row, Rows
    <2> SUFFICES ASSUME NEW t \in 0..clock
                 PROVE  Cardinality(In(t, claims')) <= Limit
      BY <1>3 DEF DispatchRate
    <2>6. CASE row \notin In(t, claims')
      <3>1. In(t, claims') = In(t, claims)
        BY <2>1, <2>6
      <3>2. QED
        BY <3>1 DEF DispatchRate
    <2>7. CASE row \in In(t, claims')
      <3>1. t + Skew - Window <= now
        BY <2>1, <2>7
      <3>2. In(t, claims') \subseteq Rows \cup {row}
        <4> SUFFICES ASSUME NEW c \in claims, t + Skew - Window <= c.at, c.at <= t
                     PROVE  c \in Rows
          BY <2>1
        <4>1. t >= now
          BY <2>1, <2>7
        <4>2. c.at >= now - Window /\ c.at >= clock - Window
          BY <1>0, <2>2, <4>1
        <4>3. QED
          BY <2>5, <4>2
      <3>3. /\ IsFiniteSet(Rows \cup {row})
            /\ Cardinality(Rows \cup {row}) <= Cardinality(Rows) + 1
            /\ Cardinality(Rows \cup {row}) \in Nat
        <4>1. IsFiniteSet(Rows \cup {row})
          BY <2>4, FS_AddElement
        <4>2. Cardinality(Rows \cup {row}) =
                 IF row \in Rows THEN Cardinality(Rows) ELSE Cardinality(Rows) + 1
          BY <2>4, FS_AddElement
        <4>3. QED
          BY <2>4, <4>1, <4>2
      <3>4. /\ IsFiniteSet(In(t, claims'))
            /\ Cardinality(In(t, claims')) <= Cardinality(Rows \cup {row})
        BY <3>2, <3>3, FS_Subset
      <3>5. Cardinality(In(t, claims')) \in Nat
        BY <3>4, FS_CardinalityType
      <3>6. QED
        BY <1>0, <2>1, <2>4, <3>3, <3>4, <3>5
    <2>8. QED
      BY <2>6, <2>7
  <1>4. QED
    BY <1>2, <1>3, ClaimsStep DEF storeVars, tables

-----------------------------------------------------------------------------
(* The theorems                                                            *)

LEMMA InitInv == Init => Inv
  <1> SUFFICES ASSUME Init
               PROVE  Inv
    OBVIOUS
  <1>1. NoJob \in Job
    BY DEF NoJob, Job
  <1>2. StoreTypeOK
    BY <1>1 DEF Init, StoreInit, StoreTypeOK
  <1>3. TypeOK
    <2>1. LoopStart \in Worker /\ IdlePhone \in Phone
      BY IdleType DEF LoopStart, NoResult, Worker, Result
    <2>2. QED
      BY <1>2, <2>1 DEF Init, TypeOK, Fate
  <1>4. \A m \in Message : ~Held(m)
    BY NamesAssumption DEF Init, LoopStart, IdlePhone, Held
  <1>5. JobInHand /\ HeldOnce
    BY <1>4 DEF Init, JobInHand, HeldOnce, LoopStart, IdlePhone
  <1>6. InStep /\ Unclaimed /\ Solicited /\ KeyBound /\ SentAtMostOnce
    BY <1>4 DEF Init, StoreInit, InStep, Present, Unclaimed, Solicited, KeyBound, SentAtMostOnce
  <1>7. Counted
    BY FS_EmptySet DEF Init, StoreInit, Counted
  <1>8. DispatchRate
    <2> SUFFICES ASSUME NEW t \in 0..clock
                 PROVE  Cardinality({c \in claims : t + Skew - Window <= c.at /\ c.at <= t}) <= Limit
      BY DEF DispatchRate
    <2>1. {c \in claims : t + Skew - Window <= c.at /\ c.at <= t} = {}
      BY DEF Init, StoreInit
    <2>2. QED
      BY <2>1, FS_EmptySet, TimesAssumption
  <1>9. QED
    BY <1>3, <1>5, <1>6, <1>7, <1>8 DEF Inv

LEMMA NextInv ==
    ASSUME Inv, [Next]_vars
    PROVE  Inv'
  <1>1. TypeOK' /\ JobInHand'
    <2>1. CASE UNCHANGED vars
      <3>1. UNCHANGED <<clock, tables, claims, answered>>
        BY <2>1 DEF vars, storeVars
      <3>2. StoreTypeOK'
        BY <3>1 DEF Inv, TypeOK, StoreTypeOK, tables
      <3>3. QED
        BY <2>1, <3>2 DEF Inv, TypeOK, JobInHand, vars, serverVars, phoneVars, carrierVars
    <2>2. QED
      BY <2>1, ServerTypeStep, GatewayTypeStep DEF Inv, Next
  <1>2. StoreStep /\ (clock' = clock \/ (clock' = clock + 1 /\ UNCHANGED storeVars))
    BY StepsOfStore DEF Inv
  <1>3. HandOver'
    BY HandOverStep DEF Inv, HandOver
  <1>4. InStep' /\ KeyBound' /\ Counted' /\ DispatchRate'
    BY <1>2, InStepStep, KeyBoundStep, CountedStep, DispatchRateStep DEF Inv
  <1>5. QED
    BY <1>1, <1>3, <1>4 DEF Inv, HandOver

\* The inductive invariant holds in every reachable state, whatever the
\* number of messages, gateways and keys, the limits and the clock skew.
THEOREM Invariance == Spec => []Inv
  <1>1. Init => Inv
    BY InitInv
  <1>2. Inv /\ [Next]_vars => Inv'
    BY NextInv
  <1>3. QED
    BY <1>1, <1>2, PTL DEF Spec

\* Every variable keeps its type; the job a thread or an app works on is a message.
THEOREM TypeCorrect == Spec => []TypeOK
  <1>1. Inv => TypeOK
    BY DEF Inv
  <1>2. QED
    BY <1>1, Invariance, PTL

\* No message is handed to a carrier twice, across crashes of the server between
\* the claim, the request and its result, lost requests and answers, app restarts,
\* resets, revoked gateways and changes of driver.
THEOREM AtMostOnce == Spec => []SentAtMostOnce
  <1>1. Inv => SentAtMostOnce
    BY DEF Inv
  <1>2. QED
    BY <1>1, Invariance, PTL

\* Retries under one idempotency key reach a carrier at most once together.
THEOREM IntentOnce == Spec => []IntentSentOnce
  <1>1. Inv => IntentSentOnce
    BY DEF Inv, KeyBound, IntentSentOnce
  <1>2. QED
    BY <1>1, Invariance, PTL

\* The dispatch limit holds over every interval of a minute less the clock skew.
THEOREM RateLimited == Spec => []DispatchRate
  <1>1. Inv => DispatchRate
    BY DEF Inv
  <1>2. QED
    BY <1>1, Invariance, PTL

\* Late, duplicated and reordered reports and callbacks never take a recorded
\* outcome back.
THEOREM NeverRegresses == Spec => OutcomeNeverRegresses
  <1>1. ASSUME Inv, [Next]_vars, NEW m \in Message
        PROVE  messages'[m] = messages[m] \/ Stage[messages'[m]] > Stage[messages[m]]
    <2>1. messages'[m] = messages[m] \/ Move(messages[m], messages'[m])
      BY <1>1, StepsOfStore, StatusMoves DEF Inv
    <2>2. ASSUME NEW s, NEW t, Move(s, t)
          PROVE  Stage[t] > Stage[s]
      BY <2>2 DEF Move, Stage, JobState
    <2>3. QED
      BY <2>1, <2>2
  <1>2. Inv /\ [Next]_vars => MovesForward
    BY <1>1 DEF MovesForward
  <1>3. QED
    BY <1>2, Invariance, PTL DEF Spec, OutcomeNeverRegresses


-----------------------------------------------------------------------------
(* Relay implements SendOnce: every step of the relay opens one intent,     *)
(* hands one over, or gives some up.                                       *)

\* The values of SendOnce's variables in a state of Relay.
IntentMap == [m \in Message |-> Intent(m)]
BoundMap == [k \in Key |-> IF answered[k] = {} THEN None
                           ELSE CHOOSE m \in Message : m \in answered[k]]

\* A message leaves "free", and a key is answered with another message, only
\* when an intent is enqueued.
LEMMA OtherKeeps ==
    ASSUME TypeOK, InStep, KeyBound, OtherTransaction
    PROVE  /\ \A m \in Message : messages[m] = "free" => messages'[m] = "free"
           /\ answered' = answered
  <1> DEFINE Goal == /\ \A m \in Message : messages[m] = "free" => messages'[m] = "free"
                     /\ answered' = answered
  <1>0. /\ messages \in [Message -> JobState \cup {"free", "gone"}]
        /\ relay_jobs \in [Message -> Job]
        /\ answered \in [Key -> SUBSET Message]
    BY DEF TypeOK, StoreTypeOK
  <1>1. CASE UNCHANGED storeVars
    BY <1>1 DEF storeVars, tables
  <1>2. ASSUME NEW k \in Key, NEW d \in Driver, NEW c \in Content, ReplayRelay(k, d, c)
        PROVE  Goal
    <2>1. answered[k] = {relay_keys[k].message}
      BY <1>2 DEF ReplayRelay, KeyBound
    <2>2. answered' = [answered EXCEPT ![k] = answered[k]]
      BY <1>2, <2>1 DEF ReplayRelay
    <2>3. answered' = answered
      BY <1>0, <2>2
    <2>4. QED
      BY <1>2, <2>3 DEF ReplayRelay, tables
  <1>3. ASSUME NEW m \in Message, NEW d \in Driver, NEW o \in Owner, NEW now \in Recent,
               ClaimRelay(m, d, o, now)
        PROVE  Goal
    <2>1. relay_jobs[m].state = "queued"
      BY <1>3 DEF ClaimRelay, Oldest, Claimable
    <2>2. messages[m] # "free"
      BY <2>1 DEF InStep, Present, NoJob
    <2>3. QED
      BY <1>0, <1>3, <2>2 DEF ClaimRelay
  <1>4. ASSUME NEW m \in Message, NEW s, NEW p, Present(m), Settle(m, s, p)
        PROVE  Goal
    BY <1>0, <1>4 DEF Settle, Present
  <1>5. ASSUME NEW m \in Message, NEW t \in Nat, NEW o \in Owner, NEW r \in Result,
               CompleteRelay(m, t, o, r)
        PROVE  Goal
    BY <1>1, <1>4, <1>5 DEF CompleteRelay, CanComplete
  <1>6. ASSUME NEW m \in Message, NEW r \in receipts[m], RelayReceipt(m, r)
        PROVE  Goal
    BY <1>4, <1>6 DEF RelayReceipt
  <1>7. ASSUME NEW now \in Recent, ExpireRelays(now)
        PROVE  Goal
    <2>1. \A m \in Due(now) : messages[m] # "free"
      BY DEF Due, Expired, InStep, Present, NoJob
    <2>2. QED
      BY <1>7, <2>1 DEF ExpireRelays
  <1>8. ASSUME NEW S \in SUBSET Message, DeleteMessages(S)
        PROVE  Goal
    BY <1>8 DEF DeleteMessages, Present
  <1>9. QED
    BY <1>1, <1>2, <1>3, <1>5, <1>6, <1>7, <1>8 DEF OtherTransaction

\* What Intent says in terms of the invariant.
IntentMeaning ==
    \A m \in Message :
        /\ Intent(m) = "handed" <=> submitted[m] > 0
        /\ Intent(m) = "new" <=> messages[m] = "free"
        /\ Intent(m) = "open" <=> submitted[m] = 0 /\ (messages[m] = "queued" \/ Held(m))
        /\ Intent(m) \in {"new", "open", "handed", "closed"}

LEMMA IntentCases == Inv => IntentMeaning
  <1> SUFFICES ASSUME Inv, NEW m \in Message
               PROVE  /\ Intent(m) = "handed" <=> submitted[m] > 0
                      /\ Intent(m) = "new" <=> messages[m] = "free"
                      /\ Intent(m) = "open" <=> submitted[m] = 0 /\ (messages[m] = "queued" \/ Held(m))
                      /\ Intent(m) \in {"new", "open", "handed", "closed"}
    BY DEF IntentMeaning
  <1>1. submitted[m] \in Nat
    BY DEF Inv, TypeOK
  <1>2. /\ messages[m] \in {"free", "queued"} => submitted[m] = 0 /\ ~Held(m)
        /\ Held(m) => submitted[m] = 0
    BY DEF Inv, Unclaimed, HeldOnce
  <1>3. CASE submitted[m] > 0
    BY <1>1, <1>2, <1>3 DEF Intent
  <1>4. CASE submitted[m] = 0 /\ messages[m] = "free"
    BY <1>2, <1>4 DEF Intent
  <1>5. CASE submitted[m] = 0 /\ messages[m] # "free" /\ (messages[m] = "queued" \/ Held(m))
    BY <1>2, <1>5 DEF Intent
  <1>6. CASE submitted[m] = 0 /\ messages[m] # "free" /\ ~(messages[m] = "queued" \/ Held(m))
    BY <1>6 DEF Intent
  <1>7. QED
    BY <1>1, <1>3, <1>4, <1>5, <1>6

\* Enqueueing opens the intent and binds its key.
LEMMA QueueOpens ==
    ASSUME Inv, Inv', NEW m \in Message, NEW k \in Key \cup {NoKey}, NEW c \in Content, Queue(m, k, c)
    PROVE  Once!Next
  <1>0. IntentMeaning /\ IntentMeaning'
    BY IntentCases, PTL
  <1>1. PICK born \in Recent : EnqueueRelay(m, k, driver, c, born)
    BY DEF Queue
  <1>2. UNCHANGED <<worker, phone, submitted>>
    BY DEF Queue, serverVars, phoneVars, carrierVars
  <1>3. \A n \in Message : Held(n)' <=> Held(n)
    BY <1>2 DEF Held
  <1>4. messages[m] = "free" /\ messages' = [messages EXCEPT ![m] = "queued"]
    BY <1>1 DEF EnqueueRelay
  <1>5. messages'[m] = "queued" /\ \A n \in Message \ {m} : messages'[n] = messages[n]
    BY <1>4 DEF Inv, TypeOK, StoreTypeOK
  <1>6. Intent(m) = "new" /\ Intent(m)' = "open"
    BY <1>0, <1>2, <1>4, <1>5 DEF IntentMeaning, Inv, Unclaimed
  <1>7. \A n \in Message \ {m} : Intent(n)' = Intent(n)
    BY <1>2, <1>3, <1>5 DEF Intent
  <1>8. IntentMap' = [IntentMap EXCEPT ![m] = "open"]
    BY <1>6, <1>7 DEF IntentMap
  <1>9. CASE k = NoKey
    <2>1. answered' = answered
      BY <1>1, <1>9 DEF EnqueueRelay
    <2>2. Once!Open(m, k)
      BY <1>6, <1>8, <1>9, <2>1 DEF IntentMap, Once!Open
    <2>3. QED
      BY <2>2 DEF Once!Next
  <1>10. CASE k # NoKey
    <2>1. k \in Key /\ answered[k] = {} /\ answered' = [answered EXCEPT ![k] = @ \cup {m}]
      BY <1>1, <1>10 DEF EnqueueRelay, Inv, KeyBound
    <2>2. answered'[k] = {m} /\ \A j \in Key \ {k} : answered'[j] = answered[j]
      BY <2>1 DEF Inv, TypeOK, StoreTypeOK
    <2>3. BoundMap[k] = None /\ BoundMap' = [BoundMap EXCEPT ![k] = m]
      <3>1. (CHOOSE n \in Message : n \in answered'[k]) = m
        BY <2>2
      <3>2. BoundMap'[k] = m /\ \A j \in Key \ {k} : BoundMap'[j] = BoundMap[j]
        BY <2>1, <2>2, <3>1 DEF BoundMap
      <3>3. BoundMap' = [j \in Key |-> BoundMap'[j]]
        BY DEF BoundMap
      <3>4. BoundMap = [j \in Key |-> BoundMap[j]]
        BY DEF BoundMap
      <3>5. BoundMap[k] = None
        BY <2>1 DEF BoundMap
      <3> HIDE DEF BoundMap
      <3>6. QED
        BY <2>1, <3>2, <3>3, <3>4, <3>5
    <2>4. Once!Open(m, k)
      BY <1>6, <1>8, <1>10, <2>3 DEF IntentMap, BoundMap, Once!Open
    <2>5. QED
      BY <2>4 DEF Once!Next
  <1>11. QED
    BY <1>9, <1>10

\* Asking a carrier hands the intent over, and changes no other.
LEMMA AskingHands ==
    ASSUME Inv, Inv', NEW m \in Message, Held(m), submitted'[m] = submitted[m] + 1,
           \A n \in Message \ {m} : submitted'[n] = submitted[n] /\ (Held(n)' <=> Held(n)),
           UNCHANGED <<messages, answered>>
    PROVE  Once!Next
  <1>1. IntentMeaning /\ IntentMeaning'
    BY IntentCases, PTL
  <1>2. submitted[m] = 0
    BY DEF Inv, HeldOnce
  <1>3. Intent(m) = "open" /\ Intent(m)' = "handed"
    BY <1>1, <1>2 DEF IntentMeaning
  <1>4. \A n \in Message \ {m} : Intent(n)' = Intent(n)
    BY DEF Intent
  <1>5. IntentMap' = [IntentMap EXCEPT ![m] = "handed"]
    BY <1>3, <1>4 DEF IntentMap
  <1>6. Once!Hand(m)
    BY <1>3, <1>5 DEF IntentMap, Once!Hand
  <1>7. QED
    BY <1>6 DEF Once!Next

LEMMA LoopSendHands ==
    ASSUME Inv, Inv', LoopSend
    PROVE  Once!Next
  <1> DEFINE m == worker.job
  <1>1. m \in Message /\ Held(m)
    BY DEF LoopSend, Inv, JobInHand, Held
  <1>2. submitted' = [submitted EXCEPT ![m] = @ + 1]
    BY DEF LoopSend
  <1>3. UNCHANGED <<messages, answered, phone>>
    BY DEF LoopSend, storeVars, tables, phoneVars
  <1>4. worker'.pc = "complete"
    <2>1. PICK result : worker' = [worker EXCEPT !.pc = "complete", !.result = result]
      BY DEF LoopSend
    <2>2. QED
      BY <2>1 DEF Inv, TypeOK, Worker
  <1>5. \A n \in Message \ {m} : Held(n)' <=> Held(n)
    BY <1>3, <1>4 DEF Held
  <1> HIDE DEF m
  <1>6. submitted'[m] = submitted[m] + 1 /\ \A n \in Message \ {m} : submitted'[n] = submitted[n]
    BY <1>1, <1>2 DEF Inv, TypeOK
  <1>7. QED
    BY <1>1, <1>3, <1>5, <1>6, AskingHands

LEMMA PhoneSubmitsHands ==
    ASSUME Inv, Inv', NEW g \in Gateway, PhoneSubmits(g)
    PROVE  Once!Next
  <1> DEFINE m == phone[g].submit
             q(threw) == IF threw THEN Acked(phone[g], "unknown") ELSE phone[g]
  <1>0. phone \in [Gateway -> Phone]
    BY DEF Inv, TypeOK
  <1>1. m \in Message /\ Held(m) /\ None \notin Message
    BY <1>0, NamesAssumption DEF PhoneSubmits, Phone, Held
  <1>2. submitted' = [submitted EXCEPT ![m] = @ + 1]
    BY DEF PhoneSubmits
  <1>3. UNCHANGED <<messages, answered, worker>>
    BY DEF PhoneSubmits, storeVars, tables, serverVars
  <1>4. PICK threw \in BOOLEAN : phone' = [phone EXCEPT ![g] = [q(threw) EXCEPT !.submit = None]]
    BY DEF PhoneSubmits
  <1>5. [q(threw) EXCEPT !.submit = None].submit = None
    <2>1. q(threw) \in Phone
      BY <1>0, AckedType DEF GatewayState
    <2> HIDE DEF q
    <2>2. QED
      BY <2>1, SubmitType
  <1>6. phone'[g].submit = None /\ \A h \in Gateway \ {g} : phone'[h] = phone[h]
    <2> HIDE DEF q
    <2>1. QED
      BY <1>0, <1>4, <1>5
  <1>7. \A n \in Message \ {m} : Held(n)' <=> Held(n)
    BY <1>1, <1>3, <1>6 DEF Held
  <1> HIDE DEF m
  <1>8. submitted'[m] = submitted[m] + 1 /\ \A n \in Message \ {m} : submitted'[n] = submitted[n]
    BY <1>1, <1>2 DEF Inv, TypeOK
  <1>9. QED
    BY <1>1, <1>3, <1>7, <1>8, AskingHands

\* A step that asks no carrier only gives a message to somebody who takes it from
\* the queue.
LEMMA OthersHold ==
    ASSUME Inv, [Next]_vars, ~LoopSend, \A g \in Gateway : ~PhoneSubmits(g)
    PROVE  /\ submitted' = submitted
           /\ \A n \in Message : Held(n)' => Held(n) \/ messages[n] = "queued"
  <1>0. phone \in [Gateway -> Phone] /\ worker \in Worker /\ None \notin Message
    BY NamesAssumption DEF Inv, TypeOK
  <1>1. ASSUME NEW m \in Message, NEW d, NEW o, NEW now, ClaimRelay(m, d, o, now)
        PROVE  messages[m] = "queued"
    <2>1. relay_jobs[m].state = "queued"
      BY <1>1 DEF ClaimRelay, Oldest, Claimable
    <2>2. QED
      BY <2>1 DEF Inv, InStep, NoJob
  <1>2. CASE Quiet
    BY <1>0, <1>2 DEF Quiet, Held
  <1>3. CASE LoopClaim
    <2>1. PICK now \in Recent, m \in Message :
            /\ ClaimRelay(m, "twilio", "server", now)
            /\ worker' = [worker EXCEPT !.pc = "send", !.job = m, !.token = relay_jobs'[m].token]
      BY <1>3 DEF LoopClaim
    <2>2. worker'.job = m /\ UNCHANGED <<phone, submitted>>
      BY <1>0, <1>3, <2>1 DEF LoopClaim, phoneVars, carrierVars, Worker
    <2>3. QED
      BY <1>1, <2>1, <2>2 DEF Held
  <1>4. ASSUME NEW g \in Gateway, ServeClaim(g)
        PROVE  /\ submitted' = submitted
               /\ \A n \in Message : Held(n)' => Held(n) \/ messages[n] = "queued"
    <2>1. PICK now \in Recent, m \in Message :
            /\ ClaimRelay(m, "android", g, now)
            /\ UNCHANGED phone \/ phone' = [phone EXCEPT
                    ![g] = [IdlePhone EXCEPT !.job = m, !.token = relay_jobs'[m].token,
                                             !.phase = "dispatching", !.submit = m]]
      BY <1>4 DEF ServeClaim
    <2>2. UNCHANGED <<worker, submitted>>
      BY <1>4 DEF ServeClaim, carrierVars
    <2>3. \A h \in Gateway : phone'[h].submit \in {phone[h].submit, m}
      BY <1>0, <2>1 DEF IdlePhone
    <2>4. QED
      BY <1>1, <2>1, <2>2, <2>3 DEF Held
  <1>5. QED
    BY <1>2, <1>3, <1>4, QuietUnless DEF Inv

\* Every other step gives up the intents it closes.
LEMMA OthersClose ==
    ASSUME Inv, Inv', [Next]_vars, ~LoopSend, \A g \in Gateway : ~PhoneSubmits(g),
           \A m \in Message, k \in Key \cup {NoKey}, c \in Content : ~Queue(m, k, c)
    PROVE  Once!Next
  <1> DEFINE S == {m \in Message : Intent(m) = "open" /\ Intent(m)' # "open"}
  <1>1. IntentMeaning /\ IntentMeaning'
    BY IntentCases, PTL
  <1>2. OtherTransaction /\ StoreStep
    BY StepsOther DEF Inv, StoreStep
  <1>3. /\ \A m \in Message : messages[m] = "free" => messages'[m] = "free"
        /\ answered' = answered
    BY <1>2, OtherKeeps DEF Inv
  <1>4. \A m \in Message : messages'[m] \in {"free", "queued"} => messages'[m] = messages[m]
    BY <1>2, <1>3, StatusMoves DEF Inv, Move
  <1>5. /\ submitted' = submitted
        /\ \A m \in Message : Held(m)' => Held(m) \/ messages[m] = "queued"
    BY OthersHold
  <1>6. \A m \in Message : IF m \in S THEN Intent(m)' = "closed" ELSE Intent(m)' = Intent(m)
    BY <1>1, <1>3, <1>4, <1>5 DEF IntentMeaning
  <1>7. Once!Close(S)
    BY <1>3, <1>6 DEF Once!Close
  <1>8. QED
    BY <1>7 DEF Once!Next

\* The relay implements SendOnce: whatever fails, no intent is handed to a carrier
\* twice or after it was given up, and no key ever moves to another message.
THEOREM Refinement == Spec => RefinesSendOnce
  <1>1. Init => Once!Init
    <2> SUFFICES ASSUME Init
                 PROVE  Once!Init
      OBVIOUS
    <2>1. IntentMeaning
      BY InitInv, IntentCases
    <2>2. \A m \in Message : Intent(m) = "new"
      BY <2>1 DEF IntentMeaning, Init, StoreInit
    <2>3. QED
      BY <2>2 DEF Once!Init, Init, StoreInit
  <1>2. Inv /\ [Next]_vars => Once!Next
    <2> SUFFICES ASSUME Inv, [Next]_vars
                 PROVE  Once!Next
      OBVIOUS
    <2>1. Inv'
      BY NextInv
    <2>2. QED
      BY <2>1, QueueOpens, LoopSendHands, PhoneSubmitsHands, OthersClose
  <1>3. QED
    BY <1>1, <1>2, Invariance, PTL DEF Spec, RefinesSendOnce, Once!Spec

-----------------------------------------------------------------------------
(* What is recorded is true                                                *)

\* How a step may change what a carrier knows of a message: not at all, by a
\* first request from whoever holds it, by Twilio's progress, or by the radio.
FateMoves(m) ==
    \/ fate'[m] = fate[m] /\ \A g \in Gateway : m \in radio'[g] => m \in radio[g]
    \/ Held(m) /\ fate[m] = "none"
    \/ /\ \A g \in Gateway : m \notin radio[g] /\ m \notin radio'[g]
       /\ \/ fate[m] = "accepted" /\ fate'[m] \in {"sent", "failed"}
          \/ fate[m] = "sent" /\ fate'[m] \in {"delivered", "failed"}
    \/ fate[m] = "accepted" /\ \E g \in Gateway : m \in radio[g]

LEMMA FateStill ==
    ASSUME [Next]_vars, ~LoopSend, \A g \in Gateway : ~PhoneSubmits(g),
           \A m \in Message : ~CarrierAdvances(m),
           \A g \in Gateway, m \in Message : ~RadioReports(g, m)
    PROVE  UNCHANGED <<fate, radio, receipts>>
  <1> USE DEF carrierVars, phoneVars
  <1>1. CASE UNCHANGED vars
    BY <1>1 DEF vars
  <1>2. CASE Callers
    BY <1>2 DEF Callers, Queue, Replay, Delete, Purge
  <1>3. CASE Loop
    BY <1>3 DEF Loop, LoopExpire, LoopClaim, LoopIdle, LoopComplete
  <1>4. CASE Carrier
    BY <1>4 DEF Carrier, TwilioReceipt
  <1>5. ASSUME NEW g \in Gateway, App(g)
        PROVE  UNCHANGED <<fate, radio, receipts>>
    BY <1>5 DEF App, Enrol, Revoke, PhoneCalls, ServeClaim, ServeNothing, PhoneRefuses,
          PhoneTimesOut, PhoneRestarts, PhoneResets, PhonePosts
  <1>6. CASE (\E r \in posts : ServeResult(r)) \/ (\E d \in Drivers : Restart(d)) \/ Tick
    BY <1>6 DEF ServeResult, Restart, Tick
  <1>7. QED
    BY <1>1, <1>2, <1>3, <1>4, <1>5, <1>6 DEF Next

\* The message a thread is about to hand over is one nobody was asked to send.
LEMMA AskedOnce ==
    ASSUME Inv, Told, NEW m \in Message, Held(m)
    PROVE  /\ submitted[m] = 0 /\ fate[m] = "none" /\ receipts[m] = {} /\ Left(m)
           /\ \A g \in Gateway : m \notin radio[g]
  <1>1. submitted[m] = 0
    BY DEF Inv, HeldOnce
  <1>2. fate[m] = "none" /\ receipts[m] = {}
    BY <1>1 DEF Told, Inv, Solicited
  <1>3. Left(m)
    BY DEF Inv, Unclaimed, Left
  <1>4. QED
    BY <1>1, <1>2, <1>3 DEF Told

LEMMA FateStep ==
    ASSUME Inv, Told, [Next]_vars, NEW m \in Message
    PROVE  /\ FateMoves(m)
           /\ Held(m)' => Held(m) \/ messages[m] = "queued"
  <1>0. /\ fate \in [Message -> Fate] /\ radio \in [Gateway -> SUBSET Message]
        /\ phone \in [Gateway -> Phone] /\ worker \in Worker
        /\ receipts \in [Message -> SUBSET Receipt]
    BY DEF Inv, TypeOK
  <1>1. CASE LoopSend
    <2>1. worker.pc = "send" /\ worker.job \in Message
      BY <1>1 DEF LoopSend, Inv, JobInHand
    <2>2. PICK outcome : fate' = [fate EXCEPT ![worker.job] = outcome]
      BY <1>1 DEF LoopSend
    <2>3. UNCHANGED <<phone, radio>>
      BY <1>1 DEF LoopSend, phoneVars
    <2>4. worker'.pc = "complete"
      BY <1>0, <1>1 DEF LoopSend, Worker
    <2>5. Held(m)' => Held(m)
      BY <2>3, <2>4 DEF Held
    <2>6. FateMoves(m)
      <3>1. CASE m = worker.job
        <4>1. Held(m)
          BY <2>1, <3>1 DEF Held
        <4>2. QED
          BY <4>1, AskedOnce DEF FateMoves
      <3>2. CASE m # worker.job
        BY <1>0, <2>2, <2>3, <3>2 DEF FateMoves
      <3>3. QED
        BY <3>1, <3>2
    <2>7. QED
      BY <2>5, <2>6
  <1>2. ASSUME NEW g \in Gateway, PhoneSubmits(g)
        PROVE  FateMoves(m) /\ (Held(m)' => Held(m))
    <2>1. phone[g].submit \in Message
      BY <1>0, <1>2 DEF PhoneSubmits, Phone
    <2>2. UNCHANGED worker
      BY <1>2 DEF PhoneSubmits, serverVars
    <2>3. /\ fate' = fate \/ fate' = [fate EXCEPT ![phone[g].submit] = "accepted"]
          /\ radio' = radio \/ radio' = [radio EXCEPT ![g] = @ \cup {phone[g].submit}]
      BY <1>2 DEF PhoneSubmits
    <2>4. \A h \in Gateway : phone'[h].submit \in {phone[h].submit, None}
      <3> DEFINE q(threw) == IF threw THEN Acked(phone[g], "unknown") ELSE phone[g]
      <3>1. PICK threw \in BOOLEAN : phone' = [phone EXCEPT ![g] = [q(threw) EXCEPT !.submit = None]]
        BY <1>2 DEF PhoneSubmits
      <3>2. q(threw) \in Phone
        BY <1>0, AckedType DEF GatewayState
      <3> HIDE DEF q
      <3>3. [q(threw) EXCEPT !.submit = None].submit = None
        BY <3>2, SubmitType
      <3>4. QED
        BY <1>0, <3>1, <3>3
    <2>5. Held(m)' => Held(m)
      BY <2>2, <2>4, NamesAssumption DEF Held
    <2>6. FateMoves(m)
      <3>1. CASE m = phone[g].submit
        <4>1. Held(m)
          BY <3>1 DEF Held
        <4>2. QED
          BY <4>1, AskedOnce DEF FateMoves
      <3>2. CASE m # phone[g].submit
        BY <1>0, <2>3, <3>2 DEF FateMoves
      <3>3. QED
        BY <3>1, <3>2
    <2>7. QED
      BY <2>5, <2>6
  <1>3. ASSUME ~LoopSend, \A g \in Gateway : ~PhoneSubmits(g)
        PROVE  Held(m)' => Held(m) \/ messages[m] = "queued"
    BY <1>3, OthersHold
  <1>4. ASSUME NEW n \in Message, CarrierAdvances(n)
        PROVE  FateMoves(m) /\ (Held(m)' => Held(m))
    <2>1. PICK state \in ReceiptState :
            /\ \/ fate[n] = "accepted" /\ state \in {"sent", "failed"}
               \/ fate[n] = "sent" /\ state \in {"delivered", "failed"}
            /\ receipts[n] # {}
            /\ fate' = [fate EXCEPT ![n] = state]
      BY <1>4 DEF CarrierAdvances
    <2>2. UNCHANGED <<phone, radio, worker>>
      BY <1>4 DEF CarrierAdvances, phoneVars, serverVars
    <2>3. \A g \in Gateway : n \notin radio[g]
      BY <2>1 DEF Told
    <2>4. FateMoves(m)
      BY <1>0, <2>1, <2>2, <2>3 DEF FateMoves
    <2>5. QED
      BY <2>2, <2>4 DEF Held
  <1>5. ASSUME NEW g \in Gateway, NEW n \in Message, RadioReports(g, n)
        PROVE  FateMoves(m)
    <2>1. /\ n \in radio[g] /\ radio' = [radio EXCEPT ![g] = @ \ {n}]
          /\ \E outcome : fate' = [fate EXCEPT ![n] = outcome]
      BY <1>5 DEF RadioReports
    <2>2. fate[n] = "accepted"
      BY <2>1 DEF Told
    <2>3. QED
      BY <1>0, <2>1, <2>2 DEF FateMoves
  <1>6. ASSUME UNCHANGED <<fate, radio, receipts>>
        PROVE  FateMoves(m)
    BY <1>6 DEF FateMoves
  <1>7. QED
    BY <1>1, <1>2, <1>3, <1>4, <1>5, <1>6, FateStill

\* A true outcome of a message that was claimed stays true.
LEMMA BearsStays ==
    ASSUME Inv, Told, [Next]_vars, NEW m, Left(m), NEW s
    PROVE  /\ Left(m)'
           /\ Bears(m, s) => Bears(m, s)'
  <1>1. m \in Message /\ messages[m] # "queued"
    BY DEF Left
  <1>2. FateMoves(m) /\ (Held(m)' => Held(m))
    BY <1>1, FateStep
  <1>3. Left(m)'
    <2>1. messages'[m] = messages[m] \/ Move(messages[m], messages'[m])
      BY <1>1, StepsOfStore, StatusMoves DEF Inv
    <2>2. QED
      BY <1>1, <2>1 DEF Left, Move
  <1>4. ASSUME Bears(m, s), s \in {"accepted", "sent", "delivered", "failed"}
        PROVE  Bears(m, s)'
    <2>1. CASE fate'[m] = fate[m] /\ \A g \in Gateway : m \in radio'[g] => m \in radio[g]
      BY <1>2, <1>4, <2>1 DEF Bears
    <2>2. CASE Held(m) /\ fate[m] = "none"
      BY <1>4, <2>2 DEF Bears
    <2>3. CASE /\ \A g \in Gateway : m \notin radio[g] /\ m \notin radio'[g]
               /\ \/ fate[m] = "accepted" /\ fate'[m] \in {"sent", "failed"}
                  \/ fate[m] = "sent" /\ fate'[m] \in {"delivered", "failed"}
      BY <1>4, <2>3 DEF Bears
    <2>4. CASE fate[m] = "accepted" /\ \E g \in Gateway : m \in radio[g]
      BY <1>4, <2>4 DEF Bears
    <2>5. QED
      BY <1>2, <2>1, <2>2, <2>3, <2>4 DEF FateMoves
  <1>5. s \notin {"accepted", "sent", "delivered", "failed"} => Bears(m, s)'
    BY DEF Bears
  <1>6. QED
    BY <1>3, <1>4, <1>5

\* A report is recorded as it came, or finds its state recorded already.
LEMMA CompleteTold ==
    ASSUME Inv, NEW m \in Message, NEW t, NEW o, NEW r \in Result, CompleteRelay(m, t, o, r),
           NEW n \in Message
    PROVE  messages'[n] = messages[n] \/ (n = m /\ messages'[n] = r.state)
  <1>0. messages \in [Message -> JobState \cup {"free", "gone"}]
    BY DEF Inv, TypeOK, StoreTypeOK
  <1>1. CASE CanComplete(m, t, o, r)
    <2>1. messages' = [messages EXCEPT ![m] = Absorbed(relay_jobs[m].state, r.state)]
      BY <1>1 DEF CompleteRelay, Settle
    <2>2. messages[m] = relay_jobs[m].state
      BY <1>1 DEF CanComplete, Inv, InStep
    <2>3. QED
      BY <1>0, <2>1, <2>2 DEF Absorbed
  <1>2. CASE ~CanComplete(m, t, o, r)
    BY <1>2 DEF CompleteRelay, storeVars, tables
  <1>3. QED
    BY <1>1, <1>2

LEMMA StatusTold ==
    ASSUME Inv, Told, [Next]_vars, NEW n \in Message
    PROVE  Bears(n, messages[n])'
  <1> DEFINE s == messages'[n]
             Goal == \/ s = messages[n]
                     \/ s \notin {"accepted", "sent", "delivered", "failed"}
                     \/ Left(n) /\ Bears(n, s)
  <1>0. /\ messages \in [Message -> JobState \cup {"free", "gone"}]
        /\ worker \in Worker /\ posts \in SUBSET Post /\ receipts \in [Message -> SUBSET Receipt]
    BY DEF Inv, TypeOK, StoreTypeOK
  <1>1. ASSUME LoopComplete
        PROVE  Goal
    <2>1. /\ worker.job \in Message /\ worker.result \in Result
          /\ CompleteRelay(worker.job, worker.token, "server", worker.result)
      BY <1>0, <1>1 DEF LoopComplete, Inv, JobInHand, Worker
    <2>2. messages'[n] = messages[n] \/ (n = worker.job /\ messages'[n] = worker.result.state)
      BY <2>1, CompleteTold
    <2>3. Left(worker.job) /\ Bears(worker.job, worker.result.state)
      BY <1>1 DEF LoopComplete, Told
    <2>4. QED
      BY <2>2, <2>3
  <1>2. ASSUME NEW r \in posts, ServeResult(r)
        PROVE  Goal
    <2> DEFINE result == [state |-> r.state, provider_id |-> 0]
    <2>1. /\ r.message \in Message /\ result \in Result
          /\ CompleteRelay(r.message, r.token, r.gateway, result)
      BY <1>0, <1>2 DEF ServeResult, Post, Result, GatewayState
    <2>2. result.state = r.state
      OBVIOUS
    <2> HIDE DEF result
    <2>3. messages'[n] = messages[n] \/ (n = r.message /\ messages'[n] = r.state)
      BY <2>1, <2>2, CompleteTold
    <2>4. Left(r.message) /\ Bears(r.message, r.state)
      BY DEF Told
    <2>5. QED
      BY <2>3, <2>4
  <1>3. ASSUME NEW m \in Message, TwilioReceipt(m)
        PROVE  Goal
    <2>1. PICK r \in receipts[m] : RelayReceipt(m, r)
      BY <1>3 DEF TwilioReceipt
    <2>2. messages' = [messages EXCEPT ![m] =
                IF Rank[relay_jobs[m].state] >= Rank[r.state] THEN relay_jobs[m].state ELSE r.state]
      BY <2>1 DEF RelayReceipt, Settle
    <2>3. messages[m] = relay_jobs[m].state
      BY <2>1 DEF RelayReceipt, Inv, InStep
    <2>4. Left(m) /\ Bears(m, r.state)
      BY DEF Told, Inv, Solicited, Unclaimed, Left
    <2>5. QED
      BY <1>0, <2>2, <2>3, <2>4
  <1>4. ASSUME UNCHANGED messages
        PROVE  Goal
    BY <1>4
  <1>5. ASSUME NEW m \in Message, NEW k, NEW d, NEW c, NEW born, EnqueueRelay(m, k, d, c, born)
        PROVE  Goal
    BY <1>0, <1>5 DEF EnqueueRelay
  <1>6. ASSUME NEW m \in Message, NEW d, NEW o, NEW now, ClaimRelay(m, d, o, now)
        PROVE  Goal
    BY <1>0, <1>6 DEF ClaimRelay
  <1>7. ASSUME NEW now, ExpireRelays(now)
        PROVE  Goal
    <2>1. messages' = [m \in Message |->
                IF m \in Due(now) THEN Expired(relay_jobs[m], now) ELSE messages[m]]
      BY <1>7 DEF ExpireRelays
    <2>2. n \in Due(now) => Expired(relay_jobs[n], now) \in {"unknown", "expired"}
      BY DEF Due, Expired
    <2>3. QED
      BY <2>1, <2>2
  <1>8. ASSUME NEW S, DeleteMessages(S)
        PROVE  Goal
    BY <1>8 DEF DeleteMessages
  <1>9. Goal
    <2>1. CASE Callers
      <3>1. CASE \E m \in Message, k \in Key \cup {NoKey}, c \in Content : Queue(m, k, c)
        BY <1>5, <3>1 DEF Queue
      <3>2. CASE \E k \in Key, c \in Content : Replay(k, c)
        BY <1>4, <3>2 DEF Replay, ReplayRelay, tables
      <3>3. CASE (\E m \in Message : Delete(m)) \/ Purge
        BY <1>8, <3>3 DEF Delete, Purge
      <3>4. QED
        BY <2>1, <3>1, <3>2, <3>3 DEF Callers
    <2>2. CASE LoopExpire \/ LoopClaim
      BY <1>6, <1>7, <2>2 DEF LoopExpire, LoopClaim
    <2>3. CASE LoopIdle \/ LoopSend \/ (\E m \in Message : CarrierAdvances(m))
      BY <1>4, <2>3 DEF LoopIdle, LoopSend, CarrierAdvances, storeVars, tables
    <2>4. ASSUME NEW g \in Gateway, App(g)
          PROVE  Goal
      <3>1. CASE ServeClaim(g)
        BY <1>6, <3>1 DEF ServeClaim
      <3>2. CASE ~ServeClaim(g)
        <4>1. UNCHANGED messages
          BY <2>4, <3>2 DEF App, Enrol, Revoke, PhoneCalls, ServeNothing, PhoneRefuses,
             PhoneSubmits, PhoneTimesOut, PhoneRestarts, PhoneResets, PhonePosts,
             RadioReports, storeVars, tables
        <4>2. QED
          BY <1>4, <4>1
      <3>3. QED
        BY <3>1, <3>2
    <2>5. CASE (\E d \in Drivers : Restart(d)) \/ Tick
      BY <1>4, <2>5 DEF Restart, Tick, storeVars, tables
    <2>6. CASE UNCHANGED vars
      BY <1>4, <2>6 DEF vars, storeVars, tables
    <2>7. QED
      BY <1>1, <1>2, <1>3, <2>1, <2>2, <2>3, <2>4, <2>5, <2>6 DEF Next, Loop, Carrier
  <1>10. Bears(n, messages[n])
    BY DEF Told
  <1>11. messages[n] \in {"accepted", "sent", "delivered", "failed"} => Left(n)
    BY DEF Left
  <1> HIDE DEF Goal
  <1>12. PICK t : t = s
    OBVIOUS
  <1>13. t \notin {"accepted", "sent", "delivered", "failed"} \/ (Left(n) /\ Bears(n, t))
    BY <1>9, <1>10, <1>11, <1>12 DEF Goal
  <1>14. Bears(n, t)'
    <2>1. CASE t \notin {"accepted", "sent", "delivered", "failed"}
      BY <2>1 DEF Bears
    <2>2. CASE Left(n) /\ Bears(n, t)
      BY <2>2, BearsStays
    <2>3. QED
      BY <1>13, <2>1, <2>2
  <1>15. QED
    BY <1>12, <1>14 DEF Bears

\* What the loop is about to record.
LEMMA LoopTold ==
    ASSUME Inv, Told, [Next]_vars, worker'.pc = "complete"
    PROVE  Left(worker.job)' /\ Bears(worker.job, worker.result.state)'
  <1>0. /\ worker \in Worker /\ fate \in [Message -> Fate] /\ radio \in [Gateway -> SUBSET Message]
    BY DEF Inv, TypeOK
  <1>1. ASSUME LoopSend
        PROVE  Left(worker.job)' /\ Bears(worker.job, worker.result.state)'
    <2>1. PICK m : m = worker.job
      OBVIOUS
    <2>2. PICK outcome \in {"accepted", "rejected", "none"} :
            /\ \E result \in Answers(outcome, submitted[worker.job] + 1) :
                    worker' = [worker EXCEPT !.pc = "complete", !.result = result]
            /\ fate' = [fate EXCEPT ![m] = outcome]
      BY <1>1, <2>1 DEF LoopSend
    <2>3. m \in Message /\ Held(m) /\ radio' = radio
      BY <1>1, <2>1 DEF LoopSend, Inv, JobInHand, Held, phoneVars
    <2>4. Left(m)' /\ \A g \in Gateway : m \notin radio'[g]
      BY <2>3, AskedOnce, BearsStays
    <2>5. worker'.job = m /\ fate'[m] = outcome
      BY <1>0, <2>1, <2>2, <2>3 DEF Worker
    <2>6. PICK s : s = worker'.result.state
      OBVIOUS
    <2>7. \/ s = "accepted" /\ outcome = "accepted"
          \/ s = "failed" /\ outcome = "rejected"
          \/ s = "unknown"
      BY <1>0, <2>2, <2>6 DEF Answers, NoResult, Worker
    <2>8. Bears(m, s)'
      BY <2>4, <2>5, <2>7 DEF Bears
    <2>9. QED
      BY <2>4, <2>5, <2>6, <2>8 DEF Left, Bears, Held
  <1>2. ASSUME ~LoopSend
        PROVE  worker' = worker
    <2>1. CASE UNCHANGED vars
      BY <2>1 DEF vars, serverVars
    <2>2. CASE Callers \/ Carrier \/ Tick
      BY <2>2 DEF Callers, Queue, Replay, Delete, Purge, Carrier, CarrierAdvances,
         TwilioReceipt, Tick, serverVars
    <2>3. CASE Loop
      <3>1. CASE LoopExpire
        BY <1>0, <3>1 DEF LoopExpire, Worker
      <3>2. CASE LoopClaim
        BY <1>0, <3>2 DEF LoopClaim, Worker
      <3>3. CASE LoopIdle \/ LoopComplete
        BY <3>3 DEF LoopIdle, LoopComplete, LoopStart
      <3>4. QED
        BY <1>2, <2>3, <3>1, <3>2, <3>3 DEF Loop
    <2>4. ASSUME NEW g \in Gateway, App(g)
          PROVE  worker' = worker
      BY <2>4 DEF App, Enrol, Revoke, PhoneCalls, ServeClaim, ServeNothing, PhoneRefuses,
         PhoneSubmits, PhoneTimesOut, PhoneRestarts, PhoneResets, PhonePosts, RadioReports, serverVars
    <2>5. CASE \E r \in posts : ServeResult(r)
      BY <2>5 DEF ServeResult
    <2>6. CASE \E d \in Drivers : Restart(d)
      BY <2>6 DEF Restart, LoopStart
    <2>7. QED
      BY <2>1, <2>2, <2>3, <2>4, <2>5, <2>6 DEF Next
  <1>3. ASSUME ~LoopSend
        PROVE  Left(worker.job)' /\ Bears(worker.job, worker.result.state)'
    <2>1. PICK m, s : m = worker.job /\ s = worker.result.state
      OBVIOUS
    <2>2. Left(m) /\ Bears(m, s)
      BY <1>2, <1>3, <2>1 DEF Told
    <2>3. Left(m)' /\ Bears(m, s)'
      BY <2>2, BearsStays
    <2>4. QED
      BY <1>2, <1>3, <2>1, <2>3 DEF Left, Bears, Held
  <1>4. QED
    BY <1>1, <1>3

\* What a gateway's request says.
LEMMA PostsTold ==
    ASSUME Inv, Told, [Next]_vars, NEW r \in posts'
    PROVE  Left(r.message)' /\ Bears(r.message, r.state)'
  <1>1. ASSUME NEW g \in Gateway, PhonePosts(g), r \notin posts
        PROVE  Left(r.message) /\ Bears(r.message, r.state)
    <2>1. /\ phone[g].phase = "ack"
          /\ r.message = phone[g].job /\ r.state = phone[g].result
      BY <1>1 DEF PhonePosts
    <2>2. phone[g].job # None
      BY <2>1, NamesAssumption DEF Inv, JobInHand
    <2>3. QED
      BY <2>1, <2>2 DEF Told
  <1>2. ASSUME \A g \in Gateway : ~PhonePosts(g)
        PROVE  r \in posts
    <2>1. CASE UNCHANGED vars
      BY <2>1 DEF vars, serverVars
    <2>2. CASE Callers \/ Carrier \/ Tick \/ Loop
      BY <2>2 DEF Callers, Queue, Replay, Delete, Purge, Carrier, CarrierAdvances,
         TwilioReceipt, Tick, Loop, LoopExpire, LoopClaim, LoopIdle, LoopSend, LoopComplete, serverVars
    <2>3. ASSUME NEW g \in Gateway, App(g)
          PROVE  r \in posts
      BY <1>2, <2>3 DEF App, Enrol, Revoke, PhoneCalls, ServeClaim, ServeNothing, PhoneRefuses,
         PhoneSubmits, PhoneTimesOut, PhoneRestarts, PhoneResets, RadioReports, serverVars
    <2>4. CASE (\E q \in posts : ServeResult(q)) \/ (\E d \in Drivers : Restart(d))
      BY <2>4 DEF ServeResult, Restart
    <2>5. QED
      BY <2>1, <2>2, <2>3, <2>4 DEF Next
  <1>3. Left(r.message) /\ Bears(r.message, r.state)
    BY <1>1, <1>2 DEF Told
  <1>4. QED
    BY <1>3, BearsStays

\* What Twilio calls back with, and what nobody was asked to send.
LEMMA ReceiptsTold ==
    ASSUME Inv, Told, [Next]_vars, NEW m \in Message
    PROVE  /\ \A r \in receipts'[m] : Bears(m, r.state)'
           /\ submitted'[m] = 0 => fate'[m] = "none"
  <1>0. /\ fate \in [Message -> Fate] /\ submitted \in [Message -> Nat]
        /\ receipts \in [Message -> SUBSET Receipt]
    BY DEF Inv, TypeOK
  <1>1. ASSUME NEW r \in receipts[m]
        PROVE  Bears(m, r.state)'
    BY BearsStays DEF Told, Inv, Solicited, Unclaimed, Left
  <1>2. CASE LoopSend
    <2>1. PICK id, outcome : /\ fate' = [fate EXCEPT ![worker.job] = outcome]
                             /\ submitted' = [submitted EXCEPT ![worker.job] = id]
                             /\ id = submitted[worker.job] + 1
                             /\ receipts' = IF outcome # "accepted" THEN receipts
                                   ELSE [receipts EXCEPT ![worker.job] =
                                            @ \cup {[provider_id |-> id, state |-> "accepted"]}]
      BY <1>2 DEF LoopSend
    <2>2. worker.job \in Message /\ Held(worker.job) /\ radio' = radio
      BY <1>2 DEF LoopSend, Inv, JobInHand, Held, phoneVars
    <2>3. CASE m = worker.job
      <3>1. submitted'[m] # 0 /\ fate'[m] = outcome
        BY <1>0, <2>1, <2>3
      <3>2. ASSUME outcome = "accepted"
            PROVE  Bears(m, "accepted")'
        BY <2>2, <2>3, <3>1, <3>2, AskedOnce DEF Bears
      <3>3. \A r \in receipts'[m] : r \in receipts[m] \/ (outcome = "accepted" /\ r.state = "accepted")
        BY <1>0, <2>1, <2>3
      <3>4. QED
        BY <1>1, <3>1, <3>2, <3>3
    <2>4. CASE m # worker.job
      BY <1>0, <1>1, <2>1, <2>4 DEF Told
    <2>5. QED
      BY <2>3, <2>4
  <1>3. ASSUME NEW n \in Message, CarrierAdvances(n)
        PROVE  /\ \A r \in receipts'[m] : Bears(m, r.state)'
               /\ submitted'[m] = 0 => fate'[m] = "none"
    <2>1. PICK state \in {"sent", "delivered", "failed"}, r \in receipts[n] :
            /\ receipts' = [receipts EXCEPT ![n] =
                                @ \cup {[provider_id |-> r.provider_id, state |-> state]}]
            /\ fate' = [fate EXCEPT ![n] = state]
      BY <1>3 DEF CarrierAdvances
    <2>2. submitted' = submitted /\ submitted[n] > 0
      BY <1>3, <2>1 DEF CarrierAdvances, Inv, Solicited
    <2>3. CASE m = n
      <3>1. fate'[m] = state
        BY <1>0, <2>1, <2>3
      <3>2. Bears(m, state)'
        BY <3>1 DEF Bears
      <3>3. \A q \in receipts'[m] : q \in receipts[m] \/ q.state = state
        BY <1>0, <2>1, <2>3
      <3>4. submitted'[m] # 0
        BY <1>0, <2>2, <2>3
      <3>5. QED
        BY <1>1, <3>2, <3>3, <3>4
    <2>4. CASE m # n
      BY <1>0, <1>1, <2>1, <2>2, <2>4 DEF Told
    <2>5. QED
      BY <2>3, <2>4
  <1>4. ASSUME NEW g \in Gateway, PhoneSubmits(g)
        PROVE  /\ \A r \in receipts'[m] : Bears(m, r.state)'
               /\ submitted'[m] = 0 => fate'[m] = "none"
    <2>1. /\ submitted' = [submitted EXCEPT ![phone[g].submit] = @ + 1]
          /\ fate' = fate \/ fate' = [fate EXCEPT ![phone[g].submit] = "accepted"]
          /\ receipts' = receipts
      BY <1>4 DEF PhoneSubmits
    <2>2. QED
      BY <1>0, <1>1, <2>1 DEF Told
  <1>5. ASSUME NEW g \in Gateway, NEW n \in Message, RadioReports(g, n)
        PROVE  /\ \A r \in receipts'[m] : Bears(m, r.state)'
               /\ submitted'[m] = 0 => fate'[m] = "none"
    <2>1. /\ \E outcome : fate' = [fate EXCEPT ![n] = outcome]
          /\ n \in radio[g] /\ UNCHANGED <<submitted, receipts>>
      BY <1>5 DEF RadioReports
    <2>2. submitted[n] > 0
      BY <2>1 DEF Told
    <2>3. QED
      BY <1>0, <1>1, <2>1, <2>2 DEF Told
  <1>6. ASSUME ~LoopSend, \A g \in Gateway : ~PhoneSubmits(g), UNCHANGED <<fate, radio, receipts>>
        PROVE  /\ \A r \in receipts'[m] : Bears(m, r.state)'
               /\ submitted'[m] = 0 => fate'[m] = "none"
    BY <1>1, <1>6, OthersHold DEF Told
  <1>7. QED
    BY <1>2, <1>3, <1>4, <1>5, <1>6, FateStill

\* What a phone's radio has yet to report on.
RadioTold == \A g \in Gateway : \A m \in radio[g] :
                /\ fate[m] = "accepted" /\ submitted[m] > 0 /\ receipts[m] = {}
                /\ \A h \in Gateway : m \in radio[h] => h = g

LEMMA RadioToldStep ==
    ASSUME Inv, Told, [Next]_vars
    PROVE  RadioTold'
  <1>0. /\ fate \in [Message -> Fate] /\ submitted \in [Message -> Nat]
        /\ receipts \in [Message -> SUBSET Receipt] /\ radio \in [Gateway -> SUBSET Message]
        /\ RadioTold
    BY DEF Inv, TypeOK, Told, RadioTold
  <1>1. CASE LoopSend
    <2>1. /\ \E outcome : fate' = [fate EXCEPT ![worker.job] = outcome]
          /\ submitted' = [submitted EXCEPT ![worker.job] = submitted[worker.job] + 1]
          /\ \A n \in Message : n # worker.job => receipts'[n] = receipts[n]
          /\ radio' = radio
      BY <1>0, <1>1 DEF LoopSend, phoneVars
    <2>2. worker.job \in Message /\ Held(worker.job)
      BY <1>1 DEF LoopSend, Inv, JobInHand, Held
    <2>3. \A g \in Gateway : worker.job \notin radio[g]
      BY <2>2, AskedOnce
    <2>4. QED
      BY <1>0, <2>1, <2>3 DEF RadioTold
  <1>2. ASSUME NEW n \in Message, CarrierAdvances(n)
        PROVE  RadioTold'
    <2>1. /\ \E state : fate' = [fate EXCEPT ![n] = state]
          /\ UNCHANGED <<submitted, radio>> /\ receipts[n] # {}
          /\ \A k \in Message : k # n => receipts'[k] = receipts[k]
      BY <1>0, <1>2 DEF CarrierAdvances, phoneVars
    <2>2. QED
      BY <1>0, <2>1 DEF RadioTold
  <1>3. ASSUME NEW g \in Gateway, PhoneSubmits(g)
        PROVE  RadioTold'
    <2>1. PICK m : m = phone[g].submit
      OBVIOUS
    <2>2. m \in Message /\ Held(m)
      BY <1>3, <2>1 DEF PhoneSubmits, Held, Inv, TypeOK, Phone
    <2>3. submitted[m] = 0 /\ receipts[m] = {} /\ \A h \in Gateway : m \notin radio[h]
      BY <2>2, AskedOnce
    <2>4. /\ submitted' = [submitted EXCEPT ![m] = @ + 1] /\ receipts' = receipts
          /\ \/ UNCHANGED <<fate, radio>>
             \/ /\ fate' = [fate EXCEPT ![m] = "accepted"]
                /\ radio' = [radio EXCEPT ![g] = @ \cup {m}]
      BY <1>3, <2>1 DEF PhoneSubmits
    <2>5. submitted'[m] = 1 /\ \A n \in Message \ {m} : submitted'[n] = submitted[n]
      BY <1>0, <2>2, <2>3, <2>4
    <2>6. CASE UNCHANGED <<fate, radio>>
      BY <1>0, <2>3, <2>4, <2>5, <2>6 DEF RadioTold
    <2>7. CASE fate' = [fate EXCEPT ![m] = "accepted"] /\ radio' = [radio EXCEPT ![g] = @ \cup {m}]
      <3>1. \A h \in Gateway, n \in Message : n \in radio'[h] => n \in radio[h] \/ (n = m /\ h = g)
        BY <1>0, <2>2, <2>7
      <3>2. fate'[m] = "accepted" /\ \A n \in Message \ {m} : fate'[n] = fate[n]
        BY <1>0, <2>2, <2>7
      <3>3. \A h \in Gateway : radio'[h] \subseteq Message
        BY <1>0, <2>2, <2>7
      <3>4. QED
        BY <1>0, <2>3, <2>4, <2>5, <3>1, <3>2, <3>3 DEF RadioTold
    <2>8. QED
      BY <2>4, <2>6, <2>7
  <1>4. ASSUME NEW g \in Gateway, NEW n \in Message, RadioReports(g, n)
        PROVE  RadioTold'
    <2>1. /\ \E outcome : fate' = [fate EXCEPT ![n] = outcome]
          /\ UNCHANGED <<submitted, receipts>> /\ n \in radio[g]
          /\ radio' = [radio EXCEPT ![g] = @ \ {n}]
      BY <1>4 DEF RadioReports
    <2>2. QED
      BY <1>0, <2>1 DEF RadioTold
  <1>5. ASSUME ~LoopSend, \A g \in Gateway : ~PhoneSubmits(g), UNCHANGED <<fate, radio, receipts>>
        PROVE  RadioTold'
    BY <1>0, <1>5, OthersHold DEF RadioTold
  <1>6. QED
    BY <1>1, <1>2, <1>3, <1>4, <1>5, FateStill

\* What an app has in its preferences.
Carried(e) ==
    /\ e.job # None => Left(e.job)
    /\ e.phase = "ack" => Bears(e.job, e.result)
    /\ None \in {e.job, e.submit} \/ e.submit = e.job

LEMMA CarriedStays ==
    ASSUME Inv, Told, [Next]_vars, NEW e \in Phone, Carried(e),
           e.phase # "idle" => e.job \in Message
    PROVE  Carried(e)'
  <1>1. e.job # None => Left(e.job)'
    BY BearsStays DEF Carried
  <1>2. ASSUME e.phase = "ack"
        PROVE  Bears(e.job, e.result)'
    <2>1. Left(e.job) /\ Bears(e.job, e.result)
      BY <1>2, NamesAssumption DEF Carried
    <2>2. QED
      BY <2>1, BearsStays
  <1>3. QED
    BY <1>1, <1>2 DEF Carried

\* (e and a are values; they are carried in the state after the step.)
LEMMA AckedCarried ==
    ASSUME NEW e \in Phone, Carried(e)', NEW r \in GatewayState,
           r = "unknown" \/ Bears(e.job, r)', NEW a, a = Acked(e, r)
    PROVE  a \in Phone /\ Carried(a)'
  <1>1. CASE e.job = None
    BY <1>1 DEF Acked
  <1>2. CASE e.job # None
    <2>1. a \in Phone /\ a.job = e.job /\ a.submit = e.submit
      BY AckedType
    <2>2. a.result = r
      BY <1>2 DEF Acked, Phone
    <2>3. Bears(e.job, r)'
      BY DEF Bears
    <2>4. QED
      BY <2>1, <2>2, <2>3 DEF Carried
  <1>3. QED
    BY <1>1, <1>2

LEMMA UnsubmitCarried ==
    ASSUME NEW e \in Phone, Carried(e)', NEW a,
           \/ a = [e EXCEPT !.submit = None]
           \/ a = [e EXCEPT !.submit = None, !.awaiting = "nothing"]
    PROVE  Carried(a)'
  <1>1. a.job = e.job /\ a.phase = e.phase /\ a.result = e.result /\ a.submit = None
    BY DEF Phone
  <1>2. QED
    BY <1>1 DEF Carried

LEMMA IdleCarried ==
    ASSUME NEW s, NEW a, a = IdlePhone \/ a = [IdlePhone EXCEPT !.submit = s]
    PROVE  Carried(a)'
  <1>1. a.job = None /\ a.phase = "idle"
    BY DEF IdlePhone
  <1>2. QED
    BY <1>1 DEF Carried

LEMMA PhonesTold ==
    ASSUME Inv, Inv', Told, [Next]_vars
    PROVE  \A h \in Gateway : Carried(phone[h])'
  <1>0. /\ phone \in [Gateway -> Phone] /\ None \notin Message
        /\ \A h \in Gateway : phone[h].phase # "idle" => phone[h].job \in Message
    BY NamesAssumption DEF Inv, TypeOK, JobInHand
  <1>1. ASSUME NEW h \in Gateway, NEW e, e = phone[h]
        PROVE  e \in Phone /\ Carried(e) /\ Carried(e)'
    <2>1. e \in Phone /\ (e.phase # "idle" => e.job \in Message)
      BY <1>0, <1>1
    <2>2. Carried(e)
      BY <1>1 DEF Told, Carried
    <2>3. QED
      BY <2>1, <2>2, CarriedStays
  <1>2. ASSUME NEW h \in Gateway, NEW e, e = phone'[h], Carried(e)'
        PROVE  Carried(phone[h])'
    BY <1>2 DEF Carried
  <1>3. ASSUME UNCHANGED phone
        PROVE  \A h \in Gateway : Carried(phone[h])'
    <2> SUFFICES ASSUME NEW h \in Gateway
                 PROVE  Carried(phone[h])'
      OBVIOUS
    <2>1. PICK e : e = phone[h]
      OBVIOUS
    <2>2. QED
      BY <1>1, <1>2, <1>3, <2>1
  <1>4. ASSUME NEW g \in Gateway, NEW e, phone' = [phone EXCEPT ![g] = e], Carried(e)'
        PROVE  \A h \in Gateway : Carried(phone[h])'
    <2> SUFFICES ASSUME NEW h \in Gateway
                 PROVE  Carried(phone[h])'
      OBVIOUS
    <2>1. CASE h = g
      <3>1. e = phone'[h]
        BY <1>0, <1>4, <2>1
      <3>2. QED
        BY <1>2, <1>4, <3>1
    <2>2. CASE h # g
      <3>1. PICK f : f = phone[h]
        OBVIOUS
      <3>2. f = phone'[h] /\ Carried(f)'
        BY <1>0, <1>1, <1>4, <2>2, <3>1
      <3>3. QED
        BY <1>2, <3>2
    <2>3. QED
      BY <2>1, <2>2
  <1>5. ASSUME NEW g \in Gateway, ServeClaim(g)
        PROVE  \A h \in Gateway : Carried(phone[h])'
    <2>1. PICK now \in Recent, m \in Message :
            /\ ClaimRelay(m, "android", g, now)
            /\ \/ UNCHANGED phone
               \/ phone' = [phone EXCEPT
                    ![g] = [IdlePhone EXCEPT !.job = m, !.token = relay_jobs'[m].token,
                                             !.phase = "dispatching", !.submit = m]]
      BY <1>5 DEF ServeClaim
    <2>2. Left(m)'
      BY <2>1 DEF ClaimRelay, Left, Inv, TypeOK, StoreTypeOK
    <2>3. PICK e : e = [IdlePhone EXCEPT !.job = m, !.token = relay_jobs'[m].token,
                                         !.phase = "dispatching", !.submit = m]
      OBVIOUS
    <2>4. e.job = m /\ e.phase = "dispatching" /\ e.submit = m
      BY <2>3 DEF IdlePhone
    <2>5. Carried(e)'
      BY <2>2, <2>4 DEF Carried
    <2>6. QED
      BY <1>3, <1>4, <2>1, <2>3, <2>5
  <1>6. ASSUME NEW g \in Gateway, PhoneRefuses(g)
        PROVE  \A h \in Gateway : Carried(phone[h])'
    <2>1. PICK e, a, b : /\ e = phone[g] /\ a = Acked(e, "failed")
                         /\ b = [a EXCEPT !.submit = None]
      OBVIOUS
    <2>2. e \in Phone /\ Carried(e) /\ Carried(e)'
      BY <1>1, <2>1
    <2>3. phone' = [phone EXCEPT ![g] = b]
      BY <1>6, <2>1 DEF PhoneRefuses
    <2>4. a \in Phone /\ a.submit = e.submit
      BY <2>1, <2>2, AckedType DEF GatewayState
    <2>5. b.submit = None
      BY <2>1, <2>4, SubmitType
    <2>6. CASE e.job = None
      <3>1. a = e
        BY <2>1, <2>6 DEF Acked
      <3>2. QED
        BY <1>4, <2>1, <2>2, <2>3, <3>1, UnsubmitCarried
    <2>7. CASE e.job # None
      <3>1. e.submit = e.job /\ e.job \in Message /\ Held(e.job)
        BY <1>6, <2>1, <2>2, <2>7 DEF PhoneRefuses, Carried, Left, Held
      <3>2. fate'[e.job] = "none"
        BY <1>6, <3>1, AskedOnce DEF PhoneRefuses, carrierVars
      <3>3. \A h \in Gateway : phone'[h].submit # e.job
        BY <1>0, <2>1, <2>3, <2>5, <3>1 DEF Inv, HeldOnce
      <3>4. ~(worker'.pc = "send" /\ worker'.job = e.job)
        BY <1>6, <2>1, <3>1 DEF PhoneRefuses, serverVars, Inv, HeldOnce
      <3>5. Bears(e.job, "failed")'
        BY <3>2, <3>3, <3>4 DEF Bears, Held
      <3>6. Carried(a)'
        BY <2>1, <2>2, <3>5, AckedCarried DEF GatewayState
      <3>7. QED
        BY <1>4, <2>1, <2>3, <2>4, <3>6, UnsubmitCarried
    <2>8. QED
      BY <2>6, <2>7
  <1>7. ASSUME NEW g \in Gateway, PhoneSubmits(g)
        PROVE  \A h \in Gateway : Carried(phone[h])'
    <2>1. PICK threw \in BOOLEAN :
            phone' = [phone EXCEPT
                ![g] = [IF threw THEN Acked(phone[g], "unknown") ELSE phone[g] EXCEPT !.submit = None]]
      BY <1>7 DEF PhoneSubmits
    <2>2. PICK e, a, b : /\ e = phone[g] /\ a = Acked(e, "unknown")
                         /\ b = [IF threw THEN a ELSE e EXCEPT !.submit = None]
      OBVIOUS
    <2>3. e \in Phone /\ Carried(e)'
      BY <1>1, <2>2
    <2>4. a \in Phone /\ Carried(a)'
      BY <2>2, <2>3, AckedCarried DEF GatewayState
    <2>5. Carried(b)'
      BY <2>2, <2>3, <2>4, UnsubmitCarried
    <2>6. phone' = [phone EXCEPT ![g] = b]
      BY <2>1, <2>2
    <2>7. QED
      BY <1>4, <2>5, <2>6
  <1>8. ASSUME NEW g \in Gateway, NEW m \in Message, RadioReports(g, m)
        PROVE  \A h \in Gateway : Carried(phone[h])'
    <2>1. PICK outcome \in {"sent", "failed", "mixed"} :
            /\ fate' = [fate EXCEPT ![m] = outcome]
            /\ \/ UNCHANGED phone
               \/ /\ phone[g].job = m
                  /\ phone' = [phone EXCEPT
                        ![g] = Acked(@, IF outcome = "mixed" THEN "unknown" ELSE outcome)]
      BY <1>8 DEF RadioReports
    <2>2. CASE UNCHANGED phone
      BY <1>3, <2>2
    <2>3. CASE /\ phone[g].job = m
               /\ phone' = [phone EXCEPT
                        ![g] = Acked(@, IF outcome = "mixed" THEN "unknown" ELSE outcome)]
      <3>1. PICK e, r, a : /\ e = phone[g] /\ a = Acked(e, r)
                           /\ r = IF outcome = "mixed" THEN "unknown" ELSE outcome
        OBVIOUS
      <3>2. e \in Phone /\ Carried(e)' /\ r \in GatewayState
        BY <1>1, <3>1 DEF GatewayState
      <3>3. fate'[m] = outcome
        BY <2>1 DEF Inv, TypeOK
      <3>4. r = "unknown" \/ Bears(e.job, r)'
        BY <2>3, <3>1, <3>3 DEF Bears
      <3>5. Carried(a)'
        BY <3>1, <3>2, <3>4, AckedCarried
      <3>6. QED
        BY <1>4, <2>3, <3>1, <3>5
    <2>4. QED
      BY <2>1, <2>2, <2>3
  <1>9. ASSUME NEW g \in Gateway, PhoneTimesOut(g)
        PROVE  \A h \in Gateway : Carried(phone[h])'
    <2>1. PICK e, a : e = phone[g] /\ a = Acked(e, "unknown")
      OBVIOUS
    <2>2. Carried(a)'
      BY <1>1, <2>1, AckedCarried DEF GatewayState
    <2>3. QED
      BY <1>4, <1>9, <2>1, <2>2 DEF PhoneTimesOut
  <1>10. ASSUME NEW g \in Gateway, PhoneRestarts(g)
         PROVE  \A h \in Gateway : Carried(phone[h])'
    <2>1. PICK e, p, q : /\ e = phone[g]
                         /\ p = IF e.phase = "dispatching" THEN Acked(e, "unknown") ELSE e
                         /\ q = [p EXCEPT !.submit = None, !.awaiting = "nothing"]
      OBVIOUS
    <2>2. e \in Phone /\ Carried(e)'
      BY <1>1, <2>1
    <2>3. p \in Phone /\ Carried(p)'
      BY <2>1, <2>2, AckedCarried DEF GatewayState
    <2>4. Carried(q)'
      BY <2>1, <2>3, UnsubmitCarried
    <2>5. phone' = [phone EXCEPT ![g] = q] \/ phone' = [phone EXCEPT ![g] = p]
      BY <1>10, <2>1 DEF PhoneRestarts
    <2>6. QED
      BY <1>4, <2>3, <2>4, <2>5
  <1>11. ASSUME NEW g \in Gateway, PhoneResets(g)
         PROVE  \A h \in Gateway : Carried(phone[h])'
    <2>1. PICK s, a : a = [IdlePhone EXCEPT !.submit = s] /\ phone' = [phone EXCEPT ![g] = a]
      BY <1>11 DEF PhoneResets
    <2>2. QED
      BY <1>4, <2>1, IdleCarried
  <1>12. ASSUME NEW g \in Gateway, PhonePosts(g)
         PROVE  \A h \in Gateway : Carried(phone[h])'
    <2>1. PICK e, a : e = phone[g] /\ a = [e EXCEPT !.awaiting = e.result]
      OBVIOUS
    <2>2. e \in Phone /\ Carried(e)' /\ phone' = [phone EXCEPT ![g] = a]
      BY <1>0, <1>1, <1>12, <2>1 DEF PhonePosts
    <2>3. a.job = e.job /\ a.phase = e.phase /\ a.result = e.result /\ a.submit = e.submit
      BY <2>1, <2>2 DEF Phone
    <2>4. Carried(a)'
      BY <2>2, <2>3 DEF Carried
    <2>5. QED
      BY <1>4, <2>2, <2>4
  <1>13. ASSUME NEW r \in posts, ServeResult(r)
         PROVE  \A h \in Gateway : Carried(phone[h])'
    <2>1. r.gateway \in Gateway
      BY DEF Inv, TypeOK, Post
    <2>2. UNCHANGED phone \/ phone' = [phone EXCEPT ![r.gateway] = IdlePhone]
      BY <1>13 DEF ServeResult
    <2>3. Carried(IdlePhone)'
      BY IdleCarried
    <2>4. QED
      BY <1>3, <1>4, <2>1, <2>2, <2>3
  <1>14. CASE \/ Callers \/ Loop \/ Carrier \/ Tick \/ UNCHANGED vars
              \/ \E d \in Drivers : Restart(d)
              \/ \E g \in Gateway : \/ Enrol(g) \/ Revoke(g) \/ PhoneCalls(g) \/ ServeNothing(g)
    <2>1. UNCHANGED phone
      BY <1>14 DEF Callers, Queue, Replay, Delete, Purge, Loop, LoopExpire, LoopClaim, LoopIdle,
         LoopSend, LoopComplete, Carrier, CarrierAdvances, TwilioReceipt, Tick, vars, Restart,
         Enrol, Revoke, PhoneCalls, ServeNothing, phoneVars
    <2>2. QED
      BY <1>3, <2>1
  <1>15. QED
    BY <1>5, <1>6, <1>7, <1>8, <1>9, <1>10, <1>11, <1>12, <1>13, <1>14 DEF Next, App

LEMMA NextTold ==
    ASSUME Inv, Inv', Told, [Next]_vars
    PROVE  Told'
  <1>1. \A m \in Message : /\ submitted'[m] = 0 => fate'[m] = "none"
                          /\ Bears(m, messages[m])'
                          /\ \A r \in receipts'[m] : Bears(m, r.state)'
    BY ReceiptsTold, StatusTold
  <1>2. worker'.pc = "complete" =>
            Left(worker.job)' /\ Bears(worker.job, worker.result.state)'
    BY LoopTold
  <1>3. \A g \in Gateway : Carried(phone[g])'
    BY PhonesTold
  <1>4. \A r \in posts' : Left(r.message)' /\ Bears(r.message, r.state)'
    BY PostsTold
  <1>5. RadioTold'
    BY RadioToldStep
  <1>6. QED
    BY <1>1, <1>2, <1>3, <1>4, <1>5 DEF Told, Carried, RadioTold

\* The recorded state of a message never claims more, or other, than the carrier
\* knows, whatever is lost, late or reported twice on the way.
THEOREM RecordsTrue == Spec => []Truthful
  <1>1. Init => Told
    <2> SUFFICES ASSUME Init
                 PROVE  Told
      OBVIOUS
    <2>1. \A m \in Message : Bears(m, messages[m])
      BY DEF Init, StoreInit, Bears
    <2>2. QED
      BY <2>1 DEF Init, LoopStart, IdlePhone, Told
  <1>2. Inv /\ Told /\ [Next]_vars => Inv' /\ Told'
    BY NextInv, NextTold
  <1>3. Inv /\ Told => Truthful
    <2> SUFFICES ASSUME Inv, Told
                 PROVE  Truthful
      OBVIOUS
    <2>1. \A m \in Message : messages[m] \in {"free", "queued", "expired"} => fate[m] = "none"
      BY DEF Inv, Unclaimed, Told
    <2>2. \A m \in Message : Bears(m, messages[m])
      BY DEF Told
    <2>3. QED
      BY <2>1, <2>2 DEF Truthful, Bears
  <1>4. Init => Inv
    BY InitInv
  <1>5. QED
    BY <1>1, <1>2, <1>3, <1>4, PTL DEF Spec
=============================================================================
