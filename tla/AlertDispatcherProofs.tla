------------------------ MODULE AlertDispatcherProofs ------------------------
(***************************************************************************)
(* Theorems about AlertDispatcher for every set of processes, requests,    *)
(* wallets and scores, every cooldown and number of retries and faults.    *)
(***************************************************************************)
EXTENDS AlertDispatcher, FiniteSetTheorems, TLAPS

\* The assumptions, one by one.
LEMMA Constants ==
  /\ IsFiniteSet(Dispatchers) /\ Deployments \subseteq SUBSET Dispatchers
  /\ WalletOf \in [Requests -> Wallets] /\ ScoreOf \in [Requests -> Nat]
  /\ Thresholds \subseteq Nat /\ Reconciling \subseteq BOOLEAN
  /\ Channels \subseteq {"stdout", "webhook", "websocket"}
  /\ Cooldown \in Nat /\ Cooldown > 0 /\ MaxRetries \in Nat
  /\ Nowhere \notin Dispatchers /\ MaxTime \in Nat /\ MaxFaults \in Nat
  BY DispatcherAssumption

\* The window of a time is not beyond it.
LEMMA WindowBound ==
  ASSUME NEW t \in Nat
  PROVE  t \div Cooldown \in 0 .. t
  BY Constants

\* Times a cooldown apart lie in different windows.
LEMMA WindowsDiffer ==
  ASSUME NEW s \in Nat, NEW t \in Nat, s + Cooldown <= t
  PROVE  s \div Cooldown # t \div Cooldown
  BY Constants

\* An idempotency key names the call's wallet and the window it is in.
LEMMA KeyFacts ==
  ASSUME TypeOK, NEW r \in Requests
  PROVE  /\ IdempotencyKey(r) \in Keys
         /\ IdempotencyKey(r)[1] = WalletOf[r]
         /\ IdempotencyKey(r)[3] = clock \div Cooldown
  <1>1. clock \in Nat /\ clock <= MaxTime /\ MaxTime \in Nat
    BY Constants DEF TypeOK
  <1>2. clock \div Cooldown \in 0 .. MaxTime
    <2>1. clock \div Cooldown \in 0 .. clock
      BY <1>1, WindowBound
    <2> QED BY <1>1, <2>1
  <1>3. WalletOf[r] \in Wallets /\ ScoreOf[r] \in Scores
    BY Constants DEF Scores
  <1> QED BY <1>2, <1>3 DEF IdempotencyKey, Keys, Windows

\* The steps, in groups: of a call that is being decided on, of one that is being
\* delivered, of a process, and of a startup reconciliation.
Decide(d, r) ==
  BelowThreshold(d, r) \/ Suppress(d, r) \/ SuppressRaises(d, r) \/ Accept(d, r)
Sending(r) ==
  \/ CheckLedger(r) \/ RecordIntent(r) \/ Send(r) \/ PostRefused(r) \/ PostFails(r)
  \/ RecordDelivered(r) \/ RecordDeadLetter(r) \/ LedgerRaises(r) \/ SendRaises(r)
  \/ Redeliver(r)
Resolving(d, k) ==
  \/ ReconcileResend(d, k) \/ ReconcilePostFails(d, k) \/ ReconcileSkip(d, k)
  \/ ReconcileRaises(d, k)
Quiet == Tick \/ UNCHANGED vars

LEMMA NextKinds ==
  [Next]_vars =>
    \/ \E d \in Dispatchers, r \in Requests : Decide(d, r)
    \/ \E r \in Requests : Sending(r)
    \/ \E d \in Dispatchers : Start(d) \/ Reconciled(d) \/ Crash(d)
    \/ \E d \in Dispatchers, k \in Keys : Resolving(d, k)
    \/ Quiet
  BY DEF Next, Dispatch, Deliver, Reconcile, Idle, Decide, Sending, Resolving, Quiet

\* Where each call is: a running one is in a process that is up, with its key,
\* and passed the cooldown there.
Located ==
  /\ \A d \in Dispatchers :
       /\ up[d] # "down" => d \in deployed
       /\ up[d] # "reconciling" => todo[d] = {}
  /\ \A r \in Requests :
       /\ pc[r] \notin Running => at[r] = Nowhere
       /\ pc[r] \in Running =>
            /\ at[r] \in Dispatchers /\ up[at[r]] = "running"
            /\ key[r] \in Keys /\ key[r][1] = WalletOf[r]
            /\ ScoreOf[r] >= threshold
            /\ \E t \in Nat : <<at[r], WalletOf[r], key[r], t>> \in accepts

\* A call leaves its process.
LEMMA Leaves ==
  ASSUME TypeOK, NEW r \in Requests, NEW place \in Places, Leave(r, place)
  PROVE  /\ pc' \in [Requests -> Places] /\ pc'[r] = place
         /\ at' \in [Requests -> Dispatchers \cup {Nowhere}] /\ at'[r] = Nowhere
         /\ attempt' \in [Requests -> 0 .. MaxRetries]
         /\ \A q \in Requests : q # r => pc'[q] = pc[q] /\ at'[q] = at[q]
  <1>1. 0 \in 0 .. MaxRetries
    BY Constants
  <1> QED BY <1>1 DEF Leave, TypeOK

\* Every step keeps every variable in its range.
LEMMA TypeStep == TypeOK /\ Located /\ [Next]_vars => TypeOK'
  <1> SUFFICES ASSUME TypeOK, Located, [Next]_vars PROVE TypeOK'
    OBVIOUS
  <1> USE Constants DEF TypeOK, setup, process
  <1>p. /\ Places = {"new", "raised", "returned", "accepted", "intent", "sending", "sent", "dead"}
        /\ Outcomes = {"in_flight", "delivered", "dead_lettered", "reconciled_skipped"}
    BY DEF Places, Running, Outcomes, Terminal
  <1>1. ASSUME NEW d \in Dispatchers, NEW r \in Requests, Decide(d, r) PROVE TypeOK'
    <2>1. CASE BelowThreshold(d, r)
      BY <1>p, <2>1, Leaves DEF BelowThreshold
    <2>2. CASE Suppress(d, r)
      BY <1>p, <2>2, Leaves DEF Suppress
    <2>4. CASE SuppressRaises(d, r)
      BY <1>p, <2>4, Leaves DEF SuppressRaises, Fault
    <2>3. CASE Accept(d, r)
      <3>1. /\ IdempotencyKey(r) \in Keys /\ WalletOf[r] \in Wallets
            /\ clock + Cooldown \in Nat
        BY KeyFacts
      <3> QED BY <1>p, <2>3, <3>1 DEF Accept
    <2> QED BY <1>1, <2>1, <2>2, <2>3, <2>4 DEF Decide
  <1>2. ASSUME NEW r \in Requests, Sending(r) PROVE TypeOK'
    <2>0. pc[r] \in Running => key[r] \in Keys
      BY DEF Located
    <2>1. CASE CheckLedger(r)
      <3>1. CASE Leave(r, "returned")
        BY <1>p, <2>1, <3>1, Leaves DEF CheckLedger
      <3>2. CASE ~Leave(r, "returned")
        BY <1>p, <2>1, <3>2 DEF CheckLedger
      <3> QED BY <3>1, <3>2
    <2>2. CASE RecordIntent(r)
      BY <1>p, <2>0, <2>2 DEF RecordIntent, Running
    <2>3. CASE Send(r)
      BY <1>p, <2>0, <2>3 DEF Send, Running
    <2>4. CASE PostRefused(r)
      BY <1>p, <2>4 DEF PostRefused
    <2>5. CASE PostFails(r)
      <3>1. received' \in [Keys -> Nat]
        BY <2>0, <2>5 DEF PostFails, Running
      <3>2. attempt' \in [Requests -> 0 .. MaxRetries] /\ pc' \in [Requests -> Places]
        BY <1>p, <2>5 DEF PostFails
      <3> QED BY <2>5, <3>1, <3>2 DEF PostFails, Fault
    <2>6. CASE RecordDelivered(r)
      BY <1>p, <2>0, <2>6, Leaves DEF RecordDelivered, Running
    <2>7. CASE RecordDeadLetter(r)
      BY <1>p, <2>0, <2>7, Leaves DEF RecordDeadLetter, Running
    <2>8. CASE SendRaises(r)
      <3>1. received' \in [Keys -> Nat] /\ raises' \in SUBSET Keys
        BY <2>0, <2>8 DEF SendRaises, Running
      <3> QED BY <1>p, <2>8, <3>1, Leaves DEF SendRaises, Fault
    <2>10. CASE LedgerRaises(r)
      <3>1. raises' \in SUBSET Keys /\ ledger' \in SUBSET (Keys \X Outcomes)
        <4>1. key[r] \in Keys
          BY <2>0, <2>10 DEF LedgerRaises, Recorded, Running
        <4>2. PICK o \in Outcomes : ledger' = ledger \/ ledger' = ledger \cup {<<key[r], o>>}
          BY <1>p, <2>10 DEF LedgerRaises, Recorded
        <4> QED BY <2>10, <4>1, <4>2 DEF LedgerRaises
      <3> QED BY <1>p, <2>10, <3>1, Leaves DEF LedgerRaises, Fault
    <2>9. CASE Redeliver(r)
      BY <1>p, <2>9 DEF Redeliver
    <2> QED BY <1>2, <2>1, <2>2, <2>3, <2>4, <2>5, <2>6, <2>7, <2>8, <2>9, <2>10 DEF Sending
  <1>3. ASSUME NEW d \in Dispatchers, Start(d) \/ Reconciled(d) \/ Crash(d) PROVE TypeOK'
    <2>1. CASE Start(d)
      <3>1. InFlight \subseteq Keys
        BY DEF InFlight
      <3>2. up' \in [Dispatchers -> {"down", "reconciling", "running"}]
        <4>1. PICK s \in {"reconciling", "running"} : up' = [up EXCEPT ![d] = s]
          BY <2>1 DEF Start
        <4> QED BY <4>1
      <3>3. todo' \in [Dispatchers -> SUBSET Keys]
        BY <2>1, <3>1 DEF Start
      <3> QED BY <2>1, <3>2, <3>3 DEF Start
    <2>2. CASE Reconciled(d)
      BY <2>2 DEF Reconciled
    <2>3. CASE Crash(d)
      BY <1>p, <2>3 DEF Crash, Fault
    <2> QED BY <1>3, <2>1, <2>2, <2>3
  <1>4. ASSUME NEW d \in Dispatchers, NEW k \in Keys, Resolving(d, k) PROVE TypeOK'
    <2>1. CASE ReconcileResend(d, k)
      <3>1. ledger' \in SUBSET (Keys \X Outcomes) /\ received' \in [Keys -> Nat]
        BY <1>p, <2>1 DEF ReconcileResend
      <3> QED BY <2>1, <3>1 DEF ReconcileResend
    <2>2. CASE ReconcilePostFails(d, k)
      <3>1. received' \in [Keys -> Nat]
        BY <2>2 DEF ReconcilePostFails
      <3> QED BY <2>2, <3>1 DEF ReconcilePostFails, Fault
    <2>3. CASE ReconcileSkip(d, k)
      BY <1>p, <2>3 DEF ReconcileSkip
    <2>4. CASE ReconcileRaises(d, k)
      <3>1. ledger' \in SUBSET (Keys \X Outcomes) /\ received' \in [Keys -> Nat]
        BY <1>p, <2>4 DEF ReconcileRaises
      <3> QED BY <2>4, <3>1 DEF ReconcileRaises, Fault
    <2> QED BY <1>4, <2>1, <2>2, <2>3, <2>4 DEF Resolving
  <1>5. CASE Quiet
    BY <1>5 DEF Quiet, Tick, vars
  <1> QED BY <1>1, <1>2, <1>3, <1>4, <1>5, NextKinds

\* Every step leaves each call where it may be.
LEMMA LocatedStep == TypeOK /\ Located /\ [Next]_vars => Located'
  <1> SUFFICES ASSUME TypeOK, Located, [Next]_vars PROVE Located'
    OBVIOUS
  <1> USE Constants DEF TypeOK, setup, process
  <1> DEFINE Lives(d) == /\ up[d] # "down" => d \in deployed
                         /\ up[d] # "reconciling" => todo[d] = {}
             Runs(r) == /\ pc[r] \notin Running => at[r] = Nowhere
                        /\ pc[r] \in Running =>
                             /\ at[r] \in Dispatchers /\ up[at[r]] = "running"
                             /\ key[r] \in Keys /\ key[r][1] = WalletOf[r]
                             /\ ScoreOf[r] >= threshold
                             /\ \E t \in Nat : <<at[r], WalletOf[r], key[r], t>> \in accepts
  <1>0. /\ \A d \in Dispatchers : Lives(d)
        /\ \A r \in Requests : Runs(r)
    BY DEF Located
  <1> SUFFICES /\ \A d \in Dispatchers : Lives(d)'
               /\ \A r \in Requests : Runs(r)'
    BY DEF Located
  <1>p. Running = {"accepted", "intent", "sending", "sent", "dead"}
    BY DEF Running
  <1>q. {"new", "raised", "returned"} \cap Running = {} /\ {"new", "raised", "returned"} \subseteq Places
    BY <1>p DEF Places
  \* A call moves within its process or leaves it, and the rest is as it was.
  <1>s. ASSUME NEW r \in Requests, UNCHANGED <<setup, process, accepts>>,
               \A q \in Requests : q # r => pc'[q] = pc[q] /\ at'[q] = at[q] /\ key'[q] = key[q],
               \/ pc'[r] \in {"new", "raised", "returned"} /\ at'[r] = Nowhere
               \/ pc[r] \in Running /\ pc'[r] \in Running /\ at'[r] = at[r] /\ key'[r] = key[r]
        PROVE  (\A e \in Dispatchers : Lives(e)') /\ \A q \in Requests : Runs(q)'
    <2>1. \A e \in Dispatchers : Lives(e)'
      BY <1>0, <1>s
    <2>2. ASSUME NEW q \in Requests, q # r PROVE Runs(q)'
      <3>1. Runs(q) /\ pc'[q] = pc[q] /\ at'[q] = at[q] /\ key'[q] = key[q]
        BY <1>0, <1>s, <2>2
      <3> QED BY <1>s, <3>1
    <2>3. Runs(r)'
      <3>1. Runs(r)
        BY <1>0
      <3>2. CASE pc'[r] \in {"new", "raised", "returned"} /\ at'[r] = Nowhere
        BY <1>q, <3>2
      <3>3. CASE pc[r] \in Running /\ pc'[r] \in Running /\ at'[r] = at[r] /\ key'[r] = key[r]
        BY <1>s, <3>1, <3>3
      <3> QED BY <1>s, <3>2, <3>3
    <2> QED BY <2>1, <2>2, <2>3
  <1>1. ASSUME NEW d \in Dispatchers, NEW r \in Requests, Decide(d, r)
        PROVE  (\A e \in Dispatchers : Lives(e)') /\ \A q \in Requests : Runs(q)'
    <2>1. CASE BelowThreshold(d, r) \/ Suppress(d, r) \/ SuppressRaises(d, r)
      <3>1. /\ Leave(r, "returned") \/ Leave(r, "raised")
            /\ UNCHANGED <<setup, process, key, accepts>>
        BY <2>1 DEF BelowThreshold, Suppress, SuppressRaises
      <3>2. /\ pc'[r] \in {"returned", "raised"} /\ at'[r] = Nowhere
            /\ \A q \in Requests : q # r => pc'[q] = pc[q] /\ at'[q] = at[q]
        BY <1>q, <3>1, Leaves
      <3> QED BY <1>s, <3>1, <3>2
    <2>3. CASE Accept(d, r)
      <3>1. /\ IdempotencyKey(r) \in Keys /\ IdempotencyKey(r)[1] = WalletOf[r] /\ clock \in Nat
        BY KeyFacts
      <3>2. Runs(r)'
        BY <1>p, <2>3, <3>1 DEF Accept, Enabled
      <3>3. ASSUME NEW q \in Requests, q # r PROVE Runs(q)'
        <4>1. /\ pc'[q] = pc[q] /\ at'[q] = at[q] /\ key'[q] = key[q]
              /\ accepts \subseteq accepts' /\ up' = up /\ threshold' = threshold
          BY <2>3, <3>3 DEF Accept
        <4>2. Runs(q)
          BY <1>0
        <4> QED BY <4>1, <4>2
      <3>4. \A e \in Dispatchers : Lives(e)'
        BY <1>0, <2>3 DEF Accept
      <3> QED BY <3>2, <3>3, <3>4
    <2> QED BY <1>1, <2>1, <2>3 DEF Decide
  <1>2. ASSUME NEW r \in Requests, Sending(r)
        PROVE  (\A e \in Dispatchers : Lives(e)') /\ \A q \in Requests : Runs(q)'
    <2>1. /\ UNCHANGED <<setup, process, accepts>>
          /\ \A q \in Requests : q # r => pc'[q] = pc[q] /\ at'[q] = at[q] /\ key'[q] = key[q]
          /\ \/ pc'[r] \in {"new", "raised", "returned"} /\ at'[r] = Nowhere
             \/ pc[r] \in Running /\ pc'[r] \in Running /\ at'[r] = at[r] /\ key'[r] = key[r]
      <3>1. CASE CheckLedger(r)
        <4>1. CASE Leave(r, "returned")
          BY <1>q, <3>1, <4>1, Leaves DEF CheckLedger
        <4>2. CASE ~Leave(r, "returned")
          BY <1>p, <3>1, <4>2 DEF CheckLedger
        <4> QED BY <4>1, <4>2
      <3>2. CASE RecordIntent(r)
        BY <1>p, <3>2 DEF RecordIntent
      <3>3. CASE Send(r)
        BY <1>p, <3>3 DEF Send
      <3>4. CASE PostRefused(r)
        BY <1>p, <3>4 DEF PostRefused
      <3>5. CASE PostFails(r)
        BY <1>p, <3>5 DEF PostFails
      <3>6. CASE RecordDelivered(r)
        BY <1>q, <3>6, Leaves DEF RecordDelivered
      <3>7. CASE RecordDeadLetter(r)
        BY <1>q, <3>7, Leaves DEF RecordDeadLetter
      <3>8. CASE SendRaises(r)
        BY <1>q, <3>8, Leaves DEF SendRaises
      <3>10. CASE LedgerRaises(r)
        BY <1>q, <3>10, Leaves DEF LedgerRaises
      <3>9. CASE Redeliver(r)
        BY <1>0, <1>p, <3>9 DEF Redeliver
      <3> QED BY <1>2, <3>1, <3>2, <3>3, <3>4, <3>5, <3>6, <3>7, <3>8, <3>9, <3>10 DEF Sending
    <2> QED BY <1>s, <2>1
  <1>3. ASSUME NEW d \in Dispatchers, Start(d) \/ Reconciled(d) \/ Crash(d)
        PROVE  (\A e \in Dispatchers : Lives(e)') /\ \A q \in Requests : Runs(q)'
    <2>1. CASE Start(d)
      <3>1. /\ UNCHANGED <<setup, pc, at, key, accepts>> /\ up[d] = "down"
            /\ up'[d] \in {"reconciling", "running"} /\ d \in deployed
            /\ up'[d] # "reconciling" => todo'[d] = todo[d]
            /\ \A e \in Dispatchers : e # d => up'[e] = up[e] /\ todo'[e] = todo[e]
        BY <2>1 DEF Start
      <3>2. \A e \in Dispatchers : Lives(e)'
        BY <1>0, <3>1
      <3>3. ASSUME NEW q \in Requests PROVE Runs(q)'
        <4>1. Runs(q)
          BY <1>0
        <4> QED BY <3>1, <4>1
      <3> QED BY <3>2, <3>3
    <2>2. CASE Reconciled(d)
      BY <1>0, <2>2 DEF Reconciled
    <2>3. CASE Crash(d)
      <3>1. \A e \in Dispatchers : Lives(e)'
        BY <1>0, <2>3 DEF Crash
      <3>2. ASSUME NEW q \in Requests PROVE Runs(q)'
        <4>1. CASE at[q] = d
          BY <1>0, <1>q, <2>3, <4>1 DEF Crash
        <4>2. CASE at[q] # d
          BY <1>0, <2>3, <4>2 DEF Crash
        <4> QED BY <4>1, <4>2
      <3> QED BY <3>1, <3>2
    <2> QED BY <1>3, <2>1, <2>2, <2>3
  <1>4. ASSUME NEW d \in Dispatchers, NEW k \in Keys, Resolving(d, k)
        PROVE  (\A e \in Dispatchers : Lives(e)') /\ \A q \in Requests : Runs(q)'
    <2>1. /\ UNCHANGED <<setup, pc, at, key, accepts>> /\ up[d] = "reconciling"
          /\ \/ up'[d] = up[d]
             \/ up'[d] = "down" /\ todo'[d] = {}
          /\ \A e \in Dispatchers : e # d => up'[e] = up[e] /\ todo'[e] = todo[e]
      BY <1>4 DEF Resolving, ReconcileResend, ReconcilePostFails, ReconcileSkip, ReconcileRaises
    <2>2. \A e \in Dispatchers : Lives(e)'
      BY <1>0, <2>1
    <2>3. ASSUME NEW q \in Requests PROVE Runs(q)'
      <3>1. Runs(q) /\ (pc[q] \in Running => at[q] # d)
        BY <1>0, <2>1
      <3> QED BY <2>1, <3>1
    <2> QED BY <2>2, <2>3
  <1>5. ASSUME Quiet
        PROVE  (\A e \in Dispatchers : Lives(e)') /\ \A q \in Requests : Runs(q)'
    <2>1. UNCHANGED <<setup, process, pc, at, key, accepts>>
      BY <1>5 DEF Quiet, Tick, vars
    <2>2. ASSUME NEW q \in Requests PROVE Runs(q)'
      <3>1. Runs(q)
        BY <1>0
      <3> QED BY <2>1, <3>1
    <2> QED BY <1>0, <2>1, <2>2
  <1> QED BY <1>1, <1>2, <1>3, <1>4, <1>5, NextKinds

------------------------------------------------------------------------------
(* What a step may change *)

\* A step keeps the configuration, and what was recorded stays recorded.
LEMMA Keeps ==
  ASSUME TypeOK, [Next]_vars
  PROVE  /\ setup' = setup /\ ledger \subseteq ledger' /\ suppressed \subseteq suppressed'
         /\ raises \subseteq raises'
         /\ clock \in Nat /\ clock' \in Nat /\ clock <= clock'
  <1>c. clock \in Nat
    BY Constants DEF TypeOK
  <1>1. ASSUME NEW d \in Dispatchers, NEW r \in Requests, Decide(d, r)
        PROVE  UNCHANGED <<setup, clock, ledger, raises>> /\ suppressed \subseteq suppressed'
    BY <1>1 DEF Decide, BelowThreshold, Suppress, SuppressRaises, Accept
  <1>2. ASSUME NEW r \in Requests, Sending(r)
        PROVE  UNCHANGED <<setup, clock, suppressed>> /\ ledger \subseteq ledger' /\ raises \subseteq raises'
    BY <1>2 DEF Sending, CheckLedger, RecordIntent, Send, PostRefused, PostFails, RecordDelivered,
                RecordDeadLetter, LedgerRaises, SendRaises, Redeliver
  <1>3. ASSUME NEW d \in Dispatchers, Start(d) \/ Reconciled(d) \/ Crash(d)
        PROVE  UNCHANGED <<setup, clock, suppressed, ledger, raises>>
    BY <1>3 DEF Start, Reconciled, Crash
  <1>4. ASSUME NEW d \in Dispatchers, NEW k \in Keys, Resolving(d, k)
        PROVE  UNCHANGED <<setup, clock, suppressed>> /\ ledger \subseteq ledger' /\ raises \subseteq raises'
    BY <1>4 DEF Resolving, ReconcileResend, ReconcilePostFails, ReconcileSkip, ReconcileRaises
  <1>5. CASE Quiet
    BY <1>c, <1>5 DEF Quiet, Tick, vars
  <1> QED BY <1>c, <1>1, <1>2, <1>3, <1>4, <1>5, NextKinds

\* What may happen to a call.
LEMMA CallMoves ==
  ASSUME TypeOK, [Next]_vars, NEW r \in Requests
  PROVE  \/ pc'[r] = pc[r] /\ at'[r] = at[r] /\ key'[r] = key[r]
         \/ \E d \in Dispatchers : Decide(d, r)
         \/ Sending(r)
         \/ \E d \in Dispatchers : /\ Crash(d) /\ at[r] = d
                                   /\ pc'[r] = "new" /\ at'[r] = Nowhere
  <1> DEFINE Same == pc'[r] = pc[r] /\ at'[r] = at[r] /\ key'[r] = key[r]
  <1>1. ASSUME NEW d \in Dispatchers, NEW q \in Requests, Decide(d, q), q # r PROVE Same
    BY <1>1 DEF Decide, BelowThreshold, Suppress, SuppressRaises, Accept, Leave, TypeOK
  <1>2. ASSUME NEW q \in Requests, Sending(q), q # r PROVE Same
    <2>1. key'[r] = key[r]
      BY <1>2 DEF Sending, CheckLedger, RecordIntent, Send, PostRefused, PostFails, RecordDelivered,
                  RecordDeadLetter, LedgerRaises, SendRaises, Redeliver, TypeOK
    <2>2. CASE \/ CheckLedger(q) \/ RecordDelivered(q) \/ RecordDeadLetter(q)
               \/ LedgerRaises(q) \/ SendRaises(q)
      BY <1>2, <2>1, <2>2 DEF CheckLedger, RecordDelivered, RecordDeadLetter, LedgerRaises,
                              SendRaises, Leave, TypeOK
    <2>3. CASE RecordIntent(q) \/ Send(q) \/ PostRefused(q) \/ PostFails(q) \/ Redeliver(q)
      BY <1>2, <2>1, <2>3 DEF RecordIntent, Send, PostRefused, PostFails, Redeliver, TypeOK
    <2> QED BY <1>2, <2>2, <2>3 DEF Sending
  <1>3. ASSUME NEW d \in Dispatchers, Start(d) \/ Reconciled(d) PROVE Same
    BY <1>3 DEF Start, Reconciled
  <1>4. ASSUME NEW d \in Dispatchers, Crash(d)
        PROVE  Same \/ (at[r] = d /\ pc'[r] = "new" /\ at'[r] = Nowhere)
    BY <1>4 DEF Crash
  <1>5. ASSUME NEW d \in Dispatchers, NEW k \in Keys, Resolving(d, k) PROVE Same
    BY <1>5 DEF Resolving, ReconcileResend, ReconcilePostFails, ReconcileSkip, ReconcileRaises
  <1>6. CASE Quiet
    BY <1>6 DEF Quiet, Tick, vars
  <1> QED BY <1>1, <1>2, <1>3, <1>4, <1>5, <1>6, NextKinds

\* A cooldown starts when a call is accepted and is forgotten in a crash.
LEMMA CooldownMoves ==
  ASSUME TypeOK, [Next]_vars
  PROVE  \/ UNCHANGED <<accepts, cooldowns>>
         \/ \E d \in Dispatchers, r \in Requests : Accept(d, r)
         \/ \E d \in Dispatchers : Crash(d)
  <1>1. ASSUME NEW d \in Dispatchers, NEW r \in Requests, Decide(d, r)
        PROVE  UNCHANGED <<accepts, cooldowns>> \/ Accept(d, r)
    BY <1>1 DEF Decide, BelowThreshold, Suppress, SuppressRaises, process
  <1>2. ASSUME NEW r \in Requests, Sending(r) PROVE UNCHANGED <<accepts, cooldowns>>
    BY <1>2 DEF Sending, CheckLedger, RecordIntent, Send, PostRefused, PostFails, RecordDelivered,
                RecordDeadLetter, LedgerRaises, SendRaises, Redeliver, process
  <1>3. ASSUME NEW d \in Dispatchers, Start(d) \/ Reconciled(d) PROVE UNCHANGED <<accepts, cooldowns>>
    BY <1>3 DEF Start, Reconciled
  <1>4. ASSUME NEW d \in Dispatchers, NEW k \in Keys, Resolving(d, k)
        PROVE  UNCHANGED <<accepts, cooldowns>>
    BY <1>4 DEF Resolving, ReconcileResend, ReconcilePostFails, ReconcileSkip, ReconcileRaises, process
  <1>5. CASE Quiet
    BY <1>5 DEF Quiet, Tick, vars, process
  <1> QED BY <1>1, <1>2, <1>3, <1>4, <1>5, NextKinds

\* The receiver gets alerts from calls that are sending and from open intents.
LEMMA ReceivedMoves ==
  ASSUME TypeOK, Located, [Next]_vars, NEW k \in Keys
  PROVE  \/ received'[k] = received[k]
         \/ \E r \in Requests : /\ key[r] = k /\ pc[r] = "sending" /\ pc'[r] # "sending"
                                /\ received'[k] = received[k] + 1
                                /\ Sending(r)
         \/ /\ channel = "webhook"
            /\ \/ \E r \in Requests : pc[r] = "sending" /\ key[r] = k
               \/ \E d \in Dispatchers : k \in todo[d]
  <1>1. ASSUME NEW d \in Dispatchers, NEW r \in Requests, Decide(d, r) PROVE received' = received
    BY <1>1 DEF Decide, BelowThreshold, Suppress, SuppressRaises, Accept
  <1>2. ASSUME NEW r \in Requests, Sending(r)
        PROVE  \/ received'[k] = received[k]
               \/ /\ key[r] = k /\ pc[r] = "sending" /\ pc'[r] # "sending"
                  /\ received'[k] = received[k] + 1
               \/ channel = "webhook" /\ pc[r] = "sending" /\ key[r] = k
    <2>1. CASE Send(r)
      BY <2>1 DEF Send, TypeOK
    <2>2. CASE PostFails(r)
      BY <2>2 DEF PostFails, TypeOK
    <2>3. CASE SendRaises(r)
      BY <2>3 DEF SendRaises, Leave, TypeOK
    <2>4. CASE ~Send(r) /\ ~PostFails(r) /\ ~SendRaises(r)
      BY <1>2, <2>4 DEF Sending, CheckLedger, RecordIntent, PostRefused, RecordDelivered,
                        RecordDeadLetter, LedgerRaises, Redeliver
    <2> QED BY <2>1, <2>2, <2>3, <2>4
  <1>3. ASSUME NEW d \in Dispatchers, Start(d) \/ Reconciled(d) \/ Crash(d) PROVE received' = received
    BY <1>3 DEF Start, Reconciled, Crash
  <1>4. ASSUME NEW d \in Dispatchers, NEW m \in Keys, Resolving(d, m)
        PROVE  \/ received'[k] = received[k]
               \/ channel = "webhook" /\ k \in todo[d]
    <2>1. CASE ReconcileResend(d, m)
      BY <2>1 DEF ReconcileResend, TypeOK
    <2>2. CASE ReconcilePostFails(d, m)
      BY <2>2 DEF ReconcilePostFails, TypeOK
    <2>3. CASE ReconcileSkip(d, m)
      BY <2>3 DEF ReconcileSkip
    <2>4. CASE ReconcileRaises(d, m)
      BY <2>4 DEF ReconcileRaises, TypeOK
    <2> QED BY <1>4, <2>1, <2>2, <2>3, <2>4 DEF Resolving
  <1>5. CASE Quiet
    BY <1>5 DEF Quiet, Tick, vars
  <1> QED BY <1>1, <1>2, <1>3, <1>4, <1>5, NextKinds

------------------------------------------------------------------------------
(* Cooldowns *)

\* The calls a process accepted for a wallet are a cooldown apart, and the wallet
\* cools down since the last of them.
Spaced ==
  /\ \A x \in accepts :
       /\ x[3][1] = x[2] /\ x[3][3] = x[4] \div Cooldown
       /\ x[4] + Cooldown <= cooldowns[x[1]][x[2]]
  /\ \A x, y \in accepts :
       x[1] = y[1] /\ x[2] = y[2] => x = y \/ x[4] + Cooldown <= y[4] \/ y[4] + Cooldown <= x[4]

\* A call that is accepted comes a cooldown after those accepted before it, and
\* its key is new to the process.
LEMMA AcceptIsLater ==
  ASSUME TypeOK, Spaced, NEW d \in Dispatchers, NEW r \in Requests, Accept(d, r),
         NEW x \in accepts, x[1] = d
  PROVE  /\ x[2] = WalletOf[r] => x[4] + Cooldown <= clock
         /\ x[3] # IdempotencyKey(r)
  <1>1. x[4] \in Nat /\ clock \in Nat /\ cooldowns[d][WalletOf[r]] \in Nat /\ Cooldown \in Nat
    BY Constants DEF TypeOK
  <1>2. ~(clock < cooldowns[d][WalletOf[r]])
    BY DEF Accept, CoolingDown
  <1>3. ASSUME x[2] = WalletOf[r] PROVE x[4] + Cooldown <= clock
    <2>1. x[4] + Cooldown <= cooldowns[d][WalletOf[r]]
      BY <1>3 DEF Spaced
    <2> QED BY <1>1, <1>2, <2>1
  <1>4. ASSUME x[3] = IdempotencyKey(r) PROVE FALSE
    <2>1. x[2] = WalletOf[r] /\ x[4] \div Cooldown = clock \div Cooldown
      BY <1>4, KeyFacts DEF Spaced
    <2> QED BY <1>1, <1>3, <2>1, WindowsDiffer
  <1> QED BY <1>3, <1>4

\* Every step keeps them so.
LEMMA SpacedStep == TypeOK /\ Spaced /\ [Next]_vars => Spaced'
  <1> SUFFICES ASSUME TypeOK, Spaced, [Next]_vars PROVE Spaced'
    OBVIOUS
  <1>1. ASSUME NEW d \in Dispatchers, NEW r \in Requests, Accept(d, r) PROVE Spaced'
    <2> DEFINE new == <<d, WalletOf[r], IdempotencyKey(r), clock>>
    <2>1. /\ accepts' = accepts \cup {new} /\ clock \in Nat /\ Cooldown \in Nat /\ Cooldown > 0
          /\ cooldowns' = [cooldowns EXCEPT ![d][WalletOf[r]] = clock + Cooldown]
          /\ WalletOf[r] \in Wallets
      <3>1. WalletOf[r] \in Wallets /\ clock \in Nat
        BY Constants DEF TypeOK
      <3>2. /\ accepts' = accepts \cup {new}
            /\ cooldowns' = [cooldowns EXCEPT ![d][WalletOf[r]] = clock + Cooldown]
        BY <1>1 DEF Accept
      <3> QED BY <3>1, <3>2, Constants
    <2>2. /\ new[1] = d /\ new[2] = WalletOf[r] /\ new[4] = clock
          /\ new[3][1] = new[2] /\ new[3][3] = new[4] \div Cooldown
      BY KeyFacts
    <2> HIDE DEF new
    <2>3. ASSUME NEW x \in accepts
          PROVE  /\ x[1] \in Dispatchers /\ x[2] \in Wallets /\ x[4] \in Nat
                 /\ x[3][1] = x[2] /\ x[3][3] = x[4] \div Cooldown
                 /\ x[4] + Cooldown <= cooldowns[x[1]][x[2]]
                 /\ x[1] = d /\ x[2] = WalletOf[r] => x[4] + Cooldown <= clock
      <3>1. x[1] \in Dispatchers /\ x[2] \in Wallets /\ x[4] \in Nat
        BY Constants DEF TypeOK
      <3> QED BY <1>1, <3>1, AcceptIsLater DEF Spaced
    <2>4. cooldowns'[d][WalletOf[r]] = clock + Cooldown
      BY <2>1 DEF TypeOK
    <2>5. ASSUME NEW x \in accepts PROVE x[4] + Cooldown <= cooldowns'[x[1]][x[2]]
      <3>1. CASE x[1] = d /\ x[2] = WalletOf[r]
        <4>1. x[4] + Cooldown <= clock /\ x[4] \in Nat
          BY <2>3, <3>1
        <4>2. x[4] + Cooldown <= clock + Cooldown
          BY <2>1, <4>1
        <4> QED BY <2>4, <3>1, <4>2
      <3>2. CASE ~(x[1] = d /\ x[2] = WalletOf[r])
        <4>1. cooldowns'[x[1]][x[2]] = cooldowns[x[1]][x[2]]
          BY <2>1, <2>3, <3>2 DEF TypeOK
        <4> QED BY <2>3, <4>1
      <3> QED BY <3>1, <3>2
    <2>6. new[4] + Cooldown <= cooldowns'[new[1]][new[2]]
      BY <2>1, <2>2, <2>4
    <2>7. ASSUME NEW x \in accepts', NEW y \in accepts', x[1] = y[1], x[2] = y[2]
          PROVE  x = y \/ x[4] + Cooldown <= y[4] \/ y[4] + Cooldown <= x[4]
      <3>1. CASE x \in accepts /\ y \in accepts
        BY <2>7, <3>1 DEF Spaced
      <3>2. CASE x = new \/ y = new
        BY <2>1, <2>2, <2>3, <2>7, <3>2
      <3> QED BY <2>1, <3>1, <3>2
    <2> QED BY <2>1, <2>2, <2>3, <2>5, <2>6, <2>7 DEF Spaced
  <1>2. ASSUME NEW d \in Dispatchers, Crash(d) PROVE Spaced'
    <2>1. accepts' = {x \in accepts : x[1] # d}
      BY <1>2 DEF Crash
    <2>2. \A x \in accepts' : cooldowns'[x[1]] = cooldowns[x[1]]
      BY <1>2, <2>1 DEF Crash, TypeOK
    <2> QED BY <2>1, <2>2 DEF Spaced
  <1>3. CASE UNCHANGED <<accepts, cooldowns>>
    BY <1>3 DEF Spaced
  <1> QED BY <1>1, <1>2, <1>3, CooldownMoves
------------------------------------------------------------------------------
(* The ledger *)

\* A call that sends, and an intent that is being resolved, has its row.
Intents ==
  /\ \A r \in Requests :
       pc[r] \in {"sending", "sent", "dead"} => <<key[r], "in_flight">> \in ledger
  /\ \A d \in Dispatchers : \A k \in todo[d] : <<k, "in_flight">> \in ledger
  /\ SentImpliesIntent

\* What reconciliation has left to do is what was open when it began.
LEMMA TodoMoves ==
  ASSUME TypeOK, [Next]_vars, NEW d \in Dispatchers
  PROVE  todo'[d] \subseteq todo[d] \/ (todo'[d] = InFlight /\ ledger' = ledger)
  <1>1. ASSUME NEW e \in Dispatchers, NEW r \in Requests, Decide(e, r) PROVE todo' = todo
    BY <1>1 DEF Decide, BelowThreshold, Suppress, SuppressRaises, Accept, process
  <1>2. ASSUME NEW r \in Requests, Sending(r) PROVE todo' = todo
    BY <1>2 DEF Sending, CheckLedger, RecordIntent, Send, PostRefused, PostFails, RecordDelivered,
                RecordDeadLetter, LedgerRaises, SendRaises, Redeliver, process
  <1>3. ASSUME NEW e \in Dispatchers, Start(e) \/ Reconciled(e) \/ Crash(e)
        PROVE  todo'[d] \subseteq todo[d] \/ (todo'[d] = InFlight /\ ledger' = ledger)
    <2>1. CASE Start(e)
      <3>1. todo' = todo \/ todo' = [todo EXCEPT ![e] = InFlight]
        BY <2>1 DEF Start
      <3> QED BY <2>1, <3>1 DEF Start, TypeOK
    <2>2. CASE Reconciled(e)
      BY <2>2 DEF Reconciled
    <2>3. CASE Crash(e)
      BY <2>3 DEF Crash, TypeOK
    <2> QED BY <1>3, <2>1, <2>2, <2>3
  <1>4. ASSUME NEW e \in Dispatchers, NEW k \in Keys, Resolving(e, k) PROVE todo'[d] \subseteq todo[d]
    BY <1>4 DEF Resolving, ReconcileResend, ReconcilePostFails, ReconcileSkip, ReconcileRaises, TypeOK, process
  <1>5. CASE Quiet
    BY <1>5 DEF Quiet, Tick, vars, process
  <1> QED BY <1>1, <1>2, <1>3, <1>4, <1>5, NextKinds

\* The intent is written before anything is sent.
LEMMA IntentsStep == TypeOK /\ Located /\ Intents /\ [Next]_vars => Intents'
  <1> SUFFICES ASSUME TypeOK, Located, Intents, [Next]_vars PROVE Intents'
    OBVIOUS
  <1>0. ledger \subseteq ledger'
    BY Keeps
  <1>1. ASSUME NEW r \in Requests, pc'[r] \in {"sending", "sent", "dead"}
        PROVE  <<key'[r], "in_flight">> \in ledger'
    <2>1. CASE pc'[r] = pc[r] /\ at'[r] = at[r] /\ key'[r] = key[r]
      BY <1>0, <1>1, <2>1 DEF Intents
    <2>2. ASSUME NEW d \in Dispatchers, Decide(d, r) PROVE FALSE
      BY <1>1, <2>2 DEF Decide, BelowThreshold, Suppress, SuppressRaises, Accept, Leave, TypeOK
    <2>3. CASE Sending(r)
      <3>1. CASE RecordIntent(r)
        BY <3>1 DEF RecordIntent
      <3>2. CASE ~RecordIntent(r)
        <4>1. pc[r] \in {"sending", "sent", "dead"} /\ key' = key
          BY <1>1, <2>3, <3>2 DEF Sending, CheckLedger, Send, PostRefused, PostFails, RecordDelivered,
                RecordDeadLetter, LedgerRaises, SendRaises, Redeliver, Leave, TypeOK
        <4> QED BY <1>0, <4>1 DEF Intents
      <3> QED BY <3>1, <3>2
    <2> QED BY <1>1, <2>1, <2>2, <2>3, CallMoves
  <1>2. ASSUME NEW d \in Dispatchers, NEW k \in todo'[d] PROVE <<k, "in_flight">> \in ledger'
    <2>1. CASE k \in todo[d]
      BY <1>0, <2>1 DEF Intents
    <2>2. CASE k \in InFlight
      BY <1>0, <2>2 DEF InFlight
    <2> QED BY <1>2, <2>1, <2>2, TodoMoves
  <1>3. ASSUME NEW k \in Keys, received'[k] > 0 PROVE <<k, "in_flight">> \in ledger'
    <2>1. CASE received'[k] = received[k]
      BY <1>0, <1>3, <2>1 DEF Intents, SentImpliesIntent
    <2>2. CASE \E r \in Requests : pc[r] = "sending" /\ key[r] = k
      BY <1>0, <2>2 DEF Intents
    <2>3. CASE \E d \in Dispatchers : k \in todo[d]
      BY <1>0, <2>3 DEF Intents
    <2> QED BY <2>1, <2>2, <2>3, ReceivedMoves
  <1> QED BY <1>1, <1>2, <1>3 DEF Intents, SentImpliesIntent

\* A call returns with a reason: its score, a suppression or a closed alert.
LEMMA AccountedStep == TypeOK /\ AccountedFor /\ [Next]_vars => AccountedFor'
  <1> SUFFICES ASSUME TypeOK, AccountedFor, [Next]_vars, NEW r \in Requests, pc'[r] = "returned"
               PROVE  \/ ScoreOf[r] < threshold' \/ r \in suppressed'
                      \/ \E o \in Terminal : <<key'[r], o>> \in ledger'
    BY DEF AccountedFor, Closed
  <1>0. /\ threshold' = threshold /\ suppressed \subseteq suppressed' /\ ledger \subseteq ledger'
    BY Keeps DEF setup
  <1>1. CASE pc'[r] = pc[r] /\ at'[r] = at[r] /\ key'[r] = key[r]
    <2>1. ScoreOf[r] < threshold \/ r \in suppressed \/ Closed(key[r])
      BY <1>1 DEF AccountedFor
    <2> QED BY <1>0, <1>1, <2>1 DEF Closed
  <1>2. ASSUME NEW d \in Dispatchers, Decide(d, r)
        PROVE  ScoreOf[r] < threshold \/ r \in suppressed'
    BY <1>2 DEF Decide, BelowThreshold, Suppress, SuppressRaises, Accept, Leave, TypeOK
  <1>3. CASE Sending(r)
    <2>1. CASE CheckLedger(r)
      <3>1. Closed(key[r]) /\ key' = key /\ ledger' = ledger
        BY <2>1 DEF CheckLedger, TypeOK
      <3> QED BY <3>1 DEF Closed
    <2>2. CASE RecordDelivered(r) \/ RecordDeadLetter(r)
      BY <2>2 DEF RecordDelivered, RecordDeadLetter, Closed, Terminal
    <2>3. CASE ~CheckLedger(r) /\ ~RecordDelivered(r) /\ ~RecordDeadLetter(r)
      BY <1>3, <2>3 DEF Sending, RecordIntent, Send, PostRefused, PostFails, LedgerRaises,
                        SendRaises, Redeliver, Leave, TypeOK
    <2> QED BY <2>1, <2>2, <2>3
  <1> QED BY <1>0, <1>1, <1>2, <1>3, CallMoves

------------------------------------------------------------------------------
(* Suppression *)

\* The wallet has an alert that was closed or whose call raised; a call for it is
\* being delivered by process d; a call for it will be, or will be suppressed behind
\* another one.
Answered(w) == \E k \in Keys : k[1] = w /\ (Closed(k) \/ k \in raises)
InDelivery(d, w) == \E r \in Requests : WalletOf[r] = w /\ pc[r] \in Running /\ at[r] = d
Willing(w) ==
  \E r \in Requests :
    WalletOf[r] = w /\ ScoreOf[r] >= threshold /\ pc[r] \in Running \cup {"new"}

\* A wallet cools down, and a call is suppressed, behind an alert.
Behind ==
  /\ \A d \in Dispatchers, w \in Wallets : cooldowns[d][w] > 0 => Answered(w) \/ InDelivery(d, w)
  /\ \A r \in suppressed : Answered(WalletOf[r]) \/ Willing(WalletOf[r])

\* A call in delivery goes on, is cut short by a crash, or leaves a row or an exception.
LEMMA GoesOn ==
  ASSUME TypeOK, Located, [Next]_vars, NEW r \in Requests, pc[r] \in Running
  PROVE  \/ pc'[r] \in Running /\ at'[r] = at[r]
         \/ Answered(WalletOf[r])'
         \/ Crash(at[r]) /\ pc'[r] = "new"
  <1>p. Running = {"accepted", "intent", "sending", "sent", "dead"}
    BY DEF Running
  <1>k. key[r] \in Keys /\ key[r][1] = WalletOf[r]
    BY DEF Located
  <1>1. ASSUME NEW d \in Dispatchers, Decide(d, r) PROVE FALSE
    BY <1>1, <1>p DEF Decide, BelowThreshold, Suppress, SuppressRaises, Accept, Enabled
  <1>2. CASE Sending(r)
    <2>1. CASE CheckLedger(r) /\ Closed(key[r])
      <3>1. \E o \in Terminal : <<key[r], o>> \in ledger'
        BY <2>1 DEF Closed, CheckLedger
      <3> QED BY <1>k, <3>1 DEF Answered, Closed
    <2>2. CASE CheckLedger(r) /\ ~Closed(key[r])
      BY <1>p, <2>2 DEF CheckLedger, TypeOK
    <2>3. CASE RecordDelivered(r) \/ RecordDeadLetter(r)
      <3>1. \E o \in Terminal : <<key[r], o>> \in ledger'
        BY <2>3 DEF RecordDelivered, RecordDeadLetter, Terminal
      <3> QED BY <1>k, <3>1 DEF Answered, Closed
    <2>4. CASE RecordIntent(r) \/ Send(r) \/ PostRefused(r) \/ PostFails(r)
      BY <1>p, <2>4 DEF RecordIntent, Send, PostRefused, PostFails, TypeOK
    <2>5. CASE LedgerRaises(r) \/ SendRaises(r)
      <3>1. key[r] \in raises'
        BY <2>5 DEF LedgerRaises, SendRaises
      <3> QED BY <1>k, <3>1 DEF Answered
    <2>6. ~Redeliver(r)
      BY <1>p DEF Redeliver
    <2> QED BY <1>2, <2>1, <2>2, <2>3, <2>4, <2>5, <2>6 DEF Sending
  <1> QED BY <1>1, <1>2, CallMoves

\* What is answered stays so.
LEMMA AnsweredStays ==
  ASSUME TypeOK, [Next]_vars, NEW w, Answered(w)
  PROVE  Answered(w)'
  BY Keeps DEF Answered, Closed

\* No step suppresses a call with nothing before it.
LEMMA BehindStep ==
  ASSUME TypeOK, Located, Behind, [Next]_vars
  PROVE  Behind'
  <1>0. /\ threshold' = threshold /\ clock \in Nat
        /\ WalletOf \in [Requests -> Wallets]
    BY Keeps, Constants DEF setup
  <1>p. "new" \notin Running /\ "raised" \notin Running
    BY DEF Running
  <1>1. ASSUME NEW d \in Dispatchers, NEW w \in Wallets, cooldowns'[d][w] > 0
        PROVE  Answered(w)' \/ InDelivery(d, w)'
    <2>1. CASE cooldowns'[d][w] = cooldowns[d][w] /\ ~Crash(d)
      <3>1. Answered(w) \/ InDelivery(d, w)
        BY <1>1, <2>1 DEF Behind
      <3>2. CASE InDelivery(d, w)
        <4>1. PICK r \in Requests : WalletOf[r] = w /\ pc[r] \in Running /\ at[r] = d
          BY <3>2 DEF InDelivery
        <4> QED BY <2>1, <4>1, GoesOn DEF InDelivery
      <3> QED BY <3>1, <3>2, AnsweredStays
    <2>2. ASSUME NEW e \in Dispatchers, NEW r \in Requests, Accept(e, r)
          PROVE  \/ cooldowns'[d][w] = cooldowns[d][w]
                 \/ InDelivery(d, w)'
      <3>1. CASE e = d /\ WalletOf[r] = w
        <4>1. pc'[r] = "accepted" /\ at'[r] = d
          BY <2>2, <3>1 DEF Accept, TypeOK
        <4> QED BY <3>1, <4>1 DEF InDelivery, Running
      <3>2. CASE ~(e = d /\ WalletOf[r] = w)
        BY <1>0, <2>2, <3>2 DEF Accept, TypeOK
      <3> QED BY <3>1, <3>2
    <2>3. ASSUME NEW e \in Dispatchers, Crash(e)
          PROVE  e # d /\ cooldowns'[d][w] = cooldowns[d][w] /\ ~Crash(d)
      <3>1. e # d
        <4>1. e = d => cooldowns'[d][w] = 0
          BY <2>3 DEF Crash, TypeOK
        <4> QED BY <1>1, <4>1
      <3>2. ~Crash(d)
        BY <2>3, <3>1 DEF Crash, TypeOK
      <3> QED BY <2>3, <3>1, <3>2 DEF Crash, TypeOK
    <2>4. CASE UNCHANGED <<accepts, cooldowns>> /\ ~\E e \in Dispatchers : Crash(e)
      BY <2>1, <2>4
    <2>5. ASSUME NEW e \in Dispatchers, NEW r \in Requests, Accept(e, r) PROVE ~Crash(d)
      BY <2>5 DEF Accept, Enabled, Crash, Fault, TypeOK
    <2> QED BY <2>1, <2>2, <2>3, <2>4, <2>5, CooldownMoves
  <1>2. ASSUME NEW r \in suppressed' PROVE Answered(WalletOf[r])' \/ Willing(WalletOf[r])'
    <2>0. r \in Requests
      BY <1>2, TypeStep DEF TypeOK
    <2>1. ASSUME NEW d \in Dispatchers, NEW q \in Requests,
                 Suppress(d, q) \/ SuppressRaises(d, q)
          PROVE  Answered(WalletOf[q])' \/ Willing(WalletOf[q])'
      <3>1. cooldowns[d][WalletOf[q]] > 0
        BY <1>0, <2>1 DEF Suppress, SuppressRaises, CoolingDown, TypeOK
      <3>2. Answered(WalletOf[q]) \/ InDelivery(d, WalletOf[q])
        BY <1>0, <3>1 DEF Behind
      <3>3. CASE InDelivery(d, WalletOf[q])
        <4>1. PICK s \in Requests : WalletOf[s] = WalletOf[q] /\ pc[s] \in Running
          BY <3>3 DEF InDelivery
        <4>2. s # q
          BY <1>p, <2>1, <4>1 DEF Suppress, SuppressRaises, Enabled
        <4>3. pc'[s] \in Running /\ ScoreOf[s] >= threshold
          BY <2>1, <4>1, <4>2 DEF Suppress, SuppressRaises, Leave, TypeOK, Located
        <4> QED BY <1>0, <4>1, <4>3 DEF Willing
      <3> QED BY <3>2, <3>3, AnsweredStays
    <2>2. CASE Willing(WalletOf[r])
      <3>1. PICK s \in Requests : /\ WalletOf[s] = WalletOf[r] /\ ScoreOf[s] >= threshold
                                  /\ pc[s] \in Running \cup {"new"}
        BY <2>2 DEF Willing
      <3>2. CASE pc[s] \in Running
        <4>1. pc'[s] \in Running \cup {"new"} \/ Answered(WalletOf[s])'
          BY <3>2, GoesOn
        <4> QED BY <1>0, <3>1, <4>1 DEF Willing
      <3>3. CASE pc[s] = "new"
        <4>1. CASE pc'[s] \in Running \cup {"new"}
          BY <1>0, <3>1, <4>1 DEF Willing
        <4>2. ASSUME NEW d \in Dispatchers, Decide(d, s)
              PROVE  Suppress(d, s) \/ SuppressRaises(d, s) \/ pc'[s] \in Running
          <5>1. ~BelowThreshold(d, s)
            BY <3>1, Constants DEF BelowThreshold, TypeOK
          <5>2. CASE Accept(d, s)
            BY <5>2 DEF Accept, Running, TypeOK
          <5> QED BY <4>2, <5>1, <5>2 DEF Decide
        <4>3. ~Sending(s)
          BY <3>3 DEF Sending, CheckLedger, RecordIntent, Send, PostRefused, PostFails,
                      RecordDelivered, RecordDeadLetter, LedgerRaises, SendRaises, Redeliver, Recorded
        <4> QED BY <2>1, <3>1, <3>3, <4>1, <4>2, <4>3, CallMoves
      <3> QED BY <3>1, <3>2, <3>3
    <2>3. CASE r \in suppressed
      BY <2>2, <2>3, AnsweredStays DEF Behind
    <2>4. CASE r \notin suppressed
      <3>1. \E d \in Dispatchers : Suppress(d, r) \/ SuppressRaises(d, r)
        <4>1. ASSUME NEW d \in Dispatchers, NEW q \in Requests, Decide(d, q)
              PROVE  \/ suppressed' = suppressed
                     \/ /\ Suppress(d, q) \/ SuppressRaises(d, q)
                        /\ suppressed' = suppressed \cup {q}
          BY <4>1 DEF Decide, BelowThreshold, Suppress, SuppressRaises, Accept
        <4>2. ASSUME NEW q \in Requests, Sending(q) PROVE suppressed' = suppressed
          BY <4>2 DEF Sending, CheckLedger, RecordIntent, Send, PostRefused, PostFails,
                      RecordDelivered, RecordDeadLetter, LedgerRaises, SendRaises, Redeliver
        <4>3. ASSUME NEW d \in Dispatchers, Start(d) \/ Reconciled(d) \/ Crash(d)
              PROVE  suppressed' = suppressed
          BY <4>3 DEF Start, Reconciled, Crash
        <4>4. ASSUME NEW d \in Dispatchers, NEW k \in Keys, Resolving(d, k)
              PROVE  suppressed' = suppressed
          BY <4>4 DEF Resolving, ReconcileResend, ReconcilePostFails, ReconcileSkip, ReconcileRaises
        <4>5. Quiet => suppressed' = suppressed
          BY DEF Quiet, Tick, vars
        <4> QED BY <1>2, <2>4, <4>1, <4>2, <4>3, <4>4, <4>5, NextKinds
      <3> QED BY <2>0, <2>1, <3>1
    <2> QED BY <2>3, <2>4
  <1> QED BY <1>1, <1>2 DEF Behind

------------------------------------------------------------------------------
(* At most once *)

\* A deployment of one process that reconciles at startup, on a channel with no
\* downstream deduplication.
Alone(d) == channel # "webhook" /\ reconciles /\ deployed = {d}

\* No alert is sent twice: no two calls have one key, a call that will send an
\* alert is the first to, and the intents that are open were opened by this
\* process since it started, or are about to be closed.
Once(d) ==
  /\ \A k \in Keys : received[k] <= 1
  /\ \A q, r \in Requests : q # r /\ pc[q] \in Running /\ pc[r] \in Running => key[q] # key[r]
  /\ \A r \in Requests :
       /\ pc[r] \in {"intent", "sending"} => received[key[r]] = 0
       /\ pc[r] = "accepted" => received[key[r]] = 0 \/ Closed(key[r])
  /\ up[d] = "reconciling" => todo[d] = InFlight
  /\ up[d] = "running" => \A k \in InFlight : \E x \in accepts : x[1] = d /\ x[3] = k

\* All running calls run in the one process, while it is up and not reconciling.
LEMMA RunsAlone ==
  ASSUME TypeOK, Located, NEW d \in Dispatchers, Alone(d), NEW r \in Requests, pc[r] \in Running
  PROVE  at[r] = d /\ up[d] = "running" /\ \E x \in accepts : x[1] = d /\ x[3] = key[r]
  <1>1. at[r] = d /\ up[d] = "running"
    BY DEF Located, Alone
  <1>2. PICK t \in Nat : <<at[r], WalletOf[r], key[r], t>> \in accepts
    BY DEF Located
  <1> QED BY <1>1, <1>2

\* How intents are opened and closed.
LEMMA InFlightMoves ==
  ASSUME TypeOK, Located, [Next]_vars
  PROVE  \/ InFlight' = InFlight
         \/ \E r \in Requests : /\ pc[r] \in Running /\ Sending(r)
                                /\ InFlight' \subseteq InFlight \cup {key[r]}
         \/ \E d \in Dispatchers, k \in Keys :
              /\ up[d] = "reconciling" /\ todo' = [todo EXCEPT ![d] = @ \ {k}]
              /\ InFlight' = InFlight \ {k} /\ UNCHANGED up
         \/ \E d \in Dispatchers : up'[d] = "down" /\ InFlight' \subseteq InFlight
  <1>i. /\ ledger' = ledger => InFlight' = InFlight
        /\ \A k \in Keys, o \in Terminal :
             ledger' = ledger \cup {<<k, o>>} => InFlight' = InFlight \ {k}
        /\ \A k \in Keys : ledger' = ledger \cup {<<k, "in_flight">>} =>
             InFlight' \subseteq InFlight \cup {k}
    BY DEF InFlight, Closed, Terminal
  <1>1. ASSUME NEW d \in Dispatchers, NEW r \in Requests, Decide(d, r) PROVE ledger' = ledger
    BY <1>1 DEF Decide, BelowThreshold, Suppress, SuppressRaises, Accept
  <1>2. ASSUME NEW r \in Requests, Sending(r)
        PROVE  \/ InFlight' = InFlight
               \/ pc[r] \in Running /\ InFlight' \subseteq InFlight \cup {key[r]}
    <2>1. CASE RecordIntent(r) \/ RecordDelivered(r) \/ RecordDeadLetter(r) \/ LedgerRaises(r)
      <3>1. pc[r] \in Running /\ key[r] \in Keys
        BY <2>1 DEF RecordIntent, RecordDelivered, RecordDeadLetter, LedgerRaises, Recorded,
                    Running, Located
      <3>2. \/ ledger' = ledger
            \/ \E o \in {"in_flight", "delivered", "dead_lettered"} :
                 ledger' = ledger \cup {<<key[r], o>>}
        BY <2>1 DEF RecordIntent, RecordDelivered, RecordDeadLetter, LedgerRaises, Recorded
      <3> QED BY <1>i, <3>1, <3>2 DEF Terminal
    <2>2. CASE ~(RecordIntent(r) \/ RecordDelivered(r) \/ RecordDeadLetter(r) \/ LedgerRaises(r))
      BY <1>2, <1>i, <2>2 DEF Sending, CheckLedger, Send, PostRefused, PostFails, SendRaises, Redeliver
    <2> QED BY <2>1, <2>2
  <1>3. ASSUME NEW d \in Dispatchers, Start(d) \/ Reconciled(d) \/ Crash(d) PROVE ledger' = ledger
    BY <1>3 DEF Start, Reconciled, Crash
  <1>4. ASSUME NEW d \in Dispatchers, NEW k \in Keys, Resolving(d, k)
        PROVE  \/ InFlight' = InFlight
               \/ /\ up[d] = "reconciling" /\ todo' = [todo EXCEPT ![d] = @ \ {k}]
                  /\ InFlight' = InFlight \ {k} /\ UNCHANGED up
               \/ up'[d] = "down" /\ InFlight' \subseteq InFlight
    <2>1. CASE ReconcilePostFails(d, k)
      BY <1>i, <2>1 DEF ReconcilePostFails
    <2>2. CASE ReconcileResend(d, k) \/ ReconcileSkip(d, k)
      <3>1. \E o \in Terminal : ledger' = ledger \cup {<<k, o>>}
        BY <2>2 DEF ReconcileResend, ReconcileSkip, Terminal
      <3> QED BY <1>i, <2>2, <3>1 DEF ReconcileResend, ReconcileSkip
    <2>3. CASE ReconcileRaises(d, k)
      <3>1. \E o \in Terminal : ledger' = ledger \/ ledger' = ledger \cup {<<k, o>>}
        BY <2>3 DEF ReconcileRaises, Terminal
      <3> QED BY <1>i, <2>3, <3>1 DEF ReconcileRaises, TypeOK
    <2> QED BY <1>4, <2>1, <2>2, <2>3 DEF Resolving
  <1>5. Quiet => ledger' = ledger
    BY DEF Quiet, Tick, vars
  <1> QED BY <1>i, <1>1, <1>2, <1>3, <1>4, <1>5, NextKinds

\* How a process moves.
LEMMA UpMoves ==
  ASSUME TypeOK, [Next]_vars, NEW d \in Dispatchers
  PROVE  \/ up'[d] = up[d] /\ (up[d] = "reconciling" => todo'[d] \subseteq todo[d])
         \/ Start(d) /\ ledger' = ledger
         \/ Reconciled(d) /\ ledger' = ledger /\ up'[d] = "running"
         \/ up'[d] = "down"
  <1>1. ASSUME NEW e \in Dispatchers, NEW r \in Requests, Decide(e, r)
        PROVE  up' = up /\ todo' = todo
    BY <1>1 DEF Decide, BelowThreshold, Suppress, SuppressRaises, Accept, process
  <1>2. ASSUME NEW r \in Requests, Sending(r) PROVE up' = up /\ todo' = todo
    BY <1>2 DEF Sending, CheckLedger, RecordIntent, Send, PostRefused, PostFails, RecordDelivered,
                RecordDeadLetter, LedgerRaises, SendRaises, Redeliver, process
  <1>3. ASSUME NEW e \in Dispatchers, Start(e) \/ Reconciled(e) \/ Crash(e)
        PROVE  \/ up'[d] = up[d] /\ (up[d] = "reconciling" => todo'[d] \subseteq todo[d])
               \/ Start(d) /\ ledger' = ledger
               \/ Reconciled(d) /\ ledger' = ledger /\ up'[d] = "running"
               \/ up'[d] = "down"
    <2>1. CASE e = d
      BY <1>3, <2>1 DEF Start, Reconciled, Crash, TypeOK
    <2>2. CASE e # d
      <3>1. up'[d] = up[d]
        BY <1>3, <2>2 DEF Start, Reconciled, Crash, TypeOK
      <3>2. todo'[d] = todo[d]
        <4>1. CASE Start(e)
          <5>1. todo' = todo \/ todo' = [todo EXCEPT ![e] = InFlight]
            BY <4>1 DEF Start
          <5> QED BY <2>2, <5>1 DEF TypeOK
        <4>2. CASE Reconciled(e)
          BY <4>2 DEF Reconciled
        <4>3. CASE Crash(e)
          BY <2>2, <4>3 DEF Crash, TypeOK
        <4> QED BY <1>3, <4>1, <4>2, <4>3
      <3> QED BY <3>1, <3>2
    <2> QED BY <2>1, <2>2
  <1>4. ASSUME NEW e \in Dispatchers, NEW k \in Keys, Resolving(e, k)
        PROVE  up'[d] = "down" \/ (up'[d] = up[d] /\ todo'[d] \subseteq todo[d])
    BY <1>4 DEF Resolving, ReconcileResend, ReconcilePostFails, ReconcileSkip, ReconcileRaises, TypeOK, process
  <1>5. CASE Quiet
    BY <1>5 DEF Quiet, Tick, vars, process
  <1> QED BY <1>1, <1>2, <1>3, <1>4, <1>5, NextKinds

\* No step sends an alert a second time.
LEMMA OnceStep ==
  ASSUME TypeOK, Located, Spaced, Intents, [Next]_vars,
         NEW d \in Dispatchers, Alone(d), Once(d)
  PROVE  Once(d)'
  <1>p. Running = {"accepted", "intent", "sending", "sent", "dead"}
    BY DEF Running
  <1>l. ledger \subseteq ledger' /\ Alone(d)' /\ \A k : Closed(k) => \E o \in Terminal : <<k, o>> \in ledger'
    BY Keeps DEF setup, Alone, Closed
  <1>t. /\ TypeOK' /\ Located'
        /\ \A k \in Keys : received[k] \in Nat
        /\ \A r \in Requests : pc[r] \in Running => key[r] \in Keys
    BY TypeStep, LocatedStep DEF TypeOK, Located
  \* A call that is accepted has a key no running call has and no open intent.
  <1>1. ASSUME NEW e \in Dispatchers, NEW r \in Requests, Accept(e, r)
        PROVE  /\ pc'[r] = "accepted" /\ key'[r] = IdempotencyKey(r) /\ IdempotencyKey(r) \in Keys
               /\ UNCHANGED <<received, ledger>>
               /\ \A q \in Requests : q # r => pc'[q] = pc[q] /\ key'[q] = key[q]
               /\ \A q \in Requests : pc[q] \in Running => key[q] # IdempotencyKey(r)
               /\ received[IdempotencyKey(r)] = 0 \/ Closed(IdempotencyKey(r))
    <2>1. e = d /\ up[d] = "running"
      BY <1>1 DEF Accept, Enabled, Located, Alone
    <2>2. \A x \in accepts : x[1] = d => x[3] # IdempotencyKey(r)
      BY <1>1, <2>1, AcceptIsLater
    <2>3. IdempotencyKey(r) \in Keys
      BY KeyFacts
    <2>4. IdempotencyKey(r) \notin InFlight
      BY <2>1, <2>2 DEF Once
    <2>5. received[IdempotencyKey(r)] = 0 \/ Closed(IdempotencyKey(r))
      BY <1>t, <2>3, <2>4 DEF InFlight, Intents, SentImpliesIntent
    <2>6. \A q \in Requests : pc[q] \in Running => key[q] # IdempotencyKey(r)
      BY <2>2, RunsAlone
    <2> QED BY <1>1, <2>3, <2>5, <2>6 DEF Accept, TypeOK
  \* A call that runs after the step and was not just accepted ran before it.
  <1>2. ASSUME NEW r \in Requests, pc'[r] \in Running, ~\E e \in Dispatchers : Accept(e, r)
        PROVE  pc[r] \in Running /\ key'[r] = key[r] /\ (pc'[r] = pc[r] \/ Sending(r))
    <2>1. ASSUME NEW e \in Dispatchers, Decide(e, r) PROVE FALSE
      BY <1>2, <1>p, <2>1 DEF Decide, BelowThreshold, Suppress, SuppressRaises, Leave, TypeOK
    <2>2. CASE Sending(r)
      <3>0. ~LedgerRaises(r) /\ ~SendRaises(r)
        BY <1>2, <1>p DEF LedgerRaises, SendRaises, Leave, TypeOK
      <3>1. key'[r] = key[r]
        BY <2>2, <3>0 DEF Sending, CheckLedger, RecordIntent, Send, PostRefused, PostFails,
                          RecordDelivered, RecordDeadLetter, Redeliver
      <3>2. pc[r] \in Running
        BY <1>2, <1>p, <2>2, <3>0 DEF Sending, CheckLedger, RecordIntent, Send, PostRefused,
                                      PostFails, RecordDelivered, RecordDeadLetter, Redeliver, TypeOK
      <3> QED BY <2>2, <3>1, <3>2
    <2> QED BY <1>2, <1>p, <2>1, <2>2, CallMoves
  <1>3. ASSUME NEW q \in Requests, NEW r \in Requests, q # r, pc'[q] \in Running, pc'[r] \in Running
        PROVE  key'[q] # key'[r]
    <2>1. CASE \E e \in Dispatchers : Accept(e, r)
      BY <1>1, <1>3, <2>1
    <2>2. CASE \E e \in Dispatchers : Accept(e, q)
      BY <1>1, <1>3, <2>2
    <2>3. CASE ~(\E e \in Dispatchers : Accept(e, r)) /\ ~\E e \in Dispatchers : Accept(e, q)
      BY <1>2, <1>3, <2>3 DEF Once
    <2> QED BY <2>1, <2>2, <2>3
  \* What the receiver gets comes from a call that is sending, once.
  <1>4. ASSUME NEW k \in Keys
        PROVE  \/ received'[k] = received[k]
               \/ /\ received[k] = 0 /\ received'[k] = 1
                  /\ \E r \in Requests : key[r] = k /\ pc[r] = "sending" /\ pc'[r] # "sending"
                                         /\ Sending(r)
    BY <1>t, ReceivedMoves DEF Once, Alone
  <1>5. \A k \in Keys : received'[k] <= 1
    BY <1>4 DEF Once
  <1>6. ASSUME NEW r \in Requests
        PROVE  /\ pc'[r] \in {"intent", "sending"} => received'[key'[r]] = 0
               /\ pc'[r] = "accepted" =>
                    \/ received'[key'[r]] = 0
                    \/ \E o \in Terminal : <<key'[r], o>> \in ledger'
    <2>1. CASE \E e \in Dispatchers : Accept(e, r)
      BY <1>1, <1>l, <2>1
    <2>2. CASE /\ ~\E e \in Dispatchers : Accept(e, r)
               /\ pc'[r] \in {"accepted", "intent", "sending"}
      <3>1. /\ pc[r] \in Running /\ key'[r] = key[r] /\ (pc'[r] = pc[r] \/ Sending(r))
            /\ key[r] \in Keys
        BY <1>2, <1>p, <1>t, <2>2
      <3>2. CASE received'[key[r]] = received[key[r]]
        <4>1. CASE pc'[r] = pc[r]
          BY <1>l, <2>2, <3>1, <3>2, <4>1 DEF Once
        <4>2. CASE pc'[r] # pc[r]
          <5>1. \/ pc[r] = "accepted" /\ pc'[r] = "intent" /\ ~Closed(key[r])
                \/ pc[r] = "intent" /\ pc'[r] = "sending"
            <6>1. Sending(r)
              BY <3>1, <4>2
            <6>2. CASE CheckLedger(r)
              BY <2>2, <6>2 DEF CheckLedger, Leave, TypeOK
            <6>3. CASE ~CheckLedger(r)
              BY <2>2, <4>2, <6>1, <6>3 DEF Sending, RecordIntent, Send, PostRefused, PostFails,
                    RecordDelivered, RecordDeadLetter, LedgerRaises, SendRaises, Redeliver, Leave, TypeOK
            <6> QED BY <6>2, <6>3
          <5> QED BY <3>1, <3>2, <5>1 DEF Once
        <4> QED BY <4>1, <4>2
      <3>3. CASE received'[key[r]] # received[key[r]]
        <4>1. PICK s \in Requests : /\ key[s] = key[r] /\ pc[s] = "sending" /\ pc'[s] # "sending"
                                    /\ Sending(s)
          BY <1>4, <3>1, <3>3
        <4>2. s = r
          BY <1>p, <3>1, <4>1 DEF Once
        <4>3. pc'[r] \in {"sent", "dead", "raised", "returned"}
          BY <4>1, <4>2 DEF Sending, CheckLedger, RecordIntent, Send, PostRefused, PostFails,
                RecordDelivered, RecordDeadLetter, LedgerRaises, SendRaises, Redeliver, Leave, TypeOK
        <4> QED BY <2>2, <4>3
      <3> QED BY <3>1, <3>2, <3>3
    <2> QED BY <2>1, <2>2
  <1>7. up'[d] = "reconciling" => todo'[d] = InFlight'
    <2> SUFFICES ASSUME up'[d] = "reconciling" PROVE todo'[d] = InFlight'
      OBVIOUS
    <2>1. CASE Start(d) /\ ledger' = ledger
      <3>1. InFlight' = InFlight
        BY <2>1 DEF InFlight, Closed
      <3> QED BY <2>1, <3>1 DEF Start, Alone, TypeOK
    <2>2. CASE up[d] = "reconciling"
      <3>0. \A r \in Requests : pc[r] \notin Running
        BY <2>2, RunsAlone
      <3>1. todo[d] = InFlight
        BY <2>2 DEF Once
      <3>2. CASE \E e \in Dispatchers, k \in Keys :
                   /\ up[e] = "reconciling" /\ todo' = [todo EXCEPT ![e] = @ \ {k}]
                   /\ InFlight' = InFlight \ {k}
        <4>1. PICK e \in Dispatchers, k \in Keys :
                   /\ up[e] = "reconciling" /\ todo' = [todo EXCEPT ![e] = @ \ {k}]
                   /\ InFlight' = InFlight \ {k}
          BY <3>2
        <4>2. e = d
          BY <4>1 DEF Located, Alone
        <4> QED BY <3>1, <4>1, <4>2 DEF TypeOK
      <3>3. CASE InFlight' = InFlight /\ todo'[d] = todo[d]
        BY <3>1, <3>3
      <3>4. \/ todo'[d] = todo[d] /\ InFlight' = InFlight
            \/ \E e \in Dispatchers, k \in Keys :
                   /\ up[e] = "reconciling" /\ todo' = [todo EXCEPT ![e] = @ \ {k}]
                   /\ InFlight' = InFlight \ {k}
        <4>1. ASSUME NEW e \in Dispatchers, NEW r \in Requests, Decide(e, r)
              PROVE  todo' = todo /\ ledger' = ledger
          BY <4>1 DEF Decide, BelowThreshold, Suppress, SuppressRaises, Accept, process
        <4>2. ASSUME NEW r \in Requests, Sending(r) PROVE todo' = todo /\ ledger' = ledger
          BY <1>p, <3>0, <4>2 DEF Sending, CheckLedger, RecordIntent, Send, PostRefused, PostFails,
                RecordDelivered, RecordDeadLetter, LedgerRaises, SendRaises, Redeliver, Recorded, process
        <4>3. ASSUME NEW e \in Dispatchers, Start(e) \/ Reconciled(e) \/ Crash(e)
              PROVE  todo'[d] = todo[d] /\ ledger' = ledger
          <5>1. e \in deployed \/ up[e] # "down"
            BY <4>3 DEF Start, Reconciled, Crash
          <5>2. e = d
            BY <5>1 DEF Located, Alone
          <5>3. ~Start(d) /\ ~Crash(d)
            BY <2>2 DEF Start, Crash, TypeOK
          <5> QED BY <4>3, <5>2, <5>3 DEF Reconciled
        <4>4. ASSUME NEW e \in Dispatchers, NEW k \in Keys, Resolving(e, k)
              PROVE  /\ up[e] = "reconciling" /\ todo' = [todo EXCEPT ![e] = @ \ {k}]
                     /\ InFlight' = InFlight \ {k}
          <5>0. ~ReconcileRaises(e, k)
            <6>1. ReconcileRaises(e, k) => e = d
              BY DEF ReconcileRaises, Located, Alone
            <6> QED BY <6>1 DEF ReconcileRaises, TypeOK
          <5>1. ReconcileSkip(e, k)
            BY <5>0, <4>4 DEF Resolving, ReconcileResend, ReconcilePostFails, Alone
          <5> QED BY <5>1 DEF ReconcileSkip, InFlight, Closed, Terminal
        <4>5. CASE Quiet
          BY <4>5 DEF Quiet, Tick, vars, process, InFlight, Closed
        <4>6. ledger' = ledger => InFlight' = InFlight
          BY DEF InFlight, Closed
        <4> QED BY <4>1, <4>2, <4>3, <4>4, <4>5, <4>6, NextKinds
      <3> QED BY <3>2, <3>3, <3>4
    <2> QED BY <2>1, <2>2, UpMoves
  <1>8. up'[d] = "running" => \A k \in InFlight' : \E x \in accepts' : x[1] = d /\ x[3] = k
    <2> SUFFICES ASSUME up'[d] = "running", NEW k \in InFlight'
                 PROVE  \E x \in accepts' : x[1] = d /\ x[3] = k
      OBVIOUS
    <2>1. CASE up[d] = "running"
      <3>1. accepts \subseteq accepts'
        <4>1. ASSUME NEW e \in Dispatchers, Crash(e) PROVE FALSE
          <5>1. e = d
            BY <4>1 DEF Crash, Located, Alone
          <5> QED BY <4>1, <5>1 DEF Crash, TypeOK
        <4> QED BY <4>1, CooldownMoves DEF Accept
      <3>2. CASE k \in InFlight
        BY <2>1, <3>1, <3>2 DEF Once
      <3>3. CASE k \notin InFlight
        <4>1. PICK r \in Requests : pc[r] \in Running /\ k = key[r]
          BY <3>3, InFlightMoves
        <4> QED BY <3>1, <4>1, RunsAlone
      <3> QED BY <3>2, <3>3
    <2>2. CASE Start(d)
      BY <2>2 DEF Start, Alone, TypeOK
    <2>3. CASE Reconciled(d) /\ ledger' = ledger
      <3>1. InFlight' = InFlight /\ InFlight = {}
        BY <2>3 DEF Reconciled, Once, InFlight, Closed
      <3> QED BY <3>1
    <2> QED BY <2>1, <2>2, <2>3, UpMoves
  <1> QED BY <1>3, <1>5, <1>6, <1>7, <1>8 DEF Once, Closed

------------------------------------------------------------------------------
(* Reconciliation *)

\* Somebody is going to close the intent k: the call that opened it, an operator who
\* saw it raise, or a reconciliation.
Cared(k) ==
  \/ \E r \in Requests : pc[r] \in Running /\ key[r] = k
  \/ k \in raises /\ \E x \in accepts : x[3] = k
  \/ \E d \in deployed : up[d] = "down" \/ k \in todo[d]

\* A process that goes down leaves its intents to its next start.
LEMMA DownCares ==
  ASSUME TypeOK, Located, [Next]_vars, NEW d \in Dispatchers, up[d] # "down", up'[d] = "down",
         NEW k
  PROVE  Cared(k)'
  <1>1. d \in deployed /\ deployed' = deployed
    BY Keeps DEF Located, setup
  <1> QED BY <1>1 DEF Cared

\* A running call keeps its intent, hands it to its next start or raises.
LEMMA CallCares ==
  ASSUME TypeOK, Located, [Next]_vars, NEW r \in Requests, pc[r] \in Running,
         NEW k \in InFlight', key[r] = k
  PROVE  Cared(k)'
  <1>p. Running = {"accepted", "intent", "sending", "sent", "dead"}
    BY DEF Running
  <1>1. CASE pc'[r] = pc[r] /\ key'[r] = key[r]
    BY <1>1 DEF Cared
  <1>2. ASSUME NEW d \in Dispatchers, Decide(d, r) PROVE FALSE
    BY <1>2, <1>p DEF Decide, BelowThreshold, Suppress, SuppressRaises, Accept, Enabled
  <1>3. CASE Sending(r)
    <2>1. CASE LedgerRaises(r) \/ SendRaises(r)
      <3>1. k \in raises' /\ accepts' = accepts
        BY <2>1 DEF LedgerRaises, SendRaises
      <3>2. PICK t \in Nat : <<at[r], WalletOf[r], key[r], t>> \in accepts
        BY DEF Located
      <3>3. \E x \in accepts' : x[3] = k
        BY <3>1, <3>2
      <3> QED BY <3>1, <3>3 DEF Cared
    <2>2. CASE CheckLedger(r)
      <3>1. ~Closed(key[r])
        BY <2>2 DEF InFlight, Closed, CheckLedger
      <3>2. pc'[r] \in Running /\ key'[r] = key[r]
        BY <1>p, <2>2, <3>1 DEF CheckLedger, TypeOK
      <3> QED BY <3>2 DEF Cared
    <2>3. CASE RecordIntent(r) \/ Send(r) \/ PostRefused(r) \/ PostFails(r)
      <3>1. pc'[r] \in Running /\ key'[r] = key[r]
        BY <1>p, <2>3 DEF RecordIntent, Send, PostRefused, PostFails, TypeOK
      <3> QED BY <3>1 DEF Cared
    <2>4. ~RecordDelivered(r) /\ ~RecordDeadLetter(r)
      BY DEF RecordDelivered, RecordDeadLetter, InFlight, Closed, Terminal
    <2>5. ~Redeliver(r)
      BY <1>p DEF Redeliver
    <2> QED BY <1>3, <2>1, <2>2, <2>3, <2>4, <2>5 DEF Sending
  <1>4. ASSUME NEW d \in Dispatchers, Crash(d) PROVE Cared(k)'
    <2>1. up[d] # "down" /\ up'[d] = "down"
      BY <1>4 DEF Crash, TypeOK
    <2> QED BY <2>1, DownCares
  <1> QED BY <1>1, <1>2, <1>3, <1>4, CallMoves

\* An intent leaves the list of a reconciliation that goes on only when it is closed.
LEMMA TodoDone ==
  ASSUME TypeOK, [Next]_vars, NEW d \in Dispatchers, up[d] = "reconciling", up'[d] = up[d],
         NEW k \in todo[d], k \notin todo'[d]
  PROVE  k \notin InFlight'
  <1>1. ASSUME NEW e \in Dispatchers, NEW r \in Requests, Decide(e, r) PROVE todo' = todo
    BY <1>1 DEF Decide, BelowThreshold, Suppress, SuppressRaises, Accept, process
  <1>2. ASSUME NEW r \in Requests, Sending(r) PROVE todo' = todo
    BY <1>2 DEF Sending, CheckLedger, RecordIntent, Send, PostRefused, PostFails, RecordDelivered,
                RecordDeadLetter, LedgerRaises, SendRaises, Redeliver, process
  <1>3. ASSUME NEW e \in Dispatchers, Start(e) \/ Reconciled(e) \/ Crash(e) PROVE FALSE
    <2>1. e # d
      BY <1>3 DEF Start, Reconciled, Crash, TypeOK
    <2>2. CASE Start(e)
      <3>1. todo' = todo \/ todo' = [todo EXCEPT ![e] = InFlight]
        BY <2>2 DEF Start
      <3> QED BY <2>1, <3>1 DEF TypeOK
    <2>3. CASE Reconciled(e) \/ Crash(e)
      BY <2>1, <2>3 DEF Reconciled, Crash, TypeOK
    <2> QED BY <1>3, <2>2, <2>3
  <1>4. ASSUME NEW e \in Dispatchers, NEW m \in Keys, Resolving(e, m) PROVE k \notin InFlight'
    <2>1. ~ReconcileRaises(e, m) /\ ~ReconcilePostFails(e, m)
      BY DEF ReconcileRaises, ReconcilePostFails, TypeOK, process
    <2>2. m = k
      BY <1>4, <2>1 DEF Resolving, ReconcileResend, ReconcileSkip, TypeOK
    <2>3. \E o \in Terminal : ledger' = ledger \cup {<<m, o>>}
      BY <1>4, <2>1 DEF Resolving, ReconcileResend, ReconcileSkip, Terminal
    <2> QED BY <2>2, <2>3 DEF InFlight, Closed
  <1>5. Quiet => todo' = todo
    BY DEF Quiet, Tick, vars, process
  <1> QED BY <1>1, <1>2, <1>3, <1>4, <1>5, NextKinds

\* No step abandons an intent.
LEMMA OwnedStep ==
  ASSUME TypeOK, Located, OpenIntentsOwned, [Next]_vars
  PROVE  OpenIntentsOwned'
  <1> SUFFICES ASSUME reconciles, NEW k \in InFlight' PROVE Cared(k)'
    BY Keeps DEF OpenIntentsOwned, Cared, setup
  <1>0. reconciles' = reconciles /\ deployed' = deployed /\ deployed \subseteq Dispatchers
    BY Keeps, Constants DEF setup, TypeOK
  <1>1. CASE \E r \in Requests : pc[r] \in Running /\ key[r] = k
    BY <1>1, CallCares
  <1>2. CASE k \in raises /\ \E x \in accepts : x[3] = k
    <2>1. CASE accepts \subseteq accepts'
      BY <1>2, <2>1, Keeps DEF Cared
    <2>2. ASSUME NEW d \in Dispatchers, Crash(d) PROVE Cared(k)'
      <3>1. up[d] # "down" /\ up'[d] = "down"
        BY <2>2 DEF Crash, TypeOK
      <3> QED BY <3>1, DownCares
    <2> QED BY <2>1, <2>2, CooldownMoves DEF Accept
  <1>3. ASSUME NEW d \in deployed, up[d] = "down" \/ k \in todo[d], k \in InFlight
        PROVE  Cared(k)'
    <2>1. CASE up'[d] = "down"
      BY <1>0, <2>1 DEF Cared
    <2>2. CASE up'[d] = up[d] /\ up[d] # "down"
      <3>1. k \in todo[d] /\ up[d] = "reconciling"
        BY <1>0, <1>3, <2>2 DEF Located
      <3>2. CASE k \in todo'[d]
        BY <1>0, <3>2 DEF Cared
      <3>3. CASE k \notin todo'[d]
        BY <1>0, <2>2, <3>1, <3>3, TodoDone
      <3> QED BY <3>2, <3>3
    <2>3. CASE Start(d) /\ ledger' = ledger
      <3>1. todo'[d] = InFlight
        BY <1>0, <2>3 DEF Start, TypeOK
      <3> QED BY <1>0, <1>3, <3>1 DEF Cared
    <2>4. CASE Reconciled(d)
      BY <1>0, <1>3, <2>4 DEF Reconciled
    <2> QED BY <1>0, <2>1, <2>2, <2>3, <2>4, UpMoves
  <1>4. CASE k \in InFlight
    BY <1>1, <1>2, <1>3, <1>4 DEF OpenIntentsOwned
  <1>5. CASE k \notin InFlight
    <2>1. PICK r \in Requests : pc[r] \in Running /\ k = key[r]
      BY <1>5, InFlightMoves
    <2> QED BY <1>1, <2>1
  <1> QED BY <1>4, <1>5
------------------------------------------------------------------------------
(* The theorems *)

IInv ==
  /\ TypeOK /\ Located /\ Spaced /\ Intents /\ AccountedFor /\ Behind /\ OpenIntentsOwned
  /\ \A d \in Dispatchers : Alone(d) => Once(d)

\* Nothing is running, recorded or sent at first.
LEMMA InitIInv == Init => IInv
  <1> SUFFICES ASSUME Init PROVE IInv
    OBVIOUS
  <1> USE Constants DEF Init
  <1>1. TypeOK
    BY DEF TypeOK, Places
  <1>2. Located /\ AccountedFor
    BY DEF Located, AccountedFor, Running
  <1>3. Spaced /\ Intents
    BY DEF Spaced, Intents, SentImpliesIntent
  <1>4. Behind
    BY DEF Behind
  <1>5. \A d \in Dispatchers : Once(d)
    BY DEF Once, Running
  <1>6. OpenIntentsOwned
    BY DEF OpenIntentsOwned, InFlight
  <1> QED BY <1>1, <1>2, <1>3, <1>4, <1>5, <1>6 DEF IInv

\* Every step keeps it.
LEMMA StepIInv == IInv /\ [Next]_vars => IInv'
  <1> SUFFICES ASSUME IInv, [Next]_vars PROVE IInv'
    OBVIOUS
  <1>1. TypeOK' /\ Located' /\ Spaced' /\ Intents' /\ AccountedFor' /\ Behind'
    BY TypeStep, LocatedStep, SpacedStep, IntentsStep, AccountedStep, BehindStep DEF IInv
  <1>2. setup' = setup
    BY Keeps DEF IInv
  <1>3. OpenIntentsOwned'
    BY OwnedStep DEF IInv
  <1>4. \A d \in Dispatchers : Alone(d)' => Once(d)'
    BY <1>2, OnceStep DEF IInv, setup, Alone
  <1> QED BY <1>1, <1>3, <1>4 DEF IInv

LEMMA AlwaysIInv == Spec => []IInv
  BY InitIInv, StepIInv, PTL DEF Spec

\* Every variable keeps to its range.
THEOREM TypeCorrect == Spec => []TypeOK
  <1>1. IInv => TypeOK
    BY DEF IInv
  <1> QED BY <1>1, AlwaysIInv, PTL

\* dispatch: a call that returned was below the threshold, recorded as
\* suppressed, or left its alert with a terminal row.
THEOREM EveryCallAccounted == Spec => []AccountedFor
  <1>1. IInv => AccountedFor
    BY DEF IInv
  <1> QED BY <1>1, AlwaysIInv, PTL

\* record_in_flight: no alert reaches the receiver before its intent is durable.
THEOREM WriteAhead == Spec => []SentImpliesIntent
  <1>1. IInv => SentImpliesIntent
    BY DEF IInv, Intents
  <1> QED BY <1>1, AlwaysIInv, PTL

\* _cooldowns: two alerts of one wallet that one process sent are a cooldown apart.
THEOREM Spacing == Spec => []CooldownSpacing
  <1>1. TypeOK /\ Spaced => CooldownSpacing
    <2> SUFFICES ASSUME TypeOK, Spaced, NEW x \in accepts, NEW y \in accepts,
                        x[1] = y[1], x[2] = y[2], x[3] # y[3], x[4] <= y[4]
                 PROVE  x[4] + Cooldown <= y[4]
      BY DEF CooldownSpacing
    <2>1. x[4] \in Nat /\ y[4] \in Nat
      BY DEF TypeOK
    <2>2. x[4] + Cooldown <= y[4] \/ y[4] + Cooldown <= x[4]
      BY DEF Spaced
    <2> QED BY <2>1, <2>2, Constants
  <1>2. IInv => CooldownSpacing
    BY <1>1 DEF IInv
  <1> QED BY <1>2, AlwaysIInv, PTL

\* "correctly suppressed": on every channel, behind a suppressed call there is an alert
\* of its wallet that was closed, or one whose call raised.
THEOREM SuppressedBehind == Spec => []NoSilentSuppression
  <1>1. IInv => NoSilentSuppression
    <2> SUFFICES ASSUME IInv, NEW r \in suppressed,
                        \A q \in Requests : WalletOf[q] = WalletOf[r] => pc[q] \in {"returned", "raised"}
                 PROVE  Answered(WalletOf[r])
      BY DEF NoSilentSuppression, Answered
    <2>1. ~Willing(WalletOf[r])
      BY DEF Willing, Running
    <2> QED BY <2>1 DEF IInv, Behind
  <1> QED BY <1>1, AlwaysIInv, PTL

\* reconcile_on_startup: where it is called, no open intent is abandoned.
THEOREM IntentsOwned == Spec => []OpenIntentsOwned
  <1>1. IInv => OpenIntentsOwned
    BY DEF IInv
  <1> QED BY <1>1, AlwaysIInv, PTL

\* reconcile_on_startup: on the other channels a single process that calls it
\* sends no alert twice, wherever it crashed.
THEOREM AtMostOnce == Spec => []AtMostOncePerKey
  <1>1. IInv => AtMostOncePerKey
    <2> SUFFICES ASSUME IInv, channel # "webhook", reconciles, Cardinality(deployed) = 1
                 PROVE  \A k \in Keys : received[k] <= 1
      BY DEF AtMostOncePerKey
    <2>1. deployed \subseteq Dispatchers /\ IsFiniteSet(deployed)
      BY Constants, FS_Subset DEF IInv, TypeOK
    <2>2. PICK d : deployed = {d}
      BY <2>1, FS_Singleton
    <2> QED BY <2>1, <2>2 DEF IInv, Alone, Once
  <1> QED BY <1>1, AlwaysIInv, PTL
==============================================================================
