--------------------------- MODULE AlertDispatcher ---------------------------
(***************************************************************************)
(* Alert delivery: AlertDispatcher (streaming/alert_dispatcher.py) and the *)
(* durable AlertDeliveryLedger (streaming/alert_ledger.py) it writes to,   *)
(* with the calls of several threads and processes, crashes, exceptions,   *)
(* redelivered calls and reconciliation at startup.                        *)
(*                                                                         *)
(* A request is one call dispatch(wallet, risk_score, pair_id); the pair   *)
(* is fixed, so an alert's idempotency key is (wallet, score, window).     *)
(* Cooldowns live in process memory; the ledger is a shared SQL table and  *)
(* the receiver of the alerts is external.  A request that is cut short by *)
(* a crash is made again, as KafkaWorker does with the message it could    *)
(* not finish; one that an exception of the ledger or of the channel cuts  *)
(* short may be.                                                           *)
(***************************************************************************)
EXTENDS Naturals, FiniteSets

CONSTANTS
  Dispatchers,     \* processes holding an AlertDispatcher
  Deployments,     \* which sets of them may be deployed together
  Requests,        \* dispatch calls
  Wallets,
  WalletOf,        \* WalletOf[r]: the wallet of request r
  ScoreOf,         \* ScoreOf[r]: its risk score
  Thresholds,      \* the values RISK_SCORE_FLAG_THRESHOLD may be set to
  Cooldown,        \* alert_cooldown_seconds, in clock ticks
  Channels,        \* the channels that may be configured
  MaxRetries,      \* max_retries of the webhook channel
  Reconciling,     \* whether entry points call reconcile_on_startup(): {FALSE} as
                   \* they stand, {TRUE} as documented
  Nowhere,         \* not running in any process
  MaxTime,         \* bound on the clock
  MaxFaults        \* bound on crashes and exceptions

ASSUME DispatcherAssumption ==
  /\ IsFiniteSet(Dispatchers) /\ Deployments \subseteq SUBSET Dispatchers
  /\ WalletOf \in [Requests -> Wallets]
  /\ ScoreOf \in [Requests -> Nat]
  /\ Thresholds \subseteq Nat
  /\ Cooldown \in Nat \ {0}
  /\ Channels \subseteq {"stdout", "webhook", "websocket"}
  /\ MaxRetries \in Nat
  /\ Reconciling \subseteq BOOLEAN
  /\ Nowhere \notin Dispatchers
  /\ MaxTime \in Nat
  /\ MaxFaults \in Nat

Scores == {ScoreOf[r] : r \in Requests}
Windows == 0 .. MaxTime
Keys == Wallets \X Scores \X Windows
NoKey == <<>>

Terminal == {"delivered", "dead_lettered", "reconciled_skipped"}
Outcomes == {"in_flight"} \cup Terminal

VARIABLES
  deployed,     \* the processes of this deployment
  channel,      \* the channel of its dispatchers
  reconciles,   \* TRUE: its entry points call reconcile_on_startup()
  threshold,    \* RISK_SCORE_FLAG_THRESHOLD
  clock,        \* time.time()
  up,           \* up[d]: "down", "reconciling" or "running"
  cooldowns,    \* cooldowns[d][w]: _cooldowns, 0 when absent
  todo,         \* todo[d]: the intents reconcile_on_startup still has to resolve
  pc,           \* pc[r]: where the call is
  at,           \* at[r]: the process running it
  key,          \* key[r]: its idempotency key once accepted
  attempt,      \* attempt[r]: webhook attempts made
  ledger,       \* the rows <<key, outcome>> of alert_delivery
  suppressed,   \* the requests with a suppressed_cooldown row
  received,     \* received[k]: copies of alert k that reached the receiver
  accepts,      \* history: <<process, wallet, key, time>> of the calls that passed
                \* the cooldown of a process that is still up
  raises,       \* history: the alerts whose call left dispatch with an exception
  faults

setup == <<deployed, channel, reconciles, threshold>>
process == <<up, cooldowns, todo>>
vars == <<setup, clock, process, pc, at, key, attempt, ledger, suppressed, received, accepts, raises, faults>>

Running == {"accepted", "intent", "sending", "sent", "dead"}
Places == {"new", "raised", "returned"} \cup Running

TypeOK ==
  /\ deployed \in Deployments
  /\ channel \in Channels
  /\ reconciles \in Reconciling
  /\ threshold \in Thresholds
  /\ clock \in 0 .. MaxTime
  /\ up \in [Dispatchers -> {"down", "reconciling", "running"}]
  /\ cooldowns \in [Dispatchers -> [Wallets -> Nat]]
  /\ todo \in [Dispatchers -> SUBSET Keys]
  /\ pc \in [Requests -> Places]
  /\ at \in [Requests -> Dispatchers \cup {Nowhere}]
  /\ key \in [Requests -> Keys \cup {NoKey}]
  /\ attempt \in [Requests -> 0 .. MaxRetries]
  /\ ledger \in SUBSET (Keys \X Outcomes)
  /\ suppressed \in SUBSET Requests
  /\ received \in [Keys -> Nat]
  /\ accepts \in SUBSET (Dispatchers \X Wallets \X Keys \X (0 .. MaxTime))
  /\ raises \in SUBSET Keys
  /\ faults \in 0 .. MaxFaults

Init ==
  /\ deployed \in Deployments
  /\ channel \in Channels
  /\ reconciles \in Reconciling
  /\ threshold \in Thresholds
  /\ clock = 0
  /\ up = [d \in Dispatchers |-> "down"]
  /\ cooldowns = [d \in Dispatchers |-> [w \in Wallets |-> 0]]
  /\ todo = [d \in Dispatchers |-> {}]
  /\ pc = [r \in Requests |-> "new"]
  /\ at = [r \in Requests |-> Nowhere]
  /\ key = [r \in Requests |-> NoKey]
  /\ attempt = [r \in Requests |-> 0]
  /\ ledger = {}
  /\ suppressed = {}
  /\ received = [k \in Keys |-> 0]
  /\ accepts = {}
  /\ raises = {}
  /\ faults = 0

Fault == faults < MaxFaults /\ faults' = faults + 1

IdempotencyKey(r) == <<WalletOf[r], ScoreOf[r], clock \div Cooldown>>

Closed(k) == \E o \in Terminal : <<k, o>> \in ledger        \* is_delivered
InFlight == {k \in Keys : <<k, "in_flight">> \in ledger /\ ~Closed(k)}

\* r leaves its process with the given place.
Leave(r, place) ==
  /\ pc' = [pc EXCEPT ![r] = place]
  /\ at' = [at EXCEPT ![r] = Nowhere]
  /\ attempt' = [attempt EXCEPT ![r] = 0]

------------------------------------------------------------------------------
(* dispatch *)

Enabled(d, r) == up[d] = "running" /\ pc[r] = "new"

BelowThreshold(d, r) ==
  /\ Enabled(d, r)
  /\ ScoreOf[r] < threshold
  /\ Leave(r, "returned")
  /\ UNCHANGED <<setup, clock, process, key, ledger, suppressed, received, accepts, raises, faults>>

CoolingDown(d, r) == clock < cooldowns[d][WalletOf[r]]

\* Under the lock: the wallet is cooling down.
Suppress(d, r) ==
  /\ Enabled(d, r)
  /\ ScoreOf[r] >= threshold
  /\ CoolingDown(d, r)
  /\ suppressed' = suppressed \cup {r}
  /\ Leave(r, "returned")
  /\ UNCHANGED <<setup, clock, process, key, ledger, received, accepts, raises, faults>>

\* The same, but the ledger raises: the exception leaves dispatch, with or without
\* the row.
SuppressRaises(d, r) ==
  /\ Enabled(d, r)
  /\ ScoreOf[r] >= threshold
  /\ CoolingDown(d, r)
  /\ Fault
  /\ suppressed' \in {suppressed, suppressed \cup {r}}
  /\ Leave(r, "raised")
  /\ UNCHANGED <<setup, clock, process, key, ledger, received, accepts, raises>>

\* Faulty variants of Accept: the cooldown is not started; the key does not
\* stay the same within a window.
AcceptWithoutCooldown(d, r) ==
  /\ Enabled(d, r)
  /\ ScoreOf[r] >= threshold
  /\ ~CoolingDown(d, r)
  /\ key' = [key EXCEPT ![r] = IdempotencyKey(r)]
  /\ pc' = [pc EXCEPT ![r] = "accepted"]
  /\ at' = [at EXCEPT ![r] = d]
  /\ accepts' = accepts \cup {<<d, WalletOf[r], IdempotencyKey(r), clock>>}
  /\ UNCHANGED <<setup, clock, process, attempt, ledger, suppressed, received, raises, faults>>

AcceptBadKey(d, r) ==
  /\ Enabled(d, r)
  /\ ScoreOf[r] >= threshold
  /\ ~CoolingDown(d, r)
  /\ cooldowns' = [cooldowns EXCEPT ![d][WalletOf[r]] = clock + Cooldown]
  /\ key' = [key EXCEPT ![r] = <<WalletOf[r], ScoreOf[r], clock + Cooldown>>]
  /\ pc' = [pc EXCEPT ![r] = "accepted"]
  /\ at' = [at EXCEPT ![r] = d]
  /\ accepts' = accepts \cup {<<d, WalletOf[r], IdempotencyKey(r), clock>>}
  /\ UNCHANGED <<setup, clock, up, todo, attempt, ledger, suppressed, received, raises, faults>>

\* Under the lock: the cooldown starts now, before anything is delivered.
Accept(d, r) ==
  /\ Enabled(d, r)
  /\ ScoreOf[r] >= threshold
  /\ ~CoolingDown(d, r)
  /\ cooldowns' = [cooldowns EXCEPT ![d][WalletOf[r]] = clock + Cooldown]
  /\ key' = [key EXCEPT ![r] = IdempotencyKey(r)]
  /\ pc' = [pc EXCEPT ![r] = "accepted"]
  /\ at' = [at EXCEPT ![r] = d]
  /\ accepts' = accepts \cup {<<d, WalletOf[r], IdempotencyKey(r), clock>>}
  /\ UNCHANGED <<setup, clock, up, todo, attempt, ledger, suppressed, received, raises, faults>>

\* Faulty variant of CheckLedger: an open intent counts as delivered.
CheckLedgerAnyRow(r) ==
  /\ pc[r] = "accepted"
  /\ IF Closed(key[r]) \/ <<key[r], "in_flight">> \in ledger
     THEN Leave(r, "returned")
     ELSE pc' = [pc EXCEPT ![r] = "intent"] /\ UNCHANGED <<at, attempt>>
  /\ UNCHANGED <<setup, clock, process, key, ledger, suppressed, received, accepts, raises, faults>>

\* is_delivered(key): an alert already closed is not sent again.
CheckLedger(r) ==
  /\ pc[r] = "accepted"
  /\ IF Closed(key[r])
     THEN Leave(r, "returned")
     ELSE pc' = [pc EXCEPT ![r] = "intent"] /\ UNCHANGED <<at, attempt>>
  /\ UNCHANGED <<setup, clock, process, key, ledger, suppressed, received, accepts, raises, faults>>

\* Faulty variant of RecordIntent: no write-ahead row.
RecordNoIntent(r) ==
  /\ pc[r] = "intent"
  /\ pc' = [pc EXCEPT ![r] = "sending"]
  /\ UNCHANGED <<setup, clock, process, at, key, attempt, ledger, suppressed, received,
                 accepts, raises, faults>>

\* Write-ahead: the intent is durable before the external call.
RecordIntent(r) ==
  /\ pc[r] = "intent"
  /\ ledger' = ledger \cup {<<key[r], "in_flight">>}
  /\ pc' = [pc EXCEPT ![r] = "sending"]
  /\ UNCHANGED <<setup, clock, process, at, key, attempt, suppressed, received, accepts, raises, faults>>

\* _deliver on any channel: the receiver has the alert and the call succeeds.
Send(r) ==
  /\ pc[r] = "sending"
  /\ received' = [received EXCEPT ![key[r]] = @ + 1]
  /\ pc' = [pc EXCEPT ![r] = "sent"]
  /\ UNCHANGED <<setup, clock, process, at, key, attempt, ledger, suppressed, accepts, raises, faults>>

\* Webhook, 4xx: not retried.
PostRefused(r) ==
  /\ channel = "webhook"
  /\ pc[r] = "sending"
  /\ pc' = [pc EXCEPT ![r] = "dead"]
  /\ UNCHANGED <<setup, clock, process, at, key, attempt, ledger, suppressed, received,
                 accepts, raises, faults>>

\* Faulty variant of PostFails: exhausted retries return without a record.
PostFailsSilently(r) ==
  /\ channel = "webhook"
  /\ pc[r] = "sending"
  /\ Fault
  /\ received' \in {received, [received EXCEPT ![key[r]] = @ + 1]}
  /\ IF attempt[r] < MaxRetries
     THEN attempt' = [attempt EXCEPT ![r] = @ + 1] /\ UNCHANGED <<pc, at>>
     ELSE Leave(r, "returned")
  /\ UNCHANGED <<setup, clock, process, key, ledger, suppressed, accepts, raises>>

\* Webhook, 5xx, connection error or timeout, which the receiver may have seen:
\* retried up to MaxRetries times.
PostFails(r) ==
  /\ channel = "webhook"
  /\ pc[r] = "sending"
  /\ Fault
  /\ received' \in {received, [received EXCEPT ![key[r]] = @ + 1]}
  /\ IF attempt[r] < MaxRetries
     THEN attempt' = [attempt EXCEPT ![r] = @ + 1] /\ UNCHANGED pc
     ELSE pc' = [pc EXCEPT ![r] = "dead"] /\ UNCHANGED attempt
  /\ UNCHANGED <<setup, clock, process, at, key, ledger, suppressed, accepts, raises>>

RecordDelivered(r) ==
  /\ pc[r] = "sent"
  /\ ledger' = ledger \cup {<<key[r], "delivered">>}
  /\ Leave(r, "returned")
  /\ UNCHANGED <<setup, clock, process, key, suppressed, received, accepts, raises, faults>>

\* _write_to_dead_letter.
RecordDeadLetter(r) ==
  /\ pc[r] = "dead"
  /\ ledger' = ledger \cup {<<key[r], "dead_lettered">>}
  /\ Leave(r, "returned")
  /\ UNCHANGED <<setup, clock, process, key, suppressed, received, accepts, raises, faults>>

\* What dispatch records at each place of an accepted call.
Recorded == [intent |-> "in_flight", sent |-> "delivered", dead |-> "dead_lettered"]

\* On every channel: is_delivered or record re-raises the OperationalError of its
\* last attempt.  dispatch has no handler for it: the cooldown goes on, and the row
\* being written may be durable or not.
LedgerRaises(r) ==
  /\ pc[r] \in {"accepted"} \cup DOMAIN Recorded
  /\ Fault
  /\ \/ UNCHANGED ledger
     \/ /\ pc[r] \in DOMAIN Recorded
        /\ ledger' = ledger \cup {<<key[r], Recorded[pc[r]]>>}
  /\ raises' = raises \cup {key[r]}
  /\ Leave(r, "raised")
  /\ key' = [key EXCEPT ![r] = NoKey]
  /\ UNCHANGED <<setup, clock, process, suppressed, received, accepts>>

\* ws_client.send or print raises, whether or not the alert went out; dispatch has
\* no handler for it either.
SendRaises(r) ==
  /\ channel # "webhook"
  /\ pc[r] = "sending"
  /\ Fault
  /\ received' \in {received, [received EXCEPT ![key[r]] = @ + 1]}
  /\ raises' = raises \cup {key[r]}
  /\ Leave(r, "raised")
  /\ key' = [key EXCEPT ![r] = NoKey]
  /\ UNCHANGED <<setup, clock, process, ledger, suppressed, accepts>>

\* The caller may have left its message uncommitted, and it is delivered again.
Redeliver(r) ==
  /\ pc[r] = "raised"
  /\ pc' = [pc EXCEPT ![r] = "new"]
  /\ UNCHANGED <<setup, clock, process, at, key, attempt, ledger, suppressed, received,
                 accepts, raises, faults>>

------------------------------------------------------------------------------
(* Process lifecycle and reconcile_on_startup *)

\* Faulty variant of Start: reconciliation overlooks the open intents.
StartWithoutIntents(d) ==
  /\ d \in deployed
  /\ up[d] = "down"
  /\ up' = [up EXCEPT ![d] = IF reconciles THEN "reconciling" ELSE "running"]
  /\ UNCHANGED <<setup, clock, cooldowns, todo, pc, at, key, attempt, ledger, suppressed,
                 received, accepts, raises, faults>>

Start(d) ==
  /\ d \in deployed
  /\ up[d] = "down"
  /\ IF reconciles
     THEN /\ up' = [up EXCEPT ![d] = "reconciling"]
          /\ todo' = [todo EXCEPT ![d] = InFlight]
     ELSE /\ up' = [up EXCEPT ![d] = "running"]
          /\ UNCHANGED todo
  /\ UNCHANGED <<setup, clock, cooldowns, pc, at, key, attempt, ledger, suppressed,
                 received, accepts, raises, faults>>

\* webhook: sent again under the same key, with the retries of _deliver_webhook.
ReconcileResend(d, k) ==
  /\ up[d] = "reconciling"
  /\ k \in todo[d]
  /\ channel = "webhook"
  /\ \/ /\ received' = [received EXCEPT ![k] = @ + 1]
        /\ ledger' = ledger \cup {<<k, "delivered">>}
     \/ /\ UNCHANGED received
        /\ ledger' = ledger \cup {<<k, "dead_lettered">>}
  /\ todo' = [todo EXCEPT ![d] = @ \ {k}]
  /\ UNCHANGED <<setup, clock, up, cooldowns, pc, at, key, attempt, suppressed, accepts, raises, faults>>

\* A failed attempt of that delivery, which the receiver may have seen.
ReconcilePostFails(d, k) ==
  /\ up[d] = "reconciling"
  /\ k \in todo[d]
  /\ channel = "webhook"
  /\ Fault
  /\ received' \in {received, [received EXCEPT ![k] = @ + 1]}
  /\ UNCHANGED <<setup, clock, process, pc, at, key, attempt, ledger, suppressed, accepts, raises>>

\* Faulty variant of ReconcileSkip: the intent is dropped but not closed.
ReconcileForgets(d, k) ==
  /\ up[d] = "reconciling"
  /\ k \in todo[d]
  /\ channel # "webhook"
  /\ todo' = [todo EXCEPT ![d] = @ \ {k}]
  /\ UNCHANGED <<setup, clock, up, cooldowns, pc, at, key, attempt, ledger, suppressed,
                 received, accepts, raises, faults>>

\* stdout and websocket: closed without sending.
ReconcileSkip(d, k) ==
  /\ up[d] = "reconciling"
  /\ k \in todo[d]
  /\ channel # "webhook"
  /\ ledger' = ledger \cup {<<k, "reconciled_skipped">>}
  /\ todo' = [todo EXCEPT ![d] = @ \ {k}]
  /\ UNCHANGED <<setup, clock, up, cooldowns, pc, at, key, attempt, suppressed, received,
                 accepts, raises, faults>>

\* The ledger raises on the outcome of an intent, at any point of resolving it;
\* the exception ends the startup, and with it the process.
ReconcileRaises(d, k) ==
  /\ up[d] = "reconciling"
  /\ k \in todo[d]
  /\ Fault
  /\ \/ /\ channel = "webhook"
        /\ received' = [received EXCEPT ![k] = @ + 1]
        /\ ledger' \in {ledger, ledger \cup {<<k, "delivered">>}}
     \/ /\ UNCHANGED received
        /\ LET o == IF channel = "webhook" THEN "dead_lettered" ELSE "reconciled_skipped"
           IN  ledger' \in {ledger, ledger \cup {<<k, o>>}}
  /\ up' = [up EXCEPT ![d] = "down"]
  /\ todo' = [todo EXCEPT ![d] = {}]
  /\ UNCHANGED <<setup, clock, cooldowns, pc, at, key, attempt, suppressed, accepts, raises>>

Reconciled(d) ==
  /\ up[d] = "reconciling"
  /\ todo[d] = {}
  /\ up' = [up EXCEPT ![d] = "running"]
  /\ UNCHANGED <<setup, clock, cooldowns, todo, pc, at, key, attempt, ledger, suppressed,
                 received, accepts, raises, faults>>

\* Process memory is lost; the calls it was running will be made again.
Crash(d) ==
  /\ up[d] # "down"
  /\ Fault
  /\ up' = [up EXCEPT ![d] = "down"]
  /\ cooldowns' = [cooldowns EXCEPT ![d] = [w \in Wallets |-> 0]]
  /\ todo' = [todo EXCEPT ![d] = {}]
  /\ pc' = [r \in Requests |-> IF at[r] = d THEN "new" ELSE pc[r]]
  /\ at' = [r \in Requests |-> IF at[r] = d THEN Nowhere ELSE at[r]]
  /\ attempt' = [r \in Requests |-> IF at[r] = d THEN 0 ELSE attempt[r]]
  /\ accepts' = {x \in accepts : x[1] # d}
  /\ key' = [r \in Requests |-> IF at[r] = d THEN NoKey ELSE key[r]]
  /\ UNCHANGED <<setup, clock, ledger, suppressed, received, raises>>

Tick ==
  /\ clock < MaxTime
  /\ clock' = clock + 1
  /\ UNCHANGED <<setup, process, pc, at, key, attempt, ledger, suppressed, received,
                 accepts, raises, faults>>

\* All calls have returned and the processes are idle.
Quiescent == (\A r \in Requests : pc[r] = "returned") /\ \A d \in deployed : up[d] = "running"

Idle == Quiescent /\ UNCHANGED vars

------------------------------------------------------------------------------
Dispatch(d, r) == BelowThreshold(d, r) \/ Suppress(d, r) \/ Accept(d, r)

Deliver(r) ==
  \/ CheckLedger(r) \/ RecordIntent(r) \/ Send(r) \/ PostRefused(r)
  \/ RecordDelivered(r) \/ RecordDeadLetter(r)

Reconcile(d) ==
  \/ \E k \in Keys : ReconcileResend(d, k) \/ ReconcileSkip(d, k)
  \/ Reconciled(d)

Next ==
  \/ \E d \in Dispatchers, r \in Requests : Dispatch(d, r) \/ SuppressRaises(d, r)
  \/ \E r \in Requests :
       Deliver(r) \/ PostFails(r) \/ LedgerRaises(r) \/ SendRaises(r) \/ Redeliver(r)
  \/ \E d \in Dispatchers : Start(d) \/ Reconcile(d) \/ Crash(d)
  \/ \E d \in Dispatchers, k \in Keys : ReconcilePostFails(d, k) \/ ReconcileRaises(d, k)
  \/ Tick
  \/ Idle

Spec == Init /\ [][Next]_vars

------------------------------------------------------------------------------
(* Properties *)

\* "Every qualifying score is accounted for": a call that returned was below
\* the threshold, recorded as suppressed, or its alert has a terminal row.
AccountedFor ==
  \A r \in Requests :
    pc[r] = "returned" =>
      \/ ScoreOf[r] < threshold
      \/ r \in suppressed
      \/ Closed(key[r])

\* Write-ahead: nothing reaches the receiver without a durable intent row, so
\* that no crash can hide a delivery from reconciliation.
SentImpliesIntent ==
  \A k \in Keys : received[k] > 0 => <<k, "in_flight">> \in ledger

\* At most once per key on the channels with no downstream dedup, across a
\* crash at any point and the reconciliation that follows it, in a deployment
\* of one process that reconciles when it starts.
AtMostOncePerKey ==
  channel # "webhook" /\ reconciles /\ Cardinality(deployed) = 1 =>
    \A k \in Keys : received[k] <= 1

\* Different alerts for one wallet that reached the receiver were accepted at
\* least a cooldown apart by the same process in one lifetime of it, whatever
\* other processes, retries and calls for the wallet do in between.
CooldownSpacing ==
  \A x, y \in accepts :
    /\ x[1] = y[1] /\ x[2] = y[2] /\ x[3] # y[3] /\ x[4] <= y[4]
    /\ received[x[3]] > 0 /\ received[y[3]] > 0
    => x[4] + Cooldown <= y[4]

\* suppressed_cooldown means "correctly suppressed": once every call has
\* returned, the wallet of a suppressed call has an alert that was delivered
\* or dead-lettered.
SuppressedBehindAnAlert ==
  Quiescent =>
    \A r \in suppressed : \E k \in Keys :
      /\ k[1] = WalletOf[r]
      /\ <<k, "delivered">> \in ledger \/ <<k, "dead_lettered">> \in ledger

\* What the ledger and the callers can know of it, on every channel and whatever
\* raises or crashes: once no call for its wallet is running or waiting, behind a
\* suppressed call there is an alert that was closed, or one whose call left dispatch
\* with an exception.  No alert is both undelivered and silent.
NoSilentSuppression ==
  \A r \in suppressed :
    (\A q \in Requests : WalletOf[q] = WalletOf[r] => pc[q] \in {"returned", "raised"})
    => \E k \in Keys : k[1] = WalletOf[r] /\ (Closed(k) \/ k \in raises)

\* "reconcile_on_startup: Resolve alerts left in_flight by a crash before resuming
\* delivery": where the entry points call it, no open intent is abandoned, through
\* crashes of several processes and failures of the reconciliation itself.  Its call
\* still runs, or raised in a process that was not restarted since; or a process that
\* is down will find it when it starts, or one that starts has it on its list.
OpenIntentsOwned ==
  reconciles => \A k \in InFlight :
    \/ \E r \in Requests : pc[r] \in Running /\ key[r] = k
    \/ k \in raises /\ \E x \in accepts : x[3] = k
    \/ \E d \in deployed : up[d] = "down" \/ k \in todo[d]
==============================================================================
