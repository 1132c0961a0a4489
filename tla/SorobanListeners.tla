---------------------------- MODULE SorobanListeners ----------------------------
(***************************************************************************)
(* The two listeners of integrations/soroban_event_listener.py.  The       *)
(* governance listener (SorobanEventListener) runs handlers for pause and  *)
(* threshold events and keeps is_paused; the oracle listener               *)
(* (ScoreOracleEventListener) stores score events and raises stale-score   *)
(* alerts.  Both poll getEvents from a saved ledger, a page at a time, then*)
(* read the tip and act on what is confirmed.                              *)
(*                                                                         *)
(* An event is <<ledger, index, kind>>; one is malformed whose topics or   *)
(* value the listener cannot read.  The chain grows while a poll is        *)
(* under way, and its last ledgers may be replaced.  Every listener of a   *)
(* deployment is a process of its own; they share the database.            *)
(***************************************************************************)
EXTENDS Integers, Sequences, FiniteSets

CONSTANTS
  Workers,         \* the processes that may run a listener
  Deployments,     \* records [role, durable, workers]
  Contents,        \* Contents[role]: what a ledger may hold, sequences of kinds
  MaxLedger,       \* bound on the chain
  PageSize,        \* the pagination limit of getEvents
  Depth,           \* confirmation_depth
  ReorgDepth,      \* how many ledgers at the tip may still be replaced
  Drift,           \* how many ledgers may close between the two calls of a poll
  MaxFaults        \* bound on crashes, failed calls, raising handlers and reorgs

Roles == {"governance", "oracle"}
Kinds == {"c_paused", "c_unpaused", "score_read", "unknown", "malformed"}

ASSUME ListenerAssumption ==
  /\ Deployments \subseteq [role : Roles, durable : BOOLEAN, workers : SUBSET Workers]
  /\ \A d \in Deployments : d.role = "oracle" => d.durable
  /\ \A r \in Roles : \A c \in Contents[r] : c \in Seq(Kinds)
  /\ MaxLedger \in Nat /\ PageSize \in Nat \ {0}
  /\ Depth \in Nat \ {0} /\ ReorgDepth \in Nat /\ Drift \in Nat
  /\ ReorgDepth + Drift <= Depth
  /\ MaxFaults \in Nat

VARIABLES
  deployment,   \* which listener runs, with a db_url or not, in which processes
  chain,        \* the events of the ledgers 1 .. tip
  tip,          \* the last ledger
  watermark,    \* the row of soroban_event_watermarks, 0: none
  stored,       \* the rows of soroban_contract_events
  pc,           \* pc[p]: where the poll of process p is
  start,        \* _start_ledger (governance)
  paused,       \* _paused (governance)
  batch,        \* the events of the page, then those still to be handled
  full,         \* the page was cut off by the limit
  fetchedAt,    \* the tip when the page was read
  high,         \* max_ledger of the batch (oracle)
  resumed,      \* history: where this process's _start_ledger began
  lost,         \* history: what this process moved its cursor over unhandled
  acted,        \* history: events whose handler or stale check was run
  dropped,      \* history: events that some process lost
  faults

ledgers == <<chain, tip>>
tables == <<watermark, stored>>
poll == <<batch, full, fetchedAt, high>>
memory == <<start, paused, resumed, lost>>
vars == <<deployment, ledgers, tables, pc, memory, poll, acted, dropped, faults>>

Running == deployment.workers
Governance == deployment.role = "governance"
Events == (1 .. MaxLedger) \X (Nat \ {0}) \X Kinds

TypeOK ==
  /\ deployment \in Deployments
  /\ tip \in 0 .. MaxLedger
  /\ chain \subseteq (1 .. tip) \X (Nat \ {0}) \X Kinds
  /\ watermark \in 0 .. tip
  /\ stored \subseteq Events
  /\ pc \in [Workers -> {"down", "idle", "fetched", "handle", "alert", "advance"}]
  /\ start \in [Workers -> 0 .. tip]
  /\ paused \in [Workers -> BOOLEAN]
  /\ batch \in [Workers -> SUBSET Events]
  /\ full \in [Workers -> BOOLEAN]
  /\ fetchedAt \in [Workers -> 0 .. tip]
  /\ high \in [Workers -> 0 .. tip]
  /\ resumed \in [Workers -> 0 .. tip]
  /\ lost \in [Workers -> SUBSET Events]
  /\ acted \subseteq Events
  /\ dropped \subseteq Events
  /\ faults \in 0 .. MaxFaults

Init ==
  /\ deployment \in Deployments
  /\ chain = {} /\ tip = 0
  /\ watermark = 0 /\ stored = {}
  /\ pc = [p \in Workers |-> "down"]
  /\ start = [p \in Workers |-> 0]
  /\ paused = [p \in Workers |-> FALSE]
  /\ batch = [p \in Workers |-> {}]
  /\ full = [p \in Workers |-> FALSE]
  /\ fetchedAt = [p \in Workers |-> 0]
  /\ high = [p \in Workers |-> 0]
  /\ resumed = [p \in Workers |-> 0]
  /\ lost = [p \in Workers |-> {}]
  /\ acted = {} /\ dropped = {}
  /\ faults = 0

Fault == faults < MaxFaults /\ faults' = faults + 1

Before(d, e) == d[1] < e[1] \/ (d[1] = e[1] /\ d[2] < e[2])

Recognised(e) == e[3] # "unknown"
Malformed(e) == e[3] = "malformed"

\* Faulty variant of Confirmed: one ledger too early.
ConfirmedEarly(e, latest) == e[1] <= latest - Depth + 1

Confirmed(e, latest) == e[1] <= latest - Depth           \* split_confirmed

Ledger(l, c) == {<<l, i, c[i]>> : i \in DOMAIN c}

------------------------------------------------------------------------------
(* The chain (external) *)

Close ==
  /\ tip < MaxLedger
  /\ \A p \in Running : pc[p] = "fetched" => tip < fetchedAt[p] + Drift
  /\ tip' = tip + 1
  /\ \E c \in Contents[deployment.role] : chain' = chain \cup Ledger(tip + 1, c)
  /\ UNCHANGED <<deployment, tables, pc, memory, poll, acted, dropped, faults>>

Reorg ==
  /\ Fault
  /\ \E l \in 1 .. tip, c \in Contents[deployment.role] :
       /\ l > tip - ReorgDepth
       /\ chain' = {e \in chain : e[1] # l} \cup Ledger(l, c)
  /\ UNCHANGED <<deployment, tip, tables, pc, memory, poll, acted, dropped>>

\* getEvents: the events from a ledger on, in order, up to the limit.
From(l) == {e \in chain : e[1] >= l}
Page(l) == {e \in From(l) : Cardinality({d \in From(l) : Before(d, e)}) < PageSize}

------------------------------------------------------------------------------
(* A listener's process *)

\* The poll is over.
Forget(p) ==
  /\ batch' = [batch EXCEPT ![p] = {}]
  /\ full' = [full EXCEPT ![p] = FALSE]
  /\ fetchedAt' = [fetchedAt EXCEPT ![p] = 0]
  /\ high' = [high EXCEPT ![p] = 0]

Goto(p, place) == pc' = [pc EXCEPT ![p] = place]

\* __init__: only a listener with a database knows where it was.
Start(p) ==
  /\ p \in Running /\ pc[p] = "down"
  /\ Goto(p, "idle")
  /\ start' = [start EXCEPT ![p] = IF Governance /\ deployment.durable THEN watermark ELSE 0]
  /\ resumed' = [resumed EXCEPT ![p] = start'[p]]
  /\ UNCHANGED <<deployment, ledgers, tables, paused, lost, poll, acted, dropped, faults>>

\* Where the next page begins: the oracle listener reads its row each time.
Position(p) == IF Governance THEN start[p] ELSE watermark

Fetch(p) ==
  /\ pc[p] = "idle"
  /\ Page(Position(p)) # {}
  /\ Goto(p, "fetched")
  /\ batch' = [batch EXCEPT ![p] = Page(Position(p))]
  /\ full' = [full EXCEPT ![p] = Page(Position(p)) # From(Position(p))]
  /\ fetchedAt' = [fetchedAt EXCEPT ![p] = tip]
  /\ UNCHANGED <<deployment, ledgers, tables, memory, high, acted, dropped, faults>>

\* fetch_latest_ledger answers None: the whole page is held back.
TipUnknown(p) ==
  /\ pc[p] = "fetched"
  /\ Fault
  /\ Goto(p, "idle") /\ Forget(p)
  /\ UNCHANGED <<deployment, ledgers, tables, memory, acted, dropped>>

Ready(p) == {e \in batch[p] : Confirmed(e, tip)}

NothingReady(p) ==
  /\ pc[p] = "fetched"
  /\ Ready(p) = {}
  /\ Goto(p, "idle") /\ Forget(p)
  /\ UNCHANGED <<deployment, ledgers, tables, memory, acted, dropped, faults>>

IsLast(e, es) == e \in es /\ \A d \in es : d = e \/ Before(d, e)
IsFirst(e, es) == e \in es /\ \A d \in es : d = e \/ Before(e, d)

\* The events of the last confirmed ledger that the limit left out of the page.
CutOff(p, last) == {e \in chain : full[p] /\ e \notin batch[p] /\ e[1] = last[1]}

\* Faulty variant of SaveStart: the cursor moves past the whole page.
SaveStartOfPage(p) ==
  /\ Governance
  /\ pc[p] = "fetched" /\ Ready(p) # {}
  /\ \E last \in batch[p] :
       /\ IsLast(last, batch[p])
       /\ start' = [start EXCEPT ![p] = last[1] + 1]
       /\ watermark' = IF deployment.durable THEN last[1] + 1 ELSE watermark
  /\ batch' = [batch EXCEPT ![p] = Ready(p)]
  /\ Goto(p, "handle")
  /\ UNCHANGED <<deployment, ledgers, stored, paused, resumed, lost, full, fetchedAt, high,
                 acted, dropped, faults>>

\* Governance: the cursor moves past the confirmed events before any is handled.
SaveStart(p) ==
  /\ Governance
  /\ pc[p] = "fetched"
  /\ \E last \in Ready(p) :
       /\ IsLast(last, Ready(p))
       /\ start' = [start EXCEPT ![p] = last[1] + 1]
       /\ watermark' = IF deployment.durable THEN last[1] + 1 ELSE watermark
       /\ lost' = [lost EXCEPT ![p] = @ \cup CutOff(p, last)]
       /\ dropped' = dropped \cup CutOff(p, last)
  /\ batch' = [batch EXCEPT ![p] = Ready(p)]
  /\ Goto(p, "handle")
  /\ UNCHANGED <<deployment, ledgers, stored, paused, resumed, full, fetchedAt, high, acted,
                 faults>>

\* The write fails: the cursor in memory has moved, and the page is gone.
SaveStartFails(p) ==
  /\ Governance /\ deployment.durable
  /\ pc[p] = "fetched"
  /\ Fault
  /\ \E last \in Ready(p) :
       /\ IsLast(last, Ready(p))
       /\ start' = [start EXCEPT ![p] = last[1] + 1]
       /\ lost' = [lost EXCEPT ![p] = @ \cup CutOff(p, last) \cup Ready(p)]
       /\ dropped' = dropped \cup CutOff(p, last) \cup Ready(p)
  /\ Goto(p, "idle") /\ Forget(p)
  /\ UNCHANGED <<deployment, ledgers, tables, paused, resumed, acted>>

Flag(e, now) ==
  IF e[3] = "c_paused" THEN TRUE ELSE IF e[3] = "c_unpaused" THEN FALSE ELSE now

\* _dispatch: the flag is set, then the handler runs.
Dispatch(p) ==
  /\ Governance
  /\ pc[p] = "handle"
  /\ \E e \in batch[p] :
       /\ IsFirst(e, batch[p]) /\ ~Malformed(e)
       /\ paused' = [paused EXCEPT ![p] = Flag(e, @)]
       /\ acted' = acted \cup {e}
       /\ batch' = [batch EXCEPT ![p] = @ \ {e}]
  /\ UNCHANGED <<deployment, ledgers, tables, pc, start, resumed, lost, full, fetchedAt, high,
                 dropped, faults>>

\* _dispatch raises on a malformed event, before any flag is set: neither it nor the
\* rest of the batch is dispatched.
DispatchRaises(p) ==
  /\ Governance
  /\ pc[p] = "handle"
  /\ \E e \in batch[p] : IsFirst(e, batch[p]) /\ Malformed(e)
  /\ lost' = [lost EXCEPT ![p] = @ \cup batch[p]]
  /\ dropped' = dropped \cup batch[p]
  /\ Goto(p, "idle") /\ Forget(p)
  /\ UNCHANGED <<deployment, ledgers, tables, start, paused, resumed, acted, faults>>

Dispatched(p) ==
  /\ Governance
  /\ pc[p] = "handle" /\ batch[p] = {}
  /\ Goto(p, "idle") /\ Forget(p)
  /\ UNCHANGED <<deployment, ledgers, tables, memory, acted, dropped, faults>>

\* Faulty variant of HandlerRaises: the flag is set only after the handler.
HandlerRaisesBeforeFlag(p) ==
  /\ Governance
  /\ pc[p] = "handle"
  /\ Fault
  /\ \E e \in batch[p] :
       /\ IsFirst(e, batch[p]) /\ ~Malformed(e)
       /\ acted' = acted \cup {e}
       /\ lost' = [lost EXCEPT ![p] = @ \cup (batch[p] \ {e})]
       /\ dropped' = dropped \cup (batch[p] \ {e})
  /\ Goto(p, "idle") /\ Forget(p)
  /\ UNCHANGED <<deployment, ledgers, tables, start, paused, resumed>>

\* The handler raises: the rest of the batch is not dispatched.
HandlerRaises(p) ==
  /\ Governance
  /\ pc[p] = "handle"
  /\ Fault
  /\ \E e \in batch[p] :
       /\ IsFirst(e, batch[p]) /\ ~Malformed(e)
       /\ paused' = [paused EXCEPT ![p] = Flag(e, @)]
       /\ acted' = acted \cup {e}
       /\ lost' = [lost EXCEPT ![p] = @ \cup (batch[p] \ {e})]
       /\ dropped' = dropped \cup (batch[p] \ {e})
  /\ Goto(p, "idle") /\ Forget(p)
  /\ UNCHANGED <<deployment, ledgers, tables, start, resumed>>

------------------------------------------------------------------------------
(* process_batch *)

TakeBatch(p) ==
  /\ ~Governance
  /\ pc[p] = "fetched" /\ Ready(p) # {}
  /\ batch' = [batch EXCEPT ![p] = {e \in Ready(p) : Recognised(e)}]
  /\ Goto(p, "handle")
  /\ UNCHANGED <<deployment, ledgers, tables, memory, full, fetchedAt, high, acted, dropped,
                 faults>>

\* Faulty variant of Persist: a row that is there needs no stale check.
PersistOnceThenAlert(p) ==
  /\ ~Governance
  /\ pc[p] = "handle"
  /\ \E e \in batch[p] :
       /\ IsFirst(e, batch[p]) /\ ~Malformed(e)
       /\ stored' = stored \cup {e}
       /\ high' = [high EXCEPT ![p] = e[1]]
       /\ IF e \in stored
          THEN batch' = [batch EXCEPT ![p] = @ \ {e}] /\ UNCHANGED pc
          ELSE Goto(p, "alert") /\ UNCHANGED batch
  /\ UNCHANGED <<deployment, ledgers, watermark, memory, full, fetchedAt, acted, dropped, faults>>

\* persist_event; whether the row was new is not asked.
Persist(p) ==
  /\ ~Governance
  /\ pc[p] = "handle"
  /\ \E e \in batch[p] :
       /\ IsFirst(e, batch[p]) /\ ~Malformed(e)
       /\ stored' = stored \cup {e}
       /\ high' = [high EXCEPT ![p] = e[1]]
  /\ Goto(p, "alert")
  /\ UNCHANGED <<deployment, ledgers, watermark, memory, batch, full, fetchedAt, acted, dropped,
                 faults>>

\* check_stale_score_alert
Alert(p) ==
  /\ pc[p] = "alert"
  /\ \E e \in batch[p] :
       /\ IsFirst(e, batch[p])
       /\ acted' = acted \cup {e}
       /\ batch' = [batch EXCEPT ![p] = @ \ {e}]
  /\ Goto(p, "handle")
  /\ UNCHANGED <<deployment, ledgers, tables, memory, full, fetchedAt, high, dropped, faults>>

\* current_score_fn or the dispatcher raises, or the database does.
BatchFails(p) ==
  /\ ~Governance
  /\ pc[p] \in {"handle", "alert", "advance"}
  /\ Fault
  /\ Goto(p, "idle") /\ Forget(p)
  /\ UNCHANGED <<deployment, ledgers, tables, memory, acted, dropped>>

\* parse_contract_event raises on a malformed event: the batch ends before the
\* watermark is set, in this poll and in every later one.
ParseRaises(p) ==
  /\ ~Governance
  /\ pc[p] = "handle"
  /\ \E e \in batch[p] : IsFirst(e, batch[p]) /\ Malformed(e)
  /\ Goto(p, "idle") /\ Forget(p)
  /\ UNCHANGED <<deployment, ledgers, tables, memory, acted, dropped, faults>>

\* Faulty variant of Handled: the watermark stays where it was.
HandledWithoutAdvance(p) ==
  /\ ~Governance
  /\ pc[p] = "handle" /\ batch[p] = {}
  /\ Goto(p, "idle") /\ Forget(p)
  /\ UNCHANGED <<deployment, ledgers, tables, memory, acted, dropped, faults>>

\* The batch is done; one with no recognised event leaves the watermark.
Handled(p) ==
  /\ ~Governance
  /\ pc[p] = "handle" /\ batch[p] = {}
  /\ IF high[p] = 0
     THEN Goto(p, "idle") /\ Forget(p)
     ELSE Goto(p, "advance") /\ UNCHANGED poll
  /\ UNCHANGED <<deployment, ledgers, tables, memory, acted, dropped, faults>>

\* set_watermark, to whatever another process has set it meanwhile.
Advance(p) ==
  /\ pc[p] = "advance"
  /\ watermark' = high[p]
  /\ Goto(p, "idle") /\ Forget(p)
  /\ UNCHANGED <<deployment, ledgers, stored, memory, acted, dropped, faults>>

------------------------------------------------------------------------------
\* The process dies; _paused and an in-memory cursor die with it.
Crash(p) ==
  /\ pc[p] # "down"
  /\ Fault
  /\ Goto(p, "down") /\ Forget(p)
  /\ start' = [start EXCEPT ![p] = 0] /\ resumed' = [resumed EXCEPT ![p] = 0]
  /\ paused' = [paused EXCEPT ![p] = FALSE]
  /\ lost' = [lost EXCEPT ![p] = {}]
  /\ dropped' = IF Governance /\ pc[p] = "handle" THEN dropped \cup batch[p] ELSE dropped
  /\ UNCHANGED <<deployment, ledgers, tables, acted>>

Step(p) ==
  \/ Start(p) \/ Fetch(p) \/ NothingReady(p) \/ SaveStart(p)
  \/ Dispatch(p) \/ DispatchRaises(p) \/ Dispatched(p)
  \/ TakeBatch(p) \/ Persist(p) \/ Alert(p) \/ ParseRaises(p) \/ Handled(p) \/ Advance(p)

Next ==
  \/ Close \/ Reorg
  \/ \E p \in Workers :
       \/ Start(p) \/ Fetch(p) \/ NothingReady(p) \/ TipUnknown(p)
       \/ SaveStart(p) \/ SaveStartFails(p)
       \/ Dispatch(p) \/ Dispatched(p) \/ HandlerRaises(p) \/ DispatchRaises(p)
       \/ TakeBatch(p) \/ Persist(p) \/ Alert(p) \/ ParseRaises(p) \/ Handled(p) \/ Advance(p)
       \/ BatchFails(p) \/ Crash(p)

Spec == Init /\ [][Next]_vars

\* A listener polls for ever and a dead process is started again.  Ledgers and
\* faults come as they like.
FairSpec == Spec /\ \A p \in Workers : WF_vars(Step(p))

------------------------------------------------------------------------------
(* Properties *)

\* What was handled, stored or alerted on is still on the chain: finality is
\* judged with a tip read later than the page, and ledgers may be replaced
\* in between and afterwards.
ActsOnFinalEventsOnly == acted \cup stored \subseteq chain

\* The shared watermark hides nothing: an event of an earlier ledger has had
\* its handler run or, for the oracle, is stored and was checked for staleness,
\* whatever crashed, failed or raced; the governance listener may still have it
\* in hand, or is known to have dropped it.
WatermarkHidesNothing ==
  \A e \in chain :
    e[1] < watermark /\ Recognised(e) =>
      IF Governance
      THEN e \in acted \cup dropped \/ \E p \in Running : pc[p] = "handle" /\ e \in batch[p]
      ELSE e \in acted /\ e \in stored

\* What this process has read and not lost, of the events that pause.
Seen(p) ==
  {e \in chain : /\ resumed[p] <= e[1] /\ e[1] < start[p]
                 /\ e \notin lost[p] \cup batch[p]
                 /\ e[3] \in {"c_paused", "c_unpaused"}}

\* Between polls is_paused tells what the chain says up to the cursor, counted
\* from where the process resumed, except for the events it lost.
PausedFollowsChain ==
  \A p \in Running :
    Governance /\ pc[p] = "idle" =>
      (paused[p] <=> \E e \in Seen(p) :
                       e[3] = "c_paused" /\ \A d \in Seen(p) : d = e \/ Before(d, e))

\* The oracle listener reads the same page for ever: nothing in it that it
\* knows lies beyond its watermark.
Wedged ==
  /\ ~Governance
  /\ Page(watermark) # From(watermark)
  /\ \A e \in Page(watermark) : Recognised(e) => e[1] <= watermark

\* The oracle listener fails at a malformed event in every poll, and does not get
\* past it.
Stuck(e) == ~Governance /\ \E m \in chain : Malformed(m) /\ (m = e \/ Before(m, e))

\* Every confirmed event is eventually acted on or dropped, through crashes,
\* unknown tips and reorgs, unless a full page holds the oracle listener or a
\* malformed event comes first.
EventuallyHandled ==
  Running # {} =>
    <>[](\/ Wedged
         \/ \A e \in chain :
              Confirmed(e, tip) /\ Recognised(e) => e \in acted \cup dropped \/ Stuck(e))
==============================================================================
