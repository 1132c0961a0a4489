---------------------------- MODULE HorizonStream ----------------------------
(***************************************************************************)
(* Ingestion of one asset pair: the consumer loop of StreamingPipeline     *)
(* (streaming/pipeline.py) over stream_trades and HorizonEndpointPool      *)
(* (ingestion/horizon_streamer.py), with the cursor store it commits to    *)
(* (streaming/cursor_store.py) and, when one is passed, the                *)
(* WatermarkTracker (ingestion/watermark_tracker.py).                      *)
(*                                                                         *)
(* The trades of the pair are numbered in ledger order; the number is the  *)
(* paging token.  Each Horizon node keeps the trades above pruned[e].  A   *)
(* commit is two durable writes, either of which may fail, and the process *)
(* may die at any step; its memory is lost, the files are not.             *)
(***************************************************************************)
EXTENDS Integers

CONSTANTS
  Endpoints,       \* the Horizon URLs of the pool
  Primary,         \* the first of them
  MaxTrade,        \* bound on the trades published
  BadTrades,       \* which sets of trades may fail validation
  Stores,          \* the cursor stores that may be passed to stream_trades
  MaxAttempts,     \* max_reconnect_attempts
  FlushEvery,      \* flush_every_n of the tracker, 0: only flush() writes
  MaxFaults        \* bound on crashes, failed calls and operator commands

ASSUME StreamAssumption ==
  /\ Primary \in Endpoints
  /\ MaxTrade \in Nat
  /\ BadTrades \subseteq SUBSET (1 .. MaxTrade)
  /\ Stores \subseteq {"file", "sqlite", "memory"}
  /\ MaxAttempts \in Nat \ {0}
  /\ FlushEvery \in Nat
  /\ MaxFaults \in Nat

Trades == 1 .. MaxTrade
Now == -1                    \* the cursor "now"
Absent == 0                  \* no cursor or watermark recorded
Cursors == Trades \cup {Now}

VARIABLES
  store,        \* the kind of cursor store of this deployment
  tracked,      \* TRUE: a WatermarkTracker is passed too
  bad,          \* the trades whose records fail validation
  published,    \* trades that happened so far
  pruned,       \* pruned[e]: node e has dropped the trades up to this one
  alive,        \* the nodes that answer
  mem, disk,    \* the cursor: FileCursorStore._data / InMemoryCursorStore, and on disk
  wmem, wdisk,  \* the watermark: in the tracker, and in its file
  updates,      \* _update_counter, modulo flush_every_n
  stuck,        \* the tracker's lock is held by a call of summary()
  healthy,      \* the pool's verdicts
  probe,        \* the health check under way: <<>> or <<endpoint, answer>>
  pc,           \* where the consumer thread is
  cursor, mode, url, pos, trade, attempts,   \* locals of the generator
  probed,       \* history: nodes known to reach back to the resume point
  last,         \* history: the last trade this generator yielded
  fate,         \* history: fate[t]: "new", "processed" or passed over
  faults

setup == <<store, tracked, bad>>
ledger == <<published, pruned, alive>>
saved == <<mem, disk, wmem, wdisk, updates, stuck>>
pool == <<healthy, probe>>
generator == <<cursor, mode, url, pos, trade, attempts, probed, last>>
vars == <<setup, ledger, saved, pool, pc, generator, fate, faults>>

Places == {"down", "idle", "backfill", "connect", "live", "yielded", "save", "advance"}

TypeOK ==
  /\ store \in Stores /\ tracked \in BOOLEAN /\ bad \in BadTrades
  /\ published \in 0 .. MaxTrade
  /\ pruned \in [Endpoints -> 0 .. MaxTrade]
  /\ alive \in SUBSET Endpoints
  /\ mem \in 0 .. MaxTrade /\ disk \in 0 .. MaxTrade
  /\ wmem \in 0 .. MaxTrade /\ wdisk \in 0 .. MaxTrade
  /\ updates \in Nat /\ stuck \in BOOLEAN
  /\ healthy \in SUBSET Endpoints
  /\ probe \in {<<>>} \cup (Endpoints \X BOOLEAN)
  /\ pc \in Places
  /\ cursor \in Cursors
  /\ mode \in {"backfill", "live"}
  /\ url \in Endpoints
  /\ pos \in 0 .. MaxTrade
  /\ trade \in 0 .. MaxTrade
  /\ attempts \in 0 .. MaxAttempts - 1
  /\ probed \in SUBSET Endpoints
  /\ last \in 0 .. MaxTrade
  /\ fate \in [Trades -> {"new", "processed", "passed"}]
  /\ faults \in 0 .. MaxFaults

Init ==
  /\ store \in Stores /\ tracked \in BOOLEAN /\ bad \in BadTrades
  /\ published = 0
  /\ pruned = [e \in Endpoints |-> 0]
  /\ alive = Endpoints
  /\ mem = Absent /\ disk = Absent /\ wmem = Absent /\ wdisk = Absent
  /\ updates = 0 /\ stuck = FALSE
  /\ healthy = Endpoints
  /\ probe = <<>>
  /\ pc = "down"
  /\ cursor = Now /\ mode = "live" /\ url = Primary
  /\ pos = 0 /\ trade = 0 /\ attempts = 0 /\ probed = {} /\ last = 0
  /\ fate = [t \in Trades |-> "new"]
  /\ faults = 0

Fault == faults < MaxFaults /\ faults' = faults + 1

Larger(a, b) == IF a > b THEN a ELSE b

Close(t) == (t + 1) \div 2     \* ledger_close_time: two trades share a ledger

Best == IF healthy = {} THEN {Primary} ELSE healthy       \* best_url

Stored == IF store = "sqlite" THEN disk ELSE mem          \* get_cursor

\* Where stream_trades starts: the watermark, else the saved cursor, else "now".
ResumePoint ==
  IF tracked /\ wmem # Absent THEN wmem
  ELSE IF Stored # Absent THEN Stored ELSE Now

\* The generator is gone, its locals with it.
Ended ==
  /\ cursor' = Now /\ mode' = "live" /\ url' = Primary
  /\ pos' = 0 /\ trade' = 0 /\ attempts' = 0 /\ probed' = {} /\ last' = 0

\* An exception leaves stream_trades; the consumer loop starts it again.
Raised == pc' = "idle" /\ Ended

\* Faulty variant of Disconnected: one attempt too many.
DisconnectedLate(u) ==
  /\ healthy' = healthy \ {u}
  /\ IF attempts >= MaxAttempts
     THEN Raised
     ELSE /\ pc' = "connect" /\ attempts' = attempts + 1 /\ trade' = 0
          /\ UNCHANGED <<cursor, mode, url, pos, probed, last>>

\* except (ConnectionError, TimeoutError, OSError) around the live stream.
Disconnected(u) ==
  /\ healthy' = healthy \ {u}
  /\ IF attempts + 1 >= MaxAttempts
     THEN Raised
     ELSE /\ pc' = "connect" /\ attempts' = attempts + 1 /\ trade' = 0
          /\ UNCHANGED <<cursor, mode, url, pos, probed, last>>

------------------------------------------------------------------------------
(* The ledger and the Horizon nodes (external) *)

Publish ==
  /\ published < MaxTrade
  /\ published' = published + 1
  /\ UNCHANGED <<setup, pruned, alive, saved, pool, pc, generator, fate, faults>>

\* Node e drops its history.
Prune(e) ==
  /\ pruned[e] < published
  /\ Fault
  /\ pruned' = [pruned EXCEPT ![e] = published]
  /\ probed' = probed \ {e}
  /\ UNCHANGED <<setup, published, alive, saved, pool, pc, cursor, mode, url, pos, trade,
                 attempts, last, fate>>

\* Node e stops answering for good; another one stays.
Die(e) ==
  /\ alive \ {e} # {}
  /\ Fault
  /\ alive' = alive \ {e}
  /\ UNCHANGED <<setup, published, pruned, saved, pool, pc, generator, fate>>

------------------------------------------------------------------------------
(* stream_trades *)

\* A process starts: the stores load their files.
Start ==
  /\ pc = "down"
  /\ pc' = "idle"
  /\ mem' = IF store = "file" THEN disk ELSE Absent
  /\ wmem' = wdisk
  /\ updates' = 0
  /\ healthy' = Endpoints
  /\ probe' = <<>>
  /\ UNCHANGED <<setup, ledger, disk, wdisk, stuck, generator, fate, faults>>

\* Restore the position; no tracked watermark to compare with the node's history.
Begin ==
  /\ pc = "idle" /\ ~(tracked /\ stuck)
  /\ ~(tracked /\ wmem # Absent)
  /\ cursor' = ResumePoint
  /\ pc' = "connect"
  /\ UNCHANGED <<setup, ledger, saved, pool, mode, url, pos, trade, attempts, probed, last,
                 fate, faults>>

\* Faulty variant of BeginTracked: the pruned range is not backfilled.
BeginWithoutBackfill ==
  /\ pc = "idle" /\ ~(tracked /\ stuck)
  /\ tracked /\ wmem # Absent
  /\ cursor' = ResumePoint
  /\ \E u \in Best :
       /\ u \in alive
       /\ pc' = "connect"
       /\ probed' = IF pruned[u] < published THEN {u} ELSE {}
       /\ UNCHANGED <<mode, pos>>
  /\ UNCHANGED <<setup, ledger, saved, pool, url, trade, attempts, last, fate, faults>>

\* Ask a node for its oldest trade: when it is newer than the watermark, the
\* range between is backfilled.  A node with no trade left tells nothing;
\* the exception of a dead one leaves the consumer loop where it is.
BeginTracked ==
  /\ pc = "idle" /\ ~(tracked /\ stuck)
  /\ tracked /\ wmem # Absent
  /\ cursor' = ResumePoint
  /\ \E u \in Best :
       /\ u \in alive
       /\ IF pruned[u] < published /\ pruned[u] + 1 > wmem
          THEN pc' = "backfill" /\ mode' = "backfill" /\ pos' = wmem
          ELSE pc' = "connect" /\ UNCHANGED <<mode, pos>>
       /\ probed' = IF pruned[u] < published THEN {u} ELSE {}
  /\ UNCHANGED <<setup, ledger, saved, pool, url, trade, attempts, last, fate, faults>>

\* load_trades on the full-history node yields the next trade; it drops the
\* records that fail validation.
BackfillNext ==
  /\ pc = "backfill"
  /\ pos < published
  /\ pos' = pos + 1
  /\ IF pos + 1 \in bad
     THEN UNCHANGED <<pc, trade, last>> /\ fate' = [fate EXCEPT ![pos + 1] = "passed"]
     ELSE pc' = "yielded" /\ trade' = pos + 1 /\ last' = pos + 1 /\ UNCHANGED fate
  /\ UNCHANGED <<setup, ledger, saved, pool, cursor, mode, url, attempts, probed, faults>>

BackfillDone ==
  /\ pc = "backfill"
  /\ pos = published
  /\ pc' = "connect" /\ mode' = "live"
  /\ UNCHANGED <<setup, ledger, saved, pool, cursor, url, pos, trade, attempts, probed, last,
                 fate, faults>>

BackfillFails ==
  /\ pc = "backfill"
  /\ Fault
  /\ Raised
  /\ UNCHANGED <<setup, ledger, saved, pool, fate>>

\* The trades a stream opened on u at the cursor does not deliver.
Passed(u, from) ==
  {t \in Trades : t <= from /\ t > (IF cursor = Now THEN 0 ELSE cursor) /\ fate[t] = "new"}

\* Open the stream on the best node, at the cursor or at the node's oldest trade.
Connect ==
  /\ pc = "connect"
  /\ \E u \in Best :
       IF u \in alive
       THEN /\ pc' = "live" /\ url' = u
            /\ pos' = IF cursor = Now THEN published ELSE Larger(cursor, pruned[u])
            /\ fate' = [t \in Trades |-> IF t \in Passed(u, pos') THEN "passed" ELSE fate[t]]
            /\ UNCHANGED <<healthy, cursor, mode, trade, attempts, probed, last>>
       ELSE Disconnected(u) /\ UNCHANGED fate
  /\ UNCHANGED <<setup, ledger, saved, probe, faults>>

\* Faulty variant of Yield: the cursor moves before the consumer has the trade.
YieldAfterCursor ==
  /\ pc = "live"
  /\ url \in alive
  /\ pos < published
  /\ pos + 1 \notin bad
  /\ pos' = pos + 1 /\ trade' = pos + 1 /\ last' = pos + 1 /\ cursor' = pos + 1
  /\ pc' = "yielded"
  /\ UNCHANGED <<setup, ledger, saved, pool, mode, url, attempts, probed, fate, faults>>

\* The next record arrives and is valid: the trade is yielded.
Yield ==
  /\ pc = "live"
  /\ url \in alive
  /\ pos < published
  /\ pos + 1 \notin bad
  /\ pos' = pos + 1 /\ trade' = pos + 1 /\ last' = pos + 1
  /\ pc' = "yielded"
  /\ UNCHANGED <<setup, ledger, saved, pool, cursor, mode, url, attempts, probed, fate, faults>>

\* It is not: RecordValidationError leaves the generator.
RejectRecord ==
  /\ pc = "live"
  /\ url \in alive
  /\ pos + 1 \in bad /\ pos < published
  /\ Raised
  /\ UNCHANGED <<setup, ledger, saved, pool, fate, faults>>

Disconnect ==
  /\ pc = "live"
  /\ IF url \in alive THEN Fault ELSE UNCHANGED faults
  /\ Disconnected(url)
  /\ UNCHANGED <<setup, ledger, saved, probe, fate>>

\* Faulty variant of Process: the generator forgets to move its cursor.
ProcessKeepsCursor ==
  /\ pc = "yielded"
  /\ fate' = [fate EXCEPT ![trade] = "processed"]
  /\ pc' = "save"
  /\ UNCHANGED <<setup, ledger, saved, pool, cursor, mode, url, pos, trade, attempts, probed,
                 last, faults>>

\* The body of the consumer's loop ran to its end; the generator is resumed.
Process ==
  /\ pc = "yielded"
  /\ fate' = [fate EXCEPT ![trade] = "processed"]
  /\ cursor' = trade
  /\ pc' = "save"
  /\ UNCHANGED <<setup, ledger, saved, pool, mode, url, pos, trade, attempts, probed, last,
                 faults>>

\* The body raised; the suspended generator is dropped.
ProcessRaises ==
  /\ pc = "yielded"
  /\ Fault
  /\ Raised
  /\ UNCHANGED <<setup, ledger, saved, pool, fate>>

\* The commit is done: the generator asks for the next trade.
Resumed ==
  /\ pc' = IF mode = "live" THEN "live" ELSE "backfill"
  /\ attempts' = 0 /\ trade' = 0
  /\ UNCHANGED <<cursor, mode, url, pos, probed, last>>

\* save_cursor returned.
SaveReturns ==
  IF tracked THEN pc' = "advance" /\ UNCHANGED generator ELSE Resumed

\* _commit: save_cursor.
SaveCursor ==
  /\ pc = "save"
  /\ mem' = IF store = "sqlite" THEN mem ELSE trade
  /\ disk' = IF store = "memory" THEN disk ELSE trade
  /\ SaveReturns
  /\ UNCHANGED <<setup, ledger, wmem, wdisk, updates, stuck, pool, fate, faults>>

\* The file store logs a failed flush and goes on; SQLite raises out of the loop.
SaveCursorFails ==
  /\ pc = "save" /\ store # "memory"
  /\ Fault
  /\ IF store = "file" THEN mem' = trade /\ SaveReturns ELSE Raised /\ UNCHANGED mem
  /\ UNCHANGED <<setup, ledger, disk, wmem, wdisk, updates, stuck, pool, fate>>

\* The file store cannot create its temporary file: OSError, which the live loop
\* takes for a lost connection.
SaveCursorRaises ==
  /\ pc = "save" /\ store = "file"
  /\ Fault
  /\ mem' = trade
  /\ IF mode = "live" THEN Disconnected(url) ELSE Raised /\ UNCHANGED healthy
  /\ UNCHANGED <<setup, ledger, disk, wmem, wdisk, updates, stuck, probe, fate>>

OutOfOrder == wmem # Absent /\ Close(trade) < Close(wmem)
FlushDue == FlushEvery > 0 /\ (updates + 1) % FlushEvery = 0
Counted == updates' = IF FlushEvery > 0 THEN (updates + 1) % FlushEvery ELSE 0

\* _commit: advance, which may write the file.
Advance ==
  /\ pc = "advance" /\ ~stuck
  /\ IF OutOfOrder
     THEN UNCHANGED <<wmem, wdisk, updates>>
     ELSE wmem' = trade /\ Counted /\ wdisk' = IF FlushDue THEN trade ELSE wdisk
  /\ Resumed
  /\ UNCHANGED <<setup, ledger, mem, disk, stuck, pool, fate, faults>>

\* The write raises OSError, which the live loop takes for a lost connection.
AdvanceFails ==
  /\ pc = "advance" /\ ~stuck
  /\ ~OutOfOrder /\ FlushDue
  /\ Fault
  /\ wmem' = trade /\ Counted
  /\ IF mode = "live" THEN Disconnected(url) ELSE Raised /\ UNCHANGED healthy
  /\ UNCHANGED <<setup, ledger, mem, disk, wdisk, stuck, probe, fate>>

------------------------------------------------------------------------------
(* The health-check loop, the process and its operators *)

ProbeStart(e) ==
  /\ pc # "down"
  /\ probe = <<>>
  /\ probe' = <<e, e \in alive>>
  /\ UNCHANGED <<setup, ledger, saved, healthy, pc, generator, fate, faults>>

\* Faulty variant of ProbeEnd: a node marked unhealthy is never taken back.
ProbeEndOneWay ==
  /\ probe # <<>>
  /\ healthy' = IF probe[2] THEN healthy ELSE healthy \ {probe[1]}
  /\ probe' = <<>>
  /\ UNCHANGED <<setup, ledger, saved, pc, generator, fate, faults>>

\* The answer is applied, whatever happened to the node's verdict meanwhile.
ProbeEnd ==
  /\ probe # <<>>
  /\ healthy' = IF probe[2] THEN healthy \cup {probe[1]} ELSE healthy \ {probe[1]}
  /\ probe' = <<>>
  /\ UNCHANGED <<setup, ledger, saved, pc, generator, fate, faults>>

\* The process dies, or is stopped: a trade it was given is not committed.
Crash ==
  /\ pc # "down"
  /\ Fault
  /\ pc' = "down"
  /\ mem' = Absent /\ wmem' = Absent /\ updates' = 0 /\ stuck' = FALSE
  /\ healthy' = Endpoints /\ probe' = <<>>
  /\ Ended
  /\ UNCHANGED <<setup, ledger, disk, wdisk, fate>>

\* WatermarkTracker.flush.
Flush ==
  /\ pc # "down" /\ tracked /\ ~stuck
  /\ wdisk # wmem
  /\ wdisk' = wmem
  /\ UNCHANGED <<setup, ledger, mem, disk, wmem, updates, stuck, pool, pc, generator, fate, faults>>

\* WatermarkTracker.reset.
ResetWatermark ==
  /\ pc # "down" /\ wmem # Absent /\ ~stuck
  /\ Fault
  /\ wmem' = Absent /\ wdisk' = Absent
  /\ UNCHANGED <<setup, ledger, mem, disk, updates, stuck, pool, pc, generator, fate>>

\* WatermarkTracker.summary, called by a monitor: under the tracker's lock, which
\* is not reentrant, it asks lag_seconds for each watermark, which takes it again.
Summarise ==
  /\ pc # "down" /\ wmem # Absent /\ ~stuck
  /\ Fault
  /\ stuck' = TRUE
  /\ UNCHANGED <<setup, ledger, mem, disk, wmem, wdisk, updates, pool, pc, generator, fate>>

\* delete_cursor.
DeleteCursor ==
  /\ pc # "down" /\ Stored # Absent
  /\ Fault
  /\ mem' = Absent /\ disk' = Absent
  /\ UNCHANGED <<setup, ledger, wmem, wdisk, updates, stuck, pool, pc, generator, fate>>

------------------------------------------------------------------------------
Thread ==
  \/ Begin \/ BeginTracked \/ BackfillNext \/ BackfillDone \/ Connect \/ Yield \/ RejectRecord
  \/ (url \notin alive /\ Disconnect) \/ Process \/ SaveCursor \/ Advance

Next ==
  \/ Publish
  \/ \E e \in Endpoints : Prune(e) \/ Die(e) \/ ProbeStart(e)
  \/ Start \/ Begin \/ BeginTracked
  \/ BackfillNext \/ BackfillDone \/ BackfillFails
  \/ Connect \/ Yield \/ RejectRecord \/ Disconnect
  \/ Process \/ ProcessRaises
  \/ SaveCursor \/ SaveCursorFails \/ SaveCursorRaises \/ Advance \/ AdvanceFails
  \/ ProbeEnd \/ Crash \/ Flush \/ ResetWatermark \/ Summarise \/ DeleteCursor

Spec == Init /\ [][Next]_vars

\* The consumer loops until it is stopped, a stopped process is started again,
\* and the health loop visits every node in turn.  The ledger and the faults
\* are not fair.
FairSpec ==
  /\ Spec
  /\ WF_vars(Start) /\ WF_vars(Thread) /\ WF_vars(ProbeEnd)
  /\ \A e \in Endpoints : SF_vars(ProbeStart(e))

------------------------------------------------------------------------------
(* Properties *)

Accounted(c) == \A t \in Trades : t <= c => fate[t] # "new"

\* Resuming loses nothing: whichever of the saved positions a later start uses,
\* every trade up to it was processed, or was already passed over when a
\* stream was opened, through crashes, failed writes, failover and backfill.
PositionsCoverProcessed ==
  \A c \in {mem, disk, wmem, wdisk, cursor} : Accounted(c)

\* A stream passes a trade over only where nothing was saved to resume from,
\* or where the node had pruned it and the start could not see that.
PassedOverOnlyIfUnsaved ==
  [][pc = "connect" =>
       \A t \in Trades :
         fate[t] = "new" /\ fate'[t] = "passed" =>
           IF t <= pruned[url'] /\ cursor # Now
           THEN url' \notin probed
           ELSE ResumePoint = Now]_vars

\* Within one call of stream_trades, across reconnects and from backfill to
\* live, trades come in ledger order and none comes twice.
DeliveredInOrder == [][pc # "yielded" /\ pc' = "yielded" => trade' > last]_vars

\* Every published trade is eventually processed or passed over, although
\* nodes fail over, one dies, writes fail and the process restarts; only a
\* monitor stuck in summary() can hold the consumer up for ever.
CatchesUp ==
  (bad = {}) => <>[](stuck \/ \A t \in Trades : t <= published => fate[t] # "new")
==============================================================================
