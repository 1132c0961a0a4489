------------------------- MODULE HorizonStreamProofs -------------------------
(***************************************************************************)
(* Theorems about HorizonStream for every set of nodes, every number of    *)
(* trades, reconnection attempts and faults, and every flush interval.     *)
(***************************************************************************)
EXTENDS HorizonStream, TLAPS

\* Where the generator's locals stand, by the place its thread has reached.
Shape ==
  /\ \A e \in Endpoints : pruned[e] <= published
  /\ pc \in {"idle", "down"} => mode = "live" /\ last = 0 /\ probed = {} /\ cursor = Now
  /\ pc \in {"connect", "live"} => mode = "live"
  /\ pc = "backfill" => mode = "backfill"
  /\ mode = "backfill" => cursor # Now
  /\ pc \in {"yielded", "save", "advance"} => trade \in Trades /\ pos = trade /\ last = trade
  /\ pc \in {"save", "advance"} => cursor = trade

------------------------------------------------------------------------------
\* The constants' assumption, with what follows for the ranges.
LEMMA Ranges ==
  /\ MaxTrade \in Nat /\ MaxAttempts \in Nat /\ MaxAttempts > 0
  /\ MaxFaults \in Nat /\ FlushEvery \in Nat
  /\ Primary \in Endpoints
  /\ Now \notin 0 .. MaxTrade /\ 0 \in 0 .. MaxTrade
  /\ Trades \subseteq 0 .. MaxTrade /\ Trades \subseteq Cursors
  BY StreamAssumption DEF Trades, Cursors, Now

\* The next process, generator or node to act keeps every variable in its range.
LEMMA TypeStep == TypeOK /\ Shape /\ [Next]_vars => TypeOK'
  <1> SUFFICES ASSUME TypeOK, Shape, [Next]_vars PROVE TypeOK'
    OBVIOUS
  <1> USE Ranges
  <1>1. CASE Publish
    BY <1>1 DEF TypeOK, Publish, setup, saved, pool, generator
  <1>2. CASE \E e \in Endpoints : Prune(e)
    BY <1>2 DEF TypeOK, Prune, Fault, setup, saved, pool
  <1>3. CASE \E e \in Endpoints : Die(e)
    BY <1>3 DEF TypeOK, Die, Fault, setup, saved, pool, generator
  <1>4. CASE \E e \in Endpoints : ProbeStart(e)
    <2>1. PICK e \in Endpoints : ProbeStart(e)
      BY <1>4
    <2>2. (e \in alive) \in BOOLEAN
      OBVIOUS
    <2>3. <<e, e \in alive>> \in Endpoints \X BOOLEAN
      BY <2>2
    <2>4. probe' \in Endpoints \X BOOLEAN
      BY <2>1, <2>3 DEF ProbeStart
    <2> QED BY <2>1, <2>4 DEF TypeOK, ProbeStart, setup, saved, ledger, generator
  <1>5. CASE Start
    BY <1>5 DEF TypeOK, Start, Absent, Places, setup, ledger, generator
  <1>6. CASE Begin
    BY <1>6 DEF TypeOK, Begin, ResumePoint, Stored, Absent, Places, Cursors, Trades, setup, ledger, saved, pool
  <1>7. CASE BeginTracked
    BY <1>7 DEF TypeOK, BeginTracked, ResumePoint, Stored, Absent, Places, Cursors, Trades, setup, ledger, saved, pool
  <1>8. CASE BackfillNext
    BY <1>8 DEF TypeOK, BackfillNext, Places, Trades, setup, ledger, saved, pool
  <1>9. CASE BackfillDone
    BY <1>9 DEF TypeOK, BackfillDone, Places, setup, ledger, saved, pool
  <1>10. CASE BackfillFails
    BY <1>10 DEF TypeOK, BackfillFails, Raised, Ended, Fault, Places, Cursors, setup, ledger, saved, pool
  <1>11. CASE Connect
    BY <1>11 DEF TypeOK, Connect, Disconnected, Raised, Ended, Best, Larger, Places, Cursors, Trades, Now, setup, ledger, saved
  <1>12. CASE Yield
    BY <1>12 DEF TypeOK, Yield, Places, setup, ledger, saved, pool
  <1>13. CASE RejectRecord
    BY <1>13 DEF TypeOK, RejectRecord, Raised, Ended, Places, Cursors, setup, ledger, saved, pool
  <1>14. CASE Disconnect
    BY <1>14 DEF TypeOK, Disconnect, Disconnected, Raised, Ended, Fault, Places, Cursors, setup, ledger, saved
  <1>15. CASE Process
    BY <1>15 DEF TypeOK, Shape, Trades, Process, Places, Cursors, setup, ledger, saved, pool
  <1>16. CASE ProcessRaises
    BY <1>16 DEF TypeOK, ProcessRaises, Raised, Ended, Fault, Places, Cursors, setup, ledger, saved, pool
  <1>17. CASE SaveCursor
    BY <1>17 DEF TypeOK, SaveCursor, SaveReturns, Resumed, Places, Cursors, setup, ledger, pool, generator
  <1>18. CASE SaveCursorFails
    BY <1>18 DEF TypeOK, SaveCursorFails, SaveReturns, Resumed, Raised, Ended, Fault, Places, Cursors, setup, ledger, pool, generator
  <1>19. CASE Advance
    BY <1>19 DEF TypeOK, Advance, Counted, Resumed, Places, setup, ledger, pool
  <1>20. CASE AdvanceFails
    BY <1>20 DEF TypeOK, AdvanceFails, Counted, Disconnected, Raised, Ended, Fault, Places, Cursors, setup, ledger
  <1>26. CASE SaveCursorRaises
    BY <1>26 DEF TypeOK, SaveCursorRaises, Disconnected, Raised, Ended, Fault, Places, Cursors, setup, ledger
  <1>21. CASE ProbeEnd
    BY <1>21 DEF TypeOK, ProbeEnd, setup, ledger, saved, generator
  <1>22. CASE Crash
    <2>1. /\ mem' = 0 /\ wmem' = 0 /\ updates' = 0 /\ stuck' = FALSE
          /\ healthy' = Endpoints /\ probe' = <<>> /\ pc' = "down"
          /\ UNCHANGED <<setup, ledger, disk, wdisk, fate>>
      BY <1>22 DEF Crash, Absent
    <2>2. cursor' \in Cursors /\ mode' \in {"backfill", "live"} /\ url' \in Endpoints
      BY <1>22 DEF Crash, Ended, Cursors
    <2>3. pos' = 0 /\ trade' = 0 /\ attempts' = 0 /\ probed' = {} /\ last' = 0
      BY <1>22 DEF Crash, Ended
    <2>4. faults' \in 0 .. MaxFaults
      BY <1>22 DEF Crash, Fault, TypeOK
    <2>5. /\ pos' \in 0 .. MaxTrade /\ trade' \in 0 .. MaxTrade /\ last' \in 0 .. MaxTrade
          /\ attempts' \in 0 .. MaxAttempts - 1 /\ probed' \in SUBSET Endpoints
      BY <2>3
    <2>6. /\ mem' \in 0 .. MaxTrade /\ wmem' \in 0 .. MaxTrade
          /\ updates' \in Nat /\ stuck' \in BOOLEAN /\ pc' \in Places
      BY <2>1 DEF Places
    <2>7. /\ healthy' \in SUBSET Endpoints
          /\ probe' \in {<<>>} \cup (Endpoints \X BOOLEAN)
      BY <2>1
    <2> QED BY <2>1, <2>2, <2>4, <2>5, <2>6, <2>7 DEF TypeOK, setup, ledger
  <1>23. CASE Flush
    BY <1>23 DEF TypeOK, Flush, setup, ledger, pool, generator
  <1>24. CASE ResetWatermark \/ Summarise \/ DeleteCursor
    <2>1. CASE ResetWatermark
      BY <2>1 DEF TypeOK, ResetWatermark, Absent, Fault, setup, ledger, pool, generator
    <2>2. CASE Summarise
      BY <2>2 DEF TypeOK, Summarise, Fault, setup, ledger, pool, generator
    <2>3. CASE DeleteCursor
      BY <2>3 DEF TypeOK, DeleteCursor, Absent, Fault, setup, ledger, pool, generator
    <2> QED BY <1>24, <2>1, <2>2, <2>3
  <1>25. CASE UNCHANGED vars
    BY <1>25 DEF TypeOK, vars, setup, ledger, saved, pool, generator
  <1> QED
    BY <1>1, <1>2, <1>3, <1>4, <1>5, <1>6, <1>7, <1>8, <1>9, <1>10, <1>11, <1>12, <1>13, <1>14,
       <1>15, <1>16, <1>17, <1>18, <1>19, <1>20, <1>21, <1>22, <1>23, <1>24, <1>25, <1>26 DEF Next
------------------------------------------------------------------------------
\* What the nodes, the health loop and the operators do to the consumer: nothing,
\* but that a node which pruned its history is no longer known to reach back.
Elsewhere ==
  \/ Publish \/ ProbeEnd \/ Flush \/ ResetWatermark \/ Summarise \/ DeleteCursor
  \/ \E e \in Endpoints : Prune(e) \/ Die(e) \/ ProbeStart(e)
  \/ UNCHANGED vars

LEMMA ElsewhereFrame ==
  ASSUME TypeOK, Elsewhere
  PROVE  /\ UNCHANGED <<setup, pc, cursor, mode, url, pos, trade, last, fate>>
         /\ published <= published'
         /\ \A e \in Endpoints : pruned'[e] = pruned[e] \/ (pruned'[e] = published /\ e \notin probed')
         /\ probed' \subseteq probed
  <1>1. CASE Publish
    BY <1>1 DEF Publish, generator, TypeOK
  <1>2. CASE \E e \in Endpoints : Prune(e)
    BY <1>2 DEF Prune, TypeOK
  <1>3. CASE \E e \in Endpoints : Die(e)
    BY <1>3 DEF Die, generator, TypeOK
  <1>4. CASE \E e \in Endpoints : ProbeStart(e)
    BY <1>4 DEF ProbeStart, ledger, generator, TypeOK
  <1>5. CASE ProbeEnd \/ Flush
    BY <1>5 DEF ProbeEnd, Flush, ledger, generator, TypeOK
  <1>6. CASE ResetWatermark \/ Summarise \/ DeleteCursor
    BY <1>6 DEF ResetWatermark, Summarise, DeleteCursor, ledger, generator, TypeOK
  <1>7. CASE UNCHANGED vars
    BY <1>7 DEF vars, ledger, generator, TypeOK
  <1> QED BY <1>1, <1>2, <1>3, <1>4, <1>5, <1>6, <1>7 DEF Elsewhere

\* The steps of the consumer's process, in four groups.
Boot == Start \/ Begin \/ BeginTracked
Abandon == BackfillFails \/ RejectRecord \/ ProcessRaises \/ Crash
Read == BackfillNext \/ BackfillDone \/ Yield \/ Process
Commit == SaveCursor \/ SaveCursorFails \/ SaveCursorRaises \/ Advance \/ AdvanceFails

LEMMA NextKinds ==
  [Next]_vars => Elsewhere \/ Boot \/ Abandon \/ Read \/ Commit \/ Connect \/ Disconnect
  BY DEF Next, Elsewhere, Boot, Abandon, Read, Commit

\* An abandoned generator leaves nothing in memory.
LEMMA AbandonFrame ==
  ASSUME Abandon
  PROVE  Ended /\ pc' \in {"idle", "down"} /\ UNCHANGED <<setup, ledger, fate>>
  BY DEF Abandon, BackfillFails, RejectRecord, ProcessRaises, Crash, Raised

\* A lost connection: another attempt with the locals kept, or none.
LEMMA DisconnectedFrame ==
  ASSUME NEW u, Disconnected(u)
  PROVE  \/ pc' = "idle" /\ Ended
         \/ pc' = "connect" /\ UNCHANGED <<cursor, mode, url, pos, probed, last>>
  BY DEF Disconnected, Raised

\* A commit leaves the ledger alone; when it returns to the generator the locals are kept.
LEMMA CommitFrame ==
  ASSUME TypeOK, Shape, Commit
  PROVE  /\ UNCHANGED <<setup, ledger, fate>>
         /\ pc \in {"save", "advance"}
         /\ \/ pc' = "idle" /\ Ended
            \/ /\ pc' = "advance" /\ tracked
               /\ UNCHANGED <<cursor, mode, url, pos, trade, probed, last>>
            \/ /\ pc' = "connect" /\ mode = "live"
               /\ UNCHANGED <<cursor, mode, url, pos, probed, last>>
            \/ /\ pc' = IF mode = "live" THEN "live" ELSE "backfill"
               /\ UNCHANGED <<cursor, mode, url, pos, probed, last>>
  <1>1. CASE SaveCursor
    BY <1>1 DEF SaveCursor, SaveReturns, Resumed, generator, setup, ledger
  <1>2. CASE SaveCursorFails
    BY <1>2 DEF SaveCursorFails, SaveReturns, Resumed, Raised, generator, setup, ledger
  <1>3. CASE Advance
    BY <1>3 DEF Advance, Resumed, setup, ledger
  <1>4. CASE AdvanceFails /\ mode = "live"
    BY <1>4, DisconnectedFrame DEF AdvanceFails
  <1>5. CASE AdvanceFails /\ mode # "live"
    BY <1>5 DEF AdvanceFails, Raised
  <1>6. CASE SaveCursorRaises /\ mode = "live"
    BY <1>6, DisconnectedFrame DEF SaveCursorRaises
  <1>7. CASE SaveCursorRaises /\ mode # "live"
    BY <1>7 DEF SaveCursorRaises, Raised
  <1> QED BY <1>1, <1>2, <1>3, <1>4, <1>5, <1>6, <1>7 DEF Commit

\* Every step keeps the generator's locals in shape.
LEMMA ShapeStep == TypeOK /\ Shape /\ [Next]_vars => Shape'
  <1> SUFFICES ASSUME TypeOK, Shape, [Next]_vars PROVE Shape'
    OBVIOUS
  <1> USE Ranges
  <1>1. CASE Elsewhere
    <2>1. TypeOK'
      BY TypeStep
    <2>2. ASSUME NEW e \in Endpoints PROVE pruned'[e] <= published'
      <3>1. /\ pruned[e] \in Nat /\ published \in Nat /\ published' \in Nat
            /\ pruned[e] <= published
        BY <2>1 DEF TypeOK, Shape
      <3> QED BY <1>1, <3>1, ElsewhereFrame
    <2>3. /\ UNCHANGED <<pc, cursor, mode, pos, trade, last>>
          /\ probed' \subseteq probed
      BY <1>1, ElsewhereFrame
    <2> QED BY <2>2, <2>3 DEF Shape
  <1>2. CASE Boot
    <2>1. CASE Start
      BY <2>1 DEF Start, Shape, ledger, generator
    <2>2. CASE Begin
      BY <2>2 DEF Begin, Shape, ledger
    <2>3. CASE BeginTracked
      BY <2>3 DEF BeginTracked, ResumePoint, Absent, Shape, TypeOK, ledger
    <2> QED BY <1>2, <2>1, <2>2, <2>3 DEF Boot
  <1>3. CASE Abandon
    BY <1>3, AbandonFrame DEF Ended, Shape, ledger
  <1>4. CASE BackfillNext
    BY <1>4 DEF BackfillNext, Shape, TypeOK, Trades, ledger
  <1>5. CASE BackfillDone
    BY <1>5 DEF BackfillDone, Shape, ledger
  <1>6. CASE Yield
    BY <1>6 DEF Yield, Shape, TypeOK, Trades, ledger
  <1>7. CASE Process
    BY <1>7 DEF Process, Shape, TypeOK, Trades, Now, ledger
  <1>8. CASE Commit
    <2>1. UNCHANGED <<published, pruned>> /\ pc \in {"save", "advance"}
      BY <1>8, CommitFrame DEF ledger
    <2>2. CASE pc' = "idle" /\ Ended
      BY <2>1, <2>2 DEF Ended, Shape
    <2>3. CASE pc' = "advance" /\ UNCHANGED <<cursor, mode, url, pos, trade, probed, last>>
      BY <2>1, <2>3 DEF Shape
    <2>4. CASE pc' = "connect" /\ mode = "live" /\ UNCHANGED <<cursor, mode, url, pos, probed, last>>
      BY <2>1, <2>4 DEF Shape
    <2>5. CASE /\ pc' = IF mode = "live" THEN "live" ELSE "backfill"
               /\ UNCHANGED <<cursor, mode, url, pos, probed, last>>
      BY <2>1, <2>5 DEF Shape, TypeOK
    <2> QED BY <1>8, <2>2, <2>3, <2>4, <2>5, CommitFrame
  <1>9. CASE Connect
    <2>1. UNCHANGED ledger
      BY <1>9 DEF Connect
    <2>2. CASE \E u \in Endpoints : Disconnected(u)
      BY <1>9, <2>1, <2>2, DisconnectedFrame DEF Connect, Ended, Shape, ledger
    <2>3. CASE pc' = "live" /\ UNCHANGED <<cursor, mode, trade, probed, last>>
      BY <1>9, <2>1, <2>3 DEF Connect, Shape, ledger
    <2> QED BY <1>9, <2>2, <2>3 DEF Connect, Best, TypeOK
  <1>10. CASE Disconnect
    BY <1>10, DisconnectedFrame DEF Disconnect, Ended, Shape, ledger
  <1> QED BY <1>1, <1>2, <1>3, <1>4, <1>5, <1>6, <1>7, <1>8, <1>9, <1>10, NextKinds DEF Read

\* Before its first start the process has nothing under way.
LEMMA InitTypeShape == Init => TypeOK /\ Shape
  <1> SUFFICES ASSUME Init PROVE TypeOK /\ Shape
    OBVIOUS
  <1>1. TypeOK
    <2>1. /\ store \in Stores /\ tracked \in BOOLEAN /\ bad \in BadTrades
          /\ alive \in SUBSET Endpoints /\ healthy \in SUBSET Endpoints
          /\ probe \in {<<>>} \cup (Endpoints \X BOOLEAN)
          /\ probed \in SUBSET Endpoints /\ url \in Endpoints
      BY Ranges DEF Init
    <2>2. /\ pruned \in [Endpoints -> 0 .. MaxTrade]
          /\ fate \in [Trades -> {"new", "processed", "passed"}]
      BY Ranges DEF Init
    <2>3. attempts \in 0 .. MaxAttempts - 1 /\ faults \in 0 .. MaxFaults
      BY Ranges DEF Init
    <2>4. published \in 0 .. MaxTrade /\ updates \in Nat /\ stuck \in BOOLEAN
      BY Ranges DEF Init
    <2>5. /\ mem \in 0 .. MaxTrade /\ disk \in 0 .. MaxTrade
          /\ wmem \in 0 .. MaxTrade /\ wdisk \in 0 .. MaxTrade
          /\ pos \in 0 .. MaxTrade /\ trade \in 0 .. MaxTrade /\ last \in 0 .. MaxTrade
      BY Ranges DEF Init, Absent
    <2>6. pc \in Places /\ cursor \in Cursors /\ mode \in {"backfill", "live"}
      BY DEF Init, Places, Cursors
    <2> QED BY <2>1, <2>2, <2>3, <2>4, <2>5, <2>6 DEF TypeOK
  <1>2. Shape
    BY Ranges DEF Init, Shape, Absent
  <1> QED BY <1>1, <1>2

\* Every variable of the ingestion of a pair stays in its range, whatever fails.
THEOREM TypeCorrect == Spec => []TypeOK
  <1>1. TypeOK /\ Shape /\ [Next]_vars => TypeOK' /\ Shape'
    BY TypeStep, ShapeStep
  <1> QED BY <1>1, InitTypeShape, PTL DEF Spec
------------------------------------------------------------------------------
\* A trade that was processed or passed over stays so.
LEMMA FateStays ==
  ASSUME TypeOK, [Next]_vars
  PROVE  \A t \in Trades : fate[t] # "new" => fate'[t] # "new"
  <1>1. CASE Elsewhere
    BY <1>1, ElsewhereFrame
  <1>2. CASE Boot
    BY <1>2 DEF Boot, Start, Begin, BeginTracked
  <1>3. CASE Abandon
    BY <1>3, AbandonFrame
  <1>4. CASE Read
    BY <1>4 DEF Read, BackfillNext, BackfillDone, Yield, Process, TypeOK
  <1>5. CASE SaveCursor \/ SaveCursorFails \/ SaveCursorRaises \/ Advance \/ AdvanceFails
    BY <1>5 DEF SaveCursor, SaveCursorFails, SaveCursorRaises, Advance, AdvanceFails
  <1>6. CASE Connect
    <2>1. CASE UNCHANGED fate
      BY <2>1
    <2>2. CASE \E u \in Endpoints : fate' = [t \in Trades |-> IF t \in Passed(u, pos') THEN "passed" ELSE fate[t]]
      BY <2>2
    <2> QED BY <1>6, <2>1, <2>2, Ranges DEF Connect, Best, TypeOK
  <1>7. CASE Disconnect
    BY <1>7 DEF Disconnect
  <1> QED BY <1>1, <1>2, <1>3, <1>4, <1>5, <1>6, <1>7, NextKinds DEF Commit

\* So a position that covered every trade up to it goes on doing so.
LEMMA AccountedStays ==
  ASSUME TypeOK, [Next]_vars, NEW c, Accounted(c)
  PROVE  Accounted(c)'
  BY FateStays DEF Accounted

\* How far the generator has dealt with the ledger, by the place it has reached.
Reached ==
  /\ pc \in {"live", "backfill"} => Accounted(pos)
  /\ pc = "yielded" => Accounted(trade - 1)
  /\ pc \in {"save", "advance"} => Accounted(trade)

\* The order of what it yields: the last trade is not beyond the cursor, nor
\* beyond the place it reads from.
Ordered ==
  /\ pc \in {"connect", "backfill", "live"} => last = 0 \/ (cursor # Now /\ last <= cursor)
  /\ pc \in {"live", "backfill"} => last <= pos

\* The nodes asked at the start reach back to the trades dealt with.
Bridged == mode = "live" => \A u \in probed : Accounted(pruned[u])

\* A stream at "now" is opened only while nothing is saved.
FromNow ==
  pc \in {"connect", "live", "yielded"} /\ cursor = Now =>
    (tracked => wmem = Absent) /\ Stored = Absent

\* A saved position that moves must cover what is before it; the others go on
\* covering it.
LEMMA PositionsFrame ==
  ASSUME TypeOK, [Next]_vars, PositionsCoverProcessed,
         \A c \in {mem', disk', wmem', wdisk', cursor'} :
            c \in {mem, disk, wmem, wdisk, cursor} \/ c \in {Absent, Now} \/ Accounted(c)'
  PROVE  PositionsCoverProcessed'
  <1> SUFFICES ASSUME NEW c \in {mem', disk', wmem', wdisk', cursor'}
               PROVE  Accounted(c)'
    BY DEF PositionsCoverProcessed
  <1>1. CASE c \in {mem, disk, wmem, wdisk, cursor}
    BY <1>1, AccountedStays DEF PositionsCoverProcessed
  <1>2. CASE c \in {Absent, Now}
    BY <1>2, Ranges DEF Accounted, Absent, Now, Trades
  <1> QED BY <1>1, <1>2
\* The saved positions of a trade that is dealt with.
LEMMA PositionStep ==
  ASSUME TypeOK, Shape, PositionsCoverProcessed, Reached, [Next]_vars
  PROVE  PositionsCoverProcessed'
  <1> DEFINE Old == {mem, disk, wmem, wdisk, cursor, Absent, Now}
  <1> SUFFICES \A c \in {mem', disk', wmem', wdisk', cursor'} : c \in Old \/ Accounted(c)'
    BY PositionsFrame
  <1>1. CASE Elsewhere
    <2>1. cursor' = cursor
      BY <1>1, ElsewhereFrame
    <2>2. CASE Publish \/ ProbeEnd \/ UNCHANGED vars \/ \E e \in Endpoints : Prune(e) \/ Die(e) \/ ProbeStart(e)
      BY <2>1, <2>2 DEF Publish, ProbeEnd, Prune, Die, ProbeStart, vars, saved
    <2>3. CASE Flush \/ ResetWatermark \/ Summarise \/ DeleteCursor
      BY <2>1, <2>3 DEF Flush, ResetWatermark, Summarise, DeleteCursor
    <2> QED BY <1>1, <2>2, <2>3 DEF Elsewhere
  <1>2. CASE Boot
    BY <1>2 DEF Boot, Start, Begin, BeginTracked, ResumePoint, Stored, saved, generator
  <1>3. CASE Abandon
    <2>1. cursor' = Now
      BY <1>3, AbandonFrame DEF Ended
    <2> QED BY <1>3, <2>1 DEF Abandon, BackfillFails, RejectRecord, ProcessRaises, Crash, saved
  <1>4. CASE BackfillNext \/ BackfillDone \/ Yield
    BY <1>4 DEF BackfillNext, BackfillDone, Yield, saved
  <1>5. CASE Process
    <2>1. UNCHANGED saved /\ cursor' = trade /\ fate' = [fate EXCEPT ![trade] = "processed"]
      BY <1>5 DEF Process
    <2>2. trade \in Trades /\ Accounted(trade - 1)
      BY <1>5 DEF Process, Shape, Reached
    <2>3. \A t \in Trades : t <= trade => fate'[t] # "new"
      BY <2>1, <2>2, Ranges DEF Accounted, TypeOK, Trades
    <2> QED BY <2>1, <2>3 DEF Accounted, saved
  <1>6. CASE Commit
    <2>1. \A t \in Trades : t <= trade => fate'[t] # "new"
      BY <1>6, CommitFrame, FateStays DEF Reached, Accounted
    <2>2. cursor' \in {cursor, Now}
      BY <1>6, CommitFrame DEF Ended
    <2>3. {mem', disk', wmem', wdisk'} \subseteq {mem, disk, wmem, wdisk, trade}
      BY <1>6 DEF Commit, SaveCursor, SaveCursorFails, SaveCursorRaises, Advance, AdvanceFails
    <2> QED BY <2>1, <2>2, <2>3 DEF Accounted
  <1>7. CASE Connect \/ Disconnect
    BY <1>7 DEF Connect, Disconnect, Disconnected, Raised, Ended, saved
  <1> QED BY <1>1, <1>2, <1>3, <1>4, <1>5, <1>6, <1>7, NextKinds DEF Read

\* What a stream opened on u has dealt with before its first trade.
LEMMA OpenStream ==
  ASSUME TypeOK, Accounted(cursor), NEW u \in Endpoints,
         pos' = IF cursor = Now THEN published ELSE Larger(cursor, pruned[u]),
         fate' = [t \in Trades |-> IF t \in Passed(u, pos') THEN "passed" ELSE fate[t]]
  PROVE  Accounted(pos)'
  <1> SUFFICES ASSUME NEW t \in Trades, t <= pos', fate[t] = "new"
               PROVE  t \in Passed(u, pos')
    BY DEF Accounted
  <1>1. t > (IF cursor = Now THEN 0 ELSE cursor)
    BY Ranges DEF Accounted, TypeOK, Trades, Cursors
  <1> QED BY <1>1 DEF Passed

\* Where the generator stands, all before it is dealt with.
LEMMA ReachedStep ==
  ASSUME TypeOK, Shape, PositionsCoverProcessed, Reached, [Next]_vars
  PROVE  Reached'
  <1>1. CASE Elsewhere
    BY <1>1, ElsewhereFrame, FateStays DEF Reached, Accounted
  <1>2. CASE Start \/ Begin
    BY <1>2 DEF Start, Begin, Reached
  <1>3. CASE BeginTracked
    <2>1. Accounted(wmem)
      BY DEF PositionsCoverProcessed
    <2>2. CASE pc' = "connect"
      BY <2>2 DEF Reached
    <2>3. CASE pc' = "backfill" /\ pos' = wmem
      BY <1>3, <2>1, <2>3 DEF BeginTracked, Reached, Accounted
    <2> QED BY <1>3, <2>2, <2>3 DEF BeginTracked
  <1>4. CASE Abandon
    BY <1>4, AbandonFrame DEF Reached
  <1>5. CASE BackfillNext
    <2>1. pc = "backfill" /\ Accounted(pos) /\ pos \in Nat /\ pos' = pos + 1
      BY <1>5, Ranges DEF BackfillNext, Reached, TypeOK
    <2>2. CASE pos + 1 \in bad
      <3>1. /\ pc' = "backfill"
            /\ fate' = [fate EXCEPT ![pos + 1] = "passed"]
        BY <1>5, <2>1, <2>2 DEF BackfillNext
      <3>2. \A t \in Trades : t <= pos + 1 => fate'[t] # "new"
        BY <2>1, <3>1, Ranges DEF Accounted, TypeOK, Trades
      <3> QED BY <2>1, <3>1, <3>2 DEF Reached, Accounted
    <2>3. CASE pos + 1 \notin bad
      <3>1. pc' = "yielded" /\ trade' = pos + 1 /\ UNCHANGED fate
        BY <1>5, <2>3 DEF BackfillNext
      <3>2. trade' - 1 = pos
        BY <2>1, <3>1
      <3>3. \A t \in Trades : t <= pos => fate'[t] # "new"
        BY <2>1, <3>1 DEF Accounted
      <3> QED BY <3>1, <3>2, <3>3 DEF Reached, Accounted
    <2> QED BY <2>2, <2>3
  <1>6. CASE BackfillDone
    BY <1>6 DEF BackfillDone, Reached
  <1>7. CASE Yield
    <2>1. pc' = "yielded" /\ trade' = pos + 1 /\ UNCHANGED fate /\ Accounted(pos) /\ pos \in Nat
      BY <1>7, Ranges DEF Yield, Reached, TypeOK
    <2>2. trade' - 1 = pos
      BY <2>1
    <2> QED BY <2>1, <2>2 DEF Reached, Accounted
  <1>8. CASE Process
    <2>1. pc = "yielded" /\ pc' = "save" /\ trade' = trade
          /\ fate' = [fate EXCEPT ![trade] = "processed"]
      BY <1>8 DEF Process
    <2>2. trade \in Trades /\ Accounted(trade - 1)
      BY <2>1 DEF Shape, Reached
    <2>3. \A t \in Trades : t <= trade => fate'[t] # "new"
      BY <2>1, <2>2, Ranges DEF Accounted, TypeOK, Trades
    <2> QED BY <2>1, <2>3 DEF Reached, Accounted
  <1>9. CASE Commit
    <2>1. /\ pos = trade /\ UNCHANGED fate
          /\ Accounted(trade)
      BY <1>9, CommitFrame DEF Shape, Reached
    <2>2. CASE pc' \in {"idle", "connect"}
      BY <2>2 DEF Reached
    <2>3. CASE pc' = "advance" /\ UNCHANGED trade
      BY <2>1, <2>3 DEF Reached, Accounted
    <2>4. CASE pc' \in {"live", "backfill"} /\ UNCHANGED pos
      BY <2>1, <2>4 DEF Reached, Accounted
    <2> QED BY <1>9, <2>2, <2>3, <2>4, CommitFrame
  <1>10. CASE Connect
    <2>1. PICK u \in Best :
            IF u \in alive
            THEN /\ pc' = "live" /\ url' = u
                 /\ pos' = IF cursor = Now THEN published ELSE Larger(cursor, pruned[u])
                 /\ fate' = [t \in Trades |-> IF t \in Passed(u, pos') THEN "passed" ELSE fate[t]]
                 /\ UNCHANGED <<healthy, cursor, mode, trade, attempts, probed, last>>
            ELSE Disconnected(u) /\ UNCHANGED fate
      BY <1>10 DEF Connect
    <2>2. u \in Endpoints
      BY Ranges DEF Best, TypeOK
    <2>3. CASE u \in alive
      <3>1. Accounted(cursor)
        BY DEF PositionsCoverProcessed
      <3>2. Accounted(pos)'
        BY <2>1, <2>2, <2>3, <3>1, OpenStream
      <3> QED BY <2>1, <2>3, <3>2 DEF Reached
    <2>4. CASE u \notin alive
      BY <2>1, <2>4, DisconnectedFrame DEF Reached
    <2> QED BY <2>3, <2>4
  <1>11. CASE Disconnect
    BY <1>11, DisconnectedFrame DEF Disconnect, Reached
  <1> QED BY <1>1, <1>2, <1>3, <1>4, <1>5, <1>6, <1>7, <1>8, <1>9, <1>10, <1>11, NextKinds
          DEF Boot, Read

\* A position that is saved, or about to be, covers all that is before it.
THEOREM PositionsCover == Spec => []PositionsCoverProcessed
  <1> DEFINE IInv == TypeOK /\ Shape /\ PositionsCoverProcessed /\ Reached
  <1>1. Init => IInv
    <2> SUFFICES ASSUME Init PROVE PositionsCoverProcessed /\ Reached
      BY InitTypeShape
    <2>1. \A c \in {mem, disk, wmem, wdisk, cursor} : c \in {Absent, Now}
      BY DEF Init
    <2>2. \A c \in {Absent, Now} : Accounted(c)
      BY Ranges DEF Accounted, Absent, Now, Trades
    <2> QED BY <2>1, <2>2 DEF Init, PositionsCoverProcessed, Reached
  <1>2. IInv /\ [Next]_vars => IInv'
    BY TypeStep, ShapeStep, PositionStep, ReachedStep
  <1>3. IInv => PositionsCoverProcessed
    OBVIOUS
  <1> QED BY <1>1, <1>2, <1>3, PTL DEF Spec
------------------------------------------------------------------------------
\* What Connect does, once the node is chosen.
LEMMA ConnectFrame ==
  ASSUME TypeOK, Connect
  PROVE  /\ pc = "connect" /\ UNCHANGED <<setup, ledger, saved>>
         /\ \E u \in Endpoints :
              \/ /\ pc' = "live" /\ url' = u
                 /\ pos' = IF cursor = Now THEN published ELSE Larger(cursor, pruned[u])
                 /\ fate' = [t \in Trades |-> IF t \in Passed(u, pos') THEN "passed" ELSE fate[t]]
                 /\ UNCHANGED <<cursor, mode, probed, last>>
              \/ Disconnected(u) /\ UNCHANGED fate
  BY Ranges DEF Connect, Best, TypeOK

\* The order of the trades yielded is kept by every step.
LEMMA OrderedStep ==
  ASSUME TypeOK, Shape, Ordered, [Next]_vars
  PROVE  Ordered'
  <1>1. CASE Elsewhere
    BY <1>1, ElsewhereFrame DEF Ordered
  <1>2. CASE Boot
    BY <1>2 DEF Boot, Start, Begin, BeginTracked, Ordered, Shape, TypeOK
  <1>3. CASE Abandon
    BY <1>3, AbandonFrame DEF Ordered
  <1>4. CASE BackfillNext
    BY <1>4, Ranges DEF BackfillNext, Ordered, TypeOK
  <1>5. CASE BackfillDone
    BY <1>5 DEF BackfillDone, Ordered
  <1>6. CASE Yield \/ Process
    BY <1>6 DEF Yield, Process, Ordered
  <1>7. CASE Commit
    <2>1. cursor = trade /\ last = trade /\ pos = trade /\ trade \in Trades
      BY <1>7, CommitFrame DEF Shape
    <2>2. cursor # Now /\ last <= cursor /\ last <= pos
      BY <2>1, Ranges DEF Trades
    <2>3. CASE pc' \in {"idle", "advance"}
      BY <2>3 DEF Ordered
    <2>4. CASE UNCHANGED <<cursor, pos, last>>
      BY <2>2, <2>4 DEF Ordered
    <2> QED BY <1>7, <2>3, <2>4, CommitFrame
  <1>8. CASE Connect
    <2>1. PICK u \in Endpoints :
            \/ /\ pc' = "live" /\ url' = u
               /\ pos' = IF cursor = Now THEN published ELSE Larger(cursor, pruned[u])
               /\ UNCHANGED <<cursor, mode, probed, last>>
            \/ Disconnected(u) /\ UNCHANGED fate
      BY <1>8, ConnectFrame
    <2>2. pc = "connect"
      BY <1>8, ConnectFrame
    <2>3. CASE Disconnected(u)
      BY <2>2, <2>3, DisconnectedFrame DEF Ordered
    <2>4. CASE /\ pc' = "live" /\ UNCHANGED <<cursor, last>>
               /\ pos' = IF cursor = Now THEN published ELSE Larger(cursor, pruned[u])
      <3>1. /\ last \in Nat /\ published \in Nat /\ pruned[u] \in Nat
            /\ cursor = Now \/ cursor \in Nat
        BY Ranges DEF TypeOK, Cursors, Trades
      <3>2. last <= pos'
        BY <2>2, <2>4, <3>1 DEF Ordered, Larger, Now
      <3> QED BY <2>2, <2>4, <3>2 DEF Ordered
    <2> QED BY <2>1, <2>3, <2>4
  <1>9. CASE Disconnect
    BY <1>9, DisconnectedFrame DEF Disconnect, Ordered
  <1> QED BY <1>1, <1>2, <1>3, <1>4, <1>5, <1>6, <1>7, <1>8, <1>9, NextKinds DEF Read

\* Only two actions yield a trade, and it comes after the last one.
LEMMA YieldInOrder ==
  ASSUME TypeOK, Shape, Ordered, [Next]_vars
  PROVE  pc # "yielded" /\ pc' = "yielded" => trade' > last
  <1> SUFFICES ASSUME pc # "yielded", pc' = "yielded" PROVE trade' > last
    OBVIOUS
  <1>1. BackfillNext \/ Yield
    <2>1. ~Elsewhere
      BY ElsewhereFrame
    <2>2. ~Boot /\ ~BackfillDone /\ ~Process
      BY DEF Boot, Start, Begin, BeginTracked, BackfillDone, Process
    <2>3. ~Abandon
      BY AbandonFrame
    <2>4. ~Commit
      BY CommitFrame
    <2>5. ~Connect
      BY ConnectFrame, DisconnectedFrame
    <2>6. ~Disconnect
      BY DisconnectedFrame DEF Disconnect
    <2> QED BY <2>1, <2>2, <2>3, <2>4, <2>5, <2>6, NextKinds DEF Read
  <1>2. trade' = pos + 1 /\ last <= pos /\ pos \in Nat /\ last \in Nat
    BY <1>1, Ranges DEF BackfillNext, Yield, Ordered, TypeOK
  <1> QED BY <1>2

\* One call of stream_trades yields trades in ledger order and none twice,
\* across reconnections and from the backfill to the live stream.
THEOREM InOrder == Spec => DeliveredInOrder
  <1> DEFINE IInv == TypeOK /\ Shape /\ Ordered
  <1>1. Init => IInv
    BY InitTypeShape DEF Init, Ordered
  <1>2. IInv /\ [Next]_vars => IInv'
    BY TypeStep, ShapeStep, OrderedStep
  <1>3. IInv /\ [Next]_vars => [pc # "yielded" /\ pc' = "yielded" => trade' > last]_vars
    BY YieldInOrder
  <1> QED BY <1>1, <1>2, <1>3, PTL DEF Spec, DeliveredInOrder
------------------------------------------------------------------------------
\* What others do to the saved positions: they keep them or forget them.
LEMMA ElsewhereSaved ==
  ASSUME Elsewhere
  PROVE  wmem' \in {wmem, Absent} /\ mem' \in {mem, Absent} /\ disk' \in {disk, Absent}
  <1>1. CASE Publish \/ ProbeEnd \/ UNCHANGED vars \/ \E e \in Endpoints : Prune(e) \/ Die(e) \/ ProbeStart(e)
    BY <1>1 DEF Publish, ProbeEnd, Prune, Die, ProbeStart, vars, saved
  <1>2. CASE Flush \/ ResetWatermark \/ Summarise \/ DeleteCursor
    BY <1>2 DEF Flush, ResetWatermark, Summarise, DeleteCursor
  <1> QED BY <1>1, <1>2 DEF Elsewhere

\* While a stream from "now" is open, or about to be, nothing is saved.
LEMMA FromNowStep ==
  ASSUME TypeOK, Shape, FromNow, [Next]_vars
  PROVE  FromNow'
  <1>1. CASE Elsewhere
    <2>1. UNCHANGED <<setup, pc, cursor>>
      BY <1>1, ElsewhereFrame
    <2> QED BY <1>1, <2>1, ElsewhereSaved DEF FromNow, Stored, setup
  <1>2. CASE Start
    BY <1>2 DEF Start, FromNow
  <1>3. CASE Begin
    <2>1. UNCHANGED <<setup, saved>> /\ cursor' = ResumePoint /\ ~(tracked /\ wmem # Absent)
      BY <1>3 DEF Begin
    <2>2. cursor' = Now => Stored = Absent
      <3>1. Stored # Now
        BY Ranges DEF Stored, TypeOK
      <3> QED BY <2>1, <3>1 DEF ResumePoint
    <2> QED BY <2>1, <2>2 DEF FromNow, Stored, setup, saved
  <1>4. CASE BeginTracked
    <2>1. cursor' = wmem
      BY <1>4 DEF BeginTracked, ResumePoint
    <2> QED BY <2>1, Ranges DEF FromNow, TypeOK
  <1>5. CASE Abandon
    BY <1>5, AbandonFrame DEF FromNow
  <1>6. CASE BackfillNext \/ BackfillDone
    BY <1>6 DEF BackfillNext, BackfillDone, FromNow, Shape
  <1>7. CASE Yield
    BY <1>7 DEF Yield, FromNow, Stored, setup, saved
  <1>8. CASE Process
    BY <1>8 DEF Process, FromNow
  <1>9. CASE Commit
    <2>1. cursor # Now
      BY <1>9, CommitFrame, Ranges DEF Shape
    <2> QED BY <1>9, <2>1, CommitFrame DEF FromNow
  <1>10. CASE Connect
    BY <1>10, ConnectFrame, DisconnectedFrame DEF FromNow, Stored, setup, saved
  <1>11. CASE Disconnect
    BY <1>11, DisconnectedFrame DEF Disconnect, FromNow, Stored, setup, saved
  <1> QED BY <1>1, <1>2, <1>3, <1>4, <1>5, <1>6, <1>7, <1>8, <1>9, <1>10, <1>11, NextKinds
          DEF Boot, Read

\* A node that was asked reaches back to what is dealt with, or the trades it
\* lacks are backfilled.
LEMMA BridgedStep ==
  ASSUME TypeOK, Shape, PositionsCoverProcessed, Reached, Bridged, [Next]_vars
  PROVE  Bridged'
  <1> USE Ranges
  <1> SUFFICES ASSUME mode' = "live", NEW u \in probed' PROVE Accounted(pruned[u])'
    BY DEF Bridged
  <1>0. TypeOK' /\ u \in Endpoints
    BY TypeStep DEF TypeOK
  <1>1. CASE Elsewhere
    <2>1. u \in probed /\ pruned'[u] = pruned[u] /\ mode = "live"
      BY <1>0, <1>1, ElsewhereFrame
    <2>2. Accounted(pruned[u])
      BY <2>1 DEF Bridged
    <2> QED BY <2>1, <2>2, FateStays DEF Accounted
  <1>2. CASE Start \/ Begin
    <2>1. probed' = {}
      BY <1>2 DEF Start, Begin, generator, Shape
    <2> QED BY <2>1
  <1>3. CASE BeginTracked
    <2>1. UNCHANGED <<pruned, fate>> /\ pruned[u] < published /\ ~(pruned[u] + 1 > wmem)
      BY <1>3 DEF BeginTracked, ledger
    <2>2. Accounted(wmem)
      BY DEF PositionsCoverProcessed
    <2>3. pruned[u] \in Nat /\ wmem \in Nat
      BY <1>0 DEF TypeOK
    <2>4. pruned[u] <= wmem
      BY <2>1, <2>3
    <2>5. \A t \in Trades : t <= pruned[u] => t <= wmem
      BY <2>3, <2>4 DEF Trades
    <2> QED BY <2>1, <2>2, <2>5 DEF Accounted
  <1>4. CASE Abandon
    BY <1>4, AbandonFrame DEF Ended
  <1>5. CASE BackfillDone
    <2>1. Accounted(pos) /\ pos = published /\ UNCHANGED <<pruned, fate>>
      BY <1>5 DEF BackfillDone, Reached, ledger
    <2>2. pruned[u] <= pos /\ pruned[u] \in Nat /\ pos \in Nat
      BY <1>0, <2>1 DEF Shape, TypeOK
    <2>3. \A t \in Trades : t <= pruned[u] => t <= pos
      BY <2>2 DEF Trades
    <2> QED BY <2>1, <2>3 DEF Accounted
  <1>6. CASE UNCHANGED <<mode, pruned>> /\ probed' \subseteq probed
    <2>1. Accounted(pruned[u])
      BY <1>6 DEF Bridged
    <2> QED BY <1>6, <2>1, FateStays DEF Accounted
  <1>7. CASE BackfillNext \/ Yield \/ Process
    BY <1>6, <1>7 DEF BackfillNext, Yield, Process, ledger
  <1>8. CASE Commit
    BY <1>6, <1>8, CommitFrame DEF Ended, ledger
  <1>9. CASE Connect
    BY <1>6, <1>9, ConnectFrame, DisconnectedFrame DEF Ended, ledger
  <1>10. CASE Disconnect
    BY <1>6, <1>10, DisconnectedFrame DEF Disconnect, Ended, ledger
  <1> QED BY <1>1, <1>2, <1>3, <1>4, <1>5, <1>7, <1>8, <1>9, <1>10, NextKinds DEF Boot, Read

\* Opening a stream is the one step that passes trades over while connecting.
LEMMA PassedOver ==
  ASSUME TypeOK, Shape, PositionsCoverProcessed, Bridged, FromNow, [Next]_vars,
         pc = "connect", NEW t \in Trades, fate[t] = "new", fate'[t] = "passed"
  PROVE  IF t <= pruned[url'] /\ cursor # Now THEN url' \notin probed ELSE ResumePoint = Now
  <1> USE Ranges
  <1>1. Connect
    <2>1. ~Elsewhere /\ ~Abandon /\ ~Commit
      BY ElsewhereFrame, AbandonFrame, CommitFrame
    <2> QED BY <2>1, NextKinds DEF Boot, Start, Begin, BeginTracked, Read, BackfillNext, BackfillDone,
               Yield, Process, Disconnect
  <1>2. PICK u \in Endpoints :
          /\ pc' = "live" /\ url' = u
          /\ pos' = IF cursor = Now THEN published ELSE Larger(cursor, pruned[u])
          /\ fate' = [s \in Trades |-> IF s \in Passed(u, pos') THEN "passed" ELSE fate[s]]
    BY <1>1, ConnectFrame
  <1>3. t \in Passed(u, pos')
    BY <1>2
  <1>4. CASE cursor = Now
    BY <1>4 DEF FromNow, ResumePoint
  <1>5. CASE cursor # Now
    <2>1. t <= pruned[u]
      BY <1>2, <1>3, <1>5 DEF Passed, Larger, TypeOK, Cursors, Trades
    <2>2. mode = "live"
      BY DEF Shape
    <2>3. u \notin probed
      BY <2>1, <2>2 DEF Bridged, Accounted
    <2> QED BY <1>2, <1>5, <2>1, <2>3
  <1> QED BY <1>4, <1>5

\* A stream passes trades over only where it had no saved position to resume
\* from, or where the start could not see that the node had pruned them.
THEOREM PassesOverOnlyIfUnsaved == Spec => PassedOverOnlyIfUnsaved
  <1> DEFINE IInv == /\ TypeOK /\ Shape /\ PositionsCoverProcessed /\ Reached
                     /\ Bridged /\ FromNow
  <1>1. Init => IInv
    <2> SUFFICES ASSUME Init PROVE PositionsCoverProcessed /\ Reached /\ Bridged /\ FromNow
      BY InitTypeShape
    <2>1. \A c \in {mem, disk, wmem, wdisk, cursor} : c \in {Absent, Now}
      BY DEF Init
    <2>2. \A c \in {Absent, Now} : Accounted(c)
      BY Ranges DEF Accounted, Absent, Now, Trades
    <2> QED BY <2>1, <2>2 DEF Init, PositionsCoverProcessed, Reached, Bridged, FromNow
  <1>2. IInv /\ [Next]_vars => IInv'
    BY TypeStep, ShapeStep, PositionStep, ReachedStep, BridgedStep, FromNowStep
  <1>3. IInv /\ [Next]_vars =>
          [pc = "connect" =>
             \A t \in Trades :
               fate[t] = "new" /\ fate'[t] = "passed" =>
                 IF t <= pruned[url'] /\ cursor # Now
                 THEN url' \notin probed
                 ELSE ResumePoint = Now]_vars
    BY PassedOver
  <1> QED BY <1>1, <1>2, <1>3, PTL DEF Spec, PassedOverOnlyIfUnsaved
==============================================================================
