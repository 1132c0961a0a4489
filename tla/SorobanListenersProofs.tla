------------------------ MODULE SorobanListenersProofs ------------------------
(***************************************************************************)
(* Theorems about SorobanListeners for every set of processes, every chain,*)
(* page size, confirmation depth and number of faults, as long as the      *)
(* depth covers the ledgers that may be replaced and those that may close  *)
(* during a poll.                                                          *)
(***************************************************************************)
EXTENDS SorobanListeners, FiniteSetTheorems, TLAPS

\* The numeric constants.
LEMMA Numbers ==
  /\ MaxLedger \in Nat /\ PageSize \in Nat /\ PageSize > 0
  /\ Depth \in Nat /\ Depth > 0 /\ ReorgDepth \in Nat /\ Drift \in Nat
  /\ ReorgDepth + Drift <= Depth /\ MaxFaults \in Nat
  BY ListenerAssumption

\* The parts of an event.
LEMMA EventFacts ==
  ASSUME NEW e \in Events
  PROVE  /\ e[1] \in Nat /\ e[1] > 0 /\ e[1] <= MaxLedger
         /\ e[2] \in Nat
         /\ e[3] \in Kinds
         /\ e = <<e[1], e[2], e[3]>>
  BY Numbers DEF Events

\* The order of the chain is total, but for events at one position.
LEMMA Order ==
  ASSUME NEW d \in Events, NEW e \in Events
  PROVE  /\ ~(Before(d, e) /\ Before(e, d))
         /\ Before(d, e) => d[1] <= e[1]
         /\ Before(d, e) \/ Before(e, d) \/ (d[1] = e[1] /\ d[2] = e[2])
         /\ \A f \in Events : Before(d, e) /\ Before(e, f) => Before(d, f)
  BY EventFacts DEF Before

\* A ledger's events: they are in that ledger, one to a position, finitely many.
LEMMA LedgerFacts ==
  ASSUME NEW l \in 1 .. MaxLedger, NEW r \in Roles, NEW c \in Contents[r]
  PROVE  /\ Ledger(l, c) \subseteq {l} \X (Nat \ {0}) \X Kinds
         /\ Ledger(l, c) \subseteq Events
         /\ \A e \in Ledger(l, c) : e[1] = l
         /\ \A d, e \in Ledger(l, c) : d[2] = e[2] => d = e
         /\ IsFiniteSet(Ledger(l, c))
  <1>1. c \in Seq(Kinds) /\ Len(c) \in Nat /\ DOMAIN c = 1 .. Len(c)
    BY ListenerAssumption
  <1>2. \A i \in 1 .. Len(c) : c[i] \in Kinds /\ i \in Nat \ {0}
    BY <1>1
  <1>3. Ledger(l, c) = {<<l, i, c[i]>> : i \in 1 .. Len(c)}
    BY <1>1 DEF Ledger
  <1>4. IsFiniteSet(Ledger(l, c))
    <2> DEFINE f == [i \in 1 .. Len(c) |-> <<l, i, c[i]>>]
    <2>1. IsFiniteSet(1 .. Len(c))
      BY <1>1, FS_Interval
    <2>2. Ledger(l, c) = {f[i] : i \in 1 .. Len(c)}
      BY <1>3
    <2>3. f \in Surjection(1 .. Len(c), Ledger(l, c))
      BY <2>2 DEF Surjection
    <2> QED BY <2>1, <2>3, FS_Surjection
  <1>5. Ledger(l, c) \subseteq {l} \X (Nat \ {0}) \X Kinds
    BY <1>2, <1>3
  <1>6. \A e \in Ledger(l, c) : e[1] = l
    BY <1>3
  <1>7. \A d, e \in Ledger(l, c) : d[2] = e[2] => d = e
    BY <1>3
  <1> QED BY <1>4, <1>5, <1>6, <1>7 DEF Events
------------------------------------------------------------------------------
\* The chain: finitely many events, one to a position.
ChainOK ==
  /\ IsFiniteSet(chain)
  /\ \A d, e \in chain : d[1] = e[1] /\ d[2] = e[2] => d = e

\* The chain's events are events.
LEMMA ChainEvents == TypeOK => chain \subseteq Events
  BY Numbers DEF TypeOK, Events

\* What the chain does to the listeners: nothing.
Chain == Close \/ Reorg
Untouched ==
  <<deployment, watermark, stored, pc, start, paused, batch, full, fetchedAt, high, resumed,
    lost, acted, dropped>>

\* The events of ledger l are replaced, or are the first of it.
Replaced(l, c) == chain' = {e \in chain : e[1] # l} \cup Ledger(l, c)

\* A step of the chain gives one ledger new events, beyond those that are final.
LEMMA ChainFrame ==
  ASSUME TypeOK, Chain
  PROVE  /\ UNCHANGED Untouched
         /\ tip' \in Nat /\ tip <= tip' /\ tip' <= MaxLedger
         /\ \E l \in 1 .. tip' : l > tip - ReorgDepth
              /\ \E c \in Contents[deployment.role] : Replaced(l, c)
  <1> USE Numbers
  <1>0. tip \in Nat /\ tip <= MaxLedger
    BY DEF TypeOK
  <1>1. CASE Close
    <2>1. PICK c \in Contents[deployment.role] : chain' = chain \cup Ledger(tip + 1, c)
      BY <1>1 DEF Close
    <2>2. chain = {e \in chain : e[1] # tip + 1}
      BY <1>0 DEF TypeOK
    <2>3. tip' = tip + 1 /\ tip < MaxLedger
      BY <1>1 DEF Close
    <2> QED BY <1>0, <1>1, <2>1, <2>2, <2>3 DEF Close, Untouched, Replaced, tables, memory, poll
  <1>2. CASE Reorg
    BY <1>0, <1>2 DEF Reorg, Untouched, Replaced, tables, memory, poll
  <1> QED BY <1>1, <1>2 DEF Chain

\* What the chain holds after such a step.
LEMMA ChainStep ==
  ASSUME TypeOK, ChainOK, Chain
  PROVE  /\ ChainOK'
         /\ chain' \subseteq (1 .. tip') \X (Nat \ {0}) \X Kinds
         /\ \A e \in Events : e[1] <= tip - ReorgDepth => (e \in chain <=> e \in chain')
         /\ \A e \in chain' : e \in chain \/ e[1] > tip - ReorgDepth
  <1> USE Numbers
  <1>0. tip \in Nat /\ tip' \in Nat /\ tip <= tip' /\ tip' <= MaxLedger
    BY ChainFrame DEF TypeOK
  <1>1. PICK l \in 1 .. tip', c \in Contents[deployment.role] :
          l > tip - ReorgDepth /\ Replaced(l, c)
    BY ChainFrame
  <1>2. deployment.role \in Roles /\ l \in 1 .. MaxLedger
    BY <1>0, ListenerAssumption DEF TypeOK
  <1> DEFINE Kept == {e \in chain : e[1] # l}
             New == Ledger(l, c)
  <1>3. /\ New \subseteq {l} \X (Nat \ {0}) \X Kinds /\ IsFiniteSet(New)
        /\ \A e \in New : e[1] = l
        /\ \A d, e \in New : d[2] = e[2] => d = e
    BY <1>2, LedgerFacts
  <1>4. chain' = Kept \cup New
    BY <1>1 DEF Replaced
  <1> HIDE DEF New
  <1>5. IsFiniteSet(chain')
    BY <1>3, <1>4, FS_Subset, FS_Union DEF ChainOK
  <1>6. \A d, e \in chain' : d[1] = e[1] /\ d[2] = e[2] => d = e
    BY <1>3, <1>4 DEF ChainOK
  <1>7. chain' \subseteq (1 .. tip') \X (Nat \ {0}) \X Kinds
    <2>1. chain \subseteq (1 .. tip) \X (Nat \ {0}) \X Kinds
      BY DEF TypeOK
    <2>2. 1 .. tip \subseteq 1 .. tip' /\ {l} \subseteq 1 .. tip'
      BY <1>0
    <2> QED BY <1>3, <1>4, <2>1, <2>2
  <1>8. ASSUME NEW e \in Events, e[1] <= tip - ReorgDepth PROVE e \in chain <=> e \in chain'
    <2>1. e[1] # l
      BY <1>0, <1>1, <1>8, EventFacts
    <2> QED BY <1>3, <1>4, <2>1
  <1>9. \A e \in chain' : e \in chain \/ e[1] > tip - ReorgDepth
    BY <1>1, <1>3, <1>4
  <1> QED BY <1>5, <1>6, <1>7, <1>8, <1>9 DEF ChainOK

\* A page is a prefix: an event left out comes after all of it.
LEMMA PagePrefix ==
  ASSUME TypeOK, ChainOK, NEW l \in Nat,
         NEW e \in From(l), e \notin Page(l), NEW d \in Page(l)
  PROVE  Before(d, e)
  <1> DEFINE Less(x) == {y \in From(l) : Before(y, x)}
  <1>1. From(l) \subseteq chain /\ chain \subseteq Events
    BY ChainEvents DEF From
  <1>2. d \in From(l) /\ d \in Events /\ e \in Events /\ d \in chain /\ e \in chain
    BY <1>1 DEF Page
  <1>3. IsFiniteSet(Less(d)) /\ IsFiniteSet(Less(e))
    BY <1>1, FS_Subset DEF ChainOK
  <1>4. Cardinality(Less(d)) < PageSize /\ ~(Cardinality(Less(e)) < PageSize)
    BY <1>2 DEF Page
  <1>5. Cardinality(Less(d)) \in Nat /\ Cardinality(Less(e)) \in Nat
    BY <1>3, FS_CardinalityType
  <1>6. ~(Less(e) \subseteq Less(d))
    <2> SUFFICES ASSUME Less(e) \subseteq Less(d) PROVE FALSE
      OBVIOUS
    <2>1. Cardinality(Less(e)) <= Cardinality(Less(d))
      BY <1>3, FS_Subset
    <2> QED BY <1>4, <1>5, <2>1, Numbers
  <1>7. e # d
    BY <1>2
  <1>8. ~Before(e, d)
    <2> SUFFICES ASSUME Before(e, d) PROVE Less(e) \subseteq Less(d)
      BY <1>6
    <2>1. \A y \in Events : Before(y, e) => Before(y, d)
      BY <1>2, Order
    <2> QED BY <1>1, <2>1
  <1> QED BY <1>2, <1>7, <1>8, Order DEF ChainOK
------------------------------------------------------------------------------
\* What may no longer be replaced.
Past == {e \in chain : e[1] <= tip - ReorgDepth}

\* What a process holds, by the place its poll has reached.
Place(p) ==
  /\ pc[p] # "down" => p \in Running
  /\ pc[p] \in {"down", "idle"} => batch[p] = {}
  /\ pc[p] \in {"down", "idle", "fetched"} => high[p] = 0
  /\ pc[p] = "down" => ~paused[p] /\ lost[p] = {} /\ start[p] = 0 /\ resumed[p] = 0
  /\ pc[p] \in {"alert", "advance"} => ~Governance
  /\ pc[p] = "advance" => batch[p] = {}

Places == \A p \in Workers : Place(p)

\* A page just read: what of it could not be replaced then is on the chain,
\* and few ledgers closed since.
Fresh(p) ==
  /\ batch[p] # {}
  /\ tip <= fetchedAt[p] + Drift
  /\ \A e \in batch[p] : e[1] <= fetchedAt[p] - ReorgDepth => e \in chain

\* A cursor, and a ledger number, that no replaceable ledger precedes.
CursorFinal(n, latest) == n = 0 \/ n - 1 <= latest - ReorgDepth
LedgerFinal(n, latest) == n = 0 \/ n <= latest - ReorgDepth

LEMMA FinalLater ==
  ASSUME NEW n \in Nat, NEW a \in Nat, NEW b \in Nat, a <= b
  PROVE  /\ CursorFinal(n, a) => CursorFinal(n, b)
         /\ LedgerFinal(n, a) => LedgerFinal(n, b)
  BY Numbers DEF CursorFinal, LedgerFinal

LEMMA FinalFacts ==
  ASSUME NEW n \in Nat, NEW a \in Nat
  PROVE  /\ CursorFinal(0, a) /\ LedgerFinal(0, a)
         /\ n <= a - ReorgDepth => CursorFinal(n + 1, a) /\ LedgerFinal(n, a)
         /\ LedgerFinal(n, a) => CursorFinal(n, a)
  BY Numbers DEF CursorFinal, LedgerFinal

\* What a process has in hand, or has lost, can no longer be replaced, and its
\* cursors are not beyond that.
Holds(p) ==
  /\ lost[p] \subseteq Past
  /\ pc[p] \in {"handle", "alert"} => batch[p] \subseteq Past
  /\ pc[p] = "fetched" => Fresh(p)
  /\ CursorFinal(start[p], tip)
  /\ LedgerFinal(high[p], tip)

\* The same for what is shared, and of every process.
Settled ==
  /\ acted \subseteq Past /\ stored \subseteq Past /\ dropped \subseteq Past
  /\ CursorFinal(watermark, tip)
  /\ \A p \in Workers : Holds(p)

\* What is ready to be handled was final when the page was read.
LEMMA ReadyFacts ==
  ASSUME TypeOK, NEW p \in Workers, Fresh(p), NEW e \in Ready(p)
  PROVE  /\ e \in batch[p] /\ e \in Events /\ e \in Past
         /\ e[1] \in Nat /\ e[1] > 0
         /\ e[1] <= tip - Depth
         /\ e[1] <= fetchedAt[p] - ReorgDepth
         /\ e[1] + 1 <= tip
         /\ e[1] <= tip - ReorgDepth
         /\ \A d \in chain : d[1] = e[1] => d \in Past
  <1> USE Numbers
  <1>1. e \in batch[p] /\ e \in Events /\ e[1] <= tip - Depth
    BY DEF Ready, Confirmed, TypeOK
  <1>2. e[1] \in Nat /\ e[1] > 0 /\ tip \in Nat /\ fetchedAt[p] \in Nat
    BY <1>1, EventFacts DEF TypeOK
  <1>3. e[1] <= fetchedAt[p] - ReorgDepth /\ e[1] + 1 <= tip /\ e[1] <= tip - ReorgDepth
    BY <1>1, <1>2 DEF Fresh
  <1> QED BY <1>1, <1>2, <1>3 DEF Fresh, Past

\* The steps of a process, in groups.
Poll(p) == Start(p) \/ Fetch(p) \/ NothingReady(p) \/ TipUnknown(p) \/ TakeBatch(p)
Save(p) == SaveStart(p) \/ SaveStartFails(p)
Handle(p) == Dispatch(p) \/ Dispatched(p) \/ HandlerRaises(p) \/ DispatchRaises(p)
Oracle(p) ==
  \/ Persist(p) \/ Alert(p) \/ Handled(p) \/ Advance(p) \/ BatchFails(p) \/ ParseRaises(p)

LEMMA NextKinds ==
  [Next]_vars =>
    \/ Chain
    \/ \E p \in Workers : Poll(p) \/ Save(p) \/ Handle(p) \/ Oracle(p) \/ Crash(p)
    \/ UNCHANGED vars
  BY DEF Next, Chain, Poll, Save, Handle, Oracle

\* A process leaves the chain as it is.
LEMMA ProcessFrame ==
  ASSUME NEW p \in Workers, Poll(p) \/ Save(p) \/ Handle(p) \/ Oracle(p) \/ Crash(p)
  PROVE  UNCHANGED <<deployment, chain, tip>>
  <1>1. CASE Poll(p)
    BY <1>1 DEF Poll, Start, Fetch, NothingReady, TipUnknown, TakeBatch, ledgers
  <1>2. CASE Save(p)
    BY <1>2 DEF Save, SaveStart, SaveStartFails, ledgers
  <1>3. CASE Handle(p)
    BY <1>3 DEF Handle, Dispatch, Dispatched, HandlerRaises, DispatchRaises, ledgers
  <1>4. CASE Oracle(p)
    BY <1>4 DEF Oracle, Persist, Alert, Handled, Advance, BatchFails, ParseRaises, ledgers
  <1>5. CASE Crash(p)
    BY <1>5 DEF Crash, ledgers
  <1> QED BY <1>1, <1>2, <1>3, <1>4, <1>5

\* The variables that a process may change, as they must be.
ProcessType ==
  /\ watermark \in 0 .. tip /\ stored \subseteq Events
  /\ pc \in [Workers -> {"down", "idle", "fetched", "handle", "alert", "advance"}]
  /\ start \in [Workers -> 0 .. tip] /\ paused \in [Workers -> BOOLEAN]
  /\ batch \in [Workers -> SUBSET Events] /\ full \in [Workers -> BOOLEAN]
  /\ fetchedAt \in [Workers -> 0 .. tip] /\ high \in [Workers -> 0 .. tip]
  /\ resumed \in [Workers -> 0 .. tip] /\ lost \in [Workers -> SUBSET Events]
  /\ acted \subseteq Events /\ dropped \subseteq Events
  /\ faults \in 0 .. MaxFaults

\* Every step keeps every variable in its range.
LEMMA TypeStep ==
  ASSUME TypeOK, ChainOK, Places, Settled, [Next]_vars
  PROVE  TypeOK'
  <1> USE Numbers
  <1>0. /\ tip \in Nat /\ chain \subseteq Events /\ 0 \in 0 .. tip
        /\ \A p \in Workers : Ready(p) \subseteq Events
    BY ChainEvents DEF TypeOK, Ready
  <1>1. CASE Chain
    <2>1. /\ UNCHANGED Untouched /\ tip' \in Nat /\ tip <= tip' /\ tip' <= MaxLedger
          /\ chain' \subseteq (1 .. tip') \X (Nat \ {0}) \X Kinds
      BY <1>1, ChainFrame, ChainStep
    <2>2. 0 .. tip \subseteq 0 .. tip'
      BY <1>0, <2>1
    <2>3. faults' \in 0 .. MaxFaults
      BY <1>1 DEF Chain, Close, Reorg, Fault, TypeOK
    <2>4. /\ watermark' \in 0 .. tip' /\ start' \in [Workers -> 0 .. tip']
          /\ fetchedAt' \in [Workers -> 0 .. tip'] /\ high' \in [Workers -> 0 .. tip']
          /\ resumed' \in [Workers -> 0 .. tip']
      BY <2>1, <2>2 DEF TypeOK, Untouched
    <2> QED BY <2>1, <2>3, <2>4 DEF TypeOK, Untouched, Events
  <1>2. ASSUME NEW p \in Workers, Poll(p) \/ Save(p) \/ Handle(p) \/ Oracle(p) \/ Crash(p)
        PROVE  TypeOK'
    <2>0. UNCHANGED <<deployment, chain, tip>>
      BY <1>2, ProcessFrame
    <2> SUFFICES ProcessType'
      BY <2>0 DEF TypeOK, ProcessType, Events
    <2> USE <1>0, <2>0
    <2>1. CASE Poll(p)
      <3>1. CASE Start(p)
        BY <3>1 DEF Start, Goto, TypeOK, ProcessType, tables, poll
      <3>2. CASE Fetch(p)
        BY <3>2 DEF Fetch, Goto, TypeOK, ProcessType, tables, memory, Page, From
      <3>3. CASE NothingReady(p) \/ TipUnknown(p)
        <4>1. CASE NothingReady(p)
          BY <4>1 DEF NothingReady, Goto, Forget, TypeOK, ProcessType, tables, memory
        <4>2. CASE TipUnknown(p)
          BY <4>2 DEF TipUnknown, Goto, Forget, Fault, TypeOK, ProcessType, tables, memory
        <4> QED BY <3>3, <4>1, <4>2
      <3>4. CASE TakeBatch(p)
        BY <3>4 DEF TakeBatch, Goto, TypeOK, ProcessType, tables, memory
      <3> QED BY <2>1, <3>1, <3>2, <3>3, <3>4 DEF Poll
    <2>2. CASE Save(p)
      <3>1. PICK last \in Ready(p) :
              /\ start' = [start EXCEPT ![p] = last[1] + 1]
              /\ watermark' \in {watermark, last[1] + 1}
              /\ lost'[p] \subseteq lost[p] \cup CutOff(p, last) \cup Ready(p)
              /\ lost' = [lost EXCEPT ![p] = lost'[p]]
              /\ dropped' \subseteq dropped \cup CutOff(p, last) \cup Ready(p)
        BY <2>2 DEF Save, SaveStart, SaveStartFails, tables, TypeOK
      <3>2. Fresh(p)
        BY <2>2 DEF Save, SaveStart, SaveStartFails, Settled, Holds
      <3>3. last[1] + 1 \in 0 .. tip
        BY <3>2, ReadyFacts
      <3>4. CutOff(p, last) \subseteq Events
        BY DEF CutOff
      <3>5. /\ start' \in [Workers -> 0 .. tip] /\ watermark' \in 0 .. tip
            /\ lost' \in [Workers -> SUBSET Events] /\ dropped' \subseteq Events
        BY <3>1, <3>3, <3>4 DEF TypeOK
      <3>6. CASE SaveStart(p)
        BY <3>5, <3>6 DEF SaveStart, Goto, TypeOK, ProcessType
      <3>7. CASE SaveStartFails(p)
        BY <3>5, <3>7 DEF SaveStartFails, Goto, Forget, Fault, TypeOK, ProcessType, tables
      <3> QED BY <2>2, <3>6, <3>7 DEF Save
    <2>3. CASE Handle(p)
      <3>0. \A e : Flag(e, paused[p]) \in BOOLEAN
        BY DEF Flag, TypeOK
      <3>1. CASE Dispatch(p)
        BY <3>0, <3>1 DEF Dispatch, TypeOK, ProcessType, tables
      <3>2. CASE Dispatched(p)
        BY <3>2 DEF Dispatched, Goto, Forget, TypeOK, ProcessType, tables, memory
      <3>3. CASE HandlerRaises(p)
        BY <3>0, <3>3 DEF HandlerRaises, Goto, Forget, Fault, TypeOK, ProcessType, tables
      <3>4. CASE DispatchRaises(p)
        BY <3>4 DEF DispatchRaises, Goto, Forget, TypeOK, ProcessType, tables
      <3> QED BY <2>3, <3>1, <3>2, <3>3, <3>4 DEF Handle
    <2>4. CASE Oracle(p)
      <3>1. CASE Persist(p)
        <4>1. PICK e \in batch[p] : stored' = stored \cup {e} /\ high' = [high EXCEPT ![p] = e[1]]
          BY <3>1 DEF Persist
        <4>2. e \in Events /\ e[1] \in 0 .. tip
          BY <3>1, EventFacts DEF Persist, Settled, Holds, Past, TypeOK
        <4> QED BY <3>1, <4>1, <4>2 DEF Persist, Goto, TypeOK, ProcessType, memory
      <3>2. CASE Alert(p)
        BY <3>2 DEF Alert, Goto, TypeOK, ProcessType, tables, memory
      <3>3. CASE Handled(p)
        BY <3>3 DEF Handled, Goto, Forget, TypeOK, ProcessType, tables, memory, poll
      <3>4. CASE Advance(p) \/ BatchFails(p) \/ ParseRaises(p)
        <4>1. CASE Advance(p)
          BY <4>1 DEF Advance, Goto, Forget, TypeOK, ProcessType, tables, memory
        <4>2. CASE BatchFails(p)
          BY <4>2 DEF BatchFails, Goto, Forget, Fault, TypeOK, ProcessType, tables, memory
        <4>3. CASE ParseRaises(p)
          BY <4>3 DEF ParseRaises, Goto, Forget, TypeOK, ProcessType, tables, memory
        <4> QED BY <3>4, <4>1, <4>2, <4>3
      <3> QED BY <2>4, <3>1, <3>2, <3>3, <3>4 DEF Oracle
    <2>5. CASE Crash(p)
      BY <2>5 DEF Crash, Goto, Forget, Fault, TypeOK, ProcessType, tables
    <2> QED BY <1>2, <2>1, <2>2, <2>3, <2>4, <2>5
  <1>3. CASE UNCHANGED vars
    BY <1>3 DEF vars, ledgers, tables, memory, poll, TypeOK, Events
  <1> QED BY <1>1, <1>2, <1>3, NextKinds
------------------------------------------------------------------------------
\* A process changes nothing of another one.
LEMMA Others ==
  ASSUME TypeOK, NEW p \in Workers, Poll(p) \/ Save(p) \/ Handle(p) \/ Oracle(p) \/ Crash(p),
         NEW q \in Workers, q # p
  PROVE  /\ pc'[q] = pc[q] /\ start'[q] = start[q] /\ paused'[q] = paused[q]
         /\ batch'[q] = batch[q] /\ full'[q] = full[q] /\ fetchedAt'[q] = fetchedAt[q]
         /\ high'[q] = high[q] /\ resumed'[q] = resumed[q] /\ lost'[q] = lost[q]
  <1>1. CASE Start(p) \/ Fetch(p) \/ TakeBatch(p)
    BY <1>1 DEF Start, Fetch, TakeBatch, Goto, TypeOK, memory, poll
  <1>2. CASE NothingReady(p) \/ TipUnknown(p)
    BY <1>2 DEF NothingReady, TipUnknown, Goto, Forget, TypeOK, memory
  <1>3. CASE SaveStart(p)
    BY <1>3 DEF SaveStart, Goto, TypeOK
  <1>4. CASE SaveStartFails(p)
    BY <1>4 DEF SaveStartFails, Goto, Forget, TypeOK
  <1>5. CASE Dispatch(p)
    BY <1>5 DEF Dispatch, TypeOK
  <1>6. CASE Dispatched(p)
    BY <1>6 DEF Dispatched, Goto, Forget, TypeOK, memory
  <1>7. CASE HandlerRaises(p) \/ DispatchRaises(p)
    BY <1>7 DEF HandlerRaises, DispatchRaises, Goto, Forget, TypeOK
  <1>8. CASE Persist(p) \/ Alert(p)
    BY <1>8 DEF Persist, Alert, Goto, TypeOK, memory
  <1>9. CASE Handled(p)
    BY <1>9 DEF Handled, Goto, Forget, TypeOK, memory, poll
  <1>10. CASE Advance(p) \/ BatchFails(p) \/ ParseRaises(p)
    BY <1>10 DEF Advance, BatchFails, ParseRaises, Goto, Forget, TypeOK, memory
  <1>11. CASE Crash(p)
    BY <1>11 DEF Crash, Goto, Forget, TypeOK
  <1> QED BY <1>1, <1>2, <1>3, <1>4, <1>5, <1>6, <1>7, <1>8, <1>9, <1>10, <1>11
          DEF Poll, Save, Handle, Oracle

\* Every step leaves each process in a place it may be in.
LEMMA PlacesStep ==
  ASSUME TypeOK, Places, [Next]_vars
  PROVE  Places'
  <1>1. CASE Chain
    BY <1>1, ChainFrame DEF Places, Place, Untouched, Running, Governance
  <1>2. ASSUME NEW p \in Workers, Poll(p) \/ Save(p) \/ Handle(p) \/ Oracle(p) \/ Crash(p)
        PROVE  Places'
    <2>0. UNCHANGED deployment
      BY <1>2, ProcessFrame
    <2> USE <2>0
    <2>1. Place(p)
      BY DEF Places
    <2>2. Place(p)'
      <3>1. CASE Start(p)
        BY <2>1, <3>1 DEF Start, Goto, Place, Running, Governance, TypeOK, poll
      <3>2. CASE Fetch(p)
        BY <2>1, <3>2 DEF Fetch, Goto, Place, Running, TypeOK
      <3>3. CASE NothingReady(p) \/ TipUnknown(p)
        BY <2>1, <3>3 DEF NothingReady, TipUnknown, Goto, Forget, Place, Running, TypeOK
      <3>4. CASE TakeBatch(p)
        BY <2>1, <3>4 DEF TakeBatch, Goto, Place, Running, TypeOK
      <3>5. CASE SaveStart(p)
        BY <2>1, <3>5 DEF SaveStart, Goto, Place, Running, TypeOK
      <3>6. CASE SaveStartFails(p)
        BY <2>1, <3>6 DEF SaveStartFails, Goto, Forget, Place, Running, TypeOK
      <3>7. CASE Dispatch(p)
        BY <2>1, <3>7 DEF Dispatch, Place, Running, TypeOK
      <3>8. CASE Dispatched(p) \/ HandlerRaises(p) \/ DispatchRaises(p)
        BY <2>1, <3>8 DEF Dispatched, HandlerRaises, DispatchRaises, Goto, Forget, Place, Running, TypeOK
      <3>9. CASE Persist(p) \/ Alert(p)
        BY <2>1, <3>9 DEF Persist, Alert, Goto, Place, Running, Governance, TypeOK
      <3>10. CASE Handled(p)
        BY <2>1, <3>10 DEF Handled, Goto, Forget, Place, Running, Governance, TypeOK, poll
      <3>11. CASE Advance(p) \/ BatchFails(p) \/ ParseRaises(p)
        BY <2>1, <3>11 DEF Advance, BatchFails, ParseRaises, Goto, Forget, Place, Running, TypeOK
      <3>12. CASE Crash(p)
        BY <2>1, <3>12 DEF Crash, Goto, Forget, Place, TypeOK
      <3> QED BY <1>2, <3>1, <3>2, <3>3, <3>4, <3>5, <3>6, <3>7, <3>8, <3>9, <3>10, <3>11, <3>12
              DEF Poll, Save, Handle, Oracle
    <2>3. ASSUME NEW q \in Workers, q # p PROVE Place(q)'
      BY <1>2, <2>3, Others DEF Places, Place, Running, Governance
    <2> QED BY <2>2, <2>3 DEF Places
  <1>3. CASE UNCHANGED vars
    BY <1>3 DEF vars, memory, poll, Places, Place, Running, Governance
  <1> QED BY <1>1, <1>2, <1>3, NextKinds

\* Once past, always past.
LEMMA PastGrows ==
  ASSUME TypeOK, ChainOK, [Next]_vars
  PROVE  Past \subseteq Past' /\ (~Chain => Past' = Past)
  <1>1. CASE Chain
    <2>1. tip \in Nat /\ tip' \in Nat /\ tip <= tip'
      BY <1>1, ChainFrame DEF TypeOK
    <2>2. \A e \in Events : e[1] <= tip - ReorgDepth => (e \in chain <=> e \in chain')
      BY <1>1, ChainStep
    <2>3. \A e \in Past : e[1] <= tip' - ReorgDepth
      BY <2>1, ChainEvents, EventFacts, Numbers DEF Past
    <2> QED BY <1>1, <2>2, <2>3, ChainEvents DEF Past
  <1>2. CASE \E p \in Workers : Poll(p) \/ Save(p) \/ Handle(p) \/ Oracle(p) \/ Crash(p)
    BY <1>2, ProcessFrame DEF Past
  <1>3. CASE UNCHANGED vars
    BY <1>3 DEF vars, ledgers, Past
  <1> QED BY <1>1, <1>2, <1>3, NextKinds
\* A page stays fresh while its process has not read the tip.
LEMMA FreshStays ==
  ASSUME TypeOK, ChainOK, Places, Chain, NEW p \in Workers, pc[p] = "fetched", Fresh(p)
  PROVE  Fresh(p)'
  <1> USE Numbers
  <1>1. /\ tip \in Nat /\ tip' \in Nat /\ batch' = batch /\ fetchedAt' = fetchedAt
        /\ fetchedAt[p] \in Nat /\ fetchedAt[p] <= tip /\ batch[p] \subseteq Events
    BY ChainFrame DEF TypeOK, Untouched
  <1>2. p \in Running
    BY DEF Places, Place
  <1>3. tip' <= fetchedAt[p] + Drift
    BY <1>1, <1>2 DEF Chain, Close, Reorg, Fresh
  <1>4. ASSUME NEW e \in batch[p], e[1] <= fetchedAt[p] - ReorgDepth PROVE e \in chain'
    <2>1. e \in Events /\ e[1] \in Nat /\ e \in chain
      BY <1>1, <1>4, EventFacts DEF Fresh
    <2>2. e[1] <= tip - ReorgDepth
      BY <1>1, <1>4, <2>1
    <2> QED BY <2>1, <2>2, ChainStep
  <1> QED BY <1>1, <1>3, <1>4 DEF Fresh

\* Nothing unconfirmed is acted on, stored, lost or passed by a cursor.
LEMMA SettledStep ==
  ASSUME TypeOK, ChainOK, Places, Settled, [Next]_vars
  PROVE  Settled'
  <1> USE Numbers
  <1>1. CASE Chain
    <2>1. /\ UNCHANGED Untouched /\ tip \in Nat /\ tip' \in Nat /\ tip <= tip'
          /\ Past \subseteq Past'
      BY <1>1, ChainFrame, PastGrows DEF TypeOK
    <2>2. /\ watermark \in Nat /\ \A p \in Workers : start[p] \in Nat /\ high[p] \in Nat
      BY DEF TypeOK
    <2>3. CursorFinal(watermark', tip')
      BY <2>1, <2>2, FinalLater DEF Untouched, Settled
    <2>4. ASSUME NEW p \in Workers PROVE Holds(p)'
      <3>1. Holds(p)
        BY DEF Settled
      <3>2. CursorFinal(start'[p], tip') /\ LedgerFinal(high'[p], tip')
        BY <2>1, <2>2, <3>1, FinalLater DEF Untouched, Holds
      <3>3. pc'[p] = "fetched" => Fresh(p)'
        BY <1>1, <2>1, <3>1, FreshStays DEF Untouched, Holds
      <3> QED BY <2>1, <3>1, <3>2, <3>3 DEF Untouched, Holds
    <2> QED BY <2>1, <2>3, <2>4 DEF Untouched, Settled
  <1>2. ASSUME NEW p \in Workers, Poll(p) \/ Save(p) \/ Handle(p) \/ Oracle(p) \/ Crash(p)
        PROVE  Settled'
    <2>0. UNCHANGED <<deployment, chain, tip>> /\ Past' = Past
      BY <1>2, ProcessFrame DEF Past
    <2>1. Holds(p) /\ Place(p) /\ CursorFinal(0, tip) /\ LedgerFinal(0, tip)
      BY FinalFacts DEF Settled, Places, TypeOK
    <2> DEFINE Shared == /\ acted \subseteq Past /\ stored \subseteq Past /\ dropped \subseteq Past
                         /\ CursorFinal(watermark, tip)
    <2>2. Shared
      BY DEF Settled
    <2> SUFFICES Shared' /\ Holds(p)'
      <3>1. ASSUME NEW q \in Workers, q # p, Holds(q) PROVE Holds(q)'
        BY <1>2, <2>0, <3>1, Others DEF Holds, Fresh
      <3> QED BY <3>1 DEF Settled
    <2>3. CASE Start(p)
      BY <2>0, <2>1, <2>2, <2>3 DEF Start, Goto, Place, Holds, TypeOK, tables, poll
    <2>4. CASE Fetch(p)
      <3>1. Page(Position(p)) \subseteq chain
        BY DEF Page, From
      <3>2. /\ pc'[p] = "fetched" /\ batch'[p] = Page(Position(p)) /\ batch'[p] # {}
            /\ fetchedAt'[p] = tip /\ UNCHANGED <<tables, memory, high, acted, dropped>>
        BY <2>4 DEF Fetch, Goto, TypeOK
      <3>3. Fresh(p)'
        BY <2>0, <3>1, <3>2 DEF Fresh, TypeOK
      <3> QED BY <2>0, <2>1, <2>2, <3>2, <3>3 DEF Holds, tables, memory
    <2>5. CASE NothingReady(p) \/ TipUnknown(p)
      BY <2>0, <2>1, <2>2, <2>5 DEF NothingReady, TipUnknown, Goto, Forget, Holds, TypeOK, tables, memory
    <2>6. CASE TakeBatch(p)
      <3>1. Ready(p) \subseteq Past
        BY <2>1, <2>6, ReadyFacts DEF TakeBatch, Holds
      <3>2. pc'[p] = "handle" /\ batch'[p] \subseteq Ready(p) /\ UNCHANGED <<tables, memory, high, acted, dropped>>
        BY <2>6 DEF TakeBatch, Goto, TypeOK
      <3> QED BY <2>0, <2>1, <2>2, <3>1, <3>2 DEF Holds, tables, memory
    <2>7. CASE Save(p)
      <3>1. pc[p] = "fetched" /\ Fresh(p)
        BY <2>1, <2>7 DEF Save, SaveStart, SaveStartFails, Holds
      <3>2. Ready(p) \subseteq Past
        BY <3>1, ReadyFacts
      <3>3. PICK last \in Ready(p) :
              /\ start' = [start EXCEPT ![p] = last[1] + 1]
              /\ watermark' \in {watermark, last[1] + 1}
              /\ lost'[p] \subseteq lost[p] \cup CutOff(p, last) \cup Ready(p)
              /\ dropped' \subseteq dropped \cup CutOff(p, last) \cup Ready(p)
        BY <2>7 DEF Save, SaveStart, SaveStartFails, tables, TypeOK
      <3>4. CutOff(p, last) \subseteq Past
        BY <3>1, ReadyFacts DEF CutOff
      <3>5. CursorFinal(last[1] + 1, tip)
        BY <3>1, ReadyFacts, FinalFacts DEF TypeOK
      <3>6. start'[p] = last[1] + 1
        BY <3>3 DEF TypeOK
      <3>7. /\ UNCHANGED <<stored, acted>>
            /\ \/ pc'[p] = "handle" /\ batch'[p] = Ready(p) /\ high'[p] = high[p]
               \/ pc'[p] = "idle" /\ high'[p] = 0
        BY <2>7 DEF Save, SaveStart, SaveStartFails, Goto, Forget, tables, TypeOK
      <3>8. lost'[p] \subseteq Past /\ dropped' \subseteq Past
        BY <2>1, <2>2, <3>2, <3>3, <3>4 DEF Holds
      <3>9. CursorFinal(start'[p], tip) /\ CursorFinal(watermark', tip)
        BY <2>2, <3>3, <3>5, <3>6
      <3> QED BY <2>0, <2>1, <2>2, <3>2, <3>7, <3>8, <3>9 DEF Holds
    <2>8. CASE Dispatch(p) \/ HandlerRaises(p) \/ DispatchRaises(p)
      <3>1. batch[p] \subseteq Past
        BY <2>1, <2>8 DEF Dispatch, HandlerRaises, DispatchRaises, Holds
      <3>2. CASE Dispatch(p)
        BY <2>0, <2>1, <2>2, <3>1, <3>2 DEF Dispatch, Holds, TypeOK, tables
      <3>3. CASE HandlerRaises(p)
        BY <2>0, <2>1, <2>2, <3>1, <3>3 DEF HandlerRaises, Goto, Forget, Holds, TypeOK, tables
      <3>4. CASE DispatchRaises(p)
        BY <2>0, <2>1, <2>2, <3>1, <3>4 DEF DispatchRaises, Goto, Forget, Holds, TypeOK, tables
      <3> QED BY <2>8, <3>2, <3>3, <3>4
    <2>9. CASE Dispatched(p)
      BY <2>0, <2>1, <2>2, <2>9 DEF Dispatched, Goto, Forget, Holds, TypeOK, tables, memory
    <2>10. CASE Persist(p)
      <3>1. PICK e \in batch[p] : stored' = stored \cup {e} /\ high'[p] = e[1]
        BY <2>10 DEF Persist, TypeOK
      <3>2. e \in Past /\ LedgerFinal(e[1], tip)
        BY <2>1, <2>10, FinalFacts, EventFacts, ChainEvents DEF Persist, Holds, Past, TypeOK
      <3>3. /\ pc[p] = "handle" /\ pc'[p] = "alert"
            /\ UNCHANGED <<watermark, memory, batch, acted, dropped>>
        BY <2>10 DEF Persist, Goto, TypeOK
      <3> QED BY <2>0, <2>1, <2>2, <3>1, <3>2, <3>3 DEF Holds, Past, memory
    <2>11. CASE Alert(p)
      <3>1. PICK e \in batch[p] : acted' = acted \cup {e} /\ batch'[p] = batch[p] \ {e}
        BY <2>11 DEF Alert, TypeOK
      <3>2. /\ pc[p] = "alert" /\ pc'[p] = "handle"
            /\ UNCHANGED <<tables, memory, high, dropped>>
        BY <2>11 DEF Alert, Goto, TypeOK
      <3> QED BY <2>0, <2>1, <2>2, <3>1, <3>2 DEF Holds, tables, memory
    <2>12. CASE Handled(p)
      BY <2>0, <2>1, <2>2, <2>12 DEF Handled, Goto, Forget, Holds, TypeOK, tables, memory, poll
    <2>13. CASE Advance(p)
      <3>1. watermark' = high[p] /\ pc'[p] = "idle" /\ high'[p] = 0 /\ high[p] \in Nat
            /\ UNCHANGED <<stored, memory, acted, dropped>>
        BY <2>13 DEF Advance, Goto, Forget, TypeOK
      <3>2. CursorFinal(watermark', tip)
        BY <2>1, <3>1, FinalFacts DEF Holds, TypeOK
      <3> QED BY <2>0, <2>1, <2>2, <3>1, <3>2 DEF Holds, memory
    <2>14. CASE BatchFails(p) \/ ParseRaises(p)
      BY <2>0, <2>1, <2>2, <2>14 DEF BatchFails, ParseRaises, Goto, Forget, Holds, TypeOK, tables, memory
    <2>15. CASE Crash(p)
      <3>1. Governance /\ pc[p] = "handle" => batch[p] \subseteq Past
        BY <2>1 DEF Holds
      <3>2. /\ dropped' = IF Governance /\ pc[p] = "handle" THEN dropped \cup batch[p] ELSE dropped
            /\ pc'[p] = "down" /\ start'[p] = 0 /\ high'[p] = 0 /\ lost'[p] = {}
            /\ UNCHANGED <<tables, acted>>
        BY <2>15 DEF Crash, Goto, Forget, TypeOK
      <3> QED BY <2>0, <2>1, <2>2, <3>1, <3>2 DEF Holds, tables
    <2> QED BY <1>2, <2>3, <2>4, <2>5, <2>6, <2>7, <2>8, <2>9, <2>10, <2>11, <2>12, <2>13, <2>14, <2>15
            DEF Poll, Save, Handle, Oracle
  <1>3. CASE UNCHANGED vars
    BY <1>3 DEF vars, ledgers, tables, memory, poll, Settled, Holds, Fresh, Past
  <1> QED BY <1>1, <1>2, <1>3, NextKinds
------------------------------------------------------------------------------
(* The oracle listener *)

Done(e) == e \in acted /\ e \in stored
After(e, es) == \A d \in es : Before(d, e)

\* What a process of the oracle listener has covered: every recognised event is
\* done, in hand, or behind what it has in hand.
OracleHand(p) ==
  /\ pc[p] = "fetched" =>
       \A e \in chain : Recognised(e) /\ e[1] <= fetchedAt[p] - ReorgDepth =>
         Done(e) \/ e \in batch[p] \/ After(e, batch[p])
  /\ pc[p] \in {"handle", "alert", "advance"} =>
       \A e \in chain : Recognised(e) =>
         Done(e) \/ e \in batch[p] \/ (high[p] <= e[1] /\ After(e, batch[p]))
  /\ pc[p] = "alert" => \A e \in batch[p] : IsFirst(e, batch[p]) => e \in stored

\* The part of WatermarkHidesNothing about the oracle listener.
OracleCovered ==
  /\ \A e \in chain : e[1] < watermark /\ Recognised(e) => Done(e)
  /\ \A p \in Workers : OracleHand(p)

\* A new event of the chain is behind all that is final.
LEMMA NewIsBehind ==
  ASSUME TypeOK, NEW e \in Events, e[1] > tip - ReorgDepth
  PROVE  /\ \A n \in Nat : CursorFinal(n, tip) => ~(e[1] < n)
         /\ \A n \in Nat : LedgerFinal(n, tip) => n <= e[1]
         /\ \A es \in SUBSET Past : After(e, es)
  <1> USE Numbers
  <1>1. e[1] \in Nat /\ e[1] > 0 /\ tip \in Nat
    BY EventFacts DEF TypeOK
  <1>2. ASSUME NEW n \in Nat, CursorFinal(n, tip) PROVE ~(e[1] < n)
    BY <1>1, <1>2 DEF CursorFinal
  <1>3. ASSUME NEW n \in Nat, LedgerFinal(n, tip) PROVE n <= e[1]
    BY <1>1, <1>3 DEF LedgerFinal
  <1>4. ASSUME NEW d \in Past PROVE Before(d, e)
    <2>1. d[1] \in Nat /\ d[1] <= tip - ReorgDepth
      BY ChainEvents, EventFacts DEF Past
    <2> QED BY <1>1, <2>1 DEF Before
  <1> QED BY <1>2, <1>3, <1>4 DEF After

\* The chain moves: nothing that was covered is uncovered.
LEMMA OracleChain ==
  ASSUME TypeOK, ChainOK, Places, Settled, OracleCovered, ~Governance, Chain
  PROVE  OracleCovered'
  <1>1. /\ UNCHANGED Untouched /\ watermark \in Nat /\ chain' \subseteq Events
        /\ \A e \in chain' : e \in chain \/ e[1] > tip - ReorgDepth
    <2>1. /\ tip' \in Nat /\ tip' <= MaxLedger
          /\ chain' \subseteq (1 .. tip') \X (Nat \ {0}) \X Kinds
      BY ChainFrame, ChainStep
    <2> QED BY <2>1, ChainFrame, ChainStep, Numbers DEF TypeOK, Events
  <1>2. \A e \in chain' : e[1] < watermark /\ Recognised(e) => Done(e)
    BY <1>1, NewIsBehind DEF OracleCovered, Settled
  <1>3. ASSUME NEW p \in Workers PROVE OracleHand(p)'
    <2>1. OracleHand(p) /\ Holds(p)
      BY DEF OracleCovered, Settled
    <2>2. ASSUME pc[p] = "fetched", NEW e \in chain', Recognised(e),
                 e[1] <= fetchedAt[p] - ReorgDepth
          PROVE  Done(e) \/ e \in batch[p] \/ After(e, batch[p])
      <3>1. e[1] \in Nat /\ fetchedAt[p] \in Nat /\ tip \in Nat /\ fetchedAt[p] <= tip
        BY <1>1, EventFacts DEF TypeOK
      <3>2. e[1] <= tip - ReorgDepth
        BY <2>2, <3>1, Numbers
      <3>3. e \in chain
        BY <1>1, <3>1, <3>2, Numbers
      <3> QED BY <2>1, <2>2, <3>3 DEF OracleHand
    <2>3. ASSUME pc[p] \in {"handle", "alert", "advance"}, NEW e \in chain', Recognised(e)
          PROVE  Done(e) \/ e \in batch[p] \/ (high[p] <= e[1] /\ After(e, batch[p]))
      <3>1. CASE e \in chain
        BY <2>1, <2>3, <3>1 DEF OracleHand
      <3>2. CASE e[1] > tip - ReorgDepth
        <4>1. batch[p] \subseteq Past
          BY <2>1, <2>3 DEF Holds, Places, Place
        <4>2. high[p] \in Nat /\ LedgerFinal(high[p], tip)
          BY <2>1 DEF Holds, TypeOK
        <4> QED BY <1>1, <3>2, <4>1, <4>2, NewIsBehind
      <3> QED BY <1>1, <3>1, <3>2
    <2> QED BY <1>1, <2>1, <2>2, <2>3 DEF OracleHand, Untouched, Done, After
  <1> QED BY <1>1, <1>2, <1>3 DEF OracleCovered, Untouched, Done

\* The page read, and what of it can be handled.
LEMMA OraclePoll ==
  ASSUME TypeOK, ChainOK, Places, Settled, OracleCovered, ~Governance,
         NEW p \in Workers, Fetch(p) \/ TakeBatch(p)
  PROVE  OracleHand(p)'
  <1>0. UNCHANGED <<deployment, chain, tip, acted, stored>>
    BY DEF Fetch, TakeBatch, ledgers, tables
  <1>1. CASE Fetch(p)
    <2>1. /\ pc'[p] = "fetched" /\ batch'[p] = Page(watermark)
          /\ watermark \in Nat
      BY <1>1 DEF Fetch, Goto, Position, TypeOK
    <2>2. ASSUME NEW e \in chain, Recognised(e)
          PROVE  Done(e) \/ e \in Page(watermark) \/ After(e, Page(watermark))
      <3>1. CASE e[1] < watermark
        BY <2>2, <3>1 DEF OracleCovered
      <3>2. CASE ~(e[1] < watermark)
        <4>1. e[1] \in Nat
          BY ChainEvents, EventFacts
        <4>2. e \in From(watermark)
          BY <2>1, <3>2, <4>1 DEF From
        <4> QED BY <2>1, <4>2, PagePrefix DEF After
      <3> QED BY <3>1, <3>2
    <2> QED BY <1>0, <2>1, <2>2 DEF OracleHand, Done, After
  <1>2. CASE TakeBatch(p)
    <2>1. /\ pc[p] = "fetched" /\ Fresh(p) /\ pc'[p] = "handle"
          /\ batch'[p] = {e \in Ready(p) : Recognised(e)} /\ high'[p] = 0
      BY <1>2 DEF TakeBatch, Goto, Settled, Holds, Places, Place, TypeOK
    <2>2. ASSUME NEW e \in chain, Recognised(e)
          PROVE  Done(e) \/ e \in Ready(p) \/ (0 <= e[1] /\ After(e, Ready(p)))
      <3>0. /\ e \in Events /\ e[1] \in Nat /\ tip \in Nat /\ fetchedAt[p] \in Nat
            /\ \A d \in Ready(p) : /\ d[1] \in Nat /\ d[1] <= tip - Depth
                                   /\ d[1] <= fetchedAt[p] - ReorgDepth /\ d \in batch[p]
        BY <2>1, ReadyFacts, ChainEvents, EventFacts DEF TypeOK
      <3>1. CASE ~(e[1] <= fetchedAt[p] - ReorgDepth)
        <4>1. \A d \in Ready(p) : d[1] < e[1]
          BY <3>0, <3>1, Numbers
        <4> QED BY <3>0, <4>1 DEF After, Before
      <3>2. CASE e[1] <= fetchedAt[p] - ReorgDepth
        <4>1. Done(e) \/ e \in batch[p] \/ After(e, batch[p])
          BY <2>1, <2>2, <3>2 DEF OracleCovered, OracleHand
        <4>2. CASE e \in batch[p] /\ e \notin Ready(p)
          <5>1. ~(e[1] <= tip - Depth)
            BY <4>2 DEF Ready, Confirmed
          <5>2. \A d \in Ready(p) : d[1] < e[1]
            BY <3>0, <5>1, Numbers
          <5> QED BY <3>0, <5>2 DEF After, Before
        <4>3. CASE After(e, batch[p])
          BY <3>0, <4>3 DEF After
        <4> QED BY <4>1, <4>2, <4>3
      <3> QED BY <3>1, <3>2
    <2> QED BY <1>0, <2>1, <2>2 DEF OracleHand, Done, After
  <1> QED BY <1>1, <1>2

\* Storing an event, alerting on it, ending the batch.
LEMMA OracleWork ==
  ASSUME TypeOK, ChainOK, Places, Settled, OracleCovered, ~Governance,
         NEW p \in Workers, Persist(p) \/ Alert(p) \/ Handled(p)
  PROVE  OracleHand(p)'
  <1>0. /\ UNCHANGED <<deployment, chain, tip>> /\ OracleHand(p) /\ Place(p)
        /\ batch[p] \subseteq Events
    BY DEF Persist, Alert, Handled, ledgers, OracleCovered, Places, TypeOK
  <1>1. CASE Persist(p)
    <2>1. PICK d \in batch[p] : /\ IsFirst(d, batch[p])
                                /\ stored' = stored \cup {d} /\ high'[p] = d[1]
      BY <1>1 DEF Persist, TypeOK
    <2>2. /\ pc[p] = "handle" /\ pc'[p] = "alert" /\ batch' = batch /\ acted' = acted
      BY <1>1 DEF Persist, Goto, TypeOK
    <2>3. ASSUME NEW e \in batch[p], IsFirst(e, batch[p]) PROVE e = d
      BY <1>0, <2>1, <2>3, Order DEF IsFirst
    <2>4. ASSUME NEW e \in chain, After(e, batch[p]) PROVE d[1] <= e[1]
      BY <1>0, <2>1, <2>4, Order, ChainEvents DEF After
    <2> QED BY <1>0, <2>1, <2>2, <2>3, <2>4 DEF OracleHand, Done, After, IsFirst
  <1>2. CASE Alert(p)
    <2>1. PICK d \in batch[p] : /\ IsFirst(d, batch[p])
                                /\ acted' = acted \cup {d} /\ batch'[p] = batch[p] \ {d}
      BY <1>2 DEF Alert, TypeOK
    <2>2. /\ pc[p] = "alert" /\ pc'[p] = "handle" /\ UNCHANGED <<tables, high>>
      BY <1>2 DEF Alert, Goto, TypeOK
    <2>3. d \in stored
      BY <1>0, <2>1, <2>2 DEF OracleHand
    <2> QED BY <1>0, <2>1, <2>2, <2>3 DEF OracleHand, Done, After, tables
  <1>3. CASE Handled(p)
    <2>1. \/ pc'[p] = "idle"
          \/ pc[p] = "handle" /\ pc'[p] = "advance" /\ UNCHANGED poll
      BY <1>3 DEF Handled, Goto, TypeOK
    <2>2. UNCHANGED <<tables, acted>>
      BY <1>3 DEF Handled
    <2> QED BY <1>0, <2>1, <2>2 DEF OracleHand, Done, After, poll, tables
  <1> QED BY <1>1, <1>2, <1>3

\* No step uncovers an event for the oracle listener.
LEMMA OracleStep ==
  ASSUME TypeOK, ChainOK, Places, Settled, OracleCovered, ~Governance, [Next]_vars
  PROVE  OracleCovered'
  <1>1. CASE Chain
    BY <1>1, OracleChain
  <1>2. ASSUME NEW p \in Workers, Poll(p) \/ Save(p) \/ Handle(p) \/ Oracle(p) \/ Crash(p)
        PROVE  OracleCovered'
    <2>0. UNCHANGED <<deployment, chain, tip>>
      BY <1>2, ProcessFrame
    <2>1. ~Save(p) /\ ~Handle(p)
      BY DEF Save, SaveStart, SaveStartFails, Handle, Dispatch, Dispatched, HandlerRaises, DispatchRaises
    <2>2. stored \subseteq stored' /\ acted \subseteq acted'
      <3>1. CASE Poll(p)
        BY <3>1 DEF Poll, Start, Fetch, NothingReady, TipUnknown, TakeBatch, tables
      <3>2. CASE Oracle(p)
        BY <3>2 DEF Oracle, Persist, Alert, Handled, Advance, BatchFails, ParseRaises, tables
      <3>3. CASE Crash(p)
        BY <3>3 DEF Crash, tables
      <3> QED BY <1>2, <2>1, <3>1, <3>2, <3>3
    <2>3. ASSUME NEW q \in Workers, q # p PROVE OracleHand(q)'
      BY <1>2, <2>0, <2>2, <2>3, Others DEF OracleCovered, OracleHand, Done, After
    <2>4. OracleHand(p)'
      <3>1. CASE Fetch(p) \/ TakeBatch(p)
        BY <3>1, OraclePoll
      <3>2. CASE Persist(p) \/ Alert(p) \/ Handled(p)
        BY <3>2, OracleWork
      <3>3. CASE Start(p) \/ NothingReady(p) \/ TipUnknown(p)
        BY <3>3 DEF Start, NothingReady, TipUnknown, Goto, OracleHand, TypeOK
      <3>4. CASE Advance(p) \/ BatchFails(p) \/ ParseRaises(p) \/ Crash(p)
        BY <3>4 DEF Advance, BatchFails, ParseRaises, Crash, Goto, OracleHand, TypeOK
      <3> QED BY <1>2, <2>1, <3>1, <3>2, <3>3, <3>4 DEF Poll, Oracle
    <2>5. \A e \in chain : e[1] < watermark' /\ Recognised(e) => Done(e)'
      <3>1. CASE watermark' = watermark
        BY <2>2, <3>1 DEF OracleCovered, Done
      <3>2. CASE Advance(p)
        <4>1. /\ watermark' = high[p] /\ batch[p] = {} /\ pc[p] = "advance" /\ high[p] \in Nat
          BY <3>2 DEF Advance, Places, Place, TypeOK
        <4>2. ASSUME NEW e \in chain, Recognised(e), e[1] < high[p] PROVE Done(e)
          <5>1. Done(e) \/ high[p] <= e[1]
            BY <4>1, <4>2 DEF OracleCovered, OracleHand
          <5>2. e[1] \in Nat
            BY ChainEvents, EventFacts
          <5> QED BY <4>1, <4>2, <5>1, <5>2
        <4> QED BY <2>2, <4>1, <4>2 DEF Done
      <3>3. watermark' = watermark \/ Advance(p)
        <4>1. CASE Poll(p)
          BY <4>1 DEF Poll, Start, Fetch, NothingReady, TipUnknown, TakeBatch, tables
        <4>2. CASE Oracle(p)
          BY <4>2 DEF Oracle, Persist, Alert, Handled, BatchFails, ParseRaises, tables
        <4>3. CASE Crash(p)
          BY <4>3 DEF Crash, tables
        <4> QED BY <1>2, <2>1, <4>1, <4>2, <4>3
      <3> QED BY <3>1, <3>2, <3>3
    <2> QED BY <2>0, <2>3, <2>4, <2>5 DEF OracleCovered
  <1>3. CASE UNCHANGED vars
    BY <1>3 DEF vars, ledgers, tables, poll, OracleCovered, OracleHand, Done, After
  <1> QED BY <1>1, <1>2, <1>3, NextKinds

------------------------------------------------------------------------------
(* The governance listener *)

\* Acted on, known to be lost, or still in a process's hands.
Treated(e) == e \in acted \cup dropped \/ \E p \in Running : pc[p] = "handle" /\ e \in batch[p]

\* A page holds every final event from the cursor on, up to where the limit cut it.
PageComplete(p) ==
  pc[p] = "fetched" =>
    /\ \A e \in batch[p] : start[p] <= e[1]
    /\ \A e \in chain :
         start[p] <= e[1] /\ e[1] <= fetchedAt[p] - ReorgDepth =>
           e \in batch[p] \/ (full[p] /\ After(e, batch[p]))

\* No cursor passes an event that was not treated.
GovernanceCovered ==
  /\ \A e \in chain : e[1] < watermark => Treated(e)
  /\ \A p \in Workers : \A e \in chain : e[1] < start[p] => Treated(e)
  /\ \A p \in Workers : PageComplete(p)

\* The chain moves: nothing that was covered is uncovered.
LEMMA GovernanceChain ==
  ASSUME TypeOK, ChainOK, Places, Settled, GovernanceCovered, Chain
  PROVE  GovernanceCovered'
  <1>1. /\ UNCHANGED Untouched /\ watermark \in Nat /\ chain' \subseteq Events
        /\ \A e \in chain' : e \in chain \/ e[1] > tip - ReorgDepth
        /\ start \in [Workers -> Nat]
    <2>1. /\ tip' \in Nat /\ tip' <= MaxLedger
          /\ chain' \subseteq (1 .. tip') \X (Nat \ {0}) \X Kinds
      BY ChainFrame, ChainStep
    <2> QED BY <2>1, ChainFrame, ChainStep, Numbers DEF TypeOK, Events
  <1>2. \A e \in chain' : e[1] < watermark => Treated(e)
    BY <1>1, NewIsBehind DEF GovernanceCovered, Settled
  <1>3. ASSUME NEW p \in Workers, NEW e \in chain', e[1] < start[p] PROVE Treated(e)
    BY <1>1, <1>3, NewIsBehind DEF GovernanceCovered, Settled, Holds
  <1>4. ASSUME NEW p \in Workers PROVE PageComplete(p)'
    <2>1. ASSUME pc[p] = "fetched", NEW e \in chain',
                 start[p] <= e[1], e[1] <= fetchedAt[p] - ReorgDepth
          PROVE  e \in batch[p] \/ (full[p] /\ After(e, batch[p]))
      <3>1. e[1] \in Nat /\ fetchedAt[p] \in Nat /\ tip \in Nat /\ fetchedAt[p] <= tip
        BY <1>1, EventFacts DEF TypeOK
      <3>2. e[1] <= tip - ReorgDepth
        BY <2>1, <3>1, Numbers
      <3>3. e \in chain
        BY <1>1, <3>1, <3>2, Numbers
      <3> QED BY <2>1, <3>3 DEF GovernanceCovered, PageComplete
    <2> QED BY <1>1, <2>1 DEF GovernanceCovered, PageComplete, Untouched, After
  <1> QED BY <1>1, <1>2, <1>3, <1>4 DEF GovernanceCovered, Untouched, Treated, Running

\* Treated once, treated for ever.
LEMMA TreatedStays ==
  ASSUME TypeOK, Places, Governance,
         NEW p \in Workers, Poll(p) \/ Save(p) \/ Handle(p) \/ Oracle(p) \/ Crash(p),
         NEW e, Treated(e)
  PROVE  Treated(e)'
  <1>0. deployment' = deployment
    BY ProcessFrame
  <1>1. CASE \E q \in Running : q # p /\ pc[q] = "handle" /\ e \in batch[q]
    <2>1. PICK q \in Running : q # p /\ pc[q] = "handle" /\ e \in batch[q]
      BY <1>1
    <2>2. q \in Workers
      BY ListenerAssumption DEF Running, TypeOK
    <2>3. pc'[q] = pc[q] /\ batch'[q] = batch[q]
      BY <2>1, <2>2, Others
    <2> QED BY <1>0, <2>1, <2>3 DEF Treated, Running
  <1>2. CASE e \in acted \cup dropped
    <2>1. acted \subseteq acted' /\ dropped \subseteq dropped'
      <3>1. CASE Poll(p)
        BY <3>1 DEF Poll, Start, Fetch, NothingReady, TipUnknown, TakeBatch
      <3>2. CASE Save(p)
        BY <3>2 DEF Save, SaveStart, SaveStartFails
      <3>3. CASE Handle(p)
        BY <3>3 DEF Handle, Dispatch, Dispatched, HandlerRaises, DispatchRaises
      <3>4. CASE Oracle(p)
        BY <3>4 DEF Oracle, Persist, Alert, Handled, Advance, BatchFails, ParseRaises
      <3>5. CASE Crash(p)
        BY <3>5 DEF Crash
      <3> QED BY <3>1, <3>2, <3>3, <3>4, <3>5
    <2> QED BY <1>2, <2>1 DEF Treated
  <1>3. CASE p \in Running /\ pc[p] = "handle" /\ e \in batch[p]
    <2>1. ~Poll(p) /\ ~Save(p)
      BY <1>3 DEF Poll, Start, Fetch, NothingReady, TipUnknown, TakeBatch, Save, SaveStart,
                  SaveStartFails
    <2>2. CASE Handle(p)
      <3>1. CASE Dispatch(p)
        <4>1. \E d \in batch[p] : acted' = acted \cup {d} /\ batch'[p] = batch[p] \ {d}
          BY <3>1 DEF Dispatch, TypeOK
        <4> QED BY <1>0, <1>3, <3>1, <4>1 DEF Dispatch, Treated, Running
      <3>2. CASE Dispatched(p)
        BY <1>3, <3>2 DEF Dispatched
      <3>3. CASE HandlerRaises(p)
        BY <1>3, <3>3 DEF HandlerRaises, Treated
      <3>4. CASE DispatchRaises(p)
        BY <1>3, <3>4 DEF DispatchRaises, Treated
      <3> QED BY <2>2, <3>1, <3>2, <3>3, <3>4 DEF Handle
    <2>3. ~Oracle(p)
      BY <1>3 DEF Oracle, Persist, Alert, Handled, Advance, BatchFails, ParseRaises
    <2>4. CASE Crash(p)
      BY <1>3, <2>4 DEF Crash, Treated
    <2> QED BY <2>1, <2>2, <2>3, <2>4
  <1> QED BY <1>1, <1>2, <1>3 DEF Treated

\* The cursor moves only over what is then in hand or lost.
LEMMA SaveCovers ==
  ASSUME TypeOK, ChainOK, Places, Settled, GovernanceCovered, Governance,
         NEW p \in Workers, Save(p)
  PROVE  /\ \E last \in Ready(p) : /\ start'[p] = last[1] + 1
                                   /\ watermark' \in {watermark, last[1] + 1}
         /\ \A e \in chain : e[1] < start'[p] => Treated(e)'
  <1>0. /\ pc[p] = "fetched" /\ Fresh(p) /\ PageComplete(p) /\ UNCHANGED <<deployment, chain, tip>>
        /\ p \in Running
    BY ProcessFrame DEF Save, SaveStart, SaveStartFails, Settled, Holds, GovernanceCovered, Places,
                        Place
  <1>1. PICK last \in Ready(p) :
          /\ IsLast(last, Ready(p))
          /\ start' = [start EXCEPT ![p] = last[1] + 1]
          /\ watermark' \in {watermark, last[1] + 1}
          /\ CutOff(p, last) \subseteq dropped'
    BY DEF Save, SaveStart, SaveStartFails, tables
  <1>2. \A e \in Ready(p) : Treated(e)'
    <2>1. CASE SaveStart(p)
      BY <1>0, <2>1 DEF SaveStart, Goto, Treated, Running, TypeOK
    <2>2. CASE SaveStartFails(p)
      BY <2>2 DEF SaveStartFails, Treated
    <2> QED BY <2>1, <2>2 DEF Save
  <1>3. /\ start'[p] = last[1] + 1 /\ start[p] \in Nat /\ last \in Events /\ last[1] \in Nat
        /\ last[1] <= tip - Depth /\ last[1] <= fetchedAt[p] - ReorgDepth /\ last \in batch[p]
        /\ tip \in Nat /\ fetchedAt[p] \in Nat
    BY <1>0, <1>1, ReadyFacts DEF TypeOK
  <1>4. ASSUME NEW e \in chain, e[1] < last[1] + 1 PROVE Treated(e)'
    <2>0. e \in Events /\ e[1] \in Nat
      BY ChainEvents, EventFacts
    <2>1. CASE e[1] < start[p]
      BY <2>1, TreatedStays DEF GovernanceCovered
    <2>2. CASE ~(e[1] < start[p])
      <3>1. start[p] <= e[1] /\ e[1] <= last[1]
        BY <1>3, <1>4, <2>0, <2>2
      <3>2. e[1] <= fetchedAt[p] - ReorgDepth /\ e[1] <= tip - Depth
        BY <1>3, <2>0, <3>1, Numbers
      <3>3. CASE e \in batch[p]
        BY <1>2, <3>2, <3>3 DEF Ready, Confirmed
      <3>4. CASE e \notin batch[p]
        <4>1. full[p] /\ Before(last, e)
          BY <1>0, <1>3, <3>1, <3>2, <3>4 DEF PageComplete, After
        <4>2. last[1] <= e[1]
          BY <1>3, <2>0, <4>1, Order
        <4>3. e[1] = last[1]
          BY <1>3, <2>0, <3>1, <4>2
        <4> QED BY <1>1, <3>4, <4>1, <4>3 DEF CutOff, Treated
      <3> QED BY <3>3, <3>4
    <2> QED BY <2>1, <2>2
  <1> QED BY <1>1, <1>3, <1>4

\* No step moves a cursor of the governance listener over an untreated event.
LEMMA GovernanceStep ==
  ASSUME TypeOK, ChainOK, Places, Settled, GovernanceCovered, Governance, [Next]_vars
  PROVE  GovernanceCovered'
  <1>1. CASE Chain
    BY <1>1, GovernanceChain
  <1>2. ASSUME NEW p \in Workers, Poll(p) \/ Save(p) \/ Handle(p) \/ Oracle(p) \/ Crash(p)
        PROVE  GovernanceCovered'
    <2>0. UNCHANGED <<deployment, chain, tip>> /\ \A e : Treated(e) => Treated(e)'
      BY <1>2, ProcessFrame, TreatedStays
    <2>1. \/ start'[p] \in {start[p], 0, watermark} /\ watermark' = watermark
          \/ Save(p)
      <3>1. CASE Poll(p)
        BY <3>1 DEF Poll, Start, Fetch, NothingReady, TipUnknown, TakeBatch, tables, memory, TypeOK
      <3>2. CASE Handle(p)
        BY <3>2 DEF Handle, Dispatch, Dispatched, HandlerRaises, DispatchRaises, tables, memory
      <3>3. CASE Oracle(p)
        <4>1. ~Advance(p)
          BY DEF Advance, Places, Place
        <4> QED BY <3>3, <4>1 DEF Oracle, Persist, Alert, Handled, BatchFails, ParseRaises, tables, memory
      <3>4. CASE Crash(p)
        BY <3>4 DEF Crash, tables, TypeOK
      <3> QED BY <1>2, <3>1, <3>2, <3>3, <3>4
    <2>2. \A e \in chain : e[1] < watermark' => Treated(e)'
      BY <2>0, <2>1, SaveCovers DEF GovernanceCovered
    <2>3. \A e \in chain : e[1] < start'[p] => Treated(e)'
      <3>1. ASSUME NEW e \in chain PROVE ~(e[1] < 0)
        BY ChainEvents, EventFacts
      <3> QED BY <2>0, <2>1, <3>1, SaveCovers DEF GovernanceCovered
    <2>4. PageComplete(p)'
      <3>1. CASE Fetch(p)
        <4>1. /\ pc'[p] = "fetched" /\ batch'[p] = Page(start[p]) /\ start' = start
              /\ full'[p] = (Page(start[p]) # From(start[p])) /\ start[p] \in Nat
          BY <3>1 DEF Fetch, Goto, Position, TypeOK, memory
        <4>2. ASSUME NEW e \in chain, start[p] <= e[1]
              PROVE  \/ e \in Page(start[p])
                     \/ Page(start[p]) # From(start[p]) /\ After(e, Page(start[p]))
          BY <4>1, <4>2, PagePrefix DEF From, After
        <4>3. \A e \in Page(start[p]) : start[p] <= e[1]
          <5>1. \A e \in chain : e[1] \in Nat
            BY ChainEvents, EventFacts
          <5> QED BY <4>1, <5>1 DEF Page, From
        <4> QED BY <2>0, <4>1, <4>2, <4>3 DEF PageComplete, After
      <3>2. CASE ~Fetch(p)
        <4>1. pc'[p] # "fetched"
          <5>1. CASE Poll(p)
            BY <3>2, <5>1 DEF Poll, Start, NothingReady, TipUnknown, TakeBatch, Goto, TypeOK
          <5>2. CASE Save(p)
            BY <5>2 DEF Save, SaveStart, SaveStartFails, Goto, TypeOK
          <5>3. CASE Handle(p)
            BY <5>3 DEF Handle, Dispatch, Dispatched, HandlerRaises, DispatchRaises, Goto, TypeOK
          <5>4. CASE Oracle(p)
            BY <5>4 DEF Oracle, Persist, Alert, Handled, Advance, BatchFails, ParseRaises, Goto, TypeOK
          <5>5. CASE Crash(p)
            BY <5>5 DEF Crash, Goto, TypeOK
          <5> QED BY <1>2, <5>1, <5>2, <5>3, <5>4, <5>5
        <4> QED BY <4>1 DEF PageComplete
      <3> QED BY <3>1, <3>2
    <2>5. ASSUME NEW q \in Workers, q # p
          PROVE  PageComplete(q)' /\ \A e \in chain : e[1] < start'[q] => Treated(e)'
      BY <1>2, <2>0, <2>5, Others DEF GovernanceCovered, PageComplete, After
    <2> QED BY <2>0, <2>2, <2>3, <2>4, <2>5 DEF GovernanceCovered
  <1>3. CASE UNCHANGED vars
    BY <1>3 DEF vars, ledgers, tables, memory, poll, GovernanceCovered, Treated, Running,
                PageComplete, After
  <1> QED BY <1>1, <1>2, <1>3, NextKinds

------------------------------------------------------------------------------
(* is_paused *)

Pauses(e) == e[3] \in {"c_paused", "c_unpaused"}

\* The last of these events is a pause.
EndsPaused(es) == \E e \in es : e[3] = "c_paused" /\ \A d \in es : d = e \/ Before(d, e)

\* The flag is what the events seen tell, and the events in hand come next.
Follows(p) ==
  /\ resumed[p] <= start[p]
  /\ \A e \in lost[p] : e[1] < start[p]
  /\ pc[p] = "handle" =>
       \A e \in batch[p] : /\ resumed[p] <= e[1] /\ e[1] < start[p] /\ e \notin lost[p]
                           /\ After(e, Seen(p))
  /\ pc[p] # "down" => (paused[p] <=> EndsPaused(Seen(p)))

AllFollow == \A p \in Workers : Follows(p)

\* One more event, behind all that were seen.
LEMMA FlagFollows ==
  ASSUME NEW es \in SUBSET Events, NEW e \in Events, After(e, es),
         NEW now \in BOOLEAN, now <=> EndsPaused(es)
  PROVE  /\ Pauses(e) => (Flag(e, now) <=> EndsPaused(es \cup {e}))
         /\ ~Pauses(e) => (Flag(e, now) <=> EndsPaused(es))
  <1>1. ASSUME Pauses(e) PROVE Flag(e, now) <=> EndsPaused(es \cup {e})
    <2>1. CASE e[3] = "c_paused"
      BY <2>1 DEF Flag, EndsPaused, After
    <2>2. CASE e[3] = "c_unpaused"
      <3>1. \A d \in es : ~Before(e, d) /\ d # e
        BY Order DEF After
      <3> QED BY <2>2, <3>1 DEF Flag, EndsPaused
    <2> QED BY <1>1, <2>1, <2>2 DEF Pauses
  <1>2. ~Pauses(e) => (Flag(e, now) <=> EndsPaused(es))
    BY DEF Flag, Pauses
  <1> QED BY <1>1, <1>2

\* What is seen changes with the chain, the cursors and what is in hand or lost.
LEMMA SeenType ==
  ASSUME TypeOK, NEW p \in Workers
  PROVE  Seen(p) \subseteq Events /\ Seen(p) \subseteq chain /\ \A e \in Seen(p) : e[1] < start[p]
  BY ChainEvents DEF Seen

\* The chain moves behind every cursor only.
LEMMA FollowsChain ==
  ASSUME TypeOK, ChainOK, Settled, Chain, NEW p \in Workers, Follows(p)
  PROVE  Follows(p)'
  <1>1. /\ UNCHANGED Untouched /\ chain' \subseteq Events
        /\ \A e \in chain' : e \in chain \/ e[1] > tip - ReorgDepth
        /\ \A e \in Events : e[1] <= tip - ReorgDepth => (e \in chain <=> e \in chain')
        /\ start[p] \in Nat /\ tip \in Nat /\ CursorFinal(start[p], tip)
    <2>1. /\ tip' \in Nat /\ tip' <= MaxLedger
          /\ chain' \subseteq (1 .. tip') \X (Nat \ {0}) \X Kinds
      BY ChainFrame, ChainStep
    <2> QED BY <2>1, ChainFrame, ChainStep, Numbers DEF TypeOK, Events, Settled, Holds
  <1>2. ASSUME NEW e \in Events, e[1] < start[p] PROVE e \in chain <=> e \in chain'
    <2>1. e[1] \in Nat /\ e[1] > 0
      BY EventFacts
    <2>2. e[1] <= tip - ReorgDepth
      BY <1>1, <1>2, <2>1, Numbers DEF CursorFinal
    <2> QED BY <1>1, <2>2
  <1>3. Seen(p)' = Seen(p)
    BY <1>1, <1>2, ChainEvents DEF Seen, Untouched
  <1> QED BY <1>1, <1>3 DEF Follows, Untouched, After

\* The cursor moves over events that are then lost or in hand: what is seen is
\* the same, and comes before what is in hand.
LEMMA FollowsSave ==
  ASSUME TypeOK, ChainOK, Places, Settled, GovernanceCovered, Governance,
         NEW p \in Workers, Save(p), Follows(p)
  PROVE  Follows(p)'
  <1>0. /\ pc[p] = "fetched" /\ Fresh(p) /\ PageComplete(p) /\ UNCHANGED <<chain, tip>>
    BY ProcessFrame DEF Save, SaveStart, SaveStartFails, Settled, Holds, GovernanceCovered
  <1>1. PICK last \in Ready(p) :
          /\ IsLast(last, Ready(p))
          /\ start'[p] = last[1] + 1
          /\ \/ /\ pc'[p] = "handle" /\ batch'[p] = Ready(p)
                /\ lost'[p] = lost[p] \cup CutOff(p, last)
             \/ /\ pc'[p] = "idle" /\ batch'[p] = {}
                /\ lost'[p] = lost[p] \cup CutOff(p, last) \cup Ready(p)
          /\ UNCHANGED <<paused, resumed>>
    <2>1. CASE SaveStart(p)
      BY <2>1 DEF SaveStart, Goto, TypeOK
    <2>2. CASE SaveStartFails(p)
      BY <2>2 DEF SaveStartFails, Goto, Forget, TypeOK
    <2> QED BY <2>1, <2>2 DEF Save
  <1>2. /\ start[p] \in Nat /\ last \in Events /\ last[1] \in Nat /\ resumed[p] \in Nat
        /\ last[1] <= tip - Depth /\ last[1] <= fetchedAt[p] - ReorgDepth /\ last \in batch[p]
        /\ tip \in Nat /\ fetchedAt[p] \in Nat /\ start[p] <= last[1] /\ resumed[p] <= start[p]
        /\ \A e \in batch[p] : start[p] <= e[1]
    BY <1>0, <1>1, ReadyFacts DEF TypeOK, PageComplete, Follows
  <1>3. ASSUME NEW e \in Ready(p)
        PROVE  /\ e \in Events /\ e[1] \in Nat /\ start[p] <= e[1] /\ e[1] < last[1] + 1
               /\ e[1] <= last[1]
    <2>1. e \in Events /\ e[1] \in Nat /\ start[p] <= e[1]
      BY <1>0, <1>2, <1>3, ReadyFacts
    <2>2. e[1] <= last[1]
      BY <1>1, <1>2, <1>3, <2>1, Order DEF IsLast
    <2> QED BY <1>2, <2>1, <2>2
  <1>4. ASSUME NEW e \in chain, start[p] <= e[1], e[1] < last[1] + 1
        PROVE  e \in Ready(p) \/ e \in CutOff(p, last)
    <2>0. e \in Events /\ e[1] \in Nat
      BY ChainEvents, EventFacts
    <2>1. e[1] <= last[1]
      BY <1>2, <1>4, <2>0
    <2>2. e[1] <= fetchedAt[p] - ReorgDepth /\ e[1] <= tip - Depth
      BY <1>2, <2>0, <2>1, Numbers
    <2>3. CASE e \in batch[p]
      BY <2>2, <2>3 DEF Ready, Confirmed
    <2>4. CASE e \notin batch[p]
      <3>1. full[p] /\ Before(last, e)
        BY <1>0, <1>2, <1>4, <2>2, <2>4 DEF PageComplete, After
      <3>2. last[1] <= e[1]
        BY <1>2, <2>0, <3>1, Order
      <3>3. e[1] = last[1]
        BY <1>2, <2>0, <2>1, <3>2
      <3> QED BY <2>4, <3>1, <3>3 DEF CutOff
    <2> QED BY <2>3, <2>4
  <1>5. Seen(p)' = Seen(p)
    <2>0. \A e \in chain : e[1] \in Nat
      BY ChainEvents, EventFacts
    <2>1. ASSUME NEW e \in chain, e[1] < start[p]
          PROVE  /\ e \notin batch[p] /\ e \notin Ready(p) /\ e \notin CutOff(p, last)
                 /\ e[1] < last[1] + 1
      <3>1. e \notin batch[p] /\ ~(e[1] = last[1]) /\ e[1] < last[1] + 1
        BY <1>2, <2>0, <2>1
      <3> QED BY <3>1 DEF Ready, CutOff
    <2>2. ASSUME NEW e \in chain, ~(e[1] < start[p]), e[1] < last[1] + 1,
                 e \notin lost'[p], e \notin batch'[p]
          PROVE  FALSE
      <3>1. start[p] <= e[1]
        BY <1>2, <2>0, <2>2
      <3> QED BY <1>1, <1>4, <2>2, <3>1
    <2>3. ASSUME NEW e \in chain
          PROVE  (e[1] < start[p] /\ e \notin lost[p] \cup batch[p])
                   <=> (e[1] < last[1] + 1 /\ e \notin lost'[p] \cup batch'[p])
      BY <1>1, <2>1, <2>2
    <2>4. ASSUME NEW e \in chain
          PROVE  (e[1] < start[p] /\ e \notin lost[p] \cup batch[p])
                   <=> (e[1] < start'[p] /\ e \notin lost'[p] \cup batch'[p])
      BY <1>1, <2>3
    <2> QED BY <1>0, <1>1, <2>4 DEF Seen
  <1>6. \A e \in Ready(p) : After(e, Seen(p))
    <2> SUFFICES ASSUME NEW e \in Ready(p), NEW d \in Seen(p) PROVE d[1] < e[1]
      BY DEF After, Before
    <2>1. d[1] < start[p] /\ d[1] \in Nat
      BY SeenType, EventFacts
    <2> QED BY <1>2, <1>3, <2>1
  <1>7. \A e \in Ready(p) : e \notin lost[p] \cup CutOff(p, last)
    <2>1. \A e \in Ready(p) : e \in batch[p] /\ start[p] <= e[1] /\ e[1] \in Nat
      BY <1>3 DEF Ready
    <2>2. \A e \in lost[p] : e[1] < start[p]
      BY DEF Follows
    <2>3. \A e \in Ready(p) : e \notin lost[p]
      BY <1>2, <2>1, <2>2
    <2> QED BY <2>1, <2>3 DEF CutOff
  <1>8. resumed[p] <= last[1] + 1 /\ \A e \in Ready(p) : resumed[p] <= e[1]
    BY <1>2, <1>3
  <1>9. \A e \in lost[p] \cup CutOff(p, last) \cup Ready(p) : e[1] < last[1] + 1
    <2>1. ASSUME NEW e \in lost[p] PROVE e[1] < last[1] + 1
      <3>1. e[1] \in Nat /\ e[1] < start[p]
        BY EventFacts DEF TypeOK, Follows
      <3> QED BY <1>2, <3>1
    <2> QED BY <1>2, <1>3, <2>1 DEF CutOff
  <1>10. /\ resumed'[p] <= start'[p] /\ \A e \in lost'[p] : e[1] < start'[p]
    BY <1>1, <1>8, <1>9
  <1>11. paused'[p] <=> EndsPaused(Seen(p)')
    BY <1>0, <1>1, <1>5 DEF Follows
  <1>12. pc'[p] = "handle" =>
           \A e \in batch'[p] : /\ resumed'[p] <= e[1] /\ e[1] < start'[p] /\ e \notin lost'[p]
                                /\ After(e, Seen(p)')
    BY <1>1, <1>3, <1>5, <1>6, <1>7, <1>8
  <1> QED BY <1>10, <1>11, <1>12 DEF Follows, EndsPaused, After

\* A poll that moves no cursor.
LEMMA FollowsPoll ==
  ASSUME TypeOK, ChainOK, Places, GovernanceCovered, Governance,
         NEW p \in Workers, Poll(p), Follows(p)
  PROVE  Follows(p)'
  <1>0. /\ UNCHANGED chain /\ PageComplete(p) /\ Place(p) /\ start[p] \in Nat
        /\ \A e \in chain : e[1] \in Nat
    BY ProcessFrame, ChainEvents, EventFacts DEF GovernanceCovered, Places, TypeOK
  <1>1. CASE Start(p)
    <2>1. /\ resumed'[p] = start'[p] /\ start'[p] \in Nat /\ ~paused'[p]
          /\ lost'[p] = {} /\ pc'[p] = "idle"
      BY <1>0, <1>1 DEF Start, Goto, Place, TypeOK
    <2>2. Seen(p)' = {}
      BY <1>0, <2>1 DEF Seen
    <2> QED BY <2>1, <2>2 DEF Follows, EndsPaused
  <1>2. CASE ~Start(p)
    <2>1. /\ UNCHANGED memory /\ pc[p] \in {"idle", "fetched"} /\ pc'[p] \in {"idle", "fetched"}
          /\ \/ batch'[p] = {}
             \/ pc[p] = "idle" /\ batch'[p] = Page(start[p])
      BY <1>2 DEF Poll, Fetch, NothingReady, TipUnknown, TakeBatch, Goto, Forget, Position, TypeOK
    <2>2. \A e \in chain : e \in batch[p] \/ e \in batch'[p] => start[p] <= e[1]
      BY <1>0, <2>1 DEF PageComplete, Place, Page, From
    <2>3. \A e \in chain : e[1] < start[p] => e \notin batch[p] /\ e \notin batch'[p]
      BY <1>0, <2>2
    <2>4. Seen(p)' = Seen(p)
      BY <1>0, <2>1, <2>3 DEF Seen, memory
    <2> QED BY <2>1, <2>4 DEF Follows, memory
  <1> QED BY <1>1, <1>2

\* Handling an event: it is seen, and the flag follows.
LEMMA FollowsHandle ==
  ASSUME TypeOK, ChainOK, Places, Settled, Governance,
         NEW p \in Workers, Handle(p), Follows(p)
  PROVE  Follows(p)'
  <1>0. /\ UNCHANGED chain /\ pc[p] = "handle" /\ batch[p] \subseteq Past
        /\ batch[p] \subseteq Events /\ Past \subseteq chain
        /\ paused[p] \in BOOLEAN /\ (paused[p] <=> EndsPaused(Seen(p)))
    BY ProcessFrame DEF Handle, Dispatch, Dispatched, HandlerRaises, DispatchRaises, Settled, Holds, Past, Follows,
                        TypeOK
  <1>1. CASE Dispatched(p)
    <2>1. batch[p] = {} /\ batch'[p] = {} /\ pc'[p] = "idle" /\ UNCHANGED memory
      BY <1>1 DEF Dispatched, Goto, Forget, TypeOK
    <2>2. Seen(p)' = Seen(p)
      BY <1>0, <2>1 DEF Seen, memory
    <2> QED BY <1>0, <2>1, <2>2 DEF Follows, memory
  <1>2. CASE DispatchRaises(p)
    <2>1. /\ batch'[p] = {} /\ lost'[p] = lost[p] \cup batch[p] /\ pc'[p] = "idle"
          /\ UNCHANGED <<start, paused, resumed>>
      BY <1>2 DEF DispatchRaises, Goto, Forget, TypeOK
    <2>2. Seen(p)' = Seen(p)
      BY <1>0, <2>1 DEF Seen
    <2> QED BY <1>0, <2>1, <2>2 DEF Follows
  <1>3. CASE Dispatch(p) \/ HandlerRaises(p)
    <2>1. PICK e \in batch[p] :
            /\ IsFirst(e, batch[p])
            /\ paused'[p] = Flag(e, paused[p])
            /\ UNCHANGED <<start, resumed>>
            /\ \/ batch'[p] = batch[p] \ {e} /\ lost'[p] = lost[p] /\ pc'[p] = "handle"
               \/ batch'[p] = {} /\ lost'[p] = lost[p] \cup (batch[p] \ {e}) /\ pc'[p] = "idle"
      <3>1. CASE Dispatch(p)
        BY <1>0, <3>1 DEF Dispatch, TypeOK
      <3>2. CASE HandlerRaises(p)
        BY <3>2 DEF HandlerRaises, Goto, Forget, TypeOK
      <3> QED BY <1>3, <3>1, <3>2
    <2>2. Seen(p)' = IF Pauses(e) THEN Seen(p) \cup {e} ELSE Seen(p)
      <3>1. e \in chain /\ resumed[p] <= e[1] /\ e[1] < start[p] /\ e \notin lost[p]
        BY <1>0, <2>1 DEF Follows
      <3>2. \A d \in chain : /\ (d \notin lost'[p] /\ d \notin batch'[p])
                                  <=> (d \notin lost[p] /\ (d \notin batch[p] \/ d = e))
        BY <2>1, <3>1
      <3> QED BY <1>0, <2>1, <3>1, <3>2 DEF Seen, Pauses
    <2>3. After(e, Seen(p))
      BY <1>0, <2>1 DEF Follows
    <2>4. paused'[p] <=> EndsPaused(Seen(p)')
      <3>1. CASE Pauses(e)
        <4>1. Flag(e, paused[p]) <=> EndsPaused(Seen(p) \cup {e})
          BY <1>0, <2>1, <2>3, <3>1, SeenType, FlagFollows
        <4>2. Seen(p)' = Seen(p) \cup {e}
          BY <2>2, <3>1
        <4> QED BY <2>1, <4>1, <4>2
      <3>2. CASE ~Pauses(e)
        <4>1. Flag(e, paused[p]) <=> EndsPaused(Seen(p))
          BY <1>0, <2>1, <2>3, <3>2, SeenType, FlagFollows
        <4>2. Seen(p)' = Seen(p)
          BY <2>2, <3>2
        <4> QED BY <2>1, <4>1, <4>2
      <3> QED BY <3>1, <3>2
    <2>5. ASSUME NEW d \in batch[p], d # e, NEW s \in Seen(p) \cup {e} PROVE Before(s, d)
      <3>1. Before(e, d)
        BY <2>1, <2>5 DEF IsFirst
      <3>2. CASE s \in Seen(p)
        BY <1>0, <2>5, <3>2 DEF Follows, After
      <3> QED BY <2>5, <3>1, <3>2
    <2>6. pc'[p] = "handle" =>
            \A d \in batch'[p] : /\ resumed'[p] <= d[1] /\ d[1] < start'[p] /\ d \notin lost'[p]
                                 /\ After(d, Seen(p)')
      <3> SUFFICES ASSUME pc'[p] = "handle", NEW d \in batch'[p]
                   PROVE  /\ resumed'[p] <= d[1] /\ d[1] < start'[p] /\ d \notin lost'[p]
                          /\ After(d, Seen(p)')
        OBVIOUS
      <3>1. d \in batch[p] /\ d # e /\ lost'[p] = lost[p]
        BY <2>1
      <3>2. After(d, Seen(p)')
        BY <2>2, <2>5, <3>1 DEF After
      <3> QED BY <1>0, <2>1, <3>1, <3>2 DEF Follows
    <2>7. resumed'[p] <= start'[p] /\ \A d \in lost'[p] : d[1] < start'[p]
      BY <1>0, <2>1 DEF Follows
    <2> QED BY <2>4, <2>6, <2>7 DEF Follows, EndsPaused, After
  <1> QED BY <1>1, <1>2, <1>3 DEF Handle

\* In every step the flag follows what is seen.
LEMMA FollowsStep ==
  ASSUME TypeOK, ChainOK, Places, Settled, GovernanceCovered, AllFollow, Governance, [Next]_vars
  PROVE  AllFollow'
  <1>1. CASE Chain
    BY <1>1, FollowsChain DEF AllFollow
  <1>2. ASSUME NEW p \in Workers, Poll(p) \/ Save(p) \/ Handle(p) \/ Oracle(p) \/ Crash(p)
        PROVE  AllFollow'
    <2>0. UNCHANGED chain
      BY <1>2, ProcessFrame
    <2>1. ~Oracle(p)
      BY DEF Oracle, Persist, Alert, Handled, Advance, BatchFails, ParseRaises, Places, Place
    <2>2. CASE Crash(p)
      <3>1. start'[p] = 0 /\ resumed'[p] = 0 /\ lost'[p] = {} /\ pc'[p] = "down"
        BY <2>2 DEF Crash, Goto, TypeOK
      <3> QED BY <1>2, <2>0, <3>1, Others DEF AllFollow, Follows, Seen, EndsPaused, After
    <2>3. Follows(p) /\ (Poll(p) \/ Save(p) \/ Handle(p) => Follows(p)')
      BY FollowsPoll, FollowsSave, FollowsHandle DEF AllFollow
    <2>4. ASSUME NEW q \in Workers, q # p PROVE Follows(q)'
      <3>1. Seen(q)' = Seen(q)
        BY <1>2, <2>0, <2>4, Others DEF Seen
      <3> QED BY <1>2, <2>4, <3>1, Others DEF AllFollow, Follows, EndsPaused, After
    <2> QED BY <1>2, <2>1, <2>2, <2>3, <2>4 DEF AllFollow
  <1>3. CASE UNCHANGED vars
    BY <1>3 DEF vars, ledgers, memory, poll, AllFollow, Follows, Seen, EndsPaused, After
  <1> QED BY <1>1, <1>2, <1>3, NextKinds
------------------------------------------------------------------------------
(* The theorems *)

IInv ==
  /\ TypeOK /\ ChainOK /\ Places /\ Settled
  /\ ~Governance => OracleCovered
  /\ Governance => GovernanceCovered /\ AllFollow

\* The listeners start with an empty chain.
LEMMA InitIInv == Init => IInv
  <1> SUFFICES ASSUME Init PROVE IInv
    OBVIOUS
  <1> USE Numbers DEF Init
  <1>1. TypeOK
    BY DEF TypeOK, Events
  <1>2. ChainOK
    BY FS_EmptySet DEF ChainOK
  <1>3. Places
    BY DEF Places, Place
  <1>4. Settled
    BY DEF Settled, Holds, CursorFinal, LedgerFinal
  <1>5. OracleCovered
    BY DEF OracleCovered, OracleHand
  <1>6. GovernanceCovered /\ AllFollow
    BY DEF GovernanceCovered, PageComplete, AllFollow, Follows, Seen, EndsPaused
  <1> QED BY <1>1, <1>2, <1>3, <1>4, <1>5, <1>6 DEF IInv

\* Every step of the chain or of a process keeps it.
LEMMA StepIInv == IInv /\ [Next]_vars => IInv'
  <1> SUFFICES ASSUME IInv, [Next]_vars PROVE IInv'
    OBVIOUS
  <1>1. TypeOK' /\ Places' /\ Settled'
    BY TypeStep, PlacesStep, SettledStep DEF IInv
  <1>2. ChainOK'
    <2>1. CASE Chain
      BY <2>1, ChainStep DEF IInv
    <2>2. CASE chain' = chain
      BY <2>2 DEF IInv, ChainOK
    <2>3. Chain \/ chain' = chain
      BY NextKinds, ProcessFrame DEF vars, ledgers
    <2> QED BY <2>1, <2>2, <2>3
  <1>3. Governance' = Governance
    <2>1. CASE Chain
      BY <2>1, ChainFrame DEF IInv, Untouched, Governance
    <2>2. CASE deployment' = deployment
      BY <2>2 DEF Governance
    <2>3. Chain \/ deployment' = deployment
      BY NextKinds, ProcessFrame DEF vars
    <2> QED BY <2>1, <2>2, <2>3
  <1>4. ~Governance => OracleCovered'
    BY OracleStep DEF IInv
  <1>5. Governance => GovernanceCovered' /\ AllFollow'
    BY GovernanceStep, FollowsStep DEF IInv
  <1> QED BY <1>1, <1>2, <1>3, <1>4, <1>5 DEF IInv

LEMMA AlwaysIInv == Spec => []IInv
  BY InitIInv, StepIInv, PTL DEF Spec

\* Every variable keeps to its range.
THEOREM TypeCorrect == Spec => []TypeOK
  <1>1. IInv => TypeOK
    BY DEF IInv
  <1> QED BY <1>1, AlwaysIInv, PTL

\* split_confirmed: whatever a listener handled, stored or alerted on stays on
\* the chain, although the tip it is judged by is read after the page.
THEOREM FinalOnly == Spec => []ActsOnFinalEventsOnly
  <1>1. IInv => ActsOnFinalEventsOnly
    BY DEF IInv, Settled, Past, ActsOnFinalEventsOnly
  <1> QED BY <1>1, AlwaysIInv, PTL

\* set_watermark: the cursor that is saved hides no event from any process that
\* resumes from it, but those known to be in hand or dropped.
THEOREM NothingHidden == Spec => []WatermarkHidesNothing
  <1>1. IInv => WatermarkHidesNothing
    BY DEF IInv, OracleCovered, Done, GovernanceCovered, Treated, WatermarkHidesNothing
  <1> QED BY <1>1, AlwaysIInv, PTL

\* is_paused: between polls it is what the events up to the cursor tell.
THEOREM PausedCorrect == Spec => []PausedFollowsChain
  <1>1. IInv => PausedFollowsChain
    BY ListenerAssumption
       DEF IInv, AllFollow, Follows, EndsPaused, PausedFollowsChain, Running, TypeOK
  <1> QED BY <1>1, AlwaysIInv, PTL
==============================================================================
