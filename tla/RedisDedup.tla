------------------------------ MODULE RedisDedup -----------------------------
(***************************************************************************)
(* RedisExactlyOnceBackend (pipeline/exactly_once.py): each Redis command  *)
(* is one step.  check_and_stage is SET NX and, when that finds the key    *)
(* taken, a separate GET; keys expire; a command that raises may or may    *)
(* not have been executed.                                                 *)
(***************************************************************************)
EXTENDS DedupCallers

\* Faulty variant of SetNX: GET-then-SET, the claim is not exclusive.
SetWithoutNX(c) ==
  /\ pc[c] = "idle"
  /\ \/ entry # "committed" /\ Claim(c)
     \/ entry = "committed" /\ Goto(c, "get") /\ UNCHANGED <<entry, answer, claimants>>
  /\ UNCHANGED <<setup, seen, committed>>

\* SET key STAGED NX EX ttl
SetNX(c) ==
  /\ pc[c] = "idle"
  /\ \/ entry = "none" /\ Claim(c)
     \/ entry # "none" /\ Goto(c, "get") /\ UNCHANGED <<entry, answer, claimants>>
  /\ UNCHANGED <<setup, seen, committed>>

\* GET key: COMMITTED, or else safe to redo.
Get(c) ==
  /\ pc[c] = "get"
  /\ Answer(c, IF entry = "committed" THEN "committed" ELSE "staged")
  /\ UNCHANGED <<setup, entry, seen, committed, claimants>>

\* SET key COMMITTED EX 86400, after the work or with no check_and_stage before
\* it (SeenEventCache.cache_trade).
Commit(c) ==
  /\ pc[c] \in {"work", "idle"}
  /\ entry' = "committed"
  /\ committed' = TRUE
  /\ Return(c)
  /\ UNCHANGED <<setup, seen, claimants>>

\* DELETE key
MarkFailed(c) ==
  /\ marks
  /\ pc[c] = "work"
  /\ entry' = "none"
  /\ claimants' = {}
  /\ Return(c)
  /\ UNCHANGED <<setup, seen, committed>>

\* SET NX raises DedupBackendUnavailableError although Redis executed it.
StageLost(c) ==
  /\ pc[c] = "idle"
  /\ entry = "none"
  /\ entry' = "staged"
  /\ UNCHANGED <<setup, pc, seen, answer, committed, claimants>>

\* The key's TTL passes, or scan_delete removes it.
Expire ==
  /\ entry # "none"
  /\ entry' = "none"
  /\ claimants' = {}
  /\ UNCHANGED <<setup, pc, seen, answer, committed>>

\* A commit or DELETE that raises is that command, or Crash if Redis did not
\* execute it: either way the caller leaves with nothing.
RedisNext ==
  \/ \E c \in Callers :
       \/ SetNX(c) \/ Get(c) \/ Skip(c) \/ Commit(c) \/ MarkFailed(c)
       \/ StageLost(c) \/ Crash(c)
  \/ Expire
==============================================================================
