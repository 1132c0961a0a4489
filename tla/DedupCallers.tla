---------------------------- MODULE DedupCallers -----------------------------
(***************************************************************************)
(* The state shared by the two exactly-once backends of                    *)
(* pipeline/exactly_once.py, for one DedupKey: the stored entry, and the   *)
(* threads and processes using it.  A caller does what                     *)
(* SeenEventCache.is_duplicate, KafkaWorker and the alert ledger do:       *)
(* check_and_stage, nothing more if the answer was COMMITTED, otherwise    *)
(* the work and then commit, or mark_failed.                               *)
(***************************************************************************)
CONSTANTS Callers    \* threads and processes using the same key

VARIABLES
  backend,    \* the backend the store was built with: "redis" or "sql"
  marks,      \* whether the callers of this store use mark_failed
  entry,      \* the stored state of the key; "stale" is a commit past its TTL
  pc,         \* pc[c]: the command or statement of c that comes next
  seen,       \* seen[c]: what the last SELECT of c returned
  answer,     \* answer[c]: the DedupState c is acting on, or "none"
  committed,  \* history: a commit of the key has taken effect
  claimants   \* history: callers told NEW since the key was last freed

vars == <<backend, marks, entry, pc, seen, answer, committed, claimants>>
setup == <<backend, marks>>

Entries == {"none", "staged", "committed", "stale", "failed"}
Written == {"committed", "stale"}

Goto(c, label) == pc' = [pc EXCEPT ![c] = label]

\* check_and_stage returns a decision.
Answer(c, decision) ==
  /\ answer' = [answer EXCEPT ![c] = decision]
  /\ Goto(c, IF decision = "committed" THEN "skip" ELSE "work")

Return(c) ==
  /\ Goto(c, "idle")
  /\ answer' = [answer EXCEPT ![c] = "none"]

\* The key is claimed for c, which is told NEW.
Claim(c) ==
  /\ entry' = "staged"
  /\ Answer(c, "new")
  /\ claimants' = claimants \cup {c}

\* The caller does nothing more for a COMMITTED key.
Skip(c) ==
  /\ pc[c] = "skip"
  /\ Return(c)
  /\ UNCHANGED <<setup, entry, seen, committed, claimants>>

\* The process dies between two commands, or an exception ends the call.
Crash(c) ==
  /\ pc[c] # "idle"
  /\ Return(c)
  /\ UNCHANGED <<setup, entry, seen, committed, claimants>>
==============================================================================
