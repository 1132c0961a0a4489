-------------------------- MODULE ExactlyOnceStore ---------------------------
(***************************************************************************)
(* ExactlyOnceStore (pipeline/exactly_once.py): the facade over one of the *)
(* two backends, for one key and the callers racing on it.  The backend is *)
(* chosen when the store is built, and so is whether its callers use       *)
(* mark_failed.                                                            *)
(***************************************************************************)
EXTENDS RedisDedup, SqlDedup

TypeOK ==
  /\ backend \in {"redis", "sql"}
  /\ marks \in BOOLEAN
  /\ entry \in Entries
  /\ pc \in [Callers -> {"idle", "get", "insert", "reread", "reclaim", "work", "skip", "commit",
                         "save", "resave", "overwrite", "failing", "fail"}]
  /\ seen \in [Callers -> Entries]
  /\ answer \in [Callers -> {"none", "new", "staged", "committed", "reverify"}]
  /\ committed \in BOOLEAN
  /\ claimants \in SUBSET Callers

Init ==
  /\ backend \in {"redis", "sql"}
  /\ marks \in BOOLEAN
  /\ entry = "none"
  /\ pc = [c \in Callers |-> "idle"]
  /\ seen = [c \in Callers |-> "none"]
  /\ answer = [c \in Callers |-> "none"]
  /\ committed = FALSE
  /\ claimants = {}

Next ==
  \/ backend = "redis" /\ RedisNext
  \/ backend = "sql" /\ SqlNext

Spec == Init /\ [][Next]_vars

------------------------------------------------------------------------------
(* Properties *)

\* The one case in which a claim is a check-then-act race: re-claiming a row
\* that mark_failed wrote.
Racy == backend = "sql" /\ marks

\* Both backends, although their operations are several commands or statements
\* that other callers, expiry, lost replies, retries and crashes come between,
\* behave as one atomic register; only a SQL store whose callers use
\* mark_failed does not claim exclusively.
Register == INSTANCE DedupRegister
  WITH state <- CASE entry \in {"none", "failed"} -> "free"
                  [] entry = "staged" -> "staged"
                  [] OTHER -> "committed",
       exclusive <- ~Racy
ImplementsRegister == Register!Spec

\* No caller skips the work (COMMITTED) or reports it as done earlier
\* (TTL_EXPIRED_REVERIFY) unless a commit of the key really took effect.
DuplicateMeansCommitted ==
  \A c \in Callers : answer[c] \in {"committed", "reverify"} => committed

\* In a SQL store without mark_failed, once a commit took effect the key stays
\* committed, whatever statement of an earlier attempt arrives late.
CommittedIsFinal == backend = "sql" /\ ~marks /\ committed => entry \in Written

\* "exactly one caller observes NEW, every other concurrent caller observes
\* STAGED (or COMMITTED, if the winner finished first)" (exactly_once.py:401):
\* at most one caller is told to start until the key is freed again.
OneClaimant == \A c, d \in claimants : c = d

\* OneClaimant on both backends, but for the one racy case.
OneClaimantUnlessRacy == ~Racy => OneClaimant
==============================================================================
