------------------------------- MODULE SqlDedup ------------------------------
(***************************************************************************)
(* SqlExactlyOnceBackend (pipeline/exactly_once.py): each SQL statement is *)
(* one step.  The SELECT of an operation and the INSERT or UPDATE that     *)
(* follows it are separate, the UNIQUE constraint refuses a second INSERT, *)
(* and an UPDATE is by primary key and carries no condition on what the    *)
(* SELECT saw.                                                             *)
(***************************************************************************)
EXTENDS DedupCallers

See(c) == seen' = [seen EXCEPT ![c] = entry]

------------------------------------------------------------------------------
(* check_and_stage *)

\* Faulty variant of Select: an expired commit is treated as a free key.
SelectRerunsStale(c) ==
  /\ pc[c] = "idle"
  /\ See(c)
  /\ \/ entry = "none" /\ Goto(c, "insert") /\ UNCHANGED answer
     \/ entry \in {"failed", "stale"} /\ Goto(c, "reclaim") /\ UNCHANGED answer
     \/ entry = "committed" /\ Answer(c, "committed")
     \/ entry = "staged" /\ Answer(c, "staged")
  /\ UNCHANGED <<setup, entry, committed, claimants>>

Select(c) ==
  /\ pc[c] = "idle"
  /\ See(c)
  /\ \/ entry = "none" /\ Goto(c, "insert") /\ UNCHANGED answer
     \/ entry = "failed" /\ Goto(c, "reclaim") /\ UNCHANGED answer
     \/ entry = "committed" /\ Answer(c, "committed")
     \/ entry = "stale" /\ Answer(c, "reverify")
     \/ entry = "staged" /\ Answer(c, "staged")
  /\ UNCHANGED <<setup, entry, committed, claimants>>

\* INSERT, or IntegrityError when another caller inserted first.
Insert(c) ==
  /\ pc[c] = "insert"
  /\ \/ entry = "none" /\ Claim(c)
     \/ entry # "none" /\ Goto(c, "reread") /\ UNCHANGED <<entry, answer, claimants>>
  /\ UNCHANGED <<setup, seen, committed>>

\* Faulty variant of Reread: the state of the row is returned as it is.
RereadRaw(c) ==
  /\ pc[c] = "reread"
  /\ See(c)
  /\ Answer(c, entry)
  /\ UNCHANGED <<setup, entry, committed, claimants>>

\* Faulty variant of Reread: losing the race means the work is done.
RereadIsDuplicate(c) ==
  /\ pc[c] = "reread"
  /\ See(c)
  /\ Answer(c, "committed")
  /\ UNCHANGED <<setup, entry, committed, claimants>>

\* After the rollback: COMMITTED if the winner has finished, STAGED if not.
Reread(c) ==
  /\ pc[c] = "reread"
  /\ See(c)
  /\ Answer(c, IF entry \in Written THEN "committed" ELSE "staged")
  /\ UNCHANGED <<setup, entry, committed, claimants>>

\* UPDATE of a row that was FAILED when it was selected.
Reclaim(c) ==
  /\ pc[c] = "reclaim"
  /\ Claim(c)
  /\ UNCHANGED <<setup, seen, committed>>

------------------------------------------------------------------------------
(* commit and mark_failed *)

\* The SELECT of commit, after the work or with no check_and_stage before it.
BeginCommit(c) ==
  /\ pc[c] \in {"work", "idle", "commit"}
  /\ See(c)
  /\ Goto(c, IF entry = "none" THEN "save" ELSE "overwrite")
  /\ UNCHANGED <<setup, entry, answer, committed, claimants>>

SaveRow ==
  /\ entry' = "committed"
  /\ committed' = TRUE
  /\ UNCHANGED claimants

\* commit INSERTs the row, or is refused and reads the winner's row.
Save(c) ==
  /\ pc[c] = "save"
  /\ \/ entry = "none" /\ SaveRow /\ Return(c)
     \/ entry # "none" /\ Goto(c, "resave") /\ UNCHANGED <<entry, answer, committed, claimants>>
  /\ UNCHANGED <<setup, seen>>

Resave(c) ==
  /\ pc[c] = "resave"
  /\ See(c)
  /\ Goto(c, "overwrite")
  /\ UNCHANGED <<setup, entry, answer, committed, claimants>>

\* Faulty variant of OverwriteRow: a row read as committed is staged again.
OverwriteRowToggles(c) ==
  /\ entry' = IF seen[c] \in Written THEN "staged" ELSE "committed"
  /\ committed' = TRUE
  /\ UNCHANGED claimants

\* commit UPDATEs the row.  The session writes the columns that changed, so a
\* row that was read as committed keeps the state it has by now.
OverwriteRow(c) ==
  /\ entry' = IF seen[c] \notin Written \/ entry \in Written THEN "committed" ELSE entry
  /\ committed' = TRUE
  /\ UNCHANGED claimants

Overwrite(c) ==
  /\ pc[c] = "overwrite"
  /\ OverwriteRow(c)
  /\ Return(c)
  /\ UNCHANGED <<setup, seen>>

BeginFail(c) ==
  /\ marks
  /\ pc[c] \in {"work", "failing"}
  /\ See(c)
  /\ \/ entry = "none" /\ Return(c)
     \/ entry # "none" /\ Goto(c, "fail") /\ UNCHANGED answer
  /\ UNCHANGED <<setup, entry, committed, claimants>>

\* mark_failed UPDATEs the row, unless it was FAILED when selected.
FailRow(c) ==
  \/ seen[c] = "failed" /\ UNCHANGED <<entry, claimants>>
  \/ seen[c] # "failed" /\ entry' = "failed" /\ claimants' = {}

Fail(c) ==
  /\ pc[c] = "fail"
  /\ FailRow(c)
  /\ Return(c)
  /\ UNCHANGED <<setup, seen, committed>>

------------------------------------------------------------------------------
(* Failures and time *)

\* A statement raises OperationalError and had no effect: _with_retry runs the
\* operation again from its SELECT.
Retry(c) ==
  /\ \/ pc[c] \in {"insert", "reread", "reclaim"} /\ Goto(c, "idle")
     \/ pc[c] \in {"save", "resave", "overwrite"} /\ Goto(c, "commit")
     \/ pc[c] = "fail" /\ Goto(c, "failing")
  /\ UNCHANGED <<setup, entry, seen, answer, committed, claimants>>

\* OperationalError although the database kept the write.
RetryStaged(c) ==
  /\ \/ pc[c] = "insert" /\ entry = "none"
     \/ pc[c] = "reclaim"
  /\ entry' = "staged"
  /\ Goto(c, "idle")
  /\ UNCHANGED <<setup, seen, answer, committed, claimants>>

RetrySaved(c) ==
  /\ \/ pc[c] = "save" /\ entry = "none" /\ SaveRow
     \/ pc[c] = "overwrite" /\ OverwriteRow(c)
  /\ Goto(c, "commit")
  /\ answer' = [answer EXCEPT ![c] = "none"]
  /\ UNCHANGED <<setup, seen>>

RetryFailed(c) ==
  /\ pc[c] = "fail"
  /\ FailRow(c)
  /\ Goto(c, "failing")
  /\ answer' = [answer EXCEPT ![c] = "none"]
  /\ UNCHANGED <<setup, seen, committed>>

\* ttl_hours pass after a commit.
Age ==
  /\ entry = "committed"
  /\ entry' = "stale"
  /\ UNCHANGED <<setup, pc, seen, answer, committed, claimants>>

SqlNext ==
  \/ \E c \in Callers :
       \/ Select(c) \/ Insert(c) \/ Reread(c) \/ Reclaim(c) \/ Skip(c)
       \/ BeginCommit(c) \/ Save(c) \/ Resave(c) \/ Overwrite(c)
       \/ BeginFail(c) \/ Fail(c)
       \/ Retry(c) \/ RetryStaged(c) \/ RetrySaved(c) \/ RetryFailed(c) \/ Crash(c)
  \/ Age
==============================================================================
