----------------------- MODULE ExactlyOnceStoreProofs ------------------------
(***************************************************************************)
(* The exactly-once store for any set of callers, on either backend: a key *)
(* is reported as a duplicate only after a commit, it is claimed once      *)
(* until it is freed (but for the racy case), a commit is final in SQL,    *)
(* and the multi-step operations implement the atomic register.            *)
(***************************************************************************)
EXTENDS ExactlyOnceStore, TLAPS

\* What a caller was answered follows from what it does next.
AnswerMatchesPc ==
  \A c \in Callers :
    /\ pc[c] \in {"idle", "get", "insert", "reread", "reclaim"} => answer[c] = "none"
    /\ pc[c] = "skip" <=> answer[c] = "committed"

\* A backend only reaches its own commands and its own stored states.
BackendShape ==
  /\ backend = "redis" => entry \in {"none", "staged", "committed"}
  /\ \A c \in Callers :
       /\ backend = "redis" => pc[c] \in {"idle", "get", "work", "skip"}
       /\ backend = "sql" => pc[c] # "get"

\* A committed entry, and a row read as committed, come from a commit.
WrittenMeansCommitted ==
  /\ entry \in Written => committed
  /\ \A c \in Callers : seen[c] \in Written => committed
  /\ \A c \in Callers : answer[c] \in {"committed", "reverify"} => committed

\* Without mark_failed no row is, or was read as, FAILED.
NeverFailed ==
  ~marks =>
    /\ entry # "failed"
    /\ \A c \in Callers :
         seen[c] # "failed" /\ pc[c] \notin {"reclaim", "failing", "fail"}

\* Unless the claim is racy, an absent key has no claimants and a present one
\* has one at most.
ClaimInv ==
  ~Racy =>
    /\ entry = "none" => claimants = {}
    /\ \A c, d \in claimants : c = d

Inv == /\ TypeOK /\ AnswerMatchesPc /\ BackendShape
       /\ WrittenMeansCommitted /\ NeverFailed /\ ClaimInv /\ CommittedIsFinal

\* Every initial state satisfies the inductive invariant.
LEMMA InitInv == Init => Inv
  BY DEF Init, Inv, TypeOK, AnswerMatchesPc, BackendShape, WrittenMeansCommitted, NeverFailed,
         ClaimInv, CommittedIsFinal, Racy, Entries, Written

\* Every command, statement, retry, crash and expiry preserves the types.
LEMMA StepTypes ==
  ASSUME TypeOK, [Next]_vars
  PROVE  TypeOK'
<1> USE DEF setup, TypeOK, Entries
<1>1. CASE UNCHANGED vars
  BY <1>1 DEF vars
<1>2. CASE backend = "redis" /\ Expire
  BY <1>2 DEF Expire
<1>3. CASE backend = "sql" /\ Age
  BY <1>3 DEF Age, Written
<1>4. ASSUME backend = "redis", NEW c \in Callers,
             \/ SetNX(c) \/ Get(c) \/ Skip(c) \/ Commit(c) \/ MarkFailed(c)
             \/ StageLost(c) \/ Crash(c)
      PROVE  TypeOK'
  <2>1. CASE SetNX(c)
    BY <1>4, <2>1 DEF SetNX, Claim, Answer, Goto
  <2>2. CASE Get(c)
    BY <1>4, <2>2 DEF Get, Answer, Goto
  <2>3. CASE Skip(c)
    BY <1>4, <2>3 DEF Skip, Return, Goto
  <2>4. CASE Commit(c)
    BY <1>4, <2>4 DEF Commit, Return, Goto
  <2>5. CASE MarkFailed(c)
    BY <1>4, <2>5 DEF MarkFailed, Return, Goto
  <2>6. CASE StageLost(c)
    BY <1>4, <2>6 DEF StageLost
  <2>7. CASE Crash(c)
    BY <1>4, <2>7 DEF Crash, Return, Goto
  <2> QED
    BY <1>4, <2>1, <2>2, <2>3, <2>4, <2>5, <2>6, <2>7
<1>5. ASSUME backend = "sql", NEW c \in Callers,
             \/ Select(c) \/ Insert(c) \/ Reread(c) \/ Reclaim(c) \/ Skip(c)
             \/ BeginCommit(c) \/ Save(c) \/ Resave(c) \/ Overwrite(c)
             \/ BeginFail(c) \/ Fail(c) \/ Retry(c) \/ RetryStaged(c)
             \/ RetrySaved(c) \/ RetryFailed(c) \/ Crash(c)
      PROVE  TypeOK'
  <2>1. CASE Select(c)
    BY <1>5, <2>1 DEF Select, See, Goto, Answer
  <2>2. CASE Insert(c)
    BY <1>5, <2>2 DEF Insert, Claim, Goto, Answer
  <2>3. CASE Reread(c)
    BY <1>5, <2>3 DEF Reread, See, Goto, Answer, Written
  <2>4. CASE Reclaim(c)
    BY <1>5, <2>4 DEF Reclaim, Claim, Goto, Answer
  <2>5. CASE Skip(c)
    BY <1>5, <2>5 DEF Skip, Return, Goto
  <2>6. CASE BeginCommit(c)
    BY <1>5, <2>6 DEF BeginCommit, See, Goto
  <2>7. CASE Save(c)
    BY <1>5, <2>7 DEF Save, SaveRow, Return, Goto
  <2>8. CASE Resave(c)
    BY <1>5, <2>8 DEF Resave, See, Goto
  <2>9. CASE Overwrite(c)
    BY <1>5, <2>9 DEF Overwrite, OverwriteRow, Return, Goto, Written
  <2>10. CASE BeginFail(c)
    BY <1>5, <2>10 DEF BeginFail, See, Return, Goto
  <2>11. CASE Fail(c)
    BY <1>5, <2>11 DEF Fail, FailRow, Return, Goto
  <2>12. CASE Retry(c)
    BY <1>5, <2>12 DEF Retry, Goto
  <2>13. CASE RetryStaged(c)
    BY <1>5, <2>13 DEF RetryStaged, Goto
  <2>14. CASE RetrySaved(c)
    BY <1>5, <2>14 DEF RetrySaved, SaveRow, OverwriteRow, Goto, Written
  <2>15. CASE RetryFailed(c)
    BY <1>5, <2>15 DEF RetryFailed, FailRow, Goto
  <2>16. CASE Crash(c)
    BY <1>5, <2>16 DEF Crash, Return, Goto
  <2> QED
    BY <1>5, <2>1, <2>2, <2>3, <2>4, <2>5, <2>6, <2>7, <2>8, <2>9, <2>10, <2>11, <2>12, <2>13, <2>14, <2>15, <2>16
<1> QED
  BY <1>1, <1>2, <1>3, <1>4, <1>5 DEF Next, RedisNext, SqlNext

\* Every step ties the answer of its caller to what the caller does next.
LEMMA StepAnswers ==
  ASSUME TypeOK, AnswerMatchesPc, [Next]_vars
  PROVE  AnswerMatchesPc'
<1> USE DEF setup, TypeOK, AnswerMatchesPc
<1>1. CASE UNCHANGED vars
  BY <1>1 DEF vars
<1>2. CASE backend = "redis" /\ Expire
  BY <1>2 DEF Expire
<1>3. CASE backend = "sql" /\ Age
  BY <1>3 DEF Age, Written
<1>4. ASSUME backend = "redis", NEW c \in Callers,
             \/ SetNX(c) \/ Get(c) \/ Skip(c) \/ Commit(c) \/ MarkFailed(c)
             \/ StageLost(c) \/ Crash(c)
      PROVE  AnswerMatchesPc'
  <2>1. CASE SetNX(c)
    BY <1>4, <2>1 DEF SetNX, Claim, Answer, Goto
  <2>2. CASE Get(c)
    BY <1>4, <2>2 DEF Get, Answer, Goto
  <2>3. CASE Skip(c)
    BY <1>4, <2>3 DEF Skip, Return, Goto
  <2>4. CASE Commit(c)
    BY <1>4, <2>4 DEF Commit, Return, Goto
  <2>5. CASE MarkFailed(c)
    BY <1>4, <2>5 DEF MarkFailed, Return, Goto
  <2>6. CASE StageLost(c)
    BY <1>4, <2>6 DEF StageLost
  <2>7. CASE Crash(c)
    BY <1>4, <2>7 DEF Crash, Return, Goto
  <2> QED
    BY <1>4, <2>1, <2>2, <2>3, <2>4, <2>5, <2>6, <2>7
<1>5. ASSUME backend = "sql", NEW c \in Callers,
             \/ Select(c) \/ Insert(c) \/ Reread(c) \/ Reclaim(c) \/ Skip(c)
             \/ BeginCommit(c) \/ Save(c) \/ Resave(c) \/ Overwrite(c)
             \/ BeginFail(c) \/ Fail(c) \/ Retry(c) \/ RetryStaged(c)
             \/ RetrySaved(c) \/ RetryFailed(c) \/ Crash(c)
      PROVE  AnswerMatchesPc'
  <2>1. CASE Select(c)
    BY <1>5, <2>1 DEF Select, See, Goto, Answer
  <2>2. CASE Insert(c)
    BY <1>5, <2>2 DEF Insert, Claim, Goto, Answer
  <2>3. CASE Reread(c)
    BY <1>5, <2>3 DEF Reread, See, Goto, Answer, Written
  <2>4. CASE Reclaim(c)
    BY <1>5, <2>4 DEF Reclaim, Claim, Goto, Answer
  <2>5. CASE Skip(c)
    BY <1>5, <2>5 DEF Skip, Return, Goto
  <2>6. CASE BeginCommit(c)
    BY <1>5, <2>6 DEF BeginCommit, See, Goto
  <2>7. CASE Save(c)
    BY <1>5, <2>7 DEF Save, SaveRow, Return, Goto
  <2>8. CASE Resave(c)
    BY <1>5, <2>8 DEF Resave, See, Goto
  <2>9. CASE Overwrite(c)
    BY <1>5, <2>9 DEF Overwrite, OverwriteRow, Return, Goto, Written
  <2>10. CASE BeginFail(c)
    BY <1>5, <2>10 DEF BeginFail, See, Return, Goto
  <2>11. CASE Fail(c)
    BY <1>5, <2>11 DEF Fail, FailRow, Return, Goto
  <2>12. CASE Retry(c)
    BY <1>5, <2>12 DEF Retry, Goto
  <2>13. CASE RetryStaged(c)
    BY <1>5, <2>13 DEF RetryStaged, Goto
  <2>14. CASE RetrySaved(c)
    BY <1>5, <2>14 DEF RetrySaved, SaveRow, OverwriteRow, Goto, Written
  <2>15. CASE RetryFailed(c)
    BY <1>5, <2>15 DEF RetryFailed, FailRow, Goto
  <2>16. CASE Crash(c)
    BY <1>5, <2>16 DEF Crash, Return, Goto
  <2> QED
    BY <1>5, <2>1, <2>2, <2>3, <2>4, <2>5, <2>6, <2>7, <2>8, <2>9, <2>10, <2>11, <2>12, <2>13, <2>14, <2>15, <2>16
<1> QED
  BY <1>1, <1>2, <1>3, <1>4, <1>5 DEF Next, RedisNext, SqlNext

\* The backends do not mix.
LEMMA StepShape ==
  ASSUME TypeOK, BackendShape, [Next]_vars
  PROVE  BackendShape'
<1> USE DEF setup, TypeOK, BackendShape
<1>1. CASE UNCHANGED vars
  BY <1>1 DEF vars
<1>2. CASE backend = "redis" /\ Expire
  BY <1>2 DEF Expire
<1>3. CASE backend = "sql" /\ Age
  BY <1>3 DEF Age, Written
<1>4. ASSUME backend = "redis", NEW c \in Callers,
             \/ SetNX(c) \/ Get(c) \/ Skip(c) \/ Commit(c) \/ MarkFailed(c)
             \/ StageLost(c) \/ Crash(c)
      PROVE  BackendShape'
  <2>1. CASE SetNX(c)
    BY <1>4, <2>1 DEF SetNX, Claim, Answer, Goto
  <2>2. CASE Get(c)
    BY <1>4, <2>2 DEF Get, Answer, Goto
  <2>3. CASE Skip(c)
    BY <1>4, <2>3 DEF Skip, Return, Goto
  <2>4. CASE Commit(c)
    BY <1>4, <2>4 DEF Commit, Return, Goto
  <2>5. CASE MarkFailed(c)
    BY <1>4, <2>5 DEF MarkFailed, Return, Goto
  <2>6. CASE StageLost(c)
    BY <1>4, <2>6 DEF StageLost
  <2>7. CASE Crash(c)
    BY <1>4, <2>7 DEF Crash, Return, Goto
  <2> QED
    BY <1>4, <2>1, <2>2, <2>3, <2>4, <2>5, <2>6, <2>7
<1>5. ASSUME backend = "sql", NEW c \in Callers,
             \/ Select(c) \/ Insert(c) \/ Reread(c) \/ Reclaim(c) \/ Skip(c)
             \/ BeginCommit(c) \/ Save(c) \/ Resave(c) \/ Overwrite(c)
             \/ BeginFail(c) \/ Fail(c) \/ Retry(c) \/ RetryStaged(c)
             \/ RetrySaved(c) \/ RetryFailed(c) \/ Crash(c)
      PROVE  BackendShape'
  <2>1. CASE Select(c)
    BY <1>5, <2>1 DEF Select, See, Goto, Answer
  <2>2. CASE Insert(c)
    BY <1>5, <2>2 DEF Insert, Claim, Goto, Answer
  <2>3. CASE Reread(c)
    BY <1>5, <2>3 DEF Reread, See, Goto, Answer, Written
  <2>4. CASE Reclaim(c)
    BY <1>5, <2>4 DEF Reclaim, Claim, Goto, Answer
  <2>5. CASE Skip(c)
    BY <1>5, <2>5 DEF Skip, Return, Goto
  <2>6. CASE BeginCommit(c)
    BY <1>5, <2>6 DEF BeginCommit, See, Goto
  <2>7. CASE Save(c)
    BY <1>5, <2>7 DEF Save, SaveRow, Return, Goto
  <2>8. CASE Resave(c)
    BY <1>5, <2>8 DEF Resave, See, Goto
  <2>9. CASE Overwrite(c)
    BY <1>5, <2>9 DEF Overwrite, OverwriteRow, Return, Goto, Written
  <2>10. CASE BeginFail(c)
    BY <1>5, <2>10 DEF BeginFail, See, Return, Goto
  <2>11. CASE Fail(c)
    BY <1>5, <2>11 DEF Fail, FailRow, Return, Goto
  <2>12. CASE Retry(c)
    BY <1>5, <2>12 DEF Retry, Goto
  <2>13. CASE RetryStaged(c)
    BY <1>5, <2>13 DEF RetryStaged, Goto
  <2>14. CASE RetrySaved(c)
    BY <1>5, <2>14 DEF RetrySaved, SaveRow, OverwriteRow, Goto, Written
  <2>15. CASE RetryFailed(c)
    BY <1>5, <2>15 DEF RetryFailed, FailRow, Goto
  <2>16. CASE Crash(c)
    BY <1>5, <2>16 DEF Crash, Return, Goto
  <2> QED
    BY <1>5, <2>1, <2>2, <2>3, <2>4, <2>5, <2>6, <2>7, <2>8, <2>9, <2>10, <2>11, <2>12, <2>13, <2>14, <2>15, <2>16
<1> QED
  BY <1>1, <1>2, <1>3, <1>4, <1>5 DEF Next, RedisNext, SqlNext

\* Only a commit writes a committed entry, and only such an entry is read as one.
LEMMA StepWritten ==
  ASSUME TypeOK, WrittenMeansCommitted, [Next]_vars
  PROVE  WrittenMeansCommitted'
<1> USE DEF setup, TypeOK, Entries, WrittenMeansCommitted, Written
<1>1. CASE UNCHANGED vars
  BY <1>1 DEF vars
<1>2. CASE backend = "redis" /\ Expire
  BY <1>2 DEF Expire
<1>3. CASE backend = "sql" /\ Age
  BY <1>3 DEF Age, Written
<1>4. ASSUME backend = "redis", NEW c \in Callers,
             \/ SetNX(c) \/ Get(c) \/ Skip(c) \/ Commit(c) \/ MarkFailed(c)
             \/ StageLost(c) \/ Crash(c)
      PROVE  WrittenMeansCommitted'
  <2>1. CASE SetNX(c)
    BY <1>4, <2>1 DEF SetNX, Claim, Answer, Goto
  <2>2. CASE Get(c)
    BY <1>4, <2>2 DEF Get, Answer, Goto
  <2>3. CASE Skip(c)
    BY <1>4, <2>3 DEF Skip, Return, Goto
  <2>4. CASE Commit(c)
    BY <1>4, <2>4 DEF Commit, Return, Goto
  <2>5. CASE MarkFailed(c)
    BY <1>4, <2>5 DEF MarkFailed, Return, Goto
  <2>6. CASE StageLost(c)
    BY <1>4, <2>6 DEF StageLost
  <2>7. CASE Crash(c)
    BY <1>4, <2>7 DEF Crash, Return, Goto
  <2> QED
    BY <1>4, <2>1, <2>2, <2>3, <2>4, <2>5, <2>6, <2>7
<1>5. ASSUME backend = "sql", NEW c \in Callers,
             \/ Select(c) \/ Insert(c) \/ Reread(c) \/ Reclaim(c) \/ Skip(c)
             \/ BeginCommit(c) \/ Save(c) \/ Resave(c) \/ Overwrite(c)
             \/ BeginFail(c) \/ Fail(c) \/ Retry(c) \/ RetryStaged(c)
             \/ RetrySaved(c) \/ RetryFailed(c) \/ Crash(c)
      PROVE  WrittenMeansCommitted'
  <2>1. CASE Select(c)
    BY <1>5, <2>1 DEF Select, See, Goto, Answer
  <2>2. CASE Insert(c)
    BY <1>5, <2>2 DEF Insert, Claim, Goto, Answer
  <2>3. CASE Reread(c)
    BY <1>5, <2>3 DEF Reread, See, Goto, Answer, Written
  <2>4. CASE Reclaim(c)
    BY <1>5, <2>4 DEF Reclaim, Claim, Goto, Answer
  <2>5. CASE Skip(c)
    BY <1>5, <2>5 DEF Skip, Return, Goto
  <2>6. CASE BeginCommit(c)
    BY <1>5, <2>6 DEF BeginCommit, See, Goto
  <2>7. CASE Save(c)
    BY <1>5, <2>7 DEF Save, SaveRow, Return, Goto
  <2>8. CASE Resave(c)
    BY <1>5, <2>8 DEF Resave, See, Goto
  <2>9. CASE Overwrite(c)
    BY <1>5, <2>9 DEF Overwrite, OverwriteRow, Return, Goto, Written
  <2>10. CASE BeginFail(c)
    BY <1>5, <2>10 DEF BeginFail, See, Return, Goto
  <2>11. CASE Fail(c)
    BY <1>5, <2>11 DEF Fail, FailRow, Return, Goto
  <2>12. CASE Retry(c)
    BY <1>5, <2>12 DEF Retry, Goto
  <2>13. CASE RetryStaged(c)
    BY <1>5, <2>13 DEF RetryStaged, Goto
  <2>14. CASE RetrySaved(c)
    BY <1>5, <2>14 DEF RetrySaved, SaveRow, OverwriteRow, Goto, Written
  <2>15. CASE RetryFailed(c)
    BY <1>5, <2>15 DEF RetryFailed, FailRow, Goto
  <2>16. CASE Crash(c)
    BY <1>5, <2>16 DEF Crash, Return, Goto
  <2> QED
    BY <1>5, <2>1, <2>2, <2>3, <2>4, <2>5, <2>6, <2>7, <2>8, <2>9, <2>10, <2>11, <2>12, <2>13, <2>14, <2>15, <2>16
<1> QED
  BY <1>1, <1>2, <1>3, <1>4, <1>5 DEF Next, RedisNext, SqlNext

\* Without mark_failed, the steps that need a FAILED row never happen.
LEMMA StepNeverFailed ==
  ASSUME TypeOK, NeverFailed, [Next]_vars
  PROVE  NeverFailed'
<1> USE DEF setup, TypeOK, NeverFailed, Written
<1>1. CASE UNCHANGED vars
  BY <1>1 DEF vars
<1>2. CASE backend = "redis" /\ Expire
  BY <1>2 DEF Expire
<1>3. CASE backend = "sql" /\ Age
  BY <1>3 DEF Age, Written
<1>4. ASSUME backend = "redis", NEW c \in Callers,
             \/ SetNX(c) \/ Get(c) \/ Skip(c) \/ Commit(c) \/ MarkFailed(c)
             \/ StageLost(c) \/ Crash(c)
      PROVE  NeverFailed'
  <2>1. CASE SetNX(c)
    BY <1>4, <2>1 DEF SetNX, Claim, Answer, Goto
  <2>2. CASE Get(c)
    BY <1>4, <2>2 DEF Get, Answer, Goto
  <2>3. CASE Skip(c)
    BY <1>4, <2>3 DEF Skip, Return, Goto
  <2>4. CASE Commit(c)
    BY <1>4, <2>4 DEF Commit, Return, Goto
  <2>5. CASE MarkFailed(c)
    BY <1>4, <2>5 DEF MarkFailed, Return, Goto
  <2>6. CASE StageLost(c)
    BY <1>4, <2>6 DEF StageLost
  <2>7. CASE Crash(c)
    BY <1>4, <2>7 DEF Crash, Return, Goto
  <2> QED
    BY <1>4, <2>1, <2>2, <2>3, <2>4, <2>5, <2>6, <2>7
<1>5. ASSUME backend = "sql", NEW c \in Callers,
             \/ Select(c) \/ Insert(c) \/ Reread(c) \/ Reclaim(c) \/ Skip(c)
             \/ BeginCommit(c) \/ Save(c) \/ Resave(c) \/ Overwrite(c)
             \/ BeginFail(c) \/ Fail(c) \/ Retry(c) \/ RetryStaged(c)
             \/ RetrySaved(c) \/ RetryFailed(c) \/ Crash(c)
      PROVE  NeverFailed'
  <2>1. CASE Select(c)
    BY <1>5, <2>1 DEF Select, See, Goto, Answer
  <2>2. CASE Insert(c)
    BY <1>5, <2>2 DEF Insert, Claim, Goto, Answer
  <2>3. CASE Reread(c)
    BY <1>5, <2>3 DEF Reread, See, Goto, Answer, Written
  <2>4. CASE Reclaim(c)
    BY <1>5, <2>4 DEF Reclaim, Claim, Goto, Answer
  <2>5. CASE Skip(c)
    BY <1>5, <2>5 DEF Skip, Return, Goto
  <2>6. CASE BeginCommit(c)
    BY <1>5, <2>6 DEF BeginCommit, See, Goto
  <2>7. CASE Save(c)
    BY <1>5, <2>7 DEF Save, SaveRow, Return, Goto
  <2>8. CASE Resave(c)
    BY <1>5, <2>8 DEF Resave, See, Goto
  <2>9. CASE Overwrite(c)
    BY <1>5, <2>9 DEF Overwrite, OverwriteRow, Return, Goto, Written
  <2>10. CASE BeginFail(c)
    BY <1>5, <2>10 DEF BeginFail, See, Return, Goto
  <2>11. CASE Fail(c)
    BY <1>5, <2>11 DEF Fail, FailRow, Return, Goto
  <2>12. CASE Retry(c)
    BY <1>5, <2>12 DEF Retry, Goto
  <2>13. CASE RetryStaged(c)
    BY <1>5, <2>13 DEF RetryStaged, Goto
  <2>14. CASE RetrySaved(c)
    BY <1>5, <2>14 DEF RetrySaved, SaveRow, OverwriteRow, Goto, Written
  <2>15. CASE RetryFailed(c)
    BY <1>5, <2>15 DEF RetryFailed, FailRow, Goto
  <2>16. CASE Crash(c)
    BY <1>5, <2>16 DEF Crash, Return, Goto
  <2> QED
    BY <1>5, <2>1, <2>2, <2>3, <2>4, <2>5, <2>6, <2>7, <2>8, <2>9, <2>10, <2>11, <2>12, <2>13, <2>14, <2>15, <2>16
<1> QED
  BY <1>1, <1>2, <1>3, <1>4, <1>5 DEF Next, RedisNext, SqlNext

\* SET NX and INSERT claim an absent key only, and whatever makes a key absent
\* forgets its claimants.
LEMMA StepClaim ==
  ASSUME TypeOK, BackendShape, NeverFailed, ClaimInv, [Next]_vars
  PROVE  ClaimInv'
<1> USE DEF setup, TypeOK, BackendShape, NeverFailed, ClaimInv, Racy, Written
<1>1. CASE UNCHANGED vars
  BY <1>1 DEF vars
<1>2. CASE backend = "redis" /\ Expire
  BY <1>2 DEF Expire
<1>3. CASE backend = "sql" /\ Age
  BY <1>3 DEF Age, Written
<1>4. ASSUME backend = "redis", NEW c \in Callers,
             \/ SetNX(c) \/ Get(c) \/ Skip(c) \/ Commit(c) \/ MarkFailed(c)
             \/ StageLost(c) \/ Crash(c)
      PROVE  ClaimInv'
  <2>1. CASE SetNX(c)
    BY <1>4, <2>1 DEF SetNX, Claim, Answer, Goto
  <2>2. CASE Get(c)
    BY <1>4, <2>2 DEF Get, Answer, Goto
  <2>3. CASE Skip(c)
    BY <1>4, <2>3 DEF Skip, Return, Goto
  <2>4. CASE Commit(c)
    BY <1>4, <2>4 DEF Commit, Return, Goto
  <2>5. CASE MarkFailed(c)
    BY <1>4, <2>5 DEF MarkFailed, Return, Goto
  <2>6. CASE StageLost(c)
    BY <1>4, <2>6 DEF StageLost
  <2>7. CASE Crash(c)
    BY <1>4, <2>7 DEF Crash, Return, Goto
  <2> QED
    BY <1>4, <2>1, <2>2, <2>3, <2>4, <2>5, <2>6, <2>7
<1>5. ASSUME backend = "sql", NEW c \in Callers,
             \/ Select(c) \/ Insert(c) \/ Reread(c) \/ Reclaim(c) \/ Skip(c)
             \/ BeginCommit(c) \/ Save(c) \/ Resave(c) \/ Overwrite(c)
             \/ BeginFail(c) \/ Fail(c) \/ Retry(c) \/ RetryStaged(c)
             \/ RetrySaved(c) \/ RetryFailed(c) \/ Crash(c)
      PROVE  ClaimInv'
  <2>1. CASE Select(c)
    BY <1>5, <2>1 DEF Select, See, Goto, Answer
  <2>2. CASE Insert(c)
    BY <1>5, <2>2 DEF Insert, Claim, Goto, Answer
  <2>3. CASE Reread(c)
    BY <1>5, <2>3 DEF Reread, See, Goto, Answer, Written
  <2>4. CASE Reclaim(c)
    BY <1>5, <2>4 DEF Reclaim, Claim, Goto, Answer
  <2>5. CASE Skip(c)
    BY <1>5, <2>5 DEF Skip, Return, Goto
  <2>6. CASE BeginCommit(c)
    BY <1>5, <2>6 DEF BeginCommit, See, Goto
  <2>7. CASE Save(c)
    BY <1>5, <2>7 DEF Save, SaveRow, Return, Goto
  <2>8. CASE Resave(c)
    BY <1>5, <2>8 DEF Resave, See, Goto
  <2>9. CASE Overwrite(c)
    BY <1>5, <2>9 DEF Overwrite, OverwriteRow, Return, Goto, Written
  <2>10. CASE BeginFail(c)
    BY <1>5, <2>10 DEF BeginFail, See, Return, Goto
  <2>11. CASE Fail(c)
    BY <1>5, <2>11 DEF Fail, FailRow, Return, Goto
  <2>12. CASE Retry(c)
    BY <1>5, <2>12 DEF Retry, Goto
  <2>13. CASE RetryStaged(c)
    BY <1>5, <2>13 DEF RetryStaged, Goto
  <2>14. CASE RetrySaved(c)
    BY <1>5, <2>14 DEF RetrySaved, SaveRow, OverwriteRow, Goto, Written
  <2>15. CASE RetryFailed(c)
    BY <1>5, <2>15 DEF RetryFailed, FailRow, Goto
  <2>16. CASE Crash(c)
    BY <1>5, <2>16 DEF Crash, Return, Goto
  <2> QED
    BY <1>5, <2>1, <2>2, <2>3, <2>4, <2>5, <2>6, <2>7, <2>8, <2>9, <2>10, <2>11, <2>12, <2>13, <2>14, <2>15, <2>16
<1> QED
  BY <1>1, <1>2, <1>3, <1>4, <1>5 DEF Next, RedisNext, SqlNext

\* Without mark_failed, no statement takes a committed row back.
LEMMA StepFinal ==
  ASSUME TypeOK, WrittenMeansCommitted, NeverFailed, CommittedIsFinal, [Next]_vars
  PROVE  CommittedIsFinal'
<1> USE DEF setup, TypeOK, WrittenMeansCommitted, NeverFailed, CommittedIsFinal, Written
<1>1. CASE UNCHANGED vars
  BY <1>1 DEF vars
<1>2. CASE backend = "redis" /\ Expire
  BY <1>2 DEF Expire
<1>3. CASE backend = "sql" /\ Age
  BY <1>3 DEF Age, Written
<1>4. ASSUME backend = "redis", NEW c \in Callers,
             \/ SetNX(c) \/ Get(c) \/ Skip(c) \/ Commit(c) \/ MarkFailed(c)
             \/ StageLost(c) \/ Crash(c)
      PROVE  CommittedIsFinal'
  <2>1. CASE SetNX(c)
    BY <1>4, <2>1 DEF SetNX, Claim, Answer, Goto
  <2>2. CASE Get(c)
    BY <1>4, <2>2 DEF Get, Answer, Goto
  <2>3. CASE Skip(c)
    BY <1>4, <2>3 DEF Skip, Return, Goto
  <2>4. CASE Commit(c)
    BY <1>4, <2>4 DEF Commit, Return, Goto
  <2>5. CASE MarkFailed(c)
    BY <1>4, <2>5 DEF MarkFailed, Return, Goto
  <2>6. CASE StageLost(c)
    BY <1>4, <2>6 DEF StageLost
  <2>7. CASE Crash(c)
    BY <1>4, <2>7 DEF Crash, Return, Goto
  <2> QED
    BY <1>4, <2>1, <2>2, <2>3, <2>4, <2>5, <2>6, <2>7
<1>5. ASSUME backend = "sql", NEW c \in Callers,
             \/ Select(c) \/ Insert(c) \/ Reread(c) \/ Reclaim(c) \/ Skip(c)
             \/ BeginCommit(c) \/ Save(c) \/ Resave(c) \/ Overwrite(c)
             \/ BeginFail(c) \/ Fail(c) \/ Retry(c) \/ RetryStaged(c)
             \/ RetrySaved(c) \/ RetryFailed(c) \/ Crash(c)
      PROVE  CommittedIsFinal'
  <2>1. CASE Select(c)
    BY <1>5, <2>1 DEF Select, See, Goto, Answer
  <2>2. CASE Insert(c)
    BY <1>5, <2>2 DEF Insert, Claim, Goto, Answer
  <2>3. CASE Reread(c)
    BY <1>5, <2>3 DEF Reread, See, Goto, Answer, Written
  <2>4. CASE Reclaim(c)
    BY <1>5, <2>4 DEF Reclaim, Claim, Goto, Answer
  <2>5. CASE Skip(c)
    BY <1>5, <2>5 DEF Skip, Return, Goto
  <2>6. CASE BeginCommit(c)
    BY <1>5, <2>6 DEF BeginCommit, See, Goto
  <2>7. CASE Save(c)
    BY <1>5, <2>7 DEF Save, SaveRow, Return, Goto
  <2>8. CASE Resave(c)
    BY <1>5, <2>8 DEF Resave, See, Goto
  <2>9. CASE Overwrite(c)
    BY <1>5, <2>9 DEF Overwrite, OverwriteRow, Return, Goto, Written
  <2>10. CASE BeginFail(c)
    BY <1>5, <2>10 DEF BeginFail, See, Return, Goto
  <2>11. CASE Fail(c)
    BY <1>5, <2>11 DEF Fail, FailRow, Return, Goto
  <2>12. CASE Retry(c)
    BY <1>5, <2>12 DEF Retry, Goto
  <2>13. CASE RetryStaged(c)
    BY <1>5, <2>13 DEF RetryStaged, Goto
  <2>14. CASE RetrySaved(c)
    BY <1>5, <2>14 DEF RetrySaved, SaveRow, OverwriteRow, Goto, Written
  <2>15. CASE RetryFailed(c)
    BY <1>5, <2>15 DEF RetryFailed, FailRow, Goto
  <2>16. CASE Crash(c)
    BY <1>5, <2>16 DEF Crash, Return, Goto
  <2> QED
    BY <1>5, <2>1, <2>2, <2>3, <2>4, <2>5, <2>6, <2>7, <2>8, <2>9, <2>10, <2>11, <2>12, <2>13, <2>14, <2>15, <2>16
<1> QED
  BY <1>1, <1>2, <1>3, <1>4, <1>5 DEF Next, RedisNext, SqlNext

\* The inductive invariant holds in every state of the store.
THEOREM InvHolds == Spec => []Inv
<1>1. Inv /\ [Next]_vars => Inv'
  BY StepTypes, StepAnswers, StepShape, StepWritten, StepNeverFailed, StepClaim, StepFinal
     DEF Inv
<1> QED
  BY InitInv, <1>1, PTL DEF Spec

\* The stored entry, the callers' positions and their answers keep their types
\* on both backends.
THEOREM StoreTypeCorrect == Spec => []TypeOK
<1>1. Inv => TypeOK
  BY DEF Inv
<1> QED
  BY InvHolds, <1>1, PTL

\* No caller is answered COMMITTED or TTL_EXPIRED_REVERIFY for a key that was
\* never committed, on either backend and with mark_failed in use.
THEOREM StoreDuplicateMeansCommitted == Spec => []DuplicateMeansCommitted
<1>1. Inv => DuplicateMeansCommitted
  BY DEF Inv, WrittenMeansCommitted, DuplicateMeansCommitted
<1> QED
  BY InvHolds, <1>1, PTL

\* SET NX and the UNIQUE constraint claim exclusively, for any number of
\* callers: one at most is told NEW until the key is freed.
THEOREM StoreOneClaimant == Spec => []OneClaimantUnlessRacy
<1>1. Inv => OneClaimantUnlessRacy
  BY DEF Inv, ClaimInv, OneClaimantUnlessRacy, OneClaimant
<1> QED
  BY InvHolds, <1>1, PTL

\* In a SQL store without mark_failed, no late INSERT, UPDATE or retry takes a
\* commit back.
THEOREM StoreCommittedIsFinal == Spec => []CommittedIsFinal
<1>1. Inv => CommittedIsFinal
  BY DEF Inv
<1> QED
  BY InvHolds, <1>1, PTL

\* Each Redis command and each SQL statement is one atomic operation of the
\* register or leaves it as it is, so that the operations are linearizable
\* although they take several steps.
THEOREM StoreImplementsRegister == Spec => ImplementsRegister
<1>1. Init => Register!Init
  BY DEF Init, Register!Init, Racy
<1>2. ASSUME Inv, [Next]_vars
      PROVE  [Register!Next]_Register!vars
  <2> USE DEF Inv, TypeOK, AnswerMatchesPc, BackendShape, NeverFailed, Racy, Entries, setup
  <2>1. CASE UNCHANGED vars
    BY <1>2, <2>1 DEF vars, Register!vars
  <2>2. CASE backend = "redis" /\ Expire
    <3>1. Register!Forget
      BY <1>2, <2>2 DEF Expire, Register!Forget
    <3> QED
      BY <3>1 DEF Register!Next
  <2>3. CASE backend = "sql" /\ Age
    BY <1>2, <2>3 DEF Age, Register!vars
  <2>4. ASSUME backend = "redis", NEW c \in Callers,
               \/ SetNX(c) \/ Get(c) \/ Skip(c) \/ Commit(c) \/ MarkFailed(c)
               \/ StageLost(c) \/ Crash(c)
        PROVE  [Register!Next]_Register!vars
    <3>1. CASE SetNX(c)
      <4>1. CASE entry = "none"
        <5>1. Register!Claim(c)
          BY <1>2, <2>4, <3>1, <4>1 DEF SetNX, Claim, Answer, Goto, Register!Claim, Register!Claimable
        <5> QED
          BY <5>1 DEF Register!Next
      <4>2. CASE entry # "none"
        BY <1>2, <2>4, <3>1, <4>2 DEF SetNX, Claim, Answer, Goto, Register!vars
      <4> QED
        BY <1>2, <3>1, <4>1, <4>2 DEF Entries, SetNX
    <3>2. CASE Get(c)
      <4>1. CASE entry = "committed"
        <5>1. Register!Duplicate(c)
          BY <1>2, <2>4, <3>2, <4>1 DEF Get, Answer, Goto, Register!Duplicate
        <5> QED
          BY <5>1 DEF Register!Next
      <4>2. CASE entry # "committed"
        <5>1. Register!Redo(c)
          BY <1>2, <2>4, <3>2, <4>2 DEF Get, Answer, Goto, Register!Redo
        <5> QED
          BY <5>1 DEF Register!Next
      <4> QED
        BY <1>2, <3>2, <4>1, <4>2 DEF Entries, Get
    <3>3. CASE Skip(c) \/ Crash(c)
      <4>1. Register!Leave(c)
        BY <1>2, <2>4, <3>3 DEF Skip, Crash, Return, Goto, Register!Leave
      <4> QED
        BY <4>1 DEF Register!Next
    <3>4. CASE Commit(c)
      <4>1. Register!Commit(c)
        BY <1>2, <2>4, <3>4 DEF Commit, Return, Goto, Register!Commit
      <4> QED
        BY <4>1 DEF Register!Next
    <3>5. CASE MarkFailed(c)
      <4>1. Register!MarkFailed(c)
        BY <1>2, <2>4, <3>5 DEF MarkFailed, Return, Goto, Register!MarkFailed
      <4> QED
        BY <4>1 DEF Register!Next
    <3>6. CASE StageLost(c)
      <4>1. Register!LostClaim(c)
        BY <1>2, <2>4, <3>6 DEF StageLost, Register!Claimable, Register!LostClaim
      <4> QED
        BY <4>1 DEF Register!Next
    <3> QED
      BY <2>4, <3>1, <3>2, <3>3, <3>4, <3>5, <3>6
  <2>5. ASSUME backend = "sql", NEW c \in Callers,
               \/ Select(c) \/ Insert(c) \/ Reread(c) \/ Reclaim(c) \/ Skip(c)
               \/ BeginCommit(c) \/ Save(c) \/ Resave(c) \/ Overwrite(c)
               \/ BeginFail(c) \/ Fail(c) \/ Retry(c) \/ RetryStaged(c)
               \/ RetrySaved(c) \/ RetryFailed(c) \/ Crash(c)
        PROVE  [Register!Next]_Register!vars
    <3>1. CASE Select(c)
      <4>1. CASE entry \in {"none", "failed"}
        BY <1>2, <2>5, <3>1, <4>1 DEF Select, See, Goto, Answer, Register!vars
      <4>2. CASE entry = "staged"
        <5>1. Register!Redo(c)
          BY <1>2, <2>5, <3>1, <4>2 DEF Select, See, Goto, Answer, Register!Redo
        <5> QED
          BY <5>1 DEF Register!Next
      <4>3. CASE entry \in {"committed", "stale"}
        <5>1. Register!Duplicate(c)
          BY <1>2, <2>5, <3>1, <4>3 DEF Select, See, Goto, Answer, Register!Duplicate
        <5> QED
          BY <5>1 DEF Register!Next
      <4> QED
        BY <1>2, <3>1, <4>1, <4>2, <4>3 DEF Entries, Select
    <3>2. CASE Insert(c)
      <4>1. CASE entry = "none"
        <5>1. Register!Claim(c)
          BY <1>2, <2>5, <3>2, <4>1 DEF Insert, Claim, Goto, Answer, Register!Claim, Register!Claimable
        <5> QED
          BY <5>1 DEF Register!Next
      <4>2. CASE entry # "none"
        BY <1>2, <2>5, <3>2, <4>2 DEF Insert, Claim, Goto, Answer, Register!vars
      <4> QED
        BY <1>2, <3>2, <4>1, <4>2 DEF Entries, Insert
    <3>3. CASE Reread(c)
      <4>1. CASE entry \in Written
        <5>1. Register!Duplicate(c)
          BY <1>2, <2>5, <3>3, <4>1 DEF Reread, See, Goto, Answer, Written, Register!Duplicate
        <5> QED
          BY <5>1 DEF Register!Next
      <4>2. CASE entry \notin Written
        <5>1. Register!Redo(c)
          BY <1>2, <2>5, <3>3, <4>2 DEF Reread, See, Goto, Answer, Written, Register!Redo
        <5> QED
          BY <5>1 DEF Register!Next
      <4> QED
        BY <1>2, <3>3, <4>1, <4>2 DEF Entries, Reread
    <3>4. CASE Reclaim(c)
      <4>1. Register!Claim(c)
        BY <1>2, <2>5, <3>4 DEF Reclaim, Claim, Goto, Answer, Register!Claimable, Register!Claim
      <4> QED
        BY <4>1 DEF Register!Next
    <3>5. CASE Skip(c) \/ Crash(c)
      <4>1. Register!Leave(c)
        BY <1>2, <2>5, <3>5 DEF Skip, Crash, Return, Goto, Register!Leave
      <4> QED
        BY <4>1 DEF Register!Next
    <3>6. CASE BeginCommit(c) \/ Resave(c) \/ Retry(c)
      BY <1>2, <2>5, <3>6 DEF BeginCommit, Resave, Retry, See, Goto, Register!vars
    <3>7. CASE Save(c)
      <4>1. CASE entry = "none"
        <5>1. Register!Commit(c)
          BY <1>2, <2>5, <3>7, <4>1 DEF Save, SaveRow, Return, Goto, Register!Commit
        <5> QED
          BY <5>1 DEF Register!Next
      <4>2. CASE entry # "none"
        BY <1>2, <2>5, <3>7, <4>2 DEF Save, SaveRow, Return, Goto, Register!vars
      <4> QED
        BY <1>2, <3>7, <4>1, <4>2 DEF Entries, Save
    <3>8. CASE Overwrite(c) \/ RetrySaved(c)
      <4>1. CASE entry' = "committed"
        <5>1. Register!Commit(c)
          BY <1>2, <2>5, <3>8, <4>1 DEF Overwrite, RetrySaved, SaveRow, OverwriteRow, Return, Goto, Written, Register!Commit
        <5> QED
          BY <5>1 DEF Register!Next
      <4>2. CASE entry' # "committed"
        <5>1. Register!Leave(c)
          BY <1>2, <2>5, <3>8, <4>2 DEF Overwrite, RetrySaved, SaveRow, OverwriteRow, Return, Goto, Written, Register!Leave
        <5> QED
          BY <5>1 DEF Register!Next
      <4> QED
        BY <1>2, <3>8, <4>1, <4>2 DEF Entries, Overwrite
    <3>9. CASE RetryStaged(c)
      <4>1. Register!LostClaim(c)
        BY <1>2, <2>5, <3>9 DEF RetryStaged, Goto, Register!Claimable, Register!LostClaim
      <4> QED
        BY <4>1 DEF Register!Next
    <3>10. CASE BeginFail(c)
      <4>1. CASE entry = "none"
        <5>1. Register!Leave(c)
          BY <1>2, <2>5, <3>10, <4>1 DEF BeginFail, See, Return, Goto, Register!Leave
        <5> QED
          BY <5>1 DEF Register!Next
      <4>2. CASE entry # "none"
        BY <1>2, <2>5, <3>10, <4>2 DEF BeginFail, See, Return, Goto, Register!vars
      <4> QED
        BY <1>2, <3>10, <4>1, <4>2 DEF Entries, BeginFail
    <3>11. CASE Fail(c) \/ RetryFailed(c)
      <4>1. CASE seen[c] # "failed"
        <5>1. Register!MarkFailed(c)
          BY <1>2, <2>5, <3>11, <4>1 DEF Fail, RetryFailed, FailRow, Return, Goto, Register!MarkFailed
        <5> QED
          BY <5>1 DEF Register!Next
      <4>2. CASE seen[c] = "failed"
        <5>1. Register!Leave(c)
          BY <1>2, <2>5, <3>11, <4>2 DEF Fail, RetryFailed, FailRow, Return, Goto, Register!Leave
        <5> QED
          BY <5>1 DEF Register!Next
      <4> QED
        BY <1>2, <3>11, <4>1, <4>2 DEF Entries, Fail
    <3> QED
      BY <2>5, <3>1, <3>2, <3>3, <3>4, <3>5, <3>6, <3>7, <3>8, <3>9, <3>10, <3>11
  <2> QED
    BY <1>2, <2>1, <2>2, <2>3, <2>4, <2>5 DEF Next, RedisNext, SqlNext
<1> QED
  BY InvHolds, <1>1, <1>2, PTL DEF Spec, ImplementsRegister, Register!Spec
==============================================================================
