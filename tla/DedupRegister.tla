---------------------------- MODULE DedupRegister ----------------------------
(***************************************************************************)
(* What an exactly-once backend promises for one DedupKey                  *)
(* (pipeline/exactly_once.py, the DedupBackend protocol and the module     *)
(* docstring): check_and_stage, commit and mark_failed each take effect at *)
(* one instant.  NEW is answered only to a caller that turns a free key    *)
(* into a staged one, COMMITTED only while the key is committed, and a     *)
(* prior attempt that died is answered STAGED, never COMMITTED.            *)
(*                                                                         *)
(* A register that is not exclusive promises all of this except that the   *)
(* key was free when it was claimed.                                       *)
(***************************************************************************)
CONSTANTS Callers

VARIABLES
  state,      \* "free", "staged" or "committed"
  answer,     \* answer[c]: the decision c is acting on, or "none"
  exclusive   \* TRUE: only a free key is claimed

vars == <<state, answer, exclusive>>

Init ==
  /\ state = "free"
  /\ answer = [c \in Callers |-> "none"]
  /\ exclusive \in BOOLEAN

Claimable == state = "free" \/ ~exclusive

Claim(c) ==
  /\ answer[c] = "none"
  /\ Claimable
  /\ state' = "staged"
  /\ answer' = [answer EXCEPT ![c] = "new"]
  /\ UNCHANGED exclusive

\* A prior attempt has not committed (or its key has just gone): redo.
Redo(c) ==
  /\ answer[c] = "none"
  /\ state # "committed"
  /\ answer' = [answer EXCEPT ![c] = "staged"]
  /\ UNCHANGED <<state, exclusive>>

\* COMMITTED, or TTL_EXPIRED_REVERIFY when the commit is older than the TTL.
Duplicate(c) ==
  /\ answer[c] = "none"
  /\ state = "committed"
  /\ \E decision \in {"committed", "reverify"} :
       answer' = [answer EXCEPT ![c] = decision]
  /\ UNCHANGED <<state, exclusive>>

Commit(c) ==
  /\ answer[c] # "committed"
  /\ state' = "committed"
  /\ answer' = [answer EXCEPT ![c] = "none"]
  /\ UNCHANGED exclusive

MarkFailed(c) ==
  /\ answer[c] # "committed"
  /\ state' = "free"
  /\ answer' = [answer EXCEPT ![c] = "none"]
  /\ UNCHANGED exclusive

\* The caller returns or dies, or learns nothing from an unavailable backend.
Leave(c) ==
  /\ answer' = [answer EXCEPT ![c] = "none"]
  /\ UNCHANGED <<state, exclusive>>

\* A check_and_stage that raised may still have staged the key.
LostClaim(c) ==
  /\ answer[c] = "none"
  /\ Claimable
  /\ state' = "staged"
  /\ UNCHANGED <<answer, exclusive>>

\* The key expires.
Forget ==
  /\ state' = "free"
  /\ UNCHANGED <<answer, exclusive>>

Next ==
  \/ \E c \in Callers :
       \/ Claim(c) \/ Redo(c) \/ Duplicate(c) \/ Commit(c)
       \/ MarkFailed(c) \/ Leave(c) \/ LostClaim(c)
  \/ Forget

Spec == Init /\ [][Next]_vars
==============================================================================
