----------------------------- MODULE PauseLifecycle -----------------------------
(***************************************************************************)
(* What the engine promises about one pause id, whatever the engine does   *)
(* inside: an id is opened once, its outcome is decided once - by the one  *)
(* resume that claimed it, or by the end of its execution when nobody had  *)
(* claimed it - and a decided outcome never changes.  A host restart may   *)
(* lose every id it finds, and a lost id never comes back.                 *)
(* (packages/core/execution/src/engine.ts, comments at 453-469, 545-548,   *)
(* 575-579 and 602-610.)                                                   *)
(***************************************************************************)
CONSTANTS
  Ids,
  Results,
  Nothing     \* the result of an id that has none yet

VARIABLES
  status,     \* id -> "unborn", "open", "claimed", "settled", "lost"
  result      \* id -> what was decided

vars == <<status, result>>

Init ==
  /\ status = [p \in Ids |-> "unborn"]
  /\ result = [p \in Ids |-> Nothing]

Open(p) ==
  /\ status[p] = "unborn"
  /\ status' = [status EXCEPT ![p] = "open"]
  /\ UNCHANGED result

Claim(p) ==
  /\ status[p] = "open"
  /\ status' = [status EXCEPT ![p] = "claimed"]
  /\ UNCHANGED result

\* The ids of S are decided together: all the open ones of an execution that
\* ended, or the one a resume had claimed.
Settle(S, r) ==
  /\ \A p \in S : status[p] \in {"open", "claimed"}
  /\ status' = [p \in Ids |-> IF p \in S THEN "settled" ELSE status[p]]
  /\ result' = [p \in Ids |-> IF p \in S THEN r ELSE result[p]]

LoseAll ==
  /\ status' = [p \in Ids |-> IF status[p] = "unborn" THEN "unborn" ELSE "lost"]
  /\ UNCHANGED result

Next ==
  \/ \E p \in Ids : Open(p)
  \/ \E p \in Ids : Claim(p)
  \/ \E S \in SUBSET Ids, r \in Results : Settle(S, r)
  \/ LoseAll

Spec == Init /\ [][Next]_vars

===============================================================================
