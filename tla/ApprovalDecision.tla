---------------------------- MODULE ApprovalDecision ----------------------------
(***************************************************************************)
(* What the lease on approvals promises about each of them: it is decided  *)
(* at most once, while it is open; nobody's silence decides it once a      *)
(* human was told that the answer is recorded; and it may be lost with the *)
(* runtime that asked.                                                     *)
(* (agent-session-durable-object.ts, PAUSED_APPROVAL_TIMEOUT_MS and the    *)
(* doc of expirePendingApproval; engine.ts, resumeExecution.)              *)
(***************************************************************************)
CONSTANTS
  Questions,
  AnswerSet,
  Human,     \* the answer of a human, one of AnswerSet
  Timeout,   \* the decline for want of an answer, another
  NoAnswer

VARIABLES
  stage,     \* question -> "unasked", "open", "decided", "lost"
  decision,  \* question -> the answer it was decided with
  told       \* questions whose human was told that the answer is recorded

vars == <<stage, decision, told>>

Init ==
  /\ stage = [x \in Questions |-> "unasked"]
  /\ decision = [x \in Questions |-> NoAnswer]
  /\ told = {}

Ask(x) ==
  /\ stage[x] = "unasked"
  /\ stage' = [stage EXCEPT ![x] = "open"]
  /\ UNCHANGED <<decision, told>>

\* The human's answer is recorded and waits to be taken.
Tell(x) ==
  /\ stage[x] = "open"
  /\ told' = told \cup {x}
  /\ UNCHANGED <<stage, decision>>

Decide(x, a) ==
  /\ stage[x] = "open"
  /\ a = Timeout => x \notin told
  /\ stage' = [stage EXCEPT ![x] = "decided"]
  /\ decision' = [decision EXCEPT ![x] = a]
  /\ told' = IF a = Human THEN told \cup {x} ELSE told

\* A question may be lost as soon as it is asked, of a runtime that is gone.
Lose(S) ==
  /\ stage' = [x \in Questions |-> IF x \in S THEN "lost" ELSE stage[x]]
  /\ UNCHANGED <<decision, told>>

Next ==
  \/ \E x \in Questions : Ask(x) \/ Tell(x) \/ \E a \in AnswerSet : Decide(x, a)
  \/ \E S \in SUBSET Questions : Lose(S)

Spec == Init /\ [][Next]_vars

===============================================================================
