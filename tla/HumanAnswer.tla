------------------------------ MODULE HumanAnswer ------------------------------
(***************************************************************************)
(* What an approval store promises about one question to a human: whoever  *)
(* carries the answer to the execution carries the latest one the human    *)
(* gave, carries it once, and an answer given is there until then.  The    *)
(* execution may end by itself, which closes the question.                 *)
(* (packages/hosts/mcp/src/browser-approval-store.ts, comments at 5-12 and *)
(* 24-27; tool-server.ts, BrowserApprovalStore.)                           *)
(***************************************************************************)
CONSTANTS
  Questions,
  AnswerSet,
  NoAnswer

VARIABLES
  stage,   \* question -> "unasked", "asked", "answered", "used", "closed"
  answer   \* question -> the latest answer, then the one that was used

vars == <<stage, answer>>

Init ==
  /\ stage = [x \in Questions |-> "unasked"]
  /\ answer = [x \in Questions |-> NoAnswer]

Ask(x) ==
  /\ stage[x] = "unasked"
  /\ stage' = [stage EXCEPT ![x] = "asked"]
  /\ UNCHANGED answer

Give(x, a) ==
  /\ stage[x] \in {"asked", "answered"}
  /\ stage' = [stage EXCEPT ![x] = "answered"]
  /\ answer' = [answer EXCEPT ![x] = a]

Use(x) ==
  /\ stage[x] = "answered"
  /\ stage' = [stage EXCEPT ![x] = "used"]
  /\ UNCHANGED answer

Close(x) ==
  /\ stage[x] \in {"asked", "answered"}
  /\ stage' = [stage EXCEPT ![x] = "closed"]
  /\ answer' = [answer EXCEPT ![x] = NoAnswer]

Next == \E x \in Questions :
  \/ Ask(x)
  \/ \E a \in AnswerSet : Give(x, a)
  \/ Use(x)
  \/ Close(x)

Spec == Init /\ [][Next]_vars

===============================================================================
