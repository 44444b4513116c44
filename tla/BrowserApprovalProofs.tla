------------------------ MODULE BrowserApprovalProofs ------------------------
(* Theorems about BrowserApproval, for every set of executions, resumes and   *)
(* browsers.                                                                  *)
EXTENDS BrowserApproval, TLAPS

LEMMA TypeInit == Init => TypeOK
BY DeferredsAssumption DEF Init, TypeOK, IdleResume, IdleBrowser, Actions, Deferreds

LEMMA TypeStep == TypeOK /\ [Next]_vars => TypeOK'
<1> SUFFICES ASSUME TypeOK, [Next]_vars PROVE TypeOK'
  OBVIOUS
<1> USE DeferredsAssumption DEF TypeOK, Deferreds, Actions
<1>1. ASSUME NEW x \in Executions, Pauses(x) \/ SandboxEnds(x) \/ DisposeSession(x)
      PROVE TypeOK'
  BY <1>1 DEF Pauses, SandboxEnds, DisposeSession
<1>2. ASSUME NEW r \in Resumes, NEW x \in Executions, ResumeTakes(r, x)
      PROVE TypeOK'
  BY <1>2 DEF ResumeTakes, Asks, TakesTo, EngineResumes
<1>3. ASSUME NEW r \in Resumes, NEW x \in Executions, NEW d \in Deferreds, ResumeWaits(r, x, d)
      PROVE TypeOK'
  <2>1. /\ waiters' \in [Executions -> Deferreds \cup {NoDeferred}]
        /\ completed' \subseteq Deferreds
    <3>1. CASE waiters[x] # NoDeferred
      BY <1>3, <3>1, Zenon DEF ResumeWaits
    <3>2. CASE waiters[x] = NoDeferred
      <4>1. waiters' = [waiters EXCEPT ![x] = d] /\ completed' = completed \ {d}
        BY <1>3, <3>2, Zenon DEF ResumeWaits
      <4> QED
        BY <4>1
    <3> QED
      BY <3>1, <3>2
  <2>2. resume' \in [Resumes -> {IdleResume} \cup
                       [at : {"waiting"}, exec : Executions, on : Deferreds]]
    BY <1>3 DEF ResumeWaits
  <2> QED
    BY <1>3, <2>1, <2>2 DEF ResumeWaits
<1>4. ASSUME NEW r \in Resumes, Wakes(r) \/ TimesOut(r)
      PROVE TypeOK'
  <2>1. resume[r].at = "waiting" /\ StopsWaiting(r)
    BY <1>4 DEF Wakes, TimesOut
  <2>2. resume[r].exec \in Executions
    BY <2>1 DEF IdleResume
  <2>3. /\ resume' \in [Resumes -> {IdleResume} \cup
                          [at : {"waiting"}, exec : Executions, on : Deferreds]]
        /\ waiters' \in [Executions -> Deferreds \cup {NoDeferred}]
    BY <2>1, <2>2 DEF StopsWaiting
  <2>4. ASSUME TakesTo(resume[r].exec), responses[resume[r].exec] # NoAction
        PROVE  /\ engine' \in [Executions -> {"running", "paused", "settled"}]
               /\ delivered' \in [Executions -> Actions \cup {NoAction}]
               /\ responses' \in [Executions -> Actions \cup {NoAction}]
    <3>1. responses[resume[r].exec] \in Actions
      BY <2>2, <2>4
    <3> QED
      BY <2>2, <2>4, <3>1 DEF TakesTo, EngineResumes
  <2> HIDE DEF TypeOK
  <2>5. \/ UNCHANGED <<engine, delivered, responses>>
        \/ responses[resume[r].exec] # NoAction /\ TakesTo(resume[r].exec)
    BY <1>4, Zenon DEF Wakes, TimesOut
  <2>6. UNCHANGED <<closed, completed, browser>>
    BY <1>4 DEF Wakes, TimesOut
  <2> QED
    BY <2>3, <2>4, <2>5, <2>6 DEF TypeOK
<1>5. ASSUME NEW b \in Browsers, NEW x \in Executions, NEW action \in Actions, Checks(b, x, action)
      PROVE TypeOK'
  BY <1>5 DEF Checks
<1>6. ASSUME NEW b \in Browsers, Records(b) \/ Rejects(b)
      PROVE TypeOK'
  <2>1. browser[b] \in [at : {"checked"}, exec : Executions, action : Actions]
    BY <1>6 DEF Records, Rejects, IdleBrowser
  <2>2. browser[b].exec \in Executions /\ browser[b].action \in Actions
    BY <2>1
  <2>3. waiters[browser[b].exec] \in Deferreds \cup {NoDeferred}
    BY <2>2
  <2>4. completed' \subseteq Deferreds
    <3>1. CASE Rejects(b)
      BY <3>1 DEF Rejects
    <3>2. CASE Records(b) /\ waiters[browser[b].exec] = NoDeferred
      BY <3>2 DEF Records
    <3>3. CASE Records(b) /\ waiters[browser[b].exec] # NoDeferred
      <4>1. completed' = completed \cup {waiters[browser[b].exec]}
        BY <3>3, Zenon DEF Records
      <4> QED
        BY <4>1, <3>3, <2>3
    <3> QED
      BY <1>6, <3>1, <3>2, <3>3
  <2> QED
    BY <1>6, <2>1, <2>2, <2>4 DEF Records, Rejects
<1>7. ASSUME UNCHANGED vars PROVE TypeOK'
  BY <1>7 DEF vars
<1> QED
  BY <1>1, <1>2, <1>3, <1>4, <1>5, <1>6, <1>7 DEF Next

(* The store, the calls that wait on it and the requests that write to it     *)
(* keep their types (makeInProcessBrowserApprovalStore and its callers).      *)
THEOREM BrowserTypes == Spec => []TypeOK
BY TypeInit, TypeStep, PTL DEF Spec

---------------------------------------------------------------------------
(* No resume sleeps through an answer. *)

LEMMA WakeInit == Init => SharedWaitersWake
BY DEF Init, SharedWaitersWake

LEMMA WakeStep == TypeOK /\ SharedWaitersWake /\ [Next]_vars => SharedWaitersWake'
<1> SUFFICES ASSUME TypeOK, SharedWaitersWake, [Next]_vars,
                    NEW y \in Executions, responses[y]' # NoAction, waiters[y]' # NoDeferred
             PROVE  waiters[y]' \in completed'
  BY DEF SharedWaitersWake
<1> USE DEF SharedWaitersWake, TypeOK
<1>1. ASSUME NEW x \in Executions, Pauses(x) \/ SandboxEnds(x) \/ DisposeSession(x)
      PROVE waiters[y]' \in completed'
  BY <1>1 DEF Pauses, SandboxEnds, DisposeSession
<1>2. ASSUME NEW r \in Resumes, NEW x \in Executions, ResumeTakes(r, x)
      PROVE waiters[y]' \in completed'
  BY <1>2 DEF ResumeTakes, TakesTo
<1>3. ASSUME NEW r \in Resumes, NEW x \in Executions, NEW d \in Deferreds, ResumeWaits(r, x, d)
      PROVE waiters[y]' \in completed'
  <2>1. responses[y] # NoAction /\ y # x
    BY <1>3 DEF ResumeWaits
  <2>2. waiters[y]' = waiters[y] /\ waiters[y] \in completed
    BY <1>3, <2>1 DEF ResumeWaits
  <2>3. waiters[x] = NoDeferred => d # waiters[y]
    BY <1>3 DEF ResumeWaits, Mints
  <2> QED
    BY <1>3, <2>2, <2>3 DEF ResumeWaits
<1>4. ASSUME NEW r \in Resumes, Wakes(r) \/ TimesOut(r)
      PROVE waiters[y]' \in completed'
  <2>1. resume[r].exec \in Executions
    BY <1>4 DEF Wakes, TimesOut, IdleResume
  <2>2. waiters[y]' = waiters[y] /\ responses[y] # NoAction
    BY <1>4, <2>1 DEF Wakes, TimesOut, StopsWaiting, TakesTo
  <2> QED
    BY <1>4, <2>2 DEF Wakes, TimesOut
<1>5. ASSUME NEW b \in Browsers, NEW x \in Executions, NEW action \in Actions, Checks(b, x, action)
      PROVE waiters[y]' \in completed'
  BY <1>5 DEF Checks
<1>6. ASSUME NEW b \in Browsers, Records(b)
      PROVE waiters[y]' \in completed'
  <2>1. CASE y = browser[b].exec
    BY <1>6, <2>1 DEF Records
  <2>2. CASE y # browser[b].exec
    BY <1>6, <2>2 DEF Records
  <2> QED
    BY <2>1, <2>2
<1>7. ASSUME NEW b \in Browsers, Rejects(b)
      PROVE waiters[y]' \in completed'
  BY <1>7 DEF Rejects
<1>8. ASSUME UNCHANGED vars
      PROVE waiters[y]' \in completed'
  BY <1>8 DEF vars
<1> QED
  BY <1>1, <1>2, <1>3, <1>4, <1>5, <1>6, <1>7, <1>8 DEF Next

(* While an answer is stored, the Deferred its execution's resumes share has  *)
(* been completed (waitFor looks before it waits, recordResponse completes).  *)
THEOREM SharedWaitersAwake == Spec => []SharedWaitersWake
BY TypeInit, TypeStep, WakeInit, WakeStep, PTL DEF Spec

---------------------------------------------------------------------------
(* The map of waiters holds nothing that nobody waits on. *)

LEMMA InUseInit == Init => WaitersAreInUse
BY DEF Init, WaitersAreInUse

LEMMA InUseStep == TypeOK /\ WaitersAreInUse /\ [Next]_vars => WaitersAreInUse'
<1> DEFINE Uses(r, y) == resume[r] = [at |-> "waiting", exec |-> y, on |-> waiters[y]]
<1> SUFFICES ASSUME TypeOK, WaitersAreInUse, [Next]_vars,
                    NEW y \in Executions, waiters[y]' # NoDeferred
             PROVE  \E q \in Resumes : Uses(q, y)'
  BY DEF WaitersAreInUse
<1>1. CASE UNCHANGED <<resume, waiters>>
  BY <1>1 DEF WaitersAreInUse
<1>2. ASSUME NEW r \in Resumes, NEW x \in Executions, NEW d \in Deferreds, ResumeWaits(r, x, d)
      PROVE \E q \in Resumes : Uses(q, y)'
  <2>1. resume' = [resume EXCEPT ![r] = [at |-> "waiting", exec |-> x, on |-> d]]
    BY <1>2 DEF ResumeWaits
  <2>2. CASE y = x
    <3>1. waiters[x]' = d
      BY <1>2 DEF ResumeWaits, TypeOK
    <3>2. Uses(r, y)'
      BY <2>1, <2>2, <3>1 DEF TypeOK
    <3> QED
      BY <3>2
  <2>3. CASE y # x
    <3>1. waiters[y]' = waiters[y]
      BY <1>2, <2>3 DEF ResumeWaits, TypeOK
    <3>2. PICK q \in Resumes : Uses(q, y)
      BY <3>1 DEF WaitersAreInUse
    <3>3. q # r
      BY <3>2, <1>2 DEF ResumeWaits, Asks, IdleResume
    <3>4. Uses(q, y)'
      BY <2>1, <3>1, <3>2, <3>3 DEF TypeOK
    <3> QED
      BY <3>4
  <2> QED
    BY <2>2, <2>3
<1>3. ASSUME NEW r \in Resumes, Wakes(r) \/ TimesOut(r)
      PROVE \E q \in Resumes : Uses(q, y)'
  <2>1. resume[r].at = "waiting" /\ StopsWaiting(r)
    BY <1>3 DEF Wakes, TimesOut
  <2>2. waiters[y]' = waiters[y] /\ ~ (y = resume[r].exec /\ waiters[y] = resume[r].on)
    BY <2>1 DEF StopsWaiting, TypeOK
  <2>3. PICK q \in Resumes : Uses(q, y)
    BY <2>2 DEF WaitersAreInUse
  <2>4. q # r
    BY <2>2, <2>3
  <2>5. Uses(q, y)'
    BY <2>1, <2>2, <2>3, <2>4 DEF StopsWaiting, TypeOK
  <2> QED
    BY <2>5
<1> QED
  BY <1>1, <1>2, <1>3
  DEF Next, vars, Pauses, SandboxEnds, DisposeSession, ResumeTakes, Checks, Records, Rejects

(* The `ensuring` of waitFor takes a Deferred out of the map no later than    *)
(* the last call that waits on it ends, however calls overlap and time out.   *)
THEOREM WaitersInUse == Spec => []WaitersAreInUse
BY TypeInit, TypeStep, InUseInit, InUseStep, PTL DEF Spec

---------------------------------------------------------------------------
(* The store implements HumanAnswer. *)

(* An answer, or a request about to record one, is about an execution that    *)
(* has paused; and only an execution that is settled was given an answer.     *)
Asked ==
  /\ \A x \in Executions : responses[x] # NoAction => engine[x] # "running"
  /\ \A x \in Executions : delivered[x] # NoAction => engine[x] = "settled"
  /\ \A b \in Browsers : browser[b].at = "checked" => engine[browser[b].exec] # "running"

LEMMA AskedInit == Init => Asked
BY DEF Init, Asked, IdleBrowser

LEMMA AskedStep == TypeOK /\ Asked /\ [Next]_vars => Asked'
<1> SUFFICES ASSUME TypeOK, Asked, [Next]_vars PROVE Asked'
  OBVIOUS
<1>0. \A b \in Browsers : browser[b].at = "checked" => browser[b].exec \in Executions
  BY DEF TypeOK, IdleBrowser
<1> USE <1>0 DEF TypeOK, Asked
<1>1. ASSUME NEW x \in Executions, Pauses(x) \/ SandboxEnds(x) \/ DisposeSession(x)
      PROVE Asked'
  BY <1>1 DEF Pauses, SandboxEnds, DisposeSession
<1>2. ASSUME NEW r \in Resumes, NEW x \in Executions, ResumeTakes(r, x)
      PROVE Asked'
  <2>1. CASE engine[x] = "paused"
    BY <1>2, <2>1 DEF ResumeTakes, TakesTo, EngineResumes
  <2>2. CASE engine[x] # "paused"
    BY <1>2, <2>2 DEF ResumeTakes, TakesTo, EngineResumes
  <2> QED
    BY <2>1, <2>2
<1>3. ASSUME NEW r \in Resumes, NEW x \in Executions, NEW d \in Deferreds, ResumeWaits(r, x, d)
      PROVE Asked'
  BY <1>3 DEF ResumeWaits
<1>4. ASSUME NEW r \in Resumes, Wakes(r) \/ TimesOut(r)
      PROVE Asked'
  <2>1. resume[r].exec \in Executions
    BY <1>4 DEF Wakes, TimesOut, IdleResume
  <2> QED
    BY <1>4, <2>1 DEF Wakes, TimesOut, TakesTo, EngineResumes
<1>5. ASSUME NEW b \in Browsers, NEW x \in Executions, NEW action \in Actions, Checks(b, x, action)
      PROVE Asked'
  BY <1>5 DEF Checks
<1>6. ASSUME NEW b \in Browsers, Records(b) \/ Rejects(b)
      PROVE Asked'
  BY <1>6 DEF Records, Rejects, IdleBrowser
<1>7. ASSUME UNCHANGED vars PROVE Asked'
  BY <1>7 DEF vars
<1> QED
  BY <1>1, <1>2, <1>3, <1>4, <1>5, <1>6, <1>7 DEF Next

(* A step that changes what HumanAnswer sees of one execution at most, and    *)
(* changes it as HumanAnswer may.                                             *)
Same(x) == Stage(x)' = Stage(x) /\ AnswerTo(x)' = AnswerTo(x)

Moves(x) ==
  \/ Stage(x) = "unasked" /\ Stage(x)' = "asked" /\ AnswerTo(x)' = AnswerTo(x)
  \/ Stage(x) \in {"asked", "answered"} /\ Stage(x)' = "answered" /\ AnswerTo(x)' \in Actions
  \/ Stage(x) = "answered" /\ Stage(x)' = "used" /\ AnswerTo(x)' = AnswerTo(x)
  \/ Stage(x) \in {"asked", "answered"} /\ Stage(x)' = "closed" /\ AnswerTo(x)' = NoAction

LEMMA MoveIsAStep ==
  ASSUME NEW x \in Executions, Moves(x) \/ Same(x),
         \A y \in Executions \ {x} : Same(y)
  PROVE  [Answers!Next]_(Answers!vars)
<1>1. CASE Same(x)
  <2>1. [y \in Executions |-> Stage(y)]' = [y \in Executions |-> Stage(y)]
    BY <1>1 DEF Same
  <2>2. [y \in Executions |-> AnswerTo(y)]' = [y \in Executions |-> AnswerTo(y)]
    BY <1>1 DEF Same
  <2> QED
    BY <2>1, <2>2 DEF Answers!vars
<1>2. CASE Moves(x)
  <2>1. /\ [y \in Executions |-> Stage(y)]' =
             [[y \in Executions |-> Stage(y)] EXCEPT ![x] = Stage(x)']
        /\ [y \in Executions |-> AnswerTo(y)]' =
             [[y \in Executions |-> AnswerTo(y)] EXCEPT ![x] = AnswerTo(x)']
    BY DEF Same
  <2>2. AnswerTo(x)' = AnswerTo(x) =>
          [y \in Executions |-> AnswerTo(y)]' = [y \in Executions |-> AnswerTo(y)]
    BY DEF Same
  <2>3. Answers!Ask(x) \/ (\E a \in Actions : Answers!Give(x, a)) \/ Answers!Use(x) \/ Answers!Close(x)
    BY <1>2, <2>1, <2>2 DEF Moves, Answers!Ask, Answers!Give, Answers!Use, Answers!Close
  <2> QED
    BY <2>3 DEF Answers!Next
<1> QED
  BY <1>1, <1>2

LEMMA EveryStepMoves ==
  ASSUME TypeOK, Asked, [Next]_vars
  PROVE  [Answers!Next]_(Answers!vars)
<1> USE DEF Moves, Same, Stage, AnswerTo
<1>1. ASSUME NEW x \in Executions, Pauses(x) \/ SandboxEnds(x) \/ DisposeSession(x)
      PROVE [Answers!Next]_(Answers!vars)
  <2>1. Moves(x) \/ Same(x)
    BY <1>1 DEF Pauses, SandboxEnds, DisposeSession, TypeOK, Asked
  <2>2. \A y \in Executions \ {x} : Same(y)
    BY <1>1 DEF Pauses, SandboxEnds, DisposeSession, TypeOK
  <2> QED
    BY <2>1, <2>2, MoveIsAStep
<1>2. ASSUME NEW x \in Executions, responses[x] # NoAction, TakesTo(x)
      PROVE [Answers!Next]_(Answers!vars)
  <2>1. Moves(x) \/ Same(x)
    BY <1>2 DEF TakesTo, EngineResumes, TypeOK, Asked
  <2>2. \A y \in Executions \ {x} : Same(y)
    BY <1>2 DEF TakesTo, EngineResumes, TypeOK
  <2> QED
    BY <2>1, <2>2, MoveIsAStep
<1>3. ASSUME NEW b \in Browsers, Records(b)
      PROVE [Answers!Next]_(Answers!vars)
  <2>1. PICK x \in Executions, a \in Actions : x = browser[b].exec /\ a = browser[b].action
    BY <1>3 DEF Records, TypeOK, IdleBrowser
  <2>2. /\ UNCHANGED <<engine, delivered>>
        /\ engine[x] # "running"
        /\ responses[x]' = a
        /\ \A y \in Executions \ {x} : responses[y]' = responses[y]
    BY <1>3, <2>1 DEF Records, Asked, TypeOK
  <2>3. engine[x] = "paused" => Moves(x)
    BY <2>2 DEF Actions, NoAction
  <2>4. engine[x] = "settled" => Same(x)
    BY <2>2
  <2>5. \A y \in Executions \ {x} : Same(y)
    BY <2>2
  <2> QED
    BY <2>2, <2>3, <2>4, <2>5, MoveIsAStep DEF TypeOK
<1>4. ASSUME UNCHANGED <<engine, delivered, responses>>
      PROVE [Answers!Next]_(Answers!vars)
  BY <1>4 DEF Answers!vars
<1>5. ASSUME NEW r \in Resumes, Wakes(r)
      PROVE [Answers!Next]_(Answers!vars)
  <2>1. resume[r].exec \in Executions
    BY <1>5 DEF Wakes, TypeOK, IdleResume
  <2>2. \/ UNCHANGED <<engine, delivered, responses>>
        \/ responses[resume[r].exec] # NoAction /\ TakesTo(resume[r].exec)
    <3>1. CASE responses[resume[r].exec] # NoAction
      BY <1>5, <3>1, Zenon DEF Wakes
    <3>2. CASE responses[resume[r].exec] = NoAction
      BY <1>5, <3>2, Zenon DEF Wakes
    <3> QED
      BY <3>1, <3>2
  <2> QED
    BY <2>1, <2>2, <1>2, <1>4
<1> QED
  BY <1>1, <1>2, <1>3, <1>4, <1>5
  DEF Next, vars, ResumeTakes, ResumeWaits, TimesOut, Checks, Rejects

(* The store, with the calls that wait on it and the endpoint that writes to  *)
(* it, implements HumanAnswer: the engine gets the latest answer, once, and   *)
(* no wake-up, timeout or late call loses it.                                 *)
THEOREM StoreImplementsHumanAnswer == Spec => ImplementsHumanAnswer
<1>1. Init => Answers!Init
  BY DEF Init, Answers!Init, Stage, AnswerTo
<1> QED
  BY <1>1, TypeInit, TypeStep, AskedInit, AskedStep, EveryStepMoves, PTL
  DEF Spec, ImplementsHumanAnswer, Answers!Spec

===============================================================================
