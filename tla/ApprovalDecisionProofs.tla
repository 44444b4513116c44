------------------------- MODULE ApprovalDecisionProofs -------------------------
(* What a lease on an approval is for: something is always there to release   *)
(* it, and the leases, the answers, the calls that wait and the alarm         *)
(* together implement the promise about one approval (ApprovalDecision).      *)
EXTENDS ApprovalLeaseProofs

---------------------------------------------------------------------------
(* A lease has something that releases it. *)

Releaser(x) ==
  \/ start[lease[x]].timer # NoTimer
  \/ \E c \in Calls : InResume(c, x)
  \/ x \in expiry

\* What was there to release the lease of x is left alone.
LEMMA ReleaserStays ==
  ASSUME NEW x \in Executions, LeaseHasReleaser, lease[x] # NoLease,
         lease'[x] = lease[x],
         start'[lease[x]] = start[lease[x]] \/ start'[lease[x]].timer # NoTimer,
         x \in expiry => x \in expiry',
         \A c \in Calls : InResume(c, x) => call'[c] = call[c]
  PROVE  Releaser(x)'
<1>1. Releaser(x)
  BY DEF LeaseHasReleaser, Releaser
<1> QED
  BY <1>1 DEF Releaser, InResume

LEMMA LeaseHeld ==
  ASSUME LeaseTypes, NEW x \in Executions, lease[x] # NoLease
  PROVE  /\ lease[x] \in Starts /\ start[lease[x]].at = "held" /\ start[lease[x]].exec = x
         /\ \A y \in Executions : lease[y] = lease[x] => y = x
BY NamesAssumption DEF LeaseTypes, Entries

LEMMA DeliversResumes ==
  ASSUME OtherTypes, NEW x \in Executions, NEW a, Delivers(x, a)
  PROVE  /\ \E c \in Calls : InResume(c, x)'
         /\ \A d \in Calls, y \in Executions : InResume(d, y) => call'[d] = call[d]
<1>1. PICK c \in Calls :
        /\ Waits(c, x)
        /\ call' = [d \in Calls |->
             CASE d = c -> [at |-> "resuming", exec |-> x, known |-> FALSE]
               [] d # c /\ Waits(d, x) -> IdleCall
               [] OTHER -> call[d]]
  BY Zenon DEF Delivers
<1>2. InResume(c, x)'
  BY <1>1 DEF InResume
<1>3. ASSUME NEW d \in Calls, NEW y \in Executions, InResume(d, y)
      PROVE  call'[d] = call[d]
  <2>1. ~Waits(d, x) /\ d # c
    BY <1>1, <1>3 DEF Waits, InResume
  <2> QED
    BY <1>1, <2>1
<1> QED
  BY <1>2, <1>3

\* A resume of y begins: it is what releases the lease of y from now on.
LEMMA ResumesRelease ==
  ASSUME LeaseTypes, OtherTypes, LeaseHasReleaser, NEW y \in Executions, NEW a, NEW k,
         NEW c \in Calls, call[c] = IdleCall, Resumes(c, k, y, a), k \in {"resuming", "forwarded"},
         UNCHANGED <<lease, expiring, expiry>>,
         NEW x \in Executions, lease'[x] # NoLease
  PROVE  Releaser(x)'
<1>1. \A d \in Calls : call'[d] = IF d = c THEN [at |-> k, exec |-> y, known |-> FALSE]
                                  ELSE call[d]
  BY DEF Resumes, OtherTypes
<1>2. CASE x = y
  BY <1>1, <1>2 DEF Releaser, InResume
<1>3. CASE x # y
  <2>1. start'[lease[x]] = start[lease[x]]
    BY <1>3, LeaseHeld, ReleaseEffect DEF Resumes
  <2> QED
    BY <1>1, <2>1, ReleaserStays DEF IdleCall, InResume
<1> QED
  BY <1>2, <1>3

LEMMA ReleaserStep ==
  ASSUME LeaseTypes, EngineTypes, OtherTypes, LeaseHasReleaser, [Next]_vars
  PROVE  LeaseHasReleaser'
<1> SUFFICES ASSUME NEW x \in Executions, lease'[x] # NoLease
             PROVE  Releaser(x)'
  BY DEF LeaseHasReleaser, Releaser
\* Steps that leave the leases, the expiries and the calls alone.
<1>1. ASSUME UNCHANGED <<lease, expiry, call>>,
             \A t \in Starts : start[t].at = "held" =>
               start'[t] = start[t] \/ start'[t].timer # NoTimer
      PROVE  Releaser(x)'
  BY <1>1, LeaseHeld, ReleaserStays
\* Steps that take the lease of y, or whose release of it is decided.
<1>2. ASSUME NEW y \in Executions, y # x,
             \A z \in Executions \ {y} : lease'[z] = lease[z],
             \A t \in Starts : start'[t] = start[t] \/ start[t].exec = y,
             expiry \ {y} \subseteq expiry',
             \A c \in Calls : InResume(c, x) => call'[c] = call[c] \/ call[c].exec = y
      PROVE  Releaser(x)'
  BY <1>2, LeaseHeld, ReleaserStays DEF InResume
<1>3. ASSUME NEW t \in Starts, NEW y \in Executions, Reports(t, y)
      PROVE  Releaser(x)'
  BY <1>1, <1>3 DEF Reports, BeginsLease, IdleStart, LeaseTypes
<1>4. ASSUME NEW t \in Starts, Arms(t)
      PROVE  Releaser(x)'
  <2>1. PICK y \in Executions : y = start[t].exec
    BY <1>4, StartFields DEF Arms
  <2>2. /\ \A s \in Starts : start'[s] = IF s = t THEN [at |-> "held", exec |-> y, timer |-> 0]
                                         ELSE start[s]
        /\ \A z \in Executions : lease'[z] = IF z = y THEN t ELSE lease[z]
        /\ UNCHANGED <<expiry, call>>
    BY <1>4, <2>1 DEF Arms, LeaseTypes
  <2>3. CASE x = y
    <3>1. lease'[x] = t /\ start'[t].timer = 0
      BY <2>2, <2>3
    <3>2. NoTimer # 0
      BY ClockAssumption DEF NoTimer
    <3>3. start'[lease'[x]].timer # NoTimer
      BY <3>1, <3>2
    <3> QED
      BY <3>3 DEF Releaser
  <2>4. CASE x # y
    <3>1. start'[lease[x]] = start[lease[x]] \/ start'[lease[x]].timer # NoTimer
      <4>1. lease[x] \in Starts
        BY <2>2, <2>4 DEF LeaseTypes
      <4>2. CASE lease[x] = t
        <5>1. start'[lease[x]].timer = 0
          BY <2>2, <4>1, <4>2
        <5> QED
          BY <5>1, ClockAssumption DEF NoTimer
      <4> QED
        BY <2>2, <4>1, <4>2
    <3> QED
      BY <2>2, <2>4, <3>1, ReleaserStays
  <2> QED
    BY <2>3, <2>4
<1>5. ASSUME NEW t \in Starts, StartFails(t)
      PROVE  Releaser(x)'
  <2>1. UNCHANGED <<lease, expiry, call>> /\ start[t].at = "acquiring"
    BY <1>5 DEF StartFails
  <2>2. \A s \in Starts \ {t} : start'[s] = start[s]
    BY <1>5 DEF StartFails, LeaseTypes
  <2> QED
    BY <1>1, <2>1, <2>2
<1>6. ASSUME NEW c \in Calls, NEW y \in Executions, Asks(c, y)
      PROVE  Releaser(x)'
  <2>1. CASE Available(y) # NoAnswer
    BY <1>6, <2>1, ResumesRelease DEF Asks, TakesAndResumes
  <2>2. CASE Available(y) = NoAnswer
    <3>1. /\ UNCHANGED <<lease, expiry, start>> /\ call[c] = IdleCall
          /\ \A d \in Calls \ {c} : call'[d] = call[d]
      BY <1>6, <2>2 DEF Asks, OtherTypes
    <3> QED
      BY <3>1, ReleaserStays DEF IdleCall, InResume
  <2> QED
    BY <2>1, <2>2
<1>7. ASSUME NEW c \in Calls, NEW y \in Executions, ModelResumes(c, y)
      PROVE  Releaser(x)'
  BY <1>7, ResumesRelease DEF ModelResumes
<1>8. ASSUME NEW c \in Calls, StopsWaiting(c)
      PROVE  Releaser(x)'
  <2>1. /\ UNCHANGED <<lease, start, expiry>>
        /\ \A d \in Calls : InResume(d, x) => call'[d] = call[d]
    BY <1>8 DEF StopsWaiting, Waits, InResume, leases
  <2> QED
    BY <2>1, ReleaserStays
<1>9. ASSUME NEW c \in Calls, Finishes(c)
      PROVE  Releaser(x)'
  <2>1. PICK y \in Executions : y = call[c].exec
    BY <1>9, CallFields DEF Finishes, InResume
  <2>2. /\ Release(y) /\ expiry' = expiry
        /\ \A d \in Calls : call'[d] = call[d] \/ call[d].exec = y
    BY <1>9, <2>1 DEF Finishes, OtherTypes
  <2>3. y # x
    BY <2>2 DEF Release, LeaseTypes
  <2> QED
    BY <1>2, <2>2, <2>3, ReleaseEffect
<1>10. ASSUME NEW y \in Executions, ExpiryEnds(y)
       PROVE  Releaser(x)'
  <2>1. Release(y) /\ expiry' = expiry \ {y} /\ call' = call
    BY <1>10 DEF ExpiryEnds
  <2>2. y # x
    BY <2>1 DEF Release, LeaseTypes
  <2> QED
    BY <1>2, <2>1, <2>2, ReleaseEffect
<1>11. ASSUME NEW y \in Executions, HumanAnswers(y)
       PROVE  Releaser(x)'
  <2>1. CASE Delivers(y, "human") /\ StopsTimer(y)
    <3>1. UNCHANGED <<lease, expiring, expiry>>
      BY <1>11 DEF HumanAnswers
    <3>2. CASE x = y
      BY <2>1, <3>2, DeliversResumes DEF Releaser
    <3>3. CASE x # y
      BY <1>2, <2>1, <3>1, <3>3, DeliversResumes, ReleaseEffect
    <3> QED
      BY <3>2, <3>3
  <2>2. CASE Keeps(y, "human") /\ UNCHANGED start
    BY <1>1, <1>11, <2>2 DEF HumanAnswers, Keeps
  <2> QED
    BY <1>11, <2>1, <2>2 DEF HumanAnswers
<1>12. ASSUME NEW t \in Starts,
              ExpiresIdly(t) \/ DeclinesToWaiter(t) \/ DeclinesToNobody(t)
       PROVE  Releaser(x)'
  <2>1. PICK y \in Executions : y = start[t].exec
    BY <1>12, StartFields DEF ExpiresIdly, DeclinesToWaiter, DeclinesToNobody, Due
  <2>2. /\ Drops(t, y) /\ start[t].at = "held" /\ expiry' = expiry
        /\ call' = call \/ Delivers(y, "timeout")
    BY <1>12, <2>1 DEF ExpiresIdly, DeclinesToWaiter, DeclinesToNobody, Keeps, Due
  <2>3. \A d \in Calls : InResume(d, x) => call'[d] = call[d]
    BY <2>2, DeliversResumes
  <2>4. y # x
    BY <2>2 DEF Drops, LeaseTypes
  <2> QED
    BY <1>2, <2>1, <2>2, <2>3, <2>4, DropsEffect
<1>13. ASSUME NEW t \in Starts, DeclinesItself(t)
       PROVE  Releaser(x)'
  <2>1. PICK y \in Executions : y = start[t].exec
    BY <1>13, StartFields DEF DeclinesItself, Due
  <2>2. /\ lease' = lease /\ expiry' = expiry \cup {y} /\ start[t].at = "held"
        /\ lease[y] # NoLease
        /\ call' = call \/ Delivers(y, "timeout")
        /\ start' = [s \in Starts |->
             IF s \in {t, lease[y]} THEN [start[s] EXCEPT !.timer = NoTimer] ELSE start[s]]
    BY <1>13, <2>1 DEF DeclinesItself, NothingToDecline, Keeps, Due
  <2>3. \A d \in Calls : InResume(d, x) => call'[d] = call[d]
    BY <2>2, DeliversResumes
  <2>4. \A s \in Starts : start'[s] = start[s] \/ start[s].exec = y
    BY <2>1, <2>2, LeaseHeld
  <2>5. CASE x = y
    BY <2>2, <2>5 DEF Releaser
  <2>6. CASE x # y
    BY <1>2, <2>2, <2>3, <2>4, <2>6
  <2> QED
    BY <2>5, <2>6
<1>14. CASE Tick
  <2>1. ASSUME NEW t \in Starts, start[t].at = "held"
        PROVE  start'[t] = start[t] \/ start'[t].timer # NoTimer
    <3>1. start[t] \in [at : {"held"}, exec : Executions, timer : 0 .. ApprovalTimeout \cup {NoTimer}]
      BY <2>1 DEF LeaseTypes, StartStates, IdleStart
    <3>2. start'[t] = IF start[t].timer < ApprovalTimeout
                      THEN [start[t] EXCEPT !.timer = @ + 1] ELSE start[t]
      BY <1>14 DEF Tick
    <3>3. CASE start[t].timer < ApprovalTimeout
      BY <3>1, <3>2, <3>3, ClockAssumption DEF NoTimer
    <3> QED
      BY <3>2, <3>3
  <2> QED
    BY <1>1, <1>14, <2>1 DEF Tick
<1>15. ASSUME NEW work \in BOOLEAN, DisposeBegins(work)
       PROVE  Releaser(x)'
  BY <1>15 DEF DisposeBegins, ReleasesAll
<1>18. CASE Restores
  BY <1>18 DEF Restores, ReleasesAll
<1>16. CASE Evicts
  BY <1>16 DEF Evicts
<1>17. CASE \/ \E y \in Executions : Pauses(y) \/ SandboxEnds(y)
            \/ DisposeEnds \/ OtherRequest \/ UNCHANGED vars
  BY <1>1, <1>17 DEF Pauses, SandboxEnds, DisposeEnds, OtherRequest, vars, leases
<1> QED
  BY <1>3, <1>4, <1>5, <1>6, <1>7, <1>8, <1>9, <1>10, <1>11, <1>12, <1>13, <1>14, <1>15, <1>16,
     <1>17, <1>18, Zenon DEF Next

(* A lease keeps the object alive only while something is there to release    *)
(* it: its timer, a resume in progress or an expiry under way, for every      *)
(* clock, disposal and eviction (LeaseHasReleaser;                            *)
(* beginPendingApprovalResume, finishPendingApprovalResume,                   *)
(* expirePendingApproval).                                                    *)
THEOREM LeaseIsReleased == Spec => []LeaseHasReleaser
<1>1. LeaseTypes /\ EngineTypes /\ OtherTypes /\ LeaseHasReleaser /\ [Next]_vars =>
        LeaseTypes' /\ EngineTypes' /\ OtherTypes' /\ LeaseHasReleaser'
  BY TypeStep, ReleaserStep, Zenon
<1>2. Init => LeaseTypes /\ EngineTypes /\ OtherTypes
  BY TypeInit, TypeParts, Zenon
<1>3. Init => LeaseHasReleaser
  BY DEF Init, LeaseHasReleaser
<1> QED
  BY <1>1, <1>2, <1>3, PTL DEF Spec

---------------------------------------------------------------------------
(* The promise about one approval. *)

\* A human's answer that is held, in memory or in storage, was confirmed.
HeldIsTold ==
  \A x \in Executions : memory[x] = "human" \/ stored[x] = "human" => x \in recorded

LEMMA HeldStep ==
  ASSUME LeaseTypes, OtherTypes, HeldIsTold, [Next]_vars
  PROVE  HeldIsTold'
<1> USE DEF NoAnswer
<1>1. ASSUME UNCHANGED <<memory, stored, recorded>>
      PROVE  HeldIsTold'
  BY <1>1 DEF HeldIsTold
<1>2. ASSUME NEW x \in Executions, recorded \subseteq recorded',
             memory' = [memory EXCEPT ![x] = NoAnswer], stored' = [stored EXCEPT ![x] = NoAnswer]
      PROVE  HeldIsTold'
  BY <1>2 DEF HeldIsTold, OtherTypes
<1>3. ASSUME NEW x \in Executions, NEW a, recorded \subseteq recorded', Keeps(x, a),
             a = "human" => x \in recorded'
      PROVE  HeldIsTold'
  BY <1>3 DEF HeldIsTold, OtherTypes, Keeps
<1>4. ASSUME NEW x \in Executions, NEW a, recorded \subseteq recorded', Delivers(x, a)
      PROVE  HeldIsTold'
  BY <1>2, <1>4, Zenon DEF Delivers
<1>5. ASSUME NEW c \in Calls, NEW x \in Executions, Asks(c, x)
      PROVE  HeldIsTold'
  <2>1. recorded' = recorded
    BY <1>5 DEF Asks
  <2>2. CASE Available(x) # NoAnswer
    BY <1>2, <1>5, <2>1, <2>2 DEF Asks, TakesAndResumes
  <2>3. CASE Available(x) = NoAnswer
    BY <1>1, <1>5, <2>1, <2>3 DEF Asks, answers
  <2> QED
    BY <2>2, <2>3
<1>6. ASSUME NEW x \in Executions, HumanAnswers(x)
      PROVE  HeldIsTold'
  <2>1. recorded' = recorded \cup {x}
    BY <1>6 DEF HumanAnswers
  <2> QED
    BY <1>3, <1>4, <1>6, <2>1, Zenon DEF HumanAnswers
<1>7. ASSUME NEW t \in Starts, DeclinesToWaiter(t) \/ DeclinesToNobody(t) \/ DeclinesItself(t)
      PROVE  HeldIsTold'
  <2>1. PICK x \in Executions : x = start[t].exec /\ Due(t)
    BY <1>7, StartFields DEF DeclinesToWaiter, DeclinesToNobody, DeclinesItself, Due
  <2>2. recorded' = recorded
    BY <1>7 DEF DeclinesToWaiter, DeclinesToNobody, DeclinesItself
  <2>3. Delivers(x, "timeout") \/ Keeps(x, "timeout")
    BY <1>7, <2>1, Zenon DEF DeclinesToWaiter, DeclinesToNobody, DeclinesItself
  <2> QED
    BY <1>3, <1>4, <2>2, <2>3
<1>8. CASE Evicts
  BY <1>8 DEF Evicts, HeldIsTold
<1>9. CASE \/ \E t \in Starts, x \in Executions : Reports(t, x)
           \/ \E t \in Starts : Arms(t) \/ StartFails(t) \/ ExpiresIdly(t)
           \/ \E c \in Calls, x \in Executions : ModelResumes(c, x)
           \/ \E c \in Calls : StopsWaiting(c) \/ Finishes(c)
           \/ \E x \in Executions : Pauses(x) \/ SandboxEnds(x) \/ ExpiryEnds(x)
           \/ \E work \in BOOLEAN : DisposeBegins(work)
           \/ Tick \/ DisposeEnds \/ Restores \/ OtherRequest \/ UNCHANGED vars
  BY <1>1, <1>9 DEF Pauses, Reports, Arms, StartFails, ExpiresIdly, ModelResumes, StopsWaiting,
                    Finishes, SandboxEnds, ExpiryEnds, DisposeBegins, Tick, DisposeEnds, Restores,
                    OtherRequest, vars, answers
<1> QED
  BY <1>5, <1>6, <1>7, <1>8, <1>9, Zenon DEF Next

LEMMA DecisionInit == Init => Decision!Init
BY DEF Init, Decision!Init, Stage, NoAnswer

\* What a step leaves of the stage of a pause.
LEMMA StageKept ==
  ASSUME NEW x \in Executions, engine'[x] = engine[x],
         engine[x] = "detached" => (HeardByRuntime(x)' <=> HeardByRuntime(x))
  PROVE  Stage(x)' = Stage(x)
BY DEF Stage

\* A pause whose runtime is gone is lost with the last call that waited.
LEMMA LosesOrStays ==
  ASSUME NEW x \in Executions, UNCHANGED <<engine, given, recorded>>,
         \A y \in Executions \ {x} : HeardByRuntime(y)' <=> HeardByRuntime(y),
         HeardByRuntime(x)' => HeardByRuntime(x)
  PROVE  [Decision!Next]_(Decision!vars)
<1>1. \A y \in Executions \ {x} : Stage(y)' = Stage(y)
  BY StageKept
<1>2. CASE engine[x] = "detached" /\ HeardByRuntime(x) /\ ~HeardByRuntime(x)'
  <2>1. Stage(x) = "open" /\ Stage(x)' = "lost"
    BY <1>2 DEF Stage
  <2>2. Decision!Lose({x})
    BY <1>1, <2>1 DEF Decision!Lose
  <2> QED
    BY <2>2 DEF Decision!Next
<1>3. CASE ~(engine[x] = "detached" /\ HeardByRuntime(x) /\ ~HeardByRuntime(x)')
  <2>1. Stage(x)' = Stage(x)
    BY <1>3, StageKept
  <2> QED
    BY <1>1, <2>1 DEF Decision!vars
<1> QED
  BY <1>2, <1>3

\* The engine is resumed: that decides a pause which can still be heard.
LEMMA ResumingDecides ==
  ASSUME EngineTypes, OtherTypes, AnswerInv,
         NEW x \in Executions, NEW a \in Answers, NEW k \in BOOLEAN, EngineResumes(x, a, k),
         k = TRUE => HeardByRuntime(x),
         \A y \in Executions \ {x} : HeardByRuntime(y)' <=> HeardByRuntime(y),
         HeardByRuntime(x)' => HeardByRuntime(x),
         a = "timeout" /\ x \in recorded =>
           engine[x] # "paused" /\ (engine[x] = "detached" => k = FALSE),
         \/ /\ recorded' = recorded
            /\ a = "human" /\ engine[x] \in {"paused", "detached"} => x \in recorded
         \/ a = "human" /\ engine[x] = "paused" /\ recorded' = recorded \cup {x}
  PROVE  [Decision!Next]_(Decision!vars)
<1>1. CASE engine[x] = "paused" \/ (engine[x] = "detached" /\ k = TRUE)
  <2>1. /\ \A y \in Executions : engine'[y] = IF y = x THEN "resuming" ELSE engine[y]
        /\ given' = [given EXCEPT ![x] = a]
    BY <1>1 DEF EngineResumes, EngineTypes
  <2>2. Stage(x) = "open" /\ Stage(x)' = "decided"
    BY <1>1, <2>1 DEF Stage
  <2>3. \A y \in Executions \ {x} : Stage(y)' = Stage(y)
    BY <2>1, StageKept
  <2>4. [y \in Executions |-> Stage(y)'] =
          [[y \in Executions |-> Stage(y)] EXCEPT ![x] = "decided"]
    BY <2>2, <2>3
  <2>5. recorded' = IF a = "human" THEN recorded \cup {x} ELSE recorded
    BY <1>1
  <2>6. Decision!Decide(x, a)
    BY <1>1, <2>1, <2>2, <2>4, <2>5 DEF Decision!Decide
  <2> QED
    BY <2>6 DEF Decision!Next
<1>2. CASE ~(engine[x] = "paused" \/ (engine[x] = "detached" /\ k = TRUE))
  BY <1>2, LosesOrStays DEF EngineResumes
<1> QED
  BY <1>1, <1>2

\* The calls that wait for other pauses, and what a delivery leaves of its own.
LEMMA DeliversHeard ==
  ASSUME OtherTypes, NEW x \in Executions, NEW a, Delivers(x, a)
  PROVE  /\ \E c \in Calls :
              /\ Waits(c, x) /\ call[c].known \in BOOLEAN /\ EngineResumes(x, a, call[c].known)
         /\ ~HeardByRuntime(x)'
         /\ \A y \in Executions \ {x} : HeardByRuntime(y)' <=> HeardByRuntime(y)
<1>1. PICK c \in Calls :
        /\ Waits(c, x)
        /\ call' = [d \in Calls |->
             CASE d = c -> [at |-> "resuming", exec |-> x, known |-> FALSE]
               [] d # c /\ Waits(d, x) -> IdleCall
               [] OTHER -> call[d]]
        /\ EngineResumes(x, a, call[c].known)
  BY Zenon DEF Delivers
<1>2. call[c].known \in BOOLEAN
  BY <1>1, CallFields DEF Waits
<1>3. ASSUME NEW d \in Calls, NEW y \in Executions
      PROVE  /\ ~Waits(d, x)'
             /\ y # x => /\ Waits(d, y)' <=> Waits(d, y)
                         /\ Waits(d, y) => call'[d] = call[d]
  BY <1>1 DEF Waits, IdleCall
<1>4. ~HeardByRuntime(x)'
  BY <1>3 DEF HeardByRuntime
<1>5. \A y \in Executions \ {x} : HeardByRuntime(y)' <=> HeardByRuntime(y)
  BY <1>3 DEF HeardByRuntime
<1> QED
  BY <1>1, <1>2, <1>4, <1>5

\* A call that starts to resume waited for nothing.
LEMMA ResumesHeard ==
  ASSUME OtherTypes, NEW c \in Calls, call[c] = IdleCall,
         NEW x \in Executions, NEW a, NEW k \in {"resuming", "forwarded"}, Resumes(c, k, x, a)
  PROVE  \A y \in Executions : HeardByRuntime(y)' <=> HeardByRuntime(y)
<1>1. ASSUME NEW d \in Calls, NEW y \in Executions
      PROVE  /\ Waits(d, y)' <=> Waits(d, y)
             /\ Waits(d, y) => call'[d] = call[d]
  BY DEF Resumes, Waits, IdleCall, OtherTypes
<1> QED
  BY <1>1 DEF HeardByRuntime

LEMMA DecisionStep ==
  ASSUME LeaseTypes, EngineTypes, OtherTypes, AnswerInv, HeldIsTold, [Next]_vars
  PROVE  [Decision!Next]_(Decision!vars)
<1> DEFINE Step == [Decision!Next]_(Decision!vars)
\* Steps that neither the stage of a pause nor its answers see.
<1>1. ASSUME UNCHANGED <<given, recorded>>,
             \A x \in Executions :
               /\ engine'[x] = engine[x]
               /\ engine[x] = "detached" => (HeardByRuntime(x)' <=> HeardByRuntime(x))
      PROVE  Step
  BY <1>1, StageKept DEF Decision!vars
<1>2. ASSUME UNCHANGED <<engine, given, recorded, call>>
      PROVE  Step
  BY <1>1, <1>2 DEF HeardByRuntime, Waits
<1>3. ASSUME NEW x \in Executions, Pauses(x)
      PROVE  Step
  <2>1. engine[x] = "running" /\ UNCHANGED <<given, recorded, call>>
    BY <1>3 DEF Pauses
  <2>2. PICK e \in {"paused", "detached"} :
          \A y \in Executions : engine'[y] = IF y = x THEN e ELSE engine[y]
    BY <1>3 DEF Pauses, EngineTypes
  <2>3. Stage(x) = "unasked" /\ Stage(x)' \in {"open", "lost"}
    BY <2>1, <2>2 DEF Stage
  <2>4. \A y \in Executions \ {x} : Stage(y)' = Stage(y)
    BY <2>1, <2>2 DEF Stage, HeardByRuntime, Waits
  <2>5. Decision!Ask(x) \/ Decision!Lose({x})
    BY <2>1, <2>3, <2>4 DEF Decision!Ask, Decision!Lose
  <2> QED
    BY <2>5 DEF Decision!Next
<1>4. ASSUME NEW c \in Calls, NEW x \in Executions, Asks(c, x)
      PROVE  Step
  <2>1. CASE Available(x) # NoAnswer
    <3>1. /\ call[c] = IdleCall /\ recorded' = recorded
          /\ Resumes(c, "resuming", x, Available(x))
      BY <1>4, <2>1 DEF Asks, TakesAndResumes
    <3>2. Available(x) \in Answers
      BY <2>1, AvailableKeeps
    <3>3. Available(x) = "human" => x \in recorded
      BY DEF Available, HeldIsTold
    <3>4. Available(x) = "timeout" /\ x \in recorded => engine[x] # "paused"
      BY DEF Available, AnswerInv, RecordedStays, NoAnswer
    <3>5. EngineResumes(x, Available(x), FALSE)
      BY <3>1 DEF Resumes
    <3>6. \A y \in Executions : HeardByRuntime(y)' <=> HeardByRuntime(y)
      BY <3>1, ResumesHeard
    <3>7. PICK a \in Answers : a = Available(x)
      BY <3>2
    <3> QED
      BY <3>1, <3>3, <3>4, <3>5, <3>6, <3>7, ResumingDecides
  <2>2. CASE Available(x) = NoAnswer
    <3>1. /\ UNCHANGED <<engine, given, recorded>> /\ call[c] = IdleCall
          /\ call' = [call EXCEPT ![c] =
               [at |-> "waiting", exec |-> x, known |-> engine[x] \notin {"detached", "lost"}]]
      BY <1>4, <2>2 DEF Asks
    <3>2. ASSUME NEW d \in Calls, NEW y \in Executions, engine[y] = "detached"
          PROVE  (Waits(d, y)' /\ call'[d].known = TRUE) <=> (Waits(d, y) /\ call[d].known = TRUE)
      <4>1. CASE d = c
        <5>1. /\ call'[d].exec = x /\ call[d].at = "idle"
              /\ call'[d].known = (engine[x] \notin {"detached", "lost"})
          BY <3>1, <4>1 DEF OtherTypes, IdleCall
        <5>2. x = y => call'[d].known = FALSE
          BY <3>2, <5>1
        <5> QED
          BY <5>1, <5>2 DEF Waits
      <4>2. CASE d # c
        BY <3>1, <4>2 DEF OtherTypes, Waits
      <4> QED
        BY <4>1, <4>2
    <3>3. ASSUME NEW y \in Executions, engine[y] = "detached"
          PROVE  HeardByRuntime(y)' <=> HeardByRuntime(y)
      BY <3>2, <3>3 DEF HeardByRuntime
    <3> QED
      BY <1>1, <3>1, <3>3
  <2> QED
    BY <2>1, <2>2
<1>5. ASSUME NEW c \in Calls, NEW x \in Executions, ModelResumes(c, x)
      PROVE  Step
  <2>1. PICK k \in {"resuming", "forwarded"} :
          call[c] = IdleCall /\ recorded' = recorded /\ Resumes(c, k, x, "model")
    BY <1>5 DEF ModelResumes
  <2>2. \A y \in Executions : HeardByRuntime(y)' <=> HeardByRuntime(y)
    BY <2>1, ResumesHeard
  <2>3. EngineResumes(x, "model", FALSE)
    BY <2>1 DEF Resumes
  <2> QED
    BY <2>1, <2>2, <2>3, ResumingDecides DEF Answers
<1>6. ASSUME NEW c \in Calls, StopsWaiting(c)
      PROVE  Step
  <2>1. UNCHANGED <<engine, given, recorded>>
    BY <1>6 DEF StopsWaiting
  <2>2. PICK x \in Executions : x = call[c].exec
    BY <1>6, CallFields DEF StopsWaiting
  <2>3. ASSUME NEW d \in Calls, NEW y \in Executions
        PROVE  /\ Waits(d, y)' => Waits(d, y) /\ call'[d] = call[d]
               /\ y # x /\ Waits(d, y) => Waits(d, y)' /\ call'[d] = call[d]
    BY <1>6, <2>2 DEF StopsWaiting, Waits, IdleCall
  <2>4. \A y \in Executions : HeardByRuntime(y)' => HeardByRuntime(y)
    BY <2>3 DEF HeardByRuntime
  <2>5. \A y \in Executions \ {x} : HeardByRuntime(y) => HeardByRuntime(y)'
    BY <2>3 DEF HeardByRuntime
  <2> QED
    BY <2>1, <2>4, <2>5, LosesOrStays
<1>7. ASSUME NEW c \in Calls, Finishes(c)
      PROVE  Step
  <2>1. UNCHANGED <<engine, given, recorded>>
    BY <1>7 DEF Finishes
  <2>2. ASSUME NEW d \in Calls, NEW y \in Executions
        PROVE  /\ Waits(d, y)' <=> Waits(d, y)
               /\ Waits(d, y) => call'[d] = call[d]
    BY <1>7 DEF Finishes, InResume, Waits, IdleCall, OtherTypes
  <2>3. \A y \in Executions : HeardByRuntime(y)' <=> HeardByRuntime(y)
    BY <2>2 DEF HeardByRuntime
  <2> QED
    BY <1>1, <2>1, <2>3
<1>8. ASSUME NEW x \in Executions, SandboxEnds(x)
      PROVE  Step
  <2>1. /\ engine[x] = "resuming" /\ UNCHANGED <<given, recorded, call>>
        /\ \A y \in Executions : engine'[y] = IF y = x THEN "settled" ELSE engine[y]
    BY <1>8 DEF SandboxEnds, EngineTypes
  <2>2. \A y \in Executions : Stage(y)' = Stage(y)
    BY <2>1 DEF Stage, HeardByRuntime, Waits
  <2> QED
    BY <2>1, <2>2 DEF Decision!vars
<1>9. ASSUME NEW x \in Executions, HumanAnswers(x)
      PROVE  Step
  <2>1. engine[x] = "paused" /\ recorded' = recorded \cup {x}
    BY <1>9 DEF HumanAnswers
  <2>2. CASE Delivers(x, "human")
    <3>1. PICK c \in Calls : Waits(c, x) /\ call[c].known \in BOOLEAN
                             /\ EngineResumes(x, "human", call[c].known)
      BY <2>2, DeliversHeard
    <3>2. /\ ~HeardByRuntime(x)'
          /\ \A y \in Executions \ {x} : HeardByRuntime(y)' <=> HeardByRuntime(y)
      BY <2>2, DeliversHeard
    <3>3. PICK k \in BOOLEAN : k = call[c].known
      BY <3>1
    <3>4. k = TRUE => HeardByRuntime(x)
      BY <3>1, <3>3 DEF HeardByRuntime
    <3>5. EngineResumes(x, "human", k)
      BY <3>1, <3>3
    <3> QED
      BY <2>1, <3>2, <3>4, <3>5, ResumingDecides DEF Answers
  <2>3. CASE Keeps(x, "human") /\ UNCHANGED <<engine, given, start>>
    <3>1. UNCHANGED <<engine, given, call>>
      BY <2>3 DEF Keeps
    <3>2. \A y \in Executions : Stage(y)' = Stage(y)
      BY <3>1 DEF Stage, HeardByRuntime, Waits
    <3>3. Stage(x) = "open"
      BY <2>1 DEF Stage
    <3>4. Decision!Tell(x)
      BY <2>1, <3>1, <3>2, <3>3 DEF Decision!Tell
    <3> QED
      BY <3>4 DEF Decision!Next
  <2> QED
    BY <1>9, <2>2, <2>3, Zenon DEF HumanAnswers
\* The decline for want of an answer: no human was told.
<1>10. ASSUME NEW t \in Starts, DeclinesToWaiter(t) \/ DeclinesItself(t)
       PROVE  Step
  <2>1. PICK x \in Executions : x = start[t].exec
    BY <1>10, StartFields DEF DeclinesToWaiter, DeclinesItself, Due
  <2>2. recorded' = recorded /\ memory[x] = NoAnswer
    BY <1>10, <2>1 DEF DeclinesToWaiter, DeclinesItself, NothingToDecline
  <2>3. x \in recorded => engine[x] # "paused"
    BY <2>2 DEF AnswerInv, RecordedStays, NoAnswer
  <2>4. CASE Delivers(x, "timeout")
    <3>1. PICK c \in Calls : Waits(c, x) /\ call[c].known \in BOOLEAN
                             /\ EngineResumes(x, "timeout", call[c].known)
      BY <2>4, DeliversHeard
    <3>2. /\ ~HeardByRuntime(x)'
          /\ \A y \in Executions \ {x} : HeardByRuntime(y)' <=> HeardByRuntime(y)
      BY <2>4, DeliversHeard
    <3>3. PICK k \in BOOLEAN : k = call[c].known
      BY <3>1
    <3>4. k = TRUE => HeardByRuntime(x)
      BY <3>1, <3>3 DEF HeardByRuntime
    <3>5. EngineResumes(x, "timeout", k)
      BY <3>1, <3>3
    <3>6. x \in recorded => engine[x] # "paused" /\ (engine[x] = "detached" => k = FALSE)
      BY <2>3, <3>1, <3>3 DEF AnswerInv, RecordedStays
    <3> QED
      BY <2>2, <3>2, <3>4, <3>5, <3>6, ResumingDecides DEF Answers
  <2>5. CASE Keeps(x, "timeout") /\ EngineResumes(x, "timeout", FALSE)
    <3>1. \A y \in Executions : HeardByRuntime(y)' <=> HeardByRuntime(y)
      BY <2>5 DEF Keeps, HeardByRuntime, Waits
    <3> QED
      BY <2>2, <2>3, <2>5, <3>1, ResumingDecides DEF Answers
  <2> QED
    BY <1>10, <2>1, <2>4, <2>5, Zenon DEF DeclinesToWaiter, DeclinesItself
<1>11. CASE DisposeEnds
  <2> DEFINE S == {x \in Executions : engine[x] = "paused" /\ ~HeardByRuntime(x)}
  <2>1. UNCHANGED <<given, recorded, call>>
    BY <1>11 DEF DisposeEnds
  <2>2. \A x \in Executions : engine'[x] = IF engine[x] = "paused" THEN "detached" ELSE engine[x]
    BY <1>11 DEF DisposeEnds
  <2>3. \A x \in Executions : HeardByRuntime(x)' <=> HeardByRuntime(x)
    BY <2>1 DEF HeardByRuntime, Waits
  <2>4. \A x \in Executions : Stage(x)' = IF x \in S THEN "lost" ELSE Stage(x)
    BY <2>2, <2>3 DEF Stage
  <2>5. \A x \in S : Stage(x) = "open"
    BY DEF Stage
  <2>6. Decision!Lose(S)
    BY <2>1, <2>4, <2>5 DEF Decision!Lose
  <2> QED
    BY <2>6 DEF Decision!Next
<1>12. CASE Evicts
  <2> DEFINE S == {x \in Executions : engine[x] \notin {"running", "settled"}
                                      /\ Stage(x) \in {"open", "decided"}}
  <2>1. UNCHANGED <<given, recorded>>
    BY <1>12 DEF Evicts
  <2>2. \A x \in Executions :
          engine'[x] = IF engine[x] \in {"running", "settled"} THEN engine[x] ELSE "lost"
    BY <1>12 DEF Evicts
  <2>3. \A x \in Executions : Stage(x)' = IF x \in S THEN "lost" ELSE Stage(x)
    BY <2>2 DEF Stage
  <2>4. Decision!Lose(S)
    BY <2>1, <2>3 DEF Decision!Lose
  <2> QED
    BY <2>4 DEF Decision!Next
<1>13. CASE \/ \E t \in Starts, x \in Executions : Reports(t, x)
            \/ \E t \in Starts : Arms(t) \/ StartFails(t) \/ ExpiresIdly(t) \/ DeclinesToNobody(t)
            \/ \E x \in Executions : ExpiryEnds(x)
            \/ \E work \in BOOLEAN : DisposeBegins(work)
            \/ Tick \/ Restores \/ OtherRequest \/ UNCHANGED vars
  BY <1>2, <1>13 DEF Reports, Arms, StartFails, ExpiresIdly, DeclinesToNobody, Keeps, ExpiryEnds,
                     DisposeBegins, Tick, Restores, OtherRequest, vars
<1> QED
  BY <1>3, <1>4, <1>5, <1>6, <1>7, <1>8, <1>9, <1>10, <1>11, <1>12, <1>13, Zenon DEF Next

(* Whatever the timers, the calls that come and go, the disposals and the     *)
(* evictions do, an approval is decided at most once, and never by its        *)
(* timeout after a human was told that the answer is recorded                 *)
(* (ImplementsDecision; recordApprovalResponse, expirePendingApproval,        *)
(* resumeExecutionForApproval, and the engine's resumeExecution).             *)
THEOREM LeaseImplementsDecision == Spec => ImplementsDecision
<1> DEFINE Inv == LeaseTypes /\ EngineTypes /\ OtherTypes /\ AnswerInv /\ HeldIsTold
<1>1. Inv /\ [Next]_vars => Inv'
  BY TypeStep, AnswerStep, HeldStep, Zenon
<1>2. Inv /\ [Next]_vars => [Decision!Next]_(Decision!vars)
  BY DecisionStep, Zenon
<1>3. Init => LeaseTypes /\ EngineTypes /\ OtherTypes /\ AnswerInv
  BY TypeInit, AnswerInit, TypeParts, Zenon
<1>4. Init => HeldIsTold
  BY DEF Init, HeldIsTold, NoAnswer
<1> QED
  BY <1>1, <1>2, <1>3, <1>4, DecisionInit, PTL DEF Spec, ImplementsDecision, Decision!Spec

===============================================================================
