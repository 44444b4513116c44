------------------------- MODULE EngineProgressProofs --------------------------
(***************************************************************************)
(* What the progress of the pause / resume protocol rests on: where        *)
(* callers stay, no tool call waits on a pause that no resume can reach;   *)
(* and no caller waits on everyone else.  That a wait ends then follows    *)
(* from the fairness of the event loop, which TLC checks (EveryWaitEnds).  *)
(***************************************************************************)
EXTENDS EngineRepliesProofs

---------------------------------------------------------------------------
(* Where a waiting call is asked about. *)

\* An answer to an open pause goes to the call that asked, which is still there.
GatesHold ==
  \A p \in pausedExecutions :
    gate[p] \in Calls /\ call[gate[p]].at \in {"waiting", "finished"}

\* A call that waits holds an open pause that was handed out or is queued.
WaitsAreHeld ==
  /\ \A k \in Calls : call[k].at = "waiting" /\ sandbox[call[k].exec] = "running" =>
        \E p \in PausesOf(call[k].exec) :
          gate[p] = k /\ p \in known \cup Range(pauseQueue[call[k].exec])
  /\ \A p, q \in pausedExecutions : gate[p] = gate[q] => p = q

Reachable == GatesHold /\ WaitsAreHeld

\* The pauses of an execution that were handed out or are queued for a caller.
Asked(e) == known \cup Range(pauseQueue[e])

Waits(k) == call[k].at = "waiting" /\ sandbox[call[k].exec] = "running"
Held(k) == \E p \in PausesOf(call[k].exec) : gate[p] = k /\ p \in Asked(call[k].exec)

LEMMA TakingAsks ==
  ASSUME NEW S, NEW s \in Seq(S), s # <<>>
  PROVE  Range(s) \subseteq {Head(s)} \cup Range(Tail(s))
<1>1. /\ Len(s) \in Nat /\ Len(s) # 0 /\ Head(s) = s[1]
      /\ Tail(s) \in Seq(S) /\ Len(Tail(s)) = Len(s) - 1
      /\ \A i \in 1 .. Len(s) - 1 : Tail(s)[i] = s[i + 1]
  BY HeadTailProperties, LenProperties, EmptySeq
<1>2. /\ \A x : x \in Range(s) <=> \E i \in 1 .. Len(s) : s[i] = x
      /\ \A x : x \in Range(Tail(s)) <=> \E i \in 1 .. Len(Tail(s)) : Tail(s)[i] = x
  <2>1. /\ Range(s) = {s[i] : i \in 1 .. Len(s)}
        /\ Range(Tail(s)) = {Tail(s)[i] : i \in 1 .. Len(Tail(s))}
    BY <1>1, RangeEquality
  <2> QED
    BY <2>1, Zenon
<1>3. ASSUME NEW i \in 1 .. Len(s)
      PROVE  s[i] \in {Head(s)} \cup Range(Tail(s))
  <2>1. CASE i = 1
    BY <1>1, <2>1
  <2>2. CASE i # 1
    <3>1. i - 1 \in 1 .. Len(s) - 1 /\ (i - 1) + 1 = i
      BY <1>1, <2>2
    <3> QED
      BY <1>1, <1>2, <3>1
  <2> QED
    BY <2>1, <2>2
<1> QED
  BY <1>2, <1>3

\* A pause stays asked about as long as the engine lives.
LEMMA AskedGrows ==
  ASSUME Typed, [Next]_vars, ~Restart, NEW e \in Executions
  PROVE  Asked(e) \subseteq Asked(e)'
<1>0. TypeOK /\ WellFormed /\ pauseQueue[e] \in Seq(Pauses)
  BY DEF Typed, TypeOK
<1>1. ASSUME NEW k \in Calls, NEW p \in Pauses, Elicit(k, p)
      PROVE  Asked(e) \subseteq Asked(e)'
  <2> DEFINE s == pauseQueue[e]
  <2>1. s \in Seq(Pauses) /\ known' = known
    BY <1>0, <1>1 DEF Elicit, observed
  <2>2. pauseQueue'[e] = IF e = call[k].exec THEN Append(s, p) ELSE s
    BY <1>0, <1>1 DEF Elicit, TypeOK
  <2> HIDE DEF s
  <2>3. \A x : x \in Range(s) <=> \E i \in 1 .. Len(s) : s[i] = x
    BY <2>1, RangeEquality
  <2>4. /\ Append(s, p) \in Seq(Pauses) /\ Len(s) \in Nat /\ Len(Append(s, p)) = Len(s) + 1
        /\ \A i \in 1 .. Len(s) : Append(s, p)[i] = s[i]
    BY <2>1, AppendProperties, LenProperties
  <2>5. \A x : x \in Range(Append(s, p)) <=> \E i \in 1 .. Len(Append(s, p)) : Append(s, p)[i] = x
    BY <2>4, RangeEquality
  <2>6. Range(s) \subseteq Range(Append(s, p))
    BY <2>3, <2>4, <2>5
  <2>7. Asked(e) = known \cup Range(s)
    BY DEF Asked, s
  <2> QED
    BY <2>1, <2>2, <2>6, <2>7 DEF Asked
<1>2. ASSUME NEW c \in Clients, RacePauses(c)
      PROVE  Asked(e) \subseteq Asked(e)'
  <2> DEFINE s == pauseQueue[e]
             d == client[c].exec
  <2>1. CASE e = d
    <3>1. s # <<>> /\ known' = known \cup {Head(s)} /\ pauseQueue'[e] = Tail(s)
      BY <1>0, <1>2, <2>1 DEF RacePauses, TypeOK
    <3>2. Range(s) \subseteq {Head(s)} \cup Range(Tail(s))
      BY <1>0, <3>1, TakingAsks
    <3> QED
      BY <3>1, <3>2 DEF Asked
  <2>2. CASE e # d
    <3>1. known \subseteq known' /\ pauseQueue'[e] = s
      BY <1>0, <1>2, <2>2 DEF RacePauses, TypeOK
    <3> QED
      BY <3>1 DEF Asked
  <2> QED
    BY <2>1, <2>2
<1>3. CASE UNCHANGED <<pauseQueue, known>>
  BY <1>3 DEF Asked
<1>4. ASSUME NEW c \in Clients,
             RaceCompletes(c) \/ JoinedResumeReturns(c) \/ CallerInterrupted(c)
      PROVE  UNCHANGED <<pauseQueue, known>>
  BY <1>4 DEF RaceCompletes, JoinedResumeReturns, CallerInterrupted, engineVars
<1>5. ASSUME NEW c \in Clients, NEW p \in Pauses, Resume(c, p)
      PROVE  UNCHANGED <<pauseQueue, known>>
  BY <1>5 DEF Resume, ResumeReplays, ResumeJoins, ResumeFindsNothing, ResumeDelivers,
              engineVars, observed
<1>6. CASE \/ \E c \in Clients, d \in Executions : StartPausableExecution(c, d)
           \/ \E d \in Executions, k \in Calls : DispatchCall(d, k)
           \/ \E k \in Calls : ReturnCall(k)
           \/ \E d \in Executions : EndSandbox(d)
           \/ \E d \in Executions : SweepEndedExecution(d)
           \/ UNCHANGED vars
  BY <1>3, <1>6 DEF StartPausableExecution, DispatchCall, ReturnCall, EndSandbox,
                    SweepEndedExecution, vars, engineVars, observed
<1> QED
  BY <1>1, <1>2, <1>3, <1>4, <1>5, <1>6, Zenon DEF Next, Wait

LEMMA ReachableStep ==
  ASSUME Typed, History, NewIsEmpty, Reachable, [Next]_vars
  PROVE  Reachable'
<1>0. TypeOK /\ WellFormed /\ GatesHold /\ WaitsAreHeld
  BY DEF Typed, Reachable
\* What a waiting call has now, it keeps, unless its pause is taken away.
<1>1. ASSUME ~Restart, NEW k \in Calls, Waits(k), call'[k].exec = call[k].exec,
             UNCHANGED <<owner, gate>>,
             \A p \in PausesOf(call[k].exec) : gate[p] = k => p \in pausedExecutions'
      PROVE  Held(k)'
  <2>1. PICK e \in Executions : e = call[k].exec
    BY <1>0, <1>1 DEF WellFormed, Waits
  <2>2. PICK p \in PausesOf(e) : gate[p] = k /\ p \in Asked(e)
    BY <1>0, <1>1, <2>1 DEF WaitsAreHeld, Asked, Waits
  <2>3. p \in Asked(e)'
    BY <1>1, <2>2, AskedGrows
  <2>4. p \in PausesOf(e)'
    BY <1>1, <2>1, <2>2 DEF PausesOf
  <2> QED
    BY <1>1, <2>1, <2>2, <2>3, <2>4 DEF Held
\* Steps that take no pause away and start no wait.
<1>2. ASSUME ~Restart, UNCHANGED <<owner, gate, pausedExecutions>>,
             \A e \in Executions : sandbox'[e] = "running" =>
               sandbox[e] = "running" \/ \A k \in Calls : call[k].at = "waiting" => call[k].exec # e,
             \A k \in Calls : call'[k] = call[k] \/
               /\ call'[k].at # "waiting"
               /\ call'[k].at = "finished" \/ call[k].at \in {"unused", "running"}
      PROVE  Reachable'
  <2>1. GatesHold'
    BY <1>0, <1>2 DEF GatesHold
  <2>2. ASSUME NEW k \in Calls, Waits(k)'
        PROVE  Held(k)'
    <3>1. call'[k] = call[k] /\ call[k].at = "waiting" /\ sandbox'[call[k].exec] = "running"
      BY <1>2, <2>2 DEF Waits
    <3>2. call[k].exec \in Executions
      BY <1>0, <3>1 DEF WellFormed
    <3>3. Waits(k)
      BY <1>2, <3>1, <3>2 DEF Waits
    <3> QED
      BY <1>1, <1>2, <3>1, <3>3 DEF PausesOf
  <2>3. \A p, q \in pausedExecutions' : gate'[p] = gate'[q] => p = q
    BY <1>0, <1>2 DEF WaitsAreHeld
  <2> QED
    BY <2>1, <2>2, <2>3 DEF Reachable, WaitsAreHeld, Asked, Waits, Held
<1>3. ASSUME NEW c \in Clients, NEW e \in Executions, StartPausableExecution(c, e)
      PROVE  Reachable'
  <2>1. UNCHANGED <<owner, gate, pausedExecutions, call>> /\ sandbox[e] = "new"
    BY <1>3 DEF StartPausableExecution, engineVars, mintVars
  <2>2. \A d \in Executions : sandbox'[d] = IF d = e THEN "running" ELSE sandbox[d]
    BY <1>0, <1>3 DEF StartPausableExecution, TypeOK
  <2>3. \A k \in Calls : call[k].at = "waiting" => call[k].exec # e
    BY <2>1 DEF NewIsEmpty
  <2>4. ~Restart
    BY <1>0, <1>3, <2>1, <2>2 DEF Restart
  <2> QED
    BY <1>2, <2>1, <2>2, <2>3, <2>4
<1>4. ASSUME NEW e \in Executions, NEW k \in Calls, DispatchCall(e, k)
      PROVE  Reachable'
  <2>1. UNCHANGED <<owner, gate, pausedExecutions, sandbox, restarts>>
    BY <1>4 DEF DispatchCall, engineVars, mintVars
  <2>2. \A j \in Calls : call'[j] = IF j = k THEN [exec |-> e, at |-> "running"] ELSE call[j]
    BY <1>0, <1>4 DEF DispatchCall, TypeOK
  <2>3. call[k].at = "unused"
    BY <1>4 DEF DispatchCall
  <2> QED
    BY <1>0, <1>2, <2>1, <2>2, <2>3 DEF Restart, TypeOK
<1>5. ASSUME NEW k \in Calls, ReturnCall(k)
      PROVE  Reachable'
  <2>1. UNCHANGED <<owner, gate, pausedExecutions, sandbox, restarts>>
    BY <1>5 DEF ReturnCall, engineVars, mintVars
  <2>2. \A j \in Calls : /\ j # k => call'[j] = call[j]
                         /\ call'[k].at = "finished"
    BY <1>0, <1>5 DEF ReturnCall, TypeOK
  <2> QED
    BY <1>0, <1>2, <2>1, <2>2 DEF Restart, TypeOK
<1>6. ASSUME NEW e \in Executions, EndSandbox(e)
      PROVE  Reachable'
  <2>1. UNCHANGED <<owner, gate, pausedExecutions, restarts>>
    BY <1>6 DEF EndSandbox, engineVars, mintVars
  <2>2. \A d \in Executions : sandbox'[d] = IF d = e THEN "ended" ELSE sandbox[d]
    BY <1>0, <1>6 DEF EndSandbox, TypeOK
  <2>3. ASSUME NEW k \in Calls
        PROVE  call'[k] = call[k] \/ call'[k].at = "finished"
    <3>1. call[k] \in [exec : Executions \cup {NoExecution}, at : CallStates]
      BY <1>0 DEF TypeOK
    <3> QED
      BY <1>6, <3>1 DEF EndSandbox
  <2> QED
    BY <1>0, <1>2, <2>1, <2>2, <2>3 DEF Restart, TypeOK
<1>7. ASSUME NEW k \in Calls, NEW p \in Pauses, Elicit(k, p)
      PROVE  Reachable'
  <2>0. PICK e \in Executions : e = call[k].exec
    BY <1>0, <1>7 DEF Elicit, WellFormed
  <2>1. /\ call[k].at = "running"
        /\ owner[p] = NoExecution /\ p \notin Minted
        /\ pausedExecutions' = pausedExecutions \cup {p}
        /\ UNCHANGED <<sandbox, restarts>>
    BY <1>7 DEF Elicit, MintsFreshId, Minted
  <2>2. /\ \A q \in Pauses : owner'[q] = IF q = p THEN e ELSE owner[q]
        /\ \A q \in Pauses : gate'[q] = IF q = p THEN k ELSE gate[q]
    BY <1>0, <1>7, <2>0 DEF Elicit, TypeOK
  <2>3. ASSUME NEW j \in Calls
        PROVE  /\ call'[j].exec = call[j].exec
               /\ call'[j].at = IF j = k THEN "waiting" ELSE call[j].at
    <3>1. call[j] \in [exec : Executions \cup {NoExecution}, at : CallStates]
      BY <1>0 DEF TypeOK
    <3> QED
      BY <1>0, <1>7, <3>1 DEF Elicit, TypeOK
  <2>4. p \in Asked(e)'
    <3>1. pauseQueue[e] \in Seq(Pauses) /\ pauseQueue'[e] = Append(pauseQueue[e], p)
      BY <1>0, <1>7, <2>0 DEF Elicit, TypeOK
    <3> DEFINE s == pauseQueue[e]
    <3>2. s \in Seq(Pauses) /\ pauseQueue'[e] = Append(s, p)
      BY <3>1
    <3> HIDE DEF s
    <3>3. /\ Append(s, p) \in Seq(Pauses) /\ Len(s) \in Nat
          /\ Len(Append(s, p)) = Len(s) + 1 /\ Append(s, p)[Len(s) + 1] = p
      BY <3>2, AppendProperties, LenProperties
    <3>4. Range(Append(s, p)) = {Append(s, p)[i] : i \in 1 .. Len(s) + 1}
      BY <3>3, RangeEquality
    <3>5. Len(s) + 1 \in 1 .. Len(s) + 1
      BY <3>3
    <3> QED
      BY <3>2, <3>3, <3>4, <3>5 DEF Asked
  <2>5. \A q \in pausedExecutions : q \in Pauses /\ q # p /\ gate[q] # k
    BY <1>0, <2>1 DEF GatesHold, WellFormed, Minted
  <2>6. GatesHold'
    BY <1>0, <2>1, <2>2, <2>3, <2>5 DEF GatesHold
  <2>7. \A q, r \in pausedExecutions' : gate'[q] = gate'[r] => q = r
    BY <1>0, <2>1, <2>2, <2>5 DEF WaitsAreHeld
  <2>8. ASSUME NEW j \in Calls, Waits(j)'
        PROVE  Held(j)'
    <3>1. CASE j = k
      <4>1. p \in PausesOf(e)' /\ gate'[p] = k
        BY <2>1, <2>2 DEF PausesOf
      <4> QED
        BY <2>0, <2>3, <2>4, <3>1, <4>1 DEF Held
    <3>2. CASE j # k
      <4>1. Waits(j) /\ call'[j].exec = call[j].exec
        BY <2>1, <2>3, <2>8, <3>2 DEF Waits
      <4>2. ~Restart
        BY <1>0, <2>1 DEF Restart, TypeOK
      <4>3. \A q \in PausesOf(call[j].exec) : q \in pausedExecutions' /\ q # p
        BY <2>1, <2>5 DEF PausesOf
      <4>4. PICK d \in Executions : d = call[j].exec
        BY <1>0, <4>1 DEF WellFormed, Waits
      <4>5. PICK q \in PausesOf(d) : gate[q] = j /\ q \in Asked(d)
        BY <1>0, <4>1, <4>4 DEF WaitsAreHeld, Asked, Waits
      <4>6. q \in Asked(d)'
        BY <4>2, <4>5, AskedGrows
      <4>7. q \in PausesOf(d)' /\ gate'[q] = j
        BY <2>2, <2>5, <4>3, <4>4, <4>5 DEF PausesOf
      <4> QED
        BY <4>1, <4>4, <4>6, <4>7 DEF Held
    <3> QED
      BY <3>1, <3>2
  <2> QED
    BY <2>6, <2>7, <2>8 DEF Reachable, WaitsAreHeld, Asked, Waits, Held
<1>8. ASSUME NEW e \in Executions, SweepEndedExecution(e)
      PROVE  Reachable'
  <2>1. /\ UNCHANGED <<owner, gate, call, sandbox, restarts>> /\ sandbox[e] = "ended"
        /\ pausedExecutions' = pausedExecutions \ PausesOf(e)
    BY <1>8 DEF SweepEndedExecution, mintVars
  <2>2. GatesHold' /\ \A p, q \in pausedExecutions' : gate'[p] = gate'[q] => p = q
    BY <1>0, <2>1 DEF GatesHold, WaitsAreHeld
  <2>3. ASSUME NEW k \in Calls, Waits(k)'
        PROVE  Held(k)'
    <3>1. Waits(k) /\ call[k].exec # e
      BY <2>1, <2>3 DEF Waits
    <3>2. \A p \in PausesOf(call[k].exec) : p \in pausedExecutions'
      BY <2>1, <3>1 DEF PausesOf
    <3> QED
      BY <1>0, <1>1, <2>1, <3>1, <3>2 DEF Restart, TypeOK
  <2> QED
    BY <2>2, <2>3 DEF Reachable, WaitsAreHeld, Asked, Waits, Held
<1>9. ASSUME NEW c \in Clients, NEW p \in Pauses, ResumeDelivers(c, p)
      PROVE  Reachable'
  <2>1. /\ UNCHANGED <<owner, gate, sandbox, restarts>> /\ p \in pausedExecutions
        /\ pausedExecutions' = pausedExecutions \ {p}
    BY <1>9 DEF ResumeDelivers, mintVars
  <2>2. gate[p] \in Calls
    BY <1>0, <2>1 DEF GatesHold
  <2>3. ASSUME NEW k \in Calls
        PROVE  /\ call'[k].exec = call[k].exec
               /\ k # gate[p] => call'[k] = call[k]
               /\ k = gate[p] => call'[k].at # "waiting"
    <3>1. call[k] \in [exec : Executions \cup {NoExecution}, at : CallStates]
      BY <1>0 DEF TypeOK
    <3>2. call'[k] = IF k = gate[p]
                     THEN [call[k] EXCEPT !.at = IF @ = "waiting" THEN "running" ELSE @]
                     ELSE call[k]
      BY <1>0, <1>9, <2>2 DEF ResumeDelivers, TypeOK
    <3> QED
      BY <3>1, <3>2
  <2>4. \A q \in pausedExecutions' : q \in pausedExecutions /\ gate[q] # gate[p]
    BY <1>0, <2>1 DEF WaitsAreHeld
  <2>5. GatesHold' /\ \A q, r \in pausedExecutions' : gate'[q] = gate'[r] => q = r
    BY <1>0, <2>1, <2>3, <2>4 DEF GatesHold, WaitsAreHeld
  <2>6. ASSUME NEW k \in Calls, Waits(k)'
        PROVE  Held(k)'
    <3>1. Waits(k) /\ k # gate[p]
      BY <2>1, <2>3, <2>6 DEF Waits
    <3>2. \A q \in PausesOf(call[k].exec) : gate[q] = k => q \in pausedExecutions'
      BY <2>1, <3>1 DEF PausesOf
    <3> QED
      BY <1>0, <1>1, <2>1, <2>3, <3>1, <3>2 DEF Restart, TypeOK
  <2> QED
    BY <2>5, <2>6 DEF Reachable, WaitsAreHeld, Asked, Waits, Held
<1>10. CASE Restart
  <2>1. /\ pausedExecutions' = {} /\ \A e \in Executions : sandbox'[e] # "running"
        /\ \A k \in Calls : call'[k] = IF call[k].at = "unused" THEN call[k]
                                       ELSE [call[k] EXCEPT !.at = "finished"]
    BY <1>10 DEF Restart
  <2>2. ASSUME NEW k \in Calls PROVE call'[k].at # "waiting"
    <3>1. call[k] \in [exec : Executions \cup {NoExecution}, at : CallStates]
      BY <1>0 DEF TypeOK
    <3> QED
      BY <2>1, <3>1
  <2> QED
    BY <2>1, <2>2 DEF Reachable, GatesHold, WaitsAreHeld
<1>11. CASE \/ \E c \in Clients, p \in Pauses :
                ResumeReplays(c, p) \/ ResumeJoins(c, p) \/ ResumeFindsNothing(c, p)
            \/ \E c \in Clients : Wait(c) \/ CallerInterrupted(c)
            \/ UNCHANGED vars
  <2>1. UNCHANGED <<owner, gate, pausedExecutions, call, sandbox, restarts>>
    BY <1>11 DEF ResumeReplays, ResumeJoins, ResumeFindsNothing, Wait, RaceCompletes, RacePauses,
                 JoinedResumeReturns, CallerInterrupted, vars, engineVars, sandboxVars, mintVars
  <2> QED
    BY <1>0, <1>2, <2>1 DEF Restart, TypeOK
<1> QED
  BY <1>3, <1>4, <1>5, <1>6, <1>7, <1>8, <1>9, <1>10, <1>11, Zenon DEF Next, Resume

\* Whoever hangs up, a call that waits holds a pause that was handed out or is
\* queued; that the queue is collected needs callers that stay.
LEMMA WaitsAlwaysHeld == Spec => []WaitsAreHeld
<1>1. Init => NewIsEmpty /\ Reachable
  <2>1. Init => NewIsEmpty
    BY DEF Init, NewIsEmpty, Minted, Idle
  <2>2. Init => Reachable
    BY DEF Init, Reachable, GatesHold, WaitsAreHeld
  <2> QED
    BY <2>1, <2>2
<1>2. Typed /\ History /\ NewIsEmpty /\ Reachable /\ [Next]_vars => (NewIsEmpty /\ Reachable)'
  BY NewStep, ReachableStep
<1>3. Reachable => WaitsAreHeld
  BY DEF Reachable
<1> QED
  BY <1>1, <1>2, <1>3, HistoryAlways, PTL DEF Spec

(* Where callers stay, a tool call of a running execution waits on exactly   *)
(* one open pause, and it was handed to a caller or is queued for one that   *)
(* races or that holds an older pause whose resume will race: no call waits  *)
(* where no resume can reach it (WaitingCallsAreReachable; the Deferred of   *)
(* elicitationHandler, awaitCompletionOrPause, resumeExecution).             *)
THEOREM WaitingCallsReachable ==
  ASSUME ~Interruptible
  PROVE  Spec => []WaitingCallsAreReachable
<1>1. ASSUME Typed, WaitsAreHeld, Frontier
      PROVE  WaitingCallsAreReachable
  <2>1. ASSUME NEW e \in Executions, sandbox[e] = "running" PROVE Collected(e)
    BY <1>1, <2>1 DEF Frontier, FrontierOf, Collected
  <2>2. ASSUME NEW k \in Calls, call[k].at = "waiting", sandbox[call[k].exec] = "running"
        PROVE  \E p \in PausesOf(call[k].exec) :
                 /\ gate[p] = k
                 /\ \/ p \in known
                    \/ p \in Range(pauseQueue[call[k].exec]) /\ Collected(call[k].exec)
    <3>1. PICK p \in PausesOf(call[k].exec) :
            gate[p] = k /\ p \in known \cup Range(pauseQueue[call[k].exec])
      BY <1>1, <2>2 DEF WaitsAreHeld
    <3>2. call[k].exec \in Executions
      BY <1>1, <2>2 DEF Typed, WellFormed
    <3> QED
      BY <2>1, <2>2, <3>1, <3>2
  <2> QED
    BY <1>1, <2>2 DEF WaitsAreHeld, WaitingCallsAreReachable
<1>2. Typed /\ WaitsAreHeld /\ Frontier => WaitingCallsAreReachable
  BY <1>1
<1> QED
  BY <1>2, WaitsAlwaysHeld, FrontierAlways, TypedAlways, PTL

---------------------------------------------------------------------------
(* Who a waiting caller waits for, where callers stay. *)

\* A duplicate waits for a resume of a pause of the execution it asked about.
JoinsOwner ==
  \A c \in Clients : client[c].at = "joining" =>
    client[c].pause \in Minted /\ client[c].exec = owner[client[c].pause]

LEMMA JoinsStep ==
  ASSUME Typed, JoinsOwner, [Next]_vars
  PROVE  JoinsOwner'
<1>0. TypeOK /\ WellFormed
  BY DEF Typed
<1>1. \A p \in Minted : p \in Minted' /\ owner'[p] = owner[p]
  <2>1. ASSUME NEW k \in Calls, NEW q \in Pauses, Elicit(k, q)
        PROVE  \A p \in Minted : owner'[p] = owner[p]
    BY <1>0, <2>1 DEF Elicit, MintsFreshId, Minted, TypeOK
  <2>2. \/ UNCHANGED owner
        \/ \E k \in Calls, q \in Pauses : Elicit(k, q)
    BY DEF Next, Resume, Wait, StartPausableExecution, DispatchCall, ReturnCall, EndSandbox,
           SweepEndedExecution, ResumeReplays, ResumeJoins, ResumeFindsNothing,
           ResumeDelivers, RaceCompletes, RacePauses, JoinedResumeReturns,
           CallerInterrupted, Restart, mintVars, vars
  <2> QED
    BY <2>1, <2>2 DEF Minted
<1>2. ASSUME \A c \in Clients : client'[c] = client[c] \/ client'[c].at # "joining"
      PROVE  JoinsOwner'
  BY <1>1, <1>2 DEF JoinsOwner
<1>3. ASSUME NEW c \in Clients, NEW p \in Pauses, ResumeJoins(c, p)
      PROVE  JoinsOwner'
  <2>1. /\ p \in Minted
        /\ client' = [client EXCEPT ![c] = [at |-> "joining", exec |-> owner[p], pause |-> p]]
    BY <1>0, <1>3 DEF ResumeJoins, WellFormed
  <2> DEFINE v == [at |-> "joining", exec |-> owner[p], pause |-> p]
  <2>2. /\ v.pause = p /\ v.exec = owner[p]
        /\ \A d \in Clients : client'[d] = IF d = c THEN v ELSE client[d]
    BY <1>0, <2>1 DEF TypeOK
  <2> HIDE DEF v
  <2> QED
    BY <1>1, <2>1, <2>2 DEF JoinsOwner
<1>4. ASSUME NEW c \in Clients, NEW out, NEW told, RaceEnds(c, out, told)
      PROVE  JoinsOwner'
  <2>1. \A d \in Clients : client'[d] = IF d = c THEN Idle ELSE client[d]
    BY <1>0, <1>4 DEF RaceEnds, TypeOK
  <2> QED
    BY <1>2, <2>1 DEF Idle
<1>5. ASSUME NEW c \in Clients, Wait(c) \/ CallerInterrupted(c)
      PROVE  JoinsOwner'
  <2>1. CASE JoinedResumeReturns(c)
    <3>1. \A d \in Clients : client'[d] = IF d = c THEN Idle ELSE client[d]
      BY <1>0, <2>1 DEF JoinedResumeReturns, TypeOK
    <3> QED
      BY <1>2, <3>1 DEF Idle
  <2> QED
    BY <1>4, <1>5, <2>1 DEF Wait, RaceCompletes, RacePauses, CallerInterrupted
<1>6. ASSUME NEW c \in Clients, NEW e \in Executions, StartPausableExecution(c, e)
      PROVE  JoinsOwner'
  BY <1>0, <1>2, <1>6 DEF StartPausableExecution, TypeOK
<1>7. ASSUME NEW c \in Clients, NEW p \in Pauses, ResumeDelivers(c, p)
      PROVE  JoinsOwner'
  BY <1>0, <1>2, <1>7 DEF ResumeDelivers, TypeOK
<1>8. CASE Restart
  BY <1>2, <1>8 DEF Restart, Idle
<1>9. CASE \/ \E c \in Clients, p \in Pauses : ResumeReplays(c, p) \/ ResumeFindsNothing(c, p)
           \/ \E e \in Executions, k \in Calls : DispatchCall(e, k)
           \/ \E k \in Calls : ReturnCall(k)
           \/ \E k \in Calls, p \in Pauses : Elicit(k, p)
           \/ \E e \in Executions : EndSandbox(e)
           \/ \E e \in Executions : SweepEndedExecution(e)
           \/ UNCHANGED vars
  BY <1>2, <1>9 DEF ResumeReplays, ResumeFindsNothing, DispatchCall, ReturnCall, Elicit,
                    EndSandbox, SweepEndedExecution, vars
<1> QED
  BY <1>3, <1>5, <1>6, <1>7, <1>8, <1>9, Zenon DEF Next, Resume

\* An execution that somebody races for can go on by itself.
LEMMA RacedForGoesOn ==
  ASSUME Typed, NewIsEmpty, NeverTwo, Reachable,
         NEW c \in Clients, Racing(c), NEW e \in Executions, client[c].exec = e
  PROVE  CanGoOn(e)
<1>1. SUFFICES ASSUME sandbox[e] # "ended", pauseQueue[e] = <<>>,
                      NEW k \in Calls, call[k].exec = e, call[k].at = "waiting"
               PROVE  FALSE
  BY DEF CanGoOn, InFlight
<1>2. sandbox[e] = "running"
  BY <1>1 DEF Typed, TypeOK, NewIsEmpty, Racing
<1>3. PICK p \in PausesOf(e) : p \in known \cup Range(pauseQueue[e])
  BY <1>1, <1>2 DEF Reachable, WaitsAreHeld
<1>4. Range(pauseQueue[e]) = {}
  <2>1. pauseQueue[e] \in Seq(Pauses) /\ Len(pauseQueue[e]) = 0
    BY <1>1, EmptySeq DEF Typed, TypeOK
  <2>2. Range(pauseQueue[e]) = {pauseQueue[e][i] : i \in 1 .. Len(pauseQueue[e])}
    BY <2>1, RangeEquality
  <2> QED
    BY <2>1, <2>2
<1>5. p \in OpenAndKnown(e) /\ c \in RacersOn(e)
  BY <1>3, <1>4 DEF OpenAndKnown, RacersOn
<1> QED
  BY <1>2, <1>5 DEF NeverTwo, FrontierOf, Deserted

(* No caller waits on everyone else, also where callers hang up and leave    *)
(* the others: a duplicate's resume is over or races, and the execution that *)
(* is raced for has ended, has a pause to hand out or has work of its own    *)
(* left (NoWaitIsStuck; awaitCompletionOrPause, and the deadline that        *)
(* waiting calls suspend).                                                   *)
THEOREM NoWaitStuck == Spec => []NoWaitIsStuck
<1>1. Init => JoinsOwner /\ Reachable
  <2>1. Init => JoinsOwner
    BY DEF Init, JoinsOwner, Idle
  <2>2. Init => Reachable
    BY DEF Init, Reachable, GatesHold, WaitsAreHeld
  <2> QED
    BY <2>1, <2>2
<1>2. Typed /\ History /\ NewIsEmpty /\ JoinsOwner /\ Reachable /\ [Next]_vars
        => (JoinsOwner /\ Reachable)'
  BY JoinsStep, ReachableStep
<1>3. Typed /\ Places /\ InOrder /\ NewIsEmpty /\ NeverTwo /\ JoinsOwner /\ Reachable
        => NoWaitIsStuck
  <2> SUFFICES ASSUME Typed, Places, InOrder, NewIsEmpty, NeverTwo, JoinsOwner, Reachable,
                      NEW c \in Clients, client[c].at # "idle",
                      ~(client[c].at = "joining" /\ client[c].pause \notin pendingResumes)
               PROVE  CanGoOn(client[c].exec) /\ RacersOn(client[c].exec) # {}
    BY DEF NoWaitIsStuck
  <2>1. PICK e \in Executions : e = client[c].exec
    BY DEF Typed, WellFormed
  <2>2. PICK d \in Clients : Racing(d) /\ client[d].exec = e
    <3>1. CASE Racing(c)
      BY <2>1, <3>1
    <3>2. CASE client[c].at = "joining"
      <4>1. PICK d \in Clients : client[d].at = "resuming" /\ client[d].pause = client[c].pause
        BY <3>2 DEF Places, OneResumer
      <4> QED
        BY <2>1, <3>2, <4>1 DEF JoinsOwner, InOrder, ServesOwner, Racing
    <3> QED
      BY <3>1, <3>2 DEF Typed, TypeOK, Racing
  <2>3. CanGoOn(e)
    BY <2>2, RacedForGoesOn
  <2> QED
    BY <2>1, <2>2, <2>3 DEF RacersOn
<1> QED
  BY <1>1, <1>2, <1>3, RepliesAlways, NeverTwoAlways, PTL DEF Spec

===============================================================================
