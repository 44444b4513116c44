------------------------- MODULE ExecutionEngineProofs -------------------------
(***************************************************************************)
(* Proofs about the pause / resume protocol for every number of            *)
(* executions, tool calls, callers, pauses and engine rebuilds, and every  *)
(* size of the two caches.                                                 *)
(***************************************************************************)
EXTENDS ExecutionEngine, TLAPS, FiniteSetTheorems, SequenceTheorems

\* What the types leave open: whose fiber a call, a caller or a pause is about.
WellFormed ==
  /\ pausedExecutions \cup pendingResumes \subseteq Minted
  /\ \A k \in Calls : call[k].at # "unused" => call[k].exec \in Executions
  /\ \A c \in Clients : client[c].at # "idle" => client[c].exec \in Executions
  /\ \A c \in Clients : client[c].at \in {"resuming", "joining"} => client[c].pause \in Pauses
  /\ \A c \in Clients : client[c].at = "joining" =>
        client[c].pause \in pendingResumes \cup Recorded
  /\ Range(settledOutcomes) \subseteq Recorded

Typed == TypeOK /\ WellFormed

---------------------------------------------------------------------------
(* The newest n entries of a sequence of pause ids are at most n of them,  *)
(* in the order they had: the eviction loops of recordSettledOutcome.      *)
LEMMA NewestKeeps ==
  ASSUME NEW s \in Seq(Pauses), NEW n \in Nat
  PROVE  /\ Newest(s, n) \in Seq(Pauses)
         /\ Len(Newest(s, n)) <= n
         /\ Range(Newest(s, n)) \subseteq Range(s)
<1>1. Len(s) \in Nat /\ DOMAIN s = 1 .. Len(s)
  BY LenProperties
<1>2. \A i \in 1 .. Len(s) : s[i] \in Pauses
  BY ElementOfSeq
<1>3. CASE Len(s) > n
  <2> DEFINE m == Len(s) - n + 1
  <2>1. m \in Int /\ 1 <= m /\ \A i \in m .. Len(s) : s[i] \in Pauses
    BY <1>1, <1>2, <1>3
  <2>2. /\ SubSeq(s, m, Len(s)) \in Seq(Pauses)
        /\ Len(SubSeq(s, m, Len(s))) = IF m <= Len(s) THEN Len(s) - m + 1 ELSE 0
        /\ \A i \in 1 .. Len(s) - m + 1 : SubSeq(s, m, Len(s))[i] = s[m + i - 1]
    BY <2>1, <1>1, SubSeqProperties
  <2>3. Newest(s, n) = SubSeq(s, m, Len(s))
    BY <1>3 DEF Newest
  <2> DEFINE t == SubSeq(s, m, Len(s))
  <2>4. Len(t) = n /\ Len(s) - m + 1 = n
    BY <2>1, <2>2, <1>1, <1>3
  <2>5. DOMAIN t = 1 .. n
    BY <2>2, <2>4, LenProperties
  <2>6. ASSUME NEW x \in Range(t) PROVE x \in Range(s)
    <3>1. PICK i \in 1 .. n : x = t[i]
      BY <2>5 DEF Range
    <3>2. t[i] = s[m + i - 1] /\ m + i - 1 \in 1 .. Len(s)
      BY <3>1, <2>1, <2>2, <2>4, <1>1
    <3> QED  BY <3>1, <3>2, <1>1 DEF Range
  <2> QED  BY <2>2, <2>3, <2>4, <2>6
<1>4. CASE ~(Len(s) > n)
  BY <1>1, <1>4 DEF Newest
<1> QED  BY <1>3, <1>4

(* An order of the pauses of an execution is a sequence that lists them.   *)
LEMMA MintOrdersList ==
  ASSUME NEW S \in SUBSET Pauses, NEW order \in MintOrders(S)
  PROVE  order \in Seq(Pauses) /\ Range(order) = S
<1>1. MaxPauses \in Int /\ 1 \in Int
  BY ConstantsAssumption
<1>2. IsFiniteSet(Pauses)
  BY <1>1, FS_Interval DEF Pauses
<1>3. Cardinality(S) \in Nat
  BY <1>2, FS_Subset, FS_CardinalityType
<1>4. order \in [1 .. Cardinality(S) -> S] /\ Range(order) = S
  BY DEF MintOrders
<1>5. order \in [1 .. Cardinality(S) -> Pauses]
  BY <1>4
<1> QED  BY <1>3, <1>4, <1>5, SeqDef

(* What recordSettledOutcome does to the caches and to the outcomes.       *)
LEMMA RecordsTheIds ==
  ASSUME TypeOK,
         NEW order \in Seq(Pauses), NEW out \in Outcomes,
         RecordSettledOutcome(order, out)
  PROVE  /\ settledOutcomes' \in Seq(Pauses) /\ Len(settledOutcomes') <= OutcomeLimit
         /\ settledIds' \in Seq(Pauses) /\ Len(settledIds') <= IdLimit
         /\ outcome' \in [Pauses -> Outcomes \cup {NoOutcome}]
         /\ Range(settledOutcomes') \subseteq Range(settledOutcomes) \cup Range(order)
         /\ \A p \in Pauses : outcome'[p] = IF p \in Range(order) THEN out ELSE outcome[p]
         /\ Recorded' = Recorded \cup (Range(order) \cap Pauses)
<1>1. OutcomeLimit \in Nat /\ IdLimit \in Nat
  BY ConstantsAssumption
<1>2. settledOutcomes \o order \in Seq(Pauses) /\ settledIds \o order \in Seq(Pauses)
  BY ConcatProperties DEF TypeOK
<1>3. /\ settledOutcomes' = Newest(settledOutcomes \o order, OutcomeLimit)
      /\ settledIds' = Newest(settledIds \o order, IdLimit)
      /\ outcome' = [p \in Pauses |-> IF p \in Range(order) THEN out ELSE outcome[p]]
  BY DEF RecordSettledOutcome
<1>4. /\ settledOutcomes' \in Seq(Pauses) /\ Len(settledOutcomes') <= OutcomeLimit
      /\ settledIds' \in Seq(Pauses) /\ Len(settledIds') <= IdLimit
      /\ Range(settledOutcomes') \subseteq Range(settledOutcomes \o order)
  BY <1>1, <1>2, <1>3, NewestKeeps
<1>5. Range(settledOutcomes \o order) = Range(settledOutcomes) \cup Range(order)
  BY RangeConcatenation DEF TypeOK
<1>6. \A p \in Pauses : outcome'[p] = IF p \in Range(order) THEN out ELSE outcome[p]
  BY <1>3
<1>7. outcome' \in [Pauses -> Outcomes \cup {NoOutcome}]
  BY <1>3 DEF TypeOK
<1>8. NoOutcome # out
  BY DEF Outcomes, NoOutcome, Completed, Interrupted, PausedAt
<1>9. Recorded' = Recorded \cup (Range(order) \cap Pauses)
  BY <1>6, <1>8 DEF Recorded
<1> QED  BY <1>4, <1>5, <1>6, <1>7, <1>9

---------------------------------------------------------------------------
(* Type correctness. *)

LEMMA TypedInit == Init => Typed
<1> SUFFICES ASSUME Init PROVE Typed
  OBVIOUS
<1>1. OutcomeLimit \in Nat /\ IdLimit \in Nat /\ MaxRestarts \in Nat
  BY ConstantsAssumption
<1>2. <<>> \in Seq(Pauses) /\ Len(<<>>) = 0
  BY EmptySeq
<1>3. TypeOK
  BY <1>1, <1>2 DEF Init, TypeOK, Idle, CallStates
<1>4. WellFormed
  BY DEF Init, WellFormed, Idle, Range
<1> QED  BY <1>3, <1>4 DEF Typed

\* The end of a wait, whatever its outcome.
LEMMA RaceEndsTyped ==
  ASSUME Typed, NEW c \in Clients, client[c].at # "idle",
         NEW out \in Outcomes, NEW told \in BOOLEAN, RaceEnds(c, out, told)
  PROVE  /\ client' \in [Clients -> [at : {"idle", "starting", "resuming", "joining"},
                                     exec : Executions \cup {NoExecution},
                                     pause : Pauses \cup {0}]]
         /\ \A d \in Clients : client'[d] = IF d = c THEN Idle ELSE client[d]
         /\ pendingResumes' \subseteq pendingResumes
         /\ pendingResumes \subseteq pendingResumes' \cup Recorded'
         /\ Recorded \subseteq Recorded'
         /\ Range(settledOutcomes') \subseteq Recorded'
         /\ settledOutcomes' \in Seq(Pauses) /\ Len(settledOutcomes') <= OutcomeLimit
         /\ settledIds' \in Seq(Pauses) /\ Len(settledIds') <= IdLimit
         /\ outcome' \in [Pauses -> Outcomes \cup {NoOutcome}]
         /\ answers' \in [Pauses -> SUBSET Outcomes]
<1> DEFINE p == client[c].pause
<1>1. /\ client' \in [Clients -> [at : {"idle", "starting", "resuming", "joining"},
                                  exec : Executions \cup {NoExecution},
                                  pause : Pauses \cup {0}]]
      /\ \A d \in Clients : client'[d] = IF d = c THEN Idle ELSE client[d]
  BY DEF RaceEnds, Typed, TypeOK, Idle
<1>2. CASE client[c].at = "resuming"
  <2>1. p \in Pauses
    BY <1>2 DEF Typed, WellFormed
  <2>2. <<p>> \in Seq(Pauses) /\ Range(<<p>>) = {p}
    BY <2>1 DEF Range
  <2>3. RecordSettledOutcome(<<p>>, out)
    BY <1>2 DEF RaceEnds
  <2>4. /\ settledOutcomes' \in Seq(Pauses) /\ Len(settledOutcomes') <= OutcomeLimit
        /\ settledIds' \in Seq(Pauses) /\ Len(settledIds') <= IdLimit
        /\ outcome' \in [Pauses -> Outcomes \cup {NoOutcome}]
        /\ Range(settledOutcomes') \subseteq Range(settledOutcomes) \cup Range(<<p>>)
        /\ Recorded' = Recorded \cup (Range(<<p>>) \cap Pauses)
    <3>1. TypeOK
      BY DEF Typed
    <3> HIDE DEF p
    <3> QED  BY <3>1, <2>2, <2>3, RecordsTheIds
  <2>5. /\ pendingResumes' = pendingResumes \ {p}
        /\ answers' = IF told THEN [answers EXCEPT ![p] = @ \cup {out}] ELSE answers
    BY <1>2 DEF RaceEnds
  <2>6. answers' \in [Pauses -> SUBSET Outcomes]
    BY <2>1, <2>5 DEF Typed, TypeOK
  <2>7. /\ Range(settledOutcomes') \subseteq Recorded'
        /\ pendingResumes \subseteq pendingResumes' \cup Recorded'
    BY <2>1, <2>2, <2>4, <2>5 DEF Typed, WellFormed
  <2> QED  BY <1>1, <2>4, <2>5, <2>6, <2>7
<1>3. CASE client[c].at # "resuming"
  <2>1. UNCHANGED <<settledOutcomes, settledIds, outcome, pendingResumes, answers>>
    BY <1>3 DEF RaceEnds
  <2> QED  BY <1>1, <2>1 DEF Typed, TypeOK, WellFormed, Recorded
<1> QED  BY <1>2, <1>3

LEMMA RaceEndsWellFormed ==
  ASSUME Typed, NEW c \in Clients, client[c].at # "idle",
         NEW out \in Outcomes, NEW told \in BOOLEAN, RaceEnds(c, out, told),
         UNCHANGED <<pausedExecutions, call, owner>>
  PROVE  WellFormed'
<1>1. /\ \A d \in Clients : client'[d] = IF d = c THEN Idle ELSE client[d]
      /\ pendingResumes' \subseteq pendingResumes
      /\ pendingResumes \subseteq pendingResumes' \cup Recorded'
      /\ Recorded \subseteq Recorded'
      /\ Range(settledOutcomes') \subseteq Recorded'
  BY RaceEndsTyped
<1>2. Minted' = Minted
  BY DEF Minted
<1>3. \A d \in Clients : client'[d].at # "idle" => client'[d] = client[d]
  BY <1>1 DEF Idle
<1>4. (pausedExecutions \cup pendingResumes \subseteq Minted)'
  BY <1>1, <1>2 DEF Typed, WellFormed
<1>5. (\A k \in Calls : call[k].at # "unused" => call[k].exec \in Executions)'
  BY DEF Typed, WellFormed
<1>6. (\A d \in Clients : client[d].at # "idle" => client[d].exec \in Executions)'
  BY <1>3 DEF Typed, WellFormed
<1>7. (\A d \in Clients : client[d].at \in {"resuming", "joining"} =>
         client[d].pause \in Pauses)'
  BY <1>3 DEF Typed, WellFormed
<1>8. (\A d \in Clients : client[d].at = "joining" =>
         client[d].pause \in pendingResumes \cup Recorded)'
  BY <1>1, <1>3 DEF Typed, WellFormed
<1> QED  BY <1>1, <1>4, <1>5, <1>6, <1>7, <1>8 DEF WellFormed

LEMMA ExitsAreOutcomes ==
  /\ Completed \in Outcomes /\ Interrupted \in Outcomes
  /\ \A p \in Pauses : PausedAt(p) \in Outcomes
BY DEF Outcomes

\* Calls that change their state, and were in use, keep their type.
LEMMA CallsAdvance ==
  ASSUME TypeOK, NEW s \in CallStates \ {"unused"},
         call' = [k \in Calls |-> call'[k]],
         \A k \in Calls : \/ call'[k] = call[k]
                          \/ call'[k] = [call[k] EXCEPT !.at = s] /\ call[k].at # "unused"
  PROVE  /\ call' \in [Calls -> [exec : Executions \cup {NoExecution}, at : CallStates]]
         /\ \A k \in Calls : call'[k].exec = call[k].exec
         /\ \A k \in Calls : call'[k].at # "unused" => call[k].at # "unused"
<1>1. ASSUME NEW k \in Calls
      PROVE  /\ call'[k] \in [exec : Executions \cup {NoExecution}, at : CallStates]
             /\ call'[k].exec = call[k].exec
             /\ call'[k].at # "unused" => call[k].at # "unused"
  <2>1. call[k] \in [exec : Executions \cup {NoExecution}, at : CallStates]
    BY DEF TypeOK
  <2>2. CASE call'[k] = call[k]
    BY <2>1, <2>2
  <2>3. CASE call'[k] = [call[k] EXCEPT !.at = s] /\ call[k].at # "unused"
    BY <2>1, <2>3
  <2> QED
    BY <2>2, <2>3
<1> QED
  BY <1>1

LEMMA TypedStep == Typed /\ [Next]_vars => Typed'
<1> SUFFICES ASSUME Typed, [Next]_vars PROVE Typed'
  OBVIOUS
<1> USE DEF Typed
<1>1. ASSUME NEW c \in Clients, NEW e \in Executions, StartPausableExecution(c, e)
      PROVE  Typed'
  <2>1. TypeOK'
    BY <1>1 DEF StartPausableExecution, TypeOK, engineVars, mintVars, observed
  <2>2. WellFormed'
    BY <1>1 DEF StartPausableExecution, TypeOK, WellFormed, Minted, Recorded,
                engineVars, mintVars, observed
  <2> QED  BY <2>1, <2>2
<1>2. ASSUME NEW e \in Executions, NEW k \in Calls, DispatchCall(e, k)
      PROVE  Typed'
  <2>1. TypeOK'
    BY <1>2 DEF DispatchCall, TypeOK, CallStates, engineVars, mintVars, observed
  <2>2. WellFormed'
    BY <1>2 DEF DispatchCall, TypeOK, WellFormed, Minted, Recorded, engineVars, mintVars, observed
  <2> QED  BY <2>1, <2>2
<1>3. ASSUME NEW k \in Calls, ReturnCall(k)
      PROVE  Typed'
  <2>1. call' \in [Calls -> [exec : Executions \cup {NoExecution}, at : CallStates]]
    <3>1. /\ call' = [i \in Calls |-> call'[i]]
          /\ \A i \in Calls :
               \/ call'[i] = call[i]
               \/ call'[i] = [call[i] EXCEPT !.at = "finished"] /\ call[i].at # "unused"
      BY <1>3 DEF ReturnCall, TypeOK
    <3> QED  BY <3>1, CallsAdvance DEF CallStates
  <2>2. TypeOK'
    BY <1>3, <2>1 DEF ReturnCall, TypeOK, engineVars, mintVars, observed
  <2>3. WellFormed'
    BY <1>3 DEF ReturnCall, TypeOK, WellFormed, Minted, Recorded, engineVars, mintVars, observed
  <2> QED  BY <2>2, <2>3
<1>4. ASSUME NEW k \in Calls, NEW p \in Pauses, Elicit(k, p)
      PROVE  Typed'
  <2>1. call[k].exec \in Executions
    BY <1>4 DEF Elicit, WellFormed
  <2>2. pauseQueue' \in [Executions -> Seq(Pauses)]
    BY <1>4, <2>1, AppendProperties DEF Elicit, TypeOK
  <2>3. /\ owner' \in [Pauses -> Executions \cup {NoExecution}]
        /\ gate' \in [Pauses -> Calls \cup {NoCall}]
    BY <1>4, <2>1 DEF Elicit, TypeOK
  <2>4. call' \in [Calls -> [exec : Executions \cup {NoExecution}, at : CallStates]]
    BY <1>4 DEF Elicit, TypeOK, CallStates
  <2>5. TypeOK'
    BY <1>4, <2>2, <2>3, <2>4 DEF Elicit, TypeOK, observed
  <2>6. \A q \in Pauses : owner'[q] = IF q = p THEN call[k].exec ELSE owner[q]
    BY <1>4 DEF Elicit, TypeOK
  <2>7. Minted' = Minted \cup {p}
    BY <2>1, <2>6, ConstantsAssumption DEF Minted
  <2>8. WellFormed'
    BY <1>4, <2>7 DEF Elicit, TypeOK, WellFormed, Recorded, observed
  <2> QED  BY <2>5, <2>8
<1>5. ASSUME NEW e \in Executions, EndSandbox(e)
      PROVE  Typed'
  <2>1. /\ call' \in [Calls -> [exec : Executions \cup {NoExecution}, at : CallStates]]
        /\ \A k \in Calls : call'[k].exec = call[k].exec
        /\ \A k \in Calls : call'[k].at # "unused" => \/ call[k].at # "unused"
                                                      \/ call[k].exec = e
    BY <1>5 DEF EndSandbox, TypeOK, CallStates
  <2>2. TypeOK'
    BY <1>5, <2>1 DEF EndSandbox, TypeOK, engineVars, mintVars, observed
  <2>3. WellFormed'
    BY <1>5, <2>1 DEF EndSandbox, WellFormed, Minted, Recorded, engineVars, mintVars, observed
  <2> QED  BY <2>2, <2>3
<1>6. ASSUME NEW e \in Executions, SweepEndedExecution(e)
      PROVE  Typed'
  <2>1. PICK order \in MintOrders(PausesOf(e)) : RecordSettledOutcome(order, Completed)
    BY <1>6 DEF SweepEndedExecution
  <2>2. PausesOf(e) \in SUBSET Pauses
    BY DEF PausesOf, TypeOK
  <2>3. order \in Seq(Pauses)
    BY <2>1, <2>2, MintOrdersList
  <2>4. /\ settledOutcomes' \in Seq(Pauses) /\ Len(settledOutcomes') <= OutcomeLimit
        /\ settledIds' \in Seq(Pauses) /\ Len(settledIds') <= IdLimit
        /\ outcome' \in [Pauses -> Outcomes \cup {NoOutcome}]
        /\ Range(settledOutcomes') \subseteq Range(settledOutcomes) \cup PausesOf(e)
        /\ Recorded' = Recorded \cup PausesOf(e)
    BY <2>1, <2>2, <2>3, MintOrdersList, RecordsTheIds, ExitsAreOutcomes
  <2>5. TypeOK'
    BY <1>6, <2>4 DEF SweepEndedExecution, TypeOK, mintVars, observed
  <2>6. WellFormed'
    BY <1>6, <2>4 DEF SweepEndedExecution, WellFormed, Minted, mintVars, observed
  <2> QED  BY <2>5, <2>6
<1>7. ASSUME NEW c \in Clients, NEW p \in Pauses, Resume(c, p)
      PROVE  Typed'
  <2>1. CASE ResumeReplays(c, p)
    <3>1. outcome[p] \in Outcomes
      BY <2>1 DEF ResumeReplays, TypeOK, WellFormed, Recorded
    <3>2. TypeOK'
      BY <2>1, <3>1 DEF ResumeReplays, TypeOK, engineVars, sandboxVars, mintVars
    <3>3. WellFormed'
      BY <2>1 DEF ResumeReplays, WellFormed, Minted, Recorded,
                  engineVars, sandboxVars, mintVars
    <3> QED  BY <3>2, <3>3
  <2>2. CASE ResumeJoins(c, p)
    <3>1. owner[p] \in Executions
      BY <2>2 DEF ResumeJoins, TypeOK, WellFormed, Minted
    <3>2. TypeOK'
      BY <2>2, <3>1 DEF ResumeJoins, TypeOK, engineVars, sandboxVars, mintVars, observed
    <3>3. WellFormed'
      BY <2>2, <3>1 DEF ResumeJoins, TypeOK, WellFormed, Minted, Recorded,
                  engineVars, sandboxVars, mintVars
    <3> QED  BY <3>2, <3>3
  <2>3. CASE ResumeFindsNothing(c, p)
    <3>1. TypeOK'
      BY <2>3 DEF ResumeFindsNothing, TypeOK, engineVars, sandboxVars, mintVars
    <3>2. WellFormed'
      BY <2>3 DEF ResumeFindsNothing, WellFormed, Minted, Recorded,
                  engineVars, sandboxVars, mintVars
    <3> QED  BY <3>1, <3>2
  <2>4. CASE ResumeDelivers(c, p)
    <3>1. owner[p] \in Executions
      BY <2>4 DEF ResumeDelivers, TypeOK, WellFormed, Minted
    <3>2. /\ call' \in [Calls -> [exec : Executions \cup {NoExecution}, at : CallStates]]
          /\ \A k \in Calls : call'[k].exec = call[k].exec
          /\ \A k \in Calls : call'[k].at # "unused" => call[k].at # "unused"
      <4>1. \A k \in Calls : \/ call'[k] = call[k]
                             \/ call'[k] = [call[k] EXCEPT !.at = "running"] /\ call[k].at = "waiting"
        BY <2>4 DEF ResumeDelivers, TypeOK
      <4>2. call' = [k \in Calls |-> call'[k]]
        BY <2>4 DEF ResumeDelivers, TypeOK
      <4> QED  BY <4>1, <4>2, CallsAdvance DEF CallStates
    <3>3. TypeOK'
      BY <2>4, <3>1, <3>2 DEF ResumeDelivers, TypeOK, mintVars, observed
    <3>4. WellFormed'
      BY <2>4, <3>1, <3>2 DEF ResumeDelivers, TypeOK, WellFormed, Minted, Recorded, mintVars
    <3> QED  BY <3>3, <3>4
  <2> QED  BY <1>7, <2>1, <2>2, <2>3, <2>4 DEF Resume
<1>8. ASSUME NEW c \in Clients, Wait(c)
      PROVE  Typed'
  <2>1. CASE RaceCompletes(c)
    <3>1. client[c].at # "idle" /\ RaceEnds(c, Completed, TRUE)
      BY <2>1 DEF RaceCompletes, Racing
    <3>2. TypeOK'
      BY <2>1, <3>1, RaceEndsTyped, ExitsAreOutcomes
         DEF RaceCompletes, TypeOK, sandboxVars, mintVars
    <3>3. WellFormed'
      BY <2>1, <3>1, RaceEndsWellFormed, ExitsAreOutcomes
         DEF RaceCompletes, sandboxVars, mintVars
    <3> QED  BY <3>2, <3>3
  <2>2. CASE RacePauses(c)
    <3> DEFINE e == client[c].exec
               p == Head(pauseQueue[e])
    <3>1. /\ client[c].at # "idle" /\ RaceEnds(c, PausedAt(p), TRUE)
          /\ e \in Executions /\ pauseQueue[e] \in Seq(Pauses) /\ pauseQueue[e] # <<>>
      BY <2>2 DEF RacePauses, Racing, TypeOK, WellFormed
    <3>2. p \in Pauses /\ Tail(pauseQueue[e]) \in Seq(Pauses)
      BY <3>1, HeadTailProperties
    <3>3. pauseQueue' \in [Executions -> Seq(Pauses)] /\ known' \subseteq Pauses
      BY <2>2, <3>2 DEF RacePauses, TypeOK
    <3>4. TypeOK'
      BY <2>2, <3>1, <3>2, <3>3, RaceEndsTyped, ExitsAreOutcomes
         DEF RacePauses, TypeOK, sandboxVars, mintVars
    <3>5. WellFormed'
      BY <2>2, <3>1, <3>2, RaceEndsWellFormed, ExitsAreOutcomes
         DEF RacePauses, sandboxVars, mintVars
    <3> QED  BY <3>4, <3>5
  <2>3. CASE JoinedResumeReturns(c)
    <3>1. client[c].pause \in Pauses /\ outcome[client[c].pause] \in Outcomes
      BY <2>3 DEF JoinedResumeReturns, TypeOK, WellFormed, Recorded
    <3>2. TypeOK'
      BY <2>3, <3>1 DEF JoinedResumeReturns, TypeOK, Idle, engineVars, sandboxVars, mintVars
    <3>3. WellFormed'
      BY <2>3 DEF JoinedResumeReturns, TypeOK, WellFormed, Minted, Recorded, Idle,
                  engineVars, sandboxVars, mintVars
    <3> QED  BY <3>2, <3>3
  <2> QED  BY <1>8, <2>1, <2>2, <2>3 DEF Wait
<1>9. ASSUME NEW c \in Clients, CallerInterrupted(c)
      PROVE  Typed'
  <2>1. client[c].at # "idle" /\ RaceEnds(c, Interrupted, FALSE)
    BY <1>9 DEF CallerInterrupted
  <2>2. TypeOK'
    BY <1>9, <2>1, RaceEndsTyped, ExitsAreOutcomes
       DEF CallerInterrupted, TypeOK, sandboxVars, mintVars
  <2>3. WellFormed'
    BY <1>9, <2>1, RaceEndsWellFormed, ExitsAreOutcomes
       DEF CallerInterrupted, sandboxVars, mintVars
  <2> QED  BY <2>2, <2>3
<1>10. ASSUME Restart
       PROVE  Typed'
  <2>1. <<>> \in Seq(Pauses) /\ Len(<<>>) = 0 /\ Range(<<>>) = {}
    BY EmptySeq DEF Range
  <2>2. OutcomeLimit \in Nat /\ IdLimit \in Nat /\ MaxRestarts \in Nat
    BY ConstantsAssumption
  <2>3. /\ call' \in [Calls -> [exec : Executions \cup {NoExecution}, at : CallStates]]
        /\ \A k \in Calls : call'[k].exec = call[k].exec
        /\ \A k \in Calls : call'[k].at # "unused" => call[k].at # "unused"
    <3>1. /\ call' = [i \in Calls |-> call'[i]]
          /\ \A i \in Calls :
               \/ call'[i] = call[i]
               \/ call'[i] = [call[i] EXCEPT !.at = "finished"] /\ call[i].at # "unused"
      BY <1>10 DEF Restart
    <3> QED  BY <3>1, CallsAdvance DEF CallStates
  <2>4. TypeOK'
    BY <1>10, <2>1, <2>2, <2>3 DEF Restart, TypeOK, Idle, Minted, observed
  <2>5. WellFormed'
    BY <1>10, <2>1, <2>3 DEF Restart, WellFormed, Idle, Minted, Recorded, observed
  <2> QED  BY <2>4, <2>5
<1>11. CASE UNCHANGED vars
  BY <1>11 DEF vars, engineVars, sandboxVars, mintVars, observed,
               TypeOK, WellFormed, Minted, Recorded
<1> QED
  BY <1>1, <1>2, <1>3, <1>4, <1>5, <1>6, <1>7, <1>8, <1>9, <1>10, <1>11 DEF Next

\* Spec keeps the types, and whose fiber each call, caller and pause is about.
LEMMA TypedAlways == Spec => []Typed
<1> QED  BY TypedInit, TypedStep, PTL DEF Spec

(* Every variable keeps its type, and the two caches of settled executions *)
(* never outgrow their limits, whatever the limits are (TypeOK).           *)
THEOREM TypeCorrect == Spec => []TypeOK
<1>1. Typed => TypeOK
  BY DEF Typed
<1> QED  BY <1>1, TypedAlways, PTL

---------------------------------------------------------------------------
(* Where the ids are. *)

\* OnePlace is not inductive alone: it needs to know that a place holds only ids
\* the living engine minted, and that a resume in flight has one caller.
Places ==
  /\ OnePlace
  /\ OneResumer
  /\ (pausedExecutions \cup pendingResumes) \cap lost = {}
  /\ Recorded \subseteq Minted
  /\ lost \subseteq Minted

\* A step that moves no id, and that no resume in flight takes part in.
LEMMA QuietKeepsPlaces ==
  ASSUME Places,
         UNCHANGED <<pausedExecutions, pendingResumes, outcome, owner, lost>>,
         \A c \in Clients : \/ client'[c] = client[c]
                            \/ client[c].at # "resuming" /\ client'[c].at # "resuming"
  PROVE  Places'
<1>1. Minted' = Minted /\ Recorded' = Recorded
  BY DEF Minted, Recorded
<1>2. \A c \in Clients : /\ client'[c].at = "resuming" <=> client[c].at = "resuming"
                         /\ client[c].at = "resuming" => client'[c] = client[c]
  OBVIOUS
<1>3. OnePlace'
  BY <1>1 DEF Places, OnePlace
<1>4. {client'[c].pause : c \in {d \in Clients : client'[d].at = "resuming"}}
        = {client[c].pause : c \in {d \in Clients : client[d].at = "resuming"}}
  BY <1>2
<1>5. OneResumer'
  BY <1>2, <1>4 DEF Places, OneResumer
<1> QED  BY <1>1, <1>3, <1>5 DEF Places

\* The watcher moves the open pauses of its execution to the settled ones.
LEMMA SweepMoves ==
  ASSUME Typed, NEW e \in Executions, SweepEndedExecution(e)
  PROVE  /\ PausesOf(e) \subseteq pausedExecutions
         /\ pausedExecutions' = pausedExecutions \ PausesOf(e)
         /\ Recorded' = Recorded \cup PausesOf(e)
         /\ \A p \in Pauses : outcome'[p] = IF p \in PausesOf(e) THEN Completed ELSE outcome[p]
         /\ Range(settledOutcomes') \subseteq Range(settledOutcomes) \cup PausesOf(e)
<1>1. PICK order \in MintOrders(PausesOf(e)) : RecordSettledOutcome(order, Completed)
  BY DEF SweepEndedExecution
<1>2. PausesOf(e) \in SUBSET Pauses /\ PausesOf(e) \subseteq pausedExecutions
  BY DEF PausesOf, Typed, TypeOK
<1>3. order \in Seq(Pauses) /\ Range(order) = PausesOf(e)
  BY <1>1, <1>2, MintOrdersList
<1>4. TypeOK /\ Completed \in Outcomes
  BY ExitsAreOutcomes DEF Typed
<1>5. /\ Range(settledOutcomes') \subseteq Range(settledOutcomes) \cup Range(order)
      /\ \A p \in Pauses : outcome'[p] = IF p \in Range(order) THEN Completed ELSE outcome[p]
      /\ Recorded' = Recorded \cup (Range(order) \cap Pauses)
  BY <1>1, <1>3, <1>4, RecordsTheIds
<1> QED  BY <1>2, <1>3, <1>5 DEF SweepEndedExecution

\* The end of the wait of a resume settles the pause it resumed.
LEMMA RaceEndsMoves ==
  ASSUME Typed, NEW c \in Clients, client[c].at = "resuming",
         NEW out \in Outcomes, NEW told \in BOOLEAN, RaceEnds(c, out, told)
  PROVE  LET p == client[c].pause IN
         /\ p \in Pauses
         /\ pendingResumes' = pendingResumes \ {p}
         /\ Recorded' = Recorded \cup {p}
         /\ \A q \in Pauses : outcome'[q] = IF q = p THEN out ELSE outcome[q]
         /\ Range(settledOutcomes') \subseteq Range(settledOutcomes) \cup {p}
         /\ answers' = IF told THEN [answers EXCEPT ![p] = @ \cup {out}] ELSE answers
<1> DEFINE p == client[c].pause
<1>1. p \in Pauses
  BY DEF Typed, WellFormed
<1>2. <<p>> \in Seq(Pauses) /\ Range(<<p>>) = {p}
  BY <1>1 DEF Range
<1>3. /\ RecordSettledOutcome(<<p>>, out)
      /\ pendingResumes' = pendingResumes \ {p}
      /\ answers' = IF told THEN [answers EXCEPT ![p] = @ \cup {out}] ELSE answers
  BY DEF RaceEnds
<1>4. /\ Range(settledOutcomes') \subseteq Range(settledOutcomes) \cup Range(<<p>>)
      /\ \A q \in Pauses : outcome'[q] = IF q \in Range(<<p>>) THEN out ELSE outcome[q]
      /\ Recorded' = Recorded \cup (Range(<<p>>) \cap Pauses)
  <2>1. TypeOK
    BY DEF Typed
  <2> HIDE DEF p
  <2> QED  BY <2>1, <1>2, <1>3, RecordsTheIds
<1>5. Recorded' = Recorded \cup {p}
  BY <1>1, <1>2, <1>4
<1>6. \A q \in Pauses : outcome'[q] = IF q = p THEN out ELSE outcome[q]
  BY <1>2, <1>4
<1>7. Range(settledOutcomes') \subseteq Range(settledOutcomes) \cup {p}
  BY <1>2, <1>4
<1> QED  BY <1>1, <1>3, <1>5, <1>6, <1>7

LEMMA RaceEndsKeepsPlaces ==
  ASSUME Typed, Places, NEW c \in Clients, client[c].at # "idle",
         NEW out \in Outcomes, NEW told \in BOOLEAN, RaceEnds(c, out, told),
         UNCHANGED <<pausedExecutions, owner, lost>>
  PROVE  Places'
<1>1. \A d \in Clients : client'[d] = IF d = c THEN Idle ELSE client[d]
  BY RaceEndsTyped
<1>2. CASE client[c].at = "resuming"
  <2> DEFINE p == client[c].pause
  <2>1. /\ p \in Pauses
        /\ pendingResumes' = pendingResumes \ {p}
        /\ Recorded' = Recorded \cup {p}
    BY <1>2, RaceEndsMoves
  <2>2. p \in pendingResumes
    BY <1>2 DEF Places, OneResumer
  <2>3. Minted' = Minted
    BY DEF Minted
  <2>4. OnePlace'
    BY <2>1, <2>2, <2>3 DEF Places, OnePlace
  <2>5. \A d \in Clients : client'[d].at = "resuming" <=> client[d].at = "resuming" /\ d # c
    BY <1>1 DEF Idle
  <2>6. \A d \in Clients : client[d].at = "resuming" /\ d # c => client[d].pause # p
    BY <1>2 DEF Places, OneResumer
  <2>7. {client'[b].pause : b \in {d \in Clients : client'[d].at = "resuming"}}
          = {client[b].pause : b \in {d \in Clients : client[d].at = "resuming"}} \ {p}
    BY <1>1, <2>5, <2>6
  <2>8. OneResumer'
    BY <1>1, <2>1, <2>5, <2>7 DEF Places, OneResumer
  <2> QED  BY <2>1, <2>2, <2>3, <2>4, <2>8 DEF Places, OnePlace
<1>3. CASE client[c].at # "resuming"
  <2>1. UNCHANGED <<pendingResumes, outcome>>
    BY <1>3 DEF RaceEnds
  <2>2. \A d \in Clients : \/ client'[d] = client[d]
                           \/ client[d].at # "resuming" /\ client'[d].at # "resuming"
    BY <1>1, <1>3 DEF Idle
  <2> QED  BY <2>1, <2>2, QuietKeepsPlaces
<1> QED  BY <1>2, <1>3


LEMMA PlacesInit == Init => Places
BY ConstantsAssumption
   DEF Init, Places, OnePlace, OneResumer, Recorded, Minted, Idle

LEMMA PlacesStep == Typed /\ Places /\ [Next]_vars => Places'
<1> SUFFICES ASSUME Typed, Places, [Next]_vars PROVE Places'
  OBVIOUS
<1>1. ASSUME NEW c \in Clients, NEW e \in Executions, StartPausableExecution(c, e)
      PROVE  Places'
  <2>1. \A d \in Clients : \/ client'[d] = client[d]
                           \/ client[d].at # "resuming" /\ client'[d].at # "resuming"
    BY <1>1 DEF StartPausableExecution, Typed, TypeOK, Idle
  <2> QED  BY <1>1, <2>1, QuietKeepsPlaces DEF StartPausableExecution, engineVars, mintVars
<1>2. ASSUME NEW e \in Executions, NEW k \in Calls, DispatchCall(e, k)
      PROVE  Places'
  BY <1>2, QuietKeepsPlaces DEF DispatchCall, engineVars, mintVars
<1>3. ASSUME NEW k \in Calls, ReturnCall(k)
      PROVE  Places'
  BY <1>3, QuietKeepsPlaces DEF ReturnCall, engineVars, mintVars
<1>4. ASSUME NEW k \in Calls, NEW p \in Pauses, Elicit(k, p)
      PROVE  Places'
  <2>1. call[k].exec \in Executions
    BY <1>4 DEF Elicit, Typed, WellFormed
  <2>2. \A q \in Pauses : owner'[q] = IF q = p THEN call[k].exec ELSE owner[q]
    BY <1>4 DEF Elicit, Typed, TypeOK
  <2>3. Minted' = Minted \cup {p} /\ p \notin Minted
    BY <1>4, <2>1, <2>2, ConstantsAssumption DEF Minted, Elicit, MintsFreshId
  <2>4. /\ pausedExecutions' = pausedExecutions \cup {p}
        /\ UNCHANGED <<pendingResumes, client, lost>>
        /\ Recorded' = Recorded
    BY <1>4 DEF Elicit, Recorded
  <2>5. p \notin pausedExecutions \cup pendingResumes \cup Recorded \cup lost
    BY <2>3 DEF Places, Typed, WellFormed
  <2>6. OnePlace'
    BY <2>3, <2>4, <2>5 DEF Places, OnePlace
  <2>7. OneResumer'
    BY <2>4 DEF Places, OneResumer
  <2> QED  BY <2>3, <2>4, <2>5, <2>6, <2>7 DEF Places
<1>5. ASSUME NEW e \in Executions, EndSandbox(e)
      PROVE  Places'
  BY <1>5, QuietKeepsPlaces DEF EndSandbox, engineVars, mintVars
<1>6. ASSUME NEW e \in Executions, SweepEndedExecution(e)
      PROVE  Places'
  <2>1. /\ PausesOf(e) \subseteq pausedExecutions
        /\ pausedExecutions' = pausedExecutions \ PausesOf(e)
        /\ Recorded' = Recorded \cup PausesOf(e)
    BY <1>6, SweepMoves
  <2>2. UNCHANGED <<pendingResumes, client, lost>> /\ Minted' = Minted
    BY <1>6 DEF SweepEndedExecution, mintVars, Minted
  <2>3. OnePlace'
    BY <2>1, <2>2 DEF Places, OnePlace
  <2>4. OneResumer'
    BY <2>2 DEF Places, OneResumer
  <2>5. (Recorded \subseteq Minted)'
    BY <2>1, <2>2 DEF Places, Typed, WellFormed
  <2> QED  BY <2>1, <2>2, <2>3, <2>4, <2>5 DEF Places
<1>7. ASSUME NEW c \in Clients, NEW p \in Pauses, Resume(c, p)
      PROVE  Places'
  <2>1. CASE ResumeReplays(c, p)
    BY <2>1, QuietKeepsPlaces DEF ResumeReplays, engineVars, mintVars
  <2>2. CASE ResumeJoins(c, p)
    <3>1. \A d \in Clients : \/ client'[d] = client[d]
                             \/ client[d].at # "resuming" /\ client'[d].at # "resuming"
      BY <2>2 DEF ResumeJoins, Asks, Typed, TypeOK, Idle
    <3> QED  BY <2>2, <3>1, QuietKeepsPlaces DEF ResumeJoins, engineVars, mintVars
  <2>3. CASE ResumeFindsNothing(c, p)
    BY <2>3, QuietKeepsPlaces DEF ResumeFindsNothing, engineVars, mintVars
  <2>4. CASE ResumeDelivers(c, p)
    <3>1. /\ p \in pausedExecutions /\ p \notin pendingResumes
          /\ pausedExecutions' = pausedExecutions \ {p}
          /\ pendingResumes' = pendingResumes \cup {p}
          /\ lost' = lost /\ Minted' = Minted /\ Recorded' = Recorded
      BY <2>4 DEF ResumeDelivers, mintVars, Minted, Recorded
    <3>2. \A d \in Clients : client'[d] = IF d = c
                               THEN [at |-> "resuming", exec |-> owner[p], pause |-> p]
                               ELSE client[d]
      BY <2>4 DEF ResumeDelivers, Typed, TypeOK
    <3>3. client[c].at # "resuming"
      BY <2>4 DEF ResumeDelivers, Asks, Idle
    <3>4. OnePlace'
      BY <3>1 DEF Places, OnePlace
    <3>5. {client'[b].pause : b \in {d \in Clients : client'[d].at = "resuming"}}
            = {client[b].pause : b \in {d \in Clients : client[d].at = "resuming"}} \cup {p}
      BY <3>2, <3>3
    <3>6. \A d \in Clients : client[d].at = "resuming" => client[d].pause # p
      BY <3>1 DEF Places, OneResumer
    <3>7. OneResumer'
      BY <3>1, <3>2, <3>3, <3>5, <3>6 DEF Places, OneResumer
    <3> QED  BY <3>1, <3>4, <3>7 DEF Places
  <2> QED  BY <1>7, <2>1, <2>2, <2>3, <2>4 DEF Resume
<1>8. ASSUME NEW c \in Clients, Wait(c)
      PROVE  Places'
  <2>1. CASE RaceCompletes(c)
    BY <2>1, RaceEndsKeepsPlaces, ExitsAreOutcomes DEF RaceCompletes, Racing, mintVars
  <2>2. CASE RacePauses(c)
    <3> DEFINE e == client[c].exec
               p == Head(pauseQueue[e])
    <3>1. /\ client[c].at # "idle" /\ RaceEnds(c, PausedAt(p), TRUE)
          /\ pauseQueue[e] \in Seq(Pauses) /\ pauseQueue[e] # <<>>
      BY <2>2 DEF RacePauses, Racing, Typed, TypeOK, WellFormed
    <3>2. p \in Pauses
      BY <3>1, HeadTailProperties
    <3>3. PausedAt(p) \in Outcomes
      BY <3>2, ExitsAreOutcomes
    <3>4. UNCHANGED <<pausedExecutions, owner, lost>>
      BY <2>2 DEF RacePauses, mintVars
    <3> QED  BY <3>1, <3>3, <3>4, RaceEndsKeepsPlaces
  <2>3. CASE JoinedResumeReturns(c)
    <3>1. \A d \in Clients : \/ client'[d] = client[d]
                             \/ client[d].at # "resuming" /\ client'[d].at # "resuming"
      BY <2>3 DEF JoinedResumeReturns, Typed, TypeOK, Idle
    <3> QED  BY <2>3, <3>1, QuietKeepsPlaces DEF JoinedResumeReturns, engineVars, mintVars
  <2> QED  BY <1>8, <2>1, <2>2, <2>3 DEF Wait
<1>9. ASSUME NEW c \in Clients, CallerInterrupted(c)
      PROVE  Places'
  BY <1>9, RaceEndsKeepsPlaces, ExitsAreOutcomes DEF CallerInterrupted, mintVars
<1>10. ASSUME Restart
       PROVE  Places'
  <2>1. /\ pausedExecutions' = {} /\ pendingResumes' = {} /\ lost' = Minted
        /\ Minted' = Minted /\ Recorded' = Recorded
        /\ \A c \in Clients : client'[c].at = "idle"
    BY <1>10 DEF Restart, Minted, Recorded, Idle
  <2>2. {client'[b].pause : b \in {d \in Clients : client'[d].at = "resuming"}} = {}
    BY <2>1
  <2> QED  BY <2>1, <2>2 DEF Places, OnePlace, OneResumer
<1>11. CASE UNCHANGED vars
  BY <1>11, QuietKeepsPlaces DEF vars, engineVars, mintVars
<1> QED
  BY <1>1, <1>2, <1>3, <1>4, <1>5, <1>6, <1>7, <1>8, <1>9, <1>10, <1>11 DEF Next

\* Spec keeps every id in its place.
LEMMA PlacesAlways == Spec => [](Typed /\ Places)
<1>1. Init => Typed /\ Places
  BY TypedInit, PlacesInit
<1>2. Typed /\ Places /\ [Next]_vars => (Typed /\ Places)'
  BY TypedStep, PlacesStep
<1> QED  BY <1>1, <1>2, PTL DEF Spec

(* However resumes, ends of fibers, interrupted callers and rebuilds       *)
(* interleave, an id the living engine minted is open, being resumed or    *)
(* settled: never two of these, never none (OnePlace).                     *)
THEOREM PlaceUnique == Spec => []OnePlace
<1>1. Places => OnePlace
  BY DEF Places
<1> QED  BY <1>1, PlacesAlways, PTL

(* A resume in flight has exactly one caller that races for it, however    *)
(* many duplicates join (OneResumer).                                      *)
THEOREM ResumerUnique == Spec => []OneResumer
<1>1. Places => OneResumer
  BY DEF Places
<1> QED  BY <1>1, PlacesAlways, PTL


---------------------------------------------------------------------------
(* What the callers have been told. *)

\* Only minted ids are queued and handed out, and an answer a resume returned is
\* the outcome recorded for the id.
KnownMinted ==
  /\ known \subseteq Minted
  /\ pauseQueue \in [Executions -> Seq(Minted)]

AnswersRecorded ==
  \A p \in Pauses : answers[p] \subseteq IF p \in Recorded THEN {outcome[p]} ELSE {}

History == KnownMinted /\ AnswersRecorded /\ NullOnlyWhenForgotten

LEMMA QuietKeepsHistory ==
  ASSUME History,
         UNCHANGED <<owner, lost, pauseQueue, settledOutcomes, outcome, known, answers, nulls>>
  PROVE  History'
BY DEF History, KnownMinted, AnswersRecorded, NullOnlyWhenForgotten, Minted, Recorded

\* The outcomes of the ids in S, none of which had one, are recorded.
LEMMA SettlingKeepsNulls ==
  ASSUME History, NEW S \in SUBSET Pauses, S \cap Recorded = {},
         Recorded' = Recorded \cup S,
         Range(settledOutcomes') \subseteq Range(settledOutcomes) \cup S,
         UNCHANGED <<nulls, lost>>
  PROVE  NullOnlyWhenForgotten'
BY DEF History, NullOnlyWhenForgotten

LEMMA RaceEndsKeepsHistory ==
  ASSUME Typed, Places, History, NEW c \in Clients, client[c].at # "idle",
         NEW out \in Outcomes, NEW told \in BOOLEAN, RaceEnds(c, out, told),
         UNCHANGED <<nulls, lost>>
  PROVE  AnswersRecorded' /\ NullOnlyWhenForgotten'
<1>1. CASE client[c].at = "resuming"
  <2> DEFINE p == client[c].pause
  <2>1. /\ p \in Pauses
        /\ Recorded' = Recorded \cup {p}
        /\ \A q \in Pauses : outcome'[q] = IF q = p THEN out ELSE outcome[q]
        /\ Range(settledOutcomes') \subseteq Range(settledOutcomes) \cup {p}
        /\ answers' = IF told THEN [answers EXCEPT ![p] = @ \cup {out}] ELSE answers
    BY <1>1, RaceEndsMoves
  <2>2. p \notin Recorded
    BY <1>1 DEF Places, OnePlace, OneResumer
  <2>3. NullOnlyWhenForgotten'
    <3>1. {p} \in SUBSET Pauses /\ {p} \cap Recorded = {}
      BY <2>1, <2>2
    <3> HIDE DEF p
    <3> QED  BY <2>1, <3>1, SettlingKeepsNulls
  <2>4. \A q \in Pauses : answers'[q] \subseteq IF q = p THEN {out} ELSE answers[q]
    BY <2>1, <2>2 DEF History, AnswersRecorded, Typed, TypeOK
  <2>5. AnswersRecorded'
    BY <2>1, <2>2, <2>4 DEF History, AnswersRecorded
  <2> QED  BY <2>3, <2>5
<1>2. CASE client[c].at # "resuming"
  <2>1. UNCHANGED <<settledOutcomes, outcome, answers>>
    BY <1>2 DEF RaceEnds
  <2> QED  BY <2>1 DEF History, AnswersRecorded, NullOnlyWhenForgotten, Recorded
<1> QED  BY <1>1, <1>2

LEMMA HistoryInit == Init => History
<1> SUFFICES ASSUME Init PROVE History
  OBVIOUS
<1>1. <<>> \in Seq(Minted)
  BY EmptySeq
<1> QED  BY <1>1 DEF Init, History, KnownMinted, AnswersRecorded, NullOnlyWhenForgotten

LEMMA HistoryStep == Typed /\ Places /\ History /\ [Next]_vars => History'
<1> SUFFICES ASSUME Typed, Places, History, [Next]_vars PROVE History'
  OBVIOUS
<1>1. ASSUME NEW c \in Clients, NEW e \in Executions, StartPausableExecution(c, e)
      PROVE  History'
  BY <1>1, QuietKeepsHistory DEF StartPausableExecution, engineVars, mintVars, observed
<1>2. ASSUME NEW e \in Executions, NEW k \in Calls, DispatchCall(e, k)
      PROVE  History'
  BY <1>2, QuietKeepsHistory DEF DispatchCall, engineVars, mintVars, observed
<1>3. ASSUME NEW k \in Calls, ReturnCall(k)
      PROVE  History'
  BY <1>3, QuietKeepsHistory DEF ReturnCall, engineVars, mintVars, observed
<1>4. ASSUME NEW k \in Calls, NEW p \in Pauses, Elicit(k, p)
      PROVE  History'
  <2> DEFINE e == call[k].exec
  <2>1. e \in Executions
    BY <1>4 DEF Elicit, Typed, WellFormed
  <2>2. \A q \in Pauses : owner'[q] = IF q = p THEN e ELSE owner[q]
    BY <1>4 DEF Elicit, Typed, TypeOK
  <2>3. Minted' = Minted \cup {p}
    BY <2>1, <2>2, ConstantsAssumption DEF Minted
  <2>4. \A d \in Executions : pauseQueue[d] \in Seq(Minted')
    BY <2>3, SeqMonotonic DEF History, KnownMinted
  <2>5. Append(pauseQueue[e], p) \in Seq(Minted')
    BY <2>1, <2>3, <2>4, AppendProperties
  <2>6. pauseQueue' = [pauseQueue EXCEPT ![e] = Append(@, p)]
    BY <1>4 DEF Elicit
  <2>7. pauseQueue' \in [Executions -> Seq(Minted')]
    BY <2>4, <2>5, <2>6 DEF History, KnownMinted
  <2>8. KnownMinted'
    BY <1>4, <2>3, <2>7 DEF Elicit, observed, History, KnownMinted
  <2>9. AnswersRecorded' /\ NullOnlyWhenForgotten'
    BY <1>4 DEF Elicit, observed, History, AnswersRecorded, NullOnlyWhenForgotten, Recorded
  <2> QED  BY <2>8, <2>9 DEF History
<1>5. ASSUME NEW e \in Executions, EndSandbox(e)
      PROVE  History'
  BY <1>5, QuietKeepsHistory DEF EndSandbox, engineVars, mintVars, observed
<1>6. ASSUME NEW e \in Executions, SweepEndedExecution(e)
      PROVE  History'
  <2>1. /\ PausesOf(e) \subseteq pausedExecutions
        /\ Recorded' = Recorded \cup PausesOf(e)
        /\ \A p \in Pauses : outcome'[p] = IF p \in PausesOf(e) THEN Completed ELSE outcome[p]
        /\ Range(settledOutcomes') \subseteq Range(settledOutcomes) \cup PausesOf(e)
    BY <1>6, SweepMoves
  <2>2. PausesOf(e) \cap Recorded = {} /\ PausesOf(e) \in SUBSET Pauses
    BY <2>1 DEF Places, OnePlace, Typed, TypeOK
  <2>3. UNCHANGED <<pauseQueue, owner, lost, known, answers, nulls>>
    BY <1>6 DEF SweepEndedExecution, mintVars, observed
  <2>4. NullOnlyWhenForgotten'
    BY <2>1, <2>2, <2>3, SettlingKeepsNulls
  <2>5. AnswersRecorded'
    BY <2>1, <2>2, <2>3 DEF History, AnswersRecorded
  <2>6. KnownMinted'
    BY <2>3 DEF History, KnownMinted, Minted
  <2> QED  BY <2>4, <2>5, <2>6 DEF History
<1>7. ASSUME NEW c \in Clients, NEW p \in Pauses, Resume(c, p)
      PROVE  History'
  <2>1. CASE ResumeReplays(c, p)
    <3>1. p \in Recorded
      BY <2>1 DEF ResumeReplays, Typed, WellFormed
    <3>2. \A q \in Pauses : answers'[q] = IF q = p THEN answers[q] \cup {outcome[q]}
                                          ELSE answers[q]
      BY <2>1 DEF ResumeReplays, Typed, TypeOK
    <3>3. AnswersRecorded'
      BY <2>1, <3>1, <3>2 DEF ResumeReplays, engineVars, History, AnswersRecorded, Recorded
    <3>4. KnownMinted' /\ NullOnlyWhenForgotten'
      BY <2>1 DEF ResumeReplays, engineVars, mintVars, History, KnownMinted,
                  NullOnlyWhenForgotten, Minted, Recorded
    <3> QED  BY <3>3, <3>4 DEF History
  <2>2. CASE ResumeJoins(c, p)
    BY <2>2, QuietKeepsHistory DEF ResumeJoins, engineVars, mintVars, observed
  <2>3. CASE ResumeFindsNothing(c, p)
    <3>1. p \in lost \/ p \in Recorded
      BY <2>3 DEF ResumeFindsNothing, Asks, Places, OnePlace, History, KnownMinted
    <3>2. NullOnlyWhenForgotten'
      BY <2>3, <3>1 DEF ResumeFindsNothing, engineVars, mintVars, History,
                        NullOnlyWhenForgotten, Recorded
    <3>3. KnownMinted' /\ AnswersRecorded'
      BY <2>3 DEF ResumeFindsNothing, engineVars, mintVars, History, KnownMinted,
                  AnswersRecorded, Minted, Recorded
    <3> QED  BY <3>2, <3>3 DEF History
  <2>4. CASE ResumeDelivers(c, p)
    BY <2>4, QuietKeepsHistory DEF ResumeDelivers, mintVars, observed
  <2> QED  BY <1>7, <2>1, <2>2, <2>3, <2>4 DEF Resume
<1>8. ASSUME NEW c \in Clients, Wait(c)
      PROVE  History'
  <2>1. CASE RaceCompletes(c)
    <3>1. AnswersRecorded' /\ NullOnlyWhenForgotten'
      BY <2>1, RaceEndsKeepsHistory, ExitsAreOutcomes DEF RaceCompletes, Racing, mintVars
    <3>2. KnownMinted'
      BY <2>1 DEF RaceCompletes, mintVars, History, KnownMinted, Minted
    <3> QED  BY <3>1, <3>2 DEF History
  <2>2. CASE RacePauses(c)
    <3> DEFINE e == client[c].exec
               p == Head(pauseQueue[e])
    <3>1. /\ client[c].at # "idle" /\ RaceEnds(c, PausedAt(p), TRUE)
          /\ e \in Executions /\ pauseQueue[e] \in Seq(Minted) /\ pauseQueue[e] # <<>>
      BY <2>2 DEF RacePauses, Racing, Typed, TypeOK, WellFormed, History, KnownMinted
    <3>2. p \in Minted /\ Tail(pauseQueue[e]) \in Seq(Minted)
      BY <3>1, HeadTailProperties
    <3>3. PausedAt(p) \in Outcomes
      BY <3>2, ExitsAreOutcomes DEF Minted
    <3>4. UNCHANGED <<nulls, owner, lost>>
      BY <2>2 DEF RacePauses, mintVars
    <3>5. AnswersRecorded' /\ NullOnlyWhenForgotten'
      BY <3>1, <3>3, <3>4, RaceEndsKeepsHistory
    <3>6. Minted' = Minted
      BY <3>4 DEF Minted
    <3>7. pauseQueue' \in [Executions -> Seq(Minted)] /\ known' = known \cup {p}
      BY <2>2, <3>2 DEF RacePauses, History, KnownMinted
    <3>8. KnownMinted'
      BY <3>2, <3>6, <3>7 DEF History, KnownMinted
    <3> QED  BY <3>5, <3>8 DEF History
  <2>3. CASE JoinedResumeReturns(c)
    <3> DEFINE p == client[c].pause
    <3>1. p \in Recorded
      BY <2>3 DEF JoinedResumeReturns, Typed, WellFormed
    <3>2. \A q \in Pauses : answers'[q] = IF q = p THEN answers[q] \cup {outcome[q]}
                                          ELSE answers[q]
      BY <2>3 DEF JoinedResumeReturns, Typed, TypeOK
    <3>3. AnswersRecorded'
      BY <2>3, <3>1, <3>2 DEF JoinedResumeReturns, engineVars, History, AnswersRecorded,
                              Recorded
    <3>4. KnownMinted' /\ NullOnlyWhenForgotten'
      BY <2>3 DEF JoinedResumeReturns, engineVars, mintVars, History, KnownMinted,
                  NullOnlyWhenForgotten, Minted, Recorded
    <3> QED  BY <3>3, <3>4 DEF History
  <2> QED  BY <1>8, <2>1, <2>2, <2>3 DEF Wait
<1>9. ASSUME NEW c \in Clients, CallerInterrupted(c)
      PROVE  History'
  <2>1. AnswersRecorded' /\ NullOnlyWhenForgotten'
    BY <1>9, RaceEndsKeepsHistory, ExitsAreOutcomes DEF CallerInterrupted, mintVars
  <2>2. KnownMinted'
    BY <1>9 DEF CallerInterrupted, mintVars, History, KnownMinted, Minted
  <2> QED  BY <2>1, <2>2 DEF History
<1>10. ASSUME Restart
       PROVE  History'
  <2>1. <<>> \in Seq(Minted')
    BY EmptySeq
  <2>2. UNCHANGED <<owner, outcome, known, answers, nulls>> /\ lost' = Minted
    BY <1>10 DEF Restart, observed
  <2>3. Minted' = Minted /\ Recorded' = Recorded
    BY <2>2 DEF Minted, Recorded
  <2>4. KnownMinted'
    BY <1>10, <2>1, <2>2, <2>3 DEF Restart, History, KnownMinted
  <2>5. nulls \subseteq Minted
    BY DEF History, NullOnlyWhenForgotten, Places
  <2>6. AnswersRecorded' /\ NullOnlyWhenForgotten'
    BY <2>2, <2>3, <2>5 DEF History, AnswersRecorded, NullOnlyWhenForgotten
  <2> QED  BY <2>4, <2>6 DEF History
<1>11. CASE UNCHANGED vars
  BY <1>11, QuietKeepsHistory DEF vars, engineVars, mintVars, observed
<1> QED
  BY <1>1, <1>2, <1>3, <1>4, <1>5, <1>6, <1>7, <1>8, <1>9, <1>10, <1>11 DEF Next

LEMMA HistoryAlways == Spec => [](Typed /\ Places /\ History)
<1>1. Init => Typed /\ Places /\ History
  BY TypedInit, PlacesInit, HistoryInit
<1>2. Typed /\ Places /\ History /\ [Next]_vars => (Typed /\ Places /\ History)'
  BY TypedStep, PlacesStep, HistoryStep
<1> QED  BY <1>1, <1>2, PTL DEF Spec

(* However often a caller retries and however many callers ask at once,    *)
(* every answer resume(p) ever returns is the same (ResumeIsIdempotent).   *)
THEOREM ResumeIdempotent == Spec => []ResumeIsIdempotent
<1>1. History => ResumeIsIdempotent
  BY DEF History, AnswersRecorded, ResumeIsIdempotent
<1> QED  BY <1>1, HistoryAlways, PTL

(* A caller is told that a pause it was handed does not exist only after   *)
(* the engine was rebuilt or the outcome was evicted                       *)
(* (NullOnlyWhenForgotten).                                                *)
THEOREM NullMeansForgotten == Spec => []NullOnlyWhenForgotten
<1>1. History => NullOnlyWhenForgotten
  BY DEF History
<1> QED  BY <1>1, HistoryAlways, PTL


---------------------------------------------------------------------------
(* The life of a pause. *)

\* A step that leaves every id where it is.
LEMMA QuietKeepsStatus ==
  ASSUME UNCHANGED <<pausedExecutions, pendingResumes, outcome, owner, lost>>
  PROVE  UNCHANGED Lifecycle!vars
BY DEF Lifecycle!vars, Status, Minted

LEMMA StatusOfPlaces ==
  ASSUME Typed, Places, NEW p \in Pauses
  PROVE  /\ p \in pausedExecutions => Status(p) = "open"
         /\ p \in pendingResumes => Status(p) = "claimed"
         /\ p \in lost => Status(p) = "lost"
         /\ p \in Recorded \ lost => Status(p) = "settled"
         /\ p \notin Minted => Status(p) = "unborn"
BY DEF Status, Typed, WellFormed, Places, OnePlace

LEMMA RaceEndsSettles ==
  ASSUME Typed, Places, Places', Typed', NEW c \in Clients, client[c].at # "idle",
         NEW out \in Outcomes, NEW told \in BOOLEAN, RaceEnds(c, out, told),
         UNCHANGED <<pausedExecutions, owner, lost>>
  PROVE  [Lifecycle!Next]_(Lifecycle!vars)
<1>1. CASE client[c].at = "resuming"
  <2> DEFINE p == client[c].pause
  <2>1. /\ p \in Pauses
        /\ pendingResumes' = pendingResumes \ {p}
        /\ Recorded' = Recorded \cup {p}
        /\ \A q \in Pauses : outcome'[q] = IF q = p THEN out ELSE outcome[q]
    BY <1>1, RaceEndsMoves
  <2>2. p \in pendingResumes
    BY <1>1 DEF Places, OneResumer
  <2>3. Status(p) = "claimed"
    BY <2>1, <2>2, StatusOfPlaces
  <2>4. \A q \in Pauses : Status(q)' = IF q = p THEN "settled" ELSE Status(q)
    BY <2>1, <2>2 DEF Status, Minted, Places, OnePlace, Typed, WellFormed
  <2>5. outcome' = [q \in Pauses |-> IF q \in {p} THEN out ELSE outcome[q]]
    BY <2>1 DEF Typed, TypeOK
  <2>6. Lifecycle!Settle({p}, out)
    BY <2>3, <2>4, <2>5, <2>1 DEF Lifecycle!Settle
  <2> QED  BY <2>1, <2>6 DEF Lifecycle!Next
<1>2. CASE client[c].at # "resuming"
  BY <1>2, QuietKeepsStatus DEF RaceEnds
<1> QED  BY <1>1, <1>2


LEMMA LifecycleInit == Init => Lifecycle!Init
BY DEF Init, Lifecycle!Init, Status, Minted

LEMMA LifecycleStep ==
  ASSUME Typed, Places, Typed', Places', [Next]_vars
  PROVE  [Lifecycle!Next]_(Lifecycle!vars)
<1>1. ASSUME NEW c \in Clients, NEW e \in Executions, StartPausableExecution(c, e)
      PROVE  [Lifecycle!Next]_(Lifecycle!vars)
  BY <1>1, QuietKeepsStatus DEF StartPausableExecution, engineVars, mintVars
<1>2. ASSUME NEW e \in Executions, NEW k \in Calls, DispatchCall(e, k)
      PROVE  [Lifecycle!Next]_(Lifecycle!vars)
  BY <1>2, QuietKeepsStatus DEF DispatchCall, engineVars, mintVars
<1>3. ASSUME NEW k \in Calls, ReturnCall(k)
      PROVE  [Lifecycle!Next]_(Lifecycle!vars)
  BY <1>3, QuietKeepsStatus DEF ReturnCall, engineVars, mintVars
<1>4. ASSUME NEW k \in Calls, NEW p \in Pauses, Elicit(k, p)
      PROVE  [Lifecycle!Next]_(Lifecycle!vars)
  <2>1. \A q \in Pauses : owner'[q] = IF q = p THEN call[k].exec ELSE owner[q]
    BY <1>4 DEF Elicit, Typed, TypeOK
  <2>2. p \notin Minted /\ call[k].exec # NoExecution
    BY <1>4, ConstantsAssumption DEF Elicit, MintsFreshId, Minted, Typed, WellFormed
  <2>3. Status(p) = "unborn"
    BY <2>2, StatusOfPlaces
  <2>4. /\ pausedExecutions' = pausedExecutions \cup {p}
        /\ UNCHANGED <<pendingResumes, lost, outcome>>
    BY <1>4 DEF Elicit
  <2>5. \A q \in Pauses : Status(q)' = IF q = p THEN "open" ELSE Status(q)
    BY <2>1, <2>2, <2>4 DEF Status, Minted, Places
  <2>6. Lifecycle!Open(p)
    BY <2>3, <2>4, <2>5 DEF Lifecycle!Open
  <2> QED  BY <2>6 DEF Lifecycle!Next
<1>5. ASSUME NEW e \in Executions, EndSandbox(e)
      PROVE  [Lifecycle!Next]_(Lifecycle!vars)
  BY <1>5, QuietKeepsStatus DEF EndSandbox, engineVars, mintVars
<1>6. ASSUME NEW e \in Executions, SweepEndedExecution(e)
      PROVE  [Lifecycle!Next]_(Lifecycle!vars)
  <2> DEFINE S == PausesOf(e)
  <2>1. /\ S \subseteq pausedExecutions
        /\ pausedExecutions' = pausedExecutions \ S
        /\ \A p \in Pauses : outcome'[p] = IF p \in S THEN Completed ELSE outcome[p]
    BY <1>6, SweepMoves
  <2>2. UNCHANGED <<pendingResumes, owner, lost>>
    BY <1>6 DEF SweepEndedExecution, mintVars
  <2>3. S \in SUBSET Pauses /\ \A p \in S : Status(p) = "open"
    BY <2>1, StatusOfPlaces DEF Typed, TypeOK
  <2>4. \A q \in Pauses : Status(q)' = IF q \in S THEN "settled" ELSE Status(q)
    BY <2>1, <2>2 DEF Status, Minted, Places, OnePlace, Typed, WellFormed
  <2>5. outcome' = [p \in Pauses |-> IF p \in S THEN Completed ELSE outcome[p]]
    BY <2>1 DEF Typed, TypeOK
  <2> HIDE DEF S
  <2>6. Lifecycle!Settle(S, Completed)
    BY <2>3, <2>4, <2>5 DEF Lifecycle!Settle
  <2> QED  BY <2>3, <2>6, ExitsAreOutcomes DEF Lifecycle!Next
<1>7. ASSUME NEW c \in Clients, NEW p \in Pauses, Resume(c, p)
      PROVE  [Lifecycle!Next]_(Lifecycle!vars)
  <2>1. CASE ResumeReplays(c, p)
    BY <2>1, QuietKeepsStatus DEF ResumeReplays, engineVars, mintVars
  <2>2. CASE ResumeJoins(c, p)
    BY <2>2, QuietKeepsStatus DEF ResumeJoins, engineVars, mintVars
  <2>3. CASE ResumeFindsNothing(c, p)
    BY <2>3, QuietKeepsStatus DEF ResumeFindsNothing, engineVars, mintVars
  <2>4. CASE ResumeDelivers(c, p)
    <3>1. /\ p \in pausedExecutions
          /\ pausedExecutions' = pausedExecutions \ {p}
          /\ pendingResumes' = pendingResumes \cup {p}
          /\ UNCHANGED <<owner, lost, outcome>>
      BY <2>4 DEF ResumeDelivers, mintVars
    <3>2. Status(p) = "open"
      BY <3>1, StatusOfPlaces
    <3>3. \A q \in Pauses : Status(q)' = IF q = p THEN "claimed" ELSE Status(q)
      BY <3>1 DEF Status, Minted, Places, Typed, WellFormed
    <3>4. Lifecycle!Claim(p)
      BY <3>1, <3>2, <3>3 DEF Lifecycle!Claim
    <3> QED  BY <3>4 DEF Lifecycle!Next
  <2> QED  BY <1>7, <2>1, <2>2, <2>3, <2>4 DEF Resume
<1>8. ASSUME NEW c \in Clients, Wait(c)
      PROVE  [Lifecycle!Next]_(Lifecycle!vars)
  <2>1. CASE RaceCompletes(c)
    BY <2>1, RaceEndsSettles, ExitsAreOutcomes DEF RaceCompletes, Racing, mintVars
  <2>2. CASE RacePauses(c)
    <3> DEFINE e == client[c].exec
               p == Head(pauseQueue[e])
    <3>1. /\ client[c].at # "idle" /\ RaceEnds(c, PausedAt(p), TRUE)
          /\ pauseQueue[e] \in Seq(Pauses) /\ pauseQueue[e] # <<>>
      BY <2>2 DEF RacePauses, Racing, Typed, TypeOK, WellFormed
    <3>2. p \in Pauses
      BY <3>1, HeadTailProperties
    <3>3. PausedAt(p) \in Outcomes
      BY <3>2, ExitsAreOutcomes
    <3>4. UNCHANGED <<pausedExecutions, owner, lost>>
      BY <2>2 DEF RacePauses, mintVars
    <3> QED  BY <3>1, <3>3, <3>4, RaceEndsSettles
  <2>3. CASE JoinedResumeReturns(c)
    BY <2>3, QuietKeepsStatus DEF JoinedResumeReturns, engineVars, mintVars
  <2> QED  BY <1>8, <2>1, <2>2, <2>3 DEF Wait
<1>9. ASSUME NEW c \in Clients, CallerInterrupted(c)
      PROVE  [Lifecycle!Next]_(Lifecycle!vars)
  BY <1>9, RaceEndsSettles, ExitsAreOutcomes DEF CallerInterrupted, mintVars
<1>10. ASSUME Restart
       PROVE  [Lifecycle!Next]_(Lifecycle!vars)
  <2>1. lost' = Minted /\ UNCHANGED <<owner, outcome>>
    BY <1>10 DEF Restart
  <2>2. \A q \in Pauses : Status(q)' = IF q \in Minted THEN "lost" ELSE "unborn"
    BY <2>1 DEF Status, Minted
  <2>3. \A q \in Pauses : Status(q) = "unborn" <=> q \notin Minted
    BY DEF Status, Places
  <2>4. Lifecycle!LoseAll
    BY <2>1, <2>2, <2>3 DEF Lifecycle!LoseAll
  <2> QED  BY <2>4 DEF Lifecycle!Next
<1>11. CASE UNCHANGED vars
  BY <1>11, QuietKeepsStatus DEF vars, engineVars, mintVars
<1> QED
  BY <1>1, <1>2, <1>3, <1>4, <1>5, <1>6, <1>7, <1>8, <1>9, <1>10, <1>11 DEF Next

(* The engine implements the life of a pause its callers rely on: opened   *)
(* once, claimed by one resume or settled with its execution, its outcome  *)
(* decided once and for ever (ImplementsLifecycle).                        *)
THEOREM EngineRefinesLifecycle == Spec => ImplementsLifecycle
<1>1. Typed /\ Places /\ (Typed /\ Places)' /\ [Next]_vars => [Lifecycle!Next]_(Lifecycle!vars)
  BY LifecycleStep
<1> QED  BY <1>1, LifecycleInit, PlacesAlways, PTL DEF Spec, ImplementsLifecycle, Lifecycle!Spec

===============================================================================
