-------------------------- MODULE EngineRepliesProofs --------------------------
(***************************************************************************)
(* More about the pause / resume protocol: what the caches remember, where *)
(* a chain of replies leads, and who collects the next pause; for every    *)
(* number of executions, tool calls, callers, pauses and engine rebuilds.  *)
(***************************************************************************)
EXTENDS ExecutionEngineProofs

---------------------------------------------------------------------------
(* The two caches. *)

\* t is the end of s.
EndOf(t, s) ==
  /\ Len(t) <= Len(s)
  /\ \A i \in 1 .. Len(t) : t[i] = s[i + Len(s) - Len(t)]

LEMMA NewestIsTheEnd ==
  ASSUME NEW s \in Seq(Pauses), NEW n \in Nat
  PROVE  /\ Len(Newest(s, n)) = IF Len(s) > n THEN n ELSE Len(s)
         /\ EndOf(Newest(s, n), s)
<1>1. Len(s) \in Nat
  BY LenProperties
<1>2. CASE Len(s) > n
  <2> DEFINE m == Len(s) - n + 1
             t == SubSeq(s, m, Len(s))
  <2>1. /\ Len(t) = IF m <= Len(s) THEN Len(s) - m + 1 ELSE 0
        /\ \A i \in 1 .. Len(s) - m + 1 : t[i] = s[m + i - 1]
    BY <1>1, <1>2, SubSeqProperties
  <2>2. Len(t) = n /\ \A i \in 1 .. n : t[i] = s[i + Len(s) - n]
    BY <1>1, <1>2, <2>1
  <2>3. Newest(s, n) = t
    BY <1>2 DEF Newest
  <2> HIDE DEF t
  <2> QED
    BY <1>1, <1>2, <2>2, <2>3 DEF EndOf
<1>3. CASE ~(Len(s) > n)
  BY <1>1, <1>3 DEF Newest, EndOf
<1> QED
  BY <1>2, <1>3

LEMMA EndsGrowAlike ==
  ASSUME NEW t \in Seq(Pauses), NEW s \in Seq(Pauses), NEW o \in Seq(Pauses), EndOf(t, s)
  PROVE  EndOf(t \o o, s \o o)
<1>1. /\ Len(t) \in Nat /\ Len(s) \in Nat /\ Len(o) \in Nat /\ Len(t) <= Len(s)
      /\ Len(t \o o) = Len(t) + Len(o) /\ Len(s \o o) = Len(s) + Len(o)
  BY LenProperties, ConcatProperties DEF EndOf
<1>2. /\ \A i \in 1 .. Len(t) + Len(o) :
           (t \o o)[i] = IF i <= Len(t) THEN t[i] ELSE o[i - Len(t)]
      /\ \A i \in 1 .. Len(s) + Len(o) :
           (s \o o)[i] = IF i <= Len(s) THEN s[i] ELSE o[i - Len(s)]
  BY ConcatProperties
<1>3. ASSUME NEW i \in 1 .. Len(t) + Len(o)
      PROVE  (t \o o)[i] = (s \o o)[i + Len(s) - Len(t)]
  <2>1. i + Len(s) - Len(t) \in 1 .. Len(s) + Len(o)
    BY <1>1
  <2>2. CASE i <= Len(t)
    <3>1. i + Len(s) - Len(t) <= Len(s) /\ t[i] = s[i + Len(s) - Len(t)]
      BY <1>1, <2>2 DEF EndOf
    <3> QED
      BY <1>2, <2>1, <2>2, <3>1
  <2>3. CASE ~(i <= Len(t))
    <3>1. ~(i + Len(s) - Len(t) <= Len(s)) /\ i + Len(s) - Len(t) - Len(s) = i - Len(t)
      BY <1>1, <2>3
    <3> QED
      BY <1>2, <2>1, <2>3, <3>1
  <2> QED
    BY <2>2, <2>3
<1> QED
  BY <1>1, <1>3 DEF EndOf

LEMMA NewestOfTheEnd ==
  ASSUME NEW t \in Seq(Pauses), NEW s \in Seq(Pauses), EndOf(t, s),
         NEW m \in Nat, NEW n \in Nat, m <= n
  PROVE  EndOf(Newest(t, m), Newest(s, n))
<1> DEFINE a == Len(Newest(t, m))
           b == Len(Newest(s, n))
<1>1. Len(t) \in Nat /\ Len(s) \in Nat /\ Len(t) <= Len(s)
  BY LenProperties DEF EndOf
<1>2. /\ a = IF Len(t) > m THEN m ELSE Len(t)
      /\ b = IF Len(s) > n THEN n ELSE Len(s)
      /\ EndOf(Newest(t, m), t) /\ EndOf(Newest(s, n), s)
  BY NewestIsTheEnd
<1>3. a \in Nat /\ b \in Nat /\ a <= b /\ a <= Len(t) /\ b <= Len(s)
  BY <1>1, <1>2
<1>4. ASSUME NEW i \in 1 .. a
      PROVE  Newest(t, m)[i] = Newest(s, n)[i + b - a]
  <2>1. Newest(t, m)[i] = t[i + Len(t) - a]
    BY <1>2 DEF EndOf
  <2>2. i + Len(t) - a \in 1 .. Len(t)
    BY <1>1, <1>3
  <2>3. t[i + Len(t) - a] = s[(i + Len(t) - a) + Len(s) - Len(t)]
    BY <2>2 DEF EndOf
  <2>4. i + b - a \in 1 .. b
    BY <1>3
  <2>5. Newest(s, n)[i + b - a] = s[(i + b - a) + Len(s) - b]
    BY <1>2, <2>4 DEF EndOf
  <2>6. (i + Len(t) - a) + Len(s) - Len(t) = (i + b - a) + Len(s) - b
    BY <1>1, <1>3
  <2> QED
    BY <2>1, <2>3, <2>5, <2>6
<1> QED
  BY <1>3, <1>4 DEF EndOf

LEMMA CacheIsTheEnd == CacheIsNewestOfRemembered <=> EndOf(settledOutcomes, settledIds)
BY DEF CacheIsNewestOfRemembered, EndOf

LEMMA RecordingKeepsTheEnd ==
  ASSUME TypeOK, CacheIsNewestOfRemembered, NEW order \in Seq(Pauses), NEW out,
         RecordSettledOutcome(order, out)
  PROVE  CacheIsNewestOfRemembered'
<1>1. /\ OutcomeLimit \in Nat /\ IdLimit \in Nat /\ OutcomeLimit <= IdLimit
      /\ settledOutcomes \in Seq(Pauses) /\ settledIds \in Seq(Pauses)
  BY ConstantsAssumption DEF TypeOK
<1>2. settledOutcomes \o order \in Seq(Pauses) /\ settledIds \o order \in Seq(Pauses)
  BY <1>1, ConcatProperties
<1>3. EndOf(settledOutcomes \o order, settledIds \o order)
  BY <1>1, EndsGrowAlike, CacheIsTheEnd
<1>4. EndOf(Newest(settledOutcomes \o order, OutcomeLimit), Newest(settledIds \o order, IdLimit))
  BY <1>1, <1>2, <1>3, NewestOfTheEnd
<1>5. EndOf(settledOutcomes', settledIds')
  BY <1>4, Zenon DEF RecordSettledOutcome
<1> QED
  BY <1>5 DEF CacheIsNewestOfRemembered, EndOf

LEMMA CacheStep ==
  ASSUME Typed, CacheIsNewestOfRemembered, [Next]_vars
  PROVE  CacheIsNewestOfRemembered'
<1>1. CASE UNCHANGED <<settledOutcomes, settledIds>>
  BY <1>1 DEF CacheIsNewestOfRemembered
<1>2. ASSUME NEW e \in Executions, SweepEndedExecution(e)
      PROVE  CacheIsNewestOfRemembered'
  <2>1. PICK order \in MintOrders(PausesOf(e)) : RecordSettledOutcome(order, Completed)
    BY <1>2 DEF SweepEndedExecution
  <2>2. PausesOf(e) \in SUBSET Pauses
    BY DEF PausesOf, Typed, TypeOK
  <2>3. order \in Seq(Pauses)
    BY <2>1, <2>2, MintOrdersList
  <2> QED
    BY <2>1, <2>3, RecordingKeepsTheEnd DEF Typed
<1>3. ASSUME NEW c \in Clients, NEW out, NEW told, RaceEnds(c, out, told)
      PROVE  CacheIsNewestOfRemembered'
  <2>1. CASE client[c].at = "resuming"
    <3>1. <<client[c].pause>> \in Seq(Pauses)
      BY <2>1 DEF Typed, WellFormed
    <3>2. RecordSettledOutcome(<<client[c].pause>>, out)
      BY <1>3, <2>1 DEF RaceEnds
    <3> QED
      BY <3>1, <3>2, RecordingKeepsTheEnd DEF Typed
  <2>2. CASE client[c].at # "resuming"
    BY <1>1, <1>3, <2>2 DEF RaceEnds
  <2> QED
    BY <2>1, <2>2
<1>4. CASE Restart
  <2>1. settledOutcomes' = <<>> /\ settledIds' = <<>>
    BY <1>4 DEF Restart
  <2> QED
    BY <2>1 DEF CacheIsNewestOfRemembered
<1>5. \/ UNCHANGED <<settledOutcomes, settledIds>> \/ Restart
      \/ \E e \in Executions : SweepEndedExecution(e)
      \/ \E c \in Clients : RaceCompletes(c) \/ RacePauses(c) \/ CallerInterrupted(c)
  BY DEF Next, Resume, Wait, StartPausableExecution, DispatchCall, ReturnCall, Elicit, EndSandbox,
         ResumeReplays, ResumeJoins, ResumeFindsNothing, ResumeDelivers, JoinedResumeReturns,
         engineVars, vars
<1>6. ASSUME NEW c \in Clients, RaceCompletes(c) \/ RacePauses(c) \/ CallerInterrupted(c)
      PROVE  CacheIsNewestOfRemembered'
  BY <1>3, <1>6, Zenon DEF RaceCompletes, RacePauses, CallerInterrupted
<1> QED
  BY <1>1, <1>2, <1>4, <1>5, <1>6

(* Whatever the limits, the outcomes still replayed are those of the ids     *)
(* remembered last: isExecutionSettled never denies what resume can replay   *)
(* (CacheIsNewestOfRemembered; the eviction loops of recordSettledOutcome).  *)
THEOREM CacheStaysNewest == Spec => []CacheIsNewestOfRemembered
<1>1. Init => CacheIsNewestOfRemembered
  BY DEF Init, CacheIsNewestOfRemembered
<1>2. Typed /\ CacheIsNewestOfRemembered /\ [Next]_vars => CacheIsNewestOfRemembered'
  BY CacheStep
<1> QED
  BY <1>1, <1>2, TypedAlways, PTL DEF Spec

---------------------------------------------------------------------------
(* Where replies lead. *)

(* Ids are minted in order; a caller that resumes a pause races on the       *)
(* execution the pause is of; a queue holds pauses of its own execution, in  *)
(* the order they were minted, none of which has been handed out.            *)
MintedInOrder == \A p \in Minted : \A q \in 1 .. (p - 1) : q \in Minted

ServesOwner ==
  \A c \in Clients : client[c].at = "resuming" =>
    client[c].exec = owner[client[c].pause] /\ client[c].pause \in known

QueueIsNew(e, s) ==
  \A i \in 1 .. Len(s) :
    /\ owner[s[i]] = e
    /\ \A j \in 1 .. Len(s) : i < j => s[i] < s[j]
    /\ \A p \in known : owner[p] = e => p < s[i]
QueuesAreNew == \A e \in Executions : QueueIsNew(e, pauseQueue[e])

InOrder == MintedInOrder /\ ServesOwner /\ QueuesAreNew

LEMMA QuietKeepsOrder ==
  ASSUME InOrder, UNCHANGED <<owner, pauseQueue, known>>,
         \A c \in Clients : client'[c] = client[c] \/ client'[c].at # "resuming"
  PROVE  InOrder'
<1>1. MintedInOrder'
  BY DEF InOrder, MintedInOrder, Minted
<1>2. ServesOwner'
  BY DEF InOrder, ServesOwner
<1>3. QueuesAreNew'
  BY DEF InOrder, QueuesAreNew, QueueIsNew
<1> QED
  BY <1>1, <1>2, <1>3 DEF InOrder

LEMMA OrderStep ==
  ASSUME Typed, History, InOrder, [Next]_vars
  PROVE  InOrder'
<1>0. Typed /\ TypeOK /\ WellFormed /\ KnownMinted
  BY DEF Typed, History
<1>1. ASSUME NEW c \in Clients, NEW e \in Executions, StartPausableExecution(c, e)
      PROVE  InOrder'
  <2>1. UNCHANGED <<owner, pauseQueue, known>>
    BY <1>1 DEF StartPausableExecution, engineVars, mintVars, observed
  <2>2. \A d \in Clients : client'[d] = client[d] \/ client'[d].at # "resuming"
    BY <1>0, <1>1 DEF StartPausableExecution, TypeOK
  <2> QED
    BY <2>1, <2>2, QuietKeepsOrder
<1>2. ASSUME NEW k \in Calls, NEW p \in Pauses, Elicit(k, p)
      PROVE  InOrder'
  <2> DEFINE e == call[k].exec
  <2>1. /\ e \in Executions
        /\ owner[p] = NoExecution
        /\ \A q \in 1 .. (p - 1) : owner[q] # NoExecution
        /\ pauseQueue' = [pauseQueue EXCEPT ![e] = Append(@, p)]
        /\ UNCHANGED <<known, client>>
    BY <1>0, <1>2 DEF Elicit, MintsFreshId, WellFormed, observed
  <2>2. \A q \in Pauses : owner'[q] = IF q = p THEN e ELSE owner[q]
    BY <1>0, <1>2 DEF Elicit, TypeOK
  <2>3. Minted' = Minted \cup {p} /\ p \notin Minted
    BY <2>1, <2>2, ConstantsAssumption DEF Minted
  <2>4. Pauses \subseteq Nat
    BY ConstantsAssumption DEF Pauses
  <2>5. \A q \in Minted : q < p
    <3>1. ASSUME NEW q \in Minted PROVE ~(p < q)
      <4>1. ASSUME p < q PROVE FALSE
        <5>1. q \in Nat /\ p \in Nat /\ p >= 1
          BY <2>4, ConstantsAssumption DEF Minted, Pauses
        <5>2. p \in 1 .. (q - 1)
          BY <4>1, <5>1
        <5> QED
          BY <2>3, <5>2 DEF InOrder, MintedInOrder
      <4> QED
        BY <4>1
    <3>2. \A q \in Minted : q \in Nat /\ q # p
      BY <2>3, <2>4 DEF Minted
    <3> QED
      BY <2>4, <3>1, <3>2
  <2>6. MintedInOrder'
    <3>1. \A q \in 1 .. (p - 1) : q \in Minted
      BY <2>1, ConstantsAssumption DEF Minted, Pauses
    <3> QED
      BY <2>3, <3>1 DEF InOrder, MintedInOrder
  <2>7. ServesOwner'
    BY <1>0, <2>1, <2>2, <2>3 DEF InOrder, ServesOwner, KnownMinted, Minted
  <2>8. ASSUME NEW d \in Executions
        PROVE  QueueIsNew(d, pauseQueue[d])'
    <3> DEFINE s == pauseQueue[d]
    <3>1. /\ s \in Seq(Minted) /\ Len(s) \in Nat
          /\ \A i \in 1 .. Len(s) : s[i] \in Minted
      BY <1>0, ElementOfSeq, LenProperties DEF KnownMinted
    <3>2. QueueIsNew(d, s)
      BY DEF InOrder, QueuesAreNew
    <3>3. /\ \A i \in 1 .. Len(s) : owner'[s[i]] = d
          /\ \A q \in known : q \in Minted /\ owner'[q] = owner[q]
      BY <1>0, <2>2, <2>3, <3>1, <3>2 DEF QueueIsNew, KnownMinted, Minted
    <3>4. CASE d # e
      <4>1. pauseQueue'[d] = s
        BY <1>0, <2>1, <3>4 DEF TypeOK
      <4> HIDE DEF s
      <4> QED
        BY <2>1, <3>2, <3>3, <4>1 DEF QueueIsNew
    <3>5. CASE d = e
      <4>1. pauseQueue'[d] = Append(s, p)
        BY <1>0, <2>1, <3>5 DEF TypeOK
      <4> HIDE DEF s
      <4>2. /\ Len(Append(s, p)) = Len(s) + 1
            /\ \A i \in 1 .. Len(s) : Append(s, p)[i] = s[i]
            /\ Append(s, p)[Len(s) + 1] = p
        BY <3>1, AppendProperties
      <4>3. \A i \in 1 .. Len(s) : s[i] < p
        BY <2>5, <3>1
      <4>4. ASSUME NEW i \in 1 .. Len(s) + 1
            PROVE  /\ owner'[Append(s, p)[i]] = d
                   /\ \A j \in 1 .. Len(s) + 1 : i < j => Append(s, p)[i] < Append(s, p)[j]
                   /\ \A q \in known : owner'[q] = d => q < Append(s, p)[i]
        <5>1. CASE i = Len(s) + 1
          BY <2>2, <2>5, <3>1, <3>3, <3>5, <4>2, <5>1
        <5>2. CASE i \in 1 .. Len(s)
          <6>1. ASSUME NEW j \in 1 .. Len(s) + 1, i < j
                PROVE  s[i] < Append(s, p)[j]
            <7>1. CASE j = Len(s) + 1
              BY <4>2, <4>3, <5>2, <7>1
            <7>2. CASE j \in 1 .. Len(s)
              BY <3>2, <4>2, <5>2, <6>1, <7>2 DEF QueueIsNew
            <7> QED
              BY <3>1, <7>1, <7>2
          <6> QED
            BY <3>2, <3>3, <4>2, <5>2, <6>1 DEF QueueIsNew
        <5> QED
          BY <3>1, <5>1, <5>2
      <4> QED
        BY <2>1, <4>1, <4>2, <4>4 DEF QueueIsNew
    <3> QED
      BY <3>4, <3>5
  <2> QED
    BY <2>6, <2>7, <2>8 DEF InOrder, QueuesAreNew
<1>3. ASSUME NEW c \in Clients, NEW p \in Pauses, Resume(c, p)
      PROVE  InOrder'
  <2>1. UNCHANGED <<owner, pauseQueue, known>>
    BY <1>3 DEF Resume, ResumeReplays, ResumeJoins, ResumeFindsNothing, ResumeDelivers,
                engineVars, mintVars, observed
  <2>2. CASE ResumeDelivers(c, p)
    <3>1. \A d \in Clients : client'[d] = IF d = c
                               THEN [at |-> "resuming", exec |-> owner[p], pause |-> p]
                               ELSE client[d]
      BY <1>0, <2>2 DEF ResumeDelivers, TypeOK
    <3>2. p \in known
      BY <2>2 DEF ResumeDelivers, Asks
    <3>3. ServesOwner'
      BY <2>1, <3>1, <3>2 DEF InOrder, ServesOwner
    <3>4. MintedInOrder' /\ QueuesAreNew'
      BY <2>1 DEF InOrder, MintedInOrder, Minted, QueuesAreNew, QueueIsNew
    <3> QED
      BY <3>3, <3>4 DEF InOrder
  <2>3. CASE ~ResumeDelivers(c, p)
    <3>1. \A d \in Clients : client'[d] = client[d] \/ client'[d].at # "resuming"
      BY <1>0, <1>3, <2>3 DEF Resume, ResumeReplays, ResumeJoins, ResumeFindsNothing, TypeOK
    <3> QED
      BY <2>1, <3>1, QuietKeepsOrder
  <2> QED
    BY <2>2, <2>3
<1>4. ASSUME NEW c \in Clients, RaceCompletes(c) \/ JoinedResumeReturns(c) \/ CallerInterrupted(c)
      PROVE  InOrder'
  <2>1. UNCHANGED <<owner, pauseQueue, known>>
    BY <1>4 DEF RaceCompletes, JoinedResumeReturns, CallerInterrupted, engineVars, mintVars
  <2>2. client' = [client EXCEPT ![c] = Idle]
    BY <1>4, Zenon DEF RaceCompletes, JoinedResumeReturns, CallerInterrupted, RaceEnds
  <2>3. \A d \in Clients : client'[d] = client[d] \/ client'[d].at # "resuming"
    BY <1>0, <2>2 DEF TypeOK, Idle
  <2> QED
    BY <2>1, <2>3, QuietKeepsOrder
<1>5. ASSUME NEW c \in Clients, RacePauses(c)
      PROVE  InOrder'
  <2> DEFINE e == client[c].exec
             s == pauseQueue[e]
             p == Head(s)
  <2>1. /\ e \in Executions /\ s \in Seq(Minted) /\ s # <<>>
        /\ pauseQueue' = [pauseQueue EXCEPT ![e] = Tail(@)]
        /\ known' = known \cup {p}
        /\ client' = [client EXCEPT ![c] = Idle]
        /\ UNCHANGED owner
    BY <1>0, <1>5 DEF RacePauses, Racing, RaceEnds, WellFormed, KnownMinted, mintVars
  <2>2. /\ Len(s) \in Nat /\ Len(s) >= 1
        /\ p = s[1]
        /\ Len(Tail(s)) = Len(s) - 1
        /\ \A i \in 1 .. Len(s) - 1 : Tail(s)[i] = s[i + 1]
    BY <2>1, HeadTailProperties, LenProperties, EmptySeq
  <2>3. QueueIsNew(e, s)
    BY <2>1 DEF InOrder, QueuesAreNew
  <2>4. owner[p] = e
    BY <2>2, <2>3 DEF QueueIsNew
  <2>5. ASSUME NEW d \in Executions, d # e
        PROVE  QueueIsNew(d, pauseQueue[d])'
    <3>1. pauseQueue'[d] = pauseQueue[d] /\ QueueIsNew(d, pauseQueue[d])
      BY <1>0, <2>1, <2>5 DEF TypeOK, InOrder, QueuesAreNew
    <3> QED
      BY <2>1, <2>4, <2>5, <3>1 DEF QueueIsNew
  <2>6. ASSUME NEW d \in Executions, d = e
        PROVE  QueueIsNew(d, pauseQueue[d])'
    <3>1. pauseQueue'[d] = Tail(s)
      BY <1>0, <2>1, <2>6 DEF TypeOK
    <3> HIDE DEF s
    <3>2. ASSUME NEW i \in 1 .. Len(s) - 1
          PROVE  /\ owner[Tail(s)[i]] = d
                 /\ \A j \in 1 .. Len(s) - 1 : i < j => Tail(s)[i] < Tail(s)[j]
                 /\ \A q \in known \cup {p} : owner[q] = d => q < Tail(s)[i]
      <4>1. i + 1 \in 1 .. Len(s) /\ 1 \in 1 .. Len(s) /\ 1 < i + 1 /\ Tail(s)[i] = s[i + 1]
        BY <2>2
      <4>2. owner[s[i + 1]] = e /\ p < s[i + 1] /\ \A q \in known : owner[q] = e => q < s[i + 1]
        BY <2>2, <2>3, <4>1 DEF QueueIsNew
      <4>3. ASSUME NEW j \in 1 .. Len(s) - 1, i < j
            PROVE  s[i + 1] < Tail(s)[j]
        <5>1. j + 1 \in 1 .. Len(s) /\ i + 1 < j + 1 /\ Tail(s)[j] = s[j + 1]
          BY <2>2, <4>3
        <5> QED
          BY <2>3, <4>1, <5>1 DEF QueueIsNew
      <4> QED
        BY <2>6, <4>1, <4>2, <4>3
    <3> HIDE DEF p, e
    <3> QED
      BY <2>1, <2>2, <3>1, <3>2 DEF QueueIsNew
  <2>7. QueuesAreNew'
    BY <2>5, <2>6 DEF QueuesAreNew
  <2>8. MintedInOrder'
    BY <2>1 DEF InOrder, MintedInOrder, Minted
  <2>9. ServesOwner'
    BY <1>0, <2>1 DEF InOrder, ServesOwner, TypeOK, Idle
  <2> QED
    BY <2>7, <2>8, <2>9 DEF InOrder
<1>6. CASE Restart
  <2>1. /\ UNCHANGED <<owner, known>>
        /\ \A e \in Executions : Len(pauseQueue'[e]) = 0
        /\ \A c \in Clients : client'[c].at = "idle"
    BY <1>6, EmptySeq DEF Restart, Idle, observed
  <2>2. QueuesAreNew'
    BY <2>1 DEF QueuesAreNew, QueueIsNew
  <2>3. MintedInOrder'
    BY <2>1 DEF InOrder, MintedInOrder, Minted
  <2> QED
    BY <2>1, <2>2, <2>3 DEF InOrder, ServesOwner
<1>7. CASE \/ \E e \in Executions, k \in Calls : DispatchCall(e, k)
           \/ \E k \in Calls : ReturnCall(k)
           \/ \E e \in Executions : EndSandbox(e) \/ SweepEndedExecution(e)
           \/ UNCHANGED vars
  <2>1. UNCHANGED <<owner, pauseQueue, known, client>>
    BY <1>7 DEF DispatchCall, ReturnCall, EndSandbox, SweepEndedExecution, vars, engineVars,
                mintVars, observed
  <2> QED
    BY <2>1, QuietKeepsOrder
<1> QED
  BY <1>1, <1>2, <1>3, <1>4, <1>5, <1>6, <1>7, Zenon DEF Next, Wait

LEMMA QuietKeepsReplies ==
  ASSUME RepliesLeadForward, UNCHANGED <<outcome, owner>>, known \subseteq known'
  PROVE  RepliesLeadForward'
BY DEF RepliesLeadForward

\* Outcomes that are no pauses, recorded for ids of which some had none.
LEMMA EndingsKeepReplies ==
  ASSUME RepliesLeadForward, UNCHANGED owner, known \subseteq known',
         NEW S \in SUBSET Pauses, NEW out \in {Completed, Interrupted},
         \A p \in Pauses : outcome'[p] = IF p \in S THEN out ELSE outcome[p]
  PROVE  RepliesLeadForward'
<1>1. out.kind # "paused"
  BY DEF Completed, Interrupted
<1> QED
  BY <1>1 DEF RepliesLeadForward

LEMMA RepliesStep ==
  ASSUME Typed, Places, History, InOrder, RepliesLeadForward, [Next]_vars
  PROVE  RepliesLeadForward'
<1>0. TypeOK /\ WellFormed /\ KnownMinted
  BY DEF Typed, History
<1>1. CASE \/ Restart \/ UNCHANGED vars
           \/ \E c \in Clients, e \in Executions : StartPausableExecution(c, e)
           \/ \E e \in Executions, k \in Calls : DispatchCall(e, k)
           \/ \E k \in Calls : ReturnCall(k)
           \/ \E e \in Executions : EndSandbox(e)
           \/ \E c \in Clients, p \in Pauses : Resume(c, p)
           \/ \E c \in Clients : JoinedResumeReturns(c)
  <2>1. UNCHANGED <<outcome, owner, known>>
    BY <1>1 DEF Restart, vars, StartPausableExecution, DispatchCall, ReturnCall, EndSandbox, Resume,
                ResumeReplays, ResumeJoins, ResumeFindsNothing, ResumeDelivers,
                JoinedResumeReturns, engineVars, mintVars, observed
  <2> QED
    BY <2>1, QuietKeepsReplies
<1>2. ASSUME NEW k \in Calls, NEW p \in Pauses, Elicit(k, p)
      PROVE  RepliesLeadForward'
  <2>1. /\ UNCHANGED <<outcome, known>> /\ p \notin Minted
        /\ \A q \in Minted : owner'[q] = owner[q]
    BY <1>0, <1>2 DEF Elicit, MintsFreshId, observed, TypeOK, Minted
  <2>2. \A q \in Pauses : outcome[q].kind = "paused" => q \in Minted
    <3>1. \A q \in Pauses : outcome[q].kind = "paused" => q \in Recorded
      BY DEF Recorded, NoOutcome
    <3> QED
      BY <3>1 DEF Places
  <2>3. known \subseteq Minted
    BY <1>0 DEF KnownMinted
  <2> QED
    BY <2>1, <2>2, <2>3 DEF RepliesLeadForward
<1>3. ASSUME NEW e \in Executions, SweepEndedExecution(e)
      PROVE  RepliesLeadForward'
  <2>1. \A p \in Pauses : outcome'[p] = IF p \in PausesOf(e) THEN Completed ELSE outcome[p]
    BY <1>3, SweepMoves
  <2>2. UNCHANGED <<owner, known>> /\ PausesOf(e) \in SUBSET Pauses
    BY <1>0, <1>3 DEF SweepEndedExecution, mintVars, observed, PausesOf, TypeOK
  <2> QED
    BY <2>1, <2>2, EndingsKeepReplies
<1>4. ASSUME NEW c \in Clients, RaceCompletes(c) \/ CallerInterrupted(c)
      PROVE  RepliesLeadForward'
  <2>1. UNCHANGED <<owner, known>>
    BY <1>4 DEF RaceCompletes, CallerInterrupted, mintVars
  <2>2. PICK out \in {Completed, Interrupted}, told \in BOOLEAN : RaceEnds(c, out, told)
    BY <1>4, Zenon DEF RaceCompletes, CallerInterrupted
  <2>3. CASE client[c].at = "resuming"
    <3>1. out \in Outcomes
      BY ExitsAreOutcomes
    <3>2. PICK p \in Pauses : \A q \in Pauses : outcome'[q] = IF q = p THEN out ELSE outcome[q]
      BY <2>2, <2>3, <3>1, RaceEndsMoves
    <3>3. \A q \in Pauses : outcome'[q] = IF q \in {p} THEN out ELSE outcome[q]
      BY <3>2
    <3> QED
      BY <2>1, <3>3, EndingsKeepReplies
  <2>4. CASE client[c].at # "resuming"
    BY <2>1, <2>2, <2>4, QuietKeepsReplies DEF RaceEnds
  <2> QED
    BY <2>3, <2>4
<1>5. ASSUME NEW c \in Clients, RacePauses(c)
      PROVE  RepliesLeadForward'
  <2> DEFINE e == client[c].exec
             s == pauseQueue[e]
             h == Head(s)
  <2>1. /\ e \in Executions /\ s \in Seq(Minted) /\ s # <<>>
        /\ known' = known \cup {h} /\ RaceEnds(c, PausedAt(h), TRUE)
        /\ UNCHANGED owner
    BY <1>0, <1>5 DEF RacePauses, Racing, WellFormed, KnownMinted, mintVars
  <2>2. h = s[1] /\ 1 \in 1 .. Len(s) /\ h \in Pauses
    BY <2>1, HeadTailProperties, LenProperties, EmptySeq DEF Minted
  <2>3. owner[h] = e /\ \A p \in known : owner[p] = e => p < h
    BY <2>1, <2>2 DEF InOrder, QueuesAreNew, QueueIsNew
  <2>4. CASE client[c].at = "resuming"
    <3> DEFINE p == client[c].pause
    <3>1. PausedAt(h) \in Outcomes /\ PausedAt(h).kind = "paused" /\ PausedAt(h).next = h
      BY <2>2, ExitsAreOutcomes DEF PausedAt
    <3>2. /\ p \in Pauses
          /\ \A q \in Pauses : outcome'[q] = IF q = p THEN PausedAt(h) ELSE outcome[q]
      BY <2>1, <2>4, <3>1, RaceEndsMoves
    <3>3. p < h /\ owner[p] = e
      BY <2>3, <2>4 DEF InOrder, ServesOwner
    <3>4. h \notin known
      BY <2>2, <2>3, ConstantsAssumption DEF Pauses
    <3>5. \A q \in Pauses : outcome[q].kind = "paused" => outcome[q].next # h
      BY <3>4 DEF RepliesLeadForward
    <3> HIDE DEF p, h
    <3>6. ASSUME NEW q \in Pauses, outcome'[q].kind = "paused"
          PROVE  /\ outcome'[q].next > q
                 /\ outcome'[q].next \in known'
                 /\ owner'[outcome'[q].next] = owner'[q]
                 /\ \A r \in Pauses \ {q} : outcome'[r] # outcome'[q]
      <4>1. CASE q = p
        <5>1. outcome'[q] = PausedAt(h)
          BY <3>2, <4>1
        <5>2. \A r \in Pauses \ {q} : outcome'[r] # PausedAt(h)
          BY <3>1, <3>2, <3>5, <4>1
        <5>3. h > q
          BY <2>2, <3>3, <4>1, ConstantsAssumption DEF Pauses
        <5> QED
          BY <2>1, <2>3, <3>1, <3>3, <4>1, <5>1, <5>2, <5>3
      <4>2. CASE q # p
        <5>1. outcome'[q] = outcome[q]
          BY <3>2, <4>2
        <5>2. outcome[q] # PausedAt(h)
          BY <3>1, <3>5, <3>6, <5>1
        <5> QED
          BY <2>1, <3>2, <3>6, <5>1, <5>2 DEF RepliesLeadForward
      <4> QED
        BY <4>1, <4>2
    <3> QED
      BY <3>6 DEF RepliesLeadForward
  <2>5. CASE client[c].at # "resuming"
    <3>1. UNCHANGED <<outcome, owner>> /\ known \subseteq known'
      BY <2>1, <2>5 DEF RaceEnds
    <3> QED
      BY <3>1, QuietKeepsReplies
  <2> QED
    BY <2>4, <2>5
<1> QED
  BY <1>1, <1>2, <1>3, <1>4, <1>5, Zenon DEF Next, Wait

LEMMA OrderInit == Init => InOrder /\ RepliesLeadForward
<1> SUFFICES ASSUME Init PROVE InOrder /\ RepliesLeadForward
  OBVIOUS
<1>1. MintedInOrder
  BY DEF Init, MintedInOrder, Minted
<1>2. ServesOwner
  BY DEF Init, ServesOwner, Idle
<1>3. QueuesAreNew
  BY EmptySeq DEF Init, QueuesAreNew, QueueIsNew
<1>4. RepliesLeadForward
  BY DEF Init, RepliesLeadForward, NoOutcome
<1> QED
  BY <1>1, <1>2, <1>3, <1>4 DEF InOrder

LEMMA RepliesAlways == Spec => [](Typed /\ Places /\ History /\ InOrder /\ RepliesLeadForward)
<1>1. Init => Typed /\ Places /\ History /\ InOrder /\ RepliesLeadForward
  BY TypedInit, PlacesInit, HistoryInit, OrderInit
<1>2. Typed /\ Places /\ History /\ InOrder /\ RepliesLeadForward /\ [Next]_vars
        => (Typed /\ Places /\ History /\ InOrder /\ RepliesLeadForward)'
  BY TypedStep, PlacesStep, HistoryStep, OrderStep, RepliesStep
<1> QED
  BY <1>1, <1>2, PTL DEF Spec

(* A caller that follows the pauses resume replays moves on to newer pauses  *)
(* of the same execution, and two resumes never lead to one pause            *)
(* (RepliesLeadForward; awaitCompletionOrPause, recordSettledOutcome).       *)
THEOREM RepliesGoForward == Spec => []RepliesLeadForward
<1> QED
  BY RepliesAlways, PTL

---------------------------------------------------------------------------
(* What is left of an ended execution, where its calls end with it. *)

Swept ==
  /\ \A e \in swept : sandbox[e] = "ended"
  /\ \A k \in Calls : call[k].at \in {"running", "waiting"} => sandbox[call[k].exec] = "running"
  /\ SweptLeavesNothing

LEMMA SweptStep ==
  ASSUME ~DetachedCalls, Typed, Swept, [Next]_vars
  PROVE  Swept'
<1>0. TypeOK /\ WellFormed
  BY DEF Typed
<1>1. ASSUME UNCHANGED <<sandbox, swept, owner>>, pausedExecutions' \subseteq pausedExecutions,
             \A k \in Calls : call'[k].at \in {"running", "waiting"} =>
               call[k].at \in {"running", "waiting"} /\ call'[k].exec = call[k].exec
      PROVE  Swept'
  BY <1>1 DEF Swept, SweptLeavesNothing, PausesOf
<1>2. ASSUME NEW c \in Clients, NEW e \in Executions, StartPausableExecution(c, e)
      PROVE  Swept'
  <2>1. /\ \A d \in Executions : sandbox'[d] = IF d = e THEN "running" ELSE sandbox[d]
        /\ sandbox[e] = "new"
        /\ UNCHANGED <<swept, call, pausedExecutions, owner>>
    BY <1>0, <1>2 DEF StartPausableExecution, TypeOK, engineVars, mintVars
  <2>2. \A d \in swept' : sandbox'[d] = "ended"
    BY <1>0, <2>1 DEF Swept, TypeOK
  <2>3. \A k \in Calls : call'[k].at \in {"running", "waiting"} => sandbox'[call'[k].exec] = "running"
    BY <1>0, <2>1 DEF Swept, WellFormed
  <2>4. SweptLeavesNothing'
    BY <2>1 DEF Swept, SweptLeavesNothing, PausesOf
  <2> QED
    BY <2>2, <2>3, <2>4 DEF Swept
<1>3. ASSUME NEW e \in Executions, NEW k \in Calls, DispatchCall(e, k)
      PROVE  Swept'
  <2>1. /\ sandbox[e] = "running" /\ UNCHANGED <<sandbox, swept, pausedExecutions, owner>>
        /\ \A j \in Calls : call'[j] = IF j = k THEN [exec |-> e, at |-> "running"] ELSE call[j]
    BY <1>0, <1>3 DEF DispatchCall, TypeOK, engineVars, mintVars
  <2> QED
    BY <2>1 DEF Swept, SweptLeavesNothing, PausesOf
<1>4. ASSUME NEW k \in Calls, ReturnCall(k)
      PROVE  Swept'
  <2>1. UNCHANGED <<sandbox, swept, owner, pausedExecutions>>
    BY <1>4 DEF ReturnCall, engineVars, mintVars
  <2>2. /\ \A j \in Calls \ {k} : call'[j] = call[j]
        /\ call'[k].at = "finished"
    BY <1>0, <1>4 DEF ReturnCall, TypeOK
  <2> QED
    BY <1>1, <2>1, <2>2
<1>5. ASSUME NEW k \in Calls, NEW p \in Pauses, Elicit(k, p)
      PROVE  Swept'
  <2>1. /\ call[k].at = "running" /\ call[k].exec \in Executions
        /\ pausedExecutions' = pausedExecutions \cup {p}
        /\ UNCHANGED <<sandbox, swept>>
    BY <1>0, <1>5 DEF Elicit, WellFormed
  <2>2. /\ \A j \in Calls \ {k} : call'[j] = call[j]
        /\ call'[k].at = "waiting" /\ call'[k].exec = call[k].exec
    BY <1>0, <1>5 DEF Elicit, TypeOK
  <2>3. \A q \in Pauses : owner'[q] = IF q = p THEN call[k].exec ELSE owner[q]
    BY <1>0, <1>5 DEF Elicit, TypeOK
  <2>4. call[k].exec \notin swept
    BY <2>1 DEF Swept
  <2>5. SweptLeavesNothing'
    BY <1>0, <2>1, <2>3, <2>4 DEF Swept, SweptLeavesNothing, PausesOf, TypeOK
  <2> QED
    BY <2>1, <2>2, <2>5 DEF Swept
<1>6. ASSUME NEW e \in Executions, EndSandbox(e)
      PROVE  Swept'
  <2>1. /\ \A d \in Executions : sandbox'[d] = IF d = e THEN "ended" ELSE sandbox[d]
        /\ sandbox[e] = "running" /\ UNCHANGED <<swept, pausedExecutions, owner>>
        /\ call' = [k \in Calls |-> IF call[k].exec = e
                                     THEN [call[k] EXCEPT !.at = "finished"] ELSE call[k]]
    BY <1>0, <1>6 DEF EndSandbox, TypeOK, engineVars, mintVars
  <2>2. \A k \in Calls : call'[k].at \in {"running", "waiting"} =>
          call'[k] = call[k] /\ call[k].exec # e
    BY <1>0, <2>1 DEF TypeOK
  <2> QED
    BY <1>0, <2>1, <2>2 DEF Swept, SweptLeavesNothing, PausesOf, TypeOK, WellFormed
<1>7. ASSUME NEW e \in Executions, SweepEndedExecution(e)
      PROVE  Swept'
  <2>1. /\ sandbox[e] = "ended" /\ swept' = swept \cup {e}
        /\ pausedExecutions' = pausedExecutions \ PausesOf(e)
        /\ UNCHANGED <<sandbox, call, owner>>
    BY <1>7 DEF SweepEndedExecution, mintVars
  <2> QED
    BY <2>1 DEF Swept, SweptLeavesNothing, PausesOf
<1>8. ASSUME NEW c \in Clients, NEW p \in Pauses, Resume(c, p)
      PROVE  Swept'
  <2>1. CASE ResumeDelivers(c, p)
    <3>1. UNCHANGED <<sandbox, swept, owner>> /\ pausedExecutions' \subseteq pausedExecutions
      BY <2>1 DEF ResumeDelivers, mintVars
    <3>2. \A k \in Calls : \/ call'[k] = call[k]
                           \/ call'[k] = [call[k] EXCEPT !.at = "running"] /\ call[k].at = "waiting"
      BY <1>0, <2>1 DEF ResumeDelivers, TypeOK
    <3>3. ASSUME NEW k \in Calls, call'[k].at \in {"running", "waiting"}
          PROVE  call[k].at \in {"running", "waiting"} /\ call'[k].exec = call[k].exec
      <4>1. call[k] \in [exec : Executions \cup {NoExecution}, at : CallStates]
        BY <1>0 DEF TypeOK
      <4> QED
        BY <3>2, <3>3, <4>1
    <3> QED
      BY <1>1, <3>1, <3>3
  <2>2. CASE UNCHANGED <<sandbox, swept, owner, pausedExecutions, call>>
    BY <1>1, <2>2
  <2> QED
    BY <1>8, <2>1, <2>2 DEF Resume, ResumeReplays, ResumeJoins, ResumeFindsNothing, engineVars,
                            sandboxVars, mintVars
<1>9. CASE \/ \E c \in Clients : Wait(c) \/ CallerInterrupted(c)
           \/ UNCHANGED vars
  <2>1. UNCHANGED <<sandbox, swept, owner, pausedExecutions, call>>
    BY <1>9 DEF Wait, RaceCompletes, RacePauses, JoinedResumeReturns, CallerInterrupted, vars,
                engineVars, sandboxVars, mintVars
  <2> QED
    BY <1>1, <2>1
<1>10. CASE Restart
  <2>1. /\ pausedExecutions' = {}
        /\ \A e \in swept' : sandbox'[e] = "ended"
    BY <1>10 DEF Restart
  <2>2. \A k \in Calls : call'[k].at \notin {"running", "waiting"}
    BY <1>0, <1>10 DEF Restart, TypeOK
  <2> QED
    BY <2>1, <2>2 DEF Swept, SweptLeavesNothing, PausesOf
<1> QED
  BY <1>2, <1>3, <1>4, <1>5, <1>6, <1>7, <1>8, <1>9, <1>10, Zenon DEF Next

(* Where a runtime interrupts its calls with the sandbox, nothing of an      *)
(* execution is left in pausedExecutions once its watcher has run            *)
(* (SweptLeavesNothing; the comment at 575-578 of engine.ts).                *)
THEOREM NothingLeft ==
  ASSUME ~DetachedCalls
  PROVE  Spec => []SweptLeavesNothing
<1>1. Init => Swept
  BY DEF Init, Swept, SweptLeavesNothing
<1>2. Typed /\ Swept /\ [Next]_vars => Swept'
  BY SweptStep
<1>3. Swept => SweptLeavesNothing
  BY DEF Swept
<1> QED
  BY <1>1, <1>2, <1>3, TypedAlways, PTL DEF Spec

---------------------------------------------------------------------------
(* What is recorded, where callers stay. *)

LEMMA SettledStep ==
  ASSUME ~Interruptible, Typed, Places, InOrder, SettledMeansSettled, [Next]_vars
  PROVE  SettledMeansSettled'
<1>0. TypeOK /\ WellFormed
  BY DEF Typed
<1>1. ASSUME UNCHANGED outcome, lost \subseteq lost', \A p \in Recorded : owner'[p] = owner[p],
             \A e \in Executions : sandbox[e] = "ended" => sandbox'[e] = "ended"
      PROVE  SettledMeansSettled'
  <2>1. Recorded' = Recorded
    BY <1>1 DEF Recorded
  <2>2. \A p \in Recorded : owner[p] \in Executions
    BY <1>0 DEF Places, Minted, TypeOK
  <2> QED
    BY <1>1, <2>1, <2>2 DEF SettledMeansSettled
<1>2. CASE \/ UNCHANGED vars
           \/ \E c \in Clients, e \in Executions : StartPausableExecution(c, e)
           \/ \E e \in Executions, k \in Calls : DispatchCall(e, k)
           \/ \E k \in Calls : ReturnCall(k)
           \/ \E e \in Executions : EndSandbox(e)
           \/ \E c \in Clients, p \in Pauses : Resume(c, p)
           \/ \E c \in Clients : JoinedResumeReturns(c)
  <2>1. UNCHANGED <<outcome, owner, lost>>
    BY <1>2 DEF vars, StartPausableExecution, DispatchCall, ReturnCall, EndSandbox, Resume,
                ResumeReplays, ResumeJoins, ResumeFindsNothing, ResumeDelivers,
                JoinedResumeReturns, engineVars, mintVars, observed
  <2>2. \A e \in Executions : sandbox[e] = "ended" => sandbox'[e] = "ended"
    BY <1>0, <1>2 DEF vars, StartPausableExecution, DispatchCall, ReturnCall, EndSandbox, Resume,
                      ResumeReplays, ResumeJoins, ResumeFindsNothing, ResumeDelivers,
                      JoinedResumeReturns, sandboxVars, TypeOK
  <2> QED
    BY <1>1, <2>1, <2>2
<1>3. ASSUME NEW k \in Calls, NEW p \in Pauses, Elicit(k, p)
      PROVE  SettledMeansSettled'
  <2>1. /\ UNCHANGED <<outcome, lost, sandbox>> /\ p \notin Minted
        /\ \A q \in Minted : owner'[q] = owner[q]
    BY <1>0, <1>3 DEF Elicit, MintsFreshId, TypeOK, Minted
  <2> QED
    BY <1>1, <2>1 DEF Places
<1>4. CASE Restart
  <2>1. UNCHANGED <<outcome, owner>> /\ lost' = Minted
    BY <1>4 DEF Restart
  <2>2. Recorded' \ lost' = {}
    BY <2>1 DEF Recorded, Places
  <2> QED
    BY <2>2 DEF SettledMeansSettled
<1>5. ASSUME NEW e \in Executions, SweepEndedExecution(e)
      PROVE  SettledMeansSettled'
  <2>1. /\ \A p \in Pauses : outcome'[p] = IF p \in PausesOf(e) THEN Completed ELSE outcome[p]
        /\ Recorded' = Recorded \cup PausesOf(e)
    BY <1>5, SweepMoves
  <2>2. sandbox[e] = "ended" /\ UNCHANGED <<sandbox, owner, lost>>
    BY <1>5 DEF SweepEndedExecution, mintVars
  <2>3. Completed.kind = "completed" /\ \A p \in PausesOf(e) : owner[p] = e
    BY DEF Completed, PausesOf
  <2>4. Recorded' \subseteq Pauses
    BY DEF Recorded
  <2> QED
    BY <2>1, <2>2, <2>3, <2>4 DEF SettledMeansSettled
<1>6. ASSUME NEW c \in Clients, NEW out \in Outcomes, RaceEnds(c, out, TRUE),
             out.kind = "paused" \/ (out.kind = "completed" /\ sandbox[client[c].exec] = "ended"),
             UNCHANGED <<sandbox, owner, lost>>
      PROVE  SettledMeansSettled'
  <2>1. CASE client[c].at = "resuming"
    <3> DEFINE p == client[c].pause
    <3>1. /\ Recorded' = Recorded \cup {p}
          /\ \A q \in Pauses : outcome'[q] = IF q = p THEN out ELSE outcome[q]
      BY <1>6, <2>1, RaceEndsMoves
    <3>2. client[c].exec = owner[p]
      BY <2>1 DEF InOrder, ServesOwner
    <3>3. Recorded' \subseteq Pauses
      BY DEF Recorded
    <3> HIDE DEF p
    <3> QED
      BY <1>6, <3>1, <3>2, <3>3 DEF SettledMeansSettled
  <2>2. CASE client[c].at # "resuming"
    <3>1. UNCHANGED outcome
      BY <1>6, <2>2 DEF RaceEnds
    <3> QED
      BY <1>1, <1>6, <3>1
  <2> QED
    BY <2>1, <2>2
<1>7. ASSUME NEW c \in Clients, RaceCompletes(c)
      PROVE  SettledMeansSettled'
  <2>1. /\ RaceEnds(c, Completed, TRUE) /\ sandbox[client[c].exec] = "ended"
        /\ UNCHANGED <<sandbox, owner, lost>>
    BY <1>7 DEF RaceCompletes, sandboxVars, mintVars
  <2>2. Completed \in Outcomes /\ Completed.kind = "completed"
    BY ExitsAreOutcomes DEF Completed
  <2> QED
    BY <1>6, <2>1, <2>2
<1>8. ASSUME NEW c \in Clients, RacePauses(c)
      PROVE  SettledMeansSettled'
  <2> DEFINE h == Head(pauseQueue[client[c].exec])
  <2>1. /\ RaceEnds(c, PausedAt(h), TRUE) /\ UNCHANGED <<sandbox, owner, lost>>
        /\ pauseQueue[client[c].exec] \in Seq(Pauses) /\ pauseQueue[client[c].exec] # <<>>
    BY <1>0, <1>8 DEF RacePauses, Racing, TypeOK, WellFormed, sandboxVars, mintVars
  <2>2. h \in Pauses
    BY <2>1, HeadTailProperties
  <2>3. PausedAt(h) \in Outcomes /\ PausedAt(h).kind = "paused"
    BY <2>2, ExitsAreOutcomes DEF PausedAt
  <2> QED
    BY <1>6, <2>1, <2>3
<1> QED
  BY <1>2, <1>3, <1>4, <1>5, <1>7, <1>8 DEF Next, Wait, CallerInterrupted

(* Where callers stay until they are answered, an outcome that is recorded   *)
(* is the next pause, or the end of an execution that has ended              *)
(* (SettledMeansSettled; the comment at 453-455 of engine.ts).               *)
THEOREM SettledIsSettled ==
  ASSUME ~Interruptible
  PROVE  Spec => []SettledMeansSettled
<1>1. Init => SettledMeansSettled
  BY DEF Init, SettledMeansSettled, Recorded
<1>2. Typed /\ Places /\ InOrder /\ SettledMeansSettled /\ [Next]_vars => SettledMeansSettled'
  BY SettledStep
<1> QED
  BY <1>1, <1>2, RepliesAlways, PTL DEF Spec

---------------------------------------------------------------------------
(* Who collects the next pause, where callers stay. *)

(* Nothing is about an execution that has not started, and the pauses queued *)
(* for an execution that runs are open.                                      *)
NewIsEmpty ==
  /\ \A p \in Minted : sandbox[owner[p]] # "new"
  /\ \A k \in Calls : call[k].at # "unused" => sandbox[call[k].exec] # "new"
  /\ \A c \in Clients : client[c].at # "idle" => sandbox[client[c].exec] # "new"

QueuedIsOpen ==
  \A e \in Executions : sandbox[e] = "running" =>
    \A i \in 1 .. Len(pauseQueue[e]) : pauseQueue[e][i] \in pausedExecutions

FrontierOf(e) ==
  \/ RacersOn(e) = {} /\ \E p \in Pauses : OpenAndKnown(e) = {p}
  \/ OpenAndKnown(e) = {} /\ \E c \in Clients : RacersOn(e) = {c}

Frontier == \A e \in Executions : sandbox[e] = "running" => FrontierOf(e)

LEMMA SandboxMoves ==
  ASSUME TypeOK, [Next]_vars, NEW e \in Executions
  PROVE  /\ sandbox'[e] = "new" => sandbox[e] = "new"
         /\ \/ sandbox'[e] = "running" => sandbox[e] = "running"
            \/ \E c \in Clients : StartPausableExecution(c, e)
<1>1. ASSUME NEW c \in Clients, NEW d \in Executions, StartPausableExecution(c, d)
      PROVE  sandbox'[e] = IF e = d THEN "running" ELSE sandbox[e]
  BY <1>1 DEF StartPausableExecution, TypeOK
<1>2. ASSUME NEW d \in Executions, EndSandbox(d)
      PROVE  sandbox'[e] = IF e = d THEN "ended" ELSE sandbox[e]
  BY <1>2 DEF EndSandbox, TypeOK
<1>3. CASE Restart
  BY <1>3 DEF Restart, TypeOK
<1>4. CASE UNCHANGED sandbox
  BY <1>4
<1>5. ASSUME NEW c \in Clients, Wait(c) \/ CallerInterrupted(c)
      PROVE  UNCHANGED sandbox
  BY <1>5 DEF Wait, RaceCompletes, RacePauses, JoinedResumeReturns, CallerInterrupted, sandboxVars
<1>6. ASSUME NEW c \in Clients, NEW p \in Pauses, Resume(c, p)
      PROVE  UNCHANGED sandbox
  BY <1>6 DEF Resume, ResumeReplays, ResumeJoins, ResumeFindsNothing, ResumeDelivers, sandboxVars
<1>7. CASE \/ \E d \in Executions, k \in Calls : DispatchCall(d, k)
           \/ \E k \in Calls : ReturnCall(k)
           \/ \E k \in Calls, p \in Pauses : Elicit(k, p)
           \/ \E d \in Executions : SweepEndedExecution(d)
           \/ UNCHANGED vars
  BY <1>7 DEF DispatchCall, ReturnCall, Elicit, SweepEndedExecution, vars, sandboxVars
<1> QED
  BY <1>1, <1>2, <1>3, <1>4, <1>5, <1>6, <1>7 DEF Next

LEMMA RacersMove ==
  ASSUME TypeOK, NEW c \in Clients, NEW v, client' = [client EXCEPT ![c] = v],
         NEW e \in Executions
  PROVE  RacersOn(e)' = IF v.at \in {"starting", "resuming"} /\ v.exec = e
                        THEN RacersOn(e) \cup {c} ELSE RacersOn(e) \ {c}
<1>1. \A d \in Clients : client'[d] = IF d = c THEN v ELSE client[d]
  BY DEF TypeOK
<1> QED
  BY <1>1 DEF RacersOn, Racing

LEMMA NewStep ==
  ASSUME Typed, History, NewIsEmpty, [Next]_vars
  PROVE  NewIsEmpty'
<1>0. TypeOK /\ WellFormed /\ KnownMinted
  BY DEF Typed, History
<1>1. \A e \in Executions : sandbox[e] # "new" => sandbox'[e] # "new"
  BY <1>0, SandboxMoves
<1>2. \A p \in Minted : owner[p] \in Executions
  BY <1>0 DEF Minted, TypeOK
<1>3. ASSUME UNCHANGED owner,
             \A k \in Calls : call'[k] = call[k] \/ sandbox'[call'[k].exec] # "new",
             \A c \in Clients : client'[c] = client[c] \/ client'[c].at = "idle"
      PROVE  NewIsEmpty'
  <2>1. \A p \in Minted' : sandbox'[owner'[p]] # "new"
    BY <1>1, <1>2, <1>3 DEF NewIsEmpty, Minted
  <2>2. \A k \in Calls : call'[k].at # "unused" => sandbox'[call'[k].exec] # "new"
    BY <1>0, <1>1, <1>3 DEF NewIsEmpty, WellFormed
  <2>3. \A c \in Clients : client'[c].at # "idle" => sandbox'[client'[c].exec] # "new"
    BY <1>0, <1>1, <1>3 DEF NewIsEmpty, WellFormed
  <2> QED
    BY <2>1, <2>2, <2>3 DEF NewIsEmpty
<1>4. ASSUME UNCHANGED <<owner, call>>, NEW c \in Clients, NEW e \in Executions,
             \A d \in Clients \ {c} : client'[d] = client[d],
             client'[c].exec = e, sandbox'[e] # "new"
      PROVE  NewIsEmpty'
  <2>1. \A p \in Minted' : sandbox'[owner'[p]] # "new"
    BY <1>1, <1>2, <1>4 DEF NewIsEmpty, Minted
  <2>2. \A k \in Calls : call'[k].at # "unused" => sandbox'[call'[k].exec] # "new"
    BY <1>0, <1>1, <1>4 DEF NewIsEmpty, WellFormed
  <2>3. \A d \in Clients : client'[d].at # "idle" => sandbox'[client'[d].exec] # "new"
    BY <1>0, <1>1, <1>4 DEF NewIsEmpty, WellFormed
  <2> QED
    BY <2>1, <2>2, <2>3 DEF NewIsEmpty
<1>5. ASSUME NEW c \in Clients, NEW e \in Executions, StartPausableExecution(c, e)
      PROVE  NewIsEmpty'
  <2>1. UNCHANGED <<owner, call>> /\ sandbox'[e] = "running"
    BY <1>0, <1>5 DEF StartPausableExecution, TypeOK, mintVars
  <2>2. /\ \A d \in Clients \ {c} : client'[d] = client[d]
        /\ client'[c].exec = e
    BY <1>0, <1>5 DEF StartPausableExecution, TypeOK
  <2> QED
    BY <1>4, <2>1, <2>2
<1>6. ASSUME NEW e \in Executions, NEW k \in Calls, DispatchCall(e, k)
      PROVE  NewIsEmpty'
  <2>1. UNCHANGED <<owner, client, sandbox>> /\ sandbox[e] = "running"
    BY <1>6 DEF DispatchCall, mintVars
  <2>2. /\ \A j \in Calls \ {k} : call'[j] = call[j]
        /\ call'[k].exec = e
    BY <1>0, <1>6 DEF DispatchCall, TypeOK
  <2> QED
    BY <2>1, <2>2 DEF NewIsEmpty, Minted
<1>7. ASSUME NEW k \in Calls, NEW p \in Pauses, Elicit(k, p)
      PROVE  NewIsEmpty'
  <2>1. UNCHANGED <<client, sandbox>> /\ call[k].at # "unused"
    BY <1>7 DEF Elicit
  <2>2. /\ \A j \in Calls \ {k} : call'[j] = call[j]
        /\ call'[k].exec = call[k].exec
    BY <1>0, <1>7 DEF Elicit, TypeOK
  <2>3. \A q \in Pauses : owner'[q] = IF q = p THEN call[k].exec ELSE owner[q]
    BY <1>0, <1>7 DEF Elicit, TypeOK
  <2> QED
    BY <2>1, <2>2, <2>3 DEF NewIsEmpty, Minted
<1>8. ASSUME NEW c \in Clients, NEW p \in Pauses, Resume(c, p)
      PROVE  NewIsEmpty'
  <2>1. CASE ResumeReplays(c, p) \/ ResumeFindsNothing(c, p)
    BY <1>3, <2>1 DEF ResumeReplays, ResumeFindsNothing, sandboxVars, mintVars
  <2>2. CASE ResumeJoins(c, p) \/ ResumeDelivers(c, p)
    <3>1. p \in Minted /\ UNCHANGED <<owner, sandbox>>
      BY <1>0, <2>2 DEF ResumeJoins, ResumeDelivers, Asks, KnownMinted, sandboxVars, mintVars
    <3>2. /\ \A d \in Clients \ {c} : client'[d] = client[d]
          /\ client'[c].exec = owner[p]
      BY <1>0, <2>2 DEF ResumeJoins, ResumeDelivers, TypeOK
    <3>3. \A k \in Calls : call'[k].exec = call[k].exec /\ (call'[k].at # "unused" => call[k].at # "unused")
      <4>1. \A k \in Calls : \/ call'[k] = call[k]
                             \/ call'[k] = [call[k] EXCEPT !.at = "running"] /\ call[k].at = "waiting"
        <5>1. CASE ResumeJoins(c, p)
          BY <5>1 DEF ResumeJoins, sandboxVars
        <5>2. CASE ResumeDelivers(c, p)
          BY <1>0, <5>2 DEF ResumeDelivers, TypeOK
        <5> QED
          BY <2>2, <5>1, <5>2
      <4>2. \A k \in Calls : call[k] \in [exec : Executions \cup {NoExecution}, at : CallStates]
        BY <1>0 DEF TypeOK
      <4> QED
        BY <4>1, <4>2
    <3> QED
      BY <1>2, <3>1, <3>2, <3>3 DEF NewIsEmpty, Minted
  <2> QED
    BY <1>8, <2>1, <2>2 DEF Resume
<1>9. ASSUME NEW c \in Clients, Wait(c) \/ CallerInterrupted(c)
      PROVE  NewIsEmpty'
  <2>1. UNCHANGED <<owner, call>>
    BY <1>9 DEF Wait, RaceCompletes, RacePauses, JoinedResumeReturns, CallerInterrupted,
                sandboxVars, mintVars
  <2>2. client' = [client EXCEPT ![c] = Idle]
    BY <1>9, Zenon DEF Wait, RaceCompletes, RacePauses, JoinedResumeReturns, CallerInterrupted,
                       RaceEnds
  <2>3. \A d \in Clients : client'[d] = client[d] \/ client'[d].at = "idle"
    BY <1>0, <2>2 DEF TypeOK, Idle
  <2> QED
    BY <1>3, <2>1, <2>3
<1>10. CASE \/ \E k \in Calls : ReturnCall(k)
            \/ \E e \in Executions : EndSandbox(e) \/ SweepEndedExecution(e)
            \/ Restart
            \/ UNCHANGED vars
  <2>1. UNCHANGED owner /\ \A c \in Clients : client'[c] = client[c] \/ client'[c].at = "idle"
    BY <1>10 DEF ReturnCall, EndSandbox, SweepEndedExecution, Restart, Idle, vars, mintVars
  <2>2. \A k \in Calls : call'[k] = call[k] \/ sandbox'[call'[k].exec] # "new"
    <3>1. ASSUME NEW k \in Calls, call[k].at # "unused", call'[k].exec = call[k].exec
          PROVE  sandbox'[call'[k].exec] # "new"
      BY <1>0, <1>1, <3>1 DEF NewIsEmpty, WellFormed
    <3>2. \A k \in Calls : call[k] \in [exec : Executions \cup {NoExecution}, at : CallStates]
      BY <1>0 DEF TypeOK
    <3>3. ASSUME NEW e \in Executions, EndSandbox(e), NEW k \in Calls
          PROVE  call'[k] = call[k] \/ sandbox'[call'[k].exec] # "new"
      <4>1. call'[k] = call[k] \/ (call'[k] = [call[k] EXCEPT !.at = "finished"] /\ call[k].exec = e)
        BY <1>0, <3>3 DEF EndSandbox, TypeOK
      <4>2. sandbox'[e] = "ended"
        BY <1>0, <3>3 DEF EndSandbox, TypeOK
      <4> QED
        BY <3>2, <4>1, <4>2
    <3>4. ASSUME NEW k \in Calls, (\E j \in Calls : ReturnCall(j)) \/ Restart
          PROVE  call'[k] = call[k] \/ sandbox'[call'[k].exec] # "new"
      <4>1. \/ call'[k] = call[k]
            \/ call'[k] = [call[k] EXCEPT !.at = "finished"] /\ call[k].at # "unused"
        BY <1>0, <3>4 DEF ReturnCall, Restart, TypeOK
      <4> QED
        BY <3>1, <3>2, <4>1
    <3> QED
      BY <1>10, <3>3, <3>4 DEF SweepEndedExecution, vars, sandboxVars
  <2> QED
    BY <1>3, <2>1, <2>2
<1> QED
  BY <1>5, <1>6, <1>7, <1>8, <1>9, <1>10, Zenon DEF Next

LEMMA QueuedStep ==
  ASSUME Typed, History, InOrder, NewIsEmpty, QueuedIsOpen, [Next]_vars
  PROVE  QueuedIsOpen'
<1>0. TypeOK /\ WellFormed /\ KnownMinted
  BY DEF Typed, History
<1>1. \A e \in Executions : pauseQueue[e] \in Seq(Minted) /\ Len(pauseQueue[e]) \in Nat
  BY <1>0, LenProperties DEF KnownMinted
<1>2. \A e \in Executions : \A i \in 1 .. Len(pauseQueue[e]) : pauseQueue[e][i] \in Minted
  BY <1>1, ElementOfSeq
<1>3. ASSUME NEW e \in Executions, sandbox[e] = "running" => sandbox'[e] = "running",
             sandbox'[e] = "running" => sandbox[e] = "running",
             pauseQueue'[e] = pauseQueue[e],
             \A i \in 1 .. Len(pauseQueue[e]) :
               pauseQueue[e][i] \in pausedExecutions => pauseQueue[e][i] \in pausedExecutions'
      PROVE  sandbox'[e] = "running" =>
               \A i \in 1 .. Len(pauseQueue'[e]) : pauseQueue'[e][i] \in pausedExecutions'
  BY <1>3 DEF QueuedIsOpen
<1>4. ASSUME UNCHANGED pauseQueue, pausedExecutions \subseteq pausedExecutions',
             \A e \in Executions : sandbox'[e] = "running" => sandbox[e] = "running"
      PROVE  QueuedIsOpen'
  BY <1>4 DEF QueuedIsOpen
<1>5. ASSUME NEW c \in Clients, NEW e \in Executions, StartPausableExecution(c, e)
      PROVE  QueuedIsOpen'
  <2>1. UNCHANGED <<pauseQueue, pausedExecutions>> /\ sandbox[e] = "new"
    BY <1>5 DEF StartPausableExecution, engineVars
  <2>2. \A d \in Executions : sandbox'[d] = IF d = e THEN "running" ELSE sandbox[d]
    BY <1>0, <1>5 DEF StartPausableExecution, TypeOK
  <2>3. \A i \in 1 .. Len(pauseQueue[e]) : owner[pauseQueue[e][i]] = e
    BY DEF InOrder, QueuesAreNew, QueueIsNew
  <2>4. ~\E i \in 1 .. Len(pauseQueue[e]) : TRUE
    BY <1>2, <2>1, <2>3 DEF NewIsEmpty
  <2> QED
    BY <2>1, <2>2, <2>4 DEF QueuedIsOpen
<1>6. ASSUME NEW k \in Calls, NEW p \in Pauses, Elicit(k, p)
      PROVE  QueuedIsOpen'
  <2> DEFINE e == call[k].exec
  <2>1. /\ pausedExecutions' = pausedExecutions \cup {p}
        /\ pauseQueue' = [pauseQueue EXCEPT ![e] = Append(@, p)]
        /\ UNCHANGED sandbox
    BY <1>6 DEF Elicit
  <2>2. ASSUME NEW d \in Executions, sandbox[d] = "running"
        PROVE  \A i \in 1 .. Len(pauseQueue'[d]) : pauseQueue'[d][i] \in pausedExecutions'
    <3> DEFINE s == pauseQueue[d]
    <3>1. pauseQueue'[d] = IF d = e THEN Append(s, p) ELSE s
      BY <1>0, <2>1 DEF TypeOK
    <3>2. s \in Seq(Minted) /\ Len(s) \in Nat
      BY <1>1
    <3>3. \A i \in 1 .. Len(s) : s[i] \in pausedExecutions
      BY <2>2 DEF QueuedIsOpen
    <3>4. p \in Minted \cup {p} /\ s \in Seq(Minted \cup {p})
      BY <3>2
    <3> HIDE DEF s
    <3>5. /\ Len(Append(s, p)) = Len(s) + 1
          /\ \A i \in 1 .. Len(s) : Append(s, p)[i] = s[i]
          /\ Append(s, p)[Len(s) + 1] = p
      BY <3>4, AppendProperties
    <3>6. \A i \in 1 .. Len(s) + 1 : Append(s, p)[i] \in pausedExecutions'
      BY <2>1, <3>2, <3>3, <3>5
    <3> QED
      <4>1. CASE d = e
        BY <3>1, <3>5, <3>6, <4>1
      <4>2. CASE d # e
        BY <2>1, <3>1, <3>3, <4>2
      <4> QED
        BY <4>1, <4>2
  <2> QED
    BY <2>1, <2>2 DEF QueuedIsOpen
<1>7. ASSUME NEW e \in Executions, SweepEndedExecution(e)
      PROVE  QueuedIsOpen'
  <2>1. /\ sandbox[e] = "ended" /\ UNCHANGED <<sandbox, pauseQueue>>
        /\ pausedExecutions' = pausedExecutions \ PausesOf(e)
    BY <1>7 DEF SweepEndedExecution
  <2>2. \A d \in Executions : \A i \in 1 .. Len(pauseQueue[d]) : owner[pauseQueue[d][i]] = d
    BY DEF InOrder, QueuesAreNew, QueueIsNew
  <2> QED
    BY <2>1, <2>2 DEF QueuedIsOpen, PausesOf
<1>8. ASSUME NEW c \in Clients, NEW p \in Pauses, Resume(c, p)
      PROVE  QueuedIsOpen'
  <2>1. CASE ResumeDelivers(c, p)
    <3>1. /\ UNCHANGED <<sandbox, pauseQueue>> /\ pausedExecutions' = pausedExecutions \ {p}
          /\ p \in known
      BY <2>1 DEF ResumeDelivers, Asks
    <3>2. ASSUME NEW d \in Executions, NEW i \in 1 .. Len(pauseQueue[d])
          PROVE  pauseQueue[d][i] # p
      <4>1. owner[pauseQueue[d][i]] = d /\ (owner[p] = d => p < pauseQueue[d][i])
        BY <3>1 DEF InOrder, QueuesAreNew, QueueIsNew
      <4>2. p \in Nat
        BY ConstantsAssumption DEF Pauses
      <4> QED
        BY <4>1, <4>2
    <3> QED
      BY <3>1, <3>2 DEF QueuedIsOpen
  <2>2. CASE ResumeReplays(c, p) \/ ResumeJoins(c, p) \/ ResumeFindsNothing(c, p)
    BY <1>4, <2>2 DEF ResumeReplays, ResumeJoins, ResumeFindsNothing, engineVars, sandboxVars
  <2> QED
    BY <1>8, <2>1, <2>2 DEF Resume
<1>9. ASSUME NEW c \in Clients, RacePauses(c)
      PROVE  QueuedIsOpen'
  <2> DEFINE e == client[c].exec
  <2>1. /\ UNCHANGED <<sandbox, pausedExecutions>> /\ pauseQueue[e] # <<>>
        /\ pauseQueue' = [pauseQueue EXCEPT ![e] = Tail(@)]
    BY <1>9 DEF RacePauses, sandboxVars
  <2>2. ASSUME NEW d \in Executions, sandbox[d] = "running"
        PROVE  \A i \in 1 .. Len(pauseQueue'[d]) : pauseQueue'[d][i] \in pausedExecutions
    <3> DEFINE s == pauseQueue[d]
    <3>1. pauseQueue'[d] = IF d = e THEN Tail(s) ELSE s
      BY <1>0, <2>1 DEF TypeOK
    <3>2. \A i \in 1 .. Len(s) : s[i] \in pausedExecutions
      BY <2>2 DEF QueuedIsOpen
    <3>3. CASE d = e
      <4>1. s \in Seq(Minted) /\ s # <<>>
        BY <1>1, <2>1, <3>3
      <4> HIDE DEF s
      <4>2. /\ Len(s) \in Nat /\ Len(Tail(s)) = Len(s) - 1
            /\ \A i \in 1 .. Len(s) - 1 : Tail(s)[i] = s[i + 1]
        BY <4>1, HeadTailProperties, LenProperties
      <4>3. \A i \in 1 .. Len(s) - 1 : i + 1 \in 1 .. Len(s)
        BY <4>2
      <4>4. \A i \in 1 .. Len(s) - 1 : Tail(s)[i] \in pausedExecutions
        BY <3>2, <4>2, <4>3
      <4> QED
        BY <3>1, <3>3, <4>2, <4>4
    <3>4. CASE d # e
      BY <3>1, <3>2, <3>4
    <3> QED
      BY <3>3, <3>4
  <2> QED
    BY <2>1, <2>2 DEF QueuedIsOpen
<1>10. ASSUME NEW c \in Clients, RaceCompletes(c) \/ JoinedResumeReturns(c) \/ CallerInterrupted(c)
       PROVE  QueuedIsOpen'
  BY <1>4, <1>10 DEF RaceCompletes, JoinedResumeReturns, CallerInterrupted, engineVars, sandboxVars
<1>11. CASE Restart
  <2>1. \A e \in Executions : sandbox'[e] # "running"
    BY <1>11 DEF Restart
  <2> QED
    BY <2>1 DEF QueuedIsOpen
<1>12. CASE \/ \E e \in Executions, k \in Calls : DispatchCall(e, k)
            \/ \E k \in Calls : ReturnCall(k)
            \/ \E e \in Executions : EndSandbox(e)
            \/ UNCHANGED vars
  <2>1. UNCHANGED <<pauseQueue, pausedExecutions>>
    BY <1>12 DEF DispatchCall, ReturnCall, EndSandbox, vars, engineVars
  <2>2. \A e \in Executions : sandbox'[e] = "running" => sandbox[e] = "running"
    BY <1>0, <1>12 DEF DispatchCall, ReturnCall, EndSandbox, TypeOK, vars, sandboxVars
  <2> QED
    BY <1>4, <2>1, <2>2
<1> QED
  BY <1>5, <1>6, <1>7, <1>8, <1>9, <1>10, <1>11, <1>12, Zenon DEF Next, Wait

\* Nobody can collect the next pause of e: its only racer hung up.
Deserted(e) == RacersOn(e) = {} /\ OpenAndKnown(e) = {}

NeverTwo == \A e \in Executions : sandbox[e] = "running" => FrontierOf(e) \/ Deserted(e)

\* What a step does to an execution that runs after it.
Moves(e) ==
  \/ FrontierOf(e)'
  \/ /\ sandbox[e] = "running"
     /\ \/ RacersOn(e)' = RacersOn(e) /\ OpenAndKnown(e)' = OpenAndKnown(e)
        \/ Interruptible /\ Deserted(e)'

AllMove == \A e \in Executions : sandbox'[e] = "running" => Moves(e)

LEMMA FrontierMoves ==
  ASSUME Typed, Places, History, InOrder, NewIsEmpty, QueuedIsOpen, NeverTwo, [Next]_vars
  PROVE  AllMove
<1>0. TypeOK /\ WellFormed /\ KnownMinted
  BY DEF Typed, History
<1>1. ASSUME \A e \in Executions : sandbox'[e] = "running" =>
               \/ FrontierOf(e)'
               \/ /\ sandbox[e] = "running"
                  /\ RacersOn(e)' = RacersOn(e) /\ OpenAndKnown(e)' = OpenAndKnown(e)
      PROVE  AllMove
  BY <1>1 DEF AllMove, Moves
<1>2. ASSUME NEW c \in Clients, NEW e \in Executions, StartPausableExecution(c, e)
      PROVE  AllMove
  <2>1. /\ UNCHANGED <<pausedExecutions, owner, known>>
        /\ sandbox[e] = "new" /\ client[c] = Idle
        /\ client' = [client EXCEPT ![c] = [at |-> "starting", exec |-> e, pause |-> 0]]
        /\ \A d \in Executions : sandbox'[d] = IF d = e THEN "running" ELSE sandbox[d]
    BY <1>0, <1>2 DEF StartPausableExecution, TypeOK, engineVars, mintVars, observed
  <2>2. \A d \in Executions : OpenAndKnown(d)' = OpenAndKnown(d)
    BY <2>1 DEF OpenAndKnown, PausesOf
  <2>3. \A d \in Executions : RacersOn(d)' = IF d = e THEN RacersOn(d) \cup {c}
                                                      ELSE RacersOn(d) \ {c}
    <3> DEFINE v == [at |-> "starting", exec |-> e, pause |-> 0]
    <3>1. v.at = "starting" /\ v.exec = e /\ client' = [client EXCEPT ![c] = v]
      BY <2>1
    <3> HIDE DEF v
    <3> QED
      BY <1>0, <3>1, RacersMove
  <2>4. \A d \in Executions : c \notin RacersOn(d)
    BY <2>1 DEF RacersOn, Racing, Idle
  <2>5. RacersOn(e) = {} /\ OpenAndKnown(e) = {}
    BY <1>0, <2>1 DEF NewIsEmpty, RacersOn, Racing, OpenAndKnown, PausesOf, KnownMinted
  <2>6. FrontierOf(e)'
    BY <2>2, <2>3, <2>5 DEF FrontierOf
  <2> QED
    BY <1>1, <2>1, <2>2, <2>3, <2>4, <2>6
<1>3. ASSUME UNCHANGED <<client, owner, known>>,
             \A p \in Minted : sandbox'[owner[p]] = "running" /\ p \in known =>
               (p \in pausedExecutions' <=> p \in pausedExecutions),
             \A e \in Executions : sandbox'[e] = "running" => sandbox[e] = "running"
      PROVE  AllMove
  <2>1. \A e \in Executions : RacersOn(e)' = RacersOn(e)
    BY <1>3 DEF RacersOn, Racing
  <2>2. \A e \in Executions : sandbox'[e] = "running" => OpenAndKnown(e)' = OpenAndKnown(e)
    BY <1>0, <1>3 DEF OpenAndKnown, PausesOf, KnownMinted
  <2> QED
    BY <1>1, <1>3, <2>1, <2>2
<1>4. ASSUME NEW k \in Calls, NEW p \in Pauses, Elicit(k, p)
      PROVE  AllMove
  <2>1. /\ UNCHANGED <<client, known, sandbox>> /\ pausedExecutions' = pausedExecutions \cup {p}
        /\ p \notin Minted
        /\ \A q \in Pauses \ {p} : owner'[q] = owner[q]
    BY <1>0, <1>4 DEF Elicit, MintsFreshId, Minted, TypeOK, observed
  <2>2. \A e \in Executions : RacersOn(e)' = RacersOn(e)
    BY <2>1 DEF RacersOn, Racing
  <2>3. \A q \in known : q \in Pauses \ {p}
    BY <1>0, <2>1 DEF KnownMinted, Minted
  <2>4. \A e \in Executions : OpenAndKnown(e)' = OpenAndKnown(e)
    BY <2>1, <2>3 DEF OpenAndKnown, PausesOf
  <2> QED
    BY <1>1, <2>1, <2>2, <2>4
<1>5. CASE \/ \E e \in Executions, k \in Calls : DispatchCall(e, k)
           \/ \E k \in Calls : ReturnCall(k)
           \/ \E e \in Executions : EndSandbox(e)
           \/ UNCHANGED vars
  <2>1. UNCHANGED <<client, owner, known, pausedExecutions>>
    BY <1>5 DEF DispatchCall, ReturnCall, EndSandbox, vars, engineVars, mintVars, observed
  <2>2. \A e \in Executions : sandbox'[e] = "running" => sandbox[e] = "running"
    BY <1>0, <1>5 DEF DispatchCall, ReturnCall, EndSandbox, TypeOK, vars, sandboxVars
  <2> QED
    BY <1>3, <2>1, <2>2
<1>6. ASSUME NEW e \in Executions, SweepEndedExecution(e)
      PROVE  AllMove
  <2>1. /\ UNCHANGED <<client, owner, known, sandbox>> /\ sandbox[e] = "ended"
        /\ pausedExecutions' = pausedExecutions \ PausesOf(e)
    BY <1>6 DEF SweepEndedExecution, mintVars, observed
  <2> QED
    BY <1>3, <2>1 DEF PausesOf
<1>7. ASSUME NEW c \in Clients, NEW p \in Pauses, ResumeDelivers(c, p)
      PROVE  AllMove
  <2>1. /\ UNCHANGED <<owner, known, sandbox>> /\ pausedExecutions' = pausedExecutions \ {p}
        /\ p \in known /\ p \in pausedExecutions /\ client[c] = Idle
        /\ client' = [client EXCEPT ![c] = [at |-> "resuming", exec |-> owner[p], pause |-> p]]
    BY <1>7 DEF ResumeDelivers, Asks, mintVars, observed
  <2>2. \A d \in Executions : OpenAndKnown(d)' = OpenAndKnown(d) \ {p}
    BY <2>1 DEF OpenAndKnown, PausesOf
  <2>3. \A d \in Executions : RacersOn(d)' = IF owner[p] = d THEN RacersOn(d) \cup {c}
                                                             ELSE RacersOn(d) \ {c}
    <3> DEFINE v == [at |-> "resuming", exec |-> owner[p], pause |-> p]
    <3>1. v.at = "resuming" /\ v.exec = owner[p] /\ client' = [client EXCEPT ![c] = v]
      BY <2>1
    <3> HIDE DEF v
    <3> QED
      BY <1>0, <3>1, RacersMove
  <2>4. \A d \in Executions : c \notin RacersOn(d)
    BY <2>1 DEF RacersOn, Racing, Idle
  <2>5. ASSUME NEW d \in Executions, sandbox[d] = "running", owner[p] = d
        PROVE  FrontierOf(d)'
    <3>1. p \in OpenAndKnown(d)
      BY <2>1, <2>5 DEF OpenAndKnown, PausesOf
    <3>2. RacersOn(d) = {} /\ OpenAndKnown(d) = {p}
      BY <2>5, <3>1 DEF NeverTwo, FrontierOf, Deserted
    <3> QED
      BY <2>2, <2>3, <2>5, <3>2 DEF FrontierOf
  <2>6. \A d \in Executions : owner[p] # d => p \notin OpenAndKnown(d)
    BY DEF OpenAndKnown, PausesOf
  <2> QED
    BY <1>1, <2>1, <2>2, <2>3, <2>4, <2>5, <2>6
<1>8. ASSUME NEW c \in Clients, NEW v, client' = [client EXCEPT ![c] = v],
             v.at \notin {"starting", "resuming"},
             \A e \in Executions : sandbox[e] = "running" => c \notin RacersOn(e),
             UNCHANGED <<sandbox, pausedExecutions, owner, known>>
      PROVE  AllMove
  <2>1. \A e \in Executions : RacersOn(e)' = RacersOn(e) \ {c}
    BY <1>0, <1>8, RacersMove
  <2>2. \A e \in Executions : OpenAndKnown(e)' = OpenAndKnown(e)
    BY <1>8 DEF OpenAndKnown, PausesOf
  <2> QED
    BY <1>1, <1>8, <2>1, <2>2
<1>9. ASSUME NEW c \in Clients, NEW p \in Pauses,
             ResumeReplays(c, p) \/ ResumeJoins(c, p) \/ ResumeFindsNothing(c, p)
      PROVE  AllMove
  <2>1. UNCHANGED <<sandbox, pausedExecutions, owner, known>> /\ client[c] = Idle
    BY <1>9 DEF ResumeReplays, ResumeJoins, ResumeFindsNothing, Asks, engineVars, sandboxVars,
                mintVars, observed
  <2>2. CASE UNCHANGED client
    BY <1>3, <2>1, <2>2
  <2>3. CASE client' = [client EXCEPT ![c] = [at |-> "joining", exec |-> owner[p], pause |-> p]]
    <3> DEFINE v == [at |-> "joining", exec |-> owner[p], pause |-> p]
    <3>1. v.at = "joining" /\ client' = [client EXCEPT ![c] = v]
      BY <2>3
    <3>2. \A e \in Executions : c \notin RacersOn(e)
      BY <2>1 DEF RacersOn, Racing, Idle
    <3> HIDE DEF v
    <3> QED
      BY <1>8, <2>1, <3>1, <3>2
  <2> QED
    BY <1>9, <2>2, <2>3 DEF ResumeReplays, ResumeJoins, ResumeFindsNothing
<1>10. ASSUME NEW c \in Clients, RaceCompletes(c) \/ JoinedResumeReturns(c)
       PROVE  AllMove
  <2>1. UNCHANGED <<sandbox, pausedExecutions, owner, known>>
    BY <1>10 DEF RaceCompletes, JoinedResumeReturns, engineVars, sandboxVars, mintVars
  <2>2. client' = [client EXCEPT ![c] = Idle]
    BY <1>10, Zenon DEF RaceCompletes, JoinedResumeReturns, RaceEnds
  <2>3. \A e \in Executions : sandbox[e] = "running" => c \notin RacersOn(e)
    BY <1>10 DEF RaceCompletes, JoinedResumeReturns, RacersOn, Racing
  <2>4. Idle.at = "idle"
    BY DEF Idle
  <2> QED
    BY <1>8, <2>1, <2>2, <2>3, <2>4
<1>11. ASSUME NEW c \in Clients, RacePauses(c)
       PROVE  AllMove
  <2>1. PICK e \in Executions : e = client[c].exec
    BY <1>0, <1>11 DEF RacePauses, Racing, WellFormed
  <2> DEFINE s == pauseQueue[e]
             p == Head(s)
  <2>2. /\ UNCHANGED <<sandbox, pausedExecutions, owner>>
        /\ s # <<>> /\ known' = known \cup {p} /\ c \in RacersOn(e)
        /\ client' = [client EXCEPT ![c] = Idle]
    BY <1>11, <2>1 DEF RacePauses, RaceEnds, RacersOn, sandboxVars, mintVars
  <2>3. s \in Seq(Minted)
    BY <1>0 DEF KnownMinted
  <2>4. p = s[1] /\ 1 \in 1 .. Len(s)
    <3> HIDE DEF s
    <3> QED
      BY <2>2, <2>3, HeadTailProperties, LenProperties, EmptySeq
  <2>5. owner[p] = e
    BY <2>4 DEF InOrder, QueuesAreNew, QueueIsNew
  <2>6. p \in Pauses
    BY <2>3, <2>4, ElementOfSeq DEF Minted
  <2>7. sandbox[e] = "running" => p \in pausedExecutions
    BY <2>4 DEF QueuedIsOpen
  <2> HIDE DEF p
  <2>8. \A d \in Executions : RacersOn(d)' = RacersOn(d) \ {c}
    <3>1. Idle.at = "idle"
      BY DEF Idle
    <3> QED
      BY <1>0, <2>2, <3>1, RacersMove
  <2>9. \A d \in Executions \ {e} : OpenAndKnown(d)' = OpenAndKnown(d) /\ c \notin RacersOn(d)
    BY <2>1, <2>2, <2>5 DEF OpenAndKnown, PausesOf, RacersOn
  <2>10. ASSUME sandbox[e] = "running"
         PROVE  FrontierOf(e)'
    <3>1. OpenAndKnown(e) = {} /\ RacersOn(e) = {c}
      BY <2>2, <2>10 DEF NeverTwo, FrontierOf, Deserted
    <3>2. OpenAndKnown(e)' = {p}
      BY <2>2, <2>5, <2>7, <2>10, <3>1 DEF OpenAndKnown, PausesOf
    <3>3. RacersOn(e)' = {}
      BY <2>8, <3>1
    <3> QED
      BY <2>6, <3>2, <3>3 DEF FrontierOf
  <2>11. \A d \in Executions \ {e} :
           RacersOn(d)' = RacersOn(d) /\ OpenAndKnown(d)' = OpenAndKnown(d)
    BY <2>8, <2>9
  <2>12. ASSUME NEW d \in Executions, d = e, sandbox[d] = "running"
         PROVE  FrontierOf(d)'
    BY <2>10, <2>12
  <2> QED
    BY <1>1, <2>2, <2>11, <2>12
<1>12. CASE Restart
  <2>1. \A e \in Executions : sandbox'[e] # "running"
    BY <1>12 DEF Restart
  <2> QED
    BY <2>1 DEF AllMove
<1>13. ASSUME NEW c \in Clients, CallerInterrupted(c)
       PROVE  AllMove
  <2>1. /\ UNCHANGED <<sandbox, pausedExecutions, owner, known>> /\ Interruptible
        /\ client' = [client EXCEPT ![c] = Idle]
    BY <1>13 DEF CallerInterrupted, RaceEnds, sandboxVars, mintVars
  <2>2. \A e \in Executions : RacersOn(e)' = RacersOn(e) \ {c}
    <3>1. Idle.at = "idle"
      BY DEF Idle
    <3> QED
      BY <1>0, <2>1, <3>1, RacersMove
  <2>3. \A e \in Executions : OpenAndKnown(e)' = OpenAndKnown(e)
    BY <2>1 DEF OpenAndKnown, PausesOf
  <2>4. ASSUME NEW e \in Executions, sandbox[e] = "running", c \in RacersOn(e)
        PROVE  Deserted(e)'
    <3>1. OpenAndKnown(e) = {} /\ RacersOn(e) = {c}
      BY <2>4 DEF NeverTwo, FrontierOf, Deserted
    <3> QED
      BY <2>2, <2>3, <3>1 DEF Deserted
  <2>5. ASSUME NEW e \in Executions, c \notin RacersOn(e)
        PROVE  RacersOn(e)' = RacersOn(e)
    BY <2>2, <2>5
  <2> QED
    BY <2>1, <2>3, <2>4, <2>5 DEF AllMove, Moves
<1> QED
  BY <1>2, <1>4, <1>5, <1>6, <1>7, <1>9, <1>10, <1>11, <1>12, <1>13, Zenon DEF Next, Wait, Resume

LEMMA NeverTwoStep ==
  ASSUME NeverTwo, AllMove
  PROVE  NeverTwo'
BY DEF NeverTwo, AllMove, Moves, FrontierOf, Deserted

LEMMA FrontierStep ==
  ASSUME ~Interruptible, Frontier, AllMove
  PROVE  Frontier'
BY DEF Frontier, AllMove, Moves, FrontierOf

LEMMA OneCounts ==
  ASSUME NEW e \in Executions, FrontierOf(e)
  PROVE  Cardinality(OpenAndKnown(e)) + Cardinality(RacersOn(e)) = 1
<1>1. CASE RacersOn(e) = {} /\ \E p \in Pauses : OpenAndKnown(e) = {p}
  <2>1. PICK p \in Pauses : OpenAndKnown(e) = {p}
    BY <1>1
  <2>2. Cardinality(OpenAndKnown(e)) = 1 /\ Cardinality(RacersOn(e)) = 0
    BY <1>1, <2>1, FS_EmptySet, FS_Singleton, Zenon
  <2> QED
    BY <2>2
<1>2. CASE OpenAndKnown(e) = {} /\ \E c \in Clients : RacersOn(e) = {c}
  <2>1. PICK c \in Clients : RacersOn(e) = {c}
    BY <1>2
  <2>2. Cardinality(OpenAndKnown(e)) = 0 /\ Cardinality(RacersOn(e)) = 1
    BY <1>2, <2>1, FS_EmptySet, FS_Singleton, Zenon
  <2> QED
    BY <2>2
<1> QED
  BY <1>1, <1>2 DEF FrontierOf

LEMMA NeverTwoAlways == Spec => [](NewIsEmpty /\ QueuedIsOpen /\ NeverTwo)
<1>1. Init => NewIsEmpty /\ QueuedIsOpen /\ NeverTwo
  <2> SUFFICES ASSUME Init PROVE NewIsEmpty /\ QueuedIsOpen /\ NeverTwo
    OBVIOUS
  <2>1. NewIsEmpty
    BY DEF Init, NewIsEmpty, Minted, Idle
  <2>2. QueuedIsOpen /\ NeverTwo
    BY DEF Init, QueuedIsOpen, NeverTwo
  <2> QED
    BY <2>1, <2>2
<1>2. Typed /\ Places /\ History /\ InOrder /\ NewIsEmpty /\ QueuedIsOpen /\ NeverTwo
        /\ [Next]_vars => (NewIsEmpty /\ QueuedIsOpen /\ NeverTwo)'
  BY NewStep, QueuedStep, FrontierMoves, NeverTwoStep
<1> QED
  BY <1>1, <1>2, RepliesAlways, PTL DEF Spec

LEMMA FrontierAlways ==
  ASSUME ~Interruptible
  PROVE  Spec => []Frontier
<1>1. Init => Frontier
  BY DEF Init, Frontier
<1>2. Typed /\ Places /\ History /\ InOrder /\ NewIsEmpty /\ QueuedIsOpen /\ NeverTwo
        /\ Frontier /\ [Next]_vars => Frontier'
  BY FrontierMoves, FrontierStep
<1> QED
  BY <1>1, <1>2, RepliesAlways, NeverTwoAlways, PTL DEF Spec

(* Two threads of control never compete for the next pause of an execution   *)
(* that runs, whoever hangs up: a caller that races for it and an open pause *)
(* that was handed out, whose resume would race, exclude each other, and     *)
(* there is at most one of either (awaitCompletionOrPause and the            *)
(* per-execution pauseQueue).                                                *)
THEOREM FrontierIsNeverTwo ==
  Spec => [](\A e \in Executions : sandbox[e] = "running" =>
               Cardinality(OpenAndKnown(e)) + Cardinality(RacersOn(e)) <= 1)
<1>1. ASSUME NeverTwo, NEW e \in Executions, sandbox[e] = "running"
      PROVE  Cardinality(OpenAndKnown(e)) + Cardinality(RacersOn(e)) <= 1
  <2>1. CASE FrontierOf(e)
    BY <2>1, OneCounts
  <2>2. CASE Deserted(e)
    <3>1. Cardinality(OpenAndKnown(e)) = 0 /\ Cardinality(RacersOn(e)) = 0
      BY <2>2, FS_EmptySet, Zenon DEF Deserted
    <3> QED
      BY <3>1
  <2> QED
    BY <1>1, <2>1, <2>2 DEF NeverTwo
<1>2. NeverTwo => \A e \in Executions : sandbox[e] = "running" =>
                    Cardinality(OpenAndKnown(e)) + Cardinality(RacersOn(e)) <= 1
  BY <1>1
<1> QED
  BY <1>2, NeverTwoAlways, PTL

(* Where callers stay, one thread of control can collect the next pause of   *)
(* an execution that runs: the caller that races for it, or whoever resumes  *)
(* the one open pause that was handed out (OneFrontier;                      *)
(* awaitCompletionOrPause and the per-execution pauseQueue).                 *)
THEOREM FrontierIsOne ==
  ASSUME ~Interruptible
  PROVE  Spec => []OneFrontier
<1>1. Frontier => OneFrontier
  BY OneCounts DEF Frontier, OneFrontier
<1> QED
  BY <1>1, FrontierAlways, PTL

===============================================================================
