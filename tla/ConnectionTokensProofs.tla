------------------------ MODULE ConnectionTokensProofs ------------------------
(* Theorems about ConnectionTokens, for every set of executors, calls and     *)
(* callbacks, and every bound that its assumptions allow.                     *)
EXTENDS ConnectionTokens, TLAPS

BusyStages == {"approving", "joined", "calling"} \cup Told \cup Granting
Hands == Tokens \cup {NoToken}
BusyStates ==
  [at : BusyStages, by : Executors, of : Calls \cup {NoCall}, dead : BOOLEAN,
   retried : BOOLEAN, read : Hands, hand : Hands]
CallStates == {IdleCall} \cup BusyStates
CompletionStates ==
  {IdleCompletion} \cup
    [at : {"found", "exchanged", "stored", "minted"}, flow : Flows, hand : Hands]

RowTypes ==
  /\ row \in [there : BOOLEAN, dead : BOOLEAN]
  /\ row.dead => row.there

TokenTypes ==
  /\ item \in Tokens
  /\ live \subseteq 1 .. issued
  /\ issued \in Tokens
  /\ revoked \subseteq 1 .. issued
  /\ lost \in BOOLEAN

CallTypes ==
  /\ gate \in [Executors -> Calls \cup {NoCall}]
  /\ opened \subseteq Calls
  /\ call \in [Calls -> CallStates]

FlowTypes ==
  /\ sessions \subseteq 1 .. flows
  /\ flows \in 0 .. MaxFlows
  /\ redeemed \subseteq Flows
  /\ completion \in [Completions -> CompletionStates]
  /\ crossed \in BOOLEAN

LEMMA TypeParts == TypeOK <=> RowTypes /\ TokenTypes /\ CallTypes /\ FlowTypes
BY Zenon DEF TypeOK, RowTypes, TokenTypes, CallTypes, FlowTypes, CallStates, CompletionStates,
  BusyStates, BusyStages, Hands

LEMMA TypePartsNext == TypeOK' <=> RowTypes' /\ TokenTypes' /\ CallTypes' /\ FlowTypes'
BY Zenon DEF TypeOK, RowTypes, TokenTypes, CallTypes, FlowTypes, CallStates, CompletionStates,
  BusyStates, BusyStages, Hands

(* Tokens that nobody has exchanged.                                          *)
Unspent == live \cup revoked

(* Tokens in hand are new: nobody has exchanged them, and nobody has stored,  *)
(* read or received them but the one who holds them.                          *)
HandsAreNew ==
  /\ \A c \in Calls : call[c].read <= issued
  /\ \A c \in Calls : call[c].at = "minted" =>
       /\ call[c].hand \in Unspent
       /\ call[c].hand # item
       /\ \A d \in Calls : call[d].read # call[c].hand
       /\ \A d \in Calls \ {c} : call[d].at = "minted" => call[d].hand # call[c].hand
  /\ \A k \in Completions : completion[k].at = "exchanged" =>
       /\ completion[k].hand \in Unspent
       /\ completion[k].hand # item
       /\ \A c \in Calls : call[c].read # completion[k].hand
       /\ \A c \in Calls : call[c].at = "minted" => call[c].hand # completion[k].hand
       /\ \A j \in Completions \ {k} :
            completion[j].at = "exchanged" => completion[j].hand # completion[k].hand
  /\ item <= issued

LEMMA TypeInit == Init => TypeOK
<1> SUFFICES ASSUME Init PROVE TypeOK
  OBVIOUS
<1>1. RowTypes
  BY DEF Init, RowTypes
<1>2. TokenTypes
  <2>1. item = 1 /\ live = {1} /\ issued = 1 /\ revoked = {} /\ lost = FALSE
    BY DEF Init
  <2>2. 1 \in Tokens
    BY BoundsAssumption DEF Tokens
  <2>3. {1} \subseteq 1 .. 1
    OBVIOUS
  <2> QED
    BY <2>1, <2>2, <2>3 DEF TokenTypes
<1>3. CallTypes
  BY DEF Init, CallTypes, CallStates
<1>4. FlowTypes
  <2>1. sessions = {} /\ flows = 0 /\ redeemed = {} /\ crossed = FALSE
    BY DEF Init
  <2>2. completion \in [Completions -> CompletionStates]
    BY DEF Init, CompletionStates
  <2>3. 0 \in 0 .. MaxFlows
    BY BoundsAssumption
  <2> QED
    BY <2>1, <2>2, <2>3 DEF FlowTypes
<1> QED
  BY <1>1, <1>2, <1>3, <1>4, TypeParts

---------------------------------------------------------------------------
(* What a call and a callback are made of. *)

LEMMA CallFields ==
  ASSUME CallTypes, NEW c \in Calls
  PROVE  /\ call[c].at \in {"idle"} \cup BusyStages
         /\ call[c].at # "idle" => call[c] \in BusyStates /\ call[c].by \in Executors
         /\ call[c].read \in Hands
         /\ call[c].hand \in Hands
         /\ call[c].at = "idle" => call[c] = IdleCall
BY DEF CallTypes, CallStates, BusyStates, BusyStages, Told, Granting, IdleCall, Hands

LEMMA CompletionFields ==
  ASSUME FlowTypes, NEW k \in Completions
  PROVE  /\ completion[k].at \in {"idle", "found", "exchanged", "stored", "minted"}
         /\ completion[k].at # "idle" => completion[k].flow \in Flows
         /\ completion[k].hand \in Hands
         /\ completion[k].at = "idle" => completion[k] = IdleCompletion
BY DEF FlowTypes, CompletionStates, IdleCompletion, Hands

(* A call that goes on at another stage is still one. *)
LEMMA MovesOn ==
  ASSUME NEW x \in BusyStates, NEW s \in BusyStages, NEW r \in BOOLEAN, NEW q \in BOOLEAN,
         NEW o \in Calls \cup {NoCall}, NEW t \in Hands, NEW h \in Hands
  PROVE  /\ [x EXCEPT !.at = s] \in BusyStates
         /\ [x EXCEPT !.at = s, !.of = o] \in BusyStates
         /\ [x EXCEPT !.at = s, !.retried = r] \in BusyStates
         /\ [x EXCEPT !.at = s, !.of = o, !.dead = q, !.retried = r] \in BusyStates
         /\ [x EXCEPT !.at = s, !.read = t] \in BusyStates
         /\ [x EXCEPT !.at = s, !.hand = h] \in BusyStates
         /\ [x EXCEPT !.at = s, !.read = t, !.hand = h] \in BusyStates
         /\ [IdleCall EXCEPT !.at = s, !.by = x.by] \in BusyStates
BY DEF BusyStates, IdleCall, Hands

(* What is told to a call when the refresh of c is over.                      *)
ToldOf(d, succeeds) ==
  IF succeeds
  THEN [call[d] EXCEPT !.at = "renewed", !.of = NoCall]
  ELSE [IdleCall EXCEPT !.at = "failed", !.by = call[d].by]

JoinedTo(c, d) == d # c /\ call[d].at = "joined" /\ call[d].of = c

LEMMA SettlesCases ==
  ASSUME NEW c \in Calls, NEW s \in BOOLEAN, Settles(c, s), NEW d \in Calls
  PROVE  /\ d = c => call'[d] =
              IF s THEN [call[d] EXCEPT !.at = "calling", !.read = NoToken, !.hand = NoToken]
                   ELSE IdleCall
         /\ JoinedTo(c, d) => call'[d] = ToldOf(d, s)
         /\ d # c /\ ~JoinedTo(c, d) => call'[d] = call[d]
BY Zenon DEF Settles, JoinedTo, ToldOf

LEMMA DeletesTypes ==
  ASSUME CallTypes, NEW c \in Calls, call[c].at # "idle", Deletes(c)
  PROVE  /\ gate' \in [Executors -> Calls \cup {NoCall}]
         /\ opened' \subseteq Calls
<1>1. gate[call[c].by] \in Calls \cup {NoCall}
  BY CallFields DEF CallTypes
<1> QED
  BY <1>1 DEF CallTypes, Deletes

LEMMA SettlesKeeps ==
  ASSUME CallTypes, NEW c \in Calls, call[c].at # "idle", NEW s \in BOOLEAN, Settles(c, s)
  PROVE  CallTypes'
<1>1. gate' \in [Executors -> Calls \cup {NoCall}] /\ opened' \subseteq Calls
  BY DeletesTypes DEF Settles
<1>2. ASSUME NEW d \in Calls
      PROVE  call'[d] \in CallStates
  <2>0. /\ {"calling", "renewed", "failed"} \subseteq BusyStages /\ NoToken \in Hands
        /\ NoCall \in Calls \cup {NoCall}
    BY DEF BusyStages, Told, Hands
  <2>1. CASE d = c
    <3>1. call[d] \in BusyStates
      BY <2>1, CallFields
    <3>2. [call[d] EXCEPT !.at = "calling", !.read = NoToken, !.hand = NoToken] \in BusyStates
      BY <2>0, <3>1, MovesOn
    <3> QED
      BY <2>1, <3>2, SettlesCases DEF CallStates
  <2>2. CASE JoinedTo(c, d)
    <3>1. call[d] \in BusyStates
      BY <2>2, CallFields DEF JoinedTo
    <3>2. ToldOf(d, s) \in BusyStates
      BY <2>0, <3>1, MovesOn DEF ToldOf
    <3> QED
      BY <2>2, <3>2, SettlesCases DEF CallStates
  <2>3. CASE d # c /\ ~JoinedTo(c, d)
    BY <2>3, SettlesCases DEF CallTypes
  <2> QED
    BY <2>1, <2>2, <2>3
<1>3. call' = [d \in Calls |-> call'[d]]
  BY DEF Settles
<1> QED
  BY <1>1, <1>2, <1>3, Zenon DEF CallTypes

LEMMA RefreshesKeeps ==
  ASSUME CallTypes, NEW c \in Calls, call[c].at # "idle", NEW r \in BOOLEAN, Refreshes(c, r),
         UNCHANGED opened
  PROVE  CallTypes'
<1>1. call[c] \in BusyStates /\ call[c].by \in Executors
  BY CallFields
<1>2. gate[call[c].by] \in Calls \cup {NoCall} /\ call[c].dead \in BOOLEAN
  BY <1>1 DEF CallTypes, BusyStates
<1>3. DEFINE q == call[c].dead /\ ~r
<1>4. /\ [call[c] EXCEPT !.at = "joined", !.of = gate[call[c].by], !.dead = q, !.retried = r]
            \in CallStates
      /\ [call[c] EXCEPT !.at = "reading", !.retried = r] \in CallStates
      /\ IdleCall \in CallStates
  <2>1. "joined" \in BusyStages /\ "reading" \in BusyStages /\ q \in BOOLEAN
    BY <1>2 DEF BusyStages, Granting
  <2>2. NoToken \in Hands
    BY DEF Hands
  <2> HIDE DEF q
  <2> DEFINE o == gate[call[c].by]
  <2>5. o \in Calls \cup {NoCall}
    BY <1>2
  <2> HIDE DEF o
  <2>6. [call[c] EXCEPT !.at = "joined", !.of = o, !.dead = q, !.retried = r] \in BusyStates
    BY <1>1, <2>1, <2>5 DEF BusyStates
  <2>3. [call[c] EXCEPT !.at = "joined", !.of = gate[call[c].by], !.dead = q, !.retried = r]
          \in BusyStates
    BY <2>6 DEF o
  <2>4. [call[c] EXCEPT !.at = "reading", !.retried = r] \in BusyStates
    BY <1>1, <1>2, <2>1, <2>2, MovesOn
  <2> QED
    BY <2>3, <2>4 DEF CallStates
<1>5. gate' = gate \/ gate' = [gate EXCEPT ![call[c].by] = c]
  BY Zenon DEF Refreshes
<1>6. \/ call' = [call EXCEPT ![c] =
               [call[c] EXCEPT !.at = "joined", !.of = gate[call[c].by], !.dead = q, !.retried = r]]
      \/ call' = [call EXCEPT ![c] = [call[c] EXCEPT !.at = "reading", !.retried = r]]
      \/ call' = [call EXCEPT ![c] = IdleCall]
  BY DEF Refreshes, CallTypes
<1> HIDE DEF q
<1> QED
  BY <1>1, <1>4, <1>5, <1>6 DEF CallTypes

---------------------------------------------------------------------------
(* Each step keeps the types. *)

(* The stages a call moves to by itself. *)
LEMMA StepKeepsCall ==
  ASSUME CallTypes, NEW c \in Calls, call[c].at # "idle",
         UNCHANGED gates \/ Deletes(c),
         NEW s \in BusyStages, NEW t \in Hands, NEW h \in Hands,
         \/ call' = [call EXCEPT ![c].at = s]
         \/ call' = [call EXCEPT ![c] = [call[c] EXCEPT !.at = s]]
         \/ call' = [call EXCEPT ![c].at = s, ![c].read = t]
         \/ call' = [call EXCEPT ![c].at = s, ![c].hand = h]
         \/ call' = [call EXCEPT ![c].at = s, ![c].read = t, ![c].hand = h]
         \/ call' = [call EXCEPT ![c] = IdleCall]
  PROVE  CallTypes'
<1>1. PICK x \in CallStates : call' = [call EXCEPT ![c] = x]
  <2>1. call[c] \in BusyStates
    BY CallFields
  <2>2. call \in [Calls -> CallStates]
    BY DEF CallTypes
  <2>3. /\ [call[c] EXCEPT !.at = s] \in BusyStates
        /\ [call[c] EXCEPT !.at = s, !.read = t] \in BusyStates
        /\ [call[c] EXCEPT !.at = s, !.hand = h] \in BusyStates
        /\ [call[c] EXCEPT !.at = s, !.read = t, !.hand = h] \in BusyStates
    BY <2>1, MovesOn
  <2> QED
    BY <2>2, <2>3 DEF CallStates
<1>2. gate' \in [Executors -> Calls \cup {NoCall}] /\ opened' \subseteq Calls
  BY DeletesTypes DEF CallTypes, gates
<1> QED
  BY <1>1, <1>2 DEF CallTypes

(* What a call does, or what is done to it.                                   *)
CallStep(c) == Resolves(c) \/ Declined(c) \/ Proceeds(c) \/ Interrupted(c)

LEMMA CallStepTypes ==
  ASSUME TypeOK, HandsAreNew, NEW c \in Calls, CallStep(c)
  PROVE  TypeOK'
<1> USE TypeParts
<1> SUFFICES RowTypes' /\ TokenTypes' /\ CallTypes' /\ FlowTypes'
  BY TypePartsNext
<1>0. /\ NoToken \in Hands /\ item \in Hands
      /\ "calling" \in BusyStages /\ call[c].at \in {"idle"} \cup BusyStages
  BY CallFields DEF Hands, TokenTypes, BusyStages
<1>1. CASE Resolves(c) \/ Declined(c) \/ Answered(c) \/ Unauthorized(c)
  <2>1. call[c].at \in {"approving", "calling"} /\ UNCHANGED <<row, item, atAS, oauth, crossed>>
    BY <1>1 DEF Resolves, Declined, Answered, Unauthorized
  <2>2. CallTypes'
    <3>1. \/ (Refreshes(c, TRUE) \/ Refreshes(c, FALSE)) /\ UNCHANGED opened
          \/ UNCHANGED gates /\ (\/ call' = [call EXCEPT ![c].at = "calling"]
                                \/ call' = [call EXCEPT ![c] = IdleCall])
      BY <1>1, Zenon DEF Resolves, Declined, Answered, Unauthorized, gates
    <3> QED
      BY <2>1, <3>1, <1>0, RefreshesKeeps, StepKeepsCall
  <2> QED
    BY <2>1, <2>2 DEF RowTypes, TokenTypes, FlowTypes, atAS, oauth
<1>2. CASE ReadsToken(c)
  <2>1. CallTypes'
    <3>1. "sent" \in BusyStages
      BY DEF BusyStages, Granting
    <3> QED
      BY <1>2, <1>0, <3>1, StepKeepsCall DEF ReadsToken
  <2>2. crossed' \in BOOLEAN
    BY <1>2, Zenon DEF ReadsToken
  <2> QED
    BY <1>2, <2>1, <2>2 DEF ReadsToken, RowTypes, TokenTypes, FlowTypes, atAS, oauth
<1>3. CASE Grants(c)
  <2>1. issued' \in Tokens /\ live' \subseteq 1 .. issued'
    BY <1>3, BoundsAssumption DEF Grants, TokenTypes, Tokens
  <2>3. revoked' \subseteq 1 .. issued'
    BY <1>3, BoundsAssumption DEF Grants, TokenTypes, Tokens
  <2>2. CallTypes'
    <3>1. "minted" \in BusyStages /\ issued' \in Hands
      BY <2>1 DEF BusyStages, Granting, Hands
    <3> QED
      BY <1>3, <1>0, <3>1, StepKeepsCall DEF Grants
  <2> QED
    BY <1>3, <2>1, <2>2, <2>3 DEF Grants, RowTypes, TokenTypes, FlowTypes, oauth
<1>4. CASE GrantIsLost(c)
  <2>1. CallTypes'
    BY <1>4, SettlesKeeps DEF GrantIsLost
  <2>2. lost' \in BOOLEAN
    BY <1>4, Zenon DEF GrantIsLost
  <2> QED
    BY <1>4, <2>1, <2>2 DEF GrantIsLost, RowTypes, TokenTypes, FlowTypes, oauth
<1>5. CASE Refuses(c)
  <2>1. "refused" \in BusyStages
    BY DEF BusyStages, Granting
  <2>2. CallTypes'
    BY <1>5, <1>0, <2>1, StepKeepsCall DEF Refuses
  <2> QED
    BY <1>5, <2>2 DEF Refuses, RowTypes, TokenTypes, FlowTypes, atAS, oauth
<1>6. CASE MarksDead(c)
  <2>1. CallTypes'
    BY <1>6, SettlesKeeps DEF MarksDead
  <2>2. RowTypes'
    BY <1>6 DEF MarksDead, RowTypes
  <2> QED
    BY <1>6, <2>1, <2>2 DEF MarksDead, TokenTypes, FlowTypes, atAS, oauth
<1>7. CASE RefreshFails(c)
  <2>1. CallTypes'
    BY <1>7, SettlesKeeps DEF RefreshFails
  <2> QED
    BY <1>7, <2>1 DEF RefreshFails, RowTypes, TokenTypes, FlowTypes, atAS, oauth
<1>8. CASE Stores(c)
  <2>1. "stored" \in BusyStages
    BY DEF BusyStages, Granting
  <2>2. CallTypes'
    BY <1>8, <1>0, <2>1, StepKeepsCall DEF Stores
  <2>3. call[c].hand \in Tokens
    BY <1>8, BoundsAssumption DEF Stores, HandsAreNew, Unspent, TokenTypes, Tokens
  <2>4. TokenTypes'
    BY <1>8, <2>3 DEF Stores, TokenTypes
  <2> QED
    BY <1>8, <2>2, <2>4 DEF Stores, RowTypes, FlowTypes, oauth
<1>9. CASE StoreFails(c)
  <2>1. CallTypes'
    BY <1>9, SettlesKeeps DEF StoreFails
  <2>2. lost' \in BOOLEAN
    BY <1>9, Zenon DEF StoreFails
  <2> QED
    BY <1>9, <2>1, <2>2 DEF StoreFails, RowTypes, TokenTypes, FlowTypes, oauth
<1>10. CASE UpdatesRow(c)
  <2>1. CallTypes'
    BY <1>10, SettlesKeeps DEF UpdatesRow
  <2> QED
    BY <1>10, <2>1 DEF UpdatesRow, RowTypes, TokenTypes, FlowTypes, atAS, oauth
<1>11. CASE Leaves(c)
  <2>1. call[c].at # "idle" /\ Deletes(c)
    BY <1>11 DEF Leaves, Told
  <2>2. \/ call' = [call EXCEPT ![c] = [call[c] EXCEPT !.at = "calling"]]
        \/ call' = [call EXCEPT ![c] = IdleCall]
    BY <1>11, Zenon DEF Leaves
  <2>3. CallTypes'
    BY <1>0, <2>1, <2>2, StepKeepsCall
  <2> QED
    BY <1>11, <2>3 DEF Leaves, RowTypes, TokenTypes, FlowTypes, atAS, oauth
<1>12. CASE Interrupted(c)
  <2>1. /\ call[c].at # "idle" /\ UNCHANGED <<row, item, live, issued, revoked, oauth, crossed>>
        /\ lost' = lost \/ lost' \in BOOLEAN
        /\ \/ Settles(c, FALSE)
           \/ call' = [call EXCEPT ![c] = IdleCall] /\ (UNCHANGED gates \/ Deletes(c))
    BY <1>12 DEF Interrupted, Told, Granting, atAS
  <2>2. CallTypes'
    BY <1>0, <2>1, SettlesKeeps, StepKeepsCall
  <2> QED
    BY <2>1, <2>2 DEF RowTypes, TokenTypes, FlowTypes, oauth
<1> QED
  BY <1>1, <1>2, <1>3, <1>4, <1>5, <1>6, <1>7, <1>8, <1>9, <1>10, <1>11, <1>12, Zenon
  DEF CallStep, Proceeds

LEMMA FlowStepTypes ==
  ASSUME TypeOK, HandsAreNew,
         \/ StartsFlow
         \/ \E k \in Completions :
              \/ \E f \in Flows : Completes(k, f)
              \/ Exchanges(k) \/ StoresNew(k) \/ Mints(k) \/ Finishes(k) \/ CompletionFails(k)
  PROVE  TypeOK'
<1> USE TypeParts
<1> SUFFICES RowTypes' /\ TokenTypes' /\ CallTypes' /\ FlowTypes'
  BY TypePartsNext
<1>0. flows \in Nat /\ flows <= MaxFlows
  BY BoundsAssumption DEF FlowTypes
<1>1. CASE StartsFlow
  <2>1. flows' \in 0 .. MaxFlows /\ sessions' \subseteq 1 .. flows'
    BY <1>0, <1>1, BoundsAssumption DEF StartsFlow, FlowTypes
  <2> QED
    BY <1>1, <2>1 DEF StartsFlow, RowTypes, TokenTypes, CallTypes, FlowTypes, atAS, gates
<1>2. ASSUME NEW k \in Completions, NEW f \in Flows, Completes(k, f)
      PROVE  RowTypes' /\ TokenTypes' /\ CallTypes' /\ FlowTypes'
  <2>1. [at |-> "found", flow |-> f, hand |-> NoToken] \in CompletionStates
    BY DEF CompletionStates, Hands
  <2>2. completion' \in [Completions -> CompletionStates]
    BY <1>2, <2>1 DEF Completes, FlowTypes
  <2> QED
    BY <1>2, <2>2 DEF Completes, RowTypes, TokenTypes, CallTypes, FlowTypes, atAS, gates
<1>3. ASSUME NEW k \in Completions, Exchanges(k)
      PROVE  RowTypes' /\ TokenTypes' /\ CallTypes' /\ FlowTypes'
  <2>1. issued' \in Tokens /\ live' \subseteq 1 .. issued' /\ revoked' \subseteq 1 .. issued'
    BY <1>3, BoundsAssumption DEF Exchanges, TokenTypes, Tokens
  <2>2. completion' \in [Completions -> CompletionStates]
    <3>1. issued' \in Hands
      BY <2>1 DEF Hands
    <3> QED
      BY <1>3, <3>1 DEF Exchanges, FlowTypes, CompletionStates, IdleCompletion
  <2>3. redeemed' \subseteq Flows
    BY <1>3, CompletionFields DEF Exchanges, FlowTypes
  <2>4. crossed' \in BOOLEAN
    BY <1>3, Zenon DEF Exchanges
  <2> QED
    BY <1>3, <2>1, <2>2, <2>3, <2>4
    DEF Exchanges, RowTypes, TokenTypes, CallTypes, FlowTypes, gates
<1>4. ASSUME NEW k \in Completions, StoresNew(k)
      PROVE  RowTypes' /\ TokenTypes' /\ CallTypes' /\ FlowTypes'
  <2>1. completion' \in [Completions -> CompletionStates]
    BY <1>4 DEF StoresNew, FlowTypes, CompletionStates, IdleCompletion, Hands
  <2>2. completion[k].hand \in Tokens
    BY <1>4, BoundsAssumption DEF StoresNew, HandsAreNew, Unspent, TokenTypes, Tokens
  <2> QED
    BY <1>4, <2>1, <2>2 DEF StoresNew, RowTypes, TokenTypes, CallTypes, FlowTypes, gates
<1>5. ASSUME NEW k \in Completions, Mints(k)
      PROVE  RowTypes' /\ TokenTypes' /\ CallTypes' /\ FlowTypes'
  <2>1. completion' \in [Completions -> CompletionStates]
    BY <1>5 DEF Mints, FlowTypes, CompletionStates, IdleCompletion, Hands
  <2>2. RowTypes'
    BY <1>5 DEF Mints, RowTypes
  <2> QED
    BY <1>5, <2>1, <2>2 DEF Mints, TokenTypes, CallTypes, FlowTypes, atAS, gates
<1>6. ASSUME NEW k \in Completions, CompletionFails(k)
      PROVE  RowTypes' /\ TokenTypes' /\ CallTypes' /\ FlowTypes'
  <2>1. completion' \in [Completions -> CompletionStates]
    BY <1>6 DEF CompletionFails, FlowTypes, CompletionStates
  <2>2. crossed' \in BOOLEAN
    BY <1>6, Zenon DEF CompletionFails
  <2> QED
    BY <1>6, <2>1, <2>2 DEF CompletionFails, RowTypes, TokenTypes, CallTypes, FlowTypes, atAS, gates
<1>7. ASSUME NEW k \in Completions, Finishes(k)
      PROVE  RowTypes' /\ TokenTypes' /\ CallTypes' /\ FlowTypes'
  <2>1. completion' \in [Completions -> CompletionStates] /\ sessions' \subseteq 1 .. flows'
    BY <1>7 DEF Finishes, FlowTypes, CompletionStates
  <2> QED
    BY <1>7, <2>1 DEF Finishes, RowTypes, TokenTypes, CallTypes, FlowTypes, atAS, gates
<1> QED
  BY <1>1, <1>2, <1>3, <1>4, <1>5, <1>6, <1>7, Zenon

LEMMA OtherStepTypes ==
  ASSUME TypeOK,
         \/ \E c \in Calls, e \in Executors : Begins(c, e)
         \/ Removes
         \/ \E t \in Tokens : Revokes(t)
         \/ \E e \in Executors : Crashes(e)
         \/ UNCHANGED vars
  PROVE  TypeOK'
<1> USE TypeParts
<1> SUFFICES RowTypes' /\ TokenTypes' /\ CallTypes' /\ FlowTypes'
  BY TypePartsNext
<1>1. ASSUME NEW c \in Calls, NEW e \in Executors, Begins(c, e)
      PROVE  RowTypes' /\ TokenTypes' /\ CallTypes' /\ FlowTypes'
  <2>1. row.dead \in BOOLEAN /\ NoToken \in Hands /\ "approving" \in BusyStages
    BY DEF RowTypes, Hands, BusyStages
  <2>2. [at |-> "approving", by |-> e, of |-> NoCall, dead |-> row.dead,
         retried |-> FALSE, read |-> NoToken, hand |-> NoToken] \in CallStates
    BY <2>1 DEF CallStates, BusyStates
  <2>3. CallTypes'
    BY <1>1, <2>2 DEF Begins, CallTypes, gates
  <2> QED
    BY <1>1, <2>3 DEF Begins, RowTypes, TokenTypes, FlowTypes, atAS, oauth
<1>2. CASE Removes
  BY <1>2 DEF Removes, RowTypes, TokenTypes, CallTypes, FlowTypes, atAS, gates, oauth
<1>3. ASSUME NEW t \in Tokens, Revokes(t)
      PROVE  RowTypes' /\ TokenTypes' /\ CallTypes' /\ FlowTypes'
  BY <1>3 DEF Revokes, RowTypes, TokenTypes, CallTypes, FlowTypes, gates, oauth
<1>4. ASSUME NEW e \in Executors, Crashes(e)
      PROVE  RowTypes' /\ TokenTypes' /\ CallTypes' /\ FlowTypes'
  <2>1. CallTypes'
    BY <1>4 DEF Crashes, CallTypes, CallStates
  <2>2. lost' \in BOOLEAN
    BY <1>4, Zenon DEF Crashes
  <2> QED
    BY <1>4, <2>1, <2>2 DEF Crashes, RowTypes, TokenTypes, FlowTypes, oauth
<1>5. CASE UNCHANGED vars
  BY <1>5 DEF vars, RowTypes, TokenTypes, CallTypes, FlowTypes, atAS, gates, oauth
<1> QED
  BY <1>1, <1>2, <1>3, <1>4, <1>5, Zenon

---------------------------------------------------------------------------
(* What the steps of a call do to it and to the others. *)

(* Whoever did not join the refresh that is over goes on as before.           *)
LEMMA SettlesEffect ==
  ASSUME CallTypes, NEW c \in Calls, NEW s \in BOOLEAN, Settles(c, s), NEW d \in Calls
  PROVE  /\ d = c \/ JoinedTo(c, d) =>
              /\ call'[d].at \in {"idle", "calling"} \cup Told
              /\ call'[d].read \in {call[d].read, NoToken}
         /\ d # c /\ ~JoinedTo(c, d) => call'[d] = call[d]
<1>1. call[d] = IdleCall \/ call[d] \in BusyStates
  BY DEF CallTypes, CallStates
<1>2. CASE d = c
  <2>1. call'[d] = IdleCall
          \/ call'[d] = [call[d] EXCEPT !.at = "calling", !.read = NoToken, !.hand = NoToken]
    BY <1>2, SettlesCases
  <2>2. call'[d].at \in {"idle", "calling"} /\ call'[d].read = NoToken
    <3>1. CASE call'[d] = IdleCall
      BY <3>1 DEF IdleCall
    <3>2. CASE call'[d] = [call[d] EXCEPT !.at = "calling", !.read = NoToken, !.hand = NoToken]
      BY <1>1, <3>2 DEF BusyStates, IdleCall
    <3> QED
      BY <2>1, <3>1, <3>2
  <2> QED
    BY <1>2, <2>2
<1>3. CASE JoinedTo(c, d)
  <2>1. call'[d] = ToldOf(d, s)
    BY <1>3, SettlesCases
  <2> QED
    BY <1>1, <1>3, <2>1 DEF ToldOf, Told, JoinedTo, BusyStates, IdleCall
<1>4. CASE d # c /\ ~JoinedTo(c, d)
  BY <1>4, SettlesCases
<1> QED
  BY <1>2, <1>3, <1>4

(* A call that joins, begins or gives up a refresh holds no token.            *)
LEMMA RefreshesEffect ==
  ASSUME CallTypes, NEW c \in Calls, call[c].at # "idle", NEW r \in BOOLEAN, Refreshes(c, r)
  PROVE  /\ \A d \in Calls \ {c} : call'[d] = call[d]
         /\ call'[c].at \in {"idle", "joined", "reading"}
         /\ call'[c].read \in {call[c].read, NoToken}
         /\ \/ call'[c].at = "joined" /\ call'[c].by = call[c].by
                /\ gate[call[c].by] # NoCall /\ call'[c].of = gate[call[c].by] /\ UNCHANGED gate
            \/ call'[c].at = "idle" /\ UNCHANGED gate
            \/ call'[c].at = "reading" /\ call'[c].by = call[c].by
                /\ gate[call[c].by] = NoCall /\ gate' = [gate EXCEPT ![call[c].by] = c]
<1>1. call[c] \in BusyStates
  BY CallFields
<1>2. \/ /\ call' = [call EXCEPT ![c].at = "joined", ![c].of = gate[call[c].by],
                                 ![c].dead = @ /\ ~r, ![c].retried = r]
         /\ gate[call[c].by] # NoCall /\ UNCHANGED gate
      \/ call' = [call EXCEPT ![c] = IdleCall] /\ UNCHANGED gate
      \/ /\ call' = [call EXCEPT ![c].at = "reading", ![c].retried = r]
         /\ gate[call[c].by] = NoCall /\ gate' = [gate EXCEPT ![call[c].by] = c]
  BY Zenon DEF Refreshes
<1> QED
  BY <1>1, <1>2 DEF CallTypes, BusyStates, IdleCall

(* A call that is unchanged, or now holds nothing of the server's.            *)
Rests(d) ==
  /\ call'[d].at \notin {"sent", "refused", "minted", "stored"}
  /\ call'[d].read \in {call[d].read, NoToken}
Quiet == \A d \in Calls : call'[d] = call[d] \/ Rests(d)

LEMMA SettlesIsQuiet ==
  ASSUME CallTypes, NEW c \in Calls, NEW s \in BOOLEAN, Settles(c, s)
  PROVE  Quiet
BY SettlesEffect DEF Quiet, Rests, Told

(* An interruption ends a refresh, or a call that runs none.                  *)
LEMMA InterruptedEffect ==
  ASSUME CallTypes, NEW c \in Calls, Interrupted(c)
  PROVE  \/ call[c].at \in Granting /\ Settles(c, FALSE)
         \/ /\ call[c].at \notin {"idle"} \cup Granting
            /\ call' = [call EXCEPT ![c] = IdleCall]
            /\ \/ call[c].at \in {"approving", "calling"} /\ UNCHANGED gates
               \/ call[c].at \in {"joined"} \cup Told /\ Deletes(c)
            /\ UNCHANGED lost
BY DEF Interrupted, Granting, Told, atAS

(* A call that leaves is told, and goes on or ends.                           *)
LEMMA LeavesEffect ==
  ASSUME CallTypes, NEW c \in Calls, Leaves(c)
  PROVE  /\ call[c].at \in Told
         /\ call'[c].at \in {"idle", "calling"}
         /\ call'[c].read \in {call[c].read, NoToken}
         /\ \A d \in Calls \ {c} : call'[d] = call[d]
<1>1. call[c].at \in Told
  BY DEF Leaves
<1>2. call[c] \in BusyStates /\ call \in [Calls -> CallStates]
  BY <1>1, CallFields DEF Told, CallTypes
<1>3. \/ call' = [call EXCEPT ![c] = [call[c] EXCEPT !.at = "calling"]]
      \/ call' = [call EXCEPT ![c] = IdleCall]
  BY Zenon DEF Leaves
<1> QED
  BY <1>1, <1>2, <1>3 DEF BusyStates, IdleCall

LEMMA QuietSteps ==
  ASSUME TypeOK,
         \/ \E c \in Calls :
              \/ Resolves(c) \/ Declined(c) \/ Answered(c) \/ Unauthorized(c) \/ Leaves(c)
              \/ GrantIsLost(c) \/ MarksDead(c) \/ RefreshFails(c) \/ StoreFails(c)
              \/ UpdatesRow(c) \/ Interrupted(c)
         \/ \E c \in Calls, e \in Executors : Begins(c, e)
         \/ \E e \in Executors : Crashes(e)
         \/ UNCHANGED call
  PROVE  Quiet
<1>0. CallTypes
  BY TypeParts
<1>1. ASSUME NEW c \in Calls, Resolves(c) \/ Unauthorized(c)
      PROVE  Quiet
  <2>1. call[c].at # "idle"
    BY <1>1 DEF Resolves, Unauthorized
  <2>2. CASE Refreshes(c, TRUE) \/ Refreshes(c, FALSE)
    BY <1>0, <2>1, <2>2, RefreshesEffect DEF Quiet, Rests
  <2>3. CASE call' = [call EXCEPT ![c].at = "calling"]
    BY <1>0, <2>1, <2>3, CallFields DEF Quiet, Rests, BusyStates, CallTypes
  <2> QED
    BY <1>1, <2>2, <2>3, Zenon DEF Resolves, Unauthorized
<1>2. ASSUME NEW c \in Calls, Declined(c) \/ Answered(c)
      PROVE  Quiet
  BY <1>0, <1>2 DEF Declined, Answered, Quiet, Rests, IdleCall, CallTypes
<1>3. ASSUME NEW c \in Calls,
             GrantIsLost(c) \/ MarksDead(c) \/ RefreshFails(c) \/ StoreFails(c) \/ UpdatesRow(c)
      PROVE  Quiet
  BY <1>0, <1>3, SettlesIsQuiet DEF GrantIsLost, MarksDead, RefreshFails, StoreFails, UpdatesRow
<1>4. ASSUME NEW c \in Calls, NEW e \in Executors, Begins(c, e)
      PROVE  Quiet
  BY <1>0, <1>4 DEF Begins, Quiet, Rests, CallTypes
<1>5. ASSUME NEW e \in Executors, Crashes(e)
      PROVE  Quiet
  BY <1>5 DEF Crashes, Quiet, Rests, IdleCall
<1>6. CASE UNCHANGED call
  BY <1>6 DEF Quiet
<1>7. ASSUME NEW c \in Calls, Leaves(c)
      PROVE  Quiet
  BY <1>0, <1>7, LeavesEffect DEF Quiet, Rests
<1>8. ASSUME NEW c \in Calls, Interrupted(c)
      PROVE  Quiet
  <2>1. CASE Settles(c, FALSE)
    BY <1>0, <2>1, SettlesIsQuiet
  <2>2. CASE call' = [call EXCEPT ![c] = IdleCall]
    BY <1>0, <2>2 DEF Quiet, Rests, IdleCall, CallTypes
  <2> QED
    BY <1>0, <1>8, <2>1, <2>2, InterruptedEffect
<1> QED
  BY <1>1, <1>2, <1>3, <1>4, <1>5, <1>6, <1>7, <1>8, Zenon

(* The steps at which a call gets, uses or stores a token change no other.    *)
LEMMA MoveEffect ==
  ASSUME TypeOK, NEW c \in Calls, ReadsToken(c) \/ Grants(c) \/ Refuses(c) \/ Stores(c)
  PROVE  /\ \A d \in Calls \ {c} : call'[d] = call[d]
         /\ call[c].at \in Granting
         /\ call'[c].at \in Granting
         /\ call'[c].by = call[c].by
         /\ ReadsToken(c) => call'[c].at = "sent" /\ call'[c].read = item
         /\ Grants(c) => call'[c].at = "minted" /\ call'[c].read = call[c].read
                          /\ call'[c].hand = issued'
         /\ Refuses(c) => call'[c].at = "refused" /\ call'[c].read = NoToken
         /\ Stores(c) => call'[c].at = "stored" /\ call'[c].read = NoToken
<1>1. call[c].at \in Granting /\ call[c].at # "idle"
  BY DEF ReadsToken, Grants, Refuses, Stores, Granting
<1>2. call[c] \in BusyStates /\ call \in [Calls -> CallStates]
  BY <1>1, TypeParts, CallFields DEF CallTypes
<1>3. CASE ReadsToken(c)
  BY <1>1, <1>2, <1>3 DEF ReadsToken, Grants, Refuses, Stores, BusyStates, Granting
<1>4. CASE Grants(c)
  BY <1>1, <1>2, <1>4 DEF ReadsToken, Grants, Refuses, Stores, BusyStates, Granting
<1>5. CASE Refuses(c)
  BY <1>1, <1>2, <1>5 DEF ReadsToken, Grants, Refuses, Stores, BusyStates, Granting
<1>6. CASE Stores(c)
  BY <1>1, <1>2, <1>6 DEF ReadsToken, Grants, Refuses, Stores, BusyStates, Granting
<1> QED
  BY <1>3, <1>4, <1>5, <1>6, Zenon

---------------------------------------------------------------------------
(* Tokens in hand stay new. *)

LEMMA Numbers ==
  ASSUME TypeOK
  PROVE  /\ item \in Nat \ {0} /\ issued \in Nat
         /\ \A t \in Unspent : t \in Nat \ {0} /\ t <= issued
         /\ \A c \in Calls : call[c].read \in Nat /\ call[c].hand \in Nat
BY TypeParts, CallFields, BoundsAssumption DEF TokenTypes, Unspent, Tokens, Hands, NoToken

(* Nobody's token leaves the server but one that is stored or was read.       *)
LEMMA HandsStay ==
  ASSUME TypeOK, HandsAreNew, Quiet,
         UNCHANGED <<item, issued>>,
         NEW t, t = item \/ (\E c \in Calls : call[c].read = t), Unspent \ {t} \subseteq Unspent',
         \A k \in Completions : completion'[k].at = "exchanged" =>
           completion'[k] = completion[k]
  PROVE  HandsAreNew'
<1>0. NoToken = 0
  BY DEF NoToken
<1>1. \A c \in Calls : call'[c].at = "minted" => call'[c] = call[c]
  BY DEF Quiet, Rests
<1>2. \A c \in Calls : call'[c].read \in {call[c].read, NoToken}
  BY DEF Quiet, Rests
<1>3. ASSUME NEW h, h \in Unspent, h # item, \A c \in Calls : call[c].read # h
      PROVE  h \in Unspent' /\ h # item' /\ \A c \in Calls : call'[c].read # h
  BY <1>0, <1>2, <1>3, Numbers
<1>4. \A c \in Calls : call'[c].read <= issued'
  BY <1>0, <1>2, Numbers DEF HandsAreNew, Unspent
<1> QED
  BY <1>1, <1>3, <1>4 DEF HandsAreNew

LEMMA HandsStep ==
  ASSUME TypeOK, HandsAreNew, [Next]_vars
  PROVE  HandsAreNew'
<1>1. ASSUME NEW c \in Calls,
             \/ Resolves(c) \/ Declined(c) \/ Answered(c) \/ Unauthorized(c) \/ Leaves(c)
             \/ Interrupted(c)
      PROVE  HandsAreNew'
  <2>1. UNCHANGED <<item, live, revoked, issued, completion>>
    BY <1>1 DEF Resolves, Declined, Answered, Unauthorized, Leaves, Interrupted, atAS, oauth
  <2>2. Quiet
    BY <1>1, QuietSteps
  <2> QED
    BY <2>1, <2>2, HandsStay DEF Unspent
<1>2. ASSUME NEW c \in Calls, GrantIsLost(c)
      PROVE  HandsAreNew'
  <2>1. UNCHANGED <<item, issued, revoked, completion>> /\ live' = live \ {call[c].read}
    BY <1>2 DEF GrantIsLost, oauth
  <2>2. Quiet
    BY <1>2, QuietSteps
  <2> QED
    BY <2>1, <2>2, HandsStay DEF Unspent
<1>3. ASSUME NEW c \in Calls, MarksDead(c) \/ RefreshFails(c) \/ StoreFails(c) \/ UpdatesRow(c)
      PROVE  HandsAreNew'
  <2>1. UNCHANGED <<item, issued, live, revoked, completion>>
    BY <1>3 DEF MarksDead, RefreshFails, StoreFails, UpdatesRow, atAS, oauth
  <2>2. Quiet
    BY <1>3, QuietSteps
  <2> QED
    BY <2>1, <2>2, HandsStay DEF Unspent
<1>4. ASSUME NEW c \in Calls, ReadsToken(c)
      PROVE  HandsAreNew'
  <2>1. UNCHANGED <<item, issued, live, revoked, completion>>
    BY <1>4 DEF ReadsToken, atAS, oauth
  <2>2. /\ \A d \in Calls \ {c} : call'[d] = call[d]
        /\ call'[c].at = "sent" /\ call'[c].read = item
    BY <1>4, MoveEffect
  <2> QED
    BY <2>1, <2>2 DEF HandsAreNew, Unspent
<1>5. ASSUME NEW c \in Calls, Grants(c)
      PROVE  HandsAreNew'
  <2>1. /\ UNCHANGED <<item, revoked, completion>> /\ issued' = issued + 1
        /\ live' = (live \ {call[c].read}) \cup {issued'}
    BY <1>5 DEF Grants, oauth
  <2>2. /\ \A d \in Calls \ {c} : call'[d] = call[d]
        /\ call'[c].at = "minted" /\ call'[c].read = call[c].read /\ call'[c].hand = issued'
    BY <1>5, MoveEffect
  <2>3. call[c].at = "sent"
    BY <1>5 DEF Grants
  <2>4. /\ item < issued' /\ \A t \in Unspent : t < issued'
        /\ \A d \in Calls : call[d].read < issued'
    BY <2>1, Numbers DEF HandsAreNew
  <2>5. /\ item <= issued' /\ item # issued' /\ \A t \in Unspent : t # issued'
        /\ \A d \in Calls : call'[d].read <= issued' /\ call'[d].read # issued'
    BY <2>1, <2>2, <2>4, Numbers
  <2>6. \A d \in Calls : call'[d].at = "minted" =>
          d = c \/ (call[d].at = "minted" /\ call'[d].hand = call[d].hand /\ call[d].hand # issued')
    BY <2>2, <2>5 DEF HandsAreNew
  <2> QED
    BY <2>1, <2>2, <2>3, <2>5, <2>6 DEF HandsAreNew, Unspent
<1>6. ASSUME NEW c \in Calls, Refuses(c)
      PROVE  HandsAreNew'
  <2>1. UNCHANGED <<item, issued, live, revoked, completion>>
    BY <1>6 DEF Refuses, atAS, oauth
  <2>2. /\ \A d \in Calls \ {c} : call'[d] = call[d]
        /\ call'[c].at = "refused" /\ call'[c].read = NoToken
    BY <1>6, MoveEffect
  <2> QED
    BY <2>1, <2>2, Numbers DEF HandsAreNew, Unspent, NoToken
<1>7. ASSUME NEW c \in Calls, Stores(c)
      PROVE  HandsAreNew'
  <2>1. UNCHANGED <<issued, live, revoked, completion>> /\ item' = call[c].hand /\ call[c].at = "minted"
    BY <1>7 DEF Stores, oauth
  <2>2. /\ \A d \in Calls \ {c} : call'[d] = call[d]
        /\ call'[c].at = "stored" /\ call'[c].read = NoToken
    BY <1>7, MoveEffect
  <2> QED
    BY <2>1, <2>2, Numbers DEF HandsAreNew, Unspent, NoToken
<1>8. CASE StartsFlow \/ Removes
  <2>1. UNCHANGED <<item, issued, live, revoked, completion, call>>
    BY <1>8 DEF StartsFlow, Removes, atAS, oauth
  <2> QED
    BY <2>1 DEF HandsAreNew, Unspent
<1>9. ASSUME NEW t \in Tokens, Revokes(t)
      PROVE  HandsAreNew'
  <2>1. UNCHANGED <<item, issued, completion, call>> /\ Unspent' = Unspent
    BY <1>9 DEF Revokes, oauth, Unspent
  <2> QED
    BY <2>1 DEF HandsAreNew
<1>10. ASSUME NEW k \in Completions, NEW f \in Flows, Completes(k, f)
       PROVE  HandsAreNew'
  <2>1. UNCHANGED <<item, issued, live, revoked, call>>
    BY <1>10 DEF Completes, atAS
  <2>2. /\ \A j \in Completions \ {k} : completion'[j] = completion[j]
        /\ completion'[k].at = "found"
    BY <1>10, TypeParts DEF Completes, FlowTypes
  <2> QED
    BY <2>1, <2>2 DEF HandsAreNew, Unspent
<1>11. ASSUME NEW k \in Completions, Exchanges(k)
       PROVE  HandsAreNew'
  <2>1. /\ UNCHANGED <<item, revoked, call>> /\ issued' = issued + 1
        /\ live' = live \cup {issued'}
    BY <1>11 DEF Exchanges
  <2>2. /\ \A j \in Completions \ {k} : completion'[j] = completion[j]
        /\ completion'[k].at = "exchanged" /\ completion'[k].hand = issued'
    BY <1>11, TypeParts DEF Exchanges, FlowTypes, CompletionStates, IdleCompletion
  <2>3. /\ item <= issued' /\ item # issued' /\ \A t \in Unspent : t # issued'
        /\ \A d \in Calls : call[d].read <= issued' /\ call[d].read # issued'
    BY <2>1, Numbers DEF HandsAreNew
  <2> QED
    BY <2>1, <2>2, <2>3 DEF HandsAreNew, Unspent
<1>12. ASSUME NEW k \in Completions, StoresNew(k)
       PROVE  HandsAreNew'
  <2>1. /\ UNCHANGED <<issued, live, revoked, call>> /\ item' = completion[k].hand
        /\ completion[k].at = "exchanged"
    BY <1>12 DEF StoresNew
  <2>2. /\ \A j \in Completions \ {k} : completion'[j] = completion[j]
        /\ completion'[k].at = "stored"
    BY <1>12, TypeParts DEF StoresNew, FlowTypes, CompletionStates, IdleCompletion
  <2> QED
    BY <2>1, <2>2, Numbers DEF HandsAreNew, Unspent
<1>13. ASSUME NEW k \in Completions, Mints(k) \/ Finishes(k) \/ CompletionFails(k)
       PROVE  HandsAreNew'
  <2>1. UNCHANGED <<item, issued, live, revoked, call>>
    BY <1>13 DEF Mints, Finishes, CompletionFails, atAS
  <2>2. /\ \A j \in Completions \ {k} : completion'[j] = completion[j]
        /\ completion'[k].at \in {"minted", "idle"}
    BY <1>13, TypeParts
    DEF Mints, Finishes, CompletionFails, FlowTypes, CompletionStates, IdleCompletion
  <2> QED
    BY <2>1, <2>2 DEF HandsAreNew, Unspent
<1>14. ASSUME NEW c \in Calls, NEW e \in Executors, Begins(c, e)
       PROVE  HandsAreNew'
  <2>1. UNCHANGED <<item, issued, live, revoked, completion>>
    BY <1>14 DEF Begins, atAS, oauth
  <2>2. Quiet
    BY <1>14, QuietSteps
  <2> QED
    BY <2>1, <2>2, HandsStay DEF Unspent
<1>15. ASSUME NEW e \in Executors, Crashes(e)
       PROVE  HandsAreNew'
  <2>1. UNCHANGED <<item, issued, live, revoked, completion>>
    BY <1>15 DEF Crashes, oauth
  <2>2. Quiet
    BY <1>15, QuietSteps
  <2> QED
    BY <2>1, <2>2, HandsStay DEF Unspent
<1>16. CASE UNCHANGED vars
  BY <1>16 DEF vars, atAS, oauth, HandsAreNew, Unspent
<1> QED
  BY <1>1, <1>2, <1>3, <1>4, <1>5, <1>6, <1>7, <1>8, <1>9, <1>10, <1>11, <1>12, <1>13, <1>14,
     <1>15, <1>16, Zenon DEF Next, Proceeds

---------------------------------------------------------------------------
(* The gate and the refreshes. *)

(* The parts of GateHoldsTheGrant.                                            *)
HeldOrOpened == \A c \in Refreshing : gate[call[c].by] = c \/ c \in opened
EntryRuns ==
  \A e \in Executors : gate[e] # NoCall =>
    gate[e] \in Refreshing \ opened /\ call[gate[e]].by = e
JoinedRuns ==
  \A c \in Calls : call[c].at = "joined" =>
    call[c].of \in Refreshing /\ call[call[c].of].by = call[c].by

LEMMA GateParts ==
  GateHoldsTheGrant <=> HeldOrOpened /\ EntryRuns /\ JoinedRuns /\ opened \subseteq Refreshing
BY Zenon DEF GateHoldsTheGrant, HeldOrOpened, EntryRuns, JoinedRuns

LEMMA GatePartsNext ==
  GateHoldsTheGrant' <=>
    HeldOrOpened' /\ EntryRuns' /\ JoinedRuns' /\ opened' \subseteq Refreshing'
BY Zenon DEF GateHoldsTheGrant, HeldOrOpened, EntryRuns, JoinedRuns

(* Steps that neither begin nor end a refresh, nor join one.                  *)
LEMMA GateStays ==
  ASSUME GateHoldsTheGrant, UNCHANGED gates,
         \A c \in Calls :
           /\ (call'[c].at \in Granting) <=> (call[c].at \in Granting)
           /\ call[c].at \in Granting => call'[c].by = call[c].by
           /\ call'[c].at = "joined" => call'[c] = call[c]
  PROVE  GateHoldsTheGrant'
<1>1. Refreshing' = Refreshing /\ \A c \in Refreshing : call'[c].by = call[c].by
  BY DEF Refreshing
<1>2. gate' = gate /\ opened' = opened
  BY DEF gates
<1> QED
  BY <1>1, <1>2 DEF GateHoldsTheGrant

(* A step after which c runs no refresh, waits for none and is waited for by  *)
(* none, and which deletes the entry of its executor.                         *)
LEMMA DeletesGate ==
  ASSUME TypeOK, GateHoldsTheGrant, NEW c \in Calls, call[c].by \in Executors, Deletes(c),
         call'[c].at \notin Granting \cup {"joined"},
         \A d \in Calls \ {c} : call'[d].at \in Granting \cup {"joined"} => call'[d] = call[d],
         \A d \in Refreshing \ {c} : call'[d] = call[d],
         \A d \in Calls : call'[d].at = "joined" => call[d].of # c
  PROVE  GateHoldsTheGrant'
<1> DEFINE e == call[c].by
<1>0. gate \in [Executors -> Calls \cup {NoCall}] /\ e \in Executors
  BY TypeParts DEF CallTypes
<1>1. /\ gate' = [gate EXCEPT ![e] = NoCall]
      /\ opened' = (opened \cup {gate[e]}) \ {c, NoCall}
  BY DEF Deletes
<1>2. Refreshing' = Refreshing \ {c}
  BY DEF Refreshing
<1>3. \A d \in Refreshing' : call'[d] = call[d]
  BY <1>2
<1> HIDE DEF e
<1>4. HeldOrOpened'
  <2> SUFFICES ASSUME NEW d \in Refreshing'
               PROVE  gate'[call'[d].by] = d \/ d \in opened'
    BY DEF HeldOrOpened
  <2>1. d \in Refreshing /\ d # c /\ call'[d].by = call[d].by /\ d \in Calls
    BY <1>2, <1>3 DEF Refreshing
  <2>2. gate[call[d].by] = d \/ d \in opened
    BY <2>1, GateParts DEF HeldOrOpened
  <2>3. d # NoCall /\ call[d].by \in Executors
    BY <2>1, TypeParts, CallFields, NamesAssumption DEF Refreshing, Granting
  <2> QED
    BY <1>0, <1>1, <2>1, <2>2, <2>3
<1>5. EntryRuns'
  <2> SUFFICES ASSUME NEW f \in Executors, gate'[f] # NoCall
               PROVE  gate'[f] \in Refreshing' \ opened' /\ call'[gate'[f]].by = f
    BY DEF EntryRuns
  <2>1. f # e /\ gate'[f] = gate[f]
    BY <1>0, <1>1
  <2>2. gate[f] \in Refreshing \ opened /\ call[gate[f]].by = f
    BY <2>1, GateParts DEF EntryRuns
  <2>3. gate[f] # c
    BY <2>1, <2>2 DEF e
  <2>4. gate[f] # gate[e]
    <3>1. gate[e] # NoCall => call[gate[e]].by = e
      BY <1>0, GateParts DEF EntryRuns
    <3> QED
      BY <2>1, <2>2, <3>1
  <2> QED
    BY <1>1, <1>2, <1>3, <2>1, <2>2, <2>3, <2>4
<1>6. JoinedRuns'
  <2> SUFFICES ASSUME NEW d \in Calls, call'[d].at = "joined"
               PROVE  call'[d].of \in Refreshing' /\ call'[call'[d].of].by = call'[d].by
    BY DEF JoinedRuns
  <2>1. call'[d] = call[d]
    OBVIOUS
  <2>2. call[d].of \in Refreshing /\ call[d].of # c /\ call[call[d].of].by = call[d].by
    BY <2>1, GateParts DEF JoinedRuns
  <2> QED
    BY <1>2, <1>3, <2>1, <2>2
<1>7. opened' \subseteq Refreshing'
  <2>1. opened \subseteq Refreshing
    BY GateParts
  <2>2. gate[e] # NoCall => gate[e] \in Refreshing
    BY <1>0, GateParts DEF EntryRuns
  <2> QED
    BY <1>1, <1>2, <2>1, <2>2
<1> QED
  BY <1>4, <1>5, <1>6, <1>7, GatePartsNext

LEMMA RefreshesGate ==
  ASSUME TypeOK, GateHoldsTheGrant, NEW c \in Calls, call[c].at \in {"approving", "calling"},
         NEW r \in BOOLEAN, Refreshes(c, r), UNCHANGED opened
  PROVE  GateHoldsTheGrant'
<1>0. CallTypes /\ call[c].by \in Executors
  BY TypeParts, CallFields
<1>1. /\ \A d \in Calls \ {c} : call'[d] = call[d]
      /\ \/ call'[c].at = "joined" /\ call'[c].by = call[c].by
             /\ gate[call[c].by] # NoCall /\ call'[c].of = gate[call[c].by] /\ UNCHANGED gate
         \/ call'[c].at = "idle" /\ UNCHANGED gate
         \/ call'[c].at = "reading" /\ call'[c].by = call[c].by
             /\ gate[call[c].by] = NoCall /\ gate' = [gate EXCEPT ![call[c].by] = c]
  BY <1>0, RefreshesEffect
<1>2. c \notin Refreshing /\ c \notin opened
  BY GateParts DEF Refreshing, Granting
<1>3. \A d \in Refreshing : d # c /\ call'[d] = call[d]
  BY <1>1, <1>2 DEF Refreshing
<1>4. Refreshing \subseteq Refreshing' /\ Refreshing' \subseteq Refreshing \cup {c}
  BY <1>1, <1>3 DEF Refreshing
<1>5. \A d \in Calls \ {c} : call'[d].at = "joined" =>
        call'[d].of \in Refreshing' /\ call'[call'[d].of].by = call'[d].by
  BY <1>1, <1>3, <1>4, GateParts DEF JoinedRuns
<1>6. CASE /\ call'[c].at = "joined" /\ call'[c].by = call[c].by
           /\ gate[call[c].by] # NoCall /\ call'[c].of = gate[call[c].by] /\ UNCHANGED gate
  <2>1. Refreshing' = Refreshing
    BY <1>4, <1>6 DEF Refreshing, Granting
  <2>2. HeldOrOpened' /\ EntryRuns'
    BY <1>3, <1>6, <2>1, GateParts DEF HeldOrOpened, EntryRuns
  <2>3. gate[call[c].by] \in Refreshing /\ call[gate[call[c].by]].by = call[c].by
    BY <1>0, <1>6, GateParts DEF EntryRuns
  <2>4. JoinedRuns'
    BY <1>3, <1>5, <1>6, <2>1, <2>3 DEF JoinedRuns
  <2> QED
    BY <2>1, <2>2, <2>4, GateParts, GatePartsNext
<1>7. CASE call'[c].at = "idle" /\ UNCHANGED gate
  <2>1. Refreshing' = Refreshing
    BY <1>4, <1>7 DEF Refreshing, Granting
  <2>2. HeldOrOpened' /\ EntryRuns'
    BY <1>3, <1>7, <2>1, GateParts DEF HeldOrOpened, EntryRuns
  <2>3. JoinedRuns'
    BY <1>5, <1>7 DEF JoinedRuns
  <2> QED
    BY <2>1, <2>2, <2>3, GateParts, GatePartsNext
<1>8. CASE /\ call'[c].at = "reading" /\ call'[c].by = call[c].by
           /\ gate[call[c].by] = NoCall /\ gate' = [gate EXCEPT ![call[c].by] = c]
  <2>1. Refreshing' = Refreshing \cup {c}
    BY <1>4, <1>8 DEF Refreshing, Granting
  <2>2. HeldOrOpened'
    <3> SUFFICES ASSUME NEW d \in Refreshing'
                 PROVE  gate'[call'[d].by] = d \/ d \in opened'
      BY DEF HeldOrOpened
    <3>1. CASE d = c
      BY <1>0, <1>8, <3>1 DEF CallTypes
    <3>2. CASE d # c
      <4>1. d \in Refreshing /\ d \in Calls /\ call'[d] = call[d]
        BY <1>3, <2>1, <3>2 DEF Refreshing
      <4>2. gate[call[d].by] = d \/ d \in opened
        BY <4>1, GateParts DEF HeldOrOpened
      <4>3. d # NoCall
        BY <4>1, NamesAssumption
      <4>4. call[d].by \in Executors
        BY <1>0, <4>1, CallFields DEF Refreshing, Granting
      <4> QED
        BY <1>0, <1>8, <4>1, <4>2, <4>3, <4>4 DEF CallTypes
    <3> QED
      BY <3>1, <3>2
  <2>3. EntryRuns'
    <3> SUFFICES ASSUME NEW f \in Executors, gate'[f] # NoCall
                 PROVE  gate'[f] \in Refreshing' \ opened' /\ call'[gate'[f]].by = f
      BY DEF EntryRuns
    <3>1. CASE f = call[c].by
      BY <1>0, <1>2, <1>8, <2>1, <3>1 DEF CallTypes
    <3>2. CASE f # call[c].by
      <4>1. gate'[f] = gate[f]
        BY <1>0, <1>8, <3>2 DEF CallTypes
      <4>2. gate[f] \in Refreshing \ opened /\ call[gate[f]].by = f
        BY <4>1, GateParts DEF EntryRuns
      <4> QED
        BY <1>3, <2>1, <4>1, <4>2
    <3> QED
      BY <3>1, <3>2
  <2>4. JoinedRuns'
    BY <1>5, <1>8 DEF JoinedRuns
  <2> QED
    BY <2>1, <2>2, <2>3, <2>4, GateParts, GatePartsNext
<1> QED
  BY <1>1, <1>6, <1>7, <1>8

LEMMA SettlesGate ==
  ASSUME TypeOK, GateHoldsTheGrant, NEW c \in Calls, call[c].at \in Granting,
         NEW s \in BOOLEAN, Settles(c, s)
  PROVE  GateHoldsTheGrant'
<1>0. CallTypes /\ call[c].by \in Executors
  BY TypeParts, CallFields DEF Granting
<1>1. \A d \in Calls :
        /\ d = c \/ JoinedTo(c, d) => call'[d].at \notin Granting \cup {"joined"}
        /\ d # c /\ ~JoinedTo(c, d) => call'[d] = call[d]
  BY <1>0, SettlesEffect DEF Granting, Told
<1>2. \A d \in Refreshing \ {c} : call'[d] = call[d]
  BY <1>1 DEF Refreshing, Granting, JoinedTo
<1>3. \A d \in Calls : call'[d].at = "joined" => call[d].of # c
  BY <1>1 DEF JoinedTo
<1>4. Deletes(c)
  BY DEF Settles
<1> QED
  BY <1>0, <1>1, <1>2, <1>3, <1>4, DeletesGate

(* Nobody waits for a call that runs no refresh.                              *)
LEMMA LeaverGate ==
  ASSUME TypeOK, GateHoldsTheGrant, NEW c \in Calls, call[c].at \notin {"idle"} \cup Granting,
         Deletes(c), call'[c].at \in {"idle", "calling"},
         \A d \in Calls \ {c} : call'[d] = call[d]
  PROVE  GateHoldsTheGrant'
<1>1. call[c].by \in Executors
  BY TypeParts, CallFields
<1>2. \A d \in Calls : call'[d].at = "joined" => call[d].of # c
  BY GateParts DEF JoinedRuns, Refreshing
<1>3. call'[c].at \notin Granting \cup {"joined"}
  BY DEF Granting
<1>4. \A d \in Refreshing \ {c} : call'[d] = call[d]
  BY DEF Refreshing
<1> QED
  BY <1>1, <1>2, <1>3, <1>4, DeletesGate

LEMMA GateStep ==
  ASSUME TypeOK, GateHoldsTheGrant, [Next]_vars
  PROVE  GateHoldsTheGrant'
<1>0. CallTypes
  BY TypeParts
<1>1. ASSUME NEW c \in Calls, call[c].at \notin Granting, UNCHANGED gates,
             call'[c].at \notin Granting \cup {"joined"},
             \A d \in Calls \ {c} : call'[d] = call[d]
      PROVE  GateHoldsTheGrant'
  BY <1>1, GateStays
<1>2. ASSUME NEW c \in Calls, Resolves(c) \/ Unauthorized(c)
      PROVE  GateHoldsTheGrant'
  <2>1. call[c].at \in {"approving", "calling"} /\ UNCHANGED opened
    BY <1>2 DEF Resolves, Unauthorized
  <2>2. CASE Refreshes(c, TRUE) \/ Refreshes(c, FALSE)
    BY <2>1, <2>2, RefreshesGate
  <2>3. CASE call' = [call EXCEPT ![c].at = "calling"] /\ UNCHANGED gate
    <3>1. /\ \A d \in Calls \ {c} : call'[d] = call[d]
          /\ call'[c].at = "calling"
      BY <1>0, <2>1, <2>3, CallFields DEF CallTypes, BusyStates
    <3> QED
      BY <1>1, <2>1, <2>3, <3>1 DEF Granting, gates
  <2> QED
    BY <1>2, <2>2, <2>3, Zenon DEF Resolves, Unauthorized
<1>3. ASSUME NEW c \in Calls, Declined(c) \/ Answered(c)
      PROVE  GateHoldsTheGrant'
  <2>1. /\ \A d \in Calls \ {c} : call'[d] = call[d]
        /\ call'[c].at = "idle" /\ call[c].at \in {"approving", "calling"} /\ UNCHANGED gates
    BY <1>0, <1>3 DEF Declined, Answered, CallTypes, IdleCall
  <2> QED
    BY <1>1, <2>1 DEF Granting
<1>4. ASSUME NEW c \in Calls,
             GrantIsLost(c) \/ MarksDead(c) \/ RefreshFails(c) \/ StoreFails(c) \/ UpdatesRow(c)
      PROVE  GateHoldsTheGrant'
  <2>1. call[c].at \in Granting /\ (Settles(c, TRUE) \/ Settles(c, FALSE))
    BY <1>4 DEF GrantIsLost, MarksDead, RefreshFails, StoreFails, UpdatesRow, Granting
  <2> QED
    BY <2>1, SettlesGate
<1>5. ASSUME NEW c \in Calls, ReadsToken(c) \/ Grants(c) \/ Refuses(c) \/ Stores(c)
      PROVE  GateHoldsTheGrant'
  <2>1. UNCHANGED gates
    BY <1>5 DEF ReadsToken, Grants, Refuses, Stores
  <2>2. /\ \A d \in Calls \ {c} : call'[d] = call[d]
        /\ call[c].at \in Granting /\ call'[c].at \in Granting /\ call'[c].by = call[c].by
    BY <1>5, MoveEffect
  <2> QED
    BY <2>1, <2>2, GateStays DEF Granting
<1>6. ASSUME NEW c \in Calls, Leaves(c)
      PROVE  GateHoldsTheGrant'
  <2>1. Deletes(c) /\ call[c].at \notin {"idle"} \cup Granting
    BY <1>6 DEF Leaves, Told, Granting
  <2> QED
    BY <1>0, <1>6, <2>1, LeavesEffect, LeaverGate
<1>7. ASSUME NEW c \in Calls, Interrupted(c)
      PROVE  GateHoldsTheGrant'
  <2>1. CASE call[c].at \in Granting /\ Settles(c, FALSE)
    BY <2>1, SettlesGate
  <2>2. CASE call[c].at \notin {"idle"} \cup Granting /\ call' = [call EXCEPT ![c] = IdleCall]
    <3>1. call'[c].at = "idle" /\ \A d \in Calls \ {c} : call'[d] = call[d]
      BY <1>0, <2>2 DEF CallTypes, IdleCall
    <3>2. UNCHANGED gates \/ Deletes(c)
      BY <1>0, <1>7, <2>2, InterruptedEffect
    <3> QED
      BY <1>1, <2>2, <3>1, <3>2, LeaverGate DEF Granting
  <2> QED
    BY <1>0, <1>7, <2>1, <2>2, InterruptedEffect
<1>8. ASSUME NEW c \in Calls, NEW e \in Executors, Begins(c, e)
      PROVE  GateHoldsTheGrant'
  <2>1. /\ \A d \in Calls \ {c} : call'[d] = call[d]
        /\ call'[c].at = "approving" /\ call[c].at = "idle" /\ UNCHANGED gates
    BY <1>0, <1>8 DEF Begins, CallTypes, IdleCall
  <2> QED
    BY <1>1, <2>1 DEF Granting
<1>9. ASSUME NEW e \in Executors, Crashes(e)
      PROVE  GateHoldsTheGrant'
  <2>1. /\ gate' = [gate EXCEPT ![e] = NoCall]
        /\ opened' = {d \in opened : call[d].by # e}
    BY <1>9 DEF Crashes
  <2>2. \A d \in Calls :
          IF call[d].by = e THEN call'[d].at = "idle" ELSE call'[d] = call[d]
    BY <1>9 DEF Crashes, IdleCall
  <2>3. Refreshing' = {d \in Refreshing : call[d].by # e}
    BY <2>2 DEF Refreshing, Granting
  <2>4. \A d \in Refreshing' : call'[d] = call[d] /\ d \in Refreshing /\ call[d].by # e
    BY <2>2, <2>3 DEF Refreshing
  <2>5. \A d \in Calls : call'[d].at = "joined" => call'[d] = call[d] /\ call[d].by # e
    BY <2>2
  <2>6. \A f \in Executors : gate'[f] # NoCall => f # e /\ gate'[f] = gate[f]
    BY <2>1, <1>0 DEF CallTypes
  <2>7. \A d \in Refreshing : call[d].by \in Executors
    BY <1>0, CallFields DEF Refreshing, Granting
  <2>8. HeldOrOpened'
    BY <1>0, <2>1, <2>4, <2>7, GateParts DEF HeldOrOpened, CallTypes
  <2>9. EntryRuns'
    BY <2>1, <2>3, <2>4, <2>6, GateParts DEF EntryRuns
  <2>10. JoinedRuns'
    BY <2>3, <2>4, <2>5, GateParts DEF JoinedRuns
  <2>11. opened' \subseteq Refreshing'
    BY <2>1, <2>3, GateParts
  <2> QED
    BY <2>8, <2>9, <2>10, <2>11, GatePartsNext
<1>10. CASE UNCHANGED <<call, gates>>
  BY <1>10 DEF GateHoldsTheGrant, Refreshing, gates
<1>11. ASSUME NEW k \in Completions, NEW f \in Flows, Completes(k, f)
      PROVE  GateHoldsTheGrant'
  BY <1>10, <1>11 DEF Completes
<1>12. ASSUME NEW k \in Completions,
             Exchanges(k) \/ StoresNew(k) \/ Mints(k) \/ Finishes(k) \/ CompletionFails(k)
      PROVE  GateHoldsTheGrant'
  BY <1>10, <1>12 DEF Exchanges, StoresNew, Mints, Finishes, CompletionFails
<1>13. CASE StartsFlow \/ Removes \/ (\E t \in Tokens : Revokes(t)) \/ UNCHANGED vars
  BY <1>10, <1>13 DEF StartsFlow, Removes, Revokes, vars, gates
<1> QED
  BY <1>2, <1>3, <1>4, <1>5, <1>6, <1>7, <1>8, <1>9, <1>11, <1>12, <1>13, Zenon
  DEF Next, Proceeds

---------------------------------------------------------------------------
(* The stored token. *)

LEMMA GoodStep ==
  ASSUME TypeOK, HandsAreNew, StoredTokenIsGood, [Next]_vars
  PROVE  StoredTokenIsGood'
<1>0. CallTypes
  BY TypeParts
<1>1. ASSUME NEW c \in Calls, call[c].at # "minted",
             UNCHANGED <<item, live, revoked, lost>>, Settles(c, TRUE) \/ Settles(c, FALSE)
      PROVE  StoredTokenIsGood'
  <2>1. \A d \in Calls : call[d].at = "minted" => call'[d] = call[d]
    BY <1>0, <1>1, SettlesEffect DEF JoinedTo
  <2> QED
    BY <1>1, <2>1 DEF StoredTokenIsGood
<1>2. ASSUME NEW c \in Calls, call[c].at # "minted", UNCHANGED <<item, live, revoked, lost>>,
             \A d \in Calls \ {c} : call'[d] = call[d]
      PROVE  StoredTokenIsGood'
  BY <1>2 DEF StoredTokenIsGood
<1>3. ASSUME UNCHANGED <<item, lost, call>>, Unspent \subseteq Unspent'
      PROVE  StoredTokenIsGood'
  BY <1>3 DEF StoredTokenIsGood, Unspent
<1>4. ASSUME NEW c \in Calls, Resolves(c) \/ Declined(c) \/ Answered(c) \/ Unauthorized(c)
      PROVE  StoredTokenIsGood'
  <2>1. call[c].at \in {"approving", "calling"} /\ UNCHANGED <<item, live, revoked, lost>>
    BY <1>4 DEF Resolves, Declined, Answered, Unauthorized, atAS
  <2>2. \A d \in Calls \ {c} : call'[d] = call[d]
    BY <1>0, <1>4, <2>1, RefreshesEffect DEF Resolves, Declined, Answered, Unauthorized, CallTypes
  <2> QED
    BY <1>2, <2>1, <2>2
<1>5. ASSUME NEW c \in Calls, ReadsToken(c) \/ Refuses(c)
      PROVE  StoredTokenIsGood'
  <2>1. call[c].at # "minted" /\ UNCHANGED <<item, live, revoked, lost>>
    BY <1>5 DEF ReadsToken, Refuses, atAS
  <2> QED
    BY <1>2, <1>5, <2>1, MoveEffect
<1>6. ASSUME NEW c \in Calls, Grants(c)
      PROVE  StoredTokenIsGood'
  <2>1. /\ call[c].at = "sent" /\ UNCHANGED <<item, revoked, lost>>
        /\ live' = (live \ {call[c].read}) \cup {issued'}
    BY <1>6 DEF Grants
  <2>2. /\ \A d \in Calls \ {c} : call'[d] = call[d]
        /\ call'[c].at = "minted" /\ call'[c].read = call[c].read
    BY <1>6, MoveEffect
  <2> QED
    BY <2>1, <2>2 DEF StoredTokenIsGood
<1>7. ASSUME NEW c \in Calls, GrantIsLost(c)
      PROVE  StoredTokenIsGood'
  <2>1. /\ call[c].at = "sent" /\ UNCHANGED <<item, revoked>> /\ live' = live \ {call[c].read}
        /\ lost' = (lost \/ call[c].read = item) /\ Settles(c, FALSE)
    BY <1>7 DEF GrantIsLost
  <2>2. \A d \in Calls : call[d].at = "minted" => call'[d] = call[d]
    BY <1>0, <2>1, SettlesEffect DEF JoinedTo
  <2>3. CASE call[c].read = item
    BY <2>1, <2>3, Zenon DEF StoredTokenIsGood
  <2>4. CASE lost
    BY <2>1, <2>4, Zenon DEF StoredTokenIsGood
  <2>5. CASE item \in live \cup revoked /\ call[c].read # item
    BY <2>1, <2>5 DEF StoredTokenIsGood
  <2>6. CASE \E d \in Calls : call[d].at = "minted" /\ call[d].read = item
    BY <2>1, <2>2, <2>6 DEF StoredTokenIsGood
  <2> QED
    BY <2>3, <2>4, <2>5, <2>6, Zenon DEF StoredTokenIsGood
<1>8. ASSUME NEW c \in Calls, MarksDead(c) \/ RefreshFails(c) \/ UpdatesRow(c)
      PROVE  StoredTokenIsGood'
  <2>1. call[c].at # "minted" /\ UNCHANGED <<item, live, revoked, lost>>
        /\ (Settles(c, TRUE) \/ Settles(c, FALSE))
    BY <1>8 DEF MarksDead, RefreshFails, UpdatesRow, atAS
  <2> QED
    BY <1>1, <2>1
<1>9. ASSUME NEW c \in Calls, Stores(c)
      PROVE  StoredTokenIsGood'
  <2>1. item' = call[c].hand /\ UNCHANGED <<live, revoked>> /\ call[c].at = "minted"
    BY <1>9 DEF Stores
  <2> QED
    BY <2>1 DEF HandsAreNew, Unspent, StoredTokenIsGood
<1>10. ASSUME NEW c \in Calls, UNCHANGED <<item, live, revoked>>, Settles(c, FALSE),
              lost \/ (call[c].at = "minted" /\ call[c].read = item) => lost' = TRUE
       PROVE  StoredTokenIsGood'
  <2>1. \A d \in Calls \ {c} : call[d].at = "minted" => call'[d] = call[d]
    BY <1>0, <1>10, SettlesEffect DEF JoinedTo
  <2>2. CASE lost \/ (call[c].at = "minted" /\ call[c].read = item)
    BY <1>10, <2>2, Zenon DEF StoredTokenIsGood
  <2>3. CASE item \in live \cup revoked
    BY <1>10, <2>3 DEF StoredTokenIsGood
  <2>4. CASE \E d \in Calls \ {c} : call[d].at = "minted" /\ call[d].read = item
    BY <1>10, <2>1, <2>4 DEF StoredTokenIsGood
  <2> QED
    BY <2>2, <2>3, <2>4, Zenon DEF StoredTokenIsGood
<1>18. ASSUME NEW c \in Calls, StoreFails(c)
       PROVE  StoredTokenIsGood'
  <2>1. /\ UNCHANGED <<item, live, revoked>> /\ Settles(c, FALSE)
        /\ lost' = (lost \/ call[c].read = item)
    BY <1>18 DEF StoreFails
  <2>2. lost \/ (call[c].at = "minted" /\ call[c].read = item) => lost' = TRUE
    BY <2>1, Zenon
  <2> QED
    BY <1>10, <2>1, <2>2
<1>19. ASSUME NEW c \in Calls, Leaves(c)
       PROVE  StoredTokenIsGood'
  <2>1. call[c].at # "minted" /\ UNCHANGED <<item, live, revoked, lost>>
    BY <1>19 DEF Leaves, Told, atAS
  <2> QED
    BY <1>0, <1>2, <1>19, <2>1, LeavesEffect
<1>20. ASSUME NEW c \in Calls, Interrupted(c)
       PROVE  StoredTokenIsGood'
  <2>1. UNCHANGED <<item, live, revoked>>
    BY <1>20 DEF Interrupted, atAS
  <2>2. CASE call[c].at \in Granting /\ Settles(c, FALSE)
    <3>1. lost' = (lost \/ (call[c].at = "minted" /\ call[c].read = item))
      BY <1>20, <2>2 DEF Interrupted, Granting, Told
    <3>2. lost \/ (call[c].at = "minted" /\ call[c].read = item) => lost' = TRUE
      BY <3>1, Zenon
    <3> QED
      BY <1>10, <2>1, <2>2, <3>2
  <2>3. CASE /\ call[c].at \notin {"idle"} \cup Granting
             /\ call' = [call EXCEPT ![c] = IdleCall] /\ UNCHANGED lost
    BY <1>0, <1>2, <2>1, <2>3 DEF CallTypes, Granting
  <2> QED
    BY <1>0, <1>20, <2>2, <2>3, InterruptedEffect
<1>11. ASSUME NEW k \in Completions, NEW f \in Flows, Completes(k, f)
       PROVE  StoredTokenIsGood'
  BY <1>3, <1>11 DEF Completes, atAS, Unspent
<1>12. ASSUME NEW k \in Completions,
              Exchanges(k) \/ Mints(k) \/ Finishes(k) \/ CompletionFails(k)
       PROVE  StoredTokenIsGood'
  <2>1. UNCHANGED <<item, lost, call>> /\ Unspent \subseteq Unspent'
    BY <1>12 DEF Exchanges, Mints, Finishes, CompletionFails, atAS, Unspent
  <2> QED
    BY <1>3, <2>1
<1>13. ASSUME NEW k \in Completions, StoresNew(k)
       PROVE  StoredTokenIsGood'
  <2>1. item' = completion[k].hand /\ UNCHANGED <<live, revoked>> /\ completion[k].at = "exchanged"
    BY <1>13 DEF StoresNew
  <2> QED
    BY <2>1 DEF HandsAreNew, Unspent, StoredTokenIsGood
<1>14. CASE StartsFlow \/ Removes \/ UNCHANGED vars
  BY <1>3, <1>14 DEF StartsFlow, Removes, vars, atAS, Unspent
<1>15. ASSUME NEW t \in Tokens, Revokes(t)
       PROVE  StoredTokenIsGood'
  BY <1>3, <1>15 DEF Revokes, Unspent
<1>16. ASSUME NEW c \in Calls, NEW e \in Executors, Begins(c, e)
       PROVE  StoredTokenIsGood'
  <2>1. call[c].at # "minted" /\ UNCHANGED <<item, live, revoked, lost>>
    BY <1>16 DEF Begins, IdleCall, atAS
  <2>2. \A d \in Calls \ {c} : call'[d] = call[d]
    BY <1>0, <1>16 DEF Begins, CallTypes
  <2> QED
    BY <1>2, <2>1, <2>2
<1>17. ASSUME NEW e \in Executors, Crashes(e)
       PROVE  StoredTokenIsGood'
  <2>1. /\ UNCHANGED <<item, live, revoked>>
        /\ lost' = (lost \/ \E c \in Calls :
                      call[c].by = e /\ call[c].at = "minted" /\ call[c].read = item)
        /\ call' = [c \in Calls |-> IF call[c].by = e THEN IdleCall ELSE call[c]]
    BY <1>17 DEF Crashes
  <2>2. CASE lost
    BY <2>1, <2>2, Zenon DEF StoredTokenIsGood
  <2>3. CASE item \in live \cup revoked
    BY <2>1, <2>3 DEF StoredTokenIsGood
  <2>4. ASSUME NEW d \in Calls, call[d].at = "minted", call[d].read = item
        PROVE  StoredTokenIsGood'
    <3>1. CASE call[d].by = e
      BY <2>1, <2>4, <3>1, Zenon DEF StoredTokenIsGood
    <3>2. CASE call[d].by # e
      BY <2>1, <2>4, <3>2 DEF StoredTokenIsGood
    <3> QED
      BY <3>1, <3>2
  <2> QED
    BY <2>2, <2>3, <2>4, Zenon DEF StoredTokenIsGood
<1> QED
  BY <1>4, <1>5, <1>6, <1>7, <1>8, <1>9, <1>11, <1>12, <1>13, <1>14, <1>15, <1>16, <1>17,
     <1>18, <1>19, <1>20, Zenon DEF Next, Proceeds

---------------------------------------------------------------------------
(* The mark of a dead grant. *)

(* Until a refresh meets a flow or another refresh, one party at most is      *)
(* between reading the token and storing another.                             *)
Exchanging == {c \in Calls : call[c].at \in {"sent", "refused", "minted", "stored"}}

Alone ==
  ~crossed =>
    /\ \A c \in Exchanging : \A d \in Exchanging : c = d
    /\ Exchanging = {} \/ Storing = {}

(* What such a party knows is then still so.                                  *)
KnowsTheToken ==
  ~crossed =>
    /\ \A c \in Calls :
         /\ call[c].at = "sent" => call[c].read = item
         /\ call[c].at = "refused" => item \notin live
         /\ call[c].at \in {"minted", "stored"} => row.dead = FALSE
    /\ (row.dead = TRUE /\ \A k \in Completions : completion[k].at # "stored") => item \notin live

LEMMA AloneAndKnows ==
  ASSUME KnowsTheToken, TypeOK
  PROVE  DeadMeansRefused
<1>1. row.dead \in BOOLEAN
  BY TypeParts DEF RowTypes
<1>2. Storing = {} => \A k \in Completions : completion[k].at # "stored"
  BY DEF Storing
<1> QED
  BY <1>1, <1>2, Zenon DEF KnowsTheToken, DeadMeansRefused

(* Steps that do not meet anything and give nobody a token.                   *)
LEMMA NothingLearnt ==
  ASSUME Alone, KnowsTheToken, Quiet, crossed' = FALSE => crossed = FALSE,
         UNCHANGED item, live' \subseteq live,
         row'.dead = TRUE => row.dead = TRUE,
         \A k \in Completions : completion'[k].at \in {"exchanged", "stored"} =>
           completion'[k] = completion[k],
         crossed' = FALSE => \A k \in Completions : completion[k].at = "stored" =>
           completion'[k] = completion[k] \/ row'.dead = FALSE
  PROVE  Alone' /\ KnowsTheToken'
<1>1. Exchanging' \subseteq Exchanging /\ \A c \in Exchanging' : call'[c] = call[c]
  BY DEF Quiet, Rests, Exchanging
<1>2. Storing' \subseteq Storing
  BY DEF Storing
<1>3. Alone'
  BY <1>1, <1>2 DEF Alone
<1>4. \A c \in Calls : call'[c].at \in {"sent", "refused", "minted", "stored"} =>
        call'[c] = call[c]
  BY DEF Quiet, Rests
<1>5. KnowsTheToken'
  BY <1>4 DEF KnowsTheToken
<1> QED
  BY <1>3, <1>5

LEMMA KnowsStep ==
  ASSUME TypeOK, HandsAreNew, Alone, KnowsTheToken, [Next]_vars
  PROVE  Alone' /\ KnowsTheToken'
<1>0. CallTypes /\ FlowTypes /\ RowTypes /\ crossed \in BOOLEAN
  BY TypeParts DEF FlowTypes
<1>1. ASSUME Quiet, UNCHANGED <<item, crossed, completion>>, live' \subseteq live,
             row'.dead = TRUE => row.dead = TRUE
      PROVE  Alone' /\ KnowsTheToken'
  BY <1>1, NothingLearnt
<1>2. ASSUME NEW c \in Calls,
             \/ Resolves(c) \/ Declined(c) \/ Answered(c) \/ Unauthorized(c) \/ Leaves(c)
             \/ GrantIsLost(c) \/ RefreshFails(c) \/ StoreFails(c) \/ UpdatesRow(c)
             \/ Interrupted(c)
      PROVE  Alone' /\ KnowsTheToken'
  <2>1. UNCHANGED <<item, crossed, completion>> /\ live' \subseteq live
    BY <1>2 DEF Resolves, Declined, Answered, Unauthorized, GrantIsLost, RefreshFails, StoreFails,
                UpdatesRow, Leaves, Interrupted, atAS, oauth
  <2>2. row'.dead = row.dead
    BY <1>0, <1>2 DEF Resolves, Declined, Answered, Unauthorized, GrantIsLost, RefreshFails,
                      StoreFails, UpdatesRow, Leaves, Interrupted, RowTypes
  <2>3. Quiet
    BY <1>2, QuietSteps
  <2> QED
    BY <1>1, <2>1, <2>2, <2>3
<1>3. ASSUME NEW c \in Calls, MarksDead(c)
      PROVE  Alone' /\ KnowsTheToken'
  <2>1. call[c].at = "refused" /\ Settles(c, FALSE) /\ UNCHANGED <<item, live, crossed, completion>>
    BY <1>3 DEF MarksDead, atAS, oauth
  <2>2. Quiet
    BY <1>3, QuietSteps
  <2>3. c \in Exchanging /\ c \notin Exchanging'
    BY <1>0, <2>1, SettlesEffect DEF Exchanging, Told
  <2>4. \A d \in Exchanging' : d \in Exchanging
    BY <2>2 DEF Quiet, Rests, Exchanging
  <2>5. ASSUME crossed = FALSE
        PROVE  Exchanging' = {} /\ item \notin live
    BY <2>1, <2>3, <2>4, <2>5 DEF Alone, KnowsTheToken, Exchanging
  <2>6. crossed' = crossed /\ item' = item /\ live' = live
    BY <2>1
  <2>7. Alone'
    BY <1>0, <2>5, <2>6 DEF Alone
  <2>8. KnowsTheToken'
    BY <1>0, <2>5, <2>6 DEF KnowsTheToken, Exchanging
  <2> QED
    BY <2>7, <2>8
<1>4. ASSUME NEW c \in Calls, ReadsToken(c)
      PROVE  Alone' /\ KnowsTheToken'
  <2>1. /\ UNCHANGED <<row, item, live, completion>>
        /\ crossed' = (crossed \/ Refreshing # {c} \/ Storing # {})
    BY <1>4 DEF ReadsToken, atAS, oauth
  <2>2. /\ \A d \in Calls \ {c} : call'[d] = call[d]
        /\ call'[c].at = "sent" /\ call'[c].read = item
    BY <1>4, MoveEffect
  <2>3. ASSUME ~crossed'
        PROVE  crossed = FALSE /\ Refreshing = {c} /\ Storing = {}
    BY <1>0, <2>1, <2>3, Zenon
  <2>4. ASSUME Refreshing = {c}
        PROVE  \A d \in Calls \ {c} : call'[d].at \notin {"sent", "refused", "minted", "stored"}
    BY <2>2, <2>4 DEF Refreshing, Granting
  <2>5. Storing' = Storing
    BY <2>1 DEF Storing
  <2>6. ASSUME ~crossed'
        PROVE  Exchanging' = {c} /\ Storing' = {}
    BY <2>2, <2>3, <2>4, <2>5, <2>6 DEF Exchanging
  <2>7. Alone'
    BY <2>6 DEF Alone
  <2>8. KnowsTheToken'
    <3> SUFFICES ASSUME ~crossed'
                 PROVE  /\ \A d \in Calls :
                             /\ call'[d].at = "sent" => call'[d].read = item'
                             /\ call'[d].at = "refused" => item' \notin live'
                             /\ call'[d].at \in {"minted", "stored"} => row'.dead = FALSE
                        /\ (row'.dead = TRUE /\ \A k \in Completions : completion'[k].at # "stored")
                              => item' \notin live'
      BY DEF KnowsTheToken
    <3>1. (row.dead = TRUE /\ \A k \in Completions : completion[k].at # "stored")
            => item \notin live
      BY <2>3 DEF KnowsTheToken
    <3> QED
      BY <2>1, <2>2, <2>3, <2>4, <3>1
  <2> QED
    BY <2>7, <2>8
<1>5. ASSUME NEW c \in Calls, Grants(c) \/ Refuses(c) \/ Stores(c)
      PROVE  Alone' /\ KnowsTheToken'
  <2>1. UNCHANGED <<row, completion, crossed>>
    BY <1>5 DEF Grants, Refuses, Stores, oauth
  <2>2. /\ \A d \in Calls \ {c} : call'[d] = call[d]
        /\ call'[c].at \in {"refused", "minted", "stored"}
    BY <1>5, MoveEffect
  <2>3. c \in Exchanging
    BY <1>5 DEF Grants, Refuses, Stores, Exchanging
  <2>4. Exchanging' = Exchanging /\ Storing' = Storing
    BY <2>1, <2>2, <2>3 DEF Exchanging, Storing
  <2>5. Alone'
    BY <2>1, <2>4 DEF Alone
  <2>6. ASSUME ~crossed
        PROVE  /\ \A d \in Calls \ {c} : call'[d].at \notin {"sent", "refused", "minted", "stored"}
               /\ \A k \in Completions : completion[k].at # "stored"
    BY <2>2, <2>3, <2>6 DEF Alone, Exchanging, Storing
  <2>7. ASSUME ~crossed, Grants(c)
        PROVE  call'[c].at = "minted" /\ row.dead = FALSE
    <3>1. call[c].at = "sent" /\ call[c].read \in live
      BY <2>7 DEF Grants
    <3>2. item \in live
      BY <2>7, <3>1 DEF KnowsTheToken
    <3>3. row.dead \in BOOLEAN
      BY <1>0 DEF RowTypes
    <3>4. row.dead # TRUE
      BY <2>6, <2>7, <3>2 DEF KnowsTheToken
    <3> QED
      BY <2>7, <3>3, <3>4, MoveEffect
  <2>8. ASSUME ~crossed, Refuses(c)
        PROVE  call'[c].at = "refused" /\ item' \notin live'
    <3>1. call[c].at = "sent" /\ call[c].read \notin live /\ UNCHANGED <<item, live>>
      BY <2>8 DEF Refuses, atAS
    <3> QED
      BY <2>8, <3>1, MoveEffect DEF KnowsTheToken
  <2>9. ASSUME ~crossed, Stores(c)
        PROVE  call'[c].at = "stored" /\ row.dead = FALSE
    BY <2>9, MoveEffect DEF KnowsTheToken, Stores
  <2>10. KnowsTheToken'
    <3> SUFFICES ASSUME ~crossed'
                 PROVE  /\ \A d \in Calls :
                             /\ call'[d].at = "sent" => call'[d].read = item'
                             /\ call'[d].at = "refused" => item' \notin live'
                             /\ call'[d].at \in {"minted", "stored"} => row'.dead = FALSE
                        /\ (row'.dead = TRUE /\ \A k \in Completions : completion'[k].at # "stored")
                              => item' \notin live'
      BY DEF KnowsTheToken
    <3> QED
      BY <1>5, <2>1, <2>6, <2>7, <2>8, <2>9
  <2> QED
    BY <2>5, <2>10
<1>6. ASSUME NEW c \in Calls, NEW e \in Executors, Begins(c, e)
      PROVE  Alone' /\ KnowsTheToken'
  <2>1. UNCHANGED <<row, item, live, crossed, completion>>
    BY <1>6 DEF Begins, atAS, oauth
  <2>2. Quiet
    BY <1>6, QuietSteps
  <2> QED
    BY <1>1, <2>1, <2>2
<1>7. ASSUME NEW e \in Executors, Crashes(e)
      PROVE  Alone' /\ KnowsTheToken'
  <2>1. UNCHANGED <<row, item, live, crossed, completion>>
    BY <1>7 DEF Crashes, oauth
  <2>2. Quiet
    BY <1>7, QuietSteps
  <2> QED
    BY <1>1, <2>1, <2>2
<1>8. CASE StartsFlow \/ Removes \/ (\E t \in Tokens : Revokes(t)) \/ UNCHANGED vars
  <2>1. UNCHANGED <<item, crossed, completion, call>> /\ live' \subseteq live
    BY <1>8 DEF StartsFlow, Removes, Revokes, vars, atAS, oauth
  <2>2. row'.dead = TRUE => row.dead = TRUE
    BY <1>0, <1>8 DEF StartsFlow, Removes, Revokes, vars, RowTypes
  <2>3. Quiet
    BY <2>1 DEF Quiet
  <2> QED
    BY <1>1, <2>1, <2>2, <2>3
<1>9. ASSUME NEW k \in Completions, NEW f \in Flows, Completes(k, f)
      PROVE  Alone' /\ KnowsTheToken'
  <2>1. UNCHANGED <<row, item, live, crossed, call>> /\ completion[k] = IdleCompletion
    BY <1>9 DEF Completes, atAS
  <2>2. /\ \A j \in Completions \ {k} : completion'[j] = completion[j]
        /\ completion'[k].at = "found"
    BY <1>0, <1>9 DEF Completes, FlowTypes
  <2>3. Quiet
    BY <2>1 DEF Quiet
  <2>4. completion[k].at = "idle"
    BY <2>1 DEF IdleCompletion
  <2>5. \A j \in Completions :
          /\ completion'[j].at \in {"exchanged", "stored"} => completion'[j] = completion[j]
          /\ completion[j].at = "stored" => completion'[j] = completion[j]
    BY <2>2, <2>4
  <2> QED
    BY <2>1, <2>3, <2>5, NothingLearnt
<1>10. ASSUME NEW k \in Completions, Exchanges(k)
       PROVE  Alone' /\ KnowsTheToken'
  <2>1. /\ UNCHANGED <<row, item, call>> /\ issued' = issued + 1 /\ live' = live \cup {issued'}
        /\ crossed' = (crossed \/ Refreshing # {} \/ Storing # {})
    BY <1>10 DEF Exchanges
  <2>2. /\ \A j \in Completions \ {k} : completion'[j] = completion[j]
        /\ completion'[k].at = "exchanged" /\ completion[k].at = "found"
    BY <1>0, <1>10 DEF Exchanges, FlowTypes, CompletionStates, IdleCompletion
  <2>3. ASSUME ~crossed'
        PROVE  crossed = FALSE /\ Refreshing = {}
    BY <1>0, <2>1, <2>3, Zenon
  <2>4. ASSUME ~crossed'
        PROVE  \A d \in Calls : call'[d].at \notin {"sent", "refused", "minted", "stored"}
    BY <2>1, <2>3, <2>4 DEF Refreshing, Granting
  <2>5. item # issued'
    BY <2>1, Numbers DEF HandsAreNew
  <2>6. Alone'
    BY <2>4 DEF Alone, Exchanging
  <2>7. KnowsTheToken'
    BY <2>1, <2>2, <2>3, <2>4, <2>5 DEF KnowsTheToken
  <2> QED
    BY <2>6, <2>7
<1>11. ASSUME NEW k \in Completions, StoresNew(k)
       PROVE  Alone' /\ KnowsTheToken'
  <2>1. UNCHANGED <<row, live, call, crossed>> /\ completion[k].at = "exchanged"
    BY <1>11 DEF StoresNew
  <2>2. /\ \A j \in Completions \ {k} : completion'[j] = completion[j]
        /\ completion'[k].at = "stored"
    BY <1>0, <1>11 DEF StoresNew, FlowTypes, CompletionStates, IdleCompletion
  <2>3. k \in Storing
    BY <2>1 DEF Storing
  <2>4. ASSUME ~crossed
        PROVE  Exchanging = {}
    BY <2>3, <2>4 DEF Alone
  <2>5. Exchanging' = Exchanging
    BY <2>1 DEF Exchanging
  <2>6. Alone'
    BY <2>1, <2>4, <2>5 DEF Alone
  <2>7. KnowsTheToken'
    BY <2>1, <2>2, <2>4 DEF KnowsTheToken, Exchanging
  <2> QED
    BY <2>6, <2>7
<1>12. ASSUME NEW k \in Completions, Mints(k)
       PROVE  Alone' /\ KnowsTheToken'
  <2>1. UNCHANGED <<item, live, call, crossed>> /\ row'.dead = FALSE
    BY <1>12 DEF Mints, atAS
  <2>2. /\ \A j \in Completions \ {k} : completion'[j] = completion[j]
        /\ completion'[k].at = "minted"
    BY <1>0, <1>12 DEF Mints, FlowTypes, CompletionStates, IdleCompletion
  <2>3. Quiet
    BY <2>1 DEF Quiet
  <2> QED
    BY <2>1, <2>2, <2>3, NothingLearnt
<1>13. ASSUME NEW k \in Completions, CompletionFails(k)
       PROVE  Alone' /\ KnowsTheToken'
  <2>1. /\ UNCHANGED <<row, item, live, call>>
        /\ crossed' = (crossed \/ completion[k].at = "stored")
    BY <1>13 DEF CompletionFails, atAS
  <2>2. /\ \A j \in Completions \ {k} : completion'[j] = completion[j]
        /\ completion'[k].at = "idle"
    BY <1>0, <1>13 DEF CompletionFails, FlowTypes, IdleCompletion
  <2>3. Quiet
    BY <2>1 DEF Quiet
  <2>4. crossed' = FALSE => crossed = FALSE /\ completion[k].at # "stored"
    BY <1>0, <2>1, Zenon
  <2> QED
    BY <2>1, <2>2, <2>3, <2>4, NothingLearnt
<1>14. ASSUME NEW k \in Completions, Finishes(k)
       PROVE  Alone' /\ KnowsTheToken'
  <2>1. UNCHANGED <<row, item, live, call, crossed>> /\ completion[k].at = "minted"
    BY <1>14 DEF Finishes, atAS
  <2>2. /\ \A j \in Completions \ {k} : completion'[j] = completion[j]
        /\ completion'[k].at = "idle"
    BY <1>0, <1>14 DEF Finishes, FlowTypes, IdleCompletion
  <2>3. Quiet
    BY <2>1 DEF Quiet
  <2> QED
    BY <2>1, <2>2, <2>3, NothingLearnt
<1> QED
  BY <1>2, <1>3, <1>4, <1>5, <1>6, <1>7, <1>8, <1>9, <1>10, <1>11, <1>12, <1>13, <1>14, Zenon
  DEF Next, Proceeds

---------------------------------------------------------------------------
(* The theorems. *)

(* Everything that is inductive together.                                     *)
TokensInv ==
  TypeOK /\ HandsAreNew /\ GateHoldsTheGrant /\ StoredTokenIsGood /\ Alone /\ KnowsTheToken

LEMMA InvInit == Init => TokensInv
<1> SUFFICES ASSUME Init PROVE TokensInv
  OBVIOUS
<1>1. TypeOK
  BY TypeInit
<1>2. /\ \A c \in Calls : call[c].at = "idle" /\ call[c].read = 0
      /\ \A k \in Completions : completion[k].at = "idle"
      /\ \A e \in Executors : gate[e] = NoCall
      /\ item = 1 /\ live = {1} /\ issued = 1 /\ opened = {} /\ row.dead = FALSE
  BY DEF Init, IdleCall, IdleCompletion, NoToken
<1>3. HandsAreNew
  BY <1>2 DEF HandsAreNew
<1>4. GateHoldsTheGrant
  BY <1>2 DEF GateHoldsTheGrant, Refreshing, Granting
<1>5. StoredTokenIsGood
  BY <1>2 DEF StoredTokenIsGood
<1>6. Alone
  BY <1>2 DEF Alone, Exchanging
<1>7. KnowsTheToken
  BY <1>2 DEF KnowsTheToken
<1> QED
  BY <1>1, <1>3, <1>4, <1>5, <1>6, <1>7 DEF TokensInv

LEMMA InvStep == TokensInv /\ [Next]_vars => TokensInv'
<1> SUFFICES ASSUME TypeOK, HandsAreNew, GateHoldsTheGrant, StoredTokenIsGood, Alone,
                    KnowsTheToken, [Next]_vars
             PROVE  TokensInv'
  BY Zenon DEF TokensInv
<1>1. TypeOK'
  BY CallStepTypes, FlowStepTypes, OtherStepTypes, Zenon DEF Next, CallStep
<1>2. HandsAreNew'
  BY HandsStep
<1>3. GateHoldsTheGrant'
  BY GateStep
<1>4. StoredTokenIsGood'
  BY GoodStep
<1>5. Alone' /\ KnowsTheToken'
  BY KnowsStep
<1> QED
  BY <1>1, <1>2, <1>3, <1>4, <1>5, Zenon DEF TokensInv

LEMMA InvHolds == Spec => []TokensInv
<1>1. Init => TokensInv
  BY InvInit
<1>2. TokensInv /\ [Next]_vars => TokensInv'
  BY InvStep
<1> QED
  BY <1>1, <1>2, PTL DEF Spec

(* Type correctness: a row that was removed is not brought back by a refresh  *)
(* that outlives it, and a token that is stored is one the server issued.     *)
THEOREM TypeCorrect == Spec => []TypeOK
<1>1. TokensInv => TypeOK
  BY Zenon DEF TokensInv
<1> QED
  BY InvHolds, <1>1, PTL

(* In one executor, a refresh runs beside another only after a call that had  *)
(* joined one there deleted its entry; whoever joined a refresh waits for one *)
(* that is under way, whoever else is interrupted (refreshInFlight, gated).   *)
THEOREM OneGrantUnlessOpened == Spec => []GateHoldsTheGrant
<1>1. TokensInv => GateHoldsTheGrant
  BY Zenon DEF TokensInv
<1> QED
  BY InvHolds, <1>1, PTL

(* However many executors refresh and connect again, with any number of       *)
(* callbacks at once, and whatever is interrupted, no token that was          *)
(* exchanged is written back (performTokenRefresh, mintFromToken).            *)
THEOREM StoredTokenStaysGood == Spec => []StoredTokenIsGood
<1>1. TokensInv => StoredTokenIsGood
  BY Zenon DEF TokensInv
<1> QED
  BY InvHolds, <1>1, PTL

(* Unless refreshes crossed, a connection marked dead holds a token the       *)
(* server refuses (markRefreshGrantDead, mintOAuthConnection).                *)
THEOREM DeadIsRefused == Spec => []DeadMeansRefused
<1>1. TokensInv => DeadMeansRefused
  BY AloneAndKnows, Zenon DEF TokensInv
<1> QED
  BY InvHolds, <1>1, PTL

---------------------------------------------------------------------------
(* Every call ends: a measure of what it has left to do. *)

LEMMA StagesLeft ==
  ASSUME NEW s \in BusyStages
  PROVE  StageLeft[s] \in 1 .. 6
BY DEF StageLeft, BusyStages, Told, Granting

LEMMA BusyIsNotIdle == \A x \in BusyStates : x # IdleCall /\ x.at # "idle"
BY DEF BusyStates, BusyStages, Told, Granting, IdleCall

\* What is left of a call after its stage: the retry, unless it was made or
\* the call only has to fail.
RetryLeft(x) == IF x.at \in {"idle", "failed"} \/ x.retried THEN 0 ELSE 7

LEMMA StepsAre ==
  ASSUME NEW c \in Calls, call[c] \in BusyStates
  PROVE  /\ StepsLeft(c) = StageLeft[call[c].at] + RetryLeft(call[c])
         /\ StageLeft[call[c].at] \in 1 .. 6
         /\ RetryLeft(call[c]) \in {0, 7}
         /\ call[c].retried \in BOOLEAN
BY StagesLeft DEF StepsLeft, RetryLeft, BusyStates

\* A call that ends, goes on in its attempt, or begins the only other one.
LEMMA StepsLess ==
  ASSUME NEW c \in Calls, call[c] \in BusyStates,
         \/ call'[c] = IdleCall
         \/ /\ call'[c] \in BusyStates
            /\ \/ /\ RetryLeft(call'[c]) <= RetryLeft(call[c])
                  /\ StageLeft[call'[c].at] < StageLeft[call[c].at]
               \/ /\ ~call[c].retried /\ call[c].at # "failed"
                  /\ call'[c].retried
  PROVE  StepsLeft(c)' < StepsLeft(c)
<1>1. /\ StepsLeft(c) = StageLeft[call[c].at] + RetryLeft(call[c])
      /\ StageLeft[call[c].at] \in 1 .. 6
      /\ RetryLeft(call[c]) \in {0, 7}
  BY StepsAre
<1>2. CASE call'[c] = IdleCall
  <2>1. StepsLeft(c)' = 0
    BY <1>2 DEF StepsLeft, StageLeft, IdleCall
  <2> QED
    BY <1>1, <2>1
<1>3. CASE call'[c] \in BusyStates
  <2>1. /\ StepsLeft(c)' = StageLeft[call'[c].at] + RetryLeft(call'[c])
        /\ StageLeft[call'[c].at] \in 1 .. 6
        /\ RetryLeft(call'[c]) \in {0, 7}
    BY <1>3, StagesLeft DEF StepsLeft, RetryLeft, BusyStates
  <2>2. CASE /\ RetryLeft(call'[c]) <= RetryLeft(call[c])
             /\ StageLeft[call'[c].at] < StageLeft[call[c].at]
    BY <1>1, <2>1, <2>2
  <2>3. CASE ~call[c].retried /\ call[c].at # "failed" /\ call'[c].retried
    <3>1. RetryLeft(call[c]) = 7 /\ RetryLeft(call'[c]) = 0
      BY <2>3, BusyIsNotIdle DEF RetryLeft
    <3> QED
      BY <1>1, <2>1, <3>1
  <2> QED
    BY <1>3, <2>2, <2>3, BusyIsNotIdle
<1> QED
  BY <1>2, <1>3

\* The refresh of c is over, for c and whoever joined it.
LEMMA SettlesAdvance ==
  ASSUME CallTypes, CallTypes', NEW c \in Calls, NEW s \in BOOLEAN, Settles(c, s),
         call[c].at \in Granting, s => call[c].at = "stored",
         NEW d \in Calls, call'[d] # call[d]
  PROVE  StepsLeft(d)' < StepsLeft(d)
<1>1. d = c \/ JoinedTo(c, d)
  BY SettlesCases
<1>2. call[d] \in BusyStates /\ call[d].at \in Granting \cup {"joined"}
  BY <1>1, CallFields DEF JoinedTo, Granting
<1>3. ASSUME call'[d] # IdleCall
      PROVE  /\ StageLeft[call'[d].at] < StageLeft[call[d].at]
             /\ call'[d].at = "failed" \/ call'[d].retried = call[d].retried
  <2>1. CASE d = c
    <3>1. s /\ call'[d] = [call[d] EXCEPT !.at = "calling", !.read = NoToken, !.hand = NoToken]
      BY <1>3, <2>1, SettlesCases
    <3>2. call'[d].at = "calling" /\ call'[d].retried = call[d].retried
      BY <1>2, <3>1 DEF BusyStates
    <3> QED
      BY <2>1, <3>1, <3>2 DEF StageLeft
  <2>2. CASE JoinedTo(c, d)
    <3>1. call'[d] = ToldOf(d, s)
      BY <2>2, SettlesCases
    <3>2. call'[d].at \in Told /\ (call'[d].at = "failed" \/ call'[d].retried = call[d].retried)
      BY <1>2, <3>1 DEF ToldOf, Told, BusyStates, IdleCall
    <3> QED
      BY <2>2, <3>2 DEF StageLeft, Told, JoinedTo
  <2> QED
    BY <1>1, <2>1, <2>2
<1>4. ASSUME call'[d] # IdleCall
      PROVE  RetryLeft(call'[d]) <= RetryLeft(call[d]) /\ call'[d] \in BusyStates
  <2>1. call'[d] \in BusyStates
    BY <1>4 DEF CallTypes, CallStates
  <2>2. call[d].at \notin {"idle", "failed"}
    BY <1>2 DEF Granting
  <2> QED
    BY <1>3, <1>4, <2>1, <2>2 DEF RetryLeft
<1> QED
  BY <1>2, <1>3, <1>4, StepsLess

\* A call that was not approved yet made no attempt.
FirstAttempt == \A c \in Calls : call[c].at = "approving" => call[c].retried = FALSE

LEMMA SettlesIsNew ==
  ASSUME CallTypes, NEW c \in Calls, NEW s \in BOOLEAN, Settles(c, s), NEW d \in Calls,
         call'[d] # call[d]
  PROVE  call'[d].at # "approving"
BY SettlesEffect DEF Told

LEMMA FirstAttemptStep ==
  ASSUME TypeOK, FirstAttempt, [Next]_vars
  PROVE  FirstAttempt'
<1>0. CallTypes
  BY TypeParts
<1> SUFFICES ASSUME NEW d \in Calls, call'[d].at = "approving", call'[d] # call[d]
             PROVE  call'[d].retried = FALSE
  BY DEF FirstAttempt
<1>1. ASSUME NEW c \in Calls, NEW e \in Executors, Begins(c, e)
      PROVE  call'[d].retried = FALSE
  BY <1>0, <1>1 DEF Begins, CallTypes
<1>2. ASSUME NEW c \in Calls, Resolves(c) \/ Declined(c) \/ Answered(c) \/ Unauthorized(c)
      PROVE  FALSE
  <2>1. call[c].at \in {"approving", "calling"} /\ call[c] \in BusyStates
    BY <1>0, <1>2, CallFields DEF Resolves, Unauthorized, Declined, Answered
  <2>2. CASE Refreshes(c, TRUE) \/ Refreshes(c, FALSE)
    BY <1>0, <2>1, <2>2, RefreshesEffect
  <2>3. CASE call' = [call EXCEPT ![c].at = "calling"]
    BY <1>0, <2>1, <2>3 DEF CallTypes, BusyStates
  <2>4. CASE call' = [call EXCEPT ![c] = IdleCall]
    BY <1>0, <2>4 DEF CallTypes, IdleCall
  <2> QED
    BY <1>2, <2>2, <2>3, <2>4, Zenon DEF Resolves, Declined, Answered, Unauthorized
<1>3. ASSUME NEW c \in Calls, ReadsToken(c) \/ Grants(c) \/ Refuses(c) \/ Stores(c)
      PROVE  FALSE
  BY <1>3, MoveEffect DEF Granting
<1>4. ASSUME NEW c \in Calls,
             GrantIsLost(c) \/ MarksDead(c) \/ RefreshFails(c) \/ StoreFails(c) \/ UpdatesRow(c)
      PROVE  FALSE
  <2>1. PICK s \in BOOLEAN : Settles(c, s)
    BY <1>4, Zenon DEF GrantIsLost, MarksDead, RefreshFails, StoreFails, UpdatesRow
  <2> QED
    BY <1>0, <2>1, SettlesIsNew
<1>5. ASSUME NEW e \in Executors, Crashes(e)
      PROVE  FALSE
  BY <1>5 DEF Crashes, IdleCall
<1>7. ASSUME NEW c \in Calls, Leaves(c)
      PROVE  FALSE
  BY <1>0, <1>7, LeavesEffect
<1>8. ASSUME NEW c \in Calls, Interrupted(c)
      PROVE  FALSE
  <2>1. CASE Settles(c, FALSE)
    BY <1>0, <2>1, SettlesIsNew
  <2>2. CASE call' = [call EXCEPT ![c] = IdleCall]
    BY <1>0, <2>2 DEF CallTypes, IdleCall
  <2> QED
    BY <1>0, <1>8, <2>1, <2>2, InterruptedEffect
<1>6. CASE \/ \E k \in Completions :
                \/ \E f \in Flows : Completes(k, f)
                \/ Exchanges(k) \/ StoresNew(k) \/ Mints(k) \/ Finishes(k) \/ CompletionFails(k)
           \/ StartsFlow \/ Removes \/ (\E t \in Tokens : Revokes(t)) \/ UNCHANGED vars
  BY <1>6 DEF Completes, Exchanges, StoresNew, Mints, Finishes, CompletionFails, StartsFlow,
              Removes, Revokes, vars
<1> QED
  BY <1>1, <1>2, <1>3, <1>4, <1>5, <1>6, <1>7, <1>8, Zenon DEF Next, Proceeds

LEMMA CallStepAdvances ==
  ASSUME TypeOK, HandsAreNew, FirstAttempt, NEW c \in Calls, CallStep(c),
         NEW d \in Calls, call'[d] # call[d]
  PROVE  StepsLeft(d)' < StepsLeft(d)
<1>0. CallTypes /\ CallTypes'
  BY CallStepTypes, TypeParts, TypePartsNext
<1>1. CASE Declined(c) \/ Answered(c)
  <2>1. call[c].at # "idle" /\ call' = [call EXCEPT ![c] = IdleCall]
    BY <1>1 DEF Declined, Answered
  <2>2. d = c /\ call'[c] = IdleCall /\ call[c] \in BusyStates
    BY <1>0, <2>1, CallFields DEF CallTypes
  <2> QED
    BY <2>2, StepsLess
<1>2. CASE Resolves(c) \/ Unauthorized(c)
  <2>1. call[c].at \in {"approving", "calling"} /\ call[c] \in BusyStates
    BY <1>0, <1>2, CallFields DEF Resolves, Unauthorized
  <2>2. \A e \in Calls : e # c => call'[e] = call[e]
    BY <1>0, <1>2, <2>1, RefreshesEffect DEF Resolves, Unauthorized, CallTypes
  <2>3. d = c
    BY <2>2
  <2>4. \/ call'[c] = IdleCall
        \/ call[c].at = "approving" /\ call'[c] = [call[c] EXCEPT !.at = "calling"]
        \/ \E r \in BOOLEAN :
             /\ IF r THEN ~call[c].retried /\ call[c].at = "calling" ELSE call[c].at = "approving"
             /\ \/ call'[c] = [call[c] EXCEPT !.at = "reading", !.retried = r]
                \/ call'[c] = [call[c] EXCEPT !.at = "joined", !.of = gate[call[c].by],
                                             !.dead = @ /\ ~r, !.retried = r]
    BY <1>0, <1>2 DEF Resolves, Unauthorized, Refreshes, CallTypes
  <2>5. ASSUME call'[c] # IdleCall
        PROVE  call'[c] \in BusyStates
    BY <1>0, <2>5 DEF CallTypes, CallStates
  <2>6. ASSUME call'[c] # IdleCall
        PROVE  \/ /\ call'[c].retried = call[c].retried /\ call'[c].at \notin {"idle", "failed"}
                  /\ StageLeft[call'[c].at] < StageLeft[call[c].at]
               \/ ~call[c].retried /\ call[c].at # "failed" /\ call'[c].retried
    <3>1. CASE call[c].at = "approving" /\ call'[c] = [call[c] EXCEPT !.at = "calling"]
      BY <2>1, <3>1 DEF BusyStates, StageLeft
    <3>2. ASSUME NEW r \in BOOLEAN,
                 \/ call'[c] = [call[c] EXCEPT !.at = "reading", !.retried = r]
                 \/ call'[c] = [call[c] EXCEPT !.at = "joined", !.of = gate[call[c].by],
                                              !.dead = @ /\ ~r, !.retried = r]
          PROVE  call'[c].at \in {"joined", "reading"} /\ call'[c].retried = r
      BY <2>1, <3>2 DEF BusyStates
    <3>3. ASSUME NEW r \in BOOLEAN, ~r, call[c].at = "approving",
                 call'[c].at \in {"joined", "reading"}, call'[c].retried = r
          PROVE  /\ call'[c].retried = call[c].retried
                 /\ call'[c].at \notin {"idle", "failed"}
                 /\ StageLeft[call'[c].at] < StageLeft[call[c].at]
      <4>1. call[c].retried = FALSE
        BY <3>3 DEF FirstAttempt
      <4>2. StageLeft["joined"] < StageLeft["approving"] /\ StageLeft["reading"] < StageLeft["approving"]
        BY DEF StageLeft
      <4> QED
        BY <3>3, <4>1, <4>2
    <3> QED
      BY <2>4, <2>6, <3>1, <3>2, <3>3
  <2>7. ASSUME call'[c].retried = call[c].retried, call'[c].at \notin {"idle", "failed"}
        PROVE  RetryLeft(call'[c]) <= RetryLeft(call[c])
    BY <2>1, <2>7 DEF RetryLeft
  <2> QED
    BY <2>1, <2>3, <2>5, <2>6, <2>7, StepsLess
<1>3. CASE ReadsToken(c) \/ Grants(c) \/ Refuses(c) \/ Stores(c)
  <2>1. call[c].at # "idle" /\ call[c] \in BusyStates
    BY <1>0, <1>3, CallFields DEF ReadsToken, Grants, Refuses, Stores
  <2>2. d = c /\ call'[c].at \in Granting
    BY <1>3, MoveEffect
  <2>3. call'[c] \in BusyStates /\ call[c].at \in Granting
    BY <1>0, <1>3, <2>2, MoveEffect DEF CallTypes, CallStates, IdleCall, Granting
  <2>4. call'[c].retried = call[c].retried
    BY <1>0, <1>3, <2>1 DEF ReadsToken, Grants, Refuses, Stores, CallTypes, BusyStates
  <2>5. StageLeft[call'[c].at] < StageLeft[call[c].at]
    <3>1. \/ call[c].at = "reading" /\ call'[c].at = "sent"
          \/ call[c].at = "sent" /\ call'[c].at \in {"minted", "refused"}
          \/ call[c].at = "minted" /\ call'[c].at = "stored"
      BY <1>3, MoveEffect DEF ReadsToken, Grants, Refuses, Stores
    <3> QED
      BY <3>1 DEF StageLeft
  <2>6. RetryLeft(call'[c]) <= RetryLeft(call[c])
    BY <2>2, <2>3, <2>4 DEF RetryLeft, Granting
  <2> QED
    BY <2>1, <2>2, <2>3, <2>5, <2>6, StepsLess
<1>4. CASE GrantIsLost(c) \/ MarksDead(c) \/ RefreshFails(c) \/ StoreFails(c) \/ UpdatesRow(c)
  <2>1. PICK s \in BOOLEAN : Settles(c, s) /\ (s => call[c].at = "stored")
    BY <1>4, Zenon DEF GrantIsLost, MarksDead, RefreshFails, StoreFails, UpdatesRow
  <2>2. call[c].at \in Granting
    BY <1>4 DEF GrantIsLost, MarksDead, RefreshFails, StoreFails, UpdatesRow, Granting
  <2> QED
    BY <1>0, <2>1, <2>2, SettlesAdvance
<1>5. CASE Leaves(c)
  <2>1. call[c].at \in Told /\ d = c /\ call[c] \in BusyStates
    BY <1>0, <1>5, LeavesEffect, CallFields DEF Told
  <2>2. \/ call'[c] = IdleCall
        \/ call[c].at = "renewed" /\ call'[c] = [call[c] EXCEPT !.at = "calling"]
    BY <1>0, <1>5 DEF Leaves, CallTypes
  <2>3. ASSUME call[c].at = "renewed", call'[c] = [call[c] EXCEPT !.at = "calling"]
        PROVE  /\ call'[c] \in BusyStates /\ RetryLeft(call'[c]) <= RetryLeft(call[c])
               /\ StageLeft[call'[c].at] < StageLeft[call[c].at]
    BY <2>1, <2>3 DEF BusyStates, BusyStages, RetryLeft, StageLeft
  <2> QED
    BY <2>1, <2>2, <2>3, StepsLess
<1>6. CASE Interrupted(c)
  <2>1. CASE call[c].at \in Granting /\ Settles(c, FALSE)
    BY <1>0, <2>1, SettlesAdvance
  <2>2. CASE call[c].at # "idle" /\ call' = [call EXCEPT ![c] = IdleCall]
    <3>1. d = c /\ call'[c] = IdleCall /\ call[c] \in BusyStates
      BY <1>0, <2>2, CallFields DEF CallTypes
    <3> QED
      BY <3>1, StepsLess
  <2> QED
    BY <1>0, <1>6, <2>1, <2>2, InterruptedEffect
<1> QED
  BY <1>1, <1>2, <1>3, <1>4, <1>5, <1>6, Zenon DEF CallStep, Proceeds

LEMMA AdvanceStep ==
  ASSUME TypeOK, HandsAreNew, FirstAttempt, [Next]_vars,
         NEW d \in Calls, call[d] # IdleCall, call'[d] # call[d]
  PROVE  StepsLeft(d)' < StepsLeft(d)
<1>0. CallTypes
  BY TypeParts
<1>1. ASSUME NEW c \in Calls, NEW e \in Executors, Begins(c, e)
      PROVE  FALSE
  BY <1>0, <1>1 DEF Begins, CallTypes
<1>2. ASSUME NEW e \in Executors, Crashes(e)
      PROVE  StepsLeft(d)' < StepsLeft(d)
  <2>1. call'[d] = IdleCall /\ call[d] \in BusyStates
    BY <1>0, <1>2 DEF Crashes, CallTypes, CallStates
  <2> QED
    BY <2>1, StepsLess
<1>3. CASE \/ \E k \in Completions :
                \/ \E f \in Flows : Completes(k, f)
                \/ Exchanges(k) \/ StoresNew(k) \/ Mints(k) \/ Finishes(k) \/ CompletionFails(k)
           \/ StartsFlow \/ Removes \/ (\E t \in Tokens : Revokes(t)) \/ UNCHANGED vars
  BY <1>3 DEF Completes, Exchanges, StoresNew, Mints, Finishes, CompletionFails, StartsFlow,
              Removes, Revokes, vars
<1> QED
  BY <1>1, <1>2, <1>3, CallStepAdvances, Zenon DEF Next, CallStep

(* No executor, flow, interruption or crash turns a call back: each of its    *)
(* steps leaves it fewer than before, of at most 13, so that fairness alone ends it           *)
(* (execute: "exactly one retry"; refreshConnectionToken).                    *)
THEOREM CallsAdvance == Spec => CallsOnlyAdvance
<1>1. TokensInv /\ FirstAttempt /\ [Next]_vars =>
        [\A c \in Calls :
           call[c] # IdleCall /\ call'[c] # call[c] => StepsLeft(c)' < StepsLeft(c)]_vars
  BY AdvanceStep, Zenon DEF TokensInv
<1>2. TokensInv /\ FirstAttempt /\ [Next]_vars => FirstAttempt'
  BY FirstAttemptStep, Zenon DEF TokensInv
<1>3. Init => FirstAttempt
  BY DEF Init, FirstAttempt, IdleCall
<1> QED
  BY InvHolds, <1>1, <1>2, <1>3, PTL DEF Spec, CallsOnlyAdvance

---------------------------------------------------------------------------
(* One executor, and no flow that connects again. *)

LEMMA NeverCrosses ==
  ASSUME NEW e, Executors = {e}, Completions = {}, TypeOK, GateHoldsTheGrant, opened = {},
         ~crossed, [Next]_vars
  PROVE  ~crossed'
<1>1. ASSUME NEW c \in Calls, ReadsToken(c)
      PROVE  ~crossed'
  <2>1. c \in Refreshing
    BY <1>1 DEF ReadsToken, Refreshing, Granting
  <2>2. \A d \in Refreshing : call[d].by = e
    BY TypeParts, CallFields DEF Refreshing, Granting
  <2>3. \A d \in Refreshing : d = c
    BY <2>1, <2>2, GateParts DEF HeldOrOpened
  <2>4. Refreshing = {c} /\ Storing = {}
    BY <2>1, <2>3 DEF Storing
  <2> QED
    BY <1>1, <2>4 DEF ReadsToken
<1>2. CASE UNCHANGED crossed
  BY <1>2
<1>3. ASSUME NEW c \in Calls, CallStep(c), ~ReadsToken(c)
      PROVE  UNCHANGED crossed
  BY <1>3 DEF CallStep, Proceeds, Resolves, Declined, Answered, Unauthorized, Leaves, Grants,
              GrantIsLost, Refuses, MarksDead, RefreshFails, Stores, StoreFails, UpdatesRow,
              Interrupted
<1>4. CASE \/ \E c \in Calls, x \in Executors : Begins(c, x)
           \/ StartsFlow \/ Removes \/ (\E t \in Tokens : Revokes(t))
           \/ \E x \in Executors : Crashes(x)
           \/ UNCHANGED vars
  BY <1>4 DEF Begins, StartsFlow, Removes, Revokes, Crashes, vars
<1> QED
  BY <1>1, <1>2, <1>3, <1>4, Zenon DEF Next, CallStep

(* Within one executor, as long as no call that joined a refresh was          *)
(* interrupted and none that did left after another refresh began there, the  *)
(* gate is enough: while no flow connects it again, a connection is only ever *)
(* marked dead when the server refuses the token it holds (refreshInFlight,   *)
(* markRefreshGrantDead).                                                     *)
THEOREM OneExecutorDeadIsRefused ==
  ASSUME NEW e, Executors = {e}, Completions = {}
  PROVE  Spec /\ [](opened = {}) => [](row.dead => item \notin live)
<1>1. Init => ~crossed
  BY DEF Init
<1>2. TokensInv /\ opened = {} /\ ~crossed /\ [Next]_vars => ~crossed'
  BY NeverCrosses, Zenon DEF TokensInv
<1>3. TokensInv /\ ~crossed => (row.dead => item \notin live)
  <2>1. Storing = {}
    BY DEF Storing
  <2> QED
    BY <2>1, AloneAndKnows, Zenon DEF TokensInv, DeadMeansRefused
<1> QED
  BY InvHolds, <1>1, <1>2, <1>3, PTL DEF Spec

===============================================================================
