--------------------------- MODULE ConnectionTokens ----------------------------
(***************************************************************************)
(* The OAuth tokens of one connection: calls that find its access token    *)
(* expired or refused and refresh it (packages/core/sdk/src/executor.ts),  *)
(* and the flows that connect it again (oauth-service.ts).                 *)
(*                                                                         *)
(* A process has many executors (one for each session, or each request of  *)
(* a self-hosted server).  They share the connection's row and the         *)
(* credential provider, and nothing else.  Within one executor a gate has  *)
(* calls join the refresh that runs; any of them may be interrupted, when  *)
(* its execution or its request ends.  The authorization server (AS)       *)
(* rotates refresh tokens: each is good for one exchange.  Access tokens   *)
(* are not told apart, and the clock only decides whether one is expired.  *)
(***************************************************************************)
EXTENDS Naturals, FiniteSets

CONSTANTS
  Executors,
  Calls,        \* tool calls in progress
  Homes,        \* the executors that each call may be made in
  Completions,  \* callbacks of OAuth flows in progress
  MaxTokens,    \* bound: refresh tokens the AS issues
  MaxFlows,     \* bound: OAuth flows the user starts
  MaxRevoked    \* bound: tokens the AS revokes

ASSUME BoundsAssumption ==
  MaxTokens \in Nat \ {0} /\ MaxFlows \in Nat /\ MaxRevoked \in Nat

Tokens == 1 .. MaxTokens
Flows == 1 .. MaxFlows
NoToken == 0
NoFlow == 0
NoCall == "none"
NoExecutor == "none"

ASSUME HomesAssumption == Homes \in [Calls -> SUBSET Executors]
ASSUME NamesAssumption == NoCall \notin Calls /\ NoExecutor \notin Executors

VARIABLES
  row,        \* the connection: is it there, is it marked dead
  item,       \* the refresh token in the credential provider
  live,       \* the refresh tokens the AS takes
  issued,     \* how many it has issued
  revoked,    \* those it took and takes no longer, though nobody exchanged them
  lost,       \* the successor of item never arrived
  gate,       \* refreshInFlight, by executor: the call that runs the refresh
  opened,     \* the refreshes that run on after their entry was deleted
  call,       \* what each call is doing
  sessions,   \* the flows whose oauth_session row is there
  flows,      \* how many flows were started
  redeemed,   \* flows whose code the AS has taken
  completion, \* what each callback is doing
  crossed     \* has a refresh met another executor's, or a flow

vars == <<row, item, live, issued, revoked, lost, gate, opened, call, sessions, flows,
          redeemed, completion, crossed>>

atAS == <<live, issued, revoked, lost>>
gates == <<gate, opened>>
oauth == <<sessions, flows, redeemed, completion>>

IdleCall == [at |-> "idle", by |-> NoExecutor, of |-> NoCall, dead |-> FALSE,
             retried |-> FALSE, read |-> NoToken, hand |-> NoToken]
IdleCompletion == [at |-> "idle", flow |-> NoFlow, hand |-> NoToken]

\* A connection that was connected once.
Init ==
  /\ row = [there |-> TRUE, dead |-> FALSE]
  /\ item = 1
  /\ live = {1}
  /\ issued = 1
  /\ revoked = {}
  /\ lost = FALSE
  /\ gate = [e \in Executors |-> NoCall]
  /\ opened = {}
  /\ call = [c \in Calls |-> IdleCall]
  /\ sessions = {}
  /\ flows = 0
  /\ redeemed = {}
  /\ completion = [k \in Completions |-> IdleCompletion]
  /\ crossed = FALSE

\* Stages of a refresh.
Granting == {"reading", "sent", "refused", "minted", "stored"}
Told == {"renewed", "failed"}  \* it joined a refresh that is over
Refreshing == {c \in Calls : call[c].at \in Granting}
Storing == {k \in Completions : completion[k].at \in {"exchanged", "stored"}}

---------------------------------------------------------------------------
(* A call: read the row, wait for approval, resolve the token, call. *)

Begins(c, e) ==
  /\ call[c] = IdleCall
  /\ e \in Homes[c]
  /\ row.there
  /\ call' = [call EXCEPT ![c] =
       [at |-> "approving", by |-> e, of |-> NoCall, dead |-> row.dead,
        retried |-> FALSE, read |-> NoToken, hand |-> NoToken]]
  /\ UNCHANGED <<row, item, atAS, gates, oauth, crossed>>

\* Every call of the executor refreshes for itself.
FaultyRefreshes(c, again) ==
  /\ gate' = [gate EXCEPT ![call[c].by] = c]
  /\ call' = [call EXCEPT ![c].at = "reading", ![c].retried = again]

\* refreshConnectionToken: join the refresh in flight, or run it.  A grant
\* that the row read said was dead is not sent.  After the retry nothing asks
\* for it again.
Refreshes(c, again) ==
  LET e == call[c].by IN
  IF gate[e] # NoCall
  THEN /\ call' = [call EXCEPT ![c].at = "joined", ![c].of = gate[e],
                               ![c].dead = @ /\ ~again, ![c].retried = again]
       /\ UNCHANGED gate
  ELSE IF call[c].dead
  THEN call' = [call EXCEPT ![c] = IdleCall] /\ UNCHANGED gate
  ELSE /\ gate' = [gate EXCEPT ![e] = c]
       /\ call' = [call EXCEPT ![c].at = "reading", ![c].retried = again]

\* Approved, or nothing to approve: resolveConnectionValues.  By now the
\* expiry that the row had may be past, whatever it was when it was read.
Resolves(c) ==
  /\ call[c].at = "approving"
  /\ \/ call' = [call EXCEPT ![c].at = "calling"] /\ UNCHANGED gate
     \/ Refreshes(c, FALSE)
  /\ UNCHANGED <<row, item, atAS, opened, oauth, crossed>>

Declined(c) ==
  /\ call[c].at = "approving"
  /\ call' = [call EXCEPT ![c] = IdleCall]
  /\ UNCHANGED <<row, item, atAS, gates, oauth, crossed>>

\* The service answers: done, whatever it says, after the one retry.
Answered(c) ==
  /\ call[c].at = "calling"
  /\ call' = [call EXCEPT ![c] = IdleCall]
  /\ UNCHANGED <<row, item, atAS, gates, oauth, crossed>>

\* That the call was retried is not remembered.
FaultyUnauthorized(c) ==
  /\ call[c].at = "calling"
  /\ ~call[c].retried
  /\ Refreshes(c, FALSE)
  /\ UNCHANGED <<row, item, atAS, opened, oauth, crossed>>

\* A 401: forceRefreshConnectionValues, and one retry.
Unauthorized(c) ==
  /\ call[c].at = "calling"
  /\ ~call[c].retried
  /\ Refreshes(c, TRUE)
  /\ UNCHANGED <<row, item, atAS, opened, oauth, crossed>>

---------------------------------------------------------------------------
(* performTokenRefresh, run by the call that holds the gate. *)

\* gated's ensuring: whoever awaited a refresh, and however it stopped,
\* deletes the entry of the gate, though it may be another refresh's by now.
Deletes(c) ==
  LET e == call[c].by IN
  /\ gate' = [gate EXCEPT ![e] = NoCall]
  /\ opened' = (opened \cup {gate[e]}) \ {c, NoCall}

\* The refresh is over.  Those that joined it are told its outcome.
Settles(c, succeeds) ==
  /\ Deletes(c)
  /\ call' = [d \in Calls |->
       CASE d = c -> IF succeeds
                     THEN [call[d] EXCEPT !.at = "calling", !.read = NoToken, !.hand = NoToken]
                     ELSE IdleCall
         [] d # c /\ call[d].at = "joined" /\ call[d].of = c ->
              IF succeeds
              THEN [call[d] EXCEPT !.at = "renewed", !.of = NoCall]
              ELSE [IdleCall EXCEPT !.at = "failed", !.by = call[d].by]
         [] OTHER -> call[d]]

\* A call that joined wakes.
Leaves(c) ==
  /\ call[c].at \in Told
  /\ Deletes(c)
  /\ call' = [call EXCEPT ![c] =
       IF call[c].at = "renewed" THEN [call[c] EXCEPT !.at = "calling"] ELSE IdleCall]
  /\ UNCHANGED <<row, item, atAS, oauth, crossed>>

ReadsToken(c) ==
  /\ call[c].at = "reading"
  /\ call' = [call EXCEPT ![c].at = "sent", ![c].read = item]
  /\ crossed' = (crossed \/ Refreshing # {c} \/ Storing # {})
  /\ UNCHANGED <<row, item, atAS, gates, oauth>>

\* The AS gives the successor of the token it takes.
Grants(c) ==
  /\ call[c].at = "sent"
  /\ call[c].read \in live
  /\ issued < MaxTokens
  /\ issued' = issued + 1
  /\ live' = (live \ {call[c].read}) \cup {issued'}
  /\ call' = [call EXCEPT ![c].at = "minted", ![c].hand = issued']
  /\ UNCHANGED <<row, item, revoked, lost, gates, oauth, crossed>>

\* It takes the token, and its answer is lost.
GrantIsLost(c) ==
  /\ call[c].at = "sent"
  /\ call[c].read \in live
  /\ live' = live \ {call[c].read}
  /\ lost' = (lost \/ call[c].read = item)
  /\ Settles(c, FALSE)
  /\ UNCHANGED <<row, item, issued, revoked, oauth, crossed>>

\* invalid_grant
Refuses(c) ==
  /\ call[c].at = "sent"
  /\ call[c].read \notin live
  /\ call' = [call EXCEPT ![c].at = "refused", ![c].read = NoToken]
  /\ UNCHANGED <<row, item, atAS, gates, oauth, crossed>>

\* The mark makes a row of its own.
FaultyMarksDead(c) ==
  /\ call[c].at = "refused"
  /\ row' = [row EXCEPT !.dead = TRUE]
  /\ Settles(c, FALSE)
  /\ UNCHANGED <<item, atAS, oauth, crossed>>

\* markRefreshGrantDead.  The columns it does not set keep their values, and
\* a write that fails is ignored.
MarksDead(c) ==
  /\ call[c].at = "refused"
  /\ row' \in {row, [row EXCEPT !.dead = row.there]}
  /\ Settles(c, FALSE)
  /\ UNCHANGED <<item, atAS, oauth, crossed>>

\* Storage, the network or another error of the AS: nothing was exchanged, or
\* what was is stored.
RefreshFails(c) ==
  /\ call[c].at \in {"reading", "sent", "stored"}
  /\ Settles(c, FALSE)
  /\ UNCHANGED <<row, item, atAS, oauth, crossed>>

\* The access token is stored, and the successor is not.
FaultyStores(c) ==
  /\ call[c].at = "minted"
  /\ call' = [call EXCEPT ![c].at = "stored", ![c].read = NoToken, ![c].hand = NoToken]
  /\ UNCHANGED <<row, item, atAS, gates, oauth, crossed>>

Stores(c) ==
  /\ call[c].at = "minted"
  /\ item' = call[c].hand
  /\ call' = [call EXCEPT ![c].at = "stored", ![c].read = NoToken, ![c].hand = NoToken]
  /\ lost' = FALSE
  /\ UNCHANGED <<row, live, issued, revoked, gates, oauth, crossed>>

\* The provider does not take the successor.
StoreFails(c) ==
  /\ call[c].at = "minted"
  /\ lost' = (lost \/ call[c].read = item)
  /\ Settles(c, FALSE)
  /\ UNCHANGED <<row, item, live, issued, revoked, oauth, crossed>>

\* The gate stays, and nobody is told.
FaultyUpdatesRow(c) ==
  /\ call[c].at = "stored"
  /\ call' = [call EXCEPT ![c].at = "calling", ![c].read = NoToken]
  /\ UNCHANGED <<row, item, atAS, gates, oauth, crossed>>

\* updateMany: the new expiry.  A mark of a dead grant stays.
UpdatesRow(c) ==
  /\ call[c].at = "stored"
  /\ Settles(c, TRUE)
  /\ UNCHANGED <<row, item, atAS, oauth, crossed>>

---------------------------------------------------------------------------
(* Connecting again: start, complete, mintFromToken, mintOAuthConnection. *)

\* One that is cancelled, or too old, is one that is not completed again.
StartsFlow ==
  /\ flows < MaxFlows
  /\ flows' = flows + 1
  /\ sessions' = sessions \cup {flows'}
  /\ UNCHANGED <<row, item, atAS, gates, call, redeemed, completion, crossed>>

\* The callback finds the session; it may come twice.
Completes(k, f) ==
  /\ completion[k] = IdleCompletion
  /\ f \in sessions
  /\ completion' = [completion EXCEPT ![k] = [at |-> "found", flow |-> f, hand |-> NoToken]]
  /\ UNCHANGED <<row, item, atAS, gates, call, sessions, flows, redeemed, crossed>>

\* The AS takes a code once.
Exchanges(k) ==
  /\ completion[k].at = "found"
  /\ completion[k].flow \notin redeemed
  /\ issued < MaxTokens
  /\ issued' = issued + 1
  /\ live' = live \cup {issued'}
  /\ redeemed' = redeemed \cup {completion[k].flow}
  /\ completion' = [completion EXCEPT ![k].at = "exchanged", ![k].hand = issued']
  /\ crossed' = (crossed \/ Refreshing # {} \/ Storing # {})
  /\ UNCHANGED <<row, item, revoked, lost, gates, call, sessions, flows>>

StoresNew(k) ==
  /\ completion[k].at = "exchanged"
  /\ item' = completion[k].hand
  /\ completion' = [completion EXCEPT ![k].at = "stored", ![k].hand = NoToken]
  /\ lost' = FALSE
  /\ UNCHANGED <<row, live, issued, revoked, gates, call, sessions, flows, redeemed, crossed>>

\* provider_state is merged, as the refresh does it.
FaultyMints(k) ==
  /\ completion[k].at = "stored"
  /\ row' = [row EXCEPT !.there = TRUE]
  /\ completion' = [completion EXCEPT ![k].at = "minted"]
  /\ UNCHANGED <<item, atAS, gates, call, sessions, flows, redeemed, crossed>>

\* mintOAuthConnection rewrites the row in a transaction.
Mints(k) ==
  /\ completion[k].at = "stored"
  /\ row' = [there |-> TRUE, dead |-> FALSE]
  /\ completion' = [completion EXCEPT ![k].at = "minted"]
  /\ UNCHANGED <<item, atAS, gates, call, sessions, flows, redeemed, crossed>>

\* produceConnectionTools, then deleteSession.
Finishes(k) ==
  /\ completion[k].at = "minted"
  /\ completion' = [completion EXCEPT ![k] = IdleCompletion]
  /\ sessions' = sessions \ {completion[k].flow}
  /\ UNCHANGED <<row, item, atAS, gates, call, flows, redeemed, crossed>>

\* Refused, or broken off: what it has stored and written stays, and so does
\* the session.
CompletionFails(k) ==
  /\ completion[k] # IdleCompletion
  /\ completion' = [completion EXCEPT ![k] = IdleCompletion]
  /\ crossed' = (crossed \/ completion[k].at = "stored")
  /\ UNCHANGED <<row, item, atAS, gates, call, sessions, flows, redeemed>>

---------------------------------------------------------------------------
(* The user, the AS, interruptions and crashes. *)

\* connectionsRemove; the provider's items stay.
Removes ==
  /\ row.there
  /\ row' = [there |-> FALSE, dead |-> FALSE]
  /\ UNCHANGED <<item, atAS, gates, call, oauth, crossed>>

\* The AS takes a token no longer: the stored one, one in flight or another.
Revokes(t) ==
  /\ t \in live
  /\ Cardinality(revoked) < MaxRevoked
  /\ live' = live \ {t}
  /\ revoked' = revoked \cup {t}
  /\ UNCHANGED <<row, item, issued, lost, gates, call, oauth, crossed>>

\* A call is interrupted, when its execution or its request ends.  The refresh
\* it runs ends with it; one it joined goes on.
Interrupted(c) ==
  \/ /\ call[c].at \in {"approving", "calling"}
     /\ call' = [call EXCEPT ![c] = IdleCall]
     /\ UNCHANGED <<row, item, atAS, gates, oauth, crossed>>
  \/ /\ call[c].at \in {"joined"} \cup Told
     /\ Deletes(c)
     /\ call' = [call EXCEPT ![c] = IdleCall]
     /\ UNCHANGED <<row, item, atAS, oauth, crossed>>
  \/ /\ call[c].at \in Granting
     /\ lost' = (lost \/ (call[c].at = "minted" /\ call[c].read = item))
     /\ Settles(c, FALSE)
     /\ UNCHANGED <<row, item, live, issued, revoked, oauth, crossed>>

\* The process dies, with the successors its calls have in hand.
Crashes(e) ==
  /\ \E c \in Calls : call[c].by = e
  /\ lost' = (lost \/ \E c \in Calls :
                call[c].by = e /\ call[c].at = "minted" /\ call[c].read = item)
  /\ gate' = [gate EXCEPT ![e] = NoCall]
  /\ opened' = {c \in opened : call[c].by # e}
  /\ call' = [c \in Calls |-> IF call[c].by = e THEN IdleCall ELSE call[c]]
  /\ UNCHANGED <<row, item, live, issued, revoked, oauth, crossed>>

\* What a call does on its own, once its approval is decided.
Proceeds(c) ==
  \/ Answered(c) \/ Unauthorized(c) \/ Leaves(c)
  \/ ReadsToken(c) \/ Grants(c) \/ GrantIsLost(c) \/ Refuses(c) \/ MarksDead(c)
  \/ RefreshFails(c) \/ Stores(c) \/ StoreFails(c) \/ UpdatesRow(c)

Next ==
  \/ \E c \in Calls, e \in Executors : Begins(c, e)
  \/ \E c \in Calls : Resolves(c) \/ Declined(c) \/ Proceeds(c) \/ Interrupted(c)
  \/ \E k \in Completions :
       \/ \E f \in Flows : Completes(k, f)
       \/ Exchanges(k) \/ StoresNew(k) \/ Mints(k) \/ Finishes(k) \/ CompletionFails(k)
  \/ StartsFlow \/ Removes
  \/ \E t \in Tokens : Revokes(t)
  \/ \E e \in Executors : Crashes(e)

Spec == Init /\ [][Next]_vars

(* Fairness.  Storage, the AS and the service answer or time out: a call   *)
(* that has its approval, or needs none, goes on when it can.  Nobody has  *)
(* to decide an approval.                                                  *)
FairSpec == Spec /\ \A c \in Calls : WF_vars(Proceeds(c))

---------------------------------------------------------------------------
(* Properties *)

(* Type correctness.  A row that was removed is not brought back by the    *)
(* updates of a refresh that outlives it (updateMany).                     *)
TypeOK ==
  /\ row \in [there : BOOLEAN, dead : BOOLEAN]
  /\ row.dead => row.there
  /\ item \in Tokens
  /\ live \subseteq 1 .. issued
  /\ issued \in Tokens
  /\ revoked \subseteq 1 .. issued
  /\ lost \in BOOLEAN
  /\ gate \in [Executors -> Calls \cup {NoCall}]
  /\ opened \subseteq Calls
  /\ call \in [Calls -> {IdleCall} \cup
       [at : {"approving", "joined", "calling"} \cup Told \cup Granting, by : Executors,
        of : Calls \cup {NoCall}, dead : BOOLEAN, retried : BOOLEAN,
        read : Tokens \cup {NoToken}, hand : Tokens \cup {NoToken}]]
  /\ sessions \subseteq 1 .. flows
  /\ flows \in 0 .. MaxFlows
  /\ redeemed \subseteq Flows
  /\ completion \in [Completions -> {IdleCompletion} \cup
       [at : {"found", "exchanged", "stored", "minted"}, flow : Flows,
        hand : Tokens \cup {NoToken}]]
  /\ crossed \in BOOLEAN

(* In one executor a refresh runs beside another only if a call that had   *)
(* joined a refresh there stopped and deleted its entry (refreshInFlight:  *)
(* "so we never fire two refresh-token grants for the same connection in   *)
(* parallel" holds until then); the gate names a refresh that runs, and    *)
(* whoever joined one waits for one that runs: no delete strands a waiter. *)
GateHoldsTheGrant ==
  /\ \A c \in Refreshing : gate[call[c].by] = c \/ c \in opened
  /\ \A e \in Executors : gate[e] # NoCall =>
       gate[e] \in Refreshing \ opened /\ call[gate[e]].by = e
  /\ \A c \in Calls : call[c].at = "joined" =>
       call[c].of \in Refreshing /\ call[call[c].of].by = call[c].by
  /\ opened \subseteq Refreshing

(* The provider holds a refresh token that nobody has exchanged, or the    *)
(* refresh that exchanged it is under way and has its successor, or the    *)
(* successor was lost: however refreshes of several executors, or of one   *)
(* whose gate was opened, and new connections overlap, none writes back a  *)
(* token that was already exchanged (performTokenRefresh, mintFromToken).  *)
StoredTokenIsGood ==
  \/ item \in live \cup revoked
  \/ lost
  \/ \E c \in Calls : call[c].at = "minted" /\ call[c].read = item

(* While no refresh has met a flow or another refresh, a connection is     *)
(* marked dead only if the token it holds is one the AS no longer takes    *)
(* (markRefreshGrantDead; a new connection clears the mark).               *)
DeadMeansRefused ==
  row.dead /\ ~crossed /\ Storing = {} => item \notin live

(* Whatever other calls, executors and flows do, each step of a call, or   *)
(* of the refresh it joined, takes it further: it never waits twice in one *)
(* attempt, starts over or retries again, so its steps are bounded         *)
(* (execute: "exactly one retry", refreshConnectionToken).                 *)
StageLeft ==
  [idle |-> 0, failed |-> 1, calling |-> 1, renewed |-> 2, joined |-> 3, stored |-> 2,
   minted |-> 3, refused |-> 3, sent |-> 4, reading |-> 5, approving |-> 6]

StepsLeft(c) ==
  StageLeft[call[c].at] + (IF call[c].at \in {"idle", "failed"} \/ call[c].retried THEN 0 ELSE 7)

CallsOnlyAdvance ==
  [][\A c \in Calls :
       call[c] # IdleCall /\ call'[c] # call[c] => StepsLeft(c)' < StepsLeft(c)]_vars

(* Every call whose approval is decided ends: what it joined settles,      *)
(* whoever deletes its entry or is interrupted meanwhile, and it retries   *)
(* once (execute: "exactly one retry").                                    *)
CallsEnd ==
  \A c \in Calls : call[c].at \notin {"idle", "approving"} ~> call[c] = IdleCall

===============================================================================
