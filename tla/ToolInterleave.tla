--------------------------- MODULE ToolInterleave ---------------------------
(***************************************************************************)
(* Tool interleave: ThoughtProcessor's requests, each inside an operation  *)
(* or a reset of the lifecycle and inside the session lock, with           *)
(* InMemorySuspensionStore, which suspends a tool call until a later       *)
(* request presents its token.                                             *)
(*                                                                         *)
(* A thought is "call" or "answer" with the token it issued or redeemed;   *)
(* other thoughts are the sections that end without a change.              *)
(***************************************************************************)
EXTENDS SessionLock

CONSTANTS
  Tokens,       \* suspension tokens; as many tool calls are made
  NoToken       \* the token of a request that presents none

ASSUME TokensAssumption == NoToken \notin Tokens

VARIABLES
  kind,         \* what a request is
  presented,    \* the token it presents
  joined,       \* it has joined its token's chain of admissions
  waitsFor,     \* the admission before it in that chain, while it runs
  phase,        \* lifecycle phase per session; "expired": evicted, with a marker
  resetting,    \* sessions whose reset waits for the operations, by request
  history,      \* what the live chain accepted; the code retains its newest thoughts
  byToken,      \* _byToken: the session of the record, or NoSession
  bySession,    \* _bySession
  tails,        \* _admissionTails
  issued,       \* tokens ever generated
  lapsed        \* tokens whose expiresAt has passed

requestVars == <<kind, presented, joined, waitsFor, resetting>>
storeVars == <<byToken, bySession, issued, lapsed>>
vars == <<lockVars, requestVars, phase, history, storeVars, tails>>

-----------------------------------------------------------------------------

\* Operations admitted to s whose promise has not settled.
Admitted(s) ==
  {r \in Requests : /\ kind[r] \in {"call", "observe"}
                    /\ session[r] = s
                    /\ stage[r] \in {"waiting", "running"}}

Inside(r, k) == kind[r] = k /\ stage[r] = "running"

\* The request is over; its place in the lock's chain may not have settled.
Ends(r) ==
  /\ kind' = [kind EXCEPT ![r] = "over"]
  /\ presented' = [presented EXCEPT ![r] = NoToken]

Init ==
  /\ LockInit
  /\ kind = [r \in Requests |-> "none"]
  /\ presented = [r \in Requests |-> NoToken]
  /\ joined = {}
  /\ waitsFor = [r \in Requests |-> NoRequest]
  /\ resetting = [r \in Requests |-> NoSession]
  /\ phase = [s \in Sessions |-> "open"]
  /\ history = [s \in Sessions |-> <<>>]
  /\ byToken = [t \in Tokens |-> NoSession]
  /\ bySession = [s \in Sessions |-> {}]
  /\ tails = [t \in Tokens |-> NoRequest]
  /\ issued = {}
  /\ lapsed = {}

-----------------------------------------------------------------------------
(* ThoughtProcessor.process and resetSession.                              *)

\* process() without reset: runOperation calls withLock at once.
Begin(r, s, k, t) ==
  /\ kind[r] = "none"
  /\ phase[s] = "open"
  /\ k = "call" <=> t = NoToken
  /\ WithLock(r, s)
  /\ kind' = [kind EXCEPT ![r] = k]
  /\ presented' = [presented EXCEPT ![r] = t]
  /\ UNCHANGED <<joined, waitsFor, resetting, phase, history, storeVars, tails>>

\* withSessionReset closes the session; its callback waits for the operations.
BeginReset(r, s) ==
  /\ kind[r] = "none"
  /\ phase[s] \in {"open", "expired", "reset_failed"}
  /\ kind' = [kind EXCEPT ![r] = "reset"]
  /\ resetting' = [resetting EXCEPT ![r] = s]
  /\ phase' = [phase EXCEPT ![s] = "resetting"]
  /\ UNCHANGED <<lockVars, presented, joined, waitsFor, history, storeVars, tails>>

\* The operations have ended: the reset asks for the lock.
StartReset(r) ==
  /\ kind[r] = "reset"
  /\ stage[r] = "idle"
  /\ Admitted(resetting[r]) = {}
  /\ WithLock(r, resetting[r])
  /\ UNCHANGED <<requestVars, phase, history, storeVars, tails>>

EnterSection(r) ==
  /\ Enter(r)
  /\ UNCHANGED <<requestVars, phase, history, storeVars, tails>>

\* The lock is not acquired in time; a reset fails for it.
LockTimeout(r) ==
  /\ Timeout(r)
  /\ phase' = IF kind[r] = "reset" THEN [phase EXCEPT ![session[r]] = "reset_failed"] ELSE phase
  /\ Ends(r)
  /\ resetting' = [resetting EXCEPT ![r] = NoSession]
  /\ UNCHANGED <<joined, waitsFor, history, storeVars, tails>>

\* The place in the lock's chain settles.
SettlePlace(r) ==
  /\ Settle(r)
  /\ kind' = [kind EXCEPT ![r] = "none"]
  /\ UNCHANGED <<presented, joined, waitsFor, resetting, phase, history, storeVars, tails>>

-----------------------------------------------------------------------------
(* Inside the lock.                                                        *)

\* suspend: a fresh token, filed under its session.
Suspend(s, t) ==
  /\ t \notin issued
  /\ issued' = issued \cup {t}
  /\ byToken' = [byToken EXCEPT ![t] = s]
  /\ bySession' = [bySession EXCEPT ![s] = @ \cup {t}]

\* _handleToolCall: the thought is added and suspended in one turn.
SuspendCall(r, t) ==
  LET s == session[r] IN
  /\ Inside(r, "call")
  /\ Suspend(s, t)
  /\ history' = [history EXCEPT ![s] = Append(@, <<"call", t>>)]
  /\ Release(r)
  /\ Ends(r)
  /\ UNCHANGED <<joined, waitsFor, resetting, phase, tails, lapsed>>

\* The thought is refused, or it is neither a call nor an observation.
LeaveSection(r) ==
  /\ \/ Inside(r, "call")
     \/ Inside(r, "observe") /\ r \notin joined
  /\ Release(r)
  /\ Ends(r)
  /\ UNCHANGED <<joined, waitsFor, resetting, phase, history, storeVars, tails>>

\* compareAndAdmit, up to its await.
JoinToken(r) ==
  LET t == presented[r] IN
  /\ Inside(r, "observe")
  /\ r \notin joined
  /\ joined' = joined \cup {r}
  /\ waitsFor' = [waitsFor EXCEPT ![r] = tails[t]]
  /\ tails' = [tails EXCEPT ![t] = r]
  /\ UNCHANGED <<lockVars, kind, presented, resetting, phase, history, storeVars>>

Deleted(t) ==
  /\ byToken' = [byToken EXCEPT ![t] = NoSession]
  /\ bySession' = [bySession EXCEPT ![byToken[t]] = @ \ {t}]

\* The finally block: only the tail itself removes its entry.
TailsAfter(r, t) == [tails EXCEPT ![t] = IF @ = r THEN NoRequest ELSE @]

\* Mutant: an admission releases its successors only when it succeeds.
LeaveTokenHolding(r, t) ==
  /\ joined' = joined \ {r}
  /\ waitsFor' = IF history' = history THEN waitsFor
                 ELSE [q \in Requests |-> IF waitsFor[q] = r THEN NoRequest ELSE waitsFor[q]]
  /\ tails' = TailsAfter(r, t)

LeaveToken(r, t) ==
  /\ joined' = joined \ {r}
  /\ waitsFor' = [q \in Requests |-> IF waitsFor[q] = r THEN NoRequest ELSE waitsFor[q]]
  /\ tails' = TailsAfter(r, t)

\* Mutant: a token is good for every session.
PresentableAnywhere(t, s) == byToken[t] # NoSession /\ t \notin lapsed

\* The record exists, is not expired, and belongs to the session.
Presentable(t, s) == byToken[t] = s /\ t \notin lapsed

\* Mutant: the record is consumed before the observation is admitted.
AdmitConsumingFirst(r) ==
  LET t == presented[r]
      s == session[r]
  IN
  /\ Inside(r, "observe")
  /\ r \in joined
  /\ waitsFor[r] = NoRequest
  /\ IF Presentable(t, s)
     THEN /\ \/ history' = [history EXCEPT ![s] = Append(@, <<"answer", t>>)]
             \/ UNCHANGED history
          /\ Deleted(t)
     ELSE UNCHANGED <<history, byToken, bySession>>
  /\ LeaveToken(r, t)
  /\ Release(r)
  /\ Ends(r)
  /\ UNCHANGED <<resetting, phase, issued, lapsed>>

\* compareAndAdmit after its await: the earlier admissions of the token are over.
Admit(r) ==
  LET t == presented[r]
      s == session[r]
  IN
  /\ Inside(r, "observe")
  /\ r \in joined
  /\ waitsFor[r] = NoRequest
  /\ \/ /\ Presentable(t, s)
        /\ history' = [history EXCEPT ![s] = Append(@, <<"answer", t>>)]
        /\ Deleted(t)
     \/ /\ byToken[t] # NoSession /\ t \in lapsed
        /\ Deleted(t)
        /\ UNCHANGED history
     \/ \* Unknown, presented to another session, or refused by addThought.
        /\ byToken[t] # NoSession => t \notin lapsed
        /\ UNCHANGED <<history, byToken, bySession>>
  /\ LeaveToken(r, t)
  /\ Release(r)
  /\ Ends(r)
  /\ UNCHANGED <<resetting, phase, issued, lapsed>>

\* InMemorySuspensionStore.clearSession.
SuspensionsCleared(s) ==
  /\ byToken' = [t \in Tokens |-> IF t \in bySession[s] THEN NoSession ELSE byToken[t]]
  /\ bySession' = [bySession EXCEPT ![s] = {}]

ResetEnds(r, p) ==
  /\ Inside(r, "reset")
  /\ phase' = [phase EXCEPT ![session[r]] = p]
  /\ Release(r)
  /\ Ends(r)
  /\ resetting' = [resetting EXCEPT ![r] = NoSession]
  /\ UNCHANGED <<joined, waitsFor, tails, lapsed>>

\* The reset commits: the live chain and what the processor keeps beside it go.
CommitReset(r) ==
  /\ ResetEnds(r, "open")
  /\ history' = [history EXCEPT ![session[r]] = <<>>]
  /\ SuspensionsCleared(session[r])
  /\ UNCHANGED issued

\* A reset_state tool call: the reset commits, and the call is suspended.
ReplaceBySuspension(r, t) ==
  LET s == session[r] IN
  /\ ResetEnds(r, "open")
  /\ t \notin issued
  /\ history' = [history EXCEPT ![s] = <<<<"call", t>>>>]
  /\ byToken' = [q \in Tokens |-> IF q = t THEN s
                                 ELSE IF q \in bySession[s] THEN NoSession ELSE byToken[q]]
  /\ bySession' = [bySession EXCEPT ![s] = {t}]
  /\ issued' = issued \cup {t}

\* The reset fails, or it commits and its thought is refused.
FailReset(r) ==
  /\ ResetEnds(r, "reset_failed")
  /\ \/ UNCHANGED <<history, byToken, bySession>>
     \/ /\ history' = [history EXCEPT ![session[r]] = <<>>]
        /\ SuspensionsCleared(session[r])
  /\ UNCHANGED issued

-----------------------------------------------------------------------------
(* The store's clock and sweep, and eviction.                              *)

\* Time passes expiresAt.
Lapse(t) ==
  /\ t \in issued \ lapsed
  /\ lapsed' = lapsed \cup {t}
  /\ UNCHANGED <<lockVars, requestVars, phase, history, byToken, bySession, issued, tails>>

\* expireOlderThan(Date.now())
Sweep ==
  /\ \E t \in lapsed : byToken[t] # NoSession
  /\ byToken' = [t \in Tokens |-> IF t \in lapsed THEN NoSession ELSE byToken[t]]
  /\ bySession' = [s \in Sessions |-> bySession[s] \ lapsed]
  /\ UNCHANGED <<lockVars, requestVars, phase, history, issued, lapsed, tails>>

\* HistoryManager._removeLiveSession of an idle session.
Evict(s) ==
  /\ phase[s] = "open"
  /\ history[s] # <<>>
  /\ Admitted(s) = {}
  /\ history' = [history EXCEPT ![s] = <<>>]
  /\ SuspensionsCleared(s)
  /\ phase' = [phase EXCEPT ![s] = "expired"]
  /\ UNCHANGED <<lockVars, requestVars, issued, lapsed, tails>>

-----------------------------------------------------------------------------

\* What a request does on its own once it has begun.
Proceed(r) ==
  \/ StartReset(r) \/ EnterSection(r) \/ SettlePlace(r)
  \/ \E t \in Tokens : SuspendCall(r, t) \/ ReplaceBySuspension(r, t)
  \/ LeaveSection(r) \/ JoinToken(r) \/ Admit(r)
  \/ CommitReset(r) \/ FailReset(r)

Next ==
  \/ \E r \in Requests :
       \/ Proceed(r) \/ LockTimeout(r)
       \/ \E s \in Sessions :
            \/ BeginReset(r, s)
            \/ Begin(r, s, "call", NoToken)
            \/ \E t \in Tokens : Begin(r, s, "observe", t)
  \/ \E t \in Tokens : Lapse(t)
  \/ Sweep
  \/ \E s \in Sessions : Evict(s)

Spec == Init /\ [][Next]_vars

\* Continuations run; neither timers nor the sweep are needed.
FairSpec == Spec /\ \A r \in Requests : WF_vars(Proceed(r))

-----------------------------------------------------------------------------
(* Properties.                                                             *)

\* Every variable has its type, and only tokens that were generated lapse.
TypeOK ==
  /\ LockTypeOK
  /\ kind \in [Requests -> {"none", "call", "observe", "reset", "over"}]
  /\ presented \in [Requests -> Tokens \cup {NoToken}]
  /\ joined \in SUBSET Requests
  /\ waitsFor \in [Requests -> Requests \cup {NoRequest}]
  /\ resetting \in [Requests -> Sessions \cup {NoSession}]
  /\ phase \in [Sessions -> {"open", "resetting", "reset_failed", "expired"}]
  /\ history \in [Sessions -> Seq({"call", "answer"} \X Tokens)]
  /\ byToken \in [Tokens -> Sessions \cup {NoSession}]
  /\ bySession \in [Sessions -> SUBSET Tokens]
  /\ tails \in [Tokens -> Requests \cup {NoRequest}]
  /\ issued \in SUBSET Tokens
  /\ lapsed \in SUBSET issued

\* A chain answers each of its tool calls at most once, after the call, and
\* never a call of another session or of a chain since reset.
AnswersMatchCalls ==
  \A s \in Sessions : \A i \in DOMAIN history[s] : history[s][i][1] = "answer" =>
    LET t == history[s][i][2] IN
    /\ \E j \in 1..(i - 1) : history[s][j] = <<"call", t>>
    /\ \A j \in 1..(i - 1) : history[s][j] # <<"answer", t>>

\* A pending suspension belongs to a live chain that holds its call, unanswered:
\* resets and evictions leave no token behind that a new chain could redeem.
SuspensionsHaveCalls ==
  \A t \in Tokens : byToken[t] # NoSession =>
    LET chain == {history[byToken[t]][i] : i \in DOMAIN history[byToken[t]]} IN
    <<"call", t>> \in chain /\ <<"answer", t>> \notin chain

\* Calls, answers and pending tokens fit together.
CallsAndAnswers == AnswersMatchCalls /\ SuspensionsHaveCalls

\* contracts/suspension.ts:117: the record is consumed only after the observation
\* is admitted.  A token goes with its answer, with its time, or with its chain.
TokensAreNotLost ==
  [][\A t \in Tokens : byToken[t] # NoSession /\ byToken'[t] = NoSession =>
       LET s == byToken[t] IN
       \/ t \in lapsed
       \/ history'[s] = Append(history[s], <<"answer", t>>)
       \/ \A i \in DOMAIN history'[s] : history'[s][i] # <<"call", t>>]_vars

\* Every request settles, whatever the others present, refuse or reset.
EveryRequestSettles ==
  \A r \in Requests : kind[r] # "none" ~> kind[r] = "none"

=============================================================================
