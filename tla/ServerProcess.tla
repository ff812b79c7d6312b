------------------------------ MODULE ServerProcess ------------------------------
(***************************************************************************)
(* The process of the command line: it creates the server step by step,    *)
(* puts the HTTP transport in front of it, and on a signal or a failed     *)
(* start takes both down in order, the transport first, under one          *)
(* deadline.  The session life-cycle of the server is in SessionLifecycle, *)
(* its buffer in PersistenceBuffer: here a tool call only leaves something *)
(* unsaved, and a flush saves it.  A signal before the handlers are        *)
(* registered kills the process and is not modelled.                       *)
(***************************************************************************)
EXTENDS StreamableHttp

VARIABLES
    boot,       \* how far the start has come, or how it is undone
    store,      \* the persistence backend the server owns
    watchers,   \* the two directory watchers
    refresh,    \* _refreshPromise: a discovery refresh is running
    unsaved,    \* the write buffer holds accepted thoughts
    down,       \* where ToolAwareSequentialThinkingServer.stop() stands
    faults,     \* a step of that stop has failed
    cli,        \* where CliLifecycle.shutdown() stands
    process

serverVars == <<store, watchers, refresh, unsaved, down, faults>>
vars == <<transportVars, boot, serverVars, cli, process>>

TypeOK ==
    /\ SessionsTypeOK
    /\ boot \in {"persistence", "container", "watchers", "loading", "discovering", "configuring",
                 "listening", "serving", "disposing", "rollback"}
    /\ store \in {"none", "open", "closed", "unclosed"}
    /\ watchers \in {"off", "on"}
    /\ {refresh, unsaved, faults} \subseteq BOOLEAN
    /\ down \in {"up", "draining", "watchers", "flushing", "closing", "stopped", "failed"}
    /\ cli \in {"up", "transport", "server", "settled", "timedOut"}
    /\ process \in {"running", "clean", "error"}

Init ==
    /\ TransportInit
    /\ boot = "persistence"
    /\ store = "none"
    /\ watchers = "off"
    /\ refresh = FALSE
    /\ unsaved = FALSE
    /\ down = "up"
    /\ faults = FALSE
    /\ cli = "up"
    /\ process = "running"

--------------------------------------------------------------------------------
(* The start. *)

OpenStore ==
    /\ boot = "persistence"
    /\ boot' = "container"
    /\ store' = "open"
    /\ UNCHANGED <<transportVars, watchers, refresh, unsaved, down, faults, cli, process>>

\* The constructor resolves the services and starts the watchers.
Construct ==
    /\ boot = "container"
    /\ boot' = "watchers"
    /\ watchers' = "on"
    /\ UNCHANGED <<transportVars, store, refresh, unsaved, down, faults, cli, process>>

\* The watchers are ready, the stored state is loaded, the first discovery is done, the
\* environment is parsed.
Advance ==
    /\ \/ boot = "watchers" /\ boot' = "loading"
       \/ boot = "loading" /\ boot' = "discovering"
       \/ boot = "discovering" /\ boot' = "configuring"
       \/ boot = "configuring" /\ boot' = "listening"
    /\ UNCHANGED <<transportVars, serverVars, cli, process>>

\* The transport is connected and the signal handlers are registered.
Serve ==
    /\ boot = "listening"
    /\ Connect
    /\ boot' = "serving"
    /\ UNCHANGED <<serverVars, cli, process>>

\* Mutant: the backend is forgotten when the container fails.
AbandonStartLeaking ==
    /\ boot \in {"persistence", "container"}
    /\ process' = "error"
    /\ UNCHANGED <<transportVars, boot, serverVars, cli>>

\* What closeOwnedPersistence makes of the backend; its failure is collected.
Closed == IF store = "open" THEN {"closed", "unclosed"} ELSE {store}

\* Without a server object there is only the backend to close, if there is one.
AbandonStart ==
    /\ boot \in {"persistence", "container"}
    /\ store' \in Closed
    /\ process' = "error"
    /\ UNCHANGED <<transportVars, boot, watchers, refresh, unsaved, down, faults, cli>>

\* create() disposes a server that did not come up, with no deadline.
DisposeStart ==
    /\ boot \in {"watchers", "loading", "discovering"}
    /\ boot' = "disposing"
    /\ down' = "draining"
    /\ UNCHANGED <<transportVars, store, watchers, refresh, unsaved, faults, cli, process>>

ExitDisposed ==
    /\ boot = "disposing"
    /\ down \in {"stopped", "failed"}
    /\ process' = "error"
    /\ UNCHANGED <<transportVars, boot, serverVars, cli>>

--------------------------------------------------------------------------------
(* CliLifecycle. *)

\* Once create() has returned, a failed start is a shutdown: of the server alone before the
\* transport is attached, of both after.
RollbackStart ==
    /\ \/ /\ boot = "configuring"
          /\ cli' = "server"
          /\ down' = "draining"
          /\ UNCHANGED transportVars
       \/ /\ boot = "listening"
          /\ cli' = "transport"
          /\ StopTransport
          /\ UNCHANGED down
    /\ boot' = "rollback"
    /\ UNCHANGED <<store, watchers, refresh, unsaved, faults, process>>

\* SIGINT or SIGTERM; a second one finds the handler's promise and changes nothing.
Signal ==
    /\ boot = "serving"
    /\ cli = "up"
    /\ cli' = "transport"
    /\ StopTransport
    /\ UNCHANGED <<boot, serverVars, process>>

TransportStopped ==
    /\ cli = "transport"
    /\ stop = "settled"
    /\ cli' = "server"
    /\ down' = "draining"
    /\ UNCHANGED <<transportVars, boot, store, watchers, refresh, unsaved, faults, process>>

ServerStopped ==
    /\ cli = "server"
    /\ down \in {"stopped", "failed"}
    /\ cli' = "settled"
    /\ UNCHANGED <<transportVars, boot, serverVars, process>>

\* Mutant: the deadline covers the stop of the server only.
DeadlineOfServer ==
    /\ cli = "server"
    /\ cli' = "timedOut"
    /\ UNCHANGED <<transportVars, boot, serverVars, process>>

Deadline ==
    /\ cli \in {"transport", "server"}
    /\ cli' = "timedOut"
    /\ UNCHANGED <<transportVars, boot, serverVars, process>>

Exit ==
    /\ cli \in {"settled", "timedOut"}
    /\ process' = IF cli = "settled" /\ down = "stopped" /\ boot = "serving"
                  THEN "clean" ELSE "error"
    /\ UNCHANGED <<transportVars, boot, serverVars, cli>>

--------------------------------------------------------------------------------
(* ToolAwareSequentialThinkingServer. *)

\* Refreshes are refused from the first call of stop().
StartRefresh ==
    /\ boot = "serving"
    /\ down = "up"
    /\ ~refresh
    /\ refresh' = TRUE
    /\ UNCHANGED <<transportVars, boot, store, watchers, unsaved, down, faults, cli, process>>

EndRefresh ==
    /\ refresh
    /\ refresh' = FALSE
    /\ faults' \in {faults, down # "up" \/ faults}
    /\ UNCHANGED <<transportVars, boot, store, watchers, unsaved, down, cli, process>>

\* The buffer writes in the background.
Flush ==
    /\ unsaved
    /\ store = "open"
    /\ unsaved' = FALSE
    /\ UNCHANGED <<transportVars, boot, store, watchers, refresh, down, faults, cli, process>>

\* The coordinator admits the shutdown when the last operation has left.
Drained ==
    /\ down = "draining"
    /\ Receiving = {}
    /\ down' = "watchers"
    /\ UNCHANGED <<transportVars, boot, store, watchers, refresh, unsaved, faults, cli, process>>

\* The watchers and the accepted refresh are joined; every failure is collected, none ends the stop.
StopWatchers ==
    /\ down = "watchers"
    /\ ~refresh
    /\ watchers' = "off"
    /\ faults' \in {faults, TRUE}
    /\ down' = "flushing"
    /\ UNCHANGED <<transportVars, boot, store, refresh, unsaved, cli, process>>

FlushHistory ==
    /\ down = "flushing"
    /\ \/ unsaved' = FALSE /\ UNCHANGED faults
       \/ faults' = TRUE /\ UNCHANGED unsaved
    /\ down' = "closing"
    /\ UNCHANGED <<transportVars, boot, store, watchers, refresh, cli, process>>

\* The last step: it decides whether the stop was clean.
CloseStore ==
    /\ down = "closing"
    /\ \/ store' = "closed" /\ UNCHANGED faults
       \/ store' = "unclosed" /\ faults' = TRUE
    /\ down' = IF faults' THEN "failed" ELSE "stopped"
    /\ UNCHANGED <<transportVars, boot, watchers, refresh, unsaved, cli, process>>

\* A tool call may leave a thought in the buffer.
ToolCall(r) ==
    /\ Finish(r)
    /\ unsaved' \in {unsaved, TRUE}
    /\ UNCHANGED <<boot, store, watchers, refresh, down, faults, cli, process>>

HttpStep ==
    /\ \/ \E r \in Requests : Request(r)
       \/ \E s \in Sessions : GrowIdle(s)
       \/ Sweep
       \/ ForceClose
    /\ UNCHANGED <<boot, serverVars, cli, process>>

HttpProgress(r) == Progress(r) /\ UNCHANGED <<boot, serverVars, cli, process>>
HttpClosing == Closing /\ UNCHANGED <<boot, serverVars, cli, process>>

Start == OpenStore \/ Construct \/ Advance \/ Serve \/ AbandonStart \/ DisposeStart \/ RollbackStart

\* The continuations of the server and of the command line.
StopStep ==
    Drained \/ StopWatchers \/ FlushHistory \/ CloseStore \/ ExitDisposed
        \/ TransportStopped \/ ServerStopped \/ Exit

\* A process that has exited does nothing any more.
Next ==
    /\ process = "running"
    /\ \/ Start
       \/ Signal
       \/ Deadline
       \/ StopStep
       \/ StartRefresh
       \/ EndRefresh
       \/ Flush
       \/ HttpStep
       \/ HttpClosing
       \/ \E r \in Requests : HttpProgress(r) \/ ToolCall(r)

Spec == Init /\ [][Next]_vars

\* Timers fire, callbacks run and a refresh ends; a tool call need never answer, no client
\* sends anything, and the start need not go on.
FairSpec ==
    /\ Spec
    /\ WF_vars(process = "running" /\ Deadline)
    /\ WF_vars(process = "running" /\ StopStep)
    /\ WF_vars(process = "running" /\ EndRefresh)
    /\ \A r \in Requests : WF_vars(process = "running" /\ HttpProgress(r))

--------------------------------------------------------------------------------
(* What could go wrong. *)

\* The table never outgrows maxSessions, every pin belongs to one handler that is still there,
\* and a session whose request is being served is not swept under it: only stop() removes it.
Pinned(s) == {r \in Requests : pinned[r] = s}

SessionsAccounted ==
    /\ Cardinality(Live) <= MaxSessions
    /\ \A s \in Sessions : pins[s] = Cardinality(Pinned(s))
    /\ \A r \in Requests : pinned[r] # NoSession =>
            r \in Receiving /\ (ShuttingDown \/ status[pinned[r]] = "live")

\* A timer, a lost peer, a shutdown and a late result race for the response: the first one wins,
\* and a request that was refused is not executed after all.
FirstAnswerWins ==
    [][\A r \in Requests :
        /\ answer[r] # "none" => answer'[r] = answer[r]
        /\ r \in Receiving' \ Receiving => answer'[r] = "none"]_vars

\* From stop() on no work is dispatched and no session opened, and the promise of stop() resolves
\* only when nothing is read, run or kept any more.
StopIsComplete ==
    [][/\ ShuttingDown => Receiving' \subseteq Receiving
       /\ stop' = "settled" => Reading' = {} /\ Receiving' = {} /\ Live' = {}]_vars

\* A request ends once: with its first answer, and at the latest with the transport.
RequestsEndOnce == FirstAnswerWins /\ StopIsComplete

\* Whatever ended the process short of the deadline, clean or not, the backend it opened was
\* closed (or refused to close) and the watchers were off, after the last tool call; and exit
\* code 0 means that nothing accepted was left unsaved.
ExitReleases ==
    /\ store \in {"closed", "unclosed"} => Receiving = {} /\ ~refresh
    /\ process # "running" /\ cli # "timedOut" => store # "open" /\ watchers = "off"
    /\ process = "clean" => ~unsaved /\ store = "closed"

\* Once a shutdown has begun the process ends, even if a tool call never answers.
ShutdownEnds == (cli # "up" \/ boot = "disposing") ~> process # "running"
==================================================================================
