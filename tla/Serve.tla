-------------------------------- MODULE Serve --------------------------------
(***************************************************************************)
(* The processes a driver runs by re-executing itself: the local AWS       *)
(* services (awslocal/serve.go, one per service) and the embedded Kafka    *)
(* broker (modules/kafka/serve.go).  The host spawns the process, takes it *)
(* for ready as soon as its unix socket can be dialled, sends it requests, *)
(* and stops it with SIGTERM; a crash or SIGKILL may end it at any point.  *)
(*                                                                         *)
(* The two start in different orders:                                      *)
(*   service: remove the socket, build the service (reads its state),      *)
(*            listen, start serving, install the signal handler            *)
(*   broker:  remove the socket, listen, install the signal handler, build *)
(*            (open the storage), start serving                            *)
(*                                                                         *)
(* The state of a service is the set of the writes it has applied.  It is  *)
(* persisted when the service is closed, and may be persisted before.      *)
(***************************************************************************)
EXTENDS Naturals, Sequences

CONSTANTS
    Kinds,    \* the kinds of process considered
    Request,  \* the writes clients send; each is sent once
    MaxLives  \* bound: how often the process is spawned

ASSUME ServeAssumption == Kinds \subseteq {"service", "broker"} /\ MaxLives \in Nat

VARIABLES
    kind,      \* which of the two it is
    stage,     \* "down", "boot", "run", "drain", "leave"
    done,      \* how many of the steps of the boot are done
    path,      \* the socket file exists
    signalled, \* a SIGTERM is waiting in the channel `sig`
    memory,    \* the writes the process holds
    disk,      \* the writes its data directory holds
    req,       \* where each request stands
    answered,  \* the writes this process has answered
    ready,     \* the host has dialled the socket: the instance is up
    ended,     \* how the last process ended
    cut,       \* its drain was cut short by the deadline
    lives      \* processes spawned so far

life == <<stage, done, path, signalled, ready, ended, cut, lives>>
data == <<memory, disk, req, answered>>
vars == <<kind, life, data>>

OrderListenFirst ==
    [service |-> <<"clear", "listen", "start", "build", "notify">>,
     broker  |-> <<"clear", "listen", "notify", "start", "build">>]
Order == [service |-> <<"clear", "build", "listen", "start", "notify">>,
          broker  |-> <<"clear", "listen", "notify", "build", "start">>]

Up == stage # "down"
Due(step) == stage = "boot" /\ done < 5 /\ Order[kind][done + 1] = step
Did(step) == Up /\ \E i \in 1 .. done : Order[kind][i] = step

\* The listener is bound, and a connection reaches this process's backlog.
Listening == stage \in {"boot", "run"} /\ Did("listen")

\* The accept loop runs.
Accepting == stage \in {"boot", "run"} /\ Did("start")

Waiting == {"queued", "running", "applied"}

Init ==
    /\ kind \in Kinds
    /\ stage = "down" /\ done = 0
    /\ path \in BOOLEAN            \* a crash may have left the socket file
    /\ signalled = FALSE
    /\ memory = {} /\ disk = {}
    /\ req = [r \in Request |-> "idle"]
    /\ answered = {}
    /\ ready = FALSE
    /\ ended = "none" /\ cut = FALSE
    /\ lives = 0

-----------------------------------------------------------------------------
(* The end of a process: whatever it still held is lost, and so are the    *)
(* requests it had not answered.                                           *)

Lost == [r \in Request |-> IF req[r] \in Waiting THEN "lost" ELSE req[r]]

End(how) ==
    /\ stage' = "down"
    /\ ended' = how
    /\ ready' = FALSE
    /\ signalled' = FALSE
    /\ memory' = {}
    /\ req' = Lost
    /\ UNCHANGED <<kind, done, cut, lives, disk, answered>>

\* SIGKILL, or a crash of the process or the machine: the socket file stays.
Kill == Up /\ End("killed") /\ UNCHANGED path

-----------------------------------------------------------------------------
(* The boot.                                                               *)

\* Plan removes the socket; a supervisor that spawns from the plan it has does
\* not call it again.
Spawn ==
    /\ ~Up
    /\ lives < MaxLives
    /\ stage' = "boot" /\ done' = 0
    /\ lives' = lives + 1
    /\ answered' = {} /\ cut' = FALSE /\ ended' = "none"
    /\ path' \in {path, FALSE}
    /\ UNCHANGED <<kind, signalled, memory, disk, req, ready>>

Advance ==
    /\ done' = done + 1
    /\ stage' = IF done + 1 = 5 THEN "run" ELSE "boot"
    /\ UNCHANGED <<kind, signalled, ready, ended, cut, lives>>

ClearSocketKeepsStale ==
    /\ Due("clear")
    /\ Advance
    /\ UNCHANGED <<path, data>>
ClearSocket ==
    /\ Due("clear")
    /\ path' = FALSE
    /\ Advance
    /\ UNCHANGED data

BuildForgets ==
    /\ Due("build")
    /\ memory' = {}
    /\ Advance
    /\ UNCHANGED <<path, disk, req, answered>>
Build ==
    /\ Due("build")
    /\ memory' = disk
    /\ Advance
    /\ UNCHANGED <<path, disk, req, answered>>

\* The factory or the broker's storage fails.
BuildFails == Due("build") /\ End("failed") /\ UNCHANGED path

\* bind(2) does not reuse a path: the service would return the error without
\* closing what it has built.
Listen ==
    /\ Due("listen")
    /\ IF path THEN End("inUse") /\ UNCHANGED path
       ELSE path' = TRUE /\ Advance /\ UNCHANGED data

StartServing == Due("start") /\ Advance /\ UNCHANGED <<path, data>>

Notify == Due("notify") /\ Advance /\ UNCHANGED <<path, data>>

-----------------------------------------------------------------------------
(* The stop.                                                               *)

\* SIGTERM before signal.Notify is left to the default action: the process
\* dies on the spot.
Terminate ==
    /\ Up /\ ~signalled
    /\ IF Did("notify")
       THEN /\ signalled' = TRUE
            /\ UNCHANGED <<kind, stage, done, path, ready, ended, cut, lives,
                           data>>
       ELSE End("term") /\ UNCHANGED path

\* srv.Serve returns an error of its own: Serve returns it at once.
ServeFails ==
    /\ stage = "run"
    /\ End("failed")
    /\ path' = FALSE

\* The signal is taken: Shutdown closes the listener, which removes the socket
\* file and resets what was still in its backlog.
TakeSignal ==
    /\ stage = "run" /\ signalled
    /\ stage' = "drain"
    /\ path' = FALSE
    /\ req' = [r \in Request |-> IF req[r] = "queued" THEN "lost" ELSE req[r]]
    /\ UNCHANGED <<kind, done, signalled, ready, ended, cut, lives, memory, disk,
                   answered>>

Close == disk' = disk \cup memory

\* Every handler has returned: the closer persists the state.
DrainAtOnce ==
    /\ stage = "drain"
    /\ stage' = "leave"
    /\ Close
    /\ UNCHANGED <<kind, done, path, signalled, ready, ended, cut, lives,
                   memory, req, answered>>
Drain ==
    /\ stage = "drain"
    /\ \A r \in Request : req[r] \notin Waiting
    /\ stage' = "leave"
    /\ Close
    /\ UNCHANGED <<kind, done, path, signalled, ready, ended, cut, lives,
                   memory, req, answered>>

\* Five seconds have passed: the closer runs beside the handlers still there.
DrainDeadlineNever ==
    FALSE /\ UNCHANGED vars
DrainDeadline ==
    /\ stage = "drain"
    /\ \E r \in Request : req[r] \in Waiting
    /\ stage' = "leave"
    /\ cut' = TRUE
    /\ Close
    /\ UNCHANGED <<kind, done, path, signalled, ready, ended, lives, memory, req,
                   answered>>

Leave == stage = "leave" /\ End("graceful") /\ UNCHANGED path

-----------------------------------------------------------------------------
(* The host and its clients.                                               *)

\* The readiness gate of the host: the socket accepts a connection.
BecomeReady ==
    /\ Listening /\ ~ready
    /\ ready' = TRUE
    /\ UNCHANGED <<kind, stage, done, path, signalled, ended, cut, lives, data>>

Move(r, to) ==
    /\ req' = [req EXCEPT ![r] = to]
    /\ UNCHANGED <<kind, life>>

Send(r) ==
    /\ ready /\ Listening
    /\ req[r] = "idle"
    /\ Move(r, "queued")
    /\ UNCHANGED <<memory, disk, answered>>

AcceptRequest(r) ==
    /\ req[r] = "queued" /\ Accepting
    /\ Move(r, "running")
    /\ UNCHANGED <<memory, disk, answered>>

\* A handler applies the write, and only then answers it.
Apply(r) ==
    /\ req[r] = "running"
    /\ memory' = memory \cup {r}
    /\ Move(r, "applied")
    /\ UNCHANGED <<disk, answered>>

Answer(r) ==
    /\ req[r] = "applied"
    /\ answered' = answered \cup {r}
    /\ Move(r, "answered")
    /\ UNCHANGED <<memory, disk>>

\* A service may persist its state whenever it likes.
Persist ==
    /\ Up /\ ~(memory \subseteq disk)
    /\ Close
    /\ UNCHANGED <<kind, life, memory, req, answered>>

-----------------------------------------------------------------------------

Boot ==
    \/ ClearSocket \/ Build \/ BuildFails \/ Listen
    \/ StartServing \/ Notify

Stop == TakeSignal \/ Drain \/ DrainDeadline \/ Leave

Handle(r) == AcceptRequest(r) \/ Apply(r) \/ Answer(r)

Next ==
    \/ Spawn \/ Kill \/ Boot \/ Terminate \/ ServeFails \/ Stop
    \/ BecomeReady \/ Persist
    \/ \E r \in Request : Send(r) \/ Handle(r)

Spec == Init /\ [][Next]_vars

\* The process runs; nothing obliges a handler to return.
LiveSpec == Spec /\ WF_vars(Boot) /\ WF_vars(Stop)

-----------------------------------------------------------------------------
(* Properties.                                                             *)

\* Besides the types: no handler runs before what it works on is built.
TypeOK ==
    /\ kind \in Kinds
    /\ stage \in {"down", "boot", "run", "drain", "leave"}
    /\ done \in 0 .. 5
    /\ path \in BOOLEAN /\ signalled \in BOOLEAN
    /\ ready \in BOOLEAN /\ cut \in BOOLEAN
    /\ memory \subseteq Request /\ disk \subseteq Request
    /\ answered \subseteq Request
    /\ req \in [Request -> {"idle", "answered", "lost"} \cup Waiting]
    /\ ended \in {"none", "killed", "failed", "inUse", "term", "graceful"}
    /\ lives \in 0 .. MaxLives
    /\ \A r \in Request : req[r] \in {"running", "applied"} => Did("build")

\* A process that was stopped gracefully, and not cut short, has persisted
\* every write it ever answered: no handler still runs when the closer does.
GracefulStopKeepsWrites ==
    ended = "graceful" /\ ~cut => answered \subseteq disk

\* What a restart finds is what the service goes on with: a write that is on
\* disk is never missing from the memory of a service that answers requests.
RestartsWithItsState == Accepting => disk \subseteq memory

\* A socket file left by a crash never keeps the next process from starting.
LeftoverSocketIsHarmless == ended # "inUse"

\* The host never takes a service for ready before it is built, though it only
\* looks at the socket.
ReadyServiceIsBuilt == kind = "service" /\ ready => Did("build")

\* A signal that was taken leads to the end of the process, even when a handler
\* never returns.
StopsInTime == signalled ~> ~Up
=============================================================================
