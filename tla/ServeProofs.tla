----------------------------- MODULE ServeProofs -----------------------------
(***************************************************************************)
(* The safety properties of Serve, for any set of requests and any number  *)
(* of lives.  LiveSpec is Spec with fairness, so they hold of it as well.  *)
(***************************************************************************)
EXTENDS Serve, TLAPS

\* Where the steps of the boot stand in the order of each kind.
Rank == [service |-> [clear |-> 1, build |-> 2, listen |-> 3, start |-> 4,
                      notify |-> 5],
         broker  |-> [clear |-> 1, build |-> 4, listen |-> 2, start |-> 5,
                      notify |-> 3]]

Steps == {"clear", "build", "listen", "start", "notify"}

\* A step of the boot is done once as many steps as its rank are, and due when
\* one less is.
LEMMA RankOfOrder ==
    ASSUME kind \in {"service", "broker"}, NEW i \in 1 .. 5, NEW s \in Steps
    PROVE  Order[kind][i] = s <=> i = Rank[kind][s]
<1>1. i = 1 \/ i = 2 \/ i = 3 \/ i = 4 \/ i = 5
  OBVIOUS
<1>2. CASE kind = "service"
  BY <1>1, <1>2 DEF Order, Rank, Steps
<1>3. CASE kind = "broker"
  BY <1>1, <1>3 DEF Order, Rank, Steps
<1> QED
  BY <1>2, <1>3

LEMMA RankFacts ==
    ASSUME kind \in {"service", "broker"}
    PROVE  /\ \A s \in Steps : Rank[kind][s] \in 1 .. 5
           /\ Rank[kind]["clear"] = 1
           /\ \A s \in Steps \ {"build"} : Rank[kind][s] # Rank[kind]["build"]
           /\ Rank[kind]["build"] < Rank[kind]["start"]
           /\ Rank[kind]["listen"] < Rank[kind]["start"]
           /\ Rank[kind]["clear"] < Rank[kind]["listen"]
           /\ kind = "service" => Rank[kind]["build"] < Rank[kind]["listen"]
<1>1. CASE kind = "service"
  BY <1>1 DEF Rank, Steps
<1>2. CASE kind = "broker"
  BY <1>2 DEF Rank, Steps
<1> QED
  BY <1>1, <1>2

Passed(s) == Rank[kind][s] <= done

Types ==
    /\ kind \in Kinds /\ kind \in {"service", "broker"}
    /\ stage \in {"down", "boot", "run", "drain", "leave"}
    /\ done \in 0 .. 5
    /\ path \in BOOLEAN /\ signalled \in BOOLEAN
    /\ ready \in BOOLEAN /\ cut \in BOOLEAN
    /\ memory \subseteq Request /\ disk \subseteq Request
    /\ answered \subseteq Request
    /\ req \in [Request -> {"idle", "answered", "lost"} \cup Waiting]
    /\ ended \in {"none", "killed", "failed", "inUse", "term", "graceful"}
    /\ lives \in 0 .. MaxLives

-----------------------------------------------------------------------------
(* The inductive invariant.                                                *)

\* How far the boot is, and what a process that is gone has left behind.
StagesAgree ==
    /\ stage = "boot" => done < 5
    /\ stage \in {"run", "drain", "leave"} => done = 5
    /\ stage = "down" => memory = {} /\ \A r \in Request : req[r] \notin Waiting
    /\ stage # "down" => ended = "none"
    /\ cut => stage \in {"leave", "down"}
    /\ ready => stage # "down" /\ Passed("listen")

\* Between the removal of the socket and the listen nobody creates it.
SocketFree ==
    /\ stage = "boot" /\ Passed("clear") /\ ~Passed("listen") => ~path
    /\ ended # "inUse"

\* Nothing is answered before the state is loaded, and from then on the process
\* holds all that is on disk and all that it has answered.
StateHeld ==
    stage # "down" =>
        /\ answered \subseteq memory
        /\ Passed("build") => disk \subseteq memory
        /\ ~Passed("build") => memory = {}

\* A handler runs only after the accept loop was started, and what it has
\* applied is in memory.
HandlersServed ==
    \A r \in Request :
        /\ req[r] \in {"running", "applied"} => stage # "down" /\ Passed("start")
        /\ req[r] = "applied" => r \in memory

\* After a drain that was not cut short nobody is left to answer, and what was
\* answered is on disk.
Flushed ==
    /\ stage = "leave" /\ ~cut => /\ answered \subseteq disk
                                 /\ \A r \in Request : req[r] \notin Waiting
    /\ ended = "graceful" /\ ~cut => answered \subseteq disk

IInv == Types /\ StagesAgree /\ SocketFree /\ StateHeld /\ HandlersServed
          /\ Flushed

\* The guards of the boot, in terms of ranks.
LEMMA DueMeans ==
    ASSUME Types, NEW s \in Steps
    PROVE  Due(s) <=> stage = "boot" /\ done < 5 /\ Rank[kind][s] = done + 1
BY RankOfOrder DEF Types, Due

LEMMA DidMeans ==
    ASSUME Types, NEW s \in Steps
    PROVE  Did(s) <=> stage # "down" /\ Passed(s)
<1>1. \A i \in 1 .. done : i \in 1 .. 5
  BY DEF Types
<1>2. \A i \in 1 .. done : Order[kind][i] = s <=> i = Rank[kind][s]
  BY <1>1, RankOfOrder DEF Types
<1>3. Rank[kind][s] \in 1 .. 5
  BY RankFacts DEF Types
<1> QED
  BY <1>2, <1>3 DEF Did, Up, Passed, Types

LEMMA InitInv == Init => IInv
<1> SUFFICES ASSUME Init PROVE IInv
  OBVIOUS
<1> USE DEF Init
<1>1. Types
  <2>1. kind \in {"service", "broker"} /\ done \in 0 .. 5 /\ lives \in 0 .. MaxLives
    BY ServeAssumption
  <2>2. req \in [Request -> {"idle", "answered", "lost"} \cup Waiting]
    OBVIOUS
  <2> QED
    BY <2>1, <2>2 DEF Types
<1>2. StagesAgree /\ HandlersServed /\ Flushed
  BY DEF StagesAgree, HandlersServed, Flushed, Waiting
<1>3. SocketFree /\ StateHeld
  BY DEF SocketFree, StateHeld
<1> QED
  BY <1>1, <1>2, <1>3 DEF IInv

\* The end of a process, for any reason but that it was stopped gracefully, or
\* gracefully from the last stage.
LEMMA EndInv ==
    ASSUME IInv, Up,
           NEW how \in {"killed", "failed", "term", "graceful"},
           End(how), how = "graceful" => stage = "leave",
           path' \in BOOLEAN
    PROVE  IInv'
<1> USE DEF IInv, End
<1>1. Types'
  BY DEF Types, Lost, Waiting
<1>2. StagesAgree'
  BY DEF Types, StagesAgree, Lost, Waiting, Passed
<1>3. SocketFree' /\ StateHeld'
  BY DEF Types, SocketFree, StateHeld, Passed
<1>4. HandlersServed'
  BY DEF Types, HandlersServed, Lost, Waiting, Passed
<1>5. Flushed'
  BY DEF Types, StagesAgree, Flushed, Up
<1> QED
  BY <1>1, <1>2, <1>3, <1>4, <1>5

\* A step of the boot that is done: the next rank is passed.
LEMMA AdvanceInv ==
    ASSUME IInv, NEW s \in Steps, Due(s), Advance,
           path' = IF s = "clear" THEN FALSE
                   ELSE IF s = "listen" THEN TRUE ELSE path,
           memory' = IF s = "build" THEN disk ELSE memory,
           UNCHANGED <<disk, req, answered>>
    PROVE  IInv'
<1> USE DEF IInv, Advance
<1>1. /\ stage = "boot" /\ done \in 0 .. 4 /\ Rank[kind][s] = done + 1
      /\ kind' = kind /\ done' = done + 1
  BY DueMeans DEF Types
<1>2. \A t \in Steps : Rank[kind][t] \in 1 .. 5
  BY RankFacts DEF Types
<1>3. /\ Rank[kind]["clear"] = 1
      /\ s # "build" => Rank[kind]["build"] # done + 1
      /\ s = "build" => Rank[kind]["build"] = done + 1
      /\ Rank[kind]["build"] < Rank[kind]["start"]
  BY <1>1, RankFacts DEF Types
<1>4. Types'
  <2>1. done' \in 0 .. 5 /\ stage' \in {"boot", "run"}
    BY <1>1
  <2>2. path \in BOOLEAN
    BY DEF Types
  <2>3. path' \in BOOLEAN
    BY <2>2
  <2>4. memory' \subseteq Request
    BY DEF Types
  <2> QED
    BY <1>1, <2>1, <2>3, <2>4 DEF Types
<1>5. StagesAgree'
  BY <1>1, <1>2 DEF Types, StagesAgree, Passed, Steps
<1>6. SocketFree'
  <2>1. ended' # "inUse"
    BY <1>1 DEF SocketFree
  <2>2. ASSUME Passed("clear")', ~Passed("listen")'
        PROVE  path' = FALSE
    <3>1. ~Passed("listen") /\ s # "listen"
      BY <1>1, <1>2, <2>2 DEF Passed, Steps
    <3>2. CASE s = "clear"
      BY <3>2
    <3>3. CASE s # "clear"
      <4>1. done # 0
        BY <1>1, <1>3, <3>3, RankOfOrder DEF Types, Steps
      <4>2. Passed("clear")
        BY <1>1, <1>3, <4>1 DEF Passed
      <4> QED
        BY <1>1, <3>1, <3>3, <4>2 DEF SocketFree, Types
    <3> QED
      BY <3>2, <3>3
  <2> QED
    BY <2>1, <2>2 DEF SocketFree
<1>7. StateHeld'
  <2>1. stage # "down" /\ answered \subseteq memory
    BY <1>1 DEF StateHeld
  <2>2. CASE s = "build"
    <3>1. memory = {} /\ answered = {}
      BY <1>1, <1>3, <2>1, <2>2 DEF StateHeld, Passed, Types
    <3> QED
      BY <1>1, <1>3, <2>2, <3>1 DEF StateHeld, Passed
  <2>3. CASE s # "build"
    <3>1. Passed("build")' <=> Passed("build")
      BY <1>1, <1>2, <1>3, <2>3 DEF Passed, Steps
    <3> QED
      BY <2>1, <2>3, <3>1 DEF StateHeld
  <2> QED
    BY <2>2, <2>3
<1>8. HandlersServed'
  <2>1. ASSUME NEW r \in Request, req[r] = "applied"
        PROVE  r \in memory'
    <3>1. Passed("start") /\ r \in memory
      BY <2>1 DEF HandlersServed
    <3>2. s # "build"
      BY <1>1, <1>2, <1>3, <3>1 DEF Passed, Steps
    <3> QED
      BY <3>1, <3>2
  <2>2. ASSUME Passed("start") PROVE Passed("start")'
    BY <1>1, <1>2, <2>2 DEF Passed, Steps
  <2>3. stage' # "down"
    BY <1>1
  <2> QED
    BY <2>1, <2>2, <2>3 DEF HandlersServed
<1>9. Flushed'
  BY <1>1 DEF StagesAgree, Flushed
<1> QED
  BY <1>4, <1>5, <1>6, <1>7, <1>8, <1>9

LEMMA BootInv == ASSUME IInv, Boot PROVE IInv'
<1> USE DEF Steps
<1>1. CASE ClearSocket
  BY <1>1, AdvanceInv DEF ClearSocket, data
<1>2. CASE Build
  BY <1>2, AdvanceInv DEF Build
<1>3. CASE BuildFails
  BY <1>3, EndInv DEF BuildFails, Due, Up, IInv, Types
<1>4. CASE Listen
  <2>1. Due("listen")
    BY <1>4 DEF Listen
  <2>2. path = FALSE
    <3>1. stage = "boot" /\ Rank[kind]["listen"] = done + 1 /\ done < 5
      BY <2>1, DueMeans DEF IInv
    <3>2. Passed("clear") /\ ~Passed("listen")
      BY <3>1, RankFacts DEF Passed, IInv, Types
    <3> QED
      BY <3>1, <3>2 DEF IInv, SocketFree, Types
  <2> QED
    BY <1>4, <2>1, <2>2, AdvanceInv DEF Listen, data
<1>5. CASE StartServing
  BY <1>5, AdvanceInv DEF StartServing, data
<1>6. CASE Notify
  BY <1>6, AdvanceInv DEF Notify, data
<1> QED
  BY <1>1, <1>2, <1>3, <1>4, <1>5, <1>6 DEF Boot

LEMMA StopInv == ASSUME IInv, Stop PROVE IInv'
<1> USE DEF IInv
<1>1. CASE TakeSignal
  <2> USE <1>1 DEF TakeSignal
  <2>1. Types' /\ StagesAgree'
    BY DEF Types, StagesAgree, Waiting, Passed
  <2>2. SocketFree' /\ StateHeld' /\ HandlersServed' /\ Flushed'
    BY DEF SocketFree, StateHeld, HandlersServed, Flushed, Passed, Types,
           StagesAgree
  <2> QED
    BY <2>1, <2>2
<1>2. CASE Drain \/ DrainDeadline
  <2> USE <1>2 DEF Drain, DrainDeadline, Close
  <2>0. stage' = "leave" /\ cut' \in BOOLEAN
    BY DEF Types
  <2>1. Types' /\ StagesAgree'
    BY <2>0 DEF Types, StagesAgree, Passed
  <2>2. SocketFree' /\ HandlersServed'
    BY DEF SocketFree, HandlersServed, Passed
  <2>3. StateHeld' /\ Flushed'
    BY DEF StateHeld, Flushed, Passed, StagesAgree, Types
  <2> QED
    BY <2>1, <2>2, <2>3
<1>3. CASE Leave
  BY <1>3, EndInv DEF Leave, Up, Types
<1> QED
  BY <1>1, <1>2, <1>3 DEF Stop

\* The host and the signals.
LEMMA HostInv ==
    ASSUME IInv, Spawn \/ Kill \/ Terminate \/ ServeFails \/ BecomeReady
    PROVE  IInv'
<1> USE DEF IInv
<1>1. CASE Spawn
  <2> USE <1>1 DEF Spawn, Up
  <2>1. \A s \in Steps : ~Passed(s)'
    BY RankFacts DEF Types, Passed
  <2>2. Types'
    <3>1. done' \in 0 .. 5 /\ lives' \in 0 .. MaxLives
      BY ServeAssumption DEF Types
    <3>2. path' \in BOOLEAN
      BY DEF Types
    <3> QED
      BY <3>1, <3>2 DEF Types
  <2>0. StagesAgree'
    BY <2>1 DEF Types, StagesAgree, Steps, Waiting
  <2>3. SocketFree' /\ StateHeld'
    BY <2>1 DEF SocketFree, StateHeld, StagesAgree, Steps
  <2>4. HandlersServed' /\ Flushed'
    BY DEF HandlersServed, Flushed, StagesAgree, Waiting
  <2> QED
    BY <2>0, <2>2, <2>3, <2>4
<1>2. CASE Kill
  BY <1>2, EndInv DEF Kill, Types
<1>3. CASE Terminate
  <2>1. CASE Did("notify")
    <3> USE <1>3, <2>1 DEF Terminate, data
    <3>1. Types' /\ StagesAgree' /\ SocketFree'
      BY DEF Types, StagesAgree, SocketFree, Passed
    <3>2. StateHeld' /\ HandlersServed' /\ Flushed'
      BY DEF StateHeld, HandlersServed, Flushed, Passed
    <3> QED
      BY <3>1, <3>2
  <2>2. CASE ~Did("notify")
    BY <1>3, <2>2, EndInv DEF Terminate, Types
  <2> QED
    BY <2>1, <2>2
<1>4. CASE ServeFails
  BY <1>4, EndInv DEF ServeFails, Up
<1>5. CASE BecomeReady
  <2> USE <1>5 DEF BecomeReady, data
  <2>1. stage # "down" /\ Passed("listen")
    BY DidMeans DEF Listening, Steps
  <2>2. Types' /\ StagesAgree' /\ SocketFree'
    BY <2>1 DEF Types, StagesAgree, SocketFree, Passed
  <2>3. StateHeld' /\ HandlersServed' /\ Flushed'
    BY DEF StateHeld, HandlersServed, Flushed, Passed
  <2> QED
    BY <2>2, <2>3
<1> QED
  BY <1>1, <1>2, <1>3, <1>4, <1>5

\* A step of a request.
LEMMA RequestInv ==
    ASSUME IInv, NEW r \in Request, Send(r) \/ Handle(r)
    PROVE  IInv'
<1> USE DEF IInv, Move, life
<1>1. CASE Send(r) \/ AcceptRequest(r)
  <2> USE <1>1 DEF Send, AcceptRequest
  <2>1. stage \in {"boot", "run"}
    BY DEF Listening, Accepting
  <2>2. AcceptRequest(r) => Passed("start")
    BY DidMeans DEF Accepting, Steps
  <2>3. Types' /\ StagesAgree' /\ SocketFree'
    BY <2>1 DEF Types, StagesAgree, SocketFree, Passed, Waiting
  <2>4. StateHeld' /\ Flushed'
    BY <2>1 DEF StateHeld, Flushed, Passed
  <2>5. HandlersServed'
    BY <2>1, <2>2 DEF HandlersServed, Types, Passed
  <2> QED
    BY <2>3, <2>4, <2>5
<1>2. CASE Apply(r)
  <2> USE <1>2 DEF Apply
  <2>1. stage # "down" /\ Passed("start") /\ (stage = "leave" => cut)
    BY DEF HandlersServed, Flushed, Waiting, Types
  <2>2. Passed("build")
    BY <2>1, RankFacts DEF Types, Passed, Steps
  <2>3. Types' /\ StagesAgree' /\ SocketFree'
    BY <2>1 DEF Types, StagesAgree, SocketFree, Passed, Waiting
  <2>4. StateHeld' /\ Flushed'
    BY <2>1, <2>2 DEF StateHeld, Flushed, Passed, StagesAgree
  <2>5. HandlersServed'
    BY <2>1 DEF HandlersServed, Types, Passed
  <2> QED
    BY <2>3, <2>4, <2>5
<1>3. CASE Answer(r)
  <2> USE <1>3 DEF Answer
  <2>1. stage # "down" /\ r \in memory /\ (stage = "leave" => cut)
    BY DEF HandlersServed, Flushed, Waiting, Types
  <2>3. Types' /\ StagesAgree' /\ SocketFree'
    BY <2>1 DEF Types, StagesAgree, SocketFree, Passed, Waiting
  <2>4. StateHeld' /\ Flushed'
    BY <2>1 DEF StateHeld, Flushed, Passed, StagesAgree
  <2>5. HandlersServed'
    BY <2>1 DEF HandlersServed, Types, Passed
  <2> QED
    BY <2>3, <2>4, <2>5
<1> QED
  BY <1>1, <1>2, <1>3 DEF Handle

LEMMA StutterInv == IInv /\ UNCHANGED vars => IInv'
BY DEF vars, life, data, IInv, Types, StagesAgree, SocketFree, StateHeld,
       HandlersServed, Flushed, Passed

\* A service that persists its state.
LEMMA PersistInv == ASSUME IInv, Persist PROVE IInv'
<1> USE DEF IInv, Persist, Close, life
<1>1. Types' /\ StagesAgree' /\ SocketFree'
  BY DEF Types, StagesAgree, SocketFree, Passed
<1>2. StateHeld' /\ HandlersServed' /\ Flushed'
  BY DEF StateHeld, HandlersServed, Flushed, Passed
<1> QED
  BY <1>1, <1>2

LEMMA Invariance == Spec => []IInv
<1>1. IInv /\ [Next]_vars => IInv'
  BY BootInv, StopInv, HostInv, RequestInv, PersistInv, StutterInv DEF Next
<1> QED
  BY InitInv, <1>1, PTL DEF Spec

-----------------------------------------------------------------------------
(* The properties of Serve.                                                *)

\* Every variable keeps its type, and no handler runs before what it works on
\* is built, in either order of the boot.
THEOREM TypeCorrect == Spec => []TypeOK
<1>1. IInv => TypeOK
  <2> SUFFICES ASSUME IInv PROVE TypeOK
    OBVIOUS
  <2>1. Passed("start") /\ stage # "down" => Did("build")
    BY DidMeans, RankFacts DEF IInv, Types, Passed, Steps
  <2> QED
    BY <2>1 DEF IInv, Types, HandlersServed, TypeOK
<1> QED
  BY <1>1, Invariance, PTL

\* A graceful stop that was not cut short loses no answered write.
THEOREM NoAnswerIsLost == Spec => []GracefulStopKeepsWrites
<1>1. IInv => GracefulStopKeepsWrites
  BY DEF IInv, Flushed, GracefulStopKeepsWrites
<1> QED
  BY <1>1, Invariance, PTL

\* A process that serves holds all that its data directory does.
THEOREM StateComesBack == Spec => []RestartsWithItsState
<1>1. IInv => RestartsWithItsState
  <2> SUFFICES ASSUME IInv, Accepting PROVE disk \subseteq memory
    BY DEF RestartsWithItsState
  <2>1. stage # "down" /\ Passed("build")
    BY DidMeans, RankFacts DEF IInv, Types, Accepting, Passed, Steps
  <2> QED
    BY <2>1 DEF IInv, StateHeld
<1> QED
  BY <1>1, Invariance, PTL

\* No process ever fails to listen because of a socket left behind.
THEOREM SocketIsFree == Spec => []LeftoverSocketIsHarmless
<1>1. IInv => LeftoverSocketIsHarmless
  BY DEF IInv, SocketFree, LeftoverSocketIsHarmless
<1> QED
  BY <1>1, Invariance, PTL

\* A service that can be dialled is built.
THEOREM ReadyMeansBuilt == Spec => []ReadyServiceIsBuilt
<1>1. IInv => ReadyServiceIsBuilt
  <2> SUFFICES ASSUME IInv, kind = "service", ready PROVE Did("build")
    BY DEF ReadyServiceIsBuilt
  <2>1. stage # "down" /\ Passed("build")
    BY RankFacts DEF IInv, Types, StagesAgree, Passed, Steps
  <2> QED
    BY <2>1, DidMeans DEF IInv, Steps
<1> QED
  BY <1>1, Invariance, PTL
=============================================================================
