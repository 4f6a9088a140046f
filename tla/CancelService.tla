---------------------------- MODULE CancelService ----------------------------
(***************************************************************************)
(* What query cancellation promises to the clients of one Postgres         *)
(* endpoint, whatever stands between them and the backend.  A session      *)
(* opens once and closes once.  Its client is handed one cancel key.       *)
(* Whoever holds the key of a session may ask for that session to be       *)
(* interrupted, and only a session somebody asked about, and that is still *)
(* open, is ever interrupted.                                              *)
(***************************************************************************)

CONSTANT Session

VARIABLES
    state,       \* "none", "live" or "ended", for each session
    handed,      \* the sessions whose client has been handed a cancel key
    asked,       \* the sessions somebody holding their key asked to interrupt
    interrupted  \* the sessions that were interrupted

svars == <<state, handed, asked, interrupted>>

SInit ==
    /\ state = [s \in Session |-> "none"]
    /\ handed = {}
    /\ asked = {}
    /\ interrupted = {}

Open(s) ==
    /\ state[s] = "none"
    /\ state' = [state EXCEPT ![s] = "live"]
    /\ UNCHANGED <<handed, asked, interrupted>>

\* The backend may die while the key is on its way to the client.
HandOut(s) ==
    /\ state[s] # "none"
    /\ handed' = handed \cup {s}
    /\ UNCHANGED <<state, asked, interrupted>>

Ask(s) ==
    /\ s \in handed
    /\ asked' = asked \cup {s}
    /\ UNCHANGED <<state, handed, interrupted>>

Interrupt(s) ==
    /\ s \in asked
    /\ state[s] = "live"
    /\ interrupted' = interrupted \cup {s}
    /\ UNCHANGED <<state, handed, asked>>

\* One session ends, or a server shutdown ends several together.
Close(S) ==
    /\ \A s \in S : state[s] = "live"
    /\ state' = [s \in Session |-> IF s \in S THEN "ended" ELSE state[s]]
    /\ UNCHANGED <<handed, asked, interrupted>>

SNext ==
    \/ \E s \in Session : Open(s) \/ HandOut(s) \/ Ask(s) \/ Interrupt(s)
    \/ \E S \in SUBSET Session : Close(S)

SSpec == SInit /\ [][SNext]_svars
=============================================================================
