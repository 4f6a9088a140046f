------------------------------- MODULE PgProxy -------------------------------
(***************************************************************************)
(* The Postgres proxy filter (modules/postgres/proxyfilter.go): what       *)
(* happens to a client connection from its first byte to its end.          *)
(*                                                                         *)
(*   Preamble   answers SSL/GSS negotiation, terminates TLS, buffers the   *)
(*              startup message or routes a CancelRequest out of band.     *)
(*   Handshake  relays the backend's startup, and swaps the real cancel    *)
(*              key of the backend for a synthetic one held by a registry  *)
(*              shared by every connection.                                *)
(*                                                                         *)
(* A backend's real key (pid, secret) is never used by two backends, so it *)
(* is modelled by the connection the backend serves.  The registry, the    *)
(* host that calls the filter, the postmaster and the clients are outside  *)
(* the repository, and are modelled from how the filter uses them.         *)
(***************************************************************************)
EXTENDS Naturals

CONSTANTS
    Conn,      \* client connections; each is accepted and closed once
    Endpoints, \* the engine.ProxyOpts an endpoint may have: TLS # nil, RequireTLS
    Origins,   \* whether a client may be local (LocalUnix), remote, or both
    SynKey,    \* the synthetic keys the registry can issue
    NoKey,     \* no key
    NoTarget   \* no registry entry, or no CancelTarget

ASSUME KeyAssumption ==
    /\ Conn \cap SynKey = {}
    /\ NoKey \notin Conn \cup SynKey
    /\ NoTarget \notin Conn

ASSUME OptionAssumption ==
    /\ Endpoints \subseteq [tls : BOOLEAN, require : BOOLEAN]
    /\ Origins \subseteq BOOLEAN

VARIABLES
    opts,       \* the options of this endpoint
    phase,      \* where the proxy's goroutine for the connection stands
    local,      \* opts.LocalUnix: the client came over a unix socket
    cur,        \* the channel `cur` reads and writes: "plain" or "tls"
    encrypted,  \* readStartup's `encrypted`
    proto,      \* the startup message the connection was accepted with
    gone,       \* the client has dropped the connection
    synthetic,  \* Handshake's `synthetic`, NoKey while `registered` is false
    clientKey,  \* the cancel key the client was handed
    ask,        \* the key of the CancelRequest the connection carried
    target,     \* routeCancel's `target`
    registry,   \* engine.CancelRegistry: synthetic key -> backend key
    backend,    \* the backend process of the connection: none, live, ended
    up,         \* the postmaster accepts connections
    inbox,      \* cancel packets the postmaster has still to process
    hits        \* <<cancel connection, session>>: signals the postmaster sent

vars == <<opts, phase, local, cur, encrypted, proto, gone, synthetic, clientKey,
          ask, target, registry, backend, up, inbox, hits>>

preambleVars == <<local, cur, encrypted, proto>>
keyVars      == <<synthetic, clientKey, registry>>
cancelVars   == <<ask, target>>
serverVars   == <<backend, up, inbox, hits>>

Phase == {"new", "preamble", "tls", "dial", "handshake", "keyRead", "keyed",
          "session", "lookup", "forward", "drain", "closed"}

StartupKind == {"v3", "v32", "nameless", "malformed"}

Key == Conn \cup SynKey

Init ==
    /\ opts \in Endpoints
    /\ phase = [c \in Conn |-> "new"]
    /\ local \in [Conn -> Origins]
    /\ cur = [c \in Conn |-> "plain"]
    /\ encrypted = [c \in Conn |-> FALSE]
    /\ proto = [c \in Conn |-> "none"]
    /\ gone = [c \in Conn |-> FALSE]
    /\ synthetic = [c \in Conn |-> NoKey]
    /\ clientKey = [c \in Conn |-> NoKey]
    /\ ask = [c \in Conn |-> NoKey]
    /\ target = [c \in Conn |-> NoTarget]
    /\ registry = [k \in SynKey |-> NoTarget]
    /\ backend = [c \in Conn |-> "none"]
    /\ up = TRUE
    /\ inbox = {}
    /\ hits = {}

Goto(c, p) == phase' = [phase EXCEPT ![c] = p]

-----------------------------------------------------------------------------
(* Preamble: negotiation, startup, and the RequireTLS gate.                *)

Accept(c) ==
    /\ phase[c] = "new"
    /\ Goto(c, "preamble")
    /\ UNCHANGED <<opts, gone, preambleVars, keyVars, cancelVars, serverVars>>

\* readStartup goes on with the reader that negotiate returned, and takes the
\* connection for encrypted exactly when that is a different one.
ResumeAnyAnswer(c, next) ==
    /\ encrypted' = [encrypted EXCEPT ![c] = TRUE]
    /\ cur' = [cur EXCEPT ![c] = next]
Resume(c, next) ==
    /\ encrypted' = [encrypted EXCEPT ![c] = @ \/ next # cur[c]]
    /\ cur' = [cur EXCEPT ![c] = next]

\* An SSLRequest to an endpoint with a TLS configuration: 'S' is written and
\* the server side of the TLS handshake starts.
OfferTLS(c) ==
    /\ phase[c] = "preamble"
    /\ opts.tls
    /\ ~gone[c]
    /\ Goto(c, "tls")
    /\ UNCHANGED <<opts, gone, preambleVars, keyVars, cancelVars, serverVars>>

TLSEstablished(c) ==
    /\ phase[c] = "tls"
    /\ ~gone[c]
    /\ Goto(c, "preamble")
    /\ Resume(c, "tls")
    /\ UNCHANGED <<opts, local, proto, gone, keyVars, cancelVars, serverVars>>

\* A GSSENCRequest, or an SSLRequest with no TLS configuration: 'N' is written
\* and the same reader is used again.
RefuseEncryption(c) ==
    /\ phase[c] = "preamble"
    /\ ~gone[c]
    /\ Resume(c, cur[c])
    /\ UNCHANGED <<opts, phase, local, proto, gone, keyVars, cancelVars,
                   serverVars>>

\* A failed TLS handshake, a read or write on a connection the client left, or
\* a packet of an implausible length: the error goes to the client and Preamble
\* returns it.
PreambleFails(c) ==
    /\ phase[c] \in {"preamble", "tls"}
    /\ Goto(c, "closed")
    /\ UNCHANGED <<opts, gone, preambleVars, keyVars, cancelVars, serverVars>>

\* readStartup parses the parameters of protocol 3.0 only; any other version
\* names no database, and is refused as if none had been given.
NamesDatabaseAnyMinor(kind) == kind \in {"v3", "v32"}
NamesDatabase(kind) == kind = "v3"

MayProceed(c) == opts.require => encrypted[c] \/ local[c]

Startup(c, kind) ==
    /\ phase[c] = "preamble"
    /\ ~gone[c]
    /\ IF NamesDatabase(kind) /\ MayProceed(c)
       THEN /\ Goto(c, "dial")
            /\ proto' = [proto EXCEPT ![c] = kind]
       ELSE /\ Goto(c, "closed")
            /\ UNCHANGED proto
    /\ UNCHANGED <<opts, local, cur, encrypted, gone, keyVars, cancelVars,
                   serverVars>>

-----------------------------------------------------------------------------
(* Handshake: the backend's startup, relayed message by message.           *)

\* The host dials the backend and replays the startup message.
DialBackend(c) ==
    /\ phase[c] = "dial"
    /\ IF up
       THEN /\ Goto(c, "handshake")
            /\ backend' = [backend EXCEPT ![c] = "live"]
       ELSE /\ Goto(c, "closed")
            /\ UNCHANGED backend
    /\ UNCHANGED <<opts, gone, preambleVars, keyVars, cancelVars, up, inbox,
                   hits>>

\* The registry never issues a key twice.
Fresh(k) == \A c \in Conn : synthetic[c] # k

RegisterSharedBuffer(c, k) ==
    registry' = [j \in SynKey |-> IF j = k \/ registry[j] # NoTarget
                                  THEN c ELSE NoTarget]
Register(c, k) == registry' = [registry EXCEPT ![k] = c]

\* BackendKeyData is read: the eight-byte key of protocol 3.0 is registered
\* and replaced, before anything is written to the client.  A longer key is
\* relayed as it is.
ReadKey(c) ==
    /\ phase[c] = "handshake"
    /\ backend[c] = "live"
    /\ Goto(c, "keyRead")
    /\ IF proto[c] = "v3"
       THEN \E k \in SynKey :
                /\ Fresh(k)
                /\ Register(c, k)
                /\ synthetic' = [synthetic EXCEPT ![c] = k]
       ELSE UNCHANGED <<registry, synthetic>>
    /\ UNCHANGED <<opts, gone, preambleVars, clientKey, cancelVars, serverVars>>

\* The message with the rewritten payload is written to the client.  A write
\* to a client that has left may still succeed, but nobody reads it.
WriteKey(c) ==
    /\ phase[c] = "keyRead"
    /\ Goto(c, "keyed")
    /\ clientKey' = IF gone[c] THEN clientKey
                    ELSE [clientKey EXCEPT ![c] =
                            IF synthetic[c] # NoKey THEN synthetic[c] ELSE c]
    /\ UNCHANGED <<opts, gone, preambleVars, synthetic, registry, cancelVars,
                   serverVars>>

\* ReadyForQuery is relayed; Handshake returns the cleanup for later.
ReadyCleansUp(c) ==
    /\ phase[c] = "keyed"
    /\ backend[c] = "live"
    /\ Goto(c, "session")
    /\ registry' = [registry EXCEPT ![synthetic[c]] = NoTarget]
    /\ UNCHANGED <<opts, gone, preambleVars, synthetic, clientKey, cancelVars,
                   serverVars>>
Ready(c) ==
    /\ phase[c] = "keyed"
    /\ backend[c] = "live"
    /\ Goto(c, "session")
    /\ UNCHANGED <<opts, gone, preambleVars, keyVars, cancelVars, serverVars>>

CleanupNothing(c) == UNCHANGED registry
Cleanup(c) ==
    registry' = IF synthetic[c] # NoKey
                THEN [registry EXCEPT ![synthetic[c]] = NoTarget]
                ELSE registry

\* An ErrorResponse was relayed, the backend hung up, or a write to a client
\* that has left failed: Handshake cleans up itself.
HandshakeFailsKeepingKey(c) ==
    /\ phase[c] \in {"handshake", "keyRead", "keyed"}
    /\ phase[c] = "keyRead" => gone[c]
    /\ Goto(c, "closed")
    /\ UNCHANGED <<opts, gone, preambleVars, keyVars, cancelVars, serverVars>>
HandshakeFails(c) ==
    /\ phase[c] \in {"handshake", "keyRead", "keyed"}
    /\ phase[c] = "keyRead" => gone[c]
    /\ Cleanup(c)
    /\ Goto(c, "closed")
    /\ UNCHANGED <<opts, gone, preambleVars, synthetic, clientKey, cancelVars,
                   serverVars>>

\* Either side hung up: the host stops relaying and calls the cleanup.
EndSession(c) ==
    /\ phase[c] = "session"
    /\ gone[c] \/ backend[c] = "ended"
    /\ Cleanup(c)
    /\ Goto(c, "closed")
    /\ UNCHANGED <<opts, gone, preambleVars, synthetic, clientKey, cancelVars,
                   serverVars>>

-----------------------------------------------------------------------------
(* CancelRequest: routeCancel, and what the postmaster does with a packet. *)

\* A client presents a key that some client was handed, perhaps long ago.
RequestCancel(c, k) ==
    /\ phase[c] = "preamble"
    /\ ~gone[c]
    /\ \E o \in Conn : clientKey[o] = k
    /\ Goto(c, "lookup")
    /\ ask' = [ask EXCEPT ![c] = k]
    /\ UNCHANGED <<opts, gone, preambleVars, keyVars, target, serverVars>>

FoundBySocket(k) == CHOOSE t \in Conn \cup {NoTarget} :
    \/ \E j \in SynKey : registry[j] = t /\ t # NoTarget
    \/ t = NoTarget /\ \A j \in SynKey : registry[j] = NoTarget
Found(k) == IF k \in SynKey THEN registry[k] ELSE NoTarget

LookupUnchecked(c) ==
    /\ phase[c] = "lookup"
    /\ target' = [target EXCEPT ![c] = Found(ask[c])]
    /\ Goto(c, "forward")
    /\ UNCHANGED <<opts, gone, preambleVars, keyVars, ask, serverVars>>
Lookup(c) ==
    /\ phase[c] = "lookup"
    /\ target' = [target EXCEPT ![c] = Found(ask[c])]
    /\ Goto(c, IF Found(ask[c]) = NoTarget THEN "closed" ELSE "forward")
    /\ UNCHANGED <<opts, gone, preambleVars, keyVars, ask, serverVars>>

\* Dial the backend socket and write the packet; a server that is down fails
\* one or the other, and the cancel is dropped.
Forward(c) ==
    /\ phase[c] = "forward"
    /\ IF up
       THEN /\ inbox' = inbox \cup {<<c, target[c]>>}
            /\ Goto(c, "drain")
       ELSE /\ Goto(c, "closed")
            /\ UNCHANGED inbox
    /\ UNCHANGED <<opts, gone, preambleVars, keyVars, cancelVars, backend, up,
                   hits>>

\* io.Copy returns at EOF or at the five-second deadline.
Drain(c) ==
    /\ phase[c] = "drain"
    /\ Goto(c, "closed")
    /\ UNCHANGED <<opts, gone, preambleVars, keyVars, cancelVars, serverVars>>

\* The postmaster signals the live backend that has the key, if one has it.
PostmasterCancel(c) ==
    /\ up
    /\ \E k \in Conn :
        /\ <<c, k>> \in inbox
        /\ inbox' = inbox \ {<<c, k>>}
        /\ hits' = IF backend[k] = "live" THEN hits \cup {<<c, k>>} ELSE hits
    /\ UNCHANGED <<opts, phase, gone, preambleVars, keyVars, cancelVars, backend,
                   up>>

-----------------------------------------------------------------------------
(* Clients, backends and the server come and go.                           *)

ClientLeaves(c) ==
    /\ phase[c] \notin {"new", "closed"}
    /\ ~gone[c]
    /\ gone' = [gone EXCEPT ![c] = TRUE]
    /\ UNCHANGED <<opts, phase, preambleVars, keyVars, cancelVars, serverVars>>

\* A backend exits when its connection was closed, or for its own reasons.
BackendExits(c) ==
    /\ backend[c] = "live"
    /\ backend' = [backend EXCEPT ![c] = "ended"]
    /\ UNCHANGED <<opts, phase, gone, preambleVars, keyVars, cancelVars, up,
                   inbox, hits>>

ServerStops ==
    /\ up
    /\ up' = FALSE
    /\ backend' = [c \in Conn |-> IF backend[c] = "live" THEN "ended"
                                  ELSE backend[c]]
    /\ inbox' = {}
    /\ UNCHANGED <<opts, phase, gone, preambleVars, keyVars, cancelVars, hits>>

ServerStarts ==
    /\ ~up
    /\ up' = TRUE
    /\ UNCHANGED <<opts, phase, gone, preambleVars, keyVars, cancelVars, backend,
                   inbox, hits>>

-----------------------------------------------------------------------------

Negotiation(c) ==
    \/ Accept(c)
    \/ OfferTLS(c)
    \/ TLSEstablished(c)
    \/ RefuseEncryption(c)
    \/ PreambleFails(c)
    \/ \E kind \in StartupKind : Startup(c, kind)
    \/ \E k \in Key : RequestCancel(c, k)

Relay(c) ==
    \/ DialBackend(c)
    \/ ReadKey(c)
    \/ WriteKey(c)
    \/ Ready(c)
    \/ HandshakeFails(c)
    \/ EndSession(c)

RouteCancel(c) == Lookup(c) \/ Forward(c) \/ Drain(c)

Environment(c) == PostmasterCancel(c) \/ ClientLeaves(c) \/ BackendExits(c)

Next ==
    \/ \E c \in Conn :
        Negotiation(c) \/ Relay(c) \/ RouteCancel(c) \/ Environment(c)
    \/ ServerStops
    \/ ServerStarts

Spec == Init /\ [][Next]_vars

\* The goroutine of a connection runs whenever it is not waiting for the
\* client; the backend answers or hangs up during its startup (Postgres bounds
\* it with authentication_timeout); the postmaster reads its socket.  Nothing
\* makes a client send anything, and Preamble sets no read deadline.
Fairness ==
    \A c \in Conn :
        /\ WF_vars(gone[c] /\ PreambleFails(c))
        /\ WF_vars(Relay(c))
        /\ WF_vars(RouteCancel(c))
        /\ WF_vars(PostmasterCancel(c))

LiveSpec == Spec /\ Fairness

-----------------------------------------------------------------------------
(* Properties.                                                             *)

TypeOK ==
    /\ opts \in Endpoints
    /\ phase \in [Conn -> Phase]
    /\ local \in [Conn -> Origins]
    /\ cur \in [Conn -> {"plain", "tls"}]
    /\ encrypted \in [Conn -> BOOLEAN]
    /\ proto \in [Conn -> StartupKind \cup {"none"}]
    /\ gone \in [Conn -> BOOLEAN]
    /\ synthetic \in [Conn -> SynKey \cup {NoKey}]
    /\ clientKey \in [Conn -> Key \cup {NoKey}]
    /\ ask \in [Conn -> Key \cup {NoKey}]
    /\ target \in [Conn -> Conn \cup {NoTarget}]
    /\ registry \in [SynKey -> Conn \cup {NoTarget}]
    /\ backend \in [Conn -> {"none", "live", "ended"}]
    /\ up \in BOOLEAN
    /\ inbox \subseteq Conn \X Conn
    /\ hits \subseteq Conn \X Conn

\* From the registration to the end of the connection, on every path.
Registered(c) == phase[c] \in {"keyRead", "keyed", "session"}

\* The registry shared by every connection holds exactly the keys of the
\* handshakes and sessions under way, each pointing at the connection's own
\* backend: no path out of Handshake or of a session leaves an entry behind,
\* and none removes the entry of another connection.
RegistryExact ==
    /\ \A c \in Conn : Registered(c) => /\ synthetic[c] # NoKey
                                        /\ registry[synthetic[c]] = c
    /\ \A k \in SynKey : registry[k] # NoTarget =>
            Registered(registry[k]) /\ synthetic[registry[k]] = k

\* A cancel reaches only the session whose own key was presented, however late
\* the request and whatever ended or restarted between the lookup and the
\* signal.
CancelHitsOwner ==
    \A h \in hits : clientKey[h[2]] # NoKey /\ clientKey[h[2]] = ask[h[1]]

\* Under RequireTLS no remote client gets past the preamble on a channel that
\* is not TLS, whatever it negotiated first.
NoPlaintextSession ==
    \A c \in Conn :
        (opts.require /\ ~local[c] /\
           phase[c] \in {"dial", "handshake", "keyRead", "keyed", "session"})
        => cur[c] = "tls"

\* No client is ever handed a real backend key: a startup whose key would be
\* relayed unchanged is turned away before a backend is dialled.
RealKeysStayInside ==
    \A c \in Conn : clientKey[c] \notin Conn

\* A connection whose client has left ends, and its key leaves the registry,
\* even when it left in the middle of the handshake.
LeaversAreForgotten ==
    \A c \in Conn :
        gone[c] ~> /\ phase[c] = "closed"
                   /\ \A k \in SynKey : registry[k] # c

\* A cancel that presents the key of a running session interrupts it, unless
\* the session or the server ends first.
CancelLands ==
    \A c, s \in Conn :
        (phase[c] = "lookup" /\ phase[s] = "session" /\ ask[c] = clientKey[s])
        ~> (<<c, s>> \in hits \/ gone[s] \/ backend[s] = "ended")

-----------------------------------------------------------------------------
(* The filter implements CancelService: a session is the backend of a      *)
(* connection, and the sessions asked about are the owners of the keys     *)
(* presented so far.                                                       *)

Handed == {c \in Conn : clientKey[c] # NoKey}
Asked == {c \in Handed : \E q \in Conn : ask[q] = clientKey[c]}
Interrupted == {c \in Conn : \E q \in Conn : <<q, c>> \in hits}

Service == INSTANCE CancelService WITH
    Session <- Conn, state <- backend, handed <- Handed, asked <- Asked,
    interrupted <- Interrupted

\* Seen from the clients, the proxied endpoint behaves as CancelService says.
ImplementsCancelService == Service!SSpec
=============================================================================
