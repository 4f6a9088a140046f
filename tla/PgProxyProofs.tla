---------------------------- MODULE PgProxyProofs ----------------------------
(***************************************************************************)
(* What holds of PgProxy for any number of connections and keys: its       *)
(* invariants, and that it implements CancelService.                       *)
(*                                                                         *)
(* None of the properties is inductive by itself.  That a signal reaches   *)
(* the owner of the key presented needs every link between them: a         *)
(* synthetic key names one connection for ever (DistinctKeys), a client    *)
(* holds its own key or none (OwnKey), a request presents a key somebody   *)
(* holds (AskedKeyHandedOut), and what was looked up, forwarded or         *)
(* signalled is the connection that key names (TargetOwnsKey,              *)
(* SignalOwnsKey).                                                         *)
(***************************************************************************)
EXTENDS PgProxy, TLAPS

BeforeKey == {"new", "preamble", "tls", "dial", "handshake", "lookup",
              "forward", "drain"}
Relaying  == {"dial", "handshake", "keyRead", "keyed", "session"}

\* A connection has no key before its backend sent one, and its client has
\* none before it was written.
KeysComeLate ==
    \A c \in Conn :
        /\ phase[c] \in BeforeKey => synthetic[c] = NoKey
        /\ phase[c] \in BeforeKey \cup {"keyRead"} => clientKey[c] = NoKey

\* A connection that is not being relayed has no backend yet.
BackendsComeLate ==
    \A c \in Conn :
        /\ phase[c] \in BeforeKey \ {"handshake"} => backend[c] = "none"
        /\ phase[c] \in {"handshake", "keyRead", "keyed", "session"} =>
               backend[c] # "none"
        /\ clientKey[c] # NoKey => backend[c] # "none"

\* A synthetic key names one connection, for ever.
DistinctKeys ==
    \A c, d \in Conn :
        synthetic[c] = synthetic[d] /\ synthetic[c] # NoKey => c = d

\* A client holds the synthetic key of its own connection, or none.
OwnKey == \A c \in Conn : clientKey[c] \in {NoKey, synthetic[c]}

\* Only protocol 3.0 gets as far as a backend, so every key is rewritten.
OnlyV3 == \A c \in Conn : phase[c] \in Relaying => proto[c] = "v3"

\* A cancel connection carries a key some client holds.
AskedKeyHandedOut ==
    \A q \in Conn :
        /\ phase[q] \in {"lookup", "forward"} => ask[q] # NoKey
        /\ phase[q] \in (Phase \ {"lookup", "forward", "drain", "closed"}) =>
               ask[q] = NoKey
        /\ ask[q] # NoKey => \E o \in Conn : clientKey[o] = ask[q]

\* What a lookup returned is the connection the presented key names.
TargetOwnsKey ==
    \A q \in Conn :
        /\ phase[q] = "forward" => target[q] # NoTarget
        /\ target[q] # NoTarget =>
               ask[q] # NoKey /\ synthetic[target[q]] = ask[q]

\* So is the backend of a packet under way, and of a signal sent.
SignalOwnsKey ==
    \A m \in inbox \cup hits : ask[m[1]] # NoKey /\ synthetic[m[2]] = ask[m[1]]

\* The flag readStartup returns says what channel the client is on, and the
\* gate has been passed by everyone who is being relayed.
EncryptedMeansTLS == \A c \in Conn : encrypted[c] = (cur[c] = "tls")
GatePassed ==
    \A c \in Conn : phase[c] \in Relaying =>
        (opts.require => encrypted[c] \/ local[c])

IInv ==
    /\ TypeOK
    /\ RegistryExact
    /\ KeysComeLate
    /\ BackendsComeLate
    /\ DistinctKeys
    /\ OwnKey
    /\ OnlyV3
    /\ AskedKeyHandedOut
    /\ TargetOwnsKey
    /\ SignalOwnsKey
    /\ EncryptedMeansTLS
    /\ GatePassed
-----------------------------------------------------------------------------
(* Every step keeps the invariant.                                         *)

LEMMA InitInv == Init => IInv
<1> SUFFICES ASSUME Init PROVE IInv
  OBVIOUS
<1> USE KeyAssumption, OptionAssumption DEF Init
<1>1. TypeOK
  BY DEF TypeOK, Phase
<1>2. RegistryExact /\ KeysComeLate /\ BackendsComeLate
  BY DEF RegistryExact, Registered, KeysComeLate, BackendsComeLate, BeforeKey
<1>3. DistinctKeys /\ OwnKey /\ OnlyV3
  BY DEF DistinctKeys, OwnKey, OnlyV3, Relaying
<1>4. AskedKeyHandedOut /\ TargetOwnsKey /\ SignalOwnsKey
  BY DEF AskedKeyHandedOut, TargetOwnsKey, SignalOwnsKey
<1>5. EncryptedMeansTLS /\ GatePassed
  BY DEF EncryptedMeansTLS, GatePassed, Relaying
<1> QED
  BY <1>1, <1>2, <1>3, <1>4, <1>5 DEF IInv

\* The preamble moves one connection between phases that have neither a key
\* nor a backend; what it must get right is the channel and the gate.
LEMMA NegotiationInv ==
    ASSUME IInv, NEW c \in Conn, Negotiation(c)
    PROVE  IInv'
<1> USE KeyAssumption, OptionAssumption
      DEF IInv, TypeOK, Phase, Key, Goto, preambleVars, keyVars, cancelVars,
          serverVars
<1>1. CASE Accept(c) \/ OfferTLS(c) \/ PreambleFails(c)
  <2>1. TypeOK' /\ EncryptedMeansTLS'
    BY <1>1 DEF Accept, OfferTLS, PreambleFails, EncryptedMeansTLS
  <2>2. RegistryExact' /\ KeysComeLate' /\ BackendsComeLate'
    BY <1>1 DEF Accept, OfferTLS, PreambleFails, RegistryExact, Registered,
                KeysComeLate, BackendsComeLate, BeforeKey
  <2>3. DistinctKeys' /\ OwnKey' /\ OnlyV3' /\ GatePassed'
    BY <1>1 DEF Accept, OfferTLS, PreambleFails, DistinctKeys, OwnKey, OnlyV3,
                GatePassed, Relaying
  <2>4. AskedKeyHandedOut' /\ TargetOwnsKey' /\ SignalOwnsKey'
    BY <1>1 DEF Accept, OfferTLS, PreambleFails, AskedKeyHandedOut,
                TargetOwnsKey, SignalOwnsKey
  <2> QED
    BY <2>1, <2>2, <2>3, <2>4
<1>2. CASE TLSEstablished(c) \/ RefuseEncryption(c)
  <2>1. TypeOK'
    BY <1>2 DEF TLSEstablished, RefuseEncryption, Resume
  <2>2. EncryptedMeansTLS'
    BY <1>2 DEF TLSEstablished, RefuseEncryption, Resume, EncryptedMeansTLS
  <2>3. RegistryExact' /\ KeysComeLate' /\ BackendsComeLate'
    BY <1>2 DEF TLSEstablished, RefuseEncryption, RegistryExact, Registered,
                KeysComeLate, BackendsComeLate, BeforeKey
  <2>4. DistinctKeys' /\ OwnKey' /\ OnlyV3'
    BY <1>2 DEF TLSEstablished, RefuseEncryption, DistinctKeys, OwnKey, OnlyV3,
                Relaying
  <2>5. AskedKeyHandedOut' /\ TargetOwnsKey' /\ SignalOwnsKey'
    BY <1>2 DEF TLSEstablished, RefuseEncryption, AskedKeyHandedOut,
                TargetOwnsKey, SignalOwnsKey
  <2>6. GatePassed'
    BY <1>2 DEF TLSEstablished, RefuseEncryption, Resume, GatePassed, Relaying
  <2> QED
    BY <2>1, <2>2, <2>3, <2>4, <2>5, <2>6
<1>3. ASSUME NEW kind \in StartupKind, Startup(c, kind)
      PROVE  IInv'
  <2>1. TypeOK' /\ EncryptedMeansTLS'
    BY <1>3 DEF Startup, EncryptedMeansTLS
  <2>2. RegistryExact' /\ KeysComeLate' /\ BackendsComeLate'
    BY <1>3 DEF Startup, RegistryExact, Registered, KeysComeLate,
                BackendsComeLate, BeforeKey
  <2>3. DistinctKeys' /\ OwnKey'
    BY <1>3 DEF Startup, DistinctKeys, OwnKey
  <2>4. OnlyV3' /\ GatePassed'
    BY <1>3 DEF Startup, NamesDatabase, MayProceed, OnlyV3, GatePassed, Relaying
  <2>5. AskedKeyHandedOut' /\ TargetOwnsKey' /\ SignalOwnsKey'
    BY <1>3 DEF Startup, AskedKeyHandedOut, TargetOwnsKey, SignalOwnsKey
  <2> QED
    BY <2>1, <2>2, <2>3, <2>4, <2>5
<1>4. ASSUME NEW k \in Key, RequestCancel(c, k)
      PROVE  IInv'
  <2>1. TypeOK' /\ EncryptedMeansTLS'
    BY <1>4 DEF RequestCancel, EncryptedMeansTLS
  <2>2. RegistryExact' /\ KeysComeLate' /\ BackendsComeLate'
    BY <1>4 DEF RequestCancel, RegistryExact, Registered, KeysComeLate,
                BackendsComeLate, BeforeKey
  <2>3. DistinctKeys' /\ OwnKey' /\ OnlyV3' /\ GatePassed'
    BY <1>4 DEF RequestCancel, DistinctKeys, OwnKey, OnlyV3, GatePassed, Relaying
  <2>4. AskedKeyHandedOut'
    BY <1>4 DEF RequestCancel, AskedKeyHandedOut
  \* The connection had presented no key, so nothing is recorded of it yet.
  <2>5. TargetOwnsKey' /\ SignalOwnsKey'
    BY <1>4 DEF RequestCancel, AskedKeyHandedOut, TargetOwnsKey, SignalOwnsKey
  <2> QED
    BY <2>1, <2>2, <2>3, <2>4, <2>5
<1> QED
  BY <1>1, <1>2, <1>3, <1>4 DEF Negotiation

\* Relaying a startup and a session: keys are issued, handed out and revoked.
LEMMA RelayInv ==
    ASSUME IInv, NEW c \in Conn, Relay(c)
    PROVE  IInv'
<1> USE KeyAssumption, OptionAssumption
      DEF IInv, TypeOK, Phase, Key, Goto, preambleVars, keyVars, cancelVars,
          serverVars
<1>1. CASE DialBackend(c)
  <2>1. TypeOK' /\ EncryptedMeansTLS'
    BY <1>1 DEF DialBackend, EncryptedMeansTLS
  <2>2. RegistryExact' /\ KeysComeLate' /\ BackendsComeLate'
    BY <1>1 DEF DialBackend, RegistryExact, Registered, KeysComeLate,
                BackendsComeLate, BeforeKey
  <2>3. DistinctKeys' /\ OwnKey' /\ OnlyV3' /\ GatePassed'
    BY <1>1 DEF DialBackend, DistinctKeys, OwnKey, OnlyV3, GatePassed, Relaying
  <2>4. AskedKeyHandedOut' /\ TargetOwnsKey' /\ SignalOwnsKey'
    BY <1>1 DEF DialBackend, AskedKeyHandedOut, TargetOwnsKey, SignalOwnsKey
  <2> QED
    BY <2>1, <2>2, <2>3, <2>4
<1>2. CASE ReadKey(c)
  \* Only a protocol 3.0 startup gets here: its key is registered.
  <2>1. PICK k \in SynKey :
            /\ Fresh(k)
            /\ registry' = [registry EXCEPT ![k] = c]
            /\ synthetic' = [synthetic EXCEPT ![c] = k]
    BY <1>2 DEF ReadKey, Register, OnlyV3, Relaying
  <2>2. TypeOK' /\ EncryptedMeansTLS'
    BY <1>2, <2>1 DEF ReadKey, EncryptedMeansTLS
  <2>3. RegistryExact'
    BY <1>2, <2>1 DEF ReadKey, Fresh, RegistryExact, Registered
  <2>4. KeysComeLate' /\ BackendsComeLate'
    BY <1>2, <2>1 DEF ReadKey, KeysComeLate, BackendsComeLate, BeforeKey
  <2>5. DistinctKeys'
    BY <1>2, <2>1 DEF Fresh, DistinctKeys
  <2>6. OwnKey' /\ OnlyV3' /\ GatePassed'
    BY <1>2, <2>1 DEF ReadKey, KeysComeLate, BeforeKey, OwnKey, OnlyV3,
                      GatePassed, Relaying
  \* No target or signal was for a connection that had no key.
  <2>7. AskedKeyHandedOut' /\ TargetOwnsKey' /\ SignalOwnsKey'
    BY <1>2, <2>1 DEF ReadKey, KeysComeLate, BeforeKey, AskedKeyHandedOut,
                      TargetOwnsKey, SignalOwnsKey
  <2> QED
    BY <2>2, <2>3, <2>4, <2>5, <2>6, <2>7
<1>3. CASE WriteKey(c)
  <2>1. synthetic[c] \in SynKey
    BY <1>3 DEF WriteKey, RegistryExact, Registered
  <2>2. TypeOK' /\ EncryptedMeansTLS'
    BY <1>3, <2>1 DEF WriteKey, EncryptedMeansTLS
  <2>3. RegistryExact' /\ KeysComeLate' /\ BackendsComeLate'
    BY <1>3 DEF WriteKey, RegistryExact, Registered, KeysComeLate,
                BackendsComeLate, BeforeKey
  <2>4. DistinctKeys' /\ OnlyV3' /\ GatePassed'
    BY <1>3 DEF WriteKey, DistinctKeys, OnlyV3, GatePassed, Relaying
  <2>5. OwnKey'
    BY <1>3, <2>1 DEF WriteKey, OwnKey
  \* A key already handed out stays so: the client had none before.
  <2>6. AskedKeyHandedOut'
    BY <1>3 DEF WriteKey, KeysComeLate, AskedKeyHandedOut
  <2>7. TargetOwnsKey' /\ SignalOwnsKey'
    BY <1>3 DEF WriteKey, TargetOwnsKey, SignalOwnsKey
  <2> QED
    BY <2>2, <2>3, <2>4, <2>5, <2>6, <2>7
<1>4. CASE Ready(c)
  <2>1. TypeOK' /\ EncryptedMeansTLS'
    BY <1>4 DEF Ready, EncryptedMeansTLS
  <2>2. RegistryExact' /\ KeysComeLate' /\ BackendsComeLate'
    BY <1>4 DEF Ready, RegistryExact, Registered, KeysComeLate,
                BackendsComeLate, BeforeKey
  <2>3. DistinctKeys' /\ OwnKey' /\ OnlyV3' /\ GatePassed'
    BY <1>4 DEF Ready, DistinctKeys, OwnKey, OnlyV3, GatePassed, Relaying
  <2>4. AskedKeyHandedOut' /\ TargetOwnsKey' /\ SignalOwnsKey'
    BY <1>4 DEF Ready, AskedKeyHandedOut, TargetOwnsKey, SignalOwnsKey
  <2> QED
    BY <2>1, <2>2, <2>3, <2>4
<1>5. CASE HandshakeFails(c) \/ EndSession(c)
  <2>1. TypeOK' /\ EncryptedMeansTLS'
    BY <1>5 DEF HandshakeFails, EndSession, Cleanup, EncryptedMeansTLS
  \* The entry removed is this connection's own: keys are distinct.
  <2>2. RegistryExact'
    BY <1>5 DEF HandshakeFails, EndSession, Cleanup, RegistryExact, Registered,
                DistinctKeys, KeysComeLate, BeforeKey
  <2>3. KeysComeLate' /\ BackendsComeLate'
    BY <1>5 DEF HandshakeFails, EndSession, KeysComeLate, BackendsComeLate,
                BeforeKey
  <2>4. DistinctKeys' /\ OwnKey' /\ OnlyV3' /\ GatePassed'
    BY <1>5 DEF HandshakeFails, EndSession, DistinctKeys, OwnKey, OnlyV3,
                GatePassed, Relaying
  <2>5. AskedKeyHandedOut' /\ TargetOwnsKey' /\ SignalOwnsKey'
    BY <1>5 DEF HandshakeFails, EndSession, AskedKeyHandedOut, TargetOwnsKey,
                SignalOwnsKey
  <2> QED
    BY <2>1, <2>2, <2>3, <2>4, <2>5
<1> QED
  BY <1>1, <1>2, <1>3, <1>4, <1>5 DEF Relay

LEMMA RouteCancelInv ==
    ASSUME IInv, NEW c \in Conn, RouteCancel(c)
    PROVE  IInv'
<1> USE KeyAssumption, OptionAssumption
      DEF IInv, TypeOK, Phase, Key, Goto, preambleVars, keyVars, cancelVars,
          serverVars
<1>1. /\ RegistryExact' /\ KeysComeLate' /\ BackendsComeLate'
  BY DEF RouteCancel, Lookup, Forward, Drain, RegistryExact, Registered,
         KeysComeLate, BackendsComeLate, BeforeKey
<1>2. DistinctKeys' /\ OwnKey' /\ OnlyV3' /\ GatePassed' /\ EncryptedMeansTLS'
  BY DEF RouteCancel, Lookup, Forward, Drain, DistinctKeys, OwnKey, OnlyV3,
         GatePassed, Relaying, EncryptedMeansTLS
<1>3. AskedKeyHandedOut'
  BY DEF RouteCancel, Lookup, Forward, Drain, AskedKeyHandedOut
<1>4. CASE Lookup(c)
  \* The registry maps a key to the connection that has it.
  <2>1. Found(ask[c]) # NoTarget =>
            ask[c] \in SynKey /\ synthetic[Found(ask[c])] = ask[c]
    BY DEF Found, RegistryExact
  <2>2. Found(ask[c]) \in Conn \cup {NoTarget}
    BY DEF Found
  <2>3. TypeOK'
    BY <1>4, <2>2 DEF Lookup
  <2>4. TargetOwnsKey' /\ SignalOwnsKey'
    BY <1>4, <2>1, <2>2 DEF Lookup, TargetOwnsKey, SignalOwnsKey
  <2> QED
    BY <1>1, <1>2, <1>3, <2>3, <2>4
<1>5. CASE Forward(c)
  <2>1. target[c] \in Conn /\ synthetic[target[c]] = ask[c] /\ ask[c] # NoKey
    BY <1>5 DEF Forward, TargetOwnsKey
  <2>2. TypeOK'
    BY <1>5, <2>1 DEF Forward
  <2>3. TargetOwnsKey' /\ SignalOwnsKey'
    BY <1>5, <2>1 DEF Forward, TargetOwnsKey, SignalOwnsKey
  <2> QED
    BY <1>1, <1>2, <1>3, <2>2, <2>3
<1>6. CASE Drain(c)
  <2>1. TypeOK' /\ TargetOwnsKey' /\ SignalOwnsKey'
    BY <1>6 DEF Drain, TargetOwnsKey, SignalOwnsKey
  <2> QED
    BY <1>1, <1>2, <1>3, <2>1
<1> QED
  BY <1>4, <1>5, <1>6 DEF RouteCancel

\* The rest of the world: it ends backends and signals them, and leaves the
\* proxy's own state alone.
LEMMA EnvironmentInv ==
    ASSUME IInv,
           (\E c \in Conn : Environment(c)) \/ ServerStops \/ ServerStarts
    PROVE  IInv'
<1> USE KeyAssumption, OptionAssumption
      DEF IInv, TypeOK, Phase, Key, preambleVars, keyVars, cancelVars,
          serverVars
<1>1. ASSUME NEW c \in Conn, PostmasterCancel(c)
      PROVE  IInv'
  <2>1. TypeOK' /\ SignalOwnsKey'
    BY <1>1 DEF PostmasterCancel, SignalOwnsKey
  <2>2. RegistryExact' /\ KeysComeLate' /\ BackendsComeLate' /\ DistinctKeys'
    BY <1>1 DEF PostmasterCancel, RegistryExact, Registered, KeysComeLate,
                BackendsComeLate, DistinctKeys
  <2>3. /\ OwnKey' /\ OnlyV3' /\ GatePassed' /\ EncryptedMeansTLS'
        /\ AskedKeyHandedOut' /\ TargetOwnsKey'
    BY <1>1 DEF PostmasterCancel, OwnKey, OnlyV3, GatePassed, EncryptedMeansTLS,
                AskedKeyHandedOut, TargetOwnsKey
  <2> QED
    BY <2>1, <2>2, <2>3
<1>2. ASSUME \/ \E c \in Conn : ClientLeaves(c) \/ BackendExits(c)
             \/ ServerStops
             \/ ServerStarts
      PROVE  IInv'
  <2> USE <1>2 DEF ClientLeaves, BackendExits, ServerStops, ServerStarts
  <2>1. gone' \in [Conn -> BOOLEAN] /\ up' \in BOOLEAN /\ inbox' \subseteq inbox
    OBVIOUS
  <2>2. backend' \in [Conn -> {"none", "live", "ended"}]
    OBVIOUS
  <2>3. \A c \in Conn : (backend'[c] = "none") <=> (backend[c] = "none")
    OBVIOUS
  <2>4. UNCHANGED <<opts, phase, local, cur, encrypted, proto, synthetic,
                    clientKey, ask, target, registry, hits>>
    OBVIOUS
  <2>5. TypeOK' /\ SignalOwnsKey'
    BY <2>1, <2>4, <2>2 DEF SignalOwnsKey
  <2>6. RegistryExact' /\ KeysComeLate' /\ BackendsComeLate' /\ DistinctKeys'
    BY <2>4, <2>3 DEF RegistryExact, Registered, KeysComeLate, BackendsComeLate,
                      DistinctKeys
  <2>7. /\ OwnKey' /\ OnlyV3' /\ GatePassed' /\ EncryptedMeansTLS'
        /\ AskedKeyHandedOut' /\ TargetOwnsKey'
    BY <2>4 DEF OwnKey, OnlyV3, GatePassed, EncryptedMeansTLS,
                AskedKeyHandedOut, TargetOwnsKey
  <2> QED
    BY <2>5, <2>6, <2>7
<1> QED
  BY <1>1, <1>2 DEF Environment

LEMMA StutterInv == IInv /\ UNCHANGED vars => IInv'
BY DEF vars, IInv, TypeOK, RegistryExact, Registered, KeysComeLate,
       BackendsComeLate, DistinctKeys, OwnKey, OnlyV3, AskedKeyHandedOut,
       TargetOwnsKey, SignalOwnsKey, EncryptedMeansTLS, GatePassed

LEMMA Invariance == Spec => []IInv
<1>1. IInv /\ [Next]_vars => IInv'
  BY NegotiationInv, RelayInv, RouteCancelInv, EnvironmentInv, StutterInv
  DEF Next
<1> QED
  BY InitInv, <1>1, PTL DEF Spec

-----------------------------------------------------------------------------
(* The properties of PgProxy.                                              *)

\* Every variable keeps its type, for any set of connections and keys.
THEOREM TypeCorrect == Spec => []TypeOK
BY Invariance, PTL DEF IInv

\* The shared cancel registry holds exactly the keys of the connections being
\* relayed, each for its own backend, on every path through Handshake.
THEOREM RegistryIsExact == Spec => []RegistryExact
BY Invariance, PTL DEF IInv

\* Under RequireTLS nobody remote is relayed in the clear.
THEOREM NobodySlipsThroughTheGate == Spec => []NoPlaintextSession
<1>1. IInv => NoPlaintextSession
  BY DEF IInv, GatePassed, EncryptedMeansTLS, NoPlaintextSession, Relaying
<1> QED
  BY <1>1, Invariance, PTL

\* No client is ever handed the real key of a backend.
THEOREM RealKeysAreHidden == Spec => []RealKeysStayInside
<1>1. IInv => RealKeysStayInside
  <2> SUFFICES ASSUME IInv, NEW c \in Conn
               PROVE  clientKey[c] \notin Conn
    BY DEF RealKeysStayInside
  <2>1. clientKey[c] \in {NoKey, synthetic[c]}
    BY DEF IInv, OwnKey
  <2>2. synthetic[c] \in SynKey \cup {NoKey}
    BY DEF IInv, TypeOK
  <2> QED
    BY <2>1, <2>2, KeyAssumption
<1> QED
  BY <1>1, Invariance, PTL

\* The presented key of a signal is the key its session's client holds.
LEMMA SignalsAuthorised ==
    ASSUME IInv, NEW m \in inbox \cup hits
    PROVE  clientKey[m[2]] # NoKey /\ clientKey[m[2]] = ask[m[1]]
<1>1. m[1] \in Conn /\ m[2] \in Conn
  BY DEF IInv, TypeOK
<1>2. ask[m[1]] # NoKey /\ synthetic[m[2]] = ask[m[1]]
  BY DEF IInv, SignalOwnsKey
<1>3. PICK o \in Conn : clientKey[o] = ask[m[1]]
  BY <1>1, <1>2 DEF IInv, AskedKeyHandedOut
<1>4. synthetic[o] = ask[m[1]]
  BY <1>2, <1>3 DEF IInv, OwnKey
<1>5. o = m[2]
  BY <1>1, <1>2, <1>4 DEF IInv, DistinctKeys
<1> QED
  BY <1>2, <1>3, <1>5

\* A cancel request only ever interrupts the session whose key it presented.
THEOREM CancelsReachTheirOwner == Spec => []CancelHitsOwner
<1>1. IInv => CancelHitsOwner
  BY SignalsAuthorised DEF CancelHitsOwner
<1> QED
  BY <1>1, Invariance, PTL

-----------------------------------------------------------------------------
(* Refinement: every step of the proxy is a step of CancelService, or      *)
(* leaves what CancelService speaks of as it is.                           *)

LEMMA ServiceInit == Init => Service!SInit
BY DEF Init, Service!SInit, Handed, Asked, Interrupted

\* A step that leaves the keys, the requests and the signals alone.
LEMMA ServiceUnchanged ==
    ASSUME UNCHANGED <<clientKey, ask, hits>>
    PROVE  UNCHANGED <<Handed, Asked, Interrupted>>
BY DEF Handed, Asked, Interrupted

LEMMA ServiceNext ==
    ASSUME IInv, [Next]_vars
    PROVE  [Service!SNext]_Service!svars
<1> USE DEF preambleVars, keyVars, cancelVars, serverVars
<1>1. ASSUME NEW c \in Conn, DialBackend(c)
      PROVE  Service!Open(c) \/ UNCHANGED Service!svars
  <2>1. UNCHANGED <<Handed, Asked, Interrupted>>
    BY <1>1, ServiceUnchanged DEF DialBackend
  <2>2. backend[c] = "none"
    BY <1>1 DEF DialBackend, IInv, BackendsComeLate, BeforeKey
  <2> QED
    BY <1>1, <2>1, <2>2 DEF DialBackend, Service!Open, Service!svars
<1>2. ASSUME NEW c \in Conn, WriteKey(c)
      PROVE  Service!HandOut(c) \/ UNCHANGED Service!svars
  <2>1. CASE gone[c]
    <3>1. UNCHANGED <<clientKey, ask, hits, backend>>
      BY <1>2, <2>1 DEF WriteKey
    <3> QED
      BY <3>1, ServiceUnchanged DEF Service!svars
  <2>2. CASE ~gone[c]
    <3>1. synthetic[c] # NoKey /\ clientKey[c] = NoKey /\ backend[c] # "none"
      BY <1>2 DEF WriteKey, IInv, RegistryExact, Registered, KeysComeLate,
                  BackendsComeLate
    <3>2. clientKey' = [clientKey EXCEPT ![c] = synthetic[c]]
      BY <1>2, <2>2, <3>1 DEF WriteKey
    <3>3. Handed' = Handed \cup {c}
      BY <3>1, <3>2 DEF Handed, IInv, TypeOK
    \* Nobody can have asked with the key before it was handed out.
    <3>4. \A q \in Conn : ask[q] # synthetic[c]
      BY <3>1 DEF IInv, AskedKeyHandedOut, OwnKey, DistinctKeys
    <3>5. Asked' = Asked
      BY <1>2, <3>1, <3>2, <3>3, <3>4 DEF WriteKey, Asked, Handed, IInv, TypeOK
    <3> QED
      BY <1>2, <3>1, <3>3, <3>5 DEF WriteKey, Interrupted, Service!HandOut
  <2> QED
    BY <2>1, <2>2
<1>3. ASSUME NEW c \in Conn, NEW k \in Key, RequestCancel(c, k)
      PROVE  \E s \in Conn : Service!Ask(s)
  <2>1. PICK s \in Conn : clientKey[s] = k
    BY <1>3 DEF RequestCancel
  <2>2. k # NoKey /\ ask[c] = NoKey
    BY <1>3, KeyAssumption DEF RequestCancel, Key, IInv, AskedKeyHandedOut, Phase
  <2>3. ask' = [ask EXCEPT ![c] = k] /\ UNCHANGED <<clientKey, hits, backend>>
    BY <1>3 DEF RequestCancel
  <2>4. \A d \in Handed : clientKey[d] = k => d = s
    BY <2>1, <2>2 DEF Handed, IInv, OwnKey, DistinctKeys
  <2>5. s \in Handed /\ Handed' = Handed /\ Interrupted' = Interrupted
    BY <2>1, <2>2, <2>3 DEF Handed, Interrupted
  <2>6. Asked' = Asked \cup {s}
    BY <2>1, <2>2, <2>3, <2>4, <2>5 DEF Asked, Handed, IInv, TypeOK
  <2> QED
    BY <2>3, <2>5, <2>6 DEF Service!Ask
<1>4. ASSUME NEW c \in Conn, PostmasterCancel(c)
      PROVE  (\E s \in Conn : Service!Interrupt(s)) \/ UNCHANGED Service!svars
  <2>1. PICK s \in Conn :
            /\ <<c, s>> \in inbox
            /\ hits' = IF backend[s] = "live" THEN hits \cup {<<c, s>>} ELSE hits
    BY <1>4 DEF PostmasterCancel
  <2>2. UNCHANGED <<clientKey, ask, backend>>
    BY <1>4 DEF PostmasterCancel
  <2>3. s \in Asked
    BY <2>1, SignalsAuthorised DEF Asked, Handed
  <2>4. CASE backend[s] = "live"
    <3>1. Interrupted' = Interrupted \cup {s}
      BY <2>1, <2>4 DEF Interrupted
    <3>2. Handed' = Handed /\ Asked' = Asked
      BY <2>2 DEF Handed, Asked
    <3> QED
      BY <2>2, <2>3, <2>4, <3>1, <3>2 DEF Service!Interrupt
  <2>5. CASE backend[s] # "live"
    BY <2>1, <2>2, <2>5, ServiceUnchanged DEF Service!svars
  <2> QED
    BY <2>4, <2>5
<1>5. ASSUME (\E c \in Conn : BackendExits(c)) \/ ServerStops
      PROVE  \E S \in SUBSET Conn : Service!Close(S)
  <2>1. UNCHANGED <<Handed, Asked, Interrupted>>
    BY <1>5, ServiceUnchanged DEF BackendExits, ServerStops
  <2>2. ASSUME NEW c \in Conn, BackendExits(c)
        PROVE  Service!Close({c})
    BY <2>1, <2>2 DEF BackendExits, Service!Close, IInv, TypeOK
  <2>3. CASE ServerStops
    <3> DEFINE S == {c \in Conn : backend[c] = "live"}
    <3>1. Service!Close(S)
      BY <2>1, <2>3 DEF ServerStops, Service!Close
    <3> QED
      BY <3>1
  <2> QED
    BY <1>5, <2>2, <2>3
<1>6. ASSUME UNCHANGED <<clientKey, ask, hits, backend>>
      PROVE  UNCHANGED Service!svars
  BY <1>6, ServiceUnchanged DEF Service!svars
<1>7. ASSUME NEW c \in Conn,
             \/ Accept(c) \/ OfferTLS(c) \/ TLSEstablished(c)
             \/ RefuseEncryption(c) \/ PreambleFails(c)
             \/ \E kind \in StartupKind : Startup(c, kind)
             \/ ReadKey(c) \/ Ready(c) \/ HandshakeFails(c) \/ EndSession(c)
             \/ RouteCancel(c) \/ ClientLeaves(c)
      PROVE  UNCHANGED <<clientKey, ask, hits, backend>>
  BY <1>7 DEF Accept, OfferTLS, TLSEstablished, RefuseEncryption, PreambleFails,
              Startup, ReadKey, Ready, HandshakeFails, EndSession, RouteCancel,
              Lookup, Forward, Drain, ClientLeaves
<1>8. CASE ServerStarts \/ UNCHANGED vars
  BY <1>6, <1>8 DEF ServerStarts, vars
<1>9. CASE Next
  BY <1>1, <1>2, <1>3, <1>4, <1>5, <1>6, <1>7, <1>8, <1>9
  DEF Next, Negotiation, Relay, Environment, Service!SNext
<1> QED
  BY <1>8, <1>9

\* The proxied endpoint keeps the promise of CancelService.
THEOREM Refinement == Spec => ImplementsCancelService
<1>1. IInv /\ [Next]_vars => [Service!SNext]_Service!svars
  BY ServiceNext
<1> QED
  BY ServiceInit, Invariance, <1>1, PTL
  DEF Spec, ImplementsCancelService, Service!SSpec
=============================================================================
