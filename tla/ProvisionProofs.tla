--------------------------- MODULE ProvisionProofs ---------------------------
(***************************************************************************)
(* The properties of Provision, for any drivers, versions and settings,    *)
(* and any number of boots, crashes and edits of the configuration.        *)
(***************************************************************************)
EXTENDS Provision, TLAPS

\* The steps of a boot after doze.conf is written, and after each of the files
\* written next.
Configured == {"include", "hba", "plan", "spawn", "up"}
Included == {"hba", "plan", "spawn", "up"}
Guarded == {"plan", "spawn", "up"}

\* What a boot has written is still there when it starts the server.
Written ==
    /\ pc \in Configured =>
           doze = IF driver = "ferret" THEN "fixed" ELSE want.tuning
    /\ pc \in {"include", "hba"} => driver # "mariadb"
    /\ driver # "mariadb" /\ pc \in Included => included
    /\ driver # "mariadb" /\ pc \in Guarded => hba

\* The lock is live exactly while a server runs, and a boot that is past the
\* lock has none beside its own.
Locked ==
    /\ (server # Off) <=> (lock = "live")
    /\ server # Off => socket
    /\ pc = "spawn" => server = Off

Up ==
    pc = "up" =>
        /\ server = [major |-> want.major, tuning |-> want.tuning]
        /\ disk = Parts
        /\ driver # "mariadb" => version = want.major

\* Nothing is created over a cluster that was once complete and used.
InUse == server # Off \/ userdata => disk = Parts /\ pc # "create"

Blamed ==
    /\ pc # "failed" => why = "none"
    /\ why \in {"halfway", "noConf", "torn"} => disk # Parts

Inv == TypeOK /\ Written /\ VersionLockHolds /\ Locked /\ Up /\ InUse /\ Blamed

\* Every configuration and every driver starts from an empty data directory.
LEMMA InvInit == Init => Inv
BY ProvisionAssumption
   DEF ProvisionAssumption, Init, Inv, TypeOK, Config, Provisioning, Written,
       Configured, Included, Guarded, VersionLockHolds, Locked, Up, InUse, Blamed

\* One step of the host, of the server or of the user.
LEMMA InvStep == Inv /\ [Next]_vars => Inv'
<1> SUFFICES ASSUME Inv, [Next]_vars PROVE Inv'
    OBVIOUS
<1> USE ProvisionAssumption
    DEF ProvisionAssumption, Inv, TypeOK, Config, Provisioning, Written,
        Configured, Included, Guarded, VersionLockHolds, Locked, Up, InUse,
        Blamed, cluster, confs, process, Parts, Goto, Fail
<1>1. CASE Edit
    BY <1>1 DEF Edit
<1>2. CASE Boot
    BY <1>2 DEF Boot
<1>3. CASE Check
    BY <1>3 DEF Check
<1>4. CASE Create
    <2>1. /\ pc = "create" /\ pc' \in {"create", "version"}
          /\ UNCHANGED <<why, driver, declared, want, confs, process>>
        BY <1>4 DEF Create
    <2>2. disk' \subseteq Parts /\ version' \in Major
        BY <1>4 DEF Create
    <2>3. ~userdata /\ server = Off /\ why = "none"
        BY <2>1
    <2>4. userdata' = FALSE
        <3>1. userdata' = userdata \/ userdata' = (userdata /\ ~Overwrites)
            BY <1>4 DEF Create
        <3>2. (userdata /\ ~Overwrites) = FALSE
            BY <2>3
        <3>3. userdata = FALSE
            BY <2>3
        <3> QED BY <3>1, <3>2, <3>3
    <2> QED BY <2>1, <2>2, <2>3, <2>4
<1>5. CASE CreateFails
    BY <1>5 DEF CreateFails
<1>6. CASE CheckVersion
    BY <1>6 DEF CheckVersion, MajorOf
<1>7. CASE TruncateConf
    BY <1>7 DEF TruncateConf
<1>8. CASE WriteConf
    BY <1>8 DEF WriteConf
<1>9. CASE EnsureInclude
    <2>1. /\ pc = "include" /\ driver # "mariadb"
          /\ UNCHANGED <<driver, declared, want, cluster, doze, hba, process>>
        BY <1>9 DEF EnsureInclude
    <2>2. CASE "conf" \in disk
        <3>1. included' = TRUE /\ pc' = "hba" /\ why' = why
            BY <1>9, <2>2 DEF EnsureInclude
        <3> QED BY <2>1, <3>1
    <2>3. CASE "conf" \notin disk
        <3>1. included' = included /\ pc' = "failed" /\ why' = "noConf"
            BY <1>9, <2>3 DEF EnsureInclude
        <3>2. disk # Parts
            BY <2>1, <2>3
        <3> QED BY <2>1, <3>1, <3>2
    <2> QED BY <2>2, <2>3
<1>17. CASE WriteHBA
    BY <1>17 DEF WriteHBA
<1>10. CASE Plan
    BY <1>10 DEF Plan, ClearStaleLock
<1>11. CASE Spawn
    BY <1>11 DEF Spawn, Obstacles, MajorOf
<1>12. CASE SpawnFails
    BY <1>12 DEF SpawnFails, Obstacles
<1>13. CASE Use \/ Stop
    BY <1>13 DEF Use, Stop
<1>14. CASE HostDies
    BY <1>14 DEF HostDies
<1>16. CASE ServerDies
    <2>1. /\ server' = Off /\ lock' = "stale"
          /\ pc' = IF pc = "up" THEN "idle" ELSE pc
          /\ UNCHANGED <<why, driver, declared, want, cluster, confs, socket>>
        BY <1>16 DEF ServerDies
    <2> QED BY <2>1
<1>15. CASE UNCHANGED vars
    BY <1>15 DEF vars
<1> QED BY <1>1, <1>2, <1>3, <1>4, <1>5, <1>6, <1>7, <1>8, <1>9, <1>10,
           <1>11, <1>12, <1>13, <1>14, <1>15, <1>16, <1>17
    DEF Next, Provide

\* The invariant holds in every reachable state.
LEMMA Invariance == Spec => []Inv
BY InvInit, InvStep, PTL DEF Spec

\* Provision is type correct; a server is started with a major version.
THEOREM TypeCorrect == Spec => []TypeOK
<1>1. Inv => TypeOK BY DEF Inv
<1> QED BY <1>1, Invariance, PTL

\* The server that Plan's command starts has the settings this boot was asked
\* for, on a complete cluster of its version.
THEOREM ServerIsAsDeclared == Spec => []ServerAsDeclared
<1>1. Inv => ServerAsDeclared
    BY DEF Inv, Up, Written, Configured, Included, Guarded, ServerAsDeclared
<1> QED BY <1>1, Invariance, PTL

\* Provision of postgres never gets past the check of PG_VERSION on a data
\* directory of another major version.
THEOREM VersionIsLocked == Spec => []VersionLockHolds
<1>1. Inv => VersionLockHolds BY DEF Inv
<1> QED BY <1>1, Invariance, PTL

\* A boot fails over the state of the disk only when the creation of the
\* cluster was cut short.
THEOREM OnlyCreationBreaks == Spec => []OnlyCreationCanBreakIt
<1>1. Inv => OnlyCreationCanBreakIt
    BY DEF Inv, Blamed, OnlyCreationCanBreakIt
<1> QED BY <1>1, Invariance, PTL

\* Plan never removes the socket of a server whose lock is live.
THEOREM SocketIsKept == Spec => []LiveServerKeepsSocket
<1>1. Inv => LiveServerKeepsSocket
    BY DEF Inv, Locked, LiveServerKeepsSocket
<1> QED BY <1>1, Invariance, PTL

\* Plan, and the pid file it reads, never let a second server start.
THEOREM NoServerStartsTwice == Spec => NoDoubleStart
<1>1. Inv /\ [Next]_vars => [server = Off \/ server' \in {Off, server}]_vars
    BY DEF Inv, Locked, Next, vars, Edit, Boot, Provide, Check, Create,
       CreateFails, CheckVersion, TruncateConf, WriteConf, EnsureInclude,
       WriteHBA, Plan, Spawn, SpawnFails, Use, Stop, ServerDies, HostDies,
       process
<1> QED BY <1>1, Invariance, PTL DEF Spec, NoDoubleStart

\* No boot creates a cluster over one that holds user data.
THEOREM UserDataSurvives == Spec => DataSurvives
<1>1. Inv /\ [Next]_vars => [userdata => userdata']_vars
    BY DEF Inv, InUse, Next, vars, Edit, Boot, Provide, Check, Create,
       CreateFails, CheckVersion, TruncateConf, WriteConf, EnsureInclude,
       WriteHBA, Plan, Spawn, SpawnFails, Use, Stop, ServerDies, HostDies,
       cluster
<1> QED BY <1>1, Invariance, PTL DEF Spec, DataSurvives
=============================================================================
