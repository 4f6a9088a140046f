------------------------------ MODULE Provision ------------------------------
(***************************************************************************)
(* From a configuration to a running database server: Provision and Plan   *)
(* of the postgres, mariadb and ferret drivers (modules/postgres/          *)
(* cluster.go and postgres.go, modules/mariadb/provision.go and            *)
(* mariadb.go, modules/ferret/provision.go and ferret.go), for one         *)
(* instance over many boots.  The host calls Provision, then Plan, then    *)
(* spawns the server; it may be killed between any two steps, or in the    *)
(* middle of creating the cluster, and the server it spawned outlives it.  *)
(*                                                                         *)
(* The data directory is the set of the parts it holds: the marker that    *)
(* `provisioned` looks for (PG_VERSION, or the directory mysql), the main  *)
(* configuration file, the system tables.  initdb and mariadb-install-db   *)
(* are external; cloneTree copies in lexical order, PG_VERSION before      *)
(* postgresql.conf.                                                        *)
(***************************************************************************)
CONSTANTS
    Drivers,  \* the drivers considered
    Major,    \* major versions of the server
    Tuning,   \* what doze.conf may say
    Off       \* no server

ASSUME ProvisionAssumption ==
    /\ Drivers \subseteq {"postgres", "mariadb", "ferret"}
    /\ Off \notin [major : Major, tuning : Tuning]
    /\ Tuning \cap {"none", "torn", "fixed"} = {}

VARIABLES
    driver,    \* which driver the instance belongs to
    declared,  \* the configuration: version, settings, a bundled template
    want,      \* the configuration this boot was started with
    pc,        \* what the boot does next
    why,       \* why the last boot failed
    disk,      \* the parts of the cluster on disk
    version,   \* the major version the marker holds
    doze,      \* doze.conf: absent, truncated, a tuning, ferret's fixed one
    included,  \* postgresql.conf includes doze.conf
    hba,       \* pg_hba.conf is doze's own
    lock,      \* the pid file: none, stale, live
    socket,    \* the socket file exists
    server,    \* Off, or what the running server was started with
    userdata   \* the cluster holds user data

cluster == <<disk, version, userdata>>
confs == <<doze, included, hba>>
process == <<lock, socket, server>>
vars == <<driver, declared, want, pc, why, cluster, confs, process>>

Config == [major : Major, tuning : Tuning, bundled : BOOLEAN]

Parts == IF driver = "mariadb" THEN {"marker", "tables"}
         ELSE {"marker", "conf", "tables"}

Provisioning == {"check", "create", "version", "conf", "writing", "include",
                 "hba"}

Init ==
    /\ driver \in Drivers
    /\ declared \in Config /\ want = declared
    /\ pc = "idle" /\ why = "none"
    /\ disk = {} /\ version \in Major /\ userdata = FALSE
    /\ doze = "none" /\ included = FALSE /\ hba = FALSE
    /\ lock = "none" /\ socket = FALSE /\ server = Off

Goto(l) == pc' = l /\ UNCHANGED why
Fail(reason) == pc' = "failed" /\ why' = reason

-----------------------------------------------------------------------------
(* Provision.                                                              *)

\* The user edits the configuration, or updates the toolchain.
Edit ==
    /\ declared' \in Config
    /\ UNCHANGED <<driver, want, pc, why, cluster, confs, process>>

Boot ==
    /\ pc \in {"idle", "failed"}
    /\ pc' = "check" /\ why' = "none"
    /\ want' = declared
    /\ UNCHANGED <<driver, declared, cluster, confs, process>>

CheckNever ==
    /\ pc = "check"
    /\ Goto("create")
    /\ UNCHANGED <<driver, declared, want, cluster, confs, process>>
Check ==
    /\ pc = "check"
    /\ Goto(IF "marker" \in disk THEN "version" ELSE "create")
    /\ UNCHANGED <<driver, declared, want, cluster, confs, process>>

\* What is on disk when a part is written, for each way to make a cluster.
Recipe ==
    [initdb  |-> [marker |-> {}, conf |-> {"marker"},
                  tables |-> {"marker", "conf"}],
     clone   |-> [marker |-> {}, tables |-> {"marker"},
                  conf |-> {"marker", "tables"}],
     install |-> [marker |-> {}, conf |-> Parts, tables |-> {"marker"}]]

Maker == CASE driver = "mariadb" -> "install"
           [] driver = "ferret" /\ want.bundled -> "clone"
           [] OTHER -> "initdb"

\* cloneTree truncates the files it finds; initdb refuses a directory that is
\* not empty, and mariadb-install-db leaves existing tables alone.
Overwrites == Maker = "clone" /\ disk # {}

Create ==
    /\ pc = "create"
    /\ \/ /\ \E part \in Parts \ disk :
              /\ Recipe[Maker][part] = disk
              /\ disk' = disk \cup {part}
              /\ version' = IF part = "marker" THEN want.major ELSE version
          /\ Goto("create")
          /\ UNCHANGED userdata
       \/ /\ disk = Parts
          /\ Goto("version")
          /\ userdata' = (userdata /\ ~Overwrites)
          /\ UNCHANGED <<disk, version>>
    /\ UNCHANGED <<driver, declared, want, confs, process>>

\* The tool or the copy fails by itself; initdb removes what it has made.
CreateFails ==
    /\ pc = "create"
    /\ Fail("create")
    /\ disk' = IF Maker = "initdb" THEN {} ELSE disk
    /\ UNCHANGED <<driver, declared, want, version, userdata, confs, process>>

\* The major version of a declared one.
MajorOfFull(config) == config
MajorOf(config) == config.major

\* Only postgres checks the version its marker holds.
CheckVersionNever ==
    /\ pc = "version"
    /\ Goto("conf")
    /\ UNCHANGED <<driver, declared, want, cluster, confs, process>>
CheckVersion ==
    /\ pc = "version"
    /\ IF driver = "postgres" /\ version # MajorOf(want) THEN Fail("version")
       ELSE Goto("conf")
    /\ UNCHANGED <<driver, declared, want, cluster, confs, process>>

\* os.WriteFile truncates, then writes.
TruncateConfOnce ==
    /\ pc = "conf"
    /\ Goto(IF doze = "none" THEN "writing" ELSE "include")
    /\ doze' = IF doze = "none" THEN "torn" ELSE doze
    /\ UNCHANGED <<driver, declared, want, cluster, included, hba, process>>
TruncateConf ==
    /\ pc = "conf"
    /\ Goto("writing")
    /\ doze' = "torn"
    /\ UNCHANGED <<driver, declared, want, cluster, included, hba, process>>

\* The settings of a ferret instance go into the gateway's environment instead.
WriteConf ==
    /\ pc = "writing"
    /\ Goto(IF driver = "mariadb" THEN "plan" ELSE "include")
    /\ doze' = IF driver = "ferret" THEN "fixed" ELSE want.tuning
    /\ UNCHANGED <<driver, declared, want, cluster, included, hba, process>>

EnsureInclude ==
    /\ pc = "include"
    /\ IF "conf" \in disk
       THEN included' = TRUE /\ Goto("hba")
       ELSE Fail("noConf") /\ UNCHANGED included
    /\ UNCHANGED <<driver, declared, want, cluster, doze, hba, process>>

WriteHBA ==
    /\ pc = "hba"
    /\ hba' = TRUE
    /\ Goto("plan")
    /\ UNCHANGED <<driver, declared, want, cluster, doze, included, process>>

-----------------------------------------------------------------------------
(* Plan, and the server.                                                   *)

ClearStaleLock == lock' = "none" /\ socket' = FALSE

\* A live lock is refused before anything is removed.
PlanSocketFirst ==
    /\ pc = "plan"
    /\ socket' = FALSE
    /\ IF lock = "live" THEN Fail("running") /\ UNCHANGED lock
       ELSE lock' = "none" /\ Goto("spawn")
    /\ UNCHANGED <<driver, declared, want, cluster, confs, server>>
PlanAnyLock ==
    /\ pc = "plan"
    /\ ClearStaleLock /\ Goto("spawn")
    /\ UNCHANGED <<driver, declared, want, cluster, confs, server>>
Plan ==
    /\ pc = "plan"
    /\ IF lock = "live"
       THEN Fail("running") /\ UNCHANGED <<lock, socket>>
       ELSE ClearStaleLock /\ Goto("spawn")
    /\ UNCHANGED <<driver, declared, want, cluster, confs, server>>

\* What keeps a server from starting, of what is on disk.
Obstacles ==
    {o \in {"halfway", "torn", "version"} :
        \/ o = "halfway" /\ disk # Parts
        \/ o = "torn"    /\ doze = "torn"
        \/ o = "version" /\ driver # "mariadb" /\ version # want.major}

Spawn ==
    /\ pc = "spawn"
    /\ Obstacles = {}
    /\ server' = [major |-> MajorOf(want),
                   tuning |-> IF driver = "ferret" THEN want.tuning ELSE doze]
    /\ lock' = "live" /\ socket' = TRUE
    /\ Goto("up")
    /\ UNCHANGED <<driver, declared, want, cluster, confs>>

\* The server does not start, or a port picked by freePort was taken meanwhile.
SpawnFails ==
    /\ pc = "spawn"
    /\ \/ \E o \in Obstacles : Fail(o)
       \/ driver = "ferret" /\ Fail("port")
    /\ UNCHANGED <<driver, declared, want, cluster, confs, process>>

\* Converge and the clients put data into the running server.
Use ==
    /\ server # Off /\ ~userdata
    /\ userdata' = TRUE
    /\ UNCHANGED <<driver, declared, want, pc, why, disk, version, confs, process>>

\* The host stops the server it supervises.
Stop ==
    /\ pc = "up"
    /\ server' = Off /\ lock' = "none" /\ socket' = FALSE
    /\ Goto("idle")
    /\ UNCHANGED <<driver, declared, want, cluster, confs>>

ServerDies ==
    /\ server # Off
    /\ server' = Off /\ lock' = "stale" /\ UNCHANGED socket
    /\ Goto(IF pc = "up" THEN "idle" ELSE pc)
    /\ UNCHANGED <<driver, declared, want, cluster, confs>>

\* The host is killed or gives up on the boot, and a tool it runs with it: what
\* is on disk stays as it is, and so does a running server.
HostDies ==
    /\ pc \notin {"idle", "failed"}
    /\ Goto("idle")
    /\ UNCHANGED <<driver, declared, want, cluster, confs, process>>

-----------------------------------------------------------------------------

Provide == Check \/ Create \/ CreateFails \/ CheckVersion \/ TruncateConf
             \/ WriteConf \/ EnsureInclude \/ WriteHBA

Next ==
    \/ Edit \/ Boot \/ Provide \/ Plan \/ Spawn \/ SpawnFails
    \/ Use \/ Stop \/ ServerDies \/ HostDies

Spec == Init /\ [][Next]_vars

-----------------------------------------------------------------------------
(* Properties.                                                             *)

\* Besides the types: what a server was started with is a major version, not
\* the full version of the declaration.
TypeOK ==
    /\ driver \in Drivers
    /\ declared \in Config /\ want \in Config
    /\ pc \in Provisioning \cup {"idle", "failed", "plan", "spawn", "up"}
    /\ why \in {"none", "create", "version", "noConf", "running", "halfway",
                "torn", "port"}
    /\ disk \subseteq Parts
    /\ version \in Major
    /\ doze \in Tuning \cup {"none", "torn", "fixed"}
    /\ included \in BOOLEAN /\ hba \in BOOLEAN /\ socket \in BOOLEAN
    /\ userdata \in BOOLEAN
    /\ lock \in {"none", "stale", "live"}
    /\ server \in {Off} \cup [major : Major, tuning : Tuning]

\* A server that comes up runs with the settings its boot was asked for,
\* included and behind doze's own access rules, and on a complete cluster of
\* its own version, whatever earlier boots left behind.
ServerAsDeclared ==
    pc = "up" =>
        /\ server = [major |-> want.major, tuning |-> want.tuning]
        /\ disk = Parts
        /\ driver # "mariadb" => included /\ hba /\ version = want.major

\* A postgres data directory is never touched by another major version: the
\* boot is refused before its configuration is rewritten.
VersionLockHolds ==
    driver = "postgres" /\ pc \in {"conf", "writing", "include", "hba", "plan",
                                   "spawn", "up"}
    => version = want.major

\* A crash outside the creation of the cluster never needs a repair: a boot
\* then fails only for what the configuration or another process does.
OnlyCreationCanBreakIt ==
    why \in {"halfway", "noConf", "torn"} => disk # Parts

\* A running server keeps its socket, even when a second boot is attempted.
LiveServerKeepsSocket == server # Off => socket /\ lock = "live"

\* A second server is never started on the data directory of a running one.
NoDoubleStart == [][server = Off \/ server' \in {Off, server}]_vars

\* Nothing a boot does loses user data.
DataSurvives == [][userdata => userdata']_vars

\* The comments of provision: it makes the data directory ready to boot, and is
\* idempotent, so that doing it again completes what was interrupted.
ProvisionedIsReady == pc \in {"plan", "spawn"} => disk = Parts
=============================================================================
