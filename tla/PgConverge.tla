----------------------------- MODULE PgConverge -----------------------------
(***************************************************************************)
(* Converge of the Postgres driver (modules/postgres/converge.go): several *)
(* passes bring one cluster up to the same declaration, at the same time   *)
(* (a boot-time converge races a lazy-connect one) and again after a       *)
(* failure.                                                                *)
(*                                                                         *)
(* A pass works through loops: the roles, their memberships, the database, *)
(* the schemas, the extensions, the grants.  Items of a loop are taken in  *)
(* any order, which covers every order of declaration.  One SQL statement  *)
(* is one step; a check and the statement it decides on are two.           *)
(*                                                                         *)
(* The cluster is what exists and which declared settings are applied to   *)
(* it; SQL text, names and values are left out.  A grant on all objects   *)
(* of a schema, two statements in the code, is one here.  psql and the     *)
(* server are outside: a statement fails as Postgres makes it fail.        *)
(***************************************************************************)
EXTENDS Naturals

CONSTANTS
    Pass,         \* concurrent calls of Converge
    Role, Schema, Extension, Database,  \* the declared objects
    NoItem,
    Memberships,  \* declared <<role, group>> pairs
    Owner,        \* the roles named as the database's owner: none or one
    SchemaOwner,  \* the same for each schema
    HasOptions,   \* a connection limit, is_template or allow_connections = false
    AllowConns,   \* allow_connections
    Noted,        \* objects with a comment or role parameters
    Bundled,      \* extensions with a `source` bundle
    Optional,     \* extensions marked `optional = true`
    Grants,       \* declared grants, as <<role, object granted on>>
    Attempts,     \* execRetry's attempts: 6 in the code
    MaxRuns       \* bound: how often each pass is started

Object == Role \cup Schema \cup Extension \cup {Database}

ASSUME DeclarationAssumption ==
    /\ Memberships \subseteq Role \X Role
    /\ Owner \subseteq Role
    /\ SchemaOwner \in [Schema -> SUBSET Role]
    /\ HasOptions \in BOOLEAN /\ AllowConns \in BOOLEAN
    /\ ~AllowConns => HasOptions
    /\ Noted \subseteq Role \cup {Database}
    /\ Bundled \subseteq Extension /\ Optional \subseteq Extension
    /\ Grants \subseteq Role \X (Schema \cup {Database})
    /\ Attempts \in Nat \ {0} /\ MaxRuns \in Nat
    /\ Database \notin Role \cup Schema \cup Extension
    /\ Role \cap Schema = {} /\ Role \cap Extension = {}
    /\ Schema \cap Extension = {}

VARIABLES
    exists,     \* the objects that exist in the cluster
    applied,    \* the declared settings that hold in the cluster
    closed,     \* the database refuses connections
    toolchain,  \* each extension's files: "absent", "partial", "complete"
    pc,         \* what each pass does next
    item,       \* the item of the loop it is working on
    todo,       \* the items of the loop still to come
    tries,      \* execRetry's loop counter
    reason,     \* why it failed
    raced,      \* another pass ran while this one did
    runs        \* how often it was started

cluster == <<exists, applied, closed, toolchain>>
vars == <<exists, applied, closed, toolchain, pc, item, todo, tries, reason,
          raced, runs>>

Setting ==
    [of : {"options"}, on : Role]
      \cup [of : {"note"}, on : Role \cup {Database}]
      \cup [of : {"member"}, on : Memberships]
      \cup [of : {"owner", "options"}, on : {Database}]
      \cup [of : {"grant"}, on : Grants]

Loops == {"roles", "members", "database", "schemas", "extensions", "grants"}
Retried == {"createRole", "alterRole", "noteRole", "grantMember", "alterOwner",
            "alterOptions", "noteDatabase", "grant"}
Plain == {"checkRole", "checkDatabase", "createDatabase", "createSchema",
          "createExtension"}
Running == Loops \cup Retried \cup Plain \cup {"findFiles", "extract"}

\* The statements run over a connection to the database itself.
OnDatabase == {"createSchema", "createExtension"}

Init ==
    /\ exists \in SUBSET Object
    /\ Database \notin exists => exists \subseteq Role
    /\ applied = {}
    /\ closed \in BOOLEAN /\ (closed => Database \in exists)
    /\ toolchain \in [Extension -> {"absent", "complete"}]
    /\ \A e \in Extension : e \in exists => toolchain[e] = "complete"
    /\ pc = [p \in Pass |-> "idle"]
    /\ item = [p \in Pass |-> NoItem]
    /\ todo = [p \in Pass |-> {}]
    /\ tries = [p \in Pass |-> 0]
    /\ reason = [p \in Pass |-> "none"]
    /\ raced = [p \in Pass |-> FALSE]
    /\ runs = [p \in Pass |-> 0]

Goto(p, l) == pc' = [pc EXCEPT ![p] = l] /\ tries' = [tries EXCEPT ![p] = 0]

Fail(p, why) ==
    /\ Goto(p, "failed")
    /\ reason' = [reason EXCEPT ![p] = why]

Contended(p) == \E q \in Pass \ {p} : pc[q] \in Running

-----------------------------------------------------------------------------
(* The loops of Converge.                                                  *)

Work(loop) ==
    CASE loop = "roles"      -> Role
      [] loop = "members"    -> Memberships
      [] loop = "database"   -> {Database}
      [] loop = "schemas"    -> Schema
      [] loop = "extensions" -> Extension
      [] loop = "grants"     -> Grants

After(loop) ==
    CASE loop = "roles"      -> "members"
      [] loop = "members"    -> "database"
      [] loop = "database"   -> "schemas"
      [] loop = "schemas"    -> "extensions"
      [] loop = "extensions" -> "grants"
      [] loop = "grants"     -> "ok"

FirstStep(loop) ==
    CASE loop = "roles"      -> "checkRole"
      [] loop = "members"    -> "grantMember"
      [] loop = "database"   -> "checkDatabase"
      [] loop = "schemas"    -> "createSchema"
      [] loop = "extensions" -> "findFiles"
      [] loop = "grants"     -> "grant"

Start(p) ==
    /\ pc[p] \in {"idle", "failed", "ok"}
    /\ runs[p] < MaxRuns
    /\ Goto(p, "roles")
    /\ todo' = [todo EXCEPT ![p] = Work("roles")]
    /\ item' = [item EXCEPT ![p] = NoItem]
    /\ reason' = [reason EXCEPT ![p] = "none"]
    /\ runs' = [runs EXCEPT ![p] = @ + 1]
    /\ raced' = [q \in Pass |-> IF q = p THEN Contended(p)
                                ELSE raced[q] \/ pc[q] \in Running]
    /\ UNCHANGED cluster

TakeItem(p) ==
    /\ pc[p] \in Loops
    /\ \E i \in todo[p] :
        /\ item' = [item EXCEPT ![p] = i]
        /\ todo' = [todo EXCEPT ![p] = @ \ {i}]
        /\ Goto(p, FirstStep(pc[p]))
    /\ UNCHANGED <<cluster, reason, raced, runs>>

LeaveLoop(p) ==
    /\ pc[p] \in Loops
    /\ todo[p] = {}
    /\ Goto(p, After(pc[p]))
    /\ item' = [item EXCEPT ![p] = NoItem]
    /\ todo' = [todo EXCEPT ![p] = IF After(pc[p]) \in Loops
                                   THEN Work(After(pc[p])) ELSE {}]
    /\ UNCHANGED <<cluster, reason, raced, runs>>

-----------------------------------------------------------------------------
(* The statements: what each needs to exist, what it creates, what it      *)
(* settles, and what follows when it succeeds.                             *)

Needs(l, i) ==
    CASE l \in {"alterRole", "noteRole"} -> {i}
      [] l = "grantMember"     -> {i[1], i[2]}
      [] l = "createDatabase"  -> Owner
      [] l = "alterOwner"      -> Owner \cup {Database}
      [] l \in {"alterOptions", "noteDatabase"} -> {Database}
      [] l = "createSchema"    -> SchemaOwner[i] \cup {Database}
      [] l = "createExtension" -> {Database}
      [] l = "grant"           -> {i[1], i[2], Database}
      [] OTHER                 -> {}

Creates(l, i) ==
    IF l \in {"createRole", "createDatabase", "createSchema", "createExtension"}
    THEN {i} ELSE {}

Settles(l, i) ==
    CASE l \in {"createRole", "alterRole"} -> {[of |-> "options", on |-> i]}
      [] l \in {"noteRole", "noteDatabase"} -> {[of |-> "note", on |-> i]}
      [] l = "grantMember"    -> {[of |-> "member", on |-> i]}
      [] l = "createDatabase" -> {[of |-> "owner", on |-> Database] : o \in Owner}
      [] l = "alterOwner"     -> {[of |-> "owner", on |-> Database]}
      [] l = "alterOptions"   -> {[of |-> "options", on |-> Database]}
      [] l = "grant"          -> {[of |-> "grant", on |-> i]}
      [] OTHER                -> {}

\* convergeDatabase's statements after the owner, each only if declared.
AfterOwner ==
    CASE HasOptions                     -> "alterOptions"
      [] ~HasOptions /\ Database \in Noted -> "noteDatabase"
      [] OTHER                          -> "database"

Then(l, i) ==
    CASE l \in {"createRole", "alterRole"} ->
            IF i \in Noted THEN "noteRole" ELSE "roles"
      [] l = "noteRole"        -> "roles"
      [] l = "grantMember"     -> "members"
      [] l \in {"createDatabase", "alterOwner"} -> AfterOwner
      [] l = "alterOptions"    -> IF Database \in Noted THEN "noteDatabase"
                                  ELSE "database"
      [] l = "noteDatabase"    -> "database"
      [] l = "createSchema"    -> "schemas"
      [] l = "createExtension" -> "extensions"
      [] l = "grant"           -> "grants"

\* A grant on the database is run over the maintenance database.
OverDatabase(l, i) == l \in OnDatabase \/ (l = "grant" /\ i[2] # Database)

\* CREATE ROLE and CREATE DATABASE have no IF NOT EXISTS.
AlreadyExists(l, i) == l \in {"createRole", "createDatabase"} /\ i \in exists

\* CREATE EXTENSION needs every file of the bundle.
FilesMissing(l, i) == l = "createExtension" /\ toolchain[i] # "complete"

Takes(p) ==
    /\ exists' = exists \cup Creates(pc[p], item[p])
    /\ applied' = applied \cup Settles(pc[p], item[p])
    /\ closed' = (closed \/ (pc[p] = "alterOptions" /\ ~AllowConns))

Executable(l, i) ==
    /\ Needs(l, i) \subseteq exists
    /\ ~AlreadyExists(l, i)
    /\ ~FilesMissing(l, i)
    /\ ~(OverDatabase(l, i) /\ closed)

\* SELECT EXISTS(...): create what is absent, alter what is there.
CheckRole(p) ==
    /\ pc[p] = "checkRole"
    /\ Goto(p, IF item[p] \in exists THEN "alterRole" ELSE "createRole")
    /\ UNCHANGED <<cluster, item, todo, reason, raced, runs>>

CheckDatabaseKeepsOwner(p) ==
    /\ pc[p] = "checkDatabase"
    /\ Goto(p, IF Database \notin exists THEN "createDatabase" ELSE AfterOwner)
    /\ UNCHANGED <<cluster, item, todo, reason, raced, runs>>
CheckDatabaseSkipped(p) ==
    /\ pc[p] = "checkDatabase"
    /\ Goto(p, "createDatabase")
    /\ UNCHANGED <<cluster, item, todo, reason, raced, runs>>
CheckDatabase(p) ==
    /\ pc[p] = "checkDatabase"
    /\ Goto(p, IF Database \notin exists THEN "createDatabase"
               ELSE IF Owner # {} THEN "alterOwner" ELSE AfterOwner)
    /\ UNCHANGED <<cluster, item, todo, reason, raced, runs>>

Execute(p) ==
    /\ pc[p] \in Retried \cup (Plain \ {"checkRole", "checkDatabase"})
    /\ Executable(pc[p], item[p])
    /\ Takes(p)
    /\ Goto(p, Then(pc[p], item[p]))
    /\ UNCHANGED <<toolchain, item, todo, reason, raced, runs>>

\* CREATE ROLE lost the race to another creator: fall back to ALTER ROLE.
LoseRoleRaceFails(p) ==
    /\ pc[p] = "createRole"
    /\ item[p] \in exists
    /\ Fail(p, "exists")
    /\ UNCHANGED <<cluster, item, todo, raced, runs>>
LoseRoleRace(p) ==
    /\ pc[p] = "createRole"
    /\ item[p] \in exists
    /\ Goto(p, "alterRole")
    /\ UNCHANGED <<cluster, item, todo, reason, raced, runs>>

-----------------------------------------------------------------------------
(* What else can happen to a statement.                                    *)

\* A failure to provide an extension fails the pass, unless it is optional.
FailOrSkip(p, why) ==
    IF pc[p] \in {"findFiles", "extract", "createExtension"}
         /\ item[p] \in Optional
    THEN Goto(p, "extensions") /\ UNCHANGED reason
    ELSE Fail(p, why)

\* Why Postgres refuses a statement, beyond a role that exists already: an
\* object it names is not there, another pass has created the database, the
\* database is closed, or CREATE EXTENSION finds the control file and not the
\* rest.
Refusals(l, i) ==
    {why \in {"missing", "exists", "closed", "damaged"} :
        \/ why = "missing" /\ ~(Needs(l, i) \subseteq exists)
        \/ why = "exists"  /\ l = "createDatabase" /\ AlreadyExists(l, i)
        \/ why = "closed"  /\ OverDatabase(l, i) /\ closed
        \/ why = "damaged" /\ FilesMissing(l, i)}

Refuse(p) ==
    /\ pc[p] \in Retried \cup Plain
    /\ \E why \in Refusals(pc[p], item[p]) : FailOrSkip(p, why)
    /\ UNCHANGED <<cluster, item, todo, raced, runs>>

\* Concurrent DDL on a catalog row makes a statement fail for the moment;
\* execRetry tries again, exec does not.
RetryForever(p) ==
    /\ pc[p] \in Retried
    /\ Contended(p)
    /\ tries' = [tries EXCEPT ![p] = (@ + 1) % Attempts]
    /\ UNCHANGED <<cluster, pc, item, todo, reason, raced, runs>>
RetryOnceMore(p) ==
    /\ pc[p] \in Retried
    /\ Contended(p)
    /\ IF tries[p] < Attempts
       THEN /\ tries' = [tries EXCEPT ![p] = @ + 1]
            /\ UNCHANGED <<pc, reason>>
       ELSE Fail(p, "contention")
    /\ UNCHANGED <<cluster, item, todo, raced, runs>>
Retry(p) ==
    /\ pc[p] \in Retried
    /\ Contended(p)
    /\ IF tries[p] + 1 < Attempts
       THEN /\ tries' = [tries EXCEPT ![p] = @ + 1]
            /\ UNCHANGED <<pc, reason>>
       ELSE Fail(p, "contention")
    /\ UNCHANGED <<cluster, item, todo, raced, runs>>

LoseToContention(p) ==
    /\ pc[p] \in Plain \ {"checkRole", "checkDatabase"}
    /\ Contended(p)
    /\ FailOrSkip(p, "contention")
    /\ UNCHANGED <<cluster, item, todo, raced, runs>>

\* The context ends or the server goes away; the statement may have been
\* committed all the same.
LoseConnection(p) ==
    /\ pc[p] \in Retried \cup Plain
    /\ \/ UNCHANGED <<exists, applied, closed>>
       \/ Executable(pc[p], item[p]) /\ Takes(p)
    /\ FailOrSkip(p, "lost")
    /\ UNCHANGED <<toolchain, item, todo, raced, runs>>

-----------------------------------------------------------------------------
(* The extension installer (modules/postgres/extensions.go).  The control  *)
(* file alone makes an extension available.                                *)

FindFiles(p) ==
    /\ pc[p] = "findFiles"
    /\ CASE toolchain[item[p]] # "absent" ->
              Goto(p, "createExtension") /\ UNCHANGED <<toolchain, reason>>
         [] toolchain[item[p]] = "absent" /\ item[p] \in Bundled ->
              Goto(p, "extract") /\ UNCHANGED <<toolchain, reason>>
         [] OTHER ->
              FailOrSkip(p, "unavailable") /\ UNCHANGED toolchain
    /\ UNCHANGED <<exists, applied, closed, item, todo, raced, runs>>

\* extractBundle truncates and rewrites one file after another.
ExtractSome(p) ==
    /\ pc[p] = "extract"
    /\ toolchain[item[p]] # "partial"
    /\ toolchain' = [toolchain EXCEPT ![item[p]] = "partial"]
    /\ UNCHANGED <<exists, applied, closed, pc, item, todo, tries, reason,
                   raced, runs>>

ExtractAll(p) ==
    /\ pc[p] = "extract"
    /\ toolchain' = [toolchain EXCEPT ![item[p]] = "complete"]
    /\ Goto(p, "createExtension")
    /\ UNCHANGED <<exists, applied, closed, item, todo, reason, raced, runs>>

\* The bundle cannot be read, or is damaged, or the disk is full.
ExtractFails(p) ==
    /\ pc[p] = "extract"
    /\ FailOrSkip(p, "unavailable")
    /\ UNCHANGED <<cluster, item, todo, raced, runs>>

-----------------------------------------------------------------------------

Step(p) ==
    \/ TakeItem(p) \/ LeaveLoop(p)
    \/ CheckRole(p) \/ CheckDatabase(p) \/ Execute(p)
    \/ LoseRoleRace(p) \/ Refuse(p)
    \/ Retry(p) \/ LoseToContention(p) \/ LoseConnection(p)
    \/ FindFiles(p) \/ ExtractSome(p) \/ ExtractAll(p) \/ ExtractFails(p)

Next == \E p \in Pass : Start(p) \/ Step(p)

Spec == Init /\ [][Next]_vars

\* A pass under way goes on: psql is run to its end, and a backoff ends.
LiveSpec == Spec /\ \A p \in Pass : WF_vars(Step(p))

-----------------------------------------------------------------------------
(* Properties.                                                             *)

Item == Object \cup Memberships \cup Grants \cup {NoItem}
Reason == {"none", "exists", "missing", "closed", "contention", "lost",
           "unavailable", "damaged"}

TypeOK ==
    /\ exists \subseteq Object
    /\ applied \subseteq Setting
    /\ closed \in BOOLEAN
    /\ toolchain \in [Extension -> {"absent", "partial", "complete"}]
    /\ pc \in [Pass -> Running \cup {"idle", "ok", "failed"}]
    /\ item \in [Pass -> Item]
    /\ todo \in [Pass -> SUBSET (Object \cup Memberships \cup Grants)]
    /\ tries \in [Pass -> 0 .. Attempts - 1]
    /\ reason \in [Pass -> Reason]
    /\ raced \in [Pass -> BOOLEAN]
    /\ runs \in [Pass -> 0 .. MaxRuns]

DeclaredObjects == Role \cup {Database} \cup Schema \cup (Extension \ Optional)

DeclaredSettings ==
    [of : {"options"}, on : Role]
      \cup [of : {"note"}, on : Noted]
      \cup [of : {"member"}, on : Memberships]
      \cup [of : {"grant"}, on : Grants]
      \cup {[of |-> "owner", on |-> Database] : o \in Owner}
      \cup (IF HasOptions THEN {[of |-> "options", on |-> Database]} ELSE {})

\* A pass that reports success leaves everything declared in place, whatever
\* ran beside it, failed before it or was there when it started.
SuccessMeansDeclared ==
    \A p \in Pass : pc[p] = "ok" =>
        DeclaredObjects \subseteq exists /\ DeclaredSettings \subseteq applied

\* The order of things never fails a pass.  No statement names a declared
\* object that does not exist yet: roles may be declared in any order, before
\* or after the groups they are members of.  And losing the race to create a
\* role is ridden out: the other creator's role is altered instead.
OrderDoesNotMatter ==
    \A p \in Pass : /\ reason[p] # "missing"
                    /\ reason[p] = "exists" => item[p] = Database

\* A pass that has the cluster to itself succeeds from any starting point, the
\* remains of a failed pass included, unless its connection is lost, an
\* extension has no usable files, or the database was closed to it.
SoloPassSucceeds ==
    \A p \in Pass : pc[p] = "failed" /\ ~raced[p] =>
        \/ reason[p] = "lost"
        \/ reason[p] = "closed" /\ closed
        \/ reason[p] \in {"unavailable", "damaged"} /\ item[p] \notin Optional

\* Every pass ends: two passes contending for the same rows cannot keep each
\* other busy for ever.
PassEnds == \A p \in Pass : pc[p] \in Running ~> pc[p] \in {"ok", "failed"}

\* The comments of the driver on two passes over one cluster: every step is
\* idempotent, so the loser of a race goes on.
RacersSucceed == \A p \in Pass : reason[p] # "exists"
=============================================================================
