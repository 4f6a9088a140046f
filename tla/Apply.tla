-------------------------------- MODULE Apply --------------------------------
(***************************************************************************)
(* The life of one declared instance: its block is edited, the server is   *)
(* booted, and the host applies or destroys what is declared, with the     *)
(* driver's Objects, Prune and Converge (modules/<driver>/inventory.go and *)
(* converge.go).  The host keeps the objects of the last successful apply, *)
(* asks the driver to prune those no longer declared, in reverse, and to   *)
(* converge the rest, in either order: that much is the host's and         *)
(* external.  A pass is the list of statements the driver will send; it    *)
(* stops at the first one that fails.  Concurrent passes and the single    *)
(* statements behind a Postgres role or a FerretDB collection are in       *)
(* PgConverge and FerretConverge.  Extensions are all available here.      *)
(***************************************************************************)
EXTENDS Settings

CONSTANTS
    Drivers,       \* the drivers to run
    Bodies(_),     \* the bodies a user of a driver writes
    Inst,          \* the name of the instance
    Requires(_)    \* the extension another one is built on, as a sequence

DriverNames == {"postgres", "mariadb", "ferret", "temporal", "kafka", "aws",
                "kvrocks", "valkey"}

VARIABLES
    driver,
    config,    \* what the block was last decoded to
    listens,   \* the port the running server was planned with, if it has one
    record,    \* the host's record of applied objects
    objects,   \* what exists on the server, each object with its value
    ties,      \* [role, on, as]: who owns and who was granted what
    mode,      \* what the last pass was for
    removed,   \* the objects it had to prune
    todo,      \* the statements it has still to send
    outcome,   \* "none", "running", "ok", or why it failed
    clean      \* no earlier pass broke off since the record was written

server == <<objects, ties>>
vars == <<driver, config, listens, record, objects, ties, mode, removed,
          todo, outcome, clean>>

Mapped(seq, Op(_)) == [i \in DOMAIN seq |-> Op(seq[i])]

-----------------------------------------------------------------------------
(* Objects on a server are <<kind, path>>, in the inventory <<kind, name>>.*)

Database == <<"database", <<Inst>>>>
Role(n) == <<"role", <<n>>>>
Schema(n) == <<"schema", <<n>>>>
Alias(n) == IF n = <<"pgvector">> THEN <<"vector">> ELSE n
Extension(n) == <<"extension", <<n>>>>
User(n, host) == <<"user", <<n, host>>>>

\* Every extension that is asked for exists, and with it those it is built on.
ASSUME BodiesAssumption ==
    /\ Drivers \subseteq DriverNames
    /\ Inst # NoName
    /\ \A d \in Drivers : \A raw \in Bodies(d) : IsBody(d, raw)
    /\ "postgres" \in Drivers =>
           \A raw \in Bodies("postgres") :
               \A e \in Range(PostgresConfig(raw).extensions) :
                   NoName \notin Range(Requires(Alias(e.name)))

Listed(kind, blocks) == Mapped(blocks, LAMBDA b : <<kind, b.name>>)

\* Objects of each driver, in the order of creation
PostgresObjects(c) ==
    Listed("role", c.roles) \o <<<<"database", Inst>>>>
        \o Listed("schema", c.schemas) \o Listed("extension", c.extensions)

MariaObjects(c) ==
    <<<<"database", Inst>>>>
        \o Mapped(c.users, LAMBDA u : <<"user", Account(u)>>)

FerretObjects(c) ==
    FlattenSeq(Mapped(c.databases, LAMBDA db :
        <<<<"database", db.name>>>>
            \o Mapped(db.collections, LAMBDA coll :
                   <<"collection", Join(db.name, ".", coll.name)>>)))

Objects(d, c) ==
    CASE d = "postgres" -> PostgresObjects(c)
      [] d = "mariadb" -> MariaObjects(c)
      [] d = "ferret" -> FerretObjects(c)
      [] d = "temporal" -> Listed("namespace", c.namespaces)
      [] d \in {"kafka", "aws", "valkey", "kvrocks"} -> <<>>

-----------------------------------------------------------------------------
(* The statements.  `needs` are objects a statement names, `db` the one    *)
(* database psql connects to.                                              *)

Stmt(do, obj, val, needs, db) ==
    [do |-> do, obj |-> obj, val |-> val, needs |-> needs, db |-> db]

Simple(do, obj, val) == Stmt(do, obj, val, {}, {})

RolesNamed(n) == IF n = NoName THEN {} ELSE {Role(n)}

CreateExtension(e) ==
    LET base == {Extension(b) : b \in Range(Requires(Alias(e.name)))}
        home == IF e.schema = NoName THEN {} ELSE {Schema(e.schema)}
    IN Stmt(IF e.cascade THEN "install cascade" ELSE "install",
            Extension(Alias(e.name)), e.schema,
            home \cup (IF e.cascade THEN {} ELSE base), {Database})

Grant(g) ==
    IF g.database # NoName
    THEN Stmt("grant", Role(g.role), NoName,
              {<<"database", <<g.database>>>>}, {})
    ELSE Stmt("grant", Role(g.role), NoName, {Schema(g.schema)}, {Database})

PostgresConverge(c) ==
    Mapped(c.roles, LAMBDA r : Simple("put", Role(r.name), r.password))
      \o <<Stmt("put", Database, c.owner, RolesNamed(c.owner), {})>>
      \o Mapped(c.schemas, LAMBDA s : Stmt("ensure", Schema(s.name), s.owner,
                                           RolesNamed(s.owner), {Database}))
      \o Mapped(c.extensions, CreateExtension)
      \o Mapped(c.grants, Grant)

CreateOnly(u) ==
    <<Simple("ensure", User(u.name, u.host), u.password)>>

ConvergeUser(u) ==
    <<Simple("ensure", User(u.name, u.host), u.password)>>
      \o IF u.password = NoName THEN <<>>
         ELSE <<Simple("alter", User(u.name, u.host), u.password)>>

MariaConverge(c) ==
    <<Simple("ensure", Database, NoName)>>
      \o FlattenSeq(Mapped(c.users, ConvergeUser))
      \o Mapped(c.grants, LAMBDA g :
             Stmt("grant", User(g.user, g.host), NoName, {}, {}))
      \o IF c.grants = <<>> THEN <<>> ELSE <<Simple("flush", Database, NoName)>>

FerretConverge(c) ==
    FlattenSeq(Mapped(c.databases, LAMBDA db :
        Mapped(db.collections, LAMBDA coll :
            Simple("ensure", <<"collection", <<db.name, coll.name>>>>, NoName))))

TemporalConverge(c) ==
    Mapped(c.namespaces, LAMBDA n :
        Simple("upsert", <<"namespace", <<n.name>>>>, n.retention))

KafkaConverge(c) ==
    Mapped(c.topics, LAMBDA t : Simple("ensure", <<"topic", <<t.name>>>>, NoName))

\* stackfile.Apply: a live secret or parameter is kept, unless forced
Resource(kind, n, b) ==
    Simple(IF kind \in {"secret", "parameter"} /\ ~b.force THEN "ensure"
           ELSE "put", <<kind, <<n>>>>, b.value)

AwsConverge(c) ==
    SetToSeq(UNION {{Resource(k, n, c[k][n]) : n \in DOMAIN c[k]} :
                    k \in DOMAIN c})

Converge(d, c) ==
    CASE d = "postgres" -> PostgresConverge(c)
      [] d = "mariadb" -> MariaConverge(c)
      [] d = "ferret" -> FerretConverge(c)
      [] d = "temporal" -> TemporalConverge(c)
      [] d = "kafka" -> KafkaConverge(c)
      [] d = "aws" -> AwsConverge(c)
      [] d \in {"valkey", "kvrocks"} -> <<>>

DropPostgres(o) ==
    Stmt("drop", <<o[1], <<o[2]>>>>, NoName, {},
         IF o[1] \in {"extension", "schema"} THEN {Database} ELSE {})

\* A user named without a host is the one at "%".
DropMariaByName(o) ==
    Simple("drop", IF o[1] = "user"
                   THEN <<"user", <<CutLast(o[2], "@")[1], <<"%">>>>>>
                   ELSE <<"database", <<o[2]>>>>, NoName)

DropMaria(o) ==
    Simple("drop", IF o[1] = "user" THEN <<"user", CutLast(o[2], "@")>>
                   ELSE <<"database", <<o[2]>>>>, NoName)

DropFerret(o) ==
    Simple("drop", IF o[1] = "collection"
                   THEN <<"collection", CutFirst(o[2], ".")>>
                   ELSE <<"database", <<o[2]>>>>, NoName)

DeleteNamespace(o) == Simple("delete", <<"namespace", <<o[2]>>>>, NoName)

Prune(d, objs) ==
    CASE d = "postgres" -> Mapped(objs, DropPostgres)
      [] d = "mariadb" -> Mapped(objs, DropMaria)
      [] d = "ferret" -> Mapped(objs, DropFerret)
      [] d = "temporal" -> Mapped(objs, DeleteNamespace)
      [] d \in {"kafka", "aws", "valkey", "kvrocks"} -> <<>>

-----------------------------------------------------------------------------
(* The server.  Only Temporal is reached by its port, frontendAddr, which  *)
(* is the one that is declared by now.                                     *)

PortOf(d, c) == IF d = "temporal" THEN c.port ELSE 0

Exists(o) == o \in DOMAIN objects

\* What needs to be there before `st` finds everything it names.
Named(st) ==
    st.needs \cup (IF st.do \in {"grant", "alter", "delete"}
                  THEN {st.obj} ELSE {})

\* Names no server takes; DecodeConfig of these drivers lets them through.
Misnamed(o) ==
    \/ NoName \in Range(o[2])
    \/ driver = "mariadb" /\ o[1] = "user" /\ "@" \in Range(o[2][2])
    \/ driver = "ferret" /\ o[1] = "collection" /\ "." \in Range(o[2][1])

Refused(st, why) ==
    \/ /\ why = "malformed"
       /\ \E o \in {st.obj} \cup st.needs : Misnamed(o)
    \/ /\ why = "no database"
       /\ ~(st.db \subseteq DOMAIN objects)
    \/ /\ why = "missing"
       /\ st.db \subseteq DOMAIN objects
       /\ ~(Named(st) \subseteq DOMAIN objects)
       /\ ~(st.do \in {"install", "install cascade"} /\ Exists(st.obj))
    \/ /\ why = "in use"
       /\ st.do = "drop" /\ st.obj[1] = "role"
       /\ \E t \in ties : t.role = st.obj
    \/ /\ why = "unreachable"
       /\ PortOf(driver, config) # listens

Reasons == {"malformed", "no database", "missing", "in use", "unreachable"}

BuiltOn(exts) ==
    {e \in DOMAIN objects :
        /\ e[1] = "extension"
        /\ \E b \in Range(Requires(e[2][1])) : Extension(b) \in exts}

\* What goes with `o`: CASCADE for extensions and schemas, and all that a
\* database holds.
Within(o) ==
    {p \in DOMAIN objects :
        \/ o[1] = "schema" /\ p[1] = "extension" /\ objects[p] = o[2][1]
        \/ /\ o = Database /\ driver = "postgres"
           /\ p[1] \in {"schema", "extension"}
        \/ /\ o[1] = "database" /\ driver = "ferret"
           /\ p[1] = "collection" /\ p[2][1] = o[2][1]}

Taken(o) ==
    LET direct == {o} \cup Within(o)
    IN direct \cup BuiltOn(direct)

Drop(o) ==
    /\ objects' = [p \in DOMAIN objects \ Taken(o) |-> objects[p]]
    /\ ties' = {t \in ties : {t.role, t.on} \cap Taken(o) = {}}

Owned(st) == {[role |-> r, on |-> st.obj, as |-> "owner"] :
                  r \in {n \in st.needs : n[1] = "role"}}

Create(st) ==
    /\ objects' = Over(objects, [p \in {st.obj} |-> st.val])
    /\ ties' = ties \cup Owned(st)

\* An option that is not given is not changed either.
Change(st) ==
    /\ objects' = [objects EXCEPT ![st.obj] = Given(st.val, @)]
    /\ ties' = IF Owned(st) = {} THEN ties
               ELSE Owned(st) \cup
                    {t \in ties : t.on # st.obj \/ t.as # "owner"}

Install(st) ==
    LET base == {Extension(b) : b \in Range(Requires(st.obj[2][1]))}
    IN /\ objects' = Over(objects, [p \in {st.obj} \cup base |-> st.val])
       /\ UNCHANGED ties

AddGrants(st) ==
    /\ ties' = ties \cup
          {[role |-> st.obj, on |-> n, as |-> "grantee"] : n \in st.needs}
    /\ UNCHANGED objects

Does(st) ==
    \/ st.do \in {"drop", "delete"} /\ Drop(st.obj)
    \/ st.do = "grant" /\ AddGrants(st)
    \/ st.do \in {"ensure", "put", "upsert"} /\ ~Exists(st.obj) /\ Create(st)
    \/ st.do \in {"put", "upsert", "alter"} /\ Exists(st.obj) /\ Change(st)
    \/ st.do = "install" /\ ~Exists(st.obj) /\ Create(st)
    \/ st.do = "install cascade" /\ ~Exists(st.obj) /\ Install(st)
    \/ /\ st.do \in {"ensure", "install", "install cascade"}
       /\ Exists(st.obj)
       /\ UNCHANGED server
    \/ st.do = "flush" /\ UNCHANGED server

-----------------------------------------------------------------------------
(* The host and the user.                                                  *)

AcceptedBodies(d) == {raw \in Bodies(d) : Accepts(d, raw)}

Idle == outcome # "running"
Passes == {"prune first", "converge first", "destroy"}
StaysClean == clean' = (clean /\ (mode \in Passes => outcome = "ok"))

Init ==
    /\ driver \in Drivers
    /\ config \in {Decoded(driver, raw) : raw \in AcceptedBodies(driver)}
    /\ listens = PortOf(driver, config)
    /\ record = <<>>
    /\ objects = <<>> /\ ties = {}
    /\ mode = "none" /\ removed = <<>> /\ todo = <<>>
    /\ outcome = "none"
    /\ clean = TRUE

\* A body that is refused changes nothing.
Edit ==
    /\ Idle
    /\ config' \in {Decoded(driver, raw) : raw \in AcceptedBodies(driver)}
    /\ config' # config
    /\ mode' = "none" /\ removed' = <<>> /\ todo' = <<>>
    /\ outcome' = "none"
    /\ StaysClean
    /\ UNCHANGED <<driver, listens, record, server>>

\* A parameter the server is too old for, or one port for two listeners
WontStart ==
    \/ /\ driver = "postgres"
       /\ \E p \in DOMAIN Since \cap DOMAIN PostgresServer(config) :
              config.version < Since[p]
    \/ /\ driver = "temporal"
       /\ config.port = config.ui_port /\ ~config.headless

Begin(m, gone, stmts) ==
    /\ Idle
    /\ mode' = m /\ removed' = gone /\ todo' = stmts
    /\ outcome' = "running"
    /\ StaysClean

\* Plan, the processes, and the converge that follows a boot
Boot ==
    /\ ~WontStart
    /\ Begin("boot", <<>>, Converge(driver, config))
    /\ listens' = PortOf(driver, config)
    /\ UNCHANGED <<driver, config, record, server>>

BootFails ==
    /\ Idle /\ WontStart
    /\ outcome' = "will not start"
    /\ mode' = "boot" /\ removed' = <<>> /\ todo' = <<>>
    /\ StaysClean
    /\ UNCHANGED <<driver, config, listens, record, server>>

\* The items that are not declared, in reverse
Without(items, declared) ==
    LET rest[i \in 0 .. Len(items)] ==
            IF i = 0 THEN <<>>
            ELSE IF items[i] \in declared THEN rest[i - 1]
            ELSE <<items[i]>> \o rest[i - 1]
    IN rest[Len(items)]

Undeclared == Without(record, Range(Objects(driver, config)))

ApplyPruneFirst ==
    /\ Begin("prune first", Undeclared,
             Prune(driver, Undeclared) \o Converge(driver, config))
    /\ UNCHANGED <<driver, config, listens, record, server>>

ApplyConvergeFirst ==
    /\ Begin("converge first", Undeclared,
             Converge(driver, config) \o Prune(driver, Undeclared))
    /\ UNCHANGED <<driver, config, listens, record, server>>

Destroy ==
    /\ Begin("destroy", Reverse(record), Prune(driver, Reverse(record)))
    /\ UNCHANGED <<driver, config, listens, record, server>>

-----------------------------------------------------------------------------
(* A pass.                                                                 *)

Sending == outcome = "running" /\ todo # <<>>

Execute ==
    /\ Sending
    /\ \A why \in Reasons : ~Refused(Head(todo), why)
    /\ Does(Head(todo))
    /\ todo' = Tail(todo)
    /\ UNCHANGED <<driver, config, listens, record, mode, removed, outcome, clean>>

Fails(why) ==
    /\ outcome' = why
    /\ todo' = <<>>
    /\ UNCHANGED <<driver, config, listens, record, mode, removed, clean>>

Refuse ==
    /\ Sending
    /\ \E why \in Reasons : Refused(Head(todo), why) /\ Fails(why)
    /\ UNCHANGED server

\* The connection is lost, before or after the statement took effect.
Lose ==
    /\ Sending
    /\ \/ UNCHANGED server
       \/ (\A why \in Reasons : ~Refused(Head(todo), why)) /\ Does(Head(todo))
    /\ Fails("lost")

\* `describe` fails for a namespace that exists, and `create` is refused.
Misread ==
    /\ Sending
    /\ Head(todo).do = "upsert" /\ Exists(Head(todo).obj)
    /\ \A why \in Reasons : ~Refused(Head(todo), why)
    /\ Fails("misread")
    /\ UNCHANGED server

Finish ==
    /\ outcome = "running" /\ todo = <<>>
    /\ outcome' = "ok"
    /\ record' = CASE mode = "boot" -> record
                   [] mode = "destroy" -> <<>>
                   [] OTHER -> Objects(driver, config)
    /\ clean' = (clean \/ mode # "boot")
    /\ UNCHANGED <<driver, config, listens, server, mode, removed, todo>>

Next ==
    \/ Edit \/ Boot \/ BootFails
    \/ ApplyPruneFirst \/ ApplyConvergeFirst \/ Destroy
    \/ Execute \/ Refuse \/ Lose \/ Misread \/ Finish

Spec == Init /\ [][Next]_vars

-----------------------------------------------------------------------------
(* What the modes of a pass, and the reasons it fails for, may be.         *)
TypeOK ==
    /\ driver \in Drivers
    /\ config \in {Decoded(driver, raw) : raw \in AcceptedBodies(driver)}
    /\ listens \in 0 .. LastPort
    /\ \A t \in ties : /\ {t.role, t.on} \subseteq DOMAIN objects
                       /\ t.as \in {"owner", "grantee"}
    /\ mode \in {"none", "boot"} \cup Passes
    /\ outcome \in {"none", "running", "ok", "lost", "misread",
                    "will not start"} \cup Reasons
    /\ outcome # "running" => todo = <<>>
    /\ clean \in BOOLEAN

(* The settings a server gets, for every configuration that is accepted:   *)
(* what doze needs for the instance to stay private cannot be set from the *)
(* block or the environment, in no spelling; every other parameter of      *)
(* `settings` arrives, with a value it was given, and wins over the typed  *)
(* attributes and the tuning.                                              *)
Kept ==
    CASE driver = "postgres" -> PostgresLocked
      [] driver = "mariadb" -> MariaLocked \ {"port", "bind-address"}
      [] driver = "ferret" -> FerretLocked
      [] driver = "kvrocks" -> {n.name[1] : n \in Range(config.namespaces)}
      [] driver = "valkey" -> {}

SettingsAsIntended ==
    driver \in Configurable =>
        LET has == Server(driver, config)
            free == {s \in DOMAIN config.settings : s[1] \notin Kept}
        IN /\ \A p \in Kept : has[p] = "doze"
           /\ \A s \in free : \/ driver = "mariadb" /\ s[1] \in MariaLocked
                              \/ Arrives(has, config.settings, s)
           /\ driver # "ferret" =>
                  \A p \in DOMAIN config.tuning \ {s[1] : s \in free} :
                      has[p] = config.tuning[p]

(* After an apply or a destroy that succeeded, nothing is left of what it  *)
(* had to prune, whatever characters the names have: Prune takes apart the *)
(* names that Objects put together.  Two kinds of extension stay: one whose*)
(* declared name is an alias, since Prune drops it by that name; and one   *)
(* that is installed again, for an extension that is built on it.          *)
InventoryName(p) ==
    CASE p[1] = "user" -> Join(p[2][1], "@", p[2][2])
      [] p[1] = "collection" -> Join(p[2][1], ".", p[2][2])
      [] OTHER -> p[2][1]

Left(o) ==
    {p \in DOMAIN objects :
        \/ p[1] = o[1] /\ InventoryName(p) = o[2]
        \/ o[1] = "database" /\ p[1] = "collection" /\ p[2][1] = o[2]}

InstalledAgain(o) ==
    /\ o[1] = "extension"
    /\ \E e \in Range(config.extensions) :
           \/ Alias(e.name) = o[2]
           \/ e.cascade /\ o[2] \in Range(Requires(Alias(e.name)))

PrunedIsGone ==
    outcome = "ok" /\ mode \in Passes =>
        \A o \in Range(removed) : Left(o) = {} \/ InstalledAgain(o)

(* After a pass that succeeded, everything declared exists, and has its    *)
(* declared password, owner, retention or value, if one is given.  Values  *)
(* no statement updates are left out: the owner of a schema, the schema of *)
(* an extension, partitions, secrets that are not forced.  A host that     *)
(* converges before it prunes can lose an extension to a CASCADE.          *)
Declared ==
    CASE driver = "postgres" ->
            {<<Role(r.name), r.password>> : r \in Range(config.roles)}
              \cup {<<Database, NoName>>}
              \cup {<<Schema(s.name), NoName>> : s \in Range(config.schemas)}
              \cup {<<Extension(Alias(e.name)), NoName>> :
                        e \in Range(config.extensions)}
      [] driver = "mariadb" ->
            {<<User(u.name, u.host), u.password>> : u \in Range(config.users)}
      [] driver = "ferret" ->
            UNION {{<<<<"collection", <<db.name, c.name>>>>, NoName>> :
                       c \in Range(db.collections)} :
                   db \in Range(config.databases)}
      [] driver = "temporal" ->
            {<<<<"namespace", <<n.name>>>>, n.retention>> :
                n \in Range(config.namespaces)}
      [] driver = "kafka" ->
            {<<<<"topic", <<t.name>>>>, NoName>> : t \in Range(config.topics)}
      [] driver = "aws" ->
            UNION {{<<<<k, <<n>>>>, IF k \in {"secret", "parameter"}
                                      /\ ~config[k][n].force
                                    THEN NoName ELSE config[k][n].value>> :
                       n \in DOMAIN config[k]} : k \in DOMAIN config}
      [] OTHER -> {}

SuccessMeansDeclared ==
    outcome = "ok" /\ mode \notin {"none", "destroy"} =>
        \A d \in Declared :
            \/ d[1] \in DOMAIN objects /\ d[2] \in {NoName, objects[d[1]]}
            \/ /\ mode = "converge first"
               /\ removed # <<>> /\ d[1][1] = "extension"

\* The block gives a name no server takes.
BadNames ==
    \/ /\ driver \in {"postgres", "kafka", "aws"}
       /\ \E d \in Declared : NoName \in Range(d[1][2])
    \/ /\ driver = "mariadb"
       /\ \E u \in Range(config.users) \cup Range(config.grants) :
             "@" \in Range(u.host)
    \/ /\ driver = "ferret"
       /\ \E db \in Range(config.databases) : "." \in Range(db.name)

(* A pass that loses no connection fails for one of these reasons only.    *)
(* Every other body that is accepted can be applied, from whatever the     *)
(* bodies before it, and passes that broke off, have left on the server.   *)
DeclaredBefore(i) ==
    {Alias(config.extensions[j].name) : j \in 1 .. (i - 1)}

Dangling ==
    LET roles == {r.name : r \in Range(config.roles)} \cup {NoName}
        schemas == {s.name : s \in Range(config.schemas)} \cup {NoName}
    IN \/ config.owner \notin roles
       \/ \E s \in Range(config.schemas) : s.owner \notin roles
       \/ \E g \in Range(config.grants) :
             \/ g.role \notin roles \/ g.schema \notin schemas
             \/ g.database \notin {NoName, Inst}
       \/ \E i \in DOMAIN config.extensions :
             LET e == config.extensions[i]
             IN \/ e.schema \notin schemas
                \/ /\ ~e.cascade
                   /\ ~(Range(Requires(Alias(e.name)))
                            \subseteq DeclaredBefore(i))

DanglingGrant ==
    \E g \in Range(config.grants) :
        \A u \in Range(config.users) : <<g.user, g.host>> # <<u.name, u.host>>

OnlyTheseFail ==
    /\ outcome = "malformed" => BadNames
    /\ outcome = "missing" =>
           \/ driver = "postgres" /\ Dangling
           \/ driver = "mariadb" /\ DanglingGrant
           \/ driver = "temporal" /\ ~clean /\ removed # <<>>
    /\ outcome = "no database" =>
           driver = "postgres" /\ ~clean /\ removed # <<>>
    /\ outcome = "in use" =>
           /\ driver = "postgres"
           /\ \E o \in Range(removed) : o[1] = "role"
    /\ outcome = "misread" => driver = "temporal"
    /\ outcome = "unreachable" => driver = "temporal" /\ mode # "boot"
    /\ outcome = "will not start" =>
           \/ /\ driver = "postgres"
              /\ \E s \in DOMAIN config.settings : s[2] # "plain"
           \/ driver = "temporal" /\ config.port = config.ui_port

(* Grants need not be tracked, says inventory.go, since dropping their     *)
(* role removes them: only what a role owns is in the way of dropping it.  *)
GrantsGoWithTheirRole ==
    outcome = "in use" =>
        \E t \in ties :
            t.as = "owner" /\ <<"role", t.role[2][1]>> \in Range(removed)
=============================================================================
