------------------------------- MODULE Config -------------------------------
(***************************************************************************)
(* DecodeConfig of the drivers (modules/<driver>/config.go): which bodies  *)
(* are accepted, and what they are decoded to.  A body is a record of the  *)
(* blocks and attributes the code looks at; the others it copies.  A name  *)
(* is a sequence of words, and NoName is what Go reads where a label or a  *)
(* string attribute was left out.  A maybe-given number is a sequence of   *)
(* at most one.  `settings` maps spellings of parameters to values: a      *)
(* spelling is <<parameter, form>>, "plain" being the form the drivers'    *)
(* own tables use.  Texts that do not parse (HCL, durations) are refused   *)
(* everywhere and not modelled.                                            *)
(***************************************************************************)
EXTENDS Integers, Sequences, Functions, SequencesExt

NoName == <<>>
Given(x, default) == IF x = NoName THEN default ELSE x

\* options given, over the defaults of those that are not
OrDefault(given, defaults) ==
    [k \in DOMAIN defaults |->
        IF k \in DOMAIN given THEN given[k] ELSE defaults[k]]

Labels(blocks) == [i \in DOMAIN blocks |-> blocks[i].name]
Labelled(blocks) == NoName \notin Range(Labels(blocks))
Distinct(names) == \A i, j \in DOMAIN names : names[i] = names[j] => i = j

\* A name that consists of two parts, and how it is taken apart again.
Join(a, separator, b) == a \o <<separator>> \o b

CutAt(name, i) == <<SubSeq(name, 1, i - 1), SubSeq(name, i + 1, Len(name))>>

CutFirst(name, separator) ==
    CutAt(name, SelectInSeq(name, LAMBDA w : w = separator))

CutLast(name, separator) ==
    CutAt(name, SelectLastInSeq(name, LAMBDA w : w = separator))

-----------------------------------------------------------------------------
(* Postgres.                                                               *)

Since == [io_method |-> 18, summarize_wal |-> 17]

GrantObjects == {"", "tables", "sequences", "functions"}

Privileges == {"ALL", "ALL PRIVILEGES", "SELECT", "INSERT", "UPDATE",
    "DELETE", "TRUNCATE", "REFERENCES", "TRIGGER", "CREATE", "CONNECT",
    "TEMPORARY", "TEMP", "EXECUTE", "USAGE", "SET", "ALTER SYSTEM", "MAINTAIN"}

ValidGrantAnywhere(g) ==
    g.role # NoName /\ g.privileges # {} /\ g.privileges \subseteq Privileges
ValidGrant(g) ==
    /\ g.role # NoName
    /\ g.privileges # {} /\ g.privileges \subseteq Privileges
    /\ (g.database = NoName) # (g.schema = NoName)
    /\ g.objects \in GrantObjects
    /\ g.objects # "" => g.schema # NoName

\* The gate compares keys as they are written, so other forms pass it.
OldEnough(settings, version) ==
    \A p \in DOMAIN Since :
        <<p, "plain">> \in DOMAIN settings => version >= Since[p]

PostgresAccepts(raw) ==
    /\ OldEnough(raw.settings, raw.version)
    /\ Labelled(raw.roles) /\ Distinct(Labels(raw.roles))
    /\ Labelled(raw.schemas)
    /\ Labelled(raw.blocks)
    /\ Distinct(Labels(raw.blocks))
    /\ Range(Labels(raw.blocks)) \cap Range(raw.extensions) = {}
    /\ \A i \in DOMAIN raw.grants : ValidGrant(raw.grants[i])

PostgresDefaults ==
    [shared_buffers |-> "16MB", max_connections |-> "50",
     fsync |-> "off", autovacuum |-> "off"]

RoleDefaults == [login |-> TRUE, inherit |-> TRUE, connection_limit |-> -1]

NormalRole(r) ==
    [name |-> r.name, password |-> r.password,
     options |-> OrDefault(r.options, RoleDefaults)]

WithoutRepeats(names) ==
    LET seen[i \in 0 .. Len(names)] ==
            IF i = 0 THEN <<>>
            ELSE IF Contains(seen[i - 1], names[i]) THEN seen[i - 1]
            ELSE Append(seen[i - 1], names[i])
    IN seen[Len(names)]

BareExtension(n) == [name |-> n, schema |-> NoName, cascade |-> FALSE]

PostgresConfig(raw) ==
    LET bare == WithoutRepeats(raw.extensions)
    IN [version |-> raw.version,
        tuning |-> OrDefault(raw.tuning, PostgresDefaults),
        settings |-> raw.settings,
        owner |-> raw.owner,
        roles |-> [i \in DOMAIN raw.roles |-> NormalRole(raw.roles[i])],
        schemas |-> raw.schemas,
        extensions |-> [i \in DOMAIN bare |-> BareExtension(bare[i])]
                           \o raw.blocks,
        grants |-> raw.grants]

-----------------------------------------------------------------------------
(* MariaDB.                                                                *)

AnyHost == <<"%">>

NormalUser(u) == [u EXCEPT !.host = Given(u.host, AnyHost)]

NormalPrivilege(g) ==
    [g EXCEPT !.host = Given(g.host, AnyHost),
              !.database = Given(g.database, <<"*">>),
              !.table = Given(g.table, <<"*">>)]

Account(u) == Join(u.name, "@", u.host)

MariaConfig(raw) ==
    [users |-> [i \in DOMAIN raw.users |-> NormalUser(raw.users[i])],
     grants |-> [i \in DOMAIN raw.grants |-> NormalPrivilege(raw.grants[i])],
     tuning |-> raw.tuning,
     settings |-> raw.settings]

MariaAccepts(raw) ==
    LET users == MariaConfig(raw).users
    IN /\ Labelled(users)
       /\ Distinct([i \in DOMAIN users |-> Account(users[i])])
       /\ \A i \in DOMAIN raw.grants :
              raw.grants[i].user # NoName /\ raw.grants[i].privileges # {}

-----------------------------------------------------------------------------
(* FerretDB.  Seeds, which only get their path made absolute, are left out.*)

Indexable(c) ==
    \A i \in DOMAIN c.indexes :
        c.indexes[i] # NoName /\ Range(c.indexes[i]) \subseteq {1, -1}

FerretAccepts(raw) ==
    /\ Labelled(raw.users)
    /\ Labelled(raw.databases) /\ Distinct(Labels(raw.databases))
    /\ \A i \in DOMAIN raw.databases :
           LET colls == raw.databases[i].collections
           IN /\ Labelled(colls) /\ Distinct(Labels(colls))
              /\ \A j \in DOMAIN colls : Indexable(colls[j])

FerretConfig(raw) ==
    [users |-> [i \in DOMAIN raw.users |->
        [raw.users[i] EXCEPT !.database = Given(@, <<"admin">>)]],
     databases |-> raw.databases,
     auth |-> raw.auth,
     settings |-> raw.settings]

-----------------------------------------------------------------------------
(* Temporal.                                                               *)

DefaultPort == 7233
DefaultUIPort == 8233
LastPort == 65535

\* 0 is what Go reads where no port was given
Port(p, default) == IF p = 0 THEN default ELSE p

RestartPolicies == {"no", "on_failure", "always"}

RestartAccepts(r) == r.policy \in RestartPolicies \cup {""}

NormalRestart(r) ==
    [policy |-> IF r.policy = "" THEN "on_failure" ELSE r.policy,
     backoff |-> Given(r.backoff, <<1>>),
     retries |-> IF r.retries > 0 THEN r.retries ELSE 5]

TemporalConfig(raw) ==
    [port |-> Port(raw.port, DefaultPort),
     ui_port |-> Port(raw.ui_port, DefaultUIPort),
     headless |-> raw.headless,
     namespaces |-> raw.namespaces,
     restart |-> NormalRestart(raw.restart)]

PortsArePositive(c) == c.port >= 1 /\ c.ui_port >= 1
PortsInRange(c) == {c.port, c.ui_port} \subseteq 1 .. LastPort

TemporalAccepts(raw) ==
    /\ PortsInRange(TemporalConfig(raw))
    /\ Labelled(raw.namespaces) /\ Distinct(Labels(raw.namespaces))
    /\ \A i \in DOMAIN raw.namespaces :
           \A d \in Range(raw.namespaces[i].retention) : d > 0
    /\ RestartAccepts(raw.restart)

-----------------------------------------------------------------------------
(* Kafka checks nothing; Kvrocks and Valkey have no objects.  A namespace   *)
(* of Kvrocks has the name of its directive, "namespace." included.        *)

KafkaConfig(raw) ==
    [topics |-> [i \in DOMAIN raw.topics |->
        [raw.topics[i] EXCEPT !.partitions = IF @ = 0 THEN 1 ELSE @]]]

KvrocksAccepts(raw) ==
    /\ Labelled(raw.namespaces) /\ Distinct(Labels(raw.namespaces))
    /\ raw.namespaces # <<>> => "requirepass" \in DOMAIN raw.tuning

-----------------------------------------------------------------------------
(* AWS: maps by name, in which the last of two blocks of a name wins.      *)

LastBlock(blocks, n) ==
    blocks[SelectLastInSeq(blocks, LAMBDA b : b.name = n)]

Stack(blocks) == [n \in Range(Labels(blocks)) |-> LastBlock(blocks, n)]

TargetAccepts(t) ==
    /\ ":" \in Range(t)
    /\ CutFirst(t, ":")[1] \in {<<"queue">>, <<"topic">>, <<"lambda">>}

AwsAccepts(raw) ==
    \A i \in DOMAIN raw.rule : \A t \in raw.rule[i].targets : TargetAccepts(t)

NormalRule(r) == [r EXCEPT !.targets = {CutFirst(t, ":") : t \in @}]

AwsConfig(raw) ==
    [k \in DOMAIN raw |->
        Stack(IF k = "rule"
              THEN [i \in DOMAIN raw.rule |-> NormalRule(raw.rule[i])]
              ELSE raw[k])]

-----------------------------------------------------------------------------
(* What the parser can hand to DecodeConfig: the blocks of a kind in their *)
(* order, each with its attributes.                                        *)

IsSeq(s) == s \in Seq(Range(s))
HasFields(blocks, fields) ==
    IsSeq(blocks) /\ \A b \in Range(blocks) : fields \subseteq DOMAIN b

\* The spellings a server knows for a parameter.
Spelled(settings, forms) ==
    \A s \in DOMAIN settings : s = <<s[1], s[2]>> /\ s[2] \in forms

PostgresBody(raw) ==
    /\ IsSeq(raw.roles) /\ IsSeq(raw.schemas) /\ IsSeq(raw.grants)
    /\ IsSeq(raw.extensions) /\ IsSeq(raw.blocks)
    /\ raw.version \in Int
    /\ Spelled(raw.settings, {"plain", "upper"})

MariaAttributes == {"character-set-server", "collation-server"}

MariaBody(raw) ==
    /\ HasFields(raw.users, {"name", "host", "password"})
    /\ \A u \in Range(raw.users) : IsSeq(u.name) /\ IsSeq(u.host)
    /\ HasFields(raw.grants, {"user", "host", "database", "table"})
    /\ DOMAIN raw.tuning \subseteq MariaAttributes
    /\ Spelled(raw.settings, {"plain", "upper", "underscore"})

FerretBody(raw) ==
    /\ IsSeq(raw.databases)
    /\ \A db \in Range(raw.databases) :
           /\ IsSeq(db.collections) /\ IsSeq(db.name)
           /\ \A c \in Range(db.collections) : IsSeq(c.name)
    /\ Spelled(raw.settings, {"plain", "upper"})

TemporalBody(raw) == {raw.port, raw.ui_port} \subseteq Int /\ IsSeq(raw.namespaces)

KafkaBody(raw) == HasFields(raw.topics, {"name", "partitions"})

AwsBody(raw) ==
    /\ IsFiniteSet(DOMAIN raw) /\ \A k \in DOMAIN raw : IsSeq(raw[k])
    /\ HasFields(raw.rule, {"name", "value", "force", "targets"})

KvrocksAttributes == {"requirepass", "workers"}

KvrocksBody(raw) ==
    /\ IsSeq(raw.namespaces)
    /\ \A n \in Range(raw.namespaces) :
           n.name = NoName \/ n.name[1] \notin KvrocksAttributes
    /\ DOMAIN raw.tuning \subseteq KvrocksAttributes
    /\ Spelled(raw.settings, {"plain", "upper", "underscore"})

ValkeyBody(raw) == Spelled(raw.settings, {"plain", "upper", "underscore"})

IsBody(driver, raw) ==
    CASE driver = "postgres" -> PostgresBody(raw)
      [] driver = "mariadb" -> MariaBody(raw)
      [] driver = "ferret" -> FerretBody(raw)
      [] driver = "temporal" -> TemporalBody(raw)
      [] driver = "kafka" -> KafkaBody(raw)
      [] driver = "aws" -> AwsBody(raw)
      [] driver = "kvrocks" -> KvrocksBody(raw)
      [] driver = "valkey" -> ValkeyBody(raw)

-----------------------------------------------------------------------------

Accepts(driver, raw) ==
    CASE driver = "postgres" -> PostgresAccepts(raw)
      [] driver = "mariadb" -> MariaAccepts(raw)
      [] driver = "ferret" -> FerretAccepts(raw)
      [] driver = "temporal" -> TemporalAccepts(raw)
      [] driver = "kvrocks" -> KvrocksAccepts(raw)
      [] driver = "aws" -> AwsAccepts(raw)
      [] driver \in {"kafka", "valkey"} -> TRUE

Decoded(driver, raw) ==
    CASE driver = "postgres" -> PostgresConfig(raw)
      [] driver = "mariadb" -> MariaConfig(raw)
      [] driver = "ferret" -> FerretConfig(raw)
      [] driver = "temporal" -> TemporalConfig(raw)
      [] driver = "kafka" -> KafkaConfig(raw)
      [] driver = "aws" -> AwsConfig(raw)
      [] driver \in {"kvrocks", "valkey"} -> raw
=============================================================================
