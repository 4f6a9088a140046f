------------------------------- MODULE MCApply -------------------------------
(* Bodies for each driver: some accepted, some refused, some that refer to *)
(* what they do not declare.                                               *)
EXTENDS Apply

App == <<"app">>
Plain(p) == <<p, "plain">>
Setting(s, v) == [k \in {s} |-> v]
Nothing == [k \in {} |-> ""]

RoleBlock(n, pw) == [name |-> n, password |-> pw, options |-> Nothing]
GrantBlock(r, d, s, o) ==
    [role |-> r, privileges |-> {"USAGE"}, database |-> d, schema |-> s, objects |-> o]
OnSchema == GrantBlock(App, NoName, <<"s">>, "")
Ext(n, s, c) == [name |-> n, schema |-> s, cascade |-> c]

Pg == [version |-> 17, tuning |-> Nothing, settings |-> Nothing,
       owner |-> NoName, roles |-> <<>>, schemas |-> <<>>,
       extensions |-> <<>>, blocks |-> <<>>, grants |-> <<>>]

PostgresBodies ==
    {Pg,
     [Pg EXCEPT !.roles = <<RoleBlock(App, <<"p1">>), RoleBlock(<<"ro">>, NoName)>>,
                !.owner = App, !.schemas = <<[name |-> <<"s">>, owner |-> App]>>,
                !.grants = <<[OnSchema EXCEPT !.role = <<"ro">>]>>,
                !.tuning = [k \in {"fsync"} |-> "on"],
                !.settings = Setting(<<"hba_file", "upper">>, "user")],
     [Pg EXCEPT !.roles = <<RoleBlock(App, <<"p2">>)>>, !.owner = App,
                !.schemas = <<[name |-> <<"s">>, owner |-> NoName]>>,
                !.extensions = <<<<"cube">>, <<"cube">>>>,
                !.blocks = <<Ext(<<"earth">>, <<"s">>, FALSE)>>,
                !.grants = <<GrantBlock(App, Inst, NoName, "")>>,
                !.settings = [k \in {"fsync"} \X {"plain", "upper"} |-> k[2]]],
     [Pg EXCEPT !.blocks = <<Ext(<<"earth">>, NoName, TRUE)>>,
                !.extensions = <<<<"pgvector">>>>],
     [Pg EXCEPT !.extensions = <<<<"earth">>, <<"vector">>, <<"cube">>>>,
                !.settings = Setting(<<"io_method", "upper">>, "user")],
     [Pg EXCEPT !.grants = <<GrantBlock(App, NoName, <<"s">>, "tables")>>],
     [Pg EXCEPT !.extensions = <<<<"cube">>, NoName>>],
     [Pg EXCEPT !.settings = Setting(Plain("io_method"), "user")],
     [Pg EXCEPT !.grants = <<GrantBlock(App, NoName, NoName, "")>>],
     [Pg EXCEPT !.grants = <<GrantBlock(App, Inst, NoName, "tables")>>],
     [Pg EXCEPT !.roles = <<RoleBlock(NoName, NoName)>>],
     [Pg EXCEPT !.schemas = <<[name |-> NoName, owner |-> NoName]>>],
     [Pg EXCEPT !.extensions = <<<<"cube">>>>, !.blocks = <<Ext(<<"cube">>, NoName, TRUE)>>]}

UserBlock(n, h, pw) == [name |-> n, host |-> h, password |-> pw]
Odd == <<"a", "@", "b">>
MariaGrant(n, h) ==
    [user |-> n, host |-> h, privileges |-> {"ALL"}, database |-> NoName, table |-> NoName]
My == [users |-> <<>>, grants |-> <<>>, tuning |-> Nothing, settings |-> Nothing]

MariaBodies ==
    {My,
     [My EXCEPT !.users = <<UserBlock(App, NoName, <<"p1">>), UserBlock(Odd, <<"h">>, NoName)>>,
                !.grants = <<MariaGrant(App, NoName)>>,
                !.settings = Setting(<<"pid-file", "underscore">>, "user")],
     [My EXCEPT !.users = <<UserBlock(App, <<"%">>, <<"p2">>)>>,
                !.grants = <<MariaGrant(App, <<"h">>)>>,
                !.tuning = [k \in {"character-set-server"} |-> "utf8mb4"],
                !.settings = Setting(Plain("sync_binlog"), "user")],
     [My EXCEPT !.users = <<UserBlock(App, <<"h">>, NoName)>>,
                !.settings = Setting(Plain("socket"), "user")],
     [My EXCEPT !.users = <<UserBlock(App, Odd, NoName)>>],
     [My EXCEPT !.users = <<UserBlock(App, NoName, NoName), UserBlock(App, <<"%">>, NoName)>>],
     [My EXCEPT !.grants = <<MariaGrant(NoName, NoName)>>]}

Coll(n, ix) == [name |-> n, indexes |-> ix]
Index(dir) == [k \in {"email"} |-> dir]
Mongo == [users |-> <<>>, databases |-> <<>>, auth |-> FALSE, settings |-> Nothing]
Db(n, colls) == [name |-> n, collections |-> colls]
Dotted == <<"a", ".", "b">>

FerretBodies ==
    {Mongo,
     [Mongo EXCEPT !.databases = <<Db(<<"x">>, <<Coll(Dotted, <<>>), Coll(<<"a">>, <<Index(1)>>)>>), Db(<<"y">>, <<>>)>>,
                   !.settings = Setting(<<"LISTEN_ADDR", "upper">>, "user")],
     [Mongo EXCEPT !.databases = <<Db(<<"x">>, <<Coll(<<"a">>, <<Index(1)>>)>>), Db(<<"y">>, <<Coll(<<"b">>, <<>>)>>)>>,
                   !.users = <<[name |-> App, database |-> NoName]>>,
                   !.settings = Setting(Plain("TELEMETRY"), "user")],
     [Mongo EXCEPT !.databases = <<Db(<<"y">>, <<Coll(Dotted, <<>>)>>), Db(Dotted, <<>>)>>],
     [Mongo EXCEPT !.databases = <<Db(<<"x">>, <<>>), Db(Dotted, <<Coll(<<"a">>, <<>>)>>)>>],
     [Mongo EXCEPT !.databases = <<Db(<<"x">>, <<Coll(<<"a">>, <<>>), Coll(<<"a">>, <<>>)>>)>>],
     [Mongo EXCEPT !.databases = <<Db(<<"x">>, <<Coll(<<"a">>, <<Index(0)>>)>>)>>],
     [Mongo EXCEPT !.databases = <<Db(<<"x">>, <<Coll(NoName, <<>>)>>)>>]}

Ns(n, r) == [name |-> n, retention |-> r]
Restart(p) == [policy |-> p, backoff |-> NoName, retries |-> 0]
Tl == [port |-> 0, ui_port |-> 0, headless |-> FALSE, namespaces |-> <<>>, restart |-> Restart("")]

TemporalBodies ==
    {[Tl EXCEPT !.namespaces = <<Ns(<<"a">>, <<1>>), Ns(<<"b">>, NoName)>>],
     [Tl EXCEPT !.namespaces = <<Ns(<<"a">>, <<2>>)>>, !.restart = Restart("always")],
     [Tl EXCEPT !.namespaces = <<Ns(<<"b">>, NoName)>>, !.port = 8233],
     [Tl EXCEPT !.namespaces = <<Ns(<<"b">>, <<1>>)>>, !.port = 65535],
     [Tl EXCEPT !.port = 65536],
     [Tl EXCEPT !.restart = Restart("never")],
     [Tl EXCEPT !.namespaces = <<Ns(<<"a">>, <<0>>)>>],
     [Tl EXCEPT !.namespaces = <<Ns(NoName, NoName)>>]}

Topic(n) == [name |-> n, partitions |-> 0]
KafkaBodies ==
    {[topics |-> <<Topic(<<"t">>), Topic(<<"t">>)>>],
     [topics |-> <<Topic(<<"t">>), Topic(NoName), Topic(<<"u">>)>>],
     [topics |-> <<>>]}

Valued(n, v, f) == [name |-> n, value |-> v, force |-> f]
Rule(t) == [name |-> <<"r">>, value |-> NoName, force |-> FALSE, targets |-> {t}]
Aws == [bucket |-> <<>>, secret |-> <<>>, parameter |-> <<>>, rule |-> <<>>]
AwsBodies ==
    {[Aws EXCEPT !.bucket = <<Valued(<<"b">>, <<"1">>, FALSE), Valued(<<"b">>, <<"2">>, FALSE)>>,
                 !.rule = <<Rule(<<"queue", ":", "q", ":", "z">>)>>],
     [Aws EXCEPT !.secret = <<Valued(<<"k">>, <<"1">>, FALSE)>>,
                 !.bucket = <<Valued(<<"b">>, <<"3">>, FALSE)>>],
     [Aws EXCEPT !.secret = <<Valued(<<"k">>, <<"2">>, TRUE)>>,
                 !.parameter = <<Valued(<<"p">>, <<"1">>, FALSE)>>],
     [Aws EXCEPT !.parameter = <<Valued(<<"p">>, <<"2">>, FALSE)>>],
     [Aws EXCEPT !.bucket = <<Valued(NoName, <<"1">>, FALSE)>>],
     [Aws EXCEPT !.rule = <<Rule(<<"table", ":", "q">>)>>],
     [Aws EXCEPT !.rule = <<Rule(<<"q">>)>>]}

Kv == [tuning |-> Nothing, settings |-> Nothing, namespaces |-> <<>>]
KvNamespace == [name |-> <<"namespace.a">>]
Password == [k \in {"requirepass"} |-> "secret"]
KvrocksBodies ==
    {Kv,
     [Kv EXCEPT !.namespaces = <<KvNamespace>>],
     [Kv EXCEPT !.namespaces = <<KvNamespace>>, !.tuning = Password,
                !.settings = Setting(Plain("namespace.a"), "user")],
     [Kv EXCEPT !.tuning = Password, !.settings = Setting(Plain("requirepass"), "user")],
     [Kv EXCEPT !.namespaces = <<KvNamespace, KvNamespace>>, !.tuning = Password]}

ValkeyBodies ==
    {[tuning |-> Nothing, settings |-> Setting(Plain("appendonly"), "user")],
     [tuning |-> [k \in {"save", "appendonly"} |-> "given"], settings |-> Nothing],
     [tuning |-> [k \in {"save"} |-> "given"], settings |-> Setting(Plain("save"), "user")]}

AllDrivers == {"postgres", "mariadb", "ferret", "temporal", "kafka", "aws",
               "kvrocks", "valkey"}
MCBodies(d) ==
    CASE d = "postgres" -> PostgresBodies
      [] d = "mariadb" -> MariaBodies
      [] d = "ferret" -> FerretBodies
      [] d = "temporal" -> TemporalBodies
      [] d = "kafka" -> KafkaBodies
      [] d = "aws" -> AwsBodies
      [] d = "kvrocks" -> KvrocksBodies
      [] d = "valkey" -> ValkeyBodies
MCRequires(e) == IF e = <<"earth">> THEN <<<<"cube">>>> ELSE <<>>
OnlyPostgres == {"postgres"}
=============================================================================
