------------------------------ MODULE Settings ------------------------------
(***************************************************************************)
(* The settings a server ends up with: writeConf, settings and Plan of the *)
(* drivers put layers on top of each other - inherited environment, tuning *)
(* of doze, typed attributes, the free `settings`, the command line - and  *)
(* the server lets a later one win.  "doze" is the value doze must have    *)
(* for the instance to stay private: its own socket, directory, no TCP.    *)
(* Of a parameter given in two spellings, one wins.                        *)
(***************************************************************************)
EXTENDS Config

Over(strong, weak) ==
    [p \in DOMAIN strong \cup DOMAIN weak |->
        IF p \in DOMAIN strong THEN strong[p] ELSE weak[p]]

Doze(params) == [p \in params |-> "doze"]

\* strings.ToLower or ToUpper; it does not map "_" to "-", MariaDB does.
FoldCase(s) == IF s[2] = "upper" THEN <<s[1], "plain">> ELSE s

IsLockedAsWritten(s, locked) == s \in locked \X {"plain"}
IsLocked(s, locked) == FoldCase(s) \in locked \X {"plain"}

\* The entries that get through, by the parameter the server takes them for.
Free(settings, locked) ==
    LET spelled == {s \in DOMAIN settings : ~IsLocked(s, locked)}
    IN [p \in {s[1] : s \in spelled} |->
           settings[CHOOSE s \in spelled : s[1] = p]]

-----------------------------------------------------------------------------

PostgresLocked == {"listen_addresses", "port", "unix_socket_directories",
                   "hba_file", "data_directory"}

Tuning(t) ==
    Over(t, [p \in {"synchronous_commit", "full_page_writes"} |-> t["fsync"]])

\* doze.conf, which ends with listen_addresses
PostgresFile(c) ==
    Over(Doze({"listen_addresses"}),
         Over(Free(c.settings, PostgresLocked), Tuning(c.tuning)))

\* -k, -p and -c win over the file; -D, and the hba file in it, do not.
PostgresServer(c) ==
    Over(Doze({"listen_addresses", "port", "unix_socket_directories"}),
         Over(PostgresFile(c), Doze({"data_directory", "hba_file"})))

MariaLocked == {"datadir", "socket", "pid-file", "skip-networking",
                "port", "bind-address"}

MariaFile(c) ==
    Over(Free(c.settings, MariaLocked),
         Over(c.tuning, [sync_binlog |-> "0",
                         innodb_flush_log_at_trx_commit |-> "0"]))

MariaArgs == {"datadir", "socket", "pid-file", "skip-networking"}

MariaServer(c) == Over(Doze(MariaArgs), MariaFile(c))

FerretLocked == {"POSTGRESQL_URL", "LISTEN_UNIX", "LISTEN_ADDR",
                 "DEBUG_ADDR", "STATE_DIR", "AUTH"}

\* what the user's shell may have set
Inherited == [p \in {"AUTH", "LISTEN_ADDR", "LOG_LEVEL"} |-> "inherited"]

FerretServer(c) ==
    Over(Free(c.settings, FerretLocked),
         Over(Over(Doze(FerretLocked), [TELEMETRY |-> "disable"]), Inherited))

ValkeyServer(c) ==
    Over(Free(c.settings, {}),
         Over(Over(c.tuning, [save |-> "", appendonly |-> "no"]),
              Doze({"port", "unixsocket", "dir"})))

KvrocksServer(c) ==
    Over([p \in {c.namespaces[i].name[1] : i \in DOMAIN c.namespaces}
              |-> "doze"],
         Over(Free(c.settings, {}),
              Over(c.tuning, Doze({"dir", "bind", "port", "unixsocket"}))))

-----------------------------------------------------------------------------
(* Which settings a server has; which of them no configuration may change. *)

Server(driver, c) ==
    CASE driver = "postgres" -> PostgresServer(c)
      [] driver = "mariadb" -> MariaServer(c)
      [] driver = "ferret" -> FerretServer(c)
      [] driver = "valkey" -> ValkeyServer(c)
      [] driver = "kvrocks" -> KvrocksServer(c)

\* The server has a value the user gave for the parameter that `s` spells.
Arrives(has, settings, s) ==
    \E t \in DOMAIN settings : t[1] = s[1] /\ has[s[1]] = settings[t]

Configurable == {"postgres", "mariadb", "ferret", "valkey", "kvrocks"}
=============================================================================
