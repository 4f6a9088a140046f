------------------------------ MODULE MCPgProxy ------------------------------
(* PgProxy on a handful of connections.                                    *)
EXTENDS PgProxy

\* Every combination of a TLS configuration and RequireTLS.
AnyEndpoint == [tls : BOOLEAN, require : BOOLEAN]

\* The default endpoint of a local Postgres.
PlainEndpoint == {[tls |-> FALSE, require |-> FALSE]}
=============================================================================
