---------------------------- MODULE MCPgConverge ----------------------------
(* PgConverge on one small declaration: a role that is a member of a group, *)
(* owns the database and a schema, and holds grants on both; an extension   *)
(* with a bundle, and an optional one without.                             *)
EXTENDS PgConverge

CONSTANTS app, group, schema, ext, contrib, db

OneMembership == {<<app, group>>}
OwnedByApp == [s \in Schema |-> {app}]
TwoGrants == {<<app, schema>>, <<group, db>>}
=============================================================================
