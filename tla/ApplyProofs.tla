----------------------------- MODULE ApplyProofs -----------------------------
(***************************************************************************)
(* The properties of Apply for every set of bodies and every number of     *)
(* objects: what a pass sends first, then the theorems.                    *)
(***************************************************************************)
EXTENDS Apply, ConfigProofs

Configs(d) == {Decoded(d, raw) : raw \in AcceptedBodies(d)}

Prunes(st) == st.do \in {"drop", "delete"}
Creates(st) ==
    st.do \in {"ensure", "put", "upsert", "install", "install cascade"}
Sets(st) == st.do \in {"put", "upsert", "alter"}

Bases(ext) == {Extension(b) : b \in Range(Requires(ext[2][1]))}

Gains(st) ==
    (IF Creates(st) THEN {st.obj} ELSE {})
      \cup (IF st.do = "install cascade" THEN Bases(st.obj) ELSE {})

Malformed(st) == \E o \in {st.obj} \cup st.needs : Misnamed(o)

\* Names that the servers take; DecodeConfig lets others through.
Apart(d, p) ==
    /\ d = "mariadb" /\ p[1] = "user" => "@" \notin Range(p[2][2])
    /\ d = "ferret" /\ p[1] = "collection" => "." \notin Range(p[2][1])

WellNamed(d, c) ==
    /\ d = "postgres" => \A e \in Range(c.extensions) : e.name # NoName
    /\ d = "mariadb" => \A u \in Range(c.users) : "@" \notin Range(u.host)
    /\ d = "ferret" =>
           \A db \in Range(c.databases) : \A coll \in Range(db.collections) :
               "." \notin Range(db.name)

-----------------------------------------------------------------------------
(* What a statement does.                                                  *)

LEMMA DoesPrune ==
  ASSUME NEW st, Does(st), Prunes(st)
  PROVE  Drop(st.obj)
BY DEF Does, Prunes

LEMMA DoesGrow ==
  ASSUME NEW st, Does(st), ~Prunes(st)
  PROVE  /\ DOMAIN objects \subseteq DOMAIN objects'
         /\ DOMAIN objects' \subseteq DOMAIN objects \cup Gains(st)
         /\ Creates(st) => st.obj \in DOMAIN objects'
         /\ \A p \in DOMAIN objects :
               \/ objects'[p] = objects[p]
               \/ Sets(st) /\ p = st.obj /\ objects'[p] = Given(st.val, objects[p])
         /\ Sets(st) => /\ st.obj \in DOMAIN objects'
                        /\ st.val # NoName => objects'[st.obj] = st.val
<1>1. CASE st.do = "grant" /\ AddGrants(st)
  BY <1>1 DEF AddGrants, Creates, Sets
<1>2. CASE /\ st.do \in {"ensure", "put", "upsert", "install"}
           /\ ~Exists(st.obj) /\ Create(st)
  <2>1. objects' = Over(objects, [p \in {st.obj} |-> st.val])
    BY <1>2 DEF Create
  <2>2. /\ DOMAIN objects' = DOMAIN objects \cup {st.obj}
        /\ \A p \in DOMAIN objects : objects'[p] = objects[p]
        /\ objects'[st.obj] = st.val
    BY <1>2, <2>1 DEF Over, Exists
  <2>. QED  BY <1>2, <2>2 DEF Creates, Sets, Gains
<1>3. CASE st.do \in {"put", "upsert", "alter"} /\ Exists(st.obj) /\ Change(st)
  BY <1>3 DEF Change, Creates, Sets, Gains, Exists, Given
<1>5. CASE st.do = "install cascade" /\ ~Exists(st.obj) /\ Install(st)
  <2> DEFINE new == {st.obj} \cup Bases(st.obj)
  <2>1. objects' = Over(objects, [p \in new |-> st.val])
    BY <1>5 DEF Install, Bases
  <2> HIDE DEF new
  <2>2. /\ DOMAIN objects' = DOMAIN objects \cup new
        /\ \A p \in DOMAIN objects : objects'[p] = objects[p]
    BY <2>1 DEF Over
  <2>. QED  BY <1>5, <2>2 DEF Creates, Sets, Gains, new
<1>6. CASE st.do \in {"ensure", "install", "install cascade"} /\ Exists(st.obj)
           /\ UNCHANGED server
  BY <1>6 DEF server, Creates, Sets, Gains, Exists
<1>7. CASE st.do = "flush" /\ UNCHANGED server
  BY <1>7 DEF server, Creates, Sets, Gains
<1>. QED  BY <1>1, <1>2, <1>3, <1>5, <1>6, <1>7 DEF Does, Prunes

LEMMA DropShrinks ==
  ASSUME NEW o, Drop(o)
  PROVE  /\ DOMAIN objects' = DOMAIN objects \ Taken(o)
         /\ \A p \in DOMAIN objects' : objects'[p] = objects[p]
BY DEF Drop

-----------------------------------------------------------------------------
(* Ties are between objects that exist.                                    *)

Tied(T, D) == \A t \in T : /\ {t.role, t.on} \subseteq D
                           /\ t.as \in {"owner", "grantee"}

LEMMA DoesTied ==
  ASSUME NEW st, Does(st), \A why \in Reasons : ~Refused(st, why),
         Tied(ties, DOMAIN objects)
  PROVE  Tied(ties', DOMAIN objects')
<1>1. /\ st.db \subseteq DOMAIN objects
      /\ \/ Named(st) \subseteq DOMAIN objects
         \/ st.do \in {"install", "install cascade"} /\ Exists(st.obj)
  BY DEF Reasons, Refused
<1>2. st.needs \subseteq Named(st) /\ (st.do = "grant" => st.obj \in Named(st))
  BY DEF Named
<1>3. \A t \in Owned(st) : t.role \in st.needs /\ t.on = st.obj /\ t.as = "owner"
  BY DEF Owned
<1>4. CASE Prunes(st)
  <2>1. Drop(st.obj)
    BY <1>4, DoesPrune
  <2>. QED  BY <2>1, DropShrinks DEF Drop, Tied
<1>5. CASE ~Prunes(st)
  <2>1. DOMAIN objects \subseteq DOMAIN objects'
    BY <1>5, DoesGrow
  <2>2. CASE ties' = ties
    BY <2>1, <2>2 DEF Tied
  <2>3. CASE st.do = "grant" /\ AddGrants(st)
    BY <1>1, <1>2, <2>1, <2>3 DEF Tied, AddGrants
  <2>4. CASE /\ ~(st.do \in {"install", "install cascade"} /\ Exists(st.obj))
             /\ st.obj \in DOMAIN objects' /\ ties' \subseteq ties \cup Owned(st)
    BY <1>1, <1>2, <1>3, <2>1, <2>4 DEF Tied
  <2>5. CASE Create(st) /\ ~Exists(st.obj)
    <3>1. /\ objects' = Over(objects, [p \in {st.obj} |-> st.val])
          /\ ties' = ties \cup Owned(st)
      BY <2>5 DEF Create
    <3>2. st.obj \in DOMAIN objects'
      BY <3>1 DEF Over
    <3>. QED  BY <2>5, <2>4, <3>1, <3>2
  <2>6. CASE Change(st) /\ Exists(st.obj) /\ st.do \in {"put", "upsert", "alter"}
    BY <2>6, <2>4, <2>1 DEF Change, Exists
  <2>7. CASE Install(st)
    BY <2>7, <2>2 DEF Install
  <2>. QED  BY <1>5, <2>2, <2>3, <2>5, <2>6, <2>7 DEF Does, Prunes, server
<1>. QED  BY <1>4, <1>5

LEMMA Ports ==
  ASSUME NEW d \in Drivers, NEW c \in Configs(d)
  PROVE  PortOf(d, c) \in 0 .. LastPort /\ (d # "temporal" => PortOf(d, c) = 0)
<1>0. LastPort \in Nat
  BY DEF LastPort
<1>1. CASE d = "temporal"
  <2>1. PICK raw \in Bodies(d) : TemporalAccepts(raw) /\ c = TemporalConfig(raw)
    BY <1>1 DEF Configs, AcceptedBodies, Accepts, Decoded
  <2>2. c.port \in 1 .. LastPort
    BY <2>1 DEF TemporalAccepts, PortsInRange
  <2>. QED  BY <1>1, <2>2, <1>0 DEF PortOf
<1>. QED  BY <1>0, <1>1 DEF PortOf

LEMMA TypeOKInit == Init => TypeOK
BY Ports DEF Init, TypeOK, Configs, Passes, Reasons

LEMMA TypeOKNext == TypeOK /\ [Next]_vars => TypeOK'
<1> SUFFICES ASSUME TypeOK, [Next]_vars
             PROVE  TypeOK'
  OBVIOUS
<1>1. CASE UNCHANGED vars
  BY <1>1 DEF TypeOK, vars, server
<1>2. CASE Edit
  BY <1>2 DEF Edit, TypeOK, StaysClean, server, AcceptedBodies
<1>3. CASE Boot
  BY <1>3, Ports DEF Boot, Begin, TypeOK, StaysClean, server, Configs
<1>4. CASE BootFails
  BY <1>4 DEF BootFails, TypeOK, StaysClean, server
<1>5. CASE ApplyPruneFirst \/ ApplyConvergeFirst \/ Destroy
  BY <1>5 DEF ApplyPruneFirst, ApplyConvergeFirst, Destroy, Begin, TypeOK,
              StaysClean, server, Passes
<1>6. CASE Execute
  <2>1. Tied(ties', DOMAIN objects')
    BY <1>6, DoesTied DEF Execute, TypeOK, Tied
  <2>. QED  BY <1>6, <2>1 DEF Execute, Sending, TypeOK, Tied
<1>7. CASE Refuse
  BY <1>7 DEF Refuse, Fails, TypeOK, server
<1>8. CASE Lose
  <2>1. Tied(ties', DOMAIN objects')
    BY <1>8, DoesTied DEF Lose, TypeOK, Tied, server
  <2>. QED  BY <1>8, <2>1 DEF Lose, Fails, TypeOK, Tied
<1>9. CASE Misread
  BY <1>9 DEF Misread, Fails, TypeOK, server
<1>10. CASE Finish
  BY <1>10 DEF Finish, TypeOK, server
<1>. QED  BY <1>1, <1>2, <1>3, <1>4, <1>5, <1>6, <1>7, <1>8, <1>9, <1>10
          DEF Next

(* Owners and grants are between objects that exist, in every state: no    *)
(* drop leaves one behind, and no statement makes one for what is not      *)
(* there (Drop, Create, Change and AddGrants).                             *)
THEOREM TypeCorrect == Spec => []TypeOK
BY TypeOKInit, TypeOKNext, PTL DEF Spec

-----------------------------------------------------------------------------
(* Settings.                                                               *)

LEMMA SettingsOfTheConfig == TypeOK => SettingsAsIntended
<1> SUFFICES ASSUME TypeOK, driver \in Configurable
             PROVE  SettingsAsIntended
  BY DEF SettingsAsIntended
<1>1. PICK raw \in Bodies(driver) :
          /\ IsBody(driver, raw) /\ Accepts(driver, raw)
          /\ config = Decoded(driver, raw)
  BY BodiesAssumption DEF TypeOK, AcceptedBodies
<1>2. CASE driver = "postgres"
  <2>1. PostgresBody(raw) /\ config = PostgresConfig(raw)
    BY <1>1, <1>2 DEF IsBody, Decoded
  <2>. QED  BY <1>2, <2>1, PostgresSettings DEF SettingsAsIntended, Kept, Server
<1>3. CASE driver = "mariadb"
  <2>1. MariaBody(raw) /\ config = MariaConfig(raw)
    BY <1>1, <1>3 DEF IsBody, Decoded
  <2>2. MariaLocked \ {"port", "bind-address"} = MariaArgs
    BY DEF MariaLocked, MariaArgs
  <2>3. Kept = MariaArgs
    BY <1>3, <2>2 DEF Kept
  <2>. QED  BY <1>3, <2>1, <2>3, MariaSettings DEF SettingsAsIntended, Server
<1>4. CASE driver = "ferret"
  <2>1. FerretBody(raw) /\ config = FerretConfig(raw)
    BY <1>1, <1>4 DEF IsBody, Decoded
  <2>. QED  BY <1>4, <2>1, FerretSettings DEF SettingsAsIntended, Kept, Server
<1>5. CASE driver = "valkey"
  <2>1. ValkeyBody(config)
    BY <1>1, <1>5 DEF IsBody, Decoded
  <2>. QED  BY <1>5, <2>1, ValkeySettings DEF SettingsAsIntended, Kept, Server
<1>6. CASE driver = "kvrocks"
  <2>1. KvrocksBody(config) /\ KvrocksAccepts(config)
    BY <1>1, <1>6 DEF IsBody, Decoded, Accepts
  <2>. QED  BY <1>6, <2>1, KvrocksSettings DEF SettingsAsIntended, Kept, Server
<1>. QED  BY <1>2, <1>3, <1>4, <1>5, <1>6 DEF Configurable

(* For every accepted configuration of every driver, no entry of           *)
(* `settings`, in no spelling, changes what keeps the instance private     *)
(* (writeConf, the locked parameters, the command line), and every other   *)
(* entry arrives.                                                          *)
THEOREM SettingsAreAsIntended == Spec => []SettingsAsIntended
BY TypeCorrect, SettingsOfTheConfig, PTL
-----------------------------------------------------------------------------
(* The configurations of each driver, and the lists made from them.        *)

LEMMA ShapeOf ==
  ASSUME NEW d \in Drivers, NEW c \in Configs(d)
  PROVE  /\ d = "postgres" =>
               /\ PostgresShape(c)
               /\ \A e \in Range(c.extensions) :
                     NoName \notin Range(Requires(Alias(e.name)))
         /\ d = "mariadb" => MariaShape(c)
         /\ d = "ferret" => FerretShape(c)
         /\ d = "temporal" => TemporalShape(c)
         /\ d = "kafka" => IsSeq(c.topics)
         /\ d = "aws" => AwsShape(c)
<1>1. PICK raw \in Bodies(d) : Accepts(d, raw) /\ c = Decoded(d, raw)
  BY DEF Configs, AcceptedBodies
<1>2. IsBody(d, raw)
  BY BodiesAssumption
<1>3. ASSUME d = "postgres"
      PROVE  /\ PostgresShape(c)
             /\ \A e \in Range(c.extensions) :
                   NoName \notin Range(Requires(Alias(e.name)))
  <2>1. PostgresBody(raw) /\ PostgresAccepts(raw) /\ c = PostgresConfig(raw)
    BY <1>1, <1>2, <1>3 DEF IsBody, Accepts, Decoded
  <2>. QED  BY <1>3, <2>1, PostgresDecoded, BodiesAssumption
<1>4. ASSUME d = "mariadb"
      PROVE  MariaShape(c)
  <2>1. MariaBody(raw) /\ MariaAccepts(raw) /\ c = MariaConfig(raw)
    BY <1>1, <1>2, <1>4 DEF IsBody, Accepts, Decoded
  <2>. QED  BY <2>1, MariaDecoded
<1>5. ASSUME d = "ferret"
      PROVE  FerretShape(c)
  <2>1. FerretBody(raw) /\ FerretAccepts(raw) /\ c = FerretConfig(raw)
    BY <1>1, <1>2, <1>5 DEF IsBody, Accepts, Decoded
  <2>. QED  BY <2>1, FerretDecoded
<1>6. ASSUME d = "temporal"
      PROVE  TemporalShape(c)
  <2>1. TemporalBody(raw) /\ TemporalAccepts(raw) /\ c = TemporalConfig(raw)
    BY <1>1, <1>2, <1>6 DEF IsBody, Accepts, Decoded
  <2>. QED  BY <2>1, TemporalDecoded
<1>7. ASSUME d = "kafka"
      PROVE  IsSeq(c.topics)
  <2>1. KafkaBody(raw) /\ c = KafkaConfig(raw)
    BY <1>1, <1>2, <1>7 DEF IsBody, Decoded
  <2>. QED  BY <2>1, KafkaDecoded
<1>8. ASSUME d = "aws"
      PROVE  AwsShape(c)
  <2>1. AwsBody(raw) /\ c = AwsConfig(raw)
    BY <1>1, <1>2, <1>8 DEF IsBody, Decoded
  <2>. QED  BY <2>1, AwsDecoded
<1>. QED  BY <1>3, <1>4, <1>5, <1>6, <1>7, <1>8

LEMMA SingleSeq ==
  ASSUME NEW x
  PROVE  IsSeq(<<x>>) /\ Range(<<x>>) = {x} /\ Len(<<x>>) = 1 /\ <<x>>[1] = x
BY DEF IsSeq, Range

LEMMA NoSeq == IsSeq(<<>>) /\ Range(<<>>) = {} /\ Len(<<>>) = 0
BY DEF IsSeq, Range

\* A list of the same length whose members are known one by one.
LEMMA MemberWise ==
  ASSUME NEW s, IsSeq(s), NEW t, t = [i \in DOMAIN s |-> t[i]]
  PROVE  /\ IsSeq(t) /\ Len(t) = Len(s)
         /\ \A x \in Range(t) : \E i \in 1 .. Len(s) : x = t[i]
         /\ \A i \in 1 .. Len(s) : t[i] \in Range(t)
<1>1. t \in [DOMAIN s -> Range(t)]
  BY DEF Range
<1>2. DOMAIN t = DOMAIN s
  BY <1>1
<1>. QED  BY <1>1, <1>2, SameShape, SeqFacts

LEMMA ListedSeq ==
  ASSUME NEW kind, NEW blocks, IsSeq(blocks)
  PROVE  LET t == Listed(kind, blocks)
         IN /\ IsSeq(t) /\ Len(t) = Len(blocks)
            /\ \A i \in 1 .. Len(blocks) : t[i] = <<kind, blocks[i].name>>
            /\ Range(t) = {<<kind, b.name>> : b \in Range(blocks)}
<1> DEFINE t == Listed(kind, blocks)
<1>1. t = [i \in DOMAIN blocks |-> <<kind, blocks[i].name>>]
  BY DEF Listed, Mapped
<1>2. Range(t) = {<<kind, b.name>> : b \in Range(blocks)}
  BY <1>1 DEF Range
<1>3. t = [i \in DOMAIN blocks |-> t[i]]
  BY <1>1
<1> HIDE DEF t
<1>. QED  BY <1>1, <1>2, <1>3, MemberWise, SeqFacts DEF t

LEMMA PostgresObjectsAre ==
  ASSUME NEW c, PostgresShape(c)
  PROVE  /\ IsSeq(PostgresObjects(c))
         /\ Range(PostgresObjects(c))
              = {<<"role", r.name>> : r \in Range(c.roles)}
                  \cup {<<"database", Inst>>}
                  \cup {<<"schema", s.name>> : s \in Range(c.schemas)}
                  \cup {<<"extension", e.name>> : e \in Range(c.extensions)}
<1> DEFINE R == Listed("role", c.roles)
           D == <<<<"database", Inst>>>>
           S == Listed("schema", c.schemas)
           E == Listed("extension", c.extensions)
<1>1. /\ IsSeq(R) /\ Range(R) = {<<"role", r.name>> : r \in Range(c.roles)}
      /\ IsSeq(S) /\ Range(S) = {<<"schema", s.name>> : s \in Range(c.schemas)}
      /\ IsSeq(E) /\ Range(E) = {<<"extension", e.name>> : e \in Range(c.extensions)}
  BY ListedSeq DEF PostgresShape
<1>2. IsSeq(D) /\ Range(D) = {<<"database", Inst>>}
  BY SingleSeq
<1>3. PostgresObjects(c) = ((R \o D) \o S) \o E
  BY DEF PostgresObjects
<1> HIDE DEF R, D, S, E
<1>4. IsSeq(R \o D) /\ Range(R \o D) = Range(R) \cup Range(D)
  BY <1>1, <1>2, Concat
<1>5. IsSeq((R \o D) \o S) /\ Range((R \o D) \o S) = Range(R \o D) \cup Range(S)
  BY <1>1, <1>4, Concat
<1>6. /\ IsSeq(((R \o D) \o S) \o E)
      /\ Range(((R \o D) \o S) \o E) = Range((R \o D) \o S) \cup Range(E)
  BY <1>1, <1>5, Concat
<1>. QED  BY <1>1, <1>2, <1>3, <1>4, <1>5, <1>6

LEMMA MariaObjectsAre ==
  ASSUME NEW c, MariaShape(c)
  PROVE  /\ IsSeq(MariaObjects(c))
         /\ Range(MariaObjects(c))
              = {<<"database", Inst>>}
                  \cup {<<"user", Account(u)>> : u \in Range(c.users)}
<1> DEFINE D == <<<<"database", Inst>>>>
           U == Mapped(c.users, LAMBDA u : <<"user", Account(u)>>)
<1>1. U = [i \in DOMAIN c.users |-> <<"user", Account(c.users[i])>>]
  BY DEF Mapped
<1>2. Range(U) = {<<"user", Account(u)>> : u \in Range(c.users)}
  BY <1>1 DEF Range
<1>3. U = [i \in DOMAIN c.users |-> U[i]]
  BY <1>1
<1>4. MariaObjects(c) = D \o U
  BY DEF MariaObjects
<1>5. IsSeq(D) /\ Range(D) = {<<"database", Inst>>}
  BY SingleSeq
<1> HIDE DEF U, D
<1>6. IsSeq(U)
  BY <1>3, MemberWise DEF MariaShape
<1>. QED  BY <1>2, <1>4, <1>5, <1>6, Concat

LEMMA FerretObjectsAre ==
  ASSUME NEW c, FerretShape(c)
  PROVE  /\ IsSeq(FerretObjects(c))
         /\ \A o : o \in Range(FerretObjects(c)) <=>
               \E db \in Range(c.databases) :
                  \/ o = <<"database", db.name>>
                  \/ \E coll \in Range(db.collections) :
                        o = <<"collection", Join(db.name, ".", coll.name)>>
<1> DEFINE Colls(db) == Mapped(db.collections, LAMBDA coll :
                            <<"collection", Join(db.name, ".", coll.name)>>)
           Of(db) == <<<<"database", db.name>>>> \o Colls(db)
           lists == [i \in DOMAIN c.databases |-> Of(c.databases[i])]
<1>1. FerretObjects(c) = FlattenSeq(lists)
  BY DEF FerretObjects, Mapped
<1>2. ASSUME NEW db \in Range(c.databases)
      PROVE  /\ IsSeq(Of(db))
             /\ \A o : o \in Range(Of(db)) <=>
                   \/ o = <<"database", db.name>>
                   \/ \E coll \in Range(db.collections) :
                        o = <<"collection", Join(db.name, ".", coll.name)>>
  <2> DEFINE Item(coll) == <<"collection", Join(db.name, ".", coll.name)>>
  <2>1. Colls(db) = [i \in DOMAIN db.collections |-> Item(db.collections[i])]
    BY DEF Mapped
  <2>2. Range(Colls(db)) = {Item(coll) : coll \in Range(db.collections)}
    <3> HIDE DEF Item, Colls
    <3>. QED  BY <2>1 DEF Range
  <2>3. Colls(db) = [i \in DOMAIN db.collections |-> Colls(db)[i]]
    BY <2>1
  <2>4. IsSeq(<<<<"database", db.name>>>>)
        /\ Range(<<<<"database", db.name>>>>) = {<<"database", db.name>>}
    BY SingleSeq
  <2> HIDE DEF Colls
  <2>5. IsSeq(Colls(db))
    BY <2>3, MemberWise DEF FerretShape
  <2>6. IsSeq(Of(db)) /\ Range(Of(db)) = {<<"database", db.name>>} \cup Range(Colls(db))
    BY <2>4, <2>5, Concat
  <2>. QED  BY <2>2, <2>6
<1> HIDE DEF Of
<1>3. IsSeq(lists) /\ DOMAIN lists = DOMAIN c.databases
  <2>1. lists = [i \in DOMAIN c.databases |-> lists[i]]
    OBVIOUS
  <2>2. DOMAIN lists = DOMAIN c.databases
    OBVIOUS
  <2> HIDE DEF lists
  <2>. QED  BY <2>1, <2>2, MemberWise DEF FerretShape
<1>4. \A i \in DOMAIN c.databases : lists[i] = Of(c.databases[i])
                                    /\ c.databases[i] \in Range(c.databases)
  BY DEF Range
<1> HIDE DEF lists
<1>5. \A k \in DOMAIN lists : IsSeq(lists[k])
  BY <1>2, <1>3, <1>4
<1>6. /\ IsSeq(FlattenSeq(lists))
      /\ \A o : o \in Range(FlattenSeq(lists))
                  <=> \E k \in DOMAIN lists : o \in Range(lists[k])
  BY <1>3, <1>5, FlattenRange
<1>7. \A db \in Range(c.databases) : \E i \in DOMAIN c.databases : db = c.databases[i]
  BY DEF Range
<1>. QED  BY <1>1, <1>2, <1>3, <1>4, <1>6, <1>7

LEMMA TemporalObjectsAre ==
  ASSUME NEW c, TemporalShape(c)
  PROVE  /\ IsSeq(Listed("namespace", c.namespaces))
         /\ Range(Listed("namespace", c.namespaces))
              = {<<"namespace", n.name>> : n \in Range(c.namespaces)}
BY ListedSeq DEF TemporalShape

-----------------------------------------------------------------------------
(* The items Objects lists, and the statement that prunes each.            *)

Rejoins(o, q, separator) ==
    /\ q = <<q[1], q[2]>> /\ NoName \notin {q[1], q[2]}
    /\ o[2] = Join(q[1], separator, q[2])

ItemShape(d, o) ==
    /\ o = <<o[1], o[2]>>
    /\ \/ /\ d = "postgres"
          /\ o[1] \in {"role", "database", "schema", "extension"}
          /\ o[1] = "database" => o[2] = Inst
          /\ o[2] # NoName
       \/ /\ d = "mariadb"
          /\ \/ o = <<"database", Inst>>
             \/ /\ o[1] = "user" /\ Rejoins(o, CutLast(o[2], "@"), "@")
                /\ "@" \notin Range(CutLast(o[2], "@")[2])
       \/ /\ d = "ferret"
          /\ \/ o[1] = "database" /\ o[2] # NoName
             \/ /\ o[1] = "collection" /\ Rejoins(o, CutFirst(o[2], "."), ".")
                /\ "." \notin Range(CutFirst(o[2], ".")[1])
       \/ d = "temporal" /\ o[1] = "namespace" /\ o[2] # NoName

LEMMA ItemsOf ==
  ASSUME NEW d \in Drivers, NEW c \in Configs(d), WellNamed(d, c)
  PROVE  /\ IsSeq(Objects(d, c))
         /\ \A o \in Range(Objects(d, c)) : ItemShape(d, o)
<1>1. CASE d = "postgres"
  <2>1. PostgresShape(c) /\ Objects(d, c) = PostgresObjects(c)
    BY <1>1, ShapeOf DEF Objects
  <2>2. ASSUME NEW o \in Range(PostgresObjects(c))
        PROVE  ItemShape(d, o)
    <3>1. CASE \E r \in Range(c.roles) : o = <<"role", r.name>>
      BY <1>1, <2>1, <3>1 DEF PostgresShape, ItemShape
    <3>2. CASE o = <<"database", Inst>>
      BY <1>1, <3>2, BodiesAssumption DEF ItemShape
    <3>3. CASE \E s \in Range(c.schemas) : o = <<"schema", s.name>>
      BY <1>1, <2>1, <3>3 DEF PostgresShape, ItemShape
    <3>4. CASE \E e \in Range(c.extensions) : o = <<"extension", e.name>>
      BY <1>1, <2>1, <3>4 DEF WellNamed, ItemShape
    <3>. QED  BY <2>1, <3>1, <3>2, <3>3, <3>4, PostgresObjectsAre
  <2>. QED  BY <2>1, <2>2, PostgresObjectsAre
<1>2. CASE d = "mariadb"
  <2>1. MariaShape(c) /\ Objects(d, c) = MariaObjects(c)
    BY <1>2, ShapeOf DEF Objects
  <2>2. ASSUME NEW u \in Range(c.users)
        PROVE  ItemShape(d, <<"user", Account(u)>>)
    <3>1. /\ CutLast(Account(u), "@") = <<u.name, u.host>>
          /\ u.name # NoName /\ u.host # NoName /\ "@" \notin Range(u.host)
      BY <1>2, <2>1, CutLastOfJoin DEF MariaShape, WellNamed, Account
    <3>2. /\ Rejoins(<<"user", Account(u)>>, CutLast(Account(u), "@"), "@")
          /\ "@" \notin Range(CutLast(Account(u), "@")[2])
      BY <3>1 DEF Rejoins, Account
    <3>. QED  BY <1>2, <3>2 DEF ItemShape
  <2>3. ItemShape(d, <<"database", Inst>>)
    BY <1>2 DEF ItemShape
  <2>. QED  BY <2>1, <2>2, <2>3, MariaObjectsAre
<1>3. CASE d = "ferret"
  <2>1. FerretShape(c) /\ Objects(d, c) = FerretObjects(c)
    BY <1>3, ShapeOf DEF Objects
  <2>2. ASSUME NEW db \in Range(c.databases)
        PROVE  /\ ItemShape(d, <<"database", db.name>>)
               /\ \A coll \in Range(db.collections) :
                     ItemShape(d, <<"collection", Join(db.name, ".", coll.name)>>)
    <3>1. ItemShape(d, <<"database", db.name>>)
      BY <1>3, <2>1 DEF ItemShape, FerretShape
    <3>2. ASSUME NEW coll \in Range(db.collections)
          PROVE  ItemShape(d, <<"collection", Join(db.name, ".", coll.name)>>)
      <4> DEFINE name == Join(db.name, ".", coll.name)
      <4>1. /\ CutFirst(name, ".") = <<db.name, coll.name>>
            /\ db.name # NoName /\ coll.name # NoName /\ "." \notin Range(db.name)
        BY <1>3, <2>1, CutFirstOfJoin DEF FerretShape, WellNamed
      <4>2. /\ Rejoins(<<"collection", name>>, CutFirst(name, "."), ".")
            /\ "." \notin Range(CutFirst(name, ".")[1])
        BY <4>1 DEF Rejoins
      <4> HIDE DEF name
      <4>3. ItemShape(d, <<"collection", name>>)
        BY <1>3, <4>2 DEF ItemShape
      <4>. QED  BY <4>3 DEF name
    <3>. QED  BY <3>1, <3>2
  <2>3. /\ IsSeq(FerretObjects(c))
        /\ \A o \in Range(FerretObjects(c)) :
              \E db \in Range(c.databases) :
                 \/ o = <<"database", db.name>>
                 \/ \E coll \in Range(db.collections) :
                       o = <<"collection", Join(db.name, ".", coll.name)>>
    BY <2>1, FerretObjectsAre
  <2>4. ASSUME NEW o \in Range(FerretObjects(c))
        PROVE  ItemShape(d, o)
    <3>1. PICK db \in Range(c.databases) :
                 \/ o = <<"database", db.name>>
                 \/ \E coll \in Range(db.collections) :
                       o = <<"collection", Join(db.name, ".", coll.name)>>
      BY <2>3
    <3>2. CASE o = <<"database", db.name>>
      BY <2>2, <3>2
    <3>3. ASSUME NEW coll \in Range(db.collections),
                 o = <<"collection", Join(db.name, ".", coll.name)>>
          PROVE  ItemShape(d, o)
      BY <2>2, <3>3
    <3>. QED  BY <3>1, <3>2, <3>3
  <2>. QED  BY <2>1, <2>3, <2>4
<1>4. CASE d = "temporal"
  <2>1. TemporalShape(c) /\ Objects(d, c) = Listed("namespace", c.namespaces)
    BY <1>4, ShapeOf DEF Objects
  <2>2. \A n \in Range(c.namespaces) : ItemShape(d, <<"namespace", n.name>>)
    BY <1>4, <2>1 DEF TemporalShape, ItemShape
  <2>. QED  BY <2>1, <2>2, TemporalObjectsAre
<1>5. CASE d \in {"kafka", "aws", "valkey", "kvrocks"}
  <2>1. Objects(d, c) = <<>>
    BY <1>5 DEF Objects
  <2>. QED  BY <2>1, NoSeq
<1>. QED  BY <1>1, <1>2, <1>3, <1>4, <1>5, BodiesAssumption DEF DriverNames

PruneOne(d, o) ==
    CASE d = "postgres" -> DropPostgres(o)
      [] d = "mariadb" -> DropMaria(o)
      [] d = "ferret" -> DropFerret(o)
      [] d = "temporal" -> DeleteNamespace(o)

LEMMA PruneList ==
  ASSUME NEW d \in DriverNames, NEW objs, IsSeq(objs),
         \A o \in Range(objs) : ItemShape(d, o)
  PROVE  /\ IsSeq(Prune(d, objs)) /\ Len(Prune(d, objs)) = Len(objs)
         /\ \A i \in 1 .. Len(objs) : Prune(d, objs)[i] = PruneOne(d, objs[i])
         /\ Range(Prune(d, objs)) = {PruneOne(d, o) : o \in Range(objs)}
<1> DEFINE t == Prune(d, objs)
<1>1. CASE d \in {"postgres", "mariadb", "ferret", "temporal"}
  <2>1. t = [i \in DOMAIN objs |-> PruneOne(d, objs[i])]
    <3>1. CASE d = "postgres"
      BY <3>1 DEF Prune, PruneOne, Mapped
    <3>2. CASE d = "mariadb"
      BY <3>2 DEF Prune, PruneOne, Mapped
    <3>3. CASE d = "ferret"
      BY <3>3 DEF Prune, PruneOne, Mapped
    <3>4. CASE d = "temporal"
      BY <3>4 DEF Prune, PruneOne, Mapped
    <3>. QED  BY <1>1, <3>1, <3>2, <3>3, <3>4
  <2>2. Range(t) = {PruneOne(d, o) : o \in Range(objs)}
    BY <2>1 DEF Range
  <2>3. t = [i \in DOMAIN objs |-> t[i]]
    BY <2>1
  <2> HIDE DEF t
  <2>4. /\ IsSeq(t) /\ Len(t) = Len(objs)
        /\ \A i \in 1 .. Len(objs) : t[i] = PruneOne(d, objs[i])
    BY <2>1, <2>3, MemberWise, SeqFacts
  <2>. QED  BY <2>2, <2>4 DEF t
<1>2. CASE d \in {"kafka", "aws", "valkey", "kvrocks"}
  <2>1. Range(objs) = {}
    BY <1>2 DEF ItemShape
  <2>2. Len(objs) = 0
    BY <2>1, SeqFacts
  <2>3. t = <<>>
    BY <1>2 DEF Prune
  <2>. QED  BY <2>1, <2>2, <2>3, NoSeq
<1>. QED  BY <1>1, <1>2 DEF DriverNames

\* A pass sends nothing else to prune an item; what the statement names.
LEMMA PruneOneIs ==
  ASSUME NEW d, NEW o, ItemShape(d, o)
  PROVE  LET st == PruneOne(d, o)
         IN /\ Prunes(st) /\ st.needs = {} /\ st.obj = <<o[1], st.obj[2]>>
            /\ st.do = "delete" <=> d = "temporal"
            /\ NoName \notin Range(st.obj[2])
            /\ d \in {"postgres", "temporal"} => st.obj = <<o[1], <<o[2]>>>>
            /\ st.db = IF d = "postgres" /\ o[1] \in {"schema", "extension"}
                       THEN {Database} ELSE {}
<1>1. CASE d = "postgres"
  <2>1. PruneOne(d, o) = DropPostgres(o)
    BY <1>1 DEF PruneOne
  <2>2. NoName \notin Range(<<o[2]>>)
    BY <1>1, SingleSeq DEF ItemShape
  <2>. QED  BY <1>1, <2>1, <2>2 DEF DropPostgres, Stmt, Prunes
<1>2. CASE d = "mariadb"
  <2>1. PruneOne(d, o) = DropMaria(o)
    BY <1>2 DEF PruneOne
  <2>2. o[1] # "user" => NoName \notin Range(<<o[2]>>) /\ o[1] = "database"
    BY <1>2, SingleSeq, BodiesAssumption DEF ItemShape
  <2>3. o[1] = "user" => NoName \notin Range(CutLast(o[2], "@"))
    <3>1. o[1] = "user" => Rejoins(o, CutLast(o[2], "@"), "@")
      BY <1>2 DEF ItemShape
    <3>. QED  BY <3>1 DEF Rejoins, Range
  <2>. QED  BY <1>2, <2>1, <2>2, <2>3 DEF DropMaria, Simple, Stmt, Prunes
<1>3. CASE d = "ferret"
  <2>1. PruneOne(d, o) = DropFerret(o)
    BY <1>3 DEF PruneOne
  <2>2. o[1] # "collection" => NoName \notin Range(<<o[2]>>) /\ o[1] = "database"
    BY <1>3, SingleSeq DEF ItemShape
  <2>3. o[1] = "collection" => NoName \notin Range(CutFirst(o[2], "."))
    <3>1. o[1] = "collection" => Rejoins(o, CutFirst(o[2], "."), ".")
      BY <1>3 DEF ItemShape
    <3>. QED  BY <3>1 DEF Rejoins, Range
  <2>. QED  BY <1>3, <2>1, <2>2, <2>3 DEF DropFerret, Simple, Stmt, Prunes
<1>4. CASE d = "temporal"
  <2>1. PruneOne(d, o) = DeleteNamespace(o)
    BY <1>4 DEF PruneOne
  <2>2. NoName \notin Range(<<o[2]>>) /\ o[1] = "namespace"
    BY <1>4, SingleSeq DEF ItemShape
  <2>. QED  BY <1>4, <2>1, <2>2 DEF DeleteNamespace, Simple, Stmt, Prunes
<1>. QED  BY <1>1, <1>2, <1>3, <1>4 DEF ItemShape

-----------------------------------------------------------------------------
(* The statements of Converge.                                             *)

PutDatabase(c) == Stmt("put", Database, c.owner, RolesNamed(c.owner), {})
EnsureSchema(s) ==
    Stmt("ensure", Schema(s.name), s.owner, RolesNamed(s.owner), {Database})

LEMMA PostgresParts ==
  ASSUME NEW c, PostgresShape(c)
  PROVE  LET R == [i \in DOMAIN c.roles |->
                      Simple("put", Role(c.roles[i].name), c.roles[i].password)]
             D == <<PutDatabase(c)>>
             S == [i \in DOMAIN c.schemas |-> EnsureSchema(c.schemas[i])]
             E == [i \in DOMAIN c.extensions |-> CreateExtension(c.extensions[i])]
             G == [i \in DOMAIN c.grants |-> Grant(c.grants[i])]
         IN /\ PostgresConverge(c) = (((R \o D) \o S) \o E) \o G
            /\ IsSeq(R) /\ IsSeq(D) /\ IsSeq(S) /\ IsSeq(E) /\ IsSeq(G)
<1> DEFINE R == [i \in DOMAIN c.roles |->
                    Simple("put", Role(c.roles[i].name), c.roles[i].password)]
           D == <<PutDatabase(c)>>
           S == [i \in DOMAIN c.schemas |-> EnsureSchema(c.schemas[i])]
           E == [i \in DOMAIN c.extensions |-> CreateExtension(c.extensions[i])]
           G == [i \in DOMAIN c.grants |-> Grant(c.grants[i])]
<1>1. PostgresConverge(c) = (((R \o D) \o S) \o E) \o G
  BY DEF PostgresConverge, Mapped, PutDatabase, EnsureSchema
<1>2. /\ R = [i \in DOMAIN c.roles |-> R[i]] /\ S = [i \in DOMAIN c.schemas |-> S[i]]
      /\ E = [i \in DOMAIN c.extensions |-> E[i]]
      /\ G = [i \in DOMAIN c.grants |-> G[i]]
  OBVIOUS
<1>3. IsSeq(D)
  BY SingleSeq
<1> HIDE DEF R, D, S, E, G
<1>4. IsSeq(R) /\ IsSeq(S) /\ IsSeq(E) /\ IsSeq(G)
  BY <1>2, MemberWise DEF PostgresShape
<1>. QED  BY <1>1, <1>3, <1>4 DEF R, D, S, E, G

LEMMA PostgresConvergeAre ==
  ASSUME NEW c, PostgresShape(c)
  PROVE  /\ IsSeq(PostgresConverge(c))
         /\ \A st : st \in Range(PostgresConverge(c)) <=>
               \/ \E r \in Range(c.roles) : st = Simple("put", Role(r.name), r.password)
               \/ st = PutDatabase(c)
               \/ \E s \in Range(c.schemas) : st = EnsureSchema(s)
               \/ \E e \in Range(c.extensions) : st = CreateExtension(e)
               \/ \E g \in Range(c.grants) : st = Grant(g)
<1> DEFINE PutRole(r) == Simple("put", Role(r.name), r.password)
           R == [i \in DOMAIN c.roles |-> PutRole(c.roles[i])]
           D == <<PutDatabase(c)>>
           S == [i \in DOMAIN c.schemas |-> EnsureSchema(c.schemas[i])]
           E == [i \in DOMAIN c.extensions |-> CreateExtension(c.extensions[i])]
           G == [i \in DOMAIN c.grants |-> Grant(c.grants[i])]
<1>1. /\ PostgresConverge(c) = (((R \o D) \o S) \o E) \o G
      /\ IsSeq(R) /\ IsSeq(D) /\ IsSeq(S) /\ IsSeq(E) /\ IsSeq(G)
  BY PostgresParts
<1>2. Range(D) = {PutDatabase(c)}
  BY SingleSeq
<1> HIDE DEF PutRole
<1>3. /\ Range(R) = {PutRole(r) : r \in Range(c.roles)}
      /\ Range(S) = {EnsureSchema(s) : s \in Range(c.schemas)}
      /\ Range(E) = {CreateExtension(e) : e \in Range(c.extensions)}
      /\ Range(G) = {Grant(g) : g \in Range(c.grants)}
  BY DEF Range
<1> HIDE DEF R, D, S, E, G
<1>4. IsSeq(R \o D) /\ Range(R \o D) = Range(R) \cup Range(D)
  BY <1>1, Concat
<1>5. IsSeq((R \o D) \o S) /\ Range((R \o D) \o S) = Range(R \o D) \cup Range(S)
  BY <1>1, <1>4, Concat
<1>6. /\ IsSeq(((R \o D) \o S) \o E)
      /\ Range(((R \o D) \o S) \o E) = Range((R \o D) \o S) \cup Range(E)
  BY <1>1, <1>5, Concat
<1>7. /\ IsSeq((((R \o D) \o S) \o E) \o G)
      /\ Range((((R \o D) \o S) \o E) \o G) = Range(((R \o D) \o S) \o E) \cup Range(G)
  BY <1>1, <1>6, Concat
<1>8. /\ IsSeq(PostgresConverge(c))
      /\ Range(PostgresConverge(c))
           = Range(R) \cup Range(D) \cup Range(S) \cup Range(E) \cup Range(G)
  BY <1>1, <1>4, <1>5, <1>6, <1>7
<1>9. \A st : st \in Range(R) <=> \E r \in Range(c.roles) : st = PutRole(r)
  BY <1>3
<1>. QED  BY <1>2, <1>3, <1>8, <1>9 DEF PutRole

\* What MariaDB is sent for each user, in one piece.
UserLists(c) == [i \in DOMAIN c.users |-> ConvergeUser(c.users[i])]
GrantUser(g) == Stmt("grant", User(g.user, g.host), NoName, {}, {})
Flush == Simple("flush", Database, NoName)

LEMMA ConvergeUserIs ==
  ASSUME NEW u
  PROVE  LET t == ConvergeUser(u)
             first == Simple("ensure", User(u.name, u.host), u.password)
             second == Simple("alter", User(u.name, u.host), u.password)
         IN /\ IsSeq(t) /\ Len(t) \in {1, 2} /\ t[1] = first
            /\ u.password # NoName <=> Len(t) = 2
            /\ Len(t) = 2 => t[2] = second
            /\ Range(t) = {first} \cup (IF u.password = NoName THEN {} ELSE {second})
<1> DEFINE first == Simple("ensure", User(u.name, u.host), u.password)
           second == Simple("alter", User(u.name, u.host), u.password)
           rest == IF u.password = NoName THEN <<>> ELSE <<second>>
<1>1. ConvergeUser(u) = <<first>> \o rest
  BY DEF ConvergeUser
<1>2. /\ IsSeq(<<first>>) /\ Range(<<first>>) = {first}
      /\ Len(<<first>>) = 1 /\ <<first>>[1] = first
  BY SingleSeq
<1>3. /\ IsSeq(<<second>>) /\ Range(<<second>>) = {second}
      /\ Len(<<second>>) = 1 /\ <<second>>[1] = second
  BY SingleSeq
<1> HIDE DEF first, second
<1>4. /\ IsSeq(rest)
      /\ Range(rest) = IF u.password = NoName THEN {} ELSE {second}
      /\ Len(rest) = IF u.password = NoName THEN 0 ELSE 1
      /\ u.password # NoName => rest[1] = second
  <2>1. CASE u.password = NoName
    <3>1. rest = <<>>
      BY <2>1
    <3> HIDE DEF rest
    <3>. QED  BY <2>1, <3>1, NoSeq
  <2>2. CASE u.password # NoName
    <3>1. rest = <<second>>
      BY <2>2
    <3> HIDE DEF rest
    <3>. QED  BY <2>2, <3>1, <1>3
  <2>. QED  BY <2>1, <2>2
<1> HIDE DEF rest
<1> DEFINE one == <<first>>
           t == one \o rest
<1>5. /\ IsSeq(t) /\ Len(t) = 1 + Len(rest) /\ Range(t) = {first} \cup Range(rest)
      /\ t[1] = first
      /\ \A i \in 1 .. Len(rest) : t[1 + i] = rest[i]
  <2>1. IsSeq(one) /\ Range(one) = {first} /\ Len(one) = 1 /\ one[1] = first
    BY <1>2
  <2> HIDE DEF one
  <2>2. /\ IsSeq(t) /\ Len(t) = Len(one) + Len(rest)
        /\ Range(t) = Range(one) \cup Range(rest)
        /\ \A i \in 1 .. Len(one) : t[i] = one[i]
        /\ \A i \in 1 .. Len(rest) : t[Len(one) + i] = rest[i]
    BY <1>4, <2>1, Concat
  <2> HIDE DEF t
  <2>. QED  BY <2>1, <2>2
<1> HIDE DEF t
<1>6. u.password # NoName => t[2] = second
  BY <1>4, <1>5
<1>7. ConvergeUser(u) = t
  BY <1>1 DEF t
<1>. QED  BY <1>4, <1>5, <1>6, <1>7 DEF first, second

LEMMA MariaParts ==
  ASSUME NEW c, MariaShape(c)
  PROVE  LET D == <<Simple("ensure", Database, NoName)>>
             U == FlattenSeq(UserLists(c))
             G == [i \in DOMAIN c.grants |-> GrantUser(c.grants[i])]
             F == IF c.grants = <<>> THEN <<>> ELSE <<Flush>>
         IN /\ MariaConverge(c) = ((D \o U) \o G) \o F
            /\ IsSeq(D) /\ IsSeq(U) /\ IsSeq(G) /\ IsSeq(F)
            /\ IsSeq(UserLists(c)) /\ Len(UserLists(c)) = Len(c.users)
            /\ \A k \in DOMAIN UserLists(c) : IsSeq(UserLists(c)[k])
            /\ Range(F) \subseteq {Flush}
            /\ Range(G) = {GrantUser(g) : g \in Range(c.grants)}
<1> DEFINE D == <<Simple("ensure", Database, NoName)>>
           L == UserLists(c)
           U == FlattenSeq(L)
           G == [i \in DOMAIN c.grants |-> GrantUser(c.grants[i])]
           F == IF c.grants = <<>> THEN <<>> ELSE <<Flush>>
<1>1. MariaConverge(c) = ((D \o U) \o G) \o F
  BY DEF MariaConverge, Mapped, UserLists, GrantUser, Flush
<1>2. G = [i \in DOMAIN c.grants |-> G[i]] /\ L = [i \in DOMAIN c.users |-> L[i]]
  BY DEF UserLists
<1>3. IsSeq(D)
  BY SingleSeq
<1>4. IsSeq(F) /\ Range(F) \subseteq {Flush}
  BY SingleSeq, NoSeq
<1>5. Range(G) = {GrantUser(g) : g \in Range(c.grants)}
  BY DEF Range
<1>6. \A k \in DOMAIN L : IsSeq(L[k])
  BY ConvergeUserIs DEF UserLists
<1> HIDE DEF L, G, F, D
<1>7. IsSeq(G) /\ IsSeq(L) /\ Len(L) = Len(c.users)
  BY <1>2, MemberWise DEF MariaShape
<1>8. IsSeq(U)
  BY <1>6, <1>7, FlattenRange
<1>. QED  BY <1>1, <1>3, <1>4, <1>5, <1>6, <1>7, <1>8 DEF D, L, G, F

LEMMA MariaConvergeAre ==
  ASSUME NEW c, MariaShape(c)
  PROVE  /\ IsSeq(MariaConverge(c))
         /\ \A st \in Range(MariaConverge(c)) :
               \/ st = Simple("ensure", Database, NoName) \/ st = Flush
               \/ \E u \in Range(c.users) : st \in Range(ConvergeUser(u))
               \/ \E g \in Range(c.grants) : st = GrantUser(g)
         /\ \A u \in Range(c.users) :
               Range(ConvergeUser(u)) \subseteq Range(MariaConverge(c))
<1> DEFINE D == <<Simple("ensure", Database, NoName)>>
           L == UserLists(c)
           U == FlattenSeq(L)
           G == [i \in DOMAIN c.grants |-> GrantUser(c.grants[i])]
           F == IF c.grants = <<>> THEN <<>> ELSE <<Flush>>
<1>1. /\ MariaConverge(c) = ((D \o U) \o G) \o F
      /\ IsSeq(D) /\ IsSeq(U) /\ IsSeq(G) /\ IsSeq(F) /\ IsSeq(L)
      /\ \A k \in DOMAIN L : IsSeq(L[k])
      /\ Range(F) \subseteq {Flush}
      /\ Range(G) = {GrantUser(g) : g \in Range(c.grants)}
  BY MariaParts
<1>2. Range(D) = {Simple("ensure", Database, NoName)}
  BY SingleSeq
<1>3. /\ \A k \in DOMAIN L : \E u \in Range(c.users) : L[k] = ConvergeUser(u)
      /\ \A u \in Range(c.users) : \E k \in DOMAIN L : L[k] = ConvergeUser(u)
  BY DEF UserLists, Range
<1> HIDE DEF D, G, F, L
<1>4. \A x : x \in Range(U) <=> \E k \in DOMAIN L : x \in Range(L[k])
  BY <1>1, FlattenRange
<1> HIDE DEF U
<1>5. IsSeq(D \o U) /\ Range(D \o U) = Range(D) \cup Range(U)
  BY <1>1, Concat
<1>6. IsSeq((D \o U) \o G) /\ Range((D \o U) \o G) = Range(D \o U) \cup Range(G)
  BY <1>1, <1>5, Concat
<1>7. /\ IsSeq(((D \o U) \o G) \o F)
      /\ Range(((D \o U) \o G) \o F) = Range((D \o U) \o G) \cup Range(F)
  BY <1>1, <1>6, Concat
<1>8. IsSeq(MariaConverge(c))
      /\ Range(MariaConverge(c)) = Range(D) \cup Range(U) \cup Range(G) \cup Range(F)
  BY <1>1, <1>5, <1>6, <1>7
<1>9. ASSUME NEW st \in Range(MariaConverge(c))
      PROVE  \/ st = Simple("ensure", Database, NoName) \/ st = Flush
             \/ \E u \in Range(c.users) : st \in Range(ConvergeUser(u))
             \/ \E g \in Range(c.grants) : st = GrantUser(g)
  BY <1>1, <1>2, <1>3, <1>4, <1>8
<1>10. ASSUME NEW u \in Range(c.users)
       PROVE  Range(ConvergeUser(u)) \subseteq Range(MariaConverge(c))
  BY <1>3, <1>4, <1>8
<1>. QED  BY <1>8, <1>9, <1>10

EnsureCollection(db, coll) ==
    Simple("ensure", <<"collection", <<db.name, coll.name>>>>, NoName)

LEMMA FerretConvergeAre ==
  ASSUME NEW c, FerretShape(c)
  PROVE  /\ IsSeq(FerretConverge(c))
         /\ \A st : st \in Range(FerretConverge(c)) <=>
               \E db \in Range(c.databases) : \E coll \in Range(db.collections) :
                  st = EnsureCollection(db, coll)
<1> DEFINE Of(db) == [i \in DOMAIN db.collections |->
                         EnsureCollection(db, db.collections[i])]
           lists == [i \in DOMAIN c.databases |-> Of(c.databases[i])]
<1>1. FerretConverge(c) = FlattenSeq(lists)
  BY DEF FerretConverge, Mapped, EnsureCollection
<1>2. ASSUME NEW db \in Range(c.databases)
      PROVE  /\ IsSeq(Of(db))
             /\ Range(Of(db)) = {EnsureCollection(db, coll) :
                                    coll \in Range(db.collections)}
  <2>1. Of(db) = [i \in DOMAIN db.collections |-> Of(db)[i]]
    OBVIOUS
  <2>2. Range(Of(db)) = {EnsureCollection(db, coll) :
                            coll \in Range(db.collections)}
    BY DEF Range
  <2> HIDE DEF Of
  <2>3. IsSeq(Of(db))
    BY <2>1, MemberWise DEF FerretShape
  <2>. QED  BY <2>2, <2>3
<1> HIDE DEF Of
<1>3. IsSeq(lists) /\ DOMAIN lists = DOMAIN c.databases
  <2>1. lists = [i \in DOMAIN c.databases |-> lists[i]]
    OBVIOUS
  <2>2. DOMAIN lists = DOMAIN c.databases
    OBVIOUS
  <2> HIDE DEF lists
  <2>. QED  BY <2>1, <2>2, MemberWise DEF FerretShape
<1>4. \A i \in DOMAIN c.databases : lists[i] = Of(c.databases[i])
                                    /\ c.databases[i] \in Range(c.databases)
  BY DEF Range
<1> HIDE DEF lists
<1>5. \A k \in DOMAIN lists : IsSeq(lists[k])
  BY <1>2, <1>3, <1>4
<1>6. /\ IsSeq(FlattenSeq(lists))
      /\ \A o : o \in Range(FlattenSeq(lists))
                  <=> \E k \in DOMAIN lists : o \in Range(lists[k])
  BY <1>3, <1>5, FlattenRange
<1>7. \A db \in Range(c.databases) : \E i \in DOMAIN c.databases : db = c.databases[i]
  BY DEF Range
<1>8. \A o : o \in Range(FlattenSeq(lists))
                <=> \E db \in Range(c.databases) : o \in Range(Of(db))
  BY <1>3, <1>4, <1>6, <1>7
<1>. QED  BY <1>1, <1>2, <1>6, <1>8

Upsert(n) == Simple("upsert", <<"namespace", <<n.name>>>>, n.retention)

LEMMA TemporalConvergeAre ==
  ASSUME NEW c, TemporalShape(c)
  PROVE  /\ IsSeq(TemporalConverge(c))
         /\ Range(TemporalConverge(c)) = {Upsert(n) : n \in Range(c.namespaces)}
<1> DEFINE t == TemporalConverge(c)
<1>1. t = [i \in DOMAIN c.namespaces |-> Upsert(c.namespaces[i])]
  BY DEF TemporalConverge, Mapped, Upsert
<1>2. t = [i \in DOMAIN c.namespaces |-> t[i]]
  BY <1>1
<1>3. Range(t) = {Upsert(n) : n \in Range(c.namespaces)}
  BY <1>1 DEF Range
<1> HIDE DEF t
<1>. QED  BY <1>2, <1>3, MemberWise DEF TemporalShape, t

EnsureTopic(n) == Simple("ensure", <<"topic", <<n.name>>>>, NoName)

LEMMA KafkaConvergeAre ==
  ASSUME NEW c, IsSeq(c.topics)
  PROVE  /\ IsSeq(KafkaConverge(c))
         /\ Range(KafkaConverge(c)) = {EnsureTopic(n) : n \in Range(c.topics)}
<1> DEFINE t == KafkaConverge(c)
<1>1. t = [i \in DOMAIN c.topics |-> EnsureTopic(c.topics[i])]
  BY DEF KafkaConverge, Mapped, EnsureTopic
<1>2. t = [i \in DOMAIN c.topics |-> t[i]]
  BY <1>1
<1>3. Range(t) = {EnsureTopic(n) : n \in Range(c.topics)}
  BY <1>1 DEF Range
<1> HIDE DEF t
<1>. QED  BY <1>2, <1>3, MemberWise DEF t

LEMMA AwsConvergeAre ==
  ASSUME NEW c, AwsShape(c)
  PROVE  /\ IsSeq(AwsConverge(c))
         /\ \A st : st \in Range(AwsConverge(c)) <=>
               \E k \in DOMAIN c : \E n \in DOMAIN c[k] : st = Resource(k, n, c[k][n])
<1> DEFINE Of(k) == {Resource(k, n, c[k][n]) : n \in DOMAIN c[k]}
           all == UNION {Of(k) : k \in DOMAIN c}
<1>1. ASSUME NEW k \in DOMAIN c
      PROVE  IsFiniteSet(Of(k))
  <2> DEFINE f == [n \in DOMAIN c[k] |-> Resource(k, n, c[k][n])]
  <2>1. f \in Surjection(DOMAIN c[k], Of(k))
    BY DEF Surjection
  <2>2. IsFiniteSet(DOMAIN c[k])
    BY DEF AwsShape
  <2> HIDE DEF f, Of
  <2>. QED  BY <2>1, <2>2, FS_Surjection
<1>2. IsFiniteSet({Of(k) : k \in DOMAIN c})
  <2> DEFINE f == [k \in DOMAIN c |-> Of(k)]
  <2> HIDE DEF Of
  <2>1. f \in Surjection(DOMAIN c, {Of(k) : k \in DOMAIN c})
    BY DEF Surjection
  <2> HIDE DEF f
  <2>. QED  BY <2>1, FS_Surjection DEF AwsShape
<1>3. IsFiniteSet(all)
  <2> HIDE DEF Of
  <2>. QED  BY <1>1, <1>2, FS_UNION
<1>4. AwsConverge(c) = SetToSeq(all)
  BY DEF AwsConverge
<1>5. IsSeq(AwsConverge(c)) /\ Range(AwsConverge(c)) = all
  <2> HIDE DEF all
  <2>. QED  BY <1>3, <1>4, Listing
<1>6. \A st : st \in all <=> \E k \in DOMAIN c : st \in Of(k)
  <2> HIDE DEF Of
  <2>. QED  OBVIOUS
<1>. QED  BY <1>5, <1>6

-----------------------------------------------------------------------------
(* What is left of the record once the declared items are taken out.       *)

Rest(t, items, declared, n) ==
    /\ IsSeq(t)
    /\ \A x : x \in Range(t)
                 <=> x \notin declared /\ \E i \in 1 .. n : items[i] = x
    /\ Distinct(items) => Distinct(t)

LEMMA RestStep ==
  ASSUME NEW items, IsSeq(items), NEW declared, NEW n \in Nat, n < Len(items),
         NEW t, Rest(t, items, declared, n)
  PROVE  Rest(IF items[n + 1] \in declared THEN t ELSE <<items[n + 1]>> \o t,
              items, declared, n + 1)
<1> DEFINE x == items[n + 1]
           one == <<x>>
           u == one \o t
<1>1. Len(items) \in Nat /\ DOMAIN items = 1 .. Len(items)
  BY SeqFacts
<1>2. \A y : (\E i \in 1 .. n + 1 : items[i] = y)
                 <=> y = x \/ \E i \in 1 .. n : items[i] = y
  <2>1. \A i \in 1 .. n + 1 : i = n + 1 \/ i \in 1 .. n
    OBVIOUS
  <2>2. n + 1 \in 1 .. n + 1 /\ \A i \in 1 .. n : i \in 1 .. n + 1
    OBVIOUS
  <2>. QED  BY <2>1, <2>2
<1>3. CASE x \in declared
  BY <1>2, <1>3 DEF Rest
<1>4. CASE x \notin declared
  <2>1. IsSeq(one) /\ Range(one) = {x} /\ Len(one) = 1 /\ one[1] = x
    BY SingleSeq
  <2>2. IsSeq(t) /\ Len(t) \in Nat
    BY SeqFacts DEF Rest
  <2>9. IsSeq(one) /\ IsSeq(t) /\ u = one \o t
    BY <2>1, <2>2
  <2> HIDE DEF one, u
  <2>8. /\ IsSeq(one \o t) /\ Len(one \o t) = Len(one) + Len(t)
        /\ Range(one \o t) = Range(one) \cup Range(t)
        /\ \A i \in 1 .. Len(one) : (one \o t)[i] = one[i]
        /\ \A i \in 1 .. Len(t) : (one \o t)[Len(one) + i] = t[i]
    BY <2>9, Concat
  <2>3. /\ IsSeq(u) /\ Len(u) = Len(one) + Len(t)
        /\ Range(u) = Range(one) \cup Range(t)
        /\ \A i \in 1 .. Len(one) : u[i] = one[i]
        /\ \A i \in 1 .. Len(t) : u[Len(one) + i] = t[i]
    BY <2>8, <2>9
  <2>4. \A y : y \in Range(u)
                  <=> y \notin declared /\ \E i \in 1 .. n + 1 : items[i] = y
    BY <1>2, <1>4, <2>1, <2>3 DEF Rest
  <2>5. ASSUME Distinct(items)
        PROVE  Distinct(u)
    <3>1. x \notin Range(t)
      <4>1. \A i \in 1 .. n : items[i] # x
        BY <2>5, <1>1 DEF Distinct
      <4>. QED  BY <4>1 DEF Rest
    <3>2. DOMAIN t = 1 .. Len(t) /\ \A i \in 1 .. Len(t) : t[i] \in Range(t)
      BY <2>2, SeqFacts
    <3>3. \A i, j \in 1 .. Len(t) : t[i] = t[j] => i = j
      BY <2>5, <3>2 DEF Rest, Distinct
    <3>4. DOMAIN u = 1 .. Len(t) + 1
      BY <2>1, <2>2, <2>3, SeqFacts
    <3>5. u[1] = x /\ \A i \in 2 .. Len(t) + 1 : i - 1 \in 1 .. Len(t) /\ u[i] = t[i - 1]
      <4>1. \A i \in 2 .. Len(t) + 1 : i - 1 \in 1 .. Len(t) /\ 1 + (i - 1) = i
        BY <2>2
      <4>2. \A j \in 1 .. Len(t) : u[1 + j] = t[j]
        BY <2>1, <2>3
      <4>. QED  BY <2>1, <2>3, <4>1, <4>2
    <3>6. ASSUME NEW i \in 1 .. Len(t) + 1, NEW j \in 1 .. Len(t) + 1, u[i] = u[j]
          PROVE  i = j
      <4>1. CASE i = 1 /\ j = 1
        BY <4>1
      <4>2. CASE i = 1 /\ j # 1
        <5>1. j \in 2 .. Len(t) + 1
          BY <4>2, <2>2
        <5>. QED  BY <4>2, <5>1, <3>1, <3>2, <3>5, <3>6
      <4>3. CASE i # 1 /\ j = 1
        <5>1. i \in 2 .. Len(t) + 1
          BY <4>3, <2>2
        <5>. QED  BY <4>3, <5>1, <3>1, <3>2, <3>5, <3>6
      <4>4. CASE i # 1 /\ j # 1
        <5>1. i \in 2 .. Len(t) + 1 /\ j \in 2 .. Len(t) + 1
          BY <4>4, <2>2
        <5>2. i - 1 = j - 1
          BY <5>1, <3>3, <3>5, <3>6
        <5>. QED  BY <5>1, <5>2, <2>2
      <4>. QED  BY <4>1, <4>2, <4>3, <4>4
    <3>. QED  BY <3>4, <3>6 DEF Distinct
  <2>6. Rest(u, items, declared, n + 1)
    BY <2>3, <2>4, <2>5 DEF Rest
  <2>. QED  BY <1>4, <2>6 DEF u, one
<1>. QED  BY <1>3, <1>4

LEMMA WithoutIs ==
  ASSUME NEW items, IsSeq(items), NEW declared
  PROVE  Rest(Without(items, declared), items, declared, Len(items))
<1> DEFINE N == Len(items)
           Following(t, i) == IF items[i] \in declared THEN t ELSE <<items[i]>> \o t
           Grows(f, n) == f = [i \in 0 .. n |-> IF i = 0 THEN <<>>
                                               ELSE Following(f[i - 1], i)]
           T == {n \in 0 .. N : \E f : Grows(f, n)}
<1>1. N \in Nat
  BY SeqFacts
<1>2. 0 \in T
  <2>1. \A i \in 0 .. 0 :
           (IF i = 0 THEN <<>> ELSE Following([j \in 0 .. 0 |-> <<>>][i - 1], i)) = <<>>
    <3> HIDE DEF Following
    <3>. QED  OBVIOUS
  <2>2. Grows([i \in 0 .. 0 |-> <<>>], 0)
    <3> HIDE DEF Following
    <3>. QED  BY <2>1
  <2> HIDE DEF Grows
  <2>. QED  BY <2>2, <1>1
<1>3. ASSUME NEW n \in 1 .. N, n - 1 \in T
      PROVE  n \in T
  <2>1. PICK g : Grows(g, n - 1)
    <3> HIDE DEF Grows
    <3>. QED  BY <1>3
  <2>2. /\ n \in Nat /\ n - 1 \in Nat
        /\ \A i \in 0 .. n - 1 : g[i] = IF i = 0 THEN <<>> ELSE Following(g[i - 1], i)
    <3>1. n \in Nat /\ n - 1 \in Nat
      BY <1>1
    <3>2. ASSUME NEW i \in 0 .. n - 1
          PROVE  g[i] = IF i = 0 THEN <<>> ELSE Following(g[i - 1], i)
      BY <2>1, Zenon
    <3>. QED  BY <3>1, <3>2
  <2> DEFINE Value(i) == IF i = n THEN Following(g[n - 1], n) ELSE g[i]
             f == [i \in 0 .. n |-> Value(i)]
  <2>3. ASSUME NEW i \in 0 .. n
        PROVE  f[i] = IF i = 0 THEN <<>> ELSE Following(f[i - 1], i)
    <3> HIDE DEF Following
    <3>1. f[i] = Value(i) /\ (i # 0 => f[i - 1] = Value(i - 1))
      BY <2>2
    <3>2. i # 0 => Value(i - 1) = g[i - 1]
      BY <2>2
    <3>. QED  BY <3>1, <3>2, <2>2
  <2>4. f = [i \in 0 .. n |-> f[i]]
    OBVIOUS
  <2> HIDE DEF f
  <2>5. Grows(f, n)
    BY <2>3, <2>4
  <2> HIDE DEF Grows
  <2>. QED  BY <2>5, <1>1
<1>4. \E f : Grows(f, N)
  <2>1. N \in T
    <3> HIDE DEF N, T
    <3>1. 0 .. N \subseteq T
      BY <1>1, <1>2, <1>3, Induction
    <3>. QED  BY <3>1, <1>1
  <2> HIDE DEF Grows
  <2>. QED  BY <2>1
<1> DEFINE f == CHOOSE f : Grows(f, N)
<1>5. Grows(f, N)
  BY <1>4
<1>6. Without(items, declared) = f[N]
  BY DEF Without
<1> HIDE DEF f
<1> DEFINE U == {n \in 0 .. N : Rest(f[n], items, declared, n)}
<1>7. 0 \in U
  <2>1. f[0] = <<>>
    BY <1>1, <1>5
  <2>2. Rest(<<>>, items, declared, 0)
    BY NoSeq DEF Rest, Distinct
  <2>. QED  BY <2>1, <2>2, <1>1
<1>8. ASSUME NEW n \in 1 .. N, n - 1 \in U
      PROVE  n \in U
  <2>1. f[n] = Following(f[n - 1], n) /\ n - 1 \in Nat /\ (n - 1) + 1 = n /\ n - 1 < N
    <3>1. n \in 0 .. N /\ n # 0 /\ n - 1 \in Nat /\ (n - 1) + 1 = n /\ n - 1 < N
      BY <1>1
    <3>2. f[n] = IF n = 0 THEN <<>> ELSE Following(f[n - 1], n)
      BY <1>5, <3>1, Zenon
    <3> HIDE DEF Following
    <3>. QED  BY <3>1, <3>2
  <2>2. Rest(f[n - 1], items, declared, n - 1)
    BY <1>8
  <2> DEFINE t == f[n - 1]
             m == n - 1
  <2>4. /\ m \in Nat /\ m < Len(items) /\ m + 1 = n
        /\ f[n] = IF items[n] \in declared THEN t ELSE <<items[n]>> \o t
        /\ Rest(t, items, declared, m)
    BY <2>1, <2>2
  <2>3. Rest(f[n], items, declared, n)
    <3> HIDE DEF t, m, N
    <3>1. Rest(IF items[m + 1] \in declared THEN t ELSE <<items[m + 1]>> \o t,
               items, declared, m + 1)
      BY <2>4, RestStep
    <3>. QED  BY <2>4, <3>1
  <2>. QED  BY <2>3
<1>9. 0 .. N \subseteq U
  <2> HIDE DEF N, U
  <2>. QED  BY <1>1, <1>7, <1>8, Induction
<1>. QED  BY <1>1, <1>6, <1>9

LEMMA ReverseIs ==
  ASSUME NEW s, IsSeq(s)
  PROVE  /\ IsSeq(Reverse(s)) /\ Len(Reverse(s)) = Len(s)
         /\ \A i \in 1 .. Len(s) : /\ Len(s) - i + 1 \in 1 .. Len(s)
                                   /\ Reverse(s)[i] = s[Len(s) - i + 1]
         /\ Range(Reverse(s)) = Range(s)
         /\ Distinct(s) => Distinct(Reverse(s))
<1> DEFINE t == Reverse(s)
           n == Len(s)
<1>1. n \in Nat /\ DOMAIN s = 1 .. n
  BY SeqFacts
<1>2. t = [i \in 1 .. n |-> s[(n - i) + 1]]
  BY DEF Reverse
<1> HIDE DEF t, n
<1>3. t = [i \in DOMAIN s |-> t[i]]
  BY <1>1, <1>2
<1>4. IsSeq(t) /\ Len(t) = Len(s)
  BY <1>3, MemberWise
<1>5. \A i \in 1 .. n : (n - i) + 1 \in 1 .. n /\ t[i] = s[(n - i) + 1]
                        /\ (n - ((n - i) + 1)) + 1 = i
  BY <1>1, <1>2
<1>6. DOMAIN t = 1 .. n
  BY <1>2
<1>7. Range(t) = Range(s)
  <2>1. \A x \in Range(t) : x \in Range(s)
    BY <1>1, <1>5, <1>6 DEF Range
  <2>2. \A i \in 1 .. n : s[i] = t[(n - i) + 1]
    BY <1>5
  <2>3. \A x \in Range(s) : x \in Range(t)
    BY <1>1, <1>5, <1>6, <2>2 DEF Range
  <2>. QED  BY <2>1, <2>3
<1>8. ASSUME Distinct(s)
      PROVE  Distinct(t)
  <2>1. ASSUME NEW i \in 1 .. n, NEW j \in 1 .. n, t[i] = t[j]
        PROVE  i = j
    <3>1. (n - i) + 1 = (n - j) + 1
      BY <1>1, <1>5, <1>8, <2>1 DEF Distinct
    <3>. QED  BY <3>1, <1>1
  <2>. QED  BY <2>1, <1>6 DEF Distinct
<1>. QED  BY <1>4, <1>5, <1>7, <1>8 DEF t, n

LEMMA HeadAndTail ==
  ASSUME NEW s, IsSeq(s), s # <<>>
  PROVE  /\ IsSeq(Tail(s)) /\ Len(Tail(s)) = Len(s) - 1 /\ Len(s) \in Nat \ {0}
         /\ Head(s) = s[1] /\ Head(s) \in Range(s)
         /\ \A i \in 1 .. Len(s) - 1 : Tail(s)[i] = s[i + 1]
         /\ Range(s) = {Head(s)} \cup Range(Tail(s))
<1>1. /\ s \in Seq(Range(s)) /\ Len(s) \in Nat /\ DOMAIN s = 1 .. Len(s)
      /\ \A i \in 1 .. Len(s) : s[i] \in Range(s)
      /\ \A x \in Range(s) : \E i \in 1 .. Len(s) : s[i] = x
  BY SeqFacts DEF IsSeq
<1>2. /\ Tail(s) \in Seq(Range(s)) /\ Len(Tail(s)) = Len(s) - 1 /\ Len(s) # 0
      /\ Head(s) = s[1]
      /\ \A i \in 1 .. Len(s) - 1 : Tail(s)[i] = s[i + 1]
  BY <1>1
<1>3. IsSeq(Tail(s))
  BY <1>2, SeqOf_
<1>4. /\ \A i \in 1 .. Len(s) - 1 : Tail(s)[i] \in Range(Tail(s))
      /\ \A x \in Range(Tail(s)) : \E i \in 1 .. Len(s) - 1 : Tail(s)[i] = x
  <2>1. \A t : IsSeq(t) => /\ \A i \in 1 .. Len(t) : t[i] \in Range(t)
                          /\ \A x \in Range(t) : \E i \in 1 .. Len(t) : t[i] = x
    BY SeqFacts
  <2>2. /\ \A i \in 1 .. Len(Tail(s)) : Tail(s)[i] \in Range(Tail(s))
        /\ \A x \in Range(Tail(s)) : \E i \in 1 .. Len(Tail(s)) : Tail(s)[i] = x
    BY <1>3, <2>1
  <2>. QED  BY <1>2, <2>2
<1>5. Range(s) \subseteq {Head(s)} \cup Range(Tail(s))
  <2> SUFFICES ASSUME NEW i \in 1 .. Len(s)
               PROVE  s[i] = Head(s) \/ s[i] \in Range(Tail(s))
    BY <1>1
  <2>1. CASE i = 1
    BY <2>1, <1>2
  <2>2. CASE i # 1
    <3>1. i - 1 \in 1 .. Len(s) - 1 /\ (i - 1) + 1 = i
      BY <2>2, <1>1
    <3>. QED  BY <3>1, <1>2, <1>4
  <2>. QED  BY <2>1, <2>2
<1>6. \A i \in 1 .. Len(s) - 1 : i + 1 \in 1 .. Len(s)
  BY <1>1
<1>7. 1 \in 1 .. Len(s)
  BY <1>1, <1>2
<1>8. Range(Tail(s)) \subseteq Range(s)
  BY <1>1, <1>2, <1>4, <1>6
<1>. QED  BY <1>1, <1>2, <1>3, <1>5, <1>7, <1>8

-----------------------------------------------------------------------------
(* What is taken away, and what comes back.                                *)

Matches(p, o) ==
    \/ p[1] = o[1] /\ InventoryName(p) = o[2]
    \/ o[1] = "database" /\ p[1] = "collection" /\ p[2][1] = o[2]

Again(c, o) ==
    /\ o[1] = "extension"
    /\ \E e \in Range(c.extensions) :
           \/ Alias(e.name) = o[2]
           \/ e.cascade /\ o[2] \in Range(Requires(Alias(e.name)))

\* What the statements make of the names of a block, on each server.
ServerShape(d, p) ==
    CASE d = "postgres" ->
            /\ p = <<p[1], <<p[2][1]>>>>
            /\ p[1] \in {"role", "database", "schema", "extension"}
      [] d = "mariadb" ->
            \/ p = <<"database", <<p[2][1]>>>>
            \/ /\ p = <<"user", <<p[2][1], p[2][2]>>>>
               /\ IsSeq(p[2][1]) /\ IsSeq(p[2][2])
      [] d = "ferret" ->
            /\ p = <<"collection", <<p[2][1], p[2][2]>>>>
            /\ IsSeq(p[2][1]) /\ IsSeq(p[2][2])
      [] d = "temporal" -> p = <<"namespace", <<p[2][1]>>>>
      [] OTHER -> TRUE

LEMMA TakesAll ==
  ASSUME NEW o, ItemShape(driver, o),
         NEW p \in DOMAIN objects, ServerShape(driver, p), Apart(driver, p),
         Matches(p, o)
  PROVE  p \in Taken(PruneOne(driver, o).obj)
<1> DEFINE q == PruneOne(driver, o).obj
<1>0. p = q \/ p \in Within(q) => p \in Taken(q)
  <2> HIDE DEF q
  <2>. QED  BY DEF Taken
<1>1. CASE driver = "postgres"
  <2>1. q = <<o[1], <<o[2]>>>>
    BY <1>1 DEF PruneOne, DropPostgres, Stmt
  <2>2. p = <<p[1], <<p[2][1]>>>> /\ p[1] = o[1] /\ p[2][1] = o[2]
    BY <1>1 DEF ServerShape, Matches, InventoryName
  <2>. QED  BY <2>1, <2>2, <1>0
<1>2. CASE driver = "mariadb"
  <2>1. q = IF o[1] = "user" THEN <<"user", CutLast(o[2], "@")>>
            ELSE <<"database", <<o[2]>>>>
    BY <1>2 DEF PruneOne, DropMaria, Simple, Stmt
  <2>2. CASE p = <<"database", <<p[2][1]>>>>
    <3>1. p[1] = "database" /\ o[1] = "database" /\ p[2][1] = o[2]
      BY <2>2 DEF Matches, InventoryName
    <3>. QED  BY <2>1, <2>2, <3>1, <1>0
  <2>3. CASE /\ p = <<"user", <<p[2][1], p[2][2]>>>>
             /\ IsSeq(p[2][1]) /\ IsSeq(p[2][2])
    <3>1. p[1] = "user" /\ o[1] = "user" /\ o[2] = Join(p[2][1], "@", p[2][2])
      BY <2>3 DEF Matches, InventoryName
    <3>2. "@" \notin Range(p[2][2])
      BY <1>2, <3>1 DEF Apart
    <3>3. CutLast(Join(p[2][1], "@", p[2][2]), "@") = <<p[2][1], p[2][2]>>
      BY <2>3, <3>2, CutLastOfJoin
    <3>. QED  BY <2>1, <2>3, <3>1, <3>3, <1>0
  <2>. QED  BY <1>2, <2>2, <2>3 DEF ServerShape
<1>3. CASE driver = "ferret"
  <2>1. q = IF o[1] = "collection" THEN <<"collection", CutFirst(o[2], ".")>>
            ELSE <<"database", <<o[2]>>>>
    BY <1>3 DEF PruneOne, DropFerret, Simple, Stmt
  <2>2. /\ p = <<"collection", <<p[2][1], p[2][2]>>>> /\ p[1] = "collection"
        /\ IsSeq(p[2][1]) /\ IsSeq(p[2][2]) /\ "." \notin Range(p[2][1])
    BY <1>3 DEF ServerShape, Apart
  <2>3. CASE o[1] = "collection" /\ InventoryName(p) = o[2]
    <3>1. o[2] = Join(p[2][1], ".", p[2][2])
      BY <2>2, <2>3 DEF InventoryName
    <3>2. CutFirst(Join(p[2][1], ".", p[2][2]), ".") = <<p[2][1], p[2][2]>>
      BY <2>2, CutFirstOfJoin
    <3>. QED  BY <2>1, <2>2, <2>3, <3>1, <3>2, <1>0
  <2>4. CASE o[1] = "database" /\ p[2][1] = o[2]
    <3>1. q = <<"database", <<o[2]>>>>
      BY <2>1, <2>4
    <3>2. p \in Within(q)
      BY <1>3, <2>2, <2>4, <3>1 DEF Within
    <3>. QED  BY <3>2, <1>0
  <2>. QED  BY <2>2, <2>3, <2>4 DEF Matches
<1>4. CASE driver = "temporal"
  <2>1. q = <<"namespace", <<o[2]>>>> /\ o[1] = "namespace"
    BY <1>4 DEF PruneOne, DeleteNamespace, Simple, Stmt, ItemShape
  <2>2. p = <<"namespace", <<p[2][1]>>>> /\ p[1] = "namespace" /\ p[2][1] = o[2]
    BY <1>4, <2>1 DEF ServerShape, Matches, InventoryName
  <2>. QED  BY <2>1, <2>2, <1>0
<1>. QED  BY <1>1, <1>2, <1>3, <1>4 DEF ItemShape

\* A converge creates what is declared, and what that is built on.
Expected(d, c, q) ==
    /\ ServerShape(d, q)
    /\ \A o : ItemShape(d, o) /\ Matches(q, o)
                => \/ o \in Range(Objects(d, c))
                   \/ d = "postgres" /\ Again(c, o)

Converges(d, c, st) == ~Prunes(st) /\ \A q \in Gains(st) : Expected(d, c, q)

LEMMA ConvergesPostgres ==
  ASSUME "postgres" \in Drivers, NEW c \in Configs("postgres")
  PROVE  /\ IsSeq(PostgresConverge(c))
         /\ \A st \in Range(PostgresConverge(c)) : Converges("postgres", c, st)
<1>1. PostgresShape(c) /\ Objects("postgres", c) = PostgresObjects(c)
  BY ShapeOf DEF Objects
<1>2. ASSUME NEW kind \in {"role", "database", "schema"}, NEW n,
             <<kind, n>> \in Range(PostgresObjects(c))
      PROVE  Expected("postgres", c, <<kind, <<n>>>>)
  <2> DEFINE q == <<kind, <<n>>>>
  <2>1. q[1] = kind /\ q[2][1] = n /\ q = <<q[1], <<q[2][1]>>>>
    OBVIOUS
  <2> HIDE DEF q
  <2>2. ServerShape("postgres", q)
    BY <2>1 DEF ServerShape
  <2>3. ASSUME NEW o, ItemShape("postgres", o), Matches(q, o)
        PROVE  o = <<kind, n>>
    BY <2>1, <2>3 DEF ItemShape, Matches, InventoryName
  <2>4. Expected("postgres", c, q)
    BY <1>1, <1>2, <2>2, <2>3 DEF Expected
  <2>. QED  BY <2>4 DEF q
<1>3. ASSUME NEW n, Again(c, <<"extension", n>>)
      PROVE  Expected("postgres", c, Extension(n))
  <2> DEFINE q == Extension(n)
  <2>1. q[1] = "extension" /\ q[2][1] = n /\ q = <<q[1], <<q[2][1]>>>>
    BY DEF Extension
  <2> HIDE DEF q
  <2>2. ServerShape("postgres", q)
    BY <2>1 DEF ServerShape
  <2>3. ASSUME NEW o, ItemShape("postgres", o), Matches(q, o)
        PROVE  o = <<"extension", n>>
    BY <2>1, <2>3 DEF ItemShape, Matches, InventoryName
  <2>4. Expected("postgres", c, q)
    BY <1>3, <2>2, <2>3 DEF Expected
  <2>. QED  BY <2>4 DEF q
<1>4. ASSUME NEW r \in Range(c.roles)
      PROVE  Converges("postgres", c, Simple("put", Role(r.name), r.password))
  <2>1. <<"role", r.name>> \in Range(PostgresObjects(c))
    BY <1>1, PostgresObjectsAre
  <2>2. Expected("postgres", c, Role(r.name))
    BY <1>2, <2>1 DEF Role
  <2>. QED  BY <2>2 DEF Converges, Gains, Creates, Prunes, Simple, Stmt
<1>5. Converges("postgres", c, PutDatabase(c))
  <2>1. <<"database", Inst>> \in Range(PostgresObjects(c))
    BY <1>1, PostgresObjectsAre
  <2>2. Expected("postgres", c, Database)
    BY <1>2, <2>1 DEF Database
  <2>. QED  BY <2>2 DEF Converges, Gains, Creates, Prunes, PutDatabase, Stmt
<1>6. ASSUME NEW s \in Range(c.schemas)
      PROVE  Converges("postgres", c, EnsureSchema(s))
  <2>1. <<"schema", s.name>> \in Range(PostgresObjects(c))
    BY <1>1, PostgresObjectsAre
  <2>2. Expected("postgres", c, Schema(s.name))
    BY <1>2, <2>1 DEF Schema
  <2>. QED  BY <2>2 DEF Converges, Gains, Creates, Prunes, EnsureSchema, Stmt
<1>7. ASSUME NEW e \in Range(c.extensions)
      PROVE  Converges("postgres", c, CreateExtension(e))
  <2> DEFINE st == CreateExtension(e)
             a == Alias(e.name)
  <2>1. /\ st.do = IF e.cascade THEN "install cascade" ELSE "install"
        /\ st.obj = Extension(a) /\ Extension(a)[2][1] = a
    BY DEF CreateExtension, Stmt, Extension
  <2> HIDE DEF st, a
  <2>2. Expected("postgres", c, Extension(a))
    <3>1. Again(c, <<"extension", a>>)
      BY DEF Again, a
    <3>. QED  BY <3>1, <1>3
  <2>3. ASSUME NEW b \in Range(Requires(a)), e.cascade
        PROVE  Expected("postgres", c, Extension(b))
    <3>1. Again(c, <<"extension", b>>)
      BY <2>3 DEF Again, a
    <3>. QED  BY <3>1, <1>3
  <2>4. Converges("postgres", c, st)
    BY <2>1, <2>2, <2>3 DEF Converges, Gains, Creates, Prunes, Bases
  <2>. QED  BY <2>4 DEF st
<1>8. ASSUME NEW g
      PROVE  Converges("postgres", c, Grant(g))
  BY DEF Converges, Gains, Creates, Prunes, Grant, Stmt
<1>9. ASSUME NEW st \in Range(PostgresConverge(c))
      PROVE  Converges("postgres", c, st)
  <2>1. \/ \E r \in Range(c.roles) : st = Simple("put", Role(r.name), r.password)
        \/ st = PutDatabase(c)
        \/ \E s \in Range(c.schemas) : st = EnsureSchema(s)
        \/ \E e \in Range(c.extensions) : st = CreateExtension(e)
        \/ \E g \in Range(c.grants) : st = Grant(g)
    BY <1>1, PostgresConvergeAre
  <2>2. CASE \E r \in Range(c.roles) : st = Simple("put", Role(r.name), r.password)
    BY <2>2, <1>4
  <2>3. CASE st = PutDatabase(c)
    BY <2>3, <1>5
  <2>4. CASE \E s \in Range(c.schemas) : st = EnsureSchema(s)
    BY <2>4, <1>6
  <2>5. CASE \E e \in Range(c.extensions) : st = CreateExtension(e)
    BY <2>5, <1>7
  <2>6. CASE \E g \in Range(c.grants) : st = Grant(g)
    BY <2>6, <1>8
  <2>. QED  BY <2>1, <2>2, <2>3, <2>4, <2>5, <2>6
<1>. QED  BY <1>1, <1>9, PostgresConvergeAre

LEMMA ConvergesMaria ==
  ASSUME "mariadb" \in Drivers, NEW c \in Configs("mariadb")
  PROVE  /\ IsSeq(MariaConverge(c))
         /\ \A st \in Range(MariaConverge(c)) : Converges("mariadb", c, st)
<1>1. MariaShape(c) /\ Objects("mariadb", c) = MariaObjects(c)
  BY ShapeOf DEF Objects
<1>2. Expected("mariadb", c, Database)
  <2>1. /\ Database = <<"database", <<Database[2][1]>>>> /\ Database[2][1] = Inst
        /\ Database[1] = "database"
    BY DEF Database
  <2>2. ServerShape("mariadb", Database)
    BY <2>1 DEF ServerShape
  <2>3. ASSUME NEW o, ItemShape("mariadb", o), Matches(Database, o)
        PROVE  o = <<"database", Inst>>
    BY <2>1, <2>3 DEF ItemShape, Matches, InventoryName
  <2>4. <<"database", Inst>> \in Range(MariaObjects(c))
    BY <1>1, MariaObjectsAre
  <2>. QED  BY <1>1, <2>2, <2>3, <2>4 DEF Expected
<1>3. ASSUME NEW u \in Range(c.users)
      PROVE  Expected("mariadb", c, User(u.name, u.host))
  <2> DEFINE q == User(u.name, u.host)
  <2>1. /\ q = <<"user", <<q[2][1], q[2][2]>>>> /\ q[1] = "user"
        /\ q[2][1] = u.name /\ q[2][2] = u.host
    BY DEF User
  <2> HIDE DEF q
  <2>2. ServerShape("mariadb", q)
    BY <1>1, <2>1 DEF ServerShape, MariaShape
  <2>3. ASSUME NEW o, ItemShape("mariadb", o), Matches(q, o)
        PROVE  o = <<"user", Account(u)>>
    BY <2>1, <2>3 DEF ItemShape, Matches, InventoryName, Account
  <2>4. <<"user", Account(u)>> \in Range(MariaObjects(c))
    BY <1>1, MariaObjectsAre
  <2>5. Expected("mariadb", c, q)
    BY <1>1, <2>2, <2>3, <2>4 DEF Expected
  <2>. QED  BY <2>5 DEF q
<1>4. ASSUME NEW u \in Range(c.users), NEW st \in Range(ConvergeUser(u))
      PROVE  Converges("mariadb", c, st)
  <2>1. \/ st = Simple("ensure", User(u.name, u.host), u.password)
        \/ st = Simple("alter", User(u.name, u.host), u.password)
    <3>1. Range(ConvergeUser(u))
            \subseteq {Simple("ensure", User(u.name, u.host), u.password),
                       Simple("alter", User(u.name, u.host), u.password)}
      BY ConvergeUserIs
    <3>. QED  BY <3>1
  <2> DEFINE q == User(u.name, u.host)
  <2>2. /\ ~Prunes(st) /\ Gains(st) \subseteq {q}
    <3>1. st = Simple("ensure", q, u.password) \/ st = Simple("alter", q, u.password)
      BY <2>1
    <3> HIDE DEF q
    <3>2. st.obj = q /\ st.do \in {"ensure", "alter"}
      BY <3>1 DEF Simple, Stmt
    <3>. QED  BY <3>2 DEF Gains, Creates, Prunes
  <2>. QED  BY <2>2, <1>3 DEF Converges
<1>5. Converges("mariadb", c, Simple("ensure", Database, NoName))
  BY <1>2 DEF Converges, Gains, Creates, Prunes, Simple, Stmt
<1>6. Converges("mariadb", c, Flush)
  BY DEF Converges, Gains, Creates, Prunes, Simple, Stmt, Flush
<1>7. \A g : Converges("mariadb", c, GrantUser(g))
  BY DEF Converges, Gains, Creates, Prunes, GrantUser, Stmt
<1>8. ASSUME NEW st \in Range(MariaConverge(c))
      PROVE  Converges("mariadb", c, st)
  <2>1. \/ st = Simple("ensure", Database, NoName) \/ st = Flush
        \/ \E u \in Range(c.users) : st \in Range(ConvergeUser(u))
        \/ \E g \in Range(c.grants) : st = GrantUser(g)
    BY <1>1, MariaConvergeAre
  <2>. QED  BY <2>1, <1>4, <1>5, <1>6, <1>7
<1>. QED  BY <1>1, <1>8, MariaConvergeAre

LEMMA ConvergesFerret ==
  ASSUME "ferret" \in Drivers, NEW c \in Configs("ferret")
  PROVE  /\ IsSeq(FerretConverge(c))
         /\ \A st \in Range(FerretConverge(c)) : Converges("ferret", c, st)
<1>1. FerretShape(c) /\ Objects("ferret", c) = FerretObjects(c)
  BY ShapeOf DEF Objects
<1>2. ASSUME NEW db \in Range(c.databases), NEW coll \in Range(db.collections)
      PROVE  Converges("ferret", c, EnsureCollection(db, coll))
  <2> DEFINE q == <<"collection", <<db.name, coll.name>>>>
  <2>1. /\ q = <<"collection", <<q[2][1], q[2][2]>>>> /\ q[1] = "collection"
        /\ q[2][1] = db.name /\ q[2][2] = coll.name
    OBVIOUS
  <2>2. Gains(EnsureCollection(db, coll)) = {q} /\ ~Prunes(EnsureCollection(db, coll))
    BY DEF Gains, Creates, Prunes, EnsureCollection, Simple, Stmt
  <2> HIDE DEF q
  <2>3. ServerShape("ferret", q)
    BY <1>1, <2>1 DEF ServerShape, FerretShape
  <2>4. ASSUME NEW o, ItemShape("ferret", o), Matches(q, o)
        PROVE  \/ o = <<"database", db.name>>
               \/ o = <<"collection", Join(db.name, ".", coll.name)>>
    BY <2>1, <2>4 DEF ItemShape, Matches, InventoryName
  <2>5. /\ <<"database", db.name>> \in Range(FerretObjects(c))
        /\ <<"collection", Join(db.name, ".", coll.name)>> \in Range(FerretObjects(c))
    BY <1>1, FerretObjectsAre
  <2>6. Expected("ferret", c, q)
    BY <1>1, <2>3, <2>4, <2>5 DEF Expected
  <2>. QED  BY <2>2, <2>6 DEF Converges
<1>. QED  BY <1>1, <1>2, FerretConvergeAre

LEMMA ConvergesTemporal ==
  ASSUME "temporal" \in Drivers, NEW c \in Configs("temporal")
  PROVE  /\ IsSeq(TemporalConverge(c))
         /\ \A st \in Range(TemporalConverge(c)) : Converges("temporal", c, st)
<1>1. TemporalShape(c) /\ Objects("temporal", c) = Listed("namespace", c.namespaces)
  BY ShapeOf DEF Objects
<1>2. ASSUME NEW n \in Range(c.namespaces)
      PROVE  Converges("temporal", c, Upsert(n))
  <2> DEFINE q == <<"namespace", <<n.name>>>>
  <2>1. q = <<"namespace", <<q[2][1]>>>> /\ q[1] = "namespace" /\ q[2][1] = n.name
    OBVIOUS
  <2>2. Gains(Upsert(n)) = {q} /\ ~Prunes(Upsert(n))
    BY DEF Gains, Creates, Prunes, Upsert, Simple, Stmt
  <2> HIDE DEF q
  <2>3. ServerShape("temporal", q)
    BY <2>1 DEF ServerShape
  <2>4. ASSUME NEW o, ItemShape("temporal", o), Matches(q, o)
        PROVE  o = <<"namespace", n.name>>
    BY <2>1, <2>4 DEF ItemShape, Matches, InventoryName
  <2>5. <<"namespace", n.name>> \in Range(Objects("temporal", c))
    BY <1>1, TemporalObjectsAre
  <2>6. Expected("temporal", c, q)
    BY <2>3, <2>4, <2>5 DEF Expected
  <2>. QED  BY <2>2, <2>6 DEF Converges
<1>. QED  BY <1>1, <1>2, TemporalConvergeAre

LEMMA ConvergesAll ==
  ASSUME NEW d \in Drivers, NEW c \in Configs(d)
  PROVE  /\ IsSeq(Converge(d, c))
         /\ \A st \in Range(Converge(d, c)) : Converges(d, c, st)
<1>1. CASE d = "postgres"
  BY <1>1, ConvergesPostgres DEF Converge
<1>2. CASE d = "mariadb"
  BY <1>2, ConvergesMaria DEF Converge
<1>3. CASE d = "ferret"
  BY <1>3, ConvergesFerret DEF Converge
<1>4. CASE d = "temporal"
  BY <1>4, ConvergesTemporal DEF Converge
<1>5. CASE d \in {"kafka", "aws", "valkey", "kvrocks"}
  <2>1. \A q : Expected(d, c, q)
    BY <1>5 DEF Expected, ServerShape, ItemShape
  <2>2. CASE d = "kafka"
    <3>1. \A st \in Range(KafkaConverge(c)) : ~Prunes(st)
      <4>1. \A n : ~Prunes(EnsureTopic(n))
        BY DEF EnsureTopic, Prunes, Simple, Stmt
      <4>. QED  BY <4>1, <2>2, ShapeOf, KafkaConvergeAre
    <3>. QED  BY <2>1, <2>2, <3>1, ShapeOf, KafkaConvergeAre DEF Converge, Converges
  <2>3. CASE d = "aws"
    <3>1. \A k, n, b : ~Prunes(Resource(k, n, b))
      BY DEF Resource, Prunes, Simple, Stmt
    <3>2. IsSeq(AwsConverge(c)) /\ \A st \in Range(AwsConverge(c)) : ~Prunes(st)
      BY <3>1, <2>3, ShapeOf, AwsConvergeAre
    <3>. QED  BY <2>1, <2>3, <3>2 DEF Converge, Converges
  <2>4. CASE d \in {"valkey", "kvrocks"}
    BY <2>4, NoSeq DEF Converge
  <2>. QED  BY <1>5, <2>2, <2>3, <2>4
<1>. QED  BY <1>1, <1>2, <1>3, <1>4, <1>5, BodiesAssumption DEF DriverNames

LEMMA OnlyPostgresInstalls ==
  ASSUME TypeOK, driver \in {"mariadb", "ferret"},
         NEW st \in Range(Converge(driver, config))
  PROVE  st.do # "install cascade"
<1>1. config \in Configs(driver) /\ driver \in Drivers
  BY DEF TypeOK, Configs
<1>2. CASE driver = "mariadb"
  <2>1. \/ st = Simple("ensure", Database, NoName) \/ st = Flush
        \/ \E u \in Range(config.users) : st \in Range(ConvergeUser(u))
        \/ \E g \in Range(config.grants) : st = GrantUser(g)
    BY <1>1, <1>2, ShapeOf, MariaConvergeAre DEF Converge
  <2>2. ASSUME NEW u, st \in Range(ConvergeUser(u))
        PROVE  st.do \in {"ensure", "alter"}
    <3>1. st \in {Simple("ensure", User(u.name, u.host), u.password)}
                   \cup (IF u.password = NoName THEN {}
                         ELSE {Simple("alter", User(u.name, u.host), u.password)})
      BY <2>2, ConvergeUserIs
    <3>. QED  BY <3>1 DEF Simple, Stmt
  <2>3. st.do \in {"ensure", "alter", "grant", "flush"}
    BY <2>1, <2>2 DEF Flush, GrantUser, Simple, Stmt
  <2>. QED  BY <2>3, Zenon
<1>3. CASE driver = "ferret"
  <2>1. \E db \in Range(config.databases) : \E coll \in Range(db.collections) :
           st = EnsureCollection(db, coll)
    BY <1>1, <1>3, ShapeOf, FerretConvergeAre DEF Converge
  <2>. QED  BY <2>1 DEF EnsureCollection, Simple, Stmt
<1>. QED  BY <1>2, <1>3

\* What a converge got through without a refusal is named well.
LEMMA SentIsNamed ==
  ASSUME TypeOK, \A st \in Range(Converge(driver, config)) : ~Malformed(st)
  PROVE  WellNamed(driver, config)
<1>1. config \in Configs(driver) /\ driver \in Drivers
  BY DEF TypeOK, Configs
<1>2. \A st \in Range(Converge(driver, config)) : ~Misnamed(st.obj)
  BY DEF Malformed
<1>3. ASSUME driver = "postgres", NEW e \in Range(config.extensions)
      PROVE  e.name # NoName
  <2>1. CreateExtension(e) \in Range(Converge(driver, config))
    BY <1>1, <1>3, ShapeOf, PostgresConvergeAre DEF Converge
  <2>2. CreateExtension(e).obj = <<"extension", <<Alias(e.name)>>>>
    BY DEF CreateExtension, Stmt, Extension
  <2>3. NoName \notin Range(<<Alias(e.name)>>)
    BY <1>2, <2>1, <2>2 DEF Misnamed
  <2>4. Alias(e.name) # NoName
    BY <2>3, SingleSeq
  <2>5. Alias(NoName) = NoName
    BY DEF Alias, NoName
  <2>. QED  BY <2>4, <2>5
<1>4. ASSUME driver = "mariadb", NEW u \in Range(config.users)
      PROVE  "@" \notin Range(u.host)
  <2> DEFINE st == Simple("ensure", User(u.name, u.host), u.password)
  <2>1. st \in Range(ConvergeUser(u))
    BY ConvergeUserIs
  <2>2. st.obj = <<"user", <<u.name, u.host>>>>
    BY DEF Simple, Stmt, User
  <2> HIDE DEF st
  <2>3. st \in Range(Converge(driver, config))
    BY <1>1, <1>4, <2>1, ShapeOf, MariaConvergeAre DEF Converge
  <2>. QED  BY <1>2, <1>4, <2>2, <2>3 DEF Misnamed
<1>5. ASSUME driver = "ferret", NEW db \in Range(config.databases),
             NEW coll \in Range(db.collections)
      PROVE  "." \notin Range(db.name)
  <2> DEFINE st == EnsureCollection(db, coll)
  <2>1. st.obj = <<"collection", <<db.name, coll.name>>>>
    BY DEF EnsureCollection, Simple, Stmt
  <2> HIDE DEF st
  <2>2. st \in Range(Converge(driver, config))
    BY <1>1, <1>5, ShapeOf, FerretConvergeAre DEF Converge, st
  <2>. QED  BY <1>2, <1>5, <2>1, <2>2 DEF Misnamed
<1>. QED  BY <1>3, <1>4, <1>5 DEF WellNamed
-----------------------------------------------------------------------------
(* What a pass sends, and what becomes of the items it prunes.             *)

Running == outcome = "running"

Shapes ==
    /\ \A p \in DOMAIN objects : ServerShape(driver, p) /\ Apart(driver, p)
    /\ IsSeq(record) /\ \A o \in Range(record) : ItemShape(driver, o)

\* Where each statement of a pass is from
Known(d, c, m, gone, st) ==
    \/ \E o \in Range(gone) : st = PruneOne(d, o)
    \/ m # "destroy" /\ st \in Range(Converge(d, c))

Planned(d, c, m, gone, stmts) ==
    /\ IsSeq(stmts) /\ IsSeq(gone)
    /\ m # "none"
    /\ m = "boot" => gone = <<>>
    /\ m \in {"prune first", "converge first"} =>
           Range(gone) \cap Range(Objects(d, c)) = {}
    /\ \A o \in Range(gone) : ItemShape(d, o)
    /\ \A st \in Range(stmts) : Known(d, c, m, gone, st)

Sent == Running => Planned(driver, config, mode, removed, todo)

\* What is malformed is not behind the pass.
Unsent ==
    Running /\ mode # "destroy" =>
        \A st \in Range(Converge(driver, config)) :
            Malformed(st) => st \in Range(todo)

Pruned ==
    outcome \in {"running", "ok"} /\ mode \in Passes =>
        \A o \in Range(removed) :
            \/ Left(o) = {}
            \/ InstalledAgain(o)
            \/ Running /\ PruneOne(driver, o) \in Range(todo)

LEMMA UndeclaredIs ==
  ASSUME TypeOK, Shapes
  PROVE  /\ IsSeq(Undeclared)
         /\ Range(Undeclared) \cap Range(Objects(driver, config)) = {}
         /\ \A o \in Range(Undeclared) : ItemShape(driver, o)
<1> DEFINE t == Undeclared
           D == Range(Objects(driver, config))
<1>1. t = Without(record, D)
  BY DEF Undeclared
<1>2. IsSeq(record) /\ \A o \in Range(record) : ItemShape(driver, o)
  BY DEF Shapes
<1> HIDE DEF t, D
<1>3. Rest(t, record, D, Len(record))
  BY <1>1, <1>2, WithoutIs
<1>4. \A i \in 1 .. Len(record) : record[i] \in Range(record)
  BY <1>2, SeqFacts
<1>5. IsSeq(t) /\ \A o \in Range(t) : o \notin D /\ o \in Range(record)
  BY <1>3, <1>4 DEF Rest
<1>. QED  BY <1>2, <1>5 DEF t, D

LEMMA PlanBoot ==
  ASSUME TypeOK
  PROVE  Planned(driver, config, "boot", <<>>, Converge(driver, config))
<1>1. config \in Configs(driver) /\ driver \in Drivers
  BY DEF TypeOK, Configs
<1>. QED  BY <1>1, ConvergesAll, NoSeq DEF Planned, Known

LEMMA PlanApply ==
  ASSUME TypeOK, Shapes, NEW m \in {"prune first", "converge first"},
         NEW stmts,
         \/ stmts = Prune(driver, Undeclared) \o Converge(driver, config)
         \/ stmts = Converge(driver, config) \o Prune(driver, Undeclared)
  PROVE  /\ Planned(driver, config, m, Undeclared, stmts)
         /\ \A o \in Range(Undeclared) : PruneOne(driver, o) \in Range(stmts)
<1> DEFINE P == Prune(driver, Undeclared)
           C == Converge(driver, config)
<1>1. config \in Configs(driver) /\ driver \in Drivers /\ driver \in DriverNames
  BY BodiesAssumption DEF TypeOK, Configs
<1>2. /\ IsSeq(Undeclared)
      /\ Range(Undeclared) \cap Range(Objects(driver, config)) = {}
      /\ \A o \in Range(Undeclared) : ItemShape(driver, o)
  BY UndeclaredIs
<1>3. IsSeq(P) /\ Range(P) = {PruneOne(driver, o) : o \in Range(Undeclared)}
  BY <1>1, <1>2, PruneList
<1>4. IsSeq(C)
  BY <1>1, ConvergesAll
<1> HIDE DEF P, C
<1>5. IsSeq(stmts) /\ Range(stmts) = Range(P) \cup Range(C)
  <2>1. stmts = P \o C \/ stmts = C \o P
    BY DEF P, C
  <2>2. IsSeq(P \o C) /\ Range(P \o C) = Range(P) \cup Range(C)
    BY <1>3, <1>4, Concat
  <2>3. IsSeq(C \o P) /\ Range(C \o P) = Range(C) \cup Range(P)
    BY <1>3, <1>4, Concat
  <2>. QED  BY <2>1, <2>2, <2>3
<1>6. \A st \in Range(stmts) : Known(driver, config, m, Undeclared, st)
  BY <1>3, <1>5 DEF Known, C
<1>. QED  BY <1>2, <1>3, <1>5, <1>6 DEF Planned

LEMMA PlanDestroy ==
  ASSUME TypeOK, Shapes
  PROVE  /\ Planned(driver, config, "destroy", Reverse(record),
                    Prune(driver, Reverse(record)))
         /\ \A o \in Range(Reverse(record)) :
                PruneOne(driver, o) \in Range(Prune(driver, Reverse(record)))
<1> DEFINE R == Reverse(record)
<1>1. driver \in DriverNames
  BY BodiesAssumption DEF TypeOK
<1>2. IsSeq(R) /\ \A o \in Range(R) : ItemShape(driver, o)
  BY ReverseIs DEF Shapes
<1> HIDE DEF R
<1>3. /\ IsSeq(Prune(driver, R))
      /\ Range(Prune(driver, R)) = {PruneOne(driver, o) : o \in Range(R)}
  BY <1>1, <1>2, PruneList
<1>4. \A st \in Range(Prune(driver, R)) : Known(driver, config, "destroy", R, st)
  BY <1>3 DEF Known
<1>. QED  BY <1>2, <1>3, <1>4 DEF Planned, R

\* A statement of a pass either prunes one of its items or converges.
LEMMA EachKnown ==
  ASSUME TypeOK, Sent, Running, NEW st \in Range(todo)
  PROVE  \/ \E o \in Range(removed) : /\ ItemShape(driver, o)
                                      /\ st = PruneOne(driver, o) /\ Prunes(st)
         \/ /\ Converges(driver, config, st)
            /\ mode # "destroy" /\ st \in Range(Converge(driver, config))
<1>1. config \in Configs(driver) /\ driver \in Drivers
  BY DEF TypeOK, Configs
<1>2. /\ Known(driver, config, mode, removed, st)
      /\ \A o \in Range(removed) : ItemShape(driver, o)
  BY DEF Sent, Planned
<1>3. CASE \E o \in Range(removed) : st = PruneOne(driver, o)
  <2>1. PICK o \in Range(removed) : st = PruneOne(driver, o)
    BY <1>3
  <2>2. Prunes(st)
    BY <1>2, <2>1, PruneOneIs
  <2>. QED  BY <1>2, <2>1, <2>2
<1>4. CASE mode # "destroy" /\ st \in Range(Converge(driver, config))
  BY <1>1, <1>4, ConvergesAll
<1>. QED  BY <1>2, <1>3, <1>4 DEF Known

LEMMA SendingIs ==
  ASSUME Sending, Sent
  PROVE  /\ Running /\ IsSeq(todo) /\ todo # <<>> /\ Head(todo) \in Range(todo)
         /\ IsSeq(Tail(todo)) /\ Range(todo) = {Head(todo)} \cup Range(Tail(todo))
BY HeadAndTail DEF Sending, Sent, Planned, Running

\* A pass that converges has all of Converge still to come.
LEMMA PlanHolds ==
  ASSUME TypeOK, Shapes, NEW stmts,
         \/ stmts = Converge(driver, config)
         \/ stmts = Prune(driver, Undeclared) \o Converge(driver, config)
         \/ stmts = Converge(driver, config) \o Prune(driver, Undeclared)
  PROVE  Range(Converge(driver, config)) \subseteq Range(stmts)
<1> DEFINE P == Prune(driver, Undeclared)
           C == Converge(driver, config)
<1>1. config \in Configs(driver) /\ driver \in Drivers /\ driver \in DriverNames
  BY BodiesAssumption DEF TypeOK, Configs
<1>2. IsSeq(P)
  BY <1>1, UndeclaredIs, PruneList
<1>3. IsSeq(C)
  BY <1>1, ConvergesAll
<1>4. stmts = C \/ stmts = P \o C \/ stmts = C \o P
  OBVIOUS
<1> HIDE DEF P, C
<1>5. Range(C) \subseteq Range(P \o C) /\ Range(C) \subseteq Range(C \o P)
  BY <1>2, <1>3, Concat
<1>. QED  BY <1>4, <1>5 DEF C

LEMMA GainsApart ==
  ASSUME TypeOK, Sent, Running, NEW st \in Range(todo), ~Prunes(st), ~Malformed(st),
         NEW q \in Gains(st)
  PROVE  Apart(driver, q)
<1>1. st \in Range(Converge(driver, config))
  BY EachKnown
<1>2. CASE q = st.obj
  <2>1. ~Misnamed(q)
    BY <1>2 DEF Malformed
  <2>. QED  BY <2>1 DEF Misnamed, Apart
<1>3. CASE q # st.obj
  <2>1. st.do = "install cascade"
    BY <1>3 DEF Gains
  <2>2. driver \notin {"mariadb", "ferret"}
    BY <1>1, <2>1, OnlyPostgresInstalls
  <2>. QED  BY <2>2 DEF Apart
<1>. QED  BY <1>2, <1>3

LEMMA UnsentNext == TypeOK /\ Shapes /\ Sent /\ Unsent /\ [Next]_vars => Unsent'
<1> SUFFICES ASSUME TypeOK, Shapes, Sent, Unsent, [Next]_vars,
                    Running', mode' # "destroy",
                    NEW st \in Range(Converge(driver', config')), Malformed(st)'
             PROVE  st \in Range(todo')
  BY DEF Unsent
<1>1. CASE Edit \/ BootFails \/ Destroy \/ Refuse \/ Lose \/ Misread \/ Finish
  BY <1>1 DEF Edit, BootFails, Destroy, Begin, Refuse, Lose, Misread, Finish,
              Fails, Running, Reasons
<1>2. CASE Boot \/ ApplyPruneFirst \/ ApplyConvergeFirst
  <2>1. /\ UNCHANGED <<driver, config>>
        /\ \/ todo' = Converge(driver, config)
           \/ todo' = Prune(driver, Undeclared) \o Converge(driver, config)
           \/ todo' = Converge(driver, config) \o Prune(driver, Undeclared)
    BY <1>2 DEF Boot, ApplyPruneFirst, ApplyConvergeFirst, Begin
  <2>. QED  BY <2>1, PlanHolds
<1>3. CASE Execute
  <2>1. /\ UNCHANGED <<driver, config, mode>> /\ todo' = Tail(todo) /\ Sending
        /\ ~Refused(Head(todo), "malformed")
    BY <1>3 DEF Execute, Reasons
  <2>2. Running /\ Range(todo) = {Head(todo)} \cup Range(Tail(todo))
    BY <2>1, SendingIs
  <2>3. ~Malformed(Head(todo))
    BY <2>1 DEF Refused, Malformed
  <2>4. Malformed(st)
    BY <2>1 DEF Malformed, Misnamed
  <2>5. st \in Range(todo)
    BY <2>1, <2>2, <2>4 DEF Unsent
  <2>. QED  BY <2>1, <2>2, <2>3, <2>4, <2>5
<1>4. CASE UNCHANGED vars
  <2>1. UNCHANGED <<driver, config, mode, outcome, todo>>
    BY <1>4 DEF vars
  <2>2. Malformed(st)
    BY <2>1 DEF Malformed, Misnamed
  <2>. QED  BY <2>1, <2>2 DEF Unsent, Running
<1>. QED  BY <1>1, <1>2, <1>3, <1>4 DEF Next

LEMMA ShapesNext == TypeOK /\ Shapes /\ Sent /\ Unsent /\ [Next]_vars => Shapes'
<1> SUFFICES ASSUME TypeOK, Shapes, Sent, Unsent, [Next]_vars
             PROVE  Shapes'
  OBVIOUS
<1>1. config \in Configs(driver) /\ driver \in Drivers
  BY DEF TypeOK, Configs
<1>2. ASSUME Sending, Does(Head(todo)), UNCHANGED <<driver, record>>,
             ~Refused(Head(todo), "malformed")
      PROVE  Shapes'
  <2> DEFINE st == Head(todo)
  <2>1. Running /\ st \in Range(todo)
    BY <1>2, SendingIs
  <2> HIDE DEF st
  <2>2. CASE Prunes(st)
    <3>1. DOMAIN objects' \subseteq DOMAIN objects
      BY <1>2, <2>2, DoesPrune, DropShrinks DEF st
    <3>. QED  BY <1>2, <3>1 DEF Shapes
  <2>3. CASE ~Prunes(st)
    <3>1. Converges(driver, config, st)
      BY <2>1, <2>3, EachKnown
    <3>2. DOMAIN objects' \subseteq DOMAIN objects \cup Gains(st)
      BY <1>2, <2>3, DoesGrow DEF st
    <3>3. \A q \in Gains(st) : ServerShape(driver, q)
      BY <3>1 DEF Converges, Expected
    <3>4. ~Malformed(st)
      BY <1>2 DEF Refused, Malformed, st
    <3>5. \A q \in Gains(st) : Apart(driver, q)
      BY <2>1, <2>3, <3>4, GainsApart
    <3>. QED  BY <1>2, <3>2, <3>3, <3>5 DEF Shapes
  <2>. QED  BY <2>2, <2>3
<1>3. CASE UNCHANGED <<driver, record, objects>>
  BY <1>3 DEF Shapes
<1>4. CASE Edit \/ Boot \/ BootFails \/ ApplyPruneFirst \/ ApplyConvergeFirst
             \/ Destroy \/ Refuse \/ Misread \/ UNCHANGED vars
  BY <1>3, <1>4 DEF Edit, Boot, BootFails, ApplyPruneFirst, ApplyConvergeFirst,
                    Destroy, Refuse, Misread, Fails, server, vars
<1>5. CASE Execute
  BY <1>2, <1>5 DEF Execute, Reasons
<1>6. CASE Lose
  BY <1>2, <1>3, <1>6 DEF Lose, Fails, server, Reasons
<1>7. CASE Finish
  <2>1. /\ UNCHANGED <<driver, objects>>
        /\ \/ record' \in {record, <<>>}
           \/ record' = Objects(driver, config) /\ mode # "destroy"
    BY <1>7 DEF Finish, server
  <2>3. ASSUME mode # "destroy"
        PROVE  WellNamed(driver, config)
    <3>1. Running /\ Range(todo) = {}
      BY <1>7, NoSeq DEF Finish, Running
    <3>2. \A st \in Range(Converge(driver, config)) : ~Malformed(st)
      BY <2>3, <3>1 DEF Unsent
    <3>. QED  BY <3>2, SentIsNamed
  <2>2. IsSeq(record') /\ \A o \in Range(record') : ItemShape(driver, o)
    BY <1>1, <2>1, <2>3, ItemsOf, NoSeq DEF Shapes
  <2>. QED  BY <2>1, <2>2 DEF Shapes
<1>. QED  BY <1>4, <1>5, <1>6, <1>7 DEF Next

LEMMA SentNext == TypeOK /\ Shapes /\ Sent /\ [Next]_vars => Sent'
<1> SUFFICES ASSUME TypeOK, Shapes, Sent, [Next]_vars, Running'
             PROVE  Planned(driver', config', mode', removed', todo')
  BY DEF Sent
<1>1. CASE Edit \/ BootFails \/ Refuse \/ Lose \/ Misread \/ Finish
  BY <1>1 DEF Edit, BootFails, Refuse, Lose, Misread, Finish, Fails, Running,
              Reasons
<1>2. CASE Boot
  BY <1>2, PlanBoot DEF Boot, Begin
<1>3. CASE ApplyPruneFirst
  BY <1>3, PlanApply DEF ApplyPruneFirst, Begin
<1>4. CASE ApplyConvergeFirst
  BY <1>4, PlanApply DEF ApplyConvergeFirst, Begin
<1>5. CASE Destroy
  BY <1>5, PlanDestroy DEF Destroy, Begin
<1>6. CASE Execute
  <2>1. IsSeq(Tail(todo)) /\ Range(Tail(todo)) \subseteq Range(todo) /\ Running
    BY <1>6, SendingIs DEF Execute
  <2>2. /\ todo' = Tail(todo)
        /\ UNCHANGED <<driver, config, mode, removed>>
    BY <1>6 DEF Execute
  <2>. QED  BY <2>1, <2>2 DEF Sent, Planned
<1>7. CASE UNCHANGED vars
  BY <1>7 DEF vars, Sent, Running
<1>. QED  BY <1>1, <1>2, <1>3, <1>4, <1>5, <1>6, <1>7 DEF Next

\* What one statement leaves of an item, in a pass that prunes it.
LEMMA LeftAfter ==
  ASSUME TypeOK, Shapes, Sent, Sending, Does(Head(todo)),
         driver' = driver, config' = config,
         mode \in Passes, NEW o \in Range(removed),
         \/ Left(o) = {}
         \/ PruneOne(driver, o) = Head(todo)
  PROVE  Left(o)' = {} \/ InstalledAgain(o)
<1> DEFINE st == Head(todo)
<1>1. Running /\ st \in Range(todo) /\ Does(st)
  BY SendingIs
<1>2. ItemShape(driver, o)
  BY <1>1 DEF Sent, Planned
<1>3. /\ Left(o) = {p \in DOMAIN objects : Matches(p, o)}
      /\ Left(o)' = {p \in DOMAIN objects' : Matches(p, o)}
  BY DEF Left, Matches, InventoryName
<1> HIDE DEF st
<1>4. CASE Prunes(st)
  <2>1. DOMAIN objects' = DOMAIN objects \ Taken(st.obj)
    BY <1>1, <1>4, DoesPrune, DropShrinks
  <2>2. CASE Left(o) = {}
    BY <1>3, <2>1, <2>2
  <2>3. CASE PruneOne(driver, o) = st
    <3>1. \A p \in DOMAIN objects : Matches(p, o) => p \in Taken(st.obj)
      BY <1>2, <2>3, TakesAll DEF Shapes
    <3>. QED  BY <1>3, <2>1, <3>1
  <2>. QED  BY <2>2, <2>3 DEF st
<1>5. CASE ~Prunes(st)
  <2>1. Converges(driver, config, st) /\ mode # "destroy"
    BY <1>1, <1>5, EachKnown
  <2>2. o \notin Range(Objects(driver, config))
    <3>1. mode \in {"prune first", "converge first"}
      BY <2>1 DEF Passes
    <3>. QED  BY <1>1, <3>1 DEF Sent, Planned
  <2>3. DOMAIN objects' \subseteq DOMAIN objects \cup Gains(st)
    BY <1>1, <1>5, DoesGrow
  <2>4. Left(o) = {}
    <3>1. PruneOne(driver, o) # st
      BY <1>2, <1>5, PruneOneIs
    <3>. QED  BY <3>1 DEF st
  <2>5. \A q \in Gains(st) : Matches(q, o) => Again(config, o)
    BY <1>2, <2>1, <2>2 DEF Converges, Expected
  <2>. QED  BY <1>3, <2>3, <2>4, <2>5 DEF Again, InstalledAgain
<1>. QED  BY <1>4, <1>5

LEMMA PrunedNext == TypeOK /\ Shapes /\ Sent /\ Pruned /\ [Next]_vars => Pruned'
<1> SUFFICES ASSUME TypeOK, Shapes, Sent, Pruned, [Next]_vars,
                    outcome' \in {"running", "ok"}, mode' \in Passes,
                    NEW o \in Range(removed')
             PROVE  \/ Left(o)' = {}
                    \/ InstalledAgain(o)'
                    \/ Running' /\ PruneOne(driver', o) \in Range(todo')
  BY DEF Pruned
<1>1. CASE Edit \/ Boot \/ BootFails \/ Refuse \/ Lose \/ Misread
  BY <1>1 DEF Edit, Boot, Begin, BootFails, Refuse, Lose, Misread, Fails, Passes,
              Reasons
<1>2. CASE ApplyPruneFirst
  BY <1>2, PlanApply DEF ApplyPruneFirst, Begin, Running
<1>3. CASE ApplyConvergeFirst
  BY <1>3, PlanApply DEF ApplyConvergeFirst, Begin, Running
<1>4. CASE Destroy
  BY <1>4, PlanDestroy DEF Destroy, Begin, Running
<1>5. CASE Execute
  <2>1. /\ Sending /\ Does(Head(todo)) /\ todo' = Tail(todo)
        /\ UNCHANGED <<driver, config, mode, removed, outcome>>
    BY <1>5 DEF Execute
  <2>2. /\ Running /\ Running'
        /\ Range(todo) = {Head(todo)} \cup Range(Tail(todo))
    BY <2>1, SendingIs DEF Running
  <2>3. \/ Left(o) = {} \/ InstalledAgain(o)
        \/ PruneOne(driver, o) \in Range(todo)
    BY <2>1, <2>2 DEF Pruned
  <2>4. InstalledAgain(o)' <=> InstalledAgain(o)
    BY <2>1 DEF InstalledAgain
  <2>5. CASE Left(o) = {} \/ PruneOne(driver, o) = Head(todo)
    BY <2>1, <2>4, <2>5, LeftAfter
  <2>6. CASE InstalledAgain(o)
    BY <2>4, <2>6
  <2>7. CASE PruneOne(driver, o) \in Range(Tail(todo))
    BY <2>1, <2>2, <2>7
  <2>. QED  BY <2>2, <2>3, <2>5, <2>6, <2>7
<1>6. CASE Finish
  <2>1. /\ Running /\ todo = <<>>
        /\ UNCHANGED <<driver, config, objects, mode, removed>>
    BY <1>6 DEF Finish, Running, server
  <2>2. Left(o) = {} \/ InstalledAgain(o)
    BY <2>1, NoSeq DEF Pruned, Running
  <2>. QED  BY <2>1, <2>2 DEF Left, InstalledAgain, InventoryName
<1>7. CASE UNCHANGED vars
  <2>1. /\ outcome \in {"running", "ok"} /\ mode \in Passes
        /\ o \in Range(removed)
    BY <1>7 DEF vars
  <2>2. \/ Left(o) = {} \/ InstalledAgain(o)
        \/ Running /\ PruneOne(driver, o) \in Range(todo)
    BY <2>1 DEF Pruned
  <2>. QED  BY <1>7, <2>2 DEF vars, server, Left, InstalledAgain, InventoryName,
                               Running
<1>. QED  BY <1>1, <1>2, <1>3, <1>4, <1>5, <1>6, <1>7 DEF Next

LEMMA PrunedInit == Init => Shapes /\ Sent /\ Unsent /\ Pruned
<1> SUFFICES ASSUME Init
             PROVE  Shapes /\ Sent /\ Unsent /\ Pruned
  OBVIOUS
<1>1. objects = <<>> /\ record = <<>> /\ outcome = "none"
  BY DEF Init
<1>2. Shapes
  BY <1>1, NoSeq DEF Shapes
<1>. QED  BY <1>1, <1>2 DEF Sent, Unsent, Pruned, Running

LEMMA PassesCorrect == Spec => [](TypeOK /\ Shapes /\ Sent /\ Unsent /\ Pruned)
BY TypeOKInit, TypeOKNext, PrunedInit, ShapesNext, SentNext, UnsentNext,
   PrunedNext, PTL
   DEF Spec

LEMMA PrunedIsPrunedIsGone == Pruned => PrunedIsGone
BY DEF Pruned, PrunedIsGone, Running

(* After an apply or a destroy that succeeded, in either order, nothing    *)
(* is left of what Prune had to remove, however long the lists and         *)
(* whatever the names: Prune cuts an account at its last "@" and a         *)
(* collection at its first ".", which is where Objects joined them; and    *)
(* what Converge creates is in Objects, but for two kinds of extension.    *)
THEOREM PruningWorks == Spec => []PrunedIsGone
BY PassesCorrect, PrunedIsPrunedIsGone, PTL
-----------------------------------------------------------------------------
(* What is declared: some statement of a converge sees to each of it, no   *)
(* other one sets a different value, and no prune takes it away.           *)

Covers(st, x) ==
    /\ st.obj = x[1]
    /\ \/ x[2] = NoName /\ Creates(st)
       \/ x[2] # NoName /\ x[2] = st.val /\ Sets(st)

Agrees(st, x) == Sets(st) /\ st.obj = x[1] => x[2] \in {NoName, st.val}

LEMMA DeclaredPostgres ==
  ASSUME TypeOK, driver = "postgres", NEW x \in Declared
  PROVE  /\ \E st \in Range(Converge(driver, config)) : Covers(st, x)
         /\ \A st \in Range(Converge(driver, config)) : Agrees(st, x)
         /\ x[1][1] # "extension" =>
               /\ <<x[1][1], x[1][2][1]>> \in Range(Objects(driver, config))
               /\ x[1][1] \in {"role", "database", "schema"}
<1>1. config \in Configs(driver) /\ driver \in Drivers
  BY DEF TypeOK, Configs
<1>2. /\ PostgresShape(config) /\ Objects(driver, config) = PostgresObjects(config)
      /\ Converge(driver, config) = PostgresConverge(config)
  BY <1>1, ShapeOf DEF Objects, Converge
<1>3. \/ \E r \in Range(config.roles) : x = <<Role(r.name), r.password>>
      \/ x = <<Database, NoName>>
      \/ \E s \in Range(config.schemas) : x = <<Schema(s.name), NoName>>
      \/ \E e \in Range(config.extensions) :
             x = <<Extension(Alias(e.name)), NoName>>
  BY DEF Declared
<1>4. \A st \in Range(PostgresConverge(config)) : Sets(st) =>
         \/ \E r \in Range(config.roles) : st = Simple("put", Role(r.name), r.password)
         \/ st.obj = Database
  <2>1. \A s : ~Sets(EnsureSchema(s))
    BY DEF Sets, EnsureSchema, Stmt
  <2>2. \A e : ~Sets(CreateExtension(e))
    BY DEF Sets, CreateExtension, Stmt
  <2>3. \A g : ~Sets(Grant(g))
    BY DEF Sets, Grant, Stmt
  <2>4. PutDatabase(config).obj = Database
    BY DEF PutDatabase, Stmt
  <2>5. \A st \in Range(PostgresConverge(config)) :
           \/ \E r \in Range(config.roles) : st = Simple("put", Role(r.name), r.password)
           \/ st = PutDatabase(config)
           \/ \E s \in Range(config.schemas) : st = EnsureSchema(s)
           \/ \E e \in Range(config.extensions) : st = CreateExtension(e)
           \/ \E g \in Range(config.grants) : st = Grant(g)
    BY <1>2, PostgresConvergeAre
  <2>. QED  BY <2>1, <2>2, <2>3, <2>4, <2>5
<1>5. /\ \A n : Role(n)[1] = "role" /\ Role(n)[2][1] = n
      /\ Database[1] = "database" /\ Database[2][1] = Inst
      /\ \A n : Schema(n)[1] = "schema" /\ Schema(n)[2][1] = n
      /\ \A n : Extension(n)[1] = "extension"
  BY DEF Role, Database, Schema, Extension
<1>6. ASSUME NEW r \in Range(config.roles), x = <<Role(r.name), r.password>>
      PROVE  /\ \E st \in Range(PostgresConverge(config)) : Covers(st, x)
             /\ \A st \in Range(PostgresConverge(config)) : Agrees(st, x)
             /\ <<"role", r.name>> \in Range(PostgresObjects(config))
  <2> DEFINE st == Simple("put", Role(r.name), r.password)
  <2>1. st \in Range(PostgresConverge(config))
    BY <1>2, PostgresConvergeAre
  <2>2. Covers(st, x)
    BY <1>6 DEF Covers, Creates, Sets, Simple, Stmt
  <2>3. ASSUME NEW q \in Range(config.roles), q.name = r.name
        PROVE  q = r
    <3>1. PICK i \in DOMAIN config.roles : q = config.roles[i]
      BY DEF Range
    <3>2. PICK j \in DOMAIN config.roles : r = config.roles[j]
      BY DEF Range
    <3>3. i = j
      BY <1>2, <2>3, <3>1, <3>2 DEF PostgresShape
    <3>. QED  BY <3>1, <3>2, <3>3
  <2>4. ASSUME NEW t \in Range(PostgresConverge(config)), Sets(t), t.obj = Role(r.name)
        PROVE  t.val = r.password
    <3>1. PICK q \in Range(config.roles) : t = Simple("put", Role(q.name), q.password)
      BY <1>4, <1>5, <2>4
    <3>2. Role(q.name) = Role(r.name) /\ t.val = q.password
      BY <2>4, <3>1 DEF Simple, Stmt
    <3>3. q.name = r.name
      BY <1>5, <3>2
    <3>. QED  BY <2>3, <3>2, <3>3
  <2>5. \A t \in Range(PostgresConverge(config)) : Agrees(t, x)
    BY <1>6, <2>4 DEF Agrees
  <2>6. <<"role", r.name>> \in Range(PostgresObjects(config))
    BY <1>2, PostgresObjectsAre
  <2>. QED  BY <2>1, <2>2, <2>5, <2>6
<1>7. ASSUME x[2] = NoName
      PROVE  \A st \in Range(PostgresConverge(config)) : Agrees(st, x)
  BY <1>7 DEF Agrees
<1>8. CASE \E r \in Range(config.roles) : x = <<Role(r.name), r.password>>
  BY <1>2, <1>5, <1>6, <1>8
<1>9. CASE x = <<Database, NoName>>
  <2>1. Covers(PutDatabase(config), x)
    BY <1>9 DEF Covers, Creates, PutDatabase, Stmt
  <2>2. /\ PutDatabase(config) \in Range(PostgresConverge(config))
        /\ <<"database", Inst>> \in Range(PostgresObjects(config))
    BY <1>2, PostgresConvergeAre, PostgresObjectsAre
  <2>. QED  BY <1>2, <1>5, <1>7, <1>9, <2>1, <2>2
<1>10. CASE \E s \in Range(config.schemas) : x = <<Schema(s.name), NoName>>
  <2>1. PICK s \in Range(config.schemas) : x = <<Schema(s.name), NoName>>
    BY <1>10
  <2>2. Covers(EnsureSchema(s), x)
    BY <2>1 DEF Covers, Creates, EnsureSchema, Stmt
  <2>3. /\ EnsureSchema(s) \in Range(PostgresConverge(config))
        /\ <<"schema", s.name>> \in Range(PostgresObjects(config))
    BY <1>2, PostgresConvergeAre, PostgresObjectsAre
  <2>. QED  BY <1>2, <1>5, <1>7, <2>1, <2>2, <2>3
<1>11. CASE \E e \in Range(config.extensions) :
               x = <<Extension(Alias(e.name)), NoName>>
  <2>1. PICK e \in Range(config.extensions) :
               x = <<Extension(Alias(e.name)), NoName>>
    BY <1>11
  <2>2. Covers(CreateExtension(e), x)
    BY <2>1 DEF Covers, Creates, CreateExtension, Stmt
  <2>3. CreateExtension(e) \in Range(PostgresConverge(config))
    BY <1>2, PostgresConvergeAre
  <2>. QED  BY <1>2, <1>5, <1>7, <2>1, <2>2, <2>3
<1>. QED  BY <1>3, <1>8, <1>9, <1>10, <1>11

LEMMA DeclaredMaria ==
  ASSUME TypeOK, driver = "mariadb", NEW x \in Declared
  PROVE  /\ \E st \in Range(Converge(driver, config)) : Covers(st, x)
         /\ \A st \in Range(Converge(driver, config)) : Agrees(st, x)
         /\ x[1] = <<"user", <<x[1][2][1], x[1][2][2]>>>>
         /\ <<"user", Join(x[1][2][1], "@", x[1][2][2])>>
               \in Range(Objects(driver, config))
<1>1. config \in Configs(driver) /\ driver \in Drivers
  BY DEF TypeOK, Configs
<1>2. /\ MariaShape(config) /\ Objects(driver, config) = MariaObjects(config)
      /\ Converge(driver, config) = MariaConverge(config)
  BY <1>1, ShapeOf DEF Objects, Converge
<1>3. PICK u \in Range(config.users) : x = <<User(u.name, u.host), u.password>>
  BY DEF Declared
<1>4. /\ User(u.name, u.host) = <<"user", <<u.name, u.host>>>>
      /\ Account(u) = Join(u.name, "@", u.host)
  BY DEF User, Account
<1>5. <<"user", Account(u)>> \in Range(MariaObjects(config))
  BY <1>2, MariaObjectsAre
<1> DEFINE first(v) == Simple("ensure", User(v.name, v.host), v.password)
           second(v) == Simple("alter", User(v.name, v.host), v.password)
<1>6. \A v : Range(ConvergeUser(v))
                = {first(v)} \cup (IF v.password = NoName THEN {} ELSE {second(v)})
  BY ConvergeUserIs
<1>7. /\ \A v : first(v).obj = User(v.name, v.host) /\ Creates(first(v)) /\ ~Sets(first(v))
      /\ \A v : second(v).obj = User(v.name, v.host) /\ Sets(second(v))
                /\ second(v).val = v.password
  BY DEF Creates, Sets, Simple, Stmt
<1> HIDE DEF first, second
<1>8. \E st \in Range(MariaConverge(config)) : Covers(st, x)
  <2>1. Range(ConvergeUser(u)) \subseteq Range(MariaConverge(config))
    BY <1>2, MariaConvergeAre
  <2>2. CASE u.password = NoName
    BY <1>3, <1>6, <1>7, <2>1, <2>2 DEF Covers
  <2>3. CASE u.password # NoName
    BY <1>3, <1>6, <1>7, <2>1, <2>3 DEF Covers
  <2>. QED  BY <2>2, <2>3
<1>9. ASSUME NEW st \in Range(MariaConverge(config)), Sets(st), st.obj = x[1]
      PROVE  st.val = x[2]
  <2>1. \/ st = Simple("ensure", Database, NoName) \/ st = Flush
        \/ \E v \in Range(config.users) : st \in Range(ConvergeUser(v))
        \/ \E g \in Range(config.grants) : st = GrantUser(g)
    BY <1>2, MariaConvergeAre
  <2>2. PICK v \in Range(config.users) : st \in Range(ConvergeUser(v))
    BY <1>9, <2>1 DEF Sets, Flush, GrantUser, Simple, Stmt
  <2>3. st = second(v)
    BY <1>6, <1>7, <1>9, <2>2
  <2>4. <<"user", <<v.name, v.host>>>> = <<"user", <<u.name, u.host>>>>
    BY <1>3, <1>7, <1>9, <2>3 DEF User
  <2>5. v.name = u.name /\ v.host = u.host
    BY <2>4
  <2>6. PICK i \in DOMAIN config.users : v = config.users[i]
    BY DEF Range
  <2>7. PICK j \in DOMAIN config.users : u = config.users[j]
    BY DEF Range
  <2>8. i = j
    BY <1>2, <2>5, <2>6, <2>7 DEF MariaShape
  <2>. QED  BY <1>3, <1>7, <2>3, <2>6, <2>7, <2>8
<1>. QED  BY <1>2, <1>3, <1>4, <1>5, <1>8, <1>9 DEF Agrees

LEMMA DeclaredFerret ==
  ASSUME TypeOK, driver = "ferret", NEW x \in Declared
  PROVE  /\ \E st \in Range(Converge(driver, config)) : Covers(st, x)
         /\ \A st \in Range(Converge(driver, config)) : Agrees(st, x)
         /\ x[1] = <<"collection", <<x[1][2][1], x[1][2][2]>>>>
         /\ <<"collection", Join(x[1][2][1], ".", x[1][2][2])>>
               \in Range(Objects(driver, config))
         /\ <<"database", x[1][2][1]>> \in Range(Objects(driver, config))
<1>1. config \in Configs(driver) /\ driver \in Drivers
  BY DEF TypeOK, Configs
<1>2. /\ FerretShape(config) /\ Objects(driver, config) = FerretObjects(config)
      /\ Converge(driver, config) = FerretConverge(config)
  BY <1>1, ShapeOf DEF Objects, Converge
<1>3. PICK db \in Range(config.databases) : \E coll \in Range(db.collections) :
         x = <<<<"collection", <<db.name, coll.name>>>>, NoName>>
  BY DEF Declared
<1>4. PICK coll \in Range(db.collections) :
         x = <<<<"collection", <<db.name, coll.name>>>>, NoName>>
  BY <1>3
<1>5. EnsureCollection(db, coll) \in Range(FerretConverge(config))
  BY <1>2, FerretConvergeAre
<1>6. Covers(EnsureCollection(db, coll), x)
  BY <1>4 DEF Covers, Creates, EnsureCollection, Simple, Stmt
<1>7. \A st : Agrees(st, x)
  BY <1>4 DEF Agrees
<1>8. /\ <<"database", db.name>> \in Range(FerretObjects(config))
      /\ <<"collection", Join(db.name, ".", coll.name)>> \in Range(FerretObjects(config))
  BY <1>2, FerretObjectsAre
<1>. QED  BY <1>2, <1>4, <1>5, <1>6, <1>7, <1>8

LEMMA DeclaredTemporal ==
  ASSUME TypeOK, driver = "temporal", NEW x \in Declared
  PROVE  /\ \E st \in Range(Converge(driver, config)) : Covers(st, x)
         /\ \A st \in Range(Converge(driver, config)) : Agrees(st, x)
         /\ x[1] = <<"namespace", <<x[1][2][1]>>>>
         /\ <<"namespace", x[1][2][1]>> \in Range(Objects(driver, config))
<1>1. config \in Configs(driver) /\ driver \in Drivers
  BY DEF TypeOK, Configs
<1>2. /\ TemporalShape(config)
      /\ Objects(driver, config) = Listed("namespace", config.namespaces)
      /\ Converge(driver, config) = TemporalConverge(config)
  BY <1>1, ShapeOf DEF Objects, Converge
<1>3. PICK n \in Range(config.namespaces) :
         x = <<<<"namespace", <<n.name>>>>, n.retention>>
  BY DEF Declared
<1>4. Range(TemporalConverge(config)) = {Upsert(m) : m \in Range(config.namespaces)}
  BY <1>2, TemporalConvergeAre
<1>5. Covers(Upsert(n), x)
  BY <1>3 DEF Covers, Creates, Sets, Upsert, Simple, Stmt
<1>6. ASSUME NEW m \in Range(config.namespaces), Upsert(m).obj = x[1]
      PROVE  Upsert(m).val = x[2]
  <2>1. <<"namespace", <<m.name>>>> = <<"namespace", <<n.name>>>>
    BY <1>3, <1>6 DEF Upsert, Simple, Stmt
  <2>2. m.name = n.name
    BY <2>1
  <2>3. PICK i \in DOMAIN config.namespaces : m = config.namespaces[i]
    BY DEF Range
  <2>4. PICK j \in DOMAIN config.namespaces : n = config.namespaces[j]
    BY DEF Range
  <2>5. i = j
    BY <1>2, <2>2, <2>3, <2>4 DEF TemporalShape
  <2>. QED  BY <1>3, <2>3, <2>4, <2>5 DEF Upsert, Simple, Stmt
<1>7. <<"namespace", n.name>> \in Range(Objects(driver, config))
  BY <1>2, TemporalObjectsAre
<1>. QED  BY <1>2, <1>3, <1>4, <1>5, <1>6, <1>7 DEF Agrees

LEMMA DeclaredServed ==
  ASSUME TypeOK, driver \in {"kafka", "aws"}, NEW x \in Declared
  PROVE  /\ \E st \in Range(Converge(driver, config)) : Covers(st, x)
         /\ \A st \in Range(Converge(driver, config)) : Agrees(st, x)
<1>1. config \in Configs(driver) /\ driver \in Drivers
  BY DEF TypeOK, Configs
<1>2. CASE driver = "kafka"
  <2>1. /\ Range(KafkaConverge(config)) = {EnsureTopic(t) : t \in Range(config.topics)}
        /\ Converge(driver, config) = KafkaConverge(config)
    BY <1>1, <1>2, ShapeOf, KafkaConvergeAre DEF Converge
  <2>2. PICK t \in Range(config.topics) : x = <<<<"topic", <<t.name>>>>, NoName>>
    BY <1>2 DEF Declared
  <2>3. Covers(EnsureTopic(t), x)
    BY <2>2 DEF Covers, Creates, EnsureTopic, Simple, Stmt
  <2>4. \A st : Agrees(st, x)
    BY <2>2 DEF Agrees
  <2>. QED  BY <2>1, <2>3, <2>4
<1>3. CASE driver = "aws"
  <2>1. /\ Converge(driver, config) = AwsConverge(config)
        /\ \A st : st \in Range(AwsConverge(config)) <=>
              \E k \in DOMAIN config : \E n \in DOMAIN config[k] :
                 st = Resource(k, n, config[k][n])
    BY <1>1, <1>3, ShapeOf, AwsConvergeAre DEF Converge
  <2> DEFINE Kept_(k, n) == k \in {"secret", "parameter"} /\ ~config[k][n].force
             Value(k, n) == IF Kept_(k, n) THEN NoName ELSE config[k][n].value
  <2>2. PICK k \in DOMAIN config : \E n \in DOMAIN config[k] :
           x = <<<<k, <<n>>>>, Value(k, n)>>
    BY <1>3 DEF Declared
  <2>3. PICK n \in DOMAIN config[k] : x = <<<<k, <<n>>>>, Value(k, n)>>
    BY <2>2
  <2>4. \A i, j : /\ Resource(i, j, config[i][j]).obj = <<i, <<j>>>>
                  /\ Resource(i, j, config[i][j]).val = config[i][j].value
                  /\ Resource(i, j, config[i][j]).do
                       = IF Kept_(i, j) THEN "ensure" ELSE "put"
    BY DEF Resource, Simple, Stmt
  <2>5. Covers(Resource(k, n, config[k][n]), x)
    <3> HIDE DEF Kept_
    <3>. QED  BY <2>3, <2>4 DEF Covers, Creates, Sets
  <2>6. ASSUME NEW i \in DOMAIN config, NEW j \in DOMAIN config[i],
               <<i, <<j>>>> = <<k, <<n>>>>
        PROVE  Agrees(Resource(i, j, config[i][j]), x)
    <3>1. i = k /\ j = n
      BY <2>6
    <3> HIDE DEF Kept_
    <3>. QED  BY <2>3, <2>4, <3>1 DEF Agrees
  <2>7. ASSUME NEW i \in DOMAIN config, NEW j \in DOMAIN config[i]
        PROVE  Agrees(Resource(i, j, config[i][j]), x)
    <3>1. CASE <<i, <<j>>>> = x[1]
      BY <2>3, <2>6, <3>1
    <3>2. CASE <<i, <<j>>>> # x[1]
      BY <2>4, <3>2 DEF Agrees
    <3>. QED  BY <3>1, <3>2
  <2> HIDE DEF Value, Kept_
  <2>8. ASSUME NEW st \in Range(AwsConverge(config))
        PROVE  Agrees(st, x)
    <3>1. PICK i \in DOMAIN config : \E j \in DOMAIN config[i] :
                 st = Resource(i, j, config[i][j])
      BY <2>1
    <3>. QED  BY <3>1, <2>7
  <2>9. Resource(k, n, config[k][n]) \in Range(AwsConverge(config))
    BY <2>1
  <2>. QED  BY <2>1, <2>5, <2>8, <2>9
<1>. QED  BY <1>2, <1>3

LEMMA DeclaredOf ==
  ASSUME TypeOK, NEW x \in Declared
  PROVE  /\ \E st \in Range(Converge(driver, config)) : Covers(st, x)
         /\ \A st \in Range(Converge(driver, config)) : Agrees(st, x)
<1>1. CASE driver \in {"valkey", "kvrocks"}
  BY <1>1 DEF Declared
<1>2. driver \in DriverNames
  BY BodiesAssumption DEF TypeOK
<1>. QED  BY <1>1, <1>2, DeclaredPostgres, DeclaredMaria, DeclaredFerret,
             DeclaredTemporal, DeclaredServed DEF DriverNames

\* No prune of an item that is not declared takes what is, extensions
\* excepted.
LEMMA SparesDeclared ==
  ASSUME TypeOK, NEW x \in Declared,
         NEW o, ItemShape(driver, o), o \notin Range(Objects(driver, config)),
         x[1] \in Taken(PruneOne(driver, o).obj)
  PROVE  x[1][1] = "extension"
<1> DEFINE q == PruneOne(driver, o).obj
<1>1. x[1] = q \/ x[1] \in Within(q) \/ x[1][1] = "extension"
  <2>1. x[1] \in Taken(q)
    OBVIOUS
  <2> HIDE DEF q
  <2>. QED  BY <2>1 DEF Taken, BuiltOn
<1>2. CASE driver = "postgres"
  <2>1. q = <<o[1], <<o[2]>>>> /\ o = <<o[1], o[2]>>
    BY <1>2 DEF PruneOne, DropPostgres, Stmt, ItemShape
  <2> SUFFICES ASSUME x[1][1] # "extension"
               PROVE  FALSE
    OBVIOUS
  <2>2. /\ <<x[1][1], x[1][2][1]>> \in Range(Objects(driver, config))
        /\ x[1][1] \in {"role", "database", "schema"}
    BY <1>2, DeclaredPostgres
  <2>3. x[1] # q
    <3>1. q[1] = o[1] /\ q[2][1] = o[2]
      BY <2>1
    <3> HIDE DEF q
    <3>. QED  BY <2>1, <2>2, <3>1
  <2>4. q # Database
    <3>1. ASSUME q = Database
          PROVE  FALSE
      <4>1. q[1] = o[1] /\ q[2][1] = o[2]
        BY <2>1
      <4>2. o = <<"database", Inst>>
        BY <2>1, <3>1, <4>1 DEF Database
      <4>3. <<"database", Inst>> \in Range(Objects(driver, config))
        <5>1. config \in Configs(driver) /\ driver \in Drivers
          BY DEF TypeOK, Configs
        <5>2. PostgresShape(config) /\ Objects(driver, config) = PostgresObjects(config)
          BY <1>2, <5>1, ShapeOf DEF Objects
        <5>. QED  BY <5>2, PostgresObjectsAre
      <4>. QED  BY <4>2, <4>3
    <3>. QED  BY <3>1
  <2>5. x[1] \notin Within(q)
    <3> HIDE DEF q
    <3>. QED  BY <1>2, <2>4 DEF Within
  <2>. QED  BY <1>1, <2>3, <2>5
<1>3. CASE driver = "mariadb"
  <2>1. /\ x[1] = <<"user", <<x[1][2][1], x[1][2][2]>>>>
        /\ <<"user", Join(x[1][2][1], "@", x[1][2][2])>>
              \in Range(Objects(driver, config))
    BY <1>3, DeclaredMaria
  <2>2. q = IF o[1] = "user" THEN <<"user", CutLast(o[2], "@")>>
            ELSE <<"database", <<o[2]>>>>
    BY <1>3 DEF PruneOne, DropMaria, Simple, Stmt
  <2>3. x[1][1] = "user"
    BY <2>1
  <2>4. x[1] # q
    <3>1. ASSUME x[1] = q
          PROVE  FALSE
      <4>1. o[1] = "user" /\ x[1] = <<"user", CutLast(o[2], "@")>>
        BY <2>2, <2>3, <3>1
      <4>2. Rejoins(o, CutLast(o[2], "@"), "@") /\ o = <<o[1], o[2]>>
        BY <1>3, <4>1 DEF ItemShape
      <4>3. x[1][2] = CutLast(o[2], "@")
        BY <4>1
      <4>4. o[2] = Join(x[1][2][1], "@", x[1][2][2])
        BY <4>2, <4>3 DEF Rejoins
      <4>5. o = <<"user", Join(x[1][2][1], "@", x[1][2][2])>>
        BY <4>1, <4>2, <4>4
      <4>. QED  BY <2>1, <4>5
    <3>. QED  BY <3>1
  <2>5. x[1] \notin Within(q)
    <3> HIDE DEF q
    <3>. QED  BY <1>3, <2>3 DEF Within
  <2>. QED  BY <1>1, <2>4, <2>5
<1>4. CASE driver = "ferret"
  <2>1. /\ x[1] = <<"collection", <<x[1][2][1], x[1][2][2]>>>>
        /\ <<"collection", Join(x[1][2][1], ".", x[1][2][2])>>
              \in Range(Objects(driver, config))
        /\ <<"database", x[1][2][1]>> \in Range(Objects(driver, config))
    BY <1>4, DeclaredFerret
  <2>2. q = IF o[1] = "collection" THEN <<"collection", CutFirst(o[2], ".")>>
            ELSE <<"database", <<o[2]>>>>
    BY <1>4 DEF PruneOne, DropFerret, Simple, Stmt
  <2>3. x[1][1] = "collection" /\ o = <<o[1], o[2]>>
    BY <1>4, <2>1 DEF ItemShape
  <2>4. x[1] # q
    <3>1. ASSUME x[1] = q
          PROVE  FALSE
      <4>1. o[1] = "collection" /\ x[1] = <<"collection", CutFirst(o[2], ".")>>
        BY <2>2, <2>3, <3>1
      <4>2. Rejoins(o, CutFirst(o[2], "."), ".")
        BY <1>4, <4>1 DEF ItemShape
      <4>3. x[1][2] = CutFirst(o[2], ".")
        BY <4>1
      <4>4. o[2] = Join(x[1][2][1], ".", x[1][2][2])
        BY <4>2, <4>3 DEF Rejoins
      <4>5. o = <<"collection", Join(x[1][2][1], ".", x[1][2][2])>>
        BY <2>3, <4>1, <4>4
      <4>. QED  BY <2>1, <4>5
    <3>. QED  BY <3>1
  <2>5. x[1] \notin Within(q)
    <3>1. ASSUME x[1] \in Within(q)
          PROVE  FALSE
      <4>1. q[1] = "database" /\ x[1][2][1] = q[2][1]
        <5>1. x[1] \in Within(q)
          BY <3>1
        <5> HIDE DEF q
        <5>. QED  BY <1>4, <2>3, <5>1 DEF Within
      <4>2. q = <<"database", <<o[2]>>>> /\ o[1] = "database"
        BY <1>4, <2>2, <4>1 DEF ItemShape
      <4>3. o = <<"database", x[1][2][1]>>
        BY <2>3, <4>1, <4>2
      <4>. QED  BY <2>1, <4>3
    <3>. QED  BY <3>1
  <2>. QED  BY <1>1, <2>4, <2>5
<1>5. CASE driver = "temporal"
  <2>1. /\ x[1] = <<"namespace", <<x[1][2][1]>>>>
        /\ <<"namespace", x[1][2][1]>> \in Range(Objects(driver, config))
    BY <1>5, DeclaredTemporal
  <2>2. q = <<"namespace", <<o[2]>>>> /\ o = <<"namespace", o[2]>>
    BY <1>5 DEF PruneOne, DeleteNamespace, Simple, Stmt, ItemShape
  <2>3. x[1][1] = "namespace" /\ q[2][1] = o[2] /\ q[1] = "namespace"
    BY <2>1, <2>2
  <2>4. x[1] # q
    <3> HIDE DEF q
    <3>. QED  BY <2>1, <2>2, <2>3
  <2>5. x[1] \notin Within(q)
    <3> HIDE DEF q
    <3>. QED  BY <1>5, <2>3 DEF Within
  <2>. QED  BY <1>1, <2>4, <2>5
<1>. QED  BY <1>2, <1>3, <1>4, <1>5 DEF ItemShape
-----------------------------------------------------------------------------
(* What is declared, on the way to a pass that succeeds.                   *)

\* Prunes come first, and while one is left all that converges is.
Ordered(s, C) ==
    /\ \A i, j \in DOMAIN s : i < j /\ Prunes(s[j]) => Prunes(s[i])
    /\ (\E st \in Range(s) : Prunes(st)) => C \subseteq Range(s)

\* A host that prunes first has pruned all before anything is created.
Sorted ==
    Running /\ mode = "prune first" =>
        Ordered(todo, Range(Converge(driver, config)))

Held(x) == x[1] \in DOMAIN objects /\ x[2] \in {NoName, objects[x[1]]}

Excepted(x) ==
    mode = "converge first" /\ removed # <<>> /\ x[1][1] = "extension"

Declaring ==
    outcome \in {"running", "ok"} /\ mode \notin {"none", "destroy"} =>
        \A x \in Declared :
            \/ Held(x) \/ Excepted(x)
            \/ Running /\ \E st \in Range(todo) : Covers(st, x)

LEMMA PruneFirstOrder ==
  ASSUME TypeOK, Shapes,
         NEW stmts, stmts = Prune(driver, Undeclared) \o Converge(driver, config)
  PROVE  Ordered(stmts, Range(Converge(driver, config)))
<1> DEFINE P == Prune(driver, Undeclared)
           C == Converge(driver, config)
<1>1. config \in Configs(driver) /\ driver \in Drivers /\ driver \in DriverNames
  BY BodiesAssumption DEF TypeOK, Configs
<1>2. IsSeq(Undeclared) /\ \A o \in Range(Undeclared) : ItemShape(driver, o)
  BY UndeclaredIs
<1>3. /\ IsSeq(P) /\ Len(P) = Len(Undeclared)
      /\ \A i \in 1 .. Len(Undeclared) : P[i] = PruneOne(driver, Undeclared[i])
  BY <1>1, <1>2, PruneList
<1>4. \A i \in 1 .. Len(P) : Prunes(P[i])
  <2>1. \A i \in 1 .. Len(Undeclared) : Undeclared[i] \in Range(Undeclared)
    BY <1>2, SeqFacts
  <2>2. \A o \in Range(Undeclared) : Prunes(PruneOne(driver, o))
    BY <1>2, PruneOneIs
  <2>. QED  BY <1>3, <2>1, <2>2
<1>5. IsSeq(C) /\ \A st \in Range(C) : ~Prunes(st)
  BY <1>1, ConvergesAll DEF Converges
<1> HIDE DEF P, C
<1>6. stmts = P \o C
  BY DEF P, C
<1>7. /\ IsSeq(P \o C) /\ Range(P \o C) = Range(P) \cup Range(C)
      /\ Len(P \o C) = Len(P) + Len(C)
      /\ \A i \in 1 .. Len(P) : (P \o C)[i] = P[i]
      /\ \A i \in 1 .. Len(C) : (P \o C)[Len(P) + i] = C[i]
      /\ \A i \in 1 .. Len(P \o C) : i <= Len(P) \/ i - Len(P) \in 1 .. Len(C)
  <2>1. IsSeq(P) /\ IsSeq(C)
    BY <1>3, <1>5
  <2>. QED  BY <2>1, Concat
<1>8. /\ IsSeq(stmts) /\ Range(stmts) = Range(P) \cup Range(C)
      /\ Len(stmts) = Len(P) + Len(C)
      /\ \A i \in 1 .. Len(P) : stmts[i] = P[i]
      /\ \A i \in 1 .. Len(C) : stmts[Len(P) + i] = C[i]
      /\ \A i \in 1 .. Len(stmts) : i <= Len(P) \/ i - Len(P) \in 1 .. Len(C)
  BY <1>6, <1>7
<1>9. /\ DOMAIN stmts = 1 .. Len(stmts) /\ Len(P) \in Nat /\ Len(C) \in Nat
      /\ \A i \in 1 .. Len(C) : C[i] \in Range(C)
  BY <1>3, <1>5, <1>8, SeqFacts
<1>10. ASSUME NEW i \in DOMAIN stmts, NEW j \in DOMAIN stmts, i < j, Prunes(stmts[j])
       PROVE  Prunes(stmts[i])
  <2>1. j <= Len(P)
    <3>1. ASSUME j - Len(P) \in 1 .. Len(C)
          PROVE  FALSE
      <4>1. j = Len(P) + (j - Len(P))
        BY <1>9
      <4>2. stmts[j] = C[j - Len(P)]
        BY <1>8, <3>1, <4>1
      <4>. QED  BY <1>5, <1>9, <1>10, <3>1, <4>2
    <3>. QED  BY <1>8, <1>9, <3>1
  <2>2. i \in 1 .. Len(P)
    BY <1>9, <1>10, <2>1
  <2>. QED  BY <1>4, <1>8, <2>2
<1>. QED  BY <1>8, <1>10 DEF Ordered, C

LEMMA OrderedTail ==
  ASSUME NEW s, IsSeq(s), s # <<>>, NEW C, \A st \in C : ~Prunes(st),
         Ordered(s, C)
  PROVE  Ordered(Tail(s), C)
<1> DEFINE t == Tail(s)
           n == Len(s)
<1>1. /\ IsSeq(t) /\ Len(t) = n - 1 /\ n \in Nat \ {0} /\ Head(s) = s[1]
      /\ \A i \in 1 .. n - 1 : t[i] = s[i + 1]
      /\ Range(s) = {Head(s)} \cup Range(t) /\ Head(s) \in Range(s)
  BY HeadAndTail
<1>2. DOMAIN s = 1 .. n
  BY SeqFacts
<1> HIDE DEF t, n
<1>3. DOMAIN t = 1 .. n - 1 /\ \A x \in Range(t) : \E i \in 1 .. n - 1 : t[i] = x
  <2>1. DOMAIN t = 1 .. Len(t) /\ \A x \in Range(t) : \E i \in 1 .. Len(t) : t[i] = x
    BY <1>1, SeqFacts
  <2>. QED  BY <1>1, <2>1
<1>4. n \in Nat
  BY <1>1
<1>5. ASSUME NEW i \in 1 .. n - 1, NEW j \in 1 .. n - 1, i < j, Prunes(t[j])
      PROVE  Prunes(t[i])
  <2>1. i + 1 \in 1 .. n /\ j + 1 \in 1 .. n /\ i + 1 < j + 1
    BY <1>4, <1>5
  <2>2. t[i] = s[i + 1] /\ t[j] = s[j + 1]
    BY <1>1
  <2>. QED  BY <1>2, <1>5, <2>1, <2>2 DEF Ordered
<1>6. ASSUME NEW i \in 1 .. n - 1, Prunes(t[i])
      PROVE  C \subseteq Range(t)
  <2>1. i + 1 \in 1 .. n /\ 1 \in 1 .. n /\ 1 < i + 1
    BY <1>4
  <2>2. t[i] = s[i + 1]
    BY <1>1
  <2>3. Prunes(Head(s))
    BY <1>1, <1>2, <1>6, <2>1, <2>2 DEF Ordered
  <2>4. C \subseteq Range(s)
    BY <1>1, <2>3 DEF Ordered
  <2>. QED  BY <1>1, <2>3, <2>4
<1>. QED  BY <1>3, <1>5, <1>6 DEF Ordered, t

LEMMA SortedNext == TypeOK /\ Shapes /\ Sent /\ Sorted /\ [Next]_vars => Sorted'
<1> SUFFICES ASSUME TypeOK, Shapes, Sent, Sorted, [Next]_vars,
                    Running', mode' = "prune first"
             PROVE  Ordered(todo', Range(Converge(driver', config')))
  BY DEF Sorted, Ordered, Prunes
<1>1. CASE Edit \/ Boot \/ BootFails \/ ApplyConvergeFirst \/ Destroy
             \/ Refuse \/ Lose \/ Misread \/ Finish
  BY <1>1 DEF Edit, Boot, BootFails, ApplyConvergeFirst, Destroy, Begin,
              Refuse, Lose, Misread, Finish, Fails, Running, Reasons
<1>2. CASE ApplyPruneFirst
  <2>1. /\ todo' = Prune(driver, Undeclared) \o Converge(driver, config)
        /\ driver' = driver /\ config' = config
    BY <1>2 DEF ApplyPruneFirst, Begin
  <2>. QED  BY <2>1, PruneFirstOrder
<1>3. CASE Execute
  <2>1. /\ Sending /\ todo' = Tail(todo) /\ mode = "prune first"
        /\ driver' = driver /\ config' = config
    BY <1>3 DEF Execute
  <2>2. Running /\ IsSeq(todo) /\ todo # <<>>
    BY <2>1, SendingIs
  <2>3. \A st \in Range(Converge(driver, config)) : ~Prunes(st)
    <3>1. config \in Configs(driver) /\ driver \in Drivers
      BY DEF TypeOK, Configs
    <3>. QED  BY <3>1, ConvergesAll DEF Converges
  <2>4. Ordered(todo, Range(Converge(driver, config)))
    BY <2>1, <2>2 DEF Sorted
  <2>5. Ordered(Tail(todo), Range(Converge(driver, config)))
    <3> DEFINE C == Range(Converge(driver, config))
    <3> HIDE DEF C
    <3>1. Ordered(todo, C) /\ \A st \in C : ~Prunes(st)
      BY <2>3, <2>4 DEF C
    <3>2. Ordered(Tail(todo), C)
      BY <2>2, <3>1, OrderedTail
    <3>. QED  BY <3>2 DEF C
  <2>. QED  BY <2>1, <2>5
<1>4. CASE UNCHANGED vars
  BY <1>4 DEF vars, Sorted, Running
<1>. QED  BY <1>1, <1>2, <1>3, <1>4 DEF Next

\* A pass that is about to start has a statement for everything declared.
LEMMA PlanDeclares ==
  ASSUME TypeOK, Shapes, NEW stmts,
         \/ stmts = Converge(driver, config)
         \/ stmts = Prune(driver, Undeclared) \o Converge(driver, config)
         \/ stmts = Converge(driver, config) \o Prune(driver, Undeclared),
         NEW x \in Declared
  PROVE  \E st \in Range(stmts) : Covers(st, x)
<1> DEFINE P == Prune(driver, Undeclared)
           C == Converge(driver, config)
<1>1. config \in Configs(driver) /\ driver \in Drivers /\ driver \in DriverNames
  BY BodiesAssumption DEF TypeOK, Configs
<1>2. IsSeq(Undeclared) /\ \A o \in Range(Undeclared) : ItemShape(driver, o)
  BY UndeclaredIs
<1>3. IsSeq(P)
  BY <1>1, <1>2, PruneList
<1>4. IsSeq(C)
  BY <1>1, ConvergesAll
<1>5. \E st \in Range(C) : Covers(st, x)
  BY DeclaredOf
<1>6. stmts = C \/ stmts = P \o C \/ stmts = C \o P
  OBVIOUS
<1> HIDE DEF P, C
<1>7. Range(P \o C) = Range(P) \cup Range(C) /\ Range(C \o P) = Range(C) \cup Range(P)
  <2>1. Range(P \o C) = Range(P) \cup Range(C)
    BY <1>3, <1>4, Concat
  <2>2. Range(C \o P) = Range(C) \cup Range(P)
    BY <1>3, <1>4, Concat
  <2>. QED  BY <2>1, <2>2
<1>. QED  BY <1>5, <1>6, <1>7

LEMMA DeclaringStep ==
  ASSUME TypeOK, Shapes, Sent, Sorted, Declaring, Execute,
         mode \notin {"none", "destroy"}, NEW x \in Declared
  PROVE  \/ Held(x)' \/ Excepted(x)'
         \/ Running' /\ \E st \in Range(todo') : Covers(st, x)
<1> DEFINE st == Head(todo)
<1>1. /\ Sending /\ Does(st) /\ todo' = Tail(todo)
      /\ UNCHANGED <<driver, config, mode, removed, outcome>>
  BY DEF Execute
<1>2. /\ Running /\ Running' /\ st \in Range(todo)
      /\ Range(todo) = {st} \cup Range(Tail(todo))
  BY <1>1, SendingIs DEF Running
<1>3. Excepted(x) <=> Excepted(x)'
  BY <1>1 DEF Excepted
<1>4. \/ Held(x) \/ Excepted(x) \/ \E t \in Range(todo) : Covers(t, x)
  BY <1>2 DEF Declaring, Running
<1> HIDE DEF st
<1>5. CASE \E t \in Range(Tail(todo)) : Covers(t, x)
  BY <1>1, <1>2, <1>5
<1>6. CASE ~Prunes(st) /\ (Held(x) \/ Covers(st, x))
  <2>1. Agrees(st, x)
    BY <1>2, <1>6, EachKnown, DeclaredOf
  <2>2. /\ DOMAIN objects \subseteq DOMAIN objects'
        /\ Creates(st) => st.obj \in DOMAIN objects'
        /\ \A p \in DOMAIN objects :
              \/ objects'[p] = objects[p]
              \/ Sets(st) /\ p = st.obj /\ objects'[p] = Given(st.val, objects[p])
        /\ Sets(st) => /\ st.obj \in DOMAIN objects'
                       /\ st.val # NoName => objects'[st.obj] = st.val
    BY <1>1, <1>6, DoesGrow
  <2>3. CASE Covers(st, x)
    BY <2>2, <2>3 DEF Covers, Held
  <2>4. CASE Held(x)
    <3>1. x[1] \in DOMAIN objects /\ x[1] \in DOMAIN objects'
      BY <2>2, <2>4 DEF Held
    <3>2. CASE x[2] = NoName
      BY <3>1, <3>2 DEF Held
    <3>3. CASE x[2] # NoName
      <4>1. x[2] = objects[x[1]]
        BY <2>4, <3>3 DEF Held
      <4>2. objects'[x[1]] = x[2]
        BY <2>1, <2>2, <3>1, <3>3, <4>1 DEF Agrees, Given
      <4>. QED  BY <3>1, <4>2 DEF Held
    <3>. QED  BY <3>2, <3>3
  <2>. QED  BY <1>6, <2>3, <2>4
<1>7. CASE Prunes(st)
  <2>1. PICK o \in Range(removed) : ItemShape(driver, o) /\ st = PruneOne(driver, o)
    <3>1. ~Converges(driver, config, st)
      BY <1>7 DEF Converges
    <3>. QED  BY <1>2, <3>1, EachKnown
  <2>2. mode \in {"prune first", "converge first"}
    <3>1. mode # "boot"
      BY <1>2, <2>1, NoSeq DEF Sent, Planned
    <3>. QED  BY <3>1 DEF TypeOK, Passes
  <2>3. CASE mode = "prune first"
    <3>1. Range(Converge(driver, config)) \subseteq Range(todo)
      BY <1>2, <1>7, <2>3 DEF Sorted, Ordered
    <3>2. \A t \in Range(Converge(driver, config)) : ~Prunes(t)
      <4>1. config \in Configs(driver) /\ driver \in Drivers
        BY DEF TypeOK, Configs
      <4>. QED  BY <4>1, ConvergesAll DEF Converges
    <3>3. Range(Converge(driver, config)) \subseteq Range(Tail(todo))
      BY <1>2, <1>7, <3>1, <3>2
    <3>. QED  BY <1>5, <3>3, DeclaredOf
  <2>4. CASE mode = "converge first"
    <3>1. removed # <<>>
      BY <2>1, NoSeq
    <3>2. o \notin Range(Objects(driver, config))
      BY <1>2, <2>4 DEF Sent, Planned
    <3>3. DOMAIN objects' = DOMAIN objects \ Taken(st.obj)
          /\ \A p \in DOMAIN objects' : objects'[p] = objects[p]
      BY <1>1, <1>7, DoesPrune, DropShrinks
    <3>4. CASE Excepted(x)
      BY <1>3, <3>4
    <3>5. CASE Held(x) /\ x[1] \in Taken(st.obj)
      <4>1. x[1][1] = "extension"
        BY <2>1, <3>2, <3>5, SparesDeclared
      <4>. QED  BY <1>3, <2>4, <3>1, <4>1 DEF Excepted
    <3>6. CASE Held(x) /\ x[1] \notin Taken(st.obj)
      BY <3>3, <3>6 DEF Held
    <3>7. ~Covers(st, x)
      BY <1>7 DEF Covers, Creates, Sets, Prunes
    <3>. QED  BY <1>2, <1>4, <1>5, <3>4, <3>5, <3>6, <3>7
  <2>. QED  BY <2>2, <2>3, <2>4
<1>8. CASE Excepted(x)
  BY <1>3, <1>8
<1>. QED  BY <1>2, <1>4, <1>5, <1>6, <1>7, <1>8

LEMMA DeclaringNext ==
  TypeOK /\ Shapes /\ Sent /\ Sorted /\ Declaring /\ [Next]_vars => Declaring'
<1> SUFFICES ASSUME TypeOK, Shapes, Sent, Sorted, Declaring, [Next]_vars,
                    outcome' \in {"running", "ok"},
                    mode' \notin {"none", "destroy"},
                    NEW x \in Declared'
             PROVE  \/ Held(x)' \/ Excepted(x)'
                    \/ Running' /\ \E st \in Range(todo') : Covers(st, x)
  BY DEF Declaring, Covers, Creates, Sets
<1>1. CASE Edit \/ BootFails \/ Destroy \/ Refuse \/ Lose \/ Misread
  BY <1>1 DEF Edit, BootFails, Destroy, Begin, Refuse, Lose, Misread, Fails,
              Reasons
<1>2. ASSUME UNCHANGED <<driver, config>>
      PROVE  x \in Declared
  BY <1>2 DEF Declared
<1>3. CASE Boot \/ ApplyPruneFirst \/ ApplyConvergeFirst
  <2>1. /\ UNCHANGED <<driver, config>> /\ Running'
        /\ \/ todo' = Converge(driver, config)
           \/ todo' = Prune(driver, Undeclared) \o Converge(driver, config)
           \/ todo' = Converge(driver, config) \o Prune(driver, Undeclared)
    BY <1>3 DEF Boot, ApplyPruneFirst, ApplyConvergeFirst, Begin, Running
  <2>. QED  BY <1>2, <2>1, PlanDeclares
<1>4. CASE Execute
  <2>1. UNCHANGED <<driver, config, mode>>
    BY <1>4 DEF Execute
  <2>. QED  BY <1>2, <1>4, <2>1, DeclaringStep
<1>5. CASE Finish
  <2>1. /\ outcome = "running" /\ todo = <<>>
        /\ UNCHANGED <<driver, config, objects, mode, removed>>
    BY <1>5 DEF Finish, server
  <2>2. Held(x) \/ Excepted(x)
    BY <1>2, <2>1, NoSeq DEF Declaring
  <2>. QED  BY <2>1, <2>2 DEF Held, Excepted
<1>6. CASE UNCHANGED vars
  <2>1. \/ Held(x) \/ Excepted(x)
        \/ Running /\ \E st \in Range(todo) : Covers(st, x)
    BY <1>2, <1>6 DEF vars, Declaring
  <2>. QED  BY <1>6, <2>1 DEF vars, server, Held, Excepted, Running
<1>. QED  BY <1>1, <1>3, <1>4, <1>5, <1>6 DEF Next

LEMMA DeclaringCorrect ==
  Spec => [](TypeOK /\ Shapes /\ Sent /\ Unsent /\ Sorted /\ Declaring)
<1>1. Init => Sorted /\ Declaring
  BY DEF Init, Sorted, Declaring, Running
<1>. QED  BY <1>1, TypeOKInit, TypeOKNext, PrunedInit, ShapesNext, SentNext,
             UnsentNext, SortedNext, DeclaringNext, PTL DEF Spec

LEMMA DeclaringIsSuccess == Declaring => SuccessMeansDeclared
<1> SUFFICES ASSUME Declaring, outcome = "ok", mode \notin {"none", "destroy"},
                    NEW x \in Declared
             PROVE  \/ x[1] \in DOMAIN objects /\ x[2] \in {NoName, objects[x[1]]}
                    \/ /\ mode = "converge first"
                       /\ removed # <<>> /\ x[1][1] = "extension"
  BY DEF SuccessMeansDeclared
<1>. QED  BY DEF Declaring, Running, Held, Excepted

(* An apply or a boot that succeeded has established every declared object *)
(* with its declared value, for every configuration: each is the object of *)
(* a statement of Converge, no later statement of the pass sets another    *)
(* value, and no item that Prune is given, in either order, takes a        *)
(* declared object with it, except for an extension the host drops after   *)
(* the converge by CASCADE.                                                *)
THEOREM SuccessIsDeclared == Spec => []SuccessMeansDeclared
BY DeclaringCorrect, DeclaringIsSuccess, PTL
-----------------------------------------------------------------------------
(* A converge creates each object before a statement names it, unless the  *)
(* configuration names one it does not declare.                            *)

Excused == \/ driver = "postgres" /\ Dangling
           \/ driver = "mariadb" /\ DanglingGrant

Wants(st, ex) == st.db \cup (IF ex THEN {} ELSE Named(st))

Made(s) == {st.obj : st \in {t \in Range(s) : Creates(t)}}

Built(s, B, ex) ==
    \A i \in 1 .. Len(s) : \A n \in Wants(s[i], ex) :
        \/ n \in B
        \/ \E j \in 1 .. i - 1 : Creates(s[j]) /\ s[j].obj = n

LEMMA BuiltEach ==
  ASSUME NEW s, IsSeq(s), NEW B, NEW ex, \A st \in Range(s) : Wants(st, ex) \subseteq B
  PROVE  Built(s, B, ex)
BY SeqFacts DEF Built

LEMMA BuiltConcat ==
  ASSUME NEW s, IsSeq(s), NEW t, IsSeq(t), NEW B, NEW ex,
         Built(s, B, ex), Built(t, B \cup Made(s), ex)
  PROVE  /\ Built(s \o t, B, ex) /\ IsSeq(s \o t)
         /\ Made(s \o t) = Made(s) \cup Made(t)
<1> DEFINE u == s \o t
           m == Len(s)
           n == Len(t)
<1>1. /\ IsSeq(u) /\ Range(u) = Range(s) \cup Range(t)
      /\ Len(u) = m + n
      /\ \A i \in 1 .. m : u[i] = s[i]
      /\ \A i \in 1 .. n : u[m + i] = t[i]
      /\ \A i \in 1 .. Len(u) : i <= m \/ i - m \in 1 .. n
  BY Concat
<1>2. m \in Nat /\ n \in Nat /\ \A x \in Range(s) : \E i \in 1 .. m : s[i] = x
  BY SeqFacts
<1>3. /\ \A i \in 1 .. m : \A x \in Wants(s[i], ex) :
            x \in B \/ \E j \in 1 .. i - 1 : Creates(s[j]) /\ s[j].obj = x
      /\ \A i \in 1 .. n : \A x \in Wants(t[i], ex) :
            x \in B \cup Made(s) \/ \E j \in 1 .. i - 1 : Creates(t[j]) /\ t[j].obj = x
  BY DEF Built
<1> HIDE DEF u, m, n
<1>4. ASSUME NEW i \in 1 .. Len(u), NEW x \in Wants(u[i], ex), x \notin B
      PROVE  \E j \in 1 .. i - 1 : Creates(u[j]) /\ u[j].obj = x
  <2>1. CASE i <= m
    <3>1. i \in 1 .. m /\ u[i] = s[i]
      BY <1>1, <1>2, <2>1
    <3>2. PICK j \in 1 .. i - 1 : Creates(s[j]) /\ s[j].obj = x
      BY <1>3, <1>4, <3>1
    <3>3. j \in 1 .. m
      BY <1>2, <3>1
    <3>. QED  BY <1>1, <3>2, <3>3
  <2>2. CASE i - m \in 1 .. n
    <3> DEFINE k == i - m
    <3>1. k \in 1 .. n /\ i = m + k
      BY <1>2, <2>2
    <3> HIDE DEF k
    <3>2. u[i] = t[k]
      BY <1>1, <3>1
    <3>3. CASE x \in Made(s)
      <4>1. PICK j \in 1 .. m : Creates(s[j]) /\ s[j].obj = x
        BY <1>2, <3>3 DEF Made
      <4>2. j \in 1 .. i - 1
        BY <1>2, <3>1
      <4>. QED  BY <1>1, <4>1, <4>2
    <3>4. CASE x \notin Made(s)
      <4>1. PICK j \in 1 .. k - 1 : Creates(t[j]) /\ t[j].obj = x
        BY <1>3, <1>4, <3>1, <3>2, <3>4
      <4>2. m + j \in 1 .. i - 1 /\ j \in 1 .. n
        BY <1>2, <3>1
      <4>3. u[m + j] = t[j]
        BY <1>1, <4>2
      <4>. QED  BY <4>1, <4>2, <4>3
    <3>. QED  BY <3>3, <3>4
  <2>. QED  BY <1>1, <2>1, <2>2
<1>5. Built(u, B, ex)
  BY <1>4 DEF Built
<1>6. Made(u) = Made(s) \cup Made(t)
  BY <1>1 DEF Made
<1>. QED  BY <1>1, <1>5, <1>6 DEF u

LEMMA BuiltPostgres ==
  ASSUME TypeOK, driver = "postgres"
  PROVE  Built(PostgresConverge(config), {}, Excused)
<1> DEFINE c == config
           ex == Excused
           PutRole(r) == Simple("put", Role(r.name), r.password)
           R == [i \in DOMAIN c.roles |-> PutRole(c.roles[i])]
           D == <<PutDatabase(c)>>
           S == [i \in DOMAIN c.schemas |-> EnsureSchema(c.schemas[i])]
           E == [i \in DOMAIN c.extensions |-> CreateExtension(c.extensions[i])]
           G == [i \in DOMAIN c.grants |-> Grant(c.grants[i])]
<1>1. PostgresShape(c)
  <2>1. config \in Configs(driver) /\ driver \in Drivers
    BY DEF TypeOK, Configs
  <2>. QED  BY <2>1, ShapeOf
<1>2. /\ PostgresConverge(c) = (((R \o D) \o S) \o E) \o G
      /\ IsSeq(R) /\ IsSeq(D) /\ IsSeq(S) /\ IsSeq(E) /\ IsSeq(G)
  BY <1>1, PostgresParts
<1>3. Range(D) = {PutDatabase(c)}
  BY SingleSeq
<1>4. /\ Range(R) = {PutRole(r) : r \in Range(c.roles)}
      /\ Range(S) = {EnsureSchema(s) : s \in Range(c.schemas)}
      /\ Range(G) = {Grant(g) : g \in Range(c.grants)}
  <2> HIDE DEF PutRole
  <2>. QED  BY DEF Range
<1>5. /\ \A i \in DOMAIN c.extensions : E[i] = CreateExtension(c.extensions[i])
      /\ Len(E) = Len(c.extensions) /\ DOMAIN c.extensions = 1 .. Len(c.extensions)
  <2>1. IsSeq(c.extensions) /\ IsSeq(E) /\ DOMAIN E = DOMAIN c.extensions
    BY <1>1, <1>2 DEF PostgresShape
  <2>2. DOMAIN E = 1 .. Len(E) /\ Len(E) \in Nat
        /\ DOMAIN c.extensions = 1 .. Len(c.extensions) /\ Len(c.extensions) \in Nat
    BY <2>1, SeqFacts
  <2>3. Len(E) = Len(c.extensions)
    <3> DEFINE a == Len(E)
               b == Len(c.extensions)
    <3>1. a \in Nat /\ b \in Nat /\ 1 .. a = 1 .. b
      BY <2>1, <2>2
    <3> HIDE DEF a, b
    <3>2. a \in 1 .. a <=> a \in 1 .. b
      BY <3>1
    <3>3. b \in 1 .. b <=> b \in 1 .. a
      BY <3>1
    <3>4. a = b
      BY <3>1, <3>2, <3>3
    <3>. QED  BY <3>4 DEF a, b
  <2>4. \A i \in DOMAIN c.extensions : E[i] = CreateExtension(c.extensions[i])
    OBVIOUS
  <2>. QED  BY <2>2, <2>3, <2>4
<1>6. ~ex => /\ c.owner \in {r.name : r \in Range(c.roles)} \cup {NoName}
             /\ \A s \in Range(c.schemas) :
                   s.owner \in {r.name : r \in Range(c.roles)} \cup {NoName}
             /\ \A g \in Range(c.grants) :
                   /\ g.role \in {r.name : r \in Range(c.roles)} \cup {NoName}
                   /\ g.schema \in {s.name : s \in Range(c.schemas)} \cup {NoName}
                   /\ g.database \in {NoName, Inst}
             /\ \A i \in DOMAIN c.extensions :
                   /\ c.extensions[i].schema
                         \in {s.name : s \in Range(c.schemas)} \cup {NoName}
                   /\ \/ c.extensions[i].cascade
                      \/ Range(Requires(Alias(c.extensions[i].name)))
                             \subseteq DeclaredBefore(i)
  BY DEF Excused, Dangling
<1> HIDE DEF ex, R, D, S, E, G
<1> DEFINE roles == {Role(r.name) : r \in Range(c.roles)}
           schemas == {Schema(s.name) : s \in Range(c.schemas)}
<1>7. Made(R) = roles /\ Database \in Made(D) /\ Made(S) = schemas
  <2>1. \A r : Creates(PutRole(r)) /\ PutRole(r).obj = Role(r.name)
    BY DEF Creates, Simple, Stmt
  <2>2. \A s : Creates(EnsureSchema(s)) /\ EnsureSchema(s).obj = Schema(s.name)
    BY DEF Creates, EnsureSchema, Stmt
  <2>3. Creates(PutDatabase(c)) /\ PutDatabase(c).obj = Database
    BY DEF Creates, PutDatabase, Stmt
  <2> HIDE DEF PutRole
  <2>4. \A s, n : n \in Made(s) <=> \E t \in Range(s) : Creates(t) /\ n = t.obj
    BY DEF Made
  <2>5. Made(R) = roles
    <3>1. \A t : t \in Range(R) <=> \E r \in Range(c.roles) : t = PutRole(r)
      BY <1>4
    <3>. QED  BY <2>1, <2>4, <3>1
  <2>6. Made(S) = schemas
    <3>1. \A t : t \in Range(S) <=> \E s \in Range(c.schemas) : t = EnsureSchema(s)
      BY <1>4
    <3>. QED  BY <2>2, <2>4, <3>1
  <2>. QED  BY <1>3, <2>3, <2>4, <2>5, <2>6
<1>8. \A n : ~ex /\ n \in {r.name : r \in Range(c.roles)} \cup {NoName}
                => RolesNamed(n) \subseteq roles
  BY DEF RolesNamed
<1> HIDE DEF roles, schemas
<1>9. Built(R, {}, ex)
  <2>1. \A r : Wants(PutRole(r), ex) = {}
    BY DEF Wants, Named, Simple, Stmt
  <2> HIDE DEF PutRole
  <2>. QED  BY <1>2, <1>4, <2>1, BuiltEach
<1>10. Built(D, {} \cup Made(R), ex)
  <2>1. Wants(PutDatabase(c), ex) \subseteq roles
    <3>1. Wants(PutDatabase(c), ex) = IF ex THEN {} ELSE RolesNamed(c.owner)
      BY DEF Wants, Named, PutDatabase, Stmt
    <3>. QED  BY <1>6, <1>8, <3>1
  <2>. QED  BY <1>2, <1>3, <1>7, <2>1, BuiltEach
<1>11. /\ Built(R \o D, {}, ex) /\ IsSeq(R \o D)
       /\ Made(R \o D) = Made(R) \cup Made(D)
  BY <1>2, <1>9, <1>10, BuiltConcat
<1>12. Built(S, {} \cup Made(R \o D), ex)
  <2>1. ASSUME NEW s \in Range(c.schemas)
        PROVE  Wants(EnsureSchema(s), ex) \subseteq Made(R) \cup Made(D)
    <3>1. Wants(EnsureSchema(s), ex)
            = {Database} \cup (IF ex THEN {} ELSE RolesNamed(s.owner))
      BY DEF Wants, Named, EnsureSchema, Stmt
    <3>. QED  BY <1>6, <1>7, <1>8, <3>1
  <2>. QED  BY <1>2, <1>4, <1>11, <2>1, BuiltEach
<1>13. /\ Built((R \o D) \o S, {}, ex) /\ IsSeq((R \o D) \o S)
       /\ Made((R \o D) \o S) = Made(R \o D) \cup Made(S)
  BY <1>2, <1>11, <1>12, BuiltConcat
<1> DEFINE B == Made(R) \cup Made(D) \cup Made(S)
<1>14. Built(E, B, ex)
  <2>1. ASSUME NEW i \in 1 .. Len(E), NEW n \in Wants(E[i], ex), n \notin B
        PROVE  \E j \in 1 .. i - 1 : Creates(E[j]) /\ E[j].obj = n
    <3> DEFINE e == c.extensions[i]
    <3>1. i \in DOMAIN c.extensions /\ E[i] = CreateExtension(e)
      BY <1>5
    <3>2. Wants(CreateExtension(e), ex)
            = {Database} \cup
                (IF ex THEN {}
                 ELSE (IF e.schema = NoName THEN {} ELSE {Schema(e.schema)})
                        \cup (IF e.cascade THEN {}
                              ELSE {Extension(b) : b \in Range(Requires(Alias(e.name)))}))
      BY DEF Wants, Named, CreateExtension, Stmt
    <3>3. ~ex
      BY <1>7, <2>1, <3>1, <3>2
    <3>4. e.schema # NoName => Schema(e.schema) \in Made(S)
      <4>1. e.schema # NoName => \E s \in Range(c.schemas) : e.schema = s.name
        BY <1>6, <3>1, <3>3
      <4>. QED  BY <1>7, <4>1 DEF schemas
    <3>5. PICK b \in Range(Requires(Alias(e.name))) : n = Extension(b) /\ ~e.cascade
      BY <1>7, <2>1, <3>1, <3>2, <3>3, <3>4
    <3>6. b \in DeclaredBefore(i)
      BY <1>6, <3>1, <3>3, <3>5
    <3>7. PICK j \in 1 .. i - 1 : b = Alias(c.extensions[j].name)
      BY <3>6 DEF DeclaredBefore
    <3>8. j \in DOMAIN c.extensions
      <4>1. Len(E) \in Nat
        BY <1>2, SeqFacts
      <4>2. j \in 1 .. Len(E)
        BY <4>1
      <4>. QED  BY <1>5, <4>2
    <3>9. E[j] = CreateExtension(c.extensions[j])
      BY <1>5, <3>8
    <3>10. Creates(E[j]) /\ E[j].obj = n
      <4>1. \A x : /\ CreateExtension(x).do \in {"install", "install cascade"}
                   /\ CreateExtension(x).obj = Extension(Alias(x.name))
        BY DEF CreateExtension, Stmt
      <4>. QED  BY <3>5, <3>7, <3>9, <4>1 DEF Creates
    <3>. QED  BY <3>10
  <2> HIDE DEF B
  <2>. QED  BY <2>1 DEF Built
<1>15. {} \cup Made((R \o D) \o S) = B
  BY <1>11, <1>13
<1>16. /\ Built(((R \o D) \o S) \o E, {}, ex) /\ IsSeq(((R \o D) \o S) \o E)
       /\ Made(((R \o D) \o S) \o E) = Made((R \o D) \o S) \cup Made(E)
  <2> HIDE DEF B
  <2>1. Built(E, {} \cup Made((R \o D) \o S), ex)
    BY <1>14, <1>15
  <2>. QED  BY <1>2, <1>13, <2>1, BuiltConcat
<1>17. Built(G, {} \cup Made(((R \o D) \o S) \o E), ex)
  <2>1. ASSUME NEW g \in Range(c.grants)
        PROVE  Wants(Grant(g), ex) \subseteq B
    <3>1. g.role # NoName /\ (g.database = NoName) # (g.schema = NoName)
      BY <1>1 DEF PostgresShape, ValidGrant
    <3>2. /\ Grant(g).do = "grant" /\ Grant(g).obj = Role(g.role)
          /\ Grant(g).needs = IF g.database # NoName
                              THEN {<<"database", <<g.database>>>>}
                              ELSE {Schema(g.schema)}
          /\ Grant(g).db \subseteq {Database}
      BY DEF Grant, Stmt
    <3>3. Wants(Grant(g), ex)
            = Grant(g).db \cup (IF ex THEN {} ELSE Grant(g).needs \cup {Role(g.role)})
      BY <3>2 DEF Wants, Named
    <3>4. CASE ex
      BY <1>7, <3>2, <3>3, <3>4
    <3>5. CASE ~ex
      <4>1. Role(g.role) \in Made(R)
        BY <1>6, <1>7, <3>1, <3>5 DEF roles
      <4>2. g.database # NoName => <<"database", <<g.database>>>> = Database
        BY <1>6, <3>5 DEF Database
      <4>3. g.database = NoName => Schema(g.schema) \in Made(S)
        BY <1>6, <1>7, <3>1, <3>5 DEF schemas
      <4>. QED  BY <1>7, <3>2, <3>3, <3>5, <4>1, <4>2, <4>3
    <3>. QED  BY <3>4, <3>5
  <2>2. B \subseteq {} \cup Made(((R \o D) \o S) \o E)
    BY <1>15, <1>16
  <2> HIDE DEF B
  <2>3. \A st \in Range(G) : Wants(st, ex) \subseteq {} \cup Made(((R \o D) \o S) \o E)
    BY <1>4, <2>1, <2>2
  <2>. QED  BY <1>2, <2>3, BuiltEach
<1>18. Built((((R \o D) \o S) \o E) \o G, {}, ex)
  BY <1>2, <1>16, <1>17, BuiltConcat
<1>. QED  BY <1>2, <1>18 DEF ex

LEMMA BuiltMaria ==
  ASSUME TypeOK, driver = "mariadb"
  PROVE  Built(MariaConverge(config), {}, Excused)
<1> DEFINE c == config
           ex == Excused
           D == <<Simple("ensure", Database, NoName)>>
           L == UserLists(c)
           U == FlattenSeq(L)
           G == [i \in DOMAIN c.grants |-> GrantUser(c.grants[i])]
           F == IF c.grants = <<>> THEN <<>> ELSE <<Flush>>
<1>1. MariaShape(c)
  <2>1. config \in Configs(driver) /\ driver \in Drivers
    BY DEF TypeOK, Configs
  <2>. QED  BY <2>1, ShapeOf
<1>2. /\ MariaConverge(c) = ((D \o U) \o G) \o F
      /\ IsSeq(D) /\ IsSeq(U) /\ IsSeq(G) /\ IsSeq(F) /\ IsSeq(L)
      /\ \A k \in DOMAIN L : IsSeq(L[k])
      /\ Range(F) \subseteq {Flush}
      /\ Range(G) = {GrantUser(g) : g \in Range(c.grants)}
  BY <1>1, MariaParts
<1>3. Range(D) = {Simple("ensure", Database, NoName)}
  BY SingleSeq
<1>4. /\ \A k \in DOMAIN L : \E u \in Range(c.users) : L[k] = ConvergeUser(u)
      /\ \A u \in Range(c.users) : \E k \in DOMAIN L : L[k] = ConvergeUser(u)
  BY DEF UserLists, Range
<1>5. ~ex => \A g \in Range(c.grants) : \E u \in Range(c.users) :
                <<g.user, g.host>> = <<u.name, u.host>>
  BY DEF Excused, DanglingGrant
<1> HIDE DEF ex, D, L, G, F
<1>6. Flattened(U, L, Len(L)) /\ DOMAIN L = 1 .. Len(L)
  BY <1>2, Flatten, SeqFacts
<1> HIDE DEF U
<1> DEFINE first(u) == Simple("ensure", User(u.name, u.host), u.password)
           second(u) == Simple("alter", User(u.name, u.host), u.password)
<1>7. \A u : /\ Creates(first(u)) /\ first(u).obj = User(u.name, u.host)
             /\ Wants(first(u), ex) = {}
             /\ Wants(second(u), ex) \subseteq {User(u.name, u.host)}
  BY DEF Creates, Wants, Named, Simple, Stmt
<1>8. \A u : /\ Len(ConvergeUser(u)) \in {1, 2} /\ ConvergeUser(u)[1] = first(u)
             /\ Len(ConvergeUser(u)) = 2 => ConvergeUser(u)[2] = second(u)
  BY ConvergeUserIs
<1> HIDE DEF first, second
<1>9. Built(D, {}, ex)
  <2>1. Wants(Simple("ensure", Database, NoName), ex) = {}
    BY DEF Wants, Named, Simple, Stmt
  <2>. QED  BY <1>2, <1>3, <2>1, BuiltEach
<1>10. Built(U, {} \cup Made(D), ex)
  <2>1. ASSUME NEW i \in 1 .. Len(U), NEW n \in Wants(U[i], ex)
        PROVE  \E j \in 1 .. i - 1 : Creates(U[j]) /\ U[j].obj = n
    <3>1. PICK k \in 1 .. Len(L), o \in Nat :
             Block(U, o, L[k]) /\ i - o \in 1 .. Len(L[k])
      BY <1>6 DEF Flattened
    <3>2. PICK u \in Range(c.users) : L[k] = ConvergeUser(u)
      BY <1>4, <1>6
    <3>3. \A l \in 1 .. Len(L[k]) : U[o + l] = L[k][l]
      BY <3>1 DEF Block
    <3> DEFINE l == i - o
               len == Len(L[k])
    <3>4. /\ len \in {1, 2} /\ l \in 1 .. len /\ i = o + l
          /\ L[k][1] = first(u) /\ (len = 2 => L[k][2] = second(u))
      BY <1>8, <3>1, <3>2
    <3>5. U[i] = L[k][l] /\ U[o + 1] = L[k][1]
      <4>1. 1 \in 1 .. len
        BY <3>4
      <4>2. \A h \in 1 .. len : U[o + h] = L[k][h]
        BY <3>3
      <4> HIDE DEF l, len
      <4>. QED  BY <3>4, <4>1, <4>2
    <3> HIDE DEF l, len
    <3>6. l = 2 /\ len = 2
      <4>1. l \in {1, 2}
        BY <3>4
      <4>2. l # 1
        BY <1>7, <2>1, <3>4, <3>5
      <4>. QED  BY <3>4, <4>1, <4>2
    <3>7. n = User(u.name, u.host)
      BY <1>7, <2>1, <3>4, <3>5, <3>6
    <3>8. o + 1 \in 1 .. i - 1
      BY <3>4, <3>6
    <3>. QED  BY <1>7, <3>4, <3>5, <3>7, <3>8
  <2>. QED  BY <2>1 DEF Built
<1>11. /\ Built(D \o U, {}, ex) /\ IsSeq(D \o U)
       /\ Made(D \o U) = Made(D) \cup Made(U)
  BY <1>2, <1>9, <1>10, BuiltConcat
<1>12. Built(G, {} \cup Made(D \o U), ex)
  <2>1. ASSUME NEW g \in Range(c.grants)
        PROVE  Wants(GrantUser(g), ex) \subseteq Made(U)
    <3>1. Wants(GrantUser(g), ex) = IF ex THEN {} ELSE {User(g.user, g.host)}
      BY DEF Wants, Named, GrantUser, Stmt
    <3>2. ASSUME ~ex
          PROVE  User(g.user, g.host) \in Made(U)
      <4>1. PICK u \in Range(c.users) : <<g.user, g.host>> = <<u.name, u.host>>
        BY <1>5, <3>2
      <4>2. g.user = u.name /\ g.host = u.host
        BY <4>1
      <4>3. PICK k \in DOMAIN L : L[k] = ConvergeUser(u)
        BY <1>4
      <4>4. first(u) \in Range(L[k])
        <5>1. Len(L[k]) \in {1, 2} /\ L[k][1] = first(u)
          BY <1>8, <4>3
        <5>2. \A l \in 1 .. Len(L[k]) : L[k][l] \in Range(L[k])
          BY <1>2, SeqFacts
        <5>3. 1 \in 1 .. Len(L[k])
          BY <5>1
        <5>. QED  BY <5>1, <5>2, <5>3
      <4>5. first(u) \in Range(U)
        <5>1. Range(FlattenSeq(L)) = Range(U)
          BY DEF U
        <5>2. \A x : x \in Range(FlattenSeq(L)) <=> \E h \in DOMAIN L : x \in Range(L[h])
          BY <1>2, FlattenRange
        <5>. QED  BY <4>4, <5>1, <5>2
      <4>. QED  BY <1>7, <4>2, <4>5 DEF Made
    <3>. QED  BY <3>1, <3>2
  <2>. QED  BY <1>2, <1>11, <2>1, BuiltEach
<1>13. Built((D \o U) \o G, {}, ex) /\ IsSeq((D \o U) \o G)
  BY <1>2, <1>11, <1>12, BuiltConcat
<1>14. Built(F, {} \cup Made((D \o U) \o G), ex)
  <2>1. Wants(Flush, ex) = {}
    BY DEF Wants, Named, Flush, Simple, Stmt
  <2>. QED  BY <1>2, <2>1, BuiltEach
<1>15. Built(((D \o U) \o G) \o F, {}, ex)
  BY <1>2, <1>13, <1>14, BuiltConcat
<1>. QED  BY <1>2, <1>15 DEF ex

LEMMA BuiltAll ==
  ASSUME TypeOK
  PROVE  Built(Converge(driver, config), {}, Excused)
<1>1. config \in Configs(driver) /\ driver \in Drivers /\ driver \in DriverNames
  BY BodiesAssumption DEF TypeOK, Configs
<1>2. CASE driver = "postgres"
  BY <1>2, BuiltPostgres DEF Converge
<1>3. CASE driver = "mariadb"
  BY <1>3, BuiltMaria DEF Converge
<1>4. CASE driver \in {"ferret", "temporal", "kafka", "aws", "valkey", "kvrocks"}
  <2> DEFINE C == Converge(driver, config)
  <2>1. \A do, obj, val : do \notin {"grant", "alter", "delete"}
           => Wants(Simple(do, obj, val), Excused) = {}
    BY DEF Wants, Named, Simple, Stmt
  <2>2. /\ \A db, coll : Wants(EnsureCollection(db, coll), Excused) = {}
        /\ \A n : Wants(Upsert(n), Excused) = {}
        /\ \A n : Wants(EnsureTopic(n), Excused) = {}
        /\ \A k, n, b : Wants(Resource(k, n, b), Excused) = {}
    BY <2>1 DEF EnsureCollection, Upsert, EnsureTopic, Resource
  <2>3. \A st \in Range(C) : Wants(st, Excused) = {}
    <3>1. CASE driver = "ferret"
      BY <1>1, <2>2, <3>1, ShapeOf, FerretConvergeAre DEF Converge
    <3>2. CASE driver = "temporal"
      BY <1>1, <2>2, <3>2, ShapeOf, TemporalConvergeAre DEF Converge
    <3>3. CASE driver = "kafka"
      BY <1>1, <2>2, <3>3, ShapeOf, KafkaConvergeAre DEF Converge
    <3>4. CASE driver = "aws"
      BY <1>1, <2>2, <3>4, ShapeOf, AwsConvergeAre DEF Converge
    <3>5. CASE driver \in {"valkey", "kvrocks"}
      BY <3>5, NoSeq DEF Converge
    <3>. QED  BY <1>4, <3>1, <3>2, <3>3, <3>4, <3>5
  <2>4. IsSeq(C)
    BY <1>1, ConvergesAll
  <2> HIDE DEF C
  <2>5. Built(C, {}, Excused)
    BY <2>3, <2>4, BuiltEach
  <2>. QED  BY <2>5 DEF C
<1>. QED  BY <1>1, <1>2, <1>3, <1>4 DEF DriverNames
-----------------------------------------------------------------------------
(* Whatever a statement of a pass needs is there when its turn comes.      *)

Supplied(s, D, ex) ==
    \A i \in 1 .. Len(s) : ~Prunes(s[i]) =>
        \A n \in Wants(s[i], ex) :
            \/ \E j \in 1 .. i - 1 :
                  /\ Creates(s[j]) /\ s[j].obj = n
                  /\ \A k \in j + 1 .. i - 1 : ~Prunes(s[k])
            \/ n \in D /\ \A k \in 1 .. i - 1 : ~Prunes(s[k])

Lasting == {"database", "namespace"}

\* A prune needs nothing that a prune before it takes away.
Undropped(s, D) ==
    \A i \in 1 .. Len(s) : Prunes(s[i]) =>
        \A n \in s[i].db \cup Named(s[i]) :
            /\ n \in D /\ n[1] \in Lasting
            /\ \A j \in 1 .. i - 1 : Prunes(s[j]) => s[j].obj # n

LEMMA SuppliedWith ==
  ASSUME NEW P, IsSeq(P), \A st \in Range(P) : Prunes(st),
         NEW C, IsSeq(C), \A st \in Range(C) : ~Prunes(st),
         NEW ex, Built(C, {}, ex), NEW D
  PROVE  Supplied(C, D, ex) /\ Supplied(P \o C, D, ex) /\ Supplied(C \o P, D, ex)
<1> DEFINE m == Len(P)
           n == Len(C)
<1>0. m \in Nat /\ n \in Nat
  BY SeqFacts
<1>1. /\ m \in Nat /\ n \in Nat
      /\ \A i \in 1 .. m : Prunes(P[i])
      /\ \A i \in 1 .. n : ~Prunes(C[i])
  <2>1. m \in Nat /\ \A i \in 1 .. m : P[i] \in Range(P)
    BY SeqFacts
  <2>2. n \in Nat /\ \A i \in 1 .. n : C[i] \in Range(C)
    BY SeqFacts
  <2>. QED  BY <2>1, <2>2
<1>2. /\ Len(P \o C) = m + n
      /\ \A i \in 1 .. m : (P \o C)[i] = P[i]
      /\ \A i \in 1 .. n : (P \o C)[m + i] = C[i]
      /\ \A i \in 1 .. Len(P \o C) : i <= m \/ i - m \in 1 .. n
  BY Concat
<1>3. /\ Len(C \o P) = n + m
      /\ \A i \in 1 .. n : (C \o P)[i] = C[i]
      /\ \A i \in 1 .. m : (C \o P)[n + i] = P[i]
      /\ \A i \in 1 .. Len(C \o P) : i <= n \/ i - n \in 1 .. m
  BY Concat
<1>4. \A i \in 1 .. n : \A x \in Wants(C[i], ex) :
         \E j \in 1 .. i - 1 : Creates(C[j]) /\ C[j].obj = x
  BY DEF Built
<1> HIDE DEF m, n
<1>5. Supplied(C, D, ex)
  <2>1. ASSUME NEW i \in 1 .. n, NEW x \in Wants(C[i], ex)
        PROVE  \E j \in 1 .. i - 1 :
                  /\ Creates(C[j]) /\ C[j].obj = x
                  /\ \A k \in j + 1 .. i - 1 : ~Prunes(C[k])
    <3>1. PICK j \in 1 .. i - 1 : Creates(C[j]) /\ C[j].obj = x
      BY <1>4
    <3>2. \A k \in j + 1 .. i - 1 : k \in 1 .. n
      BY <1>0
    <3>3. \A k \in j + 1 .. i - 1 : ~Prunes(C[k])
      BY <1>1, <3>2
    <3>. QED  BY <3>1, <3>3
  <2>. QED  BY <2>1 DEF Supplied, n
<1>6. Supplied(C \o P, D, ex)
  <2> DEFINE s == C \o P
  <2>1. /\ Len(s) = n + m
        /\ \A i \in 1 .. n : s[i] = C[i]
        /\ \A i \in 1 .. m : s[n + i] = P[i]
        /\ \A i \in 1 .. Len(s) : i <= n \/ i - n \in 1 .. m
    BY <1>3
  <2> HIDE DEF s
  <2>2. ASSUME NEW i \in 1 .. Len(s), ~Prunes(s[i]), NEW x \in Wants(s[i], ex)
        PROVE  \E j \in 1 .. i - 1 :
                  /\ Creates(s[j]) /\ s[j].obj = x
                  /\ \A k \in j + 1 .. i - 1 : ~Prunes(s[k])
    <3>1. i <= n
      <4>1. ASSUME i - n \in 1 .. m
            PROVE  FALSE
        <5> DEFINE h == i - n
        <5>1. h \in 1 .. m /\ i = n + h
          BY <1>0, <4>1
        <5> HIDE DEF h
        <5>2. s[i] = P[h]
          BY <2>1, <5>1
        <5>3. Prunes(P[h])
          BY <1>1, <5>1
        <5>. QED  BY <2>2, <5>2, <5>3
      <4>. QED  BY <2>1, <4>1
    <3>2. i \in 1 .. n
      BY <1>0, <2>1, <3>1
    <3>3. PICK j \in 1 .. i - 1 : Creates(C[j]) /\ C[j].obj = x
      BY <1>4, <2>1, <2>2, <3>2
    <3>4. j \in 1 .. n /\ \A k \in j + 1 .. i - 1 : k \in 1 .. n
      BY <1>0, <3>2
    <3>5. \A k \in 1 .. n : ~Prunes(C[k]) /\ s[k] = C[k]
      BY <1>1, <2>1
    <3>6. \A k \in j + 1 .. i - 1 : ~Prunes(s[k])
      BY <3>4, <3>5
    <3>. QED  BY <3>3, <3>4, <3>5, <3>6
  <2>3. Supplied(s, D, ex)
    BY <2>2 DEF Supplied
  <2>. QED  BY <2>3 DEF s
<1>7. Supplied(P \o C, D, ex)
  <2> DEFINE s == P \o C
  <2>1. /\ Len(s) = m + n
        /\ \A i \in 1 .. m : s[i] = P[i]
        /\ \A i \in 1 .. n : s[m + i] = C[i]
        /\ \A i \in 1 .. Len(s) : i <= m \/ i - m \in 1 .. n
    BY <1>2
  <2> HIDE DEF s
  <2>2. ASSUME NEW i \in 1 .. Len(s), ~Prunes(s[i]), NEW x \in Wants(s[i], ex)
        PROVE  \E j \in 1 .. i - 1 :
                  /\ Creates(s[j]) /\ s[j].obj = x
                  /\ \A k \in j + 1 .. i - 1 : ~Prunes(s[k])
    <3> DEFINE h == i - m
    <3>1. h \in 1 .. n /\ i = m + h
      <4>1. ~(i <= m)
        <5>1. ASSUME i <= m
              PROVE  FALSE
          <6>1. i \in 1 .. m
            BY <1>0, <5>1
          <6>2. s[i] = P[i] /\ Prunes(P[i])
            BY <1>1, <2>1, <6>1
          <6>. QED  BY <2>2, <6>2
        <5>. QED  BY <5>1
      <4>2. i - m \in 1 .. n
        BY <2>1, <4>1
      <4>. QED  BY <1>0, <4>2
    <3> HIDE DEF h
    <3>2. s[i] = C[h]
      BY <2>1, <3>1
    <3>3. PICK j \in 1 .. h - 1 : Creates(C[j]) /\ C[j].obj = x
      BY <1>4, <2>2, <3>1, <3>2
    <3>4. j \in 1 .. n /\ m + j \in 1 .. i - 1
      BY <1>0, <3>1
    <3>5. s[m + j] = C[j]
      BY <2>1, <3>4
    <3>6. ASSUME NEW k \in (m + j) + 1 .. i - 1
          PROVE  ~Prunes(s[k])
      <4> DEFINE l == k - m
      <4>1. l \in 1 .. n /\ k = m + l
        BY <1>0, <3>1, <3>4
      <4> HIDE DEF l
      <4>2. s[k] = C[l] /\ ~Prunes(C[l])
        BY <1>1, <2>1, <4>1
      <4>. QED  BY <4>2
    <3>. QED  BY <3>3, <3>4, <3>5, <3>6
  <2>3. Supplied(s, D, ex)
    BY <2>2 DEF Supplied
  <2>. QED  BY <2>3 DEF s
<1>. QED  BY <1>5, <1>6, <1>7

LEMMA SuppliedTail ==
  ASSUME NEW s, IsSeq(s), s # <<>>, NEW D, NEW ex, Supplied(s, D, ex), NEW E,
         ~Prunes(Head(s)) =>
             D \subseteq E /\ (Creates(Head(s)) => Head(s).obj \in E)
  PROVE  Supplied(Tail(s), E, ex)
<1> DEFINE t == Tail(s)
           n == Len(s)
           x == Head(s)
<1>1. /\ Len(t) = n - 1 /\ n \in Nat \ {0} /\ x = s[1]
      /\ \A i \in 1 .. n - 1 : t[i] = s[i + 1]
  BY HeadAndTail
<1>2. \A i \in 1 .. n : ~Prunes(s[i]) =>
        \A a \in Wants(s[i], ex) :
            \/ \E j \in 1 .. i - 1 :
                  /\ Creates(s[j]) /\ s[j].obj = a
                  /\ \A k \in j + 1 .. i - 1 : ~Prunes(s[k])
            \/ a \in D /\ \A k \in 1 .. i - 1 : ~Prunes(s[k])
  BY DEF Supplied
<1>3. ~Prunes(x) => D \subseteq E /\ (Creates(x) => x.obj \in E)
  OBVIOUS
<1>4. n \in Nat
  BY <1>1
<1> HIDE DEF t, n, x
<1>5. ASSUME NEW i \in 1 .. n - 1, ~Prunes(t[i]), NEW a \in Wants(t[i], ex)
      PROVE  \/ \E j \in 1 .. i - 1 :
                   /\ Creates(t[j]) /\ t[j].obj = a
                   /\ \A k \in j + 1 .. i - 1 : ~Prunes(t[k])
             \/ a \in E /\ \A k \in 1 .. i - 1 : ~Prunes(t[k])
  <2>1. i + 1 \in 1 .. n /\ t[i] = s[i + 1] /\ (i + 1) - 1 = i
    BY <1>1, <1>4
  <2>2. \/ \E j \in 1 .. i :
              /\ Creates(s[j]) /\ s[j].obj = a
              /\ \A k \in j + 1 .. i : ~Prunes(s[k])
        \/ a \in D /\ \A k \in 1 .. i : ~Prunes(s[k])
    BY <1>2, <1>5, <2>1
  <2>3. \A k \in 1 .. i - 1 : t[k] = s[k + 1] /\ k + 1 \in 1 .. i
    BY <1>1, <1>4
  <2>4. ASSUME a \in D, \A k \in 1 .. i : ~Prunes(s[k])
        PROVE  a \in E /\ \A k \in 1 .. i - 1 : ~Prunes(t[k])
    <3>1. 1 \in 1 .. i
      OBVIOUS
    <3>2. a \in E
      BY <1>1, <1>3, <2>4, <3>1
    <3>. QED  BY <2>3, <2>4, <3>2
  <2>5. ASSUME NEW j \in 1 .. i, Creates(s[j]), s[j].obj = a,
               \A k \in j + 1 .. i : ~Prunes(s[k])
        PROVE  \/ \E h \in 1 .. i - 1 :
                     /\ Creates(t[h]) /\ t[h].obj = a
                     /\ \A k \in h + 1 .. i - 1 : ~Prunes(t[k])
               \/ a \in E /\ \A k \in 1 .. i - 1 : ~Prunes(t[k])
    <3>1. CASE j = 1
      <4>1. a \in E
        BY <1>1, <1>3, <2>5, <3>1 DEF Creates, Prunes
      <4>2. \A k \in 1 .. i - 1 : k + 1 \in j + 1 .. i
        BY <3>1
      <4>. QED  BY <2>3, <2>5, <4>1, <4>2
    <3>2. CASE j # 1
      <4> DEFINE h == j - 1
      <4>1. h \in 1 .. i - 1 /\ h + 1 = j
        BY <3>2
      <4>2. \A k \in h + 1 .. i - 1 : k \in 1 .. i - 1 /\ k + 1 \in j + 1 .. i
        BY <4>1
      <4> HIDE DEF h
      <4>. QED  BY <2>3, <2>5, <4>1, <4>2
    <3>. QED  BY <3>1, <3>2
  <2>. QED  BY <2>2, <2>4, <2>5
<1>6. Len(t) = n - 1
  BY <1>1
<1>7. Supplied(t, E, ex)
  BY <1>5, <1>6 DEF Supplied
<1>. QED  BY <1>7 DEF t

LEMMA UndroppedTail ==
  ASSUME NEW s, IsSeq(s), s # <<>>, NEW D, Undropped(s, D), NEW E,
         \A n \in D : n[1] \in Lasting /\ (Prunes(Head(s)) => Head(s).obj # n)
                        => n \in E
  PROVE  Undropped(Tail(s), E)
<1> DEFINE t == Tail(s)
           n == Len(s)
           x == Head(s)
<1>1. /\ Len(t) = n - 1 /\ n \in Nat \ {0} /\ x = s[1]
      /\ \A i \in 1 .. n - 1 : t[i] = s[i + 1]
  BY HeadAndTail
<1>2. \A i \in 1 .. n : Prunes(s[i]) =>
        \A a \in s[i].db \cup Named(s[i]) :
            /\ a \in D /\ a[1] \in Lasting
            /\ \A j \in 1 .. i - 1 : Prunes(s[j]) => s[j].obj # a
  BY DEF Undropped
<1>3. \A a \in D : a[1] \in Lasting /\ (Prunes(x) => x.obj # a) => a \in E
  OBVIOUS
<1>4. n \in Nat
  BY <1>1
<1> HIDE DEF t, n, x
<1>5. ASSUME NEW i \in 1 .. n - 1, Prunes(t[i]), NEW a \in t[i].db \cup Named(t[i])
      PROVE  /\ a \in E /\ a[1] \in Lasting
             /\ \A j \in 1 .. i - 1 : Prunes(t[j]) => t[j].obj # a
  <2>1. i + 1 \in 1 .. n /\ t[i] = s[i + 1] /\ (i + 1) - 1 = i /\ 1 \in 1 .. i
    BY <1>1, <1>4
  <2>2. /\ a \in D /\ a[1] \in Lasting
        /\ \A j \in 1 .. i : Prunes(s[j]) => s[j].obj # a
    BY <1>2, <1>5, <2>1
  <2>3. \A k \in 1 .. i - 1 : t[k] = s[k + 1] /\ k + 1 \in 1 .. i
    BY <1>1, <1>4
  <2>4. a \in E
    BY <1>1, <1>3, <2>1, <2>2
  <2>. QED  BY <2>2, <2>3, <2>4
<1>6. Len(t) = n - 1
  BY <1>1
<1>7. Undropped(t, E)
  BY <1>5, <1>6 DEF Undropped
<1>. QED  BY <1>7 DEF t

LEMMA UndroppedWith ==
  ASSUME NEW P, IsSeq(P), NEW C, IsSeq(C), \A st \in Range(C) : ~Prunes(st),
         NEW D, Undropped(P, D)
  PROVE  Undropped(C, D) /\ Undropped(P \o C, D) /\ Undropped(C \o P, D)
<1> DEFINE m == Len(P)
           n == Len(C)
<1>0. m \in Nat /\ n \in Nat
  BY SeqFacts
<1>1. m \in Nat /\ n \in Nat /\ \A i \in 1 .. n : ~Prunes(C[i])
  <2>1. m \in Nat
    BY SeqFacts
  <2>2. n \in Nat /\ \A i \in 1 .. n : C[i] \in Range(C)
    BY SeqFacts
  <2>. QED  BY <2>1, <2>2
<1>2. /\ Len(P \o C) = m + n
      /\ \A i \in 1 .. m : (P \o C)[i] = P[i]
      /\ \A i \in 1 .. n : (P \o C)[m + i] = C[i]
      /\ \A i \in 1 .. Len(P \o C) : i <= m \/ i - m \in 1 .. n
  BY Concat
<1>3. /\ Len(C \o P) = n + m
      /\ \A i \in 1 .. n : (C \o P)[i] = C[i]
      /\ \A i \in 1 .. m : (C \o P)[n + i] = P[i]
      /\ \A i \in 1 .. Len(C \o P) : i <= n \/ i - n \in 1 .. m
  BY Concat
<1>4. \A i \in 1 .. m : Prunes(P[i]) =>
        \A x \in P[i].db \cup Named(P[i]) :
            /\ x \in D /\ x[1] \in Lasting
            /\ \A j \in 1 .. i - 1 : Prunes(P[j]) => P[j].obj # x
  BY DEF Undropped
<1>5. Undropped(C, D)
  BY <1>1 DEF Undropped
<1> HIDE DEF m, n
<1>6. Undropped(P \o C, D)
  <2> DEFINE s == P \o C
  <2>1. /\ \A i \in 1 .. m : s[i] = P[i]
        /\ \A i \in 1 .. n : s[m + i] = C[i]
        /\ \A i \in 1 .. Len(s) : i <= m \/ i - m \in 1 .. n
    BY <1>2
  <2> HIDE DEF s
  <2>2. ASSUME NEW i \in 1 .. Len(s), Prunes(s[i])
        PROVE  i \in 1 .. m /\ s[i] = P[i] /\ \A j \in 1 .. i - 1 : s[j] = P[j]
    <3>1. i <= m
      <4>1. ASSUME i - m \in 1 .. n
            PROVE  FALSE
        <5> DEFINE h == i - m
        <5>1. h \in 1 .. n /\ i = m + h
          BY <1>0, <4>1
        <5> HIDE DEF h
        <5>2. s[i] = C[h]
          BY <2>1, <5>1
        <5>3. ~Prunes(C[h])
          BY <1>1, <5>1
        <5>. QED  BY <2>2, <5>2, <5>3
      <4>. QED  BY <2>1, <4>1
    <3>0. Len(s) \in Nat
      BY <1>0, <1>2 DEF s
    <3>2. i \in 1 .. m /\ \A j \in 1 .. i - 1 : j \in 1 .. m
      BY <1>0, <3>0, <3>1
    <3>. QED  BY <2>1, <3>2
  <2>3. Undropped(s, D)
    BY <1>4, <2>2 DEF Undropped
  <2>. QED  BY <2>3 DEF s
<1>7. Undropped(C \o P, D)
  <2> DEFINE s == C \o P
  <2>1. /\ \A i \in 1 .. n : s[i] = C[i]
        /\ \A i \in 1 .. m : s[n + i] = P[i]
        /\ \A i \in 1 .. Len(s) : i <= n \/ i - n \in 1 .. m
    BY <1>3
  <2> HIDE DEF s
  <2>2. ASSUME NEW i \in 1 .. Len(s), Prunes(s[i])
        PROVE  \E h \in 1 .. m : i = n + h
    <3>1. ~(i <= n)
      <4>1. ASSUME i <= n
            PROVE  FALSE
        <5>1. i \in 1 .. n
          BY <1>0, <4>1
        <5>2. s[i] = C[i] /\ ~Prunes(C[i])
          BY <1>1, <2>1, <5>1
        <5>. QED  BY <2>2, <5>2
      <4>. QED  BY <4>1
    <3>2. i - n \in 1 .. m
      BY <2>1, <3>1
    <3>3. i = n + (i - n)
      BY <1>0, <3>2
    <3>. QED  BY <3>2, <3>3
  <2>3. ASSUME NEW i \in 1 .. Len(s), Prunes(s[i]), NEW x \in s[i].db \cup Named(s[i])
        PROVE  /\ x \in D /\ x[1] \in Lasting
               /\ \A j \in 1 .. i - 1 : Prunes(s[j]) => s[j].obj # x
    <3>1. PICK h \in 1 .. m : i = n + h
      BY <2>2, <2>3
    <3>0. \A k \in 1 .. m : s[n + k] = P[k]
      BY <2>1
    <3>2. s[i] = P[h]
      BY <3>0, <3>1
    <3>3. /\ x \in D /\ x[1] \in Lasting
          /\ \A j \in 1 .. h - 1 : Prunes(P[j]) => P[j].obj # x
      BY <1>4, <2>3, <3>2
    <3>4. ASSUME NEW j \in 1 .. i - 1, Prunes(s[j])
          PROVE  s[j].obj # x
      <4>1. Len(s) \in Nat /\ j \in 1 .. Len(s)
        <5>1. Len(s) \in Nat
          BY <1>0, <1>3 DEF s
        <5>. QED  BY <5>1
      <4>2. PICK l \in 1 .. m : j = n + l
        BY <2>2, <3>4, <4>1
      <4>3. l \in 1 .. h - 1
        BY <1>0, <3>1, <4>2
      <4>4. s[j] = P[l]
        BY <3>0, <4>2
      <4>. QED  BY <3>3, <3>4, <4>3, <4>4
    <3>. QED  BY <3>3, <3>4
  <2>4. Undropped(s, D)
    BY <2>3 DEF Undropped
  <2>. QED  BY <2>4 DEF s
<1>. QED  BY <1>5, <1>6, <1>7
-----------------------------------------------------------------------------
(* Names: what makes a statement malformed is a name that the block gives. *)

Nameless(st) == \E o \in {st.obj} \cup st.needs : NoName \in Range(o[2])

LEMMA PairRange ==
  ASSUME NEW x, NEW y
  PROVE  Range(<<x, y>>) = {x, y}
<1>1. DOMAIN <<x, y>> = {1, 2}
  OBVIOUS
<1>. QED  BY <1>1 DEF Range

LEMMA NamedOne ==
  ASSUME NEW kind, NEW n, n # NoName
  PROVE  NoName \notin Range(<<kind, <<n>>>>[2])
<1>1. <<kind, <<n>>>>[2] = <<n>>
  OBVIOUS
<1>. QED  BY <1>1, SingleSeq

LEMMA NamedTwo ==
  ASSUME NEW kind, NEW n, NEW m, n # NoName, m # NoName
  PROVE  NoName \notin Range(<<kind, <<n, m>>>>[2])
<1>1. <<kind, <<n, m>>>>[2] = <<n, m>>
  OBVIOUS
<1>. QED  BY <1>1, PairRange

LEMMA OwnersNamed ==
  ASSUME NEW n, NEW o \in RolesNamed(n)
  PROVE  NoName \notin Range(o[2])
<1>1. n # NoName /\ o = <<"role", <<n>>>>
  BY DEF RolesNamed, Role
<1>. QED  BY <1>1, NamedOne

LEMMA PostgresNamed ==
  ASSUME "postgres" \in Drivers, NEW c \in Configs("postgres"),
         NEW st \in Range(PostgresConverge(c))
  PROVE  /\ st.do # "upsert"
         /\ Nameless(st) => \E e \in Range(c.extensions) : e.name = NoName
<1>1. /\ PostgresShape(c)
      /\ \A e \in Range(c.extensions) : NoName \notin Range(Requires(Alias(e.name)))
  BY ShapeOf
<1>2. /\ \A r \in Range(c.roles) : r.name # NoName
      /\ \A s \in Range(c.schemas) : s.name # NoName
      /\ \A g \in Range(c.grants) : g.role # NoName
      /\ \A g \in Range(c.grants) : g.database = NoName => g.schema # NoName
  BY <1>1 DEF PostgresShape, ValidGrant
<1>3. \/ \E r \in Range(c.roles) : st = Simple("put", Role(r.name), r.password)
      \/ st = PutDatabase(c)
      \/ \E s \in Range(c.schemas) : st = EnsureSchema(s)
      \/ \E e \in Range(c.extensions) : st = CreateExtension(e)
      \/ \E g \in Range(c.grants) : st = Grant(g)
  BY <1>1, PostgresConvergeAre
<1>4. NoName \notin Range(Database[2])
  BY NamedOne, BodiesAssumption DEF Database
<1>5. CASE \E r \in Range(c.roles) : st = Simple("put", Role(r.name), r.password)
  <2>1. PICK r \in Range(c.roles) : st = Simple("put", Role(r.name), r.password)
    BY <1>5
  <2>2. st.do = "put" /\ st.obj = <<"role", <<r.name>>>> /\ st.needs = {}
    BY <2>1 DEF Simple, Stmt, Role
  <2>3. NoName \notin Range(st.obj[2])
    BY <1>2, <2>2, NamedOne
  <2>. QED  BY <2>2, <2>3 DEF Nameless
<1>6. CASE st = PutDatabase(c)
  <2>1. st.do = "put" /\ st.obj = Database /\ st.needs = RolesNamed(c.owner)
    BY <1>6 DEF PutDatabase, Stmt
  <2>. QED  BY <1>4, <2>1, OwnersNamed DEF Nameless
<1>7. CASE \E s \in Range(c.schemas) : st = EnsureSchema(s)
  <2>1. PICK s \in Range(c.schemas) : st = EnsureSchema(s)
    BY <1>7
  <2>2. /\ st.do = "ensure" /\ st.obj = <<"schema", <<s.name>>>>
        /\ st.needs = RolesNamed(s.owner)
    BY <2>1 DEF EnsureSchema, Stmt, Schema
  <2>3. NoName \notin Range(st.obj[2])
    BY <1>2, <2>2, NamedOne
  <2>. QED  BY <2>2, <2>3, OwnersNamed DEF Nameless
<1>8. CASE \E e \in Range(c.extensions) : st = CreateExtension(e)
  <2>1. PICK e \in Range(c.extensions) : st = CreateExtension(e)
    BY <1>8
  <2> DEFINE a == Alias(e.name)
  <2>2. /\ st.do \in {"install", "install cascade"} /\ st.obj = <<"extension", <<a>>>>
        /\ \A o \in st.needs :
              \/ e.schema # NoName /\ o = <<"schema", <<e.schema>>>>
              \/ \E b \in Range(Requires(a)) : o = <<"extension", <<b>>>>
    BY <2>1 DEF CreateExtension, Stmt, Schema, Extension
  <2>3. e.name # NoName => a # NoName
    BY DEF Alias, NoName
  <2>4. NoName \notin Range(Requires(a))
    BY <1>1
  <2> HIDE DEF a
  <2>5. e.name # NoName => NoName \notin Range(st.obj[2])
    BY <2>2, <2>3, NamedOne
  <2>6. ASSUME NEW o \in st.needs
        PROVE  NoName \notin Range(o[2])
    <3>1. CASE e.schema # NoName /\ o = <<"schema", <<e.schema>>>>
      BY <3>1, NamedOne
    <3>2. CASE \E b \in Range(Requires(a)) : o = <<"extension", <<b>>>>
      <4>1. PICK b \in Range(Requires(a)) : o = <<"extension", <<b>>>>
        BY <3>2
      <4>. QED  BY <2>4, <4>1, NamedOne
    <3>. QED  BY <2>2, <3>1, <3>2
  <2>. QED  BY <2>2, <2>5, <2>6 DEF Nameless
<1>9. CASE \E g \in Range(c.grants) : st = Grant(g)
  <2>1. PICK g \in Range(c.grants) : st = Grant(g)
    BY <1>9
  <2>2. /\ st.do = "grant" /\ st.obj = <<"role", <<g.role>>>>
        /\ st.needs = IF g.database # NoName THEN {<<"database", <<g.database>>>>}
                      ELSE {<<"schema", <<g.schema>>>>}
    BY <2>1 DEF Grant, Stmt, Role, Schema
  <2>3. NoName \notin Range(st.obj[2])
    BY <1>2, <2>2, NamedOne
  <2>4. ASSUME NEW o \in st.needs
        PROVE  NoName \notin Range(o[2])
    <3>1. CASE g.database # NoName
      BY <2>2, <2>4, <3>1, NamedOne
    <3>2. CASE g.database = NoName
      BY <1>2, <2>2, <2>4, <3>2, NamedOne
    <3>. QED  BY <3>1, <3>2
  <2>. QED  BY <2>2, <2>3, <2>4 DEF Nameless
<1>. QED  BY <1>3, <1>5, <1>6, <1>7, <1>8, <1>9

LEMMA MariaNamed ==
  ASSUME "mariadb" \in Drivers, NEW c \in Configs("mariadb"),
         NEW st \in Range(MariaConverge(c))
  PROVE  /\ st.do # "upsert" /\ st.needs = {} /\ ~Nameless(st)
         /\ st.obj[1] = "user" =>
                \E u \in Range(c.users) \cup Range(c.grants) : st.obj[2][2] = u.host
<1>1. MariaShape(c)
  BY ShapeOf
<1>2. \/ st = Simple("ensure", Database, NoName) \/ st = Flush
      \/ \E u \in Range(c.users) : st \in Range(ConvergeUser(u))
      \/ \E g \in Range(c.grants) : st = GrantUser(g)
  BY <1>1, MariaConvergeAre
<1>3. NoName \notin Range(Database[2])
  BY NamedOne, BodiesAssumption DEF Database
<1>4. CASE st = Simple("ensure", Database, NoName) \/ st = Flush
  <2>1. st.obj = Database /\ st.needs = {} /\ st.do \in {"ensure", "flush"}
    BY <1>4 DEF Flush, Simple, Stmt
  <2>. QED  BY <1>3, <2>1 DEF Nameless, Database
<1>5. CASE \E u \in Range(c.users) : st \in Range(ConvergeUser(u))
  <2>1. PICK u \in Range(c.users) : st \in Range(ConvergeUser(u))
    BY <1>5
  <2>2. st \in {Simple("ensure", User(u.name, u.host), u.password)}
                  \cup (IF u.password = NoName THEN {}
                        ELSE {Simple("alter", User(u.name, u.host), u.password)})
    BY <2>1, ConvergeUserIs
  <2>3. /\ st.do \in {"ensure", "alter"} /\ st.needs = {}
        /\ st.obj = <<"user", <<u.name, u.host>>>>
    BY <2>2 DEF Simple, Stmt, User
  <2>4. u.name # NoName /\ u.host # NoName
    BY <1>1 DEF MariaShape
  <2>5. NoName \notin Range(st.obj[2])
    BY <2>3, <2>4, NamedTwo
  <2>. QED  BY <2>3, <2>5 DEF Nameless
<1>6. CASE \E g \in Range(c.grants) : st = GrantUser(g)
  <2>1. PICK g \in Range(c.grants) : st = GrantUser(g)
    BY <1>6
  <2>2. /\ st.do = "grant" /\ st.needs = {}
        /\ st.obj = <<"user", <<g.user, g.host>>>>
    BY <2>1 DEF GrantUser, Stmt, User
  <2>3. g.user # NoName /\ g.host # NoName
    BY <1>1 DEF MariaShape
  <2>4. NoName \notin Range(st.obj[2])
    BY <2>2, <2>3, NamedTwo
  <2>. QED  BY <2>2, <2>4 DEF Nameless
<1>. QED  BY <1>2, <1>4, <1>5, <1>6

LEMMA FerretNamed ==
  ASSUME "ferret" \in Drivers, NEW c \in Configs("ferret"),
         NEW st \in Range(FerretConverge(c))
  PROVE  /\ st.do # "upsert" /\ st.needs = {} /\ ~Nameless(st)
         /\ \E db \in Range(c.databases) : st.obj[2][1] = db.name
<1>1. FerretShape(c)
  BY ShapeOf
<1>7. PICK db \in Range(c.databases) :
         \E coll \in Range(db.collections) : st = EnsureCollection(db, coll)
  BY <1>1, FerretConvergeAre
<1>2. PICK coll \in Range(db.collections) : st = EnsureCollection(db, coll)
  BY <1>7
<1>3. /\ st.do = "ensure" /\ st.needs = {}
      /\ st.obj = <<"collection", <<db.name, coll.name>>>>
  BY <1>2 DEF EnsureCollection, Simple, Stmt
<1>4. db.name # NoName /\ coll.name # NoName
  BY <1>1 DEF FerretShape
<1>5. NoName \notin Range(st.obj[2])
  BY <1>3, <1>4, NamedTwo
<1>. QED  BY <1>3, <1>5 DEF Nameless

LEMMA TemporalNamed ==
  ASSUME "temporal" \in Drivers, NEW c \in Configs("temporal"),
         NEW st \in Range(TemporalConverge(c))
  PROVE  ~Nameless(st)
<1>1. TemporalShape(c)
  BY ShapeOf
<1>2. PICK n \in Range(c.namespaces) : st = Upsert(n)
  BY <1>1, TemporalConvergeAre
<1>3. st.needs = {} /\ st.obj = <<"namespace", <<n.name>>>> /\ n.name # NoName
  BY <1>1, <1>2 DEF Upsert, Simple, Stmt, TemporalShape
<1>4. NoName \notin Range(st.obj[2])
  BY <1>3, NamedOne
<1>. QED  BY <1>3, <1>4 DEF Nameless

\* Kafka and AWS: a statement names nothing but the object it creates.
LEMMA ServedNamed ==
  ASSUME TypeOK, driver \in {"kafka", "aws"},
         NEW st \in Range(Converge(driver, config)), Nameless(st)
  PROVE  \E x \in Declared : NoName \in Range(x[1][2])
<1>1. config \in Configs(driver) /\ driver \in Drivers
  BY DEF TypeOK, Configs
<1>2. CASE driver = "kafka"
  <2>1. Range(Converge(driver, config)) = {EnsureTopic(t) : t \in Range(config.topics)}
    BY <1>1, <1>2, ShapeOf, KafkaConvergeAre DEF Converge
  <2>2. PICK t \in Range(config.topics) : st = EnsureTopic(t)
    BY <2>1
  <2>3. st.obj = <<"topic", <<t.name>>>> /\ st.needs = {}
    BY <2>2 DEF EnsureTopic, Simple, Stmt
  <2>4. <<<<"topic", <<t.name>>>>, NoName>> \in Declared
    BY <1>2 DEF Declared
  <2>5. NoName \in Range(st.obj[2])
    BY <2>3 DEF Nameless
  <2>. QED  BY <2>3, <2>4, <2>5
<1>3. CASE driver = "aws"
  <2>1. \A s : s \in Range(Converge(driver, config)) <=>
          \E k \in DOMAIN config : \E n \in DOMAIN config[k] :
             s = Resource(k, n, config[k][n])
    BY <1>1, <1>3, ShapeOf, AwsConvergeAre DEF Converge
  <2>6. PICK k \in DOMAIN config :
           \E n \in DOMAIN config[k] : st = Resource(k, n, config[k][n])
    BY <2>1
  <2>2. PICK n \in DOMAIN config[k] : st = Resource(k, n, config[k][n])
    BY <2>6
  <2>3. st.obj = <<k, <<n>>>> /\ st.needs = {}
    BY <2>2 DEF Resource, Simple, Stmt
  <2>4. \E v : <<<<k, <<n>>>>, v>> \in Declared
    BY <1>3 DEF Declared
  <2>5. NoName \in Range(st.obj[2])
    BY <2>3 DEF Nameless
  <2>. QED  BY <2>3, <2>4, <2>5
<1>. QED  BY <1>2, <1>3

\* No topic and no resource of AWS is upserted.
LEMMA ServedDo ==
  ASSUME NEW d \in Drivers, NEW c \in Configs(d), d \in {"kafka", "aws"},
         NEW st \in Range(Converge(d, c))
  PROVE  st.do # "upsert"
<1>1. CASE d = "kafka"
  <2>1. Range(Converge(d, c)) = {EnsureTopic(t) : t \in Range(c.topics)}
    BY <1>1, ShapeOf, KafkaConvergeAre DEF Converge
  <2>. QED  BY <2>1 DEF EnsureTopic, Simple, Stmt
<1>2. CASE d = "aws"
  <2>1. \E k \in DOMAIN c : \E n \in DOMAIN c[k] : st = Resource(k, n, c[k][n])
    BY <1>2, ShapeOf, AwsConvergeAre DEF Converge
  <2>. QED  BY <2>1 DEF Resource, Simple, Stmt
<1>. QED  BY <1>1, <1>2

LEMMA NamedAll ==
  ASSUME TypeOK, NEW st \in Range(Converge(driver, config))
  PROVE  /\ st.do = "upsert" => driver = "temporal"
         /\ Malformed(st) => BadNames
<1>1. config \in Configs(driver) /\ driver \in Drivers /\ driver \in DriverNames
  BY BodiesAssumption DEF TypeOK, Configs
<1>2. CASE driver = "postgres"
  <2>1. /\ st.do # "upsert"
        /\ Nameless(st) => \E e \in Range(config.extensions) : e.name = NoName
    BY <1>1, <1>2, PostgresNamed DEF Converge
  <2>2. Malformed(st) => Nameless(st)
    BY <1>2 DEF Malformed, Misnamed, Nameless
  <2>3. ASSUME NEW e \in Range(config.extensions), e.name = NoName
        PROVE  BadNames
    <3>1. Alias(e.name) = NoName
      BY <2>3 DEF Alias, NoName
    <3>2. <<Extension(Alias(e.name)), NoName>> \in Declared
      BY <1>2 DEF Declared
    <3>3. NoName \in Range(Extension(Alias(e.name))[2])
      BY <3>1, SingleSeq DEF Extension
    <3> DEFINE x == Extension(Alias(e.name))
               y == <<x, NoName>>
    <3>4. y \in Declared /\ y[1] = x /\ NoName \in Range(x[2])
      BY <3>2, <3>3
    <3> HIDE DEF x, y
    <3>. QED  BY <1>2, <3>4 DEF BadNames
  <2>. QED  BY <2>1, <2>2, <2>3
<1>3. CASE driver = "mariadb"
  <2>1. /\ st.do # "upsert" /\ st.needs = {} /\ ~Nameless(st)
        /\ st.obj[1] = "user" =>
               \E u \in Range(config.users) \cup Range(config.grants) :
                  st.obj[2][2] = u.host
    BY <1>1, <1>3, MariaNamed DEF Converge
  <2>2. Malformed(st) => st.obj[1] = "user" /\ "@" \in Range(st.obj[2][2])
    BY <1>3, <2>1 DEF Malformed, Misnamed, Nameless
  <2>. QED  BY <1>3, <2>1, <2>2 DEF BadNames
<1>4. CASE driver = "ferret"
  <2>1. /\ st.do # "upsert" /\ st.needs = {} /\ ~Nameless(st)
        /\ \E db \in Range(config.databases) : st.obj[2][1] = db.name
    BY <1>1, <1>4, FerretNamed DEF Converge
  <2>2. Malformed(st) => "." \in Range(st.obj[2][1])
    BY <1>4, <2>1 DEF Malformed, Misnamed, Nameless
  <2>. QED  BY <1>4, <2>1, <2>2 DEF BadNames
<1>5. CASE driver = "temporal"
  <2>1. ~Nameless(st)
    BY <1>1, <1>5, TemporalNamed DEF Converge
  <2>2. ~Malformed(st)
    BY <1>5, <2>1 DEF Malformed, Misnamed, Nameless
  <2>. QED  BY <1>5, <2>2
<1>6. CASE driver \in {"kafka", "aws"}
  <2>1. st.do # "upsert"
    BY <1>1, <1>6, ServedDo
  <2>2. Nameless(st) => \E x \in Declared : NoName \in Range(x[1][2])
    BY <1>1, <1>6, ServedNamed
  <2>3. Malformed(st) => Nameless(st)
    BY <1>6 DEF Malformed, Misnamed, Nameless
  <2>. QED  BY <1>6, <2>1, <2>2, <2>3 DEF BadNames
<1>7. CASE driver \in {"valkey", "kvrocks"}
  BY <1>7, NoSeq DEF Converge
<1>. QED  BY <1>1, <1>2, <1>3, <1>4, <1>5, <1>6, <1>7 DEF DriverNames
-----------------------------------------------------------------------------
(* A server that does not start.                                           *)

\* The gate of the versions only looks at keys in lower case.
LEMMA TooOld ==
  ASSUME NEW raw, PostgresBody(raw), PostgresAccepts(raw),
         NEW p \in DOMAIN Since, p \in DOMAIN PostgresServer(PostgresConfig(raw)),
         raw.version < Since[p]
  PROVE  \E s \in DOMAIN raw.settings : s[2] # "plain"
<1> DEFINE c == PostgresConfig(raw)
           free == Free(c.settings, PostgresLocked)
           tun == Tuning(c.tuning)
           low == Over(free, tun)
           file == Over(Doze({"listen_addresses"}), low)
           base == Over(file, Doze({"data_directory", "hba_file"}))
           args == Doze({"listen_addresses", "port", "unix_socket_directories"})
<1>1. c.settings = raw.settings /\ c.tuning = OrDefault(raw.tuning, PostgresDefaults)
  BY DEF PostgresConfig
<1>2. PostgresServer(c) = Over(args, base)
  BY DEF PostgresServer, PostgresFile
<1>3. DOMAIN c.tuning
        = {"shared_buffers", "max_connections", "fsync", "autovacuum"}
  BY <1>1 DEF OrDefault, PostgresDefaults
<1>4. DOMAIN tun = DOMAIN c.tuning \cup {"synchronous_commit", "full_page_writes"}
  BY OverAt DEF Tuning
<1>5. p \in DOMAIN PostgresServer(c)
  OBVIOUS
<1> HIDE DEF c, tun, free, low, file, base, args
<1>6. /\ DOMAIN PostgresServer(c) = DOMAIN args \cup DOMAIN base
      /\ DOMAIN low = DOMAIN free \cup DOMAIN tun
  BY <1>2, OverAt DEF low
<1>7. DOMAIN file = {"listen_addresses"} \cup DOMAIN low
  BY DEF file, Over, Doze
<1>8. DOMAIN base = DOMAIN file \cup {"data_directory", "hba_file"}
  BY DEF base, Over, Doze
<1>9. DOMAIN args = {"listen_addresses", "port", "unix_socket_directories"}
  BY DozeAt DEF args
<1>10. p \in {"io_method", "summarize_wal"}
  BY DEF Since
<1>11. p \in DOMAIN free
  BY <1>3, <1>4, <1>5, <1>6, <1>7, <1>8, <1>9, <1>10
<1>12. Spelled(c.settings, {"plain", "upper"})
  BY <1>1 DEF PostgresBody
<1>13. PICK s \in DOMAIN c.settings : s[1] = p
  BY <1>11, <1>12, FreeAt DEF free
<1>14. s = <<s[1], s[2]>>
  BY <1>12 DEF Spelled
<1>15. ASSUME s[2] = "plain"
       PROVE  FALSE
  <2>1. <<p, "plain">> \in DOMAIN raw.settings
    BY <1>1, <1>13, <1>14, <1>15
  <2>2. raw.version >= Since[p]
    BY <2>1 DEF PostgresAccepts, OldEnough
  <2>3. raw.version \in Int /\ Since[p] \in Int
    BY <1>10 DEF PostgresBody, Since
  <2>4. raw.version < Since[p]
    OBVIOUS
  <2> DEFINE v == raw.version
             w == Since[p]
  <2>5. v >= w /\ v < w /\ v \in Int /\ w \in Int
    BY <2>2, <2>3, <2>4
  <2> HIDE DEF v, w
  <2>. QED  BY <2>5
<1>. QED  BY <1>1, <1>13, <1>15

LEMMA WhyItWontStart ==
  ASSUME TypeOK, WontStart
  PROVE  \/ /\ driver = "postgres"
            /\ \E s \in DOMAIN config.settings : s[2] # "plain"
         \/ driver = "temporal" /\ config.port = config.ui_port
<1>1. PICK raw \in AcceptedBodies(driver) : config = Decoded(driver, raw)
  BY DEF TypeOK
<1>2. CASE driver = "postgres"
  <2>1. PostgresBody(raw) /\ PostgresAccepts(raw) /\ config = PostgresConfig(raw)
    BY <1>1, <1>2, BodiesAssumption
       DEF AcceptedBodies, TypeOK, IsBody, Accepts, Decoded
  <2>2. PICK p \in DOMAIN Since \cap DOMAIN PostgresServer(config) :
           config.version < Since[p]
    BY <1>2 DEF WontStart
  <2>3. config.version = raw.version /\ config.settings = raw.settings
    BY <2>1 DEF PostgresConfig
  <2>4. raw.version < Since[p]
    BY <2>2, <2>3
  <2>. QED  BY <1>2, <2>1, <2>2, <2>3, <2>4, TooOld
<1>. QED  BY <1>2 DEF WontStart
-----------------------------------------------------------------------------
(* The record, and what of it is sure to exist: while no pass has broken   *)
(* off since it was written, its databases and its namespaces.             *)

\* Schemas and extensions come after their database, no namespace twice.
InOrder(d, items) ==
    /\ d = "temporal" => Distinct(items)
    /\ d = "postgres" =>
           \A i \in DOMAIN items : items[i][1] \in {"schema", "extension"} =>
               /\ <<"database", Inst>> \in Range(items)
               /\ \A j \in DOMAIN items : items[j] = <<"database", Inst>> => j < i

\* The items after the n-th are schemas and extensions, and no others are.
Inside == {"schema", "extension"}
Late(s, n) ==
    /\ IsSeq(s) /\ n \in Nat /\ n <= Len(s)
    /\ \A i \in 1 .. Len(s) : s[i][1] \in Inside <=> n < i

LEMMA LateConcat ==
  ASSUME NEW s, NEW n, Late(s, n), NEW t, IsSeq(t),
         \A i \in 1 .. Len(t) : t[i][1] \in Inside
  PROVE  Late(s \o t, n)
<1> DEFINE m == Len(s)
           u == s \o t
<1>1. IsSeq(s) /\ n \in Nat /\ n <= m
  BY DEF Late
<1>2. \A i \in 1 .. m : s[i][1] \in Inside <=> n < i
  BY DEF Late
<1>3. m \in Nat /\ Len(t) \in Nat
  BY <1>1, SeqFacts
<1>4. /\ IsSeq(u) /\ Len(u) = m + Len(t)
      /\ \A i \in 1 .. m : u[i] = s[i]
      /\ \A i \in 1 .. Len(t) : u[m + i] = t[i]
      /\ \A i \in 1 .. Len(u) : i <= m \/ i - m \in 1 .. Len(t)
  BY <1>1, Concat
<1> HIDE DEF m, u
<1>5. ASSUME NEW i \in 1 .. Len(u)
      PROVE  u[i][1] \in Inside <=> n < i
  <2>1. CASE i <= m
    <3>1. i \in 1 .. m
      BY <1>3, <2>1
    <3>. QED  BY <1>2, <1>4, <3>1
  <2>2. CASE ~(i <= m)
    <3> DEFINE h == i - m
    <3>1. h \in 1 .. Len(t)
      BY <1>4, <2>2
    <3>2. i = m + h /\ n < i
      BY <1>1, <1>3, <2>2
    <3> HIDE DEF h
    <3>3. u[i] = t[h]
      BY <1>4, <3>1, <3>2
    <3>. QED  BY <3>1, <3>2, <3>3
  <2>. QED  BY <2>1, <2>2
<1>6. n <= Len(u)
  BY <1>1, <1>3, <1>4
<1>7. Late(u, n)
  BY <1>1, <1>4, <1>5, <1>6 DEF Late
<1>. QED  BY <1>7 DEF u

LEMMA ObjectsInOrder ==
  ASSUME NEW d \in Drivers, NEW c \in Configs(d)
  PROVE  InOrder(d, Objects(d, c))
<1>1. CASE d = "postgres"
  <2> DEFINE R == Listed("role", c.roles)
             D == <<<<"database", Inst>>>>
             S == Listed("schema", c.schemas)
             E == Listed("extension", c.extensions)
             P == PostgresObjects(c)
  <2>1. PostgresShape(c) /\ Objects(d, c) = P
    BY <1>1, ShapeOf DEF Objects
  <2>2. /\ IsSeq(R) /\ IsSeq(S) /\ IsSeq(E)
        /\ \A i \in 1 .. Len(R) : R[i][1] = "role"
        /\ \A i \in 1 .. Len(S) : S[i][1] = "schema"
        /\ \A i \in 1 .. Len(E) : E[i][1] = "extension"
    BY <2>1, ListedSeq DEF PostgresShape
  <2>3. IsSeq(D) /\ Len(D) = 1 /\ D[1] = <<"database", Inst>>
    BY SingleSeq
  <2>4. P = ((R \o D) \o S) \o E
    BY DEF PostgresObjects
  <2>5. \E i \in 1 .. 1 : D[i] = <<"database", Inst>>
    BY <2>3
  <2>6. <<"database", Inst>> \in Range(P)
    BY <2>1, PostgresObjectsAre
  <2> HIDE DEF R, D, S, E, P
  <2> DEFINE n == Len(R) + 1
             A == R \o D
  <2>7. /\ IsSeq(A) /\ Len(A) = n /\ Len(R) \in Nat
        /\ \A i \in 1 .. Len(R) : A[i] = R[i]
        /\ A[n] = <<"database", Inst>>
    <3>1. /\ IsSeq(A) /\ Len(A) = Len(R) + Len(D)
          /\ \A i \in 1 .. Len(R) : A[i] = R[i]
          /\ \A i \in 1 .. Len(D) : A[Len(R) + i] = D[i]
      <4>1. IsSeq(R) /\ IsSeq(D)
        BY <2>2, <2>3
      <4>. QED  BY <4>1, Concat
    <3>2. A[Len(R) + 1] = D[1]
      BY <2>3, <3>1
    <3>. QED  BY <2>2, <2>3, <3>1, <3>2, SeqFacts
  <2> HIDE DEF A
  <2>8. Late(A, n)
    <3>1. ASSUME NEW i \in 1 .. n
          PROVE  A[i][1] \notin Inside /\ ~(n < i)
      <4>1. CASE i \in 1 .. Len(R)
        <5>1. A[i][1] = "role"
          BY <2>2, <2>7, <4>1
        <5>. QED  BY <2>7, <4>1, <5>1 DEF Inside
      <4>2. CASE i \notin 1 .. Len(R)
        <5>1. i = n
          BY <2>7, <4>2
        <5>2. A[i][1] = "database"
          BY <2>7, <5>1
        <5>. QED  BY <2>7, <5>1, <5>2 DEF Inside
      <4>. QED  BY <4>1, <4>2
    <3>. QED  BY <2>7, <3>1 DEF Late
  <2> HIDE DEF n
  <2>9. Late(A \o S, n)
    BY <2>2, <2>8, LateConcat DEF Inside
  <2>10. Late((A \o S) \o E, n)
    BY <2>2, <2>9, LateConcat DEF Inside
  <2>11. Late(P, n)
    BY <2>4, <2>10 DEF A
  <2>12. /\ n \in Nat /\ Len(P) \in Nat /\ DOMAIN P = 1 .. Len(P)
         /\ \A i \in 1 .. Len(P) : P[i][1] \in Inside <=> n < i
    BY <2>11, SeqFacts DEF Late
  <2>13. ASSUME NEW i \in DOMAIN P, P[i][1] \in Inside,
                NEW j \in DOMAIN P, P[j] = <<"database", Inst>>
         PROVE  j < i
    <3>1. n < i
      BY <2>12, <2>13
    <3>2. P[j][1] \notin Inside
      BY <2>13 DEF Inside
    <3>3. ~(n < j)
      BY <2>12, <3>2
    <3>. QED  BY <2>12, <3>1, <3>3
  <2>. QED  BY <1>1, <2>1, <2>6, <2>13 DEF InOrder, Inside
<1>2. CASE d = "temporal"
  <2> DEFINE t == Listed("namespace", c.namespaces)
  <2>1. TemporalShape(c) /\ Objects(d, c) = t
    BY <1>2, ShapeOf DEF Objects
  <2>2. /\ IsSeq(t) /\ Len(t) = Len(c.namespaces)
        /\ \A i \in 1 .. Len(c.namespaces) : t[i] = <<"namespace", c.namespaces[i].name>>
    BY <2>1, ListedSeq DEF TemporalShape
  <2>3. DOMAIN c.namespaces = 1 .. Len(c.namespaces)
    BY <2>1, SeqFacts DEF TemporalShape
  <2> HIDE DEF t
  <2>4. DOMAIN t = 1 .. Len(c.namespaces)
    BY <2>2, SeqFacts
  <2>5. ASSUME NEW i \in DOMAIN t, NEW j \in DOMAIN t, t[i] = t[j]
        PROVE  i = j
    <3>1. <<"namespace", c.namespaces[i].name>> = <<"namespace", c.namespaces[j].name>>
      BY <2>2, <2>4, <2>5
    <3>2. c.namespaces[i].name = c.namespaces[j].name
      BY <3>1
    <3>. QED  BY <2>1, <2>3, <2>4, <3>2 DEF TemporalShape
  <2>. QED  BY <1>2, <2>1, <2>5 DEF InOrder, Distinct
<1>. QED  BY <1>1, <1>2 DEF InOrder

\* A prune of a list in which a database is after all that is in it.
LEMMA Prunable ==
  ASSUME NEW d \in DriverNames, NEW g, IsSeq(g), NEW D,
         \A o \in Range(g) : ItemShape(d, o),
         d = "temporal" =>
             Distinct(g) /\ \A o \in Range(g) : <<o[1], <<o[2]>>>> \in D,
         d = "postgres" =>
             \A i \in 1 .. Len(g) : g[i][1] \in Inside =>
                 /\ Database \in D
                 /\ \A j \in 1 .. i - 1 : g[j] # <<"database", Inst>>
  PROVE  Undropped(Prune(d, g), D)
<1> DEFINE P == Prune(d, g)
<1>1. /\ IsSeq(P) /\ Len(P) = Len(g)
      /\ \A i \in 1 .. Len(g) : P[i] = PruneOne(d, g[i])
  BY PruneList
<1>2. /\ Len(g) \in Nat /\ DOMAIN g = 1 .. Len(g)
      /\ \A i \in 1 .. Len(g) : g[i] \in Range(g)
  BY SeqFacts
<1> HIDE DEF P
<1>3. ASSUME NEW i \in 1 .. Len(g)
      PROVE  /\ ItemShape(d, g[i]) /\ Prunes(P[i]) /\ P[i].needs = {}
             /\ P[i].do = "delete" <=> d = "temporal"
             /\ d \in {"postgres", "temporal"} =>
                    P[i].obj = <<g[i][1], <<g[i][2]>>>>
             /\ P[i].db = IF d = "postgres" /\ g[i][1] \in {"schema", "extension"}
                          THEN {Database} ELSE {}
  <2> DEFINE o == g[i]
  <2>1. ItemShape(d, o) /\ P[i] = PruneOne(d, o)
    BY <1>1, <1>2
  <2> HIDE DEF o
  <2> DEFINE st == PruneOne(d, o)
  <2>2. /\ Prunes(st) /\ st.needs = {}
        /\ st.do = "delete" <=> d = "temporal"
        /\ d \in {"postgres", "temporal"} => st.obj = <<o[1], <<o[2]>>>>
        /\ st.db = IF d = "postgres" /\ o[1] \in {"schema", "extension"}
                   THEN {Database} ELSE {}
    <3>1. ItemShape(d, o)
      BY <2>1
    <3>2. Prunes(st) /\ st.needs = {}
      BY <3>1, PruneOneIs
    <3>3. st.do = "delete" <=> d = "temporal"
      BY <3>1, PruneOneIs
    <3>4. d \in {"postgres", "temporal"} => st.obj = <<o[1], <<o[2]>>>>
      BY <3>1, PruneOneIs
    <3>5. st.db = IF d = "postgres" /\ o[1] \in {"schema", "extension"}
                  THEN {Database} ELSE {}
      BY <3>1, PruneOneIs
    <3>. QED  BY <3>2, <3>3, <3>4, <3>5
  <2>3. P[i] = st
    BY <2>1
  <2> HIDE DEF st
  <2>. QED  BY <2>1, <2>2, <2>3 DEF o
<1>4. ASSUME NEW i \in 1 .. Len(g), NEW x \in P[i].db \cup Named(P[i])
      PROVE  /\ x \in D /\ x[1] \in Lasting
             /\ \A j \in 1 .. i - 1 : Prunes(P[j]) => P[j].obj # x
  <2>1. \A j \in 1 .. i - 1 : j \in 1 .. Len(g) /\ j # i
    BY <1>2
  <2>2. Named(P[i]) = IF d = "temporal" THEN {P[i].obj} ELSE {}
    BY <1>3 DEF Named, Prunes
  <2>3. CASE d = "temporal"
    <3>1. x = <<g[i][1], <<g[i][2]>>>>
      BY <1>3, <1>4, <2>2, <2>3
    <3>2. \A k \in 1 .. Len(g) : g[k] = <<g[k][1], g[k][2]>> /\ g[k][1] = "namespace"
      BY <1>3, <2>3 DEF ItemShape
    <3>3. x \in D
      BY <1>2, <2>3, <3>1
    <3>4. x[1] = "namespace"
      BY <3>1, <3>2
    <3>5. ASSUME NEW j \in 1 .. i - 1, P[j].obj = x
          PROVE  FALSE
      <4>1. j \in 1 .. Len(g) /\ j # i
        BY <2>1
      <4>2. <<g[j][1], <<g[j][2]>>>> = <<g[i][1], <<g[i][2]>>>>
        BY <1>3, <2>3, <3>1, <3>5, <4>1
      <4>3. g[j][1] = g[i][1] /\ g[j][2] = g[i][2]
        BY <4>2
      <4>4. g[j] = g[i]
        BY <3>2, <4>1, <4>3
      <4>5. Distinct(g)
        BY <2>3
      <4>. QED  BY <1>2, <4>1, <4>4, <4>5 DEF Distinct
    <3>. QED  BY <3>3, <3>4, <3>5 DEF Lasting
  <2>4. CASE d = "postgres"
    <3>1. x = Database /\ g[i][1] \in Inside
      BY <1>3, <1>4, <2>2, <2>4 DEF Inside
    <3>2. x \in D /\ \A j \in 1 .. i - 1 : g[j] # <<"database", Inst>>
      BY <2>4, <3>1
    <3>3. x = <<"database", <<Inst>>>>
      BY <3>1 DEF Database
    <3>4. ASSUME NEW j \in 1 .. i - 1, P[j].obj = x
          PROVE  FALSE
      <4>1. j \in 1 .. Len(g)
        BY <2>1
      <4>2. <<g[j][1], <<g[j][2]>>>> = <<"database", <<Inst>>>>
        BY <1>3, <2>4, <3>3, <3>4, <4>1
      <4>3. g[j][1] = "database" /\ g[j][2] = Inst
        BY <4>2
      <4>4. g[j] = <<g[j][1], g[j][2]>>
        BY <1>3, <4>1 DEF ItemShape
      <4>. QED  BY <3>2, <4>3, <4>4
    <3>. QED  BY <3>2, <3>3, <3>4 DEF Lasting
  <2>5. CASE d \notin {"postgres", "temporal"}
    BY <1>3, <1>4, <2>2, <2>5
  <2>. QED  BY <2>3, <2>4, <2>5
<1>5. Undropped(P, D)
  BY <1>1, <1>4 DEF Undropped
<1>. QED  BY <1>5 DEF P

RecordInOrder == InOrder(driver, record)

Recorded ==
    clean /\ (mode \in Passes => outcome = "ok") =>
        \A o \in Range(record) :
            driver \in {"postgres", "temporal"} /\ o[1] \in Lasting =>
                <<o[1], <<o[2]>>>> \in DOMAIN objects

LEMMA RecordThere ==
  ASSUME TypeOK, Shapes, RecordInOrder, Recorded,
         clean, mode \in Passes => outcome = "ok"
  PROVE  /\ driver = "temporal" =>
                \A o \in Range(record) : <<o[1], <<o[2]>>>> \in DOMAIN objects
         /\ driver = "postgres" =>
                \A o \in Range(record) : o[1] \in Inside => Database \in DOMAIN objects
<1>1. \A o \in Range(record) :
         driver \in {"postgres", "temporal"} /\ o[1] \in Lasting =>
             <<o[1], <<o[2]>>>> \in DOMAIN objects
  BY DEF Recorded
<1>2. CASE driver = "temporal"
  <2>1. \A o \in Range(record) : o[1] = "namespace"
    BY <1>2 DEF Shapes, ItemShape
  <2>. QED  BY <1>1, <1>2, <2>1 DEF Lasting
<1>3. CASE driver = "postgres"
  <2>1. ASSUME NEW o \in Range(record), o[1] \in Inside
        PROVE  Database \in DOMAIN objects
    <3>1. PICK i \in DOMAIN record : record[i] = o
      BY DEF Range
    <3>2. <<"database", Inst>> \in Range(record)
      BY <1>3, <2>1, <3>1 DEF RecordInOrder, InOrder, Inside
    <3> DEFINE p == <<"database", Inst>>
    <3>3. p[1] = "database" /\ p[2] = Inst
      OBVIOUS
    <3>4. <<p[1], <<p[2]>>>> \in DOMAIN objects
      BY <1>1, <1>3, <3>2, <3>3 DEF Lasting
    <3>. QED  BY <3>3, <3>4 DEF Database
  <2>. QED  BY <1>3, <2>1
<1>. QED  BY <1>2, <1>3

LEMMA UndeclaredPrunable ==
  ASSUME TypeOK, Shapes, RecordInOrder, Recorded,
         clean, mode \in Passes => outcome = "ok"
  PROVE  Undropped(Prune(driver, Undeclared), DOMAIN objects)
<1> DEFINE g == Undeclared
           B == Range(Objects(driver, config))
<1>1. /\ config \in Configs(driver) /\ driver \in Drivers /\ driver \in DriverNames
      /\ IsSeq(record)
  BY BodiesAssumption DEF TypeOK, Configs, Shapes
<1>2. g = Without(record, B)
  BY DEF Undeclared
<1>3. IsSeq(g) /\ \A o \in Range(g) : ItemShape(driver, o)
  BY UndeclaredIs
<1>4. driver = "postgres" => <<"database", Inst>> \in B
  BY <1>1, ShapeOf, PostgresObjectsAre DEF Objects
<1> HIDE DEF g, B
<1>5. Rest(g, record, B, Len(record))
  BY <1>1, <1>2, WithoutIs
<1>6. /\ \A x \in Range(g) : x \notin B /\ x \in Range(record)
      /\ Distinct(record) => Distinct(g)
  <2>1. \A i \in 1 .. Len(record) : record[i] \in Range(record)
    BY <1>1, SeqFacts
  <2>. QED  BY <1>5, <2>1 DEF Rest
<1>7. /\ Len(g) \in Nat
      /\ \A i \in 1 .. Len(g) : g[i] \in Range(g)
  BY <1>3, SeqFacts
<1>8. driver = "temporal" =>
         Distinct(g) /\ \A o \in Range(g) : <<o[1], <<o[2]>>>> \in DOMAIN objects
  BY <1>6, RecordThere DEF RecordInOrder, InOrder
<1>9. ASSUME driver = "postgres", NEW i \in 1 .. Len(g)
      PROVE  /\ g[i][1] \in Inside => Database \in DOMAIN objects
             /\ \A j \in 1 .. i - 1 : g[j] # <<"database", Inst>>
  <2>1. g[i][1] \in Inside => Database \in DOMAIN objects
    BY <1>6, <1>7, <1>9, RecordThere
  <2>2. \A j \in 1 .. i - 1 : j \in 1 .. Len(g)
    BY <1>7
  <2>. QED  BY <1>4, <1>6, <1>7, <1>9, <2>1, <2>2
<1>10. Undropped(Prune(driver, g), DOMAIN objects)
  BY <1>1, <1>3, <1>8, <1>9, Prunable
<1>. QED  BY <1>10 DEF g

LEMMA ReversePrunable ==
  ASSUME TypeOK, Shapes, RecordInOrder, Recorded,
         clean, mode \in Passes => outcome = "ok"
  PROVE  Undropped(Prune(driver, Reverse(record)), DOMAIN objects)
<1> DEFINE g == Reverse(record)
           n == Len(record)
<1>1. driver \in DriverNames /\ IsSeq(record)
  BY BodiesAssumption DEF TypeOK, Shapes
<1>2. /\ IsSeq(g) /\ Len(g) = n /\ Range(g) = Range(record)
      /\ \A i \in 1 .. n : n - i + 1 \in 1 .. n /\ g[i] = record[n - i + 1]
      /\ Distinct(record) => Distinct(g)
  BY <1>1, ReverseIs
<1>3. n \in Nat /\ DOMAIN record = 1 .. n
  BY <1>1, SeqFacts
<1>4. \A o \in Range(record) : ItemShape(driver, o)
  BY DEF Shapes
<1> HIDE DEF g, n
<1>5. \A i \in 1 .. n : g[i] \in Range(g)
  BY <1>2, SeqFacts
<1>6. driver = "temporal" =>
         Distinct(g) /\ \A o \in Range(g) : <<o[1], <<o[2]>>>> \in DOMAIN objects
  BY <1>2, RecordThere DEF RecordInOrder, InOrder
<1>7. ASSUME driver = "postgres", NEW i \in 1 .. n, g[i][1] \in Inside
      PROVE  /\ Database \in DOMAIN objects
             /\ \A j \in 1 .. i - 1 : g[j] # <<"database", Inst>>
  <2>1. Database \in DOMAIN objects
    BY <1>2, <1>5, <1>7, RecordThere
  <2>2. ASSUME NEW j \in 1 .. i - 1, g[j] = <<"database", Inst>>
        PROVE  FALSE
    <3> DEFINE a == n - i + 1
               b == n - j + 1
    <3>1. j \in 1 .. n /\ ~(b < a)
      BY <1>3
    <3>2. a \in DOMAIN record /\ g[i] = record[a]
      BY <1>2, <1>3
    <3>3. b \in DOMAIN record /\ g[j] = record[b]
      BY <1>2, <1>3, <3>1
    <3> HIDE DEF a, b
    <3>4. record[a][1] \in {"schema", "extension"}
      BY <1>7, <3>2 DEF Inside
    <3>5. record[b] = <<"database", Inst>>
      BY <2>2, <3>3
    <3>6. \A k \in DOMAIN record : record[k] = <<"database", Inst>> => k < a
      BY <1>7, <3>2, <3>4 DEF RecordInOrder, InOrder
    <3>. QED  BY <3>1, <3>3, <3>5, <3>6
  <2>. QED  BY <2>1, <2>2
<1>8. Undropped(Prune(driver, g), DOMAIN objects)
  BY <1>1, <1>2, <1>4, <1>6, <1>7, Prunable
<1>. QED  BY <1>8 DEF g

LEMMA RecordInOrderNext ==
  TypeOK /\ RecordInOrder /\ [Next]_vars => RecordInOrder'
<1> SUFFICES ASSUME TypeOK, RecordInOrder, [Next]_vars
             PROVE  RecordInOrder'
  OBVIOUS
<1>1. config \in Configs(driver) /\ driver \in Drivers
  BY DEF TypeOK, Configs
<1>2. /\ driver' = driver
      /\ record' \in {record, <<>>, Objects(driver, config)}
  BY DEF Next, vars, Edit, Boot, BootFails, ApplyPruneFirst, ApplyConvergeFirst,
         Destroy, Execute, Refuse, Lose, Misread, Fails, Finish
<1>3. InOrder(driver, <<>>)
  BY NoSeq DEF InOrder, Distinct
<1>4. InOrder(driver, record')
  BY <1>1, <1>2, <1>3, ObjectsInOrder DEF RecordInOrder
<1>. QED  BY <1>2, <1>4 DEF RecordInOrder

Applies == {"prune first", "converge first"}

\* An apply that succeeded has made every database and namespace it records.
LEMMA AppliedIsThere ==
  ASSUME TypeOK, Declaring, Finish, mode \in Applies,
         driver \in {"postgres", "temporal"},
         NEW o, o \in Range(Objects(driver, config)), o[1] \in Lasting
  PROVE  <<o[1], <<o[2]>>>> \in DOMAIN objects
<1>1. config \in Configs(driver) /\ driver \in Drivers
  BY DEF TypeOK, Configs
<1>2. ASSUME NEW x \in Declared
      PROVE  Held(x) \/ Excepted(x)
  <2>1. outcome = "running" /\ todo = <<>>
    BY DEF Finish
  <2>2. outcome \in {"running", "ok"} /\ mode \notin {"none", "destroy"}
    BY <2>1 DEF Applies
  <2>3. Held(x) \/ Excepted(x) \/ \E st \in Range(todo) : Covers(st, x)
    BY <2>2 DEF Declaring
  <2>. QED  BY <2>1, <2>3, NoSeq
<1>3. CASE driver = "postgres"
  <2>1. o \in {<<"role", r.name>> : r \in Range(config.roles)}
               \cup {<<"database", Inst>>}
               \cup {<<"schema", s.name>> : s \in Range(config.schemas)}
               \cup {<<"extension", e.name>> : e \in Range(config.extensions)}
    BY <1>1, <1>3, ShapeOf, PostgresObjectsAre DEF Objects
  <2>2. o = <<"database", Inst>>
    <3>1. \/ o[1] \in {"role", "schema", "extension"}
          \/ o = <<"database", Inst>>
      <4>1. \/ \E r \in Range(config.roles) : o = <<"role", r.name>>
            \/ o = <<"database", Inst>>
            \/ \E s \in Range(config.schemas) : o = <<"schema", s.name>>
            \/ \E e \in Range(config.extensions) : o = <<"extension", e.name>>
        BY <2>1
      <4>. QED  BY <4>1
    <3>2. o[1] \in {"database", "namespace"}
      BY DEF Lasting
    <3>. QED  BY <3>1, <3>2
  <2> DEFINE x == <<Database, NoName>>
  <2>3. x \in Declared
    BY <1>3 DEF Declared
  <2>4. x[1] = Database /\ x[1][1] = "database"
    BY DEF Database
  <2> HIDE DEF x
  <2>5. Database \in DOMAIN objects
    BY <1>2, <2>3, <2>4 DEF Held, Excepted
  <2>. QED  BY <2>2, <2>5 DEF Database
<1>4. CASE driver = "temporal"
  <2>1. o \in {<<"namespace", n.name>> : n \in Range(config.namespaces)}
    BY <1>1, <1>4, ShapeOf, TemporalObjectsAre DEF Objects
  <2>2. PICK n \in Range(config.namespaces) : o = <<"namespace", n.name>>
    BY <2>1
  <2> DEFINE x == <<<<"namespace", <<n.name>>>>, n.retention>>
  <2>3. x \in Declared
    BY <1>4 DEF Declared
  <2>4. x[1] = <<"namespace", <<n.name>>>> /\ x[1][1] = "namespace"
    OBVIOUS
  <2> HIDE DEF x
  <2>5. x[1] \in DOMAIN objects
    BY <1>2, <2>3, <2>4 DEF Held, Excepted
  <2>. QED  BY <2>2, <2>4, <2>5
<1>. QED  BY <1>3, <1>4

\* A boot removes nothing.
LEMMA BootGrows ==
  ASSUME TypeOK, Sent, Sending, mode \notin Passes, Does(Head(todo))
  PROVE  DOMAIN objects \subseteq DOMAIN objects'
<1>1. Running /\ Head(todo) \in Range(todo)
  BY SendingIs
<1>2. mode = "boot" /\ removed = <<>>
  BY <1>1 DEF Sent, Planned, TypeOK
<1>3. ~Prunes(Head(todo))
  BY <1>1, <1>2, NoSeq, EachKnown DEF Converges
<1>. QED  BY <1>3, DoesGrow

LEMMA RecordedNext ==
  TypeOK /\ Sent /\ Declaring /\ Recorded /\ [Next]_vars => Recorded'
<1> SUFFICES ASSUME TypeOK, Sent, Declaring, Recorded, [Next]_vars,
                    clean', mode' \in Passes => outcome' = "ok",
                    NEW o \in Range(record'), driver' \in {"postgres", "temporal"},
                    o[1] \in Lasting
             PROVE  <<o[1], <<o[2]>>>> \in DOMAIN objects'
  BY DEF Recorded
<1>1. ASSUME clean, mode \in Passes => outcome = "ok",
             UNCHANGED <<driver, record>>, DOMAIN objects \subseteq DOMAIN objects'
      PROVE  <<o[1], <<o[2]>>>> \in DOMAIN objects'
  BY <1>1 DEF Recorded
<1>2. CASE Edit \/ Boot \/ BootFails
  BY <1>1, <1>2 DEF Edit, Boot, BootFails, Begin, StaysClean, server
<1>3. CASE ApplyPruneFirst \/ ApplyConvergeFirst \/ Destroy
  BY <1>3 DEF ApplyPruneFirst, ApplyConvergeFirst, Destroy, Begin, Passes
<1>4. CASE Execute
  <2>1. /\ Sending /\ Does(Head(todo)) /\ outcome = "running"
        /\ UNCHANGED <<driver, record, mode, outcome, clean>>
    BY <1>4 DEF Execute, Sending
  <2>2. mode \notin Passes
    BY <2>1
  <2>. QED  BY <1>1, <2>1, <2>2, BootGrows
<1>5. CASE Refuse \/ Lose \/ Misread
  <2>1. /\ Sending /\ UNCHANGED <<driver, record, mode, clean>> /\ outcome' # "ok"
        /\ UNCHANGED objects \/ Does(Head(todo))
    BY <1>5 DEF Refuse, Lose, Misread, Fails, server, Reasons
  <2>2. mode \notin Passes
    BY <2>1
  <2>. QED  BY <1>1, <2>1, <2>2, BootGrows
<1>6. CASE Finish
  <2>1. /\ UNCHANGED <<driver, mode, objects>> /\ outcome = "running"
        /\ mode = "boot" => clean /\ record' = record
        /\ mode = "destroy" => record' = <<>>
        /\ mode \notin {"boot", "destroy"} => record' = Objects(driver, config)
    BY <1>6 DEF Finish, server
  <2>2. mode \in {"boot", "destroy"} \cup Applies
    BY <2>1 DEF Sent, Planned, Running, TypeOK, Passes, Applies
  <2>3. CASE mode = "boot"
    BY <1>1, <2>1, <2>3 DEF Passes
  <2>4. CASE mode = "destroy"
    BY <2>1, <2>4, NoSeq
  <2>5. CASE mode \in Applies
    <3>1. record' = Objects(driver, config)
      BY <2>1, <2>5 DEF Applies
    <3>. QED  BY <1>6, <2>1, <2>5, <3>1, AppliedIsThere
  <2>. QED  BY <2>2, <2>3, <2>4, <2>5
<1>7. CASE UNCHANGED vars
  BY <1>1, <1>7 DEF vars, server
<1>. QED  BY <1>2, <1>3, <1>4, <1>5, <1>6, <1>7 DEF Next
-----------------------------------------------------------------------------
(* A pass, from its first statement to its last, has what it needs.        *)

SuppliedNow == Running => Supplied(todo, DOMAIN objects, Excused)
UndroppedNow == Running /\ clean => Undropped(todo, DOMAIN objects)

\* A database of Postgres and a namespace only go when they are dropped.
LEMMA LastingStay ==
  ASSUME NEW o, NEW n \in Taken(o), n # o
  PROVE  n[1] \notin Lasting
<1>1. n \in Within(o) \/ n \in BuiltOn({o} \cup Within(o))
  BY DEF Taken
<1>2. n[1] \in {"extension", "schema", "collection"}
  BY <1>1 DEF Within, BuiltOn
<1>. QED  BY <1>2 DEF Lasting

\* The two halves of an apply
LEMMA HalvesOfApply ==
  ASSUME TypeOK, Shapes
  PROVE  LET P == Prune(driver, Undeclared)
             C == Converge(driver, config)
         IN /\ IsSeq(P) /\ \A st \in Range(P) : Prunes(st)
            /\ IsSeq(C) /\ \A st \in Range(C) : ~Prunes(st)
<1> DEFINE P == Prune(driver, Undeclared)
           C == Converge(driver, config)
<1>1. /\ config \in Configs(driver) /\ driver \in Drivers /\ driver \in DriverNames
      /\ IsSeq(record)
  BY BodiesAssumption DEF TypeOK, Configs, Shapes
<1>2. IsSeq(Undeclared) /\ \A o \in Range(Undeclared) : ItemShape(driver, o)
  BY UndeclaredIs
<1>3. IsSeq(P) /\ Range(P) = {PruneOne(driver, o) : o \in Range(Undeclared)}
  BY <1>1, <1>2, PruneList
<1>4. \A st \in Range(P) : Prunes(st)
  BY <1>2, <1>3, PruneOneIs
<1>5. IsSeq(C) /\ \A st \in Range(C) : ~Prunes(st)
  BY <1>1, ConvergesAll DEF Converges
<1>. QED  BY <1>3, <1>4, <1>5

LEMMA SuppliedStart ==
  ASSUME TypeOK, Shapes, NEW D
  PROVE  LET P == Prune(driver, Undeclared)
             C == Converge(driver, config)
         IN /\ Supplied(C, D, Excused)
            /\ Supplied(P \o C, D, Excused) /\ Supplied(C \o P, D, Excused)
            /\ Supplied(Prune(driver, Reverse(record)), D, Excused)
<1> DEFINE P == Prune(driver, Undeclared)
           C == Converge(driver, config)
           Q == Prune(driver, Reverse(record))
<1>1. /\ IsSeq(P) /\ \A st \in Range(P) : Prunes(st)
      /\ IsSeq(C) /\ \A st \in Range(C) : ~Prunes(st)
  BY HalvesOfApply
<1>2. Built(C, {}, Excused)
  BY BuiltAll
<1>3. IsSeq(Q) /\ \A st \in Range(Q) : Prunes(st)
  <2> DEFINE R == Reverse(record)
  <2>1. driver \in DriverNames /\ IsSeq(R) /\ \A o \in Range(R) : ItemShape(driver, o)
    BY BodiesAssumption, ReverseIs DEF TypeOK, Shapes
  <2>2. Q = Prune(driver, R)
    OBVIOUS
  <2> HIDE DEF R, Q
  <2>3. IsSeq(Q) /\ Range(Q) = {PruneOne(driver, o) : o \in Range(R)}
    BY <2>1, <2>2, PruneList
  <2>. QED  BY <2>1, <2>3, PruneOneIs
<1> HIDE DEF P, C, Q
<1>4. /\ Supplied(C, D, Excused)
      /\ Supplied(P \o C, D, Excused) /\ Supplied(C \o P, D, Excused)
  BY <1>1, <1>2, SuppliedWith
<1>5. \A i \in 1 .. Len(Q) : Prunes(Q[i])
  BY <1>3, SeqFacts
<1>6. Supplied(Q, D, Excused)
  BY <1>5 DEF Supplied
<1>. QED  BY <1>4, <1>6 DEF P, C, Q

LEMMA SuppliedNext ==
  TypeOK /\ Shapes /\ Sent /\ SuppliedNow /\ [Next]_vars => SuppliedNow'
<1> SUFFICES ASSUME TypeOK, Shapes, Sent, SuppliedNow, [Next]_vars, Running'
             PROVE  Supplied(todo', DOMAIN objects', Excused')
  BY DEF SuppliedNow
<1>1. CASE Edit \/ BootFails \/ Refuse \/ Lose \/ Misread \/ Finish
  BY <1>1 DEF Edit, BootFails, Refuse, Lose, Misread, Finish, Fails, Running,
              Reasons
<1>2. ASSUME UNCHANGED <<driver, config>>
      PROVE  Excused' = Excused
  BY <1>2 DEF Excused, Dangling, DanglingGrant, DeclaredBefore
<1>3. CASE Boot \/ ApplyPruneFirst \/ ApplyConvergeFirst \/ Destroy
  <2>1. /\ UNCHANGED <<driver, config, objects>>
        /\ \/ todo' = Converge(driver, config)
           \/ todo' = Prune(driver, Undeclared) \o Converge(driver, config)
           \/ todo' = Converge(driver, config) \o Prune(driver, Undeclared)
           \/ todo' = Prune(driver, Reverse(record))
    BY <1>3 DEF Boot, ApplyPruneFirst, ApplyConvergeFirst, Destroy, Begin, server
  <2>2. Supplied(todo', DOMAIN objects, Excused)
    BY <2>1, SuppliedStart
  <2>. QED  BY <1>2, <2>1, <2>2
<1>4. CASE Execute
  <2>1. /\ Sending /\ Does(Head(todo)) /\ todo' = Tail(todo)
        /\ UNCHANGED <<driver, config>>
    BY <1>4 DEF Execute
  <2>2. Running /\ IsSeq(todo) /\ todo # <<>>
    BY <2>1, SendingIs
  <2> DEFINE D == DOMAIN objects
             E == DOMAIN objects'
  <2>3. ~Prunes(Head(todo)) =>
            D \subseteq E /\ (Creates(Head(todo)) => Head(todo).obj \in E)
    BY <2>1, DoesGrow
  <2>4. Supplied(todo, D, Excused)
    BY <2>2 DEF SuppliedNow
  <2> HIDE DEF D, E
  <2>5. Supplied(Tail(todo), E, Excused)
    BY <2>2, <2>3, <2>4, SuppliedTail
  <2>. QED  BY <1>2, <2>1, <2>5 DEF E
<1>5. CASE UNCHANGED vars
  BY <1>2, <1>5 DEF vars, server, SuppliedNow, Running
<1>. QED  BY <1>1, <1>3, <1>4, <1>5 DEF Next

LEMMA UndroppedNext ==
  /\ TypeOK /\ Shapes /\ Sent /\ RecordInOrder /\ Recorded
  /\ UndroppedNow /\ [Next]_vars
  => UndroppedNow'
<1> SUFFICES ASSUME TypeOK, Shapes, Sent, RecordInOrder, Recorded, UndroppedNow,
                    [Next]_vars, Running', clean'
             PROVE  Undropped(todo', DOMAIN objects')
  BY DEF UndroppedNow
<1>1. CASE Edit \/ BootFails \/ Refuse \/ Lose \/ Misread \/ Finish
  BY <1>1 DEF Edit, BootFails, Refuse, Lose, Misread, Finish, Fails, Running,
              Reasons
<1>2. CASE Boot \/ ApplyPruneFirst \/ ApplyConvergeFirst \/ Destroy
  <2> DEFINE P == Prune(driver, Undeclared)
             C == Converge(driver, config)
             D == DOMAIN objects
  <2>1. /\ objects' = objects /\ clean /\ (mode \in Passes => outcome = "ok")
        /\ todo' \in {C, P \o C, C \o P, Prune(driver, Reverse(record))}
    BY <1>2 DEF Boot, ApplyPruneFirst, ApplyConvergeFirst, Destroy, Begin,
                StaysClean, server
  <2>2. IsSeq(P) /\ IsSeq(C) /\ \A st \in Range(C) : ~Prunes(st)
    BY HalvesOfApply
  <2>3. Undropped(P, D) /\ Undropped(Prune(driver, Reverse(record)), D)
    BY <2>1, UndeclaredPrunable, ReversePrunable
  <2> HIDE DEF P, C, D
  <2>4. Undropped(C, D) /\ Undropped(P \o C, D) /\ Undropped(C \o P, D)
    BY <2>2, <2>3, UndroppedWith
  <2>5. Undropped(todo', D)
    BY <2>1, <2>3, <2>4
  <2>. QED  BY <2>1, <2>5 DEF D
<1>3. CASE Execute
  <2>1. /\ Sending /\ Does(Head(todo)) /\ todo' = Tail(todo) /\ clean
    BY <1>3 DEF Execute
  <2>2. Running /\ IsSeq(todo) /\ todo # <<>>
    BY <2>1, SendingIs
  <2> DEFINE D == DOMAIN objects
             E == DOMAIN objects'
             x == Head(todo)
  <2>3. \A n \in D : n[1] \in Lasting /\ (Prunes(x) => x.obj # n) => n \in E
    <3>1. CASE Prunes(x)
      <4>1. E = D \ Taken(x.obj)
        BY <2>1, <3>1, DoesPrune, DropShrinks
      <4> HIDE DEF D, E, x
      <4>. QED  BY <3>1, <4>1, LastingStay
    <3>2. CASE ~Prunes(x)
      BY <2>1, <3>2, DoesGrow
    <3>. QED  BY <3>1, <3>2
  <2>4. Undropped(todo, D)
    BY <2>1, <2>2 DEF UndroppedNow
  <2>5. \A n \in D : n[1] \in Lasting /\ (Prunes(Head(todo)) => Head(todo).obj # n)
                       => n \in E
    BY <2>3
  <2> HIDE DEF D, E, x
  <2>6. Undropped(Tail(todo), E)
    BY <2>2, <2>4, <2>5, UndroppedTail
  <2>. QED  BY <2>1, <2>6 DEF E
<1>4. CASE UNCHANGED vars
  BY <1>4 DEF vars, server, UndroppedNow, Running
<1>. QED  BY <1>1, <1>2, <1>3, <1>4 DEF Next

\* A boot reaches the port it planned, and only Temporal has one.
Reached ==
    /\ driver # "temporal" => listens = 0
    /\ Running /\ mode = "boot" => listens = PortOf(driver, config)

LEMMA ReachedNext == TypeOK /\ Reached /\ [Next]_vars => Reached'
<1> SUFFICES ASSUME TypeOK, Reached, [Next]_vars
             PROVE  Reached'
  OBVIOUS
<1>1. driver # "temporal" => PortOf(driver, config) = 0
  BY DEF PortOf
<1>2. driver' = driver
  BY DEF Next, vars, Edit, Boot, BootFails, ApplyPruneFirst, ApplyConvergeFirst,
         Destroy, Execute, Refuse, Lose, Misread, Fails, Finish
<1>3. CASE Edit \/ BootFails \/ Refuse \/ Lose \/ Misread \/ Finish
  BY <1>3 DEF Edit, BootFails, Refuse, Lose, Misread, Finish, Fails, Running,
              Reasons, Reached
<1>4. CASE Boot
  <2>1. listens' = PortOf(driver, config) /\ config' = config
    BY <1>4 DEF Boot
  <2>2. PortOf(driver', config') = PortOf(driver, config)
    BY <1>2, <2>1
  <2>. QED  BY <1>1, <1>2, <2>1, <2>2 DEF Reached
<1>5. CASE ApplyPruneFirst \/ ApplyConvergeFirst \/ Destroy
  BY <1>5 DEF ApplyPruneFirst, ApplyConvergeFirst, Destroy, Begin, Reached
<1>6. CASE Execute \/ UNCHANGED vars
  <2>1. UNCHANGED <<driver, config, listens, mode, outcome>>
    BY <1>6 DEF Execute, vars
  <2>. QED  BY <2>1 DEF Reached, Running, PortOf
<1>. QED  BY <1>3, <1>4, <1>5, <1>6 DEF Next
-----------------------------------------------------------------------------
(* Why a pass fails.                                                       *)

\* The reason `why` is one the state accounts for.
Blamed(why) ==
    /\ why = "malformed" => BadNames
    /\ why = "missing" =>
           \/ driver = "postgres" /\ Dangling
           \/ driver = "mariadb" /\ DanglingGrant
           \/ driver = "temporal" /\ ~clean /\ removed # <<>>
    /\ why = "no database" =>
           driver = "postgres" /\ ~clean /\ removed # <<>>
    /\ why = "in use" =>
           /\ driver = "postgres"
           /\ \E o \in Range(removed) : o[1] = "role"
    /\ why = "misread" => driver = "temporal"
    /\ why = "unreachable" => driver = "temporal" /\ mode # "boot"
    /\ why = "will not start" =>
           \/ /\ driver = "postgres"
              /\ \E s \in DOMAIN config.settings : s[2] # "plain"
           \/ driver = "temporal" /\ config.port = config.ui_port

LEMMA BlamedIs == OnlyTheseFail <=> Blamed(outcome)
BY Zenon DEF OnlyTheseFail, Blamed

\* Nothing that Prune sends is malformed.
LEMMA MalformedPrunes ==
  ASSUME NEW o, ItemShape(driver, o)
  PROVE  ~Malformed(PruneOne(driver, o))
<1> DEFINE st == PruneOne(driver, o)
<1>1. st.needs = {} /\ NoName \notin Range(st.obj[2])
  BY PruneOneIs
<1>2. CASE driver = "mariadb" /\ st.obj[1] = "user"
  <2>1. st = DropMaria(o)
    BY <1>2 DEF PruneOne
  <2>2. o[1] = "user" /\ st.obj[2] = CutLast(o[2], "@")
    BY <1>2, <2>1 DEF DropMaria, Simple, Stmt
  <2>3. "@" \notin Range(CutLast(o[2], "@")[2])
    BY <1>2, <2>2 DEF ItemShape
  <2>. QED  BY <1>1, <1>2, <2>2, <2>3 DEF Malformed, Misnamed
<1>3. CASE driver = "ferret" /\ st.obj[1] = "collection"
  <2>1. st = DropFerret(o)
    BY <1>3 DEF PruneOne
  <2>2. o[1] = "collection" /\ st.obj[2] = CutFirst(o[2], ".")
    BY <1>3, <2>1 DEF DropFerret, Simple, Stmt
  <2>3. "." \notin Range(CutFirst(o[2], ".")[1])
    BY <1>3, <2>2 DEF ItemShape
  <2>. QED  BY <1>1, <1>3, <2>2, <2>3 DEF Malformed, Misnamed
<1>. QED  BY <1>1, <1>2, <1>3 DEF Malformed, Misnamed

LEMMA MalformedOnes ==
  ASSUME TypeOK, Sent, Sending, Malformed(Head(todo))
  PROVE  BadNames
<1> DEFINE st == Head(todo)
<1>1. Running /\ st \in Range(todo) /\ Malformed(st)
  BY SendingIs
<1> HIDE DEF st
<1>2. CASE \E o \in Range(removed) : ItemShape(driver, o) /\ st = PruneOne(driver, o)
  BY <1>1, <1>2, MalformedPrunes
<1>3. CASE st \in Range(Converge(driver, config))
  BY <1>1, <1>3, NamedAll
<1>. QED  BY <1>1, <1>2, <1>3, EachKnown

LEMMA FirstNeeds ==
  ASSUME TypeOK, Sent, Sending, SuppliedNow, UndroppedNow
  PROVE  LET st == Head(todo)
         IN /\ ~Prunes(st) => Wants(st, Excused) \subseteq DOMAIN objects
            /\ Prunes(st) /\ clean => st.db \cup Named(st) \subseteq DOMAIN objects
<1> DEFINE st == Head(todo)
           D == DOMAIN objects
<1>1. Running /\ IsSeq(todo) /\ todo # <<>>
  BY SendingIs
<1>2. Len(todo) \in Nat \ {0} /\ st = todo[1]
  BY <1>1, HeadAndTail
<1>3. 1 \in 1 .. Len(todo) /\ 1 .. 1 - 1 = {}
  BY <1>2
<1>4. Supplied(todo, D, Excused) /\ (clean => Undropped(todo, D))
  BY <1>1 DEF SuppliedNow, UndroppedNow
<1> HIDE DEF st, D
<1>5. ASSUME ~Prunes(st), NEW n \in Wants(st, Excused)
      PROVE  n \in D
  BY <1>2, <1>3, <1>4, <1>5 DEF Supplied
<1>6. ASSUME Prunes(st), clean, NEW n \in st.db \cup Named(st)
      PROVE  n \in D
  BY <1>2, <1>3, <1>4, <1>6 DEF Undropped
<1>. QED  BY <1>5, <1>6 DEF st, D

LEMMA PrunesItem ==
  ASSUME TypeOK, Sent, Sending, Prunes(Head(todo))
  PROVE  \E o \in Range(removed) : /\ ItemShape(driver, o)
                                   /\ Head(todo) = PruneOne(driver, o)
                                   /\ removed # <<>>
BY SendingIs, EachKnown, NoSeq DEF Converges

LEMMA NoDatabaseOnes ==
  ASSUME TypeOK, Sent, Sending, SuppliedNow, UndroppedNow,
         ~(Head(todo).db \subseteq DOMAIN objects)
  PROVE  driver = "postgres" /\ ~clean /\ removed # <<>>
<1>1. Prunes(Head(todo)) /\ ~clean
  BY FirstNeeds DEF Wants
<1>2. PICK o \in Range(removed) : /\ ItemShape(driver, o)
                                  /\ Head(todo) = PruneOne(driver, o)
                                  /\ removed # <<>>
  BY <1>1, PrunesItem
<1>3. PruneOne(driver, o).db
         = IF driver = "postgres" /\ o[1] \in {"schema", "extension"}
           THEN {Database} ELSE {}
  <2>1. ItemShape(driver, o)
    BY <1>2
  <2>. QED  BY <2>1, PruneOneIs
<1>4. Head(todo).db # {}
  OBVIOUS
<1>5. driver = "postgres"
  BY <1>2, <1>3, <1>4
<1>6. removed # <<>>
  BY <1>2
<1>. QED  BY <1>1, <1>5, <1>6

LEMMA MissingOnes ==
  ASSUME TypeOK, Sent, Sending, SuppliedNow, UndroppedNow,
         ~(Named(Head(todo)) \subseteq DOMAIN objects)
  PROVE  \/ driver = "postgres" /\ Dangling
         \/ driver = "mariadb" /\ DanglingGrant
         \/ driver = "temporal" /\ ~clean /\ removed # <<>>
<1>1. CASE ~Prunes(Head(todo))
  BY <1>1, FirstNeeds DEF Wants, Excused
<1>2. CASE Prunes(Head(todo))
  <2>1. ~clean
    BY <1>2, FirstNeeds
  <2>2. PICK o \in Range(removed) : /\ ItemShape(driver, o)
                                    /\ Head(todo) = PruneOne(driver, o)
                                    /\ removed # <<>>
    BY <1>2, PrunesItem
  <2>3. Head(todo).needs = {} /\ (Head(todo).do = "delete" <=> driver = "temporal")
    BY <2>2, PruneOneIs
  <2>4. Named(Head(todo)) # {}
    OBVIOUS
  <2>5. Head(todo).do = "delete"
    BY <1>2, <2>3, <2>4 DEF Named, Prunes
  <2>. QED  BY <2>1, <2>2, <2>3, <2>5
<1>. QED  BY <1>1, <1>2

LEMMA InUseOnes ==
  ASSUME TypeOK, Sent, Sending, Head(todo).do = "drop", Head(todo).obj[1] = "role"
  PROVE  driver = "postgres" /\ \E o \in Range(removed) : o[1] = "role"
<1>1. PICK o \in Range(removed) : /\ ItemShape(driver, o)
                                  /\ Head(todo) = PruneOne(driver, o)
                                  /\ removed # <<>>
  BY PrunesItem DEF Prunes
<1>2. Head(todo).obj = <<o[1], Head(todo).obj[2]>>
  BY <1>1, PruneOneIs
<1>3. o[1] = "role"
  BY <1>2
<1>. QED  BY <1>1, <1>3 DEF ItemShape

LEMMA UnreachableOnes ==
  ASSUME Reached, Sending, PortOf(driver, config) # listens
  PROVE  driver = "temporal" /\ mode # "boot"
BY DEF Reached, Sending, Running, PortOf

LEMMA MisreadOnes ==
  ASSUME TypeOK, Sent, Sending, Head(todo).do = "upsert"
  PROVE  driver = "temporal"
<1>1. Head(todo) \in Range(Converge(driver, config))
  BY SendingIs, EachKnown DEF Prunes
<1>. QED  BY <1>1, NamedAll

LEMMA RefusedIsBlamed ==
  ASSUME TypeOK, Sent, Sending, SuppliedNow, UndroppedNow, Reached,
         NEW why, Refused(Head(todo), why)
  PROVE  Blamed(why)
<1>1. CASE why = "malformed" /\ Malformed(Head(todo))
  <2>1. BadNames
    BY <1>1, MalformedOnes
  <2>. QED  BY <1>1, <2>1, Zenon DEF Blamed
<1>2. CASE why = "no database" /\ ~(Head(todo).db \subseteq DOMAIN objects)
  <2>1. driver = "postgres" /\ ~clean /\ removed # <<>>
    BY <1>2, NoDatabaseOnes, Zenon
  <2>. QED  BY <1>2, <2>1, Zenon DEF Blamed
<1>3. CASE why = "missing" /\ ~(Named(Head(todo)) \subseteq DOMAIN objects)
  <2>1. \/ driver = "postgres" /\ Dangling
        \/ driver = "mariadb" /\ DanglingGrant
        \/ driver = "temporal" /\ ~clean /\ removed # <<>>
    BY <1>3, MissingOnes
  <2>. QED  BY <1>3, <2>1, Zenon DEF Blamed
<1>4. CASE why = "in use" /\ Head(todo).do = "drop" /\ Head(todo).obj[1] = "role"
  <2>1. driver = "postgres" /\ \E o \in Range(removed) : o[1] = "role"
    BY <1>4, InUseOnes, Zenon
  <2>. QED  BY <1>4, <2>1, Zenon DEF Blamed
<1>5. CASE why = "unreachable" /\ PortOf(driver, config) # listens
  <2>1. driver = "temporal" /\ mode # "boot"
    BY <1>5, UnreachableOnes
  <2>. QED  BY <1>5, <2>1, Zenon DEF Blamed
<1>. QED  BY <1>1, <1>2, <1>3, <1>4, <1>5, Zenon DEF Refused, Malformed

LEMMA OtherOutcomes ==
  ASSUME NEW why \in {"none", "running", "ok", "lost"}
  PROVE  Blamed(why)
BY Zenon DEF Blamed

LEMMA OnlyTheseFailNext ==
  /\ TypeOK /\ Sent /\ SuppliedNow /\ UndroppedNow /\ Reached
  /\ OnlyTheseFail /\ [Next]_vars
  => OnlyTheseFail'
<1> SUFFICES ASSUME TypeOK, Sent, SuppliedNow, UndroppedNow, Reached,
                    Blamed(outcome), [Next]_vars
             PROVE  Blamed(outcome)'
  BY BlamedIs, PTL
<1>1. CASE Edit \/ Boot \/ ApplyPruneFirst \/ ApplyConvergeFirst \/ Destroy
           \/ Execute \/ Lose \/ Finish
  <2>1. outcome' \in {"none", "running", "ok", "lost"}
    BY <1>1 DEF Edit, Boot, ApplyPruneFirst, ApplyConvergeFirst, Destroy, Begin,
                Execute, Sending, Lose, Fails, Finish
  <2>. QED  BY <2>1, Zenon DEF Blamed
<1>2. CASE BootFails
  <2>1. /\ WontStart /\ outcome' = "will not start"
        /\ UNCHANGED <<driver, config>>
    BY <1>2, Zenon DEF BootFails
  <2>2. \/ /\ driver' = "postgres"
           /\ \E s \in DOMAIN config'.settings : s[2] # "plain"
        \/ driver' = "temporal" /\ config'.port = config'.ui_port
    BY <2>1, WhyItWontStart, Zenon
  <2>. QED  BY <2>1, <2>2, Zenon DEF Blamed
<1>3. ASSUME UNCHANGED <<driver, config, mode, removed, clean>>, Blamed(outcome')
      PROVE  Blamed(outcome)'
  <2>1. Declared' = Declared
    BY <1>3 DEF Declared
  <2>2. BadNames' <=> BadNames
    BY <1>3, <2>1 DEF BadNames
  <2>3. (Dangling' <=> Dangling) /\ (DanglingGrant' <=> DanglingGrant)
    BY <1>3 DEF Dangling, DanglingGrant, DeclaredBefore
  <2>. QED  BY <1>3, <2>2, <2>3, Zenon DEF Blamed
<1>4. CASE Refuse
  <2>1. /\ Sending /\ Refused(Head(todo), outcome')
        /\ UNCHANGED <<driver, config, mode, removed, clean>>
    BY <1>4, Zenon DEF Refuse, Fails
  <2>2. Blamed(outcome')
    BY <2>1, RefusedIsBlamed
  <2>. QED  BY <1>3, <2>1, <2>2
<1>5. CASE Misread
  <2>1. /\ Sending /\ Head(todo).do = "upsert" /\ outcome' = "misread"
        /\ UNCHANGED <<driver, config, mode, removed, clean>>
    BY <1>5, Zenon DEF Misread, Fails
  <2>2. driver = "temporal"
    BY <2>1, MisreadOnes
  <2>3. Blamed(outcome')
    BY <2>1, <2>2, Zenon DEF Blamed
  <2>. QED  BY <1>3, <2>1, <2>3
<1>6. CASE UNCHANGED vars
  <2>1. UNCHANGED <<driver, config, mode, removed, clean, outcome>>
    BY <1>6 DEF vars
  <2>. QED  BY <1>3, <2>1
<1>. QED  BY <1>1, <1>2, <1>4, <1>5, <1>6 DEF Next

LEMMA OutcomeInit ==
  Init => /\ RecordInOrder /\ Recorded /\ SuppliedNow /\ UndroppedNow
          /\ Reached /\ OnlyTheseFail
<1> SUFFICES ASSUME Init
             PROVE  /\ RecordInOrder /\ Recorded /\ SuppliedNow /\ UndroppedNow
                    /\ Reached /\ OnlyTheseFail
  OBVIOUS
<1>1. /\ record = <<>> /\ outcome = "none" /\ listens = PortOf(driver, config)
  BY DEF Init
<1>2. RecordInOrder /\ Recorded
  BY <1>1, NoSeq DEF RecordInOrder, Recorded, InOrder, Distinct
<1>3. SuppliedNow /\ UndroppedNow
  BY <1>1 DEF SuppliedNow, UndroppedNow, Running
<1>4. Reached
  BY <1>1 DEF Reached, Running, PortOf
<1>5. OnlyTheseFail
  BY <1>1, OtherOutcomes, BlamedIs, Zenon
<1>. QED  BY <1>2, <1>3, <1>4, <1>5

LEMMA OutcomesCorrect ==
  Spec => [](/\ TypeOK /\ Shapes /\ Sent /\ Unsent /\ Sorted /\ Declaring
             /\ RecordInOrder /\ Recorded /\ SuppliedNow /\ UndroppedNow
             /\ Reached /\ OnlyTheseFail)
BY DeclaringCorrect, OutcomeInit, RecordInOrderNext, RecordedNext, SuppliedNext,
   UndroppedNext, ReachedNext, OnlyTheseFailNext, PTL DEF Spec

(* A pass that keeps its connection fails for the listed reasons only, for *)
(* every configuration and after every history: a converge sends each      *)
(* statement after the one that creates what it names (Converge puts roles *)
(* before the database, the database before schemas, schemas before        *)
(* extensions, these before grants), unless the block names what it does   *)
(* not declare; and while no pass broke off since the record was written,  *)
(* what Prune needs is on the server.                                      *)
THEOREM OnlyTheseReasons == Spec => []OnlyTheseFail
BY OutcomesCorrect, PTL
=============================================================================
