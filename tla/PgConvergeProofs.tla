--------------------------- MODULE PgConvergeProofs ---------------------------
(***************************************************************************)
(* The safety properties of PgConverge, for any declaration, any number of *)
(* passes and attempts, and any starting point.                            *)
(***************************************************************************)
EXTENDS PgConverge, TLAPS

RoleLoop == {"roles", "checkRole", "createRole", "alterRole", "noteRole"}
MemberLoop == {"members", "grantMember"}
DatabaseLoop == {"database", "checkDatabase", "createDatabase", "alterOwner",
                 "alterOptions", "noteDatabase"}
SchemaLoop == {"schemas", "createSchema"}
ExtensionLoop == {"extensions", "findFiles", "extract", "createExtension"}
GrantLoop == {"grants", "grant"}

Halted == {"idle", "failed"}
BeforeMembers == Halted \cup RoleLoop
BeforeDatabase == BeforeMembers \cup MemberLoop
BeforeSchemas == BeforeDatabase \cup DatabaseLoop
BeforeExtensions == BeforeSchemas \cup SchemaLoop
BeforeGrants == BeforeExtensions \cup ExtensionLoop

Over(p, loop, work) ==
    pc[p] \in loop => todo[p] \subseteq work
                        /\ (pc[p] \notin Loops => item[p] \in work)

Kind(p) ==
    /\ Over(p, RoleLoop, Role)
    /\ Over(p, MemberLoop, Memberships)
    /\ Over(p, DatabaseLoop, {Database})
    /\ Over(p, SchemaLoop, Schema)
    /\ Over(p, ExtensionLoop, Extension)
    /\ Over(p, GrantLoop, Grants)

Options(o) == [of |-> "options", on |-> o]
Note(o) == [of |-> "note", on |-> o]
Member(m) == [of |-> "member", on |-> m]
Grant(g) == [of |-> "grant", on |-> g]
Owned == [of |-> "owner", on |-> Database]

RoleDone(r) ==
    r \in exists /\ Options(r) \in applied /\ (r \in Noted => Note(r) \in applied)

DatabaseDone ==
    /\ Database \in exists
    /\ Owner # {} => Owned \in applied
    /\ HasOptions => Options(Database) \in applied
    /\ Database \in Noted => Note(Database) \in applied

Still(p, loop, i) ==
    /\ pc[p] \in loop
    /\ i \in todo[p] \/ (pc[p] \notin Loops /\ i = item[p])

Progress(p) ==
    /\ \A r \in Role :
           RoleDone(r) \/ pc[p] \in Halted \/ Still(p, RoleLoop, r)
    /\ \A m \in Memberships :
           \/ Member(m) \in applied
           \/ pc[p] \in BeforeMembers \/ Still(p, MemberLoop, m)
    /\ \/ DatabaseDone
       \/ pc[p] \in BeforeDatabase \/ Still(p, DatabaseLoop, Database)
    /\ \A s \in Schema :
           \/ s \in exists
           \/ pc[p] \in BeforeSchemas \/ Still(p, SchemaLoop, s)
    /\ \A e \in Extension \ Optional :
           \/ e \in exists
           \/ pc[p] \in BeforeExtensions \/ Still(p, ExtensionLoop, e)
    /\ \A g \in Grants :
           \/ Grant(g) \in applied
           \/ pc[p] \in BeforeGrants \/ Still(p, GrantLoop, g)

Within(p) ==
    /\ pc[p] \in {"alterRole", "noteRole"} => item[p] \in exists
    /\ pc[p] = "noteRole" => Options(item[p]) \in applied
    /\ pc[p] \in {"alterOwner", "alterOptions", "noteDatabase"} =>
           Database \in exists
    /\ pc[p] \in {"alterOptions", "noteDatabase"} /\ Owner # {} =>
           Owned \in applied
    /\ pc[p] = "noteDatabase" /\ HasOptions => Options(Database) \in applied

Racing(p) ==
    /\ \A q \in Pass \ {p} :
           pc[p] \in Running /\ pc[q] \in Running => raced[p]
    /\ pc[p] = "createDatabase" /\ Database \in exists => raced[p]

Blamed(p) ==
    /\ pc[p] = "failed" <=> reason[p] # "none"
    /\ reason[p] # "missing"
    /\ reason[p] = "exists" => item[p] = Database /\ raced[p]
    /\ reason[p] = "contention" => raced[p]
    /\ reason[p] = "closed" => closed
    /\ reason[p] \in {"unavailable", "damaged"} => item[p] \notin Optional

Good(p) == Kind(p) /\ Progress(p) /\ Within(p) /\ Racing(p) /\ Blamed(p)

Inv == TypeOK /\ \A p \in Pass : Good(p)

-----------------------------------------------------------------------------

\* Any cluster, before a pass has started.
LEMMA InvInit == Init => Inv
<1> SUFFICES ASSUME Init PROVE Inv
    OBVIOUS
<1> USE DeclarationAssumption DEF DeclarationAssumption, Init
<1>1. TypeOK
    <2>1. tries \in [Pass -> 0 .. Attempts - 1] /\ runs \in [Pass -> 0 .. MaxRuns]
        OBVIOUS
    <2>2. toolchain \in [Extension -> {"absent", "partial", "complete"}]
        OBVIOUS
    <2> QED BY <2>1, <2>2 DEF TypeOK, Reason, Running, Item
<1>2. ASSUME NEW p \in Pass PROVE Good(p)
    BY <1>2 DEF Good, Kind, Over, Progress, Within, Racing, Blamed, RoleLoop,
       MemberLoop, DatabaseLoop, SchemaLoop, ExtensionLoop, GrantLoop, Halted,
       BeforeMembers, BeforeDatabase, BeforeSchemas, BeforeExtensions,
       BeforeGrants, Running, Loops, Retried, Plain
<1> QED BY <1>1, <1>2 DEF Inv

\* A statement of converge.go creates declared objects and settles their
\* settings, and nothing else.
LEMMA StatementTypes ==
    ASSUME TypeOK, NEW p \in Pass, Kind(p), pc[p] \in Retried \cup Plain
    PROVE  /\ Creates(pc[p], item[p]) \subseteq Object
           /\ Settles(pc[p], item[p]) \subseteq Setting
<1> USE DeclarationAssumption DEF DeclarationAssumption, Kind, Over, RoleLoop,
        MemberLoop, DatabaseLoop, SchemaLoop, ExtensionLoop, GrantLoop, Loops,
        Retried, Plain
<1>1. Creates(pc[p], item[p]) \subseteq Object
    BY DEF Creates, Object
<1>2. CASE pc[p] \in {"createRole", "alterRole", "noteRole", "grantMember"}
    BY <1>1, <1>2 DEF Settles, Setting
<1>3. CASE pc[p] \in {"checkDatabase", "createDatabase", "alterOwner",
                      "alterOptions", "noteDatabase"}
    BY <1>1, <1>3 DEF Settles, Setting
<1>4. CASE pc[p] \in {"grant", "checkRole", "createSchema", "createExtension"}
    BY <1>1, <1>4 DEF Settles, Setting
<1> QED BY <1>2, <1>3, <1>4

\* Every step of a pass keeps the types.
LEMMA TypesStep == Inv /\ [Next]_vars => TypeOK'
<1> SUFFICES ASSUME Inv, [Next]_vars PROVE TypeOK'
    OBVIOUS
<1> USE DeclarationAssumption
    DEF DeclarationAssumption, TypeOK, Goto, Fail, FailOrSkip, cluster
<1>k. \A p \in Pass : Kind(p)
    BY DEF Inv, Good
<1>s. \A p \in Pass : pc[p] \in Retried \cup Plain =>
          /\ Creates(pc[p], item[p]) \subseteq Object
          /\ Settles(pc[p], item[p]) \subseteq Setting
    BY <1>k, StatementTypes DEF Inv
<1>1. ASSUME NEW p \in Pass, Start(p) PROVE TypeOK'
    <2>1. raced' \in [Pass -> BOOLEAN]
        <3>1. raced' = [q \in Pass |-> IF q = p THEN Contended(p)
                                      ELSE raced[q] \/ pc[q] \in Running]
            BY <1>1 DEF Start
        <3>2. Contended(p) \in BOOLEAN
            BY DEF Contended
        <3> QED BY <3>1, <3>2 DEF Inv
    <2>2. runs' \in [Pass -> 0 .. MaxRuns]
        BY <1>1 DEF Inv, Start
    <2>3. /\ pc' \in [Pass -> Running \cup {"idle", "ok", "failed"}]
          /\ tries' \in [Pass -> 0 .. Attempts - 1]
        BY <1>1 DEF Inv, Start, Running, Loops
    <2>4. /\ todo' \in [Pass -> SUBSET (Object \cup Memberships \cup Grants)]
          /\ item' \in [Pass -> Item] /\ reason' \in [Pass -> Reason]
        BY <1>1 DEF Inv, Start, Work, Reason, Item, Object
    <2> QED BY <1>1, <2>1, <2>2, <2>3, <2>4 DEF Inv, Start
<1>2. ASSUME NEW p \in Pass, TakeItem(p) PROVE TypeOK'
    BY <1>2 DEF Inv, TakeItem, FirstStep, Running, Loops, Plain, Retried, Item
<1>3. ASSUME NEW p \in Pass, LeaveLoop(p) PROVE TypeOK'
    BY <1>3 DEF Inv, LeaveLoop, After, Work, Running, Loops, Item, Object
<1>4. ASSUME NEW p \in Pass, CheckRole(p) \/ CheckDatabase(p) PROVE TypeOK'
    BY <1>4 DEF Inv, CheckRole, CheckDatabase, AfterOwner, Running, Retried,
       Plain, Loops
<1>5. ASSUME NEW p \in Pass, Execute(p) PROVE TypeOK'
    BY <1>5, <1>s DEF Inv, Execute, Takes, Then, AfterOwner, Running, Retried,
       Plain, Loops
<1>6. ASSUME NEW p \in Pass, LoseRoleRace(p) PROVE TypeOK'
    BY <1>6 DEF Inv, LoseRoleRace, Running, Retried
<1>7. ASSUME NEW p \in Pass, Refuse(p) PROVE TypeOK'
    BY <1>7 DEF Inv, Refuse, Refusals, Reason, Running, Loops
<1>8. ASSUME NEW p \in Pass, Retry(p) \/ LoseToContention(p) PROVE TypeOK'
    BY <1>8 DEF Inv, Retry, LoseToContention, Reason, Running, Loops
<1>9. ASSUME NEW p \in Pass, LoseConnection(p) PROVE TypeOK'
    BY <1>9, <1>s DEF Inv, LoseConnection, Takes, Reason, Running, Loops
<1>10. ASSUME NEW p \in Pass,
              FindFiles(p) \/ ExtractSome(p) \/ ExtractAll(p) \/ ExtractFails(p)
       PROVE  TypeOK'
    BY <1>10 DEF Inv, FindFiles, ExtractSome, ExtractAll, ExtractFails, Reason,
       Running, Loops, Plain
<1>11. ASSUME UNCHANGED vars PROVE TypeOK'
    BY <1>11 DEF Inv, vars
<1> QED BY <1>1, <1>2, <1>3, <1>4, <1>5, <1>6, <1>7, <1>8, <1>9, <1>10, <1>11
        DEF Next, Step

-----------------------------------------------------------------------------
(* What a pass does to the cluster and to the other passes.                *)

\* A step of a pass takes nothing away from the cluster, and changes neither
\* what another pass does nor what it knows.
LEMMA OneStep ==
    ASSUME TypeOK, NEW p \in Pass, Step(p)
    PROVE  /\ exists \subseteq exists' /\ applied \subseteq applied'
           /\ closed => closed'
           /\ pc[p] \in Running
           /\ raced' = raced
           /\ \A q \in Pass \ {p} :
                  /\ pc'[q] = pc[q] /\ item'[q] = item[q]
                  /\ todo'[q] = todo[q] /\ reason'[q] = reason[q]
<1> USE DEF TypeOK, Goto, Fail, FailOrSkip, cluster, Running, Retried, Plain,
            Loops
<1>1. CASE TakeItem(p) \/ LeaveLoop(p)
    BY <1>1 DEF TakeItem, LeaveLoop
<1>2. CASE CheckRole(p) \/ CheckDatabase(p) \/ LoseRoleRace(p)
    BY <1>2 DEF CheckRole, CheckDatabase, LoseRoleRace
<1>3. CASE Execute(p)
    BY <1>3 DEF Execute, Takes
<1>4. CASE Refuse(p)
    BY <1>4 DEF Refuse
<1>5. CASE Retry(p) \/ LoseToContention(p)
    BY <1>5 DEF Retry, LoseToContention
<1>6. CASE LoseConnection(p)
    BY <1>6 DEF LoseConnection, Takes
<1>7. CASE FindFiles(p) \/ ExtractSome(p) \/ ExtractAll(p) \/ ExtractFails(p)
    BY <1>7 DEF FindFiles, ExtractSome, ExtractAll, ExtractFails
<1> QED BY <1>1, <1>2, <1>3, <1>4, <1>5, <1>6, <1>7 DEF Step

\* Starting Converge changes nothing in the cluster; it marks the passes it
\* races.
LEMMA OneStart ==
    ASSUME TypeOK, NEW p \in Pass, Start(p)
    PROVE  /\ exists' = exists /\ applied' = applied /\ closed' = closed
           /\ pc[p] \notin Running /\ pc'[p] = "roles" /\ todo'[p] = Role
           /\ reason'[p] = "none"
           /\ Contended(p) => raced'[p]
           /\ \A q \in Pass \ {p} :
                  /\ pc'[q] = pc[q] /\ item'[q] = item[q]
                  /\ todo'[q] = todo[q] /\ reason'[q] = reason[q]
                  /\ raced[q] \/ pc[q] \in Running => raced'[q]
BY DEF TypeOK, Start, Goto, Work, cluster, Running, Retried, Plain, Loops

\* A pass never spoils what holds of another one.
LEMMA OthersKeep ==
    ASSUME Inv, NEW p \in Pass, Start(p) \/ Step(p), NEW q \in Pass \ {p}
    PROVE  Good(q)'
<1>1. /\ exists \subseteq exists' /\ applied \subseteq applied'
      /\ closed => closed'
      /\ pc'[q] = pc[q] /\ item'[q] = item[q]
      /\ todo'[q] = todo[q] /\ reason'[q] = reason[q]
      /\ raced[q] => raced'[q]
    BY OneStep, OneStart DEF Inv
<1>2. Kind(q)' /\ Within(q)' /\ Blamed(q)'
    BY <1>1 DEF Inv, Good, Kind, Over, Within, Blamed
<1>3. Progress(q)'
    BY <1>1 DEF Inv, Good, Progress, Still, RoleDone, DatabaseDone
<1>4. Racing(q)'
    <2> USE DEF Racing
    <2>1. Racing(q)
        BY DEF Inv, Good
    <2>2. ASSUME Start(p) PROVE Racing(q)'
        BY <1>1, <2>1, <2>2, OneStart DEF Inv
    <2>3. ASSUME Step(p) PROVE Racing(q)'
        BY <1>1, <2>1, <2>3, OneStep DEF Inv, Running, Plain
    <2> QED BY <2>2, <2>3
<1> QED BY <1>2, <1>3, <1>4 DEF Good

-----------------------------------------------------------------------------
(* What a pass does to itself.                                             *)

\* A pass that starts has everything still to do.
LEMMA StartIsGood ==
    ASSUME Inv, NEW p \in Pass, Start(p)
    PROVE  Good(p)'
<1> QED BY OneStart DEF Inv, Good, Kind, Over, Progress, Within, Racing, Blamed,
       Still, Contended, RoleLoop, MemberLoop, DatabaseLoop, SchemaLoop,
       ExtensionLoop, GrantLoop, Halted, BeforeMembers, BeforeDatabase,
       BeforeSchemas, BeforeExtensions, BeforeGrants, Running, Loops

\* A pass ticks off an item only when it is in place, finds what its
\* statements need, and fails for a reason that is true.
LEMMA StepIsGood ==
    ASSUME Inv, NEW p \in Pass, Step(p)
    PROVE  /\ Kind(p)' /\ Within(p)' /\ Progress(p)' /\ Blamed(p)'
           /\ pc'[p] = "createDatabase" => Database \notin exists'
<1> USE DeclarationAssumption
    DEF DeclarationAssumption, Inv, TypeOK, Good, RoleLoop, MemberLoop,
        DatabaseLoop, SchemaLoop, ExtensionLoop, GrantLoop, Halted,
        BeforeMembers, BeforeDatabase, BeforeSchemas, BeforeExtensions,
        BeforeGrants, Running, Loops, Retried, Plain, Goto, Fail, FailOrSkip,
        cluster
<1>1. CASE TakeItem(p)
    <2>1. Kind(p)' /\ Within(p)'
        BY <1>1 DEF TakeItem, FirstStep, Kind, Over, Within
    <2>2. Progress(p)'
        BY <1>1 DEF TakeItem, FirstStep, Kind, Over, Within, Progress, Still,
           RoleDone, DatabaseDone
    <2>3. Blamed(p)' /\ (pc'[p] = "createDatabase" => Database \notin exists')
        BY <1>1 DEF TakeItem, FirstStep, Kind, Over, Blamed
    <2> QED BY <2>1, <2>2, <2>3
<1>2. CASE LeaveLoop(p)
    <2>1. /\ pc[p] \in Loops /\ todo[p] = {} /\ pc'[p] = After(pc[p])
          /\ todo'[p] = IF After(pc[p]) \in Loops THEN Work(After(pc[p])) ELSE {}
          /\ UNCHANGED <<cluster, reason, raced>>
        BY <1>2 DEF LeaveLoop
    <2>2. Within(p)' /\ Blamed(p)' /\ pc'[p] # "createDatabase"
        BY <1>2, <2>1 DEF LeaveLoop, After, Within, Blamed
    <2>3. CASE pc[p] = "roles"
        <3>1. pc'[p] = "members" /\ todo'[p] = Memberships
            BY <2>1, <2>3 DEF After, Work
        <3> QED BY <2>1, <2>2, <2>3, <3>1
                DEF Kind, Over, Progress, Still, RoleDone, DatabaseDone
    <2>4. CASE pc[p] = "members"
        <3>1. pc'[p] = "database" /\ todo'[p] = {Database}
            BY <2>1, <2>4 DEF After, Work
        <3> QED BY <2>1, <2>2, <2>4, <3>1
                DEF Kind, Over, Progress, Still, RoleDone, DatabaseDone
    <2>5. CASE pc[p] = "database"
        <3>1. pc'[p] = "schemas" /\ todo'[p] = Schema
            BY <2>1, <2>5 DEF After, Work
        <3> QED BY <2>1, <2>2, <2>5, <3>1
                DEF Kind, Over, Progress, Still, RoleDone, DatabaseDone
    <2>6. CASE pc[p] = "schemas"
        <3>1. pc'[p] = "extensions" /\ todo'[p] = Extension
            BY <2>1, <2>6 DEF After, Work
        <3> QED BY <2>1, <2>2, <2>6, <3>1
                DEF Kind, Over, Progress, Still, RoleDone, DatabaseDone
    <2>7. CASE pc[p] = "extensions"
        <3>1. pc'[p] = "grants" /\ todo'[p] = Grants
            BY <2>1, <2>7 DEF After, Work
        <3> QED BY <2>1, <2>2, <2>7, <3>1
                DEF Kind, Over, Progress, Still, RoleDone, DatabaseDone
    <2>8. CASE pc[p] = "grants"
        <3>1. pc'[p] = "ok" /\ todo'[p] = {}
            BY <2>1, <2>8 DEF After, Work
        <3> QED BY <2>1, <2>2, <2>8, <3>1
                DEF Kind, Over, Progress, Still, RoleDone, DatabaseDone
    <2> QED BY <2>1, <2>3, <2>4, <2>5, <2>6, <2>7, <2>8
<1>3. CASE CheckRole(p)
    <2>1. Kind(p)' /\ Within(p)'
        BY <1>3 DEF CheckRole, Kind, Over, Within
    <2>2. Progress(p)'
        BY <1>3 DEF CheckRole, Kind, Over, Within, Progress, Still, RoleDone,
           DatabaseDone
    <2>3. Blamed(p)' /\ (pc'[p] = "createDatabase" => Database \notin exists')
        BY <1>3 DEF CheckRole, Kind, Over, Blamed
    <2> QED BY <2>1, <2>2, <2>3
<1>4. CASE CheckDatabase(p)
    <2>1. Kind(p)' /\ Within(p)'
        BY <1>4 DEF CheckDatabase, AfterOwner, Kind, Over, Within
    <2>2. Progress(p)'
        BY <1>4 DEF CheckDatabase, AfterOwner, Kind, Over, Within, Progress,
           Still, RoleDone, DatabaseDone
    <2>3. Blamed(p)' /\ (pc'[p] = "createDatabase" => Database \notin exists')
        BY <1>4 DEF CheckDatabase, AfterOwner, Kind, Over, Blamed
    <2> QED BY <2>1, <2>2, <2>3
<1>5. CASE LoseRoleRace(p)
    <2>1. Kind(p)' /\ Within(p)'
        BY <1>5 DEF LoseRoleRace, Kind, Over, Within
    <2>2. Progress(p)'
        BY <1>5 DEF LoseRoleRace, Kind, Over, Within, Progress, Still,
           RoleDone, DatabaseDone
    <2>3. Blamed(p)' /\ (pc'[p] = "createDatabase" => Database \notin exists')
        BY <1>5 DEF LoseRoleRace, Kind, Over, Blamed
    <2> QED BY <2>1, <2>2, <2>3
<1>6. CASE Retry(p)
    <2>1. Kind(p)' /\ Within(p)'
        BY <1>6 DEF Retry, Contended, Racing, Kind, Over, Within
    <2>2. Progress(p)'
        BY <1>6 DEF Retry, Contended, Racing, Kind, Over, Within, Progress,
           Still, RoleDone, DatabaseDone
    <2>3. Blamed(p)' /\ (pc'[p] = "createDatabase" => Database \notin exists')
        BY <1>6 DEF Retry, Contended, Racing, Kind, Over, Blamed
    <2> QED BY <2>1, <2>2, <2>3
<1>7. CASE LoseToContention(p)
    <2>1. Kind(p)' /\ Within(p)'
        BY <1>7 DEF LoseToContention, Contended, Racing, Kind, Over, Within
    <2>2. Progress(p)'
        BY <1>7 DEF LoseToContention, Contended, Racing, Kind, Over, Within,
           Progress, Still, RoleDone, DatabaseDone
    <2>3. Blamed(p)' /\ (pc'[p] = "createDatabase" => Database \notin exists')
        BY <1>7 DEF LoseToContention, Contended, Racing, Kind, Over, Blamed
    <2> QED BY <2>1, <2>2, <2>3
<1>8. CASE FindFiles(p)
    <2>1. Kind(p)' /\ Within(p)'
        BY <1>8 DEF FindFiles, Kind, Over, Within
    <2>2. Progress(p)'
        BY <1>8 DEF FindFiles, Kind, Over, Within, Progress, Still, RoleDone,
           DatabaseDone
    <2>3. Blamed(p)' /\ (pc'[p] = "createDatabase" => Database \notin exists')
        BY <1>8 DEF FindFiles, Kind, Over, Blamed
    <2> QED BY <2>1, <2>2, <2>3
<1>9. CASE ExtractSome(p)
    <2>1. Kind(p)' /\ Within(p)'
        BY <1>9 DEF ExtractSome, Kind, Over, Within
    <2>2. Progress(p)'
        BY <1>9 DEF ExtractSome, Kind, Over, Within, Progress, Still, RoleDone,
           DatabaseDone
    <2>3. Blamed(p)' /\ (pc'[p] = "createDatabase" => Database \notin exists')
        BY <1>9 DEF ExtractSome, Kind, Over, Blamed
    <2> QED BY <2>1, <2>2, <2>3
<1>10. CASE ExtractAll(p)
    <2>1. Kind(p)' /\ Within(p)'
        BY <1>10 DEF ExtractAll, Kind, Over, Within
    <2>2. Progress(p)'
        BY <1>10 DEF ExtractAll, Kind, Over, Within, Progress, Still, RoleDone,
           DatabaseDone
    <2>3. Blamed(p)' /\ (pc'[p] = "createDatabase" => Database \notin exists')
        BY <1>10 DEF ExtractAll, Kind, Over, Blamed
    <2> QED BY <2>1, <2>2, <2>3
<1>11. CASE ExtractFails(p)
    <2>1. Kind(p)' /\ Within(p)'
        BY <1>11 DEF ExtractFails, Kind, Over, Within
    <2>2. Progress(p)'
        BY <1>11 DEF ExtractFails, Kind, Over, Within, Progress, Still,
           RoleDone, DatabaseDone
    <2>3. Blamed(p)' /\ (pc'[p] = "createDatabase" => Database \notin exists')
        BY <1>11 DEF ExtractFails, Kind, Over, Blamed
    <2> QED BY <2>1, <2>2, <2>3
<1>12. CASE LoseConnection(p)
    <2>1. Kind(p)' /\ Within(p)'
        BY <1>12 DEF LoseConnection, Takes, Kind, Over, Within
    <2>2. Progress(p)'
        BY <1>12 DEF LoseConnection, Takes, Kind, Over, Within, Progress,
           Still, RoleDone, DatabaseDone
    <2>3. Blamed(p)' /\ (pc'[p] = "createDatabase" => Database \notin exists')
        BY <1>12 DEF LoseConnection, Takes, Kind, Over, Blamed
    <2> QED BY <2>1, <2>2, <2>3
<1>13. CASE Execute(p)
    <2> USE DEF Takes, Creates, Settles, Then, AfterOwner, Options, Note,
                Member, Grant, Owned
    <2>1. /\ pc[p] \in Retried \cup (Plain \ {"checkRole", "checkDatabase"})
          /\ Needs(pc[p], item[p]) \subseteq exists
          /\ exists' = exists \cup Creates(pc[p], item[p])
          /\ applied' = applied \cup Settles(pc[p], item[p])
          /\ pc' = [pc EXCEPT ![p] = Then(pc[p], item[p])]
          /\ UNCHANGED <<item, todo, reason>>
        BY <1>13 DEF Execute, Executable
    <2>k. Kind(p) /\ Within(p) /\ Progress(p) /\ Blamed(p)
        OBVIOUS
    <2>2. CASE pc[p] \in {"createRole", "alterRole"}
        <3>1. /\ item[p] \in exists' /\ Options(item[p]) \in applied'
              /\ pc'[p] \in {"noteRole", "roles"}
            <4>1. item[p] \in exists' /\ Options(item[p]) \in applied'
                BY <2>1, <2>k, <2>2 DEF Within
            <4>2. pc'[p] \in {"noteRole", "roles"}
                BY <2>1, <2>2
            <4> QED BY <4>1, <4>2
        <3>2. Kind(p)'
            BY <2>1, <2>k, <2>2, <3>1 DEF Kind, Over
        <3>3. Within(p)'
            BY <2>1, <3>1 DEF Within
        <3>4. Progress(p)'
            <4>1. /\ exists \subseteq exists' /\ applied \subseteq applied'
                  /\ pc'[p] = IF item[p] \in Noted THEN "noteRole" ELSE "roles"
                  /\ item' = item /\ todo' = todo
                BY <2>1, <2>2
            <4> HIDE DEF Takes, Creates, Settles, Then
            <4> QED BY <2>k, <2>2, <3>1, <4>1
                    DEF Progress, Still, RoleDone, DatabaseDone
        <3> QED BY <2>1, <2>k, <2>2, <3>1, <3>2, <3>3, <3>4 DEF Blamed
    <2>3. CASE pc[p] \in {"noteRole"}
        <3>1. Kind(p)' /\ Within(p)'
            BY <2>1, <2>k, <2>3 DEF Kind, Over, Within, Needs
        <3>2. Progress(p)'
            BY <2>1, <2>k, <2>3 DEF Kind, Over, Within, Needs, Progress, Still,
               RoleDone, DatabaseDone
        <3> QED BY <2>1, <2>k, <2>3, <3>1, <3>2 DEF Blamed
    <2>4. CASE pc[p] \in {"grantMember"}
        <3>1. Kind(p)' /\ Within(p)'
            BY <2>1, <2>k, <2>4 DEF Kind, Over, Within, Needs
        <3>2. Progress(p)'
            BY <2>1, <2>k, <2>4 DEF Kind, Over, Within, Needs, Progress, Still,
               RoleDone, DatabaseDone
        <3> QED BY <2>1, <2>k, <2>4, <3>1, <3>2 DEF Blamed
    <2>5. CASE pc[p] \in {"createDatabase", "alterOwner"}
        <3>1. Kind(p)' /\ Within(p)'
            BY <2>1, <2>k, <2>5 DEF Kind, Over, Within, Needs
        <3>2. Progress(p)'
            BY <2>1, <2>k, <2>5 DEF Kind, Over, Within, Needs, Progress, Still,
               RoleDone, DatabaseDone
        <3> QED BY <2>1, <2>k, <2>5, <3>1, <3>2 DEF Blamed
    <2>6. CASE pc[p] \in {"alterOptions"}
        <3>1. Kind(p)' /\ Within(p)'
            BY <2>1, <2>k, <2>6 DEF Kind, Over, Within, Needs
        <3>2. Progress(p)'
            BY <2>1, <2>k, <2>6 DEF Kind, Over, Within, Needs, Progress, Still,
               RoleDone, DatabaseDone
        <3> QED BY <2>1, <2>k, <2>6, <3>1, <3>2 DEF Blamed
    <2>7. CASE pc[p] \in {"noteDatabase"}
        <3>1. Kind(p)' /\ Within(p)'
            BY <2>1, <2>k, <2>7 DEF Kind, Over, Within, Needs
        <3>2. Progress(p)'
            BY <2>1, <2>k, <2>7 DEF Kind, Over, Within, Needs, Progress, Still,
               RoleDone, DatabaseDone
        <3> QED BY <2>1, <2>k, <2>7, <3>1, <3>2 DEF Blamed
    <2>8. CASE pc[p] \in {"createSchema"}
        <3>1. Kind(p)' /\ Within(p)'
            BY <2>1, <2>k, <2>8 DEF Kind, Over, Within, Needs
        <3>2. Progress(p)'
            BY <2>1, <2>k, <2>8 DEF Kind, Over, Within, Needs, Progress, Still,
               RoleDone, DatabaseDone
        <3> QED BY <2>1, <2>k, <2>8, <3>1, <3>2 DEF Blamed
    <2>9. CASE pc[p] \in {"createExtension"}
        <3>1. Kind(p)' /\ Within(p)'
            BY <2>1, <2>k, <2>9 DEF Kind, Over, Within, Needs
        <3>2. Progress(p)'
            BY <2>1, <2>k, <2>9 DEF Kind, Over, Within, Needs, Progress, Still,
               RoleDone, DatabaseDone
        <3> QED BY <2>1, <2>k, <2>9, <3>1, <3>2 DEF Blamed
    <2>10. CASE pc[p] \in {"grant"}
        <3>1. Kind(p)' /\ Within(p)'
            BY <2>1, <2>k, <2>10 DEF Kind, Over, Within, Needs
        <3>2. Progress(p)'
            BY <2>1, <2>k, <2>10 DEF Kind, Over, Within, Needs, Progress, Still,
               RoleDone, DatabaseDone
        <3> QED BY <2>1, <2>k, <2>10, <3>1, <3>2 DEF Blamed
    <2> QED BY <2>1, <2>2, <2>3, <2>4, <2>5, <2>6, <2>7, <2>8, <2>9, <2>10
<1>14. CASE Refuse(p)
    <2>1. PICK why \in Refusals(pc[p], item[p]) : FailOrSkip(p, why)
        BY <1>14 DEF Refuse
    <2>2. /\ pc[p] \in Retried \cup Plain
          /\ UNCHANGED <<exists, applied, closed, item, todo, raced>>
        BY <1>14 DEF Refuse
    <2>3. Needs(pc[p], item[p]) \subseteq exists
        BY <2>2 DEF Needs, Kind, Over, Within, Progress, Still, RoleDone,
           DatabaseDone
    <2>4. /\ why # "missing" /\ why # "none"
          /\ why = "exists" => item[p] = Database /\ raced[p]
          /\ why = "closed" => closed
          /\ why = "damaged" => pc[p] = "createExtension"
          /\ why \in {"exists", "closed", "damaged"}
        BY <2>1, <2>2, <2>3 DEF Refusals, FilesMissing, AlreadyExists,
           OverDatabase, OnDatabase, Racing, Kind, Over
    <2>5. Kind(p)' /\ Within(p)'
        BY <2>1, <2>2 DEF Kind, Over, Within
    <2>6. Progress(p)'
        BY <2>1, <2>2 DEF Kind, Over, Progress, Still, RoleDone, DatabaseDone
    <2>7. Blamed(p)' /\ pc'[p] # "createDatabase"
        BY <2>1, <2>2, <2>4 DEF Blamed
    <2> QED BY <2>5, <2>6, <2>7
<1> QED BY <1>1, <1>2, <1>3, <1>4, <1>5, <1>6, <1>7, <1>8, <1>9, <1>10, <1>11, <1>12, <1>13, <1>14 DEF Step

\* Every step keeps the invariant, for the pass that takes it and for the
\* others.
LEMMA InvStep == Inv /\ [Next]_vars => Inv'
<1> SUFFICES ASSUME Inv, [Next]_vars PROVE Inv'
    OBVIOUS
<1>1. TypeOK'
    BY TypesStep
<1>2. ASSUME NEW p \in Pass, Start(p) PROVE Inv'
    BY <1>1, <1>2, StartIsGood, OthersKeep DEF Inv
<1>3. ASSUME NEW p \in Pass, Step(p) PROVE Inv'
    <2>1. Racing(p)'
        BY <1>3, StepIsGood, OneStep DEF Inv, Good, Racing
    <2>2. Good(p)'
        BY <1>3, <2>1, StepIsGood DEF Good
    <2> QED BY <1>1, <1>3, <2>2, OthersKeep DEF Inv
<1>4. ASSUME UNCHANGED vars PROVE Inv'
    BY <1>1, <1>4 DEF vars, Inv, Good, Kind, Over, Progress, Within, Racing,
       Blamed, Still, RoleDone, DatabaseDone
<1> QED BY <1>2, <1>3, <1>4 DEF Next

\* The invariant holds in every reachable state.
LEMMA Invariance == Spec => []Inv
BY InvInit, InvStep, PTL DEF Spec

\* PgConverge is type correct; execRetry's counter stays below its bound.
THEOREM TypeCorrect == Spec => []TypeOK
<1>1. Inv => TypeOK BY DEF Inv
<1> QED BY <1>1, Invariance, PTL

\* When Converge returns no error, every declared object exists and every
\* declared setting was applied, whatever other passes did meanwhile.
THEOREM SuccessIsDeclared == Spec => []SuccessMeansDeclared
<1>1. Inv => SuccessMeansDeclared
    <2> SUFFICES ASSUME Inv, NEW p \in Pass, pc[p] = "ok"
                 PROVE  /\ DeclaredObjects \subseteq exists
                        /\ DeclaredSettings \subseteq applied
        BY DEF SuccessMeansDeclared
    <2>1. /\ \A r \in Role : RoleDone(r)
          /\ \A m \in Memberships : Member(m) \in applied
          /\ DatabaseDone
          /\ Schema \cup (Extension \ Optional) \subseteq exists
          /\ \A g \in Grants : Grant(g) \in applied
        BY DEF Inv, Good, Progress, Still, RoleLoop, MemberLoop, DatabaseLoop,
           SchemaLoop, ExtensionLoop, GrantLoop, Halted, BeforeMembers,
           BeforeDatabase, BeforeSchemas, BeforeExtensions, BeforeGrants
    <2>2. DeclaredObjects \subseteq exists
        BY <2>1 DEF DeclaredObjects, RoleDone, DatabaseDone
    <2>3. /\ [of : {"options"}, on : Role] \subseteq applied
          /\ [of : {"note"}, on : Noted] \subseteq applied
        <3>1. /\ \A r \in Role : [of |-> "options", on |-> r] \in applied
              /\ \A o \in Noted : [of |-> "note", on |-> o] \in applied
            BY <2>1, DeclarationAssumption
               DEF DeclarationAssumption, RoleDone, DatabaseDone, Options, Note
        <3> QED BY <3>1
    <2>4. /\ [of : {"member"}, on : Memberships] \subseteq applied
          /\ [of : {"grant"}, on : Grants] \subseteq applied
        BY <2>1 DEF Member, Grant
    <2>5. {[of |-> "owner", on |-> Database] : o \in Owner} \subseteq applied
        BY <2>1 DEF DatabaseDone, Owned
    <2>6. HasOptions => [of |-> "options", on |-> Database] \in applied
        BY <2>1 DEF DatabaseDone, Options
    <2>7. DeclaredSettings \subseteq applied
        BY <2>3, <2>4, <2>5, <2>6 DEF DeclaredSettings
    <2> QED BY <2>2, <2>7
<1> QED BY <1>1, Invariance, PTL

\* No statement of Converge names an object that it has not made sure of, and
\* the loser of CREATE ROLE goes on; only the race for the database is lost.
THEOREM OrderIsFree == Spec => []OrderDoesNotMatter
<1>1. Inv => OrderDoesNotMatter
    BY DEF Inv, Good, Blamed, OrderDoesNotMatter
<1> QED BY <1>1, Invariance, PTL

\* A pass that nobody races fails only for the connection, a closed database
\* or the files of an extension.
THEOREM AloneItSucceeds == Spec => []SoloPassSucceeds
<1>1. Inv => SoloPassSucceeds
    BY DEF Inv, TypeOK, Reason, Good, Blamed, SoloPassSucceeds
<1> QED BY <1>1, Invariance, PTL
=============================================================================
