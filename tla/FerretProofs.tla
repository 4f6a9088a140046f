---------------------------- MODULE FerretProofs ----------------------------
(***************************************************************************)
(* The properties of FerretConverge, for any sets of passes, users,        *)
(* collections and documents, and any number of runs.                      *)
(***************************************************************************)
EXTENDS FerretConverge, TLAPS

UserPhase == {"users", "create", "update"}
ItemPhase == {"ensure", "index", "count", "insert"}
CollectionPhase == {"collections"} \cup ItemPhase

\* What a pass has left to do is of the kind its loop is about.
Phases ==
    \A p \in Pass :
        /\ pc[p] \in UserPhase =>
               left[p] \subseteq User /\ (left[p] # {} => auth)
        /\ pc[p] \in CollectionPhase => left[p] \subseteq Collection
        /\ pc[p] \in ItemPhase => item[p] \notin left[p]

Types == TypeOK /\ Phases

\* A fresh instance is well typed.
LEMMA TypesInit == Init => Types
<1> SUFFICES ASSUME Init PROVE Types
    OBVIOUS
<1>1. users \in [User -> {"absent", "stale", "current"}]
    BY DEF Init
<1>2. /\ copies \in [Collection -> [Doc -> Nat]]
      /\ runs \in [Pass -> 0 .. MaxRuns]
    BY FerretAssumption DEF FerretAssumption, Init
<1> QED
    BY <1>1, <1>2 DEF Init, Types, TypeOK, Phases, UserPhase, ItemPhase,
       CollectionPhase, Running

\* Every command of a pass, and every insert of a client, keeps the types.
LEMMA TypesStep == Types /\ [Next]_vars => Types'
<1> SUFFICES ASSUME Types, [Next]_vars PROVE Types'
    OBVIOUS
<1> USE DEF Types, TypeOK, Phases, UserPhase, ItemPhase, CollectionPhase,
            Running, store, rest, Goto, Fail
<1>1. ASSUME NEW p \in Pass, Start(p) PROVE Types'
    BY FerretAssumption, <1>1 DEF Start, FerretAssumption
<1>2. ASSUME NEW p \in Pass, TakeUser(p) PROVE Types'
    BY <1>2 DEF TakeUser, Take
<1>3. ASSUME NEW p \in Pass, TakeCollection(p) PROVE Types'
    BY <1>3 DEF TakeCollection, Take
<1>4. ASSUME NEW p \in Pass, EndUsers(p) PROVE Types'
    BY <1>4 DEF EndUsers
<1>14. ASSUME NEW p \in Pass, EndCollections(p) PROVE Types'
    BY <1>14 DEF EndCollections
<1>5. ASSUME NEW p \in Pass, CreateUser(p) \/ UpdateUser(p) PROVE Types'
    BY <1>5 DEF CreateUser, UpdateUser
<1>6. ASSUME NEW p \in Pass, EnsureCollection(p) PROVE Types'
    BY <1>6 DEF EnsureCollection
<1>7. ASSUME NEW p \in Pass, EnsureIndex(p) PROVE Types'
    BY <1>7 DEF EnsureIndex, AfterIndex
<1>8. ASSUME NEW p \in Pass, CountDocuments(p) PROVE Types'
    BY <1>8 DEF CountDocuments
<1>9. ASSUME NEW p \in Pass, Insert(p) PROVE Types'
    BY FerretAssumption, <1>9 DEF Insert, FerretAssumption
<1>10. ASSUME NEW p \in Pass, InsertClashes(p) \/ InsertEnds(p) PROVE Types'
    BY <1>10 DEF InsertClashes, InsertEnds
<1>11. ASSUME NEW p \in Pass, LoseConnection(p) PROVE Types'
    BY <1>11 DEF LoseConnection
<1>12. ASSUME NEW c \in Collection, ClientInserts(c) PROVE Types'
    BY <1>12 DEF ClientInserts
<1>13. ASSUME UNCHANGED vars PROVE Types'
    BY <1>13 DEF vars
<1> QED BY <1>1, <1>2, <1>3, <1>4, <1>5, <1>6, <1>7, <1>8, <1>9, <1>10,
           <1>11, <1>12, <1>13, <1>14 DEF Next, Step

\* FerretConverge is type correct: Converge counts and seeds only what has a
\* seed file, and touches users only with auth on.
THEOREM TypeCorrect == Spec => []TypeOK
<1>1. Types => TypeOK BY DEF Types
<1> QED BY <1>1, TypesInit, TypesStep, PTL DEF Spec

-----------------------------------------------------------------------------
(* Duplicates.  A clash on a unique index needs an overlap: without one, no *)
(* document that a pass has still to insert is there.                      *)

Alone ==
    ~overlap => \A p, q \in Pass : pc[p] \in Running /\ pc[q] \in Running => p = q

IndexFirst ==
    \A p \in Pass :
        pc[p] \in {"count", "insert"} /\ item[p] \in Unique => item[p] \in indexes

Fresh ==
    ~overlap => \A p \in Pass : pc[p] = "insert" =>
        \A d \in pending[p] : copies[item[p]][d] = 0

Copies == Types /\ Alone /\ IndexFirst /\ Fresh /\ NeverDuplicates
              /\ OnlyRacesAndLossesFail

\* Before the first pass there is nothing to duplicate.
LEMMA CopiesInit == Init => Copies
<1> SUFFICES ASSUME Init PROVE Copies
    OBVIOUS
<1>1. NeverDuplicates
    BY FerretAssumption DEF FerretAssumption, Init, NeverDuplicates
<1> QED
    BY <1>1, TypesInit DEF Init, Copies, Alone, IndexFirst, Fresh, Running,
       OnlyRacesAndLossesFail

\* No step of a pass or of a client inserts a document a second time, unless
\* two passes overlap on a collection without a unique index.
LEMMA CopiesStep == Copies /\ [Next]_vars => Copies'
<1> SUFFICES ASSUME Copies, [Next]_vars PROVE Copies'
    OBVIOUS
<1>0. Types'
    BY TypesStep DEF Copies
<1> USE <1>0, FerretAssumption
    DEF FerretAssumption, Copies, Types, TypeOK, Alone, IndexFirst, Fresh,
        NeverDuplicates, OnlyRacesAndLossesFail, Running, store, rest, Goto, Fail
<1>1. ASSUME NEW p \in Pass, Start(p) PROVE Copies'
    <2>1. Alone'
        <3>1. /\ pc' = [pc EXCEPT ![p] = "users"]
              /\ overlap' = (overlap \/ \E q \in Pass \ {p} : pc[q] \in Running)
            BY <1>1 DEF Start
        <3>2. ASSUME ~overlap', NEW q \in Pass, pc'[q] \in Running PROVE q = p
            BY <3>1, <3>2
        <3> QED BY <3>2
    <2>2. IndexFirst'
        BY <1>1 DEF Start
    <2>3. Fresh'
        BY <1>1 DEF Start
    <2>4. NeverDuplicates'
        BY <1>1 DEF Start
    <2>5. OnlyRacesAndLossesFail'
        BY <1>1 DEF Start
    <2> QED BY <2>1, <2>2, <2>3, <2>4, <2>5
<1>2. ASSUME NEW p \in Pass, TakeUser(p) PROVE Copies'
    BY <1>2 DEF TakeUser, Take
<1>3. ASSUME NEW p \in Pass, TakeCollection(p) PROVE Copies'
    BY <1>3 DEF TakeCollection, Take
<1>4. ASSUME NEW p \in Pass, EndUsers(p) PROVE Copies'
    BY <1>4 DEF EndUsers
<1>5. ASSUME NEW p \in Pass, EndCollections(p) PROVE Copies'
    BY <1>5 DEF EndCollections
<1>6. ASSUME NEW p \in Pass, CreateUser(p) \/ UpdateUser(p) PROVE Copies'
    <2>1. /\ pc[p] \in {"create", "update"} /\ pc'[p] \in {"users", "update"}
          /\ \A q \in Pass \ {p} : pc'[q] = pc[q]
          /\ UNCHANGED <<indexes, copies, item, pending, reason, overlap>>
        BY <1>6 DEF CreateUser, UpdateUser
    <2>2. Alone' /\ IndexFirst' /\ Fresh'
        BY <2>1
    <2>3. NeverDuplicates' /\ OnlyRacesAndLossesFail'
        BY <2>1
    <2> QED BY <2>2, <2>3
<1>7. ASSUME NEW p \in Pass, EnsureCollection(p) PROVE Copies'
    BY <1>7 DEF EnsureCollection
<1>8. ASSUME NEW p \in Pass, EnsureIndex(p) PROVE Copies'
    <2>1. Alone'
        BY <1>8 DEF EnsureIndex, AfterIndex
    <2>2. IndexFirst'
        BY <1>8 DEF EnsureIndex, AfterIndex
    <2>3. Fresh'
        BY <1>8 DEF EnsureIndex, AfterIndex
    <2>4. NeverDuplicates'
        BY <1>8 DEF EnsureIndex, AfterIndex
    <2>5. OnlyRacesAndLossesFail'
        BY <1>8 DEF EnsureIndex, AfterIndex
    <2> QED BY <2>1, <2>2, <2>3, <2>4, <2>5
<1>9. ASSUME NEW p \in Pass, CountDocuments(p) PROVE Copies'
    <2>1. Alone'
        BY <1>9 DEF CountDocuments, Empty
    <2>2. IndexFirst'
        BY <1>9 DEF CountDocuments, Empty
    <2>3. Fresh'
        BY <1>9 DEF CountDocuments, Empty
    <2>4. NeverDuplicates'
        BY <1>9 DEF CountDocuments, Empty
    <2>5. OnlyRacesAndLossesFail'
        BY <1>9 DEF CountDocuments, Empty
    <2> QED BY <2>1, <2>2, <2>3, <2>4, <2>5
<1>10. ASSUME NEW p \in Pass, Insert(p) PROVE Copies'
    BY <1>10 DEF Insert
<1>11. ASSUME NEW p \in Pass, InsertClashes(p) PROVE Copies'
    BY <1>11 DEF InsertClashes
<1>12. ASSUME NEW p \in Pass, InsertEnds(p) PROVE Copies'
    BY <1>12 DEF InsertEnds
<1>13. ASSUME NEW p \in Pass, LoseConnection(p) PROVE Copies'
    BY <1>13 DEF LoseConnection
<1>14. ASSUME NEW c \in Collection, ClientInserts(c) PROVE Copies'
    BY <1>14 DEF ClientInserts
<1>15. ASSUME UNCHANGED vars PROVE Copies'
    BY <1>15 DEF vars
<1> QED BY <1>1, <1>2, <1>3, <1>4, <1>5, <1>6, <1>7, <1>8, <1>9, <1>10,
           <1>11, <1>12, <1>13, <1>14, <1>15 DEF Next, Step

\* However often Converge is run again, seedCollection never inserts a
\* document twice without an overlap, nor ever where ensureIndex has built a
\* unique index.
THEOREM SeedsAreNeverDuplicated == Spec => []NeverDuplicates
<1>1. Copies => NeverDuplicates BY DEF Copies
<1> QED BY <1>1, CopiesInit, CopiesStep, PTL DEF Spec

\* Converge fails only for a lost connection, or for a clash of seeds with a
\* pass that overlaps it.
THEOREM OnlyRacesFail == Spec => []OnlyRacesAndLossesFail
<1>1. Copies => OnlyRacesAndLossesFail BY DEF Copies
<1> QED BY <1>1, CopiesInit, CopiesStep, PTL DEF Spec

-----------------------------------------------------------------------------
(* Success.  What a pass has put in place stays there, so at any moment an *)
(* object is either done or still to come.                                 *)

Done(c) ==
    /\ c \in colls
    /\ c \in Unique => c \in indexes
    /\ c \in Seeded => ~Empty(c)

UsersDone ==
    auth => \A p \in Pass, u \in User :
        \/ users[u] = "current"
        \/ pc[p] \in {"idle", "failed"}
        \/ pc[p] \in UserPhase /\ u \in left[p]
        \/ pc[p] \in {"create", "update"} /\ u = item[p]

CollsDone ==
    \A p \in Pass, c \in Collection :
        \/ Done(c)
        \/ pc[p] \in {"idle", "failed"} \cup UserPhase
        \/ pc[p] \in CollectionPhase /\ c \in left[p]
        \/ pc[p] \in ItemPhase /\ c = item[p]

ItemDone ==
    \A p \in Pass :
        /\ pc[p] \in {"index", "count", "insert"} => item[p] \in colls
        /\ pc[p] = "insert" => pending[p] = Doc \/ ~Empty(item[p])

Declared == Copies /\ UsersDone /\ CollsDone /\ ItemDone

\* A fresh instance: no pass has anything behind it.
LEMMA DeclaredInit == Init => Declared
BY CopiesInit DEF Init, Declared, UsersDone, CollsDone, ItemDone

\* What is in place stays: no step drops a collection or an index, or empties
\* a collection that holds a document.
LEMMA DoneStays ==
    ASSUME Types, [Next]_vars, NEW c \in Collection
    PROVE  /\ Done(c) => Done(c)'
           /\ ~Empty(c) => ~Empty(c)'
           /\ colls \subseteq colls'
<1> USE FerretAssumption
    DEF FerretAssumption, Types, TypeOK, Done, Empty, store, rest
<1>1. ASSUME NEW p \in Pass, Insert(p) PROVE ~Empty(c) => ~Empty(c)'
    <2>1. PICK d \in pending[p] :
              copies' = [copies EXCEPT ![item[p]][d] = @ + 1]
        BY <1>1 DEF Insert
    <2>2. ASSUME NEW e \in Doc, copies[c][e] # 0 PROVE copies'[c][e] # 0
        BY <2>1, <2>2
    <2>3. foreign' = foreign
        BY <1>1 DEF Insert
    <2> QED BY <2>2, <2>3
<1>2. ASSUME NEW p \in Pass, Insert(p)
      PROVE  colls' = colls /\ indexes' = indexes
    BY <1>2 DEF Insert
<1>3. ASSUME NEW p \in Pass, Start(p) \/ Step(p), ~Insert(p)
      PROVE  /\ copies' = copies /\ foreign' = foreign
             /\ colls \subseteq colls' /\ indexes \subseteq indexes'
    BY <1>3 DEF Step, Start, TakeUser, TakeCollection, Take, EndUsers,
       EndCollections, CreateUser, UpdateUser, EnsureCollection, EnsureIndex,
       CountDocuments, InsertClashes, InsertEnds, LoseConnection
<1>4. ASSUME NEW x \in Collection, ClientInserts(x)
      PROVE  /\ copies' = copies /\ foreign \subseteq foreign'
             /\ colls' = colls /\ indexes' = indexes
    BY <1>4 DEF ClientInserts
<1>5. ASSUME UNCHANGED vars
      PROVE  /\ copies' = copies /\ foreign' = foreign
             /\ colls' = colls /\ indexes' = indexes
    BY <1>5 DEF vars
<1> QED BY <1>1, <1>2, <1>3, <1>4, <1>5 DEF Next

\* A step takes an object out of what a pass has to do only when the object is
\* in place.
LEMMA DeclaredStep == Declared /\ [Next]_vars => Declared'
<1> SUFFICES ASSUME Declared, [Next]_vars PROVE Declared'
    OBVIOUS
<1>0. Copies' /\ Types'
    BY CopiesStep DEF Declared, Copies
<1>d. \A c \in Collection : /\ Done(c) => Done(c)'
                            /\ ~Empty(c) => ~Empty(c)'
                            /\ colls \subseteq colls'
    BY DoneStays DEF Declared, Copies
<1> USE <1>0, <1>d, FerretAssumption
    DEF FerretAssumption, Declared, Copies, Types, TypeOK, IndexFirst,
        UsersDone, CollsDone, ItemDone, UserPhase, ItemPhase, CollectionPhase,
        Running, store, rest, Goto, Fail
<1>1. ASSUME NEW p \in Pass, Start(p) PROVE Declared'
    BY <1>1 DEF Start
<1>2. ASSUME NEW p \in Pass, TakeUser(p) PROVE Declared'
    BY <1>2 DEF TakeUser, Take
<1>3. ASSUME NEW p \in Pass, TakeCollection(p) PROVE Declared'
    BY <1>3 DEF TakeCollection, Take
<1>4. ASSUME NEW p \in Pass, EndUsers(p) PROVE Declared'
    BY <1>4 DEF EndUsers
<1>5. ASSUME NEW p \in Pass, EndCollections(p) PROVE Declared'
    BY <1>5 DEF EndCollections
<1>6. ASSUME NEW p \in Pass, CreateUser(p) \/ UpdateUser(p) PROVE Declared'
    <2>1. /\ \A u \in User : users[u] = "current" => users'[u] = "current"
          /\ \A q \in Pass \ {p} : pc'[q] = pc[q]
          /\ UNCHANGED <<auth, left, item, pending>>
          /\ \/ pc'[p] = "users" /\ users'[item[p]] = "current"
             \/ pc[p] = "create" /\ pc'[p] = "update"
          /\ pc[p] \in {"create", "update"}
        BY <1>6 DEF CreateUser, UpdateUser
    <2>2. UsersDone'
        BY <2>1
    <2>3. CollsDone' /\ ItemDone'
        BY <2>1
    <2> QED BY <2>2, <2>3
<1>7. ASSUME NEW p \in Pass, EnsureCollection(p) PROVE Declared'
    BY <1>7 DEF EnsureCollection
<1>8. ASSUME NEW p \in Pass, EnsureIndex(p) PROVE Declared'
    <2>1. UsersDone'
        BY <1>8 DEF EnsureIndex, AfterIndex
    <2>2. CollsDone'
        BY <1>8 DEF EnsureIndex, AfterIndex, Done
    <2>3. ItemDone'
        BY <1>8 DEF EnsureIndex, AfterIndex
    <2> QED BY <2>1, <2>2, <2>3
<1>9. ASSUME NEW p \in Pass, CountDocuments(p) PROVE Declared'
    BY <1>9 DEF CountDocuments, Done
<1>10. ASSUME NEW p \in Pass, Insert(p) PROVE Declared'
    BY <1>10 DEF Insert, Empty
<1>11. ASSUME NEW p \in Pass, InsertClashes(p) \/ LoseConnection(p)
       PROVE  Declared'
    BY <1>11 DEF InsertClashes, LoseConnection
<1>12. ASSUME NEW p \in Pass, InsertEnds(p) PROVE Declared'
    BY <1>12 DEF InsertEnds, Done
<1>13. ASSUME NEW c \in Collection, ClientInserts(c) PROVE Declared'
    BY <1>13 DEF ClientInserts
<1>14. ASSUME UNCHANGED vars PROVE Declared'
    BY <1>14 DEF vars
<1> QED BY <1>1, <1>2, <1>3, <1>4, <1>5, <1>6, <1>7, <1>8, <1>9, <1>10,
           <1>11, <1>12, <1>13, <1>14 DEF Next, Step

\* When Converge returns no error, every declared user, collection, unique
\* index and seed is there.
THEOREM SuccessIsDeclared == Spec => []SuccessMeansDeclared
<1>1. Declared => SuccessMeansDeclared
    <2> SUFFICES ASSUME Declared, NEW p \in Pass, pc[p] = "ok"
                 PROVE  /\ \A c \in Collection : Done(c)
                        /\ auth => \A u \in User : users[u] = "current"
        BY FerretAssumption DEF FerretAssumption, Done, SuccessMeansDeclared
    <2> QED
        BY DEF Declared, UsersDone, CollsDone, UserPhase, ItemPhase,
           CollectionPhase
<1> QED BY <1>1, DeclaredInit, DeclaredStep, PTL DEF Spec

-----------------------------------------------------------------------------
(* The first pass.  While no other pass has been started, nobody else      *)
(* touches the seed documents: a collection this pass has still to count   *)
(* holds none, and one it has counted was a client's or gets all of them.  *)

First(p) == \A q \in Pass : runs[q] = IF q = p THEN 1 ELSE 0

NotStarted == \A p \in Pass : runs[p] = 0 => pc[p] = "idle"

Untouched ==
    (\A p \in Pass : runs[p] = 0)
        => \A c \in Collection, d \in Doc : copies[c][d] = 0

ToDo(p, c) ==
    \/ pc[p] \in UserPhase
    \/ pc[p] \in CollectionPhase /\ c \in left[p]
    \/ pc[p] \in {"ensure", "index", "count"} /\ c = item[p]

Inserting(p, c) == pc[p] = "insert" /\ c = item[p]

SeedsSoFar(p, c) ==
    /\ ToDo(p, c) => \A d \in Doc : copies[c][d] = 0
    /\ Inserting(p, c) =>
           \A d \in Doc : copies[c][d] = IF d \in pending[p] THEN 0 ELSE 1
    /\ ~ToDo(p, c) /\ ~Inserting(p, c) =>
           c \in foreign \/ \A d \in Doc : copies[c][d] = 1

FirstSeeds ==
    \A p \in Pass : First(p) /\ pc[p] # "failed" =>
        \A c \in Seeded : SeedsSoFar(p, c)

FirstPass == Types /\ NotStarted /\ Untouched /\ FirstSeeds

\* Before the first pass nothing is seeded.
LEMMA FirstPassInit == Init => FirstPass
BY TypesInit, FerretAssumption
   DEF FerretAssumption, Init, FirstPass, NotStarted, Untouched, FirstSeeds,
       First

\* While one pass only has been started, it alone inserts seed documents, one
\* at a time and each once.
LEMMA FirstPassStep == FirstPass /\ [Next]_vars => FirstPass'
<1> SUFFICES ASSUME FirstPass, [Next]_vars PROVE FirstPass'
    OBVIOUS
<1>0. Types'
    BY TypesStep DEF FirstPass
<1> USE FerretAssumption
    DEF FerretAssumption, FirstPass, Types, TypeOK, NotStarted, Untouched,
        Running, store, rest, Goto, Fail
<1>1. ASSUME NEW p \in Pass, Start(p) PROVE FirstPass'
    <2>1. /\ runs' = [runs EXCEPT ![p] = @ + 1] /\ copies' = copies
          /\ pc' = [pc EXCEPT ![p] = "users"]
        BY <1>1 DEF Start
    <2>2. NotStarted' /\ Untouched'
        BY <2>1
    <2>3. ASSUME NEW q \in Pass, First(q)', NEW c \in Seeded
          PROVE  SeedsSoFar(q, c)'
        <3>1. q = p /\ \A r \in Pass : runs[r] = 0
            <4>1. /\ runs'[p] = runs[p] + 1 /\ runs[p] \in Nat
                  /\ \A r \in Pass \ {p} : runs'[r] = runs[r]
                BY <2>1
            <4> HIDE DEF FirstPass, Types, TypeOK, NotStarted, Untouched
            <4>2. runs'[p] # 0
                BY <4>1
            <4>3. \A r \in Pass : runs'[r] = IF r = q THEN 1 ELSE 0
                BY <2>3 DEF First
            <4>4. q = p /\ runs'[p] = 1
                BY <4>2, <4>3
            <4> QED BY <4>1, <4>3, <4>4
        <3> QED BY <2>1, <3>1 DEF SeedsSoFar, ToDo, Inserting, UserPhase
    <2> QED BY <1>0, <2>2, <2>3 DEF FirstSeeds
<1>2. ASSUME NEW p \in Pass, Step(p) PROVE FirstPass'
    <2>1. /\ runs' = runs /\ pc[p] \in Running
          /\ \A q \in Pass \ {p} : pc'[q] = pc[q]
        BY <1>2 DEF Step, TakeUser, TakeCollection, Take, EndUsers,
           EndCollections, CreateUser, UpdateUser, EnsureCollection,
           EnsureIndex, CountDocuments, Insert, InsertClashes, InsertEnds,
           LoseConnection
    <2>2. runs[p] # 0
        BY <2>1
    <2>3. NotStarted' /\ Untouched'
        BY <2>1, <2>2
    <2>4. ASSUME NEW q \in Pass, First(q)', pc'[q] # "failed",
                 NEW c \in Seeded
          PROVE  SeedsSoFar(q, c)'
        <3>1. q = p /\ First(p)
            BY <2>1, <2>2, <2>4 DEF First
        <3>2. pc'[p] # "failed" /\ SeedsSoFar(p, c)
            BY <2>1, <2>4, <3>1 DEF FirstSeeds
        <3> USE DEF SeedsSoFar, ToDo, Inserting, Phases, UserPhase, ItemPhase,
                    CollectionPhase
        <3>3. CASE TakeUser(p) \/ TakeCollection(p)
            BY <3>1, <3>2, <3>3 DEF TakeUser, TakeCollection, Take
        <3>4. CASE EndUsers(p) \/ EndCollections(p)
            BY <3>1, <3>2, <3>4 DEF EndUsers, EndCollections
        <3>5. CASE CreateUser(p) \/ UpdateUser(p)
            BY <3>1, <3>2, <3>5 DEF CreateUser, UpdateUser
        <3>6. CASE EnsureCollection(p) \/ EnsureIndex(p)
            BY <3>1, <3>2, <3>6 DEF EnsureCollection, EnsureIndex, AfterIndex
        <3>7. CASE CountDocuments(p)
            BY <3>1, <3>2, <3>7 DEF CountDocuments, Empty
        <3>8. CASE Insert(p)
            BY <3>1, <3>2, <3>8 DEF Insert
        <3>9. CASE InsertEnds(p)
            BY <3>1, <3>2, <3>9 DEF InsertEnds
        <3>10. CASE InsertClashes(p) \/ LoseConnection(p)
            BY <3>2, <3>10 DEF InsertClashes, LoseConnection
        <3> QED BY <1>2, <3>3, <3>4, <3>5, <3>6, <3>7, <3>8, <3>9, <3>10
                DEF Step
    <2> QED BY <1>0, <2>3, <2>4 DEF FirstSeeds
<1>3. ASSUME NEW c \in Collection, ClientInserts(c) PROVE FirstPass'
    BY <1>0, <1>3 DEF ClientInserts, FirstSeeds, First, SeedsSoFar, ToDo,
       Inserting
<1>4. ASSUME UNCHANGED vars PROVE FirstPass'
    BY <1>0, <1>4 DEF vars, FirstSeeds, First, SeedsSoFar, ToDo, Inserting
<1> QED BY <1>1, <1>2, <1>3, <1>4 DEF Next

\* The first Converge, if it succeeds, inserts each document of a seed file
\* exactly once into each collection it finds empty.
THEOREM FirstPassSeeds == Spec => []FirstPassSeedsAll
<1>1. FirstPass => FirstPassSeedsAll
    BY DEF FirstPass, FirstSeeds, First, SeedsSoFar, ToDo, Inserting,
       UserPhase, CollectionPhase, ItemPhase, FirstPassSeedsAll
<1> QED BY <1>1, FirstPassInit, FirstPassStep, PTL DEF Spec
=============================================================================
