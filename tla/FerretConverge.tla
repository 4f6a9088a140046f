--------------------------- MODULE FerretConverge ---------------------------
(***************************************************************************)
(* Converge of the FerretDB driver (modules/ferret/converge.go): passes    *)
(* over one instance bring users, collections, indexes and seed documents  *)
(* to their declared state.  Passes may overlap, fail, and be run again;   *)
(* clients insert documents of their own meanwhile.  One command to the    *)
(* gateway is one step, except InsertMany, which inserts its documents one *)
(* after the other and may stop half way.  The documents of the clients do *)
(* not clash with the seed's.                                              *)
(***************************************************************************)
EXTENDS Naturals

CONSTANTS
    Pass,        \* concurrent calls of Converge
    User,        \* declared users
    Collection,  \* declared collections
    Unique,      \* the ones with a unique index on what the seed sets
    Seeded,      \* the ones with a seed file
    Doc,         \* the documents of a seed file
    NoItem,
    MaxRuns      \* bound: how often each pass is started

ASSUME FerretAssumption ==
    /\ Unique \subseteq Collection /\ Seeded \subseteq Collection
    /\ Doc # {} /\ MaxRuns \in Nat
    /\ NoItem \notin User \cup Collection

VARIABLES
    auth,     \* the instance's `auth` toggle
    users,    \* each user: "absent", "stale", "current"
    colls,    \* the collections that exist
    indexes,  \* the unique indexes that exist
    copies,   \* copies[c][d]: how often seed document d is in collection c
    foreign,  \* the collections that hold documents of a client
    pc, item, \* what each pass does next, and on what
    left,     \* the users or collections it has still to do
    pending,  \* the documents its InsertMany has still to insert
    reason,   \* why it failed
    overlap,  \* some pass has run beside another one
    runs      \* how often each was started

store == <<users, colls, indexes, copies, foreign>>
vars == <<auth, store, pc, item, left, pending, reason, overlap, runs>>

Running == {"users", "create", "update", "collections", "ensure", "index",
            "count", "insert"}

Empty(c) == c \notin foreign /\ \A d \in Doc : copies[c][d] = 0

Init ==
    /\ auth \in BOOLEAN
    /\ users \in [User -> {"absent", "stale"}]
    /\ colls \in SUBSET Collection
    /\ indexes = {}
    /\ copies = [c \in Collection |-> [d \in Doc |-> 0]]
    /\ foreign \in SUBSET colls
    /\ pc = [p \in Pass |-> "idle"]
    /\ item = [p \in Pass |-> NoItem]
    /\ left = [p \in Pass |-> {}]
    /\ pending = [p \in Pass |-> {}]
    /\ reason = [p \in Pass |-> "none"]
    /\ overlap = FALSE
    /\ runs = [p \in Pass |-> 0]

Goto(p, l) == pc' = [pc EXCEPT ![p] = l]

Fail(p, why) ==
    /\ Goto(p, "failed")
    /\ reason' = [reason EXCEPT ![p] = why]
    /\ pending' = [pending EXCEPT ![p] = {}]

-----------------------------------------------------------------------------
(* The loops.                                                              *)

StartAnyway(p) ==
    /\ pc[p] \in {"idle", "ok", "failed"}
    /\ runs[p] < MaxRuns
    /\ Goto(p, "users")
    /\ left' = [left EXCEPT ![p] = User]
    /\ item' = [item EXCEPT ![p] = NoItem]
    /\ reason' = [reason EXCEPT ![p] = "none"]
    /\ runs' = [runs EXCEPT ![p] = @ + 1]
    /\ overlap' = (overlap \/ \E q \in Pass \ {p} : pc[q] \in Running)
    /\ UNCHANGED <<auth, store, pending>>
\* convergeUsers does nothing unless auth is on.
Start(p) ==
    /\ pc[p] \in {"idle", "ok", "failed"}
    /\ runs[p] < MaxRuns
    /\ Goto(p, "users")
    /\ left' = [left EXCEPT ![p] = IF auth THEN User ELSE {}]
    /\ item' = [item EXCEPT ![p] = NoItem]
    /\ reason' = [reason EXCEPT ![p] = "none"]
    /\ runs' = [runs EXCEPT ![p] = @ + 1]
    /\ overlap' = (overlap \/ \E q \in Pass \ {p} : pc[q] \in Running)
    /\ UNCHANGED <<auth, store, pending>>

Take(p, loop, first) ==
    /\ pc[p] = loop
    /\ \E i \in left[p] :
        /\ item' = [item EXCEPT ![p] = i]
        /\ left' = [left EXCEPT ![p] = @ \ {i}]
    /\ Goto(p, first)
    /\ UNCHANGED <<auth, store, pending, reason, overlap, runs>>

TakeUser(p) == Take(p, "users", "create")
TakeCollection(p) == Take(p, "collections", "ensure")

EndUsers(p) ==
    /\ pc[p] = "users" /\ left[p] = {}
    /\ Goto(p, "collections")
    /\ left' = [left EXCEPT ![p] = Collection]
    /\ UNCHANGED <<auth, store, item, pending, reason, overlap, runs>>

EndCollections(p) ==
    /\ pc[p] = "collections" /\ left[p] = {}
    /\ Goto(p, "ok")
    /\ UNCHANGED <<auth, store, item, left, pending, reason, overlap, runs>>

rest == <<auth, item, left, reason, overlap, runs>>

-----------------------------------------------------------------------------
(* convergeUsers.                                                          *)

CreateUserOnly(p) ==
    /\ pc[p] = "create"
    /\ users' = IF users[item[p]] = "absent"
                THEN [users EXCEPT ![item[p]] = "current"] ELSE users
    /\ Goto(p, "users")
    /\ UNCHANGED <<colls, indexes, copies, foreign, pending, rest>>
CreateUser(p) ==
    /\ pc[p] = "create"
    /\ IF users[item[p]] = "absent"
       THEN users' = [users EXCEPT ![item[p]] = "current"] /\ Goto(p, "users")
       ELSE UNCHANGED users /\ Goto(p, "update")
    /\ UNCHANGED <<colls, indexes, copies, foreign, pending, rest>>

UpdateUser(p) ==
    /\ pc[p] = "update"
    /\ users' = [users EXCEPT ![item[p]] = "current"]
    /\ Goto(p, "users")
    /\ UNCHANGED <<colls, indexes, copies, foreign, pending, rest>>

-----------------------------------------------------------------------------
(* A collection: create it, index it, count it, seed it.                   *)

AfterIndex(c) == IF c \in Seeded THEN "count" ELSE "collections"

\* NamespaceExists is a success.
EnsureCollectionStrict(p) ==
    /\ pc[p] = "ensure"
    /\ colls' = colls \cup {item[p]}
    /\ IF item[p] \in colls THEN Fail(p, "exists")
       ELSE Goto(p, "index") /\ UNCHANGED <<reason, pending>>
    /\ UNCHANGED <<auth, users, indexes, copies, foreign, item, left, overlap,
                   runs>>
EnsureCollection(p) ==
    /\ pc[p] = "ensure"
    /\ colls' = colls \cup {item[p]}
    /\ Goto(p, "index")
    /\ UNCHANGED <<users, indexes, copies, foreign, pending, rest>>

\* An index that exists is a no-op; a unique one cannot be built over
\* duplicates.
EnsureIndex(p) ==
    /\ pc[p] = "index"
    /\ LET c == item[p]
           clash == c \in Unique /\ \E d \in Doc : copies[c][d] > 1
       IN /\ indexes' = IF c \in Unique /\ ~clash THEN indexes \cup {c}
                        ELSE indexes
          /\ IF clash THEN Fail(p, "duplicate")
             ELSE Goto(p, AfterIndex(c)) /\ UNCHANGED <<reason, pending>>
    /\ UNCHANGED <<auth, users, colls, copies, foreign, item, left, overlap,
                   runs>>

\* Only an empty collection is seeded.
CountDocumentsIgnored(p) ==
    /\ pc[p] = "count"
    /\ Goto(p, "insert")
    /\ pending' = [pending EXCEPT ![p] = Doc]
    /\ UNCHANGED <<store, rest>>
CountDocuments(p) ==
    /\ pc[p] = "count"
    /\ IF Empty(item[p])
       THEN Goto(p, "insert") /\ pending' = [pending EXCEPT ![p] = Doc]
       ELSE Goto(p, "collections") /\ UNCHANGED pending
    /\ UNCHANGED <<store, rest>>

InsertFirst(p) ==
    /\ pc[p] = "insert"
    /\ \E d \in pending[p] : copies' = [copies EXCEPT ![item[p]][d] = @ + 1]
    /\ pending' = [pending EXCEPT ![p] = {}]
    /\ UNCHANGED <<users, colls, indexes, foreign, pc, rest>>
Insert(p) ==
    /\ pc[p] = "insert"
    /\ \E d \in pending[p] :
        /\ ~(item[p] \in indexes /\ copies[item[p]][d] > 0)
        /\ copies' = [copies EXCEPT ![item[p]][d] = @ + 1]
        /\ pending' = [pending EXCEPT ![p] = @ \ {d}]
    /\ UNCHANGED <<users, colls, indexes, foreign, pc, rest>>

\* The unique index refuses a document another pass has inserted.
InsertClashes(p) ==
    /\ pc[p] = "insert"
    /\ item[p] \in indexes
    /\ \E d \in pending[p] : copies[item[p]][d] > 0
    /\ Fail(p, "duplicate")
    /\ UNCHANGED <<auth, store, item, left, overlap, runs>>

InsertEnds(p) ==
    /\ pc[p] = "insert" /\ pending[p] = {}
    /\ Goto(p, "collections")
    /\ UNCHANGED <<store, pending, rest>>

-----------------------------------------------------------------------------

\* The gateway goes away or the context ends; documents inserted so far stay.
LoseConnection(p) ==
    /\ pc[p] \in Running \ {"users", "collections"}
    /\ Fail(p, "lost")
    /\ UNCHANGED <<auth, store, item, left, overlap, runs>>

ClientInserts(c) ==
    /\ c \in colls \ foreign
    /\ foreign' = foreign \cup {c}
    /\ UNCHANGED <<auth, users, colls, indexes, copies, pc, item, left, pending,
                   reason, overlap, runs>>

Step(p) ==
    \/ TakeUser(p) \/ EndUsers(p) \/ TakeCollection(p) \/ EndCollections(p)
    \/ CreateUser(p) \/ UpdateUser(p)
    \/ EnsureCollection(p) \/ EnsureIndex(p) \/ CountDocuments(p)
    \/ Insert(p) \/ InsertClashes(p) \/ InsertEnds(p) \/ LoseConnection(p)

Next ==
    \/ \E p \in Pass : Start(p) \/ Step(p)
    \/ \E c \in Collection : ClientInserts(c)

Spec == Init /\ [][Next]_vars

-----------------------------------------------------------------------------
(* Properties.                                                             *)

\* Besides the types: users are touched only with auth on, and only a
\* collection with a seed file is counted and seeded.
TypeOK ==
    /\ auth \in BOOLEAN
    /\ users \in [User -> {"absent", "stale", "current"}]
    /\ colls \subseteq Collection /\ indexes \subseteq Unique
    /\ copies \in [Collection -> [Doc -> Nat]]
    /\ foreign \subseteq Collection
    /\ pc \in [Pass -> Running \cup {"idle", "ok", "failed"}]
    /\ item \in [Pass -> User \cup Collection \cup {NoItem}]
    /\ left \in [Pass -> SUBSET (User \cup Collection)]
    /\ pending \in [Pass -> SUBSET Doc]
    /\ reason \in [Pass -> {"none", "exists", "duplicate", "lost"}]
    /\ overlap \in BOOLEAN
    /\ runs \in [Pass -> 0 .. MaxRuns]
    /\ \A p \in Pass :
        /\ pc[p] \in {"create", "update"} => auth /\ item[p] \in User
        /\ pc[p] \in {"ensure", "index"} => item[p] \in Collection
        /\ pc[p] \in {"count", "insert"} => item[p] \in Seeded

\* Passes that never overlap never duplicate seed data, however often they are
\* run again and wherever they were interrupted; and a unique index keeps even
\* overlapping ones from it, since no pass inserts before the index is there.
NeverDuplicates ==
    \A c \in Collection, d \in Doc :
        ~overlap \/ c \in Unique => copies[c][d] <= 1

\* A pass that reports success leaves every declared object in place.
SuccessMeansDeclared ==
    \A p \in Pass : pc[p] = "ok" =>
        /\ Collection \subseteq colls /\ Unique \subseteq indexes
        /\ \A c \in Seeded : ~Empty(c)
        /\ auth => \A u \in User : users[u] = "current"

\* A pass fails only when its connection is lost, or when it overlapped another
\* one that seeded the same collection.
OnlyRacesAndLossesFail ==
    \A p \in Pass : reason[p] \in {"none", "lost"}
                      \/ (reason[p] = "duplicate" /\ overlap)

\* The first pass over an instance, if it succeeds, has seeded every collection
\* it found empty with the whole file.
FirstPassSeedsAll ==
    \A p \in Pass :
        (pc[p] = "ok" /\ \A q \in Pass : runs[q] = IF q = p THEN 1 ELSE 0)
        => \A c \in Seeded : c \in foreign \/ \A d \in Doc : copies[c][d] = 1
=============================================================================
