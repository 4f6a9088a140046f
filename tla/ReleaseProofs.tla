---------------------------- MODULE ReleaseProofs ----------------------------
(***************************************************************************)
(* The properties of Release, for any number of modules, runs, commits and *)
(* attempts.                                                               *)
(***************************************************************************)
EXTENDS Release, TLAPS

Entry == [version : Nat, source : Nat]

Job == [pc : Publishing
               \cup {"idle", "test", "bumped", "acceptance", "done", "failed"},
        at : Manifest, base : Manifest,
        asked : SUBSET Module, bumped : SUBSET Module,
        dist : [Module -> SUBSET Entry],
        todo : SUBSET Module, attempt : 0 .. MaxAttempts - 1]

WorldTypes ==
    /\ main \in Manifest /\ prev \in Manifest /\ commits \in 0 .. MaxCommits
    /\ index \in [Module -> SUBSET Entry]
    /\ told \subseteq [by : Run, module : Module, version : Nat]
    /\ green \subseteq Run
    /\ accepted \in [Module -> SUBSET Nat]
    /\ spoiled \in BOOLEAN

JobTypes ==
    /\ job \in [Run -> Job]
    /\ \A r \in Run : job[r].pc = "upload" <=> job[r].todo # {}

Types == WorldTypes /\ JobTypes

\* A release was there at the start, or a run that passed its tests has its
\* source.
Vouched(m, rel) == rel = First[m] \/ \E r \in green : job[r].at[m] = rel

Gate ==
    /\ \A r \in Run : Is(r, "idle") => r \notin green
    /\ \A r \in Run : job[r].pc \in Publishing =>
           /\ r \in green
           /\ \A m \in job[r].bumped : job[r].at[m].version \in accepted[m]
    /\ \A m \in Module : \A rel \in index[m] : Vouched(m, rel)
    /\ \A r \in Run, m \in Module : \A rel \in job[r].dist[m] : Vouched(m, rel)

Distinct(rels) == \A x, y \in rels : x.version = y.version => x = y

\* What a run is about to publish holds what is published.
Ahead(r) ==
    /\ job[r].pc \in {"build", "upload", "notify"} =>
           \A m \in Module :
               /\ index[m] \subseteq job[r].dist[m] /\ Distinct(job[r].dist[m])
               /\ ~Is(r, "upload") \/ m \notin job[r].todo =>
                      index[m] = job[r].dist[m]
    /\ job[r].pc \in {"upload", "notify"} =>
           \A m \in Wanted(job[r]) : job[r].at[m] \in job[r].dist[m]

Orderly ==
    ~spoiled =>
        /\ \A r, q \in Run :
               job[r].pc \in Publishing /\ job[q].pc \in Publishing => r = q
        /\ \A m \in Module : Distinct(index[m])
        /\ \A r \in Run : Ahead(r)

Heard ==
    /\ \A t \in told : Is(t.by, "done")
    /\ ToldIsServed

Inv == Types /\ Gate /\ Orderly /\ Heard

\* A fresh machine is a well-typed job.
LEMMA BlankIsJob == Blank \in Job /\ First \in Manifest
BY ReleaseAssumption
   DEF ReleaseAssumption, Blank, Job, First, Manifest, Nothing, Publishing

\* The state after the releases of version 1.
LEMMA InvInit == Init => Inv
<1> SUFFICES ASSUME Init PROVE Inv
    OBVIOUS
<1> USE BlankIsJob, ReleaseAssumption DEF ReleaseAssumption, Init
<1>0. \A r \in Run : job[r] = Blank
    OBVIOUS
<1>1. Types
    <2>1. index \in [Module -> SUBSET Entry]
        BY DEF First, Entry
    <2>2. accepted \in [Module -> SUBSET Nat]
        OBVIOUS
    <2>3. JobTypes
        BY <1>0 DEF JobTypes, Blank
    <2>4. main \in Manifest /\ prev \in Manifest
        OBVIOUS
    <2>5. commits \in 0 .. MaxCommits
        OBVIOUS
    <2>6. told = {} /\ green = {} /\ spoiled \in BOOLEAN
        OBVIOUS
    <2> HIDE DEF Init
    <2> QED BY <2>1, <2>2, <2>3, <2>4, <2>5, <2>6 DEF Types, WorldTypes
<1>2. Gate
    BY <1>0 DEF Gate, Blank, Is, Publishing, Vouched, Nothing
<1>3. Orderly
    BY <1>0 DEF Orderly, Blank, Publishing, Distinct, Ahead
<1>4. Heard
    BY DEF Heard, ToldIsServed
<1> QED BY <1>1, <1>2, <1>3, <1>4 DEF Inv

\* The machine of a run that ended keeps only what the run was for.
LEMMA EndedIsJob ==
    ASSUME NEW j \in Job, NEW how \in {"done", "failed"}
    PROVE  /\ Ended(j, how) \in Job
           /\ Ended(j, how).pc = how /\ Ended(j, how).at = j.at
           /\ Ended(j, how).asked = j.asked /\ Ended(j, how).todo = {}
           /\ Ended(j, how).bumped = {} /\ Ended(j, how).dist = Nothing
<1>1. Ended(j, how) = [Blank EXCEPT !.pc = how, !.at = j.at, !.asked = j.asked]
    BY DEF Ended
<1> QED BY <1>1, BlankIsJob DEF Job, Blank

-----------------------------------------------------------------------------
(* A run that does not publish, next, disturbs nothing.                    *)

\* A run that goes on without publishing, or ends, disturbs neither the
\* indexes nor another run.
LEMMA StepAside ==
    ASSUME Inv, NEW r \in Run, NEW new \in Job,
           job' = [job EXCEPT ![r] = new],
           job[r].pc # "done",
           new.pc \notin Publishing \cup {"idle"}, new.todo = {},
           new.at = job[r].at \/ r \notin green',
           \A m \in Module : new.dist[m] \subseteq job[r].dist[m],
           index' = index, told' = told, WorldTypes',
           green \subseteq green', green' \subseteq green \cup {r},
           \A m \in Module : accepted[m] \subseteq accepted'[m],
           spoiled => spoiled'
    PROVE  Inv'
<1>0. /\ job \in [Run -> Job] /\ job'[r] = new
      /\ \A q \in Run \ {r} : job'[q] = job[q]
    BY DEF Inv, Types, JobTypes
<1>1. Types'
    BY <1>0 DEF Inv, Types, JobTypes, Publishing
<1>2. Gate'
    <2>v. ASSUME NEW m \in Module, NEW rel, Vouched(m, rel)
          PROVE  Vouched(m, rel)'
        BY <1>0, <2>v DEF Inv, Types, WorldTypes, Vouched
    <2>1. \A q \in Run : Is(q, "idle")' => q \notin green'
        BY <1>0 DEF Inv, Gate, Is
    <2>2. \A q \in Run : job'[q].pc \in Publishing =>
              /\ q \in green'
              /\ \A m \in job'[q].bumped : job'[q].at[m].version \in accepted'[m]
        BY <1>0 DEF Inv, Gate, Job
    <2>3. \A m \in Module : \A rel \in index'[m] : Vouched(m, rel)'
        BY <2>v DEF Inv, Gate
    <2>4. \A q \in Run, m \in Module :
              \A rel \in job'[q].dist[m] : Vouched(m, rel)'
        BY <1>0, <2>v DEF Inv, Gate
    <2> QED BY <2>1, <2>2, <2>3, <2>4 DEF Gate
<1>3. Orderly'
    BY <1>0 DEF Inv, Orderly, Ahead, Publishing, Is, Wanted
<1>4. Heard'
    BY <1>0 DEF Inv, Types, WorldTypes, Heard, ToldIsServed, Is, Wanted
<1> QED BY <1>1, <1>2, <1>3, <1>4 DEF Inv

-----------------------------------------------------------------------------
(* A run that publishes.  The new state of its job keeps what it was       *)
(* started with; what it holds is vouched for.                             *)

Keeps(r, new) ==
    /\ new \in Job /\ job' = [job EXCEPT ![r] = new]
    /\ new.pc # "idle" /\ (new.pc = "upload" <=> new.todo # {})
    /\ new.at = job[r].at /\ new.asked = job[r].asked

\* Replacing the job of one run leaves the others alone.
LEMMA KeepsTypes ==
    ASSUME Inv, NEW r \in Run, NEW new, Keeps(r, new), WorldTypes'
    PROVE  /\ Types'
           /\ job'[r] = new /\ \A q \in Run \ {r} : job'[q] = job[q]
BY DEF Inv, Types, JobTypes, Keeps

\* A run that passed its tests may put what is vouched for into an index.
LEMMA KeepsGate ==
    ASSUME Inv, NEW r \in Run, NEW new, Keeps(r, new), r \in green,
           job[r].pc # "idle",
           \A m \in new.bumped : new.at[m].version \in accepted'[m],
           \A m \in Module : accepted[m] \subseteq accepted'[m],
           \A m \in Module : \A rel \in new.dist[m] : Vouched(m, rel),
           \A m \in Module : index'[m] \subseteq index[m] \cup new.dist[m],
           green' = green, WorldTypes'
    PROVE  Gate'
<1>0. job'[r] = new /\ \A q \in Run \ {r} : job'[q] = job[q]
    BY KeepsTypes
<1>v. ASSUME NEW m \in Module, NEW rel, Vouched(m, rel)
      PROVE  Vouched(m, rel)'
    BY <1>0, <1>v DEF Keeps, Vouched
<1>1. \A q \in Run : Is(q, "idle")' => q \notin green'
    BY <1>0 DEF Inv, Gate, Is, Keeps
<1>2. \A q \in Run : job'[q].pc \in Publishing =>
          /\ q \in green'
          /\ \A m \in job'[q].bumped : job'[q].at[m].version \in accepted'[m]
    <2>1. ASSUME NEW q \in Run \ {r}, job[q].pc \in Publishing
          PROVE  /\ q \in green
                 /\ \A m \in job[q].bumped : job[q].at[m].version \in accepted'[m]
        <3>1. job[q].bumped \subseteq Module
            BY DEF Inv, Types, JobTypes, Job
        <3> QED BY <2>1, <3>1 DEF Inv, Gate
    <2> QED BY <1>0, <2>1
<1>3. \A m \in Module : \A rel \in index'[m] : Vouched(m, rel)'
    BY <1>v DEF Inv, Gate
<1>4. \A q \in Run, m \in Module :
          \A rel \in job'[q].dist[m] : Vouched(m, rel)'
    BY <1>0, <1>v DEF Inv, Gate
<1> QED BY <1>1, <1>2, <1>3, <1>4 DEF Gate

\* The only run that publishes keeps its dist ahead of the indexes.
LEMMA KeepsOrderly ==
    ASSUME Inv, NEW r \in Run, NEW new, Keeps(r, new), WorldTypes',
           spoiled => spoiled',
           ~spoiled' =>
               /\ \A q \in Run \ {r} : job[q].pc \notin Publishing
               /\ \A m \in Module : Distinct(index'[m])
               /\ new.pc \in {"build", "upload", "notify"} =>
                      \A m \in Module :
                          /\ index'[m] \subseteq new.dist[m]
                          /\ Distinct(new.dist[m])
                          /\ new.pc # "upload" \/ m \notin new.todo =>
                                 index'[m] = new.dist[m]
               /\ new.pc \in {"upload", "notify"} =>
                      \A m \in Wanted(new) : new.at[m] \in new.dist[m]
    PROVE  Orderly'
<1>0. job'[r] = new /\ \A q \in Run \ {r} : job'[q] = job[q]
    BY KeepsTypes
<1> SUFFICES ASSUME ~spoiled' PROVE Orderly'
    BY DEF Orderly
<1>1. \A q \in Run \ {r} : Ahead(q)'
    BY <1>0 DEF Ahead, Publishing
<1>2. Ahead(r)'
    BY <1>0 DEF Ahead, Is, Wanted
<1>3. \A q \in Run, s \in Run :
          job'[q].pc \in Publishing /\ job'[s].pc \in Publishing => q = s
    BY <1>0
<1> QED BY <1>1, <1>2, <1>3 DEF Orderly

\* What the registry was told stays served as long as indexes only grow.
LEMMA KeepsHeard ==
    ASSUME Inv, NEW r \in Run, NEW new, Keeps(r, new), WorldTypes',
           job[r].pc # "done", told' = told,
           spoiled => spoiled',
           ~spoiled' => \A m \in Module : index[m] \subseteq index'[m]
    PROVE  Heard'
<1>0. job'[r] = new /\ \A q \in Run \ {r} : job'[q] = job[q]
    BY KeepsTypes
<1>1. \A t \in told : t.by \in Run /\ t.by # r /\ t.module \in Module
    BY DEF Inv, Types, WorldTypes, Heard, Is
<1> QED BY <1>0, <1>1 DEF Inv, Heard, ToldIsServed, Is, Wanted

-----------------------------------------------------------------------------

\* Every step keeps the types of what the runs share.
LEMMA WorldStep == Types /\ [Next]_vars => WorldTypes'
<1> SUFFICES ASSUME Types, [Next]_vars PROVE WorldTypes'
    OBVIOUS
<1> USE ReleaseAssumption DEF ReleaseAssumption, Types, WorldTypes, world
<1>1. CASE Commit
    <2>1. main' \in Manifest
        BY <1>1 DEF Commit, Manifest
    <2> QED BY <1>1, <2>1 DEF Commit
<1>2. ASSUME NEW r \in Run, Push(r) \/ Dispatch(r) PROVE WorldTypes'
    BY <1>2 DEF Push, Dispatch, Begin
<1>3. ASSUME NEW r \in Run, Test(r) \/ Bumped(r) PROVE WorldTypes'
    BY <1>3 DEF Test, Bumped
<1>4. ASSUME NEW r \in Run, Acceptance(r) PROVE WorldTypes'
    <2>1. \A m \in Module : job[r].at[m].version \in Nat
        BY DEF JobTypes, Job, Manifest
    <2>2. accepted' \in [Module -> SUBSET Nat]
        BY <1>4, <2>1 DEF Acceptance
    <2> QED BY <1>4, <2>2 DEF Acceptance
<1>5. ASSUME NEW r \in Run, Download(r) \/ Build(r) \/ UploadFails(r)
      PROVE  WorldTypes'
    BY <1>5 DEF Download, Build, UploadFails
<1>6. ASSUME NEW r \in Run, Upload(r) PROVE WorldTypes'
    <2>1. \A m \in Module : job[r].dist[m] \subseteq Entry
                              /\ job[r].todo \subseteq Module
        BY DEF JobTypes, Job
    <2> QED BY <1>6, <2>1 DEF Upload
<1>7. ASSUME NEW r \in Run, Notify(r) PROVE WorldTypes'
    <2>1. \A m \in Module : job[r].at[m].version \in Nat
        BY DEF JobTypes, Job, Manifest
    <2>2. Payload(r, job[r].at) \subseteq
              [by : Run, module : Module, version : Nat]
        BY <2>1 DEF Payload
    <2> QED BY <1>7, <2>2 DEF Notify
<1>8. CASE UNCHANGED vars
    BY <1>8 DEF vars
<1> QED BY <1>1, <1>2, <1>3, <1>4, <1>5, <1>6, <1>7, <1>8 DEF Next, Step

\* The jobs before the acceptance suites publish nothing.
LEMMA GatesKeep ==
    ASSUME Inv, WorldTypes', NEW r \in Run,
           Push(r) \/ Dispatch(r) \/ Test(r) \/ Bumped(r)
    PROVE  Inv'
<1>0. job[r] \in Job /\ (job[r].pc = "upload" <=> job[r].todo # {})
    BY DEF Inv, Types, JobTypes
<1>1. CASE Push(r) \/ Dispatch(r)
    <2>1. PICK which \in SUBSET Module : Begin(r, which)
        BY <1>1 DEF Push, Dispatch
    <2> DEFINE new == [Blank EXCEPT !.pc = "test", !.at = main, !.base = prev,
                                    !.asked = which]
    <2>2. new \in Job /\ new.pc = "test" /\ new.todo = {} /\ new.dist = Nothing
        BY BlankIsJob DEF Inv, Types, WorldTypes, Job, Blank, Publishing
    <2> HIDE DEF new
    <2>3. job' = [job EXCEPT ![r] = new] /\ Is(r, "idle")
        BY <2>1 DEF Begin, new
    <2>4. r \notin green'
        BY <2>1, <2>3 DEF Begin, Inv, Gate
    <2>5. /\ index' = index /\ told' = told /\ green' = green
          /\ accepted' = accepted /\ spoiled' = spoiled
        BY <2>1 DEF Begin
    <2> QED BY <2>2, <2>3, <2>4, <2>5, StepAside DEF Is, Nothing, Publishing
<1>2. CASE Test(r)
    <2> DEFINE new == [job[r] EXCEPT !.pc = "bumped"]
    <2>1. /\ new \in Job /\ new.pc = "bumped" /\ new.todo = job[r].todo
          /\ new.dist = job[r].dist /\ new.at = job[r].at
        BY <1>0 DEF Job
    <2>2. job' = [job EXCEPT ![r] = new] /\ Is(r, "test")
        BY <1>2 DEF Test
    <2> HIDE DEF new
    <2>3. /\ index' = index /\ told' = told /\ accepted' = accepted
          /\ spoiled' = spoiled /\ green' \in {green, green \cup {r}}
        BY <1>2 DEF Test
    <2> QED BY <1>0, <2>1, <2>2, <2>3, StepAside DEF Is, Publishing
<1>3. CASE Bumped(r)
    <2>1. PICK found \in SUBSET Module :
              job' = [job EXCEPT ![r].pc = "acceptance", ![r].bumped = found]
        BY <1>0, <1>3 DEF Bumped, Job
    <2> DEFINE new == [job[r] EXCEPT !.pc = "acceptance", !.bumped = found]
    <2>2. /\ new \in Job /\ new.pc = "acceptance" /\ new.todo = job[r].todo
          /\ new.dist = job[r].dist /\ new.at = job[r].at
        BY <1>0 DEF Job
    <2>3. job' = [job EXCEPT ![r] = new] /\ Is(r, "bumped")
        BY <1>3, <2>1 DEF Bumped
    <2> HIDE DEF new
    <2>4. /\ index' = index /\ told' = told /\ accepted' = accepted
          /\ spoiled' = spoiled /\ green' = green
        BY <1>3 DEF Bumped
    <2> QED BY <1>0, <2>2, <2>3, <2>4, StepAside DEF Is, Publishing
<1> QED BY <1>1, <1>2, <1>3

\* A run may fail at any point without breaking anything.
LEMMA FailureKeeps ==
    ASSUME Inv, WorldTypes', NEW r \in Run,
           job' = [job EXCEPT ![r] = Ended(job[r], "failed")],
           job[r].pc \in {"acceptance"} \cup Publishing,
           index' = index, told' = told, green' = green,
           \A m \in Module : accepted[m] \subseteq accepted'[m],
           spoiled => spoiled'
    PROVE  Inv'
<1>1. job[r] \in Job
    BY DEF Inv, Types, JobTypes
<1> DEFINE new == Ended(job[r], "failed")
<1>2. /\ new \in Job /\ new.pc = "failed" /\ new.at = job[r].at
      /\ new.todo = {} /\ new.dist = Nothing
    BY <1>1, EndedIsJob
<1> HIDE DEF new
<1>3. job' = [job EXCEPT ![r] = new]
    BY DEF new
<1> QED BY <1>2, <1>3, StepAside DEF Nothing, Publishing

\* build-and-publish starts only behind the tests and the suites.
LEMMA AcceptanceKeeps ==
    ASSUME Inv, WorldTypes', NEW r \in Run, Acceptance(r)
    PROVE  Inv'
<1>0. job[r] \in Job /\ (job[r].pc = "upload" <=> job[r].todo # {})
    BY DEF Inv, Types, JobTypes
<1>1. PICK passed \in SUBSET job[r].bumped :
          /\ accepted' = [m \in Module |->
                              IF m \in passed
                              THEN accepted[m] \cup {job[r].at[m].version}
                              ELSE accepted[m]]
          /\ job' = [job EXCEPT ![r] =
                        IF MayPublish(r, passed)
                        THEN [job[r] EXCEPT !.pc = "download"]
                        ELSE Ended(job[r], "failed")]
    BY DEF Acceptance
<1>2. /\ Is(r, "acceptance")
      /\ spoiled' = (spoiled \/ \E q \in Run \ {r} : job[q].pc \in Publishing)
      /\ index' = index /\ told' = told /\ green' = green
    BY DEF Acceptance
<1>3. \A m \in Module : accepted[m] \subseteq accepted'[m]
    BY <1>1
<1>4. CASE ~MayPublish(r, passed)
    BY <1>1, <1>2, <1>3, <1>4, FailureKeeps DEF Is
<1>5. CASE MayPublish(r, passed)
    <2> DEFINE new == [job[r] EXCEPT !.pc = "download"]
    <2>1. /\ new \in Job /\ new.pc = "download" /\ new.todo = job[r].todo
          /\ new.dist = job[r].dist /\ new.at = job[r].at
          /\ new.bumped = job[r].bumped /\ new.asked = job[r].asked
        BY <1>0 DEF Job, Publishing
    <2> HIDE DEF new
    <2>2. job' = [job EXCEPT ![r] = new]
        BY <1>1, <1>5 DEF new
    <2>3. Keeps(r, new)
        BY <1>0, <1>2, <2>1, <2>2 DEF Keeps, Is
    <2>4. /\ r \in green
          /\ \A m \in new.bumped : new.at[m].version \in accepted'[m]
        BY <1>0, <1>1, <1>5, <2>1 DEF MayPublish, Job
    <2>5. Gate'
        BY <1>2, <1>3, <2>1, <2>3, <2>4, KeepsGate DEF Inv, Gate, Is
    <2>6. Heard'
        BY <1>2, <2>3, KeepsHeard DEF Is
    <2>7. Orderly'
        BY <1>2, <2>1, <2>3, KeepsOrderly DEF Inv, Orderly, Is
    <2> QED BY <2>3, <2>5, <2>6, <2>7, KeepsTypes DEF Inv
<1> QED BY <1>4, <1>5

\* The download leaves dist equal to the published indexes, or spoils the run.
LEMMA DownloadKeeps ==
    ASSUME Inv, WorldTypes', NEW r \in Run, Download(r)
    PROVE  Inv'
<1>0. job[r] \in Job /\ (job[r].pc = "upload" <=> job[r].todo # {})
    BY DEF Inv, Types, JobTypes
<1>1. PICK lost \in SUBSET Module :
          /\ job' = [job EXCEPT ![r].pc = "build", ![r].dist =
                        [m \in Module |-> IF m \in lost THEN {} ELSE index[m]]]
          /\ spoiled' = (spoiled \/ lost # {})
    BY DEF Download
<1>2. /\ Is(r, "download")
      /\ index' = index /\ told' = told /\ green' = green
      /\ accepted' = accepted
    BY DEF Download
<1> DEFINE found == [m \in Module |-> IF m \in lost THEN {} ELSE index[m]]
           new == [job[r] EXCEPT !.pc = "build", !.dist = found]
<1>3. found \in [Module -> SUBSET Entry]
    BY DEF Inv, Types, WorldTypes
<1>4. \A m \in Module : found[m] = IF m \in lost THEN {} ELSE index[m]
    OBVIOUS
<1>5. job' = [job EXCEPT ![r] = new]
    BY <1>1
<1> HIDE DEF found
<1>6. /\ new \in Job /\ new.pc = "build" /\ new.todo = job[r].todo
      /\ new.dist = found /\ new.at = job[r].at
      /\ new.bumped = job[r].bumped /\ new.asked = job[r].asked
    BY <1>0, <1>3 DEF Job, Publishing
<1> HIDE DEF new
<1>7. Keeps(r, new)
    BY <1>0, <1>2, <1>5, <1>6 DEF Keeps, Is
<1>8. r \in green /\ \A m \in new.bumped : new.at[m].version \in accepted'[m]
    BY <1>2, <1>6 DEF Inv, Gate, Is, Publishing
<1>9. Gate'
    <2>1. \A m \in Module : \A rel \in new.dist[m] : Vouched(m, rel)
        BY <1>4, <1>6 DEF Inv, Gate
    <2> QED BY <1>2, <1>7, <1>8, <2>1, KeepsGate DEF Is
<1>10. Heard'
    BY <1>1, <1>2, <1>7, KeepsHeard DEF Is
<1>11. Orderly'
    <2>1. ~spoiled' => /\ \A q \in Run \ {r} : job[q].pc \notin Publishing
                       /\ \A m \in Module : Distinct(index[m])
                       /\ \A m \in Module : new.dist[m] = index[m]
        BY <1>1, <1>2, <1>4, <1>6 DEF Inv, Orderly, Is, Publishing
    <2> QED BY <1>1, <1>2, <1>6, <1>7, <2>1, KeepsOrderly
<1> QED BY <1>7, <1>9, <1>10, <1>11, KeepsTypes DEF Inv

\* The immutability guard of the builder keeps versions distinct.
LEMMA BuildKeeps ==
    ASSUME Inv, WorldTypes', NEW r \in Run, Build(r)
    PROVE  Inv'
<1> DEFINE j == job[r]
           built == [m \in Module |-> IF m \in Wanted(j)
                                      THEN j.dist[m] \cup {j.at[m]}
                                      ELSE j.dist[m]]
           new == [j EXCEPT !.pc = "upload", !.dist = built, !.todo = Module]
<1>0. j \in Job /\ j.at \in [Module -> Entry] /\ j.dist \in [Module -> SUBSET Entry]
    BY DEF Inv, Types, JobTypes, Job, Manifest, Entry
<1>1. /\ job' = [job EXCEPT ![r] = IF Clash(j) THEN Ended(j, "failed") ELSE new]
      /\ Is(r, "build")
      /\ index' = index /\ told' = told /\ green' = green
      /\ accepted' = accepted /\ spoiled' = spoiled
    BY DEF Build
<1>2. CASE Clash(j)
    BY <1>1, <1>2, FailureKeeps DEF Is, Publishing
<1>3. CASE ~Clash(j)
    <2>1. built \in [Module -> SUBSET Entry]
        BY <1>0
    <2>2. \A m \in Module :
              built[m] = IF m \in Wanted(j) THEN j.dist[m] \cup {j.at[m]}
                         ELSE j.dist[m]
        OBVIOUS
    <2>3. job' = [job EXCEPT ![r] = new]
        BY <1>1, <1>3
    <2> HIDE DEF built
    <2>4. /\ new \in Job /\ new.pc = "upload" /\ new.todo = Module
          /\ new.dist = built /\ new.at = j.at
          /\ new.bumped = j.bumped /\ new.asked = j.asked
        BY <1>0, <2>1 DEF Job, Publishing
    <2> HIDE DEF new
    <2>5. Keeps(r, new)
        BY <2>3, <2>4, ReleaseAssumption DEF Keeps, ReleaseAssumption
    <2>6. r \in green /\ \A m \in new.bumped : new.at[m].version \in accepted'[m]
        BY <1>1, <2>4 DEF Inv, Gate, Is, Publishing
    <2>7. \A m \in Module : \A rel \in new.dist[m] : Vouched(m, rel)
        <3>1. \A m \in Module : \A rel \in j.dist[m] : Vouched(m, rel)
            BY DEF Inv, Gate
        <3>2. \A m \in Module : Vouched(m, j.at[m])
            BY <2>6 DEF Vouched
        <3> QED BY <2>2, <2>4, <3>1, <3>2
    <2>8. Gate'
        BY <1>1, <2>5, <2>6, <2>7, KeepsGate DEF Is
    <2>9. Heard'
        BY <1>1, <2>5, KeepsHeard DEF Is
    <2>10. Orderly'
        <3> SUFFICES ASSUME ~spoiled PROVE Orderly'
            BY <1>1, <2>5, KeepsOrderly
        <3>1. /\ \A q \in Run \ {r} : job[q].pc \notin Publishing
              /\ \A m \in Module : Distinct(index[m]) /\ index[m] = j.dist[m]
            BY <1>1 DEF Inv, Orderly, Ahead, Is, Publishing
        <3>2. ASSUME NEW m \in Module PROVE Distinct(built[m])
            BY <1>3, <2>2, <3>1 DEF Distinct, Clash
        <3>3. Wanted(new) \subseteq Module
            BY <2>4 DEF Wanted, Job
        <3>4. \A m \in Wanted(new) : new.at[m] \in new.dist[m]
            BY <2>2, <2>4, <3>3 DEF Wanted
        <3>5. \A m \in Module : index'[m] \subseteq new.dist[m]
            BY <1>1, <2>2, <2>4, <3>1
        <3> QED BY <1>1, <2>4, <2>5, <3>1, <3>2, <3>4, <3>5, KeepsOrderly
    <2> QED BY <2>5, <2>8, <2>9, <2>10, KeepsTypes DEF Inv
<1> QED BY <1>2, <1>3

\* An upload replaces an index by one that holds it.
LEMMA UploadKeeps ==
    ASSUME Inv, WorldTypes', NEW r \in Run, Upload(r)
    PROVE  Inv'
<1> DEFINE j == job[r]
<1>0. j \in Job /\ (j.pc = "upload" <=> j.todo # {}) /\ j.todo \subseteq Module
    BY DEF Inv, Types, JobTypes, Job
<1>1. PICK m \in j.todo :
          /\ index' = [index EXCEPT ![m] = j.dist[m]]
          /\ job' = [job EXCEPT ![r].todo = @ \ {m}, ![r].attempt = 0,
                        ![r].pc = IF job[r].todo = {m} THEN "notify" ELSE @]
    BY DEF Upload
<1>2. /\ Is(r, "upload") /\ told' = told /\ green' = green
      /\ accepted' = accepted /\ spoiled' = spoiled
    BY DEF Upload
<1> DEFINE new == [j EXCEPT !.todo = j.todo \ {m}, !.attempt = 0,
                            !.pc = IF j.todo = {m} THEN "notify" ELSE "upload"]
<1>3. job' = [job EXCEPT ![r] = new]
    BY <1>1, <1>2 DEF Is, Inv, Types, JobTypes, Job
<1>4. /\ new \in Job /\ new.todo = j.todo \ {m}
      /\ new.pc = IF j.todo = {m} THEN "notify" ELSE "upload"
      /\ new.dist = j.dist /\ new.at = j.at
      /\ new.bumped = j.bumped /\ new.asked = j.asked
    <2> DEFINE l == IF j.todo = {m} THEN "notify" ELSE "upload"
    <2>1. /\ l \in Publishing /\ j.todo \ {m} \in SUBSET Module
          /\ 0 \in 0 .. MaxAttempts - 1
        BY <1>0, ReleaseAssumption DEF Publishing, ReleaseAssumption
    <2>2. new = [j EXCEPT !.todo = j.todo \ {m}, !.attempt = 0, !.pc = l]
        OBVIOUS
    <2> HIDE DEF l, new
    <2>3. /\ new \in Job /\ new.todo = j.todo \ {m} /\ new.pc = l
          /\ new.dist = j.dist /\ new.at = j.at
          /\ new.bumped = j.bumped /\ new.asked = j.asked
        BY <1>0, <2>1, <2>2 DEF Job
    <2> QED BY <2>3 DEF l
<1> HIDE DEF new
<1>5. Keeps(r, new)
    BY <1>0, <1>3, <1>4 DEF Keeps
<1>6. r \in green /\ \A n \in new.bumped : new.at[n].version \in accepted'[n]
    BY <1>2, <1>4 DEF Inv, Gate, Is, Publishing
<1>7. \A n \in Module : index'[n] = IF n = m THEN j.dist[n] ELSE index[n]
    BY <1>0, <1>1 DEF Inv, Types, WorldTypes
<1>8. Gate'
    <2>1. \A n \in Module : \A rel \in new.dist[n] : Vouched(n, rel)
        BY <1>4 DEF Inv, Gate
    <2> QED BY <1>2, <1>4, <1>5, <1>6, <1>7, <2>1, KeepsGate DEF Is
<1>9. ~spoiled => /\ \A q \in Run \ {r} : job[q].pc \notin Publishing
                  /\ \A n \in Module : /\ index[n] \subseteq j.dist[n]
                                       /\ Distinct(index[n])
                                       /\ Distinct(j.dist[n])
                                       /\ n \notin j.todo => index[n] = j.dist[n]
                  /\ \A n \in Wanted(j) : j.at[n] \in j.dist[n]
    BY <1>2 DEF Inv, Orderly, Ahead, Is, Publishing
<1>10. Heard'
    BY <1>2, <1>5, <1>7, <1>9, KeepsHeard DEF Is
<1>11. Orderly'
    <2>1. Wanted(new) = Wanted(j)
        BY <1>4 DEF Wanted
    <2> QED BY <1>2, <1>4, <1>5, <1>7, <1>9, <2>1, KeepsOrderly
<1> QED BY <1>5, <1>8, <1>10, <1>11, KeepsTypes DEF Inv

\* An upload that fails is tried again, or ends the run.
LEMMA UploadFailsKeeps ==
    ASSUME Inv, WorldTypes', NEW r \in Run, UploadFails(r)
    PROVE  Inv'
<1> DEFINE j == job[r]
           new == [j EXCEPT !.attempt = @ + 1]
<1>0. j \in Job /\ (j.pc = "upload" <=> j.todo # {})
    BY DEF Inv, Types, JobTypes
<1>1. /\ job' = [job EXCEPT ![r] = Retry(j)]
      /\ Is(r, "upload") /\ index' = index /\ told' = told /\ green' = green
      /\ accepted' = accepted /\ spoiled' = spoiled
    BY DEF UploadFails
<1>2. CASE j.attempt + 1 = MaxAttempts
    BY <1>1, <1>2, FailureKeeps DEF Retry, Is, Publishing
<1>3. CASE j.attempt + 1 # MaxAttempts
    <2>1. /\ new \in Job /\ new.pc = j.pc /\ new.todo = j.todo
          /\ new.dist = j.dist /\ new.at = j.at
          /\ new.bumped = j.bumped /\ new.asked = j.asked
        BY <1>0, <1>3, ReleaseAssumption DEF Job, ReleaseAssumption
    <2>2. job' = [job EXCEPT ![r] = new]
        BY <1>1, <1>3 DEF Retry
    <2> HIDE DEF new
    <2>3. Keeps(r, new)
        BY <1>0, <1>1, <2>1, <2>2 DEF Keeps, Is
    <2>4. r \in green /\ \A m \in new.bumped : new.at[m].version \in accepted'[m]
        BY <1>1, <2>1 DEF Inv, Gate, Is, Publishing
    <2>5. \A m \in Module : \A rel \in new.dist[m] : Vouched(m, rel)
        BY <2>1 DEF Inv, Gate
    <2>6. Gate'
        BY <1>1, <2>3, <2>4, <2>5, KeepsGate DEF Is
    <2>7. Heard'
        BY <1>1, <2>3, KeepsHeard DEF Is
    <2>8. Orderly'
        <3>1. Wanted(new) = Wanted(j)
            BY <2>1 DEF Wanted
        <3>2. ~spoiled => /\ \A q \in Run \ {r} : job[q].pc \notin Publishing
                          /\ \A m \in Module : Distinct(index[m])
                          /\ Ahead(r)
            BY <1>1 DEF Inv, Orderly, Is, Publishing
        <3> QED BY <1>1, <2>1, <2>3, <3>1, <3>2, KeepsOrderly DEF Ahead, Is
    <2> QED BY <2>3, <2>6, <2>7, <2>8, KeepsTypes DEF Inv
<1> QED BY <1>2, <1>3

\* The registry is told when all is uploaded.
LEMMA NotifyKeeps ==
    ASSUME Inv, WorldTypes', NEW r \in Run, Notify(r)
    PROVE  Inv'
<1> DEFINE j == job[r]
           new == Ended(j, "done")
<1>0. j \in Job
    BY DEF Inv, Types, JobTypes
<1>1. /\ job' = [job EXCEPT ![r] = new]
      /\ Is(r, "notify") /\ told' = told \cup Payload(r, j.at)
      /\ index' = index /\ green' = green
      /\ accepted' = accepted /\ spoiled' = spoiled
    BY DEF Notify
<1>2. /\ new \in Job /\ new.pc = "done" /\ new.todo = {} /\ new.bumped = {}
      /\ new.dist = Nothing /\ new.at = j.at /\ new.asked = j.asked
    BY <1>0, EndedIsJob
<1> HIDE DEF new
<1>3. Keeps(r, new)
    BY <1>1, <1>2 DEF Keeps
<1>4. job'[r] = new /\ \A q \in Run \ {r} : job'[q] = job[q]
    BY <1>3, KeepsTypes
<1>5. Gate'
    <2>1. r \in green
        BY <1>1 DEF Inv, Gate, Is, Publishing
    <2> QED BY <1>1, <1>2, <1>3, <2>1, KeepsGate DEF Is, Nothing
<1>6. ~spoiled => /\ \A q \in Run \ {r} : job[q].pc \notin Publishing
                  /\ \A m \in Module : /\ Distinct(index[m])
                                       /\ index[m] = j.dist[m]
                  /\ \A m \in Wanted(j) : j.at[m] \in j.dist[m]
    BY <1>1 DEF Inv, Orderly, Ahead, Is, Publishing
<1>7. Orderly'
    BY <1>1, <1>2, <1>3, <1>6, KeepsOrderly
<1>8. Heard'
    <2>1. \A t \in told : t.by \in Run /\ t.by # r /\ Is(t.by, "done")
        BY <1>1 DEF Inv, Types, WorldTypes, Heard, Is
    <2>2. \A t \in told' : Is(t.by, "done")'
        BY <1>1, <1>2, <1>4, <2>1 DEF Is, Payload
    <2>3. ASSUME ~spoiled', NEW t \in told', t.module \in Wanted(job'[t.by])
          PROVE  \E rel \in index'[t.module] : rel.version = t.version
        <3>1. CASE t \in told
            BY <1>1, <1>4, <2>1, <2>3, <3>1 DEF Inv, Heard, ToldIsServed
        <3>2. CASE t \in Payload(r, j.at)
            <4>1. PICK m \in Module :
                      t = [by |-> r, module |-> m, version |-> j.at[m].version]
                BY <3>2 DEF Payload
            <4>2. m \in Wanted(j)
                BY <1>2, <1>4, <2>3, <4>1 DEF Wanted
            <4>3. j.at[m] \in index[m]
                BY <1>1, <1>6, <2>3, <4>2
            <4> QED BY <1>1, <4>1, <4>3
        <3> QED BY <1>1, <3>1, <3>2
    <2> QED BY <2>2, <2>3 DEF Heard, ToldIsServed
<1> QED BY <1>3, <1>5, <1>7, <1>8, KeepsTypes DEF Inv

\* Every step of the workflow, and every commit, keeps the invariant.
LEMMA InvStep == Inv /\ [Next]_vars => Inv'
<1> SUFFICES ASSUME Inv, [Next]_vars PROVE Inv'
    OBVIOUS
<1>0. WorldTypes'
    BY WorldStep DEF Inv
<1>1. ASSUME Commit \/ UNCHANGED vars PROVE Inv'
    <2>1. UNCHANGED <<job, index, told, accepted, green, spoiled>>
        BY <1>1 DEF Commit, vars
    <2> QED BY <1>0, <2>1 DEF Inv, Types, JobTypes, Gate, Is, Vouched, Orderly,
               Ahead, Heard, ToldIsServed
<1>2. ASSUME NEW r \in Run, Push(r) \/ Dispatch(r) \/ Step(r) PROVE Inv'
    BY <1>0, <1>2, GatesKeep, AcceptanceKeeps, DownloadKeeps, BuildKeeps,
       UploadKeeps, UploadFailsKeeps, NotifyKeeps DEF Step
<1> QED BY <1>1, <1>2 DEF Next

\* The invariant holds in every reachable state.
LEMMA Invariance == Spec => []Inv
BY InvInit, InvStep, PTL DEF Spec

\* Release is type correct; the attempts of an upload stay below their bound.
THEOREM TypeCorrect == Spec => []TypeOK
<1>1. Inv => TypeOK
    BY DEF Inv, Types, WorldTypes, JobTypes, Job, TypeOK, Is
<1> QED BY <1>1, Invariance, PTL

\* No release reaches an index before the unit tests of a run on its source
\* have passed, nor a run its publishing job while a suite is missing.
THEOREM TestsGate == Spec => []TestsGateEveryRelease
<1>1. Inv => TestsGateEveryRelease
    BY DEF Inv, Gate, Vouched, TestsGateEveryRelease
<1> QED BY <1>1, Invariance, PTL

\* The registry is told only of versions that their indexes list.
THEOREM WhatIsToldIsServed == Spec => []ToldIsServed
<1>1. Inv => ToldIsServed
    BY DEF Inv, Heard
<1> QED BY <1>1, Invariance, PTL

\* The builder never replaces a published version, and an upload never drops
\* one, unless a download failed or two runs published at once.
THEOREM PublishingAppends == Spec => AppendOnly
<1>1. ASSUME Inv, Inv', Next, ~spoiled', NEW m \in Module
      PROVE  index[m] \subseteq index'[m] /\ Distinct(index'[m])
    <2>1. Distinct(index'[m])
        BY <1>1 DEF Inv, Orderly
    <2>2. ASSUME NEW r \in Run, Upload(r) PROVE index[m] \subseteq index'[m]
        <3>1. Ahead(r) /\ Is(r, "upload")
            BY <1>1, <2>2 DEF Inv, Orderly, Upload
        <3>2. index[m] \subseteq job[r].dist[m]
            BY <3>1 DEF Ahead, Is
        <3> QED BY <1>1, <2>2, <3>2 DEF Upload, Inv, Types, WorldTypes
    <2>3. ASSUME ~\E r \in Run : Upload(r) PROVE index' = index
        BY <1>1, <2>3 DEF Next, Step, Commit, Push, Dispatch, Begin, Test,
           Bumped, Acceptance, Download, Build, UploadFails, Notify
    <2> QED BY <2>1, <2>2, <2>3
<1>2. Inv /\ Inv' /\ [Next]_vars
      => [~spoiled' =>
            \A m \in Module :
                /\ index[m] \subseteq index'[m]
                /\ \A x, y \in index'[m] : x.version = y.version => x = y]_vars
    BY <1>1 DEF Distinct
<1> QED BY <1>2, Invariance, PTL DEF Spec, AppendOnly
=============================================================================
