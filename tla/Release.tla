------------------------------- MODULE Release -------------------------------
(***************************************************************************)
(* The release workflow (.github/workflows/release.yml) and the builder it *)
(* calls (cmd/dzm).  Commits to main edit the sources of modules and bump  *)
(* their versions; a push or a dispatch starts a run: unit tests, the      *)
(* acceptance suites of the modules it takes for bumped, then one job that *)
(* downloads every module's published index, builds, uploads and tells the *)
(* registry.  Runs may overlap, and any step on the network may fail.      *)
(*                                                                         *)
(* A release is a version together with the source it was built from,      *)
(* which stands for its bytes.                                             *)
(***************************************************************************)
EXTENDS Naturals

CONSTANTS
    Module,      \* the modules of modules.yaml
    Run,         \* runs of the workflow
    MaxCommits,  \* bound: commits to main
    MaxAttempts  \* attempts of an upload (3 in the workflow)

ASSUME ReleaseAssumption ==
    Module # {} /\ MaxCommits \in Nat /\ MaxAttempts \in Nat \ {0}

VARIABLES
    main,     \* the manifest at HEAD: each module's version and source
    prev,     \* the manifest at HEAD^
    commits,
    job,      \* what each run works on
    index,    \* index[m]: the releases the published index of m lists
    told,     \* the versions each run has asked the registry to sign
    accepted, \* accepted[m]: the versions whose acceptance suite has passed
    green,    \* the runs whose unit tests have passed
    spoiled   \* a download failed, or two runs were publishing at once

vars == <<main, prev, commits, job, index, told, accepted, green, spoiled>>
world == <<main, prev, commits>>

Manifest == [Module -> [version : Nat, source : Nat]]
First == [m \in Module |-> [version |-> 1, source |-> 0]]
Nothing == [m \in Module |-> {}]

\* The state of a run; its machine is thrown away when it ends.
Blank == [pc |-> "idle", at |-> First, base |-> First, asked |-> {},
          bumped |-> {}, dist |-> Nothing, todo |-> {}, attempt |-> 0]

Ended(j, how) == [Blank EXCEPT !.pc = how, !.at = j.at, !.asked = j.asked]

Publishing == {"download", "build", "upload", "notify"}

\* Version 1 of every module was released as it should be.
Init ==
    /\ main = First /\ prev = First /\ commits = 0
    /\ job = [r \in Run |-> Blank]
    /\ index = [m \in Module |-> {First[m]}]
    /\ accepted = [m \in Module |-> {1}]
    /\ told = {} /\ green = {} /\ spoiled = FALSE

Is(r, l) == job[r].pc = l

-----------------------------------------------------------------------------
(* What starts a run.                                                      *)

\* A commit edits one module or, as a re-pin of the SDK does, all of them; it
\* may bump the versions of what it edits.
Commit ==
    /\ commits < MaxCommits
    /\ \E edits \in {{m} : m \in Module} \cup {Module}, bump \in {0, 1} :
        main' = [m \in Module |->
                    IF m \in edits THEN [version |-> main[m].version + bump,
                                         source |-> commits + 1]
                    ELSE main[m]]
    /\ prev' = main
    /\ commits' = commits + 1
    /\ UNCHANGED <<job, index, told, accepted, green, spoiled>>

Begin(r, which) ==
    /\ Is(r, "idle")
    /\ job' = [job EXCEPT ![r] = [Blank EXCEPT !.pc = "test", !.at = main,
                                               !.base = prev, !.asked = which]]
    /\ UNCHANGED <<world, index, told, accepted, green, spoiled>>

\* A push carries any number of commits and is one run, on the last of them.
Push(r) == commits > 0 /\ Begin(r, {})

Dispatch(r) == \E which \in {{m} : m \in Module} \cup {Module} : Begin(r, which)

\* A push builds everything.
Wanted(j) == IF j.asked = {} THEN Module ELSE j.asked

-----------------------------------------------------------------------------
(* The gates.                                                              *)

\* The jobs `test` and `bumped` run side by side; both are over before
\* anything is published.
Test(r) ==
    /\ Is(r, "test")
    /\ job' = [job EXCEPT ![r].pc = "bumped"]
    /\ green' \in {green, green \cup {r}}
    /\ UNCHANGED <<world, index, told, accepted, spoiled>>

\* A push compares with HEAD^ only.  When the job fails, the suites that need
\* its output are skipped.
Bumped(r) ==
    /\ Is(r, "bumped")
    /\ LET j == job[r]
           diff == IF j.asked # {} THEN j.asked
                   ELSE {m \in Module : j.at[m].version # j.base[m].version}
       IN \E found \in {diff, {}} :
            job' = [job EXCEPT ![r].pc = "acceptance", ![r].bumped = found]
    /\ UNCHANGED <<world, index, told, accepted, green, spoiled>>

\* build-and-publish runs when the tests passed and no suite failed: none may
\* have been run.
MayPublishAnyPass(r, passed) ==
    r \in green /\ (passed # {} \/ job[r].bumped = {})
MayPublish(r, passed) == r \in green /\ passed = job[r].bumped

Acceptance(r) ==
    /\ Is(r, "acceptance")
    /\ \E passed \in SUBSET job[r].bumped :
        /\ accepted' = [m \in Module |->
                            IF m \in passed
                            THEN accepted[m] \cup {job[r].at[m].version}
                            ELSE accepted[m]]
        /\ job' = [job EXCEPT ![r] =
                      IF MayPublish(r, passed) THEN [@ EXCEPT !.pc = "download"]
                      ELSE Ended(@, "failed")]
    /\ spoiled' = (spoiled \/ \E q \in Run \ {r} : job[q].pc \in Publishing)
    /\ UNCHANGED <<world, index, told, green>>

-----------------------------------------------------------------------------
(* The build-and-publish job.                                              *)

\* Any failure of curl is taken for "nothing published yet".
DownloadNothing(r) ==
    /\ Is(r, "download")
    /\ job' = [job EXCEPT ![r].pc = "build", ![r].dist = Nothing]
    /\ UNCHANGED <<world, index, told, accepted, green, spoiled>>
Download(r) ==
    /\ Is(r, "download")
    /\ \E lost \in SUBSET Module :
        /\ job' = [job EXCEPT ![r].pc = "build", ![r].dist =
                      [m \in Module |-> IF m \in lost THEN {} ELSE index[m]]]
        /\ spoiled' = (spoiled \/ lost # {})
    /\ UNCHANGED <<world, index, told, accepted, green>>

\* The immutability guard: a version that is listed is not built from another
\* source.
ClashNever(j) == Wanted(j) = {}
Clash(j) ==
    \E m \in Wanted(j) : \E rel \in j.dist[m] :
        rel.version = j.at[m].version /\ rel # j.at[m]

Build(r) ==
    /\ Is(r, "build")
    /\ LET j == job[r]
           built == [m \in Module |-> IF m \in Wanted(j)
                                      THEN j.dist[m] \cup {j.at[m]}
                                      ELSE j.dist[m]]
       IN job' = [job EXCEPT ![r] =
                     IF Clash(j) THEN Ended(j, "failed")
                     ELSE [j EXCEPT !.pc = "upload", !.dist = built,
                                    !.todo = Module]]
    /\ UNCHANGED <<world, index, told, accepted, green, spoiled>>

\* --clobber replaces the index by the one in dist.  A module with nothing in
\* its directory has nothing to upload, and gh refuses that.
Upload(r) ==
    /\ Is(r, "upload")
    /\ \E m \in job[r].todo :
        /\ job[r].dist[m] # {}
        /\ index' = [index EXCEPT ![m] = job[r].dist[m]]
        /\ job' = [job EXCEPT ![r].todo = @ \ {m}, ![r].attempt = 0,
                      ![r].pc = IF job[r].todo = {m} THEN "notify" ELSE @]
    /\ UNCHANGED <<world, told, accepted, green, spoiled>>

RetryOnceMore(j) ==
    IF j.attempt = MaxAttempts THEN Ended(j, "failed")
    ELSE [j EXCEPT !.attempt = @ + 1]
Retry(j) ==
    IF j.attempt + 1 = MaxAttempts THEN Ended(j, "failed")
    ELSE [j EXCEPT !.attempt = @ + 1]

UploadFails(r) ==
    /\ Is(r, "upload")
    /\ job' = [job EXCEPT ![r] = Retry(@)]
    /\ UNCHANGED <<world, index, told, accepted, green, spoiled>>

\* The payload names every module of dist, the ones the run did not build
\* included, with the versions of the manifest.
Payload(r, manifest) ==
    {[by |-> r, module |-> m, version |-> manifest[m].version] : m \in Module}

NotifyHead(r) ==
    /\ Is(r, "notify")
    /\ told' = told \cup Payload(r, main)
    /\ job' = [job EXCEPT ![r] = Ended(@, "done")]
    /\ UNCHANGED <<world, index, accepted, green, spoiled>>
Notify(r) ==
    /\ Is(r, "notify")
    /\ told' = told \cup Payload(r, job[r].at)
    /\ job' = [job EXCEPT ![r] = Ended(@, "done")]
    /\ UNCHANGED <<world, index, accepted, green, spoiled>>

-----------------------------------------------------------------------------

Step(r) ==
    \/ Test(r) \/ Bumped(r) \/ Acceptance(r) \/ Download(r) \/ Build(r)
    \/ Upload(r) \/ UploadFails(r) \/ Notify(r)

Next ==
    \/ Commit
    \/ \E r \in Run : Push(r) \/ Dispatch(r) \/ Step(r)

Spec == Init /\ [][Next]_vars

-----------------------------------------------------------------------------
(* Properties.                                                             *)

\* Besides the types: the attempts of an upload never reach the bound while
\* the run goes on.
TypeOK ==
    /\ main \in Manifest /\ prev \in Manifest /\ commits \in 0 .. MaxCommits
    /\ \A r \in Run :
        /\ job[r].pc \in Publishing
               \cup {"idle", "test", "bumped", "acceptance", "done", "failed"}
        /\ job[r].at \in Manifest /\ job[r].base \in Manifest
        /\ job[r].asked \subseteq Module /\ job[r].bumped \subseteq Module
        /\ job[r].attempt \in 0 .. MaxAttempts - 1
        /\ Is(r, "upload") = (job[r].todo # {})
    /\ told \subseteq [by : Run, module : Module, version : Nat]
    /\ green \subseteq Run
    /\ accepted \in [Module -> SUBSET Nat]
    /\ spoiled \in BOOLEAN

\* "Publishing is gated on go test": whatever an index lists was built by a run,
\* or from the same source as a run, whose unit tests have passed.  And one
\* failed suite holds back the whole run: a run that publishes has seen the
\* suite of every module it takes for bumped pass.
TestsGateEveryRelease ==
    /\ \A m \in Module : \A rel \in index[m] :
           rel = First[m] \/ \E r \in green : job[r].at[m] = rel
    /\ \A r \in Run : job[r].pc \in Publishing =>
           \A m \in job[r].bumped : job[r].at[m].version \in accepted[m]

\* Publishing is append-only: as long as no download fails and no two runs
\* publish at once, an index loses no release and never lists a version twice.
AppendOnly ==
    [][~spoiled' =>
        \A m \in Module :
            /\ index[m] \subseteq index'[m]
            /\ \A x, y \in index'[m] : x.version = y.version => x = y]_vars

\* The registry waits for the versions it is told: of the modules a run was
\* started for, it tells only what their indexes list.
ToldIsServed ==
    ~spoiled => \A t \in told : t.module \in Wanted(job[t.by]) =>
                    \E rel \in index[t.module] : rel.version = t.version

\* The comment of the workflow: no version publishes without its acceptance
\* suite.
NoVersionWithoutAcceptance ==
    \A m \in Module : \A rel \in index[m] : rel.version \in accepted[m]
=============================================================================
