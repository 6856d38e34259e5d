-------------------------- MODULE IncidentSecrets --------------------------
(***************************************************************************)
(* The Secrets that hold restart diagnostics, one per pod: two workers     *)
(* store incidents and clean up, a migration consolidates the Secrets of   *)
(* earlier releases beside them.  Every call to the API server is a step   *)
(* of its own and may fail; a write may take effect and still be reported  *)
(* as failed.                                                              *)
(***************************************************************************)
EXTENDS Naturals, FiniteSets, Sequences, FiniteSetsExt

CONSTANTS
    Names,          \* pod names; restartDiagnosticSecretName is the pod's name here
    LegacyNames,    \* names of Secrets earlier releases wrote
    Workers,
    Migration,      \* the process that migrates
    Attempts,       \* captures tried for an incident
    Found,          \* what the Secrets may hold at the start, a set of functions
    MaxUid,         \* bound on the pods that bear a name in turn
    MaxTime,        \* bound on the times of incidents
    MaxReports,     \* bound on the incidents reported
    MaxFaults,      \* bound on pods deleted or replaced and restarts of BeaverDeck
    NoSecret, NoJob

ASSUME IncidentSecretsAssumption ==
    /\ Names \cap LegacyNames = {}
    /\ Migration \notin Workers
    /\ Attempts \in Nat \ {0}
    /\ MaxUid \in Nat \ {0}
    /\ MaxTime \in Nat
    /\ MaxReports \in Nat
    /\ MaxFaults \in Nat

SecretNames == Names \cup LegacyNames
Processes   == Workers \cup {Migration}

\* A snapshot is what tells it from others: the pod it is of and its time.
Snapshot == [name : Names, uid : 1..MaxUid, time : 1..MaxTime]

\* What an earlier process left: a Secret named for a pod is of that pod.
ASSUME FoundAssumption ==
    /\ NoSecret \notin Snapshot
    /\ NoJob \notin Snapshot
    /\ \A found \in Found :
           /\ found \in [SecretNames -> Snapshot \cup {NoSecret}]
           /\ \A n \in Names : found[n] # NoSecret => found[n].name = n

VARIABLES
    live,       \* the UID of the pod that bears a name, 0: none
    uids,       \* UIDs given to each name so far
    reports,    \* incidents reported so far, those of earlier times included
    queue,      \* incidents waiting for a worker
    secrets,
    step,       \* where each process is
    job,        \* the snapshot it stores
    attempt,    \* how often it failed to
    fresh,      \* nothing wrote the Secret since the process read it
    seenPods,   \* the pods it listed
    targets,    \* Secrets it is about to delete
    todo,       \* snapshots the migration has yet to store
    recorded,   \* snapshots a process was told are stored (history)
    overlooked, \* names whose pod was born between a clean-up's two lists (history)
    late,       \* names of which an incident was reported that is older than a
                \* Secret of an earlier release (history)
    faults      \* pods deleted or replaced and restarts so far

vars == <<live, uids, reports, queue, secrets, step, job, attempt, fresh, seenPods,
          targets, todo, recorded, overlooked, late, faults>>

worldVars == <<live, uids, reports, overlooked, late, faults>>

Steps == {"idle", "list", "get", "create", "update", "cleanPod", "deletePod",
          "listPods", "listSecrets", "deleteOthers"}

TypeOK ==
    /\ live \in [Names -> 0..MaxUid]
    /\ uids \in [Names -> 0..MaxUid]
    /\ reports \in 0..MaxReports
    /\ queue \in Seq(Snapshot)
    /\ secrets \in [SecretNames -> Snapshot \cup {NoSecret}]
    /\ step \in [Processes -> Steps]
    /\ job \in [Processes -> Snapshot \cup {NoJob}]
    /\ attempt \in [Processes -> 0..(Attempts - 1)]
    /\ fresh \in [Processes -> BOOLEAN]
    /\ seenPods \in [Processes -> [Names -> 0..MaxUid]]
    /\ targets \in [Processes -> SUBSET SecretNames]
    /\ todo \subseteq Snapshot
    /\ recorded \subseteq Snapshot
    /\ overlooked \subseteq Names
    /\ late \subseteq Names
    /\ faults \in 0..MaxFaults
    /\ \A n \in Names : secrets[n] # NoSecret => secrets[n].name = n
    /\ \A p \in Processes : (job[p] = NoJob) <=> (step[p] \in {"idle", "list"})

NoPods == [n \in Names |-> 0]

\* A process begins to store s, or is done.
Begin(p, s) ==
    /\ job' = [job EXCEPT ![p] = s]
    /\ step' = [step EXCEPT ![p] = "get"]

Rest(p) ==
    /\ job' = [job EXCEPT ![p] = NoJob]
    /\ step' = [step EXCEPT ![p] = "idle"]
    /\ attempt' = [attempt EXCEPT ![p] = 0]

GoTo(p, s) == step' = [step EXCEPT ![p] = s]

\* Writing or deleting the Secrets of a set outdates what others read of them.
Outdate(names) ==
    fresh' = [p \in Processes |->
                fresh[p] /\ (job[p] = NoJob \/ job[p].name \notin names)]

Init ==
    /\ uids \in [Names -> 0..1]
    /\ live \in [Names -> 0..1]
    /\ \A n \in Names : live[n] <= uids[n]
    /\ secrets \in Found
    /\ \A n \in SecretNames : secrets[n] # NoSecret => secrets[n].uid <= uids[secrets[n].name]
    /\ reports \in 0..MaxReports
    /\ queue = <<>>
    /\ \E s \in {"list", "idle"} :
           step = [p \in Processes |-> IF p = Migration THEN s ELSE "idle"]
    /\ job = [p \in Processes |-> NoJob]
    /\ attempt = [p \in Processes |-> 0]
    /\ fresh = [p \in Processes |-> FALSE]
    /\ seenPods = [p \in Processes |-> NoPods]
    /\ targets = [p \in Processes |-> {}]
    /\ todo = {}
    /\ recorded = {}
    /\ overlooked = {}
    /\ late = {}
    /\ faults = 0

-----------------------------------------------------------------------------
(* The cluster, and the watch that reports from it.                        *)

\* A pod is born, the first of its name or the successor of another.
PodReplaced(n) ==
    /\ uids[n] < MaxUid
    /\ faults < MaxFaults
    /\ faults' = faults + 1
    /\ uids' = [uids EXCEPT ![n] = @ + 1]
    /\ live' = [live EXCEPT ![n] = uids[n] + 1]
    /\ overlooked' = overlooked \cup {m \in {n} : \E p \in Processes : step[p] = "listSecrets"}
    /\ UNCHANGED <<reports, queue, secrets, step, job, attempt, fresh, seenPods, targets,
                   todo, recorded, late>>

PodDeleted(n) ==
    /\ live[n] # 0
    /\ faults < MaxFaults
    /\ faults' = faults + 1
    /\ live' = [live EXCEPT ![n] = 0]
    /\ UNCHANGED <<uids, reports, queue, secrets, step, job, attempt, fresh, seenPods,
                   targets, todo, recorded, overlooked, late>>

\* A container of a pod restarted, or the pod was evicted; the report may come when
\* the pod is gone.  Its time is that of the container's termination by the clock of
\* the node, which reports need not follow.
Incident(n) ==
    /\ reports < MaxReports
    /\ reports' = reports + 1
    /\ \E u \in 1..uids[n], t \in 1..MaxTime :
           /\ queue' = Append(queue, [name |-> n, uid |-> u, time |-> t])
           /\ late' = late \cup {m \in {n} : \E k \in LegacyNames :
                  secrets[k] # NoSecret /\ secrets[k].name = n /\ secrets[k].time > t}
    /\ UNCHANGED <<live, uids, secrets, step, job, attempt, fresh, seenPods, targets,
                   todo, recorded, overlooked, faults>>

\* BeaverDeck restarts: what it held in memory is gone, the migration runs again.
Restart ==
    /\ faults < MaxFaults
    /\ faults' = faults + 1
    /\ queue' = <<>>
    /\ step' = [p \in Processes |-> IF p = Migration THEN "list" ELSE "idle"]
    /\ job' = [p \in Processes |-> NoJob]
    /\ attempt' = [p \in Processes |-> 0]
    /\ fresh' = [p \in Processes |-> FALSE]
    /\ seenPods' = [p \in Processes |-> NoPods]
    /\ targets' = [p \in Processes |-> {}]
    /\ todo' = {}
    /\ UNCHANGED <<live, uids, reports, secrets, recorded, overlooked, late>>

-----------------------------------------------------------------------------
(* Where the work comes from.                                              *)

\* worker: the next incident.
Take(w) ==
    /\ w \in Workers
    /\ step[w] = "idle"
    /\ queue # <<>>
    /\ queue' = Tail(queue)
    /\ Begin(w, Head(queue))
    /\ UNCHANGED <<worldVars, secrets, attempt, fresh, seenPods, targets, todo, recorded>>

Existing == {n \in SecretNames : secrets[n] # NoSecret}

\* A mistaken Newest: the comparison is the wrong way round.
Oldest(names) ==
    {secrets[n] : n \in {m \in names :
        \A k \in names : secrets[k].name = secrets[m].name => secrets[k].time >= secrets[m].time}}

\* The newest snapshot of each pod.
Newest(names) ==
    {secrets[n] : n \in {m \in names :
        \A k \in names : secrets[k].name = secrets[m].name => secrets[k].time <= secrets[m].time}}

\* migrateRestartDiagnosticSecrets lists the Secrets, then stores one by one.
ListForMigration ==
    /\ step[Migration] = "list"
    /\ todo' = Newest(Existing)
    /\ GoTo(Migration, "idle")
    /\ UNCHANGED <<worldVars, queue, secrets, job, attempt, fresh, seenPods, targets, recorded>>

MigrateNext ==
    /\ step[Migration] = "idle"
    /\ \E s \in todo : Begin(Migration, s) /\ todo' = todo \ {s}
    /\ UNCHANGED <<worldVars, queue, secrets, attempt, fresh, seenPods, targets, recorded>>

-----------------------------------------------------------------------------
(* upsertRestartDiagnosticSnapshot.                                        *)

Outdated(current, s) == current.uid = s.uid /\ current.time > s.time

\* Mistaken Gets: an older snapshot replaces a newer one, or ends the upsert
\* without its clean-up.
GetOverwriting(p) ==
    /\ step[p] = "get"
    /\ LET current == secrets[job[p].name]
       IN  IF current = NoSecret THEN GoTo(p, "create") ELSE GoTo(p, "update")
    /\ fresh' = [fresh EXCEPT ![p] = TRUE]
    /\ UNCHANGED <<worldVars, queue, secrets, job, attempt, seenPods, targets, todo, recorded>>

GetSkippingCleanup(p) ==
    /\ step[p] = "get"
    /\ LET current == secrets[job[p].name]
       IN  \/ current = NoSecret /\ GoTo(p, "create") /\ UNCHANGED recorded
           \/ /\ current # NoSecret
              /\ ~Outdated(current, job[p])
              /\ GoTo(p, "update")
              /\ UNCHANGED recorded
           \/ /\ current # NoSecret
              /\ Outdated(current, job[p])
              /\ GoTo(p, "listPods")
              /\ recorded' = recorded \cup {job[p]}
    /\ fresh' = [fresh EXCEPT ![p] = TRUE]
    /\ UNCHANGED <<worldVars, queue, secrets, job, attempt, seenPods, targets, todo>>

\* A newer snapshot of the same pod stays.
Get(p) ==
    /\ step[p] = "get"
    /\ LET current == secrets[job[p].name]
       IN  \/ current = NoSecret /\ GoTo(p, "create") /\ UNCHANGED recorded
           \/ /\ current # NoSecret
              /\ ~Outdated(current, job[p])
              /\ GoTo(p, "update")
              /\ UNCHANGED recorded
           \/ /\ current # NoSecret
              /\ Outdated(current, job[p])
              /\ GoTo(p, "cleanPod")
              /\ recorded' = recorded \cup {job[p]}
    /\ fresh' = [fresh EXCEPT ![p] = TRUE]
    /\ UNCHANGED <<worldVars, queue, secrets, job, attempt, seenPods, targets, todo>>

\* A mistaken Failed: attempts without end.
FailedForEver(p) ==
    /\ IF p \in Workers
       THEN GoTo(p, "get") /\ UNCHANGED <<job, attempt>>
       ELSE Rest(p)
    /\ targets' = [targets EXCEPT ![p] = {}]
    /\ seenPods' = [seenPods EXCEPT ![p] = NoPods]
    /\ todo' = IF p = Migration THEN {} ELSE todo

\* What follows a failed call: the worker captures the incident again, a number
\* of times; the migration gives up altogether.
Failed(p) ==
    /\ IF p \in Workers /\ attempt[p] + 1 < Attempts
       THEN /\ GoTo(p, "get")
            /\ attempt' = [attempt EXCEPT ![p] = @ + 1]
            /\ UNCHANGED job
       ELSE Rest(p)
    /\ targets' = [targets EXCEPT ![p] = {}]
    /\ seenPods' = [seenPods EXCEPT ![p] = NoPods]
    /\ todo' = IF p = Migration THEN {} ELSE todo

\* The API server accepts a write of job[p]; its answer may get lost.
Write(p) ==
    /\ secrets' = [secrets EXCEPT ![job[p].name] = job[p]]
    /\ Outdate({job[p].name})
    /\ \/ /\ GoTo(p, "cleanPod")
          /\ recorded' = recorded \cup {job[p]}
          /\ UNCHANGED <<job, attempt, targets, seenPods, todo>>
       \/ Failed(p) /\ UNCHANGED recorded
    /\ UNCHANGED <<worldVars, queue>>

Create(p) ==
    /\ step[p] = "create"
    /\ secrets[job[p].name] = NoSecret
    /\ Write(p)

\* The API server refuses an outdated resource version.
Update(p) ==
    /\ step[p] = "update"
    /\ fresh[p]
    /\ Write(p)

\* Any call may fail: the API server is away, the Secret exists by now, or
\* changed since it was read.
Fail(p) ==
    /\ step[p] # "idle"
    /\ Failed(p)
    /\ UNCHANGED <<worldVars, queue, secrets, fresh, recorded>>

-----------------------------------------------------------------------------
(* cleanupRestartDiagnosticSecretsForPod.                                  *)

ListOfPod(p) ==
    /\ step[p] = "cleanPod"
    /\ targets' = [targets EXCEPT ![p] =
            {n \in Existing \ {job[p].name} : secrets[n].name = job[p].name}]
    /\ GoTo(p, "deletePod")
    /\ UNCHANGED <<worldVars, queue, secrets, job, attempt, fresh, seenPods, todo, recorded>>

\* cleanupIrrelevantRestartDiagnosticSecrets: the pods first, the Secrets next.
ListPods(p) ==
    /\ step[p] = "listPods"
    /\ seenPods' = [seenPods EXCEPT ![p] = live]
    /\ GoTo(p, "listSecrets")
    /\ UNCHANGED <<worldVars, queue, secrets, job, attempt, fresh, targets, todo, recorded>>

\* A mistaken Irrelevant: the Secrets of all other pods.
IrrelevantOthers(p) ==
    {n \in Existing : secrets[n].name # job[p].name}

\* Of pods that were not there, or bore the name before; every snapshot records
\* the UID of its pod.
Irrelevant(p) ==
    {n \in Existing \ {job[p].name} : seenPods[p][secrets[n].name] # secrets[n].uid}

ListSecrets(p) ==
    /\ step[p] = "listSecrets"
    /\ targets' = [targets EXCEPT ![p] = Irrelevant(p)]
    /\ seenPods' = [seenPods EXCEPT ![p] = NoPods]
    /\ GoTo(p, "deleteOthers")
    /\ UNCHANGED <<worldVars, queue, secrets, job, attempt, fresh, todo, recorded>>

\* Whatever the Secret holds by now; one that is gone already will do.
Delete(p) ==
    /\ step[p] \in {"deletePod", "deleteOthers"}
    /\ \E n \in targets[p] :
           /\ secrets' = [secrets EXCEPT ![n] = NoSecret]
           /\ targets' = [targets EXCEPT ![p] = @ \ {n}]
           /\ Outdate({n})
    /\ UNCHANGED <<worldVars, queue, step, job, attempt, seenPods, todo, recorded>>

Deleted(p) ==
    /\ step[p] \in {"deletePod", "deleteOthers"}
    /\ targets[p] = {}
    /\ IF step[p] = "deletePod" /\ p \in Workers
       THEN GoTo(p, "listPods") /\ UNCHANGED <<job, attempt>>
       ELSE Rest(p)
    /\ UNCHANGED <<worldVars, queue, secrets, fresh, seenPods, targets, todo, recorded>>

-----------------------------------------------------------------------------
Work(p) ==
    \/ Take(p) \/ Get(p) \/ Create(p) \/ Update(p) \/ Fail(p)
    \/ ListOfPod(p) \/ ListPods(p) \/ ListSecrets(p) \/ Delete(p) \/ Deleted(p)

Next ==
    \/ \E n \in Names : PodReplaced(n) \/ PodDeleted(n) \/ Incident(n)
    \/ Restart
    \/ ListForMigration
    \/ MigrateNext
    \/ \E p \in Processes : Work(p)

Spec == Init /\ [][Next]_vars

\* Of one worker the calls to the API server return, with or without success.
\* Those of the others, which have no deadline, may not.
Fairness == \E w \in Workers : WF_vars(Work(w))

-----------------------------------------------------------------------------
(* Properties.                                                             *)

TimesOf(n) == {secrets[m].time : m \in {k \in Existing : secrets[k].name = n}}
RecordedTimes(n, u) == {s.time : s \in {r \in recorded : r.name = n /\ r.uid = u}}

\* However workers and migration overlap, the Secret of a pod never goes back to
\* an older incident of the same pod: the resource version guards the time
\* between the look at the incident time and the update.
SamePodForward ==
    [][\A n \in Names :
          /\ secrets[n] # NoSecret
          /\ secrets'[n] # NoSecret
          /\ secrets'[n].uid = secrets[n].uid
          => secrets'[n].time >= secrets[n].time]_vars

\* Once a process stored a pod's incident and cleaned up, the Secrets of earlier
\* releases for the pod are gone, also when its own incident was not the newest.
Consolidated ==
    \A p \in Processes :
        step[p] \in {"listPods", "listSecrets", "deleteOthers"} =>
            \A n \in LegacyNames : secrets[n] # NoSecret => secrets[n].name # job[p].name

\* The pod lives, bears its name as the first, and was not born while a clean-up
\* held a list of pods without it.
First(n) == live[n] # 0 /\ uids[n] = 1 /\ n \notin overlooked

\* The newest incident of such a pod stays readable through every update, migration
\* and clean-up, unless one older than a Secret of an earlier release was reported.
newest  == [n \in Names |-> Max({0} \cup TimesOf(n))]
stage   == [n \in Names |-> IF uids[n] = 0 THEN "awaited"
                            ELSE IF First(n) /\ n \notin late THEN "kept" ELSE "free"]
Promise == INSTANCE LatestIncident
KeepsNewest == Promise!Spec

\* An incident reported as stored is there, or a newer one of its pod is, in whatever
\* order the incidents are reported.  A late capture of a pod that bore the name
\* before may take its successor's place, and a clean-up with an old list of pods
\* may delete it: hence First.
RecordedStays ==
    \A n \in Names :
        First(n) /\ RecordedTimes(n, live[n]) # {}
        => /\ secrets[n] # NoSecret
           /\ secrets[n].time >= Max(RecordedTimes(n, live[n]))

\* A worker that waits for an answer for ever keeps no other from its work, and one
\* that is answered comes to an end with each incident, however many of its calls fail
\* (the attempts of the worker loop): the queue empties.
QueueDrains == queue # <<>> ~> queue = <<>>

Quiet ==
    /\ queue = <<>>
    /\ todo = {}
    /\ \A p \in Processes : step[p] = "idle"

\* README.md: BeaverDeck "overwrites one versioned Kubernetes Secret per pod with
\* the latest snapshot".  At rest, the Secret of a pod's name does not hold an
\* incident of a pod that bore the name before, older than one stored of its
\* successor.
LatestSnapshotKept ==
    Quiet =>
        \A n \in Names, r \in recorded :
            secrets[n] # NoSecret /\ r.name = n /\ secrets[n].uid < r.uid
                => secrets[n].time >= r.time
=============================================================================
