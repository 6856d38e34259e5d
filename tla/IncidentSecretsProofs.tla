----------------------- MODULE IncidentSecretsProofs -----------------------
(***************************************************************************)
(* Theorems about IncidentSecrets, for every set of pod names, Secrets of  *)
(* earlier releases and workers, and whatever an earlier process left.     *)
(***************************************************************************)
EXTENDS IncidentSecrets, WellFoundedInduction, TLAPS

Typed == TypeOK /\ \A w \in Workers : step[w] # "list"

\* A process whose update the API server would accept read a Secret that is not
\* newer than what it stores.
Guarded ==
    \A p \in Processes : step[p] = "update" /\ fresh[p] =>
        secrets[job[p].name] # NoSecret /\ ~Outdated(secrets[job[p].name], job[p])

LEMMA ConstantFacts ==
    /\ Names \subseteq SecretNames
    /\ Migration \in Processes /\ Migration \notin Workers /\ Workers \subseteq Processes
    /\ MaxUid \in Nat \ {0} /\ MaxTime \in Nat /\ MaxFaults \in Nat /\ MaxReports \in Nat /\ Attempts \in Nat \ {0}
    /\ NoPods \in [Names -> 0..MaxUid]
BY IncidentSecretsAssumption DEF IncidentSecretsAssumption, SecretNames, Processes, NoPods

\* A process at work has something to store, and stores it under its pod's name.
LEMMA JobFacts ==
    ASSUME Typed, NEW p \in Processes, step[p] \notin {"idle", "list"}
    PROVE  job[p] \in Snapshot /\ job[p].name \in Names /\ job[p].name \in SecretNames
           /\ job[p] # NoJob /\ job[p].time \in Nat
BY ConstantFacts DEF Typed, TypeOK, Snapshot

LEMMA MoveType ==
    ASSUME Typed, NEW p \in Processes, NEW s, GoTo(p, s),
           s \in Steps \ {"idle", "list"}, step[p] \notin {"idle", "list"}, job' = job
    PROVE  /\ step' \in [Processes -> Steps]
           /\ \A q \in Processes : (job'[q] = NoJob) <=> (step'[q] \in {"idle", "list"})
           /\ \A w \in Workers : step'[w] # "list"
BY ConstantFacts DEF Typed, TypeOK, GoTo

LEMMA RestType ==
    ASSUME Typed, NEW p \in Processes, Rest(p)
    PROVE  /\ step' \in [Processes -> Steps]
           /\ job' \in [Processes -> Snapshot \cup {NoJob}]
           /\ attempt' \in [Processes -> 0..(Attempts - 1)]
           /\ \A q \in Processes : (job'[q] = NoJob) <=> (step'[q] \in {"idle", "list"})
           /\ \A w \in Workers : step'[w] # "list"
<1>1. 0 \in 0..(Attempts - 1)
  BY ConstantFacts
<1>2. "idle" \in Steps
  BY DEF Steps
<1>3. step' \in [Processes -> Steps] /\ job' \in [Processes -> Snapshot \cup {NoJob}]
  BY <1>2 DEF Typed, TypeOK, Rest
<1>4. attempt' \in [Processes -> 0..(Attempts - 1)]
  BY <1>1 DEF Typed, TypeOK, Rest
<1>5. \A q \in Processes : /\ job'[q] = IF q = p THEN NoJob ELSE job[q]
                           /\ step'[q] = IF q = p THEN "idle" ELSE step[q]
  BY DEF Typed, TypeOK, Rest
<1>6. \A q \in Processes : (job'[q] = NoJob) <=> (step'[q] \in {"idle", "list"})
  BY <1>5 DEF Typed, TypeOK
<1>7. \A w \in Workers : step'[w] # "list"
  BY <1>5, ConstantFacts DEF Typed
<1> QED
  BY <1>3, <1>4, <1>6, <1>7

LEMMA FailedType ==
    ASSUME Typed, NEW p \in Processes, step[p] # "idle", Failed(p)
    PROVE  /\ step' \in [Processes -> Steps]
           /\ job' \in [Processes -> Snapshot \cup {NoJob}]
           /\ attempt' \in [Processes -> 0..(Attempts - 1)]
           /\ targets' \in [Processes -> SUBSET SecretNames]
           /\ seenPods' \in [Processes -> [Names -> 0..MaxUid]]
           /\ todo' \subseteq Snapshot
           /\ \A q \in Processes : (job'[q] = NoJob) <=> (step'[q] \in {"idle", "list"})
           /\ \A w \in Workers : step'[w] # "list"
           /\ \A q \in Processes : step'[q] = "update" => q # p /\ step[q] = "update" /\ job'[q] = job[q]
<1>1. targets' \in [Processes -> SUBSET SecretNames] /\ todo' \subseteq Snapshot
  BY DEF Typed, TypeOK, Failed
<1>2. seenPods' \in [Processes -> [Names -> 0..MaxUid]]
  BY ConstantFacts DEF Typed, TypeOK, Failed
<1>3. CASE p \in Workers /\ attempt[p] + 1 < Attempts
  <2>1. GoTo(p, "get") /\ attempt' = [attempt EXCEPT ![p] = @ + 1] /\ job' = job
    BY <1>3 DEF Failed
  <2>2. attempt[p] + 1 \in 0..(Attempts - 1)
    BY <1>3, ConstantFacts DEF Typed, TypeOK
  <2>3. attempt' \in [Processes -> 0..(Attempts - 1)]
    BY <2>1, <2>2 DEF Typed, TypeOK
  <2>4. step[p] \notin {"idle", "list"}
    BY <1>3 DEF Typed
  <2>5. /\ step' \in [Processes -> Steps]
        /\ \A q \in Processes : (job'[q] = NoJob) <=> (step'[q] \in {"idle", "list"})
        /\ \A w \in Workers : step'[w] # "list"
    BY <2>1, <2>4, MoveType DEF Steps
  <2>6. \A q \in Processes : step'[q] = "update" => q # p /\ step[q] = "update" /\ job'[q] = job[q]
    BY <2>1 DEF GoTo, Typed, TypeOK
  <2> QED
    BY <1>1, <1>2, <2>1, <2>3, <2>5, <2>6 DEF Typed, TypeOK
<1>4. CASE ~(p \in Workers /\ attempt[p] + 1 < Attempts)
  <2>1. Rest(p)
    BY <1>4 DEF Failed
  <2>2. \A q \in Processes : step'[q] = "update" => q # p /\ step[q] = "update" /\ job'[q] = job[q]
    BY <2>1 DEF Rest, Typed, TypeOK
  <2> QED
    BY <1>1, <1>2, <2>1, <2>2, RestType
<1> QED
  BY <1>3, <1>4

LEMMA OutdateType ==
    ASSUME NEW names, Outdate(names), fresh \in [Processes -> BOOLEAN]
    PROVE  /\ fresh' \in [Processes -> BOOLEAN]
           /\ \A p \in Processes : fresh'[p] => fresh[p] /\ (job[p] = NoJob \/ job[p].name \notin names)
BY DEF Outdate

IInv == Typed /\ Guarded

\* Steps that leave the Secrets, and who may update them, as they are.
LEMMA GuardKept ==
    ASSUME Typed, Guarded, secrets' = secrets,
           \A p \in Processes : step'[p] = "update" /\ fresh'[p] =>
               step[p] = "update" /\ fresh[p] /\ job'[p] = job[p]
    PROVE  Guarded'
BY DEF Guarded, Outdated

-----------------------------------------------------------------------------
(* The cluster.                                                            *)

LEMMA WorldInductive ==
    ASSUME IInv, NEW n \in Names, PodReplaced(n) \/ PodDeleted(n) \/ Incident(n)
    PROVE  IInv'
<1>1. /\ UNCHANGED <<secrets, step, job, attempt, fresh, seenPods, targets, todo, recorded>>
      /\ faults' = faults \/ (faults' = faults + 1 /\ faults < MaxFaults)
  BY DEF PodReplaced, PodDeleted, Incident
<1>2. Guarded'
  BY <1>1, GuardKept DEF IInv
<1>3. live' \in [Names -> 0..MaxUid] /\ uids' \in [Names -> 0..MaxUid]
  <2>1. uids[n] \in 0..MaxUid /\ (uids[n] < MaxUid => uids[n] + 1 \in 0..MaxUid) /\ 0 \in 0..MaxUid
    BY ConstantFacts DEF IInv, Typed, TypeOK
  <2>2. CASE PodReplaced(n)
    BY <2>1, <2>2 DEF IInv, Typed, TypeOK, PodReplaced
  <2>3. CASE PodDeleted(n)
    BY <2>1, <2>3 DEF IInv, Typed, TypeOK, PodDeleted
  <2>4. CASE Incident(n)
    BY <2>4 DEF IInv, Typed, TypeOK, Incident
  <2> QED
    BY <2>2, <2>3, <2>4
<1>4. reports' \in 0..MaxReports /\ queue' \in Seq(Snapshot)
  <2>1. CASE Incident(n)
    <3>1. PICK u \in 1..uids[n], t \in 1..MaxTime :
              queue' = Append(queue, [name |-> n, uid |-> u, time |-> t])
      BY <2>1 DEF Incident
    <3>2. u \in 1..MaxUid
      BY <3>1, ConstantFacts DEF IInv, Typed, TypeOK
    <3>3. [name |-> n, uid |-> u, time |-> t] \in Snapshot
      BY <3>2 DEF Snapshot
    <3>4. queue' \in Seq(Snapshot)
      BY <3>1, <3>3 DEF IInv, Typed, TypeOK
    <3>5. reports' \in 0..MaxReports
      BY <2>1, ConstantFacts DEF Incident, IInv, Typed, TypeOK
    <3> QED
      BY <3>4, <3>5
  <2>2. CASE PodReplaced(n) \/ PodDeleted(n)
    BY <2>2 DEF PodReplaced, PodDeleted, IInv, Typed, TypeOK
  <2> QED
    BY <2>1, <2>2
<1>5. faults' \in 0..MaxFaults
  BY <1>1, ConstantFacts DEF IInv, Typed, TypeOK
<1>6. overlooked' \subseteq Names /\ late' \subseteq Names
  <2>1. overlooked' \subseteq overlooked \cup {n} /\ late' \subseteq late \cup {n}
    BY DEF PodReplaced, PodDeleted, Incident
  <2> QED
    BY <2>1 DEF IInv, Typed, TypeOK
<1>7. Typed'
  BY <1>1, <1>3, <1>4, <1>5, <1>6 DEF IInv, Typed, TypeOK
<1> QED
  BY <1>2, <1>7 DEF IInv

LEMMA RestartInductive == IInv /\ Restart => IInv'
<1> SUFFICES ASSUME IInv, Restart PROVE IInv'
  OBVIOUS
<1>1. /\ step' = [p \in Processes |-> IF p = Migration THEN "list" ELSE "idle"]
      /\ job' = [p \in Processes |-> NoJob]
      /\ attempt' = [p \in Processes |-> 0]
      /\ fresh' = [p \in Processes |-> FALSE]
      /\ seenPods' = [p \in Processes |-> NoPods]
      /\ targets' = [p \in Processes |-> {}]
      /\ todo' = {} /\ queue' = <<>> /\ faults' = faults + 1 /\ faults < MaxFaults
      /\ UNCHANGED <<live, uids, reports, secrets, recorded, overlooked, late>>
  BY DEF Restart
<1>2. 0 \in 0..(Attempts - 1) /\ faults' \in 0..MaxFaults /\ queue' \in Seq(Snapshot)
  BY <1>1, ConstantFacts DEF IInv, Typed, TypeOK
<1>3. step' \in [Processes -> Steps]
  BY <1>1 DEF Steps
<1>4. \A p \in Processes : job'[p] = NoJob /\ step'[p] \in {"idle", "list"}
  BY <1>1
<1>5. \A w \in Workers : step'[w] # "list"
  BY <1>1, ConstantFacts
<1>6. Typed'
  BY <1>1, <1>2, <1>3, <1>4, <1>5, ConstantFacts DEF IInv, Typed, TypeOK
<1>7. Guarded'
  BY <1>1 DEF Guarded
<1> QED
  BY <1>6, <1>7 DEF IInv

-----------------------------------------------------------------------------
(* Where the work comes from.                                              *)

LEMMA BeginType ==
    ASSUME IInv, NEW p \in Processes, NEW s \in Snapshot, Begin(p, s),
           UNCHANGED <<secrets, fresh>>
    PROVE  /\ step' \in [Processes -> Steps]
           /\ job' \in [Processes -> Snapshot \cup {NoJob}]
           /\ \A q \in Processes : (job'[q] = NoJob) <=> (step'[q] \in {"idle", "list"})
           /\ \A w \in Workers : step'[w] # "list"
           /\ Guarded'
<1>1. s # NoJob
  BY FoundAssumption DEF FoundAssumption
<1>2. "get" \in Steps
  BY DEF Steps
<1>3. step' \in [Processes -> Steps] /\ job' \in [Processes -> Snapshot \cup {NoJob}]
  BY <1>2 DEF Begin, IInv, Typed, TypeOK
<1>4. \A q \in Processes : /\ job'[q] = IF q = p THEN s ELSE job[q]
                           /\ step'[q] = IF q = p THEN "get" ELSE step[q]
  BY DEF Begin, IInv, Typed, TypeOK
<1>5. \A q \in Processes : (job'[q] = NoJob) <=> (step'[q] \in {"idle", "list"})
  BY <1>1, <1>4 DEF IInv, Typed, TypeOK
<1>6. \A w \in Workers : step'[w] # "list"
  BY <1>4, ConstantFacts DEF IInv, Typed
<1>7. Guarded'
  BY <1>4, GuardKept DEF IInv
<1> QED
  BY <1>3, <1>5, <1>6, <1>7

LEMMA TakeInductive ==
    ASSUME IInv, NEW w \in Processes, Take(w)
    PROVE  IInv'
<1>1. queue \in Seq(Snapshot) /\ queue # <<>>
  BY DEF IInv, Typed, TypeOK, Take
<1>2. Head(queue) \in Snapshot /\ queue' \in Seq(Snapshot)
  BY <1>1 DEF Take
<1> QED
  BY <1>2, BeginType DEF IInv, Typed, TypeOK, Take, worldVars

LEMMA ListForMigrationInductive == IInv /\ ListForMigration => IInv'
<1> SUFFICES ASSUME IInv, ListForMigration PROVE IInv'
  OBVIOUS
<1>1. Newest(Existing) \subseteq Snapshot
  BY DEF Newest, Existing, IInv, Typed, TypeOK
<1>2. \A q \in Processes : step'[q] = IF q = Migration THEN "idle" ELSE step[q]
  BY DEF ListForMigration, GoTo, IInv, Typed, TypeOK
<1>3. step' \in [Processes -> Steps]
  BY DEF ListForMigration, GoTo, IInv, Typed, TypeOK, Steps
<1>4. \A q \in Processes : (job[q] = NoJob) <=> (step'[q] \in {"idle", "list"})
  BY <1>2, ConstantFacts DEF ListForMigration, IInv, Typed, TypeOK
<1>5. \A w \in Workers : step'[w] # "list"
  BY <1>2, ConstantFacts DEF IInv, Typed
<1>6. Guarded'
  BY <1>2, GuardKept DEF ListForMigration, IInv
<1>7. Typed'
  BY <1>1, <1>3, <1>4, <1>5 DEF ListForMigration, IInv, Typed, TypeOK, worldVars
<1> QED
  BY <1>6, <1>7 DEF IInv

LEMMA MigrateNextInductive == IInv /\ MigrateNext => IInv'
<1> SUFFICES ASSUME IInv, MigrateNext PROVE IInv'
  OBVIOUS
<1>1. PICK s \in todo : Begin(Migration, s) /\ todo' = todo \ {s}
  BY DEF MigrateNext
<1>2. s \in Snapshot /\ todo' \subseteq Snapshot
  BY <1>1 DEF IInv, Typed, TypeOK
<1> QED
  BY <1>1, <1>2, BeginType, ConstantFacts DEF IInv, Typed, TypeOK, MigrateNext, worldVars

-----------------------------------------------------------------------------
(* Storing.                                                                *)

LEMMA GetInductive ==
    ASSUME IInv, NEW p \in Processes, Get(p)
    PROVE  IInv'
<1>1. /\ step[p] = "get" /\ fresh' = [fresh EXCEPT ![p] = TRUE]
      /\ UNCHANGED <<worldVars, queue, secrets, job, attempt, seenPods, targets, todo>>
  BY DEF Get
<1>2. job[p] \in Snapshot
  BY <1>1, JobFacts DEF IInv
<1>3. \E s \in {"create", "update", "cleanPod"} : GoTo(p, s)
  BY DEF Get
<1>4. /\ step' \in [Processes -> Steps]
      /\ \A q \in Processes : (job'[q] = NoJob) <=> (step'[q] \in {"idle", "list"})
      /\ \A w \in Workers : step'[w] # "list"
  BY <1>1, <1>3, MoveType DEF IInv, Steps
<1>5. fresh' \in [Processes -> BOOLEAN] /\ recorded' \subseteq Snapshot
  BY <1>1, <1>2 DEF IInv, Typed, TypeOK, Get
<1>6. Typed'
  BY <1>1, <1>4, <1>5 DEF IInv, Typed, TypeOK, worldVars
<1>7. step'[p] = "update" => secrets[job[p].name] # NoSecret /\ ~Outdated(secrets[job[p].name], job[p])
  BY <1>1 DEF Get, GoTo, IInv, Typed, TypeOK
<1>8. \A q \in Processes : q # p => step'[q] = step[q] /\ fresh'[q] = fresh[q]
  BY <1>1, <1>3 DEF GoTo, IInv, Typed, TypeOK
<1>9. Guarded'
  <2> SUFFICES ASSUME NEW q \in Processes, step'[q] = "update", fresh'[q]
               PROVE  secrets[job[q].name] # NoSecret /\ ~Outdated(secrets[job[q].name], job[q])
    BY <1>1 DEF Guarded, Outdated
  <2>1. CASE q = p
    BY <1>7, <2>1
  <2>2. CASE q # p
    BY <1>8, <2>2 DEF IInv, Guarded
  <2> QED
    BY <2>1, <2>2
<1> QED
  BY <1>6, <1>9 DEF IInv

LEMMA WriteInductive ==
    ASSUME IInv, NEW p \in Processes, step[p] \in {"create", "update"}, Write(p)
    PROVE  IInv'
<1>1. /\ job[p] \in Snapshot /\ job[p].name \in Names /\ job[p].name \in SecretNames
      /\ job[p] # NoJob
  BY JobFacts DEF IInv
<1>2. /\ secrets' = [secrets EXCEPT ![job[p].name] = job[p]]
      /\ Outdate({job[p].name}) /\ UNCHANGED <<worldVars, queue>>
  BY DEF Write
<1>3. /\ secrets' \in [SecretNames -> Snapshot \cup {NoSecret}]
      /\ \A n \in Names : secrets'[n] # NoSecret => secrets'[n].name = n
  <2>1. secrets' \in [SecretNames -> Snapshot \cup {NoSecret}]
    BY <1>1, <1>2 DEF IInv, Typed, TypeOK
  <2>2. \A n \in Names : secrets'[n] = IF n = job[p].name THEN job[p] ELSE secrets[n]
    BY <1>1, <1>2, ConstantFacts DEF IInv, Typed, TypeOK
  <2> QED
    BY <2>1, <2>2 DEF IInv, Typed, TypeOK
<1>4. /\ fresh' \in [Processes -> BOOLEAN]
      /\ \A q \in Processes : fresh'[q] => fresh[q] /\ (job[q] = NoJob \/ job[q].name \notin {job[p].name})
  BY <1>2, OutdateType DEF IInv, Typed, TypeOK
<1>5. /\ step' \in [Processes -> Steps]
      /\ job' \in [Processes -> Snapshot \cup {NoJob}]
      /\ attempt' \in [Processes -> 0..(Attempts - 1)]
      /\ targets' \in [Processes -> SUBSET SecretNames]
      /\ seenPods' \in [Processes -> [Names -> 0..MaxUid]]
      /\ todo' \subseteq Snapshot /\ recorded' \subseteq Snapshot
      /\ \A q \in Processes : (job'[q] = NoJob) <=> (step'[q] \in {"idle", "list"})
      /\ \A w \in Workers : step'[w] # "list"
      /\ \A q \in Processes : step'[q] = "update" => q # p /\ step[q] = "update" /\ job'[q] = job[q]
  <2>1. CASE GoTo(p, "cleanPod") /\ recorded' = recorded \cup {job[p]}
             /\ UNCHANGED <<job, attempt, targets, seenPods, todo>>
    <3>1. /\ step' \in [Processes -> Steps]
          /\ \A q \in Processes : (job'[q] = NoJob) <=> (step'[q] \in {"idle", "list"})
          /\ \A w \in Workers : step'[w] # "list"
      BY <2>1, MoveType DEF IInv, Steps
    <3>2. \A q \in Processes : step'[q] = "update" => q # p /\ step[q] = "update" /\ job'[q] = job[q]
      BY <2>1 DEF GoTo, IInv, Typed, TypeOK
    <3> QED
      BY <1>1, <2>1, <3>1, <3>2 DEF IInv, Typed, TypeOK
  <2>2. CASE Failed(p) /\ UNCHANGED recorded
    BY <2>2, FailedType DEF IInv, Typed, TypeOK
  <2> QED
    BY <2>1, <2>2 DEF Write
<1>6. Typed'
  BY <1>2, <1>3, <1>4, <1>5 DEF IInv, Typed, TypeOK, worldVars
<1>7. Guarded'
  <2> SUFFICES ASSUME NEW q \in Processes, step'[q] = "update", fresh'[q]
               PROVE  /\ secrets'[job'[q].name] # NoSecret
                      /\ ~Outdated(secrets'[job'[q].name], job'[q])
    BY DEF Guarded, Outdated
  <2>1. step[q] = "update" /\ job'[q] = job[q] /\ fresh[q]
        /\ (job[q] = NoJob \/ job[q].name # job[p].name)
    BY <1>4, <1>5
  <2>2. job[q] # NoJob /\ job[q].name \in SecretNames
    BY <2>1, JobFacts DEF IInv
  <2>3. secrets'[job[q].name] = secrets[job[q].name]
    BY <1>1, <1>2, <2>1, <2>2 DEF IInv, Typed, TypeOK
  <2> QED
    BY <2>1, <2>3 DEF IInv, Guarded
<1> QED
  BY <1>6, <1>7 DEF IInv

LEMMA FailInductive ==
    ASSUME IInv, NEW p \in Processes, Fail(p)
    PROVE  IInv'
<1>1. /\ step[p] # "idle" /\ Failed(p)
      /\ UNCHANGED <<worldVars, queue, secrets, fresh, recorded>>
  BY DEF Fail
<1>2. Typed'
  BY <1>1, FailedType DEF IInv, Typed, TypeOK, worldVars
<1>3. Guarded'
  BY <1>1, FailedType, GuardKept DEF IInv
<1> QED
  BY <1>2, <1>3 DEF IInv

-----------------------------------------------------------------------------
(* Cleaning up.                                                            *)

LEMMA ListInductive ==
    ASSUME IInv, NEW p \in Processes, ListOfPod(p) \/ ListPods(p) \/ ListSecrets(p)
    PROVE  IInv'
<1>1. /\ step[p] \notin {"idle", "list"}
      /\ \E s \in {"deletePod", "listSecrets", "deleteOthers"} : GoTo(p, s)
      /\ UNCHANGED <<worldVars, queue, secrets, job, attempt, fresh, todo, recorded>>
  BY DEF ListOfPod, ListPods, ListSecrets
<1>2. /\ step' \in [Processes -> Steps]
      /\ \A q \in Processes : (job'[q] = NoJob) <=> (step'[q] \in {"idle", "list"})
      /\ \A w \in Workers : step'[w] # "list"
  BY <1>1, MoveType DEF IInv, Steps
<1>3. targets' \in [Processes -> SUBSET SecretNames]
  BY DEF ListOfPod, ListPods, ListSecrets, Irrelevant, Existing, IInv, Typed, TypeOK
<1>4. seenPods' \in [Processes -> [Names -> 0..MaxUid]]
  BY ConstantFacts DEF ListOfPod, ListPods, ListSecrets, IInv, Typed, TypeOK
<1>5. Typed'
  BY <1>1, <1>2, <1>3, <1>4 DEF IInv, Typed, TypeOK, worldVars
<1>6. \A q \in Processes : step'[q] = "update" => step[q] = "update"
  BY <1>1 DEF GoTo, IInv, Typed, TypeOK
<1>7. Guarded'
  BY <1>1, <1>6, GuardKept DEF IInv
<1> QED
  BY <1>5, <1>7 DEF IInv

LEMMA DeleteInductive ==
    ASSUME IInv, NEW p \in Processes, Delete(p)
    PROVE  IInv'
<1>1. PICK n \in targets[p] :
          /\ secrets' = [secrets EXCEPT ![n] = NoSecret]
          /\ targets' = [targets EXCEPT ![p] = @ \ {n}]
          /\ Outdate({n})
  BY DEF Delete
<1>2. n \in SecretNames /\ UNCHANGED <<worldVars, queue, step, job, attempt, seenPods, todo, recorded>>
  BY DEF Delete, IInv, Typed, TypeOK
<1>3. /\ secrets' \in [SecretNames -> Snapshot \cup {NoSecret}]
      /\ \A m \in SecretNames : secrets'[m] = IF m = n THEN NoSecret ELSE secrets[m]
  BY <1>1, <1>2 DEF IInv, Typed, TypeOK
<1>4. /\ fresh' \in [Processes -> BOOLEAN]
      /\ \A q \in Processes : fresh'[q] => fresh[q] /\ (job[q] = NoJob \/ job[q].name \notin {n})
  BY <1>1, OutdateType DEF IInv, Typed, TypeOK
<1>5. targets' \in [Processes -> SUBSET SecretNames]
  BY <1>1 DEF IInv, Typed, TypeOK
<1>6. Typed'
  BY <1>2, <1>3, <1>4, <1>5, ConstantFacts DEF IInv, Typed, TypeOK, worldVars
<1>7. Guarded'
  <2> SUFFICES ASSUME NEW q \in Processes, step[q] = "update", fresh'[q]
               PROVE  /\ secrets'[job[q].name] # NoSecret
                      /\ ~Outdated(secrets'[job[q].name], job[q])
    BY <1>2 DEF Guarded, Outdated
  <2>1. fresh[q] /\ job[q] # NoJob /\ job[q].name \in SecretNames /\ job[q].name # n
    BY <1>4, JobFacts DEF IInv
  <2> QED
    BY <1>3, <2>1 DEF IInv, Guarded
<1> QED
  BY <1>6, <1>7 DEF IInv

LEMMA DeletedInductive ==
    ASSUME IInv, NEW p \in Processes, Deleted(p)
    PROVE  IInv'
<1>1. /\ step[p] \in {"deletePod", "deleteOthers"}
      /\ UNCHANGED <<worldVars, queue, secrets, fresh, seenPods, targets, todo, recorded>>
  BY DEF Deleted
<1>2. CASE GoTo(p, "listPods") /\ UNCHANGED <<job, attempt>>
  <2>1. /\ step' \in [Processes -> Steps]
        /\ \A q \in Processes : (job'[q] = NoJob) <=> (step'[q] \in {"idle", "list"})
        /\ \A w \in Workers : step'[w] # "list"
    BY <1>1, <1>2, MoveType DEF IInv, Steps
  <2>2. \A q \in Processes : step'[q] = "update" => step[q] = "update"
    BY <1>2 DEF GoTo, IInv, Typed, TypeOK
  <2>3. Guarded'
    BY <1>1, <1>2, <2>2, GuardKept DEF IInv
  <2> QED
    BY <1>1, <1>2, <2>1, <2>3 DEF IInv, Typed, TypeOK, worldVars
<1>3. CASE Rest(p)
  <2>1. \A q \in Processes : step'[q] = "update" => step[q] = "update" /\ job'[q] = job[q]
    BY <1>3 DEF Rest, IInv, Typed, TypeOK
  <2>2. Guarded'
    BY <1>1, <2>1, GuardKept DEF IInv
  <2>3. Typed'
    BY <1>1, <1>3, RestType DEF IInv, Typed, TypeOK, worldVars
  <2> QED
    BY <2>2, <2>3 DEF IInv
<1> QED
  BY <1>2, <1>3 DEF Deleted

-----------------------------------------------------------------------------
LEMMA InitInductive == Init => IInv
<1> SUFFICES ASSUME Init PROVE IInv
  OBVIOUS
<1>1. /\ secrets \in [SecretNames -> Snapshot \cup {NoSecret}]
      /\ \A n \in Names : secrets[n] # NoSecret => secrets[n].name = n
  BY FoundAssumption DEF Init, FoundAssumption
<1>3. reports \in 0..MaxReports /\ overlooked \subseteq Names /\ late \subseteq Names
  BY DEF Init
<1>4. \A p \in Processes : job[p] = NoJob /\ step[p] \in {"idle", "list"}
  BY DEF Init
<1>5. step \in [Processes -> Steps]
  BY DEF Init, Steps
<1>6. \A w \in Workers : step[w] # "list"
  BY ConstantFacts DEF Init
<1>7. live \in [Names -> 0..MaxUid] /\ uids \in [Names -> 0..MaxUid]
  <2>1. 0 \in 0..MaxUid /\ 1 \in 0..MaxUid
    BY ConstantFacts
  <2>2. 0..1 \subseteq 0..MaxUid
    BY ConstantFacts
  <2> QED
    BY <2>1, <2>2 DEF Init
<1>8. /\ job \in [Processes -> Snapshot \cup {NoJob}]
      /\ attempt \in [Processes -> 0..(Attempts - 1)]
      /\ fresh \in [Processes -> BOOLEAN]
      /\ seenPods \in [Processes -> [Names -> 0..MaxUid]]
      /\ targets \in [Processes -> SUBSET SecretNames]
      /\ queue \in Seq(Snapshot) /\ todo \subseteq Snapshot /\ recorded \subseteq Snapshot
      /\ faults \in 0..MaxFaults
  BY ConstantFacts DEF Init
<1>9. Typed
  BY <1>1, <1>3, <1>4, <1>5, <1>6, <1>7, <1>8 DEF Typed, TypeOK
<1>10. Guarded
  BY <1>4 DEF Guarded
<1> QED
  BY <1>9, <1>10 DEF IInv

LEMMA Inductive == Spec => []IInv
<1>1. IInv /\ [Next]_vars => IInv'
  <2> SUFFICES ASSUME IInv, [Next]_vars PROVE IInv'
    OBVIOUS
  <2>1. ASSUME NEW p \in Processes, Work(p) PROVE IInv'
    BY <2>1, TakeInductive, GetInductive, WriteInductive, FailInductive, ListInductive,
       DeleteInductive, DeletedInductive DEF Work, Create, Update
  <2>2. CASE UNCHANGED vars
    BY <2>2 DEF vars, IInv, Typed, TypeOK, Guarded, Outdated
  <2> QED
    BY <2>1, <2>2, WorldInductive, RestartInductive, ListForMigrationInductive,
       MigrateNextInductive DEF Next
<1> QED
  BY <1>1, InitInductive, PTL DEF Spec

\* Every variable keeps its type; a Secret named for a pod is of that pod, and a
\* process has something to store exactly while it is at work.
THEOREM TypeCorrect == Spec => []TypeOK
<1>1. IInv => TypeOK
  BY DEF IInv, Typed
<1> QED
  BY <1>1, Inductive, PTL

\* The look at the incident time and the resource version of the update together
\* keep a pod's Secret from going back, however many workers there are.
THEOREM SamePodAlwaysForward == Spec => SamePodForward
<1>1. IInv /\ [Next]_vars =>
          [\A n \in Names :
              /\ secrets[n] # NoSecret
              /\ secrets'[n] # NoSecret
              /\ secrets'[n].uid = secrets[n].uid
              => secrets'[n].time >= secrets[n].time]_vars
  <2> SUFFICES ASSUME IInv, Next, NEW n \in Names, secrets[n] # NoSecret, secrets'[n] # NoSecret,
                      secrets'[n].uid = secrets[n].uid
               PROVE  secrets'[n].time >= secrets[n].time
    OBVIOUS
  <2>1. secrets[n] \in Snapshot /\ secrets[n].time \in Nat /\ n \in SecretNames
    BY ConstantFacts DEF IInv, Typed, TypeOK, Snapshot
  <2>2. ASSUME secrets'[n] = secrets[n] PROVE secrets'[n].time >= secrets[n].time
    BY <2>1, <2>2
  <2>3. ASSUME NEW p \in Processes, Work(p) PROVE secrets'[n].time >= secrets[n].time
    <3>1. CASE Create(p) \/ Update(p)
      <4>1. /\ step[p] \in {"create", "update"}
            /\ secrets' = [secrets EXCEPT ![job[p].name] = job[p]]
        BY <3>1 DEF Create, Update, Write
      <4>2. job[p].name \in SecretNames /\ job[p].time \in Nat
        BY <4>1, JobFacts DEF IInv
      <4>3. CASE job[p].name # n
        BY <2>2, <4>1, <4>3
      <4>4. CASE job[p].name = n
        <5>1. secrets'[n] = job[p]
          BY <2>1, <4>1, <4>4 DEF IInv, Typed, TypeOK
        <5>2. step[p] = "update" /\ fresh[p]
          BY <3>1, <4>4 DEF Create, Update
        <5>3. ~(secrets[n].uid = job[p].uid /\ secrets[n].time > job[p].time)
          BY <4>4, <5>2 DEF IInv, Guarded, Outdated
        <5> QED
          BY <2>1, <4>2, <5>1, <5>3
      <4> QED
        BY <4>3, <4>4
    <3>2. CASE Delete(p)
      <4>1. secrets'[n] = NoSecret \/ secrets'[n] = secrets[n]
        BY <2>1, <3>2 DEF Delete, IInv, Typed, TypeOK
      <4> QED
        BY <2>2, <4>1
    <3>3. CASE Take(p) \/ Get(p) \/ Fail(p) \/ ListOfPod(p) \/ ListPods(p) \/ ListSecrets(p)
               \/ Deleted(p)
      BY <2>2, <3>3 DEF Take, Get, Fail, ListOfPod, ListPods, ListSecrets, Deleted
    <3> QED
      BY <2>3, <3>1, <3>2, <3>3 DEF Work
  <2>4. ASSUME NEW m \in Names, PodReplaced(m) \/ PodDeleted(m) \/ Incident(m)
        PROVE  secrets'[n].time >= secrets[n].time
    BY <2>2, <2>4 DEF PodReplaced, PodDeleted, Incident
  <2>5. CASE Restart \/ ListForMigration \/ MigrateNext
    BY <2>2, <2>5 DEF Restart, ListForMigration, MigrateNext
  <2> QED
    BY <2>3, <2>4, <2>5 DEF Next
<1> QED
  BY <1>1, Inductive, PTL DEF Spec, SamePodForward

-----------------------------------------------------------------------------
(* Secrets of earlier releases.  They are deleted and never written, so    *)
(* those a clean-up is still to delete are on its list.                    *)

OnList(p) ==
    \A n \in LegacyNames :
        secrets[n] # NoSecret /\ secrets[n].name = job[p].name =>
            /\ step[p] \notin {"listPods", "listSecrets", "deleteOthers"}
            /\ step[p] = "deletePod" => n \in targets[p]

LegacyOnList == \A p \in Processes : OnList(p)

\* The Secrets of earlier releases only get fewer.
LEMMA LegacyShrinks ==
    ASSUME Typed, [Next]_vars, NEW n \in LegacyNames
    PROVE  secrets'[n] \in {secrets[n], NoSecret}
<1>1. n \in SecretNames /\ n \notin Names
  BY IncidentSecretsAssumption DEF IncidentSecretsAssumption, SecretNames
<1>2. ASSUME NEW p \in Processes, Create(p) \/ Update(p) PROVE secrets'[n] = secrets[n]
  <2>1. /\ step[p] \in {"create", "update"}
        /\ secrets' = [secrets EXCEPT ![job[p].name] = job[p]]
    BY <1>2 DEF Create, Update, Write
  <2>2. job[p].name # n
    BY <1>1, <2>1, JobFacts
  <2> QED
    BY <2>1, <2>2
<1>3. ASSUME NEW p \in Processes, Delete(p) PROVE secrets'[n] \in {secrets[n], NoSecret}
  BY <1>1, <1>3 DEF Delete, Typed, TypeOK
<1>4. ASSUME NEW p \in Processes, Work(p) PROVE secrets'[n] \in {secrets[n], NoSecret}
  BY <1>2, <1>3, <1>4 DEF Work, Take, Get, Fail, ListOfPod, ListPods, ListSecrets, Deleted
<1>5. ASSUME NEW m \in Names, PodReplaced(m) \/ PodDeleted(m) \/ Incident(m)
      PROVE  secrets' = secrets
  BY <1>5 DEF PodReplaced, PodDeleted, Incident
<1>6. CASE Restart \/ ListForMigration \/ MigrateNext \/ UNCHANGED vars
  BY <1>6 DEF Restart, ListForMigration, MigrateNext, vars
<1> QED
  BY <1>4, <1>5, <1>6 DEF Next

\* A process that does not take a step keeps its list.
LEMMA ListKept ==
    ASSUME NEW p \in Processes, OnList(p),
           \A n \in LegacyNames : secrets'[n] \in {secrets[n], NoSecret},
           step'[p] = step[p], job'[p] = job[p], targets'[p] = targets[p]
    PROVE  OnList(p)'
BY DEF OnList

\* Nor does one that is not cleaning up have any.
LEMMA NoList ==
    ASSUME NEW p \in Processes,
           step'[p] \notin {"deletePod", "listPods", "listSecrets", "deleteOthers"}
    PROVE  OnList(p)'
BY DEF OnList

LEMMA WorkOnList ==
    ASSUME Typed, NEW p \in Processes, Work(p), OnList(p),
           \A n \in LegacyNames : secrets'[n] \in {secrets[n], NoSecret}
    PROVE  OnList(p)'
<1>1. CASE Take(p) \/ Get(p)
  <2>1. step'[p] \in {"get", "create", "update", "cleanPod"}
    BY <1>1 DEF Take, Begin, Get, GoTo, Typed, TypeOK
  <2> QED
    BY <2>1, NoList
<1>2. ASSUME Failed(p) PROVE OnList(p)'
  <2>1. step'[p] \in {"get", "idle"}
    BY <1>2 DEF Failed, Rest, GoTo, Typed, TypeOK
  <2> QED
    BY <2>1, NoList
<1>3. CASE Create(p) \/ Update(p) \/ Fail(p)
  <2>1. GoTo(p, "cleanPod") \/ Failed(p)
    BY <1>3 DEF Create, Update, Fail, Write
  <2>2. GoTo(p, "cleanPod") => step'[p] = "cleanPod"
    BY DEF GoTo, Typed, TypeOK
  <2> QED
    BY <1>2, <2>1, <2>2, NoList
<1>4. CASE ListOfPod(p)
  <2>1. /\ step[p] = "cleanPod" /\ step'[p] = "deletePod" /\ job' = job /\ secrets' = secrets
        /\ targets'[p] = {n \in Existing \ {job[p].name} : secrets[n].name = job[p].name}
    BY <1>4 DEF ListOfPod, GoTo, Typed, TypeOK
  <2>2. \A n \in LegacyNames : n \in SecretNames /\ n # job[p].name
    BY <2>1, JobFacts, IncidentSecretsAssumption DEF IncidentSecretsAssumption, SecretNames
  <2> QED
    BY <2>1, <2>2 DEF OnList, Existing
<1>5. CASE ListPods(p) \/ ListSecrets(p)
  <2>1. /\ step[p] \in {"listPods", "listSecrets"} /\ step'[p] \in {"listSecrets", "deleteOthers"}
        /\ job' = job /\ secrets' = secrets
    BY <1>5 DEF ListPods, ListSecrets, GoTo, Typed, TypeOK
  <2> QED
    BY <2>1 DEF OnList
<1>6. CASE Delete(p)
  <2>1. PICK n \in targets[p] : /\ secrets' = [secrets EXCEPT ![n] = NoSecret]
                                /\ targets' = [targets EXCEPT ![p] = @ \ {n}]
    BY <1>6 DEF Delete
  <2>2. /\ UNCHANGED <<step, job>> /\ targets'[p] = targets[p] \ {n}
        /\ n \in SecretNames /\ secrets'[n] = NoSecret
    BY <1>6, <2>1 DEF Delete, Typed, TypeOK
  <2> QED
    BY <2>2 DEF OnList
<1>7. CASE Deleted(p)
  <2>1. /\ step[p] \in {"deletePod", "deleteOthers"} /\ targets[p] = {} /\ secrets' = secrets
        /\ \/ step'[p] = "listPods" /\ job' = job /\ step[p] = "deletePod"
           \/ step'[p] = "idle"
    BY <1>7 DEF Deleted, GoTo, Rest, Typed, TypeOK
  <2>2. CASE step'[p] = "idle"
    BY <2>2, NoList
  <2>3. CASE step'[p] = "listPods" /\ job' = job /\ step[p] = "deletePod"
    BY <2>1, <2>3 DEF OnList
  <2> QED
    BY <2>1, <2>2, <2>3
<1> QED
  BY <1>1, <1>3, <1>4, <1>5, <1>6, <1>7 DEF Work

\* A step of one process touches what the others hold in nothing.
LEMMA OthersKept ==
    ASSUME Typed, NEW p \in Processes, Work(p), NEW q \in Processes, q # p
    PROVE  /\ step'[q] = step[q] /\ job'[q] = job[q] /\ targets'[q] = targets[q]
           /\ seenPods'[q] = seenPods[q]
<1>1. Rest(p) => step'[q] = step[q] /\ job'[q] = job[q]
  BY DEF Rest, Typed, TypeOK
<1>2. \A s : GoTo(p, s) => step'[q] = step[q]
  BY DEF GoTo, Typed, TypeOK
<1>3. Failed(p) => /\ step'[q] = step[q] /\ job'[q] = job[q] /\ targets'[q] = targets[q]
                   /\ seenPods'[q] = seenPods[q]
  BY <1>1, <1>2 DEF Failed, Typed, TypeOK
<1>4. CASE Create(p) \/ Update(p) \/ Fail(p)
  BY <1>2, <1>3, <1>4 DEF Create, Update, Fail, Write
<1>5. CASE Take(p)
  BY <1>5 DEF Take, Begin, Typed, TypeOK
<1>6. CASE Get(p)
  BY <1>2, <1>6 DEF Get
<1>7. CASE ListOfPod(p) \/ ListPods(p) \/ ListSecrets(p)
  BY <1>2, <1>7 DEF ListOfPod, ListPods, ListSecrets, Typed, TypeOK
<1>8. CASE Delete(p)
  BY <1>8 DEF Delete, Typed, TypeOK
<1>9. CASE Deleted(p)
  BY <1>1, <1>2, <1>9 DEF Deleted
<1> QED
  BY <1>4, <1>5, <1>6, <1>7, <1>8, <1>9 DEF Work

LEMMA LegacyOnListInductive == Typed /\ LegacyOnList /\ [Next]_vars => LegacyOnList'
<1> SUFFICES ASSUME Typed, LegacyOnList, [Next]_vars, NEW q \in Processes PROVE OnList(q)'
  BY DEF LegacyOnList
<1>1. OnList(q) /\ \A n \in LegacyNames : secrets'[n] \in {secrets[n], NoSecret}
  BY LegacyShrinks DEF LegacyOnList
<1>2. ASSUME NEW p \in Processes, Work(p) PROVE OnList(q)'
  BY <1>1, <1>2, WorkOnList, OthersKept, ListKept
<1>3. ASSUME NEW m \in Names, PodReplaced(m) \/ PodDeleted(m) \/ Incident(m) PROVE OnList(q)'
  BY <1>1, <1>3, ListKept DEF PodReplaced, PodDeleted, Incident
<1>4. CASE Restart
  <2>1. step'[q] \in {"list", "idle"}
    BY <1>4 DEF Restart
  <2> QED
    BY <2>1, NoList
<1>5. CASE ListForMigration \/ MigrateNext
  <2>1. /\ targets' = targets
        /\ \/ step'[q] = step[q] /\ job'[q] = job[q]
           \/ step'[q] \in {"idle", "get"}
    BY <1>5 DEF ListForMigration, MigrateNext, Begin, GoTo, Typed, TypeOK
  <2> QED
    BY <1>1, <2>1, ListKept, NoList
<1>6. CASE UNCHANGED vars
  BY <1>1, <1>6, ListKept DEF vars
<1> QED
  BY <1>2, <1>3, <1>4, <1>5, <1>6 DEF Next

\* A process that stored an incident and cleaned up leaves no Secret of an earlier
\* release for the pod (cleanupRestartDiagnosticSecretsForPod), whatever the others do.
THEOREM AlwaysConsolidated == Spec => []Consolidated
<1>1. Init => LegacyOnList
  <2> SUFFICES ASSUME Init, NEW p \in Processes PROVE OnList(p)
    BY DEF LegacyOnList
  <2>1. step[p] \in {"list", "idle"}
    BY DEF Init
  <2> QED
    BY <2>1 DEF OnList
<1>2. LegacyOnList => Consolidated
  BY DEF LegacyOnList, OnList, Consolidated
<1>3. IInv => Typed
  BY DEF IInv
<1> QED
  BY <1>1, <1>2, <1>3, LegacyOnListInductive, Inductive, PTL DEF Spec

-----------------------------------------------------------------------------
(* What was reported as stored.  As long as a pod is the first of its      *)
(* name, all that is known under the name is about it, every clean-up      *)
(* counted it among the living, and no one has its Secret on a list.  Of a *)
(* pod yet to be born nothing is known.                                    *)

Born(s) == s.uid <= uids[s.name]

AllBorn ==
    /\ \A n \in Names : live[n] # 0 => live[n] = uids[n]
    /\ \A n \in SecretNames : secrets[n] # NoSecret => Born(secrets[n])
    /\ \A r \in recorded : Born(r)
    /\ \A i \in DOMAIN queue : Born(queue[i])
    /\ \A p \in Processes : job[p] # NoJob => Born(job[p])
    /\ \A s \in todo : Born(s)

Spared ==
    \A p \in Processes, n \in Names :
        /\ First(n) /\ step[p] = "listSecrets" => seenPods[p][n] = 1
        /\ (First(n) \/ uids[n] = 0) /\ step[p] \in {"deletePod", "deleteOthers"}
               => n \notin targets[p]

Stays ==
    \A r \in recorded : First(r.name) =>
        secrets[r.name] # NoSecret /\ secrets[r.name].time >= r.time

\* What a step may make of a Secret and of what a process stores.
LEMMA SecretsFrom ==
    ASSUME Typed, [Next]_vars, NEW n \in SecretNames
    PROVE  \/ secrets'[n] \in {secrets[n], NoSecret}
           \/ \E p \in Processes : job[p] # NoJob /\ secrets'[n] = job[p]
<1>1. ASSUME NEW p \in Processes, Create(p) \/ Update(p)
      PROVE  secrets'[n] = secrets[n] \/ (job[p] # NoJob /\ secrets'[n] = job[p])
  <2>1. /\ step[p] \in {"create", "update"}
        /\ secrets' = [secrets EXCEPT ![job[p].name] = job[p]]
    BY <1>1 DEF Create, Update, Write
  <2>2. job[p] # NoJob
    BY <2>1, JobFacts
  <2> QED
    BY <2>1, <2>2 DEF Typed, TypeOK
<1>2. ASSUME NEW p \in Processes, Delete(p) PROVE secrets'[n] \in {secrets[n], NoSecret}
  BY <1>2 DEF Delete, Typed, TypeOK
<1>3. ASSUME NEW p \in Processes, Work(p)
      PROVE  \/ secrets'[n] \in {secrets[n], NoSecret}
             \/ job[p] # NoJob /\ secrets'[n] = job[p]
  BY <1>1, <1>2, <1>3 DEF Work, Take, Get, Fail, ListOfPod, ListPods, ListSecrets, Deleted
<1>4. ASSUME NEW m \in Names, PodReplaced(m) \/ PodDeleted(m) \/ Incident(m)
      PROVE  secrets' = secrets
  BY <1>4 DEF PodReplaced, PodDeleted, Incident
<1>5. CASE Restart \/ ListForMigration \/ MigrateNext \/ UNCHANGED vars
  BY <1>5 DEF Restart, ListForMigration, MigrateNext, vars
<1> QED
  BY <1>3, <1>4, <1>5 DEF Next

LEMMA JobsFrom ==
    ASSUME Typed, [Next]_vars, NEW q \in Processes, job'[q] # NoJob
    PROVE  \/ job'[q] = job[q]
           \/ queue # <<>> /\ job'[q] = Head(queue)
           \/ job'[q] \in todo
<1>1. ASSUME NEW p \in Processes, Work(p), q # p PROVE job'[q] = job[q]
  BY <1>1, OthersKept
<1>2. Rest(q) => job'[q] = NoJob
  BY DEF Rest, Typed, TypeOK
<1>3. Failed(q) => job'[q] = job[q]
  BY <1>2 DEF Failed
<1>4. Take(q) => queue # <<>> /\ job'[q] = Head(queue)
  BY DEF Take, Begin, Typed, TypeOK
<1>5. Work(q) => job'[q] = job[q] \/ (queue # <<>> /\ job'[q] = Head(queue))
  BY <1>2, <1>3, <1>4 DEF Work, Get, Create, Update, Write, Fail, ListOfPod, ListPods,
     ListSecrets, Delete, Deleted
<1>6. ASSUME NEW m \in Names, PodReplaced(m) \/ PodDeleted(m) \/ Incident(m) PROVE job' = job
  BY <1>6 DEF PodReplaced, PodDeleted, Incident
<1>7. Restart => job'[q] = NoJob
  BY DEF Restart
<1>8. MigrateNext => job'[q] = job[q] \/ job'[q] \in todo
  BY DEF MigrateNext, Begin, Typed, TypeOK
<1>9. ListForMigration \/ UNCHANGED vars => job' = job
  BY DEF ListForMigration, vars
<1> QED
  BY <1>1, <1>5, <1>6, <1>7, <1>8, <1>9 DEF Next

LEMMA TodoFrom ==
    ASSUME Typed, [Next]_vars, NEW s \in todo'
    PROVE  s \in todo \/ \E n \in SecretNames : secrets[n] # NoSecret /\ s = secrets[n]
<1>1. ListForMigration => \E n \in SecretNames : secrets[n] # NoSecret /\ s = secrets[n]
  BY DEF ListForMigration, Newest, Existing
<1>2. ASSUME NEW p \in Processes, Work(p) PROVE s \in todo
  BY <1>2 DEF Work, Take, Get, Create, Update, Write, Fail, Failed, ListOfPod, ListPods,
     ListSecrets, Delete, Deleted
<1>3. ASSUME NEW m \in Names, PodReplaced(m) \/ PodDeleted(m) \/ Incident(m) PROVE s \in todo
  BY <1>3 DEF PodReplaced, PodDeleted, Incident
<1>4. Restart \/ MigrateNext \/ UNCHANGED vars => s \in todo
  BY DEF Restart, MigrateNext, vars
<1> QED
  BY <1>1, <1>2, <1>3, <1>4 DEF Next

LEMMA QueueFrom ==
    ASSUME Typed, [Next]_vars, NEW i \in DOMAIN queue'
    PROVE  \/ \E k \in DOMAIN queue : queue'[i] = queue[k]
           \/ \E n \in Names, u \in 1..MaxUid, t \in 1..MaxTime :
                 Incident(n) /\ u <= uids[n] /\ queue'[i] = [name |-> n, uid |-> u, time |-> t]
                 /\ (n \notin late' => \A k \in LegacyNames :
                        secrets[k] # NoSecret /\ secrets[k].name = n => ~ (secrets[k].time > t))
<1>1. queue \in Seq(Snapshot)
  BY DEF Typed, TypeOK
<1>2. ASSUME NEW p \in Processes, Take(p) PROVE \E k \in DOMAIN queue : queue'[i] = queue[k]
  <2>1. queue # <<>> /\ queue' = Tail(queue)
    BY <1>2 DEF Take
  <2>2. i + 1 \in DOMAIN queue /\ queue'[i] = queue[i + 1]
    BY <1>1, <2>1
  <2> QED
    BY <2>2
<1>3. ASSUME NEW p \in Processes, Work(p), ~Take(p) PROVE queue' = queue
  BY <1>3 DEF Work, Get, Create, Update, Write, Fail, ListOfPod, ListPods, ListSecrets, Delete,
     Deleted
<1>4. ASSUME NEW m \in Names, Incident(m)
      PROVE  \/ \E k \in DOMAIN queue : queue'[i] = queue[k]
             \/ \E u \in 1..MaxUid, t \in 1..MaxTime :
                   u <= uids[m] /\ queue'[i] = [name |-> m, uid |-> u, time |-> t]
                   /\ (m \notin late' => \A k \in LegacyNames :
                          secrets[k] # NoSecret /\ secrets[k].name = m => ~ (secrets[k].time > t))
  <2>1. PICK u \in 1..uids[m], t \in 1..MaxTime :
            /\ queue' = Append(queue, [name |-> m, uid |-> u, time |-> t])
            /\ late' = late \cup {l \in {m} : \E k \in LegacyNames :
                   secrets[k] # NoSecret /\ secrets[k].name = m /\ secrets[k].time > t}
    BY <1>4 DEF Incident
  <2> DEFINE s == [name |-> m, uid |-> u, time |-> t]
  <2>2. uids[m] \in 0..MaxUid
    BY DEF Typed, TypeOK
  <2>3. u \in 1..MaxUid /\ u <= uids[m]
    BY <2>2, ConstantFacts
  <2>4. (i \in DOMAIN queue /\ queue'[i] = queue[i]) \/ queue'[i] = s
    <3>1. queue' = Append(queue, s)
      BY <2>1
    <3> HIDE DEF s
    <3> QED
      BY <1>1, <3>1
  <2> QED
    BY <2>1, <2>3, <2>4
<1>5. ASSUME NEW m \in Names, PodReplaced(m) \/ PodDeleted(m) PROVE queue' = queue
  BY <1>5 DEF PodReplaced, PodDeleted
<1>6. ~Restart
  BY DEF Restart
<1>7. ListForMigration \/ MigrateNext \/ UNCHANGED vars => queue' = queue
  BY DEF ListForMigration, MigrateNext, vars
<1> QED
  BY <1>2, <1>3, <1>4, <1>5, <1>6, <1>7 DEF Next

\* What is recorded a process stores.
LEMMA RecordedFrom ==
    ASSUME Typed, [Next]_vars, NEW r \in recorded'
    PROVE  r \in recorded \/ \E p \in Processes : job[p] # NoJob /\ r = job[p]
<1>1. ASSUME NEW p \in Processes, Get(p) \/ Create(p) \/ Update(p)
      PROVE  r \in recorded \/ (job[p] # NoJob /\ r = job[p])
  <2>1. step[p] \in {"get", "create", "update"} /\ recorded' \subseteq recorded \cup {job[p]}
    BY <1>1 DEF Get, Create, Update, Write
  <2>2. job[p] # NoJob
    BY <2>1, JobFacts
  <2> QED
    BY <2>1, <2>2
<1>2. ASSUME NEW p \in Processes,
             Take(p) \/ Fail(p) \/ ListOfPod(p) \/ ListPods(p) \/ ListSecrets(p) \/ Delete(p)
                 \/ Deleted(p)
      PROVE  r \in recorded
  BY <1>2 DEF Take, Fail, ListOfPod, ListPods, ListSecrets, Delete, Deleted
<1>3. ASSUME NEW m \in Names, PodReplaced(m) \/ PodDeleted(m) \/ Incident(m) PROVE r \in recorded
  BY <1>3 DEF PodReplaced, PodDeleted, Incident
<1>4. Restart \/ ListForMigration \/ MigrateNext \/ UNCHANGED vars => r \in recorded
  BY DEF Restart, ListForMigration, MigrateNext, vars
<1> QED
  BY <1>1, <1>2, <1>3, <1>4 DEF Next, Work

\* Names are given to pods in turn, and what went wrong at a birth stays on record.
LEMMA PodsFrom ==
    ASSUME Typed, [Next]_vars, NEW n \in Names
    PROVE  /\ overlooked \subseteq overlooked' /\ late \subseteq late'
           /\ uids'[n] \in {uids[n], uids[n] + 1}
           /\ \/ uids'[n] = uids[n] /\ (live'[n] # 0 => live'[n] = live[n])
              \/ PodReplaced(n) /\ live'[n] = uids[n] + 1 /\ uids'[n] = uids[n] + 1
<1>1. live[n] \in Nat /\ uids[n] \in Nat
  BY ConstantFacts DEF Typed, TypeOK
<1>2. ASSUME NEW m \in Names, PodReplaced(m)
      PROVE  \/ live'[n] = live[n] /\ uids'[n] = uids[n]
             \/ PodReplaced(n) /\ live'[n] = uids[n] + 1 /\ uids'[n] = uids[n] + 1
  <2>1. /\ uids' = [uids EXCEPT ![m] = @ + 1]
        /\ live' = [live EXCEPT ![m] = uids[m] + 1]
    BY <1>2 DEF PodReplaced
  <2>2. CASE n = m
    BY <1>2, <2>1, <2>2 DEF Typed, TypeOK
  <2>3. CASE n # m
    BY <2>1, <2>3 DEF Typed, TypeOK
  <2> QED
    BY <2>2, <2>3
<1>3. ASSUME NEW m \in Names, PodDeleted(m)
      PROVE  uids'[n] = uids[n] /\ (live'[n] # 0 => live'[n] = live[n])
  BY <1>3 DEF PodDeleted, Typed, TypeOK
<1>4. ASSUME NEW m \in Names, Incident(m) PROVE live'[n] = live[n] /\ uids'[n] = uids[n]
  BY <1>4 DEF Incident
<1>5. ASSUME NEW p \in Processes, Work(p)
      PROVE  /\ live'[n] = live[n] /\ uids'[n] = uids[n]
             /\ UNCHANGED <<overlooked, late>>
  BY <1>5 DEF Work, Take, Get, Create, Update, Write, Fail, ListOfPod, ListPods, ListSecrets,
     Delete, Deleted, worldVars
<1>6. Restart \/ ListForMigration \/ MigrateNext \/ UNCHANGED vars
          => live'[n] = live[n] /\ uids'[n] = uids[n] /\ UNCHANGED <<overlooked, late>>
  BY DEF Restart, ListForMigration, MigrateNext, vars, worldVars
<1>7. ASSUME NEW m \in Names, PodReplaced(m) \/ PodDeleted(m) \/ Incident(m)
      PROVE  overlooked \subseteq overlooked' /\ late \subseteq late'
  BY <1>7 DEF PodReplaced, PodDeleted, Incident
<1> DEFINE Pods == \/ uids'[n] = uids[n] /\ (live'[n] # 0 => live'[n] = live[n])
                   \/ PodReplaced(n) /\ live'[n] = uids[n] + 1 /\ uids'[n] = uids[n] + 1
<1>8. Pods /\ overlooked \subseteq overlooked' /\ late \subseteq late'
  <2>1. CASE \E m \in Names : PodReplaced(m) \/ PodDeleted(m) \/ Incident(m)
    BY <1>2, <1>3, <1>4, <1>7, <2>1
  <2>2. CASE \E p \in Processes : Work(p)
    BY <1>5, <2>2
  <2>3. CASE Restart \/ ListForMigration \/ MigrateNext \/ UNCHANGED vars
    BY <1>6, <2>3
  <2> QED
    BY <2>1, <2>2, <2>3 DEF Next
<1> QED
  BY <1>1, <1>8

LEMMA AllBornInductive == Typed /\ AllBorn /\ [Next]_vars => AllBorn'
<1> SUFFICES ASSUME Typed, AllBorn, [Next]_vars PROVE AllBorn'
  OBVIOUS
<1>1. \A n \in Names : uids[n] \in Nat /\ uids'[n] \in {uids[n], uids[n] + 1}
  BY PodsFrom, ConstantFacts DEF Typed, TypeOK
<1>2. \A n \in Names : live'[n] # 0 => live'[n] = uids'[n]
  BY <1>1, PodsFrom DEF AllBorn
<1>3. ASSUME NEW s \in Snapshot, Born(s) PROVE s.uid <= uids'[s.name]
  <2>1. s.name \in Names /\ s.uid \in Nat
    BY <1>3, ConstantFacts DEF Snapshot
  <2> QED
    BY <1>1, <1>3, <2>1 DEF Born
<1>4. ASSUME NEW n \in SecretNames, secrets'[n] # NoSecret
      PROVE  secrets'[n].uid <= uids'[secrets'[n].name]
  <2>1. \/ secrets'[n] = secrets[n] /\ secrets[n] # NoSecret
        \/ \E p \in Processes : job[p] # NoJob /\ secrets'[n] = job[p]
    BY <1>4, SecretsFrom
  <2>2. secrets'[n] \in Snapshot /\ Born(secrets'[n])
    BY <2>1 DEF AllBorn, Typed, TypeOK
  <2> QED
    BY <1>3, <2>2
<1>5. ASSUME NEW i \in DOMAIN queue'
      PROVE  queue'[i].uid <= uids'[queue'[i].name]
  <2>1. CASE \E k \in DOMAIN queue : queue'[i] = queue[k]
    <3>1. queue'[i] \in Snapshot /\ Born(queue'[i])
      BY <2>1 DEF AllBorn, Typed, TypeOK
    <3> QED
      BY <1>3, <3>1
  <2>2. CASE ~ \E k \in DOMAIN queue : queue'[i] = queue[k]
    <3>1. PICK n \in Names, u \in 1..MaxUid, t \in 1..MaxTime :
              u <= uids[n] /\ queue'[i] = [name |-> n, uid |-> u, time |-> t]
      BY <2>2, QueueFrom
    <3>2. queue'[i] \in Snapshot /\ Born(queue'[i])
      BY <3>1 DEF Snapshot, Born
    <3> QED
      BY <1>3, <3>2
  <2> QED
    BY <2>1, <2>2
<1>6. ASSUME NEW q \in Processes, job'[q] # NoJob
      PROVE  job'[q].uid <= uids'[job'[q].name]
  <2>1. queue # <<>> => Head(queue) \in Snapshot /\ Born(Head(queue))
    <3>1. queue \in Seq(Snapshot)
      BY DEF Typed, TypeOK
    <3>2. queue # <<>> => 1 \in DOMAIN queue /\ Head(queue) = queue[1] /\ queue[1] \in Snapshot
      BY <3>1
    <3> QED
      BY <3>2 DEF AllBorn
  <2>2. job'[q] \in Snapshot /\ Born(job'[q])
    BY <1>6, <2>1, JobsFrom DEF AllBorn, Typed, TypeOK
  <2> QED
    BY <1>3, <2>2
<1>7. ASSUME NEW s \in todo' PROVE s.uid <= uids'[s.name]
  <2>1. s \in Snapshot /\ Born(s)
    BY <1>7, TodoFrom DEF AllBorn, Typed, TypeOK
  <2> QED
    BY <1>3, <2>1
<1>8. ASSUME NEW r \in recorded' PROVE r.uid <= uids'[r.name]
  <2>1. r \in Snapshot /\ Born(r)
    BY <1>8, RecordedFrom DEF AllBorn, Typed, TypeOK
  <2> QED
    BY <1>3, <2>1
<1> QED
  BY <1>2, <1>4, <1>5, <1>6, <1>7, <1>8 DEF AllBorn, Born

\* Of a pod yet to be born nothing is known.
LEMMA Unborn ==
    ASSUME Typed, AllBorn, NEW n \in Names, uids[n] = 0
    PROVE  /\ \A k \in SecretNames : secrets[k] # NoSecret => secrets[k].name # n
           /\ \A r \in recorded : r.name # n
<1>1. \A s \in Snapshot : Born(s) => s.name # n
  BY DEF Born, Snapshot
<1> QED
  BY <1>1 DEF AllBorn, Typed, TypeOK

\* The first of a name was so all along, or is just born.
LEMMA FirstBefore ==
    ASSUME Typed, AllBorn, [Next]_vars, NEW n \in Names, First(n)'
    PROVE  /\ live'[n] = 1
           /\ \/ First(n) /\ live[n] = 1
              \/ uids[n] = 0 /\ PodReplaced(n) /\ \A p \in Processes : step[p] # "listSecrets"
<1>1. uids[n] \in Nat
  BY ConstantFacts DEF Typed, TypeOK
<1>2. live'[n] # 0 /\ uids'[n] = 1 /\ n \notin overlooked'
  BY DEF First
<1>3. CASE uids'[n] = uids[n]
  BY <1>1, <1>2, <1>3, PodsFrom DEF First, AllBorn
<1>4. CASE PodReplaced(n) /\ live'[n] = uids[n] + 1 /\ uids'[n] = uids[n] + 1
  BY <1>1, <1>2, <1>4 DEF PodReplaced
<1> QED
  BY <1>3, <1>4, PodsFrom

LEMMA SparedInductive == Typed /\ AllBorn /\ Spared /\ [Next]_vars => Spared'
<1> SUFFICES ASSUME Typed, AllBorn, Spared, [Next]_vars,
                    NEW q \in Processes, NEW n \in Names, First(n)' \/ uids'[n] = 0
             PROVE  /\ First(n)' /\ step'[q] = "listSecrets" => seenPods'[q][n] = 1
                    /\ step'[q] \in {"deletePod", "deleteOthers"} => n \notin targets'[q]
  BY DEF Spared, First
<1> DEFINE Goal == /\ First(n)' /\ step'[q] = "listSecrets" => seenPods'[q][n] = 1
                   /\ step'[q] \in {"deletePod", "deleteOthers"} => n \notin targets'[q]
<1>0. \/ First(n)' /\ First(n) /\ live[n] = 1 /\ live'[n] = 1
      \/ uids[n] = 0 /\ First(n)' /\ PodReplaced(n) /\ \A p \in Processes : step[p] # "listSecrets"
      \/ uids[n] = 0 /\ ~First(n)'
  <2>1. uids[n] \in Nat /\ (uids'[n] = 0 => uids[n] = 0)
    BY PodsFrom, ConstantFacts DEF Typed, TypeOK
  <2> QED
    BY <2>1, FirstBefore
<1>1. /\ First(n) \/ uids[n] = 0
      /\ First(n) /\ step[q] = "listSecrets" => seenPods[q][n] = 1
      /\ step[q] \in {"deletePod", "deleteOthers"} => n \notin targets[q]
  BY <1>0 DEF Spared
<1>2. ASSUME step'[q] \notin {"listSecrets", "deletePod", "deleteOthers"} PROVE Goal
  BY <1>2
<1>3. ASSUME step'[q] = step[q], seenPods'[q] = seenPods[q], targets'[q] \subseteq targets[q]
      PROVE  Goal
  BY <1>0, <1>1, <1>3
<1>4. ASSUME Work(q) PROVE Goal
  <2>1. CASE Take(q) \/ Get(q)
    <3>1. step'[q] \in {"get", "create", "update", "cleanPod"}
      BY <2>1 DEF Take, Begin, Get, GoTo, Typed, TypeOK
    <3> QED
      BY <1>2, <3>1
  <2>2. CASE Create(q) \/ Update(q) \/ Fail(q)
    <3>1. step'[q] \in {"get", "idle", "cleanPod"}
      BY <2>2 DEF Create, Update, Fail, Write, Failed, Rest, GoTo, Typed, TypeOK
    <3> QED
      BY <1>2, <3>1
  <2>3. CASE ListOfPod(q)
    <3>1. /\ step'[q] = "deletePod"
          /\ targets'[q] = {m \in Existing \ {job[q].name} : secrets[m].name = job[q].name}
      BY <2>3 DEF ListOfPod, GoTo, Typed, TypeOK
    <3>2. n \in Existing => secrets[n].name = n
      BY DEF Existing, Typed, TypeOK
    <3> QED
      BY <3>1, <3>2
  <2>4. CASE ListPods(q)
    <3>1. step'[q] = "listSecrets" /\ seenPods'[q] = live /\ live' = live /\ uids' = uids
      BY <2>4 DEF ListPods, GoTo, Typed, TypeOK, worldVars
    <3>2. First(n)' => live[n] = 1
      BY <3>1, FirstBefore
    <3> QED
      BY <3>1, <3>2
  <2>5. CASE ListSecrets(q)
    <3>1. /\ step[q] = "listSecrets" /\ step'[q] = "deleteOthers"
          /\ targets'[q] = Irrelevant(q)
      BY <2>5 DEF ListSecrets, GoTo, Typed, TypeOK
    <3>2. ASSUME n \in Existing
          PROVE  secrets[n].name = n /\ secrets[n].uid = 1 /\ seenPods[q][n] = 1
      <4>1. secrets[n] \in Snapshot /\ secrets[n].name = n /\ Born(secrets[n])
        BY <3>2 DEF Existing, AllBorn, Typed, TypeOK
      <4>2. secrets[n].uid \in 1..MaxUid
        BY <4>1 DEF Snapshot
      <4>3. First(n)
        BY <1>1, <4>1, <4>2, ConstantFacts DEF Born
      <4> QED
        BY <1>1, <3>1, <4>1, <4>2, <4>3, ConstantFacts DEF Born, First
    <3> QED
      BY <3>1, <3>2 DEF Irrelevant
  <2>6. CASE Delete(q)
    <3>1. UNCHANGED <<step, seenPods>> /\ targets'[q] \subseteq targets[q]
      BY <2>6 DEF Delete, Typed, TypeOK
    <3> QED
      BY <1>3, <3>1
  <2>7. CASE Deleted(q)
    <3>1. step'[q] \in {"listPods", "idle"}
      BY <2>7 DEF Deleted, GoTo, Rest, Typed, TypeOK
    <3> QED
      BY <1>2, <3>1
  <2> QED
    BY <1>4, <2>1, <2>2, <2>3, <2>4, <2>5, <2>6, <2>7 DEF Work
<1>5. ASSUME NEW p \in Processes, Work(p), q # p PROVE Goal
  BY <1>3, <1>5, OthersKept
<1>6. ASSUME NEW m \in Names, PodReplaced(m) \/ PodDeleted(m) \/ Incident(m) PROVE Goal
  BY <1>3, <1>6 DEF PodReplaced, PodDeleted, Incident
<1>7. CASE Restart
  <2>1. step'[q] \in {"list", "idle"}
    BY <1>7 DEF Restart
  <2> QED
    BY <1>2, <2>1
<1>8. CASE ListForMigration \/ MigrateNext \/ UNCHANGED vars
  <2>1. /\ UNCHANGED <<seenPods, targets>>
        /\ step'[q] = step[q] \/ step'[q] \in {"idle", "get"}
    BY <1>8 DEF ListForMigration, MigrateNext, Begin, GoTo, vars, Typed, TypeOK
  <2> QED
    BY <1>2, <1>3, <2>1
<1> QED
  BY <1>4, <1>5, <1>6, <1>7, <1>8 DEF Next

\* Every step keeps what was recorded: the resource version guards an update, and a
\* creation finds nothing.
LEMMA WriteStays ==
    ASSUME IInv, AllBorn, Stays, [Next]_vars, NEW p \in Processes, Create(p) \/ Update(p),
           NEW r \in recorded', First(r.name)'
    PROVE  secrets'[r.name] # NoSecret /\ secrets'[r.name].time >= r.time
<1>1. /\ step[p] \in {"create", "update"}
      /\ secrets' = [secrets EXCEPT ![job[p].name] = job[p]]
      /\ recorded' \subseteq recorded \cup {job[p]}
  BY DEF Create, Update, Write
<1>2. job[p] \in Snapshot /\ job[p].name \in Names /\ job[p].time \in Nat /\ job[p] # NoJob
  BY <1>1, JobFacts DEF IInv
<1>3. r \in Snapshot /\ r.name \in Names /\ r.name \in SecretNames /\ r.time \in Nat
  BY <1>1, <1>2, ConstantFacts DEF IInv, Typed, TypeOK, Snapshot
<1>4. First(r.name) /\ live[r.name] = 1
  <2>1. uids' = uids /\ UNCHANGED overlooked
    BY DEF Create, Update, Write, worldVars
  <2> QED
    BY <1>3, <2>1, FirstBefore DEF IInv, First
<1>5. r \in recorded => secrets[r.name] # NoSecret /\ secrets[r.name].time >= r.time
  BY <1>4 DEF Stays
<1>6. CASE r.name # job[p].name
  BY <1>1, <1>3, <1>5, <1>6 DEF IInv, Typed, TypeOK
<1>7. CASE r.name = job[p].name
  <2>1. secrets'[r.name] = job[p]
    BY <1>1, <1>3, <1>7 DEF IInv, Typed, TypeOK
  <2>2. job[p] # NoSecret
    BY <1>2, FoundAssumption DEF FoundAssumption
  <2>3. CASE r = job[p]
    BY <1>2, <2>1, <2>2, <2>3
  <2>4. CASE r # job[p]
    <3>1. secrets[r.name] # NoSecret /\ secrets[r.name].time >= r.time
      BY <1>1, <1>5, <2>4
    <3>2. step[p] = "update" /\ fresh[p]
      BY <1>7, <3>1 DEF Create, Update
    <3>3. ~Outdated(secrets[r.name], job[p])
      BY <1>7, <3>2 DEF IInv, Guarded
    <3>4. secrets[r.name] \in Snapshot /\ secrets[r.name].name = r.name /\ Born(secrets[r.name])
      BY <1>3, <3>1 DEF AllBorn, IInv, Typed, TypeOK
    <3>5. Born(job[p])
      BY <1>2 DEF AllBorn
    <3>6. uids[r.name] = 1
      BY <1>4 DEF First
    <3>7. /\ secrets[r.name].uid \in Nat \ {0} /\ job[p].uid \in Nat \ {0}
          /\ secrets[r.name].time \in Nat
      BY <1>2, <3>4, ConstantFacts DEF Snapshot
    <3>8. secrets[r.name].uid = 1 /\ job[p].uid = 1
      BY <1>7, <3>4, <3>5, <3>6, <3>7 DEF Born
    <3>9. job[p].time >= secrets[r.name].time
      BY <1>2, <3>3, <3>7, <3>8 DEF Outdated
    <3> QED
      BY <1>2, <1>3, <2>1, <2>2, <3>1, <3>7, <3>9
  <2> QED
    BY <2>3, <2>4
<1> QED
  BY <1>6, <1>7

LEMMA StaysInductive == IInv /\ AllBorn /\ Spared /\ Stays /\ [Next]_vars => Stays'
<1> SUFFICES ASSUME IInv, AllBorn, Spared, Stays, [Next]_vars, NEW r \in recorded', First(r.name)'
             PROVE  secrets'[r.name] # NoSecret /\ secrets'[r.name].time >= r.time
  BY DEF Stays, First
<1> DEFINE Goal == secrets'[r.name] # NoSecret /\ secrets'[r.name].time >= r.time
<1>1. ASSUME r \in recorded, secrets'[r.name] = secrets[r.name] PROVE Goal
  <2>1. r.name \in Names
    BY <1>1 DEF IInv, Typed, TypeOK, Snapshot
  <2>2. First(r.name)
    BY <1>1, <2>1, FirstBefore, Unborn DEF IInv
  <2> QED
    BY <1>1, <2>2 DEF Stays
<1>2. ASSUME NEW p \in Processes, Get(p) PROVE Goal
  <2>1. step[p] = "get" /\ secrets' = secrets
    BY <1>2 DEF Get
  <2>2. CASE r \in recorded
    BY <1>1, <2>1, <2>2
  <2>3. CASE r \notin recorded
    <3>1. r = job[p] /\ secrets[r.name] # NoSecret /\ Outdated(secrets[r.name], r)
      BY <1>2, <2>3 DEF Get
    <3>2. r \in Snapshot /\ r.name \in SecretNames /\ r.time \in Nat
      BY <2>1, <3>1, JobFacts DEF IInv
    <3>3. secrets[r.name].time \in Nat
      BY <3>1, <3>2, ConstantFacts DEF IInv, Typed, TypeOK, Snapshot
    <3> QED
      BY <2>1, <3>1, <3>2, <3>3 DEF Outdated
  <2> QED
    BY <2>2, <2>3
<1>3. ASSUME NEW p \in Processes, Delete(p) PROVE Goal
  <2>1. PICK n \in targets[p] : secrets' = [secrets EXCEPT ![n] = NoSecret]
    BY <1>3 DEF Delete
  <2>2. recorded' = recorded /\ step[p] \in {"deletePod", "deleteOthers"}
    BY <1>3 DEF Delete
  <2>3. r.name \in Names
    BY <2>2 DEF IInv, Typed, TypeOK, Snapshot
  <2>4. First(r.name)
    BY <2>2, <2>3, FirstBefore, Unborn DEF IInv
  <2>5. r.name # n
    BY <2>2, <2>3, <2>4 DEF Spared
  <2>6. secrets'[r.name] = secrets[r.name]
    BY <2>1, <2>3, <2>5, ConstantFacts DEF IInv, Typed, TypeOK
  <2> QED
    BY <1>1, <2>2, <2>6
<1>4. ASSUME NEW p \in Processes,
             Take(p) \/ Fail(p) \/ ListOfPod(p) \/ ListPods(p) \/ ListSecrets(p) \/ Deleted(p)
      PROVE  Goal
  BY <1>1, <1>4 DEF Take, Fail, ListOfPod, ListPods, ListSecrets, Deleted
<1>5. ASSUME NEW p \in Processes, Work(p) PROVE Goal
  BY <1>2, <1>3, <1>4, <1>5, WriteStays DEF Work
<1>6. ASSUME NEW m \in Names, PodReplaced(m) \/ PodDeleted(m) \/ Incident(m) PROVE Goal
  BY <1>1, <1>6 DEF PodReplaced, PodDeleted, Incident
<1>7. Restart \/ ListForMigration \/ MigrateNext \/ UNCHANGED vars
          => r \in recorded /\ secrets' = secrets
  BY DEF Restart, ListForMigration, MigrateNext, vars
<1> QED
  BY <1>1, <1>5, <1>6, <1>7 DEF Next

LEMMA InitStays == Init => AllBorn /\ Spared /\ Stays
<1> SUFFICES ASSUME Init PROVE AllBorn /\ Spared /\ Stays
  OBVIOUS
<1>1. \A p \in Processes : job[p] = NoJob /\ step[p] \in {"list", "idle"}
  BY DEF Init
<1>2. Spared /\ Stays
  BY <1>1 DEF Init, Spared, Stays
<1>3. \A n \in SecretNames : secrets[n] # NoSecret => Born(secrets[n])
  BY DEF Init, Born
<1>4. \A n \in Names : live[n] # 0 => live[n] = uids[n]
  <2>1. \A n \in Names : uids[n] \in 0..1 /\ live[n] \in 0..1 /\ live[n] <= uids[n]
    BY DEF Init
  <2> QED
    BY <2>1
<1>5. DOMAIN queue = {} /\ todo = {} /\ recorded = {}
  BY DEF Init
<1> QED
  BY <1>1, <1>2, <1>3, <1>4, <1>5 DEF AllBorn

\* Times have a latest.
LEMMA LatestTime ==
    ASSUME NEW T \in SUBSET Nat, T # {}, NEW b \in Nat, \A t \in T : t <= b
    PROVE  Max(T) \in T /\ \A t \in T : Max(T) >= t
<1> DEFINE D == {b - t : t \in T}
           R == OpToRel(<, Nat)
<1>1. D \subseteq Nat /\ D # {}
  <2>1. \A t \in T : b - t \in Nat
    <3> SUFFICES ASSUME NEW t \in T PROVE b - t \in Nat
      OBVIOUS
    <3>1. t \in Nat /\ t <= b
      OBVIOUS
    <3> QED
      BY <3>1
  <2> QED
    BY <2>1
<1>2. PICK d \in D : \A e \in D : <<e, d>> \notin R
  <2> HIDE DEF D, R
  <2>1. IsWellFoundedOn(R, Nat)
    BY NatLessThanWellFounded DEF R
  <2> QED
    BY <1>1, <2>1, WFMin
<1>3. \A e \in D : ~ (e < d)
  BY <1>1, <1>2 DEF OpToRel
<1>4. PICK x \in T : d = b - x
  OBVIOUS
<1>5. \A y \in T : x >= y
  <2> TAKE y \in T
  <2>1. ~ (b - y < b - x)
    BY <1>3, <1>4
  <2>2. x \in Nat /\ y \in Nat
    OBVIOUS
  <2> QED
    BY <2>1, <2>2
<1> QED
  BY <1>5 DEF Max

\* An incident reported as stored stays, itself or a newer one, while its pod lives
\* is the first of its name and was not born between a clean-up's two lists, in
\* whatever order incidents come (upsertRestartDiagnosticSnapshot, the clean-ups).
THEOREM RecordedAlwaysStays == Spec => []RecordedStays
<1>1. Init => AllBorn /\ Spared /\ Stays
  BY InitStays
<1>2. IInv /\ AllBorn /\ Spared /\ Stays /\ [Next]_vars => (AllBorn /\ Spared /\ Stays)'
  BY AllBornInductive, SparedInductive, StaysInductive DEF IInv
<1>3. IInv /\ AllBorn /\ Stays => RecordedStays
  <2> SUFFICES ASSUME IInv, Stays, NEW n \in Names, First(n), RecordedTimes(n, live[n]) # {}
               PROVE  /\ secrets[n] # NoSecret
                      /\ secrets[n].time >= Max(RecordedTimes(n, live[n]))
    BY DEF RecordedStays, First
  <2> DEFINE T == RecordedTimes(n, live[n])
  <2>1. T \in SUBSET Nat /\ T # {}
    <3>1. \A s \in recorded : s.time \in Nat
      BY ConstantFacts DEF IInv, Typed, TypeOK, Snapshot
    <3> QED
      BY <3>1 DEF RecordedTimes
  <2>2. \A t \in T : secrets[n] # NoSecret /\ secrets[n].time >= t
    <3>1. ASSUME NEW r \in recorded, r.name = n
          PROVE  secrets[n] # NoSecret /\ secrets[n].time >= r.time
      BY <3>1 DEF Stays
    <3> QED
      BY <3>1 DEF RecordedTimes
  <2>3. secrets[n] # NoSecret
    BY <2>2
  <2>4. secrets[n].time \in Nat
    BY <2>3, ConstantFacts DEF IInv, Typed, TypeOK, Snapshot
  <2>5. \A t \in T : t <= secrets[n].time
    BY <2>1, <2>2, <2>4
  <2>6. Max(T) \in T
    <3> HIDE DEF T
    <3> QED
      BY <2>1, <2>4, <2>5, LatestTime
  <2> QED
    BY <2>2, <2>3, <2>6
<1> QED
  BY <1>1, <1>2, <1>3, Inductive, PTL DEF Spec

-----------------------------------------------------------------------------
(* The refinement.  What a process stores is at least as new as the        *)
(* Secrets of earlier releases for the pod, so that no clean-up deletes    *)
(* the newest incident of a pod that lives.                                *)

Ahead(s) ==
    s.name \notin late =>
        \A n \in LegacyNames :
            secrets[n] # NoSecret /\ secrets[n].name = s.name => secrets[n].time <= s.time

InTime ==
    /\ \A i \in DOMAIN queue : Ahead(queue[i])
    /\ \A p \in Processes : job[p] # NoJob => Ahead(job[p])
    /\ \A s \in todo : Ahead(s)

\* A process that cleans up after a pod has stored; of a living pod's Secrets it
\* deletes those of the pod it stored for.
AimedBy(p) ==
    /\ step[p] \in {"cleanPod", "deletePod"} => job[p] \in recorded
    /\ \A n \in LegacyNames :
           /\ step[p] \in {"deletePod", "deleteOthers"}
           /\ n \in targets[p]
           /\ secrets[n] # NoSecret
           /\ First(secrets[n].name)
           => step[p] = "deletePod" /\ secrets[n].name = job[p].name

Aimed == \A p \in Processes : AimedBy(p)

LEMMA AheadKept ==
    ASSUME Typed, [Next]_vars, NEW s \in Snapshot, Ahead(s)
    PROVE  s.name \notin late' =>
               \A n \in LegacyNames :
                   secrets'[n] # NoSecret /\ secrets'[n].name = s.name => secrets'[n].time <= s.time
<1>1. late \subseteq late'
  <2>1. s.name \in Names
    BY DEF Snapshot
  <2> QED
    BY <2>1, PodsFrom
<1>2. \A n \in LegacyNames : secrets'[n] \in {secrets[n], NoSecret}
  BY LegacyShrinks
<1> QED
  BY <1>1, <1>2 DEF Ahead

\* The migration chooses the newest of a pod's Secrets.
LEMMA NewestAhead ==
    ASSUME Typed, NEW s \in Newest(Existing)
    PROVE  s \in Snapshot /\ Ahead(s)
<1>1. PICK n \in Existing : /\ s = secrets[n]
                            /\ \A k \in Existing : secrets[k].name = s.name => secrets[k].time <= s.time
  BY DEF Newest
<1>2. s \in Snapshot
  BY <1>1 DEF Existing, Typed, TypeOK
<1>3. \A k \in LegacyNames : secrets[k] # NoSecret => k \in Existing
  BY DEF Existing, SecretNames
<1> QED
  BY <1>1, <1>2, <1>3 DEF Ahead

LEMMA InTimeInductive == Typed /\ InTime /\ [Next]_vars => InTime'
<1> SUFFICES ASSUME Typed, InTime, [Next]_vars PROVE InTime'
  OBVIOUS
<1> DEFINE AheadNext(s) ==
        s.name \notin late' =>
            \A n \in LegacyNames :
                secrets'[n] # NoSecret /\ secrets'[n].name = s.name => secrets'[n].time <= s.time
<1>1. \A s \in Snapshot : Ahead(s) => AheadNext(s)
  BY AheadKept
<1>4. ASSUME NEW i \in DOMAIN queue' PROVE AheadNext(queue'[i])
  <2>1. CASE \E k \in DOMAIN queue : queue'[i] = queue[k]
    <3>1. queue'[i] \in Snapshot /\ Ahead(queue'[i])
      BY <2>1 DEF InTime, Typed, TypeOK
    <3> QED
      BY <1>1, <3>1
  <2>2. CASE ~ \E k \in DOMAIN queue : queue'[i] = queue[k]
    <3>1. PICK n \in Names, u \in 1..MaxUid, t \in 1..MaxTime :
              /\ Incident(n)
              /\ queue'[i] = [name |-> n, uid |-> u, time |-> t]
              /\ n \notin late' => \A k \in LegacyNames :
                     secrets[k] # NoSecret /\ secrets[k].name = n => ~ (secrets[k].time > t)
      BY <2>2, QueueFrom
    <3>2. secrets' = secrets /\ queue'[i].name = n /\ queue'[i].time = t
      BY <3>1 DEF Incident
    <3>3. \A k \in LegacyNames : secrets[k] # NoSecret => secrets[k].time \in Nat
      BY ConstantFacts DEF SecretNames, Typed, TypeOK, Snapshot
    <3>4. t \in Nat
      BY <3>1, ConstantFacts
    <3> QED
      BY <3>1, <3>2, <3>3, <3>4
  <2> QED
    BY <2>1, <2>2
<1>5. ASSUME NEW q \in Processes, job'[q] # NoJob PROVE AheadNext(job'[q])
  <2>1. queue # <<>> => Head(queue) \in Snapshot /\ Ahead(Head(queue))
    <3>1. queue \in Seq(Snapshot)
      BY DEF Typed, TypeOK
    <3>2. queue # <<>> => 1 \in DOMAIN queue /\ Head(queue) = queue[1] /\ queue[1] \in Snapshot
      BY <3>1
    <3> QED
      BY <3>2 DEF InTime
  <2>2. job'[q] \in Snapshot /\ Ahead(job'[q])
    BY <1>5, <2>1, JobsFrom DEF InTime, Typed, TypeOK
  <2> QED
    BY <1>1, <2>2
<1>6. ASSUME NEW s \in todo' PROVE AheadNext(s)
  <2>1. todo' \subseteq todo \/ todo' = Newest(Existing)
    <3>1. ASSUME NEW p \in Processes, Work(p) PROVE todo' \subseteq todo
      BY <3>1 DEF Work, Take, Get, Create, Update, Write, Fail, Failed, ListOfPod, ListPods,
         ListSecrets, Delete, Deleted
    <3>2. ASSUME NEW m \in Names, PodReplaced(m) \/ PodDeleted(m) \/ Incident(m) PROVE todo' = todo
      BY <3>2 DEF PodReplaced, PodDeleted, Incident
    <3>3. Restart \/ MigrateNext \/ UNCHANGED vars => todo' \subseteq todo
      BY DEF Restart, MigrateNext, vars
    <3>4. ListForMigration => todo' = Newest(Existing)
      BY DEF ListForMigration
    <3> QED
      BY <3>1, <3>2, <3>3, <3>4 DEF Next
  <2>2. s \in Snapshot /\ Ahead(s)
    BY <1>6, <2>1, NewestAhead DEF InTime, Typed, TypeOK
  <2> QED
    BY <1>1, <2>2
<1> QED
  BY <1>4, <1>5, <1>6 DEF InTime, Ahead

LEMMA AimedInductive == Typed /\ AllBorn /\ Spared /\ Aimed /\ [Next]_vars => Aimed'
<1> SUFFICES ASSUME Typed, AllBorn, Spared, Aimed, [Next]_vars, NEW q \in Processes
             PROVE  AimedBy(q)'
  BY DEF Aimed
<1>1. ASSUME NEW n \in LegacyNames, secrets'[n] # NoSecret
      PROVE  /\ secrets'[n] = secrets[n]
             /\ secrets[n] \in Snapshot /\ secrets[n].name \in Names
             /\ live'[secrets'[n].name] # 0 /\ uids'[secrets'[n].name] = 1
                /\ secrets'[n].name \notin overlooked' => First(secrets[n].name)
  <2>1. secrets'[n] = secrets[n]
    BY <1>1, LegacyShrinks
  <2>2. secrets[n] \in Snapshot /\ secrets[n].name \in Names /\ n \in SecretNames
    BY <1>1, <2>1 DEF Typed, TypeOK, SecretNames, Snapshot
  <2>3. PICK m \in Names : m = secrets[n].name
    BY <2>2
  <2>4. uids[m] # 0
    BY <1>1, <2>1, <2>2, <2>3, Unborn
  <2>5. live'[m] # 0 /\ uids'[m] = 1 /\ m \notin overlooked' => First(m)
    BY <2>4, FirstBefore DEF First
  <2> QED
    BY <2>1, <2>2, <2>3, <2>5
<1>2. AimedBy(q)
  BY DEF Aimed
<1>3. ASSUME step'[q] \notin {"cleanPod", "deletePod", "deleteOthers"} PROVE AimedBy(q)'
  BY <1>3 DEF AimedBy
<1>4. recorded \subseteq recorded'
  <2>1. ASSUME NEW p \in Processes, Work(p) PROVE recorded \subseteq recorded'
    BY <2>1 DEF Work, Take, Get, Create, Update, Write, Fail, ListOfPod, ListPods, ListSecrets,
       Delete, Deleted
  <2>2. ASSUME NEW m \in Names, PodReplaced(m) \/ PodDeleted(m) \/ Incident(m)
        PROVE  recorded' = recorded
    BY <2>2 DEF PodReplaced, PodDeleted, Incident
  <2>3. Restart \/ ListForMigration \/ MigrateNext \/ UNCHANGED vars => recorded' = recorded
    BY DEF Restart, ListForMigration, MigrateNext, vars
  <2> QED
    BY <2>1, <2>2, <2>3 DEF Next
<1>5. ASSUME step'[q] = step[q], job'[q] = job[q], targets'[q] \subseteq targets[q]
      PROVE  AimedBy(q)'
  BY <1>1, <1>2, <1>4, <1>5 DEF AimedBy, First
<1>6. ASSUME Work(q) PROVE AimedBy(q)'
  <2>1. ASSUME Failed(q) PROVE AimedBy(q)'
    <3>1. step'[q] \in {"get", "idle"}
      BY <2>1 DEF Failed, Rest, GoTo, Typed, TypeOK
    <3> QED
      BY <1>3, <3>1
  <2>2. ASSUME step'[q] = "cleanPod", job[q] \in recorded', job' = job PROVE AimedBy(q)'
    BY <2>2 DEF AimedBy
  <2>3. CASE Take(q) \/ ListPods(q)
    <3>1. step'[q] \in {"get", "listSecrets"}
      BY <2>3 DEF Take, ListPods, Begin, GoTo, Typed, TypeOK
    <3> QED
      BY <1>3, <3>1
  <2>4. CASE Get(q)
    <3>1. \/ step'[q] \in {"create", "update"}
          \/ step'[q] = "cleanPod" /\ job[q] \in recorded' /\ job' = job
      BY <2>4 DEF Get, GoTo, Typed, TypeOK
    <3> QED
      BY <1>3, <2>2, <3>1
  <2>5. CASE Create(q) \/ Update(q) \/ Fail(q)
    <3>1. \/ GoTo(q, "cleanPod") /\ job[q] \in recorded' /\ job' = job
          \/ Failed(q)
      BY <2>5 DEF Create, Update, Write, Fail
    <3>2. GoTo(q, "cleanPod") => step'[q] = "cleanPod"
      BY DEF GoTo, Typed, TypeOK
    <3> QED
      BY <2>1, <2>2, <3>1, <3>2
  <2>6. CASE ListOfPod(q)
    <3>1. /\ step[q] = "cleanPod" /\ step'[q] = "deletePod" /\ job' = job
          /\ targets'[q] = {m \in Existing \ {job[q].name} : secrets[m].name = job[q].name}
      BY <2>6 DEF ListOfPod, GoTo, Typed, TypeOK
    <3>2. job[q] \in recorded'
      BY <1>2, <1>4, <3>1 DEF AimedBy
    <3> QED
      BY <1>1, <3>1, <3>2 DEF AimedBy, First
  <2>7. CASE ListSecrets(q)
    <3>1. /\ step[q] = "listSecrets" /\ step'[q] = "deleteOthers"
          /\ targets'[q] = Irrelevant(q)
      BY <2>7 DEF ListSecrets, GoTo, Typed, TypeOK
    <3>2. ASSUME NEW n \in LegacyNames, secrets[n] # NoSecret, First(secrets[n].name)
          PROVE  n \notin Irrelevant(q)
      <4>1. n \in SecretNames /\ secrets[n] \in Snapshot /\ secrets[n].name \in Names
        BY <3>2 DEF Typed, TypeOK, SecretNames, Snapshot
      <4>2. secrets[n].uid \in 1..MaxUid /\ secrets[n].uid <= 1
        BY <3>2, <4>1 DEF AllBorn, Born, First, Snapshot
      <4>3. secrets[n].uid = 1
        BY <4>2, ConstantFacts
      <4>4. seenPods[q][secrets[n].name] = 1
        BY <3>1, <3>2, <4>1 DEF Spared
      <4> QED
        BY <4>3, <4>4 DEF Irrelevant
    <3> QED
      BY <1>1, <3>1, <3>2 DEF AimedBy, First
  <2>8. CASE Delete(q)
    <3>1. step' = step /\ job' = job /\ targets'[q] \subseteq targets[q]
      BY <2>8 DEF Delete, Typed, TypeOK
    <3> QED
      BY <1>5, <3>1
  <2>9. CASE Deleted(q)
    <3>1. step'[q] \in {"listPods", "idle"}
      BY <2>9 DEF Deleted, GoTo, Rest, Typed, TypeOK
    <3> QED
      BY <1>3, <3>1
  <2> QED
    BY <1>6, <2>3, <2>4, <2>5, <2>6, <2>7, <2>8, <2>9 DEF Work
<1>7. ASSUME NEW p \in Processes, Work(p), q # p PROVE AimedBy(q)'
  BY <1>5, <1>7, OthersKept
<1>8. ASSUME NEW m \in Names, PodReplaced(m) \/ PodDeleted(m) \/ Incident(m) PROVE AimedBy(q)'
  BY <1>5, <1>8 DEF PodReplaced, PodDeleted, Incident
<1>9. CASE Restart
  <2>1. step'[q] \in {"list", "idle"}
    BY <1>9 DEF Restart
  <2> QED
    BY <1>3, <2>1
<1>10. CASE ListForMigration \/ MigrateNext \/ UNCHANGED vars
  <2>1. /\ targets' = targets
        /\ \/ step'[q] = step[q] /\ job'[q] = job[q]
           \/ step'[q] \in {"idle", "get"}
    BY <1>10 DEF ListForMigration, MigrateNext, Begin, GoTo, vars, Typed, TypeOK
  <2> QED
    BY <1>3, <1>5, <2>1
<1> QED
  BY <1>6, <1>7, <1>8, <1>9, <1>10 DEF Next

LEMMA NewestTime ==
    ASSUME NEW T \in SUBSET (1..MaxTime)
    PROVE  /\ Max({0} \cup T) \in 0..MaxTime
           /\ Max({0} \cup T) \in {0} \cup T
           /\ \A t \in T : t <= Max({0} \cup T)
<1>1. {0} \cup T \in SUBSET Nat /\ {0} \cup T # {} /\ \A t \in {0} \cup T : t <= MaxTime
  BY ConstantFacts
<1>2. Max({0} \cup T) \in {0} \cup T /\ \A t \in {0} \cup T : Max({0} \cup T) >= t
  BY <1>1, ConstantFacts, LatestTime
<1>3. Max({0} \cup T) \in Nat /\ Max({0} \cup T) <= MaxTime
  BY <1>1, <1>2
<1>4. \A t \in T : t <= Max({0} \cup T)
  BY <1>1, <1>2, <1>3
<1> QED
  BY <1>2, <1>3, <1>4, ConstantFacts

\* What a step that touches a Secret does to what is recorded of the pods: one pod's
\* times change, and if it lives those that remain are as new.
Touches(m) ==
    /\ UNCHANGED stage
    /\ stage[m] # "awaited"
    /\ \A n \in Names \ {m} : TimesOf(n)' = TimesOf(n)
    /\ stage[m] = "kept" => \A t \in TimesOf(m) : \E u \in TimesOf(m)' : u >= t

LEMMA StageFacts ==
    ASSUME NEW m \in Names
    PROVE  /\ stage[m] = "kept" => First(m) /\ m \notin late
           /\ uids[m] # 0 => stage[m] # "awaited"
           /\ UNCHANGED <<live, uids, overlooked, late>> => UNCHANGED stage
<1>1. stage[m] = IF uids[m] = 0 THEN "awaited"
                 ELSE IF First(m) /\ m \notin late THEN "kept" ELSE "free"
  BY DEF stage
<1>2. UNCHANGED <<live, uids, overlooked, late>> => UNCHANGED stage
  BY DEF stage, First
<1> QED
  BY <1>1, <1>2

LEMMA WriteTouches ==
    ASSUME IInv, AllBorn, NEW p \in Processes, Create(p) \/ Update(p)
    PROVE  \E m \in Names : Touches(m)
<1>1. /\ step[p] \in {"create", "update"}
      /\ secrets' = [secrets EXCEPT ![job[p].name] = job[p]]
      /\ UNCHANGED <<live, uids, overlooked, late>>
  BY DEF Create, Update, Write, worldVars
<1>0. PICK m \in Names : m = job[p].name
  BY <1>1, JobFacts DEF IInv
<1>2. /\ job[p] \in Snapshot /\ job[p].name = m /\ m \in SecretNames /\ job[p].time \in Nat
      /\ job[p] # NoJob /\ job[p] # NoSecret
  BY <1>0, <1>1, JobFacts, FoundAssumption DEF IInv, FoundAssumption
<1>3. \A k \in SecretNames : secrets'[k] = IF k = m THEN job[p] ELSE secrets[k]
  BY <1>1, <1>2 DEF IInv, Typed, TypeOK
<1>4. secrets[m] # NoSecret => secrets[m].name = m
  BY <1>2 DEF IInv, Typed, TypeOK
<1>5. ASSUME NEW n \in Names, n # m PROVE TimesOf(n)' = TimesOf(n)
  BY <1>2, <1>3, <1>4, <1>5 DEF TimesOf, Existing
<1>7. uids[m] # 0 /\ stage[m] # "awaited" /\ UNCHANGED stage
  <2>1. job[p].uid \in Nat \ {0} /\ Born(job[p])
    BY <1>2, ConstantFacts DEF AllBorn, Snapshot
  <2>2. uids[m] # 0
    BY <1>2, <2>1 DEF Born
  <2> QED
    BY <1>1, <2>2, StageFacts
<1>6. ASSUME stage[m] = "kept", NEW t \in TimesOf(m) PROVE \E u \in TimesOf(m)' : u >= t
  <2>1. PICK k \in SecretNames : secrets[k] # NoSecret /\ secrets[k].name = m /\ t = secrets[k].time
    BY <1>6 DEF TimesOf, Existing
  <2>2. secrets[k] \in Snapshot /\ t \in Nat
    BY <2>1, ConstantFacts DEF IInv, Typed, TypeOK, Snapshot
  <2>3. CASE k # m
    <3>1. t \in TimesOf(m)'
      BY <1>3, <2>1, <2>3 DEF TimesOf, Existing
    <3> QED
      BY <2>2, <3>1
  <2>4. CASE k = m
    <3>1. step[p] = "update" /\ fresh[p]
      BY <1>2, <2>1, <2>4 DEF Create, Update
    <3>2. ~Outdated(secrets[m], job[p])
      BY <1>2, <3>1 DEF IInv, Guarded
    <3>3. Born(secrets[m]) /\ Born(job[p])
      BY <1>2, <2>1, <2>4 DEF AllBorn
    <3>4. secrets[m].uid \in Nat \ {0} /\ job[p].uid \in Nat \ {0}
      BY <1>2, <2>2, <2>4, ConstantFacts DEF Snapshot
    <3>5. secrets[m].uid = 1 /\ job[p].uid = 1
      BY <1>2, <1>4, <1>6, <2>1, <2>4, <3>3, <3>4, StageFacts DEF Born, First
    <3>6. job[p].time >= t
      BY <1>2, <2>1, <2>2, <2>4, <3>2, <3>5 DEF Outdated
    <3>7. job[p].time \in TimesOf(m)'
      BY <1>2, <1>3 DEF TimesOf, Existing
    <3> QED
      BY <3>6, <3>7
  <2> QED
    BY <2>3, <2>4
<1> QED
  BY <1>2, <1>5, <1>6, <1>7 DEF Touches

LEMMA DeleteTouches ==
    ASSUME IInv, AllBorn, Spared, Stays, InTime, Aimed, NEW p \in Processes, Delete(p)
    PROVE  UNCHANGED <<stage, secrets>> \/ \E m \in Names : Touches(m)
<1>1. PICK k \in targets[p] : secrets' = [secrets EXCEPT ![k] = NoSecret]
  BY DEF Delete
<1>2. step[p] \in {"deletePod", "deleteOthers"} /\ UNCHANGED stage
  BY StageFacts DEF Delete, worldVars, stage, First
<1>3. k \in SecretNames
  BY DEF IInv, Typed, TypeOK
<1>4. CASE secrets[k] = NoSecret
  <2>1. secrets' = secrets
    BY <1>1, <1>3, <1>4 DEF IInv, Typed, TypeOK
  <2> QED
    BY <1>2, <2>1
<1>5. CASE secrets[k] # NoSecret
  <2>0. PICK m \in Names : m = secrets[k].name
    BY <1>3, <1>5 DEF IInv, Typed, TypeOK, Snapshot
  <2>1. secrets[k] \in Snapshot /\ secrets[k].name = m /\ m \in SecretNames /\ secrets[k].time \in Nat
    BY <1>3, <1>5, <2>0, ConstantFacts DEF IInv, Typed, TypeOK, Snapshot
  <2>2. \A l \in SecretNames : secrets'[l] = IF l = k THEN NoSecret ELSE secrets[l]
    BY <1>1, <1>3 DEF IInv, Typed, TypeOK
  <2>3. ASSUME NEW n \in Names, n # m PROVE TimesOf(n)' = TimesOf(n)
    BY <2>1, <2>2, <2>3 DEF TimesOf, Existing
  <2>5. stage[m] # "awaited"
    <3>1. uids[m] # 0
      BY <1>3, <1>5, <2>1, Unborn DEF IInv
    <3> QED
      BY <3>1, StageFacts
  <2>4. ASSUME stage[m] = "kept", NEW t \in TimesOf(m) PROVE \E u \in TimesOf(m)' : u >= t
    <3>0. First(m) /\ m \notin late
      BY <2>4, StageFacts
    <3>1. PICK l \in SecretNames : secrets[l] # NoSecret /\ secrets[l].name = m /\ t = secrets[l].time
      BY <2>4 DEF TimesOf, Existing
    <3>2. t \in Nat
      BY <3>1, ConstantFacts DEF IInv, Typed, TypeOK, Snapshot
    <3>3. CASE l # k
      <4>1. t \in TimesOf(m)'
        BY <2>2, <3>1, <3>3 DEF TimesOf, Existing
      <4> QED
        BY <3>2, <4>1
    <3>4. CASE l = k
      <4>1. k \in LegacyNames
        <5>1. k \in Names => m = k
          BY <1>5, <2>1 DEF IInv, Typed, TypeOK
        <5> QED
          BY <1>2, <1>3, <2>1, <3>0, <5>1 DEF Spared, SecretNames
      <4>2. step[p] = "deletePod" /\ m = job[p].name /\ job[p] \in recorded
        BY <1>2, <1>5, <2>1, <3>0, <4>1 DEF Aimed, AimedBy
      <4>3. job[p] # NoJob /\ job[p].time \in Nat
        BY <4>2, JobFacts DEF IInv
      <4>4. secrets[k].time <= job[p].time
        BY <1>5, <2>1, <3>0, <4>1, <4>2, <4>3 DEF InTime, Ahead
      <4>5. secrets[m] # NoSecret /\ secrets[m].time >= job[p].time
        BY <3>0, <4>2 DEF Stays
      <4>6. m # k /\ secrets[m].name = m /\ secrets[m].time \in Nat
        BY <2>1, <4>1, <4>5, ConstantFacts, IncidentSecretsAssumption
           DEF IInv, Typed, TypeOK, IncidentSecretsAssumption, Snapshot
      <4>7. secrets[m].time \in TimesOf(m)'
        BY <2>1, <2>2, <4>5, <4>6 DEF TimesOf, Existing
      <4>8. secrets[m].time >= t
        BY <2>1, <3>1, <3>4, <4>3, <4>4, <4>5, <4>6
      <4> QED
        BY <4>7, <4>8
    <3> QED
      BY <3>3, <3>4
  <2> QED
    BY <1>2, <2>1, <2>3, <2>4, <2>5 DEF Touches
<1> QED
  BY <1>4, <1>5

\* One pod's newest incident becomes newer, or the pod is gone.
LEMMA TouchesPromise ==
    ASSUME Typed, Typed', NEW m \in Names, Touches(m)
    PROVE  [Promise!Next]_<<newest, stage>>
<1> DEFINE old == newest[m]
           new == newest'[m]
<1>1. \A n \in Names : TimesOf(n) \subseteq 1..MaxTime /\ TimesOf(n)' \subseteq 1..MaxTime
  <2>1. /\ \A k \in SecretNames : secrets[k] # NoSecret => secrets[k].time \in 1..MaxTime
        /\ \A k \in SecretNames : secrets'[k] # NoSecret => secrets'[k].time \in 1..MaxTime
    BY DEF Typed, TypeOK, Snapshot
  <2> QED
    BY <2>1 DEF TimesOf, Existing
<1>2. /\ old \in 0..MaxTime /\ old \in {0} \cup TimesOf(m)
      /\ new \in 0..MaxTime /\ \A u \in TimesOf(m)' : u <= new
  <2>1. old = Max({0} \cup TimesOf(m)) /\ new = Max({0} \cup TimesOf(m)')
    BY DEF newest
  <2> QED
    BY <1>1, <2>1, NewestTime
<1>3. newest' = [newest EXCEPT ![m] = new]
  <2>1. \A n \in Names : n # m => Max({0} \cup TimesOf(n)') = Max({0} \cup TimesOf(n))
    BY DEF Touches
  <2> QED
    BY <2>1 DEF newest
<1>4. UNCHANGED stage /\ stage[m] # "awaited"
  BY DEF Touches
<1>5. CASE new > old
  <2>1. new \in 1..MaxTime
    BY <1>2, <1>5, ConstantFacts
  <2>2. Promise!Record(m, new)
    BY <1>3, <1>4, <1>5 DEF Promise!Record
  <2> QED
    BY <2>1, <2>2 DEF Promise!Next
<1>6. CASE new = old
  <2>1. newest' = newest
    BY <1>3, <1>6 DEF newest
  <2> QED
    BY <1>4, <2>1
<1>7. CASE new < old
  <2>1. stage[m] # "kept"
    <3> SUFFICES ASSUME stage[m] = "kept" PROVE FALSE
      OBVIOUS
    <3>1. old \in TimesOf(m)
      BY <1>2, <1>7, ConstantFacts
    <3>2. PICK u \in TimesOf(m)' : u >= old
      BY <3>1 DEF Touches
    <3>3. u \in Nat /\ u <= new
      BY <1>1, <1>2
    <3> QED
      BY <1>2, <1>7, <3>2, <3>3, ConstantFacts
  <2>2. stage[m] = "free"
    BY <1>4, <2>1 DEF stage
  <2>3. Promise!Forget(m)
    BY <1>2, <1>3, <1>4, <1>7, <2>2 DEF Promise!Forget
  <2> QED
    BY <2>3 DEF Promise!Next
<1> QED
  BY <1>2, <1>5, <1>6, <1>7, ConstantFacts

\* A pod comes, or what the promise rests on ceases.
LEMMA PodPromise ==
    ASSUME Typed, AllBorn, [Next]_vars, NEW m \in Names,
           PodReplaced(m) \/ PodDeleted(m) \/ Incident(m)
    PROVE  [Promise!Next]_<<newest, stage>>
<1>1. newest' = newest
  BY DEF PodReplaced, PodDeleted, Incident, newest, TimesOf, Existing
<1>2. /\ \A n \in Names \ {m} : live'[n] = live[n] /\ uids'[n] = uids[n]
      /\ \A n \in Names \ {m} : (n \in overlooked' <=> n \in overlooked)
                                /\ (n \in late' <=> n \in late)
  BY DEF PodReplaced, PodDeleted, Incident, Typed, TypeOK
<1>3. stage' = [stage EXCEPT ![m] = stage'[m]]
  <2>1. \A n \in Names \ {m} : stage'[n] = stage[n]
    BY <1>2 DEF stage, First
  <2>2. DOMAIN stage = Names /\ DOMAIN stage' = Names /\ stage = [n \in Names |-> stage[n]]
        /\ stage' = [n \in Names |-> stage'[n]]
    BY DEF stage
  <2> QED
    BY <2>1, <2>2
<1>4. stage[m] \in {"awaited", "kept", "free"} /\ stage'[m] \in {"awaited", "kept", "free"}
  BY DEF stage
<1>5. stage'[m] = "awaited" => stage[m] = "awaited"
  <2>1. uids[m] \in Nat
    BY ConstantFacts DEF Typed, TypeOK
  <2>2. uids'[m] = 0 => uids[m] = 0
    BY <2>1, PodsFrom
  <2> QED
    BY <2>2 DEF stage
<1>6. stage'[m] = "kept" => stage[m] # "free"
  <2> SUFFICES ASSUME stage'[m] = "kept" PROVE stage[m] # "free"
    OBVIOUS
  <2>1. First(m)' /\ m \notin late'
    BY DEF stage, First
  <2>2. m \notin late
    BY <2>1, PodsFrom
  <2>3. First(m) \/ uids[m] = 0
    BY <2>1, FirstBefore
  <2> QED
    BY <2>2, <2>3 DEF stage
<1>7. CASE stage'[m] = stage[m]
  <2>1. stage' = stage
    BY <1>3, <1>7 DEF stage
  <2> QED
    BY <1>1, <2>1
<1>8. CASE stage'[m] # stage[m] /\ stage'[m] = "kept"
  <2>1. Promise!Come(m)
    BY <1>1, <1>3, <1>4, <1>6, <1>8 DEF Promise!Come
  <2> QED
    BY <2>1 DEF Promise!Next
<1>9. CASE stage'[m] # stage[m] /\ stage'[m] = "free"
  <2>1. Promise!Leave(m)
    BY <1>1, <1>3, <1>9 DEF Promise!Leave
  <2> QED
    BY <2>1 DEF Promise!Next
<1> QED
  BY <1>4, <1>5, <1>7, <1>8, <1>9

LEMMA StepPromise ==
    ASSUME IInv, IInv', AllBorn, Spared, Stays, InTime, Aimed, [Next]_vars
    PROVE  [Promise!Next]_<<newest, stage>>
<1>0. Typed /\ Typed'
  BY DEF IInv
<1>1. ASSUME UNCHANGED <<stage, secrets>> PROVE UNCHANGED <<newest, stage>>
  BY <1>1 DEF newest, TimesOf, Existing
<1>2. ASSUME NEW p \in Processes, Work(p)
      PROVE  UNCHANGED <<stage, secrets>> \/ \E m \in Names : Touches(m)
  <2>1. CASE Create(p) \/ Update(p)
    BY <2>1, WriteTouches
  <2>2. CASE Delete(p)
    BY <2>2, DeleteTouches
  <2>3. CASE Take(p) \/ Get(p) \/ Fail(p) \/ ListOfPod(p) \/ ListPods(p) \/ ListSecrets(p)
             \/ Deleted(p)
    <3>1. UNCHANGED <<live, uids, overlooked, late, secrets>>
      BY <2>3 DEF Take, Get, Fail, ListOfPod, ListPods, ListSecrets, Deleted, worldVars
    <3> QED
      BY <3>1 DEF stage, First
  <2> QED
    BY <1>2, <2>1, <2>2, <2>3 DEF Work
<1>3. Restart \/ ListForMigration \/ MigrateNext \/ UNCHANGED vars
          => UNCHANGED <<stage, secrets>>
  <2>1. Restart \/ ListForMigration \/ MigrateNext \/ UNCHANGED vars
            => UNCHANGED <<live, uids, overlooked, late, secrets>>
    BY DEF Restart, ListForMigration, MigrateNext, vars, worldVars
  <2> QED
    BY <2>1 DEF stage, First
<1>4. ASSUME NEW m \in Names, PodReplaced(m) \/ PodDeleted(m) \/ Incident(m)
      PROVE  [Promise!Next]_<<newest, stage>>
  BY <1>0, <1>4, PodPromise
<1>5. ASSUME NEW m \in Names, Touches(m) PROVE [Promise!Next]_<<newest, stage>>
  BY <1>0, <1>5, TouchesPromise
<1> QED
  BY <1>1, <1>2, <1>3, <1>4, <1>5 DEF Next

\* While a pod lives, is the first of its name, was not born between a clean-up's two
\* lists and has no incident older than a Secret of an earlier release reported, its
\* newest recorded incident stays readable through every update, migration and
\* clean-up: the Secrets implement the promise of restart diagnostics.
THEOREM NewestAlwaysKept == Spec => KeepsNewest
<1>1. Init => AllBorn /\ Spared /\ Stays
  BY InitStays
<1>2. IInv /\ AllBorn /\ Spared /\ Stays /\ [Next]_vars => (AllBorn /\ Spared /\ Stays)'
  BY AllBornInductive, SparedInductive, StaysInductive DEF IInv
<1>3. Init => InTime /\ Aimed
  <2> SUFFICES ASSUME Init PROVE InTime /\ Aimed
    OBVIOUS
  <2>1. \A p \in Processes : job[p] = NoJob /\ step[p] \in {"list", "idle"}
    BY DEF Init
  <2>2. DOMAIN queue = {} /\ todo = {}
    BY DEF Init
  <2> QED
    BY <2>1, <2>2 DEF Init, InTime, Aimed, AimedBy
<1>4. IInv /\ AllBorn /\ Spared /\ InTime /\ Aimed /\ [Next]_vars => (InTime /\ Aimed)'
  BY InTimeInductive, AimedInductive DEF IInv
<1>5. IInv /\ AllBorn => Promise!Init
  <2> SUFFICES ASSUME IInv, AllBorn PROVE Promise!Init
    OBVIOUS
  <2>1. \A n \in Names : TimesOf(n) \subseteq 1..MaxTime
    BY DEF TimesOf, Existing, IInv, Typed, TypeOK, Snapshot
  <2>2. newest \in [Names -> 0..MaxTime]
    BY <2>1, NewestTime DEF newest
  <2>3. stage \in [Names -> {"awaited", "kept", "free"}]
    BY DEF stage
  <2>4. ASSUME NEW n \in Names, stage[n] = "awaited" PROVE newest[n] = 0
    <3>1. uids[n] = 0
      BY <2>4 DEF stage
    <3>2. TimesOf(n) = {}
      BY <3>1, Unborn DEF TimesOf, Existing, IInv
    <3>3. newest[n] = Max({0} \cup TimesOf(n))
      BY DEF newest
    <3>4. newest[n] \in {0} \cup TimesOf(n)
      BY <2>1, <3>3, NewestTime
    <3> QED
      BY <3>2, <3>4
  <2> QED
    BY <2>2, <2>3, <2>4 DEF Promise!Init
<1>6. IInv /\ IInv' /\ AllBorn /\ Spared /\ Stays /\ InTime /\ Aimed /\ [Next]_vars
          => [Promise!Next]_<<newest, stage>>
  BY StepPromise
<1> QED
  BY <1>1, <1>2, <1>3, <1>4, <1>5, <1>6, Inductive, InitInductive, PTL
     DEF Spec, KeepsNewest, Promise!Spec
=============================================================================
