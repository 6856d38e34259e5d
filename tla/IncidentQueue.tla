--------------------------- MODULE IncidentQueue ---------------------------
(***************************************************************************)
(* Detecting restarts and evictions: the pod informer notifies a handler,  *)
(* which turns notifications into incidents, drops those it has seen, and  *)
(* hands the others to the workers through a bounded queue.                *)
(*                                                                         *)
(* The handler runs in one goroutine; it never waits for a worker.         *)
(***************************************************************************)
EXTENDS Naturals, FiniteSets, FiniteSetsExt, Sequences, SequencesExt

CONSTANTS
    Pods,           \* pods are told apart by UID
    Names,
    NameOf,         \* the name a pod bears; several may bear it in turn
    Containers,
    InitContainers,
    First,          \* the first container of every pod
    Workers,
    QueueSize,      \* restartDiagnosticQueueSize
    DedupeSize,     \* restartDiagnosticDedupeSize
    MaxCount,       \* bound on restarts of a container
    MaxClock,       \* bound on the clock
    MaxChanges,     \* bound on restarts and evictions
    MaxNotes,       \* bound on the notifications the handler has yet to take
    Unknown, Idle

ASSUME IncidentQueueAssumption ==
    /\ NameOf \in [Pods -> Names]
    /\ InitContainers \subseteq Containers
    /\ First \in Containers \ InitContainers
    /\ QueueSize \in Nat \ {0}
    /\ DedupeSize \in Nat \ {0}
    /\ MaxCount \in Nat \ {0}
    /\ MaxClock \in Nat \ {0}
    /\ MaxChanges \in Nat
    /\ MaxNotes \in Nat
    /\ IsFiniteSet(Pods) /\ IsFiniteSet(Containers)

\* What the informer has of a pod: which it is, how often each container restarted, when
\* it last finished (0: not reported) and whether for lack of memory.
Status == [pod : Pods, count : [Containers -> 0..MaxCount],
           finished : [Containers -> 0..MaxClock],
           oom : [Containers -> BOOLEAN], evicted : BOOLEAN]

ASSUME UnknownAssumption == Unknown \notin Status

\* An incident is what its key tells apart, and the container in focus.
Incident == [pod : Pods, total : Nat, finished : 0..MaxClock, evicted : BOOLEAN,
             container : Containers]

VARIABLES
    clock,
    changes,    \* restarts and evictions so far
    status,     \* of each pod, the last if it is gone
    phase,      \* of each pod: awaited, there, or gone
    store,      \* the informer's store, by name; Unknown where it has no pod
    notes,      \* notifications the handler has not taken yet
    ready,      \* incidents are accepted
    dedupe,     \* keys
    dedupeOrder,
    queue,
    capturing,  \* the incident each worker is at
    entered,    \* incidents queued so far (history)
    again,      \* those queued more than once (history)
    dropped,    \* incidents a full queue lost (history)
    handled,    \* last status of each pod the handler was given (history)
    passed      \* what it passes over of each pod (history)

vars == <<clock, changes, status, phase, store, notes, ready, dedupe, dedupeOrder, queue,
          capturing, entered, again, dropped, handled, passed>>
worldVars == <<clock, changes, status, phase>>

Sum(f) == FoldSet(LAMBDA c, n : f[c] + n, 0, Containers)

\* podRestartCount
Total(s) == Sum(s.count)

\* restartIncidentKey
Key(i) == <<i.pod, i.total, i.finished, i.evicted>>

TypeOK ==
    /\ clock \in 1..MaxClock
    /\ changes \in 0..MaxChanges
    /\ status \in [Pods -> Status]
    /\ \A p \in Pods : status[p].pod = p
    /\ phase \in [Pods -> {"awaited", "there", "gone"}]
    /\ DOMAIN store = Names
    /\ \A n \in Names : store[n] \in Status \cup {Unknown}
    /\ \A p \in Pods : passed[p].total \in Nat
    /\ ready \in BOOLEAN
    /\ \A i \in ToSet(queue) \cup entered \cup dropped : i \in Incident
    /\ Len(queue) <= QueueSize
    /\ \A w \in Workers : capturing[w] \in Incident \cup {Idle}
    /\ \A i \in entered : i.evicted \/ i.total > 0

Alone == \A p, q \in Pods :
    NameOf[p] = NameOf[q] /\ phase[p] = "there" /\ phase[q] = "there" => p = q

\* The containers that never restarted have nothing to report.
Fresh(p) == [pod |-> p, count |-> [c \in Containers |-> 0],
             finished |-> [c \in Containers |-> 0], oom |-> [c \in Containers |-> FALSE],
             evicted |-> FALSE]

Restarted(p) == [Fresh(p) EXCEPT !.count[First] = 1, !.finished[First] = 1]

There == {p \in Pods : phase[p] = "there"}

Bearer(n) == CHOOSE p \in There : NameOf[p] = n

\* At the start the store holds the pods of the first list, and a notification of
\* each is under way.
Init ==
    /\ clock = 1
    /\ changes = 0
    /\ phase \in [Pods -> {"awaited", "there"}]
    /\ Alone
    /\ \E restarted \in SUBSET There :
           status = [p \in Pods |-> IF p \in restarted THEN Restarted(p) ELSE Fresh(p)]
    /\ store = [n \in Names |-> IF \E p \in There : NameOf[p] = n
                               THEN status[Bearer(n)] ELSE Unknown]
    /\ notes = [i \in DOMAIN SetToSeq(There) |->
                  [old |-> Unknown, new |-> status[SetToSeq(There)[i]], deleted |-> FALSE]]
    /\ ready = FALSE
    /\ dedupe = {}
    /\ dedupeOrder = <<>>
    /\ queue = <<>>
    /\ capturing = [w \in Workers |-> Idle]
    /\ entered = {}
    /\ again = {}
    /\ dropped = {}
    /\ handled = [p \in Pods |-> Unknown]
    /\ passed = [p \in Pods |-> [total |-> 0, evicted |-> FALSE]]

-----------------------------------------------------------------------------
(* The cluster.                                                            *)

handlerVars == <<store, notes, ready, dedupe, dedupeOrder, queue, capturing, entered,
                 again, dropped, handled, passed>>

Tick ==
    /\ clock < MaxClock
    /\ clock' = clock + 1
    /\ UNCHANGED <<changes, status, phase, handlerVars>>

CountChange ==
    /\ changes < MaxChanges
    /\ changes' = changes + 1

\* The kubelet may report the restart without the termination before it.
ContainerRestarts(p, c) ==
    /\ phase[p] = "there"
    /\ ~status[p].evicted
    /\ status[p].count[c] < MaxCount
    /\ \E at \in {0, clock}, oom \in BOOLEAN :
           /\ at = 0 => ~oom
           /\ status' = [status EXCEPT ![p].count[c] = @ + 1, ![p].finished[c] = at,
                                       ![p].oom[c] = oom]
    /\ CountChange
    /\ UNCHANGED <<clock, phase, handlerVars>>

Evicted(p) ==
    /\ phase[p] = "there"
    /\ ~status[p].evicted
    /\ status' = [status EXCEPT ![p].evicted = TRUE]
    /\ CountChange
    /\ UNCHANGED <<clock, phase, handlerVars>>

\* A pod is born once the one that bore its name is gone.
Born(p) ==
    /\ phase[p] = "awaited"
    /\ \A q \in There : NameOf[q] # NameOf[p]
    /\ phase' = [phase EXCEPT ![p] = "there"]
    /\ UNCHANGED <<clock, changes, status, handlerVars>>

Removed(p) ==
    /\ phase[p] = "there"
    /\ phase' = [phase EXCEPT ![p] = "gone"]
    /\ UNCHANGED <<clock, changes, status, handlerVars>>

-----------------------------------------------------------------------------
(* The informer, which keeps pods by name.  Several changes of a pod may     *)
(* arrive as one; a deletion the watch missed and the birth of a successor   *)
(* arrive as an update from the one pod to the other.                        *)

Notify(old, new, deleted) ==
    /\ Len(notes) < MaxNotes
    /\ notes' = Append(notes, [old |-> old, new |-> new, deleted |-> deleted])

Observe(p) ==
    /\ phase[p] = "there"
    /\ store[NameOf[p]] # status[p]
    /\ Notify(store[NameOf[p]], status[p], FALSE)
    /\ store' = [store EXCEPT ![NameOf[p]] = status[p]]
    /\ UNCHANGED <<worldVars, ready, dedupe, dedupeOrder, queue, capturing, entered,
                   again, dropped, handled, passed>>

InStore(p) == store[NameOf[p]] # Unknown /\ store[NameOf[p]].pod = p

\* The last status, or the one in the store when the watch missed the deletion.
ObserveGone(p) ==
    /\ phase[p] = "gone"
    /\ InStore(p)
    /\ \E s \in {status[p], store[NameOf[p]]} : Notify(Unknown, s, TRUE)
    /\ store' = [store EXCEPT ![NameOf[p]] = Unknown]
    /\ UNCHANGED <<worldVars, ready, dedupe, dedupeOrder, queue, capturing, entered,
                   again, dropped, handled, passed>>

\* The store is filled and the first sample taken: the handler may lag behind.
Ready ==
    /\ ~ready
    /\ ready' = TRUE
    /\ UNCHANGED <<worldVars, store, notes, dedupe, dedupeOrder, queue, capturing, entered,
                   again, dropped, handled, passed>>

-----------------------------------------------------------------------------
(* detectRestartIncidents: at most one incident of a change.  Counts are   *)
(* compared whichever pod the old ones are of.                             *)

CountBefore(n, c) == IF n.old = Unknown THEN 0 ELSE n.old.count[c]

\* A mistaken Changed: init containers are not looked at.
ChangedRegular(n) == {c \in Containers \ InitContainers : n.new.count[c] > CountBefore(n, c)}

Changed(n) == {c \in Containers : n.new.count[c] > CountBefore(n, c)}

\* When a container's restart happened: at its reported end, or now.
At(s, c) == IF s.finished[c] # 0 THEN s.finished[c] ELSE clock

\* The latest, one out of memory first, an init container last.
Before(s, c, d) ==
    \/ At(s, c) > At(s, d)
    \/ At(s, c) = At(s, d) /\ s.oom[c] /\ ~s.oom[d]
    \/ At(s, c) = At(s, d) /\ s.oom[c] = s.oom[d] /\ c \notin InitContainers /\ d \in InitContainers

IncidentOf(n, c, evicted) ==
    [pod |-> n.new.pod, total |-> Total(n.new), finished |-> n.new.finished[c],
     evicted |-> evicted, container |-> c]

Eviction(n) == IncidentOf(n, First, TRUE)

\* The containers that none of the others comes before: one, or several the sort
\* leaves in their order.
Focus(n) == {c \in Changed(n) : \A d \in Changed(n) : ~Before(n.new, d, c)}

\* A mistaken Detect: deletions are not looked at.
DetectUpdates(n) ==
    IF n.deleted THEN {}
    ELSE IF n.new.evicted /\ (n.old = Unknown \/ ~n.old.evicted) THEN {Eviction(n)}
    ELSE {IncidentOf(n, c, FALSE) : c \in Focus(n)}

Detect(n) ==
    IF n.deleted THEN IF n.new.evicted THEN {Eviction(n)} ELSE {}
    ELSE IF n.new.evicted /\ (n.old = Unknown \/ ~n.old.evicted) THEN {Eviction(n)}
    ELSE {IncidentOf(n, c, FALSE) : c \in Focus(n)}

-----------------------------------------------------------------------------
(* enqueue                                                                 *)

\* The oldest key makes room for one beyond the limit.
Remember(k) ==
    LET order == Append(dedupeOrder, k)
        full  == Len(order) > DedupeSize
    IN  /\ dedupeOrder' = IF full THEN Tail(order) ELSE order
        /\ dedupe' = (dedupe \cup {k}) \ (IF full THEN {Head(order)} ELSE {})

Accept(i) ==
    /\ Remember(Key(i))
    /\ queue' = Append(queue, i)
    /\ entered' = entered \cup {i}
    /\ again' = again \cup ({i} \cap entered)

\* Mistaken forms of Enqueue: one waits for room, one does not look at the keys.
EnqueueWaiting(i) ==
    IF Key(i) \in dedupe
    THEN UNCHANGED <<dedupe, dedupeOrder, queue, entered, again, dropped>>
    ELSE /\ Len(queue) < QueueSize
         /\ Accept(i)
         /\ UNCHANGED dropped

EnqueueAgain(i) ==
    IF Len(queue) < QueueSize
    THEN Accept(i) /\ UNCHANGED dropped
    ELSE /\ dropped' = dropped \cup {i}
         /\ UNCHANGED <<dedupe, dedupeOrder, queue, entered, again>>

\* A full queue drops the incident, and its key with it.
Enqueue(i) ==
    IF Key(i) \in dedupe
    THEN UNCHANGED <<dedupe, dedupeOrder, queue, entered, again, dropped>>
    ELSE IF Len(queue) < QueueSize
    THEN Accept(i) /\ UNCHANGED dropped
    ELSE /\ dropped' = dropped \cup {i}
         /\ UNCHANGED <<dedupe, dedupeOrder, queue, entered, again>>

\* What the handler knows of the notification's pod once it took it: of a deletion,
\* whether the pod was evicted; restarts that show only then are not looked at.
Told(n) == IF n.deleted THEN [handled[n.new.pod] EXCEPT !.evicted = n.new.evicted] ELSE n.new

Replaces(n) == n.old # Unknown /\ n.old.pod # n.new.pod

\* What is never reported of the pod: all of it before BeaverDeck is ready, and of a pod
\* that arrives in the place of another what the other had as well.
Passed(n) ==
    IF ~ready THEN [total |-> Total(Told(n)), evicted |-> Told(n).evicted]
    ELSE IF Replaces(n)
    THEN [total |-> Min({Total(n.old), Total(n.new)}), evicted |-> n.old.evicted /\ n.new.evicted]
    ELSE passed[n.new.pod]

\* AddFunc, UpdateFunc, DeleteFunc
Handle ==
    /\ notes # <<>>
    /\ LET n == Head(notes)
       IN  /\ IF ready /\ Detect(n) # {}
              THEN \E i \in Detect(n) : Enqueue(i)
              ELSE UNCHANGED <<dedupe, dedupeOrder, queue, entered, again, dropped>>
           /\ handled' = [handled EXCEPT ![n.new.pod] = Told(n)]
           /\ passed' = [passed EXCEPT ![n.new.pod] = Passed(n)]
    /\ notes' = Tail(notes)
    /\ UNCHANGED <<worldVars, store, ready, capturing>>

-----------------------------------------------------------------------------
(* worker                                                                  *)

Capture(w) ==
    /\ capturing[w] = Idle
    /\ queue # <<>>
    /\ capturing' = [capturing EXCEPT ![w] = Head(queue)]
    /\ queue' = Tail(queue)
    /\ UNCHANGED <<worldVars, store, notes, ready, dedupe, dedupeOrder, entered, again,
                   dropped, handled, passed>>

\* With or without success.
Captured(w) ==
    /\ capturing[w] # Idle
    /\ capturing' = [capturing EXCEPT ![w] = Idle]
    /\ UNCHANGED <<worldVars, store, notes, ready, dedupe, dedupeOrder, queue, entered, again,
                   dropped, handled, passed>>

-----------------------------------------------------------------------------
Next ==
    \/ Tick
    \/ \E p \in Pods :
           \/ \E c \in Containers : ContainerRestarts(p, c)
           \/ Evicted(p)
           \/ Born(p)
           \/ Removed(p)
           \/ Observe(p)
           \/ ObserveGone(p)
    \/ Ready
    \/ Handle
    \/ \E w \in Workers : Capture(w) \/ Captured(w)

Spec == Init /\ [][Next]_vars

\* The handler's goroutine runs.  A capture calls the API server without a
\* deadline of its own, so nothing is asked of the workers.
FairSpec == Spec /\ WF_vars(Handle)

-----------------------------------------------------------------------------
(* Properties.                                                             *)

\* An eviction is seen when it happens and when the pod is deleted: no incident is
\* captured twice as long as there is room to remember them all.
NoneTwice ==
    again # {} => Cardinality({Key(i) : i \in entered}) > DedupeSize

Announced(p, evicted, total) ==
    \E i \in entered \cup dropped : i.pod = p /\ i.evicted = evicted /\ i.total = total

\* Whatever arrives together, a restart the handler is told of once BeaverDeck is
\* ready became an incident, unless a full queue dropped it: of regular and of
\* init containers, under its own name or under that of the pod's eviction.  Of a
\* successor that arrives as an update of its predecessor, one beyond the count of
\* either.
RestartsReported ==
    \A p \in Pods :
        handled[p] # Unknown /\ Total(handled[p]) > passed[p].total
        => \E e \in BOOLEAN : Announced(p, e, Total(handled[p]))

\* So did an eviction, also one that shows only when the pod is deleted; but not
\* that of a successor that arrives evicted as an update of an evicted pod.
EvictionsReported ==
    \A p \in Pods :
        handled[p] # Unknown /\ handled[p].evicted /\ ~passed[p].evicted
        => \E i \in entered \cup dropped : i.pod = p /\ i.evicted

\* The queue never holds up the watch, even when no worker makes progress.
WatchNeverWaits == notes # <<>> ~> notes = <<>>
=============================================================================
