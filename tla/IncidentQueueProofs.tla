------------------------ MODULE IncidentQueueProofs ------------------------
(***************************************************************************)
(* Theorems about IncidentQueue, for every set of pods, containers and     *)
(* workers, every capacity and every size of the dedupe memory.            *)
(***************************************************************************)
EXTENDS IncidentQueue, FiniteSetTheorems, WellFoundedInduction, TLAPS

-----------------------------------------------------------------------------
(* Sums.  The total of a pod's restart counts is a fold over its           *)
(* containers; what is known of it is shown by induction over their sets.  *)

\* A set of natural numbers that is not empty has a least one.
LEMMA LeastNumber ==
    ASSUME NEW T \in SUBSET Nat, T # {}
    PROVE  \E x \in T : \A y \in T : x <= y
<1> DEFINE R == OpToRel(<, Nat)
<1>1. PICK x \in T : \A y \in T : <<y, x>> \notin R
  <2> HIDE DEF R
  <2>1. IsWellFoundedOn(R, Nat)
    BY NatLessThanWellFounded DEF R
  <2> QED
    BY <2>1, WFMin
<1>2. \A y \in T : ~ (y < x)
  BY <1>1 DEF OpToRel
<1>3. \A y \in T : x <= y
  <2> TAKE y \in T
  <2>1. x \in Nat /\ y \in Nat /\ ~ (y < x)
    BY <1>2
  <2> QED
    BY <2>1
<1> QED
  BY <1>3

Pick(s) == CHOOSE c \in s : TRUE

\* What holds of no container, and of a set when it holds of the set without the
\* container a fold takes first, holds of every set of containers.
LEMMA SetInduction ==
    ASSUME NEW G, {} \in G,
           \A s \in SUBSET Containers : s # {} /\ s \ {Pick(s)} \in G => s \in G
    PROVE  SUBSET Containers \subseteq G
<1> DEFINE Bad == {n \in Nat : \E s \in SUBSET Containers : s \notin G /\ Cardinality(s) = n}
<1>1. \A s \in SUBSET Containers : IsFiniteSet(s) /\ Cardinality(s) \in Nat
  BY IncidentQueueAssumption, FS_Subset, FS_CardinalityType DEF IncidentQueueAssumption
<1>2. SUFFICES ASSUME Bad # {} PROVE FALSE
  BY <1>1
<1>3. Bad \in SUBSET Nat
  OBVIOUS
<1>4. PICK n \in Bad : \A m \in Bad : n <= m
  <2> HIDE DEF Bad
  <2> QED
    BY <1>2, <1>3, LeastNumber
<1>5. PICK s \in SUBSET Containers : s \notin G /\ Cardinality(s) = n
  BY <1>4
<1>6. s # {}
  BY <1>5
<1>7. Pick(s) \in s
  BY <1>6 DEF Pick
<1> DEFINE t == s \ {Pick(s)}
<1>8. t \in SUBSET Containers /\ Cardinality(t) = n - 1 /\ Cardinality(t) \in Nat /\ n \in Nat
  <2>1. IsFiniteSet(s) /\ IsFiniteSet(t)
    BY <1>1
  <2>2. Cardinality(t) = Cardinality(s) - 1
    BY <1>7, <2>1, FS_RemoveElement
  <2> QED
    BY <1>1, <1>3, <1>5, <2>2
<1>9. t \notin G
  BY <1>5, <1>6
<1>10. n - 1 \in Bad
  BY <1>8, <1>9
<1> QED
  BY <1>4, <1>8, <1>10

\* The sums of f over the sets of containers.
IsFold(f, sum) ==
    \A s \in SUBSET Containers :
        sum[s] = IF s = {} THEN 0 ELSE f[Pick(s)] + sum[s \ {Pick(s)}]

Recursion(f, sum) ==
    sum = [s \in SUBSET Containers |->
              IF s = {} THEN 0 ELSE f[Pick(s)] + sum[s \ {Pick(s)}]]

LEMMA PickType ==
    ASSUME NEW s \in SUBSET Containers, s # {}
    PROVE  /\ Pick(s) \in s
           /\ s \ {Pick(s)} \in SUBSET Containers
           /\ IsFiniteSet(s)
           /\ Cardinality(s) \in Nat
           /\ Cardinality(s \ {Pick(s)}) = Cardinality(s) - 1
<1>1. Pick(s) \in s
  BY DEF Pick
<1>2. IsFiniteSet(s)
  BY IncidentQueueAssumption, FS_Subset DEF IncidentQueueAssumption
<1> QED
  BY <1>1, <1>2, FS_CardinalityType, FS_RemoveElement

\* There are such sums, size by size.
LEMMA RecursionHasSolution ==
    ASSUME NEW f
    PROVE  \E sum : Recursion(f, sum)
<1> DEFINE Upto(n) == {s \in SUBSET Containers : Cardinality(s) <= n}
           Value(s, sum) == IF s = {} THEN 0 ELSE f[Pick(s)] + sum[s \ {Pick(s)}]
           Solves(n, sum) == sum = [s \in Upto(n) |-> Value(s, sum)]
           Open == {n \in Nat : \A sum : ~Solves(n, sum)}
<1>0. \A s \in SUBSET Containers : IsFiniteSet(s) /\ Cardinality(s) \in Nat
  BY IncidentQueueAssumption, FS_Subset, FS_CardinalityType DEF IncidentQueueAssumption
<1>1. Open = {}
  <2> SUFFICES ASSUME Open # {} PROVE FALSE
    OBVIOUS
  <2>1. Open \in SUBSET Nat
    OBVIOUS
  <2>2. PICK n \in Open : \A m \in Open : n <= m
    <3> HIDE DEF Open
    <3> QED
      BY <2>1, LeastNumber
  <2>3. n \in Nat /\ \A sum : ~Solves(n, sum)
    OBVIOUS
  <2>4. CASE n = 0
    <3> DEFINE sum == [s \in Upto(0) |-> 0]
    <3>1. \A s \in Upto(0) : s = {}
      BY <1>0, FS_EmptySet
    <3>2. sum = [s \in Upto(0) |-> Value(s, sum)]
      BY <3>1
    <3> QED
      BY <2>3, <2>4, <3>2
  <2>5. CASE n # 0
    <3>1. n - 1 \in Nat /\ n - 1 \notin Open
      <4>1. n - 1 \in Nat /\ ~(n <= n - 1)
        BY <2>3, <2>5
      <4> HIDE DEF Open
      <4> QED
        BY <2>2, <4>1
    <3>2. PICK part : Solves(n - 1, part)
      BY <3>1
    <3> DEFINE sum == [s \in Upto(n) |-> Value(s, part)]
    <3>3. ASSUME NEW s \in Upto(n) PROVE Value(s, sum) = Value(s, part)
      <4>1. CASE s = {}
        BY <4>1
      <4>2. CASE s # {}
        <5> DEFINE t == s \ {Pick(s)}
        <5>1. s \in SUBSET Containers /\ t \in SUBSET Containers /\ Cardinality(t) <= n - 1
          BY <2>3, <4>2, PickType
        <5>2. t \in Upto(n) /\ t \in Upto(n - 1)
          BY <1>0, <2>3, <5>1
        <5>3. sum[t] = Value(t, part)
          BY <5>2
        <5>4. part[t] = Value(t, part)
          <6> HIDE DEF Value, Upto
          <6> QED
            BY <3>2, <5>2
        <5>5. sum[t] = part[t]
          BY <5>3, <5>4
        <5> HIDE DEF sum
        <5> QED
          BY <4>2, <5>5
      <4> QED
        BY <4>1, <4>2
    <3>4. sum = [s \in Upto(n) |-> Value(s, sum)]
      BY <3>3
    <3> QED
      BY <2>3, <3>4
  <2> QED
    BY <2>4, <2>5
<1>2. IsFiniteSet(Containers) /\ Cardinality(Containers) \in Nat
  BY <1>0
<1>3. PICK sum : Solves(Cardinality(Containers), sum)
  <2>1. \A n \in Nat : \E sum : Solves(n, sum)
    <3> HIDE DEF Solves
    <3> QED
      BY <1>1
  <2> HIDE DEF Solves
  <2> QED
    BY <1>2, <2>1
<1>4. Upto(Cardinality(Containers)) = SUBSET Containers
  BY <1>2, FS_Subset
<1> QED
  BY <1>3, <1>4 DEF Recursion

\* What Sum computes.
LEMMA SumIsFold ==
    ASSUME NEW f
    PROVE  \E sum : IsFold(f, sum) /\ Sum(f) = sum[Containers]
<1> DEFINE sum == CHOOSE g : Recursion(f, g)
<1>1. Recursion(f, sum)
  BY RecursionHasSolution
<1>2. Sum(f) = sum[Containers]
  BY DEF Sum, FoldSet, MapThenFoldSet, Pick, Recursion
<1>3. IsFold(f, sum)
  <2> HIDE DEF sum
  <2> QED
    BY <1>1 DEF Recursion, IsFold
<1> QED
  BY <1>2, <1>3

Counts == [Containers -> Nat]

LEMMA FoldType ==
    ASSUME NEW f \in Counts, NEW sum, IsFold(f, sum)
    PROVE  \A s \in SUBSET Containers : sum[s] \in Nat
<1> DEFINE G == {s \in SUBSET Containers : sum[s] \in Nat}
<1>1. {} \in G
  <2>1. sum[{}] = 0
    BY DEF IsFold
  <2> QED
    BY <2>1
<1>2. ASSUME NEW s \in SUBSET Containers, s # {}, s \ {Pick(s)} \in G
      PROVE  s \in G
  <2>1. sum[s] = f[Pick(s)] + sum[s \ {Pick(s)}]
    BY <1>2 DEF IsFold
  <2>2. f[Pick(s)] \in Nat
    BY <1>2, PickType DEF Counts
  <2> QED
    BY <1>2, <2>1, <2>2
<1>3. SUBSET Containers \subseteq G
  <2> HIDE DEF G
  <2> QED
    BY <1>1, <1>2, SetInduction
<1> QED
  BY <1>3

\* Sums are natural numbers.
LEMMA SumType ==
    ASSUME NEW f \in Counts
    PROVE  Sum(f) \in Nat
BY SumIsFold, FoldType

\* A sum does not shrink when no count does, and grows when one does.
LEMMA SumGrows ==
    ASSUME NEW f \in Counts, NEW g \in Counts,
           \A c \in Containers : f[c] <= g[c]
    PROVE  /\ Sum(f) <= Sum(g)
           /\ \A c \in Containers : f[c] < g[c] => Sum(f) < Sum(g)
<1>1. PICK a : IsFold(f, a) /\ Sum(f) = a[Containers]
  BY SumIsFold
<1>2. PICK b : IsFold(g, b) /\ Sum(g) = b[Containers]
  BY SumIsFold
<1>3. \A s \in SUBSET Containers : a[s] \in Nat /\ b[s] \in Nat
  BY <1>1, <1>2, FoldType
<1> DEFINE G == {s \in SUBSET Containers :
                    /\ a[s] <= b[s]
                    /\ \A c \in s : f[c] < g[c] => a[s] < b[s]}
<1>4. {} \in G
  <2>1. a[{}] = 0 /\ b[{}] = 0
    BY <1>1, <1>2 DEF IsFold
  <2> QED
    BY <2>1
<1>5. ASSUME NEW s \in SUBSET Containers, s # {}, s \ {Pick(s)} \in G
      PROVE  s \in G
  <2> DEFINE p == Pick(s)
             t == s \ {p}
  <2>1. a[s] = f[p] + a[t] /\ b[s] = g[p] + b[t]
    BY <1>1, <1>2, <1>5 DEF IsFold
  <2>2. p \in s /\ t \in SUBSET Containers
    BY <1>5, PickType
  <2>3. f[p] \in Nat /\ g[p] \in Nat /\ f[p] <= g[p]
    BY <2>2 DEF Counts
  <2>4. a[t] \in Nat /\ b[t] \in Nat /\ a[t] <= b[t]
    BY <1>3, <1>5, <2>2
  <2>5. a[s] <= b[s]
    BY <2>1, <2>3, <2>4
  <2>6. ASSUME NEW c \in s, f[c] < g[c] PROVE a[s] < b[s]
    <3>1. CASE c = p
      BY <2>1, <2>3, <2>4, <2>6, <3>1
    <3>2. CASE c # p
      <4>1. a[t] < b[t]
        BY <1>5, <2>6, <3>2
      <4> QED
        BY <2>1, <2>3, <2>4, <4>1
    <3> QED
      BY <3>1, <3>2
  <2> QED
    BY <2>5, <2>6
<1>6. SUBSET Containers \subseteq G
  <2> HIDE DEF G
  <2> QED
    BY <1>4, <1>5, SetInduction
<1>7. Containers \in G
  BY <1>6
<1> QED
  BY <1>1, <1>2, <1>7

-----------------------------------------------------------------------------
(* The inductive invariant.                                                *)

Note == [old : Status \cup {Unknown}, new : Status, deleted : BOOLEAN]
Keys == Pods \X Nat \X (0..MaxClock) \X BOOLEAN

Typed ==
    /\ TypeOK
    /\ store \in [Names -> Status \cup {Unknown}]
    /\ notes \in Seq(Note)
    /\ dedupeOrder \in Seq(Keys)
    /\ queue \in Seq(Incident)
    /\ capturing \in [Workers -> Incident \cup {Idle}]
    /\ handled \in [Pods -> Status \cup {Unknown}]
    /\ passed \in [Pods -> [total : Nat, evicted : BOOLEAN]]

\* A pod's counts only grow, and an eviction is for good.
Later(s, t) ==
    /\ \A c \in Containers : s.count[c] <= t.count[c]
    /\ s.evicted => t.evicted

\* What the handler will have been given last of a pod before the k-th notification.
GivenBefore(s, p, k) ==
    \/ /\ handled[p] = s
       /\ \A j \in 1..(k - 1) : notes[j].new.pod # p
    \/ \E j \in 1..(k - 1) :
           /\ notes[j].new.pod = p
           /\ notes[j].new = s
           /\ \A m \in (j + 1)..(k - 1) : notes[m].new.pod # p

\* The old status is of the same pod.
Continues(n) == n.old # Unknown /\ n.old.pod = n.new.pod

\* The informer's status of a pod.
Held(p) == IF InStore(p) THEN store[NameOf[p]] ELSE Unknown

\* A notification starts from what was given last, in the order of the changes; a
\* pod is new to the handler when it arrives, be it in the place of another; of a
\* deleted pod nothing follows.
Linked(n, k) ==
    /\ Continues(n) => GivenBefore(n.old, n.new.pod, k) /\ Later(n.old, n.new)
    /\ ~Continues(n) /\ ~n.deleted =>
           /\ handled[n.new.pod] = Unknown
           /\ \A j \in 1..(k - 1) : notes[j].new.pod # n.new.pod
    /\ n.deleted =>
           /\ n.old = Unknown
           /\ \E s \in Status : GivenBefore(s, n.new.pod, k)
           /\ Held(n.new.pod) = Unknown /\ phase[n.new.pod] = "gone"
           /\ \A m \in (k + 1)..Len(notes) : notes[m].new.pod # n.new.pod

Chained == \A k \in 1..Len(notes) : \A n \in {notes[k]} : Linked(n, k)

\* The informer's store is where the notifications lead, and behind the cluster.
Stored ==
    \A p \in Pods : Held(p) # Unknown =>
        /\ GivenBefore(Held(p), p, Len(notes) + 1)
        /\ Later(Held(p), status[p])
        /\ phase[p] # "awaited"

\* Of a pod that is not in the store and not gone the handler was told nothing.
Unseen ==
    \A p \in Pods : phase[p] # "gone" /\ Held(p) = Unknown =>
        /\ handled[p] = Unknown
        /\ \A j \in 1..Len(notes) : notes[j].new.pod # p

EnteredKeys == {Key(i) : i \in entered}

\* The memory holds keys of queued incidents only, and all of them as long as
\* they fit.
Remembered ==
    /\ dedupe \subseteq EnteredKeys
    /\ IsFiniteSet(EnteredKeys)
    /\ Cardinality(EnteredKeys) <= DedupeSize =>
           /\ dedupe = EnteredKeys
           /\ Len(dedupeOrder) = Cardinality(EnteredKeys)
           /\ again = {}

Core == Typed /\ Alone /\ Chained /\ Stored /\ Unseen /\ Remembered

Reported == RestartsReported /\ EvictionsReported

IInv == Core /\ Reported

-----------------------------------------------------------------------------
(* Facts about the data.                                                   *)

LEMMA TotalType ==
    ASSUME NEW s \in Status
    PROVE  Total(s) \in Nat
<1>1. s.count \in Counts
  BY IncidentQueueAssumption DEF Status, Counts, IncidentQueueAssumption
<1> QED
  BY <1>1, SumType DEF Total

LEMMA TotalGrows ==
    ASSUME NEW s \in Status, NEW t \in Status,
           \A c \in Containers : s.count[c] <= t.count[c]
    PROVE  /\ Total(s) <= Total(t)
           /\ \A c \in Containers : s.count[c] < t.count[c] => Total(s) < Total(t)
<1>1. s.count \in Counts /\ t.count \in Counts
  BY IncidentQueueAssumption DEF Status, Counts, IncidentQueueAssumption
<1> QED
  BY <1>1, SumGrows DEF Total

\* A status without a restart has none in total, and one with a restart has some.
LEMMA TotalOfNone ==
    ASSUME NEW s \in Status
    PROVE  /\ (\A c \in Containers : s.count[c] = 0) => Total(s) = 0
           /\ \A c \in Containers : s.count[c] > 0 => Total(s) > 0
<1> DEFINE none == [c \in Containers |-> 0]
<1>1. s.count \in Counts /\ none \in Counts
  BY IncidentQueueAssumption DEF Status, Counts, IncidentQueueAssumption
<1>2. Sum(none) = 0
  <2>1. PICK a : IsFold(none, a) /\ Sum(none) = a[Containers]
    BY SumIsFold
  <2> DEFINE G == {t \in SUBSET Containers : a[t] = 0}
  <2>2. {} \in G
    <3>1. a[{}] = 0
      BY <2>1 DEF IsFold
    <3> QED
      BY <3>1
  <2>3. ASSUME NEW t \in SUBSET Containers, t # {}, t \ {Pick(t)} \in G
        PROVE  t \in G
    <3>1. a[t] = none[Pick(t)] + a[t \ {Pick(t)}]
      BY <2>1, <2>3 DEF IsFold
    <3>2. Pick(t) \in Containers
      BY <2>3, PickType
    <3> QED
      BY <2>3, <3>1, <3>2
  <2>4. SUBSET Containers \subseteq G
    <3> HIDE DEF G
    <3> QED
      BY <2>2, <2>3, SetInduction
  <2> QED
    BY <2>1, <2>4
<1>3. ASSUME \A c \in Containers : s.count[c] = 0 PROVE Total(s) = 0
  <2>1. s.count = none
    BY <1>1, <1>3 DEF Counts
  <2> QED
    BY <1>2, <2>1 DEF Total
<1>4. ASSUME NEW c \in Containers, s.count[c] > 0 PROVE Total(s) > 0
  <2>1. \A d \in Containers : none[d] <= s.count[d]
    BY <1>1 DEF Counts
  <2>2. none[c] < s.count[c]
    BY <1>4
  <2>3. Sum(none) < Sum(s.count)
    <3> HIDE DEF none
    <3> QED
      BY <1>1, <2>1, <2>2, SumGrows
  <2> QED
    BY <1>2, <2>3, <1>1, SumType DEF Total
<1> QED
  BY <1>3, <1>4

LEMMA IncidentType ==
    ASSUME NEW n \in Note, NEW c \in Containers, NEW e \in BOOLEAN
    PROVE  IncidentOf(n, c, e) \in Incident
<1>1. n.new.pod \in Pods /\ n.new \in Status
  BY DEF Note, Status
<1>2. Total(n.new) \in Nat /\ n.new.finished[c] \in 0..MaxClock
  BY <1>1, TotalType DEF Status
<1> QED
  BY <1>1, <1>2 DEF IncidentOf, Incident

\* The counts a notification compares are numbers.
LEMMA CountType ==
    ASSUME NEW n \in Note, NEW c \in Containers
    PROVE  /\ n.new.count[c] \in Nat
           /\ CountBefore(n, c) \in Nat
           /\ n.old # Unknown => n.old \in Status /\ CountBefore(n, c) = n.old.count[c]
           /\ n.old = Unknown => CountBefore(n, c) = 0
<1>1. n.new \in Status /\ n.old \in Status \cup {Unknown}
  BY DEF Note
<1>2. \A s \in Status : s.count[c] \in Nat
  BY IncidentQueueAssumption DEF Status, IncidentQueueAssumption
<1> QED
  BY <1>1, <1>2 DEF CountBefore

\* What is detected is of the pod and its total; unless it is an eviction, some
\* container restarted.
LEMMA DetectFacts ==
    ASSUME NEW n \in Note, NEW i \in Detect(n)
    PROVE  /\ i \in Incident
           /\ i.pod = n.new.pod
           /\ i.total = Total(n.new)
           /\ i.evicted \/ Total(n.new) > 0
           /\ ~i.evicted => ~n.deleted /\ Changed(n) # {}
<1>1. First \in Containers
  BY IncidentQueueAssumption DEF IncidentQueueAssumption
<1>2. CASE i = Eviction(n)
  BY <1>1, <1>2, IncidentType DEF Eviction, IncidentOf
<1>3. CASE i # Eviction(n)
  <2>1. ~n.deleted /\ \E c \in Focus(n) : i = IncidentOf(n, c, FALSE)
    BY <1>3 DEF Detect
  <2>2. PICK c \in Focus(n) : i = IncidentOf(n, c, FALSE)
    BY <2>1
  <2>3. c \in Changed(n) /\ c \in Containers
    BY DEF Focus, Changed
  <2>4. n.new.count[c] > 0
    BY <2>3, CountType DEF Changed
  <2>5. n.new \in Status
    BY DEF Note
  <2>6. Total(n.new) > 0
    BY <2>3, <2>4, <2>5, TotalOfNone
  <2> QED
    BY <2>1, <2>2, <2>3, <2>6, IncidentType DEF IncidentOf
<1> QED
  BY <1>2, <1>3

\* Some container is in focus whenever one restarted: the order of the sort has no
\* circles, for it is that of a number.
LEMMA SomeInFocus ==
    ASSUME NEW n \in Note, Changed(n) # {}, clock \in Nat
    PROVE  Focus(n) # {}
<1> DEFINE s == n.new
           rank(c) == 4 * At(s, c) + (IF s.oom[c] THEN 2 ELSE 0) + (IF c \in InitContainers THEN 0 ELSE 1)
           top == 4 * (MaxClock + clock) + 3
           D == {top - rank(c) : c \in Changed(n)}
<1>1. s \in Status /\ MaxClock \in Nat
  BY IncidentQueueAssumption DEF Note, IncidentQueueAssumption
<1>2. ASSUME NEW c \in Containers
      PROVE  At(s, c) \in Nat /\ At(s, c) <= MaxClock + clock /\ s.oom[c] \in BOOLEAN
  <2>1. s.finished[c] \in 0..MaxClock /\ s.oom[c] \in BOOLEAN
    BY <1>1 DEF Status
  <2> QED
    BY <1>1, <2>1 DEF At
<1>3. Changed(n) \subseteq Containers
  BY DEF Changed
<1>4. \A c \in Containers : rank(c) \in Nat /\ top - rank(c) \in Nat
  <2> TAKE c \in Containers
  <2>1. At(s, c) \in Nat /\ At(s, c) <= MaxClock + clock
    BY <1>2
  <2> DEFINE o == IF s.oom[c] THEN 2 ELSE 0
             r == IF c \in InitContainers THEN 0 ELSE 1
  <2>2. o \in 0..2 /\ r \in 0..1
    OBVIOUS
  <2>3. rank(c) = 4 * At(s, c) + o + r
    OBVIOUS
  <2> HIDE DEF o, r, rank
  <2> QED
    BY <1>1, <2>1, <2>2, <2>3
<1>5. D \in SUBSET Nat /\ D # {}
  BY <1>3, <1>4
<1>6. PICK x \in D : \A y \in D : x <= y
  <2> HIDE DEF D
  <2> QED
    BY <1>5, LeastNumber
<1>7. PICK c \in Changed(n) : x = top - rank(c)
  BY <1>6
<1>8. ASSUME NEW d \in Changed(n), Before(s, d, c) PROVE FALSE
  <2>1. top - rank(c) <= top - rank(d)
    BY <1>6, <1>7
  <2>2. rank(c) \in Nat /\ rank(d) \in Nat /\ top \in Nat
    BY <1>1, <1>3, <1>4
  <2>3. rank(d) <= rank(c)
    <3> HIDE DEF rank, top
    <3> QED
      BY <2>1, <2>2
  <2>4. At(s, c) \in Nat /\ At(s, d) \in Nat /\ s.oom[c] \in BOOLEAN /\ s.oom[d] \in BOOLEAN
    BY <1>2, <1>3
  <2>5. CASE At(s, d) > At(s, c)
    BY <2>3, <2>4, <2>5
  <2>6. CASE At(s, d) = At(s, c) /\ s.oom[d] /\ ~s.oom[c]
    BY <2>3, <2>4, <2>6
  <2>7. CASE /\ At(s, d) = At(s, c) /\ s.oom[d] = s.oom[c]
             /\ d \notin InitContainers /\ c \in InitContainers
    BY <2>3, <2>4, <2>7
  <2> QED
    BY <1>8, <2>5, <2>6, <2>7 DEF Before
<1>9. c \in Focus(n)
  BY <1>8 DEF Focus
<1> QED
  BY <1>9

LEMMA KeyFacts ==
    ASSUME NEW i \in Incident
    PROVE  /\ Key(i) \in Keys
           /\ \A j \in Incident : Key(i) = Key(j) =>
                  i.pod = j.pod /\ i.total = j.total /\ i.evicted = j.evicted
BY DEF Key, Keys, Incident

-----------------------------------------------------------------------------
(* The incidents that are queued, and the memory of their keys.            *)

\* What enqueue does with an incident: it is queued, dropped, or has the key of
\* one that was queued; only then is nothing added.
LEMMA EnqueueType ==
    ASSUME Typed, Remembered, NEW i \in Incident, i.evicted \/ i.total > 0, Enqueue(i)
    PROVE  /\ dedupeOrder' \in Seq(Keys)
           /\ queue' \in Seq(Incident) /\ Len(queue') <= QueueSize
           /\ entered \subseteq entered' /\ entered' \subseteq entered \cup {i}
           /\ dropped \subseteq dropped' /\ dropped' \subseteq dropped \cup {i}
           /\ \E j \in entered' \cup dropped' :
                  j.pod = i.pod /\ j.total = i.total /\ j.evicted = i.evicted
<1>1. /\ dedupeOrder \in Seq(Keys) /\ queue \in Seq(Incident) /\ Len(queue) <= QueueSize
      /\ QueueSize \in Nat /\ entered \subseteq Incident
  BY IncidentQueueAssumption DEF Typed, TypeOK, IncidentQueueAssumption
<1>2. CASE Key(i) \in dedupe
  <2>1. UNCHANGED <<dedupe, dedupeOrder, queue, entered, again, dropped>>
    BY <1>2 DEF Enqueue
  <2>2. PICK j \in entered : Key(j) = Key(i)
    BY <1>2 DEF Remembered, EnteredKeys
  <2>3. j.pod = i.pod /\ j.total = i.total /\ j.evicted = i.evicted
    BY <1>1, <2>2, KeyFacts
  <2> QED
    BY <1>1, <2>1, <2>3
<1>3. CASE Key(i) \notin dedupe /\ Len(queue) < QueueSize
  <2>1. Accept(i) /\ UNCHANGED dropped
    BY <1>3 DEF Enqueue
  <2>2. queue' = Append(queue, i) /\ entered' = entered \cup {i}
    BY <2>1 DEF Accept
  <2>3. Append(dedupeOrder, Key(i)) \in Seq(Keys) /\ Append(dedupeOrder, Key(i)) # <<>>
    BY <1>1, KeyFacts
  <2>4. dedupeOrder' \in Seq(Keys)
    BY <2>1, <2>3 DEF Accept, Remember
  <2>5. queue' \in Seq(Incident) /\ Len(queue') <= QueueSize
    BY <1>1, <1>3, <2>2
  <2> QED
    BY <2>1, <2>2, <2>4, <2>5
<1>4. CASE Key(i) \notin dedupe /\ ~(Len(queue) < QueueSize)
  BY <1>1, <1>4 DEF Enqueue
<1> QED
  BY <1>2, <1>3, <1>4

\* The memory holds every key as long as there is room: an incident whose key it
\* does not hold is then a new one, and adding its key pushes no other out.
LEMMA EnqueueRemembers ==
    ASSUME Typed, Remembered, NEW i \in Incident, Enqueue(i)
    PROVE  Remembered'
<1>1. /\ dedupeOrder \in Seq(Keys) /\ DedupeSize \in Nat
      /\ dedupe \subseteq EnteredKeys /\ IsFiniteSet(EnteredKeys)
      /\ Cardinality(EnteredKeys) \in Nat
      /\ IsFiniteSet(EnteredKeys \cup {Key(i)})
      /\ Cardinality(EnteredKeys \cup {Key(i)}) =
             IF Key(i) \in EnteredKeys THEN Cardinality(EnteredKeys) ELSE Cardinality(EnteredKeys) + 1
  BY IncidentQueueAssumption, FS_CardinalityType, FS_AddElement
  DEF Typed, Remembered, IncidentQueueAssumption
<1>2. CASE ~(Key(i) \notin dedupe /\ Len(queue) < QueueSize)
  <2>1. UNCHANGED <<dedupe, dedupeOrder, entered, again>>
    BY <1>2 DEF Enqueue
  <2>2. EnteredKeys' = EnteredKeys
    BY <2>1 DEF EnteredKeys, Key
  <2> QED
    BY <2>1, <2>2 DEF Remembered
<1>3. CASE Key(i) \notin dedupe /\ Len(queue) < QueueSize
  <2>1. Accept(i)
    BY <1>3 DEF Enqueue
  <2> DEFINE k == Key(i)
             order == Append(dedupeOrder, k)
             full == Len(order) > DedupeSize
  <2>2. /\ entered' = entered \cup {i}
        /\ again' = again \cup ({i} \cap entered)
        /\ dedupeOrder' = (IF full THEN Tail(order) ELSE order)
        /\ dedupe' = (dedupe \cup {k}) \ (IF full THEN {Head(order)} ELSE {})
    BY <2>1 DEF Accept, Remember
  <2>3. EnteredKeys' = EnteredKeys \cup {k}
    BY <2>2 DEF EnteredKeys, Key
  <2>4. dedupe' \subseteq EnteredKeys'
    BY <1>1, <2>2, <2>3
  <2>5. ASSUME Cardinality(EnteredKeys') <= DedupeSize
        PROVE  dedupe' = EnteredKeys' /\ Len(dedupeOrder') = Cardinality(EnteredKeys') /\ again' = {}
    <3>1. Cardinality(EnteredKeys) <= DedupeSize
      BY <1>1, <2>3, <2>5
    <3>2. dedupe = EnteredKeys /\ Len(dedupeOrder) = Cardinality(EnteredKeys) /\ again = {}
      BY <3>1 DEF Remembered
    <3>3. k \notin EnteredKeys
      BY <1>3, <3>2
    <3>4. Cardinality(EnteredKeys') = Cardinality(EnteredKeys) + 1
      BY <1>1, <2>3, <3>3
    <3>5. Len(order) = Len(dedupeOrder) + 1
      BY <1>1, KeyFacts
    <3>6. ~full
      BY <1>1, <2>5, <3>2, <3>4, <3>5
    <3>7. i \notin entered
      BY <3>3 DEF EnteredKeys
    <3> HIDE DEF k, order, full
    <3> QED
      BY <2>2, <2>3, <3>2, <3>4, <3>5, <3>6, <3>7
  <2> QED
    BY <1>1, <2>3, <2>4, <2>5 DEF Remembered
<1> QED
  BY <1>2, <1>3

-----------------------------------------------------------------------------
(* The chain of notifications.                                             *)

\* A notification at the end changes nothing for those before it.
LEMMA GivenStays ==
    ASSUME NEW s, NEW p, NEW x \in Note, notes \in Seq(Note), notes' = Append(notes, x),
           handled' = handled, NEW k \in 1..(Len(notes) + 1), GivenBefore(s, p, k)
    PROVE  GivenBefore(s, p, k)'
<1>1. \A j \in 1..(k - 1) : notes'[j] = notes[j]
  OBVIOUS
<1>2. CASE handled[p] = s /\ \A j \in 1..(k - 1) : notes[j].new.pod # p
  BY <1>1, <1>2 DEF GivenBefore
<1>3. ASSUME NEW j \in 1..(k - 1), notes[j].new.pod = p, notes[j].new = s,
             \A m \in (j + 1)..(k - 1) : notes[m].new.pod # p
      PROVE  GivenBefore(s, p, k)'
  <2>1. \A m \in (j + 1)..(k - 1) : m \in 1..(k - 1)
    OBVIOUS
  <2> QED
    BY <1>1, <1>3, <2>1 DEF GivenBefore
<1> QED
  BY <1>2, <1>3 DEF GivenBefore

\* After it, its pod will have been given its status, another what it was.
LEMMA GivenNext ==
    ASSUME NEW x \in Note, notes \in Seq(Note), notes' = Append(notes, x),
           NEW l \in Nat, l = Len(notes)
    PROVE  GivenBefore(x.new, x.new.pod, l + 2)'
<1>1. notes'[l + 1] = x
  OBVIOUS
<1>2. l + 1 \in 1..((l + 2) - 1) /\ \A m \in (l + 1 + 1)..((l + 2) - 1) : FALSE
  BY <1>1
<1>3. \E j \in 1..((l + 2) - 1) :
          /\ notes'[j].new.pod = x.new.pod
          /\ notes'[j].new = x.new
          /\ \A m \in (j + 1)..((l + 2) - 1) : notes'[m].new.pod # x.new.pod
  BY <1>1, <1>2
<1> QED
  BY <1>3 DEF GivenBefore

LEMMA GivenNextOther ==
    ASSUME NEW s, NEW p, NEW x \in Note, notes \in Seq(Note), notes' = Append(notes, x),
           handled' = handled, p # x.new.pod,
           NEW l \in Nat, l = Len(notes), GivenBefore(s, p, l + 1)
    PROVE  GivenBefore(s, p, l + 2)'
<1>1. /\ notes'[l + 1] = x
      /\ \A j \in 1..l : notes'[j] = notes[j]
      /\ l + 1 - 1 = l /\ (l + 2) - 1 = l + 1
  OBVIOUS
<1>2. \A j \in 1..(l + 1) : j \in 1..l \/ j = l + 1
  BY <1>1
<1>3. CASE handled[p] = s /\ \A j \in 1..l : notes[j].new.pod # p
  <2>1. \A j \in 1..(l + 1) : notes'[j].new.pod # p
    BY <1>1, <1>2, <1>3
  <2> QED
    BY <1>1, <1>3, <2>1 DEF GivenBefore
<1>4. ASSUME NEW j \in 1..l, notes[j].new.pod = p, notes[j].new = s,
             \A m \in (j + 1)..l : notes[m].new.pod # p
      PROVE  GivenBefore(s, p, l + 2)'
  <2>1. j \in 1..(l + 1)
    BY <1>1
  <2>2. \A m \in (j + 1)..(l + 1) : notes'[m].new.pod # p
    <3> TAKE m \in (j + 1)..(l + 1)
    <3>1. m \in (j + 1)..l \/ m = l + 1
      BY <1>1
    <3>2. m \in 1..(l + 1)
      BY <1>1
    <3> QED
      BY <1>1, <1>2, <1>4, <3>1, <3>2
  <2>3. \E i \in 1..((l + 2) - 1) :
            /\ notes'[i].new.pod = p
            /\ notes'[i].new = s
            /\ \A m \in (i + 1)..((l + 2) - 1) : notes'[m].new.pod # p
    <3>1. notes'[j].new.pod = p /\ notes'[j].new = s /\ (l + 2) - 1 = l + 1
      BY <1>1, <1>4
    <3> QED
      BY <2>1, <2>2, <3>1
  <2> QED
    BY <2>3, Zenon DEF GivenBefore
<1>5. \/ handled[p] = s /\ \A j \in 1..l : notes[j].new.pod # p
      \/ \E j \in 1..l : /\ notes[j].new.pod = p
                         /\ notes[j].new = s
                         /\ \A m \in (j + 1)..l : notes[m].new.pod # p
  BY <1>1 DEF GivenBefore
<1> QED
  BY <1>3, <1>4, <1>5

\* A notification taken from the front: what its pod was given is its status.
LEMMA GivenTaken ==
    ASSUME NEW s \in Status, NEW p \in Pods, notes \in Seq(Note), notes # <<>>, notes' = Tail(notes),
           NEW k \in 2..(Len(notes) + 1), GivenBefore(s, p, k),
           p # notes[1].new.pod => handled'[p] = handled[p],
           p = notes[1].new.pod => handled'[p] = notes[1].new
    PROVE  GivenBefore(s, p, k - 1)'
<1> DEFINE l == Len(notes)
<1>1. /\ l \in Nat /\ l > 0 /\ Len(notes') = l - 1
      /\ \A j \in 1..(l - 1) : notes'[j] = notes[j + 1]
      /\ k \in Nat /\ k >= 2 /\ k <= l + 1
  OBVIOUS
<1>2. CASE handled[p] = s /\ \A j \in 1..(k - 1) : notes[j].new.pod # p
  <2>1. 1 \in 1..(k - 1)
    BY <1>1
  <2>2. handled'[p] = s
    BY <1>2, <2>1
  <2>3. \A j \in 1..(k - 1 - 1) : notes'[j].new.pod # p
    <3> TAKE j \in 1..(k - 1 - 1)
    <3>1. j \in 1..(l - 1) /\ j + 1 \in 1..(k - 1)
      BY <1>1
    <3> QED
      BY <1>1, <1>2, <3>1
  <2> QED
    BY <2>2, <2>3 DEF GivenBefore
<1>3. ASSUME NEW j \in 1..(k - 1), notes[j].new.pod = p, notes[j].new = s,
             \A m \in (j + 1)..(k - 1) : notes[m].new.pod # p
      PROVE  GivenBefore(s, p, k - 1)'
  <2>1. \A m \in j..(k - 1 - 1) : m >= 1 => notes'[m].new.pod # p
    <3> TAKE m \in j..(k - 1 - 1)
    <3> HAVE m >= 1
    <3>1. m \in 1..(l - 1) /\ m + 1 \in (j + 1)..(k - 1)
      BY <1>1
    <3> QED
      BY <1>1, <1>3, <3>1
  <2>2. CASE j = 1
    <3>1. handled'[p] = s
      BY <1>3, <2>2
    <3>2. \A m \in 1..(k - 1 - 1) : notes'[m].new.pod # p
      BY <2>1, <2>2
    <3> QED
      BY <3>1, <3>2 DEF GivenBefore
  <2>3. CASE j # 1
    <3>1. j - 1 \in 1..(k - 1 - 1) /\ j - 1 \in 1..(l - 1) /\ (j - 1) + 1 = j
      BY <1>1, <2>3
    <3>2. notes'[j - 1] = notes[j]
      BY <1>1, <3>1
    <3>3. \A m \in (j - 1 + 1)..(k - 1 - 1) : notes'[m].new.pod # p
      BY <2>1, <3>1
    <3>4. \E i \in 1..(k - 1 - 1) :
              /\ notes'[i].new.pod = p
              /\ notes'[i].new = s
              /\ \A m \in (i + 1)..(k - 1 - 1) : notes'[m].new.pod # p
      BY <1>3, <3>1, <3>2, <3>3
    <3> QED
      BY <3>4 DEF GivenBefore
  <2> QED
    BY <2>2, <2>3
<1> QED
  BY <1>2, <1>3 DEF GivenBefore

\* What the informer adds: a change, that starts from its store, a pod that is new to
\* it, which may take the place of one that is gone, or a deletion.
LEMMA NotifyPreserves ==
    ASSUME Typed, Chained, Stored, Unseen, NEW p \in Pods, NEW x \in Note, x.new.pod = p,
           UNCHANGED <<status, phase, handled>>, notes' = Append(notes, x),
           \A q \in Pods : q # p => \/ Held(q)' = Held(q)
                                    \/ Held(q)' = Unknown /\ phase[q] = "gone",
           \/ /\ Held(p) # Unknown /\ x.old = Held(p) /\ Continues(x) /\ ~x.deleted
              /\ x.new = status[p] /\ Held(p)' = status[p] /\ phase[p] = "there"
           \/ /\ Held(p) = Unknown /\ ~Continues(x) /\ ~x.deleted
              /\ x.new = status[p] /\ Held(p)' = status[p] /\ phase[p] = "there"
           \/ /\ Held(p) # Unknown /\ x.old = Unknown /\ x.deleted
              /\ Held(p)' = Unknown /\ phase[p] = "gone"
    PROVE  Chained' /\ Stored' /\ Unseen'
<1>1. PICK l \in Nat : l = Len(notes)
  BY DEF Typed
<1>2. /\ notes \in Seq(Note) /\ status \in [Pods -> Status]
      /\ Len(notes') = l + 1 /\ notes'[l + 1] = x
      /\ \A j \in 1..l : notes'[j] = notes[j] /\ notes[j] \in Note
  BY <1>1 DEF Typed, TypeOK
<1>3. /\ \A q \in Pods : Held(q) \in Status \cup {Unknown}
      /\ \A n \in Note : n.new.pod \in Pods
  BY IncidentQueueAssumption DEF Typed, Held, InStore, Note, Status, IncidentQueueAssumption
<1>4. Held(p) # Unknown => GivenBefore(Held(p), p, l + 1) /\ Later(Held(p), status[p])
  BY <1>1 DEF Stored
<1>5. Held(p) = Unknown /\ phase[p] # "gone" =>
          handled[p] = Unknown /\ \A j \in 1..l : notes[j].new.pod # p
  BY <1>1 DEF Unseen
<1>7. ASSUME NEW k \in 1..Len(notes'), NEW n \in {notes'[k]}
      PROVE  Linked(n, k)'
  <2>1. CASE k = l + 1
    <3>1. n = x /\ (k - 1) = l /\ k \in Nat
      BY <1>1, <1>2, <2>1
    <3>2. CASE /\ Held(p) # Unknown /\ x.old = Held(p) /\ Continues(x) /\ ~x.deleted
               /\ x.new = status[p]
      <4>1. GivenBefore(x.old, p, l + 1)' /\ Later(x.old, x.new)
        <5>1. GivenBefore(x.old, p, l + 1)
          BY <1>4, <3>2
        <5>2. l + 1 \in 1..(Len(notes) + 1)
          BY <1>1
        <5> QED
          BY <1>2, <1>4, <3>2, <5>1, <5>2, GivenStays
      <4> QED
        BY <2>1, <3>1, <3>2, <4>1 DEF Linked, Later, Continues
    <3>3. CASE Held(p) = Unknown /\ ~Continues(x) /\ ~x.deleted /\ phase[p] = "there"
      <4>1. handled'[p] = Unknown /\ \A j \in 1..l : notes'[j].new.pod # p
        BY <1>2, <1>5, <3>3
      <4> QED
        BY <3>1, <3>3, <4>1 DEF Linked, Continues
    <3>4. CASE /\ Held(p) # Unknown /\ x.old = Unknown /\ x.deleted
               /\ Held(p)' = Unknown /\ phase[p] = "gone"
      <4>1. \A m \in (k + 1)..Len(notes') : FALSE
        BY <1>1, <1>2, <2>1
      <4>2. \E s \in Status : GivenBefore(s, p, l + 1)'
        <5>1. PICK s \in Status : s = Held(p)
          BY <1>3, <3>4
        <5>2. l + 1 \in 1..(Len(notes) + 1) /\ GivenBefore(s, p, l + 1)
          BY <1>1, <1>4, <3>4, <5>1
        <5> QED
          BY <1>2, <5>2, GivenStays
      <4>3. ~Continues(x)
        BY <3>4 DEF Continues
      <4> QED
        BY <2>1, <3>1, <3>4, <4>1, <4>2, <4>3 DEF Linked, Continues
    <3> QED
      BY <3>2, <3>3, <3>4
  <2>2. CASE k # l + 1
    <3>1. k \in 1..l /\ k \in 1..(Len(notes) + 1)
      BY <1>1, <1>2, <2>2
    <3>2. n = notes[k] /\ n \in Note /\ n.new.pod \in Pods
      BY <1>2, <1>3, <3>1
    <3>3. Linked(n, k)
      BY <1>1, <3>1, <3>2 DEF Chained
    <3>4. \A o : GivenBefore(o, n.new.pod, k) => GivenBefore(o, n.new.pod, k)'
      <4> TAKE o
      <4> HAVE GivenBefore(o, n.new.pod, k)
      <4> QED
        BY <1>2, <3>1, GivenStays
    <3>5. Continues(n) => (GivenBefore(n.old, n.new.pod, k) /\ Later(n.old, n.new))'
      BY <3>3, <3>4 DEF Linked, Later
    <3>6. ~Continues(n) /\ ~n.deleted =>
              /\ handled'[n.new.pod] = Unknown
              /\ \A j \in 1..(k - 1) : notes'[j].new.pod # n.new.pod
      <4>1. \A j \in 1..(k - 1) : j \in 1..l
        BY <1>1, <3>1
      <4> QED
        BY <1>2, <3>3, <4>1 DEF Linked
    <3>7. ASSUME n.deleted
          PROVE  /\ n.old = Unknown
                 /\ \E o \in Status : GivenBefore(o, n.new.pod, k)'
                 /\ Held(n.new.pod)' = Unknown /\ phase'[n.new.pod] = "gone"
                 /\ \A m \in (k + 1)..Len(notes') : notes'[m].new.pod # n.new.pod
      <4>1. /\ n.old = Unknown
            /\ \E o \in Status : GivenBefore(o, n.new.pod, k)
            /\ Held(n.new.pod) = Unknown /\ phase[n.new.pod] = "gone"
            /\ \A m \in (k + 1)..l : notes[m].new.pod # n.new.pod
        BY <1>1, <3>3, <3>7 DEF Linked
      <4>2. n.new.pod # p /\ Held(n.new.pod)' = Unknown
        BY <3>2, <4>1
      <4>3. ASSUME NEW m \in (k + 1)..Len(notes') PROVE notes'[m].new.pod # n.new.pod
        <5>1. CASE m = l + 1
          BY <1>2, <4>2, <5>1
        <5>2. CASE m # l + 1
          <6>1. m \in (k + 1)..l /\ m \in 1..l
            BY <1>1, <1>2, <3>1, <5>2
          <6> QED
            BY <1>2, <4>1, <6>1
        <5> QED
          BY <5>1, <5>2
      <4> QED
        BY <3>4, <4>1, <4>2, <4>3
    <3> QED
      BY <3>5, <3>6, <3>7 DEF Linked, Continues
  <2> QED
    BY <2>1, <2>2
<1>8. ASSUME NEW q \in Pods, Held(q)' # Unknown
      PROVE  (/\ GivenBefore(Held(q), q, Len(notes) + 1) /\ Later(Held(q), status[q])
              /\ phase[q] # "awaited")'
  <2>0. PICK k \in Nat : k = l + 2
    BY <1>1
  <2>1. PICK o : o = Held(q)'
    OBVIOUS
  <2>2. GivenBefore(o, q, k)' /\ Later(o, status'[q]) /\ phase'[q] # "awaited"
    <3>1. CASE q = p
      <4>1. x.new = status[p] /\ o = status[p] /\ o \in Status /\ phase[p] = "there"
        BY <1>2, <1>8, <2>1, <3>1
      <4>2. GivenBefore(x.new, x.new.pod, l + 2)'
        BY <1>1, <1>2, GivenNext
      <4>3. Later(o, status'[q])
        <5>1. \A c \in Containers : o.count[c] \in Int
          BY <4>1, IncidentQueueAssumption DEF Status, IncidentQueueAssumption
        <5> QED
          BY <3>1, <4>1, <5>1 DEF Later
      <4> QED
        BY <2>0, <3>1, <4>1, <4>2, <4>3
    <3>2. CASE q # p
      <4>1. o = Held(q) /\ Held(q) # Unknown
        BY <1>8, <2>1, <3>2
      <4>2. GivenBefore(o, q, l + 1) /\ Later(o, status[q]) /\ phase[q] # "awaited"
        BY <1>1, <4>1 DEF Stored
      <4>3. GivenBefore(o, q, l + 2)'
        BY <1>1, <1>2, <3>2, <4>2, GivenNextOther
      <4> QED
        BY <2>0, <4>2, <4>3
    <3> QED
      BY <3>1, <3>2
  <2>3. Len(notes') + 1 = k
    BY <1>2, <2>0
  <2> QED
    BY <2>1, <2>2, <2>3 DEF GivenBefore, Later
<1>9. Chained'
  BY <1>7 DEF Chained
<1>10. Stored'
  BY <1>8 DEF Stored
<1>11. ASSUME NEW q \in Pods, phase[q] # "gone", Held(q)' = Unknown
       PROVE  handled'[q] = Unknown /\ \A j \in 1..Len(notes') : notes'[j].new.pod # q
  <2>1. q # p
    <3>1. Unknown \notin Status /\ status[p] \in Status
      BY <1>2, UnknownAssumption DEF UnknownAssumption
    <3> QED
      BY <1>11, <3>1
  <2>2. Held(q) = Unknown
    BY <1>11, <2>1
  <2>3. handled[q] = Unknown /\ \A j \in 1..l : notes[j].new.pod # q
    BY <1>1, <1>11, <2>2 DEF Unseen
  <2>4. \A j \in 1..Len(notes') : j \in 1..l \/ j = l + 1
    BY <1>1, <1>2
  <2> QED
    BY <1>2, <2>1, <2>3, <2>4
<1>12. Unseen'
  BY <1>11 DEF Unseen
<1> QED
  BY <1>9, <1>10, <1>12

-----------------------------------------------------------------------------
(* The handler takes a notification.                                       *)

\* What the handler knows of the notification's pod before and after.
LEMMA HandledFacts ==
    ASSUME Core, Handle, NEW n \in Note, n = Head(notes)
    PROVE  /\ notes \in Seq(Note) /\ notes # <<>> /\ notes[1] = n /\ notes' = Tail(notes)
           /\ n.new.pod \in Pods
           /\ handled' \in [Pods -> Status \cup {Unknown}]
           /\ \A p \in Pods : p # n.new.pod => handled'[p] = handled[p]
           /\ handled'[n.new.pod] \in Status
           /\ handled'[n.new.pod] = Told(n)
           /\ Continues(n) => handled[n.new.pod] = n.old /\ Later(n.old, n.new)
           /\ ~n.deleted => handled'[n.new.pod] = n.new
           /\ n.deleted => /\ handled[n.new.pod] \in Status
                           /\ handled'[n.new.pod].count = handled[n.new.pod].count
                           /\ handled'[n.new.pod].evicted = n.new.evicted
                           /\ Held(n.new.pod) = Unknown /\ phase[n.new.pod] = "gone"
                           /\ \A m \in 2..Len(notes) : notes[m].new.pod # n.new.pod
<1>1. /\ notes # <<>> /\ notes' = Tail(notes)
      /\ handled' = [handled EXCEPT ![n.new.pod] = Told(n)]
  BY DEF Handle
<1>2. /\ notes \in Seq(Note) /\ handled \in [Pods -> Status \cup {Unknown}]
      /\ n.new.pod \in Pods /\ n.new \in Status
  BY DEF Core, Typed, Note, Status
<1>3. notes[1] = n /\ 1 \in 1..Len(notes)
  BY <1>1, <1>2
<1>4. Linked(n, 1)
  BY <1>3 DEF Core, Chained
<1>5. \A s : GivenBefore(s, n.new.pod, 1) => handled[n.new.pod] = s
  BY DEF GivenBefore
<1>6. Continues(n) => handled[n.new.pod] = n.old /\ Later(n.old, n.new)
  BY <1>4, <1>5 DEF Linked
<1>7. handled'[n.new.pod] = Told(n)
  BY <1>1, <1>2
<1>8. CASE ~n.deleted
  <2>1. Told(n) = n.new
    BY <1>8 DEF Told
  <2> QED
    BY <1>1, <1>2, <1>3, <1>6, <1>7, <1>8, <2>1
<1>9. CASE n.deleted
  <2>1. /\ \E s \in Status : GivenBefore(s, n.new.pod, 1)
        /\ Held(n.new.pod) = Unknown /\ phase[n.new.pod] = "gone"
        /\ \A m \in 2..Len(notes) : notes[m].new.pod # n.new.pod
    BY <1>4, <1>9 DEF Linked
  <2>2. handled[n.new.pod] \in Status
    BY <1>5, <2>1
  <2>3. /\ Told(n) \in Status /\ Told(n).count = handled[n.new.pod].count
        /\ Told(n).evicted = n.new.evicted
    BY <1>2, <1>9, <2>2 DEF Told, Status
  <2> QED
    BY <1>1, <1>2, <1>3, <1>6, <1>7, <1>9, <2>1, <2>2, <2>3
<1> QED
  BY <1>8, <1>9

LEMMA HandleChained ==
    ASSUME Core, Handle
    PROVE  Chained' /\ Stored' /\ Unseen'
<1>0. notes \in Seq(Note) /\ notes # <<>>
  BY DEF Core, Typed, Handle
<1>1. PICK n \in Note : n = Head(notes)
  BY <1>0
<1>2. /\ notes[1] = n /\ notes' = Tail(notes)
      /\ \A p \in Pods : p # n.new.pod => handled'[p] = handled[p]
      /\ ~n.deleted => handled'[n.new.pod] = n.new
      /\ n.deleted => /\ Held(n.new.pod) = Unknown
                      /\ \A m \in 2..Len(notes) : notes[m].new.pod # n.new.pod
  BY <1>1, HandledFacts
<1>3. /\ store' = store /\ status' = status /\ phase' = phase
      /\ \A q \in Pods : Held(q)' = Held(q)
      /\ \A q \in Pods : Held(q) \in Status \cup {Unknown}
  <2>1. store' = store /\ status' = status /\ phase' = phase
    BY DEF Handle, worldVars
  <2>2. \A q \in Pods : Held(q) \in Status \cup {Unknown}
    BY IncidentQueueAssumption DEF Core, Typed, Held, IncidentQueueAssumption
  <2> QED
    BY <2>1, <2>2 DEF Held, InStore
<1>4. PICK l \in Nat : l = Len(notes)
  BY <1>0
<1>5. /\ l > 0 /\ Len(notes') = l - 1
      /\ \A j \in 1..(l - 1) : notes'[j] = notes[j + 1] /\ notes[j + 1] \in Note
  BY <1>0, <1>2, <1>4
<1>6. ASSUME NEW s \in Status, NEW p \in Pods, NEW k \in 2..(l + 1), GivenBefore(s, p, k),
             n.deleted => p # n.new.pod
      PROVE  GivenBefore(s, p, k - 1)'
  BY <1>0, <1>2, <1>4, <1>6, GivenTaken
<1>7. ASSUME NEW k \in 1..Len(notes'), NEW m \in {notes'[k]}
      PROVE  Linked(m, k)'
  <2>1. /\ k \in 1..(l - 1) /\ k + 1 \in 1..l /\ k + 1 \in 2..(l + 1) /\ (k + 1) - 1 = k
        /\ k + 1 \in 2..Len(notes)
    BY <1>4, <1>5
  <2>2. m = notes[k + 1] /\ m \in Note /\ m.new.pod \in Pods
    BY <1>5, <2>1 DEF Note, Status
  <2>3. Linked(m, k + 1)
    BY <1>4, <2>1, <2>2 DEF Core, Chained
  <2>4. n.deleted => m.new.pod # n.new.pod
    BY <1>2, <2>1, <2>2
  <2>5. \A s \in Status : GivenBefore(s, m.new.pod, k + 1) => GivenBefore(s, m.new.pod, k)'
    <3> TAKE s \in Status
    <3> HAVE GivenBefore(s, m.new.pod, k + 1)
    <3>1. GivenBefore(s, m.new.pod, (k + 1) - 1)'
      BY <1>6, <2>1, <2>2, <2>4
    <3> QED
      BY <2>1, <3>1
  <2>6. Continues(m) => (GivenBefore(m.old, m.new.pod, k) /\ Later(m.old, m.new))'
    <3>1. Continues(m) => m.old \in Status
      BY <2>2 DEF Note, Continues
    <3> QED
      BY <2>3, <2>5, <3>1 DEF Linked, Later
  <2>7. ASSUME ~Continues(m), ~m.deleted
        PROVE  handled'[m.new.pod] = Unknown /\ \A j \in 1..(k - 1) : notes'[j].new.pod # m.new.pod
    <3>1. handled[m.new.pod] = Unknown /\ \A j \in 1..k : notes[j].new.pod # m.new.pod
      BY <2>1, <2>3, <2>7 DEF Linked
    <3>2. 1 \in 1..k
      BY <2>1
    <3>3. m.new.pod # n.new.pod
      BY <1>2, <3>1, <3>2
    <3>4. \A j \in 1..(k - 1) : j \in 1..(l - 1) /\ j + 1 \in 1..k
      BY <2>1
    <3> QED
      BY <1>2, <1>5, <2>2, <3>1, <3>3, <3>4
  <2>8. ASSUME m.deleted
        PROVE  /\ m.old = Unknown
               /\ \E s \in Status : GivenBefore(s, m.new.pod, k)'
               /\ Held(m.new.pod)' = Unknown /\ phase'[m.new.pod] = "gone"
               /\ \A j \in (k + 1)..Len(notes') : notes'[j].new.pod # m.new.pod
    <3>1. /\ m.old = Unknown
          /\ \E s \in Status : GivenBefore(s, m.new.pod, k + 1)
          /\ Held(m.new.pod) = Unknown /\ phase[m.new.pod] = "gone"
          /\ \A j \in (k + 1 + 1)..l : notes[j].new.pod # m.new.pod
      BY <1>4, <2>3, <2>8 DEF Linked
    <3>2. \A j \in (k + 1)..(l - 1) : j \in 1..(l - 1) /\ j + 1 \in (k + 1 + 1)..l
      BY <2>1
    <3> QED
      BY <1>3, <1>5, <2>2, <2>5, <3>1, <3>2
  <2> QED
    BY <2>6, <2>7, <2>8 DEF Linked, Continues
<1>8. ASSUME NEW p \in Pods, Held(p) # Unknown
      PROVE  (/\ GivenBefore(Held(p), p, Len(notes) + 1) /\ Later(Held(p), status[p])
              /\ phase[p] # "awaited")'
  <2>1. PICK s \in Status : s = Held(p)
    BY <1>3, <1>8
  <2>2. GivenBefore(s, p, l + 1) /\ Later(s, status[p]) /\ phase[p] # "awaited"
    BY <1>4, <1>8, <2>1 DEF Core, Stored
  <2>3. n.deleted => p # n.new.pod
    BY <1>2, <1>8
  <2>4. l + 1 \in 2..(l + 1) /\ (l + 1) - 1 = l /\ Len(notes') + 1 = l
    BY <1>4, <1>5
  <2>5. GivenBefore(s, p, (l + 1) - 1)'
    BY <1>6, <2>2, <2>3, <2>4
  <2>6. Held(p)' = s
    BY <1>3, <2>1
  <2> QED
    BY <1>3, <2>2, <2>4, <2>5, <2>6 DEF GivenBefore, Later
<1>9. Chained'
  BY <1>7 DEF Chained
<1>10. Stored'
  BY <1>3, <1>8 DEF Stored
<1>11. ASSUME NEW p \in Pods, phase[p] # "gone", Held(p) = Unknown
       PROVE  handled'[p] = Unknown /\ \A j \in 1..Len(notes') : notes'[j].new.pod # p
  <2>1. handled[p] = Unknown /\ \A j \in 1..l : notes[j].new.pod # p
    BY <1>4, <1>11 DEF Core, Unseen
  <2>2. 1 \in 1..l /\ \A j \in 1..(l - 1) : j + 1 \in 1..l
    BY <1>5
  <2>3. p # n.new.pod
    BY <1>2, <2>1, <2>2
  <2> QED
    BY <1>2, <1>5, <2>1, <2>2, <2>3
<1>12. Unseen'
  BY <1>3, <1>11 DEF Unseen
<1> QED
  BY <1>9, <1>10, <1>12

\* What becomes of what is detected.
LEMMA HandleIncidents ==
    ASSUME Core, Handle, NEW n \in Note, n = Head(notes)
    PROVE  /\ entered \subseteq entered' /\ dropped \subseteq dropped'
           /\ entered' \subseteq entered \cup Detect(n)
           /\ dropped' \subseteq dropped \cup Detect(n)
           /\ ~ready => entered' = entered /\ dropped' = dropped
           /\ ready /\ Detect(n) # {} =>
                  \E i \in Detect(n) : \E j \in entered' \cup dropped' :
                      j.pod = i.pod /\ j.total = i.total /\ j.evicted = i.evicted
           /\ dedupeOrder' \in Seq(Keys)
           /\ queue' \in Seq(Incident) /\ Len(queue') <= QueueSize
           /\ Remembered'
<1>1. Typed /\ Remembered
  BY DEF Core
<1>2. CASE ready /\ Detect(n) # {}
  <2>1. PICK i \in Detect(n) : Enqueue(i)
    BY <1>2 DEF Handle
  <2>2. i \in Incident /\ (i.evicted \/ i.total > 0)
    BY DetectFacts
  <2> QED
    BY <1>1, <1>2, <2>1, <2>2, EnqueueType, EnqueueRemembers
<1>3. CASE ~(ready /\ Detect(n) # {})
  <2>1. UNCHANGED <<dedupe, dedupeOrder, queue, entered, again, dropped>>
    BY <1>3 DEF Handle
  <2>2. EnteredKeys' = EnteredKeys
    BY <2>1 DEF EnteredKeys, Key
  <2> QED
    BY <1>1, <1>3, <2>1, <2>2 DEF Typed, TypeOK, Remembered
<1> QED
  BY <1>2, <1>3

\* A notification that is not detected brings no restart, compared with whatever pod
\* it comes from.
LEMMA NothingDetected ==
    ASSUME Core, NEW n \in Note, Detect(n) = {}, ~n.deleted
    PROVE  /\ n.old = Unknown => Total(n.new) = 0
           /\ n.old # Unknown => Total(n.new) <= Total(n.old)
           /\ Continues(n) /\ Later(n.old, n.new) => Total(n.new) = Total(n.old)
           /\ n.new.evicted => n.old # Unknown /\ n.old.evicted
<1>1. ~(n.new.evicted /\ (n.old = Unknown \/ ~n.old.evicted))
  BY DEF Detect
<1>2. Focus(n) = {}
  BY <1>1 DEF Detect
<1>3. clock \in Nat
  BY IncidentQueueAssumption DEF Core, Typed, TypeOK, IncidentQueueAssumption
<1>4. Changed(n) = {}
  BY <1>2, <1>3, SomeInFocus
<1>5. n.new \in Status
  BY DEF Note
<1>6. \A c \in Containers : n.new.count[c] <= CountBefore(n, c) /\ n.new.count[c] \in Nat
  <2> TAKE c \in Containers
  <2>1. ~(n.new.count[c] > CountBefore(n, c))
    BY <1>4 DEF Changed
  <2> QED
    BY <2>1, CountType
<1>7. ASSUME n.old = Unknown PROVE Total(n.new) = 0
  <2>1. \A c \in Containers : n.new.count[c] = 0
    BY <1>6, <1>7, CountType
  <2> QED
    BY <1>5, <2>1, TotalOfNone
<1>8. ASSUME n.old # Unknown PROVE n.old \in Status /\ Total(n.new) <= Total(n.old)
  <2>1. n.old \in Status
    BY <1>8 DEF Note
  <2>2. \A c \in Containers : n.new.count[c] <= n.old.count[c]
    BY <1>6, <1>8, CountType
  <2> QED
    BY <1>5, <2>1, <2>2, TotalGrows
<1>9. ASSUME Continues(n), Later(n.old, n.new) PROVE Total(n.new) = Total(n.old)
  <2>1. n.old \in Status /\ Total(n.new) <= Total(n.old)
    BY <1>8, <1>9 DEF Continues
  <2>2. \A c \in Containers : n.old.count[c] <= n.new.count[c]
    BY <1>9 DEF Later
  <2>3. Total(n.old) <= Total(n.new)
    BY <1>5, <2>1, <2>2, TotalGrows
  <2> QED
    BY <1>5, <2>1, <2>3, TotalType
<1> QED
  BY <1>1, <1>7, <1>8, <1>9

LEMMA Lesser ==
    ASSUME NEW a \in Nat, NEW b \in Nat
    PROVE  Min({a, b}) \in Nat /\ (a <= b => Min({a, b}) = a)
BY DEF Min

\* What the handler passes over is typed, and of other pods what it was.
LEMMA PassedFacts ==
    ASSUME Core, Handle, NEW n \in Note, n = Head(notes)
    PROVE  /\ passed' \in [Pods -> [total : Nat, evicted : BOOLEAN]]
           /\ \A p \in Pods : p # n.new.pod => passed'[p] = passed[p]
           /\ passed'[n.new.pod] = Passed(n)
<1>1. /\ passed' = [passed EXCEPT ![n.new.pod] = Passed(n)]
      /\ passed \in [Pods -> [total : Nat, evicted : BOOLEAN]]
  BY DEF Handle, Core, Typed
<1>2. n.new.pod \in Pods /\ Told(n) \in Status
  BY HandledFacts
<1>3. Total(Told(n)) \in Nat /\ Told(n).evicted \in BOOLEAN
  BY <1>2, TotalType DEF Status
<1>4. Passed(n) \in [total : Nat, evicted : BOOLEAN]
  <2>1. CASE ~ready
    BY <1>3, <2>1 DEF Passed
  <2>2. CASE ready /\ Replaces(n)
    <3>1. n.old \in Status /\ n.new \in Status
      BY <2>2 DEF Replaces, Note
    <3>2. Min({Total(n.old), Total(n.new)}) \in Nat
      BY <3>1, TotalType, Lesser
    <3> QED
      BY <2>2, <3>1, <3>2 DEF Passed, Status
  <2>3. CASE ready /\ ~Replaces(n)
    BY <1>1, <1>2, <2>3 DEF Passed
  <2> QED
    BY <2>1, <2>2, <2>3
<1> QED
  BY <1>1, <1>2, <1>4

LEMMA HandleReportsRestarts ==
    ASSUME Core, RestartsReported, Handle
    PROVE  RestartsReported'
<1>0. notes \in Seq(Note) /\ notes # <<>>
  BY DEF Core, Typed, Handle
<1>1. PICK n \in Note : n = Head(notes)
  BY <1>0
<1>2. /\ handled' \in [Pods -> Status \cup {Unknown}]
      /\ \A p \in Pods : p # n.new.pod => handled'[p] = handled[p]
      /\ handled'[n.new.pod] = Told(n)
      /\ Continues(n) => handled[n.new.pod] = n.old /\ Later(n.old, n.new)
      /\ ~n.deleted => handled'[n.new.pod] = n.new
      /\ n.deleted => /\ handled[n.new.pod] \in Status
                      /\ handled'[n.new.pod].count = handled[n.new.pod].count
      /\ n.new.pod \in Pods
  BY <1>1, HandledFacts
<1>3. /\ passed' \in [Pods -> [total : Nat, evicted : BOOLEAN]]
      /\ \A p \in Pods : p # n.new.pod => passed'[p] = passed[p]
      /\ passed'[n.new.pod] = Passed(n)
  BY <1>1, PassedFacts
<1>4. /\ entered \subseteq entered' /\ dropped \subseteq dropped'
      /\ ready /\ Detect(n) # {} =>
             \E i \in Detect(n) : \E j \in entered' \cup dropped' :
                 j.pod = i.pod /\ j.total = i.total /\ j.evicted = i.evicted
  BY <1>1, HandleIncidents
<1>5. /\ handled \in [Pods -> Status \cup {Unknown}]
      /\ Unknown \notin Status
  BY UnknownAssumption DEF Core, Typed, UnknownAssumption
<1> SUFFICES ASSUME NEW p \in Pods, handled'[p] # Unknown,
                    Total(handled'[p]) > passed'[p].total
             PROVE  \E e \in BOOLEAN : \E i \in entered' \cup dropped' :
                        i.pod = p /\ i.evicted = e /\ i.total = Total(handled'[p])
  BY DEF RestartsReported, Announced, Total
<1>6. handled'[p] \in Status /\ Total(handled'[p]) \in Nat /\ passed'[p].total \in Nat
  BY <1>2, <1>3, TotalType
<1>7. ASSUME handled[p] # Unknown, Total(handled[p]) = Total(handled'[p]), passed'[p] = passed[p]
      PROVE  \E e \in BOOLEAN : \E i \in entered' \cup dropped' :
                 i.pod = p /\ i.evicted = e /\ i.total = Total(handled'[p])
  <2>1. \E e \in BOOLEAN : Announced(p, e, Total(handled[p]))
    BY <1>7 DEF RestartsReported
  <2> QED
    BY <1>4, <1>7, <2>1 DEF Announced
<1>8. CASE p # n.new.pod
  BY <1>2, <1>3, <1>7, <1>8
<1>9. CASE p = n.new.pod /\ ~ready
  <2>1. passed'[p].total = Total(handled'[p])
    BY <1>2, <1>3, <1>9 DEF Passed
  <2> QED
    BY <1>6, <2>1
<1>10. CASE p = n.new.pod /\ ready /\ n.deleted
  <2>1. handled[p] # Unknown /\ Total(handled[p]) = Total(handled'[p])
    BY <1>2, <1>5, <1>10 DEF Total
  <2>2. ~Replaces(n)
    <3>1. 1 \in 1..Len(notes) /\ notes[1] = n
      BY <1>0, <1>1
    <3>2. Linked(n, 1)
      BY <3>1 DEF Core, Chained
    <3> QED
      BY <1>10, <3>2 DEF Linked, Replaces
  <2>3. passed'[p] = passed[p]
    BY <1>3, <1>10, <2>2 DEF Passed
  <2> QED
    BY <1>7, <2>1, <2>3
<1>11. CASE p = n.new.pod /\ ready /\ ~n.deleted
  <2>1. handled'[p] = n.new
    BY <1>2, <1>11
  <2>2. CASE Detect(n) # {}
    <3>1. PICK i \in Detect(n) : \E j \in entered' \cup dropped' :
              j.pod = i.pod /\ j.total = i.total /\ j.evicted = i.evicted
      BY <1>4, <1>11, <2>2
    <3>2. i \in Incident /\ i.pod = p /\ i.total = Total(n.new)
      BY <1>11, DetectFacts
    <3>3. i.evicted \in BOOLEAN
      BY <3>2 DEF Incident
    <3> QED
      BY <2>1, <3>1, <3>2, <3>3
  <2>3. CASE Detect(n) = {}
    <3>1. CASE Continues(n)
      <4>1. handled[p] = n.old /\ handled[p] # Unknown /\ Total(handled[p]) = Total(handled'[p])
        BY <1>2, <1>11, <2>1, <2>3, <3>1, NothingDetected DEF Continues
      <4>2. passed'[p] = passed[p]
        BY <1>3, <1>11, <3>1 DEF Passed, Replaces, Continues
      <4> QED
        BY <1>7, <4>1, <4>2
    <3>2. CASE n.old = Unknown
      BY <1>6, <1>11, <2>1, <2>3, <3>2, NothingDetected
    <3>3. CASE Replaces(n)
      <4>1. /\ Total(n.new) <= Total(n.old) /\ n.old \in Status /\ n.new \in Status
        BY <1>11, <2>3, <3>3, NothingDetected DEF Replaces, Note
      <4>2. passed'[p].total = Min({Total(n.old), Total(n.new)})
        BY <1>3, <1>11, <3>3 DEF Passed
      <4>3. {Total(n.old), Total(n.new)} = {Total(n.new), Total(n.old)}
        OBVIOUS
      <4>4. passed'[p].total = Total(n.new)
        BY <4>1, <4>2, <4>3, Lesser, TotalType
      <4> QED
        BY <1>6, <2>1, <4>4
    <3> QED
      BY <3>1, <3>2, <3>3 DEF Continues, Replaces
  <2> QED
    BY <2>2, <2>3
<1> QED
  BY <1>8, <1>9, <1>10, <1>11

LEMMA HandleReportsEvictions ==
    ASSUME Core, EvictionsReported, Handle
    PROVE  EvictionsReported'
<1>0. notes \in Seq(Note) /\ notes # <<>>
  BY DEF Core, Typed, Handle
<1>1. PICK n \in Note : n = Head(notes)
  BY <1>0
<1>2. /\ \A p \in Pods : p # n.new.pod => handled'[p] = handled[p]
      /\ handled'[n.new.pod] = Told(n)
      /\ Continues(n) => handled[n.new.pod] = n.old
      /\ ~n.deleted => handled'[n.new.pod] = n.new
      /\ n.deleted => handled'[n.new.pod].evicted = n.new.evicted
  BY <1>1, HandledFacts
<1>3. /\ \A p \in Pods : p # n.new.pod => passed'[p] = passed[p]
      /\ passed'[n.new.pod] = Passed(n)
  BY <1>1, PassedFacts
<1>4. /\ entered \subseteq entered' /\ dropped \subseteq dropped'
      /\ ready /\ Detect(n) # {} =>
             \E i \in Detect(n) : \E j \in entered' \cup dropped' :
                 j.pod = i.pod /\ j.total = i.total /\ j.evicted = i.evicted
  BY <1>1, HandleIncidents
<1> SUFFICES ASSUME NEW p \in Pods, handled'[p] # Unknown, handled'[p].evicted,
                    ~passed'[p].evicted
             PROVE  \E i \in entered' \cup dropped' : i.pod = p /\ i.evicted
  BY DEF EvictionsReported
<1>5. ASSUME handled[p] # Unknown, handled[p].evicted, passed'[p] = passed[p]
      PROVE  \E i \in entered' \cup dropped' : i.pod = p /\ i.evicted
  BY <1>4, <1>5 DEF EvictionsReported
<1>6. CASE p # n.new.pod
  BY <1>2, <1>3, <1>5, <1>6
<1>7. CASE p = n.new.pod /\ ~ready
  BY <1>2, <1>3, <1>7 DEF Passed
<1>8. CASE p = n.new.pod /\ ready
  <2>1. n.new.evicted
    BY <1>2, <1>8
  <2>2. CASE ~n.deleted /\ Continues(n) /\ n.old.evicted
    <3>1. passed'[p] = passed[p]
      BY <1>3, <1>8, <2>2 DEF Passed, Replaces, Continues
    <3> QED
      BY <1>2, <1>5, <1>8, <2>2, <3>1 DEF Continues
  <2>3. CASE ~n.deleted /\ Replaces(n) /\ n.old.evicted
    <3>1. Passed(n).evicted = (n.old.evicted /\ n.new.evicted)
      BY <1>8, <2>3, Zenon DEF Passed
    <3>2. Passed(n).evicted
      BY <2>1, <2>3, <3>1
    <3> QED
      BY <1>3, <1>8, <3>2
  <2>4. CASE n.deleted \/ n.old = Unknown \/ ~n.old.evicted
    <3>1. Detect(n) = {Eviction(n)}
      BY <2>1, <2>4 DEF Detect
    <3>2. Eviction(n).pod = p /\ Eviction(n).evicted = TRUE
      BY <1>8 DEF Eviction, IncidentOf
    <3> QED
      BY <1>4, <1>8, <3>1, <3>2
  <2> QED
    BY <2>2, <2>3, <2>4 DEF Replaces, Continues
<1> QED
  BY <1>6, <1>7, <1>8

-----------------------------------------------------------------------------
(* The other steps.                                                        *)

\* Steps that leave the notifications and what was given alone.
LEMMA ChainStays ==
    ASSUME Typed, Chained, UNCHANGED <<store, notes, handled>>,
           \A p \in Pods : phase[p] = "gone" => phase'[p] = "gone"
    PROVE  Chained'
<1> SUFFICES ASSUME NEW k \in 1..Len(notes), NEW n \in {notes[k]}
             PROVE  Linked(n, k)'
  BY DEF Chained
<1>1. Linked(n, k) /\ n \in Note /\ n.new.pod \in Pods
  <2>1. notes \in Seq(Note)
    BY DEF Typed
  <2>2. Linked(n, k)
    BY DEF Chained
  <2>3. n \in Note
    BY <2>1
  <2> QED
    BY <2>2, <2>3 DEF Note, Status
<1>2. Held(n.new.pod)' = Held(n.new.pod)
  BY DEF Held, InStore
<1>3. \A o : GivenBefore(o, n.new.pod, k) => GivenBefore(o, n.new.pod, k)'
  BY DEF GivenBefore
<1>4. Continues(n) => (GivenBefore(n.old, n.new.pod, k) /\ Later(n.old, n.new))'
  BY <1>1, <1>3 DEF Linked, Later
<1>5. ~Continues(n) /\ ~n.deleted =>
          /\ handled'[n.new.pod] = Unknown
          /\ \A j \in 1..(k - 1) : notes'[j].new.pod # n.new.pod
  BY <1>1 DEF Linked
<1>6. n.deleted =>
          /\ n.old = Unknown
          /\ \E o \in Status : GivenBefore(o, n.new.pod, k)'
          /\ Held(n.new.pod)' = Unknown /\ phase'[n.new.pod] = "gone"
          /\ \A m \in (k + 1)..Len(notes') : notes'[m].new.pod # n.new.pod
  BY <1>1, <1>2, <1>3 DEF Linked
<1> QED
  BY <1>4, <1>5, <1>6 DEF Linked, Continues

LEMMA StoredStays ==
    ASSUME Typed, Stored, UNCHANGED <<store, notes, handled>>, status' \in [Pods -> Status],
           \A p \in Pods : Later(status[p], status'[p]) /\ (phase[p] # "awaited" => phase'[p] # "awaited")
    PROVE  Stored'
<1> SUFFICES ASSUME NEW p \in Pods, Held(p) # Unknown
             PROVE  (/\ GivenBefore(Held(p), p, Len(notes) + 1) /\ Later(Held(p), status[p])
                     /\ phase[p] # "awaited")'
  BY DEF Stored, Held, InStore
<1>1. GivenBefore(Held(p), p, Len(notes) + 1) /\ Later(Held(p), status[p]) /\ phase[p] # "awaited"
  BY DEF Stored
<1>2. Held(p)' = Held(p)
  BY DEF Held, InStore
<1>3. GivenBefore(Held(p), p, Len(notes) + 1)'
  BY <1>1, <1>2 DEF GivenBefore
<1>4. Held(p) \in Status /\ status[p] \in Status /\ status'[p] \in Status
  BY IncidentQueueAssumption DEF Typed, TypeOK, Held, IncidentQueueAssumption
<1>5. \A c \in Containers : /\ Held(p).count[c] \in Nat
                            /\ status[p].count[c] \in Nat
                            /\ status'[p].count[c] \in Nat
  BY <1>4, IncidentQueueAssumption DEF Status, IncidentQueueAssumption
<1>6. Later(Held(p), status'[p])
  <2>1. Later(status[p], status'[p])
    OBVIOUS
  <2>2. \A c \in Containers : Held(p).count[c] <= status'[p].count[c]
    BY <1>1, <1>5, <2>1 DEF Later
  <2> QED
    BY <1>1, <2>1, <2>2 DEF Later
<1>7. Later(Held(p), status[p])'
  BY <1>2, <1>6 DEF Later
<1> QED
  BY <1>1, <1>3, <1>7

LEMMA UnseenStays ==
    ASSUME Unseen, UNCHANGED <<store, notes, handled>>,
           \A p \in Pods : phase[p] = "gone" => phase'[p] = "gone"
    PROVE  Unseen'
BY DEF Unseen, Held, InStore

LEMMA ReportsStay ==
    ASSUME Reported, UNCHANGED <<entered, dropped, handled, passed>>
    PROVE  Reported'
BY DEF Reported, RestartsReported, EvictionsReported, Announced, Total

LEMMA MemoryStays ==
    ASSUME Remembered, UNCHANGED <<dedupe, dedupeOrder, entered, again>>
    PROVE  Remembered'
<1>1. EnteredKeys' = EnteredKeys
  BY DEF EnteredKeys, Key
<1> QED
  BY <1>1 DEF Remembered

\* A status with one container's entries changed.
LEMMA StatusExcept ==
    ASSUME NEW u, NEW x, NEW y, NEW z, NEW v, NEW c, NEW a, NEW b, NEW d
    PROVE  [[pod |-> u, count |-> x, finished |-> y, oom |-> z, evicted |-> v]
               EXCEPT !.count[c] = a, !.finished[c] = b, !.oom[c] = d]
             = [pod |-> u, count |-> [x EXCEPT ![c] = a], finished |-> [y EXCEPT ![c] = b],
                oom |-> [z EXCEPT ![c] = d], evicted |-> v]
<1> DEFINE r == [pod |-> u, count |-> x, finished |-> y, oom |-> z, evicted |-> v]
           r1 == [r EXCEPT !.count[c] = a]
           r2 == [r1 EXCEPT !.finished[c] = b]
           r3 == [r2 EXCEPT !.oom[c] = d]
           s1 == [pod |-> u, count |-> [x EXCEPT ![c] = a], finished |-> y, oom |-> z, evicted |-> v]
           s2 == [pod |-> u, count |-> [x EXCEPT ![c] = a], finished |-> [y EXCEPT ![c] = b], oom |-> z,
                  evicted |-> v]
           s3 == [pod |-> u, count |-> [x EXCEPT ![c] = a], finished |-> [y EXCEPT ![c] = b],
                  oom |-> [z EXCEPT ![c] = d], evicted |-> v]
<1>1. r1 = s1
  OBVIOUS
<1>2. [s1 EXCEPT !.finished[c] = b] = s2
  OBVIOUS
<1>3. [s2 EXCEPT !.oom[c] = d] = s3
  OBVIOUS
<1>4. r2 = s2
  <2> HIDE DEF r1, s1, s2
  <2> QED
    BY <1>1, <1>2
<1>5. r3 = s3
  <2> HIDE DEF r2, s2, s3
  <2> QED
    BY <1>3, <1>4
<1> QED
  BY <1>5

Change(p) ==
    \/ \E c \in Containers : ContainerRestarts(p, c)
    \/ Evicted(p)
    \/ Born(p)
    \/ Removed(p)

\* What a step of the cluster keeps: counts grow, evictions stay, pods come and go.
Moves ==
    /\ clock' \in 1..MaxClock /\ changes' \in 0..MaxChanges
    /\ phase' \in [Pods -> {"awaited", "there", "gone"}]
    /\ status' \in [Pods -> Status]
    /\ \A q \in Pods : /\ status'[q].pod = q
                       /\ Later(status[q], status'[q])
                       /\ phase[q] = "gone" => phase'[q] = "gone"
                       /\ phase[q] # "awaited" => phase'[q] # "awaited"
    /\ Alone'
    /\ UNCHANGED handlerVars

\* The cluster's own steps.
LEMMA WorldMoves ==
    ASSUME Typed, Alone, Tick \/ \E p \in Pods : Change(p)
    PROVE  Moves
<1>1. /\ clock \in 1..MaxClock /\ status \in [Pods -> Status] /\ changes \in 0..MaxChanges
      /\ phase \in [Pods -> {"awaited", "there", "gone"}]
      /\ \A q \in Pods : status[q].pod = q
      /\ MaxClock \in Nat /\ MaxCount \in Nat /\ MaxChanges \in Nat
  BY IncidentQueueAssumption DEF Typed, TypeOK, IncidentQueueAssumption
<1>2. \A s \in Status : Later(s, s)
  BY <1>1 DEF Later, Status
<1>3. CASE Tick
  BY <1>1, <1>2, <1>3 DEF Tick, Moves, Alone
<1>4. ASSUME NEW p \in Pods, Removed(p)
      PROVE  Moves
  <2>1. /\ phase' = [phase EXCEPT ![p] = "gone"]
        /\ UNCHANGED <<clock, changes, status, handlerVars>>
    BY <1>4 DEF Removed
  <2>2. Alone'
    BY <1>1, <2>1 DEF Alone
  <2> QED
    BY <1>1, <1>2, <2>1, <2>2 DEF Moves
<1>7. ASSUME NEW p \in Pods, Born(p)
      PROVE  Moves
  <2>1. /\ phase[p] = "awaited" /\ phase' = [phase EXCEPT ![p] = "there"]
        /\ \A q \in Pods : phase[q] = "there" => NameOf[q] # NameOf[p]
        /\ UNCHANGED <<clock, changes, status, handlerVars>>
    BY <1>7 DEF Born, There
  <2>2. Alone'
    BY <1>1, <2>1 DEF Alone
  <2> QED
    BY <1>1, <1>2, <2>1, <2>2 DEF Moves
<1>5. ASSUME NEW p \in Pods, Evicted(p)
      PROVE  Moves
  <2> DEFINE s == [status[p] EXCEPT !.evicted = TRUE]
  <2>1. /\ status' = [status EXCEPT ![p] = s] /\ UNCHANGED <<clock, phase, handlerVars>>
        /\ changes' \in 0..MaxChanges
    BY <1>1, <1>5 DEF Evicted, CountChange
  <2>2. s \in Status /\ Later(status[p], s) /\ s.pod = p
    <3>1. status[p] \in Status
      BY <1>1
    <3>2. s \in Status
      BY <3>1 DEF Status
    <3>3. s.count = status[p].count /\ s.evicted = TRUE /\ s.pod = p
      BY <1>1, <3>1 DEF Status
    <3> QED
      BY <1>2, <3>1, <3>2, <3>3 DEF Later
  <2> HIDE DEF s
  <2> QED
    BY <1>1, <1>2, <2>1, <2>2 DEF Moves, Alone
<1>6. ASSUME NEW p \in Pods, NEW c \in Containers, ContainerRestarts(p, c)
      PROVE  Moves
  <2>1. PICK at \in {0, clock}, oom \in BOOLEAN :
            status' = [status EXCEPT ![p].count[c] = @ + 1, ![p].finished[c] = at, ![p].oom[c] = oom]
    BY <1>6 DEF ContainerRestarts
  <2>2. /\ status[p].count[c] < MaxCount /\ UNCHANGED <<clock, phase, handlerVars>>
        /\ changes' \in 0..MaxChanges
    BY <1>1, <1>6 DEF ContainerRestarts, CountChange
  <2> DEFINE old == status[p]
             s == [pod |-> old.pod, count |-> [old.count EXCEPT ![c] = @ + 1],
                   finished |-> [old.finished EXCEPT ![c] = at],
                   oom |-> [old.oom EXCEPT ![c] = oom],
                   evicted |-> old.evicted]
  <2>3. old \in Status
    BY <1>1
  <2>4. status' = [status EXCEPT ![p] = s]
    <3> DEFINE e == [old EXCEPT !.count[c] = @ + 1, !.finished[c] = at, !.oom[c] = oom]
    <3>1. old = [pod |-> old.pod, count |-> old.count, finished |-> old.finished, oom |-> old.oom,
                 evicted |-> old.evicted]
      BY <2>3 DEF Status
    <3>2. e = s
      <4>1. PICK u, x, y, z, v : u = old.pod /\ x = old.count /\ y = old.finished /\ z = old.oom /\ v = old.evicted
        OBVIOUS
      <4>2. old = [pod |-> u, count |-> x, finished |-> y, oom |-> z, evicted |-> v]
        BY <3>1, <4>1
      <4>3. e = [old EXCEPT !.count[c] = x[c] + 1, !.finished[c] = at, !.oom[c] = oom]
        BY <4>1
      <4>4. e = [pod |-> u, count |-> [x EXCEPT ![c] = x[c] + 1], finished |-> [y EXCEPT ![c] = at],
                 oom |-> [z EXCEPT ![c] = oom], evicted |-> v]
        <5> HIDE DEF old, e
        <5> QED
          BY <4>2, <4>3, StatusExcept
      <4> QED
        BY <4>1, <4>4
    <3>3. status' = [status EXCEPT ![p] = e]
      BY <1>1, <2>1, <3>1
    <3> HIDE DEF e, s
    <3> QED
      BY <3>2, <3>3
  <2>5. /\ old.pod \in Pods /\ old.pod = p /\ old.count \in [Containers -> 0..MaxCount] /\ old.finished \in [Containers -> 0..MaxClock]
        /\ old.oom \in [Containers -> BOOLEAN] /\ old.evicted \in BOOLEAN
        /\ at \in 0..MaxClock /\ old.count[c] + 1 \in 0..MaxCount
    BY <1>1, <2>2, <2>3 DEF Status
  <2>6. s \in Status /\ s.pod = p
    BY <2>5 DEF Status
  <2>7. Later(old, s)
    <3>1. \A d \in Containers : old.count[d] <= s.count[d]
      BY <1>1, <2>5
    <3> QED
      BY <3>1 DEF Later
  <2> HIDE DEF s
  <2> QED
    BY <1>1, <1>2, <2>2, <2>4, <2>6, <2>7 DEF Moves, Alone
<1> QED
  BY <1>3, <1>4, <1>5, <1>6, <1>7 DEF Change

\* Steps that leave the informer, the notifications and the reports alone.
LEMMA QuietStep ==
    ASSUME Core, Reported, Typed', Alone',
           UNCHANGED <<store, notes, dedupe, dedupeOrder, entered, again, dropped, handled, passed>>,
           \A q \in Pods : /\ Later(status[q], status'[q])
                           /\ phase[q] = "gone" => phase'[q] = "gone"
                           /\ phase[q] # "awaited" => phase'[q] # "awaited"
    PROVE  Core' /\ Reported'
<1>1. status' \in [Pods -> Status]
  BY DEF Typed, TypeOK
<1> QED
  BY <1>1, ChainStays, StoredStays, UnseenStays, MemoryStays, ReportsStay DEF Core

\* A status is no later than itself.
LEMMA StatusStays ==
    ASSUME Typed, UNCHANGED <<status, phase>>
    PROVE  \A q \in Pods : /\ Later(status[q], status'[q])
                           /\ phase[q] = "gone" => phase'[q] = "gone"
                           /\ phase[q] # "awaited" => phase'[q] # "awaited"
<1>1. \A q \in Pods : status[q] \in Status /\ status'[q] = status[q]
  BY DEF Typed, TypeOK
<1> QED
  BY <1>1, IncidentQueueAssumption DEF Later, Status, IncidentQueueAssumption

LEMMA WorldPreserves ==
    ASSUME Core, Reported, Tick \/ \E p \in Pods : Change(p)
    PROVE  Core' /\ Reported'
<1>1. Moves
  BY WorldMoves DEF Core
<1>2. UNCHANGED <<store, notes, ready, dedupe, dedupeOrder, queue, capturing, entered, again,
                  dropped, handled, passed>>
  BY <1>1 DEF Moves, handlerVars
<1>3. Typed'
  BY <1>1, <1>2 DEF Core, Typed, TypeOK, Moves
<1> QED
  BY <1>1, <1>2, <1>3, QuietStep DEF Moves

LEMMA ReadyPreserves ==
    ASSUME Core, Reported, Ready
    PROVE  Core' /\ Reported'
<1>1. /\ ready' = TRUE
      /\ UNCHANGED <<clock, changes, status, phase, store, notes, dedupe, dedupeOrder, queue,
                     capturing, entered, again, dropped, handled, passed>>
  BY DEF Ready, worldVars
<1>2. Typed' /\ Alone'
  BY <1>1 DEF Core, Typed, TypeOK, Alone
<1> QED
  BY <1>1, <1>2, StatusStays, QuietStep DEF Core

LEMMA WorkerPreserves ==
    ASSUME Core, Reported, NEW w \in Workers, Capture(w) \/ Captured(w)
    PROVE  Core' /\ Reported'
<1>1. /\ UNCHANGED <<clock, changes, status, phase, store, notes, ready, dedupe, dedupeOrder,
                     entered, again, dropped, handled, passed>>
      /\ \/ queue' = queue /\ capturing' = [capturing EXCEPT ![w] = Idle]
         \/ /\ queue # <<>> /\ queue' = Tail(queue)
            /\ capturing' = [capturing EXCEPT ![w] = Head(queue)]
  BY DEF Capture, Captured, worldVars
<1>2. queue \in Seq(Incident) /\ capturing \in [Workers -> Incident \cup {Idle}] /\ Len(queue) <= QueueSize
  BY DEF Core, Typed, TypeOK
<1>3. /\ queue' \in Seq(Incident) /\ Len(queue') <= QueueSize
      /\ capturing' \in [Workers -> Incident \cup {Idle}]
  <2>1. queue # <<>> => /\ Head(queue) \in Incident /\ Tail(queue) \in Seq(Incident)
                        /\ Len(Tail(queue)) <= Len(queue)
    BY <1>2
  <2>2. QueueSize \in Nat /\ Len(queue) \in Nat
    BY <1>2, IncidentQueueAssumption DEF IncidentQueueAssumption
  <2>3. CASE queue' = queue /\ capturing' = [capturing EXCEPT ![w] = Idle]
    BY <1>2, <2>3
  <2>4. CASE /\ queue # <<>> /\ queue' = Tail(queue)
             /\ capturing' = [capturing EXCEPT ![w] = Head(queue)]
    <3>1. Len(Tail(queue)) \in Nat
      BY <2>1, <2>4
    <3> QED
      BY <1>2, <2>1, <2>2, <2>4, <3>1
  <2> QED
    BY <1>1, <2>3, <2>4
<1>4. \A i \in ToSet(queue') : i \in Incident
  BY <1>3 DEF ToSet
<1>5. Typed' /\ Alone'
  BY <1>1, <1>3, <1>4 DEF Core, Typed, TypeOK, ToSet, Alone
<1> QED
  BY <1>1, <1>5, StatusStays, QuietStep DEF Core

LEMMA InformerPreserves ==
    ASSUME Core, Reported, NEW p \in Pods, Observe(p) \/ ObserveGone(p)
    PROVE  Core' /\ Reported'
<1>1. UNCHANGED <<clock, changes, status, phase, ready, dedupe, dedupeOrder, queue, capturing,
                  entered, again, dropped, handled, passed>>
  BY DEF Observe, ObserveGone, worldVars
<1>2. /\ store \in [Names -> Status \cup {Unknown}] /\ status \in [Pods -> Status]
      /\ status[p].pod = p /\ notes \in Seq(Note) /\ Unknown \notin Status
      /\ NameOf \in [Pods -> Names]
      /\ phase \in [Pods -> {"awaited", "there", "gone"}]
  BY IncidentQueueAssumption, UnknownAssumption
     DEF Core, Typed, TypeOK, IncidentQueueAssumption, UnknownAssumption
<1>3. ASSUME NEW v \in Status \cup {Unknown}, store' = [store EXCEPT ![NameOf[p]] = v],
             NEW q \in Pods, q # p, v # Unknown => v.pod = p
      PROVE  /\ NameOf[q] # NameOf[p] => Held(q)' = Held(q)
             /\ NameOf[q] = NameOf[p] => Held(q)' = Unknown
  BY <1>2, <1>3 DEF Held, InStore
<1>4. \E x \in Note :
          /\ x.new.pod = p
          /\ notes' = Append(notes, x)
          /\ \A q \in Pods : q # p => \/ Held(q)' = Held(q)
                                      \/ Held(q)' = Unknown /\ phase[q] = "gone"
          /\ \/ /\ Held(p) # Unknown /\ x.old = Held(p) /\ Continues(x) /\ ~x.deleted
                /\ x.new = status[p] /\ Held(p)' = status[p] /\ phase[p] = "there"
             \/ /\ Held(p) = Unknown /\ ~Continues(x) /\ ~x.deleted
                /\ x.new = status[p] /\ Held(p)' = status[p] /\ phase[p] = "there"
             \/ /\ Held(p) # Unknown /\ x.old = Unknown /\ x.deleted
                /\ Held(p)' = Unknown /\ phase[p] = "gone"
  <2>1. CASE Observe(p)
    <3> DEFINE x == [old |-> store[NameOf[p]], new |-> status[p], deleted |-> FALSE]
    <3>1. /\ notes' = Append(notes, x) /\ store' = [store EXCEPT ![NameOf[p]] = status[p]]
          /\ phase[p] = "there"
      BY <2>1 DEF Observe, Notify
    <3>2. x \in Note /\ x.new.pod = p
      BY <1>2 DEF Note
    <3>3. Held(p)' = status[p]
      BY <1>2, <3>1 DEF Held, InStore
    <3>4. ASSUME NEW q \in Pods, q # p
          PROVE  Held(q)' = Held(q) \/ (Held(q)' = Unknown /\ phase[q] = "gone")
      <4>1. CASE NameOf[q] # NameOf[p]
        BY <1>2, <1>3, <3>1, <3>4, <4>1
      <4>2. CASE NameOf[q] = NameOf[p]
        <5>1. phase[q] # "there"
          BY <3>1, <3>4, <4>2 DEF Core, Alone
        <5>2. Held(q) # Unknown => phase[q] # "awaited"
          BY DEF Core, Stored
        <5>3. Held(q)' = Unknown
          BY <1>2, <1>3, <3>1, <3>4, <4>2
        <5> QED
          BY <1>2, <5>1, <5>2, <5>3
      <4> QED
        BY <4>1, <4>2
    <3>5. CASE InStore(p)
      <4>1. Held(p) # Unknown /\ x.old = Held(p) /\ Continues(x)
        BY <1>2, <3>5 DEF Held, InStore, Continues
      <4> QED
        BY <3>1, <3>2, <3>3, <3>4, <4>1
    <3>6. CASE ~InStore(p)
      <4>1. Held(p) = Unknown /\ ~Continues(x)
        BY <1>2, <3>6 DEF Held, InStore, Continues
      <4> QED
        BY <3>1, <3>2, <3>3, <3>4, <4>1
    <3> QED
      BY <3>5, <3>6
  <2>2. CASE ObserveGone(p)
    <3>1. PICK s \in {status[p], store[NameOf[p]]} : Notify(Unknown, s, TRUE)
      BY <2>2 DEF ObserveGone
    <3> DEFINE x == [old |-> Unknown, new |-> s, deleted |-> TRUE]
    <3>2. /\ notes' = Append(notes, x) /\ phase[p] = "gone" /\ InStore(p)
          /\ store' = [store EXCEPT ![NameOf[p]] = Unknown]
      BY <2>2, <3>1 DEF ObserveGone, Notify
    <3>3. x \in Note /\ x.new.pod = p
      BY <1>2, <3>2 DEF Note, InStore
    <3>4. Held(p) # Unknown /\ Held(p)' = Unknown
      BY <1>2, <3>2 DEF Held, InStore
    <3>5. ASSUME NEW q \in Pods, q # p
          PROVE  Held(q)' = Held(q)
      <4>1. CASE NameOf[q] # NameOf[p]
        BY <1>2, <1>3, <3>2, <3>5, <4>1
      <4>2. CASE NameOf[q] = NameOf[p]
        BY <1>2, <1>3, <3>2, <3>5, <4>2 DEF Held, InStore
      <4> QED
        BY <4>1, <4>2
    <3> QED
      BY <3>2, <3>3, <3>4, <3>5
  <2> QED
    BY <2>1, <2>2
<1>5. PICK x \in Note :
          /\ x.new.pod = p
          /\ notes' = Append(notes, x)
          /\ \A q \in Pods : q # p => \/ Held(q)' = Held(q)
                                      \/ Held(q)' = Unknown /\ phase[q] = "gone"
          /\ \/ /\ Held(p) # Unknown /\ x.old = Held(p) /\ Continues(x) /\ ~x.deleted
                /\ x.new = status[p] /\ Held(p)' = status[p] /\ phase[p] = "there"
             \/ /\ Held(p) = Unknown /\ ~Continues(x) /\ ~x.deleted
                /\ x.new = status[p] /\ Held(p)' = status[p] /\ phase[p] = "there"
             \/ /\ Held(p) # Unknown /\ x.old = Unknown /\ x.deleted
                /\ Held(p)' = Unknown /\ phase[p] = "gone"
  BY <1>4
<1>6. Chained' /\ Stored' /\ Unseen'
  BY <1>1, <1>5, NotifyPreserves DEF Core
<1>7. store' \in [Names -> Status \cup {Unknown}] /\ notes' \in Seq(Note)
  <2>1. \E v \in Status \cup {Unknown} : store' = [store EXCEPT ![NameOf[p]] = v]
    BY <1>2 DEF Observe, ObserveGone
  <2>2. store' \in [Names -> Status \cup {Unknown}]
    BY <1>2, <2>1
  <2> QED
    BY <1>2, <1>5, <2>2
<1>8. Typed' /\ Alone'
  BY <1>1, <1>7 DEF Core, Typed, TypeOK, ToSet, Alone
<1> QED
  BY <1>1, <1>6, <1>8, MemoryStays, ReportsStay DEF Core

LEMMA HandlePreserves ==
    ASSUME Core, Reported, Handle
    PROVE  Core' /\ Reported'
<1>0. notes \in Seq(Note) /\ notes # <<>>
  BY DEF Core, Typed, Handle
<1>1. PICK n \in Note : n = Head(notes)
  BY <1>0
<1>2. /\ handled' \in [Pods -> Status \cup {Unknown}] /\ notes' = Tail(notes)
  BY <1>1, HandledFacts
<1>3. /\ entered' \subseteq entered \cup Detect(n)
      /\ dropped' \subseteq dropped \cup Detect(n)
      /\ dedupeOrder' \in Seq(Keys)
      /\ queue' \in Seq(Incident) /\ Len(queue') <= QueueSize
      /\ Remembered'
  BY <1>1, HandleIncidents
<1>4. UNCHANGED <<clock, changes, status, phase, store, ready, capturing>>
  BY DEF Handle, worldVars
<1>5. \A i \in Detect(n) : i \in Incident /\ (i.evicted \/ i.total > 0)
  BY DetectFacts
<1>6. notes' \in Seq(Note) /\ passed' \in [Pods -> [total : Nat, evicted : BOOLEAN]]
  BY <1>0, <1>1, <1>2, PassedFacts
<1>7. /\ \A i \in ToSet(queue') \cup entered' \cup dropped' : i \in Incident
      /\ \A i \in entered' : i.evicted \/ i.total > 0
  <2>1. \A i \in ToSet(queue') : i \in Incident
    BY <1>3 DEF ToSet
  <2> QED
    BY <1>3, <1>5, <2>1 DEF Core, Typed, TypeOK
<1>8. Typed' /\ Alone'
  BY <1>2, <1>3, <1>4, <1>6, <1>7 DEF Core, Typed, TypeOK, ToSet, Alone
<1> QED
  BY <1>3, <1>8, HandleChained, HandleReportsRestarts, HandleReportsEvictions DEF Core, Reported

-----------------------------------------------------------------------------
(* The start.                                                              *)

\* The first list, in some order, each pod once.
LEMMA FirstList ==
    ASSUME NEW S \in SUBSET Pods
    PROVE
    /\ SetToSeq(S) \in [1..Cardinality(S) -> S]
    /\ \A i, j \in 1..Cardinality(S) : SetToSeq(S)[i] = SetToSeq(S)[j] => i = j
    /\ \A p \in S : \E i \in 1..Cardinality(S) : SetToSeq(S)[i] = p
    /\ Cardinality(S) \in Nat
<1>1. IsFiniteSet(S)
  BY FS_Subset, IncidentQueueAssumption DEF IncidentQueueAssumption
<1>2. Cardinality(S) \in Nat /\ ExistsBijection(1..Cardinality(S), S)
  BY <1>1, FS_CardinalityType
<1> DEFINE D == 1..Cardinality(S)
<1>3. \E f \in [D -> S] : IsInjective(f)
  BY <1>2 DEF ExistsBijection, Bijection, Injection
<1>4. SetToSeq(S) \in [D -> S] /\ IsInjective(SetToSeq(S))
  BY <1>3 DEF SetToSeq
<1>5. SetToSeq(S) \in Injection(D, S)
  BY <1>4 DEF Injection
<1>6. IsFiniteSet(D) /\ Cardinality(D) = Cardinality(S)
  BY <1>2, FS_Interval
<1>7. SetToSeq(S) \in Surjection(D, S)
  <2> HIDE DEF D
  <2> QED
    BY <1>1, <1>5, <1>6, FS_Injection
<1> QED
  BY <1>2, <1>4, <1>7 DEF IsInjective, Surjection

LEMMA FirstStatus ==
    ASSUME NEW p \in Pods
    PROVE  /\ Fresh(p) \in Status /\ Fresh(p).pod = p
           /\ Restarted(p) \in Status /\ Restarted(p).pod = p
<1>1. Fresh(p) \in Status /\ Fresh(p).pod = p
  BY IncidentQueueAssumption DEF Fresh, Status, IncidentQueueAssumption
<1>2. Restarted(p) \in Status /\ Restarted(p).pod = p
  <2>1. PICK none : none = [c \in Containers |-> 0]
    OBVIOUS
  <2>2. PICK tame : tame = [c \in Containers |-> FALSE]
    OBVIOUS
  <2>3. PICK one : one = [none EXCEPT ![First] = 1]
    OBVIOUS
  <2>4. /\ one \in [Containers -> 0..MaxCount] /\ one \in [Containers -> 0..MaxClock]
        /\ tame \in [Containers -> BOOLEAN]
    BY <2>1, <2>2, <2>3, IncidentQueueAssumption DEF IncidentQueueAssumption
  <2>5. PICK kept : kept = FALSE
    OBVIOUS
  <2>6. Fresh(p) = [pod |-> p, count |-> none, finished |-> none, oom |-> tame, evicted |-> kept]
    BY <2>1, <2>2, <2>5 DEF Fresh
  <2>7. [[pod |-> p, count |-> none, finished |-> none, oom |-> tame, evicted |-> kept]
            EXCEPT !.count[First] = 1, !.finished[First] = 1]
            = [pod |-> p, count |-> one, finished |-> one, oom |-> tame, evicted |-> kept]
    <3> DEFINE r == [pod |-> p, count |-> none, finished |-> none, oom |-> tame, evicted |-> kept]
               r1 == [r EXCEPT !.count[First] = 1]
               s1 == [pod |-> p, count |-> one, finished |-> none, oom |-> tame, evicted |-> kept]
               s2 == [pod |-> p, count |-> one, finished |-> one, oom |-> tame, evicted |-> kept]
    <3>1. r1 = s1
      BY <2>3
    <3>2. [s1 EXCEPT !.finished[First] = 1] = s2
      BY <2>3
    <3>3. [r1 EXCEPT !.finished[First] = 1] = s2
      <4> HIDE DEF r1, s1, s2
      <4> QED
        BY <3>1, <3>2
    <3> QED
      BY <3>3
  <2>8. [pod |-> p, count |-> one, finished |-> one, oom |-> tame, evicted |-> kept] \in Status
    BY <2>4, <2>5 DEF Status
  <2>9. [Fresh(p) EXCEPT !.count[First] = 1, !.finished[First] = 1]
            = [pod |-> p, count |-> one, finished |-> one, oom |-> tame, evicted |-> kept]
    BY <2>6, <2>7
  <2> QED
    BY <2>8, <2>9 DEF Restarted
<1> QED
  BY <1>1, <1>2

LEMMA InitInvariant == Init => IInv
<1> SUFFICES ASSUME Init PROVE Core /\ Reported
  BY DEF IInv
<1> DEFINE l == Cardinality(There)
           list == SetToSeq(There)
<1>0. There \in SUBSET Pods /\ \A p \in Pods : p \in There <=> phase[p] = "there"
  BY DEF There
<1>1. /\ list \in [1..l -> There] /\ l \in Nat
      /\ \A i, j \in 1..l : list[i] = list[j] => i = j
      /\ \A p \in There : \E i \in 1..l : list[i] = p
  BY <1>0, FirstList
<1>2. /\ clock = 1 /\ changes = 0 /\ ready = FALSE
      /\ phase \in [Pods -> {"awaited", "there"}] /\ Alone
      /\ dedupe = {} /\ dedupeOrder = <<>> /\ queue = <<>>
      /\ capturing = [w \in Workers |-> Idle]
      /\ entered = {} /\ again = {} /\ dropped = {}
      /\ handled = [p \in Pods |-> Unknown]
      /\ passed = [p \in Pods |-> [total |-> 0, evicted |-> FALSE]]
  BY DEF Init
<1>3. status \in [Pods -> Status] /\ \A p \in Pods : status[p].pod = p
  <2>1. PICK restarted \in SUBSET There :
            status = [p \in Pods |-> IF p \in restarted THEN Restarted(p) ELSE Fresh(p)]
    BY DEF Init
  <2> QED
    BY <2>1, FirstStatus
<1>4. notes = [i \in 1..l |-> [old |-> Unknown, new |-> status[list[i]], deleted |-> FALSE]]
  <2>1. DOMAIN list = 1..l
    BY <1>1
  <2> HIDE DEF list, l
  <2> QED
    BY <2>1 DEF Init, list
<1>5. /\ store \in [Names -> Status \cup {Unknown}]
      /\ \A p \in There : Held(p) = status[p]
      /\ \A p \in Pods \ There : Held(p) = Unknown
  <2>1. store = [n \in Names |-> IF \E p \in There : NameOf[p] = n
                                 THEN status[Bearer(n)] ELSE Unknown]
    BY DEF Init
  <2>2. \A n \in Names : (\E p \in There : NameOf[p] = n) => Bearer(n) \in There /\ NameOf[Bearer(n)] = n
    BY DEF Bearer
  <2>3. NameOf \in [Pods -> Names] /\ Unknown \notin Status
    BY IncidentQueueAssumption, UnknownAssumption DEF IncidentQueueAssumption, UnknownAssumption
  <2>4. ASSUME NEW p \in There PROVE Held(p) = status[p]
    <3>1. Bearer(NameOf[p]) = p
      BY <1>0, <1>2, <2>2, <2>3, <2>4 DEF Alone
    <3>2. store[NameOf[p]] = status[p]
      BY <1>0, <2>1, <2>3, <2>4, <3>1
    <3> QED
      BY <1>0, <1>3, <2>3, <3>2 DEF Held, InStore
  <2>5. ASSUME NEW p \in Pods \ There PROVE Held(p) = Unknown
    <3>1. CASE \E q \in There : NameOf[q] = NameOf[p]
      <4>1. store[NameOf[p]] = status[Bearer(NameOf[p])] /\ Bearer(NameOf[p]) \in There
        BY <2>1, <2>2, <2>3, <3>1
      <4>2. store[NameOf[p]].pod # p
        BY <1>0, <1>3, <4>1
      <4> QED
        BY <4>2 DEF Held, InStore
    <3>2. CASE ~\E q \in There : NameOf[q] = NameOf[p]
      BY <2>1, <2>3, <3>2 DEF Held, InStore
    <3> QED
      BY <3>1, <3>2
  <2>6. store \in [Names -> Status \cup {Unknown}]
    BY <1>0, <1>3, <2>1, <2>2
  <2> QED
    BY <2>4, <2>5, <2>6
<1> HIDE DEF l, list
<1>6. notes \in Seq(Note) /\ Len(notes) = l
  <2>1. \A i \in 1..l : [old |-> Unknown, new |-> status[list[i]], deleted |-> FALSE] \in Note
    BY <1>0, <1>1, <1>3 DEF Note
  <2>2. notes \in [1..l -> Note]
    BY <1>4, <2>1
  <2> QED
    BY <1>1, <2>2
<1>7. \A i \in 1..l : /\ notes[i].old = Unknown /\ ~notes[i].deleted /\ list[i] \in There
                      /\ notes[i].new = status[list[i]] /\ notes[i].new.pod = list[i]
  BY <1>0, <1>1, <1>3, <1>4
<1>8. Typed
  <2>1. clock \in 1..MaxClock /\ QueueSize \in Nat /\ changes \in 0..MaxChanges
    BY <1>2, IncidentQueueAssumption DEF IncidentQueueAssumption
  <2>2. ToSet(queue) = {} /\ Len(queue) = 0 /\ queue \in Seq(Incident) /\ dedupeOrder \in Seq(Keys)
    BY <1>2 DEF ToSet
  <2>3. 0 <= QueueSize
    BY <2>1
  <2> QED
    BY <1>2, <1>3, <1>5, <1>6, <2>1, <2>2, <2>3 DEF Typed, TypeOK
<1>9. Chained
  <2> SUFFICES ASSUME NEW k \in 1..Len(notes), NEW n \in {notes[k]}
               PROVE  Linked(n, k)
    BY DEF Chained
  <2>1. k \in 1..l /\ n.new.pod = list[k] /\ n.old = Unknown /\ ~n.deleted /\ n.new.pod \in Pods
    BY <1>0, <1>6, <1>7
  <2>2. \A j \in 1..(k - 1) : notes[j].new.pod # n.new.pod
    <3> TAKE j \in 1..(k - 1)
    <3>1. j \in 1..l /\ j # k
      BY <1>1, <2>1
    <3> QED
      BY <1>1, <1>7, <2>1, <3>1
  <2> QED
    BY <1>2, <2>1, <2>2 DEF Linked, Continues
<1>10. Stored
  <2> SUFFICES ASSUME NEW p \in Pods, Held(p) # Unknown
               PROVE  /\ GivenBefore(Held(p), p, Len(notes) + 1) /\ Later(Held(p), status[p])
                      /\ phase[p] # "awaited"
    BY DEF Stored
  <2>0. p \in There /\ Held(p) = status[p] /\ phase[p] = "there"
    BY <1>0, <1>5
  <2>1. PICK i \in 1..l : list[i] = p
    BY <1>1, <2>0
  <2>2. notes[i].new.pod = p /\ notes[i].new = Held(p)
    BY <1>7, <2>0, <2>1
  <2>3. i \in 1..(Len(notes) + 1 - 1)
    BY <1>1, <1>6
  <2>4. \A m \in (i + 1)..(Len(notes) + 1 - 1) : notes[m].new.pod # p
    <3> TAKE m \in (i + 1)..(Len(notes) + 1 - 1)
    <3>1. m \in 1..l /\ m # i
      BY <1>1, <1>6
    <3> QED
      BY <1>1, <1>7, <2>1, <3>1
  <2>5. GivenBefore(Held(p), p, Len(notes) + 1)
    BY <2>2, <2>3, <2>4 DEF GivenBefore
  <2>6. status[p] \in Status
    BY <1>3
  <2>7. Later(Held(p), status[p])
    BY <2>0, <2>6, IncidentQueueAssumption DEF Later, Status, IncidentQueueAssumption
  <2> QED
    BY <2>0, <2>5, <2>7
<1>11. Unseen
  <2> SUFFICES ASSUME NEW p \in Pods, Held(p) = Unknown
               PROVE  handled[p] = Unknown /\ \A j \in 1..Len(notes) : notes[j].new.pod # p
    BY DEF Unseen
  <2>1. p \notin There
    BY <1>0, <1>3, <1>5, UnknownAssumption DEF UnknownAssumption
  <2> QED
    BY <1>2, <1>6, <1>7, <2>1
<1>12. Remembered
  <2>1. EnteredKeys = {}
    BY <1>2 DEF EnteredKeys
  <2> QED
    BY <1>2, <2>1, FS_EmptySet DEF Remembered
<1>13. Reported
  BY <1>2 DEF Reported, RestartsReported, EvictionsReported
<1> QED
  BY <1>2, <1>8, <1>9, <1>10, <1>11, <1>12, <1>13 DEF Core

-----------------------------------------------------------------------------
(* The theorems.                                                           *)

LEMMA StepInvariant == IInv /\ [Next]_vars => IInv'
<1> SUFFICES ASSUME Core, Reported, [Next]_vars PROVE Core' /\ Reported'
  BY DEF IInv
<1>1. CASE UNCHANGED vars
  <2>1. UNCHANGED <<clock, changes, status, phase, store, notes, ready, dedupe, dedupeOrder, queue,
                    capturing, entered, again, dropped, handled, passed>>
    BY <1>1 DEF vars
  <2>2. Typed' /\ Alone'
    BY <2>1 DEF Core, Typed, TypeOK, ToSet, Alone
  <2> QED
    BY <2>1, <2>2, StatusStays, QuietStep DEF Core
<1>2. CASE Tick
  BY <1>2, WorldPreserves
<1>3. ASSUME NEW p \in Pods, Change(p)
      PROVE  Core' /\ Reported'
  BY <1>3, WorldPreserves
<1>4. ASSUME NEW p \in Pods, Observe(p) \/ ObserveGone(p)
      PROVE  Core' /\ Reported'
  BY <1>4, InformerPreserves
<1>5. CASE Ready
  BY <1>5, ReadyPreserves
<1>6. CASE Handle
  BY <1>6, HandlePreserves
<1>7. ASSUME NEW w \in Workers, Capture(w) \/ Captured(w)
      PROVE  Core' /\ Reported'
  BY <1>7, WorkerPreserves
<1> QED
  BY <1>1, <1>2, <1>3, <1>4, <1>5, <1>6, <1>7 DEF Next, Change

LEMMA Inductive == Spec => []IInv
<1>1. Init => IInv
  BY InitInvariant
<1>2. IInv /\ [Next]_vars => IInv'
  BY StepInvariant
<1> QED
  BY <1>1, <1>2, PTL DEF Spec

\* Every incident has a pod, a sum of restarts and a container, and one that is no
\* eviction tells of a restart (detectRestartIncidents); the queue keeps its size.
THEOREM TypeCorrect == Spec => []TypeOK
<1>1. IInv => TypeOK
  BY DEF IInv, Core, Typed
<1> QED
  BY <1>1, Inductive, PTL

\* As long as all keys fit in the memory, enqueue accepts no incident twice, though
\* the oldest key is dropped without a look at whether it was queued.
THEOREM NeverTwice == Spec => []NoneTwice
<1>1. IInv => NoneTwice
  <2> SUFFICES ASSUME IInv, again # {}
               PROVE  Cardinality(EnteredKeys) > DedupeSize
    BY DEF NoneTwice, EnteredKeys
  <2>1. IsFiniteSet(EnteredKeys) /\ ~(Cardinality(EnteredKeys) <= DedupeSize)
    BY DEF IInv, Core, Remembered
  <2>2. Cardinality(EnteredKeys) \in Nat /\ DedupeSize \in Nat
    BY <2>1, FS_CardinalityType, IncidentQueueAssumption DEF IncidentQueueAssumption
  <2> QED
    BY <2>1, <2>2
<1> QED
  BY <1>1, Inductive, PTL

\* A restart the handler is told of once BeaverDeck is ready becomes an incident or
\* is dropped by a full queue, whatever changes arrive as one notification.
THEOREM RestartsAlwaysReported == Spec => []RestartsReported
<1>1. IInv => RestartsReported
  BY DEF IInv, Reported
<1> QED
  BY <1>1, Inductive, PTL

\* So does an eviction, also one that is seen only when the pod is deleted
\* (DeleteFunc with the pod or with a tombstone).
THEOREM EvictionsAlwaysReported == Spec => []EvictionsReported
<1>1. IInv => EvictionsReported
  BY DEF IInv, Reported
<1> QED
  BY <1>1, Inductive, PTL

=============================================================================
