--------------------------- MODULE PodListsProofs ---------------------------
(***************************************************************************)
(* Theorems about PodLists, for any clients, namespaces, workers and       *)
(* exporters.                                                              *)
(***************************************************************************)
EXTENDS PodLists, TLAPS

Genuine(c) == {Refused(ns) : ns \in ToSet(Order[c])}

\* Namespaces the workers ws are at.
Held(ws) == {ws[w].ns : w \in {x \in Workers : ws[x].at \in {"pods", "cache", "scrape"}}}

\* While the request's context is live no namespace is lost on the way from the
\* jobs to the chunks, and some worker is left to take the jobs there are.
Whole(c, r, ws) ==
    /\ ToSet(Order[c]) = r.chunks \cup ToSet(r.jobs) \cup Held(ws)
    /\ r.jobs = << >> \/ \E w \in Workers : ws[w].at # "done"

\* The request r of client c and its workers ws.
Good(c, r, ws) ==
    /\ r.at # "listing" => \A w \in Workers : ws[w].at = "done"
    /\ r.at = "new" => r.context = "live" /\ r.error = NoError /\ r.chunks = {}
    /\ r.context = "live" => r.error = NoError
    /\ r.context = "cancelled" => r.error \in Genuine(c)
    /\ r.at = "listing" /\ r.context = "live" => Whole(c, r, ws)
    /\ r.at = "answered" /\ r.context # "gone" => r.chunks = ToSet(Order[c])
    /\ r.at = "failed" => r.error # NoError

AllGood == \A c \in Clients : Good(c, requests[c], workers[c])

\* No reading, cached or on its way there, is older than the life of the cache and
\* one scrape.
CacheRecent ==
    \A e \in DOMAIN cache.readings : cache.expires <= cache.readings[e] + TTL + ScrapeLimit

Timely(v) ==
    v.at = "scrape" => /\ v.since <= clock /\ clock <= v.since + ScrapeLimit
                       /\ \A e \in DOMAIN v.readings : v.since <= v.readings[e]

Recent == CacheRecent /\ \A c \in Clients, w \in Workers : Timely(workers[c][w])

IInv == TypeOK /\ AllGood /\ Recent
-----------------------------------------------------------------------------
LEMMA JobFacts ==
    ASSUME NEW s \in Seq(Namespaces)
    PROVE  /\ s = << >> => ToSet(s) = {}
           /\ s # << >> => /\ Head(s) \in Namespaces /\ Tail(s) \in Seq(Namespaces)
                           /\ ToSet(s) = {Head(s)} \cup ToSet(Tail(s))
<1>1. ASSUME s # << >>
      PROVE  /\ Head(s) \in Namespaces /\ Tail(s) \in Seq(Namespaces)
             /\ ToSet(s) = {Head(s)} \cup ToSet(Tail(s))
  <2>1. /\ Head(s) = s[1] /\ Head(s) \in Namespaces
        /\ Tail(s) \in Seq(Namespaces)
        /\ Len(s) \in Nat \ {0} /\ Len(Tail(s)) = Len(s) - 1
        /\ \A i \in 1..Len(Tail(s)) : Tail(s)[i] = s[i + 1]
    BY <1>1
  <2>2. ASSUME NEW x \in ToSet(s) PROVE x \in {Head(s)} \cup ToSet(Tail(s))
    <3>1. PICK i \in 1..Len(s) : x = s[i]
      BY <2>2 DEF ToSet
    <3>2. CASE i = 1
      BY <2>1, <3>1, <3>2
    <3>3. CASE i # 1
      <4>1. i - 1 \in 1..Len(Tail(s)) /\ Tail(s)[i - 1] = x
        BY <2>1, <3>1, <3>3
      <4>2. DOMAIN Tail(s) = 1..Len(Tail(s))
        BY <2>1
      <4>3. x \in ToSet(Tail(s))
        BY <4>1, <4>2 DEF ToSet
      <4> QED
        BY <4>3
    <3> QED
      BY <3>2, <3>3
  <2>3. ASSUME NEW x \in {Head(s)} \cup ToSet(Tail(s)) PROVE x \in ToSet(s)
    <3>1. CASE x = Head(s)
      BY <2>1, <3>1 DEF ToSet
    <3>2. CASE x \in ToSet(Tail(s))
      <4>1. PICK i \in 1..Len(Tail(s)) : x = Tail(s)[i]
        BY <2>1, <3>2 DEF ToSet
      <4>2. i + 1 \in 1..Len(s) /\ x = s[i + 1]
        BY <2>1, <4>1
      <4> QED
        BY <2>1, <4>2 DEF ToSet
    <3> QED
      BY <2>3, <3>1, <3>2
  <2> QED
    BY <2>1, <2>2, <2>3
<1>2. ASSUME s = << >> PROVE ToSet(s) = {}
  BY <1>2 DEF ToSet
<1> QED
  BY <1>1, <1>2

\* What worker v holds.
Of(v) == IF v.at \in {"pods", "cache", "scrape"} THEN {v.ns} ELSE {}

LEMMA HeldFacts ==
    ASSUME NEW ws, NEW ws2, NEW w \in Workers,
           \A x \in Workers : x # w => ws2[x] = ws[x]
    PROVE  /\ Held(ws2) \cup Of(ws[w]) = Held(ws) \cup Of(ws2[w])
           /\ Of(ws2[w]) = Of(ws[w]) => Held(ws2) = Held(ws)
<1>1. Of(ws2[w]) \subseteq Held(ws2) /\ Of(ws[w]) \subseteq Held(ws)
  BY DEF Held, Of
<1>2. Held(ws2) \subseteq Held(ws) \cup Of(ws2[w])
  BY DEF Held, Of
<1>3. Held(ws) \subseteq Held(ws2) \cup Of(ws[w])
  BY DEF Held, Of
<1> QED
  BY <1>1, <1>2, <1>3

\* A step that makes client c's request r and its workers ws.
LEMMA Frame ==
    ASSUME IInv, NEW c \in Clients,
           NEW r \in RequestStates, NEW ws \in [Workers -> WorkerStates],
           requests' = [requests EXCEPT ![c] = r], workers' = [workers EXCEPT ![c] = ws],
           Good(c, r, ws), \A w \in Workers : Timely(ws[w]),
           CacheRecent', cache' \in [readings : Readings, expires : Nat], clock' = clock
    PROVE  IInv'
<1>1. /\ requests' \in [Clients -> RequestStates]
      /\ workers' \in [Clients -> [Workers -> WorkerStates]]
  BY DEF IInv, TypeOK
<1>2. TypeOK'
  BY <1>1 DEF IInv, TypeOK
<1>3. ASSUME NEW d \in Clients
      PROVE  Good(d, requests'[d], workers'[d]) /\ \A w \in Workers : Timely(workers'[d][w])
  BY DEF IInv, AllGood, Recent, TypeOK
<1>4. AllGood'
  BY <1>3 DEF AllGood
<1>5. Recent'
  BY <1>3 DEF Recent, Timely
<1> QED
  BY <1>2, <1>4, <1>5 DEF IInv

\* A step of worker w of client c that makes it v.
LEMMA WorkerFrame ==
    ASSUME IInv, NEW c \in Clients, NEW w \in Workers,
           NEW r \in RequestStates, NEW v \in WorkerStates,
           requests' = [requests EXCEPT ![c] = r],
           workers' = [workers EXCEPT ![c][w] = v],
           Good(c, r, [workers[c] EXCEPT ![w] = v]), Timely(v),
           CacheRecent', cache' \in [readings : Readings, expires : Nat], clock' = clock
    PROVE  IInv'
<1> DEFINE ws == [workers[c] EXCEPT ![w] = v]
<1>1. workers[c] \in [Workers -> WorkerStates]
  BY DEF IInv, TypeOK
<1>2. ws \in [Workers -> WorkerStates] /\ workers' = [workers EXCEPT ![c] = ws]
  BY <1>1 DEF IInv, TypeOK
<1>3. \A x \in Workers : Timely(ws[x])
  BY <1>1 DEF IInv, Recent
<1> QED
  <2> HIDE DEF ws
  <2> QED
    BY <1>2, <1>3, Frame DEF ws

\* What a worker that has not gone home knows of its request.
LEMMA AtWork ==
    ASSUME IInv, NEW c \in Clients, NEW w \in Workers, workers[c][w].at # "done"
    PROVE  /\ requests[c] \in RequestStates /\ requests[c].at = "listing"
           /\ workers[c] \in [Workers -> WorkerStates] /\ workers[c][w] \in WorkerStates
           /\ Live(c) => requests[c].error = NoError /\ Whole(c, requests[c], workers[c])
           /\ requests[c].context = "cancelled" => requests[c].error \in Genuine(c)
           /\ cache \in [readings : Readings, expires : Nat] /\ CacheRecent
           /\ Timely(workers[c][w])
<1>1. /\ requests[c] \in RequestStates
      /\ workers[c] \in [Workers -> WorkerStates] /\ workers[c][w] \in WorkerStates
      /\ cache \in [readings : Readings, expires : Nat]
  BY DEF IInv, TypeOK
<1>2. Good(c, requests[c], workers[c]) /\ Recent
  BY DEF IInv, AllGood
<1>3. requests[c].at = "listing"
  BY <1>2 DEF Good
<1> QED
  BY <1>1, <1>2, <1>3 DEF Good, Live, Recent

\* A request that goes on listing is good while its context is live and whole, and
\* when its context has ended, with a genuine error if the request itself ended it.
LEMMA Listing ==
    ASSUME NEW c \in Clients, NEW r \in RequestStates, NEW ws, r.at = "listing",
           r.context = "live" => r.error = NoError /\ Whole(c, r, ws),
           r.context = "cancelled" => r.error \in Genuine(c)
    PROVE  Good(c, r, ws)
BY DEF Good, RequestStates

-----------------------------------------------------------------------------
(* One lemma for each step of a worker.                                    *)

LEMMA ErrorFacts ==
    ASSUME NEW c \in Clients
    PROVE  NoError \notin Genuine(c) /\ Genuine(c) \subseteq Errors
<1>1. ToSet(Order[c]) \subseteq Namespaces
  <2>1. Order[c] \in Seq(Namespaces)
    BY ListAssumption
  <2> QED
    BY <2>1 DEF ToSet
<1> QED
  BY <1>1, ListAssumption DEF Genuine, Refused, Errors

LEMMA IdleFacts == Idle \in WorkerStates /\ Idle.at = "done" /\ Of(Idle) = {}
<1>1. NoReadings \in Readings
  BY DEF NoReadings, Readings
<1> QED
  BY <1>1 DEF Idle, WorkerStates, Of

LEMMA TakeJobInductive ==
    ASSUME IInv, NEW c \in Clients, NEW w \in Workers, TakeJob(c, w)
    PROVE  IInv'
<1> DEFINE R == requests[c]
           W == workers[c]
<1>0. W[w].at = "next" /\ Of(W[w]) = {}
  BY DEF TakeJob, Of
<1>1. /\ R \in RequestStates /\ R.at = "listing"
      /\ W \in [Workers -> WorkerStates]
      /\ Live(c) => R.error = NoError /\ Whole(c, R, W)
      /\ R.context = "cancelled" => R.error \in Genuine(c)
      /\ cache \in [readings : Readings, expires : Nat] /\ CacheRecent
  BY <1>0, AtWork
<1>2. requests \in [Clients -> RequestStates] /\ workers \in [Clients -> [Workers -> WorkerStates]]
  BY DEF IInv, TypeOK
<1>3. cache' = cache /\ clock' = clock /\ CacheRecent'
  BY <1>1 DEF TakeJob, CacheRecent
<1>4. CASE R.jobs = << >>
  <2> DEFINE ws == [W EXCEPT ![w] = Idle]
  <2>1. requests' = [requests EXCEPT ![c] = R] /\ workers' = [workers EXCEPT ![c][w] = Idle]
    BY <1>2, <1>4 DEF TakeJob, Finish
  <2>2. Held(ws) = Held(W)
    <3>1. ws[w] = Idle /\ \A x \in Workers : x # w => ws[x] = W[x]
      BY <1>1
    <3> HIDE DEF ws, W
    <3> QED
      BY <1>0, <3>1, IdleFacts, HeldFacts
  <2>3. Live(c) => Whole(c, R, ws)
    BY <1>1, <1>4, <2>2 DEF Whole
  <2>4. Good(c, R, ws)
    <3> HIDE DEF R, ws
    <3> QED
      BY <1>1, <2>3, Listing DEF Live, R
  <2>5. Timely(Idle)
    BY IdleFacts DEF Timely
  <2> QED
    <3> HIDE DEF R
    <3> QED
      BY <1>1, <1>3, <2>1, <2>4, <2>5, IdleFacts, WorkerFrame
<1>5. CASE R.jobs # << >>
  <2> DEFINE r  == [R EXCEPT !.jobs = Tail(R.jobs)]
             v  == IF Live(c) THEN [Idle EXCEPT !.at = "pods", !.ns = Head(R.jobs)] ELSE Idle
             ws == [W EXCEPT ![w] = v]
  <2>0. R.jobs \in Seq(Namespaces)
    BY <1>1 DEF RequestStates
  <2>1. /\ Head(R.jobs) \in Namespaces /\ Tail(R.jobs) \in Seq(Namespaces)
        /\ ToSet(R.jobs) = {Head(R.jobs)} \cup ToSet(Tail(R.jobs))
    BY <2>0, <1>5, JobFacts
  <2>2. requests' = [requests EXCEPT ![c] = r] /\ workers' = [workers EXCEPT ![c][w] = v]
    BY <1>2, <1>5 DEF TakeJob, Fetch
  <2>3. /\ r \in RequestStates /\ r.at = "listing" /\ r.jobs = Tail(R.jobs)
        /\ r.context = R.context /\ r.error = R.error /\ r.chunks = R.chunks
    BY <1>1, <2>1 DEF RequestStates
  <2>4. v \in WorkerStates
    BY <2>1, IdleFacts DEF WorkerStates
  <2>5. Live(c) => Of(v) = {Head(R.jobs)} /\ v.at = "pods"
    BY IdleFacts DEF Of, WorkerStates, Idle
  <2>6. Live(c) => Whole(c, r, ws)
    <3> SUFFICES ASSUME Live(c) PROVE Whole(c, r, ws)
      OBVIOUS
    <3>1. Whole(c, R, W)
      BY <1>1
    <3>2. /\ Held(ws) \cup Of(W[w]) = Held(W) \cup Of(v)
          /\ ws[w] = v
      <4> HIDE DEF v
      <4>1. ws[w] = v /\ \A x \in Workers : x # w => ws[x] = W[x]
        BY <1>1
      <4> HIDE DEF ws, W
      <4> QED
        BY <4>1, HeldFacts
    <3>3. Held(ws) = Held(W) \cup {Head(R.jobs)}
      BY <1>0, <2>5, <3>2
    <3>4. ws[w].at # "done"
      BY <2>5, <3>2
    <3> HIDE DEF ws, v, r, R, W
    <3> QED
      BY <2>1, <2>3, <3>1, <3>3, <3>4 DEF Whole
  <2>7. Good(c, r, ws)
    <3> HIDE DEF ws, r
    <3> QED
      BY <1>1, <2>3, <2>6, Listing DEF Live
  <2>8. Timely(v)
    BY IdleFacts DEF Timely, WorkerStates, Idle
  <2> QED
    <3> HIDE DEF r, v
    <3> QED
      BY <1>1, <1>3, <2>2, <2>3, <2>4, <2>7, <2>8, WorkerFrame
<1> QED
  BY <1>4, <1>5

\* A step of a worker that goes on with its namespace.
LEMMA Onward ==
    ASSUME IInv, NEW c \in Clients, NEW w \in Workers, NEW v \in WorkerStates,
           workers[c][w].at \in {"pods", "cache", "scrape"},
           v.at \in {"pods", "cache", "scrape"}, v.ns = workers[c][w].ns,
           workers' = [workers EXCEPT ![c][w] = v], Timely(v),
           UNCHANGED <<requests, cache, clock>>
    PROVE  IInv'
<1> DEFINE R  == requests[c]
           W  == workers[c]
           ws == [W EXCEPT ![w] = v]
<1>1. /\ R \in RequestStates /\ R.at = "listing"
      /\ W \in [Workers -> WorkerStates]
      /\ Live(c) => R.error = NoError /\ Whole(c, R, W)
      /\ R.context = "cancelled" => R.error \in Genuine(c)
      /\ cache \in [readings : Readings, expires : Nat] /\ CacheRecent
  BY AtWork
<1>2. requests' = [requests EXCEPT ![c] = R]
  BY DEF IInv, TypeOK
<1>3. Of(v) = {W[w].ns} /\ Of(W[w]) = {W[w].ns}
  BY DEF Of
<1>4. Of(v) = Of(W[w])
  BY <1>3
<1>5. Held(ws) = Held(W) /\ ws[w].at # "done"
  <2>1. ws[w] = v
    BY <1>1
  <2>2. \A x \in Workers : x # w => ws[x] = W[x]
    BY <1>1
  <2> HIDE DEF W, ws
  <2>3. Held(ws) = Held(W)
    BY <1>4, <2>1, <2>2, HeldFacts
  <2> QED
    BY <2>1, <2>3
<1>6. Live(c) => Whole(c, R, ws)
  <2> HIDE DEF R, W, ws
  <2> QED
    BY <1>1, <1>5 DEF Whole
<1>7. Good(c, R, ws)
  <2> HIDE DEF ws
  <2> QED
    BY <1>1, <1>6, Listing DEF Live
<1> QED
  <2> HIDE DEF R
  <2> QED
    BY <1>1, <1>2, <1>7, WorkerFrame DEF CacheRecent

LEMMA ReadPodsInductive ==
    ASSUME IInv, NEW c \in Clients, NEW w \in Workers, ReadPods(c, w)
    PROVE  IInv'
<1> DEFINE v == [workers[c][w] EXCEPT !.at = "cache"]
<1>1. workers[c][w] \in WorkerStates /\ workers[c][w].at = "pods"
  BY AtWork DEF ReadPods
<1>2. v \in WorkerStates /\ v.at = "cache" /\ v.ns = workers[c][w].ns
  BY <1>1 DEF WorkerStates
<1>3. workers' = [workers EXCEPT ![c][w] = v] /\ UNCHANGED <<requests, cache, clock>>
  BY DEF ReadPods, Goto, IInv, TypeOK
<1>4. Timely(v)
  BY <1>2 DEF Timely
<1> QED
  <2> HIDE DEF v
  <2> QED
    BY <1>1, <1>2, <1>3, <1>4, Onward

LEMMA BeginScrapeInductive ==
    ASSUME IInv, NEW c \in Clients, NEW w \in Workers, BeginScrape(c, w)
    PROVE  IInv'
<1> DEFINE v == [workers[c][w] EXCEPT !.at = "scrape", !.pending = Exporters,
                                    !.readings = NoReadings, !.since = clock]
<1>1. workers[c][w] \in WorkerStates /\ workers[c][w].at = "cache"
  BY AtWork DEF BeginScrape
<1>0. NoReadings \in Readings /\ DOMAIN NoReadings = {}
  BY DEF NoReadings, Readings
<1>2. /\ v \in WorkerStates /\ v.at = "scrape" /\ v.ns = workers[c][w].ns
      /\ v.readings = NoReadings /\ v.since = clock /\ clock \in Nat
  BY <1>0, <1>1 DEF WorkerStates, IInv, TypeOK
<1>3. workers' = [workers EXCEPT ![c][w] = v] /\ UNCHANGED <<requests, cache, clock>>
  BY DEF BeginScrape, IInv, TypeOK
<1>4. Timely(v)
  BY <1>0, <1>2, ListAssumption DEF Timely
<1> QED
  <2> HIDE DEF v
  <2> QED
    BY <1>1, <1>2, <1>3, <1>4, Onward

LEMMA AnswersInductive ==
    ASSUME IInv, NEW c \in Clients, NEW w \in Workers, NEW e \in Exporters, Answers(c, w, e)
    PROVE  IInv'
<1> DEFINE u  == workers[c][w]
           rs == [x \in DOMAIN u.readings \cup {e} |-> IF x = e THEN clock ELSE u.readings[x]]
           v  == [u EXCEPT !.pending = u.pending \ {e}, !.readings = rs]
<1>1. u \in WorkerStates /\ u.at = "scrape" /\ Timely(u) /\ clock \in Nat
  BY AtWork DEF Answers, IInv, TypeOK
<1>2. u.readings \in Readings /\ u.since \in Nat
  BY <1>1 DEF WorkerStates
<1>3. PICK E \in SUBSET Exporters : u.readings \in [E -> Nat]
  BY <1>2 DEF Readings
<1>4. rs \in [E \cup {e} -> Nat]
  BY <1>1, <1>3
<1>5. rs \in Readings
  <2> HIDE DEF rs
  <2> QED
    BY <1>4 DEF Readings
<1>6. /\ v \in WorkerStates /\ v.at = "scrape" /\ v.ns = u.ns
      /\ v.readings = rs /\ v.since = u.since
  <2> HIDE DEF rs
  <2> QED
    BY <1>1, <1>5 DEF WorkerStates
<1>7. workers' = [workers EXCEPT ![c][w] = v] /\ UNCHANGED <<requests, cache, clock>>
  BY DEF Answers, IInv, TypeOK
<1>8. \A x \in DOMAIN rs : u.since <= rs[x]
  BY <1>1, <1>2, <1>3 DEF Timely
<1>9. Timely(v)
  <2> HIDE DEF rs, v
  <2> QED
    BY <1>1, <1>6, <1>8 DEF Timely
<1> QED
  <2> HIDE DEF v
  <2> QED
    BY <1>1, <1>6, <1>7, <1>9, Onward

LEMMA GivesNothingInductive ==
    ASSUME IInv, NEW c \in Clients, NEW w \in Workers, NEW e \in Exporters, GivesNothing(c, w, e)
    PROVE  IInv'
<1> DEFINE u == workers[c][w]
           v == [u EXCEPT !.pending = u.pending \ {e}]
<1>1. u \in WorkerStates /\ u.at = "scrape" /\ Timely(u)
  BY AtWork DEF GivesNothing
<1>2. /\ v \in WorkerStates /\ v.at = "scrape" /\ v.ns = u.ns
      /\ v.readings = u.readings /\ v.since = u.since
  BY <1>1 DEF WorkerStates
<1>3. workers' = [workers EXCEPT ![c][w] = v] /\ UNCHANGED <<requests, cache, clock>>
  BY DEF GivesNothing, IInv, TypeOK
<1>4. Timely(v)
  <2> HIDE DEF v
  <2> QED
    BY <1>1, <1>2 DEF Timely
<1> QED
  <2> HIDE DEF v
  <2> QED
    BY <1>1, <1>2, <1>3, <1>4, Onward

\* A failure ends the worker; the request keeps the first error, a genuine one unless
\* its client has gone.
LEMMA PodsFailInductive ==
    ASSUME IInv, NEW c \in Clients, NEW w \in Workers, PodsFail(c, w)
    PROVE  IInv'
<1> DEFINE R   == requests[c]
           W   == workers[c]
           err == IF Live(c) THEN Refused(W[w].ns) ELSE Cancelled
           r   == NoteError(R, err)
<1>1. /\ R \in RequestStates /\ R.at = "listing"
      /\ W[w] \in WorkerStates /\ W[w].at = "pods"
      /\ Live(c) => R.error = NoError /\ Whole(c, R, W)
      /\ R.context = "cancelled" => R.error \in Genuine(c)
      /\ cache \in [readings : Readings, expires : Nat] /\ CacheRecent
  BY AtWork DEF PodsFail
<1>2. W[w].ns \in Namespaces
  BY <1>1 DEF WorkerStates
<1>3. ASSUME Live(c) PROVE W[w].ns \in ToSet(Order[c])
  BY <1>1, <1>3 DEF Whole, Held
<1>4. err \in Errors
  BY <1>2 DEF Errors
<1>5. NoError \notin Genuine(c)
  BY ErrorFacts
<1>6. ASSUME R.error # NoError
      PROVE  /\ r \in RequestStates /\ r.at = "listing" /\ r.context # "live"
             /\ r.context = "cancelled" => r.error \in Genuine(c)
  <2>1. r = R
    BY <1>6 DEF NoteError
  <2> QED
    BY <1>1, <1>6, <2>1 DEF Live
<1>7. ASSUME R.error = NoError
      PROVE  /\ r \in RequestStates /\ r.at = "listing" /\ r.context # "live"
             /\ r.context = "cancelled" => r.error \in Genuine(c)
  <2>1. /\ r \in RequestStates /\ r.at = "listing" /\ r.error = err
        /\ r.context = IF R.context = "live" THEN "cancelled" ELSE R.context
    <3> HIDE DEF err
    <3> QED
      BY <1>1, <1>4, <1>7 DEF NoteError, RequestStates
  <2>2. R.context # "cancelled"
    BY <1>1, <1>5, <1>7
  <2>3. CASE Live(c)
    BY <1>3, <2>1, <2>3 DEF Live, Genuine
  <2>4. CASE ~Live(c)
    BY <1>1, <2>1, <2>2, <2>4 DEF Live, RequestStates
  <2> QED
    BY <2>3, <2>4
<1>8. /\ requests' = [requests EXCEPT ![c] = r]
      /\ workers' = [workers EXCEPT ![c][w] = Idle]
      /\ cache' = cache /\ clock' = clock
  BY DEF PodsFail, Finish, IInv, TypeOK
<1> HIDE DEF r
<1>9. Good(c, r, [workers[c] EXCEPT ![w] = Idle])
  BY <1>6, <1>7, Listing
<1> QED
  BY <1>1, <1>6, <1>7, <1>8, <1>9, IdleFacts, WorkerFrame DEF Timely, CacheRecent

\* A worker puts its namespace's part in place; the cache may be written with it.
LEMMA Delivered ==
    ASSUME IInv, NEW c \in Clients, NEW w \in Workers, Deliver(c, w),
           workers[c][w].at \in {"pods", "cache", "scrape"},
           CacheRecent', cache' \in [readings : Readings, expires : Nat], clock' = clock
    PROVE  IInv'
<1> DEFINE R  == requests[c]
           W  == workers[c]
           r  == [R EXCEPT !.chunks = R.chunks \cup {W[w].ns}]
           v  == [Idle EXCEPT !.at = "next"]
           ws == [W EXCEPT ![w] = v]
<1>1. /\ R \in RequestStates /\ R.at = "listing"
      /\ W \in [Workers -> WorkerStates] /\ W[w] \in WorkerStates
      /\ Live(c) => R.error = NoError /\ Whole(c, R, W)
      /\ R.context = "cancelled" => R.error \in Genuine(c)
  BY AtWork
<1>2. W[w].ns \in Namespaces
  BY <1>1 DEF WorkerStates
<1>3. /\ r \in RequestStates /\ r.at = "listing" /\ r.jobs = R.jobs
      /\ r.context = R.context /\ r.error = R.error
      /\ r.chunks = R.chunks \cup {W[w].ns}
  BY <1>1, <1>2 DEF RequestStates
<1>4. v \in WorkerStates /\ v.at = "next" /\ Of(v) = {} /\ Timely(v)
  BY IdleFacts DEF Idle, WorkerStates, Of, Timely
<1>5. requests' = [requests EXCEPT ![c] = r] /\ workers' = [workers EXCEPT ![c][w] = v]
  BY DEF Deliver, IInv, TypeOK
<1>6. Held(ws) \cup {W[w].ns} = Held(W) /\ ws[w] = v
  <2>1. Of(W[w]) = {W[w].ns} /\ {W[w].ns} \subseteq Held(W)
    BY DEF Of, Held
  <2>2. ws[w] = v /\ \A x \in Workers : x # w => ws[x] = W[x]
    BY <1>1
  <2> HIDE DEF ws, W, v
  <2> QED
    BY <1>4, <2>1, <2>2, HeldFacts
<1>7. Live(c) => Whole(c, r, ws)
  <2> HIDE DEF r, R, W, ws, v
  <2> QED
    BY <1>1, <1>3, <1>4, <1>6 DEF Whole
<1>8. Good(c, r, ws)
  <2> HIDE DEF r, ws
  <2> QED
    BY <1>1, <1>3, <1>7, Listing DEF Live
<1> QED
  <2> HIDE DEF r, v
  <2> QED
    BY <1>3, <1>4, <1>5, <1>8, WorkerFrame

LEMMA UseCacheInductive ==
    ASSUME IInv, NEW c \in Clients, NEW w \in Workers, UseCache(c, w)
    PROVE  IInv'
<1>1. CacheRecent' /\ cache' \in [readings : Readings, expires : Nat] /\ clock' = clock
  BY DEF UseCache, IInv, TypeOK, Recent, CacheRecent
<1> QED
  BY <1>1, Delivered DEF UseCache

LEMMA EndScrapeInductive ==
    ASSUME IInv, NEW c \in Clients, NEW w \in Workers, EndScrape(c, w)
    PROVE  IInv'
<1> DEFINE u == workers[c][w]
<1>1. u \in WorkerStates /\ u.at = "scrape" /\ Timely(u) /\ clock \in Nat
  BY AtWork DEF EndScrape, IInv, TypeOK
<1>2. u.readings \in Readings /\ u.since \in Nat
  BY <1>1 DEF WorkerStates
<1>3. /\ cache' \in [readings : Readings, expires : Nat]
      /\ cache'.readings = u.readings /\ cache'.expires = clock + TTL /\ clock' = clock
  BY <1>1, <1>2, ListAssumption DEF EndScrape, Stored
<1>4. CacheRecent'
  <2> SUFFICES ASSUME NEW e \in DOMAIN u.readings
               PROVE  clock + TTL <= u.readings[e] + TTL + ScrapeLimit
    BY <1>3 DEF CacheRecent
  <2>1. u.readings[e] \in Nat
    BY <1>2 DEF Readings
  <2>2. u.since <= u.readings[e] /\ clock <= u.since + ScrapeLimit
    BY <1>1 DEF Timely
  <2> HIDE DEF u
  <2> QED
    BY <1>1, <1>2, <2>1, <2>2, ListAssumption
<1> QED
  BY <1>1, <1>3, <1>4, Delivered DEF EndScrape

LEMMA WorkerInductive ==
    ASSUME IInv, NEW c \in Clients, NEW w \in Workers, WorkerStep(c, w)
    PROVE  IInv'
BY TakeJobInductive, ReadPodsInductive, PodsFailInductive, UseCacheInductive,
   BeginScrapeInductive, AnswersInductive, GivesNothingInductive, EndScrapeInductive
   DEF WorkerStep

-----------------------------------------------------------------------------
(* One lemma for each step of a request, and for the clock.                *)

LEMMA RequestFacts ==
    ASSUME IInv, NEW c \in Clients
    PROVE  /\ requests[c] \in RequestStates /\ workers[c] \in [Workers -> WorkerStates]
           /\ Good(c, requests[c], workers[c])
           /\ \A w \in Workers : Timely(workers[c][w])
           /\ cache \in [readings : Readings, expires : Nat] /\ CacheRecent
BY DEF IInv, TypeOK, AllGood, Recent

LEMMA StartInductive ==
    ASSUME IInv, NEW c \in Clients, Start(c)
    PROVE  IInv'
<1> DEFINE R  == requests[c]
           r  == [R EXCEPT !.at = "listing", !.jobs = Order[c]]
           ws == [w \in Workers |->
                    IF w <= Len(Order[c]) THEN [Idle EXCEPT !.at = "next"] ELSE Idle]
<1>1. R \in RequestStates /\ R.at = "new"
  BY RequestFacts DEF Start
<1>2. Order[c] \in Seq(Namespaces)
  BY ListAssumption
<1>3. R.context = "live" /\ R.error = NoError /\ R.chunks = {}
  BY <1>1, RequestFacts DEF Good
<1>4. /\ r \in RequestStates /\ r.at = "listing" /\ r.jobs = Order[c]
      /\ r.context = "live" /\ r.error = NoError /\ r.chunks = {}
  BY <1>1, <1>2, <1>3 DEF RequestStates
<1>5. requests' = [requests EXCEPT ![c] = r] /\ workers' = [workers EXCEPT ![c] = ws]
  BY DEF Start, IInv, TypeOK
<1>6. [Idle EXCEPT !.at = "next"] \in WorkerStates
  BY IdleFacts DEF Idle, WorkerStates
<1>7. ws \in [Workers -> WorkerStates] /\ \A w \in Workers : ws[w].at \in {"next", "done"}
  BY <1>6, IdleFacts DEF Idle
<1>8. Held(ws) = {}
  <2> HIDE DEF ws
  <2> QED
    BY <1>7 DEF Held
<1>9. Order[c] = << >> \/ \E w \in Workers : ws[w].at # "done"
  <2>1. ASSUME Order[c] # << >> PROVE 1 \in Workers /\ 1 <= Len(Order[c])
    BY <1>2, <2>1, ListAssumption DEF Workers
  <2>2. ASSUME Order[c] # << >> PROVE ws[1].at = "next"
    BY <2>1, <2>2 DEF Idle
  <2> HIDE DEF ws
  <2> QED
    BY <2>1, <2>2
<1>10. Whole(c, r, ws)
  <2> HIDE DEF r, ws
  <2> QED
    BY <1>4, <1>8, <1>9 DEF Whole
<1>11. Good(c, r, ws)
  <2> HIDE DEF r, ws
  <2> QED
    BY <1>4, <1>10, Listing
<1>12. \A w \in Workers : Timely(ws[w])
  <2> HIDE DEF ws
  <2> QED
    BY <1>7 DEF Timely
<1> QED
  <2> HIDE DEF r, ws
  <2> QED
    BY <1>4, <1>5, <1>7, <1>11, <1>12, Frame, RequestFacts DEF Start, CacheRecent

LEMMA RespondInductive ==
    ASSUME IInv, NEW c \in Clients, Respond(c)
    PROVE  IInv'
<1> DEFINE R == requests[c]
           W == workers[c]
           r == [R EXCEPT !.at = IF R.error = NoError THEN "answered" ELSE "failed"]
<1>1. /\ R \in RequestStates /\ W \in [Workers -> WorkerStates] /\ Good(c, R, W)
      /\ R.at = "listing" /\ \A w \in Workers : W[w].at = "done"
  BY RequestFacts DEF Respond
<1>2. /\ r \in RequestStates /\ r.at = IF R.error = NoError THEN "answered" ELSE "failed"
      /\ r.context = R.context /\ r.error = R.error /\ r.chunks = R.chunks
  BY <1>1 DEF RequestStates
<1>3. ASSUME R.error = NoError, R.context # "gone" PROVE R.chunks = ToSet(Order[c])
  <2>1. R.context = "live"
    BY <1>1, <1>3, ErrorFacts DEF Good, RequestStates
  <2>2. Whole(c, R, W)
    BY <1>1, <2>1 DEF Good
  <2>3. Held(W) = {} /\ R.jobs = << >>
    BY <1>1, <2>2 DEF Whole, Held
  <2>4. ToSet(R.jobs) = {}
    BY <2>3 DEF ToSet
  <2> QED
    BY <2>2, <2>3, <2>4 DEF Whole
<1>4. Good(c, r, W)
  <2> HIDE DEF r, R, W
  <2> QED
    BY <1>1, <1>2, <1>3 DEF Good
<1>5. requests' = [requests EXCEPT ![c] = r] /\ workers' = [workers EXCEPT ![c] = W]
  BY DEF Respond, IInv, TypeOK
<1> QED
  <2> HIDE DEF r
  <2> QED
    BY <1>1, <1>2, <1>4, <1>5, Frame, RequestFacts DEF Respond, CacheRecent

LEMMA LeaveInductive ==
    ASSUME IInv, NEW c \in Clients, Leave(c)
    PROVE  IInv'
<1> DEFINE R == requests[c]
           W == workers[c]
           r == [R EXCEPT !.context = "gone"]
<1>1. /\ R \in RequestStates /\ W \in [Workers -> WorkerStates]
      /\ R.at = "listing"
  BY RequestFacts DEF Leave
<1>2. r \in RequestStates /\ r.at = "listing" /\ r.context = "gone"
  BY <1>1 DEF RequestStates
<1>3. Good(c, r, W)
  <2> HIDE DEF r, W
  <2> QED
    BY <1>2, Listing
<1>4. requests' = [requests EXCEPT ![c] = r] /\ workers' = [workers EXCEPT ![c] = W]
  BY DEF Leave, IInv, TypeOK
<1> QED
  <2> HIDE DEF r
  <2> QED
    BY <1>1, <1>2, <1>3, <1>4, Frame, RequestFacts DEF Leave, CacheRecent

LEMMA TickInductive ==
    ASSUME IInv, Tick
    PROVE  IInv'
<1>1. TypeOK' /\ AllGood' /\ CacheRecent'
  BY DEF IInv, TypeOK, AllGood, Recent, CacheRecent, Tick
<1>2. ASSUME NEW c \in Clients, NEW w \in Workers, workers'[c][w].at = "scrape"
      PROVE  /\ workers[c][w].since <= clock + 1
             /\ clock + 1 <= workers[c][w].since + ScrapeLimit
  <2>1. /\ workers[c][w].at = "scrape" /\ workers[c][w].since \in Nat /\ clock \in Nat
        /\ workers[c][w].since <= clock /\ clock < workers[c][w].since + ScrapeLimit
    BY <1>2 DEF IInv, TypeOK, WorkerStates, Recent, Timely, Tick
  <2> QED
    BY <2>1, ListAssumption
<1>3. Recent'
  BY <1>1, <1>2 DEF IInv, Recent, Timely, Tick
<1> QED
  BY <1>1, <1>3 DEF IInv

-----------------------------------------------------------------------------
LEMMA Initially == Init => IInv
<1> SUFFICES ASSUME Init PROVE IInv
  OBVIOUS
<1>1. Silent \in RequestStates /\ NoReadings \in Readings /\ DOMAIN NoReadings = {}
  BY DEF Silent, RequestStates, Errors, NoReadings, Readings
<1>2. TypeOK
  BY <1>1, IdleFacts DEF Init, TypeOK
<1>3. ASSUME NEW c \in Clients PROVE Good(c, requests[c], workers[c])
  BY IdleFacts DEF Init, Good, Silent
<1>4. Recent
  BY <1>1, IdleFacts DEF Init, Recent, CacheRecent, Timely
<1> QED
  BY <1>2, <1>3, <1>4 DEF IInv, AllGood

LEMMA Inductive == IInv /\ [Next]_vars => IInv'
<1> SUFFICES ASSUME IInv, [Next]_vars PROVE IInv'
  OBVIOUS
<1>1. ASSUME NEW c \in Clients, Start(c) \/ Respond(c) \/ Leave(c) PROVE IInv'
  BY <1>1, StartInductive, RespondInductive, LeaveInductive
<1>2. ASSUME NEW c \in Clients, NEW w \in Workers, WorkerStep(c, w) PROVE IInv'
  BY <1>2, WorkerInductive
<1>3. CASE UNCHANGED vars
  BY <1>3 DEF vars, IInv, TypeOK, AllGood, Recent, CacheRecent, Timely
<1> QED
  BY <1>1, <1>2, <1>3, TickInductive DEF Next

LEMMA Invariant == Spec => []IInv
BY Initially, Inductive, PTL DEF Spec

\* Every variable has its type.
THEOREM TypeCorrect == Spec => []TypeOK
<1>1. IInv => TypeOK
  BY DEF IInv
<1> QED
  BY <1>1, Invariant, PTL

\* A client that has waited is shown all its namespaces or an error of one of them
\* (writeNamespacedList), for any number of namespaces and workers.
THEOREM AnswersAreGenuine == Spec => []AnswerGenuine
<1>1. IInv => AnswerGenuine
  <2> SUFFICES ASSUME IInv, NEW c \in Clients, requests[c].context # "gone"
               PROVE  /\ requests[c].at = "answered" => requests[c].chunks = ToSet(Order[c])
                      /\ requests[c].at = "failed" => requests[c].error \in Genuine(c)
    BY DEF AnswerGenuine, Genuine
  <2>1. requests[c] \in RequestStates /\ Good(c, requests[c], workers[c])
    BY RequestFacts
  <2>2. requests[c].context \in {"live", "cancelled"}
    BY <2>1 DEF RequestStates
  <2> QED
    BY <2>1, <2>2 DEF Good
<1> QED
  BY <1>1, Invariant, PTL

\* No reading that is shown is older than the life of the cache and one scrape
\* (collectDCGMMetrics), however many requests scrape at once.
THEOREM ReadingsAreRecent == Spec => ReadingsRecent
<1>1. IInv /\ [Next]_vars
      => [\A c \in Clients, w \in Workers : UseCache(c, w) =>
            \A e \in DOMAIN cache.readings : clock <= cache.readings[e] + TTL + ScrapeLimit]_vars
  <2> SUFFICES ASSUME IInv, NEW c \in Clients, NEW w \in Workers, UseCache(c, w),
                      NEW e \in DOMAIN cache.readings
               PROVE  clock <= cache.readings[e] + TTL + ScrapeLimit
    OBVIOUS
  <2>1. cache.expires <= cache.readings[e] + TTL + ScrapeLimit /\ clock < cache.expires
    BY DEF IInv, Recent, CacheRecent, UseCache
  <2>2. cache.readings[e] \in Nat /\ cache.expires \in Nat /\ clock \in Nat
    BY DEF IInv, TypeOK, Readings
  <2> QED
    BY <2>1, <2>2, ListAssumption
<1> QED
  BY <1>1, Invariant, PTL DEF Spec, ReadingsRecent

=============================================================================
