------------------------------ MODULE PodLists ------------------------------
(***************************************************************************)
(* The pods page over several namespaces (writeNamespacedList, ListPods)   *)
(* with the GPU readings it shows (collectDCGMMetrics): the workers of a   *)
(* request share its list of namespaces, its context and its first error;  *)
(* all requests share one cache of the exporters' readings.                *)
(*                                                                         *)
(* Of the chunks of a request only the namespaces they are from are kept;  *)
(* a reading is the time its exporter gave it.                             *)
(***************************************************************************)
EXTENDS Naturals, Sequences, FiniteSets, SequencesExt

CONSTANTS
    Clients,      \* requests, one per client
    Namespaces,
    Order,        \* [Clients -> the selected namespaces, as the request lists them]
    Concurrency,  \* maxNamespaceListConcurrency: goroutines of a request
    Exporters,    \* running dcgm-exporter pods
    NoNamespace,
    NoError,
    TTL,          \* life of the cached readings
    ScrapeLimit,  \* an exporter that has not answered by then has failed
    MaxTime

ASSUME ListAssumption ==
    /\ Order \in [Clients -> Seq(Namespaces)]
    /\ Concurrency \in Nat \ {0}
    /\ TTL \in Nat /\ ScrapeLimit \in Nat /\ MaxTime \in Nat
    /\ NoError \notin {<<"cancelled">>} \cup {<<"refused", ns>> : ns \in Namespaces}

Workers == 1..Concurrency

VARIABLES
    requests,  \* [Clients -> request]
    workers,   \* [Clients -> [Workers -> worker]]
    cache,     \* readings and the time they expire
    clock
vars == <<requests, workers, cache, clock>>

\* Errors a fetch returns: the API server's for a namespace, or the context's.
Refused(ns) == <<"refused", ns>>
Cancelled   == <<"cancelled">>

NoReadings == [e \in {} |-> 0]

Idle   == [at |-> "done", ns |-> NoNamespace, pending |-> {}, readings |-> NoReadings, since |-> 0]
Silent == [at |-> "new", jobs |-> << >>, context |-> "live", error |-> NoError, chunks |-> {}]

Init ==
    /\ requests = [c \in Clients |-> Silent]
    /\ workers = [c \in Clients |-> [w \in Workers |-> Idle]]
    /\ cache = [readings |-> NoReadings, expires |-> 0]
    /\ clock = 0

\* The channel of jobs is filled and closed before a worker starts; no more workers
\* than namespaces.
Start(c) ==
    /\ requests[c].at = "new"
    /\ requests' = [requests EXCEPT ![c].at = "listing", ![c].jobs = Order[c]]
    /\ workers' = [workers EXCEPT ![c] = [w \in Workers |->
                     IF w <= Len(Order[c]) THEN [Idle EXCEPT !.at = "next"] ELSE Idle]]
    /\ UNCHANGED <<cache, clock>>

Goto(c, w, step) == workers' = [workers EXCEPT ![c][w].at = step]
Finish(c, w)     == workers' = [workers EXCEPT ![c][w] = Idle]
Live(c) == requests[c].context = "live"

\* A worker that took a job goes home with it once the context has ended.
Fetch(c, w) ==
    workers' = [workers EXCEPT ![c][w] =
                  IF Live(c) THEN [Idle EXCEPT !.at = "pods", !.ns = Head(requests[c].jobs)] ELSE Idle]

\* A mistaken TakeJob: the channel is not closed, so a worker waits for more.
TakeOpen(c, w) ==
    /\ workers[c][w].at = "next"
    /\ requests[c].jobs # << >>
    /\ requests' = [requests EXCEPT ![c].jobs = Tail(@)]
    /\ Fetch(c, w)
    /\ UNCHANGED <<cache, clock>>

TakeJob(c, w) ==
    /\ workers[c][w].at = "next"
    /\ IF requests[c].jobs = << >>
       THEN Finish(c, w) /\ UNCHANGED requests
       ELSE /\ requests' = [requests EXCEPT ![c].jobs = Tail(@)]
            /\ Fetch(c, w)
    /\ UNCHANGED <<cache, clock>>

\* Mistaken forms of NoteError: one keeps the last error, one forgets the error of a
\* worker and lets the others finish.
LastError(r, error) ==
    [r EXCEPT !.error = error, !.context = IF @ = "live" THEN "cancelled" ELSE @]
ForgetError(r, error) == r

\* The first error of a request's workers is kept and cancels the other fetches.
NoteError(r, error) ==
    IF r.error # NoError THEN r
    ELSE [r EXCEPT !.error = error, !.context = IF @ = "live" THEN "cancelled" ELSE @]

\* ListPods: the namespace's pods, or an error, which ends the worker.
ReadPods(c, w) ==
    /\ workers[c][w].at = "pods"
    /\ Live(c)
    /\ Goto(c, w, "cache")
    /\ UNCHANGED <<requests, cache, clock>>

PodsFail(c, w) ==
    /\ workers[c][w].at = "pods"
    /\ requests' = [requests EXCEPT ![c] =
                      NoteError(@, IF Live(c) THEN Refused(workers[c][w].ns) ELSE Cancelled)]
    /\ Finish(c, w)
    /\ UNCHANGED <<cache, clock>>

\* A namespace's part of the answer is in place and its worker takes the next job.
Deliver(c, w) ==
    /\ requests' = [requests EXCEPT ![c].chunks = @ \cup {workers[c][w].ns}]
    /\ workers' = [workers EXCEPT ![c][w] = [Idle EXCEPT !.at = "next"]]

UseCache(c, w) ==
    /\ workers[c][w].at = "cache"
    /\ clock < cache.expires
    /\ Deliver(c, w)
    /\ UNCHANGED <<cache, clock>>

\* The lock is not held while the exporters are read: two requests may scrape at once.
BeginScrape(c, w) ==
    /\ workers[c][w].at = "cache"
    /\ clock >= cache.expires
    /\ workers' = [workers EXCEPT ![c][w].at = "scrape", ![c][w].pending = Exporters,
                                  ![c][w].readings = NoReadings, ![c][w].since = clock]
    /\ UNCHANGED <<requests, cache, clock>>

Answers(c, w, e) ==
    /\ workers[c][w].at = "scrape" /\ e \in workers[c][w].pending
    /\ Live(c)
    /\ workers' = [workers EXCEPT ![c][w].pending = @ \ {e},
                     ![c][w].readings = [x \in DOMAIN @ \cup {e} |-> IF x = e THEN clock ELSE @[x]]]
    /\ UNCHANGED <<requests, cache, clock>>

\* An exporter fails, is too slow, or the request's context has been cancelled.
GivesNothing(c, w, e) ==
    /\ workers[c][w].at = "scrape" /\ e \in workers[c][w].pending
    /\ workers' = [workers EXCEPT ![c][w].pending = @ \ {e}]
    /\ UNCHANGED <<requests, cache, clock>>

\* A mistaken Stored: a scrape that read nothing keeps the readings there were.
KeepsReadings(w) ==
    [readings |-> IF w.readings = NoReadings THEN cache.readings ELSE w.readings,
     expires |-> clock + TTL]

\* Whatever was read is cached, by a cancelled request nothing.
Stored(w) == [readings |-> w.readings, expires |-> clock + TTL]

EndScrape(c, w) ==
    /\ workers[c][w].at = "scrape" /\ workers[c][w].pending = {}
    /\ cache' = Stored(workers[c][w])
    /\ Deliver(c, w)
    /\ UNCHANGED clock

\* wg.Wait, then the first error or the chunks in the order of the namespaces.
Respond(c) ==
    /\ requests[c].at = "listing"
    /\ \A w \in Workers : workers[c][w].at = "done"
    /\ requests' = [requests EXCEPT ![c].at = IF requests[c].error = NoError THEN "answered" ELSE "failed"]
    /\ UNCHANGED <<workers, cache, clock>>

\* The browser leaves the page before it is answered.
Leave(c) ==
    /\ requests[c].at = "listing" /\ requests[c].context # "gone"
    /\ requests' = [requests EXCEPT ![c].context = "gone"]
    /\ UNCHANGED <<workers, cache, clock>>

\* Time passes, no scrape lasts longer than its limit.
Tick ==
    /\ clock < MaxTime
    /\ \A c \in Clients, w \in Workers :
         workers[c][w].at = "scrape" => clock < workers[c][w].since + ScrapeLimit
    /\ clock' = clock + 1
    /\ UNCHANGED <<requests, workers, cache>>

WorkerStep(c, w) ==
    \/ TakeJob(c, w)
    \/ ReadPods(c, w)
    \/ PodsFail(c, w)
    \/ UseCache(c, w)
    \/ BeginScrape(c, w)
    \/ \E e \in Exporters : Answers(c, w, e)
    \/ \E e \in Exporters : GivesNothing(c, w, e)
    \/ EndScrape(c, w)

Next ==
    \/ \E c \in Clients : Start(c) \/ Respond(c) \/ Leave(c)
    \/ \E c \in Clients, w \in Workers : WorkerStep(c, w)
    \/ Tick

Spec == Init /\ [][Next]_vars

\* Goroutines run, calls to the API server return and exporters answer or time out.
FairSpec ==
    /\ Spec
    /\ \A c \in Clients : WF_vars(Respond(c))
    /\ \A c \in Clients, w \in Workers : WF_vars(WorkerStep(c, w))

(***************************************************************************)
(* Properties.                                                             *)
(***************************************************************************)
Errors   == {NoError, Cancelled} \cup {Refused(ns) : ns \in Namespaces}
Readings == UNION {[E -> Nat] : E \in SUBSET Exporters}

RequestStates ==
    [at : {"new", "listing", "answered", "failed"}, jobs : Seq(Namespaces),
     context : {"live", "cancelled", "gone"}, error : Errors, chunks : SUBSET Namespaces]

\* A worker that is at work has a namespace.
WorkerStates ==
    [at : {"next", "done"}, ns : {NoNamespace}, pending : SUBSET Exporters,
     readings : Readings, since : Nat]
    \cup [at : {"pods", "cache", "scrape"}, ns : Namespaces, pending : SUBSET Exporters,
          readings : Readings, since : Nat]

TypeOK ==
    /\ requests \in [Clients -> RequestStates]
    /\ workers \in [Clients -> [Workers -> WorkerStates]]
    /\ cache \in [readings : Readings, expires : Nat]
    /\ clock \in Nat

\* A client that has waited is shown every selected namespace, or the error of one of
\* them: no namespace is missing because another worker's failure ended its fetch, and
\* no client is shown the cancellation that failure caused in the other workers.
AnswerGenuine ==
    \A c \in Clients : requests[c].context # "gone" =>
        /\ requests[c].at = "answered" => requests[c].chunks = ToSet(Order[c])
        /\ requests[c].at = "failed" => requests[c].error \in {Refused(ns) : ns \in ToSet(Order[c])}

\* Readings that are shown were taken at most the cache's life and one scrape ago,
\* however scrapes overlap.
ReadingsRecent ==
    [][\A c \in Clients, w \in Workers : UseCache(c, w) =>
         \A e \in DOMAIN cache.readings : clock <= cache.readings[e] + TTL + ScrapeLimit]_vars

\* Every request is answered.
EveryRequestAnswered ==
    \A c \in Clients : requests[c].at = "listing" ~> requests[c].at \in {"answered", "failed"}
=============================================================================
