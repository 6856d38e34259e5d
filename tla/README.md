# BeaverDeck: formal models

BeaverDeck is a Go server with a React user interface that shows and operates a
Kubernetes cluster. It keeps no database of its own: accounts, roles and
identity-provider settings live in memory and in one Kubernetes Secret, sessions
live in memory only, diagnostic snapshots live in one Secret per pod.

This directory holds TLA+ models of the parts whose behaviour depends on order,
failure and concurrency, the TLC runs that check them, and proofs checked by
TLAPS. `PROJECT.json` maps each definition to the lines it models.

## 1. Inventory

| Part | State it keeps | Operations | Hard behaviour |
| --- | --- | --- | --- |
| Auth configuration store (`internal/users`) | roles, local users, provider settings, group mappings, session versions; the Secret behind them | bootstrap, account, role and provider changes, import, startup, reset | one write lock held across a network write; rollback; lost answers; crashes; what one version writes must be importable |
| Sessions (`accounts.go`, `session_tokens.go`) | in-memory session records, signing key of the process | login in two steps, logout, authentication, hourly sweep | several read locks per request; versions that end sessions; same-second tokens |
| Auth middleware (`internal/auth`) | none (request context) | authenticate, ask for admin | a request keeps the role it started with |
| Role permissions (`permissions.go`, `config_snapshot.go`) | permissions JSON of a role | normalize, store in short form, import, check | four forms of one thing: what the author wrote, memory, the Secret, memory after a restart |
| HTTP server and handlers (`internal/api`) | none | about a hundred routes; bounded concurrent namespace lists | workers that share a context and a first error; clients that leave |
| OAuth support (`auth_handlers.go`, `oauth_support.go`) | one state cookie per provider in the browser | redirect, callback, code exchange, profile, groups, role, session | the configuration is read three times per callback; one callback address for two providers; several tabs; cookies that expire |
| Log streaming (`log_stream.go`) | one bounded channel per request | one reader per container, fan-in to server-sent events | producers against a bounded channel and a client that leaves |
| Restart diagnostics (`restart_diagnostics.go`) | metric ring, dedupe map, bounded queue, two workers; one Secret per pod | sample, detect, enqueue, capture, store, clean up, migrate | full queue, retries, optimistic concurrency, stale pod lists |
| Insight suppressions (`insight_suppressions.go`) | one ConfigMap | list, set | read-modify-write |
| Cluster operations (`operations.go`, `resources.go`, `mutation_handlers.go`, ...) | none | manifests, apply, scale, restart, delete, evict, drain, exec | several API calls per operation, between which others act; answers lost; partial failure |
| Metrics and insights (`metrics.go`, `insights.go`) | two short caches | derive tables and advice | dozens of lists read one after another while the cluster changes; sections that share lists; one cache for all requests |
| Helm, Argo CD (`helm_releases.go`, `argocd_applications.go`) | none | list and decode | pure I/O |
| Update check (`updatecheck`) | last result | periodic request | timer |
| Web UI (`ui/src`) | browser session, current view | fetch, stream | answers that arrive late |
| Helm chart (`charts`) | none | templates | a rolling update overlaps two processes |

Interactions: handlers call the store; every store mutation calls the Secret
saver while it holds `configMutationMu` and `mu`; the middleware calls
`Authenticate` for each request, which takes `mu` for reading and the session map
(a `sync.Map`) without it; the sweeper goroutine only touches the session map;
`main` imports the Secret before the listener opens.

### What makes each part correct

- Store: readers see only what the Secret accepted; a failed save leaves no
  trace; references resolve; the Secret can always be imported; somebody stays
  able to administer; a mutation and a restart come to an end.
- Sessions: logged out stays out; a password change ends sessions, however the
  steps interleave; a token handed out is valid; the sweeper removes what is dead
  and nothing else.
- Log streaming: every producer ends, the channel is closed once, after the last
  send; no line is lost before the end event.
- Restart diagnostics: one Secret per pod holds the latest incident; a live pod's
  incident is not removed; no incident is stored twice; the queue never blocks
  the watch.
- Suppressions: an acknowledged change is not lost.
- Role permissions: a role decides as its author wrote it, whatever forms it went
  through.
- Cluster operations: what is changed is what the role allows; a success means what
  it says for the whole operation; an edit leaves alone what others did to the object.
- Provider sign-in: a session rests on one provider's word, a code of its issuer and
  a mapping of the time of the callback.
- Insights: an answer is what the cluster was at some moment; parts of the page agree.
- Namespace lists and GPU readings: an answer is complete or a genuine error, every
  request is answered, shown readings are recent.

## 2. Plan

Modules of the project:

| Module | What it is | Used by |
| --- | --- | --- |
| `WriteAhead` | abstract: what readers of the store are promised | `ConfigStore` (refinement) |
| `ConfigStore` | the store, its saves, failures and restarts | `MCConfigStore`, `Sessions` |
| `Sessions` | sign-in, session records, sweeper, on top of the store | `MCSessions` |
| `ConfigStoreProofs` | theorems about `ConfigStore` and `Sessions` | |
| `LogStream` | readers, channel, closer, serving loop, client | `MCLogStream` |
| `LogLines` | cutting one stream into bounded lines | `MCLogLines` |
| `LogProofs` | theorems about `LogLines` and `LogStream` | |
| `LatestIncident` | abstract: what is promised of a pod's newest incident while it lives | `IncidentSecrets` (refinement) |
| `IncidentSecrets` | storing, cleaning up and migrating diagnostic Secrets | `MCIncidentSecrets` |
| `IncidentSecretsProofs` | theorems about `IncidentSecrets` | |
| `IncidentQueue` | detecting incidents, dedupe memory, queue, workers | `MCIncidentQueue` |
| `IncidentQueueProofs` | theorems about `IncidentQueue` | |
| `Suppressions` | read-modify-write of the suppression list | `MCSuppressions` |
| `RolePermissions` | the forms of a role's permissions and the decisions made on them | `ClusterOperations` |
| `ClusterOperations` | the operations that change the cluster, call by call | `MCClusterOperations` |
| `ClusterOperationsProofs` | theorems about `ClusterOperations` and `RolePermissions` | |
| `ProviderSignIn` | sign-in through Google, OpenID Connect and Entra ID, over a configuration that changes | `MCProviderSignIn` |
| `ProviderSignInProofs` | theorems about `ProviderSignIn` | |
| `Insights` | the insights page, list by list, with every check | `MCInsights` |
| `InsightsProofs` | theorems about `Insights` and `Suppressions` | |
| `PodLists` | the concurrent namespace lists and the cache of GPU readings | `MCPodLists` |
| `PodListsProofs` | theorems about `PodLists` | |

`ProviderSignIn` does not extend `ConfigStore`: it takes from it what `WriteAhead`
states and `ReadersAlwaysSeeDurable` proves, that readers see the configuration
change in single steps.

Next, in this order:

1. `RollingUpdate`: two `ConfigStore` processes over one Secret. The abstract
   promise is weaker than `WriteAhead`: the later save wins whole.
2. The metric ring and the window a snapshot takes from it; the CPU counter cache
   of `metrics.go`, whose rates depend on who asked last.
3. Exec and terminals (a resize beside a stream that ends), the web UI's session
   hook (answers that arrive after a logout).

## 3. ConfigStore

State. `config` is the Go maps `roles`, `users`, the provider configs and the
mappings; `versions` is `sessionVersions` (0: no entry). `previous` and
`previousVersions` are the snapshot and the version map `mutateConfigAndPersist`
takes before it edits, which is also what readers saw when the lock was last
free: the write lock is held from the edit to the commit or rollback, so a reader
decides on `previous` while `phase` is "saving" or "saved". `secret` is the
Secret's content. `adminSeen`, `stray` and `crashes` are bookkeeping: whether
anybody could have signed in as an administrator of this process, whether the
Secret holds a change that was reported as failed, and a bound.

Phases. `mutateConfigAndPersist` is cut where other parties can act: the edit
(`Mutate`), the API server's acceptance (`WriteSecret`), and the return
(`Commit`, `Rollback`). `Rollback` from "saving" is a refused write, from "saved"
a lost answer. Startup has the same two points ("starting", "restored").
A request the store refuses changes nothing and is not a step, with one
exception: `CompleteBootstrap` on an initialized store runs
`ensureDefaultsLocked` and returns without rollback (`CompleteBootstrapRefused`).

Who may act. Administration handlers need an admin caller and logins need an
initialized store; both are abstracted to `adminSeen`, which is weaker (an admin
request admitted earlier may arrive late), hence sound for safety.

Abstracted: role permissions, password hashes (the password they accept and
whether their cost is current), timestamps, wording, YAML; the methods for Google,
OpenID Connect and Entra ID are one definition. Field validation is reduced to `Oversized`,
the names `cleanConfigField` refuses, `Fold`, the lower-case form of a username, and a
value of a provider's settings: as shipped, set up, or set up with text that
`validateConfigTextFields` refuses ("refused"), which the handlers save all the same.

The import refuses what the handlers accept in three respects: over-long names, one
username in two letter cases, provider texts. `Legible` is a configuration without
these, `LockedOut` a Secret with one of them. The run has all three, so the server does
get locked out in it; the properties say that it is locked out in no other way.

| Property | What it says |
| --- | --- |
| `TypeOK` | types |
| `ReferencesResolve` | accounts and mappings name existing roles and "admin" is an admin role, in memory and for readers |
| `FailedSaveLeavesNoTrace` | with the lock free, memory and versions are those published last (proved, not run) |
| `DurableMatchesRuntime` | an idle server's Secret holds its configuration, strays aside (proved, not run) |
| `SecretImportable` | whatever sequence produced the Secret, the import refuses it for a name or text of the three kinds only |
| `ReadersSeeDurable` | the store implements `WriteAhead` |
| `ServiceReturns` | the store is idle again and again, or locked out in one of the three ways |

Fairness (`FairSpec`): the goroutine holding the lock keeps running, kubelet
restarts the container (startup steps), and the API server does not refuse for
ever (strong fairness of the write and of the end of startup: each attempt may
fail, not all of them). `OperatorEdits` and requests have no fairness. That each call
returns is an assumption about the API server and not about the code: a save has no
deadline of its own and runs under the write lock (`config_snapshot.go:386`), so
`ServiceReturns` says nothing of an API server that never answers.

## 4. Sessions

Composes with the store by EXTENDS: every step of the store is a step here, and
the read locks of the handlers are the guard `phase = "idle"`. Login is cut at
each lock and after it: `StartLogin` (bootstrap status), `Verify` (first half of
`VerifyLocalCredentials`), `UpgradeHash` (its save), `CreateSession` (the account's role and
version, under the read lock), `NewSessionToken` (the token and its time, with no lock
held) and `StoreSession` (the record). The sweep is cut
between looking at a record and deleting its key. Sessions of provider users are
made in `ProviderSignIn`. A token is its payload, so two
sign-ins in one tick with the same payload are one token, as in the code.

History: a sign-in is `disturbed` once the deletion or a new version of its account is
published after the read; `ended` are the tokens that were logged out while no sign-in
held the same token, until one makes it again in the same tick.

`Accepts` is `Authenticate` on what readers see. Process death empties the
records and forgets the key, so old tokens have no record.

| Property | What it says |
| --- | --- |
| `LoggedOutStaysOut` | a logged-out token is never live again, unless another sign-in of the same tick made the same token |
| `PasswordChangeEndsLiveSessions` | no session survives a published password change of its account, stored or still being made of what was read before |
| `UpgradeKeepsPassword` | the delayed hash upgrade never restores an old password |
| `NoStillbornSession` | a token is accepted when its record is stored, unless it expired or its account was deleted or moved to another version since it was read |
| `SweepSparesLiveSessions` | the sweeper ends no usable session, same-second reissues aside |

No liveness is claimed of sessions: that the hourly sweep removes every dead
record needs one fairness assumption per token, which is beyond TLC on this
composition.

## 5. LogStream and LogLines

`serveLogStreams` is the action group `Handler`: `SetUp` deals with the next
source (starts its reader, or sends its error, which blocks while the channel is
full), `StartServing` starts the closer and enters the select loop, `Receive`,
`ReceiveEnd` and `Leave` are the loop's branches, `Return` the deferred calls. A
reader (`streamLogEvents`) reads (`ReadLine`, `ReadEnd`, `ReadAborted`), then
either sends or gives up because the context is done. `Close` is the goroutine
that waits for the wait group. `client` and `ctxDone` are apart because net/http
notices a closed connection some time after it is closed. `reader`, `read` and
`chan` are the goroutines, their position and the channel's buffer; `delivered`
and `ended` are what the client got. Heartbeats write nothing the properties tell
apart and are left out. `Capacity >= Pods` as in the code (`max(128, len(sources))`).

| Property | What it says |
| --- | --- |
| `NoSendAfterClose` | when the channel is closed no reader may still send (proved, not run) |
| `NothingLostOrReordered` | every line read is on its way or delivered, once, in order, before the stream's error |
| `EndIsComplete` | the end event comes after everything every stream had |
| `NothingLeftBehind` | when the client leaves a served request, or the handler returns, all goroutines end |
| `FiniteStreamsEnd` | streams that end are reported as ended to a client that stays |

Fairness: weak for each goroutine and for net/http noticing a closed connection;
none for the client leaving. A stream delivers what it holds; one that "follow"s
holds no further line, so its reader waits until the context is done.

`LogLines` is `readBoundedLogLines` over a `bufio.Reader` (external): a line is its
length, the stream a sequence of lengths. `Fragment` is a `ReadLine` that returns
a prefix, `Emit` one that ends a line, `EmitRefused` an emit whose request is
over, `Finish` the end of the stream. `lazy` is whether the underlying stream
reports its end together with its last bytes.

| Property | What it says |
| --- | --- |
| `LineTypeOK` | types, and what the slice and the mark say of the bytes consumed (proved, not run) |
| `Bounded` | memory and emitted lines stay within the bound (proved, not run) |
| `LinesFaithful` | the k-th line emitted is the k-th of the stream, cut and marked as promised |
| `EndedLinesAllEmitted` | a call that returns without error emitted every line with a newline (proved, not run) |
| `UnendedLineEmitted` | and a last one without, unless its length is a multiple of the buffer's |

## 6. IncidentQueue

The informer's goroutine and its handler. Pods are told apart by UID; those of one
name (`NameOf`) live one after the other. The cluster changes pods (`Born`,
`ContainerRestarts`, `Evicted`, `Removed`), the informer turns the difference between
its store and the cluster into notifications (`Observe`, `ObserveGone`): several
changes may be one notification, and a missed deletion carries the store's older
status. client-go keys the store by namespace and name, so a deletion the watch missed
and the birth of a successor arrive as one update from the old pod to the new one.
`Handle` is the event handler as a whole: it detects (`detectRestartIncidents`, which
compares counts whichever pod the old ones are of), asks the dedupe memory, and tries to
enqueue without waiting. `Ready` may happen before the handler took the first list, for
`HasSynced` speaks of the store. A worker is `Capture` and `Captured`; what a capture
does to Secrets is `IncidentSecrets`. `entered`, `again`, `dropped`, `handled` and
`passed` are history; `passed` is what the code never reports of a pod.

| Property | What it says |
| --- | --- |
| `NoneTwice` | no incident is captured twice while memory has room for all |
| `RestartsReported` | a restart the handler was told of when ready is queued or dropped for a full queue, of a successor that arrives as an update when its total exceeds its predecessor's |
| `EvictionsReported` | so is an eviction, also one that shows only in the deletion, unless predecessor and successor arrive in one update and both are evicted |
| `WatchNeverWaits` | the handler takes every notification though no worker need make progress |

Restarts that show only in the status of a deletion are not looked at
(`restart_diagnostics.go:425-439` asks a deleted pod for its eviction alone): `handled`
leaves them out. No property says that old restart counts make no incidents when
BeaverDeck starts, for they do (section 14).

Fairness: weak for the handler's goroutine, none for workers, the cluster or the
informer.

## 7. IncidentSecrets

Every call to the API server of `persistIncident`, `upsertRestartDiagnosticSecret`,
the two clean-ups and the migration is a step of its own: `Take` (from the queue),
`Get`, `Create`, `Update`, `ListOfPod`, `ListPods`, `ListSecrets`, `Delete`,
`ListForMigration`, `MigrateNext`. `Fail` is a call that errs, before or after it
took effect, followed by the code's reaction (`Failed`: another attempt of the
worker, the end of the migration). `fresh` is the resource version: nothing wrote
the Secret since this process read it. A pod is born as the first
of its name or as the successor of another (`PodReplaced`), and deleted
(`PodDeleted`); the UID tells them apart. `Incident` is a report of any time: the code
takes the time a container ended by its node's clock, so reports need not come in the
order of their times, nor while the pod is there. `Restart` is the death of BeaverDeck:
queue and processes are gone, Secrets stay, and the migration runs again. The name of a
Secret is the pod's as it stands; the code lower-cases it and cuts it to 234
characters (`restartDiagnosticSecretName`), so that two pods of very long names share a
Secret, which is left out.

| Property | What it says |
| --- | --- |
| `Consolidated` | after a capture's clean-up, no Secret of an earlier release for that pod is left |
| `RecordedStays` | an incident reported as stored, or a newer one, is there while the pod lives, in whatever order incidents are reported |
| `SamePodForward` | a Secret never goes back in time for one pod (proved, not run) |
| `KeepsNewest` | implements `LatestIncident`: the newest incident of a live pod stays readable |
| `QueueDrains` | attempts end: the queue empties, also when the other worker waits for ever |
| `LatestSnapshotKept` | violated, see section 14 |

`RecordedStays` and `KeepsNewest` speak of a pod that is the first of its name and was
not born between the two lists of a clean-up (`First`), for the code deletes or overwrites
the Secrets of others (section 14). `KeepsNewest` further excepts a pod of which an incident
older than a Secret of an earlier release was reported (`late`). `overlooked` and `late` are history.
What an earlier release left, `Found`, may be of any pods.

Fairness: of one worker the calls return, with or without success. The code gives its
calls no deadline, so of the others nothing is asked; if no call ever returned the
queue would stay.

## 8. Suppressions

A request is `Ask`, `ListKeys` (first read, the new list is computed from it), `Get`
(second read, whose resource version the update carries), `Write`. `Fail` is any
call that errs; `Write` may also take effect and be reported as failed. `alone`
is history: nothing wrote since the first read.

| Property | What it says |
| --- | --- |
| `UndisturbedWriteExact` | a request nobody overtook changes its own check only and replaces no unreadable value |
| `AckHonoured` | an acknowledged request took effect |

A request that was overtaken between its two reads may undo the other's change; no
document promises otherwise, see section 14.

The type invariants of `ConfigStore`, `Sessions`, `LogStream`, `LogLines`,
`IncidentQueue`, `IncidentSecrets`, `Suppressions`, `ClusterOperations`,
`ProviderSignIn` and `PodLists` are proved (section 15) and not repeated by a run.

## 9. RolePermissions and ClusterOperations

`RolePermissions` has the forms a role's permissions take: what an administrator or
an operator writes (levels or flags, blank namespaces among the names: `Raw`), what
the store keeps (`NormalizeRolePermissions`), the levels the Secret holds
(`CompactPermissions`) and what the next start makes of them
(`ExpandedPermissions`), and the decisions (`HasPermission`,
`NamespaceAllowed`). `Intended` and `IntendedNamespace` are the reference: what the
author's text grants, read without any of these conversions.

`ClusterOperations` is the handlers of `mutation_handlers.go`, `mutation_targets.go`
and `resource_handlers.go` over `operations.go` and `resources.go`. A request is
admitted by the role of its moment (`Admit`; `by` remembers what was written then)
and cut at each call to the API server:

| Operation | Steps |
| --- | --- |
| manifest | `OpenManifest`, later `SubmitManifest` (with or without the resource version it was opened with), `UpdateCall` |
| scale, restart | `Scale` or `RestartDeployment`, `ReadWorkload`, `UpdateCall` |
| delete | `DeleteResource`, `DeleteCall` |
| pod | `DeletePod` or `EvictPod`, `PodCall` |
| drain | `DrainNode`, `DrainGet`, `DrainCordon`, `DrainList`, `DrainEvict` per pod, `DrainEnd`; `DrainGivesUp` |
| uncordon | `UncordonNode`, `UncordonCall` |
| apply | `ApplyYAML`, `ApplyDocument` per document, `ApplyEnd` |

A manifest names its API group itself. A save asks for the right to the kind of the
request, and compares the group for requests on a custom definition only; otherwise the
Kind word decides (`operations.go:765-781`). `WordOf` is that word of each object:
`KindsFor` has two members for a custom resource whose Kind is also a built-in's, and
either right is enough to write it (section 14). A text may be saved as that of another
object with its word, whose version the user does not know.

A call is done, refused, or done with its answer lost (`Outcomes`). `changed[c]` is
the objects others wrote since client `c` looked, which is what a resource version
tells the API server. `SaveRole` and `Restart` are the administrator and the process;
others edit and delete objects, pods end and come back, here or elsewhere
(`PodPlaced`: a cordoned node takes only pods that do not ask the scheduler). A
pod whose eviction was accepted is "gone" although it may still be terminating:
the code waits for nothing more.

| Property | What it says |
| --- | --- |
| `RoleMeansWhatWasSaved` | the stored role decides as its author wrote it, through every form and restart |
| `ActsWithinRole` | each change to the cluster and each opened manifest is one the role at admission grants as written; a manifest is edited with the right to a kind whose word it bears (`KindsFor`) |
| `EditsKeepOthers` | a versioned edit, a scaling and a restart change their own field and undo nothing of others |
| `AppliedHolds` | after a successful Apply YAML every document is in force, what others changed since aside |
| `DrainLeavesNothing` | after a drain that answers "ok" no pod it is meant to move is on the node |

No liveness: every request ends when its calls return, and its retry is the user's.

## 10. ProviderSignIn

State: `config` as readers of the store see it (settings and mappings of the three
providers, modes of the roles), the browser's state `cookies`, what each of its
tabs is doing, the codes the issuer has taken back, and the sessions handed out. A sign-in
is `Start` (draws a state, sets the cookie of its provider), `Return` (the issuer
sends the browser back, with a code or without), `Callback` (the shared address
tells OpenID Connect and Entra apart by the cookie that matches), `Exchange`,
`FetchProfile`, `FetchGroups`, `ResolveRole`, `CreateExternalSession`,
`IssueExternalSession`, each of which
reads the configuration the code reads there, or uses what was read earlier. The last two
are apart because `CreateExternalSession` looks the role up under the read lock and issues
the token after it gave the lock back: a role deleted, changed or replaced by an import
(`ImportConfig`) in between is handed out all the same.
`CallbackFails` is a call that errs. A tab may return a second time with the same
code; that the issuer refuses a code it has taken back is its promise and modelled
as such. Administrators change settings, mappings and roles at any point
(`AdminStep`), cookies expire, the process restarts.

Tokens, keys, claims and paging are abstracted to what they yield: a person, by the
issuer that gave the code, and the groups of the configured claim, of "groups", or
of the directory. Sessions themselves (expiry, versions, logout) are in `Sessions`.

| Property | What it says |
| --- | --- |
| `SignInReachesItsProvider` | a callback is served for the provider its sign-in was started with, and for none other, however many sign-ins are under way |
| `SessionWellFounded` | the chosen provider vouched for the person, the code was its issuer's and used once, the role was there at the last look (`stood`) and was mapped to a group of the person during this callback |

## 11. Insights

`Request` fixes the lists that `BuildInsights` will read (`Calls`) for its namespaces, less
those no selected category asks for (`Upcoming`); `List` reads the next one and adds what the sections complete at that
place report; `ListFails` fails the request where the code returns an error, and is
not enabled for lists the code tolerates losing (metrics, volume statistics of nodes
listed before); `Edit` is anybody changing one object meanwhile. `Needless` says which
calls are not made again because an earlier section's list is at hand. Use is measured
by the metrics server or by kubelets, which are objects of their own; a kubelet is asked
through the Node listed before and answers only while that Node is there (`Answers`).
`Measure` does this at the calls' places, and `MeasuredItems` reports it of the claims and
pods listed. Volumes are in percent, a claim's capacity being the same wherever it is
reported; the rates kubelets' CPU counters give are values. Every check of `insights.go` is an operator, with its threshold; messages and counts shown in
them are left out. `scan.moments` is history: the clusters the traversal lived to
see. `Known` and `Instant` are the reference: the same calls made of a cluster that
stands still. `InsightsAssumption` says that a request's namespaces are distinct and none
is the cluster's scope, which `uniqueStrings` sees to, that a Secret has a name, and
that the sources of metrics and the suppression list always answer something.

| Property | What it says |
| --- | --- |
| `OneMoment` | an answer during which at most one object changed is the answer of some moment, however many sections use the object; for the four checks of what is measured this is said of traversals in which no Node came or went, and neither the metrics server nor a kubelet's resource metrics, which two calls ask, changed (`Steady`) |
| `ViewsAgree` | a request for some categories says what the full page says under them |
| `NamespacesApart` | what is said about a namespace does not depend on what else is selected, three checks aside that weigh pods against the selection (`SelectionWide`) |

## 12. PodLists

`writeNamespacedList` with `ListPods` and the readings of GPU exporters. Each worker of
a request is a process: `TakeJob`, `ReadPods` or `PodsFail` (the first error cancels
the context the others use), then `UseCache` or `BeginScrape`, `Answers` or
`GivesNothing` per exporter, `EndScrape`. The cache is shared by all requests; two
workers that find it expired both scrape, and the later to end overwrites. `Respond`
waits for all workers. `Leave` is the browser going away, after which its calls
may fail with the context.

| Property | What it says |
| --- | --- |
| `AnswerGenuine` | an answer has every selected namespace or the error of one, never the cancellation another's failure caused |
| `ReadingsRecent` | readings taken from the cache are at most its life and one scrape old |
| `EveryRequestAnswered` | every request is answered |

Fairness (`FairSpec`): weak for each worker and for the goroutine that waits for them:
goroutines run, calls to the API server return, an exporter answers or its
request times out after three seconds. None for clients or the clock.

## 13. Runs and bounds

| Run | Bounds | Why enough |
| --- | --- | --- |
| `ConfigStore` | 2 usernames that differ in case only, 2 roles, 1 provider with all three settings, an over-long group name, versions to 2, 1 crash, uploads: a partial, a dangling, a headless one | two users distinguish "last administrator" and reach the duplicate the import refuses; two roles let a custom role be promoted, demoted and deleted; version 2 needs a first and a later change |
| `Sessions` | 1 account, 2 passwords, 1 client, TTL 1, clock to 1, 1 crash, an upload with an outdated hash | a login needs one client: its steps interleave with every administrator action, and its next sign-in with the logout of its last |
| `ProviderSignIn` | 2 tabs, 2 people, 2 groups, 2 roles, 2 issuers, 3 providers, 2 sign-ins, 3 sign-ins, changes and restarts together | two tabs race on one address; one change falls between any two of the three reads, two within one callback remove a mapping and then its role |
| `LogStream` | 2 streams of 2 lines, every combination of endings, channel of 2 | one stream fills the channel before the other is set up; two senders race for the last place |
| `LogLines` | up to 3 lines of length 0 to 7 round a buffer of 2 and a bound of 4 | lines below, at and above buffer, bound and their multiples; a line after a long one |
| `IncidentSecrets` | 2 pod names with 2 UIDs, 1 legacy Secret, 2 workers and the migration, 2 attempts, 2 incident times, 1 fault (a pod born, replaced or deleted, or a restart of BeaverDeck); 2 incidents beside nothing found, or 1 beside the migration of an older or another pod's Secret (`Start`) | workers and migration meet on one Secret, one pod's clean-up judges the other's, a second attempt follows a lost answer; the third attempt of the code adds no new state |
| `IncidentLatest` | 1 name, 2 workers, nothing found at the start | smallest instance of the finding |
| `IncidentQueue` | 1 name, 2 pods, 2 containers, 1 restart each, 2 restarts or evictions together beside those before the start, 2 notifications under way, queue of 1, memory of 2 keys, 1 worker | a successor with a count above, at and below its predecessor's, both evicted; more keys than memory, more incidents than queue |
| `Suppressions` | 2 checks, 2 requests, repeated without bound | two requests interleave; a third adds none that two do not have |
| `ClusterOperations` | 2 clients, 5 objects of 4 kinds and both scopes, one a custom resource with a built-in's Kind, 2 pods, 3 roles, 4 edits, 2 document lists, 2 requests or saved roles, 1 change by others | two requests meet on one object with one outsider; roles in every written form |
| `Insights` | two nodes and two namespaces with an object of nearly every kind, 31 clusters that differ in one object or in who answers for the metrics, 9 requests, 1 change | each check has an object on both sides of its threshold; one change falls between any two lists |
| `PodLists` | 2 clients with 2 workers, 2 namespaces, 1 exporter, life 1, scrape limit 1, clock to 3 | two workers of one request race on the error, two requests on the cache; the cache expires and is filled again |

`MaxVersion`, `MaxCrashes`, `MaxTime`, `MaxUid`, `MaxReports`, `MaxFaults`, `MaxCount`, `MaxClock`,
`MaxChanges`, `MaxNotes`, `MaxLength`, `MaxLines`, `MaxStarts`, `MaxEvents`, `MaxRequests`, `MaxOthers` and
`MaxEdits` are bounds of the models, not of the code. They stand in the guards of
the actions that count. The deadlock check is off where requests, queues and
bounded worlds end: the log, incident, sign-in, operations and list runs. The two
clients of `ClusterOperations` are symmetric: no property tells them apart and the
run checks no liveness.

Definitions introduced as "mistaken" are variants of the definition below them
that a plausible bug would give; each property is shown to be violated when its
variant takes the definition's place.

## 14. What the models found

Shown by a run:

- `IncidentLatest`: the guard against older snapshots
  (`restart_diagnostics.go:1313`) compares times for equal pod UIDs only, so a
  delayed capture of a replaced pod overwrites its successor's newer incident;
  `README.md:73` says the Secret is overwritten with the latest snapshot.

Met while modelling, without a run of their own; where a document of the repository
promises otherwise it is named:

- `insight_suppressions.go:136`: the new list is computed from one read and written
  with the resource version of a second one, so a change acknowledged in between
  is undone.
- `bootstrap.go:71`: `CompleteBootstrap` lacks the case-insensitive duplicate check
  of `Create`. After the last administrator's role is demoted, a bootstrap as
  "Root" beside "root" writes a Secret the next start refuses.
- `accounts.go:313`: `CreateRole` accepts names longer than the 80 characters the
  import does, with the same outcome, as do the handlers that map groups.
- `oidc.go:44`, `google.go:18`: provider settings are trimmed and saved; the import also
  refuses control characters and more than 4096 characters
  (`config_snapshot.go:560-573`, `638-649`), so after a pasted text with a line break
  inside the next start refuses the Secret, as does the import of the exported
  configuration (`README.md:101`). `RestartAlwaysPossible` shows that these three are the
  only obstacles to a restart.
- `config_snapshot.go:386`: a save holds the write lock with no deadline of its own, so
  an API server that does not answer stops every reader.
- `accounts.go:165`, `184`: sessions are issued after the read lock is given back. An
  account reset or deleted in between gives a session that is dead at birth, a role
  deleted in between a session no request accepts. A login that was verified
  with the old password and reads the account after the reset obtains a valid session
  (`accounts.go:140`).
- `accounts.go:370`: `UpdateRole` can demote the role of the last local
  administrator, which `Delete` and `UpdateUserRole` refuse.
- `accounts.go:440`: session versions restart when an account is deleted and created
  again, so a token of the deleted account can be accepted after a later reset.
- `log_stream.go:62`: the error of a refused stream is sent without looking at the
  context, before anybody receives; when earlier readers have filled the channel
  the handler waits for ever. `LogStream` reaches this state; `NothingLeftBehind` speaks
  of requests that are served or returned.
- `log_stream.go:154`: a last line without newline whose length is a multiple of
  the 64 KiB buffer is lost when the stream reports its end after its last bytes;
  a line of exactly the bound may be marked truncated.
- `restart_diagnostics.go:1438`: a clean-up judges Secrets by a list of pods it took
  before. It deletes the fresh Secret of a pod born in between, the first of its
  name or a StatefulSet's replacement, where `docs/DECISIONS.md:518` speaks of pods
  that no longer exist or have a different UID.
- `restart_diagnostics.go:1298`, `1313`: the time of an incident is compared with the
  Secret of this release only. An incident reported late, older than a Secret of an
  earlier release for its pod, is stored and its clean-up removes the newer one.
- `restart_diagnostics.go:505`: captures have no deadline; two that are never answered
  stop the workers, and the queue then drops what comes.
- `restart_diagnostics.go:452`: `ready` is set when the informer's store is filled;
  notifications of the first list the handler takes after that turn old restart
  counts into incidents, where `docs/DECISIONS.md:518` says that historical counts
  create none.
- `restart_diagnostics.go:410`: an update is looked at without a look at the UIDs. After
  a missed deletion it leads from a pod to its successor, whose restarts up to the
  predecessor's counts are then missed, and its eviction if both were evicted.
- `operations.go:592`: a drain evicts by name, also a pod that has come back on
  another node since the list.
- `mutation_handlers.go:394`: when a document of an Apply YAML fails, the answer is the
  error alone and does not tell which documents are in force.
- `operations.go:774`: a manifest's Kind word is compared with the request's kind, its API
  group only when the request is about a custom definition; the mapping follows the
  manifest's own group. So a custom resource whose Kind is a built-in's (a Service of
  another group) is written with the right to edit services, and needs no right to edit
  custom resources.
- The manifest handlers ask for an allowed namespace also for objects that are in no
  namespace.
- `auth_handlers.go`: the deferred removal of the state cookie runs after the
  redirect's header is written, so the cookie stays until it expires; a repeated
  callback then rests on the issuer refusing the code. Verified addresses are asked
  of Google only.
- `oauth_support.go:305`: group paging ends silently after twenty pages.
- `insights.go:102`: a Node that is deleted between the list of Nodes and the call to its
  kubelet is reported healthy while the use of its volumes and pods is missing, an answer no
  moment of the cluster gives, with one object changed; so is one whose metrics
  server stops between its two readings, reported available without the pods' use
  it last gave. A kubelet that fails to answer once looks the same.
- `insights.go`: two changes in one traversal may give an answer of no moment; the
  GPU checks for pending pods ignore a node name although their text says "has not been
  scheduled"; a pod on a node that was not listed has capacity 0 and counts as
  overcommitted; a suppression is kept without the selection it was made under.
- `metrics.go:491`: a request that is cancelled while it scrapes caches an empty set of
  readings for 15 s for everybody.
- `metrics.go:428`: the CPU counter cache is shared, so the span a rate is taken over
  depends on who asked last, and the kubelet's first answer has a rate of 0.

## 15. What is proved

`ConfigStoreProofs`, for every set of users, passwords, roles, groups, providers
and uploads, under `ConfigAssumption` (which only says that constants have their
kinds, that `AdminRole` is a role and is not oversized):

- `TypeCorrect`, `ReferencesAlwaysResolve`: the inductive invariant is
  `TypeOK /\ ReferencesResolve`. Every operation is an `Edit`: a mutation to a
  well-typed configuration whose references resolve (one lemma per operation, on
  top of four lemmas about changing one account, role, role removal, mapping, and
  one about imports). `ReferencesResolve` speaks of `config` and `previous`,
  because a rollback copies the one to the other; the Secret need not be sound,
  for an operator may have put anything there, and `ImportSound` covers the
  start from it.
- `RollbackIsExact`, `DurableAlwaysMatches`: from `Agreement`, which adds where
  the Secret equals memory ("saved", "restored") and where it equals what readers
  see. `DurableMatchesRuntime` alone says nothing of the phases in between and is
  not inductive.
- `RestartAlwaysPossible`: `SecretImportable`, for any over-long names, letter cases and
  texts: a sound configuration passes the import but for these (`SoundIsImportable`).
- `ReadersAlwaysSeeDurable`: the refinement of `WriteAhead`; `Agreement` gives the
  one step that matters, the publication.

The same module, for `Sessions` on top of the store, for any number of clients,
under `SessionAssumption`:

- `SessionsKeepTheStore`: a step of sign-in, logout, sweep or clock is a step of
  `ConfigStore` or leaves its variables alone, so `SessionSpec` implies `Spec` and
  everything above holds of the two together. `SessionTypeCorrect` rests on it.
- `LoggedOutAlwaysStaysOut`: `EndedOut` adds that no sign-in holds a token that ended,
  so storing a record cannot bring one back.
- `NoneStillborn`: `UndisturbedHonoured`, what a sign-in read is what readers see as long
  as its account was not disturbed; it is read under the lock, where memory is what was
  published (`Agreement`), and stamping and storing change neither.
- `PasswordChangeAlwaysEndsSessions`: `VersionsMove`, any mutation that changes an
  account's password gives it a version it had not; and
  `SessionsWhileServing`, with no process there are no records and no sign-ins, so what
  would survive was read by this process under the earlier version.
- `UpgradeAlwaysKeepsPassword`: from the types, since the delayed upgrade edits one
  field of whatever the account is by then.
- `SweepAlwaysSpares`: `SweeperHoldsStale`, what the sweeper is about to delete was
  dead when it looked, and a dead token becomes live only by being issued again.

`LogProofs`, of `LogLines`, for every input, buffer size and bound:

- `LineTypeCorrect`, `LinesAlwaysFaithful`, `AlwaysBounded`: the inductive invariant
  is `LineTypeOK /\ LinesFaithful`. The conjuncts of `LineTypeOK` that relate the slice to the
  bytes consumed are needed: from `LinesFaithful` alone nothing is known of the
  line in the making, which `Emit` appends.
- `EndedLinesAlwaysEmitted`: from the same invariant, since `Finish` is enabled
  only at the end of the stream.

- `UnendedLineAlwaysEmitted`: of a line under way whole buffers were consumed
  (`WholeBuffers`), so one that leaves nothing unread has a multiple of the buffer.

The length of a line may be any natural number up to `MaxLength`, itself any
natural number.

and of `LogStream`, for every number of streams and lines and every capacity:

- `TypeCorrect`; `NeverSendsAfterClose`, inductive once "closed implies that the
  set-up is over" is added, since only the set-up starts readers.
- `EndAlwaysComplete`: `EndIsComplete` says nothing until the end event, so the
  work is in `Accounted`: as long as the client is there and nothing was given
  up, the events delivered or in the channel are, for each source, exactly what
  its reader took from the stream, less the line it holds, plus the error it
  reported. With the channel closed and empty (`EndOfAccount`) this is what the
  end event promises.
- `NothingEverLostOrReordered`: `OrderInv` adds that what is delivered or in the
  channel is in order, source by source. A push keeps it because what a reader sends
  comes after all that is accounted for of its source (`SentAfter`); a receipt moves
  an event over and leaves the sequence of both as it is.

`IncidentSecretsProofs`, for every set of pods, Secrets and workers and every
content found at the start that `FoundAssumption` allows (a Secret named for a pod
is of that pod):

- `TypeCorrect`; `SamePodAlwaysForward`: the invariant is `Guarded`, a process
  whose resource version is current looked at a Secret not newer than what it
  stores. Each write or deletion ends that state for all others
  (`OutdateType`), which is why it survives their steps.
- `AlwaysConsolidated`: Secrets of earlier releases are only ever deleted, so those a
  clean-up is still to delete are on its list (`OnList`).
- `RecordedAlwaysStays`: what is recorded, queued, stored or held is about pods that
  were born (`AllBorn`), so of a name with one UID it is about that pod. A clean-up
  that lists a first pod as living finds its Secret relevant, and of a pod yet to be
  born there is none to delete (`Spared`); `Guarded` does the rest.
- `NewestAlwaysKept`: the refinement of `LatestIncident`. Every step either leaves the
  newest readable incident of a pod alone or moves it forward: `InTime` (no Secret of
  an earlier release is newer than an incident still to be stored for its pod, unless
  one was reported `late`) gives the writes, `Aimed` (of a living pod's Secrets a
  process deletes only those of the pod it has just stored for), `Guarded` and `Spared` the
  deletions.

`IncidentQueueProofs`, for every set of pods, containers and workers, every capacity
and every size of the dedupe memory, under `IncidentQueueAssumption` and
`UnknownAssumption` (kinds of the constants; the status nobody knows is none):

- The detection compares the total of a pod's restart counts, a fold over its
  containers. That totals are natural numbers, grow with the counts and differ only
  where some count differs (`SumType`, `SumGrows`, `SomeInFocus`) is shown by
  induction over the sets of containers: the library's induction theorems take an
  operator and cannot be used, so `SetInduction` takes the set of what holds and
  goes by a smallest counterexample, and `RecursionHasSolution` shows that the fold's
  recursive function exists.
- `TypeCorrect`; `NeverTwice`: from `Remembered`, as long as the keys of what was queued
  fit, the dedupe memory is exactly those keys and its order has each once, so
  nothing is pushed out and nothing of them is accepted again.
- `RestartsAlwaysReported`, `EvictionsAlwaysReported`: the properties compare what the
  handler was told in all with what it queued, while it sees one notification at a
  time. `Chained` relates the two: the notifications under way are a chain, in which
  each that continues a pod starts from the status the handler was given of it before
  and counts only grow, a pod that arrives is new to the handler, be it in the place of
  another, and nothing follows a deletion. `Stored` says that the informer's store is
  the chain's end and not ahead of the cluster, `Unseen` that of a living pod the store
  does not hold the handler was told nothing; `Alone`, that pods of one name are never
  there together, is what keeps a successor from a predecessor's chain.

`InsightsProofs`, of `Insights`, for every set of objects, clusters to start from, changes
and requests that `InsightsAssumption` allows, any number of namespaces and of changes:

- Where each call stands in `Calls` (`Layout`) and that a list is called for once, the
  Secrets of a namespace at most twice (`CallOrder`), is shown by induction over the
  blocks of 14 calls, one for each namespace.
- `AnswersOneMoment`: the invariant `IInv` says that before call k the traversal knows
  what one of its moments told in the first k - 1 calls, and what *every* moment told as
  long as the list of the object that changes was not read (`Told`). With `CallOrder` the
  list of that object is read from one cluster; a second reading, of the Secrets for the
  Ingresses, is what `Needless` prevents. What is measured is read through the nodes listed
  before: while none comes or goes, those loaded are those there are (`NodesLoaded`), and
  each of the three measurements is one of some moment (`Sampled`); two of them cannot
  differ between the moments then (`SteadyMeasures`), so the moment that gives the third
  and the lists gives them all (`AnswerIs`).
- `ViewsAlwaysAgree`, `NamespacesAlwaysApart`: of a cluster that stands still, what a call
  adds is what its section says of the whole cluster or, for the sections after the
  namespaces, of the lists of the request (`SectionsSettled`): every list a section uses
  was called for by the same view and is whole, or the check that leaves it out shows that
  nothing depends on it (`Covered`, `AlwaysRead`). So an answer is known call by call
  (`ItemsSoFar`, `InstantIs`), a call adds for some views what it adds for all under
  those views (`SectionsDivided`), and what is about a namespace comes from its own block
  of calls (`SaidAlike`). What is measured is treated apart (`MeasuredIs`,
  `MeasuredDivided`, `MeasuredAlike`).

and of `Suppressions`, for all checks and any number of requests:

- `SuppressionsTypeCorrect`, `AckAlwaysHonoured`, `UndisturbedWriteAlwaysExact`: the invariant
  adds `Current`, a request that is alone since its first read is about to write
  what the list is now, with its own check changed.

`ClusterOperationsProofs`, for any number of clients, all objects, pods, roles and
document lists, under `OperationsAssumption` and `PermissionAssumption` (kinds of the
constants; blank names are not namespaces, served ones are; a namespace and a name
mean one object):

- The inductive invariant is `TypeOK`, `RoleSaved` (the role
  is what normalisation makes of the text written last)
  and `AllGood`: of each request, what its present step may rely on. `Good` says
  what the permissions at admission grant (for a request under way the role itself
  may have changed since), that a copy with a current resource version equals the
  object, that the documents applied so far are in force where nobody else
  wrote, and that a drain past its list has left, of the pods on the node, only those
  it still holds. The properties themselves speak of finished
  requests and are not inductive.
- `RolesKeepTheirMeaning` rests on lemmas about the forms of permissions: the levels
  are exactly the closed sets of flags (`FlagFacts`, `LevelFacts`), so compacting
  and expanding loses nothing of what normalisation keeps (`ReloadFacts`).
- `ApplyMeansApplied`, `DrainMeansDrained`, `EditsKeepWhatOthersDid`,
  `ChangesStayWithinRoles`: from the invariant, with one lemma per action for its
  preservation and one per action for staying within the role.

`PodListsProofs`, for any number of clients, workers, namespaces and exporters and any
times, under `ListAssumption`:

- `TypeCorrect`, `AnswersAreGenuine`: the invariant says where each namespace of a request
  is while its context is live: still in the list, at a worker, or delivered, with a worker
  left to take what is in the list (`Whole`); and that a context the client did not
  end is cancelled only with a genuine error recorded.
- `ReadingsAreRecent`: a scrape's readings are no older than its start, which is at
  most `ScrapeLimit` ago; once cached, the age is bounded by the time of expiry.

`ProviderSignInProofs`, for any tabs, people, groups, roles, issuers and configurations,
any number of sign-ins and changes, under `SignInAssumption` (kinds of the constants;
names of roles are ordered):

- `TypeCorrect`. The inductive invariant has two parts. `Drawn`: a state belongs to
  one tab and one provider, so a cookie that matches names the provider. `Story`: what
  a callback has made sure of by the step it is at, in terms of what it read earlier
  (the settings, the mappings seen so far) and never of the configuration now.
- `SignInAlwaysReachesItsProvider`: from `Drawn`, for the order in which the shared
  address tries OpenID Connect and Entra.
- `SessionsAlwaysWellFounded`: from `Story`, which at `IssueExternalSession` still tells
  what `CreateExternalSession` found of the role under the lock. That some role is the first by name rests on the natural numbers
  being well-founded.

Only model-checked: liveness (`ServiceReturns`, `NothingLeftBehind`,
`FiniteStreamsEnd`, `QueueDrains`, `WatchNeverWaits`, `EveryRequestAnswered`), since the prover has no rule for fairness here. Every safety
invariant of a run is also a theorem.

## 16. What is not modelled

- The metric ring and the contents of a snapshot, rates from CPU counters and the
  parsing of metrics: numbers and text, planned where they are shared state.
- Exec, terminals, creation of pods and the lists and details that are one call
  to the API server: streams and I/O without a decision of their own.
- Helm and Argo CD views: decoding and listing of external objects.
- The update check: a timer, one request and a string kept for display.
- The web UI: React views over the API; its session hook would need the browser's
  event loop.
- The chart: configuration. What it brings about, two processes over one Secret
  during a rolling update (`deployment.yaml:9`), is the first item of the plan and a
  known hazard no property covers yet, as are the CPU counters (`metrics.go:428`).
