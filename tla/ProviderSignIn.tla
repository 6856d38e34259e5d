--------------------------- MODULE ProviderSignIn ---------------------------
(***************************************************************************)
(* Signing in through an identity provider: the redirect with its state    *)
(* cookie, the callback, the exchange of the code, the profile and the     *)
(* groups, the role they are mapped to, and the session.                   *)
(*                                                                         *)
(* The configuration is what readers of the store see: it changes in one   *)
(* step, and never to something the Secret does not hold (WriteAhead).     *)
(* A callback reads it three times.  Generic OpenID Connect and Entra ID   *)
(* share one callback address and are told apart by their cookies.         *)
(***************************************************************************)
EXTENDS Naturals, FiniteSets

CONSTANTS
    Tabs,        \* tabs of one browser, which share its cookies
    People,
    Groups,
    Roles,
    NameOrder,   \* [Roles -> Nat], the order of their names
    Issuers,
    Unverified,  \* people whose address Google does not call verified
    Outsiders,   \* people whose address is outside the hosted domain
    Claims,      \* [People -> their two groups claims, each a set of at most one list]
    Directory,   \* [People -> groups by Google's directory or Microsoft Graph]
    Configs,     \* configurations a process may start with
    Imports,     \* configurations an administrator may import
    MaxStarts,   \* bound on sign-ins started
    MaxEvents,   \* bound on sign-ins, changes by administrators and restarts together
    NoIssuer, NoRole, NoState, NoCode

Providers == {"google", "oidc", "entra"}

Setting == [issuer : Issuers \cup {NoIssuer}, hosted : BOOLEAN]
Config  == [settings : [Providers -> Setting],
            mappings : [Providers -> [Groups -> Roles \cup {NoRole}]],
            modes    : [Roles -> {"admin", "viewer", "none"}]]   \* none: no such role

ASSUME SignInAssumption ==
    /\ NameOrder \in [Roles -> Nat]
    /\ \A r, q \in Roles : NameOrder[r] = NameOrder[q] => r = q
    /\ NoIssuer \notin Issuers /\ NoRole \notin Roles
    /\ Unverified \subseteq People /\ Outsiders \subseteq People
    /\ Claims \in [People -> [{"configured", "groups"} -> SUBSET SUBSET Groups]]
    /\ Directory \in [People -> SUBSET Groups]
    /\ Configs \subseteq Config /\ Imports \subseteq Config
    /\ MaxStarts \in Nat /\ MaxEvents \in Nat
    /\ NoState \notin Nat /\ NoCode \notin People

VARIABLES
    config,    \* what readers of the store see
    cookies,   \* [Providers -> state]: the browser's state cookies
    tabs,      \* what each tab is doing
    starts,    \* states drawn so far
    used,      \* states whose code the issuer has taken back
    sessions,  \* sessions of this process
    changes    \* changes and restarts so far

signInVars == <<config, cookies, tabs, starts, used, sessions, changes>>

Away == [at |-> "away"]

\* The steps of a callback under way.
Steps == {"exchange", "profile", "groups", "resolve", "create", "issue"}

Running(t) == tabs[t].at \in Steps

Init ==
    /\ config \in Configs
    /\ cookies = [p \in Providers |-> NoState]
    /\ tabs = [t \in Tabs |-> Away]
    /\ starts = 0
    /\ used = {}
    /\ sessions = {}
    /\ changes = 0

Go(t, tab) == tabs' = [tabs EXCEPT ![t] = tab]

-----------------------------------------------------------------------------
(* The browser and the issuer.                                             *)

\* authGoogleStart, authExternalOIDCStart: a fresh state goes into the provider's
\* cookie and into the redirect.
Start(t, p) ==
    /\ ~Running(t)
    /\ starts < MaxStarts /\ starts + changes < MaxEvents
    /\ config.settings[p].issuer # NoIssuer
    /\ starts' = starts + 1
    /\ cookies' = [cookies EXCEPT ![p] = starts']
    /\ Go(t, [at |-> "issuer", chosen |-> p, state |-> starts',
              issuer |-> config.settings[p].issuer])
    /\ UNCHANGED <<config, used, sessions, changes>>

\* The issuer sends the browser back, with a code for the person or with an error.
Return(t) ==
    /\ tabs[t].at = "issuer"
    /\ \E code \in People \cup {NoCode} :
          Go(t, [at |-> "returned", chosen |-> tabs[t].chosen, state |-> tabs[t].state,
                 issuer |-> tabs[t].issuer, code |-> code, result |-> "none"])
    /\ UNCHANGED <<config, cookies, starts, used, sessions, changes>>

\* A state cookie lives for ten minutes.
CookieExpires(p) ==
    /\ cookies[p] # NoState
    /\ cookies' = [cookies EXCEPT ![p] = NoState]
    /\ UNCHANGED <<config, tabs, starts, used, sessions, changes>>

-----------------------------------------------------------------------------
(* The callback.                                                           *)

\* A mistaken CallbackProvider: an Entra cookie is enough.
CallbackByPresence(u) ==
    IF u.chosen = "google" THEN "google"
    ELSE IF cookies["entra"] # NoState THEN "entra" ELSE "oidc"

\* authOIDCCallback: the address is the same, the matching cookie decides.
CallbackProvider(u) ==
    IF u.chosen = "google" THEN "google"
    ELSE IF cookies["entra"] = u.state THEN "entra" ELSE "oidc"

\* validateOAuthCallback.
ValidCallback(u, p) == cookies[p] # NoState /\ cookies[p] = u.state /\ u.code # NoCode

\* The tab as its callback leaves it: the address can be visited again.
Result(u, result) == [at |-> "returned", chosen |-> u.chosen, state |-> u.state,
                      issuer |-> u.issuer, code |-> u.code, result |-> result]

\* The roles provider p's mappings give to groups, as <<group, role>>.
Mapped(p) == {<<g, config.mappings[p][g]>> : g \in {h \in Groups : config.mappings[p][h] # NoRole}}

\* The callback reads the provider's settings, once.  The cookie stays: the
\* deferred clearOAuthStateCookie runs after http.Redirect has sent the header.
Callback(t) ==
    /\ tabs[t].at = "returned"
    /\ LET u == tabs[t]
           p == CallbackProvider(u)
       IN  IF ValidCallback(u, p)
           THEN Go(t, [at |-> "exchange", chosen |-> u.chosen, state |-> u.state,
                       issuer |-> u.issuer, code |-> u.code, source |-> p,
                       setting |-> config.settings[p], mapped |-> Mapped(p),
                       groups |-> {}, role |-> NoRole, stood |-> FALSE])
           ELSE Go(t, Result(u, "error"))
    /\ UNCHANGED <<config, cookies, starts, used, sessions, changes>>

At(t, step) == tabs[t].at = step
To(t, step) == Go(t, [tabs[t] EXCEPT !.at = step])
Refuse(t)   == Go(t, Result(tabs[t], "error"))

\* The network, the issuer or the 15 or 20 seconds of the callback give out.
CallbackFails(t) ==
    /\ Running(t)
    /\ Refuse(t)
    /\ UNCHANGED <<config, cookies, starts, used, sessions, changes>>

\* exchangeGoogleCode, executeOAuthCodeExchange.  An issuer takes a code it gave,
\* once, whether or not its answer arrives.
Exchange(t) ==
    /\ At(t, "exchange")
    /\ IF tabs[t].setting.issuer = tabs[t].issuer /\ tabs[t].state \notin used
       THEN /\ used' = used \cup {tabs[t].state}
            /\ To(t, "profile") \/ Refuse(t)
       ELSE Refuse(t) /\ UNCHANGED used
    /\ UNCHANGED <<config, cookies, starts, sessions, changes>>

\* The profile must name a person of the hosted domain.  Google must call the
\* address verified; the other providers are not asked.
FetchProfile(t) ==
    /\ At(t, "profile")
    /\ IF \/ tabs[t].source = "google" /\ tabs[t].code \in Unverified
          \/ tabs[t].setting.hosted /\ tabs[t].code \in Outsiders
       THEN Refuse(t)
       ELSE To(t, "groups")
    /\ UNCHANGED <<config, cookies, starts, used, sessions, changes>>

\* extractStringListClaim: the configured claim, else "groups", else nothing.
GroupsClaim(person) ==
    IF Claims[person]["configured"] # {} THEN UNION Claims[person]["configured"]
                                         ELSE UNION Claims[person]["groups"]

\* The sets of groups a callback may go on with.  Google has the directory only,
\* OpenID Connect the claim only; Entra ID joins the claim and Microsoft Graph's
\* answer, and does with one of them.
GroupsOf(p, person) ==
    IF p = "google"    THEN {Directory[person]}
    ELSE IF p = "oidc" THEN {GroupsClaim(person)} \ {{}}
    ELSE {GroupsClaim(person), GroupsClaim(person) \cup Directory[person]} \ {{}}

FetchGroups(t) ==
    /\ At(t, "groups")
    /\ \E gs \in GroupsOf(tabs[t].source, tabs[t].code) :
          Go(t, [tabs[t] EXCEPT !.at = "resolve", !.groups = gs])
    /\ UNCHANGED <<config, cookies, starts, used, sessions, changes>>

\* Roles in admin mode come first, then the name decides.
Preferred(rs) ==
    LET admins == {r \in rs : config.modes[r] = "admin"}
        best   == IF admins # {} THEN admins ELSE rs
    IN  CHOOSE r \in best : \A q \in best : NameOrder[r] <= NameOrder[q]

\* A mistaken ResolveRole: the mappings of all providers are asked.
ResolveAcross(t) ==
    /\ At(t, "resolve")
    /\ LET rs == {m[2] : m \in {n \in UNION {Mapped(p) : p \in Providers} : n[1] \in tabs[t].groups}}
       IN  IF rs = {}
           THEN Refuse(t)
           ELSE Go(t, [tabs[t] EXCEPT !.at = "create", !.role = Preferred(rs)])
    /\ UNCHANGED <<config, cookies, starts, used, sessions, changes>>

\* ResolveGoogleRole, resolveOIDCRole: the provider's mappings, as they are by now.
ResolveRole(t) ==
    /\ At(t, "resolve")
    /\ LET rs == {m[2] : m \in {n \in Mapped(tabs[t].source) : n[1] \in tabs[t].groups}}
       IN  IF rs = {}
           THEN Refuse(t)
           ELSE Go(t, [tabs[t] EXCEPT !.at = "create", !.role = Preferred(rs)])
    /\ UNCHANGED <<config, cookies, starts, used, sessions, changes>>

RoleExists(r) == config.modes[r] # "none"

\* The role is looked up again under the read lock ("stood" remembers what the
\* lookup could see) ...
CreateExternalSession(t) ==
    /\ At(t, "create")
    /\ IF RoleExists(tabs[t].role)
       THEN Go(t, [tabs[t] EXCEPT !.at = "issue", !.stood = RoleExists(tabs[t].role)])
       ELSE Refuse(t)
    /\ UNCHANGED <<config, cookies, starts, used, sessions, changes>>

\* ... and the session is issued after the lock is free again: roles and mappings
\* may have changed by then.
IssueExternalSession(t) ==
    /\ At(t, "issue")
    /\ LET u == tabs[t]
       IN  /\ sessions' = sessions \cup
                  {[source |-> u.source, user |-> u.code, role |-> u.role, state |-> u.state]}
           /\ Go(t, Result(u, "ok"))
    /\ UNCHANGED <<config, cookies, starts, used, changes>>

-----------------------------------------------------------------------------
(* What administrators change meanwhile, one published change at a time.   *)

\* The callbacks under way remember which mappings they have lived to see.
Change(c) ==
    /\ starts + changes < MaxEvents
    /\ changes' = changes + 1
    /\ config' = c
    /\ tabs' = [t \in Tabs |->
                  IF Running(t)
                  THEN [tabs[t] EXCEPT !.mapped = @ \cup
                           {<<g, c.mappings[tabs[t].source][g]>> :
                               g \in {h \in Groups : c.mappings[tabs[t].source][h] # NoRole}}]
                  ELSE tabs[t]]
    /\ UNCHANGED <<cookies, starts, used, sessions>>

UpdateConfig(p, s) == Change([config EXCEPT !.settings[p] = s])

UpsertGroupRole(p, g, r) ==
    /\ RoleExists(r)
    /\ Change([config EXCEPT !.mappings[p][g] = r])

DeleteGroupRole(p, g) ==
    /\ config.mappings[p][g] # NoRole
    /\ Change([config EXCEPT !.mappings[p][g] = NoRole])

ResetAuth(p) ==
    Change([config EXCEPT !.settings[p] = [issuer |-> NoIssuer, hosted |-> FALSE],
                          !.mappings[p] = [g \in Groups |-> NoRole]])

\* CreateRole and UpdateRole.
SetRole(r, m) == Change([config EXCEPT !.modes[r] = m])

DeleteRole(r) ==
    /\ RoleExists(r)
    /\ \A p \in Providers, g \in Groups : config.mappings[p][g] # r
    /\ Change([config EXCEPT !.modes[r] = "none"])

\* ReplaceConfigSnapshot: settings, mappings and roles at once.
ImportConfig(c) == Change(c)

\* The process restarts: its sessions and callbacks are gone, the browser and the
\* issuer know nothing of it.
Restart ==
    /\ starts + changes < MaxEvents
    /\ changes' = changes + 1
    /\ sessions' = {}
    /\ tabs' = [t \in Tabs |-> IF Running(t) THEN Result(tabs[t], "error") ELSE tabs[t]]
    /\ UNCHANGED <<config, cookies, starts, used>>

-----------------------------------------------------------------------------
TabStep(t) ==
    \/ \E p \in Providers : Start(t, p)
    \/ Return(t)
    \/ Callback(t)
    \/ CallbackFails(t)
    \/ Exchange(t)
    \/ FetchProfile(t)
    \/ FetchGroups(t)
    \/ ResolveRole(t)
    \/ CreateExternalSession(t)
    \/ IssueExternalSession(t)

AdminStep ==
    \/ \E p \in Providers :
          \/ \E i \in Issuers, h \in BOOLEAN : UpdateConfig(p, [issuer |-> i, hosted |-> h])
          \/ \E g \in Groups, r \in Roles : UpsertGroupRole(p, g, r)
          \/ \E g \in Groups : DeleteGroupRole(p, g)
          \/ ResetAuth(p)
    \/ \E r \in Roles, m \in {"admin", "viewer"} : SetRole(r, m)
    \/ \E r \in Roles : DeleteRole(r)
    \/ \E c \in Imports : ImportConfig(c)

Next ==
    \/ \E t \in Tabs : TabStep(t)
    \/ \E p \in Providers : CookieExpires(p)
    \/ AdminStep
    \/ Restart

Spec == Init /\ [][Next]_signInVars

-----------------------------------------------------------------------------
(* Properties.                                                             *)

\* A tab whose browser is at the issuer, is back, or has its callback under way.
Elsewhere == [at : {"issuer"}, chosen : Providers, state : Nat, issuer : Issuers]
Returned  == [at : {"returned"}, chosen : Providers, state : Nat, issuer : Issuers,
              code : People \cup {NoCode}, result : {"none", "ok", "error"}]
Served    == [at : Steps, chosen : Providers, state : Nat, issuer : Issuers, code : People,
              source : Providers, setting : Setting, mapped : SUBSET (Groups \X Roles),
              groups : SUBSET Groups, role : Roles \cup {NoRole}, stood : BOOLEAN]
TabStates == {Away} \cup Elsewhere \cup Returned \cup Served

TypeOK ==
    /\ config \in Config
    /\ cookies \in [Providers -> Nat \cup {NoState}]
    /\ tabs \in [Tabs -> TabStates]
    /\ starts \in Nat /\ changes \in Nat
    /\ used \subseteq Nat
    /\ sessions \subseteq [source : Providers, user : People, role : Roles, state : Nat]

\* A callback is served for the provider its sign-in was started with, however
\* many sign-ins the browser has under way: one whose cookie still holds its
\* state and that brings a code reaches its own token endpoint, and none reaches
\* another provider's (docs/DECISIONS.md on the shared callback address).
SignInReachesItsProvider ==
    [][\A t \in Tabs :
          Callback(t) =>
            LET u == tabs[t]
            IN  IF u.code # NoCode /\ cookies[u.chosen] = u.state
                THEN tabs'[t].at = "exchange" /\ tabs'[t].source = u.chosen
                ELSE ~Running(t)']_signInVars

\* A session handed out rests on one consistent story although its parts were
\* read at different moments: the provider that was chosen vouched for the
\* person (Google for a verified address), by a code of its own issuer used for no
\* other session, within the hosted domain of the settings the callback began with;
\* some mapping of that provider gave the role to a group of the person at a moment
\* of this callback; and the role existed at the last look before the token was
\* signed, which is the last the code takes: what administrators do after it finds
\* the session handed out.
SessionWellFounded ==
    [][\A t \in Tabs :
          sessions' # sessions /\ IssueExternalSession(t) =>
            LET u == tabs[t]
            IN  /\ u.source = u.chosen
                /\ u.issuer = u.setting.issuer
                /\ u.source = "google" => u.code \notin Unverified
                /\ u.setting.hosted => u.code \notin Outsiders
                /\ u.stood
                /\ \E g \in Groups : /\ <<g, u.role>> \in u.mapped
                                     /\ \/ g \in Directory[u.code]
                                        \/ g \in GroupsClaim(u.code)
                /\ \A s \in sessions : s.state # u.state]_signInVars
=============================================================================
