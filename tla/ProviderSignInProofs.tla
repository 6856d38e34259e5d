------------------------ MODULE ProviderSignInProofs ------------------------
(***************************************************************************)
(* Theorems about ProviderSignIn, for any tabs, people, groups, roles,     *)
(* issuers and configurations.                                             *)
(***************************************************************************)
EXTENDS ProviderSignIn, WellFoundedInduction, TLAPS

MappedBy(c, p) ==
    {<<g, c.mappings[p][g]>> : g \in {h \in Groups : c.mappings[p][h] # NoRole}}

\* Every state was drawn for one tab and one provider, and no cookie or tab has one
\* that was not drawn.
Drawn(ts, cs, n) ==
    /\ \A p \in Providers : cs[p] # NoState => cs[p] <= n
    /\ \A t \in Tabs : ts[t] # Away =>
          /\ ts[t].state <= n
          /\ \A p \in Providers : cs[p] = ts[t].state => p = ts[t].chosen
          /\ \A s \in Tabs : ts[s] # Away /\ ts[s].state = ts[t].state => s = t

\* What the callback of tab x has made sure of by the step it is at.
Story(x, c, taken, ss) ==
    x.at \in Steps =>
        /\ x.source = x.chosen
        /\ MappedBy(c, x.source) \subseteq x.mapped
        /\ x.at # "exchange" => /\ x.issuer = x.setting.issuer
                                /\ x.state \in taken
                                /\ \A s \in ss : s.state # x.state
        /\ x.at \in {"groups", "resolve", "create", "issue"} =>
              /\ x.source = "google" => x.code \notin Unverified
              /\ x.setting.hosted => x.code \notin Outsiders
        /\ x.at \in {"resolve", "create", "issue"} =>
              x.groups \subseteq Directory[x.code] \cup GroupsClaim(x.code)
        /\ x.at \in {"create", "issue"} => \E g \in x.groups : <<g, x.role>> \in x.mapped
        /\ x.at = "issue" => x.stood

Stories(ts, c, taken, ss) == \A t \in Tabs : Story(ts[t], c, taken, ss)

IInv ==
    /\ TypeOK
    /\ Drawn(tabs, cookies, starts)
    /\ Stories(tabs, config, used, sessions)
    /\ \A s \in sessions : s.state \in used

-----------------------------------------------------------------------------
LEMMA LeastName ==
    ASSUME NEW S \in SUBSET Roles, S # {}
    PROVE  \E r \in S : \A q \in S : NameOrder[r] <= NameOrder[q]
<1> DEFINE T == {NameOrder[r] : r \in S}
           R == OpToRel(<, Nat)
<1>1. T \subseteq Nat /\ T # {}
  BY SignInAssumption
<1>2. PICK x \in T : \A y \in T : <<y, x>> \notin R
  <2> HIDE DEF T, R
  <2>1. IsWellFoundedOn(R, Nat)
    BY NatLessThanWellFounded DEF R
  <2> QED
    BY <1>1, <2>1, WFMin
<1>3. \A y \in T : ~ (y < x)
  BY <1>1, <1>2 DEF OpToRel
<1>4. PICK r \in S : x = NameOrder[r]
  OBVIOUS
<1>5. ASSUME NEW q \in S PROVE NameOrder[r] <= NameOrder[q]
  <2>1. NameOrder[q] \in T /\ NameOrder[q] \in Nat /\ NameOrder[r] \in Nat
    BY SignInAssumption
  <2> QED
    BY <1>3, <1>4, <2>1
<1> QED
  BY <1>5

LEMMA PreferredFacts ==
    ASSUME NEW rs \in SUBSET Roles, rs # {}
    PROVE  Preferred(rs) \in rs
<1> DEFINE admins == {r \in rs : config.modes[r] = "admin"}
           best   == IF admins # {} THEN admins ELSE rs
<1>1. best \in SUBSET Roles /\ best # {} /\ best \subseteq rs
  OBVIOUS
<1>2. \E r \in best : \A q \in best : NameOrder[r] <= NameOrder[q]
  BY <1>1, LeastName
<1>3. Preferred(rs) = CHOOSE r \in best : \A q \in best : NameOrder[r] <= NameOrder[q]
  BY DEF Preferred
<1> HIDE DEF best
<1> QED
  BY <1>1, <1>2, <1>3

\* What kind of tab is at which step.
LEMMA TabFacts ==
    ASSUME NEW x \in TabStates
    PROVE  /\ x.at \in Steps => x \in Served
           /\ x.at = "returned" => x \in Returned
           /\ x.at = "issuer" => x \in Elsewhere
           /\ x # Away => x.chosen \in Providers /\ x.state \in Nat /\ x.issuer \in Issuers
BY DEF TabStates, Away, Elsewhere, Returned, Served, Steps

LEMMA MappedType ==
    ASSUME NEW c \in Config, NEW p \in Providers
    PROVE  MappedBy(c, p) \subseteq Groups \X Roles
BY DEF MappedBy, Config

LEMMA Initially == Init => IInv
<1> SUFFICES ASSUME Init PROVE IInv
  OBVIOUS
<1>1. TypeOK
  BY SignInAssumption DEF Init, TypeOK, TabStates
<1>2. Drawn(tabs, cookies, starts)
  BY DEF Init, Drawn
<1>3. Stories(tabs, config, used, sessions)
  BY DEF Init, Stories, Story, Away, Steps
<1> QED
  BY <1>1, <1>2, <1>3 DEF IInv, Init

\* A step of one tab that goes on with its sign-in.
LEMMA Moves ==
    ASSUME IInv, NEW t \in Tabs, tabs[t] # Away,
           NEW x \in TabStates, x # Away, Go(t, x),
           x.state = tabs[t].state, x.chosen = tabs[t].chosen,
           config' = config, cookies' = cookies, starts' = starts, changes' = changes,
           used \subseteq used', used' \subseteq Nat,
           sessions' \subseteq [source : Providers, user : People, role : Roles, state : Nat],
           \A s \in sessions' : s.state \in used' /\ (s \in sessions \/ s.state = x.state),
           Story(x, config, used', sessions')
    PROVE  IInv'
<1>1. /\ tabs \in [Tabs -> TabStates] /\ tabs' = [tabs EXCEPT ![t] = x]
  BY DEF IInv, TypeOK, Go
<1>2. TypeOK'
  BY <1>1 DEF IInv, TypeOK
<1>3. Drawn(tabs, cookies, starts)'
  <2>1. Drawn(tabs, cookies, starts)
    BY DEF IInv
  <2>2. \A s \in Tabs : /\ tabs'[s] # Away <=> tabs[s] # Away
                        /\ tabs'[s] # Away => /\ tabs'[s].state = tabs[s].state
                                              /\ tabs'[s].chosen = tabs[s].chosen
    BY <1>1
  <2> QED
    BY <2>1, <2>2 DEF Drawn
<1>4. Stories(tabs, config, used, sessions)'
  <2> SUFFICES ASSUME NEW s \in Tabs PROVE Story(tabs'[s], config, used', sessions')
    BY DEF Stories
  <2>1. CASE s = t
    BY <1>1, <2>1
  <2>2. CASE s # t
    <3>1. tabs'[s] = tabs[s] /\ Story(tabs[s], config, used, sessions)
      BY <1>1, <2>2 DEF IInv, Stories
    <3>2. tabs[s].at \in Steps => tabs[s] # Away /\ tabs[s].state # x.state
      BY <2>2 DEF IInv, Drawn, Away, Steps
    <3> QED
      BY <3>1, <3>2 DEF Story
  <2> QED
    BY <2>1, <2>2
<1> QED
  BY <1>2, <1>3, <1>4 DEF IInv

\* A tab whose callback is over.
LEMMA Ends ==
    ASSUME IInv, NEW t \in Tabs, tabs[t].at \in Steps \cup {"returned"},
           NEW result \in {"ok", "error"}
    PROVE  LET x == Result(tabs[t], result)
           IN  /\ tabs[t] # Away /\ x \in TabStates /\ x # Away
               /\ x.state = tabs[t].state /\ x.chosen = tabs[t].chosen
               /\ x.at \notin Steps
<1>1. tabs[t] \in TabStates
  BY DEF IInv, TypeOK
<1>2. tabs[t] \in Served \cup Returned
  BY <1>1, TabFacts
<1>3. Result(tabs[t], result) \in Returned
  BY <1>2 DEF Served, Returned, Result
<1> QED
  BY <1>2, <1>3 DEF Served, Returned, Result, TabStates, Steps, Away

LEMMA RefuseInductive ==
    ASSUME IInv, NEW t \in Tabs, tabs[t].at \in Steps \cup {"returned"},
           Go(t, Result(tabs[t], "error")),
           UNCHANGED <<config, cookies, starts, sessions, changes>>,
           used \subseteq used', used' \subseteq Nat
    PROVE  IInv'
<1> DEFINE x == Result(tabs[t], "error")
<1>1. /\ tabs[t] # Away /\ x \in TabStates /\ x # Away
      /\ x.state = tabs[t].state /\ x.chosen = tabs[t].chosen
      /\ x.at \notin Steps
  BY Ends
<1>2. Story(x, config, used', sessions')
  BY <1>1 DEF Story
<1>3. /\ sessions' \subseteq [source : Providers, user : People, role : Roles, state : Nat]
      /\ \A s \in sessions' : s.state \in used' /\ s \in sessions
  BY DEF IInv, TypeOK
<1> HIDE DEF x
<1> QED
  BY <1>1, <1>2, <1>3, Moves DEF x

-----------------------------------------------------------------------------
LEMMA StartInductive ==
    ASSUME IInv, NEW t \in Tabs, NEW p \in Providers, Start(t, p)
    PROVE  IInv'
<1> DEFINE x == [at |-> "issuer", chosen |-> p, state |-> starts + 1,
                 issuer |-> config.settings[p].issuer]
<1>1. /\ tabs \in [Tabs -> TabStates] /\ cookies \in [Providers -> Nat \cup {NoState}]
      /\ starts \in Nat /\ starts' = starts + 1
      /\ tabs' = [tabs EXCEPT ![t] = x] /\ cookies' = [cookies EXCEPT ![p] = starts + 1]
      /\ UNCHANGED <<config, used, sessions, changes>>
  BY DEF IInv, TypeOK, Start, Go
<1>2. config.settings[p].issuer \in Issuers
  BY DEF IInv, TypeOK, Config, Setting, Start
<1>3. x \in Elsewhere
  BY <1>1, <1>2 DEF Elsewhere
<1>4. x \in TabStates /\ x # Away /\ x.state = starts + 1 /\ x.chosen = p /\ x.at \notin Steps
  BY <1>3 DEF TabStates, Away, Steps
<1>5. TypeOK'
  BY <1>1, <1>4 DEF IInv, TypeOK
<1>6. Drawn(tabs, cookies, starts)'
  <2>1. Drawn(tabs, cookies, starts)
    BY DEF IInv
  <2>2. \A q \in Providers : cookies'[q] # NoState => cookies'[q] <= starts'
    BY <1>1, <2>1 DEF Drawn
  <2>3. ASSUME NEW s \in Tabs, tabs'[s] # Away
        PROVE  /\ tabs'[s].state <= starts'
               /\ \A q \in Providers : cookies'[q] = tabs'[s].state => q = tabs'[s].chosen
               /\ \A r \in Tabs : tabs'[r] # Away /\ tabs'[r].state = tabs'[s].state => r = s
    <3>1. \A r \in Tabs \ {t} : tabs'[r] = tabs[r]
      BY <1>1
    <3>5. \A r \in Tabs : tabs[r] # Away => tabs[r].state \in Nat /\ tabs[r].state <= starts
      BY <1>1, <2>1, TabFacts DEF Drawn
    <3>2. \A q \in Providers : cookies'[q] = starts + 1 => q = p
      <4> SUFFICES ASSUME NEW q \in Providers \ {p}, cookies[q] = starts + 1 PROVE FALSE
        BY <1>1
      <4>1. starts + 1 # NoState
        BY <1>1, SignInAssumption
      <4>2. cookies[q] <= starts
        BY <2>1, <4>1 DEF Drawn
      <4>3. starts \in Nat
        BY <1>1
      <4>4. starts + 1 <= starts
        BY <4>2, Zenon
      <4> HIDE DEF x
      <4> QED
        BY <4>3, <4>4
    <3>3. CASE s = t
      BY <1>1, <1>4, <3>1, <3>2, <3>3, <3>5
    <3>4. CASE s # t
      <4> HIDE DEF x
      <4>1. tabs'[s] = tabs[s] /\ tabs[s] # Away
        BY <2>3, <3>1, <3>4
      <4>2. /\ tabs[s].state <= starts /\ tabs[s].state \in Nat
            /\ \A q \in Providers : cookies[q] = tabs[s].state => q = tabs[s].chosen
            /\ \A r \in Tabs : tabs[r] # Away /\ tabs[r].state = tabs[s].state => r = s
        BY <2>1, <3>5, <4>1 DEF Drawn
      <4>3. tabs[s].state # starts + 1 /\ tabs[s].state <= starts + 1
        BY <1>1, <4>2
      <4>4. \A q \in Providers : cookies'[q] = tabs[s].state => q = tabs[s].chosen
        BY <1>1, <4>2, <4>3
      <4>5. \A r \in Tabs : tabs'[r] # Away /\ tabs'[r].state = tabs[s].state => r = s
        BY <1>1, <1>4, <3>1, <3>5, <4>1, <4>2, <4>3
      <4> QED
        BY <1>1, <4>1, <4>3, <4>4, <4>5
    <3> QED
      BY <3>3, <3>4
  <2> QED
    BY <2>2, <2>3 DEF Drawn
<1>7. Stories(tabs, config, used, sessions)'
  <2> SUFFICES ASSUME NEW s \in Tabs PROVE Story(tabs'[s], config, used, sessions)
    BY <1>1 DEF Stories
  <2> HIDE DEF x
  <2>1. CASE s = t
    BY <1>1, <1>4, <2>1 DEF Story
  <2>2. CASE s # t
    BY <1>1, <2>2 DEF IInv, Stories
  <2> QED
    BY <2>1, <2>2
<1> QED
  BY <1>1, <1>5, <1>6, <1>7 DEF IInv

LEMMA CookieInductive ==
    ASSUME IInv, NEW p \in Providers, CookieExpires(p)
    PROVE  IInv'
<1>1. /\ cookies \in [Providers -> Nat \cup {NoState}]
      /\ cookies' = [cookies EXCEPT ![p] = NoState]
      /\ UNCHANGED <<config, tabs, starts, used, sessions, changes>>
  BY DEF IInv, TypeOK, CookieExpires
<1>2. Drawn(tabs, cookies, starts)'
  <2>1. Drawn(tabs, cookies, starts)
    BY DEF IInv
  <2>2. \A t \in Tabs : tabs[t] # Away => tabs[t].state # NoState
    BY TabFacts, SignInAssumption DEF IInv, TypeOK
  <2> QED
    BY <1>1, <2>1, <2>2 DEF Drawn
<1>3. TypeOK'
  BY <1>1 DEF IInv, TypeOK
<1> QED
  BY <1>1, <1>2, <1>3 DEF IInv, Stories

LEMMA ReturnInductive ==
    ASSUME IInv, NEW t \in Tabs, Return(t)
    PROVE  IInv'
<1>1. PICK code \in People \cup {NoCode} :
          Go(t, [at |-> "returned", chosen |-> tabs[t].chosen, state |-> tabs[t].state,
                 issuer |-> tabs[t].issuer, code |-> code, result |-> "none"])
  BY DEF Return
<1> DEFINE x == [at |-> "returned", chosen |-> tabs[t].chosen, state |-> tabs[t].state,
                 issuer |-> tabs[t].issuer, code |-> code, result |-> "none"]
<1>2. tabs[t] \in Elsewhere
  BY TabFacts DEF IInv, TypeOK, Return
<1>3. x \in Returned
  BY <1>2 DEF Elsewhere, Returned
<1>4. /\ x \in TabStates /\ x # Away /\ tabs[t] # Away /\ x.at \notin Steps
      /\ x.state = tabs[t].state /\ x.chosen = tabs[t].chosen
  BY <1>2, <1>3 DEF TabStates, Away, Steps, Elsewhere
<1>5. Story(x, config, used', sessions')
  BY <1>4 DEF Story
<1>6. /\ UNCHANGED <<config, cookies, starts, used, sessions, changes>>
      /\ used' \subseteq Nat
      /\ sessions' \subseteq [source : Providers, user : People, role : Roles, state : Nat]
      /\ \A s \in sessions' : s.state \in used' /\ s \in sessions
  BY DEF Return, IInv, TypeOK
<1>7. Go(t, x)
  BY <1>1
<1> HIDE DEF x
<1> QED
  BY <1>4, <1>5, <1>6, <1>7, Moves

LEMMA CallbackInductive ==
    ASSUME IInv, NEW t \in Tabs, Callback(t)
    PROVE  IInv'
<1> DEFINE u == tabs[t]
           p == CallbackProvider(u)
           x == [at |-> "exchange", chosen |-> u.chosen, state |-> u.state,
                 issuer |-> u.issuer, code |-> u.code, source |-> p,
                 setting |-> config.settings[p], mapped |-> Mapped(p),
                 groups |-> {}, role |-> NoRole, stood |-> FALSE]
<1>1. u \in Returned /\ u # Away /\ u.at = "returned"
  BY TabFacts DEF IInv, TypeOK, Callback, Away
<1>2. /\ UNCHANGED <<config, cookies, starts, used, sessions, changes>>
      /\ used' \subseteq Nat
      /\ sessions' \subseteq [source : Providers, user : People, role : Roles, state : Nat]
      /\ \A s \in sessions' : s.state \in used' /\ s \in sessions
  BY DEF Callback, IInv, TypeOK
<1>3. CASE ValidCallback(u, p)
  <2>1. p \in Providers
    BY DEF CallbackProvider, Providers
  <2>2. p = u.chosen /\ u.code \in People
    BY <1>1, <1>3, <2>1 DEF ValidCallback, IInv, Drawn, Returned
  <2>3. Mapped(p) = MappedBy(config, p) /\ Mapped(p) \subseteq Groups \X Roles
    BY <2>1, MappedType DEF Mapped, MappedBy, IInv, TypeOK
  <2>4. config.settings[p] \in Setting
    BY <2>1 DEF IInv, TypeOK, Config
  <2> HIDE DEF p
  <2>5. x \in Served
    BY <1>1, <2>1, <2>2, <2>3, <2>4 DEF Served, Steps, Returned
  <2>6. /\ x \in TabStates /\ x # Away /\ x.state = u.state /\ x.chosen = u.chosen
    BY <2>5 DEF TabStates, Away
  <2>7. Story(x, config, used', sessions')
    BY <2>2, <2>3 DEF Story
  <2>8. Go(t, x)
    BY <1>3 DEF Callback, p
  <2> HIDE DEF x
  <2> QED
    BY <1>1, <1>2, <2>6, <2>7, <2>8, Moves
<1>4. CASE ~ValidCallback(u, p)
  <2>1. Go(t, Result(tabs[t], "error"))
    BY <1>4 DEF Callback
  <2> QED
    BY <1>1, <1>2, <2>1, RefuseInductive
<1> QED
  BY <1>3, <1>4

\* A step of a callback under way leaves sessions and types as they are.
LEMMA Quiet ==
    ASSUME IInv, UNCHANGED sessions, used' = used
    PROVE  /\ used' \subseteq Nat
           /\ sessions' \subseteq [source : Providers, user : People, role : Roles, state : Nat]
           /\ \A s \in sessions' : s.state \in used' /\ s \in sessions
BY DEF IInv, TypeOK

LEMMA CallbackFailsInductive ==
    ASSUME IInv, NEW t \in Tabs, CallbackFails(t)
    PROVE  IInv'
BY Quiet, RefuseInductive DEF CallbackFails, Running, Refuse

\* A tab whose callback is under way and what it has made sure of.
LEMMA Under ==
    ASSUME IInv, NEW t \in Tabs, tabs[t].at \in Steps
    PROVE  /\ tabs[t] \in Served /\ tabs[t] # Away
           /\ Story(tabs[t], config, used, sessions)
BY TabFacts DEF IInv, TypeOK, Stories, Steps, Away

LEMMA ExchangeInductive ==
    ASSUME IInv, NEW t \in Tabs, Exchange(t)
    PROVE  IInv'
<1>1. tabs[t].at = "exchange" /\ tabs[t].at \in Steps
  BY DEF Exchange, At, Steps
<1>2. tabs[t] \in Served /\ tabs[t] # Away /\ Story(tabs[t], config, used, sessions)
  BY <1>1, Under
<1>3. /\ UNCHANGED <<config, cookies, starts, sessions, changes>>
      /\ used \subseteq used' /\ used' \subseteq Nat
  BY <1>2 DEF Exchange, IInv, TypeOK, Served
<1>4. CASE Refuse(t)
  BY <1>1, <1>3, <1>4, RefuseInductive DEF Refuse
<1>5. CASE ~Refuse(t)
  <2> DEFINE x == [tabs[t] EXCEPT !.at = "profile"]
  <2>1. /\ Go(t, x) /\ used' = used \cup {tabs[t].state}
        /\ tabs[t].setting.issuer = tabs[t].issuer /\ tabs[t].state \notin used
    BY <1>5 DEF Exchange, To
  <2>2. x \in Served
    BY <1>2 DEF Served, Steps
  <2>3. /\ x \in TabStates /\ x # Away /\ x.state = tabs[t].state /\ x.chosen = tabs[t].chosen
    BY <1>2, <2>2 DEF TabStates, Served, Away, Steps
  <2>4. Story(x, config, used', sessions')
    BY <1>1, <1>2, <1>3, <2>1 DEF Story, Served, IInv
  <2>5. /\ sessions' \subseteq [source : Providers, user : People, role : Roles, state : Nat]
        /\ \A s \in sessions' : s.state \in used' /\ s \in sessions
    BY <1>3 DEF IInv, TypeOK
  <2> HIDE DEF x
  <2> QED
    BY <1>2, <1>3, <2>1, <2>3, <2>4, <2>5, Moves
<1> QED
  BY <1>4, <1>5

LEMMA FetchProfileInductive ==
    ASSUME IInv, NEW t \in Tabs, FetchProfile(t)
    PROVE  IInv'
<1>1. tabs[t].at = "profile" /\ tabs[t].at \in Steps
  BY DEF FetchProfile, At, Steps
<1>2. tabs[t] \in Served /\ tabs[t] # Away /\ Story(tabs[t], config, used, sessions)
  BY <1>1, Under
<1>3. UNCHANGED <<config, cookies, starts, used, sessions, changes>>
  BY DEF FetchProfile
<1>4. CASE Refuse(t)
  BY <1>1, <1>3, <1>4, Quiet, RefuseInductive DEF Refuse
<1>5. CASE ~Refuse(t)
  <2> DEFINE x == [tabs[t] EXCEPT !.at = "groups"]
  <2>1. /\ Go(t, x)
        /\ tabs[t].source = "google" => tabs[t].code \notin Unverified
        /\ tabs[t].setting.hosted => tabs[t].code \notin Outsiders
    BY <1>5 DEF FetchProfile, To
  <2>2. x \in Served
    BY <1>2 DEF Served, Steps
  <2>3. /\ x \in TabStates /\ x # Away /\ x.state = tabs[t].state /\ x.chosen = tabs[t].chosen
    BY <1>2, <2>2 DEF TabStates, Served, Away, Steps
  <2>4. Story(x, config, used', sessions')
    BY <1>1, <1>2, <1>3, <2>1 DEF Story, Served
  <2> HIDE DEF x
  <2> QED
    BY <1>2, <1>3, <2>1, <2>3, <2>4, Quiet, Moves
<1> QED
  BY <1>4, <1>5

LEMMA GroupsFacts ==
    ASSUME NEW p \in Providers, NEW person \in People, NEW gs \in GroupsOf(p, person)
    PROVE  gs \subseteq Groups /\ gs \subseteq Directory[person] \cup GroupsClaim(person)
<1>1. Directory[person] \subseteq Groups
  BY SignInAssumption
<1>2. GroupsClaim(person) \subseteq Groups
  <2>1. /\ Claims[person]["configured"] \subseteq SUBSET Groups
        /\ Claims[person]["groups"] \subseteq SUBSET Groups
    BY SignInAssumption
  <2> QED
    BY <2>1 DEF GroupsClaim
<1> QED
  BY <1>1, <1>2 DEF GroupsOf

LEMMA FetchGroupsInductive ==
    ASSUME IInv, NEW t \in Tabs, FetchGroups(t)
    PROVE  IInv'
<1>1. tabs[t].at = "groups" /\ tabs[t].at \in Steps
  BY DEF FetchGroups, At, Steps
<1>2. tabs[t] \in Served /\ tabs[t] # Away /\ Story(tabs[t], config, used, sessions)
  BY <1>1, Under
<1>3. UNCHANGED <<config, cookies, starts, used, sessions, changes>>
  BY DEF FetchGroups
<1>4. PICK gs \in GroupsOf(tabs[t].source, tabs[t].code) :
          Go(t, [tabs[t] EXCEPT !.at = "resolve", !.groups = gs])
  BY DEF FetchGroups
<1> DEFINE x == [tabs[t] EXCEPT !.at = "resolve", !.groups = gs]
<1>5. gs \subseteq Groups /\ gs \subseteq Directory[tabs[t].code] \cup GroupsClaim(tabs[t].code)
  BY <1>2, GroupsFacts DEF Served
<1>6. x \in Served
  BY <1>2, <1>5 DEF Served, Steps
<1>7. /\ x \in TabStates /\ x # Away /\ x.state = tabs[t].state /\ x.chosen = tabs[t].chosen
  BY <1>2, <1>6 DEF TabStates, Served, Away, Steps
<1>8. Story(x, config, used', sessions')
  BY <1>1, <1>2, <1>3, <1>5 DEF Story, Served
<1>9. Go(t, x)
  BY <1>4
<1> HIDE DEF x
<1> QED
  BY <1>2, <1>3, <1>7, <1>8, <1>9, Quiet, Moves

LEMMA ResolveRoleInductive ==
    ASSUME IInv, NEW t \in Tabs, ResolveRole(t)
    PROVE  IInv'
<1>1. tabs[t].at = "resolve" /\ tabs[t].at \in Steps
  BY DEF ResolveRole, At, Steps
<1>2. tabs[t] \in Served /\ tabs[t] # Away /\ Story(tabs[t], config, used, sessions)
  BY <1>1, Under
<1>3. UNCHANGED <<config, cookies, starts, used, sessions, changes>>
  BY DEF ResolveRole
<1>4. CASE Refuse(t)
  BY <1>1, <1>3, <1>4, Quiet, RefuseInductive DEF Refuse
<1>5. CASE ~Refuse(t)
  <2> DEFINE rs == {m[2] : m \in {n \in Mapped(tabs[t].source) : n[1] \in tabs[t].groups}}
             x  == [tabs[t] EXCEPT !.at = "create", !.role = Preferred(rs)]
  <2>1. rs # {} /\ Go(t, x)
    BY <1>5 DEF ResolveRole
  <2>2. /\ Mapped(tabs[t].source) = MappedBy(config, tabs[t].source)
        /\ Mapped(tabs[t].source) \subseteq Groups \X Roles
        /\ Mapped(tabs[t].source) \subseteq tabs[t].mapped
    BY <1>1, <1>2, MappedType DEF Mapped, MappedBy, IInv, TypeOK, Served, Story
  <2>3. rs \in SUBSET Roles
    BY <2>2
  <2>4. Preferred(rs) \in rs
    <3> HIDE DEF rs
    <3> QED
      BY <2>1, <2>3, PreferredFacts
  <2>5. PICK g \in tabs[t].groups : <<g, Preferred(rs)>> \in tabs[t].mapped
    <3>1. PICK m \in Mapped(tabs[t].source) : m[1] \in tabs[t].groups /\ m[2] = Preferred(rs)
      BY <2>4
    <3>2. m = <<m[1], Preferred(rs)>>
      BY <2>2, <3>1
    <3> QED
      BY <2>2, <3>1, <3>2
  <2>6. x \in Served
    BY <1>2, <2>3, <2>4 DEF Served, Steps
  <2>7. /\ x \in TabStates /\ x # Away /\ x.state = tabs[t].state /\ x.chosen = tabs[t].chosen
    BY <1>2, <2>6 DEF TabStates, Served, Away, Steps
  <2>8. Story(x, config, used', sessions')
    <3> HIDE DEF rs
    <3> QED
      BY <1>1, <1>2, <1>3, <2>5 DEF Story, Served
  <2> HIDE DEF x
  <2> QED
    BY <1>2, <1>3, <2>1, <2>7, <2>8, Quiet, Moves
<1> QED
  BY <1>4, <1>5

LEMMA CreateInductive ==
    ASSUME IInv, NEW t \in Tabs, CreateExternalSession(t)
    PROVE  IInv'
<1> DEFINE x == [tabs[t] EXCEPT !.at = "issue", !.stood = RoleExists(tabs[t].role)]
<1>1. tabs[t].at = "create" /\ tabs[t].at \in Steps
  BY DEF CreateExternalSession, At, Steps
<1>2. tabs[t] \in Served /\ tabs[t] # Away /\ Story(tabs[t], config, used, sessions)
  BY <1>1, Under
<1>3. UNCHANGED <<config, cookies, starts, used, sessions, changes>>
  BY DEF CreateExternalSession
<1>4. CASE Refuse(t)
  BY <1>1, <1>3, <1>4, Quiet, RefuseInductive DEF Refuse
<1>5. CASE RoleExists(tabs[t].role) /\ Go(t, x)
  <2>1. /\ x \in Served /\ x # Away /\ x.state = tabs[t].state
        /\ x.chosen = tabs[t].chosen
    BY <1>2, <1>5 DEF Served, Steps, Away
  <2>2. x \in TabStates
    BY <2>1 DEF TabStates
  <2>3. Story(x, config, used', sessions')
    BY <1>1, <1>2, <1>3, <1>5 DEF Story, Served
  <2> HIDE DEF x
  <2> QED
    BY <1>2, <1>3, <1>5, <2>1, <2>2, <2>3, Quiet, Moves
<1> QED
  BY <1>4, <1>5 DEF CreateExternalSession

LEMMA IssueInductive ==
    ASSUME IInv, NEW t \in Tabs, IssueExternalSession(t)
    PROVE  IInv'
<1> DEFINE u == tabs[t]
           s == [source |-> u.source, user |-> u.code, role |-> u.role, state |-> u.state]
           x == Result(u, "ok")
<1>1. u.at = "issue" /\ u.at \in Steps
  BY DEF IssueExternalSession, At, Steps
<1>2. u \in Served /\ u # Away /\ Story(u, config, used, sessions)
  BY <1>1, Under
<1>3. /\ sessions' = sessions \cup {s} /\ Go(t, x)
      /\ UNCHANGED <<config, cookies, starts, used, changes>>
  BY DEF IssueExternalSession
<1>4. u.role \in Roles
  BY <1>1, <1>2 DEF Story, Served
<1>5. /\ used' \subseteq Nat
      /\ sessions' \subseteq [source : Providers, user : People, role : Roles, state : Nat]
  BY <1>2, <1>3, <1>4 DEF Served, IInv, TypeOK
<1>6. /\ x \in TabStates /\ x # Away /\ x.state = u.state /\ x.chosen = u.chosen
      /\ x.at \notin Steps
  BY <1>1, Ends
<1>7. \A r \in sessions' : r.state \in used' /\ (r \in sessions \/ r.state = x.state)
  BY <1>1, <1>2, <1>3, <1>6 DEF Story, IInv
<1>8. Story(x, config, used', sessions')
  BY <1>6 DEF Story
<1> HIDE DEF x
<1> QED
  BY <1>2, <1>3, <1>5, <1>6, <1>7, <1>8, Moves

-----------------------------------------------------------------------------
\* A published change: the callbacks under way have lived to see its mappings.
LEMMA ChangeInductive ==
    ASSUME IInv, NEW c \in Config, Change(c)
    PROVE  IInv'
<1> DEFINE Seen(x) == [x EXCEPT !.mapped = @ \cup MappedBy(c, x.source)]
<1>1. /\ tabs \in [Tabs -> TabStates] /\ config' = c /\ changes' = changes + 1
      /\ UNCHANGED <<cookies, starts, used, sessions>>
  BY DEF IInv, TypeOK, Change
<1>2. tabs' = [t \in Tabs |-> IF Running(t) THEN Seen(tabs[t]) ELSE tabs[t]]
  BY DEF Change, MappedBy
<1>3. ASSUME NEW t \in Tabs
      PROVE  /\ tabs'[t] \in TabStates
             /\ tabs'[t] # Away <=> tabs[t] # Away
             /\ tabs[t] # Away => /\ tabs'[t].state = tabs[t].state
                                  /\ tabs'[t].chosen = tabs[t].chosen
             /\ Story(tabs'[t], c, used, sessions)
  <2>1. CASE Running(t)
    <3>1. tabs[t] \in Served /\ tabs[t] # Away /\ Story(tabs[t], config, used, sessions)
      BY <2>1, Under DEF Running
    <3>2. MappedBy(c, tabs[t].source) \subseteq Groups \X Roles
      BY <3>1, MappedType DEF Served
    <3>3. tabs'[t] = Seen(tabs[t])
      BY <1>2, <2>1
    <3>4. tabs'[t] \in Served
      BY <3>1, <3>2, <3>3 DEF Served
    <3>5. /\ tabs'[t].at = tabs[t].at /\ tabs'[t].chosen = tabs[t].chosen
          /\ tabs'[t].state = tabs[t].state /\ tabs'[t].issuer = tabs[t].issuer
          /\ tabs'[t].code = tabs[t].code /\ tabs'[t].source = tabs[t].source
          /\ tabs'[t].setting = tabs[t].setting /\ tabs'[t].groups = tabs[t].groups
          /\ tabs'[t].role = tabs[t].role /\ tabs'[t].stood = tabs[t].stood
          /\ tabs'[t].mapped = tabs[t].mapped \cup MappedBy(c, tabs[t].source)
      BY <3>1, <3>3 DEF Served
    <3>6. Story(tabs'[t], c, used, sessions)
      BY <3>1, <3>5 DEF Story
    <3> QED
      BY <3>1, <3>4, <3>5, <3>6 DEF TabStates, Served, Away, Steps
  <2>2. CASE ~Running(t)
    BY <1>1, <1>2, <2>2 DEF Running, Story
  <2> QED
    BY <2>1, <2>2
<1>4. TypeOK'
  <2>1. tabs' \in [Tabs -> TabStates]
    BY <1>2, <1>3
  <2> QED
    BY <1>1, <2>1 DEF IInv, TypeOK
<1>5. Drawn(tabs, cookies, starts)'
  BY <1>1, <1>3 DEF IInv, Drawn
<1>6. Stories(tabs, config, used, sessions)'
  BY <1>1, <1>3 DEF Stories
<1> QED
  BY <1>1, <1>4, <1>5, <1>6 DEF IInv

\* What administrators do is publish another configuration.
LEMMA AdminInductive ==
    ASSUME IInv, AdminStep
    PROVE  IInv'
<1> SUFFICES \E c \in Config : Change(c)
  BY ChangeInductive
<1>c. config \in Config
  BY DEF IInv, TypeOK
<1>1. ASSUME NEW p \in Providers, NEW i \in Issuers, NEW h \in BOOLEAN,
             UpdateConfig(p, [issuer |-> i, hosted |-> h])
      PROVE  \E c \in Config : Change(c)
  <2>1. [config EXCEPT !.settings[p] = [issuer |-> i, hosted |-> h]] \in Config
    BY <1>c DEF Config, Setting
  <2> QED
    BY <1>1, <2>1 DEF UpdateConfig
<1>2. ASSUME NEW p \in Providers, NEW g \in Groups, NEW r \in Roles, UpsertGroupRole(p, g, r)
      PROVE  \E c \in Config : Change(c)
  <2>1. [config EXCEPT !.mappings[p][g] = r] \in Config
    BY <1>c DEF Config
  <2> QED
    BY <1>2, <2>1 DEF UpsertGroupRole
<1>3. ASSUME NEW p \in Providers, NEW g \in Groups, DeleteGroupRole(p, g)
      PROVE  \E c \in Config : Change(c)
  <2>1. [config EXCEPT !.mappings[p][g] = NoRole] \in Config
    BY <1>c DEF Config
  <2> QED
    BY <1>3, <2>1 DEF DeleteGroupRole
<1>4. ASSUME NEW p \in Providers, ResetAuth(p)
      PROVE  \E c \in Config : Change(c)
  <2>1. [config EXCEPT !.settings[p] = [issuer |-> NoIssuer, hosted |-> FALSE],
                       !.mappings[p] = [g \in Groups |-> NoRole]] \in Config
    BY <1>c DEF Config, Setting
  <2> QED
    BY <1>4, <2>1 DEF ResetAuth
<1>5. ASSUME NEW r \in Roles, NEW m \in {"admin", "viewer"}, SetRole(r, m)
      PROVE  \E c \in Config : Change(c)
  <2>1. [config EXCEPT !.modes[r] = m] \in Config
    BY <1>c DEF Config
  <2> QED
    BY <1>5, <2>1 DEF SetRole
<1>6. ASSUME NEW r \in Roles, DeleteRole(r)
      PROVE  \E c \in Config : Change(c)
  <2>1. [config EXCEPT !.modes[r] = "none"] \in Config
    BY <1>c DEF Config
  <2> QED
    BY <1>6, <2>1 DEF DeleteRole
<1>7. ASSUME NEW c \in Imports, ImportConfig(c)
      PROVE  \E d \in Config : Change(d)
  BY <1>7, SignInAssumption DEF ImportConfig
<1> QED
  BY <1>1, <1>2, <1>3, <1>4, <1>5, <1>6, <1>7 DEF AdminStep

LEMMA RestartInductive ==
    ASSUME IInv, Restart
    PROVE  IInv'
<1>1. /\ tabs \in [Tabs -> TabStates] /\ sessions' = {} /\ changes' = changes + 1
      /\ tabs' = [t \in Tabs |-> IF Running(t) THEN Result(tabs[t], "error") ELSE tabs[t]]
      /\ UNCHANGED <<config, cookies, starts, used>>
  BY DEF IInv, TypeOK, Restart
<1>2. ASSUME NEW t \in Tabs
      PROVE  /\ tabs'[t] \in TabStates
             /\ tabs'[t] # Away <=> tabs[t] # Away
             /\ tabs[t] # Away => /\ tabs'[t].state = tabs[t].state
                                  /\ tabs'[t].chosen = tabs[t].chosen
             /\ tabs'[t].at \notin Steps
  BY <1>1, Ends DEF Running
<1>3. TypeOK'
  <2>1. tabs' \in [Tabs -> TabStates]
    BY <1>1, <1>2
  <2> QED
    BY <1>1, <2>1 DEF IInv, TypeOK
<1>4. Drawn(tabs, cookies, starts)'
  BY <1>1, <1>2 DEF IInv, Drawn
<1>5. Stories(tabs, config, used, sessions)'
  BY <1>2 DEF Stories, Story
<1> QED
  BY <1>1, <1>3, <1>4, <1>5 DEF IInv

LEMMA Inductive == IInv /\ [Next]_signInVars => IInv'
<1> SUFFICES ASSUME IInv, [Next]_signInVars PROVE IInv'
  OBVIOUS
<1>1. ASSUME NEW t \in Tabs, TabStep(t) PROVE IInv'
  BY <1>1, StartInductive, ReturnInductive, CallbackInductive, CallbackFailsInductive,
     ExchangeInductive, FetchProfileInductive, FetchGroupsInductive, ResolveRoleInductive,
     CreateInductive, IssueInductive DEF TabStep
<1>2. CASE UNCHANGED signInVars
  BY <1>2 DEF signInVars, IInv, TypeOK, Drawn, Stories
<1> QED
  BY <1>1, <1>2, CookieInductive, AdminInductive, RestartInductive DEF Next

LEMMA Invariant == Spec => []IInv
BY Initially, Inductive, PTL DEF Spec

\* Every variable has its type.
THEOREM TypeCorrect == Spec => []TypeOK
<1>1. IInv => TypeOK
  BY DEF IInv
<1> QED
  BY <1>1, Invariant, PTL

\* No sign-in is served for another provider than its own (authOIDCCallback and the
\* state cookies), for any number of tabs and sign-ins under way.
THEOREM SignInAlwaysReachesItsProvider == Spec => SignInReachesItsProvider
<1>1. ASSUME IInv, NEW t \in Tabs, Callback(t)
      PROVE  LET u == tabs[t]
             IN  IF u.code # NoCode /\ cookies[u.chosen] = u.state
                 THEN tabs'[t].at = "exchange" /\ tabs'[t].source = u.chosen
                 ELSE ~Running(t)'
  <2> DEFINE u == tabs[t]
             p == CallbackProvider(u)
  <2>1. u \in Returned /\ u # Away
    BY <1>1, TabFacts DEF IInv, TypeOK, Callback, Away
  <2>2. /\ u.state # NoState /\ u.chosen \in Providers
        /\ \A q \in Providers : cookies[q] = u.state => q = u.chosen
    BY <1>1, <2>1, SignInAssumption DEF Returned, IInv, Drawn
  <2>3. ValidCallback(u, p) <=> u.code # NoCode /\ cookies[u.chosen] = u.state
    BY <2>2 DEF ValidCallback, CallbackProvider, Providers
  <2>4. ValidCallback(u, p) => p = u.chosen
    BY <2>2 DEF ValidCallback, CallbackProvider, Providers
  <2>5. tabs \in [Tabs -> TabStates]
    BY <1>1 DEF IInv, TypeOK
  <2>6. CASE ValidCallback(u, p)
    <3>1. tabs'[t].at = "exchange" /\ tabs'[t].source = p
      BY <1>1, <2>5, <2>6 DEF Callback, Go
    <3> QED
      BY <2>3, <2>4, <2>6, <3>1
  <2>7. CASE ~ValidCallback(u, p)
    <3>1. tabs'[t].at = "returned"
      BY <1>1, <2>5, <2>7 DEF Callback, Go, Result
    <3> QED
      BY <2>3, <2>7, <3>1 DEF Running, Steps
  <2> QED
    BY <2>6, <2>7
<1>2. IInv /\ [Next]_signInVars
      => [\A t \in Tabs :
            Callback(t) =>
              LET u == tabs[t]
              IN  IF u.code # NoCode /\ cookies[u.chosen] = u.state
                  THEN tabs'[t].at = "exchange" /\ tabs'[t].source = u.chosen
                  ELSE ~Running(t)']_signInVars
  BY <1>1
<1> QED
  BY <1>2, Invariant, PTL DEF Spec, SignInReachesItsProvider

\* Every session rests on one consistent story (authGoogleCallback,
\* authExternalOIDCCallback, CreateExternalSession), whatever administrators change
\* between the reads of a callback and between the last of them and the issue.
THEOREM SessionsAlwaysWellFounded == Spec => SessionWellFounded
<1>1. ASSUME IInv, NEW t \in Tabs, sessions' # sessions, IssueExternalSession(t)
      PROVE  LET u == tabs[t]
             IN  /\ u.source = u.chosen
                 /\ u.issuer = u.setting.issuer
                 /\ u.source = "google" => u.code \notin Unverified
                 /\ u.setting.hosted => u.code \notin Outsiders
                 /\ u.stood
                 /\ \E g \in Groups : /\ <<g, u.role>> \in u.mapped
                                      /\ \/ g \in Directory[u.code]
                                         \/ g \in GroupsClaim(u.code)
                 /\ \A s \in sessions : s.state # u.state
  <2> DEFINE u == tabs[t]
  <2>1. u.at = "issue" /\ u.at \in Steps
    BY <1>1 DEF IssueExternalSession, At, Steps
  <2>2. u \in Served /\ Story(u, config, used, sessions)
    BY <1>1, <2>1, Under
  <2>4. /\ u.source = u.chosen /\ u.issuer = u.setting.issuer
        /\ u.source = "google" => u.code \notin Unverified
        /\ u.setting.hosted => u.code \notin Outsiders
        /\ u.groups \subseteq Directory[u.code] \cup GroupsClaim(u.code)
        /\ u.stood
        /\ \A s \in sessions : s.state # u.state
    BY <2>1, <2>2 DEF Story
  <2>5. PICK g \in u.groups : <<g, u.role>> \in u.mapped
    BY <2>1, <2>2 DEF Story
  <2>6. g \in Groups
    BY <2>2, <2>5 DEF Served
  <2> QED
    BY <2>4, <2>5, <2>6
<1>2. IInv /\ [Next]_signInVars
      => [\A t \in Tabs :
            sessions' # sessions /\ IssueExternalSession(t) =>
              LET u == tabs[t]
              IN  /\ u.source = u.chosen
                  /\ u.issuer = u.setting.issuer
                  /\ u.source = "google" => u.code \notin Unverified
                  /\ u.setting.hosted => u.code \notin Outsiders
                  /\ u.stood
                  /\ \E g \in Groups : /\ <<g, u.role>> \in u.mapped
                                       /\ \/ g \in Directory[u.code]
                                          \/ g \in GroupsClaim(u.code)
                  /\ \A s \in sessions : s.state # u.state]_signInVars
  BY <1>1
<1> QED
  BY <1>2, Invariant, PTL DEF Spec, SessionWellFounded

=============================================================================
