-------------------------- MODULE IntegrationProofs --------------------------
(***************************************************************************)
(* The integration's connections and its entry.  A call is answered by the *)
(* add-on it names, in its caller's name, for any number of calls, users   *)
(* and add-ons (the first half).  For any number of config flows there is  *)
(* one entry, its API follows it, and the file tools accept what its user  *)
(* chose last, whatever the file name (the second).                        *)
(***************************************************************************)
EXTENDS Connection, MCEntryLifecycle, Recursion


----------------------------------------------------------------------------
(* Connections: the inductive invariant *)

\* A target is filed under its own add-on.
CacheInv == \A k \in Names : cache[k] # NoTarget => cache[k].addon = k

\* What a call holds in each of its phases.
CallOK(r) ==
    /\ r.pc \in {"info", "arriving", "session", "request", "ping", "ok"} =>
         r.slug \in Addon /\ r.asked \in {NoAddon, r.slug}
    /\ r.pc \in {"arriving", "session", "request", "ping", "ok"} =>
         r.target # NoTarget /\ r.target.addon = r.slug
    /\ r.pc = "list" => r.asked = NoAddon
    /\ r.pc = "session" => r.user # NoUser
    /\ r.pc \in {"request", "ping", "ok"} /\ r.target.proxied =>
         r.session = r.user /\ r.user # NoUser
CallInv == \A c \in Call : CallOK(call[c])

IInv == TypeOK /\ CacheInv /\ CallInv

----------------------------------------------------------------------------
(* Lemmas *)

\* A call that goes on with a good record leaves all calls good.
LEMMA SetKeeps ==
    ASSUME TypeOK, CallInv, NEW c \in Call, NEW r \in Calls, CallOK(r), Set(c, r)
    PROVE  /\ addon' \in [Addon -> Addons] /\ changes' \in 0..MaxChanges
           /\ call' \in [Call -> Calls]
           /\ CallInv'
<1>1. call' = [call EXCEPT ![c] = r]
  BY DEF Set
<1>2. call' \in [Call -> Calls]
  BY <1>1 DEF TypeOK
<1>3. ASSUME NEW d \in Call PROVE CallOK(call'[d])
  <2>1. call'[d] = IF d = c THEN r ELSE call[d]
    BY <1>1 DEF TypeOK
  <2> QED BY <2>1 DEF CallInv
<1>4. addon' \in [Addon -> Addons] /\ changes' \in 0..MaxChanges
  BY DEF Set, TypeOK
<1> QED BY <1>2, <1>3, <1>4 DEF CallInv, CallOK

\* A target found or fetched for the slug opens into a good record.
LEMMA OpeningOK ==
    ASSUME NEW r \in Calls, NEW t \in Targets, NEW slug \in Addon, t.addon = slug,
           r.asked \in {NoAddon, slug}, r.slug = slug, r.target = t
    PROVE  LET s == [r EXCEPT !.pc = Opening(r, t)] IN s \in Calls /\ CallOK(s)
<1> DEFINE s == [r EXCEPT !.pc = Opening(r, t)]
<1>1. t.proxied \in BOOLEAN
  BY DEF Targets
<1>2. Opening(r, t) \in {"request", "error", "session"}
  BY DEF Opening
<1>3. s \in Calls
  BY <1>2 DEF Calls, Phases
<1>4. /\ s.slug = slug /\ s.asked = r.asked /\ s.target = t /\ s.user = r.user
      /\ s.pc = Opening(r, t)
  BY DEF Calls
<1>5. t # NoTarget
  BY NoTargetDistinct
<1>6. CallOK(s)
  BY <1>1, <1>4, <1>5 DEF CallOK, Opening
<1> QED BY <1>3, <1>6

\* With the add-on known, the cache serves its own target or none.
LEMMA LookUpKeeps ==
    ASSUME IInv, NEW c \in Call, NEW r \in Calls, NEW slug \in Addon,
           r.asked \in {NoAddon, slug}, LookUp(c, r, slug), UNCHANGED cache
    PROVE  IInv'
<1> DEFINE t == cache[slug]
           s == [r EXCEPT !.slug = slug, !.target = t,
                          !.pc = IF t = NoTarget THEN "info" ELSE Opening(r, t)]
<1>1. t \in Targets \cup {NoTarget} /\ slug \in Names
  BY DEF IInv, TypeOK, Names
<1>2. s \in Calls /\ CallOK(s)
  <2>1. CASE t = NoTarget
    <3>1. s = [r EXCEPT !.slug = slug, !.target = t, !.pc = "info"]
      BY <2>1
    <3>2. s \in Calls
      BY <1>1, <3>1 DEF Calls, Phases
    <3>3. s.pc = "info" /\ s.slug = slug /\ s.asked = r.asked
      BY <3>1 DEF Calls
    <3> QED BY <3>2, <3>3 DEF CallOK
  <2>2. CASE t # NoTarget
    <3> DEFINE q == [r EXCEPT !.slug = slug, !.target = t]
    <3>1. t \in Targets /\ t.addon = slug
      BY <1>1, <2>2 DEF IInv, CacheInv
    <3>2. q \in Calls /\ q.asked = r.asked /\ q.slug = slug /\ q.target = t
      BY <1>1 DEF Calls
    <3>3. Opening(q, t) = Opening(r, t)
      BY DEF Opening, Calls
    <3>4. s = [q EXCEPT !.pc = Opening(q, t)]
      BY <2>2, <3>3 DEF Calls
    <3>5. [q EXCEPT !.pc = Opening(q, t)] \in Calls /\ CallOK([q EXCEPT !.pc = Opening(q, t)])
      BY <3>1, <3>2, OpeningOK
    <3> QED BY <3>4, <3>5
  <2> QED BY <2>1, <2>2
<1>3. Set(c, s)
  BY DEF LookUp, Key
<1> HIDE DEF s
<1>4. /\ addon' \in [Addon -> Addons] /\ changes' \in 0..MaxChanges
      /\ call' \in [Call -> Calls] /\ CallInv'
  BY <1>2, <1>3, SetKeeps DEF IInv
<1> QED BY <1>4 DEF IInv, TypeOK, CacheInv

----------------------------------------------------------------------------
(* Preservation *)

LEMMA Initially == Init => IInv
<1> SUFFICES ASSUME Init PROVE IInv
  OBVIOUS
<1>1. Idle \in Calls /\ CallOK(Idle)
  BY DEF Idle, Calls, Phases, Names, CallOK
<1>2. call \in [Call -> Calls] /\ CallInv
  BY <1>1 DEF Init, CallInv
<1>3. cache \in [Names -> Targets \cup {NoTarget}] /\ CacheInv
  BY DEF Init, CacheInv
<1>4. addon \in [Addon -> Addons] /\ changes \in 0..MaxChanges
  <2>1. Absent \in Addons
    BY DEF Absent, Addons
  <2>2. ASSUME NEW a \in Installed PROVE a \in Addons
    <3>1. {1} \subseteq Nat /\ {TRUE} \subseteq BOOLEAN
      OBVIOUS
    <3>2. /\ a = [install |-> a.install, present |-> a.present, proxied |-> a.proxied,
                  running |-> a.running]
          /\ a.install \in {1} /\ a.present \in {TRUE}
          /\ a.proxied \in BOOLEAN /\ a.running \in BOOLEAN
      BY DEF Installed
    <3> QED BY <3>1, <3>2 DEF Addons
  <2> QED BY <2>1, <2>2, ChangesNatural DEF Init
<1> QED BY <1>2, <1>3, <1>4 DEF IInv, TypeOK

\* The add-ons may do what they like: neither the cache nor the calls move.
LEMMA ChangeKeeps ==
    ASSUME IInv, NEW a \in Addon, NEW moved \in Addons, Change(a, moved)
    PROVE  IInv'
<1>1. addon' \in [Addon -> Addons]
  BY DEF IInv, TypeOK, Change
<1>2. changes' \in 0..MaxChanges
  BY ChangesNatural DEF IInv, TypeOK, Change
<1>3. cache' = cache /\ call' = call
  BY DEF Change
<1> QED BY <1>1, <1>2, <1>3 DEF IInv, TypeOK, CacheInv, CallInv

\* A call begins.
LEMMA BeginKeeps ==
    ASSUME IInv, NEW c \in Call, NEW asked \in Names, NEW user \in User \cup {NoUser},
           Begin(c, asked, user)
    PROVE  IInv'
<1> DEFINE r == [Idle EXCEPT !.pc = "list", !.asked = asked, !.user = user]
<1>1. r \in Calls /\ r.pc = "list" /\ r.asked = asked
  BY DEF Idle, Calls, Phases, Names
<1>2. UNCHANGED cache
  BY DEF Begin
<1>3. CASE asked = NoAddon
  <2>1. Set(c, r)
    BY <1>3 DEF Begin
  <2>2. CallOK(r)
    BY <1>1, <1>3 DEF CallOK
  <2> HIDE DEF r
  <2>3. /\ addon' \in [Addon -> Addons] /\ changes' \in 0..MaxChanges
        /\ call' \in [Call -> Calls] /\ CallInv'
    BY <1>1, <2>1, <2>2, SetKeeps DEF IInv
  <2> QED BY <1>2, <2>3 DEF IInv, TypeOK, CacheInv
<1>4. CASE asked # NoAddon
  <2>1. LookUp(c, r, asked) /\ asked \in Addon
    BY <1>4 DEF Begin, Names
  <2> HIDE DEF r
  <2> QED BY <1>1, <1>2, <2>1, LookUpKeeps
<1> QED BY <1>3, <1>4

\* The default is one of the add-ons the Supervisor knows.
LEMMA ListedKeeps ==
    ASSUME IInv, NEW c \in Call, Listed(c)
    PROVE  IInv'
<1>1. call[c] \in Calls /\ UNCHANGED cache
  BY DEF IInv, TypeOK, Listed
<1>2. CASE Set(c, [call[c] EXCEPT !.pc = "error"])
  <2> DEFINE s == [call[c] EXCEPT !.pc = "error"]
  <2>1. s \in Calls /\ CallOK(s)
    BY <1>1 DEF Calls, Phases, CallOK
  <2>2. /\ addon' \in [Addon -> Addons] /\ changes' \in 0..MaxChanges
        /\ call' \in [Call -> Calls] /\ CallInv'
    BY <1>2, <2>1, SetKeeps DEF IInv
  <2> QED BY <1>1, <2>2 DEF IInv, TypeOK, CacheInv
<1>3. ASSUME NEW a \in Addon, LookUp(c, call[c], a), call[c].asked = NoAddon PROVE IInv'
  BY <1>1, <1>3, LookUpKeeps
<1>4. call[c].asked = NoAddon
  BY DEF Listed, IInv, CallInv, CallOK
<1> QED BY <1>2, <1>3, <1>4 DEF Listed

\* The Supervisor's answer is about the add-on it was asked for.
LEMMA InfoAnsweredKeeps ==
    ASSUME IInv, NEW c \in Call, InfoAnswered(c)
    PROVE  IInv'
<1> DEFINE a == call[c].slug
           t == [addon |-> a, install |-> addon[a].install, proxied |-> addon[a].proxied]
           s == IF addon[a].present
                THEN [call[c] EXCEPT !.pc = "arriving", !.target = t]
                ELSE [call[c] EXCEPT !.pc = "error"]
<1>1. call[c] \in Calls /\ call[c].pc = "info" /\ UNCHANGED cache /\ Set(c, s)
  BY DEF IInv, TypeOK, InfoAnswered
<1>2. a \in Addon /\ call[c].asked \in {NoAddon, a}
  BY <1>1 DEF IInv, CallInv, CallOK
<1>3. t \in Targets /\ t # NoTarget /\ t.addon = a
  BY <1>2, NoTargetDistinct DEF IInv, TypeOK, Addons, Targets
<1> HIDE DEF t
<1>4. s \in Calls /\ CallOK(s)
  <2>1. CASE addon[a].present
    <3>1. s = [call[c] EXCEPT !.pc = "arriving", !.target = t]
      BY <2>1
    <3>2. s \in Calls
      BY <1>1, <1>3, <3>1 DEF Calls, Phases
    <3>3. s.pc = "arriving" /\ s.slug = a /\ s.asked = call[c].asked /\ s.target = t
      BY <1>1, <3>1 DEF Calls
    <3> QED BY <1>2, <1>3, <3>2, <3>3 DEF CallOK
  <2>2. CASE ~addon[a].present
    BY <1>1, <2>2 DEF Calls, Phases, CallOK
  <2> QED BY <2>1, <2>2
<1> HIDE DEF s
<1>5. /\ addon' \in [Addon -> Addons] /\ changes' \in 0..MaxChanges
      /\ call' \in [Call -> Calls] /\ CallInv'
  BY <1>1, <1>4, SetKeeps DEF IInv
<1> QED BY <1>1, <1>5 DEF IInv, TypeOK, CacheInv

\* What is cached is the target of the slug it is filed under.
LEMMA InfoArrivesKeeps ==
    ASSUME IInv, NEW c \in Call, InfoArrives(c)
    PROVE  IInv'
<1> DEFINE r == call[c]
           s == [r EXCEPT !.pc = Opening(r, r.target)]
<1>1. r \in Calls /\ r.pc = "arriving" /\ Set(c, s)
  BY DEF IInv, TypeOK, InfoArrives
<1>2. /\ r.slug \in Addon /\ r.asked \in {NoAddon, r.slug}
      /\ r.target # NoTarget /\ r.target.addon = r.slug
  BY <1>1 DEF IInv, CallInv, CallOK
<1>3. r.target \in Targets
  BY <1>1, <1>2 DEF Calls
<1>4. s \in Calls /\ CallOK(s)
  BY <1>1, <1>2, <1>3, OpeningOK
<1>5. cache' = [cache EXCEPT ![r.slug] = r.target]
  BY DEF InfoArrives, Key, Cached
<1>6. cache' \in [Names -> Targets \cup {NoTarget}] /\ CacheInv'
  BY <1>2, <1>3, <1>5 DEF IInv, TypeOK, CacheInv, Names
<1> HIDE DEF s
<1>7. /\ addon' \in [Addon -> Addons] /\ changes' \in 0..MaxChanges
      /\ call' \in [Call -> Calls] /\ CallInv'
  BY <1>1, <1>4, SetKeeps DEF IInv
<1> QED BY <1>6, <1>7 DEF IInv, TypeOK

\* A session is opened in the caller's name.
LEMMA SessionOpensKeeps ==
    ASSUME IInv, NEW c \in Call, SessionOpens(c)
    PROVE  IInv'
<1> DEFINE r == call[c]
           s == [r EXCEPT !.pc = "request", !.session = Session(c)]
<1>1. r \in Calls /\ r.pc = "session" /\ UNCHANGED cache /\ Set(c, s)
  BY DEF IInv, TypeOK, SessionOpens
<1>2. s = [r EXCEPT !.pc = "request", !.session = r.user]
  BY DEF Session
<1>3. s \in Calls
  BY <1>1, <1>2 DEF Calls, Phases
<1>4. /\ s.pc = "request" /\ s.session = r.user /\ s.user = r.user
      /\ s.slug = r.slug /\ s.asked = r.asked /\ s.target = r.target
  BY <1>1, <1>2 DEF Calls
<1>5. CallOK(s)
  BY <1>1, <1>4 DEF IInv, CallInv, CallOK
<1> HIDE DEF s
<1>6. /\ addon' \in [Addon -> Addons] /\ changes' \in 0..MaxChanges
      /\ call' \in [Call -> Calls] /\ CallInv'
  BY <1>1, <1>3, <1>5, SetKeeps DEF IInv
<1> QED BY <1>1, <1>6 DEF IInv, TypeOK, CacheInv

\* A call that is answered or fails keeps what it holds.
LEMMA EndKeeps ==
    ASSUME IInv, NEW c \in Call, Answered(c) \/ Pinged(c) \/ Fails(c) \/ TimesOut(c)
    PROVE  IInv'
<1> DEFINE r == call[c]
<1>1. r \in Calls /\ UNCHANGED cache
  BY DEF IInv, TypeOK, Answered, Pinged, Fails, TimesOut
<1>2. PICK next \in {"ping", "ok", "error", "raised"} :
        /\ Set(c, [r EXCEPT !.pc = next])
        /\ next \in {"ping", "ok"} => r.pc \in {"request", "ping"}
  BY DEF Answered, Pinged, Fails, TimesOut
<1> DEFINE s == [r EXCEPT !.pc = next]
<1>3. s \in Calls
  BY <1>1 DEF Calls, Phases
<1>4. CallOK(s)
  BY <1>1, <1>2 DEF IInv, CallInv, CallOK, Calls
<1>5. Set(c, s)
  BY <1>2
<1> HIDE DEF s
<1>6. /\ addon' \in [Addon -> Addons] /\ changes' \in 0..MaxChanges
      /\ call' \in [Call -> Calls] /\ CallInv'
  BY <1>3, <1>4, <1>5, SetKeeps DEF IInv
<1> QED BY <1>1, <1>6 DEF IInv, TypeOK, CacheInv

\* Restarting leaves an empty cache and no call.
LEMMA RestartKeeps ==
    ASSUME IInv, Restart
    PROVE  IInv'
<1>1. Idle \in Calls /\ CallOK(Idle)
  BY DEF Idle, Calls, Phases, Names, CallOK
<1>2. call' \in [Call -> Calls] /\ CallInv'
  BY <1>1 DEF Restart, CallInv, CallOK
<1>3. cache' \in [Names -> Targets \cup {NoTarget}] /\ CacheInv'
  BY DEF Restart, CacheInv
<1> QED BY <1>2, <1>3 DEF Restart, IInv, TypeOK

LEMMA Inductive == IInv /\ [Next]_vars => IInv'
<1> SUFFICES ASSUME IInv, [Next]_vars PROVE IInv'
  OBVIOUS
<1>1. ASSUME NEW a \in Addon, NEW p \in BOOLEAN, Install(a, p) PROVE IInv'
  <2> DEFINE moved == [install |-> addon[a].install + 1, present |-> TRUE, proxied |-> p,
                       running |-> FALSE]
  <2>1. Change(a, moved)
    BY <1>1 DEF Install
  <2>2. moved \in Addons
    BY <1>1 DEF IInv, TypeOK, Addons, Install, Change
  <2> QED BY <2>1, <2>2, ChangeKeeps
<1>2. ASSUME NEW a \in Addon, Uninstall(a) \/ StartOrStop(a) \/ Update(a) PROVE IInv'
  <2>1. addon[a] \in Addons
    BY DEF IInv, TypeOK
  <2>2. PICK moved \in Addons : Change(a, moved)
    BY <1>2, <2>1 DEF Addons, Uninstall, StartOrStop, Update
  <2> QED BY <2>2, ChangeKeeps
<1>3. ASSUME NEW c \in Call, NEW asked \in Names, NEW user \in User \cup {NoUser},
             Begin(c, asked, user)
      PROVE  IInv'
  BY <1>3, BeginKeeps
<1>4. ASSUME NEW c \in Call,
             \/ Listed(c) \/ InfoAnswered(c) \/ InfoArrives(c)
             \/ SessionOpens(c) \/ Answered(c) \/ Pinged(c) \/ Fails(c) \/ TimesOut(c)
      PROVE  IInv'
  BY <1>4, ListedKeeps, InfoAnsweredKeeps, InfoArrivesKeeps, SessionOpensKeeps, EndKeeps
<1>5. CASE Restart
  BY <1>5, RestartKeeps
<1>6. CASE UNCHANGED vars
  BY <1>6 DEF vars, IInv, TypeOK, CacheInv, CallInv
<1> QED BY <1>1, <1>2, <1>3, <1>4, <1>5, <1>6 DEF Next

----------------------------------------------------------------------------
(* Theorems *)

\* The invariant holds in every state.
THEOREM Invariant == Spec => []IInv
<1> QED BY Initially, Inductive, PTL DEF Spec

\* Every variable keeps the shape the code gives it.
THEOREM TypeCorrect == Spec => []TypeOK
<1>1. IInv => TypeOK
  BY DEF IInv
<1> QED BY <1>1, Invariant, PTL

\* A call is answered by the add-on it names, the one it was asked for.
THEOREM AnswersFromRightAddon == Spec => []RightAddon
<1>1. IInv => RightAddon
  BY DEF IInv, CallInv, CallOK, RightAddon
<1> QED BY <1>1, Invariant, PTL

\* A proxied dashboard is asked with a session of the caller's own.
THEOREM AlwaysAsCaller == Spec => []MadeAsCaller
<1>1. IInv => MadeAsCaller
  BY DEF IInv, CallInv, CallOK, MadeAsCaller
<1> QED BY <1>1, Invariant, PTL


----------------------------------------------------------------------------
(* The entry: the inductive invariant *)

\* Who unregisters the API: with a callback, the loaded entry that registered it.
ApiInv ==
    /\ \A e \in Entry : state[e] # "setup_error"
    /\ on_unload \subseteq Loaded
    /\ Loaded # {} => registered
    /\ callback /\ registered => on_unload # {}

\* The present entry stores the user's last choice.
WishInv == \A e \in Present : Effective(e) = wish

\* Only a loaded entry has a listener to be run.
ScheduledInv == scheduled \subseteq Loaded

EntryInv == EntryTypeOK /\ SingleEntry /\ ApiInv /\ WishInv /\ ScheduledInv /\ LastChoiceInForce

----------------------------------------------------------------------------
(* The entry: preservation *)

USE DEF Value, States

LEMMA EntryInitially == EntryInit => EntryInv
<1> SUFFICES ASSUME EntryInit PROVE EntryInv
  OBVIOUS
<1>1. Present = {} /\ Loaded = {}
  BY DEF EntryInit, Present, Loaded
<1>2. EntryTypeOK
  <2>1. callback \in BOOLEAN /\ wish \in BOOLEAN /\ registered \in BOOLEAN
    BY Zenon DEF EntryInit
  <2> QED BY <2>1 DEF EntryInit, EntryTypeOK
<1>3. SingleEntry /\ WishInv /\ LastChoiceInForce
  BY <1>1 DEF SingleEntry, WishInv, LastChoiceInForce
<1>4. ApiInv /\ ScheduledInv
  BY <1>1 DEF EntryInit, ApiInv, ScheduledInv
<1> QED BY <1>2, <1>3, <1>4 DEF EntryInv

\* What the file tools read once the entry's option has been stored.
LEMMA StoredIsWished ==
    ASSUME EntryInv, NEW e \in Present, allow_extra' = Effective(e), UNCHANGED wish
    PROVE  AllowExtra' = wish'
  BY DEF EntryInv, EntryTypeOK, WishInv, AllowExtra

\* A flow only makes an entry where there is none.
LEMMA FlowSubmittedKeeps ==
    ASSUME EntryInv, NEW f \in Flow, NEW choice \in BOOLEAN, FlowSubmitted(f, choice)
    PROVE  EntryInv'
<1>1. CASE AlreadyExists /\ UNCHANGED <<state, data, options, wish>>
  <2>1. /\ flow' = [flow EXCEPT ![f] = "none"]
        /\ UNCHANGED <<callback, state, data, options, scheduled, registered, on_unload,
                       allow_extra, wish>>
    BY <1>1 DEF FlowSubmitted
  <2>2. EntryTypeOK'
    BY <2>1 DEF EntryInv, EntryTypeOK
  <2>3. /\ Present' = Present /\ Loaded' = Loaded
        /\ \A e \in Entry : Effective(e)' = Effective(e)
    BY <2>1 DEF Present, Loaded, Effective
  <2>4. ApiInv' /\ ScheduledInv' /\ SingleEntry' /\ WishInv' /\ LastChoiceInForce'
    BY <2>1, <2>3 DEF EntryInv, ApiInv, ScheduledInv, SingleEntry, WishInv, LastChoiceInForce,
                      AllowExtra, Present
  <2> QED BY <2>2, <2>4 DEF EntryInv
<1>2. CASE ~AlreadyExists
  <2>1. PICK e \in Entry :
          /\ state[e] = "absent"
          /\ state' = [state EXCEPT ![e] = "not_loaded"]
          /\ data' = [data EXCEPT ![e] = choice]
          /\ options' = [options EXCEPT ![e] = Unset]
    BY <1>2 DEF FlowSubmitted
  <2>2. Present = {} /\ Loaded = {} /\ wish' = choice
    BY <1>2 DEF FlowSubmitted, AlreadyExists, Present, Loaded
  <2>3. Present' = {e} /\ Loaded' = {}
    BY <2>1, <2>2 DEF EntryInv, EntryTypeOK, Present, Loaded
  <2>4. Effective(e)' = choice
    BY <2>1, UnsetDistinct DEF EntryInv, EntryTypeOK, Effective
  <2>5. EntryTypeOK'
    BY <2>1, <2>2 DEF FlowSubmitted, EntryInv, EntryTypeOK
  <2>6. SingleEntry' /\ WishInv' /\ LastChoiceInForce'
    BY <2>2, <2>3, <2>4 DEF SingleEntry, WishInv, LastChoiceInForce
  <2>7. ApiInv' /\ ScheduledInv'
    BY <2>1, <2>2, <2>3 DEF FlowSubmitted, EntryInv, EntryTypeOK, ApiInv, ScheduledInv
  <2> QED BY <2>5, <2>6, <2>7 DEF EntryInv
<1> QED BY <1>1, <1>2 DEF FlowSubmitted

LEMMA SetUpKeeps ==
    ASSUME EntryInv, NEW e \in Entry, SetUp(e)
    PROVE  EntryInv'
<1>1. state' = [state EXCEPT ![e] = "loaded"]
  BY DEF SetUp, FoundRegistered
<1>2. e \in Present /\ Present' = Present /\ Loaded' = Loaded \cup {e}
  BY <1>1 DEF SetUp, EntryInv, EntryTypeOK, Present, Loaded
<1>3. \A d \in Entry : Effective(d)' = Effective(d)
  BY DEF SetUp, Effective
<1>4. Effective(e) \in Value
  BY DEF EntryInv, EntryTypeOK, Effective
<1>5. EntryTypeOK'
  BY <1>1, <1>4 DEF SetUp, EntryInv, EntryTypeOK
<1>6. ApiInv'
  BY <1>1, <1>2 DEF SetUp, EntryInv, EntryTypeOK, ApiInv, FoundRegistered, HasCallback
<1>7. SingleEntry' /\ WishInv' /\ ScheduledInv'
  BY <1>2, <1>3 DEF SetUp, EntryInv, SingleEntry, WishInv, ScheduledInv, Present
<1>8. LastChoiceInForce'
  BY <1>2, StoredIsWished DEF SetUp, LastChoiceInForce
<1> QED BY <1>5, <1>6, <1>7, <1>8 DEF EntryInv

\* The one loaded entry takes with it the API that it registered.
LEMMA UnloadKeeps ==
    ASSUME EntryInv, NEW e \in Entry, Unload(e)
    PROVE  EntryInv'
<1>1. Present' = Present /\ Loaded = {e} /\ Loaded' = {}
  BY DEF Unload, EntryInv, EntryTypeOK, SingleEntry, Present, Loaded
<1>2. \A d \in Entry : Effective(d)' = Effective(d)
  BY DEF Unload, Effective
<1>3. EntryTypeOK'
  BY DEF Unload, EntryInv, EntryTypeOK
<1>4. ApiInv'
  BY <1>1 DEF Unload, EntryInv, EntryTypeOK, ApiInv
<1>5. SingleEntry' /\ WishInv' /\ ScheduledInv' /\ LastChoiceInForce'
  BY <1>1, <1>2 DEF Unload, EntryInv, SingleEntry, WishInv, ScheduledInv, LastChoiceInForce, Present
<1> QED BY <1>3, <1>4, <1>5 DEF EntryInv

LEMMA RemoveKeeps ==
    ASSUME EntryInv, NEW e \in Entry, Remove(e)
    PROVE  EntryInv'
<1>1. Present' = Present \ {e} /\ Loaded' = Loaded
  BY DEF Remove, EntryInv, EntryTypeOK, Present, Loaded
<1>2. \A d \in Entry : Effective(d)' = Effective(d)
  BY DEF Remove, Effective
<1>3. EntryTypeOK' /\ ApiInv'
  BY <1>1 DEF Remove, EntryInv, EntryTypeOK, ApiInv
<1>4. SingleEntry' /\ WishInv' /\ ScheduledInv' /\ LastChoiceInForce'
  BY <1>1, <1>2 DEF Remove, EntryInv, SingleEntry, WishInv, ScheduledInv, LastChoiceInForce,
                    AllowExtra, Present
<1> QED BY <1>3, <1>4 DEF EntryInv

\* A choice that changes nothing is in force already; another one has its
\* listener scheduled, if the entry is loaded.
LEMMA OptionsSubmittedKeeps ==
    ASSUME EntryInv, NEW e \in Entry, NEW choice \in BOOLEAN, OptionsSubmitted(e, choice)
    PROVE  EntryInv'
<1>1. Present' = Present /\ Loaded' = Loaded /\ e \in Present
  BY DEF OptionsSubmitted, Present, Loaded
<1>2. Present = {e} /\ Loaded \subseteq {e}
  BY <1>1 DEF EntryInv, SingleEntry, Present, Loaded
<1>3. Effective(e)' = choice
  BY UnsetDistinct DEF OptionsSubmitted, EntryInv, EntryTypeOK, Effective
<1>4. EntryTypeOK'
  BY DEF OptionsSubmitted, Listeners, EntryInv, EntryTypeOK, Loaded
<1>5. ApiInv' /\ ScheduledInv' /\ SingleEntry'
  BY <1>1 DEF OptionsSubmitted, Listeners, EntryInv, ApiInv, ScheduledInv, SingleEntry
<1>6. WishInv'
  BY <1>1, <1>2, <1>3 DEF OptionsSubmitted, WishInv
<1>7. LastChoiceInForce'
  <2>1. CASE options[e] = choice
    <3>1. Effective(e) = choice
      BY <2>1, UnsetDistinct DEF Effective
    <3>2. wish = choice /\ wish' = choice
      BY <1>1, <3>1 DEF OptionsSubmitted, EntryInv, WishInv
    <3> QED BY <1>1, <2>1, <3>2 DEF OptionsSubmitted, EntryInv, LastChoiceInForce, AllowExtra
  <2>2. CASE options[e] # choice
    BY <1>1, <1>2, <2>2 DEF OptionsSubmitted, Listeners, LastChoiceInForce
  <2> QED BY <2>1, <2>2
<1> QED BY <1>4, <1>5, <1>6, <1>7 DEF EntryInv

LEMMA OptionsUpdatedKeeps ==
    ASSUME EntryInv, NEW e \in Entry, OptionsUpdated(e)
    PROVE  EntryInv'
<1>1. Present' = Present /\ Loaded' = Loaded /\ e \in Present
  BY DEF OptionsUpdated, EntryInv, ScheduledInv, Present, Loaded
<1>2. \A d \in Entry : Effective(d)' = Effective(d)
  BY DEF OptionsUpdated, Effective
<1>3. EntryTypeOK'
  BY DEF OptionsUpdated, EntryInv, EntryTypeOK, Effective
<1>4. ApiInv' /\ ScheduledInv' /\ SingleEntry' /\ WishInv'
  BY <1>1, <1>2 DEF OptionsUpdated, EntryInv, ApiInv, ScheduledInv, SingleEntry, WishInv, Present
<1>5. LastChoiceInForce'
  BY <1>1, StoredIsWished DEF OptionsUpdated, LastChoiceInForce
<1> QED BY <1>3, <1>4, <1>5 DEF EntryInv

LEMMA EntryRestartKeeps ==
    ASSUME EntryInv, EntryRestart
    PROVE  EntryInv'
<1>1. Present' = Present /\ Loaded' = {}
  BY DEF EntryRestart, EntryInv, EntryTypeOK, Present, Loaded
<1>2. \A d \in Entry : Effective(d)' = Effective(d)
  BY DEF EntryRestart, Effective
<1>3. EntryTypeOK'
  <2>1. callback' \in BOOLEAN /\ registered' \in BOOLEAN
    BY Zenon DEF EntryRestart
  <2> QED BY <2>1 DEF EntryRestart, EntryInv, EntryTypeOK
<1>4. ApiInv'
  BY <1>1 DEF EntryRestart, EntryInv, EntryTypeOK, ApiInv
<1>5. SingleEntry' /\ WishInv' /\ ScheduledInv' /\ LastChoiceInForce'
  BY <1>1, <1>2 DEF EntryRestart, EntryInv, SingleEntry, WishInv, ScheduledInv, LastChoiceInForce, Present
<1> QED BY <1>3, <1>4, <1>5 DEF EntryInv

LEMMA EntryInductive == EntryInv /\ [EntryNext]_entry_vars => EntryInv'
<1> SUFFICES ASSUME EntryInv, [EntryNext]_entry_vars PROVE EntryInv'
  OBVIOUS
<1>1. ASSUME NEW f \in Flow, FlowOpens(f) PROVE EntryInv'
  BY <1>1 DEF FlowOpens, EntryInv, EntryTypeOK, SingleEntry, ApiInv, WishInv, ScheduledInv,
              LastChoiceInForce, Present, Loaded, Effective, AllowExtra
<1>2. ASSUME NEW f \in Flow, NEW choice \in BOOLEAN, FlowSubmitted(f, choice) PROVE EntryInv'
  BY <1>2, FlowSubmittedKeeps
<1>3. ASSUME NEW e \in Entry,
             SetUp(e) \/ Unload(e) \/ Remove(e) \/ OptionsUpdated(e)
      PROVE  EntryInv'
  BY <1>3, SetUpKeeps, UnloadKeeps, RemoveKeeps, OptionsUpdatedKeeps
<1>4. ASSUME NEW e \in Entry, NEW choice \in BOOLEAN, OptionsSubmitted(e, choice) PROVE EntryInv'
  BY <1>4, OptionsSubmittedKeeps
<1>5. CASE EntryRestart
  BY <1>5, EntryRestartKeeps
<1>6. CASE UNCHANGED entry_vars
  <2>1. EntryTypeOK'
    BY <1>6, Zenon DEF entry_vars, EntryInv, EntryTypeOK
  <2>2. SingleEntry' /\ ApiInv' /\ WishInv' /\ ScheduledInv'
    BY <1>6, Zenon DEF entry_vars, EntryInv, SingleEntry, ApiInv, WishInv, ScheduledInv,
                Present, Loaded, Effective
  <2>3. LastChoiceInForce'
    BY <1>6, Zenon DEF entry_vars, EntryInv, LastChoiceInForce, Loaded, AllowExtra
  <2> QED BY <2>1, <2>2, <2>3 DEF EntryInv
<1> QED BY <1>1, <1>2, <1>3, <1>4, <1>5, <1>6 DEF EntryNext

----------------------------------------------------------------------------
(* The entry: theorems *)

\* The invariant holds in every state.
THEOREM EntryInvariant == EntrySpec => []EntryInv
<1> QED BY EntryInitially, EntryInductive, PTL DEF EntrySpec

\* Every variable keeps the shape the code gives it.
THEOREM EntryTypeCorrect == EntrySpec => []EntryTypeOK
<1>1. EntryInv => EntryTypeOK
  BY DEF EntryInv
<1> QED BY <1>1, EntryInvariant, PTL

\* However many flows are open at once, there is one entry.
THEOREM OneEntry == EntrySpec => []SingleEntry
<1>1. EntryInv => SingleEntry
  BY DEF EntryInv
<1> QED BY <1>1, EntryInvariant, PTL

\* The API is registered once and goes with its entry.
THEOREM ApiWithEntry == EntrySpec => []ApiFollowsEntry
<1>1. EntryInv => ApiFollowsEntry
  BY DEF EntryInv, ApiInv, ApiFollowsEntry
<1> QED BY <1>1, EntryInvariant, PTL

\* The file tools act on the user's last choice.
THEOREM ChoiceInForce == EntrySpec => []LastChoiceInForce
<1>1. EntryInv => LastChoiceInForce
  BY DEF EntryInv
<1> QED BY <1>1, EntryInvariant, PTL

----------------------------------------------------------------------------
(* File names *)

\* A name without hostile parts leads to the place that it names.
LEMMA PlaceIsName ==
    ASSUME NEW n \in Nat \ {0}, NEW name \in [1..n -> Parts], ~Hostile(name)
    PROVE  PlaceOf(name) = ConfigDir \o name
<1> DEFINE V == Parts \cup {"config", "esphome"}
           Eq(f) == f = [i \in 0..n |-> IF i = 0 THEN Start(name) ELSE Follow(f[i - 1], name[i])]
           p == CHOOSE f : Eq(f)
           g == [i \in 0..n |-> ConfigDir \o SubSeq(name, 1, i)]
<1>1. \A i \in 1..n : name[i] \in Parts \ {Empty, ".", "..", "back\\"}
  <2>1. \A i \in 1..n : name[i] \in PartsOf(name)
    BY DEF PartsOf
  <2> QED BY <2>1 DEF Hostile
<1>0. name \in Seq(V) /\ Len(name) = n
  <2> HIDE DEF V
  <2>1. Parts \subseteq V
    BY DEF V
  <2>2. \A i \in 1..n : name[i] \in V
    BY <2>1
  <2>3. name = [i \in 1..n |-> name[i]]
    OBVIOUS
  <2>4. [i \in 1..n |-> name[i]] \in Seq(V) /\ Len([i \in 1..n |-> name[i]]) = n
    BY <2>2
  <2> QED BY <2>3, <2>4
<1>2. ConfigDir \in Seq(V)
  BY DEF ConfigDir
<1> HIDE DEF V, Eq, p, g
<1>3. ASSUME NEW d \in Seq(V), NEW i \in 1..n
      PROVE  Follow(d, name[i]) = Append(d, name[i])
  BY <1>1 DEF Follow
<1>4. Start(name) = ConfigDir
  <2>1. 1 \in 1..n
    BY <1>1
  <2> QED BY <1>1, <2>1 DEF Start
<1>5. g[0] = ConfigDir
  <2>1. SubSeq(name, 1, 0) = <<>> /\ ConfigDir \o <<>> = ConfigDir /\ 0 \in 0..n
    BY <1>1, <1>2
  <2> QED BY <2>1 DEF g
<1>6. ASSUME NEW i \in 1..n
      PROVE  g[i] = Follow(g[i - 1], name[i])
  <2>1. i - 1 \in 0..n /\ i \in 0..n
    BY <1>1
  <2>2. SubSeq(name, 1, i) = Append(SubSeq(name, 1, i - 1), name[i]) /\ SubSeq(name, 1, i - 1) \in Seq(V)
        /\ name[i] \in V
    BY <1>0, <1>1
  <2>3. g[i] = Append(g[i - 1], name[i]) /\ g[i - 1] \in Seq(V)
    BY <1>2, <2>1, <2>2 DEF g
  <2> QED BY <1>3, <2>3
<1>7. Eq(g)
  <2>1. \A i \in 0..n : g[i] = IF i = 0 THEN Start(name) ELSE Follow(g[i - 1], name[i])
    <3> TAKE i \in 0..n
    <3>1. i = 0 \/ i \in 1..n
      BY <1>1
    <3> QED BY <1>1, <1>4, <1>5, <1>6, <3>1
  <2>2. g = [i \in 0..n |-> g[i]]
    BY DEF g
  <2> QED BY <2>1, <2>2 DEF Eq
<1>8. Eq(p)
  BY <1>7 DEF p
<1>9. p[0] = ConfigDir /\ \A i \in 1..n : p[i] = Follow(p[i - 1], name[i])
  <2>1. 0 \in 0..n /\ \A i \in 1..n : i \in 0..n /\ i # 0
    BY <1>1
  <2> QED BY <1>4, <1>8, <2>1, Zenon DEF Eq
<1> DEFINE S == {m \in Nat : m <= n => p[m] = g[m]}
<1>10. 0 \in S
  BY <1>5, <1>9
<1>11. ASSUME NEW m \in Nat, m \in S
       PROVE  m + 1 \in S
  <2> SUFFICES ASSUME m + 1 <= n
               PROVE  p[m + 1] = g[m + 1]
    OBVIOUS
  <2>1. m + 1 \in 1..n /\ (m + 1) - 1 = m /\ p[m] = g[m]
    BY <1>1, <1>11
  <2> QED BY <1>6, <1>9, <2>1
<1>12. p[n] = g[n]
  <2>1. \A m \in Nat : m \in S
    <3> HIDE DEF S
    <3> QED BY <1>10, <1>11, Induction
  <2> QED BY <1>1, <2>1
<1>13. g[n] = ConfigDir \o name
  <2>1. SubSeq(name, 1, n) = name /\ n \in 0..n
    BY <1>0, <1>1
  <2> QED BY <2>1 DEF g
<1>14. PlaceOf(name) = p[n]
  BY <1>0 DEF PlaceOf, p, Eq
<1> QED BY <1>12, <1>13, <1>14

\* A call of a file tool works on the file of that very name, which is not the
\* secrets file; outside the top directory or on other than YAML only as the
\* user's last choice allows; a build never (_guard, _sanitize_filename).
THEOREM FilesChosen == EntrySpec => []FilesAsChosen
<1>1. EntryInv => FilesAsChosen
  <2> SUFFICES ASSUME EntryInv,
                      NEW tool \in Tools, NEW name \in FileNames, Accepts(tool, name, AllowExtra)
               PROVE  /\ PlaceOf(name) = ConfigDir \o name
                      /\ BaseName(name) # "secrets"
                      /\ \/ Len(name) = 1 /\ (tool = "read" \/ BaseName(name) = "yaml")
                         \/ tool # "build" /\ (wish \/ Loaded = {} \/ scheduled # {})
    BY DEF FilesAsChosen
  <2>1. LastChoiceInForce
    BY DEF EntryInv
  <2>2. AllowExtra \in BOOLEAN /\ wish \in BOOLEAN
    BY DEF AllowExtra, EntryInv, EntryTypeOK
  <2>3. PICK n \in Nat \ {0} : name \in [1..n -> Parts] /\ Len(name) = n
    <3>1. PICK n \in 1..MaxParts : name \in [1..n -> Parts]
      BY DEF FileNames
    <3>2. n \in Nat \ {0}
      OBVIOUS
    <3>3. Len(name) = n
      BY <3>1, <3>2
    <3> QED BY <3>1, <3>2, <3>3
  <2>4. /\ ~Hostile(name) /\ BaseName(name) # "secrets"
        /\ Len(name) > 1 => tool # "build" /\ AllowExtra
        /\ tool = "read" \/ BaseName(name) = "yaml" \/ (tool # "build" /\ AllowExtra)
    BY <2>2 DEF Accepts, Guarded, Sanitized, Tools
  <2>5. AllowExtra => wish \/ Loaded = {} \/ scheduled # {}
    BY <2>1, <2>2 DEF LastChoiceInForce
  <2>6. PlaceOf(name) = ConfigDir \o name
    BY <2>3, <2>4, PlaceIsName
  <2>7. Len(name) > 1 \/ Len(name) = 1
    BY <2>3
  <2> QED BY <2>4, <2>5, <2>6, <2>7
<1> QED BY <1>1, EntryInvariant, PTL
==============================================================================
