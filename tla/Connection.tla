----------------------------- MODULE Connection -----------------------------
(***************************************************************************)
(* How a tool call reaches an ESPHome dashboard (_async_connection in      *)
(* llm.py, SupervisorClient in supervisor.py): the default add-on if none  *)
(* is named, its target from the cache or from the Supervisor, an ingress  *)
(* session minted for the caller, and then the tool's own request.         *)
(*                                                                         *)
(* Calls interleave at each of these requests, while add-ons come, go,     *)
(* start, stop and change how they are reached.                            *)
(***************************************************************************)
EXTENDS Integers

CONSTANTS
    Call,           \* tool calls in flight at once
    Addon,          \* add-ons whose slug or name says "esphome"
    Channel,        \* the place of an add-on's slug suffix in CHANNEL_SUFFIXES
    User,           \* Home Assistant users
    Admins,         \* those the ingress proxy lets through
    MaxChanges,     \* bound on what happens to the add-ons
    NoAddon, NoUser, NoTarget

ASSUME ChannelsOrdered == Channel \in [Addon -> 0..2]
ASSUME NamesDistinct   == NoAddon \notin Addon /\ NoUser \notin User
ASSUME ChangesNatural  == MaxChanges \in Nat
ASSUME AdminsAreUsers  == Admins \subseteq User

VARIABLES
    addon,      \* the add-ons, as the Supervisor knows them
    changes,    \* how much has happened to them
    cache,      \* dashboard_target_cache; a key that is absent holds NoTarget
    call        \* where each call is and what it holds

vars == <<addon, changes, cache, call>>

\* An add-on gets a new ingress token whenever it is installed.
Addons  == [install : Nat, present : BOOLEAN, proxied : BOOLEAN, running : BOOLEAN]
Targets == [addon : Addon, install : Nat, proxied : BOOLEAN]
ASSUME NoTargetDistinct == NoTarget \notin Targets
Names   == Addon \cup {NoAddon}
Phases  == {"idle", "list", "info", "arriving", "session", "request", "ping", "ok",
            "error", "raised"}
Calls   == [pc : Phases, asked : Names, user : User \cup {NoUser}, slug : Names,
            target : Targets \cup {NoTarget}, session : User \cup {NoUser}]

Idle == [pc |-> "idle", asked |-> NoAddon, user |-> NoUser, slug |-> NoAddon,
         target |-> NoTarget, session |-> NoUser]

Absent == [install |-> 0, present |-> FALSE, proxied |-> FALSE, running |-> FALSE]
Installed == [install : {1}, present : {TRUE}, proxied : BOOLEAN, running : BOOLEAN]

Init ==
    /\ addon \in [Addon -> {Absent} \cup Installed]
    /\ changes = 0
    /\ cache = [k \in Names |-> NoTarget]
    /\ call = [c \in Call |-> Idle]

----------------------------------------------------------------------------
(* The add-ons (external) *)

Change(a, state) ==
    /\ changes < MaxChanges
    /\ changes' = changes + 1
    /\ addon' = [addon EXCEPT ![a] = state]
    /\ UNCHANGED <<cache, call>>

Install(a, p) ==
    /\ ~addon[a].present
    /\ Change(a, [install |-> addon[a].install + 1, present |-> TRUE, proxied |-> p,
                  running |-> FALSE])

Uninstall(a) ==
    /\ addon[a].present
    /\ Change(a, [addon[a] EXCEPT !.present = FALSE, !.running = FALSE])

StartOrStop(a) ==
    /\ addon[a].present
    /\ Change(a, [addon[a] EXCEPT !.running = ~@])

\* Its configuration says whether an add-on is served through ingress.
Update(a) ==
    /\ addon[a].present
    /\ Change(a, [addon[a] EXCEPT !.proxied = ~@])

----------------------------------------------------------------------------
(* The call *)

\* The call goes on as r says; nothing else changes but, perhaps, the cache.
Set(c, r) ==
    /\ call' = [call EXCEPT ![c] = r]
    /\ UNCHANGED <<addon, changes>>

\* Seeded fault: targets are filed under what the caller asked for.
KeyOfRequest(r, slug) == r.asked
\* The cache is keyed by the add-on that was resolved.
Key(r, slug) == slug

\* open_dashboard_connection: a direct target needs no session, a proxied one
\* a session of the caller's.
Opening(r, target) ==
    IF ~target.proxied THEN "request"
    ELSE IF r.user = NoUser THEN "error" ELSE "session"

\* The add-on is known: its cached target, or a question to the Supervisor.
LookUp(c, r, slug) ==
    LET t == cache[Key(r, slug)]
    IN Set(c, [r EXCEPT !.slug = slug, !.target = t,
                        !.pc = IF t = NoTarget THEN "info" ELSE Opening(r, t)])

\* A tool is called.  If it names an add-on, nothing is awaited before LookUp.
Begin(c, asked, user) ==
    LET r == [Idle EXCEPT !.pc = "list", !.asked = asked, !.user = user]
    IN /\ call[c].pc \in {"idle", "ok", "error", "raised"}
       /\ IF asked = NoAddon THEN Set(c, r) ELSE LookUp(c, r, asked)
       /\ UNCHANGED cache

\* rank of async_default_slug: the channel first, then running before stopped.
Outranks(a, b) ==
    \/ Channel[a] < Channel[b]
    \/ Channel[a] = Channel[b] /\ addon[a].running /\ ~addon[b].running

\* async_default_slug, over what list_esphome_addons was told.
Listed(c) ==
    LET installed == {a \in Addon : addon[a].present}
    IN /\ call[c].pc = "list"
       /\ \/ /\ installed = {}
             /\ Set(c, [call[c] EXCEPT !.pc = "error"])
          \/ \E a \in installed :
               /\ \A b \in installed : ~Outranks(b, a)
               /\ LookUp(c, call[c], a)
       /\ UNCHANGED cache

\* The Supervisor answers with the add-on's info, or does not know it.
InfoAnswered(c) ==
    LET a == call[c].slug
        t == [addon |-> a, install |-> addon[a].install, proxied |-> addon[a].proxied]
    IN /\ call[c].pc = "info"
       /\ Set(c, IF addon[a].present
                 THEN [call[c] EXCEPT !.pc = "arriving", !.target = t]
                 ELSE [call[c] EXCEPT !.pc = "error"])
       /\ UNCHANGED cache

Cached(r) == r.target

\* The answer arrives and is cached, whatever was cached meanwhile.
InfoArrives(c) ==
    LET r == call[c]
    IN /\ r.pc = "arriving"
       /\ cache' = [cache EXCEPT ![Key(r, r.slug)] = Cached(r)]
       /\ Set(c, [r EXCEPT !.pc = Opening(r, r.target)])

\* Seeded fault: another call's session to the same add-on is used again.
SharedSession(c) ==
    LET others == {d \in Call \ {c} : call[d].session # NoUser /\ call[d].slug = call[c].slug}
    IN IF others = {} THEN call[c].user ELSE call[CHOOSE d \in others : TRUE].session
\* create_ingress_session, for the user of this call.
Session(c) == call[c].user

SessionOpens(c) ==
    /\ call[c].pc = "session"
    /\ Set(c, [call[c] EXCEPT !.pc = "request", !.session = Session(c)])
    /\ UNCHANGED cache

\* Whether a request along t is answered (external): a proxied add-on is
\* behind its present token and for admins, others answer at their host name.
Reaches(t, user) ==
    /\ addon[t.addon].running
    /\ addon[t.addon].proxied = t.proxied
    /\ t.proxied => t.install = addon[t.addon].install /\ user \in Admins

\* The tool's own request is answered: /devices of the inventory, which asks
\* /ping along the same connection next, or what another tool asked.
Answered(c) ==
    /\ call[c].pc = "request"
    /\ Reaches(call[c].target, call[c].session)
    /\ \E next \in {"ping", "ok"} : Set(c, [call[c] EXCEPT !.pc = next])
    /\ UNCHANGED cache

\* /ping is answered, or fails and leaves every device's status unknown.
Pinged(c) ==
    /\ call[c].pc = "ping"
    /\ Set(c, [call[c] EXCEPT !.pc = "ok"])
    /\ UNCHANGED cache

Requesting == {"list", "info", "arriving", "session", "request"}

\* A request is refused: an ESPHomeMCPError, which the tool answers with.
\* Nothing is taken from the cache.
Fails(c) ==
    /\ call[c].pc \in Requesting
    /\ Set(c, [call[c] EXCEPT !.pc = "error"])
    /\ UNCHANGED cache

\* A request takes its total of 30 seconds.  The TimeoutError is no
\* aiohttp.ClientError: it leaves the tool, also when only /ping is slow.
TimesOut(c) ==
    /\ call[c].pc \in Requesting \cup {"ping"}
    /\ Set(c, [call[c] EXCEPT !.pc = "raised"])
    /\ UNCHANGED cache

\* Home Assistant restarts: its calls and hass.data are gone.
Restart ==
    /\ cache' = [k \in Names |-> NoTarget]
    /\ call' = [c \in Call |-> Idle]
    /\ UNCHANGED <<addon, changes>>

Next ==
    \/ \E a \in Addon, p \in BOOLEAN : Install(a, p)
    \/ \E a \in Addon : Uninstall(a) \/ StartOrStop(a) \/ Update(a)
    \/ \E c \in Call, asked \in Names, user \in User \cup {NoUser} : Begin(c, asked, user)
    \/ \E c \in Call :
         \/ Listed(c)
         \/ InfoAnswered(c) \/ InfoArrives(c)
         \/ SessionOpens(c)
         \/ Answered(c) \/ Pinged(c)
         \/ Fails(c) \/ TimesOut(c)
    \/ Restart

Spec == Init /\ [][Next]_vars

----------------------------------------------------------------------------
(* Properties *)

\* Every variable keeps the shape the code gives it.
TypeOK ==
    /\ addon \in [Addon -> Addons]
    /\ changes \in 0..MaxChanges
    /\ cache \in [Names -> Targets \cup {NoTarget}]
    /\ call \in [Call -> Calls]

\* The add-on a tool names in its answer is the one that answered, and the one
\* the caller asked for, however the default and the targets changed between
\* the calls that filled the cache and the one that used it.
RightAddon ==
    \A c \in Call : call[c].pc = "ok" =>
        /\ call[c].target.addon = call[c].slug
        /\ call[c].asked \in {NoAddon, call[c].slug}

\* A dashboard behind the ingress is only ever asked in the name of the user
\* whose call it is ("rather than any ambient identity"): the cache shares
\* targets between callers, never a session.
MadeAsCaller ==
    \A c \in Call : call[c].pc \in {"request", "ping", "ok"} /\ call[c].target.proxied =>
        call[c].session = call[c].user /\ call[c].session # NoUser
============================================================================
