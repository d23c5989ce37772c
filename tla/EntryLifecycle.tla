--------------------------- MODULE EntryLifecycle ---------------------------
(***************************************************************************)
(* The integration's config entry (config_flow.py, __init__.py) and what   *)
(* depends on it: the registration of the LLM API, and the option the file *)
(* tools read on each call.  The user installs, configures, reloads and    *)
(* removes; Home Assistant restarts, perhaps as another release.           *)
(*                                                                         *)
(* Home Assistant itself is external.  An entry's set-up, its unloading    *)
(* and a step of a flow await nothing, so each is one action.              *)
(***************************************************************************)
EXTENDS FiniteSets

CONSTANTS
    Entry,      \* ids of config entries
    Flow,       \* config flows the user has open, in several windows
    Unset       \* the option's key is absent

ASSUME UnsetDistinct == Unset \notin BOOLEAN

VARIABLES
    callback,    \* this release's async_register_api returns an unregister callback
    state,       \* of each entry
    data,        \* entry.data[CONF_ALLOW_EXTRA_FILES]
    options,     \* entry.options[CONF_ALLOW_EXTRA_FILES]
    flow,        \* what each config flow shows
    scheduled,   \* entries whose update listener is about to run
    registered,  \* the API is in Home Assistant's registry
    on_unload,   \* entries whose unloading unregisters it
    allow_extra, \* hass.data[DOMAIN]["allow_extra_files"]
    wish         \* what the user last chose for the present entry

entry_vars == <<callback, state, data, options, flow, scheduled, registered, on_unload,
                allow_extra, wish>>

Value  == BOOLEAN \cup {Unset}
States == {"absent", "not_loaded", "loaded", "setup_error"}
Present == {e \in Entry : state[e] # "absent"}
Loaded  == {e \in Entry : state[e] = "loaded"}

EntryInit ==
    /\ callback \in BOOLEAN
    /\ state = [e \in Entry |-> "absent"]
    /\ data = [e \in Entry |-> Unset]
    /\ options = [e \in Entry |-> Unset]
    /\ flow = [f \in Flow |-> "none"]
    /\ scheduled = {}
    /\ registered = FALSE
    /\ on_unload = {}
    /\ allow_extra = Unset
    /\ wish = FALSE

----------------------------------------------------------------------------
(* The option *)

\* Seeded fault: what was chosen at installation stays in force.
DataFirst(e) == IF data[e] # Unset THEN data[e] ELSE options[e]
\* _store_options: options over data over the default.
Effective(e) ==
    CASE options[e] # Unset                     -> options[e]
      [] options[e] = Unset /\ data[e] # Unset  -> data[e]
      [] OTHER                                  -> FALSE

\* _allow_extra_files, on every call of a file tool.
AllowExtra == allow_extra = TRUE

----------------------------------------------------------------------------
(* Config flow: async_step_user *)

\* A new flow shows its form, unless an entry exists.
FlowOpens(f) ==
    /\ flow[f] = "none"
    /\ Present = {}
    /\ flow' = [flow EXCEPT ![f] = "form"]
    /\ UNCHANGED <<callback, state, data, options, scheduled, registered, on_unload,
                   allow_extra, wish>>

\* Seeded fault: the entries are looked at when the form is shown only.
NeverExists == FALSE
AlreadyExists == Present # {}

\* The form is submitted: the flow aborts, or an entry is created with the choice.
FlowSubmitted(f, choice) ==
    /\ flow[f] = "form"
    /\ scheduled = {}
    /\ flow' = [flow EXCEPT ![f] = "none"]
    /\ \/ /\ AlreadyExists
          /\ UNCHANGED <<state, data, options, wish>>
       \/ /\ ~AlreadyExists
          /\ \E e \in Entry :
               /\ state[e] = "absent"
               /\ state' = [state EXCEPT ![e] = "not_loaded"]
               /\ data' = [data EXCEPT ![e] = choice]
               /\ options' = [options EXCEPT ![e] = Unset]
          /\ wish' = choice
    /\ UNCHANGED <<callback, scheduled, registered, on_unload, allow_extra>>

----------------------------------------------------------------------------
(* async_setup_entry and unloading *)

\* Seeded fault: a reload registers again.
NeverRegistered == FALSE
\* The API's id is among async_get_apis.
FoundRegistered == registered

\* Seeded fault: the callback is dropped.
NoCallback == FALSE
HasCallback == callback

\* The option is stored, the update listener added, and the API registered if
\* it is not; async_register_api raises if it is.
SetUp(e) ==
    /\ state[e] = "not_loaded"
    /\ scheduled = {}
    /\ allow_extra' = Effective(e)
    /\ state' = [state EXCEPT ![e] =
                    IF registered /\ ~FoundRegistered THEN "setup_error" ELSE "loaded"]
    /\ registered' = TRUE
    /\ on_unload' = IF ~FoundRegistered /\ HasCallback THEN on_unload \cup {e} ELSE on_unload
    /\ UNCHANGED <<callback, data, options, flow, scheduled, wish>>

\* Unloading, for a reload, a removal or because the user disables the entry:
\* async_unload_entry, then what async_on_unload was given.
Unload(e) ==
    /\ state[e] = "loaded"
    /\ scheduled = {}
    /\ state' = [state EXCEPT ![e] = "not_loaded"]
    /\ registered' = (registered /\ e \notin on_unload)
    /\ on_unload' = on_unload \ {e}
    /\ UNCHANGED <<callback, data, options, flow, scheduled, allow_extra, wish>>

\* The entry is deleted, once it is unloaded.
Remove(e) ==
    /\ state[e] \in {"not_loaded", "setup_error"}
    /\ scheduled = {}
    /\ state' = [state EXCEPT ![e] = "absent"]
    /\ UNCHANGED <<callback, data, options, flow, scheduled, registered, on_unload,
                   allow_extra, wish>>

----------------------------------------------------------------------------
(* Options flow, and the update listener *)

\* Seeded fault: the listener is not added.
NoListener(e) == {}
Listeners(e)  == {e} \cap Loaded

\* The options form is submitted.  If something changed and the entry is
\* loaded, its listener is scheduled.  The event loop runs it before it turns
\* to anything the user does later.
OptionsSubmitted(e, choice) ==
    /\ state[e] # "absent"
    /\ scheduled = {}
    /\ options' = [options EXCEPT ![e] = choice]
    /\ scheduled' = IF options[e] # choice THEN Listeners(e) ELSE {}
    /\ wish' = choice
    /\ UNCHANGED <<callback, state, data, flow, registered, on_unload, allow_extra>>

\* _async_options_updated.
OptionsUpdated(e) ==
    /\ e \in scheduled
    /\ allow_extra' = Effective(e)
    /\ scheduled' = scheduled \ {e}
    /\ UNCHANGED <<callback, state, data, options, flow, registered, on_unload, wish>>

----------------------------------------------------------------------------

\* Home Assistant restarts, perhaps as another release: entries are stored,
\* everything else is gone.
EntryRestart ==
    /\ callback' \in BOOLEAN
    /\ state' = [e \in Entry |-> IF state[e] = "absent" THEN "absent" ELSE "not_loaded"]
    /\ flow' = [f \in Flow |-> "none"]
    /\ scheduled' = {}
    /\ registered' = FALSE
    /\ on_unload' = {}
    /\ allow_extra' = Unset
    /\ UNCHANGED <<data, options, wish>>

EntryNext ==
    \/ \E f \in Flow : FlowOpens(f)
    \/ \E f \in Flow, choice \in BOOLEAN : FlowSubmitted(f, choice)
    \/ \E e \in Entry : SetUp(e)
    \/ \E e \in Entry : Unload(e)
    \/ \E e \in Entry : Remove(e)
    \/ \E e \in Entry, choice \in BOOLEAN : OptionsSubmitted(e, choice)
    \/ \E e \in Entry : OptionsUpdated(e)
    \/ EntryRestart

EntrySpec == EntryInit /\ [][EntryNext]_entry_vars

----------------------------------------------------------------------------
(* Properties *)

\* Every variable keeps the shape the code gives it.
EntryTypeOK ==
    /\ callback \in BOOLEAN
    /\ state \in [Entry -> States]
    /\ data \in [Entry -> Value]
    /\ options \in [Entry -> Value]
    /\ flow \in [Flow -> {"none", "form"}]
    /\ scheduled \subseteq Entry
    /\ registered \in BOOLEAN
    /\ on_unload \subseteq Entry
    /\ allow_extra \in Value
    /\ wish \in BOOLEAN

\* However many config flows are open at once, there is one entry
\* ("a single-instance flow", config_flow.py).
SingleEntry == \A d, e \in Present : d = e

\* In any order of set-ups, unloads, reloads and restarts, on releases with and
\* without an unregister callback: a set-up never raises "already registered",
\* a loaded entry has its API, and with a callback an API has its entry.
ApiFollowsEntry ==
    /\ \A e \in Entry : state[e] # "setup_error"
    /\ Loaded # {} => registered
    /\ callback /\ registered => Loaded # {}

\* While an entry is loaded the file tools act on what its user chose last, at
\* installation or later in the options, loaded or not at the time, and however
\* often it was reloaded, removed and installed again ("changes made through
\* the options flow apply without a restart", _store_options).
LastChoiceInForce == Loaded # {} /\ scheduled = {} => AllowExtra = wish
============================================================================
