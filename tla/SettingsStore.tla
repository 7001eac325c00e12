--------------------------- MODULE SettingsStore ---------------------------
(***************************************************************************)
(* The settings of the service: its enabled flag and the temperature unit. *)
(* The datastore keeps them; the service has a copy (datastore_settings),  *)
(* which is fetched at the start and follows the events of the datastore.  *)
(* The synchronizer applies the copy to the state machine, the converter   *)
(* and the controller.  The time zone goes the way of the unit.            *)
(*                                                                         *)
(* The datastore, the event bus and the controller are external: the       *)
(* events of a topic keep their order, requests to the datastore do not.   *)
(***************************************************************************)
EXTENDS Naturals, Sequences

CONSTANTS
    Units,          \* temperature units
    DefaultUnit,    \* of StoredUnitSettingsValue
    MaxWrites       \* bound: changes of settings, by the service or by others

ASSUME SettingsAssumption == DefaultUnit \in Units /\ MaxWrites \in Nat

VARIABLES
    stored,         \* the settings the datastore has
    local,          \* _service_settings, _unit_settings
    serviceEvents,  \* changes published for this service, not yet handled
    globalEvents,   \* changes published of the unit, not yet handled
    commits,        \* requests of commit_service_settings() under way
    writes,         \* the number of changes made
    fetch,          \* where fetch_all() is, and the answer it will be given
    listening,      \* StateSynchronizer.repeat() has added its listeners
    stateEnabled,   \* StateMachine: the enabled flag
    converter,      \* UnitConverter.temperature
    sync,           \* where StateSynchronizer.run() is
    patches,        \* units on their way to the controller, by who sent them
    display,        \* the unit the controller has
    lost, overtaken, missed     \* what went wrong: see the properties

datastoreVars == <<stored, serviceEvents, globalEvents, commits, writes>>
appliedVars == <<listening, stateEnabled, converter, sync, patches, display, missed>>
settingsVars == <<datastoreVars, local, fetch, appliedVars, lost, overtaken>>

Settings == [enabled: BOOLEAN, unit: Units]
Defaults == [enabled |-> TRUE, unit |-> DefaultUnit]
Patches == [unit: Units, by: {"sync", "event"}]
Fetches == {"service", "serviceAnswered", "units", "unitsAnswered", "done"}
Started == fetch.at = "done"

SettingsTypeOK ==
    /\ stored \in Settings /\ local \in Settings
    /\ serviceEvents \in Seq(BOOLEAN) /\ globalEvents \in Seq(Units)
    /\ commits \subseteq [n: 1..MaxWrites, enabled: BOOLEAN]
    /\ writes \in 0..MaxWrites
    /\ fetch \in [at: Fetches, answer: Settings]
    /\ {listening, stateEnabled, lost, overtaken, missed} \subseteq BOOLEAN
    /\ converter \in Units /\ display \in Units
    /\ sync \in {"off", "waiting", "patching", "synchronized"}
    /\ patches \in Seq(Patches)

(* SettingsStore.__init__(), and all that begins with the service *)
SettingsInit ==
    /\ stored \in Settings /\ display \in Units
    /\ serviceEvents = <<>> /\ globalEvents = <<>> /\ commits = {} /\ writes = 0
    /\ local = Defaults
    /\ fetch = [at |-> "service", answer |-> Defaults]
    /\ listening = FALSE /\ stateEnabled = FALSE /\ converter = DefaultUnit
    /\ sync = "off" /\ patches = <<>>
    /\ lost = FALSE /\ overtaken = FALSE /\ missed = FALSE

-----------------------------------------------------------------------------
(* fetch_all(): the datastore answers _get_box(), for which httpx_retry()    *)
(* asks until it does, and later the answer is there.                        *)
FetchAnswered(from, to) ==
    /\ fetch.at = from
    /\ fetch' = [at |-> to, answer |-> stored]
    /\ UNCHANGED <<datastoreVars, local, appliedVars, lost, overtaken>>

FetchesService ==
    /\ fetch.at = "serviceAnswered"
    /\ local' = [local EXCEPT !.enabled = fetch.answer.enabled]
    /\ fetch' = [fetch EXCEPT !.at = "units"]
    /\ UNCHANGED <<datastoreVars, appliedVars, lost, overtaken>>

FetchesUnits ==
    /\ fetch.at = "unitsAnswered"
    /\ local' = [local EXCEPT !.unit = fetch.answer.unit]
    /\ fetch' = [fetch EXCEPT !.at = "done"]
    /\ UNCHANGED <<datastoreVars, appliedVars, lost, overtaken>>

(* on_service_store_event(), with _apply_service_settings() as its callback *)
MutantAlwaysLocal(e) == stateEnabled' = stateEnabled
CallServiceListeners(e) == stateEnabled' = IF listening THEN e ELSE stateEnabled

MutantEventIgnored(e) ==
    /\ overtaken' = overtaken
    /\ UNCHANGED <<local, stateEnabled>>
OnServiceStoreEvent(e) ==
    /\ overtaken' = (overtaken \/ fetch.at = "serviceAnswered")
    /\ \/ e = local.enabled /\ UNCHANGED <<local, stateEnabled>>
       \/ /\ e # local.enabled
          /\ local' = [local EXCEPT !.enabled = e]
          /\ CallServiceListeners(e)

ServiceStoreEvent ==
    /\ serviceEvents # <<>>
    /\ serviceEvents' = Tail(serviceEvents)
    /\ OnServiceStoreEvent(Head(serviceEvents))
    /\ UNCHANGED <<stored, globalEvents, commits, writes, fetch, listening, converter, sync, patches, display, missed, lost>>

(* set_sysinfo_settings() until it awaits the answer *)
SetSysinfoSettings(unit, by) == patches' = Append(patches, [unit |-> unit, by |-> by])

(* _apply_global_settings(), as a callback: missed when the synchronizer has *)
(* sent the unit it had before and is not done.                              *)
MutantConverterOnly(unit) ==
    /\ converter' = unit
    /\ missed' = (missed \/ sync = "patching")
    /\ UNCHANGED patches
ApplyGlobalSettings(unit) ==
    /\ converter' = unit
    /\ IF sync = "synchronized" THEN SetSysinfoSettings(unit, "event") ELSE UNCHANGED patches
    /\ missed' = (missed \/ sync = "patching")

(* on_global_store_event() *)
OnGlobalStoreEvent(unit) ==
    /\ overtaken' = (overtaken \/ fetch.at = "unitsAnswered")
    /\ \/ unit = local.unit /\ UNCHANGED <<local, converter, patches, missed>>
       \/ /\ unit # local.unit
          /\ local' = [local EXCEPT !.unit = unit]
          /\ IF listening THEN ApplyGlobalSettings(unit) ELSE UNCHANGED <<converter, patches, missed>>

GlobalStoreEvent ==
    /\ globalEvents # <<>>
    /\ globalEvents' = Tail(globalEvents)
    /\ OnGlobalStoreEvent(Head(globalEvents))
    /\ UNCHANGED <<stored, serviceEvents, commits, writes, fetch, listening, stateEnabled, sync, display, lost>>

(* settings_enabled_put() until it awaits commit_service_settings() *)
SettingsEnabledPut(e) ==
    /\ Started /\ writes < MaxWrites
    /\ writes' = writes + 1
    /\ local' = [local EXCEPT !.enabled = e]
    /\ stateEnabled' = e
    /\ commits' = commits \cup {[n |-> writes', enabled |-> e]}
    /\ UNCHANGED <<stored, serviceEvents, globalEvents, fetch, listening, converter, sync, patches, display, missed, lost, overtaken>>

-----------------------------------------------------------------------------
(* synchronize() until it waits for a connection: repeat() runs it when it   *)
(* has added the listeners, and again after each connection.                 *)
BeginSynchronize ==
    /\ listening' = TRUE
    /\ converter' = local.unit
    /\ stateEnabled' = local.enabled
    /\ sync' = "waiting"

Repeat ==
    /\ Started /\ sync = "off"
    /\ BeginSynchronize
    /\ UNCHANGED <<datastoreVars, local, fetch, patches, display, missed, lost, overtaken>>

(* wait_connected() to _sync_sysinfo(), where the unit is read and sent *)
SyncSysinfo ==
    /\ sync = "waiting" /\ stateEnabled
    /\ sync' = "patching"
    /\ missed' = FALSE
    /\ SetSysinfoSettings(local.unit, "sync")
    /\ UNCHANGED <<datastoreVars, local, fetch, listening, stateEnabled, converter, display, lost, overtaken>>

(* The controller patches its SysInfo block and answers: synchronize() ends  *)
(* with set_synchronized().                                                  *)
SynchronizeEnds(by) == sync' = IF by = "sync" THEN "synchronized" ELSE sync

PatchedSysinfo ==
    /\ patches # <<>>
    /\ patches' = Tail(patches)
    /\ display' = Head(patches).unit
    /\ SynchronizeEnds(Head(patches).by)
    /\ UNCHANGED <<datastoreVars, local, fetch, listening, stateEnabled, converter, missed, lost, overtaken>>

(* The connection is lost with what is under way, which the controller may   *)
(* have done, or reset by run() when a command of it fails.                  *)
Disconnected ==
    /\ sync \in {"patching", "synchronized"}
    /\ patches' = <<>>
    /\ display' \in {display} \cup {patches[i].unit : i \in DOMAIN patches}
    /\ BeginSynchronize
    /\ UNCHANGED <<datastoreVars, local, fetch, missed, lost, overtaken>>

(* The patch of a callback fails or times out: the exception ends the        *)
(* handler of the event.                                                     *)
PatchFails ==
    /\ patches # <<>> /\ Head(patches).by = "event"
    /\ patches' = Tail(patches)
    /\ display' \in {display, Head(patches).unit}
    /\ missed' = TRUE
    /\ UNCHANGED <<datastoreVars, local, fetch, listening, stateEnabled, converter, sync, lost, overtaken>>

-----------------------------------------------------------------------------
(* The datastore is given a commit, and publishes the change. *)
CommitLands(c) ==
    /\ c \in commits
    /\ commits' = commits \ {c}
    /\ stored' = [stored EXCEPT !.enabled = c.enabled]
    /\ serviceEvents' = Append(serviceEvents, c.enabled)
    /\ UNCHANGED <<globalEvents, writes, local, fetch, appliedVars, lost, overtaken>>

(* _set_box() fails, or its answer, which is not looked at, is an error. *)
CommitLost(c) ==
    /\ c \in commits
    /\ commits' = commits \ {c}
    /\ lost' = TRUE
    /\ UNCHANGED <<stored, serviceEvents, globalEvents, writes, local, fetch, appliedVars, overtaken>>

(* The connection to the broker is lost and made again: what was published   *)
(* meanwhile never comes, and nothing fetches it.                            *)
EventsLost ==
    /\ serviceEvents # <<>> \/ globalEvents # <<>>
    /\ serviceEvents' = <<>> /\ globalEvents' = <<>>
    /\ lost' = TRUE
    /\ UNCHANGED <<stored, commits, writes, local, fetch, appliedVars, overtaken>>

(* Another client of the datastore changes a setting. *)
OthersChange ==
    /\ writes < MaxWrites
    /\ writes' = writes + 1
    /\ \/ \E e \in BOOLEAN :
            /\ stored' = [stored EXCEPT !.enabled = e]
            /\ serviceEvents' = Append(serviceEvents, e)
            /\ UNCHANGED globalEvents
       \/ \E unit \in Units :
            /\ stored' = [stored EXCEPT !.unit = unit]
            /\ globalEvents' = Append(globalEvents, unit)
            /\ UNCHANGED serviceEvents
    /\ UNCHANGED <<commits, local, fetch, appliedVars, lost, overtaken>>

(* The service starts again, also when datastore_fetch_timeout has passed:   *)
(* events published meanwhile are lost, requests under way may still arrive. *)
SettingsRestart ==
    /\ local' = Defaults
    /\ fetch' = [at |-> "service", answer |-> Defaults]
    /\ serviceEvents' = <<>> /\ globalEvents' = <<>>
    /\ listening' = FALSE /\ stateEnabled' = FALSE /\ converter' = DefaultUnit
    /\ sync' = "off" /\ patches' = <<>>
    /\ lost' = FALSE /\ overtaken' = FALSE /\ missed' = FALSE
    /\ UNCHANGED <<stored, commits, writes, display>>

SettingsNext ==
    \/ FetchAnswered("service", "serviceAnswered") \/ FetchesService
    \/ FetchAnswered("units", "unitsAnswered") \/ FetchesUnits
    \/ ServiceStoreEvent \/ GlobalStoreEvent
    \/ \E e \in BOOLEAN : SettingsEnabledPut(e)
    \/ Repeat \/ SyncSysinfo \/ PatchedSysinfo \/ Disconnected \/ PatchFails
    \/ \E c \in commits : CommitLands(c) \/ CommitLost(c)
    \/ EventsLost \/ OthersChange \/ SettingsRestart

SettingsSpec == SettingsInit /\ [][SettingsNext]_settingsVars

-----------------------------------------------------------------------------
(* From the first synchronize() on, the state machine and the converter have *)
(* the settings of the copy, whichever way these changed.                    *)
SettingsApplied ==
    listening => stateEnabled = local.enabled /\ converter = local.unit

(* When nothing is under way, the copy is what the datastore has, in         *)
(* whichever order commits arrived and events came back, but for a commit or *)
(* events that were lost unnoticed (lost), and an event that came while      *)
(* fetch_all() held an older answer (overtaken).                             *)
LocalAgrees ==
    /\ Started /\ commits = {} /\ ~lost /\ ~overtaken
    /\ serviceEvents = <<>> /\ globalEvents = <<>>
    => local = stored

(* A synchronized controller has the unit of the copy or is being sent it,   *)
(* unless the unit changed between the read of it in _sync_sysinfo() and     *)
(* set_synchronized(), or the patch for the change failed (missed).          *)
SynchronizedUnit ==
    sync = "synchronized" /\ patches = <<>> /\ ~missed => display = local.unit

(* "The controller is synchronized" (violated: the unit may be missed).      *)
SynchronizedHasUnit ==
    sync = "synchronized" /\ patches = <<>> => display = local.unit
=============================================================================
