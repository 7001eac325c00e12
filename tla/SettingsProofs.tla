--------------------------- MODULE SettingsProofs ---------------------------
(***************************************************************************)
(* SettingsInv is an invariant of SettingsSpec, for any units and any      *)
(* number of changes; and what is proved of the connection task and of the *)
(* settings holds of the two beside each other.                            *)
(***************************************************************************)
EXTENDS MCServiceState, ConnectionHandlerProofs, SequenceTheorems

Last(s) == s[Len(s)]
Undisturbed == ~lost /\ ~overtaken

(* The last event of a topic has the value that is stored, so an answer of   *)
(* the datastore is newer than every event before it.  When no event is left *)
(* the answer, and later the copy, has what is stored.                       *)
ServiceAgrees ==
    /\ serviceEvents # <<>> => Last(serviceEvents) = stored.enabled
    /\ Undisturbed /\ serviceEvents = <<>> =>
        /\ fetch.at = "serviceAnswered" => fetch.answer.enabled = stored.enabled
        /\ fetch.at \in {"units", "unitsAnswered", "done"} /\ commits = {}
            => local.enabled = stored.enabled

UnitAgrees ==
    /\ globalEvents # <<>> => Last(globalEvents) = stored.unit
    /\ Undisturbed /\ globalEvents = <<>> =>
        /\ fetch.at = "unitsAnswered" => fetch.answer.unit = stored.unit
        /\ Started => local.unit = stored.unit

(* The synchronizer has one patch under way before it is synchronized; after *)
(* that all are of events.                                                   *)
PatchesInOrder ==
    /\ sync # "off" => listening
    /\ listening => Started
    /\ sync \in {"off", "waiting"} => patches = <<>>
    /\ sync = "patching" => Len(patches) = 1 /\ patches[1].by = "sync"
    /\ sync = "synchronized" => \A i \in DOMAIN patches : patches[i].by = "event"

(* The last patch has the unit of the copy; when it is done, the controller. *)
PatchesLead ==
    ~missed =>
        /\ patches # <<>> => Last(patches).unit = local.unit
        /\ sync = "synchronized" /\ patches = <<>> => display = local.unit

SettingsInv ==
    /\ SettingsTypeOK
    /\ SettingsApplied
    /\ ServiceAgrees /\ UnitAgrees
    /\ PatchesInOrder /\ PatchesLead

-----------------------------------------------------------------------------
(* What an append and a tail do to the last element of a sequence. *)
LEMMA LastOfAppend ==
    ASSUME NEW S, NEW s \in Seq(S), NEW x \in S
    PROVE  /\ Append(s, x) \in Seq(S) /\ Append(s, x) # <<>>
           /\ Len(Append(s, x)) = Len(s) + 1
           /\ Last(Append(s, x)) = x
BY DEF Last

LEMMA LastOfTail ==
    ASSUME NEW S, NEW s \in Seq(S), s # <<>>
    PROVE  /\ Tail(s) \in Seq(S) /\ Head(s) \in S /\ Head(s) = s[1]
           /\ Tail(s) # <<>> => Last(Tail(s)) = Last(s)
           /\ Tail(s) = <<>> => Last(s) = Head(s)
           /\ \A i \in DOMAIN Tail(s) : i + 1 \in DOMAIN s /\ Tail(s)[i] = s[i + 1]
<1>1. /\ Head(s) \in S /\ Tail(s) \in Seq(S) /\ Len(Tail(s)) = Len(s) - 1
      /\ \A i \in 1..Len(Tail(s)) : Tail(s)[i] = s[i + 1]
  BY HeadTailProperties
<1>2. Len(s) \in Nat \ {0} /\ DOMAIN s = 1..Len(s) /\ Head(s) = s[1]
  OBVIOUS
<1>3. Tail(s) # <<>> => Last(Tail(s)) = Last(s)
  <2> SUFFICES ASSUME Tail(s) # <<>> PROVE Last(Tail(s)) = Last(s)
    OBVIOUS
  <2>1. Len(Tail(s)) \in 1..Len(Tail(s)) /\ Len(Tail(s)) + 1 = Len(s)
    BY <1>1, <1>2
  <2> QED BY <1>1, <2>1 DEF Last
<1>4. Tail(s) = <<>> => Last(s) = Head(s)
  <2>1. Tail(s) = <<>> => Len(s) = 1
    <3>1. Tail(s) = <<>> => Len(Tail(s)) = 0
      BY <1>1, EmptySeq
    <3> QED BY <1>1, <1>2, <3>1
  <2> QED BY <1>2, <2>1 DEF Last
<1>5. \A i \in DOMAIN Tail(s) : i + 1 \in DOMAIN s /\ Tail(s)[i] = s[i + 1]
  <2>1. DOMAIN Tail(s) = 1..Len(Tail(s))
    BY <1>1
  <2> QED BY <1>1, <1>2, <2>1
<1> QED BY <1>1, <1>2, <1>3, <1>4, <1>5

(* Patches are sent, done and lost as patches. *)
LEMMA SentPatch ==
    ASSUME patches \in Seq(Patches), NEW u \in Units, NEW by \in {"sync", "event"}
    PROVE  Append(patches, [unit |-> u, by |-> by]) \in Seq(Patches)
<1>1. [unit |-> u, by |-> by] \in Patches
  BY DEF Patches
<1> QED BY <1>1, AppendProperties

LEMMA DonePatch ==
    ASSUME patches \in Seq(Patches), patches # <<>>
    PROVE  Tail(patches) \in Seq(Patches) /\ Head(patches).unit \in Units
<1>1. Tail(patches) \in Seq(Patches) /\ Head(patches) \in Patches
  BY HeadTailProperties
<1> QED BY <1>1 DEF Patches

LEMMA UnitsOfPatches ==
    ASSUME patches \in Seq(Patches)
    PROVE  \A i \in DOMAIN patches : patches[i].unit \in Units
<1>1. DOMAIN patches = 1..Len(patches)
  OBVIOUS
<1>2. \A i \in 1..Len(patches) : patches[i] \in Patches
  BY ElementOfSeq
<1> QED BY <1>1, <1>2 DEF Patches

LEMMA InitSettings == SettingsInit => SettingsInv
<1> SUFFICES ASSUME SettingsInit PROVE SettingsInv
  OBVIOUS
<1> USE SettingsAssumption DEF SettingsInit, Defaults
<1>1. SettingsTypeOK
  <2>1. /\ Defaults \in Settings
        /\ fetch \in [at: Fetches, answer: Settings]
        /\ {listening, stateEnabled, lost, overtaken, missed} \subseteq BOOLEAN
    BY DEF Settings, Fetches
  <2>2. <<>> \in Seq(BOOLEAN) /\ <<>> \in Seq(Units) /\ <<>> \in Seq(Patches)
    OBVIOUS
  <2> QED BY <2>1, <2>2 DEF SettingsTypeOK
<1>2. SettingsApplied
  BY DEF SettingsApplied
<1>3. ServiceAgrees /\ UnitAgrees
  BY DEF ServiceAgrees, UnitAgrees, Started
<1>4. PatchesInOrder /\ PatchesLead
  BY DEF PatchesInOrder, PatchesLead
<1> QED BY <1>1, <1>2, <1>3, <1>4 DEF SettingsInv

-----------------------------------------------------------------------------
LEMMA NextSettingsType ==
    ASSUME SettingsTypeOK, [SettingsNext]_settingsVars
    PROVE  SettingsTypeOK'
<1> USE SettingsAssumption DEF SettingsTypeOK, Settings, Fetches, datastoreVars, appliedVars
<1>1. ASSUME NEW from \in {"service", "units"}, NEW to \in {"serviceAnswered", "unitsAnswered"},
             FetchAnswered(from, to)
      PROVE  SettingsTypeOK'
  BY <1>1 DEF FetchAnswered
<1>2. CASE FetchesService \/ FetchesUnits
  BY <1>2 DEF FetchesService, FetchesUnits
<1>3. CASE ServiceStoreEvent
  <2>1. Tail(serviceEvents) \in Seq(BOOLEAN) /\ Head(serviceEvents) \in BOOLEAN
    BY <1>3, LastOfTail DEF ServiceStoreEvent
  <2>2. local' \in Settings /\ stateEnabled' \in BOOLEAN /\ overtaken' \in BOOLEAN
    BY <1>3, <2>1 DEF ServiceStoreEvent, OnServiceStoreEvent, CallServiceListeners
  <2> QED BY <1>3, <2>1, <2>2 DEF ServiceStoreEvent
<1>4. CASE GlobalStoreEvent
  <2>1. Tail(globalEvents) \in Seq(Units) /\ Head(globalEvents) \in Units
    BY <1>4, LastOfTail DEF GlobalStoreEvent
  <2>2. local' \in Settings /\ converter' \in Units /\ overtaken' \in BOOLEAN /\ missed' \in BOOLEAN
    BY <1>4, <2>1 DEF GlobalStoreEvent, OnGlobalStoreEvent, ApplyGlobalSettings
  <2>3. patches' \in Seq(Patches)
    <3>1. \/ patches' = patches
          \/ patches' = Append(patches, [unit |-> Head(globalEvents), by |-> "event"])
      BY <1>4 DEF GlobalStoreEvent, OnGlobalStoreEvent, ApplyGlobalSettings, SetSysinfoSettings
    <3> QED BY <2>1, <3>1, SentPatch
  <2> QED BY <1>4, <2>1, <2>2, <2>3 DEF GlobalStoreEvent
<1>5. ASSUME NEW e \in BOOLEAN, SettingsEnabledPut(e) PROVE SettingsTypeOK'
  <2>1. writes' \in 1..MaxWrites
    BY <1>5 DEF SettingsEnabledPut
  <2>2. commits' \subseteq [n: 1..MaxWrites, enabled: BOOLEAN]
    BY <1>5, <2>1 DEF SettingsEnabledPut
  <2>3. local' \in Settings /\ stateEnabled' \in BOOLEAN /\ writes' \in 0..MaxWrites
    BY <1>5, <2>1 DEF SettingsEnabledPut
  <2> QED BY <1>5, <2>2, <2>3 DEF SettingsEnabledPut
<1>6. CASE Repeat
  BY <1>6 DEF Repeat, BeginSynchronize
<1>7. CASE SyncSysinfo
  <2>1. patches' \in Seq(Patches)
    BY <1>7, SentPatch DEF SyncSysinfo, SetSysinfoSettings
  <2> QED BY <1>7, <2>1 DEF SyncSysinfo
<1>8. CASE PatchedSysinfo
  <2>1. Tail(patches) \in Seq(Patches) /\ Head(patches).unit \in Units
    BY <1>8, DonePatch DEF PatchedSysinfo
  <2> QED BY <1>8, <2>1 DEF PatchedSysinfo, SynchronizeEnds
<1>9. CASE Disconnected
  <2>1. \A i \in DOMAIN patches : patches[i].unit \in Units
    BY UnitsOfPatches
  <2>2. display' \in Units
    BY <1>9, <2>1 DEF Disconnected
  <2> QED BY <1>9, <2>2 DEF Disconnected, BeginSynchronize
<1>10. CASE PatchFails
  <2>1. Tail(patches) \in Seq(Patches) /\ Head(patches).unit \in Units
    BY <1>10, DonePatch DEF PatchFails
  <2> QED BY <1>10, <2>1 DEF PatchFails
<1>11. ASSUME NEW c \in commits, CommitLands(c) PROVE SettingsTypeOK'
  <2>1. serviceEvents' \in Seq(BOOLEAN)
    BY <1>11, LastOfAppend DEF CommitLands
  <2> QED BY <1>11, <2>1 DEF CommitLands
<1>12. ASSUME NEW c \in commits, CommitLost(c) PROVE SettingsTypeOK'
  BY <1>12 DEF CommitLost
<1>13. CASE EventsLost
  BY <1>13 DEF EventsLost
<1>14. CASE OthersChange
  <2>1. writes' \in 0..MaxWrites
    BY <1>14 DEF OthersChange
  <2>2. CASE \E e \in BOOLEAN :
                /\ stored' = [stored EXCEPT !.enabled = e]
                /\ serviceEvents' = Append(serviceEvents, e)
                /\ UNCHANGED globalEvents
    <3>1. serviceEvents' \in Seq(BOOLEAN)
      BY <2>2, LastOfAppend
    <3> QED BY <1>14, <2>1, <2>2, <3>1 DEF OthersChange
  <2>3. CASE \E unit \in Units :
                /\ stored' = [stored EXCEPT !.unit = unit]
                /\ globalEvents' = Append(globalEvents, unit)
                /\ UNCHANGED serviceEvents
    <3>1. globalEvents' \in Seq(Units)
      BY <2>3, LastOfAppend
    <3> QED BY <1>14, <2>1, <2>3, <3>1 DEF OthersChange
  <2> QED BY <1>14, <2>2, <2>3 DEF OthersChange
<1>15. CASE SettingsRestart
  <2>1. /\ Defaults \in Settings
        /\ fetch' \in [at: Fetches, answer: Settings]
        /\ {listening, stateEnabled, lost, overtaken, missed}' \subseteq BOOLEAN
    BY <1>15 DEF SettingsRestart, Defaults
  <2>2. <<>> \in Seq(BOOLEAN) /\ <<>> \in Seq(Units) /\ <<>> \in Seq(Patches)
    OBVIOUS
  <2> QED BY <1>15, <2>1, <2>2 DEF SettingsRestart
<1>16. CASE UNCHANGED settingsVars
  BY <1>16 DEF settingsVars
<1> QED BY <1>1, <1>2, <1>3, <1>4, <1>5, <1>6, <1>7, <1>8, <1>9, <1>10, <1>11, <1>12, <1>13,
           <1>14, <1>15, <1>16 DEF SettingsNext

-----------------------------------------------------------------------------
(* What was applied follows the copy: fetch_all() is done before anything is *)
(* applied, and every later change of the copy is applied in the same step.  *)
LEMMA NextApplied ==
    ASSUME SettingsTypeOK, SettingsApplied, PatchesInOrder, [SettingsNext]_settingsVars
    PROVE  SettingsApplied'
<1> USE DEF SettingsApplied, datastoreVars, appliedVars
<1>0. local \in Settings /\ (listening => Started)
  BY DEF SettingsTypeOK, PatchesInOrder
<1>1. CASE ServiceStoreEvent
  BY <1>0, <1>1 DEF ServiceStoreEvent, OnServiceStoreEvent, CallServiceListeners, Settings
<1>2. CASE GlobalStoreEvent
  BY <1>0, <1>2 DEF GlobalStoreEvent, OnGlobalStoreEvent, ApplyGlobalSettings, Settings
<1>3. ASSUME NEW e \in BOOLEAN, SettingsEnabledPut(e) PROVE SettingsApplied'
  BY <1>0, <1>3 DEF SettingsEnabledPut, Settings
<1>4. CASE FetchesService \/ FetchesUnits
  BY <1>0, <1>4 DEF FetchesService, FetchesUnits, Started
<1>5. CASE Repeat \/ Disconnected
  BY <1>5 DEF Repeat, Disconnected, BeginSynchronize
<1>6. CASE SyncSysinfo \/ PatchedSysinfo \/ PatchFails
  BY <1>6 DEF SyncSysinfo, PatchedSysinfo, PatchFails
<1>7. CASE SettingsRestart
  BY <1>7 DEF SettingsRestart
<1>8. ASSUME NEW from, NEW to, FetchAnswered(from, to) PROVE SettingsApplied'
  BY <1>8 DEF FetchAnswered
<1>9. ASSUME NEW c \in commits, CommitLands(c) \/ CommitLost(c) PROVE SettingsApplied'
  BY <1>9 DEF CommitLands, CommitLost
<1>10. CASE EventsLost \/ OthersChange \/ UNCHANGED settingsVars
  BY <1>10 DEF EventsLost, OthersChange, settingsVars
<1> QED BY <1>1, <1>2, <1>3, <1>4, <1>5, <1>6, <1>7, <1>8, <1>9, <1>10 DEF SettingsNext

-----------------------------------------------------------------------------
(* The patches under way stay in order. *)
LEMMA NextOrder ==
    ASSUME SettingsTypeOK, PatchesInOrder, [SettingsNext]_settingsVars
    PROVE  PatchesInOrder'
<1> USE DEF PatchesInOrder, Started, datastoreVars, appliedVars
<1>0. /\ patches \in Seq(Patches)
      /\ sync \in {"off", "waiting", "patching", "synchronized"}
  BY DEF SettingsTypeOK
<1>1. CASE GlobalStoreEvent
  <2>1. CASE UNCHANGED patches
    BY <1>1, <2>1 DEF GlobalStoreEvent
  <2>2. CASE patches' # patches
    <3> DEFINE p == [unit |-> Head(globalEvents), by |-> "event"]
    <3>1. sync = "synchronized" /\ sync' = sync /\ patches' = Append(patches, p)
      BY <1>1, <2>2 DEF GlobalStoreEvent, OnGlobalStoreEvent, ApplyGlobalSettings,
         SetSysinfoSettings
    <3>2. \A i \in DOMAIN patches' :
            \/ patches'[i] = p
            \/ i \in DOMAIN patches /\ patches'[i] = patches[i]
      <4>1. Head(globalEvents) \in Units
        BY <1>1, HeadTailProperties DEF GlobalStoreEvent, SettingsTypeOK
      <4>2. p \in Patches
        BY <4>1 DEF Patches
      <4> HIDE DEF p
      <4>3. /\ patches' \in Seq(Patches) /\ Len(patches') = Len(patches) + 1
            /\ \A i \in 1..Len(patches) : patches'[i] = patches[i]
            /\ patches'[Len(patches) + 1] = p
        BY <1>0, <3>1, <4>2, AppendProperties
      <4>4. DOMAIN patches = 1..Len(patches) /\ Len(patches) \in Nat /\ DOMAIN patches' = 1..Len(patches')
        BY <1>0, <4>3
      <4>5. SUFFICES ASSUME NEW i \in DOMAIN patches', patches'[i] # p
                     PROVE  i \in DOMAIN patches /\ patches'[i] = patches[i]
        OBVIOUS
      <4>6. i \in 1..Len(patches)
        BY <4>3, <4>4, <4>5
      <4> QED BY <4>3, <4>4, <4>6
    <3>3. \A i \in DOMAIN patches' : patches'[i].by = "event"
      BY <3>1, <3>2
    <3> QED BY <1>1, <3>1, <3>3 DEF GlobalStoreEvent
  <2> QED BY <2>1, <2>2
<1>2. CASE SyncSysinfo
  <2> DEFINE p == [unit |-> local.unit, by |-> "sync"]
  <2>1. patches' = Append(<<>>, p)
    BY <1>2 DEF SyncSysinfo, SetSysinfoSettings
  <2>2. Len(patches') = 1 /\ patches'[1] = p
    BY <2>1
  <2> QED BY <1>2, <2>2 DEF SyncSysinfo
<1>3. CASE PatchedSysinfo
  <2>1. /\ patches # <<>> /\ patches' = Tail(patches)
        /\ sync \in {"patching", "synchronized"}
        /\ sync' = IF Head(patches).by = "sync" THEN "synchronized" ELSE sync
    BY <1>0, <1>3 DEF PatchedSysinfo, SynchronizeEnds
  <2>2. Head(patches) = patches[1] /\ 1 \in DOMAIN patches /\ Len(patches') = Len(patches) - 1
    BY <1>0, <2>1, HeadTailProperties
  <2>3. sync' = "synchronized"
    BY <2>1, <2>2
  <2>4. \A i \in DOMAIN patches' : patches'[i].by = "event"
    <3>1. \A i \in DOMAIN patches' : i + 1 \in DOMAIN patches /\ i \in Nat \ {0} /\ patches'[i] = patches[i + 1]
      BY <1>0, <2>1, LastOfTail
    <3>2. CASE sync = "patching"
      <4>1. Len(patches) = 1 /\ DOMAIN patches = 1..1
        BY <1>0, <3>2
      <4> QED BY <3>1, <4>1
    <3>3. CASE sync = "synchronized"
      BY <3>1, <3>3
    <3> QED BY <2>1, <3>2, <3>3
  <2> QED BY <1>3, <2>3, <2>4 DEF PatchedSysinfo
<1>4. CASE PatchFails
  <2>1. Head(patches) = patches[1] /\ patches # <<>> /\ patches' = Tail(patches)
    BY <1>0, <1>4 DEF PatchFails
  <2>2. sync = "synchronized"
    BY <1>0, <1>4, <2>1 DEF PatchFails
  <2>3. \A i \in DOMAIN patches' : patches'[i].by = "event"
    <3>1. \A i \in DOMAIN patches' : i + 1 \in DOMAIN patches /\ patches'[i] = patches[i + 1]
      BY <1>0, <2>1, LastOfTail
    <3> QED BY <2>2, <3>1
  <2> QED BY <1>4, <2>2, <2>3 DEF PatchFails
<1>5. CASE Repeat \/ Disconnected
  BY <1>5 DEF Repeat, Disconnected, BeginSynchronize
<1>6. CASE FetchesService \/ FetchesUnits \/ ServiceStoreEvent \/ SettingsRestart
  BY <1>6 DEF FetchesService, FetchesUnits, ServiceStoreEvent, SettingsRestart
<1>7. ASSUME NEW e \in BOOLEAN, SettingsEnabledPut(e) PROVE PatchesInOrder'
  BY <1>7 DEF SettingsEnabledPut
<1>8. \/ FetchAnswered("service", "serviceAnswered") \/ FetchAnswered("units", "unitsAnswered")
      => PatchesInOrder'
  BY DEF FetchAnswered
<1>9. ASSUME NEW c \in commits, CommitLands(c) \/ CommitLost(c) PROVE PatchesInOrder'
  BY <1>9 DEF CommitLands, CommitLost
<1>10. CASE EventsLost \/ OthersChange \/ UNCHANGED settingsVars
  BY <1>10 DEF EventsLost, OthersChange, settingsVars
<1> QED BY <1>1, <1>2, <1>3, <1>4, <1>5, <1>6, <1>7, <1>8, <1>9, <1>10 DEF SettingsNext

-----------------------------------------------------------------------------
(* The last patch has the unit of the copy: a change of the copy is sent if  *)
(* the controller is synchronized, and is missed if it is being patched.     *)
LEMMA NextLead ==
    ASSUME SettingsTypeOK, PatchesInOrder, PatchesLead, [SettingsNext]_settingsVars
    PROVE  PatchesLead'
<1> USE DEF PatchesLead, datastoreVars, appliedVars
<1>0. /\ patches \in Seq(Patches) /\ local \in Settings
      /\ missed \in BOOLEAN
      /\ sync \in {"off", "waiting", "patching", "synchronized"}
      /\ (sync # "off" => listening) /\ (listening => Started)
      /\ sync \in {"off", "waiting"} => patches = <<>>
      /\ sync = "patching" => patches # <<>>
  BY EmptySeq DEF SettingsTypeOK, PatchesInOrder
<1>1. CASE GlobalStoreEvent
  <2> DEFINE unit == Head(globalEvents)
             p == [unit |-> unit, by |-> "event"]
  <2>1. CASE unit = local.unit
    BY <1>1, <2>1 DEF GlobalStoreEvent, OnGlobalStoreEvent
  <2>2. CASE unit # local.unit
    <3>1. /\ local'.unit = unit /\ display' = display /\ sync' = sync
          /\ IF listening THEN ApplyGlobalSettings(unit) ELSE UNCHANGED <<converter, patches, missed>>
      BY <1>0, <1>1, <2>2 DEF GlobalStoreEvent, OnGlobalStoreEvent, Settings
    <3>2. CASE sync \in {"off", "waiting"}
      BY <1>0, <3>1, <3>2 DEF ApplyGlobalSettings
    <3>3. CASE sync = "patching"
      BY <1>0, <3>1, <3>3 DEF ApplyGlobalSettings
    <3>4. CASE sync = "synchronized"
      <4>1. patches' = Append(patches, p)
        BY <1>0, <3>1, <3>4 DEF ApplyGlobalSettings, SetSysinfoSettings
      <4>2. unit \in Units
        BY <1>1, HeadTailProperties DEF GlobalStoreEvent, SettingsTypeOK
      <4>3. p \in Patches
        BY <4>2 DEF Patches
      <4>4. patches' # <<>> /\ Last(patches') = p
        <5> HIDE DEF p
        <5> QED BY <1>0, <4>1, <4>3, LastOfAppend
      <4> QED BY <3>1, <4>4
    <3> QED BY <1>0, <3>2, <3>3, <3>4
  <2> QED BY <2>1, <2>2
<1>2. CASE SyncSysinfo
  <2> DEFINE p == [unit |-> local.unit, by |-> "sync"]
  <2>1. patches' = Append(patches, p) /\ local' = local /\ sync' = "patching"
    BY <1>2 DEF SyncSysinfo, SetSysinfoSettings
  <2>2. p \in Patches
    BY <1>0 DEF Patches, Settings
  <2>3. patches' # <<>> /\ Last(patches') = p
    <3> HIDE DEF p
    <3> QED BY <1>0, <2>1, <2>2, LastOfAppend
  <2> QED BY <2>1, <2>3
<1>3. CASE PatchedSysinfo
  <2>1. /\ patches # <<>> /\ patches' = Tail(patches) /\ display' = Head(patches).unit
        /\ UNCHANGED <<local, missed>>
    BY <1>3 DEF PatchedSysinfo
  <2>2. /\ patches' # <<>> => Last(patches') = Last(patches)
        /\ patches' = <<>> => Last(patches) = Head(patches)
    BY <1>0, <2>1, LastOfTail
  <2> QED BY <2>1, <2>2
<1>4. CASE PatchFails \/ Repeat \/ Disconnected
  BY <1>0, <1>4 DEF PatchFails, Repeat, Disconnected, BeginSynchronize
<1>5. CASE FetchesService \/ ServiceStoreEvent \/ SettingsRestart
  BY <1>0, <1>5 DEF FetchesService, ServiceStoreEvent, OnServiceStoreEvent, SettingsRestart, Settings
<1>6. CASE FetchesUnits
  <2>1. sync = "off" /\ patches = <<>>
    BY <1>0, <1>6 DEF FetchesUnits, Started
  <2> QED BY <1>6, <2>1 DEF FetchesUnits
<1>7. ASSUME NEW e \in BOOLEAN, SettingsEnabledPut(e) PROVE PatchesLead'
  BY <1>0, <1>7 DEF SettingsEnabledPut, Settings
<1>8. \/ FetchAnswered("service", "serviceAnswered") \/ FetchAnswered("units", "unitsAnswered")
      => PatchesLead'
  BY DEF FetchAnswered
<1>9. ASSUME NEW c \in commits, CommitLands(c) \/ CommitLost(c) PROVE PatchesLead'
  BY <1>9 DEF CommitLands, CommitLost
<1>10. CASE EventsLost \/ OthersChange \/ UNCHANGED settingsVars
  BY <1>10 DEF EventsLost, OthersChange, settingsVars
<1> QED BY <1>1, <1>2, <1>3, <1>4, <1>5, <1>6, <1>7, <1>8, <1>9, <1>10 DEF SettingsNext

-----------------------------------------------------------------------------
(* The copy of the flag follows the datastore, whatever commits and events   *)
(* are under way and whichever way they overtake each other.                 *)
LEMMA NextServiceAgrees ==
    ASSUME SettingsTypeOK, ServiceAgrees, [SettingsNext]_settingsVars
    PROVE  ServiceAgrees'
<1> USE DEF ServiceAgrees, Undisturbed, datastoreVars, appliedVars
<1>0. /\ serviceEvents \in Seq(BOOLEAN) /\ local \in Settings /\ stored \in Settings
      /\ fetch \in [at: Fetches, answer: Settings]
      /\ lost \in BOOLEAN /\ overtaken \in BOOLEAN
  BY DEF SettingsTypeOK
<1>1. ASSUME NEW e \in BOOLEAN, stored'.enabled = e, serviceEvents' = Append(serviceEvents, e)
      PROVE  ServiceAgrees'
  BY <1>0, <1>1, LastOfAppend
<1>2. ASSUME NEW c \in commits, CommitLands(c) PROVE ServiceAgrees'
  <2>1. c.enabled \in BOOLEAN
    BY DEF SettingsTypeOK
  <2> QED BY <1>0, <1>1, <1>2, <2>1 DEF CommitLands, Settings
<1>3. CASE OthersChange
  <2>1. CASE \E e \in BOOLEAN : /\ stored' = [stored EXCEPT !.enabled = e]
                                /\ serviceEvents' = Append(serviceEvents, e)
    BY <1>0, <1>1, <2>1 DEF Settings
  <2>2. CASE \E unit \in Units : /\ stored' = [stored EXCEPT !.unit = unit]
                                 /\ UNCHANGED serviceEvents
    BY <1>0, <1>3, <2>2 DEF OthersChange, Settings
  <2> QED BY <1>3, <2>1, <2>2 DEF OthersChange
<1>4. CASE ServiceStoreEvent
  <2>1. /\ serviceEvents # <<>> /\ serviceEvents' = Tail(serviceEvents)
        /\ UNCHANGED <<stored, commits, fetch, lost>>
        /\ overtaken' = (overtaken \/ fetch.at = "serviceAnswered")
    BY <1>4 DEF ServiceStoreEvent, OnServiceStoreEvent
  <2>2. local'.enabled = Head(serviceEvents)
    BY <1>0, <1>4 DEF ServiceStoreEvent, OnServiceStoreEvent, Settings
  <2>3. /\ serviceEvents' # <<>> => Last(serviceEvents') = Last(serviceEvents)
        /\ serviceEvents' = <<>> => Last(serviceEvents) = Head(serviceEvents)
    BY <1>0, <2>1, LastOfTail
  <2> QED BY <1>0, <2>1, <2>2, <2>3
<1>5. CASE GlobalStoreEvent
  <2>1. local'.enabled = local.enabled /\ (~overtaken' => ~overtaken)
    BY <1>0, <1>5 DEF GlobalStoreEvent, OnGlobalStoreEvent, Settings
  <2> QED BY <1>0, <1>5, <2>1 DEF GlobalStoreEvent
<1>6. ASSUME NEW e \in BOOLEAN, SettingsEnabledPut(e) PROVE ServiceAgrees'
  BY <1>0, <1>6 DEF SettingsEnabledPut
<1>7. \/ FetchAnswered("service", "serviceAnswered") \/ FetchAnswered("units", "unitsAnswered")
      => ServiceAgrees'
  BY <1>0 DEF FetchAnswered
<1>8. CASE FetchesService \/ FetchesUnits
  BY <1>0, <1>8 DEF FetchesService, FetchesUnits, Settings, Fetches
<1>9. CASE SettingsRestart
  BY <1>9 DEF SettingsRestart
<1>10. ASSUME NEW c \in commits, CommitLost(c) PROVE ServiceAgrees'
  BY <1>10 DEF CommitLost
<1>11. CASE Repeat \/ SyncSysinfo \/ PatchedSysinfo \/ Disconnected \/ PatchFails
  BY <1>11 DEF Repeat, SyncSysinfo, PatchedSysinfo, Disconnected, PatchFails
<1>12. CASE EventsLost \/ UNCHANGED settingsVars
  BY <1>12 DEF EventsLost, settingsVars
<1> QED BY <1>2, <1>3, <1>4, <1>5, <1>6, <1>7, <1>8, <1>9, <1>10, <1>11, <1>12 DEF SettingsNext

LEMMA NextUnitAgrees ==
    ASSUME SettingsTypeOK, UnitAgrees, [SettingsNext]_settingsVars
    PROVE  UnitAgrees'
<1> USE DEF UnitAgrees, Undisturbed, Started, datastoreVars, appliedVars
<1>0. /\ globalEvents \in Seq(Units) /\ local \in Settings /\ stored \in Settings
      /\ fetch \in [at: Fetches, answer: Settings]
      /\ lost \in BOOLEAN /\ overtaken \in BOOLEAN
  BY DEF SettingsTypeOK
<1>1. ASSUME NEW c \in commits, CommitLands(c) PROVE UnitAgrees'
  BY <1>0, <1>1 DEF CommitLands, Settings
<1>2. CASE OthersChange
  <2>1. CASE \E e \in BOOLEAN : /\ stored' = [stored EXCEPT !.enabled = e]
                                /\ UNCHANGED globalEvents
    BY <1>0, <1>2, <2>1 DEF OthersChange, Settings
  <2>2. CASE \E unit \in Units : /\ stored' = [stored EXCEPT !.unit = unit]
                                 /\ globalEvents' = Append(globalEvents, unit)
    BY <1>0, <2>2, LastOfAppend DEF Settings
  <2> QED BY <1>2, <2>1, <2>2 DEF OthersChange
<1>3. CASE GlobalStoreEvent
  <2>1. /\ globalEvents # <<>> /\ globalEvents' = Tail(globalEvents)
        /\ UNCHANGED <<stored, fetch, lost>>
        /\ overtaken' = (overtaken \/ fetch.at = "unitsAnswered")
    BY <1>3 DEF GlobalStoreEvent, OnGlobalStoreEvent
  <2>2. local'.unit = Head(globalEvents)
    BY <1>0, <1>3 DEF GlobalStoreEvent, OnGlobalStoreEvent, Settings
  <2>3. /\ globalEvents' # <<>> => Last(globalEvents') = Last(globalEvents)
        /\ globalEvents' = <<>> => Last(globalEvents) = Head(globalEvents)
    BY <1>0, <2>1, LastOfTail
  <2> QED BY <1>0, <2>1, <2>2, <2>3
<1>4. CASE ServiceStoreEvent
  <2>1. local'.unit = local.unit /\ (~overtaken' => ~overtaken)
    BY <1>0, <1>4 DEF ServiceStoreEvent, OnServiceStoreEvent, Settings
  <2> QED BY <1>0, <1>4, <2>1 DEF ServiceStoreEvent
<1>5. ASSUME NEW e \in BOOLEAN, SettingsEnabledPut(e) PROVE UnitAgrees'
  BY <1>0, <1>5 DEF SettingsEnabledPut, Settings
<1>6. \/ FetchAnswered("service", "serviceAnswered") \/ FetchAnswered("units", "unitsAnswered")
      => UnitAgrees'
  BY <1>0 DEF FetchAnswered
<1>7. CASE FetchesService \/ FetchesUnits
  BY <1>0, <1>7 DEF FetchesService, FetchesUnits, Settings, Fetches
<1>8. CASE SettingsRestart
  BY <1>8 DEF SettingsRestart
<1>9. ASSUME NEW c \in commits, CommitLost(c) PROVE UnitAgrees'
  BY <1>9 DEF CommitLost
<1>10. CASE Repeat \/ SyncSysinfo \/ PatchedSysinfo \/ Disconnected \/ PatchFails
  BY <1>10 DEF Repeat, SyncSysinfo, PatchedSysinfo, Disconnected, PatchFails
<1>11. CASE EventsLost \/ UNCHANGED settingsVars
  BY <1>11 DEF EventsLost, settingsVars
<1> QED BY <1>1, <1>2, <1>3, <1>4, <1>5, <1>6, <1>7, <1>8, <1>9, <1>10, <1>11 DEF SettingsNext

-----------------------------------------------------------------------------
(* The settings are consistent in every state, for any units and any number  *)
(* of changes, losses and restarts.                                          *)
THEOREM SettingsInvariant == SettingsSpec => []SettingsInv
<1>1. SettingsInit => SettingsInv
  BY InitSettings
<1>2. SettingsInv /\ [SettingsNext]_settingsVars => SettingsInv'
  BY NextSettingsType, NextApplied, NextServiceAgrees, NextUnitAgrees, NextOrder, NextLead
     DEF SettingsInv
<1> QED BY <1>1, <1>2, PTL DEF SettingsSpec

(* The variables of the store and its users keep their types.                *)
THEOREM SettingsTypes == SettingsSpec => []SettingsTypeOK
<1>1. SettingsInv => SettingsTypeOK
  BY DEF SettingsInv
<1> QED BY <1>1, SettingsInvariant, PTL

(* The state machine and the converter have the settings of the copy         *)
(* (synchronization.py, _apply_service_settings, _apply_global_settings).    *)
THEOREM AppliedAlways == SettingsSpec => []SettingsApplied
<1>1. SettingsInv => SettingsApplied
  BY DEF SettingsInv
<1> QED BY <1>1, SettingsInvariant, PTL

(* The copy agrees with the datastore when nothing is under way              *)
(* (datastore_settings.py).                                                  *)
THEOREM AgreesWithDatastore == SettingsSpec => []LocalAgrees
<1>1. SettingsInv => LocalAgrees
  <2> SUFFICES ASSUME SettingsInv, Started, commits = {}, ~lost, ~overtaken,
                      serviceEvents = <<>>, globalEvents = <<>>
               PROVE  local = stored
    BY DEF LocalAgrees
  <2>1. local.enabled = stored.enabled /\ local.unit = stored.unit
    BY DEF SettingsInv, ServiceAgrees, UnitAgrees, Undisturbed, Started
  <2>2. local \in Settings /\ stored \in Settings
    BY DEF SettingsInv, SettingsTypeOK
  <2> QED BY <2>1, <2>2 DEF Settings
<1> QED BY <1>1, SettingsInvariant, PTL

(* A synchronized controller has the unit, unless its change was missed      *)
(* (synchronization.py, set_sysinfo_settings).                               *)
THEOREM ControllerHasUnit == SettingsSpec => []SynchronizedUnit
<1>1. SettingsInv => SynchronizedUnit
  BY DEF SettingsInv, PatchesLead, SynchronizedUnit
<1> QED BY <1>1, SettingsInvariant, PTL

-----------------------------------------------------------------------------
(* The connection task and the settings beside each other, one moving at a   *)
(* time, are each of them what they are alone.                               *)
LEMMA EachByItself == ServiceStateSpec => HandlerSpec /\ SettingsSpec
<1>1. ServiceStateInit => HandlerInit /\ SettingsInit
  BY DEF ServiceStateInit
<1>2. [ServiceStateNext]_<<active, handlerVars, settingsVars>>
      => [HandlerNext]_handlerVars /\ [SettingsNext]_settingsVars
  BY DEF ServiceStateNext
<1> QED BY <1>1, <1>2, PTL DEF ServiceStateSpec, HandlerSpec, SettingsSpec

(* The state of the connection task (state_machine.py, calc_interval()) and  *)
(* that of the settings (datastore_settings.py) keep their types.            *)
THEOREM ServiceStateTypes == ServiceStateSpec => []ServiceStateTypeOK
<1>1. (HandlerTypeOK /\ BackoffBounded) /\ SettingsTypeOK => ServiceStateTypeOK
  BY DEF ServiceStateTypeOK
<1> QED BY <1>1, EachByItself, BackoffStaysBounded, SettingsTypes, PTL
=============================================================================
