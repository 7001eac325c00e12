--------------------------- MODULE MCServiceState ---------------------------
(***************************************************************************)
(* ConnectionHandler and SettingsStore for TLC, each by itself: active is  *)
(* the one that moves.  Lifecycle has what the one does to the other.      *)
(***************************************************************************)
EXTENDS ConnectionHandler, SettingsStore

VARIABLE active

MCHandshakes == [proto: BOOLEAN, version: BOOLEAN, device: BOOLEAN]

ServiceStateInit ==
    /\ active \in {"handler", "settings"}
    /\ HandlerInit /\ SettingsInit
    /\ active = "handler" => stored = Defaults /\ display = DefaultUnit

ServiceStateNext ==
    /\ UNCHANGED active
    /\ \/ active = "handler" /\ HandlerNext /\ UNCHANGED settingsVars
       \/ active = "settings" /\ SettingsNext /\ UNCHANGED handlerVars

ServiceStateSpec == ServiceStateInit /\ [][ServiceStateNext]_<<active, handlerVars, settingsVars>>

(* Every variable of the two has its type, and the back-off its bounds: that *)
(* of calc_interval() neither grows past them nor survives a connection.     *)
ServiceStateTypeOK == HandlerTypeOK /\ BackoffBounded /\ SettingsTypeOK
=============================================================================
