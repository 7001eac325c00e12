-------------------------- MODULE ConnectionHandler --------------------------
(***************************************************************************)
(* The connection task and the state machine it drives:                    *)
(* connection/connection_handler.py and state_machine.py.                  *)
(*                                                                         *)
(* ConnectionHandler.repeat() runs run() over and over; the other tasks of *)
(* the service see it only through the state machine, through reset() and  *)
(* end(), and through the transport it opened.  This module has one action *)
(* per stretch of run() and repeat() between two awaits, one per call the  *)
(* other tasks make, and one for what the transport does by itself; it     *)
(* allows those calls in any order.  Lifecycle.tla says who makes them.    *)
(***************************************************************************)
EXTENDS StateMachine, Naturals

CONSTANTS
    ConnectInterval,    \* connect_interval
    ConnectIntervalMax, \* connect_interval_max
    BackoffNum,         \* connect_backoff, as the fraction
    BackoffDen          \*   BackoffNum / BackoffDen

ASSUME IntervalAssumption ==
    /\ ConnectInterval \in Nat \ {0}
    /\ ConnectIntervalMax \in Nat
    /\ ConnectInterval <= ConnectIntervalMax
    /\ BackoffNum \in Nat
    /\ BackoffDen \in Nat \ {0}
    /\ BackoffNum >= BackoffDen

VARIABLES
    state,      \* the StateMachine
    handler,    \* where ConnectionHandler.repeat() is suspended
    implLost,   \* _impl.disconnected is set, or will be: _impl was closed
    enabled,    \* ConnectionHandler._enabled
    interval    \* ConnectionHandler._interval

handlerVars == <<state, handler, implLost, enabled, interval>>

HandlerStates == {"wait_enabled", "connecting", "connected", "sleeping", "ended"}

HandlerTypeOK ==
    /\ state \in State
    /\ handler \in HandlerStates
    /\ implLost \in BOOLEAN
    /\ enabled \in BOOLEAN
    /\ interval \in 0..ConnectIntervalMax

(* __init__ of both classes; repeat() starts when the app does. *)
HandlerInit ==
    /\ state = InitialState
    /\ handler = "wait_enabled"
    /\ implLost = FALSE
    /\ enabled = TRUE
    /\ interval = ConnectInterval

MutantUncappedInterval(value) == (value * BackoffNum) \div BackoffDen

(* calc_interval(value) for a value that is not None *)
CalcInterval(value) ==
    IF value = 0 THEN ConnectInterval
    ELSE LET next == (value * BackoffNum) \div BackoffDen
         IN  IF next <= ConnectIntervalMax THEN next ELSE ConnectIntervalMax

(* The property ConnectionHandler.connected: _impl is set while run() waits  *)
(* for it to disconnect, and its connected event is never cleared.           *)
HasImpl == handler = "connected"

(* wait_enabled() returned: run() calls connect(). *)
HandlerEnabled ==
    /\ handler = "wait_enabled"
    /\ state.enabled
    /\ handler' = "connecting"
    /\ UNCHANGED <<state, implLost, enabled, interval>>

MutantIntervalKept ==
    /\ handler = "connecting"
    /\ handler' = "connected"
    /\ state' = SetConnected(state)
    /\ implLost' = FALSE
    /\ UNCHANGED <<enabled, interval>>

(* connect() returned a transport. *)
HandlerConnected ==
    /\ handler = "connecting"
    /\ handler' = "connected"
    /\ state' = SetConnected(state)
    /\ implLost' = FALSE
    /\ interval' = ConnectInterval
    /\ UNCHANGED enabled

(* connect() raised: a discovery timeout backs off, another error does not. *)
HandlerConnectFailed ==
    /\ handler = "connecting"
    /\ interval' \in {interval, CalcInterval(interval)}
    /\ handler' = "sleeping"
    /\ state' = SetDisconnected(state)
    /\ UNCHANGED <<implLost, enabled>>

(* _impl.disconnected was set: run() cleans up. *)
HandlerDisconnected ==
    /\ HasImpl
    /\ implLost
    /\ handler' = "sleeping"
    /\ state' = SetDisconnected(state)
    /\ implLost' = FALSE
    /\ UNCHANGED <<enabled, interval>>

MutantWakesAlways ==
    /\ handler = "sleeping"
    /\ handler' = "wait_enabled"
    /\ UNCHANGED <<state, implLost, enabled, interval>>

(* The sleep between two runs is over. *)
HandlerWakes ==
    /\ handler = "sleeping"
    /\ handler' = IF enabled THEN "wait_enabled" ELSE "ended"
    /\ UNCHANGED <<state, implLost, enabled, interval>>

(* The transport is lost by itself. *)
TransportLost ==
    /\ HasImpl
    /\ implLost' = TRUE
    /\ UNCHANGED <<state, handler, enabled, interval>>

(* The first half of reset(): close the transport if there is one.  The     *)
(* caller then waits for the disconnected event.                            *)
ResetConnection ==
    /\ implLost' = (implLost \/ HasImpl)
    /\ UNCHANGED <<state, handler, enabled, interval>>

MutantEndIsReset ==
    /\ implLost' = (implLost \/ HasImpl)
    /\ UNCHANGED <<state, handler, enabled, interval>>

(* end(): no run after this one, and reset(). *)
EndConnection ==
    /\ enabled' = FALSE
    /\ implLost' = (implLost \/ HasImpl)
    /\ UNCHANGED <<state, handler, interval>>

EnableState(b) ==
    /\ state' = SetEnabled(state, b)
    /\ UNCHANGED <<handler, implLost, enabled, interval>>

(* CboxCommander._on_event got a welcome message over the transport. *)
Acknowledge(h) ==
    /\ HasImpl
    /\ state' = SetAcknowledged(state, h)
    /\ UNCHANGED <<handler, implLost, enabled, interval>>

MutantSynchronizeUnchecked ==
    /\ state' = SetSynchronized(state)
    /\ UNCHANGED <<handler, implLost, enabled, interval>>

Synchronize ==
    /\ state.acknowledged
    /\ state' = SetSynchronized(state)
    /\ UNCHANGED <<handler, implLost, enabled, interval>>

StartUpdating ==
    /\ state.acknowledged
    /\ state' = SetUpdating(state)
    /\ UNCHANGED <<handler, implLost, enabled, interval>>

(* The process is stopped and started again: a fresh StateMachine and       *)
(* ConnectionHandler.                                                       *)
HandlerRestart ==
    /\ state' = InitialState
    /\ handler' = "wait_enabled"
    /\ implLost' = FALSE
    /\ enabled' = TRUE
    /\ interval' = ConnectInterval

HandlerNext ==
    \/ HandlerEnabled
    \/ HandlerConnected
    \/ HandlerConnectFailed
    \/ HandlerDisconnected
    \/ HandlerWakes
    \/ TransportLost
    \/ ResetConnection
    \/ EndConnection
    \/ \E b \in BOOLEAN : EnableState(b)
    \/ \E h \in Handshakes : Acknowledge(h)
    \/ Synchronize
    \/ StartUpdating
    \/ HandlerRestart

HandlerSpec == HandlerInit /\ [][HandlerNext]_handlerVars

-----------------------------------------------------------------------------
(* The six events agree with each other and with the task that drives them: *)
(* a later event implies the earlier ones, so no caller of wait_*() or of   *)
(* is_*() can be told of a level the connection does not have.              *)
EventsConsistent ==
    /\ state.connected <=> HasImpl
    /\ state.disconnected <=> ~state.connected
    /\ state.acknowledged => state.connected
    /\ state.synchronized => state.acknowledged
    /\ state.updating => state.acknowledged

(* The reported description is that of the controller now connected: errors *)
(* and controller are those of its handshake, and a disconnected service    *)
(* reports none of the previous controller.                                 *)
DescriptionCurrent ==
    IF state.acknowledged
    THEN /\ state.controller \in Handshakes
         /\ state.firmware_error = FirmwareError(state.controller)
         /\ state.identity_error = IdentityError(state.controller)
    ELSE /\ state.controller = NoController
         /\ state.firmware_error = "none"
         /\ state.identity_error = "none"

(* Outside a firmware update the reported status is the level of the        *)
(* events, though each set_* method writes the two separately.              *)
StatusMatchesEvents ==
    ~state.updating =>
        CASE state.synchronized -> state.status = "SYNCHRONIZED"
          [] state.acknowledged /\ ~state.synchronized -> state.status = "ACKNOWLEDGED"
          [] state.connected /\ ~state.acknowledged -> state.status = "CONNECTED"
          [] state.disconnected -> state.status = "DISCONNECTED"

(* Both at all times: what a user is told of the controller is true.        *)
StatusConsistent == DescriptionCurrent /\ StatusMatchesEvents

(* The pause before the next attempt stays between the configured bounds,   *)
(* and a connection that was made forgets the back-off of earlier failures. *)
BackoffBounded ==
    /\ interval \in ConnectInterval..ConnectIntervalMax
    /\ HasImpl => interval = ConnectInterval

HandlerInv ==
    /\ HandlerTypeOK
    /\ EventsConsistent
    /\ DescriptionCurrent
    /\ StatusMatchesEvents
    /\ BackoffBounded

(* The handler and its state machine implement the abstract service level.  *)
Abstract == INSTANCE ServiceLevel WITH level <- Level(state),
                                       updating <- state.updating

ImplementsServiceLevel == Abstract!Spec

(* After end() the task makes at most the connection attempt it is already  *)
(* in: it never starts another one (unless the process is restarted).       *)
NoAttemptAfterEnd ==
    [][~enabled /\ ~enabled' /\ handler = "sleeping" => handler' \in {"sleeping", "ended"}]_handlerVars
=============================================================================
