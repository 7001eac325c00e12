----------------------- MODULE ConnectionHandlerProofs -----------------------
(***************************************************************************)
(* HandlerInv is an invariant of HandlerSpec, and HandlerSpec implements   *)
(* ServiceLevel, for every set of handshakes and every configuration.      *)
(***************************************************************************)
EXTENDS ConnectionHandler, TLAPS

(* Multiplication by a natural number is monotonic. *)
LEMMA TimesMonotonic ==
    ASSUME NEW x \in Nat, NEW y \in Nat, NEW k \in Nat, x <= y
    PROVE  x * k <= y * k
<1>1. PICK d \in Nat : y = x + d
  <2>1. y - x \in Nat
    OBVIOUS
  <2> QED BY <2>1
<1>2. y * k = x * k + d * k
  BY <1>1
<1>3. d * k \in Nat /\ x * k \in Nat
  OBVIOUS
<1> QED BY <1>2, <1>3

(* The two facts about \div that the back-off rests on. *)
LEMMA DivBounds ==
    ASSUME NEW a \in Nat, NEW b \in Nat \ {0}
    PROVE  a \div b \in Nat /\ a < ((a \div b) + 1) * b
OBVIOUS

(* calc_interval() keeps an interval between the configured bounds: the     *)
(* back-off factor is at least one, so it never makes the pause shorter.    *)
LEMMA CalcIntervalBounded ==
    ASSUME NEW value \in ConnectInterval..ConnectIntervalMax
    PROVE  CalcInterval(value) \in ConnectInterval..ConnectIntervalMax
<1> USE IntervalAssumption
<1> DEFINE next == (value * BackoffNum) \div BackoffDen
<1>1. value \in Nat /\ value * BackoffNum \in Nat
  OBVIOUS
<1>2. next \in Nat /\ value * BackoffNum < (next + 1) * BackoffDen
  BY <1>1, DivBounds
<1>3. value * BackoffDen <= value * BackoffNum
  <2>1. BackoffDen * value <= BackoffNum * value
    BY <1>1, TimesMonotonic
  <2> QED BY <2>1, <1>1
<1>4. value <= next
  <2> SUFFICES ASSUME ~(value <= next) PROVE FALSE
    OBVIOUS
  <2>1. next + 1 \in Nat /\ next + 1 <= value
    BY <1>1, <1>2
  <2>2. (next + 1) * BackoffDen <= value * BackoffDen
    BY <1>1, <2>1, TimesMonotonic
  <2>3. (next + 1) * BackoffDen \in Nat /\ value * BackoffDen \in Nat
    BY <1>1, <2>1
  <2> QED BY <1>1, <1>2, <1>3, <2>2, <2>3
<1> QED BY <1>1, <1>2, <1>4 DEF CalcInterval

-----------------------------------------------------------------------------
(* The operators of the state machine keep its type. *)
LEMMA InitialStateType == InitialState \in State
BY DEF InitialState, State, Statuses

LEMMA StateOperatorsType ==
    ASSUME NEW s \in State
    PROVE  /\ SetConnected(s) \in State
           /\ SetSynchronized(s) \in State
           /\ SetUpdating(s) \in State
           /\ SetDisconnected(s) \in State
<1>1. /\ SetConnected(s) \in State
      /\ SetSynchronized(s) \in State
      /\ SetUpdating(s) \in State
  BY DEF SetConnected, SetSynchronized, SetUpdating, State, Statuses
<1>2. SetDisconnected(s) \in State
  BY DEF SetDisconnected, State, Statuses
<1> QED BY <1>1, <1>2

LEMMA SetEnabledType ==
    ASSUME NEW s \in State, NEW b \in BOOLEAN
    PROVE  SetEnabled(s, b) \in State
BY DEF SetEnabled, State, Statuses

LEMMA SetAcknowledgedType ==
    ASSUME NEW s \in State, NEW h \in Handshakes
    PROVE  SetAcknowledged(s, h) \in State
<1>1. /\ FirmwareError(h) \in {"none", "MISMATCHED", "INCOMPATIBLE"}
      /\ IdentityError(h) \in {"none", "WILDCARD_ID", "INCOMPATIBLE"}
  BY DEF FirmwareError, IdentityError
<1> QED BY <1>1 DEF SetAcknowledged, State, Statuses

(* The invariant holds when the service has just started... *)
LEMMA InitInv ==
    HandlerInit => HandlerInv
<1> SUFFICES ASSUME HandlerInit PROVE HandlerInv
  OBVIOUS
<1>1. HandlerTypeOK
  <2>1. interval \in 0..ConnectIntervalMax
    BY IntervalAssumption DEF HandlerInit
  <2> QED BY <2>1, InitialStateType DEF HandlerInit, HandlerTypeOK, HandlerStates
<1>2. EventsConsistent /\ DescriptionCurrent /\ StatusMatchesEvents
  BY DEF HandlerInit, InitialState, EventsConsistent, DescriptionCurrent,
     StatusMatchesEvents, HasImpl
<1>3. BackoffBounded
  BY IntervalAssumption DEF HandlerInit, BackoffBounded, HasImpl
<1> QED BY <1>1, <1>2, <1>3 DEF HandlerInv

(* ... every step keeps the type ...                                         *)
LEMMA NextType ==
    HandlerInv /\ [HandlerNext]_handlerVars => HandlerTypeOK'
<1> SUFFICES ASSUME HandlerInv, [HandlerNext]_handlerVars PROVE HandlerTypeOK'
  OBVIOUS
<1> USE DEF HandlerTypeOK, HandlerStates
<1>0. HandlerTypeOK /\ interval \in ConnectInterval..ConnectIntervalMax
  BY DEF HandlerInv, BackoffBounded
<1>1. ConnectInterval \in 0..ConnectIntervalMax
  BY IntervalAssumption
<1>2. CASE HandlerEnabled
  BY <1>0, <1>2 DEF HandlerEnabled
<1>3. CASE HandlerConnected
  BY <1>0, <1>1, <1>3, StateOperatorsType DEF HandlerConnected
<1>4. CASE HandlerConnectFailed
  <2>1. CalcInterval(interval) \in 0..ConnectIntervalMax
    BY <1>0, CalcIntervalBounded, IntervalAssumption
  <2> QED BY <1>0, <1>4, <2>1, StateOperatorsType DEF HandlerConnectFailed
<1>5. CASE HandlerDisconnected
  BY <1>0, <1>5, StateOperatorsType DEF HandlerDisconnected
<1>6. CASE HandlerWakes
  BY <1>0, <1>6 DEF HandlerWakes
<1>7. CASE TransportLost
  BY <1>0, <1>7 DEF TransportLost
<1>8. CASE ResetConnection \/ EndConnection
  BY <1>0, <1>8 DEF ResetConnection, EndConnection, HasImpl
<1>9. ASSUME NEW b \in BOOLEAN, EnableState(b) PROVE HandlerTypeOK'
  BY <1>0, <1>9, SetEnabledType DEF EnableState
<1>10. ASSUME NEW h \in Handshakes, Acknowledge(h) PROVE HandlerTypeOK'
  BY <1>0, <1>10, SetAcknowledgedType DEF Acknowledge
<1>11. CASE Synchronize \/ StartUpdating
  BY <1>0, <1>11, StateOperatorsType DEF Synchronize, StartUpdating
<1>12. CASE HandlerRestart
  BY <1>0, <1>1, <1>12, InitialStateType DEF HandlerRestart
<1>13. CASE UNCHANGED handlerVars
  BY <1>0, <1>13 DEF handlerVars
<1> QED BY <1>2, <1>3, <1>4, <1>5, <1>6, <1>7, <1>8, <1>9, <1>10, <1>11, <1>12,
           <1>13 DEF HandlerNext

(* ... the agreement of events, description and status ...                   *)
StateInv == EventsConsistent /\ DescriptionCurrent /\ StatusMatchesEvents

LEMMA NextState ==
    HandlerInv /\ [HandlerNext]_handlerVars => StateInv'
<1> SUFFICES ASSUME HandlerInv, [HandlerNext]_handlerVars PROVE StateInv'
  OBVIOUS
<1> USE DEF StateInv, EventsConsistent, DescriptionCurrent, StatusMatchesEvents, HasImpl
<1>0. StateInv /\ state \in State
  BY DEF HandlerInv, HandlerTypeOK
<1>1. CASE HandlerEnabled
  BY <1>0, <1>1 DEF HandlerEnabled
<1>2. CASE HandlerConnected
  BY <1>0, <1>2 DEF HandlerConnected, SetConnected, State
<1>3. CASE HandlerConnectFailed \/ HandlerDisconnected
  BY <1>0, <1>3 DEF HandlerConnectFailed, HandlerDisconnected, SetDisconnected, State
<1>4. CASE HandlerWakes
  BY <1>0, <1>4 DEF HandlerWakes
<1>5. CASE TransportLost \/ ResetConnection \/ EndConnection
  BY <1>0, <1>5 DEF TransportLost, ResetConnection, EndConnection
<1>6. ASSUME NEW b \in BOOLEAN, EnableState(b) PROVE StateInv'
  BY <1>0, <1>6 DEF EnableState, SetEnabled, State
<1>7. ASSUME NEW h \in Handshakes, Acknowledge(h) PROVE StateInv'
  <2>1. CASE state.synchronized
    BY <1>0, <1>7, <2>1 DEF Acknowledge, SetAcknowledged
  <2>2. CASE ~state.synchronized
    BY <1>0, <1>7, <2>2 DEF Acknowledge, SetAcknowledged, State
  <2> QED BY <2>1, <2>2
<1>8. CASE Synchronize
  BY <1>0, <1>8 DEF Synchronize, SetSynchronized, State
<1>9. CASE StartUpdating
  BY <1>0, <1>9 DEF StartUpdating, SetUpdating, State
<1>10. CASE HandlerRestart
  BY <1>0, <1>10 DEF HandlerRestart, InitialState
<1>11. CASE UNCHANGED handlerVars
  BY <1>0, <1>11 DEF handlerVars
<1> QED BY <1>1, <1>2, <1>3, <1>4, <1>5, <1>6, <1>7, <1>8, <1>9, <1>10, <1>11
        DEF HandlerNext

(* ... and the bounds of the back-off.                                       *)
LEMMA NextBackoff ==
    HandlerInv /\ [HandlerNext]_handlerVars => BackoffBounded'
<1> SUFFICES ASSUME HandlerInv, [HandlerNext]_handlerVars PROVE BackoffBounded'
  OBVIOUS
<1> USE DEF BackoffBounded, HasImpl
<1>0. BackoffBounded
  BY DEF HandlerInv
<1>1. ConnectInterval \in ConnectInterval..ConnectIntervalMax
  BY IntervalAssumption
<1>2. CASE HandlerConnectFailed
  <2>1. CalcInterval(interval) \in ConnectInterval..ConnectIntervalMax
    BY <1>0, CalcIntervalBounded
  <2> QED BY <1>0, <1>2, <2>1 DEF HandlerConnectFailed
<1>3. CASE HandlerConnected \/ HandlerRestart
  BY <1>1, <1>3 DEF HandlerConnected, HandlerRestart
<1>4. CASE HandlerEnabled \/ HandlerDisconnected \/ HandlerWakes
  BY <1>0, <1>4 DEF HandlerEnabled, HandlerDisconnected, HandlerWakes
<1>5. CASE TransportLost \/ ResetConnection \/ EndConnection \/ Synchronize \/ StartUpdating
  BY <1>0, <1>5 DEF TransportLost, ResetConnection, EndConnection, Synchronize,
     StartUpdating
<1>6. ASSUME NEW b \in BOOLEAN, EnableState(b) PROVE BackoffBounded'
  BY <1>0, <1>6 DEF EnableState
<1>7. ASSUME NEW h \in Handshakes, Acknowledge(h) PROVE BackoffBounded'
  BY <1>0, <1>7 DEF Acknowledge
<1>8. CASE UNCHANGED handlerVars
  BY <1>0, <1>8 DEF handlerVars
<1> QED BY <1>2, <1>3, <1>4, <1>5, <1>6, <1>7, <1>8 DEF HandlerNext

(* Events, description, status and back-off are consistent in every state   *)
(* of the connection task, whatever the other tasks call and when.          *)
THEOREM HandlerInvariant == HandlerSpec => []HandlerInv
<1>1. HandlerInit => HandlerInv
  BY InitInv
<1>2. HandlerInv /\ [HandlerNext]_handlerVars => HandlerInv'
  BY NextType, NextState, NextBackoff DEF HandlerInv, StateInv
<1> QED BY <1>1, <1>2, PTL DEF HandlerSpec

(* The six events agree with each other and with the connection task        *)
(* (state_machine.py).                                                      *)
THEOREM EventsAlwaysConsistent == HandlerSpec => []EventsConsistent
<1>1. HandlerInv => EventsConsistent
  BY DEF HandlerInv
<1> QED BY <1>1, HandlerInvariant, PTL

(* What a user is told of the controller is true: errors, controller and    *)
(* status are those of the handshake and the events (state_machine.py).     *)
THEOREM StatusAlwaysConsistent == HandlerSpec => []StatusConsistent
<1>1. HandlerInv => StatusConsistent
  BY DEF HandlerInv, StatusConsistent
<1> QED BY <1>1, HandlerInvariant, PTL

(* The pause between two attempts stays within the configured bounds, for    *)
(* every back-off factor of at least one (calc_interval()).                  *)
THEOREM BackoffStaysBounded == HandlerSpec => [](HandlerTypeOK /\ BackoffBounded)
<1>1. HandlerInv => HandlerTypeOK /\ BackoffBounded
  BY DEF HandlerInv
<1> QED BY <1>1, HandlerInvariant, PTL

-----------------------------------------------------------------------------
(* A step of the connection task is a step of the service level, or leaves   *)
(* it alone.                                                                 *)
LEMMA StepRefinement ==
    HandlerInv /\ [HandlerNext]_handlerVars => [Abstract!Next]_(Abstract!vars)
<1> SUFFICES ASSUME HandlerInv, [HandlerNext]_handlerVars
             PROVE  [Abstract!Next]_(Abstract!vars)
  OBVIOUS
<1> USE DEF Abstract!Next, Abstract!Advance, Abstract!Revert, Abstract!StartUpdate,
            Abstract!vars, Level
<1>0. state \in State /\ EventsConsistent
  BY DEF HandlerInv, HandlerTypeOK
<1>1. CASE UNCHANGED state
  BY <1>1
<1>2. CASE HandlerConnected
  BY <1>0, <1>2 DEF HandlerConnected, SetConnected, State, EventsConsistent, HasImpl
<1>3. CASE HandlerConnectFailed \/ HandlerDisconnected
  BY <1>0, <1>3 DEF HandlerConnectFailed, HandlerDisconnected, SetDisconnected, State
<1>4. ASSUME NEW b \in BOOLEAN, EnableState(b) PROVE UNCHANGED Abstract!vars
  BY <1>0, <1>4 DEF EnableState, SetEnabled, State
<1>5. ASSUME NEW h \in Handshakes, Acknowledge(h)
      PROVE  [Abstract!Next]_(Abstract!vars)
  <2>1. CASE state.synchronized
    BY <1>1, <1>5, <2>1 DEF Acknowledge, SetAcknowledged
  <2>2. CASE ~state.synchronized
    BY <1>0, <1>5, <2>2 DEF Acknowledge, SetAcknowledged, State, EventsConsistent,
       HasImpl
  <2> QED BY <2>1, <2>2
<1>6. CASE Synchronize
  BY <1>0, <1>6 DEF Synchronize, SetSynchronized, State, EventsConsistent
<1>7. CASE StartUpdating
  BY <1>0, <1>7 DEF StartUpdating, SetUpdating, State, EventsConsistent
<1>8. CASE HandlerRestart
  BY <1>8 DEF HandlerRestart, InitialState
<1>9. CASE HandlerEnabled \/ HandlerWakes \/ TransportLost \/ ResetConnection
           \/ EndConnection \/ UNCHANGED handlerVars
  BY <1>1, <1>9 DEF HandlerEnabled, HandlerWakes, TransportLost, ResetConnection,
     EndConnection, handlerVars
<1> QED BY <1>2, <1>3, <1>4, <1>5, <1>6, <1>7, <1>8, <1>9 DEF HandlerNext

(* The service climbs one level at a time and falls back to disconnected, as *)
(* synchronization.py describes it.                                          *)
THEOREM HandlerImplementsServiceLevel == HandlerSpec => ImplementsServiceLevel
<1>1. HandlerInit => Abstract!Init
  BY DEF HandlerInit, InitialState, Abstract!Init, Level
<1>2. HandlerInv /\ [HandlerNext]_handlerVars => [Abstract!Next]_(Abstract!vars)
  BY StepRefinement
<1> QED BY <1>1, <1>2, HandlerInvariant, PTL
        DEF HandlerSpec, ImplementsServiceLevel, Abstract!Spec

(* After end() the connection task starts no new attempt                     *)
(* (ConnectionHandler.repeat()).                                             *)
THEOREM HandlerNeverRetriesAfterEnd == HandlerSpec => NoAttemptAfterEnd
<1>1. [HandlerNext]_handlerVars =>
        [~enabled /\ ~enabled' /\ handler = "sleeping"
           => handler' \in {"sleeping", "ended"}]_handlerVars
  BY DEF HandlerNext, HandlerEnabled, HandlerConnected, HandlerConnectFailed,
     HandlerDisconnected, HandlerWakes, TransportLost, ResetConnection, EndConnection,
     EnableState, Acknowledge, Synchronize, StartUpdating, HandlerRestart, HasImpl,
     handlerVars
<1> QED BY <1>1, PTL DEF HandlerSpec, NoAttemptAfterEnd

=============================================================================
