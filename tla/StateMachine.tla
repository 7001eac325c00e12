---------------------------- MODULE StateMachine ----------------------------
(***************************************************************************)
(* The service's view of its controller: state_machine.py.                 *)
(*                                                                         *)
(* The class keeps six asyncio events and a StatusDescription.  A value of *)
(* State is one snapshot of both, and every set_* method is an operator    *)
(* from the snapshot before the call to the one after it: the methods have *)
(* no await, so no other task sees a value between the two.                *)
(*                                                                         *)
(* A handshake is abstracted to what the service compares: whether the     *)
(* protocol version, the firmware version and the device id of the         *)
(* controller are those of the service.                                    *)
(***************************************************************************)
CONSTANTS
    Handshakes,         \* the handshakes a controller may send
    NoController,       \* StatusDescription.controller before a handshake
    WildcardId,         \* TRUE when the service has no device id configured
    SkipVersionCheck    \* the skip_version_check option

ASSUME HandshakesAssumption ==
    Handshakes \subseteq [proto: BOOLEAN, version: BOOLEAN, device: BOOLEAN]

ASSUME NoControllerAssumption == NoController \notin Handshakes

ASSUME OptionsAssumption ==
    /\ WildcardId \in BOOLEAN
    /\ SkipVersionCheck \in BOOLEAN

Statuses ==
    {"DISCONNECTED", "CONNECTED", "ACKNOWLEDGED", "SYNCHRONIZED", "UPDATING"}

State == [enabled: BOOLEAN,
          connected: BOOLEAN,
          acknowledged: BOOLEAN,
          synchronized: BOOLEAN,
          disconnected: BOOLEAN,
          updating: BOOLEAN,
          status: Statuses,
          controller: Handshakes \cup {NoController},
          firmware_error: {"none", "MISMATCHED", "INCOMPATIBLE"},
          identity_error: {"none", "WILDCARD_ID", "INCOMPATIBLE"}]

InitialState == [enabled |-> FALSE,
                 connected |-> FALSE,
                 acknowledged |-> FALSE,
                 synchronized |-> FALSE,
                 disconnected |-> TRUE,
                 updating |-> FALSE,
                 status |-> "DISCONNECTED",
                 controller |-> NoController,
                 firmware_error |-> "none",
                 identity_error |-> "none"]

(* check_compatible() raises unless this holds. *)
IsCompatible(s) ==
    /\ s.firmware_error # "INCOMPATIBLE"
    /\ s.identity_error # "INCOMPATIBLE"

FirmwareError(h) ==
    IF ~(h.proto \/ SkipVersionCheck) THEN "INCOMPATIBLE"
    ELSE IF ~h.version THEN "MISMATCHED" ELSE "none"

IdentityError(h) ==
    IF ~(h.device \/ WildcardId) THEN "INCOMPATIBLE"
    ELSE IF WildcardId THEN "WILDCARD_ID" ELSE "none"

SetEnabled(s, enabled) == [s EXCEPT !.enabled = enabled]

(* The updating event is not touched. *)
SetConnected(s) == [s EXCEPT !.status = "CONNECTED",
                             !.connected = TRUE,
                             !.acknowledged = FALSE,
                             !.synchronized = FALSE,
                             !.disconnected = FALSE]

MutantAcknowledgedAgain(s, h) ==
    [s EXCEPT !.status = "ACKNOWLEDGED",
              !.controller = h,
              !.firmware_error = FirmwareError(h),
              !.identity_error = IdentityError(h),
              !.acknowledged = TRUE]

(* A handshake that comes after SYNCHRONIZED is ignored. *)
SetAcknowledged(s, h) ==
    IF s.synchronized THEN s
    ELSE [s EXCEPT !.status = "ACKNOWLEDGED",
                   !.controller = h,
                   !.firmware_error = FirmwareError(h),
                   !.identity_error = IdentityError(h),
                   !.acknowledged = TRUE]

(* Callers check s.acknowledged first: the method raises without it. *)
SetSynchronized(s) == [s EXCEPT !.status = "SYNCHRONIZED",
                                !.synchronized = TRUE]

SetUpdating(s) == [s EXCEPT !.status = "UPDATING",
                            !.updating = TRUE]

MutantUpdatingKept(s) == [InitialState EXCEPT !.enabled = s.enabled,
                                              !.updating = s.updating]
MutantErrorsKept(s) == [InitialState EXCEPT !.enabled = s.enabled,
                                            !.firmware_error = s.firmware_error,
                                            !.identity_error = s.identity_error]

SetDisconnected(s) == [s EXCEPT !.controller = NoController,
                                !.status = "DISCONNECTED",
                                !.firmware_error = "none",
                                !.identity_error = "none",
                                !.connected = FALSE,
                                !.acknowledged = FALSE,
                                !.synchronized = FALSE,
                                !.updating = FALSE,
                                !.disconnected = TRUE]

(* How far the events have advanced: 0 disconnected .. 3 synchronized. *)
Level(s) == IF s.synchronized THEN 3
            ELSE IF s.acknowledged THEN 2
            ELSE IF s.connected THEN 1 ELSE 0

=============================================================================
