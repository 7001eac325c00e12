----------------------------- MODULE Discovery -----------------------------
(***************************************************************************)
(* Discovery of a controller over MQTT, and the end of a connection to it: *)
(* discover_mqtt(), the events of devices, MqttConnection.connect() and    *)
(* _handshake_cb(), in the loops of ConnectionHandler.discover() and       *)
(* run().                                                                  *)
(*                                                                         *)
(* Broker and device are external.  A device announces itself with a       *)
(* retained handshake, which its last will empties; who subscribes, or     *)
(* comes back, is given what is retained, and that is nothing for a device *)
(* that is gone.  Other kinds of discovery find no device, or another      *)
(* transport, which is not in this module.                                 *)
(***************************************************************************)
EXTENDS Naturals, Sequences

CONSTANT MaxHandshakes      \* bound: handshakes on their way to the service

ASSUME DiscoveryAssumption == MaxHandshakes \in Nat \ {0, 1}

VARIABLES
    device,     \* whether a handshake is retained
    online,     \* the service is connected to the broker
    handshakes, \* on their way: whether they have a payload
    evt,        \* _DEVICES: the event of the device
    task,       \* where the connection task is
    overlooked, \* a removal was published and never arrived
    raced       \* the connection was made when the event was clear again

discoveryVars == <<device, online, handshakes, evt, task, overlooked, raced>>

DiscoveryTypeOK ==
    /\ {device, online, evt, overlooked, raced} \subseteq BOOLEAN
    /\ handshakes \in Seq(BOOLEAN) /\ Len(handshakes) <= MaxHandshakes
    /\ task \in {"discover", "wait", "woken", "connected", "closed"}

DiscoveryInit ==
    /\ device \in BOOLEAN
    /\ online = FALSE /\ handshakes = <<>>
    /\ evt = FALSE /\ task = "discover"
    /\ overlooked = FALSE /\ raced = FALSE

-----------------------------------------------------------------------------
(* evt.wait() of discover_mqtt(), when its turn comes in discover() *)
WaitsForDevice ==
    /\ task = "discover"
    /\ task' = IF evt THEN "woken" ELSE "wait"
    /\ UNCHANGED <<device, online, handshakes, evt, overlooked, raced>>

(* discovery_timeout_mqtt or discovery_timeout passes: from the beginning. *)
DiscoveryTimeout ==
    /\ task = "wait"
    /\ task' = "discover"
    /\ UNCHANGED <<device, online, handshakes, evt, overlooked, raced>>

(* on_handshake() sets or clears the event: who waits for it goes on when it *)
(* was set, also if it is cleared before.  _handshake_cb() of a connection   *)
(* gets the same message.                                                    *)
MutantRemovalIgnored(payload) ==
    task' = IF payload /\ task = "wait" THEN "woken" ELSE task
HandshakeCb(payload) ==
    task' = CASE payload /\ task = "wait" -> "woken"
              [] ~payload /\ task = "connected" -> "closed"
              [] OTHER -> task

OnHandshake ==
    /\ handshakes # <<>>
    /\ handshakes' = Tail(handshakes)
    /\ evt' = Head(handshakes)
    /\ HandshakeCb(Head(handshakes))
    /\ UNCHANGED <<device, online, overlooked, raced>>

(* connect() subscribes, and the broker sends what is retained. *)
ConnectsMqtt ==
    /\ task = "woken"
    /\ task' = "connected"
    /\ raced' = ~evt
    /\ handshakes' = IF online /\ device THEN Append(handshakes, TRUE) ELSE handshakes
    /\ UNCHANGED <<device, online, evt, overlooked>>

(* Nothing answers: a command, or the handshake of the synchronizer, times   *)
(* out, and _check_connection() or StateSynchronizer.run() resets.           *)
ResetOnTimeout ==
    /\ task = "connected"
    /\ ~device
    /\ task' = "closed"
    /\ UNCHANGED <<device, online, handshakes, evt, overlooked, raced>>

(* run() ends, and repeat() begins with the next. *)
RunsAgain ==
    /\ task = "closed"
    /\ task' = "discover"
    /\ raced' = FALSE
    /\ UNCHANGED <<device, online, handshakes, evt, overlooked>>

-----------------------------------------------------------------------------
DeviceChanges ==
    /\ Len(handshakes) < MaxHandshakes - 1
    /\ device' = ~device
    /\ handshakes' = IF online THEN Append(handshakes, device') ELSE handshakes
    /\ overlooked' = (device /\ (overlooked \/ ~online))
    /\ UNCHANGED <<online, evt, task, raced>>

BrokerLost ==
    /\ online
    /\ online' = FALSE
    /\ handshakes' = <<>>
    /\ overlooked' = (overlooked \/ (~device /\ handshakes # <<>>))
    /\ UNCHANGED <<device, evt, task, raced>>

BrokerBack ==
    /\ ~online
    /\ online' = TRUE
    /\ handshakes' = IF device THEN <<TRUE>> ELSE <<>>
    /\ UNCHANGED <<device, evt, task, overlooked, raced>>

DiscoveryTask == WaitsForDevice \/ ConnectsMqtt \/ ResetOnTimeout \/ RunsAgain
DiscoveryNext ==
    \/ DiscoveryTask \/ DiscoveryTimeout \/ OnHandshake
    \/ DeviceChanges \/ BrokerLost \/ BrokerBack

DiscoverySpec == DiscoveryInit /\ [][DiscoveryNext]_discoveryVars

-----------------------------------------------------------------------------
(* A connection to a device that is gone is told of it: the removal is on    *)
(* its way, but for one that was overlooked while the broker was away, and   *)
(* one that came between the event and the connection.                       *)
RemovalIsTold ==
    task = "connected" /\ ~device => overlooked \/ raced \/ FALSE \in {handshakes[i] : i \in DOMAIN handshakes}

(* Nevertheless no connection stays with a device that is gone, though the   *)
(* same device may be tried over and over; and a device that stays is found  *)
(* and kept, whatever was missed before.                                     *)
NoGhosts == []<>(device \/ task # "connected")
DeviceFound == <>[](device /\ online) => <>[](task = "connected")
=============================================================================
