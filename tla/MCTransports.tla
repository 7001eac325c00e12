---------------------------- MODULE MCTransports ----------------------------
(***************************************************************************)
(* What carries text and files between service and controller, for TLC,    *)
(* each by itself: active is the one that moves.  MQTT responses in        *)
(* chunks, the text of a stream, the upload of a file, and the devices.    *)
(***************************************************************************)
EXTENDS MqttChunks, StreamParser, Ymodem, Discovery

VARIABLE active

transportVars == <<active, vars, parserVars, ymodemVars, discoveryVars>>

TransportsInit ==
    /\ active \in {"mqtt", "stream", "ymodem", "devices"}
    /\ Init /\ YmodemInit /\ DiscoveryInit
    /\ \E s \in Texts : ParserStarts(s)
    /\ active # "stream" => text = <<>>
    /\ active # "ymodem" => controller = "updater"
    /\ active # "devices" => ~device

TransportsNext ==
    /\ UNCHANGED active
    /\ \/ active = "mqtt" /\ Next /\ UNCHANGED <<parserVars, ymodemVars, discoveryVars>>
       \/ active = "stream" /\ ParserNext /\ UNCHANGED <<vars, ymodemVars, discoveryVars>>
       \/ active = "ymodem" /\ YmodemNext /\ UNCHANGED <<vars, parserVars, discoveryVars>>
       \/ active = "devices" /\ DiscoveryNext /\ UNCHANGED <<vars, parserVars, ymodemVars>>

(* The client, the controller and the network go on with an upload, and the  *)
(* connection task, the broker and its messages with the devices.            *)
TransportsFairness ==
    LET upload == active = "ymodem" /\ UNCHANGED <<active, vars, parserVars, discoveryVars>>
        devices == active = "devices" /\ UNCHANGED <<active, vars, parserVars, ymodemVars>>
    IN  /\ WF_ymodemVars(upload /\ Client)
        /\ WF_ymodemVars(upload /\ Controller)
        /\ WF_ymodemVars(upload /\ NothingTaken)
        /\ WF_ymodemVars(upload /\ DataArrives(1))
        /\ WF_discoveryVars(devices /\ DiscoveryTask)
        /\ WF_discoveryVars(devices /\ OnHandshake)

TransportsSpec == TransportsInit /\ [][TransportsNext]_transportVars /\ TransportsFairness

(* Every variable of the four has its type: among them, nothing but parts   *)
(* of a single message is in the buffer for chunks.                          *)
TransportsTypeOK == TypeOK /\ ParserTypeOK /\ YmodemTypeOK /\ DiscoveryTypeOK

(* An upload that is begun succeeds, or ends. *)
UploadsEnd == active = "ymodem" => UploadSucceeds

(* Connections follow the device that was discovered. *)
DevicesFollowed == active = "devices" => []RemovalIsTold /\ NoGhosts /\ DeviceFound
=============================================================================
