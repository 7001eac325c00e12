------------------------------ MODULE Lifecycle ------------------------------
(***************************************************************************)
(* The tasks of the service that share one connection to the controller:   *)
(*                                                                         *)
(*   the connection task       connection_handler.py (ConnectionHandler)   *)
(*   the synchronizer          synchronization.py                          *)
(*   block API calls           spark_api.py                                *)
(*   the connection check      spark_api.py, _check_connection()           *)
(*   firmware updates          endpoints/http_system.py, Flasher           *)
(*                                                                         *)
(* All run on one asyncio loop: a task is interrupted only where it awaits,*)
(* so an action is what a task does between two awaits.  A command that a  *)
(* task sent and awaits is one value of cmd (Commander.tla has the ids and *)
(* futures behind it).  The controller and the transport are external:     *)
(* they answer, refuse, stay silent or go away.  What may go wrong is      *)
(* bounded by MaxFaults.                                                   *)
(***************************************************************************)
EXTENDS ConnectionHandler, FiniteSets

CONSTANTS
    Callers,        \* clients with a block API call in progress
    Ops,            \* the API operations they call, see OpLength
    Flashers,       \* requests to /system/flash
    MaxFaults,      \* bound: faults of the transport or the controller
    MaxChecks,      \* bound: connection checks waiting for their lock
    MaxLegacyNames  \* bound: names found in the legacy datastore

Guarded == {"block", "clear"}       \* go through SparkApi._execute()
Unguarded == {"rename", "settings"} \* call the commander directly
Tasks == {"sync", "check"} \cup Callers \cup Flashers

ASSUME LifecycleAssumption ==
    /\ Ops \subseteq Guarded \cup Unguarded
    /\ {"sync", "check"} \cap (Callers \cup Flashers) = {}
    /\ Callers \cap Flashers = {}
    /\ MaxFaults \in Nat
    /\ MaxChecks \in Nat \ {0}
    /\ MaxLegacyNames \in Nat

VARIABLES
    peer,           \* the handshake of the controller at the other end
    storeEnabled,   \* service_settings.enabled
    cmd,            \* the command each task awaits
    sync,           \* where StateSynchronizer.run() is suspended
    ackDone,        \* ack_task of _sync_handshake() is done
    legacy,         \* legacy names that are still to be written
    call,           \* the API call of each client
    check, checks,  \* the holder of _conn_check_lock, and the tasks that want it
    flash,          \* where each Flasher.run() is suspended
    faults,         \* faults so far
    fresh           \* what the synchronizer checked, read ("names") and wrote
                    \* ("sysinfo") on this very connection (for the properties)

syncVars == <<sync, ackDone, legacy>>
checkVars == <<check, checks>>
envVars == <<peer, storeEnabled, faults>>
vars == <<handlerVars, envVars, cmd, syncVars, call, checkVars, flash, fresh>>

Handshaking == {"prompt", "prompting", "pinging"}
SyncStates == Handshaking \cup {"wait_connected", "names", "legacy", "rename",
                                "remove", "sysinfo", "wait_disconnected"}
Idle == [at |-> "idle", op |-> "none", left |-> 0]

(* The number of commands an operation sends, one after the other. *)
OpLength(op) == IF op = "clear" THEN 3 ELSE 1

CmdStates == {"none", "live", "lost", "ok", "err"}
Calls == [at: {"idle", "waiting", "ready", "running"},
          op: Ops \cup {"none"}, left: 0..3]
FlashStates == {"idle", "wait_empty", "send", "command", "ending", "ota", "done"}

TasksTypeOK ==
    /\ peer \in Handshakes \cup {NoController}
    /\ storeEnabled \in BOOLEAN
    /\ cmd \in [Tasks -> CmdStates]
    /\ sync \in SyncStates
    /\ ackDone \in BOOLEAN
    /\ legacy \in 0..MaxLegacyNames
    /\ call \in [Callers -> Calls]
    /\ check \in {"idle", "noop", "reset"}
    /\ checks \in 0..MaxChecks
    /\ flash \in [Flashers -> FlashStates]
    /\ faults \in 0..MaxFaults
    /\ fresh \subseteq {"check", "names", "sysinfo"}

TypeOK == HandlerTypeOK /\ TasksTypeOK

(* The synchronizer's first iteration starts at once, as after a            *)
(* wait_disconnected() that returned: the state is disconnected.            *)
TasksInit ==
    /\ peer = NoController
    /\ cmd = [t \in Tasks |-> "none"]
    /\ sync = "wait_disconnected"
    /\ ackDone = FALSE
    /\ legacy = 0
    /\ call = [c \in Callers |-> Idle]
    /\ check = "idle"
    /\ checks = 0
    /\ flash = [f \in Flashers |-> "idle"]
    /\ fresh = {}

Init ==
    /\ HandlerInit
    /\ TasksInit
    /\ storeEnabled = TRUE
    /\ faults = 0

-----------------------------------------------------------------------------
(* Commands.  "live": sent, the controller may answer; "lost": the transport *)
(* it was sent over is gone, only the timeout is left; "ok", "err": the      *)
(* future has its result and the task will be resumed.                       *)

Fault == faults < MaxFaults /\ faults' = faults + 1

(* CboxCommander._execute() up to its await.  It raises NotConnected         *)
(* without HasImpl: callers check that.                                      *)
Sent(c, t) == [c EXCEPT ![t] = IF implLost THEN "lost" ELSE "live"]
Ended(c, t) == [c EXCEPT ![t] = "none"]
Lost(c) == [t \in Tasks |-> IF c[t] = "live" THEN "lost" ELSE c[t]]

(* The flashers after t's command has left _active_messages: those in        *)
(* wait_empty() are woken when it was the last, even if t sends another      *)
(* command before they run.                                                  *)
Woken(t) ==
    IF \A u \in Tasks \ {t} : cmd[u] = "none"
    THEN [f \in Flashers |-> IF flash[f] = "wait_empty" THEN "send" ELSE flash[f]]
    ELSE flash

Succeeds(t) == cmd[t] = "ok" /\ UNCHANGED faults
Refused(t) == cmd[t] = "err" /\ UNCHANGED faults
TimesOut(t) ==
    \/ cmd[t] = "lost" /\ UNCHANGED faults
    \/ cmd[t] = "live" /\ Fault
Fails(t) == Refused(t) \/ TimesOut(t)

(* The controller answers; with an error only as a fault.  A command that    *)
(* prompts a handshake is answered by PromptAnswered.                        *)
Respond(t) ==
    /\ cmd[t] = "live"
    /\ ~(t = "sync" /\ sync = "prompting")
    /\ cmd' = [cmd EXCEPT ![t] = "ok"]
    /\ fresh' = fresh \cup (IF t = "sync" THEN {sync} \cap {"names", "sysinfo"} ELSE {})
    /\ UNCHANGED <<handlerVars, envVars, syncVars, call, checkVars, flash>>

RespondError(t) ==
    /\ cmd[t] = "live"
    /\ Fault
    /\ cmd' = [cmd EXCEPT ![t] = "err"]
    /\ UNCHANGED <<handlerVars, peer, storeEnabled, syncVars, call, checkVars,
                   flash, fresh>>

(* A welcome message out of itself, or as a side effect of another command.  *)
Welcome ==
    /\ ~implLost
    /\ Acknowledge(peer)
    /\ ackDone' = (ackDone \/ sync \in Handshaking)
    /\ UNCHANGED <<envVars, cmd, sync, legacy, call, checkVars, flash, fresh>>

(* The answer to _prompt_handshake(): a welcome message, then the response.  *)
PromptAnswered ==
    /\ sync = "prompting"
    /\ cmd["sync"] = "live"
    /\ Acknowledge(peer)
    /\ ackDone' = TRUE
    /\ cmd' = [cmd EXCEPT !["sync"] = "ok"]
    /\ UNCHANGED <<envVars, sync, legacy, call, checkVars, flash, fresh>>

-----------------------------------------------------------------------------
(* The connection task *)

(* No task was woken that has not run yet.  Such tasks run before one that    *)
(* sleeps (the shortest sleep is connect_interval, two seconds) and before a  *)
(* connection that is tried next can be there.                                *)
Quiet ==
    /\ \A t \in Tasks : cmd[t] \notin {"ok", "err"}
    /\ sync # "prompt"
    /\ ~(sync = "pinging" /\ ackDone)
    /\ ~(sync = "wait_disconnected" /\ state.disconnected)
    /\ \A c \in Callers : call[c].at # "ready"
    /\ ~(check = "idle" /\ checks > 0)
    /\ ~(check = "reset" /\ state.disconnected)
    /\ \A f \in Flashers :
         /\ flash[f] # "send"
         /\ ~(flash[f] = "ending" /\ state.disconnected)

Enabled ==
    /\ Quiet
    /\ HandlerEnabled
    /\ UNCHANGED <<envVars, cmd, syncVars, call, checkVars, flash, fresh>>

(* set_connected() wakes the synchronizer. *)
Connected(h) ==
    /\ HandlerConnected
    /\ peer' = h
    /\ sync' = IF sync = "wait_connected" THEN "prompt" ELSE sync
    /\ UNCHANGED <<storeEnabled, faults, cmd, ackDone, legacy, call, checkVars,
                   flash, fresh>>

ConnectFailed ==
    /\ HandlerConnectFailed
    /\ Fault
    /\ UNCHANGED <<peer, storeEnabled, cmd, syncVars, call, checkVars, flash, fresh>>

Dropped ==
    /\ TransportLost
    /\ ~implLost
    /\ Fault
    /\ cmd' = Lost(cmd)
    /\ UNCHANGED <<peer, storeEnabled, syncVars, call, checkVars, flash, fresh>>

Disconnected ==
    /\ HandlerDisconnected
    /\ peer' = NoController
    /\ fresh' = {}
    /\ UNCHANGED <<storeEnabled, faults, cmd, syncVars, call, checkVars, flash>>

Wakes ==
    /\ Quiet
    /\ HandlerWakes
    /\ UNCHANGED <<envVars, cmd, syncVars, call, checkVars, flash, fresh>>

-----------------------------------------------------------------------------
(* The synchronizer *)

MutantSyncWaitsWithoutReset ==
    /\ IF HasImpl THEN UNCHANGED handlerVars ELSE EnableState(storeEnabled)
    /\ sync' = IF HasImpl THEN "wait_disconnected" ELSE "wait_connected"
    /\ cmd' = Ended(cmd, "sync")
    /\ ackDone' = FALSE
    /\ legacy' = 0

(* Another exception than an incompatible controller: run() resets the       *)
(* connection, whichever it is by now, and waits until it is gone.  If it is *)
(* gone already there is nothing to await, and the next run() starts.        *)
SyncReset ==
    /\ \/ /\ HasImpl
          /\ ResetConnection
          /\ sync' = "wait_disconnected"
       \/ /\ ~HasImpl
          /\ EnableState(storeEnabled)
          /\ sync' = "wait_connected"
    /\ cmd' = Lost(Ended(cmd, "sync"))
    /\ ackDone' = FALSE
    /\ legacy' = 0

(* The next command of the synchronization; NotConnected is an exception.    *)
SyncSend(next) ==
    \/ /\ HasImpl
       /\ cmd' = Sent(Ended(cmd, "sync"), "sync")
       /\ sync' = next
       /\ ackDone' = FALSE
       /\ legacy' = 0
       /\ UNCHANGED handlerVars
    \/ ~HasImpl /\ SyncReset

(* run() from its start to wait_connected(). *)
SyncStart ==
    /\ sync = "wait_disconnected"
    /\ state.disconnected
    /\ EnableState(storeEnabled)
    /\ sync' = "wait_connected"
    /\ UNCHANGED <<envVars, cmd, ackDone, legacy, call, checkVars, flash, fresh>>

(* _prompt_handshake() sends version(), and swallows its exceptions: at once *)
(* and whenever handshake_ping_interval passed without a handshake.          *)
SyncPrompt ==
    /\ sync = "prompt" \/ (sync = "pinging" /\ ~ackDone)
    /\ \/ HasImpl /\ cmd' = Sent(cmd, "sync") /\ sync' = "prompting"
       \/ ~HasImpl /\ sync' = "pinging" /\ UNCHANGED cmd
    /\ UNCHANGED <<handlerVars, envVars, ackDone, legacy, call, checkVars, flash, fresh>>

SyncPrompted ==
    /\ sync = "prompting"
    /\ Succeeds("sync") \/ Fails("sync")
    /\ cmd' = Ended(cmd, "sync")
    /\ flash' = Woken("sync")
    /\ sync' = "pinging"
    /\ UNCHANGED <<handlerVars, peer, storeEnabled, ackDone, legacy, call,
                   checkVars, fresh>>

(* handshake_timeout passed: prompts went unanswered for minutes. *)
SyncHandshakeTimeout ==
    /\ sync = "prompting" \/ (sync = "pinging" /\ ~ackDone)
    /\ Fault
    /\ SyncReset
    /\ flash' = IF sync = "prompting" THEN Woken("sync") ELSE flash
    /\ UNCHANGED <<peer, storeEnabled, call, checkVars, fresh>>

(* What check_compatible() accepts. *)
MutantIdentityNotChecked == state.firmware_error # "INCOMPATIBLE"
CheckCompatible == IsCompatible(state)

(* ack_task is done: check_compatible(), then read_all_block_names(). *)
SyncCheck ==
    /\ sync = "pinging"
    /\ ackDone
    /\ \/ /\ ~CheckCompatible
          /\ sync' = "wait_disconnected"
          /\ ackDone' = FALSE
          /\ UNCHANGED <<handlerVars, cmd, legacy, fresh>>
       \/ /\ CheckCompatible
          /\ SyncSend("names")
          /\ fresh' = fresh \cup (IF state.acknowledged THEN {"check"} ELSE {})
    /\ UNCHANGED <<envVars, call, checkVars, flash>>

(* The block store is filled; then the legacy datastore is asked for names,  *)
(* for as long as it takes to answer.                                        *)
SyncNames ==
    /\ sync = "names"
    /\ flash' = Woken("sync")
    /\ \/ /\ Succeeds("sync")
          /\ cmd' = Ended(cmd, "sync")
          /\ sync' = "legacy"
          /\ UNCHANGED <<handlerVars, ackDone, legacy>>
       \/ Fails("sync") /\ SyncReset
    /\ UNCHANGED <<peer, storeEnabled, call, checkVars, fresh>>

(* After the last legacy name: the name table is removed from the datastore *)
(* if the controller is acknowledged, and set_sysinfo_settings() follows.    *)
SyncRenamed ==
    \/ /\ state.acknowledged
       /\ cmd' = Ended(cmd, "sync")
       /\ sync' = "remove"
       /\ legacy' = 0
       /\ UNCHANGED <<handlerVars, ackDone>>
    \/ ~state.acknowledged /\ SyncSend("sysinfo")

(* write_block_name() for the next of n names.  Errors are swallowed: without *)
(* a connection all n fail at once.                                           *)
SyncRename(n) ==
    \/ /\ HasImpl
       /\ n > 0
       /\ cmd' = Sent(Ended(cmd, "sync"), "sync")
       /\ sync' = "rename"
       /\ legacy' = n
       /\ UNCHANGED <<handlerVars, ackDone>>
    \/ (~HasImpl \/ n = 0) /\ SyncRenamed

(* The legacy datastore answered with n names. *)
SyncLegacy(n) ==
    /\ sync = "legacy"
    /\ IF n = 0 THEN SyncSend("sysinfo") ELSE SyncRename(n)
    /\ UNCHANGED <<envVars, call, checkVars, flash, fresh>>

SyncRenameDone ==
    /\ sync = "rename"
    /\ Succeeds("sync") \/ Fails("sync")
    /\ flash' = Woken("sync")
    /\ SyncRename(legacy - 1)
    /\ UNCHANGED <<peer, storeEnabled, call, checkVars, fresh>>

(* The datastore removed the name table, or refused to. *)
SyncRemoved ==
    /\ sync = "remove"
    /\ \/ SyncSend("sysinfo") /\ UNCHANGED faults
       \/ SyncReset /\ Fault
    /\ UNCHANGED <<peer, storeEnabled, call, checkVars, flash, fresh>>

(* set_sysinfo_settings() returns only after an accepted BLOCK_WRITE. *)
MutantSysinfoErrorsIgnored == Succeeds("sync") \/ Fails("sync")
SysinfoApplied == Succeeds("sync")

(* set_synchronized() raises when the controller is no longer acknowledged,  *)
(* and else wakes the calls in wait_synchronized().                          *)
SyncSysinfo ==
    /\ sync = "sysinfo"
    /\ flash' = Woken("sync")
    /\ \/ /\ SysinfoApplied
          /\ Synchronize
          /\ cmd' = Ended(cmd, "sync")
          /\ sync' = "wait_disconnected"
          /\ call' = [c \in Callers |->
                IF call[c].at = "waiting" THEN [call[c] EXCEPT !.at = "ready"]
                                          ELSE call[c]]
          /\ UNCHANGED <<ackDone, legacy>>
       \/ /\ (Succeeds("sync") /\ ~state.acknowledged) \/ Fails("sync")
          /\ SyncReset
          /\ UNCHANGED call
    /\ UNCHANGED <<peer, storeEnabled, checkVars, fresh>>

(* settings_enabled_put(), or a service settings event with a new value. *)
SettingsEnabled(b) ==
    /\ b # storeEnabled
    /\ storeEnabled' = b
    /\ EnableState(b)
    /\ UNCHANGED <<peer, faults, cmd, syncVars, call, checkVars, flash, fresh>>

-----------------------------------------------------------------------------
(* API calls.  A guarded operation runs in SparkApi._execute(): it is        *)
(* refused during an update or on an incompatible controller, and waits for  *)
(* SYNCHRONIZED, and only then sends its commands.                           *)

CallSends(c, op, left) ==
    /\ cmd' = Sent(Ended(cmd, c), c)
    /\ call' = [call EXCEPT ![c] = [at |-> "running", op |-> op, left |-> left]]

CallReturns(c) ==
    /\ cmd' = Ended(cmd, c)
    /\ call' = [call EXCEPT ![c] = Idle]

MutantCallDoesNotWait(c, op) ==
    call' = [call EXCEPT ![c] = [at |-> "ready", op |-> op, left |-> OpLength(op)]]

(* asyncio.wait_for(wait_synchronized()) suspends the call even when it does  *)
(* not have to wait (Python 3.11, see Dockerfile.service).                    *)
CallWaits(c, op) ==
    call' = [call EXCEPT ![c] =
                [at |-> IF state.synchronized THEN "ready" ELSE "waiting",
                 op |-> op, left |-> OpLength(op)]]

CallBegin(c, op) ==
    /\ call[c].at = "idle"
    /\ op \in Guarded => ~state.updating /\ IsCompatible(state)
    /\ op = "settings" => state.synchronized
    /\ IF op \in Unguarded
       THEN HasImpl /\ CallSends(c, op, OpLength(op))
       ELSE CallWaits(c, op) /\ UNCHANGED cmd
    /\ UNCHANGED <<handlerVars, envVars, syncVars, checkVars, flash, fresh>>

MutantCallWaitsForever(c) == FALSE /\ UNCHANGED vars

(* wait_synchronized() timed out: NotConnected. *)
CallWaitTimeout(c) ==
    /\ call[c].at = "waiting"
    /\ CallReturns(c)
    /\ UNCHANGED <<handlerVars, envVars, syncVars, checkVars, flash, fresh>>

(* wait_synchronized() returned: the first command.  If the connection was    *)
(* lost just now, the command raises or wait_synchronized() did not start yet *)
(* and waits.                                                                 *)
CallProceeds(c) ==
    /\ call[c].at = "ready"
    /\ \/ HasImpl /\ CallSends(c, call[c].op, call[c].left)
       \/ ~HasImpl /\ CallReturns(c)
       \/ ~HasImpl /\ CallWaits(c, call[c].op) /\ UNCHANGED cmd
    /\ UNCHANGED <<handlerVars, envVars, syncVars, checkVars, flash, fresh>>

CallSucceeds(c) ==
    /\ call[c].at = "running"
    /\ Succeeds(c)
    /\ flash' = Woken(c)
    /\ IF call[c].left > 1 /\ HasImpl
       THEN CallSends(c, call[c].op, call[c].left - 1) ELSE CallReturns(c)
    /\ UNCHANGED <<handlerVars, peer, storeEnabled, syncVars, checkVars, fresh>>

CallRefused(c) ==
    /\ call[c].at = "running"
    /\ Refused(c)
    /\ flash' = Woken(c)
    /\ CallReturns(c)
    /\ UNCHANGED <<handlerVars, peer, storeEnabled, syncVars, checkVars, fresh>>

(* CommandTimeout: _execute() starts a task for _check_connection(). *)
CallTimesOut(c) ==
    /\ call[c].at = "running"
    /\ TimesOut(c)
    /\ flash' = Woken(c)
    /\ CallReturns(c)
    /\ checks' = IF call[c].op \in Guarded /\ checks < MaxChecks
                 THEN checks + 1 ELSE checks
    /\ UNCHANGED <<handlerVars, peer, storeEnabled, syncVars, check, fresh>>

-----------------------------------------------------------------------------
(* _check_connection(): one at a time, and only when synchronized. *)

CheckStarts ==
    /\ check = "idle"
    /\ checks > 0
    /\ IF state.synchronized
       THEN cmd' = Sent(cmd, "check") /\ check' = "noop" /\ UNCHANGED checks
       ELSE checks' = checks - 1 /\ UNCHANGED <<cmd, check>>
    /\ UNCHANGED <<handlerVars, envVars, syncVars, call, flash, fresh>>

CheckSucceeds ==
    /\ check = "noop"
    /\ Succeeds("check")
    /\ cmd' = Ended(cmd, "check")
    /\ flash' = Woken("check")
    /\ check' = "idle"
    /\ checks' = checks - 1
    /\ UNCHANGED <<handlerVars, peer, storeEnabled, syncVars, call, fresh>>

MutantCheckWaitsWithoutReset ==
    /\ check = "noop"
    /\ Fails("check")
    /\ cmd' = Ended(cmd, "check")
    /\ flash' = Woken("check")
    /\ check' = "reset"
    /\ UNCHANGED <<handlerVars, peer, storeEnabled, syncVars, call, checks, fresh>>

(* The connection is reset, whichever it is by now. *)
CheckFails ==
    /\ check = "noop"
    /\ Fails("check")
    /\ ResetConnection
    /\ cmd' = Lost(Ended(cmd, "check"))
    /\ flash' = Woken("check")
    /\ IF HasImpl THEN check' = "reset" /\ UNCHANGED checks
                  ELSE check' = "idle" /\ checks' = checks - 1
    /\ UNCHANGED <<peer, storeEnabled, syncVars, call, fresh>>

CheckResetDone ==
    /\ check = "reset"
    /\ state.disconnected
    /\ check' = "idle"
    /\ checks' = checks - 1
    /\ UNCHANGED <<handlerVars, envVars, cmd, syncVars, call, flash, fresh>>

-----------------------------------------------------------------------------
(* Firmware updates.  Flasher.run() ends in a restart of the service when it  *)
(* returns a response: graceful_shutdown is a background task of that         *)
(* response.  When run() raises, the response is the one of the exception     *)
(* handler in app_factory.py, which has no background task.                   *)

MutantFlashNotAcknowledged(f) ==
    /\ flash[f] = "idle"
    /\ state' = SetUpdating(state)
    /\ flash' = [flash EXCEPT ![f] = "wait_empty"]
    /\ UNCHANGED <<handler, implLost, enabled, interval, envVars, cmd, syncVars,
                   call, checkVars, fresh>>

(* Refused unless acknowledged; then wait_for(wait_empty()), whose task runs  *)
(* later even when no command is active.                                      *)
FlashBegin(f) ==
    /\ flash[f] = "idle"
    /\ StartUpdating
    /\ flash' = [flash EXCEPT ![f] =
          IF \A t \in Tasks : cmd[t] = "none" THEN "send" ELSE "wait_empty"]
    /\ UNCHANGED <<envVars, cmd, syncVars, call, checkVars, fresh>>

(* firmware_update() *)
FlashSends(f) ==
    /\ flash[f] = "send"
    /\ IF HasImpl
       THEN cmd' = Sent(cmd, f) /\ flash' = [flash EXCEPT ![f] = "command"]
       ELSE flash' = [flash EXCEPT ![f] = "idle"] /\ UNCHANGED cmd
    /\ UNCHANGED <<handlerVars, envVars, syncVars, call, checkVars, fresh>>

(* The controller will update: end_connection(). *)
FlashAccepted(f) ==
    /\ flash[f] = "command"
    /\ Succeeds(f)
    /\ EndConnection
    /\ cmd' = Lost(Ended(cmd, f))
    /\ flash' = [Woken(f) EXCEPT ![f] = "ending"]
    /\ UNCHANGED <<peer, storeEnabled, syncVars, call, checkVars, fresh>>

MutantFlashNeverTimesOut(f) ==
    /\ flash[f] = "command"
    /\ Refused(f)
    /\ cmd' = Ended(cmd, f)
    /\ flash' = [Woken(f) EXCEPT ![f] = "idle"]
    /\ UNCHANGED <<handlerVars, peer, storeEnabled, syncVars, call, checkVars, fresh>>

FlashRefused(f) ==
    /\ flash[f] = "command"
    /\ Fails(f)
    /\ cmd' = Ended(cmd, f)
    /\ flash' = [Woken(f) EXCEPT ![f] = "idle"]
    /\ UNCHANGED <<handlerVars, peer, storeEnabled, syncVars, call, checkVars, fresh>>

(* end_connection() returned; the firmware is now sent over a connection of   *)
(* its own.                                                                   *)
FlashEnded(f) ==
    /\ flash[f] = "ending"
    /\ state.disconnected
    /\ flash' = [flash EXCEPT ![f] = "ota"]
    /\ UNCHANGED <<handlerVars, envVars, cmd, syncVars, call, checkVars, fresh>>

FlashUploaded(f) ==
    /\ flash[f] = "ota"
    /\ flash' = [flash EXCEPT ![f] = "done"]
    /\ UNCHANGED <<handlerVars, envVars, cmd, syncVars, call, checkVars, fresh>>

(* wait_empty() or end_connection() timed out, or the upload failed.          *)
FlashFails(f) ==
    /\ flash[f] \in {"wait_empty", "ending", "ota"}
    /\ flash' = [flash EXCEPT ![f] = "idle"]
    /\ UNCHANGED <<handlerVars, envVars, cmd, syncVars, call, checkVars, fresh>>

(* The process ends with all its tasks, and is started again; the settings    *)
(* are read back from the datastore.                                          *)
Restart ==
    /\ HandlerRestart
    /\ peer' = NoController
    /\ cmd' = [t \in Tasks |-> "none"]
    /\ sync' = "wait_disconnected"
    /\ ackDone' = FALSE
    /\ legacy' = 0
    /\ call' = [c \in Callers |-> Idle]
    /\ check' = "idle"
    /\ checks' = 0
    /\ flash' = [f \in Flashers |-> "idle"]
    /\ fresh' = {}
    /\ UNCHANGED storeEnabled

RestartAfterFlash ==
    /\ \E f \in Flashers : flash[f] = "done"
    /\ Restart
    /\ UNCHANGED faults

(* /system/reboot/service, or the process dies. *)
RestartService == Restart /\ Fault

-----------------------------------------------------------------------------
Controller ==
    \/ \E t \in Tasks : Respond(t) \/ RespondError(t)
    \/ Welcome
    \/ PromptAnswered
    \/ Dropped

Connection ==
    \/ Enabled
    \/ \E h \in Handshakes : Connected(h)
    \/ ConnectFailed
    \/ Disconnected
    \/ Wakes

Synchronizer ==
    \/ SyncStart
    \/ SyncPrompt
    \/ SyncPrompted
    \/ SyncHandshakeTimeout
    \/ SyncCheck
    \/ SyncNames
    \/ \E n \in 0..MaxLegacyNames : SyncLegacy(n)
    \/ SyncRenameDone
    \/ SyncRemoved
    \/ SyncSysinfo

Caller(c) ==
    \/ \E op \in Ops : CallBegin(c, op)
    \/ CallWaitTimeout(c)
    \/ CallProceeds(c)
    \/ CallSucceeds(c)
    \/ CallRefused(c)
    \/ CallTimesOut(c)

Checker == CheckStarts \/ CheckSucceeds \/ CheckFails \/ CheckResetDone

Flasher(f) ==
    \/ FlashBegin(f)
    \/ FlashSends(f)
    \/ FlashAccepted(f)
    \/ FlashRefused(f)
    \/ FlashEnded(f)
    \/ FlashUploaded(f)
    \/ FlashFails(f)

Next ==
    \/ Controller
    \/ Connection
    \/ Synchronizer
    \/ \E b \in BOOLEAN : SettingsEnabled(b)
    \/ \E c \in Callers : Caller(c)
    \/ Checker
    \/ \E f \in Flashers : Flasher(f)
    \/ RestartAfterFlash
    \/ RestartService

Spec == Init /\ [][Next]_vars

(* Fairness: the event loop resumes every task that can run, every timer     *)
(* fires, a connection that is tried is made unless it fails (a fault), the  *)
(* controller answers unless it does not (a fault), the datastore answers    *)
(* (httpx_retry() asks until it does).  Nobody has to change a setting, call *)
(* the API, start an update or send an unasked welcome.                      *)
Fairness ==
    /\ WF_vars(Enabled)
    /\ WF_vars(\E h \in Handshakes : Connected(h))
    /\ WF_vars(Disconnected)
    /\ WF_vars(Wakes)
    /\ \A t \in Tasks : WF_vars(Respond(t))
    /\ WF_vars(PromptAnswered)
    /\ WF_vars(SyncStart)
    /\ WF_vars(SyncPrompt)
    /\ WF_vars(SyncPrompted)
    /\ WF_vars(SyncCheck)
    /\ WF_vars(SyncNames)
    /\ WF_vars(\E n \in 0..MaxLegacyNames : SyncLegacy(n))
    /\ WF_vars(SyncRenameDone)
    /\ WF_vars(SyncRemoved)
    /\ WF_vars(SyncSysinfo)
    /\ \A c \in Callers :
         /\ WF_vars(CallWaitTimeout(c))
         /\ WF_vars(CallProceeds(c))
         /\ WF_vars(CallSucceeds(c) \/ CallRefused(c) \/ CallTimesOut(c))
    /\ WF_vars(Checker)
    /\ \A f \in Flashers :
         WF_vars(\/ FlashSends(f) \/ FlashAccepted(f) \/ FlashRefused(f)
                 \/ FlashEnded(f) \/ FlashUploaded(f) \/ FlashFails(f))
    /\ WF_vars(RestartAfterFlash)

FairSpec == Spec /\ Fairness

-----------------------------------------------------------------------------
(* Safety *)

(* Whatever the tasks do together, the connection task and the state machine *)
(* see one of the behaviours that ConnectionHandler.tla allows: everything   *)
(* that is proved and checked of it holds here.                              *)
ImplementsHandler == HandlerSpec

(* SYNCHRONIZED means that this very connection accepted the time zone and  *)
(* the units, however many disconnects the synchronizer slept through:      *)
(* set_synchronized() never acts on a patch_block() of an earlier one.      *)
SynchronizedHasSettings ==
    state.synchronized => "sysinfo" \in fresh

(* A controller that passed check_compatible() on this connection stays     *)
(* compatible for as long as the connection lasts.                          *)
CheckedIsCompatible ==
    "check" \in fresh => IsCompatible(state)

(* end_connection() was awaited before the upload starts: the service does  *)
(* not hold, open or look for a connection while the firmware is sent over  *)
(* one of the Flasher's own.                                                *)
UploadHasControllerAlone ==
    (\E f \in Flashers : flash[f] = "ota") => handler \in {"sleeping", "ended"}

(* A guarded operation only ever sends to a controller that is synchronized *)
(* at that moment, though it checked before it waited, and sends several    *)
(* commands in a row.                                                       *)
GuardedSendsWhenSynchronized ==
    [][\A c \in Callers :
         call'[c].at = "running" /\ call'[c].op \in Guarded
           /\ cmd'[c] \in {"live", "lost"} /\ cmd[c] \notin {"live", "lost"}
         => state.synchronized]_vars

(* The next five are what the repository says; the runs show where the code *)
(* differs.                                                                  *)

(* "If the firmware described in the handshake is incompatible with the      *)
(* service, the process stops here." (synchronization.py:16)                 *)
SynchronizedIsCompatible ==
    state.synchronized => IsCompatible(state)

(* "UPDATING: [...] Block API calls will immediately return an error."       *)
(* (synchronization.py:22)                                                   *)
NoBlockCallWhileUpdating ==
    [][\A c \in Callers :
         /\ call'[c].op # "settings"
         /\ cmd'[c] \in {"live", "lost"}
         /\ cmd[c] \notin {"live", "lost"}
         => ~state.updating]_vars

(* "Remove the name table if the controller didn't crash or disconnect       *)
(* during migration" (synchronization.py:138)                                *)
TableRemovedOnlyIfStable ==
    [][sync # "remove" /\ sync' = "remove" => "names" \in fresh]_vars

(* "Restarting service..." (http_system.py:216): the connection task is never *)
(* stopped for good, an update in progress will restart the service.          *)
StoppedOnlyDuringUpdate ==
    ~enabled => \E f \in Flashers : flash[f] # "idle"

(* Liveness *)

(* While the service stays enabled, finds no incompatible controller and     *)
(* faults have an end, it becomes and stays synchronized: resets made by a   *)
(* synchronizer or a connection check that woke up late, on a connection     *)
(* they know nothing of, do not go on for ever.                              *)
EventuallySynchronized ==
    <>[](state.enabled /\ IsCompatible(state)) => <>[](state.synchronized)

(* Every update request comes to an end: in an answer, or in a restart of the *)
(* service.  Each step has a timeout, also when the connection it waits for   *)
(* was lost and made again, or another update waits for the same commands.    *)
UpdatesEnd == \A f \in Flashers : flash[f] # "idle" ~> flash[f] = "idle"

(* Every API call is answered, and every connection check gives the lock    *)
(* back to the next.                                                        *)
CallsReturn == \A c \in Callers : call[c].at # "idle" ~> call[c].at = "idle"
ChecksEnd == checks > 0 ~> checks = 0
TasksEnd == CallsReturn /\ ChecksEnd
=============================================================================
