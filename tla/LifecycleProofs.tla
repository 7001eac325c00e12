--------------------------- MODULE LifecycleProofs ---------------------------
(***************************************************************************)
(* The tasks of Lifecycle, however many there are, drive the connection    *)
(* task only in the ways ConnectionHandler allows; so what is proved of    *)
(* ConnectionHandler holds of the whole service.  On top of that: what     *)
(* SYNCHRONIZED, a guarded call and a firmware upload may rely on.         *)
(***************************************************************************)
EXTENDS Lifecycle, ConnectionHandlerProofs, Integers

(* A connection is to a controller with some handshake. *)
PeerKnown == HasImpl => peer \in Handshakes

(* The holder of the check lock is one of the tasks that asked for it. *)
HolderCounted == check # "idle" => checks > 0

-----------------------------------------------------------------------------
(* Every step of a task is a step of ConnectionHandler, or leaves it alone. *)

LEMMA SyncResetStep ==
    ASSUME storeEnabled \in BOOLEAN, SyncReset
    PROVE  HandlerNext
BY DEF SyncReset, HandlerNext

LEMMA SyncSendStep ==
    ASSUME storeEnabled \in BOOLEAN, NEW next, SyncSend(next)
    PROVE  HandlerNext \/ UNCHANGED handlerVars
BY SyncResetStep DEF SyncSend

LEMMA SyncRenameStep ==
    ASSUME storeEnabled \in BOOLEAN, NEW n, SyncRename(n)
    PROVE  HandlerNext \/ UNCHANGED handlerVars
<1>1. CASE SyncRenamed
  BY <1>1, SyncSendStep DEF SyncRenamed
<1>2. CASE ~SyncRenamed
  BY <1>2 DEF SyncRename
<1> QED BY <1>1, <1>2

LEMMA ControllerStep ==
    ASSUME PeerKnown, Controller
    PROVE  HandlerNext \/ UNCHANGED handlerVars
<1>1. ASSUME NEW t \in Tasks, Respond(t) \/ RespondError(t)
      PROVE  UNCHANGED handlerVars
  BY <1>1 DEF Respond, RespondError
<1>2. CASE Welcome \/ PromptAnswered
  BY <1>2 DEF Welcome, PromptAnswered, Acknowledge, PeerKnown, HandlerNext
<1>3. CASE Dropped
  BY <1>3 DEF Dropped, HandlerNext
<1> QED BY <1>1, <1>2, <1>3 DEF Controller

LEMMA ConnectionStep ==
    ASSUME Connection
    PROVE  HandlerNext
<1>1. ASSUME NEW h \in Handshakes, Connected(h) PROVE HandlerNext
  BY <1>1 DEF Connected, HandlerNext
<1> QED BY <1>1 DEF Connection, Enabled, ConnectFailed, Disconnected, Wakes, HandlerNext

LEMMA SynchronizerStep ==
    ASSUME storeEnabled \in BOOLEAN, Synchronizer
    PROVE  HandlerNext \/ UNCHANGED handlerVars
<1>1. CASE SyncStart
  BY <1>1 DEF SyncStart, HandlerNext
<1>2. CASE SyncPrompt \/ SyncPrompted
  BY <1>2 DEF SyncPrompt, SyncPrompted
<1>3. CASE SyncHandshakeTimeout
  BY <1>3, SyncResetStep DEF SyncHandshakeTimeout
<1>4. CASE SyncCheck
  BY <1>4, SyncSendStep DEF SyncCheck
<1>5. CASE SyncNames
  BY <1>5, SyncResetStep DEF SyncNames
<1>6. ASSUME NEW n \in 0..MaxLegacyNames, SyncLegacy(n)
      PROVE  HandlerNext \/ UNCHANGED handlerVars
  BY <1>6, SyncSendStep, SyncRenameStep DEF SyncLegacy
<1>7. CASE SyncRenameDone
  BY <1>7, SyncRenameStep DEF SyncRenameDone
<1>8. CASE SyncRemoved
  BY <1>8, SyncSendStep, SyncResetStep DEF SyncRemoved
<1>9. CASE SyncSysinfo
  BY <1>9, SyncResetStep DEF SyncSysinfo, HandlerNext
<1> QED BY <1>1, <1>2, <1>3, <1>4, <1>5, <1>6, <1>7, <1>8, <1>9 DEF Synchronizer

LEMMA CallerStep ==
    ASSUME NEW c \in Callers, Caller(c)
    PROVE  UNCHANGED handlerVars
BY DEF Caller, CallBegin, CallWaitTimeout, CallProceeds, CallSucceeds, CallRefused,
   CallTimesOut

LEMMA CheckerStep ==
    ASSUME Checker
    PROVE  HandlerNext \/ UNCHANGED handlerVars
BY DEF Checker, CheckStarts, CheckSucceeds, CheckFails, CheckResetDone, HandlerNext

LEMMA FlasherStep ==
    ASSUME NEW f \in Flashers, Flasher(f)
    PROVE  HandlerNext \/ UNCHANGED handlerVars
BY DEF Flasher, FlashBegin, FlashSends, FlashAccepted, FlashRefused, FlashEnded,
   FlashUploaded, FlashFails, HandlerNext

LEMMA StepOfHandler ==
    ASSUME storeEnabled \in BOOLEAN, PeerKnown, [Next]_vars
    PROVE  [HandlerNext]_handlerVars
<1>1. ASSUME NEW b \in BOOLEAN, SettingsEnabled(b) PROVE HandlerNext
  BY <1>1 DEF SettingsEnabled, HandlerNext
<1>2. CASE RestartAfterFlash \/ RestartService
  BY <1>2 DEF RestartAfterFlash, RestartService, Restart, HandlerNext
<1>3. CASE UNCHANGED vars
  BY <1>3 DEF vars
<1> QED BY <1>1, <1>2, <1>3, ControllerStep, ConnectionStep, SynchronizerStep,
           CallerStep, CheckerStep, FlasherStep DEF Next

-----------------------------------------------------------------------------
(* Types.  The operators on commands, calls and flashers first. *)

LEMMA CommandsType ==
    ASSUME NEW c \in [Tasks -> CmdStates], NEW t \in Tasks
    PROVE  /\ Sent(c, t) \in [Tasks -> CmdStates]
           /\ Ended(c, t) \in [Tasks -> CmdStates]
           /\ Lost(c) \in [Tasks -> CmdStates]
BY DEF Sent, Ended, Lost, CmdStates

LEMMA WokenType ==
    ASSUME flash \in [Flashers -> FlashStates], NEW t
    PROVE  Woken(t) \in [Flashers -> FlashStates]
BY DEF Woken, FlashStates

LEMMA SyncTask == "sync" \in Tasks /\ "check" \in Tasks
BY DEF Tasks

(* The part of TasksTypeOK that the synchronizer may change. *)
SyncType ==
    /\ cmd \in [Tasks -> CmdStates]
    /\ sync \in SyncStates
    /\ ackDone \in BOOLEAN
    /\ legacy \in 0..MaxLegacyNames

LEMMA SyncResetType ==
    ASSUME SyncType, SyncReset
    PROVE  SyncType'
<1>1. cmd' \in [Tasks -> CmdStates]
  BY CommandsType, SyncTask DEF SyncType, SyncReset
<1>2. 0 \in 0..MaxLegacyNames
  BY LifecycleAssumption
<1> QED BY <1>1, <1>2 DEF SyncType, SyncReset, SyncStates

LEMMA SyncSendType ==
    ASSUME SyncType, NEW next \in SyncStates, SyncSend(next)
    PROVE  SyncType'
<1>1. CASE HasImpl
  <2>0. Ended(cmd, "sync") \in [Tasks -> CmdStates]
    BY CommandsType, SyncTask DEF SyncType
  <2>1. cmd' \in [Tasks -> CmdStates]
    <3>1. cmd' = Sent(Ended(cmd, "sync"), "sync")
      BY <1>1 DEF SyncSend
    <3> QED BY <2>0, <3>1, CommandsType, SyncTask
  <2>2. 0 \in 0..MaxLegacyNames
    BY LifecycleAssumption
  <2> QED BY <1>1, <2>1, <2>2 DEF SyncType, SyncSend
<1>2. CASE ~HasImpl
  BY <1>2, SyncResetType DEF SyncSend
<1> QED BY <1>1, <1>2

LEMMA SyncRenameType ==
    ASSUME SyncType, NEW n \in Int, n <= MaxLegacyNames, SyncRename(n)
    PROVE  SyncType'
<1>1. cmd' = Ended(cmd, "sync") \/ cmd' = Sent(Ended(cmd, "sync"), "sync")
        => cmd' \in [Tasks -> CmdStates]
  <2>1. Ended(cmd, "sync") \in [Tasks -> CmdStates]
    BY CommandsType, SyncTask DEF SyncType
  <2> QED BY <2>1, CommandsType, SyncTask
<1>2. 0 \in 0..MaxLegacyNames /\ "sysinfo" \in SyncStates /\ "remove" \in SyncStates
        /\ "rename" \in SyncStates
  BY LifecycleAssumption DEF SyncStates
<1>3. CASE SyncRenamed
  <2>1. CASE state.acknowledged
    BY <1>1, <1>2, <1>3, <2>1 DEF SyncRenamed, SyncType
  <2>2. CASE ~state.acknowledged
    BY <1>2, <1>3, <2>2, SyncSendType DEF SyncRenamed
  <2> QED BY <2>1, <2>2
<1>4. CASE ~SyncRenamed
  <2>1. n \in 0..MaxLegacyNames
    BY <1>4, LifecycleAssumption DEF SyncRename
  <2> QED BY <1>1, <1>2, <1>4, <2>1 DEF SyncRename, SyncType
<1> QED BY <1>3, <1>4

LEMMA ControllerType ==
    ASSUME TasksTypeOK, Controller
    PROVE  TasksTypeOK'
<1>0. "sync" \in Tasks
  BY SyncTask
<1>1. ASSUME NEW t \in Tasks, Respond(t) PROVE TasksTypeOK'
  BY <1>1 DEF Respond, TasksTypeOK, CmdStates, envVars, syncVars, checkVars
<1>2. ASSUME NEW t \in Tasks, RespondError(t) PROVE TasksTypeOK'
  BY <1>2, LifecycleAssumption
     DEF RespondError, TasksTypeOK, CmdStates, Fault, syncVars, checkVars
<1>3. CASE Welcome \/ PromptAnswered
  BY <1>0, <1>3 DEF Welcome, PromptAnswered, TasksTypeOK, CmdStates, envVars, checkVars
<1>4. CASE Dropped
  <2>1. cmd' \in [Tasks -> CmdStates]
    BY <1>0, <1>4, CommandsType DEF Dropped, TasksTypeOK
  <2> QED BY <1>4, <2>1, LifecycleAssumption
          DEF Dropped, TasksTypeOK, Fault, syncVars, checkVars
<1> QED BY <1>1, <1>2, <1>3, <1>4 DEF Controller

LEMMA ConnectionType ==
    ASSUME TasksTypeOK, Connection
    PROVE  TasksTypeOK'
<1> USE DEF TasksTypeOK, envVars, syncVars, checkVars
<1>1. CASE Enabled \/ Wakes
  BY <1>1 DEF Enabled, Wakes
<1>2. ASSUME NEW h \in Handshakes, Connected(h) PROVE TasksTypeOK'
  BY <1>2 DEF Connected, SyncStates, Handshaking
<1>3. CASE ConnectFailed
  BY <1>3, LifecycleAssumption DEF ConnectFailed, Fault
<1>4. CASE Disconnected
  BY <1>4 DEF Disconnected
<1> QED BY <1>1, <1>2, <1>3, <1>4 DEF Connection

LEMMA FaultType ==
    ASSUME faults \in 0..MaxFaults, Fault \/ UNCHANGED faults
    PROVE  faults' \in 0..MaxFaults
BY LifecycleAssumption DEF Fault

LEMMA CommandEnds ==
    ASSUME faults \in 0..MaxFaults, NEW t, Succeeds(t) \/ Fails(t)
    PROVE  faults' \in 0..MaxFaults
BY FaultType DEF Succeeds, Fails, Refused, TimesOut

LEMMA SynchronizerType ==
    ASSUME TasksTypeOK, Synchronizer
    PROVE  TasksTypeOK'
<1>0. SyncType /\ faults \in 0..MaxFaults /\ flash \in [Flashers -> FlashStates]
  BY DEF TasksTypeOK, SyncType
<1> SUFFICES /\ SyncType'
             /\ faults' \in 0..MaxFaults
             /\ flash' \in [Flashers -> FlashStates]
             /\ UNCHANGED <<peer, storeEnabled, checkVars>>
             /\ call' \in [Callers -> Calls]
             /\ fresh' \subseteq {"check", "names", "sysinfo"}
  BY DEF TasksTypeOK, SyncType, checkVars
<1>a. call \in [Callers -> Calls] /\ fresh \subseteq {"check", "names", "sysinfo"}
  BY DEF TasksTypeOK
<1>b. /\ Woken("sync") \in [Flashers -> FlashStates]
      /\ Ended(cmd, "sync") \in [Tasks -> CmdStates]
      /\ Sent(cmd, "sync") \in [Tasks -> CmdStates]
  BY <1>0, WokenType, CommandsType, SyncTask DEF SyncType
<1>c. \A s \in {"names", "legacy", "sysinfo", "wait_connected", "pinging", "prompting",
                "wait_disconnected"} : s \in SyncStates
  BY DEF SyncStates, Handshaking
<1>1. CASE SyncStart
  BY <1>0, <1>a, <1>c, <1>1 DEF SyncStart, SyncType, envVars
<1>2. CASE SyncPrompt
  BY <1>0, <1>a, <1>b, <1>c, <1>2 DEF SyncPrompt, SyncType, envVars
<1>3. CASE SyncPrompted
  <2>1. faults' \in 0..MaxFaults
    BY <1>0, <1>3, CommandEnds DEF SyncPrompted
  <2> QED BY <1>0, <1>a, <1>b, <1>c, <1>3, <2>1 DEF SyncPrompted, SyncType
<1>4. CASE SyncHandshakeTimeout
  <2>1. SyncType' /\ faults' \in 0..MaxFaults
    BY <1>0, <1>4, SyncResetType, FaultType DEF SyncHandshakeTimeout
  <2> QED BY <1>0, <1>a, <1>b, <1>4, <2>1 DEF SyncHandshakeTimeout
<1>5. CASE SyncCheck
  <2>1. CASE CheckCompatible
    BY <1>0, <1>a, <1>c, <1>5, <2>1, SyncSendType DEF SyncCheck, envVars
  <2>2. CASE ~CheckCompatible
    BY <1>0, <1>a, <1>c, <1>5, <2>2 DEF SyncCheck, SyncType, envVars
  <2> QED BY <2>1, <2>2
<1>6. CASE SyncNames
  <2>1. faults' \in 0..MaxFaults
    BY <1>0, <1>6, CommandEnds DEF SyncNames
  <2>2. SyncType'
    <3>1. CASE SyncReset
      BY <1>0, <3>1, SyncResetType
    <3>2. CASE ~SyncReset
      BY <1>0, <1>b, <1>c, <1>6, <3>2 DEF SyncNames, SyncType
    <3> QED BY <3>1, <3>2
  <2> QED BY <1>a, <1>b, <1>6, <2>1, <2>2 DEF SyncNames
<1>7. ASSUME NEW n \in 0..MaxLegacyNames, SyncLegacy(n)
      PROVE  SyncType'
  BY <1>0, <1>c, <1>7, SyncSendType, SyncRenameType DEF SyncLegacy
<1>8. ASSUME NEW n \in 0..MaxLegacyNames, SyncLegacy(n)
      PROVE  UNCHANGED <<envVars, call, checkVars, flash, fresh>>
  BY <1>8 DEF SyncLegacy
<1>9. CASE SyncRenameDone
  <2>1. faults' \in 0..MaxFaults
    BY <1>0, <1>9, CommandEnds DEF SyncRenameDone
  <2>2. SyncType'
    <3>1. legacy - 1 \in Int /\ legacy - 1 <= MaxLegacyNames
      BY <1>0, LifecycleAssumption DEF SyncType
    <3> QED BY <1>0, <1>9, <3>1, SyncRenameType DEF SyncRenameDone
  <2> QED BY <1>a, <1>b, <1>9, <2>1, <2>2 DEF SyncRenameDone
<1>10. CASE SyncRemoved
  <2>1. SyncType'
    BY <1>0, <1>c, <1>10, SyncSendType, SyncResetType DEF SyncRemoved
  <2>2. faults' \in 0..MaxFaults
    BY <1>0, <1>10, FaultType DEF SyncRemoved
  <2> QED BY <1>0, <1>a, <1>10, <2>1, <2>2 DEF SyncRemoved
<1>11. CASE SyncSysinfo
  <2>1. faults' \in 0..MaxFaults
    BY <1>0, <1>11, CommandEnds DEF SyncSysinfo, SysinfoApplied
  <2>2. CASE SyncReset /\ UNCHANGED call
    BY <1>0, <1>a, <1>b, <1>11, <2>1, <2>2, SyncResetType DEF SyncSysinfo
  <2>3. CASE ~(SyncReset /\ UNCHANGED call)
    <3>1. SyncType'
      BY <1>0, <1>b, <1>c, <1>11, <2>3 DEF SyncSysinfo, SyncType
    <3>2. call' \in [Callers -> Calls]
      BY <1>a, <1>11, <2>3 DEF SyncSysinfo, Calls
    <3> QED BY <1>a, <1>b, <1>11, <2>1, <3>1, <3>2 DEF SyncSysinfo
  <2> QED BY <2>2, <2>3
<1> QED BY <1>0, <1>a, <1>1, <1>2, <1>3, <1>4, <1>5, <1>6, <1>7, <1>8, <1>9, <1>10, <1>11
        DEF Synchronizer, envVars, checkVars

LEMMA CallerType ==
    ASSUME TasksTypeOK, NEW c \in Callers, Caller(c)
    PROVE  TasksTypeOK'
<1>0. /\ faults \in 0..MaxFaults
      /\ call \in [Callers -> Calls]
      /\ cmd \in [Tasks -> CmdStates]
      /\ checks \in 0..MaxChecks
      /\ c \in Tasks
  BY DEF TasksTypeOK, Tasks
<1>1. /\ Woken(c) \in [Flashers -> FlashStates]
      /\ flash \in [Flashers -> FlashStates]
  BY WokenType DEF TasksTypeOK
<1> SUFFICES /\ cmd' \in [Tasks -> CmdStates]
             /\ call' \in [Callers -> Calls]
             /\ checks' \in 0..MaxChecks
             /\ flash' \in [Flashers -> FlashStates]
             /\ faults' \in 0..MaxFaults
             /\ UNCHANGED <<peer, storeEnabled, syncVars, check, fresh>>
  BY DEF TasksTypeOK, syncVars
<1>2. ASSUME NEW op \in Ops \cup {"none"}, NEW left \in 0..3, CallSends(c, op, left)
      PROVE  cmd' \in [Tasks -> CmdStates] /\ call' \in [Callers -> Calls]
  <2>1. Ended(cmd, c) \in [Tasks -> CmdStates]
    BY <1>0, CommandsType
  <2>2. cmd' \in [Tasks -> CmdStates]
    BY <1>0, <1>2, <2>1, CommandsType DEF CallSends
  <2> QED BY <1>0, <1>2, <2>2 DEF CallSends, Calls
<1>3. ASSUME CallReturns(c)
      PROVE  cmd' \in [Tasks -> CmdStates] /\ call' \in [Callers -> Calls]
  <2>1. Idle \in Calls
    BY DEF Idle, Calls
  <2> QED BY <1>0, <1>3, <2>1, CommandsType DEF CallReturns
<1>4. ASSUME NEW op \in Ops \cup {"none"}, CallWaits(c, op)
      PROVE  call' \in [Callers -> Calls]
  BY <1>0, <1>4 DEF CallWaits, OpLength, Calls
<1>5. call[c].op \in Ops \cup {"none"} /\ call[c].left \in 0..3
  BY <1>0 DEF Calls
<1>6. ASSUME NEW op \in Ops, CallBegin(c, op)
      PROVE  /\ cmd' \in [Tasks -> CmdStates] /\ call' \in [Callers -> Calls]
             /\ UNCHANGED <<handlerVars, envVars, syncVars, checkVars, flash, fresh>>
  <2>1. OpLength(op) \in 0..3
    BY DEF OpLength
  <2> QED BY <1>0, <1>2, <1>4, <1>6, <2>1 DEF CallBegin
<1>7. CASE CallWaitTimeout(c)
  BY <1>0, <1>1, <1>3, <1>7 DEF CallWaitTimeout, envVars, checkVars
<1>8. CASE CallProceeds(c)
  BY <1>0, <1>1, <1>2, <1>3, <1>4, <1>5, <1>8 DEF CallProceeds, envVars, checkVars
<1>9. CASE CallSucceeds(c)
  <2>1. faults' \in 0..MaxFaults
    BY <1>0, <1>9, CommandEnds DEF CallSucceeds
  <2>2. CASE call[c].left > 1 /\ HasImpl
    <3>1. call[c].left - 1 \in 0..3
      BY <1>5, <2>2
    <3> QED BY <1>0, <1>1, <1>2, <1>5, <1>9, <2>1, <2>2, <3>1 DEF CallSucceeds, checkVars
  <2>3. CASE ~(call[c].left > 1 /\ HasImpl)
    BY <1>0, <1>1, <1>3, <1>9, <2>1, <2>3 DEF CallSucceeds, checkVars
  <2> QED BY <2>2, <2>3
<1>10. CASE CallRefused(c) \/ CallTimesOut(c)
  <2>1. faults' \in 0..MaxFaults
    BY <1>0, <1>10, CommandEnds DEF CallRefused, CallTimesOut, Fails
  <2>2. checks' \in 0..MaxChecks
    BY <1>0, <1>10, LifecycleAssumption DEF CallRefused, CallTimesOut, checkVars
  <2> QED BY <1>1, <1>3, <1>10, <2>1, <2>2 DEF CallRefused, CallTimesOut, checkVars
<1> QED BY <1>0, <1>1, <1>6, <1>7, <1>8, <1>9, <1>10 DEF Caller, envVars, checkVars

LEMMA CheckerType ==
    ASSUME TasksTypeOK, HolderCounted, Checker
    PROVE  TasksTypeOK' /\ HolderCounted'
<1>0. /\ faults \in 0..MaxFaults
      /\ cmd \in [Tasks -> CmdStates]
      /\ checks \in 0..MaxChecks
      /\ check \in {"idle", "noop", "reset"}
      /\ flash \in [Flashers -> FlashStates]
      /\ call \in [Callers -> Calls]
  BY DEF TasksTypeOK
<1>1. /\ Woken("check") \in [Flashers -> FlashStates]
      /\ Ended(cmd, "check") \in [Tasks -> CmdStates]
      /\ Sent(cmd, "check") \in [Tasks -> CmdStates]
  BY <1>0, WokenType, CommandsType, SyncTask
<1>2. Lost(Ended(cmd, "check")) \in [Tasks -> CmdStates]
  BY <1>1, CommandsType, SyncTask
<1> SUFFICES /\ cmd' \in [Tasks -> CmdStates]
             /\ checks' \in 0..MaxChecks
             /\ check' \in {"idle", "noop", "reset"}
             /\ flash' \in [Flashers -> FlashStates]
             /\ faults' \in 0..MaxFaults
             /\ check' # "idle" => checks' > 0
             /\ UNCHANGED <<peer, storeEnabled, syncVars, call, fresh>>
  BY DEF TasksTypeOK, HolderCounted, syncVars
<1>3. ASSUME checks > 0 PROVE checks - 1 \in 0..MaxChecks
  BY <1>0, <1>3, LifecycleAssumption
<1>4. CASE CheckStarts
  BY <1>0, <1>1, <1>3, <1>4 DEF CheckStarts, envVars
<1>5. CASE CheckSucceeds
  <2>1. faults' \in 0..MaxFaults
    BY <1>0, <1>5, CommandEnds DEF CheckSucceeds
  <2> QED BY <1>1, <1>3, <1>5, <2>1 DEF CheckSucceeds, HolderCounted
<1>6. CASE CheckFails
  <2>1. faults' \in 0..MaxFaults
    BY <1>0, <1>6, CommandEnds DEF CheckFails
  <2> QED BY <1>0, <1>1, <1>2, <1>3, <1>6, <2>1 DEF CheckFails, HolderCounted
<1>7. CASE CheckResetDone
  BY <1>0, <1>3, <1>7 DEF CheckResetDone, HolderCounted, envVars
<1> QED BY <1>4, <1>5, <1>6, <1>7 DEF Checker

LEMMA FlasherType ==
    ASSUME TasksTypeOK, NEW f \in Flashers, Flasher(f)
    PROVE  TasksTypeOK'
<1>0. /\ faults \in 0..MaxFaults
      /\ cmd \in [Tasks -> CmdStates]
      /\ flash \in [Flashers -> FlashStates]
      /\ f \in Tasks
  BY DEF TasksTypeOK, Tasks
<1>1. /\ Woken(f) \in [Flashers -> FlashStates]
      /\ Ended(cmd, f) \in [Tasks -> CmdStates]
      /\ Sent(cmd, f) \in [Tasks -> CmdStates]
  BY <1>0, WokenType, CommandsType
<1>2. Lost(Ended(cmd, f)) \in [Tasks -> CmdStates]
  BY <1>0, <1>1, CommandsType
<1> SUFFICES /\ cmd' \in [Tasks -> CmdStates]
             /\ flash' \in [Flashers -> FlashStates]
             /\ faults' \in 0..MaxFaults
             /\ UNCHANGED <<peer, storeEnabled, syncVars, call, checkVars, fresh>>
  BY DEF TasksTypeOK, syncVars, checkVars
<1>3. ASSUME NEW s \in FlashStates
      PROVE  /\ [flash EXCEPT ![f] = s] \in [Flashers -> FlashStates]
             /\ [Woken(f) EXCEPT ![f] = s] \in [Flashers -> FlashStates]
  BY <1>0, <1>1
<1>4. CASE FlashBegin(f)
  BY <1>0, <1>3, <1>4 DEF FlashBegin, FlashStates, envVars
<1>5. CASE FlashSends(f)
  BY <1>0, <1>1, <1>3, <1>5 DEF FlashSends, FlashStates, envVars
<1>6. CASE FlashAccepted(f)
  <2>1. faults' \in 0..MaxFaults
    BY <1>0, <1>6, CommandEnds DEF FlashAccepted
  <2> QED BY <1>2, <1>3, <1>6, <2>1 DEF FlashAccepted, FlashStates
<1>7. CASE FlashRefused(f)
  <2>1. faults' \in 0..MaxFaults
    BY <1>0, <1>7, CommandEnds DEF FlashRefused
  <2> QED BY <1>1, <1>3, <1>7, <2>1 DEF FlashRefused, FlashStates
<1>8. CASE FlashEnded(f) \/ FlashUploaded(f) \/ FlashFails(f)
  BY <1>0, <1>3, <1>8 DEF FlashEnded, FlashUploaded, FlashFails, FlashStates, envVars
<1> QED BY <1>4, <1>5, <1>6, <1>7, <1>8 DEF Flasher

LEMMA RestartType ==
    ASSUME TasksTypeOK, Restart, Fault \/ UNCHANGED faults
    PROVE  TasksTypeOK'
<1>1. faults' \in 0..MaxFaults
  BY FaultType DEF TasksTypeOK
<1>2. 0 \in 0..MaxChecks /\ 0 \in 0..MaxLegacyNames
  BY LifecycleAssumption
<1>3. Idle \in Calls
  BY DEF Idle, Calls
<1> QED BY <1>1, <1>2, <1>3
        DEF Restart, TasksTypeOK, CmdStates, FlashStates, SyncStates

(* The type of all tasks, with the two facts it needs to be inductive. *)
TasksInv == TasksTypeOK /\ PeerKnown /\ HolderCounted

LEMMA NextTasksType ==
    ASSUME TasksInv, [Next]_vars
    PROVE  TasksTypeOK' /\ HolderCounted'
<1> USE DEF TasksInv
<1>1. CASE Controller
  <2>1. UNCHANGED checkVars
    BY <1>1 DEF Controller, Respond, RespondError, Welcome, PromptAnswered, Dropped
  <2> QED BY <1>1, <2>1, ControllerType DEF HolderCounted, checkVars
<1>2. CASE Connection
  <2>1. UNCHANGED checkVars
    BY <1>2 DEF Connection, Enabled, Connected, ConnectFailed, Disconnected, Wakes
  <2> QED BY <1>2, <2>1, ConnectionType DEF HolderCounted, checkVars
<1>3. CASE Synchronizer
  <2>1. UNCHANGED checkVars
    BY <1>3 DEF Synchronizer, SyncStart, SyncPrompt, SyncPrompted, SyncHandshakeTimeout,
       SyncCheck, SyncNames, SyncLegacy, SyncRenameDone, SyncRemoved, SyncSysinfo
  <2> QED BY <1>3, <2>1, SynchronizerType DEF HolderCounted, checkVars
<1>4. ASSUME NEW c \in Callers, Caller(c) PROVE TasksTypeOK' /\ HolderCounted'
  <2>1. check' = check /\ checks' \in {checks, checks + 1}
    BY <1>4 DEF Caller, CallBegin, CallWaitTimeout, CallProceeds, CallSucceeds,
       CallRefused, CallTimesOut, checkVars
  <2>2. checks \in Nat
    BY LifecycleAssumption DEF TasksTypeOK
  <2> QED BY <1>4, <2>1, <2>2, CallerType DEF HolderCounted
<1>5. ASSUME NEW f \in Flashers, Flasher(f) PROVE TasksTypeOK' /\ HolderCounted'
  <2>1. UNCHANGED checkVars
    BY <1>5 DEF Flasher, FlashBegin, FlashSends, FlashAccepted, FlashRefused, FlashEnded,
       FlashUploaded, FlashFails
  <2> QED BY <1>5, <2>1, FlasherType DEF HolderCounted, checkVars
<1>6. ASSUME NEW b \in BOOLEAN, SettingsEnabled(b) PROVE TasksTypeOK' /\ HolderCounted'
  BY <1>6 DEF SettingsEnabled, TasksTypeOK, HolderCounted, syncVars, checkVars
<1>7. CASE RestartAfterFlash \/ RestartService
  BY <1>7, RestartType DEF RestartAfterFlash, RestartService, Restart, HolderCounted
<1>8. CASE UNCHANGED vars
  BY <1>8 DEF vars, envVars, syncVars, checkVars, TasksTypeOK, HolderCounted
<1> QED BY <1>1, <1>2, <1>3, <1>4, <1>5, <1>6, <1>7, <1>8, CheckerType DEF Next

(* Only the connection task and a restart make and end connections. *)
LEMMA OtherStepsKeepConnection ==
    ASSUME [Next]_vars, ~Connection, ~RestartAfterFlash, ~RestartService
    PROVE  UNCHANGED <<peer, handler>>
<1> USE DEF handlerVars, envVars
<1>1. CASE Controller
  BY <1>1 DEF Controller, Respond, RespondError, Welcome, PromptAnswered, Dropped,
     Acknowledge, TransportLost
<1>2. ASSUME SyncReset PROVE UNCHANGED handler
  BY <1>2 DEF SyncReset, ResetConnection, EnableState
<1>3. ASSUME NEW next, SyncSend(next) PROVE UNCHANGED handler
  BY <1>2, <1>3 DEF SyncSend
<1>4. ASSUME NEW n, SyncRename(n) PROVE UNCHANGED handler
  BY <1>3, <1>4 DEF SyncRename, SyncRenamed
<1>5. CASE Synchronizer
  BY <1>2, <1>3, <1>4, <1>5 DEF Synchronizer, SyncStart, SyncPrompt, SyncPrompted,
     SyncHandshakeTimeout, SyncCheck, SyncNames, SyncLegacy, SyncRenameDone, SyncRemoved,
     SyncSysinfo, EnableState, Synchronize
<1>6. ASSUME NEW b \in BOOLEAN, SettingsEnabled(b) PROVE UNCHANGED <<peer, handler>>
  BY <1>6 DEF SettingsEnabled, EnableState
<1>7. ASSUME NEW c \in Callers, Caller(c) PROVE UNCHANGED <<peer, handler>>
  BY <1>7 DEF Caller, CallBegin, CallWaitTimeout, CallProceeds, CallSucceeds, CallRefused,
     CallTimesOut
<1>8. CASE Checker
  BY <1>8 DEF Checker, CheckStarts, CheckSucceeds, CheckFails, CheckResetDone,
     ResetConnection
<1>9. ASSUME NEW f \in Flashers, Flasher(f) PROVE UNCHANGED <<peer, handler>>
  BY <1>9 DEF Flasher, FlashBegin, FlashSends, FlashAccepted, FlashRefused, FlashEnded,
     FlashUploaded, FlashFails, StartUpdating, EndConnection
<1>10. CASE UNCHANGED vars
  BY <1>10 DEF vars
<1> QED BY <1>1, <1>5, <1>6, <1>7, <1>8, <1>9, <1>10 DEF Next

LEMMA NextPeer ==
    ASSUME TasksInv, [Next]_vars
    PROVE  PeerKnown'
<1> USE DEF TasksInv, PeerKnown, HasImpl
<1>1. CASE Connection
  <2>1. CASE Enabled \/ ConnectFailed \/ Disconnected \/ Wakes
    BY <2>1 DEF Enabled, ConnectFailed, Disconnected, Wakes, HandlerEnabled,
       HandlerConnectFailed, HandlerDisconnected, HandlerWakes, envVars
  <2>2. ASSUME NEW h \in Handshakes, Connected(h) PROVE PeerKnown'
    BY <2>2 DEF Connected
  <2> QED BY <1>1, <2>1, <2>2 DEF Connection
<1>2. CASE RestartAfterFlash \/ RestartService
  BY <1>2 DEF RestartAfterFlash, RestartService, Restart, HandlerRestart
<1>3. CASE ~(Connection \/ RestartAfterFlash \/ RestartService)
  BY <1>3, OtherStepsKeepConnection
<1> QED BY <1>1, <1>2, <1>3

-----------------------------------------------------------------------------
(* What is proved of ConnectionHandler holds of the service. *)

LifecycleInv == TasksInv /\ HandlerInv

LEMMA LifecycleInit == Init => LifecycleInv
<1> SUFFICES ASSUME Init PROVE LifecycleInv
  OBVIOUS
<1>1. HandlerInv
  BY InitInv DEF Init
<1>2. 0 \in 0..MaxFaults /\ 0 \in 0..MaxChecks /\ 0 \in 0..MaxLegacyNames
  BY LifecycleAssumption
<1>3. Idle \in Calls
  BY DEF Idle, Calls
<1>4. TasksTypeOK
  BY <1>2, <1>3 DEF Init, TasksInit, TasksTypeOK, CmdStates, FlashStates, SyncStates
<1>5. PeerKnown /\ HolderCounted
  BY DEF Init, TasksInit, HandlerInit, PeerKnown, HolderCounted, HasImpl
<1> QED BY <1>1, <1>4, <1>5 DEF LifecycleInv, TasksInv

LEMMA LifecycleNext ==
    LifecycleInv /\ [Next]_vars => LifecycleInv' /\ [HandlerNext]_handlerVars
<1> SUFFICES ASSUME LifecycleInv, [Next]_vars
             PROVE  LifecycleInv' /\ [HandlerNext]_handlerVars
  OBVIOUS
<1>1. [HandlerNext]_handlerVars
  BY StepOfHandler DEF LifecycleInv, TasksInv, TasksTypeOK
<1>2. HandlerInv'
  BY <1>1, NextType, NextState, NextBackoff DEF LifecycleInv, HandlerInv, StateInv
<1>3. TasksInv'
  BY NextTasksType, NextPeer DEF LifecycleInv, TasksInv
<1> QED BY <1>1, <1>2, <1>3 DEF LifecycleInv

LEMMA LifecycleInvariant == Spec => []LifecycleInv
<1> QED BY LifecycleInit, LifecycleNext, PTL DEF Spec

(* The variables of all tasks keep their types. *)
THEOREM LifecycleTypes == Spec => []TypeOK
<1>1. LifecycleInv => TypeOK
  BY DEF LifecycleInv, TasksInv, HandlerInv, TypeOK
<1> QED BY <1>1, LifecycleInvariant, PTL

(* Whatever the synchronizer, the API calls, the connection checks and the  *)
(* firmware updates do together, in any number, the connection task and the *)
(* state machine behave as ConnectionHandler says.                          *)
THEOREM LifecycleImplementsHandler == Spec => ImplementsHandler
<1>1. Init => HandlerInit
  BY DEF Init
<1> QED BY <1>1, LifecycleNext, LifecycleInvariant, PTL
        DEF Spec, ImplementsHandler, HandlerSpec

(* The events, the description and the status of the state machine are       *)
(* consistent in every state of the service.                                 *)
COROLLARY LifecycleKeepsHandlerInv == Spec => []HandlerInv
<1> QED BY LifecycleImplementsHandler, HandlerInvariant, PTL DEF ImplementsHandler

(* The service climbs to SYNCHRONIZED one level at a time.                   *)
COROLLARY LifecycleImplementsServiceLevel == Spec => ImplementsServiceLevel
<1> QED BY LifecycleImplementsHandler, HandlerImplementsServiceLevel, PTL
        DEF ImplementsHandler

-----------------------------------------------------------------------------
(* What the tasks' own states say about the connection.  Ties is inductive:  *)
(* a task that was woken runs before the next connection is made, so what it *)
(* was told is still true, or there is no connection at all.                 *)

(* A command is answered only over the transport it was sent over. *)
LiveOverTransport ==
    \A t \in Tasks : cmd[t] = "live" => HasImpl /\ ~implLost

(* What was woken on a connection runs before the next one is made. *)
WokenBeforeReconnect ==
    /\ \A t \in Tasks : cmd[t] \in {"ok", "err"} => handler \in {"connected", "sleeping"}
    /\ \A c \in Callers : call[c].at = "ready" => handler \in {"connected", "sleeping"}

(* A guarded call past wait_synchronized() is on a synchronized connection, *)
(* or on none.                                                              *)
GuardedOnSynchronized ==
    \A c \in Callers :
        \/ call[c].at = "ready"
        \/ /\ call[c].at = "running"
           /\ call[c].op \in Guarded
           /\ cmd[c] \in {"live", "ok", "err"}
        => (HasImpl => state.synchronized)

(* An accepted patch_block() that the synchronizer was not yet told of is    *)
(* one of this connection.                                                   *)
SettingsOfConnection ==
    sync = "sysinfo" /\ cmd["sync"] = "ok" /\ HasImpl => "sysinfo" \in fresh

(* Once the update command was accepted the connection task goes to its end. *)
StoppedForUpload ==
    \A f \in Flashers :
        /\ flash[f] \in {"ending", "ota", "done"} =>
             /\ ~enabled
             /\ handler \in {"connected", "sleeping", "ended"}
             /\ HasImpl => implLost
        /\ flash[f] = "ota" => handler \in {"sleeping", "ended"}

Ties ==
    /\ LiveOverTransport
    /\ WokenBeforeReconnect
    /\ GuardedOnSynchronized
    /\ SettingsOfConnection
    /\ SynchronizedHasSettings
    /\ StoppedForUpload

LEMMA LostFacts ==
    ASSUME NEW c \in [Tasks -> CmdStates], NEW t \in Tasks
    PROVE  /\ Lost(c)[t] # "live"
           /\ Lost(c)[t] \in {"ok", "err"} => Lost(c)[t] = c[t]
BY DEF Lost

LEMMA SentFacts ==
    ASSUME NEW c \in [Tasks -> CmdStates], NEW t \in Tasks, NEW u \in Tasks
    PROVE  /\ Sent(c, t)[u] = "live" => ~implLost \/ c[u] = "live"
           /\ Sent(c, t)[u] \in {"ok", "err"} => Sent(c, t)[u] = c[u]
           /\ u # t => Sent(c, t)[u] = c[u]
BY DEF Sent

LEMMA EndedFacts ==
    ASSUME NEW c \in [Tasks -> CmdStates], NEW t \in Tasks, NEW u \in Tasks
    PROVE  IF u = t THEN Ended(c, t)[u] = "none" ELSE Ended(c, t)[u] = c[u]
BY DEF Ended

LEMMA WokenFacts ==
    ASSUME flash \in [Flashers -> FlashStates], NEW t, NEW f \in Flashers
    PROVE  Woken(t)[f] \in {"ending", "ota", "done"} => Woken(t)[f] = flash[f]
BY DEF Woken

(* A step keeps Ties when the connection lasts (or is being closed), only   *)
(* commands sent over it become live, no command is answered, no call goes  *)
(* on unless the service is synchronized, and no update goes on.            *)
LEMMA TiesKept ==
    ASSUME HandlerInv, Ties,
           UNCHANGED <<handler, enabled>>,
           state'.synchronized = state.synchronized,
           implLost => implLost',
           fresh \subseteq fresh',
           \A t \in Tasks : cmd'[t] = "live" => HasImpl /\ ~implLost',
           \A t \in Tasks : cmd'[t] \in {"ok", "err"} => cmd'[t] = cmd[t],
           \A c \in Callers :
              \/ call'[c] = call[c] /\ (cmd'[c] = "live" => cmd[c] = "live")
              \/ call'[c].at \in {"idle", "waiting"}
              \/ call'[c].at = "running" /\ call'[c].op \notin Guarded
              \/ state.synchronized,
           sync' = "sysinfo" /\ cmd'["sync"] = "ok" => sync = "sysinfo",
           \A f \in Flashers :
              flash'[f] \in {"ending", "ota", "done"} => flash'[f] = flash[f]
    PROVE  Ties'
<1>0. state.synchronized => handler = "connected"
  BY DEF HandlerInv, EventsConsistent, HasImpl
<1>1. LiveOverTransport'
  BY DEF LiveOverTransport, HasImpl
<1>2. WokenBeforeReconnect'
  BY <1>0 DEF Ties, WokenBeforeReconnect
<1>3. GuardedOnSynchronized'
  BY DEF Ties, GuardedOnSynchronized, HasImpl, Tasks
<1>4. SettingsOfConnection' /\ SynchronizedHasSettings'
  BY SyncTask DEF Ties, SettingsOfConnection, SynchronizedHasSettings, HasImpl
<1>5. StoppedForUpload'
  BY DEF Ties, StoppedForUpload, HasImpl
<1> QED BY <1>1, <1>2, <1>3, <1>4, <1>5 DEF Ties

LEMMA RespondTies ==
    ASSUME TasksTypeOK, Ties, NEW t \in Tasks, Respond(t) \/ RespondError(t)
    PROVE  Ties'
<1> USE DEF HasImpl
<1>0. cmd \in [Tasks -> CmdStates]
  BY DEF TasksTypeOK
<1>1. /\ cmd[t] = "live"
      /\ cmd' \in {[cmd EXCEPT ![t] = "ok"], [cmd EXCEPT ![t] = "err"]}
      /\ UNCHANGED <<handlerVars, call, flash, sync>>
      /\ fresh \subseteq fresh'
      /\ t = "sync" /\ sync = "sysinfo" /\ cmd'[t] = "ok" => "sysinfo" \in fresh'
  BY <1>0 DEF Respond, RespondError, syncVars
<1>2. UNCHANGED <<state, handler, implLost, enabled>>
  BY <1>1 DEF handlerVars
<1>3. handler = "connected" /\ \A u \in Tasks : u # t => cmd'[u] = cmd[u]
  BY <1>0, <1>1 DEF Ties, LiveOverTransport
<1>4. LiveOverTransport'
  BY <1>0, <1>1, <1>2, <1>3 DEF Ties, LiveOverTransport
<1>5. WokenBeforeReconnect'
  BY <1>2, <1>3
     DEF Ties, WokenBeforeReconnect
<1>6. GuardedOnSynchronized'
  BY <1>0, <1>1, <1>2, <1>3 DEF Ties, GuardedOnSynchronized, Tasks
<1>7. SettingsOfConnection' /\ SynchronizedHasSettings'
  BY <1>0, <1>1, <1>2, <1>3, SyncTask
     DEF Ties, SettingsOfConnection, SynchronizedHasSettings
<1>8. StoppedForUpload'
  BY <1>1, <1>2 DEF Ties, StoppedForUpload
<1> QED BY <1>4, <1>5, <1>6, <1>7, <1>8 DEF Ties

LEMMA ControllerTies ==
    ASSUME TasksTypeOK, HandlerInv, Ties, Controller
    PROVE  Ties'
<1> USE DEF Ties, LiveOverTransport, WokenBeforeReconnect, GuardedOnSynchronized,
            SettingsOfConnection, SynchronizedHasSettings, StoppedForUpload, HasImpl
<1>0. cmd \in [Tasks -> CmdStates] /\ state \in State
  BY DEF TasksTypeOK, HandlerInv, HandlerTypeOK
<1>1. ASSUME NEW h, Acknowledge(h) PROVE state'.synchronized = state.synchronized
  BY <1>0, <1>1 DEF Acknowledge, SetAcknowledged, State
<1>2. CASE Welcome
  BY <1>0, <1>1, <1>2 DEF Welcome, Acknowledge, envVars, checkVars
<1>3. CASE PromptAnswered
  <2>1. handler = "connected" /\ cmd' = [cmd EXCEPT !["sync"] = "ok"]
    BY <1>3 DEF PromptAnswered, Acknowledge
  <2>2. UNCHANGED <<handler, implLost, enabled, call, flash, fresh, sync>>
    BY <1>3 DEF PromptAnswered, Acknowledge
  <2>3. state'.synchronized = state.synchronized /\ sync # "sysinfo"
    BY <1>1, <1>3 DEF PromptAnswered
  <2>4. \A c \in Callers : cmd'[c] = cmd[c]
    BY <1>0, <2>1, LifecycleAssumption DEF Tasks
  <2>5. WokenBeforeReconnect'
    BY <2>1, <2>2
  <2> QED BY <1>0, <2>1, <2>2, <2>3, <2>4, <2>5
<1>4. CASE Dropped
  <2>1. /\ UNCHANGED <<handler, enabled, state, fresh, call, flash, sync>>
        /\ implLost'
        /\ cmd' = Lost(cmd)
    BY <1>4 DEF Dropped, TransportLost, syncVars
  <2>2. \A t \in Tasks : cmd'[t] # "live" /\ (cmd'[t] \in {"ok", "err"} => cmd'[t] = cmd[t])
    BY <1>0, <2>1, LostFacts
  <2>3. \A c \in Callers : cmd'[c] # "live"
    BY <2>2 DEF Tasks
  <2> HIDE DEF Ties, LiveOverTransport, WokenBeforeReconnect, GuardedOnSynchronized,
               SettingsOfConnection, SynchronizedHasSettings, StoppedForUpload
  <2> QED BY <2>1, <2>2, <2>3, TiesKept
<1> QED BY <1>2, <1>3, <1>4, RespondTies DEF Controller

LEMMA ConnectionTies ==
    ASSUME HandlerInv, Ties, Connection
    PROVE  Ties'
<1> USE DEF Ties, LiveOverTransport, WokenBeforeReconnect, GuardedOnSynchronized,
            SettingsOfConnection, SynchronizedHasSettings, StoppedForUpload, HasImpl
<1>0. /\ state \in State
      /\ state.synchronized => handler = "connected"
  BY DEF HandlerInv, HandlerTypeOK, EventsConsistent
<1>1. UNCHANGED <<cmd, call, flash>>
  BY DEF Connection, Enabled, Connected, ConnectFailed, Disconnected, Wakes
<1>2. CASE Enabled
  BY <1>1, <1>2 DEF Enabled, HandlerEnabled, syncVars
<1>3. ASSUME NEW h \in Handshakes, Connected(h) PROVE Ties'
  <2>1. handler = "connecting" /\ handler' = "connected" /\ ~state'.synchronized
    BY <1>0, <1>3 DEF Connected, HandlerConnected, SetConnected, State
  <2>2. /\ \A t \in Tasks : cmd[t] \notin {"live", "ok", "err"}
        /\ \A c \in Callers : call[c].at # "ready"
        /\ \A f \in Flashers : flash[f] \notin {"ending", "ota", "done"}
    BY <2>1
  <2>3. cmd["sync"] # "ok" /\ \A c \in Callers : cmd[c] \notin {"live", "ok", "err"}
    BY <2>2 DEF Tasks
  <2> QED BY <1>1, <2>1, <2>2, <2>3
<1>4. CASE ConnectFailed
  BY <1>0, <1>1, <1>4
     DEF ConnectFailed, HandlerConnectFailed, SetDisconnected, State, syncVars
<1>5. CASE Disconnected
  BY <1>0, <1>1, <1>5
     DEF Disconnected, HandlerDisconnected, SetDisconnected, State, syncVars
<1>6. CASE Wakes
  <2>1. /\ \A t \in Tasks : cmd[t] \notin {"live", "ok", "err"}
        /\ \A c \in Callers : call[c].at # "ready"
    BY <1>6 DEF Wakes, Quiet, HandlerWakes
  <2> QED BY <1>0, <1>1, <1>6, <2>1 DEF Wakes, HandlerWakes, syncVars
<1> QED BY <1>2, <1>3, <1>4, <1>5, <1>6 DEF Connection

LEMMA RestartTies ==
    ASSUME Restart
    PROVE  Ties'
BY DEF Restart, HandlerRestart, InitialState, Idle, Ties, LiveOverTransport,
   WokenBeforeReconnect, GuardedOnSynchronized, SettingsOfConnection,
   SynchronizedHasSettings, StoppedForUpload, HasImpl

LEMMA CallerTies ==
    ASSUME TasksTypeOK, HandlerInv, Ties, NEW c \in Callers, Caller(c)
    PROVE  Ties'
<1>0. cmd \in [Tasks -> CmdStates] /\ call \in [Callers -> Calls] /\ c \in Tasks
      /\ flash \in [Flashers -> FlashStates] /\ Ended(cmd, c) \in [Tasks -> CmdStates]
  BY CommandsType DEF TasksTypeOK, Tasks
<1>1. UNCHANGED <<handlerVars, fresh, sync>> /\ flash' \in {flash, Woken(c)}
  BY DEF Caller, CallBegin, CallWaitTimeout, CallProceeds, CallSucceeds, CallRefused,
     CallTimesOut, syncVars
<1>2. \A f \in Flashers :
        flash'[f] \in {"ending", "ota", "done"} => flash'[f] = flash[f]
  BY <1>0, <1>1, WokenFacts
<1>3. \/ UNCHANGED cmd
      \/ cmd' = Ended(cmd, c)
      \/ HasImpl /\ cmd' = Sent(Ended(cmd, c), c)
  BY DEF Caller, CallBegin, CallWaitTimeout, CallProceeds, CallSucceeds, CallRefused,
     CallTimesOut, CallSends, CallReturns
<1>4. \A u \in Tasks :
        /\ cmd'[u] = "live" => HasImpl /\ ~implLost
        /\ cmd'[u] \in {"ok", "err"} => cmd'[u] = cmd[u]
        /\ u # c => cmd'[u] = cmd[u]
  BY <1>0, <1>3, EndedFacts, SentFacts DEF Ties, LiveOverTransport
<1>5. \A d \in Callers \ {c} : call'[d] = call[d]
  BY <1>0 DEF Caller, CallBegin, CallWaitTimeout, CallProceeds, CallSucceeds, CallRefused,
     CallTimesOut, CallSends, CallReturns, CallWaits
<1>6. \/ call'[c].at \in {"idle", "waiting"}
      \/ call'[c].at = "running" /\ call'[c].op \notin Guarded
      \/ state.synchronized
  <2> DEFINE Goal == \/ call'[c].at \in {"idle", "waiting"}
                     \/ call'[c].at = "running" /\ call'[c].op \notin Guarded
                     \/ state.synchronized
  <2>1. ASSUME NEW op, NEW left, CallSends(c, op, left)
        PROVE  call'[c].at = "running" /\ call'[c].op = op
    BY <1>0, <2>1 DEF CallSends
  <2>2. ASSUME CallReturns(c) PROVE Goal
    BY <1>0, <2>2 DEF CallReturns, Idle
  <2>3. ASSUME NEW op, CallWaits(c, op) PROVE Goal
    BY <1>0, <2>3 DEF CallWaits
  <2>4. ASSUME NEW op \in Ops, CallBegin(c, op) PROVE Goal
    BY <2>1, <2>3, <2>4 DEF CallBegin, Guarded, Unguarded
  <2>5. CASE CallProceeds(c)
    BY <2>2, <2>3, <2>5 DEF CallProceeds, Ties, GuardedOnSynchronized
  <2>6. CASE CallSucceeds(c)
    BY <2>1, <2>2, <2>6 DEF CallSucceeds, Succeeds, Ties, GuardedOnSynchronized
  <2>7. CASE CallWaitTimeout(c) \/ CallRefused(c) \/ CallTimesOut(c)
    BY <2>2, <2>7 DEF CallWaitTimeout, CallRefused, CallTimesOut
  <2> QED BY <2>4, <2>5, <2>6, <2>7 DEF Caller
<1> QED BY <1>1, <1>2, <1>4, <1>5, <1>6, SyncTask, TiesKept DEF handlerVars, Tasks

LEMMA CheckerTies ==
    ASSUME TasksTypeOK, HandlerInv, Ties, Checker
    PROVE  Ties'
<1>0. /\ cmd \in [Tasks -> CmdStates] /\ "check" \in Tasks
      /\ flash \in [Flashers -> FlashStates]
      /\ Ended(cmd, "check") \in [Tasks -> CmdStates]
      /\ state.synchronized => HasImpl
  BY CommandsType, SyncTask DEF TasksTypeOK, HandlerInv, EventsConsistent
<1>1. /\ UNCHANGED <<state, handler, enabled, fresh, sync, call>>
      /\ flash' \in {flash, Woken("check")}
      /\ implLost => implLost'
  <2>1. CASE CheckFails
    BY <2>1 DEF CheckFails, ResetConnection, syncVars
  <2>2. CASE ~CheckFails
    BY <2>2 DEF Checker, CheckStarts, CheckSucceeds, CheckResetDone, handlerVars, syncVars
  <2> QED BY <2>1, <2>2
<1>2. \A f \in Flashers :
        flash'[f] \in {"ending", "ota", "done"} => flash'[f] = flash[f]
  BY <1>0, <1>1, WokenFacts
<1>3. \/ implLost' = implLost /\ cmd' \in {cmd, Ended(cmd, "check")}
      \/ implLost' = implLost /\ HasImpl /\ cmd' = Sent(cmd, "check")
      \/ cmd' = Lost(Ended(cmd, "check"))
  BY <1>0 DEF Checker, CheckStarts, CheckSucceeds, CheckFails, CheckResetDone, handlerVars
<1>4. \A u \in Tasks :
        /\ cmd'[u] = "live" => HasImpl /\ ~implLost'
        /\ cmd'[u] \in {"ok", "err"} => cmd'[u] = cmd[u]
        /\ u # "check" /\ cmd'[u] = "live" => cmd[u] = "live"
  BY <1>0, <1>3, EndedFacts, SentFacts, LostFacts DEF Ties, LiveOverTransport
<1>5. \A c \in Callers : cmd'[c] = "live" => cmd[c] = "live"
  BY <1>4, LifecycleAssumption DEF Tasks
<1> QED BY <1>1, <1>2, <1>4, <1>5, TiesKept

(* What the synchronizer may do with its command and the connection. *)
SyncFrame ==
    /\ UNCHANGED <<handler, enabled>>
    /\ state'.synchronized = state.synchronized
    /\ implLost => implLost'
    /\ \A u \in Tasks :
         /\ cmd'[u] = "live" => HasImpl /\ ~implLost'
         /\ cmd'[u] \in {"ok", "err"} => cmd'[u] = cmd[u]
         /\ u # "sync" /\ cmd'[u] = "live" => cmd[u] = "live"
    /\ sync' = "sysinfo" /\ cmd'["sync"] = "ok" => sync = "sysinfo"

LEMMA SyncResetFrame ==
    ASSUME TasksTypeOK, HandlerInv, Ties, SyncReset
    PROVE  SyncFrame
<1>0. /\ cmd \in [Tasks -> CmdStates] /\ "sync" \in Tasks
      /\ Ended(cmd, "sync") \in [Tasks -> CmdStates]
      /\ state \in State
  BY CommandsType, SyncTask DEF TasksTypeOK, HandlerInv, HandlerTypeOK
<1>1. cmd' = Lost(Ended(cmd, "sync")) /\ sync' # "sysinfo"
  BY DEF SyncReset
<1>2. UNCHANGED <<handler, enabled>> /\ state'.synchronized = state.synchronized
      /\ (implLost => implLost')
  <2>1. CASE ResetConnection
    BY <2>1 DEF ResetConnection
  <2>2. CASE EnableState(storeEnabled)
    BY <1>0, <2>2 DEF EnableState, SetEnabled, State
  <2> QED BY <2>1, <2>2 DEF SyncReset
<1>3. \A u \in Tasks : cmd'[u] # "live" /\ (cmd'[u] \in {"ok", "err"} => cmd'[u] = cmd[u])
  BY <1>0, <1>1, LostFacts, EndedFacts
<1> QED BY <1>1, <1>2, <1>3 DEF SyncFrame

LEMMA SyncSendFrame ==
    ASSUME TasksTypeOK, HandlerInv, Ties, NEW next, SyncSend(next)
    PROVE  SyncFrame
<1>0. /\ cmd \in [Tasks -> CmdStates] /\ "sync" \in Tasks
      /\ Ended(cmd, "sync") \in [Tasks -> CmdStates]
  BY CommandsType, SyncTask DEF TasksTypeOK
<1>1. CASE SyncReset
  BY <1>1, SyncResetFrame
<1>2. CASE ~SyncReset
  <2>1. /\ HasImpl
        /\ cmd' = Sent(Ended(cmd, "sync"), "sync")
        /\ UNCHANGED handlerVars
    BY <1>2 DEF SyncSend
  <2>2. \A u \in Tasks :
          /\ cmd'[u] = "live" => ~implLost
          /\ cmd'[u] \in {"ok", "err"} => cmd'[u] = cmd[u]
          /\ u # "sync" => cmd'[u] = cmd[u]
          /\ cmd'["sync"] # "ok"
    BY <1>0, <2>1, EndedFacts, SentFacts DEF Ties, LiveOverTransport
  <2> QED BY <1>0, <2>1, <2>2 DEF SyncFrame, handlerVars
<1> QED BY <1>1, <1>2

LEMMA SyncRenameFrame ==
    ASSUME TasksTypeOK, HandlerInv, Ties, NEW n, SyncRename(n)
    PROVE  SyncFrame
<1>0. /\ cmd \in [Tasks -> CmdStates] /\ "sync" \in Tasks
      /\ Ended(cmd, "sync") \in [Tasks -> CmdStates]
  BY CommandsType, SyncTask DEF TasksTypeOK
<1>1. ASSUME NEW next, SyncSend(next) PROVE SyncFrame
  BY <1>1, SyncSendFrame
<1>2. CASE /\ cmd' = Ended(cmd, "sync")
           /\ sync' # "sysinfo"
           /\ UNCHANGED handlerVars
  <2>1. \A u \in Tasks : cmd'[u] # "none" => u # "sync" /\ cmd'[u] = cmd[u]
    BY <1>0, <1>2, EndedFacts
  <2> QED BY <1>0, <1>2, <2>1 DEF SyncFrame, handlerVars, Ties, LiveOverTransport
<1>3. CASE /\ HasImpl
           /\ cmd' = Sent(Ended(cmd, "sync"), "sync")
           /\ sync' # "sysinfo"
           /\ UNCHANGED handlerVars
  <2>1. \A u \in Tasks :
          /\ cmd'[u] = "live" => ~implLost
          /\ cmd'[u] \in {"ok", "err"} => cmd'[u] = cmd[u]
          /\ u # "sync" => cmd'[u] = cmd[u]
    BY <1>0, <1>3, EndedFacts, SentFacts DEF Ties, LiveOverTransport
  <2> QED BY <1>0, <1>3, <2>1 DEF SyncFrame, handlerVars
<1> QED BY <1>1, <1>2, <1>3 DEF SyncRename, SyncRenamed

(* All steps of the synchronizer but the last one. *)
LEMMA SynchronizerFrame ==
    ASSUME TasksTypeOK, HandlerInv, Ties, Synchronizer,
           ~(SyncSysinfo /\ SysinfoApplied /\ Synchronize)
    PROVE  /\ SyncFrame
           /\ UNCHANGED call
           /\ fresh \subseteq fresh'
           /\ flash' \in {flash, Woken("sync")}
<1>0. /\ cmd \in [Tasks -> CmdStates] /\ "sync" \in Tasks
      /\ state \in State
  BY SyncTask DEF TasksTypeOK, HandlerInv, HandlerTypeOK
<1>1. /\ UNCHANGED call
      /\ fresh \subseteq fresh'
      /\ flash' \in {flash, Woken("sync")}
  BY DEF Synchronizer, SyncStart, SyncPrompt, SyncPrompted, SyncHandshakeTimeout,
     SyncCheck, SyncNames, SyncLegacy, SyncRenameDone, SyncRemoved, SyncSysinfo
<1> SUFFICES SyncFrame
  BY <1>1
<1>2. CASE /\ cmd' \in {cmd, Ended(cmd, "sync")}
           /\ sync' # "sysinfo"
           /\ UNCHANGED <<handler, enabled, implLost>>
           /\ state'.synchronized = state.synchronized
  <2>1. \A u \in Tasks : cmd'[u] # "none" => cmd'[u] = cmd[u]
    BY <1>0, <1>2, EndedFacts
  <2> QED BY <1>0, <1>2, <2>1 DEF SyncFrame, Ties, LiveOverTransport
<1>3. CASE SyncStart
  <2>1. state'.synchronized = state.synchronized
    BY <1>0, <1>3 DEF SyncStart, EnableState, SetEnabled, State
  <2> QED BY <1>2, <1>3, <2>1 DEF SyncStart, EnableState
<1>4. CASE SyncPrompt
  <2>1. CASE HasImpl
    <3>1. /\ cmd' = Sent(cmd, "sync")
          /\ sync' # "sysinfo"
          /\ UNCHANGED handlerVars
      BY <1>4, <2>1 DEF SyncPrompt
    <3>2. \A u \in Tasks :
            /\ cmd'[u] = "live" => ~implLost
            /\ cmd'[u] \in {"ok", "err"} => cmd'[u] = cmd[u]
            /\ u # "sync" => cmd'[u] = cmd[u]
      BY <1>0, <3>1, SentFacts DEF Ties, LiveOverTransport
    <3> QED BY <1>0, <2>1, <3>1, <3>2 DEF SyncFrame, handlerVars
  <2>2. CASE ~HasImpl
    BY <1>2, <1>4, <2>2 DEF SyncPrompt, handlerVars
  <2> QED BY <2>1, <2>2
<1>5. CASE SyncPrompted
  BY <1>2, <1>5 DEF SyncPrompted, handlerVars
<1>6. CASE SyncReset
  BY <1>6, SyncResetFrame
<1>7. ASSUME NEW next, SyncSend(next) PROVE SyncFrame
  BY <1>7, SyncSendFrame
<1>8. ASSUME NEW n, SyncRename(n) PROVE SyncFrame
  BY <1>8, SyncRenameFrame
<1>9. CASE SyncHandshakeTimeout
  BY <1>6, <1>9 DEF SyncHandshakeTimeout
<1>10. CASE SyncCheck
  BY <1>2, <1>7, <1>10 DEF SyncCheck, handlerVars
<1>11. CASE SyncNames
  BY <1>2, <1>6, <1>11 DEF SyncNames, handlerVars
<1>12. ASSUME NEW n, SyncLegacy(n) PROVE SyncFrame
  BY <1>7, <1>8, <1>12 DEF SyncLegacy
<1>13. CASE SyncRenameDone
  BY <1>8, <1>13 DEF SyncRenameDone
<1>14. CASE SyncRemoved
  BY <1>6, <1>7, <1>14 DEF SyncRemoved
<1>15. CASE SyncSysinfo
  BY <1>6, <1>15 DEF SyncSysinfo
<1> QED BY <1>3, <1>4, <1>5, <1>9, <1>10, <1>11, <1>12, <1>13, <1>14, <1>15
        DEF Synchronizer

LEMMA SynchronizerTies ==
    ASSUME TasksTypeOK, HandlerInv, Ties, Synchronizer
    PROVE  Ties'
<1>0. /\ cmd \in [Tasks -> CmdStates] /\ "sync" \in Tasks
      /\ flash \in [Flashers -> FlashStates]
      /\ call \in [Callers -> Calls]
      /\ state \in State
      /\ state.acknowledged => HasImpl
  BY SyncTask DEF TasksTypeOK, HandlerInv, HandlerTypeOK, EventsConsistent
<1>1. \A f \in Flashers :
        Woken("sync")[f] \in {"ending", "ota", "done"} => Woken("sync")[f] = flash[f]
  BY <1>0, WokenFacts
<1>2. CASE ~(SyncSysinfo /\ SysinfoApplied /\ Synchronize)
  <2>1. /\ SyncFrame
        /\ UNCHANGED call
        /\ fresh \subseteq fresh'
        /\ flash' \in {flash, Woken("sync")}
    BY <1>2, SynchronizerFrame
  <2>2. \A c \in Callers : cmd'[c] = "live" => cmd[c] = "live"
    BY <2>1, LifecycleAssumption DEF SyncFrame, Tasks
  <2> QED BY <1>1, <2>1, <2>2, TiesKept DEF SyncFrame
<1>3. CASE SyncSysinfo /\ SysinfoApplied /\ Synchronize
  <2>1. /\ HasImpl
        /\ state'.synchronized
        /\ UNCHANGED <<handler, implLost, enabled>>
    BY <1>0, <1>3 DEF Synchronize, SetSynchronized, State
  <2>2. /\ sync = "sysinfo" /\ cmd["sync"] = "ok"
        /\ cmd' \in {Ended(cmd, "sync"), Lost(Ended(cmd, "sync"))}
        /\ fresh' = fresh
        /\ flash' = Woken("sync")
        /\ sync' # "sysinfo"
    BY <1>3 DEF SyncSysinfo, SysinfoApplied, Succeeds, SyncReset
  <2>3. Ended(cmd, "sync") \in [Tasks -> CmdStates]
    BY <1>0, CommandsType
  <2>4. \A u \in Tasks : cmd'[u] = "live" => cmd[u] = "live"
    BY <1>0, <2>2, <2>3, EndedFacts, LostFacts
  <2>5. LiveOverTransport'
    BY <2>1, <2>4 DEF Ties, LiveOverTransport, HasImpl
  <2>6. WokenBeforeReconnect' /\ GuardedOnSynchronized'
    BY <2>1 DEF WokenBeforeReconnect, GuardedOnSynchronized, HasImpl
  <2>7. SettingsOfConnection' /\ SynchronizedHasSettings'
    BY <2>1, <2>2 DEF Ties, SettingsOfConnection, SynchronizedHasSettings
  <2>8. StoppedForUpload'
    BY <1>1, <2>1, <2>2 DEF Ties, StoppedForUpload, HasImpl
  <2> QED BY <2>5, <2>6, <2>7, <2>8 DEF Ties
<1> QED BY <1>2, <1>3

LEMMA FlasherTies ==
    ASSUME TasksTypeOK, HandlerInv, Ties, NEW f \in Flashers, Flasher(f)
    PROVE  Ties'
<1>0. /\ cmd \in [Tasks -> CmdStates] /\ f \in Tasks
      /\ flash \in [Flashers -> FlashStates]
      /\ Woken(f) \in [Flashers -> FlashStates]
      /\ Ended(cmd, f) \in [Tasks -> CmdStates]
      /\ state \in State
      /\ state.disconnected => ~HasImpl
  BY CommandsType, WokenType
     DEF TasksTypeOK, HandlerInv, HandlerTypeOK, EventsConsistent, Tasks
<1>1. UNCHANGED <<handler, call, fresh, sync>>
  BY DEF Flasher, FlashBegin, FlashSends, FlashAccepted, FlashRefused, FlashEnded,
     FlashUploaded, FlashFails, StartUpdating, EndConnection, handlerVars, syncVars
<1>2. \/ UNCHANGED <<implLost, enabled>> /\ cmd' \in {cmd, Ended(cmd, f)}
      \/ UNCHANGED <<implLost, enabled>> /\ HasImpl /\ cmd' = Sent(cmd, f)
      \/ EndConnection /\ cmd' = Lost(Ended(cmd, f))
  BY DEF Flasher, FlashBegin, FlashSends, FlashAccepted, FlashRefused, FlashEnded,
     FlashUploaded, FlashFails, StartUpdating, handlerVars
<1>3. \A u \in Tasks :
        /\ cmd'[u] = "live" => HasImpl /\ ~implLost'
        /\ cmd'[u] \in {"ok", "err"} => cmd'[u] = cmd[u]
        /\ u # f /\ cmd'[u] = "live" => cmd[u] = "live"
  BY <1>0, <1>2, EndedFacts, SentFacts, LostFacts DEF Ties, LiveOverTransport
<1>4. /\ \A c \in Callers : cmd'[c] = "live" => cmd[c] = "live"
      /\ \A c \in Callers : cmd'[c] \in {"ok", "err"} => cmd'[c] = cmd[c]
      /\ cmd'["sync"] = "ok" => cmd["sync"] = "ok"
  BY <1>3, LifecycleAssumption DEF Tasks
<1>5. state'.synchronized = state.synchronized
  <2>1. CASE StartUpdating
    BY <1>0, <2>1 DEF StartUpdating, SetUpdating, State
  <2>2. CASE ~StartUpdating
    BY <2>2 DEF Flasher, FlashBegin, FlashSends, FlashAccepted, FlashRefused, FlashEnded,
       FlashUploaded, FlashFails, EndConnection, handlerVars
  <2> QED BY <2>1, <2>2
<1>6. /\ LiveOverTransport'
      /\ WokenBeforeReconnect'
      /\ GuardedOnSynchronized'
      /\ SettingsOfConnection'
      /\ SynchronizedHasSettings'
  <2>1. LiveOverTransport' /\ SettingsOfConnection' /\ SynchronizedHasSettings'
    BY <1>1, <1>3, <1>4, <1>5 DEF Ties, LiveOverTransport, SettingsOfConnection,
       SynchronizedHasSettings, HasImpl
  <2>2. WokenBeforeReconnect'
    BY <1>1, <1>3 DEF Ties, WokenBeforeReconnect
  <2>3. GuardedOnSynchronized'
    BY <1>1, <1>4, <1>5 DEF Ties, GuardedOnSynchronized, HasImpl
  <2> QED BY <2>1, <2>2, <2>3
<1>7. ASSUME NEW g \in Flashers
      PROVE  /\ Woken(f)[g] \in {"ending", "ota", "done"} => Woken(f)[g] = flash[g]
  BY <1>0, WokenFacts
<1>8. CASE FlashAccepted(f)
  \* The command was answered, so the connection task is not connecting.
  <2>1. handler \in {"connected", "sleeping"}
    BY <1>0, <1>8 DEF FlashAccepted, Succeeds, Ties, WokenBeforeReconnect
  <2>2. ~enabled' /\ (HasImpl => implLost')
    BY <1>8 DEF FlashAccepted, EndConnection
  <2>3. \A g \in Flashers : flash'[g] = "ota" => flash[g] = "ota"
    BY <1>0, <1>7, <1>8 DEF FlashAccepted
  <2> QED BY <1>1, <1>6, <2>1, <2>2, <2>3 DEF Ties, StoppedForUpload, HasImpl
<1>9. CASE ~FlashAccepted(f)
  <2>1. UNCHANGED <<implLost, enabled>>
    BY <1>9 DEF Flasher, FlashBegin, FlashSends, FlashRefused, FlashEnded, FlashUploaded,
       FlashFails, StartUpdating, handlerVars
  <2>2. \A g \in Flashers :
          flash'[g] \in {"ending", "ota", "done"} =>
             \/ flash'[g] = flash[g]
             \/ flash'[g] = "ota" /\ flash[g] = "ending" /\ ~HasImpl
             \/ flash'[g] = "done" /\ flash[g] = "ota"
    <3>1. CASE FlashBegin(f) \/ FlashSends(f) \/ FlashFails(f)
      BY <1>0, <3>1 DEF FlashBegin, FlashSends, FlashFails
    <3>2. CASE FlashRefused(f)
      BY <1>0, <1>7, <3>2 DEF FlashRefused
    <3>3. CASE FlashEnded(f) \/ FlashUploaded(f)
      BY <1>0, <3>3 DEF FlashEnded, FlashUploaded
    <3> QED BY <1>9, <3>1, <3>2, <3>3 DEF Flasher
  <2> QED BY <1>1, <1>6, <2>1, <2>2 DEF Ties, StoppedForUpload, HasImpl
<1> QED BY <1>8, <1>9

LEMMA InitTies == Init => Ties
BY DEF Init, TasksInit, HandlerInit, InitialState, Idle, Ties, LiveOverTransport,
   WokenBeforeReconnect, GuardedOnSynchronized, SettingsOfConnection,
   SynchronizedHasSettings, StoppedForUpload, HasImpl

LEMMA NextTies ==
    LifecycleInv /\ Ties /\ [Next]_vars => Ties'
<1> SUFFICES ASSUME LifecycleInv, Ties, [Next]_vars PROVE Ties'
  OBVIOUS
<1>0. TasksTypeOK /\ HandlerInv
  BY DEF LifecycleInv, TasksInv
<1>1. ASSUME NEW b \in BOOLEAN, SettingsEnabled(b) PROVE Ties'
  <2>1. state \in State
    BY <1>0 DEF HandlerInv, HandlerTypeOK
  <2>2. /\ UNCHANGED <<handler, implLost, enabled, cmd, call, flash, sync, fresh>>
        /\ state'.synchronized = state.synchronized
    BY <1>1, <2>1 DEF SettingsEnabled, EnableState, SetEnabled, State, syncVars
  <2> QED BY <2>2 DEF Ties, LiveOverTransport, WokenBeforeReconnect,
          GuardedOnSynchronized, SettingsOfConnection, SynchronizedHasSettings,
          StoppedForUpload, HasImpl
<1>2. CASE RestartAfterFlash \/ RestartService
  BY <1>2, RestartTies DEF RestartAfterFlash, RestartService
<1>3. CASE UNCHANGED vars
  BY <1>3 DEF vars, handlerVars, syncVars, Ties, LiveOverTransport, WokenBeforeReconnect,
     GuardedOnSynchronized, SettingsOfConnection, SynchronizedHasSettings,
     StoppedForUpload, HasImpl
<1> QED BY <1>0, <1>1, <1>2, <1>3, ControllerTies, ConnectionTies, SynchronizerTies,
           CallerTies, CheckerTies, FlasherTies DEF Next

LEMMA TiesInvariant == Spec => []Ties
<1> QED BY InitTies, NextTies, LifecycleInvariant, PTL DEF Spec

(* SYNCHRONIZED means that this very connection accepted the settings        *)
(* (StateSynchronizer.synchronize() and set_synchronized()).                 *)
THEOREM SettingsBeforeSynchronized == Spec => []SynchronizedHasSettings
<1>1. Ties => SynchronizedHasSettings
  BY DEF Ties
<1> QED BY <1>1, TiesInvariant, PTL

(* No connection is held or tried while a Flasher sends the firmware, with   *)
(* any number of update requests (Flasher.run(), ConnectionHandler.end()).   *)
THEOREM UploadIsAlone == Spec => []UploadHasControllerAlone
<1>1. Ties => UploadHasControllerAlone
  BY DEF Ties, StoppedForUpload, UploadHasControllerAlone
<1> QED BY <1>1, TiesInvariant, PTL

-----------------------------------------------------------------------------
(* A controller keeps its handshake for as long as it is connected, so its   *)
(* errors do not change either, however often it sends it.                   *)
CheckedInv ==
    /\ state.acknowledged => state.controller = peer
    /\ "check" \in fresh => state.acknowledged /\ IsCompatible(state)

DescriptionKept ==
    /\ state'.acknowledged = state.acknowledged
    /\ state'.controller = state.controller
    /\ state'.firmware_error = state.firmware_error
    /\ state'.identity_error = state.identity_error

(* The synchronizer leaves the description alone: it closes the transport.   *)
LEMMA SynchronizerDescription ==
    ASSUME state \in State, Synchronizer
    PROVE  DescriptionKept
<1> USE DEF DescriptionKept, handlerVars
<1>1. ASSUME NEW b, EnableState(b) PROVE DescriptionKept
  BY <1>1 DEF EnableState, SetEnabled, State
<1>2. ASSUME SyncReset PROVE DescriptionKept
  BY <1>1, <1>2 DEF SyncReset, ResetConnection
<1>3. ASSUME NEW next, SyncSend(next) PROVE DescriptionKept
  BY <1>2, <1>3 DEF SyncSend
<1>4. ASSUME NEW n, SyncRename(n) PROVE DescriptionKept
  BY <1>3, <1>4 DEF SyncRename, SyncRenamed
<1>5. CASE SyncStart
  BY <1>1, <1>5 DEF SyncStart
<1>6. CASE SyncPrompt \/ SyncPrompted \/ SyncCheck
  BY <1>3, <1>6 DEF SyncPrompt, SyncPrompted, SyncCheck
<1>7. CASE SyncHandshakeTimeout \/ SyncNames \/ SyncRemoved
  BY <1>2, <1>3, <1>7 DEF SyncHandshakeTimeout, SyncNames, SyncRemoved
<1>8. ASSUME NEW n, SyncLegacy(n) PROVE DescriptionKept
  BY <1>3, <1>4, <1>8 DEF SyncLegacy
<1>9. CASE SyncRenameDone
  BY <1>4, <1>9 DEF SyncRenameDone
<1>10. CASE SyncSysinfo
  <2>1. CASE Synchronize
    BY <2>1 DEF Synchronize, SetSynchronized, State
  <2> QED BY <1>2, <1>10, <2>1 DEF SyncSysinfo
<1> QED BY <1>5, <1>6, <1>7, <1>8, <1>9, <1>10 DEF Synchronizer

LEMMA SynchronizerFresh ==
    ASSUME Synchronizer, "check" \in fresh'
    PROVE  "check" \in fresh \/ (state.acknowledged /\ IsCompatible(state))
<1>1. CASE SyncCheck
  BY <1>1 DEF SyncCheck, CheckCompatible
<1>2. CASE ~SyncCheck
  BY <1>2 DEF Synchronizer, SyncStart, SyncPrompt, SyncPrompted, SyncHandshakeTimeout,
     SyncNames, SyncLegacy, SyncRenameDone, SyncRemoved, SyncSysinfo
<1> QED BY <1>1, <1>2

(* Nor do the others: API calls, checks and updates.                         *)
LEMMA OthersDescription ==
    ASSUME state \in State,
           \/ \E b \in BOOLEAN : SettingsEnabled(b)
           \/ \E c \in Callers : Caller(c)
           \/ Checker
           \/ \E f \in Flashers : Flasher(f)
           \/ UNCHANGED vars
    PROVE  DescriptionKept /\ UNCHANGED <<peer, fresh>>
<1> USE DEF DescriptionKept, handlerVars, envVars
<1>1. ASSUME NEW b \in BOOLEAN, SettingsEnabled(b)
      PROVE  DescriptionKept /\ UNCHANGED <<peer, fresh>>
  BY <1>1 DEF SettingsEnabled, EnableState, SetEnabled, State
<1>2. ASSUME NEW c \in Callers, Caller(c)
      PROVE  DescriptionKept /\ UNCHANGED <<peer, fresh>>
  BY <1>2 DEF Caller, CallBegin, CallWaitTimeout, CallProceeds, CallSucceeds, CallRefused,
     CallTimesOut
<1>3. CASE Checker
  BY <1>3 DEF Checker, CheckStarts, CheckSucceeds, CheckFails, CheckResetDone, ResetConnection
<1>4. ASSUME NEW f \in Flashers, Flasher(f)
      PROVE  DescriptionKept /\ UNCHANGED <<peer, fresh>>
  <2>1. CASE StartUpdating
    <3>1. DescriptionKept
      BY <2>1 DEF StartUpdating, SetUpdating, State
    <3> QED BY <1>4, <3>1 DEF Flasher, FlashBegin, FlashSends, FlashAccepted, FlashRefused,
            FlashEnded, FlashUploaded, FlashFails
  <2>2. CASE ~StartUpdating
    BY <1>4, <2>2 DEF Flasher, FlashBegin, FlashSends, FlashAccepted, FlashRefused,
       FlashEnded, FlashUploaded, FlashFails, EndConnection
  <2> QED BY <2>1, <2>2
<1>5. CASE UNCHANGED vars
  BY <1>5 DEF vars
<1> QED BY <1>1, <1>2, <1>3, <1>4, <1>5

(* What the controller sends is its one handshake.                           *)
LEMMA ControllerKeepsChecked ==
    ASSUME HandlerInv, CheckedInv, Controller
    PROVE  CheckedInv'
<1>0. state \in State
  BY DEF HandlerInv, HandlerTypeOK
<1>1. UNCHANGED peer /\ ("check" \in fresh' => "check" \in fresh)
  BY DEF Controller, Respond, RespondError, Welcome, PromptAnswered, Dropped, envVars
<1>2. CASE Acknowledge(peer)
  <2>1. CASE state.synchronized
    BY <1>1, <1>2, <2>1 DEF Acknowledge, SetAcknowledged, CheckedInv
  <2>2. CASE ~state.synchronized
    <3>1. /\ state'.acknowledged /\ state'.controller = peer
          /\ state'.firmware_error = FirmwareError(peer)
          /\ state'.identity_error = IdentityError(peer)
      BY <1>0, <1>2, <2>2 DEF Acknowledge, SetAcknowledged, State
    <3>2. "check" \in fresh => IsCompatible(state')
      BY <3>1 DEF CheckedInv, HandlerInv, DescriptionCurrent, IsCompatible
    <3> QED BY <1>1, <3>1, <3>2 DEF CheckedInv, IsCompatible
  <2> QED BY <2>1, <2>2
<1>3. CASE UNCHANGED state
  BY <1>1, <1>3 DEF CheckedInv, IsCompatible
<1> QED BY <1>2, <1>3 DEF Controller, Respond, RespondError, Welcome, PromptAnswered, Dropped,
        TransportLost, handlerVars

LEMMA NextChecked ==
    LifecycleInv /\ CheckedInv /\ [Next]_vars => CheckedInv'
<1> SUFFICES ASSUME LifecycleInv, CheckedInv, [Next]_vars PROVE CheckedInv'
  OBVIOUS
<1>0. /\ HandlerInv /\ state \in State
      /\ state.acknowledged => HasImpl
  BY DEF LifecycleInv, HandlerInv, HandlerTypeOK, EventsConsistent
<1>1. CASE DescriptionKept /\ UNCHANGED peer
           /\ ("check" \in fresh' => "check" \in fresh \/ (state.acknowledged /\ IsCompatible(state)))
  BY <1>1 DEF DescriptionKept, CheckedInv, IsCompatible
<1>2. CASE Controller
  BY <1>0, <1>2, ControllerKeepsChecked
<1>3. CASE Synchronizer
  <2>1. UNCHANGED peer
    BY <1>3 DEF Synchronizer, SyncStart, SyncPrompt, SyncPrompted, SyncHandshakeTimeout,
       SyncCheck, SyncNames, SyncLegacy, SyncRenameDone, SyncRemoved, SyncSysinfo, envVars
  <2> QED BY <1>0, <1>1, <1>3, <2>1, SynchronizerDescription, SynchronizerFresh
<1>4. CASE Connection
  <2>1. CASE Enabled \/ Wakes
    BY <2>1 DEF Enabled, Wakes, HandlerEnabled, HandlerWakes, envVars, CheckedInv, IsCompatible
  <2>2. ASSUME NEW h \in Handshakes, Connected(h) PROVE CheckedInv'
    <3>1. ~state.acknowledged /\ "check" \notin fresh
      BY <1>0, <2>2 DEF Connected, HandlerConnected, HasImpl, CheckedInv
    <3>2. ~state'.acknowledged /\ "check" \notin fresh'
      BY <1>0, <2>2, <3>1 DEF Connected, HandlerConnected, SetConnected, State
    <3> QED BY <3>2 DEF CheckedInv
  <2>3. CASE ConnectFailed
    <3>1. ~state.acknowledged /\ "check" \notin fresh
      BY <1>0, <2>3 DEF ConnectFailed, HandlerConnectFailed, HasImpl, CheckedInv
    <3>2. ~state'.acknowledged /\ "check" \notin fresh'
      BY <1>0, <2>3, <3>1 DEF ConnectFailed, HandlerConnectFailed, SetDisconnected, State
    <3> QED BY <3>2 DEF CheckedInv
  <2>4. CASE Disconnected
    <3>1. ~state'.acknowledged /\ "check" \notin fresh'
      BY <1>0, <2>4 DEF Disconnected, HandlerDisconnected, SetDisconnected, State
    <3> QED BY <3>1 DEF CheckedInv
  <2> QED BY <1>4, <2>1, <2>2, <2>3, <2>4 DEF Connection
<1>5. CASE RestartAfterFlash \/ RestartService
  BY <1>5 DEF RestartAfterFlash, RestartService, Restart, HandlerRestart, InitialState, CheckedInv
<1> QED BY <1>0, <1>1, <1>2, <1>3, <1>4, <1>5, OthersDescription DEF Next

(* A controller that passed check_compatible() on this connection stays      *)
(* compatible, however many welcome messages it sends                        *)
(* (StateSynchronizer.synchronize()).                                        *)
THEOREM CheckedStaysCompatible == Spec => []CheckedIsCompatible
<1>1. Init => CheckedInv
  BY DEF Init, TasksInit, HandlerInit, InitialState, CheckedInv
<1>2. CheckedInv => CheckedIsCompatible
  BY DEF CheckedInv, CheckedIsCompatible
<1> QED BY <1>1, <1>2, NextChecked, LifecycleInvariant, PTL DEF Spec

(* Only a client's own call sends a command for it. *)
LEMMA OtherCommands ==
    ASSUME TasksTypeOK, NEW c \in Tasks, NEW t \in Tasks, t # c,
           \/ cmd' \in {cmd, Ended(cmd, t), Sent(cmd, t), Sent(Ended(cmd, t), t)}
           \/ cmd' \in {Lost(cmd), Lost(Ended(cmd, t))}
    PROVE  cmd'[c] \in {"live", "lost"} => cmd[c] \in {"live", "lost"}
<1>1. cmd \in [Tasks -> CmdStates] /\ Ended(cmd, t) \in [Tasks -> CmdStates]
  BY CommandsType DEF TasksTypeOK
<1>2. Ended(cmd, t)[c] = cmd[c]
  BY <1>1, EndedFacts
<1>3. /\ Sent(cmd, t)[c] = cmd[c]
      /\ Sent(Ended(cmd, t), t)[c] = cmd[c]
  BY <1>1, <1>2, SentFacts
<1>4. /\ Lost(cmd)[c] = "lost" => cmd[c] \in {"live", "lost"}
      /\ Lost(Ended(cmd, t))[c] = "lost" => cmd[c] \in {"live", "lost"}
      /\ Lost(cmd)[c] # "live" /\ Lost(Ended(cmd, t))[c] # "live"
  BY <1>2 DEF Lost
<1> QED BY <1>2, <1>3, <1>4

LEMMA OthersDoNotSend ==
    ASSUME TasksTypeOK, NEW c \in Callers, [Next]_vars, ~Caller(c),
           cmd'[c] \in {"live", "lost"}
    PROVE  cmd[c] \in {"live", "lost"}
<1>0. c \in Tasks /\ c # "sync" /\ c # "check" /\ cmd \in [Tasks -> CmdStates]
  BY LifecycleAssumption DEF Tasks, TasksTypeOK
<1> DEFINE By(t) == \/ cmd' \in {cmd, Ended(cmd, t), Sent(cmd, t), Sent(Ended(cmd, t), t)}
                    \/ cmd' \in {Lost(cmd), Lost(Ended(cmd, t))}
           Goal == cmd[c] \in {"live", "lost"}
<1>1. ASSUME NEW t \in Tasks, t # c, By(t) PROVE Goal
  BY <1>0, <1>1, OtherCommands
<1>2. ASSUME NEW t \in Tasks,
             cmd' \in {[cmd EXCEPT ![t] = "ok"], [cmd EXCEPT ![t] = "err"]}
      PROVE  Goal
  BY <1>0, <1>2
<1>3. CASE Controller
  <2>1. CASE Dropped
    BY <1>0, <1>1, <2>1, SyncTask DEF Dropped
  <2>2. CASE Welcome \/ PromptAnswered
    BY <1>0, <1>2, <2>2, SyncTask DEF Welcome, PromptAnswered
  <2>3. ASSUME NEW t \in Tasks, Respond(t) \/ RespondError(t) PROVE Goal
    BY <1>2, <2>3 DEF Respond, RespondError
  <2> QED BY <1>3, <2>1, <2>2, <2>3 DEF Controller
<1>4. CASE Synchronizer
  <2>1. ASSUME SyncReset PROVE By("sync")
    BY <2>1 DEF SyncReset
  <2>2. ASSUME NEW next, SyncSend(next) PROVE By("sync")
    BY <2>1, <2>2 DEF SyncSend
  <2>3. ASSUME NEW n, SyncRename(n) PROVE By("sync")
    BY <2>2, <2>3 DEF SyncRename, SyncRenamed
  <2>4. By("sync")
    BY <1>4, <2>1, <2>2, <2>3
       DEF Synchronizer, SyncStart, SyncPrompt, SyncPrompted, SyncHandshakeTimeout,
           SyncCheck, SyncNames, SyncLegacy, SyncRenameDone, SyncRemoved, SyncSysinfo
  <2> QED BY <1>0, <1>1, <2>4, SyncTask
<1>5. CASE Checker
  <2>1. By("check")
    BY <1>5 DEF Checker, CheckStarts, CheckSucceeds, CheckFails, CheckResetDone
  <2> QED BY <1>0, <1>1, <2>1, SyncTask
<1>6. ASSUME NEW d \in Callers, Caller(d) PROVE Goal
  <2>1. By(d) /\ d \in Tasks /\ d # c
    BY <1>6 DEF Caller, CallBegin, CallWaitTimeout, CallProceeds, CallSucceeds,
       CallRefused, CallTimesOut, CallSends, CallReturns, Tasks
  <2> QED BY <1>1, <2>1
<1>7. ASSUME NEW f \in Flashers, Flasher(f) PROVE Goal
  <2>1. By(f) /\ f \in Tasks /\ f # c
    BY <1>7, LifecycleAssumption DEF Flasher, FlashBegin, FlashSends, FlashAccepted,
       FlashRefused, FlashEnded, FlashUploaded, FlashFails, Tasks
  <2> QED BY <1>1, <2>1
<1>8. CASE Connection \/ UNCHANGED vars
  BY <1>8 DEF Connection, Enabled, Connected, ConnectFailed, Disconnected, Wakes, vars
<1>9. ASSUME NEW b \in BOOLEAN, SettingsEnabled(b) PROVE Goal
  BY <1>9 DEF SettingsEnabled
<1>10. CASE RestartAfterFlash \/ RestartService
  BY <1>0, <1>10 DEF RestartAfterFlash, RestartService, Restart
<1> QED BY <1>3, <1>4, <1>5, <1>6, <1>7, <1>8, <1>9, <1>10 DEF Next

(* A guarded call that sends a command does so on a synchronized connection. *)
LEMMA CallerSendsSynchronized ==
    ASSUME TasksTypeOK, Ties, NEW c \in Callers, Caller(c),
           call'[c].at = "running", call'[c].op \in Guarded,
           cmd'[c] \in {"live", "lost"}
    PROVE  state.synchronized
<1>0. call \in [Callers -> Calls] /\ cmd \in [Tasks -> CmdStates] /\ c \in Tasks
  BY DEF TasksTypeOK, Tasks
<1>1. ~CallReturns(c)
  BY <1>0 DEF CallReturns, Idle
<1>2. ASSUME NEW op, CallWaits(c, op) PROVE FALSE
  BY <1>0, <1>2 DEF CallWaits
<1>3. ASSUME NEW op, NEW left, CallSends(c, op, left) PROVE op \in Guarded
  BY <1>0, <1>3 DEF CallSends
<1>4. ASSUME NEW op \in Ops, CallBegin(c, op) PROVE FALSE
  BY <1>2, <1>3, <1>4 DEF CallBegin, Guarded, Unguarded
<1>5. CASE CallProceeds(c)
  BY <1>1, <1>2, <1>5 DEF CallProceeds, Ties, GuardedOnSynchronized
<1>6. CASE CallSucceeds(c)
  BY <1>1, <1>3, <1>6 DEF CallSucceeds, Succeeds, Ties, GuardedOnSynchronized
<1>7. CASE CallWaitTimeout(c) \/ CallRefused(c) \/ CallTimesOut(c)
  BY <1>1, <1>7 DEF CallWaitTimeout, CallRefused, CallTimesOut
<1> QED BY <1>4, <1>5, <1>6, <1>7 DEF Caller

(* A guarded call sends its commands only while the service is synchronized  *)
(* (SparkApi._execute()).                                                    *)
THEOREM GuardedCallsAreSynchronized == Spec => GuardedSendsWhenSynchronized
<1>1. LifecycleInv /\ Ties /\ [Next]_vars =>
        [\A c \in Callers :
            call'[c].at = "running" /\ call'[c].op \in Guarded
              /\ cmd'[c] \in {"live", "lost"} /\ cmd[c] \notin {"live", "lost"}
            => state.synchronized]_vars
  BY OthersDoNotSend, CallerSendsSynchronized DEF LifecycleInv, TasksInv
<1> QED BY <1>1, LifecycleInvariant, TiesInvariant, PTL
        DEF Spec, GuardedSendsWhenSynchronized
=============================================================================
