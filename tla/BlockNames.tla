----------------------------- MODULE BlockNames -----------------------------
(***************************************************************************)
(* The names of blocks: the block store of the service (a bidict, sid to   *)
(* nid), the calls of SparkApi that change it, the load of names by the    *)
(* synchronizer, and the discovery lock.                                   *)
(*                                                                         *)
(* The names are kept by the controller, and the store follows what its    *)
(* responses say.  The controller handles commands one at a time, in the   *)
(* order they were sent, and responses arrive, and tasks go on, in that    *)
(* order.  Data of blocks, blocks without a name, and the wait for the     *)
(* legacy names of the datastore are left out; "read" stands for every      *)
(* command that returns one block and leaves its name (write, patch).      *)
(* The connection is a link that is up or down (Lifecycle.tla has the      *)
(* detail); a guarded call begins when the service is synchronized.        *)
(***************************************************************************)
EXTENDS Naturals, Sequences, Functions

CONSTANTS
    Callers,        \* tasks that call the API
    Synchronizer,   \* the task that loads the names after a connect
    NoOne,          \* what awaits a response when its command has timed out
    Sids, NoSid,
    UserNids,       \* nids of created blocks, from USER_NID_START
    SystemNames,    \* the names of the system blocks, nid to sid
    Backup,         \* the blocks of a backup, a sequence of [nid, sid]
    Legacy,         \* the legacy names, likewise
    Ops,            \* the operations of each caller
    Created,        \* what they create: [nid, sid], the nid may be NoNid
    MaxFaults       \* bound: drops, timeouts and refusals without a cause

Tasks == Callers \cup {Synchronizer}
SystemNids == DOMAIN SystemNames
Nids == UserNids \cup SystemNids
NoNid == 0

Injective(f) == \A x, y \in DOMAIN f : f[x] = f[y] => x = y

ASSUME BlockNamesAssumption ==
    /\ Synchronizer \notin Callers
    /\ NoOne \notin Tasks
    /\ NoSid \notin Sids
    /\ UserNids \subseteq Nat \ {0}
    /\ SystemNids \subseteq Nat \ {0}
    /\ SystemNids \cap UserNids = {}
    /\ SystemNames \in [SystemNids -> Sids] /\ Injective(SystemNames)
    /\ Backup \in Seq([nid: Nids, sid: Sids])
    /\ Legacy \in Seq([nid: Nids, sid: Sids])
    /\ \A i, j \in DOMAIN Backup :
         Backup[i].nid = Backup[j].nid \/ Backup[i].sid = Backup[j].sid => i = j
    /\ Created \subseteq [nid: UserNids \cup {NoNid}, sid: Sids]
    /\ MaxFaults \in Nat

VARIABLES
    names,      \* the controller's named blocks, nid to sid
    store,      \* block_store, sid to nid
    link,       \* there is a connection to the controller
    synced,     \* state.is_synchronized()
    requests,   \* commands on their way to the controller
    responses,  \* responses on their way back
    call,       \* what each task executes
    lockQueue,  \* _discovery_lock: its holder, and those that wait for it
    doubt,      \* history: what the store may have missed
    faults

vars == <<names, store, link, synced, requests, responses, call, lockQueue, doubt, faults>>

Kinds == {"read", "readAll", "create", "delete", "rename", "discover",
          "clear", "names", "display", "restore", "rescan", "legacy"}
WithName == {"create", "rename", "restore", "legacy"}
Commands ==
    {c \in [kind: Kinds, nid: Nids \cup {NoNid}, sid: Sids \cup {NoSid}] :
        c.sid = NoSid <=> c.kind \notin WithName}
Cmd(kind) == [kind |-> kind, nid |-> NoNid, sid |-> NoSid]
Named(kind, block) == [kind |-> kind, nid |-> block.nid, sid |-> block.sid]

(* Sets of named blocks: functions from nids to sids, no sid twice. *)
NoEntries == [s \in {} |-> NoNid]
NameTables == {f \in UNION {[N -> Sids] : N \in SUBSET Nids} : Injective(f)}

(* The programs of calls of several commands: clear_blocks(), apply_backup() *)
(* and _sync_block_store().                                                  *)
ClearCommands == <<Cmd("clear"), Cmd("names"), Cmd("display")>>
RestoreCommands == [i \in DOMAIN Backup |-> Named("restore", Backup[i])]
BackupCommands == ClearCommands \o RestoreCommands \o <<Cmd("rescan"), Cmd("names")>>
SyncCommands == <<Cmd("names")>> \o [i \in DOMAIN Legacy |-> Named("legacy", Legacy[i])]

Idle == [op |-> "none", at |-> "idle", cmd |-> Cmd("read"), todo |-> <<>>]
Calls == [op: {"none", "call", "discover", "backup", "sync"},
          at: {"idle", "lock", "sent", "lost", "reset"},
          cmd: Commands, todo: Seq(Commands)]

TypeOK ==
    /\ names \in NameTables
    /\ DOMAIN store \subseteq Sids /\ store \in [DOMAIN store -> Nids] /\ Injective(store)
    /\ link \in BOOLEAN /\ synced \in BOOLEAN /\ (synced => link)
    /\ requests \in Seq([by: Tasks \cup {NoOne}, cmd: Commands])
    /\ responses \in Seq([by: Tasks \cup {NoOne}, cmd: Commands, ok: BOOLEAN, blocks: NameTables])
    /\ call \in [Tasks -> Calls]
    /\ lockQueue \in Seq(Callers)
    /\ doubt \subseteq {"lacks", "exceeds"}
    /\ faults \in 0..MaxFaults

Init ==
    /\ names = SystemNames
    /\ store = NoEntries
    /\ link = FALSE
    /\ synced = FALSE
    /\ requests = <<>>
    /\ responses = <<>>
    /\ call = [t \in Tasks |-> Idle]
    /\ lockQueue = <<>>
    /\ doubt = {"lacks", "exceeds"}
    /\ faults = 0

-----------------------------------------------------------------------------
(* The bidict.  Both a key and a value that are there already are dropped   *)
(* with their entries: OnDupAction.DROP_OLD.                                *)
Known(nid) == \E s \in DOMAIN store : store[s] = nid

MutantPutKeepsOldName(st, blocks) ==
    [s \in DOMAIN st \cup Range(blocks) |->
        IF s \in Range(blocks) THEN CHOOSE n \in DOMAIN blocks : blocks[n] = s ELSE st[s]]

Put(st, blocks) ==
    LET kept == {s \in DOMAIN st : s \notin Range(blocks) /\ st[s] \notin DOMAIN blocks}
    IN  [s \in kept \cup Range(blocks) |->
            IF s \in kept THEN st[s] ELSE CHOOSE n \in DOMAIN blocks : blocks[n] = s]

Without(st, nid) == Restrict(st, {s \in DOMAIN st : st[s] # nid})

BackupNames ==
    [n \in {Backup[i].nid : i \in DOMAIN Backup} |->
        (CHOOSE b \in Range(Backup) : b.nid = n).sid]

-----------------------------------------------------------------------------
(* The controller. *)
NamedAs(nid, sid) == [n \in DOMAIN names \cup {nid} |-> IF n = nid THEN sid ELSE names[n]]
Only(table, nids) == Restrict(table, DOMAIN table \cap nids)
NoNames == [n \in {} |-> NoSid]
FreeSid(sid) == sid \notin Range(names)
Fault == faults < MaxFaults /\ faults' = faults + 1

Responds(r, ok, blocks) ==
    responses' = Append(responses, [by |-> r.by, cmd |-> r.cmd, ok |-> ok, blocks |-> blocks])

Reads(r) ==
    /\ \/ r.cmd.kind \in {"readAll", "names"} /\ Responds(r, TRUE, names)
       \/ r.cmd.kind = "display" /\ Responds(r, TRUE, NoNames)
       \/ /\ \/ r.cmd.kind = "read"
             \/ r.cmd.kind = "restore" /\ r.cmd.nid \in SystemNids
          /\ r.cmd.nid \in DOMAIN names
          /\ Responds(r, TRUE, Only(names, {r.cmd.nid}))
    /\ UNCHANGED names

(* With a nid of its own choice when the command names none. *)
Creates(r) ==
    /\ r.cmd.kind \in {"create", "restore"}
    /\ FreeSid(r.cmd.sid)
    /\ \E nid \in UserNids \ DOMAIN names :
         /\ r.cmd.nid \in {nid, NoNid}
         /\ names' = NamedAs(nid, r.cmd.sid)
         /\ Responds(r, TRUE, Only(names', {nid}))

Deletes(r) ==
    /\ r.cmd.kind = "delete"
    /\ r.cmd.nid \in UserNids \cap DOMAIN names
    /\ names' = Only(names, Nids \ {r.cmd.nid})
    /\ Responds(r, TRUE, NoNames)

Renames(r) ==
    /\ r.cmd.kind \in {"rename", "legacy"}
    /\ r.cmd.nid \in DOMAIN names
    /\ FreeSid(r.cmd.sid) \/ names[r.cmd.nid] = r.cmd.sid
    /\ names' = NamedAs(r.cmd.nid, r.cmd.sid)
    /\ Responds(r, TRUE, Only(names', {r.cmd.nid}))

Clears(r) ==
    /\ r.cmd.kind = "clear"
    /\ names' = SystemNames
    /\ Responds(r, TRUE, Only(names, UserNids))

(* New devices become blocks, and are returned once. *)
Discovers(r) ==
    /\ r.cmd.kind \in {"discover", "rescan"}
    /\ \/ names' = names /\ Responds(r, TRUE, NoNames)
       \/ \E nid \in UserNids \ DOMAIN names, sid \in {s \in Sids : FreeSid(s)} :
            /\ names' = NamedAs(nid, sid)
            /\ Responds(r, TRUE, Only(names', {nid}))

Handles ==
    /\ requests # <<>>
    /\ requests' = Tail(requests)
    /\ LET r == Head(requests)
       IN  Reads(r) \/ Creates(r) \/ Deletes(r) \/ Renames(r) \/ Clears(r) \/ Discovers(r)
    /\ UNCHANGED <<store, link, synced, call, lockQueue, doubt, faults>>

(* A command on one block is refused for many reasons, others only by a      *)
(* fault.                                                                    *)
Refusable == {"read", "create", "delete", "rename", "restore", "legacy"}

Refuses ==
    /\ requests # <<>>
    /\ requests' = Tail(requests)
    /\ Responds(Head(requests), FALSE, NoNames)
    /\ \/ Head(requests).cmd.kind \in Refusable /\ UNCHANGED faults
       \/ Head(requests).cmd.kind \notin Refusable /\ Fault
    /\ UNCHANGED <<names, store, link, synced, call, lockQueue, doubt>>

-----------------------------------------------------------------------------
(* The next command of a task.  Without a connection it has failed already   *)
(* (NotConnected): "lost", like a command whose connection is gone.          *)
Sends(t, op, commands) ==
    /\ call' = [call EXCEPT ![t] = [op |-> op, at |-> IF link THEN "sent" ELSE "lost",
                                    cmd |-> Head(commands), todo |-> Tail(commands)]]
    /\ requests' = IF link THEN Append(requests, [by |-> t, cmd |-> Head(commands)])
                           ELSE requests

(* _execute() of a call without the lock.  The nid of its block was given by *)
(* the caller or found in the store.                                         *)
CallBegins(t, commands) ==
    /\ call[t].at = "idle"
    /\ synced
    /\ Sends(t, "call", commands)
    /\ UNCHANGED <<names, store, link, synced, responses, lockQueue, doubt, faults>>

(* rename_block() does not pass through _execute(). *)
RenameBegins(t, nid, sid) ==
    /\ call[t].at = "idle"
    /\ Known(nid)
    /\ Sends(t, "call", <<Named("rename", [nid |-> nid, sid |-> sid])>>)
    /\ UNCHANGED <<names, store, link, synced, responses, lockQueue, doubt, faults>>

MutantDiscoversWithoutLock(t) ==
    /\ call[t].at = "idle"
    /\ synced
    /\ Sends(t, "discover", <<Cmd("discover")>>)
    /\ UNCHANGED <<names, store, link, synced, responses, lockQueue, doubt, faults>>

(* discover_blocks(), as far as the lock *)
DiscoverBegins(t) ==
    /\ call[t].at = "idle"
    /\ synced
    /\ lockQueue' = Append(lockQueue, t)
    /\ call' = [call EXCEPT ![t] = [Idle EXCEPT !.op = "discover", !.at = "lock"]]
    /\ UNCHANGED <<names, store, link, synced, requests, responses, doubt, faults>>

BackupBegins(t) ==
    /\ call[t].at = "idle"
    /\ lockQueue' = Append(lockQueue, t)
    /\ call' = [call EXCEPT ![t] = [Idle EXCEPT !.op = "backup", !.at = "lock"]]
    /\ UNCHANGED <<names, store, link, synced, requests, responses, doubt, faults>>

HoldsLock(t) == lockQueue # <<>> /\ Head(lockQueue) = t

DiscoverSends(t) ==
    /\ call[t].at = "lock" /\ call[t].op = "discover"
    /\ HoldsLock(t)
    /\ Sends(t, "discover", <<Cmd("discover")>>)
    /\ UNCHANGED <<names, store, link, synced, responses, lockQueue, doubt, faults>>

(* clear_blocks() within apply_backup() passes through _execute() ... *)
BackupSends(t) ==
    /\ call[t].at = "lock" /\ call[t].op = "backup"
    /\ HoldsLock(t)
    /\ synced
    /\ Sends(t, "backup", BackupCommands)
    /\ UNCHANGED <<names, store, link, synced, responses, lockQueue, doubt, faults>>

Releases(t) == lockQueue' = IF HoldsLock(t) THEN Tail(lockQueue) ELSE lockQueue

(* ... and raises NotConnected when the service is not synchronized in time. *)
BackupNotConnected(t) ==
    /\ call[t].at = "lock" /\ call[t].op = "backup"
    /\ HoldsLock(t)
    /\ ~synced
    /\ call' = [call EXCEPT ![t] = Idle]
    /\ Releases(t)
    /\ UNCHANGED <<names, store, link, synced, requests, responses, doubt, faults>>

(* After a connect, or after a run of the synchronizer that was overtaken.   *)
SyncBegins ==
    /\ call[Synchronizer].at = "idle"
    /\ link
    /\ ~synced
    /\ Sends(Synchronizer, "sync", SyncCommands)
    /\ UNCHANGED <<names, store, link, synced, responses, lockQueue, doubt, faults>>

-----------------------------------------------------------------------------
(* _sync_block_id(), for every block of the response *)
Notes(t, blocks) ==
    /\ call[t].cmd.kind \in {"read", "readAll", "create", "rename", "discover", "clear", "legacy"}
    /\ store' = Put(store, blocks)
    /\ doubt' = CASE call[t].cmd.kind = "readAll" -> doubt \ {"lacks"}
                  [] call[t].cmd.kind = "clear" -> {"lacks", "exceeds"}
                  [] OTHER -> doubt

(* delete_block(); a name that is not there is a KeyError, after the fact *)
Forgets(t) ==
    /\ call[t].cmd.kind = "delete"
    /\ store' = Without(store, call[t].cmd.nid)
    /\ UNCHANGED doubt

MutantLoadsWithoutClear(t, blocks) ==
    /\ call[t].cmd.kind = "names"
    /\ store' = Put(store, blocks)
    /\ doubt' = {}

(* load_block_names(), _sync_block_store() *)
Loads(t, blocks) ==
    /\ call[t].cmd.kind = "names"
    /\ store' = Put(NoEntries, blocks)
    /\ doubt' = {}

(* The end of clear_blocks(): apply_backup() goes on with the names of the   *)
(* backup, "to avoid unknown links" in its blocks.                           *)
Populates(t) ==
    /\ call[t].cmd.kind = "display"
    /\ \/ /\ call[t].op = "backup"
          /\ store' = Put(Put(store, SystemNames), BackupNames)
          /\ doubt' = {"lacks", "exceeds"}
       \/ call[t].op # "backup" /\ UNCHANGED <<store, doubt>>

(* The blocks that apply_backup() creates and discovers are not noted. *)
Ignores(t) ==
    /\ call[t].cmd.kind \in {"restore", "rescan"}
    /\ UNCHANGED store
    /\ doubt' = doubt \cup {"lacks"}

(* The next command, or the end of the call, and of its hold on the lock.    *)
(* The synchronizer ends with the settings, and declares whatever is         *)
(* connected then to be synchronized (set_synchronized()).                   *)
GoesOn(t) ==
    \/ /\ call[t].todo # <<>>
       /\ Sends(t, call[t].op, call[t].todo)
       /\ UNCHANGED <<synced, lockQueue>>
    \/ /\ call[t].todo = <<>>
       /\ call' = [call EXCEPT ![t] = Idle]
       /\ synced' = (IF t = Synchronizer THEN link ELSE synced)
       /\ Releases(t)
       /\ UNCHANGED requests

Answered(t) ==
    /\ responses # <<>>
    /\ LET r == Head(responses)
       IN  /\ r.by = t /\ r.ok
           /\ \/ Notes(t, r.blocks)
              \/ Forgets(t)
              \/ Loads(t, r.blocks)
              \/ Populates(t)
              \/ Ignores(t)
    /\ responses' = Tail(responses)
    /\ GoesOn(t)
    /\ UNCHANGED <<names, link, faults>>

(* apply_backup() goes on after a block, the synchronizer after a legacy     *)
(* name.  A synchronizer without names resets the connection, other calls    *)
(* raise.                                                                    *)
Survivable == {"restore", "legacy"}

MutantFailureKeepsLock(t) ==
    \/ call[t].cmd.kind \in Survivable /\ GoesOn(t)
    \/ /\ call[t].cmd.kind \notin Survivable
       /\ call' = [call EXCEPT ![t] = IF t = Synchronizer THEN [call[t] EXCEPT !.at = "reset"]
                                                          ELSE Idle]
       /\ UNCHANGED <<requests, synced, lockQueue>>

Fails(t) ==
    \/ call[t].cmd.kind \in Survivable /\ GoesOn(t)
    \/ /\ call[t].cmd.kind \notin Survivable
       /\ call' = [call EXCEPT ![t] = IF t = Synchronizer THEN [call[t] EXCEPT !.at = "reset"]
                                                          ELSE Idle]
       /\ Releases(t)
       /\ UNCHANGED <<requests, synced>>

Refused(t) ==
    /\ responses # <<>>
    /\ Head(responses).by = t /\ ~Head(responses).ok
    /\ responses' = Tail(responses)
    /\ Fails(t)
    /\ UNCHANGED <<names, store, link, doubt, faults>>

(* The timeout of a command whose connection is gone. *)
LostTimesOut(t) ==
    /\ call[t].at = "lost"
    /\ Fails(t)
    /\ UNCHANGED <<names, store, link, responses, doubt, faults>>

(* The timeout of a command that is late: nobody awaits its response now.    *)
Abandoned(t, queue) == [i \in DOMAIN queue |->
                           IF queue[i].by = t THEN [queue[i] EXCEPT !.by = NoOne] ELSE queue[i]]

TimesOut(t) ==
    /\ call[t].at = "sent"
    /\ call' = [call EXCEPT ![t].at = "lost"]
    /\ requests' = Abandoned(t, requests)
    /\ responses' = Abandoned(t, responses)
    /\ Fault
    /\ UNCHANGED <<names, store, link, synced, lockQueue, doubt>>

Missed(r) ==
    CASE ~r.ok \/ r.cmd.kind \in {"read", "readAll", "names", "display"} -> {}
      [] r.cmd.kind = "delete" -> {"exceeds"}
      [] r.cmd.kind = "clear" -> {"lacks", "exceeds"}
      [] OTHER -> {"lacks"}

Unheard ==
    /\ responses # <<>>
    /\ Head(responses).by = NoOne
    /\ responses' = Tail(responses)
    /\ doubt' = doubt \cup Missed(Head(responses))
    /\ UNCHANGED <<names, store, link, synced, requests, call, lockQueue, faults>>

(* A connection that ends takes with it what is on its way. *)
Disconnects ==
    /\ link
    /\ link' = FALSE
    /\ synced' = FALSE
    /\ requests' = <<>>
    /\ responses' = <<>>
    /\ doubt' = {"lacks", "exceeds"}
    /\ call' = [t \in Tasks |->
                  CASE call[t].at = "sent" -> [call[t] EXCEPT !.at = "lost"]
                    [] call[t].at = "reset" -> Idle
                    [] OTHER -> call[t]]
    /\ UNCHANGED <<names, store, lockQueue>>

Dropped == Disconnects /\ Fault

(* reset() of the synchronizer, also on a connection that is gone already *)
SyncResets ==
    /\ call[Synchronizer].at = "reset"
    /\ \/ Disconnects /\ UNCHANGED faults
       \/ /\ ~link
          /\ call' = [call EXCEPT ![Synchronizer] = Idle]
          /\ UNCHANGED <<names, store, link, synced, requests, responses, lockQueue, doubt, faults>>

(* To the same controller, or to one that was reset or replaced.  *)
Connects ==
    /\ ~link
    /\ link' = TRUE
    /\ names' \in {names, SystemNames}
    /\ UNCHANGED <<store, synced, requests, responses, call, lockQueue, doubt, faults>>

-----------------------------------------------------------------------------
OneCommand(op) ==
    {c \in Commands :
        /\ c.kind = op
        /\ op = "readAll" => c.nid = NoNid
        /\ op \in {"read", "delete"} => c.nid # NoNid
        /\ op = "create" => [nid |-> c.nid, sid |-> c.sid] \in Created}

Begins(t) ==
    \/ \E op \in Ops[t] \cap {"read", "readAll", "create", "delete"} :
         \E c \in OneCommand(op) : CallBegins(t, <<c>>)
    \/ "clear" \in Ops[t] /\ CallBegins(t, ClearCommands)
    \/ "rename" \in Ops[t] /\ \E nid \in Nids, sid \in Sids : RenameBegins(t, nid, sid)
    \/ "discover" \in Ops[t] /\ DiscoverBegins(t)
    \/ "backup" \in Ops[t] /\ BackupBegins(t)

TakesLock(t) == DiscoverSends(t) \/ BackupSends(t) \/ BackupNotConnected(t)

Next ==
    \/ \E t \in Callers : Begins(t) \/ TakesLock(t)
    \/ SyncBegins \/ SyncResets
    \/ \E t \in Tasks : Answered(t) \/ Refused(t) \/ LostTimesOut(t) \/ TimesOut(t)
    \/ Handles \/ Refuses \/ Unheard
    \/ Dropped \/ Connects

Spec == Init /\ [][Next]_vars

(* The controller works on, responses are received, timers fire, the lock    *)
(* wakes its next waiter, and connections are made.                          *)
FairSpec ==
    /\ Spec
    /\ WF_vars(Handles \/ Refuses) /\ WF_vars(Unheard)
    /\ WF_vars(SyncBegins) /\ WF_vars(SyncResets) /\ WF_vars(Connects)
    /\ \A t \in Tasks : WF_vars(Answered(t)) /\ WF_vars(Refused(t)) /\ WF_vars(LostTimesOut(t))
    /\ \A t \in Callers : WF_vars(TakesLock(t))

-----------------------------------------------------------------------------
(* Between responses the store is the controller's table of names, but for   *)
(* what calls that failed or were not heard have left behind: after every    *)
(* name was read again it lacks none and gives none another block, and after *)
(* a load it is exact, whatever calls overlapped with the load.              *)
StoreFollowsController ==
    responses = <<>> =>
        /\ "lacks" \notin doubt =>
              \A n \in DOMAIN names : names[n] \in DOMAIN store /\ store[names[n]] = n
        /\ "exceeds" \notin doubt => Range(store) \subseteq DOMAIN names

(* The controller never discovers blocks between the clear and the end of a  *)
(* backup, which would take the nids and names of its blocks: not for a      *)
(* discovery that waited for the lock, nor for one that has timed out.       *)
Restoring(t) ==
    /\ call[t].op = "backup" /\ call[t].at = "sent"
    /\ \/ call[t].cmd.kind \in {"names", "display", "restore", "rescan"}
       \/ \E i \in DOMAIN responses : responses[i].by = t

NoDiscoveryDuringBackup ==
    [][\A t \in Callers :
         Restoring(t) /\ requests # <<>> /\ requests' = Tail(requests)
           => Head(requests).cmd.kind # "discover"]_vars

(* Every call ends, and gives back the lock, also one that fails halfway.    *)
CallsEnd == \A t \in Callers : call[t].at # "idle" ~> call[t].at = "idle"
=============================================================================
