-------------------------- MODULE BlockNamesProofs --------------------------
(***************************************************************************)
(* The block store gives every block one name and every name one block and *)
(* follows the controller, and backups exclude discoveries, for any        *)
(* blocks, names, backup, callers and faults.  The tables come first, then *)
(* types, the lock, and what the store knows of the controller.            *)
(***************************************************************************)
EXTENDS BlockNames, TLAPS

IsStore(st) ==
    /\ DOMAIN st \subseteq Sids
    /\ st \in [DOMAIN st -> Nids]
    /\ Injective(st)

Requests == [by: Tasks \cup {NoOne}, cmd: Commands]
Responses == [by: Tasks \cup {NoOne}, cmd: Commands, ok: BOOLEAN, blocks: NameTables]

(* Facts about sequences that the library does not state for a bare element.  *)
LEMMA Member == ASSUME NEW S, NEW q \in Seq(S), NEW i \in DOMAIN q PROVE q[i] \in S
  OBVIOUS

-----------------------------------------------------------------------------
(* Tables of names, and the store. *)

(* A function from some nids to sids is a table if it is injective. *)
LEMMA IsTable ==
    ASSUME NEW f, DOMAIN f \subseteq Nids, f \in [DOMAIN f -> Sids], Injective(f)
    PROVE  f \in NameTables
  BY DEF NameTables

LEMMA TableIs ==
    ASSUME NEW f \in NameTables
    PROVE  /\ DOMAIN f \subseteq Nids
           /\ f \in [DOMAIN f -> Sids]
           /\ Injective(f)
  BY DEF NameTables

LEMMA OnlyTable ==
    ASSUME NEW table \in NameTables, NEW nids
    PROVE  Only(table, nids) \in NameTables
  <1>1. /\ DOMAIN table \subseteq Nids
        /\ table \in [DOMAIN table -> Sids]
        /\ Injective(table)
    BY TableIs
  <1>2. DOMAIN Only(table, nids) = DOMAIN table \cap nids
    BY DEF Only, Restrict
  <1>3. \A n \in DOMAIN table \cap nids : Only(table, nids)[n] = table[n]
    BY DEF Only, Restrict
  <1>4. Only(table, nids) \in [DOMAIN Only(table, nids) -> Sids]
    BY <1>1, <1>2, <1>3 DEF Only, Restrict
  <1>5. Injective(Only(table, nids))
    BY <1>1, <1>2, <1>3 DEF Injective
  <1> QED
    BY <1>1, <1>2, <1>4, <1>5, IsTable

LEMMA NoNamesTable == NoNames \in NameTables
  <1>1. DOMAIN NoNames = {}
    BY DEF NoNames
  <1>2. NoNames \in [DOMAIN NoNames -> Sids]
    BY DEF NoNames
  <1>3. Injective(NoNames)
    BY <1>1 DEF Injective
  <1> QED
    BY <1>1, <1>2, <1>3, IsTable

LEMMA SystemNamesTable == SystemNames \in NameTables
  <1>1. DOMAIN SystemNames \subseteq Nids
    BY DEF Nids, SystemNids
  <1>2. SystemNames \in [DOMAIN SystemNames -> Sids]
    BY BlockNamesAssumption DEF SystemNids
  <1> QED
    BY BlockNamesAssumption, <1>1, <1>2, IsTable

(* The controller gives a block a name that is free, or its own again. *)
LEMMA NamedAsTable ==
    ASSUME names \in NameTables, NEW nid \in Nids, NEW sid \in Sids,
           FreeSid(sid) \/ (nid \in DOMAIN names /\ names[nid] = sid)
    PROVE  NamedAs(nid, sid) \in NameTables
  <1>1. /\ DOMAIN names \subseteq Nids
        /\ names \in [DOMAIN names -> Sids]
        /\ Injective(names)
    BY TableIs
  <1>2. DOMAIN NamedAs(nid, sid) = DOMAIN names \cup {nid}
    BY DEF NamedAs
  <1>3. \A n \in DOMAIN names \cup {nid} :
          NamedAs(nid, sid)[n] = IF n = nid THEN sid ELSE names[n]
    BY DEF NamedAs
  <1>4. NamedAs(nid, sid) \in [DOMAIN NamedAs(nid, sid) -> Sids]
    BY <1>1 DEF NamedAs
  <1>5. \A n \in DOMAIN names : n # nid => names[n] # sid
    BY <1>1 DEF FreeSid, Range, Injective
  <1>6. Injective(NamedAs(nid, sid))
    BY <1>1, <1>2, <1>3, <1>5 DEF Injective
  <1> QED
    BY <1>1, <1>2, <1>4, <1>6, IsTable

(* Entries that the new blocks contradict are dropped. *)
LEMMA PutStore ==
    ASSUME NEW st, IsStore(st), NEW blocks \in NameTables
    PROVE  IsStore(Put(st, blocks))
  <1> DEFINE kept == {s \in DOMAIN st : s \notin Range(blocks) /\ st[s] \notin DOMAIN blocks}
             nidOf(s) == CHOOSE n \in DOMAIN blocks : blocks[n] = s
             put == Put(st, blocks)
  <1>1. /\ DOMAIN blocks \subseteq Nids
        /\ blocks \in [DOMAIN blocks -> Sids]
        /\ Injective(blocks)
    BY TableIs
  <1>2. \A s \in Range(blocks) : nidOf(s) \in DOMAIN blocks /\ blocks[nidOf(s)] = s
    BY DEF Range
  <1>3. Range(blocks) \subseteq Sids
    BY <1>1 DEF Range
  <1>4. put = [s \in kept \cup Range(blocks) |-> IF s \in kept THEN st[s] ELSE nidOf(s)]
    BY DEF Put
  <1>5. /\ DOMAIN put = kept \cup Range(blocks)
        /\ \A s \in kept : put[s] = st[s] /\ put[s] \notin DOMAIN blocks
        /\ \A s \in Range(blocks) : put[s] = nidOf(s) /\ put[s] \in DOMAIN blocks
    BY <1>2, <1>4
  <1> HIDE DEF put, nidOf, kept
  <1>6. DOMAIN put \subseteq Sids
    BY <1>3, <1>5 DEF IsStore, kept
  <1>7. \A s \in DOMAIN put : put[s] \in Nids
    BY <1>1, <1>5 DEF IsStore, kept
  <1>8. put \in [DOMAIN put -> Nids]
    BY <1>4, <1>5, <1>7
  <1>9. Injective(put)
    <2> SUFFICES ASSUME NEW x \in DOMAIN put, NEW y \in DOMAIN put, put[x] = put[y]
                 PROVE  x = y
      BY DEF Injective
    <2>1. CASE x \in kept /\ y \in kept
      BY <1>5, <2>1 DEF IsStore, Injective, kept
    <2>2. CASE x \in Range(blocks) /\ y \in Range(blocks)
      BY <1>2, <1>5, <2>2
    <2> QED
      BY <1>5, <2>1, <2>2
  <1> QED
    BY <1>6, <1>8, <1>9 DEF IsStore, put

LEMMA NoEntriesStore == IsStore(NoEntries)
  <1>1. DOMAIN NoEntries = {}
    BY DEF NoEntries
  <1>2. NoEntries \in [DOMAIN NoEntries -> Nids]
    BY DEF NoEntries
  <1> QED
    BY <1>1, <1>2 DEF IsStore, Injective

LEMMA WithoutStore ==
    ASSUME NEW st, IsStore(st), NEW nid
    PROVE  IsStore(Without(st, nid))
  <1>1. DOMAIN Without(st, nid) = {s \in DOMAIN st : st[s] # nid}
    BY DEF Without, Restrict
  <1>2. \A s \in DOMAIN Without(st, nid) : Without(st, nid)[s] = st[s]
    BY <1>1 DEF Without, Restrict
  <1>3. Without(st, nid) \in [DOMAIN Without(st, nid) -> Nids]
    BY <1>1 DEF Without, Restrict, IsStore
  <1> QED
    BY <1>1, <1>2, <1>3 DEF IsStore, Injective

(* A backup has no nid and no name twice. *)
LEMMA BackupNamesTable == BackupNames \in NameTables
  <1> DEFINE blockOf(n) == CHOOSE b \in Range(Backup) : b.nid = n
             nids == {Backup[i].nid : i \in DOMAIN Backup}
  <1> HIDE DEF blockOf
  <1>0. Backup \in Seq([nid: Nids, sid: Sids])
    BY BlockNamesAssumption
  <1>1. \A i \in DOMAIN Backup : Backup[i] \in [nid: Nids, sid: Sids]
    BY <1>0, Member
  <1>2. \A n \in nids : \E i \in DOMAIN Backup : blockOf(n) = Backup[i] /\ Backup[i].nid = n
    BY DEF Range, blockOf
  <1>3. /\ BackupNames = [n \in nids |-> blockOf(n).sid]
        /\ DOMAIN BackupNames = nids
    BY DEF BackupNames, blockOf
  <1>4. nids \subseteq Nids
    BY <1>1
  <1>5. \A n \in nids : blockOf(n).sid \in Sids
    BY <1>1, <1>2
  <1>6. BackupNames \in [DOMAIN BackupNames -> Sids]
    BY <1>3, <1>5
  <1>7. \A n \in nids : BackupNames[n] = blockOf(n).sid
    BY <1>3
  <1>8. ASSUME NEW n \in nids, NEW m \in nids, blockOf(n).sid = blockOf(m).sid
        PROVE  n = m
    <2>1. PICK i \in DOMAIN Backup : blockOf(n) = Backup[i] /\ Backup[i].nid = n
      BY <1>2
    <2>2. PICK j \in DOMAIN Backup : blockOf(m) = Backup[j] /\ Backup[j].nid = m
      BY <1>2
    <2> QED
      BY BlockNamesAssumption, <1>8, <2>1, <2>2
  <1>9. Injective(BackupNames)
    BY <1>3, <1>7, <1>8 DEF Injective
  <1> QED
    BY <1>3, <1>4, <1>6, <1>9, IsTable

-----------------------------------------------------------------------------
(* Programs, and the steps that all tasks share. *)

LEMMA Empty == ASSUME NEW S PROVE <<>> \in Seq(S)
  OBVIOUS

LEMMA Single ==
    ASSUME NEW S, NEW x \in S
    PROVE  <<x>> \in Seq(S) /\ <<x>> # <<>>
  OBVIOUS

LEMMA HeadAndTail ==
    ASSUME NEW S, NEW q \in Seq(S), q # <<>>
    PROVE  Head(q) \in S /\ Tail(q) \in Seq(S)
  OBVIOUS

LEMMA AppendTypes ==
    ASSUME NEW S, NEW q \in Seq(S), NEW x \in S
    PROVE  Append(q, x) \in Seq(S)
  OBVIOUS

LEMMA ConcatTypes ==
    ASSUME NEW S, NEW p \in Seq(S), NEW q \in Seq(S)
    PROVE  /\ p \o q \in Seq(S)
           /\ p # <<>> => p \o q # <<>>
  OBVIOUS

LEMMA MapTypes ==
    ASSUME NEW S, NEW T, NEW q \in Seq(S), NEW f,
           DOMAIN f = DOMAIN q, \A i \in DOMAIN q : f[i] \in T,
           f = [i \in DOMAIN q |-> f[i]]
    PROVE  f \in Seq(T)
  OBVIOUS

LEMMA CmdTypes == \A kind \in Kinds \ WithName : Cmd(kind) \in Commands
  BY DEF Cmd, Commands

LEMMA NamedTypes ==
    ASSUME NEW kind \in WithName, NEW block \in [nid: Nids, sid: Sids]
    PROVE  Named(kind, block) \in Commands
  BY BlockNamesAssumption DEF Named, Commands, Kinds, WithName

LEMMA Programs ==
    /\ ClearCommands \in Seq(Commands) /\ ClearCommands # <<>>
    /\ BackupCommands \in Seq(Commands) /\ BackupCommands # <<>>
    /\ SyncCommands \in Seq(Commands) /\ SyncCommands # <<>>
  <1>1. /\ Cmd("clear") \in Commands /\ Cmd("names") \in Commands
        /\ Cmd("display") \in Commands /\ Cmd("rescan") \in Commands
    BY CmdTypes DEF Kinds, WithName
  <1>2. ClearCommands \in Seq(Commands) /\ ClearCommands # <<>>
    BY <1>1 DEF ClearCommands
  <1>3. RestoreCommands \in Seq(Commands)
    <2>1. Backup \in Seq([nid: Nids, sid: Sids])
      BY BlockNamesAssumption
    <2>2. \A i \in DOMAIN Backup : Named("restore", Backup[i]) \in Commands
      BY <2>1, Member, NamedTypes DEF WithName
    <2> QED
      BY <2>1, <2>2, MapTypes DEF RestoreCommands
  <1>4. <<Cmd("rescan"), Cmd("names")>> \in Seq(Commands)
    BY <1>1
  <1>5. ClearCommands \o RestoreCommands \in Seq(Commands) /\ ClearCommands \o RestoreCommands # <<>>
    BY <1>2, <1>3, ConcatTypes
  <1>6. BackupCommands \in Seq(Commands) /\ BackupCommands # <<>>
    BY <1>4, <1>5, ConcatTypes DEF BackupCommands
  <1>7. SyncCommands \in Seq(Commands) /\ SyncCommands # <<>>
    <2>1. Legacy \in Seq([nid: Nids, sid: Sids])
      BY BlockNamesAssumption
    <2>2. \A i \in DOMAIN Legacy : Named("legacy", Legacy[i]) \in Commands
      BY <2>1, Member, NamedTypes DEF WithName
    <2>3. [i \in DOMAIN Legacy |-> Named("legacy", Legacy[i])] \in Seq(Commands)
      BY <2>1, <2>2, MapTypes
    <2>4. <<Cmd("names")>> \in Seq(Commands) /\ <<Cmd("names")>> # <<>>
      BY <1>1, Single
    <2> QED
      BY <2>3, <2>4, ConcatTypes DEF SyncCommands
  <1> QED
    BY <1>2, <1>6, <1>7

LEMMA IdleTypes == Idle \in Calls
  <1>1. Cmd("read") \in Commands
    BY CmdTypes DEF Kinds, WithName
  <1>2. <<>> \in Seq(Commands)
    OBVIOUS
  <1> QED
    BY <1>1, <1>2 DEF Idle, Calls

(* What sending a command, going on, and failing keep. *)
LEMMA SendsTypes ==
    ASSUME TypeOK, NEW t \in Tasks, NEW op \in {"none", "call", "discover", "backup", "sync"},
           NEW commands \in Seq(Commands), commands # <<>>,
           Sends(t, op, commands)
    PROVE  /\ call' \in [Tasks -> Calls]
           /\ requests' \in Seq(Requests)
  <1>1. Head(commands) \in Commands /\ Tail(commands) \in Seq(Commands)
    BY HeadAndTail
  <1>2. [op |-> op, at |-> IF link THEN "sent" ELSE "lost",
         cmd |-> Head(commands), todo |-> Tail(commands)] \in Calls
    BY <1>1 DEF Calls
  <1>3. call' \in [Tasks -> Calls]
    BY <1>2 DEF Sends, TypeOK
  <1>4. [by |-> t, cmd |-> Head(commands)] \in Requests
    BY <1>1 DEF Requests
  <1>5. requests \in Seq(Requests)
    BY DEF TypeOK, Requests
  <1>6. Append(requests, [by |-> t, cmd |-> Head(commands)]) \in Seq(Requests)
    BY <1>4, <1>5, AppendTypes
  <1> QED
    BY <1>3, <1>5, <1>6 DEF Sends

LEMMA ReleasesTypes ==
    ASSUME TypeOK, NEW t, Releases(t)
    PROVE  lockQueue' \in Seq(Callers)
  <1>1. lockQueue \in Seq(Callers)
    BY DEF TypeOK
  <1>2. lockQueue # <<>> => Tail(lockQueue) \in Seq(Callers)
    BY <1>1, HeadAndTail
  <1> QED
    BY <1>1, <1>2 DEF Releases, HoldsLock

LEMMA GoesOnTypes ==
    ASSUME TypeOK, NEW t \in Tasks, GoesOn(t), link' = link
    PROVE  /\ call' \in [Tasks -> Calls]
           /\ requests' \in Seq(Requests)
           /\ synced' \in BOOLEAN /\ (synced' => link')
           /\ lockQueue' \in Seq(Callers)
  <1>1. call[t] \in Calls
    BY DEF TypeOK
  <1>2. call[t].op \in {"none", "call", "discover", "backup", "sync"} /\ call[t].todo \in Seq(Commands)
    BY <1>1 DEF Calls
  <1>3. CASE call[t].todo # <<>> /\ Sends(t, call[t].op, call[t].todo) /\ UNCHANGED <<synced, lockQueue>>
    <2>1. call' \in [Tasks -> Calls] /\ requests' \in Seq(Requests)
      BY <1>2, <1>3, SendsTypes
    <2> QED
      BY <1>3, <2>1 DEF TypeOK
  <1>4. CASE /\ call' = [call EXCEPT ![t] = Idle]
             /\ synced' = (IF t = Synchronizer THEN link ELSE synced)
             /\ Releases(t)
             /\ UNCHANGED requests
    <2>1. call' \in [Tasks -> Calls]
      BY <1>4, IdleTypes DEF TypeOK
    <2>2. lockQueue' \in Seq(Callers)
      BY <1>4, ReleasesTypes
    <2> QED
      BY <1>4, <2>1, <2>2 DEF TypeOK, Requests
  <1> QED
    BY <1>3, <1>4 DEF GoesOn

LEMMA FailsTypes ==
    ASSUME TypeOK, NEW t \in Tasks, Fails(t), link' = link
    PROVE  /\ call' \in [Tasks -> Calls]
           /\ requests' \in Seq(Requests)
           /\ synced' \in BOOLEAN /\ (synced' => link')
           /\ lockQueue' \in Seq(Callers)
  <1>1. CASE GoesOn(t)
    BY <1>1, GoesOnTypes
  <1>2. CASE /\ call' = [call EXCEPT ![t] = IF t = Synchronizer THEN [call[t] EXCEPT !.at = "reset"]
                                                                ELSE Idle]
             /\ Releases(t)
             /\ UNCHANGED <<requests, synced>>
    <2>1. call[t] \in Calls
      BY DEF TypeOK
    <2>2. [call[t] EXCEPT !.at = "reset"] \in Calls
      BY <2>1 DEF Calls
    <2>3. call' \in [Tasks -> Calls]
      BY <1>2, <2>2, IdleTypes DEF TypeOK
    <2>4. lockQueue' \in Seq(Callers)
      BY <1>2, ReleasesTypes
    <2> QED
      BY <1>2, <2>3, <2>4 DEF TypeOK, Requests
  <1> QED
    BY <1>1, <1>2 DEF Fails

-----------------------------------------------------------------------------
(* The controller.  A response has the command of its request. *)

LEMMA RespondsTypes ==
    ASSUME TypeOK, NEW r \in Requests, NEW ok \in BOOLEAN, NEW blocks \in NameTables,
           Responds(r, ok, blocks)
    PROVE  responses' \in Seq(Responses)
  <1>1. [by |-> r.by, cmd |-> r.cmd, ok |-> ok, blocks |-> blocks] \in Responses
    BY DEF Requests, Responses
  <1>2. responses \in Seq(Responses)
    BY DEF TypeOK, Responses
  <1> QED
    BY <1>1, <1>2, AppendTypes DEF Responds

LEMMA ControllerTypes ==
    ASSUME TypeOK, NEW r \in Requests,
           Reads(r) \/ Creates(r) \/ Deletes(r) \/ Renames(r) \/ Clears(r) \/ Discovers(r)
    PROVE  /\ names' \in NameTables
           /\ responses' \in Seq(Responses)
  <1>0. names \in NameTables
    BY DEF TypeOK
  <1> USE <1>0
  <1>2. CASE Reads(r)
    <2>1. Only(names, {r.cmd.nid}) \in NameTables
      BY OnlyTable
    <2> QED
      BY <1>2, <2>1, NoNamesTable, RespondsTypes DEF Reads
  <1>3. ASSUME NEW nid \in Nids, NEW sid \in Sids,
               FreeSid(sid) \/ (nid \in DOMAIN names /\ names[nid] = sid),
               names' = NamedAs(nid, sid), Responds(r, TRUE, Only(names', {nid}))
        PROVE  /\ names' \in NameTables
               /\ responses' \in Seq(Responses)
    <2>1. names' \in NameTables
      BY <1>3, NamedAsTable
    <2>2. Only(names', {nid}) \in NameTables
      BY <2>1, OnlyTable
    <2> QED
      BY <1>3, <2>1, <2>2, RespondsTypes
  <1>4. CASE Creates(r)
    <2>1. r.cmd.sid \in Sids
      BY <1>4 DEF Creates, Requests, Commands, WithName
    <2>2. PICK nid \in UserNids \ DOMAIN names :
            /\ names' = NamedAs(nid, r.cmd.sid)
            /\ Responds(r, TRUE, Only(names', {nid}))
      BY <1>4 DEF Creates
    <2>3. nid \in Nids /\ FreeSid(r.cmd.sid)
      BY <1>4 DEF Creates, Nids
    <2> QED
      BY <1>3, <2>1, <2>2, <2>3
  <1>5. CASE Deletes(r)
    <2>1. Only(names, Nids \ {r.cmd.nid}) \in NameTables
      BY OnlyTable
    <2> QED
      BY <1>5, <2>1, NoNamesTable, RespondsTypes DEF Deletes
  <1>6. CASE Renames(r)
    <2>1. r.cmd.sid \in Sids
      BY <1>6 DEF Renames, Requests, Commands, WithName
    <2>2. r.cmd.nid \in Nids
      BY <1>6, TableIs DEF Renames
    <2>3. /\ FreeSid(r.cmd.sid) \/ (r.cmd.nid \in DOMAIN names /\ names[r.cmd.nid] = r.cmd.sid)
          /\ names' = NamedAs(r.cmd.nid, r.cmd.sid)
          /\ Responds(r, TRUE, Only(names', {r.cmd.nid}))
      BY <1>6 DEF Renames
    <2> QED
      BY <1>3, <2>1, <2>2, <2>3
  <1>7. CASE Clears(r)
    <2>1. Only(names, UserNids) \in NameTables
      BY OnlyTable
    <2> QED
      BY <1>7, <2>1, SystemNamesTable, RespondsTypes DEF Clears
  <1>8. CASE Discovers(r)
    <2>1. CASE names' = names /\ Responds(r, TRUE, NoNames)
      BY <2>1, NoNamesTable, RespondsTypes
    <2>2. ASSUME NEW nid \in UserNids \ DOMAIN names, NEW sid \in {s \in Sids : FreeSid(s)},
                 names' = NamedAs(nid, sid), Responds(r, TRUE, Only(names', {nid}))
          PROVE  names' \in NameTables /\ responses' \in Seq(Responses)
      <3>1. nid \in Nids /\ sid \in Sids /\ FreeSid(sid)
        BY DEF Nids
      <3> QED
        BY <1>3, <2>2, <3>1
    <2> QED
      BY <1>8, <2>1, <2>2 DEF Discovers
  <1> QED
    BY <1>2, <1>4, <1>5, <1>6, <1>7, <1>8

-----------------------------------------------------------------------------
(* Every action keeps the types. *)

LEMMA AnsweredStore ==
    ASSUME TypeOK, NEW t \in Tasks, NEW blocks \in NameTables,
           Notes(t, blocks) \/ Forgets(t) \/ Loads(t, blocks) \/ Populates(t) \/ Ignores(t)
    PROVE  IsStore(store') /\ doubt' \subseteq {"lacks", "exceeds"}
  <1>1. IsStore(store) /\ doubt \subseteq {"lacks", "exceeds"}
    BY DEF TypeOK, IsStore
  <1>2. CASE Notes(t, blocks)
    BY <1>1, <1>2, PutStore DEF Notes
  <1>3. CASE Forgets(t)
    BY <1>1, <1>3, WithoutStore DEF Forgets
  <1>4. CASE Loads(t, blocks)
    BY <1>4, NoEntriesStore, PutStore DEF Loads
  <1>5. CASE Populates(t)
    <2>1. IsStore(Put(store, SystemNames))
      BY <1>1, SystemNamesTable, PutStore
    <2>2. IsStore(Put(Put(store, SystemNames), BackupNames))
      BY <2>1, BackupNamesTable, PutStore
    <2> QED
      BY <1>1, <1>5, <2>2 DEF Populates
  <1>6. CASE Ignores(t)
    BY <1>1, <1>6 DEF Ignores
  <1> QED
    BY <1>2, <1>3, <1>4, <1>5, <1>6

LEMMA AbandonedTypes ==
    ASSUME NEW t,
           NEW q \in Seq(Requests),
           NEW p \in Seq(Responses)
    PROVE  Abandoned(t, q) \in Seq(Requests) /\ Abandoned(t, p) \in Seq(Responses)
  <1>1. \A x \in Requests : [x EXCEPT !.by = NoOne] \in Requests
    BY DEF Requests
  <1>2. \A x \in Responses : [x EXCEPT !.by = NoOne] \in Responses
    BY DEF Responses
  <1>3. \A i \in DOMAIN q : (IF q[i].by = t THEN [q[i] EXCEPT !.by = NoOne] ELSE q[i]) \in Requests
    BY <1>1, Member
  <1>4. \A i \in DOMAIN p : (IF p[i].by = t THEN [p[i] EXCEPT !.by = NoOne] ELSE p[i]) \in Responses
    BY <1>2, Member
  <1> QED
    BY <1>3, <1>4, MapTypes DEF Abandoned

LEMMA BeginsTypes ==
    ASSUME TypeOK, NEW t \in Callers, Begins(t) \/ TakesLock(t)
    PROVE  TypeOK'
  <1>1. t \in Tasks
    BY DEF Tasks
  <1>2. /\ lockQueue \in Seq(Callers)
        /\ Append(lockQueue, t) \in Seq(Callers)
    BY AppendTypes DEF TypeOK
  <1>3. ASSUME NEW op \in {"call", "discover", "backup"},
               NEW commands \in Seq(Commands), commands # <<>>,
               Sends(t, op, commands),
               UNCHANGED <<names, store, link, synced, responses, lockQueue, doubt, faults>>
        PROVE  TypeOK'
    <2>1. call' \in [Tasks -> Calls] /\ requests' \in Seq(Requests)
      BY <1>1, <1>3, SendsTypes
    <2> QED
      BY <1>3, <2>1 DEF TypeOK, Requests
  <1>4. ASSUME NEW op \in {"discover", "backup"},
               lockQueue' = Append(lockQueue, t),
               call' = [call EXCEPT ![t] = [Idle EXCEPT !.op = op, !.at = "lock"]],
               UNCHANGED <<names, store, link, synced, requests, responses, doubt, faults>>
        PROVE  TypeOK'
    <2>1. [Idle EXCEPT !.op = op, !.at = "lock"] \in Calls
      BY IdleTypes DEF Calls
    <2>2. call' \in [Tasks -> Calls]
      BY <1>4, <2>1 DEF TypeOK
    <2> QED
      BY <1>2, <1>4, <2>2 DEF TypeOK
  <1>5. ASSUME NEW op, NEW c \in OneCommand(op), CallBegins(t, <<c>>)
        PROVE  TypeOK'
    <2>1. <<c>> \in Seq(Commands) /\ <<c>> # <<>>
      BY Single DEF OneCommand
    <2> QED
      BY <1>3, <1>5, <2>1 DEF CallBegins
  <1>6. CASE CallBegins(t, ClearCommands)
    BY <1>3, <1>6, Programs DEF CallBegins
  <1>7. ASSUME NEW nid \in Nids, NEW sid \in Sids, RenameBegins(t, nid, sid)
        PROVE  TypeOK'
    <2>1. Named("rename", [nid |-> nid, sid |-> sid]) \in Commands
      BY NamedTypes DEF WithName
    <2>2. /\ <<Named("rename", [nid |-> nid, sid |-> sid])>> \in Seq(Commands)
          /\ <<Named("rename", [nid |-> nid, sid |-> sid])>> # <<>>
      BY <2>1, Single
    <2> QED
      BY <1>3, <1>7, <2>2 DEF RenameBegins
  <1>8. CASE DiscoverBegins(t)
    BY <1>4, <1>8 DEF DiscoverBegins
  <1>9. CASE BackupBegins(t)
    BY <1>4, <1>9 DEF BackupBegins
  <1>10. CASE DiscoverSends(t)
    <2>1. Cmd("discover") \in Commands
      BY CmdTypes DEF Kinds, WithName
    <2>2. <<Cmd("discover")>> \in Seq(Commands) /\ <<Cmd("discover")>> # <<>>
      BY <2>1, Single
    <2> QED
      BY <1>3, <1>10, <2>2 DEF DiscoverSends
  <1>11. CASE BackupSends(t)
    BY <1>3, <1>11, Programs DEF BackupSends
  <1>12. CASE BackupNotConnected(t)
    <2>1. lockQueue' \in Seq(Callers)
      BY <1>12, ReleasesTypes DEF BackupNotConnected
    <2>2. call' \in [Tasks -> Calls]
      BY <1>12, IdleTypes DEF BackupNotConnected, TypeOK
    <2> QED
      BY <1>12, <2>1, <2>2 DEF BackupNotConnected, TypeOK
  <1> QED
    BY <1>5, <1>6, <1>7, <1>8, <1>9, <1>10, <1>11, <1>12 DEF Begins, TakesLock

LEMMA TaskTypes ==
    ASSUME TypeOK, NEW t \in Tasks,
           Answered(t) \/ Refused(t) \/ LostTimesOut(t) \/ TimesOut(t)
    PROVE  TypeOK'
  <1>1. responses \in Seq(Responses) /\ requests \in Seq(Requests)
    BY DEF TypeOK, Responses, Requests
  <1>2. responses # <<>> => Head(responses) \in Responses /\ Tail(responses) \in Seq(Responses)
    BY <1>1, HeadAndTail
  <1>3. CASE Answered(t)
    <2>1. responses # <<>> /\ responses' = Tail(responses)
      BY <1>3 DEF Answered
    <2>2. Head(responses).blocks \in NameTables
      BY <1>2, <2>1 DEF Responses
    <2>3. IsStore(store') /\ doubt' \subseteq {"lacks", "exceeds"}
      BY <1>3, <2>2, AnsweredStore DEF Answered
    <2>4. /\ call' \in [Tasks -> Calls]
          /\ requests' \in Seq(Requests)
          /\ synced' \in BOOLEAN /\ (synced' => link')
          /\ lockQueue' \in Seq(Callers)
      BY <1>3, GoesOnTypes DEF Answered
    <2> QED
      BY <1>2, <1>3, <2>1, <2>3, <2>4 DEF Answered, TypeOK, IsStore, Requests, Responses
  <1>4. CASE Refused(t)
    <2>1. /\ call' \in [Tasks -> Calls]
          /\ requests' \in Seq(Requests)
          /\ synced' \in BOOLEAN /\ (synced' => link')
          /\ lockQueue' \in Seq(Callers)
      BY <1>4, FailsTypes DEF Refused
    <2> QED
      BY <1>2, <1>4, <2>1 DEF Refused, TypeOK, Requests, Responses
  <1>5. CASE LostTimesOut(t)
    <2>1. /\ call' \in [Tasks -> Calls]
          /\ requests' \in Seq(Requests)
          /\ synced' \in BOOLEAN /\ (synced' => link')
          /\ lockQueue' \in Seq(Callers)
      BY <1>5, FailsTypes DEF LostTimesOut
    <2> QED
      BY <1>5, <2>1 DEF LostTimesOut, TypeOK, Requests
  <1>6. CASE TimesOut(t)
    <2>1. requests' \in Seq(Requests) /\ responses' \in Seq(Responses)
      BY <1>1, <1>6, AbandonedTypes DEF TimesOut
    <2>2. call' \in [Tasks -> Calls]
      BY <1>6 DEF TimesOut, TypeOK, Calls
    <2>3. faults' \in 0..MaxFaults
      BY <1>6, BlockNamesAssumption DEF TimesOut, Fault, TypeOK
    <2> QED
      BY <1>6, <2>1, <2>2, <2>3 DEF TimesOut, TypeOK, Requests, Responses
  <1> QED
    BY <1>3, <1>4, <1>5, <1>6

LEMMA ControllerStepTypes ==
    ASSUME TypeOK, Handles \/ Refuses \/ Unheard
    PROVE  TypeOK'
  <1>1. responses \in Seq(Responses) /\ requests \in Seq(Requests)
    BY DEF TypeOK, Responses, Requests
  <1>2. /\ requests # <<>> => Head(requests) \in Requests /\ Tail(requests) \in Seq(Requests)
        /\ responses # <<>> => Head(responses) \in Responses /\ Tail(responses) \in Seq(Responses)
    BY <1>1, HeadAndTail
  <1>3. CASE Handles
    <2>1. requests' \in Seq(Requests) /\ Head(requests) \in Requests
      BY <1>2, <1>3 DEF Handles
    <2>2. names' \in NameTables /\ responses' \in Seq(Responses)
      BY <1>3, <2>1, ControllerTypes DEF Handles
    <2> QED
      BY <1>3, <2>1, <2>2 DEF Handles, TypeOK, Requests, Responses
  <1>4. CASE Refuses
    <2>1. requests' \in Seq(Requests) /\ Head(requests) \in Requests
      BY <1>2, <1>4 DEF Refuses
    <2>2. responses' \in Seq(Responses)
      BY <1>4, <2>1, NoNamesTable, RespondsTypes DEF Refuses
    <2>3. faults' \in 0..MaxFaults
      BY <1>4, BlockNamesAssumption DEF Refuses, Fault, TypeOK
    <2> QED
      BY <1>4, <2>1, <2>2, <2>3 DEF Refuses, TypeOK, Requests, Responses
  <1>5. CASE Unheard
    <2>1. responses' \in Seq(Responses)
      BY <1>2, <1>5 DEF Unheard
    <2>2. doubt' \subseteq {"lacks", "exceeds"}
      BY <1>5 DEF Unheard, Missed, TypeOK
    <2> QED
      BY <1>5, <2>1, <2>2 DEF Unheard, TypeOK, Responses
  <1> QED
    BY <1>3, <1>4, <1>5

LEMMA DisconnectsTypes ==
    ASSUME TypeOK, Disconnects, faults' \in 0..MaxFaults
    PROVE  TypeOK'
  <1>1. \A t \in Tasks : [call[t] EXCEPT !.at = "lost"] \in Calls
    BY DEF TypeOK, Calls
  <1>2. call' \in [Tasks -> Calls]
    BY <1>1, IdleTypes DEF Disconnects, TypeOK
  <1>3. requests' \in Seq(Requests) /\ responses' \in Seq(Responses)
    BY Empty DEF Disconnects
  <1> QED
    BY <1>2, <1>3 DEF Disconnects, TypeOK, Requests, Responses

LEMMA LinkTypes ==
    ASSUME TypeOK, SyncBegins \/ SyncResets \/ Dropped \/ Connects
    PROVE  TypeOK'
  <1>1. Synchronizer \in Tasks
    BY DEF Tasks
  <1>2. CASE SyncBegins
    <2>1. call' \in [Tasks -> Calls] /\ requests' \in Seq(Requests)
      BY <1>1, <1>2, Programs, SendsTypes DEF SyncBegins
    <2> QED
      BY <1>2, <2>1 DEF SyncBegins, TypeOK, Requests
  <1>3. CASE SyncResets
    <2>1. CASE Disconnects /\ UNCHANGED faults
      BY <2>1, DisconnectsTypes DEF TypeOK
    <2>2. CASE /\ call' = [call EXCEPT ![Synchronizer] = Idle]
               /\ UNCHANGED <<names, store, link, synced, requests, responses, lockQueue, doubt, faults>>
      <3>1. call' \in [Tasks -> Calls]
        BY <2>2, IdleTypes DEF TypeOK
      <3> QED
        BY <2>2, <3>1 DEF TypeOK
    <2> QED
      BY <1>3, <2>1, <2>2 DEF SyncResets
  <1>4. CASE Dropped
    <2>1. faults' \in 0..MaxFaults
      BY <1>4, BlockNamesAssumption DEF Dropped, Fault, TypeOK
    <2> QED
      BY <1>4, <2>1, DisconnectsTypes DEF Dropped
  <1>5. CASE Connects
    BY <1>5, SystemNamesTable DEF Connects, TypeOK
  <1> QED
    BY <1>2, <1>3, <1>4, <1>5

LEMMA InitTypes == Init => TypeOK
  <1> SUFFICES ASSUME Init PROVE TypeOK
    OBVIOUS
  <1>1. IsStore(store) /\ names \in NameTables
    BY NoEntriesStore, SystemNamesTable DEF Init
  <1>2. call \in [Tasks -> Calls]
    BY IdleTypes DEF Init
  <1>3. /\ requests \in Seq(Requests) /\ responses \in Seq(Responses)
        /\ lockQueue \in Seq(Callers)
    BY Empty DEF Init
  <1>4. faults \in 0..MaxFaults
    BY BlockNamesAssumption DEF Init
  <1> QED
    BY <1>1, <1>2, <1>3, <1>4 DEF Init, TypeOK, IsStore, Requests, Responses

LEMMA TypesStep == TypeOK /\ [Next]_vars => TypeOK'
  <1> SUFFICES ASSUME TypeOK, [Next]_vars PROVE TypeOK'
    OBVIOUS
  <1>1. CASE UNCHANGED vars
    BY <1>1 DEF vars, TypeOK
  <1> QED
    BY <1>1, BeginsTypes, TaskTypes, ControllerStepTypes, LinkTypes DEF Next

(* The block store (a bidict that drops the entries a new one contradicts,   *)
(* datastore_blocks.py) gives each name one block and each block one name,   *)
(* through every call, load and backup; the controller's names likewise,     *)
(* and the service is only synchronized while there is a connection.         *)
THEOREM BlockNamesTypes == Spec => []TypeOK
  BY InitTypes, TypesStep, PTL DEF Spec

-----------------------------------------------------------------------------
(* No discovery within the restore of a backup. *)

(* A task that awaits a command has one message under way, with its command. *)
Owned(queue) ==
    \A i \in DOMAIN queue :
        queue[i].by \in Tasks =>
            /\ call[queue[i].by].at = "sent"
            /\ call[queue[i].by].cmd = queue[i].cmd
            /\ \A j \in DOMAIN queue : queue[j].by = queue[i].by => j = i

OneEach ==
    \A i \in DOMAIN requests, j \in DOMAIN responses :
        requests[i].by = responses[j].by => requests[i].by \notin Tasks

Matched == Owned(requests) /\ Owned(responses) /\ OneEach

(* The lock has one entry for each task that wants or holds it, and a task   *)
(* that goes on behind it is at its head.                                    *)
Locking(c) == c.op \in {"discover", "backup"}

LockQueued ==
    /\ \A i, j \in DOMAIN lockQueue : lockQueue[i] = lockQueue[j] => i = j
    /\ \A i \in DOMAIN lockQueue :
         Locking(call[lockQueue[i]]) /\ call[lockQueue[i]].at \in {"lock", "sent", "lost"}
    /\ \A t \in Tasks : Locking(call[t]) /\ call[t].at \in {"sent", "lost"} => HoldsLock(t)

(* Only discover_blocks() discovers, and a clear comes first. *)
Follows(commands) ==
    \A i \in DOMAIN commands : commands[i].kind \notin {"discover", "clear"}

InProgram ==
    \A t \in Tasks :
        /\ call[t].cmd.kind = "discover" => call[t].op = "discover"
        /\ Follows(call[t].todo)

(* Discoveries that are still under way when a backup holds the lock have    *)
(* timed out, and are ahead of its clear.                                    *)
DiscoveriesFirst ==
    \A t \in Tasks :
        call[t].op = "backup" /\ call[t].at \in {"sent", "lost"} =>
            \A j \in DOMAIN requests :
                requests[j].cmd.kind = "discover" =>
                    /\ call[t].cmd.kind = "clear"
                    /\ call[t].at = "sent" =>
                         \E i \in DOMAIN requests : i > j /\ requests[i].by = t

BackupInv == TypeOK /\ Matched /\ LockQueued /\ InProgram /\ DiscoveriesFirst

LEMMA AppendIndex ==
    ASSUME NEW S, NEW q \in Seq(S), NEW x
    PROVE  /\ Len(q) + 1 \notin DOMAIN q
           /\ DOMAIN Append(q, x) = DOMAIN q \cup {Len(q) + 1}
           /\ \A i \in DOMAIN q : i < Len(q) + 1 /\ Append(q, x)[i] = q[i]
           /\ Append(q, x)[Len(q) + 1] = x
  OBVIOUS

LEMMA TailIndex ==
    ASSUME NEW S, NEW q \in Seq(S), q # <<>>
    PROVE  /\ 1 \in DOMAIN q /\ Head(q) = q[1]
           /\ \A i \in DOMAIN Tail(q) :
                i \in Nat /\ i # 0 /\ i + 1 \in DOMAIN q /\ Tail(q)[i] = q[i + 1]
           /\ \A i \in DOMAIN q : i # 1 => i - 1 \in DOMAIN Tail(q) /\ i - 1 \in Nat
  OBVIOUS

(* A queue, or the rest of it, seen by position. *)
Rest(queue, rest) == rest = queue \/ (queue # <<>> /\ rest = Tail(queue))

LEMMA RestIndex ==
    ASSUME NEW S, NEW q \in Seq(S), NEW rest, Rest(q, rest)
    PROVE  \E d \in {0, 1} : \A i \in DOMAIN rest : i \in Nat /\ i + d \in DOMAIN q /\ rest[i] = q[i + d]
  <1>1. CASE rest = q
    <2>1. \A i \in DOMAIN rest : i \in Nat /\ i + 0 \in DOMAIN q /\ rest[i] = q[i + 0]
      BY <1>1
    <2> QED
      BY <2>1
  <1>2. CASE q # <<>> /\ rest = Tail(q)
    <2>1. \A i \in DOMAIN rest : i \in Nat /\ i + 1 \in DOMAIN q /\ rest[i] = q[i + 1]
      BY <1>2, TailIndex
    <2> QED
      BY <2>1
  <1> QED
    BY <1>1, <1>2 DEF Rest

SilentIn(queue, t) == \A i \in DOMAIN queue : queue[i].by # t

LEMMA QueueTypes ==
    ASSUME TypeOK
    PROVE  requests \in Seq(Requests) /\ responses \in Seq(Responses)
  BY DEF TypeOK, Requests, Responses

(* Nothing of a task is under way but what it awaits. *)
LEMMA NotAwaiting ==
    ASSUME Matched, NEW t \in Tasks, call[t].at # "sent"
    PROVE  SilentIn(requests, t) /\ SilentIn(responses, t)
  BY DEF Matched, Owned, SilentIn

LEMMA LastResponse ==
    ASSUME TypeOK, Matched, NEW t \in Tasks,
           responses # <<>>, Head(responses).by = t
    PROVE  /\ SilentIn(requests, t)
           /\ SilentIn(Tail(responses), t)
           /\ call[t].at = "sent"
  <1>1. /\ 1 \in DOMAIN responses /\ responses[1].by = t
        /\ \A i \in DOMAIN Tail(responses) :
             i \in Nat /\ i # 0 /\ i + 1 \in DOMAIN responses /\ Tail(responses)[i] = responses[i + 1]
    BY QueueTypes, TailIndex
  <1>2. SilentIn(requests, t)
    BY <1>1 DEF Matched, OneEach, SilentIn
  <1>3. \A i \in DOMAIN responses : responses[i].by = t => i = 1
    BY <1>1 DEF Matched, Owned
  <1>4. SilentIn(Tail(responses), t)
    BY <1>1, <1>3 DEF SilentIn
  <1> QED
    BY <1>1, <1>2, <1>4 DEF Matched, Owned

(* A step of one task that had nothing under way, and may send a command. *)
Takes(t, x) ==
    /\ call' = [call EXCEPT ![t] = x]
    /\ \/ requests' = requests
       \/ x.at = "sent" /\ requests' = Append(requests, [by |-> t, cmd |-> x.cmd])

LEMMA TakesMatched ==
    ASSUME TypeOK, Matched, NEW t \in Tasks, NEW x \in Calls, Takes(t, x),
           SilentIn(requests, t), SilentIn(responses', t), Rest(responses, responses')
    PROVE  Matched'
  <1>1. call'[t] = x /\ \A s \in Tasks : s # t => call'[s] = call[s]
    BY DEF Takes, TypeOK
  <1>2. PICK d \in {0, 1} : \A i \in DOMAIN responses' :
            i \in Nat /\ i + d \in DOMAIN responses /\ responses'[i] = responses[i + d]
    BY QueueTypes, RestIndex
  <1>3. Owned(responses)'
    <2> SUFFICES ASSUME NEW i \in DOMAIN responses', responses'[i].by \in Tasks
                 PROVE  /\ call'[responses'[i].by].at = "sent"
                        /\ call'[responses'[i].by].cmd = responses'[i].cmd
                        /\ \A j \in DOMAIN responses' : responses'[j].by = responses'[i].by => j = i
      BY DEF Owned
    <2>1. responses'[i].by # t
      BY DEF SilentIn
    <2>2. /\ call[responses'[i].by].at = "sent"
          /\ call[responses'[i].by].cmd = responses'[i].cmd
      BY <1>2 DEF Matched, Owned
    <2>3. ASSUME NEW j \in DOMAIN responses', responses'[j].by = responses'[i].by
          PROVE  j = i
      <3>1. i + d = j + d
        BY <1>2, <2>3 DEF Matched, Owned
      <3> QED
        BY <1>2, <3>1
    <2> QED
      BY <1>1, <2>1, <2>2, <2>3
  <1>4. /\ DOMAIN requests \subseteq DOMAIN requests'
        /\ \A i \in DOMAIN requests : requests'[i] = requests[i]
        /\ \A i \in DOMAIN requests' :
             i \notin DOMAIN requests => /\ requests'[i] = [by |-> t, cmd |-> x.cmd]
                                         /\ x.at = "sent"
        /\ \A i, j \in DOMAIN requests' :
             i \notin DOMAIN requests /\ j \notin DOMAIN requests => i = j
    <2>1. CASE requests' = requests
      BY <2>1
    <2>2. CASE x.at = "sent" /\ requests' = Append(requests, [by |-> t, cmd |-> x.cmd])
      <3>1. [by |-> t, cmd |-> x.cmd] \in Requests
        BY DEF Calls, Requests
      <3> QED
        BY <2>2, <3>1, QueueTypes, AppendIndex
    <2> QED
      BY <2>1, <2>2 DEF Takes
  <1>5. Owned(requests)'
    <2> SUFFICES ASSUME NEW i \in DOMAIN requests', requests'[i].by \in Tasks
                 PROVE  /\ call'[requests'[i].by].at = "sent"
                        /\ call'[requests'[i].by].cmd = requests'[i].cmd
                        /\ \A j \in DOMAIN requests' : requests'[j].by = requests'[i].by => j = i
      BY DEF Owned
    <2>1. CASE i \in DOMAIN requests
      BY <1>1, <1>4, <2>1 DEF SilentIn, Matched, Owned
    <2>2. CASE i \notin DOMAIN requests
      BY <1>1, <1>4, <2>2 DEF SilentIn
    <2> QED
      BY <2>1, <2>2
  <1>6. OneEach'
    BY <1>2, <1>4 DEF SilentIn, Matched, OneEach
  <1> QED
    BY <1>3, <1>5, <1>6 DEF Matched

(* A command may not be a discovery, unless its task holds the lock; nor may  *)
(* a backup go on before it has seen the last of them.                       *)
NoDiscovery(queue) == \A j \in DOMAIN queue : queue[j].cmd.kind # "discover"

LEMMA TakesDiscoveriesFirst ==
    ASSUME TypeOK, LockQueued, DiscoveriesFirst,
           NEW t \in Tasks, NEW x \in Calls, Takes(t, x),
           x.cmd.kind = "discover" => x.op = "discover" /\ HoldsLock(t),
           x.op = "backup" /\ x.at \in {"sent", "lost"} =>
               \/ NoDiscovery(requests)
               \/ x.cmd.kind = "clear" /\ (x.at = "sent" => requests' # requests)
    PROVE  DiscoveriesFirst'
  <1>1. call'[t] = x /\ \A s \in Tasks : s # t => call'[s] = call[s]
    BY DEF Takes, TypeOK
  <1>2. /\ DOMAIN requests \subseteq DOMAIN requests'
        /\ \A i \in DOMAIN requests : requests'[i] = requests[i]
        /\ \A i \in DOMAIN requests' :
             i \notin DOMAIN requests =>
                 requests'[i] = [by |-> t, cmd |-> x.cmd] /\ \A j \in DOMAIN requests : i > j
        /\ requests' # requests => \E i \in DOMAIN requests' : i \notin DOMAIN requests
    <2>1. CASE requests' = requests
      BY <2>1
    <2>2. CASE requests' = Append(requests, [by |-> t, cmd |-> x.cmd])
      <3>1. [by |-> t, cmd |-> x.cmd] \in Requests
        BY DEF Calls, Requests
      <3> QED
        BY <2>2, <3>1, QueueTypes, AppendIndex
    <2> QED
      BY <2>1, <2>2 DEF Takes
  <1> SUFFICES ASSUME NEW s \in Tasks, call'[s].op = "backup", call'[s].at \in {"sent", "lost"},
                      NEW j \in DOMAIN requests', requests'[j].cmd.kind = "discover"
               PROVE  /\ call'[s].cmd.kind = "clear"
                      /\ call'[s].at = "sent" =>
                           \E i \in DOMAIN requests' : i > j /\ requests'[i].by = s
    BY DEF DiscoveriesFirst
  <1>3. CASE s # t
    <2>1. Locking(call[s]) /\ HoldsLock(s)
      BY <1>1, <1>3 DEF LockQueued, Locking
    <2>2. j \in DOMAIN requests
      BY <1>2, <1>3, <2>1 DEF HoldsLock
    <2> QED
      BY <1>1, <1>2, <1>3, <2>2 DEF DiscoveriesFirst
  <1>4. CASE s = t
    <2>1. j \in DOMAIN requests
      BY <1>1, <1>2, <1>4
    <2>2. ~NoDiscovery(requests)
      BY <1>2, <2>1 DEF NoDiscovery
    <2> QED
      BY <1>1, <1>2, <1>4, <2>1, <2>2
  <1> QED
    BY <1>3, <1>4

(* The lock. *)
LEMMA QueuedHolds ==
    ASSUME LockQueued, NEW t \in Tasks, call[t].at \in {"sent", "lost"},
           NEW i \in DOMAIN lockQueue, lockQueue[i] = t
    PROVE  HoldsLock(t)
  BY DEF LockQueued

LEMMA ReleasesLock ==
    ASSUME TypeOK, LockQueued, NEW t \in Tasks, NEW y \in Calls,
           y.at \in {"idle", "reset"},
           call' = [call EXCEPT ![t] = y], Releases(t),
           \A i \in DOMAIN lockQueue : lockQueue[i] = t => HoldsLock(t)
    PROVE  LockQueued'
  <1>1. call'[t] = y /\ \A s \in Tasks : s # t => call'[s] = call[s]
    BY DEF TypeOK
  <1>2. lockQueue \in Seq(Callers) /\ \A i \in DOMAIN lockQueue : lockQueue[i] \in Tasks
    BY Member DEF TypeOK, Tasks
  <1>3. CASE HoldsLock(t)
    <2>1. lockQueue # <<>> /\ Head(lockQueue) = t /\ lockQueue' = Tail(lockQueue)
      BY <1>3 DEF HoldsLock, Releases
    <2>2. /\ 1 \in DOMAIN lockQueue /\ lockQueue[1] = t
          /\ \A i \in DOMAIN lockQueue' :
               i \in Nat /\ i # 0 /\ i + 1 \in DOMAIN lockQueue /\ lockQueue'[i] = lockQueue[i + 1]
      BY <1>2, <2>1, TailIndex
    <2>3. \A i \in DOMAIN lockQueue' : lockQueue'[i] # t
      BY <2>2 DEF LockQueued
    <2>4. \A i, j \in DOMAIN lockQueue' : lockQueue'[i] = lockQueue'[j] => i = j
      <3> SUFFICES ASSUME NEW i \in DOMAIN lockQueue', NEW j \in DOMAIN lockQueue',
                          lockQueue'[i] = lockQueue'[j]
                   PROVE  i = j
        OBVIOUS
      <3>1. i + 1 = j + 1
        BY <2>2 DEF LockQueued
      <3> QED
        BY <2>2, <3>1
    <2>5. \A i \in DOMAIN lockQueue' :
            Locking(call'[lockQueue'[i]]) /\ call'[lockQueue'[i]].at \in {"lock", "sent", "lost"}
      BY <1>1, <1>2, <2>2, <2>3 DEF LockQueued, Locking
    <2>6. \A s \in Tasks : s # t => ~(Locking(call[s]) /\ call[s].at \in {"sent", "lost"})
      BY <2>1 DEF LockQueued, HoldsLock
    <2>7. \A s \in Tasks : ~(Locking(call'[s]) /\ call'[s].at \in {"sent", "lost"})
      BY <1>1, <2>6 DEF Locking
    <2> QED
      BY <2>4, <2>5, <2>7 DEF LockQueued
  <1>4. CASE ~HoldsLock(t)
    <2>1. lockQueue' = lockQueue /\ \A i \in DOMAIN lockQueue : lockQueue[i] # t
      BY <1>4 DEF Releases
    <2>2. \A s \in Tasks : HoldsLock(s)' <=> HoldsLock(s)
      BY <2>1 DEF HoldsLock
    <2> QED
      BY <1>1, <1>2, <2>1, <2>2 DEF LockQueued, Locking
  <1> QED
    BY <1>3, <1>4

LEMMA JoinsLock ==
    ASSUME TypeOK, LockQueued, NEW t \in Callers, NEW y \in Calls,
           call[t].at = "idle", y.op \in {"discover", "backup"}, y.at = "lock",
           call' = [call EXCEPT ![t] = y], lockQueue' = Append(lockQueue, t)
    PROVE  LockQueued'
  <1>1. call'[t] = y /\ \A s \in Tasks : s # t => call'[s] = call[s]
    BY DEF TypeOK, Tasks
  <1>2. lockQueue \in Seq(Callers) /\ \A i \in DOMAIN lockQueue : lockQueue[i] \in Tasks
    BY Member DEF TypeOK, Tasks
  <1>3. \A i \in DOMAIN lockQueue : lockQueue[i] # t
    BY DEF LockQueued
  <1>4. /\ DOMAIN lockQueue' = DOMAIN lockQueue \cup {Len(lockQueue) + 1}
        /\ \A i \in DOMAIN lockQueue : lockQueue'[i] = lockQueue[i]
        /\ lockQueue'[Len(lockQueue) + 1] = t
    BY <1>2, AppendIndex
  <1>5. \A s \in Tasks : HoldsLock(s) => HoldsLock(s)'
    BY <1>2 DEF HoldsLock
  <1>6. \A i, j \in DOMAIN lockQueue' : lockQueue'[i] = lockQueue'[j] => i = j
    BY <1>3, <1>4 DEF LockQueued
  <1>7. \A i \in DOMAIN lockQueue' :
          Locking(call'[lockQueue'[i]]) /\ call'[lockQueue'[i]].at \in {"lock", "sent", "lost"}
    BY <1>1, <1>2, <1>3, <1>4 DEF LockQueued, Locking
  <1>8. \A s \in Tasks : Locking(call'[s]) /\ call'[s].at \in {"sent", "lost"} => HoldsLock(s)'
    BY <1>1, <1>5 DEF LockQueued, Locking
  <1> QED
    BY <1>6, <1>7, <1>8 DEF LockQueued

(* A task goes on behind the lock, or without it. *)
LEMMA KeepsLock ==
    ASSUME TypeOK, LockQueued, NEW t \in Tasks, NEW x \in Calls,
           x.at \in {"sent", "lost"},
           call' = [call EXCEPT ![t] = x], lockQueue' = lockQueue,
           IF x.op \in {"discover", "backup"} THEN HoldsLock(t)
           ELSE \A i \in DOMAIN lockQueue : lockQueue[i] # t
    PROVE  LockQueued'
  <1>1. call'[t] = x /\ \A s \in Tasks : s # t => call'[s] = call[s]
    BY DEF TypeOK
  <1>2. \A i \in DOMAIN lockQueue : lockQueue[i] \in Tasks
    BY Member DEF TypeOK, Tasks
  <1>3. \A s \in Tasks : HoldsLock(s)' <=> HoldsLock(s)
    BY DEF HoldsLock
  <1>4. \A i \in DOMAIN lockQueue' :
          Locking(call'[lockQueue'[i]]) /\ call'[lockQueue'[i]].at \in {"lock", "sent", "lost"}
    BY <1>1, <1>2 DEF LockQueued, Locking
  <1>5. \A s \in Tasks : Locking(call'[s]) /\ call'[s].at \in {"sent", "lost"} => HoldsLock(s)'
    BY <1>1, <1>3 DEF LockQueued, Locking
  <1> QED
    BY <1>4, <1>5 DEF LockQueued

(* What a sent command leaves to do. *)
LEMMA TakesInProgram ==
    ASSUME TypeOK, InProgram, NEW t \in Tasks, NEW x \in Calls, Takes(t, x),
           x.cmd.kind = "discover" => x.op = "discover",
           Follows(x.todo)
    PROVE  InProgram'
  <1>1. call'[t] = x /\ \A s \in Tasks : s # t => call'[s] = call[s]
    BY DEF Takes, TypeOK
  <1> QED
    BY <1>1 DEF InProgram

LEMMA SendsTakes ==
    ASSUME TypeOK, NEW t \in Tasks, NEW op \in {"none", "call", "discover", "backup", "sync"},
           NEW commands \in Seq(Commands), commands # <<>>, Sends(t, op, commands)
    PROVE  \E x \in Calls :
              /\ Takes(t, x)
              /\ x.op = op /\ x.cmd = Head(commands) /\ x.todo = Tail(commands)
              /\ x.at \in {"sent", "lost"}
              /\ x.at = "sent" => requests' # requests
  <1> DEFINE x == [op |-> op, at |-> IF link THEN "sent" ELSE "lost",
                   cmd |-> Head(commands), todo |-> Tail(commands)]
  <1>1. Head(commands) \in Commands /\ Tail(commands) \in Seq(Commands)
    BY HeadAndTail
  <1>2. x \in Calls
    BY <1>1 DEF Calls
  <1>3. Takes(t, x)
    BY DEF Sends, Takes
  <1>4. x.at = "sent" => requests' # requests
    <2>1. [by |-> t, cmd |-> Head(commands)] \in Requests
      BY <1>1 DEF Requests
    <2> QED
      BY <2>1, QueueTypes, AppendIndex DEF Sends
  <1> QED
    BY <1>2, <1>3, <1>4

LEMMA FollowsTail ==
    ASSUME NEW q \in Seq(Commands), q # <<>>, Follows(q)
    PROVE  Head(q).kind \notin {"discover", "clear"} /\ Follows(Tail(q))
  BY TailIndex DEF Follows

(* The steps. *)
LEMMA StartKeeps ==
    ASSUME BackupInv, NEW t \in Tasks, NEW op \in {"call", "discover", "backup", "sync"},
           NEW commands \in Seq(Commands), commands # <<>>,
           call[t].at \in {"idle", "lock"},
           Sends(t, op, commands), UNCHANGED <<responses, lockQueue>>,
           IF op \in {"discover", "backup"} THEN HoldsLock(t) ELSE call[t].at = "idle",
           Head(commands).kind = "discover" => op = "discover",
           op = "backup" => Head(commands).kind = "clear",
           Follows(Tail(commands))
    PROVE  Matched' /\ LockQueued' /\ InProgram' /\ DiscoveriesFirst'
  <1>1. PICK x \in Calls :
            /\ Takes(t, x)
            /\ x.op = op /\ x.cmd = Head(commands) /\ x.todo = Tail(commands)
            /\ x.at \in {"sent", "lost"}
            /\ x.at = "sent" => requests' # requests
    BY SendsTakes DEF BackupInv
  <1>2. SilentIn(requests, t) /\ SilentIn(responses, t)
    BY NotAwaiting DEF BackupInv
  <1>3. SilentIn(responses', t) /\ Rest(responses, responses')
    BY <1>2 DEF Rest
  <1>4. Matched'
    BY <1>1, <1>2, <1>3, TakesMatched DEF BackupInv
  <1>5. LockQueued'
    <2>1. call[t].at = "idle" => \A i \in DOMAIN lockQueue : lockQueue[i] # t
      BY DEF BackupInv, LockQueued
    <2> QED
      BY <1>1, <2>1, KeepsLock DEF BackupInv, Takes
  <1>6. InProgram'
    BY <1>1, TakesInProgram DEF BackupInv
  <1>7. DiscoveriesFirst'
    BY <1>1, TakesDiscoveriesFirst DEF BackupInv
  <1> QED
    BY <1>4, <1>5, <1>6, <1>7

LEMMA EndsKeeps ==
    ASSUME BackupInv, NEW t \in Tasks, NEW y \in Calls,
           y = Idle \/ y = [call[t] EXCEPT !.at = "reset"],
           call' = [call EXCEPT ![t] = y], requests' = requests, Releases(t),
           \A i \in DOMAIN lockQueue : lockQueue[i] = t => HoldsLock(t),
           SilentIn(requests, t), SilentIn(responses', t), Rest(responses, responses')
    PROVE  Matched' /\ LockQueued' /\ InProgram' /\ DiscoveriesFirst'
  <1>1. /\ y.at \in {"idle", "reset"}
        /\ y.cmd.kind = "discover" => y.op = "discover"
        /\ Follows(y.todo)
    <2>1. CASE y = Idle
      BY <2>1 DEF Idle, Cmd, Follows
    <2>2. CASE y = [call[t] EXCEPT !.at = "reset"]
      <3>1. call[t] \in Calls
        BY DEF BackupInv, TypeOK
      <3>2. y.at = "reset" /\ y.op = call[t].op /\ y.cmd = call[t].cmd /\ y.todo = call[t].todo
        BY <2>2, <3>1 DEF Calls
      <3> QED
        BY <3>2 DEF BackupInv, InProgram
    <2> QED
      BY <2>1, <2>2
  <1>2. Takes(t, y)
    BY DEF Takes
  <1>3. Matched'
    BY <1>2, TakesMatched DEF BackupInv
  <1>4. LockQueued'
    BY <1>1, ReleasesLock DEF BackupInv
  <1>5. InProgram'
    BY <1>1, <1>2, TakesInProgram DEF BackupInv
  <1>6. DiscoveriesFirst'
    <2>1. call'[t] = y /\ \A s \in Tasks : s # t => call'[s] = call[s]
      BY DEF BackupInv, TypeOK
    <2> QED
      BY <1>1, <2>1 DEF BackupInv, DiscoveriesFirst
  <1> QED
    BY <1>3, <1>4, <1>5, <1>6

LEMMA GoesOnKeeps ==
    ASSUME BackupInv, NEW t \in Tasks, call[t].at \in {"sent", "lost"},
           GoesOn(t), call[t].op = "backup" => NoDiscovery(requests),
           SilentIn(requests, t), SilentIn(responses', t), Rest(responses, responses')
    PROVE  Matched' /\ LockQueued' /\ InProgram' /\ DiscoveriesFirst'
  <1>1. /\ call[t] \in Calls
        /\ call[t].op \in {"none", "call", "discover", "backup", "sync"}
        /\ call[t].todo \in Seq(Commands)
    BY DEF BackupInv, TypeOK, Calls
  <1>2. \A i \in DOMAIN lockQueue : lockQueue[i] = t => HoldsLock(t)
    BY QueuedHolds DEF BackupInv
  <1>3. CASE call[t].todo # <<>> /\ Sends(t, call[t].op, call[t].todo) /\ UNCHANGED <<synced, lockQueue>>
    <2> DEFINE x == [op |-> call[t].op, at |-> IF link THEN "sent" ELSE "lost",
                     cmd |-> Head(call[t].todo), todo |-> Tail(call[t].todo)]
    <2>1. /\ x \in Calls /\ Takes(t, x)
          /\ x.op = call[t].op /\ x.cmd = Head(call[t].todo) /\ x.todo = Tail(call[t].todo)
          /\ x.at \in {"sent", "lost"}
      <3>1. Head(call[t].todo) \in Commands /\ Tail(call[t].todo) \in Seq(Commands)
        BY <1>1, <1>3, HeadAndTail
      <3>2. x \in Calls
        BY <1>1, <3>1 DEF Calls
      <3>3. Takes(t, x)
        BY <1>3 DEF Sends, Takes
      <3> QED
        BY <3>2, <3>3
    <2> HIDE DEF x
    <2>2. Head(call[t].todo).kind \notin {"discover", "clear"} /\ Follows(Tail(call[t].todo))
      BY <1>1, <1>3, FollowsTail DEF BackupInv, InProgram
    <2>3. Matched'
      BY <2>1, TakesMatched DEF BackupInv
    <2>4. InProgram'
      BY <2>1, <2>2, TakesInProgram DEF BackupInv
    <2>5. LockQueued'
      <3>1. Locking(call[t]) => HoldsLock(t)
        BY DEF BackupInv, LockQueued
      <3>2. ~Locking(call[t]) => \A i \in DOMAIN lockQueue : lockQueue[i] # t
        BY DEF BackupInv, LockQueued
      <3> QED
        BY <1>3, <2>1, <3>1, <3>2, KeepsLock DEF BackupInv, Takes, Locking
    <2>6. DiscoveriesFirst'
      BY <2>1, <2>2, TakesDiscoveriesFirst DEF BackupInv
    <2> QED
      BY <2>3, <2>4, <2>5, <2>6
  <1>4. CASE /\ call' = [call EXCEPT ![t] = Idle]
             /\ Releases(t)
             /\ UNCHANGED requests
    BY <1>2, <1>4, IdleTypes, EndsKeeps
  <1> QED
    BY <1>3, <1>4 DEF GoesOn

LEMMA FailsKeeps ==
    ASSUME BackupInv, NEW t \in Tasks, call[t].at \in {"sent", "lost"},
           Fails(t),
           SilentIn(requests, t), SilentIn(responses', t), Rest(responses, responses')
    PROVE  Matched' /\ LockQueued' /\ InProgram' /\ DiscoveriesFirst'
  <1>1. CASE call[t].cmd.kind \in Survivable /\ GoesOn(t)
    <2>1. call[t].op = "backup" => NoDiscovery(requests)
      BY <1>1 DEF BackupInv, DiscoveriesFirst, NoDiscovery, Survivable
    <2> QED
      BY <1>1, <2>1, GoesOnKeeps
  <1>2. CASE /\ call' = [call EXCEPT ![t] = IF t = Synchronizer THEN [call[t] EXCEPT !.at = "reset"]
                                                                ELSE Idle]
             /\ Releases(t)
             /\ UNCHANGED requests
    <2>1. [call[t] EXCEPT !.at = "reset"] \in Calls
      BY DEF BackupInv, TypeOK, Calls
    <2>2. \A i \in DOMAIN lockQueue : lockQueue[i] = t => HoldsLock(t)
      BY QueuedHolds DEF BackupInv
    <2> QED
      BY <1>2, <2>1, <2>2, IdleTypes, EndsKeeps
  <1> QED
    BY <1>1, <1>2 DEF Fails

LEMMA ConcatIndex ==
    ASSUME NEW S, NEW p \in Seq(S), NEW q \in Seq(S)
    PROVE  \A i \in DOMAIN (p \o q) :
               \/ i \in DOMAIN p /\ (p \o q)[i] = p[i]
               \/ i - Len(p) \in DOMAIN q /\ (p \o q)[i] = q[i - Len(p)]
  OBVIOUS

LEMMA ConcatHead ==
    ASSUME NEW S, NEW p \in Seq(S), NEW q \in Seq(S), p # <<>>
    PROVE  Head(p \o q) = Head(p) /\ Tail(p \o q) = Tail(p) \o q
  OBVIOUS

LEMMA ConcatFollows ==
    ASSUME NEW p \in Seq(Commands), NEW q \in Seq(Commands), Follows(p), Follows(q)
    PROVE  Follows(p \o q)
  BY ConcatIndex DEF Follows

(* The commands of each operation: a backup begins with its clear. *)
LEMMA ProgramsFollow ==
    /\ Follows(Tail(ClearCommands)) /\ Head(ClearCommands).kind = "clear"
    /\ Follows(Tail(BackupCommands)) /\ Head(BackupCommands).kind = "clear"
    /\ Follows(Tail(SyncCommands)) /\ Head(SyncCommands).kind = "names"
  <1> DEFINE last == <<Cmd("rescan"), Cmd("names")>>
             renames == [i \in DOMAIN Legacy |-> Named("legacy", Legacy[i])]
             first == <<Cmd("names")>>
  <1>1. Follows(Tail(ClearCommands)) /\ Head(ClearCommands).kind = "clear"
    <2>1. /\ Len(ClearCommands) = 3 /\ ClearCommands[1].kind = "clear"
          /\ ClearCommands[2].kind = "names" /\ ClearCommands[3].kind = "display"
      BY DEF ClearCommands, Cmd
    <2>2. DOMAIN ClearCommands = {1, 2, 3}
      BY <2>1, Programs
    <2> QED
      BY <2>1, <2>2, Programs, TailIndex DEF Follows
  <1>2. last \in Seq(Commands) /\ Follows(last)
    <2>1. last \in Seq(Commands)
      BY CmdTypes DEF Kinds, WithName
    <2>2. DOMAIN last = {1, 2} /\ last[1].kind = "rescan" /\ last[2].kind = "names"
      BY DEF Cmd
    <2> QED
      BY <2>1, <2>2 DEF Follows
  <1>3. RestoreCommands \in Seq(Commands) /\ Follows(RestoreCommands)
    <2>1. Backup \in Seq([nid: Nids, sid: Sids])
      BY BlockNamesAssumption
    <2>2. \A i \in DOMAIN Backup : Named("restore", Backup[i]) \in Commands
      BY <2>1, Member, NamedTypes DEF WithName
    <2>3. RestoreCommands \in Seq(Commands)
      BY <2>1, <2>2, MapTypes DEF RestoreCommands
    <2> QED
      BY <2>3 DEF RestoreCommands, Named, Follows
  <1>4. renames \in Seq(Commands) /\ Follows(renames)
    <2>1. Legacy \in Seq([nid: Nids, sid: Sids])
      BY BlockNamesAssumption
    <2>2. \A i \in DOMAIN Legacy : Named("legacy", Legacy[i]) \in Commands
      BY <2>1, Member, NamedTypes DEF WithName
    <2>3. renames \in Seq(Commands)
      BY <2>1, <2>2, MapTypes
    <2> QED
      BY <2>3 DEF Named, Follows
  <1>5. /\ first \in Seq(Commands) /\ first # <<>>
        /\ Head(first).kind = "names" /\ Tail(first) = <<>> /\ Follows(<<>>)
    <2>1. first \in Seq(Commands) /\ first # <<>>
      BY CmdTypes, Single DEF Kinds, WithName
    <2> QED
      BY <2>1 DEF Cmd, Follows
  <1> HIDE DEF last, renames, first
  <1>6. Follows(Tail(BackupCommands)) /\ Head(BackupCommands).kind = "clear"
    <2> DEFINE both == ClearCommands \o RestoreCommands
    <2>1. /\ Head(both) = Head(ClearCommands) /\ Tail(both) = Tail(ClearCommands) \o RestoreCommands
          /\ both \in Seq(Commands) /\ both # <<>>
      BY <1>3, Programs, ConcatHead, ConcatTypes
    <2>2. Tail(ClearCommands) \in Seq(Commands)
      BY Programs, HeadAndTail
    <2>3. Tail(both) \in Seq(Commands) /\ Follows(Tail(both))
      BY <1>1, <1>3, <2>1, <2>2, ConcatFollows, ConcatTypes
    <2>4. BackupCommands = both \o last
      BY DEF BackupCommands, last
    <2> HIDE DEF both
    <2>5. Head(both \o last) = Head(both) /\ Tail(both \o last) = Tail(both) \o last
      BY <1>2, <2>1, ConcatHead
    <2>6. Follows(Tail(both) \o last)
      BY <1>2, <2>3, ConcatFollows
    <2> QED
      BY <1>1, <2>1, <2>4, <2>5, <2>6
  <1>7. Follows(Tail(SyncCommands)) /\ Head(SyncCommands).kind = "names"
    <2>1. SyncCommands = first \o renames
      BY DEF SyncCommands, first, renames
    <2>2. Head(first \o renames) = Head(first) /\ Tail(first \o renames) = Tail(first) \o renames
      BY <1>4, <1>5, ConcatHead
    <2>3. Follows(Tail(first) \o renames)
      BY <1>4, <1>5, Empty, ConcatFollows
    <2> QED
      BY <1>5, <2>1, <2>2, <2>3
  <1> QED
    BY <1>1, <1>6, <1>7

LEMMA CallerKeeps ==
    ASSUME BackupInv, NEW t \in Callers, Begins(t) \/ TakesLock(t)
    PROVE  Matched' /\ LockQueued' /\ InProgram' /\ DiscoveriesFirst'
  <1>1. t \in Tasks
    BY DEF Tasks
  <1>2. ASSUME NEW c \in Commands, c.kind # "discover", call[t].at = "idle",
               Sends(t, "call", <<c>>), UNCHANGED <<responses, lockQueue>>
        PROVE  Matched' /\ LockQueued' /\ InProgram' /\ DiscoveriesFirst'
    <2>1. <<c>> \in Seq(Commands) /\ <<c>> # <<>>
      BY Single
    <2>2. Head(<<c>>) = c /\ Tail(<<c>>) = <<>>
      OBVIOUS
    <2>3. Follows(<<>>)
      BY DEF Follows
    <2> QED
      BY <1>1, <1>2, <2>1, <2>2, <2>3, StartKeeps
  <1>3. ASSUME NEW op \in {"discover", "backup"}, call[t].at = "idle",
               lockQueue' = Append(lockQueue, t),
               call' = [call EXCEPT ![t] = [Idle EXCEPT !.op = op, !.at = "lock"]],
               UNCHANGED <<requests, responses>>
        PROVE  Matched' /\ LockQueued' /\ InProgram' /\ DiscoveriesFirst'
    <2> DEFINE y == [Idle EXCEPT !.op = op, !.at = "lock"]
    <2>1. /\ y \in Calls /\ y.op = op /\ y.at = "lock"
          /\ y.cmd = Cmd("read") /\ y.todo = <<>>
      BY IdleTypes DEF Calls, Idle
    <2>2. call' = [call EXCEPT ![t] = y] /\ Takes(t, y)
      BY <1>3 DEF Takes
    <2> HIDE DEF y
    <2>3. SilentIn(requests, t) /\ SilentIn(responses, t)
      BY <1>1, <1>3, NotAwaiting DEF BackupInv
    <2>4. SilentIn(responses', t) /\ Rest(responses, responses')
      BY <1>3, <2>3 DEF Rest
    <2>5. Matched'
      BY <1>1, <2>1, <2>2, <2>3, <2>4, TakesMatched DEF BackupInv
    <2>6. LockQueued'
      BY <1>3, <2>1, <2>2, JoinsLock DEF BackupInv
    <2>7. InProgram'
      BY <1>1, <2>1, <2>2, TakesInProgram DEF BackupInv, Cmd, Follows
    <2>8. DiscoveriesFirst'
      <3>1. call'[t] = y /\ \A s \in Tasks : s # t => call'[s] = call[s]
        BY <1>1, <2>2 DEF BackupInv, TypeOK
      <3> QED
        BY <1>3, <2>1, <3>1 DEF BackupInv, DiscoveriesFirst
    <2> QED
      BY <2>5, <2>6, <2>7, <2>8
  <1>4. ASSUME NEW op \in {"read", "readAll", "create", "delete"},
               NEW c \in OneCommand(op), CallBegins(t, <<c>>)
        PROVE  Matched' /\ LockQueued' /\ InProgram' /\ DiscoveriesFirst'
    <2>1. c \in Commands /\ c.kind # "discover"
      BY DEF OneCommand
    <2> QED
      BY <1>2, <1>4, <2>1 DEF CallBegins
  <1>5. CASE CallBegins(t, ClearCommands)
    BY <1>1, <1>5, Programs, ProgramsFollow, StartKeeps DEF CallBegins
  <1>6. ASSUME NEW nid \in Nids, NEW sid \in Sids, RenameBegins(t, nid, sid)
        PROVE  Matched' /\ LockQueued' /\ InProgram' /\ DiscoveriesFirst'
    <2> DEFINE c == Named("rename", [nid |-> nid, sid |-> sid])
    <2>1. c \in Commands /\ c.kind # "discover"
      BY NamedTypes DEF WithName, Named
    <2> QED
      BY <1>2, <1>6, <2>1 DEF RenameBegins
  <1>7. CASE DiscoverBegins(t)
    BY <1>3, <1>7 DEF DiscoverBegins
  <1>8. CASE BackupBegins(t)
    BY <1>3, <1>8 DEF BackupBegins
  <1>9. CASE DiscoverSends(t)
    <2>1. Cmd("discover") \in Commands
      BY CmdTypes DEF Kinds, WithName
    <2>2. <<Cmd("discover")>> \in Seq(Commands) /\ <<Cmd("discover")>> # <<>>
      BY <2>1, Single
    <2>3. Head(<<Cmd("discover")>>) = Cmd("discover") /\ Tail(<<Cmd("discover")>>) = <<>>
      OBVIOUS
    <2>4. Follows(<<>>)
      BY DEF Follows
    <2> QED
      BY <1>1, <1>9, <2>2, <2>3, <2>4, StartKeeps DEF DiscoverSends
  <1>10. CASE BackupSends(t)
    BY <1>1, <1>10, Programs, ProgramsFollow, StartKeeps DEF BackupSends
  <1>11. CASE BackupNotConnected(t)
    <2>1. SilentIn(requests, t) /\ SilentIn(responses, t)
      BY <1>1, <1>11, NotAwaiting DEF BackupInv, BackupNotConnected
    <2>2. SilentIn(responses', t) /\ Rest(responses, responses')
      BY <1>11, <2>1 DEF BackupNotConnected, Rest
    <2> QED
      BY <1>1, <1>11, <2>1, <2>2, IdleTypes, EndsKeeps DEF BackupNotConnected
  <1> QED
    BY <1>4, <1>5, <1>6, <1>7, <1>8, <1>9, <1>10, <1>11 DEF Begins, TakesLock

LEMMA AnswerKeeps ==
    ASSUME BackupInv, NEW t \in Tasks, Answered(t) \/ Refused(t) \/ LostTimesOut(t)
    PROVE  Matched' /\ LockQueued' /\ InProgram' /\ DiscoveriesFirst'
  <1>1. ASSUME responses # <<>>, Head(responses).by = t, responses' = Tail(responses)
        PROVE  /\ SilentIn(requests, t) /\ SilentIn(responses', t)
               /\ Rest(responses, responses')
               /\ call[t].at = "sent"
    BY <1>1, LastResponse DEF BackupInv, Rest
  <1>2. CASE Answered(t)
    <2>1. responses # <<>> /\ Head(responses).by = t /\ responses' = Tail(responses) /\ GoesOn(t)
      BY <1>2 DEF Answered
    <2>2. call[t].op = "backup" => NoDiscovery(requests)
      BY <1>1, <2>1 DEF BackupInv, DiscoveriesFirst, NoDiscovery, SilentIn
    <2> QED
      BY <1>1, <2>1, <2>2, GoesOnKeeps
  <1>3. CASE Refused(t)
    <2>1. responses # <<>> /\ Head(responses).by = t /\ responses' = Tail(responses) /\ Fails(t)
      BY <1>3 DEF Refused
    <2> QED
      BY <1>1, <2>1, FailsKeeps
  <1>4. CASE LostTimesOut(t)
    <2>1. SilentIn(requests, t) /\ SilentIn(responses, t)
      BY <1>4, NotAwaiting DEF BackupInv, LostTimesOut
    <2>2. SilentIn(responses', t) /\ Rest(responses, responses')
      BY <1>4, <2>1 DEF LostTimesOut, Rest
    <2> QED
      BY <1>4, <2>1, <2>2, FailsKeeps DEF LostTimesOut
  <1> QED
    BY <1>2, <1>3, <1>4

LEMMA TimeoutKeeps ==
    ASSUME BackupInv, NEW t \in Tasks, TimesOut(t)
    PROVE  Matched' /\ LockQueued' /\ InProgram' /\ DiscoveriesFirst'
  <1>1. /\ call'[t] = [call[t] EXCEPT !.at = "lost"]
        /\ \A s \in Tasks : s # t => call'[s] = call[s]
        /\ lockQueue' = lockQueue
    BY DEF TimesOut, BackupInv, TypeOK
  <1>2. /\ call'[t].at = "lost" /\ call'[t].op = call[t].op
        /\ call'[t].cmd = call[t].cmd /\ call'[t].todo = call[t].todo
        /\ call[t].at = "sent"
    <2>1. call[t] \in Calls
      BY DEF BackupInv, TypeOK
    <2> QED
      BY <1>1, <2>1 DEF Calls, TimesOut
  <1>3. NoOne \notin Tasks
    BY BlockNamesAssumption
  <1>4. ASSUME NEW S, S = Requests \/ S = Responses, NEW q \in Seq(S)
        PROVE  /\ DOMAIN Abandoned(t, q) = DOMAIN q
               /\ \A i \in DOMAIN q :
                    /\ Abandoned(t, q)[i].by = IF q[i].by = t THEN NoOne ELSE q[i].by
                    /\ Abandoned(t, q)[i].cmd = q[i].cmd
    <2>1. \A i \in DOMAIN q : q[i] \in S
      BY Member
    <2> QED
      BY <1>4, <2>1 DEF Abandoned, Requests, Responses
  <1>5. /\ DOMAIN requests' = DOMAIN requests
        /\ \A i \in DOMAIN requests :
             /\ requests'[i].by = IF requests[i].by = t THEN NoOne ELSE requests[i].by
             /\ requests'[i].cmd = requests[i].cmd
    BY <1>4, QueueTypes DEF BackupInv, TimesOut
  <1>6. /\ DOMAIN responses' = DOMAIN responses
        /\ \A i \in DOMAIN responses :
             /\ responses'[i].by = IF responses[i].by = t THEN NoOne ELSE responses[i].by
             /\ responses'[i].cmd = responses[i].cmd
    BY <1>4, QueueTypes DEF BackupInv, TimesOut
  <1>7. Owned(requests)'
    BY <1>1, <1>3, <1>5 DEF BackupInv, Matched, Owned
  <1>8. Owned(responses)'
    BY <1>1, <1>3, <1>6 DEF BackupInv, Matched, Owned
  <1>9. OneEach'
    BY <1>3, <1>5, <1>6 DEF BackupInv, Matched, OneEach
  <1>10. LockQueued'
    <2>1. \A i \in DOMAIN lockQueue : lockQueue[i] \in Tasks
      BY Member DEF BackupInv, TypeOK, Tasks
    <2>2. \A s \in Tasks : HoldsLock(s)' <=> HoldsLock(s)
      BY <1>1 DEF HoldsLock
    <2>3. \A s \in Tasks : Locking(call'[s]) <=> Locking(call[s])
      BY <1>1, <1>2 DEF Locking
    <2>4. \A s \in Tasks : /\ call[s].at \in {"lock", "sent", "lost"} => call'[s].at \in {"lock", "sent", "lost"}
                           /\ call'[s].at \in {"sent", "lost"} => call[s].at \in {"sent", "lost"}
      BY <1>1, <1>2
    <2>5. \A i \in DOMAIN lockQueue' :
            Locking(call'[lockQueue'[i]]) /\ call'[lockQueue'[i]].at \in {"lock", "sent", "lost"}
      BY <1>1, <2>1, <2>3, <2>4 DEF BackupInv, LockQueued
    <2>6. \A s \in Tasks : Locking(call'[s]) /\ call'[s].at \in {"sent", "lost"} => HoldsLock(s)'
      BY <2>2, <2>3, <2>4 DEF BackupInv, LockQueued
    <2>7. \A i, j \in DOMAIN lockQueue' : lockQueue'[i] = lockQueue'[j] => i = j
      BY <1>1 DEF BackupInv, LockQueued
    <2> QED
      BY <2>5, <2>6, <2>7 DEF LockQueued
  <1>11. InProgram'
    <2>1. \A s \in Tasks : /\ call'[s].op = call[s].op /\ call'[s].cmd = call[s].cmd
                           /\ call'[s].todo = call[s].todo
      BY <1>1, <1>2
    <2> QED
      BY <2>1 DEF BackupInv, InProgram
  <1>12. DiscoveriesFirst'
    <2> SUFFICES ASSUME NEW s \in Tasks, call'[s].op = "backup", call'[s].at \in {"sent", "lost"},
                        NEW j \in DOMAIN requests', requests'[j].cmd.kind = "discover"
                 PROVE  /\ call'[s].cmd.kind = "clear"
                        /\ call'[s].at = "sent" =>
                             \E i \in DOMAIN requests' : i > j /\ requests'[i].by = s
      BY DEF DiscoveriesFirst
    <2>1. CASE s = t
      BY <1>2, <1>5, <2>1 DEF BackupInv, DiscoveriesFirst
    <2>2. CASE s # t
      BY <1>1, <1>5, <2>2 DEF BackupInv, DiscoveriesFirst
    <2> QED
      BY <2>1, <2>2
  <1> QED
    BY <1>7, <1>8, <1>9, <1>10, <1>11, <1>12 DEF Matched

(* The controller answers the first command. *)
LEMMA ControllerKeeps ==
    ASSUME BackupInv, Handles \/ Refuses
    PROVE  Matched' /\ LockQueued' /\ InProgram' /\ DiscoveriesFirst'
  <1> DEFINE r == Head(requests)
             last == Len(responses) + 1
  <1>1. /\ requests # <<>> /\ requests' = Tail(requests)
        /\ call' = call /\ lockQueue' = lockQueue
    BY DEF Handles, Refuses
  <1>2. \E ok, blocks : Responds(r, ok, blocks)
    <2>1. CASE Handles
      <3>1. Reads(r) \/ Creates(r) \/ Deletes(r) \/ Renames(r) \/ Clears(r) \/ Discovers(r)
        BY <2>1 DEF Handles
      <3> HIDE DEF r
      <3> QED
        BY <3>1 DEF Reads, Creates, Deletes, Renames, Clears, Discovers
    <2>2. CASE Refuses
      BY <2>2 DEF Refuses
    <2> QED
      BY <2>1, <2>2
  <1>3. PICK ok, blocks :
            responses' = Append(responses, [by |-> r.by, cmd |-> r.cmd, ok |-> ok, blocks |-> blocks])
    BY <1>2 DEF Responds
  <1>4. /\ 1 \in DOMAIN requests /\ r = requests[1]
        /\ \A i \in DOMAIN requests' :
             i \in Nat /\ i # 0 /\ i + 1 \in DOMAIN requests /\ requests'[i] = requests[i + 1]
        /\ \A i \in DOMAIN requests : i # 1 => i - 1 \in DOMAIN requests' /\ i - 1 \in Nat
    BY <1>1, QueueTypes, TailIndex DEF BackupInv
  <1>5. /\ last \notin DOMAIN responses
        /\ DOMAIN responses' = DOMAIN responses \cup {last}
        /\ \A i \in DOMAIN responses : responses'[i] = responses[i]
        /\ responses'[last].by = r.by /\ responses'[last].cmd = r.cmd
    BY <1>3, QueueTypes, AppendIndex DEF BackupInv
  <1> HIDE DEF r, last
  <1>6. Owned(requests)'
    <2> SUFFICES ASSUME NEW i \in DOMAIN requests', requests'[i].by \in Tasks
                 PROVE  /\ call[requests'[i].by].at = "sent"
                        /\ call[requests'[i].by].cmd = requests'[i].cmd
                        /\ \A j \in DOMAIN requests' : requests'[j].by = requests'[i].by => j = i
      BY <1>1 DEF Owned
    <2>1. ASSUME NEW j \in DOMAIN requests', requests'[j].by = requests'[i].by
          PROVE  j = i
      <3>1. j + 1 = i + 1
        BY <1>4, <2>1 DEF BackupInv, Matched, Owned
      <3> QED
        BY <1>4, <3>1
    <2> QED
      BY <1>4, <2>1 DEF BackupInv, Matched, Owned
  <1>7. r.by \in Tasks => /\ call[r.by].at = "sent" /\ call[r.by].cmd = r.cmd
                          /\ \A j \in DOMAIN responses : responses[j].by # r.by
                          /\ \A i \in DOMAIN requests : requests[i].by = r.by => i = 1
    BY <1>4 DEF BackupInv, Matched, Owned, OneEach
  <1>8. Owned(responses)'
    <2> SUFFICES ASSUME NEW i \in DOMAIN responses', responses'[i].by \in Tasks
                 PROVE  /\ call[responses'[i].by].at = "sent"
                        /\ call[responses'[i].by].cmd = responses'[i].cmd
                        /\ \A j \in DOMAIN responses' : responses'[j].by = responses'[i].by => j = i
      BY <1>1 DEF Owned
    <2>1. CASE i = last
      BY <1>5, <1>7, <2>1
    <2>2. CASE i \in DOMAIN responses
      BY <1>5, <1>7, <2>2 DEF BackupInv, Matched, Owned
    <2> QED
      BY <1>5, <2>1, <2>2
  <1>9. OneEach'
    <2> SUFFICES ASSUME NEW i \in DOMAIN requests', NEW j \in DOMAIN responses',
                        requests'[i].by = responses'[j].by, requests'[i].by \in Tasks
                 PROVE  FALSE
      BY DEF OneEach
    <2>1. CASE j = last
      <3>1. i + 1 = 1
        BY <1>4, <1>5, <1>7, <2>1
      <3> QED
        BY <1>4, <3>1
    <2>2. CASE j \in DOMAIN responses
      BY <1>4, <1>5, <2>2 DEF BackupInv, Matched, OneEach
    <2> QED
      BY <1>5, <2>1, <2>2
  <1>10. LockQueued' /\ InProgram'
    BY <1>1 DEF BackupInv, LockQueued, InProgram, HoldsLock
  <1>11. DiscoveriesFirst'
    <2> SUFFICES ASSUME NEW s \in Tasks, call[s].op = "backup", call[s].at \in {"sent", "lost"},
                        NEW j \in DOMAIN requests', requests'[j].cmd.kind = "discover"
                 PROVE  /\ call[s].cmd.kind = "clear"
                        /\ call[s].at = "sent" =>
                             \E i \in DOMAIN requests' : i > j /\ requests'[i].by = s
      BY <1>1 DEF DiscoveriesFirst
    <2>1. call[s].cmd.kind = "clear"
      BY <1>4 DEF BackupInv, DiscoveriesFirst
    <2>2. ASSUME call[s].at = "sent"
          PROVE  \E i \in DOMAIN requests' : i > j /\ requests'[i].by = s
      <3>1. PICK i \in DOMAIN requests : i > j + 1 /\ requests[i].by = s
        BY <1>4, <2>2 DEF BackupInv, DiscoveriesFirst
      <3>2. i \in Nat /\ j \in Nat
        BY <1>4, QueueTypes DEF BackupInv
      <3>3. i # 1 /\ i - 1 > j /\ (i - 1) + 1 = i
        BY <3>1, <3>2
      <3>4. i - 1 \in DOMAIN requests' /\ requests'[i - 1] = requests[i]
        BY <1>4, <3>3
      <3> QED
        BY <3>1, <3>3, <3>4
    <2> QED
      BY <2>1, <2>2
  <1> QED
    BY <1>6, <1>8, <1>9, <1>10, <1>11 DEF Matched

LEMMA UnheardKeeps ==
    ASSUME BackupInv, Unheard
    PROVE  Matched' /\ LockQueued' /\ InProgram' /\ DiscoveriesFirst'
  <1>1. UNCHANGED <<requests, call, lockQueue>> /\ Rest(responses, responses')
    BY DEF Unheard, Rest
  <1>2. PICK d \in {0, 1} : \A i \in DOMAIN responses' :
            i \in Nat /\ i + d \in DOMAIN responses /\ responses'[i] = responses[i + d]
    BY <1>1, QueueTypes, RestIndex DEF BackupInv
  <1>3. Owned(responses)'
    <2> SUFFICES ASSUME NEW i \in DOMAIN responses', responses'[i].by \in Tasks
                 PROVE  /\ call[responses'[i].by].at = "sent"
                        /\ call[responses'[i].by].cmd = responses'[i].cmd
                        /\ \A j \in DOMAIN responses' : responses'[j].by = responses'[i].by => j = i
      BY <1>1 DEF Owned
    <2>1. ASSUME NEW j \in DOMAIN responses', responses'[j].by = responses'[i].by
          PROVE  j = i
      <3>1. j + d = i + d
        BY <1>2, <2>1 DEF BackupInv, Matched, Owned
      <3> QED
        BY <1>2, <3>1
    <2> QED
      BY <1>2, <2>1 DEF BackupInv, Matched, Owned
  <1>4. Owned(requests)' /\ OneEach'
    BY <1>1, <1>2 DEF BackupInv, Matched, Owned, OneEach
  <1>5. LockQueued' /\ InProgram' /\ DiscoveriesFirst'
    BY <1>1 DEF BackupInv, LockQueued, InProgram, DiscoveriesFirst, HoldsLock
  <1> QED
    BY <1>3, <1>4, <1>5 DEF Matched

(* A connection that ends empties both queues. *)
LEMMA DisconnectsKeeps ==
    ASSUME BackupInv, Disconnects
    PROVE  Matched' /\ LockQueued' /\ InProgram' /\ DiscoveriesFirst'
  <1>1. /\ DOMAIN requests' = {} /\ DOMAIN responses' = {}
        /\ lockQueue' = lockQueue
    BY DEF Disconnects
  <1>2. Matched' /\ DiscoveriesFirst'
    BY <1>1 DEF Matched, Owned, OneEach, DiscoveriesFirst
  <1>3. \A t \in Tasks :
          \/ call'[t] = call[t] /\ call[t].at # "sent"
          \/ call'[t] = [call[t] EXCEPT !.at = "lost"] /\ call[t].at = "sent"
          \/ call'[t] = Idle /\ call[t].at = "reset"
    BY DEF Disconnects
  <1>4. \A t \in Tasks : call[t] \in Calls
    BY DEF BackupInv, TypeOK
  <1>5. \A t \in Tasks :
          \/ /\ call'[t].op = call[t].op /\ call'[t].cmd = call[t].cmd /\ call'[t].todo = call[t].todo
             /\ call[t].at \in {"lock", "sent", "lost"} => call'[t].at \in {"lock", "sent", "lost"}
             /\ call'[t].at \in {"sent", "lost"} => call[t].at \in {"sent", "lost"}
          \/ call'[t] = Idle /\ call[t].at = "reset"
    <2> SUFFICES ASSUME NEW t \in Tasks, call'[t] = [call[t] EXCEPT !.at = "lost"], call[t].at = "sent"
                 PROVE  /\ call'[t].op = call[t].op /\ call'[t].cmd = call[t].cmd
                        /\ call'[t].todo = call[t].todo /\ call'[t].at = "lost"
      BY <1>3
    <2> QED
      BY <1>4 DEF Calls
  <1>6. Idle.op = "none" /\ Idle.at = "idle" /\ Idle.cmd.kind = "read" /\ Follows(Idle.todo)
    BY DEF Idle, Cmd, Follows
  <1>7. InProgram'
    BY <1>5, <1>6 DEF BackupInv, InProgram
  <1>8. LockQueued'
    <2>1. \A i \in DOMAIN lockQueue : lockQueue[i] \in Tasks
      BY Member DEF BackupInv, TypeOK, Tasks
    <2>2. \A s \in Tasks : HoldsLock(s)' <=> HoldsLock(s)
      BY <1>1 DEF HoldsLock
    <2>3. \A i \in DOMAIN lockQueue' :
            Locking(call'[lockQueue'[i]]) /\ call'[lockQueue'[i]].at \in {"lock", "sent", "lost"}
      BY <1>1, <1>5, <2>1 DEF BackupInv, LockQueued, Locking
    <2>4. \A s \in Tasks : Locking(call'[s]) /\ call'[s].at \in {"sent", "lost"} => HoldsLock(s)'
      BY <1>5, <1>6, <2>2 DEF BackupInv, LockQueued, Locking
    <2>5. \A i, j \in DOMAIN lockQueue' : lockQueue'[i] = lockQueue'[j] => i = j
      BY <1>1 DEF BackupInv, LockQueued
    <2> QED
      BY <2>3, <2>4, <2>5 DEF LockQueued
  <1> QED
    BY <1>2, <1>7, <1>8

LEMMA SynchronizerKeeps ==
    ASSUME BackupInv, SyncBegins \/ SyncResets
    PROVE  Matched' /\ LockQueued' /\ InProgram' /\ DiscoveriesFirst'
  <1>1. Synchronizer \in Tasks
    BY DEF Tasks
  <1>2. CASE SyncBegins
    BY <1>1, <1>2, Programs, ProgramsFollow, StartKeeps DEF SyncBegins
  <1>3. CASE SyncResets
    <2>1. CASE Disconnects
      BY <2>1, DisconnectsKeeps
    <2>2. CASE ~link /\ SyncResets /\ ~Disconnects
      <3>1. /\ call[Synchronizer].at = "reset"
            /\ call' = [call EXCEPT ![Synchronizer] = Idle]
            /\ UNCHANGED <<requests, responses, lockQueue>>
        BY <2>2 DEF SyncResets
      <3>2. \A i \in DOMAIN lockQueue : lockQueue[i] # Synchronizer
        BY Member, BlockNamesAssumption DEF BackupInv, TypeOK
      <3>3. Releases(Synchronizer)
        <4>1. ~HoldsLock(Synchronizer)
          BY <3>2, TailIndex DEF BackupInv, TypeOK, HoldsLock
        <4> QED
          BY <3>1, <4>1 DEF Releases
      <3>4. SilentIn(requests, Synchronizer) /\ SilentIn(responses, Synchronizer)
        BY <1>1, <3>1, NotAwaiting DEF BackupInv
      <3>5. SilentIn(responses', Synchronizer) /\ Rest(responses, responses')
        BY <3>1, <3>4 DEF Rest
      <3> QED
        BY <1>1, <3>1, <3>2, <3>3, <3>4, <3>5, IdleTypes, EndsKeeps
    <2> QED
      BY <1>3, <2>1, <2>2 DEF SyncResets
  <1> QED
    BY <1>2, <1>3

LEMMA BackupStep == BackupInv /\ [Next]_vars => BackupInv'
  <1> SUFFICES ASSUME BackupInv, [Next]_vars PROVE BackupInv'
    OBVIOUS
  <1>1. TypeOK'
    BY TypesStep DEF BackupInv
  <1>2. CASE UNCHANGED vars
    BY <1>1, <1>2 DEF vars, BackupInv, Matched, Owned, OneEach, LockQueued, HoldsLock,
                      InProgram, DiscoveriesFirst
  <1>3. CASE Connects
    BY <1>1, <1>3 DEF Connects, BackupInv, Matched, Owned, OneEach, LockQueued, HoldsLock,
                      InProgram, DiscoveriesFirst
  <1>4. CASE Dropped
    BY <1>1, <1>4, DisconnectsKeeps DEF Dropped, BackupInv
  <1>5. ASSUME NEW t \in Callers, Begins(t) \/ TakesLock(t)
        PROVE  BackupInv'
    BY <1>1, <1>5, CallerKeeps DEF BackupInv
  <1>6. ASSUME NEW t \in Tasks, Answered(t) \/ Refused(t) \/ LostTimesOut(t) \/ TimesOut(t)
        PROVE  BackupInv'
    BY <1>1, <1>6, AnswerKeeps, TimeoutKeeps DEF BackupInv
  <1>7. CASE Handles \/ Refuses
    BY <1>1, <1>7, ControllerKeeps DEF BackupInv
  <1>8. CASE Unheard
    BY <1>1, <1>8, UnheardKeeps DEF BackupInv
  <1>9. CASE SyncBegins \/ SyncResets
    BY <1>1, <1>9, SynchronizerKeeps DEF BackupInv
  <1> QED
    BY <1>2, <1>3, <1>4, <1>5, <1>6, <1>7, <1>8, <1>9 DEF Next

(* The discovery lock (spark_api.py) has one holder, who gives it back, and   *)
(* whoever goes on behind it holds it, through timeouts and disconnects.     *)
THEOREM BackupInvariant == Spec => []BackupInv
  <1>1. Init => BackupInv
    <2> SUFFICES ASSUME Init PROVE BackupInv
      OBVIOUS
    <2>1. TypeOK
      BY InitTypes
    <2>2. \A t \in Tasks : call[t] = Idle
      BY DEF Init
    <2>3. DOMAIN requests = {} /\ DOMAIN responses = {} /\ DOMAIN lockQueue = {}
      BY DEF Init
    <2>4. Idle.op = "none" /\ Idle.at = "idle" /\ Idle.cmd.kind = "read" /\ Follows(Idle.todo)
      BY DEF Idle, Cmd, Follows
    <2> QED
      BY <2>1, <2>2, <2>3, <2>4 DEF BackupInv, Matched, Owned, OneEach, LockQueued,
                                    InProgram, DiscoveriesFirst
  <1> QED
    BY <1>1, BackupStep, PTL DEF Spec

(* apply_backup() and discover_blocks() exclude each other at the controller, *)
(* also when either has timed out: no discovery that was sent earlier or      *)
(* waited for the lock is handled between the clear and the end of a backup.  *)
THEOREM BackupsExcludeDiscoveries == Spec => NoDiscoveryDuringBackup
  <1>1. ASSUME BackupInv, NEW t \in Callers, Restoring(t), requests # <<>>
        PROVE  Head(requests).cmd.kind # "discover"
    <2>1. t \in Tasks /\ 1 \in DOMAIN requests /\ Head(requests) = requests[1]
      BY <1>1, QueueTypes, TailIndex DEF BackupInv, Tasks
    <2>2. CASE call[t].cmd.kind \in {"names", "display", "restore", "rescan"}
      BY <1>1, <2>1, <2>2 DEF BackupInv, DiscoveriesFirst, Restoring
    <2>3. CASE \E i \in DOMAIN responses : responses[i].by = t
      BY <1>1, <2>1, <2>3 DEF BackupInv, DiscoveriesFirst, Matched, OneEach, Restoring
    <2> QED
      BY <1>1, <2>2, <2>3 DEF Restoring
  <1>2. BackupInv /\ [Next]_vars =>
          [\A t \in Callers :
             Restoring(t) /\ requests # <<>> /\ requests' = Tail(requests)
               => Head(requests).cmd.kind # "discover"]_vars
    BY <1>1
  <1> QED
    BY <1>2, BackupInvariant, PTL DEF Spec, NoDiscoveryDuringBackup

-----------------------------------------------------------------------------
(* The store follows the controller.  What the store should be is not the    *)
(* table of names that the controller has now, but the one it had before the *)
(* commands whose responses are still on their way: each response explains   *)
(* how the table went from the one before it to the one after it.            *)

(* What StoreFollowsController says of the store, about any table. *)
Agrees(table, st, d) ==
    /\ "lacks" \notin d => \A n \in DOMAIN table : table[n] \in DOMAIN st /\ st[table[n]] = n
    /\ "exceeds" \notin d => Range(st) \subseteq DOMAIN table

(* The blocks are what is new in the table. *)
Updated(before, after, blocks) ==
    /\ DOMAIN after = DOMAIN before \cup DOMAIN blocks
    /\ \A n \in DOMAIN after : after[n] = IF n \in DOMAIN blocks THEN blocks[n] ELSE before[n]

Explains(r, before, after) ==
    IF ~r.ok THEN after = before
    ELSE CASE r.cmd.kind \in {"readAll", "names"} -> after = before /\ r.blocks = before
           [] r.cmd.kind = "read" -> after = before /\ Updated(before, after, r.blocks)
           [] r.cmd.kind = "display" -> after = before
           [] r.cmd.kind \in {"create", "rename", "discover", "legacy"} ->
                 Updated(before, after, r.blocks)
           [] r.cmd.kind \in {"restore", "rescan"} -> DOMAIN before \subseteq DOMAIN after
           [] r.cmd.kind = "delete" -> after = Only(before, Nids \ {r.cmd.nid})
           [] OTHER -> TRUE

(* The tables before each response, and the one the controller has now. *)
IsHistory(T) ==
    /\ T \in [1..(Len(responses) + 1) -> NameTables]
    /\ T[Len(responses) + 1] = names
    /\ Agrees(T[1], store, doubt)
    /\ \A i \in DOMAIN responses : Explains(responses[i], T[i], T[i + 1])

StoreExplained == \E T : IsHistory(T)

(* Without a connection nothing is on its way, and nothing is known. *)
NothingUnlinked ==
    ~link => requests = <<>> /\ responses = <<>> /\ doubt = {"lacks", "exceeds"}

StoreInv == BackupInv /\ NothingUnlinked /\ StoreExplained

LEMMA OnlyIs ==
    ASSUME NEW table, NEW nids
    PROVE  /\ DOMAIN Only(table, nids) = DOMAIN table \cap nids
           /\ \A n \in DOMAIN table \cap nids : Only(table, nids)[n] = table[n]
  BY DEF Only, Restrict

(* What a Put adds, what it leaves, and what it does not invent. *)
LEMMA PutIs ==
    ASSUME NEW st, NEW blocks \in NameTables
    PROVE  /\ \A n \in DOMAIN blocks :
                blocks[n] \in DOMAIN Put(st, blocks) /\ Put(st, blocks)[blocks[n]] = n
           /\ \A s \in DOMAIN st :
                s \notin Range(blocks) /\ st[s] \notin DOMAIN blocks =>
                  s \in DOMAIN Put(st, blocks) /\ Put(st, blocks)[s] = st[s]
           /\ Range(Put(st, blocks)) \subseteq Range(st) \cup DOMAIN blocks
  <1> DEFINE kept == {s \in DOMAIN st : s \notin Range(blocks) /\ st[s] \notin DOMAIN blocks}
             nidOf(s) == CHOOSE n \in DOMAIN blocks : blocks[n] = s
             put == Put(st, blocks)
  <1>1. \A s \in Range(blocks) : nidOf(s) \in DOMAIN blocks /\ blocks[nidOf(s)] = s
    BY DEF Range
  <1>2. put = [s \in kept \cup Range(blocks) |-> IF s \in kept THEN st[s] ELSE nidOf(s)]
    BY DEF Put
  <1>3. /\ DOMAIN put = kept \cup Range(blocks)
        /\ \A s \in kept : put[s] = st[s]
        /\ \A s \in Range(blocks) : s \notin kept /\ put[s] = nidOf(s)
    BY <1>2
  <1> HIDE DEF put, nidOf
  <1>4. ASSUME NEW n \in DOMAIN blocks
        PROVE  blocks[n] \in DOMAIN put /\ put[blocks[n]] = n
    <2>1. blocks[n] \in Range(blocks)
      BY DEF Range
    <2>2. Injective(blocks)
      BY TableIs
    <2> QED
      BY <1>1, <1>3, <2>1, <2>2 DEF Injective
  <1>5. Range(put) \subseteq Range(st) \cup DOMAIN blocks
    <2> SUFFICES ASSUME NEW s \in DOMAIN put
                 PROVE  put[s] \in Range(st) \cup DOMAIN blocks
      BY DEF Range
    <2>1. CASE s \in kept
      BY <1>3, <2>1 DEF Range
    <2>2. CASE s \in Range(blocks)
      BY <1>1, <1>3, <2>2
    <2> QED
      BY <1>3, <2>1, <2>2
  <1> QED
    BY <1>3, <1>4, <1>5 DEF put

(* Putting what is new in the table keeps the store in agreement with it. *)
LEMMA PutAgrees ==
    ASSUME NEW before \in NameTables, NEW after \in NameTables, NEW blocks \in NameTables,
           NEW st, NEW d, Agrees(before, st, d), Updated(before, after, blocks)
    PROVE  Agrees(after, Put(st, blocks), d)
  <1>1. ASSUME "lacks" \notin d, NEW n \in DOMAIN after
        PROVE  after[n] \in DOMAIN Put(st, blocks) /\ Put(st, blocks)[after[n]] = n
    <2>1. CASE n \in DOMAIN blocks
      <3>1. after[n] = blocks[n]
        BY <2>1 DEF Updated
      <3> QED
        BY <2>1, <3>1, PutIs
    <2>2. CASE n \notin DOMAIN blocks
      <3>1. n \in DOMAIN before /\ after[n] = before[n]
        BY <1>1, <2>2 DEF Updated
      <3>2. after[n] \in DOMAIN st /\ st[after[n]] = n
        BY <1>1, <3>1 DEF Agrees
      <3>3. after[n] \notin Range(blocks)
        <4> SUFFICES ASSUME NEW m \in DOMAIN blocks, blocks[m] = after[n]
                     PROVE  FALSE
          BY DEF Range
        <4>1. m \in DOMAIN after /\ after[m] = after[n]
          BY DEF Updated
        <4>2. Injective(after)
          BY TableIs
        <4> QED
          BY <2>2, <4>1, <4>2 DEF Injective
      <3> QED
        BY <2>2, <3>2, <3>3, PutIs
    <2> QED
      BY <2>1, <2>2
  <1>2. ASSUME "exceeds" \notin d
        PROVE  Range(Put(st, blocks)) \subseteq DOMAIN after
    <2>1. Range(Put(st, blocks)) \subseteq Range(st) \cup DOMAIN blocks
      BY PutIs
    <2> QED
      BY <1>2, <2>1 DEF Agrees, Updated
  <1> QED
    BY <1>1, <1>2 DEF Agrees

(* After a read of all names the store lacks none, whatever it lacked, and   *)
(* after a load it has no other.                                             *)
LEMMA ReadAgrees ==
    ASSUME NEW table \in NameTables, NEW st, NEW d, Agrees(table, st, d)
    PROVE  /\ Agrees(table, Put(st, table), d \ {"lacks"})
           /\ Agrees(table, Put(NoEntries, table), {})
  <1>1. \A x : /\ \A n \in DOMAIN table :
                    table[n] \in DOMAIN Put(x, table) /\ Put(x, table)[table[n]] = n
               /\ Range(Put(x, table)) \subseteq Range(x) \cup DOMAIN table
    BY PutIs
  <1>2. Range(NoEntries) = {}
    BY DEF Range, NoEntries
  <1> QED
    BY <1>1, <1>2 DEF Agrees

LEMMA WithoutAgrees ==
    ASSUME NEW table \in NameTables, NEW st, NEW d, NEW nid, Agrees(table, st, d)
    PROVE  Agrees(Only(table, Nids \ {nid}), Without(st, nid), d)
  <1>1. /\ DOMAIN Only(table, Nids \ {nid}) = DOMAIN table \cap (Nids \ {nid})
        /\ \A n \in DOMAIN table \cap (Nids \ {nid}) : Only(table, Nids \ {nid})[n] = table[n]
    BY OnlyIs
  <1>2. /\ DOMAIN Without(st, nid) = {s \in DOMAIN st : st[s] # nid}
        /\ \A s \in DOMAIN Without(st, nid) : Without(st, nid)[s] = st[s]
    BY DEF Without, Restrict
  <1>3. DOMAIN table \subseteq Nids
    BY TableIs
  <1> HIDE DEF Only, Without
  <1> QED
    BY <1>1, <1>2, <1>3 DEF Agrees, Range

(* A response that has the commands of its task: the table after it is what  *)
(* the store agrees with when the task has taken it ...                      *)
LEMMA AnswerAgrees ==
    ASSUME TypeOK, NEW t \in Tasks, NEW r \in Responses, r.ok, call[t].cmd = r.cmd,
           NEW before \in NameTables, NEW after \in NameTables,
           Agrees(before, store, doubt), Explains(r, before, after),
           \/ Notes(t, r.blocks) \/ Forgets(t) \/ Loads(t, r.blocks) \/ Populates(t) \/ Ignores(t)
    PROVE  Agrees(after, store', doubt')
  <1>1. r.blocks \in NameTables
    BY DEF Responses
  <1>2. CASE Notes(t, r.blocks)
    <2>1. CASE r.cmd.kind = "clear"
      BY <1>2, <2>1 DEF Notes, Agrees
    <2>2. CASE r.cmd.kind = "readAll"
      <3>1. after = before /\ r.blocks = before
        BY <2>2 DEF Explains
      <3> QED
        BY <1>2, <2>2, <3>1, ReadAgrees DEF Notes
    <2>3. CASE r.cmd.kind \in {"read", "create", "rename", "discover", "legacy"}
      <3>1. Updated(before, after, r.blocks)
        BY <2>3 DEF Explains
      <3>2. store' = Put(store, r.blocks) /\ doubt' = doubt
        BY <1>2, <2>3 DEF Notes
      <3> QED
        BY <1>1, <3>1, <3>2, PutAgrees
    <2> QED
      BY <1>2, <2>1, <2>2, <2>3 DEF Notes
  <1>3. CASE Forgets(t)
    <2>1. r.cmd.kind = "delete"
      BY <1>3 DEF Forgets
    <2>2. after = Only(before, Nids \ {r.cmd.nid})
      BY <2>1 DEF Explains
    <2> QED
      BY <1>3, <2>2, WithoutAgrees DEF Forgets
  <1>4. CASE Loads(t, r.blocks)
    <2>1. r.cmd.kind = "names"
      BY <1>4 DEF Loads
    <2>2. after = before /\ r.blocks = before
      BY <2>1 DEF Explains
    <2> QED
      BY <1>4, <2>2, ReadAgrees DEF Loads
  <1>5. CASE Populates(t)
    <2>1. r.cmd.kind = "display"
      BY <1>5 DEF Populates
    <2>2. after = before
      BY <2>1 DEF Explains
    <2>3. CASE doubt' = {"lacks", "exceeds"}
      BY <2>3 DEF Agrees
    <2> QED
      BY <1>5, <2>2, <2>3 DEF Populates
  <1>6. CASE Ignores(t)
    <2>1. r.cmd.kind \in {"restore", "rescan"}
      BY <1>6 DEF Ignores
    <2>2. DOMAIN before \subseteq DOMAIN after
      BY <2>1 DEF Explains
    <2> QED
      BY <1>6, <2>2 DEF Ignores, Agrees
  <1> QED
    BY <1>2, <1>3, <1>4, <1>5, <1>6

(* ... or when it was not heard, or a refusal.                               *)
LEMMA UnheardAgrees ==
    ASSUME NEW r \in Responses, NEW before \in NameTables, NEW after \in NameTables,
           Agrees(before, store, doubt), Explains(r, before, after)
    PROVE  /\ Agrees(after, store, doubt \cup Missed(r))
           /\ ~r.ok => Agrees(after, store, doubt)
  <1>0. r.cmd.kind \in Kinds
    BY DEF Responses, Commands
  <1>1. CASE ~r.ok
    BY <1>1 DEF Explains, Agrees, Missed
  <1>2. CASE r.ok /\ r.cmd.kind \in {"read", "readAll", "names", "display"}
    <2>1. after = before
      BY <1>2 DEF Explains
    <2> QED
      BY <1>2, <2>1 DEF Missed, Agrees
  <1>3. CASE r.ok /\ r.cmd.kind = "delete"
    <2>1. after = Only(before, Nids \ {r.cmd.nid}) /\ Missed(r) = {"exceeds"}
      BY <1>3 DEF Explains, Missed
    <2>2. /\ DOMAIN Only(before, Nids \ {r.cmd.nid}) = DOMAIN before \cap (Nids \ {r.cmd.nid})
          /\ \A n \in DOMAIN before \cap (Nids \ {r.cmd.nid}) :
                Only(before, Nids \ {r.cmd.nid})[n] = before[n]
      BY OnlyIs
    <2>3. \A n \in DOMAIN after : n \in DOMAIN before /\ after[n] = before[n]
      BY <2>1, <2>2
    <2> QED
      BY <1>3, <2>1, <2>3 DEF Agrees
  <1>4. CASE r.ok /\ r.cmd.kind = "clear"
    <2>1. Missed(r) = {"lacks", "exceeds"}
      BY <1>4 DEF Missed
    <2> QED
      BY <1>4, <2>1 DEF Agrees
  <1>5. CASE r.ok /\ r.cmd.kind \in {"create", "rename", "discover", "legacy", "restore", "rescan"}
    <2>1. Missed(r) = {"lacks"}
      BY <1>5 DEF Missed
    <2>2. DOMAIN before \subseteq DOMAIN after
      BY <1>5 DEF Explains, Updated
    <2> QED
      BY <1>5, <2>1, <2>2 DEF Agrees
  <1> QED
    BY <1>0, <1>1, <1>2, <1>3, <1>4, <1>5 DEF Kinds

(* The first response is gone: the tables begin with the one after it.       *)
LEMMA HeadExplained ==
    ASSUME TypeOK, StoreExplained, responses # <<>>, responses' = Tail(responses), names' = names,
           \A before, after \in NameTables :
               Agrees(before, store, doubt) /\ Explains(Head(responses), before, after)
                 => Agrees(after, store', doubt')
    PROVE  StoreExplained'
  <1>1. PICK T : IsHistory(T)
    BY DEF StoreExplained
  <1>2. responses \in Seq(Responses)
    BY DEF TypeOK, Responses
  <1>3. /\ Len(responses) \in Nat /\ Len(responses) >= 1
        /\ Len(responses') = Len(responses) - 1
        /\ DOMAIN responses = 1..Len(responses)
        /\ DOMAIN responses' = 1..(Len(responses) - 1)
        /\ \A i \in 1..(Len(responses) - 1) : responses'[i] = responses[i + 1]
        /\ Head(responses) = responses[1]
    BY <1>2
  <1> DEFINE n == Len(responses)
             later == [i \in 1..n |-> T[i + 1]]
  <1>4. /\ T \in [1..(n + 1) -> NameTables]
        /\ T[n + 1] = names
        /\ Agrees(T[1], store, doubt)
        /\ \A i \in 1..n : Explains(responses[i], T[i], T[i + 1])
    BY <1>1, <1>3 DEF IsHistory
  <1>5. later \in [1..(Len(responses') + 1) -> NameTables]
    BY <1>3, <1>4
  <1>6. later[Len(responses') + 1] = names'
    BY <1>3, <1>4
  <1>7. Agrees(later[1], store', doubt')
    <2>1. T[1] \in NameTables /\ T[2] \in NameTables /\ Explains(Head(responses), T[1], T[2])
      BY <1>3, <1>4
    <2>2. later[1] = T[2]
      BY <1>3
    <2> QED
      BY <1>4, <2>1, <2>2
  <1>8. \A i \in DOMAIN responses' : Explains(responses'[i], later[i], later[i + 1])
    BY <1>3, <1>4
  <1> HIDE DEF later
  <1> QED
    BY <1>5, <1>6, <1>7, <1>8 DEF StoreExplained, IsHistory, Agrees

(* A response is added: the tables go on with the one it leads to.           *)
LEMMA LastExplained ==
    ASSUME TypeOK, StoreExplained, NEW r \in Responses, responses' = Append(responses, r),
           names' \in NameTables, Explains(r, names, names'), UNCHANGED <<store, doubt>>
    PROVE  StoreExplained'
  <1>1. PICK T : IsHistory(T)
    BY DEF StoreExplained
  <1>2. responses \in Seq(Responses)
    BY DEF TypeOK, Responses
  <1> DEFINE n == Len(responses)
             longer == [i \in 1..(n + 2) |-> IF i = n + 2 THEN names' ELSE T[i]]
  <1>3. /\ n \in Nat
        /\ Len(responses') = n + 1
        /\ DOMAIN responses = 1..n
        /\ DOMAIN responses' = 1..(n + 1)
        /\ \A i \in 1..n : responses'[i] = responses[i]
        /\ responses'[n + 1] = r
    BY <1>2
  <1>4. /\ T \in [1..(n + 1) -> NameTables]
        /\ T[n + 1] = names
        /\ Agrees(T[1], store, doubt)
        /\ \A i \in 1..n : Explains(responses[i], T[i], T[i + 1])
    BY <1>1, <1>3 DEF IsHistory
  <1>5. longer \in [1..(Len(responses') + 1) -> NameTables]
    BY <1>3, <1>4
  <1>6. longer[Len(responses') + 1] = names'
    BY <1>3
  <1>7. longer[1] = T[1]
    BY <1>3
  <1>8. ASSUME NEW i \in 1..(n + 1)
        PROVE  Explains(responses'[i], longer[i], longer[i + 1])
    <2>1. CASE i \in 1..n
      BY <1>3, <1>4, <2>1
    <2>2. CASE i = n + 1
      <3>1. longer[i] = names /\ longer[i + 1] = names' /\ responses'[i] = r
        BY <1>3, <1>4, <2>2
      <3> QED
        BY <3>1
    <2> QED
      BY <1>3, <2>1, <2>2
  <1> HIDE DEF longer
  <1> QED
    BY <1>3, <1>4, <1>5, <1>6, <1>7, <1>8 DEF StoreExplained, IsHistory, Agrees

(* Nothing that the tables are about changes.                                *)
LEMMA SameExplained ==
    ASSUME StoreExplained, UNCHANGED <<names, store, doubt>>,
           Len(responses') = Len(responses), DOMAIN responses' = DOMAIN responses,
           \A i \in DOMAIN responses :
               /\ responses'[i].ok = responses[i].ok
               /\ responses'[i].cmd = responses[i].cmd
               /\ responses'[i].blocks = responses[i].blocks
    PROVE  StoreExplained'
  <1>1. PICK T : IsHistory(T)
    BY DEF StoreExplained
  <1>2. \A i \in DOMAIN responses' : Explains(responses'[i], T[i], T[i + 1])
    BY <1>1 DEF IsHistory, Explains
  <1> QED
    BY <1>1, <1>2 DEF StoreExplained, IsHistory, Agrees

(* A block that is new or has another name is what is new in the table.      *)
LEMMA NamedUpdates ==
    ASSUME NEW nid, NEW sid, names' = NamedAs(nid, sid)
    PROVE  /\ Updated(names, names', Only(names', {nid}))
           /\ DOMAIN names \subseteq DOMAIN names'
  <1>1. /\ DOMAIN names' = DOMAIN names \cup {nid}
        /\ \A n \in DOMAIN names' : n # nid => names'[n] = names[n]
    BY DEF NamedAs
  <1>2. /\ DOMAIN Only(names', {nid}) = DOMAIN names' \cap {nid}
        /\ \A n \in DOMAIN names' \cap {nid} : Only(names', {nid})[n] = names'[n]
    BY OnlyIs
  <1> QED
    BY <1>1, <1>2 DEF Updated

LEMMA SameUpdates ==
    ASSUME NEW table, NEW nids
    PROVE  Updated(table, table, NoNames) /\ Updated(table, table, Only(table, nids))
  <1>1. DOMAIN NoNames = {}
    BY DEF NoNames
  <1>2. /\ DOMAIN Only(table, nids) = DOMAIN table \cap nids
        /\ \A n \in DOMAIN table \cap nids : Only(table, nids)[n] = table[n]
    BY OnlyIs
  <1> QED
    BY <1>1, <1>2 DEF Updated

LEMMA HandlesExplained ==
    ASSUME TypeOK, StoreExplained, Handles, TypeOK'
    PROVE  StoreExplained'
  <1>1. requests \in Seq(Requests) /\ requests # <<>>
    BY DEF TypeOK, Requests, Handles
  <1>2. PICK r \in Requests :
          Reads(r) \/ Creates(r) \/ Deletes(r) \/ Renames(r) \/ Clears(r) \/ Discovers(r)
    BY <1>1, HeadAndTail DEF Handles
  <1>3. names \in NameTables /\ names' \in NameTables
    BY DEF TypeOK
  <1>4. UNCHANGED <<store, doubt>>
    BY DEF Handles
  <1> DEFINE response(blocks) == [by |-> r.by, cmd |-> r.cmd, ok |-> TRUE, blocks |-> blocks]
  <1>5. ASSUME NEW blocks \in NameTables, Responds(r, TRUE, blocks),
               Explains(response(blocks), names, names')
        PROVE  StoreExplained'
    <2>1. response(blocks) \in Responses
      BY DEF Requests, Responses
    <2> QED
      BY <1>3, <1>4, <1>5, <2>1, LastExplained DEF Responds
  <1>6. \A nids : Only(names, nids) \in NameTables /\ Only(names', nids) \in NameTables
    BY <1>3, OnlyTable
  <1>7. /\ \A nids : Updated(names, names, Only(names, nids))
        /\ Updated(names, names, NoNames)
    BY SameUpdates
  <1>8. ASSUME NEW blocks
        PROVE  /\ response(blocks).ok /\ response(blocks).cmd = r.cmd
               /\ response(blocks).blocks = blocks
    OBVIOUS
  <1> HIDE DEF response
  <1>9. CASE Reads(r)
    <2>0. names' = names
      BY <1>9 DEF Reads
    <2>1. CASE r.cmd.kind \in {"readAll", "names"} /\ Responds(r, TRUE, names)
      <3>1. Explains(response(names), names, names')
        BY <1>8, <2>0, <2>1 DEF Explains
      <3> QED
        BY <1>3, <1>5, <2>1, <3>1
    <2>2. CASE r.cmd.kind = "display" /\ Responds(r, TRUE, NoNames)
      <3>1. Explains(response(NoNames), names, names')
        BY <1>8, <2>0, <2>2 DEF Explains
      <3> QED
        BY <1>5, <2>2, <3>1, NoNamesTable
    <2>3. CASE r.cmd.kind \in {"read", "restore"} /\ Responds(r, TRUE, Only(names, {r.cmd.nid}))
      <3>1. Explains(response(Only(names, {r.cmd.nid})), names, names')
        BY <1>7, <1>8, <2>0, <2>3 DEF Explains
      <3> QED
        BY <1>5, <1>6, <2>3, <3>1
    <2> QED
      BY <1>9, <2>1, <2>2, <2>3 DEF Reads
  <1>10. ASSUME NEW nid, NEW sid, names' = NamedAs(nid, sid), Responds(r, TRUE, Only(names', {nid})),
                r.cmd.kind \in {"create", "restore", "rename", "legacy", "discover", "rescan"}
         PROVE  StoreExplained'
    <2>1. /\ Updated(names, names', Only(names', {nid}))
          /\ DOMAIN names \subseteq DOMAIN names'
      BY <1>10, NamedUpdates
    <2>2. Explains(response(Only(names', {nid})), names, names')
      BY <1>8, <1>10, <2>1 DEF Explains
    <2> QED
      BY <1>5, <1>6, <1>10, <2>2
  <1>11. CASE Creates(r)
    BY <1>10, <1>11 DEF Creates
  <1>12. CASE Deletes(r)
    <2>1. Explains(response(NoNames), names, names')
      BY <1>8, <1>12 DEF Explains, Deletes
    <2> QED
      BY <1>5, <1>12, <2>1, NoNamesTable DEF Deletes
  <1>13. CASE Renames(r)
    BY <1>10, <1>13 DEF Renames
  <1>14. CASE Clears(r)
    <2>1. Explains(response(Only(names, UserNids)), names, names')
      BY <1>8, <1>14 DEF Explains, Clears
    <2> QED
      BY <1>5, <1>6, <1>14, <2>1 DEF Clears
  <1>15. CASE Discovers(r)
    <2>1. CASE names' = names /\ Responds(r, TRUE, NoNames)
      <3>1. Explains(response(NoNames), names, names')
        BY <1>7, <1>8, <1>15, <2>1 DEF Explains, Discovers
      <3> QED
        BY <1>5, <2>1, <3>1, NoNamesTable
    <2> QED
      BY <1>10, <1>15, <2>1 DEF Discovers
  <1> QED
    BY <1>2, <1>9, <1>11, <1>12, <1>13, <1>14, <1>15

LEMMA RefusesExplained ==
    ASSUME TypeOK, StoreExplained, Refuses
    PROVE  StoreExplained'
  <1>1. requests \in Seq(Requests) /\ requests # <<>> /\ names' = names /\ names \in NameTables
    BY DEF TypeOK, Requests, Refuses
  <1>2. PICK r \in Requests : Responds(r, FALSE, NoNames)
    BY <1>1, HeadAndTail DEF Refuses
  <1> DEFINE response == [by |-> r.by, cmd |-> r.cmd, ok |-> FALSE, blocks |-> NoNames]
  <1>3. response \in Responses
    BY NoNamesTable DEF Requests, Responses
  <1>4. Explains(response, names, names')
    BY <1>1 DEF Explains
  <1> QED
    BY <1>1, <1>2, <1>3, <1>4, LastExplained DEF Responds, Refuses

(* Responses are taken from the front. *)
LEMMA AnsweredExplained ==
    ASSUME BackupInv, StoreExplained, NEW t \in Tasks, Answered(t) \/ Refused(t)
    PROVE  StoreExplained'
  <1>1. TypeOK /\ responses # <<>> /\ responses' = Tail(responses) /\ names' = names
    BY DEF BackupInv, Answered, Refused
  <1>2. responses \in Seq(Responses)
    BY <1>1 DEF TypeOK, Responses
  <1>3. Head(responses) \in Responses /\ Head(responses) = responses[1] /\ 1 \in DOMAIN responses
    BY <1>1, <1>2, HeadAndTail
  <1>4. CASE Answered(t)
    <2>1. Head(responses).by = t /\ Head(responses).ok
      BY <1>4 DEF Answered
    <2>2. call[t].cmd = Head(responses).cmd
      BY <1>3, <2>1 DEF BackupInv, Matched, Owned
    <2>3. \/ Notes(t, Head(responses).blocks) \/ Forgets(t) \/ Loads(t, Head(responses).blocks)
          \/ Populates(t) \/ Ignores(t)
      BY <1>4 DEF Answered
    <2> QED
      BY <1>1, <1>3, <2>1, <2>2, <2>3, AnswerAgrees, HeadExplained
  <1>5. CASE Refused(t)
    <2>1. ~Head(responses).ok /\ store' = store /\ doubt' = doubt
      BY <1>5 DEF Refused
    <2> QED
      BY <1>1, <1>3, <2>1, UnheardAgrees, HeadExplained
  <1> QED
    BY <1>4, <1>5

LEMMA UnheardExplained ==
    ASSUME TypeOK, StoreExplained, Unheard
    PROVE  StoreExplained'
  <1>1. /\ responses # <<>> /\ responses' = Tail(responses) /\ names' = names
        /\ store' = store /\ doubt' = doubt \cup Missed(Head(responses))
    BY DEF Unheard
  <1>2. responses \in Seq(Responses)
    BY DEF TypeOK, Responses
  <1>3. Head(responses) \in Responses
    BY <1>1, <1>2, HeadAndTail
  <1> QED
    BY <1>1, <1>3, UnheardAgrees, HeadExplained

(* With nothing on its way, and nothing known, anything agrees.              *)
NothingKnown == names \in NameTables /\ responses = <<>> /\ doubt = {"lacks", "exceeds"}

LEMMA NothingExplained == NothingKnown => StoreExplained
  <1> SUFFICES ASSUME NothingKnown PROVE StoreExplained
    OBVIOUS
  <1> USE DEF NothingKnown
  <1> DEFINE T == [i \in 1..1 |-> names]
  <1>1. Agrees(names, store, doubt)
    BY DEF Agrees
  <1>2. Len(responses) = 0 /\ DOMAIN responses = {}
    OBVIOUS
  <1>3. T \in [1..(Len(responses) + 1) -> NameTables] /\ T[1] = names
    BY <1>2
  <1> HIDE DEF T
  <1>4. IsHistory(T)
    BY <1>1, <1>2, <1>3 DEF IsHistory
  <1> QED
    BY <1>4 DEF StoreExplained

(* The tables, step by step. *)
LEMMA StoreExplainedStep ==
    ASSUME StoreInv, TypeOK', [Next]_vars
    PROVE  StoreExplained'
  <1>1. BackupInv /\ TypeOK /\ StoreExplained /\ NothingUnlinked /\ names \in NameTables
    BY DEF StoreInv, BackupInv, TypeOK
  <1>2. CASE UNCHANGED <<names, store, doubt, responses>>
    BY <1>1, <1>2, SameExplained
  <1>3. CASE UNCHANGED vars
    BY <1>2, <1>3 DEF vars
  <1>4. ASSUME NEW t \in Callers, Begins(t) \/ TakesLock(t)
        PROVE  StoreExplained'
    BY <1>2, <1>4 DEF Begins, TakesLock, CallBegins, RenameBegins, DiscoverBegins, BackupBegins,
                      DiscoverSends, BackupSends, BackupNotConnected
  <1>5. CASE SyncBegins
    BY <1>2, <1>5 DEF SyncBegins
  <1>6. ASSUME Disconnects
        PROVE  StoreExplained'
    <2>1. NothingKnown'
      BY <1>1, <1>6 DEF Disconnects, NothingKnown
    <2> QED
      BY <2>1, NothingExplained, PTL
  <1>7. CASE SyncResets
    BY <1>2, <1>6, <1>7 DEF SyncResets
  <1>8. ASSUME NEW t \in Tasks, Answered(t) \/ Refused(t)
        PROVE  StoreExplained'
    BY <1>1, <1>8, AnsweredExplained
  <1>9. ASSUME NEW t \in Tasks, LostTimesOut(t)
        PROVE  StoreExplained'
    BY <1>2, <1>9 DEF LostTimesOut
  <1>10. ASSUME NEW t \in Tasks, TimesOut(t)
         PROVE  StoreExplained'
    <2>1. UNCHANGED <<names, store, doubt>> /\ responses' = Abandoned(t, responses)
      BY <1>10 DEF TimesOut
    <2>2. responses \in Seq(Responses)
      BY <1>1 DEF TypeOK, Responses
    <2>3. DOMAIN responses' = DOMAIN responses /\ Len(responses') = Len(responses)
      BY <2>1, <2>2 DEF Abandoned
    <2>4. ASSUME NEW i \in DOMAIN responses
          PROVE  /\ responses'[i].ok = responses[i].ok
                 /\ responses'[i].cmd = responses[i].cmd
                 /\ responses'[i].blocks = responses[i].blocks
      <3>1. responses[i] \in Responses
        BY <2>2, Member
      <3>2. responses'[i] = IF responses[i].by = t THEN [responses[i] EXCEPT !.by = NoOne] ELSE responses[i]
        BY <2>1 DEF Abandoned
      <3> QED
        BY <3>1, <3>2 DEF Responses
    <2> QED
      BY <1>1, <2>1, <2>3, <2>4, SameExplained
  <1>11. CASE Handles
    BY <1>1, <1>11, HandlesExplained
  <1>12. CASE Refuses
    BY <1>1, <1>12, RefusesExplained
  <1>13. CASE Unheard
    BY <1>1, <1>13, UnheardExplained
  <1>14. CASE Dropped
    BY <1>6, <1>14 DEF Dropped
  <1>15. CASE Connects
    <2>1. NothingKnown'
      BY <1>1, <1>15 DEF Connects, NothingUnlinked, TypeOK, NothingKnown
    <2> QED
      BY <2>1, NothingExplained, PTL
  <1> QED
    BY <1>3, <1>4, <1>5, <1>7, <1>8, <1>9, <1>10, <1>11, <1>12, <1>13, <1>14, <1>15 DEF Next

LEMMA SendsUnlinked ==
    ASSUME NEW t, NEW op, NEW commands, Sends(t, op, commands), ~link
    PROVE  requests' = requests
  BY DEF Sends

LEMMA FailsUnlinked ==
    ASSUME NEW t, Fails(t) \/ GoesOn(t), ~link
    PROVE  requests' = requests
  BY SendsUnlinked DEF Fails, GoesOn

LEMMA UnlinkedStep ==
    ASSUME NothingUnlinked, [Next]_vars
    PROVE  NothingUnlinked'
  <1> SUFFICES ASSUME ~link'
               PROVE  requests' = <<>> /\ responses' = <<>> /\ doubt' = {"lacks", "exceeds"}
    BY DEF NothingUnlinked
  <1>1. CASE Disconnects
    BY <1>1 DEF Disconnects
  <1>2. CASE link /\ ~Disconnects
    BY <1>2 DEF Next, vars, Begins, TakesLock, CallBegins, RenameBegins, DiscoverBegins,
                BackupBegins, DiscoverSends, BackupSends, BackupNotConnected, SyncBegins, SyncResets,
                Answered, Refused, LostTimesOut, TimesOut, Handles, Refuses, Unheard, Dropped, Connects
  <1>3. CASE ~link
    <2>1. requests = <<>> /\ responses = <<>> /\ doubt = {"lacks", "exceeds"}
      BY <1>3 DEF NothingUnlinked
    <2>2. CASE UNCHANGED vars
      BY <2>1, <2>2 DEF vars
    <2>3. ASSUME NEW t \in Callers, Begins(t) \/ TakesLock(t)
          PROVE  requests' = requests /\ responses' = responses /\ doubt' = doubt
      BY <1>3, <2>3, SendsUnlinked
         DEF Begins, TakesLock, CallBegins, RenameBegins, DiscoverBegins, BackupBegins,
             DiscoverSends, BackupSends, BackupNotConnected
    <2>4. CASE SyncBegins \/ SyncResets \/ Dropped \/ Connects
      BY <1>1, <1>3, <2>1, <2>4 DEF SyncBegins, SyncResets, Dropped, Connects, Disconnects
    <2>5. ASSUME NEW t \in Tasks, Answered(t) \/ Refused(t) \/ TimesOut(t) \/ LostTimesOut(t)
          PROVE  requests' = <<>> /\ responses' = <<>> /\ doubt' = {"lacks", "exceeds"}
      <3>1. ~Answered(t) /\ ~Refused(t)
        BY <2>1 DEF Answered, Refused
      <3>2. CASE TimesOut(t)
        <4>1. \A q : DOMAIN q = {} => Abandoned(t, q) = [i \in {} |-> q[i]]
          BY DEF Abandoned
        <4>2. DOMAIN requests = {} /\ DOMAIN responses = {}
          BY <2>1
        <4>3. \A q : DOMAIN q = {} => Abandoned(t, q) = <<>>
          BY <4>1
        <4> QED
          BY <2>1, <3>2, <4>2, <4>3 DEF TimesOut
      <3>3. CASE LostTimesOut(t)
        BY <1>3, <2>1, <3>3, FailsUnlinked DEF LostTimesOut
      <3> QED
        BY <2>5, <3>1, <3>2, <3>3
    <2>6. CASE Handles \/ Refuses \/ Unheard
      BY <2>1, <2>6 DEF Handles, Refuses, Unheard
    <2> QED
      BY <2>1, <2>2, <2>3, <2>4, <2>5, <2>6 DEF Next
  <1> QED
    BY <1>1, <1>2, <1>3

(* The store is at every moment what the controller's names were before the  *)
(* commands that are still to be answered, up to what was missed: through    *)
(* overlapping calls, timeouts, refusals and lost connections.               *)
THEOREM StoreInvariant == Spec => []StoreInv
  <1>1. Init => NothingUnlinked /\ StoreExplained
    <2> SUFFICES ASSUME Init PROVE NothingUnlinked /\ StoreExplained
      OBVIOUS
    <2> QED
      BY SystemNamesTable, NothingExplained DEF Init, NothingUnlinked, NothingKnown
  <1>2. BackupInv /\ BackupInv' /\ NothingUnlinked /\ StoreExplained /\ [Next]_vars
          => (NothingUnlinked /\ StoreExplained)'
    <2>1. BackupInv' => TypeOK'
      BY DEF BackupInv
    <2> QED
      BY <2>1, StoreExplainedStep, UnlinkedStep DEF StoreInv
  <1> QED
    BY <1>1, <1>2, BackupInvariant, PTL DEF Spec, StoreInv

LEMMA NothingPending ==
    ASSUME StoreExplained, responses = <<>>
    PROVE  Agrees(names, store, doubt)
  <1>1. PICK T : IsHistory(T)
    BY DEF StoreExplained
  <1>2. Len(responses) + 1 = 1
    OBVIOUS
  <1> QED
    BY <1>1, <1>2 DEF IsHistory

(* The block store (datastore_blocks.py) follows the controller: when all    *)
(* responses were taken it lacks no name and has none too many, but for what *)
(* calls that failed or were not heard have left behind.                     *)
THEOREM StoreFollows == Spec => []StoreFollowsController
  <1>1. StoreInv => StoreFollowsController
    BY NothingPending DEF StoreInv, StoreFollowsController, Agrees
  <1> QED
    BY <1>1, StoreInvariant, PTL

(* Nothing missed: the store has exactly the names of the controller, each   *)
(* for its block.                                                            *)
StoreExact ==
    responses = <<>> /\ doubt = {} =>
        /\ DOMAIN store = Range(names)
        /\ \A n \in DOMAIN names : store[names[n]] = n

(* load_block_names() makes the store exact, and every call that is heard to *)
(* the end, and fails in none of its commands, leaves it exact.              *)
THEOREM StoreIsExact == Spec => []StoreExact
  <1>1. StoreInv => StoreExact
    <2> SUFFICES ASSUME StoreInv, responses = <<>>, doubt = {}
                 PROVE  /\ DOMAIN store = Range(names)
                        /\ \A n \in DOMAIN names : store[names[n]] = n
      BY DEF StoreExact
    <2>1. /\ \A n \in DOMAIN names : names[n] \in DOMAIN store /\ store[names[n]] = n
          /\ Range(store) \subseteq DOMAIN names
      BY NothingPending DEF StoreInv, Agrees
    <2>2. ASSUME NEW s \in DOMAIN store
          PROVE  s \in Range(names)
      <3>1. store[s] \in DOMAIN names
        BY <2>1 DEF Range
      <3>2. store[names[store[s]]] = store[s] /\ names[store[s]] \in DOMAIN store
        BY <2>1, <3>1
      <3>3. names[store[s]] = s
        BY <3>2 DEF StoreInv, BackupInv, TypeOK, Injective
      <3> QED
        BY <3>1, <3>3 DEF Range
    <2>3. Range(names) \subseteq DOMAIN store
      BY <2>1 DEF Range
    <2> QED
      BY <2>1, <2>2, <2>3
  <1> QED
    BY <1>1, StoreInvariant, PTL
=============================================================================
