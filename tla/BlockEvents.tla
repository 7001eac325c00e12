---------------------------- MODULE BlockEvents ----------------------------
(***************************************************************************)
(* What listeners on the event bus are shown of the blocks: the retained   *)
(* state event of Broadcaster.run(), and the patch events that the HTTP    *)
(* endpoints publish when their calls return.  Calls over MQTT, time sync  *)
(* and restored backups publish nothing.                                   *)
(*                                                                         *)
(* A block is its version: every change of it has a new one.  The          *)
(* controller handles commands in the order they were sent, and answers    *)
(* arrive in that order.  A listener (external) replaces its blocks when a *)
(* state event comes and merges patches; the bus keeps the order.          *)
(***************************************************************************)
EXTENDS Naturals, Sequences

CONSTANTS
    Blocks,
    Callers,        \* tasks that call the API
    Broadcaster,    \* the task of Broadcaster.repeat()
    Programs,       \* the calls: their commands, and whether they publish
    MaxChanges,     \* bound: changes of blocks
    MaxDisturbed    \* bound: commands that fail, and connections lost

Commands == [op: {"put", "delete", "read"}, block: Blocks]

ASSUME EventsAssumption ==
    /\ Broadcaster \notin Callers
    /\ Programs \subseteq [commands: Seq(Commands) \ {<<>>}, publishes: BOOLEAN]
    /\ MaxChanges \in Nat /\ MaxDisturbed \in Nat

VARIABLES
    blocks,         \* the blocks of the controller
    isSynchronized, \* state.is_synchronized()
    commands,       \* sent to the controller
    answers,        \* of the controller, on their way back
    running,        \* what each task executes
    retained,       \* the last state event
    view,           \* what a listener shows
    changes,
    disturbed

eventVars == <<blocks, isSynchronized, commands, answers, running, retained, view, changes, disturbed>>

Tasks == Callers \cup {Broadcaster}
BlockStates == [version: 0..MaxChanges, there: BOOLEAN]
Images == [Blocks -> BlockStates]
Nothing == [b \in Blocks |-> [version |-> 0, there |-> FALSE]]
ReadAll == [op |-> "readAll"]
Idle == [at |-> "idle"]

(* What a task executes: its commands from the one that it waits for, and    *)
(* what the earlier ones have returned                                       *)
Executing(command, result) ==
    [at: {"sent", "failed"}, todo: Seq(command) \ {<<>>}, got: Seq(result), publishes: BOOLEAN]

(* A task that waits has one command or one answer on the way, others none. *)
TasksOf(s) == {s[i].by : i \in DOMAIN s}
OneOnItsWay ==
    /\ \A t \in Tasks : running[t].at = "sent" <=> t \in TasksOf(commands) \cup TasksOf(answers)
    /\ TasksOf(commands) \cap TasksOf(answers) = {}
    /\ \A i, j \in DOMAIN commands : commands[i].by = commands[j].by => i = j
    /\ \A i, j \in DOMAIN answers : answers[i].by = answers[j].by => i = j

EventsTypeOK ==
    /\ {blocks, retained, view} \subseteq Images
    /\ isSynchronized \in BOOLEAN
    /\ commands \in Seq([by: Tasks, cmd: Commands \cup {ReadAll}])
    /\ answers \in Seq([by: Tasks, blocks: Images])
    /\ DOMAIN running = Tasks
    /\ running[Broadcaster] \in {Idle} \cup Executing({ReadAll}, Images)
    /\ \A c \in Callers : running[c] \in {Idle} \cup Executing(Commands, [block: Blocks, state: BlockStates])
    /\ changes \in 0..MaxChanges /\ disturbed \in 0..MaxDisturbed
    /\ OneOnItsWay

EventsInit ==
    /\ blocks = Nothing /\ retained = Nothing /\ view = Nothing
    /\ isSynchronized = FALSE
    /\ commands = <<>> /\ answers = <<>>
    /\ running = [t \in Tasks |-> Idle]
    /\ changes = 0 /\ disturbed = 0

-----------------------------------------------------------------------------
(* Task t sends the first of its commands; got are the answers so far. *)
Sends(t, todo, got, publishes) ==
    /\ running' = [running EXCEPT ![t] = [at |-> "sent", todo |-> todo, got |-> got, publishes |-> publishes]]
    /\ commands' = Append(commands, [by |-> t, cmd |-> Head(todo)])

(* An endpoint of http_blocks.py or mqtt_blocks.py, TimeSync.run() or        *)
(* apply_backup() sends its first command.                                   *)
CallStarts(c, p) ==
    /\ running[c] = Idle /\ c \in Callers
    /\ isSynchronized
    /\ Sends(c, p.commands, <<>>, p.publishes)
    /\ UNCHANGED <<blocks, isSynchronized, answers, retained, view, changes, disturbed>>

(* Broadcaster.run(): read_all_blocks(), then read_all_logged_blocks() *)
BroadcastStarts ==
    /\ running[Broadcaster] = Idle
    /\ isSynchronized
    /\ Sends(Broadcaster, <<ReadAll, ReadAll>>, <<>>, TRUE)
    /\ UNCHANGED <<blocks, isSynchronized, answers, retained, view, changes, disturbed>>

(* publish() of http_blocks.py, once when the last command has returned. *)
Publish(c, got) ==
    IF running[c].publishes
    THEN view' = [b \in Blocks |->
            LET about == {i \in DOMAIN got : got[i].block = b}
            IN  IF about = {} THEN view[b] ELSE got[CHOOSE i \in about : \A j \in about : j <= i].state]
    ELSE UNCHANGED view

(* The state event, with the blocks of the first command. *)
MutantNotOnFailure(image) ==
    IF image = Nothing THEN UNCHANGED <<retained, view>> ELSE retained' = image /\ view' = image
PublishState(image) ==
    /\ retained' = image
    /\ view' = image

IsAnswered(t) == answers # <<>> /\ Head(answers).by = t /\ running[t].at = "sent"

CallContinues(c) ==
    /\ IsAnswered(c)
    /\ answers' = Tail(answers)
    /\ LET cmd == Head(running[c].todo)
           rest == Tail(running[c].todo)
           got == Append(running[c].got, [block |-> cmd.block, state |-> Head(answers).blocks[cmd.block]])
       IN  IF rest # <<>>
           THEN Sends(c, rest, got, running[c].publishes) /\ UNCHANGED view
           ELSE Publish(c, got) /\ running' = [running EXCEPT ![c] = Idle] /\ UNCHANGED commands
    /\ UNCHANGED <<blocks, isSynchronized, retained, changes, disturbed>>

BroadcastContinues ==
    /\ IsAnswered(Broadcaster)
    /\ answers' = Tail(answers)
    /\ LET got == Append(running[Broadcaster].got, Head(answers).blocks)
       IN  IF Len(got) = 1
           THEN Sends(Broadcaster, <<ReadAll>>, got, TRUE) /\ UNCHANGED <<retained, view>>
           ELSE /\ PublishState(got[1])
                /\ running' = [running EXCEPT ![Broadcaster] = Idle]
                /\ UNCHANGED commands
    /\ UNCHANGED <<blocks, isSynchronized, changes, disturbed>>

(* A command raised: a call publishes nothing of what it has done already,   *)
(* the broadcaster the blocks it has read, or none (finally).                *)
CallFails(c) ==
    /\ c \in Callers /\ running[c].at = "failed"
    /\ running' = [running EXCEPT ![c] = Idle]
    /\ UNCHANGED <<blocks, isSynchronized, commands, answers, retained, view, changes, disturbed>>

BroadcastFails ==
    /\ \/ running[Broadcaster].at = "failed"
       \/ running[Broadcaster] = Idle /\ ~isSynchronized
    /\ LET got == IF running[Broadcaster] = Idle THEN <<>> ELSE running[Broadcaster].got
       IN  PublishState(IF got = <<>> THEN Nothing ELSE got[1])
    /\ running' = [running EXCEPT ![Broadcaster] = Idle]
    /\ UNCHANGED <<blocks, isSynchronized, commands, answers, changes, disturbed>>

-----------------------------------------------------------------------------
(* The controller handles a command and answers with all its blocks, of      *)
(* which the task takes what it asked for.                                   *)
Apply(cmd) ==
    \/ /\ cmd.op \in {"put", "delete"}
       /\ changes < MaxChanges
       /\ changes' = changes + 1
       /\ blocks' = [blocks EXCEPT ![cmd.block] = [version |-> changes', there |-> cmd.op = "put"]]
    \/ /\ cmd.op \in {"read", "readAll"}
       /\ UNCHANGED <<blocks, changes>>

ControllerAnswers ==
    /\ commands # <<>>
    /\ Apply(Head(commands).cmd)
    /\ commands' = Tail(commands)
    /\ answers' = Append(answers, [by |-> Head(commands).by, blocks |-> blocks'])
    /\ UNCHANGED <<isSynchronized, running, retained, view, disturbed>>

WithoutTask(s, t) ==
    LET kept[n \in 0..Len(s)] ==
            IF n = 0 THEN <<>> ELSE IF s[n].by = t THEN kept[n - 1] ELSE Append(kept[n - 1], s[n])
    IN  kept[Len(s)]

(* The command of t is refused, or times out: before or after it is handled. *)
CommandFails(t) ==
    /\ running[t].at = "sent"
    /\ disturbed < MaxDisturbed
    /\ disturbed' = disturbed + 1
    /\ running' = [running EXCEPT ![t].at = "failed"]
    /\ commands' = WithoutTask(commands, t)
    /\ answers' = WithoutTask(answers, t)
    /\ UNCHANGED <<blocks, isSynchronized, retained, view, changes>>

(* No more changes fit into the bound: the command is not handled. *)
OutOfBound ==
    /\ commands # <<>>
    /\ Head(commands).cmd.op \in {"put", "delete"} /\ changes = MaxChanges
    /\ commands' = Tail(commands)
    /\ running' = [running EXCEPT ![Head(commands).by].at = "failed"]
    /\ UNCHANGED <<blocks, isSynchronized, answers, retained, view, changes, disturbed>>

ConnectionLost ==
    /\ isSynchronized
    /\ disturbed < MaxDisturbed
    /\ disturbed' = disturbed + 1
    /\ isSynchronized' = FALSE
    /\ commands' = <<>> /\ answers' = <<>>
    /\ running' = [t \in Tasks |-> IF running[t].at = "sent" THEN [running[t] EXCEPT !.at = "failed"] ELSE running[t]]
    /\ UNCHANGED <<blocks, retained, view, changes>>

Synchronizes ==
    /\ ~isSynchronized
    /\ isSynchronized' = TRUE
    /\ UNCHANGED <<blocks, commands, answers, running, retained, view, changes, disturbed>>

(* A listener (re)subscribes, and is given the retained event. *)
Subscribes ==
    /\ view' = retained
    /\ UNCHANGED <<blocks, isSynchronized, commands, answers, running, retained, changes, disturbed>>

TaskStep(t) ==
    \/ t \in Callers /\ (CallContinues(t) \/ CallFails(t))
    \/ t = Broadcaster /\ (BroadcastStarts \/ BroadcastContinues \/ BroadcastFails)
ControllerStep == ControllerAnswers \/ OutOfBound

EventsNext ==
    \/ \E c \in Callers, p \in Programs : CallStarts(c, p)
    \/ \E t \in Tasks : TaskStep(t) \/ CommandFails(t)
    \/ ControllerStep \/ ConnectionLost \/ Synchronizes \/ Subscribes

-----------------------------------------------------------------------------
SameBlock(x, y) == x.there = y.there /\ (x.there => x.version = y.version)

(* Whatever was shown in between, also when calls fail half-way, publish     *)
(* nothing, or a broadcast takes back what a patch has shown: in the end a   *)
(* listener sees the blocks of a synchronized controller, and none of one    *)
(* that is not.                                                              *)
ViewConverges ==
    <>[](\A b \in Blocks : SameBlock(view[b], IF isSynchronized THEN blocks[b] ELSE Nothing[b]))
=============================================================================
