--------------------------- MODULE CommanderProofs ---------------------------
(***************************************************************************)
(* The commander's invariants for every number of clients and every        *)
(* modulus, under the environment assumption Window.                       *)
(***************************************************************************)
EXTENDS Commander, TLAPS

(* Two numbers with the same remainder that are closer than the modulus are  *)
(* the same: what matching by id rests on.                                   *)
LEMMA SameRemainder ==
    ASSUME NEW k \in Nat \ {0}, NEW a \in Nat, NEW b \in Nat,
           a % k = b % k, a <= b, b - a < k
    PROVE  a = b
<1> DEFINE x == a \div k
           y == b \div k
<1>1. /\ x \in Nat /\ y \in Nat /\ k * x \in Nat /\ k * y \in Nat
      /\ b - a = k * y - k * x
  OBVIOUS
<1> HIDE DEF x, y
<1>2. k * y = k * x + k * (y - x)
  BY <1>1
<1>3. CASE y > x
  BY <1>1, <1>2, <1>3, k * (y - x - 1) >= 0, k * (y - x) = k * (y - x - 1) + k
<1>4. CASE y <= x
  BY <1>1, <1>2, <1>4, k * (x - y) >= 0
<1> QED BY <1>1, <1>3, <1>4

(* The ids go through the remainders of the serials. *)
LEMMA NextRemainder ==
    ASSUME NEW k \in Nat \ {0}, NEW n \in Nat
    PROVE  ((n % k) + 1) % k = (n + 1) % k
<1> DEFINE q == n \div k
           r == n % k
<1>1. q \in Nat /\ k * q \in Nat /\ r \in 0..(k - 1) /\ n = k * q + r
  OBVIOUS
<1>2. CASE r + 1 < k
  <2>1. n + 1 = k * q + (r + 1) /\ r + 1 \in 0..(k - 1)
    BY <1>1, <1>2
  <2> HIDE DEF q, r
  <2>2. (n + 1) % k = r + 1 /\ (r + 1) % k = r + 1
    BY <1>1, <1>2, <2>1
  <2> QED BY <2>2 DEF r
<1>3. CASE r + 1 = k
  <2>1. n + 1 = k * (q + 1)
    BY <1>1, <1>3
  <2> HIDE DEF q, r
  <2>2. (n + 1) % k = 0 /\ k % k = 0
    BY <1>1, <2>1
  <2> QED BY <1>3, <2>2 DEF r
<1> QED BY <1>1, <1>2, <1>3

-----------------------------------------------------------------------------
(* The ids are the remainders of the serials, of messages too...             *)
NumberOf(id, serial) ==
    /\ serial \in 1..issued
    /\ id = serial % Modulus
    /\ issued - serial < Modulus

Numbered ==
    /\ msgid = issued % Modulus
    /\ \A c \in Clients : Executing(c) => NumberOf(client[c].id, client[c].serial)
    /\ \A m \in requests \cup responses : NumberOf(m.id, m.serial)

(* ... a client has a reply only when its future has, and no more than that  *)
(* when it is idle ...                                                       *)
Replies ==
    \A c \in Clients :
        /\ client[c].at = "idle" => client[c] = Idle
        /\ client[c].at \in {"waiting", "cancelled"} => client[c].reply = 0

(* ... _active_messages and the executing clients point to each other ...    *)
ActiveLinked ==
    /\ \A c \in Clients :
         Executing(c) => client[c].id \in DOMAIN active /\ active[client[c].id] = c
    /\ \A i \in DOMAIN active : Executing(active[i]) /\ client[active[i]].id = i
    /\ emptyEv <=> DOMAIN active = {}

(* ... and a task in wait_empty() knows no later commands.                   *)
WaitersKnowPast ==
    \A w \in Waiters : waiter[w].before \subseteq 1..issued

CommanderInv ==
    /\ TypeOK
    /\ Numbered
    /\ Replies
    /\ ActiveLinked
    /\ OwnResponse
    /\ WaitersKnowPast
    /\ WaitEmptyDrains

LEMMA ActiveLinkedExact ==
    ASSUME TypeOK, ActiveLinked
    PROVE  ActiveExact
<1>1. ASSUME NEW i \in DOMAIN active
      PROVE  i \in {client[c].id : c \in {d \in Clients : Executing(d)}}
  <2>1. active[i] \in Clients
    BY <1>1 DEF TypeOK
  <2> QED BY <1>1, <2>1 DEF ActiveLinked
<1>2. ASSUME NEW c \in Clients, Executing(c) PROVE client[c].id \in DOMAIN active
  BY <1>2 DEF ActiveLinked
<1>3. DOMAIN active = {client[c].id : c \in {d \in Clients : Executing(d)}}
  BY <1>1, <1>2
<1> QED BY <1>3 DEF ActiveLinked, ActiveExact

(* Without an executing command no serial is pending.                        *)
LEMMA NothingPending ==
    ASSUME ActiveLinked, DOMAIN active = {}
    PROVE  Pending = {}
BY DEF ActiveLinked, Pending

LEMMA InitCommanderInv == Init => CommanderInv
<1> SUFFICES ASSUME Init PROVE CommanderInv
  OBVIOUS
<1> USE CommanderAssumption DEF Init
<1>1. 0 \in Ids /\ 0 % Modulus = 0
  BY DEF Ids
<1>2. Idle \in ClientStates /\ Idle.at = "idle"
  BY <1>1 DEF Idle, ClientStates
<1>3. TypeOK
  BY <1>1, <1>2 DEF TypeOK, Messages, Serials
<1>4. Numbered /\ Replies /\ OwnResponse
  BY <1>1, <1>2 DEF Numbered, Replies, OwnResponse, Executing
<1>5. ActiveLinked /\ WaitersKnowPast /\ WaitEmptyDrains
  BY <1>2 DEF ActiveLinked, Executing, WaitersKnowPast, WaitEmptyDrains
<1> QED BY <1>3, <1>4, <1>5 DEF CommanderInv

(* What every use of an id keeps: the new id is in nobody's hands.           *)
LEMMA TakesIdFresh ==
    ASSUME CommanderInv, TakesId
    PROVE  /\ msgid' = issued' % Modulus
           /\ msgid' \in Ids
           /\ issued' = issued + 1
           /\ issued' \in Serials
           /\ msgid' \notin DOMAIN active
           /\ \A c \in Clients : Executing(c) => issued' - client[c].serial < Modulus
           /\ \A m \in requests \cup responses : issued' - m.serial < Modulus
<1> USE CommanderAssumption
<1>1. issued \in Nat /\ issued < MaxCommands /\ issued' = issued + 1
  BY DEF CommanderInv, TypeOK, TakesId
<1>2. msgid' = issued' % Modulus
  BY <1>1, NextRemainder DEF CommanderInv, Numbered, TakesId, NextId
<1>3. issued' \in Nat /\ msgid' \in Ids
  BY <1>1, <1>2 DEF Ids
<1>4. /\ \A c \in Clients : Executing(c) => issued' - client[c].serial < Modulus
      /\ \A m \in requests \cup responses : issued' - m.serial < Modulus
  BY <1>1 DEF TakesId, Window, Pending
<1>5. ASSUME msgid' \in DOMAIN active PROVE FALSE
  <2> DEFINE d == active[msgid']
  <2>1. d \in Clients /\ Executing(d) /\ client[d].id = msgid'
    BY <1>5 DEF CommanderInv, TypeOK, ActiveLinked
  <2>2. NumberOf(client[d].id, client[d].serial)
    BY <2>1 DEF CommanderInv, Numbered
  <2>3. /\ client[d].serial \in Nat /\ client[d].serial < issued'
        /\ client[d].serial % Modulus = issued' % Modulus
        /\ issued' - client[d].serial < Modulus
    BY <1>1, <1>2, <1>4, <2>1, <2>2 DEF NumberOf
  <2> QED BY <1>3, <2>3, SameRemainder
<1> QED BY <1>1, <1>2, <1>3, <1>4, <1>5 DEF Serials

(* The finally clause wakes tasks in wait_empty() only when nothing is       *)
(* active any more.                                                          *)
WokenWhenEmpty ==
    /\ waiter' \in [Waiters -> [at: {"idle", "waiting", "woken"}, before: SUBSET Serials]]
    /\ \A w \in Waiters :
         /\ waiter'[w].before = waiter[w].before
         /\ waiter'[w].at = waiter[w].at \/ DOMAIN active' = {}

LEMMA DeletedWakes ==
    ASSUME TypeOK, NEW event, DeletedMessage(event)
    PROVE  WokenWhenEmpty
<1> DEFINE W == [at: {"idle", "waiting", "woken"}, before: SUBSET Serials]
<1>1. waiter \in [Waiters -> W]
  BY DEF TypeOK
<1>2. CASE DOMAIN active' = {}
  <2>1. waiter' = [w \in Waiters |->
            IF waiter[w].at = "waiting" THEN [waiter[w] EXCEPT !.at = "woken"]
                                        ELSE waiter[w]]
    BY <1>2 DEF DeletedMessage
  <2>2. ASSUME NEW w \in Waiters
        PROVE  waiter'[w] \in W /\ waiter'[w].before = waiter[w].before
    BY <1>1, <2>1
  <2> QED BY <1>2, <2>1, <2>2 DEF WokenWhenEmpty
<1>3. CASE DOMAIN active' # {}
  <2>1. waiter' = waiter
    BY <1>3 DEF DeletedMessage
  <2> QED BY <1>1, <2>1 DEF WokenWhenEmpty
<1> QED BY <1>2, <1>3

(* A step that changes nothing keeps the invariant.                          *)
LEMMA UnchangedInv ==
    ASSUME CommanderInv, UNCHANGED vars
    PROVE  CommanderInv'
<1>1. TypeOK' /\ Numbered' /\ Replies' /\ ActiveLinked'
  BY DEF CommanderInv, TypeOK, Numbered, NumberOf, Replies, ActiveLinked, Executing, vars
<1>2. OwnResponse' /\ WaitersKnowPast' /\ WaitEmptyDrains'
  BY DEF CommanderInv, OwnResponse, WaitersKnowPast, WaitEmptyDrains, Pending,
     Executing, vars
<1> QED BY <1>1, <1>2 DEF CommanderInv

(* One lemma per action: Execute() ...                                       *)
LEMMA ExecuteInv ==
    ASSUME CommanderInv, NEW c \in Clients, Execute(c)
    PROVE  CommanderInv'
<1> USE CommanderAssumption
<1>1. /\ msgid' = issued' % Modulus
      /\ msgid' \in Ids /\ issued' \in Serials /\ issued' = issued + 1
      /\ msgid' \notin DOMAIN active
      /\ \A d \in Clients : Executing(d) => issued' - client[d].serial < Modulus
      /\ \A m \in requests \cup responses : issued' - m.serial < Modulus
  BY TakesIdFresh DEF Execute
<1>2. issued \in Nat /\ issued' \in 0..MaxCommands
  BY <1>1 DEF CommanderInv, TypeOK, Serials
<1> DEFINE new == [at |-> "waiting", id |-> msgid', serial |-> issued', reply |-> 0]
<1>3. /\ client \in [Clients -> ClientStates]
      /\ client' = [client EXCEPT ![c] = new]
      /\ client'[c] = new
      /\ \A d \in Clients \ {c} : client'[d] = client[d]
  BY DEF CommanderInv, TypeOK, Execute
<1>4. /\ DOMAIN active' = DOMAIN active \cup {msgid'}
      /\ active'[msgid'] = c
      /\ \A i \in DOMAIN active : active'[i] = active[i]
  BY <1>1 DEF Execute, Assigned
<1>5. TypeOK'
  <2>1. new \in ClientStates
    BY <1>1 DEF ClientStates
  <2>2. client' \in [Clients -> ClientStates]
    BY <1>3, <2>1
  <2>3. active' \in [DOMAIN active' -> Clients]
    BY DEF CommanderInv, TypeOK, Execute, Assigned
  <2>4. requests' \subseteq Messages
    BY <1>1 DEF CommanderInv, TypeOK, Execute, Messages
  <2> QED BY <1>1, <1>2, <1>4, <2>2, <2>3, <2>4 DEF CommanderInv, TypeOK, Execute
<1>6. Numbered'
  <2>1. ASSUME NEW d \in Clients, Executing(d)'
        PROVE  NumberOf(client[d].id, client[d].serial)'
    <3>1. CASE d = c
      BY <1>1, <1>2, <1>3, <3>1 DEF NumberOf
    <3>2. CASE d # c
      BY <1>1, <1>2, <1>3, <2>1, <3>2 DEF CommanderInv, Numbered, NumberOf, Executing
    <3> QED BY <3>1, <3>2
  <2>2. ASSUME NEW m \in (requests \cup responses)'
        PROVE  NumberOf(m.id, m.serial)'
    <3>1. CASE m \in requests \cup responses
      BY <1>1, <1>2, <3>1 DEF CommanderInv, Numbered, NumberOf
    <3>2. CASE m = [id |-> msgid', serial |-> issued']
      BY <1>1, <1>2, <3>2 DEF NumberOf
    <3> QED BY <3>1, <3>2, <2>2 DEF Execute
  <2> QED BY <1>1, <2>1, <2>2 DEF Numbered
<1>7. Replies' /\ OwnResponse'
  BY <1>3 DEF CommanderInv, Replies, OwnResponse
<1>8. ActiveLinked'
  BY <1>1, <1>3, <1>4 DEF CommanderInv, ActiveLinked, Executing, Execute, TypeOK
<1>9. WaitersKnowPast' /\ WaitEmptyDrains'
  <2>1. ASSUME NEW s \in Pending' PROVE s \in Pending \/ s = issued'
    BY <1>3, <2>1 DEF Pending, Executing
  <2>2. waiter' = waiter /\ WaitersKnowPast /\ WaitEmptyDrains
    BY DEF Execute, CommanderInv
  <2> QED BY <1>1, <1>2, <2>1, <2>2 DEF WaitersKnowPast, WaitEmptyDrains
<1> QED BY <1>5, <1>6, <1>7, <1>8, <1>9 DEF CommanderInv

(* ... a command that is not sent ...                                        *)
LEMMA NotSentInv ==
    ASSUME CommanderInv, NEW c \in Clients,
           ExecuteNotEncoded(c) \/ ExecuteNotConnected(c)
    PROVE  CommanderInv'
<1> USE CommanderAssumption
<1>1. /\ msgid' = issued' % Modulus
      /\ msgid' \in Ids /\ issued' \in Serials /\ issued' = issued + 1
      /\ msgid' \notin DOMAIN active
      /\ \A d \in Clients : Executing(d) => issued' - client[d].serial < Modulus
      /\ \A m \in requests \cup responses : issued' - m.serial < Modulus
  BY TakesIdFresh DEF ExecuteNotEncoded, ExecuteNotConnected
<1>2. issued \in Nat /\ issued' \in 0..MaxCommands
  BY <1>1 DEF CommanderInv, TypeOK, Serials
<1>3. active' = active
  <2>1. CASE ExecuteNotConnected(c)
    <3>1. DOMAIN active \ {msgid'} = DOMAIN active
      BY <1>1
    <3> QED BY <2>1, <3>1 DEF ExecuteNotConnected, Restrict, CommanderInv, TypeOK
  <2>2. CASE ExecuteNotEncoded(c)
    BY <2>2 DEF ExecuteNotEncoded
  <2> QED BY <2>1, <2>2
<1>4. /\ client' = client /\ requests' = requests /\ responses' = responses
      /\ emptyEv' = emptyEv
      /\ WokenWhenEmpty
  <2>1. CASE ExecuteNotConnected(c)
    <3>1. TypeOK /\ ActiveLinked /\ DeletedMessage(FALSE)
      BY <2>1 DEF ExecuteNotConnected, CommanderInv
    <3>2. WokenWhenEmpty
      BY <3>1, DeletedWakes
    <3>3. emptyEv' = emptyEv
      BY <1>3, <3>1 DEF DeletedMessage, ActiveLinked, TypeOK
    <3> QED BY <2>1, <3>2, <3>3 DEF ExecuteNotConnected
  <2>2. CASE ExecuteNotEncoded(c)
    <3>1. waiter' = waiter
      BY <2>2 DEF ExecuteNotEncoded
    <3> QED BY <2>2, <3>1 DEF ExecuteNotEncoded, CommanderInv, TypeOK, WokenWhenEmpty
  <2> QED BY <2>1, <2>2
<1>5. TypeOK'
  BY <1>1, <1>2, <1>3, <1>4 DEF CommanderInv, TypeOK, WokenWhenEmpty
<1>6. Numbered'
  <2>1. ASSUME NEW d \in Clients, Executing(d)'
        PROVE  NumberOf(client[d].id, client[d].serial)'
    BY <1>1, <1>2, <1>4, <2>1 DEF CommanderInv, Numbered, NumberOf, Executing
  <2>2. ASSUME NEW m \in (requests \cup responses)'
        PROVE  NumberOf(m.id, m.serial)'
    BY <1>1, <1>2, <1>4 DEF CommanderInv, Numbered, NumberOf
  <2> QED BY <1>1, <2>1, <2>2 DEF Numbered
<1>7. Replies' /\ OwnResponse' /\ ActiveLinked'
  BY <1>3, <1>4 DEF CommanderInv, Replies, OwnResponse, ActiveLinked, Executing
<1>8. WaitersKnowPast' /\ WaitEmptyDrains'
  <2>1. Pending' = Pending
    BY <1>4 DEF Pending, Executing
  <2>2. DOMAIN active' = {} => Pending = {}
    BY <1>3, NothingPending DEF CommanderInv
  <2>3. WaitEmptyDrains'
    BY <1>4, <2>1, <2>2 DEF WokenWhenEmpty, WaitEmptyDrains, CommanderInv
  <2>4. WaitersKnowPast'
    BY <1>1, <1>2, <1>4 DEF WokenWhenEmpty, WaitersKnowPast, CommanderInv
  <2> QED BY <2>3, <2>4
<1> QED BY <1>5, <1>6, <1>7, <1>8 DEF CommanderInv

(* ... a response ...                                                        *)
LEMMA OnResponseInv ==
    ASSUME CommanderInv, NEW m \in responses, OnResponse(m)
    PROVE  CommanderInv'
<1> USE CommanderAssumption
<1>1. /\ client \in [Clients -> ClientStates] /\ issued \in Nat
      /\ m \in Messages
      /\ UNCHANGED <<msgid, active, emptyEv, waiter, requests, responses, issued>>
  BY DEF CommanderInv, TypeOK, OnResponse
<1>2. CASE ~(m.id \in DOMAIN active /\ client[active[m.id]].at = "waiting")
  <2>1. client' = client
    BY <1>2 DEF OnResponse
  <2> QED BY <1>1, <2>1, UnchangedInv DEF vars
<1>3. CASE m.id \in DOMAIN active /\ client[active[m.id]].at = "waiting"
  <2> DEFINE d == active[m.id]
             new == [client[d] EXCEPT !.at = "answered", !.reply = m.serial]
  <2>1. /\ d \in Clients /\ Executing(d) /\ client[d].id = m.id
    BY <1>3 DEF CommanderInv, ActiveLinked, TypeOK
  <2>2. /\ client' = [client EXCEPT ![d] = new]
        /\ client'[d] = new
        /\ \A c \in Clients \ {d} : client'[c] = client[c]
    BY <1>1, <1>3, <2>1 DEF OnResponse
  <2>3. /\ new.at = "answered" /\ new.id = client[d].id
        /\ new.serial = client[d].serial /\ new.reply = m.serial
        /\ new \in ClientStates
    BY <1>1, <2>1 DEF ClientStates, Messages
  <2>4. m.serial = client[d].serial
    <3>1. NumberOf(m.id, m.serial) /\ NumberOf(client[d].id, client[d].serial)
      BY <2>1 DEF CommanderInv, Numbered
    <3>2. m.serial % Modulus = client[d].serial % Modulus
      BY <2>1, <3>1 DEF NumberOf
    <3>3. CASE m.serial <= client[d].serial
      BY <1>1, <3>1, <3>2, <3>3, SameRemainder DEF NumberOf
    <3>4. CASE client[d].serial <= m.serial
      BY <1>1, <3>1, <3>2, <3>4, SameRemainder DEF NumberOf
    <3> QED BY <3>1, <3>3, <3>4, <1>1 DEF NumberOf
  <2>5. \A c \in Clients : /\ Executing(c)' <=> Executing(c)
                           /\ client'[c].id = client[c].id
                           /\ client'[c].serial = client[c].serial
    BY <2>1, <2>2, <2>3 DEF Executing
  <2>6. TypeOK'
    BY <1>1, <2>2, <2>3 DEF CommanderInv, TypeOK
  <2>7. Numbered'
    BY <1>1, <2>5 DEF CommanderInv, Numbered, NumberOf
  <2>8. Replies' /\ OwnResponse'
    BY <2>2, <2>3, <2>4 DEF CommanderInv, Replies, OwnResponse
  <2>9. ActiveLinked'
    BY <1>1, <2>5 DEF CommanderInv, ActiveLinked, TypeOK
  <2>10. WaitersKnowPast' /\ WaitEmptyDrains'
    <3>1. Pending' = Pending
      BY <2>5 DEF Pending
    <3> QED BY <1>1, <3>1 DEF CommanderInv, WaitersKnowPast, WaitEmptyDrains
  <2> QED BY <2>6, <2>7, <2>8, <2>9, <2>10 DEF CommanderInv
<1> QED BY <1>2, <1>3

(* ... a timeout or a cancelled task ...                                     *)
LEMMA CancelsFutureInv ==
    ASSUME CommanderInv, NEW d \in Clients, CancelsFuture(d)
    PROVE  CommanderInv'
<1>1. /\ client \in [Clients -> ClientStates]
      /\ UNCHANGED <<msgid, active, emptyEv, waiter, requests, responses, issued>>
  BY DEF CommanderInv, TypeOK, CancelsFuture
<1> DEFINE new == [client[d] EXCEPT !.at = "cancelled"]
<1>2. /\ client[d].at = "waiting"
      /\ client' = [client EXCEPT ![d] = new]
      /\ client'[d] = new
      /\ \A c \in Clients \ {d} : client'[c] = client[c]
  BY <1>1 DEF CancelsFuture
<1>3. /\ new.at = "cancelled" /\ new.id = client[d].id
      /\ new.serial = client[d].serial /\ new.reply = client[d].reply
      /\ new \in ClientStates
  BY <1>1 DEF ClientStates
<1>4. \A c \in Clients : /\ Executing(c)' <=> Executing(c)
                         /\ client'[c].id = client[c].id
                         /\ client'[c].serial = client[c].serial
  BY <1>2, <1>3 DEF Executing
<1>5. TypeOK'
  BY <1>1, <1>2, <1>3 DEF CommanderInv, TypeOK
<1>6. Numbered'
  BY <1>1, <1>4 DEF CommanderInv, Numbered, NumberOf
<1>7. Replies' /\ OwnResponse'
  BY <1>2, <1>3 DEF CommanderInv, Replies, OwnResponse
<1>8. ActiveLinked'
  BY <1>1, <1>4 DEF CommanderInv, ActiveLinked, TypeOK
<1>9. WaitersKnowPast' /\ WaitEmptyDrains'
  <2>1. Pending' = Pending
    BY <1>4 DEF Pending
  <2> QED BY <1>1, <2>1 DEF CommanderInv, WaitersKnowPast, WaitEmptyDrains
<1> QED BY <1>5, <1>6, <1>7, <1>8, <1>9 DEF CommanderInv

(* ... the end of a command, which deletes its own message and no other ...  *)
LEMMA ReturnsInv ==
    ASSUME CommanderInv, NEW d \in Clients, Returns(d)
    PROVE  CommanderInv'
<1>1. /\ client \in [Clients -> ClientStates]
      /\ UNCHANGED <<msgid, requests, responses, issued>>
      /\ client' = [client EXCEPT ![d] = Idle]
  BY DEF CommanderInv, TypeOK, Returns
<1>2. /\ client'[d] = Idle
      /\ \A c \in Clients \ {d} : client'[c] = client[c]
  BY <1>1
<1>3. Idle.at = "idle" /\ Idle \in ClientStates
  <2>1. 0 \in Ids
    BY CommanderAssumption DEF Ids
  <2> QED BY <2>1 DEF Idle, ClientStates
<1>4. Executing(d) /\ client[d].id \in DOMAIN active /\ active[client[d].id] = d
  BY DEF CommanderInv, ActiveLinked, Executing, Returns
<1>5. /\ DOMAIN active' = DOMAIN active \ {client[d].id}
      /\ \A i \in DOMAIN active' : active'[i] = active[i]
      /\ active' \in [DOMAIN active' -> Clients]
  BY DEF Returns, Restrict, CommanderInv, TypeOK
<1>6. /\ WokenWhenEmpty
      /\ emptyEv' = IF DOMAIN active' = {} THEN TRUE ELSE emptyEv
  BY DeletedWakes DEF CommanderInv, Returns, DeletedMessage
<1>7. \A c \in Clients : Executing(c)' <=> Executing(c) /\ c # d
  BY <1>2, <1>3 DEF Executing
<1>8. TypeOK'
  <2>1. client' \in [Clients -> ClientStates]
    BY <1>1, <1>3
  <2>2. DOMAIN active' \subseteq Ids /\ emptyEv' \in BOOLEAN
    BY <1>5, <1>6 DEF CommanderInv, TypeOK
  <2> QED BY <1>1, <1>5, <1>6, <2>1, <2>2 DEF CommanderInv, TypeOK, WokenWhenEmpty
<1>9. Numbered'
  BY <1>1, <1>2, <1>7 DEF CommanderInv, Numbered, NumberOf
<1>10. Replies' /\ OwnResponse'
  BY <1>2, <1>3 DEF CommanderInv, Replies, OwnResponse, Idle
<1>11. ActiveLinked'
  <2>1. ASSUME NEW c \in Clients, Executing(c)'
        PROVE  client'[c].id \in DOMAIN active' /\ active'[client'[c].id] = c
    <3>1. c # d /\ Executing(c) /\ client'[c] = client[c]
      BY <1>2, <1>7, <2>1
    <3>2. client[c].id \in DOMAIN active /\ active[client[c].id] = c
      BY <3>1 DEF CommanderInv, ActiveLinked
    <3> QED BY <1>4, <1>5, <3>1, <3>2
  <2>2. ASSUME NEW i \in DOMAIN active'
        PROVE  Executing(active[i])' /\ client'[active'[i]].id = i
    <3>1. i \in DOMAIN active /\ i # client[d].id /\ active'[i] = active[i]
          /\ active[i] \in Clients
      BY <1>5 DEF CommanderInv, TypeOK
    <3>2. Executing(active[i]) /\ client[active[i]].id = i /\ active[i] # d
      BY <3>1 DEF CommanderInv, ActiveLinked
    <3>3. client'[active[i]] = client[active[i]]
      BY <1>2, <3>1, <3>2
    <3> QED BY <3>1, <3>2, <3>3 DEF Executing
  <2>3. emptyEv' <=> DOMAIN active' = {}
    BY <1>4, <1>6 DEF CommanderInv, ActiveLinked
  <2> QED BY <2>1, <2>2, <2>3 DEF ActiveLinked
<1>12. WaitersKnowPast' /\ WaitEmptyDrains'
  <2>1. Pending' \subseteq Pending
    BY <1>2, <1>7 DEF Pending
  <2>2. DOMAIN active' = {} => Pending' = {}
    BY <1>11 DEF ActiveLinked, Pending
  <2>3. WaitEmptyDrains'
    BY <1>6, <2>1, <2>2 DEF WokenWhenEmpty, WaitEmptyDrains, CommanderInv
  <2>4. WaitersKnowPast'
    BY <1>1, <1>6 DEF WokenWhenEmpty, WaitersKnowPast, CommanderInv
  <2> QED BY <2>3, <2>4
<1> QED BY <1>8, <1>9, <1>10, <1>11, <1>12 DEF CommanderInv

(* ... wait_empty() ...                                                      *)
LEMMA WaiterInv ==
    ASSUME CommanderInv, NEW w \in Waiters, WaitEmpty(w) \/ WaitEnds(w)
    PROVE  CommanderInv'
<1> DEFINE W == [at: {"idle", "waiting", "woken"}, before: SUBSET Serials]
<1>1. /\ waiter \in [Waiters -> W]
      /\ UNCHANGED <<msgid, active, emptyEv, client, requests, responses, issued>>
  BY DEF CommanderInv, TypeOK, WaitEmpty, WaitEnds
<1>2. Pending' = Pending
  BY <1>1 DEF Pending, Executing
<1>3. Pending \subseteq 1..issued /\ Pending \subseteq Serials
  <2>1. ASSUME NEW s \in Pending PROVE s \in 1..issued
    BY <2>1 DEF Pending, CommanderInv, Numbered, NumberOf
  <2> QED BY <2>1, CommanderAssumption DEF CommanderInv, TypeOK, Serials
<1>4. emptyEv => Pending = {}
  BY NothingPending DEF CommanderInv, ActiveLinked
<1>5. PICK new \in W :
          /\ waiter' = [waiter EXCEPT ![w] = new]
          /\ new.before \subseteq 1..issued
          /\ new.at = "woken" => new.before \cap Pending = {}
  <2>1. CASE WaitEmpty(w)
    <3> DEFINE new == [at |-> IF emptyEv THEN "woken" ELSE "waiting", before |-> Pending]
    <3>1. new \in W /\ waiter' = [waiter EXCEPT ![w] = new]
      BY <1>3, <2>1 DEF WaitEmpty
    <3>2. new.before = Pending /\ (new.at = "woken" => emptyEv)
      OBVIOUS
    <3> HIDE DEF new
    <3> QED BY <3>1, <3>2, <1>3, <1>4
  <2>2. CASE WaitEnds(w)
    <3> DEFINE new == [at |-> "idle", before |-> {}]
    <3>1. new \in W /\ waiter' = [waiter EXCEPT ![w] = new]
      BY <2>2 DEF WaitEnds
    <3>2. new.before = {} /\ new.at # "woken"
      OBVIOUS
    <3>3. new.before \subseteq 1..issued
      BY <3>2
    <3> HIDE DEF new
    <3> QED BY <3>1, <3>2, <3>3
  <2> QED BY <2>1, <2>2
<1>6. /\ waiter' \in [Waiters -> W]
      /\ waiter'[w] = new
      /\ \A v \in Waiters \ {w} : waiter'[v] = waiter[v]
  BY <1>1, <1>5
<1>7. TypeOK'
  BY <1>1, <1>6 DEF CommanderInv, TypeOK
<1>8. Numbered' /\ Replies' /\ ActiveLinked' /\ OwnResponse'
  BY <1>1 DEF CommanderInv, Numbered, NumberOf, Replies, ActiveLinked, OwnResponse,
     Executing
<1>9. WaitersKnowPast' /\ WaitEmptyDrains'
  BY <1>1, <1>2, <1>5, <1>6 DEF CommanderInv, WaitersKnowPast, WaitEmptyDrains
<1> QED BY <1>7, <1>8, <1>9 DEF CommanderInv

(* ... and the network, which carries what was sent.                         *)
LEMMA NetworkInv ==
    ASSUME CommanderInv, NEW m,
           \/ m \in requests /\ (Answers(m) \/ RequestGone(m))
           \/ m \in responses /\ ResponseGone(m)
    PROVE  CommanderInv'
<1>1. /\ UNCHANGED <<msgid, active, emptyEv, client, waiter, issued>>
      /\ requests' \subseteq requests
      /\ responses' \subseteq requests \cup responses
  BY DEF Answers, RequestGone, ResponseGone
<1>2. TypeOK' /\ Numbered'
  BY <1>1 DEF CommanderInv, TypeOK, Numbered, NumberOf, Executing
<1>3. Replies' /\ ActiveLinked' /\ OwnResponse'
  BY <1>1 DEF CommanderInv, Replies, ActiveLinked, OwnResponse, Executing
<1>4. WaitersKnowPast' /\ WaitEmptyDrains'
  BY <1>1 DEF CommanderInv, WaitersKnowPast, WaitEmptyDrains, Pending, Executing
<1> QED BY <1>2, <1>3, <1>4 DEF CommanderInv

(* _active_messages, the ids, the futures and the waiting tasks agree in     *)
(* every state of the commander (command.py).                                *)
THEOREM CommanderInvariant == Spec => []CommanderInv
<1>1. CommanderInv /\ [Next]_vars => CommanderInv'
  <2> SUFFICES ASSUME CommanderInv, [Next]_vars PROVE CommanderInv'
    OBVIOUS
  <2>1. ASSUME NEW c \in Clients, Client(c) PROVE CommanderInv'
    BY <2>1, ExecuteInv, NotSentInv, CancelsFutureInv, ReturnsInv DEF Client
  <2>2. CASE Network
    BY <2>2, OnResponseInv, NetworkInv DEF Network
  <2>3. ASSUME NEW w \in Waiters, WaitEmpty(w) \/ WaitEnds(w) PROVE CommanderInv'
    BY <2>3, WaiterInv
  <2>4. CASE UNCHANGED vars
    BY <2>4, UnchangedInv
  <2> QED BY <2>1, <2>2, <2>3, <2>4 DEF Next
<1> QED BY <1>1, InitCommanderInv, PTL DEF Spec

(* The commander's variables keep their types: ids stay below the modulus.   *)
THEOREM CommanderTypes == Spec => []TypeOK
<1>1. CommanderInv => TypeOK
  BY DEF CommanderInv
<1> QED BY <1>1, CommanderInvariant, PTL

(* _active_messages is exact: an id is never taken from a command, and the   *)
(* finally clause of _execute() deletes its own entry.                       *)
THEOREM ActiveIsExact == Spec => []ActiveExact
<1>1. CommanderInv => ActiveExact
  BY ActiveLinkedExact DEF CommanderInv
<1> QED BY <1>1, CommanderInvariant, PTL

(* A command is completed by its own response (CboxCommander._on_response). *)
THEOREM ResponsesMatch == Spec => []OwnResponse
<1>1. CommanderInv => OwnResponse
  BY DEF CommanderInv
<1> QED BY <1>1, CommanderInvariant, PTL

(* wait_empty() outlasts every command that was executing when it began.     *)
THEOREM WaitEmptyIsSafe == Spec => []WaitEmptyDrains
<1>1. CommanderInv => WaitEmptyDrains
  BY DEF CommanderInv
<1> QED BY <1>1, CommanderInvariant, PTL

-----------------------------------------------------------------------------
(* What the abstract request and reply see of a client: an idle one has      *)
(* neither, a pending one has no reply yet.                                  *)
LEMMA ClientSeen ==
    ASSUME CommanderInv, NEW c \in Clients
    PROVE  /\ Executing(c) => client[c].serial \in 1..issued
           /\ ~Executing(c) => client[c].serial = 0 /\ client[c].reply = 0
           /\ client[c].at = "waiting" => client[c].reply = 0
BY DEF CommanderInv, Numbered, NumberOf, Replies, Executing, Idle

LEMMA AskRefinement ==
    ASSUME CommanderInv, NEW c \in Clients, Execute(c)
    PROVE  Abstract!Ask(c, issued') /\ issued' \in Serials
<1>1. issued' \in Serials /\ issued' = issued + 1 /\ issued \in Nat
  BY TakesIdFresh DEF Execute, CommanderInv, TypeOK
<1>2. client \in [Clients -> ClientStates]
  BY DEF CommanderInv, TypeOK
<1>3. /\ client'[c].serial = issued' /\ client'[c].reply = 0
      /\ \A d \in Clients \ {c} : client'[d] = client[d]
  BY <1>2 DEF Execute
<1>4. client[c].serial = 0 /\ client[c].reply = 0
  BY ClientSeen DEF Execute
<1>5. \A d \in Clients : client[d].serial # issued'
  BY <1>1, ClientSeen
<1>6. [d \in Clients |-> client'[d].serial]
        = [[d \in Clients |-> client[d].serial] EXCEPT ![c] = issued']
  BY <1>3
<1>7. [d \in Clients |-> client'[d].reply] = [d \in Clients |-> client[d].reply]
  BY <1>3, <1>4
<1> QED BY <1>1, <1>4, <1>5, <1>6, <1>7 DEF Abstract!Ask

LEMMA AnswerRefinement ==
    ASSUME CommanderInv, NEW m \in responses, OnResponse(m)
    PROVE  (\E c \in Clients : Abstract!Answer(c)) \/ UNCHANGED client
<1>1. client \in [Clients -> ClientStates] /\ CommanderInv'
  BY OnResponseInv DEF CommanderInv, TypeOK
<1>2. CASE m.id \in DOMAIN active /\ client[active[m.id]].at = "waiting"
  <2> DEFINE d == active[m.id]
  <2>1. d \in Clients /\ client[d].at = "waiting"
    BY <1>2 DEF CommanderInv, TypeOK
  <2>2. /\ client'[d].at = "answered" /\ client'[d].reply = m.serial
        /\ client'[d].serial = client[d].serial
        /\ \A c \in Clients \ {d} : client'[c] = client[c]
    BY <1>1, <1>2, <2>1 DEF OnResponse, ClientStates
  <2>3. client'[d].reply = client[d].serial
    BY <1>1, <2>1, <2>2 DEF CommanderInv, OwnResponse
  <2>4. client[d].serial # 0 /\ client[d].reply = 0
    <3>1. Executing(d)
      BY <2>1 DEF Executing
    <3> HIDE DEF d
    <3> QED BY <2>1, <3>1, ClientSeen
  <2>5. [c \in Clients |-> client'[c].serial] = [c \in Clients |-> client[c].serial]
    BY <2>1, <2>2
  <2>6. [c \in Clients |-> client'[c].reply]
          = [[c \in Clients |-> client[c].reply] EXCEPT ![d] = client[d].serial]
    BY <2>1, <2>2, <2>3
  <2> HIDE DEF d
  <2>7. Abstract!Answer(d)
    BY <2>1, <2>4, <2>5, <2>6 DEF Abstract!Answer
  <2> QED BY <2>1, <2>7 DEF Abstract!Answer
<1>3. CASE ~(m.id \in DOMAIN active /\ client[active[m.id]].at = "waiting")
  BY <1>3 DEF OnResponse
<1> QED BY <1>2, <1>3

LEMMA EndRefinement ==
    ASSUME CommanderInv, NEW c \in Clients, Returns(c)
    PROVE  Abstract!End(c)
<1>1. client \in [Clients -> ClientStates]
  BY DEF CommanderInv, TypeOK
<1>2. /\ client'[c].serial = 0 /\ client'[c].reply = 0
      /\ \A d \in Clients \ {c} : client'[d] = client[d]
  BY <1>1 DEF Returns, Idle
<1>3. client[c].serial # 0
  BY ClientSeen DEF Returns, Executing, CommanderInv, TypeOK
<1>4. [d \in Clients |-> client'[d].serial]
        = [[d \in Clients |-> client[d].serial] EXCEPT ![c] = 0]
  BY <1>2
<1>5. [d \in Clients |-> client'[d].reply]
        = [[d \in Clients |-> client[d].reply] EXCEPT ![c] = 0]
  BY <1>2
<1> QED BY <1>3, <1>4, <1>5 DEF Abstract!End

(* Matching responses by an id that wraps around implements request and      *)
(* reply: answered at most once, and by the reply to this very request.      *)
THEOREM CommanderImplementsRequestReply == Spec => ImplementsRequestReply
<1>1. Init => Abstract!Init
  BY DEF Init, Abstract!Init, Idle
<1>2. CommanderInv /\ [Next]_vars => [Abstract!Next]_(Abstract!vars)
  <2> SUFFICES ASSUME CommanderInv, [Next]_vars
               PROVE  [Abstract!Next]_(Abstract!vars)
    OBVIOUS
  <2>1. CASE UNCHANGED client
    BY <2>1 DEF Abstract!vars
  <2>2. ASSUME NEW c \in Clients, Execute(c) PROVE Abstract!Next
    BY <2>2, AskRefinement DEF Abstract!Next, Abstract!Ask
  <2>3. ASSUME NEW c \in Clients, Returns(c) PROVE Abstract!Next
    BY <2>3, EndRefinement DEF Abstract!Next
  <2>4. ASSUME NEW c \in Clients, CancelsFuture(c) PROVE UNCHANGED Abstract!vars
    <3>1. client \in [Clients -> ClientStates]
      BY DEF CommanderInv, TypeOK
    <3>2. \A d \in Clients : /\ client'[d].serial = client[d].serial
                             /\ client'[d].reply = client[d].reply
      BY <2>4, <3>1 DEF CancelsFuture, ClientStates
    <3> QED BY <3>2 DEF Abstract!vars
  <2>5. ASSUME NEW m \in responses, OnResponse(m)
        PROVE  Abstract!Next \/ UNCHANGED client
    BY <2>5, AnswerRefinement DEF Abstract!Next
  <2>6. ASSUME NEW c \in Clients, ExecuteNotEncoded(c) \/ ExecuteNotConnected(c)
        PROVE  UNCHANGED client
    BY <2>6 DEF ExecuteNotEncoded, ExecuteNotConnected
  <2>7. CASE Network
    BY <2>7, <2>5, <2>1 DEF Network, Answers, RequestGone, ResponseGone
  <2>8. ASSUME NEW w \in Waiters, WaitEmpty(w) \/ WaitEnds(w) PROVE UNCHANGED client
    BY <2>8 DEF WaitEmpty, WaitEnds
  <2>9. CASE UNCHANGED vars
    BY <2>9, <2>1 DEF vars
  <2>10. ASSUME NEW c \in Clients, Client(c)
         PROVE  [Abstract!Next]_(Abstract!vars)
    BY <2>10, <2>1, <2>2, <2>3, <2>4, <2>6 DEF Client
  <2> QED BY <2>1, <2>7, <2>8, <2>9, <2>10 DEF Next
<1> QED BY <1>1, <1>2, CommanderInvariant, PTL
        DEF Spec, ImplementsRequestReply, Abstract!Spec
=============================================================================
