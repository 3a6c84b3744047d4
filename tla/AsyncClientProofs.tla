--------------------------- MODULE AsyncClientProofs ---------------------------
(***************************************************************************)
(* Proofs about AsyncClient.  For every number of tasks: types, and that a  *)
(* delivery is settled once.  For a client that one task uses: outstanding  *)
(* deliveries can be reached, close() leaves nothing, and nobody but        *)
(* connect() dials twice.                                                   *)
(***************************************************************************)
EXTENDS AsyncClient, TLAPS

Labels == {"idle", "connecting", "channel", "qos", "opening", "calling",
           "settling", "closing channel", "closing connection"}
Locals == [op : AllOps \cup {"none"}, k : 0..MaxConn,
           ch : 0..MaxChan, left : 0..2, msg : Messages \cup {NoMessage},
           mult : BOOLEAN, ends : SUBSET Chans]

(* What a task holds across each of its awaits.                             *)
Tasked ==
    /\ pc \in [Tasks -> Labels] /\ at \in [Tasks -> Locals]
    /\ \A t \in Tasks :
          /\ pc[t] \in {"qos", "calling"} => at[t].ch \in 1..nchan
          /\ pc[t] = "settling" => at[t].msg \in Messages
          /\ pc[t] # "idle" => at[t].op \in AllOps
          /\ at[t].mult \in Multiples \cup {FALSE}

(* The incarnation of a channel that a message came from is in use.         *)
Alive(m) == m.ch \in chOpen /\ gen[m.ch] = m.gen

(* An open channel is on a connection that is open and has its link, and the*)
(* broker waits only for deliveries of the present incarnation of one.      *)
Nested ==
    /\ \A c \in chOpen : chConn[c] \in copen \ away
    /\ \A m \in unacked : Alive(m) /\ m.tag <= given[m.ch]

(* No stored message, and none that is being settled, is one that is still  *)
(* to be delivered.                                                         *)
Past(m) ==
    /\ m.ch <= nchan /\ m.gen <= gen[m.ch]
    /\ m.gen = gen[m.ch] => m.tag <= given[m.ch]
AllPast ==
    /\ \A m \in pending : Past(m)
    /\ \A t \in Tasks : pc[t] = "settling" => Past(at[t].msg)

(* A delivery is stored, or in the hands of one task; while its channel     *)
(* lives the broker waits for it.                                           *)
Once ==
    /\ ~twice
    /\ \A m \in pending : Alive(m) => m \in unacked
    /\ \A t \in Tasks : pc[t] = "settling" =>
          /\ Alive(at[t].msg) => at[t].msg \in unacked
          /\ at[t].msg \notin pending
    /\ \A s, t \in Tasks :
          pc[s] = "settling" /\ pc[t] = "settling" /\ s # t
          => at[s].msg # at[t].msg

-----------------------------------------------------------------------------
(* Steps that change nothing but where a task is                            *)

(* A task goes to another await, neither to settle nor to close, or ends.   *)
Moves(t) ==
    \/ \E op \in AllOps, res \in Results : Return(t, op, res)
    \/ \E label \in {"connecting", "channel", "qos", "opening", "calling"} :
       \E locals \in Locals :
          /\ Goto(t, label, locals)
          /\ label \in {"qos", "calling"} => locals.ch \in 1..nchan
          /\ locals.mult \in Multiples \cup {FALSE}
          /\ locals.op \in AllOps
Quiet(t) == Moves(t) /\ UNCHANGED <<client, pika, unacked, receipts, ghost>>

(* What begins or ends without an effect: the operations themselves, the    *)
(* failures, and the calls that are served and bring no message.            *)
QuietAction(t) ==
    \/ \E op \in AllOps : Operation(t, op)
    \/ GetConnectionInfo(t) \/ Connect(t)
    \/ QosSet(t) \/ ConnectOnceFails(t) \/ OpenFails(t)
    \/ FirstCallServed(t) \/ Served(t)

USE DEF None

(* The operations that the lemmas below name.                               *)
LEMMA OpNames ==
    /\ {"connect", "close", "get_connection_info"} \cup Settles \subseteq AllOps
    /\ "consume_message" \in AllOps
BY DEF AllOps, OneCall

(* The local variables a task starts with.                                  *)
LEMMA NoLocalsTyped ==
    /\ NoLocals \in Locals /\ NoLocals.mult = FALSE
    /\ NoLocals.ends = {} /\ NoLocals.k = 0 /\ NoLocals.ch = 0
    /\ NoLocals.op = "none"
BY ConstantsAssumption DEF NoLocals, NoMessage, Locals

(* _require_channel moves its task to an await, or ends its operation.      *)
LEMMA RequireMoves ==
    ASSUME TypeOK, NEW t \in Tasks, NEW locals \in Locals,
           locals.op \in AllOps, locals.mult \in Multiples \cup {FALSE},
           RequireChannel(t, locals)
    PROVE  Moves(t)
<1>1. CASE ~NeedsChannel
  <2> DEFINE new == [locals EXCEPT !.ch = chan]
  <2>1. Goto(t, "calling", new)
    BY <1>1 DEF RequireChannel
  <2>2. chan \in 1..nchan /\ chan \in 0..MaxChan
    BY <1>1, ConstantsAssumption DEF NeedsChannel, TypeOK
  <2>3. new \in Locals /\ new.ch = chan /\ new.mult = locals.mult
        /\ new.op = locals.op
    BY <2>2 DEF Locals
  <2> HIDE DEF new
  <2> QED BY <2>1, <2>2, <2>3 DEF Moves
<1>2. CASE NeedsChannel /\ conn = None
  <2>1. PICK res \in {"AssertionError", "DEGRADED"} : Return(t, locals.op, res)
    BY <1>2 DEF RequireChannel, RequireRaises
  <2> QED BY <2>1 DEF Moves, Results
<1>3. CASE NeedsChannel /\ conn # None
  <2> DEFINE new == [locals EXCEPT !.k = conn]
  <2>1. Goto(t, "opening", new)
    BY <1>3 DEF RequireChannel
  <2>2. conn \in 0..MaxConn
    BY ConstantsAssumption DEF TypeOK
  <2>3. new \in Locals /\ new.mult = locals.mult /\ new.op = locals.op
    BY <2>2 DEF Locals
  <2> HIDE DEF new
  <2> QED BY <2>1, <2>3 DEF Moves
<1> QED BY <1>1, <1>2, <1>3

(* The first step of an operation only moves its task.                      *)
LEMMA OperationMoves ==
    ASSUME TypeOK, Tasked, NEW t \in Tasks, NEW op \in AllOps, Operation(t, op)
    PROVE  Quiet(t)
<1>1. CASE Start(t, op)
  <2> DEFINE locals == [NoLocals EXCEPT !.op = op, !.left = Calls(op)]
  <2>0. Calls(op) \in 0..2
    BY DEF Calls
  <2>1. locals \in Locals /\ locals.op = op /\ locals.mult = FALSE
    <3>1. [NoLocals EXCEPT !.op = op] \in Locals
      BY NoLocalsTyped DEF Locals
    <3>2. locals = [[NoLocals EXCEPT !.op = op] EXCEPT !.left = Calls(op)]
      BY NoLocalsTyped DEF Locals
    <3> QED BY <2>0, <3>1, <3>2, NoLocalsTyped DEF Locals
  <2>2. \/ Goto(t, "connecting", locals)
        \/ RequireChannel(t, locals)
    BY <1>1 DEF Start
  <2>3. UNCHANGED <<client, pika, unacked, receipts, ghost>>
    BY <1>1 DEF Start
  <2> HIDE DEF locals
  <2>4. Moves(t)
    BY <2>1, <2>2, RequireMoves DEF Moves
  <2> QED BY <2>3, <2>4 DEF Quiet
<1>2. CASE InvalidName(t, op)
  BY <1>2 DEF InvalidName, Quiet, Moves, Results
<1>3. CASE ContextFails(t, op)
  BY <1>3 DEF ContextFails, RequireRaises, Quiet, Moves, Results
<1> QED BY <1>1, <1>2, <1>3 DEF Operation

(* Every action that leaves the objects and the broker alone only moves a   *)
(* task.                                                                    *)
LEMMA QuietActions ==
    ASSUME TypeOK, Tasked, NEW t \in Tasks, QuietAction(t)
    PROVE  Quiet(t)
<1>0. /\ at[t] \in Locals /\ (pc[t] # "idle" => at[t].op \in AllOps)
      /\ at[t].mult \in Multiples \cup {FALSE}
  BY DEF Tasked, Locals
<1>1. CASE \E op \in AllOps : Operation(t, op)
  BY <1>1, OperationMoves
<1>2. CASE GetConnectionInfo(t)
  BY <1>2, OpNames DEF GetConnectionInfo, Quiet, Moves, Results
<1>3. CASE Connect(t)
  <2> DEFINE locals == [NoLocals EXCEPT !.op = "connect"]
  <2>1. locals \in Locals /\ locals.mult = FALSE /\ locals.op = "connect"
    BY OpNames, NoLocalsTyped DEF Locals
  <2>2. CASE Goto(t, "connecting", locals)
             /\ UNCHANGED <<client, pika, unacked, receipts, ghost>>
    <3> HIDE DEF locals
    <3> QED BY <2>1, <2>2, OpNames DEF Quiet, Moves
  <2>3. CASE ContextFails(t, "connect")
    BY <2>3, OpNames DEF ContextFails, RequireRaises, Quiet, Moves, Results
  <2> QED BY <1>3, <2>2, <2>3 DEF Connect
<1>4. CASE QosSet(t)
  <2>1. CASE at[t].op = "connect"
    BY <1>4, <2>1, OpNames DEF QosSet, Quiet, Moves, Results
  <2>2. CASE at[t].op # "connect"
    <3>1. RequireChannel(t, at[t])
      BY <1>4, <2>2 DEF QosSet
    <3> QED BY <1>0, <1>4, <3>1, RequireMoves DEF QosSet, Quiet
  <2> QED BY <2>1, <2>2
<1>5. CASE ConnectOnceFails(t)
  BY <1>0, <1>5 DEF ConnectOnceFails, RequireRaises, Quiet, Moves, Results
<1>6. CASE OpenFails(t)
  BY <1>0, <1>6 DEF OpenFails, RequireRaises, Quiet, Moves, Results
<1>7. CASE FirstCallServed(t)
  <2> DEFINE locals == [at[t] EXCEPT !.left = 1]
  <2>1. locals \in Locals /\ locals.mult = at[t].mult /\ locals.ch = at[t].ch
        /\ locals.op = at[t].op
    BY <1>0 DEF Locals
  <2>2. Goto(t, "calling", locals) /\ pc[t] = "calling"
        /\ UNCHANGED <<client, pika, unacked, receipts, ghost>>
    BY <1>7 DEF FirstCallServed
  <2>3. at[t].ch \in 1..nchan
    BY <2>2 DEF Tasked
  <2> HIDE DEF locals
  <2> QED BY <1>0, <2>1, <2>2, <2>3 DEF Quiet, Moves
<1>8. CASE Served(t)
  BY <1>0, <1>8 DEF Served, Quiet, Moves, Results
<1> QED BY <1>1, <1>2, <1>3, <1>4, <1>5, <1>6, <1>7, <1>8 DEF QuietAction

-----------------------------------------------------------------------------
(* Types                                                                    *)

(* Wherever a task goes, it goes with local variables of their types.       *)
Lands(t) ==
    \/ \E op \in AllOps, res \in Results : Return(t, op, res)
    \/ \E label \in Labels, locals \in Locals :
          /\ Goto(t, label, locals)
          /\ label \in {"qos", "calling"} => locals.ch \in 1..nchan'
          /\ label = "settling" => locals.msg \in Messages
          /\ locals.mult \in Multiples \cup {FALSE}
          /\ locals.op \in AllOps

OutTyped == out \in [op : AllOps \cup {"none"}, res : Results]

(* What Goto and Return leave behind.                                       *)
LEMMA GotoEffect ==
    ASSUME Tasked, NEW t \in Tasks, NEW label, NEW locals, Goto(t, label, locals)
    PROVE  /\ pc'[t] = label /\ at'[t] = locals /\ out' = out
           /\ \A s \in Tasks : s # t => pc'[s] = pc[s] /\ at'[s] = at[s]
BY DEF Tasked, Goto

LEMMA ReturnEffect ==
    ASSUME Tasked, NEW t \in Tasks, NEW op, NEW res, Return(t, op, res)
    PROVE  /\ pc'[t] = "idle" /\ at'[t] = NoLocals
           /\ out' = [op |-> op, res |-> res]
           /\ \A s \in Tasks : s # t => pc'[s] = pc[s] /\ at'[s] = at[s]
BY DEF Tasked, Return

(* A task that lands at a label with typed local variables keeps the types  *)
(* of all tasks.                                                            *)
LEMMA LandsTyped ==
    ASSUME TypeOK, Tasked, NEW t \in Tasks, Lands(t),
           nchan' \in Nat, nchan <= nchan'
    PROVE  Tasked' /\ OutTyped'
<1>0. nchan \in Nat /\ 1..nchan \subseteq 1..nchan'
  BY ConstantsAssumption DEF TypeOK
<1>1. ASSUME NEW op \in AllOps, NEW res \in Results, Return(t, op, res)
      PROVE  Tasked' /\ OutTyped'
  <2>1. pc' \in [Tasks -> Labels] /\ at' \in [Tasks -> Locals]
    BY <1>1, NoLocalsTyped DEF Tasked, Return, Labels
  <2>2. out' \in [op : AllOps \cup {"none"}, res : Results]
    BY <1>1 DEF Return
  <2>3. ASSUME NEW s \in Tasks
        PROVE  /\ pc'[s] \in {"qos", "calling"} => at'[s].ch \in 1..nchan'
               /\ pc'[s] = "settling" => at'[s].msg \in Messages
               /\ pc'[s] # "idle" => at'[s].op \in AllOps
               /\ at'[s].mult \in Multiples \cup {FALSE}
    <3>1. CASE s = t
      <4>1. pc'[s] = "idle" /\ at'[s] = NoLocals
        BY <1>1, <3>1, ReturnEffect
      <4> QED BY <4>1, NoLocalsTyped
    <3>2. CASE s # t
      <4>1. pc'[s] = pc[s] /\ at'[s] = at[s]
        BY <1>1, <3>2, ReturnEffect
      <4> QED BY <1>0, <4>1 DEF Tasked
    <3> QED BY <3>1, <3>2
  <2> QED BY <2>1, <2>2, <2>3 DEF Tasked, OutTyped
<1>2. ASSUME NEW label \in Labels, NEW locals \in Locals,
             Goto(t, label, locals),
             label \in {"qos", "calling"} => locals.ch \in 1..nchan',
             label = "settling" => locals.msg \in Messages,
             locals.mult \in Multiples \cup {FALSE}, locals.op \in AllOps
      PROVE  Tasked' /\ OutTyped'
  <2>1. pc' \in [Tasks -> Labels] /\ at' \in [Tasks -> Locals]
    BY <1>2 DEF Tasked, Goto
  <2>2. OutTyped'
    BY <1>2 DEF Goto, TypeOK, OutTyped
  <2>3. ASSUME NEW s \in Tasks
        PROVE  /\ pc'[s] \in {"qos", "calling"} => at'[s].ch \in 1..nchan'
               /\ pc'[s] = "settling" => at'[s].msg \in Messages
               /\ pc'[s] # "idle" => at'[s].op \in AllOps
               /\ at'[s].mult \in Multiples \cup {FALSE}
    <3>1. CASE s = t
      <4>1. pc'[s] = label /\ at'[s] = locals
        BY <1>2, <3>1, GotoEffect
      <4> QED BY <1>2, <4>1
    <3>2. CASE s # t
      <4>1. pc'[s] = pc[s] /\ at'[s] = at[s]
        BY <1>2, <3>2, GotoEffect
      <4> QED BY <1>0, <4>1 DEF Tasked
    <3> QED BY <3>1, <3>2
  <2> QED BY <2>1, <2>2, <2>3 DEF Tasked
<1> QED BY <1>1, <1>2 DEF Lands

(* The types of everything else; a channel not made yet has no connection.  *)
Objects ==
    /\ conn \in 0..nconn /\ chan \in 0..nchan
    /\ nconn \in 0..MaxConn /\ nchan \in 0..MaxChan
    /\ dead \subseteq away /\ away \subseteq copen
    /\ copen \cup lingering \subseteq 1..nconn /\ copen \cap lingering = {}
    /\ chOpen \cup chDone \cup deaf \subseteq 1..nchan
    /\ chOpen \cap deaf = {} /\ chDone \cap (chOpen \cup deaf) = {}
    /\ chConn \in [Chans -> 0..MaxConn]
    /\ gen \in [Chans -> 0..MaxGen] /\ given \in [Chans -> 0..MaxTags]
    /\ \A c \in Chans : chConn[c] # None => c \in 1..nchan
Stores ==
    /\ pending \subseteq Messages /\ unacked \subseteq Messages
    /\ \A m, n \in pending : m.tag = n.tag => m = n
    /\ receipts \subseteq Messages /\ stranded \subseteq Messages
    /\ forgotten \subseteq 0..MaxConn
    /\ twice \in BOOLEAN /\ wrong \in BOOLEAN

LEMMA TypeOKIs == Objects /\ Stores /\ OutTyped => TypeOK
BY DEF TypeOK, Objects, Stores, OutTyped

Types == Objects /\ Stores /\ OutTyped /\ Tasked

(* A step that lands its task and keeps the types of the rest keeps all.    *)
LEMMA Landed ==
    ASSUME Types, NEW t \in Tasks, Lands(t), Objects', Stores', nchan <= nchan'
    PROVE  Types'
<1>1. TypeOK /\ Tasked
  BY TypeOKIs DEF Types
<1>2. nchan' \in Nat
  BY ConstantsAssumption DEF Objects
<1> QED BY <1>1, <1>2, LandsTyped DEF Types

(* What an active task holds.                                               *)
LEMMA Held ==
    ASSUME Types, NEW t \in Tasks, pc[t] # "idle"
    PROVE  /\ at[t] \in Locals /\ at[t].op \in AllOps
           /\ at[t].mult \in Multiples \cup {FALSE}
           /\ pc[t] \in {"qos", "calling"} => at[t].ch \in 1..nchan
           /\ pc[t] = "settling" => at[t].msg \in Messages
           /\ nchan \in Nat
<1>1. Tasked
  BY DEF Types
<1>2. nchan \in Nat
  BY ConstantsAssumption DEF Types, Objects
<1>3. at[t] \in Locals
  BY <1>1 DEF Tasked
<1>4. /\ at[t].op \in AllOps /\ at[t].mult \in Multiples \cup {FALSE}
      /\ pc[t] \in {"qos", "calling"} => at[t].ch \in 1..nchan
      /\ pc[t] = "settling" => at[t].msg \in Messages
  BY <1>1 DEF Tasked
<1> QED BY <1>2, <1>3, <1>4

(* Each action keeps the types.                                             *)
LEMMA QuietTypes ==
    ASSUME Types, NEW t \in Tasks, Quiet(t)
    PROVE  Types'
<1>1. Objects /\ Stores /\ UNCHANGED <<client, pika, unacked, receipts, ghost>>
  BY DEF Types, Quiet
<1>2. Objects'
  BY <1>1 DEF Objects, client, pika
<1>3. Stores'
  BY <1>1 DEF Stores, client, pika, ghost
<1>4. nchan' = nchan /\ nchan \in Nat /\ nchan <= nchan'
  BY <1>1, ConstantsAssumption DEF Objects, pika
<1>5. Lands(t)
  <2>1. CASE \E op \in AllOps, res \in Results : Return(t, op, res)
    BY <2>1 DEF Lands
  <2>2. ASSUME NEW label \in {"connecting", "channel", "qos", "opening", "calling"},
               NEW locals \in Locals,
               Goto(t, label, locals),
               label \in {"qos", "calling"} => locals.ch \in 1..nchan,
               locals.mult \in Multiples \cup {FALSE}, locals.op \in AllOps
        PROVE  Lands(t)
    <3>1. label \in Labels /\ label # "settling"
      BY DEF Labels
    <3> QED BY <1>4, <2>2, <3>1 DEF Lands
  <2> QED BY <2>1, <2>2 DEF Quiet, Moves
<1> QED BY <1>2, <1>3, <1>4, <1>5, Landed

LEMMA ConnectedTypes ==
    ASSUME Types, NEW t \in Tasks, Connected(t)
    PROVE  Types'
<1> DEFINE locals == [at[t] EXCEPT !.k = nconn + 1]
<1>0. Objects /\ Stores
  BY DEF Types
<1>1. nconn + 1 \in 1..MaxConn /\ nconn' = nconn + 1 /\ nchan' = nchan
      /\ pc[t] = "connecting" /\ Goto(t, "channel", locals)
  BY DEF Connected, Conns
<1>2. locals \in Locals /\ locals.op \in AllOps
      /\ locals.mult \in Multiples \cup {FALSE}
  <2>1. /\ at[t] \in Locals /\ at[t].op \in AllOps
        /\ at[t].mult \in Multiples \cup {FALSE}
    BY <1>1, Held
  <2>2. nconn + 1 \in 0..MaxConn
    BY <1>1, ConstantsAssumption
  <2> QED BY <2>1, <2>2 DEF Locals
<1>3. Objects'
  BY <1>0, <1>1, ConstantsAssumption DEF Connected, Objects
<1>4. Stores'
  BY <1>0, <1>1, ConstantsAssumption DEF Connected, Objects, Stores
<1> HIDE DEF locals
<1>5. Lands(t)
  BY <1>1, <1>2 DEF Lands, Labels
<1>6. nchan <= nchan'
  BY <1>0, <1>1, ConstantsAssumption DEF Objects
<1> QED BY <1>3, <1>4, <1>5, <1>6, Landed

LEMMA NewChannelTypes ==
    ASSUME Types, NEW t \in Tasks,
           GotFirstChannel(t) \/ GotChannel(t)
    PROVE  Types'
<1> DEFINE locals == [at[t] EXCEPT !.ch = chan']
<1>0. Objects /\ Stores
  BY DEF Types
<1>1. NewChannel(at[t].k) /\ pc[t] # "idle"
      /\ (Goto(t, "qos", locals) \/ Goto(t, "calling", locals))
  BY DEF GotFirstChannel, GotChannel
<1>2. nchan' = nchan + 1 /\ chan' = nchan' /\ nchan' \in 1..MaxChan
      /\ nchan \in Nat
  BY <1>0, <1>1, ConstantsAssumption DEF NewChannel, Chans, Objects
<1>3. Objects'
  <2>1. \A c \in Chans : chConn'[c] # None => c \in 1..nchan'
    <3>1. \A c \in Chans : c # nchan + 1 => chConn'[c] = chConn[c]
      BY <1>0, <1>1 DEF NewChannel, Objects
    <3> QED BY <1>0, <1>2, <3>1 DEF Objects, Chans
  <2>2. chOpen' \subseteq 1..nchan' /\ chDone' \subseteq 1..nchan'
    BY <1>0, <1>1, <1>2 DEF NewChannel, Objects
  <2>3. chConn' \in [Chans -> 0..MaxConn] /\ gen' \in [Chans -> 0..MaxGen]
    BY <1>0, <1>1, ConstantsAssumption DEF NewChannel, Objects
  <2> QED BY <1>0, <1>1, <1>2, <2>1, <2>2, <2>3, ConstantsAssumption
          DEF NewChannel, Objects
<1>4. Stores'
  BY <1>0, <1>1 DEF NewChannel, Stores, ghost
<1>5. locals \in Locals /\ locals.op \in AllOps /\ locals.ch = chan'
      /\ locals.mult \in Multiples \cup {FALSE}
  <2>1. /\ at[t] \in Locals /\ at[t].op \in AllOps
        /\ at[t].mult \in Multiples \cup {FALSE}
    BY <1>1, Held
  <2>2. chan' \in 0..MaxChan
    BY <1>2, ConstantsAssumption
  <2> QED BY <2>1, <2>2 DEF Locals
<1> HIDE DEF locals
<1>6. Lands(t)
  <2>1. locals.ch \in 1..nchan' /\ "qos" \in Labels /\ "calling" \in Labels
    BY <1>2, <1>5 DEF Labels
  <2> QED BY <1>1, <1>5, <2>1 DEF Lands
<1> QED BY <1>2, <1>3, <1>4, <1>6, Landed

(* A task whose operation ends lands.                                       *)
LEMMA ReturnLands ==
    ASSUME NEW t \in Tasks, NEW op \in AllOps, NEW res \in Results,
           Return(t, op, res)
    PROVE  Lands(t)
BY DEF Lands

LEMMA MessageGotTypes ==
    ASSUME Types, NEW t \in Tasks, MessageGot(t)
    PROVE  Types'
<1> DEFINE m == NextDelivery(at[t].ch)
<1>0. Objects /\ Stores
  BY DEF Types
<1>1. Lands(t)
  BY OpNames, ReturnLands DEF MessageGot, Results
<1>2. UNCHANGED <<conn, chan, nconn, copen, away, dead, lingering, nchan,
                  chConn, chOpen, chDone, deaf, gen, ghost>>
  BY DEF MessageGot
<1>3. given' \in [Chans -> 0..MaxTags]
  <2>1. CASE given' = given
    BY <1>0, <2>1 DEF Objects
  <2>2. CASE m \in Messages /\ given' = [given EXCEPT ![at[t].ch] = m.tag]
    <3>1. m.tag \in 0..MaxTags
      BY <2>2, ConstantsAssumption DEF Messages
    <3> QED BY <1>0, <2>2, <3>1 DEF Objects
  <2> QED BY <2>1, <2>2 DEF MessageGot
<1>4. Objects'
  BY <1>0, <1>2, <1>3 DEF Objects
<1>5. \/ UNCHANGED <<unacked, pending, receipts>>
      \/ /\ m \in Messages /\ unacked' \subseteq unacked \cup {m}
         /\ pending' = Store(m) /\ receipts' = receipts \cup {m}
  BY DEF MessageGot
<1>6. Stores'
  <2>1. CASE UNCHANGED <<unacked, pending, receipts>>
    BY <1>0, <1>2, <2>1 DEF Stores, ghost
  <2>2. CASE /\ m \in Messages /\ unacked' \subseteq unacked \cup {m}
             /\ pending' = Store(m) /\ receipts' = receipts \cup {m}
    <3> HIDE DEF m
    <3> QED BY <1>0, <1>2, <2>2 DEF Stores, ghost, Store
  <2> QED BY <1>5, <2>1, <2>2
<1>7. nchan <= nchan'
  BY <1>0, <1>2, ConstantsAssumption DEF Objects
<1> QED BY <1>1, <1>4, <1>6, <1>7, Landed

LEMMA CallFailsTypes ==
    ASSUME Types, NEW t \in Tasks, CallFails(t)
    PROVE  Types'
<1>0. Objects /\ Stores
  BY DEF Types
<1>1. at[t].op \in AllOps
  BY Held DEF CallFails
<1>2. Translate(at[t].op) \subseteq Results
  BY DEF Translate, Results
<1>3. Lands(t)
  BY <1>1, <1>2, ReturnLands DEF CallFails
<1>4. /\ chOpen' \subseteq chOpen /\ unacked' \subseteq unacked
      /\ UNCHANGED <<client, nconn, copen, away, dead, lingering, nchan,
                     chConn, chDone, deaf, gen, given, receipts, ghost>>
  BY DEF CallFails
<1>5. Objects'
  BY <1>0, <1>4 DEF Objects, client
<1>6. Stores'
  BY <1>0, <1>4 DEF Stores, client, ghost
<1>7. nchan <= nchan'
  BY <1>0, <1>4, ConstantsAssumption DEF Objects
<1> QED BY <1>3, <1>5, <1>6, <1>7, Landed

(* The three operations that settle.                                        *)
Take(t) == \E op \in Settles, tag \in 1..MaxTags, mult \in Multiples \cup {FALSE} :
              TakePending(t, op, tag, mult)

LEMMA TakeTypes ==
    ASSUME Types, NEW t \in Tasks, Take(t)
    PROVE  Types'
<1>0. Objects /\ Stores
  BY DEF Types
<1>1. PICK op \in Settles, tag \in 1..MaxTags, mult \in Multiples \cup {FALSE} :
           TakePending(t, op, tag, mult)
  BY DEF Take
<1>2. op \in AllOps /\ mult \in BOOLEAN
  BY OpNames, ConstantsAssumption
<1>3. Lands(t)
  <2>1. CASE {p \in pending : p.tag = tag} = {}
    BY <1>1, <1>2, <2>1, ReturnLands DEF TakePending, Results
  <2>2. CASE {p \in pending : p.tag = tag} # {}
    <3>1. PICK m \in {p \in pending : p.tag = tag} :
               Goto(t, "settling",
                    [NoLocals EXCEPT !.op = op, !.msg = m, !.mult = mult])
      BY <1>1, <2>2 DEF TakePending
    <3> DEFINE locals == [NoLocals EXCEPT !.op = op, !.msg = m, !.mult = mult]
    <3>2. m \in Messages
      BY <1>0, <3>1 DEF Stores
    <3>3. locals \in Locals /\ locals.msg = m /\ locals.mult = mult
          /\ locals.op = op
      BY <1>2, <3>2, NoLocalsTyped DEF Locals
    <3> HIDE DEF locals
    <3>4. Goto(t, "settling", locals)
      BY <3>1 DEF locals
    <3> QED BY <1>2, <3>2, <3>3, <3>4 DEF Lands, Labels
  <2> QED BY <2>1, <2>2
<1>4. /\ pending' \subseteq pending /\ wrong' \in BOOLEAN
      /\ UNCHANGED <<conn, chan, pika, unacked, receipts, stranded, forgotten,
                     twice>>
  BY <1>0, <1>1 DEF TakePending, Stores
<1>5. Objects'
  BY <1>0, <1>4 DEF Objects, pika
<1>6. Stores'
  BY <1>0, <1>4 DEF Stores, pika
<1>7. nchan <= nchan'
  BY <1>0, <1>4, ConstantsAssumption DEF Objects, pika
<1> QED BY <1>3, <1>5, <1>6, <1>7, Landed

LEMMA SettledTypes ==
    ASSUME Types, NEW t \in Tasks, SettleSent(t) \/ SettleFails(t)
    PROVE  Types'
<1>0. Objects /\ Stores
  BY DEF Types
<1>1. at[t].op \in AllOps
  BY Held DEF SettleSent, SettleFails
<1>2. Lands(t)
  BY <1>1, ReturnLands DEF SettleSent, SettleFails, Results
<1>3. /\ chOpen' \subseteq chOpen /\ unacked' \subseteq unacked
      /\ deaf' \ deaf = chOpen \ chOpen' /\ deaf \subseteq deaf'
      /\ receipts' \subseteq receipts /\ twice' \in {twice, TRUE}
      /\ UNCHANGED <<client, nconn, copen, away, dead, lingering, nchan,
                     chConn, chDone, gen, given, stranded, forgotten, wrong>>
  BY <1>0 DEF SettleSent, SettleFails, pika, ghost, Objects
<1>4. Objects'
  BY <1>0, <1>3 DEF Objects, client
<1>5. Stores'
  BY <1>0, <1>3 DEF Stores, client
<1>6. nchan <= nchan'
  BY <1>0, <1>3, ConstantsAssumption DEF Objects
<1> QED BY <1>2, <1>4, <1>5, <1>6, Landed

(* Where the task of close() goes, and what its call takes with it.         *)
CloseStep(t) == Close(t) \/ ChannelClosed(t) \/ ConnectionClosed(t)

LEMMA ClosingTyped ==
    ASSUME NEW t \in Tasks, NEW k \in 0..MaxConn, NEW C \in SUBSET Chans,
           NEW label \in {"closing channel", "closing connection"},
           Goto(t, label, Closing(k, C))
    PROVE  Lands(t)
<1> DEFINE locals == Closing(k, C)
<1>1. locals \in Locals /\ locals.mult = FALSE /\ locals.op = "close"
  BY OpNames, NoLocalsTyped DEF Closing, Locals
<1> HIDE DEF locals
<1>2. Goto(t, label, locals)
  BY DEF locals
<1>3. label \in Labels /\ label \notin {"qos", "calling", "settling"}
  BY DEF Labels
<1> QED BY <1>1, <1>2, <1>3, OpNames DEF Lands

LEMMA CloseConnectionLands ==
    ASSUME Types, NEW t \in Tasks, CloseConnection(t)
    PROVE  Lands(t)
<1>1. CASE NeedsConnection
  BY <1>1, OpNames, ReturnLands DEF CloseConnection, Results
<1>2. CASE ~NeedsConnection
  <2>1. chOpen \subseteq Chans /\ conn \in 0..MaxConn
    BY ConstantsAssumption DEF Types, Objects, Chans
  <2> QED BY <1>2, <2>1, ClosingTyped DEF CloseConnection
<1> QED BY <1>1, <1>2

LEMMA CloseLands ==
    ASSUME Types, NEW t \in Tasks, CloseStep(t)
    PROVE  Lands(t)
<1>1. CASE Close(t)
  <2>1. CASE NeedsChannel
    BY <1>1, <2>1, CloseConnectionLands DEF Close
  <2>2. CASE ~NeedsChannel
    <3>1. {chan} \in SUBSET Chans
      BY <2>2, ConstantsAssumption DEF Types, Objects, Chans, NeedsChannel
    <3>2. Goto(t, "closing channel", Closing(None, {chan}))
      BY <1>1, <2>2 DEF Close
    <3>3. None \in 0..MaxConn
      BY ConstantsAssumption
    <3> QED BY <3>1, <3>2, <3>3, ClosingTyped
  <2> QED BY <2>1, <2>2
<1>2. CASE ChannelClosed(t)
  BY <1>2, CloseConnectionLands DEF ChannelClosed
<1>3. CASE ConnectionClosed(t)
  BY <1>3, OpNames, ReturnLands DEF ConnectionClosed, Results
<1> QED BY <1>1, <1>2, <1>3 DEF CloseStep

(* What may end with a call of close(): channels and connections, with their*)
(* deliveries.  Nothing begins.                                             *)
OnlyEnds ==
    /\ conn' \in {conn, None} /\ chan' \in {chan, None}
    /\ pending' \in {pending, {}}
    /\ copen' \subseteq copen /\ away' = away \cap copen'
    /\ dead' = dead \cap copen'
    /\ lingering' \subseteq lingering \cup (copen \ copen')
    /\ chOpen' \subseteq chOpen /\ deaf' \subseteq deaf
    /\ chDone \subseteq chDone' /\ chDone' \cap (chOpen' \cup deaf') = {}
    /\ chDone' \subseteq chDone \cup chOpen \cup deaf
                         \cup {c \in Chans : chConn[c] \in copen}
    /\ unacked' \subseteq unacked
    /\ \A c \in chOpen \ chOpen', m \in unacked' : m.ch # c
    /\ \A m \in unacked : m.ch \in chOpen' => m \in unacked'
    /\ \A c \in chOpen' : chConn[c] \in copen => chConn[c] \in copen'
    /\ UNCHANGED <<nconn, nchan, chConn, gen, given, receipts, ghost>>

LEMMA CloseEnds ==
    ASSUME Types, NEW t \in Tasks, CloseStep(t)
    PROVE  OnlyEnds
<1>0. Objects
  BY DEF Types
<1>1. ASSUME CloseConnection(t)
      PROVE  /\ conn' \in {conn, None}
             /\ copen' \subseteq copen /\ away' = away \cap copen'
             /\ dead' = dead \cap copen'
             /\ lingering' \subseteq lingering \cup (copen \ copen')
             /\ chOpen' \subseteq chOpen /\ deaf' \subseteq deaf
             /\ chDone \subseteq chDone' /\ chDone' \cap (chOpen' \cup deaf') = {}
             /\ chDone' \subseteq chDone \cup chOpen \cup deaf
                                  \cup {c \in Chans : chConn[c] \in copen}
             /\ unacked' \subseteq unacked
             /\ \A c \in chOpen \ chOpen', m \in unacked' : m.ch # c
             /\ \A m \in unacked : m.ch \in chOpen' => m \in unacked'
             /\ \A c \in chOpen' : chConn[c] \in copen => chConn[c] \in copen'
  <2>1. CASE NeedsConnection
    BY <1>0, <1>1, <2>1 DEF CloseConnection, Objects
  <2>2. CASE ~NeedsConnection
    <3>1. chOpen \subseteq Chans
      BY <1>0, ConstantsAssumption DEF Objects, Chans
    <3>2. conn \in copen
      BY <2>2 DEF NeedsConnection
    <3>3. conn' = conn /\ ConnectionEnds(conn)
      BY <1>1, <2>2 DEF CloseConnection
    <3> QED BY <1>0, <3>1, <3>2, <3>3 DEF ConnectionEnds, ChannelsEnd, Objects
  <2> QED BY <2>1, <2>2
<1>2. CASE Close(t) /\ NeedsChannel
  <2>1. CloseConnection(t)
    BY <1>2 DEF Close
  <2> QED BY <1>1, <1>2, <2>1 DEF Close, OnlyEnds
<1>3. CASE Close(t) /\ ~NeedsChannel
  <2>1. chan \in chOpen \cup deaf
    BY <1>3 DEF NeedsChannel
  <2>2. /\ ChannelsEnd({chan}) /\ pending' = {}
        /\ UNCHANGED <<conn, chan, copen, away, dead, lingering, nconn, nchan, chConn, gen,
                       given, receipts, ghost>>
    BY <1>3 DEF Close
  <2>3. away' = away \cap copen' /\ dead' = dead \cap copen'
    BY <1>0, <2>2 DEF Objects
  <2>4. /\ chOpen' \subseteq chOpen /\ unacked' \subseteq unacked
        /\ deaf' \subseteq deaf /\ chDone \subseteq chDone'
        /\ chDone' \subseteq chDone \cup chOpen \cup deaf
        /\ chDone' \cap (chOpen' \cup deaf') = {}
        /\ \A c \in chOpen \ chOpen', m \in unacked' : m.ch # c
        /\ \A m \in unacked : m.ch \in chOpen' => m \in unacked'
    BY <1>0, <2>1, <2>2 DEF ChannelsEnd, Objects
  <2> QED BY <2>2, <2>3, <2>4 DEF OnlyEnds
<1>4. CASE ChannelClosed(t)
  <2>1. CloseConnection(t)
    BY <1>4 DEF ChannelClosed
  <2> QED BY <1>1, <1>4, <2>1 DEF ChannelClosed, OnlyEnds
<1>5. CASE ConnectionClosed(t)
  BY <1>0, <1>5 DEF ConnectionClosed, OnlyEnds, pika, Objects
<1> QED BY <1>2, <1>3, <1>4, <1>5 DEF CloseStep

LEMMA EndsTyped ==
    ASSUME Types, OnlyEnds
    PROVE  Objects' /\ Stores' /\ nchan <= nchan'
<1>0. Objects /\ Stores
  BY DEF Types
<1>1. conn' \in 0..nconn /\ chan' \in 0..nchan
  BY <1>0, ConstantsAssumption DEF OnlyEnds, Objects
<1>2. chDone' \subseteq 1..nchan
  <2>1. \A c \in Chans : chConn[c] \in copen => c \in 1..nchan
    BY <1>0, ConstantsAssumption DEF Objects
  <2> QED BY <1>0, <2>1 DEF OnlyEnds, Objects
<1>3. Objects'
  BY <1>0, <1>1, <1>2 DEF OnlyEnds, Objects
<1>4. Stores'
  BY <1>0 DEF OnlyEnds, Stores, ghost
<1>5. nchan <= nchan'
  BY <1>0, ConstantsAssumption DEF OnlyEnds, Objects
<1> QED BY <1>3, <1>4, <1>5

LEMMA CloseTypes ==
    ASSUME Types, NEW t \in Tasks, CloseStep(t)
    PROVE  Types'
BY CloseLands, CloseEnds, EndsTyped, Landed

(* What a cancellation changes of the client.                               *)
LEMMA CancelledEffect ==
    ASSUME Types, NEW t \in Tasks, Cancelled(t)
    PROVE  /\ conn' \in {conn, None} /\ chan' \in {chan, None}
           /\ \/ UNCHANGED <<given, unacked>>
              \/ /\ at[t].ch \in chOpen /\ NextDelivery(at[t].ch) \in Messages
                 /\ given' = [given EXCEPT ![at[t].ch] = @ + 1]
                 /\ unacked' = unacked \cup {NextDelivery(at[t].ch)}
           /\ forgotten' \subseteq forgotten \cup (0..MaxConn)
           /\ UNCHANGED <<pending, nconn, copen, away, dead, lingering, nchan,
                          chConn, chOpen, chDone, deaf, gen, receipts, twice,
                          wrong>>
<1>1. pc[t] # "idle" => at[t].k \in 0..MaxConn
  BY Held DEF Locals
<1> QED BY <1>1 DEF Cancelled

LEMMA CancelledTypes ==
    ASSUME Types, NEW t \in Tasks, Cancelled(t)
    PROVE  Types'
<1>0. Objects /\ Stores
  BY DEF Types
<1>1. Lands(t)
  BY Held, ReturnLands DEF Cancelled, Results
<1>2. given' \in [Chans -> 0..MaxTags] /\ unacked' \subseteq Messages
  <2>1. CASE UNCHANGED <<given, unacked>>
    BY <1>0, <2>1 DEF Objects, Stores
  <2>2. CASE /\ at[t].ch \in chOpen /\ NextDelivery(at[t].ch) \in Messages
             /\ given' = [given EXCEPT ![at[t].ch] = @ + 1]
             /\ unacked' = unacked \cup {NextDelivery(at[t].ch)}
    <3>1. given[at[t].ch] + 1 \in 0..MaxTags
      BY <2>2, ConstantsAssumption DEF NextDelivery, Messages
    <3>2. given' \in [Chans -> 0..MaxTags]
      BY <1>0, <2>2, <3>1 DEF Objects
    <3> QED BY <1>0, <2>2, <3>2 DEF Stores
  <2> QED BY <2>1, <2>2, CancelledEffect
<1>3. stranded' \subseteq Messages
  <2>1. pc[t] = "settling" => at[t].msg \in Messages
    BY Held
  <2> QED BY <1>0, <2>1 DEF Cancelled, Stores
<1>4. Objects'
  <2>1. conn' \in 0..nconn /\ chan' \in 0..nchan
    BY <1>0, CancelledEffect, ConstantsAssumption DEF Objects
  <2>2. UNCHANGED <<nconn, copen, away, dead, lingering, nchan, chConn, chOpen,
                    chDone, deaf, gen>>
    BY CancelledEffect
  <2> QED BY <1>0, <1>2, <2>1, <2>2 DEF Objects
<1>5. Stores'
  BY <1>0, <1>2, <1>3, CancelledEffect DEF Stores
<1>6. nchan <= nchan'
  BY <1>0, CancelledEffect, ConstantsAssumption DEF Objects
<1> QED BY <1>1, <1>4, <1>5, <1>6, Landed

(* The links and what is reopened on them.                                  *)
LinkStep ==
    \/ \E k \in Conns :
          LinkLost(k) \/ LinkNoticed(k) \/ LinkRestored(k) \/ Dropped(k)
    \/ \E c \in Chans :
          ChannelLost(c) \/ ChannelNoticed(c) \/ ChannelRestored(c)

LEMMA LinkTypes ==
    ASSUME Types, LinkStep
    PROVE  Types'
<1>0. Objects /\ Stores
  BY DEF Types
<1>1. /\ dead' \subseteq away' /\ away' \subseteq copen
      /\ lingering' \subseteq lingering
      /\ chOpen' \cup deaf' \subseteq 1..nchan
      /\ chOpen' \cap deaf' = {} /\ chDone \cap (chOpen' \cup deaf') = {}
      /\ unacked' \subseteq unacked
      /\ UNCHANGED <<client, nconn, copen, nchan, chConn, chDone, pc, at, out,
                     receipts, ghost>>
  BY <1>0 DEF LinkStep, LinkLost, LinkNoticed, LinkRestored, Dropped,
      ChannelLost, ChannelNoticed, ChannelRestored, OnLink, On, Objects
<1>2. gen' \in [Chans -> 0..MaxGen] /\ given' \in [Chans -> 0..MaxTags]
  <2>0. gen \in [Chans -> 0..MaxGen] /\ given \in [Chans -> 0..MaxTags]
    BY <1>0 DEF Objects
  <2>1. CASE UNCHANGED <<gen, given>>
    BY <2>0, <2>1
  <2>2. ASSUME NEW c \in Chans, ChannelRestored(c)
        PROVE  /\ gen' \in [Chans -> 0..MaxGen]
               /\ given' \in [Chans -> 0..MaxTags]
    <3>1. /\ gen[c] < MaxGen
          /\ gen' = [gen EXCEPT ![c] = @ + 1]
          /\ given' = [given EXCEPT ![c] = 0]
      BY <2>2 DEF ChannelRestored
    <3>2. gen[c] + 1 \in 0..MaxGen /\ 0 \in 0..MaxTags
      BY <2>0, <3>1, ConstantsAssumption
    <3> QED BY <2>0, <3>1, <3>2
  <2> QED BY <2>1, <2>2 DEF LinkStep, LinkLost, LinkNoticed, LinkRestored,
          Dropped, ChannelLost, ChannelNoticed
<1>3. Objects'
  BY <1>0, <1>1, <1>2 DEF Objects, client
<1>4. Stores'
  BY <1>0, <1>1 DEF Stores, client, ghost
<1>5. Tasked' /\ OutTyped'
  BY <1>1 DEF Types, Tasked, OutTyped
<1> QED BY <1>3, <1>4, <1>5 DEF Types

(* The kinds of steps.                                                      *)
TaskStep(t) ==
    \/ QuietAction(t) \/ Connected(t)
    \/ GotFirstChannel(t) \/ GotChannel(t)
    \/ MessageGot(t) \/ CallFails(t)
    \/ Take(t) \/ SettleSent(t) \/ SettleFails(t)
    \/ CloseStep(t) \/ Cancelled(t)

LEMMA Steps ==
    ASSUME Next
    PROVE  (\E t \in Tasks : TaskStep(t)) \/ LinkStep
<1>1. ASSUME NEW t \in Tasks, Begin(t)
      PROVE  QuietAction(t) \/ CloseStep(t) \/ Take(t)
  <2>1. CASE \E op \in AllOps : Operation(t, op)
    BY <2>1 DEF QuietAction
  <2>2. CASE \E tag \in 1..MaxTags :
                AckMessage(t, tag) \/ NackMessage(t, tag) \/ RejectMessage(t, tag)
    BY <2>2 DEF AckMessage, NackMessage, RejectMessage, Take, Settles
  <2>3. CASE Connect(t) \/ Close(t) \/ GetConnectionInfo(t)
    BY <2>3 DEF QuietAction, CloseStep
  <2>4. CASE \/ DeclareQueue(t) \/ GetQueueInfo(t) \/ DeleteQueue(t)
             \/ PurgeQueue(t) \/ BindQueue(t) \/ UnbindQueue(t)
             \/ DeclareExchange(t) \/ DeleteExchange(t) \/ BindExchange(t)
             \/ PublishDefault(t) \/ PublishToExchange(t) \/ ConsumeMessage(t)
             \/ CheckHealth(t)
    BY <2>1, <2>4 DEF DeclareQueue, GetQueueInfo, DeleteQueue, PurgeQueue,
       BindQueue, UnbindQueue, DeclareExchange, DeleteExchange, BindExchange,
       PublishDefault, PublishToExchange, ConsumeMessage, CheckHealth,
       AllOps, OneCall, TwoCalls
  <2> QED BY <1>1, <2>2, <2>3, <2>4 DEF Begin
<1>2. ASSUME NEW t \in Tasks, Resume(t)
      PROVE  \/ QuietAction(t) \/ Connected(t)
             \/ GotFirstChannel(t) \/ GotChannel(t)
             \/ MessageGot(t) \/ CallFails(t)
             \/ SettleSent(t) \/ SettleFails(t) \/ CloseStep(t)
  BY <1>2 DEF Resume, QuietAction, CloseStep
<1> QED BY <1>1, <1>2 DEF Next, LinkStep, TaskStep

(* Every step keeps the types.                                              *)
LEMMA NextTypes ==
    ASSUME Types, [Next]_vars
    PROVE  Types'
<1>1. ASSUME NEW t \in Tasks, QuietAction(t)
      PROVE  Types'
  BY <1>1, QuietActions, QuietTypes, TypeOKIs DEF Types
<1>2. CASE UNCHANGED vars
  BY <1>2 DEF vars, client, pika, ghost, Types, Tasked, Objects, Stores, OutTyped
<1>3. CASE Next
  BY <1>1, <1>3, Steps, ConnectedTypes, NewChannelTypes, MessageGotTypes,
     CallFailsTypes, TakeTypes, SettledTypes, CloseTypes, CancelledTypes,
     LinkTypes DEF TaskStep
<1> QED BY <1>2, <1>3

(* The types hold at the start.                                             *)
LEMMA InitTypes == Init => Types
<1> SUFFICES ASSUME Init PROVE Types
  OBVIOUS
<1>1. Objects
  BY ConstantsAssumption DEF Init, Objects, Chans
<1>2. Stores /\ OutTyped
  BY DEF Init, Stores, OutTyped, Results
<1>3. Tasked
  BY NoLocalsTyped DEF Init, Tasked, Labels
<1> QED BY <1>1, <1>2, <1>3 DEF Types

(* The client, the objects of aio-pika and every task's local variables have*)
(* their types in every reachable state, and at most one stored message has *)
(* a given tag: _pending_messages is a dictionary.                          *)
THEOREM TypeCorrect == Spec => []TypeOK
<1>1. Types => TypeOK
  BY TypeOKIs DEF Types
<1> QED BY <1>1, InitTypes, NextTypes, PTL DEF Spec

-----------------------------------------------------------------------------
(* A delivery is settled once                                               *)

(* No incarnation of a channel is older than it was, none that did not begin*)
(* anew takes tags back or is opened.                                       *)
Grows ==
    /\ nchan <= nchan'
    /\ \A c \in Chans : c <= nchan =>
          /\ gen[c] <= gen'[c]
          /\ gen'[c] = gen[c] => /\ given[c] <= given'[c]
                                 /\ c \in chOpen' => c \in chOpen

(* What the broker waits for goes only with its channel.                    *)
NoneLost == \A m \in unacked : m.ch \in chOpen' /\ gen'[m.ch] = m.gen
                               => m \in unacked'

Steady == Grows /\ NoneLost /\ Nested'

(* Nobody begins to settle.                                                 *)
NoneTakes ==
    /\ pending' \subseteq pending /\ twice' = twice
    /\ \A s \in Tasks : pc'[s] = "settling" =>
          pc[s] = "settling" /\ at'[s].msg = at[s].msg

Counted ==
    /\ nchan \in Nat /\ gen \in [Chans -> Nat] /\ given \in [Chans -> Nat]

LEMMA TypesCounted == Objects => Counted
BY ConstantsAssumption DEF Objects, Counted

LEMMA TypesCountedNext == Objects' => Counted'
BY ConstantsAssumption DEF Objects, Counted

(* A message is of a channel, and its numbers can be compared.              *)
LEMMA MessageTyped ==
    ASSUME NEW m \in Messages
    PROVE  m.ch \in Chans /\ m.ch \in Nat /\ m.gen \in Nat /\ m.tag \in Nat
BY ConstantsAssumption DEF Messages, Chans

(* What a channel has given out stays given out.                            *)
LEMMA PastStays ==
    ASSUME Counted, Counted', Grows, NEW m \in Messages, Past(m)
    PROVE  Past(m)' /\ (Alive(m)' => Alive(m))
<1>1. /\ m.ch \in Chans /\ m.ch \in Nat /\ m.gen \in Nat /\ m.tag \in Nat
      /\ nchan \in Nat /\ gen[m.ch] \in Nat /\ given[m.ch] \in Nat
      /\ nchan' \in Nat /\ gen'[m.ch] \in Nat /\ given'[m.ch] \in Nat
  BY MessageTyped DEF Counted
<1>2. /\ nchan <= nchan' /\ m.ch <= nchan /\ gen[m.ch] <= gen'[m.ch]
      /\ m.gen <= gen[m.ch] /\ (m.gen = gen[m.ch] => m.tag <= given[m.ch])
      /\ gen'[m.ch] = gen[m.ch] => given[m.ch] <= given'[m.ch]
      /\ gen'[m.ch] = gen[m.ch] /\ m.ch \in chOpen' => m.ch \in chOpen
  BY <1>1 DEF Grows, Past
<1>3. Past(m)'
  BY <1>1, <1>2 DEF Past
<1>4. Alive(m)' => Alive(m)
  BY <1>1, <1>2 DEF Alive
<1> QED BY <1>3, <1>4

(* The message that a task is settling.                                     *)
LEMMA SettlingStays ==
    ASSUME Counted, Counted', Grows, NEW s \in Tasks, at[s].msg \in Messages,
           at'[s].msg = at[s].msg, Past(at[s].msg)
    PROVE  Past(at[s].msg)' /\ (Alive(at[s].msg)' => Alive(at[s].msg))
<1>1. \A m \in Messages : Past(m) => Past(m)' /\ (Alive(m)' => Alive(m))
  BY PastStays
<1>2. PICK m \in Messages : m = at[s].msg
  OBVIOUS
<1>3. Past(m)' /\ (Alive(m)' => Alive(m))
  BY <1>1, <1>2
<1> QED BY <1>2, <1>3 DEF Past, Alive

(* Where nobody begins to settle, deliveries stay settled once.             *)
LEMMA SteadyOnce ==
    ASSUME Types, Types', Steady, NoneTakes, AllPast
    PROVE  AllPast' /\ (Once => Once')
<1>0. Counted /\ Counted' /\ Grows /\ NoneLost
  BY TypesCounted, TypesCountedNext DEF Types, Steady
<1>1. /\ \A m \in pending : m \in Messages
      /\ \A s \in Tasks : pc[s] = "settling" => at[s].msg \in Messages
  BY DEF Types, Stores, Tasked
<1>2. ASSUME NEW m \in pending'
      PROVE  Past(m)' /\ (Alive(m)' => Alive(m)) /\ m \in pending
  <2>1. m \in pending /\ m \in Messages /\ Past(m)
    BY <1>1 DEF NoneTakes, AllPast
  <2> QED BY <1>0, <2>1, PastStays
<1>3. ASSUME NEW s \in Tasks, pc'[s] = "settling"
      PROVE  /\ pc[s] = "settling" /\ at'[s].msg = at[s].msg
             /\ Past(at[s].msg)'
             /\ Alive(at[s].msg)' => Alive(at[s].msg)
  <2>1. /\ pc[s] = "settling" /\ at'[s].msg = at[s].msg
        /\ at[s].msg \in Messages /\ Past(at[s].msg)
    BY <1>1, <1>3 DEF NoneTakes, AllPast
  <2> QED BY <1>0, <2>1, SettlingStays
<1>4. AllPast'
  BY <1>2, <1>3 DEF AllPast
<1>5. ASSUME Once
      PROVE  Once'
  <2>1. ~twice'
    BY <1>5 DEF Once, NoneTakes
  <2>2. ASSUME NEW m \in pending', Alive(m)'
        PROVE  m \in unacked'
    <3>1. m \in pending /\ m \in unacked
      BY <1>2, <1>5, <2>2 DEF Once
    <3> QED BY <1>0, <2>2, <3>1 DEF NoneLost, Alive
  <2>3. ASSUME NEW s \in Tasks, pc'[s] = "settling"
        PROVE  /\ Alive(at[s].msg)' => at'[s].msg \in unacked'
               /\ at'[s].msg \notin pending'
    <3>1. /\ Alive(at[s].msg) => at[s].msg \in unacked
          /\ at[s].msg \notin pending
      BY <1>3, <1>5, <2>3 DEF Once
    <3>2. ASSUME Alive(at[s].msg)'
          PROVE  at'[s].msg \in unacked'
      <4>1. at[s].msg \in unacked /\ at'[s].msg = at[s].msg
        BY <1>3, <2>3, <3>1, <3>2
      <4> QED BY <1>0, <3>2, <4>1 DEF NoneLost, Alive
    <3> QED BY <1>3, <2>3, <3>1, <3>2 DEF NoneTakes
  <2>4. ASSUME NEW s \in Tasks, NEW u \in Tasks,
               pc'[s] = "settling", pc'[u] = "settling", s # u
        PROVE  at'[s].msg # at'[u].msg
    BY <1>3, <1>5, <2>4 DEF Once
  <2> QED BY <2>1, <2>2, <2>3, <2>4 DEF Once
<1> QED BY <1>4, <1>5

(* A task that goes elsewhere does not begin to settle.                     *)
LEMMA GoesElsewhere ==
    ASSUME Tasked, NEW t \in Tasks,
           \/ \E op, res : Return(t, op, res)
           \/ \E label, locals : label # "settling" /\ Goto(t, label, locals)
    PROVE  \A s \in Tasks : pc'[s] = "settling" =>
              s # t /\ pc[s] = "settling" /\ at'[s].msg = at[s].msg
<1>1. pc'[t] # "settling"
  BY ReturnEffect, GotoEffect
<1>2. \A s \in Tasks : s # t => pc'[s] = pc[s] /\ at'[s] = at[s]
  BY ReturnEffect, GotoEffect
<1> QED BY <1>1, <1>2

LEMMA QuietSteady ==
    ASSUME Types, Nested, NEW t \in Tasks, Quiet(t)
    PROVE  Steady /\ NoneTakes
<1>1. UNCHANGED <<client, pika, unacked, receipts, ghost>> /\ Moves(t)
  BY DEF Quiet
<1>2. Counted
  BY TypesCounted DEF Types
<1>3. Grows /\ NoneLost
  BY <1>1, <1>2 DEF Grows, NoneLost, Counted, pika
<1>4. Nested'
  BY <1>1 DEF Nested, Alive, pika
<1>5. NoneTakes
  <2>1. \A s \in Tasks : pc'[s] = "settling" =>
           s # t /\ pc[s] = "settling" /\ at'[s].msg = at[s].msg
    BY <1>1, GoesElsewhere DEF Types, Moves
  <2> QED BY <1>1, <2>1 DEF NoneTakes, client, ghost
<1> QED BY <1>3, <1>4, <1>5 DEF Steady

LEMMA ConnectedSteady ==
    ASSUME Types, Nested, NEW t \in Tasks, Connected(t)
    PROVE  Steady /\ NoneTakes
<1>0. Counted
  BY TypesCounted DEF Types
<1>1. /\ copen \subseteq copen' /\ pending' = pending /\ twice' = twice
      /\ UNCHANGED <<away, nchan, chConn, chOpen, gen, given, unacked>>
  BY DEF Connected
<1>2. Grows /\ NoneLost
  BY <1>0, <1>1 DEF Grows, NoneLost, Counted
<1>3. Nested'
  BY <1>1 DEF Nested, Alive
<1>4. \A s \in Tasks : pc'[s] = "settling" =>
         s # t /\ pc[s] = "settling" /\ at'[s].msg = at[s].msg
  BY GoesElsewhere DEF Types, Connected
<1> QED BY <1>1, <1>2, <1>3, <1>4 DEF Steady, NoneTakes

LEMMA NewChannelSteady ==
    ASSUME Types, Nested, NEW t \in Tasks, GotFirstChannel(t) \/ GotChannel(t)
    PROVE  Steady /\ NoneTakes
<1>0. Counted /\ Objects /\ chOpen \subseteq 1..nchan
  BY TypesCounted DEF Types, Objects
<1>1. NewChannel(at[t].k)
  BY DEF GotFirstChannel, GotChannel
<1>2. /\ nchan' = nchan + 1 /\ chOpen' = chOpen \cup {nchan + 1}
      /\ at[t].k \in copen \ away /\ nchan + 1 \in Chans
      /\ chConn' = [chConn EXCEPT ![nchan + 1] = at[t].k]
      /\ gen' = [gen EXCEPT ![nchan + 1] = 1]
      /\ UNCHANGED <<pending, copen, away, given, unacked, twice>>
  BY <1>1 DEF NewChannel, ghost
<1>3. \A c \in Chans : c # nchan + 1 => chConn'[c] = chConn[c] /\ gen'[c] = gen[c]
  BY <1>0, <1>2 DEF Objects
<1>4. Grows /\ NoneLost
  <2>1. nchan <= nchan'
    BY <1>0, <1>2 DEF Counted
  <2>2. \A c \in Chans : c <= nchan => c # nchan + 1
    BY <1>0 DEF Counted, Chans
  <2> QED BY <1>0, <1>2, <1>3, <2>1, <2>2 DEF Grows, NoneLost, Counted
<1>5. Nested'
  <2>1. \A c \in chOpen : c \in Chans /\ c # nchan + 1
    BY <1>0, <1>2, ConstantsAssumption DEF Counted, Chans
  <2>2. chConn'[nchan + 1] = at[t].k
    BY <1>0, <1>2 DEF Objects
  <2> QED BY <1>2, <1>3, <2>1, <2>2 DEF Nested, Alive
<1>6. \A s \in Tasks : pc'[s] = "settling" =>
         s # t /\ pc[s] = "settling" /\ at'[s].msg = at[s].msg
  BY GoesElsewhere DEF Types, GotFirstChannel, GotChannel
<1> QED BY <1>2, <1>4, <1>5, <1>6 DEF Steady, NoneTakes

LEMMA CallFailsSteady ==
    ASSUME Types, Nested, NEW t \in Tasks, CallFails(t)
    PROVE  Steady /\ NoneTakes
<1>0. Counted
  BY TypesCounted DEF Types
<1>1. /\ \/ UNCHANGED <<chOpen, unacked>>
         \/ /\ chOpen' = chOpen \ {at[t].ch}
            /\ unacked' = unacked \ On(at[t].ch)
      /\ UNCHANGED <<pending, copen, away, nchan, chConn, gen, given, twice>>
  BY DEF CallFails, client, ghost
<1>2. Grows /\ NoneLost
  BY <1>0, <1>1 DEF Grows, NoneLost, Counted, On
<1>3. Nested'
  BY <1>1 DEF Nested, Alive, On
<1>4. \A s \in Tasks : pc'[s] = "settling" =>
         s # t /\ pc[s] = "settling" /\ at'[s].msg = at[s].msg
  BY GoesElsewhere DEF Types, CallFails
<1> QED BY <1>1, <1>2, <1>3, <1>4 DEF Steady, NoneTakes

LEMMA SettleFailsSteady ==
    ASSUME Types, Nested, NEW t \in Tasks, SettleFails(t)
    PROVE  Steady /\ NoneTakes
<1>0. Counted
  BY TypesCounted DEF Types
<1>1. UNCHANGED <<client, pika, unacked, ghost>>
  BY DEF SettleFails
<1>2. Grows /\ NoneLost
  BY <1>0, <1>1 DEF Grows, NoneLost, Counted, pika
<1>3. Nested'
  BY <1>1 DEF Nested, Alive, pika
<1>4. \A s \in Tasks : pc'[s] = "settling" =>
         s # t /\ pc[s] = "settling" /\ at'[s].msg = at[s].msg
  BY GoesElsewhere DEF Types, SettleFails
<1> QED BY <1>1, <1>2, <1>3, <1>4 DEF Steady, NoneTakes, client, ghost

(* close() takes no message to settle it.                                   *)
LEMMA CloseSteady ==
    ASSUME Types, Nested, NEW t \in Tasks, CloseStep(t)
    PROVE  Steady /\ NoneTakes
<1>0. Counted /\ OnlyEnds
  BY TypesCounted, CloseEnds DEF Types
<1>1. Grows
  BY <1>0 DEF OnlyEnds, Grows, Counted
<1>2. NoneLost
  BY <1>0 DEF OnlyEnds, NoneLost
<1>3. Nested'
  BY <1>0 DEF OnlyEnds, Nested, Alive
<1>4. \A s \in Tasks : pc'[s] = "settling" =>
         s # t /\ pc[s] = "settling" /\ at'[s].msg = at[s].msg
  BY GoesElsewhere DEF Types, CloseStep, Close, ChannelClosed,
     ConnectionClosed, CloseConnection
<1> QED BY <1>0, <1>1, <1>2, <1>3, <1>4 DEF Steady, NoneTakes, OnlyEnds, ghost

(* A delivery on channel c is the next one of its incarnation.              *)
Delivers(c) ==
    /\ c \in chOpen /\ NextDelivery(c) \in Messages
    /\ given' = [given EXCEPT ![c] = @ + 1]
    /\ unacked' = unacked \cup {NextDelivery(c)}

(* A step that gives out at most the next tag of a channel is steady.       *)
LEMMA DeliverySteady ==
    ASSUME Types, Nested,
           \/ UNCHANGED <<given, unacked>>
           \/ \E c \in Chans : given' = [given EXCEPT ![c] = @ + 1]
                               /\ UNCHANGED unacked
           \/ \E c \in Chans : Delivers(c),
           UNCHANGED <<copen, away, nchan, chConn, chOpen, gen>>
    PROVE  Steady
<1>0. Counted
  BY TypesCounted DEF Types
<1>1. \A c \in Chans : given[c] <= given'[c]
  BY <1>0 DEF Counted, Delivers
<1>2. Grows /\ NoneLost
  BY <1>0, <1>1 DEF Grows, NoneLost, Counted, Delivers
<1>3. Nested'
  <2>1. \A m \in unacked : m.ch \in Chans /\ m.tag \in Nat
    BY MessageTyped DEF Types, Stores
  <2>2. \A c \in Chans : given[c] \in Nat /\ given'[c] \in Nat
    BY <1>0 DEF Counted, Delivers
  <2>3. \A m \in unacked : Alive(m)' /\ m.tag <= given'[m.ch]
    BY <1>1, <2>1, <2>2 DEF Nested, Alive
  <2>4. ASSUME NEW c \in Chans, Delivers(c)
        PROVE  \A m \in unacked' : Alive(m)' /\ m.tag <= given'[m.ch]
    <3>1. PICK m \in Messages : m = NextDelivery(c)
      BY <2>4 DEF Delivers
    <3>2. m.ch = c /\ m.gen = gen[c] /\ m.tag = given[c] + 1
      BY <3>1 DEF NextDelivery
    <3>3. Alive(m)' /\ m.tag <= given'[m.ch]
      BY <1>0, <2>2, <2>4, <3>2 DEF Delivers, Alive, Counted
    <3> QED BY <2>3, <2>4, <3>1, <3>3 DEF Delivers
  <2>5. \A m \in unacked' : Alive(m)' /\ m.tag <= given'[m.ch]
    BY <2>3, <2>4
  <2>6. \A c \in chOpen' : chConn'[c] \in copen' \ away'
    BY DEF Nested
  <2> QED BY <2>5, <2>6 DEF Nested
<1> QED BY <1>2, <1>3 DEF Steady

LEMMA CancelledSteady ==
    ASSUME Types, Nested, NEW t \in Tasks, Cancelled(t)
    PROVE  Steady /\ NoneTakes
<1>1. chOpen \subseteq Chans
  BY ConstantsAssumption DEF Types, Objects, Chans
<1>2. Steady
  <2>1. UNCHANGED <<copen, away, nchan, chConn, chOpen, gen>>
    BY CancelledEffect
  <2>2. \/ UNCHANGED <<given, unacked>>
        \/ \E c \in Chans : Delivers(c)
    BY <1>1, CancelledEffect DEF Delivers
  <2> QED BY <2>1, <2>2, DeliverySteady
<1>3. \A s \in Tasks : pc'[s] = "settling" =>
         s # t /\ pc[s] = "settling" /\ at'[s].msg = at[s].msg
  BY GoesElsewhere DEF Types, Cancelled
<1> QED BY <1>2, <1>3, CancelledEffect DEF NoneTakes

LEMMA LinkSteady ==
    ASSUME Types, Nested, LinkStep
    PROVE  Steady /\ NoneTakes
<1>0. Counted /\ chOpen \subseteq Chans
  <2>1. Objects
    BY DEF Types
  <2>2. chOpen \subseteq Chans
    BY <2>1, ConstantsAssumption DEF Objects, Chans
  <2> QED BY <2>1, <2>2, TypesCounted
<1>1. NoneTakes
  BY DEF NoneTakes, LinkStep, LinkLost, LinkNoticed, LinkRestored, Dropped,
      ChannelLost, ChannelNoticed, ChannelRestored,
     client, ghost
<1>2. ASSUME NEW k \in Conns, LinkLost(k)
      PROVE  Grows /\ NoneLost /\ Nested'
  <2>1. /\ away' = away \cup {k} /\ chOpen' = {c \in chOpen : chConn[c] # k}
        /\ unacked' = {m \in unacked : chConn[m.ch] # k}
        /\ UNCHANGED <<copen, nchan, chConn, gen, given>>
    BY <1>2 DEF LinkLost, OnLink
  <2> QED BY <1>0, <2>1 DEF Grows, NoneLost, Nested, Alive, Counted
<1>3. ASSUME NEW k \in Conns, LinkRestored(k)
      PROVE  Grows /\ NoneLost /\ Nested'
  <2>1. /\ away' = away \ {k}
        /\ UNCHANGED <<copen, nchan, chConn, chOpen, gen, given, unacked>>
    BY <1>3 DEF LinkRestored
  <2> QED BY <1>0, <2>1 DEF Grows, NoneLost, Nested, Alive, Counted
<1>4. ASSUME NEW c \in Chans, ChannelRestored(c)
      PROVE  Grows /\ NoneLost /\ Nested'
  <2>1. /\ c \notin chOpen /\ chConn[c] \in copen \ away
        /\ chOpen' = chOpen \cup {c}
        /\ gen' = [gen EXCEPT ![c] = @ + 1] /\ given' = [given EXCEPT ![c] = 0]
        /\ UNCHANGED <<copen, away, nchan, chConn, unacked>>
    BY <1>4 DEF ChannelRestored
  <2>2. \A d \in Chans : d # c => gen'[d] = gen[d] /\ given'[d] = given[d]
    BY <1>0, <2>1 DEF Counted
  <2>3. gen'[c] = gen[c] + 1 /\ gen[c] \in Nat
    BY <1>0, <2>1 DEF Counted
  <2>4. Grows /\ NoneLost
    BY <1>0, <2>1, <2>2, <2>3 DEF Grows, NoneLost, Counted
  <2>5. \A m \in unacked : m.ch \in Chans /\ m.ch # c
    BY <1>0, <2>1 DEF Nested, Alive
  <2>6. Nested'
    BY <2>1, <2>2, <2>5 DEF Nested, Alive
  <2> QED BY <2>4, <2>6
<1>5. ASSUME \/ \E k \in Conns : LinkNoticed(k) \/ Dropped(k)
             \/ \E c \in Chans : ChannelNoticed(c)
      PROVE  Grows /\ NoneLost /\ Nested'
  <2>1. UNCHANGED <<copen, away, nchan, chConn, chOpen, gen, given, unacked>>
    BY <1>5 DEF LinkNoticed, Dropped, ChannelNoticed
  <2> QED BY <1>0, <2>1 DEF Grows, NoneLost, Nested, Alive, Counted
<1>6. ASSUME NEW c \in Chans, ChannelLost(c)
      PROVE  Grows /\ NoneLost /\ Nested'
  <2>1. /\ chOpen' = chOpen \ {c}
        /\ unacked' = {m \in unacked : m.ch # c}
        /\ UNCHANGED <<copen, away, nchan, chConn, gen, given>>
    BY <1>6 DEF ChannelLost, On
  <2> QED BY <1>0, <2>1 DEF Grows, NoneLost, Nested, Alive, Counted
<1> QED BY <1>1, <1>2, <1>3, <1>4, <1>5, <1>6 DEF LinkStep, Steady

(* The new message is not one of those stored or being settled; the message *)
(* stored under its tag, if there is one, gives way to it.                  *)
LEMMA MessageGotOnce ==
    ASSUME Types, Types', Nested, AllPast, NEW t \in Tasks, MessageGot(t)
    PROVE  Nested' /\ AllPast' /\ (Once => Once')
<1>0. /\ Counted /\ Counted'
      /\ \A s \in Tasks : pc'[s] = "settling" =>
            s # t /\ pc[s] = "settling" /\ at'[s].msg = at[s].msg
  <2>1. Objects /\ Objects'
    BY DEF Types
  <2> QED BY <2>1, TypesCounted, TypesCountedNext, GoesElsewhere
          DEF Types, MessageGot
<1>1. PICK c \in Chans : c = at[t].ch /\ c \in 1..nchan
  <2>1. at[t].ch \in 1..nchan
    BY Held DEF MessageGot
  <2> QED BY <2>1, ConstantsAssumption DEF Types, Objects, Chans
<1>2. UNCHANGED <<copen, away, nchan, chConn, chOpen, gen, twice>>
  BY DEF MessageGot, ghost
<1>3. PICK m : m = NextDelivery(c)
  OBVIOUS
<1>4. m.ch = c /\ m.gen = gen[c] /\ m.tag = given[c] + 1
  BY <1>3 DEF NextDelivery
<1>5. \/ UNCHANGED <<given, unacked, pending>>
      \/ /\ m \in Messages /\ given' = [given EXCEPT ![c] = @ + 1]
         /\ UNCHANGED <<unacked, pending>>
      \/ /\ m \in Messages /\ given' = [given EXCEPT ![c] = @ + 1]
         /\ unacked' = IF c \in chOpen THEN unacked \cup {m} ELSE unacked
         /\ pending' = Store(m)
  BY <1>1, <1>3, <1>4 DEF MessageGot
<1>6. Steady
  BY <1>2, <1>3, <1>5, DeliverySteady DEF Delivers
<1>7. CASE UNCHANGED pending
  BY <1>0, <1>2, <1>6, <1>7, SteadyOnce DEF NoneTakes, Steady
<1>8. CASE /\ m \in Messages /\ given' = [given EXCEPT ![c] = @ + 1]
           /\ unacked' = IF c \in chOpen THEN unacked \cup {m} ELSE unacked
           /\ pending' = Store(m)
  <2>0. Grows
    BY <1>6 DEF Steady
  <2>1. Past(m)'
    BY <1>0, <1>1, <1>2, <1>4, <1>8 DEF Past, Counted
  <2>2. \A p \in pending : Past(p)' /\ (Alive(p)' => Alive(p))
    BY <1>0, <2>0, PastStays DEF AllPast, Types, Stores
  <2>3. ASSUME NEW s \in Tasks, pc'[s] = "settling"
        PROVE  /\ Past(at[s].msg)' /\ (Alive(at[s].msg)' => Alive(at[s].msg))
               /\ at'[s].msg # m
    <3>1. /\ at'[s].msg = at[s].msg /\ at[s].msg \in Messages
          /\ Past(at[s].msg)
      BY <1>0, <2>3 DEF AllPast, Types, Tasked
    <3>2. ~Past(m)
      BY <1>0, <1>4 DEF Past, Counted
    <3> QED BY <1>0, <2>0, <3>1, <3>2, SettlingStays
  <2>4. AllPast'
    BY <1>8, <2>1, <2>2, <2>3 DEF AllPast, Store
  <2>5. ASSUME Once
        PROVE  Once'
    <3>1. ~twice'
      BY <1>2, <2>5 DEF Once
    <3>2. \A p \in pending' : Alive(p)' => p \in unacked'
      <4>1. Alive(m)' => m \in unacked'
        BY <1>2, <1>4, <1>8 DEF Alive
      <4> QED BY <1>8, <2>2, <2>5, <4>1 DEF Once, Store
    <3>3. ASSUME NEW s \in Tasks, pc'[s] = "settling"
          PROVE  /\ Alive(at[s].msg)' => at'[s].msg \in unacked'
                 /\ at'[s].msg \notin pending'
      <4>1. pc[s] = "settling" /\ at'[s].msg = at[s].msg
        BY <1>0, <3>3
      <4>2. /\ Alive(at[s].msg) => at[s].msg \in unacked
            /\ at[s].msg \notin pending
        BY <2>5, <4>1 DEF Once
      <4> QED BY <1>8, <2>3, <3>3, <4>1, <4>2 DEF Store
    <3>4. ASSUME NEW s \in Tasks, NEW u \in Tasks,
                 pc'[s] = "settling", pc'[u] = "settling", s # u
          PROVE  at'[s].msg # at'[u].msg
      BY <1>0, <2>5, <3>4 DEF Once
    <3> QED BY <3>1, <3>2, <3>3, <3>4 DEF Once
  <2> QED BY <1>6, <2>4, <2>5 DEF Steady
<1> QED BY <1>5, <1>7, <1>8

(* A message that is taken leaves the dictionary in the same step: nobody   *)
(* else is settling it, and nobody else can take it.                        *)
LEMMA TakeOnce ==
    ASSUME Types, Types', Nested, AllPast, NEW t \in Tasks, Take(t)
    PROVE  Nested' /\ AllPast' /\ (Once => Once')
<1>0. Counted /\ Counted'
  <2>1. Objects /\ Objects'
    BY DEF Types
  <2> QED BY <2>1, TypesCounted, TypesCountedNext
<1>1. PICK op \in Settles, tag \in 1..MaxTags, mult \in Multiples \cup {FALSE} :
           TakePending(t, op, tag, mult)
  BY DEF Take
<1>2. /\ pending' = pending \ {p \in pending : p.tag = tag}
      /\ UNCHANGED <<copen, away, nchan, chConn, chOpen, gen, given, unacked,
                     twice>>
  BY <1>1 DEF TakePending, pika
<1>3. Steady
  BY <1>2, DeliverySteady
<1>4. CASE {p \in pending : p.tag = tag} = {}
  <2>1. \A s \in Tasks : pc'[s] = "settling" =>
           s # t /\ pc[s] = "settling" /\ at'[s].msg = at[s].msg
    BY <1>1, <1>4, GoesElsewhere DEF Types, TakePending
  <2> QED BY <1>2, <1>3, <2>1, SteadyOnce DEF NoneTakes, Steady
<1>5. CASE {p \in pending : p.tag = tag} # {}
  <2>1. PICK m \in {p \in pending : p.tag = tag} :
             Goto(t, "settling",
                  [NoLocals EXCEPT !.op = op, !.msg = m, !.mult = mult])
    BY <1>1, <1>5 DEF TakePending
  <2> DEFINE locals == [NoLocals EXCEPT !.op = op, !.msg = m, !.mult = mult]
  <2>2. m \in pending /\ m \in Messages /\ m \notin pending' /\ locals.msg = m
    BY <1>2, <2>1 DEF Types, Stores, NoLocals
  <2> HIDE DEF locals
  <2>3. /\ at'[t].msg = m
        /\ \A s \in Tasks : s # t => pc'[s] = pc[s] /\ at'[s] = at[s]
    <3>1. Goto(t, "settling", locals)
      BY <2>1 DEF locals
    <3> QED BY <2>2, <3>1, GotoEffect DEF Types
  <2>4. \A p \in Messages : /\ Past(p)' <=> Past(p)
                            /\ Alive(p)' <=> Alive(p)
    BY <1>2 DEF Past, Alive
  <2>5. ASSUME NEW s \in Tasks, pc'[s] = "settling", s # t
        PROVE  /\ pc[s] = "settling" /\ at'[s].msg = at[s].msg
               /\ at[s].msg \in Messages
    BY <2>3, <2>5 DEF Types, Tasked
  <2>6. AllPast'
    <3>1. \A p \in pending' : Past(p)'
      BY <1>2, <2>4 DEF AllPast, Types, Stores
    <3>2. ASSUME NEW s \in Tasks, pc'[s] = "settling"
          PROVE  Past(at[s].msg)'
      <4>1. PICK p \in Messages : p = at'[s].msg /\ Past(p)
        BY <2>2, <2>3, <2>5, <3>2 DEF AllPast
      <4> QED BY <1>2, <4>1 DEF Past
    <3> QED BY <3>1, <3>2 DEF AllPast
  <2>7. ASSUME Once
        PROVE  Once'
    <3>1. ~twice' /\ \A p \in pending' : Alive(p)' => p \in unacked'
      BY <1>2, <2>4, <2>7 DEF Once, Types, Stores
    <3>2. ASSUME NEW s \in Tasks, pc'[s] = "settling"
          PROVE  /\ Alive(at[s].msg)' => at'[s].msg \in unacked'
                 /\ at'[s].msg \notin pending'
      <4>1. CASE s = t
        BY <1>2, <2>2, <2>3, <2>7, <4>1 DEF Once, Alive
      <4>2. CASE s # t
        BY <1>2, <2>5, <2>7, <3>2, <4>2 DEF Once, Alive
      <4> QED BY <4>1, <4>2
    <3>3. ASSUME NEW s \in Tasks, NEW u \in Tasks,
                 pc'[s] = "settling", pc'[u] = "settling", s # u
          PROVE  at'[s].msg # at'[u].msg
      <4>1. ASSUME NEW v \in Tasks, pc'[v] = "settling", v # t
            PROVE  at'[v].msg # m
        BY <2>2, <2>5, <2>7, <4>1 DEF Once
      <4> QED BY <2>3, <2>5, <2>7, <3>3, <4>1 DEF Once
    <3> QED BY <3>1, <3>2, <3>3 DEF Once
  <2> QED BY <1>3, <2>6, <2>7 DEF Steady
<1> QED BY <1>4, <1>5

(* What the broker takes off its list is the one delivery that is settled.  *)
LEMMA SettleSentOnce ==
    ASSUME Types, Types', Nested, AllPast, NEW t \in Tasks, SettleSent(t)
    PROVE  Nested' /\ AllPast' /\ (Once /\ Multiples \subseteq {FALSE} => Once')
<1>0. Counted /\ Counted'
  <2>1. Objects /\ Objects'
    BY DEF Types
  <2> QED BY <2>1, TypesCounted, TypesCountedNext
<1>1. PICK m \in Messages : m = at[t].msg
  BY Held DEF SettleSent
<1>2. \A s \in Tasks : pc'[s] = "settling" =>
         s # t /\ pc[s] = "settling" /\ at'[s].msg = at[s].msg
  BY GoesElsewhere DEF Types, SettleSent
<1>3. /\ pc[t] = "settling"
      /\ UNCHANGED <<pending, copen, away, nchan, chConn, gen, given>>
  BY <1>1 DEF SettleSent, client
<1>4. \/ UNCHANGED <<chOpen, unacked, twice>>
      \/ /\ Alive(m) /\ m \in unacked /\ UNCHANGED <<chOpen, twice>>
         /\ unacked' = unacked \ {u \in On(m.ch) : u.tag = m.tag
                                     \/ (at[t].mult /\ u.tag < m.tag)}
      \/ /\ Alive(m) /\ m \notin unacked /\ twice' = TRUE
         /\ unacked' = unacked \ On(m.ch) /\ chOpen' = chOpen \ {m.ch}
  BY <1>1 DEF SettleSent, Usable, Alive
<1>5. Grows /\ Nested'
  <2>1. Grows
    BY <1>0, <1>3, <1>4 DEF Grows, Counted
  <2>2. Nested'
    BY <1>3, <1>4 DEF Nested, Alive, On
  <2> QED BY <2>1, <2>2
<1>6. \A p \in pending : Past(p)' /\ (Alive(p)' => Alive(p))
  BY <1>0, <1>5, PastStays DEF AllPast, Types, Stores
<1>7. ASSUME NEW s \in Tasks, pc'[s] = "settling"
      PROVE  /\ Past(at[s].msg)' /\ (Alive(at[s].msg)' => Alive(at[s].msg))
             /\ at[s].msg \in Messages
  <2>1. /\ at'[s].msg = at[s].msg /\ at[s].msg \in Messages
        /\ Past(at[s].msg)
    BY <1>2, <1>7 DEF AllPast, Types, Tasked
  <2> QED BY <1>0, <1>5, <2>1, SettlingStays
<1>8. AllPast'
  BY <1>3, <1>6, <1>7 DEF AllPast
<1>9. ASSUME Once, Multiples \subseteq {FALSE}
      PROVE  Once'
  <2>1. (Alive(m) => m \in unacked) /\ m \notin pending /\ at[t].mult = FALSE
    <3>1. at[t].mult \in Multiples \cup {FALSE}
      BY DEF Types, Tasked
    <3> QED BY <1>1, <1>3, <1>9, <3>1 DEF Once
  <2>2. /\ UNCHANGED <<chOpen, twice>>
        /\ \/ unacked' = unacked
           \/ /\ Alive(m)
              /\ unacked' = unacked \ {u \in On(m.ch) : u.tag = m.tag}
    BY <1>4, <2>1
  <2>3. ASSUME NEW p \in unacked, p # m
        PROVE  p \in unacked'
    <3>1. p \in Messages /\ Alive(p)
      BY DEF Types, Stores, Nested
    <3>2. CASE unacked' = unacked
      BY <3>2
    <3>3. CASE Alive(m)
      <4>1. p.ch = m.ch => p.gen = m.gen
        BY <3>1, <3>3 DEF Alive
      <4>2. p.ch = m.ch => p.tag # m.tag
        BY <2>3, <3>1, <4>1 DEF Messages
      <4> QED BY <2>2, <4>2 DEF On
    <3> QED BY <2>2, <3>2, <3>3
  <2>4. \A p \in pending' : Alive(p)' => p \in unacked'
    BY <1>3, <1>6, <1>9, <2>1, <2>3 DEF Once
  <2>5. ASSUME NEW s \in Tasks, pc'[s] = "settling"
        PROVE  /\ Alive(at[s].msg)' => at'[s].msg \in unacked'
               /\ at'[s].msg \notin pending'
    <3>1. s # t /\ pc[s] = "settling" /\ at'[s].msg = at[s].msg
      BY <1>2, <2>5
    <3>2. /\ Alive(at[s].msg) => at[s].msg \in unacked
          /\ at[s].msg \notin pending /\ at[s].msg # m
      BY <1>1, <1>3, <1>9, <3>1 DEF Once
    <3> QED BY <1>3, <1>7, <2>3, <2>5, <3>1, <3>2
  <2>6. ASSUME NEW s \in Tasks, NEW u \in Tasks,
               pc'[s] = "settling", pc'[u] = "settling", s # u
        PROVE  at'[s].msg # at'[u].msg
    BY <1>2, <1>9, <2>6 DEF Once
  <2>7. ~twice'
    BY <1>9, <2>2 DEF Once
  <2> QED BY <2>4, <2>5, <2>6, <2>7 DEF Once
<1> QED BY <1>5, <1>8, <1>9

IInv == Types /\ Nested /\ AllPast

(* The inductive invariant holds at the start.                              *)
LEMMA IInvInit == Init => IInv /\ Once
<1>1. Init => Nested /\ AllPast /\ Once
  BY DEF Init, Nested, AllPast, Once
<1> QED BY <1>1, InitTypes DEF IInv

(* Every step keeps the inductive invariant.                                *)
LEMMA IInvNext ==
    ASSUME IInv, [Next]_vars
    PROVE  IInv' /\ (Once /\ Multiples \subseteq {FALSE} => Once')
<1>0. Types /\ Types' /\ Nested /\ AllPast
  BY NextTypes DEF IInv
<1>1. ASSUME Steady, NoneTakes
      PROVE  IInv' /\ (Once => Once')
  BY <1>0, <1>1, SteadyOnce DEF IInv, Steady
<1>2. ASSUME NEW t \in Tasks, QuietAction(t)
      PROVE  Steady /\ NoneTakes
  BY <1>0, <1>2, QuietActions, QuietSteady, TypeOKIs DEF Types
<1>3. CASE UNCHANGED vars
  BY <1>0, <1>3 DEF vars, client, pika, ghost, IInv, Nested, Alive, AllPast,
     Past, Once
<1>4. CASE Next
  <2>1. CASE \E t \in Tasks : MessageGot(t)
    BY <1>0, <2>1, MessageGotOnce DEF IInv
  <2>2. CASE \E t \in Tasks : Take(t)
    BY <1>0, <2>2, TakeOnce DEF IInv
  <2>3. CASE \E t \in Tasks : SettleSent(t)
    BY <1>0, <2>3, SettleSentOnce DEF IInv
  <2>4. CASE \/ \E t \in Tasks :
                \/ QuietAction(t) \/ Connected(t)
                \/ GotFirstChannel(t) \/ GotChannel(t) \/ CallFails(t)
                \/ SettleFails(t) \/ CloseStep(t) \/ Cancelled(t)
             \/ LinkStep
    <3>1. Steady /\ NoneTakes
      BY <1>0, <1>2, <2>4, ConnectedSteady, NewChannelSteady, CallFailsSteady,
         SettleFailsSteady, CloseSteady, CancelledSteady, LinkSteady
    <3> QED BY <1>1, <3>1
  <2> QED BY <1>4, <2>1, <2>2, <2>3, <2>4, Steps DEF TaskStep
<1> QED BY <1>3, <1>4

(* For any number of tasks that settle deliveries at the same moment, on any*)
(* number of connections and channels, with links that break and come back: *)
(* as long as no caller passes multiple = True, no delivery is settled a    *)
(* second time, because ack_message, nack_message and reject_message take   *)
(* the stored message out before they wait.                                 *)
THEOREM SettlesOnce ==
    ASSUME Multiples \subseteq {FALSE}
    PROVE  Spec => []SettledOnce
<1>1. Once => SettledOnce
  BY DEF Once, SettledOnce
<1>2. Init => IInv /\ Once
  BY IInvInit
<1>3. IInv /\ Once /\ [Next]_vars => (IInv /\ Once)'
  BY IInvNext
<1> QED BY <1>1, <1>2, <1>3, PTL DEF Spec

-----------------------------------------------------------------------------
(* A client that one task uses                                              *)

Using == {"channel", "qos", "opening", "calling"}
AtClose == {"closing channel", "closing connection"}

(* What task t, if it is the only one, knows of the client at its awaits.   *)
Place(t) ==
    /\ copen \subseteq forgotten \cup {conn}
    /\ pc[t] \in Using => conn \in copen
    /\ pc[t] \in {"channel", "opening"} => at[t].k = conn
    /\ pc[t] = "calling" => at[t].ch = chan
    /\ pc[t] = "connecting" /\ at[t].op # "connect" => NeedsConnection
    /\ pc[t] = "closing connection" => conn \notin copen
    /\ pc[t] \notin AtClose => at[t].ends = {}

(* Where the deliveries are that can still be settled.                      *)
Kept(t) ==
    /\ pc[t] \in AtClose \/ conn = None => pending = {}
    /\ \A m \in unacked \ stranded :
          \/ chConn[m.ch] \in forgotten
          \/ m.ch = chan /\ chConn[m.ch] = conn /\ pc[t] \notin {"channel", "opening"}
    /\ \A m \in unacked \ stranded :
          \/ m \in pending \/ chConn[m.ch] \in forgotten
          \/ pc[t] = "settling" /\ at[t].msg = m

Sole(t) == IInv /\ Place(t) /\ Kept(t)

(* What a quiet step does when no other task interferes.                    *)
Aims(t) ==
    \/ \E op \in AllOps, res \in Results \ {"AssertionError"} : Return(t, op, res)
    \/ \E label \in {"connecting", "opening", "calling"} :
       \E locals \in Locals :
          /\ Goto(t, label, locals) /\ locals.ends = {}
          /\ label = "connecting" /\ locals.op # "connect" => NeedsConnection
          /\ label # "connecting" => conn \in copen
          /\ label = "opening" => locals.k = conn /\ NeedsChannel
          /\ label = "calling" => locals.ch = chan

(* _require_channel leads to a call on the channel the client refers to,    *)
(* or to the opening of one on its connection.                              *)
LEMMA RequireAims ==
    ASSUME Objects, NEW t \in Tasks, NEW locals \in Locals,
           locals.op \in AllOps, locals.ends = {}, conn \in copen,
           RequireChannel(t, locals)
    PROVE  Aims(t)
<1>0. conn \in 1..nconn /\ conn # None /\ conn \in 0..MaxConn
      /\ chan \in 0..MaxChan
  BY ConstantsAssumption DEF Objects
<1>1. CASE ~NeedsChannel
  <2> DEFINE new == [locals EXCEPT !.ch = chan]
  <2>1. Goto(t, "calling", new)
    BY <1>1 DEF RequireChannel
  <2>2. new \in Locals /\ new.ch = chan /\ new.ends = {}
    BY <1>0 DEF Locals
  <2> HIDE DEF new
  <2> QED BY <2>1, <2>2 DEF Aims
<1>2. CASE NeedsChannel
  <2> DEFINE new == [locals EXCEPT !.k = conn]
  <2>1. Goto(t, "opening", new)
    BY <1>0, <1>2 DEF RequireChannel
  <2>2. new \in Locals /\ new.k = conn /\ new.ends = {}
    BY <1>0 DEF Locals
  <2> HIDE DEF new
  <2> QED BY <1>2, <2>1, <2>2 DEF Aims
<1> QED BY <1>1, <1>2

LEMMA StartAims ==
    ASSUME Objects, NEW t \in Tasks, NEW op \in AllOps, Operation(t, op)
    PROVE  Aims(t)
<1>1. CASE Start(t, op)
  <2> DEFINE locals == [NoLocals EXCEPT !.op = op, !.left = Calls(op)]
  <2>0. Calls(op) \in 0..2
    BY DEF Calls
  <2>1. locals \in Locals /\ locals.op = op /\ locals.ends = {}
    <3>1. [NoLocals EXCEPT !.op = op] \in Locals
          /\ [NoLocals EXCEPT !.op = op].ends = {}
      BY NoLocalsTyped DEF Locals
    <3>2. locals = [[NoLocals EXCEPT !.op = op] EXCEPT !.left = Calls(op)]
      BY NoLocalsTyped DEF Locals
    <3> QED BY <2>0, <3>1, <3>2, NoLocalsTyped DEF Locals
  <2>2. \/ NeedsConnection /\ Goto(t, "connecting", locals)
        \/ ~NeedsConnection /\ RequireChannel(t, locals)
    BY <1>1 DEF Start
  <2> HIDE DEF locals
  <2>3. CASE NeedsConnection
    BY <2>1, <2>2, <2>3 DEF Aims
  <2>4. CASE ~NeedsConnection
    BY <2>1, <2>2, <2>4, RequireAims DEF NeedsConnection
  <2> QED BY <2>3, <2>4
<1>2. CASE InvalidName(t, op)
  BY <1>2 DEF InvalidName, Aims, Results
<1>3. CASE ContextFails(t, op)
  BY <1>3 DEF ContextFails, RequireRaises, Aims, Results
<1> QED BY <1>1, <1>2, <1>3 DEF Operation

LEMMA QuietAims ==
    ASSUME NEW t \in Tasks, Sole(t), QuietAction(t)
    PROVE  Aims(t) /\ pc[t] \notin AtClose \cup {"settling"}
           /\ UNCHANGED <<client, pika, unacked, receipts, ghost>>
<1>0. Objects /\ Types /\ TypeOK /\ Tasked
  BY TypeOKIs DEF Sole, IInv, Types
<1>1. UNCHANGED <<client, pika, unacked, receipts, ghost>>
  BY <1>0, QuietActions DEF Quiet
<1>2. pc[t] \notin AtClose \cup {"settling"}
  BY DEF QuietAction, Operation, GetConnectionInfo, Connect, QosSet,
     ConnectOnceFails, OpenFails, FirstCallServed, Served, AtClose
<1> SUFFICES Aims(t)
  BY <1>1, <1>2
<1>3. CASE \E op \in AllOps : Operation(t, op)
  BY <1>0, <1>3, StartAims
<1>4. CASE Connect(t)
  <2> DEFINE locals == [NoLocals EXCEPT !.op = "connect"]
  <2>1. locals \in Locals /\ locals.ends = {} /\ locals.op = "connect"
    BY OpNames, NoLocalsTyped DEF Locals
  <2>2. Goto(t, "connecting", locals) \/ ContextFails(t, "connect")
    BY <1>4 DEF Connect
  <2> HIDE DEF locals
  <2> QED BY <2>1, <2>2, OpNames DEF Aims, ContextFails, RequireRaises, Results
<1>5. CASE GetConnectionInfo(t)
  BY <1>5, OpNames DEF GetConnectionInfo, Aims, Results
<1>6. ASSUME pc[t] # "idle"
      PROVE  at[t] \in Locals /\ at[t].op \in AllOps /\ at[t].ends = {}
  BY <1>0, <1>2, <1>6, Held DEF Sole, Place
<1>7. CASE QosSet(t)
  <2>1. CASE at[t].op = "connect"
    BY <1>7, <2>1, OpNames DEF QosSet, Aims, Results
  <2>2. CASE at[t].op # "connect"
    <3>1. RequireChannel(t, at[t]) /\ pc[t] = "qos"
      BY <1>7, <2>2 DEF QosSet
    <3>2. conn \in copen
      BY <3>1 DEF Sole, Place, Using
    <3> QED BY <1>0, <1>6, <3>1, <3>2, RequireAims
  <2> QED BY <2>1, <2>2
<1>8. CASE ConnectOnceFails(t)
  BY <1>6, <1>8 DEF ConnectOnceFails, RequireRaises, Aims, Results
<1>9. CASE OpenFails(t)
  BY <1>6, <1>9 DEF OpenFails, RequireRaises, Aims, Results
<1>10. CASE FirstCallServed(t)
  <2> DEFINE locals == [at[t] EXCEPT !.left = 1]
  <2>1. Goto(t, "calling", locals) /\ pc[t] = "calling"
    BY <1>10 DEF FirstCallServed
  <2>2. conn \in copen /\ at[t].ch = chan
    BY <2>1 DEF Sole, Place, Using
  <2>3. at[t] \in Locals /\ at[t].ends = {}
    BY <1>6, <2>1
  <2>4. locals \in Locals /\ locals.ends = {} /\ locals.ch = chan
    BY <2>2, <2>3 DEF Locals
  <2> HIDE DEF locals
  <2> QED BY <2>1, <2>2, <2>4 DEF Aims
<1>11. CASE Served(t)
  BY <1>6, <1>11 DEF Served, Aims, Results
<1> QED BY <1>3, <1>4, <1>5, <1>7, <1>8, <1>9, <1>10, <1>11
        DEF QuietAction

(* What follows from the invariant for the deliveries.                      *)
LEMMA SoleFacts ==
    ASSUME NEW t \in Tasks, Sole(t)
    PROVE  /\ Tasked /\ Place(t) /\ Kept(t) /\ Objects /\ Stores
           /\ \A m \in unacked : /\ m \in Messages /\ m.ch \in chOpen
                                 /\ m.ch \in Chans /\ m.ch # None
                                 /\ Alive(m) /\ m.tag <= given[m.ch]
                                 /\ chConn[m.ch] \in copen \ away
           /\ None \notin copen
<1>1. Types /\ Nested
  BY DEF Sole, IInv
<1>2. \A m \in unacked : m \in Messages /\ m.ch \in Chans /\ m.ch # None
  BY <1>1, MessageTyped DEF Types, Stores, Chans
<1>3. None \notin copen
  BY <1>1, ConstantsAssumption DEF Types, Objects
<1> QED BY <1>1, <1>2, <1>3 DEF Types, Nested, Alive, Sole

LEMMA QuietSole ==
    ASSUME NEW t \in Tasks, Sole(t), QuietAction(t)
    PROVE  Place(t)' /\ Kept(t)'
<1>0. /\ Tasked /\ Place(t) /\ Kept(t)
      /\ \A m \in unacked : m.ch \in chOpen /\ m.ch # None
      /\ Aims(t) /\ pc[t] \notin AtClose \cup {"settling"}
      /\ UNCHANGED <<conn, chan, pending, copen, chConn, chOpen, unacked,
                     stranded, forgotten>>
  BY SoleFacts, QuietAims DEF client, pika, ghost
<1>1. CASE \E op \in AllOps, res \in Results \ {"AssertionError"} : Return(t, op, res)
  <2>1. pc'[t] = "idle" /\ at'[t].ends = {}
    BY <1>0, <1>1, ReturnEffect, NoLocalsTyped
  <2> QED BY <1>0, <2>1 DEF Place, Kept, Using, AtClose
<1>2. ASSUME NEW label \in {"connecting", "opening", "calling"},
             NEW locals \in Locals,
             Goto(t, label, locals), locals.ends = {},
             label = "connecting" /\ locals.op # "connect" => NeedsConnection,
             label # "connecting" => conn \in copen,
             label = "opening" => locals.k = conn /\ NeedsChannel,
             label = "calling" => locals.ch = chan
      PROVE  Place(t)' /\ Kept(t)'
  <2>1. pc'[t] = label /\ at'[t] = locals
    BY <1>0, <1>2, GotoEffect
  <2>2. Place(t)'
    BY <1>0, <1>2, <2>1 DEF Place, Using, AtClose, NeedsConnection
  <2>3. label = "opening" => \A m \in unacked : m.ch # chan
    BY <1>0, <1>2 DEF NeedsChannel
  <2>4. Kept(t)'
    BY <1>0, <1>2, <2>1, <2>3 DEF Kept, AtClose
  <2> QED BY <2>2, <2>4
<1> QED BY <1>0, <1>1, <1>2 DEF Aims

LEMMA ConnectedSole ==
    ASSUME NEW t \in Tasks, Sole(t), Connected(t)
    PROVE  Place(t)' /\ Kept(t)'
<1> DEFINE k == nconn + 1
<1>0. /\ Place(t) /\ Kept(t) /\ at[t] \in Locals
      /\ \A m \in unacked : chConn[m.ch] \in copen
      /\ k # None /\ at[t].ends = {}
  <2>1. Objects /\ Tasked
    BY SoleFacts
  <2>2. k # None /\ at[t] \in Locals
    BY <2>1, ConstantsAssumption DEF Objects, Tasked
  <2> QED BY <2>2, SoleFacts DEF Connected, Place, AtClose
<1>1. /\ pc[t] = "connecting" /\ conn' = k /\ copen' = copen \cup {k}
      /\ forgotten' = forgotten \cup ({conn} \cap copen)
      /\ UNCHANGED <<chan, pending, chConn, unacked, stranded>>
  BY DEF Connected
<1>2. pc'[t] = "channel" /\ at'[t].k = k /\ at'[t].ends = {}
  <2> DEFINE locals == [at[t] EXCEPT !.k = k]
  <2>1. locals.k = k /\ locals.ends = {}
    BY <1>0 DEF Locals
  <2>2. Goto(t, "channel", locals)
    BY DEF Connected
  <2> HIDE DEF locals
  <2> QED BY <2>1, <2>2, GotoEffect, SoleFacts
<1> HIDE DEF k
<1>3. Place(t)'
  BY <1>0, <1>1, <1>2 DEF Place, Using, AtClose
<1>4. Kept(t)'
  BY <1>0, <1>1, <1>2 DEF Kept, AtClose
<1> QED BY <1>3, <1>4

LEMMA NewChannelSole ==
    ASSUME NEW t \in Tasks, Sole(t), GotFirstChannel(t) \/ GotChannel(t)
    PROVE  Place(t)' /\ Kept(t)'
<1>0. /\ Place(t) /\ Kept(t) /\ Objects /\ Tasked
      /\ \A m \in unacked : m.ch \in chOpen
  BY SoleFacts
<1>1. /\ pc[t] \in {"channel", "opening"} /\ chan' = nchan + 1
      /\ chConn' = [chConn EXCEPT ![nchan + 1] = at[t].k]
      /\ UNCHANGED <<conn, pending, copen, unacked, stranded, forgotten>>
  BY DEF GotFirstChannel, GotChannel, NewChannel, ghost
<1>2. pc'[t] \in {"qos", "calling"} /\ at'[t].ch = chan' /\ at'[t].ends = {}
  <2> DEFINE locals == [at[t] EXCEPT !.ch = chan']
  <2>1. at[t] \in Locals /\ at[t].ends = {}
    BY <1>0, <1>1 DEF Place, AtClose, Tasked
  <2>2. locals.ch = chan' /\ locals.ends = {}
    BY <2>1 DEF Locals
  <2>3. Goto(t, "qos", locals) \/ Goto(t, "calling", locals)
    BY DEF GotFirstChannel, GotChannel
  <2> HIDE DEF locals
  <2> QED BY <1>0, <2>2, <2>3, GotoEffect
<1>3. \A m \in unacked : chConn'[m.ch] = chConn[m.ch]
  <2>1. \A c \in chOpen : c # nchan + 1
    BY <1>0, ConstantsAssumption DEF Objects
  <2>2. chOpen \subseteq Chans
    BY <1>0, ConstantsAssumption DEF Objects, Chans
  <2> QED BY <1>0, <1>1, <2>1, <2>2 DEF Objects
<1>4. Place(t)'
  BY <1>0, <1>1, <1>2 DEF Place, Using, AtClose
<1>5. Kept(t)'
  <2>1. \A m \in unacked' \ stranded' : chConn'[m.ch] \in forgotten'
    BY <1>0, <1>1, <1>3 DEF Kept
  <2>2. pc'[t] \in AtClose \/ conn' = None => pending' = {}
    BY <1>0, <1>1, <1>2 DEF Kept, AtClose
  <2> QED BY <2>1, <2>2 DEF Kept
<1> QED BY <1>4, <1>5

(* An operation ends and the client's references stay.                      *)
LEMMA EndedPlace ==
    ASSUME NEW t \in Tasks, Sole(t), NEW op, NEW res, Return(t, op, res),
           conn' = conn, copen' = copen, forgotten' = forgotten
    PROVE  Place(t)' /\ pc'[t] = "idle"
<1>1. pc'[t] = "idle" /\ at'[t].ends = {}
  BY SoleFacts, ReturnEffect, NoLocalsTyped
<1> QED BY <1>1, SoleFacts DEF Place, Using, AtClose

LEMMA FailsSole ==
    ASSUME NEW t \in Tasks, Sole(t), CallFails(t) \/ SettleFails(t)
    PROVE  Place(t)' /\ Kept(t)'
<1>1. /\ pc[t] \in {"calling", "settling"}
      /\ unacked' \subseteq unacked
      /\ UNCHANGED <<conn, chan, pending, copen, chConn, stranded, forgotten>>
  BY DEF CallFails, SettleFails, client, pika, ghost
<1>2. Place(t)' /\ pc'[t] = "idle"
  BY <1>1, EndedPlace DEF CallFails, SettleFails
<1>3. pc[t] = "settling" => at[t].msg \notin unacked
  BY SoleFacts DEF CallFails, SettleFails, Usable, Alive
<1>4. Kept(t)'
  BY <1>1, <1>2, <1>3, SoleFacts DEF Kept, AtClose
<1> QED BY <1>2, <1>4

LEMMA MessageGotSole ==
    ASSUME NEW t \in Tasks, Sole(t), MessageGot(t)
    PROVE  Place(t)' /\ Kept(t)'
<1> DEFINE m == NextDelivery(chan)
<1>0. /\ Place(t) /\ Kept(t) /\ Nested /\ Counted /\ None \notin copen
      /\ pc[t] = "calling" /\ at[t].ch = chan /\ conn \in copen
      /\ \A u \in unacked : u \in Messages /\ Alive(u) /\ u.tag <= given[u.ch]
  BY SoleFacts, TypesCounted DEF MessageGot, Place, Using, Sole, IInv
<1>1. UNCHANGED <<conn, chan, copen, chConn, stranded, forgotten>>
  BY DEF MessageGot, ghost
<1>2. Place(t)' /\ pc'[t] = "idle"
  BY <1>1, EndedPlace DEF MessageGot
<1>3. CASE UNCHANGED <<pending, unacked>>
  BY <1>0, <1>1, <1>2, <1>3 DEF Kept, AtClose
<1>4. CASE /\ m \in Messages /\ pending' = Store(m)
           /\ unacked' = IF chan \in chOpen THEN unacked \cup {m} ELSE unacked
  <2>1. m.ch = chan /\ m.gen = gen[chan] /\ m.tag = given[chan] + 1 /\ m \in pending'
    BY <1>4 DEF NextDelivery, Store
  <2>2. chan \in chOpen =>
           \/ chConn[chan] \in forgotten \/ chConn[chan] = conn
    BY <1>0 DEF Nested, Place
  <2>3. ASSUME NEW u \in unacked \ stranded, u \in pending, u.ch = chan
        PROVE  u \in pending'
    <3>1. u.tag # m.tag
      <4>1. given[chan] \in Nat /\ u.tag \in Nat /\ u.tag <= given[chan]
        BY <1>0, <2>3, MessageTyped DEF Counted
      <4> QED BY <2>1, <4>1
    <3> QED BY <1>4, <2>3, <3>1 DEF Store
  <2>4. \A u \in unacked \ stranded :
           \/ chConn[u.ch] \in forgotten
           \/ u \in pending' /\ u.ch = chan /\ chConn[u.ch] = conn
    BY <1>0, <2>3 DEF Kept
  <2>5. \A u \in unacked' \ stranded' :
           \/ chConn[u.ch] \in forgotten
           \/ u \in pending' /\ u.ch = chan /\ chConn[u.ch] = conn
    BY <1>1, <1>4, <2>1, <2>2, <2>4
  <2> QED BY <1>0, <1>1, <1>2, <2>5 DEF Kept, AtClose
<1> QED BY <1>0, <1>3, <1>4 DEF MessageGot

LEMMA TakeSole ==
    ASSUME NEW t \in Tasks, Sole(t), Take(t)
    PROVE  Place(t)' /\ Kept(t)'
<1>0. Place(t) /\ Kept(t) /\ Tasked /\ Stores
  BY SoleFacts
<1>1. PICK op \in Settles, tag \in 1..MaxTags, mult \in Multiples \cup {FALSE} :
           TakePending(t, op, tag, mult)
  BY DEF Take
<1>2. /\ pc[t] = "idle"
      /\ pending' = pending \ {p \in pending : p.tag = tag}
      /\ UNCHANGED <<conn, chan, copen, chConn, unacked, stranded, forgotten>>
  BY <1>1 DEF TakePending, pika
<1>3. CASE {p \in pending : p.tag = tag} = {}
  <2>1. Place(t)' /\ pc'[t] = "idle"
    BY <1>1, <1>2, <1>3, EndedPlace DEF TakePending
  <2>2. pending' = pending
    BY <1>2, <1>3
  <2> QED BY <1>0, <1>2, <2>1, <2>2 DEF Kept, AtClose
<1>4. CASE {p \in pending : p.tag = tag} # {}
  <2>1. PICK m \in {p \in pending : p.tag = tag} :
             Goto(t, "settling",
                  [NoLocals EXCEPT !.op = op, !.msg = m, !.mult = mult])
    BY <1>1, <1>4 DEF TakePending
  <2> DEFINE locals == [NoLocals EXCEPT !.op = op, !.msg = m, !.mult = mult]
  <2>2. locals.msg = m /\ locals.ends = {}
    BY DEF NoLocals
  <2> HIDE DEF locals
  <2>3. pc'[t] = "settling" /\ at'[t] = locals
    <3>1. Goto(t, "settling", locals)
      BY <2>1 DEF locals
    <3> QED BY <1>0, <3>1, GotoEffect
  <2>4. Place(t)'
    BY <1>0, <1>2, <2>2, <2>3 DEF Place, Using, AtClose
  <2>5. \A u \in pending : u \in pending' \/ u = m
    BY <1>0, <1>2, <2>1 DEF Stores
  <2>6. Kept(t)'
    BY <1>0, <1>2, <2>2, <2>3, <2>5 DEF Kept, AtClose
  <2> QED BY <2>4, <2>6
<1> QED BY <1>3, <1>4

LEMMA SettleSentSole ==
    ASSUME NEW t \in Tasks, Sole(t), SettleSent(t)
    PROVE  Place(t)' /\ Kept(t)'
<1>0. Kept(t) /\ pc[t] = "settling"
      /\ UNCHANGED <<conn, chan, pending, copen, chConn, stranded, forgotten>>
  BY SoleFacts DEF SettleSent, client
<1>1. Place(t)' /\ pc'[t] = "idle"
  BY <1>0, EndedPlace DEF SettleSent
<1>2. unacked' \subseteq unacked /\ at[t].msg \notin unacked'
  <2>1. \A m \in unacked : m.ch \notin deaf
    BY SoleFacts DEF Objects
  <2> QED BY <2>1 DEF SettleSent, On
<1>3. Kept(t)'
  BY <1>0, <1>1, <1>2 DEF Kept, AtClose
<1> QED BY <1>1, <1>3

LEMMA LinkSole ==
    ASSUME NEW t \in Tasks, Sole(t), LinkStep
    PROVE  Place(t)' /\ Kept(t)'
<1>1. /\ unacked' \subseteq unacked
      /\ UNCHANGED <<conn, chan, pending, copen, chConn, stranded, forgotten,
                     pc, at>>
  BY DEF LinkStep, LinkLost, LinkNoticed, LinkRestored, Dropped,
      ChannelLost, ChannelNoticed, ChannelRestored, client, ghost
<1>2. Place(t) /\ Kept(t)
  BY SoleFacts
<1> QED BY <1>1, <1>2 DEF Place, Kept, NeedsConnection

(* The part of close() after the channel: what is left needs no settling,   *)
(* because it is of a connection that was forgotten.                        *)
LEMMA CloseConnectionSole ==
    ASSUME NEW t \in Tasks, Sole(t), CloseConnection(t),
           chan' = None, pending' = {},
           UNCHANGED <<chConn, stranded, forgotten>>,
           \A m \in unacked \ stranded :
              chConn[m.ch] \in forgotten \/ chConn[m.ch] = conn
    PROVE  Place(t)' /\ Kept(t)'
<1>0. /\ Place(t) /\ Tasked /\ None \notin copen
      /\ \A m \in unacked : m.ch \in Chans /\ chConn[m.ch] \in copen
  BY SoleFacts
<1>1. CASE NeedsConnection
  <2>1. /\ Return(t, "close", "returned") /\ conn' = None
        /\ UNCHANGED <<copen, unacked>>
    BY <1>1 DEF CloseConnection
  <2>2. pc'[t] = "idle" /\ at'[t].ends = {}
    BY <1>0, <2>1, ReturnEffect, NoLocalsTyped
  <2>3. conn \notin copen
    BY <1>0, <1>1 DEF NeedsConnection
  <2>4. copen' \subseteq forgotten'
    BY <1>0, <2>1, <2>3 DEF Place
  <2>5. \A m \in unacked' \ stranded' : chConn'[m.ch] \in forgotten'
    BY <1>0, <2>1, <2>3
  <2> QED BY <2>2, <2>4, <2>5 DEF Place, Kept, Using, AtClose
<1>2. CASE ~NeedsConnection
  <2>1. /\ Goto(t, "closing connection", Closing(conn, chOpen \ chOpen'))
        /\ conn' = conn /\ copen' = copen \ {conn}
        /\ unacked' = {m \in unacked : m.ch \notin {c \in Chans : chConn[c] = conn}}
    BY <1>2 DEF CloseConnection, ConnectionEnds, ChannelsEnd
  <2>2. pc'[t] = "closing connection"
    BY <1>0, <2>1, GotoEffect
  <2>3. \A m \in unacked' \ stranded' : chConn'[m.ch] \in forgotten'
    BY <1>0, <2>1
  <2> QED BY <1>0, <2>1, <2>2, <2>3 DEF Place, Kept, Using, AtClose
<1> QED BY <1>1, <1>2

LEMMA CloseSole ==
    ASSUME NEW t \in Tasks, Sole(t), CloseStep(t)
    PROVE  Place(t)' /\ Kept(t)'
<1>0. /\ Place(t) /\ Kept(t) /\ Tasked /\ None \notin copen
      /\ \A m \in unacked : m.ch \in chOpen /\ m.ch # None
  BY SoleFacts
<1>1. CASE Close(t) /\ NeedsChannel
  <2>1. /\ CloseConnection(t) /\ chan' = None /\ pending' = {}
        /\ UNCHANGED <<chConn, stranded, forgotten>>
    BY <1>1 DEF Close, ghost
  <2> QED BY <1>0, <2>1, CloseConnectionSole DEF Kept
<1>2. CASE Close(t) /\ ~NeedsChannel
  <2>1. /\ Goto(t, "closing channel", Closing(None, {chan})) /\ pending' = {}
        /\ unacked' = {m \in unacked : m.ch # chan}
        /\ UNCHANGED <<conn, chan, copen, chConn, stranded, forgotten>>
    BY <1>2 DEF Close, ChannelsEnd, ghost
  <2>2. pc'[t] = "closing channel"
    BY <1>0, <2>1, GotoEffect
  <2>3. \A m \in unacked' \ stranded' : chConn'[m.ch] \in forgotten'
    BY <1>0, <2>1 DEF Kept
  <2> QED BY <1>0, <2>1, <2>2, <2>3 DEF Place, Kept, Using, AtClose
<1>3. CASE ChannelClosed(t)
  <2>1. /\ CloseConnection(t) /\ chan' = None /\ pending' = pending
        /\ UNCHANGED <<chConn, stranded, forgotten>> /\ pc[t] = "closing channel"
    BY <1>3 DEF ChannelClosed, ghost
  <2>2. pending = {}
    BY <1>0, <2>1 DEF Kept, AtClose
  <2> QED BY <1>0, <2>1, <2>2, CloseConnectionSole DEF Kept
<1>4. CASE ConnectionClosed(t)
  <2>1. /\ conn' = None /\ pc[t] = "closing connection"
        /\ Return(t, "close", "returned")
        /\ UNCHANGED <<chan, pending, copen, chConn, unacked, stranded, forgotten>>
    BY <1>4 DEF ConnectionClosed, pika, ghost
  <2>2. pc'[t] = "idle" /\ at'[t].ends = {}
    BY <1>0, <2>1, ReturnEffect, NoLocalsTyped
  <2>3. pending = {} /\ \A m \in unacked \ stranded : chConn[m.ch] \in forgotten
    BY <1>0, <2>1 DEF Kept, AtClose
  <2> QED BY <1>0, <2>1, <2>2, <2>3 DEF Place, Kept, Using, AtClose
<1> QED BY <1>1, <1>2, <1>3, <1>4 DEF CloseStep

LEMMA CancelledSole ==
    ASSUME NEW t \in Tasks, Sole(t), Cancelled(t)
    PROVE  Place(t)' /\ Kept(t)'
<1>0. /\ Place(t) /\ Kept(t) /\ Tasked
      /\ pc'[t] = "idle" /\ at'[t].ends = {}
  BY SoleFacts, ReturnEffect, NoLocalsTyped DEF Cancelled
<1>1. /\ chan' = IF pc[t] = "closing channel" THEN None ELSE chan
      /\ conn' = IF pc[t] = "closing connection" THEN None ELSE conn
      /\ forgotten \subseteq forgotten'
      /\ UNCHANGED <<pending, copen, chConn>>
  BY DEF Cancelled
<1>2. /\ unacked' \ stranded' \subseteq unacked \ stranded
      /\ pc[t] = "settling" => at[t].msg \notin unacked' \ stranded'
  BY DEF Cancelled
<1>3. pc[t] \in AtClose =>
         pending = {} /\ \A m \in unacked \ stranded : chConn[m.ch] \in forgotten
  BY <1>0 DEF Kept, AtClose
<1>4. Place(t)'
  BY <1>0, <1>1 DEF Place, Using, AtClose
<1>5. Kept(t)'
  BY <1>0, <1>1, <1>2, <1>3 DEF Kept, AtClose
<1> QED BY <1>4, <1>5

(* The invariant of a client that one task uses holds at the start.         *)
LEMMA SoleInit ==
    ASSUME NEW t \in Tasks, Init
    PROVE  Sole(t)
<1>1. Place(t)
  BY NoLocalsTyped DEF Init, Place, Using, AtClose
<1>2. Kept(t)
  BY DEF Init, Kept
<1> QED BY <1>1, <1>2, IInvInit DEF Sole

(* What a client does that one task uses, by the kind of step.              *)
LEMMA SoleSteps ==
    ASSUME NEW t, Tasks = {t}, [Next]_vars
    PROVE  \/ QuietAction(t) \/ Connected(t) \/ GotFirstChannel(t) \/ GotChannel(t)
           \/ MessageGot(t) \/ CallFails(t) \/ Take(t) \/ SettleSent(t)
           \/ SettleFails(t) \/ CloseStep(t) \/ Cancelled(t) \/ LinkStep
           \/ UNCHANGED vars
BY Steps DEF TaskStep

(* Every step keeps the invariant of a client that one task uses.           *)
LEMMA SoleNext ==
    ASSUME NEW t, Tasks = {t}, Sole(t), [Next]_vars
    PROVE  Sole(t)'
<1>0. t \in Tasks /\ IInv'
  BY IInvNext DEF Sole
<1>1. CASE UNCHANGED vars
  BY <1>1, <1>0 DEF vars, client, pika, ghost, Sole, Place, Kept, NeedsConnection
<1>2. CASE Next
  <2>1. \/ QuietAction(t) \/ Connected(t) \/ GotFirstChannel(t) \/ GotChannel(t)
        \/ MessageGot(t) \/ CallFails(t) \/ Take(t) \/ SettleSent(t)
        \/ SettleFails(t) \/ CloseStep(t) \/ Cancelled(t) \/ LinkStep
    BY <1>2, Steps DEF TaskStep
  <2>2. Place(t)' /\ Kept(t)'
    BY <1>0, <2>1, QuietSole, ConnectedSole, NewChannelSole, MessageGotSole,
       FailsSole, TakeSole, SettleSentSole, CloseSole, CancelledSole, LinkSole
  <2> QED BY <1>0, <2>2 DEF Sole
<1> QED BY <1>1, <1>2

(* With one task, every delivery the broker waits for is stored under its   *)
(* tag or is being settled: consume_message stores it as soon as it has it, *)
(* no other stored message has its tag, and only close() drops the store.   *)
THEOREM AloneReaches ==
    ASSUME NEW t, Tasks = {t}
    PROVE  Spec => []UnackedReachable
<1>1. Sole(t) => UnackedReachable
  BY DEF Sole, Kept, UnackedReachable
<1>2. Init => Sole(t)
  BY SoleInit
<1>3. Sole(t) /\ [Next]_vars => Sole(t)'
  BY SoleNext
<1> QED BY <1>1, <1>2, <1>3, PTL DEF Spec

(* What the broker has still after a call of close() is the connection that *)
(* this call is at, or was forgotten when the call was cancelled.           *)
Lingers(t) ==
    \A k \in lingering :
       k \in forgotten \/ (pc[t] = "closing connection" /\ at[t].k = k)

LEMMA CloseConnectionLingers ==
    ASSUME Tasked, NEW t \in Tasks, CloseConnection(t), forgotten' = forgotten,
           lingering \subseteq forgotten
    PROVE  Lingers(t)'
<1>1. CASE NeedsConnection
  BY <1>1 DEF CloseConnection, Lingers
<1>2. CASE ~NeedsConnection
  <2> DEFINE locals == Closing(conn, chOpen \ chOpen')
  <2>1. /\ Goto(t, "closing connection", locals)
        /\ lingering' \subseteq lingering \cup {conn}
    BY <1>2 DEF CloseConnection, ConnectionEnds
  <2>2. locals.k = conn
    BY NoLocalsTyped DEF Closing, Locals
  <2> HIDE DEF locals
  <2>3. pc'[t] = "closing connection" /\ at'[t].k = conn
    BY <2>1, <2>2 DEF Goto, Tasked
  <2> QED BY <2>1, <2>3 DEF Lingers
<1> QED BY <1>1, <1>2

LEMMA LingersNext ==
    ASSUME NEW t, Tasks = {t}, Sole(t), Lingers(t), [Next]_vars
    PROVE  Lingers(t)'
<1>0. t \in Tasks
  OBVIOUS
<1>1. Tasked
  BY <1>0, SoleFacts
<1>2. ASSUME lingering' = lingering, forgotten \subseteq forgotten',
             pc[t] # "closing connection"
      PROVE  Lingers(t)'
  BY <1>2 DEF Lingers
<1>3. CASE QuietAction(t)
  <2>1. Quiet(t)
    BY <1>0, <1>3, QuietActions, TypeOKIs DEF Sole, IInv, Types
  <2>2. pc[t] # "closing connection"
    BY <1>3 DEF QuietAction, Operation, GetConnectionInfo, Connect, QosSet,
       ConnectOnceFails, OpenFails, FirstCallServed, Served, InvalidName,
       ContextFails
  <2> QED BY <1>2, <2>1, <2>2 DEF Quiet, pika, ghost
<1>4. CASE \/ Connected(t) \/ GotFirstChannel(t) \/ GotChannel(t)
           \/ MessageGot(t) \/ CallFails(t) \/ Take(t) \/ SettleSent(t)
           \/ SettleFails(t)
  BY <1>2, <1>4 DEF Connected, GotFirstChannel, GotChannel, NewChannel,
     MessageGot, CallFails, Take, TakePending, SettleSent, SettleFails, pika,
     ghost
<1>5. CASE Close(t)
  <2>1. lingering \subseteq forgotten /\ forgotten' = forgotten
    BY <1>5 DEF Close, Lingers, ghost
  <2>2. CASE NeedsChannel
    BY <1>0, <1>1, <1>5, <2>1, <2>2, CloseConnectionLingers DEF Close
  <2>3. CASE ~NeedsChannel
    BY <1>5, <2>1, <2>3 DEF Close, Lingers
  <2> QED BY <2>2, <2>3
<1>6. CASE ChannelClosed(t)
  <2>1. lingering \subseteq forgotten /\ forgotten' = forgotten
    BY <1>6 DEF ChannelClosed, Lingers, ghost
  <2> QED BY <1>0, <1>1, <1>6, <2>1, CloseConnectionLingers DEF ChannelClosed
<1>7. CASE ConnectionClosed(t)
  BY <1>7 DEF ConnectionClosed, Lingers, ghost
<1>8. CASE Cancelled(t)
  BY <1>8 DEF Cancelled, Lingers
<1>9. CASE LinkStep
  <2>1. lingering' \subseteq lingering /\ UNCHANGED <<forgotten, pc, at>>
    BY <1>9 DEF LinkStep, LinkLost, LinkNoticed, LinkRestored, Dropped,
       ChannelLost, ChannelNoticed, ChannelRestored, ghost
  <2> QED BY <2>1 DEF Lingers
<1>10. CASE UNCHANGED vars
  BY <1>10 DEF vars, pika, ghost, Lingers
<1> QED BY <1>3, <1>4, <1>5, <1>6, <1>7, <1>8, <1>9, <1>10, SoleSteps
        DEF CloseStep

(* With one task, close() and a failed connect leave nothing behind but what*)
(* belongs to a connection that connect() overwrote, or whose close was     *)
(* cancelled.                                                               *)
THEOREM AloneCloses ==
    ASSUME NEW t, Tasks = {t}
    PROVE  Spec => []ClosedIsClean
<1>1. ASSUME Sole(t), Lingers(t)
      PROVE  ClosedIsClean
  <2>1. t \in Tasks
    OBVIOUS
  <2>2. /\ Place(t) /\ Kept(t) /\ None \notin copen
        /\ \A m \in unacked : chConn[m.ch] \in copen
    BY <1>1, <2>1, SoleFacts
  <2>3. conn = None => copen \subseteq forgotten /\ pending = {}
    BY <2>2 DEF Place, Kept
  <2>4. Idle => lingering \subseteq forgotten
    BY <1>1, <2>1 DEF Idle, Lingers
  <2> QED BY <2>2, <2>3, <2>4 DEF ClosedIsClean
<1>2. Init => Sole(t) /\ Lingers(t)
  <2>1. Init => Lingers(t)
    BY DEF Init, Lingers
  <2> QED BY <2>1, SoleInit
<1>3. Sole(t) /\ Lingers(t) /\ [Next]_vars => (Sole(t) /\ Lingers(t))'
  BY SoleNext, LingersNext
<1> QED BY <1>1, <1>2, <1>3, PTL DEF Spec

DialsOnce ==
    nconn' # nconn /\ ~(copen \subseteq forgotten)
    => \E t \in Tasks : at[t].op = "connect"

(* With one task, nothing but connect() opens a connection beside an open   *)
(* one: _require_channel trusts is_closed, which stays false while aio-pika *)
(* restores a lost link, and so does not compete with it.                   *)
THEOREM AloneDialsOnce ==
    ASSUME NEW t, Tasks = {t}
    PROVE  Spec => OnlyConnectDialsTwice
<1>0. t \in Tasks
  OBVIOUS
<1>1. Init => Sole(t)
  BY SoleInit
<1>2. Sole(t) /\ [Next]_vars => Sole(t)'
  BY SoleNext
<1>3. ASSUME Sole(t), [Next]_vars
      PROVE  [DialsOnce]_vars
  <2> SUFFICES ASSUME nconn' # nconn, ~(copen \subseteq forgotten)
               PROVE  at[t].op = "connect"
    BY <1>0 DEF DialsOnce
  <2>1. CASE Connected(t)
    <3>1. Place(t) /\ None \notin copen /\ pc[t] = "connecting"
      BY <1>0, <1>3, <2>1, SoleFacts DEF Connected
    <3>2. conn \in copen
      BY <3>1 DEF Place
    <3> QED BY <3>1, <3>2 DEF Place, NeedsConnection
  <2>2. CASE QuietAction(t)
    BY <1>0, <1>3, <2>2, QuietAims DEF pika
  <2>3. CASE CloseStep(t)
    <3>1. Types
      BY <1>3 DEF Sole, IInv
    <3> QED BY <1>0, <2>3, <3>1, CloseEnds DEF OnlyEnds
  <2>4. CASE \/ GotFirstChannel(t) \/ GotChannel(t) \/ MessageGot(t)
             \/ CallFails(t) \/ Take(t) \/ SettleSent(t) \/ SettleFails(t)
             \/ Cancelled(t) \/ LinkStep \/ UNCHANGED vars
    BY <2>4 DEF GotFirstChannel, GotChannel, NewChannel, MessageGot, CallFails,
       Take, TakePending, SettleSent, SettleFails, Cancelled, LinkStep,
       LinkLost, LinkNoticed, LinkRestored, Dropped,
      ChannelLost, ChannelNoticed, ChannelRestored, vars, pika
  <2> QED BY <1>3, <2>1, <2>2, <2>3, <2>4, SoleSteps
<1>4. Spec => [][DialsOnce]_vars
  BY <1>1, <1>2, <1>3, PTL DEF Spec
<1> QED BY <1>4 DEF OnlyConnectDialsTwice, DialsOnce
=============================================================================
