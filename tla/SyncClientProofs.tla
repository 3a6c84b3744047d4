--------------------------- MODULE SyncClientProofs ---------------------------
(***************************************************************************)
(* Proofs about SyncClient for every number of connections and every set    *)
(* of operations the caller may use.                                        *)
(***************************************************************************)
EXTENDS SyncClient, TLAPS

(* What the broker keeps open, pika keeps open: losing a connection or a    *)
(* channel is always noticed later than it happens.                         *)
ViewsNested ==
    /\ link \subseteq connOpen /\ bchan \subseteq chanOpen
    /\ bchan \subseteq link
    /\ chanOpen \subseteq connOpen /\ chanOpen \subseteq confirming
    /\ \A k \in connOpen : k <= opened

(* The references are not ahead of what was opened, and an open connection  *)
(* never sits beside another connection's channel.                          *)
RefsMatch ==
    /\ connection <= opened /\ channel <= opened
    /\ connection \in connOpen => channel \in {None, connection}

IInv == TypeOK /\ ViewsNested /\ RefsMatch /\ UseMatchesCheck /\ HealthTruth

USE DEF None, Conns, AllOps, Refusable, Settles, Results, ToolErrors,
        RawErrors, Values, NoCall

(* The initial states satisfy the inductive invariant.                      *)
LEMMA InitEstablishes == Init => IInv
BY ConstantsAssumption
   DEF Init, IInv, TypeOK, ViewsNested, RefsMatch, UseMatchesCheck, HealthTruth

(* A successful _connect_once leaves an open, confirming channel of the     *)
(* new connection in _channel.                                              *)
LEMMA SucceedsEffect ==
    ASSUME TypeOK, ViewsNested, RefsMatch, ConnectSucceeds
    PROVE  /\ ViewsNested' /\ RefsMatch'
           /\ connection' \in Conns /\ channel' = connection'
           /\ connection' \in connOpen'
           /\ connOpen' \subseteq Conns /\ chanOpen' \subseteq Conns
           /\ confirming' \subseteq Conns /\ opened' \in 0..MaxConn
           /\ up' \in BOOLEAN
           /\ link' \subseteq Conns /\ bchan' \subseteq Conns
BY ConstantsAssumption
   DEF TypeOK, ViewsNested, RefsMatch, ConnectSucceeds

(* A _connect_once that fails at once or half-way keeps the invariants on   *)
(* references; when no open connection was overwritten, none is held.       *)
LEMMA FailsEffect ==
    ASSUME TypeOK, ViewsNested, RefsMatch, ConnectFails \/ ConnectBreaks
    PROVE  /\ ViewsNested' /\ RefsMatch'
           /\ connection' \in 0..MaxConn /\ channel' \in 0..MaxConn
           /\ connOpen' \subseteq Conns /\ chanOpen' \subseteq Conns
           /\ confirming' \subseteq Conns /\ opened' \in 0..MaxConn
           /\ up' \in BOOLEAN
           /\ link' \subseteq Conns /\ bchan' \subseteq Conns
           /\ NeedsConnection => connection' \notin connOpen'
<1>1. CASE ConnectFails
  BY <1>1 DEF TypeOK, ViewsNested, RefsMatch, ConnectFails, NeedsConnection,
              client, pika, net
<1>2. CASE ConnectBreaks
  BY <1>2, ConstantsAssumption
     DEF TypeOK, ViewsNested, RefsMatch, ConnectBreaks, NeedsConnection,
         client, pika, net
<1> QED BY <1>1, <1>2

(* pika never ends a call with more open than before, and an error it       *)
(* raises keeps the nesting of the views.                                   *)
LEMMA RaisesEffect ==
    ASSUME TypeOK, ViewsNested, NEW exc, PikaRaises(exc)
    PROVE  /\ ViewsNested' /\ opened' = opened
           /\ connOpen' \subseteq connOpen /\ chanOpen' \subseteq chanOpen
           /\ confirming' = confirming /\ up' = up
           /\ link' \subseteq link /\ bchan' \subseteq bchan
BY DEF TypeOK, ViewsNested, PikaRaises

(* A call that pika serves changes nothing pika or the broker keeps.        *)
LEMMA ServedEffect ==
    ASSUME ViewsNested, UNCHANGED <<pika, net>>
    PROVE  /\ ViewsNested' /\ opened' = opened
           /\ connOpen' \subseteq connOpen /\ chanOpen' \subseteq chanOpen
           /\ confirming' = confirming /\ up' = up
           /\ link' \subseteq link /\ bchan' \subseteq bchan
BY DEF ViewsNested, pika, net

(* The fields of what an operation returns.                                 *)
LEMMA ReturnEffect ==
    ASSUME TypeOK,
           NEW op \in AllOps \cup {"none", "connect", "close",
                                   "get_connection_info"},
           NEW res \in Results, Return(op, res)
    PROVE  /\ pc' = "idle"
           /\ cur' \in [op : AllOps \cup {"none"}, chan : 0..MaxConn]
           /\ out' \in [op : AllOps \cup {"none", "connect", "close",
                                          "get_connection_info"},
                        res : Results, chan : 0..MaxConn]
           /\ out'.res = res /\ out'.chan = cur.chan
<1> DEFINE R == {"none", "connect", "close", "get_connection_info"}
<1>1. cur.chan \in 0..MaxConn
  BY DEF TypeOK
<1>2. cur' = [op |-> "none", chan |-> 0] /\ 0 \in 0..MaxConn
  BY ConstantsAssumption DEF Return
<1>3. out' = [op |-> op, res |-> res, chan |-> cur.chan]
  BY DEF Return
<1>4. pc' = "idle"
  BY DEF Return
<1> QED BY <1>1, <1>2, <1>3, <1>4

(* An operation that ends with anything but a health verdict, keeps its     *)
(* references or forgets the channel, and leaves no more open than before   *)
(* preserves the inductive invariant.                                       *)
LEMMA CallEnds ==
    ASSUME IInv, NEW op \in AllOps, NEW res \in Results, Return(op, res),
           res # "OK", res # "DOWN",
           ViewsNested', opened' = opened,
           connOpen' \subseteq connOpen, chanOpen' \subseteq chanOpen,
           confirming' = confirming, up' = up,
           link' \subseteq link, bchan' \subseteq bchan,
           connection' = connection, channel' \in {None, channel}
    PROVE  IInv'
<1>0. TypeOK /\ RefsMatch
  BY DEF IInv
<1>1. /\ pc' = "idle" /\ out'.res = res
      /\ cur' \in [op : AllOps \cup {"none"}, chan : 0..MaxConn]
      /\ out' \in [op : AllOps \cup {"none", "connect", "close",
                                     "get_connection_info"},
                   res : Results, chan : 0..MaxConn]
  BY <1>0, ReturnEffect, Zenon
<1>a. connection' \in 0..MaxConn /\ channel' \in 0..MaxConn
  BY <1>0, ConstantsAssumption DEF TypeOK
<1>b. /\ connOpen' \subseteq Conns /\ chanOpen' \subseteq Conns
      /\ confirming' \subseteq Conns /\ opened' \in 0..MaxConn
      /\ up' \in BOOLEAN /\ link' \subseteq Conns /\ bchan' \subseteq Conns
  BY <1>0 DEF TypeOK
<1>2. TypeOK'
  BY <1>1, <1>a, <1>b DEF TypeOK
<1>3. RefsMatch'
  BY <1>0 DEF RefsMatch, TypeOK
<1>4. UseMatchesCheck' /\ HealthTruth'
  BY <1>1 DEF UseMatchesCheck, HealthTruth
<1> QED BY <1>2, <1>3, <1>4 DEF IInv

(* A refusable operation preserves the inductive invariant, however its     *)
(* broker call ends.                                                        *)
LEMMA RefusableStep ==
    ASSUME IInv, NEW op \in Refusable, RefusableCall(op)
    PROVE  IInv'
<1>0. TypeOK /\ ViewsNested
  BY DEF IInv
<1>1. CASE Served(op)
  <2>1. Return(op, "returned") /\ UNCHANGED client /\ UNCHANGED <<pika, net>>
    BY <1>1 DEF Served, PikaServed
  <2> QED BY <1>0, <2>1, ServedEffect, CallEnds DEF client
<1>2. CASE Refused(op)
  <2>1. /\ PikaRaises("ChannelClosedByBroker")
        /\ channel' = None /\ connection' = connection
        /\ Return(op, "RabbitMQChannelError")
    BY <1>2 DEF Refused
  <2> QED BY <1>0, <2>1, RaisesEffect, CallEnds
<1>3. CASE Uncaught(op)
  <2>1. PICK exc \in {"ChannelWrongStateError", "AMQPConnectionError"} :
           PikaRaises(exc) /\ Return(op, exc)
    BY <1>3 DEF Uncaught
  <2>2. UNCHANGED client
    BY <1>3 DEF Uncaught
  <2> QED BY <1>0, <2>1, <2>2, RaisesEffect, CallEnds DEF client
<1> QED BY <1>1, <1>2, <1>3 DEF RefusableCall

(* An acknowledgement preserves the inductive invariant.                    *)
LEMMA SettleStep ==
    ASSUME IInv, NEW op \in Settles, SettleCall(op)
    PROVE  IInv'
<1>0. TypeOK /\ ViewsNested
  BY DEF IInv
<1>1. CASE SettleSent(op)
  <2>1. Return(op, "returned") /\ UNCHANGED client
    BY <1>1 DEF SettleSent
  <2>2. /\ ViewsNested' /\ opened' = opened
        /\ connOpen' \subseteq connOpen /\ chanOpen' \subseteq chanOpen
        /\ confirming' = confirming /\ up' = up
        /\ link' \subseteq link /\ bchan' \subseteq bchan
    BY <1>0, <1>1 DEF SettleSent, PikaSends, ViewsNested, pika
  <2> QED BY <2>1, <2>2, CallEnds DEF client
<1>2. CASE SettleFails(op)
  <2>1. PICK exc \in PikaErrors : PikaRaises(exc)
    BY <1>2 DEF SettleFails
  <2>2. Return(op, "RabbitMQMessageError") /\ UNCHANGED client
    BY <1>2 DEF SettleFails
  <2> QED BY <1>0, <2>1, <2>2, RaisesEffect, CallEnds DEF client
<1> QED BY <1>1, <1>2 DEF SettleCall

(* So does a publish.                                                       *)
LEMMA PublishStep ==
    ASSUME IInv, PublishMessage
    PROVE  IInv'
<1>0. TypeOK /\ ViewsNested
  BY DEF IInv
<1>1. CASE PublishReturns \/ PublishRejected
  <2>1. PICK res \in {"returned", "RabbitMQMessageError"} :
           Return("publish_message", res)
    BY <1>1 DEF PublishReturns, PublishRejected
  <2>2. UNCHANGED client /\ UNCHANGED <<pika, net>>
    BY <1>1 DEF PublishReturns, PublishRejected, PikaServed
  <2> QED BY <1>0, <2>1, <2>2, ServedEffect, CallEnds DEF client
<1>2. CASE PublishRaises
  <2>1. PICK exc \in PikaErrors :
           PikaRaises(exc) /\ Return("publish_message", exc)
    BY <1>2 DEF PublishRaises
  <2>2. UNCHANGED client
    BY <1>2 DEF PublishRaises
  <2> QED
    BY <1>0, <2>1, <2>2, RaisesEffect, CallEnds DEF client, PikaErrors
<1> QED BY <1>1, <1>2 DEF PublishMessage

(* And either call of check_health.                                         *)
LEMMA HealthStep ==
    ASSUME IInv, CheckHealth
    PROVE  IInv'
<1>0. /\ TypeOK /\ ViewsNested /\ RefsMatch /\ UseMatchesCheck /\ HealthTruth
      /\ pc # "idle" /\ UNCHANGED client
  BY DEF IInv, CheckHealth
<1>1. CASE PikaServed /\ pc' = "probe" /\ UNCHANGED <<cur, out>>
  BY <1>0, <1>1 DEF PikaServed, IInv, TypeOK, ViewsNested, RefsMatch,
                    UseMatchesCheck, HealthTruth, client, pika, net
<1>2. CASE PikaServed /\ Return("check_health", "OK")
  <2>1. /\ pc' = "idle" /\ out'.res = "OK" /\ out'.chan = cur.chan
        /\ cur' \in [op : AllOps \cup {"none"}, chan : 0..MaxConn]
        /\ out' \in [op : AllOps \cup {"none", "connect", "close",
                                       "get_connection_info"},
                     res : Results, chan : 0..MaxConn]
    BY <1>0, <1>2, ReturnEffect
  <2>2. UNCHANGED <<client, pika, net>> /\ cur.chan \in chanOpen
    BY <1>0, <1>2 DEF PikaServed
  <2>3. TypeOK' /\ ViewsNested' /\ RefsMatch'
    BY <1>0, <2>1, <2>2
       DEF TypeOK, ViewsNested, RefsMatch, client, pika, net
  <2>4. UseMatchesCheck' /\ HealthTruth'
    BY <1>0, <2>1, <2>2 DEF UseMatchesCheck, HealthTruth, client, pika, net
  <2> QED BY <2>3, <2>4 DEF IInv
<1>3. CASE /\ \E exc \in PikaErrors : PikaRaises(exc)
           /\ Return("check_health", "DEGRADED")
  <2>1. PICK exc \in PikaErrors : PikaRaises(exc)
    BY <1>3
  <2> QED BY <1>0, <1>3, <2>1, RaisesEffect, CallEnds DEF client
<1> QED BY <1>1, <1>2, <1>3 DEF CheckHealth

(* A failed _connect_once that ends the operation: the references it may    *)
(* have left half-updated still satisfy the inductive invariant.            *)
LEMMA ConnectFailed ==
    ASSUME IInv, NEW op \in AllOps \cup {"connect"},
           NEW res \in {"RabbitMQConnectionError", "DOWN"}, Return(op, res),
           ConnectFails \/ ConnectBreaks,
           res = "DOWN" => NeedsConnection
    PROVE  IInv'
<1>0. TypeOK /\ ViewsNested /\ RefsMatch
  BY DEF IInv
<1>1. /\ pc' = "idle" /\ out'.res = res
      /\ cur' \in [op : AllOps \cup {"none"}, chan : 0..MaxConn]
      /\ out' \in [op : AllOps \cup {"none", "connect", "close",
                                     "get_connection_info"},
                   res : Results, chan : 0..MaxConn]
  BY <1>0, ReturnEffect
<1>2. /\ ViewsNested' /\ RefsMatch'
      /\ connection' \in 0..MaxConn /\ channel' \in 0..MaxConn
      /\ connOpen' \subseteq Conns /\ chanOpen' \subseteq Conns
      /\ confirming' \subseteq Conns /\ opened' \in 0..MaxConn
      /\ up' \in BOOLEAN
      /\ link' \subseteq Conns /\ bchan' \subseteq Conns
      /\ NeedsConnection => connection' \notin connOpen'
  BY <1>0, FailsEffect, Zenon
<1>3. TypeOK'
  BY <1>1, <1>2 DEF TypeOK
<1>4. UseMatchesCheck' /\ HealthTruth'
  BY <1>1, <1>2 DEF UseMatchesCheck, HealthTruth
<1> QED BY <1>2, <1>3, <1>4 DEF IInv

(* Validation and _require_channel.                                         *)
LEMMA BeginStep ==
    ASSUME IInv, Begin
    PROVE  IInv'
<1>0. TypeOK /\ ViewsNested /\ RefsMatch /\ UseMatchesCheck /\ HealthTruth
  BY DEF IInv
<1> PICK op \in Ops : InvalidName(op) \/ RequireChannel(op)
  BY DEF Begin
<1>a. op \in AllOps
  BY ConstantsAssumption
<1>1. CASE InvalidName(op)
  <2>1. /\ Return(op, "RabbitMQValidationError")
        /\ UNCHANGED client /\ UNCHANGED <<pika, net>>
    BY <1>1 DEF InvalidName
  <2> QED BY <1>0, <1>a, <2>1, ServedEffect, CallEnds DEF client
<1>2. CASE /\ NeedsConnection
           /\ ConnectFails \/ ConnectBreaks
           /\ RequireRaises(op, "RabbitMQConnectionError")
  <2>1. PICK res \in {"RabbitMQConnectionError", "DOWN"} : Return(op, res)
    BY <1>2 DEF RequireRaises
  <2> QED BY <1>0, <1>a, <1>2, <2>1, ConnectFailed
<1>3. CASE /\ NeedsConnection /\ ConnectSucceeds
           /\ pc' = "call" /\ cur' = [op |-> op, chan |-> channel']
           /\ out' = out
  BY <1>0, <1>a, <1>3, SucceedsEffect
     DEF IInv, TypeOK, UseMatchesCheck, HealthTruth
<1>4. CASE /\ ~NeedsConnection /\ channel = None
           /\ RequireRaises(op, "AssertionError")
           /\ UNCHANGED <<client, pika, net>>
  <2>1. PICK res \in {"AssertionError", "DEGRADED"} : Return(op, res)
    BY <1>4 DEF RequireRaises
  <2>2. UNCHANGED client /\ UNCHANGED <<pika, net>>
    BY <1>4
  <2> QED BY <1>0, <1>a, <2>1, <2>2, ServedEffect, CallEnds DEF client
<1>5. CASE /\ ~NeedsConnection /\ channel # None
           /\ pc' = "call" /\ cur' = [op |-> op, chan |-> channel]
           /\ UNCHANGED <<client, pika, net, out>>
  BY <1>0, <1>a, <1>5
     DEF IInv, NeedsConnection, TypeOK, ViewsNested, RefsMatch,
         UseMatchesCheck, HealthTruth, client, pika, net
<1> QED BY <1>1, <1>2, <1>3, <1>4, <1>5 DEF RequireChannel

(* connect, close and get_connection_info.                                  *)
LEMMA LifecycleStep ==
    ASSUME IInv, Connect \/ Close \/ GetConnectionInfo
    PROVE  IInv'
<1>0. TypeOK /\ ViewsNested /\ RefsMatch /\ UseMatchesCheck /\ HealthTruth
  BY DEF IInv
<1>1. CASE ConnectSucceeds /\ Return("connect", "returned")
  BY <1>0, <1>1, SucceedsEffect, ReturnEffect
     DEF IInv, TypeOK, UseMatchesCheck, HealthTruth
<1>2. CASE /\ ConnectFails \/ ConnectBreaks
           /\ Return("connect", "RabbitMQConnectionError")
  BY <1>0, <1>2, ConnectFailed
<1>3. CASE Close
  <2>1. Return("close", "returned")
    BY <1>3 DEF Close
  <2>2. /\ pc' = "idle" /\ out'.res = "returned"
        /\ cur' \in [op : AllOps \cup {"none"}, chan : 0..MaxConn]
        /\ out' \in [op : AllOps \cup {"none", "connect", "close",
                                       "get_connection_info"},
                     res : Results, chan : 0..MaxConn]
    BY <1>0, <2>1, ReturnEffect
  <2>3. TypeOK' /\ ViewsNested' /\ RefsMatch'
    BY <1>0, <1>3, <2>2, ConstantsAssumption
       DEF Close, TypeOK, ViewsNested, RefsMatch
  <2> QED BY <2>2, <2>3 DEF IInv, UseMatchesCheck, HealthTruth
<1>4. CASE GetConnectionInfo
  <2>1. PICK res \in {"connected", "disconnected"} :
           Return("get_connection_info", res)
    BY <1>4 DEF GetConnectionInfo
  <2>2. /\ pc' = "idle" /\ out'.res = res
        /\ cur' \in [op : AllOps \cup {"none"}, chan : 0..MaxConn]
        /\ out' \in [op : AllOps \cup {"none", "connect", "close",
                                       "get_connection_info"},
                     res : Results, chan : 0..MaxConn]
    BY <1>0, <2>1, ReturnEffect
  <2> QED
    BY <1>0, <1>4, <2>2
       DEF GetConnectionInfo, IInv, TypeOK, ViewsNested, RefsMatch,
           UseMatchesCheck, HealthTruth, client, pika, net
<1> QED BY <1>1, <1>2, <1>3, <1>4 DEF Connect

(* What the broker and the network do.                                      *)
LEMMA EnvironmentStep ==
    ASSUME IInv, Environment
    PROVE  IInv'
<1>0. TypeOK /\ ViewsNested /\ RefsMatch /\ UseMatchesCheck /\ HealthTruth
  BY DEF IInv
<1> QED
  BY <1>0
     DEF IInv, Environment, LinkLost, BrokerStops, BrokerStarts,
         TypeOK, ViewsNested, RefsMatch, UseMatchesCheck, HealthTruth, client, pika

(* Every step preserves the inductive invariant.                            *)
LEMMA StepPreserves == IInv /\ [Next]_vars => IInv'
<1> SUFFICES ASSUME IInv, [Next]_vars PROVE IInv'
  OBVIOUS
<1>1. CASE Call
  <2>1. CASE \E op \in Refusable : RefusableCall(op)
    BY <2>1, RefusableStep
  <2>2. CASE \E op \in Settles : SettleCall(op)
    BY <2>2, SettleStep
  <2>3. CASE PublishMessage \/ CheckHealth
    BY <2>3, PublishStep, HealthStep
  <2> QED
    BY <1>1, <2>1, <2>2, <2>3
       DEF Call, DeclareQueue, DeleteQueue, PurgeQueue, BindQueue,
           UnbindQueue, GetQueueInfo, DeclareExchange, DeleteExchange,
           BindExchange, ConsumeMessage, AckMessage, NackMessage, RejectMessage
<1>2. CASE Begin
  BY <1>2, BeginStep
<1>3. CASE Connect \/ Close \/ GetConnectionInfo
  BY <1>3, LifecycleStep
<1>4. CASE Environment
  BY <1>4, EnvironmentStep
<1>5. CASE UNCHANGED vars
  BY <1>5 DEF IInv, TypeOK, ViewsNested, RefsMatch, UseMatchesCheck,
              HealthTruth, vars, client, pika, net
<1> QED BY <1>1, <1>2, <1>3, <1>4, <1>5 DEF Next

(* The inductive invariant holds in every reachable state.                  *)
THEOREM Invariance == Spec => []IInv
BY InitEstablishes, StepPreserves, PTL DEF Spec

(* The variables have their types.                                          *)
THEOREM TypeCorrect == Spec => []TypeOK
<1>1. IInv => TypeOK
  BY DEF IInv
<1> QED BY <1>1, Invariance, PTL

(* An operation works on the channel of the very connection whose is_open   *)
(* _require_channel checked.                                                *)
THEOREM ChannelMatches == Spec => []UseMatchesCheck
<1>1. IInv => UseMatchesCheck
  BY DEF IInv
<1> QED BY <1>1, Invariance, PTL

(* check_health's DOWN and OK mean what they say about the connection.      *)
THEOREM HealthTrue == Spec => []HealthTruth
<1>1. IInv => HealthTruth
  BY DEF IInv
<1> QED BY <1>1, Invariance, PTL

-----------------------------------------------------------------------------
(* Action properties *)

(* The broker call of an operation keeps _connection and opens nothing.     *)
LEMMA CallFrame ==
    ASSUME Call
    PROVE  connection' = connection /\ link' \subseteq link
<1>1. ASSUME NEW op \in Refusable, RefusableCall(op)
      PROVE  connection' = connection /\ link' \subseteq link
  BY <1>1 DEF RefusableCall, Served, Refused, Uncaught, PikaServed, PikaRaises,
              client, net
<1>2. ASSUME NEW op \in Settles, SettleCall(op)
      PROVE  connection' = connection /\ link' \subseteq link
  BY <1>2 DEF SettleCall, SettleSent, SettleFails, PikaSends, PikaRaises,
              client, net
<1>3. ASSUME PublishMessage \/ CheckHealth
      PROVE  connection' = connection /\ link' \subseteq link
  BY <1>3 DEF PublishMessage, PublishReturns, PublishRejected, PublishRaises,
              CheckHealth, PikaServed, PikaRaises, client, net
<1> QED
  BY <1>1, <1>2, <1>3
     DEF Call, DeclareQueue, DeleteQueue, PurgeQueue, BindQueue,
         UnbindQueue, GetQueueInfo, DeclareExchange, DeleteExchange,
         BindExchange, ConsumeMessage, AckMessage, NackMessage, RejectMessage

(* Only connect() called over an open connection leaks a connection.        *)
THEOREM LeaksOnlyByConnect == Spec => OnlyConnectLeaks
<1> DEFINE Leaks == \/ Leaked' \subseteq Leaked
                    \/ pc = "idle" /\ pc' = "idle" /\ out'.op = "connect"
<1>1. ASSUME IInv, Next PROVE Leaks
  <2>0. link \subseteq connOpen /\ None \notin connOpen
    BY <1>1 DEF IInv, ViewsNested, TypeOK
  <2>1. CASE Call
    BY <2>1, CallFrame DEF Leaked
  <2>2. CASE Begin
    <3>1. CASE UNCHANGED <<connection, link>>
      BY <3>1 DEF Leaked
    <3>2. CASE NeedsConnection /\ connection' \notin connOpen
               /\ link' \subseteq link \cup {connection'}
      BY <2>0, <3>2 DEF NeedsConnection, Leaked
    <3>3. \A k \in connOpen : k <= opened
      BY <1>1 DEF IInv, ViewsNested
    <3>4. opened \in Nat
      BY <1>1, ConstantsAssumption DEF IInv, TypeOK
    <3>5. opened + 1 \notin connOpen
      BY <3>3, <3>4
    <3> QED
      BY <2>2, <3>1, <3>2, <3>5
         DEF Begin, InvalidName, RequireChannel, ConnectFails, ConnectBreaks,
             ConnectSucceeds, client, net
  <2>3. CASE Connect
    BY <2>3 DEF Connect, Return
  <2>4. CASE Close
    BY <2>0, <2>4 DEF Close, Leaked
  <2>5. CASE GetConnectionInfo \/ Environment
    BY <2>5 DEF GetConnectionInfo, Environment, LinkLost, BrokerStops,
                BrokerStarts, Leaked, client, net
  <2> QED BY <1>1, <2>1, <2>2, <2>3, <2>4, <2>5 DEF Next
<1>2. IInv /\ [Next]_vars => [Leaks]_vars
  BY <1>1
<1> QED BY <1>2, Invariance, PTL DEF Spec, OnlyConnectLeaks

(* A publish that returns was taken by the broker.                          *)
THEOREM PublishTaken == Spec => PublishOkTaken
<1> DEFINE Taken == (InCall("publish_message") /\ pc' = "idle"
                        /\ out'.res = "returned") => cur.chan \in bchan
<1>1. ASSUME IInv, Next, InCall("publish_message"), pc' = "idle",
             out'.res = "returned"
      PROVE  cur.chan \in bchan
  <2>1. PublishMessage
    BY <1>1
       DEF Next, InCall, Begin, InvalidName, RequireChannel, Connect, Close,
           GetConnectionInfo, Environment, LinkLost, BrokerStops,
           BrokerStarts, Call, DeclareQueue, DeleteQueue, PurgeQueue,
           BindQueue, UnbindQueue, GetQueueInfo, DeclareExchange,
           DeleteExchange, BindExchange, ConsumeMessage, AckMessage,
           NackMessage, RejectMessage, CheckHealth, RefusableCall, Served,
           Refused, Uncaught, SettleCall, SettleSent, SettleFails
  <2>2. chanOpen \subseteq confirming
    BY <1>1 DEF IInv, ViewsNested
  <2>3. CASE PublishReturns
    BY <2>2, <2>3 DEF PublishReturns
  <2>4. CASE PublishRejected \/ PublishRaises
    BY <1>1, <2>4
       DEF PublishRejected, PublishRaises, PikaErrors, Return
  <2> QED BY <2>1, <2>3, <2>4 DEF PublishMessage
<1>2. IInv /\ [Next]_vars => [Taken]_vars
  BY <1>1
<1> QED BY <1>2, Invariance, PTL DEF Spec, PublishOkTaken

(* close() ends the connection at the broker and leaves no reference.       *)
THEOREM CloseReleasesAll == Spec => CloseReleases
<1> DEFINE Released ==
      (pc = "idle" /\ connection # None /\ connection' = None)
         => /\ connection \notin link' \cup bchan' \cup connOpen'
            /\ channel \notin chanOpen' /\ channel' = None
<1>1. ASSUME IInv, Next, pc = "idle", connection # None, connection' = None
      PROVE  Released
  <2>0. link \subseteq connOpen /\ bchan \subseteq link /\ opened \in Nat
    BY <1>1, ConstantsAssumption DEF IInv, ViewsNested, TypeOK
  <2>1. ~Call
    BY <1>1, CallFrame
  <2>2. ~(Begin \/ Connect)
    BY <1>1, <2>0
       DEF Begin, InvalidName, RequireChannel, Connect, ConnectFails,
           ConnectBreaks, ConnectSucceeds, client
  <2>3. ~(GetConnectionInfo \/ Environment)
    BY <1>1 DEF GetConnectionInfo, Environment, LinkLost, BrokerStops,
                BrokerStarts, client
  <2>4. Close
    BY <1>1, <2>1, <2>2, <2>3 DEF Next
  <2> QED BY <2>0, <2>4 DEF Close
<1>2. IInv /\ [Next]_vars => [Released]_vars
  BY <1>1
<1> QED BY <1>2, Invariance, PTL DEF Spec, CloseReleases

-----------------------------------------------------------------------------
(* Wedging *)

(* A client becomes wedged only by a refused operation, and from then on    *)
(* only connect() and close() change what makes it so.                      *)
LEMMA WedgeStep ==
    ASSUME IInv, Next
    PROVE  /\ Wedged' /\ ~Wedged => out'.res = "RabbitMQChannelError"
           /\ Wedged /\ ~Wedged' => out'.op \in {"connect", "close"}
<1>0. TypeOK /\ ViewsNested /\ RefsMatch /\ UseMatchesCheck
  BY DEF IInv
<1>a. None \notin connOpen /\ (Wedged => pc = "idle" /\ ~NeedsConnection)
  BY <1>0 DEF TypeOK, Wedged, UseMatchesCheck, NeedsConnection
<1>b. ASSUME UNCHANGED client, connOpen' \subseteq connOpen
      PROVE  Wedged' => Wedged
  BY <1>b DEF Wedged, client
<1>c. ASSUME ConnectFails \/ ConnectBreaks PROVE Wedged' => Wedged
  BY <1>c, <1>0, ConstantsAssumption
     DEF ConnectFails, ConnectBreaks, Wedged, TypeOK, ViewsNested, client, pika
<1>d. ASSUME ConnectSucceeds PROVE ~Wedged'
  BY <1>d, <1>0, ConstantsAssumption DEF ConnectSucceeds, Wedged, TypeOK
<1>1. CASE Call
  <2>1. ~Wedged
    BY <1>1, <1>a
       DEF Call, DeclareQueue, DeleteQueue, PurgeQueue, BindQueue,
           UnbindQueue, GetQueueInfo, DeclareExchange, DeleteExchange,
           BindExchange, ConsumeMessage, AckMessage, NackMessage,
           RejectMessage, RefusableCall, Served, Refused, Uncaught,
           SettleCall, SettleSent, SettleFails, PublishMessage,
           PublishReturns, PublishRejected, PublishRaises, CheckHealth, InCall
  <2>2. ASSUME NEW op \in Refusable, RefusableCall(op)
        PROVE  Wedged' => out'.res = "RabbitMQChannelError"
    <3>1. CASE Refused(op)
      BY <3>1 DEF Refused, Return
    <3>2. CASE Served(op) \/ Uncaught(op)
      <4>1. UNCHANGED client /\ connOpen' \subseteq connOpen
        BY <3>2 DEF Served, Uncaught, PikaServed, PikaRaises, pika
      <4> QED BY <2>1, <4>1, <1>b
    <3> QED BY <2>2, <3>1, <3>2 DEF RefusableCall
  <2>3. ASSUME NEW op \in Settles, SettleCall(op) PROVE ~Wedged'
    <3>1. UNCHANGED client /\ connOpen' \subseteq connOpen
      BY <2>3 DEF SettleCall, SettleSent, SettleFails, PikaSends, PikaRaises,
                  pika
    <3> QED BY <2>1, <3>1, <1>b
  <2>4. ASSUME PublishMessage \/ CheckHealth PROVE ~Wedged'
    <3>1. UNCHANGED client /\ connOpen' \subseteq connOpen
      BY <2>4 DEF PublishMessage, PublishReturns, PublishRejected,
                  PublishRaises, CheckHealth, PikaServed, PikaRaises, pika
    <3> QED BY <2>1, <3>1, <1>b
  <2> QED
    BY <1>1, <2>1, <2>2, <2>3, <2>4
       DEF Call, DeclareQueue, DeleteQueue, PurgeQueue, BindQueue,
           UnbindQueue, GetQueueInfo, DeclareExchange, DeleteExchange,
           BindExchange, ConsumeMessage, AckMessage, NackMessage, RejectMessage
<1>2. CASE Begin
  <2>1. Wedged' => Wedged
    BY <1>2, <1>b, <1>c, <1>d
       DEF Begin, InvalidName, RequireChannel, client, pika
  <2>2. Wedged => UNCHANGED <<client, pika>>
    BY <1>2, <1>a DEF Begin, InvalidName, RequireChannel
  <2> QED BY <2>1, <2>2 DEF Wedged, client, pika
<1>3. CASE Connect
  BY <1>3, <1>c, <1>d DEF Connect, Return
<1>4. CASE Close
  BY <1>4, <1>a, <1>0 DEF Close, Return, Wedged, TypeOK
<1>5. CASE GetConnectionInfo \/ Environment
  BY <1>5 DEF GetConnectionInfo, Environment, LinkLost, BrokerStops,
              BrokerStarts, Wedged, client, pika
<1> QED BY <1>1, <1>2, <1>3, <1>4, <1>5 DEF Next

(* The wedge is entered by a refused operation and left by a reset only.    *)
THEOREM WedgeIsReset == Spec => WedgeNeedsReset
<1>1. IInv /\ [Next]_vars =>
        [/\ Wedged' /\ ~Wedged => out'.res = "RabbitMQChannelError"
         /\ Wedged /\ ~Wedged' => out'.op \in {"connect", "close"}]_vars
  BY WedgeStep
<1> QED BY <1>1, Invariance, PTL DEF Spec, WedgeNeedsReset

(* After close(), until the next call has begun, there is no connection.    *)
AfterClose ==
    pc = "idle" /\ out.op = "close" => connection = None /\ out.res = "returned"

(* From there the next operation connects, or says that it could not.       *)
LEMMA RecoverStep ==
    ASSUME IInv, AfterClose, Next
    PROVE  /\ AfterClose'
           /\ (pc = "idle" /\ out.op = "close")
                 => /\ pc' = "call" => cur'.chan \in chanOpen' \ chanOpen
                    /\ out'.res \notin {"AssertionError", "DEGRADED"}
<1>0. TypeOK /\ ViewsNested /\ HealthTruth
  BY DEF IInv
<1>1. CASE Call
  <2>1. pc # "idle" /\ (pc' # "idle" \/ out'.op \in AllOps)
    BY <1>1
       DEF Call, DeclareQueue, DeleteQueue, PurgeQueue, BindQueue,
           UnbindQueue, GetQueueInfo, DeclareExchange, DeleteExchange,
           BindExchange, ConsumeMessage, AckMessage, NackMessage,
           RejectMessage, RefusableCall, Served, Refused, Uncaught,
           SettleCall, SettleSent, SettleFails, PublishMessage,
           PublishReturns, PublishRejected, PublishRaises, CheckHealth,
           InCall, Return
  <2> QED BY <2>1 DEF AfterClose
<1>2. CASE Begin
  <2> PICK op \in Ops : InvalidName(op) \/ RequireChannel(op)
    BY <1>2 DEF Begin
  <2>a. op \in AllOps
    BY ConstantsAssumption
  <2>1. CASE InvalidName(op)
    BY <2>a, <2>1 DEF InvalidName, Return, AfterClose
  <2>2. CASE /\ NeedsConnection /\ (ConnectFails \/ ConnectBreaks)
             /\ RequireRaises(op, "RabbitMQConnectionError")
    BY <2>a, <2>2 DEF RequireRaises, Return, AfterClose
  <2>3. CASE /\ NeedsConnection /\ ConnectSucceeds
             /\ pc' = "call" /\ cur' = [op |-> op, chan |-> channel']
             /\ out' = out
    <3>1. channel' \in chanOpen' \ chanOpen
      BY <1>0, <2>3, ConstantsAssumption
         DEF ConnectSucceeds, ViewsNested, TypeOK
    <3> QED BY <2>3, <3>1 DEF AfterClose
  <2>4. CASE ~NeedsConnection /\ RequireChannel(op)
    BY <1>0, <2>a, <2>4
       DEF RequireChannel, RequireRaises, Return, AfterClose, NeedsConnection
  <2> QED BY <2>1, <2>2, <2>3, <2>4 DEF RequireChannel
<1>3. CASE Connect
  BY <1>3 DEF Connect, Return, AfterClose
<1>4. CASE Close
  BY <1>4 DEF Close, Return, AfterClose
<1>5. CASE GetConnectionInfo
  BY <1>5 DEF GetConnectionInfo, Return, AfterClose
<1>6. CASE Environment
  BY <1>6 DEF Environment, LinkLost, BrokerStops, BrokerStarts, AfterClose,
              client
<1> QED BY <1>1, <1>2, <1>3, <1>4, <1>5, <1>6 DEF Next

(* close() is a way out of every state.                                     *)
THEOREM CloseIsWayOut == Spec => CloseRecovers
<1> DEFINE Recovers ==
      (pc = "idle" /\ out.op = "close")
         => /\ pc' = "call" => cur'.chan \in chanOpen' \ chanOpen
            /\ out'.res \notin {"AssertionError", "DEGRADED"}
<1>1. Init => AfterClose
  BY DEF Init, AfterClose
<1>2. IInv /\ AfterClose /\ [Next]_vars => AfterClose'
  <2>1. CASE UNCHANGED vars
    BY <2>1 DEF AfterClose, vars, client
  <2> QED BY <2>1, RecoverStep
<1>3. IInv /\ AfterClose /\ [Next]_vars => [Recovers]_vars
  BY RecoverStep
<1>4. Spec => [][Recovers]_vars
  BY <1>1, <1>2, <1>3, Invariance, PTL DEF Spec
<1> QED BY <1>4 DEF CloseRecovers
=============================================================================
