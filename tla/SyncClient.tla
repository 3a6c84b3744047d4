------------------------------ MODULE SyncClient ------------------------------
(***************************************************************************)
(* The connection and channel life cycle of the blocking RabbitMQClient     *)
(* (utilities/rabbitmq.py).  The client keeps two references, _connection   *)
(* and _channel; pika keeps an is_open flag for each object, which changes  *)
(* only while pika does I/O, that is inside an operation; and the broker    *)
(* has its own view of which connections and channels exist.  The module    *)
(* follows all three.                                                       *)
(*                                                                         *)
(* Every successful pika.BlockingConnection gets the next number.  At most  *)
(* one channel is ever opened on a connection, so channel k is the channel  *)
(* of connection k.                                                         *)
(***************************************************************************)
EXTENDS Naturals

CONSTANTS
    MaxConn,    \* bound: connections the client opens in a behaviour
    Ops         \* the operations the caller uses

Refusable == {"declare_queue", "get_queue_info", "delete_queue",
              "purge_queue", "bind_queue", "unbind_queue",
              "declare_exchange", "delete_exchange", "bind_exchange",
              "consume_message"}
Settles == {"ack_message", "nack_message", "reject_message"}
AllOps == Refusable \cup Settles \cup {"publish_message", "check_health"}
Named == Refusable \cup {"publish_message"}  \* they validate a name first

ASSUME ConstantsAssumption == MaxConn \in Nat \ {0} /\ Ops \subseteq AllOps

None == 0
Conns == 1..MaxConn

(* What an operation ends with: a value, or the class of what it raises.   *)
ToolErrors == {"RabbitMQValidationError", "RabbitMQConnectionError",
               "RabbitMQChannelError", "RabbitMQMessageError"}
RawErrors == {"AssertionError", "ChannelWrongStateError",
              "AMQPConnectionError", "ChannelClosedByBroker"}
Values == {"returned", "OK", "DOWN", "DEGRADED", "connected", "disconnected"}
Results == ToolErrors \cup RawErrors \cup Values

VARIABLES
    connection,  \* self._connection: None or the number of a connection
    channel,     \* self._channel: None or the number of a channel
    connOpen,    \* pika: connections whose is_open is True
    chanOpen,    \* pika: channels whose is_open is True
    confirming,  \* channels put in publisher-confirm mode
    opened,      \* connections opened so far
    up,          \* the broker runs and can be reached
    link,        \* broker: connections that are established
    bchan,       \* broker: channels that are open
    pc,          \* "idle", "call" (before the broker call), "probe" (second
                 \* call of check_health)
    cur,         \* the operation under way and its local variable channel
    out          \* how the last operation ended

client == <<connection, channel>>
pika == <<connOpen, chanOpen, confirming, opened>>
net == <<up, link, bchan>>
vars == <<client, pika, net, pc, cur, out>>

NoCall == [op |-> "none", chan |-> None]

Init ==
    /\ connection = None /\ channel = None
    /\ connOpen = {} /\ chanOpen = {} /\ confirming = {} /\ opened = 0
    /\ up \in BOOLEAN /\ link = {} /\ bchan = {}
    /\ pc = "idle" /\ cur = NoCall
    /\ out = [op |-> "none", res |-> "returned", chan |-> None]

Return(op, res) ==
    /\ pc' = "idle" /\ cur' = NoCall
    /\ out' = [op |-> op, res |-> res, chan |-> cur.chan]

-----------------------------------------------------------------------------
(* _connect_once *)

(* pika.BlockingConnection raises: nothing is assigned. *)
ConnectFails == UNCHANGED <<client, pika, net>>

(* Mutant: confirm_delivery is never called.                                *)
ConnectWithoutConfirms ==
    LET k == opened + 1 IN
    /\ up /\ k \in Conns
    /\ opened' = k
    /\ connection' = k /\ channel' = k
    /\ connOpen' = connOpen \cup {k} /\ chanOpen' = chanOpen \cup {k}
    /\ confirming' = confirming
    /\ link' = link \cup {k} /\ bchan' = bchan \cup {k}
    /\ up' = up

(* Connection, channel and confirm mode are all established.  A connection  *)
(* that was still open is overwritten, not closed.                          *)
ConnectSucceeds ==
    LET k == opened + 1 IN
    /\ up /\ k \in Conns
    /\ opened' = k
    /\ connection' = k /\ channel' = k
    /\ connOpen' = connOpen \cup {k} /\ chanOpen' = chanOpen \cup {k}
    /\ confirming' = confirming \cup {k}
    /\ link' = link \cup {k} /\ bchan' = bchan \cup {k}
    /\ up' = up

(* The new connection is lost again before channel() returns, so _channel   *)
(* keeps its old value, or before confirm_delivery() does.                  *)
ConnectBreaks ==
    LET k == opened + 1 IN
    /\ up /\ k \in Conns
    /\ opened' = k
    /\ connection' = k /\ channel' \in {channel, k}
    /\ UNCHANGED <<connOpen, chanOpen, confirming, net>>

-----------------------------------------------------------------------------
(* connect, close and the context manager *)

(* The retry loop of connect makes exactly one attempt: every failure of    *)
(* _connect_once is a RabbitMQConnectionError, which the policy does not    *)
(* retry (module ConnectRetry).                                             *)
Connect ==
    /\ pc = "idle"
    /\ \/ ConnectSucceeds /\ Return("connect", "returned")
       \/ /\ ConnectFails \/ ConnectBreaks
          /\ Return("connect", "RabbitMQConnectionError")

(* Mutant: one try block, so a channel that fails to close hides the        *)
(* connection from close().                                                 *)
CloseInOneBlock ==
    LET ch == {channel} \cap chanOpen
        co == IF ch \subseteq bchan THEN {connection} \cap connOpen ELSE {} IN
    /\ pc = "idle"
    /\ channel' = None /\ connection' = None
    /\ chanOpen' = chanOpen \ (ch \cup co)
    /\ connOpen' = connOpen \ co
    /\ bchan' = bchan \ (ch \cup co)
    /\ link' = link \ co
    /\ Return("close", "returned")
    /\ UNCHANGED <<confirming, opened, up>>

(* Mutant: _connection is reset only when its close succeeds.               *)
CloseKeepsConnection ==
    LET ch == {channel} \cap chanOpen
        co == {connection} \cap link IN
    /\ pc = "idle"
    /\ channel' = None
    /\ connection' = IF connection \in link THEN None ELSE connection
    /\ chanOpen' = chanOpen \ (ch \cup co)
    /\ connOpen' = connOpen \ co
    /\ bchan' = bchan \ (ch \cup co)
    /\ link' = link \ co
    /\ Return("close", "returned")
    /\ UNCHANGED <<confirming, opened, up>>

(* Both halves run whatever the other raises; each resets its reference.    *)
Close ==
    LET ch == {channel} \cap chanOpen
        co == {connection} \cap connOpen IN
    /\ pc = "idle"
    /\ channel' = None /\ connection' = None
    /\ chanOpen' = chanOpen \ (ch \cup co)
    /\ connOpen' = connOpen \ co
    /\ bchan' = bchan \ (ch \cup co)
    /\ link' = link \ co
    /\ Return("close", "returned")
    /\ UNCHANGED <<confirming, opened, up>>

GetConnectionInfo ==
    /\ pc = "idle"
    /\ Return("get_connection_info",
              IF connection \in connOpen THEN "connected" ELSE "disconnected")
    /\ UNCHANGED <<client, pika, net>>

-----------------------------------------------------------------------------
(* Validation and _require_channel, with which every operation begins *)

(* Mutant: validation raises Python's own ValueError.                       *)
InvalidNameRaw(op) ==
    /\ pc = "idle" /\ op \in Named
    /\ Return(op, "ValueError")
    /\ UNCHANGED <<client, pika, net>>

InvalidName(op) ==
    /\ pc = "idle" /\ op \in Named
    /\ Return(op, "RabbitMQValidationError")
    /\ UNCHANGED <<client, pika, net>>

(* Mutant: check_health reports every failure of _require_channel as DOWN.  *)
RequireRaisesDown(op, exc) ==
    Return(op, IF op # "check_health" THEN exc ELSE "DOWN")

(* check_health calls _require_channel inside its try block.               *)
RequireRaises(op, exc) ==
    Return(op, IF op # "check_health" THEN exc
               ELSE IF exc = "RabbitMQConnectionError" THEN "DOWN"
               ELSE "DEGRADED")

(* Mutant: is_open of the connection is not looked at.                      *)
NeedsNoOpenConnection == connection = None

(* Mutant: a forgotten channel is a reason to connect anew.                 *)
NeedsChannel ==
    connection = None \/ connection \notin connOpen \/ channel = None

NeedsConnection == connection = None \/ connection \notin connOpen

RequireChannel(op) ==
    /\ pc = "idle"
    /\ \/ /\ NeedsConnection
          /\ ConnectFails \/ ConnectBreaks
          /\ RequireRaises(op, "RabbitMQConnectionError")
       \/ /\ NeedsConnection
          /\ ConnectSucceeds
          /\ pc' = "call" /\ cur' = [op |-> op, chan |-> channel']
          /\ out' = out
       \/ /\ ~NeedsConnection /\ channel = None
          /\ RequireRaises(op, "AssertionError")
          /\ UNCHANGED <<client, pika, net>>
       \/ /\ ~NeedsConnection /\ channel # None
          /\ pc' = "call" /\ cur' = [op |-> op, chan |-> channel]
          /\ UNCHANGED <<client, pika, net, out>>

-----------------------------------------------------------------------------
(* What pika does with a synchronous call on channel cur.chan *)

PikaServed ==
    /\ cur.chan \in chanOpen \cap bchan
    /\ UNCHANGED <<pika, net>>

(* The channel is closed already; the connection is lost, possibly after    *)
(* the broker did what it was asked; or the broker closes the channel, or   *)
(* had closed it and pika reads that only now.                              *)
PikaRaises(exc) ==
    /\ \/ /\ exc = "ChannelWrongStateError"
          /\ cur.chan \notin chanOpen
          /\ UNCHANGED <<connOpen, chanOpen, link, bchan>>
       \/ /\ exc = "AMQPConnectionError"
          /\ cur.chan \in chanOpen
          /\ connOpen' = connOpen \ {cur.chan}
          /\ chanOpen' = chanOpen \ {cur.chan}
          /\ link' = link \ {cur.chan}
          /\ bchan' = bchan \ {cur.chan}
       \/ /\ exc = "ChannelClosedByBroker"
          /\ cur.chan \in chanOpen \cap link
          /\ chanOpen' = chanOpen \ {cur.chan}
          /\ bchan' = bchan \ {cur.chan}
          /\ UNCHANGED <<connOpen, link>>
    /\ UNCHANGED <<confirming, opened, up>>

(* ack, nack and reject are written without waiting for an answer: nothing  *)
(* tells that the link or the channel is gone, and a tag the broker does    *)
(* not know closes the channel behind the client's back.                    *)
PikaSends ==
    /\ cur.chan \in chanOpen
    /\ bchan' \in {bchan, bchan \ {cur.chan}}
    /\ UNCHANGED <<pika, up, link>>

PikaErrors == {"ChannelWrongStateError", "AMQPConnectionError",
               "ChannelClosedByBroker"}

-----------------------------------------------------------------------------
(* The broker call of each operation and its except clauses *)

InCall(op) == pc = "call" /\ cur.op = op

Served(op) == InCall(op) /\ PikaServed /\ Return(op, "returned")
              /\ UNCHANGED client

(* The shape of every queue and exchange operation and of consume_message: *)
(* only ChannelClosedByBroker is caught, and the channel is forgotten.      *)
Refused(op) ==
    /\ InCall(op)
    /\ PikaRaises("ChannelClosedByBroker")
    /\ channel' = None /\ connection' = connection
    /\ Return(op, "RabbitMQChannelError")

Uncaught(op) ==
    /\ InCall(op)
    /\ \E exc \in {"ChannelWrongStateError", "AMQPConnectionError"} :
          PikaRaises(exc) /\ Return(op, exc)
    /\ UNCHANGED client

RefusableCall(op) == Served(op) \/ Refused(op) \/ Uncaught(op)

DeclareQueue == RefusableCall("declare_queue")
DeleteQueue == RefusableCall("delete_queue")
PurgeQueue == RefusableCall("purge_queue")
BindQueue == RefusableCall("bind_queue")
UnbindQueue == RefusableCall("unbind_queue")
GetQueueInfo == RefusableCall("get_queue_info")
DeclareExchange == RefusableCall("declare_exchange")
DeleteExchange == RefusableCall("delete_exchange")
BindExchange == RefusableCall("bind_exchange")
ConsumeMessage == RefusableCall("consume_message")

(* On a channel without confirms basic_publish would not wait.  Unroutable *)
(* and nack'd messages are translated; ChannelClosedByBroker is not.        *)
PublishReturns ==
    /\ InCall("publish_message")
    /\ cur.chan \in chanOpen
    /\ cur.chan \in confirming => cur.chan \in bchan
    /\ Return("publish_message", "returned")
    /\ UNCHANGED <<client, pika, net>>

(* Mutant: the channel is forgotten over an unroutable message.             *)
PublishRejectedForgets ==
    /\ InCall("publish_message")
    /\ PikaServed
    /\ Return("publish_message", "RabbitMQMessageError")
    /\ channel' = None /\ connection' = connection

PublishRejected ==
    /\ InCall("publish_message")
    /\ PikaServed
    /\ Return("publish_message", "RabbitMQMessageError")
    /\ UNCHANGED client

PublishRaises ==
    /\ InCall("publish_message")
    /\ \E exc \in PikaErrors : PikaRaises(exc) /\ Return("publish_message", exc)
    /\ UNCHANGED client

PublishMessage == PublishReturns \/ PublishRejected \/ PublishRaises

(* ack_message, nack_message and reject_message turn every exception of     *)
(* the send into a RabbitMQMessageError and leave the references alone.     *)
SettleSent(op) ==
    InCall(op) /\ PikaSends /\ Return(op, "returned") /\ UNCHANGED client

SettleFails(op) ==
    /\ InCall(op)
    /\ \E exc \in PikaErrors : PikaRaises(exc)
    /\ Return(op, "RabbitMQMessageError")
    /\ UNCHANGED client

SettleCall(op) == SettleSent(op) \/ SettleFails(op)

AckMessage == SettleCall("ack_message")
NackMessage == SettleCall("nack_message")
RejectMessage == SettleCall("reject_message")

(* check_health: declare the probe queue, then delete it. *)
CheckHealth ==
    /\ pc \in {"call", "probe"} /\ cur.op = "check_health"
    /\ \/ /\ PikaServed /\ pc = "call"
          /\ pc' = "probe" /\ UNCHANGED <<cur, out>>
       \/ PikaServed /\ pc = "probe" /\ Return("check_health", "OK")
       \/ /\ \E exc \in PikaErrors : PikaRaises(exc)
          /\ Return("check_health", "DEGRADED")
    /\ UNCHANGED client

-----------------------------------------------------------------------------
(* The broker and the network *)

LinkLost(k) ==
    /\ k \in link
    /\ link' = link \ {k} /\ bchan' = bchan \ {k}
    /\ UNCHANGED <<client, pika, up, pc, cur, out>>

BrokerStops ==
    /\ up /\ up' = FALSE
    /\ link' = {} /\ bchan' = {}
    /\ UNCHANGED <<client, pika, pc, cur, out>>

BrokerStarts ==
    /\ ~up /\ up' = TRUE
    /\ UNCHANGED <<client, pika, link, bchan, pc, cur, out>>

-----------------------------------------------------------------------------
Begin == \E op \in Ops : InvalidName(op) \/ RequireChannel(op)

Call ==
    \/ DeclareQueue \/ DeleteQueue \/ PurgeQueue \/ BindQueue \/ UnbindQueue
    \/ GetQueueInfo \/ DeclareExchange \/ DeleteExchange \/ BindExchange
    \/ ConsumeMessage \/ PublishMessage
    \/ AckMessage \/ NackMessage \/ RejectMessage
    \/ CheckHealth

Environment == (\E k \in Conns : LinkLost(k)) \/ BrokerStops \/ BrokerStarts

Next == Begin \/ Call \/ Connect \/ Close \/ GetConnectionInfo \/ Environment

Spec == Init /\ [][Next]_vars

-----------------------------------------------------------------------------
(* Properties *)

(* The variables have their types.                                          *)
TypeOK ==
    /\ connection \in 0..MaxConn /\ channel \in 0..MaxConn
    /\ connOpen \subseteq Conns /\ chanOpen \subseteq Conns
    /\ confirming \subseteq Conns /\ opened \in 0..MaxConn
    /\ up \in BOOLEAN /\ link \subseteq Conns /\ bchan \subseteq Conns
    /\ pc \in {"idle", "call", "probe"}
    /\ cur \in [op : AllOps \cup {"none"}, chan : 0..MaxConn]
    /\ out \in [op : AllOps \cup {"none", "connect", "close",
                                  "get_connection_info"},
                res : Results, chan : 0..MaxConn]

(* _require_channel checks that the connection is open and then hands out   *)
(* the channel unchecked.  What it hands out, if it is open at all, belongs *)
(* to the connection that was checked, whatever reconnects, half-finished   *)
(* connects and closes came before.                                         *)
UseMatchesCheck ==
    pc # "idle" => /\ connection \in connOpen
                   /\ cur.chan = connection /\ channel = connection

(* A publish that returns was taken by the broker: no path of _connect_once *)
(* leaves an open channel without confirm_delivery in _channel, so          *)
(* basic_publish always waits for the answer.                               *)
PublishOkTaken ==
    [][(InCall("publish_message") /\ pc' = "idle" /\ out'.res = "returned")
          => cur.chan \in bchan]_vars

(* Connections the broker keeps for this client that it no longer refers to *)
(* and so can never close.                                                  *)
Leaked == link \ {connection}

(* Only connect() called over an open connection leaks that connection.     *)
(* The implicit reconnects of _require_channel, close, and every error path *)
(* of the operations leave nothing behind.                                  *)
OnlyConnectLeaks ==
    [][\/ Leaked' \subseteq Leaked
       \/ pc = "idle" /\ pc' = "idle" /\ out'.op = "connect"]_vars

(* close() ends the connection at the broker even when closing the channel  *)
(* raises, and leaves no reference that a later operation could use.        *)
CloseReleases ==
    [][(pc = "idle" /\ connection # None /\ connection' = None)
          => /\ connection \notin link' \cup bchan' \cup connOpen'
             /\ channel \notin chanOpen' /\ channel' = None]_vars

(* close() is a way out of every state: the next operation starts on a      *)
(* freshly opened channel or reports that the broker cannot be reached.     *)
CloseRecovers ==
    [][(pc = "idle" /\ out.op = "close")
          => /\ pc' = "call" => cur'.chan \in chanOpen' \ chanOpen
             /\ out'.res \notin {"AssertionError", "DEGRADED"}]_vars

(* DOWN is reported only without an open connection, OK only with one whose *)
(* channel is open.                                                         *)
HealthTruth ==
    pc = "idle" =>
        /\ out.res = "DOWN" => connection \notin connOpen
        /\ out.res = "OK" => /\ connection \in connOpen \cap chanOpen
                             /\ out.chan = connection

(* The connection is open but _channel was forgotten.                       *)
Wedged == connection \in connOpen /\ channel = None

(* A client gets into that state only by a refused operation, and from then *)
(* on no operation does any I/O, so that pika does not even notice when the *)
(* connection goes away: only connect() or close() end it.                  *)
WedgeNeedsReset ==
    [][/\ Wedged' /\ ~Wedged => out'.res = "RabbitMQChannelError"
       /\ Wedged /\ ~Wedged' => out'.op \in {"connect", "close"}]_vars

(* The assertion of _require_channel: once it has connected, or found the   *)
(* connection open, there is a channel ("guaranteed by _connect_once").     *)
ChannelGuaranteed == out.res # "AssertionError"

(* _require_channel's contract: "Returns: An open pika blocking channel     *)
(* with publisher confirms enabled."  No channel opens or closes, for pika, *)
(* between its return and the operation's first call.                       *)
RequireReturnsOpen == pc = "call" => cur.chan \in chanOpen

(* The README's contract: "All errors derive from RabbitMQToolException".   *)
ErrorsAreToolErrors ==
    out.op \in Ops \ {"check_health"} => out.res \in ToolErrors \cup Values

(* The contract of HealthStatus: DEGRADED means "Connected but a probe      *)
(* operation returned unexpected results".                                  *)
DegradedIsConnected ==
    pc = "idle" /\ out.res = "DEGRADED" => connection \in connOpen
=============================================================================
