------------------------------ MODULE AsyncClient -----------------------------
(***************************************************************************)
(* The asyncio AsyncRabbitMQClient (utilities/async_rabbitmq.py) shared by  *)
(* several tasks.  A task runs undisturbed from one await to the next; every*)
(* await of the code that can suspend is a value of pc, and what the task   *)
(* holds in local variables across it is in at[t].                          *)
(*                                                                         *)
(* aio-pika's objects are robust: a connection whose link is lost connects  *)
(* again in the background, and a channel that was lost with it, or that    *)
(* the broker closed, is reopened as the same object.  Its deliveries go    *)
(* back to the queue and its tags start again from 1; gen counts these      *)
(* incarnations.  A connection is is_closed only after close() was called   *)
(* on it, not while its link is down.  aio-pika notices a loss some time    *)
(* after it: until then the channel is not is_closed, a call on it waits,   *)
(* and an acknowledgement, which is only written, goes nowhere.             *)
(***************************************************************************)
EXTENDS Naturals

CONSTANTS
    Tasks,      \* the tasks that share the client
    Ops,        \* the operations they use
    Multiples,  \* the values of multiple that callers pass
    Cancels,    \* whether tasks are cancelled
    Losses,     \* whether links are lost and calls refused
    MaxConn, MaxChan, MaxGen, MaxTags   \* bounds on what is created

OneCall == {"declare_queue", "get_queue_info", "delete_queue",
            "declare_exchange", "delete_exchange", "publish_message",
            "consume_message"}
TwoCalls == {"purge_queue", "bind_queue", "unbind_queue", "bind_exchange",
             "publish_to_exchange", "check_health"}
Settles == {"ack_message", "nack_message", "reject_message"}
AllOps == OneCall \cup TwoCalls \cup Settles
          \cup {"connect", "close", "get_connection_info"}

ASSUME ConstantsAssumption ==
    /\ Ops \subseteq AllOps /\ Multiples \subseteq BOOLEAN
    /\ Cancels \in BOOLEAN /\ Losses \in BOOLEAN
    /\ MaxConn \in Nat /\ MaxChan \in Nat /\ MaxTags \in Nat
    /\ MaxGen \in Nat \ {0}

None == 0
Conns == 1..MaxConn
Chans == 1..MaxChan
Messages == [ch : Chans, gen : 1..MaxGen, tag : 1..MaxTags]

Results == {"returned", "connected", "not connected", "OK", "DOWN", "DEGRADED",
            "AssertionError", "AMQPError", "OSError", "CancelledError",
            "RabbitMQValidationError", "RabbitMQConnectionError",
            "RabbitMQChannelError", "RabbitMQMessageError"}

VARIABLES
    conn, chan,     \* self._connection, self._channel
    pending,        \* self._pending_messages: the stored messages, one a tag
    nconn, copen,   \* connections made so far; those not is_closed
    away, dead,     \* of these, those whose link is down; is and that is not
                    \* noticed yet
    lingering,      \* connections that the broker has still, though close()
                    \* was called on them
    nchan, chConn,  \* channels made so far; their connections
    chOpen, chDone, \* channels in use by both sides; closed for good
    deaf,           \* channels lost or closed by the broker, unnoticed yet
    gen, given,     \* per channel: incarnation, and tags given out in it
    unacked,        \* broker: outstanding deliveries
    pc, at,         \* per task: the await it is at and its local variables
    out,            \* how the operation that ended last ended
    receipts,       \* deliveries whose tags callers hold
    stranded,       \* deliveries whose task was cancelled before it could
                    \* store or settle them
    forgotten,      \* connections that were overwritten while open, or whose
                    \* close() was cancelled
    twice, wrong    \* an acknowledgement was sent for a delivery that was no
                    \* longer outstanding; for another one than was meant

client == <<conn, chan, pending>>
pika == <<nconn, copen, away, dead, lingering, nchan, chConn, chOpen, chDone,
          deaf, gen, given>>
ghost == <<stranded, forgotten, twice, wrong>>
vars == <<client, pika, unacked, pc, at, out, receipts, ghost>>

NoMessage == [ch |-> None, gen |-> 0, tag |-> 0]
NoLocals == [op |-> "none", k |-> None, ch |-> None, left |-> 0,
             msg |-> NoMessage, mult |-> FALSE, ends |-> {}]

Init ==
    /\ conn = None /\ chan = None /\ pending = {}
    /\ nconn = 0 /\ copen = {} /\ away = {} /\ dead = {} /\ lingering = {}
    /\ nchan = 0 /\ chConn = [c \in Chans |-> None]
    /\ chOpen = {} /\ chDone = {} /\ deaf = {}
    /\ gen = [c \in Chans |-> 0] /\ given = [c \in Chans |-> 0]
    /\ unacked = {}
    /\ pc = [t \in Tasks |-> "idle"] /\ at = [t \in Tasks |-> NoLocals]
    /\ out = [op |-> "none", res |-> "returned"]
    /\ receipts = {} /\ stranded = {} /\ forgotten = {}
    /\ twice = FALSE /\ wrong = FALSE

On(c) == {m \in unacked : m.ch = c}

Goto(t, label, locals) ==
    /\ pc' = [pc EXCEPT ![t] = label]
    /\ at' = [at EXCEPT ![t] = locals]
    /\ out' = out

Return(t, op, res) ==
    /\ pc' = [pc EXCEPT ![t] = "idle"]
    /\ at' = [at EXCEPT ![t] = NoLocals]
    /\ out' = [op |-> op, res |-> res]

(* What a task raises when an exception leaves _require_channel: inside the *)
(* try block of check_health, outside that of every other operation.        *)
RequireRaises(t, op, exc) ==
    Return(t, op, IF op # "check_health" THEN exc
                  ELSE IF exc = "RabbitMQConnectionError" THEN "DOWN"
                  ELSE "DEGRADED")

-----------------------------------------------------------------------------
(* _require_channel and _connect_once *)

(* Mutant: a connection whose link is known to be down makes the client     *)
(* connect again.                                                           *)
NeedsConnectionOrLink ==
    conn = None \/ conn \notin copen \/ conn \in away \ dead

NeedsConnection == conn = None \/ conn \notin copen
NeedsChannel == chan = None \/ chan \notin chOpen \cup deaf

(* A call is answered while its channel is in use, and if it was sent before*)
(* another task called close(), until that call of close() is answered.     *)
Answers(c) ==
    c \in chOpen \/ (chConn[c] \notin away /\ \E t \in Tasks : c \in at[t].ends)

Calls(op) == IF op \in TwoCalls THEN 2 ELSE 1

(* The second half of _require_channel, up to the next await of the         *)
(* operation.                                                               *)
RequireChannel(t, locals) ==
    IF ~NeedsChannel THEN Goto(t, "calling", [locals EXCEPT !.ch = chan])
    ELSE IF conn = None THEN RequireRaises(t, locals.op, "AssertionError")
    ELSE Goto(t, "opening", [locals EXCEPT !.k = conn])

(* Up to the first await of an operation whose arguments are valid.         *)
Start(t, op) ==
    LET locals == [NoLocals EXCEPT !.op = op, !.left = Calls(op)] IN
    /\ IF NeedsConnection THEN Goto(t, "connecting", locals)
       ELSE RequireChannel(t, locals)
    /\ UNCHANGED <<client, pika, unacked, receipts, ghost>>

InvalidName(t, op) ==
    /\ op # "check_health"
    /\ Return(t, op, "RabbitMQValidationError")
    /\ UNCHANGED <<client, pika, unacked, receipts, ghost>>

(* _connect_once builds the TLS context before its try block: a certificate *)
(* that cannot be read raises as it is.                                     *)
ContextFails(t, op) ==
    /\ NeedsConnection \/ op = "connect"
    /\ RequireRaises(t, op, "OSError")
    /\ UNCHANGED <<client, pika, unacked, receipts, ghost>>

Operation(t, op) ==
    /\ pc[t] = "idle" /\ op \in Ops
    /\ Start(t, op) \/ InvalidName(t, op) \/ ContextFails(t, op)

DeclareQueue(t) == Operation(t, "declare_queue")
GetQueueInfo(t) == Operation(t, "get_queue_info")
DeleteQueue(t) == Operation(t, "delete_queue")
PurgeQueue(t) == Operation(t, "purge_queue")
BindQueue(t) == Operation(t, "bind_queue")
UnbindQueue(t) == Operation(t, "unbind_queue")
DeclareExchange(t) == Operation(t, "declare_exchange")
DeleteExchange(t) == Operation(t, "delete_exchange")
BindExchange(t) == Operation(t, "bind_exchange")
PublishDefault(t) == Operation(t, "publish_message")
PublishToExchange(t) == Operation(t, "publish_to_exchange")
ConsumeMessage(t) == Operation(t, "consume_message")
CheckHealth(t) == Operation(t, "check_health")

GetConnectionInfo(t) ==
    /\ pc[t] = "idle" /\ "get_connection_info" \in Ops
    /\ Return(t, "get_connection_info",
              IF NeedsConnection THEN "not connected" ELSE "connected")
    /\ UNCHANGED <<client, pika, unacked, receipts, ghost>>

(* connect() does not look whether a connection is open already.            *)
Connect(t) ==
    /\ pc[t] = "idle" /\ "connect" \in Ops
    /\ \/ /\ Goto(t, "connecting", [NoLocals EXCEPT !.op = "connect"])
          /\ UNCHANGED <<client, pika, unacked, receipts, ghost>>
       \/ ContextFails(t, "connect")

(* connect_robust returns.                                                  *)
Connected(t) ==
    LET k == nconn + 1 IN
    /\ pc[t] = "connecting" /\ k \in Conns
    /\ nconn' = k /\ copen' = copen \cup {k} /\ conn' = k
    /\ forgotten' = forgotten \cup ({conn} \cap copen)
    /\ Goto(t, "channel", [at[t] EXCEPT !.k = k])
    /\ UNCHANGED <<chan, pending, away, dead, lingering, nchan, chConn, chOpen,
                   chDone, deaf, gen, given, unacked, receipts, stranded,
                   twice, wrong>>

(* connection.channel() returns a new channel of connection k, for which it *)
(* needs the link; it is assigned to _channel.                              *)
NewChannel(k) ==
    LET c == nchan + 1 IN
    /\ k \in copen \ away /\ c \in Chans
    /\ nchan' = c /\ chan' = c
    /\ chConn' = [chConn EXCEPT ![c] = k]
    /\ chOpen' = chOpen \cup {c}
    /\ gen' = [gen EXCEPT ![c] = 1]
    /\ UNCHANGED <<conn, pending, nconn, copen, away, dead, lingering, chDone,
                   deaf, given, unacked, receipts, ghost>>

GotFirstChannel(t) ==
    /\ pc[t] = "channel"
    /\ NewChannel(at[t].k)
    /\ Goto(t, "qos", [at[t] EXCEPT !.ch = chan'])

(* After set_qos _require_channel reads both references again: another task *)
(* may have forgotten or reset them.                                         *)
QosSet(t) ==
    /\ pc[t] = "qos" /\ Answers(at[t].ch)
    /\ IF at[t].op = "connect" THEN Return(t, "connect", "returned")
       ELSE RequireChannel(t, at[t])
    /\ UNCHANGED <<client, pika, unacked, receipts, ghost>>

(* Any failure in _connect_once; what was assigned before stays assigned.   *)
ConnectOnceFails(t) ==
    /\ pc[t] \in {"connecting", "channel", "qos"}
    /\ RequireRaises(t, at[t].op, "RabbitMQConnectionError")
    /\ UNCHANGED <<client, pika, unacked, receipts, ghost>>

GotChannel(t) ==
    /\ pc[t] = "opening"
    /\ NewChannel(at[t].k)
    /\ Goto(t, "calling", [at[t] EXCEPT !.ch = chan'])

(* connection.channel() in _require_channel itself is in no try block.      *)
OpenFails(t) ==
    /\ pc[t] = "opening"
    /\ RequireRaises(t, at[t].op, "AMQPError")
    /\ UNCHANGED <<client, pika, unacked, receipts, ghost>>

-----------------------------------------------------------------------------
(* The broker calls of an operation *)

FirstCallServed(t) ==
    /\ pc[t] = "calling" /\ at[t].left = 2 /\ at[t].ch \in chOpen
    /\ Goto(t, "calling", [at[t] EXCEPT !.left = 1])
    /\ UNCHANGED <<client, pika, unacked, receipts, ghost>>

Served(t) ==
    /\ pc[t] = "calling" /\ at[t].left = 1 /\ Answers(at[t].ch)
    /\ at[t].op # "consume_message"
    /\ Return(t, at[t].op, IF at[t].op = "check_health" THEN "OK"
                           ELSE "returned")
    /\ UNCHANGED <<client, pika, unacked, receipts, ghost>>

NextDelivery(c) == [ch |-> c, gen |-> gen[c], tag |-> given[c] + 1]

(* Mutants: a stored message is kept beside, or instead of, the new one.    *)
StoreBeside(m) == pending \cup {m}
StoreDefault(m) ==
    IF \E p \in pending : p.tag = m.tag THEN pending ELSE pending \cup {m}

(* A message that is not auto-acknowledged is stored under its tag as soon  *)
(* as the task runs again; a message stored under the same tag is forgotten. *)
Store(m) == {p \in pending : p.tag # m.tag} \cup {m}

MessageGot(t) ==
    LET c == at[t].ch
        m == NextDelivery(c) IN
    /\ pc[t] = "calling" /\ at[t].op = "consume_message" /\ Answers(c)
    /\ Return(t, "consume_message", "returned")
    /\ \/ UNCHANGED <<given, unacked, pending, receipts>>    \* queue empty
       \/ /\ m \in Messages
          /\ given' = [given EXCEPT ![c] = m.tag]
          /\ \/ UNCHANGED <<unacked, pending, receipts>>     \* auto_ack
             \/ /\ unacked' = IF c \in chOpen THEN unacked \cup {m}
                              ELSE unacked
                /\ pending' = Store(m)
                /\ receipts' = receipts \cup {m}
    /\ UNCHANGED <<conn, chan, nconn, copen, away, dead, lingering, nchan,
                   chConn, chOpen, chDone, deaf, gen, ghost>>

(* declare_queue and get_queue_info translate two refusals and let other    *)
(* errors through; the others translate everything.                         *)
Translate(op) ==
    IF op = "check_health" THEN {"DEGRADED"}
    ELSE IF op \in {"publish_message", "publish_to_exchange"}
         THEN {"RabbitMQMessageError"}
    ELSE IF op \in {"declare_queue", "get_queue_info"}
         THEN {"RabbitMQChannelError", "AMQPError"}
    ELSE {"RabbitMQChannelError"}

(* A call fails: the channel was lost or closed and that is known; or the   *)
(* broker refuses and closes it; or a message is returned or not confirmed, *)
(* or cannot be built from what the caller passed, as the exchange's type or*)
(* a queue's arguments cannot, and the channel stays as it is.              *)
CallFails(t) ==
    LET c == at[t].ch IN
    /\ pc[t] = "calling"
    /\ \E res \in Translate(at[t].op) : Return(t, at[t].op, res)
    /\ \/ c \notin chOpen \cup deaf /\ UNCHANGED <<chOpen, unacked>>
       \/ /\ Losses /\ c \in chOpen
          /\ chOpen' = chOpen \ {c} /\ unacked' = unacked \ On(c)
       \/ /\ at[t].op \in {"publish_message", "publish_to_exchange",
                           "declare_queue", "declare_exchange",
                           "bind_queue", "bind_exchange"}
          /\ UNCHANGED <<chOpen, unacked>>
    /\ UNCHANGED <<client, nconn, copen, away, dead, lingering, nchan, chConn,
                   chDone, deaf, gen, given, receipts, ghost>>

-----------------------------------------------------------------------------
(* ack_message, nack_message and reject_message *)

(* Mutant: the stored message is read before the await, not taken out.      *)
TakePendingByGet(t, op, tag, mult) ==
    /\ pc[t] = "idle" /\ op \in Ops
    /\ \E m \in pending, r \in receipts :
          /\ m.tag = tag /\ r.tag = tag
          /\ Goto(t, "settling",
                  [NoLocals EXCEPT !.op = op, !.msg = m, !.mult = mult])
          /\ wrong' = (wrong \/ m # r)
    /\ UNCHANGED <<client, pika, unacked, receipts, stranded, forgotten, twice>>

(* The caller settles a delivery by its tag: it may hold several with that  *)
(* tag and mean any of them.  The stored message is taken out of the        *)
(* dictionary before the await.                                             *)
TakePending(t, op, tag, mult) ==
    LET found == {p \in pending : p.tag = tag} IN
    /\ pc[t] = "idle" /\ op \in Ops
    /\ pending' = pending \ found
    /\ IF found = {} THEN /\ Return(t, op, "RabbitMQMessageError")
                          /\ wrong' = wrong
       ELSE \E m \in found, r \in receipts :
            /\ r.tag = tag
            /\ Goto(t, "settling",
                    [NoLocals EXCEPT !.op = op, !.msg = m, !.mult = mult])
            /\ wrong' = (wrong \/ m # r)
    /\ UNCHANGED <<conn, chan, pika, unacked, receipts, stranded, forgotten,
                   twice>>

AckMessage(t, tag) ==
    \E mult \in Multiples : TakePending(t, "ack_message", tag, mult)
NackMessage(t, tag) ==
    \E mult \in Multiples : TakePending(t, "nack_message", tag, mult)
RejectMessage(t, tag) == TakePending(t, "reject_message", tag, FALSE)

(* The message object writes to the incarnation of the channel it came from,*)
(* unless that is known to be lost.                                         *)
Usable(m) == m.ch \in chOpen \cup deaf /\ gen[m.ch] = m.gen

(* An acknowledgement is only written: over a channel whose loss is not     *)
(* noticed yet it returns and goes nowhere.  A tag that is not outstanding  *)
(* any more makes the broker close the channel, which the client notices    *)
(* later.                                                                   *)
SettleSent(t) ==
    LET m == at[t].msg
        hit == {u \in On(m.ch) : u.tag = m.tag
                                 \/ (at[t].mult /\ u.tag < m.tag)} IN
    /\ pc[t] = "settling" /\ Usable(m)
    /\ Return(t, at[t].op, "returned")
    /\ \/ m.ch \in deaf /\ UNCHANGED <<unacked, chOpen, deaf, twice>>
       \/ /\ m.ch \in chOpen /\ m \in unacked
          /\ unacked' = unacked \ hit /\ UNCHANGED <<chOpen, deaf, twice>>
       \/ /\ m.ch \in chOpen /\ m \notin unacked
          /\ unacked' = unacked \ On(m.ch) /\ twice' = TRUE
          /\ chOpen' = chOpen \ {m.ch} /\ deaf' = deaf \cup {m.ch}
    /\ receipts' = receipts \ {m}
    /\ UNCHANGED <<client, nconn, copen, away, dead, lingering, nchan, chConn,
                   chDone, gen, given, stranded, forgotten, wrong>>

SettleFails(t) ==
    /\ pc[t] = "settling" /\ ~Usable(at[t].msg)
    /\ Return(t, at[t].op, "RabbitMQMessageError")
    /\ receipts' = receipts \ {at[t].msg}
    /\ UNCHANGED <<client, pika, unacked, ghost>>

-----------------------------------------------------------------------------
(* close() *)

(* is_closed is true as soon as close() is called on a channel or on a      *)
(* connection, whose channels go with it.  The deliveries on them go back   *)
(* with the request to close; the broker has the connection until it is     *)
(* answered, if its link is up.                                             *)
ChannelsEnd(C) ==
    /\ chOpen' = chOpen \ C /\ chDone' = chDone \cup C /\ deaf' = deaf \ C
    /\ unacked' = {m \in unacked : m.ch \notin C}

ConnectionEnds(k) ==
    /\ copen' = copen \ {k} /\ away' = away \ {k} /\ dead' = dead \ {k}
    /\ lingering' = IF k \in away THEN lingering ELSE lingering \cup {k}
    /\ ChannelsEnd({c \in Chans : chConn[c] = k})

Closing(k, C) == [NoLocals EXCEPT !.op = "close", !.k = k,
                                  !.ends = C \cap chOpen]

(* From closing the channel on, _connection is read, and if need be closed, *)
(* before the next await.                                                   *)
CloseConnection(t) ==
    IF NeedsConnection
    THEN /\ conn' = None /\ Return(t, "close", "returned")
         /\ UNCHANGED <<copen, away, dead, lingering, chOpen, chDone, deaf,
                        unacked>>
    ELSE /\ conn' = conn /\ ConnectionEnds(conn)
         /\ Goto(t, "closing connection", Closing(conn, chOpen \ chOpen'))

(* Mutant: the stored messages are kept.                                    *)
CloseKeepsPending(t) ==
    /\ pc[t] = "idle" /\ "close" \in Ops
    /\ pending' = pending
    /\ IF NeedsChannel
       THEN chan' = None /\ CloseConnection(t)
       ELSE /\ ChannelsEnd({chan})
            /\ Goto(t, "closing channel", Closing(None, {chan}))
            /\ UNCHANGED <<conn, chan, copen, away, dead, lingering>>
    /\ UNCHANGED <<nconn, nchan, chConn, gen, given, receipts, ghost>>

Close(t) ==
    /\ pc[t] = "idle" /\ "close" \in Ops
    /\ pending' = {}
    /\ IF NeedsChannel
       THEN chan' = None /\ CloseConnection(t)
       ELSE /\ ChannelsEnd({chan})
            /\ Goto(t, "closing channel", Closing(None, {chan}))
            /\ UNCHANGED <<conn, chan, copen, away, dead, lingering>>
    /\ UNCHANGED <<nconn, nchan, chConn, gen, given, receipts, ghost>>

ChannelClosed(t) ==
    /\ pc[t] = "closing channel"
    /\ chan' = None
    /\ CloseConnection(t)
    /\ UNCHANGED <<pending, nconn, nchan, chConn, gen, given, receipts, ghost>>

ConnectionClosed(t) ==
    /\ pc[t] = "closing connection"
    /\ conn' = None /\ lingering' = lingering \ {at[t].k}
    /\ Return(t, "close", "returned")
    /\ UNCHANGED <<chan, pending, nconn, copen, away, dead, nchan, chConn,
                   chOpen, chDone, deaf, gen, given, unacked, receipts, ghost>>

-----------------------------------------------------------------------------
(* Cancellation.  No except clause of the code catches CancelledError; the  *)
(* finally clauses of close() run, the rest of it does not.                 *)

Cancelled(t) ==
    /\ Cancels /\ pc[t] # "idle"
    /\ Return(t, at[t].op, "CancelledError")
    /\ chan' = IF pc[t] = "closing channel" THEN None ELSE chan
    /\ conn' = IF pc[t] = "closing connection" THEN None ELSE conn
    /\ forgotten' = IF pc[t] = "closing connection"
                    THEN forgotten \cup {at[t].k} ELSE forgotten
    /\ \/ /\ pc[t] = "calling" /\ at[t].op = "consume_message"
          /\ at[t].ch \in chOpen
          /\ NextDelivery(at[t].ch) \in Messages
          /\ given' = [given EXCEPT ![at[t].ch] = @ + 1]
          /\ unacked' = unacked \cup {NextDelivery(at[t].ch)}
          /\ stranded' = stranded \cup {NextDelivery(at[t].ch)}
       \/ /\ UNCHANGED <<given, unacked>>
          /\ stranded' = IF pc[t] = "settling" THEN stranded \cup {at[t].msg}
                         ELSE stranded
    /\ UNCHANGED <<pending, nconn, copen, away, dead, lingering, nchan, chConn,
                   chOpen, chDone, deaf, gen, receipts, twice, wrong>>

-----------------------------------------------------------------------------
(* The broker and aio-pika's background reconnection *)

OnLink(k) == {c \in chOpen : chConn[c] = k}

(* A link goes down with all channels on it; their deliveries go back.      *)
LinkLost(k) ==
    /\ Losses /\ k \in copen \ away
    /\ away' = away \cup {k} /\ dead' = dead \cup {k}
    /\ chOpen' = chOpen \ OnLink(k) /\ deaf' = deaf \cup OnLink(k)
    /\ unacked' = {m \in unacked : chConn[m.ch] # k}
    /\ UNCHANGED <<client, nconn, copen, lingering, nchan, chConn, chDone, gen,
                   given, pc, at, out, receipts, ghost>>

(* A read or write fails, or no heartbeat came for too long.                *)
LinkNoticed(k) ==
    /\ k \in dead /\ dead' = dead \ {k}
    /\ deaf' = {c \in deaf : chConn[c] # k}
    /\ UNCHANGED <<client, nconn, copen, away, lingering, nchan, chConn, chOpen,
                   chDone, gen, given, unacked, pc, at, out, receipts, ghost>>

(* The broker closes a channel on its own: it refuses a request whose task  *)
(* has been cancelled, or a delivery waits too long for its ack.            *)
ChannelLost(c) ==
    /\ Losses /\ c \in chOpen
    /\ chOpen' = chOpen \ {c} /\ deaf' = deaf \cup {c}
    /\ unacked' = unacked \ On(c)
    /\ UNCHANGED <<client, nconn, copen, away, dead, lingering, nchan, chConn,
                   chDone, gen, given, pc, at, out, receipts, ghost>>

(* aio-pika reads that the broker has closed a channel.                     *)
ChannelNoticed(c) ==
    /\ c \in deaf /\ chConn[c] \notin dead /\ deaf' = deaf \ {c}
    /\ UNCHANGED <<client, nconn, copen, away, dead, lingering, nchan, chConn,
                   chOpen, chDone, gen, given, unacked, pc, at, out, receipts,
                   ghost>>

LinkRestored(k) ==
    /\ k \in away \ dead /\ away' = away \ {k}
    /\ UNCHANGED <<client, nconn, copen, dead, lingering, nchan, chConn, chOpen,
                   chDone, deaf, gen, given, unacked, pc, at, out, receipts,
                   ghost>>

(* A call that the loss interrupted has raised by the time of the reopening.*)
ChannelRestored(c) ==
    /\ \A t \in Tasks : pc[t] \in {"qos", "calling"} => at[t].ch # c
    /\ c \in 1..nchan /\ c \notin chOpen \cup chDone \cup deaf
    /\ chConn[c] \in copen \ away /\ gen[c] < MaxGen
    /\ chOpen' = chOpen \cup {c}
    /\ gen' = [gen EXCEPT ![c] = @ + 1]
    /\ given' = [given EXCEPT ![c] = 0]
    /\ UNCHANGED <<client, nconn, copen, away, dead, lingering, nchan, chConn,
                   chDone, deaf, unacked, pc, at, out, receipts, ghost>>

(* The broker reads that a connection is to be closed, or loses its link.   *)
Dropped(k) ==
    /\ k \in lingering /\ lingering' = lingering \ {k}
    /\ UNCHANGED <<client, nconn, copen, away, dead, nchan, chConn, chOpen,
                   chDone, deaf, gen, given, unacked, pc, at, out, receipts,
                   ghost>>

-----------------------------------------------------------------------------
Begin(t) ==
    \/ Connect(t) \/ Close(t) \/ GetConnectionInfo(t)
    \/ DeclareQueue(t) \/ GetQueueInfo(t) \/ DeleteQueue(t) \/ PurgeQueue(t)
    \/ BindQueue(t) \/ UnbindQueue(t)
    \/ DeclareExchange(t) \/ DeleteExchange(t) \/ BindExchange(t)
    \/ PublishDefault(t) \/ PublishToExchange(t) \/ ConsumeMessage(t)
    \/ CheckHealth(t)
    \/ \E tag \in 1..MaxTags :
          AckMessage(t, tag) \/ NackMessage(t, tag) \/ RejectMessage(t, tag)

Resume(t) ==
    \/ Connected(t) \/ GotFirstChannel(t) \/ QosSet(t) \/ ConnectOnceFails(t)
    \/ GotChannel(t) \/ OpenFails(t)
    \/ FirstCallServed(t) \/ Served(t) \/ MessageGot(t) \/ CallFails(t)
    \/ SettleSent(t) \/ SettleFails(t)
    \/ ChannelClosed(t) \/ ConnectionClosed(t)

Next ==
    \/ \E t \in Tasks : Begin(t) \/ Resume(t) \/ Cancelled(t)
    \/ \E k \in Conns :
          LinkLost(k) \/ LinkNoticed(k) \/ LinkRestored(k) \/ Dropped(k)
    \/ \E c \in Chans :
          ChannelLost(c) \/ ChannelNoticed(c) \/ ChannelRestored(c)

Spec == Init /\ [][Next]_vars

-----------------------------------------------------------------------------
(* Properties *)

(* The variables have their types; a tag has at most one stored message.    *)
TypeOK ==
    /\ conn \in 0..nconn /\ chan \in 0..nchan
    /\ nconn \in 0..MaxConn /\ nchan \in 0..MaxChan
    /\ dead \subseteq away /\ away \subseteq copen
    /\ copen \cup lingering \subseteq 1..nconn /\ copen \cap lingering = {}
    /\ chOpen \cup chDone \cup deaf \subseteq 1..nchan
    /\ chOpen \cap deaf = {} /\ chDone \cap (chOpen \cup deaf) = {}
    /\ chConn \in [Chans -> 0..MaxConn]
    /\ gen \in [Chans -> 0..MaxGen] /\ given \in [Chans -> 0..MaxTags]
    /\ pending \subseteq Messages /\ unacked \subseteq Messages
    /\ \A m, n \in pending : m.tag = n.tag => m = n
    /\ receipts \subseteq Messages /\ stranded \subseteq Messages
    /\ forgotten \subseteq 0..MaxConn
    /\ out \in [op : AllOps \cup {"none"}, res : Results]
    /\ twice \in BOOLEAN /\ wrong \in BOOLEAN

(* However many tasks settle the same delivery at once, one acknowledgement *)
(* is sent for it: it is taken out of _pending_messages before the await.   *)
(* A second one would make the broker close the channel under all others.   *)
SettledOnce == ~twice

Idle == \A t \in Tasks : pc[t] = "idle"

(* Every delivery that the broker waits for can still be settled: its       *)
(* message is stored, or a task is settling it, unless a cancellation came  *)
(* between its arrival and its storing or settling, or its connection was   *)
(* overwritten.                                                             *)
UnackedReachable ==
    \A m \in unacked \ stranded :
       \/ m \in pending \/ chConn[m.ch] \in forgotten
       \/ \E t \in Tasks : pc[t] = "settling" /\ at[t].msg = m

(* When a client holds no connection, the broker has none of it, but those  *)
(* that were overwritten or whose close() was cancelled, and no delivery    *)
(* outstanding but on such a one; and the client remembers no message.      *)
ClosedIsClean ==
    Idle /\ conn = None =>
        /\ pending = {} /\ copen \cup lingering \subseteq forgotten
        /\ \A m \in unacked : chConn[m.ch] \in forgotten

(* Only connect(), which does not look whether a connection is open already,*)
(* opens a connection beside one that is open.  In particular the client    *)
(* never competes with aio-pika: while a link is down and aio-pika connects *)
(* again in the background, no operation makes a connection of its own.     *)
OnlyConnectDialsTwice ==
    [][nconn' # nconn /\ ~(copen \subseteq forgotten)
       => \E t \in Tasks : at[t].op = "connect"]_vars

(* "assert self._connection is not None": when _require_channel comes to it,*)
(* after the awaits of _connect_once, there is a connection.                *)
AssertionHolds == out.res # "AssertionError"

(* "maintains a single persistent connection per settings instance"         *)
(* (docs/cookbooks/02_async_agent.md): a client has one connection open.    *)
SingleConnection == \A j, k \in copen : j = k

(* "Close the channel and connection.": when a close() has returned, and no *)
(* operation is under way or has left a connection since, none is open.     *)
CloseForgetsClosed ==
    Idle /\ conn = None /\ out = [op |-> "close", res |-> "returned"]
    => copen = {}

(* "Store the raw IncomingMessage so callers can ack/nack/reject it": what  *)
(* is settled is the delivery the caller was given the tag of.              *)
SettlesWhatWasMeant == ~wrong
=============================================================================
