---------------------------- MODULE SyncMessaging -----------------------------
(***************************************************************************)
(* Messages and delivery tags under the blocking client: one queue of the   *)
(* broker, a caller that publishes, pulls and settles messages through a    *)
(* RabbitMQClient, and everything SyncClient lets happen to connections and *)
(* channels in between.  Every step is a step of SyncClient together with   *)
(* what it does to the queue and to what the caller holds.                  *)
(*                                                                         *)
(* Messages are numbered by publish call.  The broker requeues a message at *)
(* its old position, so the queue is a set served in order of number.  The  *)
(* queue is durable and messages persistent: a broker restart keeps them.   *)
(***************************************************************************)
EXTENDS SyncClient, Sequences

CONSTANTS
    MaxMsgs,    \* bound: publish calls
    MaxTags     \* bound: deliveries on one channel

ASSUME MessagesAssumption == MaxMsgs \in Nat /\ MaxTags \in Nat

Msgs == 1..MaxMsgs
Tags == 1..MaxTags

VARIABLES
    exists,     \* broker: the queue has been declared
    ready,      \* broker: messages waiting in the queue
    delivered,  \* broker: per channel, the message of each delivery tag
    unacked,    \* broker: per channel, the outstanding delivery tags
    gone,       \* broker: messages removed for good
    published,  \* publish calls so far
    promised,   \* messages whose mandatory publish returned
    receipts,   \* MessageResults the caller has not settled, each with the
                \* channel it came from, which the result does not show
    asked,      \* messages the caller asked the broker to drop
    stray       \* channels with a receipt whose settle went out on another
                \* channel

broker == <<exists, ready, delivered, unacked, gone>>
caller == <<published, promised, receipts, asked, stray>>
mvars == <<vars, broker, caller>>

MInit ==
    /\ Init
    /\ exists \in BOOLEAN /\ ready = {} /\ gone = {}
    /\ delivered = [k \in Conns |-> <<>>] /\ unacked = [k \in Conns |-> {}]
    /\ published = 0 /\ promised = {} /\ receipts = {} /\ asked = {}
    /\ stray = {}

-----------------------------------------------------------------------------
(* The broker's queue *)

Bodies(k, tags) == {delivered[k][t] : t \in tags}
Held == UNION {Bodies(k, unacked[k]) : k \in Conns}

(* The queue after a step that leaves r ready, g removed and u outstanding: *)
(* channels that the step closes give back what is outstanding on them.     *)
QueueBecomes(r, g, u) ==
    LET back == UNION {Bodies(k, u[k]) : k \in Conns \ bchan'} IN
    /\ gone' = g
    /\ unacked' = [k \in Conns |-> IF k \in bchan' THEN u[k] ELSE {}]
    /\ ready' = r \cup (back \ g)

QueueSame == QueueBecomes(ready, gone, unacked) /\ UNCHANGED <<exists, delivered>>

(* delete_queue discards what is ready and what is outstanding.             *)
QueueDeleted ==
    /\ exists' = FALSE
    /\ QueueBecomes({}, gone \cup ready \cup Held, unacked)
    /\ asked' = asked \cup ready \cup Held
    /\ UNCHANGED <<delivered, published, promised, receipts, stray>>

QueuePurged ==
    /\ exists /\ QueueBecomes({}, gone \cup ready, unacked)
    /\ asked' = asked \cup ready
    /\ UNCHANGED <<exists, delivered, published, promised, receipts, stray>>

QueueDeclared ==
    /\ exists' = TRUE /\ QueueBecomes(ready, gone, unacked)
    /\ UNCHANGED <<delivered, caller>>

QueueInspected == exists /\ QueueSame /\ UNCHANGED caller

-----------------------------------------------------------------------------
(* Queue operations.  When the connection is lost during the call the       *)
(* broker may have done what it was asked, but no caller learns of it.      *)

QueueCall(op, Effect) ==
    \/ Served(op) /\ Effect
    \/ Uncaught(op) /\ cur.chan \in bchan /\ Effect
    \/ (Refused(op) \/ Uncaught(op)) /\ QueueSame /\ UNCHANGED caller

MDeclareQueue == QueueCall("declare_queue", QueueDeclared)
MGetQueueInfo == QueueCall("get_queue_info", QueueInspected)
MDeleteQueue == QueueCall("delete_queue", QueueDeleted)
MPurgeQueue == QueueCall("purge_queue", QueuePurged)

-----------------------------------------------------------------------------
(* publish_message, to the queue through the default exchange *)

Routed(n) == QueueBecomes(ready \cup {n}, gone, unacked)
NotRouted == QueueBecomes(ready, gone, unacked)

(* Mutant: the mandatory flag is not passed on.                             *)
PublishNotMandatory ==
    LET n == published + 1 IN
    /\ n \in Msgs /\ published' = n
    /\ \E mandatory \in BOOLEAN :
          \/ /\ PublishReturns
             /\ IF cur.chan \in bchan /\ exists THEN Routed(n) ELSE NotRouted
             /\ promised' = IF mandatory THEN promised \cup {n} ELSE promised
          \/ PublishRejected /\ exists /\ NotRouted /\ promised' = promised
          \/ PublishRaises /\ NotRouted /\ promised' = promised
    /\ UNCHANGED <<exists, delivered, receipts, asked, stray>>

MPublishMessage ==
    LET n == published + 1 IN
    /\ n \in Msgs /\ published' = n
    /\ \E mandatory \in BOOLEAN :
          \/ /\ PublishReturns
             /\ IF cur.chan \in bchan /\ exists THEN Routed(n) ELSE NotRouted
             /\ cur.chan \in bchan /\ mandatory => exists
             /\ promised' = IF mandatory THEN promised \cup {n} ELSE promised
          \/ /\ PublishRejected    \* unroutable, or nack'd by the queue
             /\ mandatory \/ exists
             /\ NotRouted /\ promised' = promised
          \/ /\ PublishRaises
             /\ NotRouted \/ (exists /\ cur.chan \in bchan \ bchan' /\ Routed(n)
                              /\ out'.res = "AMQPConnectionError")
             /\ promised' = promised
    /\ UNCHANGED <<exists, delivered, receipts, asked, stray>>

-----------------------------------------------------------------------------
(* consume_message *)

Oldest == CHOOSE m \in ready : \A n \in ready : m <= n

(* Mutant: the result carries the position of the tag, counted from zero.   *)
DeliveredFromZero(auto_ack) ==
    LET k == cur.chan
        tag == Len(delivered[k]) + 1 IN
    /\ exists /\ ready # {} /\ tag \in Tags
    /\ delivered' = [delivered EXCEPT ![k] = Append(@, Oldest)]
    /\ IF auto_ack
       THEN /\ QueueBecomes(ready \ {Oldest}, gone \cup {Oldest}, unacked)
            /\ asked' = asked \cup {Oldest}
            /\ UNCHANGED receipts
       ELSE /\ QueueBecomes(ready \ {Oldest}, gone,
                            [unacked EXCEPT ![k] = @ \cup {tag}])
            /\ receipts' = receipts \cup {[chan |-> k, tag |-> tag - 1]}
            /\ UNCHANGED asked
    /\ UNCHANGED <<exists, published, promised, stray>>

(* basic.get hands out the oldest ready message under the next tag of the   *)
(* channel; with auto_ack the broker forgets it at once.                    *)
Delivered(auto_ack) ==
    LET k == cur.chan
        tag == Len(delivered[k]) + 1 IN
    /\ exists /\ ready # {} /\ tag \in Tags
    /\ delivered' = [delivered EXCEPT ![k] = Append(@, Oldest)]
    /\ IF auto_ack
       THEN /\ QueueBecomes(ready \ {Oldest}, gone \cup {Oldest}, unacked)
            /\ asked' = asked \cup {Oldest}
            /\ UNCHANGED receipts
       ELSE /\ QueueBecomes(ready \ {Oldest}, gone,
                            [unacked EXCEPT ![k] = @ \cup {tag}])
            /\ receipts' = receipts \cup {[chan |-> k, tag |-> tag]}
            /\ UNCHANGED asked
    /\ UNCHANGED <<exists, published, promised, stray>>

(* basic.get-empty: consume_message returns None.                           *)
NothingReady == exists /\ ready = {} /\ QueueSame /\ UNCHANGED caller

(* The answer of an auto-acknowledged get is lost with the connection: the  *)
(* message is gone and nobody has it.                                       *)
LostDelivery ==
    /\ cur.chan \in bchan \ bchan' /\ exists /\ ready # {}
    /\ QueueBecomes(ready \ {Oldest}, gone \cup {Oldest}, unacked)
    /\ asked' = asked \cup {Oldest}
    /\ UNCHANGED <<exists, delivered, published, promised, receipts, stray>>

MConsumeMessage ==
    \/ /\ Served("consume_message")
       /\ NothingReady \/ (\E auto_ack \in BOOLEAN : Delivered(auto_ack))
    \/ Refused("consume_message") /\ QueueSame /\ UNCHANGED caller
    \/ /\ Uncaught("consume_message")
       /\ (QueueSame /\ UNCHANGED caller) \/ LostDelivery

-----------------------------------------------------------------------------
(* ack_message, nack_message and reject_message *)

(* The caller's own view of what tag and multiple cover.                    *)
Covered(r, multiple) ==
    {s \in receipts : s.chan = r.chan
                      /\ (s.tag = r.tag \/ (multiple /\ s.tag < r.tag))}

(* Mutant: every settle is sent with multiple.                              *)
OutstandingUpTo(r, multiple) == {t \in unacked[cur.chan] : t <= r.tag}

(* The broker's: tags of the channel the settle is sent on.  For a tag that *)
(* is not outstanding it closes the channel instead (PRECONDITION_FAILED).  *)
Outstanding(r, multiple) ==
    {t \in unacked[cur.chan] : t = r.tag \/ (multiple /\ t < r.tag)}

Known(r) == r.tag \in unacked[cur.chan]

(* Mutant: the requeue flag is not passed on.                               *)
SettleDropsRequeue(r, multiple, requeue) ==
    LET k == cur.chan
        hit == Outstanding(r, multiple)
        left == [unacked EXCEPT ![k] = @ \ hit] IN
    /\ IF ~Known(r) THEN NotRouted
       ELSE QueueBecomes(ready, gone \cup Bodies(k, hit), left)
    /\ stray' = stray \cup ({r.chan} \ {k})

(* What the broker makes of a settle that reaches it.                       *)
Settle(r, multiple, requeue) ==
    LET k == cur.chan
        hit == Outstanding(r, multiple)
        left == [unacked EXCEPT ![k] = @ \ hit] IN
    /\ IF ~Known(r) THEN NotRouted
       ELSE IF requeue THEN QueueBecomes(ready \cup (Bodies(k, hit) \ gone),
                                         gone, left)
       ELSE QueueBecomes(ready, gone \cup Bodies(k, hit), left)
    /\ stray' = stray \cup ({r.chan} \ {k})

SettleReturns(op, r, multiple, requeue) ==
    /\ SettleSent(op) /\ Settle(r, multiple, requeue)
    /\ bchan' = IF Known(r) THEN bchan ELSE bchan \ {cur.chan}
    /\ receipts' = receipts \ Covered(r, multiple)

(* The call raises, before or after the broker did what it was asked: a tag *)
(* that is outstanding fails only with the connection.                      *)
SettleRaises(op, r, multiple, requeue) ==
    /\ SettleFails(op) /\ receipts' = receipts
    /\ Known(r) => cur.chan \notin link'
    /\ \/ NotRouted /\ stray' = stray
       \/ Known(r) /\ Settle(r, multiple, requeue)

SettleMessage(op, Multiple, Requeue) ==
    \E r \in receipts, multiple \in Multiple, requeue \in Requeue :
       /\ \/ SettleReturns(op, r, multiple, requeue)
          \/ SettleRaises(op, r, multiple, requeue)
       /\ asked' = IF requeue THEN asked
                   ELSE asked \cup {delivered[s.chan][s.tag] :
                                    s \in Covered(r, multiple)}
       /\ UNCHANGED <<exists, delivered, published, promised>>

MAckMessage == SettleMessage("ack_message", BOOLEAN, {FALSE})
MNackMessage == SettleMessage("nack_message", BOOLEAN, BOOLEAN)
MRejectMessage == SettleMessage("reject_message", {FALSE}, BOOLEAN)

-----------------------------------------------------------------------------
(* Operations that concern no message, and the steps outside any call *)

OtherCall ==
    /\ \/ BindQueue \/ UnbindQueue \/ DeclareExchange \/ DeleteExchange
       \/ BindExchange \/ CheckHealth
    /\ QueueSame /\ UNCHANGED caller

(* The caller starts a settle only with a receipt in hand.                  *)
MBegin ==
    /\ Begin
    /\ pc' = "call" /\ cur'.op \in Settles => receipts # {}
    /\ pc' = "call" /\ cur'.op = "publish_message" => published < MaxMsgs
    /\ QueueSame /\ UNCHANGED caller

MLifecycle ==
    /\ Connect \/ Close \/ GetConnectionInfo \/ Environment
    /\ QueueSame /\ UNCHANGED caller

MNext ==
    \/ MDeclareQueue \/ MGetQueueInfo \/ MDeleteQueue \/ MPurgeQueue
    \/ MPublishMessage \/ MConsumeMessage
    \/ MAckMessage \/ MNackMessage \/ MRejectMessage
    \/ OtherCall \/ MBegin \/ MLifecycle

MSpec == MInit /\ [][MNext]_mvars

-----------------------------------------------------------------------------
(* Properties *)

(* The variables have their types.                                          *)
MTypeOK ==
    /\ TypeOK
    /\ exists \in BOOLEAN /\ ready \subseteq Msgs /\ gone \subseteq Msgs
    /\ \A k \in Conns : /\ Len(delivered[k]) <= MaxTags
                        /\ unacked[k] \subseteq 1..Len(delivered[k])
                        /\ Bodies(k, 1..Len(delivered[k])) \subseteq Msgs
    /\ published \in 0..MaxMsgs /\ promised \subseteq Msgs
    /\ receipts \subseteq [chan : Conns, tag : Tags]
    /\ asked \subseteq Msgs /\ stray \subseteq Conns

(* A message whose mandatory publish returned is in the queue or on an open *)
(* channel until the caller itself settles, purges, deletes or takes it     *)
(* with auto_ack: no crash, reconnect, refusal or lost answer loses it.     *)
(* The one exception is a settle that reached another channel than its own. *)
NothingLost == stray = {} => promised \ asked \subseteq ready \cup Held

(* The caller can settle what it holds: a receipt of the channel now in use *)
(* is still outstanding at the broker, so settling it once never closes the *)
(* channel.                                                                 *)
ReceiptsLive ==
    stray = {} => \A r \in receipts :
                 r.chan \in bchan => r.tag \in unacked[r.chan]

(* Unsettled deliveries of the current connection can still be reached: a   *)
(* refused operation that makes the client forget the channel also makes    *)
(* the broker take them back.                                               *)
HeldIsReachable ==
    connection \in connOpen /\ unacked[connection] # {} => channel = connection

(* ack_message's contract: RabbitMQMessageError "If the channel is not      *)
(* open".  A settle that returns finds the channel of its delivery open.    *)
SettleNeedsItsChannel ==
    [][out'.res = "returned" => stray' \ stray \subseteq chanOpen]_mvars
=============================================================================
