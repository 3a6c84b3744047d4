------------------------- MODULE SyncMessagingProofs --------------------------
(***************************************************************************)
(* Proofs that no message is lost and that receipts stay good, for every    *)
(* number of connections, messages and tags and every set of operations.    *)
(*                                                                         *)
(* Every step of SyncMessaging is a step of SyncClient together with what it*)
(* does to the queue.  What SyncClientProofs knows of the client is used    *)
(* for the first half; this module argues about the second.                 *)
(***************************************************************************)
EXTENDS SyncMessaging, SyncClientProofs, WellFoundedInduction

USE DEF None, Conns

-----------------------------------------------------------------------------
(* The client under the messages                                            *)

(* Every step of SyncMessaging is one of the client.                        *)
LEMMA ClientSteps == [MNext]_mvars => [Next]_vars
<1> SUFFICES ASSUME [MNext]_mvars PROVE [Next]_vars
  OBVIOUS
<1>1. CASE UNCHANGED mvars
  BY <1>1 DEF mvars
<1>2. CASE MDeclareQueue \/ MGetQueueInfo \/ MDeleteQueue \/ MPurgeQueue
  BY <1>2 DEF MDeclareQueue, MGetQueueInfo, MDeleteQueue, MPurgeQueue, QueueCall,
              DeclareQueue, GetQueueInfo, DeleteQueue, PurgeQueue,
              RefusableCall, Call, Next
<1>3. CASE MPublishMessage
  BY <1>3 DEF MPublishMessage, PublishMessage, Call, Next
<1>4. CASE MConsumeMessage
  BY <1>4 DEF MConsumeMessage, ConsumeMessage, RefusableCall, Call, Next
<1>5. CASE MAckMessage \/ MNackMessage \/ MRejectMessage
  BY <1>5 DEF MAckMessage, MNackMessage, MRejectMessage, SettleMessage,
              SettleReturns, SettleRaises,
              AckMessage, NackMessage, RejectMessage, SettleCall, Call, Next
<1>6. CASE OtherCall \/ MBegin \/ MLifecycle
  BY <1>6 DEF OtherCall, MBegin, MLifecycle, Call, Next
<1> QED BY <1>1, <1>2, <1>3, <1>4, <1>5, <1>6 DEF MNext

(* The client's half of the initial states and steps is the client's        *)
(* specification: what is proved of it holds with messages as well.         *)
THEOREM ClientUnderneath == MSpec => Spec
<1>1. MInit => Init
  BY DEF MInit
<1> QED BY <1>1, ClientSteps, PTL DEF MSpec, Spec

(* The broker opens channels of new connections only.                       *)
NewOnly == /\ opened <= opened'
           /\ \A k \in bchan' \ bchan : opened < k

(* A connection whose channel is open at the broker has that channel in     *)
(* _channel.                                                                *)
ChannelKept == connection \in bchan => channel = connection

(* What a step of the client means for the broker's channels.               *)
LEMMA ClientEffect ==
    ASSUME IInv, ChannelKept, [Next]_vars
    PROVE  NewOnly /\ ChannelKept'
<1>0. /\ TypeOK /\ ViewsNested /\ RefsMatch /\ UseMatchesCheck
      /\ opened \in Nat /\ \A k \in bchan : k <= opened
      /\ bchan \subseteq connOpen /\ None \notin bchan
  BY ConstantsAssumption DEF IInv, TypeOK, ViewsNested
<1>1. ASSUME opened' = opened, bchan' \subseteq bchan, UNCHANGED client
      PROVE  NewOnly /\ ChannelKept'
  BY <1>0, <1>1 DEF NewOnly, ChannelKept, client
<1>2. ASSUME NEW exc, PikaRaises(exc)
      PROVE  opened' = opened /\ bchan' \subseteq bchan
  BY <1>0, <1>2, RaisesEffect
<1>3. ASSUME NEW op, Refused(op)
      PROVE  NewOnly /\ ChannelKept'
  <2>1. cur.chan = connection /\ opened' = opened /\ connection' = connection
        /\ bchan' = bchan \ {connection}
    BY <1>0, <1>3 DEF Refused, InCall, UseMatchesCheck, PikaRaises
  <2> QED BY <1>0, <2>1 DEF NewOnly, ChannelKept
<1>4. ASSUME NEW op, Served(op) \/ Uncaught(op)
      PROVE  NewOnly /\ ChannelKept'
  BY <1>1, <1>2, <1>4 DEF Served, Uncaught, PikaServed, pika, net
<1>5. ASSUME NEW op, SettleCall(op)
      PROVE  NewOnly /\ ChannelKept'
  BY <1>1, <1>2, <1>5 DEF SettleCall, SettleSent, SettleFails, PikaSends, pika
<1>6. CASE PublishMessage \/ CheckHealth
  BY <1>1, <1>2, <1>6 DEF PublishMessage, PublishReturns, PublishRejected,
     PublishRaises, CheckHealth, PikaServed, pika, net
<1>7. CASE Call
  BY <1>3, <1>4, <1>5, <1>6, <1>7
     DEF Call, DeclareQueue, DeleteQueue, PurgeQueue, BindQueue,
         UnbindQueue, GetQueueInfo, DeclareExchange, DeleteExchange,
         BindExchange, ConsumeMessage, AckMessage, NackMessage, RejectMessage,
         RefusableCall
<1>8. ASSUME ConnectFails \/ ConnectSucceeds \/ ConnectBreaks
      PROVE  NewOnly /\ ChannelKept'
  <2>1. CASE ConnectFails
    BY <1>1, <2>1 DEF ConnectFails, pika, net
  <2>2. CASE ConnectSucceeds
    BY <1>0, <2>2 DEF ConnectSucceeds, NewOnly, ChannelKept
  <2>3. CASE ConnectBreaks
    <3>1. connection' = opened + 1 /\ opened' = opened + 1 /\ bchan' = bchan
      BY <2>3 DEF ConnectBreaks, net
    <3> QED BY <1>0, <3>1 DEF NewOnly, ChannelKept
  <2> QED BY <1>8, <2>1, <2>2, <2>3
<1>9. CASE Begin \/ Connect \/ GetConnectionInfo
  BY <1>1, <1>8, <1>9 DEF Begin, InvalidName, RequireChannel, Connect,
     GetConnectionInfo, pika, net
<1>10. CASE Close
  BY <1>0, <1>10 DEF Close, NewOnly, ChannelKept
<1>11. CASE Environment \/ UNCHANGED vars
  BY <1>1, <1>11 DEF Environment, LinkLost, BrokerStops, BrokerStarts, vars,
     pika, net
<1> QED BY <1>7, <1>9, <1>10, <1>11 DEF Next

-----------------------------------------------------------------------------
(* The inductive invariant                                                  *)

(* The broker's queue: what is outstanding was delivered, and nothing is    *)
(* outstanding on a channel that is closed.                                 *)
Deliveries ==
    /\ exists \in BOOLEAN /\ ready \subseteq Msgs /\ gone \subseteq Msgs
    /\ delivered \in [Conns -> Seq(Msgs)]
    /\ unacked \in [Conns -> SUBSET Tags]
    /\ \A k \in Conns : /\ Len(delivered[k]) <= MaxTags
                        /\ unacked[k] \subseteq 1..Len(delivered[k])
                        /\ k \notin bchan => unacked[k] = {}

(* What the caller holds: receipts are for deliveries that were made, on    *)
(* channels that were opened.                                               *)
Holdings ==
    /\ published \in 0..MaxMsgs /\ promised \subseteq Msgs
    /\ asked \subseteq Msgs /\ stray \subseteq Conns
    /\ receipts \subseteq [chan : Conns, tag : Tags]
    /\ \A r \in receipts : /\ r.chan <= opened
                           /\ r.tag \in 1..Len(delivered[r.chan])

(* On an open channel, the outstanding deliveries are the caller's receipts.*)
Match == \A k \in bchan, t \in Tags :
            t \in unacked[k] <=> [chan |-> k, tag |-> t] \in receipts

(* Only what the caller asked to drop was dropped.                          *)
Safe == gone \subseteq asked /\ promised \ asked \subseteq ready \cup Held

Messages == Deliveries /\ Holdings /\ (stray = {} => Match /\ Safe)

MIInv == IInv /\ ChannelKept /\ Messages

(* The initial states satisfy the inductive invariant.                      *)
LEMMA MInitEstablishes == MInit => MIInv
<1> SUFFICES ASSUME MInit PROVE MIInv
  OBVIOUS
<1>1. IInv /\ ChannelKept
  BY InitEstablishes DEF MInit, Init, ChannelKept
<1>2. Deliveries /\ Holdings
  BY MessagesAssumption DEF MInit, Deliveries, Holdings, Msgs, Tags
<1>3. Match /\ Safe
  BY DEF MInit, Init, Match, Safe
<1> QED BY <1>1, <1>2, <1>3 DEF MIInv, Messages

(* What was delivered is a message.                                         *)
LEMMA BodyTyped ==
    ASSUME Deliveries, NEW k \in Conns, NEW t \in 1..Len(delivered[k])
    PROVE  delivered[k][t] \in Msgs
BY DEF Deliveries

(* A message is held exactly when a tag of it is outstanding.               *)
LEMMA HeldIs ==
    /\ \A m : m \in Held <=>
          \E k \in Conns : \E t \in unacked[k] : m = delivered[k][t]
    /\ \A m : m \in Held' <=>
          \E k \in Conns : \E t \in unacked'[k] : m = delivered'[k][t]
BY DEF Held, Bodies

(* QueueBecomes keeps the types when no tag becomes outstanding.            *)
LEMMA BecomesTyped ==
    ASSUME Deliveries, NEW r \in SUBSET Msgs, NEW g \in SUBSET Msgs,
           NEW u, \A k \in Conns : u[k] \subseteq unacked[k],
           QueueBecomes(r, g, u), delivered' = delivered,
           exists' \in BOOLEAN
    PROVE  Deliveries'
<1>1. UNION {Bodies(k, u[k]) : k \in Conns \ bchan'} \subseteq Msgs
  BY BodyTyped DEF Bodies, Deliveries
<1>2. ready' \subseteq Msgs /\ gone' \subseteq Msgs
  BY <1>1 DEF QueueBecomes
<1>3. unacked' \in [Conns -> SUBSET Tags]
      /\ \A k \in Conns : unacked'[k] \subseteq unacked[k]
                          /\ (k \notin bchan' => unacked'[k] = {})
  BY DEF QueueBecomes, Deliveries
<1> QED BY <1>2, <1>3 DEF Deliveries

(* QueueBecomes loses nothing but what it removes.                          *)
LEMMA BecomesHolds ==
    ASSUME NEW r, NEW g, NEW u, QueueBecomes(r, g, u), delivered' = delivered
    PROVE  /\ r \subseteq ready' \cup Held'
           /\ \A k \in Conns : \A t \in u[k] :
                 delivered[k][t] \in g \cup ready' \cup Held'
<1>1. r \subseteq ready'
  BY DEF QueueBecomes
<1>2. ASSUME NEW k \in Conns, NEW t \in u[k]
      PROVE  delivered[k][t] \in g \cup ready' \cup Held'
  <2>1. CASE k \in bchan'
    <3>1. t \in unacked'[k]
      BY <1>2, <2>1 DEF QueueBecomes
    <3> QED BY <3>1, HeldIs
  <2>2. CASE k \notin bchan'
    <3> DEFINE back == UNION {Bodies(i, u[i]) : i \in Conns \ bchan'}
    <3>1. delivered[k][t] \in back
      BY <1>2, <2>2 DEF Bodies
    <3>2. ready' = r \cup (back \ g)
      BY DEF QueueBecomes
    <3> HIDE DEF back
    <3> QED BY <3>1, <3>2
  <2> QED BY <2>1, <2>2
<1> QED BY <1>1, <1>2

-----------------------------------------------------------------------------
(* Steps                                                                    *)

(* A step that delivers and settles nothing.                                *)
LEMMA QuietKeeps ==
    ASSUME Messages, NewOnly, opened \in Nat, opened' \in Nat,
           NEW r \in SUBSET Msgs, NEW g \in SUBSET Msgs,
           QueueBecomes(r, g, unacked),
           bchan' \subseteq Conns, exists' \in BOOLEAN,
           UNCHANGED <<delivered, receipts, stray>>,
           published' \in 0..MaxMsgs, promised' \subseteq Msgs,
           asked' \subseteq Msgs,
           stray = {} => /\ g \subseteq asked'
                         /\ promised' \ asked' \subseteq r \cup Held
    PROVE  Messages'
<1>0. Deliveries /\ Holdings /\ (stray = {} => Match /\ Safe)
  BY DEF Messages
<1>1. Deliveries'
  BY <1>0, BecomesTyped
<1>2. Holdings'
  <2>1. \A s \in receipts : s.chan <= opened'
    BY <1>0 DEF Holdings, NewOnly
  <2> QED BY <1>0, <2>1 DEF Holdings
<1>3. ASSUME stray = {} PROVE Match'
  <2> SUFFICES ASSUME NEW k \in bchan', NEW t \in Tags
               PROVE  t \in unacked'[k] <=> [chan |-> k, tag |-> t] \in receipts
    BY DEF Match
  <2>1. k \in Conns /\ unacked'[k] = unacked[k]
    BY DEF QueueBecomes
  <2>2. CASE k \in bchan
    BY <1>0, <1>3, <2>1, <2>2 DEF Match
  <2>3. CASE k \notin bchan
    <3>1. unacked[k] = {} /\ opened < k
      BY <1>0, <2>1, <2>3 DEF Deliveries, NewOnly
    <3>2. [chan |-> k, tag |-> t] \notin receipts
      BY <1>0, <2>1, <3>1 DEF Holdings
    <3> QED BY <2>1, <3>1, <3>2
  <2> QED BY <2>2, <2>3
<1>4. ASSUME stray = {} PROVE Safe'
  <2>1. gone' = g
    BY DEF QueueBecomes
  <2>2. r \cup Held \subseteq g \cup ready' \cup Held'
    BY BecomesHolds, HeldIs
  <2> QED BY <1>4, <2>1, <2>2 DEF Safe
<1> QED BY <1>1, <1>2, <1>3, <1>4 DEF Messages

(* The steps of SyncClient leave what the invariant needs.                  *)
ClientStep == /\ opened \in Nat /\ opened' \in Nat /\ bchan' \subseteq Conns
              /\ NewOnly /\ IInv /\ Messages

(* A step that leaves the queue alone; what the caller asks for may grow.   *)
LEMMA SameKeeps ==
    ASSUME ClientStep, QueueSame, UNCHANGED <<receipts, stray, promised>>,
           published' \in 0..MaxMsgs,
           asked' \subseteq Msgs, asked \subseteq asked'
    PROVE  Messages'
<1>1. ready \in SUBSET Msgs /\ gone \in SUBSET Msgs /\ exists' \in BOOLEAN
      /\ promised' \subseteq Msgs
  BY DEF ClientStep, Messages, Deliveries, Holdings, QueueSame
<1>2. stray = {} => gone \subseteq asked' /\ promised' \ asked' \subseteq ready \cup Held
  BY DEF ClientStep, Messages, Safe
<1> QED BY <1>1, <1>2, QuietKeeps DEF ClientStep, QueueSame

(* What the caller holds is made of messages.                               *)
LEMMA HeldTyped == Deliveries => Held \subseteq Msgs
BY HeldIs, BodyTyped DEF Deliveries

(* The effects of the queue operations.                                     *)
LEMMA QueueKeeps ==
    ASSUME ClientStep,
           QueueDeclared \/ QueueInspected \/ QueueDeleted \/ QueuePurged
    PROVE  Messages'
<1>0. Messages /\ Deliveries /\ Holdings /\ (stray = {} => Safe)
  BY DEF ClientStep, Messages
<1>1. CASE QueueInspected
  BY <1>0, <1>1, SameKeeps DEF QueueInspected, caller, Holdings
<1>2. CASE QueueDeclared
  <2>1. ready \in SUBSET Msgs /\ gone \in SUBSET Msgs
        /\ published' \in 0..MaxMsgs /\ promised' \subseteq Msgs
        /\ asked' \subseteq Msgs
    BY <1>0, <1>2 DEF QueueDeclared, caller, Deliveries, Holdings
  <2>2. stray = {} => /\ gone \subseteq asked'
                      /\ promised' \ asked' \subseteq ready \cup Held
    BY <1>0, <1>2 DEF QueueDeclared, caller, Safe
  <2> QED BY <1>2, <2>1, <2>2, QuietKeeps DEF QueueDeclared, caller, ClientStep
<1>3. CASE QueueDeleted
  <2>1. gone \cup ready \cup Held \in SUBSET Msgs
        /\ published' \in 0..MaxMsgs /\ promised' \subseteq Msgs
        /\ asked' \subseteq Msgs
    BY <1>0, <1>3, HeldTyped DEF QueueDeleted, Deliveries, Holdings
  <2>2. stray = {} => /\ gone \cup ready \cup Held \subseteq asked'
                      /\ promised' \ asked' \subseteq {} \cup Held
    BY <1>0, <1>3 DEF QueueDeleted, Safe
  <2> QED BY <1>3, <2>1, <2>2, QuietKeeps DEF QueueDeleted, ClientStep
<1>4. CASE QueuePurged
  <2>1. gone \cup ready \in SUBSET Msgs /\ exists' \in BOOLEAN
        /\ published' \in 0..MaxMsgs /\ promised' \subseteq Msgs
        /\ asked' \subseteq Msgs
    BY <1>0, <1>4 DEF QueuePurged, Deliveries, Holdings
  <2>2. stray = {} => /\ gone \cup ready \subseteq asked'
                      /\ promised' \ asked' \subseteq {} \cup Held
    BY <1>0, <1>4 DEF QueuePurged, Safe
  <2> QED BY <1>4, <2>1, <2>2, QuietKeeps DEF QueuePurged, ClientStep
<1> QED BY <1>1, <1>2, <1>3, <1>4

(* publish_message: what returns was taken by the broker, as the channel    *)
(* is in confirm mode, and routed when it was mandatory.                    *)
LEMMA PublishKeeps ==
    ASSUME ClientStep, MPublishMessage
    PROVE  Messages'
<1> DEFINE n == published + 1
<1>0. Messages /\ Deliveries /\ Holdings /\ (stray = {} => Safe)
      /\ ViewsNested /\ UNCHANGED <<exists, delivered, receipts, asked, stray>>
      /\ n \in Msgs /\ published' = n
  BY DEF ClientStep, Messages, IInv, MPublishMessage
<1>1. ready \in SUBSET Msgs /\ ready \cup {n} \in SUBSET Msgs
      /\ gone \in SUBSET Msgs /\ exists' \in BOOLEAN
      /\ published' \in 0..MaxMsgs /\ asked' \subseteq Msgs
      /\ promised \subseteq Msgs /\ promised \cup {n} \subseteq Msgs
  BY <1>0, MessagesAssumption DEF Deliveries, Holdings, Msgs
<1>2. PICK mandatory \in BOOLEAN :
        \/ /\ PublishReturns
           /\ IF cur.chan \in bchan /\ exists THEN Routed(n) ELSE NotRouted
           /\ cur.chan \in bchan /\ mandatory => exists
           /\ promised' = IF mandatory THEN promised \cup {n} ELSE promised
        \/ promised' = promised /\ (NotRouted \/ Routed(n))
  BY DEF MPublishMessage
<1>3. NotRouted \/ Routed(n)
  BY <1>2
<1>4. promised' = promised \/ (promised' = promised \cup {n} /\ Routed(n))
  <2>1. CASE promised' = promised
    BY <2>1
  <2>2. CASE promised' # promised
    <3>1. mandatory /\ PublishReturns /\ promised' = promised \cup {n}
      BY <1>2, <2>2
    <3>2. cur.chan \in bchan
      BY <1>0, <3>1 DEF PublishReturns, ViewsNested
    <3> QED BY <1>2, <2>2, <3>1, <3>2
  <2> QED BY <2>1, <2>2
<1>5. CASE Routed(n)
  <2>1. stray = {} => /\ gone \subseteq asked'
                      /\ promised' \ asked' \subseteq (ready \cup {n}) \cup Held
    BY <1>0, <1>4 DEF Safe
  <2>2. promised' \subseteq Msgs
    BY <1>1, <1>4
  <2> HIDE DEF n
  <2> QED BY <1>0, <1>1, <1>5, <2>1, <2>2, QuietKeeps DEF Routed, ClientStep
<1>6. CASE NotRouted /\ promised' = promised
  <2>1. stray = {} => /\ gone \subseteq asked'
                      /\ promised' \ asked' \subseteq ready \cup Held
    BY <1>0, <1>6 DEF Safe
  <2> HIDE DEF n
  <2> QED BY <1>0, <1>1, <1>6, <2>1, QuietKeeps DEF NotRouted, ClientStep
<1> QED BY <1>3, <1>4, <1>5, <1>6

(* A settle: the broker's outstanding tags and the caller's receipts are    *)
(* covered alike, as long as no receipt was settled on another channel.     *)
LEMMA SettleKeeps ==
    ASSUME ClientStep, UseMatchesCheck, NEW op, NEW r \in receipts,
           NEW multiple \in BOOLEAN, NEW requeue \in BOOLEAN,
           Settle(r, multiple, requeue),
           SettleReturns(op, r, multiple, requeue)
             \/ (SettleRaises(op, r, multiple, requeue) /\ Known(r)),
           asked' = IF requeue THEN asked
                    ELSE asked \cup {delivered[s.chan][s.tag] :
                                     s \in Covered(r, multiple)},
           UNCHANGED <<exists, delivered, published, promised>>
    PROVE  Messages'
<1> DEFINE k == cur.chan
           hit == Outstanding(r, multiple)
           known == r.tag \in unacked[k]
           left == [unacked EXCEPT ![k] = @ \ hit]
           cov == Covered(r, multiple)
           g == IF known /\ ~requeue THEN gone \cup Bodies(k, hit) ELSE gone
           q == IF known /\ requeue THEN ready \cup (Bodies(k, hit) \ gone)
                ELSE ready
           u == IF known THEN left ELSE unacked
<1>0. Deliveries /\ Holdings /\ (stray = {} => Match /\ Safe)
  BY DEF ClientStep, Messages
<1>1. /\ bchan' \subseteq bchan
      /\ k \in bchan' => known /\ receipts' = receipts \ cov
      /\ receipts' \subseteq receipts
      /\ k \notin bchan' => receipts' \in {receipts, receipts \ cov}
      /\ stray' = stray \cup ({r.chan} \ {k})
      /\ pc = "call"
  <2>1. stray' = stray \cup ({r.chan} \ {k})
    BY DEF Settle
  <2>2. CASE SettleReturns(op, r, multiple, requeue)
    BY <2>1, <2>2 DEF SettleReturns, SettleSent, InCall, Known
  <2>3. CASE SettleRaises(op, r, multiple, requeue) /\ Known(r)
    <3>1. PICK exc \in PikaErrors : PikaRaises(exc)
      BY <2>3 DEF SettleRaises, SettleFails
    <3>2. ViewsNested' /\ bchan' \subseteq bchan
      BY <3>1, RaisesEffect DEF ClientStep, IInv
    <3>3. k \notin bchan'
      BY <2>3, <3>2 DEF SettleRaises, ViewsNested
    <3> QED BY <2>1, <2>3, <3>2, <3>3 DEF SettleRaises, SettleFails, InCall
  <2> QED BY <2>2, <2>3
<1>2. QueueBecomes(q, g, u)
  BY Zenon DEF Settle, NotRouted, Known
<1>3. k \in Conns /\ hit \subseteq unacked[k]
  BY <1>1 DEF UseMatchesCheck, ClientStep, IInv, TypeOK, Outstanding
<1>4. /\ \A i \in Conns : u[i] \subseteq unacked[i]
      /\ \A i \in Conns : \A t \in unacked[i] :
            t \in u[i] \/ (known /\ i = k /\ t \in hit)
  BY <1>0, <1>3 DEF Deliveries
<1>5. Bodies(k, hit) \subseteq Msgs
  BY <1>0, <1>3, BodyTyped DEF Bodies, Deliveries
<1>6. q \in SUBSET Msgs /\ g \in SUBSET Msgs
  BY <1>0, <1>5 DEF Deliveries
<1>7. Deliveries'
  <2> HIDE DEF q, g, u, k, hit, known
  <2> QED BY <1>0, <1>2, <1>4, <1>6, BecomesTyped DEF Deliveries
<1>8. Holdings'
  <2>1. asked' \subseteq Msgs
    BY <1>0, BodyTyped DEF Holdings, Covered
  <2>2. stray' \subseteq Conns /\ receipts' \subseteq receipts
    BY <1>0, <1>1 DEF Holdings
  <2>3. opened <= opened'
    BY DEF ClientStep, NewOnly
  <2> QED BY <1>0, <2>1, <2>2, <2>3 DEF Holdings, ClientStep
<1>9. SUFFICES ASSUME stray' = {} PROVE Match' /\ Safe'
  BY <1>7, <1>8 DEF Messages
<1>10. stray = {} /\ r.chan = k /\ Match /\ Safe
  BY <1>0, <1>1, <1>9
<1>11. \A t \in Tags : t \in hit <=> t \in unacked[k] /\ [chan |-> k, tag |-> t] \in cov
  BY <1>0, <1>3, <1>10 DEF Match, Covered, Outstanding, Deliveries, Holdings
<1>12. Match'
  <2> SUFFICES ASSUME NEW i \in bchan', NEW t \in Tags
               PROVE  t \in unacked'[i] <=> [chan |-> i, tag |-> t] \in receipts'
    BY DEF Match
  <2>1. i \in bchan /\ i \in Conns
    BY <1>1 DEF ClientStep
  <2>2. t \in unacked[i] <=> [chan |-> i, tag |-> t] \in receipts
    BY <1>10, <2>1 DEF Match
  <2>3. unacked'[i] = u[i]
    BY <1>2, <2>1 DEF QueueBecomes
  <2>4. CASE i = k
    <3>1. known /\ u[i] = unacked[k] \ hit
      BY <1>0, <1>1, <1>3, <2>4 DEF Deliveries
    <3>2. receipts' = receipts \ cov
      BY <1>1, <2>4
    <3> QED BY <1>11, <2>2, <2>3, <2>4, <3>1, <3>2
  <2>5. CASE i # k
    <3>1. u[i] = unacked[i]
      BY <1>0, <2>1, <2>5 DEF Deliveries
    <3>2. [chan |-> i, tag |-> t] \notin cov
      BY <1>10, <2>5 DEF Covered
    <3> QED BY <1>1, <2>2, <2>3, <3>1, <3>2
  <2> QED BY <2>4, <2>5
<1>13. ~requeue => Bodies(k, hit) \subseteq asked'
  <2> SUFFICES ASSUME ~requeue, NEW t \in hit
               PROVE  delivered[k][t] \in asked'
    BY DEF Bodies
  <2>1. [chan |-> k, tag |-> t] \in cov
    BY <1>0, <1>3, <1>11 DEF Deliveries
  <2> HIDE DEF hit, cov
  <2>2. delivered[k][t] \in {delivered[s.chan][s.tag] : s \in cov}
    BY <2>1
  <2> QED BY <2>2 DEF cov
<1>14. gone' = g /\ g \subseteq asked' /\ asked \subseteq asked'
  BY <1>2, <1>10, <1>13 DEF QueueBecomes, Safe
<1>15. promised \ asked' \subseteq q \cup Held
  BY <1>10, <1>14 DEF Safe
<1>16. q \cup Held \subseteq g \cup ready' \cup Held'
  <2>1. q \subseteq ready' \cup Held'
        /\ \A i \in Conns : \A t \in u[i] :
              delivered[i][t] \in g \cup ready' \cup Held'
    BY <1>2, BecomesHolds
  <2>2. known => Bodies(k, hit) \subseteq q \cup g
    OBVIOUS
  <2>3. ASSUME NEW i \in Conns, NEW t \in unacked[i]
        PROVE  delivered[i][t] \in g \cup ready' \cup Held'
    <3>1. CASE t \in u[i]
      BY <2>1, <3>1
    <3>2. CASE known /\ i = k /\ t \in hit
      <4>1. delivered[i][t] \in Bodies(k, hit)
        BY <3>2 DEF Bodies
      <4> HIDE DEF q, g, hit
      <4> QED BY <2>1, <2>2, <3>2, <4>1
    <3> QED BY <1>4, <3>1, <3>2
  <2> QED BY <2>1, <2>3, HeldIs
<1>17. Safe'
  <2> HIDE DEF q, g
  <2> QED BY <1>14, <1>15, <1>16 DEF Safe
<1> QED BY <1>12, <1>17

(* A queue that is not empty has an oldest message.                         *)
LEMMA OldestReady ==
    ASSUME ready \subseteq Msgs, ready # {}
    PROVE  Oldest \in ready
<1> DEFINE less == OpToRel(<, Nat)
<1>1. ready \subseteq Nat
  BY DEF Msgs
<1>2. IsWellFoundedOn(less, Nat)
  BY NatLessThanWellFounded
<1>3. \A m, n \in Nat : m < n => <<m, n>> \in less
  BY DEF OpToRel
<1> HIDE DEF less
<1>4. PICK m \in ready : \A n \in ready : <<n, m>> \notin less
  BY <1>1, <1>2, WFMin, Zenon
<1>5. \A n \in ready : m <= n
  <2> SUFFICES ASSUME NEW n \in ready PROVE m <= n
    OBVIOUS
  <2>1. m \in Nat /\ n \in Nat /\ ~(n < m)
    BY <1>1, <1>3, <1>4, Zenon
  <2> QED BY <2>1
<1> DEFINE first(i) == \A n \in ready : i <= n
<1>6. first(m)
  BY <1>5
<1>7. Oldest = CHOOSE i \in ready : first(i)
  BY DEF Oldest
<1> HIDE DEF first
<1> QED BY <1>6, <1>7, Zenon

(* consume_message hands the oldest message and its tag to the caller.      *)
LEMMA DeliveredKeeps ==
    ASSUME ClientStep, cur.chan \in bchan, bchan' = bchan,
           NEW auto_ack \in BOOLEAN, Delivered(auto_ack)
    PROVE  Messages'
<1> DEFINE k == cur.chan
           tag == Len(delivered[k]) + 1
           u == IF auto_ack THEN unacked ELSE [unacked EXCEPT ![k] = @ \cup {tag}]
           g == IF auto_ack THEN gone \cup {Oldest} ELSE gone
<1>0. /\ Deliveries /\ Holdings /\ (stray = {} => Match /\ Safe)
      /\ k \in bchan /\ k \in Conns
  BY DEF ClientStep, Messages
<1>1. /\ Oldest \in ready /\ Oldest \in Msgs /\ tag \in Tags
      /\ delivered' = [delivered EXCEPT ![k] = Append(@, Oldest)]
      /\ QueueBecomes(ready \ {Oldest}, g, u)
      /\ asked' = IF auto_ack THEN asked \cup {Oldest} ELSE asked
      /\ receipts' = IF auto_ack THEN receipts
                     ELSE receipts \cup {[chan |-> k, tag |-> tag]}
      /\ UNCHANGED <<exists, published, promised, stray>>
  <2>1. ready # {} /\ ready \subseteq Msgs
    BY <1>0 DEF Delivered, Deliveries
  <2>2. Oldest \in ready
    BY <2>1, OldestReady
  <2> QED BY <2>1, <2>2 DEF Delivered
<1>2. /\ delivered[k] \in Seq(Msgs) /\ Len(delivered[k]) \in Nat
      /\ delivered' \in [Conns -> Seq(Msgs)]
      /\ Len(delivered'[k]) = tag /\ delivered'[k][tag] = Oldest
      /\ \A i \in Conns \ {k} : delivered'[i] = delivered[i]
      /\ \A i \in Conns : Len(delivered[i]) \in Nat
                          /\ 1..Len(delivered[i]) \subseteq 1..Len(delivered'[i])
      /\ \A i \in Conns : \A t \in 1..Len(delivered[i]) :
            delivered'[i][t] = delivered[i][t]
  BY <1>0, <1>1 DEF Deliveries
<1>3. \A i \in Conns : i \notin bchan => u[i] = {}
  BY <1>0 DEF Deliveries
<1>4. ready' = ready \ {Oldest} /\ gone' = g /\ unacked' = u
  <2>1. UNION {Bodies(i, u[i]) : i \in Conns \ bchan'} = {}
    <3>1. \A i \in Conns \ bchan' : Bodies(i, u[i]) = {}
      BY <1>3 DEF Bodies
    <3> HIDE DEF u
    <3> QED BY <3>1
  <2>2. ready' = ready \ {Oldest} /\ gone' = g
    BY <1>1, <2>1 DEF QueueBecomes
  <2>3. unacked' = [i \in Conns |-> u[i]]
    <3> HIDE DEF u, g
    <3> QED BY <1>1, <1>3 DEF QueueBecomes
  <2> QED BY <1>0, <2>2, <2>3 DEF Deliveries
<1>5. Deliveries'
  <2>1. unacked' \in [Conns -> SUBSET Tags]
    BY <1>0, <1>1, <1>4 DEF Deliveries
  <2>2. ASSUME NEW i \in Conns
        PROVE  /\ Len(delivered'[i]) <= MaxTags
               /\ unacked'[i] \subseteq 1..Len(delivered'[i])
               /\ i \notin bchan' => unacked'[i] = {}
    <3>1. Len(delivered'[i]) <= MaxTags
      BY <1>0, <1>1, <1>2, MessagesAssumption DEF Deliveries, Tags
    <3>2. unacked'[i] \subseteq 1..Len(delivered'[i])
      <4>1. unacked[i] \subseteq 1..Len(delivered'[i])
        BY <1>0, <1>2 DEF Deliveries
      <4>2. i = k => tag \in 1..Len(delivered'[i])
        BY <1>2
      <4> HIDE DEF tag
      <4> QED BY <1>0, <1>4, <4>1, <4>2 DEF Deliveries
    <3> QED BY <1>3, <1>4, <3>1, <3>2
  <2> QED BY <1>0, <1>1, <1>2, <1>4, <2>1, <2>2 DEF Deliveries
<1>6. Holdings'
  <2>1. receipts' \subseteq [chan : Conns, tag : Tags] /\ asked' \subseteq Msgs
    BY <1>0, <1>1 DEF Holdings
  <2>2. ASSUME NEW s \in receipts'
        PROVE  s.chan <= opened' /\ s.tag \in 1..Len(delivered'[s.chan])
    <3>1. opened <= opened' /\ k <= opened
      BY <1>0 DEF ClientStep, NewOnly, IInv, ViewsNested
    <3>2. CASE s \in receipts
      BY <1>0, <1>2, <3>1, <3>2 DEF Holdings, ClientStep
    <3>3. CASE s = [chan |-> k, tag |-> tag]
      BY <1>0, <1>2, <3>1, <3>3 DEF ClientStep
    <3> QED BY <1>1, <3>2, <3>3
  <2> QED BY <1>0, <1>1, <2>1, <2>2 DEF Holdings
<1>7. ASSUME stray = {} PROVE Match'
  <2>1. Match
    BY <1>0, <1>7
  <2> HIDE DEF tag
  <2> SUFFICES ASSUME NEW i \in bchan', NEW t \in Tags
               PROVE  t \in unacked'[i] <=> [chan |-> i, tag |-> t] \in receipts'
    BY DEF Match, Tags
  <2>2. i \in Conns /\ (t \in unacked[i] <=> [chan |-> i, tag |-> t] \in receipts)
    BY <2>1 DEF Match, ClientStep
  <2> QED BY <1>0, <1>1, <1>4, <2>2 DEF Deliveries
<1>8. ASSUME stray = {} PROVE Safe'
  <2>1. Held \subseteq Held'
    <3>1. ASSUME NEW i \in Conns, NEW t \in unacked[i]
          PROVE  delivered[i][t] \in Held'
      <4>1. delivered'[i][t] = delivered[i][t]
        BY <1>0, <1>2 DEF Deliveries
      <4>2. t \in unacked'[i]
        BY <1>0, <1>4 DEF Deliveries
      <4> QED BY <4>1, <4>2, HeldIs
    <3> QED BY <3>1, HeldIs
  <2>2. ~auto_ack => Oldest \in Held'
    <3>1. ~auto_ack => tag \in unacked'[k]
      BY <1>0, <1>4 DEF Deliveries
    <3> QED BY <1>0, <1>2, <3>1, HeldIs
  <2> QED BY <1>0, <1>1, <1>4, <1>8, <2>1, <2>2 DEF Safe
<1> QED BY <1>1, <1>5, <1>6, <1>7, <1>8 DEF Messages

(* consume_message whose answer is lost with the connection.                *)
LEMMA LostDeliveryKeeps ==
    ASSUME ClientStep, LostDelivery
    PROVE  Messages'
<1>0. Messages /\ Deliveries /\ Holdings /\ (stray = {} => Safe)
  BY DEF ClientStep, Messages
<1>1. Oldest \in ready
  BY <1>0, OldestReady DEF LostDelivery, Deliveries
<1>2. /\ ready \ {Oldest} \in SUBSET Msgs /\ gone \cup {Oldest} \in SUBSET Msgs
      /\ exists' \in BOOLEAN /\ published' \in 0..MaxMsgs
      /\ promised' \subseteq Msgs /\ asked' \subseteq Msgs
  BY <1>0, <1>1 DEF LostDelivery, Deliveries, Holdings
<1>3. stray = {} => /\ gone \cup {Oldest} \subseteq asked'
                    /\ promised' \ asked' \subseteq (ready \ {Oldest}) \cup Held
  BY <1>0 DEF LostDelivery, Safe
<1> QED BY <1>2, <1>3, QuietKeeps DEF LostDelivery, ClientStep

(* Every step preserves the inductive invariant.                            *)
LEMMA MStepPreserves == MIInv /\ [MNext]_mvars => MIInv'
<1> SUFFICES ASSUME MIInv, [MNext]_mvars PROVE MIInv'
  OBVIOUS
<1>1. IInv' /\ ChannelKept' /\ NewOnly
  BY ClientSteps, StepPreserves, ClientEffect DEF MIInv
<1>2. ClientStep /\ UseMatchesCheck /\ Holdings /\ opened' \in Nat
  BY <1>1, ConstantsAssumption DEF MIInv, IInv, TypeOK, ClientStep, Messages
<1>3. ASSUME QueueSame, UNCHANGED caller PROVE Messages'
  BY <1>2, <1>3, SameKeeps DEF caller, Holdings
<1>4. ASSUME UNCHANGED mvars PROVE Messages'
  <2>1. UNCHANGED <<bchan, opened>> /\ UNCHANGED broker /\ UNCHANGED caller
    BY <1>4 DEF mvars, vars, pika, net
  <2>2. Deliveries' /\ Holdings'
    BY <1>2, <2>1 DEF ClientStep, Messages, Deliveries, Holdings, broker, caller
  <2>3. stray' = {} => Match' /\ Safe'
    BY <1>2, <2>1 DEF ClientStep, Messages, Match, Safe, Held, Bodies, broker,
                      caller
  <2> QED BY <2>2, <2>3 DEF Messages
<1>5. ASSUME MDeclareQueue \/ MGetQueueInfo \/ MDeleteQueue \/ MPurgeQueue
      PROVE  Messages'
  BY <1>2, <1>3, <1>5, QueueKeeps
     DEF MDeclareQueue, MGetQueueInfo, MDeleteQueue, MPurgeQueue, QueueCall
<1>6. ASSUME MConsumeMessage PROVE Messages'
  <2>1. CASE NothingReady \/ (QueueSame /\ UNCHANGED caller)
    BY <1>3, <2>1 DEF NothingReady
  <2>2. CASE LostDelivery
    BY <1>2, <2>2, LostDeliveryKeeps
  <2>3. ASSUME NEW auto_ack \in BOOLEAN, Delivered(auto_ack),
               Served("consume_message")
        PROVE  Messages'
    <3>1. cur.chan \in bchan /\ bchan' = bchan
      BY <2>3 DEF Served, PikaServed, net
    <3> QED BY <1>2, <2>3, <3>1, DeliveredKeeps
  <2> QED BY <1>6, <2>1, <2>2, <2>3 DEF MConsumeMessage
<1>7. ASSUME NEW op, NEW Multiple \in SUBSET BOOLEAN,
             NEW Requeue \in SUBSET BOOLEAN,
             SettleMessage(op, Multiple, Requeue)
      PROVE  Messages'
  <2>1. PICK r \in receipts, multiple \in Multiple, requeue \in Requeue :
           /\ \/ SettleReturns(op, r, multiple, requeue)
              \/ SettleRaises(op, r, multiple, requeue)
           /\ asked' = IF requeue THEN asked
                       ELSE asked \cup {delivered[s.chan][s.tag] :
                                        s \in Covered(r, multiple)}
           /\ UNCHANGED <<exists, delivered, published, promised>>
    BY <1>7 DEF SettleMessage
  <2>2. multiple \in BOOLEAN /\ requeue \in BOOLEAN
    BY <1>7, <2>1
  <2>3. CASE Settle(r, multiple, requeue)
             /\ (SettleReturns(op, r, multiple, requeue)
                 \/ (SettleRaises(op, r, multiple, requeue) /\ Known(r)))
    BY <1>2, <2>1, <2>2, <2>3, SettleKeeps
  <2>4. CASE NotRouted /\ UNCHANGED <<receipts, stray>>
    <3>1. asked' \subseteq Msgs /\ asked \subseteq asked'
      BY <1>2, <2>1, BodyTyped DEF Covered, Holdings, ClientStep, Messages
    <3>2. QueueSame /\ published' \in 0..MaxMsgs
      BY <1>2, <2>1, <2>4 DEF NotRouted, QueueSame, Holdings
    <3> QED BY <1>2, <2>1, <2>4, <3>1, <3>2, SameKeeps
  <2> QED BY <2>1, <2>3, <2>4 DEF SettleReturns, SettleRaises
<1>8. ASSUME OtherCall \/ MBegin \/ MLifecycle PROVE Messages'
  <2>1. QueueSame /\ UNCHANGED caller
    BY <1>8, Zenon DEF OtherCall, MBegin, MLifecycle
  <2> QED BY <1>3, <2>1
<1>9. Messages'
  <2>1. CASE MAckMessage
    BY <1>7, <2>1 DEF MAckMessage
  <2>2. CASE MNackMessage
    BY <1>7, <2>2 DEF MNackMessage
  <2>3. CASE MRejectMessage
    BY <1>7, <2>3 DEF MRejectMessage
  <2>4. CASE MPublishMessage
    BY <1>2, <2>4, PublishKeeps
  <2> QED BY <1>4, <1>5, <1>6, <1>8, <2>1, <2>2, <2>3, <2>4, Zenon DEF MNext
<1> QED BY <1>1, <1>9 DEF MIInv

THEOREM MInvariance == MSpec => []MIInv
<1> QED BY MInitEstablishes, MStepPreserves, PTL DEF MSpec

-----------------------------------------------------------------------------
(* The properties                                                           *)

(* Queue, deliveries and receipts stay well formed.                         *)
THEOREM MTypeCorrect == MSpec => []MTypeOK
<1>1. MIInv => MTypeOK
  <2> SUFFICES ASSUME MIInv PROVE MTypeOK
    OBVIOUS
  <2>1. TypeOK /\ Deliveries /\ Holdings
    BY DEF MIInv, IInv, Messages
  <2>2. \A k \in Conns : Bodies(k, 1..Len(delivered[k])) \subseteq Msgs
    BY <2>1, BodyTyped DEF Bodies
  <2> QED BY <2>1, <2>2 DEF MTypeOK, Deliveries, Holdings
<1> QED BY <1>1, MInvariance, PTL

(* A message whose mandatory publish returned stays in the queue or on an   *)
(* open channel until the caller itself drops it, whatever connections are  *)
(* lost, refused or restored meanwhile.                                     *)
THEOREM NothingIsLost == MSpec => []NothingLost
<1>1. MIInv => NothingLost
  BY DEF MIInv, Messages, Safe, NothingLost
<1> QED BY <1>1, MInvariance, PTL

(* A receipt of a channel that is still open can be settled: the broker     *)
(* waits for it.                                                            *)
THEOREM ReceiptsStayGood == MSpec => []ReceiptsLive
<1>1. MIInv => ReceiptsLive
  <2> SUFFICES ASSUME MIInv, stray = {}, NEW r \in receipts, r.chan \in bchan
               PROVE  r.tag \in unacked[r.chan]
    BY DEF ReceiptsLive
  <2>1. Match /\ r \in [chan : Conns, tag : Tags]
    BY DEF MIInv, Messages, Holdings
  <2>2. r = [chan |-> r.chan, tag |-> r.tag]
    BY <2>1
  <2> QED BY <2>1, <2>2 DEF Match
<1> QED BY <1>1, MInvariance, PTL

(* What is outstanding on the current connection can be reached through     *)
(* _channel.                                                                *)
THEOREM HeldStaysReachable == MSpec => []HeldIsReachable
<1>1. MIInv => HeldIsReachable
  BY DEF MIInv, IInv, TypeOK, Messages, Deliveries, ChannelKept, HeldIsReachable
<1> QED BY <1>1, MInvariance, PTL
=============================================================================
