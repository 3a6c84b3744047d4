-------------------------------- MODULE ToolRuns ------------------------------
(***************************************************************************)
(* Concurrent runs of the AMQP tools (tools/*.py) against one queue.  Every *)
(* run makes a client of its own, connects it, calls one operation, closes  *)
(* the client, and turns the result or the exception into a text.           *)
(*                                                                         *)
(* A client has one connection with one channel and lives for one           *)
(* operation, so what SyncClient and AsyncClient say of longer lives is not *)
(* repeated here.  A run of the synchronous tool and one of the asynchronous*)
(* tool differ in which errors are translated, in ack, nack and reject, and *)
(* in that only the asynchronous one can be cancelled.                      *)
(***************************************************************************)
EXTENDS Naturals

CONSTANTS
    Runs,       \* runs that may be under way at the same time
    Messages,   \* messages that are published, each once
    Tools,      \* the tools the agents use
    Losses,     \* whether connections are lost during an operation
    Codecs      \* the encodings passed to consume: known and unknown ones

PlainTools == {"bind_queue", "unbind_queue", "get_queue_info",
               "declare_exchange", "delete_exchange", "bind_exchange"}
LocalTools == {"get_connection_info", "close_connection"}
SettleTools == {"ack_message", "nack_message", "reject_message"}
AllTools == PlainTools \cup LocalTools \cup SettleTools
            \cup {"declare_queue", "delete_queue", "purge_queue",
                  "publish_message", "consume_message", "check_health"}

ASSUME ConstantsAssumption ==
    /\ Tools \subseteq AllTools
    /\ Losses \in BOOLEAN
    /\ Codecs \subseteq {"known", "unknown"}
    /\ Runs \cap {"none", "shared"} = {}

Results == {"done", "empty", "message", "OK", "DEGRADED", "cancelled",
            "CONNECTION_ERROR", "CHANNEL_ERROR", "MESSAGE_ERROR",
            "VALIDATION_ERROR", "INTERNAL_ERROR"}

VARIABLES
    queue,      \* "none", "shared", or the run whose connection owns it
    ready,      \* the queue's messages that can be delivered
    held,       \* per run: delivered on its connection, not acknowledged
    pc,         \* per run: where it is; "abandoned" when it has ended and
                \* its connection has not
    tool, result,   \* per run: its tool and what the operation came to
    got,        \* per run: messages that basic.get gave it
    published,  \* messages the broker took
    taken,      \* automatically acknowledged and shown to the agent
    gone,       \* discarded, or acknowledged and never shown
    seen,       \* shown with the request to acknowledge them
    settled,    \* those of which an agent was told: acknowledged
    out         \* the text of the run that ended last

broker == <<queue, ready, held>>
runs == <<pc, tool, result, got>>
fate == <<published, taken, gone, seen, settled>>
vars == <<broker, runs, fate, out>>

Init ==
    /\ queue \in {"none", "shared"} /\ ready = {} /\ held = [r \in Runs |-> {}]
    /\ pc = [r \in Runs |-> "idle"]
    /\ tool = [r \in Runs |-> "none"] /\ result = [r \in Runs |-> "done"]
    /\ got = [r \in Runs |-> {}]
    /\ published = {} /\ taken = {} /\ gone = {} /\ seen = {} /\ settled = {}
    /\ out = [tool |-> "none", result |-> "done"]

-----------------------------------------------------------------------------
(* _run: the client connects on entering the with block *)

Begin(r, t) ==
    /\ pc[r] = "idle"
    /\ pc' = [pc EXCEPT ![r] = "connecting"]
    /\ tool' = [tool EXCEPT ![r] = t]
    /\ UNCHANGED <<broker, result, got, fate, out>>

Connected(r) ==
    /\ pc[r] = "connecting"
    /\ pc' = [pc EXCEPT ![r] = "working"]
    /\ UNCHANGED <<broker, tool, result, got, fate, out>>

(* What the agent is told, and where the run's connection is then.          *)
(* Mutant: the tool remembers the message of its last run.                  *)
EndsWithMessage(r, place, res) ==
    /\ pc' = [pc EXCEPT ![r] = place] /\ got' = got
    /\ out' = [tool |-> tool[r], result |-> res]
    /\ tool' = [tool EXCEPT ![r] = "none"]
    /\ result' = [result EXCEPT ![r] = "done"]
    /\ UNCHANGED <<published, settled>>

EndsWith(r, place, res) ==
    /\ pc' = [pc EXCEPT ![r] = place] /\ got' = [got EXCEPT ![r] = {}]
    /\ out' = [tool |-> tool[r], result |-> res]
    /\ tool' = [tool EXCEPT ![r] = "none"]
    /\ result' = [result EXCEPT ![r] = "done"]
    /\ UNCHANGED <<published, settled>>

(* __enter__ raises: the block is not entered, nor left, so a connection    *)
(* that was opened before its channel failed, or before the cancellation,   *)
(* is closed by nobody.  A certificate that cannot be read is translated by *)
(* the synchronous client only.                                             *)
ConnectFails(r) ==
    /\ pc[r] = "connecting"
    /\ \/ EndsWith(r, "idle", "INTERNAL_ERROR")
       \/ \E place \in {"idle", "abandoned"},
             res \in {"CONNECTION_ERROR", "cancelled"} : EndsWith(r, place, res)
    /\ UNCHANGED <<broker, taken, gone, seen>>

-----------------------------------------------------------------------------
(* The operations; each ends at the end of the with block *)

Working(r, t) == pc[r] = "working" /\ tool[r] = t

Comes(r, res) ==
    /\ pc' = [pc EXCEPT ![r] = "closing"]
    /\ result' = [result EXCEPT ![r] = res]
    /\ UNCHANGED <<tool, out>>

Usable(r) == queue \in {"shared", r}

(* The broker refuses, and the client names the error.                      *)
Refused(r, res) == Comes(r, res) /\ UNCHANGED <<broker, got, fate>>

(* What comes of a connection that is lost, or of a cancellation, before the*)
(* answer is there: the synchronous client lets pika's error through but in *)
(* the settling operations, the asynchronous one translates it.             *)
Translated(t) == IF t \in SettleTools \cup {"publish_message"}
                 THEN "MESSAGE_ERROR" ELSE "CHANNEL_ERROR"
NoAnswer(r) ==
    \/ Comes(r, Translated(tool[r])) \/ Comes(r, "cancelled")
    \/ tool[r] \notin SettleTools /\ Comes(r, "INTERNAL_ERROR")

Answered(r) == Comes(r, "done") \/ (Losses /\ NoAnswer(r))

(* The name or an argument is refused before anything is sent.              *)
InvalidArgument(r) ==
    /\ pc[r] = "working"
    /\ tool[r] \notin LocalTools \cup SettleTools \cup {"check_health"}
    /\ Refused(r, "VALIDATION_ERROR")

PlainTool(r) ==
    /\ pc[r] = "working" /\ tool[r] \in PlainTools
    /\ \E res \in {"done", "CHANNEL_ERROR"} : Refused(r, res)

LocalTool(r) ==
    /\ pc[r] = "working" /\ tool[r] \in LocalTools
    /\ Refused(r, "done")

(* The probe queue of check_health is another queue; what it raises becomes *)
(* a verdict.                                                               *)
CheckHealthTool(r) ==
    /\ Working(r, "check_health")
    /\ \E res \in {"OK", "DEGRADED"} : Refused(r, res)

DeclareQueueTool(r) ==
    /\ Working(r, "declare_queue")
    /\ \E kind \in {"shared", r} :
          IF queue \in {"none", kind}
          THEN /\ queue' = kind /\ Answered(r)
               /\ UNCHANGED <<ready, held, got, fate>>
          ELSE Refused(r, "CHANNEL_ERROR")

(* The messages go with the queue, also those delivered and unacknowledged. *)
QueueGone(dropped) ==
    /\ queue' = "none" /\ ready' = {} /\ held' = [r \in Runs |-> {}]
    /\ gone' = gone \cup dropped \cup ready \cup UNION {held[r] : r \in Runs}

DeleteQueueTool(r) ==
    /\ Working(r, "delete_queue")
    /\ \/ /\ Usable(r) \/ queue = "none"
          /\ QueueGone({}) /\ Answered(r)
          /\ UNCHANGED <<got, published, taken, seen, settled>>
       \/ Refused(r, "CHANNEL_ERROR")       \* if_empty, if_unused, locked

PurgeQueueTool(r) ==
    /\ Working(r, "purge_queue")
    /\ IF Usable(r)
       THEN /\ ready' = {} /\ gone' = gone \cup ready /\ Answered(r)
            /\ UNCHANGED <<queue, held, got, published, taken, seen, settled>>
       ELSE Refused(r, "CHANNEL_ERROR")

(* Publishing to the default exchange reaches an exclusive queue of another *)
(* connection too.  Without the queue the broker drops the message and      *)
(* confirms it all the same: the tools do not ask for it back (mandatory).  *)
(* The confirmation may be lost.  The broker may also refuse the message, or*)
(* have no such exchange, which the synchronous client does not translate.  *)
PublishMessageTool(r) ==
    /\ Working(r, "publish_message")
    /\ \/ \E m \in Messages \ published :
             /\ published' = published \cup {m} /\ Answered(r)
             /\ IF queue = "none"
                THEN gone' = gone \cup {m} /\ UNCHANGED ready
                ELSE ready' = ready \cup {m} /\ UNCHANGED gone
             /\ UNCHANGED <<queue, held, got, taken, seen, settled>>
       \/ \E res \in {"MESSAGE_ERROR", "INTERNAL_ERROR"} : Refused(r, res)

(* Mutant: no_ack is not passed to basic.get.                               *)
DeliveredUnacked(r, m, auto_ack) ==
    /\ m \in ready /\ ready' = ready \ {m}
    /\ held' = [held EXCEPT ![r] = {m}]
    /\ got' = [got EXCEPT ![r] = {m}]
    /\ Comes(r, IF auto_ack THEN "done" ELSE "message")
    /\ UNCHANGED <<queue, fate>>

(* basic.get: an automatically acknowledged message is the broker's no more *)
(* when it is sent.                                                         *)
Delivered(r, m, auto_ack) ==
    /\ m \in ready /\ ready' = ready \ {m}
    /\ held' = [held EXCEPT ![r] = IF auto_ack THEN {} ELSE {m}]
    /\ got' = [got EXCEPT ![r] = {m}]
    /\ Comes(r, IF auto_ack THEN "done" ELSE "message")
    /\ UNCHANGED <<queue, fate>>

DeliveryLost(r, m, auto_ack) ==
    /\ Losses /\ m \in ready /\ auto_ack
    /\ ready' = ready \ {m} /\ gone' = gone \cup {m}
    /\ NoAnswer(r)
    /\ UNCHANGED <<queue, held, got, published, taken, seen, settled>>

ConsumeMessageTool(r) ==
    /\ Working(r, "consume_message")
    /\ IF ~Usable(r) THEN Refused(r, "CHANNEL_ERROR")
       ELSE \/ ready = {} /\ Refused(r, "empty")
            \/ \E m \in ready, auto_ack \in BOOLEAN :
                  Delivered(r, m, auto_ack) \/ DeliveryLost(r, m, auto_ack)

(* Nothing was delivered on the channel of this run.  The synchronous client*)
(* sends the tag, which makes the broker close the channel, and does not    *)
(* wait for that; the asynchronous one has no such message pending.         *)
SettleTool(r) ==
    /\ pc[r] = "working" /\ tool[r] \in SettleTools
    /\ \/ Refused(r, "MESSAGE_ERROR")
       \/ \E m \in seen :
            /\ Comes(r, "done")
            /\ settled' = IF tool[r] = "ack_message" THEN settled \cup {m}
                          ELSE settled
            /\ UNCHANGED <<broker, got, published, taken, gone, seen>>

(* Any operation may find its connection lost before it reached the broker. *)
WorkFails(r) ==
    /\ Losses /\ pc[r] = "working"
    /\ tool[r] \notin LocalTools \cup {"check_health"}
    /\ NoAnswer(r)
    /\ UNCHANGED <<broker, got, fate>>

-----------------------------------------------------------------------------
(* __exit__ closes the client: the broker requeues what the connection      *)
(* holds, and an exclusive queue goes with it.  Then the text is made: a    *)
(* body is decoded after its message was acknowledged, and an encoding that *)
(* does not exist raises.                                                   *)

(* What a run has in its hands that is no longer the broker's.              *)
Owed(r) == IF result[r] = "done" THEN got[r] ELSE {}

(* Mutants: the client is not closed; what its connection held is lost.     *)
ReleasedNever(r, dropped) == UNCHANGED <<broker, gone>>
ReleasedAcked(r, dropped) ==
    /\ held' = [held EXCEPT ![r] = {}]
    /\ UNCHANGED <<queue, ready, gone>>

Released(r, dropped) ==
    IF queue = r THEN QueueGone(dropped)
    ELSE /\ ready' = ready \cup held[r] /\ held' = [held EXCEPT ![r] = {}]
         /\ gone' = gone \cup dropped
         /\ UNCHANGED queue

Shows(r) ==
    IF result[r] = "message"
    THEN seen' = seen \cup got[r] /\ taken' = taken
    ELSE taken' = taken \cup got[r] /\ seen' = seen

Returns(r) ==
    /\ pc[r] = "closing" /\ (got[r] # {} => "known" \in Codecs)
    /\ Released(r, {}) /\ Shows(r) /\ EndsWith(r, "idle", result[r])

(* Mutant: an unknown encoding yields no message.                           *)
UndecodableEmpty(r) ==
    /\ pc[r] = "closing" /\ got[r] # {} /\ "unknown" \in Codecs
    /\ Released(r, Owed(r))
    /\ UNCHANGED <<taken, seen>>
    /\ EndsWith(r, "idle", "empty")

Undecodable(r) ==
    /\ pc[r] = "closing" /\ got[r] # {} /\ "unknown" \in Codecs
    /\ Released(r, Owed(r))
    /\ UNCHANGED <<taken, seen>>
    /\ EndsWith(r, "idle", "INTERNAL_ERROR")

(* close() is cancelled.  At the channel's close the connection's is skipped*)
(* and nobody closes it, whether or not the broker requeued what the channel*)
(* held; at the connection's close it may have been closed or not.          *)
CloseCancelled(r) ==
    /\ pc[r] = "closing"
    /\ \/ Released(r, Owed(r)) /\ EndsWith(r, "idle", "cancelled")
       \/ /\ \/ UNCHANGED <<ready, held>>
             \/ ready' = ready \cup held[r] /\ held' = [held EXCEPT ![r] = {}]
          /\ gone' = gone \cup Owed(r) /\ UNCHANGED queue
          /\ EndsWith(r, "abandoned", "cancelled")
    /\ UNCHANGED <<taken, seen>>

(* A connection lost between the operation and the close.                   *)
LinkLost(r) ==
    /\ Losses /\ pc[r] = "closing"
    /\ Released(r, {})
    /\ UNCHANGED <<runs, published, taken, seen, settled, out>>

(* A connection that nobody closed ends when its object is collected, its   *)
(* process ends or its link is lost.                                        *)
Collected(r) ==
    /\ pc[r] = "abandoned" /\ pc' = [pc EXCEPT ![r] = "idle"]
    /\ Released(r, {})
    /\ UNCHANGED <<tool, result, got, published, taken, seen, settled, out>>

-----------------------------------------------------------------------------
Work(r) ==
    \/ InvalidArgument(r) \/ PlainTool(r) \/ LocalTool(r)
    \/ CheckHealthTool(r)
    \/ DeclareQueueTool(r) \/ DeleteQueueTool(r) \/ PurgeQueueTool(r)
    \/ PublishMessageTool(r) \/ ConsumeMessageTool(r) \/ SettleTool(r)
    \/ WorkFails(r)

Next ==
    \E r \in Runs :
        \/ \E t \in Tools : Begin(r, t)
        \/ Connected(r) \/ ConnectFails(r) \/ Work(r) \/ LinkLost(r)
        \/ Returns(r) \/ Undecodable(r) \/ CloseCancelled(r) \/ Collected(r)

Spec == Init /\ [][Next]_vars

-----------------------------------------------------------------------------
(* Properties *)

(* The variables have their types; a run has a message in its hands only    *)
(* between its basic.get and its text.                                      *)
TypeOK ==
    /\ queue \in {"none", "shared"} \cup Runs
    /\ ready \subseteq published /\ published \subseteq Messages
    /\ held \in [Runs -> SUBSET published]
    /\ pc \in [Runs -> {"idle", "connecting", "working", "closing", "abandoned"}]
    /\ tool \in [Runs -> AllTools \cup {"none"}]
    /\ result \in [Runs -> Results]
    /\ \A r \in Runs : got[r] # {} =>
          pc[r] = "closing" /\ \E m \in published : got[r] = {m}
    /\ taken \subseteq published /\ gone \subseteq published
    /\ seen \subseteq published /\ settled \subseteq seen
    /\ out \in [tool : AllTools \cup {"none"}, result : Results]

(* Every answer but "cancelled" comes after the run gave back the message it*)
(* held and its exclusive queue; and a connection outlives its run only when*)
(* the agent was told that connecting failed, or the run was cancelled.     *)
Ends(r) == pc[r] \in {"connecting", "closing"} /\ pc'[r] \in {"idle", "abandoned"}
RunsRelease ==
    [][\A r \in Runs : Ends(r) /\ out'.result # "cancelled" =>
          /\ held'[r] = {} /\ queue' # r
          /\ pc'[r] = "abandoned" => out'.result = "CONNECTION_ERROR"]_vars

(* A message that was delivered to be acknowledged later goes back to the   *)
(* queue, however the run that holds it ends, unless the queue is gone.     *)
HeldReturns ==
    [][\A r \in Runs : held[r] \subseteq held'[r] \cup ready'
                        \/ queue' = "none"]_vars

(* Concurrent runs are a mailbox: at every moment a message waits, was taken*)
(* by one run, or is gone; none comes back once it was taken.               *)
InFlight == UNION {Owed(r) : r \in Runs}
Waiting == ready \cup InFlight \cup UNION {held[r] : r \in Runs}
Box == INSTANCE Mailbox WITH waiting <- Waiting
MailboxSpec == Box!Spec

(* No message that reached the queue disappears behind an agent's back.  It *)
(* leaves the queue unseen only with the queue, by a purge, or in a         *)
(* consume_message that tells its agent of an error or was cancelled: never *)
(* one that says the queue is empty, and never when another run ends.       *)
Error(res) == res \notin {"done", "empty", "message", "OK", "DEGRADED"}
LossIsReported ==
    [][gone' \cap published # gone =>
         \/ queue # "none" /\ queue' = "none"
         \/ \E r \in Runs : pc[r] = "working" /\ tool[r] = "purge_queue"
         \/ \E r \in Runs : /\ Working(r, "consume_message")
                            /\ pc'[r] = "closing" /\ Error(result'[r])
         \/ \E r \in Runs : /\ pc[r] = "closing" /\ tool[r] = "consume_message"
                            /\ pc'[r] # "closing" /\ Error(out'.result)]_vars

(* "Acknowledged delivery_tag=1.": what an agent was told is acknowledged is*)
(* not delivered again.                                                     *)
AcknowledgedIsGone ==
    settled \cap (ready \cup UNION {held[r] : r \in Runs}) = {}

(* "each connection is already closed after every operation": a run that    *)
(* has ended holds no message back from others and keeps no exclusive queue.*)
EndedRunsAreClosed ==
    \A r \in Runs : pc[r] \in {"idle", "abandoned"} => held[r] = {} /\ queue # r

(* "Message published to queue 'orders' ... Broker acknowledged.": when the *)
(* operation succeeds the message is in the queue.                          *)
AcknowledgedIsQueued ==
    [][\A r \in Runs : Working(r, "publish_message") /\ result'[r] = "done" =>
          published' \ published \subseteq ready']_vars
=============================================================================
