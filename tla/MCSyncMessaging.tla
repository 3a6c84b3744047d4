---------------------------- MODULE MCSyncMessaging ---------------------------
(* Instances of SyncMessaging for TLC.                                      *)
EXTENDS SyncMessaging

(* Every operation that moves messages, and those on their queue.           *)
QueueOps == {"declare_queue", "get_queue_info", "delete_queue",
             "purge_queue", "bind_queue", "publish_message",
             "consume_message", "ack_message", "nack_message",
             "reject_message"}

AckOps == {"publish_message", "consume_message", "ack_message"}

(* How the last operation ended decides nothing that follows.               *)
WithoutOut == <<client, pika, net, pc, cur, broker, caller>>
=============================================================================
