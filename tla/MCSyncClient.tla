----------------------------- MODULE MCSyncClient -----------------------------
(* Instances of SyncClient for TLC.                                         *)
EXTENDS SyncClient

(* One refusable operation suffices for the findings: all have one shape.   *)
FewOps == {"declare_queue", "publish_message", "ack_message", "check_health"}

(* A publish to an exchange that does not exist has its channel closed.     *)
PublishOps == {"publish_message"}
=============================================================================
