------------------------------ MODULE MCToolRuns ------------------------------
(* Instances of ToolRuns for TLC.                                           *)
EXTENDS ToolRuns, TLC

CONSTANTS r1, r2, m1, m2

OneRun == {r1}
TwoRuns == {r1, r2}
OneMessage == {m1}
TwoMessages == {m1, m2}
Known == {"known"}
AnyCodec == {"known", "unknown"}
Interchangeable == Permutations(Runs) \cup Permutations(Messages)

QueueTools == {"publish_message", "consume_message", "declare_queue",
               "delete_queue", "purge_queue"}
PublishTools == {"publish_message", "declare_queue"}
AckTools == {"publish_message", "consume_message", "ack_message"}

(* The text of the last run guards nothing.                                 *)
WithoutOut == <<broker, runs, fate>>
=============================================================================
