---------------------------- MODULE MCAsyncClient -----------------------------
(* Instances of AsyncClient for TLC.                                        *)
EXTENDS AsyncClient, TLC

CONSTANTS a, b

One == {a}
Two == {a, b}
Interchangeable == Permutations(Tasks)
No == {FALSE}
Both == BOOLEAN

SettleOps == {"consume_message", "ack_message", "nack_message", "close"}
UseOps == {"declare_queue"}
CloseOps == {"declare_queue", "close"}
ConsumeOps == {"consume_message"}
AckOps == {"consume_message", "ack_message"}

(* All but what the actions and the properties of these runs do not look at *)
(* in a current state: the last result, and which receipt a caller meant.   *)
Essential == <<client, pika, unacked, pc, at, stranded, forgotten, twice>>
=============================================================================
