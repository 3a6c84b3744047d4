-------------------------------- MODULE Mailbox -------------------------------
(***************************************************************************)
(* What the message tools promise about one queue, without connections:     *)
(* a message waits until it is taken, lost by an automatic acknowledgement  *)
(* whose answer reached nobody, or discarded because somebody asked for it. *)
(* Looking at a message (auto_ack=False) leaves it waiting.                 *)
(***************************************************************************)
CONSTANT Messages

VARIABLES waiting, taken, gone, seen

vars == <<waiting, taken, gone, seen>>

Init == waiting = {} /\ taken = {} /\ gone = {} /\ seen = {}

Put(m) ==
    /\ m \notin waiting \cup taken \cup gone
    /\ waiting' = waiting \cup {m}
    /\ UNCHANGED <<taken, gone, seen>>

(* Nobody asked to be told that there is no queue for the message.          *)
Drop(m) ==
    /\ m \notin waiting \cup taken \cup gone
    /\ gone' = gone \cup {m}
    /\ UNCHANGED <<waiting, taken, seen>>

Take(m) ==
    /\ m \in waiting
    /\ waiting' = waiting \ {m} /\ taken' = taken \cup {m}
    /\ UNCHANGED <<gone, seen>>

(* Whoever looked at a message may show it after another took it.           *)
Peek(m) ==
    /\ m \in waiting \cup taken \cup gone
    /\ seen' = seen \cup {m}
    /\ UNCHANGED <<waiting, taken, gone>>

Discard(S) ==
    /\ S \subseteq waiting
    /\ waiting' = waiting \ S /\ gone' = gone \cup S
    /\ UNCHANGED <<taken, seen>>

Next ==
    \/ \E m \in Messages : Put(m) \/ Drop(m) \/ Take(m) \/ Peek(m)
    \/ \E S \in SUBSET waiting : Discard(S)

Spec == Init /\ [][Next]_vars
=============================================================================
