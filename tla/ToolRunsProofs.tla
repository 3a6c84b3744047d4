---------------------------- MODULE ToolRunsProofs ----------------------------
(***************************************************************************)
(* Proofs about ToolRuns for every number of concurrent runs, every set of  *)
(* messages and every set of tools: runs give back what their connections   *)
(* hold, and together they implement the abstract mailbox.                  *)
(***************************************************************************)
EXTENDS ToolRuns, TLAPS

(* A run has something in its hands, or owns the queue, only while it leaves*)
(* its with block, or when nobody closed its connection; the message it owes*)
(* an acknowledgement is the one it got.  Without a queue nothing is in it. *)
Hands ==
    /\ got \in [Runs -> SUBSET published]
    /\ \A r \in Runs :
          /\ pc[r] # "abandoned" =>
                /\ held[r] \subseteq got[r]
                /\ held[r] # {} => result[r] = "message"
          /\ got[r] # {} => result[r] \in {"done", "message"} /\ queue # r
          /\ queue = r => pc[r] \in {"closing", "abandoned"}
    /\ queue = "none" => ready = {} /\ \A r \in Runs : held[r] = {}

(* No message is in two places, and none is in no place.                    *)
OnePlace ==
    /\ \A r \in Runs : ready \cap (held[r] \cup Owed(r)) = {}
    /\ \A r, s \in Runs :
          r # s => (held[r] \cup Owed(r)) \cap (held[s] \cup Owed(s)) = {}
    /\ ready \cap (taken \cup gone) = {}
    /\ \A r \in Runs : (held[r] \cup Owed(r)) \cap (taken \cup gone) = {}
    /\ \A m \in published :
          \/ m \in ready \cup taken \cup gone
          \/ \E r \in Runs : m \in held[r] \cup Owed(r)

IInv == TypeOK /\ Hands /\ OnePlace

(* The initial states satisfy the inductive invariant.                      *)
LEMMA InitEstablishes == Init => IInv
BY ConstantsAssumption
   DEF Init, IInv, TypeOK, Hands, OnePlace, Owed, Results

(* A step that the broker refuses, or that ends without an effect on messages*)
(* or queue, keeps the invariant.                                           *)
LEMMA QuietSteps ==
    ASSUME IInv, NEW r \in Runs, pc[r] = "working",
           NEW res \in Results, Refused(r, res)
    PROVE  IInv'
BY ConstantsAssumption
   DEF IInv, TypeOK, Hands, OnePlace, Owed, Refused, Comes, broker, fate

(* Every other action keeps the invariant.                                  *)
LEMMA BeginKeeps ==
    ASSUME IInv, NEW r \in Runs, NEW t \in Tools, Begin(r, t)
    PROVE  IInv'
BY ConstantsAssumption
   DEF IInv, TypeOK, Hands, OnePlace, Owed, Results,
       Begin, broker, fate

LEMMA ConnectedKeeps ==
    ASSUME IInv, NEW r \in Runs, Connected(r)
    PROVE  IInv'
BY ConstantsAssumption
   DEF IInv, TypeOK, Hands, OnePlace, Owed, Results,
       Connected, broker, fate

LEMMA ConnectFailsKeeps ==
    ASSUME IInv, NEW r \in Runs, ConnectFails(r)
    PROVE  IInv'
<1>1. PICK place \in {"idle", "abandoned"}, res \in Results :
        EndsWith(r, place, res)
  BY DEF ConnectFails, Results
<1>2. got[r] = {} /\ held[r] = {} /\ queue # r /\ tool[r] \in AllTools \cup {"none"}
  BY DEF ConnectFails, IInv, TypeOK, Hands
<1>3. got' = got /\ \A q \in Runs : Owed(q)' = Owed(q)
  BY <1>1, <1>2 DEF EndsWith, Owed, IInv, TypeOK, Hands
<1>4. UNCHANGED <<queue, ready, held, taken, gone, seen, published, settled>>
  BY <1>1 DEF ConnectFails, EndsWith, broker
<1>5. TypeOK'
  BY <1>1, <1>2, <1>3, <1>4 DEF EndsWith, IInv, TypeOK, Results
<1>6. Hands'
  BY <1>1, <1>2, <1>3, <1>4 DEF EndsWith, IInv, TypeOK, Hands
<1>7. OnePlace'
  BY <1>3, <1>4 DEF IInv, OnePlace
<1> QED BY <1>5, <1>6, <1>7 DEF IInv

LEMMA DeclareQueueToolKeeps ==
    ASSUME IInv, NEW r \in Runs, DeclareQueueTool(r)
    PROVE  IInv'
BY ConstantsAssumption
   DEF IInv, TypeOK, Hands, OnePlace, Owed, Results,
       DeclareQueueTool, Working, Answered, NoAnswer, Translated, Comes,
       Refused, broker, fate

LEMMA DeleteQueueToolKeeps ==
    ASSUME IInv, NEW r \in Runs, DeleteQueueTool(r)
    PROVE  IInv'
BY ConstantsAssumption
   DEF IInv, TypeOK, Hands, OnePlace, Owed, Results,
       DeleteQueueTool, QueueGone, Working, Answered, NoAnswer, Translated,
       Comes, Refused, broker, fate

LEMMA PurgeQueueToolKeeps ==
    ASSUME IInv, NEW r \in Runs, PurgeQueueTool(r)
    PROVE  IInv'
BY ConstantsAssumption
   DEF IInv, TypeOK, Hands, OnePlace, Owed, Results,
       PurgeQueueTool, Working, Answered, NoAnswer, Translated, Comes,
       Refused, broker, fate

LEMMA PublishMessageToolKeeps ==
    ASSUME IInv, NEW r \in Runs, PublishMessageTool(r)
    PROVE  IInv'
BY ConstantsAssumption
   DEF IInv, TypeOK, Hands, OnePlace, Owed, Results,
       PublishMessageTool, Working, Answered, NoAnswer, Translated, Comes,
       Refused, broker, fate

LEMMA ConsumeMessageToolKeeps ==
    ASSUME IInv, NEW r \in Runs, ConsumeMessageTool(r)
    PROVE  IInv'
BY ConstantsAssumption
   DEF IInv, TypeOK, Hands, OnePlace, Owed, Results,
       ConsumeMessageTool, Delivered, DeliveryLost, Usable, Working, Answered,
       NoAnswer, Translated, Comes, Refused, broker, fate

LEMMA SettleToolKeeps ==
    ASSUME IInv, NEW r \in Runs, SettleTool(r)
    PROVE  IInv'
BY ConstantsAssumption
   DEF IInv, TypeOK, Hands, OnePlace, Owed, Results,
       SettleTool, Comes, Refused, broker, fate

LEMMA WorkFailsKeeps ==
    ASSUME IInv, NEW r \in Runs, WorkFails(r)
    PROVE  IInv'
BY ConstantsAssumption
   DEF IInv, TypeOK, Hands, OnePlace, Owed, Results,
       WorkFails, NoAnswer, Translated, Comes, broker, fate

LEMMA LinkLostKeeps ==
    ASSUME IInv, NEW r \in Runs, LinkLost(r)
    PROVE  IInv'
BY ConstantsAssumption
   DEF IInv, TypeOK, Hands, OnePlace, Owed, Results,
       LinkLost, Released, QueueGone, runs

LEMMA ReturnsKeeps ==
    ASSUME IInv, NEW r \in Runs, Returns(r)
    PROVE  IInv'
BY ConstantsAssumption
   DEF IInv, TypeOK, Hands, OnePlace, Owed, Results,
       Returns, Released, QueueGone, Shows, EndsWith

LEMMA UndecodableKeeps ==
    ASSUME IInv, NEW r \in Runs, Undecodable(r)
    PROVE  IInv'
BY ConstantsAssumption
   DEF IInv, TypeOK, Hands, OnePlace, Owed, Results,
       Undecodable, Released, QueueGone, EndsWith

LEMMA CloseCancelledKeeps ==
    ASSUME IInv, NEW r \in Runs, CloseCancelled(r)
    PROVE  IInv'
<1>1. CASE Released(r, Owed(r)) /\ EndsWith(r, "idle", "cancelled")
  BY <1>1, ConstantsAssumption
     DEF IInv, TypeOK, Hands, OnePlace, Owed, Results, CloseCancelled,
         Released, QueueGone, EndsWith
<1>2. CASE /\ UNCHANGED <<ready, held>>
           /\ gone' = gone \cup Owed(r) /\ UNCHANGED queue
           /\ EndsWith(r, "abandoned", "cancelled")
  BY <1>2, ConstantsAssumption
     DEF IInv, TypeOK, Hands, OnePlace, Owed, Results, CloseCancelled, EndsWith
<1>3. CASE /\ ready' = ready \cup held[r] /\ held' = [held EXCEPT ![r] = {}]
           /\ gone' = gone \cup Owed(r) /\ UNCHANGED queue
           /\ EndsWith(r, "abandoned", "cancelled")
  BY <1>3, ConstantsAssumption
     DEF IInv, TypeOK, Hands, OnePlace, Owed, Results, CloseCancelled, EndsWith
<1> QED BY <1>1, <1>2, <1>3 DEF CloseCancelled

LEMMA CollectedKeeps ==
    ASSUME IInv, NEW r \in Runs, Collected(r)
    PROVE  IInv'
BY ConstantsAssumption
   DEF IInv, TypeOK, Hands, OnePlace, Owed, Results,
       Collected, Released, QueueGone

(* What a run may do, in the words of Next.                                 *)
StepOf(r) ==
    \/ \E t \in Tools : Begin(r, t)
    \/ Connected(r) \/ ConnectFails(r) \/ Work(r) \/ LinkLost(r)
    \/ Returns(r) \/ Undecodable(r) \/ CloseCancelled(r) \/ Collected(r)

(* The invariant is inductive.                                              *)
LEMMA NextKeeps == IInv /\ [Next]_vars => IInv'
<1> SUFFICES ASSUME IInv, [Next]_vars PROVE IInv'
  OBVIOUS
<1>1. CASE UNCHANGED vars
  BY <1>1 DEF IInv, TypeOK, Hands, OnePlace, Owed, vars, broker, runs, fate
<1>2. CASE Next
  <2> PICK r \in Runs : StepOf(r)
    BY <1>2 DEF Next, StepOf
  <2>1. CASE \E t \in Tools : Begin(r, t)
    BY <2>1, BeginKeeps
  <2>2. CASE Connected(r) \/ ConnectFails(r) \/ LinkLost(r)
    BY <2>2, ConnectedKeeps, ConnectFailsKeeps, LinkLostKeeps
  <2>3. CASE Returns(r) \/ Undecodable(r) \/ CloseCancelled(r) \/ Collected(r)
    BY <2>3, ReturnsKeeps, UndecodableKeeps, CloseCancelledKeeps, CollectedKeeps
  <2>4. CASE Work(r)
    <3>1. CASE InvalidArgument(r) \/ PlainTool(r) \/ LocalTool(r)
               \/ CheckHealthTool(r)
      BY <3>1, QuietSteps
         DEF InvalidArgument, PlainTool, LocalTool, CheckHealthTool, Working,
             Results
    <3>2. CASE DeclareQueueTool(r) \/ DeleteQueueTool(r) \/ PurgeQueueTool(r)
      BY <3>2, DeclareQueueToolKeeps, DeleteQueueToolKeeps, PurgeQueueToolKeeps
    <3>3. CASE PublishMessageTool(r) \/ ConsumeMessageTool(r)
               \/ SettleTool(r) \/ WorkFails(r)
      BY <3>3, PublishMessageToolKeeps, ConsumeMessageToolKeeps,
         SettleToolKeeps, WorkFailsKeeps
    <3> QED BY <2>4, <3>1, <3>2, <3>3 DEF Work
  <2> QED BY <2>1, <2>2, <2>3, <2>4 DEF StepOf
<1> QED BY <1>1, <1>2

(* Every reachable state satisfies the inductive invariant.                 *)
THEOREM Invariant == Spec => []IInv
BY InitEstablishes, NextKeeps, PTL DEF Spec

(* The variables have their types, and only a run between its operation and *)
(* its text has a message in its hands, for every set of runs and messages. *)
THEOREM TypeCorrect == Spec => []TypeOK
<1>1. IInv => TypeOK
  BY DEF IInv
<1> QED BY <1>1, Invariant, PTL

(* An operation, and what happens to a connection, ends no run.             *)
LEMMA WorkEndsNone ==
    ASSUME IInv, NEW r \in Runs, Work(r), NEW q \in Runs
    PROVE  ~Ends(q)
<1>1. pc[r] = "working" /\ \E res : Comes(r, res)
  BY DEF Work, InvalidArgument, PlainTool, LocalTool, CheckHealthTool,
         DeclareQueueTool, DeleteQueueTool, PurgeQueueTool, PublishMessageTool,
         ConsumeMessageTool, Delivered, DeliveryLost, SettleTool, WorkFails,
         Working, Answered, NoAnswer, Refused
<1> QED BY <1>1 DEF IInv, TypeOK, Comes, Ends

(* A run that ends has released what its connection held, or was cancelled, *)
(* or could not connect.                                                    *)
LEMMA ReleaseStep ==
    ASSUME IInv, NEW r \in Runs, StepOf(r), NEW q \in Runs, Ends(q),
           out'.result # "cancelled"
    PROVE  /\ held'[q] = {} /\ queue' # q
           /\ pc'[q] = "abandoned" => out'.result = "CONNECTION_ERROR"
<1>1. ~Work(r)
  BY WorkEndsNone
<1>2. CASE \/ \E t \in Tools : Begin(r, t)
           \/ Connected(r) \/ LinkLost(r) \/ Collected(r)
  BY <1>2 DEF IInv, TypeOK, Ends, Begin, Connected, LinkLost, Collected, runs
<1>3. CASE ConnectFails(r)
  <2>1. q = r
    BY <1>3 DEF IInv, TypeOK, Ends, ConnectFails, EndsWith
  <2>2. held[r] = {} /\ queue # r
    BY <1>3 DEF IInv, TypeOK, Hands, ConnectFails
  <2> QED BY <1>3, <2>1, <2>2 DEF IInv, TypeOK, ConnectFails, EndsWith, broker
<1>4. CASE Returns(r) \/ Undecodable(r)
  <2>1. q = r /\ pc'[r] = "idle"
    BY <1>4 DEF IInv, TypeOK, Ends, Returns, Undecodable, EndsWith
  <2>2. \E S : Released(r, S)
    BY <1>4 DEF Returns, Undecodable
  <2>3. held'[r] = {} /\ queue' # r
    BY <2>2, ConstantsAssumption DEF IInv, TypeOK, Released, QueueGone
  <2> QED BY <2>1, <2>3
<1>5. CASE CloseCancelled(r)
  BY <1>5 DEF CloseCancelled, EndsWith
<1> QED BY <1>1, <1>2, <1>3, <1>4, <1>5 DEF StepOf

(* However many runs there are, an agent that is told anything but that the *)
(* run was cancelled is told it after message and exclusive queue were given*)
(* back; connections are left behind by cancellations and failed connects.  *)
THEOREM RunsGiveBack == Spec => RunsRelease
<1>1. ASSUME IInv, Next, NEW q \in Runs, Ends(q), out'.result # "cancelled"
      PROVE  /\ held'[q] = {} /\ queue' # q
             /\ pc'[q] = "abandoned" => out'.result = "CONNECTION_ERROR"
  <2>1. PICK r \in Runs : StepOf(r)
    BY <1>1 DEF Next, StepOf
  <2> QED BY <1>1, <2>1, ReleaseStep
<1>2. IInv /\ [Next]_vars =>
        [\A r \in Runs : Ends(r) /\ out'.result # "cancelled" =>
            /\ held'[r] = {} /\ queue' # r
            /\ pc'[r] = "abandoned" => out'.result = "CONNECTION_ERROR"]_vars
  BY <1>1
<1> QED BY <1>2, Invariant, PTL DEF Spec, RunsRelease

-----------------------------------------------------------------------------
(* Where a waiting message is, in this state and in the next.               *)
LEMMA WaitingIs ==
    ASSUME NEW x
    PROVE  x \in Waiting <=> \/ x \in ready
                             \/ \E r \in Runs : x \in held[r] \/ x \in Owed(r)
BY DEF Waiting, InFlight, Owed

LEMMA WaitingNextIs ==
    ASSUME NEW x
    PROVE  x \in Waiting' <=> \/ x \in ready'
       \/ \E r \in Runs : x \in held'[r] \/ x \in Owed(r)'
BY DEF Waiting, InFlight, Owed

(* No step loses a message that a run holds unacknowledged.                 *)
LEMMA HeldReturnsStep ==
    ASSUME IInv, NEW r \in Runs, StepOf(r), NEW q \in Runs
    PROVE  held[q] \subseteq held'[q] \cup ready' \/ queue' = "none"
<1>1. CASE \/ \E t \in Tools : Begin(r, t)
           \/ Connected(r) \/ ConnectFails(r)
  BY <1>1 DEF Begin, Connected, ConnectFails, broker
<1>2. CASE \/ LinkLost(r) \/ Returns(r) \/ Undecodable(r)
           \/ CloseCancelled(r) \/ Collected(r)
  BY <1>2 DEF IInv, TypeOK, LinkLost, Returns, Undecodable, CloseCancelled,
              Collected, Released, QueueGone
<1>3. CASE ConsumeMessageTool(r)
  <2>1. held[r] = {}
    BY <1>3 DEF IInv, TypeOK, Hands, ConsumeMessageTool, Working
  <2> QED BY <1>3, <2>1 DEF IInv, TypeOK, ConsumeMessageTool, Refused,
                            Delivered, DeliveryLost, broker
<1>4. CASE Work(r) /\ ~ConsumeMessageTool(r)
  BY <1>4 DEF Work, InvalidArgument, PlainTool, LocalTool, CheckHealthTool,
              DeclareQueueTool, DeleteQueueTool, PurgeQueueTool,
              PublishMessageTool, SettleTool, WorkFails, Refused, QueueGone,
              broker
<1> QED BY <1>1, <1>2, <1>3, <1>4 DEF StepOf

(* A message fetched to be acknowledged later returns to the queue however  *)
(* the run that holds it ends, for every number of runs.                    *)
THEOREM HeldGoBack == Spec => HeldReturns
<1>1. ASSUME IInv, Next, NEW q \in Runs
      PROVE  held[q] \subseteq held'[q] \cup ready' \/ queue' = "none"
  <2>1. PICK r \in Runs : StepOf(r)
    BY <1>1 DEF Next, StepOf
  <2> QED BY <1>1, <2>1, HeldReturnsStep
<1>2. IInv /\ [Next]_vars =>
        [\A r \in Runs : held[r] \subseteq held'[r] \cup ready'
                          \/ queue' = "none"]_vars
  BY <1>1
<1> QED BY <1>2, Invariant, PTL DEF Spec, HeldReturns

-----------------------------------------------------------------------------
(* What a step that discards messages of the queue looks like.              *)
Reported ==
    \/ queue # "none" /\ queue' = "none"
    \/ \E r \in Runs : pc[r] = "working" /\ tool[r] = "purge_queue"
    \/ \E r \in Runs : /\ Working(r, "consume_message")
                       /\ pc'[r] = "closing" /\ Error(result'[r])
    \/ \E r \in Runs : /\ pc[r] = "closing" /\ tool[r] = "consume_message"
                       /\ pc'[r] # "closing" /\ Error(out'.result)

(* Only consume_message puts a message into the hands of a run.             *)
Consumes == \A r \in Runs : got[r] # {} => tool[r] = "consume_message"

LEMMA ConsumesStep ==
    ASSUME IInv, Consumes, NEW r \in Runs, StepOf(r)
    PROVE  Consumes'
<1>1. CASE \/ \E t \in Tools : Begin(r, t)
           \/ Connected(r) \/ ConnectFails(r)
  BY <1>1 DEF IInv, TypeOK, Hands, Consumes, Begin, Connected, ConnectFails,
              EndsWith
<1>2. CASE \/ LinkLost(r) \/ Returns(r) \/ Undecodable(r)
           \/ CloseCancelled(r) \/ Collected(r)
  BY <1>2 DEF IInv, TypeOK, Hands, Consumes, LinkLost, Returns, Undecodable,
              CloseCancelled, Collected, EndsWith, runs
<1>3. CASE ConsumeMessageTool(r)
  <2>1. UNCHANGED tool
    BY <1>3 DEF ConsumeMessageTool, Refused, Delivered, DeliveryLost, NoAnswer,
                Comes
  <2>2. \A q \in Runs : q # r => got'[q] = got[q]
    BY <1>3 DEF ConsumeMessageTool, Refused, Delivered, DeliveryLost, IInv, Hands
  <2> QED BY <1>3, <2>1, <2>2 DEF Consumes, ConsumeMessageTool, Working
<1>4. CASE Work(r) /\ ~ConsumeMessageTool(r)
  BY <1>4 DEF Consumes, Work, InvalidArgument, PlainTool, LocalTool,
              CheckHealthTool, DeclareQueueTool, DeleteQueueTool,
              PurgeQueueTool, PublishMessageTool, SettleTool, WorkFails,
              Refused, Answered, NoAnswer, Comes
<1> QED BY <1>1, <1>2, <1>3, <1>4 DEF StepOf

LEMMA ReportedStep ==
    ASSUME IInv, Consumes, NEW r \in Runs, StepOf(r),
           gone' \cap published # gone
    PROVE  Reported
<1>1. CASE \/ \E t \in Tools : Begin(r, t)
           \/ Connected(r) \/ ConnectFails(r)
  BY <1>1 DEF Begin, Connected, ConnectFails, fate, IInv, TypeOK
<1>2. CASE LinkLost(r) \/ Returns(r) \/ Collected(r)
  <2>1. Released(r, {})
    BY <1>2 DEF LinkLost, Returns, Collected
  <2>2. queue = r /\ queue' = "none"
    BY <2>1 DEF Released, QueueGone, IInv, TypeOK
  <2> QED BY <2>2, ConstantsAssumption DEF Reported
<1>3. CASE Undecodable(r) \/ CloseCancelled(r)
  <2>1. CASE got[r] = {}
    <3>1. queue = r /\ queue' = "none"
      BY <1>3, <2>1 DEF Undecodable, CloseCancelled, Released, QueueGone, Owed,
                        IInv, TypeOK
    <3> QED BY <3>1, ConstantsAssumption DEF Reported
  <2>2. CASE got[r] # {}
    <3>1. pc[r] = "closing" /\ tool[r] = "consume_message"
      BY <1>3, <2>2 DEF Undecodable, CloseCancelled, Consumes
    <3>2. pc'[r] # "closing" /\ Error(out'.result)
      BY <1>3 DEF Undecodable, CloseCancelled, EndsWith, Error, IInv, TypeOK
    <3> QED BY <3>1, <3>2 DEF Reported
  <2> QED BY <2>1, <2>2
<1>4. CASE ConsumeMessageTool(r)
  <2>1. PICK m \in ready, auto_ack \in BOOLEAN : DeliveryLost(r, m, auto_ack)
    BY <1>4 DEF ConsumeMessageTool, Refused, Delivered, fate, IInv, TypeOK
  <2>2. tool[r] = "consume_message" /\ Working(r, "consume_message")
    BY <1>4 DEF ConsumeMessageTool, Working
  <2>3. pc'[r] = "closing" /\ Error(result'[r])
    BY <2>1, <2>2 DEF DeliveryLost, NoAnswer, Comes, Translated, Error,
                      SettleTools, IInv, TypeOK
  <2> QED BY <2>2, <2>3 DEF Reported
<1>5. CASE DeleteQueueTool(r)
  BY <1>5 DEF Reported, DeleteQueueTool, Refused, QueueGone, fate, IInv, TypeOK,
              Hands
<1>6. CASE PurgeQueueTool(r)
  BY <1>6 DEF Reported, PurgeQueueTool, Working
<1>7. CASE PublishMessageTool(r)
  BY <1>7 DEF PublishMessageTool, Refused, fate, IInv, TypeOK
<1>8. CASE \/ InvalidArgument(r) \/ PlainTool(r) \/ LocalTool(r)
           \/ CheckHealthTool(r) \/ DeclareQueueTool(r) \/ SettleTool(r)
           \/ WorkFails(r)
  BY <1>8 DEF InvalidArgument, PlainTool, LocalTool, CheckHealthTool,
              DeclareQueueTool, SettleTool, WorkFails, Refused, fate, IInv, TypeOK
<1> QED BY <1>1, <1>2, <1>3, <1>4, <1>5, <1>6, <1>7, <1>8 DEF StepOf, Work

(* A message leaves the queue unseen only with the queue, by a purge, or in *)
(* a consume_message that was cancelled or whose agent is told of an error. *)
THEOREM LossReported == Spec => LossIsReported
<1>1. Init => Consumes
  BY DEF Init, Consumes
<1>2. IInv /\ Consumes /\ [Next]_vars => Consumes'
  <2>1. ASSUME IInv, Consumes, Next PROVE Consumes'
    <3>1. PICK r \in Runs : StepOf(r)
      BY <2>1 DEF Next, StepOf
    <3> QED BY <2>1, <3>1, ConsumesStep
  <2> QED BY <2>1 DEF Consumes, vars, runs
<1>3. IInv /\ Consumes /\ [Next]_vars => [gone' \cap published # gone => Reported]_vars
  <2>1. ASSUME IInv, Consumes, Next, gone' \cap published # gone
        PROVE  Reported
    <3>1. PICK r \in Runs : StepOf(r)
      BY <2>1 DEF Next, StepOf
    <3> QED BY <2>1, <3>1, ReportedStep
  <2> QED BY <2>1
<1>4. Spec => [][gone' \cap published # gone => Reported]_vars
  BY <1>1, <1>2, <1>3, Invariant, PTL DEF Spec
<1> QED BY <1>4 DEF LossIsReported, Reported

-----------------------------------------------------------------------------
(* The refinement.                                                          *)
BoxStep == Box!Next \/ UNCHANGED Box!vars

(* The initial states are initial states of the mailbox.                    *)
LEMMA BoxInit == Init => Box!Init
BY ConstantsAssumption DEF Init, Box!Init, Waiting, InFlight, Owed

(* A step that touches nothing the mailbox is made of is a stutter.         *)
LEMMA QuietMaps ==
    ASSUME UNCHANGED <<ready, held, result, got, taken, gone, seen>>
    PROVE  UNCHANGED Box!vars
BY DEF Box!vars, Waiting, InFlight, Owed

(* Moves among the places where a message waits are stutters.               *)
LEMMA SameWaiting ==
    ASSUME \A x : x \in Waiting' <=> x \in Waiting,
           UNCHANGED <<taken, gone, seen>>
    PROVE  BoxStep
BY DEF BoxStep, Box!vars

(* What a step must show to be a step of the mailbox: one message leaves it *)
(* for an agent, a set of them is discarded, one is looked at, one arrives. *)
LEMMA BoxTakes ==
    ASSUME NEW m \in Messages, m \in Waiting,
           \A x : x \in Waiting' <=> x \in Waiting /\ x # m,
           taken' = taken \cup {m}, UNCHANGED <<gone, seen>>
    PROVE  BoxStep
<1>1. Waiting' = Waiting \ {m}
  OBVIOUS
<1> QED BY <1>1 DEF BoxStep, Box!Next, Box!Take

LEMMA BoxDrops ==
    ASSUME NEW m \in Messages, m \notin Waiting \cup taken \cup gone,
           \A x : x \in Waiting' <=> x \in Waiting,
           gone' = gone \cup {m}, UNCHANGED <<taken, seen>>
    PROVE  BoxStep
<1>1. Waiting' = Waiting
  OBVIOUS
<1> QED BY <1>1 DEF BoxStep, Box!Next, Box!Drop

LEMMA BoxDiscards ==
    ASSUME NEW S, S \subseteq Waiting,
           \A x : x \in Waiting' <=> x \in Waiting /\ x \notin S,
           gone' = gone \cup S, UNCHANGED <<taken, seen>>
    PROVE  BoxStep
<1>1. Waiting' = Waiting \ S /\ S \in SUBSET Waiting
  OBVIOUS
<1> QED BY <1>1 DEF BoxStep, Box!Next, Box!Discard

LEMMA BoxPeeks ==
    ASSUME NEW m \in Messages, m \in Waiting \cup taken \cup gone,
           \A x : x \in Waiting' <=> x \in Waiting,
           seen' = seen \cup {m}, UNCHANGED <<taken, gone>>
    PROVE  BoxStep
<1>1. Waiting' = Waiting
  OBVIOUS
<1> QED BY <1>1 DEF BoxStep, Box!Next, Box!Peek

LEMMA BoxPuts ==
    ASSUME NEW m \in Messages, m \notin Waiting \cup taken \cup gone,
           \A x : x \in Waiting' <=> x \in Waiting \/ x = m,
           UNCHANGED <<taken, gone, seen>>
    PROVE  BoxStep
<1>1. Waiting' = Waiting \cup {m}
  OBVIOUS
<1> QED BY <1>1 DEF BoxStep, Box!Next, Box!Put

(* An operation that gets no message changes nobody's hands.                *)
LEMMA HandsUntouched ==
    ASSUME IInv, NEW r \in Runs, got[r] = {}, UNCHANGED got,
           Answered(r) \/ \E res : Comes(r, res)
    PROVE  \A q \in Runs : Owed(q)' = Owed(q)
<1>1. \A q \in Runs : q # r => result'[q] = result[q]
  BY DEF IInv, TypeOK, Answered, NoAnswer, Comes
<1> QED BY <1>1 DEF Owed

(* Each action is a step or a stutter of the mailbox.                       *)
LEMMA PublishMaps ==
    ASSUME IInv, NEW r \in Runs, PublishMessageTool(r)
    PROVE  BoxStep
<1> pc[r] = "working" /\ got[r] = {}
  BY DEF IInv, TypeOK, Hands, PublishMessageTool, Working
<1>1. ASSUME NEW res, Refused(r, res) PROVE BoxStep
  BY <1>1, HandsUntouched, SameWaiting, WaitingIs, WaitingNextIs
     DEF Refused, broker, fate
<1>2. ASSUME NEW m \in Messages \ published,
             published' = published \cup {m}, Answered(r),
             IF queue = "none" THEN gone' = gone \cup {m} /\ UNCHANGED ready
                               ELSE ready' = ready \cup {m} /\ UNCHANGED gone,
             UNCHANGED <<queue, held, got, taken, seen, settled>>
      PROVE BoxStep
  <2>1. \A q \in Runs : Owed(q)' = Owed(q)
    BY <1>2, HandsUntouched
  <2>2. m \notin Waiting \cup taken \cup gone
    BY <1>2, WaitingIs DEF IInv, TypeOK, Hands, Owed
  <2>3. CASE queue = "none"
    BY <1>2, <2>1, <2>2, <2>3, BoxDrops, WaitingIs, WaitingNextIs
  <2>4. CASE queue # "none"
    BY <1>2, <2>1, <2>2, <2>4, BoxPuts, WaitingIs, WaitingNextIs
  <2> QED BY <2>3, <2>4
<1> QED BY <1>1, <1>2 DEF PublishMessageTool

LEMMA PurgeMaps ==
    ASSUME IInv, NEW r \in Runs, PurgeQueueTool(r)
    PROVE  BoxStep
<1>1. got[r] = {}
  BY DEF IInv, TypeOK, Hands, PurgeQueueTool, Working
<1>2. \A q \in Runs : Owed(q)' = Owed(q)
  BY <1>1, HandsUntouched DEF PurgeQueueTool, Refused
<1>3. CASE Refused(r, "CHANNEL_ERROR")
  BY <1>2, <1>3, SameWaiting, WaitingIs, WaitingNextIs
     DEF Refused, broker, fate
<1>4. CASE /\ ready' = {} /\ gone' = gone \cup ready /\ Answered(r)
            /\ UNCHANGED <<queue, held, got, published, taken, seen, settled>>
  <2>1. \A x \in ready : \A q \in Runs : x \notin held[q] \cup Owed(q)
    BY DEF IInv, OnePlace
  <2> QED BY <1>2, <1>4, <2>1, BoxDiscards, WaitingIs, WaitingNextIs
<1> QED BY <1>3, <1>4 DEF PurgeQueueTool

(* A queue that goes discards what is ready and what is held, not what was  *)
(* acknowledged when it was sent.                                           *)
LEMMA GoneMaps ==
    ASSUME IInv, QueueGone({}), UNCHANGED <<taken, seen>>,
           \A q \in Runs : Owed(q)' = Owed(q)
    PROVE  BoxStep
<1> DEFINE S == ready \cup UNION {held[q] : q \in Runs}
<1>1. S \subseteq Waiting
  BY WaitingIs
<1>2. \A x \in S : \A q \in Runs : x \notin Owed(q)
  BY DEF IInv, TypeOK, OnePlace, Hands, Owed
<1>3. \A x : x \in Waiting' <=> x \in Waiting /\ x \notin S
  BY <1>2, WaitingIs, WaitingNextIs DEF QueueGone
<1> QED BY <1>1, <1>3, BoxDiscards DEF QueueGone

LEMMA DeclareMaps ==
    ASSUME IInv, NEW r \in Runs, DeclareQueueTool(r)
    PROVE  BoxStep
<1>1. got[r] = {}
  BY DEF IInv, TypeOK, DeclareQueueTool, Working
<1>2. UNCHANGED <<ready, held, got, fate>>
  BY DEF DeclareQueueTool, Refused, broker
<1>3. \A q \in Runs : Owed(q)' = Owed(q)
  BY <1>1, <1>2, HandsUntouched DEF DeclareQueueTool, Refused
<1> QED BY <1>2, <1>3, SameWaiting, WaitingIs, WaitingNextIs DEF fate

LEMMA DeleteMaps ==
    ASSUME IInv, NEW r \in Runs, DeleteQueueTool(r)
    PROVE  BoxStep
<1>1. got[r] = {}
  BY DEF IInv, TypeOK, DeleteQueueTool, Working
<1>2. \A q \in Runs : Owed(q)' = Owed(q)
  BY <1>1, HandsUntouched DEF DeleteQueueTool, Refused
<1>3. CASE Refused(r, "CHANNEL_ERROR")
  BY <1>2, <1>3, SameWaiting, WaitingIs, WaitingNextIs
     DEF Refused, broker, fate
<1> QED BY <1>2, <1>3, GoneMaps DEF DeleteQueueTool

LEMMA ConsumeMaps ==
    ASSUME IInv, NEW r \in Runs, ConsumeMessageTool(r)
    PROVE  BoxStep
<1>1. got[r] = {} /\ held[r] = {}
  BY DEF IInv, TypeOK, Hands, ConsumeMessageTool, Working
<1>2. ASSUME NEW res, Refused(r, res) PROVE BoxStep
  BY <1>1, <1>2, HandsUntouched, SameWaiting, WaitingIs, WaitingNextIs
     DEF Refused, broker, fate
<1>3. ASSUME NEW m \in ready, NEW auto_ack \in BOOLEAN,
             Delivered(r, m, auto_ack)
      PROVE  BoxStep
  <2>1. UNCHANGED <<taken, gone, seen>>
    BY <1>3 DEF Delivered, fate
  <2>2. /\ ready' = ready \ {m}
        /\ held'[r] \cup Owed(r)' = {m} /\ held[r] \cup Owed(r) = {}
    BY <1>1, <1>3 DEF Delivered, Comes, Owed, IInv, TypeOK, Hands
  <2>3. \A q \in Runs : q # r => held'[q] = held[q] /\ Owed(q)' = Owed(q)
    BY <1>3 DEF Delivered, Comes, Owed, IInv, TypeOK, Hands
  <2> QED BY <2>1, <2>2, <2>3, SameWaiting, WaitingIs, WaitingNextIs
<1>4. ASSUME NEW m \in ready, NEW auto_ack \in BOOLEAN,
             DeliveryLost(r, m, auto_ack)
      PROVE  BoxStep
  <2>1. \A q \in Runs : Owed(q)' = Owed(q)
    BY <1>1, <1>4, HandsUntouched DEF DeliveryLost, Answered
  <2>2. \A q \in Runs : m \notin held[q] \cup Owed(q)
    BY DEF IInv, OnePlace
  <2> DEFINE S == {m}
  <2>3. S \subseteq Waiting
    BY WaitingIs
  <2>4. \A x : x \in Waiting' <=> x \in Waiting /\ x \notin S
    BY <1>4, <2>1, <2>2, WaitingIs, WaitingNextIs DEF DeliveryLost
  <2>5. gone' = gone \cup S /\ UNCHANGED <<taken, seen>>
    BY <1>4 DEF DeliveryLost
  <2> HIDE DEF S
  <2> QED BY <2>3, <2>4, <2>5, BoxDiscards
<1> QED BY <1>2, <1>3, <1>4 DEF ConsumeMessageTool

(* A connection that ends without touching what anybody has in his hands.   *)
LEMMA ReleasedMaps ==
    ASSUME IInv, NEW r \in Runs, Released(r, {}), UNCHANGED <<taken, seen>>,
           \A q \in Runs : Owed(q)' = Owed(q)
    PROVE  BoxStep
<1>1. CASE queue = r
  BY <1>1, GoneMaps DEF Released
<1>2. CASE queue # r
  <2>1. /\ ready' = ready \cup held[r] /\ UNCHANGED gone
        /\ held'[r] = {} /\ \A q \in Runs : q # r => held'[q] = held[q]
    BY <1>2 DEF Released, IInv, TypeOK
  <2> QED BY <2>1, SameWaiting, WaitingIs, WaitingNextIs
<1> QED BY <1>1, <1>2

(* A run that ends without showing what it has in its hands.                *)
LEMMA UnshownMaps ==
    ASSUME IInv, NEW r \in Runs, UNCHANGED <<taken, seen>>,
           \/ UNCHANGED <<ready, held>>
           \/ ready' = ready \cup held[r] /\ held' = [held EXCEPT ![r] = {}],
           gone' = gone \cup Owed(r), Owed(r)' = {},
           \A q \in Runs : q # r => Owed(q)' = Owed(q)
    PROVE  BoxStep
<1> DEFINE S == Owed(r)
<1>1. S \subseteq Waiting
  BY WaitingIs
<1>2. \A x \in S : /\ x \notin ready
       /\ \A q \in Runs : q # r => x \notin held[q] \cup Owed(q)
  BY DEF IInv, OnePlace
<1>3. \A x \in S : x \notin held[r]
  BY DEF IInv, TypeOK, Hands, Owed
<1>4. /\ \A q \in Runs : q # r => held'[q] = held[q]
      /\ \A x : x \in ready' \cup held'[r] <=> x \in ready \cup held[r]
  BY DEF IInv, TypeOK
<1>5. \A x : x \in Waiting' <=> x \in Waiting /\ x \notin S
  BY <1>2, <1>3, <1>4, WaitingIs, WaitingNextIs
<1> QED BY <1>1, <1>5, BoxDiscards

LEMMA EndsMaps ==
    ASSUME IInv, NEW r \in Runs, NEW place, NEW res, EndsWith(r, place, res)
    PROVE  Owed(r)' = {} /\ \A q \in Runs : q # r => Owed(q)' = Owed(q)
BY DEF EndsWith, Owed, IInv, TypeOK, Hands

LEMMA UndecodableMaps ==
    ASSUME IInv, NEW r \in Runs, Undecodable(r)
    PROVE  BoxStep
<1>1. queue # r
  BY DEF IInv, Hands, Undecodable
<1> QED BY <1>1, EndsMaps, UnshownMaps DEF Undecodable, Released

LEMMA CloseCancelledMaps ==
    ASSUME IInv, NEW r \in Runs, CloseCancelled(r)
    PROVE  BoxStep
<1>1. Owed(r)' = {} /\ \A q \in Runs : q # r => Owed(q)' = Owed(q)
  BY EndsMaps DEF CloseCancelled
<1>2. CASE Released(r, Owed(r)) /\ queue = r
  <2>1. Owed(r) = {}
    BY <1>2 DEF IInv, Hands, Owed
  <2> QED BY <1>1, <1>2, <2>1, ReleasedMaps DEF CloseCancelled
<1>3. CASE ~(Released(r, Owed(r)) /\ queue = r)
  BY <1>1, <1>3, UnshownMaps DEF CloseCancelled, Released
<1> QED BY <1>2, <1>3

LEMMA ReturnsMaps ==
    ASSUME IInv, NEW r \in Runs, Returns(r)
    PROVE  BoxStep
<1>1. Owed(r)' = {} /\ \A q \in Runs : q # r => Owed(q)' = Owed(q)
  BY EndsMaps DEF Returns
<1>2. CASE got[r] = {}
  <2>1. \A q \in Runs : Owed(q)' = Owed(q)
    BY <1>1, <1>2 DEF Owed
  <2> QED BY <1>2, <2>1, ReleasedMaps DEF Returns, Shows
<1>3. CASE got[r] # {}
  <2>1. PICK m \in published : got[r] = {m}
    BY <1>3 DEF IInv, TypeOK
  <2>2. m \in Messages /\ queue # r /\ pc[r] = "closing"
    BY <1>3 DEF IInv, TypeOK, Hands, Returns
  <2>3. /\ ready' = ready \cup held[r] /\ UNCHANGED gone
        /\ held'[r] = {} /\ \A q \in Runs : q # r => held'[q] = held[q]
    BY <2>2 DEF Returns, Released, IInv, TypeOK
  <2>4. CASE result[r] = "message"
    <3>1. Owed(r) = {} /\ seen' = seen \cup {m} /\ UNCHANGED taken
      BY <2>1, <2>4 DEF Returns, Shows, Owed
    <3>2. m \in Waiting \cup taken \cup gone
      BY WaitingIs DEF IInv, OnePlace
    <3>3. \A x : x \in Waiting' <=> x \in Waiting
      BY <1>1, <2>3, <3>1, WaitingIs, WaitingNextIs
    <3> QED BY <2>2, <2>3, <3>1, <3>2, <3>3, BoxPeeks
  <2>5. CASE result[r] # "message"
    <3>1. result[r] = "done" /\ Owed(r) = {m} /\ held[r] = {}
      BY <1>3, <2>1, <2>2, <2>5 DEF Owed, IInv, Hands
    <3>2. taken' = taken \cup {m} /\ UNCHANGED seen
      BY <2>1, <2>5 DEF Returns, Shows
    <3>3. m \notin ready
      BY <3>1 DEF IInv, OnePlace
    <3>4. \A q \in Runs : q # r => m \notin held[q] \cup Owed(q)
      BY <3>1 DEF IInv, OnePlace
    <3>5. \A x : x \in Waiting' <=> x \in Waiting /\ x # m
      BY <1>1, <2>3, <3>1, <3>3, <3>4, WaitingIs, WaitingNextIs
    <3>6. m \in Waiting
      BY <3>1, WaitingIs
    <3> QED BY <2>2, <2>3, <3>2, <3>5, <3>6, BoxTakes
  <2> QED BY <2>4, <2>5
<1> QED BY <1>2, <1>3

LEMMA LinkLostMaps ==
    ASSUME IInv, NEW r \in Runs, LinkLost(r) \/ Collected(r)
    PROVE  BoxStep
<1>1. \A q \in Runs : Owed(q)' = Owed(q)
  BY DEF LinkLost, Collected, runs, Owed
<1> QED BY <1>1, ReleasedMaps DEF LinkLost, Collected

(* All that leaves messages where they are.                                 *)
LEMMA OtherMaps ==
    ASSUME IInv, NEW r \in Runs, pc[r] # "closing",
           UNCHANGED <<ready, held, got, taken, gone, seen>>,
           UNCHANGED result \/ \E res : Comes(r, res)
    PROVE  BoxStep
<1>1. got[r] = {}
  BY DEF IInv, TypeOK
<1>2. \A q \in Runs : Owed(q)' = Owed(q)
  BY <1>1, HandsUntouched DEF Owed
<1> QED BY <1>2, SameWaiting, WaitingIs, WaitingNextIs

LEMMA ConnectFailsMaps ==
    ASSUME IInv, NEW r \in Runs, ConnectFails(r)
    PROVE  BoxStep
<1>1. Owed(r) = {} /\ \A q \in Runs : Owed(q)' = Owed(q)
  BY EndsMaps DEF ConnectFails, IInv, TypeOK, Owed
<1> QED BY <1>1, SameWaiting, WaitingIs, WaitingNextIs DEF ConnectFails, broker

(* Every step is one of the mailbox or a stutter.                           *)
LEMMA NextMaps == IInv /\ [Next]_vars => [Box!Next]_(Box!vars)
<1> SUFFICES ASSUME IInv, [Next]_vars PROVE BoxStep
  BY DEF BoxStep
<1>1. CASE UNCHANGED vars
  BY <1>1, QuietMaps DEF vars, broker, runs, fate, BoxStep
<1>2. CASE Next
  <2> PICK r \in Runs : StepOf(r)
    BY <1>2 DEF Next, StepOf
  <2>1. CASE (\E t \in Tools : Begin(r, t)) \/ Connected(r)
    BY <2>1, OtherMaps DEF Begin, Connected, broker, fate
  <2>2. CASE ConnectFails(r)
    BY <2>2, ConnectFailsMaps
  <2>3. CASE \/ LinkLost(r) \/ Returns(r) \/ Undecodable(r)
             \/ CloseCancelled(r) \/ Collected(r)
    BY <2>3, LinkLostMaps, ReturnsMaps, UndecodableMaps, CloseCancelledMaps
  <2>4. CASE Work(r)
    <3>1. CASE InvalidArgument(r) \/ PlainTool(r) \/ LocalTool(r)
               \/ CheckHealthTool(r)
      BY <3>1, OtherMaps
         DEF InvalidArgument, PlainTool, LocalTool, CheckHealthTool, Working,
             Refused, broker, fate
    <3>2. CASE DeclareQueueTool(r) \/ DeleteQueueTool(r) \/ PurgeQueueTool(r)
      BY <3>2, DeclareMaps, DeleteMaps, PurgeMaps
    <3>3. CASE PublishMessageTool(r) \/ ConsumeMessageTool(r)
      BY <3>3, PublishMaps, ConsumeMaps
    <3>4. CASE SettleTool(r)
      BY <3>4, OtherMaps DEF SettleTool, Refused, broker, fate
    <3>5. CASE WorkFails(r)
      BY <3>5, OtherMaps DEF WorkFails, NoAnswer, broker, fate
    <3> QED BY <2>4, <3>1, <3>2, <3>3, <3>4, <3>5 DEF Work
  <2> QED BY <2>1, <2>2, <2>3, <2>4 DEF StepOf
<1> QED BY <1>1, <1>2

(* Concurrent runs of the tools on one queue are a mailbox: each message    *)
(* waits, is taken by one run, or is gone, and none comes back.             *)
THEOREM ImplementsMailbox == Spec => MailboxSpec
BY Invariant, BoxInit, NextMaps, PTL DEF Spec, MailboxSpec, Box!Spec
=============================================================================
