---------------------------- MODULE AdminToolsProofs --------------------------
(***************************************************************************)
(* Proofs that the management clients close what they open, that both AMQP  *)
(* clients dial what the settings say, and that lists show what agents      *)
(* declared, for every set of tasks, settings, names and requests.          *)
(***************************************************************************)
EXTENDS AdminTools, SettingsProofs, FiniteSetTheorems

(* The part of the type invariant that the steps need.                      *)
Types ==
    /\ made \in Nat /\ open \subseteq 1..made
    /\ client \in [Objects -> 0..made]
    /\ pc \in [Tasks -> {"idle", "requesting", "closing"}]
    /\ DOMAIN at = Tasks
    /\ \A t \in Tasks : at[t].obj \in {"shared", t} /\ at[t].seen \in 0..made

(* A task has an open httpx client of its own only while its request is     *)
(* under way, and the object that a task closes refers to nothing open but  *)
(* what was made after it called close().                                   *)
OwnIsInUse ==
    \A t \in Tasks :
        client[t] \in open => pc[t] = "requesting" /\ at[t].obj = t
ClosesWhatItSaw ==
    \A t \in Tasks :
        pc[t] = "closing" /\ client[at[t].obj] \in open
        => at[t].seen < client[at[t].obj]

IInv == Types /\ OwnIsInUse /\ ClosesWhatItSaw

(* The steps of ManagementClient that the tools are made of.                *)
MStep(t) ==
    \/ \E o \in {"shared", t} : \E path : Get(t, o, path)
    \/ Answered(t) \/ Fails(t) \/ Undecodable(t) \/ Closed(t)
    \/ Close(t) \/ Cancelled(t)

StateVars == <<client, made, open, pc, at>>

(* What a task does is a step of ManagementClient.                          *)
LEMMA ToolsAreSteps ==
    ASSUME NEW t \in Tasks,
           \/ t \in Agents /\ ManagementTool(t)
           \/ SharedRequest(t) \/ Answer(t) \/ OtherStep(t)
    PROVE MStep(t)
<1>1. CASE t \in Agents /\ ManagementTool(t)
  <2>1. \E path : Get(t, t, path)
    BY <1>1 DEF ManagementTool, ListQueuesTool, ListExchangesTool,
                ListBindingsTool, GetNodeStatsTool, Asks
  <2> QED
    BY <2>1 DEF MStep
<1>2. CASE SharedRequest(t)
  <2>1. \E path : Get(t, "shared", path)
    BY <1>2 DEF SharedRequest, Asks
  <2> QED
    BY <2>1 DEF MStep
<1>3. CASE Answer(t) \/ OtherStep(t)
  BY <1>3 DEF Answer, OtherStep, MStep
<1> QED
  BY <1>1, <1>2, <1>3

(* The steps of the exchange tools.                                         *)
ExchangeMove ==
    \/ NoConnection
    \/ \E c \in {"sync", "async"} :
          \/ InvalidExchange(c)
          \/ \E t \in Agents : DeclareExchangeTool(t, c) \/ DeleteExchangeTool(t, c)
    \/ \E t \in Agents : ExchangeStep(t)

(* They only say something.                                                 *)
LEMMA MovesSay ==
    ASSUME ExchangeMove
    PROVE /\ listing' = NoListing /\ out' = "none"
          /\ UNCHANGED <<api_url, api, client, made, open, pc, at, settings>>
<1>1. \E text : Says(text)
  <2>1. CASE NoConnection \/ \E c \in {"sync", "async"} : InvalidExchange(c)
    BY <2>1 DEF NoConnection, InvalidExchange, Tells
  <2>2. CASE \E t \in Agents, c \in {"sync", "async"} :
               DeclareExchangeTool(t, c) \/ DeleteExchangeTool(t, c)
    BY <2>2 DEF DeclareExchangeTool, DeleteExchangeTool, ExchangeTool
  <2>3. CASE \E t \in Agents : ExchangeStep(t)
    BY <2>3 DEF ExchangeStep, BrokerTakes, BrokerRefuses, Succeeds, IsRefused,
                GetsNoAnswer, Tells
  <2> QED
    BY <2>1, <2>2, <2>3 DEF ExchangeMove
<1> QED
  BY <1>1 DEF Says

(* What the other steps of tasks do beside their step of ManagementClient.  *)
Task(t) ==
    \/ t \in Agents /\ ManagementTool(t)
    \/ SharedRequest(t) \/ Answer(t) \/ OtherStep(t)

LEMMA TasksLeave ==
    ASSUME NEW t \in Tasks, Task(t)
    PROVE /\ UNCHANGED <<settings, exchanges, doing, known>>
          /\ told' = Nothing /\ (Answer(t) \/ listing' = NoListing)
PROOF BY DEF Task, ManagementTool, ListQueuesTool, ListExchangesTool,
             ListBindingsTool, GetNodeStatsTool, SharedRequest, Asks, Quietly,
             Answer, OtherStep

LEMMA Steps ==
    ASSUME ANext
    PROVE ExchangeMove \/ (\E t \in Tasks : Task(t)) \/ ApiStep
PROOF BY DEF ANext, ExchangeMove, Task

(* Every step is one of ManagementClient or leaves what it keeps unchanged. *)
LEMMA StepsOfTools ==
    ASSUME ANext
    PROVE (\E t \in Tasks : MStep(t)) \/ UNCHANGED StateVars
<1>1. CASE ExchangeMove
  BY <1>1, MovesSay DEF StateVars
<1>2. CASE ApiStep
  BY <1>2 DEF ApiStep, ApiChanges, StateVars
<1> QED
  BY <1>1, <1>2, ToolsAreSteps, Steps DEF Task

-----------------------------------------------------------------------------
(* What a step does to the httpx clients: a request makes one if its object *)
(* has none that is open; leaving a method keeps them; leaving a tool, or   *)
(* calling close(), closes the one of an object.                            *)

LEMMA EnsuredClient ==
    ASSUME Types, NEW o \in Objects, EnsureClient(o)
    PROVE /\ made' \in Nat /\ made <= made' /\ open' \subseteq 1..made'
          /\ client' \in [Objects -> 0..made']
          /\ client'[o] \in open'
          /\ \A p \in Objects \ {o} : client'[p] = client[p]
          /\ open' \cap 1..made = open
          /\ client'[o] # client[o] => /\ client[o] \notin open'
                                      /\ client'[o] > made
<1>1. CASE NeedsClient(o)
  <2>1. /\ made \in Nat /\ made' = made + 1 /\ open' = open \cup {made'}
        /\ client' = [client EXCEPT ![o] = made'] /\ open \subseteq 1..made
        /\ client \in [Objects -> 0..made]
    BY <1>1 DEF Types, EnsureClient
  <2>2. made' \in Nat /\ made <= made' /\ made' \in 1..made'
        /\ 0..made \subseteq 0..made' /\ 1..made \subseteq 1..made'
    BY <2>1
  <2>3. client' \in [Objects -> 0..made'] /\ client'[o] = made'
        /\ \A p \in Objects \ {o} : client'[p] = client[p]
    BY <2>1, <2>2
  <2>4. open' \cap 1..made = open
    <3>1. made' \notin 1..made
      BY <2>1
    <3> QED
      BY <2>1, <3>1, Zenon
  <2>5. client[o] \notin open'
    <3>1. client[o] \in 0..made /\ client[o] # made' /\ 0 \notin open
      BY <2>1
    <3> QED
      BY <1>1, <2>1, <3>1 DEF NeedsClient, None
  <2> QED
    BY <2>1, <2>2, <2>3, <2>4, <2>5
<1>2. CASE ~NeedsClient(o)
  <2>1. UNCHANGED <<client, made, open>>
    BY <1>2 DEF EnsureClient
  <2>2. open' \cap 1..made = open
    BY <2>1 DEF Types
  <2>3. client'[o] \in open' /\ client' = client /\ made' = made
    BY <1>2, <2>1 DEF NeedsClient
  <2> QED
    BY <2>1, <2>2, <2>3 DEF Types
<1> QED
  BY <1>1, <1>2

LEMMA ClosingClient ==
    ASSUME Types, NEW t \in Tasks, NEW o \in {"shared", t}, NEW res,
           StartClosing(t, o, res)
    PROVE /\ client' = client /\ made' = made
          /\ open' \subseteq open /\ client[o] \notin open'
          /\ pc' = [pc EXCEPT ![t] = "closing"]
          /\ DOMAIN at' = Tasks
          /\ \A u \in Tasks \ {t} : at'[u] = at[u]
          /\ at'[t].obj = o /\ at'[t].seen = made
PROOF BY DEF Types, StartClosing, Goto, NoLocals

LEMMA Returned ==
    ASSUME Types, NEW t \in Tasks, NEW res, Return(t, res)
    PROVE /\ pc' = [pc EXCEPT ![t] = "idle"]
          /\ DOMAIN at' = Tasks
          /\ \A u \in Tasks \ {t} : at'[u] = at[u]
          /\ at'[t].obj = "shared" /\ at'[t].seen = 0
PROOF BY DEF Types, Return, NoLocals

-----------------------------------------------------------------------------
(* Each action keeps the invariant.                                         *)

LEMMA GetKeeps ==
    ASSUME IInv, NEW t \in Tasks, NEW o \in {"shared", t}, NEW path,
           Get(t, o, path)
    PROVE IInv'
<1>1. CASE api_url
  <2>1. o \in Objects /\ EnsureClient(o)
    BY <1>1 DEF Get, Objects
  <2>2. /\ pc' = [pc EXCEPT ![t] = "requesting"] /\ DOMAIN at' = Tasks
        /\ \A u \in Tasks \ {t} : at'[u] = at[u]
        /\ at'[t].obj = o /\ at'[t].seen = 0
    <3>1. Goto(t, "requesting", [NoLocals EXCEPT !.obj = o, !.path = path,
                                                 !.http = client'[o]])
      BY <1>1 DEF Get
    <3> QED
      BY <3>1 DEF Goto, NoLocals, IInv, Types
  <2>3. Types'
    BY <2>1, <2>2, EnsuredClient DEF IInv, Types
  <2>4. OwnIsInUse'
    <3> SUFFICES ASSUME NEW u \in Tasks, client'[u] \in open'
                 PROVE pc'[u] = "requesting" /\ at'[u].obj = u
      BY DEF OwnIsInUse
    <3>1. CASE u = o
      BY <3>1, <2>2, ConstantsAssumption DEF IInv, Types
    <3>2. CASE u # o
      <4>1. client'[u] = client[u] /\ client[u] \in open
        BY <3>2, <2>1, EnsuredClient DEF IInv, Types, Objects
      <4>2. u # t
        BY <4>1 DEF Get, IInv, OwnIsInUse
      <4> QED
        BY <4>1, <4>2, <2>2 DEF IInv, OwnIsInUse, Types
    <3> QED
      BY <3>1, <3>2
  <2>5. ClosesWhatItSaw'
    <3> SUFFICES ASSUME NEW u \in Tasks, pc'[u] = "closing",
                        client'[at'[u].obj] \in open'
                 PROVE at'[u].seen < client'[at'[u].obj]
      BY DEF ClosesWhatItSaw
    <3>1. u # t /\ pc[u] = "closing" /\ at'[u] = at[u]
          /\ at[u].obj \in Objects
      BY <2>2 DEF IInv, Types, Objects
    <3>2. CASE client'[at[u].obj] = client[at[u].obj]
      <4>1. open' \cap 1..made = open /\ open' \subseteq 1..made' /\ made' \in Nat
        BY <2>1, EnsuredClient DEF IInv
      <4>2. client[at[u].obj] \in open' /\ client[at[u].obj] \in 0..made
        BY <3>1, <3>2 DEF IInv, Types
      <4>3. client[at[u].obj] \in open
        BY <4>1, <4>2
      <4> QED
        BY <3>1, <3>2, <4>3 DEF IInv, ClosesWhatItSaw
    <3>3. CASE client'[at[u].obj] # client[at[u].obj]
      <4>1. at[u].obj = o
        BY <3>1, <3>3, <2>1, EnsuredClient DEF IInv
      <4>2. client'[at[u].obj] > made /\ client'[at[u].obj] \in Nat
        BY <3>1, <3>3, <2>1, <4>1, EnsuredClient DEF IInv
      <4>3. at[u].seen \in 0..made /\ made \in Nat
        BY DEF IInv, Types
      <4> QED
        BY <3>1, <4>2, <4>3
    <3> QED
      BY <3>2, <3>3
  <2> QED
    BY <2>3, <2>4, <2>5 DEF IInv
<1>2. CASE ~api_url
  <2>1. \E res : Return(t, res)
    BY <1>2 DEF Get
  <2>2. UNCHANGED <<client, made, open>> /\ pc[t] = "idle"
    BY <1>2 DEF Get
  <2> QED
    BY <2>1, <2>2, Returned
    DEF IInv, Types, OwnIsInUse, ClosesWhatItSaw, Objects
<1> QED
  BY <1>1, <1>2

LEMMA StartClosingKeeps ==
    ASSUME IInv, NEW t \in Tasks, NEW o \in {"shared", t}, NEW res,
           pc[t] = "requesting" => o = at[t].obj,
           StartClosing(t, o, res)
    PROVE IInv'
<1>1. Types'
  <2>1. \A u \in Tasks : at'[u].obj \in {"shared", u} /\ at'[u].seen \in 0..made
    BY ClosingClient DEF IInv, Types
  <2> QED
    BY <2>1, ClosingClient DEF IInv, Types
<1>2. OwnIsInUse'
  BY ClosingClient DEF IInv, Types, OwnIsInUse
<1>3. ClosesWhatItSaw'
  BY ClosingClient DEF IInv, Types, ClosesWhatItSaw
<1> QED
  BY <1>1, <1>2, <1>3 DEF IInv

(* A task that returns has no open client of its own.                       *)
LEMMA ReturnKeeps ==
    ASSUME IInv, NEW t \in Tasks, NEW res, Return(t, res),
           UNCHANGED <<made, open>>,
           client' \in [Objects -> 0..made],
           \A o \in Objects : client'[o] \in {client[o], None},
           client[t] \notin open
    PROVE IInv'
<1>1. Types'
  BY Returned DEF IInv, Types
<1>2. None \notin open
  BY DEF None, IInv, Types
<1>3. OwnIsInUse'
  BY <1>2, Returned DEF IInv, Types, OwnIsInUse, Objects
<1>4. ClosesWhatItSaw'
  BY <1>2, Returned DEF IInv, Types, ClosesWhatItSaw, Objects
<1> QED
  BY <1>1, <1>3, <1>4 DEF IInv

LEMMA EndsKeeps ==
    ASSUME IInv, NEW t \in Tasks, NEW res, pc[t] = "requesting", Ends(t, res)
    PROVE IInv'
<1>1. CASE at[t].obj = "shared"
  <2>1. client[t] \notin open
    BY <1>1, ConstantsAssumption DEF IInv, OwnIsInUse
  <2> QED
    BY <1>1, <2>1, ReturnKeeps DEF Ends, IInv, Types
<1>2. CASE at[t].obj # "shared"
  BY <1>2, StartClosingKeeps DEF Ends, IInv, Types
<1> QED
  BY <1>1, <1>2

LEMMA CloseKeeps ==
    ASSUME IInv, NEW t \in Tasks, Close(t)
    PROVE IInv'
<1>1. pc[t] = "idle" /\ client[t] \notin open
  BY DEF Close, IInv, OwnIsInUse
<1>2. CASE NeedsClient("shared")
  <2>1. /\ Return(t, "returned") /\ UNCHANGED <<made, open>>
        /\ client' = [client EXCEPT !["shared"] = None]
    BY <1>2 DEF Close
  <2>2. /\ client' \in [Objects -> 0..made]
        /\ \A o \in Objects : client'[o] \in {client[o], None}
    BY <2>1 DEF IInv, Types, None, Objects
  <2> QED
    BY <1>1, <2>1, <2>2, ReturnKeeps
<1>3. CASE ~NeedsClient("shared")
  BY <1>1, <1>3, StartClosingKeeps DEF Close
<1> QED
  BY <1>2, <1>3

LEMMA ClosedKeeps ==
    ASSUME IInv, NEW t \in Tasks, Closed(t)
    PROVE IInv'
<1>1. pc[t] = "closing" /\ client[t] \notin open
  BY DEF Closed, IInv, OwnIsInUse
<1> QED
  BY <1>1, ReturnKeeps DEF Closed, IInv, Types, None, Objects

LEMMA CancelledKeeps ==
    ASSUME IInv, NEW t \in Tasks, Cancelled(t)
    PROVE IInv'
<1>1. CASE pc[t] = "requesting"
  BY <1>1, EndsKeeps DEF Cancelled
<1>2. CASE pc[t] = "closing"
  <2>1. client[t] \notin open
    BY <1>2 DEF IInv, OwnIsInUse
  <2> QED
    BY <1>2, <2>1, ReturnKeeps DEF Cancelled, IInv, Types, None, Objects
<1> QED
  BY <1>1, <1>2 DEF Cancelled

LEMMA StepKeeps ==
    ASSUME IInv, NEW t \in Tasks, MStep(t)
    PROVE IInv'
<1>1. CASE Answered(t) \/ Fails(t) \/ Undecodable(t)
  BY <1>1, EndsKeeps DEF Answered, Fails, Undecodable
<1> QED
  BY <1>1, GetKeeps, CloseKeeps, ClosedKeeps, CancelledKeeps DEF MStep

(* The invariant holds in every reachable state.                            *)
LEMMA Inductive == ASpec => []IInv
<1>1. AInit => IInv
  BY ConstantsAssumption
  DEF AInit, Init, IInv, Types, OwnIsInUse, ClosesWhatItSaw, NoLocals, None,
      Objects
<1>2. IInv /\ [ANext]_avars => IInv'
  <2> SUFFICES ASSUME IInv, [ANext]_avars PROVE IInv'
    OBVIOUS
  <2>1. CASE UNCHANGED StateVars
    BY <2>1 DEF StateVars, IInv, Types, OwnIsInUse, ClosesWhatItSaw
  <2>2. CASE \E t \in Tasks : MStep(t)
    BY <2>2, StepKeeps
  <2> QED
    BY <2>1, <2>2, StepsOfTools DEF avars, vars, StateVars
<1> QED
  BY <1>1, <1>2, PTL DEF ASpec

-----------------------------------------------------------------------------
(* Results                                                                  *)

(* A tool run that has ended left no httpx client open.                     *)
THEOREM RunsClose == ASpec => []RunsCloseTheirs
<1>1. IInv => RunsCloseTheirs
  BY DEF IInv, OwnIsInUse, RunsCloseTheirs
<1> QED
  BY <1>1, Inductive, PTL

(* Only a close() that another task overlapped forgets an open client.      *)
THEOREM OverlapForgets == ASpec => OnlyOverlapForgets
<1> DEFINE Forgets(o) == client[o] \in open' /\ client'[o] # client[o]
           Late(o) == \E t \in Tasks : /\ pc[t] = "closing" /\ pc'[t] = "idle"
                                       /\ at[t].seen < client[o]
<1>1. ASSUME IInv, NEW t \in Tasks, MStep(t), NEW o \in Objects, Forgets(o)
      PROVE Late(o)
  <2>1. CASE \E p \in {"shared", t} : \E path : Get(t, p, path)
    <3>1. PICK p \in {"shared", t} :
             EnsureClient(p) \/ UNCHANGED client
      BY <2>1 DEF Get
    <3> QED
      BY <1>1, <3>1, EnsuredClient DEF IInv, Objects
  <2>2. ASSUME NEW res, Ends(t, res)
        PROVE UNCHANGED client
    BY <2>2 DEF Ends, StartClosing
  <2>3. CASE Close(t)
    <3>1. CASE NeedsClient("shared")
      BY <1>1, <2>3, <3>1
      DEF Close, NeedsClient, IInv, Types, None, Objects
    <3>2. CASE ~NeedsClient("shared")
      BY <1>1, <2>3, <3>2 DEF Close, StartClosing
    <3> QED
      BY <3>1, <3>2
  <2>4. CASE Closed(t)
    <3>1. o = at[t].obj /\ open' = open /\ pc[t] = "closing"
      BY <1>1, <2>4 DEF Closed, IInv, Types
    <3>2. pc'[t] = "idle"
      BY <1>1, <2>4 DEF Closed, Return, IInv, Types
    <3> QED
      BY <1>1, <3>1, <3>2 DEF IInv, ClosesWhatItSaw
  <2>5. CASE Cancelled(t)
    <3>1. CASE pc[t] = "requesting"
      BY <1>1, <2>2, <2>5, <3>1 DEF Cancelled
    <3>2. CASE pc[t] = "closing"
      BY <1>1, <2>5, <3>2 DEF Cancelled, IInv, OwnIsInUse, Types
    <3> QED
      BY <2>5, <3>1, <3>2 DEF Cancelled
  <2> QED
    BY <1>1, <2>1, <2>2, <2>3, <2>4, <2>5
    DEF MStep, Answered, Fails, Undecodable
<1>2. ASSUME IInv, [ANext]_avars
      PROVE [\A o \in Objects : Forgets(o) => Late(o)]_vars
  <2>1. CASE UNCHANGED StateVars
    BY <2>1 DEF StateVars
  <2>2. CASE \E t \in Tasks : MStep(t)
    BY <1>2, <2>2, <1>1
  <2> QED
    BY <1>2, <2>1, <2>2, StepsOfTools DEF avars, vars, StateVars
<1> QED
  BY <1>2, Inductive, PTL DEF ASpec, OnlyOverlapForgets

(* A request begins on an open httpx client.                                *)
THEOREM RequestsOpen == ASpec => RequestsBeginOpen
<1> DEFINE Good(t) == pc[t] = "idle" /\ pc'[t] = "requesting"
                      => at'[t].http \in open'
<1>1. ASSUME IInv, NEW t \in Tasks, MStep(t), NEW u \in Tasks
      PROVE Good(u)
  <2>1. ASSUME NEW o \in {"shared", t}, NEW path, Get(t, o, path), ~Good(u)
        PROVE FALSE
    <3>1. CASE api_url
      <4>1. EnsureClient(o) /\ o \in Objects
        BY <2>1, <3>1 DEF Get, Objects
      <4>2. at' = [at EXCEPT ![t] = [NoLocals EXCEPT !.obj = o, !.path = path,
                                       !.http = client'[o]]]
            /\ pc' = [pc EXCEPT ![t] = "requesting"]
        BY <2>1, <3>1 DEF Get, Goto
      <4> QED
        BY <1>1, <2>1, <4>1, <4>2, EnsuredClient DEF IInv, Types, NoLocals
    <3>2. CASE ~api_url
      BY <1>1, <2>1, <3>2 DEF Get, Return, IInv, Types
    <3> QED
      BY <3>1, <3>2
  <2>2. CASE pc' \in {[pc EXCEPT ![t] = "idle"], [pc EXCEPT ![t] = "closing"]}
    BY <1>1, <2>2 DEF IInv, Types
  <2>3. ASSUME NEW res, Ends(t, res)
        PROVE pc' \in {[pc EXCEPT ![t] = "idle"], [pc EXCEPT ![t] = "closing"]}
    BY <2>3 DEF Ends, StartClosing, Return, Goto
  <2>4. Close(t) \/ Closed(t) \/ Cancelled(t) =>
          pc' \in {[pc EXCEPT ![t] = "idle"], [pc EXCEPT ![t] = "closing"]}
    BY <2>3 DEF Close, Closed, Cancelled, StartClosing, Return, Goto
  <2> QED
    BY <1>1, <2>1, <2>2, <2>3, <2>4 DEF MStep, Answered, Fails, Undecodable
<1>2. ASSUME IInv, [ANext]_avars
      PROVE [\A t \in Tasks : Good(t)]_vars
  <2>1. CASE UNCHANGED StateVars
    BY <2>1 DEF StateVars
  <2>2. CASE \E t \in Tasks : MStep(t)
    BY <1>2, <2>2, <1>1
  <2> QED
    BY <1>2, <2>1, <2>2, StepsOfTools DEF avars, vars, StateVars
<1> QED
  BY <1>2, Inductive, PTL DEF ASpec, RequestsBeginOpen

-----------------------------------------------------------------------------
(* The type invariant *)

(* What Types leaves out.                                                   *)
Locals ==
    /\ api_url \in BOOLEAN /\ api \in {"up", "silent"}
    /\ made <= MaxHttp /\ out \in Outcomes \cup {"none"}
    /\ \A t \in Tasks :
          /\ at[t].http \in 0..made /\ at[t].res \in Outcomes
          /\ pc[t] = "requesting" => at[t].http # None

(* A task goes on with locals that are typed.                               *)
LEMMA LocalsKept ==
    ASSUME Types, Locals, NEW t \in Tasks, NEW label, NEW locals,
           pc' = [pc EXCEPT ![t] = label], at' = [at EXCEPT ![t] = locals],
           made' \in Nat, made <= made', made' <= MaxHttp,
           UNCHANGED <<api_url, api>>, out' \in Outcomes \cup {"none"},
           locals.http \in 0..made', locals.res \in Outcomes,
           label = "requesting" => locals.http # None
    PROVE Locals'
<1>1. ASSUME NEW u \in Tasks
      PROVE /\ at'[u].http \in 0..made' /\ at'[u].res \in Outcomes
            /\ pc'[u] = "requesting" => at'[u].http # None
  BY <1>1 DEF Types, Locals
<1> QED
  BY <1>1 DEF Locals

LEMMA EnsuredBound ==
    ASSUME Types, Locals, NEW o, EnsureClient(o)
    PROVE made' <= MaxHttp
<1>1. MaxHttp \in Nat /\ made \in Nat /\ made <= MaxHttp
  BY ConstantsAssumption DEF Types, Locals
<1>2. (made < MaxHttp /\ made' = made + 1) \/ made' = made
  BY DEF EnsureClient
<1> QED
  BY <1>1, <1>2

LEMMA ReturnLocals ==
    ASSUME Types, Locals, NEW t \in Tasks, NEW res \in Outcomes, Return(t, res),
           made' = made, UNCHANGED <<api_url, api>>
    PROVE Locals'
<1>1. /\ NoLocals.http \in 0..made' /\ NoLocals.res \in Outcomes
      /\ made' \in Nat /\ made <= made' /\ made' <= MaxHttp
  BY DEF NoLocals, None, Outcomes, Types, Locals
<1>2. /\ pc' = [pc EXCEPT ![t] = "idle"] /\ at' = [at EXCEPT ![t] = NoLocals]
      /\ out' \in Outcomes \cup {"none"}
  BY DEF Return
<1> QED
  BY <1>1, <1>2, LocalsKept

LEMMA ClosingLocals ==
    ASSUME Types, Locals, NEW t \in Tasks, NEW o, NEW res \in Outcomes,
           StartClosing(t, o, res), UNCHANGED <<api_url, api>>
    PROVE Locals'
<1> DEFINE locals == [NoLocals EXCEPT !.obj = o, !.seen = made, !.res = res]
<1>1. /\ locals.http \in 0..made' /\ locals.res \in Outcomes
      /\ made' \in Nat /\ made <= made' /\ made' <= MaxHttp
  BY DEF StartClosing, NoLocals, None, Types, Locals
<1>2. /\ pc' = [pc EXCEPT ![t] = "closing"] /\ at' = [at EXCEPT ![t] = locals]
      /\ out' \in Outcomes \cup {"none"}
  BY DEF StartClosing, Goto
<1> HIDE DEF locals
<1> QED
  BY <1>1, <1>2, LocalsKept

LEMMA GetLocals ==
    ASSUME Types, Locals, NEW t \in Tasks, NEW o \in {"shared", t}, NEW path,
           Get(t, o, path)
    PROVE Locals'
<1>1. CASE api_url
  <2> DEFINE locals == [NoLocals EXCEPT !.obj = o, !.path = path,
                                        !.http = client'[o]]
  <2>1. EnsureClient(o) /\ o \in Objects /\ UNCHANGED <<api_url, api>>
    BY <1>1 DEF Get, Objects
  <2>2. /\ made' \in Nat /\ made <= made' /\ made' <= MaxHttp
        /\ client'[o] \in 1..made'
    BY <2>1, EnsuredClient, EnsuredBound
  <2>3. /\ locals.http \in 0..made' /\ locals.res \in Outcomes
        /\ locals.http # None
    BY <2>2 DEF NoLocals, None, Outcomes
  <2>4. /\ pc' = [pc EXCEPT ![t] = "requesting"] /\ at' = [at EXCEPT ![t] = locals]
        /\ out' \in Outcomes \cup {"none"}
    BY <1>1 DEF Get, Goto
  <2> HIDE DEF locals
  <2> QED
    BY <2>1, <2>2, <2>3, <2>4, LocalsKept
<1>2. CASE ~api_url
  BY <1>2, ReturnLocals DEF Get, Outcomes
<1> QED
  BY <1>1, <1>2

LEMMA StepLocals ==
    ASSUME Types, Locals, NEW t \in Tasks, MStep(t)
    PROVE Locals'
<1>1. ASSUME NEW res \in Outcomes, Ends(t, res), UNCHANGED <<api_url, api>>
      PROVE Locals'
  BY <1>1, ReturnLocals, ClosingLocals DEF Ends
<1>2. /\ {"returned", "RabbitMQAdminError", "ValueError", "CancelledError"}
            \subseteq Outcomes
      /\ at[t].res \in Outcomes
  BY DEF Outcomes, Locals
<1>3. CASE Answered(t) \/ Fails(t) \/ Undecodable(t)
  BY <1>1, <1>2, <1>3 DEF Answered, Fails, Undecodable
<1>4. CASE Closed(t)
  BY <1>2, <1>4, ReturnLocals DEF Closed
<1>5. CASE Close(t)
  BY <1>2, <1>5, ReturnLocals, ClosingLocals DEF Close
<1>6. CASE Cancelled(t)
  BY <1>1, <1>2, <1>6, ReturnLocals DEF Cancelled
<1> QED
  BY <1>3, <1>4, <1>5, <1>6, GetLocals DEF MStep

(* The variables have their types, and a task that waits for an answer waits*)
(* on an httpx client that was made, for every set of tasks and every bound.*)
THEOREM TypeCorrect == ASpec => []TypeOK
<1>1. AInit => Locals
  <2> SUFFICES ASSUME AInit PROVE Locals
    OBVIOUS
  <2>1. Init
    BY DEF AInit
  <2> QED
    BY <2>1, ConstantsAssumption DEF Init, Locals, NoLocals, None, Outcomes
<1>2. IInv /\ Locals /\ [ANext]_avars => Locals'
  <2> SUFFICES ASSUME IInv, Locals, [ANext]_avars PROVE Locals'
    OBVIOUS
  <2>1. Types
    BY DEF IInv
  <2>2. CASE \E t \in Tasks : MStep(t)
    BY <2>1, <2>2, StepLocals
  <2>3. ASSUME UNCHANGED <<made, pc, at, api_url>>, api' \in {"up", "silent"},
               out' \in Outcomes \cup {"none"}
        PROVE Locals'
    BY <2>3 DEF Locals
  <2>4. CASE UNCHANGED avars
    BY <2>3, <2>4 DEF avars, vars, Locals
  <2>5. CASE ExchangeMove
    BY <2>3, <2>5, MovesSay DEF Locals
  <2>6. CASE ApiStep
    BY <2>3, <2>6 DEF ApiStep, ApiChanges, Locals
  <2> QED
    BY <2>2, <2>4, <2>5, <2>6, ToolsAreSteps, Steps DEF Task
<1>3. IInv /\ Locals => TypeOK
  BY DEF IInv, Types, Locals, TypeOK
<1> QED
  BY <1>1, <1>2, <1>3, Inductive, PTL DEF ASpec
-----------------------------------------------------------------------------
(* What is dialled *)

LEMMA ProfileTexts ==
    ASSUME NEW s \in Profiles, Valid(s)
    PROVE IsUrlText(s) /\ Plain(s.port) /\ s.port # <<>> /\ s.virtual_host # <<>>
<1>1. IsUrlText(s) /\ Plain(s.port)
  BY ProfilesAssumption DEF IsUrlText
<1>2. s.virtual_host # <<>>
  <2>1. s.virtual_host \in Text /\ ~IsBlank(s.virtual_host)
    BY <1>1 DEF IsUrlText, Valid
  <2>2. Len(s.virtual_host) \in Nat \ {0}
    BY <2>1, TextLen DEF IsBlank
  <2>3. Len(<<>>) = 0
    OBVIOUS
  <2> QED
    BY <2>2, <2>3
<1> QED
  BY <1>1, <1>2 DEF Plain

LEMMA NoPathsWithoutTls ==
    ASSUME NEW s, Valid(s), ~s.ssl_enabled
    PROVE ~IsGiven(s.ssl_ca_certs) /\ ~IsGiven(s.ssl_certfile)
<1> DEFINE paths == {s.ssl_ca_certs, s.ssl_certfile, s.ssl_keyfile}
<1>1. (\E path \in paths : IsGiven(path)) => s.ssl_enabled
  BY DEF Valid
<1>2. s.ssl_ca_certs \in paths /\ s.ssl_certfile \in paths
  OBVIOUS
<1> HIDE DEF paths
<1> QED
  BY <1>1, <1>2

LEMMA ParamsAre ==
    ASSUME NEW s, Valid(s)
    PROVE BuildConnectionParams(s) =
             [tls |-> s.ssl_enabled, user |-> s.username,
              password |-> s.password, host |-> s.host, port |-> s.port,
              vhost |-> s.virtual_host,
              context |->
                [ca |-> IF IsGiven(s.ssl_ca_certs) THEN s.ssl_ca_certs ELSE Unset,
                 cert |-> IF IsGiven(s.ssl_certfile) /\ IsGiven(s.ssl_keyfile)
                          THEN s.ssl_certfile ELSE Unset]]
<1>1. CASE s.ssl_enabled
  BY <1>1 DEF BuildConnectionParams, Context
<1>2. CASE ~s.ssl_enabled
  BY <1>2, NoPathsWithoutTls DEF BuildConnectionParams, Context
<1> QED
  BY <1>1, <1>2

LEMMA DialledIs ==
    ASSUME settings \in Profiles
    PROVE /\ Dialled("sync") = BuildConnectionParams(settings)
          /\ Dialled("async") = ReadUrl(AmqpUrl(settings), settings.ssl_enabled,
                                        Context(settings))
<1>1. \A c \in {"sync", "async"}, s \in Profiles : Dials[c][s] = Dial(c, s)
  BY DEF Dials
<1> QED
  BY <1>1 DEF Dialled, Dial

(* The settings are validated once and stay as they are.                    *)
LEMMA SettingsValid == ASpec => [](settings \in Profiles /\ Valid(settings))
<1> DEFINE I == settings \in Profiles /\ Valid(settings)
<1>1. AInit => I
  BY DEF AInit
<1>2. I /\ [ANext]_avars => I'
  <2>1. ANext => settings' = settings
    BY Steps, MovesSay, TasksLeave DEF ApiStep, Quietly
  <2> QED
    BY <2>1 DEF avars
<1> QED
  BY <1>1, <1>2, PTL DEF ASpec

(* Both clients dial what the settings say, for every virtual host, when no *)
(* character of host, user name and password means something in a URL.      *)
THEOREM DialledAsConfigured == ASpec => []DialsAsConfigured
<1>1. settings \in Profiles /\ Valid(settings) => DialsAsConfigured
  <2> SUFFICES ASSUME settings \in Profiles, Valid(settings),
                      Plain(settings.host), Plain(settings.username),
                      Plain(settings.password), NEW c \in {"sync", "async"}
               PROVE Dialled(c) = BuildConnectionParams(settings)
    BY ParamsAre DEF DialsAsConfigured
  <2> QED
    BY DialledIs, ProfileTexts, PlainUrlIsRead
<1> QED
  BY <1>1, SettingsValid, PTL

(* Whoever gets in is in the virtual host of the settings.                  *)
LEMMA ConnectsToVhost ==
    ASSUME settings \in Profiles, Valid(settings), NEW c \in {"sync", "async"},
           Connects(c)
    PROVE Dialled(c).vhost = settings.virtual_host
<1>1. IsUrlText(settings) /\ settings.virtual_host # <<>>
      /\ settings.port # <<>>
  BY ProfileTexts
<1>2. GetsIn(settings, Dialled(c))
  BY <1>1 DEF Connects, GetsIn
<1>3. CASE c = "sync"
  BY <1>3, DialledIs DEF BuildConnectionParams
<1>4. CASE c = "async"
  BY <1>1, <1>2, <1>4, DialledIs, ReadVhostIsGiven
<1> QED
  BY <1>3, <1>4

-----------------------------------------------------------------------------
(* What is sent *)

(* Names have a length, and a valid one but the default exchange's can be   *)
(* sent and is not the broker's own, for every name and every limits.       *)
LEMMA BytesAreCounted ==
    ASSUME NEW name \in ExchangeNames
    PROVE Bytes(name) \in Nat
<1> DEFINE bytes == {b \in (DOMAIN name) \X (1..4) : b[2] <= Width[name[b[1]]]}
<1>1. name \in Seq(DOMAIN Width)
  BY NamesAssumption
<1>2. Len(name) \in Nat /\ DOMAIN name = 1..Len(name)
  BY <1>1
<1>3. IsFiniteSet((DOMAIN name) \X (1..4))
  <2>1. IsFiniteSet(1..Len(name)) /\ IsFiniteSet(1..4)
    <3>1. 1 \in Int /\ 4 \in Int /\ Len(name) \in Int
      BY <1>2
    <3> QED
      BY <3>1, FS_Interval, Zenon
  <2> QED
    BY <1>2, <2>1, FS_Product, Zenon
<1>4. IsFiniteSet(bytes)
  <2>1. bytes \in SUBSET ((DOMAIN name) \X (1..4))
    OBVIOUS
  <2> HIDE DEF bytes
  <2> QED
    BY <1>3, <2>1, FS_Subset
<1> HIDE DEF bytes
<1>5. Cardinality(bytes) \in Nat
  BY <1>4, FS_CardinalityType
<1> USE DEF bytes
<1> QED
  BY <1>5 DEF Bytes

LEMMA AcceptedNames ==
    ASSUME NEW name \in ExchangeNames, name # <<>>, Validated[name] = "valid"
    PROVE Obstacle[name] = "none"
<1>1. /\ ~Has(name, "lone") /\ ~TooLong(name) /\ ~Reserved(name)
  BY DEF Validated, ValidateExchangeName, ValidateName
<1>2. Bytes(name) <= ShortStringBytes
  BY <1>1, BytesAreCounted, NameBytesAssumption DEF TooLong
<1> QED
  BY <1>1, <1>2 DEF Obstacle, IsShortString, BelongsToBroker

(* A name that reaches the broker is none that a list hides.                *)
LEMMA SentNamesAreShown ==
    ASSUME NEW name \in ExchangeNames, Obstacle[name] = "none"
    PROVE ~Hidden(name)
<1>1. ~BelongsToBroker(name)
  BY DEF Obstacle
<1> QED
  BY <1>1 DEF BelongsToBroker, Reserved, Hidden

Busy(t) == doing[t].at # "free"
Fields == {"op", "name", "vhost", "at", "alone"}

(* What an agent has sent is for the virtual host of the settings and has a *)
(* valid name, of which agents are unsure; who is alone at it, is alone.    *)
Sent ==
    /\ settings \in Profiles /\ Valid(settings)
    /\ DOMAIN doing = Agents /\ DOMAIN known = ExchangeNames
    /\ \A t \in Agents :
          /\ DOMAIN doing[t] = Fields
          /\ Busy(t) =>
                /\ doing[t].name \in ExchangeNames
                /\ Validated[doing[t].name] = "valid"
                /\ doing[t].vhost = settings.virtual_host
                /\ known[doing[t].name] = "unsure"
    /\ \A t \in Agents : Busy(t) /\ doing[t].alone =>
          \A u \in Agents : IsAt(u, doing[t].name) => u = t

LEMMA SentInit == AInit => Sent
PROOF BY DEF AInit, Sent, Busy, Free, Fields

LEMMA ToolSends ==
    ASSUME Sent, NEW t \in Agents, NEW c \in {"sync", "async"}, NEW op,
           NEW name \in ExchangeNames, ExchangeTool(t, c, op, name)
    PROVE Sent'
<1>1. /\ doing[t].at = "free" /\ Validated[name] = "valid"
      /\ known' = [known EXCEPT ![name] = "unsure"]
      /\ settings' = settings
  BY DEF ExchangeTool, Says
<1>2. Dialled(c).vhost = settings.virtual_host
  BY ConnectsToVhost DEF ExchangeTool, Sent
<1>3. /\ DOMAIN doing' = Agents
      /\ doing'[t] = [op |-> op, name |-> name, vhost |-> Dialled(c).vhost,
                      at |-> "sent", alone |-> ~\E v \in Agents : IsAt(v, name)]
      /\ \A u \in Agents \ {t} :
            doing'[u] = IF IsAt(u, name) THEN [doing[u] EXCEPT !.alone = FALSE]
                        ELSE doing[u]
  BY DEF ExchangeTool
<1>4. \A u \in Agents \ {t} :
         /\ DOMAIN doing'[u] = Fields
         /\ doing'[u].at = doing[u].at /\ doing'[u].name = doing[u].name
         /\ doing'[u].vhost = doing[u].vhost
         /\ IF IsAt(u, name) THEN ~doing'[u].alone
            ELSE doing'[u].alone = doing[u].alone
  BY <1>3 DEF Sent, Fields
<1>5. /\ DOMAIN doing'[t] = Fields /\ doing'[t].at = "sent"
      /\ doing'[t].name = name /\ doing'[t].vhost = Dialled(c).vhost
      /\ doing'[t].alone = ~\E v \in Agents : IsAt(v, name)
  <2> DEFINE lonely == ~\E v \in Agents : IsAt(v, name)
  <2>1. doing'[t] = [op |-> op, name |-> name, vhost |-> Dialled(c).vhost,
                     at |-> "sent", alone |-> lonely]
    BY <1>3
  <2> HIDE DEF lonely
  <2>2. /\ DOMAIN doing'[t] = Fields /\ doing'[t].at = "sent"
        /\ doing'[t].name = name /\ doing'[t].vhost = Dialled(c).vhost
        /\ doing'[t].alone = lonely
    BY <2>1 DEF Fields
  <2> QED
    BY <2>2 DEF lonely
<1>6. ASSUME NEW u \in Agents, Busy(u)'
      PROVE /\ doing'[u].name \in ExchangeNames
            /\ Validated[doing'[u].name] = "valid"
            /\ doing'[u].vhost = settings'.virtual_host
            /\ known'[doing'[u].name] = "unsure"
  BY <1>1, <1>2, <1>4, <1>5, <1>6 DEF Sent, Busy
<1>7. ASSUME NEW u \in Agents, Busy(u)', doing'[u].alone, NEW v \in Agents,
             IsAt(v, doing[u].name)'
      PROVE v = u
  <2>1. CASE u = t
    BY <1>4, <1>5, <1>7, <2>1 DEF IsAt
  <2>2. CASE u # t
    BY <1>4, <1>5, <1>7, <2>2 DEF IsAt, Sent, Busy
  <2> QED
    BY <2>1, <2>2
<1>8. DOMAIN known' = ExchangeNames /\ \A u \in Agents : DOMAIN doing'[u] = Fields
  BY <1>1, <1>4, <1>5 DEF Sent
<1> QED
  BY <1>1, <1>3, <1>6, <1>7, <1>8 DEF Sent

(* The answers, and what ends a run.                                        *)
LEMMA Answers ==
    ASSUME Sent, NEW t \in Agents, ExchangeStep(t)
    PROVE /\ Busy(t) /\ settings' = settings
          /\ \E place :
                /\ doing' = [doing EXCEPT ![t] =
                                IF place = "free" THEN Free ELSE [@ EXCEPT !.at = place]]
                /\ \/ UNCHANGED known
                   \/ /\ place = "free" /\ doing[t].alone
                      /\ \E v : known' = [known EXCEPT ![doing[t].name] = v]
<1>1. settings' = settings
  BY MovesSay DEF ExchangeMove
<1>2. ASSUME NEW place \in {"taken", "refused"}, Moves(t, place), UNCHANGED known,
             Busy(t)
      PROVE /\ Busy(t)
            /\ \E p :
                /\ doing' = [doing EXCEPT ![t] =
                                IF p = "free" THEN Free ELSE [@ EXCEPT !.at = p]]
                /\ UNCHANGED known
  <2>1. CASE doing[t].at = "late"
    BY <1>2, <2>1 DEF Moves
  <2>2. CASE doing[t].at # "late"
    BY <1>2, <2>2 DEF Moves
  <2> QED
    BY <1>2, <2>1, <2>2
<1>3. CASE BrokerTakes(t) \/ BrokerRefuses(t)
  BY <1>1, <1>2, <1>3 DEF BrokerTakes, BrokerRefuses, Busy
<1>4. CASE Succeeds(t)
  BY <1>1, <1>4 DEF Succeeds, Busy
<1>5. CASE IsRefused(t)
  BY <1>1, <1>5 DEF IsRefused, Busy
<1>6. CASE GetsNoAnswer(t)
  BY <1>1, <1>6 DEF GetsNoAnswer, Busy
<1> QED
  BY <1>3, <1>4, <1>5, <1>6 DEF ExchangeStep

LEMMA AnswersKeep ==
    ASSUME Sent, NEW t \in Agents, ExchangeStep(t)
    PROVE Sent'
<1>1. PICK place :
         /\ doing' = [doing EXCEPT ![t] =
                         IF place = "free" THEN Free ELSE [@ EXCEPT !.at = place]]
         /\ \/ UNCHANGED known
            \/ /\ place = "free" /\ doing[t].alone
               /\ \E v : known' = [known EXCEPT ![doing[t].name] = v]
  BY Answers
<1>2. Busy(t) /\ settings' = settings
  BY Answers
<1>3. /\ DOMAIN doing' = Agents /\ DOMAIN known' = ExchangeNames
      /\ \A u \in Agents \ {t} : doing'[u] = doing[u]
  BY <1>1 DEF Sent
<1>4. DOMAIN doing'[t] = Fields
      /\ \/ doing'[t].at = "free" /\ place = "free"
         \/ /\ doing'[t].name = doing[t].name /\ doing'[t].vhost = doing[t].vhost
            /\ doing'[t].alone = doing[t].alone /\ place # "free"
  <2>1. CASE place = "free"
    BY <1>1, <2>1 DEF Sent, Free, Fields
  <2>2. CASE place # "free"
    BY <1>1, <2>2 DEF Sent, Fields
  <2> QED
    BY <2>1, <2>2
<1>5. ASSUME NEW u \in Agents, Busy(u)'
      PROVE /\ Busy(u) /\ doing'[u].name = doing[u].name
            /\ doing'[u].vhost = doing[u].vhost /\ doing'[u].alone = doing[u].alone
            /\ u = t => place # "free"
  BY <1>2, <1>3, <1>4, <1>5 DEF Busy
<1>6. ASSUME NEW u \in Agents, Busy(u)'
      PROVE known'[doing'[u].name] = "unsure"
  <2>1. CASE UNCHANGED known
    BY <1>5, <1>6, <2>1 DEF Sent
  <2>2. CASE place = "free" /\ doing[t].alone
             /\ \E v : known' = [known EXCEPT ![doing[t].name] = v]
    <3>1. u # t /\ Busy(u)
      BY <1>5, <1>6, <2>2
    <3>2. doing[u].name # doing[t].name
      BY <1>2, <2>2, <3>1 DEF Sent, IsAt, Busy
    <3> QED
      BY <1>5, <1>6, <2>2, <3>1, <3>2 DEF Sent
  <2> QED
    BY <1>1, <2>1, <2>2
<1>7. ASSUME NEW u \in Agents, Busy(u)', doing'[u].alone, NEW v \in Agents,
             IsAt(v, doing[u].name)'
      PROVE v = u
  <2>1. Busy(u) /\ doing[u].alone /\ Busy(v) /\ doing[v].name = doing[u].name
    BY <1>5, <1>7 DEF IsAt, Busy
  <2> QED
    BY <2>1 DEF Sent, IsAt, Busy
<1> QED
  BY <1>2, <1>3, <1>4, <1>5, <1>6, <1>7 DEF Sent

LEMMA MovesKeepSent ==
    ASSUME Sent, ExchangeMove
    PROVE Sent'
<1>1. CASE NoConnection \/ \E c \in {"sync", "async"} : InvalidExchange(c)
  <2>1. UNCHANGED <<settings, doing, known>>
    BY <1>1, MovesSay DEF NoConnection, InvalidExchange
  <2> QED
    BY <2>1 DEF Sent, Busy, IsAt
<1> QED
  BY <1>1, ToolSends, AnswersKeep
  DEF ExchangeMove, DeclareExchangeTool, DeleteExchangeTool

LEMMA SentAlways == ASpec => []Sent
<1>1. Sent /\ [ANext]_avars => Sent'
  <2>1. ASSUME Sent, UNCHANGED <<settings, doing, known>> PROVE Sent'
    BY <2>1 DEF Sent, Busy, IsAt
  <2> QED
    BY <2>1, Steps, TasksLeave, MovesKeepSent DEF ApiStep, Quietly, avars
<1> QED
  BY <1>1, SentInit, PTL DEF ASpec

(* However a run of an exchange tool goes - refused for any reason, without *)
(* an answer, beside others - none is told of a name that it cannot be sent *)
(* or is the broker's, but of the default exchange's; and what validation   *)
(* raises is a validation error, unless the name has no encoding.  The      *)
(* limit of the validation need only be within the driver's.                *)
THEOREM NamesDecided == ASpec => []NamesAreDecided
<1>1. AInit => NamesAreDecided
  BY DEF AInit, NamesAreDecided, Nothing
<1>2. NamesAreDecided /\ Sent /\ [ANext]_avars => NamesAreDecided'
  <2> SUFFICES ASSUME NamesAreDecided, Sent, [ANext]_avars
               PROVE NamesAreDecided'
    OBVIOUS
  <2>1. ASSUME NEW result, NEW name, NEW why, Tells(result, name, why),
               why \in {"driver", "broker"} => name = <<>>,
               why = "validation" /\ result # "VALIDATION_ERROR"
               => Has(name, "lone")
        PROVE NamesAreDecided'
    BY <2>1 DEF Tells, Says, NamesAreDecided
  <2>2. ASSUME told' = Nothing PROVE NamesAreDecided'
    BY <2>2 DEF Nothing, NamesAreDecided
  <2>3. CASE NoConnection
    BY <2>1, <2>3 DEF NoConnection
  <2>4. ASSUME NEW c \in {"sync", "async"}, InvalidExchange(c)
        PROVE NamesAreDecided'
    <3>1. PICK name \in ExchangeNames :
             /\ Validated[name] # "valid"
             /\ Tells(Label(Validated[name]), name, "validation")
      BY <2>4 DEF InvalidExchange
    <3>2. \/ Validated[name] = "RabbitMQValidationError"
          \/ Validated[name] = "UnicodeEncodeError" /\ Has(name, "lone")
      BY <3>1 DEF Validated, ValidateExchangeName, ValidateName
    <3> QED
      BY <2>1, <3>1, <3>2 DEF Label
  <2>5. ASSUME NEW t \in Agents, NEW c \in {"sync", "async"},
               DeclareExchangeTool(t, c) \/ DeleteExchangeTool(t, c)
        PROVE NamesAreDecided'
    BY <2>2, <2>5
    DEF DeclareExchangeTool, DeleteExchangeTool, ExchangeTool, Says
  <2>6. ASSUME NEW t \in Agents, ExchangeStep(t)
        PROVE NamesAreDecided'
    <3>1. CASE IsRefused(t)
      <4>1. Busy(t)
        BY <3>1 DEF IsRefused, Busy
      <4>2. /\ doing[t].name \in ExchangeNames
            /\ Validated[doing[t].name] = "valid"
        BY <4>1 DEF Sent
      <4>3. CASE Obstacle[doing[t].name] = "none"
        BY <2>1, <3>1, <4>3 DEF IsRefused
      <4>4. CASE Obstacle[doing[t].name] # "none"
        <5>1. doing[t].name = <<>>
          BY <4>2, <4>4, AcceptedNames
        <5>2. Obstacle[doing[t].name] \in {"driver", "broker"}
          BY <4>2, <4>4 DEF Obstacle
        <5>3. PICK res : Tells(res, doing[t].name, Obstacle[doing[t].name])
          BY <3>1, <4>4 DEF IsRefused
        <5> QED
          BY <2>1, <5>1, <5>2, <5>3
      <4> QED
        BY <4>3, <4>4
    <3>2. CASE BrokerTakes(t) \/ BrokerRefuses(t)
      BY <2>2, <3>2 DEF BrokerTakes, BrokerRefuses, Says
    <3>3. CASE Succeeds(t)
      BY <2>1, <3>3 DEF Succeeds
    <3>4. CASE GetsNoAnswer(t)
      BY <2>1, <3>4 DEF GetsNoAnswer
    <3> QED
      BY <2>6, <3>1, <3>2, <3>3, <3>4 DEF ExchangeStep
  <2>7. ASSUME NEW t \in Tasks, Task(t) PROVE NamesAreDecided'
    BY <2>2, <2>7, TasksLeave
  <2>8. CASE ApiStep
    BY <2>2, <2>8 DEF ApiStep, Quietly
  <2>9. CASE UNCHANGED avars
    BY <2>9 DEF avars, NamesAreDecided
  <2> QED
    BY <2>3, <2>4, <2>5, <2>6, <2>7, <2>8, <2>9, Steps DEF ExchangeMove
<1> QED
  BY <1>1, <1>2, SentAlways, PTL DEF ASpec

-----------------------------------------------------------------------------
(* What is listed *)

Exchange(vhost, name) == [vhost |-> vhost, name |-> name]
Own(vhost) == Builtin(<<Char("/")>>) \cup Builtin(vhost)

(* The broker has its own exchanges and, in the virtual host of the settings*)
(* and by names that a list does not hide, at least those that agents were  *)
(* told of and at most those and what they are unsure of.  Of what one did  *)
(* alone, the broker has the effect until it is told.                       *)
Shown(name) ==
    known[name] # "absent" /\ ~Hidden(name)
BrokerHasDeclared ==
    /\ \A e \in exchanges :
          \/ e \in Own(settings.virtual_host)
          \/ \E name \in ExchangeNames :
                e = Exchange(settings.virtual_host, name) /\ Shown(name)
    /\ \A name \in ExchangeNames : known[name] = "declared" =>
          Shown(name) /\ Exchange(settings.virtual_host, name) \in exchanges
    /\ \A t \in Agents : doing[t].at = "taken" =>
          /\ ~Hidden(doing[t].name)
          /\ doing[t].alone =>
                (doing[t].op = "declare"
                 <=> Exchange(settings.virtual_host, doing[t].name) \in exchanges)

(* A tool that waits for a list of exchanges has asked for one.             *)
ListsAskedFor ==
    \A t \in Tasks :
        pc[t] = "requesting" /\ at[t].obj = t /\ at[t].path[1] = "exchanges"
        => \E v \in Filters : at[t].path = Path("exchanges", v)

LInv == BrokerHasDeclared /\ ListsAskedFor /\ ListedAsDeclared

LEMMA BuiltinsAreHidden ==
    ASSUME NEW vhost, NEW e \in Builtin(vhost)
    PROVE Hidden(e.name) /\ e.vhost = vhost
<1>1. Hidden(<<>>)
  BY DEF Hidden
<1>2. Hidden(<<"amq", "dot", "x">>)
  <2> DEFINE prefix == <<"amq", "dot">>
             name == <<"amq", "dot", "x">>
             pieces == {"amq", "dot", "x"}
  <2>1. /\ prefix \in Seq(pieces) /\ Len(prefix) = 2
        /\ name \in Seq(pieces) /\ Len(name) = 3
        /\ prefix[1] = name[1] /\ prefix[2] = name[2]
    OBVIOUS
  <2> HIDE DEF prefix, name, pieces
  <2>2. SubSeq(prefix, 1, 2) = SubSeq(name, 1, 2)
    BY <2>1
  <2> USE DEF prefix, name
  <2> QED
    BY <2>1, <2>2 DEF Hidden, IsPrefix
<1> QED
  BY <1>1, <1>2 DEF Builtin

LEMMA ExchangesDiffer ==
    ASSUME NEW vhost, NEW n, NEW m, Exchange(vhost, n) = Exchange(vhost, m)
    PROVE n = m
PROOF BY DEF Exchange

(* Who sends leaves agents unsure of the name.                              *)
LEMMA ToolKeepsDeclared ==
    ASSUME Sent, BrokerHasDeclared, NEW t \in Agents, NEW c \in {"sync", "async"},
           NEW op, NEW name \in ExchangeNames, ExchangeTool(t, c, op, name)
    PROVE BrokerHasDeclared'
<1>1. /\ UNCHANGED <<settings, exchanges>>
      /\ known' = [known EXCEPT ![name] = "unsure"]
  BY DEF ExchangeTool, Says
<1>2. \A n \in ExchangeNames :
         /\ Shown(n) => Shown(n)'
         /\ known'[n] = "declared" => known[n] = "declared"
  BY <1>1 DEF Sent, Shown
<1>3. ASSUME NEW u \in Agents, doing'[u].at = "taken"
      PROVE /\ doing[u].at = "taken" /\ doing'[u].name = doing[u].name
            /\ doing'[u].op = doing[u].op
            /\ doing'[u].alone => doing[u].alone
  <2>1. /\ u # t
        /\ doing'[u] = IF IsAt(u, name) THEN [doing[u] EXCEPT !.alone = FALSE]
                       ELSE doing[u]
    BY <1>3 DEF ExchangeTool
  <2> QED
    BY <1>3, <2>1 DEF Sent, Fields
<1> QED
  BY <1>1, <1>2, <1>3 DEF BrokerHasDeclared, Own, Builtin

(* What the broker takes is an exchange of which agents are unsure, and at  *)
(* which nobody is who was told to be alone.                                *)
LEMMA TakesKeepsDeclared ==
    ASSUME Sent, BrokerHasDeclared, NEW t \in Agents, BrokerTakes(t)
    PROVE BrokerHasDeclared'
<1> DEFINE vh == settings.virtual_host
           name == doing[t].name
           taken == Exchange(vh, name)
<1>1. /\ Busy(t) /\ Obstacle[name] = "none"
      /\ name \in ExchangeNames /\ doing[t].vhost = vh /\ known[name] = "unsure"
  BY DEF BrokerTakes, Busy, Sent
<1>2. /\ UNCHANGED <<settings, known>> /\ vh' = vh
      /\ exchanges' = IF doing[t].op = "declare" THEN exchanges \cup {taken}
                      ELSE exchanges \ {taken}
  BY <1>1 DEF BrokerTakes, Says, Exchange
<1>3. ~Hidden(name) /\ Shown(name)
  BY <1>1, SentNamesAreShown DEF Shown
<1>4. \A n : Shown(n)' = Shown(n)
  BY <1>2 DEF Shown
<1>5. ASSUME NEW e \in exchanges'
      PROVE \/ e \in Own(vh)'
            \/ \E n \in ExchangeNames : e = Exchange(vh, n) /\ Shown(n)'
  <2>1. e \in exchanges \/ e = taken
    BY <1>2
  <2>2. Own(vh)' = Own(vh)
    BY <1>2 DEF Own, Builtin
  <2> QED
    BY <1>1, <1>3, <1>4, <2>1, <2>2 DEF BrokerHasDeclared
<1>6. ASSUME NEW n \in ExchangeNames, known'[n] = "declared"
      PROVE Shown(n)' /\ Exchange(vh, n) \in exchanges'
  <2>1. n # name /\ Shown(n) /\ Exchange(vh, n) \in exchanges
    BY <1>1, <1>2, <1>6 DEF BrokerHasDeclared
  <2>2. Exchange(vh, n) # taken
    BY <2>1, ExchangesDiffer
  <2> QED
    BY <1>2, <1>4, <2>1, <2>2
<1>7. ASSUME NEW u \in Agents, doing'[u].at = "taken"
      PROVE /\ ~Hidden(doing'[u].name)
            /\ doing'[u].alone =>
                  (doing'[u].op = "declare"
                   <=> Exchange(vh, doing'[u].name) \in exchanges')
  <2>1. CASE u = t
    <3>1. /\ doing'[t].name = name /\ doing'[t].op = doing[t].op
      <4>1. doing[t].at # "late"
        BY <1>7, <2>1 DEF BrokerTakes, Moves, Sent, Free
      <4>2. doing'[t] = [doing[t] EXCEPT !.at = "taken"]
        BY <4>1 DEF BrokerTakes, Moves, Sent
      <4> QED
        BY <4>2 DEF Sent, Fields
    <3>2. taken \in exchanges' <=> doing[t].op = "declare"
      BY <1>2
    <3> HIDE DEF taken
    <3>3. Exchange(vh, doing'[t].name) = taken
      BY <3>1 DEF taken
    <3> QED
      BY <1>3, <2>1, <3>1, <3>2, <3>3
  <2>2. CASE u # t
    <3>1. doing'[u] = doing[u]
      BY <2>2 DEF BrokerTakes, Moves, Sent
    <3>2. CASE doing[u].alone
      <4>1. Busy(u) /\ doing[u].at = "taken"
        BY <1>7, <3>1 DEF Busy
      <4>2. doing[u].name # name
        BY <1>1, <2>2, <3>2, <4>1 DEF Sent, IsAt, Busy
      <4>3. Exchange(vh, doing[u].name) # taken
        BY <4>2, ExchangesDiffer
      <4> QED
        BY <1>2, <3>1, <4>1, <4>3 DEF BrokerHasDeclared
    <3>3. CASE ~doing[u].alone
      BY <1>7, <3>1, <3>3 DEF BrokerHasDeclared
    <3> QED
      BY <3>2, <3>3
  <2> QED
    BY <2>1, <2>2
<1> QED
  BY <1>2, <1>5, <1>6, <1>7 DEF BrokerHasDeclared

(* The other answers leave the exchanges, and only who did it alone is told *)
(* what became of it.                                                       *)
LEMMA AnswersKeepDeclared ==
    ASSUME Sent, BrokerHasDeclared, NEW t \in Agents,
           BrokerRefuses(t) \/ Succeeds(t) \/ IsRefused(t) \/ GetsNoAnswer(t)
    PROVE BrokerHasDeclared'
<1> DEFINE vh == settings.virtual_host
           name == doing[t].name
<1>1. UNCHANGED <<settings, exchanges>>
  BY DEF BrokerRefuses, Succeeds, IsRefused, GetsNoAnswer, Tells, Says
<1>2. Own(vh)' = Own(vh)
  BY <1>1 DEF Own, Builtin
<1>3. ASSUME NEW u \in Agents, doing'[u].at = "taken"
      PROVE doing'[u] = doing[u]
  <2>1. CASE u # t
    BY <2>1
    DEF BrokerRefuses, Moves, Succeeds, IsRefused, GetsNoAnswer, Sent
  <2>2. CASE u = t
    <3>1. doing'[t] \in {Free, [doing[t] EXCEPT !.at = "refused"],
                         [doing[t] EXCEPT !.at = "late"]}
      BY DEF BrokerRefuses, Moves, Succeeds, IsRefused, GetsNoAnswer, Sent
    <3> QED
      BY <1>3, <2>2, <3>1 DEF Free, Sent, Fields
  <2> QED
    BY <2>1, <2>2
<1>4. CASE UNCHANGED known
  BY <1>1, <1>2, <1>3, <1>4 DEF BrokerHasDeclared, Shown
<1>5. ASSUME doing[t].at = "taken", doing[t].alone,
             known' = [known EXCEPT ![name] =
                         IF doing[t].op = "declare" THEN "declared" ELSE "absent"]
      PROVE BrokerHasDeclared'
  <2> PICK m : m = name
    OBVIOUS
  <2>1. m \in ExchangeNames /\ ~Hidden(m) /\ DOMAIN known = ExchangeNames
    BY <1>5 DEF Sent, Busy, BrokerHasDeclared
  <2>2. doing[t].op = "declare" <=> Exchange(vh, m) \in exchanges
    BY <1>5 DEF BrokerHasDeclared
  <2>3. \A n \in ExchangeNames \ {m} : Shown(n)' = Shown(n)
    BY <1>5, <2>1 DEF Shown
  <2>4. Exchange(vh, m) \in exchanges => Shown(m)'
    BY <1>5, <2>1, <2>2 DEF Shown
  <2>5. ASSUME NEW e \in exchanges
        PROVE \/ e \in Own(vh)
              \/ \E n \in ExchangeNames : e = Exchange(vh, n) /\ Shown(n)'
    BY <2>1, <2>3, <2>4 DEF BrokerHasDeclared
  <2>6. ASSUME NEW n \in ExchangeNames, known'[n] = "declared"
        PROVE Shown(n)' /\ Exchange(vh, n) \in exchanges
    BY <1>5, <2>1, <2>2, <2>3, <2>4, <2>6 DEF BrokerHasDeclared
  <2> QED
    BY <1>1, <1>2, <1>3, <2>5, <2>6 DEF BrokerHasDeclared
<1> QED
  BY <1>4, <1>5 DEF BrokerRefuses, Succeeds, IsRefused, GetsNoAnswer

LEMMA MovesKeepDeclared ==
    ASSUME Sent, BrokerHasDeclared, ExchangeMove
    PROVE BrokerHasDeclared'
<1>1. CASE NoConnection \/ \E c \in {"sync", "async"} : InvalidExchange(c)
  <2>1. UNCHANGED <<settings, exchanges, doing, known>>
    BY <1>1, MovesSay DEF NoConnection, InvalidExchange
  <2> QED
    BY <2>1 DEF BrokerHasDeclared, Shown, Own, Builtin
<1>2. CASE \E t \in Agents, c \in {"sync", "async"} :
             DeclareExchangeTool(t, c) \/ DeleteExchangeTool(t, c)
  BY <1>2, ToolKeepsDeclared DEF DeclareExchangeTool, DeleteExchangeTool
<1>3. CASE \E t \in Agents : ExchangeStep(t)
  BY <1>3, TakesKeepsDeclared, AnswersKeepDeclared DEF ExchangeStep
<1> QED
  BY <1>1, <1>2, <1>3 DEF ExchangeMove

(* What a list of exchanges reads is what the broker has and does not hide. *)
LEMMA AnswerLists ==
    ASSUME Sent, BrokerHasDeclared, ListsAskedFor, NEW t \in Tasks, Answer(t)
    PROVE ListedAsDeclared'
<1> DEFINE vh == settings.virtual_host
           maybe == {n \in ExchangeNames : known[n] # "absent"}
           surely == {n \in ExchangeNames : known[n] = "declared"}
<1>1. UNCHANGED <<settings, exchanges, known>> /\ pc[t] = "requesting"
  BY DEF Answer, Answered
<1>2. CASE listing' = NoListing
  BY <1>2 DEF ListedAsDeclared
<1>3. ASSUME at[t].obj = t, at[t].path[1] = "exchanges"
      PROVE ListedAsDeclared'
  <2>1. PICK v \in Filters : at[t].path = Path("exchanges", v)
    BY <1>1, <1>3 DEF ListsAskedFor
  <2>2. PICK defaults \in BOOLEAN :
           /\ listing'.defaults = defaults
           /\ listing'.names = {e.name : e \in
                 {f \in Served(at[t].path) : defaults \/ ~Hidden(f.name)}}
    BY <1>3 DEF Answer
  <2>3. \A n : Exchange(vh, n).name = n /\ Exchange(vh, n).vhost = vh
    BY DEF Exchange
  <2>4. \A n : Exchange(vh, n) \in exchanges
               => Exchange(vh, n) \in Served(at[t].path)
    <3>1. CASE v = <<>>
      <4>1. Len(at[t].path) = 1
        BY <2>1, <3>1 DEF Path
      <4> QED
        BY <4>1 DEF Served
    <3>2. CASE v # <<>>
      <4>1. v = vh /\ settings \in Profiles
        BY <2>1, <3>2 DEF Filters, Sent
      <4>2. at[t].path[2] = Quote(vh)
        BY <2>1, <3>2, <4>1 DEF Path, EncodeVhost
      <4>3. vh \in Text
        BY <4>1, ProfilesAssumption
      <4>4. Decode(at[t].path[2]) = vh
        BY <4>2, <4>3, DecodeQuote
      <4> QED
        BY <2>3, <4>4 DEF Served
    <3> QED
      BY <3>1, <3>2
  <2>5. ASSUME NEW e \in Served(at[t].path), ~Hidden(e.name)
        PROVE e.name \in maybe
    <3>1. e \in exchanges /\ e \notin Own(vh)
      BY <2>5, BuiltinsAreHidden DEF Served, Own
    <3>2. PICK n \in ExchangeNames : e = Exchange(vh, n) /\ Shown(n)
      BY <3>1 DEF BrokerHasDeclared
    <3> QED
      BY <2>3, <3>2 DEF Shown
  <2>6. ASSUME NEW n \in surely
        PROVE Exchange(vh, n) \in Served(at[t].path) /\ ~Hidden(n)
    BY <2>4, <2>6 DEF BrokerHasDeclared, Shown
  <2>7. ASSUME ~listing'.defaults
        PROVE listing'.names \subseteq maybe /\ surely \subseteq listing'.names
    <3>1. listing'.names = {e.name : e \in
             {f \in Served(at[t].path) : ~Hidden(f.name)}}
      BY <2>2, <2>7
    <3> HIDE DEF maybe, surely, vh
    <3>2. listing'.names \subseteq maybe
      BY <2>5, <3>1
    <3>3. ASSUME NEW n \in surely PROVE n \in listing'.names
      <4>1. Exchange(vh, n) \in {f \in Served(at[t].path) : ~Hidden(f.name)}
        BY <2>3, <2>6
      <4>2. Exchange(vh, n).name = n
        BY <2>3
      <4> QED
        BY <3>1, <4>1, <4>2
    <3> QED
      BY <3>2, <3>3
  <2> QED
    BY <1>1, <2>7 DEF ListedAsDeclared
<1> QED
  BY <1>2, <1>3 DEF Answer

(* A task asks for exchanges through its own object only as list_exchanges. *)
LEMMA TaskAsks ==
    ASSUME Types, ListsAskedFor, settings' = settings, NEW t \in Tasks,
           Task(t)
    PROVE ListsAskedFor'
<1> DEFINE Asked(u) ==
      pc[u] = "requesting" /\ at[u].obj = u /\ at[u].path[1] = "exchanges"
      => \E v \in Filters : at[u].path = Path("exchanges", v)
<1>1. Filters' = Filters
  BY DEF Filters
<1>2. ASSUME NEW label, NEW locals,
             pc' = [pc EXCEPT ![t] = label], at' = [at EXCEPT ![t] = locals],
             \/ label # "requesting" \/ locals.obj # t
             \/ locals.path[1] # "exchanges"
             \/ \E v \in Filters : locals.path = Path("exchanges", v)
      PROVE ListsAskedFor'
  <2>1. ASSUME NEW u \in Tasks
        PROVE Asked(u)'
    <3>1. CASE u = t
      BY <1>1, <1>2, <3>1 DEF Types
    <3>2. CASE u # t
      BY <1>1, <1>2, <3>2 DEF Types, ListsAskedFor
    <3> QED
      BY <3>1, <3>2
  <2> QED
    BY <2>1 DEF ListsAskedFor
<1>3. ASSUME NEW res, Return(t, res)
      PROVE ListsAskedFor'
  BY <1>2, <1>3 DEF Return
<1>4. ASSUME NEW o, NEW res, StartClosing(t, o, res)
      PROVE ListsAskedFor'
  BY <1>2, <1>4 DEF StartClosing, Goto
<1>5. ASSUME NEW res, Ends(t, res)
      PROVE ListsAskedFor'
  BY <1>3, <1>4, <1>5 DEF Ends
<1>6. ASSUME NEW o, NEW path, Get(t, o, path),
             \/ o # t \/ path[1] # "exchanges"
             \/ \E v \in Filters : path = Path("exchanges", v)
      PROVE ListsAskedFor'
  <2>1. CASE api_url
    <3> DEFINE locals == [NoLocals EXCEPT !.obj = o, !.path = path,
                                          !.http = client'[o]]
    <3>1. /\ pc' = [pc EXCEPT ![t] = "requesting"]
          /\ at' = [at EXCEPT ![t] = locals]
      BY <1>6, <2>1 DEF Get, Goto
    <3>2. locals.obj = o /\ locals.path = path
      BY DEF NoLocals
    <3> HIDE DEF locals
    <3> QED
      BY <1>2, <1>6, <3>1, <3>2
  <2>2. CASE ~api_url
    BY <1>3, <1>6, <2>2 DEF Get
  <2> QED
    BY <2>1, <2>2
<1>7. CASE SharedRequest(t)
  BY <1>6, <1>7, ConstantsAssumption DEF SharedRequest, Asks
<1>8. CASE ManagementTool(t)
  <2>1. \A v : /\ Path("queues", v)[1] = "queues"
               /\ Path("bindings", v)[1] = "bindings"
               /\ Path("nodes", v)[1] = "nodes"
    BY DEF Path
  <2>2. CASE ListExchangesTool(t)
    BY <1>6, <2>2 DEF ListExchangesTool, Asks
  <2>3. CASE ListQueuesTool(t) \/ ListBindingsTool(t) \/ GetNodeStatsTool(t)
    BY <1>6, <2>1, <2>3
    DEF ListQueuesTool, ListBindingsTool, GetNodeStatsTool, Asks
  <2> QED
    BY <1>8, <2>2, <2>3 DEF ManagementTool
<1>9. CASE Answer(t)
  BY <1>5, <1>9 DEF Answer, Answered
<1>10. CASE OtherStep(t)
  BY <1>3, <1>4, <1>5, <1>10
  DEF OtherStep, Fails, Undecodable, Close, Closed, Cancelled
<1> QED
  BY <1>7, <1>8, <1>9, <1>10 DEF Task

(* What an agent reads in a list of its virtual host, or of all, agrees     *)
(* with the last success that agents were told of, whatever answers were    *)
(* lost before it and whoever was refused: the AMQP clients and the         *)
(* management client name the same virtual host to the broker, however its  *)
(* name is written, and what a list hides is just what cannot be declared.  *)
THEOREM ListIsDeclared == ASpec => []ListedAsDeclared
<1>1. AInit => LInv
  <2> SUFFICES ASSUME AInit PROVE LInv
    OBVIOUS
  <2>1. ListsAskedFor /\ ListedAsDeclared
    BY DEF AInit, Init, ListsAskedFor, ListedAsDeclared
  <2>2. BrokerHasDeclared
    BY DEF AInit, BrokerHasDeclared, Free, Own
  <2> QED
    BY <2>1, <2>2 DEF LInv
<1>2. IInv /\ Sent /\ LInv /\ [ANext]_avars => LInv'
  <2> SUFFICES ASSUME IInv, Sent, LInv, [ANext]_avars PROVE LInv'
    OBVIOUS
  <2>1. Types /\ BrokerHasDeclared /\ ListsAskedFor
    BY DEF IInv, LInv
  <2>2. ASSUME UNCHANGED <<settings, exchanges, doing, known>>
        PROVE BrokerHasDeclared'
    BY <2>1, <2>2 DEF BrokerHasDeclared, Shown, Own, Builtin
  <2>3. ASSUME UNCHANGED <<settings, pc, at>>
        PROVE ListsAskedFor'
    BY <2>1, <2>3 DEF ListsAskedFor, Filters
  <2>4. ASSUME listing' = NoListing
        PROVE ListedAsDeclared'
    BY <2>4 DEF ListedAsDeclared
  <2>5. CASE ExchangeMove
    BY <2>1, <2>3, <2>4, <2>5, MovesSay, MovesKeepDeclared DEF LInv
  <2>6. CASE ApiStep
    BY <2>2, <2>3, <2>4, <2>6 DEF ApiStep, ApiChanges, Quietly, LInv
  <2>7. ASSUME NEW t \in Tasks, Task(t)
        PROVE LInv'
    <3>1. ListedAsDeclared'
      BY <2>1, <2>4, <2>7, TasksLeave, AnswerLists
    <3>2. BrokerHasDeclared'
      BY <2>2, <2>7, TasksLeave
    <3>3. ListsAskedFor'
      BY <2>1, <2>7, TasksLeave, TaskAsks
    <3> QED
      BY <3>1, <3>2, <3>3 DEF LInv
  <2>8. CASE UNCHANGED avars
    BY <2>2, <2>3, <2>8
    DEF avars, vars, LInv, ListedAsDeclared, Filters
  <2> QED
    BY <2>5, <2>6, <2>7, <2>8, Steps
<1> QED
  BY <1>1, <1>2, Inductive, SentAlways, PTL DEF ASpec, LInv
=============================================================================
