---------------------------- MODULE ManagementClient --------------------------
(***************************************************************************)
(* AsyncManagementAPIClient (utilities/management.py): objects that make an *)
(* httpx client when they need one.  One object is shared by all tasks; a   *)
(* run of a tool has an object of its own, which it uses in a with block.   *)
(* The synchronous ManagementAPIClient has the same methods without awaits: *)
(* its behaviours are those in which a task is not interrupted.             *)
(*                                                                         *)
(* An httpx client is_closed as soon as its aclose() is called, and the     *)
(* await is for its pool.  A request ends at the latest by its timeout.     *)
(***************************************************************************)
EXTENDS Naturals

CONSTANTS
    Tasks,      \* the tasks
    Cancels,    \* whether tasks are cancelled
    MaxHttp     \* bound on the httpx clients made

ASSUME ConstantsAssumption ==
    /\ "shared" \notin Tasks
    /\ Cancels \in BOOLEAN /\ MaxHttp \in Nat

None == 0
Objects == Tasks \cup {"shared"}
Https == 1..MaxHttp
Outcomes == {"returned", "RabbitMQAdminError", "ValueError", "CancelledError"}

VARIABLES
    api_url,    \* whether management_api_url is set
    api,        \* the management API: "up" or "silent"
    client,     \* per object: self._client
    made, open, \* httpx clients made so far; those not is_closed
    pc,         \* per task: "idle", "requesting" or "closing"
    at,         \* per task: its local variables
    out         \* how the method or the run ended that ended in this step

vars == <<api_url, api, client, made, open, pc, at, out>>

(* obj, http: the object and the httpx client a task uses; seen: how many   *)
(* httpx clients there were when it called close(); res: what comes next.   *)
NoLocals == [obj |-> "shared", http |-> None, path |-> <<>>, seen |-> 0,
             res |-> "returned"]

Init ==
    /\ api_url \in BOOLEAN /\ api = "up"
    /\ client = [o \in Objects |-> None] /\ made = 0 /\ open = {}
    /\ pc = [t \in Tasks |-> "idle"] /\ at = [t \in Tasks |-> NoLocals]
    /\ out = "none"

Goto(t, label, locals) ==
    /\ pc' = [pc EXCEPT ![t] = label]
    /\ at' = [at EXCEPT ![t] = locals]
    /\ out' = "none"

Return(t, res) ==
    /\ pc' = [pc EXCEPT ![t] = "idle"]
    /\ at' = [at EXCEPT ![t] = NoLocals]
    /\ out' = res

-----------------------------------------------------------------------------
(* Requests *)

(* Mutants: a closed client is used again; every request makes a client.    *)
NeedsFirstClient(o) == client[o] = None
NeedsAnyClient(o) == o \in Objects

NeedsClient(o) == client[o] = None \/ client[o] \notin open

(* Mutant: the new httpx client is not assigned to _client.                 *)
EnsureClientUnassigned(o) ==
    IF NeedsClient(o)
    THEN /\ made < MaxHttp /\ made' = made + 1
         /\ client' = client /\ open' = open \cup {made'}
    ELSE UNCHANGED <<client, made, open>>

EnsureClient(o) ==
    IF NeedsClient(o)
    THEN /\ made < MaxHttp /\ made' = made + 1
         /\ client' = [client EXCEPT ![o] = made']
         /\ open' = open \cup {made'}
    ELSE UNCHANGED <<client, made, open>>

(* Up to the await of client.get(), in a method of the shared object or in  *)
(* the with block of a tool, where __aenter__ has made the client already.  *)
Get(t, o, path) ==
    /\ pc[t] = "idle" /\ o \in {"shared", t}
    /\ IF api_url
       THEN /\ EnsureClient(o)
            /\ Goto(t, "requesting", [NoLocals EXCEPT !.obj = o, !.path = path,
                                      !.http = client'[o]])
       ELSE /\ Return(t, "RabbitMQAdminError")
            /\ UNCHANGED <<client, made, open>>
    /\ UNCHANGED <<api_url, api>>

(* close(): aclose() is called on a client that is not closed, and awaited. *)
StartClosing(t, o, res) ==
    /\ open' = open \ {client[o]}
    /\ Goto(t, "closing", [NoLocals EXCEPT !.obj = o, !.seen = made, !.res = res])
    /\ UNCHANGED <<client, made>>

(* Mutant: the tool closes its client only after a success.                 *)
EndsUnclosed(t, res) ==
    IF at[t].obj = "shared" \/ res # "returned"
    THEN Return(t, res) /\ UNCHANGED <<client, made, open>>
    ELSE StartClosing(t, t, res)

(* A method returns or raises; a tool leaves its with block either way.     *)
Ends(t, res) ==
    IF at[t].obj = "shared"
    THEN Return(t, res) /\ UNCHANGED <<client, made, open>>
    ELSE StartClosing(t, t, res)

Answered(t) ==
    /\ pc[t] = "requesting" /\ api = "up"
    /\ Ends(t, "returned")
    /\ UNCHANGED <<api_url, api>>

(* Mutant: the httpx client is made without a timeout.                      *)
FailsIfUp(t) ==
    /\ pc[t] = "requesting" /\ api = "up"
    /\ Ends(t, "RabbitMQAdminError")
    /\ UNCHANGED <<api_url, api>>

(* An error status, or any request error, timeouts included.                *)
Fails(t) ==
    /\ pc[t] = "requesting"
    /\ Ends(t, "RabbitMQAdminError")
    /\ UNCHANGED <<api_url, api>>

(* What no except clause catches: a body that is no JSON or no list, and    *)
(* the use of a client that another task closed.                            *)
Undecodable(t) ==
    /\ pc[t] = "requesting" /\ (api = "up" \/ at[t].http \notin open)
    /\ Ends(t, "ValueError")
    /\ UNCHANGED <<api_url, api>>

-----------------------------------------------------------------------------
(* close() and cancellation *)

Close(t) ==
    /\ pc[t] = "idle"
    /\ IF NeedsClient("shared")
       THEN /\ client' = [client EXCEPT !["shared"] = None]
            /\ Return(t, "returned") /\ UNCHANGED <<made, open>>
       ELSE StartClosing(t, "shared", "returned")
    /\ UNCHANGED <<api_url, api>>

(* aclose() has returned: _client is reset, whatever it is by now.          *)
Closed(t) ==
    /\ pc[t] = "closing"
    /\ client' = [client EXCEPT ![at[t].obj] = None]
    /\ Return(t, at[t].res)
    /\ UNCHANGED <<api_url, api, made, open>>

(* Cancellation of close() leaves the closed client referenced.             *)
Cancelled(t) ==
    /\ Cancels
    /\ \/ pc[t] = "requesting" /\ Ends(t, "CancelledError")
       \/ /\ pc[t] = "closing" /\ Return(t, "CancelledError")
          /\ client' = IF at[t].obj = t THEN [client EXCEPT ![t] = None]
                       ELSE client
          /\ UNCHANGED <<made, open>>
    /\ UNCHANGED <<api_url, api>>

ApiChanges ==
    /\ api' = IF api = "up" THEN "silent" ELSE "up"
    /\ out' = "none"
    /\ UNCHANGED <<api_url, client, made, open, pc, at>>

-----------------------------------------------------------------------------
Resume(t) == Answered(t) \/ Fails(t) \/ Undecodable(t) \/ Closed(t)

Next ==
    \/ \E t \in Tasks :
          \/ \E o \in {"shared", t} : \E path : Get(t, o, path)
          \/ Resume(t) \/ Close(t) \/ Cancelled(t)
    \/ ApiChanges

(* The timeout of a request, and the end of aclose(), come by themselves;   *)
(* nothing is assumed of the API.                                           *)
Spec == Init /\ [][Next]_vars /\ \A t \in Tasks : WF_vars(Resume(t))

-----------------------------------------------------------------------------
(* Properties *)

(* The variables have their types; a task that waits for an answer waits on *)
(* an httpx client that was made.                                           *)
TypeOK ==
    /\ api_url \in BOOLEAN /\ api \in {"up", "silent"}
    /\ made \in 0..MaxHttp /\ open \subseteq 1..made
    /\ client \in [Objects -> 0..made]
    /\ pc \in [Tasks -> {"idle", "requesting", "closing"}]
    /\ \A t \in Tasks :
          /\ at[t].obj \in {"shared", t}
          /\ at[t].http \in 0..made /\ at[t].seen \in 0..made
          /\ at[t].res \in Outcomes
          /\ pc[t] = "requesting" => at[t].http # None
    /\ out \in Outcomes \cup {"none"}

(* A tool run that has ended has no httpx client of its own left open,      *)
(* however it ended: refused, timed out, cancelled, cancelled again while   *)
(* it closed.                                                               *)
RunsCloseTheirs == \A t \in Tasks : pc[t] = "idle" => client[t] \notin open

(* An open httpx client is forgotten only by a close() that was called      *)
(* before that client was made: its await let another task make it.  With   *)
(* one task at a time nothing is ever left open.                            *)
OnlyOverlapForgets ==
    [][\A o \in Objects :
         client[o] \in open' /\ client'[o] # client[o]
         => \E t \in Tasks : /\ pc[t] = "closing" /\ pc'[t] = "idle"
                             /\ at[t].seen < client[o]]_vars

(* No request is begun on an httpx client that is closed, also after a      *)
(* close() that was cancelled left one behind.                              *)
RequestsBeginOpen ==
    [][\A t \in Tasks : pc[t] = "idle" /\ pc'[t] = "requesting"
                        => at'[t].http \in open']_vars

(* Every request and every close() ends, also when the API is silent.       *)
RequestsEnd == \A t \in Tasks : pc[t] # "idle" ~> pc[t] = "idle"

(* "Close the async HTTP client. Idempotent.": nothing is open afterwards.  *)
CloseLeavesNothing ==
    (\A t \in Tasks : pc[t] = "idle") /\ client["shared"] = None => open = {}
=============================================================================
