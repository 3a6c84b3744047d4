------------------------------- MODULE AdminTools -----------------------------
(***************************************************************************)
(* The admin tools over the management API (tools/admin.py) beside the      *)
(* exchange tools over AMQP (tools/exchange.py), with the settings and the  *)
(* name rules that both sides share.  An agent declares exchanges through   *)
(* either AMQP client and asks the management API for a list.               *)
(*                                                                         *)
(* Every run over the management API is a run of ManagementClient; this     *)
(* module adds what is requested, what the broker answers, and the text.    *)
(* A run of an exchange tool is what it sends, what the broker makes of it  *)
(* and the text; ToolRuns has the stages of its connection.                 *)
(***************************************************************************)
EXTENDS ManagementClient, Names, Settings

CONSTANTS
    Agents,         \* the tasks that run tools, beside requests
    Profiles,       \* settings that are supplied
    ExchangeNames,  \* names that agents use for exchanges
    Resources,      \* what is asked for through the shared client
    Accounts        \* pairs of user name and password that the API accepts

ASSUME AgentsAssumption == Agents \subseteq Tasks

ASSUME NamesAssumption == ExchangeNames \subseteq Seq(DOMAIN Width)

(* What amqp_url is made of is text; a port is a number.                    *)
ASSUME ProfilesAssumption ==
    \A s \in Profiles :
        /\ {s.host, s.port, s.virtual_host, s.username, s.password}
              \subseteq Text
        /\ Plain(s.port)

VARIABLES
    settings,   \* the settings of all tools
    exchanges,  \* broker: the exchanges, as [vhost, name]
    doing,      \* per agent: the exchange it declares or deletes
    known,      \* per name: what agents know of the exchange
    told,       \* what an exchange tool said in this step, of which name, why
    listing     \* what list_exchanges read in this step

avars == <<vars, settings, exchanges, doing, known, told, listing>>

Free == [op |-> "none", name |-> <<>>, vhost |-> Unset, at |-> "free",
         alone |-> FALSE]
Nothing == [result |-> "none", name |-> <<>>, why |-> "none"]
NoListing == [vhost |-> Unset, defaults |-> FALSE, names |-> {}]
Builtin(vhost) == {[vhost |-> vhost, name |-> <<>>],
                   [vhost |-> vhost, name |-> <<"amq", "dot", "x">>]}

AInit ==
    /\ settings \in {s \in Profiles : Valid(s)}
    /\ Init /\ api_url = (settings.management_api_url # Unset)
    /\ exchanges = Builtin(<<Char("/")>>) \cup Builtin(settings.virtual_host)
    /\ doing = [t \in Agents |-> Free]
    /\ known = [name \in ExchangeNames |-> "absent"]
    /\ told = Nothing
    /\ listing = NoListing

(* category of the exception classes, and _run, which calls the rest        *)
(* internal errors.                                                         *)
Label(exc) ==
    CASE exc = "RabbitMQConnectionError" -> "CONNECTION_ERROR"
      [] exc = "RabbitMQChannelError" -> "CHANNEL_ERROR"
      [] exc = "RabbitMQValidationError" -> "VALIDATION_ERROR"
      [] OTHER -> "INTERNAL_ERROR"

-----------------------------------------------------------------------------
(* The exchange tools *)

Says(text) ==
    /\ told' = text
    /\ listing' = NoListing /\ out' = "none"
    /\ UNCHANGED <<api_url, api, client, made, open, pc, at, settings>>
Tells(result, name, why) == Says([result |-> result, name |-> name, why |-> why])

NoConnection ==
    /\ Tells("CONNECTION_ERROR", <<>>, "unreachable")
    /\ UNCHANGED <<exchanges, doing, known>>

Dials == [c \in {"sync", "async"} |-> [s \in Profiles |-> Dial(c, s)]]
Dialled(c) == Dials[c][settings]

(* A broker that answers is the one of the settings, and none lets a user   *)
(* in who has no name or gives no password.                                 *)
Connects(c) ==
    LET to == Dialled(c)
    IN /\ to.host = settings.host /\ to.port = settings.port
       /\ to.user = settings.username /\ settings.username # <<>>
       /\ to.password = settings.password /\ settings.password # <<>>

(* Validation, and what keeps a valid name from being sent, or the broker   *)
(* from touching the exchange.                                              *)
Validated == [name \in ExchangeNames |-> ValidateExchangeName(name)]
Obstacle == [name \in ExchangeNames |->
    IF ~IsShortString(name) THEN "driver"
    ELSE IF BelongsToBroker(name) THEN "broker"
    ELSE "none"]

InvalidExchange(c) ==
    /\ Connects(c)
    /\ \E name \in ExchangeNames :
          /\ Validated[name] # "valid"
          /\ Tells(Label(Validated[name]), name, "validation")
    /\ UNCHANGED <<exchanges, doing, known>>

(* From here on agents are unsure of the exchange, and whoever else is at   *)
(* the same one cannot tell which of them came last.                        *)
IsAt(u, name) == doing[u].at # "free" /\ doing[u].name = name

ExchangeTool(t, c, op, name) ==
    /\ pc[t] = "idle" /\ doing[t].at = "free"
    /\ Validated[name] = "valid" /\ Connects(c)
    /\ doing' = [u \in Agents |->
          IF u = t THEN [op |-> op, name |-> name, vhost |-> Dialled(c).vhost,
                         at |-> "sent", alone |-> ~\E v \in Agents : IsAt(v, name)]
          ELSE IF IsAt(u, name) THEN [doing[u] EXCEPT !.alone = FALSE]
          ELSE doing[u]]
    /\ known' = [known EXCEPT ![name] = "unsure"]
    /\ Says(Nothing) /\ UNCHANGED exchanges

DeclareExchangeTool(t, c) ==
    \E name \in ExchangeNames : ExchangeTool(t, c, "declare", name)
DeleteExchangeTool(t, c) ==
    \E name \in ExchangeNames : ExchangeTool(t, c, "delete", name)

(* A request whose tool has ended already is still the broker's to handle.  *)
Moves(t, place) ==
    doing' = [doing EXCEPT ![t] =
                IF doing[t].at = "late" THEN Free ELSE [@ EXCEPT !.at = place]]

BrokerTakes(t) ==
    /\ doing[t].at \in {"sent", "late"} /\ Obstacle[doing[t].name] = "none"
    /\ LET exchange == [vhost |-> doing[t].vhost, name |-> doing[t].name]
       IN exchanges' = IF doing[t].op = "declare" THEN exchanges \cup {exchange}
                       ELSE exchanges \ {exchange}
    /\ Moves(t, "taken")
    /\ Says(Nothing) /\ UNCHANGED known

(* Other parameters than the exchange has, no permission, if_unused, or a   *)
(* name that cannot be sent or is the broker's own; or it never arrives.    *)
BrokerRefuses(t) ==
    /\ doing[t].at \in {"sent", "late"}
    /\ Moves(t, "refused")
    /\ Says(Nothing) /\ UNCHANGED <<exchanges, known>>

Succeeds(t) ==
    /\ doing[t].at = "taken"
    /\ Tells("done", doing[t].name, "none")
    /\ known' = IF doing[t].alone
                THEN [known EXCEPT ![doing[t].name] =
                        IF doing[t].op = "declare" THEN "declared" ELSE "absent"]
                ELSE known
    /\ doing' = [doing EXCEPT ![t] = Free]
    /\ UNCHANGED exchanges

(* The synchronous client lets the driver's own errors through.             *)
IsRefused(t) ==
    LET obstacle == Obstacle[doing[t].name]
    IN /\ doing[t].at = "refused"
       /\ \/ obstacle = "none" /\ Tells("CHANNEL_ERROR", doing[t].name, "refused")
          \/ /\ obstacle # "none"
             /\ \E res \in {"CHANNEL_ERROR", "INTERNAL_ERROR"} :
                   Tells(res, doing[t].name, obstacle)
       /\ doing' = [doing EXCEPT ![t] = Free]
       /\ UNCHANGED <<exchanges, known>>

(* The link is lost, or the run is cancelled, before the answer is there.   *)
GetsNoAnswer(t) ==
    /\ doing[t].at \in {"sent", "taken", "refused"}
    /\ \E res \in {"CHANNEL_ERROR", "INTERNAL_ERROR", "cancelled"} :
          Tells(res, doing[t].name, "lost")
    /\ doing' = [doing EXCEPT ![t] =
                    IF doing[t].at = "sent" THEN [@ EXCEPT !.at = "late"] ELSE Free]
    /\ UNCHANGED <<exchanges, known>>

ExchangeStep(t) ==
    \/ BrokerTakes(t) \/ BrokerRefuses(t)
    \/ Succeeds(t) \/ IsRefused(t) \/ GetsNoAnswer(t)

-----------------------------------------------------------------------------
(* The tools over the management API *)

(* _encode_vhost                                                            *)
EncodeVhost == [v \in {s.virtual_host : s \in Profiles} |-> Quote(v)]

(* An empty vhost is no filter.                                             *)
Path(resource, vhost) ==
    IF vhost = <<>> THEN <<resource>> ELSE <<resource, EncodeVhost[vhost]>>

Filters == {<<>>, settings.virtual_host}

(* A step of ManagementClient leaves the exchanges alone.                   *)
Quietly ==
    /\ told' = Nothing /\ listing' = NoListing
    /\ UNCHANGED <<settings, exchanges, doing, known>>

Asks(t, o, path) == Get(t, o, path) /\ Quietly

ListQueuesTool(t) == \E v \in Filters : Asks(t, t, Path("queues", v))
ListExchangesTool(t) == \E v \in Filters : Asks(t, t, Path("exchanges", v))
ListBindingsTool(t) == \E v \in Filters : Asks(t, t, Path("bindings", v))
GetNodeStatsTool(t) == Asks(t, t, Path("nodes", <<>>))
SharedRequest(t) ==
    \E resource \in Resources : Asks(t, "shared", Path(resource, <<>>))

(* The API splits a path at "/" and decodes its parts; an exchange is shown *)
(* in the virtual host it was asked for.                                    *)
Served(path) ==
    {e \in exchanges : Len(path) = 1 \/ Decode(path[2]) = e.vhost}
Authorised ==
    <<ManagementUsername(settings), ManagementPassword(settings)>> \in Accounts

(* Mutant: "amq" without the dot is hidden.                                 *)
HiddenByAmq(name) == name = <<>> \/ IsPrefix(<<"amq">>, name)

Hidden(name) == name = <<>> \/ IsPrefix(<<"amq", "dot">>, name)

(* The text of list_exchanges, made from the answer after the with block.   *)
Answer(t) ==
    /\ Authorised /\ Answered(t)
    /\ IF at[t].obj = t /\ at[t].path[1] = "exchanges"
       THEN \E defaults \in BOOLEAN :
            listing' = [vhost |-> IF Len(at[t].path) = 1 THEN <<>>
                                  ELSE settings.virtual_host,
                        defaults |-> defaults,
                        names |-> {e.name : e \in
                            {f \in Served(at[t].path) :
                                defaults \/ ~Hidden(f.name)}}]
       ELSE listing' = NoListing
    /\ told' = Nothing /\ UNCHANGED <<settings, exchanges, doing, known>>

OtherStep(t) ==
    /\ Fails(t) \/ Undecodable(t) \/ Close(t) \/ Closed(t) \/ Cancelled(t)
    /\ Quietly

ApiStep == ApiChanges /\ Quietly

-----------------------------------------------------------------------------
ManagementTool(t) ==
    \/ ListQueuesTool(t) \/ ListExchangesTool(t) \/ ListBindingsTool(t)
    \/ GetNodeStatsTool(t)

ANext ==
    \/ NoConnection
    \/ \E c \in {"sync", "async"} :
          \/ InvalidExchange(c)
          \/ \E t \in Agents : DeclareExchangeTool(t, c) \/ DeleteExchangeTool(t, c)
    \/ \E t \in Agents : ExchangeStep(t)
    \/ \E t \in Tasks :
          \/ t \in Agents /\ doing[t].at \in {"free", "late"} /\ ManagementTool(t)
          \/ SharedRequest(t) \/ Answer(t) \/ OtherStep(t)
    \/ ApiStep

AResume(t) ==
    \/ Answer(t)
    \/ (Fails(t) \/ Undecodable(t) \/ Closed(t)) /\ Quietly

ASpec == AInit /\ [][ANext]_avars /\ \A t \in Tasks : WF_avars(AResume(t))

-----------------------------------------------------------------------------
(* Properties *)

(* Both clients dial what the settings say - host, port, virtual host, user,*)
(* password, TLS and its files - for every virtual host, if no character of *)
(* the host, the user name and the password means something in a URL.       *)
DialsAsConfigured ==
    Plain(settings.host) /\ Plain(settings.username) /\ Plain(settings.password)
    => \A c \in {"sync", "async"} :
          Dialled(c) =
             [tls |-> settings.ssl_enabled, user |-> settings.username,
              password |-> settings.password,
              host |-> settings.host, port |-> settings.port,
              vhost |-> settings.virtual_host,
              context |->
                [ca |-> IF IsGiven(settings.ssl_ca_certs)
                        THEN settings.ssl_ca_certs ELSE Unset,
                 cert |-> IF IsGiven(settings.ssl_certfile)
                             /\ IsGiven(settings.ssl_keyfile)
                          THEN settings.ssl_certfile ELSE Unset]]

(* What an agent reads in a list of its virtual host, or of all, agrees with*)
(* the last success that agents were told of, through whichever client: no  *)
(* exchange of theirs is hidden as one of the broker's, and none is shown   *)
(* that they could not have declared.  Of an exchange that a later run      *)
(* failed on, or that two were at together, agents know nothing.            *)
ListedAsDeclared ==
    listing.vhost \in Filters /\ ~listing.defaults /\ listing # NoListing
    => /\ listing.names \subseteq {n \in ExchangeNames : known[n] # "absent"}
       /\ {n \in ExchangeNames : known[n] = "declared"} \subseteq listing.names

(* A name that validation accepts, but for the default exchange, can be sent*)
(* and is not one of the broker's own; what it raises is a validation error,*)
(* but for a name that no encoding has.                                     *)
NamesAreDecided ==
    /\ told.why \in {"driver", "broker"} => told.name = <<>>
    /\ told.why = "validation" /\ told.result # "VALIDATION_ERROR"
       => Has(told.name, "lone")

(* The asynchronous client logs in with the user name and the password of   *)
(* the settings, as the synchronous one does.                               *)
ClientsLogInAlike == Connects("async")
=============================================================================
