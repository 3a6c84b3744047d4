# Verification of langchain-rabbitmq

TLA+ models of langchain-rabbitmq, the TLC runs that check them on small
instances, and proofs by TLAPS for all values of the constants.  Paths below are
relative to `src/src/langchain_rabbitmq/`.

    tlc -config SyncClient.cfg MCSyncClient      # a run: module MC..., its .cfg
    tlapm SyncClientProofs.tla                   # the proofs of a module

`PROJECT.json` lists every run with its properties, the lines of code each
definition stands for, one mutant per property, the findings, the hazards and
the theorems.

## 1. The system

The library gives a language-model agent 21 tools over RabbitMQ.  A tool makes a
client, the client talks AMQP through pika or aio-pika, and a person may also use
the clients directly for a long time, which is where most of the state is.

| Component | State it keeps | Operations | Interacts with |
|---|---|---|---|
| `RabbitMQClient` (`utilities/rabbitmq.py`) | `_connection`, `_channel` | connect, close, 6 queue, 3 exchange, 5 message operations, check_health, get_connection_info | pika objects, which change under it only while it does I/O; the broker |
| `AsyncRabbitMQClient` (`utilities/async_rabbitmq.py`) | the same two and `_pending_messages` | the same operations as coroutines | aio-pika robust objects, which reconnect on their own; other tasks, at every await |
| Retry policy (`utilities/_retry.py`) | tenacity's attempt count and wait | make_sync_retry, make_async_retry | wraps `_connect_once` in `connect()` |
| Tool base (`tools/_base.py`) | none between runs | `_run`, `_arun` | makes a client per run, turns errors into text |
| Message, queue, exchange tools (`tools/*.py`) | none | 5 + 6 + 3 tools | one client operation each |
| Admin tools (`tools/admin.py`) | none | 3 over AMQP, 4 over HTTP | client, management client |
| Management clients (`utilities/management.py`) | the httpx client | 5 GETs, close | HTTP API |
| Settings, models, exceptions, toolkit | immutable data | constructors | everything |

What is hard here, and what each component must get right:

* **Blocking client.** Two references to pika objects that fail at different
  moments: the connection is checked before use, the channel is not, and every
  operation has its own idea of which errors reset the channel.  It should use
  the channel of the connection it checked, report what happened as one of its
  own errors, never wedge, leak no connection, and tell the truth about health.
* **Messages over it.** Delivery tags belong to one channel, while the client
  replaces channels silently.  A publish that returned must not be lost; a settle
  must reach the delivery it was meant for.
* **Async client.** State is read before an await and written after it, with no
  lock, while tasks share the client and can be cancelled at every await.
  There should be one connection, each delivery settled once and settlable, and
  nothing left by `close()`.
* **Retry.** Attempts and waits have bounds, the loop ends, also when the broker
  falls silent between the dial and the channel, and it should retry what the
  settings promise.
* **Management clients.** An httpx client is made when it is needed, used across
  an await, and closed by whoever calls `close()`, with no lock.  Every request
  must end, none may begin on a closed client, and nothing should stay open.
* **Names and settings.** Three encoders and two validators, in different files,
  must agree with each other and with the broker: which virtual host is reached,
  which names may be declared, which exchanges are the broker's own.
* **Tools.** Every run must give back its connection and what it holds, whether
  it succeeds, fails, loses its connection or is cancelled, and its text must be
  true when the agent reads it.  The answer to a request may be lost after the
  broker acted on it.

## 2. The modules

    SyncClient ---------- SyncMessaging         ConnectRetry        AsyncClient
        |                  (extends it)              |                   |
    SyncClientProofs -- SyncMessagingProofs   ConnectRetryProofs  AsyncClientProofs

    ToolRuns  --implements-->  Mailbox      ManagementClient  Names  Settings
        |                                           \           |    /     \
    ToolRunsProofs                                   `---- AdminTools   SettingsProofs
                                                               |       /
                                                        AdminToolsProofs

The MC modules name the finite sets that the cfgs give to the constants.

**SyncClient** - `RabbitMQClient` alone.  `connection` and `channel` are the two
references; `connOpen`, `chanOpen` and `confirming` what pika's objects say of
themselves; `link`, `bchan` and `up` the broker's side.  An operation is two
steps: `RequireChannel`, up to the broker call (with the connect it may need),
and the call, with one action per operation.  Between the two anything may happen
to the link; pika notices only when the client does I/O, so `connOpen` and `link`
can differ.  A connection has one channel, with its number, as the code never
opens another.  check_health has two calls and so a third step, `"probe"`.
`ConnectBreaks` is a `_connect_once` that fails after `BlockingConnection`
returned: the link is lost, at one of the two following calls.

**SyncMessaging** extends it with one queue and the caller.  Every action is an
action of SyncClient joined with what it does to the messages: `ready`, the tags
`delivered` and `unacked` per channel, `gone`.  `receipts` is what the caller
holds: a tag, and, not visible to the client, the channel it came from.  `asked`
and `stray` are history: what the caller had dropped, and the channels of which a
receipt was settled on another channel.

**ConnectRetry** - the loop of tenacity around a body, either `_connect_once`
or one that lets the driver's errors through.  `_connect_once` has two phases:
`dialling`, which `connection_timeout` bounds, and `opening`, the calls that open
the channel and turn on confirms (or set the prefetch), which nothing bounds but
the `heartbeat`, if there is one.  `peer` is what the broker does: answer, be
unreachable, or be silent behind a connection that stays up.  The module shows that
`connect()` makes a single attempt whatever the settings, which is why the other
modules have no retry in theirs.

**AsyncClient** - tasks over one `AsyncRabbitMQClient`.  `pc[t]` is the await a
task stands at, `at[t]` its local variables; the steps between two awaits are
atomic, as asyncio runs them.  aio-pika's objects are modelled from how the code
uses them.  A link that is lost (`LinkLost`) takes its channels and outstanding
deliveries with it at the broker, and is noticed later (`LinkNoticed`): until then
the connection is `away` and `dead`, its channels are `deaf`, a call waits, and an
ack, which only writes a frame, returns.  The same holds of a channel that the broker
closes on its own (`ChannelLost`, `ChannelNoticed`).  A connection whose link is down
is then restored in the background without being `is_closed`, and a robust channel
that is lost is reopened as the same object with tags from 1 again (`gen` counts
that).  `Answers` lets a call be
answered that was sent before another task called `close()`.  A connection that the
client closed over a live link is `lingering` at the broker until that has read of it,
which a cancelled `close()` does not wait for.  `stranded`, `forgotten` (connections
that were overwritten while open or whose close was cancelled), `twice` and `wrong`
are history.

**ToolRuns** - concurrent runs of the AMQP tools on one queue.  A run's client
lives for one operation, so it is `connecting`, `working`, `closing`; the text
is made in the step that leaves the `with` block, with the decoding that may
raise.  Synchronous and asynchronous tools differ in which errors are translated,
and both outcomes are alternatives of the same action.  A run whose `close()` is
cancelled, or whose `__aenter__` fails or is cancelled after the connection was made,
may leave its connection (`abandoned`), with what it holds, until it is collected
or its link ends (`Collected`).  A message that is published to a queue that does not
exist is dropped by the broker and confirmed all the same, since the tools do not
pass `mandatory`.

**ManagementClient** - the two HTTP clients.  Per object (one shared by all
tasks, one per tool run) `client` is `_client`, a number for an httpx client of
which `open` has those that are not `is_closed`.  The awaits are the request and
`aclose()`.  An API may be `silent`: accept and not answer.  `at[t].seen` is how
many httpx clients there were when the task called `close()`, which no guard
reads.

**Names** and **Settings** - the pure functions: `_validate_amqp_name` and
`_validate_exchange_name`; the validators of the settings, `amqp_url`, what each
client dials, and the fallbacks of the management credentials.  A name is a
sequence of pieces, so that what is reserved or several bytes wide is a value TLC
can tell apart, and `Bytes` counts what they take in UTF-8.  The client's limit
(`MaxNameBytes`) and the driver's (`ShortStringBytes`) are two constants; the
assumption is only that the first is no larger.  In Settings a piece is a character with the number of times it is
percent-encoded: `quote` adds one, decoding takes one away.  `ReadUrl` is how
aio-pika takes apart what `amqp_url` put together, at the first `/`, the last `@`
before it, and the first `:` on either side of that.

**AdminTools** extends these three with the exchanges of the broker and the tools
that name them: declare and delete through either AMQP client, and the four list
tools as runs of ManagementClient, each action of which is joined with what it means
here.  A run of an exchange tool (`doing`) sends its request, which the broker takes
or refuses (other parameters, no permission, a name it cannot have), and then its agent
is told.  The answer can be lost, or the run cancelled, before or after the broker
acted, and a request whose run has ended already may still be handled (`late`).
`exchanges` is the broker's; `known` what agents know of each name: the last
success they were told of, or nothing since a run that failed on it or two runs that
overlapped.  The management API lets in whom `Accounts` lists, so that credentials of
its own may be accepted or refused.

**Mailbox** - what the tools promise, without connections: a message waits, is
taken by one, or is gone; looking at it leaves it waiting; one that no queue took is
dropped.  ToolRuns implements
it with `waiting` mapped to what is ready, what is held unacknowledged, and what a
run has got with auto_ack and not shown yet.

## 3. The runs

| Run | Shows | Bounds |
|---|---|---|
| sync_client | all eight client properties | 3 connections, all operations |
| sync_messaging | no message is lost unasked, which receipts work, what is outstanding is reachable | 2 connections, 2 messages, 2 tags, all operations on a queue |
| connect_retry | attempts, waits, and that connect() ends whatever the broker does if a heartbeat watches it | max_retries 0..6, delays 0..2, heartbeat on and off |
| async_task | deliveries can be settled, close() leaves nothing but what a cancellation kept it from, no operation dials beside an open connection | 1 task, all operations, 2 connections, 2 channels, 2 incarnations, 1 tag, cancellations and losses |
| async_settle | one acknowledgement per delivery | 2 tasks, 1 connection, 2 channels, 2 incarnations, 2 tags |
| tool_runs | ToolRuns implements Mailbox, runs give back what they hold before they answer unless they are cancelled, fetched messages return, losses are reported | 2 runs of all tools, 2 messages |
| management | the properties of the management client and of the dialled settings | 2 tasks of which one also runs tools, cancellations, 2 httpx clients, 7 settings of which 4 are valid |
| exchanges | lists agree with what agents were told, and names are decided by validation, through both AMQP clients and the API | 2 agents, 6 names with a limit of 5 bytes, lost and late answers, refusals, 1 httpx client |

Two connections are what the client's hazards need: one that is referenced and
one that replaced it or is being made; sync_client has a third, beyond a wedge and
its way out.  Two tags are needed for `multiple` and for
a stale tag; two messages for one to be lost while another is there; two tasks or
runs for a race.  Two
httpx clients are the one that is closed and the one made meanwhile.  The names
are at the limit and beyond it, in bytes and not in characters, with the reserved
prefix and nearly so; the valid settings have a virtual host with a `/` and with
what looks like an encoded one.  management and exchanges are two runs of one
specification because their product is beyond TLC's time: the first has no exchange
names, the second no requests of other tasks.  max_retries up to 6 lets the exponential wait reach its cap.
Runs with a VIEW leave out variables that guard nothing and that the invariants
of the run do not read (how the last operation ended; in AsyncClient also the
caller's receipts); an action property may read them in the state after a step, as TLC
checks it on every step it takes.  Symmetry is used between interchangeable tasks, runs and
messages, for safety properties only.  async_task has one task because with two
its properties are false, or of another kind: see the refuted statements below.  Its one tag is enough for an old tag
to come again in another incarnation.  Deadlock
is checked in all runs but connect_retry, which is done when the loop is.

**Fairness.** ConnectRetry assumes weak fairness of the loop, which is enabled only
when the code's own schedule makes it go on: a sleep is finite; `connection_timeout`
ends a dial; and the opening of the channel goes on when the broker answers, when the
connection breaks, or, with a silent peer, when a heartbeat is missed.  With
`heartbeat=0` nothing is assumed of a silent peer: the loop then is not enabled, and
HeartbeatEndsConnect does not speak of it (`ConnectEnds`, below, does and is false).
The broker gets no fairness.  AdminTools assumes that a task that waits for the
management API or for `aclose()` goes on: httpx ends each phase of a request after
`_DEFAULT_TIMEOUT`, and a client only closes sockets.  The API gets none: it may
stay silent for ever, and RequestsEnd holds because of the timeout.  (A server
that sends a byte every nine seconds would not be cut off; that is left out.)
Nothing else claims liveness: a blocking call on a dead link ends only by
heartbeat or timeout, which the settings can turn off (`heartbeat=0`).

## 4. Findings

Four runs are expected to fail.  Each checks one sentence of the documentation or
comments, quoted in PROJECT.json, and TLC's trace shows the code doing otherwise:

* `sync_wedge`: after a refused operation the next fails `assert self._channel is
  not None`, and so does every other until `close()` or `connect()`.
* `connect_attempts`: `connect()` never retries, as the retried exceptions are
  wrapped before the policy sees them.
* `async_connections`: first operations that overlap open two connections.
* `tool_ack`: the ack tool says "Acknowledged" of a message back in the queue.

TLC refutes these statements too, most of them promises of a docstring or a text.
They stand in their modules; a cfg that names one, with the constants given here (of
the MC module; `Cancels` and `Losses` FALSE and bounds of 1 where nothing is said),
shows the trace:

| Statement | Instance | What happens |
|---|---|---|
| `RequireReturnsOpen` | SyncClient, PublishOps, MaxConn = 2 | "An open pika blocking channel" (`rabbitmq.py:183`): after a publish to an exchange that does not exist `_require_channel` returns the channel the broker closed, as `publish_message` does not catch that error |
| `ErrorsAreToolErrors` | SyncClient, FewOps, MaxConn = 2 | pika's own exceptions reach the caller when the link is lost |
| `DegradedIsConnected` | SyncClient, FewOps, MaxConn = 2 | "DEGRADED: Connected but ..." (`_models.py:151`): a link that is lost under the probe is DEGRADED and the connection is closed, since the class of the exception decides |
| `SettleNeedsItsChannel` | SyncMessaging, AckOps, MaxConn = 2, MaxMsgs = 2, MaxTags = 1 | an ack whose channel is gone is sent on a new channel (`rabbitmq.py:742`) and returns |
| `ConnectEnds` | ConnectRetry, MaxRetries = 1, MaxDelay = 0, CHECK_DEADLOCK FALSE | with `heartbeat=0` a peer that falls silent after the dial keeps `connect()` for ever; `channel_timeout` ("Channel operation timeout in seconds", `config.py:129`) is read nowhere |
| `AssertionHolds` | AsyncClient, 2 tasks, CloseOps, MaxConn = MaxChan = 2 | another task's `close()` resets `_connection` while `_connect_once` awaits, and the operation fails `assert self._connection is not None` (`async_rabbitmq.py:132`) |
| `UnackedReachable` | AsyncClient, 2 tasks, ConsumeOps, MaxConn = 2, MaxChan = 3 | two tasks get two channels, whose equal tags collide in `_pending_messages` |
| `SettlesWhatWasMeant` | AsyncClient, 2 tasks, AckOps, MaxConn = 2, MaxChan = 3 | by the same collision a task acknowledges the delivery of another |
| `SettledOnce` | AsyncClient, AckOps, Multiples = Both, MaxTags = 2 | tags settled by `multiple=True` are settled again, which closes the channel |
| `CloseForgetsClosed` | AsyncClient, 2 tasks, CloseOps, MaxConn = MaxChan = 2 | `close()` forgets a connection opened while it waited |
| `EndedRunsAreClosed` | ToolRuns, 1 run, QueueTools, Known | "each connection is already closed after every operation" (`admin.py:464`): a cancellation at the close of the channel (`async_rabbitmq.py:187`) skips that of the connection, with its exclusive queue |
| `AcknowledgedIsQueued` | ToolRuns, 1 run, PublishTools, Known | "Broker acknowledged." (`message.py:258`) of a message that no queue took |
| `CloseLeavesNothing` | AdminTools.cfg | `close()` waits for `aclose()`, another task makes a client, `close()` forgets it |
| `ClientsLogInAlike` | AdminTools.cfg, Profiles AtReserved | a password with `/` or `%40` is not quoted in `amqp_url`: the asynchronous client reads another host or another password out of the URL |

Noted without a run:

* `retry_delay` is called the "Seconds to wait between consecutive retry attempts"
  (`config.py`) and is only the first of exponential waits.
* The comment "Enable publisher confirms" in the async `_connect_once` stands above
  a `set_qos`; aio-pika turns confirms on by itself.
* The async `_connect_once` builds the TLS context before its `try`, so that a file
  that cannot be read raises OSError (`ContextFails`), although the docstring says
  "RabbitMQConnectionError: On any connection failure."
* `_build_connection_params` documents an error for missing certificate paths that
  it never raises: a certificate without its key is left out without a word, in
  both clients (`Context`).
* An empty `management_username` falls back to `username`, an empty
  `management_password` does not fall back to `password`.
* The check_health tool of an agent whose broker is unreachable fails on entering its
  `with` block: the agent reads CONNECTION_ERROR, not the verdict DOWN.
* An exclusive queue is gone, with its connection, when the tool says it was declared.
* An unknown `encoding` raises after a message was fetched and acknowledged: the
  message is lost, though the agent is told of an error (`LossIsReported`).
* get_connection_info says connected while the link of a robust connection is down.

## 5. The proofs

**SyncClientProofs** proves for every number of connections and every set of
operations the whole of what sync_client checks: `TypeCorrect`, `ChannelMatches`,
`HealthTrue`, `PublishTaken`, `LeaksOnlyByConnect`, `CloseReleasesAll`,
`WedgeIsReset` and `CloseIsWayOut`.  The invariant `IInv` adds to
the type invariant how the three views of a connection are nested (`ViewsNested`:
what the broker has open pika has not yet seen closed, and nothing exists beyond
`opened`) and how the references relate to each other and to the operation under
way (`RefsMatch`: a channel that is open is the channel of `_connection`, and has
confirms unless it is broken).  The type invariant alone is not inductive: that
an operation uses the channel of the connection it checked follows only because
no path leaves an open channel of another connection in `_channel`.  The step is
proved action by action, with one lemma for each of the shapes the operations
share (served, refused, uncaught).  `CloseIsWayOut` is about the operation that
follows a close() and has an invariant of its own, of a client to which only the
environment has done anything since.

**SyncMessagingProofs** proves all that sync_messaging checks: `MTypeCorrect`,
`NothingIsLost`, `ReceiptsStayGood` and `HeldStaysReachable`.  Every step is one of
SyncClient (`ClientSteps`), so what SyncClientProofs knows of connections holds
here, and one lemma (`ClientEffect`) says all that matters of it for messages: the
broker opens channels of new connections only, and an open channel of `_connection`
is in `_channel`.  On top come the types and, while `stray` is empty, two facts that
need each other: the tags outstanding on an open channel are exactly the caller's
receipts for it (`Match`), and what the broker dropped the caller asked it to drop
(`Safe`).  Without `Match` a settle with `multiple` could drop a delivery that the
caller does not know of.  One lemma treats all steps that deliver and settle
nothing (`QuietKeeps`), so that only settling and delivering are argued in full.

**ConnectRetryProofs** proves all safety properties of connect_retry for every
bound: `TypeCorrect`, `OneAttempt`, `AttemptsCorrect` and `WaitsAreBounded`.
At most `max_retries` attempts are made, giving up early only for an error that is
not retried, exactly one when the body is `_connect_once`; and a wait is between
`retry_delay` and eight times it, by an invariant (`WInv`) that bounds the sum of
the waits and counts the one under way.

**AsyncClientProofs** has two parts.  For any number of tasks, connections,
channels and incarnations it proves `TypeCorrect`, and `SettlesOnce` if no caller
passes `multiple=True`, which is the assumption without which it is false.  The
invariant is `Types /\ Nested /\ AllPast /\ Once`: an open channel is on
a connection that has its link, an outstanding delivery of its channel's present
incarnation (`Nested`), every message that
is stored or being settled is one its channel has given out (`AllPast`), and such a
message is outstanding if its channel still lives, is in one place only, and is
being settled by one task at most (`Once`).  Without `AllPast` a new delivery could be one
that a task already holds.  Actions that neither give out nor settle anything are
disposed of by frame lemmas (`Steady`, `NoneTakes`), so that `Once` is argued only
for consuming, taking and settling.

For a client that one task uses (`ASSUME Tasks = {t}`; with two the statements are
false) it proves the rest of what async_task checks: `AloneReaches`, `AloneCloses` and
`AloneDialsOnce`.  The task still has two opponents: aio-pika, which loses, notices and
restores links between any two awaits, and whoever cancels it at one.  The
invariant `Sole(t)` adds where the task stands to what the references are (`Place`:
at which await `_connection` and `_channel` refer to what the task holds) and what is
kept (`Kept`: every outstanding delivery is of the client's channel and is stored or
being settled, unless it is stranded or its connection forgotten).  `AloneCloses` needs
also that what lingers at the broker is what a cancelled close left (`Lingers`).

**ToolRunsProofs** proves for every set of runs and messages `TypeCorrect`,
`RunsGiveBack`, `HeldGoBack`, `LossReported` and `ImplementsMailbox`: the whole of
what tool_runs checks.  The invariant adds to the types what a run has in its hands
(`Hands`: what it holds unacknowledged is what it got, and the owner of an
exclusive queue got nothing) and that a message is in exactly one place
(`OnePlace`).  Without `OnePlace` the step that shows a message would not be
`Take`: the message could still wait elsewhere.  One lemma per action shows that it
keeps the invariant, and one that it is a step of Mailbox or a stutter; one lemma
each states what a step must do to be `Put`, `Take`, `Peek` or `Discard`.
`RunsGiveBack` is about every answer but "cancelled": a run that is cancelled while
it closes gives nothing back, see `EndedRunsAreClosed`.  `LossReported` includes these
runs, whose agents are told of the cancellation, but not a message that never reached
a queue, see `AcknowledgedIsQueued`.

**SettingsProofs** is about the text of a connection, for every set of characters
and texts of every length.  `DecodeQuote`: decoding undoes quoting.
`PlainUrlIsRead`: if host, port, user name and password are plain, what `amqp_url`
puts together is taken apart where it was joined, whatever the virtual host is,
so that both clients dial the same.  `ReadVhostIsGiven` has no such condition: a
client that gets in with the user name, password, host and port of the settings is in
their virtual host, whatever characters these have.  A URL taken apart elsewhere would
have parts of other lengths.  The lemmas say what the first and the last
occurrence of a character are and what a joined text is before and after it.

**AdminToolsProofs** proves for every set of tasks, agents, settings, names and
requests all that management and exchanges check but the liveness property:
`RunsClose`, `OverlapForgets`, `RequestsOpen`, `NamesDecided`, `TypeCorrect`,
`DialledAsConfigured` and `ListIsDeclared`.

* The first three rest on `IInv`: a task has an open httpx client of its own only
  during its request (`OwnIsInUse`), and the object a task closes refers to nothing
  open but what was made after it called `close()` (`ClosesWhatItSaw`).  The second
  part is what makes the race visible: `close()` may forget an open client, and it
  is then always a younger one.  `TypeCorrect` adds the local variables (`Locals`).
* `NamesDecided` needs that what is sent was validated and went to the virtual host
  of the settings (`Sent`), and that what validation accepts fits into a short string,
  whatever the driver's limit is beyond the client's, and is not the broker's
  (`AcceptedNames`).
* `DialledAsConfigured` follows from PlainUrlIsRead and from settings that were
  validated once and stay as they are (`SettingsValid`).
* `ListIsDeclared` joins all components.  Its invariant `LInv` says, beside `Sent`, that
  an exchange at the broker is the broker's own or one that agents do not know to be
  absent, in the virtual host of the settings, and that one they know to be declared is
  there (`BrokerHasDeclared`); for a run that is alone at its exchange this looks
  ahead, from the moment the broker took the request to the moment the agent is told.
  A list of exchanges under way has asked for one of
  the two it may ask for (`ListsAskedFor`).  It needs that either AMQP client that
  gets in is in that virtual host (from ReadVhostIsGiven), that the
  management API decodes the name the tool encoded (DecodeQuote), and that no valid
  exchange name is one that a list hides.

The proofs use the named assumptions on the constants and nothing else.  Only
model-checked are `HeartbeatEndsConnect` and `RequestsEnd`, which are liveness and
beyond this prover, and the statements refuted in section 4, which are false.

## 6. Assumptions and abstractions

* pika tells the client of a lost link only inside a call that does I/O, and a
  half-finished `_connect_once` means that the link is lost.  `basic_ack`,
  `basic_nack` and `basic_reject` send and do not wait for an answer.
* The broker closes a channel for an unknown delivery tag, requeues what a closed
  channel had outstanding at its old position, and drops what a deleted queue
  held.  In SyncMessaging the queue is durable and messages are persistent, so a
  restart keeps them; with other settings it may lose them, as documented.
* In AsyncClient a `connect_robust` that raises or is cancelled leaves nothing open, and
  the broker gives up a lost link no later than the client notices the loss, so that
  deliveries are back before a robust channel is reopened.  When a close is requested
  the deliveries go back at once; that the connection itself still stands until the
  broker has read the request is `lingering`.
* In ConnectRetry a peer that sends heartbeats answers what it is asked.
* In AsyncClient an answer is processed when it arrives: a task whose answer is
  there resumes before a step of another task that ends the channel.  A call that
  a loss interrupts has raised before the channel is open again.
* In ToolRuns the queue is a set, as no property depends on order, and messages
  are not published twice: a duplicate made by an agent that repeats a publish
  whose confirmation was lost is another message.
* Counters are bounded in guards by MaxConn, MaxChan, MaxGen, MaxTags, MaxMsgs,
  MaxHttp: steps beyond a bound are not taken.
* An httpx client is `is_closed` as soon as `aclose()` is called.  A request on a
  client that another task closes may be answered, fail, or raise an error that is
  not an httpx request error.
* In AdminTools the list an agent reads is made when the answer arrives, and the
  exchanges do not change between the answer of the API and that moment.  Only the
  agents change exchanges, and these are durable and not auto_delete.  Virtual
  hosts made of dots, which a path normaliser may rewrite, are left out.
* In Settings the `/` stands also for `?` and `#`, which end the authority of a URL
  as well, and the port is plain text (`ProfilesAssumption`).  A client gets in
  only at the host and port of the settings and with their user name and password,
  neither of which is empty (`Connects`): no other broker is modelled.  `amqp_url`
  puts no brackets around an IPv6 address, which is therefore not `Plain`.
* Left out: bodies, headers, the contents of TLS files, log lines, wording, the
  arguments of declarations other than exclusive, bindings and routing.

## 7. Not modelled, and what could follow

* The toolkit (`tools/toolkit.py` and the `__init__` modules) only constructs the 21
  tools with shared settings: no state and no behaviour over time.
* Reading settings from the environment and the numeric ranges of its fields:
  pydantic enforces both before any object of this library exists.
* The result models beyond receipt and health verdict, the columns of the list
  tools, and the formatting of errors: layout, about which no property speaks.
* Routing between exchanges and queues.  SyncMessaging has one queue that a publish
  reaches or not; what a broker does with bindings is not this library's code.
* What tools of one agent do for each other beyond one queue: each run has a
  connection of its own, and ToolRuns has the only thing they share.

SyncMessaging is deliberately not claimed to implement Mailbox: a purge and a
receipt settled on another channel make messages go that nobody took, so the mapping
would have to hide what is wrong.
