----------------------------- MODULE ConnectRetry -----------------------------
(***************************************************************************)
(* The tenacity policy of utilities/_retry.py and the loop that connect()   *)
(* of either client runs under it.  The policy repeats a body while the     *)
(* body raises one of the driver's own connection errors.  The body of      *)
(* connect is _connect_once, which turns every exception into a             *)
(* RabbitMQConnectionError first; the unit tests run the policy with bodies *)
(* that raise the driver's errors themselves.                               *)
(*                                                                         *)
(* _connect_once first dials, for at most settings.connection_timeout, and  *)
(* then opens the channel and turns on confirms (or sets the prefetch),     *)
(* which no timeout bounds: a peer that has become silent, one whose host   *)
(* still takes what is sent to it while its process answers nothing, is     *)
(* given up only by a heartbeat that is missed, and settings.heartbeat may  *)
(* be 0.                                                                    *)
(***************************************************************************)
EXTENDS Naturals

CONSTANTS
    MaxRetries,     \* bound on settings.max_retries
    MaxDelay        \* bound on settings.retry_delay, in units of time

ASSUME BoundsAssumption == MaxRetries \in Nat /\ MaxDelay \in Nat

Bodies == {"connect_once", "raw"}
Transient == {"AMQPConnectionError"}   \* what retry_if_exception_type accepts
Raisable == {"AMQPConnectionError", "ValueError"}
Errors == Raisable \cup {"RabbitMQConnectionError", "none"}
Peers == {"answers", "silent", "unreachable"}
Trying == {"dialling", "opening"}
Ended == {"returned", "raised"}

VARIABLES
    max_retries, retry_delay,   \* the settings
    heartbeat,  \* settings.heartbeat is not 0
    body,       \* what the loop runs
    peer,       \* what the broker does
    attempt,    \* attempt_number of the attempt that runs or ran last
    phase,      \* "dialling", "opening", "sleeping", "returned" or "raised"
    wait,       \* length of the last sleep
    waited,     \* all sleeps together
    cause,      \* what the driver raised in the last attempt
    error       \* what the body raised in the last attempt

settings == <<max_retries, retry_delay, heartbeat, body>>
vars == <<settings, peer, attempt, phase, wait, waited, cause, error>>

Init ==
    /\ max_retries \in 0..MaxRetries /\ retry_delay \in 0..MaxDelay
    /\ heartbeat \in BOOLEAN /\ body \in Bodies /\ peer \in Peers
    /\ attempt = 1 /\ phase = "dialling"
    /\ wait = 0 /\ waited = 0 /\ cause = "none" /\ error = "none"

(* Mutant: _connect_once lets the driver's error through.                   *)
BodyRaisesRaw(exc) == exc

(* Mutant: it is wrapped in an error of another class.                      *)
BodyRaisesOther(exc) == "RabbitMQChannelError"

(* _connect_once translates whatever the driver, or the construction of its *)
(* parameters, raises.  (The asynchronous client builds its TLS context     *)
(* before the try block: an OSError of a certificate leaves it as it is. The*)
(* policy repeats neither the one nor the other.)                           *)
BodyRaises(exc) == IF body = "connect_once" THEN "RabbitMQConnectionError"
                   ELSE exc

(* Mutant: max_retries is taken as retries after the first attempt.         *)
LastRetry == attempt > max_retries

(* stop_after_attempt; with max_retries = 0 there is still one attempt.     *)
LastAttempt == attempt >= max_retries

(* Mutant: the wait is not capped.                                          *)
NextWaitUncapped == IF attempt = 1 THEN retry_delay ELSE 2 * wait

(* wait_exponential: retry_delay, doubled every time, at most 8 times it.   *)
NextWait ==
    IF attempt = 1 THEN retry_delay
    ELSE IF 2 * wait > 8 * retry_delay THEN 8 * retry_delay ELSE 2 * wait

Dialled ==
    /\ phase = "dialling" /\ body = "connect_once" /\ peer = "answers"
    /\ phase' = "opening"
    /\ UNCHANGED <<settings, peer, attempt, wait, waited, cause, error>>

Succeeds ==
    /\ phase = IF body = "raw" THEN "dialling" ELSE "opening"
    /\ peer = "answers"
    /\ phase' = "returned"
    /\ UNCHANGED <<settings, peer, attempt, wait, waited, cause, error>>

(* Mutant: the heartbeat is not handed to the driver.                       *)
GivesUpUnwatched ==
    phase = "dialling" \/ (phase = "opening" /\ peer # "silent")

(* When the driver's call may raise: a dial always ends, the opening of a   *)
(* channel when something comes back, when the host has gone, or when a     *)
(* heartbeat is missed.                                                     *)
GivesUp ==
    phase = "dialling" \/ (phase = "opening" /\ (peer = "silent" => heartbeat))

(* An attempt fails.  The driver's error is AMQPConnectionError when the    *)
(* broker cannot be reached (or refuses the connection), ValueError stands  *)
(* for anything else, such as unreadable certificates.  With reraise, the   *)
(* last error leaves the loop as it is.                                     *)
Fails(exc) ==
    /\ GivesUp
    /\ cause' = exc /\ error' = BodyRaises(exc)
    /\ IF error' \in Transient /\ ~LastAttempt
       THEN /\ phase' = "sleeping" /\ wait' = NextWait
            /\ waited' = waited + NextWait
       ELSE phase' = "raised" /\ UNCHANGED <<wait, waited>>
    /\ UNCHANGED <<settings, peer, attempt>>

Wakes ==
    /\ phase = "sleeping"
    /\ phase' = "dialling" /\ attempt' = attempt + 1
    /\ UNCHANGED <<settings, peer, wait, waited, cause, error>>

(* A peer that falls silent while the channel is opened stays so: one that  *)
(* comes back has only answered late.                                       *)
BrokerChanges ==
    /\ phase \notin Ended
    /\ ~(phase = "opening" /\ peer = "silent")
    /\ peer' \in Peers \ {peer}
    /\ UNCHANGED <<settings, attempt, phase, wait, waited, cause, error>>

Loop == Dialled \/ Succeeds \/ (\E exc \in Raisable : Fails(exc)) \/ Wakes

Next == Loop \/ BrokerChanges

(* The loop is sequential code.  It pauses in a sleep of finite length, in  *)
(* a dial, which settings.connection_timeout ends, or in the opening of a   *)
(* channel.  There it goes on only when GivesUp or Succeeds lets it: Loop   *)
(* is not enabled, and nothing is assumed, while a silent peer is not       *)
(* watched by a heartbeat.                                                  *)
Spec == Init /\ [][Next]_vars /\ WF_vars(Loop)

-----------------------------------------------------------------------------
(* Properties *)

(* The variables have their types.                                          *)
TypeOK ==
    /\ max_retries \in 0..MaxRetries /\ retry_delay \in 0..MaxDelay
    /\ heartbeat \in BOOLEAN /\ body \in Bodies /\ peer \in Peers
    /\ attempt \in 1..(MaxRetries + 1)
    /\ phase \in Trying \cup {"sleeping"} \cup Ended
    /\ wait \in Nat /\ waited \in Nat
    /\ cause \in Errors /\ error \in Errors

(* The loop makes at most max_retries attempts, and one when that is 0; it  *)
(* gives up early only for an error that is not transient.                  *)
AttemptsRight ==
    /\ attempt > 1 => attempt <= max_retries
    /\ phase = "raised" => attempt >= max_retries \/ error \notin Transient

(* Each sleep lasts between retry_delay and 8 times that, and all sleeps    *)
(* together no longer than 8 times it per attempt already made.             *)
WaitsBounded ==
    /\ attempt > 1 \/ phase = "sleeping" =>
          retry_delay <= wait /\ wait <= 8 * retry_delay
    /\ phase # "sleeping" => waited <= 8 * retry_delay * (attempt - 1)

(* connect(), whatever max_retries says, makes a single attempt and never   *)
(* sleeps: this is why SyncClient and AsyncClient model it as one attempt.  *)
ConnectIsOneAttempt ==
    body = "connect_once" => attempt = 1 /\ waited = 0 /\ phase # "sleeping"

(* With a heartbeat connect() returns or raises whatever the broker does,   *)
(* also when it falls silent between the dial and the channel, in the one   *)
(* stretch that connection_timeout does not bound.                          *)
HeartbeatEndsConnect == heartbeat => <>(phase \in Ended)

(* What channel_timeout promises ("Channel operation timeout in seconds"):  *)
(* connect() ends with any settings.                                        *)
ConnectEnds == <>(phase \in Ended)

(* AsyncRabbitMQClient.connect's contract: RabbitMQConnectionError is       *)
(* raised "If all attempts fail", that is after max_retries attempts for    *)
(* a broker that cannot be reached.                                         *)
RaisesAfterAllAttempts ==
    phase = "raised" /\ cause = "AMQPConnectionError" => attempt >= max_retries
=============================================================================
