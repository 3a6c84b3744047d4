--------------------------------- MODULE Names --------------------------------
(***************************************************************************)
(* The validation of queue and exchange names (utilities/rabbitmq.py).  A   *)
(* name is a sequence of pieces: "x" stands for an ordinary ASCII character,*)
(* "amq" for these three, "e2", "e3" and "e4" for characters of that many   *)
(* UTF-8 bytes, "ctl" for a control character, "lone" for half of a         *)
(* surrogate pair, which Python keeps in a str and cannot encode.           *)
(***************************************************************************)
EXTENDS Naturals, Sequences, SequencesExt, FiniteSets

CONSTANTS
    MaxNameBytes,       \* _MAX_AMQP_NAME_BYTES, 255
    ShortStringBytes    \* what the driver can encode as a name

ASSUME NameBytesAssumption ==
    /\ MaxNameBytes \in Nat /\ ShortStringBytes \in Nat
    /\ MaxNameBytes <= ShortStringBytes

Width == [x |-> 1, amq |-> 3, dot |-> 1, e2 |-> 2, e3 |-> 3, e4 |-> 4,
          ctl |-> 1, lone |-> 3]

Has(name, piece) == \E i \in DOMAIN name : name[i] = piece

(* The length of name.encode(): the bytes of a piece are 1 to its width.    *)
Bytes(name) ==
    Cardinality({b \in (DOMAIN name) \X (1..4) : b[2] <= Width[name[b[1]]]})

(* Mutant: characters are counted.                                          *)
TooManyCharacters(name) == Len(name) > MaxNameBytes

TooLong(name) == Bytes(name) > MaxNameBytes

(* name.startswith("amq.")                                                  *)
Reserved(name) == IsPrefix(<<"amq", "dot">>, name)

(* What _validate_amqp_name raises, or "valid".  Encoding comes first.      *)
ValidateName(name) ==
    IF Has(name, "lone") THEN "UnicodeEncodeError"
    ELSE IF TooLong(name) \/ Has(name, "ctl")
         THEN "RabbitMQValidationError"
    ELSE "valid"

ValidateExchangeName(name) ==
    IF name = <<>> THEN "valid"
    ELSE IF ValidateName(name) # "valid" THEN ValidateName(name)
    ELSE IF Reserved(name) THEN "RabbitMQValidationError"
    ELSE "valid"

-----------------------------------------------------------------------------
(* AMQP sends a name as a short string, which the driver refuses to encode  *)
(* beyond its limit, and the broker refuses to declare or delete what is    *)
(* its own.                                                                 *)
IsShortString(name) == ~Has(name, "lone") /\ Bytes(name) <= ShortStringBytes
BelongsToBroker(name) == name = <<>> \/ Reserved(name)
=============================================================================
