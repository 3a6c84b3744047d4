------------------------------ MODULE MCAdminTools -----------------------------
(* Instances of AdminTools for TLC.                                         *)
EXTENDS AdminTools, TLC

CONSTANTS a, b

One == {a}
Two == {a, b}

Alphabet == ReservedChars \cup {"blank", "v", "h", "u", "p", "5672"}

(* Text in which no piece is encoded.                                       *)
Raw(chars) == [i \in DOMAIN chars |-> Char(chars[i])]

Default ==
    [host |-> Raw(<<"h">>), port |-> Raw(<<"5672">>),
     virtual_host |-> Raw(<<"/">>),
     username |-> Raw(<<"u">>), password |-> Raw(<<"p">>),
     ssl_enabled |-> FALSE, ssl_ca_certs |-> Unset,
     ssl_certfile |-> Unset, ssl_keyfile |-> Unset,
     management_username |-> Unset, management_password |-> Unset,
     management_api_url |-> Raw(<<"url">>)]

(* A virtual host with a "/" and with what looks like an encoded one;       *)
(* credentials of which one falls back.                                     *)
OddVhost ==
    [Default EXCEPT !.virtual_host = <<<<"/", 1>>, Char("%"), Char("/"), Char("v")>>,
                    !.ssl_enabled = TRUE, !.ssl_ca_certs = Raw(<<"ca">>),
                    !.ssl_certfile = Raw(<<"crt">>), !.ssl_keyfile = Raw(<<"key">>),
                    !.management_username = <<>>,
                    !.management_password = Raw(<<"p">>)]
OnlyOddVhost == {OddVhost}

(* Also settings that validation refuses, and credentials of their own.     *)
ValidAndOther ==
    {Default, OddVhost,
     [Default EXCEPT !.management_api_url = Unset,
                     !.ssl_enabled = TRUE, !.ssl_certfile = Raw(<<"crt">>)],
     [Default EXCEPT !.management_username = Raw(<<"m">>),
                     !.management_password = Raw(<<"q">>)],
     [Default EXCEPT !.virtual_host = <<>>],
     [Default EXCEPT !.host = Raw(<<"blank">>)],
     [Default EXCEPT !.ssl_ca_certs = Raw(<<"ca">>)]}

(* What the API accepts: the AMQP user, and one for monitoring.             *)
Known == {<<Raw(<<"u">>), Raw(<<"p">>)>>, <<Raw(<<"m">>), Raw(<<"q">>)>>}

AtReserved == {[Default EXCEPT !.password = Raw(<<"p", "/", "p">>)],
               [Default EXCEPT !.password = <<Char("p"), <<"@", 1>>>>]}

(* With a limit of 5 bytes: at the limit, beyond it in bytes and not in     *)
(* characters, the broker's own and nearly so.                              *)
NamesAtTheLimit ==
    {<<"amq", "x", "x">>, <<"e4", "e2">>, <<"x", "ctl">>, <<"lone">>, <<>>,
     <<"amq", "dot", "x">>}
NoNames == {}
Interchangeable == Permutations(Tasks)
Some == {"overview"}
=============================================================================
