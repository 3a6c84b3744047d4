------------------------------- MODULE Settings -------------------------------
(***************************************************************************)
(* RabbitMQSettings (config.py), and what the two clients make of it when   *)
(* they connect: the synchronous one passes the fields to pika, the         *)
(* asynchronous one puts them into a URL that aio-pika takes apart again.   *)
(*                                                                         *)
(* A text is a sequence of pieces <<char, n>>: a character that is percent- *)
(* encoded n times, so that <<"/", 0>> is "/", <<"/", 1>> is "%2F" and      *)
(* <<"/", 2>> is "%252F".  "v", "h" and the like stand for ordinary text,   *)
(* "blank" for white space, "/" also for the other characters that end the  *)
(* authority of a URL.                                                      *)
(***************************************************************************)
EXTENDS Naturals, Sequences, SequencesExt

CONSTANT Characters

Char(c) == <<c, 0>>
Unset == <<Char("unset")>>
ReservedChars == {"/", "%", ":", "@"}
ASSUME CharactersAssumption == ReservedChars \subseteq Characters

Text == Seq(Characters \X Nat)
Encoded(piece) == piece[2] > 0

(* urllib.parse.quote(text, safe="")                                        *)
Quote(text) ==
    [i \in DOMAIN text |->
        IF Encoded(text[i]) \/ text[i][1] \in ReservedChars
        THEN <<text[i][1], text[i][2] + 1>> ELSE text[i]]

(* Text that a URL holds as it is: there is some, and no character of it    *)
(* means something there.                                                   *)
Plain(text) ==
    text # <<>> /\ \A i \in DOMAIN text :
        ~Encoded(text[i]) /\ text[i][1] \notin ReservedChars

-----------------------------------------------------------------------------
(* Validation *)

IsGiven(path) == path \notin {Unset, <<>>}
IsBlank(text) == \A i \in DOMAIN text : text[i] = Char("blank")
Valid(s) ==
    /\ ~IsBlank(s.host) /\ ~IsBlank(s.virtual_host)
    /\ (\E path \in {s.ssl_ca_certs, s.ssl_certfile, s.ssl_keyfile} :
            IsGiven(path)) => s.ssl_enabled

ManagementUsername(s) ==
    IF IsGiven(s.management_username) THEN s.management_username
    ELSE s.username
ManagementPassword(s) ==
    IF s.management_password # Unset THEN s.management_password
    ELSE s.password

-----------------------------------------------------------------------------
(* Dialling *)

(* The TLS context, the same in both clients: a certificate without its key *)
(* is left out.                                                             *)
Context(s) ==
    IF ~s.ssl_enabled THEN [ca |-> Unset, cert |-> Unset]
    ELSE [ca |-> IF IsGiven(s.ssl_ca_certs) THEN s.ssl_ca_certs ELSE Unset,
          cert |-> IF IsGiven(s.ssl_certfile) /\ IsGiven(s.ssl_keyfile)
                   THEN s.ssl_certfile ELSE Unset]

BuildConnectionParams(s) ==
    [tls |-> s.ssl_enabled, user |-> s.username, password |-> s.password,
     host |-> s.host, port |-> s.port, vhost |-> s.virtual_host,
     context |-> Context(s)]

(* The part of amqp_url between the scheme and the virtual host.            *)
Authority(s) ==
    LET userinfo == s.username \o <<Char(":")>> \o s.password
        hostinfo == s.host \o <<Char(":")>> \o s.port
    IN userinfo \o <<Char("@")>> \o hostinfo

(* Mutant: the virtual host is put into the URL as it is.                   *)
AmqpUrlRaw(s) == Authority(s) \o <<Char("/")>> \o s.virtual_host

(* amqp_url after the scheme.                                               *)
AmqpUrl(s) == Authority(s) \o <<Char("/")>> \o Quote(s.virtual_host)

-----------------------------------------------------------------------------
(* How aio-pika reads the URL: the authority ends at the first "/", the user*)
(* information at its last "@", the user name and the host at the first ":".*)
(* User name, password and path are decoded, and no path stands for the     *)
(* virtual host "/".                                                        *)

Decode(text) ==
    [i \in DOMAIN text |->
        IF Encoded(text[i]) THEN <<text[i][1], text[i][2] - 1>> ELSE text[i]]

FirstAt(text, c) == SelectInSeq(text, LAMBDA piece : piece = Char(c))
LastAt(text, c) == SelectLastInSeq(text, LAMBDA piece : piece = Char(c))

Before(text, c) ==
    IF FirstAt(text, c) = 0 THEN text ELSE SubSeq(text, 1, FirstAt(text, c) - 1)
After(text, c) ==
    IF FirstAt(text, c) = 0 THEN <<>>
    ELSE SubSeq(text, FirstAt(text, c) + 1, Len(text))
BeforeLast(text, c) == SubSeq(text, 1, LastAt(text, c) - 1)
AfterLast(text, c) == SubSeq(text, LastAt(text, c) + 1, Len(text))

ReadUrl(url, tls, context) ==
    LET authority == Before(url, "/")
        userinfo == BeforeLast(authority, "@")
        hostinfo == AfterLast(authority, "@")
        path == Decode(After(url, "/"))
    IN [tls |-> tls,
        user |-> Decode(Before(userinfo, ":")),
        password |-> Decode(After(userinfo, ":")),
        host |-> Before(hostinfo, ":"), port |-> After(hostinfo, ":"),
        vhost |-> IF path = <<>> THEN <<Char("/")>> ELSE path,
        context |-> context]

Dial(client, s) ==
    IF client = "sync" THEN BuildConnectionParams(s)
    ELSE ReadUrl(AmqpUrl(s), s.ssl_enabled, Context(s))
=============================================================================
