----------------------------- MODULE MCLibrary -----------------------------
(* The model of Library for TLC. *)
EXTENDS Library

MCLower == [Guest |-> "guest", PassWord |-> "password"]

Ports == [p5552 |-> 5552, p65535 |-> 65535]

WellFormedDefinition(schema, username, password, port, virtualHost) ==
    [wellFormed |-> TRUE, DBSchema |-> schema, Username |-> <<username>>,
     Password |-> password, Hostname |-> <<"host">>, Port |-> port, VirtualHost |-> virtualHost]

Malformed(text) ==
    [wellFormed |-> FALSE, DBSchema |-> << >>, Username |-> << >>, Password |-> << >>,
     Hostname |-> text, Port |-> "p5552", VirtualHost |-> << >>]

\* With TLS and a virtual host, without either, a password with separators in it, and
\* definitions that are no definitions.
MCDefinition ==
    {WellFormedDefinition(<<"rabbitmq-stream", "+tls">>, "Guest", <<"PassWord">>, "p65535",
                          <<"/", "vhost">>),
     WellFormedDefinition(<<"rabbitmq-stream">>, "user", <<"pass">>, "p5552", << >>),
     WellFormedDefinition(<<"rabbitmq-stream">>, "user", <<"pa", ":", "/", "ss">>, "p5552",
                          <<"/">>),
     Malformed(<<"host">>), Malformed(<< >>), Malformed(<<"a", " ", "host">>)}

MCNewBroker == {[Port |-> 5552], [Port |-> 0]}
===========================================================================
