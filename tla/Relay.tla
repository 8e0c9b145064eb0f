--------------------------------- MODULE Relay ---------------------------------
(***************************************************************************)
(* What a connection through byedpi promises to its two ends: a server gets *)
(* what the client asks from the first byte on, the client gets the answer  *)
(* of one server from the first byte on, and another server is tried only   *)
(* before anything of an answer has been passed on.                         *)
(***************************************************************************)
EXTENDS Naturals, Sequences

CONSTANT Params    \* the number of groups of options, and so of servers

VARIABLES
    asked,     \* bytes that the client has written
    server,    \* the number of the present server, from 1
    heard,     \* what this server has got
    said,      \* bytes that it has written
    answered,  \* what the client has got
    open       \* whether the connection is open

vars == <<asked, server, heard, said, answered, open>>

\* The first k bytes of one writer: the client is 0, and a server its number.
Text(writer, k) == [i \in 1 .. k |-> <<writer, i>>]

Init ==
    /\ asked = 0 /\ said = 0
    /\ server = 1
    /\ heard = << >> /\ answered = << >>
    /\ open = TRUE

Ask ==
    /\ open /\ asked' > asked
    /\ UNCHANGED <<server, heard, said, answered, open>>

\* No server says anything before it has heard something.
Say ==
    /\ open /\ heard # << >> /\ said' > said
    /\ UNCHANGED <<asked, server, heard, answered, open>>

Retry ==
    /\ open /\ answered = << >> /\ server < Params
    /\ server' = server + 1
    /\ heard' = << >> /\ said' = 0
    /\ UNCHANGED <<asked, answered, open>>

\* Some more of the request; the connection may be closed with it.
Forward ==
    /\ open
    /\ \E k \in Len(heard) + 1 .. asked : heard' = Text(0, k)
    /\ open' \in {TRUE, FALSE}
    /\ UNCHANGED <<asked, server, said, answered>>

\* Some more of the answer.
Deliver ==
    /\ open
    /\ \E k \in Len(answered) + 1 .. said : answered' = Text(server, k)
    /\ open' \in {TRUE, FALSE}
    /\ UNCHANGED <<asked, server, heard, said>>

Close ==
    /\ open /\ open' = FALSE
    /\ UNCHANGED <<asked, server, heard, said, answered>>

Next == Ask \/ Say \/ Retry \/ Forward \/ Deliver \/ Close

Spec == Init /\ [][Next]_vars

=============================================================================
