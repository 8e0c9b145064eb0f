------------------------------ MODULE Connection ------------------------------
(***************************************************************************)
(* What flows through one TCP connection of byedpi, from on_connect() on:   *)
(* the client's request is collected in the client's buffer and sent in     *)
(* parts (on_desync, desync), the first answer decides between another      *)
(* attempt at a new server socket and a plain tunnel (on_tunnel_check,      *)
(* reconnect), and the tunnel relays both directions (on_tunnel).           *)
(*                                                                         *)
(* A byte is <<0, k>>, the k-th of the request, or <<a, k>>, the k-th that  *)
(* the server wrote on attempt a.  Fake and out-of-band packets, which the  *)
(* server is meant not to see, and the rewriting of TLS records and HTTP    *)
(* headers are left out, and so are the time-outs of the sockets.  One      *)
(* handler is one action; EventLoop has the batches of several connections. *)
(***************************************************************************)
EXTENDS Naturals, Sequences

CONSTANTS
    ReqLen,       \* bytes of the request
    RespLen,      \* bytes of the answer
    BfSize,       \* params.bfsize
    Splits,       \* positions at which desync() splits the request
    Params,       \* params.dp_count
    Writes,       \* the number of calls in which the client writes its request
    Profiles      \* how the peers may behave: sets of Disturbances to choose from

Ends == {"client", "remote"}

\* An end whose socket may accept less than it is given, and a server that may
\* speak before it got anything.
Disturbances == Ends \cup {"early"}

ASSUME LengthAssumption ==
    /\ ReqLen \in Nat \ {0} /\ RespLen \in Nat \ {0} /\ BfSize \in Nat \ {0}
    /\ Splits \subseteq Nat \ {0} /\ Params \in Nat \ {0} /\ Writes \in Nat \ {0}
ASSUME ProfilesAssumption == Profiles \subseteq SUBSET Disturbances

Peer(x) == IF x = "client" THEN "remote" ELSE "client"

VARIABLES
    profile,  \* the disturbances of this behaviour
    status,   \* "open", "closed", or the assertion that failed
    type,     \* val->type of each end
    watch,    \* the events epoll is asked for
    report,   \* the events of the current batch
    buff,     \* val->buff.data, of val->buff.size bytes
    offset,   \* val->buff.offset
    attempt,  \* client->attempt
    server,   \* auxiliary: the number of the server socket, from 1
    writes,   \* calls in which the client has written
    arrived,  \* bytes the peer of each socket has written
    taken,    \* bytes the proxy has received from each socket
    gone,     \* whether the peer of each socket has closed it or reset it
    sink      \* what the peer of each socket has got

proxy == <<type, watch, buff, offset, attempt, server>>
peers == <<writes, arrived, gone>>
vars  == <<profile, status, proxy, report, peers, taken, sink>>

Slow == profile \cap Ends

ServerFirst == "early" \in profile

Byte(x, k) == <<IF x = "client" THEN 0 ELSE server, k>>

\* Bytes from beyond a buffer.
Stray == <<0, 0>>

Bytes == {<<a, k>> : a \in 0 .. Params, k \in 1 .. ReqLen + RespLen} \cup {Stray}

Init ==
    /\ profile \in Profiles
    /\ status = "open"
    /\ type = [x \in Ends |-> IF x = "client" THEN "DESYNC" ELSE "TUNNEL"]
    /\ watch = [x \in Ends |-> {"in"}]
    /\ report = [x \in Ends |-> {}]
    /\ buff = [x \in Ends |-> << >>]
    /\ offset = [x \in Ends |-> 0]
    /\ attempt = 0
    /\ server = 1
    /\ writes = 0
    /\ arrived = [x \in Ends |-> 0]
    /\ taken = [x \in Ends |-> 0]
    /\ gone = [x \in Ends |-> "no"]
    /\ sink = [x \in Ends |-> << >>]

-----------------------------------------------------------------------------
(* The client, the servers and the kernel                                  *)

\* The last write completes the request.
ClientWrites ==
    /\ gone["client"] = "no" /\ arrived["client"] < ReqLen
    /\ \E n \in arrived["client"] + 1 .. ReqLen :
          /\ writes + 1 = Writes => n = ReqLen
          /\ arrived' = [arrived EXCEPT !["client"] = n]
    /\ writes' = writes + 1
    /\ UNCHANGED gone

ServerWrites ==
    /\ gone["remote"] = "no" /\ arrived["remote"] < RespLen
    /\ ServerFirst \/ sink["remote"] # << >>
    /\ \E n \in arrived["remote"] + 1 .. RespLen :
          arrived' = [arrived EXCEPT !["remote"] = n]
    /\ UNCHANGED <<writes, gone>>

Leaves(x) ==
    /\ gone[x] = "no"
    /\ \E how \in {"fin", "rst"} : gone' = [gone EXCEPT ![x] = how]
    /\ UNCHANGED <<writes, arrived>>

PeerStep ==
    /\ status = "open"
    /\ ClientWrites \/ ServerWrites \/ \E x \in Ends : Leaves(x)
    /\ UNCHANGED <<status, proxy, report, taken, sink>>

Unread(x) == arrived[x] - taken[x]

Readable(x) == Unread(x) > 0 \/ gone[x] # "no"

Raised(x, full) ==
    {f \in watch[x] : IF f = "in" THEN Readable(x) ELSE x \notin full}
        \cup (IF gone[x] = "fin" THEN {"rdhup"} ELSE {})
        \cup (IF gone[x] = "rst" THEN {"hup"} ELSE {})

\* epoll_wait; the ends in full have no room for more bytes.
Poll ==
    /\ status = "open"
    /\ \A x \in Ends : report[x] = {}
    /\ \E full \in SUBSET Slow : report' = [x \in Ends |-> Raised(x, full)]
    /\ \E x \in Ends : report'[x] # {}
    /\ UNCHANGED <<status, proxy, peers, taken, sink>>

\* How many of n bytes a send() to x takes; 0 is EAGAIN.
Accepts(x, n) == IF x \in Slow THEN 0 .. n ELSE {n}

-----------------------------------------------------------------------------
(* The handlers                                                            *)

Handling(x, t) ==
    /\ status = "open" /\ report[x] # {} /\ type[x] = t
    /\ UNCHANGED peers

Reported == [report EXCEPT !["client"] = {}, !["remote"] = {}]

Handled(x) == report' = [report EXCEPT ![x] = {}]

\* The connection is closed, or an assertion fails, after the peers got this.
FailsAfter(s, got) ==
    /\ status' = s
    /\ report' = Reported
    /\ sink' = got
    /\ UNCHANGED <<proxy, taken>>

Fails(s) == FailsAfter(s, sink)

\* recv() of up to limit bytes
Received(x, limit) ==
    LET n == IF Unread(x) < limit THEN Unread(x) ELSE limit
    IN  [i \in 1 .. n |-> Byte(x, taken[x] + i)]

LastSplit(from, n) ==
    CHOOSE p \in 0 .. n :
        /\ p = from \/ (p > from /\ p \in Splits)
        /\ \A s \in Splits : s \in from + 1 .. n => s <= p

\* The value desync() returns when it sent up to position p of n: the rest
\* after the last split is sent by one send(), whose count is not looked at.
DesyncReturns(from, n, p) ==
    IF from >= n THEN n ELSE IF p <= LastSplit(from, n) THEN p ELSE n

\* A larger offset acts the same: whatever the buffer holds, two bytes are missing.
Far == BfSize + 2

Capped(o) == IF o > Far THEN Far ELSE o

Resumed_Kept(o, ret) == o

\* on_desync_again() adds what desync() returns.
Resumed(o, ret) == Capped(o + ret)

\* on_desync_again() on the client's buffer, holding data: n = Len(data).
Send(data, w) ==
    LET n == Len(data)
        o == offset["client"]
    IN \E p \in IF o >= n THEN {o} ELSE {o + k : k \in Accepts("remote", n - o)} :
        LET ret == DesyncReturns(o, n, p)
        IN  /\ sink' = [sink EXCEPT !["remote"] = @ \o SubSeq(data, o + 1, p)]
            /\ offset' = [offset EXCEPT !["client"] = Resumed(o, ret)]
            /\ IF ret < n
                 THEN /\ watch' = [w EXCEPT !["remote"] = {"out"}]
                      /\ type' = [type EXCEPT !["remote"] = "DESYNC"]
                 ELSE /\ watch' = w
                      /\ type' = [type EXCEPT !["remote"] = "PRE_TUNNEL"]

WatchAgain_Same(x) == watch

\* The remote end is no longer waited for to be writable.
WatchAgain(x) == IF x = "remote" THEN [watch EXCEPT ![x] = {"in"}] ELSE watch

\* on_desync() when the socket x can be written: on_desync_again().
DesyncOut(x) ==
    /\ Handling(x, "DESYNC") /\ "out" \in report[x]
    /\ IF buff["client"] = << >>
         THEN Fails("extend.c:344")
         ELSE /\ Send(buff["client"], WatchAgain(x))
              /\ Handled(x)
              /\ UNCHANGED <<status, buff, attempt, server, taken>>

ToTunnel_KeepsOffset(v) ==
    /\ type' = [x \in Ends |-> "TUNNEL"]
    /\ buff' = [buff EXCEPT ![v] = << >>]
    /\ UNCHANGED offset

ToTunnel_StillChecked(v) ==
    /\ type' = [type EXCEPT !["client"] = "TUNNEL"]
    /\ buff' = [buff EXCEPT ![v] = << >>]
    /\ offset' = [offset EXCEPT ![v] = 0]

\* to_tunnel()
ToTunnel(v) ==
    /\ type' = [x \in Ends |-> "TUNNEL"]
    /\ buff' = [buff EXCEPT ![v] = << >>]
    /\ offset' = [offset EXCEPT ![v] = 0]

\* on_desync() when the buffer is full.
DesyncFull(x) ==
    /\ Handling(x, "DESYNC") /\ "out" \notin report[x]
    /\ Len(buff[x]) = BfSize
    /\ ToTunnel(x)
    /\ Handled(x)
    /\ UNCHANGED <<status, watch, attempt, server, taken, sink>>

\* on_desync() of the client: more of the request.  The first group of options
\* that fits is chosen while the attempt is 0, and there may be none.
DesyncIn ==
    /\ Handling("client", "DESYNC") /\ "out" \notin report["client"]
    /\ Len(buff["client"]) # BfSize
    /\ LET more == Received("client", BfSize - Len(buff["client"]))
           data == buff["client"] \o more
       IN  IF more = << >>
             THEN Fails("closed")
             ELSE \/ /\ attempt' \in IF attempt = 0 THEN 0 .. Params - 1 ELSE {attempt}
                     /\ Send(data, watch)
                     /\ buff' = [buff EXCEPT !["client"] = data]
                     /\ taken' = [taken EXCEPT !["client"] = @ + Len(more)]
                     /\ Handled("client")
                     /\ UNCHANGED <<status, server>>
                  \/ Fails("closed")

\* on_desync() of the remote end, for a hang-up while it cannot be written: what
\* it received goes to its own buffer and the request is sent on.
DesyncInRemote ==
    /\ Handling("remote", "DESYNC") /\ "out" \notin report["remote"]
    /\ Len(buff["remote"]) # BfSize
    /\ LET more == Received("remote", BfSize - Len(buff["remote"]))
       IN  IF more = << >>
             THEN Fails("closed")
             ELSE \/ /\ Send(buff["client"], WatchAgain("remote"))
                     /\ buff' = [buff EXCEPT !["remote"] = @ \o more]
                     /\ taken' = [taken EXCEPT !["remote"] = @ + Len(more)]
                     /\ Handled("remote")
                     /\ UNCHANGED <<status, attempt, server>>
                  \/ Fails("closed")

Replayed_FromOffset == offset

Replayed == [offset EXCEPT !["client"] = 0, !["remote"] = 0]

Waiting_ClientToo == [watch EXCEPT !["remote"] = {"out"}, !["client"] = {}]

Waiting == [watch EXCEPT !["remote"] = {"out"}]

Groups_OneTooMany == attempt + 1 .. Params

\* The groups of options left to try.
Groups == attempt + 1 .. Params - 1

\* reconnect(): a new server socket; the client's buffer is to be sent again.
Reconnect ==
    /\ attempt' \in Groups
    /\ server' = server + 1
    /\ type' = [type EXCEPT !["client"] = "IGNORE", !["remote"] = "DESYNC"]
    /\ watch' = Waiting
    /\ report' = [report EXCEPT !["remote"] = {}]
    /\ offset' = Replayed
    /\ buff' = [buff EXCEPT !["remote"] = << >>]
    /\ arrived' = [arrived EXCEPT !["remote"] = 0]
    /\ taken' = [taken EXCEPT !["remote"] = 0]
    /\ gone' = [gone EXCEPT !["remote"] = "no"]
    /\ sink' = [sink EXCEPT !["remote"] = << >>]
    /\ UNCHANGED <<status, writes>>

Checking == status = "open" /\ report["remote"] # {} /\ type["remote"] = "PRE_TUNNEL"

\* on_tunnel_check() asserts that it is not called to write.
CheckOut ==
    /\ Checking /\ "out" \in report["remote"]
    /\ Fails("extend.c:279")
    /\ UNCHANGED peers

\* on_torst(), on_fin() or on_response() finds another group of options: no
\* answer, or one that a censor sent.
Retry == Checking /\ "out" \notin report["remote"] /\ Reconnect

\* on_tunnel_check(): no answer, and no other group.
NoAnswer ==
    /\ Checking /\ "out" \notin report["remote"]
    /\ Unread("remote") = 0
    /\ Fails("closed")
    /\ UNCHANGED peers

\* on_tunnel_check() passes the first answer on.
Answer ==
    /\ Checking /\ "out" \notin report["remote"]
    /\ Unread("remote") > 0
    /\ LET more == Received("remote", BfSize)
           n    == Len(more)
       IN  \E k \in Accepts("client", n) :
             IF k < n
               THEN FailsAfter("closed", [sink EXCEPT !["client"] = @ \o SubSeq(more, 1, k)])
               ELSE /\ sink' = [sink EXCEPT !["client"] = @ \o more]
                    /\ taken' = [taken EXCEPT !["remote"] = @ + n]
                    /\ ToTunnel("client")
                    /\ Handled("remote")
                    /\ UNCHANGED <<status, watch, attempt, server>>
    /\ UNCHANGED peers

\* The client waits: only a hang-up matters.
Ignore ==
    /\ Handling("client", "IGNORE")
    /\ IF report["client"] \cap {"hup", "rdhup"} # {}
         THEN Fails("closed")
         ELSE Handled("client") /\ UNCHANGED <<status, proxy, taken, sink>>

-----------------------------------------------------------------------------
(* on_tunnel()                                                             *)

\* The end whose data is relayed: a writable socket asks for its peer's.
Source(x) == IF "out" \in report[x] THEN Peer(x) ELSE x

Pending(v) == SubSeq(buff[v], offset[v] + 1, Len(buff[v]))

\* The offset is so many bytes beyond the data.
Missing(v) ==
    IF buff[v] # << >> /\ offset[v] > Len(buff[v]) THEN offset[v] - Len(buff[v]) ELSE 0

\* The length that send() is given is negative: it takes bytes from beyond the
\* buffer, of which a run counts as one, takes none now, or fails.
TunnelStray(x) ==
    /\ Handling(x, "TUNNEL")
    /\ LET v == Source(x)
           p == Peer(v)
       IN  \/ /\ "hup" \in report[x] \/ Missing(v) > 1
              /\ Missing(v) > 0
              /\ Fails("closed")
           \/ /\ "hup" \notin report[x] /\ Missing(v) > 0
              /\ Stray \notin {sink[p][i] : i \in DOMAIN sink[p]}
              /\ sink' = [sink EXCEPT ![p] = Append(@, Stray)]
              /\ offset' = [offset EXCEPT ![v] = Far]
              /\ Handled(x)
              /\ UNCHANGED <<status, type, watch, buff, attempt, server, taken>>
           \/ /\ "hup" \notin report[x] /\ Missing(v) > 1
              /\ Handled(x)
              /\ UNCHANGED <<status, proxy, taken, sink>>

\* Data left over before is not accepted completely, or the peer hung up.
TunnelStuck(x) ==
    /\ Handling(x, "TUNNEL")
    /\ LET v == Source(x)
           p == Peer(v)
           n == Len(Pending(v))
       IN  /\ n > 0
           /\ IF "hup" \in report[x]
                THEN Fails("closed")
                ELSE \E k \in Accepts(p, n) \ {n} :
                       /\ sink' = [sink EXCEPT ![p] = @ \o SubSeq(Pending(v), 1, k)]
                       /\ offset' = [offset EXCEPT ![v] = @ + k]
                       /\ Handled(x)
                       /\ UNCHANGED <<status, type, watch, buff, attempt, server, taken>>

Leftover_All(s, k) == s

\* What is kept of s when k bytes of it were sent.
Leftover(s, k) == SubSeq(s, k + 1, Len(s))

Stalled_SourceOnly(w, v) == [w EXCEPT ![v] = {}]

\* The source v is not read until its peer can be written.
Stalled(w, v) == [w EXCEPT ![v] = {}, ![Peer(v)] = {"out"}]

\* Nothing is left over, or it is accepted now and both ends are read again; then
\* the handler receives and sends. With one byte missing an error of send(), -1,
\* passes for a complete send.
Tunnel(x) ==
    /\ Handling(x, "TUNNEL")
    /\ LET v     == Source(x)
           p     == Peer(v)
           freed == buff[v] # << >>
           more  == Received(v, BfSize)
           n     == Len(more)
           base  == IF freed THEN [y \in Ends |-> {"in"}] ELSE watch
       IN  /\ freed => /\ "hup" \notin report[x] /\ Missing(v) \in {0, 1}
                       /\ Len(Pending(v)) \in Accepts(p, Len(Pending(v)))
           /\ IF n = 0
                THEN IF gone[v] # "no"
                  THEN FailsAfter("closed", [sink EXCEPT ![p] = @ \o Pending(v)])
                  ELSE /\ sink' = [sink EXCEPT ![p] = @ \o Pending(v)]
                       /\ watch' = base
                       /\ buff' = [buff EXCEPT ![v] = << >>]
                       /\ offset' = IF freed THEN [offset EXCEPT ![v] = 0] ELSE offset
                       /\ Handled(x)
                       /\ UNCHANGED <<status, type, attempt, server, taken>>
                ELSE \E k \in Accepts(p, n) :
                  IF k < n /\ ~freed /\ offset[v] # 0
                    THEN Fails("proxy.c:633")
                    ELSE /\ sink' = [sink EXCEPT ![p] = @ \o Pending(v) \o SubSeq(more, 1, k)]
                         /\ taken' = [taken EXCEPT ![v] = @ + n]
                         /\ watch' = IF k < n THEN Stalled(base, v) ELSE base
                         /\ buff' = [buff EXCEPT ![v] = Leftover(more, k)]
                         /\ offset' = IF freed THEN [offset EXCEPT ![v] = 0] ELSE offset
                         /\ Handled(x)
                         /\ UNCHANGED <<status, type, attempt, server>>

\* A system call of a handler fails once a peer has reset its connection.
Error(x) ==
    /\ status = "open" /\ report[x] # {} /\ type[x] # "IGNORE"
    /\ \E y \in Ends : gone[y] = "rst"
    /\ Fails("closed")
    /\ UNCHANGED peers

HandlerStep ==
    \/ \E x \in Ends : DesyncOut(x) \/ DesyncFull(x) \/ TunnelStuck(x) \/ TunnelStray(x)
                      \/ Tunnel(x) \/ Error(x)
    \/ DesyncIn \/ DesyncInRemote
    \/ CheckOut \/ Retry \/ NoAnswer \/ Answer \/ Ignore

Ended == status # "open" /\ UNCHANGED <<status, proxy, report, peers, taken, sink>>

Next == (PeerStep \/ Poll \/ HandlerStep \/ Ended) /\ UNCHANGED profile

Spec == Init /\ [][Next]_vars /\ WF_vars(Poll /\ UNCHANGED profile)
            /\ WF_vars(HandlerStep /\ UNCHANGED profile)

-----------------------------------------------------------------------------
(* Properties                                                              *)

Types == {"DESYNC", "IGNORE", "PRE_TUNNEL", "TUNNEL"}

Failures == {"extend.c:279", "extend.c:344", "proxy.c:633"}

TypeOK ==
    /\ profile \in Profiles
    /\ status \in {"open", "closed"} \cup Failures
    /\ type \in [Ends -> Types]
    /\ watch \in [Ends -> SUBSET {"in", "out"}]
    /\ report \in [Ends -> SUBSET {"in", "out", "hup", "rdhup"}]
    /\ buff \in [Ends -> Seq(Bytes)] /\ sink \in [Ends -> Seq(Bytes)]
    /\ offset \in [Ends -> Nat]
    /\ attempt \in 0 .. Params - 1
    /\ server \in 1 .. Params
    /\ writes \in 0 .. Writes
    /\ arrived \in [Ends -> 0 .. ReqLen + RespLen]
    /\ taken \in [Ends -> 0 .. ReqLen + RespLen]
    /\ gone \in [Ends -> {"no", "fin", "rst"}]

\* The server's sockets take everything, and no server speaks into a request
\* while the client's socket may be full.
Steady == "remote" \notin profile /\ ~({"client", "early"} \subseteq profile)

\* The server of each attempt gets the client's bytes in order, without a gap or
\* a repetition: what desync() sends, what on_desync_again() adds to the offset,
\* what reconnect() replays and what the tunnel relays fit together.
RequestIntact ==
    Steady => \A i \in DOMAIN sink["remote"] : sink["remote"][i] = <<0, i>>

\* However the sockets and the batches behave, no server gets a byte of the
\* request twice or after a later one, whatever comes from beyond a buffer.
RequestOrdered ==
    \A i, j \in {k \in DOMAIN sink["remote"] : sink["remote"][k] # Stray} :
        i < j => sink["remote"][i][2] < sink["remote"][j][2]

\* While the proxy waits for the first answer of a server, that server has got
\* all of the request received so far, also after a retry.
AskedInFull ==
    Steady /\ status = "open" /\ type["remote"] = "PRE_TUNNEL"
        => sink["remote"] = buff["client"]

\* The server's sockets take everything, and no server speaks first.
Calm == {"remote", "early"} \cap profile = {}

\* The client gets the bytes of one server, from the first on and in order: a
\* retry never follows an answer that was passed on, and no stalled data is
\* overtaken or sent twice.
ResponseIntact ==
    Calm =>
        \A i \in DOMAIN sink["client"] :
            sink["client"][i] = <<sink["client"][1][1], i>>

\* Data that on_tunnel() could not pass on is sent when its receiver can be
\* written again: epoll is asked for that as long as there is such data.
PendingIsWatched ==
    "remote" \notin profile =>
        \A x \in Ends : status = "open" /\ type[x] = "TUNNEL" /\ buff[x] # << >>
                          => "out" \in watch[Peer(x)]

\* No assertion of the handlers fails.
NoAssertion == Steady => status \notin Failures

\* assert(!(val->buff.size || val->buff.offset)) of on_tunnel(), proxy.c:633:
\* whatever was kept before has been sent or given up with its offset.
AssertNoLeftover == status # "proxy.c:633"

\* Once the tunnel is up, what either peer writes reaches the other one, or the
\* connection is closed.
Tunnelled == \A x \in Ends : type[x] = "TUNNEL"

Relayed ==
    \A x \in Ends :
        Tunnelled /\ Len(sink[Peer(x)]) < arrived[x]
            ~> status # "open" \/ Len(sink[Peer(x)]) = arrived[x]

\* A connection is a relay: what its ends write arrives whole and in order, and
\* reconnect() starts again only while the client has got nothing. Nothing is
\* promised, and so nothing shown, where a server speaks first or is slow.
Shown(now, before) == IF Calm THEN now ELSE before

Abstract == INSTANCE Relay WITH
    asked    <- Shown(arrived["client"], 0),
    server   <- Shown(server, 1),
    heard    <- Shown(sink["remote"], << >>),
    said     <- Shown(arrived["remote"], 0),
    answered <- Shown(sink["client"], << >>),
    open     <- Shown(status = "open", TRUE)

Refinement == Abstract!Spec

=============================================================================
