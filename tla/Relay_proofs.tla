----------------------------- MODULE Relay_proofs -----------------------------
(***************************************************************************)
(* Proof that Connection implements Relay, for any number of servers, any   *)
(* lengths and any positions of a split, with a request written in at most  *)
(* two calls: see run conn_segments for a third.                            *)
(***************************************************************************)
EXTENDS Connection_proofs

\* What the proofs of Connection have shown of its states.
RelayInv == Basic /\ InOrder /\ Inside /\ Controlled /\ Relaying /\ Requesting

-----------------------------------------------------------------------------
(* What a handler can do to the two sinks                                  *)

\* One of the peers may get some more bytes, after the others.
Moves ==
    /\ status = "open" /\ UNCHANGED peers /\ server' = server
    /\ \/ sink' = sink
       \/ \E x \in Ends, t \in Seq(Bytes) : sink' = [sink EXCEPT ![x] = @ \o t]

LEMMA SliceTypes ==
    ASSUME NEW S, NEW s \in Seq(S), NEW a \in Nat, NEW b \in Nat, b <= Len(s) \/ b = a
    PROVE  SubSeq(s, a + 1, b) \in Seq(S)
OBVIOUS

LEMMA Associative ==
    ASSUME NEW s \in Seq(Bytes), NEW t \in Seq(Bytes), NEW u \in Seq(Bytes)
    PROVE  (s \o t) \o u = s \o (t \o u)
<1> DEFINE l == (s \o t) \o u
           r == s \o (t \o u)
<1>1. /\ s \o t \in Seq(Bytes) /\ Len(s \o t) = Len(s) + Len(t)
      /\ t \o u \in Seq(Bytes) /\ Len(t \o u) = Len(t) + Len(u)
      /\ Len(s) \in Nat /\ Len(t) \in Nat /\ Len(u) \in Nat
  BY ConcatOf
<1>2. l \in Seq(Bytes) /\ r \in Seq(Bytes) /\ Len(l) = Len(r) /\ Len(l) = Len(s) + Len(t) + Len(u)
  BY <1>1, ConcatOf
<1>3. ASSUME NEW i \in 1 .. Len(l) PROVE l[i] = r[i]
  <2>1. CASE i <= Len(s)
    <3>1. i \in 1 .. Len(s \o t) /\ i \in 1 .. Len(s)
      BY <1>1, <1>2, <2>1
    <3> QED
      BY <1>1, <3>1, ConcatOf
  <2>2. CASE i > Len(s) /\ i <= Len(s) + Len(t)
    <3>1. /\ i \in 1 .. Len(s \o t) /\ i - Len(s) \in 1 .. Len(t)
          /\ i \in Len(s) + 1 .. Len(s) + Len(t)
          /\ i \in Len(s) + 1 .. Len(s) + Len(t \o u)
      BY <1>1, <1>2, <2>2
    <3>2. l[i] = (s \o t)[i] /\ (s \o t)[i] = t[i - Len(s)]
      BY <1>1, <3>1, ConcatOf
    <3>3. r[i] = (t \o u)[i - Len(s)] /\ (t \o u)[i - Len(s)] = t[i - Len(s)]
      BY <1>1, <3>1, ConcatOf
    <3> QED
      BY <3>2, <3>3
  <2>3. CASE i > Len(s) + Len(t)
    <3>1. /\ i \in Len(s \o t) + 1 .. Len(s \o t) + Len(u)
          /\ i \in Len(s) + 1 .. Len(s) + Len(t \o u)
          /\ i - Len(s) \in Len(t) + 1 .. Len(t) + Len(u)
          /\ i - Len(s \o t) = i - Len(s) - Len(t)
      BY <1>1, <1>2, <2>3
    <3>2. l[i] = u[i - Len(s \o t)]
      BY <1>1, <3>1, ConcatOf
    <3>3. r[i] = (t \o u)[i - Len(s)]
      BY <1>1, <3>1, ConcatOf
    <3>4. (t \o u)[i - Len(s)] = u[i - Len(s) - Len(t)]
      BY <1>1, <3>1, ConcatOf
    <3> QED
      BY <3>1, <3>2, <3>3, <3>4
  <2> QED
    BY <1>1, <1>2, <2>1, <2>2, <2>3
<1> QED
  BY <1>2, <1>3, SeqEqual

LEMMA FailsMoves ==
    ASSUME status = "open", UNCHANGED peers, NEW s, Fails(s)
    PROVE  Moves
BY DEF Fails, FailsAfter, Moves, proxy

LEMMA SendMoves ==
    ASSUME TypeOK, NEW data \in Seq(Bytes), Len(data) <= BfSize,
           NEW w \in Watches, Send(data, w),
           status = "open", UNCHANGED <<peers, server>>
    PROVE  Moves
<1>1. PICK p \in Nat :
        /\ p <= Len(data) \/ p = offset["client"]
        /\ sink' = [sink EXCEPT !["remote"] = @ \o SubSeq(data, offset["client"] + 1, p)]
  BY SendOf
<1>2. SubSeq(data, offset["client"] + 1, p) \in Seq(Bytes)
  BY <1>1, Facts, SliceTypes DEF Ends
<1> QED
  BY <1>1, <1>2 DEF Moves, Ends

LEMMA DesyncMoves ==
    ASSUME Basic, NEW x \in Ends, DesyncOut(x) \/ DesyncFull(x)
    PROVE  Moves
<1>1. TypeOK /\ Counts /\ UNCHANGED peers /\ status = "open"
  BY DEF Basic, DesyncOut, DesyncFull, Handling
<1>2. CASE DesyncOut(x) /\ buff["client"] = << >>
  BY <1>1, <1>2, FailsMoves DEF DesyncOut
<1>3. CASE DesyncOut(x) /\ buff["client"] # << >>
  <2>1. Send(buff["client"], WatchAgain(x)) /\ server' = server
    BY <1>3 DEF DesyncOut
  <2>2. /\ buff["client"] \in Seq(Bytes) /\ Len(buff["client"]) <= BfSize
        /\ WatchAgain(x) \in Watches
    BY <1>1, Facts, RoomOf, WatchAgainOf DEF Ends
  <2> QED
    BY <1>1, <2>1, <2>2, SendMoves
<1>4. CASE DesyncFull(x)
  BY <1>1, <1>4 DEF DesyncFull, Moves
<1> QED
  BY <1>2, <1>3, <1>4

LEMMA DesyncInMoves ==
    ASSUME Basic, DesyncIn
    PROVE  Moves
<1>1. TypeOK /\ Counts /\ UNCHANGED peers /\ status = "open"
  BY DEF Basic, DesyncIn, Handling
<1> DEFINE more == Received("client", BfSize - Len(buff["client"]))
           data == buff["client"] \o more
<1>2. \/ Fails("closed")
      \/ Send(data, watch) /\ server' = server
  BY DEF DesyncIn
<1>3. data \in Seq(Bytes) /\ Len(data) <= BfSize
  <2>1. /\ buff["client"] \in Seq(Bytes) /\ Len(buff["client"]) \in Nat
        /\ BfSize - Len(buff["client"]) \in Nat
    BY <1>1, Facts, RoomOf DEF Ends
  <2>2. /\ more \in Seq(Bytes) /\ Len(more) \in Nat
        /\ Len(more) <= BfSize - Len(buff["client"])
    BY <1>1, <2>1, ReceivedOf DEF Ends
  <2> HIDE DEF more
  <2>3. data \in Seq(Bytes) /\ Len(data) = Len(buff["client"]) + Len(more)
    BY <2>1, <2>2, ConcatOf
  <2> HIDE DEF data
  <2> QED
    BY <2>1, <2>2, <2>3, LengthAssumption
<1>4. watch \in Watches
  BY <1>1, WatchAgainOf DEF Ends
<1> HIDE DEF data
<1> QED
  BY <1>1, <1>2, <1>3, <1>4, FailsMoves, SendMoves

LEMMA DesyncInRemoteMoves ==
    ASSUME Basic, DesyncInRemote
    PROVE  Moves
<1>1. TypeOK /\ Counts /\ UNCHANGED peers /\ status = "open"
  BY DEF Basic, DesyncInRemote, Handling
<1>2. \/ Fails("closed")
      \/ Send(buff["client"], WatchAgain("remote")) /\ server' = server
  BY DEF DesyncInRemote
<1>3. /\ buff["client"] \in Seq(Bytes) /\ Len(buff["client"]) <= BfSize
      /\ WatchAgain("remote") \in Watches
  BY <1>1, Facts, RoomOf, WatchAgainOf DEF Ends
<1> QED
  BY <1>1, <1>2, <1>3, FailsMoves, SendMoves

LEMMA AnswerMoves ==
    ASSUME Basic, Answer
    PROVE  Moves
<1>1. TypeOK /\ Counts /\ UNCHANGED peers /\ status = "open"
  BY DEF Basic, Answer, Checking
<1> DEFINE more == Received("remote", BfSize)
<1>2. more \in Seq(Bytes) /\ Len(more) \in Nat
  BY <1>1, ReceivedOf, LengthAssumption DEF Ends
<1>3. PICK k \in Accepts("client", Len(more)) :
        \/ k < Len(more) /\ FailsAfter("closed", [sink EXCEPT !["client"] = @ \o SubSeq(more, 1, k)])
        \/ sink' = [sink EXCEPT !["client"] = @ \o more] /\ server' = server
  BY DEF Answer
<1> HIDE DEF more
<1>4. SubSeq(more, 1, k) \in Seq(Bytes)
  BY <1>2, AcceptsOf, Cut DEF Ends
<1>5. CASE FailsAfter("closed", [sink EXCEPT !["client"] = @ \o SubSeq(more, 1, k)])
  BY <1>1, <1>4, <1>5 DEF FailsAfter, Moves, proxy, Ends
<1>6. CASE sink' = [sink EXCEPT !["client"] = @ \o more] /\ server' = server
  BY <1>1, <1>2, <1>6 DEF Moves, Ends
<1> QED
  BY <1>3, <1>5, <1>6

LEMMA StuckMoves ==
    ASSUME Basic, NEW x \in Ends, TunnelStuck(x)
    PROVE  Moves
<1>1. TypeOK /\ UNCHANGED peers /\ status = "open"
  BY DEF Basic, TunnelStuck, Handling
<1> DEFINE v == Source(x)
           p == Peer(v)
           n == Len(Pending(v))
<1>2. \/ Fails("closed")
      \/ \E k \in Accepts(p, n) \ {n} :
           sink' = [sink EXCEPT ![p] = @ \o SubSeq(Pending(v), 1, k)] /\ server' = server
  BY DEF TunnelStuck
<1>3. v \in Ends /\ p \in Ends
  BY SourceOf
<1> HIDE DEF v, p
<1>4. Pending(v) \in Seq(Bytes) /\ n \in Nat
  BY <1>1, <1>3, PendingOf
<1>5. CASE Fails("closed")
  BY <1>1, <1>5, FailsMoves
<1>6. ASSUME NEW k \in Accepts(p, n) \ {n}, server' = server,
             sink' = [sink EXCEPT ![p] = @ \o SubSeq(Pending(v), 1, k)]
      PROVE  Moves
  <2>1. k \in Nat /\ k <= n
    BY <1>3, <1>4, AcceptsOf
  <2>2. SubSeq(Pending(v), 1, k) \in Seq(Bytes)
    BY <1>4, <2>1, Cut
  <2> QED
    BY <1>1, <1>3, <1>6, <2>2 DEF Moves
<1> QED
  BY <1>2, <1>5, <1>6

LEMMA TunnelMoves ==
    ASSUME Basic, NEW x \in Ends, Tunnel(x)
    PROVE  Moves
<1>1. TypeOK /\ Counts /\ UNCHANGED peers /\ status = "open"
  BY DEF Basic, Tunnel, Handling
<1> DEFINE v == Source(x)
           p == Peer(v)
           more == Received(v, BfSize)
<1>2. \/ FailsAfter("closed", [sink EXCEPT ![p] = @ \o Pending(v)])
      \/ \E k \in Accepts(p, Len(more)) :
           /\ sink' = [sink EXCEPT ![p] = (@ \o Pending(v)) \o SubSeq(more, 1, k)]
           /\ server' = server
  BY TunnelOf
<1>3. v \in Ends /\ p \in Ends
  BY SourceOf
<1>4. more \in Seq(Bytes) /\ Len(more) \in Nat
  BY <1>1, <1>3, ReceivedOf, LengthAssumption
<1> HIDE DEF v, p, more
<1>5. Pending(v) \in Seq(Bytes) /\ sink[p] \in Seq(Bytes)
  BY <1>1, <1>3, PendingOf, Facts
<1>6. CASE FailsAfter("closed", [sink EXCEPT ![p] = @ \o Pending(v)])
  BY <1>1, <1>3, <1>5, <1>6 DEF FailsAfter, Moves, proxy
<1>7. ASSUME NEW k \in Accepts(p, Len(more)), server' = server,
             sink' = [sink EXCEPT ![p] = (@ \o Pending(v)) \o SubSeq(more, 1, k)]
      PROVE  Moves
  <2>1. k \in Nat /\ k <= Len(more)
    BY <1>3, <1>4, AcceptsOf
  <2>2. SubSeq(more, 1, k) \in Seq(Bytes)
    BY <1>4, <2>1, Cut
  <2>3. Pending(v) \o SubSeq(more, 1, k) \in Seq(Bytes)
    BY <1>5, <2>2, ConcatOf
  <2> DEFINE rest == SubSeq(more, 1, k)
             kept == Pending(v)
             got  == sink[p]
  <2>4. (got \o kept) \o rest = got \o (kept \o rest)
    <3>1. got \in Seq(Bytes) /\ kept \in Seq(Bytes) /\ rest \in Seq(Bytes)
      BY <1>5, <2>2
    <3> HIDE DEF got, kept, rest
    <3> QED
      BY <3>1, Associative
  <2>5. sink' = [sink EXCEPT ![p] = @ \o (Pending(v) \o SubSeq(more, 1, k))]
    BY <1>7, <2>4
  <2> QED
    BY <1>1, <1>3, <1>7, <2>3, <2>5 DEF Moves
<1> QED
  BY <1>2, <1>6, <1>7

LEMMA HandlerMoves ==
    ASSUME Basic, Inside, Controlled, Fast, HandlerStep, ~Retry
    PROVE  Moves
<1>1. CASE \E x \in Ends : DesyncOut(x) \/ DesyncFull(x) \/ TunnelStuck(x) \/ Tunnel(x)
  BY <1>1, DesyncMoves, StuckMoves, TunnelMoves
<1>2. CASE DesyncIn \/ DesyncInRemote \/ Answer
  BY <1>2, DesyncInMoves, DesyncInRemoteMoves, AnswerMoves
<1>3. CASE (\E x \in Ends : Error(x)) \/ CheckOut \/ NoAnswer
  BY <1>3, FailsMoves DEF Error, CheckOut, NoAnswer, Checking
<1>4. CASE Ignore
  <2>1. Fails("closed") \/ UNCHANGED <<proxy, sink>>
    BY <1>4 DEF Ignore
  <2>2. UNCHANGED peers /\ status = "open"
    BY <1>4 DEF Ignore, Handling
  <2> QED
    BY <2>1, <2>2, FailsMoves DEF Moves, proxy
<1>5. ~(\E x \in Ends : TunnelStray(x))
  BY NoStray
<1> QED
  BY <1>1, <1>2, <1>3, <1>4, <1>5 DEF HandlerStep

-----------------------------------------------------------------------------
(* A step of a connection is a step of a relay, or none                    *)

\* The last of some bytes that are numbered from 1 is their number.
LEMMA NumberedText ==
    ASSUME NEW s \in Seq(Bytes), NEW a, Numbered(s, 0, a)
    PROVE  s = Abstract!Text(a, Len(s))
<1>1. DOMAIN s = 1 .. Len(s) /\ Len(s) \in Nat
  BY SeqDomain
<1>2. ASSUME NEW i \in 1 .. Len(s) PROVE s[i] = <<a, i>>
  BY <1>1 DEF Numbered
<1>3. s = [i \in 1 .. Len(s) |-> s[i]]
  BY <1>1
<1> QED
  BY <1>2, <1>3 DEF Abstract!Text

\* What the servers have got is part of what the client has written.
LEMMA HeardText ==
    ASSUME RelayInv, Calm
    PROVE  /\ sink["remote"] = Abstract!Text(0, Len(sink["remote"]))
           /\ Len(sink["remote"]) <= arrived["client"]
<1>1. /\ sink["remote"] \in Seq(Bytes) /\ Len(sink["remote"]) \in Nat
      /\ arrived["client"] \in Nat /\ taken["client"] \in Nat
      /\ taken["client"] <= arrived["client"]
  BY Facts, RoomOf DEF RelayInv, Basic, Ends
<1>2. Numbered(sink["remote"], 0, 0)
  BY DEF RelayInv, Requesting, Asking, Steady, Calm
<1>3. Len(sink["remote"]) <= taken["client"]
  <2>1. CASE Len(sink["remote"]) = 0
    BY <1>1, <2>1
  <2>2. CASE Len(sink["remote"]) # 0
    <3> DEFINE l == Len(sink["remote"])
    <3>1. l \in DOMAIN sink["remote"] /\ l \in Nat
      BY <1>1, <2>2, SeqDomain
    <3>2. sink["remote"][l] = <<0, 0 + l>>
      BY <1>2, <3>1 DEF Numbered
    <3>3. sink["remote"][l][2] <= taken["client"]
      BY <3>1 DEF RelayInv, InOrder, UpTo
    <3> QED
      BY <3>1, <3>2, <3>3
  <2> QED
    BY <2>1, <2>2
<1> QED
  BY <1>1, <1>2, <1>3, NumberedText

\* What the client has got is the beginning of what the present server has written.
LEMMA AnsweredText ==
    ASSUME RelayInv, Calm
    PROVE  /\ sink["client"] = Abstract!Text(server, Len(sink["client"]))
           /\ status = "open" => Len(sink["client"]) <= arrived["remote"]
<1>1. /\ sink["client"] \in Seq(Bytes) /\ Len(sink["client"]) \in Nat
      /\ arrived["remote"] \in Nat /\ taken["remote"] \in Nat
      /\ taken["remote"] <= arrived["remote"]
      /\ offset["remote"] \in Nat /\ Len(buff["remote"]) \in Nat
  BY Facts, RoomOf DEF RelayInv, Basic, Ends
<1>2. /\ Numbered(sink["client"], 0, server)
      /\ offset["remote"] <= Len(buff["remote"])
      /\ status = "open" =>
           Len(sink["client"]) = taken["remote"] - (Len(buff["remote"]) - offset["remote"])
  BY DEF RelayInv, Relaying
<1> QED
  BY <1>1, <1>2, NumberedText

\* What a connection passes on with its end, the server has written.
LEMMA LastWords ==
    ASSUME RelayInv, Calm, HandlerStep, ~Retry, status' # "open"
    PROVE  sink'["client"] = sink["client"] \/ Len(sink'["client"]) <= arrived["remote"]
<1>1. /\ TypeOK /\ Counts /\ Basic
      /\ sink["client"] \in Seq(Bytes) /\ Len(sink["client"]) \in Nat
      /\ arrived["remote"] \in Nat /\ taken["remote"] \in Nat
      /\ taken["remote"] <= arrived["remote"]
      /\ offset["remote"] \in Nat /\ Len(buff["remote"]) \in Nat
  BY Facts, RoomOf DEF RelayInv, Basic, Ends
<1>2. status = "open"
  BY HandlerMoves DEF Moves, RelayInv, Calm, Fast
<1>3. /\ offset["remote"] <= Len(buff["remote"])
      /\ Len(sink["client"]) = taken["remote"] - (Len(buff["remote"]) - offset["remote"])
      /\ type["client"] # "TUNNEL" => taken["remote"] = 0 /\ sink["client"] = << >>
  BY <1>2 DEF RelayInv, Relaying
<1>4. CASE Answer
  <2> DEFINE more == Received("remote", BfSize)
  <2>1. more \in Seq(Bytes) /\ Len(more) \in Nat /\ taken["remote"] + Len(more) <= arrived["remote"]
    BY <1>1, ReceivedOf, LengthAssumption DEF Ends
  <2>2. PICK k \in Accepts("client", Len(more)) :
          sink' = [sink EXCEPT !["client"] = @ \o SubSeq(more, 1, k)]
    BY <1>2, <1>4 DEF Answer, FailsAfter
  <2> HIDE DEF more
  <2>3. k \in Nat /\ k <= Len(more)
    BY <2>1, <2>2, AcceptsOf DEF Ends
  <2>4. SubSeq(more, 1, k) \in Seq(Bytes) /\ Len(SubSeq(more, 1, k)) = k
    BY <2>1, <2>3, Cut
  <2>5. sink'["client"] = sink["client"] \o SubSeq(more, 1, k)
    BY <1>1, <2>2 DEF TypeOK, Ends
  <2>6. Len(sink'["client"]) = Len(sink["client"]) + k
    BY <1>1, <2>4, <2>5, ConcatOf
  <2>7. Len(sink["client"]) = 0 /\ taken["remote"] = 0
    <3>1. type["client"] # "TUNNEL"
      BY <1>4 DEF Answer, Checking, RelayInv, Controlled, Control, Fast, Calm
    <3> QED
      BY <1>3, <3>1, EmptySeq
  <2> QED
    BY <1>1, <2>1, <2>3, <2>6, <2>7
<1>5. ASSUME NEW x \in Ends, Tunnel(x)
      PROVE  sink'["client"] = sink["client"] \/ Len(sink'["client"]) <= arrived["remote"]
  <2> DEFINE v == Source(x)
             p == Peer(v)
  <2>1. sink' = [sink EXCEPT ![p] = @ \o Pending(v)]
    BY <1>1, <1>2, <1>5, TunnelOf DEF FailsAfter
  <2>2. v \in Ends /\ p \in Ends /\ p = Peer(v)
    BY SourceOf
  <2> HIDE DEF v, p
  <2>3. CASE p # "client"
    BY <1>1, <2>1, <2>2, <2>3 DEF TypeOK, Ends
  <2>4. CASE p = "client"
    <3>1. v = "remote"
      BY <2>2, <2>4 DEF Peer, Ends
    <3>2. /\ Pending("remote") \in Seq(Bytes)
          /\ Len(Pending("remote")) = Len(buff["remote"]) - offset["remote"]
      BY <1>1, <1>3, PendingOf DEF Ends
    <3>3. sink'["client"] = sink["client"] \o Pending("remote")
      BY <1>1, <2>1, <2>4, <3>1 DEF TypeOK, Ends
    <3>4. Len(sink'["client"]) = Len(sink["client"]) + Len(Pending("remote"))
      BY <1>1, <3>2, <3>3, ConcatOf
    <3>5. Len(sink'["client"]) = taken["remote"]
      BY <1>1, <1>3, <3>2, <3>4
    <3> QED
      BY <1>1, <3>5
  <2> QED
    BY <2>3, <2>4
<1>6. CASE \E x \in Ends : \/ DesyncOut(x) \/ DesyncFull(x) \/ TunnelStuck(x)
                         \/ TunnelStray(x) \/ Error(x)
  BY <1>2, <1>6 DEF DesyncOut, DesyncFull, TunnelStuck, TunnelStray, Error, Fails, FailsAfter
<1>7. CASE DesyncIn \/ DesyncInRemote \/ CheckOut \/ NoAnswer \/ Ignore
  BY <1>2, <1>7 DEF DesyncIn, DesyncInRemote, CheckOut, NoAnswer, Ignore, Fails, FailsAfter
<1> QED
  BY <1>4, <1>5, <1>6, <1>7 DEF HandlerStep

LEMMA SpanOf ==
    ASSUME NEW a \in Nat, NEW b \in Nat, NEW c \in Nat, b >= a + 1, b <= c
    PROVE  b \in a + 1 .. c
OBVIOUS

\* What a handler passes on is the next part of a text, and what it does not pass
\* on changes nothing that a relay shows.
LEMMA MoveIsAbstract ==
    ASSUME RelayInv, RelayInv', Calm, Calm', Moves,
           status' = "open" \/ sink'["client"] = sink["client"]
             \/ Len(sink'["client"]) <= arrived["remote"]
    PROVE  [Abstract!Next]_(Abstract!vars)
<1>1. /\ status = "open" /\ UNCHANGED <<arrived, server>>
      /\ TypeOK /\ TypeOK'
  BY DEF Moves, peers, RelayInv, Basic
<1>2. /\ sink'["remote"] = Abstract!Text(0, Len(sink'["remote"]))
      /\ Len(sink'["remote"]) <= arrived["client"]
  <2>1. (sink["remote"] = Abstract!Text(0, Len(sink["remote"]))
           /\ Len(sink["remote"]) <= arrived["client"])'
    BY HeardText, PTL
  <2> QED
    BY <1>1, <2>1
<1>3. /\ sink'["client"] = Abstract!Text(server, Len(sink'["client"]))
      /\ status' = "open" => Len(sink'["client"]) <= arrived["remote"]
  <2>1. (sink["client"] = Abstract!Text(server, Len(sink["client"]))
           /\ (status = "open" => Len(sink["client"]) <= arrived["remote"]))'
    BY AnsweredText, PTL
  <2> QED
    BY <1>1, <2>1 DEF Abstract!Text
<1>4. CASE sink' = sink
  <2>1. CASE status' = "open"
    BY <1>1, <1>4, <2>1 DEF Abstract!vars, Shown
  <2>2. CASE status' # "open"
    <3>1. Abstract!Close
      BY <1>1, <1>4, <2>2 DEF Abstract!Close, Shown
    <3> QED
      BY <3>1 DEF Abstract!Next
  <2> QED
    BY <2>1, <2>2
<1>5. ASSUME NEW x \in Ends, NEW t \in Seq(Bytes), sink' = [sink EXCEPT ![x] = @ \o t]
      PROVE  [Abstract!Next]_(Abstract!vars)
  <2>1. sink[x] \in Seq(Bytes) /\ Len(sink[x]) \in Nat
    BY <1>1, Facts
  <2>2. /\ sink'[x] = sink[x] \o t
        /\ \A y \in Ends \ {x} : sink'[y] = sink[y]
    BY <1>1, <1>5 DEF TypeOK
  <2>3. CASE t = << >>
    <3>1. sink' = sink
      BY <1>1, <1>5, <2>1, <2>3, Appended DEF TypeOK
    <3> QED
      BY <1>4, <3>1
  <2>4. CASE t # << >>
    <3>1. Len(t) \in Nat /\ Len(t) # 0
      BY <2>4, SeqDomain
    <3>2. Len(sink'[x]) = Len(sink[x]) + Len(t)
      BY <2>1, <2>2, ConcatOf
    <3>3. Len(sink'[x]) \in Nat /\ Len(sink'[x]) >= Len(sink[x]) + 1
      BY <2>1, <3>1, <3>2
    <3>4. (status' = "open") \in {TRUE, FALSE}
      OBVIOUS
    <3>5. CASE x = "remote"
      <4>1. /\ Len(sink'["remote"]) \in Len(sink["remote"]) + 1 .. arrived["client"]
            /\ sink'["client"] = sink["client"]
        <5>1. sink'["client"] = sink["client"]
          BY <2>2, <3>5 DEF Ends
        <5>2. /\ Len(sink'["remote"]) \in Nat /\ Len(sink["remote"]) \in Nat
              /\ Len(sink'["remote"]) >= Len(sink["remote"]) + 1
          BY <2>1, <3>3, <3>5
        <5>3. arrived["client"] \in Nat
          BY <1>1, Facts DEF Ends
        <5> QED
          BY <1>2, <5>1, <5>2, <5>3, SpanOf
      <4>2. Abstract!Forward
        BY <1>1, <1>2, <3>4, <4>1 DEF Abstract!Forward, Shown
      <4> QED
        BY <4>2 DEF Abstract!Next
    <3>6. CASE x = "client"
      <4>1. sink'["client"] # sink["client"]
        BY <2>1, <3>3, <3>6
      <4>2. Len(sink'["client"]) <= arrived["remote"]
        BY <1>3, <4>1
      <4>3. /\ Len(sink'["client"]) \in Len(sink["client"]) + 1 .. arrived["remote"]
            /\ sink'["remote"] = sink["remote"]
        <5>1. sink'["remote"] = sink["remote"]
          BY <2>2, <3>6 DEF Ends
        <5>2. /\ Len(sink'["client"]) \in Nat /\ Len(sink["client"]) \in Nat
              /\ Len(sink'["client"]) >= Len(sink["client"]) + 1
          BY <2>1, <3>3, <3>6
        <5>3. arrived["remote"] \in Nat
          BY <1>1, Facts DEF Ends
        <5> QED
          BY <4>2, <5>1, <5>2, <5>3, SpanOf
      <4>4. Abstract!Deliver
        BY <1>1, <1>3, <3>4, <4>3 DEF Abstract!Deliver, Shown
      <4> QED
        BY <4>4 DEF Abstract!Next
    <3> QED
      BY <3>5, <3>6 DEF Ends
  <2> QED
    BY <2>3, <2>4
<1> QED
  BY <1>4, <1>5 DEF Moves

\* A peer only adds to what it has written, and a server has heard something.
LEMMA PeerIsAbstract ==
    ASSUME RelayInv, Calm, Calm', PeerStep
    PROVE  [Abstract!Next]_(Abstract!vars)
<1>1. /\ status = "open" /\ status' = "open" /\ UNCHANGED <<server, sink>>
      /\ TypeOK
  BY DEF PeerStep, proxy, RelayInv, Basic
<1>2. /\ arrived["client"] \in Nat /\ arrived["remote"] \in Nat
      /\ ReqLen \in Nat /\ RespLen \in Nat
  BY <1>1, Facts DEF Ends
<1>3. CASE ClientWrites
  <2>1. arrived'["client"] > arrived["client"] /\ arrived'["remote"] = arrived["remote"]
    BY <1>1, <1>2, <1>3 DEF ClientWrites, TypeOK, Ends
  <2>2. Abstract!Ask
    BY <1>1, <2>1 DEF Abstract!Ask, Shown
  <2> QED
    BY <2>2 DEF Abstract!Next
<1>4. CASE ServerWrites
  <2>1. arrived'["remote"] > arrived["remote"] /\ arrived'["client"] = arrived["client"]
    BY <1>1, <1>2, <1>4 DEF ServerWrites, TypeOK, Ends
  <2>2. sink["remote"] # << >>
    BY <1>4 DEF ServerWrites, ServerFirst, Calm
  <2>3. Abstract!Say
    BY <1>1, <2>1, <2>2 DEF Abstract!Say, Shown
  <2> QED
    BY <2>3 DEF Abstract!Next
<1>5. CASE \E x \in Ends : Leaves(x)
  BY <1>1, <1>5 DEF Leaves, Abstract!vars, Shown
<1> QED
  BY <1>3, <1>4, <1>5 DEF PeerStep

\* reconnect() comes while the client has got nothing.
LEMMA RetryIsAbstract ==
    ASSUME RelayInv, Calm, Calm', Retry
    PROVE  [Abstract!Next]_(Abstract!vars)
<1>1. /\ TypeOK /\ status = "open" /\ type["remote"] = "PRE_TUNNEL"
      /\ status' = "open"
      /\ server' = server + 1
      /\ arrived' = [arrived EXCEPT !["remote"] = 0]
      /\ sink' = [sink EXCEPT !["remote"] = << >>]
      /\ attempt' \in attempt + 1 .. Params - 1
  BY DEF Retry, Checking, Reconnect, Groups, RelayInv, Basic
<1>2. /\ arrived'["remote"] = 0 /\ arrived'["client"] = arrived["client"]
      /\ sink'["remote"] = << >> /\ sink'["client"] = sink["client"]
  BY <1>1 DEF TypeOK, Ends
<1>3. sink["client"] = << >>
  <2>1. type["client"] # "TUNNEL"
    BY <1>1 DEF RelayInv, Controlled, Control, Fast, Calm
  <2> QED
    BY <1>1, <2>1 DEF RelayInv, Relaying
<1>4. server < Params
  <2>1. server <= attempt + 1 /\ server \in Nat /\ attempt \in Nat /\ Params \in Nat
    BY <1>1, Facts DEF RelayInv, Basic, Counts, Ends
  <2> QED
    BY <1>1, <2>1
<1>5. Abstract!Retry
  BY <1>1, <1>2, <1>3, <1>4 DEF Abstract!Retry, Shown
<1> QED
  BY <1>5 DEF Abstract!Next

LEMMA StepIsAbstract ==
    ASSUME Writes <= 2, RelayInv, [Next]_vars
    PROVE  [Abstract!Next]_(Abstract!vars)
<1>1. RelayInv'
  BY NextBasic, NextInside, NextOrder, NextControl, NextRelaying, NextRequesting DEF RelayInv
<1>2. profile' = profile
  BY DEF Next, vars
<1>3. CASE ~Calm
  <2>1. ~Calm'
    BY <1>2, <1>3 DEF Calm
  <2> QED
    BY <1>3, <2>1 DEF Abstract!vars, Shown
<1>4. CASE Calm
  <2>1. Calm'
    BY <1>2, <1>4 DEF Calm
  <2>2. CASE UNCHANGED vars \/ Poll \/ Ended
    <3>1. UNCHANGED <<status, arrived, server, sink>>
      BY <2>2 DEF vars, Poll, Ended, proxy, peers
    <3> QED
      BY <1>4, <2>1, <3>1 DEF Abstract!vars, Shown
  <2>3. CASE PeerStep
    BY <1>4, <2>1, <2>3, PeerIsAbstract
  <2>4. CASE HandlerStep /\ Retry
    BY <1>4, <2>1, <2>4, RetryIsAbstract
  <2>5. CASE HandlerStep /\ ~Retry
    <3>1. Moves
      BY <1>4, <2>5, HandlerMoves DEF RelayInv, Calm, Fast
    <3>2. \/ status' = "open" \/ sink'["client"] = sink["client"]
          \/ Len(sink'["client"]) <= arrived["remote"]
      BY <1>4, <2>5, LastWords
    <3> QED
      BY <1>1, <1>4, <2>1, <3>1, <3>2, MoveIsAbstract
  <2> QED
    BY <2>2, <2>3, <2>4, <2>5 DEF Next
<1> QED
  BY <1>3, <1>4

\* For any number of servers, any lengths, sizes and positions of a split, and a
\* request in at most two calls, a connection whose server's socket takes
\* everything is a relay: desync(), on_desync_again(), reconnect(),
\* on_tunnel_check() and on_tunnel() together pass on both texts whole and in
\* order, and reconnect() never follows an answer.
THEOREM ConnectionIsRelay ==
    ASSUME Writes <= 2
    PROVE  Spec => Refinement
<1>1. Init => Abstract!Init
  BY DEF Init, Abstract!Init, Shown, Ends
<1>2. RelayInv /\ [Next]_vars => [Abstract!Next]_(Abstract!vars)
  BY StepIsAbstract
<1>3. Spec => []RelayInv
  BY BasicInvariant, InsideInvariant, OrderInvariant, ControlInvariant, RelayInvariant, RequestInvariant,
     PTL DEF RelayInv
<1>4. Spec => Abstract!Spec
  BY <1>1, <1>2, <1>3, PTL DEF Spec, Abstract!Spec
<1> QED
  BY <1>4 DEF Refinement

==============================================================================
