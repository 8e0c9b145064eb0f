--------------------------- MODULE Connection_proofs ---------------------------
(***************************************************************************)
(* Proofs about Connection for requests, answers and buffers of any length, *)
(* any number of groups and every profile of the two ends; two theorems     *)
(* are about requests that come in at most two calls.                       *)
(***************************************************************************)
EXTENDS Connection, Integers, TLAPS

-----------------------------------------------------------------------------
(* Sequences of bytes                                                      *)

LEMMA SubSeqOf ==
    ASSUME NEW S, NEW s \in Seq(S), NEW a \in Nat \ {0}, NEW b \in Nat,
           a <= b + 1, b <= Len(s)
    PROVE  /\ SubSeq(s, a, b) \in Seq(S) /\ Len(SubSeq(s, a, b)) = b - a + 1
           /\ \A i \in 1 .. b - a + 1 : SubSeq(s, a, b)[i] = s[a + i - 1]
OBVIOUS

\* Nothing is left beyond the end.
LEMMA SubSeqBeyond ==
    ASSUME NEW S, NEW s \in Seq(S), NEW a \in Nat \ {0}, a > Len(s)
    PROVE  SubSeq(s, a, Len(s)) = << >>
OBVIOUS

LEMMA Cut ==
    ASSUME NEW s \in Seq(Bytes), NEW k \in Nat, k <= Len(s)
    PROVE  /\ SubSeq(s, 1, k) \in Seq(Bytes) /\ Len(SubSeq(s, 1, k)) = k
           /\ SubSeq(s, k + 1, Len(s)) \in Seq(Bytes)
           /\ Len(SubSeq(s, k + 1, Len(s))) = Len(s) - k
           /\ \A i \in 1 .. k : SubSeq(s, 1, k)[i] = s[i]
           /\ \A i \in 1 .. Len(s) - k : SubSeq(s, k + 1, Len(s))[i] = s[k + i]
OBVIOUS

LEMMA ConcatOf ==
    ASSUME NEW S, NEW s \in Seq(S), NEW t \in Seq(S)
    PROVE  /\ s \o t \in Seq(S) /\ Len(s \o t) = Len(s) + Len(t)
           /\ \A i \in 1 .. Len(s) : (s \o t)[i] = s[i]
           /\ \A i \in 1 .. Len(t) : (s \o t)[Len(s) + i] = t[i]
           /\ \A i \in Len(s) + 1 .. Len(s) + Len(t) : (s \o t)[i] = t[i - Len(s)]
OBVIOUS

LEMMA EmptySeq ==
    ASSUME NEW S
    PROVE  << >> \in Seq(S) /\ Len(<< >>) = 0
OBVIOUS

LEMMA SeqDomain ==
    ASSUME NEW S, NEW s \in Seq(S)
    PROVE  /\ Len(s) \in Nat /\ DOMAIN s = 1 .. Len(s)
           /\ \A i \in 1 .. Len(s) : s[i] \in S
           /\ s = << >> <=> Len(s) = 0
OBVIOUS

\* The order of the bytes of one peer, those in some set left aside.
RisingBut(s, E) ==
    \A i, j \in DOMAIN s :
        s[i] \notin E /\ s[j] \notin E /\ i < j => s[i][2] < s[j][2]

Rising(s) == RisingBut(s, {})

\* What a server gets may hold bytes from beyond a buffer.
Ordered(s) == RisingBut(s, {Stray})

UpTo(s, k) == \A i \in DOMAIN s : s[i][2] <= k

After(s, k) == \A i \in DOMAIN s : s[i][2] > k

Below(s, t) == \A i \in DOMAIN s, j \in DOMAIN t : s[i][2] < t[j][2]

LEMMA ByteTypes ==
    ASSUME NEW b \in Bytes
    PROVE  b[2] \in Nat
BY LengthAssumption DEF Bytes, Stray

\* A slice of bytes in order is in order.
LEMMA SliceInOrder ==
    ASSUME NEW s \in Seq(Bytes), NEW a \in Nat \ {0}, NEW b \in Nat,
           a <= b + 1, b <= Len(s), Rising(s), NEW k, UpTo(s, k)
    PROVE  Rising(SubSeq(s, a, b)) /\ UpTo(SubSeq(s, a, b), k)
<1> DEFINE t == SubSeq(s, a, b)
<1>1. /\ t \in Seq(Bytes) /\ Len(t) = b - a + 1
      /\ \A i \in 1 .. b - a + 1 : t[i] = s[a + i - 1]
  BY SubSeqOf
<1> HIDE DEF t
<1>2. DOMAIN t = 1 .. b - a + 1 /\ DOMAIN s = 1 .. Len(s) /\ Len(s) \in Nat
  BY <1>1, SeqDomain
<1>3. ASSUME NEW i \in DOMAIN t
      PROVE  i \in Int /\ a + i - 1 \in DOMAIN s /\ t[i] = s[a + i - 1]
  BY <1>1, <1>2
<1>4. UpTo(t, k)
  BY <1>3 DEF UpTo
<1>5. ASSUME NEW i \in DOMAIN t, NEW j \in DOMAIN t, i < j
      PROVE  t[i][2] < t[j][2]
  <2>1. a + i - 1 < a + j - 1
    BY <1>3, <1>5
  <2> QED
    BY <1>3, <2>1 DEF Rising, RisingBut
<1>6. Rising(t)
  BY <1>5 DEF Rising, RisingBut
<1> QED
  BY <1>4, <1>6 DEF t

\* Bytes in order that follow others in order.
LEMMA ChainInOrder ==
    ASSUME NEW s \in Seq(Bytes), NEW t \in Seq(Bytes), NEW k, NEW E,
           RisingBut(s, E), RisingBut(t, E), Below(s, t), UpTo(s, k), UpTo(t, k)
    PROVE  RisingBut(s \o t, E) /\ UpTo(s \o t, k)
<1> DEFINE u == s \o t
<1>1. /\ u \in Seq(Bytes) /\ Len(u) = Len(s) + Len(t)
      /\ \A i \in 1 .. Len(s) : u[i] = s[i]
      /\ \A i \in Len(s) + 1 .. Len(s) + Len(t) : u[i] = t[i - Len(s)]
  BY ConcatOf
<1> HIDE DEF u
<1>2. /\ DOMAIN u = 1 .. Len(s) + Len(t) /\ DOMAIN s = 1 .. Len(s)
      /\ DOMAIN t = 1 .. Len(t) /\ Len(s) \in Nat /\ Len(t) \in Nat
  BY <1>1, SeqDomain
<1>3. ASSUME NEW i \in DOMAIN u
      PROVE  \/ i \in DOMAIN s /\ u[i] = s[i]
             \/ i - Len(s) \in DOMAIN t /\ u[i] = t[i - Len(s)] /\ i > Len(s)
  BY <1>1, <1>2
<1>4. UpTo(u, k)
  BY <1>3 DEF UpTo
<1>5. ASSUME NEW i \in DOMAIN u, NEW j \in DOMAIN u, i < j,
             u[i] \notin E, u[j] \notin E
      PROVE  u[i][2] < u[j][2]
  <2>1. CASE i \in DOMAIN s /\ j \in DOMAIN s
    BY <1>1, <1>2, <1>5, <2>1 DEF RisingBut
  <2>2. CASE i \in DOMAIN s /\ j \notin DOMAIN s
    BY <1>3, <1>2, <2>2 DEF Below
  <2>3. CASE i \notin DOMAIN s
    <3>1. j \notin DOMAIN s
      BY <1>2, <1>5, <2>3
    <3>2. /\ i - Len(s) \in DOMAIN t /\ u[i] = t[i - Len(s)]
          /\ j - Len(s) \in DOMAIN t /\ u[j] = t[j - Len(s)]
      BY <1>3, <2>3, <3>1
    <3>3. i - Len(s) < j - Len(s)
      BY <1>2, <1>5
    <3> QED
      BY <1>5, <3>2, <3>3 DEF RisingBut
  <2> QED
    BY <2>1, <2>2, <2>3
<1>6. RisingBut(u, E)
  BY <1>5 DEF RisingBut
<1> QED
  BY <1>4, <1>6 DEF u

LEMMA ChainRising ==
    ASSUME NEW s \in Seq(Bytes), NEW t \in Seq(Bytes), NEW k,
           Rising(s), Rising(t), Below(s, t), UpTo(s, k), UpTo(t, k)
    PROVE  Rising(s \o t) /\ UpTo(s \o t, k)
<1>1. RisingBut(s, {}) /\ RisingBut(t, {})
  BY DEF Rising
<1> QED
  BY <1>1, ChainInOrder DEF Rising

LEMMA RisingOrdered ==
    ASSUME NEW s, Rising(s)
    PROVE  Ordered(s)
BY DEF Rising, Ordered, RisingBut

LEMMA ChainOrdered ==
    ASSUME NEW s \in Seq(Bytes), NEW t \in Seq(Bytes), NEW k,
           Ordered(s), Rising(t), Below(s, t), UpTo(s, k), UpTo(t, k)
    PROVE  Ordered(s \o t) /\ UpTo(s \o t, k)
<1>1. RisingBut(s, {Stray}) /\ RisingBut(t, {Stray})
  BY RisingOrdered DEF Ordered
<1> QED
  BY <1>1, ChainInOrder DEF Ordered

\* What is sent of a slice comes before what is kept of it.
LEMMA SplitInOrder ==
    ASSUME NEW s \in Seq(Bytes), NEW a \in Nat, NEW b \in Nat, NEW c \in Nat,
           a <= b, b <= Len(s), b <= c, Rising(s)
    PROVE  Below(SubSeq(s, a + 1, b), SubSeq(s, c + 1, Len(s)))
<1> DEFINE t == SubSeq(s, a + 1, b)
           u == SubSeq(s, c + 1, Len(s))
<1>1. CASE c >= Len(s)
  <2>1. u = << >>
    <3>1. c + 1 > Len(s) /\ c + 1 \in Nat \ {0}
      BY <1>1, SeqDomain
    <3> QED
      BY <3>1, SubSeqBeyond
  <2> QED
    BY <2>1 DEF Below
<1>2. CASE c < Len(s)
  <2>1. Len(s) \in Nat /\ DOMAIN s = 1 .. Len(s)
    BY SeqDomain
  <2>2. /\ t \in Seq(Bytes) /\ Len(t) = b - a
        /\ \A i \in 1 .. b - a : t[i] = s[a + i]
    <3>1. a + 1 \in Nat \ {0} /\ a + 1 <= b + 1 /\ b - (a + 1) + 1 = b - a
          /\ \A i \in 1 .. b - a : a + 1 + i - 1 = a + i
      OBVIOUS
    <3> QED
      BY <3>1, SubSeqOf
  <2>3. /\ u \in Seq(Bytes) /\ Len(u) = Len(s) - c
        /\ \A i \in 1 .. Len(s) - c : u[i] = s[c + i]
    <3>1. c <= Len(s)
      BY <1>2, <2>1
    <3> QED
      BY <3>1, Cut
  <2> HIDE DEF t, u
  <2>4. DOMAIN t = 1 .. b - a /\ DOMAIN u = 1 .. Len(s) - c
    BY <2>2, <2>3, SeqDomain
  <2>5. ASSUME NEW i \in DOMAIN t, NEW j \in DOMAIN u PROVE t[i][2] < u[j][2]
    <3>1. a + i \in DOMAIN s /\ c + j \in DOMAIN s /\ a + i < c + j
      BY <1>2, <2>1, <2>4
    <3>2. s[a + i][2] < s[c + j][2]
      BY <3>1 DEF Rising, RisingBut
    <3> QED
      BY <2>2, <2>3, <2>4, <3>2
  <2>6. Below(t, u)
    BY <2>5 DEF Below
  <2> QED
    BY <2>6 DEF t, u
<1> QED
  BY <1>1, <1>2, SeqDomain

\* What comes before a sequence comes before any slice of it.
LEMMA BelowSlice ==
    ASSUME NEW s \in Seq(Bytes), NEW r, NEW a \in Nat \ {0}, NEW b \in Nat,
           NEW c \in Nat \ {0}, a <= c, c <= b + 1, b <= Len(s),
           Below(r, SubSeq(s, a, Len(s)))
    PROVE  Below(r, SubSeq(s, c, b))
<1> DEFINE t == SubSeq(s, a, Len(s))
           u == SubSeq(s, c, b)
<1>1. Len(s) \in Nat
  BY SeqDomain
<1>2. /\ t \in Seq(Bytes) /\ Len(t) = Len(s) - a + 1
      /\ \A i \in 1 .. Len(s) - a + 1 : t[i] = s[a + i - 1]
  <2>1. a <= Len(s) + 1
    BY <1>1
  <2> QED
    BY <1>1, <2>1, SubSeqOf
<1>3. /\ u \in Seq(Bytes) /\ Len(u) = b - c + 1
      /\ \A i \in 1 .. b - c + 1 : u[i] = s[c + i - 1]
  BY SubSeqOf
<1> HIDE DEF t, u
<1>4. DOMAIN t = 1 .. Len(s) - a + 1 /\ DOMAIN u = 1 .. b - c + 1
  BY <1>2, <1>3, SeqDomain
<1>5. ASSUME NEW i \in DOMAIN r, NEW j \in DOMAIN u PROVE r[i][2] < u[j][2]
  <2>1. c - a + j \in DOMAIN t
    BY <1>1, <1>4
  <2>2. t[c - a + j] = s[c + j - 1]
    BY <1>1, <1>2, <1>4, <2>1, SMTT(30)
  <2>3. r[i][2] < t[c - a + j][2]
    BY <2>1 DEF Below, t
  <2> QED
    BY <1>3, <1>4, <2>2, <2>3
<1> QED
  BY <1>5 DEF Below, u

LEMMA BelowChain ==
    ASSUME NEW s \in Seq(Bytes), NEW t \in Seq(Bytes), NEW u,
           Below(s, u), Below(t, u)
    PROVE  Below(s \o t, u)
<1> DEFINE v == s \o t
<1>1. /\ v \in Seq(Bytes) /\ Len(v) = Len(s) + Len(t)
      /\ \A i \in 1 .. Len(s) : v[i] = s[i]
      /\ \A i \in Len(s) + 1 .. Len(s) + Len(t) : v[i] = t[i - Len(s)]
  BY ConcatOf
<1> HIDE DEF v
<1>2. /\ DOMAIN v = 1 .. Len(s) + Len(t) /\ DOMAIN s = 1 .. Len(s)
      /\ DOMAIN t = 1 .. Len(t) /\ Len(s) \in Nat /\ Len(t) \in Nat
  BY <1>1, SeqDomain
<1>3. ASSUME NEW i \in DOMAIN v
      PROVE  \/ i \in DOMAIN s /\ v[i] = s[i]
             \/ i - Len(s) \in DOMAIN t /\ v[i] = t[i - Len(s)]
  BY <1>1, <1>2
<1> QED
  BY <1>3 DEF Below, v

\* Bytes up to the k-th and bytes after it.
LEMMA BelowNumber ==
    ASSUME NEW s \in Seq(Bytes), NEW t \in Seq(Bytes), NEW k \in Nat,
           UpTo(s, k), After(t, k)
    PROVE  Below(s, t)
<1>1. ASSUME NEW i \in DOMAIN s, NEW j \in DOMAIN t PROVE s[i][2] < t[j][2]
  <2>1. s[i][2] \in Nat /\ t[j][2] \in Nat
    BY SeqDomain, ByteTypes
  <2> QED
    BY <2>1 DEF UpTo, After
<1> QED
  BY <1>1 DEF Below

-----------------------------------------------------------------------------
(* Types, counts and offsets                                               *)

\* No end gives more than was written to it, no buffer holds more than its
\* size, each new server takes a group, and the client has calls to write left.
Counts ==
    /\ \A x \in Ends : taken[x] <= arrived[x] /\ Len(buff[x]) <= BfSize
    /\ server <= attempt + 1
    /\ arrived["client"] < ReqLen => writes < Writes

\* A buffer that was emptied has its offset reset.
Emptied == \A x \in Ends : buff[x] = << >> => offset[x] = 0

Basic == TypeOK /\ Counts /\ Emptied

LEMMA Facts ==
    ASSUME TypeOK, NEW x \in Ends
    PROVE  /\ buff[x] \in Seq(Bytes) /\ sink[x] \in Seq(Bytes)
           /\ Len(buff[x]) \in Nat /\ Len(sink[x]) \in Nat
           /\ offset[x] \in Nat /\ taken[x] \in Nat /\ arrived[x] \in Nat
           /\ BfSize \in Nat \ {0} /\ Params \in Nat \ {0}
           /\ ReqLen \in Nat \ {0} /\ RespLen \in Nat \ {0}
           /\ Writes \in Nat \ {0} /\ writes \in Nat
           /\ server \in Nat \ {0} /\ attempt \in Nat
           /\ Peer(x) \in Ends /\ Peer(x) # x
           /\ "client" \in Ends /\ "remote" \in Ends
<1>1. buff[x] \in Seq(Bytes) /\ sink[x] \in Seq(Bytes)
  BY DEF TypeOK
<1>2. Peer(x) \in Ends /\ Peer(x) # x /\ "client" \in Ends /\ "remote" \in Ends
  BY DEF Peer, Ends
<1>3. offset[x] \in Nat /\ server \in Nat \ {0} /\ attempt \in Nat /\ writes \in Nat
  BY LengthAssumption DEF TypeOK
<1>4. taken[x] \in Nat /\ arrived[x] \in Nat
  BY LengthAssumption DEF TypeOK
<1> QED
  BY <1>1, <1>2, <1>3, <1>4, LengthAssumption, SeqDomain

LEMMA AcceptsOf ==
    ASSUME NEW x \in Ends, NEW m \in Nat, NEW k \in Accepts(x, m)
    PROVE  k \in Nat /\ k <= m /\ (x \notin profile => k = m)
BY DEF Accepts, Slow

LEMMA ReceivedOf ==
    ASSUME TypeOK, Counts, NEW x \in Ends, NEW limit \in Nat
    PROVE  LET more == Received(x, limit)
           IN  /\ more \in Seq(Bytes) /\ Len(more) \in Nat
               /\ Len(more) <= limit /\ taken[x] + Len(more) <= arrived[x]
               /\ \A i \in 1 .. Len(more) : more[i] = Byte(x, taken[x] + i)
               /\ arrived[x] = taken[x] => more = << >>
<1> DEFINE n == IF Unread(x) < limit THEN Unread(x) ELSE limit
           more == [i \in 1 .. n |-> Byte(x, taken[x] + i)]
<1>1. taken[x] <= arrived[x] /\ taken[x] \in Nat /\ arrived[x] \in Nat
  BY Facts DEF Counts
<1>2. n \in Nat /\ n <= limit /\ taken[x] + n <= arrived[x]
      /\ (arrived[x] = taken[x] => n = 0)
  BY <1>1 DEF Unread
<1>3. arrived[x] <= ReqLen + RespLen
  BY LengthAssumption DEF TypeOK
<1> HIDE DEF n
<1>4. ASSUME NEW i \in 1 .. n PROVE Byte(x, taken[x] + i) \in Bytes
  <2>1. taken[x] + i \in 1 .. ReqLen + RespLen
    BY <1>1, <1>2, <1>3, <1>4, LengthAssumption
  <2>2. server \in 0 .. Params /\ 0 \in 0 .. Params
    BY LengthAssumption DEF TypeOK
  <2> QED
    BY <2>1, <2>2 DEF Byte, Bytes
<1>5. more \in Seq(Bytes) /\ Len(more) = n
  BY <1>2, <1>4
<1>6. Received(x, limit) = more
  BY DEF Received, n
<1>7. \A i \in 1 .. n : more[i] = Byte(x, taken[x] + i)
  OBVIOUS
<1> HIDE DEF more
<1>8. n = 0 => more = << >>
  BY <1>5, SeqDomain
<1> QED
  BY <1>2, <1>5, <1>6, <1>7, <1>8

LEMMA PendingOf ==
    ASSUME TypeOK, NEW x \in Ends
    PROVE  /\ Pending(x) \in Seq(Bytes) /\ Len(Pending(x)) \in Nat
           /\ Len(Pending(x)) = IF offset[x] <= Len(buff[x])
                                  THEN Len(buff[x]) - offset[x] ELSE 0
           /\ buff[x] = << >> => Pending(x) = << >>
<1>1. buff[x] \in Seq(Bytes) /\ Len(buff[x]) \in Nat /\ offset[x] \in Nat
  BY Facts
<1>2. CASE offset[x] <= Len(buff[x])
  <2>1. /\ offset[x] + 1 \in Nat \ {0} /\ offset[x] + 1 <= Len(buff[x]) + 1
        /\ Len(buff[x]) <= Len(buff[x])
    BY <1>1, <1>2
  <2>2. /\ Pending(x) \in Seq(Bytes)
        /\ Len(Pending(x)) = Len(buff[x]) - (offset[x] + 1) + 1
    BY <1>1, <2>1, SubSeqOf DEF Pending
  <2>3. Len(Pending(x)) = Len(buff[x]) - offset[x]
    BY <1>1, <2>2
  <2>4. buff[x] = << >> => Len(Pending(x)) = 0
    BY <1>1, <1>2, <2>3, SeqDomain
  <2> QED
    BY <1>1, <1>2, <2>2, <2>3, <2>4, SeqDomain
<1>3. CASE offset[x] > Len(buff[x])
  <2>1. offset[x] + 1 \in Nat \ {0} /\ offset[x] + 1 > Len(buff[x])
    BY <1>1, <1>3
  <2>2. Pending(x) = << >>
    BY <1>1, <2>1, SubSeqBeyond DEF Pending
  <2> QED
    BY <1>1, <1>3, <2>2, EmptySeq
<1> QED
  BY <1>1, <1>2, <1>3

Watches == [Ends -> SUBSET {"in", "out"}]

\* What a send of the request comes to: up to place p is sent, and the offset is
\* then behind it, or behind the end.
LEMMA SendOf ==
    ASSUME TypeOK, NEW data \in Seq(Bytes), Len(data) <= BfSize,
           NEW w \in Watches, Send(data, w)
    PROVE  /\ \E p \in Nat :
                /\ offset["client"] <= p
                /\ p <= Len(data) \/ p = offset["client"]
                /\ sink' = [sink EXCEPT !["remote"] = @ \o SubSeq(data, offset["client"] + 1, p)]
                /\ p <= offset'["client"] \/ Len(data) <= offset'["client"]
           /\ \E o \in Nat : offset' = [offset EXCEPT !["client"] = o]
           /\ offset["client"] = 0 /\ data = << >> => offset'["client"] = 0
           /\ watch' \in Watches /\ watch'["client"] = w["client"]
           /\ \E t \in {"DESYNC", "PRE_TUNNEL"} : type' = [type EXCEPT !["remote"] = t]
           /\ "remote" \notin profile =>
                watch' = w /\ type' = [type EXCEPT !["remote"] = "PRE_TUNNEL"]
<1> DEFINE o == offset["client"]
           n == Len(data)
<1>1. PICK p \in IF o >= n THEN {o} ELSE {o + k : k \in Accepts("remote", n - o)} :
        LET ret == DesyncReturns(o, n, p)
        IN  /\ sink' = [sink EXCEPT !["remote"] = @ \o SubSeq(data, o + 1, p)]
            /\ offset' = [offset EXCEPT !["client"] = Resumed(o, ret)]
            /\ IF ret < n
                 THEN /\ watch' = [w EXCEPT !["remote"] = {"out"}]
                      /\ type' = [type EXCEPT !["remote"] = "DESYNC"]
                 ELSE /\ watch' = w
                      /\ type' = [type EXCEPT !["remote"] = "PRE_TUNNEL"]
  BY DEF Send
<1> DEFINE ret == DesyncReturns(o, n, p)
<1>2. o \in Nat /\ n \in Nat /\ BfSize \in Nat
  BY Facts, SeqDomain DEF Ends
<1>3. /\ p \in Nat /\ o <= p /\ (p <= n \/ p = o) /\ (o < n => p <= n)
      /\ "remote" \notin profile => p = o \/ p = n
      /\ "remote" \notin profile /\ o < n => p = n
  <2>1. CASE o >= n
    BY <1>1, <1>2, <2>1
  <2>2. CASE o < n
    <3>1. PICK k \in Accepts("remote", n - o) : p = o + k
      BY <1>1, <1>2, <2>2
    <3>2. n - o \in Nat
      BY <1>2, <2>2
    <3>3. k \in Nat /\ k <= n - o /\ ("remote" \notin profile => k = n - o)
      BY <3>2, AcceptsOf DEF Ends
    <3> QED
      BY <1>2, <2>2, <3>1, <3>3
  <2> QED
    BY <1>2, <2>1, <2>2
<1>4. ret \in {n, p} /\ (o >= n => ret = n) /\ ("remote" \notin profile => ret = n)
  BY <1>2, <1>3 DEF DesyncReturns
<1>5. /\ sink' = [sink EXCEPT !["remote"] = @ \o SubSeq(data, o + 1, p)]
      /\ offset' = [offset EXCEPT !["client"] = Resumed(o, ret)]
      /\ \/ /\ ret < n
            /\ watch' = [w EXCEPT !["remote"] = {"out"}]
            /\ type' = [type EXCEPT !["remote"] = "DESYNC"]
         \/ /\ ~(ret < n)
            /\ watch' = w
            /\ type' = [type EXCEPT !["remote"] = "PRE_TUNNEL"]
  BY <1>1
<1> HIDE DEF ret
<1>6. Resumed(o, ret) \in Nat /\ (p <= Resumed(o, ret) \/ n <= Resumed(o, ret))
      /\ (o = 0 /\ n = 0 => Resumed(o, ret) = 0)
  BY <1>2, <1>3, <1>4 DEF Resumed, Capped, Far
<1>7. offset'["client"] = Resumed(o, ret)
  BY <1>5 DEF TypeOK, Ends
<1>8. watch' \in Watches /\ watch'["client"] = w["client"]
  BY <1>5 DEF Watches, Ends
<1>9. data = << >> => n = 0
  BY SeqDomain
<1>10. "remote" \notin profile => ~(ret < n)
  BY <1>2, <1>4
<1> QED
  BY <1>3, <1>5, <1>6, <1>7, <1>8, <1>9, <1>10

LEMMA SentTypes ==
    ASSUME TypeOK, NEW data \in Seq(Bytes), Len(data) <= BfSize,
           NEW w \in Watches, Send(data, w)
    PROVE  /\ sink' \in [Ends -> Seq(Bytes)] /\ offset' \in [Ends -> Nat]
           /\ watch' \in Watches /\ type' \in [Ends -> Types]
           /\ offset'["remote"] = offset["remote"]
           /\ offset["client"] = 0 /\ data = << >> => offset'["client"] = 0
<1>1. PICK p \in Nat :
        /\ offset["client"] <= p
        /\ p <= Len(data) \/ p = offset["client"]
        /\ sink' = [sink EXCEPT !["remote"] = @ \o SubSeq(data, offset["client"] + 1, p)]
  BY SendOf
<1>2. SubSeq(data, offset["client"] + 1, p) \in Seq(Bytes)
  <2>1. offset["client"] \in Nat /\ Len(data) \in Nat
    BY Facts, SeqDomain DEF Ends
  <2>2. CASE p <= Len(data)
    <3>1. offset["client"] + 1 \in Nat \ {0} /\ offset["client"] + 1 <= p + 1
      BY <1>1, <2>1
    <3> QED
      BY <2>2, <3>1, SubSeqOf
  <2>3. CASE p = offset["client"]
    <3>1. SubSeq(data, p + 1, p) = << >>
      OBVIOUS
    <3> QED
      BY <2>3, <3>1, EmptySeq
  <2> QED
    BY <1>1, <2>2, <2>3
<1>3. sink["remote"] \o SubSeq(data, offset["client"] + 1, p) \in Seq(Bytes)
  BY <1>2, ConcatOf, Facts DEF Ends
<1>4. sink' \in [Ends -> Seq(Bytes)]
  BY <1>1, <1>3 DEF TypeOK, Ends
<1>5. PICK o \in Nat : offset' = [offset EXCEPT !["client"] = o]
  BY SendOf
<1>6. offset' \in [Ends -> Nat] /\ offset'["remote"] = offset["remote"]
  BY <1>5 DEF TypeOK, Ends
<1>7. PICK t \in {"DESYNC", "PRE_TUNNEL"} : type' = [type EXCEPT !["remote"] = t]
  BY SendOf
<1>8. type' \in [Ends -> Types]
  BY <1>7 DEF TypeOK, Ends, Types
<1> QED
  BY <1>4, <1>6, <1>8, SendOf

-----------------------------------------------------------------------------
(* Types, counts and offsets are kept                                      *)

LEMMA InitBasic == Init => Basic
<1> SUFFICES ASSUME Init PROVE Basic
  OBVIOUS
<1>1. TypeOK
  BY LengthAssumption, EmptySeq, ProfilesAssumption DEF Init, TypeOK, Types, Ends
<1>2. Counts
  BY LengthAssumption, EmptySeq DEF Init, Counts, Ends
<1>3. Emptied
  BY DEF Init, Emptied
<1> QED
  BY <1>1, <1>2, <1>3 DEF Basic

LEMMA RoomOf ==
    ASSUME TypeOK, Counts, NEW x \in Ends
    PROVE  /\ BfSize - Len(buff[x]) \in Nat /\ Len(buff[x]) <= BfSize
           /\ taken[x] <= arrived[x]
<1>1. Len(buff[x]) \in Nat /\ BfSize \in Nat
  BY Facts
<1>2. Len(buff[x]) <= BfSize /\ taken[x] <= arrived[x]
  BY DEF Counts
<1> QED
  BY <1>1, <1>2

LEMMA FirstServer ==
    ASSUME NEW s \in Nat, s <= 1, NEW a \in Nat
    PROVE  s <= a + 1
OBVIOUS

LEMMA PeerBasic ==
    ASSUME Basic, PeerStep, UNCHANGED profile
    PROVE  Basic'
<1>1. TypeOK /\ Counts /\ Emptied
  BY DEF Basic
<1>2. UNCHANGED <<profile, status, proxy, report, taken, sink>>
  BY DEF PeerStep
<1>3. CASE ClientWrites
  <2>1. PICK n \in arrived["client"] + 1 .. ReqLen :
          /\ writes + 1 = Writes => n = ReqLen
          /\ arrived' = [arrived EXCEPT !["client"] = n]
    BY <1>3 DEF ClientWrites
  <2>2. writes' = writes + 1 /\ UNCHANGED gone /\ arrived["client"] < ReqLen
    BY <1>3 DEF ClientWrites
  <2>3. writes < Writes /\ writes \in Nat /\ Writes \in Nat /\ arrived["client"] \in Nat
    BY <1>1, <2>2, Facts DEF Counts, Ends
  <2>4. n \in 0 .. ReqLen + RespLen /\ n > arrived["client"]
    BY <2>3, LengthAssumption
  <2>5. TypeOK'
    <3>1. writes' \in 0 .. Writes
      BY <2>2, <2>3
    <3>2. arrived' \in [Ends -> 0 .. ReqLen + RespLen]
      BY <1>1, <2>1, <2>4 DEF TypeOK
    <3> QED
      BY <1>1, <1>2, <2>2, <3>1, <3>2 DEF TypeOK, proxy
  <2>6. arrived'["client"] = n /\ arrived'["remote"] = arrived["remote"]
    BY <1>1, <2>1 DEF TypeOK, Ends
  <2>7. n < ReqLen => writes' < Writes
    BY <2>1, <2>2, <2>3
  <2>8. taken["client"] \in Nat /\ taken["client"] <= n
    <3>1. taken["client"] \in Nat /\ taken["client"] <= arrived["client"]
      BY <1>1, RoomOf, Facts DEF Ends
    <3> QED
      BY <2>3, <2>4, <3>1
  <2>9. Counts'
    BY <1>1, <1>2, <2>6, <2>7, <2>8 DEF Counts, proxy, Ends
  <2> QED
    BY <1>1, <1>2, <2>5, <2>9 DEF Basic, Emptied, proxy
<1>4. CASE ServerWrites
  <2>1. PICK n \in arrived["remote"] + 1 .. RespLen :
          arrived' = [arrived EXCEPT !["remote"] = n]
    BY <1>4 DEF ServerWrites
  <2>2. UNCHANGED <<writes, gone>>
    BY <1>4 DEF ServerWrites
  <2>3. arrived["remote"] \in Nat
    BY <1>1, Facts DEF Ends
  <2>4. n \in 0 .. ReqLen + RespLen /\ n > arrived["remote"]
    BY <2>3, LengthAssumption
  <2>5. TypeOK'
    BY <1>1, <1>2, <2>1, <2>2, <2>4 DEF TypeOK, proxy
  <2>6. arrived'["remote"] = n /\ arrived'["client"] = arrived["client"]
    BY <1>1, <2>1 DEF TypeOK, Ends
  <2>7. taken["remote"] \in Nat /\ taken["remote"] <= n
    <3>1. taken["remote"] \in Nat /\ taken["remote"] <= arrived["remote"]
      BY <1>1, RoomOf, Facts DEF Ends
    <3> QED
      BY <2>3, <2>4, <3>1
  <2>8. Counts'
    BY <1>1, <1>2, <2>2, <2>6, <2>7 DEF Counts, proxy, Ends
  <2> QED
    BY <1>1, <1>2, <2>5, <2>8 DEF Basic, Emptied, proxy
<1>5. CASE \E x \in Ends : Leaves(x)
  <2>1. PICK x \in Ends : Leaves(x)
    BY <1>5
  <2>2. TypeOK'
    BY <1>1, <1>2, <2>1 DEF TypeOK, proxy, Leaves
  <2> QED
    BY <1>1, <1>2, <2>1, <2>2 DEF Basic, Counts, Emptied, proxy, Leaves
<1> QED
  BY <1>3, <1>4, <1>5 DEF PeerStep

LEMMA PollBasic ==
    ASSUME Basic, Poll, UNCHANGED profile
    PROVE  Basic'
<1>1. TypeOK /\ Counts /\ Emptied
  BY DEF Basic
<1>2. UNCHANGED <<profile, status, proxy, peers, taken, sink>>
  BY DEF Poll
<1>3. PICK full \in SUBSET Slow : report' = [x \in Ends |-> Raised(x, full)]
  BY DEF Poll
<1>4. \A x \in Ends : Raised(x, full) \in SUBSET {"in", "out", "hup", "rdhup"}
  BY <1>1 DEF Raised, TypeOK
<1>5. report' \in [Ends -> SUBSET {"in", "out", "hup", "rdhup"}]
  BY <1>3, <1>4
<1>6. TypeOK'
  BY <1>1, <1>2, <1>5 DEF TypeOK, proxy, peers
<1> QED
  BY <1>1, <1>2, <1>6 DEF Basic, Counts, Emptied, proxy, peers

\* The connection ends.
LEMMA FailsBasic ==
    ASSUME Basic, UNCHANGED profile, NEW s \in {"closed"} \cup Failures,
           NEW got \in [Ends -> Seq(Bytes)], FailsAfter(s, got), UNCHANGED peers
    PROVE  Basic'
<1>1. TypeOK /\ Counts /\ Emptied
  BY DEF Basic
<1>2. /\ status' = s /\ report' = Reported /\ sink' = got
      /\ UNCHANGED <<profile, proxy, taken, peers>>
  BY DEF FailsAfter
<1>3. Reported \in [Ends -> SUBSET {"in", "out", "hup", "rdhup"}]
  BY <1>1 DEF Reported, TypeOK
<1>4. TypeOK'
  BY <1>1, <1>2, <1>3 DEF TypeOK, proxy, peers
<1> QED
  BY <1>1, <1>2, <1>4 DEF Basic, Counts, Emptied, proxy, peers

LEMMA FailBasic ==
    ASSUME Basic, UNCHANGED profile, NEW s \in {"closed"} \cup Failures,
           Fails(s), UNCHANGED peers
    PROVE  Basic'
BY FailsBasic DEF Fails, Basic, TypeOK

LEMMA HandledOf ==
    ASSUME TypeOK, NEW x \in Ends, Handled(x)
    PROVE  report' \in [Ends -> SUBSET {"in", "out", "hup", "rdhup"}]
BY DEF TypeOK, Handled

LEMMA WatchAgainOf ==
    ASSUME TypeOK, NEW x \in Ends
    PROVE  WatchAgain(x) \in Watches /\ watch \in Watches
BY DEF TypeOK, WatchAgain, Watches

LEMMA DesyncOutBasic ==
    ASSUME Basic, UNCHANGED profile, NEW x \in Ends, DesyncOut(x)
    PROVE  Basic'
<1>1. TypeOK /\ Counts /\ Emptied
  BY DEF Basic
<1>2. UNCHANGED peers
  BY DEF DesyncOut, Handling
<1>3. CASE buff["client"] = << >>
  BY <1>2, <1>3, FailBasic DEF DesyncOut, Failures
<1>4. CASE buff["client"] # << >>
  <2>1. /\ Send(buff["client"], WatchAgain(x)) /\ Handled(x)
        /\ UNCHANGED <<status, buff, attempt, server, taken>>
    BY <1>4 DEF DesyncOut
  <2>2. buff["client"] \in Seq(Bytes) /\ Len(buff["client"]) <= BfSize
    BY <1>1, Facts, RoomOf DEF Ends
  <2>3. /\ sink' \in [Ends -> Seq(Bytes)] /\ offset' \in [Ends -> Nat]
        /\ watch' \in Watches /\ type' \in [Ends -> Types]
        /\ offset'["remote"] = offset["remote"]
    BY <1>1, <2>1, <2>2, WatchAgainOf, SentTypes
  <2>4. report' \in [Ends -> SUBSET {"in", "out", "hup", "rdhup"}]
    BY <1>1, <2>1, HandledOf
  <2>5. TypeOK'
    BY <1>1, <1>2, <2>1, <2>3, <2>4 DEF TypeOK, peers, Watches
  <2>6. Counts'
    BY <1>1, <1>2, <2>1 DEF Counts, peers
  <2>7. Emptied'
    BY <1>1, <1>4, <2>1, <2>3 DEF Emptied, Ends
  <2> QED
    BY <2>5, <2>6, <2>7 DEF Basic
<1> QED
  BY <1>3, <1>4

LEMMA DesyncFullBasic ==
    ASSUME Basic, UNCHANGED profile, NEW x \in Ends, DesyncFull(x)
    PROVE  Basic'
<1>1. TypeOK /\ Counts /\ Emptied
  BY DEF Basic
<1>2. /\ ToTunnel(x) /\ Handled(x)
      /\ UNCHANGED <<profile, status, watch, attempt, server, taken, sink, peers>>
  BY DEF DesyncFull, Handling
<1>3. /\ type' \in [Ends -> Types] /\ buff' \in [Ends -> Seq(Bytes)]
      /\ offset' \in [Ends -> Nat]
  BY <1>1, <1>2, EmptySeq DEF ToTunnel, TypeOK, Types
<1>4. report' \in [Ends -> SUBSET {"in", "out", "hup", "rdhup"}]
  BY <1>1, <1>2, HandledOf
<1>5. TypeOK'
  BY <1>1, <1>2, <1>3, <1>4 DEF TypeOK, peers
<1>6. \A y \in Ends : buff'[y] \in {buff[y], << >>} /\ Len(buff'[y]) <= BfSize
  BY <1>1, <1>2, EmptySeq, Facts DEF ToTunnel, TypeOK, Counts
<1>7. Counts'
  BY <1>1, <1>2, <1>6 DEF Counts, peers
<1>8. Emptied'
  BY <1>1, <1>2 DEF Emptied, ToTunnel, TypeOK
<1> QED
  BY <1>5, <1>7, <1>8 DEF Basic

LEMMA DesyncInBasic ==
    ASSUME Basic, UNCHANGED profile, DesyncIn
    PROVE  Basic'
<1>1. TypeOK /\ Counts /\ Emptied
  BY DEF Basic
<1>2. UNCHANGED peers
  BY DEF DesyncIn, Handling
<1> DEFINE more == Received("client", BfSize - Len(buff["client"]))
           data == buff["client"] \o more
<1>3. CASE Fails("closed")
  BY <1>2, <1>3, FailBasic
<1>4. CASE ~Fails("closed")
  <2>1. /\ more # << >>
        /\ attempt' \in IF attempt = 0 THEN 0 .. Params - 1 ELSE {attempt}
        /\ Send(data, watch)
        /\ buff' = [buff EXCEPT !["client"] = data]
        /\ taken' = [taken EXCEPT !["client"] = @ + Len(more)]
        /\ Handled("client")
        /\ UNCHANGED <<status, server>>
    BY <1>4 DEF DesyncIn
  <2>2. /\ buff["client"] \in Seq(Bytes) /\ Len(buff["client"]) \in Nat
        /\ BfSize - Len(buff["client"]) \in Nat /\ BfSize \in Nat
    BY <1>1, Facts, RoomOf DEF Ends
  <2>3. /\ more \in Seq(Bytes) /\ Len(more) \in Nat
        /\ Len(more) <= BfSize - Len(buff["client"])
        /\ taken["client"] + Len(more) <= arrived["client"]
    BY <1>1, <2>2, ReceivedOf DEF Ends
  <2> HIDE DEF more
  <2>4. /\ data \in Seq(Bytes) /\ Len(data) = Len(buff["client"]) + Len(more)
        /\ Len(more) # 0
    BY <2>1, <2>2, <2>3, ConcatOf, SeqDomain
  <2>5. Len(data) <= BfSize /\ data # << >>
    BY <2>2, <2>3, <2>4, SeqDomain
  <2> HIDE DEF data
  <2>6. /\ sink' \in [Ends -> Seq(Bytes)] /\ offset' \in [Ends -> Nat]
        /\ watch' \in Watches /\ type' \in [Ends -> Types]
        /\ offset'["remote"] = offset["remote"]
    BY <1>1, <2>1, <2>4, <2>5, WatchAgainOf, SentTypes DEF Ends
  <2>7. report' \in [Ends -> SUBSET {"in", "out", "hup", "rdhup"}]
    BY <1>1, <2>1, HandledOf DEF Ends
  <2>8. attempt' \in 0 .. Params - 1 /\ server <= attempt' + 1
    <3>1. attempt \in 0 .. Params - 1 /\ server \in Nat /\ Params \in Nat
      BY <1>1, LengthAssumption DEF TypeOK
    <3>2. server <= attempt + 1
      BY <1>1 DEF Counts
    <3>3. CASE attempt = 0
      <4>1. attempt' \in 0 .. Params - 1
        BY <2>1, <3>3
      <4>2. server <= 1
        BY <3>2, <3>3
      <4>3. attempt' \in Nat
        BY <3>1, <4>1
      <4> QED
        BY <3>1, <4>1, <4>2, <4>3, FirstServer
    <3>4. CASE attempt # 0
      BY <2>1, <3>1, <3>2, <3>4
    <3> QED
      BY <3>3, <3>4
  <2>9. /\ taken["client"] + Len(more) \in 0 .. ReqLen + RespLen
        /\ taken'["client"] = taken["client"] + Len(more)
        /\ taken'["remote"] = taken["remote"]
    BY <1>1, <2>1, <2>3, LengthAssumption, SMTT(30) DEF TypeOK, Ends
  <2>10. taken' \in [Ends -> 0 .. ReqLen + RespLen]
    BY <1>1, <2>1, <2>9 DEF TypeOK
  <2>11. buff' \in [Ends -> Seq(Bytes)]
    BY <1>1, <2>1, <2>4 DEF TypeOK
  <2>12. TypeOK'
    BY <1>1, <1>2, <2>1, <2>6, <2>7, <2>8, <2>10, <2>11 DEF TypeOK, peers, Watches
  <2>13. buff'["client"] = data /\ buff'["remote"] = buff["remote"]
    BY <1>1, <2>1 DEF TypeOK, Ends
  <2>14. Counts'
    BY <1>1, <1>2, <2>1, <2>3, <2>5, <2>8, <2>9, <2>13 DEF Counts, peers, Ends
  <2>15. Emptied'
    BY <1>1, <2>5, <2>6, <2>13 DEF Emptied, Ends
  <2> QED
    BY <2>12, <2>14, <2>15 DEF Basic
<1> QED
  BY <1>3, <1>4

LEMMA DesyncInRemoteBasic ==
    ASSUME Basic, UNCHANGED profile, DesyncInRemote
    PROVE  Basic'
<1>1. TypeOK /\ Counts /\ Emptied
  BY DEF Basic
<1>2. UNCHANGED peers
  BY DEF DesyncInRemote, Handling
<1> DEFINE more == Received("remote", BfSize - Len(buff["remote"]))
           data == buff["remote"] \o more
<1>3. CASE Fails("closed")
  BY <1>2, <1>3, FailBasic
<1>4. CASE ~Fails("closed")
  <2>1. /\ more # << >>
        /\ Send(buff["client"], WatchAgain("remote"))
        /\ buff' = [buff EXCEPT !["remote"] = data]
        /\ taken' = [taken EXCEPT !["remote"] = @ + Len(more)]
        /\ Handled("remote")
        /\ UNCHANGED <<status, attempt, server>>
    BY <1>4 DEF DesyncInRemote
  <2>2. /\ buff["remote"] \in Seq(Bytes) /\ Len(buff["remote"]) \in Nat
        /\ BfSize - Len(buff["remote"]) \in Nat /\ BfSize \in Nat
        /\ buff["client"] \in Seq(Bytes) /\ Len(buff["client"]) <= BfSize
    BY <1>1, Facts, RoomOf DEF Ends
  <2>3. /\ more \in Seq(Bytes) /\ Len(more) \in Nat
        /\ Len(more) <= BfSize - Len(buff["remote"])
        /\ taken["remote"] + Len(more) <= arrived["remote"]
    BY <1>1, <2>2, ReceivedOf DEF Ends
  <2> HIDE DEF more
  <2>4. /\ data \in Seq(Bytes) /\ Len(data) = Len(buff["remote"]) + Len(more)
        /\ Len(more) # 0
    BY <2>1, <2>2, <2>3, ConcatOf, SeqDomain
  <2>5. Len(data) <= BfSize /\ data # << >>
    BY <2>2, <2>3, <2>4, SeqDomain
  <2> HIDE DEF data
  <2>6. /\ sink' \in [Ends -> Seq(Bytes)] /\ offset' \in [Ends -> Nat]
        /\ watch' \in Watches /\ type' \in [Ends -> Types]
        /\ offset'["remote"] = offset["remote"]
        /\ offset["client"] = 0 /\ buff["client"] = << >> => offset'["client"] = 0
    BY <1>1, <2>1, <2>2, WatchAgainOf, SentTypes DEF Ends
  <2>7. report' \in [Ends -> SUBSET {"in", "out", "hup", "rdhup"}]
    BY <1>1, <2>1, HandledOf DEF Ends
  <2>8. /\ taken["remote"] + Len(more) \in 0 .. ReqLen + RespLen
        /\ taken'["remote"] = taken["remote"] + Len(more)
        /\ taken'["client"] = taken["client"]
    BY <1>1, <2>1, <2>3, LengthAssumption DEF TypeOK, Ends
  <2>9. taken' \in [Ends -> 0 .. ReqLen + RespLen]
    BY <1>1, <2>1, <2>8 DEF TypeOK
  <2>10. buff' \in [Ends -> Seq(Bytes)]
    BY <1>1, <2>1, <2>4 DEF TypeOK
  <2>11. TypeOK'
    BY <1>1, <1>2, <2>1, <2>6, <2>7, <2>9, <2>10 DEF TypeOK, peers, Watches
  <2>12. buff'["remote"] = data /\ buff'["client"] = buff["client"]
    BY <1>1, <2>1 DEF TypeOK, Ends
  <2>13. Counts'
    BY <1>1, <1>2, <2>1, <2>3, <2>5, <2>8, <2>12 DEF Counts, peers, Ends
  <2>14. Emptied'
    BY <1>1, <2>5, <2>6, <2>12 DEF Emptied, Ends
  <2> QED
    BY <2>11, <2>13, <2>14 DEF Basic
<1> QED
  BY <1>3, <1>4

LEMMA NextServer ==
    ASSUME NEW s \in Nat, NEW a \in Nat, NEW max \in Nat, NEW b \in a + 1 .. max - 1,
           s <= a + 1
    PROVE  s + 1 \in 1 .. max /\ s + 1 <= b + 1 /\ b \in 0 .. max - 1
OBVIOUS

LEMMA RetryBasic ==
    ASSUME Basic, UNCHANGED profile, Retry
    PROVE  Basic'
<1>1. TypeOK /\ Counts /\ Emptied
  BY DEF Basic
<1>2. /\ attempt' \in attempt + 1 .. Params - 1
      /\ server' = server + 1
      /\ type' = [type EXCEPT !["client"] = "IGNORE", !["remote"] = "DESYNC"]
      /\ watch' = Waiting
      /\ report' = [report EXCEPT !["remote"] = {}]
      /\ offset' = Replayed
      /\ buff' = [buff EXCEPT !["remote"] = << >>]
      /\ arrived' = [arrived EXCEPT !["remote"] = 0]
      /\ taken' = [taken EXCEPT !["remote"] = 0]
      /\ gone' = [gone EXCEPT !["remote"] = "no"]
      /\ sink' = [sink EXCEPT !["remote"] = << >>]
      /\ UNCHANGED <<profile, status, writes>>
  BY DEF Retry, Reconnect, Groups
<1>3. server + 1 \in 1 .. Params /\ server + 1 <= attempt' + 1 /\ attempt' \in 0 .. Params - 1
  <2>1. server \in Nat /\ attempt \in Nat /\ Params \in Nat
    BY <1>1, Facts DEF Ends
  <2>2. server <= attempt + 1
    BY <1>1 DEF Counts
  <2> QED
    BY <1>2, <2>1, <2>2, NextServer
<1>4. type' \in [Ends -> Types] /\ watch' \in Watches
  BY <1>1, <1>2 DEF TypeOK, Types, Waiting, Watches
<1>5. /\ offset' \in [Ends -> Nat] /\ buff' \in [Ends -> Seq(Bytes)]
      /\ sink' \in [Ends -> Seq(Bytes)]
  BY <1>1, <1>2, EmptySeq DEF TypeOK, Replayed
<1>6. /\ arrived' \in [Ends -> 0 .. ReqLen + RespLen]
      /\ taken' \in [Ends -> 0 .. ReqLen + RespLen]
  <2>1. 0 \in 0 .. ReqLen + RespLen
    BY LengthAssumption
  <2> QED
    BY <1>1, <1>2, <2>1 DEF TypeOK
<1>7. /\ report' \in [Ends -> SUBSET {"in", "out", "hup", "rdhup"}]
      /\ gone' \in [Ends -> {"no", "fin", "rst"}]
  BY <1>1, <1>2 DEF TypeOK
<1>8. TypeOK'
  BY <1>1, <1>2, <1>3, <1>4, <1>5, <1>6, <1>7 DEF TypeOK, Watches
<1>9. /\ taken'["client"] = taken["client"] /\ taken'["remote"] = 0
      /\ arrived'["client"] = arrived["client"] /\ arrived'["remote"] = 0
      /\ buff'["client"] = buff["client"] /\ buff'["remote"] = << >>
  BY <1>1, <1>2 DEF TypeOK, Ends
<1>10. Counts'
  BY <1>1, <1>2, <1>3, <1>9, EmptySeq, LengthAssumption DEF Counts, Ends
<1>11. Emptied'
  BY <1>1, <1>2 DEF Emptied, Replayed, TypeOK, Ends
<1> QED
  BY <1>8, <1>10, <1>11 DEF Basic

LEMMA SentOn ==
    ASSUME TypeOK, NEW x \in Ends, NEW s \in Seq(Bytes)
    PROVE  [sink EXCEPT ![x] = @ \o s] \in [Ends -> Seq(Bytes)]
<1>1. sink[x] \o s \in Seq(Bytes)
  BY Facts, ConcatOf
<1> QED
  BY <1>1 DEF TypeOK

\* The first k bytes of some, and the others.
LEMMA AnswerBasic ==
    ASSUME Basic, UNCHANGED profile, Answer
    PROVE  Basic'
<1>1. TypeOK /\ Counts /\ Emptied
  BY DEF Basic
<1> DEFINE more == Received("remote", BfSize)
<1>2. /\ more \in Seq(Bytes) /\ Len(more) \in Nat
      /\ taken["remote"] + Len(more) <= arrived["remote"]
  BY <1>1, ReceivedOf, LengthAssumption DEF Ends
<1>3. UNCHANGED peers
  BY DEF Answer
<1>4. PICK k \in Accepts("client", Len(more)) :
        IF k < Len(more)
          THEN FailsAfter("closed", [sink EXCEPT !["client"] = @ \o SubSeq(more, 1, k)])
          ELSE /\ sink' = [sink EXCEPT !["client"] = @ \o more]
               /\ taken' = [taken EXCEPT !["remote"] = @ + Len(more)]
               /\ ToTunnel("client")
               /\ Handled("remote")
               /\ UNCHANGED <<status, watch, attempt, server>>
  BY DEF Answer
<1> HIDE DEF more
<1>5. k \in Nat /\ k <= Len(more)
  BY <1>2, AcceptsOf DEF Ends
<1>6. CASE k < Len(more)
  <2>1. SubSeq(more, 1, k) \in Seq(Bytes)
    BY <1>2, <1>5, Cut
  <2>2. [sink EXCEPT !["client"] = @ \o SubSeq(more, 1, k)] \in [Ends -> Seq(Bytes)]
    BY <1>1, <2>1, SentOn DEF Ends
  <2> QED
    BY <1>3, <1>4, <1>6, <2>2, FailsBasic
<1>7. CASE ~(k < Len(more))
  <2>1. /\ sink' = [sink EXCEPT !["client"] = @ \o more]
        /\ taken' = [taken EXCEPT !["remote"] = @ + Len(more)]
        /\ ToTunnel("client")
        /\ Handled("remote")
        /\ UNCHANGED <<status, watch, attempt, server>>
    BY <1>4, <1>7
  <2>2. sink' \in [Ends -> Seq(Bytes)]
    BY <1>1, <1>2, <2>1, SentOn DEF Ends
  <2>3. /\ type' \in [Ends -> Types] /\ buff' \in [Ends -> Seq(Bytes)]
        /\ offset' \in [Ends -> Nat]
    BY <1>1, <2>1, EmptySeq DEF ToTunnel, TypeOK, Types
  <2>4. /\ taken["remote"] + Len(more) \in 0 .. ReqLen + RespLen
        /\ taken'["remote"] = taken["remote"] + Len(more)
        /\ taken'["client"] = taken["client"]
    BY <1>1, <1>2, <2>1, LengthAssumption DEF TypeOK, Ends
  <2>5. taken' \in [Ends -> 0 .. ReqLen + RespLen]
    BY <1>1, <2>1, <2>4 DEF TypeOK
  <2>6. report' \in [Ends -> SUBSET {"in", "out", "hup", "rdhup"}]
    BY <1>1, <2>1, HandledOf DEF Ends
  <2>7. TypeOK'
    BY <1>1, <1>3, <2>1, <2>2, <2>3, <2>5, <2>6 DEF TypeOK, peers
  <2>8. /\ buff'["client"] = << >> /\ buff'["remote"] = buff["remote"]
        /\ offset'["client"] = 0 /\ offset'["remote"] = offset["remote"]
    BY <1>1, <2>1 DEF ToTunnel, TypeOK, Ends
  <2>9. Counts'
    BY <1>1, <1>2, <1>3, <2>1, <2>4, <2>8, EmptySeq, LengthAssumption DEF Counts, peers, Ends
  <2>10. Emptied'
    BY <1>1, <2>8 DEF Emptied, Ends
  <2> QED
    BY <2>7, <2>9, <2>10 DEF Basic
<1> QED
  BY <1>6, <1>7

LEMMA IgnoreBasic ==
    ASSUME Basic, UNCHANGED profile, Ignore
    PROVE  Basic'
<1>1. TypeOK /\ Counts /\ Emptied
  BY DEF Basic
<1>2. UNCHANGED peers
  BY DEF Ignore, Handling
<1>3. CASE Fails("closed")
  BY <1>2, <1>3, FailBasic
<1>4. CASE Handled("client") /\ UNCHANGED <<status, proxy, taken, sink>>
  <2>1. report' \in [Ends -> SUBSET {"in", "out", "hup", "rdhup"}]
    BY <1>1, <1>4, HandledOf DEF Ends
  <2>2. TypeOK'
    BY <1>1, <1>2, <1>4, <2>1 DEF TypeOK, peers, proxy
  <2> QED
    BY <1>1, <1>2, <1>4, <2>2 DEF Basic, Counts, Emptied, peers, proxy
<1> QED
  BY <1>3, <1>4 DEF Ignore

LEMMA SourceOf ==
    ASSUME NEW x \in Ends
    PROVE  Source(x) \in Ends /\ Peer(Source(x)) \in Ends /\ Peer(Source(x)) # Source(x)
BY DEF Source, Peer, Ends

LEMMA TunnelStuckBasic ==
    ASSUME Basic, UNCHANGED profile, NEW x \in Ends, TunnelStuck(x)
    PROVE  Basic'
<1>1. TypeOK /\ Counts /\ Emptied
  BY DEF Basic
<1>2. UNCHANGED peers
  BY DEF TunnelStuck, Handling
<1> DEFINE v == Source(x)
           p == Peer(v)
           n == Len(Pending(v))
<1>3. CASE Fails("closed")
  BY <1>2, <1>3, FailBasic
<1>4. CASE ~Fails("closed")
  <2>1. PICK k \in Accepts(p, n) \ {n} :
          /\ sink' = [sink EXCEPT ![p] = @ \o SubSeq(Pending(v), 1, k)]
          /\ offset' = [offset EXCEPT ![v] = @ + k]
          /\ Handled(x)
          /\ UNCHANGED <<status, type, watch, buff, attempt, server, taken>>
    BY <1>4 DEF TunnelStuck
  <2>2. v \in Ends /\ p \in Ends
    BY SourceOf
  <2>3. n > 0
    BY DEF TunnelStuck
  <2> HIDE DEF v, p
  <2>4. Pending(v) \in Seq(Bytes) /\ n \in Nat /\ (buff[v] = << >> => n = 0)
    BY <1>1, <2>2, PendingOf, EmptySeq
  <2>5. k \in Nat /\ k <= n
    BY <2>1, <2>2, <2>4, AcceptsOf
  <2>6. SubSeq(Pending(v), 1, k) \in Seq(Bytes)
    BY <2>4, <2>5, Cut
  <2>7. sink' \in [Ends -> Seq(Bytes)]
    BY <1>1, <2>1, <2>2, <2>6, SentOn
  <2>8. offset[v] + k \in Nat
    BY <1>1, <2>2, <2>5, Facts
  <2>9. offset' \in [Ends -> Nat]
    BY <1>1, <2>1, <2>8 DEF TypeOK
  <2>10. report' \in [Ends -> SUBSET {"in", "out", "hup", "rdhup"}]
    BY <1>1, <2>1, HandledOf
  <2>11. TypeOK'
    BY <1>1, <1>2, <2>1, <2>7, <2>9, <2>10 DEF TypeOK, peers
  <2>12. buff[v] # << >>
    BY <2>3, <2>4
  <2>13. Emptied'
    BY <1>1, <2>1, <2>12 DEF Emptied, TypeOK
  <2> QED
    BY <1>1, <1>2, <2>1, <2>11, <2>13 DEF Basic, Counts, peers
<1> QED
  BY <1>3, <1>4

\* What on_tunnel() does of a source whose offset is beyond its data.
LEMMA StrayOf ==
    ASSUME TypeOK, NEW x \in Ends, TunnelStray(x)
    PROVE  LET v == Source(x)
               p == Peer(v)
           IN  /\ UNCHANGED peers /\ Handling(x, "TUNNEL")
               /\ buff[v] # << >> /\ offset[v] > Len(buff[v])
               /\ \/ Fails("closed")
                  \/ /\ "hup" \notin report[x] /\ Handled(x)
                     /\ sink' = [sink EXCEPT ![p] = Append(@, Stray)]
                     /\ offset' = [offset EXCEPT ![v] = Far]
                     /\ UNCHANGED <<status, type, watch, buff, attempt, server, taken>>
                  \/ /\ "hup" \notin report[x] /\ Handled(x)
                     /\ UNCHANGED <<status, proxy, taken, sink>>
<1> DEFINE v == Source(x)
<1>1. Missing(v) > 0
  <2>1. buff[v] \in Seq(Bytes) /\ Len(buff[v]) \in Nat /\ offset[v] \in Nat
    BY SourceOf, Facts
  <2>2. Missing(v) \in Nat
    BY <2>1 DEF Missing
  <2>3. Missing(v) > 0 \/ Missing(v) > 1
    BY DEF TunnelStray
  <2> QED
    BY <2>2, <2>3
<1>2. buff[v] # << >> /\ offset[v] > Len(buff[v])
  <2>1. ~(0 > 0)
    OBVIOUS
  <2> QED
    BY <1>1, <2>1 DEF Missing
<1>3. UNCHANGED peers /\ Handling(x, "TUNNEL")
  BY DEF TunnelStray, Handling
<1> QED
  BY <1>2, <1>3 DEF TunnelStray

LEMMA AppendStray ==
    ASSUME NEW s \in Seq(Bytes)
    PROVE  /\ Append(s, Stray) \in Seq(Bytes) /\ Len(Append(s, Stray)) = Len(s) + 1
           /\ \A i \in 1 .. Len(s) : Append(s, Stray)[i] = s[i]
           /\ Append(s, Stray)[Len(s) + 1] = Stray
<1>1. Stray \in Bytes
  BY DEF Bytes
<1> QED
  BY <1>1

LEMMA TunnelStrayBasic ==
    ASSUME Basic, UNCHANGED profile, NEW x \in Ends, TunnelStray(x)
    PROVE  Basic'
<1> DEFINE v == Source(x)
           p == Peer(v)
<1>1. TypeOK /\ Counts /\ Emptied
  BY DEF Basic
<1>2. /\ UNCHANGED peers /\ buff[v] # << >>
      /\ \/ Fails("closed")
         \/ /\ Handled(x)
            /\ sink' = [sink EXCEPT ![p] = Append(@, Stray)]
            /\ offset' = [offset EXCEPT ![v] = Far]
            /\ UNCHANGED <<status, type, watch, buff, attempt, server, taken>>
         \/ Handled(x) /\ UNCHANGED <<status, proxy, taken, sink>>
  BY <1>1, StrayOf
<1>3. v \in Ends /\ p \in Ends
  BY SourceOf
<1> HIDE DEF v, p
<1>4. CASE Fails("closed")
  BY <1>2, <1>4, FailBasic
<1>5. CASE /\ Handled(x)
           /\ sink' = [sink EXCEPT ![p] = Append(@, Stray)]
           /\ offset' = [offset EXCEPT ![v] = Far]
           /\ UNCHANGED <<status, type, watch, buff, attempt, server, taken>>
  <2>1. Append(sink[p], Stray) \in Seq(Bytes)
    BY <1>1, <1>3, Facts, AppendStray
  <2>2. sink' \in [Ends -> Seq(Bytes)]
    BY <1>1, <1>3, <1>5, <2>1 DEF TypeOK
  <2>3. Far \in Nat
    BY LengthAssumption DEF Far
  <2>4. offset' \in [Ends -> Nat]
    BY <1>1, <1>5, <2>3 DEF TypeOK
  <2>5. report' \in [Ends -> SUBSET {"in", "out", "hup", "rdhup"}]
    BY <1>1, <1>5, HandledOf
  <2>6. TypeOK'
    BY <1>1, <1>2, <1>5, <2>2, <2>4, <2>5 DEF TypeOK, peers
  <2>7. Emptied'
    BY <1>1, <1>2, <1>5 DEF Emptied, TypeOK
  <2> QED
    BY <1>1, <1>2, <1>5, <2>6, <2>7 DEF Basic, Counts, peers
<1>6. CASE Handled(x) /\ UNCHANGED <<status, proxy, taken, sink>>
  <2>1. report' \in [Ends -> SUBSET {"in", "out", "hup", "rdhup"}]
    BY <1>1, <1>6, HandledOf
  <2>2. TypeOK'
    BY <1>1, <1>2, <1>6, <2>1 DEF TypeOK, peers, proxy
  <2> QED
    BY <1>1, <1>2, <1>6, <2>2 DEF Basic, Counts, Emptied, peers, proxy
<1> QED
  BY <1>2, <1>4, <1>5, <1>6

Base(v) == IF buff[v] # << >> THEN [y \in Ends |-> {"in"}] ELSE watch

LEMMA Appended ==
    ASSUME NEW S, NEW s \in Seq(S)
    PROVE  s \o << >> = s
OBVIOUS

\* What on_tunnel() does when nothing is left over: the leftover and k bytes of
\* what it receives now are sent, the others are kept.  proxy.c:633 holds.
LEMMA TunnelOf ==
    ASSUME Basic, NEW x \in Ends, Tunnel(x)
    PROVE  LET v    == Source(x)
               p    == Peer(v)
               more == Received(v, BfSize)
           IN  /\ UNCHANGED peers
               /\ \/ FailsAfter("closed", [sink EXCEPT ![p] = @ \o Pending(v)])
                  \/ \E k \in Accepts(p, Len(more)) :
                       /\ sink' = [sink EXCEPT ![p] = (@ \o Pending(v)) \o SubSeq(more, 1, k)]
                       /\ taken' = [taken EXCEPT ![v] = @ + Len(more)]
                       /\ buff' = [buff EXCEPT ![v] = SubSeq(more, k + 1, Len(more))]
                       /\ offset' = [offset EXCEPT ![v] = 0]
                       /\ watch' = IF k < Len(more) THEN Stalled(Base(v), v) ELSE Base(v)
                       /\ Handled(x)
                       /\ UNCHANGED <<status, type, attempt, server>>
<1> DEFINE v == Source(x)
           p == Peer(v)
           freed == buff[v] # << >>
           more == Received(v, BfSize)
           n == Len(more)
<1>1. TypeOK /\ Counts /\ Emptied
  BY DEF Basic
<1>2. UNCHANGED peers
  BY DEF Tunnel, Handling
<1>3. v \in Ends /\ p \in Ends
  BY SourceOf
<1>4. more \in Seq(Bytes) /\ n \in Nat
  BY <1>1, <1>3, ReceivedOf, LengthAssumption
<1>5. IF n = 0
        THEN IF gone[v] # "no"
          THEN FailsAfter("closed", [sink EXCEPT ![p] = @ \o Pending(v)])
          ELSE /\ sink' = [sink EXCEPT ![p] = @ \o Pending(v)]
               /\ watch' = Base(v)
               /\ buff' = [buff EXCEPT ![v] = << >>]
               /\ offset' = IF freed THEN [offset EXCEPT ![v] = 0] ELSE offset
               /\ Handled(x)
               /\ UNCHANGED <<status, type, attempt, server, taken>>
        ELSE \E k \in Accepts(p, n) :
          IF k < n /\ ~freed /\ offset[v] # 0
            THEN Fails("proxy.c:633")
            ELSE /\ sink' = [sink EXCEPT ![p] = @ \o Pending(v) \o SubSeq(more, 1, k)]
                 /\ taken' = [taken EXCEPT ![v] = @ + n]
                 /\ watch' = IF k < n THEN Stalled(Base(v), v) ELSE Base(v)
                 /\ buff' = [buff EXCEPT ![v] = SubSeq(more, k + 1, n)]
                 /\ offset' = IF freed THEN [offset EXCEPT ![v] = 0] ELSE offset
                 /\ Handled(x)
                 /\ UNCHANGED <<status, type, attempt, server>>
  BY DEF Tunnel, Base, Leftover
<1> HIDE DEF v, p, more
<1>6. ~freed => offset[v] = 0
  BY <1>1, <1>3 DEF Emptied
<1>7. (IF freed THEN [offset EXCEPT ![v] = 0] ELSE offset) = [offset EXCEPT ![v] = 0]
  BY <1>1, <1>3, <1>6 DEF TypeOK
<1>8. CASE n = 0 /\ gone[v] = "no"
  <2>1. /\ sink' = [sink EXCEPT ![p] = @ \o Pending(v)]
        /\ watch' = Base(v)
        /\ buff' = [buff EXCEPT ![v] = << >>]
        /\ offset' = [offset EXCEPT ![v] = 0]
        /\ Handled(x)
        /\ UNCHANGED <<status, type, attempt, server, taken>>
    BY <1>5, <1>7, <1>8
  <2>2. more = << >>
    BY <1>4, <1>8, SeqDomain
  <2>3. 0 \in Accepts(p, n)
    BY <1>8 DEF Accepts
  <2>4. SubSeq(more, 1, 0) = << >> /\ SubSeq(more, 0 + 1, n) = << >>
    BY <1>8, <2>2
  <2>5. taken' = [taken EXCEPT ![v] = @ + n]
    BY <1>1, <1>3, <1>8, <2>1, Facts DEF TypeOK
  <2>6. (sink[p] \o Pending(v)) \o << >> = sink[p] \o Pending(v)
    <3>1. sink[p] \o Pending(v) \in Seq(Bytes)
      BY <1>1, <1>3, Facts, PendingOf, ConcatOf
    <3> QED
      BY <3>1, Appended
  <2>7. ~(0 < n)
    BY <1>8
  <2>8. /\ sink' = [sink EXCEPT ![p] = (@ \o Pending(v)) \o SubSeq(more, 1, 0)]
        /\ buff' = [buff EXCEPT ![v] = SubSeq(more, 0 + 1, n)]
    BY <2>1, <2>4, <2>6
  <2> QED
    BY <1>2, <2>1, <2>3, <2>5, <2>7, <2>8 DEF v, p, more
<1>9. CASE n = 0 /\ gone[v] # "no"
  BY <1>2, <1>5, <1>9 DEF v, p, more
<1>10. CASE n # 0
  BY <1>2, <1>5, <1>6, <1>7, <1>10 DEF v, p, more
<1> QED
  BY <1>8, <1>9, <1>10


LEMMA TunnelBasic ==
    ASSUME Basic, UNCHANGED profile, NEW x \in Ends, Tunnel(x)
    PROVE  Basic'
<1> DEFINE v == Source(x)
           p == Peer(v)
           more == Received(v, BfSize)
           n == Len(more)
<1>1. TypeOK /\ Counts /\ Emptied
  BY DEF Basic
<1>2. /\ UNCHANGED peers
      /\ \/ FailsAfter("closed", [sink EXCEPT ![p] = @ \o Pending(v)])
         \/ \E k \in Accepts(p, n) :
              /\ sink' = [sink EXCEPT ![p] = (@ \o Pending(v)) \o SubSeq(more, 1, k)]
              /\ taken' = [taken EXCEPT ![v] = @ + n]
              /\ buff' = [buff EXCEPT ![v] = SubSeq(more, k + 1, n)]
              /\ offset' = [offset EXCEPT ![v] = 0]
              /\ watch' = IF k < n THEN Stalled(Base(v), v) ELSE Base(v)
              /\ Handled(x)
              /\ UNCHANGED <<status, type, attempt, server>>
  BY TunnelOf
<1>3. v \in Ends /\ p \in Ends
  BY SourceOf
<1>4. /\ more \in Seq(Bytes) /\ n \in Nat /\ n <= BfSize
      /\ taken[v] + n <= arrived[v]
  BY <1>1, <1>3, ReceivedOf, LengthAssumption
<1>5. sink[p] \o Pending(v) \in Seq(Bytes) /\ Pending(v) \in Seq(Bytes)
  BY <1>1, <1>3, Facts, PendingOf, ConcatOf
<1> HIDE DEF v, p, more
<1>6. CASE FailsAfter("closed", [sink EXCEPT ![p] = @ \o Pending(v)])
  <2>1. [sink EXCEPT ![p] = @ \o Pending(v)] \in [Ends -> Seq(Bytes)]
    BY <1>1, <1>3, <1>5, SentOn
  <2> QED
    BY <1>2, <1>6, <2>1, FailsBasic
<1>7. ASSUME NEW k \in Accepts(p, n),
             sink' = [sink EXCEPT ![p] = (@ \o Pending(v)) \o SubSeq(more, 1, k)],
             taken' = [taken EXCEPT ![v] = @ + n],
             buff' = [buff EXCEPT ![v] = SubSeq(more, k + 1, n)],
             offset' = [offset EXCEPT ![v] = 0],
             watch' = IF k < n THEN Stalled(Base(v), v) ELSE Base(v),
             Handled(x),
             UNCHANGED <<status, type, attempt, server>>
      PROVE  Basic'
  <2>1. k \in Nat /\ k <= n
    BY <1>3, <1>4, AcceptsOf
  <2>2. /\ SubSeq(more, 1, k) \in Seq(Bytes)
        /\ SubSeq(more, k + 1, n) \in Seq(Bytes)
        /\ Len(SubSeq(more, k + 1, n)) = n - k
    BY <1>4, <2>1, Cut
  <2>3. (sink[p] \o Pending(v)) \o SubSeq(more, 1, k) \in Seq(Bytes)
    BY <1>5, <2>2, ConcatOf
  <2>4. sink' \in [Ends -> Seq(Bytes)]
    BY <1>1, <1>7, <2>3 DEF TypeOK
  <2>5. /\ taken[v] + n \in 0 .. ReqLen + RespLen
        /\ taken'[v] = taken[v] + n
        /\ \A y \in Ends \ {v} : taken'[y] = taken[y]
    <3>1. taken[v] \in Nat /\ arrived[v] \in 0 .. ReqLen + RespLen
      BY <1>1, <1>3, Facts DEF TypeOK
    <3>2. taken[v] + n \in 0 .. ReqLen + RespLen
      BY <1>4, <3>1, LengthAssumption
    <3> QED
      BY <1>1, <1>3, <1>7, <3>2 DEF TypeOK
  <2>6. taken' \in [Ends -> 0 .. ReqLen + RespLen]
    BY <1>1, <1>7, <2>5 DEF TypeOK
  <2>7. buff' \in [Ends -> Seq(Bytes)] /\ offset' \in [Ends -> Nat]
    BY <1>1, <1>7, <2>2 DEF TypeOK
  <2>8. watch' \in [Ends -> SUBSET {"in", "out"}]
    <3>1. Base(v) \in [Ends -> SUBSET {"in", "out"}]
      BY <1>1 DEF Base, TypeOK
    <3>2. Stalled(Base(v), v) \in [Ends -> SUBSET {"in", "out"}]
      BY <3>1 DEF Stalled
    <3> QED
      BY <1>7, <3>1, <3>2
  <2>9. report' \in [Ends -> SUBSET {"in", "out", "hup", "rdhup"}]
    BY <1>1, <1>7, HandledOf
  <2>10. TypeOK'
    BY <1>1, <1>2, <1>7, <2>4, <2>6, <2>7, <2>8, <2>9 DEF TypeOK, peers
  <2>11. /\ buff'[v] = SubSeq(more, k + 1, n) /\ offset'[v] = 0
         /\ \A y \in Ends \ {v} : buff'[y] = buff[y] /\ offset'[y] = offset[y]
    BY <1>1, <1>3, <1>7 DEF TypeOK
  <2>12. \A y \in Ends : taken'[y] <= arrived'[y] /\ Len(buff'[y]) <= BfSize
    <3>1. taken'[v] <= arrived'[v]
      BY <1>2, <1>4, <2>5 DEF peers
    <3>2. Len(buff'[v]) <= BfSize
      <4>1. n - k <= BfSize
        BY <1>4, <2>1, LengthAssumption
      <4> QED
        BY <2>2, <2>11, <4>1
    <3> QED
      BY <1>1, <1>2, <2>5, <2>11, <3>1, <3>2 DEF Counts, peers
  <2>13. Counts'
    BY <1>1, <1>2, <1>7, <2>12 DEF Counts, peers
  <2>14. Emptied'
    BY <1>1, <2>11 DEF Emptied
  <2> QED
    BY <2>10, <2>13, <2>14 DEF Basic
<1> QED
  BY <1>2, <1>6, <1>7

LEMMA EndBasic ==
    ASSUME Basic, UNCHANGED profile,
           NoAnswer \/ CheckOut \/ (\E x \in Ends : Error(x)) \/ Ended
    PROVE  Basic'
<1>1. CASE NoAnswer
  BY <1>1, FailBasic DEF NoAnswer
<1>2. CASE CheckOut
  BY <1>2, FailBasic DEF CheckOut, Failures
<1>3. CASE \E x \in Ends : Error(x)
  BY <1>3, FailBasic DEF Error
<1>4. CASE Ended
  BY <1>4 DEF Ended, Basic, TypeOK, Counts, Emptied, proxy, peers
<1> QED
  BY <1>1, <1>2, <1>3, <1>4

LEMMA NextBasic ==
    ASSUME Basic, [Next]_vars
    PROVE  Basic'
<1>1. CASE UNCHANGED vars
  BY <1>1 DEF vars, Basic, TypeOK, Counts, Emptied, proxy, peers
<1>2. CASE Next
  <2>1. UNCHANGED profile
    BY <1>2 DEF Next
  <2>2. CASE PeerStep \/ Poll \/ Ended
    BY <2>1, <2>2, PeerBasic, PollBasic, EndBasic
  <2>3. CASE HandlerStep
    <3>1. CASE \E x \in Ends : DesyncOut(x) \/ DesyncFull(x)
      BY <2>1, <3>1, DesyncOutBasic, DesyncFullBasic
    <3>2. CASE \E x \in Ends : TunnelStuck(x) \/ TunnelStray(x) \/ Tunnel(x)
      BY <2>1, <3>2, TunnelStuckBasic, TunnelStrayBasic, TunnelBasic
    <3>3. CASE DesyncIn \/ DesyncInRemote \/ Retry \/ Answer \/ Ignore
      BY <2>1, <3>3, DesyncInBasic, DesyncInRemoteBasic, RetryBasic, AnswerBasic,
         IgnoreBasic
    <3>4. CASE (\E x \in Ends : Error(x)) \/ CheckOut \/ NoAnswer
      BY <2>1, <3>4, EndBasic
    <3> QED
      BY <2>3, <3>1, <3>2, <3>3, <3>4 DEF HandlerStep
  <2> QED
    BY <1>2, <2>2, <2>3 DEF Next
<1> QED
  BY <1>1, <1>2

LEMMA BasicInvariant == Spec => []Basic
<1>1. Basic /\ [Next]_vars => Basic'
  BY NextBasic
<1> QED
  BY InitBasic, <1>1, PTL DEF Spec

\* Every variable keeps its type; above all, no count leaves the range of the C
\* types, no more servers are tried than there are groups and the peers
\* get bytes that one of them wrote.
THEOREM TypeCorrect == Spec => []TypeOK
BY BasicInvariant, PTL DEF Basic

-----------------------------------------------------------------------------
(* No assertion of on_tunnel() fails                                       *)

LEMMA NextStatus ==
    ASSUME Basic, [Next]_vars
    PROVE  status' \in {status, "closed", "extend.c:279", "extend.c:344"}
<1>1. CASE UNCHANGED vars \/ PeerStep \/ Poll \/ Ended
  BY <1>1 DEF vars, PeerStep, Poll, Ended
<1>2. CASE \E x \in Ends : \/ DesyncOut(x) \/ DesyncFull(x) \/ TunnelStuck(x)
                         \/ TunnelStray(x) \/ Error(x)
  BY <1>2 DEF DesyncOut, DesyncFull, TunnelStuck, TunnelStray, Error, Fails, FailsAfter
<1>3. CASE DesyncIn \/ DesyncInRemote \/ CheckOut \/ Retry \/ NoAnswer \/ Answer \/ Ignore
  BY <1>3 DEF DesyncIn, DesyncInRemote, CheckOut, Retry, Reconnect, NoAnswer, Answer,
              Ignore, Fails, FailsAfter
<1>4. CASE \E x \in Ends : Tunnel(x)
  <2>1. PICK x \in Ends : Tunnel(x)
    BY <1>4
  <2> QED
    BY <2>1, TunnelOf DEF FailsAfter
<1> QED
  BY <1>1, <1>2, <1>3, <1>4 DEF Next, HandlerStep

\* assert(!(val->buff.size || val->buff.offset)) of on_tunnel(): no handler leaves
\* an offset behind in a buffer that it empties.
THEOREM NothingLeftOver == Spec => []AssertNoLeftover
<1>1. Init => AssertNoLeftover
  BY DEF Init, AssertNoLeftover
<1>2. Basic /\ AssertNoLeftover /\ [Next]_vars => AssertNoLeftover'
  BY NextStatus DEF AssertNoLeftover
<1> QED
  BY BasicInvariant, <1>1, <1>2, PTL DEF Spec

-----------------------------------------------------------------------------
(* Servers get the request in order                                        *)

\* What waits in the client's buffer follows what the server has got.
InOrder ==
    /\ Rising(buff["client"]) /\ UpTo(buff["client"], taken["client"])
    /\ Ordered(sink["remote"]) /\ UpTo(sink["remote"], taken["client"])
    /\ status = "open" => Below(sink["remote"], Pending("client"))

LEMMA NothingInOrder ==
    ASSUME NEW s, NEW k
    PROVE  Rising(<< >>) /\ Ordered(<< >>) /\ UpTo(<< >>, k) /\ Below(s, << >>) /\ Below(<< >>, s)
BY DEF Rising, Ordered, RisingBut, UpTo, Below

\* The send of a part of the data that follows what was sent before.
LEMMA SentInOrder ==
    ASSUME NEW s \in Seq(Bytes), NEW data \in Seq(Bytes),
           NEW a \in Nat, NEW b \in Nat, NEW c \in Nat, NEW k,
           a <= b, b <= Len(data) \/ b = a, b <= c \/ Len(data) <= c,
           Rising(data), UpTo(data, k), Ordered(s), UpTo(s, k),
           Below(s, SubSeq(data, a + 1, Len(data)))
    PROVE  LET t == s \o SubSeq(data, a + 1, b)
           IN  Ordered(t) /\ UpTo(t, k) /\ Below(t, SubSeq(data, c + 1, Len(data)))
<1> DEFINE part == SubSeq(data, a + 1, b)
           rest == SubSeq(data, c + 1, Len(data))
           all  == SubSeq(data, a + 1, Len(data))
<1>1. Len(data) \in Nat
  BY SeqDomain
<1>2. CASE b <= Len(data)
  <2>1. /\ a + 1 \in Nat \ {0} /\ a + 1 <= b + 1 /\ c + 1 \in Nat \ {0}
    BY <1>1
  <2>2. part \in Seq(Bytes)
    BY <1>2, <2>1, SubSeqOf
  <2>3. Rising(part) /\ UpTo(part, k)
    BY <1>2, <2>1, SliceInOrder
  <2>4. Below(s, part)
    BY <1>2, <2>1, BelowSlice
  <2>5. Below(s, rest) /\ Below(part, rest)
    <3>1. CASE Len(data) <= c
      <4>1. rest = << >>
        BY <1>1, <2>1, <3>1, SubSeqBeyond
      <4> QED
        BY <4>1, NothingInOrder
    <3>2. CASE c < Len(data)
      <4>1. b <= c /\ a + 1 <= c + 1 /\ c + 1 <= Len(data) + 1 /\ Len(data) <= Len(data)
        BY <1>1, <3>2
      <4>2. Below(part, rest)
        BY <1>2, <4>1, SplitInOrder
      <4>3. Below(s, rest)
        BY <1>1, <2>1, <4>1, BelowSlice
      <4> QED
        BY <4>2, <4>3
    <3> QED
      BY <1>1, <3>1, <3>2
  <2> HIDE DEF part, rest
  <2> QED
    BY <2>2, <2>3, <2>4, <2>5, ChainOrdered, BelowChain DEF part, rest
<1>3. CASE b = a /\ b > Len(data)
  <2>1. part = << >>
    BY <1>3
  <2>2. s \o part = s
    BY <2>1, Appended
  <2>3. rest = << >>
    <3>1. c + 1 \in Nat \ {0} /\ c + 1 > Len(data)
      BY <1>1, <1>3
    <3> QED
      BY <1>1, <3>1, SubSeqBeyond
  <2> QED
    BY <2>2, <2>3, NothingInOrder
<1> QED
  BY <1>1, <1>2, <1>3

LEMMA UpToMore ==
    ASSUME NEW s \in Seq(Bytes), NEW k \in Nat, NEW m \in Nat, k <= m, UpTo(s, k)
    PROVE  UpTo(s, m)
<1>1. ASSUME NEW i \in DOMAIN s PROVE s[i][2] <= m
  <2>1. s[i][2] \in Nat /\ s[i][2] <= k
    BY SeqDomain, ByteTypes DEF UpTo
  <2> QED
    BY <2>1
<1> QED
  BY <1>1 DEF UpTo

\* What a socket gives is in order and follows what it gave before.
LEMMA ReceivedInOrder ==
    ASSUME TypeOK, Counts, NEW x \in Ends, NEW limit \in Nat
    PROVE  LET more == Received(x, limit)
           IN  /\ Rising(more) /\ UpTo(more, taken[x] + Len(more))
               /\ After(more, taken[x])
<1> DEFINE more == Received(x, limit)
<1>1. /\ more \in Seq(Bytes) /\ Len(more) \in Nat
      /\ \A i \in 1 .. Len(more) : more[i] = Byte(x, taken[x] + i)
  BY ReceivedOf
<1> HIDE DEF more
<1>2. DOMAIN more = 1 .. Len(more) /\ taken[x] \in Nat
  BY <1>1, SeqDomain, Facts
<1>3. \A i \in DOMAIN more : more[i][2] = taken[x] + i
  BY <1>1, <1>2 DEF Byte
<1> QED
  BY <1>1, <1>2, <1>3 DEF Rising, RisingBut, UpTo, After, more

LEMMA SendInOrder ==
    ASSUME TypeOK, NEW data \in Seq(Bytes), Len(data) <= BfSize,
           NEW w \in Watches, Send(data, w), NEW k,
           Rising(data), UpTo(data, k), Ordered(sink["remote"]), UpTo(sink["remote"], k),
           Below(sink["remote"], SubSeq(data, offset["client"] + 1, Len(data)))
    PROVE  /\ Ordered(sink'["remote"]) /\ UpTo(sink'["remote"], k)
           /\ Below(sink'["remote"], SubSeq(data, offset'["client"] + 1, Len(data)))
<1>1. PICK p \in Nat :
        /\ offset["client"] <= p
        /\ p <= Len(data) \/ p = offset["client"]
        /\ sink' = [sink EXCEPT !["remote"] = @ \o SubSeq(data, offset["client"] + 1, p)]
        /\ p <= offset'["client"] \/ Len(data) <= offset'["client"]
  BY SendOf
<1>2. sink'["remote"] = sink["remote"] \o SubSeq(data, offset["client"] + 1, p)
  BY <1>1 DEF TypeOK, Ends
<1>3. /\ sink["remote"] \in Seq(Bytes) /\ offset["client"] \in Nat
      /\ offset'["client"] \in Nat
  BY Facts, SentTypes DEF Ends
<1> DEFINE s == sink["remote"]
           o == offset["client"]
           c == offset'["client"]
<1>4. /\ s \in Seq(Bytes) /\ o \in Nat /\ c \in Nat
      /\ p <= Len(data) \/ p = o
      /\ p <= c \/ Len(data) <= c
      /\ Ordered(s) /\ UpTo(s, k) /\ Below(s, SubSeq(data, o + 1, Len(data)))
  BY <1>1, <1>3
<1>5. o <= p
  BY <1>1
<1> HIDE DEF s, o, c
<1>6. LET t == s \o SubSeq(data, o + 1, p)
      IN  Ordered(t) /\ UpTo(t, k) /\ Below(t, SubSeq(data, c + 1, Len(data)))
  BY <1>4, <1>5, SentInOrder
<1> QED
  BY <1>2, <1>6 DEF s, o, c

\* The handlers that send from the client's buffer without adding to it.
LEMMA SendKeepsOrder ==
    ASSUME Basic, InOrder, status = "open", NEW w \in Watches,
           Send(buff["client"], w), buff'["client"] = buff["client"],
           taken'["client"] = taken["client"]
    PROVE  InOrder'
<1>1. /\ TypeOK /\ buff["client"] \in Seq(Bytes) /\ Len(buff["client"]) <= BfSize
  BY Facts, RoomOf DEF Basic, Ends
<1>2. /\ Ordered(sink'["remote"]) /\ UpTo(sink'["remote"], taken["client"])
      /\ Below(sink'["remote"],
               SubSeq(buff["client"], offset'["client"] + 1, Len(buff["client"])))
  BY <1>1, SendInOrder DEF InOrder, Pending
<1> QED
  BY <1>2 DEF InOrder, Pending

\* Neither the request nor what was sent of it changes.
LEMMA SameOrder ==
    ASSUME InOrder, buff'["client"] = buff["client"], taken'["client"] = taken["client"],
           sink'["remote"] = sink["remote"], offset'["client"] = offset["client"],
           status = "open" \/ status' # "open"
    PROVE  InOrder'
BY DEF InOrder, Pending

\* The client's buffer is emptied.
LEMMA EmptiedOrder ==
    ASSUME InOrder, buff'["client"] = << >>, taken'["client"] = taken["client"],
           sink'["remote"] = sink["remote"], offset'["client"] = 0
    PROVE  InOrder'
<1>1. Pending("client")' = << >>
  BY EmptySeq DEF Pending
<1> QED
  BY <1>1, NothingInOrder DEF InOrder

LEMMA PeerOrder ==
    ASSUME InOrder, PeerStep \/ Poll \/ Ended
    PROVE  InOrder'
BY SameOrder DEF PeerStep, Poll, Ended, proxy

LEMMA FailsOrder ==
    ASSUME InOrder, NEW s \in {"closed"} \cup Failures, Fails(s)
    PROVE  InOrder'
BY SameOrder DEF Fails, FailsAfter, proxy, Failures

LEMMA DesyncOutOrder ==
    ASSUME Basic, InOrder, NEW x \in Ends, DesyncOut(x)
    PROVE  InOrder'
<1>1. CASE buff["client"] = << >>
  BY <1>1, FailsOrder DEF DesyncOut, Failures
<1>2. CASE buff["client"] # << >>
  <2>1. /\ Send(buff["client"], WatchAgain(x)) /\ status = "open"
        /\ UNCHANGED <<buff, taken>>
    BY <1>2 DEF DesyncOut, Handling
  <2> QED
    BY <2>1, WatchAgainOf, SendKeepsOrder DEF Basic
<1> QED
  BY <1>1, <1>2

LEMMA DesyncFullOrder ==
    ASSUME Basic, InOrder, NEW x \in Ends, DesyncFull(x)
    PROVE  InOrder'
<1>1. /\ buff' = [buff EXCEPT ![x] = << >>] /\ offset' = [offset EXCEPT ![x] = 0]
      /\ UNCHANGED <<taken, sink>> /\ status = "open"
  BY DEF DesyncFull, ToTunnel, Handling
<1>2. CASE x = "client"
  BY <1>1, <1>2, EmptiedOrder DEF Basic, TypeOK
<1>3. CASE x = "remote"
  BY <1>1, <1>3, SameOrder DEF Basic, TypeOK, Ends
<1> QED
  BY <1>2, <1>3 DEF Ends

LEMMA TailIndex ==
    ASSUME NEW a \in Nat, NEW j \in Nat, NEW m \in Nat, j >= 1, a + j <= m
    PROVE  /\ a + 1 \in Nat \ {0} /\ a + 1 <= m + 1 /\ m <= m
           /\ j \in 1 .. m - (a + 1) + 1 /\ (a + 1) + j - 1 = a + j
OBVIOUS

\* What was sent comes before the request with what is received now.
LEMMA BelowMore ==
    ASSUME NEW s \in Seq(Bytes), NEW t \in Seq(Bytes), NEW u \in Seq(Bytes),
           NEW a \in Nat, NEW k \in Nat, UpTo(s, k), After(u, k),
           Below(s, SubSeq(t, a + 1, Len(t)))
    PROVE  Below(s, SubSeq(t \o u, a + 1, Len(t \o u)))
<1> DEFINE d == t \o u
           r == SubSeq(d, a + 1, Len(d))
<1>1. /\ d \in Seq(Bytes) /\ Len(d) = Len(t) + Len(u)
      /\ \A i \in 1 .. Len(t) : d[i] = t[i]
      /\ \A i \in Len(t) + 1 .. Len(t) + Len(u) : d[i] = u[i - Len(t)]
  BY ConcatOf
<1>2. Len(t) \in Nat /\ Len(u) \in Nat /\ DOMAIN u = 1 .. Len(u)
  BY SeqDomain
<1> HIDE DEF d
<1>3. CASE a >= Len(d)
  <2>1. a + 1 \in Nat \ {0} /\ a + 1 > Len(d)
    BY <1>1, <1>2, <1>3
  <2>2. r = << >>
    BY <1>1, <2>1, SubSeqBeyond
  <2> QED
    BY <2>2, NothingInOrder DEF d
<1>4. CASE a < Len(d)
  <2>1. /\ r \in Seq(Bytes) /\ Len(r) = Len(d) - (a + 1) + 1
        /\ \A i \in 1 .. Len(d) - (a + 1) + 1 : r[i] = d[(a + 1) + i - 1]
    <3>1. /\ a + 1 \in Nat \ {0} /\ a + 1 <= Len(d) + 1 /\ Len(d) \in Nat
          /\ Len(d) <= Len(d) /\ d \in Seq(Bytes)
      BY <1>1, <1>2, <1>4
    <3> QED
      BY <3>1, SubSeqOf
  <2> HIDE DEF r
  <2>2. DOMAIN r = 1 .. Len(d) - (a + 1) + 1
    BY <2>1, SeqDomain
  <2>3. ASSUME NEW i \in DOMAIN s, NEW j \in DOMAIN r PROVE s[i][2] < r[j][2]
    <3>1. j \in Nat /\ j >= 1 /\ a + j <= Len(d) /\ r[j] = d[a + j]
      <4>1. j \in Nat /\ j >= 1 /\ a + j <= Len(d) /\ (a + 1) + j - 1 = a + j
        BY <1>1, <1>2, <2>2
      <4> QED
        BY <2>1, <2>2, <4>1
    <3>2. CASE a + j <= Len(t)
      <4>1. /\ a + 1 \in Nat \ {0} /\ a + 1 <= Len(t) + 1 /\ Len(t) <= Len(t)
            /\ j \in 1 .. Len(t) - (a + 1) + 1 /\ (a + 1) + j - 1 = a + j
        <5>1. j \in Nat /\ j >= 1 /\ Len(t) \in Nat
          BY <1>2, <3>1
        <5> QED
          BY <3>2, <5>1, TailIndex
      <4>2. /\ SubSeq(t, a + 1, Len(t)) \in Seq(Bytes)
            /\ Len(SubSeq(t, a + 1, Len(t))) = Len(t) - (a + 1) + 1
            /\ SubSeq(t, a + 1, Len(t))[j] = t[(a + 1) + j - 1]
        BY <1>2, <4>1, SubSeqOf
      <4>3. j \in DOMAIN SubSeq(t, a + 1, Len(t))
        BY <4>1, <4>2, SeqDomain
      <4>4. s[i][2] < SubSeq(t, a + 1, Len(t))[j][2]
        BY <4>3 DEF Below
      <4>5. a + j \in 1 .. Len(t)
        BY <1>2, <3>1, <3>2
      <4>6. r[j] = t[a + j]
        BY <1>1, <3>1, <4>5
      <4> QED
        BY <4>1, <4>2, <4>4, <4>6
    <3>3. CASE a + j > Len(t)
      <4>1. a + j \in Len(t) + 1 .. Len(t) + Len(u) /\ a + j - Len(t) \in DOMAIN u
        BY <1>1, <1>2, <3>1, <3>3
      <4>2. r[j] = u[a + j - Len(t)]
        BY <1>1, <3>1, <4>1, SMTT(30)
      <4>3. /\ s[i][2] \in Nat /\ s[i][2] <= k
            /\ u[a + j - Len(t)][2] \in Nat /\ u[a + j - Len(t)][2] > k
        BY <4>1, SeqDomain, ByteTypes DEF UpTo, After
      <4> QED
        BY <4>2, <4>3
    <3> QED
      BY <1>2, <3>1, <3>2, <3>3
  <2> QED
    BY <2>3 DEF Below, r, d
<1> QED
  BY <1>1, <1>2, <1>3, <1>4

LEMMA DesyncInOrder ==
    ASSUME Basic, InOrder, DesyncIn
    PROVE  InOrder'
<1>1. TypeOK /\ Counts
  BY DEF Basic
<1> DEFINE more == Received("client", BfSize - Len(buff["client"]))
           data == buff["client"] \o more
           k == taken["client"] + Len(more)
<1>2. CASE Fails("closed")
  BY <1>2, FailsOrder
<1>3. CASE ~Fails("closed")
  <2>1. /\ Send(data, watch) /\ status = "open"
        /\ buff' = [buff EXCEPT !["client"] = data]
        /\ taken' = [taken EXCEPT !["client"] = @ + Len(more)]
    BY <1>3 DEF DesyncIn, Handling
  <2>2. /\ buff["client"] \in Seq(Bytes) /\ Len(buff["client"]) \in Nat
        /\ BfSize - Len(buff["client"]) \in Nat /\ BfSize \in Nat
        /\ sink["remote"] \in Seq(Bytes) /\ offset["client"] \in Nat
        /\ taken["client"] \in Nat
    BY <1>1, Facts, RoomOf DEF Ends
  <2>3. /\ more \in Seq(Bytes) /\ Len(more) \in Nat
        /\ Len(more) <= BfSize - Len(buff["client"])
        /\ Rising(more) /\ UpTo(more, k) /\ After(more, taken["client"])
    BY <1>1, <2>2, ReceivedOf, ReceivedInOrder DEF Ends
  <2> HIDE DEF more
  <2>4. k \in Nat /\ taken["client"] <= k
    BY <2>2, <2>3
  <2>5. UpTo(buff["client"], k) /\ UpTo(sink["remote"], k)
    BY <2>2, <2>4, UpToMore DEF InOrder
  <2>6. Below(buff["client"], more)
    BY <2>2, <2>3, BelowNumber DEF InOrder
  <2>7. data \in Seq(Bytes) /\ Len(data) = Len(buff["client"]) + Len(more)
    BY <2>2, <2>3, ConcatOf
  <2>8. Rising(data) /\ UpTo(data, k)
    BY <2>2, <2>3, <2>5, <2>6, ChainRising DEF InOrder
  <2>9. Below(sink["remote"], SubSeq(data, offset["client"] + 1, Len(data)))
    <3>1. UpTo(sink["remote"], taken["client"])
      BY DEF InOrder
    <3>2. Below(sink["remote"], SubSeq(buff["client"], offset["client"] + 1, Len(buff["client"])))
      BY <2>1 DEF InOrder, Pending
    <3> QED
      BY <2>2, <2>3, <3>1, <3>2, BelowMore
  <2>10. Len(data) <= BfSize
    BY <2>2, <2>3, <2>7
  <2>11. buff'["client"] = data /\ taken'["client"] = k
    BY <1>1, <2>1 DEF TypeOK, Ends
  <2> HIDE DEF data, k
  <2>12. /\ Ordered(sink'["remote"]) /\ UpTo(sink'["remote"], k)
         /\ Below(sink'["remote"], SubSeq(data, offset'["client"] + 1, Len(data)))
    <3>1. Ordered(sink["remote"])
      BY DEF InOrder
    <3>2. watch \in Watches
      BY <1>1 DEF TypeOK, Watches
    <3> QED
      BY <1>1, <2>1, <2>5, <2>7, <2>8, <2>9, <2>10, <3>1, <3>2, SendInOrder
  <2> QED
    BY <2>8, <2>11, <2>12 DEF InOrder, Pending
<1> QED
  BY <1>2, <1>3

LEMMA DesyncInRemoteOrder ==
    ASSUME Basic, InOrder, DesyncInRemote
    PROVE  InOrder'
<1>1. CASE Fails("closed")
  BY <1>1, FailsOrder
<1>2. CASE ~Fails("closed")
  <2>1. /\ Send(buff["client"], WatchAgain("remote")) /\ status = "open"
        /\ buff'["client"] = buff["client"] /\ taken'["client"] = taken["client"]
    BY <1>2 DEF DesyncInRemote, Handling, Basic, TypeOK, Ends
  <2> QED
    BY <2>1, WatchAgainOf, SendKeepsOrder DEF Basic, Ends
<1> QED
  BY <1>1, <1>2

LEMMA RetryOrder ==
    ASSUME Basic, InOrder, Retry
    PROVE  InOrder'
<1>1. /\ buff'["client"] = buff["client"] /\ taken'["client"] = taken["client"]
      /\ sink'["remote"] = << >>
  BY DEF Basic, TypeOK, Retry, Reconnect, Ends
<1> QED
  BY <1>1, NothingInOrder DEF InOrder

LEMMA AnswerOrder ==
    ASSUME Basic, InOrder, Answer
    PROVE  InOrder'
<1> DEFINE more == Received("remote", BfSize)
<1>1. PICK k \in Accepts("client", Len(more)) :
        \/ FailsAfter("closed", [sink EXCEPT !["client"] = @ \o SubSeq(more, 1, k)])
        \/ /\ sink' = [sink EXCEPT !["client"] = @ \o more]
           /\ taken' = [taken EXCEPT !["remote"] = @ + Len(more)]
           /\ ToTunnel("client")
  BY DEF Answer
<1> HIDE DEF more
<1>2. CASE FailsAfter("closed", [sink EXCEPT !["client"] = @ \o SubSeq(more, 1, k)])
  BY <1>2, SameOrder DEF FailsAfter, proxy, Basic, TypeOK, Ends
<1>3. CASE /\ sink' = [sink EXCEPT !["client"] = @ \o more]
           /\ taken' = [taken EXCEPT !["remote"] = @ + Len(more)]
           /\ ToTunnel("client")
  BY <1>3, EmptiedOrder DEF ToTunnel, Basic, TypeOK, Ends
<1> QED
  BY <1>1, <1>2, <1>3

LEMMA IgnoreOrder ==
    ASSUME Basic, InOrder, Ignore
    PROVE  InOrder'
<1>1. CASE Fails("closed")
  BY <1>1, FailsOrder
<1>2. CASE UNCHANGED <<status, proxy, taken, sink>>
  BY <1>2, SameOrder DEF Ignore, Handling, proxy
<1> QED
  BY <1>1, <1>2 DEF Ignore

LEMMA SeqEqual ==
    ASSUME NEW S, NEW s \in Seq(S), NEW t \in Seq(S), Len(s) = Len(t),
           \A i \in 1 .. Len(s) : s[i] = t[i]
    PROVE  s = t
OBVIOUS

LEMMA SubSub ==
    ASSUME NEW s \in Seq(Bytes), NEW a \in Nat, NEW k \in Nat, a + k <= Len(s)
    PROVE  SubSeq(SubSeq(s, a + 1, Len(s)), 1, k) = SubSeq(s, a + 1, a + k)
<1> DEFINE r == SubSeq(s, a + 1, Len(s))
           t == SubSeq(s, a + 1, a + k)
           u == SubSeq(r, 1, k)
<1>1. /\ Len(s) \in Nat /\ a + 1 \in Nat \ {0} /\ a + 1 <= Len(s) + 1
      /\ Len(s) <= Len(s) /\ a + k \in Nat /\ a + 1 <= a + k + 1
  BY SeqDomain
<1>2. /\ r \in Seq(Bytes) /\ Len(r) = Len(s) - (a + 1) + 1
      /\ \A i \in 1 .. Len(s) - (a + 1) + 1 : r[i] = s[(a + 1) + i - 1]
  BY <1>1, SubSeqOf
<1>3. /\ t \in Seq(Bytes) /\ Len(t) = (a + k) - (a + 1) + 1
      /\ \A i \in 1 .. (a + k) - (a + 1) + 1 : t[i] = s[(a + 1) + i - 1]
  BY <1>1, SubSeqOf
<1> HIDE DEF r, t
<1>4. k <= Len(r)
  BY <1>1, <1>2
<1>5. /\ u \in Seq(Bytes) /\ Len(u) = k /\ \A i \in 1 .. k : u[i] = r[i]
  BY <1>2, <1>4, Cut
<1> HIDE DEF u
<1>6. Len(t) = k
  BY <1>1, <1>3
<1>7. ASSUME NEW i \in 1 .. k PROVE u[i] = t[i]
  <2>1. i \in 1 .. Len(s) - (a + 1) + 1 /\ i \in 1 .. (a + k) - (a + 1) + 1
    BY <1>1
  <2> QED
    BY <1>2, <1>3, <1>5, <2>1
<1>8. u = t
  BY <1>3, <1>5, <1>6, <1>7, SeqEqual
<1> QED
  BY <1>8 DEF r, t, u

LEMMA TunnelStuckOrder ==
    ASSUME Basic, InOrder, NEW x \in Ends, TunnelStuck(x)
    PROVE  InOrder'
<1> DEFINE v == Source(x)
           p == Peer(v)
           n == Len(Pending(v))
<1>1. TypeOK
  BY DEF Basic
<1>2. CASE Fails("closed")
  BY <1>2, FailsOrder
<1>3. CASE ~Fails("closed")
  <2>1. PICK k \in Accepts(p, n) \ {n} :
          /\ sink' = [sink EXCEPT ![p] = @ \o SubSeq(Pending(v), 1, k)]
          /\ offset' = [offset EXCEPT ![v] = @ + k]
          /\ UNCHANGED <<status, buff, taken>>
    BY <1>3 DEF TunnelStuck
  <2>2. v \in Ends /\ p = Peer(v)
    BY SourceOf
  <2>3. n > 0 /\ status = "open"
    BY DEF TunnelStuck, Handling
  <2> HIDE DEF v
  <2>4. CASE v = "remote"
    <3>1. p = "client"
      BY <2>4 DEF Peer
    <3>2. sink'["remote"] = sink["remote"] /\ offset'["client"] = offset["client"]
      BY <1>1, <2>1, <2>4, <3>1 DEF TypeOK, Ends
    <3> QED
      BY <2>1, <2>3, <3>2, SameOrder
  <2>5. CASE v = "client"
    <3>1. p = "remote"
      BY <2>5 DEF Peer
    <3>2. /\ buff["client"] \in Seq(Bytes) /\ Len(buff["client"]) \in Nat
          /\ offset["client"] \in Nat /\ sink["remote"] \in Seq(Bytes)
      BY <1>1, Facts DEF Ends
    <3>3. n \in Nat /\ n = Len(buff["client"]) - offset["client"]
          /\ offset["client"] <= Len(buff["client"])
      BY <1>1, <2>3, <2>5, <3>2, PendingOf DEF Ends
    <3>4. k \in Nat /\ k <= n
      BY <2>1, <2>2, <3>1, <3>3, AcceptsOf DEF Ends
    <3>5. /\ offset["client"] + k <= Len(buff["client"])
          /\ offset["client"] + k \in Nat /\ offset["client"] <= offset["client"] + k
          /\ offset["client"] + k <= offset["client"] + k
      BY <3>2, <3>3, <3>4
    <3>6. SubSeq(Pending(v), 1, k)
            = SubSeq(buff["client"], offset["client"] + 1, offset["client"] + k)
      <4>1. Pending(v) = SubSeq(buff["client"], offset["client"] + 1, Len(buff["client"]))
        BY <2>5 DEF Pending
      <4>2. SubSeq(SubSeq(buff["client"], offset["client"] + 1, Len(buff["client"])), 1, k)
              = SubSeq(buff["client"], offset["client"] + 1, offset["client"] + k)
        BY <3>2, <3>4, <3>5, SubSub
      <4> QED
        BY <4>1, <4>2
    <3>7. /\ sink'["remote"] = sink["remote"] \o
               SubSeq(buff["client"], offset["client"] + 1, offset["client"] + k)
          /\ offset'["client"] = offset["client"] + k
      BY <1>1, <2>1, <2>5, <3>1, <3>6 DEF TypeOK, Ends
    <3>8. Below(sink["remote"], SubSeq(buff["client"], offset["client"] + 1, Len(buff["client"])))
      BY <2>3 DEF InOrder, Pending
    <3>9. /\ Ordered(sink'["remote"]) /\ UpTo(sink'["remote"], taken["client"])
          /\ Below(sink'["remote"],
                   SubSeq(buff["client"], offset["client"] + k + 1, Len(buff["client"])))
      BY <3>2, <3>5, <3>7, <3>8, SentInOrder DEF InOrder
    <3> QED
      BY <2>1, <3>7, <3>9 DEF InOrder, Pending
  <2> QED
    BY <2>2, <2>4, <2>5 DEF Ends
<1> QED
  BY <1>2, <1>3

\* All that waits in the client's buffer is sent.
LEMMA PendingSent ==
    ASSUME Basic, InOrder, status = "open"
    PROVE  LET t == sink["remote"] \o Pending("client")
           IN  t \in Seq(Bytes) /\ Ordered(t) /\ UpTo(t, taken["client"])
<1> DEFINE d == buff["client"]
           a == offset["client"]
           m == Len(d)
<1>1. /\ TypeOK /\ d \in Seq(Bytes) /\ m \in Nat /\ a \in Nat
      /\ sink["remote"] \in Seq(Bytes) /\ Pending("client") \in Seq(Bytes)
  BY Facts, PendingOf DEF Basic, Ends
<1> DEFINE b == IF a <= m THEN m ELSE a
<1>2. b \in Nat /\ a <= b /\ (b <= m \/ b = a) /\ b <= b
  BY <1>1
<1>3. SubSeq(d, a + 1, b) = Pending("client")
  <2>1. CASE a <= m
    BY <2>1 DEF Pending
  <2>2. CASE a > m
    <3>1. a + 1 \in Nat \ {0} /\ a + 1 > m
      BY <1>1, <2>2
    <3>2. Pending("client") = << >>
      BY <1>1, <3>1, SubSeqBeyond DEF Pending
    <3>3. SubSeq(d, a + 1, a) = << >>
      BY <1>1
    <3>4. b = a
      BY <1>1, <2>2
    <3> QED
      BY <3>2, <3>3, <3>4
  <2> QED
    BY <1>1, <2>1, <2>2
<1>4. Below(sink["remote"], SubSeq(d, a + 1, m))
  BY DEF InOrder, Pending
<1> HIDE DEF b
<1>5. LET t == sink["remote"] \o SubSeq(d, a + 1, b)
      IN  Ordered(t) /\ UpTo(t, taken["client"])
  BY <1>1, <1>2, <1>4, SentInOrder DEF InOrder
<1> QED
  BY <1>1, <1>3, <1>5, ConcatOf

LEMMA TunnelOrder ==
    ASSUME Basic, InOrder, NEW x \in Ends, Tunnel(x)
    PROVE  InOrder'
<1> DEFINE v == Source(x)
           p == Peer(v)
           more == Received(v, BfSize)
           n == Len(more)
<1>1. TypeOK /\ Counts /\ status = "open"
  BY DEF Basic, Tunnel, Handling
<1>2. \/ FailsAfter("closed", [sink EXCEPT ![p] = @ \o Pending(v)])
      \/ \E k \in Accepts(p, n) :
           /\ sink' = [sink EXCEPT ![p] = (@ \o Pending(v)) \o SubSeq(more, 1, k)]
           /\ taken' = [taken EXCEPT ![v] = @ + n]
           /\ buff' = [buff EXCEPT ![v] = SubSeq(more, k + 1, n)]
           /\ offset' = [offset EXCEPT ![v] = 0]
           /\ UNCHANGED status
  BY TunnelOf
<1>3. v \in Ends /\ p = Peer(v) /\ p \in Ends
  BY SourceOf
<1>4. /\ more \in Seq(Bytes) /\ n \in Nat
      /\ Rising(more) /\ UpTo(more, taken[v] + n) /\ After(more, taken[v])
  BY <1>1, <1>3, ReceivedOf, ReceivedInOrder, LengthAssumption
<1> HIDE DEF v, more
<1>5. CASE v = "remote"
  <2>1. p = "client"
    BY <1>3, <1>5 DEF Peer
  <2> QED
    BY <1>1, <1>2, <1>5, <2>1, SameOrder DEF FailsAfter, proxy, TypeOK, Ends
<1>6. CASE v = "client"
  <2>1. p = "remote"
    BY <1>3, <1>6 DEF Peer
  <2> DEFINE t == sink["remote"] \o Pending("client")
             k0 == taken["client"]
  <2>2. t \in Seq(Bytes) /\ Ordered(t) /\ UpTo(t, k0)
    BY <1>1, PendingSent
  <2>3. k0 \in Nat /\ k0 + n \in Nat /\ k0 <= k0 + n
    <3>1. k0 \in Nat /\ n \in Nat
      BY <1>1, <1>4, Facts DEF Ends
    <3> QED
      BY <3>1
  <2> HIDE DEF t
  <2>4. CASE FailsAfter("closed", [sink EXCEPT ![p] = @ \o Pending(v)])
    <3>1. sink'["remote"] = t /\ UNCHANGED <<buff, taken>> /\ status' = "closed"
      BY <1>1, <1>6, <2>1, <2>4 DEF FailsAfter, proxy, t, TypeOK, Ends
    <3> QED
      BY <2>2, <3>1 DEF InOrder
  <2>5. ASSUME NEW k \in Accepts(p, n),
               sink' = [sink EXCEPT ![p] = (@ \o Pending(v)) \o SubSeq(more, 1, k)],
               taken' = [taken EXCEPT ![v] = @ + n],
               buff' = [buff EXCEPT ![v] = SubSeq(more, k + 1, n)],
               offset' = [offset EXCEPT ![v] = 0]
        PROVE  InOrder'
    <3> DEFINE d == SubSeq(more, k + 1, n)
    <3>1. k \in Nat /\ k <= n
      BY <1>3, <1>4, AcceptsOf
    <3>2. /\ sink'["remote"] = t \o SubSeq(more, 1, k) /\ taken'["client"] = k0 + n
          /\ buff'["client"] = d /\ offset'["client"] = 0
      BY <1>1, <1>6, <2>1, <2>5 DEF t, TypeOK, Ends
    <3>3. UpTo(t, k0 + n)
      BY <2>2, <2>3, UpToMore
    <3>4. Below(t, more)
      BY <1>4, <1>6, <2>2, <2>3, BelowNumber
    <3>5. SubSeq(more, 1, n) = more
      BY <1>4
    <3>6. /\ Ordered(t \o SubSeq(more, 1, k)) /\ UpTo(t \o SubSeq(more, 1, k), k0 + n)
          /\ Below(t \o SubSeq(more, 1, k), d)
      <4>1. LET u == t \o SubSeq(more, 0 + 1, k)
            IN  Ordered(u) /\ UpTo(u, k0 + n) /\ Below(u, SubSeq(more, k + 1, Len(more)))
        <5>1. 0 \in Nat /\ 0 <= k /\ k <= k
          BY <3>1
        <5>2. Below(t, SubSeq(more, 0 + 1, Len(more)))
          <6>1. 0 + 1 = 1
            OBVIOUS
          <6> QED
            BY <3>4, <3>5, <6>1
        <5> QED
          BY <1>4, <1>6, <2>2, <3>1, <3>3, <5>1, <5>2, SentInOrder
      <4> QED
        BY <4>1
    <3>7. Rising(d) /\ UpTo(d, k0 + n) /\ d \in Seq(Bytes)
      <4>1. k + 1 \in Nat \ {0} /\ k + 1 <= n + 1 /\ n <= Len(more)
        BY <1>4, <3>1
      <4> QED
        BY <1>4, <1>6, <3>1, <4>1, SliceInOrder, Cut
    <3> HIDE DEF d
    <3>8. Pending("client")' = d
      <4>1. SubSeq(d, 0 + 1, Len(d)) = d
        BY <3>7
      <4> QED
        BY <3>2, <4>1 DEF Pending
    <3> QED
      BY <3>2, <3>6, <3>7, <3>8 DEF InOrder
  <2> QED
    BY <1>2, <2>4, <2>5
<1> QED
  BY <1>3, <1>5, <1>6 DEF Ends

LEMMA TunnelStrayOrder ==
    ASSUME Basic, InOrder, NEW x \in Ends, TunnelStray(x)
    PROVE  InOrder'
<1> DEFINE v == Source(x)
           p == Peer(v)
<1>1. TypeOK /\ status = "open"
  BY DEF Basic, TunnelStray, Handling
<1>2. /\ offset[v] > Len(buff[v])
      /\ \/ Fails("closed")
         \/ /\ sink' = [sink EXCEPT ![p] = Append(@, Stray)]
            /\ offset' = [offset EXCEPT ![v] = Far]
            /\ UNCHANGED <<status, buff, taken>>
         \/ UNCHANGED <<status, proxy, taken, sink>>
  BY <1>1, StrayOf DEF proxy
<1>3. v \in Ends /\ p = Peer(v)
  BY SourceOf
<1> HIDE DEF v
<1>4. CASE Fails("closed")
  BY <1>4, FailsOrder
<1>5. CASE UNCHANGED <<status, proxy, taken, sink>>
  BY <1>1, <1>5, SameOrder DEF proxy
<1>6. CASE /\ sink' = [sink EXCEPT ![p] = Append(@, Stray)]
           /\ offset' = [offset EXCEPT ![v] = Far]
           /\ UNCHANGED <<status, buff, taken>>
  <2>1. CASE v = "remote"
    <3>1. sink'["remote"] = sink["remote"] /\ offset'["client"] = offset["client"]
      BY <1>1, <1>3, <1>6, <2>1 DEF Peer, TypeOK, Ends
    <3> QED
      BY <1>1, <1>6, <3>1, SameOrder
  <2>2. CASE v = "client"
    <3> DEFINE s == sink["remote"]
               t == Append(s, Stray)
               k == taken["client"]
    <3>1. sink'["remote"] = t /\ offset'["client"] = Far
      BY <1>1, <1>3, <1>6, <2>2 DEF Peer, TypeOK, Ends
    <3>2. /\ s \in Seq(Bytes) /\ k \in Nat /\ buff["client"] \in Seq(Bytes)
          /\ Len(buff["client"]) \in Nat /\ BfSize \in Nat
          /\ Len(buff["client"]) <= BfSize
      BY Facts, RoomOf DEF Basic, Ends
    <3>3. Ordered(s) /\ UpTo(s, k)
      BY DEF InOrder
    <3> HIDE DEF s, k
    <3>4. /\ t \in Seq(Bytes) /\ Len(t) = Len(s) + 1
          /\ \A i \in 1 .. Len(s) : t[i] = s[i]
          /\ t[Len(s) + 1] = Stray
      BY <3>2, AppendStray
    <3> HIDE DEF t
    <3>5. /\ DOMAIN t = 1 .. Len(s) + 1 /\ DOMAIN s = 1 .. Len(s) /\ Len(s) \in Nat
      BY <3>2, <3>4, SeqDomain
    <3>6. ASSUME NEW i \in DOMAIN t
          PROVE  t[i] = Stray \/ (i \in DOMAIN s /\ t[i] = s[i])
      BY <3>4, <3>5
    <3>7. Ordered(t)
      BY <3>3, <3>6 DEF Ordered, RisingBut
    <3>8. UpTo(t, k)
      <4>1. Stray[2] <= k
        BY <3>2 DEF Stray
      <4> QED
        BY <3>3, <3>6, <4>1 DEF UpTo
    <3>9. SubSeq(buff["client"], Far + 1, Len(buff["client"])) = << >>
      <4>1. Far + 1 \in Nat \ {0} /\ Far + 1 > Len(buff["client"])
        BY <3>2 DEF Far
      <4> QED
        BY <3>2, <4>1, SubSeqBeyond
    <3>10. Pending("client")' = << >>
      BY <1>6, <3>1, <3>9 DEF Pending
    <3> QED
      BY <1>6, <3>1, <3>7, <3>8, <3>10, NothingInOrder DEF InOrder, k
  <2> QED
    BY <1>3, <2>1, <2>2 DEF Ends
<1> QED
  BY <1>2, <1>4, <1>5, <1>6

LEMMA NextOrder ==
    ASSUME Basic, InOrder, [Next]_vars
    PROVE  InOrder'
<1>1. CASE UNCHANGED vars
  BY <1>1 DEF vars, proxy, InOrder, Pending
<1>2. CASE PeerStep \/ Poll \/ Ended
  BY <1>2, PeerOrder
<1>3. CASE \E x \in Ends : \/ DesyncOut(x) \/ DesyncFull(x) \/ TunnelStuck(x)
                         \/ TunnelStray(x) \/ Tunnel(x)
  BY <1>3, DesyncOutOrder, DesyncFullOrder, TunnelStuckOrder, TunnelStrayOrder, TunnelOrder
<1>4. CASE DesyncIn \/ DesyncInRemote \/ Retry \/ Answer \/ Ignore
  BY <1>4, DesyncInOrder, DesyncInRemoteOrder, RetryOrder, AnswerOrder, IgnoreOrder
<1>5. CASE (\E x \in Ends : Error(x)) \/ CheckOut \/ NoAnswer
  BY <1>5, FailsOrder DEF Error, CheckOut, NoAnswer, Failures
<1> QED
  BY <1>1, <1>2, <1>3, <1>4, <1>5 DEF Next, HandlerStep

LEMMA OrderInvariant == Spec => []InOrder
<1>1. Init => InOrder
  BY EmptySeq, NothingInOrder DEF Init, InOrder, Pending, Ends
<1>2. Basic /\ InOrder /\ [Next]_vars => InOrder'
  BY NextOrder
<1> QED
  BY BasicInvariant, <1>1, <1>2, PTL DEF Spec

\* However the sockets, the batches of events and the retries go, no server gets
\* a byte of the request twice or after a later one, be it that an offset behind
\* the data also sends it bytes from beyond the buffer.
THEOREM RequestStaysOrdered == Spec => []RequestOrdered
<1>1. InOrder => RequestOrdered
  BY DEF InOrder, Ordered, RisingBut, RequestOrdered
<1> QED
  BY OrderInvariant, <1>1, PTL

-----------------------------------------------------------------------------
(* The offset into what a server said                                      *)

\* Only the client's offset gets behind its data, by on_desync_again().
Inside == offset["remote"] <= Len(buff["remote"])

LEMMA InsideKept ==
    ASSUME Inside, buff'["remote"] = buff["remote"], offset'["remote"] = offset["remote"]
    PROVE  Inside'
BY DEF Inside

LEMMA SendInside ==
    ASSUME Basic, Inside, NEW data \in Seq(Bytes), Len(data) <= BfSize,
           NEW w \in Watches, Send(data, w), buff'["remote"] = buff["remote"]
    PROVE  Inside'
BY SentTypes, InsideKept DEF Basic

LEMMA DesyncInside ==
    ASSUME Basic, Inside, (\E x \in Ends : DesyncOut(x)) \/ DesyncIn
    PROVE  Inside'
<1>1. /\ TypeOK /\ Counts /\ buff["client"] \in Seq(Bytes) /\ Len(buff["client"]) \in Nat
      /\ BfSize - Len(buff["client"]) \in Nat /\ Len(buff["client"]) <= BfSize
      /\ BfSize \in Nat
  BY Facts, RoomOf DEF Basic, Ends
<1>2. CASE UNCHANGED <<buff, offset>>
  BY <1>2, InsideKept
<1>3. ASSUME NEW x \in Ends, DesyncOut(x) PROVE Inside'
  <2>1. CASE buff["client"] = << >>
    BY <1>2, <1>3, <2>1 DEF DesyncOut, Fails, FailsAfter, proxy
  <2>2. CASE buff["client"] # << >>
    BY <1>1, <1>3, <2>2, SendInside, WatchAgainOf DEF DesyncOut
  <2> QED
    BY <2>1, <2>2
<1>4. ASSUME DesyncIn PROVE Inside'
  <2> DEFINE more == Received("client", BfSize - Len(buff["client"]))
             data == buff["client"] \o more
  <2>1. CASE Fails("closed")
    BY <1>2, <2>1 DEF Fails, FailsAfter, proxy
  <2>2. CASE ~Fails("closed")
    <3>1. Send(data, watch) /\ buff' = [buff EXCEPT !["client"] = data]
      BY <1>4, <2>2 DEF DesyncIn
    <3>2. /\ more \in Seq(Bytes) /\ Len(more) \in Nat
          /\ Len(more) <= BfSize - Len(buff["client"])
      BY <1>1, ReceivedOf DEF Ends
    <3> HIDE DEF more
    <3>3. data \in Seq(Bytes) /\ Len(data) <= BfSize
      BY <1>1, <3>2, ConcatOf
    <3>4. buff'["remote"] = buff["remote"] /\ watch \in Watches
      BY <1>1, <3>1 DEF TypeOK, Watches, Ends
    <3> HIDE DEF data
    <3> QED
      BY <3>1, <3>3, <3>4, SendInside
  <2> QED
    BY <2>1, <2>2
<1> QED
  BY <1>3, <1>4

LEMMA DesyncInRemoteInside ==
    ASSUME Basic, Inside, DesyncInRemote
    PROVE  Inside'
<1> DEFINE more == Received("remote", BfSize - Len(buff["remote"]))
<1>1. CASE Fails("closed")
  BY <1>1, InsideKept DEF Fails, FailsAfter, proxy
<1>2. CASE ~Fails("closed")
  <2>1. /\ Send(buff["client"], WatchAgain("remote"))
        /\ buff' = [buff EXCEPT !["remote"] = @ \o more]
    BY <1>2 DEF DesyncInRemote
  <2>2. /\ TypeOK /\ Counts /\ buff["client"] \in Seq(Bytes) /\ Len(buff["client"]) <= BfSize
        /\ buff["remote"] \in Seq(Bytes) /\ Len(buff["remote"]) \in Nat
        /\ BfSize - Len(buff["remote"]) \in Nat /\ offset["remote"] \in Nat
    BY Facts, RoomOf DEF Basic, Ends
  <2>3. more \in Seq(Bytes) /\ Len(more) \in Nat
    BY <2>2, ReceivedOf DEF Ends
  <2> HIDE DEF more
  <2>4. Len(buff["remote"] \o more) = Len(buff["remote"]) + Len(more)
    BY <2>2, <2>3, ConcatOf
  <2>5. /\ buff'["remote"] = buff["remote"] \o more
        /\ offset'["remote"] = offset["remote"]
    BY <2>1, <2>2, SentTypes, WatchAgainOf DEF TypeOK, Ends
  <2> QED
    BY <2>2, <2>3, <2>4, <2>5 DEF Inside
<1> QED
  BY <1>1, <1>2

LEMMA TunnelInside ==
    ASSUME Basic, Inside, NEW x \in Ends,
           TunnelStuck(x) \/ TunnelStray(x) \/ Tunnel(x)
    PROVE  Inside'
<1> DEFINE v == Source(x)
           p == Peer(v)
           more == Received(v, BfSize)
<1>1. /\ TypeOK /\ Counts /\ buff["remote"] \in Seq(Bytes) /\ Len(buff["remote"]) \in Nat
      /\ offset["remote"] \in Nat /\ Far \in Nat
  BY Facts, LengthAssumption DEF Basic, Ends, Far
<1>2. v \in Ends /\ p \in Ends
  BY SourceOf
<1>3. CASE UNCHANGED <<buff, offset>>
  BY <1>3, InsideKept
<1>4. ASSUME TunnelStuck(x) PROVE Inside'
  <2>1. CASE Fails("closed")
    BY <1>3, <2>1 DEF Fails, FailsAfter, proxy
  <2>2. CASE ~Fails("closed")
    <3>1. PICK k \in Accepts(p, Len(Pending(v))) :
            offset' = [offset EXCEPT ![v] = @ + k] /\ UNCHANGED buff
      BY <1>4, <2>2 DEF TunnelStuck
    <3>2. /\ Len(Pending(v)) \in Nat
          /\ v = "remote" => Len(Pending(v)) = Len(buff["remote"]) - offset["remote"]
      BY <1>1, <1>2, PendingOf DEF Inside
    <3>3. k \in Nat /\ k <= Len(Pending(v))
      BY <1>2, <3>1, <3>2, AcceptsOf
    <3> HIDE DEF v
    <3>4. CASE v = "client"
      BY <1>1, <3>1, <3>4, InsideKept DEF TypeOK, Ends
    <3>5. CASE v = "remote"
      <4>1. offset'["remote"] = offset["remote"] + k /\ buff'["remote"] = buff["remote"]
        BY <1>1, <3>1, <3>5 DEF TypeOK, Ends
      <4>2. offset["remote"] + k <= Len(buff["remote"])
        BY <1>1, <3>2, <3>3, <3>5
      <4> QED
        BY <4>1, <4>2 DEF Inside
    <3> QED
      BY <1>2, <3>4, <3>5 DEF Ends
  <2> QED
    BY <2>1, <2>2
<1>5. ASSUME TunnelStray(x) PROVE Inside'
  <2>1. /\ offset[v] > Len(buff[v]) /\ UNCHANGED buff
        /\ UNCHANGED offset \/ offset' = [offset EXCEPT ![v] = Far]
    BY <1>1, <1>5, StrayOf DEF Fails, FailsAfter, proxy
  <2> HIDE DEF v
  <2>2. v = "client"
    BY <1>1, <1>2, <2>1 DEF Inside, Ends
  <2> QED
    BY <1>1, <2>1, <2>2, InsideKept DEF TypeOK, Ends
<1>6. ASSUME Tunnel(x) PROVE Inside'
  <2>1. \/ FailsAfter("closed", [sink EXCEPT ![p] = @ \o Pending(v)])
        \/ \E k \in Accepts(p, Len(more)) :
              /\ buff' = [buff EXCEPT ![v] = SubSeq(more, k + 1, Len(more))]
              /\ offset' = [offset EXCEPT ![v] = 0]
    BY <1>6, TunnelOf
  <2>2. more \in Seq(Bytes) /\ Len(more) \in Nat
    BY <1>1, <1>2, ReceivedOf, LengthAssumption
  <2> HIDE DEF v, p, more
  <2>3. CASE FailsAfter("closed", [sink EXCEPT ![p] = @ \o Pending(v)])
    BY <1>3, <2>3 DEF FailsAfter, proxy
  <2>4. ASSUME NEW k \in Accepts(p, Len(more)),
               buff' = [buff EXCEPT ![v] = SubSeq(more, k + 1, Len(more))],
               offset' = [offset EXCEPT ![v] = 0]
        PROVE  Inside'
    <3>1. k \in Nat /\ k <= Len(more)
      BY <1>2, <2>2, <2>4, AcceptsOf
    <3>2. Len(SubSeq(more, k + 1, Len(more))) = Len(more) - k
      BY <2>2, <3>1, Cut
    <3>3. CASE v = "client"
      BY <1>1, <2>4, <3>3, InsideKept DEF TypeOK, Ends
    <3>4. CASE v = "remote"
      BY <1>1, <2>2, <2>4, <3>1, <3>2, <3>4 DEF Inside, TypeOK, Ends
    <3> QED
      BY <1>2, <3>3, <3>4 DEF Ends
  <2> QED
    BY <2>1, <2>3, <2>4
<1> QED
  BY <1>4, <1>5, <1>6

LEMMA NextInside ==
    ASSUME Basic, Inside, [Next]_vars
    PROVE  Inside'
<1>1. CASE UNCHANGED <<buff, offset>>
  BY <1>1, InsideKept
<1>2. CASE UNCHANGED vars \/ PeerStep \/ Poll \/ Ended \/ Ignore \/ CheckOut \/ NoAnswer
  BY <1>1, <1>2 DEF vars, PeerStep, Poll, Ended, Ignore, CheckOut, NoAnswer, Fails,
                    FailsAfter, proxy
<1>3. CASE (\E x \in Ends : Error(x))
  BY <1>1, <1>3 DEF Error, Fails, FailsAfter, proxy
<1>4. CASE (\E x \in Ends : DesyncOut(x)) \/ DesyncIn \/ DesyncInRemote
  BY <1>4, DesyncInside, DesyncInRemoteInside
<1>5. CASE \E x \in Ends : TunnelStuck(x) \/ TunnelStray(x) \/ Tunnel(x)
  BY <1>5, TunnelInside
<1>6. CASE \E x \in Ends : DesyncFull(x)
  <2>1. PICK x \in Ends : ToTunnel(x)
    BY <1>6 DEF DesyncFull
  <2>2. CASE x = "client"
    BY <2>1, <2>2, InsideKept DEF ToTunnel, Basic, TypeOK, Ends
  <2>3. CASE x = "remote"
    BY <2>1, <2>3, EmptySeq DEF ToTunnel, Basic, TypeOK, Ends, Inside
  <2> QED
    BY <2>1, <2>2, <2>3 DEF Ends
<1>7. CASE Retry
  BY <1>7, EmptySeq DEF Retry, Reconnect, Replayed, Basic, TypeOK, Ends, Inside
<1>8. CASE Answer
  <2>1. (\E got : FailsAfter("closed", got)) \/ ToTunnel("client")
    BY <1>8 DEF Answer
  <2>2. CASE \E got : FailsAfter("closed", got)
    BY <1>1, <2>2 DEF FailsAfter, proxy
  <2>3. CASE ToTunnel("client")
    BY <2>3, InsideKept DEF ToTunnel, Basic, TypeOK, Ends
  <2> QED
    BY <2>1, <2>2, <2>3
<1> QED
  BY <1>2, <1>3, <1>4, <1>5, <1>6, <1>7, <1>8 DEF Next, HandlerStep

LEMMA InsideInvariant == Spec => []Inside
<1>1. Init => Inside
  BY EmptySeq DEF Init, Inside, Ends
<1>2. Basic /\ Inside /\ [Next]_vars => Inside'
  BY NextInside
<1> QED
  BY BasicInvariant, <1>1, <1>2, PTL DEF Spec

-----------------------------------------------------------------------------
(* The handlers and the events they are called for                         *)

Fast == "remote" \notin profile

\* Which types the two ends may have together, what is asked and reported for the
\* server's socket, and what waits in the buffers, if that socket takes everything.
Control ==
    Fast =>
        /\ type["client"] \in {"DESYNC", "IGNORE", "TUNNEL"}
        /\ type["client"] = "DESYNC" => type["remote"] \in {"TUNNEL", "PRE_TUNNEL"}
        /\ type["client"] = "IGNORE" => type["remote"] \in {"DESYNC", "PRE_TUNNEL"}
        /\ type["client"] = "TUNNEL" => type["remote"] = "TUNNEL" /\ buff["client"] = << >>
        /\ type["remote"] = "DESYNC" =>
             /\ watch["remote"] = {"out"}
             /\ report["remote"] = {} \/ "out" \in report["remote"]
        /\ type["remote"] # "DESYNC" => "out" \notin watch["remote"] \cup report["remote"]
        /\ type["remote"] \in {"DESYNC", "PRE_TUNNEL"} => buff["client"] # << >>
        /\ buff["remote"] # << >> => "out" \in watch["client"]

\* A client that still sends its request is not waited for.
Quiet ==
    Steady =>
        (type["client"] = "DESYNC" => "out" \notin watch["client"] \cup report["client"])

\* A server that does not speak first has said nothing before the request.
Unasked ==
    /\ Fast /\ "early" \notin profile
    /\ type["client"] = "DESYNC" /\ type["remote"] = "TUNNEL"
    => sink["remote"] = << >> /\ arrived["remote"] = 0

Controlled == Control /\ Quiet /\ Unasked

LEMMA ControlInit == Init => Controlled
BY DEF Init, Controlled, Control, Quiet, Unasked, Ends

LEMMA PeerControl ==
    ASSUME Basic, Controlled, PeerStep, UNCHANGED profile
    PROVE  Controlled'
<1>1. UNCHANGED <<profile, status, proxy, report, taken, sink>>
  BY DEF PeerStep
<1>2. Control' /\ Quiet'
  BY <1>1 DEF Controlled, Control, Quiet, Steady, Fast, proxy
<1>3. arrived'["remote"] # arrived["remote"] => ServerFirst \/ sink["remote"] # << >>
  BY DEF PeerStep, ClientWrites, ServerWrites, Leaves, Basic, TypeOK, Ends
<1>4. Unasked'
  BY <1>1, <1>3 DEF Controlled, Unasked, Fast, proxy, ServerFirst
<1> QED
  BY <1>2, <1>4 DEF Controlled

LEMMA PollControl ==
    ASSUME Basic, Controlled, Poll, UNCHANGED profile
    PROVE  Controlled'
<1>1. UNCHANGED <<profile, status, proxy, peers, taken, sink>>
  BY DEF Poll
<1>2. PICK full \in SUBSET Slow : report' = [x \in Ends |-> Raised(x, full)]
  BY DEF Poll
<1>3. Fast => "remote" \notin full
  BY <1>2 DEF Fast, Slow
<1>4. \A x \in Ends : "out" \notin watch[x] => "out" \notin report'[x]
  BY <1>2 DEF Raised
<1>5. Fast /\ watch["remote"] = {"out"} => "out" \in report'["remote"]
  BY <1>2, <1>3 DEF Raised, Ends
<1>6. Control'
  BY <1>1, <1>4, <1>5 DEF Controlled, Control, Fast, proxy, Ends
<1>7. Quiet'
  BY <1>1, <1>4 DEF Controlled, Quiet, Steady, proxy, Ends
<1>8. Unasked'
  BY <1>1 DEF Controlled, Unasked, Fast, proxy, peers
<1> QED
  BY <1>6, <1>7, <1>8 DEF Controlled

LEMMA FailsControl ==
    ASSUME Basic, Controlled, UNCHANGED profile, NEW s, NEW got, FailsAfter(s, got),
           got["remote"] = sink["remote"] \/ type["client"] # "DESYNC"
             \/ type["remote"] # "TUNNEL",
           UNCHANGED peers
    PROVE  Controlled'
<1>1. /\ report' = Reported /\ sink' = got
      /\ UNCHANGED <<profile, proxy, taken, peers>>
  BY DEF FailsAfter
<1>2. report'["client"] = {} /\ report'["remote"] = {}
  BY <1>1 DEF Reported, Basic, TypeOK, Ends
<1>3. Control'
  BY <1>1, <1>2 DEF Controlled, Control, Fast, proxy
<1>4. Quiet'
  BY <1>1, <1>2 DEF Controlled, Quiet, Steady, proxy
<1>5. Unasked'
  BY <1>1 DEF Controlled, Unasked, Fast, proxy, peers
<1> QED
  BY <1>3, <1>4, <1>5 DEF Controlled

LEMMA FailControl ==
    ASSUME Basic, Controlled, UNCHANGED profile, NEW s, Fails(s), UNCHANGED peers
    PROVE  Controlled'
BY FailsControl DEF Fails

\* With a fast server the whole request is sent.
LEMMA FastSend ==
    ASSUME Basic, Fast, NEW data \in Seq(Bytes), Len(data) <= BfSize,
           NEW w \in Watches, Send(data, w)
    PROVE  /\ watch' = w
           /\ type'["remote"] = "PRE_TUNNEL" /\ type'["client"] = type["client"]
<1>1. watch' = w /\ type' = [type EXCEPT !["remote"] = "PRE_TUNNEL"]
  BY SendOf DEF Basic, Fast
<1> QED
  BY <1>1 DEF Basic, TypeOK, Ends

LEMMA HandledEnds ==
    ASSUME Basic, NEW x \in Ends, Handled(x)
    PROVE  report'[x] = {} /\ \A y \in Ends \ {x} : report'[y] = report[y]
BY DEF Handled, Basic, TypeOK

\* Not Fast: there is nothing to show.
LEMMA SlowControl ==
    ASSUME ~Fast, UNCHANGED profile
    PROVE  Controlled'
BY DEF Controlled, Control, Quiet, Unasked, Steady, Fast

LEMMA DesyncOutControl ==
    ASSUME Basic, Controlled, UNCHANGED profile, NEW x \in Ends, DesyncOut(x)
    PROVE  Controlled'
<1>1. UNCHANGED peers /\ type[x] = "DESYNC" /\ "out" \in report[x]
  BY DEF DesyncOut, Handling
<1>2. CASE ~Fast
  BY <1>2, SlowControl
<1>3. CASE Fast /\ buff["client"] = << >>
  BY <1>1, <1>3, FailControl DEF DesyncOut
<1>4. CASE Fast /\ buff["client"] # << >>
  <2>1. /\ Send(buff["client"], WatchAgain(x)) /\ Handled(x)
        /\ UNCHANGED <<status, buff, attempt, server, taken>>
    BY <1>4 DEF DesyncOut
  <2>2. /\ buff["client"] \in Seq(Bytes) /\ Len(buff["client"]) <= BfSize
        /\ WatchAgain(x) \in Watches
    BY Facts, RoomOf, WatchAgainOf DEF Basic, Ends
  <2>3. /\ watch' = WatchAgain(x)
        /\ type'["remote"] = "PRE_TUNNEL" /\ type'["client"] = type["client"]
    BY <1>4, <2>1, <2>2, FastSend
  <2>4. report'[x] = {} /\ \A y \in Ends \ {x} : report'[y] = report[y]
    BY <2>1, HandledEnds
  <2>5. Unasked'
    BY <2>3 DEF Unasked
  <2>6. CASE x = "client"
    <3>1. watch' = watch
      BY <2>3, <2>6 DEF WatchAgain
    <3>2. Control'
      BY <1>1, <1>4, <2>1, <2>3, <2>4, <2>6, <3>1 DEF Controlled, Control, Fast, Ends
    <3>3. Quiet'
      BY <1>1, <2>3, <2>4, <2>6, <3>1 DEF Controlled, Quiet, Steady, Ends
    <3> QED
      BY <2>5, <3>2, <3>3 DEF Controlled
  <2>7. CASE x = "remote"
    <3>1. type["client"] = "IGNORE"
      BY <1>1, <1>4, <2>7 DEF Controlled, Control
    <3>2. watch'["remote"] = {"in"} /\ watch'["client"] = watch["client"]
      BY <2>3, <2>7 DEF WatchAgain, Basic, TypeOK, Ends
    <3>3. Control'
      BY <1>1, <1>4, <2>1, <2>3, <2>4, <2>7, <3>1, <3>2 DEF Controlled, Control, Fast, Ends
    <3>4. Quiet'
      BY <2>3, <3>1 DEF Quiet
    <3> QED
      BY <2>5, <3>3, <3>4 DEF Controlled
  <2> QED
    BY <2>6, <2>7 DEF Ends
<1> QED
  BY <1>2, <1>3, <1>4

\* A hang-up of a fast server does not reach on_desync() without "out".
LEMMA NoHangup ==
    ASSUME Controlled, Fast, Handling("remote", "DESYNC")
    PROVE  "out" \in report["remote"]
BY DEF Controlled, Control, Handling

LEMMA DesyncFullControl ==
    ASSUME Basic, Controlled, UNCHANGED profile, NEW x \in Ends, DesyncFull(x)
    PROVE  Controlled'
<1>1. CASE ~Fast
  BY <1>1, SlowControl
<1>2. CASE Fast
  <2>1. x = "client"
    BY <1>2, NoHangup DEF DesyncFull, Ends
  <2>2. type["client"] = "DESYNC" /\ UNCHANGED <<watch, peers, sink>>
    BY <2>1 DEF DesyncFull, Handling
  <2>3. /\ type'["client"] = "TUNNEL" /\ type'["remote"] = "TUNNEL"
        /\ buff'["client"] = << >> /\ buff'["remote"] = buff["remote"]
    BY <2>1 DEF DesyncFull, ToTunnel, Basic, TypeOK, Ends
  <2>4. report'["remote"] = report["remote"]
    BY <2>1, HandledEnds DEF DesyncFull, Ends
  <2>5. Control'
    BY <1>2, <2>2, <2>3, <2>4 DEF Controlled, Control, Fast
  <2> QED
    BY <2>3, <2>5 DEF Controlled, Quiet, Unasked
<1> QED
  BY <1>1, <1>2

LEMMA DesyncInControl ==
    ASSUME Basic, Controlled, UNCHANGED profile, DesyncIn
    PROVE  Controlled'
<1>1. UNCHANGED peers /\ type["client"] = "DESYNC"
  BY DEF DesyncIn, Handling
<1> DEFINE more == Received("client", BfSize - Len(buff["client"]))
           data == buff["client"] \o more
<1>2. CASE ~Fast
  BY <1>2, SlowControl
<1>3. CASE Fast /\ Fails("closed")
  BY <1>1, <1>3, FailControl
<1>4. CASE Fast /\ ~Fails("closed")
  <2>1. /\ more # << >> /\ Send(data, watch) /\ Handled("client")
        /\ buff' = [buff EXCEPT !["client"] = data]
    BY <1>4 DEF DesyncIn
  <2>2. /\ buff["client"] \in Seq(Bytes) /\ Len(buff["client"]) \in Nat
        /\ BfSize - Len(buff["client"]) \in Nat /\ BfSize \in Nat
    BY Facts, RoomOf DEF Basic, Ends
  <2>3. /\ more \in Seq(Bytes) /\ Len(more) \in Nat
        /\ Len(more) <= BfSize - Len(buff["client"])
    BY <2>2, ReceivedOf DEF Basic, Ends
  <2> HIDE DEF more
  <2>4. /\ data \in Seq(Bytes) /\ Len(data) = Len(buff["client"]) + Len(more)
        /\ Len(more) # 0
    BY <2>1, <2>2, <2>3, ConcatOf, SeqDomain
  <2>5. Len(data) <= BfSize /\ data # << >>
    BY <2>2, <2>3, <2>4, SeqDomain
  <2> HIDE DEF data
  <2>6. /\ watch' = watch
        /\ type'["remote"] = "PRE_TUNNEL" /\ type'["client"] = "DESYNC"
    BY <1>1, <1>4, <2>1, <2>4, <2>5, FastSend, WatchAgainOf DEF Basic, Ends
  <2>7. report'["client"] = {} /\ report'["remote"] = report["remote"]
    BY <2>1, HandledEnds DEF Ends
  <2>8. buff'["client"] = data /\ buff'["remote"] = buff["remote"]
    BY <2>1 DEF Basic, TypeOK, Ends
  <2>9. Control'
    BY <1>1, <1>4, <2>5, <2>6, <2>7, <2>8 DEF Controlled, Control, Fast
  <2>10. Quiet'
    BY <1>1, <2>6, <2>7 DEF Controlled, Quiet, Steady
  <2>11. Unasked'
    BY <2>6 DEF Unasked
  <2> QED
    BY <2>9, <2>10, <2>11 DEF Controlled
<1> QED
  BY <1>2, <1>3, <1>4

LEMMA DesyncInRemoteControl ==
    ASSUME Basic, Controlled, UNCHANGED profile, DesyncInRemote
    PROVE  Controlled'
<1>1. CASE ~Fast
  BY <1>1, SlowControl
<1>2. CASE Fast
  BY <1>2, NoHangup DEF DesyncInRemote
<1> QED
  BY <1>1, <1>2

LEMMA RetryControl ==
    ASSUME Basic, Controlled, UNCHANGED profile, Retry
    PROVE  Controlled'
<1>1. CASE ~Fast
  BY <1>1, SlowControl
<1>2. CASE Fast
  <2>1. type["remote"] = "PRE_TUNNEL"
    BY DEF Retry, Checking
  <2>2. /\ type'["client"] = "IGNORE" /\ type'["remote"] = "DESYNC"
        /\ watch'["remote"] = {"out"} /\ report'["remote"] = {}
        /\ buff'["client"] = buff["client"] /\ buff'["remote"] = << >>
    BY DEF Retry, Reconnect, Waiting, Basic, TypeOK, Ends
  <2>3. Control'
    BY <1>2, <2>1, <2>2 DEF Controlled, Control
  <2> QED
    BY <2>2, <2>3 DEF Controlled, Quiet, Unasked
<1> QED
  BY <1>1, <1>2

LEMMA AnswerControl ==
    ASSUME Basic, Controlled, UNCHANGED profile, Answer
    PROVE  Controlled'
<1> DEFINE more == Received("remote", BfSize)
<1>1. PICK k \in Accepts("client", Len(more)) :
        \/ FailsAfter("closed", [sink EXCEPT !["client"] = @ \o SubSeq(more, 1, k)])
        \/ ToTunnel("client") /\ Handled("remote") /\ UNCHANGED watch
  BY DEF Answer
<1>2. UNCHANGED peers /\ type["remote"] = "PRE_TUNNEL"
  BY DEF Answer, Checking
<1> HIDE DEF more
<1>3. CASE FailsAfter("closed", [sink EXCEPT !["client"] = @ \o SubSeq(more, 1, k)])
  BY <1>2, <1>3, FailsControl
<1>4. CASE ToTunnel("client") /\ Handled("remote") /\ UNCHANGED watch
  <2>1. /\ type'["client"] = "TUNNEL" /\ type'["remote"] = "TUNNEL"
        /\ buff'["client"] = << >> /\ buff'["remote"] = buff["remote"]
    BY <1>4 DEF ToTunnel, Basic, TypeOK, Ends
  <2>2. report'["remote"] = {}
    BY <1>4, HandledEnds DEF Ends
  <2>3. Control'
    BY <1>2, <1>4, <2>1, <2>2 DEF Controlled, Control, Fast
  <2> QED
    BY <2>1, <2>3 DEF Controlled, Quiet, Unasked
<1> QED
  BY <1>1, <1>3, <1>4

LEMMA IgnoreControl ==
    ASSUME Basic, Controlled, UNCHANGED profile, Ignore
    PROVE  Controlled'
<1>1. UNCHANGED peers
  BY DEF Ignore, Handling
<1>2. CASE Fails("closed")
  BY <1>1, <1>2, FailControl
<1>3. CASE Handled("client") /\ UNCHANGED <<status, proxy, taken, sink>>
  <2>1. report'["client"] = {} /\ report'["remote"] = report["remote"]
    BY <1>3, HandledEnds DEF Ends
  <2> QED
    BY <1>1, <1>3, <2>1 DEF Controlled, Control, Quiet, Unasked, Steady, Fast, proxy, peers
<1> QED
  BY <1>2, <1>3 DEF Ignore

\* What a handler of the tunnel relays while the server takes everything.
LEMMA FastSource ==
    ASSUME Controlled, Fast, NEW x \in Ends, Handling(x, "TUNNEL")
    PROVE  /\ type["remote"] = "TUNNEL"
           /\ Source(x) = "remote" \/ (Source(x) = "client" /\ buff["client"] = << >>)
           /\ Source(x) = "client" => type["client"] = "TUNNEL"
           /\ type["client"] # "TUNNEL" => x = "remote" /\ type["client"] = "DESYNC"
BY DEF Controlled, Control, Handling, Source, Peer, Ends

LEMMA TunnelStuckControl ==
    ASSUME Basic, Controlled, UNCHANGED profile, NEW x \in Ends, TunnelStuck(x)
    PROVE  Controlled'
<1>1. UNCHANGED peers /\ Handling(x, "TUNNEL")
  BY DEF TunnelStuck, Handling
<1>2. CASE ~Fast
  BY <1>2, SlowControl
<1>3. CASE Fast /\ Fails("closed")
  BY <1>1, <1>3, FailControl
<1>4. CASE Fast /\ ~Fails("closed")
  <2>1. /\ Len(Pending(Source(x))) > 0
        /\ \E s : sink' = [sink EXCEPT ![Peer(Source(x))] = s]
        /\ Handled(x)
        /\ UNCHANGED <<status, type, watch, buff, attempt, server, taken>>
    BY <1>4 DEF TunnelStuck
  <2>2. Source(x) = "remote"
    BY <1>1, <1>4, <2>1, FastSource, PendingOf, EmptySeq DEF Basic, Ends
  <2>3. sink'["remote"] = sink["remote"]
    BY <2>1, <2>2 DEF Peer, Basic, TypeOK, Ends
  <2>4. report'[x] = {} /\ \A y \in Ends \ {x} : report'[y] = report[y]
    BY <2>1, HandledEnds
  <2>5. Control'
    BY <2>1, <2>4 DEF Controlled, Control, Fast, Ends
  <2>6. Quiet'
    BY <2>1, <2>4 DEF Controlled, Quiet, Steady, Ends
  <2>7. Unasked'
    BY <1>1, <2>1, <2>3 DEF Controlled, Unasked, Fast, peers
  <2> QED
    BY <2>5, <2>6, <2>7 DEF Controlled
<1> QED
  BY <1>2, <1>3, <1>4

\* A server that takes everything gets nothing from beyond the client's buffer.
LEMMA NoStray ==
    ASSUME Basic, Inside, Controlled, Fast, NEW x \in Ends, TunnelStray(x)
    PROVE  FALSE
<1> DEFINE v == Source(x)
<1>1. Handling(x, "TUNNEL") /\ buff[v] # << >> /\ offset[v] > Len(buff[v])
  BY StrayOf DEF Basic
<1>2. v = "remote" \/ (v = "client" /\ buff["client"] = << >>)
  BY <1>1, FastSource
<1>3. offset["remote"] \in Nat /\ Len(buff["remote"]) \in Nat
  BY Facts DEF Basic, Ends
<1> QED
  BY <1>1, <1>2, <1>3 DEF Inside

LEMMA BaseOf ==
    ASSUME Basic, Controlled, Fast, type["remote"] = "TUNNEL", NEW v \in Ends
    PROVE  /\ Base(v) \in Watches
           /\ "out" \notin Base(v)["remote"]
           /\ type["client"] = "DESYNC" /\ Steady => "out" \notin Base(v)["client"]
           /\ buff[v] = << >> => Base(v) = watch
<1>1. watch \in Watches /\ "out" \notin watch["remote"]
  BY DEF Basic, TypeOK, Watches, Controlled, Control
<1>2. type["client"] = "DESYNC" /\ Steady => "out" \notin watch["client"]
  BY DEF Controlled, Quiet
<1>3. CASE buff[v] = << >>
  BY <1>1, <1>2, <1>3 DEF Base
<1>4. CASE buff[v] # << >>
  <2>1. Base(v) = [y \in Ends |-> {"in"}]
    BY <1>4 DEF Base
  <2> QED
    BY <1>4, <2>1 DEF Watches, Ends
<1> QED
  BY <1>3, <1>4

LEMMA TunnelControl ==
    ASSUME Basic, Controlled, UNCHANGED profile, NEW x \in Ends, Tunnel(x)
    PROVE  Controlled'
<1> DEFINE v == Source(x)
           p == Peer(v)
           more == Received(v, BfSize)
           n == Len(more)
<1>1. /\ UNCHANGED peers
      /\ \/ FailsAfter("closed", [sink EXCEPT ![p] = @ \o Pending(v)])
         \/ \E k \in Accepts(p, n) :
              /\ sink' = [sink EXCEPT ![p] = (@ \o Pending(v)) \o SubSeq(more, 1, k)]
              /\ buff' = [buff EXCEPT ![v] = SubSeq(more, k + 1, n)]
              /\ watch' = IF k < n THEN Stalled(Base(v), v) ELSE Base(v)
              /\ Handled(x)
              /\ UNCHANGED <<status, type>>
  BY TunnelOf
<1>2. v \in Ends /\ p \in Ends /\ p = Peer(v)
  BY SourceOf
<1>3. /\ more \in Seq(Bytes) /\ n \in Nat
      /\ arrived[v] = taken[v] => more = << >>
  BY <1>2, ReceivedOf, LengthAssumption DEF Basic
<1>4. CASE ~Fast
  BY <1>4, SlowControl
<1>5. CASE Fast
  <2>1. /\ type["remote"] = "TUNNEL"
        /\ v = "remote" \/ (v = "client" /\ buff["client"] = << >>)
        /\ v = "client" => type["client"] = "TUNNEL"
        /\ type["client"] # "TUNNEL" => x = "remote" /\ type["client"] = "DESYNC"
    BY <1>5, FastSource DEF Tunnel
  <2> HIDE DEF v, more
  <2>2. p = "client" \/ type["client"] # "DESYNC"
    BY <1>2, <2>1 DEF Peer
  <2>3. CASE FailsAfter("closed", [sink EXCEPT ![p] = @ \o Pending(v)])
    <3>1. \/ [sink EXCEPT ![p] = @ \o Pending(v)]["remote"] = sink["remote"]
          \/ type["client"] # "DESYNC"
      BY <2>2 DEF Basic, TypeOK, Ends
    <3> QED
      BY <1>1, <2>3, <3>1, FailsControl
  <2>4. ASSUME NEW k \in Accepts(p, n),
               sink' = [sink EXCEPT ![p] = (@ \o Pending(v)) \o SubSeq(more, 1, k)],
               buff' = [buff EXCEPT ![v] = SubSeq(more, k + 1, n)],
               watch' = IF k < n THEN Stalled(Base(v), v) ELSE Base(v),
               Handled(x),
               UNCHANGED <<status, type>>
        PROVE  Controlled'
    <3>1. /\ k \in Nat /\ k <= n /\ (p \notin profile => k = n)
          /\ Len(SubSeq(more, k + 1, n)) = n - k
          /\ SubSeq(more, k + 1, n) \in Seq(Bytes)
      BY <1>2, <1>3, AcceptsOf, Cut
    <3>2. k = n => SubSeq(more, k + 1, n) = << >>
      BY <1>3, <3>1, SeqDomain
    <3>3. report'[x] = {} /\ \A y \in Ends \ {x} : report'[y] = report[y]
      BY <2>4, HandledEnds
    <3>4. /\ Base(v) \in Watches
          /\ "out" \notin Base(v)["remote"]
          /\ type["client"] = "DESYNC" /\ Steady => "out" \notin Base(v)["client"]
          /\ buff[v] = << >> => Base(v) = watch
      BY <1>2, <1>5, <2>1, BaseOf
    <3>5. "out" \notin report["remote"]
      BY <1>5, <2>1 DEF Controlled, Control
    <3>6. Unasked'
      BY <1>1, <2>2, <2>4 DEF Controlled, Unasked, Fast, peers, Basic, TypeOK, Ends
    <3>7. CASE v = "client"
      <4>1. k = n /\ buff["client"] = << >>
        BY <1>2, <1>5, <2>1, <3>1, <3>7 DEF Peer, Fast
      <4>2. watch' = watch
        BY <1>3, <2>4, <3>4, <3>7, <4>1
      <4>3. buff'["client"] = << >> /\ buff'["remote"] = buff["remote"]
        BY <2>4, <3>2, <3>7, <4>1 DEF Basic, TypeOK, Ends
      <4>4. Control'
        BY <2>1, <2>4, <3>3, <3>5, <3>7, <4>2, <4>3 DEF Controlled, Control, Fast, Ends
      <4>5. Quiet'
        BY <2>1, <2>4, <3>7 DEF Quiet
      <4> QED
        BY <3>6, <4>4, <4>5 DEF Controlled
    <3>8. CASE v = "remote"
      <4>1. p = "client"
        BY <1>2, <3>8 DEF Peer
      <4>2. buff'["client"] = buff["client"] /\ buff'["remote"] = SubSeq(more, k + 1, n)
        BY <2>4, <3>8 DEF Basic, TypeOK, Ends
      <4>3. "out" \notin watch'["remote"]
        <5>1. "out" \notin Stalled(Base(v), v)["remote"]
          BY <3>4, <3>8 DEF Stalled, Peer, Watches, Ends
        <5> QED
          BY <2>4, <3>4, <5>1
      <4>4. k < n => "out" \in watch'["client"]
        BY <2>4, <3>4, <3>8 DEF Stalled, Peer, Watches, Ends
      <4>5. buff'["remote"] # << >> => k < n
        BY <1>3, <3>1, <3>2, <4>2
      <4>6. Control'
        BY <1>5, <2>1, <2>4, <3>3, <3>5, <4>2, <4>3, <4>4, <4>5
           DEF Controlled, Control, Fast, Ends
      <4>7. ASSUME Steady, type["client"] = "DESYNC"
            PROVE  "out" \notin watch'["client"] \cup report'["client"]
        <5>1. ~(k < n)
          <6>1. CASE "client" \notin profile
            BY <1>3, <3>1, <4>1, <6>1
          <6>2. CASE "early" \notin profile
            <7>1. arrived["remote"] = 0 /\ taken["remote"] = 0
              <8>1. arrived["remote"] = 0
                BY <1>5, <2>1, <4>7, <6>2 DEF Controlled, Unasked
              <8>2. taken["remote"] <= arrived["remote"] /\ taken["remote"] \in Nat
                BY RoomOf, Facts DEF Basic, Ends
              <8> QED
                BY <8>1, <8>2
            <7>2. n = 0
              BY <1>3, <3>8, <7>1, EmptySeq
            <7> QED
              BY <3>1, <7>2
          <6> QED
            BY <4>7, <6>1, <6>2 DEF Steady
        <5>2. watch' = Base(v)
          BY <2>4, <5>1
        <5>3. x = "remote"
          BY <2>1, <4>7
        <5>4. report'["client"] = report["client"]
          BY <3>3, <5>3 DEF Ends
        <5> QED
          BY <3>4, <4>7, <5>2, <5>4 DEF Controlled, Quiet
      <4>8. Quiet'
        BY <2>4, <4>7 DEF Quiet, Steady
      <4> QED
        BY <3>6, <4>6, <4>8 DEF Controlled
    <3> QED
      BY <2>1, <3>7, <3>8
  <2> QED
    BY <1>1, <2>3, <2>4
<1> QED
  BY <1>4, <1>5

LEMMA NextControl ==
    ASSUME Basic, Inside, Controlled, [Next]_vars
    PROVE  Controlled'
<1>1. CASE UNCHANGED vars
  BY <1>1 DEF vars, proxy, peers, Controlled, Control, Quiet, Unasked, Steady, Fast
<1>2. CASE Next
  <2>1. UNCHANGED profile
    BY <1>2 DEF Next
  <2>2. CASE PeerStep \/ Poll
    BY <2>1, <2>2, PeerControl, PollControl
  <2>3. CASE Ended
    BY <2>1, <2>3 DEF Ended, proxy, peers, Controlled, Control, Quiet, Unasked, Steady, Fast
  <2>4. CASE \E x \in Ends : DesyncOut(x) \/ DesyncFull(x) \/ TunnelStuck(x) \/ Tunnel(x)
    BY <2>1, <2>4, DesyncOutControl, DesyncFullControl, TunnelStuckControl, TunnelControl
  <2>5. CASE DesyncIn \/ DesyncInRemote \/ Retry \/ Answer \/ Ignore
    BY <2>1, <2>5, DesyncInControl, DesyncInRemoteControl, RetryControl, AnswerControl,
       IgnoreControl
  <2>6. CASE (\E x \in Ends : Error(x)) \/ CheckOut \/ NoAnswer
    BY <2>1, <2>6, FailControl DEF Error, CheckOut, NoAnswer
  <2>7. CASE \E x \in Ends : TunnelStray(x)
    BY <2>1, <2>7, SlowControl, NoStray
  <2> QED
    BY <1>2, <2>2, <2>3, <2>4, <2>5, <2>6, <2>7 DEF Next, HandlerStep
<1> QED
  BY <1>1, <1>2

LEMMA ControlInvariant == Spec => []Controlled
<1>1. Basic /\ Inside /\ Controlled /\ [Next]_vars => Controlled'
  BY NextControl
<1> QED
  BY BasicInvariant, InsideInvariant, ControlInit, <1>1, PTL DEF Spec

\* Data of the server that waits in the proxy is sent when the client's socket
\* can be written again; data of the client never waits while the server takes
\* everything.
THEOREM PendingStaysWatched == Spec => []PendingIsWatched
<1>1. Controlled => PendingIsWatched
  BY DEF Controlled, Control, PendingIsWatched, Fast, Peer, Ends
<1> QED
  BY ControlInvariant, <1>1, PTL

LEMMA NextFailure ==
    ASSUME Basic, Controlled, [Next]_vars, Steady
    PROVE  status' \in {status, "closed"}
<1>1. Fast
  BY DEF Steady, Fast
<1>2. CASE UNCHANGED vars \/ PeerStep \/ Poll \/ Ended
  BY <1>2 DEF vars, PeerStep, Poll, Ended
<1>3. CASE \E x \in Ends : DesyncFull(x) \/ TunnelStuck(x) \/ TunnelStray(x) \/ Error(x)
  BY <1>3 DEF DesyncFull, TunnelStuck, TunnelStray, Error, Fails, FailsAfter
<1>4. CASE DesyncIn \/ DesyncInRemote \/ Retry \/ NoAnswer \/ Answer \/ Ignore
  BY <1>4 DEF DesyncIn, DesyncInRemote, Retry, Reconnect, NoAnswer, Answer,
              Ignore, Fails, FailsAfter
<1>5. CASE \E x \in Ends : Tunnel(x)
  <2>1. PICK x \in Ends : Tunnel(x)
    BY <1>5
  <2> QED
    BY <2>1, TunnelOf DEF FailsAfter
<1>6. CASE CheckOut
  BY <1>1, <1>6 DEF CheckOut, Checking, Controlled, Control
<1>7. CASE \E x \in Ends : DesyncOut(x)
  <2>1. PICK x \in Ends : DesyncOut(x)
    BY <1>7
  <2>2. type[x] = "DESYNC" /\ "out" \in report[x]
    BY <2>1 DEF DesyncOut, Handling
  <2>3. x = "remote"
    BY <2>2 DEF Controlled, Quiet, Ends
  <2>4. buff["client"] # << >>
    BY <1>1, <2>2, <2>3 DEF Controlled, Control
  <2> QED
    BY <2>1, <2>4 DEF DesyncOut
<1> QED
  BY <1>2, <1>3, <1>4, <1>5, <1>6, <1>7 DEF Next, HandlerStep

\* The assertions of extend.c:279 and extend.c:344 hold as long as the server's
\* sockets take everything and no server speaks into a request while the client's
\* socket may be full: on_tunnel_check() is never called to write, and
\* on_desync_again() finds a request.
THEOREM AssertionsHold == Spec => []NoAssertion
<1>1. Init => NoAssertion
  BY DEF Init, NoAssertion, Failures
<1>2. Basic /\ Controlled /\ NoAssertion /\ [Next]_vars => NoAssertion'
  <2> SUFFICES ASSUME Basic, Controlled, NoAssertion, [Next]_vars
               PROVE  NoAssertion'
    OBVIOUS
  <2>1. Steady' <=> Steady
    BY DEF Next, vars, Steady
  <2>2. Steady => status' \in {status, "closed"}
    BY NextFailure
  <2> QED
    BY <2>1, <2>2 DEF NoAssertion, Failures
<1> QED
  BY BasicInvariant, ControlInvariant, <1>1, <1>2, PTL DEF Spec

-----------------------------------------------------------------------------
(* The client gets the answer of one server                                *)

\* The bytes of server a from the one after the m-th.
Numbered(s, m, a) == \A i \in DOMAIN s : s[i] = <<a, m + i>>

\* What the client has got and what waits for it are one answer from its start.
Relaying ==
    Calm =>
        /\ Numbered(sink["client"], 0, server)
        /\ Numbered(buff["remote"], taken["remote"] - Len(buff["remote"]), server)
        /\ offset["remote"] <= Len(buff["remote"])
        /\ Len(buff["remote"]) <= taken["remote"]
        /\ status = "open" =>
             Len(sink["client"]) = taken["remote"] - (Len(buff["remote"]) - offset["remote"])
        /\ type["client"] # "TUNNEL" =>
             /\ taken["remote"] = 0 /\ buff["remote"] = << >>
             /\ status = "open" => sink["client"] = << >>

LEMMA NumberedChain ==
    ASSUME NEW s \in Seq(Bytes), NEW t \in Seq(Bytes), NEW a,
           Numbered(s, 0, a), Numbered(t, Len(s), a)
    PROVE  Numbered(s \o t, 0, a)
<1> DEFINE u == s \o t
<1>1. /\ u \in Seq(Bytes) /\ Len(u) = Len(s) + Len(t)
      /\ \A i \in 1 .. Len(s) : u[i] = s[i]
      /\ \A i \in Len(s) + 1 .. Len(s) + Len(t) : u[i] = t[i - Len(s)]
  BY ConcatOf
<1> HIDE DEF u
<1>2. /\ DOMAIN u = 1 .. Len(s) + Len(t) /\ DOMAIN s = 1 .. Len(s)
      /\ DOMAIN t = 1 .. Len(t) /\ Len(s) \in Nat /\ Len(t) \in Nat
  BY <1>1, SeqDomain
<1>3. ASSUME NEW i \in DOMAIN u PROVE u[i] = <<a, 0 + i>>
  <2>1. CASE i <= Len(s)
    <3>1. i \in DOMAIN s /\ u[i] = s[i]
      BY <1>1, <1>2, <2>1
    <3> QED
      BY <3>1 DEF Numbered
  <2>2. CASE i > Len(s)
    <3>1. i - Len(s) \in DOMAIN t /\ u[i] = t[i - Len(s)]
      BY <1>1, <1>2, <2>2
    <3>2. u[i] = <<a, Len(s) + (i - Len(s))>>
      BY <3>1 DEF Numbered
    <3>3. Len(s) + (i - Len(s)) = 0 + i
      BY <1>2
    <3> QED
      BY <3>2, <3>3
  <2> QED
    BY <1>2, <2>1, <2>2
<1> QED
  BY <1>3 DEF Numbered, u

LEMMA NumberedCut ==
    ASSUME NEW s \in Seq(Bytes), NEW m \in Int, NEW a, NEW k \in Nat, k <= Len(s),
           Numbered(s, m, a)
    PROVE  /\ Numbered(SubSeq(s, 1, k), m, a)
           /\ Numbered(SubSeq(s, k + 1, Len(s)), m + k, a)
<1> DEFINE t == SubSeq(s, 1, k)
           u == SubSeq(s, k + 1, Len(s))
<1>1. /\ t \in Seq(Bytes) /\ Len(t) = k /\ u \in Seq(Bytes) /\ Len(u) = Len(s) - k
      /\ \A i \in 1 .. k : t[i] = s[i]
      /\ \A i \in 1 .. Len(s) - k : u[i] = s[k + i]
  BY Cut
<1> HIDE DEF t, u
<1>2. /\ DOMAIN t = 1 .. k /\ DOMAIN u = 1 .. Len(s) - k /\ DOMAIN s = 1 .. Len(s)
      /\ Len(s) \in Nat
  BY <1>1, SeqDomain
<1>3. Numbered(t, m, a)
  BY <1>1, <1>2 DEF Numbered
<1>4. ASSUME NEW i \in DOMAIN u PROVE u[i] = <<a, (m + k) + i>>
  <2>1. k + i \in DOMAIN s /\ u[i] = s[k + i]
    BY <1>1, <1>2
  <2>2. s[k + i] = <<a, m + (k + i)>>
    BY <2>1 DEF Numbered
  <2>3. m + (k + i) = (m + k) + i
    BY <1>2
  <2> QED
    BY <2>1, <2>2, <2>3
<1> QED
  BY <1>3, <1>4 DEF Numbered, t, u

LEMMA NumberedNothing ==
    ASSUME NEW m, NEW a
    PROVE  Numbered(<< >>, m, a)
BY DEF Numbered

LEMMA ReceivedNumbered ==
    ASSUME TypeOK, Counts, NEW limit \in Nat
    PROVE  Numbered(Received("remote", limit), taken["remote"], server)
<1> DEFINE more == Received("remote", limit)
<1>1. /\ more \in Seq(Bytes)
      /\ \A i \in 1 .. Len(more) : more[i] = Byte("remote", taken["remote"] + i)
  BY ReceivedOf DEF Ends
<1> HIDE DEF more
<1>2. DOMAIN more = 1 .. Len(more)
  BY <1>1, SeqDomain
<1> QED
  BY <1>1, <1>2 DEF Numbered, Byte, more

\* What the client still has to get of what was received.
LEMMA PendingNumbered ==
    ASSUME Basic, Relaying, Calm, status = "open"
    PROVE  /\ Numbered(Pending("remote"), Len(sink["client"]), server)
           /\ Len(Pending("remote")) = Len(buff["remote"]) - offset["remote"]
           /\ Len(sink["client"]) + Len(Pending("remote")) = taken["remote"]
<1> DEFINE b == buff["remote"]
           o == offset["remote"]
           m == taken["remote"] - Len(b)
<1>1. /\ TypeOK /\ b \in Seq(Bytes) /\ Len(b) \in Nat /\ o \in Nat
      /\ taken["remote"] \in Nat /\ Len(sink["client"]) \in Nat
  BY Facts DEF Basic, Ends
<1>2. /\ Numbered(b, m, server) /\ o <= Len(b)
      /\ Len(sink["client"]) = taken["remote"] - (Len(b) - o)
  BY DEF Relaying, Calm
<1>3. m \in Int /\ m + o = Len(sink["client"])
  BY <1>1, <1>2
<1>4. Numbered(SubSeq(b, o + 1, Len(b)), m + o, server)
  BY <1>1, <1>2, <1>3, NumberedCut
<1>5. Numbered(Pending("remote"), Len(sink["client"]), server)
  BY <1>3, <1>4 DEF Pending
<1>6. Len(Pending("remote")) = Len(b) - o
  BY <1>1, <1>2, PendingOf DEF Ends
<1> QED
  BY <1>1, <1>2, <1>5, <1>6

\* The answer and where it waits are untouched.
LEMMA SameRelaying ==
    ASSUME Relaying, UNCHANGED <<profile, server>>, sink'["client"] = sink["client"],
           buff'["remote"] = buff["remote"], taken'["remote"] = taken["remote"],
           offset'["remote"] = offset["remote"],
           status = "open" \/ status' # "open",
           type'["client"] \in {type["client"], "TUNNEL"}
    PROVE  Relaying'
BY DEF Relaying, Calm

LEMMA PeerRelaying ==
    ASSUME Relaying, UNCHANGED profile, PeerStep \/ Poll \/ Ended
    PROVE  Relaying'
BY SameRelaying DEF PeerStep, Poll, Ended, proxy

LEMMA FailsRelaying ==
    ASSUME Relaying, UNCHANGED profile, NEW s \in {"closed"} \cup Failures, Fails(s)
    PROVE  Relaying'
BY SameRelaying DEF Fails, FailsAfter, proxy, Failures

\* desync() sends to the server only.
LEMMA SendAside ==
    ASSUME TypeOK, NEW data \in Seq(Bytes), Len(data) <= BfSize,
           NEW w \in Watches, Send(data, w)
    PROVE  /\ sink'["client"] = sink["client"] /\ offset'["remote"] = offset["remote"]
           /\ type'["client"] = type["client"]
<1>1. \E s : sink' = [sink EXCEPT !["remote"] = s]
  BY SendOf
<1>2. \E o \in Nat : offset' = [offset EXCEPT !["client"] = o]
  BY SendOf
<1>3. \E t \in {"DESYNC", "PRE_TUNNEL"} : type' = [type EXCEPT !["remote"] = t]
  BY SendOf
<1> QED
  BY <1>1, <1>2, <1>3 DEF TypeOK, Ends

LEMMA DesyncOutRelaying ==
    ASSUME Basic, Relaying, UNCHANGED profile, NEW x \in Ends, DesyncOut(x)
    PROVE  Relaying'
<1>1. CASE buff["client"] = << >>
  BY <1>1, FailsRelaying DEF DesyncOut, Failures
<1>2. CASE buff["client"] # << >>
  <2>1. /\ Send(buff["client"], WatchAgain(x)) /\ status = "open"
        /\ UNCHANGED <<status, buff, server, taken>>
    BY <1>2 DEF DesyncOut, Handling
  <2>2. /\ buff["client"] \in Seq(Bytes) /\ Len(buff["client"]) <= BfSize
        /\ WatchAgain(x) \in Watches
    BY Facts, RoomOf, WatchAgainOf DEF Basic, Ends
  <2>3. /\ sink'["client"] = sink["client"] /\ offset'["remote"] = offset["remote"]
        /\ type'["client"] = type["client"]
    BY <2>1, <2>2, SendAside DEF Basic
  <2> QED
    BY <2>1, <2>3, SameRelaying
<1> QED
  BY <1>1, <1>2

LEMMA DesyncFullRelaying ==
    ASSUME Basic, Controlled, Relaying, UNCHANGED profile, NEW x \in Ends, DesyncFull(x)
    PROVE  Relaying'
<1>1. CASE ~Calm
  BY <1>1 DEF Calm, Relaying
<1>2. CASE Calm
  <2>1. x = "client"
    BY <1>2, NoHangup DEF DesyncFull, Calm, Fast, Ends
  <2>2. /\ UNCHANGED <<status, server, taken, sink>> /\ status = "open"
        /\ buff'["remote"] = buff["remote"] /\ offset'["remote"] = offset["remote"]
        /\ type'["client"] = "TUNNEL"
    BY <2>1 DEF DesyncFull, Handling, ToTunnel, Basic, TypeOK, Ends
  <2> QED
    BY <2>2, SameRelaying
<1> QED
  BY <1>1, <1>2

LEMMA DesyncInRelaying ==
    ASSUME Basic, Relaying, UNCHANGED profile, DesyncIn
    PROVE  Relaying'
<1> DEFINE more == Received("client", BfSize - Len(buff["client"]))
           data == buff["client"] \o more
<1>1. CASE Fails("closed")
  BY <1>1, FailsRelaying
<1>2. CASE ~Fails("closed")
  <2>1. /\ Send(data, watch) /\ status = "open" /\ UNCHANGED <<status, server>>
        /\ buff' = [buff EXCEPT !["client"] = data]
        /\ taken' = [taken EXCEPT !["client"] = @ + Len(more)]
    BY <1>2 DEF DesyncIn, Handling
  <2>2. /\ buff["client"] \in Seq(Bytes) /\ Len(buff["client"]) \in Nat
        /\ BfSize - Len(buff["client"]) \in Nat /\ BfSize \in Nat
    BY Facts, RoomOf DEF Basic, Ends
  <2>3. /\ more \in Seq(Bytes) /\ Len(more) \in Nat
        /\ Len(more) <= BfSize - Len(buff["client"])
    BY <2>2, ReceivedOf DEF Basic, Ends
  <2> HIDE DEF more
  <2>4. data \in Seq(Bytes) /\ Len(data) = Len(buff["client"]) + Len(more)
    BY <2>2, <2>3, ConcatOf
  <2>5. Len(data) <= BfSize
    BY <2>2, <2>3, <2>4
  <2> HIDE DEF data
  <2>6. /\ sink'["client"] = sink["client"] /\ offset'["remote"] = offset["remote"]
        /\ type'["client"] = type["client"]
    BY <2>1, <2>4, <2>5, SendAside, WatchAgainOf DEF Basic, Ends
  <2>7. buff'["remote"] = buff["remote"] /\ taken'["remote"] = taken["remote"]
    BY <2>1 DEF Basic, TypeOK, Ends
  <2> QED
    BY <2>1, <2>6, <2>7, SameRelaying
<1> QED
  BY <1>1, <1>2

LEMMA RetryRelaying ==
    ASSUME Basic, Controlled, Relaying, UNCHANGED profile, Retry
    PROVE  Relaying'
<1>1. CASE ~Calm
  BY <1>1 DEF Calm, Relaying
<1>2. CASE Calm
  <2>1. type["client"] # "TUNNEL" /\ status = "open"
    BY <1>2 DEF Retry, Checking, Controlled, Control, Calm, Fast
  <2>2. sink["client"] = << >>
    BY <1>2, <2>1 DEF Relaying, Calm
  <2>3. /\ sink'["client"] = << >> /\ buff'["remote"] = << >>
        /\ taken'["remote"] = 0 /\ offset'["remote"] = 0
    BY <2>2 DEF Retry, Reconnect, Replayed, Basic, TypeOK, Ends
  <2>4. Len(<< >>) = 0 /\ 0 <= 0 /\ 0 = 0 - (0 - 0)
    BY EmptySeq
  <2> QED
    BY <2>3, <2>4, NumberedNothing DEF Relaying, Calm
<1> QED
  BY <1>1, <1>2

\* The connection ends, and the client has got the answer so far.
LEMMA EndsRelaying ==
    ASSUME Relaying, Calm, UNCHANGED profile, NEW got, FailsAfter("closed", got),
           Numbered(got["client"], 0, server)
    PROVE  Relaying'
<1>1. /\ status' = "closed" /\ sink' = got
      /\ UNCHANGED <<profile, type, buff, offset, server, taken>>
  BY DEF FailsAfter, proxy
<1> QED
  BY <1>1 DEF Relaying, Calm

LEMMA DesyncInRemoteRelaying ==
    ASSUME Controlled, Relaying, UNCHANGED profile, DesyncInRemote
    PROVE  Relaying'
<1>1. CASE ~Calm
  BY <1>1 DEF Calm, Relaying
<1>2. CASE Calm
  BY <1>2, NoHangup DEF DesyncInRemote, Calm, Fast
<1> QED
  BY <1>1, <1>2

LEMMA AnswerRelaying ==
    ASSUME Basic, Controlled, Relaying, UNCHANGED profile, Answer
    PROVE  Relaying'
<1>1. CASE ~Calm
  BY <1>1 DEF Calm, Relaying
<1>2. CASE Calm
  <2> DEFINE more == Received("remote", BfSize)
             n == Len(more)
  <2>1. type["client"] # "TUNNEL" /\ status = "open"
    BY <1>2 DEF Answer, Checking, Controlled, Control, Calm, Fast
  <2>2. /\ sink["client"] = << >> /\ taken["remote"] = 0 /\ buff["remote"] = << >>
        /\ offset["remote"] = 0
    BY <1>2, <2>1 DEF Relaying, Calm, Basic, Emptied, Ends
  <2>3. more \in Seq(Bytes) /\ n \in Nat
    BY ReceivedOf, LengthAssumption DEF Basic, Ends
  <2>4. Numbered(more, 0, server)
    BY <2>2, ReceivedNumbered, LengthAssumption DEF Basic
  <2>5. PICK k \in Accepts("client", n) :
          IF k < n
            THEN FailsAfter("closed", [sink EXCEPT !["client"] = @ \o SubSeq(more, 1, k)])
            ELSE /\ sink' = [sink EXCEPT !["client"] = @ \o more]
                 /\ taken' = [taken EXCEPT !["remote"] = @ + n]
                 /\ ToTunnel("client")
                 /\ Handled("remote")
                 /\ UNCHANGED <<status, watch, attempt, server>>
    BY DEF Answer
  <2> HIDE DEF more
  <2>6. k \in Nat /\ k <= n
    BY <2>3, <2>5, AcceptsOf DEF Ends
  <2>7. CASE k < n
    <3> DEFINE got == [sink EXCEPT !["client"] = @ \o SubSeq(more, 1, k)]
    <3>1. SubSeq(more, 1, k) \in Seq(Bytes) /\ Numbered(SubSeq(more, 1, k), 0, server)
      <4>1. SubSeq(more, 1, k) \in Seq(Bytes)
        BY <2>3, <2>6, Cut
      <4>2. 0 \in Int
        OBVIOUS
      <4>3. Numbered(SubSeq(more, 1, k), 0, server)
        BY <2>3, <2>4, <2>6, <4>2, NumberedCut
      <4> QED
        BY <4>1, <4>3
    <3>2. got["client"] = << >> \o SubSeq(more, 1, k)
      BY <2>2 DEF Basic, TypeOK, Ends
    <3>3. Numbered(<< >> \o SubSeq(more, 1, k), 0, server)
      BY <3>1, EmptySeq, NumberedNothing, NumberedChain
    <3>4. FailsAfter("closed", got)
      BY <2>5, <2>7
    <3> HIDE DEF got
    <3> QED
      BY <1>2, <3>2, <3>3, <3>4, EndsRelaying
  <2>8. CASE ~(k < n)
    <3>1. /\ sink' = [sink EXCEPT !["client"] = @ \o more]
          /\ taken' = [taken EXCEPT !["remote"] = @ + n]
          /\ ToTunnel("client") /\ UNCHANGED <<status, server>>
      BY <2>5, <2>8
    <3>2. sink'["client"] = << >> \o more /\ taken'["remote"] = n
      BY <2>2, <2>3, <3>1 DEF Basic, TypeOK, Ends
    <3>3. Numbered(<< >> \o more, 0, server) /\ Len(<< >> \o more) = 0 + n
      BY <2>3, <2>4, EmptySeq, NumberedNothing, NumberedChain, ConcatOf
    <3>4. /\ buff'["remote"] = << >> /\ offset'["remote"] = 0
          /\ type'["client"] = "TUNNEL"
      BY <2>2, <3>1 DEF ToTunnel, Basic, TypeOK, Ends
    <3>5. 0 + n = n - (0 - 0) /\ 0 <= 0 /\ 0 <= n
      BY <2>3
    <3> QED
      BY <3>1, <3>2, <3>3, <3>4, <3>5, EmptySeq, NumberedNothing DEF Relaying, Calm
  <2> QED
    BY <2>7, <2>8
<1> QED
  BY <1>1, <1>2

LEMMA IgnoreRelaying ==
    ASSUME Relaying, UNCHANGED profile, Ignore
    PROVE  Relaying'
<1>1. CASE Fails("closed")
  BY <1>1, FailsRelaying
<1>2. CASE ~Fails("closed")
  <2>1. UNCHANGED <<status, proxy, taken, sink>>
    BY <1>2 DEF Ignore
  <2> QED
    BY <2>1, SameRelaying DEF proxy
<1> QED
  BY <1>1, <1>2

LEMMA TunnelStuckRelaying ==
    ASSUME Basic, Relaying, UNCHANGED profile, NEW x \in Ends, TunnelStuck(x)
    PROVE  Relaying'
<1>1. CASE ~Calm
  BY <1>1 DEF Calm, Relaying
<1>2. CASE Fails("closed")
  BY <1>2, FailsRelaying
<1>3. CASE Calm /\ ~Fails("closed")
  <2> DEFINE v == Source(x)
             p == Peer(v)
             P == Pending(v)
  <2>1. v \in Ends /\ p \in Ends /\ p # v
    BY SourceOf
  <2>2. P \in Seq(Bytes) /\ Len(P) \in Nat
    BY <2>1, PendingOf DEF Basic
  <2>3. PICK k \in Accepts(p, Len(P)) :
          /\ sink' = [sink EXCEPT ![p] = @ \o SubSeq(P, 1, k)]
          /\ offset' = [offset EXCEPT ![v] = @ + k]
          /\ UNCHANGED <<status, type, watch, buff, attempt, server, taken>>
    BY <1>3 DEF TunnelStuck
  <2>4. status = "open" /\ Len(P) > 0
    BY DEF TunnelStuck, Handling
  <2>5. k \in Nat /\ k <= Len(P)
    BY <2>1, <2>2, <2>3, AcceptsOf
  <2> HIDE DEF v, P
  <2>6. CASE v = "client"
    <3>1. sink'["client"] = sink["client"] /\ offset'["remote"] = offset["remote"]
      BY <2>1, <2>3, <2>6 DEF Basic, TypeOK, Ends
    <3> QED
      BY <2>3, <2>4, <3>1, SameRelaying
  <2>7. CASE v = "remote"
    <3> DEFINE b == buff["remote"]
               o == offset["remote"]
               s == sink["client"]
    <3>1. P = Pending("remote") /\ p = "client"
      BY <2>1, <2>7 DEF P, Ends
    <3>2. /\ Numbered(P, Len(s), server) /\ Len(P) = Len(b) - o
          /\ Len(s) + Len(P) = taken["remote"]
      BY <1>3, <2>4, <3>1, PendingNumbered
    <3>3. /\ s \in Seq(Bytes) /\ Len(s) \in Nat /\ Len(b) \in Nat /\ o \in Nat
          /\ taken["remote"] \in Nat
      BY Facts DEF Basic, Ends
    <3>4. /\ sink'["client"] = s \o SubSeq(P, 1, k) /\ offset'["remote"] = o + k
          /\ UNCHANGED <<status, type, buff, server, taken>>
      BY <2>3, <2>7, <3>1 DEF Basic, TypeOK, Ends
    <3>10. Numbered(SubSeq(P, 1, k), Len(s), server)
      <4>1. Len(s) \in Int /\ Numbered(P, Len(s), server)
        BY <3>2, <3>3
      <4> HIDE DEF s
      <4> QED
        BY <2>2, <2>5, <4>1, NumberedCut
    <3>5. SubSeq(P, 1, k) \in Seq(Bytes) /\ Len(SubSeq(P, 1, k)) = k
      BY <2>2, <2>5, Cut
    <3>6. Numbered(s, 0, server) /\ Len(b) <= taken["remote"]
          /\ Numbered(b, taken["remote"] - Len(b), server)
      BY <1>3 DEF Relaying, Calm
    <3>7. /\ Numbered(s \o SubSeq(P, 1, k), 0, server)
          /\ Len(s \o SubSeq(P, 1, k)) = Len(s) + k
      <4> DEFINE q == SubSeq(P, 1, k)
      <4>1. /\ q \in Seq(Bytes) /\ Len(q) = k /\ Numbered(q, Len(s), server)
            /\ s \in Seq(Bytes) /\ Numbered(s, 0, server)
        BY <3>3, <3>10, <3>5, <3>6
      <4> HIDE DEF q, s
      <4>2. Len(s \o q) = Len(s) + k
        BY <4>1, ConcatOf
      <4>3. Numbered(s \o q, 0, server)
        BY <4>1, NumberedChain
      <4> QED
        BY <4>2, <4>3 DEF q
    <3>8. o + k <= Len(b) /\ Len(s) + k = taken["remote"] - (Len(b) - (o + k))
      BY <2>2, <2>5, <3>2, <3>3, SMTT(30)
    <3>9. type["client"] = "TUNNEL"
      <4>1. b # << >>
        BY <2>4, <3>2, <3>3, EmptySeq
      <4> QED
        BY <1>3, <4>1 DEF Relaying, Calm
    <3> QED
      BY <3>4, <3>6, <3>7, <3>8, <3>9 DEF Relaying, Calm
  <2> QED
    BY <2>1, <2>6, <2>7 DEF Ends
<1> QED
  BY <1>1, <1>2, <1>3

LEMMA TunnelRelaying ==
    ASSUME Basic, Controlled, Relaying, UNCHANGED profile, NEW x \in Ends, Tunnel(x)
    PROVE  Relaying'
<1>1. CASE ~Calm
  BY <1>1 DEF Calm, Relaying
<1>2. CASE Calm
  <2> DEFINE v == Source(x)
             p == Peer(v)
             more == Received(v, BfSize)
             n == Len(more)
  <2>1. v \in Ends /\ p \in Ends /\ p # v
    BY SourceOf
  <2>2. status = "open" /\ Fast
    BY <1>2 DEF Tunnel, Handling, Fast, Calm
  <2>3. /\ more \in Seq(Bytes) /\ n \in Nat
        /\ arrived[v] = taken[v] => more = << >>
    BY <2>1, ReceivedOf, LengthAssumption DEF Basic
  <2>4. /\ type["remote"] = "TUNNEL"
        /\ type["client"] # "TUNNEL" => type["client"] = "DESYNC"
    BY <2>2, FastSource DEF Tunnel
  <2>5. /\ UNCHANGED peers
        /\ \/ FailsAfter("closed", [sink EXCEPT ![p] = @ \o Pending(v)])
           \/ \E k \in Accepts(p, n) :
                /\ sink' = [sink EXCEPT ![p] = (@ \o Pending(v)) \o SubSeq(more, 1, k)]
                /\ taken' = [taken EXCEPT ![v] = @ + n]
                /\ buff' = [buff EXCEPT ![v] = SubSeq(more, k + 1, n)]
                /\ offset' = [offset EXCEPT ![v] = 0]
                /\ UNCHANGED <<status, type, server>>
    BY TunnelOf
  <2>6. v = "remote" => Numbered(more, taken["remote"], server)
    BY ReceivedNumbered, LengthAssumption DEF Basic
  <2> DEFINE P == Pending("remote")
             s == sink["client"]
  <2>7. /\ P \in Seq(Bytes) /\ s \in Seq(Bytes) /\ Len(s) \in Nat /\ Len(P) \in Nat
        /\ taken["remote"] \in Nat
    BY Facts, PendingOf DEF Basic, Ends
  <2>8. /\ Numbered(s, 0, server) /\ Numbered(P, Len(s), server)
        /\ Len(s) + Len(P) = taken["remote"]
    BY <1>2, <2>2, PendingNumbered DEF Relaying, Calm
  <2>9. /\ s \o P \in Seq(Bytes) /\ Len(s \o P) = taken["remote"]
        /\ Numbered(s \o P, 0, server)
    BY <2>7, <2>8, ConcatOf, NumberedChain
  <2> HIDE DEF v, more, P
  <2>10. CASE FailsAfter("closed", [sink EXCEPT ![p] = @ \o Pending(v)])
    <3> DEFINE got == [sink EXCEPT ![p] = @ \o Pending(v)]
    <3>1. got["client"] = s \/ got["client"] = s \o P
      BY <2>1 DEF P, Basic, TypeOK, Ends
    <3>2. Numbered(got["client"], 0, server)
      BY <2>8, <2>9, <3>1
    <3>3. FailsAfter("closed", got)
      BY <2>10
    <3> HIDE DEF got
    <3> QED
      BY <1>2, <3>2, <3>3, EndsRelaying
  <2>11. ASSUME NEW k \in Accepts(p, n),
                sink' = [sink EXCEPT ![p] = (@ \o Pending(v)) \o SubSeq(more, 1, k)],
                taken' = [taken EXCEPT ![v] = @ + n],
                buff' = [buff EXCEPT ![v] = SubSeq(more, k + 1, n)],
                offset' = [offset EXCEPT ![v] = 0],
                UNCHANGED <<status, type, server>>
         PROVE  Relaying'
    <3>1. k \in Nat /\ k <= n
      BY <2>1, <2>3, <2>11, AcceptsOf
    <3>2. CASE v = "client"
      <4>1. /\ sink'["client"] = sink["client"] /\ offset'["remote"] = offset["remote"]
            /\ buff'["remote"] = buff["remote"] /\ taken'["remote"] = taken["remote"]
        BY <2>1, <2>11, <3>2 DEF Basic, TypeOK, Ends
      <4> QED
        BY <2>2, <2>11, <4>1, SameRelaying
    <3>3. CASE v = "remote"
      <4> DEFINE sent == SubSeq(more, 1, k)
                 kept == SubSeq(more, k + 1, n)
                 m    == taken["remote"]
      <4>1. p = "client" /\ Pending(v) = P
        BY <2>1, <3>3 DEF P, Ends
      <4>2. /\ sink'["client"] = (s \o P) \o sent /\ taken'["remote"] = m + n
            /\ buff'["remote"] = kept /\ offset'["remote"] = 0
        BY <2>11, <3>3, <4>1 DEF Basic, TypeOK, Ends
      <4>3. /\ sent \in Seq(Bytes) /\ Len(sent) = k /\ Len(kept) = n - k
            /\ Numbered(sent, m, server) /\ Numbered(kept, m + k, server)
        <5>1. m \in Int /\ Numbered(more, m, server)
          BY <2>6, <2>7, <3>3
        <5>2. sent \in Seq(Bytes) /\ Len(sent) = k /\ Len(kept) = n - k
          BY <2>3, <3>1, Cut
        <5> HIDE DEF m
        <5>3. Numbered(sent, m, server) /\ Numbered(kept, m + k, server)
          BY <2>3, <3>1, <5>1, NumberedCut
        <5> QED
          BY <5>2, <5>3
      <4>4. /\ Numbered((s \o P) \o sent, 0, server)
            /\ (s \o P) \o sent \in Seq(Bytes)
            /\ Len((s \o P) \o sent) = m + k
        <5> DEFINE q == s \o P
        <5>1. q \in Seq(Bytes) /\ Len(q) = m /\ Numbered(q, 0, server)
          BY <2>9
        <5> HIDE DEF q, sent, m
        <5>2. Numbered(q \o sent, 0, server)
          BY <4>3, <5>1, NumberedChain
        <5>3. q \o sent \in Seq(Bytes) /\ Len(q \o sent) = m + k
          BY <4>3, <5>1, ConcatOf
        <5> QED
          BY <5>2, <5>3 DEF q
      <4> HIDE DEF sent, kept
      <4>5. /\ (m + n) - Len(kept) = m + k /\ Len(kept) <= m + n /\ 0 <= Len(kept)
            /\ m + k = (m + n) - (Len(kept) - 0)
        BY <2>3, <2>7, <3>1, <4>3
      <4>6. ASSUME type["client"] # "TUNNEL"
            PROVE  m + n = 0 /\ kept = << >> /\ (s \o P) \o sent = << >>
        <5>1. arrived["remote"] = 0
          BY <1>2, <2>2, <2>4, <4>6 DEF Controlled, Unasked, Calm
        <5>2. taken["remote"] <= arrived["remote"]
          BY DEF Basic, Counts, Ends
        <5>3. m = 0 /\ more = << >>
          BY <2>3, <2>7, <3>3, <5>1, <5>2
        <5>4. n = 0 /\ k = 0
          BY <2>3, <3>1, <5>3, EmptySeq
        <5>5. kept = << >>
          BY <2>3, <3>1, <5>3, <5>4, <4>3, SubSeqBeyond, Cut, SeqDomain DEF kept
        <5>6. (s \o P) \o sent = << >>
          BY <4>4, <5>3, <5>4, SeqDomain
        <5> QED
          BY <5>3, <5>4, <5>5, <5>6
      <4>7. type' = type /\ server' = server /\ status' = status
        BY <2>11
      <4>8. Numbered(kept, (m + n) - Len(kept), server)
        BY <4>3, <4>5
      <4>9. Len((s \o P) \o sent) = (m + n) - (Len(kept) - 0)
        BY <4>4, <4>5
      <4> HIDE DEF m
      <4> QED
        BY <4>2, <4>4, <4>5, <4>6, <4>7, <4>8, <4>9 DEF Relaying, Calm
    <3> QED
      BY <2>1, <3>2, <3>3 DEF Ends
  <2> QED
    BY <2>5, <2>10, <2>11
<1> QED
  BY <1>1, <1>2

LEMMA NextRelaying ==
    ASSUME Basic, Inside, Controlled, Relaying, [Next]_vars
    PROVE  Relaying'
<1>1. CASE UNCHANGED vars
  BY <1>1, SameRelaying DEF vars, proxy
<1>2. CASE Next
  <2>1. UNCHANGED profile
    BY <1>2 DEF Next
  <2>2. CASE PeerStep \/ Poll \/ Ended
    BY <2>1, <2>2, PeerRelaying
  <2>3. CASE \E x \in Ends : DesyncOut(x) \/ DesyncFull(x) \/ TunnelStuck(x) \/ Tunnel(x)
    BY <2>1, <2>3, DesyncOutRelaying, DesyncFullRelaying, TunnelStuckRelaying, TunnelRelaying
  <2>4. CASE DesyncIn \/ DesyncInRemote \/ Retry \/ Answer \/ Ignore
    BY <2>1, <2>4, DesyncInRelaying, DesyncInRemoteRelaying, RetryRelaying, AnswerRelaying,
       IgnoreRelaying
  <2>5. CASE (\E x \in Ends : Error(x)) \/ CheckOut \/ NoAnswer
    BY <2>1, <2>5, FailsRelaying DEF Error, CheckOut, NoAnswer, Failures
  <2>6. CASE \E x \in Ends : TunnelStray(x)
    <3>1. ~Calm
      BY <2>6, NoStray DEF Calm, Fast
    <3> QED
      BY <2>1, <3>1 DEF Calm, Relaying
  <2> QED
    BY <1>2, <2>2, <2>3, <2>4, <2>5, <2>6 DEF Next, HandlerStep
<1> QED
  BY <1>1, <1>2

LEMMA InitRelaying == Init => Relaying
<1>1. Len(<< >>) = 0 /\ 0 <= 0 /\ 0 = 0 - (0 - 0)
  BY EmptySeq
<1> QED
  BY <1>1, NumberedNothing DEF Init, Relaying, Calm, Ends

LEMMA RelayInvariant == Spec => []Relaying
<1>1. Basic /\ Inside /\ Controlled /\ Relaying /\ [Next]_vars => Relaying'
  BY NextRelaying
<1> QED
  BY BasicInvariant, InsideInvariant, ControlInvariant, InitRelaying, <1>1, PTL DEF Spec

\* Whatever the sizes, the number of groups and the sockets of the client: what
\* the client has got is the answer of the present server from its first byte on.
\* reconnect() comes before anything was passed on, and what on_tunnel() keeps is
\* sent before what it receives later.
THEOREM AnswerStaysIntact == Spec => []ResponseIntact
<1>1. Basic /\ Relaying => ResponseIntact
  <2> SUFFICES ASSUME Basic, Relaying, Calm
               PROVE  \A i \in DOMAIN sink["client"] :
                        sink["client"][i] = <<sink["client"][1][1], i>>
    BY DEF ResponseIntact, Calm
  <2>1. sink["client"] \in Seq(Bytes)
    BY Facts DEF Basic, Ends
  <2>2. Numbered(sink["client"], 0, server)
    BY DEF Relaying, Calm
  <2> TAKE i \in DOMAIN sink["client"]
  <2>3. i \in Nat /\ 1 \in DOMAIN sink["client"]
    BY <2>1, SeqDomain
  <2>4. sink["client"][i] = <<server, 0 + i>> /\ sink["client"][1] = <<server, 0 + 1>>
    BY <2>2, <2>3 DEF Numbered
  <2> QED
    BY <2>3, <2>4
<1> QED
  BY BasicInvariant, RelayInvariant, <1>1, PTL

-----------------------------------------------------------------------------
(* The server gets the request from its first byte on                      *)

\* Where the next part of the request goes while it is collected: behind what
\* was sent, unless no more of it can come into the buffer.  With a third part
\* the offset would be the sum of two returns of desync().
Placed ==
    \/ Len(buff["client"]) = BfSize
    \/ taken["client"] = ReqLen
    \/ /\ offset["client"] = Len(buff["client"])
       /\ \/ taken["client"] = 0
          \/ writes >= 2
          \/ writes >= 1 /\ taken["client"] = arrived["client"]

Asking ==
    Steady =>
        /\ Numbered(sink["remote"], 0, 0)
        /\ type["client"] # "TUNNEL" =>
             /\ Numbered(buff["client"], 0, 0)
             /\ Len(buff["client"]) = taken["client"]
        /\ status = "open" /\ type["remote"] # "DESYNC" =>
             Len(sink["remote"]) = taken["client"]
        /\ type["remote"] = "DESYNC" => sink["remote"] = << >> /\ offset["client"] = 0
        /\ status = "open" /\ type["client"] = "DESYNC" => Placed

\* The request as the client writes it.
Written == arrived["client"] <= ReqLen /\ (arrived["client"] > 0 => writes >= 1)

Requesting == Written /\ Asking

LEMMA InitRequesting == Init => Requesting
<1>1. Init => Written
  BY LengthAssumption DEF Init, Written, Ends
<1>2. Init => Asking
  BY EmptySeq, NumberedNothing DEF Init, Asking, Placed, Ends
<1> QED
  BY <1>1, <1>2 DEF Requesting

LEMMA SteadyFast ==
    ASSUME Steady
    PROVE  Fast
BY DEF Steady, Fast

LEMMA WrittenStays ==
    ASSUME Written, writes' = writes, arrived'["client"] = arrived["client"]
    PROVE  Written'
BY DEF Written

\* The request and how much of it was sent are untouched.
LEMMA SameAsking ==
    ASSUME Asking, UNCHANGED <<profile, type, buff>>, sink'["remote"] = sink["remote"],
           taken'["client"] = taken["client"], offset'["client"] = offset["client"],
           (UNCHANGED writes /\ arrived'["client"] = arrived["client"]) \/ status' # "open",
           status = "open" \/ status' # "open"
    PROVE  Asking'
BY DEF Asking, Placed, Steady

LEMMA ClientWrote ==
    ASSUME Basic, Requesting, UNCHANGED profile, PeerStep
    PROVE  Requesting'
<1>1. UNCHANGED <<profile, status, type, buff, offset, taken, sink>>
  BY DEF PeerStep, proxy
<1>2. CASE ClientWrites
  <2>1. /\ writes' = writes + 1 /\ writes \in Nat
        /\ \E n \in arrived["client"] + 1 .. ReqLen :
              arrived' = [arrived EXCEPT !["client"] = n]
    BY <1>2, Facts DEF ClientWrites, Basic, Ends
  <2>2. arrived'["client"] <= ReqLen
    BY <2>1, Facts DEF Basic, TypeOK, Ends
  <2>3. Written'
    BY <2>1, <2>2 DEF Written
  <2>4. Placed => Placed'
    BY <1>1, <2>1 DEF Placed
  <2>5. Asking'
    BY <1>1, <2>4 DEF Requesting, Asking, Steady
  <2> QED
    BY <2>3, <2>5 DEF Requesting
<1>3. CASE ~ClientWrites
  <2>1. UNCHANGED writes /\ arrived'["client"] = arrived["client"]
    BY <1>3 DEF PeerStep, ServerWrites, Leaves, Basic, TypeOK, Ends
  <2> QED
    BY <1>1, <2>1, SameAsking, WrittenStays DEF Requesting, Asking, Placed, Steady
<1> QED
  BY <1>2, <1>3

LEMMA FailsAsking ==
    ASSUME Requesting, UNCHANGED profile, UNCHANGED peers,
           NEW s \in {"closed"} \cup Failures, NEW got, FailsAfter(s, got),
           got["remote"] = sink["remote"]
    PROVE  Requesting'
<1>1. /\ status' # "open" /\ sink' = got
      /\ UNCHANGED <<profile, type, buff, offset, taken, writes, arrived>>
  BY DEF FailsAfter, proxy, peers, Failures
<1> QED
  BY <1>1, SameAsking, WrittenStays DEF Requesting

\* A server that takes everything gets all of the data from the offset on.
LEMMA FastSent ==
    ASSUME Basic, Fast, NEW data \in Seq(Bytes), NEW w, Send(data, w),
           offset["client"] < Len(data)
    PROVE  LET o == offset["client"]
           IN  /\ sink' = [sink EXCEPT !["remote"] = @ \o SubSeq(data, o + 1, Len(data))]
               /\ offset' = [offset EXCEPT !["client"] = Capped(o + Len(data))]
<1> DEFINE o == offset["client"]
           n == Len(data)
<1>1. PICK p \in IF o >= n THEN {o} ELSE {o + k : k \in Accepts("remote", n - o)} :
        /\ sink' = [sink EXCEPT !["remote"] = @ \o SubSeq(data, o + 1, p)]
        /\ offset' = [offset EXCEPT !["client"] = Resumed(o, DesyncReturns(o, n, p))]
  BY DEF Send
<1>2. o \in Nat /\ n \in Nat
  BY Facts, SeqDomain DEF Basic, Ends
<1>3. PICK k \in Accepts("remote", n - o) : p = o + k
  BY <1>1, <1>2
<1>4. n - o \in Nat
  BY <1>2
<1>5. k = n - o
  BY <1>4, AcceptsOf DEF Fast, Ends
<1>6. p = n
  BY <1>2, <1>3, <1>5
<1>7. DesyncReturns(o, n, n) = n
  BY <1>2 DEF DesyncReturns
<1> QED
  BY <1>1, <1>6, <1>7 DEF Resumed

\* After a retry the whole request is sent to the new server.
LEMMA DesyncOutAsking ==
    ASSUME Basic, Controlled, Requesting, UNCHANGED profile, NEW x \in Ends, DesyncOut(x)
    PROVE  Requesting'
<1>1. /\ UNCHANGED peers /\ status = "open" /\ type[x] = "DESYNC" /\ "out" \in report[x]
  BY DEF DesyncOut, Handling
<1>2. Written'
  BY <1>1, WrittenStays DEF Requesting, peers
<1>3. CASE ~Steady
  BY <1>2, <1>3 DEF Requesting, Asking, Steady
<1>4. CASE Steady
  <2>1. x = "remote" /\ type["client"] = "IGNORE" /\ buff["client"] # << >>
    BY <1>1, <1>4, SteadyFast DEF Controlled, Control, Quiet, Ends
  <2>2. Send(buff["client"], WatchAgain(x)) /\ UNCHANGED <<status, buff, taken>>
    BY <2>1 DEF DesyncOut
  <2>3. /\ sink["remote"] = << >> /\ offset["client"] = 0
        /\ Numbered(buff["client"], 0, 0) /\ Len(buff["client"]) = taken["client"]
    BY <1>1, <1>4, <2>1 DEF Requesting, Asking
  <2>4. /\ buff["client"] \in Seq(Bytes) /\ Len(buff["client"]) \in Nat
        /\ Len(buff["client"]) <= BfSize /\ WatchAgain(x) \in Watches
    BY Facts, RoomOf, WatchAgainOf DEF Basic, Ends
  <2>5. 0 < Len(buff["client"])
    BY <2>1, <2>4, SeqDomain
  <2> DEFINE b == buff["client"]
             q == SubSeq(b, 0 + 1, Len(b))
  <2>6. sink' = [sink EXCEPT !["remote"] = @ \o q]
    BY <1>4, <2>2, <2>3, <2>4, <2>5, SteadyFast, FastSent
  <2>7. q \in Seq(Bytes) /\ Len(q) = Len(b) /\ Numbered(q, 0, 0)
    <3>1. 0 \in Nat /\ 0 <= Len(b) /\ Len(b) - 0 = Len(b) /\ 0 + 0 = 0 /\ 0 \in Int
      BY <2>4
    <3>2. q \in Seq(Bytes) /\ Len(q) = Len(b) - 0
      BY <2>4, <3>1, Cut
    <3>3. Numbered(q, 0 + 0, 0)
      BY <2>3, <2>4, <3>1, NumberedCut
    <3> HIDE DEF q
    <3> QED
      BY <3>1, <3>2, <3>3
  <2> HIDE DEF q
  <2>8. sink'["remote"] = << >> \o q
    BY <2>3, <2>6 DEF Basic, TypeOK, Ends
  <2>9. Numbered(<< >> \o q, 0, 0) /\ Len(<< >> \o q) = Len(b)
    <3>1. Numbered(<< >> \o q, 0, 0)
      BY <2>7, EmptySeq, NumberedNothing, NumberedChain
    <3>2. Len(<< >> \o q) = 0 + Len(q)
      BY <2>7, EmptySeq, ConcatOf
    <3> QED
      BY <2>4, <2>7, <3>1, <3>2
  <2>10. type'["remote"] = "PRE_TUNNEL" /\ type'["client"] = "IGNORE"
    BY <1>4, <2>1, <2>2, <2>4, FastSend, SteadyFast
  <2>11. Asking'
    BY <2>2, <2>3, <2>8, <2>9, <2>10 DEF Asking
  <2> QED
    BY <1>2, <2>11 DEF Requesting
<1> QED
  BY <1>3, <1>4

LEMMA DesyncFullAsking ==
    ASSUME Basic, Controlled, Requesting, UNCHANGED profile, NEW x \in Ends, DesyncFull(x)
    PROVE  Requesting'
<1>1. UNCHANGED peers /\ status = "open" /\ type[x] = "DESYNC"
  BY DEF DesyncFull, Handling
<1>2. Written'
  BY <1>1, WrittenStays DEF Requesting, peers
<1>3. CASE ~Steady
  BY <1>2, <1>3 DEF Requesting, Asking, Steady
<1>4. CASE Steady
  <2>1. x = "client"
    BY <1>4, SteadyFast, NoHangup DEF DesyncFull, Ends
  <2>2. type["remote"] # "DESYNC"
    BY <1>1, <1>4, <2>1, SteadyFast DEF Controlled, Control
  <2>3. type'["client"] = "TUNNEL" /\ type'["remote"] = "TUNNEL"
        /\ UNCHANGED <<status, taken, sink>>
    BY DEF DesyncFull, ToTunnel, Ends
  <2>4. Asking'
    BY <1>1, <1>4, <2>2, <2>3 DEF Requesting, Asking
  <2> QED
    BY <1>2, <2>4 DEF Requesting
<1> QED
  BY <1>3, <1>4

LEMMA RetryAsking ==
    ASSUME Basic, Controlled, Requesting, UNCHANGED profile, Retry
    PROVE  Requesting'
<1>1. /\ type["remote"] = "PRE_TUNNEL" /\ status = "open"
      /\ type'["client"] = "IGNORE" /\ type'["remote"] = "DESYNC"
      /\ sink'["remote"] = << >> /\ offset'["client"] = 0
      /\ buff'["client"] = buff["client"] /\ taken'["client"] = taken["client"]
      /\ arrived'["client"] = arrived["client"] /\ UNCHANGED <<status, writes>>
  BY DEF Retry, Checking, Reconnect, Replayed, Basic, TypeOK, Ends
<1>2. Written'
  BY <1>1, WrittenStays DEF Requesting
<1>3. Steady => type["client"] # "TUNNEL"
  BY <1>1, SteadyFast DEF Controlled, Control
<1>4. Asking'
  BY <1>1, <1>3, NumberedNothing DEF Requesting, Asking, Steady
<1> QED
  BY <1>2, <1>4 DEF Requesting

LEMMA AnswerAsking ==
    ASSUME Basic, Requesting, UNCHANGED profile, Answer
    PROVE  Requesting'
<1> DEFINE more == Received("remote", BfSize)
           n == Len(more)
<1>1. UNCHANGED peers /\ type["remote"] = "PRE_TUNNEL" /\ status = "open"
  BY DEF Answer, Checking
<1>2. PICK k \in Accepts("client", n) :
        IF k < n
          THEN FailsAfter("closed", [sink EXCEPT !["client"] = @ \o SubSeq(more, 1, k)])
          ELSE /\ sink' = [sink EXCEPT !["client"] = @ \o more]
               /\ taken' = [taken EXCEPT !["remote"] = @ + n]
               /\ ToTunnel("client")
               /\ UNCHANGED status
  BY DEF Answer
<1> HIDE DEF more
<1>3. CASE k < n
  <2> DEFINE got == [sink EXCEPT !["client"] = @ \o SubSeq(more, 1, k)]
  <2>1. FailsAfter("closed", got)
    BY <1>2, <1>3
  <2>2. got["remote"] = sink["remote"]
    BY DEF Basic, TypeOK, Ends
  <2> HIDE DEF got
  <2> QED
    BY <1>1, <2>1, <2>2, FailsAsking
<1>4. CASE ~(k < n)
  <2>1. /\ sink'["remote"] = sink["remote"] /\ taken'["client"] = taken["client"]
        /\ type'["client"] = "TUNNEL" /\ type'["remote"] = "TUNNEL" /\ UNCHANGED status
    <3>1. /\ sink' = [sink EXCEPT !["client"] = @ \o more]
          /\ taken' = [taken EXCEPT !["remote"] = @ + n]
          /\ ToTunnel("client") /\ UNCHANGED status
      BY <1>2, <1>4
    <3>2. sink'["remote"] = sink["remote"] /\ taken'["client"] = taken["client"]
      BY <3>1 DEF Basic, TypeOK, Ends
    <3>3. type'["client"] = "TUNNEL" /\ type'["remote"] = "TUNNEL"
      BY <3>1 DEF ToTunnel, Ends
    <3> QED
      BY <3>1, <3>2, <3>3
  <2>2. Asking'
    BY <1>1, <2>1 DEF Requesting, Asking, Steady
  <2> QED
    BY <1>1, <2>2, WrittenStays DEF Requesting, peers
<1> QED
  BY <1>3, <1>4

LEMMA IgnoreAsking ==
    ASSUME Requesting, UNCHANGED profile, Ignore
    PROVE  Requesting'
<1>1. UNCHANGED peers
  BY DEF Ignore, Handling
<1>2. CASE Fails("closed")
  BY <1>1, <1>2, FailsAsking DEF Fails
<1>3. CASE ~Fails("closed")
  <2>1. UNCHANGED <<status, type, buff, offset, taken, sink>>
    BY <1>3 DEF Ignore, proxy
  <2> QED
    BY <1>1, <2>1, SameAsking, WrittenStays DEF Requesting, Ignore, Handling, peers
<1> QED
  BY <1>2, <1>3

\* How the offset fits after another part of the request, of n bytes, was sent.
LEMMA NextPlace ==
    ASSUME NEW o \in Nat, NEW n \in Nat \ {0}, NEW t \in Nat, NEW a \in Nat, NEW w \in Nat,
           NEW size \in Nat, NEW all \in Nat,
           o + n <= size, t + n <= a, a <= all, t = o, o < size, t < all,
           t = 0 \/ w >= 2 \/ (w >= 1 /\ t = a),
           a > 0 => w >= 1, w >= 2 => a = all,
           o + n = size \/ t + n = a
    PROVE  \/ o + n = size
           \/ t + n = all
           \/ (IF o + (o + n) > size + 2 THEN size + 2 ELSE o + (o + n)) = o + n
                /\ w >= 1 /\ t + n = a
OBVIOUS

LEMMA DesyncInAsking ==
    ASSUME Writes <= 2, Basic, Controlled, Requesting, UNCHANGED profile, DesyncIn
    PROVE  Requesting'
<1> DEFINE b == buff["client"]
           o == offset["client"]
           t == taken["client"]
           more == Received("client", BfSize - Len(b))
           n == Len(more)
           data == b \o more
<1>1. UNCHANGED peers /\ status = "open" /\ type["client"] = "DESYNC" /\ Len(b) # BfSize
  BY DEF DesyncIn, Handling
<1>2. Written'
  BY <1>1, WrittenStays DEF Requesting, peers
<1>3. CASE Fails("closed")
  BY <1>1, <1>3, FailsAsking DEF Fails
<1>4. CASE ~Steady
  BY <1>2, <1>4 DEF Requesting, Asking, Steady
<1>5. CASE Steady /\ ~Fails("closed")
  <2>1. /\ more # << >> /\ Send(data, watch)
        /\ buff' = [buff EXCEPT !["client"] = data]
        /\ taken' = [taken EXCEPT !["client"] = @ + n]
        /\ UNCHANGED status
    BY <1>5 DEF DesyncIn
  <2>2. /\ b \in Seq(Bytes) /\ Len(b) \in Nat /\ o \in Nat /\ t \in Nat
        /\ arrived["client"] \in Nat /\ t <= arrived["client"] /\ Len(b) <= BfSize
        /\ BfSize \in Nat /\ ReqLen \in Nat /\ writes \in Nat
    BY Facts, RoomOf DEF Basic, Ends
  <2>3. BfSize - Len(b) \in Nat
    BY <2>2
  <2>4. /\ more \in Seq(Bytes) /\ n \in Nat /\ n <= BfSize - Len(b)
        /\ t + n <= arrived["client"]
        /\ \A i \in 1 .. n : more[i] = Byte("client", t + i)
    BY <2>3, ReceivedOf DEF Basic, Ends
  <2>5. n = BfSize - Len(b) \/ t + n = arrived["client"]
    <3> DEFINE limit == BfSize - Len(b)
               m == IF Unread("client") < limit THEN Unread("client") ELSE limit
    <3>1. m \in Nat
      BY <2>2, <2>3 DEF Unread
    <3>2. n = m
      <4>1. more = [i \in 1 .. m |-> Byte("client", taken["client"] + i)]
        BY DEF Received
      <4>2. DOMAIN more = 1 .. m
        BY <4>1
      <4> HIDE DEF more, m
      <4>3. DOMAIN more = 1 .. n /\ n \in Nat
        BY <2>4, SeqDomain
      <4> QED
        BY <3>1, <4>2, <4>3
    <3> HIDE DEF more
    <3>3. Unread("client") = arrived["client"] - t
      BY DEF Unread
    <3> QED
      BY <2>2, <3>2, <3>3
  <2> HIDE DEF more
  <2>6. n # 0
    BY <2>1, <2>4, SeqDomain
  <2>7. /\ Numbered(sink["remote"], 0, 0) /\ Numbered(b, 0, 0) /\ Len(b) = t
        /\ type["remote"] # "DESYNC" /\ Len(sink["remote"]) = t
        /\ Placed
    BY <1>1, <1>5, SteadyFast DEF Requesting, Asking, Controlled, Control
  <2>8. t < ReqLen
    BY <2>2, <2>4, <2>6 DEF Requesting, Written
  <2>9. o = t /\ (t = 0 \/ writes >= 2 \/ (writes >= 1 /\ t = arrived["client"]))
    BY <1>1, <2>2, <2>7, <2>8 DEF Placed
  <2>10. /\ data \in Seq(Bytes) /\ Len(data) = t + n
         /\ Numbered(more, t, 0) /\ Numbered(data, 0, 0)
    <3>1. DOMAIN more = 1 .. n
      BY <2>4, SeqDomain
    <3>2. Numbered(more, t, 0)
      BY <2>4, <3>1 DEF Numbered, Byte
    <3> HIDE DEF t, b
    <3>3. b \in Seq(Bytes) /\ more \in Seq(Bytes) /\ Len(b) = t
      BY <2>2, <2>4, <2>7
    <3>4. data \in Seq(Bytes) /\ Len(data) = t + n
      BY <3>3, ConcatOf
    <3>5. Numbered(data, 0, 0)
      BY <2>7, <3>2, <3>3, NumberedChain
    <3> QED
      BY <3>2, <3>4, <3>5
  <2> DEFINE q == SubSeq(data, o + 1, Len(data))
  <2>11. /\ sink' = [sink EXCEPT !["remote"] = @ \o q]
         /\ offset' = [offset EXCEPT !["client"] = Capped(o + Len(data))]
    <3>1. o < Len(data)
      BY <2>2, <2>4, <2>6, <2>9, <2>10
    <3> HIDE DEF data, b
    <3> QED
      BY <1>5, <2>1, <2>10, <3>1, SteadyFast, FastSent DEF Basic, TypeOK, Watches
  <2>12. q \in Seq(Bytes) /\ Len(q) = n /\ Numbered(q, t, 0)
    <3> HIDE DEF data, o, t
    <3>1. o \in Nat /\ o <= Len(data) /\ Len(data) - o = n /\ 0 + o = t /\ 0 \in Int
      <4>1. o \in Nat /\ n \in Nat /\ o = t /\ Len(data) = t + n
        BY <2>2, <2>4, <2>9, <2>10
      <4> QED
        BY <4>1
    <3>2. q \in Seq(Bytes) /\ Len(q) = Len(data) - o
      BY <2>10, <3>1, Cut
    <3>3. Numbered(q, 0 + o, 0)
      BY <2>10, <3>1, NumberedCut
    <3> HIDE DEF q
    <3> QED
      BY <3>1, <3>2, <3>3
  <2> HIDE DEF data, q
  <2>13. /\ sink'["remote"] = sink["remote"] \o q
         /\ buff'["client"] = data /\ taken'["client"] = t + n
         /\ offset'["client"] = Capped(o + Len(data))
    BY <2>1, <2>2, <2>4, <2>11 DEF Basic, TypeOK, Ends
  <2>14. Numbered(sink["remote"] \o q, 0, 0) /\ Len(sink["remote"] \o q) = t + n
    <3> DEFINE s == sink["remote"]
    <3>1. s \in Seq(Bytes) /\ Numbered(s, 0, 0) /\ Len(s) = t
      BY <2>7, Facts DEF Basic, Ends
    <3> HIDE DEF s, t
    <3>2. Numbered(s \o q, 0, 0)
      BY <2>12, <3>1, NumberedChain
    <3>3. Len(s \o q) = Len(s) + Len(q)
      BY <2>12, <3>1, ConcatOf
    <3> QED
      BY <2>12, <3>1, <3>2, <3>3 DEF s
  <2>15. type'["remote"] = "PRE_TUNNEL" /\ type'["client"] = "DESYNC"
    <3>1. Len(data) <= BfSize
      BY <2>2, <2>4, <2>7, <2>10
    <3> QED
      BY <1>1, <1>5, <2>1, <2>10, <3>1, FastSend, SteadyFast DEF Basic, TypeOK, Watches
  <2>16. Placed'
    <3>1. writes >= 2 => arrived["client"] = ReqLen
      BY <2>2, LengthAssumption DEF Basic, Counts, Requesting, Written
    <3>2. arrived["client"] <= ReqLen /\ (arrived["client"] > 0 => writes >= 1)
      BY DEF Requesting, Written
    <3>3. Len(data) = o + n /\ o < BfSize
      BY <1>1, <2>2, <2>7, <2>9, <2>10
    <3>4. \/ o + n = BfSize
          \/ t + n = ReqLen
          \/ (IF o + (o + n) > BfSize + 2 THEN BfSize + 2 ELSE o + (o + n)) = o + n
               /\ writes >= 1 /\ t + n = arrived["client"]
      <4>1. n \in Nat \ {0} /\ o + n <= BfSize /\ (o + n = BfSize \/ t + n = arrived["client"])
        BY <2>2, <2>4, <2>5, <2>6, <2>7, <2>9
      <4> QED
        BY <2>2, <2>4, <2>8, <2>9, <3>1, <3>2, <3>3, <4>1, NextPlace
    <3>5. writes' = writes /\ arrived' = arrived
      BY <1>1 DEF peers
    <3> QED
      BY <2>13, <3>3, <3>4, <3>5 DEF Placed, Capped, Far
  <2>17. Asking'
    BY <2>1, <2>10, <2>13, <2>14, <2>15, <2>16 DEF Asking
  <2> QED
    BY <1>2, <2>17 DEF Requesting
<1> QED
  BY <1>3, <1>4, <1>5

LEMMA DesyncInRemoteAsking ==
    ASSUME Controlled, Requesting, UNCHANGED profile, DesyncInRemote
    PROVE  Requesting'
<1>1. Written'
  BY WrittenStays DEF Requesting, DesyncInRemote, Handling, peers
<1>2. CASE ~Steady
  BY <1>1, <1>2 DEF Requesting, Asking, Steady
<1>3. CASE Steady
  BY <1>3, SteadyFast, NoHangup DEF DesyncInRemote
<1> QED
  BY <1>2, <1>3

LEMMA TunnelStuckAsking ==
    ASSUME Basic, Controlled, Requesting, UNCHANGED profile, NEW x \in Ends, TunnelStuck(x)
    PROVE  Requesting'
<1> DEFINE v == Source(x)
           p == Peer(v)
           P == Pending(v)
<1>1. UNCHANGED peers
  BY DEF TunnelStuck, Handling
<1>2. Written'
  BY <1>1, WrittenStays DEF Requesting, peers
<1>3. CASE Fails("closed")
  BY <1>1, <1>3, FailsAsking DEF Fails
<1>4. CASE ~Steady
  BY <1>2, <1>4 DEF Requesting, Asking, Steady
<1>5. CASE Steady /\ ~Fails("closed")
  <2>1. v \in Ends /\ p \in Ends /\ p # v
    BY SourceOf
  <2>2. P \in Seq(Bytes) /\ Len(P) \in Nat /\ (buff[v] = << >> => P = << >>)
    BY <2>1, PendingOf DEF Basic
  <2>3. Len(P) > 0 /\ status = "open"
    BY DEF TunnelStuck, Handling
  <2>4. PICK k \in Accepts(p, Len(P)) \ {Len(P)} :
          /\ sink' = [sink EXCEPT ![p] = @ \o SubSeq(P, 1, k)]
          /\ offset' = [offset EXCEPT ![v] = @ + k]
          /\ UNCHANGED <<status, type, buff, taken>>
    BY <1>5 DEF TunnelStuck
  <2>5. v = "remote"
    <3>1. v = "remote" \/ buff["client"] = << >>
      BY <1>5, SteadyFast, FastSource DEF TunnelStuck
    <3> QED
      BY <2>1, <2>2, <2>3, <3>1, EmptySeq DEF Ends
  <2> HIDE DEF v, P
  <2>6. sink'["remote"] = sink["remote"] /\ offset'["client"] = offset["client"]
    BY <2>1, <2>4, <2>5 DEF Basic, TypeOK, Ends
  <2>7. Asking'
    BY <1>1, <2>3, <2>4, <2>6, SameAsking DEF Requesting, peers
  <2> QED
    BY <1>2, <2>7 DEF Requesting
<1> QED
  BY <1>3, <1>4, <1>5

LEMMA TunnelAsking ==
    ASSUME Basic, Controlled, Requesting, UNCHANGED profile, NEW x \in Ends, Tunnel(x)
    PROVE  Requesting'
<1> DEFINE v == Source(x)
           p == Peer(v)
           more == Received(v, BfSize)
           n == Len(more)
           P == Pending(v)
           s == sink["remote"]
<1>1. /\ UNCHANGED peers
      /\ \/ FailsAfter("closed", [sink EXCEPT ![p] = @ \o P])
         \/ \E k \in Accepts(p, n) :
              /\ sink' = [sink EXCEPT ![p] = (@ \o P) \o SubSeq(more, 1, k)]
              /\ taken' = [taken EXCEPT ![v] = @ + n]
              /\ buff' = [buff EXCEPT ![v] = SubSeq(more, k + 1, n)]
              /\ offset' = [offset EXCEPT ![v] = 0]
              /\ UNCHANGED <<status, type>>
  BY TunnelOf
<1>2. Written'
  BY <1>1, WrittenStays DEF Requesting, peers
<1>3. CASE ~Steady
  BY <1>2, <1>3 DEF Requesting, Asking, Steady
<1>4. CASE Steady
  <2>1. v \in Ends /\ p \in Ends /\ p # v
    BY SourceOf
  <2>2. status = "open" /\ Fast
    BY <1>4, SteadyFast DEF Tunnel, Handling
  <2>3. /\ v = "remote" \/ (v = "client" /\ buff["client"] = << >>)
        /\ v = "client" => type["client"] = "TUNNEL"
        /\ type["remote"] = "TUNNEL"
    BY <2>2, FastSource DEF Tunnel
  <2>4. /\ more \in Seq(Bytes) /\ n \in Nat
        /\ \A i \in 1 .. n : more[i] = Byte(v, taken[v] + i)
    BY <2>1, ReceivedOf, LengthAssumption DEF Basic
  <2>5. P \in Seq(Bytes) /\ (buff[v] = << >> => P = << >>)
    BY <2>1, PendingOf DEF Basic
  <2>6. /\ s \in Seq(Bytes) /\ taken["client"] \in Nat
        /\ Numbered(s, 0, 0) /\ Len(s) = taken["client"]
    BY <1>4, <2>2, <2>3, Facts DEF Requesting, Asking, Basic, Ends
  <2>7. s \o << >> = s
    BY <2>6
  <2> HIDE DEF v, more, P
  <2>8. CASE FailsAfter("closed", [sink EXCEPT ![p] = @ \o P])
    <3> DEFINE got == [sink EXCEPT ![p] = @ \o P]
    <3>1. got["remote"] = sink["remote"]
      BY <2>1, <2>3, <2>5, <2>7 DEF Basic, TypeOK, Ends
    <3>2. FailsAfter("closed", got)
      BY <2>8
    <3> HIDE DEF got
    <3> QED
      BY <1>1, <3>1, <3>2, FailsAsking
  <2>9. ASSUME NEW k \in Accepts(p, n),
               sink' = [sink EXCEPT ![p] = (@ \o P) \o SubSeq(more, 1, k)],
               taken' = [taken EXCEPT ![v] = @ + n],
               buff' = [buff EXCEPT ![v] = SubSeq(more, k + 1, n)],
               offset' = [offset EXCEPT ![v] = 0],
               UNCHANGED <<status, type>>
        PROVE  Asking'
    <3>1. CASE v = "remote"
      <4>1. /\ sink'["remote"] = sink["remote"] /\ offset'["client"] = offset["client"]
            /\ taken'["client"] = taken["client"] /\ buff'["client"] = buff["client"]
        BY <2>1, <2>9, <3>1 DEF Basic, TypeOK, Ends
      <4>2. UNCHANGED <<profile, status, type, writes, arrived>>
        BY <1>1, <2>9 DEF peers
      <4> QED
        BY <4>1, <4>2 DEF Requesting, Asking, Placed, Steady
    <3>2. CASE v = "client"
      <4> DEFINE t == taken["client"]
                 q == SubSeq(more, 1, k)
      <4>1. p = "remote"
        BY <2>1, <3>2 DEF Ends
      <4>2. k = n
        BY <2>1, <2>2, <2>4, <2>9, <4>1, AcceptsOf DEF Fast
      <4>3. sink'["remote"] = (s \o P) \o q /\ taken'["client"] = t + n
        BY <2>9, <3>2, <4>1 DEF Basic, TypeOK, Ends
      <4>4. P = << >>
        BY <2>3, <2>5, <3>2
      <4>5. sink'["remote"] = s \o q
        BY <2>7, <4>3, <4>4
      <4>6. Numbered(more, t, 0)
        <5>1. DOMAIN more = 1 .. n
          BY <2>4, SeqDomain
        <5> QED
          BY <2>4, <3>2, <5>1 DEF Numbered, Byte
      <4>7. q \in Seq(Bytes) /\ Len(q) = n /\ Numbered(q, t, 0)
        <5>1. n \in Nat /\ n <= Len(more) /\ t \in Int
          BY <2>4, <2>6
        <5> HIDE DEF t
        <5> QED
          BY <2>4, <4>2, <4>6, <5>1, Cut, NumberedCut
      <4> HIDE DEF q
      <4>8. Numbered(s \o q, 0, 0)
        BY <2>6, <4>7, NumberedChain
      <4>9. Len(s \o q) = t + n
        BY <2>6, <4>7, ConcatOf
      <4>10. type'["client"] = "TUNNEL" /\ type'["remote"] = "TUNNEL"
        BY <2>3, <2>9, <3>2
      <4> QED
        BY <4>3, <4>5, <4>8, <4>9, <4>10 DEF Asking
    <3> QED
      BY <2>1, <3>1, <3>2 DEF Ends
  <2> QED
    BY <1>1, <1>2, <2>8, <2>9 DEF Requesting
<1> QED
  BY <1>3, <1>4

LEMMA NextRequesting ==
    ASSUME Writes <= 2, Basic, Inside, Controlled, Requesting, [Next]_vars
    PROVE  Requesting'
<1>1. CASE UNCHANGED vars
  BY <1>1 DEF vars, proxy, peers, Requesting, Written, Asking, Placed, Steady
<1>2. CASE Next
  <2>1. UNCHANGED profile
    BY <1>2 DEF Next
  <2>2. CASE PeerStep
    BY <2>1, <2>2, ClientWrote
  <2>3. CASE Poll \/ Ended
    BY <2>1, <2>3 DEF Poll, Ended, proxy, peers, Requesting, Written, Asking, Placed, Steady
  <2>4. CASE \E x \in Ends : DesyncOut(x) \/ DesyncFull(x) \/ TunnelStuck(x) \/ Tunnel(x)
    BY <2>1, <2>4, DesyncOutAsking, DesyncFullAsking, TunnelStuckAsking, TunnelAsking
  <2>5. CASE DesyncIn \/ DesyncInRemote \/ Retry \/ Answer \/ Ignore
    BY <2>1, <2>5, DesyncInAsking, DesyncInRemoteAsking, RetryAsking, AnswerAsking,
       IgnoreAsking
  <2>6. CASE (\E x \in Ends : Error(x)) \/ CheckOut \/ NoAnswer
    <3>1. UNCHANGED peers /\ \E s \in {"closed"} \cup Failures : Fails(s)
      BY <2>6 DEF Error, CheckOut, NoAnswer, Failures
    <3> QED
      BY <2>1, <3>1, FailsAsking DEF Fails
  <2>7. CASE \E x \in Ends : TunnelStray(x)
    <3>1. ~Steady
      BY <2>7, SteadyFast, NoStray
    <3>2. Written'
      BY <2>7, WrittenStays DEF Requesting, TunnelStray, Handling, peers
    <3> QED
      BY <2>1, <3>1, <3>2 DEF Requesting, Asking, Steady
  <2> QED
    BY <1>2, <2>2, <2>3, <2>4, <2>5, <2>6, <2>7 DEF Next, HandlerStep
<1> QED
  BY <1>1, <1>2

LEMMA RequestInvariant ==
    ASSUME Writes <= 2
    PROVE  Spec => []Requesting
<1>1. Basic /\ Inside /\ Controlled /\ Requesting /\ [Next]_vars => Requesting'
  BY NextRequesting
<1> QED
  BY BasicInvariant, InsideInvariant, ControlInvariant, InitRequesting, <1>1, PTL DEF Spec

\* A request that comes in at most two calls reaches the server of each attempt
\* from its first byte on and without a gap, however long it is, wherever it is
\* split and however often it is sent again.
THEOREM RequestStaysIntact ==
    ASSUME Writes <= 2
    PROVE  Spec => []RequestIntact
<1>1. Basic /\ Requesting => RequestIntact
  <2> SUFFICES ASSUME Basic, Requesting, Steady, NEW i \in DOMAIN sink["remote"]
               PROVE  sink["remote"][i] = <<0, i>>
    BY DEF RequestIntact
  <2>1. sink["remote"] \in Seq(Bytes)
    BY Facts DEF Basic, Ends
  <2>2. i \in Nat
    BY <2>1, SeqDomain
  <2>3. sink["remote"][i] = <<0, 0 + i>>
    BY DEF Requesting, Asking, Numbered
  <2> QED
    BY <2>2, <2>3
<1> QED
  BY BasicInvariant, RequestInvariant, <1>1, PTL

\* A server is judged by its answer to the whole of what the client has sent.
THEOREM AnswersAreToAll ==
    ASSUME Writes <= 2
    PROVE  Spec => []AskedInFull
<1>1. Basic /\ Controlled /\ Requesting => AskedInFull
  <2> SUFFICES ASSUME Basic, Controlled, Requesting, Steady, status = "open",
                      type["remote"] = "PRE_TUNNEL"
               PROVE  sink["remote"] = buff["client"]
    BY DEF AskedInFull
  <2> DEFINE s == sink["remote"]
             b == buff["client"]
  <2>1. s \in Seq(Bytes) /\ b \in Seq(Bytes)
    BY Facts DEF Basic, Ends
  <2>2. type["client"] # "TUNNEL"
    BY SteadyFast DEF Controlled, Control
  <2>3. /\ Numbered(s, 0, 0) /\ Numbered(b, 0, 0)
        /\ Len(s) = taken["client"] /\ Len(b) = taken["client"]
    BY <2>2 DEF Requesting, Asking
  <2> HIDE DEF s, b
  <2>4. DOMAIN s = 1 .. Len(s) /\ DOMAIN b = 1 .. Len(s)
    BY <2>1, <2>3, SeqDomain
  <2>5. \A i \in 1 .. Len(s) : s[i] = b[i]
    BY <2>3, <2>4 DEF Numbered
  <2>6. s = b
    BY <2>1, <2>3, <2>5, SeqEqual
  <2> QED
    BY <2>6 DEF s, b
<1> QED
  BY BasicInvariant, ControlInvariant, RequestInvariant, <1>1, PTL

=============================================================================
