---------------------------- MODULE Desync_proofs ----------------------------
(***************************************************************************)
(* Proofs about Desync for any request, any options and a buffer of any     *)
(* size: type correctness, room in the buffer, that what is sent is the     *)
(* buffer from its start, and that the records of TLS join to the request.  *)
(***************************************************************************)
EXTENDS Desync, TLAPS

-----------------------------------------------------------------------------
(* Options and positions                                                   *)

LEMMA ListIsSeq ==
    ASSUME NEW S, NEW max \in Nat, NEW l \in Lists(S, max)
    PROVE  l \in Seq(S)
BY DEF Lists

LEMMA ElementOf ==
    ASSUME NEW S, NEW s \in Seq(S), NEW k \in 1 .. Len(s)
    PROVE  s[k] \in S
OBVIOUS

LEMMA PositionTypes ==
    ASSUME TypeOK
    PROVE  /\ \A part \in PartOptions : Position(part) \in Int
           /\ \A part \in RecOptions : RecPosition(part) \in Int
<1>1. n \in Nat /\ req.host \in Nat /\ i \in Nat
  <2>1. buffer \in Seq(Cells) /\ req \in Requests /\ i \in Nat
    BY DEF TypeOK
  <2>2. req.host \in Hosts
    BY <2>1 DEF Requests
  <2>3. n \in Nat
    BY <2>1 DEF n
  <2>4. req.host \in Nat
    BY <2>2, SizesAssumption
  <2> QED
    BY <2>1, <2>3, <2>4
<1>2. \A x \in RecPositions \cup PartPositions \cup Negative : x \in Int
  <2>1. ASSUME NEW x \in RecPositions \cup PartPositions PROVE x \in Int
    BY <2>1, OptionsAssumption
  <2>2. ASSUME NEW x \in Negative PROVE x \in Int
    <3>1. PICK p \in FromEnd : x = -p
      BY <2>2 DEF Negative
    <3>2. p \in Nat
      BY <3>1, OptionsAssumption
    <3> QED
      BY <3>1, <3>2
  <2> QED
    BY <2>1, <2>2
<1>3. ASSUME NEW part \in PartOptions PROVE Position(part) \in Int
  <2>1. part.pos \in Int /\ part.flag \in {"none", "sni", "host", "end"}
    BY <1>2 DEF PartOptions
  <2>2. CASE part.flag \in {"sni", "host"}
    BY <1>1, <2>1, <2>2 DEF Position
  <2>3. CASE part.flag = "end"
    BY <1>1, <2>1, <2>3 DEF Position
  <2>4. CASE part.flag = "none"
    BY <1>1, <2>1, <2>4 DEF Position
  <2> QED
    BY <2>1, <2>2, <2>3, <2>4
<1>4. ASSUME NEW part \in RecOptions PROVE RecPosition(part) \in Int
  <2>1. part.pos \in Int
    BY <1>2 DEF RecOptions
  <2> QED
    BY <1>1, <2>1 DEF RecPosition
<1> QED
  BY <1>3, <1>4

-----------------------------------------------------------------------------
(* The buffer                                                              *)

LEMMA SubSeqOf ==
    ASSUME NEW S, NEW s \in Seq(S), NEW a \in Nat \ {0}, NEW b \in Nat,
           a <= b + 1, b <= Len(s)
    PROVE  SubSeq(s, a, b) \in Seq(S) /\ Len(SubSeq(s, a, b)) = b - a + 1
OBVIOUS

LEMMA ConcatOf ==
    ASSUME NEW S, NEW s \in Seq(S), NEW t \in Seq(S)
    PROVE  s \o t \in Seq(S) /\ Len(s \o t) = Len(s) + Len(t)
OBVIOUS

LEMMA ConcatLow ==
    ASSUME NEW S, NEW s \in Seq(S), NEW t \in Seq(S), NEW k \in 1 .. Len(s)
    PROVE  (s \o t)[k] = s[k]
OBVIOUS

LEMMA ConcatHigh ==
    ASSUME NEW S, NEW s \in Seq(S), NEW t \in Seq(S), NEW k \in 1 .. Len(t)
    PROVE  (s \o t)[Len(s) + k] = t[k]
OBVIOUS

LEMMA ConcatAt ==
    ASSUME NEW S, NEW s \in Seq(S), NEW t \in Seq(S)
    PROVE  /\ \A k \in 1 .. Len(s) : (s \o t)[k] = s[k]
           /\ \A k \in 1 .. Len(t) : (s \o t)[Len(s) + k] = t[k]
BY ConcatLow, ConcatHigh

LEMMA SubSeqAt ==
    ASSUME NEW S, NEW s \in Seq(S), NEW a \in Nat \ {0}, NEW b \in Nat,
           a <= b + 1, b <= Len(s), NEW k \in 1 .. b - a + 1
    PROVE  SubSeq(s, a, b)[k] = s[a + k - 1]
OBVIOUS

LEMMA SizedOf ==
    ASSUME NEW s \in Nat
    PROVE  /\ Sized(s) \in Seq(Cells) /\ Len(Sized(s)) = 2
           /\ Sized(s)[1] = <<"size", s>> /\ Sized(s)[2] = <<"low", 0>>
BY DEF Sized, Cells

\* part_tls() adds five bytes, the size of a header: a new length for the record
\* at lp, and a copy of its header after pos + 5 bytes.
LEMMA DividedOf ==
    ASSUME TypeOK, NEW pos \in Nat, NEW size \in Nat,
           lp <= pos, pos + 5 <= n, pos - lp <= size
    PROVE  LET d == Divided(pos, size)
           IN  /\ d \in Seq(Cells) /\ Len(d) = n + 5
               /\ \A k \in 1 .. lp + 3 : d[k] = buffer[k]
               /\ d[lp + 4] = <<"size", pos - lp>> /\ d[lp + 5] = <<"low", 0>>
               /\ \A k \in lp + 6 .. pos + 5 : d[k] = buffer[k]
               /\ \A k \in 1 .. 3 : d[pos + 5 + k] = buffer[lp + k]
               /\ d[pos + 9] = <<"size", size - (pos - lp)>>
               /\ d[pos + 10] = <<"low", 0>>
               /\ \A k \in pos + 6 .. n : d[k + 5] = buffer[k]
<1>1. buffer \in Seq(Cells) /\ n = Len(buffer) /\ n \in Nat /\ lp \in Nat
  BY DEF TypeOK, n
<1> DEFINE s1 == SubSeq(buffer, 1, lp + 3)
           s2 == Sized(pos - lp)
           s3 == SubSeq(buffer, lp + 6, pos + 5)
           s4 == SubSeq(buffer, lp + 1, lp + 3)
           s5 == Sized(size - (pos - lp))
           s6 == SubSeq(buffer, pos + 6, n)
<1>2. s1 \in Seq(Cells) /\ Len(s1) = lp + 3
  BY <1>1, SubSeqOf
<1>3. s2 \in Seq(Cells) /\ Len(s2) = 2
  BY <1>1, SizedOf
<1>4. s3 \in Seq(Cells) /\ Len(s3) = pos - lp
  BY <1>1, SubSeqOf
<1>5. s4 \in Seq(Cells) /\ Len(s4) = 3
  BY <1>1, SubSeqOf
<1>6. s5 \in Seq(Cells) /\ Len(s5) = 2
  BY <1>1, SizedOf
<1>7. s6 \in Seq(Cells) /\ Len(s6) = n - pos - 5
  BY <1>1, SubSeqOf
<1> HIDE DEF s1, s2, s3, s4, s5, s6
<1> DEFINE c2 == s1 \o s2
           c3 == c2 \o s3
           c4 == c3 \o s4
           c5 == c4 \o s5
           c6 == c5 \o s6
<1>8. c2 \in Seq(Cells) /\ Len(c2) = lp + 5
  <2>1. c2 \in Seq(Cells) /\ Len(c2) = (lp + 3) + 2
    BY <1>1, <1>2, <1>3, ConcatOf
  <2>2. (lp + 3) + 2 = lp + 5
    BY <1>1
  <2> QED
    BY <2>1, <2>2
<1> HIDE DEF c2
<1>9. c3 \in Seq(Cells) /\ Len(c3) = pos + 5
  <2>1. c3 \in Seq(Cells) /\ Len(c3) = (lp + 5) + (pos - lp)
    BY <1>1, <1>4, <1>8, ConcatOf
  <2>2. (lp + 5) + (pos - lp) = pos + 5
    BY <1>1
  <2> QED
    BY <2>1, <2>2
<1> HIDE DEF c3
<1>10. c4 \in Seq(Cells) /\ Len(c4) = pos + 8
  <2>1. c4 \in Seq(Cells) /\ Len(c4) = (pos + 5) + 3
    BY <1>1, <1>5, <1>9, ConcatOf
  <2>2. (pos + 5) + 3 = pos + 8
    BY <1>1
  <2> QED
    BY <2>1, <2>2
<1> HIDE DEF c4
<1>11. c5 \in Seq(Cells) /\ Len(c5) = pos + 10
  <2>1. c5 \in Seq(Cells) /\ Len(c5) = (pos + 8) + 2
    BY <1>1, <1>6, <1>10, ConcatOf
  <2>2. (pos + 8) + 2 = pos + 10
    BY <1>1
  <2> QED
    BY <2>1, <2>2
<1> HIDE DEF c5
<1>12. c6 \in Seq(Cells) /\ Len(c6) = n + 5
  <2>1. c6 \in Seq(Cells) /\ Len(c6) = (pos + 10) + (n - pos - 5)
    BY <1>1, <1>7, <1>11, ConcatOf
  <2>2. (pos + 10) + (n - pos - 5) = n + 5
    BY <1>1
  <2> QED
    BY <2>1, <2>2
<1> HIDE DEF c6
<1>13. Divided(pos, size) = c6
  BY DEF Divided, s1, s2, s3, s4, s5, s6, c2, c3, c4, c5, c6
<1> HIDE DEF c6
<1>14. /\ \A k \in 1 .. pos + 10 : c6[k] = c5[k]
       /\ \A k \in 1 .. Len(s6) : c6[(pos + 10) + k] = s6[k]
  <2>1. c5 \in Seq(Cells) /\ s6 \in Seq(Cells) /\ Len(c5) = pos + 10
    BY <1>11, <1>7
  <2>2. /\ \A k \in 1 .. Len(c5) : (c5 \o s6)[k] = c5[k]
        /\ \A k \in 1 .. Len(s6) : (c5 \o s6)[Len(c5) + k] = s6[k]
    BY <2>1, ConcatAt
  <2> QED
    BY <2>1, <2>2 DEF c6
<1>15. /\ \A k \in 1 .. pos + 8 : c5[k] = c4[k]
       /\ \A k \in 1 .. Len(s5) : c5[(pos + 8) + k] = s5[k]
  <2>1. c4 \in Seq(Cells) /\ s5 \in Seq(Cells) /\ Len(c4) = pos + 8
    BY <1>10, <1>6
  <2>2. /\ \A k \in 1 .. Len(c4) : (c4 \o s5)[k] = c4[k]
        /\ \A k \in 1 .. Len(s5) : (c4 \o s5)[Len(c4) + k] = s5[k]
    BY <2>1, ConcatAt
  <2> QED
    BY <2>1, <2>2 DEF c5
<1>16. /\ \A k \in 1 .. pos + 5 : c4[k] = c3[k]
       /\ \A k \in 1 .. Len(s4) : c4[(pos + 5) + k] = s4[k]
  <2>1. c3 \in Seq(Cells) /\ s4 \in Seq(Cells) /\ Len(c3) = pos + 5
    BY <1>9, <1>5
  <2>2. /\ \A k \in 1 .. Len(c3) : (c3 \o s4)[k] = c3[k]
        /\ \A k \in 1 .. Len(s4) : (c3 \o s4)[Len(c3) + k] = s4[k]
    BY <2>1, ConcatAt
  <2> QED
    BY <2>1, <2>2 DEF c4
<1>17. /\ \A k \in 1 .. lp + 5 : c3[k] = c2[k]
       /\ \A k \in 1 .. Len(s3) : c3[(lp + 5) + k] = s3[k]
  <2>1. c2 \in Seq(Cells) /\ s3 \in Seq(Cells) /\ Len(c2) = lp + 5
    BY <1>8, <1>4
  <2>2. /\ \A k \in 1 .. Len(c2) : (c2 \o s3)[k] = c2[k]
        /\ \A k \in 1 .. Len(s3) : (c2 \o s3)[Len(c2) + k] = s3[k]
    BY <2>1, ConcatAt
  <2> QED
    BY <2>1, <2>2 DEF c3
<1>18. /\ \A k \in 1 .. lp + 3 : c2[k] = s1[k]
       /\ \A k \in 1 .. Len(s2) : c2[(lp + 3) + k] = s2[k]
  <2>1. s1 \in Seq(Cells) /\ s2 \in Seq(Cells) /\ Len(s1) = lp + 3
    BY <1>2, <1>3
  <2>2. /\ \A k \in 1 .. Len(s1) : (s1 \o s2)[k] = s1[k]
        /\ \A k \in 1 .. Len(s2) : (s1 \o s2)[Len(s1) + k] = s2[k]
    BY <2>1, ConcatAt
  <2> QED
    BY <2>1, <2>2 DEF c2
<1>19. /\ \A k \in 1 .. lp + 3 : s1[k] = buffer[k]
       /\ \A k \in 1 .. pos - lp : s3[k] = buffer[(lp + 5) + k]
       /\ \A k \in 1 .. Len(s4) : s4[k] = buffer[lp + k]
       /\ \A k \in 1 .. n - pos - 5 : s6[k] = buffer[(pos + 5) + k]
  BY <1>1, <1>5, SubSeqAt DEF s1, s3, s4, s6
<1>20. /\ s2[1] = <<"size", pos - lp>> /\ s2[2] = <<"low", 0>>
       /\ s5[1] = <<"size", size - (pos - lp)>> /\ s5[2] = <<"low", 0>>
  <2>1. pos - lp \in Nat /\ size - (pos - lp) \in Nat
    BY <1>1
  <2> QED
    BY <2>1, SizedOf DEF s2, s5
<1>21. ASSUME NEW k \in 1 .. lp + 5 PROVE c6[k] = c2[k]
  BY <1>1, <1>14, <1>15, <1>16, <1>17
<1>22. ASSUME NEW k \in 1 .. lp + 3 PROVE c6[k] = buffer[k]
  BY <1>1, <1>18, <1>19, <1>21
<1>23. c6[lp + 4] = <<"size", pos - lp>> /\ c6[lp + 5] = <<"low", 0>>
  <2>1. c2[(lp + 3) + 1] = s2[1] /\ c2[(lp + 3) + 2] = s2[2]
    BY <1>3, <1>18
  <2>2. (lp + 3) + 1 = lp + 4 /\ (lp + 3) + 2 = lp + 5
    BY <1>1
  <2>3. lp + 4 \in 1 .. lp + 5 /\ lp + 5 \in 1 .. lp + 5
    BY <1>1
  <2> QED
    BY <2>1, <2>2, <2>3, <1>20, <1>21
<1>24. ASSUME NEW k \in lp + 6 .. pos + 5 PROVE c6[k] = buffer[k]
  <2>1. k - (lp + 5) \in 1 .. pos - lp /\ k = (lp + 5) + (k - (lp + 5))
    BY <1>1
  <2>2. c3[k] = buffer[k]
    BY <1>4, <1>17, <1>19, <2>1
  <2>3. k \in 1 .. pos + 5 /\ k \in 1 .. pos + 8 /\ k \in 1 .. pos + 10
    BY <1>1
  <2> QED
    BY <1>14, <1>15, <1>16, <2>2, <2>3
<1>25. ASSUME NEW k \in 1 .. 3 PROVE c6[pos + 5 + k] = buffer[lp + k]
  <2>1. k \in 1 .. Len(s4)
    BY <1>5
  <2>2. c4[(pos + 5) + k] = buffer[lp + k]
    BY <1>16, <1>19, <2>1
  <2>3. (pos + 5) + k \in 1 .. pos + 8 /\ (pos + 5) + k \in 1 .. pos + 10
    BY <1>1
  <2> QED
    BY <1>14, <1>15, <2>2, <2>3
<1>26. c6[pos + 9] = <<"size", size - (pos - lp)>> /\ c6[pos + 10] = <<"low", 0>>
  <2>1. c5[(pos + 8) + 1] = s5[1] /\ c5[(pos + 8) + 2] = s5[2]
    BY <1>6, <1>15
  <2>2. (pos + 8) + 1 = pos + 9 /\ (pos + 8) + 2 = pos + 10
    BY <1>1
  <2>3. pos + 9 \in 1 .. pos + 10 /\ pos + 10 \in 1 .. pos + 10
    BY <1>1
  <2> QED
    BY <2>1, <2>2, <2>3, <1>14, <1>20
<1>27. ASSUME NEW k \in pos + 6 .. n PROVE c6[k + 5] = buffer[k]
  <2>1. /\ k - (pos + 5) \in 1 .. n - pos - 5 /\ k = (pos + 5) + (k - (pos + 5))
        /\ k + 5 = (pos + 10) + (k - (pos + 5))
    BY <1>1
  <2> QED
    BY <1>7, <1>14, <1>19, <2>1
<1> QED
  BY <1>12, <1>13, <1>22, <1>23, <1>24, <1>25, <1>26, <1>27

LEMMA OverrunOf ==
    ASSUME TypeOK
    PROVE  Overrun \in Seq(Cells) /\ Len(Overrun) = n + 5
<1> DEFINE t == [k \in 1 .. 5 |-> Stale]
<1>1. t \in Seq(Cells) /\ Len(t) = 5
  BY DEF Stale, Cells
<1>2. buffer \in Seq(Cells)
  BY DEF TypeOK
<1> HIDE DEF t
<1>3. buffer \o t \in Seq(Cells) /\ Len(buffer \o t) = Len(buffer) + 5
  BY <1>1, <1>2, ConcatOf
<1> QED
  BY <1>3 DEF Overrun, n, t

LEMMA ContentOf ==
    ASSUME NEW r \in Requests
    PROVE  Content(r) \in Seq(Cells) /\ Len(Content(r)) = r.size /\ r.size \in Nat
<1>1. r.size \in Nat /\ r.record \in Nat
  BY SizesAssumption DEF Requests
<1>2. ASSUME NEW k \in 1 .. r.size PROVE Content(r)[k] \in Cells
  BY <1>1, <1>2 DEF Content, Cells, Byte
<1>3. DOMAIN Content(r) = 1 .. r.size /\ Content(r) = [k \in 1 .. r.size |-> Content(r)[k]]
  BY DEF Content
<1>4. Content(r) \in [1 .. r.size -> Cells]
  BY <1>2, <1>3
<1> QED
  BY <1>1, <1>4

-----------------------------------------------------------------------------
(* The invariant                                                           *)

\* Places in the buffer stay inside it, and it inside its memory.
Room ==
    /\ calls = 1 => offset = 0
    /\ offset < req.size /\ req.size <= n /\ n <= BfSize
    /\ pc \in {"parts", "rest"} => lp <= n

\* Where desync() is tells how much the server has got.
InOrder ==
    cut \cap {"oob", "rest"} = {} =>
        /\ wire = [k \in 1 .. Len(wire) |-> k]
        /\ pc = "tlsrec" => Len(wire) = offset
        /\ pc \in {"parts", "rest"} => Len(wire) = lp
        /\ pc \in {"returned", "complete"} => Len(wire) = ret /\ ret <= n
        /\ pc = "complete" => ret >= req.size

IInv == TypeOK /\ Room /\ InOrder

LEMMA Numbers ==
    ASSUME TypeOK
    PROVE  /\ offset \in Nat /\ lp \in Nat /\ ret \in Nat /\ n \in Nat
           /\ i \in Nat \ {0} /\ calls \in Nat \ {0}
           /\ req.size \in Nat /\ wire \in Seq(Nat) /\ BfSize \in Nat
<1>1. buffer \in Seq(Cells) /\ req \in Requests
  BY DEF TypeOK
<1>2. n \in Nat
  BY <1>1 DEF n
<1>3. req.size \in Nat
  BY <1>1, ContentOf
<1> QED
  BY <1>2, <1>3, SizesAssumption DEF TypeOK

\* A send that follows what the server has got already.
LEMMA WiresOf ==
    ASSUME NEW a \in Nat, NEW b \in Nat, a <= b, Wires(a, b), wire \in Seq(Nat)
    PROVE  /\ wire' \in Seq(Nat)
           /\ wire = [k \in 1 .. Len(wire) |-> k] /\ Len(wire) = a =>
                wire' = [k \in 1 .. Len(wire') |-> k] /\ Len(wire') = b
<1> DEFINE t == [k \in 1 .. b - a |-> a + k]
<1>1. t \in Seq(Nat) /\ Len(t) = b - a
  OBVIOUS
<1>2. wire' = wire \o t
  BY DEF Wires
<1>3. ASSUME wire = [k \in 1 .. Len(wire) |-> k], Len(wire) = a
      PROVE  wire' = [k \in 1 .. Len(wire') |-> k] /\ Len(wire') = b
  <2> HIDE DEF t
  <2>1. Len(wire') = b /\ wire' \in Seq(Nat)
    <3>1. wire \o t \in Seq(Nat) /\ Len(wire \o t) = Len(wire) + Len(t)
      BY <1>1, ConcatOf
    <3> QED
      BY <1>1, <1>2, <1>3, <3>1
  <2> USE DEF t
  <2>2. ASSUME NEW k \in 1 .. b PROVE wire'[k] = k
    <3>1. CASE k <= a
      BY <1>1, <1>2, <1>3, <3>1
    <3>2. CASE k > a
      <4> HIDE DEF t
      <4>1. wire'[k] = t[k - a]
        BY <1>1, <1>2, <1>3, <3>2
      <4> USE DEF t
      <4> QED
        BY <4>1, <3>2
    <3> QED
      BY <3>1, <3>2
  <2> QED
    BY <2>1, <2>2
<1>4. wire' \in Seq(Nat)
  BY <1>1, <1>2
<1> QED
  BY <1>3, <1>4

\* A step that changes neither the input nor what has been sent.
LEMMA SameTypes ==
    ASSUME TypeOK, UNCHANGED <<input, sent>>
    PROVE  /\ req' \in Requests
           /\ tlsrec' \in Seq(RecOptions) /\ parts' \in Seq(PartOptions)
           /\ wire' \in Seq(Nat)
           /\ cut' \subseteq {"send", "fake", "oob", "rest"}
BY DEF TypeOK, input, sent

LEMMA StartPartsKeeps ==
    ASSUME IInv, pc = "tlsrec", StartParts
    PROVE  IInv'
<1>1. TypeOK'
  BY SameTypes, Numbers DEF IInv, TypeOK, StartParts, input, sent
<1>2. Room'
  BY Numbers DEF IInv, Room, StartParts, input, n
<1>3. InOrder'
  BY DEF IInv, InOrder, StartParts, input, sent
<1> QED
  BY <1>1, <1>2, <1>3 DEF IInv

LEMMA RecKeeps ==
    ASSUME IInv, Rec
    PROVE  IInv'
<1> DEFINE pos == RecPosition(tlsrec[i])
<1>1. TypeOK /\ Room /\ InOrder
  BY DEF IInv
<1>2. pos \in Int
  <2>1. tlsrec[i] \in RecOptions
    BY <1>1, Numbers, ElementOf DEF Rec, NoRecords, TypeOK
  <2> QED
    BY <1>1, <2>1, PositionTypes
<1>3. CASE pos < lp \/ Refused(pos)
  BY <1>3, StartPartsKeeps DEF Rec
<1>4. CASE ~(pos < lp \/ Refused(pos))
  <2>1. PICK size \in RecordSizes :
          buffer' = IF size < pos - lp THEN Overrun ELSE Divided(pos, size)
    BY <1>4 DEF Rec
  <2>2. /\ lp' = pos + 5 /\ i' = i + 1
        /\ UNCHANGED <<input, pc, offset, ret, calls, sent>>
    BY <1>4 DEF Rec
  <2> HIDE DEF pos
  <2>3. /\ pos \in Nat /\ lp <= pos /\ pos + 5 <= n /\ ~(BfSize - n < 5)
        /\ lp \in Nat /\ n \in Nat
    <3>1. lp \in Nat /\ n \in Nat /\ BfSize \in Nat
      BY <1>1, Numbers
    <3> QED
      BY <1>2, <1>4, <3>1 DEF Refused
  <2>4. size \in Nat
    <3>1. buffer \in Seq(Cells) /\ lp + 4 \in 1 .. Len(buffer)
      BY <1>1, <2>3 DEF TypeOK, n
    <3>2. buffer[lp + 4] \in Cells
      BY <3>1, ElementOf
    <3>3. buffer[lp + 4][2] \in Nat
      BY <3>2 DEF Cells
    <3>4. Records \subseteq Nat
      BY SizesAssumption
    <3> QED
      BY <2>1, <3>3, <3>4 DEF RecordSizes
  <2>5. buffer' \in Seq(Cells) /\ Len(buffer') = n + 5
    <3>1. CASE size < pos - lp
      BY <1>1, <2>1, <3>1, OverrunOf
    <3>2. CASE ~(size < pos - lp)
      <4>1. pos - lp <= size
        BY <2>3, <2>4, <3>2
      <4>2. Divided(pos, size) \in Seq(Cells) /\ Len(Divided(pos, size)) = n + 5
        BY <1>1, <2>3, <2>4, <4>1, DividedOf
      <4> QED
        BY <2>1, <3>2, <4>2
    <3> QED
      BY <3>1, <3>2
  <2>6. TypeOK'
    <3>1. UNCHANGED <<input, sent>>
      BY <2>2
    <3>2. UNCHANGED <<pc, offset, ret, calls>>
      BY <2>2
    <3>3. lp' \in Nat /\ i' \in Nat \ {0}
      BY <1>1, <2>2, <2>3, Numbers
    <3> QED
      BY <1>1, <2>5, <3>1, <3>2, <3>3, SameTypes DEF TypeOK
  <2>7. Room'
    <3>1. n' = n + 5
      BY <2>5 DEF n
    <3>2. pc' = "tlsrec"
      BY <2>2 DEF Rec
    <3> QED
      BY <1>1, <2>2, <2>3, <3>1, <3>2, Numbers DEF Room, input
  <2>8. InOrder'
    <3>1. pc = "tlsrec" /\ pc' = "tlsrec"
      BY <2>2 DEF Rec
    <3>2. wire' = wire /\ cut' = cut /\ offset' = offset
      BY <2>2 DEF sent
    <3> QED
      BY <1>1, <3>1, <3>2 DEF InOrder
  <2> QED
    BY <2>6, <2>7, <2>8 DEF IInv
<1> QED
  BY <1>3, <1>4

\* Steps that go on without a send.
LEMMA QuietKeeps ==
    ASSUME IInv, Skip \/ Cancel \/ PartsDone \/ Fail
    PROVE  IInv'
<1>1. TypeOK /\ Room /\ InOrder
  BY DEF IInv
<1>2. /\ UNCHANGED <<input, sent>>
      /\ UNCHANGED <<offset, buffer, lp, ret, calls>>
      /\ pc \in {"parts", "rest"} /\ pc' \in {"parts", "rest", "failed"}
      /\ i' = i \/ i' = i + 1
  BY DEF Skip, Cancel, PartsDone, StartRest, Fail, InParts
<1>3. TypeOK'
  <2>1. i' \in Nat \ {0}
    BY <1>1, <1>2, Numbers
  <2>2. pc' \in {"tlsrec", "parts", "rest", "returned", "complete", "failed"}
    BY <1>2
  <2>3. {offset, lp, ret} \subseteq Nat /\ calls \in Nat \ {0} /\ buffer \in Seq(Cells)
    BY <1>1 DEF TypeOK
  <2> QED
    BY <1>1, <1>2, <2>1, <2>2, <2>3, SameTypes DEF TypeOK
<1>4. Room'
  BY <1>1, <1>2 DEF Room, n, input
<1>5. InOrder'
  BY <1>1, <1>2 DEF InOrder, n, sent
<1> QED
  BY <1>3, <1>4, <1>5 DEF IInv

\* The place of a part that is sent.
LEMMA PartPlace ==
    ASSUME TypeOK, InParts, ~Cancelled(Position(parts[i]))
    PROVE  /\ Position(parts[i]) \in Nat
           /\ lp <= Position(parts[i]) /\ Position(parts[i]) <= n
           /\ parts[i].m \in {"send", "fake", "oob"}
<1>1. parts[i] \in PartOptions
  BY Numbers, ElementOf DEF InParts, TypeOK
<1>2. Position(parts[i]) \in Int
  BY <1>1, PositionTypes
<1>3. parts[i].m \in {"send", "fake", "oob"}
  BY <1>1 DEF PartOptions
<1> QED
  BY <1>2, <1>3, Numbers DEF Cancelled

LEMMA PartKeeps ==
    ASSUME IInv, Part
    PROVE  IInv'
<1> DEFINE pos == Position(parts[i])
<1>1. TypeOK /\ Room /\ InOrder
  BY DEF IInv
<1>2. pos \in Nat /\ lp <= pos /\ pos <= n
  BY <1>1, PartPlace DEF Part
<1>3. /\ Wires(lp, pos) /\ lp' = pos /\ i' = i + 1 /\ pc = "parts"
      /\ UNCHANGED <<input, pc, offset, buffer, ret, calls, cut>>
  BY DEF Part, InParts
<1> HIDE DEF pos
<1>4. /\ wire' \in Seq(Nat)
      /\ wire = [k \in 1 .. Len(wire) |-> k] /\ Len(wire) = lp =>
           wire' = [k \in 1 .. Len(wire') |-> k] /\ Len(wire') = pos
  BY <1>1, <1>2, <1>3, WiresOf, Numbers
<1>5. TypeOK'
  <2>1. i' \in Nat \ {0} /\ lp' \in Nat
    BY <1>1, <1>2, <1>3, Numbers
  <2> QED
    BY <1>1, <1>3, <1>4, <2>1 DEF TypeOK, input
<1>6. Room'
  BY <1>1, <1>2, <1>3 DEF Room, n, input
<1>7. InOrder'
  BY <1>1, <1>3, <1>4 DEF InOrder, n
<1> QED
  BY <1>5, <1>6, <1>7 DEF IInv

LEMMA PartCutKeeps ==
    ASSUME IInv, PartCut
    PROVE  IInv'
<1> DEFINE pos == Position(parts[i])
<1>1. TypeOK /\ Room /\ InOrder
  BY DEF IInv
<1>2. /\ pos \in Nat /\ lp <= pos /\ pos <= n
      /\ parts[i].m \in {"send", "fake", "oob"}
  BY <1>1, PartPlace DEF PartCut
<1>3. PICK a \in 0 .. Given(parts[i]) - 1 :
         /\ Wires(lp, lp + a)
         /\ Returns(lp + IF a = 0 THEN 0 ELSE Counted(parts[i], a))
         /\ cut' = cut \cup IF a = 0 THEN {} ELSE {parts[i].m}
  BY DEF PartCut
<1>4. UNCHANGED <<input, offset, buffer, lp, i, calls>>
  BY DEF PartCut
<1>5. a \in Nat /\ (parts[i].m # "oob" => a < pos - lp)
  BY <1>1, <1>2, <1>3, Numbers DEF Given
<1>6. /\ wire' \in Seq(Nat)
      /\ wire = [k \in 1 .. Len(wire) |-> k] /\ Len(wire) = lp =>
           wire' = [k \in 1 .. Len(wire') |-> k] /\ Len(wire') = lp + a
  BY <1>1, <1>3, <1>5, WiresOf, Numbers
<1>7. /\ ret' \in Nat /\ pc' = "returned"
      /\ a = 0 \/ parts[i].m # "oob" => ret' = lp + a
  BY <1>1, <1>3, <1>5, Numbers DEF Returns, Counted
<1>8. /\ cut' \subseteq {"send", "fake", "oob", "rest"}
      /\ cut \subseteq cut' /\ (a # 0 => parts[i].m \in cut')
  BY <1>1, <1>2, <1>3 DEF TypeOK
<1>9. TypeOK'
  BY <1>1, <1>4, <1>6, <1>7, <1>8 DEF TypeOK, input
<1>10. Room'
  BY <1>1, <1>4, <1>7 DEF Room, n, input
<1>11. InOrder'
  <2> SUFFICES ASSUME cut' \cap {"oob", "rest"} = {}
               PROVE  InOrder'
    BY DEF InOrder
  <2>1. cut \cap {"oob", "rest"} = {} /\ (a = 0 \/ parts[i].m # "oob")
    BY <1>8
  <2>2. wire = [k \in 1 .. Len(wire) |-> k] /\ Len(wire) = lp
    BY <1>1, <2>1 DEF InOrder, PartCut, InParts
  <2>3. lp + a <= n
    BY <1>1, <1>2, <1>5, <2>1, Numbers
  <2>4. wire' = [k \in 1 .. Len(wire') |-> k] /\ Len(wire') = ret' /\ ret' <= n
    BY <1>6, <1>7, <2>1, <2>2, <2>3
  <2>5. n' = n
    BY <1>4 DEF n
  <2> QED
    BY <1>7, <2>4, <2>5 DEF InOrder
<1> QED
  BY <1>9, <1>10, <1>11 DEF IInv

LEMMA RestKeeps ==
    ASSUME IInv, Rest
    PROVE  IInv'
<1>1. TypeOK /\ Room /\ InOrder /\ pc = "rest"
  BY DEF IInv, Rest
<1>2. UNCHANGED <<input, offset, buffer, lp, i, calls>> /\ n' = n
  BY DEF Rest, n
<1>3. lp <= n /\ lp \in Nat /\ n \in Nat /\ wire \in Seq(Nat)
  BY <1>1, Numbers DEF Room
<1>4. CASE lp < n
  <2>1. PICK a \in 0 .. n - lp :
           /\ Wires(lp, lp + a)
           /\ Returns(IF a = 0 THEN lp ELSE n)
           /\ cut' = cut \cup IF a \in {0, n - lp} THEN {} ELSE {"rest"}
    BY <1>4 DEF Rest
  <2>2. /\ wire' \in Seq(Nat)
        /\ wire = [k \in 1 .. Len(wire) |-> k] /\ Len(wire) = lp =>
             wire' = [k \in 1 .. Len(wire') |-> k] /\ Len(wire') = lp + a
    BY <1>3, <2>1, WiresOf
  <2>3. /\ ret' \in Nat /\ ret' <= n /\ pc' = "returned"
        /\ a \in {0, n - lp} => ret' = lp + a
    BY <1>3, <1>4, <2>1 DEF Returns
  <2>4. /\ cut' \subseteq {"send", "fake", "oob", "rest"}
        /\ cut \subseteq cut' /\ (a \notin {0, n - lp} => "rest" \in cut')
    BY <1>1, <2>1 DEF TypeOK
  <2>5. TypeOK'
    BY <1>1, <1>2, <2>2, <2>3, <2>4 DEF TypeOK, input
  <2>6. InOrder'
    <3> SUFFICES ASSUME cut' \cap {"oob", "rest"} = {}
                 PROVE  InOrder'
      BY DEF InOrder
    <3>1. cut \cap {"oob", "rest"} = {} /\ a \in {0, n - lp}
      BY <2>4
    <3>2. wire = [k \in 1 .. Len(wire) |-> k] /\ Len(wire) = lp
      BY <1>1, <3>1 DEF InOrder
    <3> QED
      BY <1>2, <2>2, <2>3, <3>1, <3>2 DEF InOrder
  <2> QED
    BY <1>1, <1>2, <2>3, <2>5, <2>6 DEF IInv, Room, input
<1>5. CASE ~(lp < n)
  <2>1. pc' = "returned" /\ ret' = n /\ UNCHANGED sent /\ lp = n
    BY <1>3, <1>5 DEF Rest, Returns
  <2>2. TypeOK'
    BY <1>1, <1>2, <1>3, <2>1 DEF TypeOK, input, sent
  <2>3. InOrder'
    BY <1>1, <1>2, <1>3, <2>1 DEF InOrder, sent
  <2> QED
    BY <1>1, <1>2, <2>1, <2>2, <2>3 DEF IInv, Room, input
<1> QED
  BY <1>4, <1>5

LEMMA AgainKeeps ==
    ASSUME IInv, Complete \/ Again
    PROVE  IInv'
<1>1. TypeOK /\ Room /\ InOrder
  BY DEF IInv
<1>2. CASE Complete
  <2>1. /\ pc = "returned" /\ pc' = "complete" /\ ret >= req.size
        /\ UNCHANGED <<offset, buffer, lp, i, ret, calls>>
        /\ UNCHANGED input /\ UNCHANGED sent
    BY <1>2 DEF Complete
  <2>2. TypeOK'
    BY <1>1, <2>1 DEF TypeOK, input, sent
  <2>3. Room'
    BY <1>1, <2>1 DEF Room, n, input
  <2>4. InOrder'
    BY <1>1, <2>1 DEF InOrder, n, input, sent
  <2> QED
    BY <2>2, <2>3, <2>4 DEF IInv
<1>3. CASE Again
  <2>1. /\ pc = "returned" /\ pc' = "tlsrec" /\ ret < req.size
        /\ offset' = offset + ret /\ buffer' = Content(req)
        /\ lp' = 0 /\ i' = 1 /\ calls' = calls + 1 /\ calls < MaxCalls
        /\ UNCHANGED input /\ ret' = ret /\ UNCHANGED sent
    BY <1>3 DEF Again
  <2>2. calls = 1 /\ calls' = 2 /\ offset = 0 /\ offset' = ret
    <3>1. calls \in Nat \ {0} /\ ret \in Nat /\ MaxCalls \in {1, 2}
      BY <1>1, Numbers, OptionsAssumption
    <3>2. calls = 1 /\ calls' = 2
      BY <2>1, <3>1
    <3> QED
      BY <1>1, <2>1, <3>1, <3>2 DEF Room
  <2>3. /\ buffer' \in Seq(Cells) /\ Len(buffer') = req.size
        /\ req \in Requests /\ req.size \in Nat
    BY <1>1, <2>1, ContentOf DEF TypeOK
  <2>4. req.size <= BfSize
    BY <2>3, SizesAssumption DEF Requests
  <2>5. TypeOK'
    BY <1>1, <2>1, <2>2, <2>3, Numbers DEF TypeOK, input, sent
  <2>6. Room'
    BY <2>1, <2>2, <2>3, <2>4 DEF Room, n, input
  <2>7. InOrder'
    BY <1>1, <2>1, <2>2 DEF InOrder, sent
  <2> QED
    BY <2>5, <2>6, <2>7 DEF IInv
<1> QED
  BY <1>2, <1>3

LEMMA InitKeeps == Init => IInv
<1> SUFFICES ASSUME Init PROVE IInv
  OBVIOUS
<1>1. /\ req \in Requests /\ buffer = Content(req)
      /\ tlsrec \in Seq(RecOptions) /\ parts \in Seq(PartOptions)
  BY ListIsSeq, OptionsAssumption DEF Init
<1>2. /\ buffer \in Seq(Cells) /\ Len(buffer) = req.size
      /\ req.size \in Nat \ {0} /\ req.size <= BfSize
  BY <1>1, ContentOf, SizesAssumption DEF Requests
<1>3. TypeOK
  BY <1>1, <1>2 DEF Init, TypeOK
<1>4. Room
  BY <1>2 DEF Init, Room, n
<1>5. InOrder
  BY DEF Init, InOrder
<1> QED
  BY <1>3, <1>4, <1>5 DEF IInv

LEMMA NextKeeps == IInv /\ [Next]_vars => IInv'
<1> SUFFICES ASSUME IInv, [Next]_vars PROVE IInv'
  OBVIOUS
<1>1. CASE UNCHANGED vars
  BY <1>1 DEF vars, input, sent, IInv, TypeOK, Room, InOrder, n
<1>2. CASE RecsDone
  BY <1>2, StartPartsKeeps DEF RecsDone
<1>3. CASE Done
  BY <1>1, <1>3 DEF Done
<1> QED
  BY <1>1, <1>2, <1>3, RecKeeps, QuietKeeps, PartKeeps, PartCutKeeps, RestKeeps,
     AgainKeeps DEF Next

-----------------------------------------------------------------------------
(* The records                                                             *)

\* A header is a header from its first byte to its last, and desync() goes on
\* with the last record.
AtRecord ==
    Whole =>
        /\ \A p \in Heads :
             /\ \A k \in 1 .. 3 : buffer[p + k][1] = "head"
             /\ buffer[p + 5][1] = "low"
        /\ pc = "tlsrec" => lp \in Heads /\ EndOf(lp) = n

RecordsInv == IInv /\ RecordsRejoin /\ AtRecord

\* part_tls() finds the length at lp, which reaches to the end.
LEMMA LastRecord ==
    ASSUME RecordsInv, Whole, pc = "tlsrec"
    PROVE  /\ lp \in 0 .. n - 5 /\ RecordSizes = {n - lp - 5}
           /\ buffer[lp + 4] = <<"size", n - lp - 5>>
           /\ buffer[lp + 5][1] = "low"
           /\ \A k \in 1 .. 3 : buffer[lp + k][1] = "head"
           /\ \A k \in lp + 6 .. n : buffer[k][1] = "byte"
<1>1. lp \in Heads /\ EndOf(lp) = n
  BY DEF RecordsInv, AtRecord
<1>2. lp \in 0 .. n - 5 /\ buffer[lp + 4][1] = "size" /\ n \in Nat /\ lp \in Nat
  BY <1>1, Numbers DEF Heads, RecordsInv, IInv
<1>3. buffer[lp + 4] \in Cells
  <2>1. buffer \in Seq(Cells) /\ lp + 4 \in 1 .. Len(buffer)
    BY <1>2 DEF RecordsInv, IInv, TypeOK, n
  <2> QED
    BY <2>1, ElementOf
<1>4. buffer[lp + 4][2] = n - lp - 5
  <2>1. buffer[lp + 4][2] \in Nat
    BY <1>3 DEF Cells
  <2> QED
    BY <1>1, <1>2, <2>1 DEF EndOf
<1>5. buffer[lp + 4] = <<"size", n - lp - 5>>
  BY <1>2, <1>3, <1>4 DEF Cells
<1>6. RecordSizes = {n - lp - 5}
  BY <1>2, <1>4 DEF RecordSizes
<1>7. /\ buffer[lp + 5][1] = "low"
      /\ \A k \in 1 .. 3 : buffer[lp + k][1] = "head"
  BY <1>1 DEF RecordsInv, AtRecord
<1>8. \A k \in lp + 6 .. n : buffer[k][1] = "byte"
  BY <1>1 DEF RecordsInv, RecordsRejoin, Places
<1> QED
  BY <1>2, <1>5, <1>6, <1>7, <1>8

\* Where a division leaves the headers and the bytes of the request.
LEMMA DivisionCells ==
    ASSUME RecordsInv, Whole, pc = "tlsrec",
           NEW pos \in Nat, lp <= pos, pos + 5 <= n,
           buffer' = Divided(pos, n - lp - 5)
    PROVE  /\ n' = n + 5
           /\ Heads' = Heads \cup {pos + 5}
           /\ \A p \in Heads : p <= lp
           /\ \A p \in Heads : p < lp => p + 5 <= lp
           /\ \A k \in 1 .. lp + 3 : buffer'[k] = buffer[k]
           /\ \A k \in Places : k <= pos + 5 => k \in Places' /\ buffer'[k] = buffer[k]
           /\ \A k \in Places :
                k > pos + 5 => k + 5 \in Places' /\ buffer'[k + 5] = buffer[k]
           /\ \A k \in Places' :
                \/ k <= pos + 5 /\ k \in Places /\ buffer'[k] = buffer[k]
                \/ k > pos + 10 /\ k - 5 \in Places /\ buffer'[k] = buffer[k - 5]
           /\ buffer'[lp + 4] = <<"size", pos - lp>> /\ buffer'[lp + 5][1] = "low"
           /\ buffer'[pos + 9] = <<"size", n - pos - 5>>
           /\ buffer'[pos + 10][1] = "low"
           /\ \A k \in 1 .. 3 : buffer'[pos + 5 + k][1] = "head"
<1>1. n \in Nat /\ lp \in Nat /\ TypeOK
  BY Numbers DEF RecordsInv, IInv
<1>2. /\ lp \in 0 .. n - 5
      /\ buffer[lp + 4][1] = "size" /\ buffer[lp + 5][1] = "low"
      /\ \A k \in 1 .. 3 : buffer[lp + k][1] = "head"
      /\ \A k \in lp + 6 .. n : buffer[k][1] = "byte"
  BY LastRecord
<1> DEFINE size == n - lp - 5
<1>3. size \in Nat /\ pos - lp <= size /\ size - (pos - lp) = n - pos - 5
  BY <1>1
<1> HIDE DEF size
<1>cells. LET d == Divided(pos, size)
      IN  /\ d \in Seq(Cells) /\ Len(d) = n + 5
          /\ \A k \in 1 .. lp + 3 : d[k] = buffer[k]
          /\ d[lp + 4] = <<"size", pos - lp>> /\ d[lp + 5] = <<"low", 0>>
          /\ \A k \in lp + 6 .. pos + 5 : d[k] = buffer[k]
          /\ \A k \in 1 .. 3 : d[pos + 5 + k] = buffer[lp + k]
          /\ d[pos + 9] = <<"size", size - (pos - lp)>>
          /\ d[pos + 10] = <<"low", 0>>
          /\ \A k \in pos + 6 .. n : d[k + 5] = buffer[k]
  BY <1>1, <1>3, DividedOf
<1>divided. buffer' = Divided(pos, size)
  BY DEF size
<1>length. Len(buffer') = n + 5
  BY <1>cells, <1>divided
<1>front. \A k \in 1 .. lp + 3 : buffer'[k] = buffer[k]
  BY <1>cells, <1>divided
<1>first. buffer'[lp + 4] = <<"size", pos - lp>> /\ buffer'[lp + 5][1] = "low"
  BY <1>cells, <1>divided
<1>middle. \A k \in lp + 6 .. pos + 5 : buffer'[k] = buffer[k]
  BY <1>cells, <1>divided
<1>head. \A k \in 1 .. 3 : buffer'[pos + 5 + k][1] = "head"
  <2>1. \A k \in 1 .. 3 : buffer'[pos + 5 + k] = buffer[lp + k]
    BY <1>cells, <1>divided
  <2> QED
    BY <1>2, <2>1
<1>second. buffer'[pos + 9] = <<"size", n - pos - 5>> /\ buffer'[pos + 10][1] = "low"
  <2>1. buffer'[pos + 9] = <<"size", size - (pos - lp)>>
    BY <1>cells, <1>divided
  <2>2. buffer'[pos + 10] = <<"low", 0>>
    BY <1>cells, <1>divided
  <2> QED
    BY <1>3, <2>1, <2>2
<1>back. \A k \in pos + 6 .. n : buffer'[k + 5] = buffer[k]
  BY <1>cells, <1>divided
<1>4. n' = n + 5
  BY <1>length DEF n
<1>5. \A p \in Heads : p \in 0 .. n - 5 /\ buffer[p + 4][1] = "size" /\ buffer[p + 5][1] = "low"
  BY DEF Heads, RecordsInv, AtRecord
<1>6. ASSUME NEW p \in Heads PROVE p <= lp /\ (p < lp => p + 5 <= lp)
  <2>1. p \in Int /\ p + 4 <= n
    BY <1>1, <1>5
  <2>2. p + 4 \notin lp + 6 .. n
    BY <1>2, <1>5
  <2>3. p + 4 # lp + 5 /\ p + 5 \notin {lp + 4}
    BY <1>2, <1>5
  <2>4. p + 5 # lp + 1 /\ p + 5 # lp + 2 /\ p + 5 # lp + 3
    BY <1>2, <1>5
  <2> QED
    BY <1>1, <2>1, <2>2, <2>3, <2>4
<1>7. Heads' = Heads \cup {pos + 5}
  <2>1. Heads' = {p \in 0 .. n : buffer'[p + 4][1] = "size"}
    BY <1>1, <1>4 DEF Heads
  <2>2. ASSUME NEW p \in Heads PROVE p \in Heads'
    <3>1. p \in 0 .. n
      BY <1>1, <1>5
    <3>2. CASE p < lp
      <4>1. p + 4 \in 1 .. lp + 3
        BY <1>1, <3>1, <3>2
      <4> QED
        BY <1>5, <1>front, <2>1, <3>1, <4>1
    <3>3. CASE p = lp
      BY <1>first, <2>1, <3>1, <3>3
    <3> QED
      BY <1>1, <1>6, <3>1, <3>2, <3>3
  <2>3. pos + 5 \in Heads'
    <3>1. pos + 5 \in 0 .. n /\ (pos + 5) + 4 = pos + 9
      BY <1>1
    <3> QED
      BY <1>second, <2>1, <3>1
  <2>4. ASSUME NEW p \in Heads' PROVE p \in Heads \cup {pos + 5}
    <3>1. p \in 0 .. n /\ buffer'[p + 4][1] = "size"
      BY <2>1
    <3>2. CASE p + 4 <= lp + 4
      <4>1. CASE p = lp
        BY <4>1 DEF RecordsInv, AtRecord
      <4>2. CASE p # lp
        <5>1. p + 4 \in 1 .. lp + 3 /\ p \in 0 .. n - 5
          BY <1>1, <1>2, <3>1, <3>2, <4>2
        <5>2. buffer'[p + 4] = buffer[p + 4]
          BY <1>front, <5>1
        <5> QED
          BY <3>1, <5>1, <5>2 DEF Heads
      <4> QED
        BY <4>1, <4>2
    <3>3. p + 4 # lp + 5 /\ p + 4 # pos + 10
      BY <1>first, <1>second, <3>1
    <3>4. p + 4 \notin lp + 6 .. pos + 5
      <4> SUFFICES ASSUME p + 4 \in lp + 6 .. pos + 5 PROVE FALSE
        OBVIOUS
      <4>1. buffer'[p + 4] = buffer[p + 4]
        BY <1>middle
      <4>2. p + 4 \in lp + 6 .. n
        BY <1>1
      <4> QED
        BY <1>2, <3>1, <4>1, <4>2
    <3>5. p + 4 # pos + 6 /\ p + 4 # pos + 7 /\ p + 4 # pos + 8
      <4>1. /\ buffer'[pos + 5 + 1][1] = "head" /\ buffer'[pos + 5 + 2][1] = "head"
            /\ buffer'[pos + 5 + 3][1] = "head"
        BY <1>head
      <4>2. pos + 5 + 1 = pos + 6 /\ pos + 5 + 2 = pos + 7 /\ pos + 5 + 3 = pos + 8
        BY <1>1
      <4> QED
        BY <3>1, <4>1, <4>2
    <3>6. ~(p + 4 > pos + 10)
      <4> SUFFICES ASSUME p + 4 > pos + 10 PROVE FALSE
        OBVIOUS
      <4>1. p - 1 \in pos + 6 .. n /\ (p - 1) + 5 = p + 4 /\ p - 1 \in lp + 6 .. n
        BY <1>1, <3>1
      <4>2. buffer'[p + 4] = buffer[p - 1] /\ buffer[p - 1][1] = "byte"
        BY <1>2, <1>back, <4>1
      <4> QED
        BY <3>1, <4>2
    <3> QED
      BY <1>1, <3>1, <3>2, <3>3, <3>4, <3>5, <3>6
  <2> QED
    BY <2>2, <2>3, <2>4
<1>8. Places' = {k \in 1 .. n + 5 : buffer'[k][1] = "byte"}
  BY <1>4 DEF Places
<1>9. Places = {k \in 1 .. n : buffer[k][1] = "byte"}
  BY DEF Places
<1>10. ASSUME NEW k \in Places
       PROVE  /\ k <= pos + 5 => k \in Places' /\ buffer'[k] = buffer[k]
              /\ k > pos + 5 => k + 5 \in Places' /\ buffer'[k + 5] = buffer[k]
  <2>1. k \in 1 .. n /\ buffer[k][1] = "byte"
    BY <1>9
  <2>2. k # lp + 4 /\ k # lp + 5
    BY <1>2, <2>1
  <2>3. ASSUME k <= pos + 5 PROVE k \in Places' /\ buffer'[k] = buffer[k]
    <3>1. k \in 1 .. lp + 3 \/ k \in lp + 6 .. pos + 5
      BY <1>1, <2>1, <2>2, <2>3
    <3>2. buffer'[k] = buffer[k]
      BY <1>front, <1>middle, <3>1
    <3> QED
      BY <1>1, <1>8, <2>1, <3>2
  <2>4. ASSUME k > pos + 5 PROVE k + 5 \in Places' /\ buffer'[k + 5] = buffer[k]
    <3>1. k \in pos + 6 .. n /\ k + 5 \in 1 .. n + 5
      BY <1>1, <2>1, <2>4
    <3> QED
      BY <1>back, <1>8, <2>1, <3>1
  <2> QED
    BY <2>3, <2>4
<1>11. ASSUME NEW k \in Places'
       PROVE  \/ k <= pos + 5 /\ k \in Places /\ buffer'[k] = buffer[k]
              \/ k > pos + 10 /\ k - 5 \in Places /\ buffer'[k] = buffer[k - 5]
  <2>1. k \in 1 .. n + 5 /\ buffer'[k][1] = "byte"
    BY <1>8
  <2>2. k # lp + 4 /\ k # lp + 5 /\ k # pos + 9 /\ k # pos + 10
    BY <1>first, <1>second, <2>1
  <2>3. k # pos + 6 /\ k # pos + 7 /\ k # pos + 8
    <3>1. /\ buffer'[pos + 5 + 1][1] = "head" /\ buffer'[pos + 5 + 2][1] = "head"
          /\ buffer'[pos + 5 + 3][1] = "head"
      BY <1>head
    <3>2. pos + 5 + 1 = pos + 6 /\ pos + 5 + 2 = pos + 7 /\ pos + 5 + 3 = pos + 8
      BY <1>1
    <3> QED
      BY <2>1, <3>1, <3>2
  <2>4. CASE k <= pos + 5
    <3>1. k \in 1 .. lp + 3 \/ k \in lp + 6 .. pos + 5
      BY <1>1, <2>1, <2>2, <2>4
    <3>2. buffer'[k] = buffer[k]
      BY <1>front, <1>middle, <3>1
    <3>3. k \in 1 .. n
      BY <1>1, <2>1, <2>4
    <3> QED
      BY <1>9, <2>1, <2>4, <3>2, <3>3
  <2>5. CASE k > pos + 10
    <3>1. k - 5 \in pos + 6 .. n /\ (k - 5) + 5 = k /\ k - 5 \in 1 .. n
      BY <1>1, <2>1, <2>5
    <3>2. buffer'[k] = buffer[k - 5]
      BY <1>back, <3>1
    <3> QED
      BY <1>9, <2>1, <2>5, <3>1, <3>2
  <2> QED
    BY <1>1, <2>1, <2>2, <2>3, <2>4, <2>5
<1> QED
  BY <1>4, <1>6, <1>7, <1>10, <1>11, <1>front, <1>first, <1>head, <1>second

\* A division leaves the records in line.
LEMMA DivisionJoins ==
    ASSUME RecordsInv, Whole, pc = "tlsrec", UNCHANGED <<req, pc>>, Room',
           NEW pos \in Nat, lp <= pos, pos + 5 <= n, lp' = pos + 5,
           buffer' = Divided(pos, n - lp - 5)
    PROVE  RecordsRejoin' /\ AtRecord'
<1>1. n \in Nat /\ lp \in Nat /\ n' = n + 5
  BY Numbers, DivisionCells DEF RecordsInv, IInv
<1>2. Heads' = Heads \cup {pos + 5}
  BY DivisionCells
<1>3. \A p \in Heads : p \in 0 .. n - 5 /\ p <= lp /\ (p < lp => p + 5 <= lp)
  BY DivisionCells DEF Heads
<1>4. \A k \in 1 .. lp + 3 : buffer'[k] = buffer[k]
  BY DivisionCells
<1>5. /\ \A k \in Places : k <= pos + 5 => k \in Places' /\ buffer'[k] = buffer[k]
      /\ \A k \in Places :
           k > pos + 5 => k + 5 \in Places' /\ buffer'[k + 5] = buffer[k]
  BY DivisionCells
<1>6. \A k \in Places' :
        \/ k <= pos + 5 /\ k \in Places /\ buffer'[k] = buffer[k]
        \/ k > pos + 10 /\ k - 5 \in Places /\ buffer'[k] = buffer[k - 5]
  BY DivisionCells
<1>7. /\ buffer'[lp + 4] = <<"size", pos - lp>> /\ buffer'[lp + 5][1] = "low"
      /\ buffer'[pos + 9] = <<"size", n - pos - 5>> /\ buffer'[pos + 10][1] = "low"
      /\ \A k \in 1 .. 3 : buffer'[pos + 5 + k][1] = "head"
  BY DivisionCells
<1>8. /\ lp \in Heads /\ 0 \in Heads
      /\ \A k \in 1 .. 3 : buffer[lp + k][1] = "head"
      /\ \A k \in lp + 6 .. n : k \in Places
  <2>1. lp \in Heads /\ 0 \in Heads
    BY DEF RecordsInv, AtRecord, RecordsRejoin
  <2>2. \A k \in lp + 6 .. n : k \in 1 .. n /\ buffer[k][1] = "byte"
    BY <1>1, LastRecord
  <2> QED
    BY <2>1, <2>2, LastRecord DEF Places
<1>9. ASSUME NEW p \in Heads, p < lp
      PROVE  /\ \A k \in 1 .. 5 : buffer'[p + k] = buffer[p + k]
             /\ EndOf(p) \in Heads
             /\ \A k \in p + 6 .. EndOf(p) : k \in Places /\ k <= lp
  <2>1. p \in Nat /\ p + 5 <= lp
    BY <1>3, <1>9
  <2>2. \A k \in 1 .. 5 : buffer'[p + k] = buffer[p + k]
    <3>1. \A k \in 1 .. 5 : p + k \in 1 .. lp + 3
      BY <1>1, <2>1
    <3> QED
      BY <1>4, <3>1
  <2>3. /\ EndOf(p) \in Heads \cup {n}
        /\ \A k \in p + 6 .. EndOf(p) : k \in Places
    BY DEF RecordsInv, RecordsRejoin
  <2>4. EndOf(p) # n
    <3> SUFFICES ASSUME EndOf(p) = n PROVE FALSE
      OBVIOUS
    <3>1. lp + 4 \in p + 6 .. n
      BY <1>1, <1>3, <1>8, <2>1
    <3>2. buffer[lp + 4][1] = "byte"
      BY <2>3, <3>1 DEF Places
    <3> QED
      BY <3>2, LastRecord
  <2>5. EndOf(p) \in Heads /\ EndOf(p) \in Int /\ EndOf(p) <= lp
    BY <1>3, <2>3, <2>4
  <2>6. \A k \in p + 6 .. EndOf(p) : k <= lp
    BY <1>1, <2>1, <2>5
  <2> QED
    BY <2>2, <2>3, <2>5, <2>6
<1>10. ASSUME NEW p \in Heads'
       PROVE  /\ p + 5 + buffer'[p + 4][2] \in Heads' \cup {n'}
              /\ \A k \in p + 6 .. p + 5 + buffer'[p + 4][2] : k \in Places'
              /\ \A k \in 1 .. 3 : buffer'[p + k][1] = "head"
              /\ buffer'[p + 5][1] = "low"
  <2>1. CASE p \in Heads /\ p < lp
    <3>1. buffer'[p + 4] = buffer[p + 4] /\ buffer'[p + 5] = buffer[p + 5]
      BY <1>9, <2>1
    <3>2. \A k \in 1 .. 3 : buffer'[p + k] = buffer[p + k]
      BY <1>9, <2>1
    <3>3. p + 5 + buffer'[p + 4][2] = EndOf(p)
      BY <3>1 DEF EndOf
    <3>4. /\ \A k \in 1 .. 3 : buffer[p + k][1] = "head"
          /\ buffer[p + 5][1] = "low"
      BY <2>1 DEF RecordsInv, AtRecord
    <3>5. \A k \in p + 6 .. EndOf(p) : k \in Places'
      <4> TAKE k \in p + 6 .. EndOf(p)
      <4>1. k \in Places /\ k <= lp
        BY <1>9, <2>1
      <4>2. k <= pos + 5
        BY <1>1, <4>1 DEF Places
      <4> QED
        BY <1>5, <4>1, <4>2
    <3> QED
      BY <1>2, <1>9, <2>1, <3>1, <3>2, <3>3, <3>4, <3>5
  <2>2. CASE p = lp
    <3>1. p + 5 + buffer'[p + 4][2] = pos + 5
      BY <1>1, <1>7, <2>2
    <3>2. \A k \in p + 6 .. pos + 5 : k \in Places'
      <4> TAKE k \in p + 6 .. pos + 5
      <4>1. k \in lp + 6 .. n /\ k <= pos + 5
        BY <1>1, <2>2
      <4> QED
        BY <1>5, <1>8, <4>1
    <3>3. \A k \in 1 .. 3 : buffer'[p + k][1] = "head"
      <4> TAKE k \in 1 .. 3
      <4>1. lp + k \in 1 .. lp + 3
        BY <1>1
      <4> QED
        BY <1>4, <1>8, <2>2, <4>1
    <3> QED
      BY <1>2, <1>7, <2>2, <3>1, <3>2, <3>3
  <2>3. CASE p = pos + 5
    <3>1. p + 4 = pos + 9 /\ p + 5 = pos + 10
      BY <2>3
    <3>2. p + 5 + buffer'[p + 4][2] = n + 5
      BY <1>1, <1>7, <2>3, <3>1
    <3>3. \A k \in p + 6 .. n + 5 : k \in Places'
      <4> TAKE k \in p + 6 .. n + 5
      <4>1. k - 5 \in lp + 6 .. n /\ k - 5 > pos + 5 /\ (k - 5) + 5 = k
        BY <1>1, <2>3
      <4> QED
        BY <1>5, <1>8, <4>1
    <3> QED
      BY <1>1, <1>7, <2>3, <3>1, <3>2, <3>3
  <2> QED
    BY <1>1, <1>2, <1>3, <2>1, <2>2, <2>3
<1>11. ASSUME NEW b \in 6 .. req.size PROVE \E k \in Places' : buffer'[k] = Byte(b)
  <2>1. PICK k \in Places : buffer[k] = Byte(b)
    BY DEF RecordsInv, RecordsRejoin
  <2>2. CASE k <= pos + 5
    BY <1>5, <2>1, <2>2
  <2>3. CASE k > pos + 5
    BY <1>5, <2>1, <2>3
  <2> QED
    BY <1>1, <2>2, <2>3 DEF Places
<1>12. ASSUME NEW k \in Places' PROVE buffer'[k][2] \in 6 .. req.size
  BY <1>6 DEF RecordsInv, RecordsRejoin
<1>13. ASSUME NEW k \in Places', NEW m \in Places', k < m
       PROVE  buffer'[k][2] < buffer'[m][2]
  <2>1. \A x, y \in Places : x < y => buffer[x][2] < buffer[y][2]
    BY DEF RecordsInv, RecordsRejoin
  <2>2. k \in Int /\ m \in Int
    BY <1>1 DEF Places
  <2>3. CASE m <= pos + 5
    BY <1>1, <1>6, <1>13, <2>1, <2>2, <2>3
  <2>4. CASE k > pos + 10
    <3>1. k - 5 \in Places /\ buffer'[k] = buffer[k - 5]
      BY <1>6, <2>2, <2>4
    <3>2. m - 5 \in Places /\ buffer'[m] = buffer[m - 5] /\ k - 5 < m - 5
      BY <1>6, <1>13, <2>2, <2>4
    <3> QED
      BY <2>1, <3>1, <3>2
  <2>5. CASE k <= pos + 5 /\ m > pos + 10
    <3>1. k \in Places /\ buffer'[k] = buffer[k]
      BY <1>6, <2>2, <2>5
    <3>2. m - 5 \in Places /\ buffer'[m] = buffer[m - 5] /\ k < m - 5
      BY <1>6, <2>2, <2>5
    <3> QED
      BY <2>1, <3>1, <3>2
  <2> QED
    BY <1>1, <1>6, <2>2, <2>3, <2>4, <2>5
<1>14. RecordsRejoin'
  <2>1. (n <= BfSize)'
    BY DEF Room
  <2>2. \A p \in Heads' : (EndOf(p))' = p + 5 + buffer'[p + 4][2]
    BY DEF EndOf
  <2>3. req' = req /\ 0 \in Heads'
    BY <1>2, <1>8
  <2> QED
    BY <1>10, <1>11, <1>12, <1>13, <2>1, <2>2, <2>3 DEF RecordsRejoin, Byte
<1>15. AtRecord'
  <2>1. lp' \in Heads' /\ lp' + 5 + buffer'[lp' + 4][2] = n'
    <3>1. lp' + 4 = pos + 9
      OBVIOUS
    <3> QED
      BY <1>1, <1>2, <1>7, <3>1
  <2> QED
    BY <1>10, <2>1 DEF AtRecord, EndOf
<1> QED
  BY <1>14, <1>15

\* A step that leaves the buffer alone and divides no more.
LEMMA SameRecords ==
    ASSUME RecordsInv, UNCHANGED <<req, buffer>>, pc' = "tlsrec" => UNCHANGED <<pc, lp>>
    PROVE  RecordsRejoin' /\ AtRecord'
<1>1. UNCHANGED <<n, Heads, Places, Whole>>
  BY DEF n, Heads, Places, Whole
<1>2. \A p : (EndOf(p))' = EndOf(p)
  BY DEF EndOf
<1>3. RecordsRejoin'
  BY <1>1, <1>2 DEF RecordsInv, RecordsRejoin
<1>4. AtRecord'
  BY <1>1, <1>2 DEF RecordsInv, AtRecord
<1> QED
  BY <1>3, <1>4

\* A request that is one record, as on_desync_again() copies it.
LEMMA ContentJoins ==
    ASSUME IInv, buffer = Content(req), lp = 0,
           req.type = "https" => req.size > 5
    PROVE  RecordsRejoin /\ AtRecord
<1>1. n = req.size /\ req.size \in Nat /\ n <= BfSize
  BY ContentOf DEF IInv, TypeOK, Room, n
<1> SUFFICES ASSUME Whole PROVE RecordsRejoin /\ AtRecord
  BY <1>1 DEF RecordsRejoin, AtRecord
<1>2. req.type = "https" /\ req.size = 5 + req.record /\ req.size > 5 /\ req.record \in Nat
  BY SizesAssumption DEF Whole, IInv, TypeOK, Requests
<1>3. /\ buffer[4] = <<"size", req.record>> /\ buffer[5][1] = "low"
      /\ \A k \in 1 .. 3 : buffer[k][1] = "head"
      /\ \A k \in 6 .. n : buffer[k] = <<"byte", k>>
  <2>1. ASSUME NEW k \in Int, 1 <= k, k <= req.size
        PROVE  /\ k > 5 => buffer[k] = <<"byte", k>>
               /\ k = 4 => buffer[k] = <<"size", req.record>>
               /\ k = 5 => buffer[k] = <<"low", 0>>
               /\ k < 4 => buffer[k] = <<"head", k>>
    BY <1>1, <1>2, <2>1 DEF Content, Byte
  <2>2. 4 <= req.size /\ 5 <= req.size
    BY <1>1, <1>2
  <2>3. buffer[4] = <<"size", req.record>>
    BY <2>1, <2>2
  <2>4. buffer[5] = <<"low", 0>>
    BY <2>1, <2>2
  <2>5. ASSUME NEW k \in 1 .. 3 PROVE buffer[k] = <<"head", k>>
    BY <1>1, <2>1, <2>2
  <2>6. ASSUME NEW k \in 6 .. n PROVE buffer[k] = <<"byte", k>>
    BY <1>1, <2>1
  <2> QED
    BY <2>3, <2>4, <2>5, <2>6
<1>4. Places = 6 .. n
  <2>1. ASSUME NEW k \in Places PROVE k \in 6 .. n
    <3>1. k \in 1 .. n /\ buffer[k][1] = "byte"
      BY <2>1 DEF Places
    <3>2. k # 4 /\ k # 5 /\ k \notin 1 .. 3
      BY <1>3, <3>1
    <3> QED
      BY <1>1, <3>1, <3>2
  <2>2. ASSUME NEW k \in 6 .. n PROVE k \in Places
    BY <1>1, <1>3 DEF Places
  <2> QED
    BY <2>1, <2>2
<1>5. Heads = {0}
  <2>1. 0 \in Heads
    BY <1>1, <1>2, <1>3 DEF Heads
  <2>2. ASSUME NEW p \in Heads PROVE p = 0
    <3>1. p \in 0 .. n - 5 /\ buffer[p + 4][1] = "size"
      BY DEF Heads
    <3>2. p + 4 # 5 /\ p + 4 \notin 6 .. n
      BY <1>3, <3>1
    <3> QED
      BY <1>1, <3>1, <3>2
  <2> QED
    BY <2>1, <2>2
<1>6. EndOf(0) = n
  BY <1>1, <1>2, <1>3 DEF EndOf
<1>7. RecordsRejoin
  <2>1. ASSUME NEW b \in 6 .. req.size PROVE \E k \in Places : buffer[k] = Byte(b)
    BY <1>1, <1>3, <1>4 DEF Byte
  <2>2. \A k \in Places : buffer[k][2] = k /\ k \in 6 .. req.size
    BY <1>1, <1>3, <1>4
  <2>3. ASSUME NEW p \in Heads
        PROVE  EndOf(p) \in Heads \cup {n} /\ \A k \in p + 6 .. EndOf(p) : k \in Places
    <3>1. p = 0 /\ EndOf(p) = n
      BY <1>5, <1>6
    <3>2. p + 6 .. EndOf(p) = 6 .. n
      BY <3>1
    <3> QED
      BY <1>4, <3>1, <3>2
  <2>4. \A k, m \in Places : k < m => buffer[k][2] < buffer[m][2]
    BY <2>2
  <2> QED
    BY <1>1, <1>5, <2>1, <2>2, <2>3, <2>4 DEF RecordsRejoin
<1>8. AtRecord
  BY <1>3, <1>5, <1>6 DEF AtRecord
<1> QED
  BY <1>7, <1>8

LEMMA RecJoins ==
    ASSUME RecordsInv, Rec
    PROVE  RecordsRejoin' /\ AtRecord'
<1> DEFINE pos == RecPosition(tlsrec[i])
<1>1. TypeOK /\ Room' /\ lp \in Nat /\ n \in Nat
  BY RecKeeps, Numbers DEF RecordsInv, IInv
<1>2. pos \in Int
  <2>1. tlsrec[i] \in RecOptions
    BY <1>1, Numbers, ElementOf DEF Rec, NoRecords, TypeOK
  <2> QED
    BY <1>1, <2>1, PositionTypes
<1>3. CASE pos < lp \/ Refused(pos)
  BY <1>3, SameRecords DEF Rec, StartParts, input
<1>4. CASE ~(pos < lp \/ Refused(pos))
  <2>1. PICK size \in RecordSizes :
          buffer' = IF size < pos - lp THEN Overrun ELSE Divided(pos, size)
    BY <1>4 DEF Rec
  <2>2. lp' = pos + 5 /\ pc = "tlsrec" /\ UNCHANGED <<req, pc>>
    BY <1>4 DEF Rec, input
  <2>3. pos \in Nat /\ lp <= pos /\ pos + 5 <= n
    BY <1>1, <1>2, <1>4 DEF Refused
  <2> HIDE DEF pos
  <2>4. CASE Whole
    <3>1. size = n - lp - 5
      BY <2>1, <2>2, <2>4, LastRecord
    <3>2. buffer' = Divided(pos, n - lp - 5)
      BY <1>1, <2>1, <2>3, <3>1
    <3> QED
      BY <1>1, <2>2, <2>3, <2>4, <3>2, DivisionJoins
  <2>5. CASE ~Whole
    BY <1>1, <2>2, <2>5 DEF RecordsRejoin, AtRecord, Whole, Room
  <2> QED
    BY <2>4, <2>5
<1> QED
  BY <1>3, <1>4

\* A request of TLS has room for the header of a record.
HasHeader == req.type = "https" => req.size > 5

JoinInv == RecordsInv /\ HasHeader

LEMMA InitJoins == Init => JoinInv
<1> SUFFICES ASSUME Init PROVE JoinInv
  OBVIOUS
<1>1. IInv /\ HasHeader /\ buffer = Content(req) /\ lp = 0
  BY InitKeeps DEF Init, HasHeader
<1> QED
  BY <1>1, ContentJoins DEF JoinInv, RecordsInv, HasHeader

LEMMA NextJoins == JoinInv /\ [Next]_vars => JoinInv'
<1> SUFFICES ASSUME JoinInv, [Next]_vars PROVE JoinInv'
  OBVIOUS
<1>1. RecordsInv /\ HasHeader /\ IInv
  BY DEF JoinInv, RecordsInv
<1>2. IInv'
  BY <1>1, NextKeeps
<1>3. req' = req
  BY DEF Next, RecsDone, Rec, StartParts, Skip, Cancel, Part, PartCut, PartsDone,
     StartRest, Rest, Fail, Complete, Again, Done, input, vars
<1>4. RecordsRejoin' /\ AtRecord'
  <2>1. CASE UNCHANGED vars
    BY <1>1, <2>1, SameRecords DEF vars, input
  <2>2. CASE RecsDone
    BY <1>1, <2>2, SameRecords DEF RecsDone, StartParts, input
  <2>3. CASE Rec
    BY <1>1, <2>3, RecJoins
  <2>4. CASE Skip \/ Cancel \/ PartsDone \/ Fail
    BY <1>1, <2>4, SameRecords DEF Skip, Cancel, PartsDone, StartRest, Fail, InParts, input
  <2>5. CASE Part \/ PartCut
    BY <1>1, <2>5, SameRecords DEF Part, PartCut, Returns, InParts, input
  <2>6. CASE Rest
    BY <1>1, <2>6, SameRecords DEF Rest, Returns, input
  <2>7. CASE Complete
    BY <1>1, <2>7, SameRecords DEF Complete, input
  <2>8. CASE Again
    <3>1. buffer' = Content(req') /\ lp' = 0 /\ (req.type = "https" => req.size > 5)'
      BY <1>1, <1>3, <2>8 DEF Again, HasHeader
    <3>2. (buffer = Content(req))' /\ (lp = 0)'
      BY <3>1
    <3>3. (IInv /\ buffer = Content(req) /\ lp = 0
             /\ (req.type = "https" => req.size > 5) => RecordsRejoin /\ AtRecord)'
      BY ContentJoins, PTL
    <3> QED
      BY <1>2, <3>1, <3>2, <3>3
  <2>9. CASE Done
    BY <2>1, <2>9 DEF Done
  <2> QED
    BY <2>1, <2>2, <2>3, <2>4, <2>5, <2>6, <2>7, <2>8, <2>9 DEF Next
<1> QED
  BY <1>1, <1>2, <1>3, <1>4 DEF JoinInv, RecordsInv, HasHeader

-----------------------------------------------------------------------------
(* Theorems                                                                *)

\* The arguments and variables of desync() stay in their ranges.
THEOREM TypeCorrect == Spec => []TypeOK
<1>1. IInv => TypeOK
  BY DEF IInv
<1> QED
  BY <1>1, InitKeeps, NextKeeps, PTL DEF Spec

\* The headers that are added never take more memory than the buffer has, and a
\* part is taken from inside the bytes in use.
THEOREM RoomIsKept == Spec => []Room
<1>1. IInv => Room
  BY DEF IInv
<1> QED
  BY <1>1, InitKeeps, NextKeeps, PTL DEF Spec

\* Unless a part with an out-of-band byte or the rest is cut short, the server
\* gets the buffer from its start, each byte once; and all of it when the request
\* counts as sent, unless records were added.
THEOREM RequestDeliveredOnce == Spec => []DeliveredOnce
<1>1. IInv => DeliveredOnce
  BY Numbers DEF IInv, InOrder, DeliveredOnce
<1> QED
  BY <1>1, InitKeeps, NextKeeps, PTL DEF Spec

\* However a request that is one record is divided, each header says where the
\* next one is, and between them are the bytes of the request, all and in order.
THEOREM RecordsStayJoined == Spec => []RecordsRejoin
<1>1. JoinInv => RecordsRejoin
  BY DEF JoinInv, RecordsInv
<1> QED
  BY <1>1, InitJoins, NextJoins, PTL DEF Spec

==============================================================================
