-------------------------------- MODULE Desync --------------------------------
(***************************************************************************)
(* desync(): the request of a client is cut into TLS records at the places  *)
(* given by --tlsrec and sent in the parts given by --split, --disorder,    *)
(* --oob, --disoob and --fake; on_desync_again() calls it again for what    *)
(* the socket did not take.  One round of each loop is one action.          *)
(*                                                                         *)
(* Connection has several pieces of a request, and takes from here where    *)
(* desync() may stop and what it returns.  What fake and out-of-band bytes  *)
(* hold and the time-to-live of a packet are left out, and so is mod_http(),*)
(* which rewrites headers in place.                                         *)
(***************************************************************************)
EXTENDS Integers, Sequences

CONSTANTS
    BfSize,         \* params.bfsize
    Sizes,          \* lengths a request may have
    Records,        \* lengths the first TLS record of a request may give
    Hosts,          \* offsets of the host name in a request
    RecPositions,   \* numbers given to --tlsrec
    PartPositions,  \* numbers given to the other options
    FromEnd,        \* numbers given with a minus sign to either
    MaxRecs,        \* bound on dp.tlsrec_n
    MaxParts,       \* bound on dp.parts_n
    MaxOptions,     \* bound on their sum
    MaxCalls        \* bound on the calls of desync() for one request
                    \* (the third starts at a wrong place: see Connection)

ASSUME SizesAssumption ==
    /\ Sizes \subseteq Nat \ {0} /\ Records \subseteq Nat /\ Hosts \subseteq Nat
    /\ BfSize \in Nat /\ \A s \in Sizes : s <= BfSize
ASSUME OptionsAssumption ==
    /\ RecPositions \subseteq Nat /\ PartPositions \subseteq Nat
    /\ FromEnd \subseteq Nat
    /\ {MaxRecs, MaxParts, MaxOptions} \subseteq Nat /\ MaxCalls \in {1, 2}

\* What parse_tls() and parse_http() find, and struct part.
Requests ==
    [type : {"https", "http", "other"}, size : Sizes, record : Records, host : Hosts]
Negative == {-p : p \in FromEnd}
RecOptions == [flag : {"none", "sni"}, pos : RecPositions \cup Negative]
PartOptions ==
    [m : {"send", "fake", "oob"}, flag : {"none", "sni", "host", "end"},
     pos : PartPositions \cup Negative]

Lists(S, max) == UNION {[1 .. k -> S] : k \in 0 .. max}

\* A byte of the buffer: the k-th of the request, one that belongs to the header
\* of a record (<<"size", s>> is the first of the two that hold a length), or
\* one that an earlier use of the buffer has left behind.
Byte(k) == <<"byte", k>>
Sized(s) == << <<"size", s>>, <<"low", 0>> >>
Stale == <<"stale", 0>>

Cells == {"byte", "head", "size", "low", "stale"} \X Nat

VARIABLES
    req,     \* the request
    tlsrec,  \* dp.tlsrec
    parts,   \* dp.parts
    pc,      \* where desync() is, or how it ended
    offset,  \* val->buff.offset
    buffer,  \* buffer, of n bytes
    lp,      \* lp
    i,       \* the round of the loop, from 1
    ret,     \* what desync() returned
    calls,   \* calls of desync() for this request
    wire,    \* the places in buffer of the bytes that have been sent
    cut      \* the kinds of sends that were not accepted as a whole

input == <<req, tlsrec, parts>>
sent  == <<wire, cut>>
vars  == <<input, pc, offset, buffer, lp, i, ret, calls, sent>>

n == Len(buffer)

\* The copy that on_desync_again() makes of val->buff.
Content(r) ==
    [k \in 1 .. r.size |->
        IF r.type # "https" \/ k > 5 THEN Byte(k)
        ELSE IF k = 4 THEN <<"size", r.record>>
        ELSE IF k = 5 THEN <<"low", 0>> ELSE <<"head", k>>]

Init ==
    /\ req \in Requests
    /\ req.type = "https" => req.size > 5 /\ req.host \in 5 .. req.size
    /\ req.type = "http" => req.host \in 0 .. req.size
    /\ tlsrec \in Lists(RecOptions, MaxRecs)
    /\ parts \in Lists(PartOptions, MaxParts)
    /\ Len(tlsrec) + Len(parts) <= MaxOptions
    /\ pc = "tlsrec"
    /\ offset = 0
    /\ buffer = Content(req)
    /\ lp = 0 /\ i = 1 /\ ret = 0 /\ calls = 1
    /\ wire = << >> /\ cut = {}

-----------------------------------------------------------------------------
(* Records                                                                 *)

\* The rounds before have added five bytes each.
RecPosition(part) ==
    LET pos == part.pos + (i - 1) * 5
    IN  IF part.flag = "sni" THEN pos + req.host - 5
        ELSE IF pos < 0 THEN pos + n ELSE pos

\* part_tls() on buffer + lp with pos - lp returns 0.
Refused(pos) == n - lp < 3 \/ BfSize - n < 5 \/ pos + 5 > n

\* The length it reads there, any number where no header is.
RecordSizes ==
    IF buffer[lp + 4][1] = "size" THEN {buffer[lp + 4][2]} ELSE Records

Divided_SameSize(pos, size) ==
    SubSeq(buffer, 1, lp + 3) \o Sized(pos - lp)
        \o SubSeq(buffer, lp + 6, pos + 5)
        \o SubSeq(buffer, lp + 1, lp + 3) \o Sized(size)
        \o SubSeq(buffer, pos + 6, n)

\* It makes room for a header after pos bytes of the record and fills in both.
Divided(pos, size) ==
    SubSeq(buffer, 1, lp + 3) \o Sized(pos - lp)
        \o SubSeq(buffer, lp + 6, pos + 5)
        \o SubSeq(buffer, lp + 1, lp + 3) \o Sized(size - (pos - lp))
        \o SubSeq(buffer, pos + 6, n)

\* It returns without a change when the record ends before pos, but desync()
\* counts five bytes more.
Overrun == buffer \o [k \in 1 .. 5 |-> Stale]

StartParts ==
    /\ pc' = "parts" /\ lp' = offset /\ i' = 1
    /\ UNCHANGED <<input, offset, buffer, ret, calls, sent>>

NoRecords == req.type # "https" \/ i > Len(tlsrec)

RecsDone == pc = "tlsrec" /\ NoRecords /\ StartParts

Rec ==
    /\ pc = "tlsrec" /\ ~NoRecords
    /\ LET pos == RecPosition(tlsrec[i])
       IN  IF pos < lp \/ Refused(pos)
             THEN StartParts
             ELSE /\ \E size \in RecordSizes :
                       buffer' = IF size < pos - lp THEN Overrun
                                                    ELSE Divided(pos, size)
                  /\ lp' = pos + 5 /\ i' = i + 1
                  /\ UNCHANGED <<input, pc, offset, ret, calls, sent>>

-----------------------------------------------------------------------------
(* Parts                                                                   *)

\* desync() has handed bytes a + 1 .. b of the buffer to the socket.
Wires(a, b) == wire' = wire \o [k \in 1 .. b - a |-> a + k]

Returns(r) == pc' = "returned" /\ ret' = r

InParts == pc = "parts" /\ i <= Len(parts)

Position(part) ==
    CASE part.flag \in {"sni", "host"}                  -> part.pos + req.host
      [] part.flag \in {"none", "end"} /\ (part.pos < 0 \/ part.flag = "end")
                                                        -> part.pos + n
      [] part.flag = "none" /\ part.pos >= 0            -> part.pos

\* "after EAGAIN"
Passed(pos) == offset # 0 /\ pos <= offset

Skipped(part) ==
    \/ part.flag = "sni" /\ req.type # "https"
    \/ part.flag = "host" /\ req.type # "http"
    \/ Passed(Position(part))

Cancelled_NotBehind(pos) == pos < 0 \/ pos > n

Cancelled(pos) == pos < 0 \/ pos > n \/ pos < lp

Skip ==
    /\ InParts /\ Skipped(parts[i])
    /\ i' = i + 1
    /\ UNCHANGED <<input, pc, offset, buffer, lp, ret, calls, sent>>

StartRest ==
    /\ pc' = "rest"
    /\ UNCHANGED <<input, offset, buffer, lp, i, ret, calls, sent>>

PartsDone == pc = "parts" /\ i > Len(parts) /\ StartRest

Cancel ==
    /\ InParts /\ ~Skipped(parts[i]) /\ Cancelled(Position(parts[i]))
    /\ StartRest

\* The bytes a call hands over: send_oob() adds one, and send_fake() is not
\* called for none.
Given(part) == Position(part) - lp + (IF part.m = "oob" THEN 1 ELSE 0)

\* What desync() makes of a count of accepted bytes.
Counted(part, a) == IF part.m = "oob" THEN a - 1 ELSE a

\* The socket takes the part.
Part ==
    /\ InParts /\ ~Skipped(parts[i]) /\ ~Cancelled(Position(parts[i]))
    /\ Wires(lp, Position(parts[i]))
    /\ lp' = Position(parts[i]) /\ i' = i + 1
    /\ UNCHANGED <<input, pc, offset, buffer, ret, calls, cut>>

\* It takes less: nothing (EAGAIN), or a bytes.
PartCut ==
    /\ InParts /\ ~Skipped(parts[i]) /\ ~Cancelled(Position(parts[i]))
    /\ \E a \in 0 .. Given(parts[i]) - 1 :
         /\ Wires(lp, lp + a)
         /\ Returns(lp + IF a = 0 THEN 0 ELSE Counted(parts[i], a))
         /\ cut' = cut \cup IF a = 0 THEN {} ELSE {parts[i].m}
    /\ UNCHANGED <<input, offset, buffer, lp, i, calls>>

\* "send all/rest": the count is not looked at.
Rest ==
    /\ pc = "rest"
    /\ IF lp < n
         THEN \E a \in 0 .. n - lp :
                /\ Wires(lp, lp + a)
                /\ Returns(IF a = 0 THEN lp ELSE n)
                /\ cut' = cut \cup IF a \in {0, n - lp} THEN {} ELSE {"rest"}
         ELSE Returns(n) /\ UNCHANGED sent
    /\ UNCHANGED <<input, offset, buffer, lp, i, calls>>

\* A system call fails and desync() returns -1.
Fail ==
    /\ pc \in {"parts", "rest"}
    /\ pc' = "failed"
    /\ UNCHANGED <<input, offset, buffer, lp, i, ret, calls, sent>>

-----------------------------------------------------------------------------
(* on_desync_again()                                                       *)

\* It goes by the size of the request, which the records have not changed.
Complete ==
    /\ pc = "returned" /\ ret >= req.size
    /\ pc' = "complete"
    /\ UNCHANGED <<input, offset, buffer, lp, i, ret, calls, sent>>

Again ==
    /\ pc = "returned" /\ ret < req.size /\ calls < MaxCalls
    /\ pc' = "tlsrec"
    /\ offset' = offset + ret
    /\ buffer' = Content(req)
    /\ lp' = 0 /\ i' = 1 /\ calls' = calls + 1
    /\ UNCHANGED <<input, ret, sent>>

Done ==
    /\ pc \in {"failed", "complete"} \/ (pc = "returned" /\ calls = MaxCalls)
    /\ UNCHANGED vars

Next ==
    \/ RecsDone \/ Rec
    \/ Skip \/ Cancel \/ Part \/ PartCut \/ PartsDone \/ Rest \/ Fail
    \/ Complete \/ Again
    \/ Done

Spec == Init /\ [][Next]_vars

-----------------------------------------------------------------------------
(* Properties                                                              *)

\* Every variable keeps its type; places in the buffer are counted from 0.
TypeOK ==
    /\ req \in Requests
    /\ tlsrec \in Seq(RecOptions) /\ parts \in Seq(PartOptions)
    /\ pc \in {"tlsrec", "parts", "rest", "returned", "complete", "failed"}
    /\ buffer \in Seq(Cells)
    /\ {offset, lp, ret} \subseteq Nat /\ {i, calls} \subseteq Nat \ {0}
    /\ wire \in Seq(Nat)
    /\ cut \subseteq {"send", "fake", "oob", "rest"}

Heads == {p \in 0 .. n - 5 : buffer[p + 4][1] = "size"}

EndOf(p) == p + 5 + buffer[p + 4][2]

\* The places of the bytes of the request, in the buffer.
Places == {k \in 1 .. n : buffer[k][1] = "byte"}

\* The request is one whole record.
Whole == req.type = "https" /\ req.size = 5 + req.record

\* However the options divide a request that is one whole record, a server that
\* reads the records one after the other finds the bytes of that record, all of
\* them and in order: each header says where the next one is. No request outgrows
\* the buffer.
RecordsRejoin ==
    /\ n <= BfSize
    /\ Whole =>
         /\ 0 \in Heads
         /\ \A p \in Heads :
              /\ EndOf(p) \in Heads \cup {n}
              /\ \A k \in p + 6 .. EndOf(p) : k \in Places
         /\ \A b \in 6 .. req.size : \E k \in Places : buffer[k] = Byte(b)
         /\ \A k \in Places : buffer[k][2] \in 6 .. req.size
         /\ \A k, m \in Places : k < m => buffer[k][2] < buffer[m][2]

\* Whatever parts are asked for, skipped or cancelled and wherever the socket
\* stops, the server gets the buffer from its start, no byte twice and none left
\* out, and on_desync_again() takes the request for sent only when it is. The
\* sends whose count is not right are excepted: an out-of-band part and the rest
\* that are cut short, and for the second half also added records.
DeliveredOnce ==
    cut \cap {"oob", "rest"} = {} =>
        /\ wire = [k \in 1 .. Len(wire) |-> k]
        /\ pc = "complete" /\ n = req.size => Len(wire) = n

=============================================================================
