-------------------------- MODULE EventLoop_proofs --------------------------
(***************************************************************************)
(* Proofs about the event loop, for a pool of any size: its arrays stay     *)
(* consistent, it implements EventPool, and the pairs of its items always   *)
(* fit.                                                                     *)
(***************************************************************************)
EXTENDS EventLoop, TLAPS

USE MaxAssumption, IterMaxAssumption, NilAssumption
    DEF MaxAssumption, IterMaxAssumption, NilAssumption

LEMMA RootIsItem == Root \in Items
  BY DEF Root, Items

\* The places before, at and after the end of the items in use.
LEMMA Places ==
    ASSUME NEW n \in 0 .. Max
    PROVE  /\ n + 1 <= Max => n \in Items
           /\ n + 2 <= Max => n + 1 \in Items
           /\ n # 0 => n - 1 \in Items
  BY DEF Items

\* Where a free place exists, the item of it is one.
LEMMA FirstIsItem ==
    ASSUME TypeOK, Free(1)
    PROVE  count \in Items /\ First \in Items
  <1>1. count \in Items
    BY Places DEF TypeOK, Free
  <1> QED
    BY <1>1 DEF TypeOK, First

LEMMA SecondIsItem ==
    ASSUME TypeOK, Free(2)
    PROVE  /\ count \in Items /\ First \in Items
           /\ count + 1 \in Items /\ Second \in Items
  <1>1. count \in Items /\ count + 1 \in Items
    <2>1. count \in 0 .. Max /\ count + 2 <= Max
      BY DEF TypeOK, Free
    <2>2. count + 1 <= Max
      BY <2>1
    <2> QED
      BY <2>1, <2>2, Places
  <1> QED
    BY <1>1 DEF TypeOK, First, Second

-----------------------------------------------------------------------------
(* Types                                                                   *)

LEMMA TypeInit == Init => TypeOK
  BY RootIsItem DEF Init, TypeOK, Types, Items

\* Only the count depends on more than the types: del_event() must not find
\* the pool empty.
LEMMA TypeStep ==
    ASSUME TypeOK, [Next]_vars, todo \in live => count # 0
    PROVE  TypeOK'
  <1> USE DEF TypeOK, array, conns, stamps, Returns, Goes, Closes, Types
  <1>s. ASSUME NEW S \in SUBSET Items, Stamp(S)
        PROVE  /\ modIter' \in [Items -> 0 .. IterMax]
               /\ iters' \in 0 .. IterMax
               /\ touched' \subseteq Items
    BY <1>s DEF Stamp
  <1>a. ASSUME Add1
        PROVE  /\ links' \in [Items -> Items] /\ count' \in 0 .. Max
               /\ index' \in [Items -> Items] /\ live' \subseteq Items
               /\ modIter' \in [Items -> 0 .. IterMax]
               /\ iters' \in 0 .. IterMax /\ touched' \subseteq Items
               /\ First \in Items
    <2>1. count \in Items /\ First \in Items
      BY <1>a, FirstIsItem DEF Add1
    <2>2. {First} \in SUBSET Items
      BY <2>1
    <2> QED
      BY <1>a, <1>s, <2>1, <2>2 DEF Add1, Free
  <1>b. ASSUME Add2
        PROVE  /\ links' \in [Items -> Items] /\ count' \in 0 .. Max
               /\ index' \in [Items -> Items] /\ live' \subseteq Items
               /\ modIter' \in [Items -> 0 .. IterMax]
               /\ iters' \in 0 .. IterMax /\ touched' \subseteq Items
               /\ First \in Items /\ Second \in Items
    <2>1. count \in Items /\ First \in Items /\ count + 1 \in Items /\ Second \in Items
      BY <1>b, SecondIsItem DEF Add2
    <2>2. {First, Second} \in SUBSET Items
      BY <2>1
    <2> QED
      BY <1>b, <1>s, <2>1, <2>2 DEF Add2, Free
  <1>c. ASSUME AddNone
        PROVE  /\ links' \in [Items -> Items] /\ count' \in 0 .. Max
               /\ index' \in [Items -> Items] /\ live' \subseteq Items
               /\ modIter' \in [Items -> 0 .. IterMax]
               /\ iters' \in 0 .. IterMax /\ touched' \subseteq Items
               /\ First \in Items /\ conn' \subseteq Items
               /\ pair' \in [Items -> Items \cup {Nil}]
    <2>1. count \in Items /\ First \in Items
      BY <1>c, FirstIsItem DEF AddNone
    <2>2. {First} \in SUBSET Items
      BY <2>1
    <2> QED
      BY <1>c, <1>s, <2>1, <2>2 DEF AddNone
  <1>1. CASE Fetch
    BY <1>1 DEF Fetch, Idle, NextIter
  <1>2. CASE Delete
    <2>1. CASE todo \in live
      <3>1. todo \in Items /\ {todo} \in SUBSET Items
        BY <2>1
      <3>2. count # 0 => count - 1 \in Items
        BY Places
      <3>3. links' \in [Items -> Items] /\ index' \in [Items -> Items]
        BY <1>2, <2>1, <3>1, <3>2 DEF Delete, SwapLinks, MovedIndex
      <3>4. pair' \in [Items -> Items \cup {Nil}] /\ todo' \in Items \cup {Nil}
        BY <1>2, <2>1, <3>1 DEF Delete, Unlinked
      <3>5. count' \in 0 .. Max /\ live' \subseteq Items
        BY <1>2, <2>1 DEF Delete
      <3>6. Stamp({todo}) /\ UNCHANGED <<type, conn, ready, loop>>
            /\ cur' \in Items \cup {Nil}
        BY <1>2, <2>1 DEF Delete
      <3> QED
        BY <1>s, <3>1, <3>3, <3>4, <3>5, <3>6
    <2>2. CASE todo \notin live
      BY <1>2, <2>2 DEF Delete
    <2> QED
      BY <2>1, <2>2
  <1>3. CASE Accept
    BY <1>3, <1>a DEF Accept
  <1>4. CASE AcceptRefused
    BY <1>4, <1>c DEF AcceptRefused
  <1>5. CASE Exit
    BY <1>5 DEF Exit
  <1>6. ASSUME NEW v \in Items, NextEvent(v)
        PROVE  TypeOK'
    BY <1>6 DEF NextEvent
  <1>7. ASSUME NEW v \in Items, Handler(v)
        PROVE  TypeOK'
    <2>1. CASE Connect(v)
      BY <1>a, <2>1 DEF Connect
    <2>2. CASE ConnectRefused(v)
      BY <1>c, <2>2 DEF ConnectRefused
    <2>3. CASE Associate(v)
      BY <1>b, <2>3 DEF Associate
    <2>4. CASE AssociateFull(v)
      BY <2>4 DEF AssociateFull
    <2>5. CASE Connected(v)
      BY <2>5 DEF Connected
    <2>6. CASE Desync(v)
      <3>1. PICK t \in {"DESYNC", "PRE_TUNNEL"} :
               type' = [type EXCEPT ![RemoteOf(v)] = t]
        BY <2>6 DEF Desync
      <3>2. t \in Types
        BY <3>1
      <3>3. type' \in [Items -> Types]
        BY <3>1, <3>2
      <3> QED
        BY <2>6, <3>3 DEF Desync
    <2>7. CASE DesyncFull(v)
      BY <2>7 DEF DesyncFull, ToTunnel
    <2>8. CASE Answered(v)
      BY <2>8 DEF Answered, ToTunnel
    <2>9. CASE Reconnect(v)
      BY <1>a, <2>9 DEF Reconnect, Repaired
    <2>10. CASE ReconnectRefused(v)
      BY <1>c, <2>10 DEF ReconnectRefused, ToTunnel
    <2>11. CASE Close(v)
      BY <2>11 DEF Close
    <2>12. CASE Return(v)
      BY <2>12 DEF Return
    <2> QED
      BY <1>7, <2>1, <2>2, <2>3, <2>4, <2>5, <2>6, <2>7, <2>8, <2>9, <2>10,
         <2>11, <2>12 DEF Handler
  <1>8. CASE UNCHANGED vars
    BY <1>8 DEF vars
  <1> QED
    BY <1>1, <1>2, <1>3, <1>4, <1>5, <1>6, <1>7, <1>8 DEF Next, Ended
-----------------------------------------------------------------------------
(* The arrays of the pool                                                  *)

\* Comparing places, kept apart from the arrays.
LEMMA PlaceOrder ==
    ASSUME NEW n \in 0 .. Max, NEW i \in Items
    PROVE  /\ i < n + 1 <=> i < n \/ i = n
           /\ i < n + 2 <=> i < n \/ i = n \/ i = n + 1
           /\ i < n - 1 <=> i < n /\ i # n - 1
           /\ ~(n < n) /\ ~(n + 1 < n) /\ n - 1 < n
  BY DEF Items

LEMMA FirstIsFree ==
    ASSUME TypeOK, Consistent, Free(1)
    PROVE  First \in Items \ live /\ First # Root
  BY FirstIsItem DEF Consistent, First, TypeOK

LEMMA SecondIsFree ==
    ASSUME TypeOK, Consistent, Free(2)
    PROVE  Second \in Items \ live /\ Second # Root /\ Second # First
  BY SecondIsItem DEF Consistent, First, Second, TypeOK

LEMMA Add1Consistent ==
    ASSUME TypeOK, Consistent, Add1
    PROVE  Consistent'
  <1>1. count \in Items /\ First \in Items \ live
    BY FirstIsItem, FirstIsFree DEF Add1
  <1>2. \A i \in Items : links'[i] \in live' <=> i < count'
    <2>1. \A i \in Items : i < count' <=> i < count \/ i = count
      BY PlaceOrder DEF Add1, TypeOK
    <2> QED
      BY <1>1, <2>1 DEF Consistent, Add1, First
  <1>3. \A v \in live' : links'[index'[v]] = v
    BY <1>1 DEF Consistent, Add1, First, TypeOK
  <1> QED
    BY <1>2, <1>3 DEF Consistent, Add1

LEMMA Add2Consistent ==
    ASSUME TypeOK, Consistent, Add2
    PROVE  Consistent'
  <1>1. /\ count \in Items /\ First \in Items \ live
        /\ count + 1 \in Items /\ Second \in Items \ live /\ Second # First
    <2>1. Free(1) /\ Free(2)
      BY DEF Add2, Free, TypeOK
    <2> QED
      BY <2>1, SecondIsItem, FirstIsFree, SecondIsFree
  <1>2. \A i \in Items : links'[i] \in live' <=> i < count'
    <2>1. \A i \in Items : i < count' <=> i < count \/ i = count \/ i = count + 1
      BY PlaceOrder DEF Add2, TypeOK
    <2> SUFFICES ASSUME NEW i \in Items PROVE links'[i] \in live' <=> i < count'
      OBVIOUS
    <2>2. live' = live \cup {First, Second} /\ links' = links
      BY DEF Add2
    <2>3. links[i] = First <=> i = count
      BY <1>1 DEF Consistent, First
    <2>4. links[i] = Second <=> i = count + 1
      BY <1>1 DEF Consistent, Second
    <2>5. links[i] \in live <=> i < count
      BY DEF Consistent
    <2>6. links'[i] \in live' <=> links[i] \in live \/ links[i] = First \/ links[i] = Second
      BY <2>2
    <2> QED
      BY <2>1, <2>3, <2>4, <2>5, <2>6
  <1>3. \A v \in live' : links'[index'[v]] = v
    BY <1>1 DEF Consistent, Add2, First, Second, TypeOK
  <1> QED
    BY <1>2, <1>3 DEF Consistent, Add2

LEMMA AddNoneConsistent ==
    ASSUME TypeOK, Consistent, AddNone
    PROVE  Consistent'
  <1>1. First \in Items \ live
    BY FirstIsFree DEF AddNone
  <1> QED
    BY <1>1 DEF Consistent, AddNone, TypeOK

\* The place of an item in use.
LEMMA PlaceOf ==
    ASSUME TypeOK, Consistent, NEW v \in live
    PROVE  /\ index[v] \in Items /\ links[index[v]] = v /\ index[v] < count
           /\ count # 0 /\ count - 1 \in Items
  <1>1. index[v] \in Items /\ links[index[v]] = v /\ index[v] < count
    BY DEF TypeOK, Consistent
  <1>2. count # 0
    BY <1>1 DEF TypeOK, Items
  <1> QED
    BY <1>1, <1>2, Places DEF TypeOK

LEMMA DeleteConsistent ==
    ASSUME TypeOK, Consistent, Delete, todo \in live, todo # Root
    PROVE  Consistent'
  <1> DEFINE k == index[todo]
             last == count - 1
             w == links[last]
  <1>1. /\ k \in Items /\ links[k] = todo /\ k < count /\ last \in Items
        /\ w \in live
    <2>1. k \in Items /\ links[k] = todo /\ k < count /\ last \in Items
      BY PlaceOf
    <2>2. last < count
      BY DEF TypeOK
    <2> QED
      BY <2>1, <2>2 DEF Consistent
  <1>2. \A i \in Items :
           links'[i] = IF i = last THEN todo ELSE IF i = k THEN w ELSE links[i]
    BY <1>1 DEF Delete, SwapLinks, TypeOK
  <1>3. \A v \in Items : index'[v] = IF v = w THEN k ELSE index[v]
    BY <1>1 DEF Delete, MovedIndex, TypeOK
  <1>4. live' = live \ {todo} /\ count' = last
    BY DEF Delete
  <1>5. k # last => w # todo
    BY <1>1 DEF Consistent
  <1> HIDE DEF k, last, w
  <1>6. \A i, j \in Items : links'[i] = links'[j] => i = j
    <2> SUFFICES ASSUME NEW i \in Items, NEW j \in Items, links'[i] = links'[j]
                 PROVE  i = j
      OBVIOUS
    <2>1. \A x, y \in Items : links[x] = links[y] => x = y
      BY DEF Consistent
    <2> QED
      BY <1>1, <1>2, <1>5, <2>1 DEF w
  <1>7. \A i \in Items : links'[i] \in live' <=> i < count'
    <2> SUFFICES ASSUME NEW i \in Items PROVE links'[i] \in live' <=> i < count'
      OBVIOUS
    <2>1. CASE i = last
      BY <1>2, <1>4, <2>1 DEF last, TypeOK
    <2>2. CASE i = k /\ i # last
      <3>1. links'[i] \in live'
        BY <1>1, <1>2, <1>4, <1>5, <2>2
      <3>2. i < count'
        BY <1>1, <1>4, <2>2, PlaceOrder DEF last, TypeOK
      <3> QED
        BY <3>1, <3>2
    <2>3. CASE i # k /\ i # last
      <3>1. links'[i] = links[i] /\ links[i] # todo
        BY <1>1, <1>2, <2>3 DEF Consistent
      <3>2. i < count <=> i < count'
        BY <1>4, <2>3, PlaceOrder DEF last, TypeOK
      <3> QED
        BY <1>4, <3>1, <3>2 DEF Consistent
    <2> QED
      BY <2>1, <2>2, <2>3
  <1>8. \A v \in live' : links'[index'[v]] = v
    <2> SUFFICES ASSUME NEW v \in live' PROVE links'[index'[v]] = v
      OBVIOUS
    <2>1. v \in live /\ v # todo /\ v \in Items
      BY <1>4 DEF TypeOK
    <2>2. CASE v = w
      BY <1>1, <1>2, <1>3, <1>5, <2>1, <2>2 DEF w
    <2>3. CASE v # w
      <3>1. index[v] \in Items /\ links[index[v]] = v
        BY <2>1, PlaceOf
      <3>2. index[v] # k /\ index[v] # last
        BY <1>1, <2>1, <2>3, <3>1 DEF w
      <3> QED
        BY <1>2, <1>3, <2>1, <2>3, <3>1, <3>2
    <2> QED
      BY <2>2, <2>3
  <1> QED
    BY <1>4, <1>6, <1>7, <1>8 DEF Consistent

-----------------------------------------------------------------------------
(* The invariant                                                           *)

\* What next_event() and del_event() rely on besides the arrays: an item that
\* came or went in this batch carries the number of the batch, a report still
\* to be handled is of an item in use or of such a one, and the listening
\* socket is nobody's pair.
Fresh ==
    /\ \A v \in touched : modIter[v] = iters
    /\ loop = "running" => ready \subseteq live \cup touched
    /\ \A v \in Items : pair[v] # Root
    /\ type[Root] = "ACCEPT"
    /\ todo # Nil => loop = "running" /\ cur # Nil /\ todo # Root

IInv == TypeOK /\ LinksConsistent /\ Fresh

LEMMA InitIInv == Init => IInv
  <1> SUFFICES ASSUME Init PROVE IInv
    OBVIOUS
  <1>1. TypeOK
    BY TypeInit
  <1>2. Consistent
    BY RootIsItem DEF Init, Consistent, Items, Root
  <1>3. Fresh
    BY RootIsItem DEF Init, Fresh
  <1> QED
    BY <1>1, <1>2, <1>3 DEF IInv, LinksConsistent

LEMMA NonemptyPool ==
    ASSUME IInv, todo \in live
    PROVE  count # 0 /\ Consistent
  <1>1. todo # Nil
    BY DEF IInv, TypeOK
  <1>2. Consistent
    BY <1>1 DEF IInv, Fresh, LinksConsistent
  <1> QED
    BY <1>2, PlaceOf DEF IInv

LEMMA StepTypeOK == IInv /\ [Next]_vars => TypeOK'
  BY TypeStep, NonemptyPool DEF IInv

LEMMA StepLinks == IInv /\ [Next]_vars => LinksConsistent'
  <1> SUFFICES ASSUME IInv, [Next]_vars, loop' = "running"
               PROVE  Consistent'
    BY DEF LinksConsistent
  <1> USE DEF array, conns, stamps, Returns, Goes, Closes
  <1>k. ASSUME loop = "running", UNCHANGED array
        PROVE  Consistent'
    BY <1>k DEF IInv, LinksConsistent, Consistent
  <1>t. TypeOK /\ (loop = "running" => Consistent)
    BY DEF IInv, LinksConsistent
  <1>1. CASE Fetch
    BY <1>1, <1>k DEF Fetch, Idle
  <1>2. CASE Delete
    <2>1. loop = "running"
      BY <1>2 DEF Delete
    <2>2. CASE todo \in live
      BY <1>2, <1>t, <2>1, <2>2, DeleteConsistent DEF IInv, Fresh, Delete
    <2>3. CASE todo \notin live
      BY <1>2, <1>k, <2>1, <2>3 DEF Delete
    <2> QED
      BY <2>2, <2>3
  <1>3. CASE Accept
    BY <1>3, <1>t, Add1Consistent DEF Accept, Handling
  <1>4. CASE AcceptRefused
    BY <1>4, <1>t, AddNoneConsistent DEF AcceptRefused, Handling
  <1>5. CASE Exit
    BY <1>5 DEF Exit
  <1>6. ASSUME NEW v \in Items, NextEvent(v)
        PROVE  Consistent'
    BY <1>6, <1>k DEF NextEvent, Idle
  <1>7. ASSUME NEW v \in Items, Handler(v)
        PROVE  Consistent'
    <2>1. CASE Connect(v)
      BY <1>t, <2>1, Add1Consistent DEF Connect, Handling
    <2>2. CASE ConnectRefused(v)
      BY <1>t, <2>2, AddNoneConsistent DEF ConnectRefused, Handling
    <2>3. CASE Associate(v)
      BY <1>t, <2>3, Add2Consistent DEF Associate, Handling
    <2>4. CASE AssociateFull(v)
      BY <2>4 DEF AssociateFull
    <2>5. CASE Connected(v)
      BY <1>k, <2>5 DEF Connected, Handling
    <2>6. CASE Desync(v)
      BY <1>k, <2>6 DEF Desync, Handling
    <2>7. CASE DesyncFull(v)
      BY <1>k, <2>7 DEF DesyncFull, Handling
    <2>8. CASE Answered(v)
      BY <1>k, <2>8 DEF Answered, Handling
    <2>9. CASE Reconnect(v)
      BY <1>t, <2>9, Add1Consistent DEF Reconnect, Handling
    <2>10. CASE ReconnectRefused(v)
      BY <1>t, <2>10, AddNoneConsistent DEF ReconnectRefused, Handling
    <2>11. CASE Close(v)
      BY <1>k, <2>11 DEF Close, Handling
    <2>12. CASE Return(v)
      BY <1>k, <2>12 DEF Return, Handling
    <2> QED
      BY <1>7, <2>1, <2>2, <2>3, <2>4, <2>5, <2>6, <2>7, <2>8, <2>9, <2>10,
         <2>11, <2>12 DEF Handler
  <1>8. CASE UNCHANGED vars
    BY <1>8, <1>k DEF vars
  <1> QED
    BY <1>1, <1>2, <1>3, <1>4, <1>5, <1>6, <1>7, <1>8 DEF Next, Ended

LEMMA StepFresh == IInv /\ [Next]_vars => Fresh'
  <1> SUFFICES ASSUME IInv, [Next]_vars PROVE Fresh'
    OBVIOUS
  <1> USE DEF array, conns, stamps, Returns, Goes, Closes
  <1>t. TypeOK /\ Fresh /\ (loop = "running" => Consistent)
    BY DEF IInv, LinksConsistent
  <1>r. \A v \in Items, t \in Types : Handling(v, t) =>
          /\ loop = "running" /\ Consistent /\ cur = v /\ cur # Nil /\ todo = Nil
          /\ t # "ACCEPT" => v # Root
    BY <1>t DEF Handling, Fresh
  <1>s. ASSUME NEW S \in SUBSET Items, Stamp(S)
        PROVE  /\ \A v \in touched' : modIter'[v] = iters'
               /\ touched' = touched \cup S
    BY <1>s, <1>t DEF Stamp, Fresh, TypeOK
  <1>a. ASSUME Add1, Consistent
        PROVE  /\ \A v \in touched' : modIter'[v] = iters'
               /\ live \subseteq live' /\ touched \subseteq touched'
               /\ First \in Items /\ First # Root
    <2>1. First \in Items /\ First # Root
      BY <1>a, <1>t, FirstIsFree DEF Add1
    <2>2. {First} \in SUBSET Items
      BY <2>1
    <2> QED
      BY <1>a, <1>s, <2>1, <2>2 DEF Add1
  <1>b. ASSUME Add2, Consistent
        PROVE  /\ \A v \in touched' : modIter'[v] = iters'
               /\ live \subseteq live' /\ touched \subseteq touched'
               /\ First \in Items /\ First # Root
               /\ Second \in Items /\ Second # Root
    <2>1. Free(1) /\ Free(2)
      BY <1>b, <1>t DEF Add2, Free, TypeOK
    <2>2. First \in Items /\ First # Root /\ Second \in Items /\ Second # Root
      BY <1>b, <1>t, <2>1, FirstIsFree, SecondIsFree
    <2>3. {First, Second} \in SUBSET Items
      BY <2>2
    <2> QED
      BY <1>b, <1>s, <2>2, <2>3 DEF Add2
  <1>c. ASSUME AddNone, Consistent
        PROVE  /\ \A v \in touched' : modIter'[v] = iters'
               /\ live = live' /\ touched \subseteq touched'
               /\ First \in Items /\ First # Root
               /\ \A v \in Items : pair'[v] # Root
    <2>1. First \in Items /\ First # Root
      BY <1>c, <1>t, FirstIsFree DEF AddNone
    <2>2. {First} \in SUBSET Items
      BY <2>1
    <2>3. \A v \in Items : pair'[v] # Root
      BY <1>c, <1>t, RootIsItem DEF AddNone, Fresh, TypeOK
    <2> QED
      BY <1>c, <1>s, <2>1, <2>2, <2>3 DEF AddNone
  <1>1. CASE Fetch
    BY <1>1, <1>t DEF Fetch, Fresh, Idle
  <1>2. CASE Delete
    <2>1. CASE todo \in live
      <3>1. todo \in Items /\ {todo} \in SUBSET Items /\ loop = "running" /\ todo # Root
        BY <1>2, <1>t, <2>1 DEF Delete, Fresh, TypeOK
      <3>2. /\ \A v \in touched' : modIter'[v] = iters'
            /\ touched' = touched \cup {todo}
        BY <1>2, <1>s, <2>1, <3>1 DEF Delete
      <3>3. \A v \in Items : pair'[v] # Root
        BY <1>2, <1>t, <2>1, RootIsItem DEF Delete, Unlinked, Fresh
      <3>4. todo' = pair[todo] /\ cur' = (IF todo' = Nil THEN Nil ELSE cur)
        BY <1>2, <2>1 DEF Delete
      <3>5. ready' \subseteq live' \cup touched'
        BY <1>2, <1>t, <2>1, <3>1, <3>2 DEF Delete, Fresh
      <3> QED
        BY <1>2, <1>t, <3>1, <3>2, <3>3, <3>4, <3>5 DEF Delete, Fresh
    <2>2. CASE todo \notin live
      BY <1>2, <1>t, <2>2 DEF Delete, Fresh
    <2> QED
      BY <2>1, <2>2
  <1>3. CASE Accept
    <2>1. Add1 /\ Consistent /\ loop = "running"
      BY <1>3, <1>t DEF Accept, Handling
    <2>2. \A v \in Items : pair'[v] # Root
      BY <1>3, <1>t, RootIsItem DEF Accept, Fresh, TypeOK
    <2>3. type'[Root] = "ACCEPT"
      BY <1>3, <1>a, <1>t, <2>1 DEF Accept, Fresh, TypeOK
    <2> QED
      BY <1>3, <1>a, <1>t, <2>1, <2>2, <2>3 DEF Accept, Fresh
  <1>4. CASE AcceptRefused
    BY <1>4, <1>c, <1>t DEF AcceptRefused, Handling, Fresh
  <1>5. CASE Exit
    BY <1>5, <1>t DEF Exit, Fresh
  <1>6. ASSUME NEW v \in Items, NextEvent(v)
        PROVE  Fresh'
    BY <1>6, <1>t DEF NextEvent, Idle, Fresh
  <1>7. ASSUME NEW v \in Items, Handler(v)
        PROVE  Fresh'
    <2> USE DEF Types
    <2>p. pair[v] # Root /\ pair[v] \in Items \cup {Nil}
      BY <1>t DEF Fresh, TypeOK
    <2>q. v \in Items
      BY <1>7
    <2>1. CASE Connect(v)
      <3>1. Add1 /\ Consistent /\ loop = "running" /\ cur = v /\ todo = Nil /\ v # Root
        BY <1>r, <2>1, <2>q DEF Connect
      <3>2. \A x \in Items : pair'[x] # Root
        BY <1>a, <1>t, <2>1, <3>1 DEF Connect, Fresh, TypeOK
      <3>3. type'[Root] = "ACCEPT"
        BY <1>a, <1>t, <2>1, <3>1, RootIsItem DEF Connect, Fresh, TypeOK
      <3> QED
        BY <1>a, <1>t, <2>1, <3>1, <3>2, <3>3 DEF Connect, Fresh
    <2>2. CASE ConnectRefused(v)
      <3>1. AddNone /\ Consistent /\ loop = "running" /\ cur # Nil /\ v # Root
        BY <1>r, <2>2, <2>q DEF ConnectRefused
      <3> QED
        BY <1>c, <1>t, <2>2, <3>1 DEF ConnectRefused, Fresh
    <2>3. CASE Associate(v)
      <3>1. Add2 /\ Consistent /\ loop = "running" /\ cur = v /\ cur # Nil /\ v # Root
        BY <1>r, <2>3, <2>q DEF Associate
      <3>2. \A x \in Items : pair'[x] # Root
        BY <1>b, <1>t, <2>3, <3>1 DEF Associate, Fresh, TypeOK
      <3>3. type'[Root] = "ACCEPT"
        BY <1>b, <1>t, <2>3, <3>1, RootIsItem DEF Associate, Fresh, TypeOK
      <3>4. todo' # Nil => cur' # Nil /\ todo' # Root
        BY <1>r, <2>3, <2>q, <3>1 DEF Associate
      <3> QED
        BY <1>b, <1>t, <2>3, <3>1, <3>2, <3>3, <3>4 DEF Associate, Fresh
    <2>4. CASE AssociateFull(v)
      BY <1>r, <1>t, <2>4, <2>q DEF AssociateFull, Fresh
    <2>5. CASE Connected(v)
      <3>1. loop = "running" /\ cur = v /\ cur # Nil /\ todo = Nil /\ v # Root
        BY <1>r, <2>5, <2>q DEF Connected
      <3>2. type'[Root] = "ACCEPT"
        BY <1>t, <2>5, <2>p, <3>1, RootIsItem DEF Connected, Fresh, TypeOK
      <3> QED
        BY <1>t, <2>5, <3>1, <3>2 DEF Connected, Fresh
    <2>6. CASE Desync(v)
      <3>1. loop = "running" /\ cur = v /\ cur # Nil /\ todo = Nil /\ v # Root
        BY <1>r, <2>6, <2>q DEF Desync
      <3>2. type'[Root] = "ACCEPT"
        BY <1>t, <2>6, <2>p, <3>1, RootIsItem DEF Desync, RemoteOf, Fresh, TypeOK
      <3> QED
        BY <1>t, <2>6, <3>1, <3>2 DEF Desync, Fresh
    <2>7. CASE DesyncFull(v)
      <3>1. loop = "running" /\ cur = v /\ cur # Nil /\ todo = Nil /\ v # Root
        BY <1>r, <2>7, <2>q DEF DesyncFull
      <3>2. type'[Root] = "ACCEPT"
        BY <1>t, <2>7, <2>p, <3>1, RootIsItem DEF DesyncFull, ToTunnel, Fresh, TypeOK
      <3> QED
        BY <1>t, <2>7, <3>1, <3>2 DEF DesyncFull, Fresh
    <2>8. CASE Answered(v)
      <3>1. loop = "running" /\ cur = v /\ cur # Nil /\ todo = Nil /\ v # Root
        BY <1>r, <2>8, <2>q DEF Answered
      <3>2. type'[Root] = "ACCEPT"
        BY <1>t, <2>8, <2>p, <3>1, RootIsItem DEF Answered, ToTunnel, Fresh, TypeOK
      <3> QED
        BY <1>t, <2>8, <3>1, <3>2 DEF Answered, Fresh
    <2>9. CASE Reconnect(v)
      <3>1. Add1 /\ Consistent /\ loop = "running" /\ cur = v /\ cur # Nil /\ v # Root
        BY <1>r, <2>9, <2>q DEF Reconnect
      <3>2. \A x \in Items : pair'[x] # Root
        BY <1>a, <1>t, <2>9, <2>p, <3>1, RootIsItem DEF Reconnect, Repaired, Fresh, TypeOK
      <3>3. type'[Root] = "ACCEPT"
        BY <1>a, <1>t, <2>9, <2>p, <3>1, RootIsItem DEF Reconnect, Fresh, TypeOK
      <3> QED
        BY <1>a, <1>t, <2>9, <3>1, <3>2, <3>3 DEF Reconnect, Fresh
    <2>10. CASE ReconnectRefused(v)
      <3>1. AddNone /\ Consistent /\ loop = "running" /\ cur = v /\ cur # Nil
            /\ todo = Nil /\ v # Root
        BY <1>r, <2>10, <2>q DEF ReconnectRefused
      <3>2. type'[Root] = "ACCEPT"
        BY <1>t, <2>10, <2>p, <3>1, RootIsItem
           DEF ReconnectRefused, ToTunnel, Fresh, TypeOK
      <3>3. todo' # Nil => cur' # Nil /\ todo' # Root
        BY <2>10, <3>1 DEF ReconnectRefused
      <3> QED
        BY <1>c, <1>t, <2>10, <3>1, <3>2, <3>3 DEF ReconnectRefused, Fresh
    <2>11. CASE Close(v)
      <3>1. loop = "running" /\ cur = v /\ cur # Nil /\ todo = Nil /\ v # Root
        BY <1>r, <2>11, <2>q DEF Close
      <3> QED
        BY <1>t, <2>11, <3>1 DEF Close, Fresh
    <2>12. CASE Return(v)
      BY <1>t, <2>12 DEF Return, Handling, Fresh
    <2> QED
      BY <1>7, <2>1, <2>2, <2>3, <2>4, <2>5, <2>6, <2>7, <2>8, <2>9, <2>10,
         <2>11, <2>12 DEF Handler
  <1>8. CASE UNCHANGED vars
    BY <1>8, <1>t DEF vars, Fresh
  <1> QED
    BY <1>1, <1>2, <1>3, <1>4, <1>5, <1>6, <1>7, <1>8 DEF Next, Ended

\* The invariant holds in every state the loop reaches.
THEOREM Invariance == Spec => []IInv
  <1>1. IInv /\ [Next]_vars => IInv'
    BY StepTypeOK, StepLinks, StepFresh DEF IInv
  <1> QED
    BY <1>1, InitIInv, PTL DEF Spec

\* Every variable stays in its range, for a pool of any size: in particular the
\* count never leaves 0 .. Max.
THEOREM TypeCorrect == Spec => []TypeOK
  BY Invariance, PTL DEF IInv

\* The swap of del_event() and the appending of add_event() keep the links, the
\* places and the descriptors in step, so that destroy_pool(), which closes the
\* first count links, closes all of them.
THEOREM LinksStayConsistent == Spec => []LinksConsistent
  BY Invariance, PTL DEF IInv

-----------------------------------------------------------------------------
(* The loop leaves nothing open                                            *)

Emptied == loop # "running" => live = {}

\* When the loop has ended no descriptor is open: destroy_pool() misses none.
THEOREM ExitClosesAll == Spec => []ClosedAtExit
  <1>1. Init => Emptied
    BY DEF Init, Emptied
  <1>2. IInv /\ Emptied /\ [Next]_vars => Emptied'
    <2> SUFFICES ASSUME IInv, Emptied, [Next]_vars PROVE Emptied'
      OBVIOUS
    <2>1. CASE Exit
      <3>1. \A v \in live : index[v] \in Items /\ links[index[v]] = v /\ index[v] < count
        BY <2>1, PlaceOf DEF Exit, IInv, LinksConsistent
      <3>2. \A v \in live : index[v] \in 0 .. count - 1
        BY <3>1 DEF IInv, TypeOK, Items
      <3>3. live \subseteq Linked
        BY <3>1, <3>2 DEF Linked
      <3> QED
        BY <2>1, <3>3 DEF Exit, Emptied
    <2>2. CASE loop' = loop /\ (loop = "running" \/ live' = live)
      BY <2>2 DEF Emptied
    <2>3. CASE Delete
      BY <2>2, <2>3 DEF Delete, IInv, Fresh
    <2>4. CASE Fetch \/ Accept \/ AcceptRefused \/ UNCHANGED vars
      BY <2>2, <2>4 DEF Fetch, Accept, AcceptRefused, Idle, Handling, Goes, vars, array
    <2>5. ASSUME NEW v \in Items, NextEvent(v) \/ Handler(v)
          PROVE  Emptied'
      <3> USE DEF Handling, Returns, Closes
      <3>1. CASE AssociateFull(v)
        BY <3>1 DEF AssociateFull, Emptied
      <3>2. CASE NextEvent(v)
        BY <2>2, <3>2 DEF NextEvent, Idle
      <3>3. CASE Connect(v) \/ ConnectRefused(v) \/ Associate(v)
        BY <2>2, <3>3 DEF Connect, ConnectRefused, Associate
      <3>4. CASE Connected(v) \/ Desync(v) \/ DesyncFull(v)
        BY <2>2, <3>4 DEF Connected, Desync, DesyncFull
      <3>5. CASE Answered(v) \/ Reconnect(v) \/ ReconnectRefused(v)
        BY <2>2, <3>5 DEF Answered, Reconnect, ReconnectRefused
      <3>6. CASE Close(v) \/ Return(v)
        BY <2>2, <3>6 DEF Close, Return
      <3> QED
        BY <2>5, <3>1, <3>2, <3>3, <3>4, <3>5, <3>6 DEF Handler
    <2> QED
      BY <2>1, <2>3, <2>4, <2>5 DEF Next, Ended
  <1>3. Emptied => ClosedAtExit
    BY DEF Emptied, ClosedAtExit
  <1> QED
    BY <1>1, <1>2, <1>3, Invariance, PTL DEF Spec

-----------------------------------------------------------------------------
(* The loop implements EventPool                                           *)

\* The shapes the step of a handler may have in EventPool: the items of S were
\* opened or closed.
LEMMA IsHandle ==
    ASSUME NEW S \in SUBSET Items, cur # Nil, Root \notin S,
           live \ S \subseteq live', live' \subseteq live \cup S,
           touched' = touched \cup S,
           cur' \in {cur, Nil}, UNCHANGED ready
    PROVE  Abstract!Next
  <1> DEFINE T == live' \cap S
  <1>1. T \in SUBSET S /\ live' = (live \ S) \cup T
    OBVIOUS
  <1>2. \E U \in SUBSET S : live' = (live \ S) \cup U
    BY <1>1
  <1>3. Abstract!Handle(S)
    BY <1>2 DEF Abstract!Handle
  <1> QED
    BY <1>3 DEF Abstract!Next

LEMMA StepIsAbstract ==
    ASSUME IInv, [Next]_vars
    PROVE  [Abstract!Next]_(Abstract!vars)
  <1> USE DEF array, conns, stamps, Returns, Goes, Closes
  <1>t. TypeOK /\ Fresh /\ (loop = "running" => Consistent)
    BY DEF IInv, LinksConsistent
  <1>r. \A v \in Items, t \in Types : Handling(v, t) =>
          loop = "running" /\ Consistent /\ cur # Nil
    BY <1>t DEF Handling
  <1>a. ASSUME Add1, Consistent, cur # Nil, cur' \in {cur, Nil}, UNCHANGED ready
        PROVE  Abstract!Next
    <2>1. First \in Items \ live /\ First # Root
      BY <1>a, <1>t, FirstIsFree DEF Add1
    <2>2. {First} \in SUBSET Items /\ Root \notin {First}
      BY <2>1
    <2> QED
      BY <1>a, <2>2, IsHandle DEF Add1, Stamp
  <1>b. ASSUME Add2, Consistent, cur # Nil, cur' \in {cur, Nil}, UNCHANGED ready
        PROVE  Abstract!Next
    <2>1. Free(1) /\ Free(2)
      BY <1>b, <1>t DEF Add2, Free, TypeOK
    <2>2. {First, Second} \in SUBSET Items /\ Root \notin {First, Second}
      BY <1>b, <1>t, <2>1, FirstIsFree, SecondIsFree
    <2> QED
      BY <1>b, <2>2, IsHandle DEF Add2, Stamp
  <1>c. ASSUME AddNone, Consistent, cur # Nil, cur' \in {cur, Nil}, UNCHANGED ready
        PROVE  Abstract!Next
    <2>1. {First} \in SUBSET Items /\ Root \notin {First}
      BY <1>c, <1>t, FirstIsFree DEF AddNone
    <2> QED
      BY <1>c, <2>1, IsHandle DEF AddNone, Stamp
  <1>n. ASSUME cur # Nil, cur' \in {cur, Nil}, UNCHANGED <<ready, array, stamps>>
        PROVE  Abstract!Next
    <2>1. {} \in SUBSET Items /\ Root \notin {}
      OBVIOUS
    <2> QED
      BY <1>n, <2>1, IsHandle
  <1>1. CASE Fetch
    <2>1. Abstract!Fetch
      BY <1>1 DEF Fetch, Idle, Abstract!Fetch
    <2> QED
      BY <2>1 DEF Abstract!Next
  <1>2. CASE Delete
    <2>1. cur # Nil /\ cur' \in {cur, Nil} /\ UNCHANGED ready /\ todo # Root
      BY <1>2, <1>t DEF Delete, Fresh
    <2>2. CASE todo \in live
      <3>1. {todo} \in SUBSET Items /\ Root \notin {todo}
        BY <1>t, <2>1, <2>2 DEF TypeOK
      <3>2. live' = live \ {todo} /\ touched' = touched \cup {todo}
        BY <1>2, <2>2 DEF Delete, Stamp
      <3> QED
        BY <2>1, <3>1, <3>2, IsHandle
    <2>3. CASE todo \notin live
      BY <1>2, <1>n, <2>1, <2>3 DEF Delete
    <2> QED
      BY <2>2, <2>3
  <1>3. CASE Accept
    BY <1>3, <1>a, <1>t, RootIsItem DEF Accept, Handling
  <1>4. CASE AcceptRefused
    BY <1>4, <1>c, <1>t, RootIsItem DEF AcceptRefused, Handling
  <1>5. CASE Exit
    <2>1. live' = {}
      <3>1. \A v \in live : index[v] \in Items /\ links[index[v]] = v /\ index[v] < count
        BY <1>5, <1>t, PlaceOf DEF Exit
      <3>2. \A v \in live : index[v] \in 0 .. count - 1
        BY <1>t, <3>1 DEF TypeOK, Items
      <3> QED
        BY <1>5, <3>1, <3>2 DEF Exit, Linked
    <2>2. Abstract!Shut
      BY <1>5, <2>1 DEF Exit, Abstract!Shut
    <2> QED
      BY <2>2 DEF Abstract!Next
  <1>6. ASSUME NEW v \in Items, NextEvent(v)
        PROVE  Abstract!Next
    <2>1. CASE IsStale(v)
      <3>1. Abstract!Drop(v)
        BY <1>6, <2>1 DEF NextEvent, Idle, Abstract!Drop
      <3> QED
        BY <3>1 DEF Abstract!Next
    <2>2. CASE ~IsStale(v)
      <3>1. v \notin touched /\ v \in live
        BY <1>6, <1>t, <2>2 DEF NextEvent, Idle, IsStale, Fresh
      <3>2. Abstract!Deliver(v)
        BY <1>6, <2>2, <3>1 DEF NextEvent, Idle, Abstract!Deliver
      <3> QED
        BY <3>2 DEF Abstract!Next
    <2> QED
      BY <2>1, <2>2
  <1>7. ASSUME NEW v \in Items, Handler(v)
        PROVE  Abstract!Next
    <2> USE DEF Types
    <2>1. CASE Connect(v) \/ Reconnect(v)
      BY <1>a, <1>r, <2>1 DEF Connect, Reconnect
    <2>2. CASE ConnectRefused(v) \/ ReconnectRefused(v)
      BY <1>c, <1>r, <2>2 DEF ConnectRefused, ReconnectRefused
    <2>3. CASE Associate(v)
      BY <1>b, <1>r, <2>3 DEF Associate
    <2>4. CASE AssociateFull(v)
      <3>1. Abstract!Shut
        BY <2>4 DEF AssociateFull, Abstract!Shut
      <3> QED
        BY <3>1 DEF Abstract!Next
    <2>5. CASE Connected(v) \/ Desync(v) \/ DesyncFull(v) \/ Answered(v)
      BY <1>n, <1>r, <2>5 DEF Connected, Desync, DesyncFull, Answered
    <2>6. CASE Close(v) \/ Return(v)
      BY <1>n, <1>r, <2>6 DEF Close, Return
    <2> QED
      BY <1>7, <2>1, <2>2, <2>3, <2>4, <2>5, <2>6 DEF Handler
  <1>8. CASE UNCHANGED vars
    BY <1>8 DEF vars, Abstract!vars
  <1> QED
    BY <1>1, <1>2, <1>3, <1>4, <1>5, <1>6, <1>7, <1>8 DEF Next, Ended

\* The pool keeps the promise of EventPool, whatever the handlers do: a report
\* of a batch reaches a handler only if its descriptor is open and was neither
\* closed nor reused since the batch was fetched, even when the iteration number
\* wraps around.
THEOREM PoolImplementsAbstract == Spec => Refinement
  <1>1. Init => Abstract!Init
    BY DEF Init, Abstract!Init
  <1>2. IInv /\ [Next]_vars => [Abstract!Next]_(Abstract!vars)
    BY StepIsAbstract
  <1>3. Spec => Abstract!Spec
    BY <1>1, <1>2, Invariance, PTL DEF Spec, Abstract!Spec
  <1> QED
    BY <1>3 DEF Refinement

-----------------------------------------------------------------------------
(* Pairs                                                                   *)

\* The shapes of PairsFit, for the fields T, P and C of the items of L.
CoupledIn(T, P, C, c, r) ==
    /\ c \notin C /\ r \in C
    /\ P[c] = r /\ P[r] = c
    /\ <<T[c], T[r]>> \in Stages

RingIn(T, P, C, c, u, r) ==
    /\ P[c] = u /\ P[u] = r /\ P[r] = c
    /\ T[c] = "IGNORE" /\ T[u] = "UDP" /\ T[r] = "UDP"
    /\ u \in C /\ c \notin C /\ r \notin C

FitIn(T, P, C, L, v) ==
    \/ v = Root /\ T[v] = "ACCEPT" /\ P[v] = Nil
    \/ v # Root /\ T[v] = "REQUEST" /\ P[v] = Nil /\ v \notin C
    \/ \E w \in L : CoupledIn(T, P, C, v, w) \/ CoupledIn(T, P, C, w, v)
    \/ \E w, x \in L : \/ RingIn(T, P, C, v, w, x) \/ RingIn(T, P, C, w, x, v)
                       \/ RingIn(T, P, C, x, v, w)

Fits(T, P, C, L) == \A v \in L : FitIn(T, P, C, L, v)

\* The items that del_event(t) is still to delete, t itself and those it follows
\* the pairs to, and that the others fit without them.
Doomed1(T, P, C, L, t) == P[t] \notin L /\ Fits(T, P, C, L \ {t})

Doomed2(T, P, C, L, t, w) ==
    /\ P[t] = w /\ w \in L \ {t}
    /\ P[w] = t \/ P[w] \notin L
    /\ Fits(T, P, C, L \ {t, w})

Doomed3(T, P, C, L, t, w, x) ==
    /\ P[t] = w /\ P[w] = x /\ P[x] = t
    /\ w \in L \ {t} /\ x \in L \ {t, w}
    /\ Fits(T, P, C, L \ {t, w, x})

Doomed(T, P, C, L, t) ==
    \/ Doomed1(T, P, C, L, t)
    \/ \E w \in L : Doomed2(T, P, C, L, t, w)
    \/ \E w, x \in L : Doomed3(T, P, C, L, t, w, x)

Shapes ==
    /\ cur # Nil /\ todo = Nil => cur \in live
    /\ todo \notin live => Fits(type, pair, conn, live)
    /\ todo \in live => Doomed(type, pair, conn, live, todo)

LEMMA FitsSame ==
    ASSUME NEW T, NEW P, NEW C, NEW S, NEW Q, NEW D, NEW L,
           Fits(T, P, C, L),
           \A u \in L : S[u] = T[u] /\ Q[u] = P[u] /\ (u \in D <=> u \in C)
    PROVE  Fits(S, Q, D, L)
<1>1. ASSUME NEW v \in L, NEW w \in L, CoupledIn(T, P, C, v, w)
      PROVE  CoupledIn(S, Q, D, v, w)
  BY <1>1 DEF CoupledIn
<1>2. ASSUME NEW v \in L, NEW w \in L, NEW x \in L, RingIn(T, P, C, v, w, x)
      PROVE  RingIn(S, Q, D, v, w, x)
  BY <1>2 DEF RingIn
<1>3. SUFFICES ASSUME NEW v \in L PROVE FitIn(S, Q, D, L, v)
  BY DEF Fits
<1>4. FitIn(T, P, C, L, v)
  BY DEF Fits
<1>5. CASE \E w \in L : CoupledIn(T, P, C, v, w) \/ CoupledIn(T, P, C, w, v)
  BY <1>1, <1>5 DEF FitIn
<1>6. CASE \E w, x \in L : \/ RingIn(T, P, C, v, w, x) \/ RingIn(T, P, C, w, x, v)
                           \/ RingIn(T, P, C, x, v, w)
  BY <1>2, <1>6 DEF FitIn
<1>7. CASE \/ v = Root /\ T[v] = "ACCEPT" /\ P[v] = Nil
           \/ v # Root /\ T[v] = "REQUEST" /\ P[v] = Nil /\ v \notin C
  BY <1>7 DEF FitIn
<1> QED
  BY <1>4, <1>5, <1>6, <1>7 DEF FitIn

\* A set that pairs do not leave can go.
LEMMA FitsWithout ==
    ASSUME NEW T, NEW P, NEW C, NEW L, NEW G,
           Fits(T, P, C, L), Nil \notin L,
           \A g \in G : P[g] \in G \cup {Nil}
    PROVE  Fits(T, P, C, L \ G)
<1>1. SUFFICES ASSUME NEW v \in L \ G PROVE FitIn(T, P, C, L \ G, v)
  BY DEF Fits
<1>2. FitIn(T, P, C, L, v)
  BY DEF Fits
<1>3. ASSUME NEW w \in L, CoupledIn(T, P, C, v, w) \/ CoupledIn(T, P, C, w, v)
      PROVE  FitIn(T, P, C, L \ G, v)
  <2>1. w \notin G
    BY <1>3 DEF CoupledIn
  <2> QED
    BY <1>3, <2>1 DEF FitIn
<1>4. ASSUME NEW w \in L, NEW x \in L,
             \/ RingIn(T, P, C, v, w, x) \/ RingIn(T, P, C, w, x, v)
             \/ RingIn(T, P, C, x, v, w)
      PROVE  FitIn(T, P, C, L \ G, v)
  <2>1. P[x] = v /\ P[w] = x
    BY <1>4 DEF RingIn
  <2>2. x \notin G /\ w \notin G
    BY <2>1
  <2> QED
    BY <1>4, <2>2 DEF FitIn
<1> QED
  BY <1>2, <1>3, <1>4 DEF FitIn

\* Items that fit by themselves can come.
LEMMA FitsWith ==
    ASSUME NEW T, NEW P, NEW C, NEW L, NEW K,
           Fits(T, P, C, L), L \subseteq K,
           \A k \in K \ L : FitIn(T, P, C, K, k)
    PROVE  Fits(T, P, C, K)
<1>1. ASSUME NEW v \in L PROVE FitIn(T, P, C, K, v)
  BY DEF Fits, FitIn
<1> QED
  BY <1>1 DEF Fits

\* Everything del_event() deletes belongs to the item it was called for.
LEMMA Dooms ==
    ASSUME NEW T, NEW P, NEW C, NEW L, NEW v \in L,
           Fits(T, P, C, L), Nil \notin L, v # Root, Root \in L, T[Root] = "ACCEPT"
    PROVE  Doomed(T, P, C, L, v)
<1>1. FitIn(T, P, C, L, v)
  BY DEF Fits
<1>2. CASE P[v] = Nil
  <2>1. Fits(T, P, C, L \ {v})
    BY <1>2, FitsWithout
  <2> QED
    BY <1>2, <2>1 DEF Doomed, Doomed1
<1>3. ASSUME NEW w \in L, CoupledIn(T, P, C, v, w) \/ CoupledIn(T, P, C, w, v)
      PROVE  Doomed(T, P, C, L, v)
  <2>1. P[v] = w /\ P[w] = v /\ w # v
    BY <1>3 DEF CoupledIn
  <2>2. \A g \in {v, w} : P[g] \in {v, w} \cup {Nil}
    BY <2>1
  <2>3. Fits(T, P, C, L \ {v, w})
    BY <2>2, FitsWithout
  <2> QED
    BY <2>1, <2>3 DEF Doomed, Doomed2
<1>4. ASSUME NEW w \in L, NEW x \in L,
             \/ RingIn(T, P, C, v, w, x) \/ RingIn(T, P, C, w, x, v)
             \/ RingIn(T, P, C, x, v, w)
      PROVE  Doomed(T, P, C, L, v)
  <2>1. P[v] = w /\ P[w] = x /\ P[x] = v
    BY <1>4 DEF RingIn
  <2>2. w # v /\ x # v /\ x # w
    BY <1>4 DEF RingIn
  <2>3. \A g \in {v, w, x} : P[g] \in {v, w, x} \cup {Nil}
    BY <2>1
  <2>4. Fits(T, P, C, L \ {v, w, x})
    BY <2>3, FitsWithout
  <2> QED
    BY <2>1, <2>2, <2>4 DEF Doomed, Doomed3
<1> QED
  BY <1>1, <1>2, <1>3, <1>4 DEF FitIn

\* One level of the recursion of del_event().
LEMMA DoomedStep ==
    ASSUME NEW T, NEW P, NEW Q, NEW C, NEW L, NEW t \in L,
           Doomed(T, P, C, L, t), Nil \notin L,
           \A x \in L : Q[x] = IF x = t \/ (x = P[t] /\ P[x] = t) THEN Nil ELSE P[x]
    PROVE  /\ P[t] \notin L \ {t} => Fits(T, Q, C, L \ {t})
           /\ P[t] \in L \ {t} => Doomed(T, Q, C, L \ {t}, P[t])
<1>1. CASE Doomed1(T, P, C, L, t)
  <2>1. \A u \in L \ {t} : Q[u] = P[u]
    BY <1>1 DEF Doomed1
  <2>2. Fits(T, Q, C, L \ {t})
    BY <1>1, <2>1, FitsSame DEF Doomed1
  <2> QED
    BY <1>1, <2>2 DEF Doomed1
<1>2. ASSUME NEW w \in L, Doomed2(T, P, C, L, t, w)
      PROVE  P[t] = w /\ w # t /\ Doomed(T, Q, C, L \ {t}, w)
  <2>1. \A u \in L \ {t, w} : Q[u] = P[u]
    BY <1>2 DEF Doomed2
  <2>2. Fits(T, Q, C, L \ {t, w})
    BY <1>2, <2>1, FitsSame DEF Doomed2
  <2>3. Q[w] \notin L \ {t}
    BY <1>2 DEF Doomed2
  <2>4. (L \ {t}) \ {w} = L \ {t, w}
    OBVIOUS
  <2> QED
    BY <1>2, <2>2, <2>3, <2>4 DEF Doomed, Doomed1, Doomed2
<1>3. ASSUME NEW w \in L, NEW x \in L, Doomed3(T, P, C, L, t, w, x)
      PROVE  P[t] = w /\ w # t /\ Doomed(T, Q, C, L \ {t}, w)
  <2>1. \A u \in L \ {t, w, x} : Q[u] = P[u]
    BY <1>3 DEF Doomed3
  <2>2. Fits(T, Q, C, L \ {t, w, x})
    BY <1>3, <2>1, FitsSame DEF Doomed3
  <2>3. Q[w] = x /\ Q[x] = t
    BY <1>3 DEF Doomed3
  <2>4. (L \ {t}) \ {w, x} = L \ {t, w, x}
    OBVIOUS
  <2>5. Doomed2(T, Q, C, L \ {t}, w, x)
    BY <1>3, <2>2, <2>3, <2>4 DEF Doomed2, Doomed3
  <2> QED
    BY <1>3, <2>5 DEF Doomed, Doomed3
<1> QED
  BY <1>1, <1>2, <1>3 DEF Doomed

\* What the invariant says of the fields of an item whose handler runs.
LEMMA Handled ==
    ASSUME IInv, Shapes, NEW v \in Items, NEW t \in Types, Handling(v, t)
    PROVE  /\ v \in live /\ type[v] = t /\ (t # "ACCEPT" => v # Root)
           /\ loop = "running" /\ cur = v /\ todo = Nil /\ v # Nil
           /\ Consistent /\ Fits(type, pair, conn, live)
           /\ t = "REQUEST" => pair[v] = Nil /\ v \notin conn
           /\ t \in {"CONNECT", "DESYNC", "PRE_TUNNEL"} =>
                \E w \in live : \/ CoupledIn(type, pair, conn, v, w)
                                \/ CoupledIn(type, pair, conn, w, v)
<1>1. /\ type[v] = t /\ (t # "ACCEPT" => v # Root)
      /\ loop = "running" /\ cur = v /\ todo = Nil /\ v # Nil
  BY DEF Handling, IInv, Fresh, Items
<1>2. v \in live /\ Consistent /\ Fits(type, pair, conn, live)
  BY <1>1 DEF Shapes, IInv, LinksConsistent, TypeOK
<1>3. FitIn(type, pair, conn, live, v)
  BY <1>2 DEF Fits
<1>4. t = "REQUEST" => pair[v] = Nil /\ v \notin conn
  BY <1>1, <1>3 DEF FitIn, CoupledIn, RingIn, Stages
<1>5. t \in {"CONNECT", "DESYNC", "PRE_TUNNEL"} =>
        \E w \in live : \/ CoupledIn(type, pair, conn, v, w)
                        \/ CoupledIn(type, pair, conn, w, v)
  BY <1>1, <1>3 DEF FitIn, RingIn
<1> QED
  BY <1>1, <1>2, <1>4, <1>5

\* A handler that returns, or goes on to close an item, leaves items that fit.
LEMMA ShapesAfter ==
    ASSUME IInv', Fits(type', pair', conn', live'),
           \/ todo' = Nil /\ cur' \in live' \cup {Nil}
           \/ todo' \in live' /\ todo' # Root /\ loop' = "running"
    PROVE  Shapes'
<1>1. Nil \notin live' /\ type'[Root] = "ACCEPT"
  BY DEF IInv, TypeOK, Fresh
<1>2. ASSUME todo' \in live', todo' # Root, loop' = "running"
      PROVE  Doomed(type', pair', conn', live', todo')
  <2>1. Root \in live'
    BY <1>2 DEF IInv, LinksConsistent, Consistent
  <2> QED
    BY <1>1, <1>2, <2>1, Dooms
<1> QED
  BY <1>1, <1>2 DEF Shapes

LEMMA StepShapes == IInv /\ Shapes /\ [Next]_vars => Shapes'
<1> SUFFICES ASSUME IInv, Shapes, [Next]_vars PROVE Shapes'
  OBVIOUS
<1>t. TypeOK /\ Nil \notin live /\ Nil \notin Items /\ live \subseteq Items
  BY DEF IInv, TypeOK
<1>i. IInv'
  BY StepTypeOK, StepLinks, StepFresh DEF IInv
<1>n. ASSUME UNCHANGED <<type, conn, pair, live>>, todo = Nil,
             \/ todo' = Nil /\ cur' \in live \cup {Nil}
             \/ todo' \in live /\ todo' # Root /\ loop' = "running"
      PROVE  Shapes'
  BY <1>t, <1>n, <1>i, ShapesAfter DEF Shapes
<1>a. ASSUME Add1, Consistent
      PROVE  /\ First \in Items \ live /\ First # Root /\ First # Nil
             /\ live' = live \cup {First}
  BY <1>a, <1>t, FirstIsFree DEF Add1
<1>c. ASSUME AddNone, Consistent, Fits(type, pair, conn, live), UNCHANGED type
      PROVE  /\ Fits(type', pair', conn', live')
             /\ live' = live /\ \A u \in live : pair'[u] = pair[u]
  <2>1. First \in Items \ live
    BY <1>c, <1>t, FirstIsFree DEF AddNone
  <2>2. \A u \in live : pair'[u] = pair[u]
    BY <1>c, <1>t, <2>1 DEF AddNone, TypeOK
  <2>3. live' = live /\ conn' = conn
    BY <1>c DEF AddNone
  <2> QED
    BY <1>c, <2>2, <2>3, FitsSame
<1>1. CASE Fetch
  BY <1>1, <1>n, <1>t DEF Fetch, Idle, array, conns
<1>2. CASE Delete
  <2>1. CASE todo \in live
    <3>1. /\ Doomed(type, pair, conn, live, todo)
          /\ live' = live \ {todo} /\ todo' = pair[todo]
          /\ UNCHANGED <<type, conn>> /\ pair' = Unlinked(todo)
      BY <1>2, <2>1 DEF Delete, Shapes
    <3>2. \A x \in live : pair'[x] = IF x = todo \/ (x = pair[todo] /\ pair[x] = todo)
                                       THEN Nil ELSE pair[x]
      BY <1>t, <3>1 DEF Unlinked
    <3>3. /\ todo' \notin live' => Fits(type', pair', conn', live')
          /\ todo' \in live' => Doomed(type', pair', conn', live', todo')
      BY <1>t, <2>1, <3>1, <3>2, DoomedStep
    <3>4. todo' = Nil => cur' = Nil
      BY <1>2 DEF Delete
    <3> QED
      BY <3>3, <3>4 DEF Shapes
  <2>2. CASE todo \notin live
    <3>1. todo' = Nil /\ cur' = Nil /\ UNCHANGED <<type, conn, pair, live>>
      BY <1>2, <2>2 DEF Delete, array
    <3> QED
      BY <1>t, <2>2, <3>1 DEF Shapes
  <2> QED
    BY <2>1, <2>2
<1>3. CASE Accept
  <2>1. /\ Consistent /\ Fits(type, pair, conn, live) /\ todo = Nil /\ Root \in live
        /\ cur = Root
    BY <1>3, Handled, RootIsItem DEF Accept, Types
  <2>2. First \in Items \ live /\ First # Root /\ live' = live \cup {First}
    BY <1>3, <1>a, <2>1 DEF Accept
  <2>3. /\ \A u \in live : type'[u] = type[u] /\ pair'[u] = pair[u]
                           /\ (u \in conn' <=> u \in conn)
        /\ type'[First] = "REQUEST" /\ pair'[First] = Nil /\ First \notin conn'
    BY <1>3, <1>t, <2>2 DEF Accept, TypeOK
  <2>4. Fits(type', pair', conn', live)
    BY <2>1, <2>3, FitsSame
  <2>5. FitIn(type', pair', conn', live', First)
    BY <2>2, <2>3 DEF FitIn
  <2>6. Fits(type', pair', conn', live')
    BY <2>2, <2>4, <2>5, FitsWith
  <2> QED
    BY <1>3, <1>i, <2>1, <2>2, <2>6, ShapesAfter DEF Accept, Goes
<1>4. CASE AcceptRefused
  <2>1. /\ Consistent /\ Fits(type, pair, conn, live) /\ todo = Nil /\ Root \in live
        /\ cur = Root
    BY <1>4, Handled, RootIsItem DEF AcceptRefused, Types
  <2> QED
    BY <1>4, <1>i, <1>c, <2>1, ShapesAfter DEF AcceptRefused, Goes
<1>5. CASE Exit
  <2>1. Fits(type, pair, conn, live)
    BY <1>5, <1>t DEF Exit, Shapes
  <2>2. live' = {}
    <3>1. \A v \in live : index[v] \in Items /\ links[index[v]] = v /\ index[v] < count
      BY <1>5, <1>t, PlaceOf DEF Exit, IInv, LinksConsistent
    <3>2. \A v \in live : index[v] \in 0 .. count - 1
      BY <1>t, <3>1 DEF TypeOK, Items
    <3> QED
      BY <1>5, <3>1, <3>2 DEF Exit, Linked
  <2>3. todo' = Nil /\ cur' = Nil
    BY <1>5 DEF Exit
  <2> QED
    BY <2>2, <2>3 DEF Shapes, Fits
<1>6. ASSUME NEW v \in Items, NextEvent(v)
      PROVE  Shapes'
  <2>1. cur' = Nil \/ v \in live
    BY <1>6, <1>t DEF NextEvent, IsStale, Idle, IInv, Fresh
  <2> QED
    BY <1>6, <1>n, <1>t, <2>1 DEF NextEvent, Idle, array, conns
<1>7. ASSUME NEW v \in Items, Handler(v)
      PROVE  Shapes'
  <2>d. ASSUME Returns \/ Closes(v), todo = Nil, v \in live', v # Root, loop = "running",
               Fits(type', pair', conn', live')
        PROVE  Shapes'
    BY <1>i, <2>d, ShapesAfter DEF Returns, Closes
  <2>r. ASSUME NEW t \in Types \ {"ACCEPT"}, Handling(v, t)
        PROVE  /\ v \in live /\ type[v] = t /\ v # Root /\ v # Nil
               /\ loop = "running" /\ todo = Nil
               /\ Consistent /\ Fits(type, pair, conn, live)
    BY <2>r, Handled
  <2>1. CASE Connect(v)
    <3>1. Handling(v, "REQUEST") /\ "REQUEST" \in Types \ {"ACCEPT"}
      BY <2>1 DEF Connect, Types
    <3>2. pair[v] = Nil /\ v \notin conn
      BY <3>1, Handled
    <3>3. First \in Items \ live /\ First # Root /\ live' = live \cup {First}
      BY <1>a, <2>1, <2>r, <3>1 DEF Connect
    <3>4. /\ \A u \in live \ {v} : type'[u] = type[u] /\ pair'[u] = pair[u]
                                   /\ (u \in conn' <=> u \in conn)
          /\ CoupledIn(type', pair', conn', v, First)
      BY <1>t, <2>1, <2>r, <3>1, <3>2, <3>3 DEF Connect, TypeOK, CoupledIn, Stages
    <3>5. Fits(type, pair, conn, live \ {v})
      BY <1>t, <2>r, <3>1, <3>2, FitsWithout
    <3>6. Fits(type', pair', conn', live \ {v})
      BY <3>4, <3>5, FitsSame
    <3>7. v \in live' /\ First \in live' /\ live \ {v} \subseteq live'
      BY <2>r, <3>1, <3>3
    <3>8. \A k \in live' \ (live \ {v}) : FitIn(type', pair', conn', live', k)
      BY <3>3, <3>4, <3>7 DEF FitIn
    <3>9. Fits(type', pair', conn', live')
      BY <3>6, <3>7, <3>8, FitsWith
    <3> QED
      BY <2>1, <2>d, <2>r, <3>1, <3>7, <3>9 DEF Connect
  <2>2. CASE ConnectRefused(v)
    <3>1. Handling(v, "REQUEST") /\ "REQUEST" \in Types \ {"ACCEPT"}
      BY <2>2 DEF ConnectRefused, Types
    <3> QED
      BY <1>c, <2>2, <2>d, <2>r, <3>1 DEF ConnectRefused
  <2>3. CASE Associate(v)
    <3>1. Handling(v, "REQUEST") /\ "REQUEST" \in Types \ {"ACCEPT"}
      BY <2>3 DEF Associate, Types
    <3>2. pair[v] = Nil /\ v \notin conn
      BY <3>1, Handled
    <3>3. /\ First \in Items \ live /\ First # Root
          /\ Second \in Items \ live /\ Second # Root /\ Second # First
          /\ live' = live \cup {First, Second}
      <4>1. Add2 /\ Consistent
        BY <2>3, <2>r, <3>1 DEF Associate
      <4>2. Free(1) /\ Free(2)
        BY <1>t, <4>1 DEF Add2, Free, TypeOK
      <4> QED
        BY <1>t, <4>1, <4>2, FirstIsFree, SecondIsFree DEF Add2
    <3>4. /\ \A u \in live \ {v} : type'[u] = type[u] /\ pair'[u] = pair[u]
                                   /\ (u \in conn' <=> u \in conn)
          /\ RingIn(type', pair', conn', v, Second, First)
      BY <1>t, <2>3, <2>r, <3>1, <3>2, <3>3 DEF Associate, TypeOK, RingIn
    <3>5. Fits(type, pair, conn, live \ {v})
      BY <1>t, <2>r, <3>1, <3>2, FitsWithout
    <3>6. Fits(type', pair', conn', live \ {v})
      BY <3>4, <3>5, FitsSame
    <3>7. v \in live' /\ First \in live' /\ Second \in live' /\ live \ {v} \subseteq live'
      BY <2>r, <3>1, <3>3
    <3>8. \A k \in live' \ (live \ {v}) : FitIn(type', pair', conn', live', k)
      BY <3>3, <3>4, <3>7 DEF FitIn
    <3>9. Fits(type', pair', conn', live')
      BY <3>6, <3>7, <3>8, FitsWith
    <3> QED
      BY <2>3, <2>d, <2>r, <3>1, <3>7, <3>9 DEF Associate
  <2>4. CASE AssociateFull(v)
    <3>1. live' = {} /\ cur' = Nil /\ todo' = todo
      BY <2>4 DEF AssociateFull
    <3> QED
      BY <3>1 DEF Shapes, Fits
  <2>u. ASSUME NEW t \in {"CONNECT", "DESYNC", "PRE_TUNNEL"}, Handling(v, t)
        PROVE  \E w \in live : /\ w # Root /\ w # v /\ pair[v] = w /\ pair[w] = v
                               /\ \/ CoupledIn(type, pair, conn, v, w)
                                  \/ CoupledIn(type, pair, conn, w, v)
    <3>1. PICK w \in live : \/ CoupledIn(type, pair, conn, v, w)
                            \/ CoupledIn(type, pair, conn, w, v)
      BY <2>u, Handled DEF Types
    <3>2. pair[v] = w /\ pair[w] = v /\ w # v
      BY <3>1 DEF CoupledIn
    <3>3. w # Root
      BY <1>t, <3>2 DEF IInv, Fresh
    <3> QED
      BY <3>1, <3>2, <3>3
  \* The two ends of v and w get types that go together.
  <2>v. ASSUME NEW t \in {"CONNECT", "DESYNC", "PRE_TUNNEL"}, Handling(v, t),
               NEW w \in live, pair[v] = w, pair[w] = v,
               UNCHANGED <<live, pair, conn>>,
               \A u \in live \ {v, w} : type'[u] = type[u],
               \/ CoupledIn(type', pair, conn, v, w)
               \/ CoupledIn(type', pair, conn, w, v)
        PROVE  v \in live' /\ Fits(type', pair', conn', live')
    <3>1. v \in live /\ Fits(type, pair, conn, live)
      BY <2>v, Handled DEF Types
    <3>2. Fits(type, pair, conn, live \ {v, w})
      BY <1>t, <2>v, <3>1, FitsWithout
    <3>3. Fits(type', pair', conn', live \ {v, w})
      BY <2>v, <3>2, FitsSame
    <3>4. \A k \in live \ (live \ {v, w}) : FitIn(type', pair, conn, live, k)
      BY <2>v, <3>1 DEF FitIn
    <3> QED
      BY <2>v, <3>1, <3>3, <3>4, FitsWith
  <2>5. CASE Connected(v)
    <3>1. Handling(v, "CONNECT") /\ "CONNECT" \in Types \ {"ACCEPT"}
          /\ UNCHANGED <<live, pair, conn>>
      BY <2>5 DEF Connected, Types, array
    <3>2. PICK w \in live : /\ w # Root /\ w # v /\ pair[v] = w /\ pair[w] = v
                            /\ \/ CoupledIn(type, pair, conn, v, w)
                               \/ CoupledIn(type, pair, conn, w, v)
      BY <2>u, <3>1
    <3>3. CoupledIn(type, pair, conn, w, v)
      BY <2>r, <3>1, <3>2 DEF CoupledIn, Stages
    <3>4. /\ CoupledIn(type', pair, conn, w, v)
          /\ \A u \in live \ {v, w} : type'[u] = type[u]
      BY <1>t, <2>5, <3>2, <3>3 DEF Connected, TypeOK, CoupledIn, Stages
    <3> QED
      BY <2>5, <2>d, <2>r, <2>v, <3>1, <3>2, <3>4 DEF Connected
  <2>6. CASE Desync(v)
    <3>1. Handling(v, "DESYNC") /\ "DESYNC" \in Types \ {"ACCEPT"}
          /\ UNCHANGED <<live, pair, conn>>
      BY <2>6 DEF Desync, Types, array
    <3>2. PICK w \in live : /\ w # Root /\ w # v /\ pair[v] = w /\ pair[w] = v
                            /\ \/ CoupledIn(type, pair, conn, v, w)
                               \/ CoupledIn(type, pair, conn, w, v)
      BY <2>u, <3>1
    <3>3. PICK s \in {"DESYNC", "PRE_TUNNEL"} : type' = [type EXCEPT ![RemoteOf(v)] = s]
      BY <2>6 DEF Desync
    <3>4. CASE CoupledIn(type, pair, conn, v, w)
      <4>1. type' = [type EXCEPT ![w] = s] /\ type[v] = "DESYNC"
        BY <2>r, <3>1, <3>3, <3>4 DEF CoupledIn, RemoteOf
      <4>2. /\ CoupledIn(type', pair, conn, v, w)
            /\ \A u \in live \ {v, w} : type'[u] = type[u]
        BY <1>t, <3>2, <3>3, <3>4, <4>1 DEF TypeOK, CoupledIn, Stages
      <4> QED
        BY <2>6, <2>d, <2>r, <2>v, <3>1, <3>2, <4>2 DEF Desync
    <3>5. CASE CoupledIn(type, pair, conn, w, v)
      <4>1. /\ type' = [type EXCEPT ![v] = s] /\ type[v] = "DESYNC"
            /\ type[w] \in {"DESYNC", "IGNORE"}
        BY <2>r, <3>1, <3>3, <3>5 DEF CoupledIn, RemoteOf, Stages
      <4>2. /\ CoupledIn(type', pair, conn, w, v)
            /\ \A u \in live \ {v, w} : type'[u] = type[u]
        BY <1>t, <3>2, <3>3, <3>5, <4>1 DEF TypeOK, CoupledIn, Stages
      <4> QED
        BY <2>6, <2>d, <2>r, <2>v, <3>1, <3>2, <4>2 DEF Desync
    <3> QED
      BY <3>2, <3>4, <3>5
  <2>t. ASSUME NEW t \in {"CONNECT", "DESYNC", "PRE_TUNNEL"}, Handling(v, t),
               type' = ToTunnel(v), UNCHANGED <<live, pair, conn>>
        PROVE  v \in live' /\ Fits(type', pair', conn', live')
    <3>1. PICK w \in live : /\ w # Root /\ w # v /\ pair[v] = w /\ pair[w] = v
                            /\ \/ CoupledIn(type, pair, conn, v, w)
                               \/ CoupledIn(type, pair, conn, w, v)
      BY <2>t, <2>u
    <3>2. /\ type'[v] = "TUNNEL" /\ type'[w] = "TUNNEL"
          /\ \A u \in live \ {v, w} : type'[u] = type[u]
      BY <1>t, <2>t, <3>1 DEF ToTunnel, TypeOK
    <3>3. \/ CoupledIn(type', pair, conn, v, w)
          \/ CoupledIn(type', pair, conn, w, v)
      BY <3>1, <3>2 DEF CoupledIn, Stages
    <3> QED
      BY <2>t, <2>v, <3>1, <3>2, <3>3
  <2>7. CASE DesyncFull(v) \/ Answered(v)
    <3>1. PICK t \in {"DESYNC", "PRE_TUNNEL"} : Handling(v, t)
      BY <2>7 DEF DesyncFull, Answered
    <3>2. type' = ToTunnel(v) /\ UNCHANGED <<live, pair, conn>> /\ (Returns \/ Closes(v))
      BY <2>7 DEF DesyncFull, Answered, array
    <3>3. t \in Types \ {"ACCEPT"}
      BY <3>1 DEF Types
    <3> QED
      BY <2>d, <2>r, <2>t, <3>1, <3>2, <3>3
  <2>9. CASE Reconnect(v)
    <3>1. Handling(v, "PRE_TUNNEL") /\ "PRE_TUNNEL" \in Types \ {"ACCEPT"}
      BY <2>9 DEF Reconnect, Types
    <3>2. PICK w \in live : /\ w # Root /\ w # v /\ pair[v] = w /\ pair[w] = v
                            /\ \/ CoupledIn(type, pair, conn, v, w)
                               \/ CoupledIn(type, pair, conn, w, v)
      BY <2>u, <3>1
    <3>3. First \in Items \ live /\ First # Root /\ live' = live \cup {First}
      BY <1>a, <2>9, <2>r, <3>1 DEF Reconnect
    <3>4. w \notin conn
      BY <2>r, <3>1, <3>2 DEF CoupledIn, Stages
    <3>5. /\ \A u \in live \ {v, w} : type'[u] = type[u] /\ pair'[u] = pair[u]
                                      /\ (u \in conn' <=> u \in conn)
          /\ CoupledIn(type', pair', conn', w, First)
          /\ pair'[v] = Nil /\ todo' = v
      BY <1>t, <2>9, <3>2, <3>3, <3>4 DEF Reconnect, Repaired, Closes, TypeOK, CoupledIn, Stages
    <3>6. Fits(type, pair, conn, live \ {v, w})
      BY <1>t, <2>r, <3>1, <3>2, FitsWithout
    <3>7. Fits(type', pair', conn', live \ {v, w})
      BY <3>5, <3>6, FitsSame
    <3>8. /\ w \in live' \ {v} /\ First \in live' \ {v}
          /\ live \ {v, w} \subseteq live' \ {v} /\ v \in live'
      BY <2>r, <3>1, <3>2, <3>3
    <3>9. \A k \in (live' \ {v}) \ (live \ {v, w}) : FitIn(type', pair', conn', live' \ {v}, k)
      BY <3>3, <3>5, <3>8 DEF FitIn
    <3>10. Fits(type', pair', conn', live' \ {v})
      BY <3>7, <3>8, <3>9, FitsWith
    <3>11. Doomed(type', pair', conn', live', v)
      BY <1>i, <3>5, <3>10 DEF Doomed, Doomed1, IInv, TypeOK
    <3> QED
      BY <2>r, <3>1, <3>5, <3>8, <3>11 DEF Shapes
  <2>10. CASE ReconnectRefused(v)
    <3>1. Handling(v, "PRE_TUNNEL") /\ "PRE_TUNNEL" \in Types \ {"ACCEPT"}
      BY <2>10 DEF ReconnectRefused, Types
    <3>2. AddNone /\ Consistent /\ Fits(type, pair, conn, live)
      BY <2>10, <2>r, <3>1 DEF ReconnectRefused
    <3>3. CASE UNCHANGED type /\ Closes(v)
      BY <1>c, <2>d, <2>r, <3>1, <3>2, <3>3
    <3>4. CASE type' = ToTunnel(v) /\ (Returns \/ Closes(v))
      <4>1. PICK w \in live : /\ w # Root /\ w # v /\ pair[v] = w /\ pair[w] = v
                              /\ \/ CoupledIn(type, pair, conn, v, w)
                                 \/ CoupledIn(type, pair, conn, w, v)
        BY <2>u, <3>1
      <4>2. First \in Items \ live
        BY <1>t, <3>2, FirstIsFree DEF AddNone
      <4>3. /\ live' = live /\ conn' = conn /\ v \in live
            /\ \A u \in live : pair'[u] = pair[u]
            /\ type'[v] = "TUNNEL" /\ type'[w] = "TUNNEL"
            /\ \A u \in live \ {v, w} : type'[u] = type[u]
        BY <1>t, <2>r, <3>1, <3>2, <3>4, <4>1, <4>2 DEF AddNone, ToTunnel, TypeOK
      <4>4. Fits(type, pair, conn, live \ {v, w})
        BY <1>t, <3>2, <4>1, FitsWithout
      <4>5. Fits(type', pair', conn', live \ {v, w})
        BY <4>3, <4>4, FitsSame
      <4>6. \/ CoupledIn(type', pair', conn', v, w)
            \/ CoupledIn(type', pair', conn', w, v)
        BY <4>1, <4>3 DEF CoupledIn, Stages
      <4>7. \A k \in live' \ (live \ {v, w}) : FitIn(type', pair', conn', live', k)
        BY <4>3, <4>6 DEF FitIn
      <4>8. Fits(type', pair', conn', live')
        BY <4>3, <4>5, <4>7, FitsWith
      <4> QED
        BY <2>d, <2>r, <3>1, <3>4, <4>3, <4>8
    <3> QED
      BY <2>10, <3>3, <3>4 DEF ReconnectRefused
  <2>11. CASE Close(v) \/ Return(v)
    <3>1. PICK t \in Types : Handling(v, t)
      BY <2>11 DEF Close, Return, Types
    <3>2. v \in live /\ Fits(type, pair, conn, live) /\ todo = Nil /\ loop = "running"
      BY <3>1, Handled
    <3>3. UNCHANGED <<type, pair, conn, live>>
      BY <2>11 DEF Close, Return, array, conns
    <3>4. CASE Close(v)
      <4>1. v # Root
        BY <3>4, Handled DEF Close
      <4> QED
        BY <1>n, <3>2, <3>3, <3>4, <4>1 DEF Close, Closes
    <3>5. CASE Return(v)
      BY <1>n, <3>2, <3>3, <3>5 DEF Return, Returns
    <3> QED
      BY <2>11, <3>4, <3>5
  <2> QED
    BY <1>7, <2>1, <2>2, <2>3, <2>4, <2>5, <2>6, <2>7, <2>9, <2>10, <2>11 DEF Handler
<1>8. CASE UNCHANGED vars
  BY <1>8 DEF vars, array, conns, Shapes
<1> QED
  BY <1>1, <1>2, <1>3, <1>4, <1>5, <1>6, <1>7, <1>8 DEF Next, Ended

LEMMA InitShapes == Init => Shapes
<1> SUFFICES ASSUME Init PROVE Shapes
  OBVIOUS
<1>1. /\ live = {Root} /\ cur = Nil /\ todo = Nil
      /\ type[Root] = "ACCEPT" /\ pair[Root] = Nil
  BY RootIsItem DEF Init
<1>2. Nil \notin live
  BY <1>1, RootIsItem
<1> QED
  BY <1>1, <1>2 DEF Shapes, Fits, FitIn

LEMMA ShapesInvariance == Spec => [](IInv /\ Shapes)
<1>1. Init => IInv /\ Shapes
  BY InitIInv, InitShapes
<1>2. (IInv /\ Shapes) /\ [Next]_vars => (IInv /\ Shapes)'
  BY StepTypeOK, StepLinks, StepFresh, StepShapes DEF IInv
<1> QED
  BY <1>1, <1>2, PTL DEF Spec

\* Between two deletions every open descriptor has a pair that its handler can
\* use without a test, for a pool of any size and any order of events: through
\* reconnect(), refused items, rings for UDP that are taken apart, and items that
\* are reused within a batch.
THEOREM PairsAlwaysFit == Spec => []PairsFit
<1>1. IInv /\ Shapes => PairsFit
  <2> SUFFICES ASSUME IInv, Shapes, todo = Nil, NEW v \in live
               PROVE  \/ v = Root /\ type[v] = "ACCEPT" /\ pair[v] = Nil
                      \/ v # Root /\ type[v] = "REQUEST" /\ pair[v] = Nil
                      \/ \E w \in live : Coupled(v, w) \/ Coupled(w, v)
                      \/ \E w, x \in live : Ring(v, w, x) \/ Ring(w, x, v) \/ Ring(x, v, w)
    BY DEF PairsFit
  <2>1. FitIn(type, pair, conn, live, v)
    BY DEF Shapes, Fits, IInv, TypeOK
  <2>2. /\ \A c, r : CoupledIn(type, pair, conn, c, r) => Coupled(c, r)
        /\ \A c, u, r : RingIn(type, pair, conn, c, u, r) => Ring(c, u, r)
    BY DEF CoupledIn, Coupled, RingIn, Ring
  <2> QED
    BY <2>1, <2>2 DEF FitIn
<1> QED
  BY <1>1, ShapesInvariance, PTL

\* del_event() never follows a pair into another connection: a client that has
\* got a new remote survives the deletion of the old one.
THEOREM DeletionStaysInside == Spec => []DeletesOwnOnly
<1>1. IInv /\ Shapes => DeletesOwnOnly
  BY DEF Shapes, Doomed, Doomed1, Doomed2, Doomed3, DeletesOwnOnly
<1> QED
  BY <1>1, ShapesInvariance, PTL

=============================================================================
