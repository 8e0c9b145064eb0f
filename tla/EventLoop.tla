------------------------------ MODULE EventLoop ------------------------------
(***************************************************************************)
(* The event loop of byedpi: the pool of conev.c (epoll build) and the      *)
(* handlers of event_loop() in proxy.c and extend.c, as far as they open,   *)
(* close, pair and retype descriptors.  What flows between two descriptors  *)
(* is abstracted to the outcomes of the handlers.                           *)
(*                                                                         *)
(* The pool is a permutation "links" of its items whose first "count"       *)
(* places are in use, an index back from each item in use, and the          *)
(* iteration number by which next_event() tells the reports of the current  *)
(* batch that are stale.                                                    *)
(*                                                                         *)
(* One thread runs all of it.  A handler runs from NextEvent to the action  *)
(* that sets cur to Nil; each level of the recursion of del_event() is a    *)
(* step Delete, during which nothing else is enabled.                       *)
(***************************************************************************)
EXTENDS Naturals, FiniteSets

CONSTANTS
    Max,      \* pool->max
    IterMax,  \* UINT_MAX
    Nil       \* null pointer

ASSUME MaxAssumption == Max \in Nat \ {0}
ASSUME IterMaxAssumption == IterMax \in Nat \ {0}

Items == 0 .. Max - 1

ASSUME NilAssumption == Nil \notin Items

Root == 0     \* the item of the listening socket, the first one added

Types == {"ACCEPT", "REQUEST", "CONNECT", "IGNORE", "DESYNC", "PRE_TUNNEL",
          "TUNNEL", "UDP"}

VARIABLES
    links,    \* pool->links
    count,    \* pool->count
    index,    \* val->index
    live,     \* items with a registered descriptor
    type,     \* val->type
    conn,     \* items with val->flag = FLAG_CONN: remote, or the client's UDP
    pair,     \* val->pair
    modIter,  \* val->mod_iter
    iters,    \* pool->iters
    touched,  \* auxiliary: items added or deleted since the last epoll_wait
    ready,    \* items reported by epoll_wait and not yet looked at
    cur,      \* item whose handler is running
    todo,     \* item del_event() is about to delete
    loop      \* "running", "done", or "crashed" on a null pointer

array  == <<links, count, index, live>>
conns  == <<type, conn, pair>>
stamps == <<modIter, iters, touched>>
vars   == <<array, conns, stamps, ready, cur, todo, loop>>

TypeOK ==
    /\ links \in [Items -> Items]
    /\ count \in 0 .. Max
    /\ index \in [Items -> Items]
    /\ live \subseteq Items
    /\ type \in [Items -> Types]
    /\ conn \subseteq Items
    /\ pair \in [Items -> Items \cup {Nil}]
    /\ modIter \in [Items -> 0 .. IterMax]
    /\ iters \in 0 .. IterMax
    /\ touched \subseteq Items
    /\ ready \subseteq Items
    /\ cur \in Items \cup {Nil}
    /\ todo \in Items \cup {Nil}
    /\ loop \in {"running", "done", "crashed"}

\* init_pool() and the add_event() of the listening socket.  The fields of the
\* items not yet in use are never read before add_event() clears them.
Init ==
    /\ links = [i \in Items |-> i]
    /\ count = 1
    /\ index = [v \in Items |-> 0]
    /\ live = {Root}
    /\ type = [v \in Items |-> "ACCEPT"]
    /\ conn = {}
    /\ pair = [v \in Items |-> Nil]
    /\ modIter = [v \in Items |-> 0]
    /\ iters = 0
    /\ touched = {Root}
    /\ ready = {}
    /\ cur = Nil
    /\ todo = Nil
    /\ loop = "running"

Idle == loop = "running" /\ cur = Nil /\ todo = Nil

Handling(v, t) == loop = "running" /\ cur = v /\ todo = Nil /\ type[v] = t

Returns == cur' = Nil /\ UNCHANGED <<ready, todo, loop>>

Goes == UNCHANGED <<ready, cur, todo, loop>>

\* The handler fails: close_conn().
Closes(v) == todo' = v /\ UNCHANGED <<ready, cur, loop>>

-----------------------------------------------------------------------------
(* next_event()                                                            *)

NextIter_NoWrap == iters + 1

NextIter == IF iters = IterMax THEN 1 ELSE iters + 1

\* epoll_wait: the reports come in any order, so the batch is a set.
Fetch ==
    /\ Idle /\ ready = {}
    /\ ready' \in SUBSET live \ {{}}
    /\ iters' = NextIter
    /\ touched' = {}
    /\ UNCHANGED <<array, conns, modIter, cur, todo, loop>>

IsStale_Never(v) == FALSE

IsStale(v) == modIter[v] = iters

NextEvent(v) ==
    /\ Idle /\ v \in ready
    /\ ready' = ready \ {v}
    /\ cur' = IF IsStale(v) THEN Nil ELSE v
    /\ UNCHANGED <<array, conns, stamps, todo, loop>>

-----------------------------------------------------------------------------
(* add_event()                                                             *)

\* The items of S are new or gone in this iteration.
Stamp(S) ==
    /\ modIter' = [v \in Items |-> IF v \in S THEN iters ELSE modIter[v]]
    /\ touched' = touched \cup S
    /\ UNCHANGED iters

Free(n) == count + n <= Max

\* The item add_event() takes, and the one it takes next.
First == links[count]
Second == links[count + 1]

Add1 ==
    /\ Free(1)
    /\ live' = live \cup {First}
    /\ index' = [index EXCEPT ![First] = count]
    /\ count' = count + 1
    /\ Stamp({First})
    /\ UNCHANGED links

Add2 ==
    /\ Free(2)
    /\ live' = live \cup {First, Second}
    /\ index' = [index EXCEPT ![First] = count, ![Second] = count + 1]
    /\ count' = count + 2
    /\ Stamp({First, Second})
    /\ UNCHANGED links

\* epoll_ctl fails, or the handler deletes the item again at once: the item is
\* stamped but not in use.
AddNone ==
    /\ Free(1)
    /\ index' = [index EXCEPT ![First] = count]
    /\ pair' = [pair EXCEPT ![First] = Nil]
    /\ Stamp({First})
    /\ UNCHANGED <<links, count, live, conn>>

-----------------------------------------------------------------------------
(* del_event()                                                             *)

\* The item of the last place in use moves to the place of v.
SwapLinks(v) == [links EXCEPT ![index[v]] = links[count - 1], ![count - 1] = v]

MovedIndex_Stale(v) == index

MovedIndex(v) == [index EXCEPT ![links[count - 1]] = index[v]]

Unlinked(v) ==
    [x \in Items |-> IF x = v \/ (x = pair[v] /\ pair[x] = v) THEN Nil ELSE pair[x]]

Delete ==
    /\ todo # Nil
    /\ IF todo \in live
         THEN /\ live' = live \ {todo}
              /\ count' = count - 1
              /\ links' = SwapLinks(todo)
              /\ index' = MovedIndex(todo)
              /\ Stamp({todo})
              /\ pair' = Unlinked(todo)
              /\ todo' = pair[todo]
         ELSE todo' = Nil /\ UNCHANGED <<array, stamps, pair>>
    /\ cur' = IF todo' = Nil THEN Nil ELSE cur
    /\ UNCHANGED <<type, conn, ready, loop>>

-----------------------------------------------------------------------------
(* EV_ACCEPT                                                               *)

\* One turn of the loop of on_accept().
Accept ==
    /\ Handling(Root, "ACCEPT")
    /\ Add1
    /\ type' = [type EXCEPT ![First] = "REQUEST"]
    /\ conn' = conn \ {First}
    /\ pair' = [pair EXCEPT ![First] = Nil]
    /\ Goes

AcceptRefused ==
    /\ Handling(Root, "ACCEPT")
    /\ AddNone
    /\ UNCHANGED type
    /\ Goes

Linked_ButLast == {links[i] : i \in 0 .. count - 2}

Linked == {links[i] : i \in 0 .. count - 1}

\* on_accept() fails or the socket was shut down, another loop has cleared
\* NOT_EXIT, or epoll_wait fails: destroy_pool() closes the first count links.
Exit ==
    /\ loop = "running" /\ todo = Nil /\ cur \in {Root, Nil}
    /\ loop' = "done"
    /\ live' = live \ Linked
    /\ ready' = {} /\ cur' = Nil
    /\ UNCHANGED <<links, count, index, conns, stamps, todo>>

-----------------------------------------------------------------------------
(* EV_REQUEST                                                              *)

\* connect_hook() and create_conn(): a remote item paired with the client v.
Connect(v) ==
    /\ Handling(v, "REQUEST")
    /\ Add1
    /\ type' = [type EXCEPT ![v] = "IGNORE", ![First] = "CONNECT"]
    /\ conn' = conn \cup {First}
    /\ pair' = [pair EXCEPT ![v] = First, ![First] = v]
    /\ Returns

\* The item was refused, or deleted when connect() failed in udp_associate().
ConnectRefused(v) ==
    /\ Handling(v, "REQUEST")
    /\ AddNone
    /\ UNCHANGED type
    /\ Closes(v)

\* udp_associate(): the client v, the socket it sends to and the remote one,
\* added first, form a ring; the answer to v may still fail.
Associate(v) ==
    /\ Handling(v, "REQUEST")
    /\ Add2
    /\ type' = [type EXCEPT ![v] = "IGNORE", ![First] = "UDP", ![Second] = "UDP"]
    /\ conn' = (conn \ {First}) \cup {Second}
    /\ pair' = [pair EXCEPT ![v] = Second, ![Second] = First, ![First] = v]
    /\ Returns \/ Closes(v)

\* The second add_event() of udp_associate() returns null and line 485 tests
\* the first: the null item is written to.
AssociateFull(v) ==
    /\ Handling(v, "REQUEST")
    /\ Free(1) /\ ~Free(2)
    /\ loop' = "crashed"
    /\ live' = {} /\ ready' = {} /\ cur' = Nil
    /\ UNCHANGED <<links, count, index, conns, stamps, todo>>

-----------------------------------------------------------------------------
(* EV_CONNECT, EV_DESYNC, EV_PRE_TUNNEL                                    *)

\* on_connect()
Connected(v) ==
    /\ Handling(v, "CONNECT")
    /\ type' = [type EXCEPT ![v] = "TUNNEL", ![pair[v]] = "DESYNC"]
    /\ Returns \/ Closes(v)
    /\ UNCHANGED <<array, conn, pair, stamps>>

RemoteOf(v) == IF v \in conn THEN v ELSE pair[v]

\* on_desync(), on_desync_again(): all or part of the request was sent.
Desync(v) ==
    /\ Handling(v, "DESYNC")
    /\ \E t \in {"DESYNC", "PRE_TUNNEL"} : type' = [type EXCEPT ![RemoteOf(v)] = t]
    /\ Returns
    /\ UNCHANGED <<array, conn, pair, stamps>>

ToTunnel_OneSide(v) == [type EXCEPT ![v] = "TUNNEL"]

ToTunnel(v) == [type EXCEPT ![v] = "TUNNEL", ![pair[v]] = "TUNNEL"]

\* on_desync() of a client whose buffer is full.
DesyncFull(v) ==
    /\ Handling(v, "DESYNC") /\ v \notin conn
    /\ type' = ToTunnel(v)
    /\ Returns
    /\ UNCHANGED <<array, conn, pair, stamps>>

\* on_tunnel_check() passes the answer on.
Answered(v) ==
    /\ Handling(v, "PRE_TUNNEL")
    /\ type' = ToTunnel(v)
    /\ Returns \/ Closes(v)
    /\ UNCHANGED <<array, conn, pair, stamps>>

Repaired_NotUnpaired(v) == [pair EXCEPT ![pair[v]] = First, ![First] = pair[v]]

\* create_conn() for the client, then val->pair = 0.
Repaired(v) == [pair EXCEPT ![pair[v]] = First, ![First] = pair[v], ![v] = Nil]

\* reconnect(): a new remote takes the place of v, which is deleted alone.
Reconnect(v) ==
    /\ Handling(v, "PRE_TUNNEL")
    /\ Add1
    /\ type' = [type EXCEPT ![pair[v]] = "IGNORE", ![First] = "DESYNC"]
    /\ conn' = conn \cup {First}
    /\ pair' = Repaired(v)
    /\ Closes(v)

\* The new item is refused: on_torst() and on_fin() fail, but on_response()
\* leaves the answer to on_tunnel_check().
ReconnectRefused(v) ==
    /\ Handling(v, "PRE_TUNNEL")
    /\ AddNone
    /\ \/ type' = ToTunnel(v) /\ (Returns \/ Closes(v))
       \/ UNCHANGED type /\ Closes(v)

-----------------------------------------------------------------------------
(* Every handler may fail, and those that only move data may just return.  *)

Close(v) ==
    /\ \E t \in Types \ {"ACCEPT"} : Handling(v, t)
    /\ Closes(v)
    /\ UNCHANGED <<array, conns, stamps>>

Return(v) ==
    /\ \E t \in {"ACCEPT", "REQUEST", "IGNORE", "TUNNEL", "UDP"} : Handling(v, t)
    /\ Returns
    /\ UNCHANGED <<array, conns, stamps>>

Handler(v) ==
    \/ Connect(v) \/ ConnectRefused(v) \/ Associate(v) \/ AssociateFull(v)
    \/ Connected(v) \/ Desync(v) \/ DesyncFull(v)
    \/ Answered(v) \/ Reconnect(v) \/ ReconnectRefused(v)
    \/ Close(v) \/ Return(v)

Ended == loop # "running" /\ UNCHANGED vars

Next ==
    \/ Fetch \/ Delete
    \/ Accept \/ AcceptRefused \/ Exit
    \/ \E v \in Items : NextEvent(v) \/ Handler(v)
    \/ Ended

Spec == Init /\ [][Next]_vars

-----------------------------------------------------------------------------
(* Properties                                                              *)

Consistent ==
    /\ \A i, j \in Items : links[i] = links[j] => i = j
    /\ \A i \in Items : links[i] \in live <=> i < count
    /\ \A v \in live : links[index[v]] = v
    /\ Root \in live

\* The items in use are exactly the first count links, each knows its place,
\* and no item has two places (add_event, the swap of del_event); the
\* listening socket is among them until the loop ends, so that the assertion
\* of del_event() on the count holds (conev.c:116).
LinksConsistent == loop = "running" => Consistent

\* When no deletion is under way, each item in use is in a shape its handler
\* can use: a listening socket, a client without a pair, a client and its
\* remote in types that go together, or a ring of three for UDP.  The handlers
\* use val->pair, and the UDP handler val->pair->pair, without a test.
Stages == {<<"IGNORE", "CONNECT">>, <<"DESYNC", "TUNNEL">>, <<"DESYNC", "DESYNC">>,
           <<"DESYNC", "PRE_TUNNEL">>, <<"IGNORE", "DESYNC">>,
           <<"IGNORE", "PRE_TUNNEL">>, <<"TUNNEL", "TUNNEL">>}

Coupled(c, r) ==
    /\ c \notin conn /\ r \in conn
    /\ pair[c] = r /\ pair[r] = c
    /\ <<type[c], type[r]>> \in Stages

Ring(c, u, r) ==
    /\ pair[c] = u /\ pair[u] = r /\ pair[r] = c
    /\ type[c] = "IGNORE" /\ type[u] = "UDP" /\ type[r] = "UDP"
    /\ u \in conn /\ c \notin conn /\ r \notin conn

PairsFit ==
    todo = Nil => \A v \in live :
        \/ v = Root /\ type[v] = "ACCEPT" /\ pair[v] = Nil
        \/ v # Root /\ type[v] = "REQUEST" /\ pair[v] = Nil
        \/ \E w \in live : Coupled(v, w) \/ Coupled(w, v)
        \/ \E w, x \in live : Ring(v, w, x) \/ Ring(w, x, v) \/ Ring(x, v, w)

\* del_event() follows the pairs of an item only to items of its own connection,
\* never to a client that has got another remote (reconnect).
DeletesOwnOnly ==
    todo \in live /\ pair[todo] \in live =>
        LET w == pair[todo]
        IN  pair[w] \in live \ {todo} => pair[pair[w]] # w

\* destroy_pool() leaves no descriptor open.
ClosedAtExit == loop = "done" => live = {}

\* Handlers are called for open descriptors with an event of this batch only:
\* an item deleted, or deleted and added again, by an earlier handler of the
\* batch is skipped (mod_iter in next_event).
Abstract == INSTANCE EventPool WITH open <- live, current <- cur

Refinement == Abstract!Spec

=============================================================================
