---------------------------- MODULE StrategyCache ----------------------------
(***************************************************************************)
(* The strategies of byedpi and what it remembers of them: the groups of    *)
(* options of a command line (--auto), the group each connection tries, and *)
(* the entry of the cache for one server address, which the connections to  *)
(* that address share (mode_add_get, connect_hook, reconnect, on_torst,     *)
(* on_fin, on_response, on_tunnel_check).                                   *)
(*                                                                         *)
(* Connection has the bytes of one connection; here it is only the group it *)
(* tries.  The event loop has one thread, so one handler is one action.     *)
(***************************************************************************)
EXTENDS Naturals

CONSTANTS
    Conns,    \* places for connections to the address
    Params,   \* params.dp_count
    Layouts,  \* sets of groups that may be the ones that follow an --auto
    Cures     \* sets of groups that may be the ones a censor lets through

Groups == 0 .. Params - 1

ASSUME ParamsAssumption == Params \in Nat \ {0}
ASSUME LayoutsAssumption ==
    /\ Layouts \subseteq SUBSET (Groups \ {0})
    /\ Cures \subseteq SUBSET Groups

VARIABLES
    auto,     \* the groups with dp->detect # 0
    hears,    \* those that detect what the censor does with this request
    first,    \* the group whose filters fit the request, Params if none does
    works,    \* the groups that get the true server's answer
    censor,   \* what comes for the others: "reset", "close" or a false "answer"
    saved,    \* val->m of the address, 0 without an entry
    fresh,    \* the entry is not older than params.cache_ttl
    pc,       \* what each connection waits for
    attempt,  \* client->attempt
    cache     \* client->cache

setting == <<auto, hears, first, works, censor>>
entry   == <<saved, fresh>>
conns   == <<pc, attempt, cache>>
vars    == <<setting, entry, conns>>

SettingOK ==
    /\ auto \in Layouts
    /\ hears \in SUBSET auto
    /\ first \in (Groups \ auto) \cup {Params}
    /\ works \in Cures
    /\ censor \in {"reset", "close", "answer"}

TypeOK ==
    /\ SettingOK
    /\ saved \in Groups /\ fresh \in BOOLEAN
    /\ pc \in [Conns -> {"closed", "open", "asked", "tunnel"}]
    /\ attempt \in [Conns -> Groups]
    /\ cache \in [Conns -> BOOLEAN]

\* The entry may be from a time when the censor let other groups through.
Init ==
    /\ SettingOK
    /\ saved \in Groups /\ fresh \in BOOLEAN
    /\ pc = [c \in Conns |-> "closed"]
    /\ attempt = [c \in Conns |-> 0]
    /\ cache = [c \in Conns |-> FALSE]

-----------------------------------------------------------------------------
(* The cache                                                               *)

\* cache_ttl seconds have passed since the entry was written.
Expire ==
    /\ saved # 0 /\ fresh
    /\ fresh' = FALSE
    /\ UNCHANGED <<setting, saved, conns>>

\* mode_add_get(dst, -1) finds an entry and gives 0 for it.
Expired == saved # 0 /\ ~fresh

Delete_Forgotten == UNCHANGED entry

\* mode_add_get(dst, 0)
Delete == saved' = 0 /\ UNCHANGED fresh

\* The end of on_tunnel_check() in a connection that was retried or found the
\* entry expired: mode_add_get(addr, m).
Save(c) ==
    \/ ~cache[c] /\ UNCHANGED entry
    \/ cache[c] /\ attempt[c] = 0 /\ Delete
    \/ cache[c] /\ attempt[c] # 0 /\ saved' = attempt[c] /\ fresh' = TRUE

-----------------------------------------------------------------------------
(* The groups                                                              *)

\* The loops of on_torst(), on_fin() and on_response() pass over groups that
\* detect something else and end at one that was not made for retries.
Blocked(m, k) == \E g \in m + 1 .. k : g \notin auto

\* The group to retry with after m, if there is one.
NextGroup(m) ==
    {k \in hears : k > m /\ ~Blocked(m, k) /\ \A g \in hears : g >= k \/ g <= m}

-----------------------------------------------------------------------------
(* A connection                                                            *)

Goto(c, l) == pc' = [pc EXCEPT ![c] = l]

\* connect_hook()
Connect(c) ==
    /\ pc[c] = "closed"
    /\ Goto(c, "open")
    /\ cache' = [cache EXCEPT ![c] = Expired]
    /\ attempt' = [attempt EXCEPT ![c] = IF Expired THEN 0 ELSE saved]
    /\ UNCHANGED <<setting, entry>>

\* No filter fits and the connection is closed.
NoGroup(m) == m = Params

\* on_desync() chooses a group by its filters while the attempt is 0.
Request(c) ==
    /\ pc[c] = "open"
    /\ LET m == IF attempt[c] = 0 THEN first ELSE attempt[c]
       IN  IF NoGroup(m)
             THEN Goto(c, "closed") /\ UNCHANGED attempt
             ELSE Goto(c, "asked") /\ attempt' = [attempt EXCEPT ![c] = m]
    /\ UNCHANGED <<setting, entry, cache>>

\* on_tunnel_check() gets the answer of the server.
Answered(c) ==
    /\ pc[c] = "asked" /\ attempt[c] \in works
    /\ Goto(c, "tunnel")
    /\ Save(c)
    /\ UNCHANGED <<setting, attempt, cache>>

Censored(c) == pc[c] = "asked" /\ attempt[c] \notin works

\* reconnect(): a new server socket and the next group.
Retry(c) ==
    /\ Censored(c)
    /\ \E m \in NextGroup(attempt[c]) : attempt' = [attempt EXCEPT ![c] = m]
    /\ cache' = [cache EXCEPT ![c] = TRUE]
    /\ UNCHANGED <<setting, entry, pc>>

\* on_torst() forgets the address when it has run out of groups.
GiveUpReset(c) ==
    /\ Censored(c) /\ censor = "reset" /\ NextGroup(attempt[c]) = {}
    /\ Goto(c, "closed")
    /\ IF Blocked(attempt[c], Params - 1) THEN UNCHANGED entry ELSE Delete
    /\ UNCHANGED <<setting, attempt, cache>>

\* on_fin()
GiveUpClose(c) ==
    /\ Censored(c) /\ censor = "close" /\ NextGroup(attempt[c]) = {}
    /\ Goto(c, "closed")
    /\ UNCHANGED <<setting, entry, attempt, cache>>

\* on_response() finds no other group: the false answer goes to the client, and
\* on_tunnel_check() goes on as if the server had answered.
PassOn(c) ==
    /\ Censored(c) /\ censor = "answer" /\ NextGroup(attempt[c]) = {}
    /\ Goto(c, "tunnel")
    /\ Save(c)
    /\ UNCHANGED <<setting, attempt, cache>>

\* Either end hangs up, a system call fails, or reconnect() finds the pool full.
Leave(c) ==
    /\ pc[c] # "closed"
    /\ Goto(c, "closed")
    /\ UNCHANGED <<setting, entry, attempt, cache>>

\* What the proxy does about the first answer to an attempt.
Settle(c) ==
    Answered(c) \/ Retry(c) \/ GiveUpReset(c) \/ GiveUpClose(c) \/ PassOn(c)

Next ==
    Expire \/ \E c \in Conns : Connect(c) \/ Request(c) \/ Settle(c) \/ Leave(c)

\* Nothing but an answer or a run through all groups makes the cache forget.
Forgets == censor = "reset" /\ auto = Groups \ {0}

\* The client tries again and again and does not always hang up at the same
\* point; entries get old, which is not assumed where on_torst() deletes them.
Fairness ==
    /\ WF_vars(~Forgets /\ Expire)
    /\ \A c \in Conns :
         /\ WF_vars(Connect(c)) /\ SF_vars(Request(c))
         /\ WF_vars(pc[c] = "tunnel" /\ Leave(c))
         /\ \A m \in Groups : SF_vars(attempt[c] = m /\ Settle(c))

Spec == Init /\ [][Next]_vars /\ Fairness

-----------------------------------------------------------------------------
(* Properties                                                              *)

\* The groups a connection that starts without an entry comes to.
Chain == {k \in Groups : k = first \/ (k \in hears /\ k > first /\ ~Blocked(first, k))}

\* Whatever the cache remembers from the past and whatever the connections to
\* the address write there, a client that keeps trying gets the true answer again
\* and again if some group it comes to gets it: a strategy that no longer works
\* is forgotten by on_torst() or gets old.
GetsThrough ==
    first # Params /\ Chain \cap works # {} =>
        \A c \in Conns : []<>(pc[c] = "tunnel" /\ attempt[c] \in works)

=============================================================================
