------------------------- MODULE StrategyCache_proofs -------------------------
(***************************************************************************)
(* Proofs about StrategyCache for any number of groups and connections and  *)
(* any setting: type correctness, what the cache may take up, and that the  *)
(* retries of a connection come to an end.                                  *)
(***************************************************************************)
EXTENDS StrategyCache, TLAPS

LEMMA NextGroupIsGroup ==
    ASSUME SettingOK, NEW m \in Groups, NEW k \in NextGroup(m)
    PROVE  k \in Groups /\ k > m /\ k \in hears
BY LayoutsAssumption DEF NextGroup, SettingOK

\* mode_add_get() writes a group or nothing.
LEMMA EntryTypes ==
    ASSUME TypeOK, NEW c \in Conns, Save(c) \/ Delete \/ UNCHANGED entry
    PROVE  saved' \in Groups /\ fresh' \in BOOLEAN
<1>1. 0 \in Groups
  BY ParamsAssumption DEF Groups
<1>2. CASE Delete
  BY <1>1, <1>2 DEF Delete, TypeOK
<1>3. CASE UNCHANGED entry
  BY <1>3 DEF entry, TypeOK
<1>4. CASE Save(c)
  <2>1. cache[c] \in BOOLEAN
    BY DEF TypeOK
  <2>2. CASE cache[c] /\ attempt[c] # 0
    BY <1>4, <2>2 DEF Save, TypeOK
  <2>3. CASE ~cache[c] \/ attempt[c] = 0
    BY <1>2, <1>3, <1>4, <2>1, <2>3 DEF Save
  <2> QED
    BY <2>2, <2>3
<1> QED
  BY <1>2, <1>3, <1>4

LEMMA NextTypes == TypeOK /\ [Next]_vars => TypeOK'
<1> SUFFICES ASSUME TypeOK, [Next]_vars PROVE TypeOK'
  OBVIOUS
<1>1. SettingOK'
  BY DEF Next, vars, Expire, Connect, Request, Settle, Answered, Retry,
         GiveUpReset, GiveUpClose, PassOn, Leave, setting, TypeOK, SettingOK
<1>2. 0 \in Groups
  BY ParamsAssumption DEF Groups
<1>3. CASE Expire
  BY <1>1, <1>3 DEF Expire, conns, TypeOK
<1>4. ASSUME NEW c \in Conns, Connect(c) PROVE TypeOK'
  BY <1>1, <1>2, <1>4 DEF Connect, Goto, Expired, entry, TypeOK
<1>5. ASSUME NEW c \in Conns, Request(c) PROVE TypeOK'
  <2>1. first # Params => first \in Groups
    BY DEF TypeOK, SettingOK
  <2> QED
    BY <1>1, <1>5, <2>1 DEF Request, NoGroup, Goto, entry, TypeOK
<1>6. ASSUME NEW c \in Conns,
             Answered(c) \/ GiveUpReset(c) \/ GiveUpClose(c) \/ PassOn(c) \/ Leave(c)
      PROVE  TypeOK'
  <2>1. Save(c) \/ Delete \/ UNCHANGED entry
    BY <1>6 DEF Answered, GiveUpReset, GiveUpClose, PassOn, Leave
  <2>2. saved' \in Groups /\ fresh' \in BOOLEAN
    BY <2>1, EntryTypes
  <2>3. pc' \in [Conns -> {"closed", "open", "asked", "tunnel"}]
    BY <1>6 DEF Answered, GiveUpReset, GiveUpClose, PassOn, Leave, Goto, TypeOK
  <2>4. UNCHANGED <<attempt, cache>>
    BY <1>6 DEF Answered, GiveUpReset, GiveUpClose, PassOn, Leave
  <2> QED
    BY <1>1, <2>2, <2>3, <2>4 DEF TypeOK
<1>7. ASSUME NEW c \in Conns, Retry(c) PROVE TypeOK'
  <2>1. PICK m \in NextGroup(attempt[c]) : attempt' = [attempt EXCEPT ![c] = m]
    BY <1>7 DEF Retry
  <2>2. m \in Groups
    BY <2>1, NextGroupIsGroup DEF TypeOK
  <2> QED
    BY <1>1, <1>7, <2>1, <2>2 DEF Retry, entry, TypeOK
<1>8. CASE UNCHANGED vars
  BY <1>1, <1>8 DEF vars, entry, conns, TypeOK
<1> QED
  BY <1>3, <1>4, <1>5, <1>6, <1>7, <1>8 DEF Next, Settle

\* The entry is always a group of the command line, as every connection's is.
THEOREM TypeCorrect == Spec => []TypeOK
<1>1. Init => TypeOK
  BY ParamsAssumption DEF Init, TypeOK, Groups
<1>2. TypeOK /\ [Next]_vars => TypeOK'
  BY NextTypes
<1> QED
  BY <1>1, <1>2, PTL DEF Spec

-----------------------------------------------------------------------------
(* What the cache takes up                                                 *)

\* Unless a false answer passes for the server's, the cache takes up no group
\* but one that got the true answer.
SavedWorks == censor # "answer" => saved' \in {saved, 0} \cup works

THEOREM CacheIsEarned == Spec => [][SavedWorks]_vars
<1>1. ASSUME NEW c \in Conns, Answered(c) PROVE SavedWorks
  BY <1>1 DEF Answered, Save, Delete, entry, SavedWorks
<1>2. ASSUME NEW c \in Conns, Settle(c), ~Answered(c) PROVE SavedWorks
  BY <1>2 DEF Settle, Retry, GiveUpReset, GiveUpClose, PassOn, Delete, entry,
              SavedWorks
<1>3. ASSUME NEW c \in Conns, Connect(c) \/ Request(c) \/ Leave(c) PROVE SavedWorks
  BY <1>3 DEF Connect, Request, Leave, entry, SavedWorks
<1>4. Expire => SavedWorks
  BY DEF Expire, SavedWorks
<1>5. [Next]_vars => [SavedWorks]_vars
  BY <1>1, <1>2, <1>3, <1>4 DEF Next
<1> QED
  BY <1>5, PTL DEF Spec

-----------------------------------------------------------------------------
(* Retries                                                                 *)

\* While a connection is asked again its group grows, so it is asked at most
\* params.dp_count times.
RetriesGrow ==
    \A c \in Conns :
        pc[c] = "asked" /\ pc'[c] = "asked" =>
            \/ attempt'[c] = attempt[c]
            \/ attempt'[c] > attempt[c] /\ attempt'[c] < Params

THEOREM RetriesEnd == Spec => [][RetriesGrow]_vars
<1>1. ASSUME TypeOK, NEW d \in Conns, Retry(d) PROVE RetriesGrow
  <2>1. PICK m \in NextGroup(attempt[d]) : attempt' = [attempt EXCEPT ![d] = m]
    BY <1>1 DEF Retry
  <2>2. m \in Groups /\ m > attempt[d]
    BY <1>1, <2>1, NextGroupIsGroup DEF TypeOK
  <2>3. m < Params
    BY <2>2, ParamsAssumption DEF Groups
  <2> QED
    BY <1>1, <2>1, <2>2, <2>3 DEF RetriesGrow, TypeOK
<1>2. ASSUME TypeOK, NEW d \in Conns, Connect(d) \/ Request(d) PROVE RetriesGrow
  BY <1>2 DEF Connect, Request, Goto, RetriesGrow, TypeOK
<1>3. ASSUME NEW d \in Conns,
             \/ Answered(d) \/ GiveUpReset(d) \/ GiveUpClose(d) \/ PassOn(d)
             \/ Leave(d)
      PROVE  RetriesGrow
  BY <1>3 DEF Answered, GiveUpReset, GiveUpClose, PassOn, Leave, RetriesGrow
<1>4. Expire => RetriesGrow
  BY DEF Expire, conns, RetriesGrow
<1>5. TypeOK /\ [Next]_vars => [RetriesGrow]_vars
  BY <1>1, <1>2, <1>3, <1>4 DEF Next, Settle
<1> QED
  BY <1>5, TypeCorrect, PTL DEF Spec

=============================================================================
