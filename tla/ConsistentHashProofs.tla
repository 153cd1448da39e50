----------------------- MODULE ConsistentHashProofs -----------------------
(***************************************************************************)
(* Proofs about the hash ring of consistent-hash.c, for every cluster,     *)
(* every hash function and every number of entries per server above one.   *)
(***************************************************************************)
EXTENDS ConsistentHash, SequenceTheorems, TLAPS

Index == 0..entrycnt-1

(* Where the loops stand. *)
Control ==
  /\ pc = "add" => i = 0
  /\ pc # "add" => entrycnt >= hash_replicas
  /\ pc = "sort" => i < entrycnt
  /\ pc = "dedup" => i < entrycnt
  /\ pc = "search" => type # "JUMP" /\ i + 1 < j /\ ret = <<>>
  /\ pc = "fetch" => type # "JUMP" /\ i = Len(ret) /\ i <= repl_factor
  /\ pc = "jump" => type = "JUMP" /\ Len(ret) < repl_factor

(* The number of entries a server gets: one for the jump hash. *)
LEMMA Replicas ==
  /\ hash_replicas \in Nat /\ hash_replicas > 0
  /\ type # "JUMP" => hash_replicas = HASH_REPLICAS /\ hash_replicas > 1
  /\ type = "JUMP" => hash_replicas = 1
BY HashAssumption DEF hash_replicas

(* A cluster lists at least one server. *)
LEMMA ListsAreSeqs ==
  ASSUME NEW list \in Lists
  PROVE  list \in Seq(Server) /\ Len(list) \in Nat /\ Len(list) > 0
<1>1. list \in Seq(Server) /\ list # <<>> BY HashAssumption
<1> QED BY <1>1, EmptySeq, LenProperties

(* What ch_addnode writes for a server is a list of entries. *)
LEMMA FilledType ==
  ASSUME TypeOK, NEW n \in 1..Len(nodes)
  PROVE  Filled(nodes[n]) \in [0..(entrycnt + hash_replicas)-1 -> Entries]
<1>1. nodes[n] \in Server BY ListsAreSeqs, ElementOfSeq DEF TypeOK
<1>2. ASSUME NEW k \in 0..(entrycnt + hash_replicas)-1, ~(k < entrycnt), type # "JUMP"
      PROVE  hashpos[HashKey(type, nodes[n], k - entrycnt)] \in Nat
  <2>1. k - entrycnt \in 0..HASH_REPLICAS-1 BY <1>2, Replicas, HashAssumption DEF TypeOK
  <2>2. HashKey(type, nodes[n], k - entrycnt) \in HashKeys(type, nodes)
    BY <1>2, <2>1 DEF HashKeys
  <2> QED BY <2>2, HashAssumption DEF TypeOK, Positions
<1>3. ASSUME NEW k \in 0..(entrycnt + hash_replicas)-1
      PROVE  Filled(nodes[n])[k] \in Entries
  BY <1>1, <1>2, <1>3, Replicas DEF TypeOK, Filled, Entries
<1>4. 0..(entrycnt + hash_replicas)-1 = 0..(entrycnt + hash_replicas - 1)
  BY Replicas DEF TypeOK
<1> QED BY <1>3, <1>4, Zenon DEF Filled

(* The empty ring that ch_new makes has its type, and no loop runs. *)
THEOREM TypeInit == Init => TypeOK /\ Control
<1> SUFFICES ASSUME Init PROVE TypeOK /\ Control OBVIOUS
<1>1. ret \in Seq(Server) /\ Len(ret) = 0 BY EmptySeq DEF Init
<1>2. entrylist \in [0..entrycnt-1 -> Entries]
  BY EmptySeq DEF Init
<1>3. Len(nodes) \in Nat /\ Len(nodes) > 0 BY ListsAreSeqs DEF Init
<1> QED BY <1>1, <1>2, <1>3 DEF Init, TypeOK, Control

(* The middle of the binary search lies strictly between its bounds. *)
LEMMA Middle ==
  ASSUME NEW a \in Nat, NEW b \in Nat, a + 1 < b
  PROVE  LET m == (a + b) \div 2 IN m \in Nat /\ a < m /\ m < b
OBVIOUS

(* The indices alone, for steps of arithmetic. *)
LEMMA Indices ==
  ASSUME TypeOK
  PROVE  i \in Nat /\ entrycnt \in Nat /\ j \in 0..entrycnt /\ t \in 0..entrycnt+1
BY DEF TypeOK

(* Every step keeps the types and the control facts. *)
LEMMA TypeStep ==
  ASSUME TypeOK, Control, [Next]_vars
  PROVE  TypeOK' /\ Control'
<1> USE Replicas
<1>0. Len(nodes) \in Nat /\ Len(nodes) > 0 /\ Len(ret) \in Nat
  BY ListsAreSeqs, LenProperties DEF TypeOK
<1>1. CASE ch_addnode
  <2>1. added + 1 \in 1..Len(nodes) BY <1>0, <1>1 DEF ch_addnode, TypeOK
  <2>2. entrycnt' = entrycnt + hash_replicas /\ entrycnt' \in Nat
    BY <1>1 DEF ch_addnode, TypeOK
  <2>3. entrylist' = Filled(nodes[added + 1]) BY <1>1 DEF ch_addnode
  <2>4. entrylist' \in [0..entrycnt'-1 -> Entries]
    BY <2>1, <2>2, <2>3, FilledType
  <2>5. UNCHANGED <<type, nodes, repl_factor, hashpos>> /\ hash_replicas' = hash_replicas
    BY <1>1 DEF ch_addnode, config, hash_replicas
  <2>6. i = 0 /\ entrycnt' >= hash_replicas /\ pc' \in {"add", "sort"}
    BY <1>1, <2>2 DEF ch_addnode, TypeOK, Control
  <2>7. UNCHANGED <<pos, i, j, t, bcklst, ret>> /\ added' = added + 1
    BY <1>1 DEF ch_addnode
  <2> QED BY <1>0, <2>1, <2>2, <2>4, <2>5, <2>6, <2>7 DEF TypeOK, Control
<1>2. CASE Sort
  <2>1. PICK k \in i..entrycnt-1 :
          entrylist' = [entrylist EXCEPT ![i] = entrylist[k], ![k] = entrylist[i]]
    BY <1>2 DEF Sort
  <2>2. entrylist' \in [0..entrycnt-1 -> Entries]
    BY <1>2, <2>1 DEF Sort, TypeOK, Control
  <2>3. UNCHANGED <<type, nodes, repl_factor, hashpos, added, entrycnt, pos, j, t, bcklst, ret>>
        /\ hash_replicas' = hash_replicas
    BY <1>2 DEF Sort, config, hash_replicas
  <2>4. \/ i' = 0 /\ pc' = "dedup" /\ i + 1 = entrycnt
        \/ i' = i + 1 /\ pc' = "sort" /\ i + 1 # entrycnt
    BY <1>2 DEF Sort
  <2> QED BY <1>2, <2>2, <2>3, <2>4 DEF Sort, TypeOK, Control
<1>3. CASE Overwrite
  <2>1. entrylist' \in [0..entrycnt-1 -> Entries]
    <3>0. i < entrycnt - 1 BY <1>3 DEF Overwrite
    <3>1. i \in 0..entrycnt-1 /\ i + 1 \in 0..entrycnt-1 BY <3>0, Indices
    <3>2. entrylist[i].server \in Server /\ entrylist[i+1].pos \in Nat
      BY <3>1 DEF TypeOK, Entries
    <3> QED BY <1>3, <3>1, <3>2 DEF Overwrite, TypeOK, Entries
  <2>2. UNCHANGED <<type, nodes, repl_factor, hashpos, added, entrycnt, pc, pos, j, t, bcklst, ret>>
        /\ hash_replicas' = hash_replicas
    BY <1>3 DEF Overwrite, config, hash_replicas
  <2>3. pc = "dedup" /\ i' = i + 1 /\ i + 1 < entrycnt /\ i' \in Nat
    <3>1. pc = "dedup" /\ i' = i + 1 /\ i < entrycnt - 1 BY <1>3 DEF Overwrite
    <3> QED BY <3>1, Indices
  <2>4. TypeOK' BY <2>1, <2>2, <2>3 DEF TypeOK
  <2>5. Control' BY <2>2, <2>3 DEF Control
  <2> QED BY <2>4, <2>5
<1>4. CASE RingBuilt
  BY <1>4 DEF RingBuilt, config, TypeOK, Control, hash_replicas
<1>5. ASSUME NEW p \in Positions, ch_get_nodes(p)
      PROVE  TypeOK' /\ Control'
  <2>1. pos' = p /\ p \in Nat /\ ret' = <<>> /\ t' = 0 /\ pc = "ready"
    BY <1>5, HashAssumption DEF ch_get_nodes, Positions
  <2>2. ret' \in Seq(Server) /\ Len(ret') = 0 /\ ret' = <<>> BY <2>1, EmptySeq
  <2>3. UNCHANGED <<type, nodes, repl_factor, hashpos, added, entrylist, entrycnt>>
        /\ hash_replicas' = hash_replicas
    BY <1>5 DEF ch_get_nodes, config, hash_replicas
  <2>4. CASE type = "JUMP"
    <3>1. pc' = "jump" /\ i' = entrycnt /\ j' = 0
          /\ bcklst' = [k \in 0..entrycnt-1 |-> entrylist[k].server]
      BY <1>5, <2>4 DEF ch_get_nodes
    <3>2. bcklst' \in [0..entrycnt-1 -> Server] BY <3>1 DEF TypeOK, Entries
    <3>3. entrycnt >= 1 BY <2>1, <2>4 DEF TypeOK, Control
    <3> QED BY <2>1, <2>2, <2>3, <2>4, <3>1, <3>2, <3>3 DEF TypeOK, Control
  <2>5. CASE type # "JUMP"
    <3>1. pc' = "search" /\ i' = 0 /\ j' = entrycnt /\ bcklst' = bcklst
      BY <1>5, <2>5 DEF ch_get_nodes
    <3>2. entrycnt >= 2 BY <2>1, <2>5, HashAssumption DEF TypeOK, Control
    <3> QED BY <2>1, <2>2, <2>3, <2>5, <3>1, <3>2 DEF TypeOK, Control
  <2> QED BY <2>4, <2>5
<1>6. ASSUME pc = "search" PROVE middle \in Nat /\ i < middle /\ middle < j
  BY <1>6, Middle DEF middle, TypeOK, Control
<1>7. pc = "search" => Len(ret) = 0 /\ ret = <<>> BY EmptySeq DEF Control
<1>8. CASE SearchHit \/ SearchRight \/ SearchLeft
  <2>1. pc = "search" BY <1>8 DEF SearchHit, SearchRight, SearchLeft
  <2>2. UNCHANGED <<type, nodes, repl_factor, hashpos, added, entrylist, entrycnt,
                    pos, bcklst, ret>>
        /\ hash_replicas' = hash_replicas
    BY <1>8 DEF SearchHit, SearchRight, SearchLeft, config, hash_replicas
  <2>3. CASE pc' = "fetch"
    <3>1. ASSUME SearchHit PROVE i' = 0 /\ t' \in 0..entrycnt+1 /\ j' \in 0..entrycnt
      <4>1. i' = 0 /\ t' = middle /\ j' = j BY <3>1 DEF SearchHit, Found
      <4> QED BY <1>6, <2>1, <4>1, Indices
    <3>2. ASSUME SearchRight PROVE i' = 0 /\ t' \in 0..entrycnt+1 /\ j' \in 0..entrycnt
      <4>1. i' = 0 /\ t' \in {middle, j, j + 1} /\ j' = j
        BY <2>1, <2>3, <3>2 DEF SearchRight, Found
      <4> QED BY <1>6, <2>1, <4>1, Indices
    <3>3. ASSUME SearchLeft PROVE i' = 0 /\ t' \in 0..entrycnt+1 /\ j' \in 0..entrycnt
      <4>1. i' = 0 /\ t' \in {i, middle} /\ j' = middle
        BY <2>1, <2>3, <3>3 DEF SearchLeft, Found
      <4> QED BY <1>6, <2>1, <4>1, Indices
    <3>4. i' = 0 /\ t' \in 0..entrycnt+1 /\ j' \in 0..entrycnt BY <1>8, <3>1, <3>2, <3>3
    <3> QED BY <1>0, <1>7, <2>1, <2>2, <2>3, <3>4 DEF TypeOK, Control
  <2>4. CASE pc' # "fetch"
    <3>1. pc' = "search" /\ t' = t
      BY <1>8, <2>1, <2>4 DEF SearchHit, SearchRight, SearchLeft, Found
    <3>2. CASE SearchRight
      <4>1. i' = middle /\ j' = j /\ middle # j - 1
        BY <2>4, <3>2 DEF SearchRight, Found
      <4> QED BY <1>0, <1>6, <1>7, <2>1, <2>2, <3>1, <4>1 DEF TypeOK, Control
    <3>3. CASE SearchLeft
      <4>1. i' = i /\ j' = middle /\ i # middle - 1
        BY <2>4, <3>3 DEF SearchLeft, Found
      <4> QED BY <1>0, <1>6, <1>7, <2>1, <2>2, <3>1, <4>1 DEF TypeOK, Control
    <3> QED BY <1>8, <2>4, <3>2, <3>3 DEF SearchHit, Found
  <2> QED BY <2>3, <2>4
<1>9. CASE Fetch
  <2> DEFINE n == IF t >= entrycnt THEN 0 ELSE t
             s == entrylist[n].server
  <2>1. pc = "fetch" /\ i < repl_factor /\ t' = n + 1 BY <1>9 DEF Fetch
  <2>2. n \in 0..entrycnt-1 BY <2>1 DEF TypeOK, Control
  <2>3. s \in Server BY <2>2 DEF TypeOK, Entries
  <2>4. UNCHANGED <<type, nodes, repl_factor, hashpos, added, entrylist, entrycnt, pc,
                    pos, j, bcklst>>
        /\ hash_replicas' = hash_replicas
    BY <1>9 DEF Fetch, config, hash_replicas
  <2>5. CASE ret' = ret /\ i' = i
    BY <2>1, <2>2, <2>4, <2>5 DEF TypeOK, Control
  <2>6. CASE ret' = Append(ret, s) /\ i' = i + 1
    <3>1. ret' \in Seq(Server) /\ Len(ret') = Len(ret) + 1
      BY <2>3, <2>6, AppendProperties DEF TypeOK
    <3> QED BY <1>0, <2>1, <2>2, <2>4, <2>6, <3>1 DEF TypeOK, Control
  <2> QED BY <1>9, <2>5, <2>6 DEF Fetch
<1>10. CASE Fetched
  BY <1>10 DEF Fetched, config, TypeOK, Control, hash_replicas
<1>11. CASE Jump
  <2>1. pc = "jump" /\ i \in 1..entrycnt BY <1>11 DEF Jump, TypeOK
  <2>2. UNCHANGED <<type, nodes, repl_factor, hashpos, added, entrylist, entrycnt,
                    pos, j, t>>
        /\ hash_replicas' = hash_replicas
    BY <1>11 DEF Jump, config, hash_replicas
  <2>3. PICK b \in 0..i-1 :
          /\ ret' = Append(ret, bcklst[b])
          /\ IF Len(ret') = repl_factor
             THEN pc' = "done" /\ UNCHANGED <<i, bcklst>>
             ELSE /\ i' = i - 1
                  /\ bcklst' = [bcklst EXCEPT ![b] = bcklst[i-1]]
                  /\ pc' = IF i' > 0 THEN pc ELSE "done"
    BY <1>11 DEF Jump
  <2>8. bcklst \in [0..entrycnt-1 -> Server] BY <2>1 DEF TypeOK
  <2>9. b \in 0..entrycnt-1 /\ i-1 \in 0..entrycnt-1 BY <2>1, <2>3, Indices
  <2>4. bcklst[b] \in Server /\ bcklst[i-1] \in Server BY <2>8, <2>9
  <2>5. ret' \in Seq(Server) /\ Len(ret') = Len(ret) + 1
    BY <2>3, <2>4, AppendProperties DEF TypeOK
  <2>6. bcklst' \in [0..entrycnt-1 -> Server] BY <2>8, <2>3, <2>4
  <2>7. i' \in Nat /\ pc' \in {"jump", "done"} /\ (pc' = "jump" => i' \in 1..entrycnt
            /\ Len(ret') # repl_factor)
    BY <2>1, <2>3, Indices
  <2> QED BY <1>0, <2>1, <2>2, <2>5, <2>6, <2>7 DEF TypeOK, Control
<1>12. CASE Return
  BY <1>12 DEF Return, config, TypeOK, Control, hash_replicas
<1>13. CASE UNCHANGED vars
  BY <1>13 DEF vars, config, TypeOK, Control, hash_replicas
<1> QED BY <1>1, <1>2, <1>3, <1>4, <1>5, <1>8, <1>9, <1>10, <1>11, <1>12, <1>13
        DEF Next, Lookup
-----------------------------------------------------------------------------
(* The ring is sorted by position, and equal positions have one owner. *)
RingInv ==
  /\ pc = "sort" =>
       \A a \in 0..i-1, b \in Index :
         a <= b => NotAfter(type, entrylist[a], entrylist[b])
  /\ pc \notin {"add", "sort"} /\ type # "JUMP" =>
       \A a, b \in Index : a <= b => entrylist[a].pos <= entrylist[b].pos
  /\ pc = "dedup" /\ type # "JUMP" =>
       \A a, b \in 0..i :
         entrylist[a].pos = entrylist[b].pos => entrylist[a].server = entrylist[b].server
  /\ Built /\ type # "JUMP" =>
       \A a, b \in Index :
         entrylist[a].pos = entrylist[b].pos => entrylist[a].server = entrylist[b].server

(* The order of qsort is one of positions first. *)
LEMMA NotAfterPos ==
  ASSUME NEW ty, ty # "JUMP", NEW l \in Entries, NEW r \in Entries, NotAfter(ty, l, r)
  PROVE  l.pos <= r.pos
BY DEF NotAfter, Entries

(* A step of the selection puts a least entry next. *)
LEMMA SortSelects ==
  ASSUME TypeOK, Control, RingInv, Sort
  PROVE  \A a \in 0..i, b \in Index :
           a <= b => NotAfter(type, entrylist'[a], entrylist'[b])
<1>1. PICK k \in i..entrycnt-1 :
        /\ \A l \in i..entrycnt-1 : NotAfter(type, entrylist[k], entrylist[l])
        /\ entrylist' = [entrylist EXCEPT ![i] = entrylist[k], ![k] = entrylist[i]]
  BY DEF Sort
<1>2. i \in Index /\ k \in Index /\ pc = "sort" BY <1>1 DEF Sort, TypeOK, Control, Index
<1>3. entrylist'[i] = entrylist[k] /\ entrylist'[k] = entrylist[i]
      /\ \A b \in Index : b # i /\ b # k => entrylist'[b] = entrylist[b]
  BY <1>1, <1>2 DEF TypeOK, Index
<1>4. ASSUME NEW a \in 0..i, NEW b \in Index, a <= b
      PROVE  NotAfter(type, entrylist'[a], entrylist'[b])
  <2>1. PICK c \in Index : entrylist'[b] = entrylist[c] /\ a <= c
                           /\ (i <= b => i <= c)
    BY <1>2, <1>3, <1>4, <1>1 DEF TypeOK, Index
  <2>2. CASE a = i
    BY <1>1, <1>2, <1>3, <1>4, <2>1, <2>2 DEF TypeOK, Index
  <2>3. CASE a < i
    <3>1. entrylist'[a] = entrylist[a] BY <1>1, <1>2, <1>3, <2>3 DEF TypeOK, Index
    <3> QED BY <1>2, <2>1, <2>3, <3>1 DEF RingInv, TypeOK, Index
  <2> QED BY <2>2, <2>3, <1>2 DEF TypeOK, Index
<1> QED BY <1>4

(* Every step keeps the ring in order and its shared positions with one   *)
(* owner.                                                                  *)
LEMMA RingStep ==
  ASSUME TypeOK, Control, RingInv, [Next]_vars, TypeOK'
  PROVE  RingInv'
<1>1. CASE ch_addnode
  <2>1. i' = 0 /\ pc' \in {"add", "sort"} BY <1>1 DEF ch_addnode, Control
  <2> QED BY <2>1 DEF RingInv, Built
<1>2. CASE Sort
  <2>1. UNCHANGED <<type, entrycnt>> /\ pc = "sort" BY <1>2 DEF Sort, config
  <2>2. \A a \in 0..i, b \in Index :
           a <= b => NotAfter(type, entrylist'[a], entrylist'[b])
    BY <1>2, SortSelects
  <2>3. CASE i + 1 = entrycnt
    <3>1. i' = 0 /\ pc' = "dedup" BY <1>2, <2>3 DEF Sort
    <3>2. ASSUME type # "JUMP", NEW a \in Index, NEW b \in Index, a <= b
          PROVE  entrylist'[a].pos <= entrylist'[b].pos
      <4>1. a \in 0..i BY <2>3 DEF TypeOK, Index
      <4>2. entrylist'[a] \in Entries /\ entrylist'[b] \in Entries
        BY <2>1 DEF TypeOK, Index
      <4> QED BY <2>2, <3>2, <4>1, <4>2, NotAfterPos
    <3> QED BY <2>1, <3>1, <3>2 DEF RingInv, Built, Index
  <2>4. CASE i + 1 # entrycnt
    <3>1. i' = i + 1 /\ pc' = "sort" BY <1>2, <2>4 DEF Sort
    <3>2. 0..i'-1 = 0..i BY <3>1 DEF TypeOK
    <3> QED BY <2>1, <2>2, <3>1, <3>2 DEF RingInv, Built, Index
  <2> QED BY <2>3, <2>4
<1>3. CASE Overwrite
  <2>1. UNCHANGED <<type, entrycnt, pc>> /\ pc = "dedup" /\ i' = i + 1
        /\ i \in Index /\ i + 1 \in Index /\ i \in Nat
    BY <1>3 DEF Overwrite, config, TypeOK, Index
  <2>0. /\ type # "JUMP" => \A a, b \in Index : a <= b => entrylist[a].pos <= entrylist[b].pos
        /\ type # "JUMP" => \A a, b \in 0..i : entrylist[a].pos = entrylist[b].pos
                              => entrylist[a].server = entrylist[b].server
        /\ \A a \in Index : entrylist[a].pos \in Nat
    BY <2>1 DEF RingInv, TypeOK, Entries, Index
  <2>2. \A a \in Index : entrylist'[a].pos = entrylist[a].pos
    BY <1>3, <2>1 DEF Overwrite, TypeOK, Entries, Index
  <2>3. \A a \in Index : a # i + 1 => entrylist'[a] = entrylist[a]
    BY <1>3, <2>1 DEF Overwrite, TypeOK, Index
  <2>4. entrylist[i].pos = entrylist[i+1].pos => entrylist'[i+1].server = entrylist[i].server
    BY <1>3, <2>1 DEF Overwrite, TypeOK, Entries, Index
  <2>5. ASSUME type # "JUMP", NEW a \in 0..i, entrylist[a].pos = entrylist[i+1].pos
        PROVE  entrylist'[i+1].server = entrylist'[a].server
    <3>1. a \in Index /\ a <= i /\ a # i + 1 BY <2>1, Indices DEF Index
    <3>2. entrylist[a].pos <= entrylist[i].pos /\ entrylist[i].pos <= entrylist[i+1].pos
      BY <2>0, <2>1, <2>5, <3>1
    <3>3. entrylist[i].pos = entrylist[i+1].pos /\ entrylist[a].pos = entrylist[i].pos
      BY <2>0, <2>1, <2>5, <3>1, <3>2
    <3>4. entrylist[a].server = entrylist[i].server
      BY <2>0, <2>1, <2>5, <3>3
    <3> QED BY <2>3, <2>4, <3>1, <3>3, <3>4
  <2>6. ASSUME type # "JUMP", NEW a \in 0..i', NEW b \in 0..i',
               entrylist'[a].pos = entrylist'[b].pos
        PROVE  entrylist'[a].server = entrylist'[b].server
    <3>1. a \in Index /\ b \in Index /\ (a = i + 1 \/ a \in 0..i) /\ (b = i + 1 \/ b \in 0..i)
      BY <2>1, Indices DEF Index
    <3>2. entrylist[a].pos = entrylist[b].pos BY <2>2, <2>6, <3>1
    <3>3. CASE a \in 0..i /\ b \in 0..i
      <4>1. a # i + 1 /\ b # i + 1 BY <2>1, <3>3
      <4> QED BY <2>0, <2>3, <2>6, <3>1, <3>2, <3>3, <4>1
    <3> QED BY <2>5, <2>6, <3>1, <3>2, <3>3
  <2> QED BY <2>1, <2>2, <2>6 DEF RingInv, Built, Index
<1>4. CASE RingBuilt
  <2>1. UNCHANGED <<type, entrycnt, entrylist>> /\ pc = "dedup" /\ pc' = "ready"
    BY <1>4 DEF RingBuilt, config
  <2>2. Index = 0..i BY <1>4 DEF RingBuilt, TypeOK, Control, Index
  <2>3. Index' = Index BY <2>1 DEF Index
  <2>4. ASSUME type # "JUMP", NEW a \in Index, NEW b \in Index
        PROVE  /\ a <= b => entrylist[a].pos <= entrylist[b].pos
               /\ entrylist[a].pos = entrylist[b].pos => entrylist[a].server = entrylist[b].server
    <3>1. a <= b => entrylist[a].pos <= entrylist[b].pos BY <2>1, <2>4 DEF RingInv
    <3>2. a \in 0..i /\ b \in 0..i BY <2>2
    <3>3. entrylist[a].pos = entrylist[b].pos => entrylist[a].server = entrylist[b].server
      BY <2>1, <2>4, <3>2 DEF RingInv
    <3> QED BY <3>1, <3>3
  <2>5. pc' # "sort" /\ pc' # "dedup" /\ type' = type /\ entrylist' = entrylist BY <2>1
  <2> QED BY <2>3, <2>4, <2>5 DEF RingInv
<1>5. CASE UNCHANGED <<type, entrycnt, entrylist>> /\ Built /\ Built'
  BY <1>5 DEF RingInv, Built, Index
<1>6. CASE UNCHANGED vars BY <1>6 DEF vars, config, RingInv, Built, Index
<1> QED BY <1>1, <1>2, <1>3, <1>4, <1>5, <1>6
  DEF Next, Lookup, ch_get_nodes, SearchHit, SearchRight, SearchLeft, Found, Fetch,
      Fetched, Jump, Return, Built, config, TypeOK
-----------------------------------------------------------------------------
(* The search is between an entry below the position and one above it. *)
SearchInv ==
  pc = "search" => /\ i > 0 => entrylist[i].pos < pos
                   /\ j < entrycnt => entrylist[j].pos > pos

Got(s) == \E m \in 1..Len(ret) : ret[m] = s

(* The walk has collected all that lies between its start and entry n. *)
Reached(n) ==
  \A l \in Index :
    Before(l, n) => entrylist[l].server = entrylist[n].server \/ Got(entrylist[l].server)

WalkInv == pc = "fetch" => Reached(IF t >= entrycnt THEN 0 ELSE t)

(* What the lemmas below need of the ring. *)
LEMMA RingFacts ==
  ASSUME TypeOK, Control, RingInv, pc \in {"search", "fetch"}
  PROVE  /\ \A a \in Index : entrylist[a].pos \in Nat /\ entrylist[a].server \in Server
         /\ \A a, b \in Index : a <= b => entrylist[a].pos <= entrylist[b].pos
         /\ \A a, b \in Index : entrylist[a].pos = entrylist[b].pos
                                  => entrylist[a].server = entrylist[b].server
         /\ pos \in Nat /\ entrycnt \in Nat /\ entrycnt > 1 /\ type # "JUMP"
<1>1. type # "JUMP" /\ entrycnt >= hash_replicas BY DEF Control
<1>2. hash_replicas \in Nat /\ hash_replicas > 1 BY <1>1, Replicas
<1>3. pos \in Nat /\ entrycnt \in Nat /\ entrylist \in [Index -> Entries]
  BY DEF TypeOK, Index
<1>4. \A a \in Index : entrylist[a].pos \in Nat /\ entrylist[a].server \in Server
  BY <1>3 DEF Entries
<1>5. /\ \A a, b \in Index : a <= b => entrylist[a].pos <= entrylist[b].pos
      /\ \A a, b \in Index : entrylist[a].pos = entrylist[b].pos
                               => entrylist[a].server = entrylist[b].server
  BY <1>1 DEF RingInv, Built
<1>6. entrycnt > 1 BY <1>1, <1>2, <1>3
<1> QED BY <1>1, <1>3, <1>4, <1>5, <1>6

(* However the search ends, it ends at the right server. *)
LEMMA SearchFinds ==
  ASSUME TypeOK, Control, RingInv, SearchInv,
         SearchHit \/ SearchRight \/ SearchLeft, pc' = "fetch"
  PROVE  LET n == IF t' >= entrycnt THEN 0 ELSE t' IN
         \A l \in Index : Before(l, n) => entrylist[l].server = entrylist[n].server
<1>1. pc = "search" BY DEF SearchHit, SearchRight, SearchLeft
<1>2. middle \in Nat /\ i < middle /\ middle < j /\ i \in Index /\ middle \in Index
      /\ j \in Nat /\ j <= entrycnt
  BY <1>1, Middle DEF middle, TypeOK, Control, Index
<1>3. /\ \A a \in Index : entrylist[a].pos \in Nat
      /\ \A a, b \in Index : a <= b => entrylist[a].pos <= entrylist[b].pos
      /\ \A a, b \in Index : entrylist[a].pos = entrylist[b].pos
                               => entrylist[a].server = entrylist[b].server
      /\ pos \in Nat /\ entrycnt \in Nat /\ 0 \in Index
  BY <1>1, RingFacts DEF Index
<1>4. CASE SearchHit
  <2>1. t' = middle /\ entrylist[middle].pos = pos BY <1>4 DEF SearchHit, Found
  <2>2. ~(t' >= entrycnt) BY <1>2, <1>3, <2>1 DEF Index
  <2>3. ASSUME NEW l \in Index, Before(l, middle)
        PROVE  entrylist[l].pos = entrylist[middle].pos
    BY <1>2, <1>3, <2>1, <2>3 DEF Before, Index
  <2> QED BY <1>2, <1>3, <2>1, <2>2, <2>3
<1>5. CASE SearchRight
  <2>1. middle = j - 1 /\ entrylist[middle].pos < pos BY <1>1, <1>5 DEF SearchRight
  <2>2. CASE j = entrycnt
    <3>1. t' >= entrycnt BY <1>2, <1>5, <2>1, <2>2 DEF SearchRight, Found
    <3>2. \A l \in Index : entrylist[l].pos < pos BY <1>2, <1>3, <2>1, <2>2 DEF Index
    <3>3. \A l \in Index : ~ Before(l, 0) BY <1>3, <3>2 DEF Before, Index
    <3> QED BY <3>1, <3>3
  <2>3. CASE j < entrycnt
    <3>1. entrylist[j].pos > pos /\ j \in Index BY <1>1, <1>2, <1>3, <2>3 DEF SearchInv, Index
    <3>2. t' = j BY <1>2, <1>3, <1>5, <2>1, <2>3, <3>1 DEF SearchRight, Found
    <3>3. \A l \in Index : ~ Before(l, j) BY <1>2, <1>3, <2>1, <3>1 DEF Before, Index
    <3>4. ~(t' >= entrycnt) BY <1>2, <1>3, <2>3, <3>2
    <3> QED BY <3>2, <3>3, <3>4
  <2> QED BY <1>2, <1>3, <2>2, <2>3
<1>6. CASE SearchLeft
  <2>1. i = middle - 1 /\ entrylist[middle].pos > pos
        /\ t' = IF entrylist[i].pos >= pos THEN i ELSE middle
    BY <1>1, <1>6 DEF SearchLeft, Found
  <2>2. CASE entrylist[i].pos >= pos
    <3>1. i = 0 BY <1>1, <1>2, <1>3, <2>2 DEF SearchInv, Index
    <3>2. t' = 0 /\ ~(t' >= entrycnt) BY <1>2, <1>3, <2>1, <2>2, <3>1 DEF Index
    <3>3. \A l \in Index : ~ Before(l, 0) BY <1>3, <2>2, <3>1 DEF Before, Index
    <3> QED BY <3>2, <3>3
  <2>3. CASE ~(entrylist[i].pos >= pos)
    <3>1. t' = middle /\ ~(t' >= entrycnt) BY <1>2, <1>3, <2>1, <2>3 DEF Index
    <3>2. \A l \in Index : ~ Before(l, middle) BY <1>2, <1>3, <2>1, <2>3 DEF Before, Index
    <3> QED BY <3>1, <3>2
  <2> QED BY <2>2, <2>3
<1> QED BY <1>4, <1>5, <1>6

(* Among sorted entries the way from the metric's position leads from an   *)
(* entry to its neighbour, and from the last to the first.                 *)
LEMMA NextEntry ==
  ASSUME TypeOK, Control, RingInv, pc = "fetch",
         NEW n \in Index, NEW l \in Index,
         Before(l, IF n + 1 >= entrycnt THEN 0 ELSE n + 1)
  PROVE  l = n \/ Before(l, n)
<1>1. /\ \A a \in Index : entrylist[a].pos \in Nat
      /\ \A a, b \in Index : a <= b => entrylist[a].pos <= entrylist[b].pos
      /\ pos \in Nat /\ entrycnt \in Nat
  BY RingFacts
<1>2. CASE n + 1 >= entrycnt
  <2>1. l <= n /\ 0 \in Index /\ Before(l, 0) BY <1>1, <1>2 DEF Index
  <2>2. entrylist[l].pos >= pos /\ entrylist[l].pos <= entrylist[n].pos
    BY <1>1, <2>1 DEF Before, Index
  <2> QED BY <1>1, <2>1, <2>2 DEF Before, Index
<1>3. CASE ~(n + 1 >= entrycnt)
  <2>1. n + 1 \in Index /\ Before(l, n + 1) BY <1>1, <1>3 DEF Index
  <2>2. entrylist[n].pos <= entrylist[n+1].pos BY <1>1, <2>1 DEF Index
  <2>3. l <= n => entrylist[l].pos <= entrylist[n].pos BY <1>1 DEF Index
  <2> QED BY <1>1, <2>1, <2>2, <2>3 DEF Before, Index
<1> QED BY <1>2, <1>3

(* What one iteration of the fetch does to the list of servers. *)
LEMMA FetchStores ==
  ASSUME TypeOK, Control, Fetch
  PROVE  LET n == IF t >= entrycnt THEN 0 ELSE t IN
         /\ n \in Index /\ t' = n + 1
         /\ Len(ret') \in Nat /\ Len(ret') >= Len(ret)
         /\ \A m \in 1..Len(ret) : ret'[m] = ret[m]
         /\ \E m \in 1..Len(ret') : ret'[m] = entrylist[n].server
         /\ \/ ret' = ret
            \/ /\ Len(ret') = Len(ret) + 1 /\ ret'[Len(ret')] = entrylist[n].server
               /\ \A m \in 1..Len(ret) : ret[m] # entrylist[n].server
<1> DEFINE n == IF t >= entrycnt THEN 0 ELSE t
           s == entrylist[n].server
<1>1. entrycnt \in Nat /\ entrycnt > 0 /\ t \in Nat /\ i = Len(ret) /\ Len(ret) \in Nat
      /\ ret \in Seq(Server) /\ entrylist \in [Index -> Entries]
  BY Replicas, LenProperties DEF TypeOK, Control, Fetch, Index
<1>2. n \in Index /\ t' = n + 1 BY <1>1 DEF Fetch, Index
<1>3. s \in Server BY <1>1, <1>2 DEF Entries
<1>4. CASE \E k \in 1..i : ret[k] = s
  <2>1. ret' = ret BY <1>4 DEF Fetch
  <2> QED BY <1>1, <1>2, <1>4, <2>1
<1>5. CASE ~ \E k \in 1..i : ret[k] = s
  <2>1. ret' = Append(ret, s) BY <1>5 DEF Fetch
  <2>2. /\ Len(ret') = Len(ret) + 1 /\ ret'[Len(ret) + 1] = s
        /\ \A m \in 1..Len(ret) : ret'[m] = ret[m]
    BY <1>1, <1>3, <2>1, AppendProperties
  <2> QED BY <1>1, <1>2, <1>5, <2>2
<1> QED BY <1>4, <1>5

(* A fetched entry is the next one clockwise. *)
LEMMA FetchWalks ==
  ASSUME TypeOK, Control, RingInv, WalkInv, NodesAreClockwise, Fetch
  PROVE  WalkInv' /\ NodesAreClockwise'
<1> DEFINE n == IF t >= entrycnt THEN 0 ELSE t
<1>0. pc = "fetch" /\ pc' = pc /\ type # "JUMP"
      /\ UNCHANGED <<type, entrylist, entrycnt, pos>>
  BY DEF Fetch, Control, config
<1>1. n \in Index /\ t' = n + 1 /\ Len(ret') \in Nat /\ Len(ret') >= Len(ret)
      /\ (\A m \in 1..Len(ret) : ret'[m] = ret[m])
      /\ \E m \in 1..Len(ret') : ret'[m] = entrylist[n].server
  BY FetchStores
<1>2. Len(ret) \in Nat /\ entrycnt \in Nat BY LenProperties DEF TypeOK
<1>3. \A l \in Index : Before(l, n) =>
        entrylist[l].server = entrylist[n].server
        \/ \E m \in 1..Len(ret) : ret[m] = entrylist[l].server
  BY <1>0 DEF WalkInv, Reached, Got
<1>4. \A l \in Index : l = n \/ Before(l, n) =>
        \E m \in 1..Len(ret') : ret'[m] = entrylist[l].server
  BY <1>1, <1>2, <1>3
<1>5. WalkInv'
  <2>1. \A l \in Index : Before(l, IF n + 1 >= entrycnt THEN 0 ELSE n + 1) =>
          \E m \in 1..Len(ret') : ret'[m] = entrylist[l].server
    BY <1>0, <1>1, <1>4, NextEntry
  <2> QED BY <1>0, <1>1, <2>1 DEF WalkInv, Reached, Got, Before, Index
<1>6. ASSUME NEW m \in 1..Len(ret')
      PROVE  \E k \in Index :
               /\ entrylist[k].server = ret'[m]
               /\ \A l \in Index : Before(l, k) =>
                    \E q \in 1..m : ret'[q] = entrylist[l].server
  <2>1. CASE m \in 1..Len(ret)
    <3>1. PICK k \in Index :
             /\ entrylist[k].server = ret[m]
             /\ \A l \in Index : Before(l, k) =>
                  \E q \in 1..m : ret[q] = entrylist[l].server
      BY <1>0, <2>1 DEF NodesAreClockwise, Index
    <3> QED BY <1>1, <1>2, <2>1, <3>1
  <2>2. CASE m \notin 1..Len(ret)
    <3>1. m = Len(ret') /\ ret'[m] = entrylist[n].server
      BY <1>1, <1>2, <2>2, FetchStores
    <3> QED BY <1>1, <1>4, <3>1
  <2> QED BY <2>1, <2>2
<1>7. NodesAreClockwise' BY <1>0, <1>6 DEF NodesAreClockwise, Before, Index
<1> QED BY <1>5, <1>7

(* Every step of a lookup keeps what the search and the walk rely on, and  *)
(* the servers found so far in their order on the ring.                    *)
LEMMA WalkStep ==
  ASSUME TypeOK, Control, RingInv, SearchInv, WalkInv, NodesAreClockwise, [Next]_vars
  PROVE  SearchInv' /\ WalkInv' /\ NodesAreClockwise'
<1>1. CASE ch_addnode \/ Sort \/ Overwrite \/ RingBuilt \/ Return
  <2>1. pc' \notin {"search", "fetch", "done"}
    BY <1>1 DEF ch_addnode, Sort, Overwrite, RingBuilt, Return
  <2> QED BY <2>1 DEF SearchInv, WalkInv, NodesAreClockwise
<1>2. CASE \E p \in Positions : ch_get_nodes(p)
  <2>1. pc' = "jump" \/ (pc' = "search" /\ i' = 0 /\ j' = entrycnt')
    BY <1>2 DEF ch_get_nodes
  <2>2. entrycnt' \in Nat BY <1>2 DEF ch_get_nodes, TypeOK
  <2>3. SearchInv' BY <2>1, <2>2 DEF SearchInv
  <2> QED BY <2>1, <2>3 DEF WalkInv, NodesAreClockwise
<1>3. CASE SearchHit \/ SearchRight \/ SearchLeft
  <2>0. pc = "search" /\ UNCHANGED <<type, entrylist, entrycnt, pos, ret>> /\ ret = <<>>
        /\ pc' \in {"search", "fetch"} /\ Index' = Index
    BY <1>3 DEF SearchHit, SearchRight, SearchLeft, Found, Control, config, Index
  <2>1. Len(ret') = 0 /\ pc' # "done" BY <2>0, EmptySeq
  <2>2. NodesAreClockwise' BY <2>1 DEF NodesAreClockwise
  <2>3. WalkInv'
    <3>1. CASE pc' = "fetch"
      <4>1. \A l \in Index :
              Before(l, IF t' >= entrycnt THEN 0 ELSE t') =>
                entrylist[l].server = entrylist[IF t' >= entrycnt THEN 0 ELSE t'].server
        BY <1>3, <3>1, SearchFinds
      <4> QED BY <2>0, <4>1 DEF WalkInv, Reached, Before
    <3>2. CASE pc' # "fetch" BY <3>2 DEF WalkInv
    <3> QED BY <3>1, <3>2
  <2>4. SearchInv'
    <3>1. CASE pc' = "search"
      <4>1. \/ i' = middle /\ j' = j /\ entrylist[middle].pos < pos
            \/ i' = i /\ j' = middle /\ entrylist[middle].pos > pos
        BY <1>3, <3>1 DEF SearchHit, SearchRight, SearchLeft, Found
      <4> QED BY <2>0, <4>1 DEF SearchInv
    <3>2. CASE pc' # "search" BY <3>2 DEF SearchInv
    <3> QED BY <3>1, <3>2
  <2> QED BY <2>2, <2>3, <2>4
<1>4. CASE Fetch
  <2>1. pc' = "fetch" BY <1>4 DEF Fetch
  <2> QED BY <1>4, <2>1, FetchWalks DEF SearchInv
<1>5. CASE Fetched
  <2>1. pc = "fetch" /\ pc' = "done" /\ UNCHANGED <<type, entrylist, entrycnt, pos, ret>>
    BY <1>5 DEF Fetched, config
  <2> QED BY <2>1 DEF SearchInv, WalkInv, NodesAreClockwise, Before
<1>6. CASE Jump
  <2>1. type' = "JUMP" /\ pc' \in {"jump", "done"} BY <1>6 DEF Jump, Control, config
  <2> QED BY <2>1 DEF SearchInv, WalkInv, NodesAreClockwise
<1>7. CASE UNCHANGED vars
  <2>1. UNCHANGED <<type, pc, entrylist, entrycnt, pos, i, j, t, ret>> /\ Index' = Index
    BY <1>7 DEF vars, config, Index
  <2>2. SearchInv' BY <2>1 DEF SearchInv
  <2>3. WalkInv' BY <2>1 DEF WalkInv, Reached, Got, Before
  <2>4. NodesAreClockwise' BY <2>1 DEF NodesAreClockwise, Before
  <2> QED BY <2>2, <2>3, <2>4
<1> QED BY <1>1, <1>2, <1>3, <1>4, <1>5, <1>6, <1>7 DEF Next, Lookup

-----------------------------------------------------------------------------
(* The cluster lists no server twice. *)
Listed == \A m, n \in 1..Len(nodes) : m # n => nodes[m] # nodes[n]

(* A jump hash ring has one entry per server, and what a lookup has not    *)
(* chosen yet is disjoint from what it has.                                *)
JumpInv ==
  type = "JUMP" /\ Listed =>
    /\ entrycnt = added
    /\ pc # "add" => entrycnt = Len(nodes)
    /\ pc = "add" =>
         \A k \in Index : entrylist[k].pos = k /\ entrylist[k].server = nodes[k + 1]
    /\ \A a, b \in Index : a # b => /\ entrylist[a].pos # entrylist[b].pos
                                    /\ entrylist[a].server # entrylist[b].server
    /\ pc = "jump" =>
         /\ Len(ret) = entrycnt - i
         /\ \A a, b \in 0..i-1 : a # b => bcklst[a] # bcklst[b]
         /\ \A a \in 0..i-1, m \in 1..Len(ret) : bcklst[a] # ret[m]

(* Every step keeps what the jump hash has chosen apart from the rest. *)
LEMMA JumpStep ==
  ASSUME TypeOK, Control, JumpInv, [Next]_vars
  PROVE  JumpInv'
<1> SUFFICES ASSUME type' = "JUMP", Listed' PROVE JumpInv' BY DEF JumpInv
<1>0. UNCHANGED config
  BY DEF Next, Lookup, vars, ch_addnode, Sort, Overwrite, RingBuilt, ch_get_nodes,
         SearchHit, SearchRight, SearchLeft, Fetch, Fetched, Jump, Return
<1>1. type = "JUMP" /\ type' = type /\ nodes' = nodes /\ Listed BY <1>0 DEF config, Listed
<1>2. hash_replicas = 1 BY <1>1, Replicas
<1>3. Len(nodes) \in Nat /\ entrycnt \in Nat /\ Len(ret) \in Nat /\ i \in Nat /\ added \in Nat
      /\ repl_factor \in Nat /\ repl_factor <= Len(nodes) /\ ret \in Seq(Server)
  BY ListsAreSeqs, LenProperties DEF TypeOK
<1>4. entrycnt = added BY <1>1 DEF JumpInv
<1>5. \A a, b \in Index : a # b => /\ entrylist[a].pos # entrylist[b].pos
                                   /\ entrylist[a].server # entrylist[b].server
  BY <1>1 DEF JumpInv
<1>6. CASE ch_addnode
  <2>1. pc = "add" /\ added' = added + 1 /\ entrycnt' = entrycnt + 1
        /\ entrylist' = Filled(nodes[added + 1]) /\ added < Len(nodes)
    BY <1>2, <1>6 DEF ch_addnode
  <2>2. pc' # "jump" /\ (pc' # "add" => entrycnt' = Len(nodes))
    BY <1>2, <1>3, <1>6 DEF ch_addnode, entrysize
  <2>3. \A k \in Index : entrylist[k].pos = k /\ entrylist[k].server = nodes[k + 1]
    BY <1>1, <2>1 DEF JumpInv
  <2>4. ASSUME NEW k \in Index'
        PROVE  entrylist'[k].pos = k /\ entrylist'[k].server = nodes[k + 1]
    <3>1. k \in 0..(entrycnt + hash_replicas - 1) BY <1>2, <1>3, <2>1 DEF Index
    <3>2. entrylist'[k] = IF k < entrycnt THEN entrylist[k]
                          ELSE [pos |-> entrycnt, server |-> nodes[added + 1]]
      BY <1>1, <2>1, <3>1 DEF Filled
    <3>3. CASE k < entrycnt BY <1>3, <2>3, <3>1, <3>2, <3>3 DEF Index
    <3>4. CASE ~(k < entrycnt)
      <4>1. k = entrycnt /\ k = added BY <1>2, <1>3, <1>4, <3>1, <3>4
      <4> QED BY <3>2, <3>4, <4>1
    <3> QED BY <3>3, <3>4
  <2>5. ASSUME NEW a \in Index', NEW b \in Index', a # b
        PROVE  entrylist'[a].pos # entrylist'[b].pos
               /\ entrylist'[a].server # entrylist'[b].server
    <3>1. a + 1 \in 1..Len(nodes) /\ b + 1 \in 1..Len(nodes) /\ a + 1 # b + 1
      BY <1>3, <1>4, <2>1, <2>5 DEF Index
    <3>2. nodes[a + 1] # nodes[b + 1] BY <1>1, <3>1 DEF Listed
    <3> QED BY <2>4, <2>5, <3>2
  <2> QED BY <1>1, <1>4, <2>1, <2>2, <2>4, <2>5 DEF JumpInv
<1>7. CASE Sort
  <2>1. pc = "sort" /\ pc' \notin {"add", "jump"} /\ UNCHANGED <<entrycnt, added>> /\ Index' = Index
    BY <1>7 DEF Sort, Index
  <2>2. PICK k \in i..entrycnt-1 :
           entrylist' = [entrylist EXCEPT ![i] = entrylist[k], ![k] = entrylist[i]]
    BY <1>7 DEF Sort
  <2>3. i \in Index /\ k \in Index /\ entrylist \in [Index -> Entries]
    BY <1>3, <2>1 DEF Index, TypeOK, Control
  <2>4. \A a \in Index : entrylist'[a] = IF a = k THEN entrylist[i]
                                         ELSE IF a = i THEN entrylist[k] ELSE entrylist[a]
    BY <2>2, <2>3
  <2>5. \A a, b \in Index : a # b => /\ entrylist'[a].pos # entrylist'[b].pos
                                     /\ entrylist'[a].server # entrylist'[b].server
    BY <1>5, <2>3, <2>4
  <2>6. entrycnt = Len(nodes) BY <1>1, <2>1 DEF JumpInv
  <2> QED BY <1>1, <1>4, <2>1, <2>5, <2>6 DEF JumpInv
<1>8. CASE Overwrite
  <2>1. pc = "dedup" /\ pc' = pc /\ UNCHANGED <<entrycnt, added>> /\ Index' = Index
    BY <1>8 DEF Overwrite, Index
  <2>2. i \in Index /\ i + 1 \in Index /\ i # i + 1 BY <1>3, <1>8 DEF Overwrite, Index
  <2>3. entrylist' = entrylist BY <1>5, <1>8, <2>2 DEF Overwrite
  <2> QED BY <1>1, <1>4, <1>5, <2>1, <2>3 DEF JumpInv
<1>9. CASE RingBuilt \/ Return
  <2>1. pc # "add" /\ pc' = "ready" /\ UNCHANGED <<entrylist, entrycnt, added>> /\ Index' = Index
    BY <1>9 DEF RingBuilt, Return, Index
  <2> QED BY <1>1, <1>4, <1>5, <2>1 DEF JumpInv
<1>10. CASE \E p \in Positions : ch_get_nodes(p)
  <2>1. pc = "ready" /\ pc' = "jump" /\ UNCHANGED <<entrylist, entrycnt, added>>
        /\ Index' = Index /\ ret' = <<>> /\ i' = entrycnt
        /\ bcklst' = [k \in 0..entrycnt-1 |-> entrylist[k].server]
    BY <1>1, <1>10 DEF ch_get_nodes, Index
  <2>2. Len(ret') = 0 BY <2>1, EmptySeq
  <2>3. \A a, b \in 0..i'-1 : a # b => bcklst'[a] # bcklst'[b]
    BY <1>5, <2>1 DEF Index
  <2>4. entrycnt = Len(nodes) BY <1>1, <2>1 DEF JumpInv
  <2> QED BY <1>1, <1>3, <1>4, <1>5, <2>1, <2>2, <2>3, <2>4 DEF JumpInv
<1>11. CASE SearchHit \/ SearchRight \/ SearchLeft \/ Fetch \/ Fetched
  BY <1>1, <1>11 DEF SearchHit, SearchRight, SearchLeft, Fetch, Fetched, Control
<1>12. CASE Jump
  <2>1. pc = "jump" /\ UNCHANGED <<entrylist, entrycnt, added>> /\ Index' = Index /\ pc' # "add"
    BY <1>12 DEF Jump, Index
  <2>2. entrycnt = Len(nodes) BY <1>1, <2>1 DEF JumpInv
  <2>3. CASE pc' = "jump"
    <3>1. PICK b \in 0..i-1 :
             /\ ret' = Append(ret, bcklst[b]) /\ i' = i - 1
             /\ bcklst' = [bcklst EXCEPT ![b] = bcklst[i-1]]
      BY <1>12, <2>3 DEF Jump
    <3>2. bcklst \in [0..entrycnt-1 -> Server] /\ i \in 1..entrycnt BY <2>1 DEF TypeOK
    <3>3. bcklst[b] \in Server BY <1>3, <3>1, <3>2
    <3>4. Len(ret') = Len(ret) + 1 /\ ret'[Len(ret) + 1] = bcklst[b]
          /\ \A m \in 1..Len(ret) : ret'[m] = ret[m]
      BY <1>3, <3>1, <3>3, AppendProperties
    <3>5. /\ Len(ret) = entrycnt - i
          /\ \A a, c \in 0..i-1 : a # c => bcklst[a] # bcklst[c]
          /\ \A a \in 0..i-1, m \in 1..Len(ret) : bcklst[a] # ret[m]
      BY <1>1, <2>1 DEF JumpInv
    <3>6. \A a \in 0..i'-1 : bcklst'[a] = IF a = b THEN bcklst[i-1] ELSE bcklst[a]
      BY <1>3, <3>1, <3>2
    <3>7. i - 1 \in 0..i-1 /\ \A a \in 0..i'-1 : a \in 0..i-1 /\ a # i - 1
      BY <1>3, <3>1, <3>2
    <3>8. \A a, c \in 0..i'-1 : a # c => bcklst'[a] # bcklst'[c]
      BY <3>5, <3>6, <3>7
    <3>9. ASSUME NEW a \in 0..i'-1
          PROVE  \A m \in 1..Len(ret') : bcklst'[a] # ret'[m]
      <4>1. \A m \in 1..Len(ret) : bcklst'[a] # ret[m] BY <3>5, <3>6, <3>7
      <4>2. bcklst'[a] # bcklst[b] BY <3>1, <3>5, <3>6, <3>7
      <4>3. \A m \in 1..Len(ret') : m \in 1..Len(ret) \/ m = Len(ret) + 1
        BY <1>3, <3>4
      <4> QED BY <3>4, <4>1, <4>2, <4>3
    <3>10. Len(ret') = entrycnt' - i' BY <1>3, <2>1, <3>1, <3>2, <3>4, <3>5
    <3>11. JumpInv' <=>
             /\ entrycnt' = added' /\ entrycnt' = Len(nodes)
             /\ \A a, c \in Index : a # c => /\ entrylist[a].pos # entrylist[c].pos
                                             /\ entrylist[a].server # entrylist[c].server
             /\ Len(ret') = entrycnt' - i'
             /\ \A a, c \in 0..i'-1 : a # c => bcklst'[a] # bcklst'[c]
             /\ \A a \in 0..i'-1, m \in 1..Len(ret') : bcklst'[a] # ret'[m]
      BY <1>1, <2>1, <2>3 DEF JumpInv
    <3> QED BY <1>4, <1>5, <2>1, <2>2, <3>8, <3>9, <3>10, <3>11
  <2>4. CASE pc' # "jump" BY <1>1, <1>4, <1>5, <2>1, <2>2, <2>4 DEF JumpInv
  <2> QED BY <2>3, <2>4
<1>13. CASE UNCHANGED vars
  <2>1. UNCHANGED <<pc, entrylist, entrycnt, added, ret, i, bcklst>> /\ Index' = Index
    BY <1>13 DEF vars, Index
  <2> QED BY <1>1, <2>1 DEF JumpInv
<1> QED BY <1>6, <1>7, <1>8, <1>9, <1>10, <1>11, <1>12, <1>13 DEF Next, Lookup

(* Appending a server that is not there yet keeps the list free of         *)
(* repetitions.                                                            *)
LEMMA AppendDistinct ==
  ASSUME NEW q \in Seq(Server), NEW s \in Server,
         \A m, n \in 1..Len(q) : m # n => q[m] # q[n],
         \A m \in 1..Len(q) : q[m] # s
  PROVE  LET r == Append(q, s) IN
         Len(r) = Len(q) + 1 /\ \A m, n \in 1..Len(r) : m # n => r[m] # r[n]
<1> DEFINE r == Append(q, s)
<1>1. Len(r) = Len(q) + 1 /\ r[Len(q) + 1] = s /\ \A m \in 1..Len(q) : r[m] = q[m]
  BY AppendProperties
<1>2. \A m \in 1..Len(r) : m \in 1..Len(q) \/ m = Len(q) + 1
  BY <1>1, LenProperties
<1> HIDE DEF r
<1>3. \A m, n \in 1..Len(r) : m # n => r[m] # r[n] BY <1>1, <1>2
<1> QED BY <1>1, <1>3 DEF r

(* Every step keeps the servers found so far distinct. *)
LEMMA DistinctStep ==
  ASSUME TypeOK, Control, JumpInv, NodesDistinct, [Next]_vars
  PROVE  NodesDistinct'
<1> SUFFICES ASSUME type' = "JUMP" => Listed'
             PROVE  /\ \A m, n \in 1..Len(ret') : m # n => ret'[m] # ret'[n]
                    /\ pc' = "done" => Len(ret') = repl_factor'
  BY DEF NodesDistinct, Listed
<1>0. UNCHANGED config
  BY DEF Next, Lookup, vars, ch_addnode, Sort, Overwrite, RingBuilt, ch_get_nodes,
         SearchHit, SearchRight, SearchLeft, Fetch, Fetched, Jump, Return
<1>1. UNCHANGED <<type, nodes, repl_factor>> /\ (type = "JUMP" => Listed)
  BY <1>0 DEF config, Listed
<1>2. /\ \A m, n \in 1..Len(ret) : m # n => ret[m] # ret[n]
      /\ pc = "done" => Len(ret) = repl_factor
  BY <1>1 DEF NodesDistinct, Listed
<1>3. Len(ret) \in Nat /\ ret \in Seq(Server) /\ entrycnt \in Nat /\ repl_factor \in Nat
      /\ Len(nodes) \in Nat /\ repl_factor <= Len(nodes) /\ i \in Nat
  BY ListsAreSeqs, LenProperties DEF TypeOK
<1>4. CASE ch_addnode \/ Sort \/ Overwrite \/ RingBuilt \/ Return
             \/ SearchHit \/ SearchRight \/ SearchLeft
  <2>1. ret' = ret /\ pc' # "done"
    BY <1>4 DEF ch_addnode, Sort, Overwrite, RingBuilt, Return,
                SearchHit, SearchRight, SearchLeft, Found
  <2> QED BY <1>2, <2>1
<1>5. CASE \E p \in Positions : ch_get_nodes(p)
  <2>1. ret' = <<>> /\ pc' # "done" BY <1>5 DEF ch_get_nodes
  <2> QED BY <2>1, EmptySeq
<1>6. CASE Fetch
  <2>1. pc' # "done" BY <1>6 DEF Fetch
  <2>2. CASE ret' = ret BY <1>2, <2>1, <2>2
  <2>3. CASE ret' # ret
    <3> DEFINE s == entrylist[IF t >= entrycnt THEN 0 ELSE t].server
    <3>1. (\A m \in 1..Len(ret) : ret[m] # s) /\ ret' = Append(ret, s)
      BY <1>6, <2>3, FetchStores DEF Fetch
    <3>2. (IF t >= entrycnt THEN 0 ELSE t) \in Index BY <1>6, FetchStores
    <3>3. s \in Server BY <3>2 DEF TypeOK, Entries, Index
    <3> QED BY <1>2, <1>3, <2>1, <3>1, <3>3, AppendDistinct
  <2> QED BY <2>2, <2>3
<1>7. CASE Fetched
  <2>1. pc = "fetch" /\ ret' = ret /\ i = repl_factor BY <1>7 DEF Fetched
  <2> QED BY <1>1, <1>2, <2>1 DEF Control
<1>8. CASE Jump
  <2>1. pc = "jump" /\ type = "JUMP" /\ Len(ret) < repl_factor
    BY <1>8 DEF Jump, Control
  <2>2. PICK b \in 0..i-1 :
           /\ ret' = Append(ret, bcklst[b])
           /\ \/ Len(ret') = repl_factor
              \/ pc' = IF i - 1 > 0 THEN pc ELSE "done"
    BY <1>8 DEF Jump
  <2>3. bcklst \in [0..entrycnt-1 -> Server] /\ i \in 1..entrycnt BY <2>1 DEF TypeOK
  <2>4. bcklst[b] \in Server BY <1>3, <2>2, <2>3
  <2>5. /\ entrycnt = Len(nodes) /\ Len(ret) = entrycnt - i
        /\ \A m \in 1..Len(ret) : ret[m] # bcklst[b]
    BY <1>1, <2>1, <2>2 DEF JumpInv
  <2>6. Len(ret') = Len(ret) + 1 /\ \A m, n \in 1..Len(ret') : m # n => ret'[m] # ret'[n]
    BY <1>2, <1>3, <2>2, <2>4, <2>5, AppendDistinct
  <2>7. pc' = "done" => Len(ret') = repl_factor
    BY <1>3, <2>1, <2>2, <2>3, <2>5, <2>6
  <2> QED BY <1>1, <2>6, <2>7
<1>9. CASE UNCHANGED vars
  <2>1. UNCHANGED <<pc, ret>> BY <1>9 DEF vars
  <2> QED BY <1>1, <1>2, <2>1
<1> QED BY <1>4, <1>5, <1>6, <1>7, <1>8, <1>9 DEF Next, Lookup

-----------------------------------------------------------------------------
HashInv ==
  /\ TypeOK /\ Control /\ RingInv /\ SearchInv /\ WalkInv /\ JumpInv
  /\ NodesAreClockwise /\ NodesDistinct

(* The inductive invariant holds in every state the code can reach. *)
LEMMA HashInvHolds == Spec => []HashInv
<1>1. Init => HashInv
  <2> SUFFICES ASSUME Init PROVE HashInv OBVIOUS
  <2>1. TypeOK /\ Control BY TypeInit
  <2>2. pc = "add" /\ entrycnt = 0 /\ added = 0 /\ Len(ret) = 0 /\ Index = {}
    BY EmptySeq DEF Init, Index
  <2>3. RingInv BY <2>2 DEF RingInv, Built
  <2>4. SearchInv /\ WalkInv /\ NodesAreClockwise
    BY <2>2 DEF SearchInv, WalkInv, NodesAreClockwise
  <2>5. JumpInv BY <2>2 DEF JumpInv
  <2>6. NodesDistinct BY <2>2 DEF NodesDistinct
  <2> QED BY <2>1, <2>3, <2>4, <2>5, <2>6 DEF HashInv
<1>2. HashInv /\ [Next]_vars => HashInv'
  <2> SUFFICES ASSUME HashInv, [Next]_vars PROVE HashInv' OBVIOUS
  <2>1. TypeOK /\ Control /\ RingInv /\ SearchInv /\ WalkInv /\ JumpInv
        /\ NodesAreClockwise /\ NodesDistinct
    BY DEF HashInv
  <2>2. TypeOK' /\ Control' BY <2>1, TypeStep
  <2>3. RingInv' BY <2>1, <2>2, RingStep
  <2>4. SearchInv' /\ WalkInv' /\ NodesAreClockwise' BY <2>1, WalkStep
  <2>5. JumpInv' BY <2>1, JumpStep
  <2>6. NodesDistinct' BY <2>1, DistinctStep
  <2> QED BY <2>2, <2>3, <2>4, <2>5, <2>6 DEF HashInv
<1> QED BY <1>1, <1>2, PTL DEF Spec

(* The indices of ch_addnode and ch_get_nodes stay inside the arrays, for  *)
(* every cluster and every hash function.                                  *)
THEOREM HashTypeCorrect == Spec => []TypeOK
<1>1. HashInv => TypeOK BY DEF HashInv
<1> QED BY <1>1, HashInvHolds, PTL

(* ch_get_nodes returns the servers that follow the metric's position on   *)
(* the ring, in their order, for every ring and every position.            *)
THEOREM HashNodesAreClockwise == Spec => []NodesAreClockwise
<1>1. HashInv => NodesAreClockwise BY DEF HashInv
<1> QED BY <1>1, HashInvHolds, PTL

(* ch_get_nodes never stores a server twice and stores as many as the      *)
(* cluster replicates to.                                                  *)
THEOREM HashNodesDistinct == Spec => []NodesDistinct
<1>1. HashInv => NodesDistinct BY DEF HashInv
<1> QED BY <1>1, HashInvHolds, PTL
=============================================================================
