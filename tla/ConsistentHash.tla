--------------------------- MODULE ConsistentHash ---------------------------
(***************************************************************************)
(* The hash ring of consistent-hash.c: ch_addnode builds it, one server    *)
(* at a time, and ch_get_nodes looks a metric up in it.  Loops run one     *)
(* iteration per step.  What md5, FNV1a and the jump hash compute is left  *)
(* open: hashpos is any function from the hashed strings to positions, a   *)
(* metric hashes to any position, jump_bucketpos returns any bucket in     *)
(* its range.  The strings keep what ch_addnode puts in them: carbon_ch    *)
(* hashes address and instance, fnv1a_ch the instance or else address and  *)
(* port.  The array is indexed from 0 as in the code.                      *)
(***************************************************************************)
EXTENDS Integers, Sequences, FiniteSets

CONSTANTS
  Server,          \* the servers a cluster may list
  Ip, Port, Inst,  \* their attributes, as functions; addresses, ports and
                   \* instances are numbers in the order strcmp gives them
  NoInst,          \* Inst of a server without instance
  HASH_REPLICAS,   \* entries per server on a carbon_ch or fnv1a_ch ring
  MaxPos,          \* the positions are 0..MaxPos
  Lists            \* the server lists of the clusters

ASSUME HashAssumption ==
  /\ Ip \in [Server -> Nat] /\ Port \in [Server -> Nat]
  /\ NoInst \in Int /\ Inst \in [Server -> Nat \union {NoInst}]
  /\ HASH_REPLICAS \in Nat /\ HASH_REPLICAS > 1
  /\ MaxPos \in Nat
  /\ Lists \subseteq Seq(Server) \ {<<>>}

VARIABLES
  type,        \* CARBON, FNV1a or JUMP
  nodes,       \* the servers, as listed in the cluster
  repl_factor, \* the replication count of the cluster
  hashpos,     \* the hash function
  added,       \* how many servers are on the ring
  entrylist,   \* the ring, filled up to entrycnt
  entrycnt,
  pc,          \* "add", "sort", "dedup" build the ring; "ready";
               \* "search", "fetch", "jump" look a metric up; "done"
  pos,         \* where the metric hashes to
  i, j, t,     \* the indices of ch_get_nodes
  bcklst,      \* jump hash: the servers not chosen yet
  ret          \* the servers found so far

config == <<type, nodes, repl_factor, hashpos>>
vars == <<config, added, entrylist, entrycnt, pc, pos, i, j, t, bcklst, ret>>

Positions == 0..MaxPos
Entries == [pos : Nat, server : Server]

(* The string ch_addnode hashes for the k-th entry of a server. *)
HashKey(ty, s, k) ==
  CASE ty = "CARBON" -> <<Ip[s], Inst[s], k>>
    [] ty = "FNV1a" /\ Inst[s] = NoInst -> <<Ip[s], Port[s], k>>
    [] OTHER -> <<Inst[s], k>>

HashKeys(ty, list) ==
  IF ty = "JUMP" THEN {}
  ELSE {HashKey(ty, list[n], k) : n \in 1..Len(list), k \in 0..HASH_REPLICAS-1}

(* ch_new: how many entries a server gets, and the size of the array. *)
hash_replicas == IF type = "JUMP" THEN 1 ELSE HASH_REPLICAS
entrysize == hash_replicas * Len(nodes)

(* Instances order before the lack of one. *)
InstBefore(l, r) ==
  \/ Inst[r] = NoInst
  \/ Inst[l] # NoInst /\ Inst[l] <= Inst[r]

(* The comparators: entrycmp_carbon, entrycmp_fnv1a, entrycmp_jump_fnv1a. *)
NotAfter(ty, l, r) ==
  IF ty = "JUMP"
  THEN IF Inst[l.server] = Inst[r.server]
       THEN Inst[l.server] = NoInst => l.pos <= r.pos
       ELSE InstBefore(l.server, r.server)
  ELSE \/ l.pos < r.pos
       \/ /\ l.pos = r.pos
          /\ \/ Ip[l.server] < Ip[r.server]
             \/ /\ Ip[l.server] = Ip[r.server]
                /\ IF ty = "CARBON" THEN InstBefore(l.server, r.server)
                                      ELSE Port[l.server] <= Port[r.server]

-----------------------------------------------------------------------------
Init ==
  /\ type \in {"CARBON", "FNV1a", "JUMP"}
  /\ nodes \in Lists
  /\ repl_factor \in 1..Len(nodes)
  /\ hashpos \in [HashKeys(type, nodes) -> Positions]
  /\ added = 0 /\ entrylist = <<>> /\ entrycnt = 0 /\ pc = "add"
  /\ pos = 0 /\ i = 0 /\ j = 0 /\ t = 0 /\ bcklst = <<>> /\ ret = <<>>

(* The array once the entries of server s are written. *)
Filled(s) ==
  [k \in 0..(entrycnt + hash_replicas - 1) |->
     IF k < entrycnt THEN entrylist[k]
     ELSE [pos |-> IF type = "JUMP" THEN entrycnt
                   ELSE hashpos[HashKey(type, s, k - entrycnt)],
           server |-> s]]

(* ch_addnode: the last server has the ring sorted. *)
ch_addnode ==
  /\ pc = "add" /\ added < Len(nodes)
  /\ added' = added + 1
  /\ entrycnt' = entrycnt + hash_replicas
  /\ entrylist' = Filled(nodes[added'])
  /\ pc' = IF entrycnt' = entrysize THEN "sort" ELSE pc
  /\ UNCHANGED <<config, pos, i, j, t, bcklst, ret>>

(* qsort, as a selection: entries that compare equal end up in any order. *)
Sort ==
  /\ pc = "sort"
  /\ \E k \in i..entrycnt-1 :
       /\ \A l \in i..entrycnt-1 : NotAfter(type, entrylist[k], entrylist[l])
       /\ entrylist' = [entrylist EXCEPT ![i] = entrylist[k], ![k] = entrylist[i]]
  /\ IF i + 1 = entrycnt THEN i' = 0 /\ pc' = "dedup"
                         ELSE i' = i + 1 /\ pc' = pc
  /\ UNCHANGED <<config, added, entrycnt, pos, j, t, bcklst, ret>>

(* Mutant: entry i takes over the server of entry i+1. *)
OverwriteBack ==
  /\ pc = "dedup" /\ i < entrycnt - 1
  /\ entrylist' = IF entrylist[i].pos = entrylist[i+1].pos
                  THEN [entrylist EXCEPT ![i].server = entrylist[i+1].server]
                  ELSE entrylist
  /\ i' = i + 1
  /\ UNCHANGED <<config, added, entrycnt, pc, pos, j, t, bcklst, ret>>

(* ch_addnode's last loop: entry i+1 takes over the server of entry i when *)
(* both have the same position.                                            *)
Overwrite ==
  /\ pc = "dedup" /\ i < entrycnt - 1
  /\ entrylist' = IF entrylist[i].pos = entrylist[i+1].pos
                  THEN [entrylist EXCEPT ![i+1].server = entrylist[i].server]
                  ELSE entrylist
  /\ i' = i + 1
  /\ UNCHANGED <<config, added, entrycnt, pc, pos, j, t, bcklst, ret>>

RingBuilt ==
  /\ pc = "dedup" /\ i >= entrycnt - 1
  /\ pc' = "ready"
  /\ UNCHANGED <<config, added, entrylist, entrycnt, pos, i, j, t, bcklst, ret>>

-----------------------------------------------------------------------------
(* ch_get_nodes is called for a metric that hashes to p. *)
ch_get_nodes(p) ==
  /\ pc = "ready"
  /\ pos' = p
  /\ ret' = <<>>
  /\ IF type = "JUMP"
     THEN /\ pc' = "jump"
          /\ i' = entrycnt /\ j' = 0
          /\ bcklst' = [k \in 0..entrycnt-1 |-> entrylist[k].server]
     ELSE /\ pc' = "search"
          /\ i' = 0 /\ j' = entrycnt
          /\ UNCHANGED bcklst
  /\ t' = 0
  /\ UNCHANGED <<config, added, entrylist, entrycnt>>

middle == (i + j) \div 2

(* The search is over, and the fetch starts at entry n. *)
Found(n) == t' = n /\ pc' = "fetch" /\ i' = 0

SearchHit ==
  /\ pc = "search" /\ entrylist[middle].pos = pos
  /\ Found(middle)
  /\ UNCHANGED <<config, added, entrylist, entrycnt, pos, j, bcklst, ret>>

(* Mutant: the right neighbour is not looked at. *)
SearchRightShort ==
  /\ pc = "search" /\ entrylist[middle].pos < pos
  /\ IF middle = j - 1
     THEN Found(middle)
     ELSE i' = middle /\ UNCHANGED <<pc, t>>
  /\ UNCHANGED <<config, added, entrylist, entrycnt, pos, j, bcklst, ret>>

(* The left half is smaller.  At the right end of the array entrylist[j]   *)
(* lies beyond it and its content is arbitrary.                            *)
SearchRight ==
  /\ pc = "search" /\ entrylist[middle].pos < pos
  /\ IF middle = j - 1
     THEN \E beyond \in BOOLEAN :
            /\ j < entrycnt => (beyond <=> entrylist[j].pos < pos)
            /\ Found(IF beyond THEN j + 1 ELSE j)
     ELSE i' = middle /\ UNCHANGED <<pc, t>>
  /\ UNCHANGED <<config, added, entrylist, entrycnt, pos, j, bcklst, ret>>

SearchLeft ==
  /\ pc = "search" /\ entrylist[middle].pos > pos
  /\ j' = middle
  /\ IF i = middle - 1
     THEN Found(IF entrylist[i].pos >= pos THEN i ELSE middle)
     ELSE UNCHANGED <<pc, t, i>>
  /\ UNCHANGED <<config, added, entrylist, entrycnt, pos, bcklst, ret>>

(* Mutant: a server found before is stored again. *)
FetchAny ==
  /\ pc = "fetch" /\ i < repl_factor
  /\ LET n == IF t >= entrycnt THEN 0 ELSE t IN
     /\ ret' = Append(ret, entrylist[n].server)
     /\ i' = i + 1
     /\ t' = n + 1
  /\ UNCHANGED <<config, added, entrylist, entrycnt, pc, pos, j, bcklst>>

(* Mutant: the walk does not move on from a server it already has. *)
FetchStays ==
  /\ pc = "fetch" /\ i < repl_factor
  /\ LET n == IF t >= entrycnt THEN 0 ELSE t
         s == entrylist[n].server
     IN IF \E k \in 1..i : ret[k] = s
        THEN UNCHANGED <<i, t, ret>>
        ELSE ret' = Append(ret, s) /\ i' = i + 1 /\ t' = n + 1
  /\ UNCHANGED <<config, added, entrylist, entrycnt, pc, pos, j, bcklst>>

(* One iteration of the fetch: the walk wraps at the end of the array and  *)
(* passes over servers it already has.                                     *)
Fetch ==
  /\ pc = "fetch" /\ i < repl_factor
  /\ LET n == IF t >= entrycnt THEN 0 ELSE t
         s == entrylist[n].server
     IN /\ IF \E k \in 1..i : ret[k] = s
           THEN UNCHANGED <<i, ret>>
           ELSE ret' = Append(ret, s) /\ i' = i + 1
        /\ t' = n + 1
  /\ UNCHANGED <<config, added, entrylist, entrycnt, pc, pos, j, bcklst>>

Fetched ==
  /\ pc = "fetch" /\ i = repl_factor
  /\ pc' = "done"
  /\ UNCHANGED <<config, added, entrylist, entrycnt, pos, i, j, t, bcklst, ret>>

(* One choice of the jump hash; the bucket is replaced by the last one. *)
Jump ==
  /\ pc = "jump"
  /\ \E b \in 0..i-1 :
       /\ ret' = Append(ret, bcklst[b])
       /\ IF Len(ret') = repl_factor
          THEN pc' = "done" /\ UNCHANGED <<i, bcklst>>
          ELSE /\ i' = i - 1
               /\ bcklst' = [bcklst EXCEPT ![b] = bcklst[i-1]]
               /\ pc' = IF i' > 0 THEN pc ELSE "done"
  /\ UNCHANGED <<config, added, entrylist, entrycnt, pos, j, t>>

(* The caller has its servers, and looks up another metric. *)
Return ==
  /\ pc = "done"
  /\ pc' = "ready"
  /\ UNCHANGED <<config, added, entrylist, entrycnt, pos, i, j, t, bcklst, ret>>

Lookup ==
  \/ SearchHit \/ SearchRight \/ SearchLeft
  \/ Fetch \/ Fetched \/ Jump

Next ==
  \/ ch_addnode \/ Sort \/ Overwrite \/ RingBuilt
  \/ \E p \in Positions : ch_get_nodes(p)
  \/ Lookup
  \/ Return

Spec == Init /\ [][Next]_vars /\ WF_vars(Lookup)

-----------------------------------------------------------------------------
(* The indices stay in the arrays they index and the ring holds servers of *)
(* the cluster.                                                            *)
TypeOK ==
  /\ type \in {"CARBON", "FNV1a", "JUMP"}
  /\ nodes \in Lists /\ repl_factor \in 1..Len(nodes)
  /\ hashpos \in [HashKeys(type, nodes) -> Positions]
  /\ added \in 0..Len(nodes)
  /\ entrycnt \in Nat /\ entrylist \in [0..entrycnt-1 -> Entries]
  /\ pc \in {"add", "sort", "dedup", "ready", "search", "fetch", "jump", "done"}
  /\ pos \in Nat /\ i \in Nat /\ j \in 0..entrycnt /\ t \in 0..entrycnt+1
  /\ ret \in Seq(Server) /\ Len(ret) <= repl_factor
  /\ pc = "search" => i < j
  /\ pc = "jump" => i \in 1..entrycnt /\ bcklst \in [0..entrycnt-1 -> Server]

Built == pc \notin {"add", "sort", "dedup"}
OnRing == {entrylist[k].server : k \in DOMAIN entrylist}

(* The servers of the cluster with an entry of their own at position p. *)
HashedTo(p) ==
  {s \in {nodes[n] : n \in 1..Len(nodes)} :
     \E k \in 0..HASH_REPLICAS-1 : hashpos[HashKey(type, s, k)] = p}

(* The ring of ch_addnode does not depend on the order in which the        *)
(* cluster lists its servers: whatever qsort does with equal entries, a    *)
(* position shared by several servers belongs, in all its entries, to one  *)
(* the comparator puts before the others.                                  *)
OwnerIsLeast ==
  Built /\ type # "JUMP" =>
    \A k \in DOMAIN entrylist :
      LET e == entrylist[k] IN
      /\ e.server \in HashedTo(e.pos)
      /\ \A s \in HashedTo(e.pos) : NotAfter(type, e, [pos |-> e.pos, server |-> s])

(* Entry l comes before entry k on the way clockwise from the position of  *)
(* the metric, once around the ring.                                       *)
Before(l, k) ==
  \/ entrylist[l].pos >= pos /\ entrylist[k].pos < pos
  \/ (entrylist[l].pos >= pos <=> entrylist[k].pos >= pos) /\ l < k

(* ch_get_nodes returns the servers nearest to the metric's position,      *)
(* clockwise, in that order: each has an entry that only entries of itself *)
(* and of the servers returned before it precede.  The binary search may   *)
(* stop at any of several equal entries, and looks at one beyond the       *)
(* array, without changing the answer.                                     *)
NodesAreClockwise ==
  pc \in {"fetch", "done"} /\ type # "JUMP" =>
    \A n \in 1..Len(ret) : \E k \in 0..entrycnt-1 :
      /\ entrylist[k].server = ret[n]
      /\ \A l \in 0..entrycnt-1 :
           Before(l, k) => \E m \in 1..n : ret[m] = entrylist[l].server

(* Every replica goes to another server: no server is stored twice, unless *)
(* a jump hash cluster lists it twice.                                     *)
NodesDistinct ==
  (type = "JUMP" => \A m, n \in 1..Len(nodes) : m # n => nodes[m] # nodes[n]) =>
    /\ \A m, n \in 1..Len(ret) : m # n => ret[m] # ret[n]
    /\ pc = "done" => Len(ret) = repl_factor

EnoughOnRing == \E S \in SUBSET OnRing : Cardinality(S) = repl_factor

(* A lookup in a ring with at least repl_factor different servers ends. *)
LookupEnds ==
  (pc \in {"search", "jump"} /\ EnoughOnRing) ~> (pc = "done")

(* A lookup ends for every cluster router_add_cluster accepts, that is     *)
(* one that lists at least repl_factor servers: "now fetch enough unique   *)
(* servers to match the requested count".                                  *)
ReplicasFound == (pc \in {"search", "jump"}) ~> (pc = "done")
=============================================================================
