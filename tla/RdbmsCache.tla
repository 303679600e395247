----------------------------- MODULE RdbmsCache -----------------------------
(***************************************************************************)
(* The row cache of Roundup's SQL back ends (backends/rdbms_common.py) and *)
(* the transaction around it, as one connection sees them: the nodes of    *)
(* one class, each with a column and a Multilink.  Other sessions may      *)
(* commit edits to the rows this one has not written (the default          *)
(* isolation level is "read committed").                                   *)
(*                                                                         *)
(* getnode hands out the cached dictionary itself, and Class.set edits the *)
(* Multilink list of that dictionary in place before it knows that every   *)
(* value is good.  What set writes is the difference from the cached node. *)
(***************************************************************************)
EXTENDS Naturals, SequencesExt

CONSTANTS MaxId,         \* bound on node ids
          Values,        \* values of the column
          Links,         \* ids the Multilink can hold
          CacheSize,     \* RDBMS_CACHE_SIZE
          NoNode,        \* no row under an id / id not in the cache
          Unfetched,     \* the Multilink of a cached node, before it is needed
          RollsBack,     \* does the caller roll back when an operation raises?
          Others,        \* do other sessions commit edits meanwhile?
          Destroying,    \* does anything call Class.destroy?
          EditsWhileIterating, \* is a node edited between two steps of filter_iter?
          NewIdCommits,  \* does newid commit (back_sqlite)?
          MaxOps         \* bound on edits of existing nodes per behaviour

Ids == 1..MaxId
Node == [v : Values, ml : SUBSET Links]
CachedNode == [v : Values, ml : (SUBSET Links) \cup {Unfetched}]

ASSUME NumbersAssumption == {MaxId, CacheSize, MaxOps} \subseteq Nat
ASSUME NoNodeAssumption == NoNode \notin CachedNode
ASSUME SwitchAssumption ==
  {RollsBack, Others, Destroying, EditsWhileIterating, NewIdCommits} \subseteq BOOLEAN

VARIABLES
  base,     \* the committed rows
  sql,      \* the rows as this connection reads them
  mine,     \* the rows this transaction has written, locked until it ends
  seen,     \* per id, what the connection could have read in this transaction
  cache,    \* Database.cache
  lru,      \* Database.cache_lru, the most recently used key first
  destroyed, \* ids destroyed since the cache was last cleared
  rows,     \* the rows an open filter_iter has still to yield: <<id, column>>
  counter,  \* ids handed out by newid
  failed,   \* an operation raised since the transaction began
  ops

rowvars == <<base, sql, mine, seen>>
cachevars == <<cache, lru, destroyed>>
vars == <<base, sql, mine, seen, cache, lru, destroyed, rows, counter, failed, ops>>

TypeOK ==
  /\ {base, sql} \subseteq [Ids -> Node \cup {NoNode}]
  /\ {mine, destroyed} \subseteq SUBSET Ids
  /\ seen \in [Ids -> SUBSET Node]
  /\ cache \in [Ids -> CachedNode \cup {NoNode}]
  /\ lru \in Seq(Ids) /\ Len(lru) <= CacheSize
  /\ rows \subseteq Ids \X Values
  /\ counter \in 0..MaxId
  /\ failed \in BOOLEAN
  /\ ops \in 0..MaxOps

Nothing == [i \in Ids |-> NoNode]
ReadableOf(table) == [i \in Ids |-> {table[i]} \ {NoNode}]

Init ==
  /\ base = Nothing /\ sql = base
  /\ mine = {} /\ seen = ReadableOf(sql)
  /\ cache = Nothing /\ lru = <<>> /\ destroyed = {} /\ rows = {}
  /\ counter = 0 /\ failed = FALSE /\ ops = 0

-----------------------------------------------------------------------------
(* The cache, as operators on its two parts; `raises` is a KeyError on the way. *)

With(nodes, keys) == [nodes |-> nodes, keys |-> keys, raises |-> FALSE]
Present == With(cache, lru)
Becomes(c) == cache' = c.nodes /\ lru' = c.keys /\ UNCHANGED destroyed
FailsIf(raises) == failed' = (failed \/ raises)
ClearCache == cache' = Nothing /\ lru' = <<>> /\ destroyed' = {}

CacheRefresh(c, i) ==
  [nodes |-> c.nodes, keys |-> <<i>> \o RemoveFirst(c.keys, i), raises |-> c.raises]

\* (mutants) the evicted key's node stays in the cache; nothing is evicted
SaveKeepsNode(c, i, node) ==
  LET keys == <<i>> \o c.keys
  IN [c EXCEPT !.nodes[i] = node,
               !.keys = IF Len(keys) <= CacheSize THEN keys ELSE Front(keys)]

SaveNeverEvicts(c, i, node) ==
  [c EXCEPT !.nodes[i] = node, !.keys = <<i>> \o @]

\* The oldest key goes when there is no room; it has left the list when `del` raises
\* because its node is not cached.
CacheSave(c, i, node) ==
  LET keys == <<i>> \o c.keys
      nodes == [c.nodes EXCEPT ![i] = node]
  IN IF Len(keys) <= CacheSize
     THEN [nodes |-> nodes, keys |-> keys, raises |-> c.raises]
     ELSE [nodes |-> [nodes EXCEPT ![Last(keys)] = NoNode],
           keys |-> Front(keys),
           raises |-> c.raises \/ nodes[Last(keys)] = NoNode]

\* (mutant) setnode leaves the node in the cache
CacheDelNothing(c, i) == c

CacheDel(c, i) ==
  IF c.nodes[i] = NoNode THEN c
  ELSE [nodes |-> [c.nodes EXCEPT ![i] = NoNode], keys |-> RemoveFirst(c.keys, i),
        raises |-> c.raises]

\* _materialize_multilinks: a select from the link table, which has nothing for a node
\* that was destroyed.
WithMultilink(node, i) ==
  IF node.ml # Unfetched THEN node
  ELSE [v |-> node.v, ml |-> IF sql[i] = NoNode THEN {} ELSE sql[i].ml]

\* What getnode(i) returns, its Multilink fetched, and what it makes of the cache.
GetNode(i) == IF cache[i] # NoNode THEN WithMultilink(cache[i], i) ELSE sql[i]

AfterGetNode(i, fetch) ==
  IF cache[i] # NoNode
  THEN CacheRefresh(With([cache EXCEPT ![i] = IF fetch THEN GetNode(i) ELSE @], lru), i)
  ELSE CacheSave(Present, i,
                 IF fetch THEN sql[i] ELSE [v |-> sql[i].v, ml |-> Unfetched])

-----------------------------------------------------------------------------
(* Reads. *)

CanOperate ==
  /\ RollsBack => ~failed
  /\ ops < MaxOps

Exists(i) == cache[i] # NoNode \/ sql[i] # NoNode

\* Class.get, of the column (fetch is FALSE) or of the Multilink.
Get(i, fetch) ==
  /\ CanOperate
  /\ Exists(i)
  /\ Becomes(AfterGetNode(i, fetch))
  /\ FailsIf(AfterGetNode(i, fetch).raises)
  /\ UNCHANGED <<rowvars, rows, counter, ops>>

\* filter_iter runs its query when the first row is asked for ...
FilterIter ==
  /\ CanOperate
  /\ rows = {}
  /\ rows' = {<<i, sql[i].v>> : i \in {j \in Ids : sql[j] # NoNode}}
  /\ UNCHANGED <<rowvars, cachevars, counter, failed, ops>>

\* ... and puts each row into the cache, if its key is not there, to yield it; a
\* generator that raises is over.
AfterYield(row) ==
  IF cache[row[1]] # NoNode
  THEN CacheRefresh(Present, row[1])
  ELSE CacheSave(Present, row[1], [v |-> row[2], ml |-> Unfetched])

FilterYield(row) ==
  /\ CanOperate
  /\ row \in rows
  /\ rows' = IF AfterYield(row).raises THEN {} ELSE rows \ {row}
  /\ Becomes(AfterYield(row))
  /\ FailsIf(AfterYield(row).raises)
  /\ UNCHANGED <<rowvars, counter, ops>>

-----------------------------------------------------------------------------
(* Edits. *)

CanEdit == CanOperate /\ (EditsWhileIterating \/ rows = {})

Writes(i, node) ==
  /\ sql' = [sql EXCEPT ![i] = node]
  /\ seen' = [seen EXCEPT ![i] = {node} \ {NoNode}]

\* newid: postgres takes the next value of a sequence; sqlite commits its
\* increment of the counter, and with it whatever the transaction has written.
NewId ==
  /\ counter < MaxId
  /\ counter' = counter + 1
  /\ base' = IF NewIdCommits THEN sql ELSE base

LockedAfterNewId == IF NewIdCommits THEN {} ELSE mine

\* create: addnode inserts the row; nothing is cached under a new id.
CreateOk(node) ==
  /\ CanEdit
  /\ NewId
  /\ Writes(counter', node)
  /\ mine' = LockedAfterNewId \cup {counter'}
  /\ UNCHANGED <<cachevars, rows, failed, ops>>

\* The properties are validated after newid.
CreateRaises ==
  /\ CanEdit
  /\ NewId
  /\ mine' = LockedAfterNewId
  /\ failed' = TRUE
  /\ UNCHANGED <<sql, seen, cachevars, rows, ops>>

\* The row after set has written the difference between node, which is what
\* getnode returned, and new: a column only when it differs, links by add/remove.
Written(i, node, new) ==
  [v |-> IF new.v # node.v THEN new.v ELSE sql[i].v,
   ml |-> (sql[i].ml \ (node.ml \ new.ml)) \cup (new.ml \ node.ml)]

\* set reads the node, writes the difference and drops it from the cache; when
\* nothing differs it writes nothing and the node stays cached.
SetOk(i, new) ==
  /\ CanEdit
  /\ sql[i] # NoNode
  /\ ~AfterGetNode(i, TRUE).raises
  /\ IF GetNode(i) # new
     THEN /\ Becomes(CacheDel(AfterGetNode(i, TRUE), i))
          /\ Writes(i, Written(i, GetNode(i), new))
          /\ mine' = mine \cup {i}
     ELSE /\ Becomes(AfterGetNode(i, TRUE))
          /\ UNCHANGED <<sql, seen, mine>>
  /\ ops' = ops + 1
  /\ UNCHANGED <<base, rows, counter, failed>>

\* getnode itself may raise, when it makes room in the cache.
SetCannotRead(i) ==
  /\ CanEdit
  /\ sql[i] # NoNode
  /\ AfterGetNode(i, TRUE).raises
  /\ Becomes(AfterGetNode(i, TRUE))
  /\ failed' = TRUE /\ ops' = ops + 1
  /\ UNCHANGED <<rowvars, rows, counter>>

\* A bad value ends the property loop.  By then the list of the cached node may
\* have lost the links that go and gained some of those that come.
SetRaises(i, wanted) ==
  LET old == GetNode(i).ml
      edited == {(old \cap wanted) \cup some : some \in SUBSET (wanted \ old)}
      c == AfterGetNode(i, TRUE)
  IN /\ CanEdit
     /\ sql[i] # NoNode
     /\ ~c.raises
     /\ \E ml \in {old} \cup edited :
          Becomes([nodes |-> [c.nodes EXCEPT ![i] =
                                IF @ = NoNode THEN @ ELSE [v |-> @.v, ml |-> ml]],
                   keys |-> c.keys, raises |-> FALSE])
     /\ failed' = TRUE /\ ops' = ops + 1
     /\ UNCHANGED <<rowvars, rows, counter>>

\* destroynode deletes the node from the cache, but not its key from cache_lru.
Destroy(i) ==
  /\ Destroying
  /\ CanEdit
  /\ Exists(i)
  /\ cache' = [cache EXCEPT ![i] = NoNode]
  /\ destroyed' = destroyed \cup {i}
  /\ Writes(i, NoNode)
  /\ mine' = mine \cup {i}
  /\ ops' = ops + 1
  /\ UNCHANGED <<base, lru, rows, counter, failed>>

-----------------------------------------------------------------------------
(* The end of a transaction, and other sessions. *)

\* An iterator may outlive the transaction; the rows it holds do not change.
Dropped == rows' \in {{}, rows} /\ (~EditsWhileIterating => rows' = {})

\* (mutants) the cache is carried over; the list of its keys is
CommitKeepsCache ==
  /\ RollsBack => ~failed
  /\ base' = sql
  /\ mine' = {} /\ seen' = ReadableOf(sql)
  /\ failed' = FALSE
  /\ Dropped
  /\ UNCHANGED <<sql, cachevars, counter, ops>>

CommitKeepsKeys ==
  /\ RollsBack => ~failed
  /\ base' = sql
  /\ mine' = {} /\ seen' = ReadableOf(sql)
  /\ cache' = Nothing /\ destroyed' = {}
  /\ failed' = FALSE
  /\ Dropped
  /\ UNCHANGED <<sql, lru, counter, ops>>

Commit ==
  /\ RollsBack => ~failed
  /\ base' = sql
  /\ mine' = {} /\ seen' = ReadableOf(sql)
  /\ ClearCache
  /\ failed' = FALSE
  /\ Dropped
  /\ UNCHANGED <<sql, counter, ops>>

\* The rows are committed, and then one of the other transactions, a queued method
\* or the indexer raises: the cache is not cleared.
CommitRaises ==
  /\ RollsBack => ~failed
  /\ base' = sql
  /\ mine' = {} /\ seen' = ReadableOf(sql)
  /\ failed' = TRUE
  /\ Dropped
  /\ UNCHANGED <<sql, cachevars, counter, ops>>

Rollback ==
  /\ sql' = base
  /\ mine' = {} /\ seen' = ReadableOf(base)
  /\ ClearCache
  /\ failed' = FALSE
  /\ Dropped
  /\ UNCHANGED <<base, counter, ops>>

\* Another session edits a row this one has not written, and commits.
OtherCommits(i, node) ==
  /\ Others
  /\ ops < MaxOps
  /\ i \notin mine /\ sql[i] # NoNode
  /\ base' = [base EXCEPT ![i] = node]
  /\ sql' = [sql EXCEPT ![i] = node]
  /\ seen' = [seen EXCEPT ![i] = @ \cup {node}]
  /\ ops' = ops + 1
  /\ UNCHANGED <<mine, cachevars, rows, counter, failed>>

Next ==
  \/ \E i \in Ids, fetch \in BOOLEAN : Get(i, fetch)
  \/ FilterIter
  \/ \E row \in rows : FilterYield(row)
  \/ \E node \in Node : CreateOk(node)
  \/ CreateRaises
  \/ \E i \in Ids : \/ Destroy(i)
                    \/ \E node \in Node : SetOk(i, node) \/ OtherCommits(i, node)
                    \/ SetCannotRead(i)
                    \/ \E wanted \in SUBSET Links : SetRaises(i, wanted)
  \/ Commit \/ CommitRaises \/ Rollback

Spec == Init /\ [][Next]_vars

-----------------------------------------------------------------------------
(* Properties. *)

\* But for nodes destroyed since the cache was last cleared, the LRU list and the
\* dictionary name the same keys, each once: what the eviction in _cache_save relies on.
LruMatchesCache ==
  /\ \A i \in Ids \ destroyed : i \in ToSet(lru) <=> cache[i] # NoNode
  /\ IsInjective(lru)

\* Until an operation raises, no cached value is older than the transaction, or
\* than its own last edit of the node: column and links are values the
\* connection could have read from the database since.
CacheIsOfThisTransaction ==
  \A i \in Ids : (~failed /\ cache[i] # NoNode) =>
    /\ \E node \in seen[i] : node.v = cache[i].v
    /\ \E node \in seen[i] : cache[i].ml \in {node.ml, Unfetched}

\* A set that did not raise has set what it was asked to, although it writes only
\* the difference from a cached node, unless another session has committed an
\* edit of that node since the transaction could first read it.
SetTakesEffect ==
  [][\A i \in Ids, node \in Node :
       SetOk(i, node) /\ seen[i] = {sql[i]} => sql'[i] = node]_vars

\* rdbms_common keeps a cache "of the N most recently retrieved rows"; what a destroy
\* leaves of it can break a later read, but only before the next commit or rollback:
\* a read raises in no session that has not itself destroyed a node since.
ReadsFailOnlyAfterDestroy ==
  [][(\/ \E i \in Ids, fetch \in BOOLEAN : Get(i, fetch)
      \/ \E row \in rows : FilterYield(row))
       => (failed' => failed \/ destroyed # {})]_vars

\* No read ever fails because of what was destroyed before.
ReadsSucceed ==
  [][\A i \in Ids, fetch \in BOOLEAN : Get(i, fetch) /\ failed' => failed]_vars
=============================================================================
