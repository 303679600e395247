----------------------------- MODULE AnydbmStore -----------------------------
(***************************************************************************)
(* The transactions of Roundup's dbm back end (backends/back_anydbm.py):   *)
(* one hyperdb class whose key property is `name` and which has a Link     *)
(* property `ref` to itself, edited through one Database object at a time  *)
(* (the object holds an exclusive lock file from __init__ to close).       *)
(*                                                                         *)
(* Edits go to a cache of node dictionaries; what a commit writes is a     *)
(* queue of (method, args) pairs.  A queued save holds the very dictionary *)
(* that is in the cache, so it writes what the cache holds when the commit *)
(* runs, not what it held when the save was queued.                        *)
(***************************************************************************)
EXTENDS Integers, Sequences, FiniteSets

CONSTANTS MaxId,         \* bound on node ids
          Names,         \* values of the key property
          NoNode,        \* no node under an id / id not in the cache
          Callers,       \* the kinds of session that open the database
          FaultyCommit,  \* may a commit raise or the process die inside it?
          Importing,     \* do administrators import nodes?
          Destroying,    \* does anything call Class.destroy?
          MaxOps         \* bound on operations per behaviour

CallerKinds == {"web", "operator", "oneoff", "multicall", "interactive"}

Ids == 1..MaxId
Refs == 0..MaxId       \* 0: the Link is None
Node == [name : Names, ref : Refs, retired : BOOLEAN]

ASSUME BoundsAssumption == MaxId \in Nat \ {0} /\ MaxOps \in Nat
ASSUME NoNodeAssumption == NoNode \notin Node
ASSUME CallersAssumption == Callers \subseteq CallerKinds
ASSUME FlagsAssumption ==
         {FaultyCommit, Importing, Destroying} \subseteq BOOLEAN

\* Sessions that stop at the first exception, and those that then commit nothing.
StopAtError == {"web", "operator", "oneoff"}
Careful == {"web", "operator"}
Admins == {"operator", "oneoff", "interactive"}

Acts == {"create", "set", "retired", "restored", "link", "unlink"}
Entry == [op : {"save", "journal", "setjournal", "destroy", "removed"},
          id : Ids, act : Acts]

VARIABLES
  disk,       \* nodes.<class>: the committed nodes
  journal,    \* journals.<class>: the committed journal of each id
  counter,    \* _ids: the last id handed out, saved as soon as it is taken
  phase,      \* is a Database open, and is it inside commit()?
  caller,     \* who opened it
  cache,      \* Database.cache
  newnodes,   \* Database.newnodes
  destroyed,  \* Database.destroyednodes
  queue,      \* Database.transactions
  at,         \* how many of them the running commit has executed
  failed,     \* an operation raised since the transaction began
  outcome,    \* how the last operation of the transaction ended
  ops         \* operations so far

store == <<disk, journal>>
txn == <<cache, newnodes, destroyed, queue>>
vars == <<disk, journal, counter, phase, caller, cache, newnodes, destroyed,
          queue, at, failed, outcome, ops>>

TypeOK ==
  /\ disk \in [Ids -> Node \cup {NoNode}]
  /\ journal \in [Ids -> Seq(Acts)]
  /\ counter \in Nat
  /\ phase \in {"closed", "open", "committing"}
  /\ caller \in CallerKinds
  /\ cache \in [Ids -> Node \cup {NoNode}]
  /\ newnodes \subseteq Ids
  /\ destroyed \subseteq Ids
  /\ queue \in Seq(Entry)
  /\ at \in 0..Len(queue)
  /\ failed \in BOOLEAN
  /\ outcome \in {"none", "ok", "raised"}
  /\ ops \in 0..MaxOps

Nothing == [i \in Ids |-> NoNode]

Init ==
  /\ disk = Nothing
  /\ journal = [i \in Ids |-> <<>>]
  /\ counter = 0
  /\ phase = "closed"
  /\ caller \in Callers
  /\ cache = Nothing /\ newnodes = {} /\ destroyed = {} /\ queue = <<>>
  /\ at = 0 /\ failed = FALSE /\ outcome = "none" /\ ops = 0

-----------------------------------------------------------------------------
(* Reads. *)

\* Database.getnode; NoNode stands for its IndexError.
GetNode(i) ==
  IF cache[i] # NoNode THEN cache[i]
  ELSE IF i \in destroyed THEN NoNode
  ELSE disk[i]

\* Database.hasnode looks in the cache and on disk, not at destroyednodes.
HasNode(i) == cache[i] # NoNode \/ disk[i] # NoNode
RefOk(r) == r # 0 => HasNode(r)

\* Class.getnodeids: a list, from which one occurrence of a destroyed id goes.
GetNodeIds ==
  {i \in Ids : i \in newnodes \/ (disk[i] # NoNode /\ i \notin destroyed)}

\* Class.lookup, as the set of ids it could return; {} is its KeyError.
Lookup(n) ==
  {i \in GetNodeIds : GetNode(i) # NoNode /\ ~GetNode(i).retired
                                          /\ GetNode(i).name = n}

\* getnode stores every node it reads from disk in the cache.
Warm(L) == [i \in Ids |-> IF i \in L THEN GetNode(i) ELSE cache[i]]

-----------------------------------------------------------------------------
(* The queue of a commit. *)

Save(i) == <<[op |-> "save", id |-> i, act |-> "set"]>>
Journal(i, a) == <<[op |-> "journal", id |-> i, act |-> a]>>
SetJournal(i, a) == <<[op |-> "setjournal", id |-> i, act |-> a]>>
DestroyNode(i) == <<[op |-> "destroy", id |-> i, act |-> "set"]>>
LinkTo(r) == IF r = 0 THEN <<>> ELSE Journal(r, "link")
UnlinkFrom(r) == IF r = 0 THEN <<>> ELSE Journal(r, "unlink")

\* destroynode removes every entry of the id; the hole left here does nothing.
WithoutEntriesOf(i) ==
  [k \in 1..Len(queue) |->
     IF queue[k].id = i THEN [queue[k] EXCEPT !.op = "removed"] ELSE queue[k]]

-----------------------------------------------------------------------------
(* Sessions: what the callers of the hyperdb do after an exception. *)

CanOperate ==
  /\ phase = "open"
  /\ ops < MaxOps
  /\ failed => caller \notin StopAtError
  /\ caller = "multicall" => outcome # "ok"    \* each call commits its own edit

Succeeds == outcome' = "ok" /\ ops' = ops + 1 /\ UNCHANGED failed
Raises == outcome' = "raised" /\ failed' = TRUE /\ ops' = ops + 1
InSession == UNCHANGED <<phase, caller, at, disk, journal>>

-----------------------------------------------------------------------------
(* Sessions: opening and closing. *)

Open ==
  /\ phase = "closed"
  /\ phase' = "open"
  /\ caller' \in Callers
  /\ UNCHANGED <<disk, journal, counter, txn, at, failed, outcome, ops>>

\* (mutant) the position in the queue survives
ForgetKeepsPosition ==
  /\ cache' = Nothing /\ newnodes' = {} /\ destroyed' = {} /\ queue' = <<>>
  /\ failed' = FALSE /\ outcome' = "none"
  /\ UNCHANGED <<disk, journal, counter, caller, at, ops>>

Forget ==
  /\ cache' = Nothing /\ newnodes' = {} /\ destroyed' = {} /\ queue' = <<>>
  /\ at' = 0 /\ failed' = FALSE /\ outcome' = "none"
  /\ UNCHANGED <<disk, journal, counter, caller, ops>>

\* The lock is released; whatever was not committed dies with the object.
Close == phase = "open" /\ phase' = "closed" /\ Forget

\* (mutant) the queue is dropped but the edited nodes stay in the cache
RollbackKeepsCache ==
  /\ phase = "open" /\ caller \in {"operator", "interactive"}
  /\ newnodes' = {} /\ destroyed' = {} /\ queue' = <<>>
  /\ failed' = FALSE /\ outcome' = "none"
  /\ UNCHANGED <<disk, journal, counter, phase, caller, cache, at, ops>>

Rollback == phase = "open" /\ caller \in {"operator", "interactive"} /\ phase' = "open" /\ Forget

-----------------------------------------------------------------------------
(* Operations of a Class. *)

\* Any read (get, list, find): fills the cache.
Read(i) ==
  /\ phase = "open"
  /\ i \in GetNodeIds
  /\ cache' = Warm({i})
  /\ InSession
  /\ UNCHANGED <<counter, newnodes, destroyed, queue, failed, outcome, ops>>

\* An auditor rejects the edit, or the node or property does not exist.
Vetoed ==
  /\ CanOperate
  /\ Raises /\ InSession
  /\ UNCHANGED <<counter, txn>>

\* (mutant) the id is counted, not kept in _ids
NewIdByCount == Cardinality(GetNodeIds) + 1

\* newid: taken, and written to _ids, before anything has been validated.
NewId == counter + 1

\* (mutant) the creation is journalled before the node is saved
CreateJournalledFirst(n, r) ==
  /\ CanOperate
  /\ NewId \in Ids
  /\ Lookup(n) = {} /\ RefOk(r)
  /\ counter' = NewId
  /\ cache' = [Warm(GetNodeIds) EXCEPT
                 ![NewId] = [name |-> n, ref |-> r, retired |-> FALSE]]
  /\ newnodes' = newnodes \cup {NewId}
  /\ queue' = queue \o Journal(NewId, "create") \o LinkTo(r) \o Save(NewId)
  /\ Succeeds /\ InSession
  /\ UNCHANGED destroyed

CreateOk(n, r) ==
  /\ CanOperate
  /\ NewId \in Ids
  /\ Lookup(n) = {}
  /\ RefOk(r)
  /\ counter' = NewId
  /\ cache' = [Warm(GetNodeIds) EXCEPT
                 ![NewId] = [name |-> n, ref |-> r, retired |-> FALSE]]
  /\ newnodes' = newnodes \cup {NewId}
  /\ queue' = queue \o LinkTo(r) \o Save(NewId) \o Journal(NewId, "create")
  /\ Succeeds /\ InSession
  /\ UNCHANGED destroyed

\* The properties come in dict order, so a good link may already have been
\* journalled when the key is found to clash (or to be missing).
CreateRaises(n, r, L) ==
  /\ CanOperate
  /\ NewId \in Ids
  /\ ~(Lookup(n) = {} /\ RefOk(r))
  /\ counter' = NewId
  /\ cache' = Warm(L)
  /\ queue' \in {queue, IF RefOk(r) THEN queue \o LinkTo(r) ELSE queue}
  /\ Raises /\ InSession
  /\ UNCHANGED <<newnodes, destroyed>>

\* set_inner: what the property loop does to the dictionary of node i once it
\* has got as far as the properties in `done`; the dictionary is the cached one.
Assigned(node, n, r, done) ==
  [node EXCEPT !.name = IF "name" \in done THEN n ELSE @,
               !.ref = IF "ref" \in done THEN r ELSE @]

LinkEntries(node, r, done) ==
  IF "ref" \in done THEN UnlinkFrom(node.ref) \o LinkTo(r) ELSE <<>>

Changes(node, n, r) ==
  {p \in {"name", "ref"} : \/ p = "name" /\ node.name # n
                           \/ p = "ref" /\ node.ref # r}

Invalid(node, n, r) ==
  {p \in Changes(node, n, r) : \/ p = "name" /\ Lookup(n) # {}
                               \/ p = "ref" /\ ~RefOk(r)}

Editable(i) == GetNode(i) # NoNode /\ ~GetNode(i).retired

SetOk(i, n, r) ==
  LET node == GetNode(i)
      done == Changes(GetNode(i), n, r)
  IN /\ CanOperate
     /\ Editable(i)
     /\ done # {}
     /\ Invalid(node, n, r) = {}
     /\ cache' = [Warm(IF "name" \in done THEN GetNodeIds ELSE {i}) EXCEPT
                    ![i] = Assigned(node, n, r, done)]
     /\ queue' = queue \o LinkEntries(node, r, done) \o Save(i) \o Journal(i, "set")
     /\ Succeeds /\ InSession
     /\ UNCHANGED <<counter, newnodes, destroyed>>

\* A bad property ends the loop; the good ones before it have been assigned and
\* their links journalled, and nothing is saved.
SetRaises(i, n, r, done, L) ==
  LET node == GetNode(i)
  IN /\ CanOperate
     /\ Editable(i)
     /\ Invalid(node, n, r) # {}
     /\ done \subseteq Changes(node, n, r) \ Invalid(node, n, r)
     /\ i \in L
     /\ "name" \in done => L = GetNodeIds
     /\ cache' = [Warm(L) EXCEPT ![i] = Assigned(node, n, r, done)]
     /\ queue' = queue \o LinkEntries(node, r, done)
     /\ Raises /\ InSession
     /\ UNCHANGED <<counter, newnodes, destroyed>>

Retire(i) ==
  /\ CanOperate
  /\ GetNode(i) # NoNode
  /\ cache' = [cache EXCEPT ![i] = [GetNode(i) EXCEPT !.retired = TRUE]]
  /\ queue' = queue \o Save(i) \o Journal(i, "retired")
  /\ Succeeds /\ InSession
  /\ UNCHANGED <<counter, newnodes, destroyed>>

\* (mutants) restore without the key check, and restore that leaves no journal
RestoreUnchecked(i) ==
  /\ CanOperate
  /\ GetNode(i) # NoNode
  /\ cache' = [cache EXCEPT ![i] = [GetNode(i) EXCEPT !.retired = FALSE]]
  /\ queue' = queue \o Save(i) \o Journal(i, "restored")
  /\ Succeeds /\ InSession
  /\ UNCHANGED <<counter, newnodes, destroyed>>

RestoreUnjournalled(i) ==
  /\ CanOperate
  /\ GetNode(i) # NoNode /\ Lookup(GetNode(i).name) = {}
  /\ cache' = [cache EXCEPT ![i] = [GetNode(i) EXCEPT !.retired = FALSE]]
  /\ queue' = queue \o Save(i)
  /\ Succeeds /\ InSession
  /\ UNCHANGED <<counter, newnodes, destroyed>>

\* A node that is not retired finds itself, and raises.
Restore(i) ==
  /\ CanOperate
  /\ GetNode(i) # NoNode
  /\ UNCHANGED <<counter, newnodes, destroyed>> /\ InSession
  /\ IF Lookup(GetNode(i).name) = {}
     THEN /\ cache' = [Warm(GetNodeIds) EXCEPT
                         ![i] = [GetNode(i) EXCEPT !.retired = FALSE]]
          /\ queue' = queue \o Save(i) \o Journal(i, "restored")
          /\ Succeeds
     ELSE /\ cache' = Warm({i} \cup Lookup(GetNode(i).name))
          /\ UNCHANGED queue
          /\ Raises

\* (mutant) the id stays among the new nodes
DestroyKeepsNew(i) ==
  /\ Destroying
  /\ CanOperate
  /\ i <= counter
  /\ cache' = [cache EXCEPT ![i] = NoNode]
  /\ destroyed' = destroyed \cup {i}
  /\ queue' = WithoutEntriesOf(i) \o DestroyNode(i)
  /\ Succeeds /\ InSession
  /\ UNCHANGED <<counter, newnodes>>

Destroy(i) ==
  /\ Destroying
  /\ CanOperate
  /\ i <= counter
  /\ cache' = [cache EXCEPT ![i] = NoNode]
  /\ newnodes' = newnodes \ {i}
  /\ destroyed' = destroyed \cup {i}
  /\ queue' = WithoutEntriesOf(i) \o DestroyNode(i)
  /\ Succeeds /\ InSession
  /\ UNCHANGED counter

\* do_import of a file with one row: import_list, import_journals, setid.
\* roundup-admin cannot destroy nodes, so no id is destroyed and then imported.
Import(i, node) ==
  /\ Importing
  /\ CanOperate
  /\ caller \in Admins /\ destroyed = {}
  /\ counter' = i + 1
  /\ cache' = [cache EXCEPT ![i] = node]
  /\ newnodes' = newnodes \cup {i}
  /\ queue' = queue \o Save(i)
                    \o SetJournal(i, IF node.retired THEN "retired" ELSE "create")
  /\ Succeeds /\ InSession
  /\ UNCHANGED destroyed

-----------------------------------------------------------------------------
(* commit() *)

BeginCommit ==
  /\ phase = "open"
  /\ caller \in Careful => ~failed
  /\ caller = "multicall" => outcome = "ok"
  /\ phase' = "committing"
  /\ UNCHANGED <<disk, journal, counter, caller, txn, at, failed, outcome, ops>>

\* The queued method that the loop has come to ...
Upcoming(op) ==
  /\ phase = "committing"
  /\ at < Len(queue)
  /\ queue[at + 1].op = op

\* ... is called; it touches the dbm files only.
Execute(op) ==
  /\ Upcoming(op)
  /\ at' = at + 1
  /\ UNCHANGED <<counter, phase, caller, txn, failed, outcome, ops>>

DoSaveNode ==
  /\ Execute("save")
  /\ disk' = [disk EXCEPT ![queue[at + 1].id] = cache[queue[at + 1].id]]
  /\ UNCHANGED journal

DoSaveJournal ==
  /\ Execute("journal")
  /\ journal' = [journal EXCEPT ![queue[at + 1].id] = Append(@, queue[at + 1].act)]
  /\ UNCHANGED disk

\* The imported journal replaces the stored one; it begins with the creation.
DoSetJournal ==
  /\ Execute("setjournal")
  /\ journal' = [journal EXCEPT ![queue[at + 1].id] =
                   IF queue[at + 1].act = "retired" THEN <<"create", "retired">>
                                                    ELSE <<"create">>]
  /\ UNCHANGED disk

\* doDestroyNode deletes the node, if it is there, and then opens the journals,
\* which may raise ...
DoDestroyNode ==
  /\ Upcoming("destroy")
  /\ disk[queue[at + 1].id] # NoNode
  /\ disk' = [disk EXCEPT ![queue[at + 1].id] = NoNode]
  /\ UNCHANGED <<journal, counter, phase, caller, txn, at, failed, outcome, ops>>

\* (mutant) the journal goes, whether or not the node is gone
DoDestroyJournalFirst ==
  /\ Execute("destroy")
  /\ journal' = [journal EXCEPT ![queue[at + 1].id] = <<>>]
  /\ UNCHANGED disk

\* ... and deletes the journal.
DoDestroyJournal ==
  /\ Execute("destroy")
  /\ disk[queue[at + 1].id] = NoNode
  /\ journal' = [journal EXCEPT ![queue[at + 1].id] = <<>>]
  /\ UNCHANGED disk

SkipRemoved == Execute("removed") /\ UNCHANGED store

EndCommit ==
  /\ phase = "committing"
  /\ at = Len(queue)
  /\ phase' = "open"
  /\ Forget

\* A method raises (a full disk, say): what was written stays written, the
\* queue and the cache stay as they are.
CommitRaises ==
  /\ FaultyCommit
  /\ phase = "committing"
  /\ phase' = "open" /\ at' = 0 /\ failed' = TRUE
  /\ UNCHANGED <<disk, journal, counter, caller, txn, outcome, ops>>

Crash ==
  /\ FaultyCommit
  /\ phase = "committing"
  /\ phase' = "closed"
  /\ Forget

Next ==
  \/ Open \/ Close \/ Rollback
  \/ Vetoed
  \/ \E i \in Ids : Read(i) \/ Retire(i) \/ Restore(i) \/ Destroy(i)
  \/ \E n \in Names, r \in Refs :
       \/ CreateOk(n, r)
       \/ \E i \in Ids : SetOk(i, n, r)
       \/ \E L \in SUBSET GetNodeIds :
            \/ CreateRaises(n, r, L)
            \/ \E i \in Ids, done \in SUBSET {"name", "ref"} :
                 SetRaises(i, n, r, done, L)
  \/ \E i \in Ids, node \in Node : Import(i, node)
  \/ BeginCommit \/ EndCommit \/ CommitRaises \/ Crash
  \/ DoSaveNode \/ DoSaveJournal \/ DoSetJournal
  \/ DoDestroyNode \/ DoDestroyJournal \/ SkipRemoved

Spec == Init /\ [][Next]_vars

-----------------------------------------------------------------------------
(* Properties. *)

KeyUniqueIn(nodes) ==
  \A i, j \in Ids :
    /\ nodes[i] # NoNode /\ nodes[j] # NoNode
    /\ ~nodes[i].retired /\ ~nodes[j].retired
    /\ nodes[i].name = nodes[j].name
    => i = j

View == [i \in Ids |-> GetNode(i)]

\* No two live nodes share a key, neither in what a session sees nor, between
\* commits, in the dbm file: what create and set promise of the key property.
KeyUnique ==
  /\ KeyUniqueIn(View)
  /\ phase # "committing" => KeyUniqueIn(disk)

\* The enumeration that lookup, list and find walk names exactly the nodes that
\* getnode would return, however creations and destructions are mixed.
EnumerationMatchesReads == GetNodeIds = {i \in Ids : GetNode(i) # NoNode}

\* A retirement that no restoration follows.
LastRetired(j) ==
  \E k \in 1..Len(j) : /\ j[k] = "retired"
                       /\ \A m \in (k + 1)..Len(j) : j[m] # "restored"

\* Between commits a stored node has a journal that begins with its creation and
\* whose last retirement or restoration says whether it is retired now; an id
\* without a node has no creation in its journal.
JournalMatchesNodes ==
  phase # "committing" =>
    \A i \in Ids :
      IF disk[i] = NoNode
      THEN \A k \in 1..Len(journal[i]) : journal[i][k] # "create"
      ELSE /\ journal[i] # <<>> /\ journal[i][1] = "create"
           /\ disk[i].retired <=> LastRetired(journal[i])

\* The journal records the creation of a node that is not in the store.
Orphaned(i) ==
  disk[i] = NoNode /\ "create" \in {journal[i][k] : k \in 1..Len(journal[i])}

\* Inside a commit, with whatever raises or dies there before, a journal gets ahead
\* of the store in one place only: between the two halves of a destruction.  (It stays
\* behind if the commit ends there.)
JournalAheadOnlyInDestruction ==
  [][\A i \in Ids : ~Orphaned(i) /\ Orphaned(i)' =>
       Upcoming("destroy") /\ queue[at + 1].id = i]_vars

\* A new node never gets an id that was handed out before, whatever was rolled
\* back, retired or destroyed since.
IdNeverReused ==
  [][/\ counter' >= counter
     /\ \A i \in newnodes' \ newnodes : i > counter]_vars

\* The next id to be handed out is not the id of a node the session can see, so
\* that a creation does not overwrite one.
NextIdIsFree == \A i \in Ids : GetNode(i) # NoNode => i <= counter

\* The dbm back end keeps the promises of hyperdb.Database.
Contract == INSTANCE HyperdbContract WITH
  committed <- disk, view <- View,
  phase <- IF phase = "open" /\ failed THEN "broken" ELSE phase
RefinesContract == Contract!Spec

\* roundup-admin: one-off commands are committed "if they are successful".
FailedOneOffChangesNothing ==
  [][caller = "oneoff" /\ failed => UNCHANGED store]_vars
=============================================================================
