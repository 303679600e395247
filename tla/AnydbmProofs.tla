---------------------------- MODULE AnydbmProofs ----------------------------
(***************************************************************************)
(* Proofs about AnydbmStore, for every value of its constants.             *)
(***************************************************************************)
EXTENDS AnydbmStore, TLAPS

-----------------------------------------------------------------------------
(* Type correctness. *)

\* What an entry of the queue may be, for the actions that add one.
LEMMA EntryTypes ==
  ASSUME NEW i \in Ids, NEW a \in Acts, NEW r \in Refs
  PROVE  /\ Save(i) \in Seq(Entry)
         /\ Journal(i, a) \in Seq(Entry)
         /\ SetJournal(i, a) \in Seq(Entry)
         /\ DestroyNode(i) \in Seq(Entry)
         /\ LinkTo(r) \in Seq(Entry)
         /\ UnlinkFrom(r) \in Seq(Entry)
<1>1. ASSUME NEW o \in {"save", "journal", "setjournal", "destroy", "removed"},
             NEW j \in Ids, NEW b \in Acts
      PROVE  <<[op |-> o, id |-> j, act |-> b]>> \in Seq(Entry)
  <2>1. [op |-> o, id |-> j, act |-> b] \in Entry
    BY <1>1 DEF Entry
  <2> QED BY <2>1
<1>2. "set" \in Acts /\ "link" \in Acts /\ "unlink" \in Acts
  BY DEF Acts
<1>3. r # 0 => r \in Ids
  BY DEF Refs, Ids
<1>4. Save(i) \in Seq(Entry) /\ DestroyNode(i) \in Seq(Entry)
  BY <1>1, <1>2 DEF Save, DestroyNode
<1>5. Journal(i, a) \in Seq(Entry) /\ SetJournal(i, a) \in Seq(Entry)
  BY <1>1 DEF Journal, SetJournal
<1>6. LinkTo(r) \in Seq(Entry) /\ UnlinkFrom(r) \in Seq(Entry)
  BY <1>1, <1>2, <1>3 DEF LinkTo, UnlinkFrom, Journal
<1> QED BY <1>4, <1>5, <1>6

\* What a node read through the transaction may be.
LEMMA ReadTypes ==
  ASSUME TypeOK
  PROVE  /\ \A i \in Ids : GetNode(i) \in Node \cup {NoNode}
         /\ \A L : Warm(L) \in [Ids -> Node \cup {NoNode}]
BY DEF TypeOK, GetNode, Warm

LEMMA ZeroRef == 0 \in Refs
BY BoundsAssumption DEF Refs

LEMMA AssignedType ==
  ASSUME NEW node \in Node, NEW n \in Names, NEW r \in Refs, NEW done
  PROVE  Assigned(node, n, r, done) \in Node
BY DEF Assigned, Node

LEMMA LinkEntriesType ==
  ASSUME NEW node \in Node, NEW r \in Refs, NEW done
  PROVE  LinkEntries(node, r, done) \in Seq(Entry)
<1>1. node.ref \in Refs
  BY DEF Node
<1>2. "set" \in Acts
  BY DEF Acts
<1>3. 1 \in Ids
  BY BoundsAssumption DEF Ids
<1> QED BY <1>1, <1>2, <1>3, EntryTypes DEF LinkEntries

\* An operation extends the queue by at most three stretches of entries.
LEMMA ExtendedQueue ==
  ASSUME NEW q \in Seq(Entry), NEW s \in Seq(Entry), NEW t \in Seq(Entry),
         NEW u \in Seq(Entry)
  PROVE  /\ q \o s \in Seq(Entry) /\ Len(q \o s) >= Len(q)
         /\ q \o s \o t \in Seq(Entry) /\ Len(q \o s \o t) >= Len(q)
         /\ q \o s \o t \o u \in Seq(Entry) /\ Len(q \o s \o t \o u) >= Len(q)
<1>1. ASSUME NEW x \in Seq(Entry), NEW y \in Seq(Entry)
      PROVE  x \o y \in Seq(Entry) /\ Len(x \o y) >= Len(x)
  <2>1. Len(x \o y) = Len(x) + Len(y)
    BY <1>1
  <2>2. Len(x) \in Nat /\ Len(y) \in Nat
    BY <1>1
  <2> QED BY <1>1, <2>1, <2>2
<1>2. q \o s \in Seq(Entry) /\ Len(q \o s) >= Len(q)
  BY <1>1
<1>3. q \o s \o t \in Seq(Entry) /\ Len(q \o s \o t) >= Len(q \o s)
  BY <1>1, <1>2
<1>4. q \o s \o t \o u \in Seq(Entry) /\ Len(q \o s \o t \o u) >= Len(q \o s \o t)
  BY <1>1, <1>3
<1>5. /\ Len(q) \in Nat /\ Len(q \o s) \in Nat
      /\ Len(q \o s \o t) \in Nat /\ Len(q \o s \o t \o u) \in Nat
  BY <1>2, <1>3, <1>4
<1> QED BY <1>2, <1>3, <1>4, <1>5

\* The part of type correctness that every operation of a Class shares.
LEMMA OperationTypes ==
  ASSUME TypeOK, CanOperate, Succeeds \/ Raises, InSession,
         counter' \in Nat, cache' \in [Ids -> Node \cup {NoNode}],
         newnodes' \subseteq Ids, destroyed' \subseteq Ids,
         queue' \in Seq(Entry), Len(queue') >= Len(queue)
  PROVE  TypeOK'
<1>1. at' \in 0..Len(queue')
  <2>1. at' = at /\ at \in 0..Len(queue)
    BY DEF InSession, TypeOK
  <2>2. Len(queue) \in Nat /\ Len(queue') \in Nat
    BY DEF TypeOK
  <2> QED BY <2>1, <2>2
<1>2. ops' \in 0..MaxOps
  BY BoundsAssumption DEF CanOperate, Succeeds, Raises, TypeOK
<1>3. failed' \in BOOLEAN /\ outcome' \in {"none", "ok", "raised"}
  BY DEF Succeeds, Raises, TypeOK
<1> QED BY <1>1, <1>2, <1>3 DEF InSession, TypeOK

\* The end of a transaction.
LEMMA ForgetTypes ==
  ASSUME TypeOK, Forget, phase' \in {"open", "closed"}
  PROVE  TypeOK'
<1>1. <<>> \in Seq(Entry) /\ Len(<<>>) = 0
  OBVIOUS
<1>2. queue' \in Seq(Entry) /\ at' \in 0..Len(queue')
  BY <1>1 DEF Forget
<1>3. cache' \in [Ids -> Node \cup {NoNode}]
  BY DEF Forget, Nothing
<1> QED BY <1>2, <1>3 DEF Forget, TypeOK

LEMMA WithoutEntriesType ==
  ASSUME queue \in Seq(Entry), NEW i \in Ids
  PROVE  WithoutEntriesOf(i) \in Seq(Entry) /\ Len(WithoutEntriesOf(i)) = Len(queue)
<1>1. \A k \in 1..Len(queue) :
        (IF queue[k].id = i THEN [queue[k] EXCEPT !.op = "removed"] ELSE queue[k])
          \in Entry
  <2>1. \A k \in 1..Len(queue) : queue[k] \in Entry
    OBVIOUS
  <2>2. \A e \in Entry : [e EXCEPT !.op = "removed"] \in Entry
    BY DEF Entry
  <2> QED BY <2>1, <2>2
<1>2. Len(queue) \in Nat
  OBVIOUS
<1> QED BY <1>1, <1>2 DEF WithoutEntriesOf

\* What the commit's loop finds at its position in the queue.
LEMMA UpcomingFacts ==
  ASSUME TypeOK, NEW op, Upcoming(op)
  PROVE  /\ phase = "committing" /\ at \in Nat /\ at + 1 \in 1..Len(queue)
         /\ queue \in Seq(Entry) /\ queue[at + 1] \in Entry
         /\ queue[at + 1].op = op
         /\ queue[at + 1].id \in Ids /\ queue[at + 1].act \in Acts
<1>1. at + 1 \in 1..Len(queue) /\ queue \in Seq(Entry) /\ at \in Nat
  BY DEF Upcoming, TypeOK
<1>2. queue[at + 1] \in Entry
  BY <1>1
<1> QED BY <1>1, <1>2 DEF Upcoming, Entry

\* The disjuncts of Next, with their parameters in scope.
LEMMA NextCases ==
  ASSUME Next, NEW P,
         Open => P, Close => P, Rollback => P, Vetoed => P,
         \A i \in Ids : Read(i) \/ Retire(i) \/ Restore(i) \/ Destroy(i) => P,
         \A n \in Names, r \in Refs : CreateOk(n, r) => P,
         \A n \in Names, r \in Refs, i \in Ids : SetOk(i, n, r) => P,
         \A n \in Names, r \in Refs, L \in SUBSET Ids : CreateRaises(n, r, L) => P,
         \A n \in Names, r \in Refs, L \in SUBSET Ids, i \in Ids,
            done \in SUBSET {"name", "ref"} : SetRaises(i, n, r, done, L) => P,
         \A i \in Ids, node \in Node : Import(i, node) => P,
         BeginCommit => P, EndCommit => P, CommitRaises => P, Crash => P,
         DoSaveNode => P, DoSaveJournal => P, DoSetJournal => P,
         DoDestroyNode => P, DoDestroyJournal => P, SkipRemoved => P
  PROVE  P
<1>1. SUBSET GetNodeIds \subseteq SUBSET Ids
  BY DEF GetNodeIds
<1> QED BY <1>1 DEF Next

\* Type correctness is inductive.
LEMMA TypeStep == TypeOK /\ [Next]_vars => TypeOK'
<1> SUFFICES ASSUME TypeOK, [Next]_vars PROVE TypeOK'
  OBVIOUS
<1>0. CASE UNCHANGED vars
  BY <1>0 DEF TypeOK, vars
<1>1. Open => TypeOK'
  BY CallersAssumption DEF Open, TypeOK, txn
<1>2. Close => TypeOK'
  BY ForgetTypes DEF Close
<1>3. Rollback => TypeOK'
  BY ForgetTypes DEF Rollback
<1>4. ASSUME Vetoed PROVE TypeOK'
  <2>1. queue' \in Seq(Entry) /\ Len(queue') >= Len(queue)
    BY <1>4 DEF Vetoed, txn, TypeOK
  <2> QED BY <1>4, <2>1, OperationTypes DEF Vetoed, txn, TypeOK
<1>5. ASSUME NEW i \in Ids PROVE Read(i) => TypeOK'
  BY ReadTypes DEF Read, InSession, TypeOK
<1>6. ASSUME NEW i \in Ids, Retire(i) PROVE TypeOK'
  <2>1. [GetNode(i) EXCEPT !.retired = TRUE] \in Node
    BY <1>6, ReadTypes DEF Retire, Node
  <2>2. "retired" \in Acts
    BY DEF Acts
  <2>3. queue' \in Seq(Entry) /\ Len(queue') >= Len(queue)
    <3>1. Save(i) \in Seq(Entry) /\ Journal(i, "retired") \in Seq(Entry)
      BY <2>2, EntryTypes, ZeroRef
    <3>2. queue \in Seq(Entry)
      BY DEF TypeOK
    <3> QED BY <1>6, <3>1, <3>2, ExtendedQueue DEF Retire
  <2> QED BY <1>6, <2>1, <2>3, OperationTypes DEF Retire, TypeOK
<1>7. ASSUME NEW i \in Ids, Restore(i) PROVE TypeOK'
  <2>1. [GetNode(i) EXCEPT !.retired = FALSE] \in Node
    BY <1>7, ReadTypes DEF Restore, Node
  <2>2. "restored" \in Acts
    BY DEF Acts
  <2>3. cache' \in [Ids -> Node \cup {NoNode}]
    BY <1>7, <2>1, ReadTypes DEF Restore
  <2>4. queue' \in Seq(Entry) /\ Len(queue') >= Len(queue)
    <3>1. Save(i) \in Seq(Entry) /\ Journal(i, "restored") \in Seq(Entry)
      BY <2>2, EntryTypes, ZeroRef
    <3>2. queue \in Seq(Entry) /\ Len(queue) >= Len(queue)
      BY DEF TypeOK
    <3>3. queue' = queue \/ queue' = queue \o Save(i) \o Journal(i, "restored")
      BY <1>7 DEF Restore
    <3>4. /\ queue \o Save(i) \o Journal(i, "restored") \in Seq(Entry)
          /\ Len(queue \o Save(i) \o Journal(i, "restored")) >= Len(queue)
      BY <3>1, <3>2, ExtendedQueue
    <3> QED BY <3>2, <3>3, <3>4
  <2> QED BY <1>7, <2>3, <2>4, OperationTypes DEF Restore, TypeOK
<1>8. ASSUME NEW i \in Ids, Destroy(i) PROVE TypeOK'
  <2>1. WithoutEntriesOf(i) \in Seq(Entry) /\ Len(WithoutEntriesOf(i)) = Len(queue)
    BY WithoutEntriesType DEF TypeOK
  <2>2. queue' \in Seq(Entry) /\ Len(queue') >= Len(queue)
    <3>1. DestroyNode(i) \in Seq(Entry)
      BY EntryTypes, ZeroRef DEF Acts
    <3> QED BY <1>8, <2>1, <3>1, ExtendedQueue DEF Destroy
  <2> QED BY <1>8, <2>2, OperationTypes DEF Destroy, TypeOK
<1>9. ASSUME NEW n \in Names, NEW r \in Refs, CreateOk(n, r) PROVE TypeOK'
  <2>1. [name |-> n, ref |-> r, retired |-> FALSE] \in Node
    BY DEF Node
  <2>2. cache' \in [Ids -> Node \cup {NoNode}]
    BY <1>9, <2>1, ReadTypes DEF CreateOk
  <2>3. "create" \in Acts
    BY DEF Acts
  <2>4. queue' \in Seq(Entry) /\ Len(queue') >= Len(queue)
    <3>1. NewId \in Ids
      BY <1>9 DEF CreateOk
    <3>2. /\ LinkTo(r) \in Seq(Entry) /\ Save(NewId) \in Seq(Entry)
          /\ Journal(NewId, "create") \in Seq(Entry)
      BY <2>3, <3>1, EntryTypes
    <3>3. queue \in Seq(Entry)
      BY DEF TypeOK
    <3> QED BY <1>9, <3>2, <3>3, ExtendedQueue DEF CreateOk
  <2>5. counter' \in Nat
    BY <1>9 DEF CreateOk, NewId, TypeOK
  <2> QED BY <1>9, <2>2, <2>4, <2>5, OperationTypes DEF CreateOk, TypeOK
<1>10. ASSUME NEW n \in Names, NEW r \in Refs, NEW L \in SUBSET Ids, CreateRaises(n, r, L)
       PROVE  TypeOK'
  <2>1. "set" \in Acts /\ 1 \in Ids
    BY BoundsAssumption DEF Acts, Ids
  <2>2. queue' \in Seq(Entry) /\ Len(queue') >= Len(queue)
    <3>1. LinkTo(r) \in Seq(Entry)
      BY <2>1, EntryTypes
    <3>2. queue \in Seq(Entry) /\ Len(queue) >= Len(queue)
      BY DEF TypeOK
    <3> QED BY <1>10, <3>1, <3>2, ExtendedQueue DEF CreateRaises
  <2>3. counter' \in Nat
    BY <1>10 DEF CreateRaises, NewId, TypeOK
  <2> QED BY <1>10, <2>2, <2>3, ReadTypes, OperationTypes DEF CreateRaises, TypeOK
<1>11. ASSUME NEW n \in Names, NEW r \in Refs, NEW i \in Ids, SetOk(i, n, r)
       PROVE  TypeOK'
  <2>1. GetNode(i) \in Node
    BY <1>11, ReadTypes DEF SetOk, Editable
  <2>2. \A done : /\ Assigned(GetNode(i), n, r, done) \in Node
                  /\ LinkEntries(GetNode(i), r, done) \in Seq(Entry)
    BY <2>1, AssignedType, LinkEntriesType
  <2>3. cache' \in [Ids -> Node \cup {NoNode}]
    BY <1>11, <2>2, ReadTypes DEF SetOk
  <2>4. "set" \in Acts
    BY DEF Acts
  <2>5. queue' \in Seq(Entry) /\ Len(queue') >= Len(queue)
    <3>1. Save(i) \in Seq(Entry) /\ Journal(i, "set") \in Seq(Entry)
      BY <2>4, EntryTypes, ZeroRef
    <3>2. queue \in Seq(Entry)
      BY DEF TypeOK
    <3> QED BY <1>11, <2>2, <3>1, <3>2, ExtendedQueue DEF SetOk
  <2> QED BY <1>11, <2>3, <2>5, OperationTypes DEF SetOk, TypeOK
<1>12. ASSUME NEW n \in Names, NEW r \in Refs, NEW L \in SUBSET Ids, NEW i \in Ids,
              NEW done \in SUBSET {"name", "ref"}, SetRaises(i, n, r, done, L)
       PROVE  TypeOK'
  <2>1. GetNode(i) \in Node
    BY <1>12, ReadTypes DEF SetRaises, Editable
  <2>2. /\ Assigned(GetNode(i), n, r, done) \in Node
        /\ LinkEntries(GetNode(i), r, done) \in Seq(Entry)
    BY <2>1, AssignedType, LinkEntriesType
  <2>3. cache' \in [Ids -> Node \cup {NoNode}]
    BY <1>12, <2>2, ReadTypes DEF SetRaises
  <2>4. queue' \in Seq(Entry) /\ Len(queue') >= Len(queue)
    BY <1>12, <2>2, ExtendedQueue DEF SetRaises, TypeOK
  <2> QED BY <1>12, <2>3, <2>4, OperationTypes DEF SetRaises, TypeOK
<1>13. ASSUME NEW i \in Ids, NEW node \in Node, Import(i, node) PROVE TypeOK'
  <2>1. "create" \in Acts /\ "retired" \in Acts
    BY DEF Acts
  <2>2. queue' \in Seq(Entry) /\ Len(queue') >= Len(queue)
    <3>1. /\ Save(i) \in Seq(Entry)
          /\ SetJournal(i, IF node.retired THEN "retired" ELSE "create") \in Seq(Entry)
      BY <2>1, EntryTypes, ZeroRef
    <3>2. queue \in Seq(Entry)
      BY DEF TypeOK
    <3> QED BY <1>13, <3>1, <3>2, ExtendedQueue DEF Import
  <2>3. counter' \in Nat
    BY <1>13 DEF Import, Ids
  <2> QED BY <1>13, <2>2, <2>3, OperationTypes DEF Import, TypeOK
<1>14. BeginCommit => TypeOK'
  BY DEF BeginCommit, txn, TypeOK
<1>15. EndCommit => TypeOK'
  BY ForgetTypes DEF EndCommit
<1>16. CommitRaises => TypeOK'
  BY DEF CommitRaises, txn, TypeOK
<1>17. Crash => TypeOK'
  BY ForgetTypes DEF Crash
<1>18. ASSUME NEW op, Execute(op)
       PROVE  /\ at' \in 0..Len(queue')
              /\ queue[at + 1].id \in Ids /\ queue[at + 1].act \in Acts
  <2>1. at + 1 \in 1..Len(queue) /\ queue \in Seq(Entry) /\ queue' = queue
    BY <1>18 DEF Execute, Upcoming, txn, TypeOK
  <2>2. queue[at + 1] \in Entry
    BY <2>1
  <2>3. at' \in 0..Len(queue')
    BY <1>18, <2>1 DEF Execute, Upcoming, TypeOK
  <2> QED BY <2>2, <2>3 DEF Entry
<1>19. DoSaveNode => TypeOK'
  BY <1>18 DEF DoSaveNode, Execute, Upcoming, txn, TypeOK
<1>20. DoSaveJournal => TypeOK'
  BY <1>18 DEF DoSaveJournal, Execute, Upcoming, txn, TypeOK
<1>21. DoSetJournal => TypeOK'
  <2>1. <<"create">> \in Seq(Acts) /\ <<"create", "retired">> \in Seq(Acts)
    BY DEF Acts
  <2> QED BY <1>18, <2>1 DEF DoSetJournal, Execute, Upcoming, txn, TypeOK
<1>22. DoDestroyNode \/ DoDestroyJournal => TypeOK'
  <2>1. DoDestroyNode => TypeOK'
    BY DEF DoDestroyNode, txn, TypeOK
  <2>2. DoDestroyJournal => TypeOK'
    <3>1. <<>> \in Seq(Acts)
      OBVIOUS
    <3> QED BY <1>18, <3>1 DEF DoDestroyJournal, Execute, Upcoming, txn, TypeOK
  <2> QED BY <2>1, <2>2
<1>23. SkipRemoved => TypeOK'
  BY <1>18 DEF SkipRemoved, Execute, Upcoming, store, txn, TypeOK
<1>24. CASE Next
  <2>1. \A i \in Ids : Read(i) \/ Retire(i) \/ Restore(i) \/ Destroy(i) => TypeOK'
    BY <1>5, <1>6, <1>7, <1>8
  <2> QED BY <1>24, <1>1, <1>2, <1>3, <1>4, <2>1, <1>9, <1>10, <1>11, <1>12, <1>13,
             <1>14, <1>15, <1>16, <1>17, <1>19, <1>20, <1>21, <1>22, <1>23, NextCases
<1> QED BY <1>0, <1>24

\* Every variable keeps its type, with any number of ids, any callers, faulty
\* commits, imports and destructions.
THEOREM TypeCorrect == Spec => []TypeOK
<1>1. ASSUME Init PROVE TypeOK
  <2>1. <<>> \in Seq(Entry) /\ Len(<<>>) = 0 /\ <<>> \in Seq(Acts)
    OBVIOUS
  <2>2. ops \in 0..MaxOps /\ caller \in CallerKinds /\ counter \in Nat
    BY <1>1, BoundsAssumption, CallersAssumption DEF Init
  <2>3. queue \in Seq(Entry) /\ at \in 0..Len(queue)
    BY <1>1, <2>1 DEF Init
  <2>4. disk \in [Ids -> Node \cup {NoNode}] /\ cache \in [Ids -> Node \cup {NoNode}]
    BY <1>1 DEF Init, Nothing
  <2>5. journal \in [Ids -> Seq(Acts)]
    BY <1>1, <2>1 DEF Init
  <2>6. newnodes \subseteq Ids /\ destroyed \subseteq Ids
    BY <1>1 DEF Init
  <2>7. /\ phase \in {"closed", "open", "committing"}
        /\ failed \in BOOLEAN /\ outcome \in {"none", "ok", "raised"}
    BY <1>1 DEF Init
  <2> QED BY <2>2, <2>3, <2>4, <2>5, <2>6, <2>7 DEF TypeOK
<1> QED BY <1>1, TypeStep, PTL DEF Spec

-----------------------------------------------------------------------------
(* The cache and the queue of a transaction.                               *)
(*                                                                         *)
(* Neither the enumeration of the nodes nor a commit is right by itself:   *)
(* both read the cache, newnodes, destroyednodes and the queue, which every *)
(* operation changes together.  CacheInv is what they have in common.      *)

Entries(q) == {q[k] : k \in 1..Len(q)}

CacheInv ==
  /\ \A i \in newnodes : cache[i] # NoNode
  /\ \A i \in destroyed : cache[i] = NoNode /\ i <= counter
  /\ \A i \in Ids : cache[i] # NoNode => i \in newnodes \/ disk[i] # NoNode
  /\ \A e \in Entries(queue) : /\ e.op = "save" => cache[e.id] # NoNode
                               /\ e.op = "destroy" => e.id \in destroyed

LEMMA EntriesOfConcat ==
  ASSUME NEW q \in Seq(Entry), NEW s \in Seq(Entry)
  PROVE  Entries(q \o s) = Entries(q) \cup Entries(s)
<1>1. Len(q) \in Nat /\ Len(s) \in Nat /\ Len(q \o s) = Len(q) + Len(s)
  OBVIOUS
<1>2. \A k \in 1..Len(q) : (q \o s)[k] = q[k] /\ k \in 1..Len(q \o s)
  BY <1>1
<1>3. \A k \in 1..Len(s) : (q \o s)[Len(q) + k] = s[k] /\ Len(q) + k \in 1..Len(q \o s)
  BY <1>1
<1>4. \A k \in 1..Len(q \o s) : k \in 1..Len(q) \/ k - Len(q) \in 1..Len(s)
  BY <1>1
<1>5. ASSUME NEW k \in 1..Len(q \o s)
      PROVE  (q \o s)[k] \in Entries(q) \cup Entries(s)
  <2>1. CASE k \in 1..Len(q)
    BY <2>1, <1>2 DEF Entries
  <2>2. CASE k - Len(q) \in 1..Len(s)
    <3>1. (q \o s)[Len(q) + (k - Len(q))] = s[k - Len(q)]
      BY <2>2, <1>3
    <3>2. Len(q) + (k - Len(q)) = k
      BY <1>1
    <3> QED BY <2>2, <3>1, <3>2 DEF Entries
  <2> QED BY <2>1, <2>2, <1>4
<1>6. Entries(q) \subseteq Entries(q \o s) /\ Entries(s) \subseteq Entries(q \o s)
  BY <1>2, <1>3 DEF Entries
<1> QED BY <1>5, <1>6 DEF Entries

\* The entries that the operations add.
LEMMA EntriesAdded ==
  ASSUME NEW i \in Ids, NEW a \in Acts, NEW r \in Refs, NEW node \in Node, NEW done
  PROVE  /\ Entries(Save(i)) = {[op |-> "save", id |-> i, act |-> "set"]}
         /\ Entries(DestroyNode(i)) = {[op |-> "destroy", id |-> i, act |-> "set"]}
         /\ \A e \in Entries(Journal(i, a)) \cup Entries(SetJournal(i, a))
                       \cup Entries(LinkTo(r)) \cup Entries(LinkEntries(node, r, done)) :
              e.op \notin {"save", "destroy"}
<1>1. ASSUME NEW e PROVE Entries(<<e>>) = {e}
  BY DEF Entries
<1>2. Entries(<<>>) = {}
  BY DEF Entries
<1>3. Entries(Save(i)) = {[op |-> "save", id |-> i, act |-> "set"]}
  BY <1>1 DEF Save
<1>4. Entries(DestroyNode(i)) = {[op |-> "destroy", id |-> i, act |-> "set"]}
  BY <1>1 DEF DestroyNode
<1>5. ASSUME NEW j, NEW b
      PROVE  /\ \A e \in Entries(Journal(j, b)) : e.op = "journal"
             /\ \A e \in Entries(SetJournal(j, b)) : e.op = "setjournal"
  BY <1>1 DEF Journal, SetJournal
<1>6. ASSUME NEW x
      PROVE  \A e \in Entries(LinkTo(x)) \cup Entries(UnlinkFrom(x)) : e.op = "journal"
  BY <1>2, <1>5 DEF LinkTo, UnlinkFrom
<1>7. \A e \in Entries(LinkEntries(node, r, done)) : e.op = "journal"
  <2>1. UnlinkFrom(node.ref) \in Seq(Entry) /\ LinkTo(r) \in Seq(Entry)
    BY EntryTypes DEF Node
  <2>2. Entries(UnlinkFrom(node.ref) \o LinkTo(r))
          = Entries(UnlinkFrom(node.ref)) \cup Entries(LinkTo(r))
    BY <2>1, EntriesOfConcat
  <2> QED BY <1>2, <1>6, <2>2 DEF LinkEntries
<1> QED BY <1>3, <1>4, <1>5, <1>6, <1>7

-----------------------------------------------------------------------------
(* Every operation either leaves one node in the cache or only reads.      *)

Queues(i) ==
  /\ Entries(queue) \subseteq Entries(queue')
  /\ \A e \in Entries(queue') \ Entries(queue) :
       /\ e.op = "save" => e.id = i
       /\ e.op # "destroy"

Edits(i, node) ==
  /\ \E L \in SUBSET Ids : cache' = [Warm(L) EXCEPT ![i] = node]
  /\ newnodes' \in {newnodes, newnodes \cup {i}}
  /\ i \in newnodes' \/ GetNode(i) # NoNode
  /\ i \notin destroyed
  /\ counter' >= counter \/ destroyed = {}
  /\ Queues(i)
  /\ UNCHANGED <<destroyed, disk>>

Saved(i) == \E e \in Entries(queue') : e.op = "save" /\ e.id = i

Glances ==
  /\ \E L \in SUBSET Ids : cache' = Warm(L)
  /\ counter' >= counter
  /\ Entries(queue) \subseteq Entries(queue')
  /\ \A e \in Entries(queue') \ Entries(queue) : e.op \notin {"save", "destroy"}
  /\ UNCHANGED <<newnodes, destroyed, disk>>

\* What a node read through the transaction says of its id.
LEMMA ReadFacts ==
  ASSUME TypeOK, CacheInv, NEW i \in Ids
  PROVE  /\ GetNode(i) # NoNode =>
              i \notin destroyed /\ (i \in newnodes \/ disk[i] # NoNode)
         /\ i \in GetNodeIds <=> GetNode(i) # NoNode
BY DEF CacheInv, GetNode, GetNodeIds, TypeOK

LEMMA WarmNothing ==
  ASSUME TypeOK
  PROVE  Warm({}) = cache
BY DEF Warm, TypeOK

LEMMA LookupReadable ==
  ASSUME NEW n
  PROVE  Lookup(n) \in SUBSET Ids /\ GetNodeIds \in SUBSET Ids
BY DEF Lookup, GetNodeIds

LEMMA EntriesOfSave ==
  ASSUME NEW i \in Ids
  PROVE  /\ \A e \in Entries(Save(i)) : e.op = "save" /\ e.id = i
         /\ \E e \in Entries(Save(i)) : e.op = "save" /\ e.id = i
<1>1. Entries(Save(i)) = {[op |-> "save", id |-> i, act |-> "set"]}
  BY DEF Save, Entries
<1>2. \A e \in {[op |-> "save", id |-> i, act |-> "set"]} : e.op = "save" /\ e.id = i
  OBVIOUS
<1> QED BY <1>1, <1>2

\* create leaves the new node in the cache and queues it.
LEMMA CreateEdits ==
  ASSUME TypeOK, CacheInv, NEW n \in Names, NEW r \in Refs, CreateOk(n, r)
  PROVE  Edits(NewId, [name |-> n, ref |-> r, retired |-> FALSE]) /\ Saved(NewId)
<1>1. NewId \in Ids /\ "create" \in Acts /\ queue \in Seq(Entry)
  BY DEF CreateOk, Acts, TypeOK
<1>2. /\ LinkTo(r) \in Seq(Entry) /\ Save(NewId) \in Seq(Entry)
      /\ Journal(NewId, "create") \in Seq(Entry)
  BY <1>1, EntryTypes
<1>3. Entries(queue') = Entries(queue) \cup Entries(LinkTo(r))
                          \cup Entries(Save(NewId)) \cup Entries(Journal(NewId, "create"))
  <2>1. queue \o LinkTo(r) \in Seq(Entry) /\ queue \o LinkTo(r) \o Save(NewId) \in Seq(Entry)
    BY <1>1, <1>2, ExtendedQueue
  <2>2. Entries(queue \o LinkTo(r)) = Entries(queue) \cup Entries(LinkTo(r))
    BY <1>1, <1>2, EntriesOfConcat
  <2>3. Entries(queue \o LinkTo(r) \o Save(NewId))
          = Entries(queue \o LinkTo(r)) \cup Entries(Save(NewId))
    BY <1>2, <2>1, EntriesOfConcat
  <2>4. Entries(queue \o LinkTo(r) \o Save(NewId) \o Journal(NewId, "create"))
          = Entries(queue \o LinkTo(r) \o Save(NewId)) \cup Entries(Journal(NewId, "create"))
    BY <1>2, <2>1, EntriesOfConcat
  <2> QED BY <2>2, <2>3, <2>4 DEF CreateOk
<1>4. \A e \in Entries(LinkTo(r)) \cup Entries(Journal(NewId, "create")) :
        e.op \notin {"save", "destroy"}
  <2>1. [name |-> n, ref |-> r, retired |-> FALSE] \in Node
    BY DEF Node
  <2> QED BY <1>1, <2>1, EntriesAdded
<1>5. Queues(NewId) /\ Saved(NewId)
  <2>1. /\ \A e \in Entries(Save(NewId)) : e.op = "save" /\ e.id = NewId
        /\ \E e \in Entries(Save(NewId)) : e.op = "save" /\ e.id = NewId
    BY <1>1, EntriesOfSave
  <2> QED BY <1>3, <1>4, <2>1 DEF Queues, Saved
<1>6. NewId \notin destroyed /\ counter' >= counter
  BY DEF CacheInv, NewId, CreateOk, TypeOK
<1>7. GetNodeIds \in SUBSET Ids
  BY LookupReadable
<1> QED BY <1>5, <1>6, <1>7 DEF Edits, CreateOk, InSession

\* One operation with a queue of two stretches, the first of which is a save.
LEMMA SaveThenJournal ==
  ASSUME TypeOK, NEW i \in Ids, NEW s \in Seq(Entry),
         queue' = queue \o Save(i) \o s,
         \A e \in Entries(s) : e.op \notin {"save", "destroy"}
  PROVE  Queues(i) /\ Saved(i)
<1>1. queue \in Seq(Entry) /\ Save(i) \in Seq(Entry)
  BY EntryTypes, ZeroRef DEF TypeOK, Acts
<1>2. queue \o Save(i) \in Seq(Entry)
  BY <1>1, ExtendedQueue
<1>3. Entries(queue') = Entries(queue) \cup Entries(Save(i)) \cup Entries(s)
  BY <1>1, <1>2, EntriesOfConcat
<1> QED BY <1>3, EntriesOfSave DEF Queues, Saved

\* set, whether it ends or raises, leaves what it has assigned in the cache; only
\* when it ends is the node queued.
LEMMA SetEdits ==
  ASSUME TypeOK, CacheInv, NEW i \in Ids, NEW n \in Names, NEW r \in Refs,
         SetOk(i, n, r)
  PROVE  /\ Edits(i, Assigned(GetNode(i), n, r, Changes(GetNode(i), n, r)))
         /\ Saved(i)
<1> DEFINE links == LinkEntries(GetNode(i), r, Changes(GetNode(i), n, r))
<1>1. GetNode(i) \in Node
  BY ReadTypes DEF SetOk, Editable
<1>2. /\ queue \in Seq(Entry) /\ links \in Seq(Entry)
      /\ Save(i) \in Seq(Entry) /\ Journal(i, "set") \in Seq(Entry)
  BY <1>1, LinkEntriesType, EntryTypes, ZeroRef DEF Acts, TypeOK
<1>3. Entries(queue') = Entries(queue) \cup Entries(links)
                          \cup Entries(Save(i)) \cup Entries(Journal(i, "set"))
  <2>1. queue \o links \in Seq(Entry) /\ queue \o links \o Save(i) \in Seq(Entry)
    BY <1>2, ExtendedQueue
  <2>2. Entries(queue \o links) = Entries(queue) \cup Entries(links)
    BY <1>2, EntriesOfConcat
  <2>3. Entries(queue \o links \o Save(i)) = Entries(queue \o links) \cup Entries(Save(i))
    BY <1>2, <2>1, EntriesOfConcat
  <2>4. Entries(queue \o links \o Save(i) \o Journal(i, "set"))
          = Entries(queue \o links \o Save(i)) \cup Entries(Journal(i, "set"))
    BY <1>2, <2>1, EntriesOfConcat
  <2> QED BY <2>2, <2>3, <2>4 DEF SetOk
<1>4. \A e \in Entries(links) \cup Entries(Journal(i, "set")) : e.op \notin {"save", "destroy"}
  BY <1>1, EntriesAdded DEF Acts
<1>5. Queues(i) /\ Saved(i)
  BY <1>3, <1>4, EntriesOfSave DEF Queues, Saved
<1>6. i \notin destroyed /\ GetNode(i) # NoNode
  BY ReadFacts DEF SetOk, Editable
<1>7. \E L \in SUBSET Ids :
        cache' = [Warm(L) EXCEPT ![i] = Assigned(GetNode(i), n, r, Changes(GetNode(i), n, r))]
  BY LookupReadable DEF SetOk
<1>8. counter' >= counter /\ UNCHANGED <<newnodes, destroyed, disk>>
  BY DEF SetOk, InSession, TypeOK
<1> QED BY <1>5, <1>6, <1>7, <1>8 DEF Edits

LEMMA SetRaisesEdits ==
  ASSUME TypeOK, CacheInv, NEW i \in Ids, NEW n \in Names, NEW r \in Refs,
         NEW done, NEW L \in SUBSET Ids, SetRaises(i, n, r, done, L)
  PROVE  Edits(i, Assigned(GetNode(i), n, r, done))
<1> DEFINE links == LinkEntries(GetNode(i), r, done)
<1>1. GetNode(i) \in Node
  BY ReadTypes DEF SetRaises, Editable
<1>2. queue \in Seq(Entry) /\ links \in Seq(Entry)
  BY <1>1, LinkEntriesType DEF TypeOK
<1>3. Entries(queue') = Entries(queue) \cup Entries(links)
  BY <1>2, EntriesOfConcat DEF SetRaises
<1>4. \A e \in Entries(links) : e.op \notin {"save", "destroy"}
  BY <1>1, EntriesAdded DEF Acts
<1>5. Queues(i)
  BY <1>3, <1>4 DEF Queues
<1>6. i \notin destroyed /\ GetNode(i) # NoNode
  BY ReadFacts DEF SetRaises, Editable
<1>7. counter' >= counter /\ UNCHANGED <<newnodes, destroyed, disk>>
  BY DEF SetRaises, InSession, TypeOK
<1> QED BY <1>5, <1>6, <1>7 DEF Edits, SetRaises

LEMMA RetireEdits ==
  ASSUME TypeOK, CacheInv, NEW i \in Ids, Retire(i)
  PROVE  Edits(i, [GetNode(i) EXCEPT !.retired = TRUE]) /\ Saved(i)
<1>1. "retired" \in Acts /\ Journal(i, "retired") \in Seq(Entry)
  BY EntryTypes, ZeroRef DEF Acts
<1>2. \A e \in Entries(Journal(i, "retired")) : e.op \notin {"save", "destroy"}
  BY DEF Entries, Journal
<1>3. Queues(i) /\ Saved(i)
  BY <1>1, <1>2, SaveThenJournal DEF Retire
<1>4. i \notin destroyed /\ GetNode(i) # NoNode
  BY ReadFacts DEF Retire
<1>5. counter' >= counter /\ UNCHANGED <<newnodes, destroyed, disk>>
  BY DEF Retire, InSession, TypeOK
<1> QED BY <1>3, <1>4, <1>5, WarmNothing DEF Edits, Retire

\* restore edits, or finds a live node with the key and only reads.
LEMMA RestoreEditsOrGlances ==
  ASSUME TypeOK, CacheInv, NEW i \in Ids, Restore(i)
  PROVE  \/ /\ Lookup(GetNode(i).name) = {}
            /\ Edits(i, [GetNode(i) EXCEPT !.retired = FALSE])
            /\ Saved(i) /\ Succeeds
         \/ Glances /\ Raises
<1>1. counter' >= counter /\ UNCHANGED <<newnodes, destroyed, disk>>
  BY DEF Restore, InSession, TypeOK
<1>2. CASE Lookup(GetNode(i).name) = {}
  <2>1. "restored" \in Acts /\ Journal(i, "restored") \in Seq(Entry)
    BY EntryTypes, ZeroRef DEF Acts
  <2>2. \A e \in Entries(Journal(i, "restored")) : e.op \notin {"save", "destroy"}
    BY DEF Entries, Journal
  <2>3. Queues(i) /\ Saved(i)
    BY <1>2, <2>1, <2>2, SaveThenJournal DEF Restore
  <2>4. i \notin destroyed /\ GetNode(i) # NoNode
    BY ReadFacts DEF Restore
  <2> QED BY <1>1, <1>2, <2>3, <2>4, LookupReadable DEF Edits, Restore
<1>3. CASE Lookup(GetNode(i).name) # {}
  <2>1. {i} \cup Lookup(GetNode(i).name) \in SUBSET Ids
    BY LookupReadable
  <2> QED BY <1>1, <1>3, <2>1 DEF Glances, Restore
<1> QED BY <1>2, <1>3

LEMMA ImportEdits ==
  ASSUME TypeOK, CacheInv, NEW i \in Ids, NEW node \in Node, Import(i, node)
  PROVE  Edits(i, node) /\ Saved(i)
<1> DEFINE act == IF node.retired THEN "retired" ELSE "create"
<1>1. act \in Acts /\ SetJournal(i, act) \in Seq(Entry)
  BY EntryTypes, ZeroRef DEF Acts
<1>2. \A e \in Entries(SetJournal(i, act)) : e.op \notin {"save", "destroy"}
  BY DEF Entries, SetJournal
<1>3. Queues(i) /\ Saved(i)
  BY <1>1, <1>2, SaveThenJournal DEF Import
<1> QED BY <1>3, WarmNothing DEF Edits, Import, InSession

LEMMA OthersGlance ==
  ASSUME TypeOK, CacheInv
  PROVE  /\ \A i \in Ids : Read(i) => Glances
         /\ Vetoed => Glances
         /\ \A n \in Names, r \in Refs, L \in SUBSET Ids : CreateRaises(n, r, L) => Glances
<1>1. \A i \in Ids : Read(i) => Glances
  BY DEF Read, InSession, Glances, TypeOK
<1>2. Vetoed => Glances
  BY WarmNothing DEF Vetoed, InSession, txn, Glances, TypeOK
<1>3. ASSUME NEW n \in Names, NEW r \in Refs, NEW L \in SUBSET Ids, CreateRaises(n, r, L)
      PROVE  Glances
  <2>1. queue \in Seq(Entry) /\ LinkTo(r) \in Seq(Entry)
    BY EntryTypes, BoundsAssumption DEF TypeOK, Acts, Ids
  <2>2. Entries(queue \o LinkTo(r)) = Entries(queue) \cup Entries(LinkTo(r))
    BY <2>1, EntriesOfConcat
  <2>3. \A e \in Entries(LinkTo(r)) : e.op \notin {"save", "destroy"}
    BY DEF LinkTo, Journal, Entries
  <2>4. Entries(queue') = Entries(queue) \/ Entries(queue') = Entries(queue) \cup Entries(LinkTo(r))
    BY <1>3, <2>2 DEF CreateRaises
  <2>5. counter' >= counter
    BY <1>3 DEF CreateRaises, NewId, TypeOK
  <2> QED BY <1>3, <2>3, <2>4, <2>5 DEF Glances, CreateRaises, InSession
<1> QED BY <1>1, <1>2, <1>3

-----------------------------------------------------------------------------
(* CacheInv is inductive. *)

LEMMA EditsKeepCacheInv ==
  ASSUME TypeOK, CacheInv, NEW i \in Ids, NEW node \in Node, Edits(i, node), TypeOK'
  PROVE  CacheInv'
<1>1. PICK L \in SUBSET Ids : cache' = [Warm(L) EXCEPT ![i] = node]
  BY DEF Edits
<1>2. node # NoNode
  BY NoNodeAssumption
<1>3. cache'[i] = node /\ \A j \in Ids \ {i} : cache'[j] = Warm(L)[j]
  BY <1>1 DEF Warm
<1>4. \A j \in Ids : /\ cache[j] # NoNode => Warm(L)[j] # NoNode
                     /\ Warm(L)[j] # NoNode => GetNode(j) # NoNode
  BY DEF Warm, GetNode
<1>5. \A j \in newnodes' : cache'[j] # NoNode
  BY <1>2, <1>3, <1>4 DEF Edits, CacheInv, TypeOK
<1>6. \A j \in destroyed' : cache'[j] = NoNode /\ j <= counter'
  <2>1. TAKE j \in destroyed'
  <2>2. j \in destroyed /\ j \in Ids /\ j # i
    BY DEF Edits, TypeOK
  <2>3. GetNode(j) = NoNode
    BY <2>2, ReadFacts
  <2>4. j <= counter'
    BY <2>2 DEF Edits, CacheInv, TypeOK, Ids
  <2> QED BY <1>3, <1>4, <2>2, <2>3, <2>4
<1>7. \A j \in Ids : cache'[j] # NoNode => j \in newnodes' \/ disk'[j] # NoNode
  <2>1. TAKE j \in Ids
  <2>2. newnodes \subseteq newnodes' /\ disk' = disk
    BY DEF Edits
  <2>3. CASE j = i
    BY <2>2, <2>3, ReadFacts DEF Edits
  <2>4. CASE j # i
    BY <1>3, <1>4, <2>2, <2>4, ReadFacts
  <2> QED BY <2>3, <2>4
<1>8. \A e \in Entries(queue') : /\ e.op = "save" => cache'[e.id] # NoNode
                                 /\ e.op = "destroy" => e.id \in destroyed'
  <2>1. TAKE e \in Entries(queue')
  <2>2. e \in Entries(queue) => e.id \in Ids
    <3>1. \A k \in 1..Len(queue) : queue[k] \in Entry
      BY DEF TypeOK
    <3> QED BY <3>1 DEF Entries, Entry
  <2>3. CASE e \in Entries(queue)
    BY <1>2, <1>3, <1>4, <2>2, <2>3 DEF CacheInv, Edits
  <2>4. CASE e \notin Entries(queue)
    BY <1>2, <1>3, <2>4 DEF Edits, Queues
  <2> QED BY <2>3, <2>4
<1> QED BY <1>5, <1>6, <1>7, <1>8 DEF CacheInv

LEMMA GlancesKeepCacheInv ==
  ASSUME TypeOK, CacheInv, Glances, TypeOK'
  PROVE  CacheInv'
<1>1. PICK L \in SUBSET Ids : cache' = Warm(L)
  BY DEF Glances
<1>2. \A j \in Ids : /\ cache[j] # NoNode => cache'[j] # NoNode
                     /\ cache'[j] # NoNode => GetNode(j) # NoNode
  BY <1>1 DEF Warm, GetNode
<1>3. \A j \in newnodes' : cache'[j] # NoNode
  BY <1>2 DEF Glances, CacheInv, TypeOK
<1>4. \A j \in destroyed' : cache'[j] = NoNode /\ j <= counter'
  <2>1. TAKE j \in destroyed'
  <2>2. j \in destroyed /\ j \in Ids
    BY DEF Glances, TypeOK
  <2>3. j <= counter'
    BY <2>2 DEF Glances, CacheInv, TypeOK, Ids
  <2> QED BY <1>2, <2>2, <2>3, ReadFacts
<1>5. \A j \in Ids : cache'[j] # NoNode => j \in newnodes' \/ disk'[j] # NoNode
  BY <1>2, ReadFacts DEF Glances
<1>6. \A e \in Entries(queue') : /\ e.op = "save" => cache'[e.id] # NoNode
                                 /\ e.op = "destroy" => e.id \in destroyed'
  <2>1. TAKE e \in Entries(queue')
  <2>2. e \in Entries(queue) => e.id \in Ids
    <3>1. \A k \in 1..Len(queue) : queue[k] \in Entry
      BY DEF TypeOK
    <3> QED BY <3>1 DEF Entries, Entry
  <2> QED BY <1>2, <2>2 DEF CacheInv, Glances
<1> QED BY <1>3, <1>4, <1>5, <1>6 DEF CacheInv

\* The queue that destroy leaves: the entries of other ids, holes, and itself.
LEMMA DestroyEntries ==
  ASSUME TypeOK, NEW i \in Ids, Destroy(i), NEW e \in Entries(queue')
  PROVE  \/ e \in Entries(queue) /\ e.id # i
         \/ e.op = "removed"
         \/ e.op = "destroy" /\ e.id = i
<1>1. /\ WithoutEntriesOf(i) \in Seq(Entry)
      /\ Len(WithoutEntriesOf(i)) = Len(queue)
      /\ DestroyNode(i) \in Seq(Entry)
  BY WithoutEntriesType, EntryTypes, ZeroRef DEF TypeOK, Acts
<1>2. Entries(queue') = Entries(WithoutEntriesOf(i)) \cup Entries(DestroyNode(i))
  BY <1>1, EntriesOfConcat DEF Destroy
<1>3. CASE e \in Entries(DestroyNode(i))
  BY <1>3 DEF Entries, DestroyNode
<1>4. CASE e \in Entries(WithoutEntriesOf(i))
  <2>1. PICK k \in 1..Len(queue) : e = WithoutEntriesOf(i)[k]
    BY <1>1, <1>4 DEF Entries
  <2>2. e = IF queue[k].id = i THEN [queue[k] EXCEPT !.op = "removed"] ELSE queue[k]
    BY <2>1 DEF WithoutEntriesOf
  <2>3. queue[k] \in Entry
    BY DEF TypeOK
  <2> QED BY <2>2, <2>3 DEF Entries, Entry
<1> QED BY <1>2, <1>3, <1>4

LEMMA CacheInvStep == TypeOK /\ TypeOK' /\ CacheInv /\ [Next]_vars => CacheInv'
<1> SUFFICES ASSUME TypeOK, TypeOK', CacheInv, [Next]_vars PROVE CacheInv'
  OBVIOUS
<1>0. CASE UNCHANGED vars
  BY <1>0 DEF CacheInv, Entries, vars
<1>1. Open => CacheInv'
  BY DEF Open, txn, CacheInv, Entries
<1>2. Forget => CacheInv'
  BY DEF Forget, Nothing, CacheInv, Entries
<1>3. \A i \in Ids : Read(i) => CacheInv'
  BY OthersGlance, GlancesKeepCacheInv
<1>4. Vetoed => CacheInv'
  BY OthersGlance, GlancesKeepCacheInv
<1>5. ASSUME NEW i \in Ids, Retire(i) PROVE CacheInv'
  <2>1. [GetNode(i) EXCEPT !.retired = TRUE] \in Node
    BY <1>5, ReadTypes DEF Retire, Node
  <2> QED BY <1>5, <2>1, RetireEdits, EditsKeepCacheInv
<1>6. ASSUME NEW i \in Ids, Restore(i) PROVE CacheInv'
  <2>1. [GetNode(i) EXCEPT !.retired = FALSE] \in Node
    BY <1>6, ReadTypes DEF Restore, Node
  <2> QED BY <1>6, <2>1, RestoreEditsOrGlances, EditsKeepCacheInv, GlancesKeepCacheInv
<1>7. ASSUME NEW i \in Ids, Destroy(i) PROVE CacheInv'
  <2>1. /\ cache' = [cache EXCEPT ![i] = NoNode] /\ newnodes' = newnodes \ {i}
        /\ destroyed' = destroyed \cup {i} /\ i <= counter
        /\ UNCHANGED <<counter, disk>>
    BY <1>7 DEF Destroy, InSession
  <2>2. \A e \in Entries(queue) : e.id \in Ids
    <3>1. \A k \in 1..Len(queue) : queue[k] \in Entry
      BY DEF TypeOK
    <3> QED BY <3>1 DEF Entries, Entry
  <2>3. \A e \in Entries(queue') : /\ e.op = "save" => cache'[e.id] # NoNode
                                   /\ e.op = "destroy" => e.id \in destroyed'
    <3>1. TAKE e \in Entries(queue')
    <3>2. CASE e \in Entries(queue) /\ e.id # i
      BY <2>1, <2>2, <3>2 DEF CacheInv, TypeOK
    <3>3. CASE e.op = "removed"
      BY <3>3
    <3>4. CASE e.op = "destroy" /\ e.id = i
      BY <2>1, <3>4
    <3> QED BY <1>7, <3>2, <3>3, <3>4, DestroyEntries
  <2> QED BY <2>1, <2>3 DEF CacheInv, TypeOK
<1>8. ASSUME NEW n \in Names, NEW r \in Refs, CreateOk(n, r) PROVE CacheInv'
  <2>1. [name |-> n, ref |-> r, retired |-> FALSE] \in Node /\ NewId \in Ids
    BY <1>8 DEF Node, CreateOk
  <2> QED BY <1>8, <2>1, CreateEdits, EditsKeepCacheInv
<1>9. ASSUME NEW n \in Names, NEW r \in Refs, NEW L \in SUBSET Ids, CreateRaises(n, r, L)
      PROVE  CacheInv'
  BY <1>9, OthersGlance, GlancesKeepCacheInv
<1>10. ASSUME NEW n \in Names, NEW r \in Refs, NEW i \in Ids, SetOk(i, n, r)
       PROVE  CacheInv'
  <2>1. GetNode(i) \in Node
    BY <1>10, ReadTypes DEF SetOk, Editable
  <2> QED BY <1>10, <2>1, AssignedType, SetEdits, EditsKeepCacheInv
<1>11. ASSUME NEW n \in Names, NEW r \in Refs, NEW L \in SUBSET Ids, NEW i \in Ids,
              NEW done \in SUBSET {"name", "ref"}, SetRaises(i, n, r, done, L)
       PROVE  CacheInv'
  <2>1. GetNode(i) \in Node
    BY <1>11, ReadTypes DEF SetRaises, Editable
  <2> QED BY <1>11, <2>1, AssignedType, SetRaisesEdits, EditsKeepCacheInv
<1>12. \A i \in Ids, node \in Node : Import(i, node) => CacheInv'
  BY ImportEdits, EditsKeepCacheInv
<1>13. BeginCommit => CacheInv'
  BY DEF BeginCommit, txn, CacheInv, Entries
<1>14. CommitRaises => CacheInv'
  BY DEF CommitRaises, txn, CacheInv, Entries
<1>15. ASSUME NEW op, Execute(op)
       PROVE  /\ UNCHANGED <<counter, cache, newnodes, destroyed, queue>>
              /\ queue[at + 1].op = op
              /\ queue[at + 1] \in Entries(queue) /\ queue[at + 1].id \in Ids
  <2>1. at + 1 \in 1..Len(queue) /\ queue \in Seq(Entry)
    BY <1>15 DEF Execute, Upcoming, TypeOK
  <2>2. queue[at + 1] \in Entry
    BY <2>1
  <2> QED BY <1>15, <2>1, <2>2 DEF Execute, Upcoming, txn, Entries, Entry
<1>16. DoSaveNode => CacheInv'
  BY <1>15 DEF DoSaveNode, CacheInv, TypeOK
<1>17. DoSaveJournal \/ DoSetJournal \/ DoDestroyJournal \/ SkipRemoved => CacheInv'
  BY <1>15 DEF DoSaveJournal, DoSetJournal, DoDestroyJournal, SkipRemoved, store, CacheInv
<1>18. ASSUME DoDestroyNode PROVE CacheInv'
  <2>1. /\ UNCHANGED <<counter, cache, newnodes, destroyed, queue>>
        /\ queue[at + 1].id \in Ids /\ queue[at + 1] \in Entries(queue)
        /\ queue[at + 1].op = "destroy"
    BY <1>18, UpcomingFacts DEF DoDestroyNode, txn, Entries
  <2> QED BY <1>18, <2>1 DEF DoDestroyNode, CacheInv, TypeOK
<1>19. CASE Next
  <2>1. \A i \in Ids : Read(i) \/ Retire(i) \/ Restore(i) \/ Destroy(i) => CacheInv'
    BY <1>3, <1>5, <1>6, <1>7
  <2>2. Close \/ Rollback \/ EndCommit \/ Crash => CacheInv'
    BY <1>2 DEF Close, Rollback, EndCommit, Crash
  <2> QED BY <1>19, <2>1, <2>2, <1>1, <1>4, <1>8, <1>9, <1>10, <1>11, <1>12, <1>13,
             <1>14, <1>16, <1>17, <1>18, NextCases
<1> QED BY <1>0, <1>19

THEOREM CacheConsistent == Spec => []CacheInv
<1>1. Init => CacheInv
  BY DEF Init, Nothing, CacheInv, Entries
<1> QED BY <1>1, CacheInvStep, TypeCorrect, PTL DEF Spec

\* The node that a queued destruction is about to delete.
LEMMA DestroyFacts ==
  ASSUME TypeOK, CacheInv, Upcoming("destroy")
  PROVE  /\ queue[at + 1].id \in Ids /\ queue[at + 1].id \in destroyed
         /\ cache[queue[at + 1].id] = NoNode /\ GetNode(queue[at + 1].id) = NoNode
         /\ queue[at + 1] \in Entries(queue)
<1>1. /\ at + 1 \in 1..Len(queue) /\ queue[at + 1].op = "destroy"
      /\ queue[at + 1].id \in Ids
  BY UpcomingFacts
<1>2. queue[at + 1] \in Entries(queue)
  BY <1>1 DEF Entries
<1>3. queue[at + 1].id \in destroyed
  BY <1>1, <1>2 DEF CacheInv
<1>4. cache[queue[at + 1].id] = NoNode
  BY <1>3 DEF CacheInv
<1> QED BY <1>1, <1>2, <1>3, <1>4 DEF GetNode

\* lookup, list and find walk exactly the nodes that getnode returns, for any
\* number of nodes and with every kind of caller, fault and import.
THEOREM EnumerationCorrect == Spec => []EnumerationMatchesReads
<1>1. TypeOK /\ CacheInv => EnumerationMatchesReads
  <2>1. ASSUME TypeOK, CacheInv PROVE EnumerationMatchesReads
    BY <2>1, ReadFacts, LookupReadable DEF EnumerationMatchesReads
  <2> QED BY <2>1
<1> QED BY <1>1, TypeCorrect, CacheConsistent, PTL

-----------------------------------------------------------------------------
(* A commit writes what the transaction saw.                               *)
(*                                                                         *)
(* Nodes are saved by reference to the cache, so the argument is that      *)
(* every id whose stored node differs from the one the transaction sees    *)
(* has a save or a destroy among the entries still to be executed, unless  *)
(* an operation has raised (and then a careful caller does not commit).    *)

Writing == {"save", "destroy"}
Pending(i) == \E k \in 1..Len(queue) : k > at /\ queue[k].id = i /\ queue[k].op \in Writing
Covered ==
  \A i \in Ids : disk[i] # GetNode(i) => \E e \in Entries(queue) : e.id = i /\ e.op \in Writing

CommitInv ==
  /\ caller \in Careful
  /\ phase # "committing" => at = 0
  /\ phase = "committing" => ~failed
  /\ phase = "closed" => /\ cache = Nothing /\ newnodes = {} /\ destroyed = {}
                         /\ queue = <<>> /\ ~failed
  /\ ~failed => \A i \in Ids : disk[i] # GetNode(i) => Pending(i)

\* What an operation does to the view of the transaction.
LEMMA EditsView ==
  ASSUME TypeOK, CacheInv, NEW i \in Ids, NEW node \in Node, Edits(i, node)
  PROVE  View' = [View EXCEPT ![i] = node]
<1>1. PICK L \in SUBSET Ids : cache' = [Warm(L) EXCEPT ![i] = node]
  BY DEF Edits
<1>2. node # NoNode
  BY NoNodeAssumption
<1>3. cache'[i] = node /\ \A j \in Ids \ {i} : cache'[j] = Warm(L)[j]
  BY <1>1 DEF Warm
<1>4. \A j \in Ids \ {i} : GetNode(j)' = GetNode(j)
  BY <1>3 DEF Warm, GetNode, Edits
<1>5. GetNode(i)' = node
  BY <1>2, <1>3 DEF GetNode
<1> QED BY <1>4, <1>5 DEF View

LEMMA GlancesView ==
  ASSUME TypeOK, CacheInv, Glances
  PROVE  View' = View
<1>1. PICK L \in SUBSET Ids : cache' = Warm(L)
  BY DEF Glances
<1>2. \A j \in Ids : GetNode(j)' = GetNode(j)
  BY <1>1 DEF Warm, GetNode, Glances
<1> QED BY <1>2 DEF View

LEMMA DestroyView ==
  ASSUME TypeOK, CacheInv, NEW i \in Ids, Destroy(i)
  PROVE  View' = [View EXCEPT ![i] = NoNode]
<1>1. /\ cache' = [cache EXCEPT ![i] = NoNode]
      /\ destroyed' = destroyed \cup {i} /\ disk' = disk
  BY DEF Destroy, InSession
<1>2. \A j \in Ids : GetNode(j)' = IF j = i THEN NoNode ELSE GetNode(j)
  BY <1>1 DEF GetNode, TypeOK
<1> QED BY <1>2 DEF View

\* With no node in the cache and none destroyed, the transaction sees the store.
LEMMA EmptyView ==
  ASSUME cache = Nothing, destroyed = {}, disk \in [Ids -> Node \cup {NoNode}]
  PROVE  View = disk
BY DEF View, GetNode, Nothing

\* The conditions under which an operation preserves CommitInv: until something
\* raises, a node it has changed is covered by an entry of the queue.
LEMMA OperationKeepsCommitInv ==
  ASSUME TypeOK, TypeOK', CommitInv, phase = "open", InSession,
         ~failed' => ~failed /\ (Covered => Covered')
  PROVE  CommitInv'
<1>1. at = 0 /\ at' = 0 /\ phase' = "open" /\ caller' \in Careful
  BY DEF CommitInv, InSession
<1>2. ~failed => Covered
  BY <1>1 DEF CommitInv, Pending, Entries, Covered
<1>3. Covered' => \A i \in Ids : (disk[i] # GetNode(i))' => Pending(i)'
  <2> SUFFICES ASSUME Covered', NEW i \in Ids, (disk[i] # GetNode(i))'
               PROVE  Pending(i)'
    OBVIOUS
  <2>1. PICK e \in Entries(queue') : e.id = i /\ e.op \in Writing
    BY DEF Covered
  <2>2. PICK k \in 1..Len(queue') : queue'[k] = e
    BY <2>1 DEF Entries
  <2>3. k > at'
    BY <1>1, <2>2 DEF TypeOK
  <2> QED BY <2>1, <2>2, <2>3 DEF Pending
<1> QED BY <1>1, <1>2, <1>3 DEF CommitInv

LEMMA EditsCovered ==
  ASSUME TypeOK, CacheInv, NEW i \in Ids, NEW node \in Node, Edits(i, node), Saved(i)
  PROVE  Covered => Covered'
<1>1. \A j \in Ids \ {i} : GetNode(j)' = GetNode(j)
  BY EditsView DEF View
<1>2. disk' = disk /\ Entries(queue) \subseteq Entries(queue')
  BY DEF Edits, Queues
<1>3. \E e \in Entries(queue') : e.id = i /\ e.op \in Writing
  BY DEF Saved, Writing
<1> QED BY <1>1, <1>2, <1>3 DEF Covered

LEMMA GlancesCovered ==
  ASSUME TypeOK, CacheInv, Glances
  PROVE  Covered => Covered'
<1>1. \A j \in Ids : GetNode(j)' = GetNode(j)
  BY GlancesView DEF View
<1> QED BY <1>1 DEF Covered, Glances

LEMMA DestroyCovered ==
  ASSUME TypeOK, CacheInv, NEW i \in Ids, Destroy(i)
  PROVE  Covered => Covered'
<1>1. \A j \in Ids \ {i} : GetNode(j)' = GetNode(j)
  BY DestroyView DEF View
<1>2. /\ WithoutEntriesOf(i) \in Seq(Entry)
      /\ Len(WithoutEntriesOf(i)) = Len(queue)
      /\ DestroyNode(i) \in Seq(Entry)
  BY WithoutEntriesType, EntryTypes, ZeroRef DEF TypeOK, Acts
<1>3. Entries(queue') = Entries(WithoutEntriesOf(i)) \cup Entries(DestroyNode(i))
  BY <1>2, EntriesOfConcat DEF Destroy
<1>4. \E e \in Entries(queue') : e.id = i /\ e.op \in Writing
  <2>1. Entries(DestroyNode(i)) = {[op |-> "destroy", id |-> i, act |-> "set"]}
    BY DEF DestroyNode, Entries
  <2>2. [op |-> "destroy", id |-> i, act |-> "set"] \in Entries(queue')
    BY <1>3, <2>1
  <2> QED BY <2>2 DEF Writing
<1>5. ASSUME NEW e \in Entries(queue), e.id # i PROVE e \in Entries(queue')
  <2>1. PICK k \in 1..Len(queue) : e = queue[k]
    BY DEF Entries
  <2>2. WithoutEntriesOf(i)[k] = e /\ k \in 1..Len(WithoutEntriesOf(i))
    BY <1>2, <1>5, <2>1 DEF WithoutEntriesOf
  <2> QED BY <1>3, <2>2 DEF Entries
<1>6. disk' = disk
  BY DEF Destroy, InSession
<1> QED BY <1>1, <1>4, <1>5, <1>6 DEF Covered

\* With an empty cache and an empty queue nothing is left to write.
LEMMA ForgetKeepsCommitInv ==
  ASSUME TypeOK, CommitInv, Forget, phase' \in {"open", "closed"}
  PROVE  CommitInv' /\ View' = disk'
<1>1. \A i \in Ids : GetNode(i)' = disk'[i]
  BY DEF Forget, Nothing, GetNode
<1>2. View' = disk'
  BY <1>1 DEF View, Forget, TypeOK
<1>3. cache' = Nothing'
  BY DEF Forget, Nothing
<1> QED BY <1>1, <1>2, <1>3 DEF CommitInv, Forget

LEMMA CommitInvStep ==
  ASSUME Callers \subseteq Careful
  PROVE  TypeOK /\ TypeOK' /\ CacheInv /\ CommitInv /\ [Next]_vars => CommitInv'
<1> SUFFICES ASSUME TypeOK, TypeOK', CacheInv, CommitInv, [Next]_vars PROVE CommitInv'
  OBVIOUS
<1>0. CASE UNCHANGED vars
  BY <1>0 DEF CommitInv, Pending, GetNode, vars
<1>a. CanOperate => ~failed /\ phase = "open"
  BY DEF CanOperate, CommitInv, Careful, StopAtError
<1>b. ASSUME NEW i \in Ids, NEW node \in Node, Edits(i, node), InSession, CanOperate,
             Saved(i) \/ failed'
      PROVE  CommitInv'
  BY <1>a, <1>b, EditsCovered, OperationKeepsCommitInv
<1>c. ASSUME Glances, InSession, phase = "open", ~failed' => ~failed
      PROVE  CommitInv'
  BY <1>c, GlancesCovered, OperationKeepsCommitInv
<1>1. Open => CommitInv'
  BY DEF Open, txn, CommitInv, Pending, GetNode
<1>2. Close \/ Rollback \/ EndCommit \/ Crash => CommitInv'
  BY ForgetKeepsCommitInv DEF Close, Rollback, EndCommit, Crash
<1>3. ASSUME NEW i \in Ids, Read(i) PROVE CommitInv'
  BY <1>c, <1>3, OthersGlance DEF Read
<1>4. Vetoed => CommitInv'
  BY <1>a, <1>c, OthersGlance DEF Vetoed, Raises
<1>5. ASSUME NEW i \in Ids, Retire(i) PROVE CommitInv'
  <2>1. [GetNode(i) EXCEPT !.retired = TRUE] \in Node
    BY <1>5, ReadTypes DEF Retire, Node
  <2> QED BY <1>b, <1>5, <2>1, RetireEdits DEF Retire
<1>6. ASSUME NEW i \in Ids, Restore(i) PROVE CommitInv'
  <2>1. [GetNode(i) EXCEPT !.retired = FALSE] \in Node
    BY <1>6, ReadTypes DEF Restore, Node
  <2>2. InSession /\ CanOperate
    BY <1>6 DEF Restore
  <2>3. CASE Edits(i, [GetNode(i) EXCEPT !.retired = FALSE]) /\ Saved(i)
    BY <1>b, <2>1, <2>2, <2>3
  <2>4. CASE Glances /\ Raises
    BY <1>a, <1>c, <2>2, <2>4 DEF Raises
  <2> QED BY <1>6, <2>3, <2>4, RestoreEditsOrGlances
<1>7. ASSUME NEW i \in Ids, Destroy(i) PROVE CommitInv'
  BY <1>a, <1>7, DestroyCovered, OperationKeepsCommitInv DEF Destroy
<1>8. ASSUME NEW n \in Names, NEW r \in Refs, CreateOk(n, r) PROVE CommitInv'
  <2>1. [name |-> n, ref |-> r, retired |-> FALSE] \in Node /\ NewId \in Ids
    BY <1>8 DEF Node, CreateOk
  <2> QED BY <1>b, <1>8, <2>1, CreateEdits DEF CreateOk
<1>9. ASSUME NEW n \in Names, NEW r \in Refs, NEW L \in SUBSET Ids, CreateRaises(n, r, L)
      PROVE  CommitInv'
  BY <1>a, <1>c, <1>9, OthersGlance DEF CreateRaises, Raises
<1>10. ASSUME NEW n \in Names, NEW r \in Refs, NEW i \in Ids, SetOk(i, n, r)
       PROVE  CommitInv'
  <2>1. GetNode(i) \in Node
    BY <1>10, ReadTypes DEF SetOk, Editable
  <2> QED BY <1>b, <1>10, <2>1, AssignedType, SetEdits DEF SetOk
<1>11. ASSUME NEW n \in Names, NEW r \in Refs, NEW L \in SUBSET Ids, NEW i \in Ids,
              NEW done \in SUBSET {"name", "ref"}, SetRaises(i, n, r, done, L)
       PROVE  CommitInv'
  <2>1. GetNode(i) \in Node
    BY <1>11, ReadTypes DEF SetRaises, Editable
  <2> QED BY <1>b, <1>11, <2>1, AssignedType, SetRaisesEdits DEF SetRaises, Raises
<1>12. ASSUME NEW i \in Ids, NEW node \in Node, Import(i, node) PROVE CommitInv'
  BY <1>b, <1>12, ImportEdits DEF Import
<1>13. BeginCommit => CommitInv'
  BY DEF BeginCommit, txn, CommitInv, Pending, GetNode
<1>14. CommitRaises => CommitInv'
  BY DEF CommitRaises, txn, CommitInv
<1>15. ASSUME NEW op, Execute(op)
       PROVE  /\ UNCHANGED <<phase, caller, cache, newnodes, destroyed, queue, failed>>
              /\ phase = "committing" /\ at' = at + 1 /\ at \in Nat
              /\ queue[at + 1].op = op
              /\ queue[at + 1] \in Entries(queue) /\ queue[at + 1].id \in Ids
  <2>1. at + 1 \in 1..Len(queue) /\ queue \in Seq(Entry) /\ at \in Nat
    BY <1>15 DEF Execute, Upcoming, TypeOK
  <2>2. queue[at + 1] \in Entry
    BY <2>1
  <2> QED BY <1>15, <2>1, <2>2 DEF Execute, Upcoming, txn, Entries, Entry
\* An entry that does not write leaves every entry that does.
<1>16. ASSUME NEW op, Execute(op), op \notin Writing, UNCHANGED disk PROVE CommitInv'
  <2>1. \A i \in Ids : Pending(i) => Pending(i)'
    BY <1>15, <1>16 DEF Pending, TypeOK
  <2> QED BY <1>15, <1>16, <2>1 DEF CommitInv, GetNode
\* One that does makes the stored node of its id the one the transaction sees.
<1>17. ASSUME NEW op, Execute(op),
              disk' = [disk EXCEPT ![queue[at + 1].id] = GetNode(queue[at + 1].id)]
       PROVE  CommitInv'
  <2>1. \A i \in Ids \ {queue[at + 1].id} : Pending(i) => Pending(i)'
    BY <1>15, <1>17 DEF Pending, TypeOK
  <2>2. \A i \in Ids : i # queue[at + 1].id => disk'[i] = disk[i] /\ GetNode(i)' = GetNode(i)
    BY <1>15, <1>17 DEF GetNode, TypeOK
  <2>3. \A i \in Ids : i = queue[at + 1].id => disk'[i] = GetNode(i) /\ GetNode(i)' = GetNode(i)
    BY <1>15, <1>17 DEF GetNode, TypeOK
  <2>4. ~failed' => \A i \in Ids : (disk[i] # GetNode(i))' => Pending(i)'
    <3> SUFFICES ASSUME ~failed', NEW i \in Ids, (disk[i] # GetNode(i))' PROVE Pending(i)'
      OBVIOUS
    <3>1. i # queue[at + 1].id
      BY <2>3
    <3>2. disk[i] # GetNode(i) /\ ~failed
      BY <1>15, <1>17, <2>2, <3>1
    <3> QED BY <2>1, <3>1, <3>2 DEF CommitInv
  <2>5. phase' = "committing" /\ caller' \in Careful /\ ~failed'
    BY <1>15, <1>17 DEF CommitInv
  <2> QED BY <2>4, <2>5 DEF CommitInv
<1>18. DoSaveNode => CommitInv'
  <2> SUFFICES ASSUME DoSaveNode PROVE CommitInv'
    OBVIOUS
  <2>1. Execute("save") /\ disk' = [disk EXCEPT ![queue[at + 1].id] = cache[queue[at + 1].id]]
    BY DEF DoSaveNode
  <2>2. cache[queue[at + 1].id] # NoNode
    BY <1>15, <2>1 DEF CacheInv
  <2>3. GetNode(queue[at + 1].id) = cache[queue[at + 1].id]
    BY <2>2 DEF GetNode
  <2> QED BY <1>17, <2>1, <2>3
<1>19. DoDestroyNode => CommitInv'
  <2> SUFFICES ASSUME DoDestroyNode PROVE CommitInv'
    OBVIOUS
  <2> DEFINE x == queue[at + 1].id
  <2>1. /\ UNCHANGED <<phase, caller, cache, newnodes, destroyed, queue, failed, at>>
        /\ disk' = [disk EXCEPT ![x] = NoNode]
    BY DEF DoDestroyNode, txn
  <2>2. x \in Ids /\ x \in destroyed /\ GetNode(x) = NoNode
    BY DestroyFacts DEF DoDestroyNode
  <2>3. \A i \in Ids : GetNode(i)' = GetNode(i) /\ (i # x => disk'[i] = disk[i]) /\ disk'[x] = NoNode
    BY <2>1, <2>2 DEF GetNode, TypeOK
  <2>4. \A i \in Ids : Pending(i)' <=> Pending(i)
    BY <2>1 DEF Pending
  <2>5. ASSUME ~failed', NEW i \in Ids, (disk[i] # GetNode(i))' PROVE Pending(i)'
    <3>1. ~failed /\ disk[i] # GetNode(i)
      BY <2>1, <2>2, <2>3, <2>5
    <3> QED BY <2>4, <3>1 DEF CommitInv
  <2>6. UNCHANGED <<phase, caller, failed>> /\ phase = "committing"
    BY <2>1, UpcomingFacts DEF DoDestroyNode
  <2> QED BY <2>5, <2>6 DEF CommitInv
<1>20. DoSaveJournal \/ DoSetJournal \/ SkipRemoved => CommitInv'
  BY <1>16 DEF DoSaveJournal, DoSetJournal, SkipRemoved, store, Writing
\* The node has gone before: the stored nodes are already what this entry leaves.
<1>22. DoDestroyJournal => CommitInv'
  <2> SUFFICES ASSUME DoDestroyJournal PROVE CommitInv'
    OBVIOUS
  <2> DEFINE x == queue[at + 1].id
  <2>1. Execute("destroy") /\ disk' = disk /\ disk[x] = NoNode
    BY DEF DoDestroyJournal
  <2>2. GetNode(x) = NoNode
    BY <2>1, DestroyFacts DEF Execute
  <2>3. disk' = [disk EXCEPT ![x] = GetNode(x)]
    BY <2>1, <2>2 DEF TypeOK
  <2> QED BY <1>17, <2>1, <2>3
<1>21. CASE Next
  <2>1. \A i \in Ids : Read(i) \/ Retire(i) \/ Restore(i) \/ Destroy(i) => CommitInv'
    BY <1>3, <1>5, <1>6, <1>7
  <2> QED BY <1>21, <2>1, <1>1, <1>2, <1>4, <1>8, <1>9, <1>10, <1>11, <1>12, <1>13,
             <1>14, <1>18, <1>19, <1>20, <1>22, NextCases
<1> QED BY <1>0, <1>21

LEMMA CommitCovered ==
  ASSUME Callers \subseteq Careful
  PROVE  Spec => []CommitInv
<1>1. Init => CommitInv
  BY DEF Init, Nothing, CommitInv, GetNode
<1>2. TypeOK /\ TypeOK' /\ CacheInv /\ CommitInv /\ [Next]_vars => CommitInv'
  BY CommitInvStep
<1> QED BY <1>1, <1>2, TypeCorrect, CacheConsistent, PTL DEF Spec

\* Every step of the back end is a step of hyperdb's contract, or changes
\* neither the store, nor the view, nor the phase.
LEMMA ContractStep ==
  ASSUME Callers \subseteq Careful
  PROVE  TypeOK /\ CacheInv /\ CommitInv /\ [Next]_vars
           => [Contract!Next]_(Contract!cvars)
<1> SUFFICES ASSUME TypeOK, CacheInv, CommitInv, [Next]_vars
             PROVE  [Contract!Next]_(Contract!cvars)
  OBVIOUS
<1> DEFINE Step == [Contract!Next]_(Contract!cvars)
           Phase == IF phase = "open" /\ failed THEN "broken" ELSE phase
<1>0. CASE UNCHANGED vars
  <2>1. View' = View
    BY <1>0 DEF vars, View, GetNode
  <2> QED BY <1>0, <2>1 DEF vars, Contract!cvars
<1>a. View \in [Ids -> Node \cup {NoNode}]
  BY ReadTypes DEF View
<1>b. CanOperate => ~failed /\ phase = "open"
  BY DEF CanOperate, CommitInv, Careful, StopAtError
\* What an operation does is an Edit of the contract.
<1>c. ASSUME NEW i \in Ids, NEW n \in Node \cup {NoNode}, View' = [View EXCEPT ![i] = n],
             CanOperate, InSession
      PROVE  Step
  <2>1. Phase = "open" /\ Phase' \in {"open", "broken"}
    BY <1>b, <1>c DEF InSession
  <2>2. disk' = disk
    BY <1>c DEF InSession
  <2>3. Contract!Edit
    BY <1>c, <2>1, <2>2 DEF Contract!Edit
  <2> QED BY <2>3 DEF Contract!Next
<1>d. ASSUME View' = View, CanOperate, InSession PROVE Step
  <2>1. 1 \in Ids
    BY BoundsAssumption DEF Ids
  <2>2. View' = [View EXCEPT ![1] = View[1]] /\ View[1] \in Node \cup {NoNode}
    BY <1>a, <1>d, <2>1
  <2> QED BY <1>c, <1>d, <2>1, <2>2
<1>1. Open => Step
  <2> SUFFICES ASSUME Open PROVE Step
    OBVIOUS
  <2>1. View' = View
    BY DEF Open, txn, View, GetNode
  <2>2. Phase = "closed" /\ Phase' = "open" /\ disk' = disk
    BY DEF Open, CommitInv
  <2>3. Contract!Open
    BY <2>1, <2>2 DEF Contract!Open
  <2> QED BY <2>3 DEF Contract!Next
<1>2. Close \/ Rollback => Step
  <2> SUFFICES ASSUME Close \/ Rollback PROVE Step
    OBVIOUS
  <2>1. phase = "open" /\ phase' \in {"open", "closed"} /\ Forget
    BY DEF Close, Rollback
  <2>2. Phase \in {"open", "broken"} /\ Phase' \in {"open", "closed"} /\ disk' = disk
    BY <2>1 DEF Forget
  <2>3. View' = disk
    BY <2>1, <2>2, ForgetKeepsCommitInv
  <2>4. Contract!Abandon
    BY <2>2, <2>3 DEF Contract!Abandon
  <2> QED BY <2>4 DEF Contract!Next
<1>3. ASSUME NEW i \in Ids, Read(i) PROVE Step
  <2>1. View' = View /\ disk' = disk
    BY <1>3, OthersGlance, GlancesView DEF Glances
  <2>2. phase' = phase /\ failed' = failed
    BY <1>3 DEF Read, InSession
  <2> QED BY <2>1, <2>2 DEF Contract!cvars
<1>4. Vetoed => Step
  BY <1>d, OthersGlance, GlancesView DEF Vetoed
<1>5. ASSUME NEW i \in Ids, Retire(i) PROVE Step
  <2>1. [GetNode(i) EXCEPT !.retired = TRUE] \in Node
    BY <1>5, ReadTypes DEF Retire, Node
  <2> QED BY <1>c, <1>5, <2>1, RetireEdits, EditsView DEF Retire
<1>6. ASSUME NEW i \in Ids, Restore(i) PROVE Step
  <2>1. [GetNode(i) EXCEPT !.retired = FALSE] \in Node
    BY <1>6, ReadTypes DEF Restore, Node
  <2>2. InSession /\ CanOperate
    BY <1>6 DEF Restore
  <2>3. CASE Edits(i, [GetNode(i) EXCEPT !.retired = FALSE])
    BY <1>c, <2>1, <2>2, <2>3, EditsView
  <2>4. CASE Glances
    BY <1>d, <2>2, <2>4, GlancesView
  <2> QED BY <1>6, <2>3, <2>4, RestoreEditsOrGlances
<1>7. ASSUME NEW i \in Ids, Destroy(i) PROVE Step
  BY <1>c, <1>7, DestroyView DEF Destroy
<1>8. ASSUME NEW n \in Names, NEW r \in Refs, CreateOk(n, r) PROVE Step
  <2>1. [name |-> n, ref |-> r, retired |-> FALSE] \in Node /\ NewId \in Ids
    BY <1>8 DEF Node, CreateOk
  <2> QED BY <1>c, <1>8, <2>1, CreateEdits, EditsView DEF CreateOk
<1>9. ASSUME NEW n \in Names, NEW r \in Refs, NEW L \in SUBSET Ids, CreateRaises(n, r, L)
      PROVE  Step
  BY <1>d, <1>9, OthersGlance, GlancesView DEF CreateRaises
<1>10. ASSUME NEW n \in Names, NEW r \in Refs, NEW i \in Ids, SetOk(i, n, r) PROVE Step
  <2>1. GetNode(i) \in Node
    BY <1>10, ReadTypes DEF SetOk, Editable
  <2> QED BY <1>c, <1>10, <2>1, AssignedType, SetEdits, EditsView DEF SetOk
<1>11. ASSUME NEW n \in Names, NEW r \in Refs, NEW L \in SUBSET Ids, NEW i \in Ids,
              NEW done \in SUBSET {"name", "ref"}, SetRaises(i, n, r, done, L)
       PROVE  Step
  <2>1. GetNode(i) \in Node
    BY <1>11, ReadTypes DEF SetRaises, Editable
  <2> QED BY <1>c, <1>11, <2>1, AssignedType, SetRaisesEdits, EditsView DEF SetRaises
<1>12. ASSUME NEW i \in Ids, NEW node \in Node, Import(i, node) PROVE Step
  BY <1>c, <1>12, ImportEdits, EditsView DEF Import
<1>13. BeginCommit => Step
  <2> SUFFICES ASSUME BeginCommit PROVE Step
    OBVIOUS
  <2>1. Phase = "open" /\ Phase' = "committing" /\ disk' = disk
    BY DEF BeginCommit, CommitInv, Careful
  <2>2. View' = View
    BY DEF BeginCommit, txn, View, GetNode
  <2>3. Contract!BeginCommit
    BY <2>1, <2>2 DEF Contract!BeginCommit
  <2> QED BY <2>3 DEF Contract!Next
<1>14. EndCommit => Step
  <2> SUFFICES ASSUME EndCommit PROVE Step
    OBVIOUS
  <2>1. \A i \in Ids : ~Pending(i)
    BY DEF EndCommit, Pending, TypeOK
  <2>2. disk = View
    BY <2>1 DEF EndCommit, CommitInv, View, TypeOK
  <2>3. View' = disk /\ disk' = disk
    BY ForgetKeepsCommitInv DEF EndCommit, Forget
  <2>4. Phase = "committing" /\ Phase' = "open"
    BY DEF EndCommit, Forget
  <2>5. Contract!EndCommit
    BY <2>2, <2>3, <2>4 DEF Contract!EndCommit
  <2> QED BY <2>5 DEF Contract!Next
<1>15. CommitRaises => Step
  <2> SUFFICES ASSUME CommitRaises PROVE Step
    OBVIOUS
  <2>1. Phase = "committing" /\ Phase' = "broken" /\ disk' = disk
    BY DEF CommitRaises
  <2>2. View' = View
    BY DEF CommitRaises, txn, View, GetNode
  <2>3. Contract!FailCommit
    BY <2>1, <2>2 DEF Contract!FailCommit
  <2> QED BY <2>3 DEF Contract!Next
<1>16. Crash => Step
  <2> SUFFICES ASSUME Crash PROVE Step
    OBVIOUS
  <2>1. Phase = "committing" /\ Phase' = "closed" /\ disk' = disk
    BY DEF Crash, Forget
  <2>2. View' = disk
    BY <2>1, ForgetKeepsCommitInv DEF Crash
  <2>3. Contract!Abandon
    BY <2>1, <2>2 DEF Contract!Abandon
  <2> QED BY <2>3 DEF Contract!Next
<1>17. ASSUME NEW op, Execute(op)
       PROVE  /\ Phase = "committing" /\ Phase' = "committing"
              /\ UNCHANGED <<cache, destroyed>>
              /\ queue[at + 1].op = op
              /\ queue[at + 1] \in Entries(queue) /\ queue[at + 1].id \in Ids
  <2>1. at + 1 \in 1..Len(queue) /\ queue \in Seq(Entry)
    BY <1>17 DEF Execute, Upcoming, TypeOK
  <2>2. queue[at + 1] \in Entry
    BY <2>1
  <2> QED BY <1>17, <2>1, <2>2 DEF Execute, Upcoming, txn, Entries, Entry
<1>18. DoSaveJournal \/ DoSetJournal \/ DoDestroyJournal \/ SkipRemoved => Step
  <2> SUFFICES ASSUME DoSaveJournal \/ DoSetJournal \/ DoDestroyJournal \/ SkipRemoved PROVE Step
    OBVIOUS
  <2>1. disk' = disk /\ \E op : Execute(op)
    BY DEF DoSaveJournal, DoSetJournal, DoDestroyJournal, SkipRemoved, store
  <2>2. View' = View
    BY <1>17, <2>1 DEF View, GetNode
  <2>3. Phase' = Phase
    BY <1>17, <2>1
  <2> QED BY <2>1, <2>2, <2>3 DEF Contract!cvars
<1>19. DoSaveNode => Step
  <2> SUFFICES ASSUME DoSaveNode PROVE Step
    OBVIOUS
  <2> DEFINE i == queue[at + 1].id
  <2>1. Execute("save") /\ disk' = [disk EXCEPT ![i] = cache[i]]
    BY DEF DoSaveNode
  <2>2. i \in Ids /\ cache[i] # NoNode
    BY <1>17, <2>1 DEF CacheInv
  <2>3. View[i] = cache[i] /\ View' = View
    BY <1>17, <2>1, <2>2 DEF View, GetNode, TypeOK
  <2>4. Contract!Flush(i)
    BY <1>17, <2>1, <2>3 DEF Contract!Flush
  <2> QED BY <2>2, <2>4 DEF Contract!Next
<1>20. DoDestroyNode => Step
  <2> SUFFICES ASSUME DoDestroyNode PROVE Step
    OBVIOUS
  <2> DEFINE i == queue[at + 1].id
  <2>1. /\ disk' = [disk EXCEPT ![i] = NoNode] /\ UNCHANGED <<cache, destroyed>>
        /\ Phase = "committing" /\ Phase' = "committing"
    BY UpcomingFacts DEF DoDestroyNode, txn
  <2>2. i \in Ids /\ cache[i] = NoNode /\ i \in destroyed
    BY DestroyFacts DEF DoDestroyNode
  <2>3. View[i] = NoNode /\ View' = View
    BY <2>1, <2>2 DEF View, GetNode, TypeOK
  <2>4. Contract!Flush(i)
    BY <2>1, <2>3 DEF Contract!Flush
  <2> QED BY <2>2, <2>4 DEF Contract!Next
<1>21. CASE Next
  <2>1. \A i \in Ids : Read(i) \/ Retire(i) \/ Restore(i) \/ Destroy(i) => Step
    BY <1>3, <1>5, <1>6, <1>7
  <2> HIDE DEF Step
  <2>2. Step
    BY <1>21, <2>1, <1>1, <1>2, <1>4, <1>8, <1>9, <1>10, <1>11, <1>12, <1>13, <1>14,
       <1>15, <1>16, <1>18, <1>19, <1>20, NextCases
  <2> QED BY <2>2 DEF Step
<1> QED BY <1>0, <1>21

\* The dbm back end keeps the promises of hyperdb.Database when its callers do
\* not commit after an exception (the web interface and roundup-admin's batch
\* commands), whatever is created, imported or destroyed, and wherever a commit
\* raises or the process dies inside one.
THEOREM CommitsWhatItSees ==
  ASSUME Callers \subseteq Careful
  PROVE  Spec => RefinesContract
<1>1. Init => Contract!Init
  <2> SUFFICES ASSUME Init PROVE Contract!Init
    OBVIOUS
  <2>1. disk = [i \in Ids |-> NoNode] /\ disk \in [Ids -> Node \cup {NoNode}]
    BY DEF Init, Nothing
  <2>2. View = disk
    BY <2>1, EmptyView DEF Init
  <2> QED BY <2>1, <2>2 DEF Init, Contract!Init
<1>2. TypeOK /\ CacheInv /\ CommitInv /\ [Next]_vars => [Contract!Next]_(Contract!cvars)
  BY ContractStep
<1>3. Spec => []CommitInv
  BY CommitCovered
<1> QED BY <1>1, <1>2, <1>3, TypeCorrect, CacheConsistent, PTL
        DEF Spec, RefinesContract, Contract!Spec

-----------------------------------------------------------------------------
(* The key property.                                                       *)

Live(i, name) == View[i] # NoNode /\ ~View[i].retired /\ View[i].name = name

LEMMA LookupFindsNone ==
  ASSUME TypeOK, CacheInv, NEW name, Lookup(name) = {}
  PROVE  \A j \in Ids : ~Live(j, name)
BY ReadFacts DEF Lookup, Live, View

\* An operation that leaves a live node checks that no other has its key.
LEMMA EditKeepsKeyUnique ==
  ASSUME TypeOK, CacheInv, KeyUnique, phase = "open", InSession,
         NEW i \in Ids, NEW node \in Node, Edits(i, node),
         node.retired \/ \A j \in Ids \ {i} : ~Live(j, node.name)
  PROVE  KeyUnique'
<1>1. View' = [View EXCEPT ![i] = node] /\ View \in [Ids -> Node \cup {NoNode}]
  BY EditsView, ReadTypes DEF View
<1>2. KeyUniqueIn(View) /\ KeyUniqueIn(disk)
  BY DEF KeyUnique
<1>3. KeyUniqueIn(View')
  BY <1>1, <1>2 DEF KeyUniqueIn, Live
<1>4. KeyUniqueIn(disk')
  BY <1>2 DEF InSession
<1> QED BY <1>3, <1>4 DEF KeyUnique

LEMMA SameViewKeepsKeyUnique ==
  ASSUME KeyUnique, View' = View, disk' = disk, phase' = phase
  PROVE  KeyUnique'
<1>1. KeyUniqueIn(View') /\ (phase' # "committing" => KeyUniqueIn(disk'))
  BY DEF KeyUnique
<1> QED BY <1>1 DEF KeyUnique

LEMMA GlanceKeepsKeyUnique ==
  ASSUME TypeOK, CacheInv, KeyUnique, Glances, phase' = phase
  PROVE  KeyUnique'
BY GlancesView, SameViewKeepsKeyUnique DEF Glances

\* A node that set has assigned has a key of its own, if it had one before.
LEMMA AssignedKey ==
  ASSUME TypeOK, CacheInv, KeyUnique, NEW i \in Ids, NEW n \in Names, NEW r \in Refs,
         NEW done, Editable(i), "name" \in done => Lookup(n) = {}
  PROVE  \A j \in Ids \ {i} : ~Live(j, Assigned(GetNode(i), n, r, done).name)
<1>1. GetNode(i) \in Node /\ GetNode(i) # NoNode /\ ~GetNode(i).retired
  BY ReadTypes DEF Editable
<1>2. Assigned(GetNode(i), n, r, done).name = IF "name" \in done THEN n ELSE GetNode(i).name
  BY <1>1 DEF Assigned, Node
<1>3. CASE "name" \in done
  BY <1>2, <1>3, LookupFindsNone
<1>4. CASE "name" \notin done
  <2>1. View[i] = GetNode(i) /\ KeyUniqueIn(View)
    BY DEF View, KeyUnique
  <2> QED BY <1>1, <1>2, <1>4, <2>1 DEF KeyUniqueIn, Live
<1> QED BY <1>3, <1>4

LEMMA KeyUniqueStep ==
  ASSUME Callers \subseteq Careful, ~FaultyCommit, ~Importing
  PROVE  TypeOK /\ CacheInv /\ CommitInv /\ KeyUnique /\ [Next]_vars => KeyUnique'
<1> SUFFICES ASSUME TypeOK, CacheInv, CommitInv, KeyUnique, [Next]_vars PROVE KeyUnique'
  OBVIOUS
<1>0. CASE UNCHANGED vars
  <2>1. View' = View
    BY <1>0 DEF vars, View, GetNode
  <2> QED BY <1>0, <2>1, SameViewKeepsKeyUnique DEF vars
<1>a. ASSUME CanOperate, InSession PROVE phase = "open" /\ phase' = phase
  BY <1>a DEF CanOperate, InSession
<1>b. KeyUniqueIn(View) /\ (phase # "committing" => KeyUniqueIn(disk))
  BY DEF KeyUnique
<1>1. Open => KeyUnique'
  <2> SUFFICES ASSUME Open PROVE KeyUnique'
    OBVIOUS
  <2>1. View' = View /\ disk' = disk
    BY DEF Open, txn, View, GetNode
  <2> QED BY <1>b, <2>1 DEF Open, KeyUnique
<1>2. Close \/ Rollback => KeyUnique'
  <2> SUFFICES ASSUME Close \/ Rollback PROVE KeyUnique'
    OBVIOUS
  <2>1. View' = disk' /\ disk' = disk /\ phase = "open"
    BY ForgetKeepsCommitInv DEF Close, Rollback, Forget
  <2> QED BY <1>b, <2>1 DEF KeyUnique
<1>3. ASSUME NEW i \in Ids, Read(i) PROVE KeyUnique'
  BY <1>3, OthersGlance, GlanceKeepsKeyUnique DEF Read, InSession
<1>4. Vetoed => KeyUnique'
  BY <1>a, OthersGlance, GlanceKeepsKeyUnique DEF Vetoed
<1>5. ASSUME NEW i \in Ids, Retire(i) PROVE KeyUnique'
  <2>1. [GetNode(i) EXCEPT !.retired = TRUE] \in Node
        /\ [GetNode(i) EXCEPT !.retired = TRUE].retired
    BY <1>5, ReadTypes DEF Retire, Node
  <2> QED BY <1>a, <1>5, <2>1, RetireEdits, EditKeepsKeyUnique DEF Retire
<1>6. ASSUME NEW i \in Ids, Restore(i) PROVE KeyUnique'
  <2>1. GetNode(i) \in Node
    BY <1>6, ReadTypes DEF Restore
  <2>2. /\ [GetNode(i) EXCEPT !.retired = FALSE] \in Node
        /\ [GetNode(i) EXCEPT !.retired = FALSE].name = GetNode(i).name
    BY <2>1 DEF Node
  <2>3. InSession /\ CanOperate
    BY <1>6 DEF Restore
  <2>4. CASE /\ Lookup(GetNode(i).name) = {}
             /\ Edits(i, [GetNode(i) EXCEPT !.retired = FALSE])
    BY <1>a, <2>2, <2>3, <2>4, LookupFindsNone, EditKeepsKeyUnique
  <2>5. CASE Glances
    BY <1>a, <2>3, <2>5, GlanceKeepsKeyUnique
  <2> QED BY <1>6, <2>4, <2>5, RestoreEditsOrGlances
<1>7. ASSUME NEW i \in Ids, Destroy(i) PROVE KeyUnique'
  <2>1. View' = [View EXCEPT ![i] = NoNode] /\ disk' = disk /\ phase' = "open" /\ phase = "open"
    BY <1>a, <1>7, DestroyView DEF Destroy, InSession
  <2>2. KeyUniqueIn(View')
    BY <1>b, <2>1 DEF KeyUniqueIn, View
  <2> QED BY <1>b, <2>1, <2>2 DEF KeyUnique
<1>8. ASSUME NEW n \in Names, NEW r \in Refs, CreateOk(n, r) PROVE KeyUnique'
  <2>1. [name |-> n, ref |-> r, retired |-> FALSE] \in Node /\ NewId \in Ids
    BY <1>8 DEF Node, CreateOk
  <2>2. \A j \in Ids : ~Live(j, n)
    BY <1>8, LookupFindsNone DEF CreateOk
  <2> QED BY <1>a, <1>8, <2>1, <2>2, CreateEdits, EditKeepsKeyUnique DEF CreateOk
<1>9. ASSUME NEW n \in Names, NEW r \in Refs, NEW L \in SUBSET Ids, CreateRaises(n, r, L)
      PROVE  KeyUnique'
  BY <1>a, <1>9, OthersGlance, GlanceKeepsKeyUnique DEF CreateRaises
<1>10. ASSUME NEW n \in Names, NEW r \in Refs, NEW i \in Ids, SetOk(i, n, r)
       PROVE  KeyUnique'
  <2> DEFINE done == Changes(GetNode(i), n, r)
  <2>1. GetNode(i) \in Node /\ Editable(i)
    BY <1>10, ReadTypes DEF SetOk, Editable
  <2>2. "name" \in done => Lookup(n) = {}
    BY <1>10 DEF SetOk, Invalid
  <2>3. \A j \in Ids \ {i} : ~Live(j, Assigned(GetNode(i), n, r, done).name)
    BY <2>1, <2>2, AssignedKey
  <2> QED BY <1>a, <1>10, <2>1, <2>3, AssignedType, SetEdits, EditKeepsKeyUnique DEF SetOk
<1>11. ASSUME NEW n \in Names, NEW r \in Refs, NEW L \in SUBSET Ids, NEW i \in Ids,
              NEW done \in SUBSET {"name", "ref"}, SetRaises(i, n, r, done, L)
       PROVE  KeyUnique'
  <2>1. GetNode(i) \in Node /\ Editable(i)
    BY <1>11, ReadTypes DEF SetRaises, Editable
  <2>2. "name" \in done => Lookup(n) = {}
    BY <1>11 DEF SetRaises, Invalid
  <2>3. \A j \in Ids \ {i} : ~Live(j, Assigned(GetNode(i), n, r, done).name)
    BY <2>1, <2>2, AssignedKey
  <2> QED BY <1>a, <1>11, <2>1, <2>3, AssignedType, SetRaisesEdits, EditKeepsKeyUnique
          DEF SetRaises
<1>12. \A i \in Ids, node \in Node : Import(i, node) => KeyUnique'
  BY DEF Import
<1>13. BeginCommit => KeyUnique'
  <2> SUFFICES ASSUME BeginCommit PROVE KeyUnique'
    OBVIOUS
  <2>1. View' = View /\ phase' = "committing"
    BY DEF BeginCommit, txn, View, GetNode
  <2> QED BY <1>b, <2>1 DEF KeyUnique
<1>14. EndCommit => KeyUnique'
  <2> SUFFICES ASSUME EndCommit PROVE KeyUnique'
    OBVIOUS
  <2>1. \A i \in Ids : ~Pending(i)
    BY DEF EndCommit, Pending, TypeOK
  <2>2. disk = View
    BY <2>1 DEF EndCommit, CommitInv, View, TypeOK
  <2>3. View' = disk' /\ disk' = disk
    BY ForgetKeepsCommitInv DEF EndCommit, Forget
  <2> QED BY <1>b, <2>2, <2>3 DEF KeyUnique
<1>15. CommitRaises \/ Crash => KeyUnique'
  BY DEF CommitRaises, Crash
<1>16. ASSUME NEW op, Execute(op), View' = View PROVE KeyUnique'
  BY <1>b, <1>16 DEF Execute, Upcoming, KeyUnique
<1>17. ASSUME NEW op, Execute(op)
       PROVE  /\ UNCHANGED <<cache, destroyed>> /\ queue[at + 1].op = op
              /\ queue[at + 1] \in Entries(queue) /\ queue[at + 1].id \in Ids
  <2>1. at + 1 \in 1..Len(queue) /\ queue \in Seq(Entry)
    BY <1>17 DEF Execute, Upcoming, TypeOK
  <2>2. queue[at + 1] \in Entry
    BY <2>1
  <2> QED BY <1>17, <2>1, <2>2 DEF Execute, Upcoming, txn, Entries, Entry
<1>18. DoSaveJournal \/ DoSetJournal \/ DoDestroyJournal \/ SkipRemoved => KeyUnique'
  <2> SUFFICES ASSUME DoSaveJournal \/ DoSetJournal \/ DoDestroyJournal \/ SkipRemoved
               PROVE  KeyUnique'
    OBVIOUS
  <2>1. PICK op : Execute(op) /\ disk' = disk
    BY DEF DoSaveJournal, DoSetJournal, DoDestroyJournal, SkipRemoved, store
  <2>2. View' = View
    BY <1>17, <2>1 DEF View, GetNode
  <2> QED BY <1>16, <2>1, <2>2
<1>19. DoSaveNode => KeyUnique'
  <2> SUFFICES ASSUME DoSaveNode PROVE KeyUnique'
    OBVIOUS
  <2>1. Execute("save") /\ disk' = [disk EXCEPT ![queue[at + 1].id] = cache[queue[at + 1].id]]
    BY DEF DoSaveNode
  <2>2. cache[queue[at + 1].id] # NoNode
    BY <1>17, <2>1 DEF CacheInv
  <2>3. View' = View
    BY <1>17, <2>1, <2>2 DEF View, GetNode, TypeOK
  <2> QED BY <1>16, <2>1, <2>3
<1>20. DoDestroyNode => KeyUnique'
  <2> SUFFICES ASSUME DoDestroyNode PROVE KeyUnique'
    OBVIOUS
  <2>1. /\ disk' = [disk EXCEPT ![queue[at + 1].id] = NoNode]
        /\ UNCHANGED <<cache, destroyed>> /\ phase' = "committing"
    BY UpcomingFacts DEF DoDestroyNode, txn
  <2>2. cache[queue[at + 1].id] = NoNode /\ queue[at + 1].id \in destroyed
    BY DestroyFacts DEF DoDestroyNode
  <2>3. View' = View
    BY <2>1, <2>2 DEF View, GetNode, TypeOK
  <2> QED BY <1>b, <2>1, <2>3 DEF KeyUnique
<1>21. CASE Next
  <2>1. \A i \in Ids : Read(i) \/ Retire(i) \/ Restore(i) \/ Destroy(i) => KeyUnique'
    BY <1>3, <1>5, <1>6, <1>7
  <2> QED BY <1>21, <2>1, <1>1, <1>2, <1>4, <1>8, <1>9, <1>10, <1>11, <1>12, <1>13, <1>14,
             <1>15, <1>18, <1>19, <1>20, NextCases
<1> QED BY <1>0, <1>21

\* No two live nodes share a key, whatever a careful session creates, sets,
\* retires, restores or destroys: the argument needs the contract (a commit makes
\* the store equal to a view that has unique keys) and fails for imports, which
\* do not look the key up, and for commits that stop half way.
THEOREM KeysStayUnique ==
  ASSUME Callers \subseteq Careful, ~FaultyCommit, ~Importing
  PROVE  Spec => []KeyUnique
<1>1. Init => KeyUnique
  <2> SUFFICES ASSUME Init PROVE KeyUnique
    OBVIOUS
  <2>1. \A i \in Ids : disk[i] = NoNode /\ View[i] = NoNode
    BY DEF Init, Nothing, View, GetNode
  <2> QED BY <2>1 DEF KeyUnique, KeyUniqueIn
<1>2. TypeOK /\ CacheInv /\ CommitInv /\ KeyUnique /\ [Next]_vars => KeyUnique'
  BY KeyUniqueStep
<1>3. Spec => []CommitInv
  BY CommitCovered
<1> QED BY <1>1, <1>2, <1>3, TypeCorrect, CacheConsistent, PTL DEF Spec

-----------------------------------------------------------------------------
(* Ids. *)

\* A new node never gets an id that was handed out before, whatever was rolled
\* back, destroyed or left behind by a commit that raised, unless nodes are
\* imported: newid takes the counter's successor, and nothing lowers the counter
\* but the setid of an import.
THEOREM IdsAreNotReused ==
  ASSUME ~Importing
  PROVE  Spec => IdNeverReused
<1> DEFINE Fresh == /\ counter' >= counter
                    /\ \A i \in newnodes' \ newnodes : i > counter
<1>1. ASSUME TypeOK, [Next]_vars PROVE [Fresh]_vars
  <2>0. counter \in Nat
    BY <1>1 DEF TypeOK
  <2>1. UNCHANGED counter /\ newnodes' \subseteq newnodes => Fresh
    BY <2>0
  <2>2. Open => Fresh
    BY <2>1 DEF Open, txn
  <2>3. Close \/ Rollback \/ EndCommit \/ Crash => Fresh
    BY <2>1 DEF Close, Rollback, EndCommit, Crash, Forget
  <2>4. Vetoed \/ BeginCommit \/ CommitRaises => Fresh
    BY <2>1 DEF Vetoed, BeginCommit, CommitRaises, txn
  <2>5. \A i \in Ids : Read(i) \/ Retire(i) \/ Restore(i) \/ Destroy(i) => Fresh
    BY <2>1 DEF Read, Retire, Restore, Destroy
  <2>6. \A n \in Names, r \in Refs : CreateOk(n, r) => Fresh
    BY <2>0 DEF CreateOk, NewId
  <2>7. \A n \in Names, r \in Refs, i \in Ids : SetOk(i, n, r) => Fresh
    BY <2>1 DEF SetOk
  <2>8. \A n \in Names, r \in Refs, L \in SUBSET Ids : CreateRaises(n, r, L) => Fresh
    BY <2>0 DEF CreateRaises, NewId
  <2>9. \A n \in Names, r \in Refs, L \in SUBSET Ids, i \in Ids,
           done \in SUBSET {"name", "ref"} : SetRaises(i, n, r, done, L) => Fresh
    BY <2>1 DEF SetRaises
  <2>10. \A i \in Ids, node \in Node : Import(i, node) => Fresh
    BY DEF Import
  <2>11. DoSaveNode \/ DoSaveJournal \/ DoSetJournal \/ DoDestroyNode \/ DoDestroyJournal
           \/ SkipRemoved => Fresh
    BY <2>1 DEF DoSaveNode, DoSaveJournal, DoSetJournal, DoDestroyNode, DoDestroyJournal,
                SkipRemoved, Execute, txn
  <2>12. Next => Fresh
    BY <2>2, <2>3, <2>4, <2>5, <2>6, <2>7, <2>8, <2>9, <2>10, <2>11, NextCases
  <2> QED BY <1>1, <2>12
<1> QED BY <1>1, TypeCorrect, PTL DEF Spec, IdNeverReused

-----------------------------------------------------------------------------
(* The journal gets ahead of the store between the halves of a destruction *)
(* only.                                                                   *)
(*                                                                         *)
(* A commit runs its queue in order, so the order of the entries decides.  *)
(* Every entry that journals a creation comes after a save of the same     *)
(* node, and every save that the running commit has executed has left its  *)
(* node in the store: a destroy cannot take it away again, since it has    *)
(* removed the saves of its id from the queue (CacheInv).                  *)

JournalsCreation(e) == e.op = "setjournal" \/ (e.op = "journal" /\ e.act = "create")

SavedFirst(q) ==
  \A k \in 1..Len(q) : JournalsCreation(q[k]) =>
    \E j \in 1..(k - 1) : q[j].op = "save" /\ q[j].id = q[k].id

SavesReached == \A j \in 1..at : queue[j].op = "save" => disk[queue[j].id] # NoNode

JournalInv ==
  /\ SavedFirst(queue)
  /\ phase # "committing" => at = 0
  /\ SavesReached

\* Entries added at the end keep the order if what they create is saved before.
LEMMA SavedFirstConcat ==
  ASSUME NEW q \in Seq(Entry), NEW s \in Seq(Entry), SavedFirst(q),
         \A e \in Entries(s) : JournalsCreation(e) =>
           \E f \in Entries(q) : f.op = "save" /\ f.id = e.id
  PROVE  SavedFirst(q \o s)
<1>1. Len(q) \in Nat /\ Len(s) \in Nat /\ Len(q \o s) = Len(q) + Len(s)
  OBVIOUS
<1>2. \A k \in 1..Len(q) : (q \o s)[k] = q[k]
  BY <1>1
<1>3. SUFFICES ASSUME NEW k \in 1..Len(q \o s), JournalsCreation((q \o s)[k])
               PROVE  \E j \in 1..(k - 1) : /\ (q \o s)[j].op = "save"
                                            /\ (q \o s)[j].id = (q \o s)[k].id
  BY DEF SavedFirst
<1>4. CASE k \in 1..Len(q)
  <2>1. PICK j \in 1..(k - 1) : q[j].op = "save" /\ q[j].id = q[k].id
    BY <1>2, <1>3, <1>4 DEF SavedFirst
  <2>2. j \in 1..Len(q)
    BY <1>1, <1>4
  <2> QED BY <1>2, <1>4, <2>1, <2>2
<1>5. CASE k \notin 1..Len(q)
  <2>1. k - Len(q) \in 1..Len(s) /\ (q \o s)[k] = s[k - Len(q)]
    BY <1>1, <1>5
  <2>2. (q \o s)[k] \in Entries(s)
    BY <2>1 DEF Entries
  <2>3. PICK f \in Entries(q) : f.op = "save" /\ f.id = (q \o s)[k].id
    BY <1>3, <2>2
  <2>4. PICK j \in 1..Len(q) : q[j] = f
    BY DEF Entries
  <2>5. j \in 1..(k - 1)
    BY <1>1, <1>5, <2>4
  <2> QED BY <1>2, <2>3, <2>4, <2>5
<1> QED BY <1>4, <1>5

\* The entries that a change of a Link property queues journal no creation.
LEMMA LinkIsNoCreation ==
  ASSUME NEW r
  PROVE  \A e \in Entries(LinkTo(r)) \cup Entries(UnlinkFrom(r)) : ~JournalsCreation(e)
<1>1. ASSUME NEW e PROVE Entries(<<e>>) = {e}
  BY DEF Entries
<1>2. Entries(<<>>) = {}
  BY DEF Entries
<1>3. \A e \in Entries(Journal(r, "link")) \cup Entries(Journal(r, "unlink")) :
        ~JournalsCreation(e)
  BY <1>1 DEF Journal, JournalsCreation
<1> QED BY <1>2, <1>3 DEF LinkTo, UnlinkFrom

LEMMA LinksCreateNothing ==
  ASSUME NEW node \in Node, NEW r \in Refs, NEW done
  PROVE  \A e \in Entries(LinkEntries(node, r, done)) : ~JournalsCreation(e)
<1>1. UnlinkFrom(node.ref) \in Seq(Entry) /\ LinkTo(r) \in Seq(Entry)
  BY EntryTypes, BoundsAssumption DEF Node, Acts, Ids
<1>2. Entries(UnlinkFrom(node.ref) \o LinkTo(r))
        = Entries(UnlinkFrom(node.ref)) \cup Entries(LinkTo(r))
  BY <1>1, EntriesOfConcat
<1>3. /\ \A e \in Entries(LinkTo(r)) : ~JournalsCreation(e)
      /\ \A e \in Entries(UnlinkFrom(node.ref)) : ~JournalsCreation(e)
  BY LinkIsNoCreation
<1>4. Entries(<<>>) = {}
  BY DEF Entries
<1> QED BY <1>2, <1>3, <1>4 DEF LinkEntries

\* The same, one stretch of entries at a time.
LEMMA SavedFirstPlain ==
  ASSUME NEW q \in Seq(Entry), NEW s \in Seq(Entry), SavedFirst(q),
         \A e \in Entries(s) : ~JournalsCreation(e)
  PROVE  SavedFirst(q \o s) /\ q \o s \in Seq(Entry)
BY SavedFirstConcat

\* A queue that ends in a save and an entry about the saved id.
LEMMA SavedFirstPair ==
  ASSUME NEW q \in Seq(Entry), SavedFirst(q), NEW i \in Ids, NEW e \in Entry, e.id = i
  PROVE  SavedFirst(q \o Save(i) \o <<e>>)
<1>1. Save(i) \in Seq(Entry) /\ <<e>> \in Seq(Entry)
  BY EntryTypes, ZeroRef DEF Acts
<1>2. \A f \in Entries(Save(i)) : ~JournalsCreation(f)
  BY DEF Save, Entries, JournalsCreation
<1>3. SavedFirst(q \o Save(i)) /\ q \o Save(i) \in Seq(Entry)
  BY <1>1, <1>2, SavedFirstPlain
<1>4. \E f \in Entries(q \o Save(i)) : f.op = "save" /\ f.id = i
  BY <1>1, EntriesOfConcat, EntriesOfSave
<1>5. \A f \in Entries(<<e>>) : f.id = i
  BY DEF Entries
<1> QED BY <1>1, <1>3, <1>4, <1>5, SavedFirstConcat

\* A node saved and then journalled.
LEMMA SavedFirstEdit ==
  ASSUME NEW q \in Seq(Entry), SavedFirst(q), NEW j \in Ids, NEW a \in Acts
  PROVE  /\ SavedFirst(q \o Save(j) \o Journal(j, a))
         /\ SavedFirst(q \o Save(j) \o SetJournal(j, a))
<1>1. ASSUME NEW o \in {"journal", "setjournal"}
      PROVE  [op |-> o, id |-> j, act |-> a] \in Entry
  BY DEF Entry
<1> QED BY <1>1, SavedFirstPair DEF Journal, SetJournal

\* The operations on one node keep the order of the queue.
LEMMA NodeOperationsKeepOrder ==
  ASSUME TypeOK, SavedFirst(queue), NEW i \in Ids
  PROVE  /\ Read(i) \/ Retire(i) \/ Restore(i) \/ Destroy(i) => SavedFirst(queue')
         /\ \A node \in Node : Import(i, node) => SavedFirst(queue')
<1>1. queue \in Seq(Entry)
  BY DEF TypeOK
<1>2. {"create", "set", "retired", "restored"} \subseteq Acts
  BY DEF Acts
<1>3. Read(i) \/ Retire(i) \/ Restore(i) => SavedFirst(queue')
  BY <1>1, <1>2, SavedFirstEdit DEF Read, Retire, Restore
<1>4. ASSUME Destroy(i) PROVE SavedFirst(queue')
  <2>1. /\ WithoutEntriesOf(i) \in Seq(Entry)
        /\ Len(WithoutEntriesOf(i)) = Len(queue) /\ Len(queue) \in Nat
        /\ DestroyNode(i) \in Seq(Entry)
    BY <1>1, <1>2, WithoutEntriesType, EntryTypes, ZeroRef
  <2>2. \A k \in 1..Len(queue) :
          /\ queue[k].id = i => ~JournalsCreation(WithoutEntriesOf(i)[k])
          /\ queue[k].id # i => WithoutEntriesOf(i)[k] = queue[k]
    <3>1. \A k \in 1..Len(queue) : queue[k] \in Entry
      BY <1>1
    <3> QED BY <3>1 DEF WithoutEntriesOf, JournalsCreation, Entry
  <2>3. SavedFirst(WithoutEntriesOf(i))
    <3> SUFFICES ASSUME NEW k \in 1..Len(queue), JournalsCreation(WithoutEntriesOf(i)[k])
                 PROVE  \E j \in 1..(k - 1) :
                          /\ WithoutEntriesOf(i)[j].op = "save"
                          /\ WithoutEntriesOf(i)[j].id = WithoutEntriesOf(i)[k].id
      BY <2>1 DEF SavedFirst
    <3>1. queue[k].id # i /\ WithoutEntriesOf(i)[k] = queue[k]
      BY <2>2
    <3>2. PICK j \in 1..(k - 1) : queue[j].op = "save" /\ queue[j].id = queue[k].id
      BY <3>1 DEF SavedFirst
    <3>3. j \in 1..Len(queue)
      BY <2>1
    <3> QED BY <2>2, <3>1, <3>2, <3>3
  <2>4. \A e \in Entries(DestroyNode(i)) : ~JournalsCreation(e)
    BY DEF DestroyNode, Entries, JournalsCreation
  <2> QED BY <1>4, <2>1, <2>3, <2>4, SavedFirstPlain DEF Destroy
<1>5. ASSUME NEW node \in Node, Import(i, node) PROVE SavedFirst(queue')
  BY <1>1, <1>2, <1>5, SavedFirstEdit DEF Import
<1> QED BY <1>3, <1>4, <1>5

\* So do the operations that are given properties.
LEMMA PropertyOperationsKeepOrder ==
  ASSUME TypeOK, SavedFirst(queue), NEW n \in Names, NEW r \in Refs
  PROVE  /\ CreateOk(n, r) => SavedFirst(queue')
         /\ \A L : CreateRaises(n, r, L) => SavedFirst(queue')
         /\ \A i \in Ids : SetOk(i, n, r) => SavedFirst(queue')
         /\ \A i \in Ids : \A L, done : SetRaises(i, n, r, done, L) => SavedFirst(queue')
<1>1. queue \in Seq(Entry) /\ LinkTo(r) \in Seq(Entry)
  BY EntryTypes, BoundsAssumption DEF TypeOK, Acts, Ids
<1>2. SavedFirst(queue \o LinkTo(r)) /\ queue \o LinkTo(r) \in Seq(Entry)
  BY <1>1, LinkIsNoCreation, SavedFirstPlain
<1>3. \A node \in Node : \A done :
        /\ SavedFirst(queue \o LinkEntries(node, r, done))
        /\ queue \o LinkEntries(node, r, done) \in Seq(Entry)
  BY <1>1, LinkEntriesType, LinksCreateNothing, SavedFirstPlain
<1>4. "create" \in Acts /\ "set" \in Acts
  BY DEF Acts
<1>5. CreateOk(n, r) => SavedFirst(queue')
  BY <1>2, <1>4, SavedFirstEdit DEF CreateOk
<1>6. \A L : CreateRaises(n, r, L) => SavedFirst(queue')
  BY <1>2 DEF CreateRaises
<1>7. ASSUME NEW i \in Ids, SetOk(i, n, r) PROVE SavedFirst(queue')
  <2>1. GetNode(i) \in Node
    BY <1>7, ReadTypes DEF SetOk, Editable
  <2> QED BY <1>3, <1>4, <1>7, <2>1, SavedFirstEdit DEF SetOk
<1>8. ASSUME NEW i \in Ids, NEW L, NEW done, SetRaises(i, n, r, done, L)
      PROVE  SavedFirst(queue')
  <2>1. GetNode(i) \in Node
    BY <1>8, ReadTypes DEF SetRaises, Editable
  <2> QED BY <1>3, <1>8, <2>1 DEF SetRaises
<1> QED BY <1>5, <1>6, <1>7, <1>8

\* JournalInv is inductive.
LEMMA JournalStep == TypeOK /\ TypeOK' /\ CacheInv /\ JournalInv /\ [Next]_vars => JournalInv'
<1> SUFFICES ASSUME TypeOK, TypeOK', CacheInv, JournalInv, [Next]_vars PROVE JournalInv'
  OBVIOUS
\* An operation queues entries; nothing has been executed, and the store stays.
<1>a. ASSUME phase = "open", InSession, SavedFirst(queue') PROVE JournalInv'
  <2>1. at = 0 /\ at' = 0 /\ phase' = "open" /\ UNCHANGED <<disk, journal>>
    BY <1>a DEF JournalInv, InSession
  <2>2. SavesReached'
    BY <2>1 DEF SavesReached
  <2> QED BY <1>a, <2>1, <2>2 DEF JournalInv
<1>b. ASSUME UNCHANGED <<disk, journal, queue>>, at' = at \/ at' = 0,
             phase' # "committing" => at' = 0
      PROVE  JournalInv'
  <2>1. SavesReached'
    BY <1>b DEF JournalInv, SavesReached
  <2> QED BY <1>b, <2>1 DEF JournalInv
<1>0. CASE UNCHANGED vars
  BY <1>0, <1>b DEF vars, JournalInv
<1>1. Open \/ BeginCommit \/ CommitRaises => JournalInv'
  BY <1>b DEF Open, BeginCommit, CommitRaises, txn, JournalInv
<1>2. ASSUME Forget PROVE JournalInv'
  <2>1. SavedFirst(queue') /\ SavesReached'
    BY <1>2 DEF Forget, SavedFirst, SavesReached
  <2> QED BY <1>2, <2>1 DEF Forget, JournalInv
<1>3. SavedFirst(queue)
  BY DEF JournalInv
<1>c. ASSUME NEW i \in Ids
      PROVE  /\ Read(i) \/ Retire(i) \/ Restore(i) \/ Destroy(i) => JournalInv'
             /\ \A node \in Node : Import(i, node) => JournalInv'
  BY <1>a, <1>3, NodeOperationsKeepOrder
     DEF Read, Retire, Restore, Destroy, Import, CanOperate
<1>d. ASSUME NEW n \in Names, NEW r \in Refs
      PROVE  /\ CreateOk(n, r) => JournalInv'
             /\ \A L : CreateRaises(n, r, L) => JournalInv'
             /\ \A i \in Ids : SetOk(i, n, r) => JournalInv'
             /\ \A i \in Ids : \A L, done : SetRaises(i, n, r, done, L) => JournalInv'
  BY <1>a, <1>3, PropertyOperationsKeepOrder
     DEF CreateOk, CreateRaises, SetOk, SetRaises, CanOperate
<1>4. ASSUME NEW op, Execute(op)
      PROVE  /\ UNCHANGED <<cache, queue, phase>> /\ phase = "committing"
             /\ at \in Nat /\ at' = at + 1 /\ at + 1 \in 1..Len(queue)
             /\ queue[at + 1].op = op
             /\ queue[at + 1] \in Entries(queue) /\ queue[at + 1] \in Entry
             /\ queue[at + 1].id \in Ids
  <2>1. at + 1 \in 1..Len(queue) /\ queue \in Seq(Entry) /\ at \in Nat
    BY <1>4 DEF Execute, Upcoming, TypeOK
  <2>2. queue[at + 1] \in Entry
    BY <2>1
  <2> QED BY <1>4, <2>1, <2>2 DEF Execute, Upcoming, txn, Entries, Entry
\* Executing an entry: it is enough to look at the store.
<1>5. ASSUME NEW op, Execute(op), SavesReached' PROVE JournalInv'
  <2>1. UNCHANGED <<queue, phase>> /\ phase = "committing"
    BY <1>4, <1>5
  <2> QED BY <1>5, <2>1 DEF JournalInv
\* An entry that leaves the nodes alone.
<1>6. DoSaveJournal \/ DoSetJournal \/ DoDestroyJournal \/ SkipRemoved => JournalInv'
  <2> SUFFICES ASSUME DoSaveJournal \/ DoSetJournal \/ DoDestroyJournal \/ SkipRemoved
               PROVE  JournalInv'
    OBVIOUS
  <2>1. PICK op : Execute(op) /\ op # "save" /\ disk' = disk
    BY DEF DoSaveJournal, DoSetJournal, DoDestroyJournal, SkipRemoved, store
  <2>2. queue' = queue /\ at' = at + 1 /\ at \in Nat /\ queue[at + 1].op # "save"
    BY <1>4, <2>1
  <2>3. \A j \in 1..at' : j \in 1..at \/ j = at + 1
    BY <2>2
  <2>4. SavesReached'
    BY <2>1, <2>2, <2>3 DEF JournalInv, SavesReached
  <2> QED BY <1>5, <2>1, <2>4
\* The entries executed so far.
<1>7. \A j \in 1..at : queue[j].id \in Ids /\ queue[j] \in Entries(queue)
  <2>1. \A j \in 1..at : j \in 1..Len(queue) /\ queue[j] \in Entry
    BY DEF TypeOK
  <2> QED BY <2>1 DEF Entry, Entries
<1>8. ASSUME DoSaveNode PROVE JournalInv'
  <2> DEFINE i == queue[at + 1].id
  <2>1. Execute("save") /\ disk' = [disk EXCEPT ![i] = cache[i]]
    BY <1>8 DEF DoSaveNode
  <2>2. cache[i] # NoNode /\ i \in Ids /\ queue' = queue /\ at \in Nat /\ at' = at + 1
    BY <1>4, <2>1 DEF CacheInv
  <2>3. \A x \in Ids : disk[x] # NoNode \/ x = i => disk'[x] # NoNode
    BY <2>1, <2>2 DEF TypeOK
  <2>4. \A j \in 1..at' : j \in 1..at \/ j = at + 1
    BY <2>2
  <2>5. SavesReached'
    BY <1>7, <2>2, <2>3, <2>4 DEF JournalInv, SavesReached
  <2> QED BY <1>5, <2>1, <2>5
<1>9. ASSUME DoDestroyNode PROVE JournalInv'
  <2> DEFINE i == queue[at + 1].id
  <2>1. disk' = [disk EXCEPT ![i] = NoNode] /\ UNCHANGED <<queue, phase, at>>
    BY <1>9 DEF DoDestroyNode, txn
  <2>2. i \in destroyed /\ cache[i] = NoNode /\ i \in Ids
    BY <1>9, DestroyFacts DEF DoDestroyNode
  <2>3. \A x \in Ids : x # i => disk'[x] = disk[x]
    BY <2>1, <2>2 DEF TypeOK
  <2>4. \A j \in 1..at : queue[j].op = "save" => queue[j].id # i
    BY <1>7, <2>2 DEF CacheInv
  <2>5. SavesReached'
    BY <1>7, <2>1, <2>3, <2>4 DEF JournalInv, SavesReached
  <2> QED BY <2>1, <2>5 DEF JournalInv
<1>13. CASE Next
  <2>1. Close \/ Rollback \/ EndCommit \/ Crash => JournalInv'
    BY <1>2 DEF Close, Rollback, EndCommit, Crash
  <2>2. Vetoed => JournalInv'
    BY <1>a DEF Vetoed, txn, CanOperate, JournalInv
  <2> QED BY <1>13, <2>1, <2>2, <1>1, <1>c, <1>d, <1>6, <1>8, <1>9, NextCases
<1> QED BY <1>0, <1>13

\* A journal that the running commit has brought up to a creation has its node: the save
\* of the same id came earlier in the queue.
LEMMA CreationsAreSaved ==
  ASSUME TypeOK, JournalInv, NEW op, Upcoming(op), JournalsCreation(queue[at + 1])
  PROVE  disk[queue[at + 1].id] # NoNode
<1>1. at + 1 \in 1..Len(queue) /\ at \in Nat
  BY UpcomingFacts
<1>2. PICK j \in 1..((at + 1) - 1) : queue[j].op = "save" /\ queue[j].id = queue[at + 1].id
  BY <1>1 DEF JournalInv, SavedFirst
<1>3. j \in 1..at
  BY <1>1
<1> QED BY <1>2, <1>3 DEF JournalInv, SavesReached

\* No other step than the deletion of the node leaves a journal ahead of it.
LEMMA AheadStep ==
  ASSUME TypeOK, CacheInv, JournalInv, [Next]_vars,
         NEW i \in Ids, ~Orphaned(i), Orphaned(i)'
  PROVE  Upcoming("destroy") /\ queue[at + 1].id = i
<1> DEFINE Goal == Upcoming("destroy") /\ queue[at + 1].id = i
<1>1. disk'[i] = NoNode /\ \E k \in 1..Len(journal'[i]) : journal'[i][k] = "create"
  BY DEF Orphaned
<1>2. disk[i] # NoNode \/ \A k \in 1..Len(journal[i]) : journal[i][k] # "create"
  BY DEF Orphaned
<1>3. UNCHANGED store => Goal
  BY <1>1, <1>2 DEF store
<1>4. ASSUME DoSaveNode PROVE Goal
  <2> DEFINE x == queue[at + 1].id
  <2>1. Upcoming("save") /\ disk' = [disk EXCEPT ![x] = cache[x]] /\ journal' = journal
    BY <1>4 DEF DoSaveNode, Execute
  <2>2. queue[at + 1] \in Entries(queue) /\ queue[at + 1].op = "save"
    BY <2>1, UpcomingFacts DEF Entries
  <2>3. cache[x] # NoNode
    BY <2>2 DEF CacheInv
  <2> QED BY <1>1, <1>2, <2>1, <2>3 DEF TypeOK
<1>5. ASSUME DoSaveJournal PROVE Goal
  <2> DEFINE e == queue[at + 1]
  <2>1. /\ Upcoming("journal") /\ disk' = disk
        /\ journal' = [journal EXCEPT ![e.id] = Append(journal[e.id], e.act)]
    BY <1>5 DEF DoSaveJournal, Execute
  <2>2. e.id \in Ids /\ e.op = "journal" /\ e.act \in Acts /\ journal[e.id] \in Seq(Acts)
    BY <2>1, UpcomingFacts DEF TypeOK
  <2>3. i = e.id
    BY <1>1, <1>2, <2>1, <2>2 DEF TypeOK
  <2>4. journal'[i] = Append(journal[i], e.act) /\ journal[i] \in Seq(Acts)
    BY <2>1, <2>2, <2>3 DEF TypeOK
  <2>5. PICK k \in 1..Len(journal'[i]) : journal'[i][k] = "create"
    BY <1>1
  <2>6. \/ Append(journal[i], e.act)[k] = e.act
        \/ k \in 1..Len(journal[i]) /\ Append(journal[i], e.act)[k] = journal[i][k]
    BY <2>2, <2>4, <2>5
  <2>7. e.act = "create"
    BY <1>1, <1>2, <2>1, <2>4, <2>5, <2>6
  <2>8. disk[e.id] # NoNode
    BY <2>1, <2>2, <2>7, CreationsAreSaved DEF JournalsCreation
  <2> QED BY <1>1, <2>1, <2>3, <2>8
<1>6. ASSUME DoSetJournal PROVE Goal
  <2> DEFINE e == queue[at + 1]
  <2>1. Upcoming("setjournal") /\ disk' = disk
    BY <1>6 DEF DoSetJournal, Execute
  <2>2. e.id \in Ids /\ e.op = "setjournal"
    BY <2>1, UpcomingFacts
  <2>3. i # e.id => journal'[i] = journal[i]
    BY <1>6, <2>2 DEF DoSetJournal, TypeOK
  <2>4. disk[e.id] # NoNode
    BY <2>1, <2>2, CreationsAreSaved DEF JournalsCreation
  <2> QED BY <1>1, <1>2, <2>1, <2>3, <2>4
<1>7. ASSUME DoDestroyNode PROVE Goal
  <2>1. Upcoming("destroy") /\ disk' = [disk EXCEPT ![queue[at + 1].id] = NoNode]
        /\ journal' = journal
    BY <1>7 DEF DoDestroyNode
  <2> QED BY <1>1, <1>2, <2>1 DEF TypeOK
<1>8. ASSUME DoDestroyJournal PROVE Goal
  <2> DEFINE x == queue[at + 1].id
  <2>1. Upcoming("destroy") /\ disk' = disk /\ journal' = [journal EXCEPT ![x] = <<>>]
    BY <1>8 DEF DoDestroyJournal, Execute
  <2>2. i # x
    <3>1. Len(<<>>) = 0
      OBVIOUS
    <3> QED BY <1>1, <2>1, <3>1 DEF TypeOK
  <2> QED BY <1>1, <1>2, <2>1, <2>2 DEF TypeOK
<1>9. CASE UNCHANGED vars
  BY <1>3, <1>9 DEF vars, store
<1>10. CASE Next
  <2> HIDE DEF Goal
  <2>1. \A j \in Ids : Read(j) \/ Retire(j) \/ Restore(j) \/ Destroy(j) => Goal
    BY <1>3 DEF Read, Retire, Restore, Destroy, InSession, store
  <2>2. \A n \in Names, r \in Refs :
          /\ CreateOk(n, r) => Goal
          /\ \A j \in Ids : SetOk(j, n, r) => Goal
          /\ \A L \in SUBSET Ids : CreateRaises(n, r, L) => Goal
          /\ \A L \in SUBSET Ids, j \in Ids, done \in SUBSET {"name", "ref"} :
               SetRaises(j, n, r, done, L) => Goal
    BY <1>3 DEF CreateOk, SetOk, CreateRaises, SetRaises, InSession, store
  <2>3. \A j \in Ids, node \in Node : Import(j, node) => Goal
    BY <1>3 DEF Import, InSession, store
  <2>4. Open \/ Close \/ Rollback \/ Vetoed \/ BeginCommit \/ EndCommit \/ CommitRaises \/ Crash
          => Goal
    BY <1>3 DEF Open, Close, Rollback, Vetoed, BeginCommit, EndCommit, CommitRaises, Crash,
                Forget, InSession, store
  <2>5. SkipRemoved => Goal
    BY <1>3 DEF SkipRemoved
  <2>6. Goal
    BY <1>10, <2>1, <2>2, <2>3, <2>4, <2>5, <1>4, <1>5, <1>6, <1>7, <1>8, NextCases
  <2> QED BY <2>6 DEF Goal
<1> QED BY <1>9, <1>10

\* Inside a commit, after one that raised and after a crash in the middle of one,
\* the journals record a creation without a node in the store only for a node whose
\* destruction stopped between its halves: whatever is imported or destroyed, for any
\* number of nodes and any length of the queue.
THEOREM JournalsFollowTheStore == Spec => JournalAheadOnlyInDestruction
<1>1. Init => JournalInv
  <2> SUFFICES ASSUME Init PROVE JournalInv
    OBVIOUS
  <2>1. Len(<<>>) = 0
    OBVIOUS
  <2>2. SavedFirst(queue) /\ SavesReached /\ at = 0
    BY <2>1 DEF Init, SavedFirst, SavesReached
  <2> QED BY <2>2 DEF JournalInv
<1>2. TypeOK /\ CacheInv /\ JournalInv /\ [Next]_vars
        => [\A i \in Ids : ~Orphaned(i) /\ Orphaned(i)' =>
              Upcoming("destroy") /\ queue[at + 1].id = i]_vars
  BY AheadStep
<1> QED BY <1>1, <1>2, JournalStep, TypeCorrect, CacheConsistent, PTL
        DEF Spec, JournalAheadOnlyInDestruction

-----------------------------------------------------------------------------
(* Journals match nodes.                                                   *)
(*                                                                         *)
(* Saves come from the cache and journal entries from the queue, so the    *)
(* argument is about what the journals will say when the commit is over:   *)
(* JournalsWillMatch holds of the stored journal of a node together with   *)
(* the entries still to be appended to it, in their order, and of the node *)
(* that the transaction sees.                                              *)

\* The positions of the entries that position a of the commit leaves for node i.
Queued(q, a, i) == {k \in (a + 1)..Len(q) : q[k].op = "journal" /\ q[k].id = i}

BeginsWell(j, q, a, i) ==
  \/ j # <<>> /\ j[1] = "create"
  \/ j = <<>> /\ \E k \in Queued(q, a, i) : /\ q[k].act = "create"
                                            /\ \A m \in Queued(q, a, i) : k <= m

EndsRetired(j, q, a, i) ==
  \/ \E k \in Queued(q, a, i) :
       /\ q[k].act = "retired"
       /\ \A m \in Queued(q, a, i) : m > k => q[m].act # "restored"
  \/ LastRetired(j) /\ \A m \in Queued(q, a, i) : q[m].act # "restored"

HasNoCreation(j, q, a, i) ==
  /\ \A k \in Queued(q, a, i) : q[k].act # "create"
  /\ \/ \A k \in 1..Len(j) : j[k] # "create"
     \/ \E k \in (a + 1)..Len(q) : q[k].op = "destroy" /\ q[k].id = i

JournalWillMatch(node, j, q, a, i) ==
  IF node = NoNode THEN HasNoCreation(j, q, a, i)
  ELSE /\ BeginsWell(j, q, a, i)
       /\ node.retired <=> EndsRetired(j, q, a, i)

\* The entries of a queue are about ids up to c, and none is of an import.
KnownQueue(q, c) ==
  \A e \in Entries(q) : e.op # "setjournal" /\ (e.op = "journal" => e.id <= c)

\* Nothing is known of an id that has not been handed out.
IdsKnown ==
  /\ \A i \in Ids : disk[i] # NoNode => i <= counter /\ disk[i].ref <= counter
  /\ \A i \in Ids : i > counter => journal[i] = <<>>

EditsKnown ==
  /\ \A i \in Ids : cache[i] # NoNode => i <= counter /\ cache[i].ref <= counter
  /\ KnownQueue(queue, counter)

JournalsWillMatch ==
  \A i \in Ids : JournalWillMatch(GetNode(i), journal[i], queue, at, i)

StoreMatches ==
  \A i \in Ids :
    IF disk[i] = NoNode
    THEN \A k \in 1..Len(journal[i]) : journal[i][k] # "create"
    ELSE /\ journal[i] # <<>> /\ journal[i][1] = "create"
         /\ disk[i].retired <=> LastRetired(journal[i])

MatchInv ==
  /\ IdsKnown
  /\ ~failed => EditsKnown /\ JournalsWillMatch
  /\ phase # "committing" => StoreMatches

\* Entries added at the end of the queue come after all that were there.
LEMMA QueuedConcat ==
  ASSUME NEW q \in Seq(Entry), NEW s \in Seq(Entry), NEW a \in 0..Len(q), NEW i
  PROVE  /\ \A k \in 1..Len(q) : (q \o s)[k] = q[k] /\ k \in 1..Len(q \o s)
         /\ Queued(q, a, i) \subseteq Queued(q \o s, a, i)
         /\ \A k \in Queued(q \o s, a, i) \ Queued(q, a, i) :
              k > Len(q) /\ k \in Nat /\ (q \o s)[k] \in Entries(s)
         /\ Queued(q, a, i) \subseteq 1..Len(q)
<1>1. Len(q) \in Nat /\ Len(s) \in Nat /\ Len(q \o s) = Len(q) + Len(s)
  OBVIOUS
<1>2. \A k \in 1..Len(q) : (q \o s)[k] = q[k] /\ k \in 1..Len(q \o s)
  BY <1>1
<1>3. \A k \in (a + 1)..Len(q) : k \in 1..Len(q)
  BY <1>1
<1>4. Queued(q, a, i) \subseteq Queued(q \o s, a, i)
  BY <1>1, <1>2, <1>3 DEF Queued
<1>5. ASSUME NEW k \in Queued(q \o s, a, i), k \notin Queued(q, a, i)
      PROVE  k > Len(q) /\ k \in Nat /\ (q \o s)[k] \in Entries(s)
  <2>1. k \in (a + 1)..Len(q \o s) /\ k \in Nat
    BY <1>1 DEF Queued
  <2>2. k > Len(q)
    <3>1. k \in (a + 1)..Len(q) => k \in Queued(q, a, i)
      BY <1>2, <1>3, <1>5 DEF Queued
    <3> QED BY <1>1, <1>5, <2>1, <3>1
  <2>3. k - Len(q) \in 1..Len(s) /\ (q \o s)[k] = s[k - Len(q)]
    BY <1>1, <2>1, <2>2
  <2> QED BY <2>1, <2>2, <2>3 DEF Entries
<1> QED BY <1>2, <1>3, <1>4, <1>5 DEF Queued

Marks == {"create", "retired", "restored"}

\* Entries that mark nothing in the life of node i leave what its journal will say.
LEMMA PlainAppend ==
  ASSUME NEW q \in Seq(Entry), NEW s \in Seq(Entry), NEW a \in 0..Len(q), NEW i,
         \A e \in Entries(s) : e.op = "journal" /\ e.id = i => e.act \notin Marks
  PROVE  /\ \A node, j : JournalWillMatch(node, j, q, a, i)
                            => JournalWillMatch(node, j, q \o s, a, i)
         /\ \A j : BeginsWell(j, q, a, i) => BeginsWell(j, q \o s, a, i)
<1> DEFINE p == q \o s
<1>1. /\ \A k \in 1..Len(q) : p[k] = q[k] /\ k \in 1..Len(p)
      /\ Queued(q, a, i) \subseteq Queued(p, a, i)
      /\ \A k \in Queued(p, a, i) \ Queued(q, a, i) : k > Len(q) /\ k \in Nat /\ p[k] \in Entries(s)
      /\ Queued(q, a, i) \subseteq 1..Len(q)
  BY QueuedConcat
<1>0. Len(q) \in Nat /\ p \in Seq(Entry) /\ Len(p) \in Nat
  OBVIOUS
<1>2. \A k \in Queued(p, a, i) \ Queued(q, a, i) : p[k].act \notin Marks
  <2>1. \A k \in Queued(p, a, i) : p[k].op = "journal" /\ p[k].id = i
    BY DEF Queued
  <2> QED BY <1>1, <2>1
<1>3. \A k \in Queued(q, a, i) : p[k] = q[k] /\ k \in Nat
  BY <1>0, <1>1
<1>4. \A k \in Queued(q, a, i), m \in Queued(p, a, i) \ Queued(q, a, i) : k <= m
  BY <1>0, <1>1
<1> HIDE DEF p
<1>5. ASSUME NEW j
      PROVE  BeginsWell(j, q, a, i) => BeginsWell(j, p, a, i)
  BY <1>1, <1>3, <1>4 DEF BeginsWell
<1>6. ASSUME NEW j
      PROVE  EndsRetired(j, q, a, i) <=> EndsRetired(j, p, a, i)
  <2>1. \A k \in Queued(p, a, i) : p[k].act = "retired" \/ p[k].act = "restored" =>
          k \in Queued(q, a, i) /\ p[k] = q[k]
    BY <1>2, <1>3 DEF Marks
  <2> QED BY <1>1, <1>3, <2>1 DEF EndsRetired
<1>7. ASSUME NEW j, HasNoCreation(j, q, a, i)
      PROVE  HasNoCreation(j, p, a, i)
  <2>1. \A k \in Queued(p, a, i) : p[k].act # "create"
    BY <1>2, <1>3, <1>7 DEF HasNoCreation, Marks
  <2>2. \A k \in (a + 1)..Len(q) : p[k] = q[k] /\ k \in (a + 1)..Len(p)
    BY <1>0, <1>1
  <2> QED BY <1>7, <2>1, <2>2 DEF HasNoCreation
<1> QED BY <1>5, <1>6, <1>7 DEF JournalWillMatch, p

\* A mark at the end decides whether the node will be retired.
LEMMA MarkAppend ==
  ASSUME NEW q \in Seq(Entry), NEW a \in 0..Len(q), NEW i, NEW e \in Entry,
         e.op = "journal", e.id = i, NEW j
  PROVE  /\ BeginsWell(j, q, a, i) => BeginsWell(j, q \o <<e>>, a, i)
         /\ e.act = "retired" => EndsRetired(j, q \o <<e>>, a, i)
         /\ e.act = "restored" => ~EndsRetired(j, q \o <<e>>, a, i)
         /\ e.act = "create" /\ j = <<>> /\ Queued(q, a, i) = {} =>
              BeginsWell(j, q \o <<e>>, a, i) /\ ~EndsRetired(j, q \o <<e>>, a, i)
<1> DEFINE p == q \o <<e>>
<1>1. <<e>> \in Seq(Entry) /\ Entries(<<e>>) = {e}
  BY DEF Entries
<1>2. /\ \A k \in 1..Len(q) : p[k] = q[k] /\ k \in 1..Len(p)
      /\ Queued(q, a, i) \subseteq Queued(p, a, i)
      /\ \A k \in Queued(p, a, i) \ Queued(q, a, i) : k > Len(q) /\ k \in Nat /\ p[k] \in Entries(<<e>>)
      /\ Queued(q, a, i) \subseteq 1..Len(q)
  BY <1>1, QueuedConcat
<1>3. Len(q) \in Nat /\ p \in Seq(Entry) /\ Len(p) = Len(q) + 1 /\ p[Len(q) + 1] = e
  BY <1>1
<1>4. Len(q) + 1 \in Queued(p, a, i)
  BY <1>3 DEF Queued
<1>5. \A k \in Queued(p, a, i) : k \in Nat /\ k <= Len(q) + 1
  BY <1>3 DEF Queued
<1>6. \A k \in Queued(p, a, i) : (k \in Queued(q, a, i) /\ p[k] = q[k]) \/ k = Len(q) + 1
  BY <1>2, <1>3, <1>5
<1>7. \A k \in Queued(q, a, i) : p[k] = q[k] /\ k <= Len(q) + 1
  BY <1>2, <1>3
<1> HIDE DEF p
<1>8. BeginsWell(j, q, a, i) => BeginsWell(j, p, a, i)
  BY <1>2, <1>6, <1>7 DEF BeginsWell
<1>9. e.act = "retired" => EndsRetired(j, p, a, i)
  BY <1>3, <1>4, <1>5 DEF EndsRetired
<1>10. e.act = "restored" => ~EndsRetired(j, p, a, i)
  <2>1. \A k \in Queued(p, a, i) : k < Len(q) + 1 \/ p[k] = e
    BY <1>3, <1>5
  <2> QED BY <1>3, <1>4, <1>5, <2>1 DEF EndsRetired
<1>11. ASSUME e.act = "create", j = <<>>, Queued(q, a, i) = {}
       PROVE  BeginsWell(j, p, a, i) /\ ~EndsRetired(j, p, a, i)
  <2>1. \A k \in Queued(p, a, i) : k = Len(q) + 1 /\ p[k] = e
    BY <1>3, <1>6, <1>11
  <2>2. ~LastRetired(j)
    <3>1. Len(<<>>) = 0
      OBVIOUS
    <3> QED BY <1>11, <3>1 DEF LastRetired
  <2> QED BY <1>3, <1>4, <1>11, <2>1, <2>2 DEF BeginsWell, EndsRetired
<1> QED BY <1>8, <1>9, <1>10, <1>11 DEF p

\* Executing an entry that is neither a journal entry nor the destruction of node i.
LEMMA ExecuteOther ==
  ASSUME NEW q \in Seq(Entry), NEW a \in Nat, a + 1 \in 1..Len(q), NEW i,
         q[a + 1].id = i => q[a + 1].op \notin {"journal", "destroy"}
  PROVE  \A node, j : JournalWillMatch(node, j, q, a, i) => JournalWillMatch(node, j, q, a + 1, i)
<1>1. Len(q) \in Nat
  OBVIOUS
<1>2. \A k : k \in (a + 1)..Len(q) => k \in ((a + 1) + 1)..Len(q) \/ k = a + 1
  BY <1>1
<1>3. \A k : k \in ((a + 1) + 1)..Len(q) => k \in (a + 1)..Len(q)
  BY <1>1
<1>4. Queued(q, a, i) = Queued(q, a + 1, i)
  BY <1>2, <1>3 DEF Queued
<1> QED BY <1>2, <1>4 DEF JournalWillMatch, BeginsWell, EndsRetired, HasNoCreation

\* A journal with one more entry.
LEMMA LastRetiredAppend ==
  ASSUME NEW j \in Seq(Acts), NEW b \in Acts
  PROVE  LastRetired(Append(j, b)) <=> b = "retired" \/ (b # "restored" /\ LastRetired(j))
<1> DEFINE l == Append(j, b)
<1>1. Len(j) \in Nat /\ Len(l) = Len(j) + 1 /\ l[Len(j) + 1] = b
      /\ \A k \in 1..Len(j) : l[k] = j[k]
  OBVIOUS
<1> HIDE DEF l
<1>2. CASE b = "retired"
  <2>1. Len(j) + 1 \in 1..Len(l) /\ ((Len(j) + 1) + 1)..Len(l) = {}
    BY <1>1
  <2> QED BY <1>1, <1>2, <2>1 DEF LastRetired, l
<1>3. CASE b = "restored"
  <2>1. \A k \in 1..Len(l) : k = Len(j) + 1 \/ Len(j) + 1 \in (k + 1)..Len(l)
    BY <1>1
  <2> QED BY <1>1, <1>3, <2>1 DEF LastRetired, l
<1>4. CASE b \notin {"retired", "restored"}
  <2>1. LastRetired(j) => LastRetired(l)
    <3> SUFFICES ASSUME LastRetired(j) PROVE LastRetired(l)
      OBVIOUS
    <3>1. PICK k \in 1..Len(j) : j[k] = "retired" /\ \A m \in (k + 1)..Len(j) : j[m] # "restored"
      BY DEF LastRetired
    <3>2. \A m \in (k + 1)..Len(l) : (m \in (k + 1)..Len(j) /\ m \in 1..Len(j)) \/ m = Len(j) + 1
      BY <1>1
    <3>3. k \in 1..Len(l)
      BY <1>1
    <3> QED BY <1>1, <1>4, <3>1, <3>2, <3>3 DEF LastRetired
  <2>2. LastRetired(l) => LastRetired(j)
    <3> SUFFICES ASSUME LastRetired(l) PROVE LastRetired(j)
      OBVIOUS
    <3>1. PICK k \in 1..Len(l) : l[k] = "retired" /\ \A m \in (k + 1)..Len(l) : l[m] # "restored"
      BY DEF LastRetired
    <3>2. k \in 1..Len(j)
      BY <1>1, <1>4, <3>1
    <3>3. \A m \in (k + 1)..Len(j) : m \in (k + 1)..Len(l) /\ m \in 1..Len(j)
      BY <1>1, <3>2
    <3> QED BY <1>1, <3>1, <3>2, <3>3 DEF LastRetired
  <2> QED BY <1>4, <2>1, <2>2 DEF l
<1> QED BY <1>2, <1>3, <1>4

\* Executing a journal entry of node i.
LEMMA ExecuteJournal ==
  ASSUME NEW q \in Seq(Entry), NEW a \in Nat, a + 1 \in 1..Len(q), NEW i,
         q[a + 1].op = "journal", q[a + 1].id = i, NEW j \in Seq(Acts), NEW node,
         JournalWillMatch(node, j, q, a, i)
  PROVE  JournalWillMatch(node, Append(j, q[a + 1].act), q, a + 1, i)
<1> DEFINE b == q[a + 1].act
           l == Append(j, b)
<1>1. Len(q) \in Nat /\ q[a + 1] \in Entry
  OBVIOUS
<1>2. b \in Acts
  BY <1>1 DEF Entry
<1>3. \A k : k \in (a + 1)..Len(q) <=> k \in ((a + 1) + 1)..Len(q) \/ k = a + 1
  BY <1>1
<1>4. Queued(q, a, i) = Queued(q, a + 1, i) \cup {a + 1}
  BY <1>3 DEF Queued
<1>5. \A k \in Queued(q, a + 1, i) : k \in Nat /\ k > a + 1
  BY <1>1 DEF Queued
<1>6. Len(l) = Len(j) + 1 /\ Len(j) \in Nat /\ l # <<>>
      /\ (j = <<>> => l[1] = b) /\ (j # <<>> => l[1] = j[1])
      /\ (\A k \in 1..Len(l) : l[k] = b \/ (k \in 1..Len(j) /\ l[k] = j[k]))
  <2>1. Len(l) = Len(j) + 1 /\ Len(j) \in Nat /\ l \in Seq(Acts)
    BY <1>2
  <2>2. l # <<>>
    BY <2>1
  <2>3. (j = <<>> => l[1] = b) /\ (j # <<>> => l[1] = j[1])
    BY <1>2, <2>1
  <2>4. \A k \in 1..Len(l) : l[k] = b \/ (k \in 1..Len(j) /\ l[k] = j[k])
    BY <1>2, <2>1
  <2> QED BY <2>1, <2>2, <2>3, <2>4
<1>7. LastRetired(l) <=> b = "retired" \/ (b # "restored" /\ LastRetired(j))
  BY <1>2, LastRetiredAppend
<1> HIDE DEF l
<1>8. BeginsWell(j, q, a, i) => BeginsWell(l, q, a + 1, i)
  <2>1. ASSUME NEW k \in Queued(q, a, i), \A m \in Queued(q, a, i) : k <= m PROVE k = a + 1
    <3>1. k <= a + 1
      BY <1>4, <2>1
    <3> QED BY <1>4, <1>5, <3>1
  <2> QED BY <1>6, <2>1 DEF BeginsWell
<1>9. EndsRetired(j, q, a, i) <=> EndsRetired(l, q, a + 1, i)
  <2> DEFINE Q == Queued(q, a + 1, i)
             Some == \E k \in Q : q[k].act = "retired" /\ \A m \in Q : m > k => q[m].act # "restored"
             None == \A m \in Q : q[m].act # "restored"
  <2>1. EndsRetired(l, q, a + 1, i) <=> Some \/ (LastRetired(l) /\ None)
    BY DEF EndsRetired
  <2>2. (\E k \in Queued(q, a, i) :
           q[k].act = "retired" /\ \A m \in Queued(q, a, i) : m > k => q[m].act # "restored")
        <=> Some \/ (b = "retired" /\ None)
    <3>1. \A k \in Q, m \in Queued(q, a, i) : m > k => m \in Q
      BY <1>4, <1>5
    <3>2. \A m \in Q : m > a + 1
      BY <1>5
    <3>3. \A m \in Queued(q, a, i) : m > a + 1 => m \in Q
      BY <1>4
    <3> QED BY <1>4, <3>1, <3>2, <3>3
  <2>3. (\A m \in Queued(q, a, i) : q[m].act # "restored") <=> None /\ b # "restored"
    BY <1>4
  <2>4. EndsRetired(j, q, a, i) <=>
          \/ Some \/ (b = "retired" /\ None)
          \/ LastRetired(j) /\ None /\ b # "restored"
    BY <2>2, <2>3 DEF EndsRetired
  <2> QED BY <1>7, <2>1, <2>4
<1>10. HasNoCreation(j, q, a, i) => HasNoCreation(l, q, a + 1, i)
  <2> SUFFICES ASSUME HasNoCreation(j, q, a, i) PROVE HasNoCreation(l, q, a + 1, i)
    OBVIOUS
  <2>1. b # "create" /\ \A k \in Queued(q, a + 1, i) : q[k].act # "create"
    BY <1>4 DEF HasNoCreation
  <2>2. CASE \A k \in 1..Len(j) : j[k] # "create"
    BY <1>6, <2>1, <2>2 DEF HasNoCreation
  <2>3. CASE \E k \in (a + 1)..Len(q) : q[k].op = "destroy" /\ q[k].id = i
    BY <1>3, <2>1, <2>3 DEF HasNoCreation
  <2> QED BY <2>2, <2>3 DEF HasNoCreation
<1> QED BY <1>8, <1>9, <1>10 DEF JournalWillMatch, l

-----------------------------------------------------------------------------
(* What operations queue, one stretch of entries at a time. *)

Harmless(s, c) ==
  \A e \in Entries(s) :
    e.op # "setjournal" /\ (e.op = "journal" => e.id <= c /\ e.act \notin Marks)

LEMMA HarmlessAppend ==
  ASSUME NEW q \in Seq(Entry), NEW s \in Seq(Entry), NEW a \in 0..Len(q), NEW c,
         KnownQueue(q, c), Harmless(s, c)
  PROVE  /\ q \o s \in Seq(Entry) /\ a \in 0..Len(q \o s)
         /\ KnownQueue(q \o s, c)
         /\ \A node, j, i : JournalWillMatch(node, j, q, a, i)
                              => JournalWillMatch(node, j, q \o s, a, i)
<1>1. q \o s \in Seq(Entry) /\ Len(q \o s) = Len(q) + Len(s) /\ Len(q) \in Nat /\ Len(s) \in Nat
  OBVIOUS
<1>2. a \in 0..Len(q \o s)
  BY <1>1
<1>3. KnownQueue(q \o s, c)
  BY EntriesOfConcat DEF KnownQueue, Harmless
<1>4. ASSUME NEW i
      PROVE  \A node, j : JournalWillMatch(node, j, q, a, i)
                            => JournalWillMatch(node, j, q \o s, a, i)
  BY PlainAppend DEF Harmless
<1> QED BY <1>1, <1>2, <1>3, <1>4

LEMMA HarmlessSave ==
  ASSUME NEW i \in Ids, NEW c
  PROVE  Harmless(Save(i), c) /\ Save(i) \in Seq(Entry)
<1>1. Save(i) \in Seq(Entry)
  BY EntryTypes, ZeroRef DEF Acts
<1> QED BY <1>1, EntriesOfSave DEF Harmless

LEMMA HarmlessJournal ==
  ASSUME NEW i \in Ids, NEW c \in Nat, i <= c, NEW a \in Acts \ Marks
  PROVE  Harmless(Journal(i, a), c) /\ Journal(i, a) \in Seq(Entry)
<1>1. Journal(i, a) \in Seq(Entry)
  BY EntryTypes, ZeroRef
<1> QED BY <1>1 DEF Harmless, Journal, Entries

LEMMA HarmlessLink ==
  ASSUME NEW r \in Refs, NEW c \in Nat, r <= c
  PROVE  /\ Harmless(LinkTo(r), c) /\ LinkTo(r) \in Seq(Entry)
         /\ Harmless(UnlinkFrom(r), c) /\ UnlinkFrom(r) \in Seq(Entry)
<1>1. LinkTo(r) \in Seq(Entry) /\ UnlinkFrom(r) \in Seq(Entry)
  BY EntryTypes, BoundsAssumption DEF Acts, Ids
<1>2. Harmless(<<>>, c)
  BY DEF Harmless, Entries
<1>3. r # 0 => r \in Ids
  BY DEF Refs, Ids
<1>4. "link" \in Acts \ Marks /\ "unlink" \in Acts \ Marks
  BY DEF Acts, Marks
<1>5. r # 0 => Harmless(Journal(r, "link"), c) /\ Harmless(Journal(r, "unlink"), c)
  BY <1>3, <1>4, HarmlessJournal
<1> QED BY <1>1, <1>2, <1>5 DEF LinkTo, UnlinkFrom

LEMMA HarmlessLinks ==
  ASSUME NEW node \in Node, NEW r \in Refs, NEW done, NEW c \in Nat, node.ref <= c,
         "ref" \in done => r <= c
  PROVE  /\ Harmless(LinkEntries(node, r, done), c)
         /\ LinkEntries(node, r, done) \in Seq(Entry)
<1>1. LinkEntries(node, r, done) \in Seq(Entry)
  BY LinkEntriesType
<1>2. CASE "ref" \in done
  <2>1. node.ref \in Refs
    BY DEF Node
  <2>2. /\ Harmless(UnlinkFrom(node.ref), c) /\ UnlinkFrom(node.ref) \in Seq(Entry)
        /\ Harmless(LinkTo(r), c) /\ LinkTo(r) \in Seq(Entry)
    BY <1>2, <2>1, HarmlessLink
  <2>3. Entries(UnlinkFrom(node.ref) \o LinkTo(r))
          = Entries(UnlinkFrom(node.ref)) \cup Entries(LinkTo(r))
    BY <2>2, EntriesOfConcat
  <2> QED BY <1>1, <1>2, <2>2, <2>3 DEF LinkEntries, Harmless
<1>3. CASE "ref" \notin done
  BY <1>1, <1>3 DEF LinkEntries, Harmless, Entries
<1> QED BY <1>2, <1>3

\* What an operation can name has been handed out.
LEMMA ReadKnown ==
  ASSUME TypeOK, IdsKnown, EditsKnown
  PROVE  /\ \A i \in Ids : GetNode(i) # NoNode => i <= counter /\ GetNode(i).ref <= counter
         /\ \A i \in Ids : HasNode(i) => i <= counter
         /\ \A r \in Refs : RefOk(r) => r <= counter
<1>1. \A i \in Ids : GetNode(i) # NoNode => i <= counter /\ GetNode(i).ref <= counter
  BY DEF GetNode, IdsKnown, EditsKnown
<1>2. \A i \in Ids : HasNode(i) => i <= counter
  BY DEF HasNode, IdsKnown, EditsKnown
<1>3. ASSUME NEW r \in Refs, RefOk(r) PROVE r <= counter
  <2>1. r = 0 \/ r \in Ids
    BY DEF Refs, Ids
  <2>2. counter \in Nat
    BY DEF TypeOK
  <2> QED BY <1>2, <1>3, <2>1, <2>2 DEF RefOk
<1> QED BY <1>1, <1>2, <1>3

\* An edit of node i needs to be looked at there only.
LEMMA EditMatches ==
  ASSUME TypeOK, TypeOK', CacheInv, IdsKnown, EditsKnown, NEW i \in Ids, NEW node \in Node,
         Edits(i, node), InSession, counter' >= counter,
         i <= counter', node.ref <= counter', KnownQueue(queue', counter'),
         JournalWillMatch(node, journal[i], queue', at, i),
         \A j \in Ids \ {i} : JournalWillMatch(GetNode(j), journal[j], queue', at, j)
  PROVE  EditsKnown' /\ JournalsWillMatch'
<1>1. PICK L \in SUBSET Ids : cache' = [Warm(L) EXCEPT ![i] = node]
  BY DEF Edits
<1>2. /\ cache'[i] = node
      /\ \A j \in Ids \ {i} : cache'[j] = cache[j] \/ cache'[j] = GetNode(j)
  BY <1>1 DEF Warm
<1>3. \A j \in Ids : cache'[j] # NoNode => j <= counter' /\ cache'[j].ref <= counter'
  <2> TAKE j \in Ids
  <2>1. CASE j = i
    BY <1>2, <2>1
  <2>2. CASE j # i /\ cache'[j] # NoNode
    <3>1. cache'[j] = GetNode(j)
      BY <1>2, <2>2 DEF GetNode
    <3>2. j <= counter /\ GetNode(j).ref <= counter
      BY <2>2, <3>1, ReadKnown
    <3>3. GetNode(j).ref \in Nat /\ j \in Nat /\ counter \in Nat /\ counter' \in Nat
      <4>1. GetNode(j) \in Node
        BY <2>2, <3>1, ReadTypes
      <4> QED BY <4>1, BoundsAssumption DEF Node, Refs, Ids, TypeOK
    <3> QED BY <3>1, <3>2, <3>3
  <2> QED BY <2>1, <2>2
<1>4. GetNode(i)' = node /\ \A j \in Ids \ {i} : GetNode(j)' = GetNode(j)
  BY EditsView DEF View
<1>5. journal' = journal /\ at' = at
  BY DEF InSession
<1> QED BY <1>3, <1>4, <1>5 DEF EditsKnown, JournalsWillMatch

\* What the queue will do to journals once node i is saved and an entry of it added.
LEMMA SaveJournalMatches ==
  ASSUME NEW q \in Seq(Entry), NEW a \in 0..Len(q), NEW i \in Ids, NEW act \in Acts,
         NEW c \in Nat, NEW d \in Nat, c <= d, i <= d, KnownQueue(q, c)
  PROVE  LET p == q \o Save(i) \o Journal(i, act)
         IN  /\ KnownQueue(p, d)
             /\ \A node, j, m : m # i /\ JournalWillMatch(node, j, q, a, m)
                                  => JournalWillMatch(node, j, p, a, m)
             /\ \A j : BeginsWell(j, q, a, i) => BeginsWell(j, p, a, i)
             /\ act = "set" => \A node, j : JournalWillMatch(node, j, q, a, i)
                                              => JournalWillMatch(node, j, p, a, i)
             /\ act = "retired" => \A j : EndsRetired(j, p, a, i)
             /\ act = "restored" => \A j : ~EndsRetired(j, p, a, i)
             /\ act = "create" /\ i > c => /\ BeginsWell(<<>>, p, a, i)
                                           /\ ~EndsRetired(<<>>, p, a, i)
<1> DEFINE e == [op |-> "journal", id |-> i, act |-> act]
           q1 == q \o Save(i)
           p == q1 \o <<e>>
<1>1. Save(i) \in Seq(Entry) /\ Harmless(Save(i), c)
  BY HarmlessSave
<1>2. /\ q1 \in Seq(Entry) /\ a \in 0..Len(q1) /\ KnownQueue(q1, c)
      /\ \A node, j, m : JournalWillMatch(node, j, q, a, m) => JournalWillMatch(node, j, q1, a, m)
  BY <1>1, HarmlessAppend
<1>3. \A j : BeginsWell(j, q, a, i) => BeginsWell(j, q1, a, i)
  <2>1. \A f \in Entries(Save(i)) : f.op # "journal"
    BY EntriesOfSave
  <2> QED BY <1>1, <2>1, PlainAppend
<1>4. e \in Entry /\ e.op = "journal" /\ e.id = i /\ e.act = act
  BY DEF Entry
<1>5. <<e>> \in Seq(Entry) /\ Entries(<<e>>) = {e}
  BY <1>4 DEF Entries
<1>6. KnownQueue(p, d)
  <2>1. Entries(p) = Entries(q1) \cup {e}
    BY <1>2, <1>5, EntriesOfConcat
  <2>2. \A f \in Entries(q1) : f.id \in Nat
    <3>1. \A k \in 1..Len(q1) : q1[k] \in Entry
      BY <1>2
    <3> QED BY <3>1 DEF Entries, Entry, Ids
  <2>3. \A f \in Entries(q1) : f.op # "setjournal" /\ (f.op = "journal" => f.id <= d)
    BY <1>2, <2>2 DEF KnownQueue
  <2> QED BY <1>4, <2>1, <2>3 DEF KnownQueue
<1>7. ASSUME NEW m, m # i
      PROVE  \A node, j : JournalWillMatch(node, j, q1, a, m) => JournalWillMatch(node, j, p, a, m)
  <2>1. \A f \in Entries(<<e>>) : f.id # m
    BY <1>4, <1>5, <1>7
  <2> QED BY <1>2, <1>5, <2>1, PlainAppend
<1>8. act = "set" => \A node, j : JournalWillMatch(node, j, q1, a, i)
                                    => JournalWillMatch(node, j, p, a, i)
  <2>1. act = "set" => \A f \in Entries(<<e>>) : f.act \notin Marks
    BY <1>4, <1>5 DEF Marks
  <2> QED BY <1>2, <1>5, <2>1, PlainAppend
<1>9. ASSUME NEW j
      PROVE  /\ BeginsWell(j, q1, a, i) => BeginsWell(j, p, a, i)
             /\ act = "retired" => EndsRetired(j, p, a, i)
             /\ act = "restored" => ~EndsRetired(j, p, a, i)
             /\ act = "create" /\ j = <<>> /\ Queued(q1, a, i) = {} =>
                  BeginsWell(j, p, a, i) /\ ~EndsRetired(j, p, a, i)
  BY <1>2, <1>4, MarkAppend
<1>10. i > c => Queued(q1, a, i) = {}
  <2>1. \A k \in Queued(q1, a, i) : q1[k] \in Entries(q1) /\ q1[k].op = "journal" /\ q1[k].id = i
    <3>1. \A k \in (a + 1)..Len(q1) : k \in 1..Len(q1)
      BY <1>2
    <3> QED BY <3>1 DEF Queued, Entries
  <2>2. \A k \in Queued(q1, a, i) : i <= c
    BY <1>2, <2>1 DEF KnownQueue
  <2>3. i \in Nat
    BY DEF Ids
  <2>4. i > c => \A k \in Queued(q1, a, i) : FALSE
    BY <2>2, <2>3
  <2> QED BY <2>4
<1>11. p = q \o Save(i) \o Journal(i, act)
  BY DEF Journal
<1> HIDE DEF p, q1, e
<1> QED BY <1>2, <1>3, <1>6, <1>7, <1>8, <1>9, <1>10, <1>11

\* The operations of a transaction in which nothing has raised.
LEMMA CreateMatches ==
  ASSUME TypeOK, TypeOK', CacheInv, IdsKnown, EditsKnown, JournalsWillMatch,
         NEW n \in Names, NEW r \in Refs, CreateOk(n, r)
  PROVE  EditsKnown' /\ JournalsWillMatch'
<1> DEFINE node == [name |-> n, ref |-> r, retired |-> FALSE]
           q == queue \o LinkTo(r)
           i == counter + 1
<1>1. i \in Ids /\ counter \in Nat /\ counter' = i /\ InSession /\ node \in Node /\ r <= counter
      /\ queue \in Seq(Entry) /\ at \in 0..Len(queue) /\ KnownQueue(queue, counter)
  BY ReadKnown DEF CreateOk, NewId, TypeOK, Node, EditsKnown
<1>2. Harmless(LinkTo(r), counter) /\ LinkTo(r) \in Seq(Entry)
  BY <1>1, HarmlessLink
<1>3. /\ q \in Seq(Entry) /\ at \in 0..Len(q) /\ KnownQueue(q, counter)
      /\ \A nd, j, m : JournalWillMatch(nd, j, queue, at, m) => JournalWillMatch(nd, j, q, at, m)
  BY <1>1, <1>2, HarmlessAppend
<1>4. "create" \in Acts /\ i <= counter' /\ counter <= counter' /\ i > counter /\ counter' \in Nat
  BY <1>1 DEF Acts
<1>5. queue' = q \o Save(i) \o Journal(i, "create")
  BY DEF CreateOk, NewId
<1>6. journal[i] = <<>>
  BY <1>1, <1>4 DEF IdsKnown
<1>7. Edits(i, node)
  BY CreateEdits DEF NewId
<1>8. node # NoNode /\ node.ref = r /\ ~node.retired
  BY <1>1, NoNodeAssumption
<1> HIDE DEF q, i, node
<1>9. /\ KnownQueue(queue', counter')
      /\ \A nd, j, m : m # i /\ JournalWillMatch(nd, j, q, at, m)
                         => JournalWillMatch(nd, j, queue', at, m)
      /\ BeginsWell(<<>>, queue', at, i) /\ ~EndsRetired(<<>>, queue', at, i)
  BY <1>1, <1>3, <1>4, <1>5, SaveJournalMatches
<1>10. JournalWillMatch(node, journal[i], queue', at, i)
  BY <1>6, <1>8, <1>9 DEF JournalWillMatch
<1>11. \A m \in Ids \ {i} : JournalWillMatch(GetNode(m), journal[m], queue', at, m)
  BY <1>3, <1>9 DEF JournalsWillMatch
<1>12. node.ref <= counter' /\ counter' >= counter
  <2>1. r \in Nat
    BY BoundsAssumption DEF Refs
  <2> QED BY <1>1, <1>4, <1>8, <2>1
<1> QED BY <1>1, <1>4, <1>7, <1>9, <1>10, <1>11, <1>12, EditMatches

LEMMA SetMatches ==
  ASSUME TypeOK, TypeOK', CacheInv, IdsKnown, EditsKnown, JournalsWillMatch,
         NEW i \in Ids, NEW n \in Names, NEW r \in Refs, SetOk(i, n, r)
  PROVE  EditsKnown' /\ JournalsWillMatch'
<1> DEFINE old == GetNode(i)
           done == Changes(GetNode(i), n, r)
           node == Assigned(GetNode(i), n, r, Changes(GetNode(i), n, r))
           links == LinkEntries(GetNode(i), r, Changes(GetNode(i), n, r))
           q == queue \o links
<1>1. /\ counter \in Nat /\ counter' = counter /\ InSession
      /\ queue \in Seq(Entry) /\ at \in 0..Len(queue) /\ KnownQueue(queue, counter)
  BY DEF SetOk, TypeOK, EditsKnown
<1>2. old \in Node /\ old # NoNode /\ old.ref <= counter /\ i <= counter
  BY ReadTypes, ReadKnown DEF SetOk, Editable
<1>3. "ref" \in done => r <= counter
  <2>1. "ref" \in done => RefOk(r)
    BY DEF SetOk, Invalid
  <2> QED BY <2>1, ReadKnown
<1>4. Harmless(links, counter) /\ links \in Seq(Entry)
  BY <1>1, <1>2, <1>3, HarmlessLinks
<1>5. /\ q \in Seq(Entry) /\ at \in 0..Len(q) /\ KnownQueue(q, counter)
      /\ \A nd, j, m : JournalWillMatch(nd, j, queue, at, m) => JournalWillMatch(nd, j, q, at, m)
  BY <1>1, <1>4, HarmlessAppend
<1>6. queue' = q \o Save(i) \o Journal(i, "set") /\ "set" \in Acts
  BY DEF SetOk, Acts
<1>7. Edits(i, node)
  BY SetEdits
<1>8. node \in Node /\ node # NoNode /\ node.retired = old.retired /\ node.ref <= counter
  <2>1. node \in Node
    BY <1>2, AssignedType
  <2>2. node.retired = old.retired /\ node.ref = IF "ref" \in done THEN r ELSE old.ref
    BY <1>2 DEF Assigned, Node
  <2> QED BY <1>2, <1>3, <2>1, <2>2, NoNodeAssumption
<1> HIDE DEF q, node, links, done, old
<1>9. /\ KnownQueue(queue', counter')
      /\ \A nd, j, m : m # i /\ JournalWillMatch(nd, j, q, at, m)
                         => JournalWillMatch(nd, j, queue', at, m)
      /\ \A nd, j : JournalWillMatch(nd, j, q, at, i) => JournalWillMatch(nd, j, queue', at, i)
  BY <1>1, <1>2, <1>5, <1>6, SaveJournalMatches
<1>10. JournalWillMatch(node, journal[i], queue', at, i)
  <2>1. JournalWillMatch(old, journal[i], queue', at, i)
    BY <1>5, <1>9 DEF JournalsWillMatch, old
  <2> QED BY <1>2, <1>8, <2>1 DEF JournalWillMatch
<1>11. \A m \in Ids \ {i} : JournalWillMatch(GetNode(m), journal[m], queue', at, m)
  BY <1>5, <1>9 DEF JournalsWillMatch
<1> QED BY <1>1, <1>2, <1>7, <1>8, <1>9, <1>10, <1>11, EditMatches

\* retire and restore mark the node in its journal as they mark it in the cache.
LEMMA LifeMatches ==
  ASSUME TypeOK, TypeOK', CacheInv, IdsKnown, EditsKnown, JournalsWillMatch,
         NEW i \in Ids, NEW node \in Node, NEW act \in {"retired", "restored"},
         GetNode(i) # NoNode, node.ref = GetNode(i).ref, node.retired <=> act = "retired",
         Edits(i, node), InSession, counter' = counter,
         queue' = queue \o Save(i) \o Journal(i, act)
  PROVE  EditsKnown' /\ JournalsWillMatch'
<1>1. /\ counter \in Nat /\ queue \in Seq(Entry) /\ at \in 0..Len(queue)
      /\ KnownQueue(queue, counter) /\ act \in Acts
  BY DEF TypeOK, EditsKnown, Acts
<1>2. i <= counter /\ node.ref <= counter
  BY ReadKnown
<1>3. /\ KnownQueue(queue', counter')
      /\ \A nd, j, m : m # i /\ JournalWillMatch(nd, j, queue, at, m)
                         => JournalWillMatch(nd, j, queue', at, m)
      /\ \A j : BeginsWell(j, queue, at, i) => BeginsWell(j, queue', at, i)
      /\ act = "retired" => \A j : EndsRetired(j, queue', at, i)
      /\ act = "restored" => \A j : ~EndsRetired(j, queue', at, i)
  BY <1>1, <1>2, SaveJournalMatches
<1>4. JournalWillMatch(node, journal[i], queue', at, i)
  <2>1. BeginsWell(journal[i], queue, at, i)
    BY DEF JournalsWillMatch, JournalWillMatch
  <2>2. node # NoNode
    BY NoNodeAssumption
  <2> QED BY <1>3, <2>1, <2>2 DEF JournalWillMatch
<1>5. \A m \in Ids \ {i} : JournalWillMatch(GetNode(m), journal[m], queue', at, m)
  BY <1>3 DEF JournalsWillMatch
<1> QED BY <1>1, <1>2, <1>3, <1>4, <1>5, EditMatches

LEMMA DestroyMatches ==
  ASSUME TypeOK, TypeOK', CacheInv, IdsKnown, EditsKnown, JournalsWillMatch,
         NEW i \in Ids, Destroy(i)
  PROVE  EditsKnown' /\ JournalsWillMatch'
<1> DEFINE w == WithoutEntriesOf(i)
           e == [op |-> "destroy", id |-> i, act |-> "set"]
<1>1. /\ queue \in Seq(Entry) /\ at \in 0..Len(queue) /\ Len(queue) \in Nat /\ at \in Nat
      /\ KnownQueue(queue, counter) /\ UNCHANGED <<at, journal, disk, counter>>
      /\ w \in Seq(Entry) /\ Len(w) = Len(queue) /\ e \in Entry
      /\ cache' = [cache EXCEPT ![i] = NoNode]
      /\ queue' = w \o <<e>>
  BY WithoutEntriesType DEF Destroy, InSession, DestroyNode, TypeOK, EditsKnown, Entry, Acts
<1>2. \A k \in 1..Len(queue) : queue[k] \in Entry
  BY <1>1
<1>3. \A k \in 1..Len(queue) :
        /\ queue[k].id = i => w[k].op = "removed"
        /\ queue[k].id # i => w[k] = queue[k]
        /\ w[k].id = queue[k].id
  BY <1>2 DEF WithoutEntriesOf, Entry
<1>4. \A f \in Entries(w) : f.op = "removed" \/ (f \in Entries(queue) /\ f.id # i)
  BY <1>1, <1>3 DEF Entries
<1>5. <<e>> \in Seq(Entry) /\ Entries(<<e>>) = {e} /\ e.op = "destroy" /\ e.id = i
  BY <1>1 DEF Entries
<1> HIDE DEF w, e
<1>6. KnownQueue(w, counter)
  BY <1>1, <1>4 DEF KnownQueue
<1>7. Harmless(<<e>>, counter)
  BY <1>5 DEF Harmless
<1>8. /\ KnownQueue(queue', counter)
      /\ \A nd, j, m : JournalWillMatch(nd, j, w, at, m) => JournalWillMatch(nd, j, queue', at, m)
  BY <1>1, <1>5, <1>6, <1>7, HarmlessAppend
<1>9. EditsKnown'
  BY <1>1, <1>8 DEF EditsKnown, TypeOK
<1>10. GetNode(i)' = NoNode /\ \A j \in Ids \ {i} : GetNode(j)' = GetNode(j)
  BY DestroyView DEF View
\* For node i all that is left in the queue is its destruction.
<1>11. JournalWillMatch(NoNode, journal[i], queue', at, i)
  <2>1. Len(queue') = Len(queue) + 1 /\ queue'[Len(queue) + 1] = e
        /\ \A k \in 1..Len(queue) : queue'[k] = w[k]
    BY <1>1, <1>5
  <2>2. \A k \in (at + 1)..Len(queue') : k \in 1..Len(queue) \/ k = Len(queue) + 1
    BY <1>1, <2>1
  <2>3. Queued(queue', at, i) = {}
    BY <1>3, <1>5, <2>1, <2>2 DEF Queued
  <2>4. Len(queue) + 1 \in (at + 1)..Len(queue')
    BY <1>1, <2>1
  <2> QED BY <1>5, <2>1, <2>3, <2>4 DEF JournalWillMatch, HasNoCreation
\* For the others nothing has moved.
<1>12. ASSUME NEW j \in Ids \ {i}
       PROVE  JournalWillMatch(GetNode(j), journal[j], queue', at, j)
  <2>1. \A k \in (at + 1)..Len(queue) : k \in 1..Len(queue)
    BY <1>1
  <2>2. \A k \in (at + 1)..Len(queue) : /\ queue[k].id = j => w[k] = queue[k]
                                        /\ w[k].id = j => w[k] = queue[k]
    BY <1>3, <1>12, <2>1
  <2>3. Queued(w, at, j) = Queued(queue, at, j)
    BY <1>1, <2>2 DEF Queued
  <2>4. \A k \in Queued(queue, at, j) : w[k] = queue[k]
    BY <2>2 DEF Queued
  <2>5. JournalWillMatch(GetNode(j), journal[j], queue, at, j)
    BY <1>12 DEF JournalsWillMatch
  <2>6. BeginsWell(journal[j], queue, at, j) => BeginsWell(journal[j], w, at, j)
    BY <2>3, <2>4 DEF BeginsWell
  <2>7. EndsRetired(journal[j], queue, at, j) <=> EndsRetired(journal[j], w, at, j)
    BY <2>3, <2>4 DEF EndsRetired
  <2>8. HasNoCreation(journal[j], queue, at, j) => HasNoCreation(journal[j], w, at, j)
    BY <1>1, <2>2, <2>3, <2>4 DEF HasNoCreation
  <2>9. JournalWillMatch(GetNode(j), journal[j], w, at, j)
    BY <2>5, <2>6, <2>7, <2>8 DEF JournalWillMatch
  <2> QED BY <1>8, <2>9
<1> QED BY <1>1, <1>9, <1>10, <1>11, <1>12 DEF JournalsWillMatch

\* A transaction that ends leaves what is stored, and an empty queue.
LEMMA ForgetMatches ==
  ASSUME TypeOK, IdsKnown, StoreMatches, Forget
  PROVE  MatchInv'
<1>1. IdsKnown' /\ StoreMatches'
  BY DEF Forget, IdsKnown, StoreMatches
<1>2. EditsKnown'
  BY DEF Forget, Nothing, EditsKnown, KnownQueue, Entries
<1>3. JournalsWillMatch'
  <2>1. \A i \in Ids : GetNode(i)' = disk[i]
    BY DEF Forget, Nothing, GetNode
  <2>2. \A i : Queued(<<>>, 0, i) = {}
    <3>1. Len(<<>>) = 0
      OBVIOUS
    <3> QED BY <3>1 DEF Queued
  <2>3. \A i \in Ids : JournalWillMatch(disk[i], journal[i], <<>>, 0, i)
    BY <2>2 DEF StoreMatches, JournalWillMatch, BeginsWell, EndsRetired, HasNoCreation
  <2> QED BY <2>1, <2>3 DEF Forget, JournalsWillMatch
<1> QED BY <1>1, <1>2, <1>3 DEF MatchInv

LEMMA MatchStep ==
  ASSUME Callers \subseteq Careful, ~FaultyCommit, ~Importing
  PROVE  TypeOK /\ TypeOK' /\ CacheInv /\ CommitInv /\ MatchInv /\ [Next]_vars => MatchInv'
<1> SUFFICES ASSUME TypeOK, TypeOK', CacheInv, CommitInv, MatchInv, [Next]_vars PROVE MatchInv'
  OBVIOUS
<1>a. CanOperate => ~failed /\ phase = "open" /\ EditsKnown /\ JournalsWillMatch
  BY DEF CanOperate, CommitInv, Careful, StopAtError, MatchInv
<1>b. IdsKnown /\ (phase # "committing" => StoreMatches)
  BY DEF MatchInv
<1>c. counter \in Nat /\ counter' \in Nat
  BY DEF TypeOK
\* An operation leaves the store alone.
<1>d. ASSUME InSession, phase = "open", counter' >= counter,
             failed' \/ (EditsKnown' /\ JournalsWillMatch')
      PROVE  MatchInv'
  <2>1. UNCHANGED <<phase, disk, journal>>
    BY <1>d DEF InSession
  <2>2. IdsKnown'
    <3>1. \A i \in Ids : i \in Nat
      BY DEF Ids
    <3>2. \A i \in Ids : disk[i] # NoNode => disk[i].ref \in Nat
      <4>1. \A node \in Node : node.ref \in Nat
        BY BoundsAssumption DEF Node, Refs
      <4> QED BY <4>1 DEF TypeOK
    <3>3. ASSUME NEW i \in Ids, disk[i] # NoNode PROVE i <= counter' /\ disk[i].ref <= counter'
      <4>1. i <= counter /\ disk[i].ref <= counter
        BY <1>b, <3>3 DEF IdsKnown
      <4> QED BY <1>c, <1>d, <3>1, <3>2, <3>3, <4>1
    <3>4. ASSUME NEW i \in Ids, i > counter' PROVE journal[i] = <<>>
      <4>1. i > counter
        BY <1>c, <1>d, <3>1, <3>4
      <4> QED BY <1>b, <4>1 DEF IdsKnown
    <3> QED BY <2>1, <3>3, <3>4 DEF IdsKnown
  <2>3. StoreMatches'
    BY <1>b, <1>d, <2>1 DEF StoreMatches
  <2> QED BY <1>d, <2>2, <2>3 DEF MatchInv
<1>0. CASE UNCHANGED vars
  BY <1>0 DEF MatchInv, IdsKnown, EditsKnown, JournalsWillMatch, StoreMatches, GetNode, vars
<1>1. Open \/ BeginCommit => MatchInv'
  BY DEF Open, BeginCommit, txn, MatchInv, IdsKnown, EditsKnown, JournalsWillMatch,
         StoreMatches, GetNode
<1>2. Close \/ Rollback => MatchInv'
  BY <1>b, ForgetMatches DEF Close, Rollback
<1>3. ASSUME NEW i \in Ids, Read(i) PROVE MatchInv'
  <2>1. Glances /\ View' = View /\ InSession /\ phase = "open"
        /\ UNCHANGED <<counter, queue, failed, at, journal>>
    BY <1>3, OthersGlance, GlancesView DEF Read, InSession
  <2>2. CASE ~failed
    <3>1. EditsKnown /\ JournalsWillMatch
      BY <2>2 DEF MatchInv
    <3>2. \A j \in Ids : cache'[j] = cache[j] \/ cache'[j] = GetNode(j)
      BY <1>3 DEF Read, Warm
    <3>3. EditsKnown'
      <4>1. \A j \in Ids : cache'[j] # NoNode => j <= counter /\ cache'[j].ref <= counter
        BY <1>b, <3>1, <3>2, ReadKnown DEF EditsKnown
      <4> QED BY <2>1, <3>1, <4>1 DEF EditsKnown
    <3>4. \A j \in Ids : GetNode(j)' = GetNode(j)
      BY <2>1 DEF View
    <3>5. JournalsWillMatch'
      BY <2>1, <3>1, <3>4 DEF JournalsWillMatch
    <3> QED BY <1>c, <1>d, <2>1, <3>3, <3>5
  <2>3. CASE failed
    BY <1>c, <1>d, <2>1, <2>3
  <2> QED BY <2>2, <2>3
<1>4. Vetoed => MatchInv'
  BY <1>a, <1>c, <1>d DEF Vetoed, Raises
<1>5. ASSUME NEW i \in Ids, Retire(i) PROVE MatchInv'
  <2> DEFINE node == [GetNode(i) EXCEPT !.retired = TRUE]
  <2>1. GetNode(i) \in Node /\ GetNode(i) # NoNode
    BY <1>5, ReadTypes DEF Retire
  <2>2. node \in Node /\ node.ref = GetNode(i).ref /\ node.retired
    BY <2>1 DEF Node
  <2>3. /\ Edits(i, node) /\ InSession /\ counter' = counter /\ CanOperate
        /\ queue' = queue \o Save(i) \o Journal(i, "retired")
    BY <1>5, RetireEdits DEF Retire
  <2> HIDE DEF node
  <2>4. EditsKnown' /\ JournalsWillMatch'
    BY <1>a, <1>b, <2>1, <2>2, <2>3, LifeMatches
  <2> QED BY <1>a, <1>c, <1>d, <2>3, <2>4
<1>6. ASSUME NEW i \in Ids, Restore(i) PROVE MatchInv'
  <2> DEFINE node == [GetNode(i) EXCEPT !.retired = FALSE]
  <2>1. GetNode(i) \in Node /\ GetNode(i) # NoNode
    BY <1>6, ReadTypes DEF Restore
  <2>2. node \in Node /\ node.ref = GetNode(i).ref /\ ~node.retired
    BY <2>1 DEF Node
  <2>3. InSession /\ counter' = counter /\ CanOperate
    BY <1>6 DEF Restore
  <2>4. CASE Lookup(GetNode(i).name) = {}
    <3>1. Edits(i, node) /\ queue' = queue \o Save(i) \o Journal(i, "restored")
      BY <1>6, <2>4, RestoreEditsOrGlances DEF Restore, Raises, Succeeds
    <3> HIDE DEF node
    <3>2. EditsKnown' /\ JournalsWillMatch'
      BY <1>a, <1>b, <2>1, <2>2, <2>3, <3>1, LifeMatches
    <3> QED BY <1>a, <1>c, <1>d, <2>3, <3>2
  <2>5. CASE Lookup(GetNode(i).name) # {}
    <3>1. failed'
      BY <1>6, <2>5 DEF Restore, Raises
    <3> QED BY <1>a, <1>c, <1>d, <2>3, <3>1
  <2> QED BY <2>4, <2>5
<1>7. ASSUME NEW i \in Ids, Destroy(i) PROVE MatchInv'
  <2>1. EditsKnown' /\ JournalsWillMatch'
    BY <1>a, <1>b, <1>7, DestroyMatches DEF Destroy
  <2> QED BY <1>a, <1>c, <1>d, <1>7, <2>1 DEF Destroy
<1>8. ASSUME NEW n \in Names, NEW r \in Refs, CreateOk(n, r) PROVE MatchInv'
  <2>1. EditsKnown' /\ JournalsWillMatch'
    BY <1>a, <1>b, <1>8, CreateMatches DEF CreateOk
  <2> QED BY <1>a, <1>c, <1>d, <1>8, <2>1 DEF CreateOk, NewId
<1>9. ASSUME NEW n \in Names, NEW r \in Refs, NEW L \in SUBSET Ids, CreateRaises(n, r, L)
      PROVE  MatchInv'
  BY <1>a, <1>c, <1>d, <1>9 DEF CreateRaises, Raises, NewId
<1>10. ASSUME NEW n \in Names, NEW r \in Refs, NEW i \in Ids, SetOk(i, n, r) PROVE MatchInv'
  <2>1. EditsKnown' /\ JournalsWillMatch'
    BY <1>a, <1>b, <1>10, SetMatches DEF SetOk
  <2> QED BY <1>a, <1>c, <1>d, <1>10, <2>1 DEF SetOk
<1>11. ASSUME NEW n \in Names, NEW r \in Refs, NEW L \in SUBSET Ids, NEW i \in Ids,
              NEW done \in SUBSET {"name", "ref"}, SetRaises(i, n, r, done, L)
       PROVE  MatchInv'
  BY <1>a, <1>c, <1>d, <1>11 DEF SetRaises, Raises
<1>12. \A i \in Ids, node \in Node : Import(i, node) => MatchInv'
  BY DEF Import
<1>13. CommitRaises \/ Crash => MatchInv'
  BY DEF CommitRaises, Crash
\* The last entry has been executed: the store is what the transaction saw.
<1>14. ASSUME EndCommit PROVE MatchInv'
  <2>1. phase = "committing" /\ at = Len(queue) /\ ~failed /\ Len(queue) \in Nat
    BY <1>14 DEF EndCommit, CommitInv, TypeOK
  <2>2. (at + 1)..Len(queue) = {}
    BY <2>1
  <2>3. \A i \in Ids : disk[i] = GetNode(i)
    <3>1. \A i \in Ids : ~Pending(i)
      BY <2>1 DEF Pending
    <3> QED BY <2>1, <3>1 DEF CommitInv
  <2>4. \A i \in Ids : JournalWillMatch(disk[i], journal[i], queue, at, i)
    BY <2>1, <2>3 DEF MatchInv, JournalsWillMatch
  <2>5. \A i : Queued(queue, at, i) = {}
    BY <2>2 DEF Queued
  <2>6. StoreMatches
    BY <2>2, <2>4, <2>5 DEF StoreMatches, JournalWillMatch, BeginsWell, EndsRetired, HasNoCreation
  <2> QED BY <1>b, <1>14, <2>6, ForgetMatches DEF EndCommit
<1>15. ASSUME NEW op, Execute(op)
       PROVE  /\ UNCHANGED <<counter, phase, cache, destroyed, queue, failed>>
              /\ phase = "committing" /\ ~failed /\ at \in Nat /\ at' = at + 1
              /\ at + 1 \in 1..Len(queue) /\ queue \in Seq(Entry)
              /\ queue[at + 1].op = op /\ queue[at + 1] \in Entries(queue)
              /\ queue[at + 1] \in Entry /\ queue[at + 1].id \in Ids
              /\ EditsKnown /\ JournalsWillMatch
  <2>1. at + 1 \in 1..Len(queue) /\ queue \in Seq(Entry) /\ at \in Nat
    BY <1>15 DEF Execute, Upcoming, TypeOK
  <2>2. queue[at + 1] \in Entry
    BY <2>1
  <2>3. phase = "committing" /\ ~failed
    BY <1>15 DEF Execute, Upcoming, CommitInv
  <2> QED BY <1>15, <2>1, <2>2, <2>3 DEF Execute, Upcoming, txn, Entries, Entry, MatchInv
\* What executing an entry has to leave right.
<1>16. ASSUME NEW op, Execute(op), IdsKnown',
              \A i \in Ids : GetNode(i)' = GetNode(i),
              \A i \in Ids : JournalWillMatch(GetNode(i), journal'[i], queue, at + 1, i)
       PROVE  MatchInv'
  <2>1. EditsKnown' /\ phase' = "committing"
    BY <1>15, <1>16 DEF EditsKnown
  <2>2. JournalsWillMatch'
    BY <1>15, <1>16 DEF JournalsWillMatch
  <2> QED BY <1>16, <2>1, <2>2 DEF MatchInv
<1>17. ASSUME DoSaveNode PROVE MatchInv'
  <2> DEFINE x == queue[at + 1].id
  <2>1. Execute("save") /\ disk' = [disk EXCEPT ![x] = cache[x]] /\ journal' = journal
    BY <1>17 DEF DoSaveNode
  <2>2. x \in Ids /\ cache[x] # NoNode /\ destroyed' = destroyed /\ cache' = cache
        /\ counter' = counter /\ EditsKnown
    BY <1>15, <2>1 DEF CacheInv
  <2>3. IdsKnown'
    BY <1>b, <2>1, <2>2 DEF IdsKnown, EditsKnown, TypeOK
  <2>4. \A i \in Ids : GetNode(i)' = GetNode(i)
    BY <2>1, <2>2 DEF GetNode, TypeOK
  <2>5. \A i \in Ids : JournalWillMatch(GetNode(i), journal'[i], queue, at + 1, i)
    BY <1>15, <2>1, ExecuteOther DEF JournalsWillMatch
  <2> QED BY <1>16, <2>1, <2>3, <2>4, <2>5
<1>18. ASSUME DoSaveJournal PROVE MatchInv'
  <2> DEFINE e == queue[at + 1]
  <2>1. /\ Execute("journal") /\ disk' = disk
        /\ journal' = [journal EXCEPT ![e.id] = Append(journal[e.id], e.act)]
    BY <1>18 DEF DoSaveJournal
  <2>2. /\ e.id \in Ids /\ e.op = "journal" /\ e.act \in Acts /\ e \in Entries(queue)
        /\ counter' = counter /\ cache' = cache /\ destroyed' = destroyed /\ EditsKnown
        /\ journal[e.id] \in Seq(Acts)
    BY <1>15, <2>1 DEF Entry, TypeOK
  <2>3. journal'[e.id] = Append(journal[e.id], e.act)
        /\ \A i \in Ids : i # e.id => journal'[i] = journal[i]
    BY <2>1, <2>2 DEF TypeOK
  <2>4. IdsKnown'
    <3>1. e.id <= counter /\ e.id \in Nat
      BY <2>2 DEF EditsKnown, KnownQueue, Ids
    <3> QED BY <1>b, <1>c, <2>1, <2>2, <2>3, <3>1 DEF IdsKnown
  <2>5. \A i \in Ids : GetNode(i)' = GetNode(i)
    BY <2>1, <2>2 DEF GetNode
  <2>6. JournalWillMatch(GetNode(e.id), journal'[e.id], queue, at + 1, e.id)
    <3>1. JournalWillMatch(GetNode(e.id), journal[e.id], queue, at, e.id)
      BY <1>15, <2>1, <2>2 DEF JournalsWillMatch
    <3>2. at \in Nat /\ at + 1 \in 1..Len(queue) /\ queue \in Seq(Entry)
      BY <1>15, <2>1
    <3>3. JournalWillMatch(GetNode(e.id), Append(journal[e.id], e.act), queue, at + 1, e.id)
      BY <2>2, <3>1, <3>2, ExecuteJournal
    <3> QED BY <2>3, <3>3
  <2>7. \A i \in Ids : i # e.id => JournalWillMatch(GetNode(i), journal'[i], queue, at + 1, i)
    BY <1>15, <2>1, <2>3, ExecuteOther DEF JournalsWillMatch
  <2> QED BY <1>16, <2>1, <2>4, <2>5, <2>6, <2>7
<1>19. DoSetJournal => MatchInv'
  BY <1>15 DEF DoSetJournal, EditsKnown, KnownQueue
\* The first half of a destruction changes neither the queue nor a journal.
<1>23. ASSUME DoDestroyNode PROVE MatchInv'
  <2> DEFINE x == queue[at + 1].id
  <2>1. /\ disk' = [disk EXCEPT ![x] = NoNode]
        /\ UNCHANGED <<journal, counter, phase, cache, destroyed, queue, failed, at>>
    BY <1>23 DEF DoDestroyNode, txn
  <2>2. x \in Ids /\ x \in destroyed /\ cache[x] = NoNode /\ phase = "committing"
    BY <1>23, DestroyFacts, UpcomingFacts DEF DoDestroyNode
  <2>3. disk'[x] = NoNode /\ \A i \in Ids : i # x => disk'[i] = disk[i]
    BY <2>1, <2>2 DEF TypeOK
  <2>4. IdsKnown'
    BY <1>b, <2>1, <2>3 DEF IdsKnown
  <2>5. \A i \in Ids : GetNode(i)' = GetNode(i)
    BY <2>1, <2>2, <2>3 DEF GetNode
  <2>6. phase' = "committing" /\ ~failed /\ EditsKnown /\ JournalsWillMatch
    BY <2>1, <2>2 DEF CommitInv, MatchInv
  <2>7. EditsKnown' /\ JournalsWillMatch'
    BY <2>1, <2>5, <2>6 DEF EditsKnown, JournalsWillMatch
  <2> QED BY <2>4, <2>6, <2>7 DEF MatchInv
<1>20. ASSUME DoDestroyJournal PROVE MatchInv'
  <2> DEFINE x == queue[at + 1].id
  <2>1. /\ Execute("destroy") /\ disk' = disk /\ disk[x] = NoNode
        /\ journal' = [journal EXCEPT ![x] = <<>>]
    BY <1>20 DEF DoDestroyJournal
  <2>2. x \in Ids /\ x \in destroyed /\ cache[x] = NoNode /\ destroyed' = destroyed
        /\ cache' = cache /\ counter' = counter
    BY <1>15, <2>1 DEF CacheInv
  <2>3. journal'[x] = <<>> /\ \A i \in Ids : i # x => journal'[i] = journal[i]
    BY <2>1, <2>2 DEF TypeOK
  <2>4. IdsKnown'
    BY <1>b, <2>1, <2>2, <2>3 DEF IdsKnown, TypeOK
  <2>5. GetNode(x) = NoNode /\ \A i \in Ids : GetNode(i)' = GetNode(i)
    BY <2>1, <2>2 DEF GetNode
  <2>6. JournalWillMatch(NoNode, <<>>, queue, at + 1, x)
    <3>1. JournalWillMatch(NoNode, journal[x], queue, at, x)
      BY <1>15, <2>1, <2>2, <2>5 DEF JournalsWillMatch
    <3>2. Queued(queue, at + 1, x) \subseteq Queued(queue, at, x)
      <4>1. \A k : k \in ((at + 1) + 1)..Len(queue) => k \in (at + 1)..Len(queue)
        BY <1>15, <2>1
      <4> QED BY <4>1 DEF Queued
    <3>3. Len(<<>>) = 0
      OBVIOUS
    <3> QED BY <3>1, <3>2, <3>3 DEF JournalWillMatch, HasNoCreation
  <2>7. \A i \in Ids : i # x => JournalWillMatch(GetNode(i), journal'[i], queue, at + 1, i)
    BY <1>15, <2>1, <2>3, ExecuteOther DEF JournalsWillMatch
  <2> QED BY <1>16, <2>1, <2>3, <2>4, <2>5, <2>6, <2>7
<1>21. ASSUME SkipRemoved PROVE MatchInv'
  <2>1. Execute("removed") /\ UNCHANGED <<disk, journal>>
    BY <1>21 DEF SkipRemoved, store
  <2>2. IdsKnown' /\ \A i \in Ids : GetNode(i)' = GetNode(i)
    BY <1>b, <1>15, <2>1 DEF IdsKnown, GetNode
  <2>3. \A i \in Ids : JournalWillMatch(GetNode(i), journal'[i], queue, at + 1, i)
    BY <1>15, <2>1, ExecuteOther DEF JournalsWillMatch
  <2> QED BY <1>16, <2>1, <2>2, <2>3
<1>22. CASE Next
  <2>1. \A i \in Ids : Read(i) \/ Retire(i) \/ Restore(i) \/ Destroy(i) => MatchInv'
    BY <1>3, <1>5, <1>6, <1>7
  <2> QED BY <1>22, <2>1, <1>1, <1>2, <1>4, <1>8, <1>9, <1>10, <1>11, <1>12, <1>13, <1>14,
             <1>17, <1>18, <1>19, <1>20, <1>21, <1>23, NextCases
<1> QED BY <1>0, <1>22

\* With callers that drop a failed transaction, no imports and commits that finish, a stored
\* node's journal begins with its creation and its last retirement or restoration says whether
\* it is retired: edits of any number of nodes, rolled back, overwritten or undone by destroy in
\* one transaction included.
THEOREM JournalsTellTheNodes ==
  ASSUME Callers \subseteq Careful, ~FaultyCommit, ~Importing
  PROVE  Spec => []JournalMatchesNodes
<1>1. Init => MatchInv
  <2> SUFFICES ASSUME Init PROVE MatchInv
    OBVIOUS
  <2>1. Len(<<>>) = 0
    OBVIOUS
  <2>2. IdsKnown /\ EditsKnown
    BY <2>1 DEF Init, Nothing, IdsKnown, EditsKnown, KnownQueue, Entries
  <2>3. StoreMatches
    BY <2>1 DEF Init, Nothing, StoreMatches
  <2>4. JournalsWillMatch
    <3>1. \A i \in Ids : GetNode(i) = NoNode /\ journal[i] = <<>>
      BY DEF Init, Nothing, GetNode
    <3>2. \A i : Queued(queue, at, i) = {}
      BY <2>1 DEF Init, Queued
    <3> QED BY <2>1, <3>1, <3>2 DEF JournalsWillMatch, JournalWillMatch, HasNoCreation
  <2> QED BY <2>2, <2>3, <2>4 DEF MatchInv
<1>2. TypeOK /\ TypeOK' /\ CacheInv /\ CommitInv /\ MatchInv /\ [Next]_vars => MatchInv'
  BY MatchStep
<1>3. MatchInv => JournalMatchesNodes
  BY DEF MatchInv, StoreMatches, JournalMatchesNodes
<1>4. Spec => []CommitInv
  BY CommitCovered
<1> QED BY <1>1, <1>2, <1>3, <1>4, TypeCorrect, CacheConsistent, PTL DEF Spec
=============================================================================
