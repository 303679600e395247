---------------------------- MODULE WebEditProofs ----------------------------
(***************************************************************************)
(* Theorems about WebEdit, for any users, properties, values and bounds.   *)
(* That edits replace nothing their author was not shown is proved for a   *)
(* database that refuses the second of two concurrent updates, edits that  *)
(* do not fall in one second, and auditors that reject before the item is  *)
(* written: without any of the three it is false.  What is proved of the   *)
(* journal holds on any database.                                          *)
(***************************************************************************)
EXTENDS WebEdit, TLAPS

Serial == FirstUpdaterWins /\ ~Quick /\ ~RejectLate

\* The form of a page whose stamp is the item's activity shows the item as it is.
PageInv ==
  \A u \in Users :
    stamp[u] # NoStamp => /\ stamp[u] <= activity
                          /\ stamp[u] = activity => told[u] = row

\* A request that no edit has overtaken knows the item as it is, and its user does; one
\* that was overtaken can tell by the activity it read.
RequestInv ==
  \A u \in Users : phase[u] # "page" =>
    /\ version[u] <= edits
    /\ version[u] = edits => read[u] = activity /\ (stamp[u] # NoStamp => told[u] = row)
    /\ version[u] < edits => read[u] < activity
    /\ phase[u] \in {"stamped", "written"} /\ version[u] = edits =>
         activity < mine[u] /\ mine[u] <= now

\* Nobody has overtaken the request that holds the lock.
LockInv == \A u \in Users : phase[u] = "written" => version[u] = edits

IInv == TypeOK /\ activity <= now /\ PageInv /\ RequestInv /\ LockInv

USE DEF item, page, request

-----------------------------------------------------------------------------
(* Types.  They need nothing but the assumptions of WebEdit. *)

LEMMA TypeStep == ASSUME TypeOK, [Next]_vars PROVE TypeOK'
<1> USE RowAssumption, UserAssumption, BoundAssumption, StampAssumption DEF Times, Rows, TypeOK
<1> SUFFICES ASSUME Next PROVE TypeOK'
  BY DEF vars
<1>1. CASE Tick
  BY <1>1 DEF Tick
<1>2. ASSUME NEW u \in Users, View(u) PROVE TypeOK'
  BY <1>2 DEF View
<1>3. ASSUME NEW u \in Users, SetBegins(u) PROVE TypeOK'
  BY <1>3 DEF SetBegins
<1>4. ASSUME NEW u \in Users, SetWrites(u) PROVE TypeOK'
  BY <1>4 DEF SetWrites
<1>5. ASSUME NEW u \in Users, SetFails(u) PROVE TypeOK'
  BY <1>5 DEF SetFails, Ends
<1>6. ASSUME NEW u \in Users, Commit(u) PROVE TypeOK'
  <2>1. row' \in Rows /\ Written(u) \in SUBSET Props
    BY <1>6 DEF Commit, Written, Changed
  <2>2. entry' \in [Written(u) -> Values]
    BY <1>6, <2>1 DEF Commit
  <2>3. entry' \in Entries
    BY <2>1, <2>2 DEF Entries
  <2>4. activity' \in Times /\ edits' \in Nat
    BY <1>6 DEF Commit
  <2> QED
    BY <1>6, <2>1, <2>3, <2>4 DEF Commit, Ends
<1>7. ASSUME NEW u \in Users, Reject(u) PROVE TypeOK'
  BY <1>7 DEF Reject, Ends
<1>8. ASSUME NEW u \in Users, NEW form \in Rows, Submit(u, form) PROVE TypeOK'
  BY <1>8 DEF Submit
<1>9. ASSUME NEW u \in Users, NEW form \in Rows, Refuse(u, form) PROVE TypeOK'
  BY <1>9 DEF Refuse
<1>10. ASSUME NEW new \in Rows, EditElsewhere(new) PROVE TypeOK'
  <2>1. Changed(new, row) \in SUBSET Props
    BY DEF Changed
  <2>2. entry' \in [Changed(new, row) -> Values]
    BY <1>10, <2>1 DEF EditElsewhere
  <2>3. entry' \in Entries
    BY <2>1, <2>2 DEF Entries
  <2> QED
    BY <1>10, <2>3 DEF EditElsewhere
<1> QED
  BY <1>1, <1>2, <1>3, <1>4, <1>5, <1>6, <1>7, <1>8, <1>9, <1>10 DEF Next, Serve

LEMMA TypeInit == Init => TypeOK
<1> SUFFICES ASSUME Init PROVE TypeOK
  OBVIOUS
<1>1. entry \in Entries
  <2>1. entry \in [{} -> Values]
    BY DEF Init
  <2> QED
    BY <2>1 DEF Entries
<1> QED
  BY <1>1, RowAssumption, UserAssumption, BoundAssumption DEF Init, TypeOK, Times, Rows

\* The types of the item, the pages, the requests and the lock, and that the lock is held by
\* the one request that has written: on any database.
THEOREM TypeCorrect == Spec => []TypeOK
<1> QED
  BY TypeInit, TypeStep, PTL DEF Spec

-----------------------------------------------------------------------------
(* The invariant. *)

\* An edit of the item by anyone: the activity grows, and with it every page and request
\* that knew the item falls behind.
LEMMA EditOvertakes ==
  ASSUME IInv, activity' \in Int, activity < activity', edits' = edits + 1,
         activity' <= now', now' = now,
         NEW others \in SUBSET Users,
         \A u \in Users : stamp'[u] = stamp[u],
         \A u \in others : phase'[u] # "written" /\ version'[u] = version[u] /\ read'[u] = read[u],
         \A u \in others : phase'[u] = phase[u],
         \A u \in Users \ others : phase'[u] = "page"
  PROVE  PageInv' /\ RequestInv' /\ LockInv'
<1>1. PageInv'
  BY DEF PageInv, IInv, TypeOK, Times
<1>2. RequestInv'
  <2> SUFFICES ASSUME NEW u \in Users, phase'[u] # "page"
               PROVE  version'[u] < edits' /\ read'[u] < activity'
    BY DEF RequestInv, IInv, TypeOK
  <2>1. u \in others /\ version[u] <= edits /\ read[u] <= activity
    BY DEF RequestInv, IInv, TypeOK, Times
  <2> QED
    BY <2>1 DEF IInv, TypeOK, Times
<1>3. LockInv'
  BY DEF LockInv
<1> QED
  BY <1>1, <1>2, <1>3

LEMMA CommitStep ==
  ASSUME Serial, IInv, TypeOK', NEW u \in Users, Commit(u)
  PROVE  IInv'
<1>1. version[u] = edits /\ activity < mine[u] /\ mine[u] <= now
  BY DEF Commit, IInv, LockInv, RequestInv
<1>2. \A w \in Users \ {u} : phase[w] # "written"
  BY UserAssumption DEF Commit, IInv, TypeOK
<1>3. activity' = mine[u] /\ edits' = edits + 1 /\ now' = now /\ stamp' = stamp
  BY DEF Commit
<1>4. \A w \in Users \ {u} : phase'[w] = phase[w] /\ version'[w] = version[w] /\ read'[w] = read[w]
  BY DEF Commit, Ends, IInv, TypeOK
<1>5. phase'[u] = "page"
  BY DEF Commit, Ends, IInv, TypeOK
<1>6. PageInv' /\ RequestInv' /\ LockInv'
  <2>1. activity' \in Int /\ activity < activity' /\ activity' <= now'
    BY <1>1, <1>3 DEF IInv, TypeOK, Times
  <2> DEFINE others == Users \ {u}
  <2>2. others \in SUBSET Users /\ \A w \in Users \ others : phase'[w] = "page"
    BY <1>5
  <2>3. \A w \in others : phase'[w] # "written" /\ version'[w] = version[w] /\ read'[w] = read[w]
    BY <1>2, <1>4
  <2>4. \A w \in others : phase'[w] = phase[w]
    BY <1>4
  <2>5. \A w \in Users : stamp'[w] = stamp[w]
    BY <1>3
  <2> HIDE DEF others
  <2> QED
    BY <1>3, <2>1, <2>2, <2>3, <2>4, <2>5, EditOvertakes
<1> QED
  BY <1>1, <1>3, <1>6 DEF IInv

LEMMA ElsewhereStep ==
  ASSUME Serial, IInv, TypeOK', NEW new \in Rows, EditElsewhere(new)
  PROVE  IInv'
<1>1. \A w \in Users : phase[w] # "written"
  BY UserAssumption DEF EditElsewhere, IInv, TypeOK
<1>2. activity' = now /\ activity < now /\ edits' = edits + 1 /\ now' = now
  BY DEF EditElsewhere, Serial, IInv, TypeOK, Times
<1>3. PageInv' /\ RequestInv' /\ LockInv'
  <2>1. activity' \in Int /\ activity < activity' /\ activity' <= now'
    BY <1>2 DEF IInv, TypeOK, Times
  <2>2. \A w \in Users : phase'[w] = phase[w] /\ version'[w] = version[w] /\ read'[w] = read[w]
                         /\ stamp'[w] = stamp[w]
    BY DEF EditElsewhere
  <2> QED
    BY <1>1, <1>2, <2>1, <2>2, EditOvertakes
<1> QED
  BY <1>2, <1>3 DEF IInv, TypeOK, Times

LEMMA InvStep == ASSUME Serial, IInv, [Next]_vars PROVE IInv'
<1>0. TypeOK'
  BY TypeStep DEF IInv
<1> USE <1>0 DEF IInv, TypeOK, Times, PageInv, RequestInv, LockInv
<1>1. CASE UNCHANGED vars
  BY <1>1 DEF vars
<1>2. CASE Tick
  BY <1>2 DEF Tick
<1>3. ASSUME NEW u \in Users, View(u) PROVE IInv'
  BY <1>3 DEF View
<1>4. ASSUME NEW u \in Users, SetBegins(u) PROVE IInv'
  BY <1>4 DEF SetBegins, Serial
<1>5. ASSUME NEW u \in Users, SetWrites(u) PROVE IInv'
  BY <1>5 DEF SetWrites, Serial
<1>6. ASSUME NEW u \in Users, SetFails(u) PROVE IInv'
  BY <1>6 DEF SetFails, Ends
<1>7. ASSUME NEW u \in Users, Commit(u) PROVE IInv'
  BY <1>7, CommitStep
\* The page after a rejection carries the activity the request read: that of the item, or
\* of the past.
<1>8. ASSUME NEW u \in Users, Reject(u) PROVE IInv'
  <2>1. /\ phase[u] = "checked"
        /\ stamp' = [stamp EXCEPT ![u] = IF @ = NoStamp THEN NoStamp ELSE read[u]]
    BY <1>8 DEF Reject, Serial
  <2>2. stamp[u] # NoStamp => read[u] <= activity /\ (read[u] = activity => told[u] = row)
    BY <2>1
  <2> QED
    BY <1>8, <2>1, <2>2 DEF Reject, Ends
\* A form that did not collide has no stamp or the item's activity, for something changes.
<1>9. ASSUME NEW u \in Users, NEW form \in Rows, Submit(u, form) PROVE IInv'
  <2>1. stamp[u] \in {NoStamp, activity}
    BY <1>9 DEF Submit, Collides
  <2> QED
    BY <1>9, <2>1 DEF Submit
<1>10. ASSUME NEW u \in Users, NEW form \in Rows, Refuse(u, form) PROVE IInv'
  BY <1>10 DEF Refuse
<1>11. ASSUME NEW new \in Rows, EditElsewhere(new) PROVE IInv'
  BY <1>11, ElsewhereStep
<1> QED
  BY <1>1, <1>2, <1>3, <1>4, <1>5, <1>6, <1>7, <1>8, <1>9, <1>10, <1>11 DEF Next, Serve

LEMMA Invariant == Serial /\ Spec => []IInv
<1>1. Init => IInv
  BY TypeInit, BoundAssumption DEF Init, IInv, TypeOK, Times, PageInv, RequestInv, LockInv
<1> SUFFICES ASSUME Serial PROVE Spec => []IInv
  OBVIOUS
<1>2. IInv /\ [Next]_vars => IInv'
  BY InvStep
<1> QED
  BY <1>1, <1>2, PTL DEF Spec

-----------------------------------------------------------------------------
(* The theorems. *)

\* What an edit replaces is what its author was shown: the edit collision detection and a
\* database that refuses the second update leave no gap between them.
THEOREM NoLostUpdate == Serial /\ Spec => NothingUnseenIsReplaced
<1> SUFFICES ASSUME Serial PROVE Spec => NothingUnseenIsReplaced
  OBVIOUS
<1>1. IInv /\ [Next]_vars =>
        [\A u \in Users : CommittedBy(u) /\ stamp[u] # NoStamp =>
           \A p \in Props : row'[p] # row[p] => row[p] = told[u][p]]_vars
  BY DEF IInv, LockInv, RequestInv, CommittedBy
<1> QED
  BY <1>1, Invariant, PTL DEF Spec, NothingUnseenIsReplaced

\* On any database: what a request has cached is the item as long as no edit was committed
\* since it was read.
ReadInv ==
  \A u \in Users : phase[u] # "page" =>
    version[u] <= edits /\ (version[u] = edits => cached[u] = row)

LEMMA ReadStep == ASSUME TypeOK, ReadInv, [Next]_vars PROVE ReadInv'
<1> USE DEF TypeOK, ReadInv
<1>1. CASE UNCHANGED vars
  BY <1>1 DEF vars
<1>2. CASE Tick
  BY <1>2 DEF Tick
<1>3. ASSUME NEW u \in Users, View(u) \/ SetBegins(u) \/ SetWrites(u) PROVE ReadInv'
  BY <1>3 DEF View, SetBegins, SetWrites
<1>4. ASSUME NEW u \in Users, SetFails(u) \/ Reject(u) PROVE ReadInv'
  BY <1>4 DEF SetFails, Reject, Ends
<1>5. ASSUME NEW u \in Users, Commit(u) PROVE ReadInv'
  BY <1>5 DEF Commit, Ends
<1>6. ASSUME NEW u \in Users, NEW form \in Rows, Submit(u, form) \/ Refuse(u, form) PROVE ReadInv'
  BY <1>6 DEF Submit, Refuse
<1>7. ASSUME NEW new \in Rows, EditElsewhere(new) PROVE ReadInv'
  BY <1>7 DEF EditElsewhere
<1> QED
  BY <1>1, <1>2, <1>3, <1>4, <1>5, <1>6, <1>7 DEF Next, Serve

TellsHistory == entry' = [p \in Changed(row', row) |-> row[p]]
\* Another edit was committed between the reading of the item and its update.
Overtaken(u) == CommittedBy(u) /\ version[u] < edits

LEMMA JournalStep ==
  ASSUME TypeOK, ReadInv, Next, EditCommitted
  PROVE  TellsHistory \/ \E u \in Users : Overtaken(u)
<1>1. ASSUME NEW u \in Users, Commit(u), version[u] = edits
      PROVE  TellsHistory
  <2>1. cached[u] = row
    BY <1>1 DEF Commit, ReadInv
  <2>2. Changed(row', row) = Written(u)
    BY <1>1, <2>1 DEF Commit, Written, Changed, TypeOK, Rows
  <2> QED
    BY <1>1, <2>1, <2>2 DEF Commit, TellsHistory
<1>2. ASSUME NEW u \in Users, Commit(u), version[u] # edits
      PROVE  Overtaken(u)
  BY <1>2 DEF Commit, Ends, ReadInv, TypeOK, Overtaken, CommittedBy, EditCommitted
<1>3. ASSUME NEW new \in Rows, EditElsewhere(new)
      PROVE  TellsHistory
  BY <1>3 DEF EditElsewhere, TellsHistory
<1>4. \/ \E u \in Users : Commit(u)
      \/ \E new \in Rows : EditElsewhere(new)
  BY DEF EditCommitted, Next, Serve, Tick, View, Submit, Refuse, SetBegins, SetWrites, SetFails,
         Reject, TypeOK
<1> QED
  BY <1>1, <1>2, <1>3, <1>4

\* The journal entry of an edit, made from what the request has cached, holds the values the
\* edit replaced, unless another edit came between the reading of the item and its update: on
\* any database, for any times of the edits and any rejections.
THEOREM JournalErrsOnlyOvertaken ==
  Spec => [][EditCommitted => TellsHistory \/ \E u \in Users : Overtaken(u)]_vars
<1>1. Init => TypeOK /\ ReadInv
  BY TypeInit DEF Init, ReadInv
<1>2. TypeOK /\ ReadInv /\ [Next]_vars => (TypeOK /\ ReadInv)'
  BY TypeStep, ReadStep
<1>3. TypeOK /\ ReadInv /\ [Next]_vars =>
        [EditCommitted => TellsHistory \/ \E u \in Users : Overtaken(u)]_vars
  BY JournalStep
<1> QED
  BY <1>1, <1>2, <1>3, PTL DEF Spec
=============================================================================
