--------------------------- MODULE BlobFilesProofs ---------------------------
(***************************************************************************)
(* Theorems about BlobFiles, for any clients and contents, where no        *)
(* session overlaps one that edits: what a read returns, and where the     *)
(* content of a committed edit is, whichever sessions were abandoned or    *)
(* died before.                                                            *)
(***************************************************************************)
EXTENDS BlobFiles, TLAPS

\* No session overlaps one that edits.
Alone == Sharing # "oneeditor"
\* No commit dies, or editors read before they write.
Repaired == ReadsFirst \/ ~CrashBetween

\* Only an editor has content to commit, and none outlives its session.
EditorInv ==
  \A c \in Clients : edited[c] # NoFile => kind[c] = "editor" /\ pc[c] # "idle"

SessionInv ==
  /\ \A c, d \in Clients :
       c # d /\ pc[c] # "idle" /\ pc[d] # "idle" => kind[c] = "reader" /\ kind[d] = "reader"
  /\ \A c \in Clients :
       /\ pc[c] = "idle" => edited[c] = NoFile /\ got[c] = NoFile
       /\ edited[c] # NoFile =>
            kind[c] = "editor" /\ pc[c] \in {"open"} \cup Committing /\ tmp = edited[c]
       /\ pc[c] \in Reading => row /\ edited[c] = NoFile
       /\ pc[c] \in Committing =>
            row /\ edited[c] # NoFile /\ got[c] = NoFile /\ last = edited[c]
       /\ pc[c] = "rename" => file = NoFile
       /\ got[c] # NoFile => IF edited[c] = NoFile THEN row ELSE got[c] = edited[c]
  /\ ~row => file = NoFile
  /\ row => last \in ever

\* 'file' has the last committed content, but while an edit is being committed; a commit that
\* died after or without an older 'file' has left it in 'file.tmp', which a read promotes before
\* anybody edits.
LatestInv ==
  /\ stranded => crashed
  /\ crashed => CrashBetween
  /\ \A c \in Clients :
       /\ pc[c] \in {"tempexists", "cleanup", "recheck"} => crashed
       /\ edited[c] = NoFile /\ got[c] = Failed => crashed
  /\ row /\ ~stranded =>
       /\ \/ file = last \/ \E c \in Clients : pc[c] \in Committing
          \/ crashed /\ file = NoFile /\ tmp = last /\ \A c \in Clients : edited[c] = NoFile
       /\ \A c \in Clients :
            /\ pc[c] \in {"tempexists", "cleanup"} => file = NoFile \/ tmp = NoFile
            /\ pc[c] \in {"recheck", "read"} => file = last
            /\ edited[c] = NoFile /\ got[c] \in Versions => got[c] = last /\ file = last

\* Whatever died, 'file' has committed content; and when it is not there, so has 'file.tmp',
\* which no editor replaces before a read has promoted it.
PromotedInv ==
  /\ file \in ever \cup {NoFile}
  /\ row /\ file = NoFile =>
       tmp \in ever /\ \A c \in Clients : edited[c] # NoFile => pc[c] \in Committing
  /\ \A c \in Clients :
       /\ pc[c] \in {"tempexists", "cleanup"} => file = NoFile \/ tmp = NoFile
       /\ pc[c] = "read" => file # NoFile
       /\ edited[c] = NoFile /\ got[c] \in Versions => got[c] \in ever /\ file # NoFile

IInv == SessionInv /\ (Repaired => LatestInv)

USE BoundAssumption, SharingAssumption, SwitchesAssumption
USE DEF Versions, NoFile, Failed, Committing, Reading, disk, history

\* What one client does.
Step(c) ==
  \/ Begin(c) \/ Abandon(c) \/ Crash(c)
  \/ Storefile(c) \/ SqlCommit(c) \/ DoStoreRemove(c) \/ DoStoreRename(c) \/ Rollback(c)
  \/ ReadOwn(c) \/ ReadStarts(c) \/ ReadExists(c) \/ ReadTempExists(c)
  \/ ReadCleanup(c) \/ ReadRecheck(c) \/ ReadOpen(c)

-----------------------------------------------------------------------------
(* Every step keeps the types and the three invariants. *)

LEMMA TypeStep ==
  ASSUME TypeOK, EditorInv, NEW c \in Clients, Step(c)
  PROVE  TypeOK' /\ EditorInv'
<1> USE DEF TypeOK, EditorInv, Goto, Drop, Unread
<1>1. CASE Begin(c)
  BY <1>1 DEF Begin, MayJoin
<1>2. CASE Abandon(c)
  BY <1>2 DEF Abandon
<1>3. CASE Crash(c)
  BY <1>3 DEF Crash
<1>4. CASE Storefile(c)
  BY <1>4 DEF Storefile, MayWrite
<1>5. CASE SqlCommit(c)
  BY <1>5 DEF SqlCommit
<1>6. CASE DoStoreRemove(c)
  BY <1>6 DEF DoStoreRemove
<1>7. CASE DoStoreRename(c)
  BY <1>7 DEF DoStoreRename
<1>8. CASE Rollback(c)
  BY <1>8 DEF Rollback
<1>9. CASE ReadOwn(c)
  BY <1>9 DEF ReadOwn, Returns
<1>10. CASE ReadStarts(c)
  BY <1>10 DEF ReadStarts, Continues
<1>11. CASE ReadExists(c)
  BY <1>11 DEF ReadExists, Continues
<1>12. CASE ReadTempExists(c)
  BY <1>12 DEF ReadTempExists, Returns, Continues
<1>13. CASE ReadCleanup(c)
  BY <1>13 DEF ReadCleanup, Continues
<1>14. CASE ReadRecheck(c)
  BY <1>14 DEF ReadRecheck, Returns, Continues
<1>15. CASE ReadOpen(c)
  BY <1>15 DEF ReadOpen, Returns
<1> QED
  BY <1>1, <1>2, <1>3, <1>4, <1>5, <1>6, <1>7, <1>8, <1>9, <1>10, <1>11, <1>12, <1>13, <1>14, <1>15 DEF Step

LEMMA SessionStep ==
  ASSUME Alone, TypeOK, SessionInv, NEW c \in Clients, Step(c)
  PROVE  SessionInv'
<1> USE DEF Alone, TypeOK, SessionInv, Goto, Drop, Unread
<1>1. CASE Begin(c)
  BY <1>1 DEF Begin, MayJoin
<1>2. CASE Abandon(c)
  BY <1>2 DEF Abandon
<1>3. CASE Crash(c)
  BY <1>3 DEF Crash
<1>4. CASE Storefile(c)
  BY <1>4 DEF Storefile, MayWrite
<1>5. CASE SqlCommit(c)
  BY <1>5 DEF SqlCommit
<1>6. CASE DoStoreRemove(c)
  BY <1>6 DEF DoStoreRemove
<1>7. CASE DoStoreRename(c)
  BY <1>7 DEF DoStoreRename
<1>8. CASE Rollback(c)
  BY <1>8 DEF Rollback
<1>9. CASE ReadOwn(c)
  BY <1>9 DEF ReadOwn, Returns
<1>10. CASE ReadStarts(c)
  BY <1>10 DEF ReadStarts, Continues
<1>11. CASE ReadExists(c)
  BY <1>11 DEF ReadExists, Continues
<1>12. CASE ReadTempExists(c)
  BY <1>12 DEF ReadTempExists, Returns, Continues
<1>13. CASE ReadCleanup(c)
  BY <1>13 DEF ReadCleanup, Continues
<1>14. CASE ReadRecheck(c)
  BY <1>14 DEF ReadRecheck, Returns, Continues
<1>15. CASE ReadOpen(c)
  BY <1>15 DEF ReadOpen, Returns
<1> QED
  BY <1>1, <1>2, <1>3, <1>4, <1>5, <1>6, <1>7, <1>8, <1>9, <1>10, <1>11, <1>12, <1>13, <1>14, <1>15 DEF Step

LEMMA LatestStep ==
  ASSUME Alone, Repaired, TypeOK, SessionInv, LatestInv, NEW c \in Clients, Step(c)
  PROVE  LatestInv'
<1> USE DEF Repaired, TypeOK, SessionInv, LatestInv, Goto, Drop, Unread
<1>1. CASE Begin(c)
  BY <1>1 DEF Begin, MayJoin
<1>2. CASE Abandon(c)
  BY <1>2 DEF Abandon
<1>3. CASE Crash(c)
  BY <1>3 DEF Crash
<1>4. CASE Storefile(c)
  BY <1>4 DEF Storefile, MayWrite
<1>5. CASE SqlCommit(c)
  BY <1>5 DEF SqlCommit
<1>6. CASE DoStoreRemove(c)
  BY <1>6 DEF DoStoreRemove
<1>7. CASE DoStoreRename(c)
  BY <1>7 DEF DoStoreRename
<1>8. CASE Rollback(c)
  BY <1>8 DEF Rollback
<1>9. CASE ReadOwn(c)
  BY <1>9 DEF ReadOwn, Returns
<1>10. CASE ReadStarts(c)
  BY <1>10 DEF ReadStarts, Continues
<1>11. CASE ReadExists(c)
  BY <1>11 DEF ReadExists, Continues
<1>12. CASE ReadTempExists(c)
  BY <1>12 DEF ReadTempExists, Returns, Continues
<1>13. CASE ReadCleanup(c)
  BY <1>13 DEF ReadCleanup, Continues
<1>14. CASE ReadRecheck(c)
  BY <1>14 DEF ReadRecheck, Returns, Continues
<1>15. CASE ReadOpen(c)
  BY <1>15 DEF ReadOpen, Returns
<1> QED
  BY <1>1, <1>2, <1>3, <1>4, <1>5, <1>6, <1>7, <1>8, <1>9, <1>10, <1>11, <1>12, <1>13, <1>14, <1>15 DEF Step

LEMMA PromotedStep ==
  ASSUME ReadsFirst, TypeOK, SessionInv, PromotedInv, NEW c \in Clients, Step(c)
  PROVE  PromotedInv'
<1> USE DEF TypeOK, SessionInv, PromotedInv, Goto, Drop, Unread
<1>1. CASE Begin(c)
  BY <1>1 DEF Begin, MayJoin
<1>2. CASE Abandon(c)
  BY <1>2 DEF Abandon
<1>3. CASE Crash(c)
  BY <1>3 DEF Crash
<1>4. CASE Storefile(c)
  BY <1>4 DEF Storefile, MayWrite
<1>5. CASE SqlCommit(c)
  BY <1>5 DEF SqlCommit
<1>6. CASE DoStoreRemove(c)
  BY <1>6 DEF DoStoreRemove
<1>7. CASE DoStoreRename(c)
  BY <1>7 DEF DoStoreRename
<1>8. CASE Rollback(c)
  BY <1>8 DEF Rollback
<1>9. CASE ReadOwn(c)
  BY <1>9 DEF ReadOwn, Returns
<1>10. CASE ReadStarts(c)
  BY <1>10 DEF ReadStarts, Continues
<1>11. CASE ReadExists(c)
  BY <1>11 DEF ReadExists, Continues
<1>12. CASE ReadTempExists(c)
  BY <1>12 DEF ReadTempExists, Returns, Continues
<1>13. CASE ReadCleanup(c)
  BY <1>13 DEF ReadCleanup, Continues
<1>14. CASE ReadRecheck(c)
  BY <1>14 DEF ReadRecheck, Returns, Continues
<1>15. CASE ReadOpen(c)
  BY <1>15 DEF ReadOpen, Returns
<1> QED
  BY <1>1, <1>2, <1>3, <1>4, <1>5, <1>6, <1>7, <1>8, <1>9, <1>10, <1>11, <1>12, <1>13, <1>14, <1>15 DEF Step

-----------------------------------------------------------------------------
(* The theorems. *)

LEMMA InitTypes == Init => TypeOK /\ EditorInv
<1>1. ASSUME Init PROVE TypeOK
  <2>1. /\ kind \in [Clients -> {"reader", "editor"}]
        /\ pc \in [Clients -> {"idle", "open"} \cup Committing \cup Reading]
        /\ edited \in [Clients -> Versions \cup {NoFile}]
        /\ got \in [Clients -> Versions \cup {NoFile, Failed}]
        /\ \A c \in Clients : pc[c] \notin Committing
    BY <1>1 DEF Init
  <2>2. /\ file = NoFile /\ tmp = NoFile /\ last = NoFile /\ ever = {} /\ next = 0
        /\ row \in BOOLEAN /\ created \in BOOLEAN /\ crashed \in BOOLEAN /\ stranded \in BOOLEAN
    BY <1>1 DEF Init
  <2>3. next \in 0..MaxVersion /\ ever \subseteq Versions
    BY <2>2
  <2> QED
    BY <2>1, <2>2, <2>3 DEF TypeOK
<1> QED
  BY <1>1 DEF Init, EditorInv

LEMMA InitInv == Init => IInv /\ PromotedInv
  BY DEF Init, IInv, SessionInv, LatestInv, PromotedInv

\* The types, whichever sessions overlap, and that a client in the middle of commit() is an
\* editor with content to move.
THEOREM TypeCorrect == Spec => []TypeOK
<1>1. Init => TypeOK /\ EditorInv
  BY InitTypes
<1>2. TypeOK /\ EditorInv /\ [Next]_vars => TypeOK' /\ EditorInv'
  <2> SUFFICES ASSUME TypeOK, EditorInv, [Next]_vars PROVE TypeOK' /\ EditorInv'
    OBVIOUS
  <2>1. ASSUME NEW c \in Clients, Step(c) PROVE TypeOK' /\ EditorInv'
    BY <2>1, TypeStep
  <2>2. CASE UNCHANGED vars
    BY <2>2 DEF vars, TypeOK, EditorInv
  <2> QED
    BY <2>1, <2>2 DEF Next, Step
<1> QED
  BY <1>1, <1>2, PTL DEF Spec

LEMMA Stutter ==
  ASSUME IInv, UNCHANGED vars
  PROVE  IInv' /\ (PromotedInv => PromotedInv')
  BY DEF vars, IInv, PromotedInv, SessionInv, LatestInv

LEMMA NextInv ==
  ASSUME Alone
  PROVE  TypeOK /\ IInv /\ [Next]_vars => IInv'
<1> SUFFICES ASSUME TypeOK, IInv, [Next]_vars PROVE IInv'
  OBVIOUS
<1>1. ASSUME NEW c \in Clients, Step(c) PROVE IInv'
  BY <1>1, SessionStep, LatestStep DEF IInv
<1> QED
  BY <1>1, Stutter DEF Next, Step

LEMMA NextPromoted ==
  ASSUME ReadsFirst
  PROVE  TypeOK /\ IInv /\ PromotedInv /\ [Next]_vars => PromotedInv'
<1> SUFFICES ASSUME TypeOK, IInv, PromotedInv, [Next]_vars PROVE PromotedInv'
  OBVIOUS
<1>1. ASSUME NEW c \in Clients, Step(c) PROVE PromotedInv'
  BY <1>1, PromotedStep DEF IInv
<1> QED
  BY <1>1, Stutter DEF Next, Step

\* The invariant of the sessions and the two files.
THEOREM Invariance == Alone /\ Spec => []IInv
<1> SUFFICES ASSUME Alone PROVE Spec => []IInv
  OBVIOUS
<1> QED
  BY InitInv, NextInv, TypeCorrect, PTL DEF Spec

\* getfile returns to a session that has stored content its own, until it commits or rolls back.
THEOREM OwnEditIsServed == Alone /\ Spec => []ServesOwnEdit
<1>1. IInv => ServesOwnEdit
  BY DEF IInv, SessionInv, ServesOwnEdit
<1> QED
  BY <1>1, Invariance, PTL

\* After commit() has returned the content is in 'file', and no abandoned 'file.tmp', rollback
\* or reader that promotes displaces it; after one that died it is in 'file.tmp' until a read
\* promotes it, unless there is an older 'file'.
THEOREM CommitsAreKept == Alone /\ Repaired /\ Spec => []CommittedContentKept
<1> SUFFICES ASSUME Alone, Repaired PROVE Spec => []CommittedContentKept
  OBVIOUS
<1>1. IInv => CommittedContentKept
  BY DEF IInv, LatestInv, CommittedContentKept
<1> QED
  BY <1>1, Invariance, PTL

\* Likewise every read, by any number of overlapping readers that find a commit to repair,
\* returns that content, or fails; and none fails unless a commit died.
THEOREM ReadsTheLatest == Alone /\ Repaired /\ Spec => []ServesLatest
<1> SUFFICES ASSUME Alone, Repaired PROVE Spec => []ServesLatest
  OBVIOUS
<1>1. IInv => ServesLatest
  BY DEF IInv, LatestInv, SessionInv, TypeOK, ServesLatest
<1> QED
  BY <1>1, Invariance, PTL

\* And where editors read before they write, no read ever returns content that was never
\* committed, although commits die between the SQL transaction and the rename.
THEOREM ReadsTheCommitted == Alone /\ ReadsFirst /\ Spec => []ServedWasCommitted
<1> SUFFICES ASSUME Alone, ReadsFirst PROVE Spec => []ServedWasCommitted
  OBVIOUS
<1>1. Spec => []PromotedInv
  BY InitInv, NextPromoted, Invariance, TypeCorrect, PTL DEF Spec
<1>2. PromotedInv => ServedWasCommitted
  BY DEF PromotedInv, ServedWasCommitted
<1> QED
  BY <1>1, <1>2, PTL
=============================================================================
