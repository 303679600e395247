------------------------------ MODULE BlobFiles ------------------------------
(***************************************************************************)
(* roundup/backends/blobfiles.py: the content of one FileClass node, kept  *)
(* in the file system beside a SQL back end.  A write goes to 'file.tmp';  *)
(* commit() first commits the SQL transaction and then renames 'file.tmp'  *)
(* to 'file'; a reader that finds no 'file' performs that rename itself.   *)
(* Contents are version numbers.  One step is one file-system call, or a   *)
(* test and the call made at once when it succeeds.                        *)
(***************************************************************************)
EXTENDS Naturals

CONSTANTS Clients,
          MaxVersion,    \* bound on the contents ever written
          Sharing,       \* which sessions overlap: "serial", "readers", "oneeditor"
          CrashBetween,  \* may a client die between the SQL commit and the rename?
          ReadsFirst     \* does an editor read the content before replacing it,
                         \* as the web form's parser does?

ASSUME BoundAssumption == MaxVersion \in Nat /\ MaxVersion > 0
ASSUME SharingAssumption == Sharing \in {"serial", "readers", "oneeditor"}
ASSUME SwitchesAssumption == {CrashBetween, ReadsFirst} \subseteq BOOLEAN

Versions == 1..MaxVersion
NoFile == 0
Failed == MaxVersion + 1     \* what a read that raised IOError returned

VARIABLES
  file, tmp,   \* the two files: a version, or NoFile
  row,         \* is the node in the committed database?
  created,     \* has the node's id been handed out?
  last,        \* content of the last edit whose SQL transaction was committed
  ever,        \* contents of all of them
  next,        \* versions written so far
  kind,        \* per client: does its session edit?
  pc,          \* per client: where it is
  edited,      \* per client: content behind its queued doStoreFile, or NoFile
  got,         \* per client: result of its last read, NoFile before any
  crashed,     \* did a client die between the SQL commit and the rename?
  stranded     \* did the last such client leave an older 'file' to the readers?

vars == <<file, tmp, row, created, last, ever, next, kind, pc, edited, got, crashed, stranded>>
disk == <<file, tmp>>
history == <<last, ever, crashed, stranded>>

Committing == {"remove", "rename"}
Reading == {"exists", "tempexists", "cleanup", "recheck", "read"}

TypeOK ==
  /\ {file, tmp} \subseteq Versions \cup {NoFile}
  /\ row \in BOOLEAN
  /\ created \in BOOLEAN
  /\ last \in Versions \cup {NoFile} /\ ever \subseteq Versions
  /\ next \in 0..MaxVersion
  /\ kind \in [Clients -> {"reader", "editor"}]
  /\ pc \in [Clients -> {"idle", "open"} \cup Committing \cup Reading]
  /\ edited \in [Clients -> Versions \cup {NoFile}]
  /\ got \in [Clients -> Versions \cup {NoFile, Failed}]
  /\ crashed \in BOOLEAN /\ stranded \in BOOLEAN
  /\ \A c \in Clients : pc[c] \in Committing => kind[c] = "editor" /\ edited[c] # NoFile

Init ==
  /\ file = NoFile /\ tmp = NoFile /\ row = FALSE /\ created = FALSE
  /\ last = NoFile /\ ever = {} /\ next = 0
  /\ kind = [c \in Clients |-> "reader"]
  /\ pc = [c \in Clients |-> "idle"]
  /\ edited = [c \in Clients |-> NoFile]
  /\ got = [c \in Clients |-> NoFile]
  /\ crashed = FALSE /\ stranded = FALSE

Goto(c, label) == pc' = [pc EXCEPT ![c] = label]
Drop(c) == edited' = [edited EXCEPT ![c] = NoFile]
Unread(c) == got' = [got EXCEPT ![c] = NoFile]

-----------------------------------------------------------------------------
(* Sessions. *)

MayJoin(c, k) ==
  \A d \in Clients \ {c} :
    \/ pc[d] = "idle"
    \/ Sharing = "readers" /\ k = "reader" /\ kind[d] = "reader"
    \/ Sharing = "oneeditor" /\ "reader" \in {k, kind[d]}

Begin(c) ==
  /\ pc[c] = "idle"
  /\ \E k \in {"reader", "editor"} :
       MayJoin(c, k) /\ kind' = [kind EXCEPT ![c] = k]
  /\ Goto(c, "open")
  /\ UNCHANGED <<disk, row, created, history, next, edited, got>>

\* close() with no commit and no rollback, which is how the web interface ends a
\* request whose edit failed, and what a crash before commit() leaves: file.tmp stays.
Abandon(c) ==
  /\ pc[c] = "open"
  /\ Goto(c, "idle") /\ Drop(c) /\ Unread(c)
  /\ UNCHANGED <<disk, row, created, history, next, kind>>

Crash(c) ==
  /\ CrashBetween
  /\ pc[c] \in Committing
  /\ crashed' = TRUE /\ stranded' = (file \notin {NoFile, last})
  /\ Goto(c, "idle") /\ Drop(c) /\ Unread(c)
  /\ UNCHANGED <<disk, row, created, last, ever, next, kind>>

-----------------------------------------------------------------------------
(* storefile, commit, doStoreFile, rollbackStoreFile. *)

\* An id is created once, and until it is committed only its creator knows it.
MayWrite(c) == row \/ ~created \/ edited[c] # NoFile

\* (mutant) the content is written over 'file' at once
StorefileInPlace(c) ==
  /\ pc[c] = "open" /\ kind[c] = "editor"
  /\ MayWrite(c)
  /\ (ReadsFirst /\ row /\ edited[c] = NoFile) => got[c] \in Versions
  /\ next < MaxVersion
  /\ next' = next + 1
  /\ file' = next' /\ tmp' = next'
  /\ edited' = [edited EXCEPT ![c] = next']
  /\ created' = TRUE
  /\ Unread(c)
  /\ UNCHANGED <<row, history, kind, pc>>

Storefile(c) ==
  /\ pc[c] = "open" /\ kind[c] = "editor"
  /\ MayWrite(c)
  /\ (ReadsFirst /\ row /\ edited[c] = NoFile) => got[c] \in Versions
  /\ next < MaxVersion
  /\ next' = next + 1
  /\ tmp' = next'
  /\ edited' = [edited EXCEPT ![c] = next']
  /\ created' = TRUE
  /\ Unread(c)
  /\ UNCHANGED <<file, row, history, kind, pc>>

\* commit(): the SQL transaction first.
SqlCommit(c) ==
  /\ pc[c] = "open" /\ edited[c] # NoFile
  /\ row' = TRUE
  /\ last' = edited[c]
  /\ ever' = ever \cup {edited[c]}
  /\ Goto(c, "remove") /\ Unread(c)
  /\ UNCHANGED <<disk, created, next, kind, edited, crashed, stranded>>

DoStoreRemove(c) ==
  /\ pc[c] = "remove"
  /\ file' = NoFile /\ stranded' = FALSE
  /\ Goto(c, "rename")
  /\ UNCHANGED <<tmp, row, created, last, ever, crashed, next, kind, edited, got>>

\* os.rename raises when file.tmp is gone; the exception ends the session.
DoStoreRename(c) ==
  /\ pc[c] = "rename"
  /\ IF tmp # NoFile THEN file' = tmp /\ tmp' = NoFile /\ Goto(c, "open")
                     ELSE UNCHANGED disk /\ Goto(c, "idle")
  /\ Drop(c)
  /\ UNCHANGED <<row, created, history, next, kind, got>>

\* (mutant) the file removed is 'file'
RollbackRemovesFile(c) ==
  /\ pc[c] = "open" /\ edited[c] # NoFile
  /\ file' = NoFile
  /\ Drop(c) /\ Unread(c)
  /\ UNCHANGED <<tmp, row, created, history, next, kind, pc>>

\* rollbackStoreFile; filename() raises when file.tmp is gone.
Rollback(c) ==
  /\ pc[c] = "open" /\ edited[c] # NoFile
  /\ tmp' = NoFile
  /\ Goto(c, IF tmp # NoFile THEN "open" ELSE "idle")
  /\ Drop(c) /\ Unread(c)
  /\ UNCHANGED <<file, row, created, history, next, kind>>

-----------------------------------------------------------------------------
(* getfile and filename. *)

Returns(c, v) ==
  /\ got' = [got EXCEPT ![c] = IF v = NoFile THEN Failed ELSE v]
  /\ Goto(c, "open")
  /\ UNCHANGED <<disk, row, created, history, next, kind, edited>>

Continues(c, label) ==
  /\ Goto(c, label)
  /\ UNCHANGED <<row, created, history, next, kind, edited, got>>

\* (mutant) the queue is not consulted: an editor is given 'file'
ReadOwnIgnoringEdit(c) ==
  /\ pc[c] = "open" /\ edited[c] # NoFile
  /\ Returns(c, file)

\* An edit in progress: its own file.tmp.
ReadOwn(c) ==
  /\ pc[c] = "open" /\ edited[c] # NoFile
  /\ Returns(c, tmp)

\* Only the id of a node in the database is ever asked for.
ReadStarts(c) ==
  /\ pc[c] = "open" /\ edited[c] = NoFile /\ row
  /\ Continues(c, "exists") /\ UNCHANGED disk

\* (mutant) file.tmp is preferred when both exist
ReadExistsTempFirst(c) ==
  /\ pc[c] = "exists"
  /\ Continues(c, IF tmp # NoFile THEN "tempexists" ELSE "read")
  /\ UNCHANGED disk

ReadExists(c) ==
  /\ pc[c] = "exists"
  /\ Continues(c, IF file # NoFile THEN "read" ELSE "tempexists")
  /\ UNCHANGED disk

ReadTempExists(c) ==
  /\ pc[c] = "tempexists"
  /\ IF tmp # NoFile THEN Continues(c, "cleanup") /\ UNCHANGED disk
                     ELSE Returns(c, NoFile)

\* "Clean up, by performing the commit now", tolerating a lost race.
ReadCleanup(c) ==
  /\ pc[c] = "cleanup"
  /\ Continues(c, "recheck")
  /\ IF tmp # NoFile THEN file' = tmp /\ tmp' = NoFile ELSE UNCHANGED disk

ReadRecheck(c) ==
  /\ pc[c] = "recheck"
  /\ IF file # NoFile THEN Continues(c, "read") /\ UNCHANGED disk
                      ELSE Returns(c, NoFile)

ReadOpen(c) == pc[c] = "read" /\ Returns(c, file)

Next ==
  \E c \in Clients :
    \/ Begin(c) \/ Abandon(c) \/ Crash(c)
    \/ Storefile(c) \/ SqlCommit(c) \/ DoStoreRemove(c) \/ DoStoreRename(c)
    \/ Rollback(c)
    \/ ReadOwn(c) \/ ReadStarts(c) \/ ReadExists(c) \/ ReadTempExists(c)
    \/ ReadCleanup(c) \/ ReadRecheck(c) \/ ReadOpen(c)

Spec == Init /\ [][Next]_vars

-----------------------------------------------------------------------------
(* Properties. *)

\* "If a transaction is committed to the database, then the edit has in fact taken place": with
\* no commit under way the content of the last committed edit is in 'file', or in the 'file.tmp'
\* a read would promote, also when a commit died, unless it left an older 'file' there.
CommittedContentKept ==
  (row /\ ~stranded /\ \A c \in Clients : pc[c] \notin Committing)
    => file = last \/ (file = NoFile /\ tmp = last)

\* With the same exception a session that is not editing the file is given the last committed
\* content, whatever file.tmp was left behind, and however many readers repair a commit that
\* died; and the content is said to be missing only after one did.
ServesLatest ==
  \A c \in Clients : edited[c] = NoFile =>
    /\ got[c] \in Versions /\ ~stranded => got[c] = last
    /\ got[c] = Failed => crashed

\* A session that is editing the file is given its own content.
ServesOwnEdit ==
  \A c \in Clients :
    edited[c] # NoFile /\ got[c] # NoFile => got[c] = edited[c]

\* Whatever crashed, the content given to a session that is not editing the file
\* was committed once: the '.tmp' of a transaction that never was is ignored.
ServedWasCommitted ==
  \A c \in Clients :
    edited[c] = NoFile /\ got[c] \in Versions => got[c] \in ever
=============================================================================
