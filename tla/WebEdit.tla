------------------------------- MODULE WebEdit -------------------------------
(***************************************************************************)
(* Editing one item through the web interface of roundup on an SQL back    *)
(* end (src/bpo-roundup/roundup/cgi).  An edit page carries the item's     *)
(* activity time as @lastactivity; EditItemAction compares it with the     *)
(* activity it reads, and refuses the edit when somebody else's came in    *)
(* between.  Requests run in processes of their own: what a request has    *)
(* read is cached, and its writes become visible when it commits.          *)
(***************************************************************************)
EXTENDS Integers, FiniteSets

CONSTANTS Users, Nobody, Props, Values,
          NoStamp,          \* of a form without @lastactivity: no Time
          Created,          \* rows the item may start with
          FirstUpdaterWins, \* PostgreSQL above 'read committed': the update of a row that
                            \* was changed since the transaction began is an error
          Quick,            \* two edits of the item may fall in one second
          RejectLate,       \* an edit may be rejected after the item was written
          MaxTime, MaxEdits \* bounds: seconds, and edits of the item

ASSUME RowAssumption == Created \subseteq [Props -> Values]
ASSUME UserAssumption == Nobody \notin Users
ASSUME SettingAssumption == FirstUpdaterWins \in BOOLEAN /\ Quick \in BOOLEAN /\ RejectLate \in BOOLEAN
ASSUME StampAssumption == NoStamp \notin Int
ASSUME BoundAssumption == MaxTime \in Nat /\ MaxEdits \in Nat

VARIABLES
  now,       \* the clock in whole seconds: both sides of the comparison are truncated
  row, activity, \* the item as committed
  edits, entry,  \* the length of its journal, and its last entry: the old values
  lock,      \* whose uncommitted update locks the row
  fields, stamp, told, \* of each user's page: the form, its @lastactivity, and the values
                       \* of the item the user was shown or warned of
  phase,     \* of each user's request: "page" (none), "checked", "stamped", "written"
  cached, read, version, \* the row and activity this request has read, after how many edits
  mine       \* the activity time this request writes

item == <<row, activity, edits, entry>>
page == <<fields, stamp, told>>
request == <<phase, cached, read, version, mine>>
vars == <<now, item, lock, page, request>>

Rows == [Props -> Values]
Times == 0..MaxTime
Entries == UNION {[P -> Values] : P \in SUBSET Props}

TypeOK ==
  /\ now \in Times /\ activity \in Times
  /\ row \in Rows /\ edits \in Nat /\ entry \in Entries
  /\ lock \in Users \cup {Nobody}
  /\ \A u \in Users : lock = u <=> phase[u] = "written"
  /\ fields \in [Users -> Rows] /\ told \in [Users -> Rows] /\ cached \in [Users -> Rows]
  /\ stamp \in [Users -> Times \cup {NoStamp}] /\ read \in [Users -> Times] /\ mine \in [Users -> Times]
  /\ version \in [Users -> Nat]
  /\ phase \in [Users -> {"page", "checked", "stamped", "written"}]

Init ==
  /\ now = 0 /\ activity = 0 /\ edits = 0 /\ entry = <<>> /\ lock = Nobody
  /\ row \in Created
  /\ fields = [u \in Users |-> row] /\ told = [u \in Users |-> row]
  /\ stamp = [u \in Users |-> 0]
  /\ phase = [u \in Users |-> "page"]
  /\ cached = [u \in Users |-> row] /\ version = [u \in Users |-> 0]
  /\ read = [u \in Users |-> 0]
  /\ mine = [u \in Users |-> 0]

Tick ==
  /\ now < MaxTime
  /\ now' = now + 1
  /\ UNCHANGED <<item, lock, page, request>>

-----------------------------------------------------------------------------
\* (mutant) the page is stamped with the time it was made
ViewStampedNow(u) ==
  /\ phase[u] = "page"
  /\ fields' = [fields EXCEPT ![u] = row]
  /\ stamp' = [stamp EXCEPT ![u] = now]
  /\ told' = [told EXCEPT ![u] = row]
  /\ UNCHANGED <<now, item, lock, request>>

\* A GET of the item's page: submit() sneaks in the item's activity, and a form made otherwise
\* does not carry it.
View(u) ==
  /\ phase[u] = "page"
  /\ fields' = [fields EXCEPT ![u] = row]
  /\ \E s \in {activity, NoStamp} : stamp' = [stamp EXCEPT ![u] = s]
  /\ told' = [told EXCEPT ![u] = row]
  /\ UNCHANGED <<now, item, lock, request>>

\* parsePropsFromForm: the properties the form would change.
Changed(form, current) == {p \in Props : form[p] # current[p]}

\* detectCollision, and lastUserActivity's None.
Collides(u, form) ==
  stamp[u] # NoStamp /\ stamp[u] < activity /\ Changed(form, row) # {}

EditsUnderWay == Cardinality({u \in Users : phase[u] # "page"})

\* handle() up to _editnodes.  The node is read once, and stays in the request's cache.
Submit(u, form) ==
  /\ phase[u] = "page" /\ edits + EditsUnderWay < MaxEdits
  /\ ~Collides(u, form) /\ Changed(form, row) # {}
  /\ fields' = [fields EXCEPT ![u] = form]
  /\ cached' = [cached EXCEPT ![u] = row]
  /\ read' = [read EXCEPT ![u] = activity]
  /\ version' = [version EXCEPT ![u] = edits]
  /\ phase' = [phase EXCEPT ![u] = "checked"]
  /\ UNCHANGED <<now, item, lock, stamp, told, mine>>

\* handleCollision, and the page rendered after it: the message names what differs, the form
\* keeps the user's values (form_wins), and its @lastactivity is the item's present one.
Refuse(u, form) ==
  /\ phase[u] = "page" /\ edits < MaxEdits
  /\ Collides(u, form)
  /\ fields' = [fields EXCEPT ![u] = form]
  /\ stamp' = [stamp EXCEPT ![u] = activity]
  /\ told' = [told EXCEPT ![u] = row]
  /\ UNCHANGED <<now, item, lock, request>>

\* A request is over, and with it what it had read.
Ends(u) ==
  /\ phase' = [phase EXCEPT ![u] = "page"]
  /\ cached' = [cached EXCEPT ![u] = fields[u]]
  /\ read' = [read EXCEPT ![u] = 0] /\ version' = [version EXCEPT ![u] = 0]
  /\ mine' = [mine EXCEPT ![u] = 0]

\* set_inner: `propvalues['activity'] = date.Date()`, before the row is written.
SetBegins(u) ==
  /\ phase[u] = "checked"
  /\ Quick \/ now > activity
  /\ mine' = [mine EXCEPT ![u] = now]
  /\ phase' = [phase EXCEPT ![u] = "stamped"]
  /\ UNCHANGED <<now, item, lock, page, cached, read, version>>

\* setnode's UPDATE waits for the row's lock.
SetWrites(u) ==
  /\ phase[u] = "stamped" /\ lock = Nobody
  /\ FirstUpdaterWins => version[u] = edits
  /\ lock' = u
  /\ phase' = [phase EXCEPT ![u] = "written"]
  /\ UNCHANGED <<now, item, page, cached, read, version, mine>>

\* The UPDATE is refused: the exception ends the request, the form is still in the browser.
SetFails(u) ==
  /\ phase[u] = "stamped" /\ lock = Nobody
  /\ FirstUpdaterWins /\ version[u] # edits
  /\ Ends(u)
  /\ UNCHANGED <<now, item, lock, page>>

Written(u) == Changed(fields[u], cached[u])

\* (mutant) the journal is given the new values
CommitJournalsNew(u) ==
  /\ phase[u] = "written"
  /\ row' = [p \in Props |-> IF p \in Written(u) THEN fields[u][p] ELSE row[p]]
  /\ activity' = mine[u]
  /\ edits' = edits + 1 /\ entry' = [p \in Written(u) |-> fields[u][p]]
  /\ lock' = Nobody
  /\ Ends(u)
  /\ UNCHANGED <<now, page>>

\* (mutant) the connection keeps the lock
CommitKeepsLock(u) ==
  /\ phase[u] = "written"
  /\ row' = [p \in Props |-> IF p \in Written(u) THEN fields[u][p] ELSE row[p]]
  /\ activity' = mine[u]
  /\ edits' = edits + 1 /\ entry' = [p \in Written(u) |-> cached[u][p]]
  /\ Ends(u)
  /\ UNCHANGED <<now, lock, page>>

\* addjournal, the commit and the redirect.  The columns that differ from the cached row were
\* updated, and the cached values went to the journal.
Commit(u) ==
  /\ phase[u] = "written"
  /\ row' = [p \in Props |-> IF p \in Written(u) THEN fields[u][p] ELSE row[p]]
  /\ activity' = mine[u]
  /\ edits' = edits + 1 /\ entry' = [p \in Written(u) |-> cached[u][p]]
  /\ lock' = Nobody
  /\ Ends(u)
  /\ UNCHANGED <<now, page>>

\* An auditor rejects the edit, of this item or of another one of the same form: nothing is
\* committed, but the page is rendered from the transaction as it stands, so that its
\* @lastactivity may be a time that was never committed.
Reject(u) ==
  /\ phase[u] = "checked" \/ (RejectLate /\ phase[u] = "written")
  /\ stamp' = [stamp EXCEPT ![u] = IF @ = NoStamp THEN NoStamp
                                   ELSE IF phase[u] = "written" THEN mine[u] ELSE read[u]]
  /\ lock' = IF lock = u THEN Nobody ELSE lock
  /\ Ends(u)
  /\ UNCHANGED <<now, item, fields, told>>

\* The mail gateway, XML-RPC or roundup-admin sets properties: no form, no collision.
EditElsewhere(new) ==
  /\ lock = Nobody /\ edits + EditsUnderWay < MaxEdits
  /\ Quick \/ now > activity
  /\ Changed(new, row) # {}
  /\ row' = new
  /\ activity' = now
  /\ edits' = edits + 1 /\ entry' = [p \in Changed(new, row) |-> row[p]]
  /\ UNCHANGED <<now, lock, page, request>>

-----------------------------------------------------------------------------
Serve(u) == SetBegins(u) \/ SetWrites(u) \/ SetFails(u) \/ Commit(u) \/ Reject(u)

Next ==
  \/ Tick
  \/ \E u \in Users :
       \/ View(u) \/ Serve(u)
       \/ \E form \in Rows : Submit(u, form) \/ Refuse(u, form)
  \/ \E new \in Rows : EditElsewhere(new)

Spec == Init /\ [][Next]_vars

-----------------------------------------------------------------------------
(* Properties. *)

EditCommitted == edits' = edits + 1
CommittedBy(u) == EditCommitted /\ phase[u] = "written" /\ phase'[u] = "page"

\* 'When a form is submitted, the user will be informed if someone else has edited the item
\* at the same time they tried to': what an edit replaces is what its author was last shown,
\* or warned of, in the page the edit came from, if its form carries @lastactivity.
NothingUnseenIsReplaced ==
  [][\A u \in Users : CommittedBy(u) /\ stamp[u] # NoStamp =>
       \A p \in Props : row'[p] # row[p] => row[p] = told[u][p]]_vars

\* An entry of the journal names the properties its edit changed, each with the value the
\* edit replaced: read backwards the journal leads through the values the item has had.
JournalTellsHistory ==
  [][EditCommitted =>
       entry' = [p \in Changed(row', row) |-> row[p]]]_vars
=============================================================================
