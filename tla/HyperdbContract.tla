--------------------------- MODULE HyperdbContract ---------------------------
(***************************************************************************)
(* What roundup.hyperdb.Database promises of its transactions, for any     *)
(* back end: `committed` is what another session would read, `view` is     *)
(* what this session reads.  An operation changes the view only.  A commit *)
(* makes the store equal to the view, one node at a time (the back ends    *)
(* without a SQL engine are not atomic), and every other way of ending a   *)
(* transaction (rollback, close, crash) makes the view the store again.    *)
(* After an operation has raised, the view is "broken": nothing is         *)
(* promised of it and it must not be committed.                            *)
(***************************************************************************)
CONSTANTS Ids,      \* node ids
          Node,     \* node values
          NoNode    \* no node under an id

VARIABLES committed, view, phase

cvars == <<committed, view, phase>>

Phases == {"closed", "open", "broken", "committing"}

Init ==
  /\ committed = [i \in Ids |-> NoNode]
  /\ view = committed
  /\ phase = "closed"

Open ==
  /\ phase = "closed"
  /\ phase' = "open"
  /\ UNCHANGED <<committed, view>>

\* One operation edits at most one node, and may raise half way through.
Edit ==
  /\ phase = "open"
  /\ phase' \in {"open", "broken"}
  /\ \E i \in Ids, n \in Node \cup {NoNode} : view' = [view EXCEPT ![i] = n]
  /\ UNCHANGED committed

BeginCommit ==
  /\ phase = "open"
  /\ phase' = "committing"
  /\ UNCHANGED <<committed, view>>

Flush(i) ==
  /\ phase = "committing"
  /\ committed' = [committed EXCEPT ![i] = view[i]]
  /\ UNCHANGED <<view, phase>>

EndCommit ==
  /\ phase = "committing"
  /\ committed = view
  /\ phase' = "open"
  /\ UNCHANGED <<committed, view>>

FailCommit ==
  /\ phase = "committing"
  /\ phase' = "broken"
  /\ UNCHANGED <<committed, view>>

\* Rollback or close; a commit under way ends so only when the process dies.
Abandon ==
  /\ \/ phase \in {"open", "broken"} /\ phase' \in {"open", "closed"}
     \/ phase = "committing" /\ phase' = "closed"
  /\ view' = committed
  /\ UNCHANGED committed

Next ==
  \/ Open \/ Edit \/ BeginCommit \/ EndCommit \/ FailCommit \/ Abandon
  \/ \E i \in Ids : Flush(i)

Spec == Init /\ [][Next]_cvars
=============================================================================
