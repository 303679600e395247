----------------------------- MODULE MailGateway -----------------------------
(***************************************************************************)
(* The mail gateway of roundup (src/bpo-roundup/roundup/mailgw.py): runs   *)
(* of roundup-mailgw, started by cron, take the mails from a POP or IMAP   *)
(* server or a mailbox file, and make each a change of the tracker, or     *)
(* bounce it.  The tracker's commit, the mails that are sent and the       *)
(* removal from the server are steps of their own, between which a run     *)
(* may end.  The server and the database are external.                     *)
(***************************************************************************)
EXTENDS Integers, FiniteSets

CONSTANTS Count, \* the mails are numbered in the order of their arrival
          Gateways, NoGateway,
          MtaLocks, \* what delivers into a mailbox file respects the gateway's flock
          MaxAborts, \* bound: runs that end before their time
          MaxFaults  \* bound: failures of the database, or of mails to the nosy list

ASSUME SettingAssumption ==
  Count \in Nat /\ MtaLocks \in BOOLEAN /\ MaxAborts \in Nat /\ MaxFaults \in Nat
ASSUME GatewayAssumption == IsFiniteSet(Gateways) /\ NoGateway \notin Gateways

Mails == 1..Count

Sources == {"mailbox", "pop", "imap"}
\* What the gateway makes of a mail: no sender to answer; IgnoreMessage; help, a usage error or
\* Unauthorized before the author is committed; or after that; a change of the tracker.
Kinds == {"unsigned", "ignored", "refused", "rejected", "good"}

VARIABLES
  source, overlap, kind, \* overlap: cron may start a run on an IMAP server during another
  undelivered, spool, \* mails to come, and those on the server or in the file
  flagged,            \* IMAP's \Deleted
  locker,             \* which run has the POP maildrop or the mailbox file
  phase, mail,        \* of each run: its step, and the mail in hand or NoMail
  listed, handled,    \* the mails it has found, and come to the end of; POP has deleted them
  accounts,           \* accounts of the author of the mails, who has none at first
  changed, notified,  \* how often a mail has changed the tracker, and gone to its nosy list
  told,               \* mails that were bounced to their senders or to the administrator
  \* history
  squashed,           \* mails whose bounce could not be sent
  raised,             \* mails whose bounce raised an exception
  aborts, faults

server == <<undelivered, spool, flagged, locker>>
run == <<phase, mail, listed, handled>>
tracker == <<accounts, changed, notified>>
answers == <<told, squashed, raised>>
vars == <<source, overlap, kind, server, run, tracker, answers, aborts, faults>>

NoMail == 0
InHand(g) == phase[g] \notin {"idle", "next", "end"}

RunOK(g) ==
  /\ source # "imap" => (phase[g] # "idle" <=> locker = g)
  /\ handled[g] \subseteq listed[g] /\ (phase[g] = "idle" => listed[g] = {})
  /\ IF InHand(g) THEN mail[g] \in listed[g] \ handled[g] ELSE mail[g] = NoMail

ServerOK ==
  /\ source \in Sources /\ overlap \in BOOLEAN /\ (overlap => source = "imap")
  /\ kind \in [Mails -> Kinds]
  /\ undelivered \subseteq Mails /\ spool \subseteq Mails \ undelivered
  /\ flagged \subseteq spool /\ (source # "imap" => flagged = {})
  /\ locker \in Gateways \cup {NoGateway} /\ (source = "imap" => locker = NoGateway)

RunsOK ==
  /\ phase \in [Gateways -> {"idle", "next", "parse", "enroll", "change", "commit", "bounce",
                              "early", "fault", "report", "handled", "end"}]
  /\ mail \in [Gateways -> Mails \cup {NoMail}]
  /\ listed \in [Gateways -> SUBSET Mails] /\ handled \in [Gateways -> SUBSET Mails]

TrackerOK ==
  /\ accounts \in Nat /\ told \subseteq Mails
  /\ squashed \subseteq Mails /\ raised \subseteq Mails
  /\ changed \in [Mails -> Nat] /\ notified \in [Mails -> Nat]
  /\ aborts \in 0..MaxAborts /\ faults \in 0..MaxFaults

TypeOK == ServerOK /\ RunsOK /\ (\A g \in Gateways : RunOK(g)) /\ TrackerOK

Init ==
  /\ source \in Sources /\ overlap \in BOOLEAN /\ (overlap => source = "imap")
  /\ kind \in [Mails -> Kinds]
  /\ undelivered = Mails /\ spool = {} /\ flagged = {} /\ locker = NoGateway
  /\ phase = [g \in Gateways |-> "idle"] /\ mail = [g \in Gateways |-> NoMail]
  /\ listed = [g \in Gateways |-> {}] /\ handled = [g \in Gateways |-> {}]
  /\ accounts = 0 /\ told = {} /\ squashed = {} /\ raised = {} /\ aborts = 0 /\ faults = 0
  /\ changed = [m \in Mails |-> 0] /\ notified = [m \in Mails |-> 0]

-----------------------------------------------------------------------------
(* External: the mail system delivers. *)

Deliver(m) ==
  /\ m \in undelivered /\ \A n \in undelivered : m <= n
  /\ source = "mailbox" /\ MtaLocks => locker = NoGateway
  /\ undelivered' = undelivered \ {m}
  /\ spool' = spool \cup {m}
  /\ UNCHANGED <<source, overlap, kind, flagged, locker, run, tracker, answers, aborts, faults>>

-----------------------------------------------------------------------------
(* do_mailbox, do_imap, _do_pop. *)

\* cron starts a run, which opens the mailbox: flock and POP's login admit one at a time.
Start(g) ==
  /\ phase[g] = "idle" /\ spool # {}
  /\ IF source = "imap"
     THEN /\ overlap \/ \A h \in Gateways : phase[h] = "idle"
          /\ UNCHANGED locker
     ELSE locker = NoGateway /\ locker' = g
  /\ phase' = [phase EXCEPT ![g] = "next"]
  /\ listed' = [listed EXCEPT ![g] = spool]
  /\ UNCHANGED <<source, overlap, kind, undelivered, spool, flagged, mail, handled, tracker, answers, aborts, faults>>

\* The loops go through the mails they have listed in the order of their numbers.
Comes(g, m) ==
  /\ phase[g] = "next" /\ m \in listed[g] \ handled[g]
  /\ \A n \in listed[g] \ handled[g] : m <= n

\* The next mail; on an IMAP server it is marked as deleted before it is processed.
Fetch(g) ==
  /\ \E m \in spool :
       /\ Comes(g, m)
       /\ mail' = [mail EXCEPT ![g] = m]
       /\ flagged' = IF source = "imap" THEN flagged \cup {m} ELSE flagged
  /\ phase' = [phase EXCEPT ![g] = "parse"]
  /\ UNCHANGED <<source, overlap, kind, undelivered, spool, locker, listed, handled, tracker, answers, aborts, faults>>

\* handle_Message has returned: POP's dele, and on to the next mail.
Advance(g) ==
  /\ phase[g] = "handled"
  /\ handled' = [handled EXCEPT ![g] = @ \cup {mail[g]}]
  /\ mail' = [mail EXCEPT ![g] = NoMail]
  /\ phase' = [phase EXCEPT ![g] = "next"]
  /\ UNCHANGED <<source, overlap, kind, server, listed, tracker, answers, aborts, faults>>

\* The loop ends; that of a mailbox reads what was appended in the meantime.
AtEnd(g) ==
  /\ phase[g] = "next" /\ handled[g] = listed[g]
  /\ IF source = "mailbox" /\ spool # listed[g]
     THEN listed' = [listed EXCEPT ![g] = spool] /\ UNCHANGED phase
     ELSE phase' = [phase EXCEPT ![g] = "end"] /\ UNCHANGED listed
  /\ UNCHANGED <<source, overlap, kind, server, mail, handled, tracker, answers, aborts, faults>>

\* (mutant) the lock is not released
GoneLocked(g) ==
  /\ phase' = [phase EXCEPT ![g] = "idle"] /\ mail' = [mail EXCEPT ![g] = NoMail]
  /\ listed' = [listed EXCEPT ![g] = {}] /\ handled' = [handled EXCEPT ![g] = {}]
  /\ UNCHANGED locker

\* What a process that is gone leaves: the other side releases its lock.
Gone(g) ==
  /\ phase' = [phase EXCEPT ![g] = "idle"] /\ mail' = [mail EXCEPT ![g] = NoMail]
  /\ listed' = [listed EXCEPT ![g] = {}] /\ handled' = [handled EXCEPT ![g] = {}]
  /\ locker' = IF locker = g THEN NoGateway ELSE locker

\* expunge removes every mail marked as deleted, whoever marked it.
Expunge == spool' = spool \ flagged /\ flagged' = {}

\* (mutant) the mailbox file is not emptied
FinishKeeping(g) ==
  /\ phase[g] = "end"
  /\ \/ source = "mailbox" /\ UNCHANGED <<spool, flagged>>
     \/ source = "pop" /\ spool' = spool \ handled[g] /\ UNCHANGED flagged
     \/ source = "imap" /\ Expunge
  /\ Gone(g)
  /\ UNCHANGED <<source, overlap, kind, undelivered, tracker, answers, aborts, faults>>

\* ftruncate, POP's quit, IMAP's close and expunge.
Finish(g) ==
  /\ phase[g] = "end"
  /\ \/ source = "mailbox" /\ spool' = {} /\ UNCHANGED flagged
     \/ source = "pop" /\ spool' = spool \ handled[g] /\ UNCHANGED flagged
     \/ source = "imap" /\ Expunge
  /\ Gone(g)
  /\ UNCHANGED <<source, overlap, kind, undelivered, tracker, answers, aborts, faults>>

\* An exception leaves the loop: do_imap expunges on its way out, the others leave the
\* mails where they are.
Abort(g) ==
  /\ aborts < MaxAborts /\ aborts' = aborts + 1
  /\ IF source = "imap" THEN Expunge ELSE UNCHANGED <<spool, flagged>>
  /\ Gone(g)
  /\ UNCHANGED <<source, overlap, kind, undelivered, tracker, faults>>

\* The mail was expunged by another run: there is nothing to subscript.
FetchFails(g) ==
  /\ \E m \in Mails \ spool : Comes(g, m)
  /\ Abort(g)
  /\ UNCHANGED answers

\* The process is killed, or the connection to the mail server lost.
Crash(g) ==
  /\ phase[g] # "idle" /\ aborts < MaxAborts
  /\ aborts' = aborts + 1
  /\ Gone(g)
  /\ UNCHANGED <<source, overlap, kind, undelivered, spool, flagged, tracker, answers, faults>>

-----------------------------------------------------------------------------
(* handle_Message. *)

Becomes(g, step) == phase' = [phase EXCEPT ![g] = step]

\* Something else is raised than the gateway raises itself: the catch-all takes it.
Fails(g, step) == faults < MaxFaults /\ faults' = faults + 1 /\ Becomes(g, step)

Unchanged == UNCHANGED <<source, overlap, kind, server, mail, listed, handled, aborts>>

\* (mutant) the author is not looked up among the accounts there are
ParseWithoutLookup(g) ==
  /\ phase[g] = "parse"
  /\ LET k == kind[mail[g]]
     IN  \/ k \in {"unsigned", "ignored"} /\ Becomes(g, "handled") /\ UNCHANGED faults
         \/ k = "refused" /\ Becomes(g, "bounce") /\ UNCHANGED faults
         \/ k \in {"rejected", "good"} /\ Becomes(g, "change") /\ UNCHANGED faults
         \/ k \in {"rejected", "good"} /\ Becomes(g, "enroll") /\ UNCHANGED faults
         \/ k # "unsigned" /\ Fails(g, "early")
  /\ UNCHANGED <<tracker, answers>> /\ Unchanged

\* Up to the checks of the author's permissions.  An author who has no account gets one, not
\* committed yet, or remains anonymous.
Parse(g) ==
  /\ phase[g] = "parse"
  /\ LET k == kind[mail[g]]
     IN  \/ k \in {"unsigned", "ignored"} /\ Becomes(g, "handled") /\ UNCHANGED faults
         \/ k = "refused" /\ Becomes(g, "bounce") /\ UNCHANGED faults
         \/ k \in {"rejected", "good"} /\ Becomes(g, "change") /\ UNCHANGED faults
         \/ k \in {"rejected", "good"} /\ accounts = 0 /\ Becomes(g, "enroll") /\ UNCHANGED faults
         \/ k # "unsigned" /\ Fails(g, "early")
  /\ UNCHANGED <<tracker, answers>> /\ Unchanged

\* commit_and_reopen_as_author: the account is there whatever becomes of the mail.
Enroll(g) ==
  /\ phase[g] = "enroll"
  /\ \/ Becomes(g, "change") /\ accounts' = accounts + 1 /\ UNCHANGED faults
     \/ Fails(g, "early") /\ UNCHANGED accounts
  /\ UNCHANGED <<changed, notified, answers>> /\ Unchanged

\* The nosy reaction sends mails from inside the set; some may be sent before one fails.
Notify(g) == kind[mail[g]] = "good" /\ notified' = [notified EXCEPT ![mail[g]] = @ + 1]

\* create_files, create_msg and create_node, all uncommitted.
Change(g) ==
  /\ phase[g] = "change"
  /\ \/ kind[mail[g]] = "rejected" /\ Becomes(g, "bounce") /\ UNCHANGED <<notified, faults>>
     \/ Notify(g) /\ Becomes(g, "commit") /\ UNCHANGED faults
     \/ Fails(g, "fault") /\ (Notify(g) \/ UNCHANGED notified)
  /\ UNCHANGED <<accounts, changed, answers>> /\ Unchanged

\* (mutant) a refused commit is tried again with the whole change
CommitRetries(g) ==
  /\ phase[g] = "commit"
  /\ \/ Becomes(g, "handled") /\ changed' = [changed EXCEPT ![mail[g]] = @ + 1]
     \/ Becomes(g, "change") /\ UNCHANGED changed
  /\ UNCHANGED <<accounts, notified, answers, faults>> /\ Unchanged

\* _handle_message's commit, which the database may refuse.
Commit(g) ==
  /\ phase[g] = "commit"
  /\ \/ Becomes(g, "handled") /\ changed' = [changed EXCEPT ![mail[g]] = @ + 1] /\ UNCHANGED faults
     \/ Fails(g, "fault") /\ UNCHANGED changed
  /\ UNCHANGED <<accounts, notified, answers>> /\ Unchanged

\* The catch-all bounces the mail to its sender, and then tells the administrator.
After(g) == IF phase[g] \in {"early", "fault"} THEN "report" ELSE "handled"

\* (mutant) nobody is told what failed
BounceNobody(g) ==
  /\ phase[g] \in {"bounce", "early", "fault", "report"}
  /\ Becomes(g, After(g))
  /\ UNCHANGED <<tracker, answers, faults>> /\ Unchanged

\* bounce_message squashes the errors of sending.
Bounce(g) ==
  /\ phase[g] \in {"bounce", "early", "fault", "report"}
  /\ Becomes(g, After(g))
  /\ \/ told' = told \cup {mail[g]} /\ UNCHANGED squashed
     \/ squashed' = squashed \cup {mail[g]} /\ UNCHANGED told
  /\ UNCHANGED <<raised, tracker, faults>> /\ Unchanged

\* An encrypted bounce, once the author is committed, to somebody whose key cannot be used: a
\* NameError in bounce_message leaves handle_Message.  The dispatcher may have been told before.
BounceRaises(g) ==
  /\ phase[g] \in {"bounce", "fault"} /\ kind[mail[g]] \in {"rejected", "good"}
  /\ raised' = raised \cup {mail[g]}
  /\ told' = told \/ told' = told \cup {mail[g]}
  /\ Abort(g)
  /\ UNCHANGED squashed

-----------------------------------------------------------------------------
Progress(g) ==
  \/ Start(g) \/ Fetch(g) \/ FetchFails(g) \/ Advance(g) \/ AtEnd(g) \/ Finish(g)
  \/ Parse(g) \/ Enroll(g) \/ Change(g) \/ Commit(g) \/ Bounce(g)

Next ==
  \/ \E m \in Mails : Deliver(m)
  \/ \E g \in Gateways : Progress(g) \/ BounceRaises(g) \/ Crash(g)

\* cron starts a run again and again, and a run goes on unless it is aborted.
Spec == Init /\ [][Next]_vars /\ WF_vars(\E g \in Gateways : Progress(g))

-----------------------------------------------------------------------------
(* Properties. *)

\* A mail without a sender is logged and dropped, like one that asks to be ignored.
Settled(m) == changed[m] > 0 \/ kind[m] \in {"unsigned", "ignored"} \/ m \in told

\* A mail is on the server, or it has changed the tracker or somebody was told why not,
\* whenever and however runs end.  The exceptions: its bounce could not be sent; and on an
\* IMAP server a bounce that raised takes with it, besides the mail it was for, what an
\* earlier run had marked as deleted and never come to handle; or a run takes what another,
\* aborted one had in hand.
NoMailIsLost ==
  \A m \in Mails \ undelivered :
    \/ m \in spool \/ Settled(m) \/ m \in squashed
    \/ \E g \in Gateways : mail[g] = m
    \/ source = "imap" /\ (raised # {} \/ (overlap /\ aborts > 0))

\* A mail changes the tracker once, and goes to the nosy list once: so often again, as runs
\* ended before their time, or handle an IMAP mailbox at once.
OncePerRun ==
  LET runs == IF overlap THEN Cardinality(Gateways) ELSE 1
  IN  \A m \in Mails : changed[m] <= runs + aborts /\ notified[m] <= runs + aborts

\* An author's account is committed before the mail is accepted, and outlives its rejection or
\* the end of the run: the mails that come after, or come again, find it, and make no second
\* one.  Only runs on an IMAP server at once can each miss the account of the other.
OneAccountPerAuthor == accounts <= IF overlap THEN Cardinality(Gateways) ELSE 1

\* Every mail leaves the server: an aborted run, or a mail nobody wants, stops no other.  Only
\* MaxAborts runs are cut short: a mail whose bounce raised every time would stay in front of
\* the others for ever.
EveryMailIsTaken ==
  \A m \in Mails : m \notin undelivered ~> m \notin spool
=============================================================================
