-------------------------- MODULE MailGatewayProofs --------------------------
(***************************************************************************)
(* Theorems about MailGateway, for any mails, runs and number of aborts:   *)
(* no mail is lost, none changes the tracker more often than runs handle   *)
(* it, and their author is given one account.                              *)
(***************************************************************************)
EXTENDS MailGateway, FiniteSetTheorems, TLAPS

\* An answer has been given to the mail, or could not be sent.
Dealt(m) == Settled(m) \/ m \in squashed

\* Only on an IMAP server can two runs be under way.
SoloInv == ~overlap => \A g, h \in Gateways : g # h => phase[g] = "idle" \/ phase[h] = "idle"

\* What a run has come to the end of is dealt with; a run alone has listed mails that are still
\* there, and at its end there are no others in a mailbox file, which it is about to empty.
HandInv ==
  \A g \in Gateways :
    /\ \A m \in handled[g] : Dealt(m)
    /\ phase[g] = "handled" => Dealt(mail[g])
    /\ phase[g] = "end" => handled[g] = listed[g]
    /\ ~overlap => listed[g] \subseteq spool
    /\ source = "mailbox" /\ MtaLocks /\ phase[g] = "end" => spool \subseteq listed[g]
    /\ listed[g] \cap undelivered = {}

\* A mail marked as deleted is dealt with, or in hand, or will be handled by the one run that
\* is under way before that run expunges it.
Excepted == raised # {} \/ (overlap /\ aborts > 0)
FlagInv ==
  source = "imap" /\ ~Excepted =>
    \A m \in flagged :
      \/ Dealt(m) \/ \E g \in Gateways : mail[g] = m
      \/ ~overlap /\ \A g \in Gateways : phase[g] # "idle" => m \in listed[g]

\* On an IMAP server a run has marked what it has handled, as far as it is still there.
MarkInv ==
  source = "imap" =>
    \A g \in Gateways : \A m \in spool : m \in handled[g] \/ m = mail[g] => m \in flagged

IInv == TypeOK /\ SoloInv /\ HandInv /\ FlagInv /\ MarkInv

\* The runs that have taken a mail past the steps outside S, and those that have it in hand
\* and have not.
Has(m, S) == {g \in Gateways : m \in handled[g] \/ (mail[g] = m /\ phase[g] \in S)}
Yet(m, S) == {g \in Gateways : mail[g] = m /\ phase[g] \notin S}
Runs == IF overlap THEN Cardinality(Gateways) ELSE 1

\* A mail that has been through n times: the runs that did it are under way or were aborted,
\* as long as it is on the server; afterwards only those that have it in hand can add to it.
Bound(n, m, S) ==
  IF m \in spool \cup undelivered
  THEN n <= aborts + Cardinality(Has(m, S))
  ELSE n + Cardinality(Yet(m, S)) <= aborts + Runs

AfterCommit == {"handled"}
AfterChange == {"commit", "bounce", "fault", "report", "handled"}
CountInv ==
  \A m \in Mails : Bound(changed[m], m, AfterCommit) /\ Bound(notified[m], m, AfterChange)

USE SettingAssumption, GatewayAssumption
USE DEF Mails, NoMail, Sources, Kinds, server, run, tracker, answers, InHand

\* What one run does.
Step(g) == Progress(g) \/ BounceRaises(g) \/ Crash(g)

-----------------------------------------------------------------------------
(* Every step keeps the types. *)

LEMMA MailInHand ==
  ASSUME TypeOK, NEW g \in Gateways
  PROVE  InHand(g) => mail[g] \in Mails /\ mail[g] \in listed[g] /\ mail[g] \notin handled[g]
<1>1. listed[g] \subseteq Mails
  BY DEF TypeOK, RunsOK
<1> QED
  BY <1>1 DEF TypeOK, RunOK

LEMMA ServerStep ==
  ASSUME TypeOK, NEW g \in Gateways, Step(g)
  PROVE  ServerOK'
<1> USE DEF TypeOK, ServerOK, RunsOK, RunOK, Gone, Expunge, Abort, Becomes, Fails, After, Unchanged
<1>1. CASE Start(g)
  BY <1>1 DEF Start
<1>2. CASE Fetch(g)
  BY <1>2 DEF Fetch, Comes
<1>3. CASE FetchFails(g)
  BY <1>3 DEF FetchFails, Comes
<1>4. CASE Advance(g)
  BY <1>4 DEF Advance
<1>5. CASE AtEnd(g)
  BY <1>5 DEF AtEnd
<1>6. CASE Finish(g)
  <2>1. /\ spool' \subseteq spool /\ flagged' \subseteq spool' /\ flagged' \subseteq flagged
        /\ UNCHANGED <<source, overlap, kind, undelivered>>
    BY <1>6 DEF Finish
  <2>2. locker' = IF locker = g THEN NoGateway ELSE locker
    BY <1>6 DEF Finish
  <2> QED
    BY <2>1, <2>2
<1>7. CASE Parse(g)
  BY <1>7 DEF Parse
<1>8. CASE Change(g)
  BY <1>8 DEF Change
<1>9. CASE Commit(g)
  BY <1>9 DEF Commit
<1>10. CASE Bounce(g)
  BY <1>10 DEF Bounce
<1>11. CASE BounceRaises(g)
  BY <1>11 DEF BounceRaises
<1>12. CASE Crash(g)
  BY <1>12 DEF Crash
<1>13. CASE Enroll(g)
  BY <1>13 DEF Enroll
<1> QED
  BY <1>1, <1>2, <1>3, <1>4, <1>5, <1>6, <1>7, <1>8, <1>9, <1>10, <1>11, <1>12, <1>13 DEF Step, Progress

LEMMA TrackerStep ==
  ASSUME TypeOK, NEW g \in Gateways, Step(g)
  PROVE  TrackerOK'
<1> USE DEF TypeOK, TrackerOK, Gone, Expunge, Abort, Becomes, Fails, After, Unchanged
<1>1. CASE Start(g)
  BY <1>1 DEF Start
<1>2. CASE Fetch(g)
  BY <1>2 DEF Fetch, Comes
<1>3. CASE FetchFails(g)
  <2>1. UNCHANGED <<tracker, answers, faults>> /\ aborts < MaxAborts /\ aborts' = aborts + 1
    BY <1>3 DEF FetchFails
  <2> QED
    BY <2>1
<1>4. CASE Advance(g)
  BY <1>4 DEF Advance
<1>5. CASE AtEnd(g)
  BY <1>5 DEF AtEnd
<1>6. CASE Finish(g)
  BY <1>6 DEF Finish
<1>7. CASE Parse(g)
  <2>1. UNCHANGED <<tracker, answers, aborts>> /\ faults' \in 0..MaxFaults
    BY <1>7 DEF Parse
  <2> QED
    BY <2>1
<1>8. CASE Change(g)
  <2>1. mail[g] \in Mails
    BY <1>8, MailInHand DEF Change
  <2>2. notified' = notified \/ notified' = [notified EXCEPT ![mail[g]] = @ + 1]
    BY <1>8 DEF Change, Notify
  <2>3. UNCHANGED <<accounts, changed, answers, aborts>> /\ faults' \in 0..MaxFaults
    BY <1>8 DEF Change
  <2>4. notified' \in [Mails -> Nat]
    <3>1. notified \in [Mails -> Nat] /\ notified[mail[g]] + 1 \in Nat
      BY <2>1
    <3> QED
      BY <2>1, <2>2, <3>1
  <2> QED
    BY <2>3, <2>4
<1>9. CASE Commit(g)
  <2>1. mail[g] \in Mails
    BY <1>9, MailInHand DEF Commit
  <2>2. changed' = changed \/ changed' = [changed EXCEPT ![mail[g]] = @ + 1]
    BY <1>9 DEF Commit
  <2>3. UNCHANGED <<accounts, notified, answers, aborts>> /\ faults' \in 0..MaxFaults
    BY <1>9 DEF Commit
  <2>4. changed' \in [Mails -> Nat]
    <3>1. changed \in [Mails -> Nat] /\ changed[mail[g]] + 1 \in Nat
      BY <2>1
    <3> QED
      BY <2>1, <2>2, <3>1
  <2> QED
    BY <2>3, <2>4
<1>10. CASE Bounce(g)
  BY <1>10, MailInHand DEF Bounce
<1>11. CASE BounceRaises(g)
  <2>1. /\ UNCHANGED <<tracker, faults, squashed>> /\ aborts < MaxAborts /\ aborts' = aborts + 1
        /\ raised' = raised \cup {mail[g]} /\ told' \subseteq told \cup {mail[g]}
    BY <1>11 DEF BounceRaises
  <2>2. mail[g] \in Mails
    BY <1>11, MailInHand DEF BounceRaises
  <2>3. raised' \subseteq Mails /\ told' \subseteq Mails
    BY <2>1, <2>2
  <2> QED
    BY <2>1, <2>3
<1>12. CASE Crash(g)
  BY <1>12 DEF Crash
<1>13. CASE Enroll(g)
  <2>1. UNCHANGED <<changed, notified, answers, aborts>> /\ accounts' \in Nat /\ faults' \in 0..MaxFaults
    BY <1>13 DEF Enroll
  <2> QED
    BY <2>1
<1> QED
  BY <1>1, <1>2, <1>3, <1>4, <1>5, <1>6, <1>7, <1>8, <1>9, <1>10, <1>11, <1>12, <1>13 DEF Step, Progress

LEMMA RunsStep ==
  ASSUME TypeOK, NEW g \in Gateways, Step(g)
  PROVE  RunsOK'
<1> USE DEF TypeOK, ServerOK, RunsOK, RunOK, Gone, Expunge, Abort, Becomes, Fails, After, Unchanged
<1>1. CASE Start(g)
  BY <1>1 DEF Start
<1>2. CASE Fetch(g)
  BY <1>2 DEF Fetch, Comes
<1>3. CASE FetchFails(g)
  BY <1>3 DEF FetchFails, Comes
<1>4. CASE Advance(g)
  BY <1>4 DEF Advance
<1>5. CASE AtEnd(g)
  <2>1. /\ listed' = listed \/ listed' = [listed EXCEPT ![g] = spool]
        /\ phase' = phase \/ phase' = [phase EXCEPT ![g] = "end"]
        /\ UNCHANGED <<mail, handled>>
    BY <1>5 DEF AtEnd
  <2> QED
    BY <2>1
<1>6. CASE Finish(g)
  BY <1>6 DEF Finish
<1>7. CASE Parse(g)
  BY <1>7 DEF Parse
<1>8. CASE Change(g)
  BY <1>8 DEF Change
<1>9. CASE Commit(g)
  BY <1>9 DEF Commit
<1>10. CASE Bounce(g)
  BY <1>10 DEF Bounce
<1>11. CASE BounceRaises(g)
  BY <1>11 DEF BounceRaises
<1>12. CASE Crash(g)
  BY <1>12 DEF Crash
<1>13. CASE Enroll(g)
  BY <1>13 DEF Enroll
<1> QED
  BY <1>1, <1>2, <1>3, <1>4, <1>5, <1>6, <1>7, <1>8, <1>9, <1>10, <1>11, <1>12, <1>13 DEF Step, Progress

LEMMA RunStep ==
  ASSUME TypeOK, HandInv, NEW g \in Gateways, Step(g)
  PROVE  RunOK(g)'
<1> USE DEF TypeOK, ServerOK, RunsOK, RunOK, Gone, Expunge, Abort, Becomes, Fails, After, Unchanged
<1>1. CASE Start(g)
  BY <1>1 DEF Start
<1>2. CASE Fetch(g)
  BY <1>2 DEF Fetch, Comes
<1>3. CASE FetchFails(g)
  BY <1>3 DEF FetchFails, Comes
<1>4. CASE Advance(g)
  BY <1>4 DEF Advance
<1>5. CASE AtEnd(g)
  BY <1>5 DEF AtEnd, HandInv
<1>6. CASE Finish(g)
  BY <1>6 DEF Finish
<1>7. CASE Parse(g)
  BY <1>7 DEF Parse
<1>8. CASE Change(g)
  BY <1>8 DEF Change
<1>9. CASE Commit(g)
  BY <1>9 DEF Commit
<1>10. CASE Bounce(g)
  BY <1>10 DEF Bounce
<1>11. CASE BounceRaises(g)
  BY <1>11 DEF BounceRaises
<1>12. CASE Crash(g)
  BY <1>12 DEF Crash
<1>13. CASE Enroll(g)
  BY <1>13 DEF Enroll
<1> QED
  BY <1>1, <1>2, <1>3, <1>4, <1>5, <1>6, <1>7, <1>8, <1>9, <1>10, <1>11, <1>12, <1>13 DEF Step, Progress

LEMMA OtherRuns ==
  ASSUME TypeOK, NEW g \in Gateways, Step(g), NEW h \in Gateways \ {g}
  PROVE  /\ phase'[h] = phase[h] /\ mail'[h] = mail[h]
         /\ listed'[h] = listed[h] /\ handled'[h] = handled[h]
         /\ source' = source /\ overlap' = overlap /\ kind' = kind
         /\ locker' = h <=> locker = h
<1> USE DEF TypeOK, ServerOK, RunsOK, RunOK, Gone, Expunge, Abort, Becomes, Fails, After, Unchanged
<1>1. CASE Start(g)
  BY <1>1 DEF Start
<1>2. CASE Fetch(g)
  BY <1>2 DEF Fetch, Comes
<1>3. CASE FetchFails(g)
  BY <1>3 DEF FetchFails, Comes
<1>4. CASE Advance(g)
  BY <1>4 DEF Advance
<1>5. CASE AtEnd(g)
  BY <1>5 DEF AtEnd
<1>6. CASE Finish(g)
  BY <1>6 DEF Finish
<1>7. CASE Parse(g)
  BY <1>7 DEF Parse
<1>8. CASE Change(g)
  BY <1>8 DEF Change
<1>9. CASE Commit(g)
  BY <1>9 DEF Commit
<1>10. CASE Bounce(g)
  BY <1>10 DEF Bounce
<1>11. CASE BounceRaises(g)
  BY <1>11 DEF BounceRaises
<1>12. CASE Crash(g)
  BY <1>12 DEF Crash
<1>13. CASE Enroll(g)
  BY <1>13 DEF Enroll
<1> QED
  BY <1>1, <1>2, <1>3, <1>4, <1>5, <1>6, <1>7, <1>8, <1>9, <1>10, <1>11, <1>12, <1>13 DEF Step, Progress

LEMMA TypeStep ==
  ASSUME TypeOK, HandInv, NEW g \in Gateways, Step(g)
  PROVE  TypeOK'
<1>1. ServerOK' /\ RunsOK' /\ TrackerOK' /\ RunOK(g)'
  BY ServerStep, RunsStep, TrackerStep, RunStep
<1>2. ASSUME NEW h \in Gateways \ {g}
      PROVE  RunOK(h)'
  BY <1>2, OtherRuns DEF TypeOK, RunOK
<1> QED
  BY <1>1, <1>2 DEF TypeOK

LEMMA TypeDeliver ==
  ASSUME TypeOK, NEW m \in Mails, Deliver(m)
  PROVE  TypeOK'
<1> USE DEF TypeOK, Deliver
<1>1. ServerOK' 
  BY DEF ServerOK
<1>2. RunsOK' /\ TrackerOK' /\ \A g \in Gateways : RunOK(g)'
  BY DEF RunsOK, TrackerOK, RunOK
<1> QED
  BY <1>1, <1>2

-----------------------------------------------------------------------------
(* What a step leaves and only adds to. *)

LEMMA StepGrows ==
  ASSUME TypeOK, NEW g \in Gateways, Step(g)
  PROVE  /\ undelivered' = undelivered /\ spool' \subseteq spool
         /\ told \subseteq told' /\ squashed \subseteq squashed' /\ raised \subseteq raised'
         /\ aborts' >= aborts
<1> USE DEF TypeOK, ServerOK, TrackerOK, Gone, Expunge, Abort, Becomes, Fails, After, Unchanged
<1>1. CASE Start(g)
  BY <1>1 DEF Start
<1>2. CASE Fetch(g)
  BY <1>2 DEF Fetch, Comes
<1>3. CASE FetchFails(g)
  BY <1>3 DEF FetchFails, Comes
<1>4. CASE Advance(g)
  BY <1>4 DEF Advance
<1>5. CASE AtEnd(g)
  BY <1>5 DEF AtEnd
<1>6. CASE Finish(g)
  BY <1>6 DEF Finish
<1>7. CASE Parse(g)
  BY <1>7 DEF Parse
<1>8. CASE Change(g)
  BY <1>8 DEF Change
<1>9. CASE Commit(g)
  BY <1>9 DEF Commit
<1>10. CASE Bounce(g)
  BY <1>10 DEF Bounce
<1>11. CASE BounceRaises(g)
  BY <1>11 DEF BounceRaises
<1>12. CASE Crash(g)
  BY <1>12 DEF Crash
<1>13. CASE Enroll(g)
  BY <1>13 DEF Enroll
<1> QED
  BY <1>1, <1>2, <1>3, <1>4, <1>5, <1>6, <1>7, <1>8, <1>9, <1>10, <1>11, <1>12, <1>13 DEF Step, Progress

LEMMA StepKeeps ==
  ASSUME NEW g, Step(g)
  PROVE  source' = source /\ overlap' = overlap /\ kind' = kind
<1> USE DEF Abort, Unchanged
<1>1. CASE Start(g)
  BY <1>1 DEF Start
<1>2. CASE Fetch(g)
  BY <1>2 DEF Fetch, Comes
<1>3. CASE FetchFails(g)
  BY <1>3 DEF FetchFails, Comes
<1>4. CASE Advance(g)
  BY <1>4 DEF Advance
<1>5. CASE AtEnd(g)
  BY <1>5 DEF AtEnd
<1>6. CASE Finish(g)
  BY <1>6 DEF Finish
<1>7. CASE Parse(g)
  BY <1>7 DEF Parse
<1>8. CASE Change(g)
  BY <1>8 DEF Change
<1>9. CASE Commit(g)
  BY <1>9 DEF Commit
<1>10. CASE Bounce(g)
  BY <1>10 DEF Bounce
<1>11. CASE BounceRaises(g)
  BY <1>11 DEF BounceRaises
<1>12. CASE Crash(g)
  BY <1>12 DEF Crash
<1>13. CASE Enroll(g)
  BY <1>13 DEF Enroll
<1> QED
  BY <1>1, <1>2, <1>3, <1>4, <1>5, <1>6, <1>7, <1>8, <1>9, <1>10, <1>11, <1>12, <1>13 DEF Step, Progress

LEMMA ChangedGrows ==
  ASSUME TypeOK, NEW g \in Gateways, Step(g), NEW m \in Mails
  PROVE  changed'[m] >= changed[m]
<1> USE DEF Gone, Abort, Becomes, Fails, After, Unchanged
<1>0. changed \in [Mails -> Nat] /\ changed[m] \in Nat
  BY DEF TypeOK, TrackerOK
<1>1. CASE Start(g)
  BY <1>1, <1>0 DEF Start
<1>2. CASE Fetch(g)
  BY <1>2, <1>0 DEF Fetch, Comes
<1>3. CASE FetchFails(g)
  BY <1>3, <1>0 DEF FetchFails, Comes
<1>4. CASE Advance(g)
  BY <1>4, <1>0 DEF Advance
<1>5. CASE AtEnd(g)
  BY <1>5, <1>0 DEF AtEnd
<1>6. CASE Finish(g)
  BY <1>6, <1>0 DEF Finish
<1>7. CASE Parse(g)
  BY <1>7, <1>0 DEF Parse
<1>8. CASE Change(g)
  BY <1>8, <1>0 DEF Change
<1>9. CASE Commit(g)
  BY <1>9, <1>0 DEF Commit
<1>10. CASE Bounce(g)
  BY <1>10, <1>0 DEF Bounce
<1>11. CASE BounceRaises(g)
  BY <1>11, <1>0 DEF BounceRaises
<1>12. CASE Crash(g)
  BY <1>12, <1>0 DEF Crash
<1>13. CASE Enroll(g)
  BY <1>13, <1>0 DEF Enroll
<1> QED
  BY <1>1, <1>2, <1>3, <1>4, <1>5, <1>6, <1>7, <1>8, <1>9, <1>10, <1>11, <1>12, <1>13 DEF Step, Progress

LEMMA DealtStays ==
  ASSUME TypeOK, NEW g \in Gateways, Step(g), NEW m \in Mails, Dealt(m)
  PROVE  Dealt(m)'
<1>1. changed[m] \in Nat /\ changed'[m] \in Nat /\ changed'[m] >= changed[m]
  BY ChangedGrows, TrackerStep DEF TypeOK, TrackerOK
<1>2. told \subseteq told' /\ squashed \subseteq squashed'
  BY StepGrows
<1>3. kind' = kind
  BY StepKeeps
<1> QED
  BY <1>1, <1>2, <1>3 DEF Dealt, Settled

LEMMA UnderWay ==
  ASSUME TypeOK, NEW g \in Gateways, Step(g), ~Start(g)
  PROVE  phase[g] # "idle"
  BY DEF Step, Progress, Fetch, FetchFails, Comes, Advance, AtEnd, Finish, Parse, Enroll, Change,
         Commit, Bounce, BounceRaises, Crash

-----------------------------------------------------------------------------
(* One run at a time. *)

LEMMA SoloStep ==
  ASSUME TypeOK, SoloInv, NEW g \in Gateways, Step(g)
  PROVE  SoloInv'
<1>1. SUFFICES ASSUME ~overlap, NEW h \in Gateways \ {g}, phase[h] # "idle"
               PROVE  phase'[g] = "idle"
  <2>1. \A h \in Gateways \ {g} : phase'[h] = phase[h]
    BY OtherRuns
  <2>2. overlap' = overlap
    BY StepKeeps
  <2> QED
    BY <1>1, <2>1, <2>2 DEF SoloInv
<1>2. phase[g] = "idle"
  BY <1>1 DEF SoloInv
<1>3. Start(g)
  BY <1>2, UnderWay
<1> QED
  BY <1>1, <1>3 DEF Start, TypeOK, ServerOK, RunOK

LEMMA SoloDeliver ==
  ASSUME SoloInv, NEW m \in Mails, Deliver(m)
  PROVE  SoloInv'
  BY DEF SoloInv, Deliver

-----------------------------------------------------------------------------
(* What runs have handled is dealt with. *)

\* HandInv of one run.
HandOf(g) ==
  /\ \A m \in handled[g] : Dealt(m)
  /\ phase[g] = "handled" => Dealt(mail[g])
  /\ phase[g] = "end" => handled[g] = listed[g]
  /\ ~overlap => listed[g] \subseteq spool
  /\ source = "mailbox" /\ MtaLocks /\ phase[g] = "end" => spool \subseteq listed[g]
  /\ listed[g] \cap undelivered = {}

LEMMA HandOther ==
  ASSUME TypeOK, SoloInv, HandInv, NEW g \in Gateways, Step(g), NEW h \in Gateways \ {g}
  PROVE  HandOf(h)'
<1>1. /\ phase'[h] = phase[h] /\ mail'[h] = mail[h]
      /\ listed'[h] = listed[h] /\ handled'[h] = handled[h]
      /\ source' = source /\ overlap' = overlap
  BY OtherRuns
<1>2. undelivered' = undelivered
  BY StepGrows
<1>3. handled[h] \subseteq Mails /\ (phase[h] = "handled" => mail[h] \in Mails)
  BY MailInHand DEF TypeOK, RunsOK
<1>4. (\A m \in handled[h] : Dealt(m)') /\ (phase[h] = "handled" => Dealt(mail[h])')
  <2>1. (\A m \in handled[h] : Dealt(m)) /\ (phase[h] = "handled" => Dealt(mail[h]))
    BY DEF HandInv
  <2>2. \A m \in Mails : Dealt(m) => Dealt(m)'
    BY DealtStays
  <2>3. phase[h] = "handled" => Dealt(mail[h])'
    BY <2>1, <2>2, <1>3, <1>1 DEF Dealt, Settled
  <2> QED
    BY <2>1, <2>2, <2>3, <1>3
<1>5. ~overlap /\ phase[h] # "idle" => spool' = spool
  <2>1. ~overlap /\ phase[h] # "idle" => Start(g)
    BY UnderWay DEF SoloInv
  <2> QED
    BY <2>1 DEF Start
<1>6. phase[h] = "idle" => listed[h] = {}
  BY DEF TypeOK, RunOK
<1>7. source = "mailbox" => ~overlap
  BY DEF TypeOK, ServerOK
<1> QED
  BY <1>1, <1>2, <1>4, <1>5, <1>6, <1>7 DEF HandOf, HandInv

LEMMA HandDealt ==
  ASSUME TypeOK, HandInv, NEW g \in Gateways, Step(g), NEW m \in Mails,
         m \in handled'[g] \/ (phase'[g] = "handled" /\ mail'[g] = m)
  PROVE  Dealt(m)'
<1> DEFINE before == m \in handled[g] \/ (phase[g] = "handled" /\ mail[g] = m)
<1>a. RunsOK /\ RunOK(g) /\ TrackerOK
  BY DEF TypeOK
<1>b. before => Dealt(m)'
  BY DealtStays DEF HandInv
<1>c. SUFFICES ASSUME ~before PROVE Dealt(m)'
  BY <1>b
<1> USE DEF Gone, Abort, Becomes, Fails, After, Unchanged, RunsOK, TrackerOK, Dealt, Settled
<1>1. CASE Start(g)
  BY <1>1, <1>a, <1>c DEF Start
<1>2. CASE Fetch(g)
  BY <1>2, <1>a, <1>c DEF Fetch, Comes
<1>3. CASE FetchFails(g)
  BY <1>3, <1>a, <1>c DEF FetchFails, Comes
<1>4. CASE Advance(g)
  BY <1>4, <1>a, <1>c DEF Advance
<1>5. CASE AtEnd(g)
  BY <1>5, <1>a, <1>c DEF AtEnd
<1>6. CASE Finish(g)
  BY <1>6, <1>a, <1>c DEF Finish
<1>7. CASE Parse(g)
  BY <1>7, <1>a, <1>c DEF Parse
<1>8. CASE Change(g)
  BY <1>8, <1>a, <1>c DEF Change
<1>9. CASE Commit(g)
  BY <1>9, <1>a, <1>c DEF Commit
<1>10. CASE Bounce(g)
  BY <1>10, <1>a, <1>c DEF Bounce
<1>11. CASE BounceRaises(g)
  BY <1>11, <1>a, <1>c DEF BounceRaises
<1>12. CASE Crash(g)
  BY <1>12, <1>a, <1>c DEF Crash
<1>13. CASE Enroll(g)
  BY <1>13, <1>a, <1>c DEF Enroll
<1> QED
  BY <1>1, <1>2, <1>3, <1>4, <1>5, <1>6, <1>7, <1>8, <1>9, <1>10, <1>11, <1>12, <1>13 DEF Step, Progress

LEMMA HandListed ==
  ASSUME TypeOK, HandInv, NEW g \in Gateways, Step(g)
  PROVE  /\ phase'[g] = "end" => handled'[g] = listed'[g]
         /\ ~overlap => listed'[g] \subseteq spool'
         /\ source = "mailbox" /\ MtaLocks /\ phase'[g] = "end" => spool' \subseteq listed'[g]
         /\ listed'[g] \cap undelivered' = {}
<1>a. RunsOK /\ RunOK(g) /\ ServerOK
  BY DEF TypeOK
<1>b. HandOf(g)
  BY DEF HandInv, HandOf
<1> USE DEF Gone, Expunge, Abort, Becomes, Fails, After, Unchanged, RunsOK, ServerOK, HandOf
<1>1. CASE Start(g)
  BY <1>1, <1>a, <1>b DEF Start
<1>2. CASE Fetch(g)
  BY <1>2, <1>a, <1>b DEF Fetch, Comes
<1>3. CASE FetchFails(g)
  BY <1>3, <1>a, <1>b DEF FetchFails, Comes
<1>4. CASE Advance(g)
  BY <1>4, <1>a, <1>b DEF Advance
<1>5. CASE AtEnd(g)
  BY <1>5, <1>a, <1>b DEF AtEnd
<1>6. CASE Finish(g)
  BY <1>6, <1>a, <1>b DEF Finish
<1>7. CASE Parse(g)
  BY <1>7, <1>a, <1>b DEF Parse
<1>8. CASE Change(g)
  BY <1>8, <1>a, <1>b DEF Change
<1>9. CASE Commit(g)
  BY <1>9, <1>a, <1>b DEF Commit
<1>10. CASE Bounce(g)
  BY <1>10, <1>a, <1>b DEF Bounce
<1>11. CASE BounceRaises(g)
  BY <1>11, <1>a, <1>b DEF BounceRaises
<1>12. CASE Crash(g)
  BY <1>12, <1>a, <1>b DEF Crash
<1>13. CASE Enroll(g)
  BY <1>13, <1>a, <1>b DEF Enroll
<1> QED
  BY <1>1, <1>2, <1>3, <1>4, <1>5, <1>6, <1>7, <1>8, <1>9, <1>10, <1>11, <1>12, <1>13 DEF Step, Progress

LEMMA HandStep ==
  ASSUME TypeOK, SoloInv, HandInv, NEW g \in Gateways, Step(g)
  PROVE  HandInv'
<1>1. RunsOK' /\ RunOK(g)'
  BY RunsStep, RunStep
<1>2. (\A m \in handled[g] : Dealt(m))'
  BY <1>1, HandDealt DEF RunsOK
<1>3. (phase[g] = "handled" => Dealt(mail[g]))'
  <2>1. ASSUME phase'[g] = "handled"
        PROVE  \E m \in Mails : mail'[g] = m /\ Dealt(m)'
    BY <1>1, <2>1, HandDealt DEF RunsOK, RunOK
  <2> QED
    BY <2>1 DEF Dealt, Settled
<1>4. HandOf(g)'
  BY <1>2, <1>3, HandListed, StepKeeps DEF HandOf
<1> QED
  BY <1>4, HandOther DEF HandInv, HandOf

LEMMA HandDeliver ==
  ASSUME TypeOK, HandInv, NEW n \in Mails, Deliver(n)
  PROVE  HandInv'
<1>1. SUFFICES ASSUME NEW g \in Gateways PROVE HandOf(g)'
  BY DEF HandInv, HandOf
<1>2. HandOf(g) /\ RunOK(g) /\ ServerOK
  BY DEF HandInv, HandOf, TypeOK
<1>3. UNCHANGED <<handled, listed, mail, phase, source, overlap>>
  BY DEF Deliver
<1>4. (\A m \in handled[g] : Dealt(m))' /\ (phase[g] = "handled" => Dealt(mail[g]))'
  BY <1>2, <1>3 DEF HandOf, Deliver, Dealt, Settled
<1>5. /\ ~overlap => listed[g] \subseteq spool'
      /\ listed[g] \cap undelivered' = {}
  BY <1>2 DEF HandOf, Deliver
<1>6. source = "mailbox" /\ MtaLocks => phase[g] = "idle"
  BY <1>2 DEF Deliver, RunOK
<1> QED
  BY <1>2, <1>3, <1>4, <1>5, <1>6 DEF HandOf

-----------------------------------------------------------------------------
(* On an IMAP server: what is marked as deleted. *)

LEMMA ExceptedStays ==
  ASSUME TypeOK, NEW g \in Gateways, Step(g), Excepted
  PROVE  Excepted'
<1>1. aborts \in Nat /\ aborts' \in Nat
  <2>1. TrackerOK /\ TrackerOK'
    BY TrackerStep DEF TypeOK
  <2> QED
    BY <2>1 DEF TrackerOK
<1>2. raised \subseteq raised' /\ aborts' >= aborts /\ overlap' = overlap
  BY StepGrows, StepKeeps
<1> QED
  BY <1>1, <1>2 DEF Excepted

\* FlagInv of one mail.
FlagOf(m) ==
  \/ Dealt(m) \/ \E g \in Gateways : mail[g] = m
  \/ ~overlap /\ \A g \in Gateways : phase[g] # "idle" => m \in listed[g]

LEMMA FlagStep ==
  ASSUME TypeOK, SoloInv, HandInv, FlagInv, NEW g \in Gateways, Step(g)
  PROVE  FlagInv'
<1>1. source' = source /\ overlap' = overlap
  BY StepKeeps
<1>2. SUFFICES ASSUME source = "imap", ~Excepted, ~Excepted', NEW m \in flagged'
               PROVE  FlagOf(m)'
  BY <1>1, ExceptedStays DEF FlagInv, FlagOf
<1>3. /\ RunsOK /\ RunOK(g) /\ ServerOK /\ RunsOK' /\ RunOK(g)'
      /\ m \in Mails
  BY ServerStep, RunsStep, RunStep DEF TypeOK, ServerOK
<1>4. m \in flagged => FlagOf(m)
  BY <1>2 DEF FlagInv, FlagOf
<1>5. Dealt(m) => Dealt(m)'
  BY <1>3, DealtStays
<1>6. \A h \in Gateways \ {g} : phase'[h] = phase[h] /\ mail'[h] = mail[h] /\ listed'[h] = listed[h]
  BY OtherRuns
<1>7. phase[g] = "handled" => mail[g] # m \/ Dealt(m)
  BY DEF HandInv, Dealt, Settled
<1>8. raised' = {} /\ (overlap => aborts' = 0)
  <2>1. aborts' \in Nat
    BY TrackerStep DEF TrackerOK
  <2> QED
    BY <1>1, <1>2, <2>1 DEF Excepted
<1> USE DEF Gone, Expunge, Abort, Becomes, Fails, After, Unchanged, FlagOf, RunsOK
<1>11. CASE Start(g)
  <2>1. FlagOf(m) /\ m \in spool /\ mail'[g] = mail[g] /\ listed'[g] = spool
    BY <1>3, <1>4, <1>11 DEF Start, ServerOK
  <2>2. CASE Dealt(m)
    BY <1>5, <2>2
  <2>3. CASE \E h \in Gateways : mail[h] = m
    BY <1>6, <2>1, <2>3
  <2>4. CASE ~overlap /\ \A h \in Gateways : phase[h] # "idle" => m \in listed[h]
    BY <1>1, <1>6, <2>1, <2>4
  <2> QED
    BY <2>1, <2>2, <2>3, <2>4
<1>12. CASE Fetch(g)
  <2>1. mail[g] = NoMail /\ phase[g] = "next" /\ phase'[g] = "parse" /\ listed' = listed
    BY <1>3, <1>12 DEF Fetch, Comes, RunOK
  <2>2. m \in flagged \/ mail'[g] = m
    BY <1>2, <1>3, <1>12 DEF Fetch
  <2>3. CASE mail'[g] = m
    BY <2>3
  <2>4. CASE Dealt(m)
    BY <1>5, <2>4
  <2>5. CASE \E h \in Gateways : mail[h] = m
    BY <1>3, <1>6, <2>1, <2>5
  <2>6. CASE ~overlap /\ \A h \in Gateways : phase[h] # "idle" => m \in listed[h]
    BY <1>1, <1>6, <2>1, <2>6
  <2> QED
    BY <1>4, <2>2, <2>3, <2>4, <2>5, <2>6
<1>13. CASE FetchFails(g)
  BY <1>13, <1>1, <1>2, <1>3, <1>4, <1>5, <1>6, <1>7, <1>8 DEF FetchFails, Comes
<1>14. CASE Advance(g)
  BY <1>14, <1>1, <1>2, <1>3, <1>4, <1>5, <1>6, <1>7, <1>8 DEF Advance
<1>15. CASE AtEnd(g)
  BY <1>15, <1>1, <1>2, <1>3, <1>4, <1>5, <1>6, <1>7, <1>8 DEF AtEnd
<1>16. CASE Finish(g)
  BY <1>16, <1>1, <1>2, <1>3, <1>4, <1>5, <1>6, <1>7, <1>8 DEF Finish
<1>17. CASE Parse(g)
  BY <1>17, <1>1, <1>2, <1>3, <1>4, <1>5, <1>6, <1>7, <1>8 DEF Parse
<1>18. CASE Change(g)
  BY <1>18, <1>1, <1>2, <1>3, <1>4, <1>5, <1>6, <1>7, <1>8 DEF Change
<1>19. CASE Commit(g)
  BY <1>19, <1>1, <1>2, <1>3, <1>4, <1>5, <1>6, <1>7, <1>8 DEF Commit
<1>20. CASE Bounce(g)
  BY <1>20, <1>1, <1>2, <1>3, <1>4, <1>5, <1>6, <1>7, <1>8 DEF Bounce
<1>21. CASE BounceRaises(g)
  BY <1>21, <1>1, <1>2, <1>3, <1>4, <1>5, <1>6, <1>7, <1>8 DEF BounceRaises
<1>22. CASE Crash(g)
  <2>1. ~overlap /\ flagged' = flagged
    <3>1. aborts \in Nat /\ aborts' = aborts + 1
      BY <1>22 DEF Crash, TypeOK, TrackerOK
    <3> QED
      BY <1>8, <1>22, <3>1 DEF Crash, ServerOK
  <2>2. \A h \in Gateways : phase'[h] = "idle"
    BY <1>3, <1>6, <1>22, <2>1 DEF Crash, SoloInv
  <2> QED
    BY <1>1, <2>1, <2>2
<1>23. CASE Enroll(g)
  BY <1>23, <1>1, <1>2, <1>3, <1>4, <1>5, <1>6, <1>7, <1>8 DEF Enroll
<1> QED
  BY <1>11, <1>12, <1>13, <1>14, <1>15, <1>16, <1>17, <1>18, <1>19, <1>20, <1>21, <1>22, <1>23 DEF Step, Progress

LEMMA FlagDeliver ==
  ASSUME TypeOK, FlagInv, NEW n \in Mails, Deliver(n)
  PROVE  FlagInv'
<1>1. UNCHANGED <<source, overlap, kind, flagged, run, tracker, answers, aborts>>
  BY DEF Deliver
<1> QED
  BY <1>1 DEF FlagInv, Excepted, Dealt, Settled

LEMMA MarkStep ==
  ASSUME TypeOK, MarkInv, NEW g \in Gateways, Step(g)
  PROVE  MarkInv'
<1>1. source' = source
  BY StepKeeps
<1>2. SUFFICES ASSUME source = "imap", NEW h \in Gateways, NEW m \in spool',
                      m \in handled'[h] \/ m = mail'[h]
               PROVE  m \in flagged'
  BY <1>1 DEF MarkInv
<1>3. RunsOK /\ RunOK(g) /\ ServerOK /\ m \in Mails /\ m \in spool
  BY ServerStep, StepGrows DEF TypeOK, ServerOK
<1>4. h # g => handled'[h] = handled[h] /\ mail'[h] = mail[h]
  BY OtherRuns
<1>5. m \in handled[h] \/ m = mail[h] => m \in flagged
  BY <1>2, <1>3 DEF MarkInv
<1> USE DEF Gone, Expunge, Abort, Becomes, Fails, After, Unchanged, RunsOK
<1>11. CASE Start(g)
  BY <1>11, <1>1, <1>2, <1>3, <1>4, <1>5 DEF Start
<1>12. CASE Fetch(g)
  BY <1>12, <1>1, <1>2, <1>3, <1>4, <1>5 DEF Fetch, Comes
<1>13. CASE FetchFails(g)
  BY <1>13, <1>1, <1>2, <1>3, <1>4, <1>5 DEF FetchFails, Comes
<1>14. CASE Advance(g)
  BY <1>14, <1>1, <1>2, <1>3, <1>4, <1>5 DEF Advance
<1>15. CASE AtEnd(g)
  BY <1>15, <1>1, <1>2, <1>3, <1>4, <1>5 DEF AtEnd
<1>16. CASE Finish(g)
  BY <1>16, <1>1, <1>2, <1>3, <1>4, <1>5 DEF Finish
<1>17. CASE Parse(g)
  BY <1>17, <1>1, <1>2, <1>3, <1>4, <1>5 DEF Parse
<1>18. CASE Change(g)
  BY <1>18, <1>1, <1>2, <1>3, <1>4, <1>5 DEF Change
<1>19. CASE Commit(g)
  BY <1>19, <1>1, <1>2, <1>3, <1>4, <1>5 DEF Commit
<1>20. CASE Bounce(g)
  BY <1>20, <1>1, <1>2, <1>3, <1>4, <1>5 DEF Bounce
<1>21. CASE BounceRaises(g)
  BY <1>21, <1>1, <1>2, <1>3, <1>4, <1>5 DEF BounceRaises
<1>22. CASE Crash(g)
  BY <1>22, <1>1, <1>2, <1>3, <1>4, <1>5 DEF Crash
<1>23. CASE Enroll(g)
  BY <1>23, <1>1, <1>2, <1>3, <1>4, <1>5 DEF Enroll
<1> QED
  BY <1>11, <1>12, <1>13, <1>14, <1>15, <1>16, <1>17, <1>18, <1>19, <1>20, <1>21, <1>22, <1>23 DEF Step, Progress

LEMMA MarkDeliver ==
  ASSUME TypeOK, HandInv, MarkInv, NEW n \in Mails, Deliver(n)
  PROVE  MarkInv'
<1>1. SUFFICES ASSUME source = "imap", NEW g \in Gateways, NEW m \in spool',
                      m \in handled'[g] \/ m = mail'[g]
               PROVE  m \in flagged'
  BY DEF MarkInv, Deliver
<1>2. m # NoMail /\ n \in undelivered
  BY <1>1, TypeDeliver DEF TypeOK, ServerOK, Deliver
<1>3. UNCHANGED <<source, flagged, run>> /\ spool' = spool \cup {n}
  BY DEF Deliver
<1>4. m \in listed[g]
  BY <1>1, <1>2, <1>3, MailInHand DEF TypeOK, RunOK
<1>5. m \in spool
  BY <1>1, <1>2, <1>3, <1>4 DEF HandInv
<1> QED
  BY <1>1, <1>3, <1>5 DEF MarkInv

-----------------------------------------------------------------------------
(* No mail is lost. *)

\* The exceptions of NoMailIsLost.
MayBeLost == source = "imap" /\ Excepted

LEMMA LostStays ==
  ASSUME TypeOK, NEW g \in Gateways, Step(g), MayBeLost
  PROVE  MayBeLost'
  BY ExceptedStays, StepKeeps DEF MayBeLost

\* A mail that leaves the server was handled, but for the exceptions.
LEMMA LeavesHandled ==
  ASSUME IInv, MtaLocks, NEW g \in Gateways, Step(g), NEW m \in spool, m \notin spool', ~MayBeLost'
  PROVE  Dealt(m) \/ \E h \in Gateways \ {g} : mail[h] = m
<1> USE DEF IInv
<1>1. /\ ServerOK /\ RunsOK /\ RunOK(g) /\ HandOf(g) /\ m \in Mails
      /\ source' = source /\ overlap' = overlap
  BY StepKeeps DEF TypeOK, ServerOK, HandInv, HandOf
<1>2. ASSUME source = "imap", m \in flagged, phase[g] = "end"
      PROVE  Dealt(m) \/ \E h \in Gateways \ {g} : mail[h] = m
  <2>1. ~Excepted
    BY <1>1, <1>2, LostStays DEF MayBeLost
  <2>2. Dealt(m) \/ (\E h \in Gateways : mail[h] = m) \/ m \in listed[g]
    BY <1>2, <2>1 DEF FlagInv
  <2>3. mail[g] # m /\ handled[g] = listed[g]
    BY <1>1, <1>2 DEF RunOK, HandOf
  <2> QED
    BY <1>1, <2>2, <2>3 DEF HandOf
<1>3. CASE Finish(g)
  <2>1. phase[g] = "end" /\ handled[g] = listed[g]
    BY <1>1, <1>3 DEF Finish, HandOf
  <2>2. CASE source = "imap"
    BY <1>1, <1>2, <1>3, <2>1, <2>2 DEF Finish, Expunge
  <2>3. CASE source # "imap"
    BY <1>1, <1>3, <2>1, <2>3 DEF Finish, HandOf, ServerOK
  <2> QED
    BY <2>2, <2>3
<1>4. CASE FetchFails(g)
  <2>1. source = "imap"
    BY <1>1, <1>4 DEF FetchFails, Abort
  <2>2. aborts' > 0
    BY <1>4 DEF FetchFails, Abort, TypeOK, TrackerOK
  <2>3. ~overlap
    BY <1>1, <2>1, <2>2 DEF MayBeLost, Excepted
  <2>4. listed[g] \subseteq spool
    BY <1>1, <2>3 DEF HandOf
  <2> QED
    BY <1>4, <2>4 DEF FetchFails, Comes
<1>5. CASE BounceRaises(g)
  <2>1. source = "imap" /\ raised' # {}
    BY <1>1, <1>5 DEF BounceRaises, Abort
  <2> QED
    BY <1>1, <2>1 DEF MayBeLost, Excepted
<1>6. CASE ~(Finish(g) \/ FetchFails(g) \/ BounceRaises(g))
  BY <1>6 DEF Step, Progress, Start, Fetch, Advance, AtEnd, Parse, Enroll, Change, Commit, Bounce, Crash, Unchanged
<1> QED
  BY <1>3, <1>4, <1>5, <1>6

\* A run that is alone is in hand of a mail that is still there; what it lays down is dealt
\* with, or stays there, but for the exceptions.
LEMMA LaidDownHandled ==
  ASSUME IInv, NEW g \in Gateways, Step(g), NEW m \in Mails, mail[g] = m, mail'[g] # m, ~MayBeLost'
  PROVE  Dealt(m) \/ m \in spool'
<1> USE DEF IInv
<1>1. /\ ServerOK /\ RunsOK /\ RunOK(g) /\ HandOf(g) /\ m \in listed[g] /\ phase[g] \notin {"idle", "next", "end"}
      /\ source' = source /\ overlap' = overlap
  BY StepKeeps, MailInHand DEF TypeOK, HandInv, HandOf, RunOK
<1>2. CASE Advance(g)
  BY <1>1, <1>2 DEF Advance, HandOf, Dealt, Settled
<1>3. CASE BounceRaises(g)
  <2>1. source # "imap" /\ spool' = spool /\ ~overlap
    BY <1>1, <1>3 DEF BounceRaises, Abort, MayBeLost, Excepted, ServerOK
  <2> QED
    BY <1>1, <2>1 DEF HandOf
<1>4. CASE Crash(g)
  <2>1. aborts' > 0
    BY <1>4 DEF Crash, TypeOK, TrackerOK
  <2>2. ~overlap /\ spool' = spool
    BY <1>1, <1>4, <2>1 DEF Crash, MayBeLost, Excepted, ServerOK
  <2> QED
    BY <1>1, <2>2 DEF HandOf
<1>5. CASE ~(Advance(g) \/ BounceRaises(g) \/ Crash(g))
  BY <1>1, <1>5 DEF Step, Progress, Start, Fetch, FetchFails, Comes, AtEnd, Finish,
     Parse, Enroll, Change, Commit, Bounce, Unchanged
<1> QED
  BY <1>2, <1>3, <1>4, <1>5

\* NoMailIsLost of one mail.
KeptOf(m) == m \in spool \/ Dealt(m) \/ (\E g \in Gateways : mail[g] = m) \/ MayBeLost

LEMMA KeptIsNotLost ==
  ASSUME TRUE
  PROVE  NoMailIsLost <=> \A m \in Mails \ undelivered : KeptOf(m)
  BY DEF NoMailIsLost, KeptOf, Dealt, MayBeLost, Excepted

LEMMA KeptStep ==
  ASSUME IInv, MtaLocks, NEW g \in Gateways, Step(g), NEW m \in Mails, KeptOf(m)
  PROVE  KeptOf(m)'
<1>1. SUFFICES ASSUME ~MayBeLost' PROVE KeptOf(m)'
  BY DEF KeptOf
<1>2. ~MayBeLost
  BY <1>1, LostStays DEF IInv
<1>3. \A h \in Gateways \ {g} : mail'[h] = mail[h]
  BY OtherRuns DEF IInv
<1>4. Dealt(m) => Dealt(m)'
  BY DealtStays DEF IInv
<1>5. CASE Dealt(m)
  BY <1>4, <1>5 DEF KeptOf
<1>6. CASE m \in spool
  BY <1>1, <1>3, <1>4, <1>6, LeavesHandled DEF KeptOf
<1>7. CASE \E h \in Gateways : mail[h] = m
  BY <1>1, <1>3, <1>4, <1>7, LaidDownHandled DEF KeptOf
<1> QED
  BY <1>2, <1>5, <1>6, <1>7 DEF KeptOf

LEMMA KeptDeliver ==
  ASSUME TypeOK, NEW n \in Mails, Deliver(n), NEW m \in Mails \ undelivered', m \notin undelivered => KeptOf(m)
  PROVE  KeptOf(m)'
<1>1. m = n \/ m \notin undelivered
  BY DEF Deliver
<1>2. UNCHANGED <<source, overlap, kind, run, tracker, answers, aborts>> /\ spool' = spool \cup {n}
  BY DEF Deliver
<1> QED
  BY <1>1, <1>2 DEF KeptOf, Dealt, Settled, MayBeLost, Excepted

-----------------------------------------------------------------------------
(* The invariant, and the theorems it gives. *)

LEMMA InitIInv ==
  ASSUME Init
  PROVE  IInv /\ NoMailIsLost
<1>1. TypeOK
  BY DEF Init, TypeOK, ServerOK, RunsOK, RunOK, TrackerOK
<1>2. SoloInv /\ HandInv /\ FlagInv /\ MarkInv
  BY DEF Init, SoloInv, HandInv, FlagInv, MarkInv
<1> QED
  BY <1>1, <1>2 DEF Init, IInv, NoMailIsLost

LEMMA NextIInv ==
  ASSUME IInv, [Next]_vars
  PROVE  IInv'
<1> USE DEF IInv
<1>1. ASSUME NEW g \in Gateways, Step(g)
      PROVE  IInv'
  BY <1>1, TypeStep, SoloStep, HandStep, FlagStep, MarkStep
<1>2. ASSUME NEW m \in Mails, Deliver(m)
      PROVE  IInv'
  BY <1>2, TypeDeliver, SoloDeliver, HandDeliver, FlagDeliver, MarkDeliver
<1>3. CASE UNCHANGED vars
  BY <1>3 DEF vars, TypeOK, ServerOK, RunsOK, RunOK, TrackerOK, SoloInv, HandInv, FlagInv, MarkInv,
     Excepted, Dealt, Settled
<1> QED
  BY <1>1, <1>2, <1>3 DEF Next, Step

LEMMA NextKept ==
  ASSUME IInv, MtaLocks, NoMailIsLost, [Next]_vars
  PROVE  NoMailIsLost'
<1>1. \A m \in Mails \ undelivered : KeptOf(m)
  BY KeptIsNotLost
<1>2. ASSUME NEW g \in Gateways, Step(g), NEW m \in Mails \ undelivered'
      PROVE  KeptOf(m)'
  BY <1>1, <1>2, KeptStep, StepGrows DEF IInv
<1>3. ASSUME NEW n \in Mails, Deliver(n), NEW m \in Mails \ undelivered'
      PROVE  KeptOf(m)'
  BY <1>1, <1>3, KeptDeliver DEF IInv
<1>4. CASE UNCHANGED vars
  BY <1>4 DEF vars, NoMailIsLost, Settled
<1>5. CASE \A m \in Mails \ undelivered' : KeptOf(m)'
  BY <1>5 DEF NoMailIsLost, KeptOf, Dealt, MayBeLost, Excepted
<1> QED
  BY <1>2, <1>3, <1>4, <1>5 DEF Next, Step

-----------------------------------------------------------------------------
(* How often a mail has gone through. *)

\* Runs of which no two are under way, unless two can be, are no more than can be.
LEMMA RunsTogether ==
  ASSUME NEW E \in SUBSET Gateways, ~overlap => \A g, h \in E : g = h
  PROVE  IsFiniteSet(E) /\ Cardinality(E) \in Nat /\ Runs \in Nat /\ Cardinality(E) <= Runs
<1>1. /\ IsFiniteSet(E) /\ Cardinality(E) \in Nat /\ Cardinality(Gateways) \in Nat
      /\ Cardinality(E) <= Cardinality(Gateways)
  BY FS_Subset, FS_CardinalityType
<1>2. CASE overlap
  BY <1>1, <1>2 DEF Runs
<1>3. CASE ~overlap
  <2>1. CASE E = {}
    BY <1>1, <1>3, <2>1, FS_EmptySet DEF Runs
  <2>2. ASSUME NEW g \in E
        PROVE  Cardinality(E) = 1
    <3>1. E = {g}
      BY <1>3
    <3> QED
      BY <3>1, FS_Singleton
  <2> QED
    BY <1>1, <1>3, <2>1, <2>2 DEF Runs
<1> QED
  BY <1>2, <1>3

\* The runs that have taken a mail past a step, and those that have not yet, are different
\* ones, and no more than can be under way.
LEMMA RoomForRuns ==
  ASSUME IInv, NEW m \in Mails, NEW S
  PROVE  /\ IsFiniteSet(Has(m, S)) /\ IsFiniteSet(Yet(m, S))
         /\ Cardinality(Has(m, S)) \in Nat /\ Cardinality(Yet(m, S)) \in Nat /\ Runs \in Nat
         /\ Cardinality(Has(m, S)) + Cardinality(Yet(m, S)) <= Runs
<1> DEFINE has == Has(m, S)  yet == Yet(m, S)
<1>1. has \subseteq Gateways /\ yet \subseteq Gateways
  BY DEF Has, Yet
<1>2. /\ IsFiniteSet(has) /\ IsFiniteSet(yet) /\ IsFiniteSet(has \cup yet)
      /\ Cardinality(has) \in Nat /\ Cardinality(yet) \in Nat /\ Cardinality(Gateways) \in Nat
  BY <1>1, FS_Subset, FS_Union, FS_CardinalityType
<1>3. \A g \in has \cup yet : phase[g] # "idle"
  <2>1. \A g \in Gateways : RunOK(g)
    BY DEF IInv, TypeOK
  <2> QED
    BY <1>1, <2>1 DEF Has, Yet, RunOK
<1>4. has \cap yet = {}
  <2>1. \A g \in Gateways : mail[g] = m => m \notin handled[g]
    BY MailInHand DEF IInv, TypeOK, RunOK
  <2> QED
    BY <2>1 DEF Has, Yet
<1>5. Cardinality(has \cup yet) = Cardinality(has) + Cardinality(yet)
  <2>1. Cardinality(has \cup yet) = Cardinality(has) + Cardinality(yet) - Cardinality(has \cap yet)
    BY <1>2, FS_Union
  <2>2. Cardinality(has \cap yet) = 0
    BY <1>4, FS_EmptySet
  <2> QED
    BY <1>2, <2>1, <2>2
<1>6. ~overlap => \A g, h \in has \cup yet : g = h
  BY <1>1, <1>3 DEF IInv, SoloInv
<1>7. has \cup yet \in SUBSET Gateways
  BY <1>1
<1>8. Runs \in Nat /\ Cardinality(has \cup yet) <= Runs
  BY <1>6, <1>7, RunsTogether
<1> HIDE DEF has, yet
<1>9. Cardinality(has) + Cardinality(yet) <= Runs
  BY <1>5, <1>8
<1> QED
  BY <1>2, <1>8, <1>9 DEF has, yet

\* A run takes the mail past the step, and the count may go up.
LEMMA EntersBound ==
  ASSUME IInv, NEW g \in Gateways, NEW m \in Mails, NEW S, NEW n \in Nat, NEW k \in {n, n + 1},
         Bound(n, m, S), g \in Yet(m, S), g \notin Has(m, S),
         Has(m, S)' = Has(m, S) \cup {g}, Yet(m, S)' = Yet(m, S) \ {g},
         UNCHANGED <<spool, undelivered, aborts, overlap>>
  PROVE  Bound(k, m, S)'
<1> DEFINE has == Has(m, S)  yet == Yet(m, S)
<1>1. /\ IsFiniteSet(has) /\ IsFiniteSet(yet)
      /\ Cardinality(has) \in Nat /\ Cardinality(yet) \in Nat /\ Runs \in Nat /\ aborts \in Nat
  <2>1. aborts \in Nat
    BY DEF IInv, TypeOK, TrackerOK
  <2> QED
    BY <2>1, RoomForRuns
<1>2. Cardinality(has \cup {g}) = Cardinality(has) + 1
  BY <1>1, FS_AddElement
<1>3. Cardinality(yet \ {g}) = Cardinality(yet) - 1
  BY <1>1, FS_RemoveElement
<1>4. Cardinality(Has(m, S)') = Cardinality(has) + 1 /\ Cardinality(Yet(m, S)') = Cardinality(yet) - 1
  BY <1>2, <1>3
<1>5. Runs' = Runs
  BY DEF Runs
<1> HIDE DEF has, yet
<1> QED
  BY <1>1, <1>4, <1>5 DEF Bound, has, yet

\* A run leaves the mail where it was.
LEMMA StaysBound ==
  ASSUME NEW m \in Mails, NEW S, NEW n \in Nat, Bound(n, m, S),
         Has(m, S)' = Has(m, S), Yet(m, S)' = Yet(m, S) \/ m \in spool,
         UNCHANGED <<aborts, overlap>>,
         m \in (spool \cup undelivered)' <=> m \in spool \cup undelivered
  PROVE  Bound(n, m, S)'
  BY DEF Bound, Runs

\* A run is gone before its time, or at its end, when it has not handled the mail or takes it away.
LEMMA EndsBound ==
  ASSUME IInv, NEW g \in Gateways, NEW m \in Mails, NEW S, NEW n \in Nat, Bound(n, m, S),
         Has(m, S)' = Has(m, S) \ {g}, Yet(m, S)' = Yet(m, S) \ {g}, overlap' = overlap,
         spool' \subseteq spool, undelivered' = undelivered,
         \/ aborts' = aborts + 1
         \/ aborts' = aborts /\ (m \in spool' \cup undelivered => g \notin Has(m, S))
  PROVE  Bound(n, m, S)'
<1> DEFINE has == Has(m, S)  yet == Yet(m, S)
<1>1. /\ IsFiniteSet(has) /\ IsFiniteSet(yet) /\ Cardinality(has) + Cardinality(yet) <= Runs
      /\ Cardinality(has) \in Nat /\ Cardinality(yet) \in Nat /\ Runs \in Nat /\ aborts \in Nat
  <2>1. aborts \in Nat
    BY DEF IInv, TypeOK, TrackerOK
  <2> QED
    BY <2>1, RoomForRuns
<1>2. /\ Cardinality(has \ {g}) = Cardinality(has) - (IF g \in has THEN 1 ELSE 0)
      /\ Cardinality(yet \ {g}) = Cardinality(yet) - (IF g \in yet THEN 1 ELSE 0)
  <2>1. \A T : IsFiniteSet(T) =>
          Cardinality(T \ {g}) = IF g \in T THEN Cardinality(T) - 1 ELSE Cardinality(T)
    BY FS_RemoveElement
  <2> QED
    BY <1>1, <2>1
<1>3. /\ Cardinality(Has(m, S)') = Cardinality(has) - (IF g \in has THEN 1 ELSE 0)
      /\ Cardinality(Yet(m, S)') = Cardinality(yet) - (IF g \in yet THEN 1 ELSE 0)
  BY <1>2
<1>4. Runs' = Runs
  BY DEF Runs
<1> HIDE DEF has, yet
<1> QED
  BY <1>1, <1>3, <1>4 DEF Bound, has, yet

\* What a step does to the two sets is what it does to its own run.
LEMMA OwnMembership ==
  ASSUME TypeOK, NEW g \in Gateways, Step(g), NEW m \in Mails, NEW S
  PROVE  /\ Has(m, S)' = IF m \in handled'[g] \/ (mail'[g] = m /\ phase'[g] \in S)
                         THEN Has(m, S) \cup {g} ELSE Has(m, S) \ {g}
         /\ Yet(m, S)' = IF mail'[g] = m /\ phase'[g] \notin S
                         THEN Yet(m, S) \cup {g} ELSE Yet(m, S) \ {g}
  BY OtherRuns DEF Has, Yet

Steps == {AfterCommit, AfterChange}

\* The loop over the mails.
LEMMA LoopBound ==
  ASSUME IInv, NEW g \in Gateways, Start(g) \/ Fetch(g) \/ Advance(g) \/ AtEnd(g),
         NEW m \in Mails, NEW S \in Steps, NEW n \in Nat, Bound(n, m, S)
  PROVE  Bound(n, m, S)'
<1>1. Step(g)
  BY DEF Step, Progress
<1>2. "handled" \in S /\ S \cap {"idle", "next", "parse", "end"} = {}
  BY DEF Steps, AfterCommit, AfterChange
<1>3. TypeOK /\ RunsOK /\ RunOK(g)
  BY DEF IInv, TypeOK
<1>4. UNCHANGED <<spool, undelivered, aborts, overlap>>
  BY DEF Start, Fetch, Advance, AtEnd
<1>5. /\ m \in handled'[g] \/ (mail'[g] = m /\ phase'[g] \in S)
           <=> m \in handled[g] \/ (mail[g] = m /\ phase[g] \in S)
      /\ mail[g] = m /\ phase[g] \notin S => mail'[g] = m /\ phase'[g] \notin S
      /\ mail'[g] = m /\ phase'[g] \notin S => (mail[g] = m /\ phase[g] \notin S) \/ m \in spool
  <2>1. CASE Start(g)
    BY <1>2, <1>3, <2>1 DEF Start, RunsOK, RunOK
  <2>2. CASE Fetch(g)
    BY <1>2, <1>3, <2>2 DEF Fetch, Comes, RunsOK, RunOK
  <2>3. CASE Advance(g)
    BY <1>2, <1>3, <2>3 DEF Advance, RunsOK, RunOK
  <2>4. CASE AtEnd(g)
    BY <1>2, <1>3, <2>4 DEF AtEnd, RunsOK, RunOK
  <2> QED
    BY <2>1, <2>2, <2>3, <2>4
<1>6. Has(m, S)' = Has(m, S)
  BY <1>1, <1>3, <1>5, OwnMembership DEF Has
<1>7. Yet(m, S)' = Yet(m, S) \/ m \in spool
  BY <1>1, <1>3, <1>5, OwnMembership DEF Yet
<1> QED
  BY <1>4, <1>6, <1>7, StaysBound

\* The ends of a run.
LEMMA EndBound ==
  ASSUME IInv, NEW g \in Gateways, Finish(g) \/ FetchFails(g) \/ BounceRaises(g) \/ Crash(g),
         NEW m \in Mails, NEW S \in Steps, NEW n \in Nat, Bound(n, m, S)
  PROVE  Bound(n, m, S)'
<1>1. Step(g)
  BY DEF Step, Progress
<1>2. ServerOK /\ RunsOK /\ RunOK(g) /\ HandOf(g) /\ m # NoMail
  BY DEF IInv, TypeOK, HandInv, HandOf
<1>3. phase'[g] = "idle" /\ mail'[g] # m /\ handled'[g] = {}
  BY <1>2 DEF Finish, FetchFails, BounceRaises, Crash, Abort, Gone, RunsOK
<1>4. Has(m, S)' = Has(m, S) \ {g} /\ Yet(m, S)' = Yet(m, S) \ {g}
  BY <1>1, <1>3, OwnMembership DEF IInv
<1>5. undelivered' = undelivered /\ spool' \subseteq spool /\ overlap' = overlap
  BY <1>1, StepGrows, StepKeeps DEF IInv
<1>6. CASE Finish(g)
  <2>1. aborts' = aborts /\ phase[g] = "end" /\ mail[g] # m
    BY <1>2, <1>6 DEF Finish, RunOK
  <2>2. m \in undelivered => m \notin handled[g]
    BY <1>2 DEF HandOf, RunOK
  <2>3. m \in spool' => m \notin handled[g]
    <3>1. CASE source = "imap"
      BY <1>2, <1>5, <1>6, <3>1 DEF Finish, Expunge, IInv, MarkInv
    <3>2. CASE source # "imap"
      BY <1>6, <3>2 DEF Finish
    <3> QED
      BY <3>1, <3>2
  <2> QED
    BY <1>4, <1>5, <2>1, <2>2, <2>3, EndsBound DEF Has
<1>7. CASE ~Finish(g)
  <2>1. aborts' = aborts + 1
    BY <1>7 DEF FetchFails, BounceRaises, Crash, Abort
  <2> QED
    BY <1>4, <1>5, <2>1, EndsBound
<1> QED
  BY <1>6, <1>7

Handles(g) == Parse(g) \/ Enroll(g) \/ Change(g) \/ Commit(g) \/ Bounce(g)

\* The handling of a message: the count goes up only as the run takes the mail past the step.
LEMMA HandlesBound ==
  ASSUME IInv, NEW g \in Gateways, Handles(g), NEW m \in Mails, NEW S \in Steps,
         NEW n \in Nat, NEW k \in {n, n + 1}, Bound(n, m, S),
         k = n + 1 => mail[g] = m /\ phase[g] \notin S /\ phase'[g] \in S
  PROVE  Bound(k, m, S)'
<1>1. Step(g)
  BY DEF Handles, Step, Progress
<1>2. TypeOK /\ RunsOK /\ RunOK(g)
  BY DEF IInv, TypeOK
<1>3. UNCHANGED <<spool, undelivered, aborts, overlap, mail, handled>>
  BY DEF Handles, Parse, Enroll, Change, Commit, Bounce, Unchanged
<1>4. phase[g] \in S => phase'[g] \in S
  BY <1>2 DEF Handles, Parse, Enroll, Change, Commit, Bounce, Becomes, Fails, After, RunsOK,
     Steps, AfterCommit, AfterChange
<1>5. mail[g] = m => m \notin handled[g]
  <2>1. phase[g] \in {"parse", "enroll", "change", "commit", "bounce", "early", "fault", "report"}
    BY DEF Handles, Parse, Enroll, Change, Commit, Bounce
  <2> QED
    BY <1>2, <2>1 DEF RunOK
<1>6. CASE mail[g] = m /\ phase[g] \notin S /\ phase'[g] \in S
  <2>1. g \in Yet(m, S) /\ g \notin Has(m, S)
    BY <1>5, <1>6 DEF Has, Yet
  <2>2. Has(m, S)' = Has(m, S) \cup {g} /\ Yet(m, S)' = Yet(m, S) \ {g}
    BY <1>1, <1>2, <1>3, <1>6, OwnMembership
  <2> QED
    BY <1>3, <2>1, <2>2, EntersBound
<1>7. CASE ~(mail[g] = m /\ phase[g] \notin S /\ phase'[g] \in S)
  <2>1. k = n
    BY <1>7
  <2>2. Has(m, S)' = Has(m, S) /\ Yet(m, S)' = Yet(m, S)
    BY <1>1, <1>2, <1>3, <1>4, <1>5, <1>7, OwnMembership DEF Has, Yet
  <2> QED
    BY <1>3, <2>1, <2>2, StaysBound
<1> QED
  BY <1>6, <1>7

\* CountInv, with the counts of a mail before the step (a, c) and after it (b, d).
LEMMA CountStep ==
  ASSUME IInv, CountInv, NEW g \in Gateways, Step(g)
  PROVE  CountInv'
<1>a. RunsOK /\ TrackerOK /\ TrackerOK'
  BY TrackerStep DEF IInv, TypeOK
<1>1. SUFFICES ASSUME NEW m \in Mails,
                      NEW b \in Nat, b = changed'[m], NEW d \in Nat, d = notified'[m]
               PROVE  Bound(b, m, AfterCommit)' /\ Bound(d, m, AfterChange)'
  BY <1>a DEF CountInv, Bound, TrackerOK
<1>b. PICK a \in Nat : a = changed[m]
  BY <1>a DEF TrackerOK
<1>c. PICK c \in Nat : c = notified[m]
  BY <1>a DEF TrackerOK
<1>2. /\ Bound(a, m, AfterCommit) /\ Bound(c, m, AfterChange)
      /\ AfterCommit \in Steps /\ AfterChange \in Steps
  BY <1>b, <1>c DEF CountInv, Steps
<1>3. CASE Start(g) \/ Fetch(g) \/ Advance(g) \/ AtEnd(g)
  <2>1. changed' = changed /\ notified' = notified
    BY <1>3 DEF Start, Fetch, Advance, AtEnd
  <2> QED
    BY <1>1, <1>b, <1>c, <1>2, <1>3, <2>1, LoopBound
<1>4. CASE Finish(g) \/ FetchFails(g) \/ BounceRaises(g) \/ Crash(g)
  <2>1. changed' = changed /\ notified' = notified
    BY <1>4 DEF Finish, FetchFails, BounceRaises, Crash, Abort
  <2> QED
    BY <1>1, <1>b, <1>c, <1>2, <1>4, <2>1, EndBound
<1>5. CASE Handles(g)
  <2>1. b \in {a, a + 1} /\ (b = a + 1 =>
             mail[g] = m /\ phase[g] \notin AfterCommit /\ phase'[g] \in AfterCommit)
    <3>1. CASE Commit(g)
      <4>1. CASE changed' = changed
        BY <1>b, <1>1, <4>1
      <4>2. CASE Becomes(g, "handled") /\ changed' = [changed EXCEPT ![mail[g]] = @ + 1]
        <5>1. phase[g] \notin AfterCommit /\ phase'[g] \in AfterCommit
          BY <1>a, <3>1, <4>2 DEF Commit, Becomes, AfterCommit, RunsOK
        <5>2. b = IF mail[g] = m THEN a + 1 ELSE a
          BY <1>a, <1>b, <1>1, <4>2 DEF TrackerOK
        <5> QED
          BY <5>1, <5>2
      <4> QED
        BY <3>1, <4>1, <4>2 DEF Commit
    <3>2. CASE ~Commit(g)
      BY <1>b, <1>1, <1>5, <3>2 DEF Handles, Parse, Enroll, Change, Bounce
    <3> QED
      BY <3>1, <3>2
  <2>2. d \in {c, c + 1} /\ (d = c + 1 =>
             mail[g] = m /\ phase[g] \notin AfterChange /\ phase'[g] \in AfterChange)
    <3>1. CASE Change(g)
      <4>1. CASE notified' = notified
        BY <1>c, <1>1, <4>1
      <4>2. CASE notified' = [notified EXCEPT ![mail[g]] = @ + 1]
        <5>1. phase[g] \notin AfterChange /\ phase'[g] \in AfterChange
          BY <1>a, <3>1, <4>2 DEF Change, Notify, Becomes, Fails, AfterChange, RunsOK
        <5>2. d = IF mail[g] = m THEN c + 1 ELSE c
          BY <1>a, <1>c, <1>1, <4>2 DEF TrackerOK
        <5> QED
          BY <5>1, <5>2
      <4> QED
        BY <3>1, <4>1, <4>2 DEF Change, Notify
    <3>2. CASE ~Change(g)
      BY <1>c, <1>1, <1>5, <3>2 DEF Handles, Parse, Enroll, Commit, Bounce
    <3> QED
      BY <3>1, <3>2
  <2> QED
    BY <1>2, <1>5, <2>1, <2>2, HandlesBound
<1> QED
  BY <1>3, <1>4, <1>5 DEF Step, Progress, Handles

LEMMA CountDeliver ==
  ASSUME IInv, CountInv, NEW n \in Mails, Deliver(n)
  PROVE  CountInv'
<1>1. SUFFICES ASSUME NEW m \in Mails
               PROVE  Bound(changed[m], m, AfterCommit)' /\ Bound(notified[m], m, AfterChange)'
  BY DEF CountInv
<1>2. UNCHANGED <<run, tracker, aborts, overlap>>
  BY DEF Deliver
<1>3. spool' \cup undelivered' = spool \cup undelivered
  BY DEF Deliver
<1> QED
  BY <1>2, <1>3 DEF CountInv, Bound, Has, Yet, Runs

LEMMA InitCount ==
  ASSUME Init
  PROVE  CountInv
<1>1. SUFFICES ASSUME NEW m \in Mails, NEW S PROVE Bound(0, m, S)
  BY DEF CountInv, Init
<1>2. IInv
  BY InitIInv
<1> QED
  BY <1>2, RoomForRuns DEF Init, Bound

LEMMA NextCount ==
  ASSUME IInv, CountInv, [Next]_vars
  PROVE  CountInv'
<1>1. CASE UNCHANGED vars
  BY <1>1 DEF vars, CountInv, Bound, Has, Yet, Runs
<1> QED
  BY <1>1, CountStep, CountDeliver DEF Next, Step

LEMMA CountIsEnough ==
  ASSUME IInv, CountInv
  PROVE  OncePerRun
<1>1. SUFFICES ASSUME NEW m \in Mails
               PROVE  changed[m] <= Runs + aborts /\ notified[m] <= Runs + aborts
  BY DEF OncePerRun, Runs
<1>2. /\ Bound(changed[m], m, AfterCommit) /\ Bound(notified[m], m, AfterChange)
      /\ changed[m] \in Nat /\ notified[m] \in Nat /\ aborts \in Nat
  BY DEF CountInv, IInv, TypeOK, TrackerOK
<1>3. ASSUME NEW S, NEW n \in Nat, Bound(n, m, S)
      PROVE  n <= Runs + aborts
  BY <1>2, <1>3, RoomForRuns DEF Bound
<1> QED
  BY <1>2, <1>3

-----------------------------------------------------------------------------
(* One account for the author. *)

\* The runs that are about to commit the account they have made, and those that can be.
Enrolling == {g \in Gateways : phase[g] = "enroll"}
EnrollInv == accounts + Cardinality(Enrolling) <= Runs

LEMMA EnrollingRuns ==
  ASSUME IInv
  PROVE  /\ IsFiniteSet(Enrolling) /\ Cardinality(Enrolling) \in Nat /\ Runs \in Nat
         /\ Cardinality(Enrolling) <= Runs
<1>1. Enrolling \in SUBSET Gateways /\ (~overlap => \A g, h \in Enrolling : g = h)
  BY DEF Enrolling, IInv, SoloInv
<1> QED
  BY <1>1, RunsTogether

\* A step of a run that neither looks the author up nor commits an account.
LEMMA EnrollOther ==
  ASSUME IInv, EnrollInv, NEW g \in Gateways, Step(g),
         accounts' = accounts, phase'[g] # "enroll" \/ phase[g] = "enroll"
  PROVE  EnrollInv'
<1>1. IInv /\ TypeOK /\ accounts \in Nat /\ Runs' = Runs
  BY StepKeeps DEF IInv, TypeOK, TrackerOK, Runs
<1>2. Enrolling' \subseteq Enrolling
  BY <1>1, OtherRuns DEF Enrolling
<1>3. Cardinality(Enrolling') \in Nat /\ Cardinality(Enrolling') <= Cardinality(Enrolling)
  BY <1>2, EnrollingRuns, FS_Subset, FS_CardinalityType
<1> QED
  BY <1>1, <1>3, EnrollingRuns DEF EnrollInv

LEMMA EnrollStep ==
  ASSUME IInv, EnrollInv, NEW g \in Gateways, Step(g)
  PROVE  EnrollInv'
<1>a. RunsOK /\ accounts \in Nat /\ overlap' = overlap /\ Runs' = Runs
  BY StepKeeps DEF IInv, TypeOK, TrackerOK, Runs
<1>b. Cardinality(Enrolling') \in Nat /\ Runs \in Nat /\ Cardinality(Enrolling') <= Runs
  <2>1. SoloInv'
    BY SoloStep DEF IInv
  <2>2. Enrolling' \in SUBSET Gateways /\ (~overlap => \A h, k \in Enrolling' : h = k)
    BY <1>a, <2>1 DEF Enrolling, SoloInv
  <2> QED
    BY <2>2, RunsTogether
<1> USE DEF Gone, Abort, Becomes, Fails, After, Unchanged, RunsOK
<1>1. CASE Start(g)
  BY <1>a, <1>1, EnrollOther DEF Start
<1>2. CASE Fetch(g)
  BY <1>a, <1>2, EnrollOther DEF Fetch
<1>3. CASE FetchFails(g)
  BY <1>a, <1>3, EnrollOther DEF FetchFails
<1>4. CASE Advance(g)
  BY <1>a, <1>4, EnrollOther DEF Advance
<1>5. CASE AtEnd(g)
  BY <1>a, <1>5, EnrollOther DEF AtEnd
<1>6. CASE Finish(g)
  BY <1>a, <1>6, EnrollOther DEF Finish
<1>7. CASE Parse(g)
  <2>1. accounts' = accounts /\ (accounts = 0 \/ phase'[g] # "enroll")
    BY <1>a, <1>7 DEF Parse
  <2>2. CASE accounts = 0
    BY <1>a, <1>b, <2>1, <2>2 DEF EnrollInv
  <2> QED
    BY <2>1, <2>2, EnrollOther
<1>8. CASE Change(g)
  BY <1>a, <1>8, EnrollOther DEF Change, Notify
<1>9. CASE Commit(g)
  BY <1>a, <1>9, EnrollOther DEF Commit
<1>10. CASE Bounce(g)
  BY <1>a, <1>10, EnrollOther DEF Bounce
<1>11. CASE BounceRaises(g)
  BY <1>a, <1>11, EnrollOther DEF BounceRaises
<1>12. CASE Crash(g)
  BY <1>a, <1>12, EnrollOther DEF Crash
<1>13. CASE Enroll(g)
  <2>1. g \in Enrolling /\ accounts' \in {accounts, accounts + 1}
    BY <1>13 DEF Enroll, Enrolling
  <2>2. phase'[g] # "enroll"
    BY <1>a, <1>13 DEF Enroll
  <2>3. Enrolling' = Enrolling \ {g}
    BY <2>2, OtherRuns DEF Enrolling, IInv
  <2>4. Cardinality(Enrolling') = Cardinality(Enrolling) - 1
    BY <2>1, <2>3, EnrollingRuns, FS_RemoveElement
  <2> QED
    BY <1>a, <2>1, <2>4, EnrollingRuns DEF EnrollInv
<1> QED
  BY <1>1, <1>2, <1>3, <1>4, <1>5, <1>6, <1>7, <1>8, <1>9, <1>10, <1>11, <1>12, <1>13 DEF Step, Progress

LEMMA NextEnroll ==
  ASSUME IInv, EnrollInv, [Next]_vars
  PROVE  EnrollInv'
<1>1. ASSUME NEW m \in Mails, Deliver(m)
      PROVE  EnrollInv'
  BY <1>1 DEF Deliver, EnrollInv, Enrolling, Runs
<1>2. CASE UNCHANGED vars
  BY <1>2 DEF vars, EnrollInv, Enrolling, Runs
<1> QED
  BY <1>1, <1>2, EnrollStep DEF Next, Step

LEMMA InitEnroll ==
  ASSUME Init
  PROVE  EnrollInv
<1>1. Cardinality(Enrolling) \in Nat /\ Cardinality(Enrolling) <= Runs /\ accounts = 0
  BY InitIInv, EnrollingRuns DEF Init
<1> QED
  BY <1>1 DEF EnrollInv

LEMMA EnrollIsEnough ==
  ASSUME IInv, EnrollInv
  PROVE  OneAccountPerAuthor
<1>1. accounts \in Nat /\ Cardinality(Enrolling) \in Nat /\ Runs \in Nat
  BY EnrollingRuns DEF IInv, TypeOK, TrackerOK
<1>2. accounts <= Runs
  BY <1>1 DEF EnrollInv
<1> QED
  BY <1>2 DEF OneAccountPerAuthor, Runs

-----------------------------------------------------------------------------
\* The invariant that the theorems rest on.
THEOREM Invariance == Spec => [](IInv /\ CountInv /\ EnrollInv)
<1>1. Init => IInv /\ CountInv /\ EnrollInv
  BY InitIInv, InitCount, InitEnroll
<1>2. IInv /\ CountInv /\ EnrollInv /\ [Next]_vars => IInv' /\ CountInv' /\ EnrollInv'
  BY NextIInv, NextCount, NextEnroll
<1> QED
  BY <1>1, <1>2, PTL DEF Spec

\* Variables keep their types: one process at a time has the maildrop or the mailbox file, and
\* a run has in hand one of the mails it has found and not come to the end of.
THEOREM TypeCorrect == Spec => []TypeOK
  BY Invariance, PTL DEF IInv

\* A mail is on the server or in hand, or changed the tracker or was answered, whenever and
\* however often runs end; of a mailbox file only if what delivers respects the lock of the run
\* that will truncate it.
THEOREM MailsAreKept == MtaLocks => (Spec => []NoMailIsLost)
<1> SUFFICES ASSUME MtaLocks PROVE Spec => []NoMailIsLost
  OBVIOUS
<1>1. Init => NoMailIsLost
  BY InitIInv
<1>2. IInv /\ NoMailIsLost /\ [Next]_vars => NoMailIsLost'
  BY NextKept
<1> QED
  BY <1>1, <1>2, Invariance, PTL DEF Spec

\* A mail changes the tracker, and goes to the nosy list, once, and once again for each run
\* that ended before its time, and once for each of the runs on an IMAP server at once.
THEOREM OnceAndAgain == Spec => []OncePerRun
  BY Invariance, CountIsEnough, PTL

\* The author of the mails is given one account, however many of the mails are rejected and
\* however often runs end after its commit and the mails come again; each of the runs on an
\* IMAP server at once can give one.
THEOREM OneAccountEach == Spec => []OneAccountPerAuthor
<1>1. IInv /\ EnrollInv => OneAccountPerAuthor
  BY EnrollIsEnough
<1> QED
  BY <1>1, Invariance, PTL

=============================================================================
