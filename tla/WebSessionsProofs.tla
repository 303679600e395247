-------------------------- MODULE WebSessionsProofs --------------------------
(***************************************************************************)
(* Theorems about WebSessions, for any sessions, requests and times: a     *)
(* logout is final, a session in use is kept, and a recorded cleaning has  *)
(* left nothing old, however the requests interleave.                      *)
(***************************************************************************)
EXTENDS WebSessions, TLAPS

\* What a request carries from one step to the next.
RequestInv ==
  \A r \in Requests :
    /\ phase[r] \in {"known", "known_again", "updating", "inserting", "remembering"} => sid[r] # None
    /\ user[r] => /\ sid[r] # None
                  /\ phase[r] \in {"opened", "listing", "destroying", "cleaned", "dated"}
    /\ phase[r] \in {"idle", "known", "opened", "listing", "destroying"} => deleted[r] = {}
    /\ phase[r] = "updating" => sid[r] \notin deleted[r]
    /\ phase[r] = "destroying" => clock[r] > Week

PastInv == \A s \in Sids : sess[s].time <= now

\* A session that somebody may count on is there, renewed when it was last used or less
\* than a minute before; or that use is as long ago as the cleaner asks for.
Alive(s) == sess[s] # Gone /\ sess[s].user /\ lastUsed[s] - Minute <= sess[s].time
Expired(s) == now - lastUsed[s] > Week - Minute

KeptInv ==
  \A s \in issued \ (loggedOut \cup snatched \cup backdated) :
    /\ Alive(s) \/ Expired(s)
    /\ \A r \in Requests : s \in deleted[r] => Expired(s)

\* What a cleaning that looks for sessions older than at time t has not dealt with.
Left(t, s) == sess[s] # Gone /\ sess[s].time < t - Week
Dealt(s) == s \in unsaved \/ \E r \in Requests : s \in deleted[r]

CleanInv ==
  \A s \in Sids :
    /\ Left(lastClean, s) => Dealt(s)
    /\ \A r \in Requests :
         /\ phase[r] = "cleaned" /\ Left(clock[r], s) => Dealt(s)
         /\ phase[r] \in {"listing", "destroying"} /\ Left(clock[r], s) =>
              s \in todo[r] \/ s = old[r]

IInv == TypeOK /\ RequestInv /\ PastInv /\ KeptInv /\ CleanInv

USE TimeAssumption, NoneAssumption
USE DEF data, history

-----------------------------------------------------------------------------
(* Types. *)

LEMMA EntryFacts ==
  /\ Gone \in Entries /\ Gone.time = 0 /\ Gone.user = FALSE
  /\ \A e \in Entries : e.time \in 0..MaxTime /\ e.user \in BOOLEAN
  BY DEF Gone, Entries

LEMMA NewEntry ==
  ASSUME NEW t \in 0..MaxTime, NEW b \in BOOLEAN
  PROVE  /\ [time |-> t, user |-> b] \in Entries
         /\ [time |-> t, user |-> b].time = t /\ [time |-> t, user |-> b].user = b
         /\ t > 0 => [time |-> t, user |-> b] # Gone
  BY DEF Entries, Gone

LEMMA TypeInit == Init => TypeOK
  BY EntryFacts DEF Init, TypeOK, Phases, Stores

\* The type invariant in parts: the stores and the history, the requests one by one, and
\* what holds between a request and the stores or another request.
StoreTypes ==
  /\ store \in Stores /\ now \in 0..MaxTime
  /\ issued \subseteq Sids /\ sess \in [Sids -> Entries] /\ lastClean \in 0..now
  /\ lastUsed \in [Sids -> 0..now]
  /\ loggedOut \subseteq issued /\ backdated \subseteq issued
  /\ unsaved \subseteq issued /\ snatched \subseteq issued
RequestTypes ==
  /\ phase \in [Requests -> Phases] /\ clock \in [Requests -> 0..now]
  /\ cookie \in [Requests -> issued \cup {None}]
  /\ sid \in [Requests -> issued \cup {None}] /\ user \in [Requests -> BOOLEAN]
  /\ todo \in [Requests -> SUBSET issued] /\ old \in [Requests -> issued \cup {None}]
  /\ deleted \in [Requests -> SUBSET issued]
Relations ==
  /\ \A s \in Sids \ issued : sess[s] = Gone
  /\ \A r \in Requests :
       /\ todo[r] # {} => store = "dbm" /\ phase[r] \in {"listing", "destroying"}
       /\ old[r] # None <=> phase[r] = "destroying"
       /\ deleted[r] # {} => store = "sql" /\ phase[r] # "idle"
       /\ \A q \in Requests \ {r} : deleted[r] \cap deleted[q] = {}

LEMMA TypeParts == TypeOK <=> StoreTypes /\ RequestTypes /\ Relations
  BY DEF TypeOK, StoreTypes, RequestTypes, Relations

LEMMA RequestTypesStep ==
  ASSUME StoreTypes, RequestTypes, Relations, RequestInv, NEW r \in Requests, Step(r)
  PROVE  RequestTypes'
<1> USE DEF StoreTypes, RequestTypes, RequestInv, Relations, Phases, Becomes, Over, Saves, RollsBack, Update, Remembers
<1>1. CASE Begin(r)
  BY <1>1 DEF Begin
<1>2. CASE Load(r)
  BY <1>2, EntryFacts DEF Load
<1>3. CASE LoadFails(r) \/ End(r)
  <2>1. Ends(r)
    BY <1>3 DEF LoadFails, End
  <2> QED
    BY <2>1 DEF Ends
<1>4. CASE CleanUp(r)
  BY <1>4 DEF CleanUp
<1>5. CASE Look(r)
  BY <1>5 DEF Look
<1>6. CASE Destroy(r)
  BY <1>6 DEF Destroy
<1>7. CASE Stamp(r)
  BY <1>7 DEF Stamp
<1>8. CASE Identify(r)
  BY <1>8 DEF Identify
<1>9. CASE Reopen(r)
  BY <1>9 DEF Reopen
<1>10. CASE LogInAnew(r)
  <2>1. PICK s \in Sids \ issued : /\ issued' = issued \cup {s}
                                   /\ Over(r) \/ Remembers(r, s)
    BY <1>10 DEF LogInAnew
  <2>2. /\ now' = now /\ deleted' = [deleted EXCEPT ![r] = {}]
    BY <1>10 DEF LogInAnew
  <2>3. CASE Over(r)
    BY <2>1, <2>2, <2>3
  <2>4. CASE Remembers(r, s)
    BY <2>1, <2>2, <2>4
  <2> QED
    BY <2>1, <2>3, <2>4
<1>11. CASE LogIn(r)
  BY <1>11 DEF LogIn
<1>12. CASE SetUser(r)
  <2>1. /\ UNCHANGED <<now, issued>> /\ deleted' = [deleted EXCEPT ![r] = {}]
        /\ Over(r) \/ Remembers(r, sid[r])
    BY <1>12 DEF SetUser
  <2>2. CASE Over(r)
    BY <2>1, <2>2
  <2>3. CASE Remembers(r, sid[r])
    BY <2>1, <2>3
  <2> QED
    BY <2>1, <2>2, <2>3
<1>13. CASE LogOut(r)
  BY <1>13 DEF LogOut
<1>14. CASE Edit(r)
  BY <1>14 DEF Edit
<1>15. CASE Remember(r)
  BY <1>15 DEF Remember
<1> QED
  BY <1>1, <1>2, <1>3, <1>4, <1>5, <1>6, <1>7, <1>8, <1>9, <1>10, <1>11, <1>12, <1>13, <1>14, <1>15
  DEF Step

\* Each entry of the store stays, goes, or is written as e.
LEMMA Written ==
  ASSUME StoreTypes, PastInv, NEW e \in Entries, e.time <= now,
         sess' = [q \in Sids |-> sess'[q]],
         \A q \in Sids : sess'[q] = sess[q] \/ sess'[q] = Gone \/ sess'[q] = e
  PROVE  /\ sess' \in [Sids -> Entries]
         /\ \A q \in Sids : sess'[q].time <= now
<1>1. \A q \in Sids : sess'[q] \in Entries /\ sess'[q].time <= now
  BY EntryFacts DEF StoreTypes, PastInv
<1> QED
  BY <1>1

\* updateTimestamp: a session that is there keeps its user, and its time is less than a minute
\* old; one that is not there gets no user.
LEMMA RenewedFacts ==
  ASSUME StoreTypes, PastInv, NEW r \in Requests, NEW s \in Sids
  PROVE  LET e == Renewed(r, s) IN
         /\ e \in Entries /\ e.time <= now
         /\ There(r, s) => /\ e.user = sess[s].user /\ e # Gone
                           /\ e.time >= now - Minute /\ e.time >= sess[s].time
         /\ ~There(r, s) => ~e.user /\ (e = Gone \/ e.time = now)
<1>1. CASE There(r, s) /\ sess[s].time < now - Minute
  BY <1>1, EntryFacts, NewEntry DEF Renewed, StoreTypes, PastInv
<1>2. CASE There(r, s) /\ ~(sess[s].time < now - Minute)
  BY <1>2, EntryFacts DEF Renewed, StoreTypes, PastInv, There
<1>3. CASE ~There(r, s) /\ store = "dbm"
  <2>1. Renewed(r, s) = [time |-> now, user |-> FALSE]
    BY <1>3 DEF Renewed
  <2>2. Renewed(r, s) \in Entries /\ Renewed(r, s).time = now /\ ~Renewed(r, s).user
    BY <2>1 DEF StoreTypes, Entries
  <2> QED
    BY <1>3, <2>2 DEF StoreTypes
<1>4. CASE ~There(r, s) /\ store # "dbm"
  <2>1. Renewed(r, s) = Gone
    BY <1>4 DEF Renewed
  <2> QED
    BY <1>4, <2>1, EntryFacts DEF StoreTypes
<1> QED
  BY <1>1, <1>2, <1>3, <1>4

\* Session.update leaves the store, the time of the last use and the backdated in their types.
LEMMA UpdateTypes ==
  ASSUME StoreTypes, RequestTypes, PastInv, NEW r \in Requests, sid[r] # None, Update(r)
  PROVE  /\ sess' \in [Sids -> Entries] /\ \A q \in Sids : sess'[q].time <= now
         /\ lastUsed' \in [Sids -> 0..now] /\ backdated' \subseteq issued
         /\ unsaved' = unsaved
<1> USE DEF StoreTypes, RequestTypes, Update, Saves
<1>1. sid[r] \in Sids
  OBVIOUS
<1>2. Renewed(r, sid[r]) \in Entries /\ Renewed(r, sid[r]).time <= now
  BY <1>1, RenewedFacts
<1>3. sess' \in [Sids -> Entries] /\ \A q \in Sids : sess'[q].time <= now
  BY <1>2, Written
<1> QED
  BY <1>1, <1>3

LEMMA StoreTypesStep ==
  ASSUME StoreTypes, RequestTypes, Relations, RequestInv, PastInv, NEW r \in Requests, Step(r)
  PROVE  StoreTypes' /\ PastInv'
<1> USE EntryFacts DEF StoreTypes, RequestTypes, RequestInv, Relations, PastInv, Becomes, Saves, RollsBack
<1>1. CASE Begin(r)
  BY <1>1 DEF Begin
<1>2. CASE Load(r)
  BY <1>2 DEF Load
<1>3. CASE LoadFails(r) \/ End(r)
  <2>1. Ends(r)
    BY <1>3 DEF LoadFails, End
  <2> QED
    BY <2>1 DEF Ends
<1>4. CASE CleanUp(r)
  BY <1>4 DEF CleanUp
<1>5. CASE Look(r)
  <2>1. PICK s \in todo[r] : UNCHANGED sess \/ sess' = [sess EXCEPT ![s] = [time |-> now, user |-> FALSE]]
    BY <1>5 DEF Look
  <2>2. ASSUME sess' = [sess EXCEPT ![s] = [time |-> now, user |-> FALSE]]
        PROVE  sess' \in [Sids -> Entries] /\ \A q \in Sids : sess'[q].time <= now
    <3> DEFINE e == [time |-> now, user |-> FALSE]
    <3>1. e \in Entries /\ e.time = now
      BY DEF Entries
    <3> HIDE DEF e
    <3>2. sess' = [q \in Sids |-> sess'[q]] /\ \A q \in Sids : sess'[q] = sess[q] \/ sess'[q] = e
      BY <2>2 DEF e
    <3> QED
      BY <3>1, <3>2, Written
  <2> QED
    BY <1>5, <2>1, <2>2 DEF Look
<1>6. CASE Destroy(r)
  BY <1>6 DEF Destroy
<1>7. CASE Stamp(r)
  BY <1>7 DEF Stamp
<1>8. CASE Identify(r)
  <2>1. CASE Update(r) /\ user[r]
    BY <1>8, <2>1, UpdateTypes DEF Identify
  <2>2. CASE UNCHANGED <<sess, deleted, unsaved, lastUsed, backdated>>
    BY <1>8, <2>2 DEF Identify
  <2> QED
    BY <1>8, <2>1, <2>2 DEF Identify
<1>9. CASE Reopen(r)
  BY <1>9 DEF Reopen
<1>10. CASE LogInAnew(r)
  <2> DEFINE e == [time |-> now, user |-> TRUE]
  <2>1. e \in Entries /\ e.time = now
    BY DEF Entries
  <2>2. PICK s \in Sids \ issued : /\ Saves(r, [sess EXCEPT ![s] = e]) /\ issued' = issued \cup {s}
                                   /\ lastUsed' = [lastUsed EXCEPT ![s] = now]
    BY <1>10 DEF LogInAnew
  <2> HIDE DEF e
  <2>3. sess' \in [Sids -> Entries] /\ \A q \in Sids : sess'[q].time <= now
    BY <2>1, <2>2, Written
  <2>4. UNCHANGED <<store, now, lastClean, loggedOut, backdated, snatched, unsaved>>
    BY <1>10 DEF LogInAnew
  <2>5. issued' \subseteq Sids /\ lastUsed' \in [Sids -> 0..now]
    BY <2>2
  <2>6. loggedOut' \subseteq issued' /\ unsaved' \subseteq issued' /\ snatched' \subseteq issued'
        /\ backdated' \subseteq issued'
    BY <2>2, <2>4
  <2> QED
    BY <2>3, <2>4, <2>5, <2>6
<1>11. CASE LogIn(r)
  BY <1>11 DEF LogIn
<1>12. CASE SetUser(r)
  <2> DEFINE entry == IF IF store = "dbm" THEN sess[sid[r]] # Gone ELSE phase[r] = "updating"
                      THEN Kept(sid[r]) ELSE [time |-> now, user |-> TRUE]
  <2>1. entry \in Entries /\ entry.time <= now
    <3>1. sid[r] \in Sids
      BY <1>12 DEF SetUser
    <3>2. Kept(sid[r]) \in Entries /\ Kept(sid[r]).time <= now
      BY <3>1 DEF Kept, Entries, Gone
    <3> QED
      BY <3>2 DEF Entries
  <2>2. /\ sess' = [q \in Sids |-> IF q = sid[r] THEN entry
                                   ELSE IF q \in deleted[r] THEN Gone ELSE sess[q]]
        /\ \/ UNCHANGED <<lastUsed, loggedOut, snatched, backdated>>
           \/ /\ lastUsed' = [lastUsed EXCEPT ![sid[r]] = now]
              /\ loggedOut' = loggedOut \ {sid[r]} /\ snatched' = snatched \ {sid[r]}
              /\ backdated' \in {backdated \cup {sid[r]}, backdated \ {sid[r]}}
    BY <1>12 DEF SetUser
  <2> HIDE DEF entry
  <2>3. sess' \in [Sids -> Entries] /\ \A q \in Sids : sess'[q].time <= now
    BY <2>1, <2>2
  <2>4. /\ lastUsed' \in [Sids -> 0..now] /\ loggedOut' \subseteq issued
        /\ snatched' \subseteq issued /\ backdated' \subseteq issued
    BY <1>12, <2>2 DEF SetUser
  <2> QED
    BY <1>12, <2>3, <2>4 DEF SetUser
<1>13. CASE LogOut(r)
  BY <1>13 DEF LogOut
<1>14. CASE Edit(r)
  BY <1>14 DEF Edit
<1>15. CASE Remember(r)
  BY <1>15, UpdateTypes DEF Remember
<1> QED
  BY <1>1, <1>2, <1>3, <1>4, <1>5, <1>6, <1>7, <1>8, <1>9, <1>10, <1>11, <1>12, <1>13, <1>14, <1>15
  DEF Step

LEMMA RelationsStep ==
  ASSUME StoreTypes, RequestTypes, Relations, RequestInv, NEW r \in Requests, Step(r)
  PROVE  Relations' /\ RequestInv'
<1> USE DEF StoreTypes, RequestTypes, RequestInv, Relations, Becomes, Over, Saves, RollsBack, Update, Remembers
<1>1. CASE Begin(r)
  BY <1>1 DEF Begin
<1>2. CASE Load(r)
  BY <1>2 DEF Load
<1>3. CASE LoadFails(r) \/ End(r)
  <2>1. Ends(r)
    BY <1>3 DEF LoadFails, End
  <2> QED
    BY <2>1 DEF Ends
<1>4. CASE CleanUp(r)
  BY <1>4 DEF CleanUp, Unlocked, Stores
<1>5. CASE Look(r)
  BY <1>5, EntryFacts DEF Look, Stale
<1>6. CASE Destroy(r)
  BY <1>6 DEF Destroy
<1>7. CASE Stamp(r)
  BY <1>7 DEF Stamp
<1>8. CASE Identify(r)
  BY <1>8 DEF Identify
<1>9. CASE Reopen(r)
  BY <1>9 DEF Reopen
<1>10. CASE LogInAnew(r)
  BY <1>10 DEF LogInAnew
<1>11. CASE LogIn(r)
  BY <1>11 DEF LogIn, There
<1>12. CASE SetUser(r)
  BY <1>12 DEF SetUser
<1>13. CASE LogOut(r)
  BY <1>13 DEF LogOut
<1>14. CASE Edit(r)
  BY <1>14 DEF Edit
<1>15. CASE Remember(r)
  BY <1>15 DEF Remember
<1> QED
  BY <1>1, <1>2, <1>3, <1>4, <1>5, <1>6, <1>7, <1>8, <1>9, <1>10, <1>11, <1>12, <1>13, <1>14, <1>15
  DEF Step

-----------------------------------------------------------------------------
(* A logout is final. *)

LEMMA LogoutStep ==
  ASSUME StoreTypes, RequestTypes, RequestInv, PastInv, LogoutIsFinal, NEW r \in Requests, Step(r)
  PROVE  LogoutIsFinal'
<1> USE EntryFacts DEF LogoutIsFinal, StoreTypes, RequestTypes, RequestInv, Saves
<1>1. CASE UNCHANGED <<sess, loggedOut>>
  BY <1>1
<1>2. CASE Look(r)
  BY <1>2 DEF Look
<1>3. CASE Destroy(r)
  BY <1>3 DEF Destroy
<1>4. CASE sid[r] # None /\ Update(r) /\ UNCHANGED loggedOut
  <2>1. sid[r] \in Sids
    BY <1>4
  <2>2. ~sess[sid[r]].user => ~Renewed(r, sid[r]).user
    BY <2>1, RenewedFacts
  <2> QED
    BY <1>4, <2>2 DEF Update
<1>5. CASE LogInAnew(r)
  BY <1>5 DEF LogInAnew
<1>6. CASE SetUser(r)
  BY <1>6 DEF SetUser
<1>7. CASE LogOut(r)
  BY <1>7 DEF LogOut
<1>8. CASE Edit(r)
  BY <1>8 DEF Edit
<1> QED
  BY <1>1, <1>2, <1>3, <1>4, <1>5, <1>6, <1>7, <1>8
  DEF Step, Begin, Load, LoadFails, CleanUp, Stamp, Identify, Reopen, LogIn, Remember, End, Ends

-----------------------------------------------------------------------------
(* A session in use is kept. *)

\* A cleaning that starts at or before now takes no session that was used within the week.
LEMMA OldIsExpired ==
  ASSUME StoreTypes, NEW s \in Sids, NEW t \in 0..now, Stale(t, s), Alive(s)
  PROVE  Expired(s)
  BY EntryFacts DEF StoreTypes, Stale, Alive, Expired

LEMMA KeptStep ==
  ASSUME StoreTypes, RequestTypes, Relations, RequestInv, PastInv, KeptInv,
         NEW r \in Requests, Step(r)
  PROVE  KeptInv'
<1> USE EntryFacts DEF KeptInv, StoreTypes, RequestTypes, RequestInv, Saves, RollsBack
<1>1. CASE UNCHANGED <<now, issued, sess, lastUsed, loggedOut, backdated, snatched>>
           /\ \A q \in Requests : deleted'[q] \subseteq deleted[q]
  BY <1>1 DEF Alive, Expired
<1>2. CASE CleanUp(r)
  BY <1>2, OldIsExpired DEF CleanUp, Alive, Expired
<1>3. CASE Look(r)
  BY <1>3 DEF Look, Alive, Expired
<1>4. CASE Destroy(r)
  BY <1>4, OldIsExpired DEF Destroy, Alive, Expired
<1>5. CASE sid[r] # None /\ Update(r) /\ UNCHANGED <<now, issued, loggedOut, snatched>>
  <2>1. sid[r] \in Sids
    BY <1>5
  <2>2. /\ \A s \in Sids : s # sid[r] => sess'[s] = IF s \in deleted[r] THEN Gone ELSE sess[s]
        /\ sess'[sid[r]] = IF sid[r] \in deleted[r] THEN Gone ELSE Renewed(r, sid[r])
        /\ deleted' = [deleted EXCEPT ![r] = {}]
        /\ Unlocked(r, sid[r])
        /\ \/ /\ There(r, sid[r]) /\ sess[sid[r]].user
              /\ lastUsed' = [lastUsed EXCEPT ![sid[r]] = now] /\ backdated' = backdated \ {sid[r]}
           \/ /\ ~(There(r, sid[r]) /\ sess[sid[r]].user)
              /\ UNCHANGED <<lastUsed, backdated>>
    BY <1>5, <2>1 DEF Update
  <2>3. \A s \in Sids : s # sid[r] => /\ lastUsed'[s] = lastUsed[s]
                                       /\ s \in backdated' <=> s \in backdated
    BY <2>1, <2>2
  <2>4. ASSUME NEW s \in issued \ (loggedOut \cup snatched \cup backdated), s # sid[r]
        PROVE  (Alive(s) \/ Expired(s))' /\ \A q \in Requests : s \in deleted'[q] => Expired(s)'
    BY <1>5, <2>2, <2>3, <2>4 DEF Alive, Expired
  <2>5. ASSUME NEW s \in issued' \ (loggedOut' \cup snatched' \cup backdated'), s = sid[r]
        PROVE  (Alive(s) \/ Expired(s))' /\ \A q \in Requests : s \notin deleted'[q]
    <3>1. \A q \in Requests : s \notin deleted'[q]
      BY <2>2, <2>5 DEF Unlocked
    <3>2. CASE There(r, s) /\ sess[s].user
      <4>1. /\ sess'[s] # Gone /\ sess'[s].user
            /\ sess'[s].time \in Int /\ sess'[s].time >= now - Minute
        BY <2>1, <2>2, <2>5, <3>2, RenewedFacts DEF There
      <4>2. lastUsed'[s] = now
        BY <2>1, <2>2, <2>5, <3>2
      <4> QED
        BY <1>5, <3>1, <4>1, <4>2 DEF Alive
    <3>3. CASE ~(There(r, s) /\ sess[s].user)
      <4>1. UNCHANGED <<now, lastUsed, backdated>>
        BY <1>5, <2>2, <2>5, <3>3
      <4>2. Expired(s)
        BY <1>5, <2>5, <3>3, <4>1 DEF Alive, There
      <4> QED
        BY <1>5, <3>1, <4>1, <4>2 DEF Expired
    <3> QED
      BY <1>5, <3>1, <3>2, <3>3
  <2>6. ASSUME NEW s \in issued' \ (loggedOut' \cup snatched' \cup backdated')
        PROVE  (Alive(s) \/ Expired(s))' /\ \A q \in Requests : s \in deleted'[q] => Expired(s)'
    BY <1>5, <2>3, <2>4, <2>5, <2>6
  <2> QED
    BY <2>6
<1>6. CASE LogInAnew(r)
  BY <1>6 DEF LogInAnew, Alive, Expired
<1>7. CASE SetUser(r)
  BY <1>7 DEF SetUser, Kept, Alive, Expired, Unlocked
<1>8. CASE LogOut(r)
  BY <1>8 DEF LogOut, Alive, Expired
<1>9. CASE Edit(r)
  BY <1>9 DEF Edit, Alive, Expired
<1> QED
  BY <1>1, <1>2, <1>3, <1>4, <1>5, <1>6, <1>7, <1>8, <1>9
  DEF Step, Begin, Load, LoadFails, Stamp, Identify, Reopen, LogIn, Remember, End, Ends

-----------------------------------------------------------------------------
(* A recorded cleaning has left nothing old. *)

\* A step by which an entry only stays, keeps its time, goes or is stamped with the clock, and
\* no request begins to clean, keeps what the cleanings have done.
LEMMA CleanKept ==
  ASSUME StoreTypes, RequestTypes, CleanInv, NEW r \in Requests,
         UNCHANGED lastClean, phase'[r] \notin {"listing", "destroying", "cleaned"},
         \A q \in Requests \ {r} : /\ phase'[q] = phase[q] /\ clock'[q] = clock[q]
                                   /\ todo'[q] = todo[q] /\ old'[q] = old[q],
         \A s \in Sids : \/ sess[s] # Gone /\ sess'[s].time = sess[s].time
                         \/ sess'[s] = Gone \/ sess'[s].time = now,
         \A s \in Sids : Dealt(s) => Dealt(s)' \/ sess'[s] = Gone \/ sess'[s].time = now
  PROVE  CleanInv'
<1>1. ASSUME NEW s \in Sids, NEW t \in 0..now, sess'[s] # Gone, sess'[s].time < t - Week
      PROVE  Left(t, s) /\ (Dealt(s) => Dealt(s)')
  BY <1>1, TimeAssumption DEF StoreTypes, Left
<1>2. ASSUME NEW s \in Sids
      PROVE  Left(lastClean, s)' => Dealt(s)'
  BY <1>1 DEF CleanInv, Left, StoreTypes
<1>3. ASSUME NEW s \in Sids, NEW q \in Requests
      PROVE  /\ phase'[q] = "cleaned" /\ Left(clock[q], s)' => Dealt(s)'
             /\ phase'[q] \in {"listing", "destroying"} /\ Left(clock[q], s)' =>
                  s \in todo'[q] \/ s = old'[q]
  BY <1>1 DEF CleanInv, Left, RequestTypes
<1> QED
  BY <1>2, <1>3 DEF CleanInv

LEMMA CleanUpdate ==
  ASSUME StoreTypes, RequestTypes, PastInv, CleanInv, NEW r \in Requests, sid[r] # None, Update(r),
         UNCHANGED lastClean, phase'[r] \notin {"listing", "destroying", "cleaned"},
         \A q \in Requests \ {r} : /\ phase'[q] = phase[q] /\ clock'[q] = clock[q]
                                   /\ todo'[q] = todo[q] /\ old'[q] = old[q]
  PROVE  CleanInv'
<1> USE EntryFacts DEF StoreTypes, RequestTypes, Update, Saves
<1>1. sid[r] \in Sids
  OBVIOUS
<1>2. /\ \A s \in Sids : s # sid[r] => sess'[s] = IF s \in deleted[r] THEN Gone ELSE sess[s]
      /\ sess'[sid[r]] = IF sid[r] \in deleted[r] THEN Gone ELSE Renewed(r, sid[r])
  BY <1>1
<1>3. LET e == Renewed(r, sid[r]) IN
      \/ sess[sid[r]] # Gone /\ e.time = sess[sid[r]].time
      \/ e = Gone \/ e.time = now
  BY <1>1, NewEntry DEF Renewed, There
<1>4. \A s \in Sids : \/ sess[s] # Gone /\ sess'[s].time = sess[s].time
                      \/ sess'[s] = Gone \/ sess'[s].time = now
  BY <1>2, <1>3
<1>5. \A s \in Sids : Dealt(s) => Dealt(s)' \/ sess'[s] = Gone
  BY <1>2 DEF Dealt
<1> QED
  BY <1>4, <1>5, CleanKept

LEMMA CleanStep ==
  ASSUME StoreTypes, RequestTypes, Relations, RequestInv, PastInv, CleanInv,
         NEW r \in Requests, Step(r)
  PROVE  CleanInv'
<1> USE EntryFacts DEF StoreTypes, RequestTypes, RequestInv, Saves, RollsBack, Over, Remembers, Becomes
<1>1. CASE Begin(r) \/ Load(r) \/ LogIn(r)
  BY <1>1, CleanKept DEF Begin, Load, LogIn, Dealt
<1>2. CASE LoadFails(r) \/ End(r)
  <2>1. Ends(r)
    BY <1>2 DEF LoadFails, End
  <2> QED
    BY <2>1, CleanKept DEF Ends, Dealt
<1>3. CASE CleanUp(r)
  BY <1>3 DEF CleanUp, CleanInv, Dealt, Left, Stale, There, Relations
<1>4. CASE Look(r)
  <2>1. PICK s \in todo[r] :
          /\ todo' = [todo EXCEPT ![r] = @ \ {s}]
          /\ \/ /\ sess[s] = Gone
                /\ sess' = [sess EXCEPT ![s] = [time |-> now, user |-> FALSE]]
                /\ UNCHANGED <<old, phase>>
             \/ /\ sess[s] # Gone /\ Stale(clock[r], s)
                /\ old' = [old EXCEPT ![r] = s] /\ Becomes(r, "destroying")
                /\ UNCHANGED sess
             \/ /\ sess[s] # Gone /\ ~Stale(clock[r], s)
                /\ UNCHANGED <<old, phase, sess>>
    BY <1>4 DEF Look
  <2>2. UNCHANGED <<now, lastClean, clock, deleted, unsaved>> /\ phase[r] = "listing"
    BY <1>4 DEF Look
  <2>3. CASE UNCHANGED sess
    <3>1. \A q \in Sids : Dealt(q) => Dealt(q)'
      BY <2>2 DEF Dealt
    <3>2. old[r] = None /\ old'[r] \in {None, s} /\ todo'[r] = todo[r] \ {s}
      BY <2>1, <2>2 DEF Relations
    <3>3. s = old'[r] \/ ~Left(clock[r], s)
      BY <2>1, <2>3 DEF Left, Stale
    <3>4. phase'[r] \in {"listing", "destroying"}
          /\ \A q \in Requests \ {r} : phase'[q] = phase[q] /\ todo'[q] = todo[q] /\ old'[q] = old[q]
      BY <2>1, <2>2
    <3> QED
      BY <2>2, <2>3, <3>1, <3>2, <3>3, <3>4 DEF CleanInv, Left
  <2>4. CASE sess' = [sess EXCEPT ![s] = [time |-> now, user |-> FALSE]] /\ UNCHANGED <<old, phase>>
    <3>1. s \in Sids /\ sess'[s].time = now /\ \A q \in Sids \ {s} : sess'[q] = sess[q]
      BY <2>4
    <3>2. \A t \in 0..now : ~(sess'[s].time < t - Week)
      BY <3>1
    <3> QED
      BY <2>1, <2>2, <2>4, <3>1, <3>2 DEF CleanInv, Dealt, Left
  <2> QED
    BY <2>1, <2>3, <2>4
<1>5. CASE Destroy(r)
  BY <1>5 DEF Destroy, CleanInv, Dealt, Left
<1>6. CASE Stamp(r)
  BY <1>6 DEF Stamp, CleanInv, Dealt, Left, Relations
<1>7. CASE Identify(r)
  <2>1. CASE user[r] /\ Update(r)
    BY <1>7, <2>1, CleanUpdate DEF Identify
  <2>2. CASE UNCHANGED <<sess, deleted, unsaved, lastUsed, backdated>>
    BY <1>7, <2>2, CleanKept DEF Identify, Dealt
  <2> QED
    BY <1>7, <2>1, <2>2 DEF Identify
<1>8. CASE Reopen(r)
  BY <1>8, CleanKept DEF Reopen, Dealt
<1>9. CASE LogInAnew(r)
  BY <1>9, CleanKept DEF LogInAnew, Dealt
<1>10. CASE SetUser(r)
  <2>1. sid[r] \in Sids
    BY <1>10 DEF SetUser
  <2>2. \/ sess'[sid[r]] = Gone \/ sess'[sid[r]].time = now
        \/ /\ sess[sid[r]] # Gone /\ sess'[sid[r]].time = sess[sid[r]].time
           /\ sid[r] \notin deleted[r]
    BY <1>10, <2>1 DEF SetUser, Kept, Relations
  <2>3. \A s \in Sids : s # sid[r] => sess'[s] = IF s \in deleted[r] THEN Gone ELSE sess[s]
    BY <1>10 DEF SetUser
  <2>4. \A s \in Sids : \/ sess[s] # Gone /\ sess'[s].time = sess[s].time
                        \/ sess'[s] = Gone \/ sess'[s].time = now
    BY <2>2, <2>3
  <2>5. \A s \in Sids : Dealt(s) => Dealt(s)' \/ sess'[s] = Gone \/ sess'[s].time = now
    BY <1>10, <2>2, <2>3 DEF SetUser, Dealt
  <2> QED
    BY <1>10, <2>4, <2>5, CleanKept DEF SetUser
<1>11. CASE LogOut(r)
  BY <1>11, CleanKept DEF LogOut, Dealt
<1>12. CASE Edit(r)
  BY <1>12, CleanKept DEF Edit, Dealt
<1>13. CASE Remember(r)
  BY <1>13, CleanUpdate DEF Remember
<1> QED
  BY <1>1, <1>2, <1>3, <1>4, <1>5, <1>6, <1>7, <1>8, <1>9, <1>10, <1>11, <1>12, <1>13 DEF Step

-----------------------------------------------------------------------------
(* The theorems. *)

LEMMA TickStep ==
  ASSUME IInv, Tick
  PROVE  IInv'
<1> USE EntryFacts DEF IInv, StoreTypes, RequestTypes, Relations
<1>1. /\ now \in Nat /\ now' = now + 1 /\ now < MaxTime
      /\ UNCHANGED <<store, issued, sess, lastClean, phase, clock, cookie, sid, user, todo,
                     old, deleted, lastUsed, loggedOut, backdated, unsaved, snatched>>
  BY TypeParts DEF Tick
<1>2. StoreTypes'
  BY <1>1, TypeParts
<1>3. RequestTypes' /\ Relations'
  BY <1>1, TypeParts
<1>4. RequestInv' /\ CleanInv'
  BY <1>1 DEF RequestInv, CleanInv, Left, Dealt
<1>5. PastInv'
  BY <1>1, TypeParts DEF PastInv
<1>6. KeptInv'
  BY <1>1, TypeParts DEF KeptInv, Alive, Expired
<1>7. TypeOK'
  BY <1>2, <1>3 DEF TypeOK
<1> QED
  BY <1>4, <1>5, <1>6, <1>7

LEMMA InitInv == Init => IInv /\ LogoutIsFinal
<1> SUFFICES ASSUME Init PROVE IInv /\ LogoutIsFinal
  OBVIOUS
<1>1. TypeOK
  BY TypeInit
<1>2. RequestInv /\ PastInv /\ KeptInv /\ LogoutIsFinal
  BY EntryFacts DEF Init, RequestInv, PastInv, KeptInv, LogoutIsFinal
<1>3. CleanInv
  BY EntryFacts DEF Init, CleanInv, Left
<1> QED
  BY <1>1, <1>2, <1>3 DEF IInv

LEMMA NextInv == IInv /\ LogoutIsFinal /\ [Next]_vars => (IInv /\ LogoutIsFinal)'
<1> SUFFICES ASSUME IInv, LogoutIsFinal, [Next]_vars PROVE (IInv /\ LogoutIsFinal)'
  OBVIOUS
<1>1. CASE Tick
  BY <1>1, TickStep DEF Tick, LogoutIsFinal
<1>2. ASSUME NEW r \in Requests, Step(r)
      PROVE  (IInv /\ LogoutIsFinal)'
  <2>1. StoreTypes /\ RequestTypes /\ Relations /\ RequestInv /\ PastInv /\ KeptInv /\ CleanInv
    BY TypeParts DEF IInv
  <2>2. StoreTypes' /\ RequestTypes' /\ Relations' /\ RequestInv' /\ PastInv'
    BY <1>2, <2>1, StoreTypesStep, RequestTypesStep, RelationsStep
  <2>3. KeptInv' /\ CleanInv' /\ LogoutIsFinal'
    BY <1>2, <2>1, KeptStep, CleanStep, LogoutStep
  <2>4. TypeOK'
    BY <2>2 DEF TypeOK, StoreTypes, RequestTypes, Relations
  <2> QED
    BY <2>2, <2>3, <2>4 DEF IInv
<1>3. CASE UNCHANGED vars
  BY <1>3 DEF vars, IInv, LogoutIsFinal, TypeOK, RequestInv, PastInv, KeptInv, Alive, Expired,
              CleanInv, Left, Dealt
<1> QED
  BY <1>1, <1>2, <1>3 DEF Next

\* Every reachable state of the sessions has IInv, and no session that has been logged out of
\* names a user.
THEOREM Invariance == Spec => [](IInv /\ LogoutIsFinal)
<1>1. Init => IInv /\ LogoutIsFinal
  BY InitInv
<1>2. IInv /\ LogoutIsFinal /\ [Next]_vars => (IInv /\ LogoutIsFinal)'
  BY NextInv
<1> QED
  BY <1>1, <1>2, PTL DEF Spec

\* The types of WebSessions, and that only an open connection has deletions that are not
\* committed, of rows nobody else has deleted.
THEOREM TypeCorrect == Spec => []TypeOK
<1>1. IInv => TypeOK
  BY DEF IInv
<1> QED
  BY <1>1, Invariance, PTL

\* A logout, LogoutAction.handle, stands until the next login: no updateTimestamp of a request
\* that was under way, and no cleaning, gives the session its user back.
THEOREM LogoutStands == Spec => []LogoutIsFinal
  BY Invariance, PTL

\* The cleaning of sessions a week old takes none that was used within a week less a minute, a
\* login counting as a use, but for two windows: in the dbm file between the look at a session
\* and its removal, and after a login that left an entry its old time, until the next use.
THEOREM InUseIsKept == Spec => []KeptWhileUsed
<1>1. IInv => KeptWhileUsed
  BY TypeParts DEF IInv, KeptInv, Alive, Expired, KeptWhileUsed, StoreTypes
<1> QED
  BY <1>1, Invariance, PTL

\* Once clean_up has recorded last_clean, every session older than a week at that time has been
\* deleted, is deleted in a connection still to be committed, or was brought back by a rollback.
THEOREM CleaningIsThorough == Spec => []CleanerLeavesNothingOld
<1>1. IInv => CleanerLeavesNothingOld
  BY DEF IInv, CleanInv, Left, Dealt, CleanerLeavesNothingOld
<1> QED
  BY <1>1, Invariance, PTL
=============================================================================
