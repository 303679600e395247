----------------------------- MODULE WebSessions -----------------------------
(***************************************************************************)
(* The sessions of roundup's web interface: each request finds the user of *)
(* its cookie, and one request an hour removes the sessions that have not  *)
(* been used for a week (src/bpo-roundup/roundup/cgi/client.py).  The      *)
(* store is a dbm file beside an sqlite or dbm database, where each call   *)
(* takes effect at once, or a table reached over a connection of its own,  *)
(* whose deletions last when that connection is committed                  *)
(* (backends/sessions_dbm.py, sessions_rdbms.py).                          *)
(***************************************************************************)
EXTENDS Integers, FiniteSets

CONSTANTS Sids, Requests, None,
          Minute, Hour, Week,
          MaxTime  \* bound on the clock

ASSUME TimeAssumption ==
  /\ {Minute, Hour, Week, MaxTime} \subseteq Nat
  /\ 0 < Minute /\ Minute < Hour /\ Hour < Week /\ Hour <= MaxTime
ASSUME NoneAssumption == None \notin Sids

Stores == {"dbm", "sql"}
\* An entry is somebody's session, or holds a time and no user.
Entries == [time : 0..MaxTime, user : BOOLEAN]
Gone == [time |-> 0, user |-> FALSE]

VARIABLES
  store,
  now,
  issued, sess,    \* the keys given out, and the committed store
  lastClean,       \* 'last_clean' of the one-time keys
  phase, clock,    \* of each request: its step, and the last time it looked at the clock
  cookie,          \* the key the browser presented
  sid, user,       \* Session's _sid, and, until that is known, whether _data names a user
  todo, old,       \* dbm: the keys still to be looked at, and the one that was found old
  deleted,         \* sql: deleted and not committed
  \* history
  lastUsed, loggedOut,
  backdated,       \* sessions whose last login kept a time more than a minute old
  unsaved,         \* sessions whose deletion was rolled back
  snatched         \* sessions deleted after having been used since they were found old

data == <<issued, sess, lastClean>>
history == <<lastUsed, loggedOut, backdated, unsaved, snatched>>
vars == <<store, now, data, phase, clock, cookie, sid, user, todo, old, deleted, history>>

Phases == {"idle", "known", "opened", "listing", "destroying", "cleaned", "dated",
           "reopening", "known_again", "acting", "updating", "inserting", "remembering"}

TypeOK ==
  /\ store \in Stores /\ now \in 0..MaxTime
  /\ issued \subseteq Sids
  /\ sess \in [Sids -> Entries] /\ \A s \in Sids \ issued : sess[s] = Gone
  /\ lastClean \in 0..now
  /\ phase \in [Requests -> Phases]
  /\ clock \in [Requests -> 0..now]
  /\ cookie \in [Requests -> issued \cup {None}]
  /\ sid \in [Requests -> issued \cup {None}] /\ user \in [Requests -> BOOLEAN]
  /\ todo \in [Requests -> SUBSET issued] /\ old \in [Requests -> issued \cup {None}]
  /\ deleted \in [Requests -> SUBSET issued]
  /\ \A r \in Requests :
       /\ todo[r] # {} => store = "dbm" /\ phase[r] \in {"listing", "destroying"}
       /\ old[r] # None <=> phase[r] = "destroying"
       /\ deleted[r] # {} => store = "sql" /\ phase[r] # "idle"
       /\ \A q \in Requests \ {r} : deleted[r] \cap deleted[q] = {}
  /\ lastUsed \in [Sids -> 0..now]
  /\ {loggedOut, backdated, unsaved, snatched} \subseteq SUBSET issued

\* No time of the clock is 0, which is that of a session that is not there.
Init ==
  /\ store \in Stores
  /\ now = Hour /\ issued = {} /\ sess = [s \in Sids |-> Gone] /\ lastClean = 0
  /\ phase = [r \in Requests |-> "idle"] /\ clock = [r \in Requests |-> 0]
  /\ cookie = [r \in Requests |-> None] /\ sid = [r \in Requests |-> None]
  /\ user = [r \in Requests |-> FALSE]
  /\ todo = [r \in Requests |-> {}] /\ old = [r \in Requests |-> None]
  /\ deleted = [r \in Requests |-> {}]
  /\ lastUsed = [s \in Sids |-> 0]
  /\ loggedOut = {} /\ backdated = {} /\ unsaved = {} /\ snatched = {}

\* A request is over within a minute or two.
Tick ==
  /\ now < MaxTime /\ now' = now + 1
  /\ \A r \in Requests : phase[r] # "idle" => clock[r] = now
  /\ UNCHANGED <<store, data, phase, clock, cookie, sid, user, todo, old, deleted, history>>

Becomes(r, step) == phase' = [phase EXCEPT ![r] = step]

\* What a request sees; only its own deletions are not committed yet.
There(r, s) == sess[s] # Gone /\ s \notin deleted[r]
\* A row somebody else has deleted is locked until that is committed or rolled back.
Unlocked(r, s) == \A q \in Requests \ {r} : s \notin deleted[q]

\* The connection is committed, with S as the store, or closed, which rolls it back.
Saves(r, S) ==
  /\ sess' = [s \in Sids |-> IF s \in deleted[r] THEN Gone ELSE S[s]]
  /\ deleted' = [deleted EXCEPT ![r] = {}]
  /\ UNCHANGED unsaved
RollsBack(r) ==
  /\ unsaved' = unsaved \cup deleted[r]
  /\ deleted' = [deleted EXCEPT ![r] = {}]

-----------------------------------------------------------------------------
(* Session.__init__. *)

\* A browser presents a cookie, or none: exists.
Begin(r) ==
  /\ phase[r] = "idle"
  /\ clock' = [clock EXCEPT ![r] = now]
  /\ \E c \in issued \cup {None} :
       /\ cookie' = [cookie EXCEPT ![r] = c]
       /\ IF c # None /\ sess[c] # Gone
          THEN sid' = [sid EXCEPT ![r] = c] /\ Becomes(r, "known")
          ELSE UNCHANGED sid /\ Becomes(r, "opened")
  /\ UNCHANGED <<store, now, data, user, todo, old, deleted, history>>

\* getall.
Load(r) ==
  /\ phase[r] \in {"known", "known_again"} /\ sess[sid[r]] # Gone
  /\ IF phase[r] = "known"
     THEN user' = [user EXCEPT ![r] = sess[sid[r]].user] /\ Becomes(r, "opened")
     ELSE UNCHANGED user /\ Becomes(r, "acting")
  /\ UNCHANGED <<store, now, data, clock, cookie, sid, todo, old, deleted, history>>

\* (mutant) the loop over the dbm file is not abandoned
OverListing(r) ==
  /\ Becomes(r, "idle") /\ clock' = [clock EXCEPT ![r] = 0]
  /\ cookie' = [cookie EXCEPT ![r] = None]
  /\ sid' = [sid EXCEPT ![r] = None] /\ user' = [user EXCEPT ![r] = FALSE]
  /\ UNCHANGED todo /\ old' = [old EXCEPT ![r] = None]

Over(r) ==
  /\ Becomes(r, "idle") /\ clock' = [clock EXCEPT ![r] = 0]
  /\ cookie' = [cookie EXCEPT ![r] = None]
  /\ sid' = [sid EXCEPT ![r] = None] /\ user' = [user EXCEPT ![r] = FALSE]
  /\ todo' = [todo EXCEPT ![r] = {}] /\ old' = [old EXCEPT ![r] = None]

\* The request ends, and its connection is closed: main's finally.
Ends(r) ==
  /\ Over(r) /\ RollsBack(r)
  /\ UNCHANGED <<store, now, data, lastUsed, loggedOut, backdated, snatched>>

\* The session was removed between exists and getall, which raises a KeyError.
LoadFails(r) ==
  /\ phase[r] \in {"known", "known_again"} /\ sess[sid[r]] = Gone
  /\ Ends(r)

-----------------------------------------------------------------------------
(* Client.clean_up and the clean of the stores. *)

Stale(t, s) == sess[s].time < t - Week

\* (mutant) last_clean is set first
CleanUpStampsFirst(r) ==
  /\ phase[r] = "opened"
  /\ clock' = [clock EXCEPT ![r] = now]
  /\ IF now - lastClean < Hour
     THEN Becomes(r, "dated") /\ UNCHANGED <<todo, lastClean>>
     ELSE /\ Becomes(r, "listing") /\ store = "dbm"
          /\ todo' = [todo EXCEPT ![r] = {s \in issued : There(r, s)}]
          /\ lastClean' = now
  /\ UNCHANGED <<store, now, issued, sess, cookie, sid, user, old, deleted, history>>

\* Once an hour; a table is cleaned by one delete, which waits for locked rows.
CleanUp(r) ==
  /\ phase[r] = "opened"
  /\ clock' = [clock EXCEPT ![r] = now]
  /\ IF now - lastClean < Hour
     THEN Becomes(r, "dated") /\ UNCHANGED <<todo, deleted>>
     ELSE LET there == {s \in issued : There(r, s)}
              stale == {s \in there : Stale(now, s)}
          IN  IF store = "dbm"
              THEN /\ Becomes(r, "listing")
                   /\ todo' = [todo EXCEPT ![r] = there] /\ UNCHANGED deleted
              ELSE /\ \A s \in stale : Unlocked(r, s)
                   /\ Becomes(r, "cleaned")
                   /\ deleted' = [deleted EXCEPT ![r] = stale] /\ UNCHANGED todo
  /\ UNCHANGED <<store, now, data, cookie, sid, user, old, history>>

\* dbm: one key after the other is looked at; one that is gone by now comes back, with the
\* time of updateTimestamp and nothing else.
Look(r) ==
  /\ phase[r] = "listing"
  /\ \E s \in todo[r] :
       /\ todo' = [todo EXCEPT ![r] = @ \ {s}]
       /\ \/ /\ sess[s] = Gone
             /\ sess' = [sess EXCEPT ![s] = [time |-> now, user |-> FALSE]]
             /\ UNCHANGED <<old, phase>>
          \/ /\ sess[s] # Gone /\ Stale(clock[r], s)
             /\ old' = [old EXCEPT ![r] = s] /\ Becomes(r, "destroying")
             /\ UNCHANGED sess
          \/ /\ sess[s] # Gone /\ ~Stale(clock[r], s)
             /\ UNCHANGED <<old, phase, sess>>
  /\ UNCHANGED <<store, now, issued, lastClean, clock, cookie, sid, user, deleted, history>>

Destroy(r) ==
  /\ phase[r] = "destroying"
  /\ sess' = [sess EXCEPT ![old[r]] = Gone]
  /\ snatched' = IF sess[old[r]] # Gone /\ ~Stale(clock[r], old[r])
                 THEN snatched \cup {old[r]} ELSE snatched
  /\ lastUsed' = [lastUsed EXCEPT ![old[r]] = 0]
  /\ old' = [old EXCEPT ![r] = None] /\ Becomes(r, "listing")
  /\ UNCHANGED <<store, now, issued, lastClean, clock, cookie, sid, user, todo, deleted,
                 loggedOut, backdated, unsaved>>

\* last_clean is set and committed, over the connection of the one-time keys.
Stamp(r) ==
  /\ phase[r] = "cleaned" \/ (phase[r] = "listing" /\ todo[r] = {})
  /\ lastClean' = clock[r]
  /\ Becomes(r, "dated")
  /\ UNCHANGED <<store, now, issued, sess, clock, cookie, sid, user, todo, old, deleted, history>>

-----------------------------------------------------------------------------
(* determine_user, opendb and the actions that log in and out; after the action only the *)
(* page is rendered, and the connection closed. *)

\* (mutant) not on every hit of an hour
RenewedHourly(r, s) ==
  IF There(r, s)
  THEN IF sess[s].time < now - Hour THEN [time |-> now, user |-> sess[s].user] ELSE sess[s]
  ELSE IF store = "dbm" THEN [time |-> now, user |-> FALSE] ELSE Gone

\* (mutant) the request's own data are written with the time
RenewedWithData(r, s) ==
  IF There(r, s)
  THEN IF sess[s].time < now - Minute THEN [time |-> now, user |-> sess[s].user] ELSE sess[s]
  ELSE IF store = "dbm" THEN [time |-> now, user |-> user[r]] ELSE Gone

\* updateTimestamp: not on every hit.
Renewed(r, s) ==
  IF There(r, s)
  THEN IF sess[s].time < now - Minute THEN [time |-> now, user |-> sess[s].user] ELSE sess[s]
  ELSE IF store = "dbm" THEN [time |-> now, user |-> FALSE] ELSE Gone

\* Session.update: the session is renewed and committed, with what this request has cleaned.
Update(r) ==
  /\ Unlocked(r, sid[r])
  /\ Saves(r, [sess EXCEPT ![sid[r]] = Renewed(r, sid[r])])
  /\ IF There(r, sid[r]) /\ sess[sid[r]].user
     THEN lastUsed' = [lastUsed EXCEPT ![sid[r]] = now] /\ backdated' = backdated \ {sid[r]}
     ELSE UNCHANGED <<lastUsed, backdated>>

\* The user is that of the session, which is renewed; or that of an HTTP authorization, or
\* anonymous.  The database is not opened again for 'admin', nor with instance.optimize.
Identify(r) ==
  /\ phase[r] = "dated"
  /\ \/ user[r] /\ Update(r)
     \/ UNCHANGED <<sess, deleted, unsaved, lastUsed, backdated>>
  /\ Becomes(r, "acting") \/ Becomes(r, "reopening")
  /\ user' = [user EXCEPT ![r] = FALSE]
  /\ UNCHANGED <<store, now, issued, lastClean, clock, cookie, sid, todo, old, loggedOut, snatched>>

\* opendb closes the database, and makes a new Session of the same cookie; an action may
\* do it again for another user.
Reopen(r) ==
  /\ phase[r] \in {"reopening", "acting"}
  /\ RollsBack(r)
  /\ IF cookie[r] # None /\ sess[cookie[r]] # Gone
     THEN Becomes(r, "known_again") /\ sid' = [sid EXCEPT ![r] = cookie[r]]
     ELSE Becomes(r, "acting") /\ sid' = [sid EXCEPT ![r] = None]
  /\ UNCHANGED <<store, now, data, clock, cookie, user, todo, old, lastUsed, loggedOut, backdated,
                 snatched>>

\* 'remember' on the login form: another update follows.
Remembers(r, s) ==
  /\ Becomes(r, "remembering") /\ sid' = [sid EXCEPT ![r] = s]
  /\ UNCHANGED <<clock, cookie, user, todo, old>>

Remember(r) ==
  /\ phase[r] = "remembering" /\ Update(r) /\ Over(r)
  /\ UNCHANGED <<store, now, issued, lastClean, loggedOut, snatched>>

\* A login into a new session, with a key that was never used.  To remember it updates it again.
LogInAnew(r) ==
  /\ phase[r] = "acting" /\ sid[r] = None
  /\ \E s \in Sids \ issued :
       /\ issued' = issued \cup {s}
       /\ Saves(r, [sess EXCEPT ![s] = [time |-> now, user |-> TRUE]])
       /\ lastUsed' = [lastUsed EXCEPT ![s] = now]
       /\ Over(r) \/ Remembers(r, s)
  /\ UNCHANGED <<store, now, lastClean, loggedOut, backdated, snatched>>

\* A login into the session of the cookie: a select, and an update or an insert.
LogIn(r) ==
  /\ phase[r] = "acting" /\ sid[r] # None
  /\ Becomes(r, IF There(r, sid[r]) THEN "updating" ELSE "inserting")
  /\ UNCHANGED <<store, now, data, clock, cookie, sid, user, todo, old, deleted, history>>

Kept(s) == IF sess[s] # Gone THEN [time |-> sess[s].time, user |-> TRUE] ELSE Gone

\* An update finds nothing where a row was deleted in the meantime, and the login is lost;
\* the dbm file is read and written in one go.  An entry that is there keeps its time.
SetUser(r) ==
  /\ phase[r] \in {"updating", "inserting"} /\ Unlocked(r, sid[r])
  /\ LET s == sid[r]
         kept == IF store = "dbm" THEN sess[s] # Gone ELSE phase[r] = "updating"
         entry == IF kept THEN Kept(s) ELSE [time |-> now, user |-> TRUE]
     IN  /\ sess' = [q \in Sids |-> IF q = s THEN entry
                                    ELSE IF q \in deleted[r] THEN Gone ELSE sess[q]]
         /\ IF entry = Gone
            THEN UNCHANGED <<lastUsed, loggedOut, snatched, backdated>>
            ELSE /\ lastUsed' = [lastUsed EXCEPT ![s] = now]
                 /\ loggedOut' = loggedOut \ {s} /\ snatched' = snatched \ {s}
                 /\ backdated' = IF entry.time < now - Minute THEN backdated \cup {s}
                                 ELSE backdated \ {s}
         /\ Over(r) \/ Remembers(r, s)
  /\ deleted' = [deleted EXCEPT ![r] = {}]
  /\ UNCHANGED <<store, now, issued, lastClean, unsaved>>

LogOut(r) ==
  /\ phase[r] = "acting" /\ sid[r] # None /\ Unlocked(r, sid[r])
  /\ Saves(r, [sess EXCEPT ![sid[r]] = Gone])
  /\ loggedOut' = loggedOut \cup {sid[r]} /\ lastUsed' = [lastUsed EXCEPT ![sid[r]] = 0]
  /\ Over(r)
  /\ UNCHANGED <<store, now, issued, lastClean, backdated, snatched>>

\* Any other action that commits the database: the sessions are committed with it.
Edit(r) ==
  /\ phase[r] = "acting"
  /\ Saves(r, sess) /\ Over(r)
  /\ UNCHANGED <<store, now, issued, lastClean, lastUsed, loggedOut, backdated, snatched>>

\* No such action; or the request breaks off at any step.
End(r) == phase[r] # "idle" /\ Ends(r)

-----------------------------------------------------------------------------
Step(r) ==
  \/ Begin(r) \/ Load(r) \/ LoadFails(r) \/ CleanUp(r) \/ Look(r) \/ Destroy(r)
  \/ Stamp(r) \/ Identify(r) \/ Reopen(r) \/ LogInAnew(r) \/ LogIn(r) \/ SetUser(r)
  \/ Remember(r) \/ LogOut(r) \/ Edit(r) \/ End(r)

Next == Tick \/ \E r \in Requests : Step(r)

Spec == Init /\ [][Next]_vars

-----------------------------------------------------------------------------
(* Properties. *)

\* Who has logged in or come back within a week, less the minute in which a use is not recorded,
\* is still logged in, whichever requests cleaned in between.  The exceptions: a session of a dbm
\* file can be removed that was used after it was found old; and a login into a session that was
\* there leaves it its time, which may be nearly a week old, until it is used again.
KeptWhileUsed ==
  \A s \in issued \ (loggedOut \cup snatched \cup backdated) :
    now - lastUsed[s] <= Week - Minute => sess[s] # Gone /\ sess[s].user

\* Whoever has logged out stays so until the next login: no request that was under way, and
\* no cleaning, brings the user back.
LogoutIsFinal == \A s \in loggedOut : ~sess[s].user

\* What a recorded cleaning leaves is not old, unless the request that cleaned has not been
\* committed.
CleanerLeavesNothingOld ==
  \A s \in Sids :
    sess[s] # Gone /\ sess[s].time < lastClean - Week =>
      s \in unsaved \/ \E r \in Requests : s \in deleted[r]
=============================================================================
