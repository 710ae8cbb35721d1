------------------------------ MODULE Accounts ------------------------------
(***************************************************************************)
(* Accounts and sessions of the API (services/api/internal/auth).          *)
(*                                                                         *)
(* The users and sessions tables live in PostgreSQL.  A request handler is *)
(* a process that runs one SQL statement per step, outside any            *)
(* transaction, so the steps of several handlers interleave and a handler  *)
(* may stop between any two of them (a failed statement, a cancelled       *)
(* context, a crash: Abandon).  A session row stands for its refresh token *)
(* (refresh_token_hash is unique) and for the one access token signed for  *)
(* it.  Rejected requests that change nothing are stuttering steps and are *)
(* not written.                                                            *)
(***************************************************************************)
EXTENDS Integers, FiniteSets

CONSTANTS
    Users,          \* rows of the users table
    Sessions,       \* ids a session row can take
    Requests,       \* request handlers running at the same time
    GracePeriod,    \* the 30 days of RequestAccountDeletion, in ticks
    RefreshTTL,     \* cfg.RefreshTokenTTL, in ticks
    AccessTTL,      \* cfg.AccessTokenTTL, in ticks
    MaxTime,        \* bound: the clock stops here
    None            \* no user, no session

ASSUME AccountsAssumption ==
    /\ GracePeriod \in Nat
    /\ RefreshTTL \in Nat
    /\ AccessTTL \in Nat
    /\ MaxTime \in Nat
    /\ None \notin Users \union Sessions

VARIABLES
    now,        \* the database clock
    status,     \* users.status
    graceEnds,  \* users.deletion_grace_period_ends_at
    created,    \* the session rows that exist
    owner,      \* sessions.user_id
    parent,     \* the session whose refresh token was exchanged for this one
    since,      \* the owner's status at the login this session stems from
    expires,    \* sessions.expires_at
    revoked,    \* the sessions whose revoked_at is set
    held,       \* the refresh tokens that reached a client
    access,     \* the expiry of the access token a client holds for a session
    promised,   \* the last gracePeriodEndsAt answered to the user
    purging,    \* the users PurgeDeletedAccounts listed and has not marked yet
    req         \* the local state of each request handler

userVars == <<status, graceEnds>>
sessionVars == <<created, owner, parent, since, expires>>
clientVars == <<held, access, promised>>
vars == <<now, userVars, sessionVars, revoked, clientVars, purging, req>>

NoTime == -1
Time == Nat \union {NoTime}
Statuses == {"active", "deleting", "suspended", "banned", "deleted"}

(***************************************************************************)
(* A handler's locals: pc names the statement it runs next, user and old   *)
(* what it read, new the session it inserted, read the status in the user  *)
(* row it fetched, seen the user's sessions when it marked the account.    *)
(***************************************************************************)
Locations == {"idle", "loginInsert", "rotateInsert", "rotateRevoke", "answer",
              "logout", "delMark", "delCleanup", "delSweep", "delAnswer"}

Handler == [pc : Locations, user : Users \union {None},
            old : Sessions \union {None}, new : Sessions \union {None},
            read : Statuses, seen : SUBSET Sessions]

Idle == [pc |-> "idle", user |-> None, old |-> None, new |-> None,
         read |-> "active", seen |-> {}]

TypeOK ==
    /\ now \in Nat
    /\ status \in [Users -> Statuses]
    /\ graceEnds \in [Users -> Time]
    /\ created \in SUBSET Sessions
    /\ owner \in [Sessions -> Users \union {None}]
    /\ parent \in [Sessions -> Sessions \union {None}]
    /\ since \in [Sessions -> Statuses]
    /\ expires \in [Sessions -> Time]
    /\ revoked \in SUBSET Sessions
    /\ held \in SUBSET Sessions
    /\ access \in [Sessions -> Time]
    /\ promised \in [Users -> Time]
    /\ purging \in SUBSET Users
    /\ req \in [Requests -> Handler]

Init ==
    /\ now = 0
    /\ status = [u \in Users |-> "active"]
    /\ graceEnds = [u \in Users |-> NoTime]
    /\ created = {}
    /\ owner = [s \in Sessions |-> None]
    /\ parent = [s \in Sessions |-> None]
    /\ since = [s \in Sessions |-> "active"]
    /\ expires = [s \in Sessions |-> NoTime]
    /\ revoked = {}
    /\ held = {}
    /\ access = [s \in Sessions |-> NoTime]
    /\ promised = [u \in Users |-> NoTime]
    /\ purging = {}
    /\ req = [r \in Requests |-> Idle]

-----------------------------------------------------------------------------
(***************************************************************************)
(* The statements of auth/repository.go.                                   *)
(***************************************************************************)
SessionsOf(u) == {s \in created : owner[s] = u}

\* GetSessionByRefreshHash finds the row: not revoked and not expired.
Live(s) == s \in created /\ s \notin revoked /\ expires[s] > now

CreateSession(s, u, from, loginStatus) ==
    /\ s \notin created
    /\ created' = created \union {s}
    /\ owner' = [owner EXCEPT ![s] = u]
    /\ parent' = [parent EXCEPT ![s] = from]
    /\ since' = [since EXCEPT ![s] = loginStatus]
    /\ expires' = [expires EXCEPT ![s] = now + RefreshTTL]

RevokeSession(s) == revoked' = revoked \union {s}

RevokeAllSessionsForUser(u) == revoked' = revoked \union SessionsOf(u)

\* A mark that starts the grace period anew with every request.
MarkUserDeletingAnew(u) ==
    /\ status' = [status EXCEPT ![u] = "deleting"]
    /\ graceEnds' = [graceEnds EXCEPT ![u] = now + GracePeriod]

\* COALESCE keeps the date of an earlier request.
MarkUserDeleting(u) ==
    /\ status' = [status EXCEPT ![u] = "deleting"]
    /\ graceEnds' = [graceEnds EXCEPT ![u] =
                        IF @ = NoTime THEN now + GracePeriod ELSE @]

\* A list that takes every account waiting for its purge.
ListUsersDeleting == {u \in Users : status[u] = "deleting" /\ graceEnds[u] # NoTime}

ListUsersPastGracePeriod ==
    {u \in Users : status[u] = "deleting" /\ graceEnds[u] # NoTime
                                          /\ graceEnds[u] <= now}

\* The WHERE clause names the id only.
MarkUserDeleted(u) ==
    /\ status' = [status EXCEPT ![u] = "deleted"]
    /\ UNCHANGED graceEnds

-----------------------------------------------------------------------------
At(r, pc) == req[r].pc = pc
Goto(r, pc) == req' = [req EXCEPT ![r] = [@ EXCEPT !.pc = pc]]
Finish(r) == req' = [req EXCEPT ![r] = Idle]

\* ValidateAccessToken looks at the signature and the expiry only.
ValidateAccessToken(s) == access[s] # NoTime /\ now < access[s]

(***************************************************************************)
(* Login: look the user up and compare the password; insert a session;     *)
(* answer.  The status that was read is not looked at.                     *)
(***************************************************************************)
LoginLookup(r, u) ==
    /\ At(r, "idle")
    /\ req' = [req EXCEPT ![r] = [Idle EXCEPT !.pc = "loginInsert",
                                              !.user = u, !.read = status[u]]]
    /\ UNCHANGED <<now, userVars, sessionVars, revoked, clientVars, purging>>

LoginInsert(r, s) ==
    /\ At(r, "loginInsert")
    /\ CreateSession(s, req[r].user, None, req[r].read)
    /\ req' = [req EXCEPT ![r] = [@ EXCEPT !.pc = "answer", !.new = s]]
    /\ UNCHANGED <<now, userVars, revoked, clientVars, purging>>

(***************************************************************************)
(* RefreshSession: look the token up; insert the new session; revoke the   *)
(* old one, whatever its state has become; answer with the new pair.       *)
(***************************************************************************)
RefreshLookup(r, t) ==
    /\ At(r, "idle")
    /\ t \in held
    /\ Live(t)
    /\ req' = [req EXCEPT ![r] = [Idle EXCEPT !.pc = "rotateInsert",
                                              !.user = owner[t], !.old = t]]
    /\ UNCHANGED <<now, userVars, sessionVars, revoked, clientVars, purging>>

\* A rotation that loses the id of the session it inserted.
RotateInsertNoId(r, s) ==
    /\ At(r, "rotateInsert")
    /\ CreateSession(s, req[r].user, req[r].old, since[req[r].old])
    /\ Goto(r, "rotateRevoke")
    /\ UNCHANGED <<now, userVars, revoked, clientVars, purging>>

RotateInsert(r, s) ==
    /\ At(r, "rotateInsert")
    /\ CreateSession(s, req[r].user, req[r].old, since[req[r].old])
    /\ req' = [req EXCEPT ![r] = [@ EXCEPT !.pc = "rotateRevoke", !.new = s]]
    /\ UNCHANGED <<now, userVars, revoked, clientVars, purging>>

\* A rotation that forgets the old row when the new one is already there.
RotateRevokeNothing(r) ==
    /\ At(r, "rotateRevoke")
    /\ Goto(r, "answer")
    /\ UNCHANGED <<now, userVars, sessionVars, revoked, clientVars, purging>>

RotateRevoke(r) ==
    /\ At(r, "rotateRevoke")
    /\ RevokeSession(req[r].old)
    /\ Goto(r, "answer")
    /\ UNCHANGED <<now, userVars, sessionVars, clientVars, purging>>

\* The answer of Login and of RefreshSession: both tokens reach the client.
AnswerTokens(r) ==
    /\ At(r, "answer")
    /\ held' = held \union {req[r].new}
    /\ access' = [access EXCEPT ![req[r].new] = now + AccessTTL]
    /\ Finish(r)
    /\ UNCHANGED <<now, userVars, sessionVars, revoked, promised, purging>>

(***************************************************************************)
(* DELETE /v1/auth/session: the session of the access token.               *)
(***************************************************************************)
LogoutBegin(r, s) ==
    /\ At(r, "idle")
    /\ ValidateAccessToken(s)
    /\ req' = [req EXCEPT ![r] = [Idle EXCEPT !.pc = "logout",
                                              !.user = owner[s], !.old = s]]
    /\ UNCHANGED <<now, userVars, sessionVars, revoked, clientVars, purging>>

Logout(r) ==
    /\ At(r, "logout")
    /\ RevokeSession(req[r].old)
    /\ Finish(r)
    /\ UNCHANGED <<now, userVars, sessionVars, clientVars, purging>>

(***************************************************************************)
(* DELETE /v1/me: check the password and that no deletion is pending; mark *)
(* the account; IdentityCleanup; revoke every session; answer the date     *)
(* counted from now, not the stored one.                                   *)
(***************************************************************************)
DeleteCheck(r, s) ==
    /\ At(r, "idle")
    /\ ValidateAccessToken(s)
    /\ status[owner[s]] # "deleting"
    /\ req' = [req EXCEPT ![r] = [Idle EXCEPT !.pc = "delMark", !.old = s,
                                    !.user = owner[s],
                                    !.read = status[owner[s]]]]
    /\ UNCHANGED <<now, userVars, sessionVars, revoked, clientVars, purging>>

DeleteMark(r) ==
    /\ At(r, "delMark")
    /\ MarkUserDeleting(req[r].user)
    /\ req' = [req EXCEPT ![r] = [@ EXCEPT !.pc = "delCleanup",
                                          !.seen = SessionsOf(req[r].user)]]
    /\ UNCHANGED <<now, sessionVars, revoked, clientVars, purging>>

\* The personas are another module's state: here it is a call that can fail.
IdentityCleanup(r) ==
    /\ At(r, "delCleanup")
    /\ Goto(r, "delSweep")
    /\ UNCHANGED <<now, userVars, sessionVars, revoked, clientVars, purging>>

\* A sweep that revokes the session of the request and not the user's others.
DeleteSweepOwn(r) ==
    /\ At(r, "delSweep")
    /\ RevokeSession(req[r].old)
    /\ Goto(r, "delAnswer")
    /\ UNCHANGED <<now, userVars, sessionVars, clientVars, purging>>

DeleteSweep(r) ==
    /\ At(r, "delSweep")
    /\ RevokeAllSessionsForUser(req[r].user)
    /\ Goto(r, "delAnswer")
    /\ UNCHANGED <<now, userVars, sessionVars, clientVars, purging>>

DeleteAnswer(r) ==
    /\ At(r, "delAnswer")
    /\ promised' = [promised EXCEPT ![req[r].user] = now + GracePeriod]
    /\ Finish(r)
    /\ UNCHANGED <<now, userVars, sessionVars, revoked, held, access, purging>>

\* A statement fails, the client's context is cancelled or the server stops.
Abandon(r) ==
    /\ ~At(r, "idle")
    /\ Finish(r)
    /\ UNCHANGED <<now, userVars, sessionVars, revoked, clientVars, purging>>

(***************************************************************************)
(* PurgeDeletedAccounts: list, then mark one user at a time; an error      *)
(* gives up the rest of the list.                                          *)
(***************************************************************************)
PurgeList ==
    /\ purging = {}
    /\ ListUsersPastGracePeriod # {}
    /\ purging' = ListUsersPastGracePeriod
    /\ UNCHANGED <<now, userVars, sessionVars, revoked, clientVars, req>>

PurgeMark(u) ==
    /\ u \in purging
    /\ MarkUserDeleted(u)
    /\ purging' = purging \ {u}
    /\ UNCHANGED <<now, sessionVars, revoked, clientVars, req>>

PurgeFail ==
    /\ purging # {}
    /\ purging' = {}
    /\ UNCHANGED <<now, userVars, sessionVars, revoked, clientVars, req>>

\* Moderation's UpdateUserStatus, for the outcomes suspendAccount and
\* banAccount: the WHERE clause names the id only.
UpdateUserStatus(u, st) ==
    /\ st \in {"suspended", "banned"}
    /\ status' = [status EXCEPT ![u] = st]
    /\ UNCHANGED <<now, graceEnds, sessionVars, revoked, clientVars, purging, req>>

Tick ==
    /\ now < MaxTime
    /\ now' = now + 1
    /\ UNCHANGED <<userVars, sessionVars, revoked, clientVars, purging, req>>

Next ==
    \/ \E r \in Requests, u \in Users : LoginLookup(r, u)
    \/ \E r \in Requests, s \in Sessions :
          \/ LoginInsert(r, s)
          \/ RefreshLookup(r, s)
          \/ RotateInsert(r, s)
          \/ LogoutBegin(r, s)
          \/ DeleteCheck(r, s)
    \/ \E r \in Requests :
          \/ RotateRevoke(r)
          \/ AnswerTokens(r)
          \/ Logout(r)
          \/ DeleteMark(r)
          \/ IdentityCleanup(r)
          \/ DeleteSweep(r)
          \/ DeleteAnswer(r)
          \/ Abandon(r)
    \/ PurgeList
    \/ \E u \in Users : PurgeMark(u)
    \/ PurgeFail
    \/ \E u \in Users, st \in Statuses : UpdateUserStatus(u, st)
    \/ Tick

Spec == Init /\ [][Next]_vars

-----------------------------------------------------------------------------
(***************************************************************************)
(* What the code does guarantee.                                           *)
(***************************************************************************)

(***************************************************************************)
(* Rotation: by the time the token of a new session reaches the client,    *)
(* the token it was exchanged for is revoked, so no client ever holds both *)
(* ends of a rotation as usable tokens, whatever fails or interleaves      *)
(* (RefreshSession revokes before it answers).                             *)
(***************************************************************************)
RotatedTokenIsDead ==
    \A s \in held : parent[s] # None => parent[s] \in revoked

(***************************************************************************)
(* A deletion is answered only when every session the user had at the      *)
(* moment the account was marked has been revoked: the sweep comes after   *)
(* the mark and covers the user's rows, not the request's session only.    *)
(***************************************************************************)
DeletionAnsweredAfterSweep ==
    \A r \in Requests : At(r, "delAnswer") => req[r].seen \subseteq revoked

(***************************************************************************)
(* An account is purged only when its stored grace period is over, though  *)
(* PurgeDeletedAccounts works from a list and marks by id: deletions and   *)
(* moderation in between never make the listed date wrong.                 *)
(***************************************************************************)
PurgedOnlyAfterGrace ==
    \A u \in Users : status[u] = "deleted" =>
        graceEnds[u] # NoTime /\ graceEnds[u] <= now

(***************************************************************************)
(* Asking again, from another device or after a moderation decision, never *)
(* prolongs the wait: the stored end of the grace period is never later    *)
(* than an end the user has been told (COALESCE in MarkUserDeleting).      *)
(***************************************************************************)
GraceNotProlonged ==
    \A u \in Users : promised[u] # NoTime =>
        graceEnds[u] # NoTime /\ graceEnds[u] <= promised[u]

-----------------------------------------------------------------------------
(***************************************************************************)
(* "Deleting an account revokes every session", which the code does not    *)
(* keep: after a deletion that was answered with success, a session of the *)
(* account that descends from a refresh stems from a login made while it   *)
(* was deleting.  A refresh that looked its token up before the sweep      *)
(* inserts its session after it.                                           *)
(***************************************************************************)
ConfirmedDeletionEndsLogins ==
    \A u \in Users, s \in Sessions :
        (status[u] = "deleting" /\ promised[u] # NoTime
             /\ owner[s] = u /\ s \in held /\ Live(s) /\ parent[s] # None)
                 => since[s] = "deleting"
=============================================================================
