--------------------------- MODULE AccountsProofs ---------------------------
(***************************************************************************)
(* Proofs about Accounts for any number of users, sessions and handlers    *)
(* and any lifetimes.  The inductive invariant says what each handler      *)
(* knows about the rows it works on at each of its statements; the rows    *)
(* it remembers cannot change owner or come back from being revoked.       *)
(***************************************************************************)
EXTENDS Accounts, TLAPS

\* The sessions that clients know of exist, and rows belong to users.
RowsAreKnown ==
    /\ held \subseteq created
    /\ \A s \in Sessions : access[s] # NoTime => s \in created
    /\ \A s \in created : owner[s] \in Users

(***************************************************************************)
(* What a handler remembers is still so: the old session of a rotation     *)
(* exists until it is revoked and stays revoked; the new session descends  *)
(* from it; until the sweep, the sessions it must revoke are the user's.   *)
(***************************************************************************)
HandlerKnows(r) ==
    /\ ~At(r, "idle") => req[r].user \in Users
    /\ At(r, "loginInsert") => req[r].old = None
    /\ req[r].pc \in {"rotateInsert", "rotateRevoke"} => req[r].old \in created
    /\ req[r].pc \in {"logout", "delMark"} => req[r].old \in Sessions
    /\ req[r].pc \in {"rotateRevoke", "answer"} =>
          req[r].new \in created /\ parent[req[r].new] = req[r].old
    /\ At(r, "answer") => (req[r].old # None => req[r].old \in revoked)
    /\ req[r].pc \in {"delCleanup", "delSweep"} =>
          req[r].seen \subseteq SessionsOf(req[r].user)
    /\ At(r, "delAnswer") => req[r].seen \subseteq revoked

LocalsAreKnown == \A r \in Requests : HandlerKnows(r)

SessionInv ==
    /\ TypeOK
    /\ RowsAreKnown
    /\ LocalsAreKnown
    /\ RotatedTokenIsDead

-----------------------------------------------------------------------------
LEMMA HandlerRecords ==
    /\ Idle \in Handler
    /\ \A u \in Users, st \in Statuses :
          [Idle EXCEPT !.pc = "loginInsert", !.user = u, !.read = st] \in Handler
    /\ \A u \in Users, s \in Sessions, st \in Statuses :
          /\ [Idle EXCEPT !.pc = "rotateInsert", !.user = u, !.old = s] \in Handler
          /\ [Idle EXCEPT !.pc = "logout", !.user = u, !.old = s] \in Handler
          /\ [Idle EXCEPT !.pc = "delMark", !.old = s, !.user = u, !.read = st]
                \in Handler
<1> USE DEF Idle, Handler, Locations, Statuses
<1>1. Idle \in Handler
  OBVIOUS
<1>2. ASSUME NEW u \in Users, NEW st \in Statuses
      PROVE  [Idle EXCEPT !.pc = "loginInsert", !.user = u, !.read = st] \in Handler
  OBVIOUS
<1>3. ASSUME NEW u \in Users, NEW s \in Sessions, NEW st \in Statuses
      PROVE  /\ [Idle EXCEPT !.pc = "rotateInsert", !.user = u, !.old = s] \in Handler
             /\ [Idle EXCEPT !.pc = "logout", !.user = u, !.old = s] \in Handler
             /\ [Idle EXCEPT !.pc = "delMark", !.old = s, !.user = u, !.read = st]
                   \in Handler
  OBVIOUS
<1> HIDE DEF Handler, Idle, Statuses
<1> QED BY <1>1, <1>2, <1>3

(***************************************************************************)
(* What one statement writes into a handler's locals stays typed.          *)
(***************************************************************************)
LEMMA LocalUpdates ==
    ASSUME NEW h \in Handler, NEW pc \in Locations
    PROVE  /\ [h EXCEPT !.pc = pc] \in Handler
           /\ \A s \in Sessions : [h EXCEPT !.pc = pc, !.new = s] \in Handler
           /\ \A S \in SUBSET Sessions : [h EXCEPT !.pc = pc, !.seen = S] \in Handler
<1> USE DEF Handler
<1>1. [h EXCEPT !.pc = pc] \in Handler
  OBVIOUS
<1>2. ASSUME NEW s \in Sessions PROVE [h EXCEPT !.pc = pc, !.new = s] \in Handler
  OBVIOUS
<1>3. ASSUME NEW S \in SUBSET Sessions PROVE [h EXCEPT !.pc = pc, !.seen = S] \in Handler
  OBVIOUS
<1> HIDE DEF Handler
<1> QED BY <1>1, <1>2, <1>3

(***************************************************************************)
(* The locals of every handler keep their type: one step of one handler.   *)
(***************************************************************************)
LEMMA StoredHandler ==
    ASSUME req \in [Requests -> Handler], NEW r \in Requests, NEW h \in Handler,
           req' = [req EXCEPT ![r] = h]
    PROVE  req' \in [Requests -> Handler]
OBVIOUS

LEMMA ReqType ==
    ASSUME TypeOK, RowsAreKnown, LocalsAreKnown, [Next]_vars
    PROVE  req' \in [Requests -> Handler]
<1> USE DEF At, Goto, Finish
<1>0. req \in [Requests -> Handler] /\ created \subseteq Sessions
      /\ status \in [Users -> Statuses]
  BY DEF TypeOK
<1>1. ASSUME NEW r \in Requests, NEW u \in Users, LoginLookup(r, u)
      PROVE  req' \in [Requests -> Handler]
  <2>1. status[u] \in Statuses
    BY <1>0
  <2> QED BY <1>0, <1>1, <2>1, HandlerRecords, StoredHandler DEF LoginLookup
<1>2. ASSUME NEW r \in Requests, NEW s \in Sessions,
             LoginInsert(r, s) \/ RotateInsert(r, s)
      PROVE  req' \in [Requests -> Handler]
  <2>1. req[r] \in Handler
    BY <1>0
  <2>2. CASE LoginInsert(r, s)
    <3>1. "answer" \in Locations
      BY DEF Locations
    <3>2. [req[r] EXCEPT !.pc = "answer", !.new = s] \in Handler
      BY <2>1, <3>1, LocalUpdates
    <3> QED BY <1>0, <2>2, <3>2 DEF LoginInsert
  <2>3. CASE RotateInsert(r, s)
    <3>1. "rotateRevoke" \in Locations
      BY DEF Locations
    <3>2. [req[r] EXCEPT !.pc = "rotateRevoke", !.new = s] \in Handler
      BY <2>1, <3>1, LocalUpdates
    <3> QED BY <1>0, <2>3, <3>2 DEF RotateInsert
  <2> QED BY <1>2, <2>2, <2>3
<1>3. ASSUME NEW r \in Requests, NEW s \in Sessions,
             RefreshLookup(r, s) \/ LogoutBegin(r, s) \/ DeleteCheck(r, s)
      PROVE  req' \in [Requests -> Handler]
  <2>1. owner[s] \in Users /\ status[owner[s]] \in Statuses
    BY <1>0, <1>3 DEF RefreshLookup, LogoutBegin, DeleteCheck, ValidateAccessToken,
                      Live, RowsAreKnown
  <2>2. CASE RefreshLookup(r, s)
    BY <1>0, <2>1, <2>2, HandlerRecords DEF RefreshLookup
  <2>3. CASE LogoutBegin(r, s)
    BY <1>0, <2>1, <2>3, HandlerRecords DEF LogoutBegin
  <2>4. CASE DeleteCheck(r, s)
    BY <1>0, <2>1, <2>4, HandlerRecords DEF DeleteCheck
  <2> QED BY <1>3, <2>2, <2>3, <2>4
<1>4. ASSUME NEW r \in Requests, NEW pc \in Locations, Goto(r, pc)
      PROVE  req' \in [Requests -> Handler]
  <2>1. [req[r] EXCEPT !.pc = pc] \in Handler
    BY <1>0, LocalUpdates
  <2> QED BY <1>0, <1>4, <2>1
<1>5. ASSUME NEW r \in Requests, RotateRevoke(r) \/ IdentityCleanup(r) \/ DeleteSweep(r)
      PROVE  req' \in [Requests -> Handler]
  <2>1. \E pc \in Locations : Goto(r, pc)
    BY <1>5 DEF RotateRevoke, IdentityCleanup, DeleteSweep, Locations
  <2> QED BY <1>4, <2>1
<1>6. ASSUME NEW r \in Requests, DeleteMark(r)
      PROVE  req' \in [Requests -> Handler]
  <2>1. "delCleanup" \in Locations /\ SessionsOf(req[r].user) \in SUBSET Sessions
    BY <1>0 DEF Locations, SessionsOf
  <2>2. [req[r] EXCEPT !.pc = "delCleanup", !.seen = SessionsOf(req[r].user)] \in Handler
    BY <1>0, <2>1, LocalUpdates
  <2> QED BY <1>0, <1>6, <2>2 DEF DeleteMark
<1>7. ASSUME NEW r \in Requests,
             AnswerTokens(r) \/ Logout(r) \/ DeleteAnswer(r) \/ Abandon(r)
      PROVE  req' \in [Requests -> Handler]
  BY <1>0, <1>7, HandlerRecords DEF AnswerTokens, Logout, DeleteAnswer, Abandon
<1>8. CASE UNCHANGED req
  BY <1>0, <1>8
<1>9. \/ UNCHANGED req
      \/ \E r \in Requests, u \in Users : LoginLookup(r, u)
      \/ \E r \in Requests, s \in Sessions :
            \/ LoginInsert(r, s) \/ RotateInsert(r, s) \/ RefreshLookup(r, s)
            \/ LogoutBegin(r, s) \/ DeleteCheck(r, s)
      \/ \E r \in Requests :
            \/ RotateRevoke(r) \/ IdentityCleanup(r) \/ DeleteSweep(r) \/ DeleteMark(r)
            \/ AnswerTokens(r) \/ Logout(r) \/ DeleteAnswer(r) \/ Abandon(r)
  BY DEF Next, vars, PurgeList, PurgeMark, PurgeFail, UpdateUserStatus, Tick
<1> QED BY <1>1, <1>2, <1>3, <1>5, <1>6, <1>7, <1>8, <1>9

-----------------------------------------------------------------------------
LEMMA InitTypeOK == Init => TypeOK
<1> SUFFICES ASSUME Init PROVE TypeOK
  OBVIOUS
<1>1. req \in [Requests -> Handler]
  BY HandlerRecords DEF Init
<1> QED BY <1>1, AccountsAssumption DEF Init, TypeOK, Statuses, Time, NoTime

LEMMA NextTypeOK ==
    ASSUME TypeOK, RowsAreKnown, LocalsAreKnown, [Next]_vars
    PROVE  TypeOK'
<1>1. req' \in [Requests -> Handler]
  BY ReqType
<1>2. \A r \in Requests : ~At(r, "idle") => req[r].user \in Users
  BY DEF LocalsAreKnown, HandlerKnows
<1>3. \A r \in Requests : req[r] \in Handler
  BY DEF TypeOK
<1>4. \A r \in Requests : /\ req[r].read \in Statuses
                          /\ req[r].old \in Sessions \union {None}
                          /\ req[r].new \in Sessions \union {None}
  BY <1>3 DEF Handler
<1> USE AccountsAssumption DEF TypeOK, userVars, sessionVars, clientVars
<1> HIDE DEF Handler
<1>5. ASSUME NEW r \in Requests, NEW s \in Sessions,
             LoginInsert(r, s) \/ RotateInsert(r, s)
      PROVE  TypeOK'
  <2>1. \E u \in Users, p \in Sessions \union {None}, st \in Statuses :
            CreateSession(s, u, p, st)
    <3>1. req[r].pc = "rotateInsert" => req[r].old \in Sessions
      BY DEF LocalsAreKnown, HandlerKnows
    <3> QED BY <1>2, <1>4, <1>5, <3>1 DEF LoginInsert, RotateInsert, At
  <2>2. /\ created' \in SUBSET Sessions /\ owner' \in [Sessions -> Users \union {None}]
        /\ parent' \in [Sessions -> Sessions \union {None}]
        /\ since' \in [Sessions -> Statuses] /\ expires' \in [Sessions -> Time]
    BY <2>1 DEF CreateSession, Time
  <2>3. UNCHANGED <<now, userVars, revoked, clientVars, purging>>
    BY <1>5 DEF LoginInsert, RotateInsert
  <2> QED BY <1>1, <2>2, <2>3
<1>6. ASSUME NEW r \in Requests,
             RotateRevoke(r) \/ Logout(r) \/ DeleteSweep(r)
      PROVE  TypeOK'
  <2>1. revoked' \in SUBSET Sessions
    <3>1. req[r].pc \in {"rotateRevoke", "logout"} => req[r].old \in Sessions
      BY DEF LocalsAreKnown, HandlerKnows
    <3> QED BY <1>6, <3>1 DEF RotateRevoke, Logout, DeleteSweep, RevokeSession,
                              RevokeAllSessionsForUser, SessionsOf, At
  <2> QED BY <1>1, <1>6, <2>1 DEF RotateRevoke, Logout, DeleteSweep
<1>7. ASSUME NEW r \in Requests, AnswerTokens(r)
      PROVE  TypeOK'
  <2>1. req[r].new \in Sessions
    BY <1>7 DEF LocalsAreKnown, HandlerKnows, AnswerTokens, At
  <2>2. held' \in SUBSET Sessions /\ access' \in [Sessions -> Time]
    BY <1>7, <2>1 DEF AnswerTokens, Time
  <2> QED BY <1>1, <1>7, <2>2 DEF AnswerTokens
<1>8. ASSUME NEW r \in Requests, DeleteMark(r)
      PROVE  TypeOK'
  <2>1. status' \in [Users -> Statuses] /\ graceEnds' \in [Users -> Time]
    <3>1. now + GracePeriod \in Time
      BY DEF Time
    <3> QED BY <1>8, <3>1 DEF DeleteMark, MarkUserDeleting, Statuses
  <2> QED BY <1>1, <1>8, <2>1 DEF DeleteMark
<1>9. ASSUME NEW r \in Requests, DeleteAnswer(r)
      PROVE  TypeOK'
  <2>1. promised' \in [Users -> Time]
    <3>1. now + GracePeriod \in Time
      BY DEF Time
    <3> QED BY <1>9, <3>1 DEF DeleteAnswer
  <2> QED BY <1>1, <1>9, <2>1 DEF DeleteAnswer
<1>10. ASSUME UNCHANGED <<now, userVars, sessionVars, revoked, clientVars, purging>>
       PROVE  TypeOK'
  BY <1>1, <1>10
<1>11. ASSUME PurgeList \/ PurgeFail \/ Tick \/ (\E u \in Users : PurgeMark(u))
              \/ (\E u \in Users, st \in Statuses : UpdateUserStatus(u, st))
       PROVE  TypeOK'
  <2>1. purging' \in SUBSET Users /\ now' \in Nat
    BY <1>11 DEF PurgeList, PurgeFail, Tick, PurgeMark, UpdateUserStatus,
                 ListUsersPastGracePeriod
  <2>2. status' \in [Users -> Statuses] /\ graceEnds' \in [Users -> Time]
    BY <1>11 DEF PurgeList, PurgeFail, Tick, PurgeMark, UpdateUserStatus,
                 MarkUserDeleted, Statuses
  <2>3. UNCHANGED <<sessionVars, revoked, clientVars>>
    BY <1>11 DEF PurgeList, PurgeFail, Tick, PurgeMark, UpdateUserStatus
  <2> QED BY <1>1, <2>1, <2>2, <2>3
<1>12. \/ UNCHANGED <<now, userVars, sessionVars, revoked, clientVars, purging>>
       \/ \E r \in Requests, s \in Sessions : LoginInsert(r, s) \/ RotateInsert(r, s)
       \/ \E r \in Requests :
             \/ RotateRevoke(r) \/ Logout(r) \/ DeleteSweep(r) \/ AnswerTokens(r)
             \/ DeleteMark(r) \/ DeleteAnswer(r)
       \/ PurgeList \/ PurgeFail \/ Tick \/ (\E u \in Users : PurgeMark(u))
       \/ \E u \in Users, st \in Statuses : UpdateUserStatus(u, st)
  BY DEF Next, vars, LoginLookup, RefreshLookup, LogoutBegin, DeleteCheck,
         IdentityCleanup, Abandon
<1> QED BY <1>5, <1>6, <1>7, <1>8, <1>9, <1>10, <1>11, <1>12

-----------------------------------------------------------------------------
(***************************************************************************)
(* Handlers read each other's rows but no statement changes what another   *)
(* one knows: rows are only added, their owner and parent are final, and   *)
(* nothing clears revoked_at.                                              *)
(***************************************************************************)
TablesGrow ==
    /\ created \subseteq created'
    /\ revoked \subseteq revoked'
    /\ \A s \in created : owner'[s] = owner[s] /\ parent'[s] = parent[s]

LEMMA KnowledgeKept ==
    ASSUME SessionInv, TablesGrow, NEW q \in Requests, req'[q] = req[q]
    PROVE  HandlerKnows(q)'
<1>1. HandlerKnows(q)
  BY DEF SessionInv, LocalsAreKnown
<1> QED BY <1>1 DEF HandlerKnows, TablesGrow, SessionsOf, At

LEMMA OneHandlerMoves ==
    ASSUME SessionInv, TypeOK', RowsAreKnown', RotatedTokenIsDead', TablesGrow,
           NEW r \in Requests, NEW h, req' = [req EXCEPT ![r] = h],
           HandlerKnows(r)'
    PROVE  SessionInv'
<1>1. \A q \in Requests : q # r => req'[q] = req[q]
  BY DEF SessionInv, TypeOK
<1>2. LocalsAreKnown'
  BY <1>1, KnowledgeKept DEF LocalsAreKnown
<1> QED BY <1>2 DEF SessionInv

LEMMA NoHandlerMoves ==
    ASSUME SessionInv, TypeOK', RowsAreKnown', RotatedTokenIsDead', TablesGrow,
           UNCHANGED req
    PROVE  SessionInv'
<1>1. LocalsAreKnown'
  BY KnowledgeKept DEF LocalsAreKnown
<1> QED BY <1>1 DEF SessionInv

LEMMA SessionInvInit == Init => SessionInv
<1> SUFFICES ASSUME Init PROVE SessionInv
  OBVIOUS
<1>1. TypeOK
  BY InitTypeOK
<1>2. RowsAreKnown /\ RotatedTokenIsDead
  BY DEF Init, RowsAreKnown, RotatedTokenIsDead
<1>3. LocalsAreKnown
  BY DEF Init, LocalsAreKnown, HandlerKnows, At, Idle
<1> QED BY <1>1, <1>2, <1>3 DEF SessionInv

(***************************************************************************)
(* A handler that is done, whatever it did, knows nothing that could break.*)
(***************************************************************************)
LEMMA IdleKnows ==
    ASSUME NEW r \in Requests, TypeOK, Finish(r)
    PROVE  HandlerKnows(r)'
<1>1. req'[r].pc = "idle"
  BY DEF TypeOK, Finish, Idle
<1> QED BY <1>1 DEF HandlerKnows, At

(***************************************************************************)
(* What a statement leaves in the locals it does not write.                *)
(***************************************************************************)
LEMMA FieldsKept ==
    ASSUME NEW h \in Handler, NEW pc
    PROVE  /\ LET g == [h EXCEPT !.pc = pc]
              IN  /\ g.pc = pc /\ g.user = h.user /\ g.old = h.old
                  /\ g.new = h.new /\ g.read = h.read /\ g.seen = h.seen
           /\ \A s : LET g == [h EXCEPT !.pc = pc, !.new = s]
                     IN  /\ g.pc = pc /\ g.user = h.user /\ g.old = h.old
                         /\ g.new = s /\ g.read = h.read /\ g.seen = h.seen
           /\ \A S : LET g == [h EXCEPT !.pc = pc, !.seen = S]
                     IN  /\ g.pc = pc /\ g.user = h.user /\ g.old = h.old
                         /\ g.new = h.new /\ g.read = h.read /\ g.seen = S
BY DEF Handler

LEMMA StepCreatesSession ==
    ASSUME SessionInv, TypeOK', NEW r \in Requests, NEW s \in Sessions,
           LoginInsert(r, s) \/ RotateInsert(r, s)
    PROVE  SessionInv'
<1>1. TypeOK /\ HandlerKnows(r) /\ req[r] \in Handler
  BY DEF SessionInv, LocalsAreKnown, TypeOK
<1>2. PICK st, pc :
         /\ CreateSession(s, req[r].user, req[r].old, st)
         /\ req' = [req EXCEPT ![r] = [@ EXCEPT !.pc = pc, !.new = s]]
         /\ \/ pc = "answer" /\ req[r].old = None
            \/ pc = "rotateRevoke" /\ req[r].old \in created
  BY <1>1 DEF LoginInsert, RotateInsert, HandlerKnows, At
<1>3. UNCHANGED <<revoked, clientVars>> /\ req[r].user \in Users
  BY <1>1 DEF LoginInsert, RotateInsert, HandlerKnows, At
<1>4. /\ req'[r].pc = pc /\ req'[r].user = req[r].user
      /\ req'[r].old = req[r].old /\ req'[r].new = s
  BY <1>1, <1>2, FieldsKept DEF TypeOK
<1>5. /\ s \notin created /\ created' = created \union {s} /\ revoked' = revoked
      /\ owner' = [owner EXCEPT ![s] = req[r].user]
      /\ parent' = [parent EXCEPT ![s] = req[r].old]
  BY <1>2, <1>3 DEF CreateSession
<1>6. TablesGrow
  BY <1>1, <1>5 DEF TablesGrow, TypeOK
<1>7. RowsAreKnown'
  BY <1>1, <1>3, <1>5 DEF RowsAreKnown, SessionInv, TypeOK, clientVars
<1>8. RotatedTokenIsDead'
  BY <1>1, <1>3, <1>5, <1>6 DEF RotatedTokenIsDead, SessionInv, RowsAreKnown, TablesGrow, clientVars
<1>9. HandlerKnows(r)'
  BY <1>1, <1>2, <1>3, <1>4, <1>5 DEF HandlerKnows, At, TypeOK
<1> QED BY <1>2, <1>6, <1>7, <1>8, <1>9, OneHandlerMoves

(***************************************************************************)
(* Looking a row up, or going on without touching a table.                 *)
(***************************************************************************)
LEMMA StepTablesKept ==
    ASSUME SessionInv, TypeOK', NEW r \in Requests, NEW h,
           UNCHANGED <<sessionVars, revoked, clientVars>>,
           req' = [req EXCEPT ![r] = h], HandlerKnows(r)'
    PROVE  SessionInv'
<1>1. TablesGrow /\ RowsAreKnown' /\ RotatedTokenIsDead'
  BY DEF TablesGrow, RowsAreKnown, RotatedTokenIsDead, SessionInv, sessionVars,
         clientVars
<1> QED BY <1>1, OneHandlerMoves

LEMMA StepLookup ==
    ASSUME SessionInv, TypeOK', NEW r \in Requests,
           \/ \E u \in Users : LoginLookup(r, u)
           \/ \E s \in Sessions : RefreshLookup(r, s) \/ LogoutBegin(r, s)
                                      \/ DeleteCheck(r, s)
    PROVE  SessionInv'
<1> USE DEF userVars
<1>1. \A s \in Sessions : (Live(s) \/ ValidateAccessToken(s)) =>
          s \in created /\ owner[s] \in Users
  BY DEF Live, ValidateAccessToken, SessionInv, RowsAreKnown
<1>2. CASE \E u \in Users : LoginLookup(r, u)
  <2>1. PICK u \in Users : LoginLookup(r, u)
    BY <1>2
  <2>2. req'[r].pc = "loginInsert" /\ req'[r].user = u /\ req'[r].old = None
    BY <2>1 DEF LoginLookup, Idle, SessionInv, TypeOK
  <2>3. HandlerKnows(r)'
    BY <2>2 DEF HandlerKnows, At
  <2> QED BY <2>1, <2>3, StepTablesKept DEF LoginLookup
<1>3. ASSUME NEW s \in Sessions, RefreshLookup(r, s)
      PROVE  SessionInv'
  <2>1. req'[r].pc = "rotateInsert" /\ req'[r].user = owner[s] /\ req'[r].old = s
    BY <1>3 DEF RefreshLookup, Idle, SessionInv, TypeOK
  <2>2. HandlerKnows(r)'
    BY <1>1, <1>3, <2>1 DEF HandlerKnows, At, RefreshLookup, sessionVars
  <2> QED BY <1>3, <2>2, StepTablesKept DEF RefreshLookup
<1>4. ASSUME NEW s \in Sessions, LogoutBegin(r, s)
      PROVE  SessionInv'
  <2>1. req'[r].pc = "logout" /\ req'[r].user = owner[s] /\ req'[r].old = s
    BY <1>4 DEF LogoutBegin, Idle, SessionInv, TypeOK
  <2>2. HandlerKnows(r)'
    BY <1>1, <1>4, <2>1 DEF HandlerKnows, At, LogoutBegin, sessionVars
  <2> QED BY <1>4, <2>2, StepTablesKept DEF LogoutBegin
<1>5. ASSUME NEW s \in Sessions, DeleteCheck(r, s)
      PROVE  SessionInv'
  <2>1. req'[r].pc = "delMark" /\ req'[r].user = owner[s] /\ req'[r].old = s
    BY <1>5 DEF DeleteCheck, Idle, SessionInv, TypeOK
  <2>2. HandlerKnows(r)'
    BY <1>1, <1>5, <2>1 DEF HandlerKnows, At, DeleteCheck, sessionVars
  <2> QED BY <1>5, <2>2, StepTablesKept DEF DeleteCheck
<1> QED BY <1>2, <1>3, <1>4, <1>5

(***************************************************************************)
(* Revoking only adds to the revoked sessions, whoever they belong to.     *)
(***************************************************************************)
LEMMA StepRevokes ==
    ASSUME SessionInv, TypeOK', NEW r \in Requests, NEW h,
           UNCHANGED <<sessionVars, clientVars>>, revoked \subseteq revoked',
           req' = [req EXCEPT ![r] = h], HandlerKnows(r)'
    PROVE  SessionInv'
<1>1. TablesGrow /\ RowsAreKnown'
  BY DEF TablesGrow, RowsAreKnown, SessionInv, sessionVars, clientVars
<1>2. RotatedTokenIsDead'
  BY DEF RotatedTokenIsDead, SessionInv, sessionVars, clientVars
<1> QED BY <1>1, <1>2, OneHandlerMoves

LEMMA StepRotateRevoke ==
    ASSUME SessionInv, TypeOK', NEW r \in Requests, RotateRevoke(r)
    PROVE  SessionInv'
<1>1. HandlerKnows(r) /\ req[r] \in Handler
  BY DEF SessionInv, LocalsAreKnown, TypeOK
<1>2. /\ req'[r].pc = "answer" /\ req'[r].user = req[r].user
      /\ req'[r].old = req[r].old /\ req'[r].new = req[r].new
  BY <1>1, FieldsKept DEF RotateRevoke, Goto, SessionInv, TypeOK
<1>3. HandlerKnows(r)'
  BY <1>1, <1>2 DEF HandlerKnows, At, RotateRevoke, RevokeSession, sessionVars
<1> QED BY <1>3, StepRevokes DEF RotateRevoke, RevokeSession, Goto

LEMMA StepDeleteSweep ==
    ASSUME SessionInv, TypeOK', NEW r \in Requests, DeleteSweep(r)
    PROVE  SessionInv'
<1>1. HandlerKnows(r) /\ req[r] \in Handler
  BY DEF SessionInv, LocalsAreKnown, TypeOK
<1>2. /\ req'[r].pc = "delAnswer" /\ req'[r].user = req[r].user
      /\ req'[r].seen = req[r].seen
  BY <1>1, FieldsKept DEF DeleteSweep, Goto, SessionInv, TypeOK
<1>3. HandlerKnows(r)'
  BY <1>1, <1>2 DEF HandlerKnows, At, DeleteSweep, RevokeAllSessionsForUser
<1> QED BY <1>3, StepRevokes DEF DeleteSweep, RevokeAllSessionsForUser, Goto

LEMMA StepDeleteMark ==
    ASSUME SessionInv, TypeOK', NEW r \in Requests, DeleteMark(r) \/ IdentityCleanup(r)
    PROVE  SessionInv'
<1>1. HandlerKnows(r) /\ req[r] \in Handler /\ req[r].user \in Users
  BY DEF SessionInv, LocalsAreKnown, TypeOK, HandlerKnows, DeleteMark,
         IdentityCleanup, At
<1>2. UNCHANGED <<sessionVars, revoked, clientVars>>
  BY DEF DeleteMark, IdentityCleanup
<1>3. CASE DeleteMark(r)
  <2>1. /\ req'[r].pc = "delCleanup" /\ req'[r].user = req[r].user
        /\ req'[r].seen = SessionsOf(req[r].user)
    BY <1>1, <1>3, FieldsKept DEF DeleteMark, SessionInv, TypeOK
  <2>2. SessionsOf(req[r].user)' = SessionsOf(req'[r].user)
    BY <1>2, <2>1 DEF SessionsOf, sessionVars
  <2>3. HandlerKnows(r)'
    BY <1>1, <1>2, <2>1 DEF HandlerKnows, At, SessionsOf, sessionVars
  <2> QED BY <1>2, <1>3, <2>3, StepTablesKept DEF DeleteMark
<1>4. CASE IdentityCleanup(r)
  <2>1. /\ req'[r].pc = "delSweep" /\ req'[r].user = req[r].user
        /\ req'[r].seen = req[r].seen /\ req[r].pc = "delCleanup"
    BY <1>1, <1>4, FieldsKept DEF IdentityCleanup, Goto, At, SessionInv, TypeOK
  <2>2. HandlerKnows(r)'
    BY <1>1, <1>2, <2>1 DEF HandlerKnows, At, SessionsOf, sessionVars
  <2> QED BY <1>2, <1>4, <2>2, StepTablesKept DEF IdentityCleanup, Goto
<1> QED BY <1>3, <1>4

LEMMA StepAnswers ==
    ASSUME SessionInv, TypeOK', NEW r \in Requests,
           AnswerTokens(r) \/ Logout(r) \/ DeleteAnswer(r) \/ Abandon(r)
    PROVE  SessionInv'
<1>1. HandlerKnows(r) /\ TypeOK
  BY DEF SessionInv, LocalsAreKnown
<1>2. Finish(r) /\ UNCHANGED sessionVars
  BY DEF AnswerTokens, Logout, DeleteAnswer, Abandon
<1>3. HandlerKnows(r)'
  BY <1>1, <1>2, IdleKnows
<1>4. CASE AnswerTokens(r)
  <2>1. /\ held' = held \union {req[r].new} /\ revoked' = revoked
        /\ access' = [access EXCEPT ![req[r].new] = now + AccessTTL]
        /\ req[r].new \in created /\ parent[req[r].new] = req[r].old
        /\ req[r].old # None => req[r].old \in revoked
    BY <1>1, <1>4 DEF AnswerTokens, HandlerKnows, At
  <2>2. TablesGrow
    BY <1>2, <2>1 DEF TablesGrow, sessionVars
  <2>3. RowsAreKnown'
    BY <1>1, <1>2, <2>1 DEF RowsAreKnown, SessionInv, TypeOK, sessionVars
  <2>4. RotatedTokenIsDead'
    BY <1>2, <2>1 DEF RotatedTokenIsDead, SessionInv, sessionVars
  <2> QED BY <1>2, <1>3, <2>2, <2>3, <2>4, OneHandlerMoves DEF Finish
<1>5. CASE Logout(r)
  BY <1>3, <1>5, StepRevokes DEF Logout, RevokeSession, Finish
<1>6. CASE DeleteAnswer(r)
  <2>1. TablesGrow /\ RowsAreKnown' /\ RotatedTokenIsDead'
    BY <1>6 DEF DeleteAnswer, TablesGrow, RowsAreKnown, RotatedTokenIsDead,
                SessionInv, sessionVars
  <2> QED BY <1>2, <1>3, <2>1, OneHandlerMoves DEF Finish
<1>7. CASE Abandon(r)
  BY <1>3, <1>7, StepTablesKept DEF Abandon, Finish
<1> QED BY <1>4, <1>5, <1>6, <1>7

LEMMA SessionInvNext == SessionInv /\ [Next]_vars => SessionInv'
<1> SUFFICES ASSUME SessionInv, [Next]_vars PROVE SessionInv'
  OBVIOUS
<1>1. TypeOK'
  BY NextTypeOK DEF SessionInv
<1>2. CASE \/ PurgeList \/ PurgeFail \/ Tick \/ (\E u \in Users : PurgeMark(u))
           \/ (\E u \in Users, st \in Statuses : UpdateUserStatus(u, st))
           \/ UNCHANGED vars
  <2>1. UNCHANGED <<sessionVars, revoked, clientVars, req>>
    BY <1>2 DEF PurgeList, PurgeFail, Tick, PurgeMark, UpdateUserStatus, vars
  <2>2. TablesGrow /\ RowsAreKnown' /\ RotatedTokenIsDead'
    BY <2>1 DEF TablesGrow, RowsAreKnown, RotatedTokenIsDead, SessionInv,
                sessionVars, clientVars
  <2> QED BY <1>1, <2>1, <2>2, NoHandlerMoves
<1>3. CASE \E r \in Requests, u \in Users : LoginLookup(r, u)
  BY <1>1, <1>3, StepLookup
<1>4. CASE \E r \in Requests, s \in Sessions :
              \/ LoginInsert(r, s) \/ RefreshLookup(r, s) \/ RotateInsert(r, s)
              \/ LogoutBegin(r, s) \/ DeleteCheck(r, s)
  BY <1>1, <1>4, StepLookup, StepCreatesSession
<1>5. CASE \E r \in Requests :
              \/ RotateRevoke(r) \/ AnswerTokens(r) \/ Logout(r) \/ DeleteMark(r)
              \/ IdentityCleanup(r) \/ DeleteSweep(r) \/ DeleteAnswer(r) \/ Abandon(r)
  BY <1>1, <1>5, StepRotateRevoke, StepAnswers, StepDeleteMark, StepDeleteSweep
<1> QED BY <1>2, <1>3, <1>4, <1>5 DEF Next

-----------------------------------------------------------------------------
LEMMA SessionInvariance == Spec => []SessionInv
BY SessionInvInit, SessionInvNext, PTL DEF Spec

(***************************************************************************)
(* Type correctness, for every number of users, sessions and handlers.     *)
(***************************************************************************)
THEOREM TypeCorrect == Spec => []TypeOK
<1>1. SessionInv => TypeOK
  BY DEF SessionInv
<1> QED BY <1>1, SessionInvariance, PTL

(***************************************************************************)
(* No client ever holds a rotated token pair whose first half still works. *)
(***************************************************************************)
THEOREM RotationSafe == Spec => []RotatedTokenIsDead
<1>1. SessionInv => RotatedTokenIsDead
  BY DEF SessionInv
<1> QED BY <1>1, SessionInvariance, PTL

(***************************************************************************)
(* DELETE /v1/me answers after every session that existed at the mark.     *)
(***************************************************************************)
THEOREM SweepBeforeAnswer == Spec => []DeletionAnsweredAfterSweep
<1>1. SessionInv => DeletionAnsweredAfterSweep
  BY DEF SessionInv, LocalsAreKnown, HandlerKnows, DeletionAnsweredAfterSweep
<1> QED BY <1>1, SessionInvariance, PTL

-----------------------------------------------------------------------------
(***************************************************************************)
(* The grace period.  A stored date is written once, lies at most one      *)
(* grace period ahead, is there as soon as an account was marked, and is   *)
(* over for every user on the purge list.                                  *)
(***************************************************************************)
AfterMark == {"delCleanup", "delSweep", "delAnswer"}

GraceInv ==
    /\ \A u \in Users : graceEnds[u] # NoTime => graceEnds[u] <= now + GracePeriod
    /\ \A u \in purging : graceEnds[u] # NoTime /\ graceEnds[u] <= now
    /\ \A r \in Requests : req[r].pc \in AfterMark => graceEnds[req[r].user] # NoTime
    /\ PurgedOnlyAfterGrace
    /\ GraceNotProlonged

LEMMA GraceInvInit == Init => GraceInv
BY DEF Init, GraceInv, AfterMark, Idle, NoTime, PurgedOnlyAfterGrace, GraceNotProlonged

(***************************************************************************)
(* A step that leaves users, promises and the purge list alone, and brings *)
(* no handler behind the mark that was not there for the same user.        *)
(***************************************************************************)
LEMMA GraceUntouched ==
    ASSUME GraceInv, UNCHANGED <<now, userVars, promised, purging>>,
           \A r \in Requests : req'[r].pc \in AfterMark =>
               req[r].pc \in AfterMark /\ req'[r].user = req[r].user
    PROVE  GraceInv'
BY DEF GraceInv, userVars, PurgedOnlyAfterGrace, GraceNotProlonged

LEMMA HandlersBehindMark ==
    ASSUME SessionInv, [Next]_vars, NEW r \in Requests, ~DeleteMark(r),
           req'[r].pc \in AfterMark
    PROVE  req[r].pc \in AfterMark /\ req'[r].user = req[r].user
<1> DEFINE Moved(q, h) == req' = [req EXCEPT ![q] = h]
           Harmless(q, h) == h.pc \in AfterMark =>
                                 req[q].pc \in AfterMark /\ h.user = req[q].user
<1>1. TypeOK /\ \A q \in Requests : req[q] \in Handler
  BY DEF SessionInv, TypeOK
<1>2. ASSUME NEW q \in Requests, NEW h, Moved(q, h), Harmless(q, h)
      PROVE  req[r].pc \in AfterMark /\ req'[r].user = req[r].user
  BY <1>1, <1>2 DEF TypeOK
<1>3. ASSUME NEW q \in Requests, NEW u \in Users, LoginLookup(q, u)
      PROVE  \E h : Moved(q, h) /\ Harmless(q, h)
  <2> DEFINE g == [Idle EXCEPT !.pc = "loginInsert", !.user = u, !.read = status[u]]
  <2>1. Moved(q, g) /\ g.pc \notin AfterMark
    BY <1>3 DEF LoginLookup, Idle, AfterMark
  <2> HIDE DEF g
  <2> QED BY <2>1
<1>4. ASSUME NEW q \in Requests, NEW s \in Sessions, LoginInsert(q, s) \/ RotateInsert(q, s)
      PROVE  \E h : Moved(q, h) /\ Harmless(q, h)
  <2>1. PICK pc : /\ Moved(q, [req[q] EXCEPT !.pc = pc, !.new = s])
                  /\ pc \in {"answer", "rotateRevoke"}
    BY <1>4 DEF LoginInsert, RotateInsert
  <2>2. [req[q] EXCEPT !.pc = pc, !.new = s].pc = pc
    BY <1>1, FieldsKept
  <2> DEFINE g == [req[q] EXCEPT !.pc = pc, !.new = s]
  <2>3. Moved(q, g) /\ g.pc \notin AfterMark
    BY <2>1, <2>2 DEF AfterMark
  <2> HIDE DEF g
  <2> QED BY <2>3
<1>5. ASSUME NEW q \in Requests, NEW s \in Sessions,
             RefreshLookup(q, s) \/ LogoutBegin(q, s) \/ DeleteCheck(q, s)
      PROVE  \E h : Moved(q, h) /\ Harmless(q, h)
  <2>1. CASE RefreshLookup(q, s)
    <3> DEFINE g == [Idle EXCEPT !.pc = "rotateInsert", !.user = owner[s], !.old = s]
    <3>1. Moved(q, g) /\ g.pc \notin AfterMark
      BY <2>1 DEF RefreshLookup, Idle, AfterMark
    <3> HIDE DEF g
    <3> QED BY <3>1
  <2>2. CASE LogoutBegin(q, s)
    <3> DEFINE g == [Idle EXCEPT !.pc = "logout", !.user = owner[s], !.old = s]
    <3>1. Moved(q, g) /\ g.pc \notin AfterMark
      BY <2>2 DEF LogoutBegin, Idle, AfterMark
    <3> HIDE DEF g
    <3> QED BY <3>1
  <2>3. CASE DeleteCheck(q, s)
    <3> DEFINE g == [Idle EXCEPT !.pc = "delMark", !.old = s, !.user = owner[s],
                                !.read = status[owner[s]]]
    <3>1. Moved(q, g) /\ g.pc \notin AfterMark
      BY <2>3 DEF DeleteCheck, Idle, AfterMark
    <3> HIDE DEF g
    <3> QED BY <3>1
  <2> QED BY <1>5, <2>1, <2>2, <2>3
<1>6. ASSUME NEW q \in Requests, RotateRevoke(q) \/ IdentityCleanup(q) \/ DeleteSweep(q)
      PROVE  \E h : Moved(q, h) /\ Harmless(q, h)
  <2>1. PICK pc : /\ Moved(q, [req[q] EXCEPT !.pc = pc])
                  /\ pc = "answer" \/ req[q].pc \in AfterMark
    BY <1>6 DEF RotateRevoke, IdentityCleanup, DeleteSweep, Goto, At, AfterMark
  <2> DEFINE g == [req[q] EXCEPT !.pc = pc]
  <2>2. Moved(q, g) /\ g.pc = pc /\ g.user = req[q].user
    BY <1>1, <2>1, FieldsKept
  <2> HIDE DEF g
  <2>3. Harmless(q, g)
    BY <2>1, <2>2 DEF AfterMark
  <2> QED BY <2>2, <2>3
<1>7. ASSUME NEW q \in Requests,
             AnswerTokens(q) \/ Logout(q) \/ DeleteAnswer(q) \/ Abandon(q)
      PROVE  \E h : Moved(q, h) /\ Harmless(q, h)
  <2>1. Moved(q, Idle)
    BY <1>7 DEF AnswerTokens, Logout, DeleteAnswer, Abandon, Finish
  <2>2. Harmless(q, Idle)
    BY DEF Idle, AfterMark
  <2> QED BY <2>1, <2>2
<1>8. CASE \E q \in Requests : DeleteMark(q)
  BY <1>1, <1>8 DEF DeleteMark, TypeOK
<1>9. CASE UNCHANGED req
  BY <1>9
<1>10. \/ UNCHANGED req
       \/ \E q \in Requests : DeleteMark(q)
       \/ \E q \in Requests : \E h : Moved(q, h) /\ Harmless(q, h)
  <2> HIDE DEF Moved, Harmless
  <2>1. CASE UNCHANGED vars
    BY <2>1 DEF vars
  <2> QED BY <1>3, <1>4, <1>5, <1>6, <1>7, <2>1
          DEF Next, PurgeList, PurgeMark, PurgeFail, UpdateUserStatus, Tick
<1> HIDE DEF Moved, Harmless
<1> QED BY <1>2, <1>8, <1>9, <1>10

LEMMA GraceInvNext == SessionInv /\ GraceInv /\ [Next]_vars => GraceInv'
<1> SUFFICES ASSUME SessionInv, GraceInv, [Next]_vars PROVE GraceInv'
  OBVIOUS
<1>1. TypeOK /\ TypeOK' /\ AccountsAssumption
  BY NextTypeOK, AccountsAssumption DEF SessionInv
<1>2. ASSUME NEW q \in Requests, DeleteMark(q)
      PROVE  GraceInv'
  <2>1. /\ req[q].user \in Users /\ req'[q].user = req[q].user
        /\ req[q] \in Handler
        /\ \A r \in Requests : r # q => req'[r] = req[r]
    BY <1>1, <1>2, FieldsKept DEF DeleteMark, At, SessionInv, LocalsAreKnown,
                                  HandlerKnows, TypeOK
  <2>2. /\ UNCHANGED <<now, promised, purging>>
        /\ graceEnds'[req[q].user] # NoTime
        /\ \A u \in Users :
              /\ graceEnds[u] # NoTime => graceEnds'[u] = graceEnds[u]
              /\ graceEnds'[u] \in {graceEnds[u], now + GracePeriod}
              /\ status'[u] = "deleted" => status[u] = "deleted"
    BY <1>1, <1>2, <2>1 DEF DeleteMark, MarkUserDeleting, clientVars, TypeOK, Time,
                            NoTime, AccountsAssumption
  <2>3. \A u \in Users : graceEnds'[u] # NoTime => graceEnds'[u] <= now' + GracePeriod
    BY <1>1, <2>2 DEF GraceInv, TypeOK, Time, NoTime, AccountsAssumption
  <2>4. \A u \in purging' : graceEnds'[u] # NoTime /\ graceEnds'[u] <= now'
    BY <1>1, <2>2 DEF GraceInv, TypeOK
  <2>5. \A r \in Requests : req'[r].pc \in AfterMark => graceEnds'[req'[r].user] # NoTime
    <3> TAKE r \in Requests
    <3>1. CASE r = q
      BY <2>1, <2>2, <3>1
    <3>2. CASE r # q
      <4>1. req[r].pc \in AfterMark => req[r].user \in Users
        BY DEF AfterMark, SessionInv, LocalsAreKnown, HandlerKnows, At
      <4> QED BY <2>1, <2>2, <3>2, <4>1 DEF GraceInv
    <3> QED BY <3>1, <3>2
  <2>6. PurgedOnlyAfterGrace' /\ GraceNotProlonged'
    BY <2>2 DEF GraceInv, PurgedOnlyAfterGrace, GraceNotProlonged
  <2> QED BY <2>3, <2>4, <2>5, <2>6 DEF GraceInv
<1>3. ASSUME \A q \in Requests : ~DeleteMark(q)
      PROVE  GraceInv'
  <2>1. \A r \in Requests : req'[r].pc \in AfterMark =>
            req[r].pc \in AfterMark /\ req'[r].user = req[r].user
    BY <1>3, HandlersBehindMark
  <2>2. CASE UNCHANGED <<now, userVars, promised, purging>>
    BY <2>1, <2>2, GraceUntouched
  <2>3. ASSUME NEW q \in Requests, DeleteAnswer(q)
        PROVE  GraceInv'
    <3>1. /\ UNCHANGED <<now, userVars, purging>>
          /\ req[q].user \in Users /\ graceEnds[req[q].user] # NoTime
          /\ promised' = [promised EXCEPT ![req[q].user] = now + GracePeriod]
      BY <2>3 DEF DeleteAnswer, At, AfterMark, GraceInv, SessionInv, LocalsAreKnown,
                  HandlerKnows
    <3>2. GraceNotProlonged'
      BY <1>1, <3>1 DEF GraceInv, GraceNotProlonged, userVars, TypeOK
    <3> QED BY <2>1, <3>1, <3>2 DEF GraceInv, PurgedOnlyAfterGrace, userVars
  <2>4. CASE Tick
    <3>1. now' = now + 1 /\ UNCHANGED <<userVars, promised, purging, req>>
      BY <2>4 DEF Tick, clientVars
    <3> QED BY <1>1, <3>1 DEF GraceInv, PurgedOnlyAfterGrace, GraceNotProlonged,
                              userVars, TypeOK, Time, NoTime, AccountsAssumption
  <2>5. CASE PurgeList \/ PurgeFail
    <3>1. /\ UNCHANGED <<now, userVars, promised, req>>
          /\ \A u \in purging' : graceEnds[u] # NoTime /\ graceEnds[u] <= now
      BY <2>5 DEF PurgeList, PurgeFail, ListUsersPastGracePeriod, clientVars
    <3> QED BY <3>1 DEF GraceInv, PurgedOnlyAfterGrace, GraceNotProlonged, userVars
  <2>6. ASSUME NEW u \in Users, PurgeMark(u)
        PROVE  GraceInv'
    <3>1. /\ UNCHANGED <<now, graceEnds, promised, req>> /\ purging' \subseteq purging
          /\ u \in purging /\ \A v \in Users : v # u => status'[v] = status[v]
      BY <1>1, <2>6 DEF PurgeMark, MarkUserDeleted, clientVars, TypeOK
    <3> QED BY <3>1 DEF GraceInv, PurgedOnlyAfterGrace, GraceNotProlonged
  <2>7. ASSUME NEW u \in Users, NEW st \in Statuses, UpdateUserStatus(u, st)
        PROVE  GraceInv'
    <3>1. /\ UNCHANGED <<now, graceEnds, promised, req, purging>>
          /\ \A v \in Users : status'[v] = "deleted" => status[v] = "deleted"
      BY <1>1, <2>7 DEF UpdateUserStatus, clientVars, TypeOK
    <3> QED BY <3>1 DEF GraceInv, PurgedOnlyAfterGrace, GraceNotProlonged
  <2>8. \/ UNCHANGED <<now, userVars, promised, purging>>
        \/ \E q \in Requests : DeleteAnswer(q)
        \/ Tick \/ PurgeList \/ PurgeFail \/ (\E u \in Users : PurgeMark(u))
        \/ \E u \in Users, st \in Statuses : UpdateUserStatus(u, st)
    BY <1>3 DEF Next, vars, clientVars, LoginLookup, LoginInsert, RefreshLookup,
       RotateInsert, RotateRevoke, AnswerTokens, LogoutBegin, Logout, DeleteCheck,
       IdentityCleanup, DeleteSweep, Abandon
  <2> QED BY <2>2, <2>3, <2>4, <2>5, <2>6, <2>7, <2>8
<1> QED BY <1>2, <1>3

LEMMA GraceInvariance == Spec => []GraceInv
BY SessionInvInit, SessionInvNext, GraceInvInit, GraceInvNext, PTL DEF Spec

(***************************************************************************)
(* The purge never takes an account whose stored grace period is running.  *)
(***************************************************************************)
THEOREM PurgeWaits == Spec => []PurgedOnlyAfterGrace
<1>1. GraceInv => PurgedOnlyAfterGrace
  BY DEF GraceInv
<1> QED BY <1>1, GraceInvariance, PTL

(***************************************************************************)
(* The stored end of the grace period is never later than an announced one.*)
(***************************************************************************)
THEOREM GraceIsFixed == Spec => []GraceNotProlonged
<1>1. GraceInv => GraceNotProlonged
  BY DEF GraceInv
<1> QED BY <1>1, GraceInvariance, PTL
=============================================================================
