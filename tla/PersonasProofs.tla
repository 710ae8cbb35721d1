--------------------------- MODULE PersonasProofs ---------------------------
(***************************************************************************)
(* Proofs about Personas for any number of rows, handlers and any limit.   *)
(* The inductive invariant says what the row locks of the open             *)
(* transactions give: no row is held twice, and a transaction about to     *)
(* commit a default holds its persona, still active, and every flagged     *)
(* row, and is the only one there.                                         *)
(***************************************************************************)
EXTENDS Personas, FiniteSetTheorems, TLAPS

RowsHeldOnce ==
    \A g, h \in Requests : g # h => req[g].rows \intersect req[h].rows = {}

CommitsAreReady ==
    \A h \in Requests : At(h, "commitDefault") =>
        /\ req[h].mine \in req[h].rows \intersect Active
        /\ isDefault \subseteq req[h].rows

OneCommitter ==
    \A g, h \in Requests : At(g, "commitDefault") /\ At(h, "commitDefault") => g = h

PointsAtARow == default \in Personas => status[default] # "absent"

FlagInv ==
    /\ TypeOK
    /\ RowsHeldOnce
    /\ CommitsAreReady
    /\ OneCommitter
    /\ OneDefault
    /\ ArchivedNeverDefault
    /\ PointsAtARow
    /\ ActiveDefaultIsFlagged

-----------------------------------------------------------------------------
(***************************************************************************)
(* What a statement writes into a handler's locals stays typed.            *)
(***************************************************************************)
LEMMA IdleIsTyped == Idle \in Handler
BY DEF Idle, Handler, Locations

LEMMA LocalUpdates ==
    ASSUME NEW h \in Handler, NEW pc \in Locations
    PROVE  /\ [h EXCEPT !.pc = pc] \in Handler
           /\ \A p \in Personas : [h EXCEPT !.pc = pc, !.mine = p] \in Handler
           /\ \A S \in SUBSET Personas :
                 /\ [h EXCEPT !.pc = pc, !.seen = S] \in Handler
                 /\ [h EXCEPT !.pc = pc, !.rows = S] \in Handler
<1> USE DEF Handler
<1>1. [h EXCEPT !.pc = pc] \in Handler
  OBVIOUS
<1>2. ASSUME NEW p \in Personas PROVE [h EXCEPT !.pc = pc, !.mine = p] \in Handler
  OBVIOUS
<1>3. ASSUME NEW S \in SUBSET Personas
      PROVE  /\ [h EXCEPT !.pc = pc, !.seen = S] \in Handler
             /\ [h EXCEPT !.pc = pc, !.rows = S] \in Handler
  OBVIOUS
<1> HIDE DEF Handler
<1> QED BY <1>1, <1>2, <1>3

LEMMA TypeStep == TypeOK /\ CommitsAreReady /\ [Next]_vars => TypeOK'
<1> SUFFICES ASSUME TypeOK, CommitsAreReady, [Next]_vars PROVE TypeOK'
  OBVIOUS
<1> USE DEF TypeOK, tables, At
<1>1. ASSUME NEW h \in Requests, Finish(h) PROVE req' \in [Requests -> Handler]
  BY <1>1, IdleIsTyped DEF Finish
<1>2. ASSUME NEW h \in Requests, Finish(h)
      PROVE  \A g \in Requests : req'[g].pc \notin InTransaction => req'[g].rows = {}
  BY <1>2 DEF Finish, Idle
<1>3. ASSUME NEW h \in Requests, NEW pc \in Locations \ InTransaction, GoTo(h, pc),
             req[h].pc \notin InTransaction
      PROVE  /\ req' \in [Requests -> Handler]
             /\ \A g \in Requests : req'[g].pc \notin InTransaction => req'[g].rows = {}
  <2>1. [req[h] EXCEPT !.pc = pc] \in Handler
    BY LocalUpdates
  <2> QED BY <1>3, <2>1 DEF GoTo, Handler
<1>4. ASSUME NEW h \in Requests, NEW p \in Personas, NEW pc \in Locations \ InTransaction,
             req' = [req EXCEPT ![h].pc = pc, ![h].mine = p],
             req[h].pc \notin InTransaction
      PROVE  /\ req' \in [Requests -> Handler]
             /\ \A g \in Requests : req'[g].pc \notin InTransaction => req'[g].rows = {}
  <2>1. [req[h] EXCEPT !.pc = pc, !.mine = p] \in Handler
    BY LocalUpdates
  <2> QED BY <1>4, <2>1 DEF Handler
<1>5. ASSUME NEW h \in Requests, NEW S \in SUBSET Personas, NEW pc \in InTransaction,
             \/ req' = [req EXCEPT ![h].pc = pc, ![h].seen = S]
             \/ req' = [req EXCEPT ![h].pc = pc, ![h].rows = S]
      PROVE  /\ req' \in [Requests -> Handler]
             /\ \A g \in Requests : req'[g].pc \notin InTransaction => req'[g].rows = {}
  <2>1. /\ [req[h] EXCEPT !.pc = pc, !.seen = S] \in Handler
        /\ [req[h] EXCEPT !.pc = pc, !.rows = S] \in Handler
    BY LocalUpdates DEF Locations
  <2>2. CASE req' = [req EXCEPT ![h].pc = pc, ![h].seen = S]
    BY <2>1, <2>2 DEF Handler
  <2>3. CASE req' = [req EXCEPT ![h].pc = pc, ![h].rows = S]
    BY <2>1, <2>3 DEF Handler
  <2> QED BY <1>5, <2>2, <2>3
<1>6. ASSUME NEW h \in Requests, CountActivePersonas(h) PROVE TypeOK'
  BY <1>6, <1>3 DEF CountActivePersonas, Locations, InTransaction
<1>7. ASSUME NEW h \in Requests, InsertPersona(h) PROVE TypeOK'
  <2>1. PICK p \in Personas :
           /\ status' = [status EXCEPT ![p] = "active"]
           /\ req' = [req EXCEPT ![h].pc = "reload", ![h].mine = p]
    BY <1>7 DEF InsertPersona
  <2> QED BY <1>7, <2>1, <1>4 DEF InsertPersona, Statuses, Locations, InTransaction
<1>8. ASSUME NEW h \in Requests, ReloadProfile(h) PROVE TypeOK'
  BY <1>8, <1>1, <1>2, <1>3 DEF ReloadProfile, Locations, InTransaction
<1>9. ASSUME NEW h \in Requests, NEW p \in Personas, ReadToArchive(h, p) PROVE TypeOK'
  <2>1. CASE p \in isDefault
    BY <1>9, <2>1, <1>4 DEF ReadToArchive, Locations, InTransaction
  <2>2. CASE p \notin isDefault
    BY <1>9, <2>2, <1>4 DEF ReadToArchive, Locations, InTransaction
  <2> QED BY <2>1, <2>2
<1>10. ASSUME NEW h \in Requests, ArchivePersona(h) PROVE TypeOK'
  <2>1. CASE req[h].mine \notin Kept
    BY <1>10, <2>1, <1>1, <1>2 DEF ArchivePersona
  <2>2. CASE req[h].mine \in Kept
    <3>1. /\ status' \in [Personas -> Statuses]
          /\ isDefault' \in SUBSET Personas
          /\ default' = default
      BY <1>10, <2>2 DEF ArchivePersona, Statuses
    <3>2. GoTo(h, "listNext") \/ Finish(h)
      BY <1>10, <2>2 DEF ArchivePersona
    <3>3. /\ req' \in [Requests -> Handler]
          /\ \A g \in Requests : req'[g].pc \notin InTransaction => req'[g].rows = {}
      BY <1>10, <3>2, <1>1, <1>2, <1>3 DEF ArchivePersona, Locations, InTransaction
    <3> QED BY <3>1, <3>3
  <2> QED BY <2>1, <2>2
<1>11. ASSUME NEW h \in Requests, ListNext(h) PROVE TypeOK'
  BY <1>11, <1>3, <1>4 DEF ListNext, Locations, InTransaction
<1>12. ASSUME NEW h \in Requests, ClearDefaultPersona(h) PROVE TypeOK'
  BY <1>12, <1>1, <1>2 DEF ClearDefaultPersona
<1>13. ASSUME NEW h \in Requests, NEW p \in Personas, ReadToSetDefault(h, p) PROVE TypeOK'
  BY <1>13, <1>4 DEF ReadToSetDefault, Locations, InTransaction
<1>14. ASSUME NEW h \in Requests, SnapshotDefault(h) PROVE TypeOK'
  BY <1>14, <1>5 DEF SnapshotDefault, InTransaction
<1>15. ASSUME NEW h \in Requests, ClearDefaultFlag(h) PROVE TypeOK'
  BY <1>15, <1>5 DEF ClearDefaultFlag, InTransaction
<1>16. ASSUME NEW h \in Requests, SetDefaultFlag(h) PROVE TypeOK'
  <2>1. CASE Finish(h)
    BY <1>16, <2>1, <1>1, <1>2 DEF SetDefaultFlag
  <2>2. CASE ~Finish(h)
    <3>1. req[h].rows \union {req[h].mine} \in SUBSET Personas
      BY <1>16, <2>2 DEF SetDefaultFlag, Active, WithStatus, Handler
    <3> QED BY <1>16, <2>2, <3>1, <1>5 DEF SetDefaultFlag, InTransaction
  <2> QED BY <2>1, <2>2
<1>17. ASSUME NEW h \in Requests, CommitDefault(h) PROVE TypeOK'
  BY <1>17, <1>1, <1>2 DEF CommitDefault, CommitsAreReady, Active, WithStatus
<1>18. ASSUME NEW h \in Requests, SnapshotAll(h) PROVE TypeOK'
  BY <1>18, <1>5 DEF SnapshotAll, InTransaction, Kept
<1>19. ASSUME NEW h \in Requests, ArchiveAll(h) PROVE TypeOK'
  BY <1>19, <1>5 DEF ArchiveAll, InTransaction, Kept
<1>20. ASSUME NEW h \in Requests, CommitSweep(h) PROVE TypeOK'
  BY <1>20, <1>1, <1>2 DEF CommitSweep, Statuses
<1>21. ASSUME NEW h \in Requests, Abandon(h) PROVE TypeOK'
  BY <1>21, <1>1, <1>2 DEF Abandon
<1>22. ASSUME NEW p \in Personas, UpdatePersonaStatus(p) PROVE TypeOK'
  BY <1>22 DEF UpdatePersonaStatus, Statuses
<1>23. CASE UNCHANGED vars
  BY <1>23 DEF vars
<1> QED
  BY <1>6, <1>7, <1>8, <1>9, <1>10, <1>11, <1>12, <1>13, <1>14, <1>15, <1>16, <1>17,
     <1>18, <1>19, <1>20, <1>21, <1>22, <1>23 DEF Next

LEMMA TypeInit == Init => TypeOK
BY IdleIsTyped DEF Init, TypeOK, Statuses, Idle

-----------------------------------------------------------------------------
(***************************************************************************)
(* Most statements take no row and do not bring h to its commit.           *)
(***************************************************************************)
TakesNoRow(h) ==
    /\ \A g \in Requests \ {h} : req'[g] = req[g]
    /\ req'[h].rows \subseteq req[h].rows
    /\ req'[h].pc # "commitDefault"

LEMMA FinishTakesNoRow ==
    ASSUME TypeOK, NEW h \in Requests, Finish(h)
    PROVE  TakesNoRow(h)
BY DEF TypeOK, Finish, TakesNoRow, Idle, Handler

LEMMA GoToTakesNoRow ==
    ASSUME TypeOK, NEW h \in Requests, NEW pc \in Locations \ {"commitDefault"}, GoTo(h, pc)
    PROVE  TakesNoRow(h)
BY DEF TypeOK, GoTo, TakesNoRow, Handler

LEMMA MineTakesNoRow ==
    ASSUME TypeOK, NEW h \in Requests, NEW p \in Personas,
           NEW pc \in Locations \ {"commitDefault"},
           req' = [req EXCEPT ![h].pc = pc, ![h].mine = p]
    PROVE  TakesNoRow(h)
BY DEF TypeOK, TakesNoRow, Handler

LEMMA SeenTakesNoRow ==
    ASSUME TypeOK, NEW h \in Requests, NEW S \in SUBSET Personas,
           NEW pc \in Locations \ {"commitDefault"},
           req' = [req EXCEPT ![h].pc = pc, ![h].seen = S]
    PROVE  TakesNoRow(h)
BY DEF TypeOK, TakesNoRow, Handler

LEMMA LocksKept ==
    ASSUME TypeOK, RowsHeldOnce, OneCommitter, NEW h \in Requests, TakesNoRow(h)
    PROVE  /\ RowsHeldOnce'
           /\ OneCommitter'
           /\ \A g \in Requests : At(g, "commitDefault")' =>
                 g # h /\ At(g, "commitDefault") /\ req'[g] = req[g]
<1>1. \A g \in Requests : req'[g].rows \subseteq req[g].rows
  BY DEF TakesNoRow
<1>2. RowsHeldOnce'
  BY <1>1 DEF RowsHeldOnce
<1>3. \A g \in Requests : At(g, "commitDefault")' =>
         g # h /\ At(g, "commitDefault") /\ req'[g] = req[g]
  BY DEF TakesNoRow, At
<1>4. OneCommitter'
  BY <1>3 DEF OneCommitter
<1> QED BY <1>2, <1>3, <1>4

(***************************************************************************)
(* Statements that take no row and write no table keep the invariant.      *)
(***************************************************************************)
LEMMA QuietStep ==
    ASSUME FlagInv, TypeOK', NEW h \in Requests, TakesNoRow(h), UNCHANGED tables
    PROVE  FlagInv'
<1> USE DEF FlagInv
<1>1. /\ RowsHeldOnce' /\ OneCommitter'
      /\ \A g \in Requests : At(g, "commitDefault")' =>
            g # h /\ At(g, "commitDefault") /\ req'[g] = req[g]
  BY LocksKept
<1>2. CommitsAreReady'
  BY <1>1 DEF CommitsAreReady, tables, Active, WithStatus
<1>3. OneDefault' /\ ArchivedNeverDefault' /\ PointsAtARow' /\ ActiveDefaultIsFlagged'
  BY DEF OneDefault, ArchivedNeverDefault, PointsAtARow, ActiveDefaultIsFlagged,
         tables, Active, WithStatus
<1> QED BY <1>1, <1>2, <1>3

LEMMA QuietSteps ==
    ASSUME FlagInv, TypeOK', NEW h \in Requests,
           \/ CountActivePersonas(h) \/ ReloadProfile(h) \/ ListNext(h)
           \/ SnapshotDefault(h) \/ SnapshotAll(h) \/ Abandon(h)
           \/ \E p \in Personas : ReadToArchive(h, p) \/ ReadToSetDefault(h, p)
    PROVE  FlagInv'
<1> USE DEF FlagInv
<1>1. UNCHANGED tables
  BY DEF CountActivePersonas, ReloadProfile, ListNext, SnapshotDefault, SnapshotAll,
         Abandon, ReadToArchive, ReadToSetDefault
<1>2. SUFFICES TakesNoRow(h)
  BY <1>1, QuietStep
<1>3. CASE CountActivePersonas(h) \/ ReloadProfile(h) \/ Abandon(h)
  BY <1>3, FinishTakesNoRow, GoToTakesNoRow
     DEF CountActivePersonas, ReloadProfile, Abandon, Locations
<1>4. CASE ListNext(h)
  BY <1>4, GoToTakesNoRow, MineTakesNoRow DEF ListNext, Locations
<1>5. CASE SnapshotDefault(h) \/ SnapshotAll(h)
  <2>1. isDefault \in SUBSET Personas /\ Kept \in SUBSET Personas
    BY DEF TypeOK, Kept
  <2>2. "clear" \in Locations \ {"commitDefault"} /\ "sweep" \in Locations \ {"commitDefault"}
    BY DEF Locations, InTransaction
  <2> QED BY <1>5, <2>1, <2>2, SeenTakesNoRow DEF SnapshotDefault, SnapshotAll
<1>6. ASSUME NEW p \in Personas, ReadToArchive(h, p) \/ ReadToSetDefault(h, p)
      PROVE  TakesNoRow(h)
  BY <1>6, MineTakesNoRow DEF ReadToArchive, ReadToSetDefault, Locations
<1> QED BY <1>3, <1>4, <1>5, <1>6

-----------------------------------------------------------------------------
(***************************************************************************)
(* Statements that write a table and take no row.                          *)
(***************************************************************************)
LEMMA InsertStep ==
    ASSUME FlagInv, TypeOK', NEW h \in Requests, InsertPersona(h)
    PROVE  FlagInv'
<1> USE DEF FlagInv
<1>1. PICK p \in Personas :
         /\ status[p] = "absent"
         /\ status' = [status EXCEPT ![p] = "active"]
         /\ req' = [req EXCEPT ![h].pc = "reload", ![h].mine = p]
  BY DEF InsertPersona, FirstOf, WithStatus
<1>2. TakesNoRow(h)
  <2>1. "reload" \in Locations \ {"commitDefault"}
    BY DEF Locations
  <2> QED BY <1>1, <2>1, MineTakesNoRow
<1>3. /\ RowsHeldOnce' /\ OneCommitter'
      /\ \A g \in Requests : At(g, "commitDefault")' =>
            g # h /\ At(g, "commitDefault") /\ req'[g] = req[g]
  BY <1>2, LocksKept
<1>4. isDefault' = isDefault /\ default' = default
  BY DEF InsertPersona
<1>5. Active' = Active \union {p}
  BY <1>1 DEF Active, WithStatus, TypeOK
<1>6. CommitsAreReady'
  BY <1>3, <1>4, <1>5 DEF CommitsAreReady
<1>7. ArchivedNeverDefault'
  BY <1>1, <1>4 DEF ArchivedNeverDefault, WithStatus, TypeOK
<1>8. PointsAtARow' /\ ActiveDefaultIsFlagged'
  BY <1>1, <1>4, <1>5 DEF PointsAtARow, ActiveDefaultIsFlagged, TypeOK
<1> QED BY <1>3, <1>4, <1>6, <1>7, <1>8 DEF OneDefault

LEMMA ArchiveStep ==
    ASSUME FlagInv, TypeOK', NEW h \in Requests, ArchivePersona(h)
    PROVE  FlagInv'
<1> USE DEF FlagInv
<1>1. TakesNoRow(h)
  <2>1. "listNext" \in Locations \ {"commitDefault"}
    BY DEF Locations
  <2>2. Finish(h) \/ GoTo(h, "listNext")
    BY DEF ArchivePersona
  <2> QED BY <2>1, <2>2, FinishTakesNoRow, GoToTakesNoRow
<1>2. CASE req[h].mine \notin Kept
  BY <1>1, <1>2, QuietStep DEF ArchivePersona
<1>3. CASE req[h].mine \in Kept
  <2> DEFINE p == req[h].mine
  <2>1. /\ p \in Personas
        /\ p \notin HeldByOthers(h)
        /\ status' = [status EXCEPT ![p] = "archived"]
        /\ isDefault' = isDefault \ {p}
        /\ default' = default
    BY <1>3 DEF ArchivePersona, Kept
  <2>2. /\ RowsHeldOnce' /\ OneCommitter'
        /\ \A g \in Requests : At(g, "commitDefault")' =>
              g # h /\ At(g, "commitDefault") /\ req'[g] = req[g]
    BY <1>1, LocksKept
  <2>3. \A g \in Requests : g # h => p \notin req[g].rows
    BY <2>1 DEF HeldByOthers
  <2> HIDE DEF p
  <2>4. Active' = Active \ {p}
    BY <2>1 DEF Active, WithStatus, TypeOK
  <2>5. CommitsAreReady'
    <3> SUFFICES ASSUME NEW g \in Requests, At(g, "commitDefault")'
                 PROVE  /\ req'[g].mine \in req'[g].rows \intersect Active'
                        /\ isDefault' \subseteq req'[g].rows
      BY DEF CommitsAreReady
    <3> QED BY <2>1, <2>2, <2>3, <2>4 DEF CommitsAreReady
  <2>6. ArchivedNeverDefault'
    BY <2>1 DEF ArchivedNeverDefault, WithStatus, TypeOK
  <2>7. PointsAtARow' /\ ActiveDefaultIsFlagged'
    BY <2>1, <2>4 DEF PointsAtARow, ActiveDefaultIsFlagged, TypeOK
  <2> QED BY <2>1, <2>2, <2>5, <2>6, <2>7 DEF OneDefault
<1> QED BY <1>2, <1>3

LEMMA ClearUserStep ==
    ASSUME FlagInv, TypeOK', NEW h \in Requests, ClearDefaultPersona(h)
    PROVE  FlagInv'
<1> USE DEF FlagInv
<1>1. /\ RowsHeldOnce' /\ OneCommitter'
      /\ \A g \in Requests : At(g, "commitDefault")' =>
            g # h /\ At(g, "commitDefault") /\ req'[g] = req[g]
  BY FinishTakesNoRow, LocksKept DEF ClearDefaultPersona
<1>2. status' = status /\ isDefault' = isDefault /\ default' = None
  BY DEF ClearDefaultPersona
<1>3. Active' = Active /\ None \notin Active
  BY <1>2, PersonasAssumption DEF Active, WithStatus
<1>4. CommitsAreReady'
  BY <1>1, <1>2, <1>3 DEF CommitsAreReady
<1> QED
  BY <1>1, <1>2, <1>3, <1>4, PersonasAssumption
     DEF OneDefault, ArchivedNeverDefault, PointsAtARow, ActiveDefaultIsFlagged, WithStatus

LEMMA CommitDefaultStep ==
    ASSUME FlagInv, TypeOK', NEW h \in Requests, CommitDefault(h)
    PROVE  FlagInv' /\ default' \in Active' /\ isDefault' = {default'}
<1> USE DEF FlagInv
<1>1. /\ RowsHeldOnce' /\ OneCommitter'
      /\ \A g \in Requests : At(g, "commitDefault")' => g # h /\ At(g, "commitDefault")
  BY FinishTakesNoRow, LocksKept DEF CommitDefault
<1>2. At(h, "commitDefault")
  BY DEF CommitDefault
<1>3. req[h].mine \in Active /\ isDefault \subseteq req[h].rows
  BY <1>2 DEF CommitsAreReady
<1>4. default' = req[h].mine /\ isDefault' = {req[h].mine} /\ status' = status
  BY <1>3 DEF CommitDefault
<1>5. Active' = Active
  BY <1>4 DEF Active, WithStatus
<1>6. CommitsAreReady'
  BY <1>1, <1>2 DEF CommitsAreReady, OneCommitter
<1> QED
  BY <1>1, <1>3, <1>4, <1>5, <1>6
     DEF OneDefault, ArchivedNeverDefault, PointsAtARow, ActiveDefaultIsFlagged,
         Active, WithStatus

LEMMA SweepStep ==
    ASSUME FlagInv, TypeOK', NEW h \in Requests, CommitSweep(h)
    PROVE  FlagInv'
<1> USE DEF FlagInv
<1>1. /\ RowsHeldOnce' /\ OneCommitter'
      /\ \A g \in Requests : At(g, "commitDefault")' =>
            g # h /\ At(g, "commitDefault") /\ req'[g] = req[g]
  BY FinishTakesNoRow, LocksKept DEF CommitSweep
<1>2. /\ status' = [p \in Personas |-> IF p \in req[h].rows THEN "archived" ELSE status[p]]
      /\ isDefault' = isDefault \ req[h].rows
      /\ default' = None
  BY DEF CommitSweep
<1>3. Active' = Active \ req[h].rows /\ None \notin Active'
  BY <1>2, PersonasAssumption DEF Active, WithStatus
<1>4. CommitsAreReady'
  <2> SUFFICES ASSUME NEW g \in Requests, At(g, "commitDefault")'
               PROVE  /\ req'[g].mine \in req'[g].rows \intersect Active'
                      /\ isDefault' \subseteq req'[g].rows
    BY DEF CommitsAreReady
  <2>1. req[g].rows \intersect req[h].rows = {}
    BY <1>1 DEF RowsHeldOnce
  <2> QED BY <1>1, <1>2, <1>3, <2>1 DEF CommitsAreReady
<1>5. ArchivedNeverDefault'
  BY <1>2 DEF ArchivedNeverDefault, WithStatus, TypeOK
<1> QED
  BY <1>1, <1>2, <1>3, <1>4, <1>5, PersonasAssumption
     DEF OneDefault, PointsAtARow, ActiveDefaultIsFlagged

LEMMA RestrictStep ==
    ASSUME FlagInv, TypeOK', NEW p \in Personas, UpdatePersonaStatus(p)
    PROVE  FlagInv'
<1> USE DEF FlagInv
<1>1. /\ status[p] # "absent"
      /\ \A h \in Requests : p \notin req[h].rows
      /\ status' = [status EXCEPT ![p] = "restricted"]
      /\ isDefault' = isDefault /\ default' = default /\ req' = req
  BY DEF UpdatePersonaStatus
<1>2. Active' = Active \ {p}
  BY <1>1 DEF Active, WithStatus, TypeOK
<1>3. RowsHeldOnce' /\ OneCommitter' /\ CommitsAreReady'
  BY <1>1, <1>2 DEF RowsHeldOnce, OneCommitter, CommitsAreReady, At
<1>4. ArchivedNeverDefault'
  BY <1>1 DEF ArchivedNeverDefault, WithStatus, TypeOK
<1>5. PointsAtARow' /\ ActiveDefaultIsFlagged'
  BY <1>1, <1>2 DEF PointsAtARow, ActiveDefaultIsFlagged, TypeOK
<1> QED BY <1>1, <1>3, <1>4, <1>5 DEF OneDefault

-----------------------------------------------------------------------------
(***************************************************************************)
(* Statements inside a transaction: they take rows nobody else holds.      *)
(***************************************************************************)
TakesRows(h, S) ==
    /\ \A g \in Requests \ {h} : req'[g] = req[g]
    /\ req'[h].rows = S
    /\ \A g \in Requests \ {h} : S \intersect req[g].rows = {}

LEMMA TakenOnce ==
    ASSUME TypeOK, RowsHeldOnce, NEW h \in Requests, NEW S \in SUBSET Personas, TakesRows(h, S)
    PROVE  RowsHeldOnce'
<1> SUFFICES ASSUME NEW g \in Requests, NEW k \in Requests, g # k
             PROVE  req'[g].rows \intersect req'[k].rows = {}
  BY DEF RowsHeldOnce
<1>1. CASE g # h /\ k # h
  BY <1>1 DEF TakesRows, RowsHeldOnce
<1>2. CASE g = h
  BY <1>2 DEF TakesRows
<1>3. CASE k = h
  BY <1>3 DEF TakesRows
<1> QED BY <1>1, <1>2, <1>3

LEMMA LockStep ==
    ASSUME FlagInv, TypeOK', NEW h \in Requests, ClearDefaultFlag(h) \/ ArchiveAll(h)
    PROVE  FlagInv'
<1> USE DEF FlagInv
<1>1. UNCHANGED tables
  BY DEF ClearDefaultFlag, ArchiveAll
<1>2. PICK S \in SUBSET Personas, pc \in {"set", "commitSweep"} :
         /\ req' = [req EXCEPT ![h].pc = pc, ![h].rows = S]
         /\ S \intersect HeldByOthers(h) = {}
  <2>1. CASE ClearDefaultFlag(h)
    <3>1. req[h].seen \intersect isDefault \in SUBSET Personas
      BY DEF TypeOK
    <3>2. /\ req' = [req EXCEPT ![h].pc = "set", ![h].rows = req[h].seen \intersect isDefault]
          /\ (req[h].seen \intersect isDefault) \intersect HeldByOthers(h) = {}
      BY <2>1 DEF ClearDefaultFlag
    <3> QED BY <3>1, <3>2
  <2>2. CASE ArchiveAll(h)
    <3>1. req[h].seen \intersect Kept \in SUBSET Personas
      BY DEF Kept
    <3>2. /\ req' = [req EXCEPT ![h].pc = "commitSweep", ![h].rows = req[h].seen \intersect Kept]
          /\ (req[h].seen \intersect Kept) \intersect HeldByOthers(h) = {}
      BY <2>2 DEF ArchiveAll
    <3> QED BY <3>1, <3>2
  <2> QED BY <2>1, <2>2
<1>3. TakesRows(h, S) /\ req'[h].pc # "commitDefault"
  BY <1>2 DEF TakesRows, HeldByOthers, TypeOK, Handler
<1>4. RowsHeldOnce'
  BY <1>3, TakenOnce
<1>5. \A g \in Requests : At(g, "commitDefault")' =>
         g # h /\ At(g, "commitDefault") /\ req'[g] = req[g]
  BY <1>3 DEF TakesRows, At
<1>6. OneCommitter' /\ CommitsAreReady'
  BY <1>1, <1>5 DEF OneCommitter, CommitsAreReady, tables, Active, WithStatus
<1> QED
  BY <1>1, <1>4, <1>6
     DEF OneDefault, ArchivedNeverDefault, PointsAtARow, ActiveDefaultIsFlagged,
         tables, Active, WithStatus

(***************************************************************************)
(* The unique index: whoever gets past it is alone, and holds every flag.  *)
(***************************************************************************)
LEMMA SetStep ==
    ASSUME FlagInv, TypeOK', NEW h \in Requests, SetDefaultFlag(h)
    PROVE  FlagInv'
<1> USE DEF FlagInv
<1>1. UNCHANGED tables
  BY DEF SetDefaultFlag
<1>2. CASE Finish(h)
  BY <1>1, <1>2, FinishTakesNoRow, QuietStep
<1>3. CASE ~Finish(h)
  <2> DEFINE S == req[h].rows \union {req[h].mine}
  <2>1. /\ req[h].mine \in Active
        /\ isDefault \subseteq S
        /\ \A g \in Requests \ {h} : ~At(g, "commitDefault")
        /\ req' = [req EXCEPT ![h].pc = "commitDefault", ![h].rows = S]
    BY <1>3 DEF SetDefaultFlag, IndexBusy, Flagged
  <2>2. req[h].mine \notin HeldByOthers(h)
    BY DEF SetDefaultFlag
  <2>3. S \in SUBSET Personas
    BY <2>1 DEF TypeOK, Handler, Active, WithStatus
  <2>4. \A g \in Requests \ {h} : S \intersect req[g].rows = {}
    BY <2>2 DEF HeldByOthers, RowsHeldOnce
  <2>5. req[h].mine \in S
    OBVIOUS
  <2> HIDE DEF S
  <2>6. /\ TakesRows(h, S)
        /\ req'[h].mine = req[h].mine
        /\ \A g \in Requests : At(g, "commitDefault")' => g = h
    BY <2>1, <2>4 DEF TakesRows, TypeOK, Handler, At
  <2>7. RowsHeldOnce'
    BY <2>3, <2>6, TakenOnce
  <2>8. OneCommitter' /\ CommitsAreReady'
    BY <1>1, <2>1, <2>5, <2>6
       DEF OneCommitter, CommitsAreReady, TakesRows, tables, Active, WithStatus
  <2> QED
    BY <1>1, <2>7, <2>8
       DEF OneDefault, ArchivedNeverDefault, PointsAtARow, ActiveDefaultIsFlagged,
           tables, Active, WithStatus
<1> QED BY <1>2, <1>3

-----------------------------------------------------------------------------
LEMMA FlagInit == Init => FlagInv
BY TypeInit, PersonasAssumption
   DEF Init, FlagInv, Idle, At, RowsHeldOnce, CommitsAreReady, OneCommitter, OneDefault,
       ArchivedNeverDefault, PointsAtARow, ActiveDefaultIsFlagged, Active, WithStatus

LEMMA FlagStep == FlagInv /\ [Next]_vars => FlagInv'
<1> SUFFICES ASSUME FlagInv, [Next]_vars PROVE FlagInv'
  OBVIOUS
<1>1. TypeOK'
  BY TypeStep DEF FlagInv
<1>2. ASSUME NEW h \in Requests, NEW p \in Personas,
             ReadToArchive(h, p) \/ ReadToSetDefault(h, p)
      PROVE  FlagInv'
  BY <1>1, <1>2, QuietSteps
<1>3. ASSUME UNCHANGED vars PROVE FlagInv'
  BY <1>3
     DEF vars, tables, FlagInv, TypeOK, RowsHeldOnce, CommitsAreReady, OneCommitter,
         OneDefault, ArchivedNeverDefault, PointsAtARow, ActiveDefaultIsFlagged,
         At, Active, WithStatus
<1> QED
  BY <1>1, <1>2, <1>3, QuietSteps, InsertStep, ArchiveStep, ClearUserStep, CommitDefaultStep,
     SweepStep, RestrictStep, LockStep, SetStep DEF Next

(***************************************************************************)
(* Every reachable state is well typed, and no handler outside a           *)
(* transaction holds a row.                                                *)
(***************************************************************************)
THEOREM TypeCorrect == Spec => []TypeOK
<1>1. FlagInv => TypeOK
  BY DEF FlagInv
<1> QED BY <1>1, FlagInit, FlagStep, PTL DEF Spec

(***************************************************************************)
(* At most one persona is flagged as the default, for any number of        *)
(* requests that move the flag at once.                                    *)
(***************************************************************************)
THEOREM SingleDefault == Spec => []OneDefault
<1>1. FlagInv => OneDefault
  BY DEF FlagInv
<1> QED BY <1>1, FlagInit, FlagStep, PTL DEF Spec

(***************************************************************************)
(* An archived persona is never flagged.                                   *)
(***************************************************************************)
THEOREM ArchivedUnflagged == Spec => []ArchivedNeverDefault
<1>1. FlagInv => ArchivedNeverDefault
  BY DEF FlagInv
<1> QED BY <1>1, FlagInit, FlagStep, PTL DEF Spec

(***************************************************************************)
(* users.default_persona_id and is_default agree about an active persona.  *)
(***************************************************************************)
THEOREM DefaultsAgree == Spec => []ActiveDefaultIsFlagged
<1>1. FlagInv => ActiveDefaultIsFlagged
  BY DEF FlagInv
<1> QED BY <1>1, FlagInit, FlagStep, PTL DEF Spec

(***************************************************************************)
(* A new default is active when it is chosen and the only one flagged.     *)
(***************************************************************************)
THEOREM ChosenActive == Spec => DefaultChosenActive
<1>1. ASSUME FlagInv, [Next]_vars, default' \notin {default, None}
      PROVE  default' \in Active' /\ isDefault' = {default'}
  <2>1. PICK h \in Requests : CommitDefault(h)
    BY <1>1
       DEF Next, vars, tables, CountActivePersonas, InsertPersona, ReloadProfile,
           ReadToArchive, ArchivePersona, ListNext, ClearDefaultPersona, ReadToSetDefault,
           SnapshotDefault, ClearDefaultFlag, SetDefaultFlag, SnapshotAll, ArchiveAll,
           CommitSweep, Abandon, UpdatePersonaStatus
  <2>2. TypeOK'
    BY <1>1, TypeStep DEF FlagInv
  <2> QED BY <1>1, <2>1, <2>2, CommitDefaultStep
<1>2. FlagInv /\ [Next]_vars =>
         [default' \notin {default, None} => default' \in Active' /\ isDefault' = {default'}]_vars
  BY <1>1
<1> QED BY <1>2, FlagInit, FlagStep, PTL DEF Spec, DefaultChosenActive

-----------------------------------------------------------------------------
(***************************************************************************)
(* The limit: each request that passed the count and has not inserted yet  *)
(* stands for one persona to come.                                         *)
(***************************************************************************)
Inserting == {h \in Requests : At(h, "insert")}

CountInv ==
    /\ IsFiniteSet(Active)
    /\ Cardinality(Active) + Cardinality(Inserting) <= MaxActive - 1 + Cardinality(Requests)

LEMMA SmallerSet ==
    ASSUME NEW S, IsFiniteSet(S), NEW T \in SUBSET S
    PROVE  /\ IsFiniteSet(T)
           /\ Cardinality(T) \in Nat /\ Cardinality(S) \in Nat
           /\ Cardinality(T) <= Cardinality(S)
BY FS_Subset, FS_CardinalityType

LEMMA OneMore ==
    ASSUME NEW S, IsFiniteSet(S), NEW x, x \notin S
    PROVE  /\ IsFiniteSet(S \union {x})
           /\ Cardinality(S) \in Nat
           /\ Cardinality(S \union {x}) = Cardinality(S) + 1
BY FS_AddElement, FS_CardinalityType

LEMMA InsertingFinite ==
    /\ IsFiniteSet(Inserting)
    /\ Cardinality(Inserting) \in Nat
    /\ Cardinality(Requests) \in Nat
    /\ Cardinality(Inserting) <= Cardinality(Requests)
<1>1. Inserting \in SUBSET Requests
  BY DEF Inserting
<1> QED BY <1>1, SmallerSet, PersonasAssumption

LEMMA ShrinkingStep ==
    ASSUME CountInv, Active' \subseteq Active, Inserting' \subseteq Inserting
    PROVE  CountInv'
<1>1. /\ IsFiniteSet(Active')
      /\ Cardinality(Active') \in Nat /\ Cardinality(Active) \in Nat
      /\ Cardinality(Active') <= Cardinality(Active)
  BY SmallerSet DEF CountInv
<1>2. /\ Cardinality(Inserting') \in Nat /\ Cardinality(Inserting) \in Nat
      /\ Cardinality(Inserting') <= Cardinality(Inserting)
  BY InsertingFinite, SmallerSet
<1>3. Cardinality(Requests)' = Cardinality(Requests) /\ Cardinality(Requests) \in Nat
  BY InsertingFinite
<1> QED BY <1>1, <1>2, <1>3, PersonasAssumption DEF CountInv

LEMMA CountStep ==
    ASSUME TypeOK, CountInv, NEW h \in Requests, CountActivePersonas(h)
    PROVE  CountInv'
<1>1. Active' = Active /\ Cardinality(Active) < MaxActive
  BY DEF CountActivePersonas, tables, Active, WithStatus
<1>2. Cardinality(Active) \in Nat
  BY FS_CardinalityType DEF CountInv
<1>3. /\ Cardinality(Inserting') \in Nat
      /\ Cardinality(Requests) \in Nat
      /\ Cardinality(Inserting') <= Cardinality(Requests)
  <2>1. Inserting' \in SUBSET Requests
    BY DEF Inserting
  <2> QED BY <2>1, SmallerSet, PersonasAssumption
<1> QED BY <1>1, <1>2, <1>3, PersonasAssumption DEF CountInv

LEMMA CountedInsert ==
    ASSUME TypeOK, CountInv, NEW h \in Requests, InsertPersona(h)
    PROVE  CountInv'
<1>1. PICK p \in Personas :
         /\ status[p] = "absent"
         /\ status' = [status EXCEPT ![p] = "active"]
         /\ req' = [req EXCEPT ![h].pc = "reload", ![h].mine = p]
  BY DEF InsertPersona, FirstOf, WithStatus
<1>2. Active' = Active \union {p} /\ p \notin Active
  BY <1>1 DEF Active, WithStatus, TypeOK
<1>3. /\ IsFiniteSet(Active')
      /\ Cardinality(Active) \in Nat
      /\ Cardinality(Active') = Cardinality(Active) + 1
  BY <1>2, OneMore DEF CountInv
<1>4. h \notin Inserting' /\ Inserting = Inserting' \union {h}
  BY <1>1 DEF InsertPersona, Inserting, At, TypeOK, Handler
<1>5. IsFiniteSet(Inserting')
  <2>1. Inserting' \in SUBSET Requests
    BY DEF Inserting
  <2> QED BY <2>1, SmallerSet, PersonasAssumption
<1>6. /\ Cardinality(Inserting') \in Nat
      /\ Cardinality(Inserting) = Cardinality(Inserting') + 1
  BY <1>4, <1>5, OneMore
<1>7. Cardinality(Requests) \in Nat
  BY InsertingFinite
<1> QED BY <1>3, <1>6, <1>7, PersonasAssumption DEF CountInv

LEMMA Moves ==
    ASSUME TypeOK, NEW h \in Requests, ~Finish(h),
           \/ ReloadProfile(h) \/ ListNext(h) \/ SnapshotDefault(h) \/ ClearDefaultFlag(h)
           \/ SetDefaultFlag(h) \/ SnapshotAll(h) \/ ArchiveAll(h) \/ Abandon(h)
           \/ \E p \in Personas : ReadToArchive(h, p) \/ ReadToSetDefault(h, p)
    PROVE  /\ \A g \in Requests \ {h} : req'[g] = req[g]
           /\ req'[h].pc # "insert"
<1> USE DEF TypeOK, Handler, GoTo
<1>1. CASE ReloadProfile(h) \/ ListNext(h) \/ Abandon(h)
  BY <1>1 DEF ReloadProfile, ListNext, Abandon
<1>2. CASE SnapshotDefault(h) \/ ClearDefaultFlag(h) \/ SetDefaultFlag(h)
  BY <1>2 DEF SnapshotDefault, ClearDefaultFlag, SetDefaultFlag
<1>3. CASE SnapshotAll(h) \/ ArchiveAll(h)
  BY <1>3 DEF SnapshotAll, ArchiveAll
<1>4. ASSUME NEW p \in Personas, ReadToArchive(h, p) \/ ReadToSetDefault(h, p)
      PROVE  /\ \A g \in Requests \ {h} : req'[g] = req[g]
             /\ req'[h].pc # "insert"
  BY <1>4 DEF ReadToArchive, ReadToSetDefault
<1> QED BY <1>1, <1>2, <1>3, <1>4

LEMMA LimitStep == FlagInv /\ CountInv /\ [Next]_vars => CountInv'
<1> SUFFICES ASSUME FlagInv, CountInv, [Next]_vars PROVE CountInv'
  OBVIOUS
<1> USE DEF FlagInv
<1>1. ASSUME NEW h \in Requests, Finish(h) \/ \E pc \in Locations \ {"insert"} : GoTo(h, pc)
      PROVE  Inserting' \subseteq Inserting
  <2>1. CASE Finish(h)
    BY <2>1 DEF Inserting, At, Finish, Idle, TypeOK
  <2>2. ASSUME NEW pc \in Locations \ {"insert"}, GoTo(h, pc)
        PROVE  Inserting' \subseteq Inserting
    BY <2>2 DEF Inserting, At, GoTo, TypeOK, Handler
  <2> QED BY <1>1, <2>1, <2>2
<1>2. ASSUME UNCHANGED tables PROVE Active' \subseteq Active
  BY <1>2 DEF tables, Active, WithStatus
<1>3. ASSUME NEW h \in Requests,
             \/ ReloadProfile(h) \/ ListNext(h) \/ SnapshotDefault(h) \/ ClearDefaultFlag(h)
             \/ SetDefaultFlag(h) \/ SnapshotAll(h) \/ ArchiveAll(h) \/ Abandon(h)
             \/ \E p \in Personas : ReadToArchive(h, p) \/ ReadToSetDefault(h, p)
      PROVE  CountInv'
  <2>1. UNCHANGED tables
    BY <1>3 DEF ReloadProfile, ListNext, SnapshotDefault, ClearDefaultFlag, SetDefaultFlag,
                SnapshotAll, ArchiveAll, Abandon, ReadToArchive, ReadToSetDefault
  <2>2. CASE Finish(h)
    BY <1>1, <1>2, <2>1, <2>2, ShrinkingStep
  <2>3. CASE ~Finish(h)
    <3>1. Inserting' \subseteq Inserting
      <4>1. /\ \A g \in Requests \ {h} : req'[g] = req[g]
            /\ req'[h].pc # "insert"
        BY <1>3, <2>3, Moves
      <4> QED BY <4>1 DEF Inserting, At
    <3> QED BY <1>2, <2>1, <3>1, ShrinkingStep
  <2> QED BY <2>2, <2>3
<1>4. ASSUME NEW h \in Requests, ArchivePersona(h) PROVE CountInv'
  <2>1. Finish(h) \/ GoTo(h, "listNext")
    BY <1>4 DEF ArchivePersona
  <2>2. Inserting' \subseteq Inserting
    BY <1>1, <2>1 DEF Locations
  <2>3. Active' \subseteq Active
    BY <1>4 DEF ArchivePersona, tables, Active, WithStatus, TypeOK
  <2> QED BY <2>2, <2>3, ShrinkingStep
<1>5. ASSUME NEW h \in Requests, ClearDefaultPersona(h) \/ CommitDefault(h) PROVE CountInv'
  <2>1. Active' \subseteq Active
    BY <1>5 DEF ClearDefaultPersona, CommitDefault, Active, WithStatus
  <2>2. Inserting' \subseteq Inserting
    BY <1>1, <1>5 DEF ClearDefaultPersona, CommitDefault
  <2> QED BY <2>1, <2>2, ShrinkingStep
<1>6. ASSUME NEW h \in Requests, CommitSweep(h) PROVE CountInv'
  <2>1. Active' \subseteq Active
    BY <1>6 DEF CommitSweep, Active, WithStatus
  <2>2. Inserting' \subseteq Inserting
    BY <1>1, <1>6 DEF CommitSweep
  <2> QED BY <2>1, <2>2, ShrinkingStep
<1>7. ASSUME NEW p \in Personas, UpdatePersonaStatus(p) PROVE CountInv'
  <2>1. Active' \subseteq Active
    BY <1>7 DEF UpdatePersonaStatus, Active, WithStatus, TypeOK
  <2>2. Inserting' \subseteq Inserting
    BY <1>7 DEF UpdatePersonaStatus, Inserting, At
  <2> QED BY <2>1, <2>2, ShrinkingStep
<1>8. ASSUME UNCHANGED vars PROVE CountInv'
  <2>1. Active' \subseteq Active /\ Inserting' \subseteq Inserting
    BY <1>8 DEF vars, tables, Active, WithStatus, Inserting, At
  <2> QED BY <2>1, ShrinkingStep
<1> QED
  BY <1>3, <1>4, <1>5, <1>6, <1>7, <1>8, CountStep, CountedInsert DEF Next

LEMMA LimitInit == Init => CountInv
<1> SUFFICES ASSUME Init PROVE CountInv
  OBVIOUS
<1>1. Active = {} /\ Inserting = {}
  BY DEF Init, Active, WithStatus, Inserting, At, Idle
<1>2. Cardinality({}) = 0 /\ IsFiniteSet({})
  BY FS_EmptySet
<1>3. Cardinality(Requests) \in Nat
  BY InsertingFinite
<1> QED BY <1>1, <1>2, <1>3, PersonasAssumption DEF CountInv

(***************************************************************************)
(* The number of active personas exceeds the limit by fewer than the       *)
(* requests that run at once, whatever else happens.                       *)
(***************************************************************************)
THEOREM OvershootIsBounded == Spec => []OvershootBounded
<1>1. CountInv => OvershootBounded
  <2> SUFFICES ASSUME CountInv PROVE OvershootBounded
    OBVIOUS
  <2>1. Cardinality(Active) \in Nat
    BY FS_CardinalityType DEF CountInv
  <2> QED BY <2>1, InsertingFinite, PersonasAssumption DEF CountInv, OvershootBounded
<1> QED BY <1>1, FlagInit, FlagStep, LimitInit, LimitStep, PTL DEF Spec
=============================================================================
