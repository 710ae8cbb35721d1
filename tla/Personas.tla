------------------------------ MODULE Personas ------------------------------
(***************************************************************************)
(* The personas of one real profile (services/api/internal/identity): the  *)
(* rows of personas that it owns and users.default_persona_id.             *)
(*                                                                         *)
(* CreatePersona, ArchivePersona and SetDefaultPersona run several         *)
(* statements outside a transaction; the repository's SetDefaultPersona    *)
(* and ArchiveAllPersonasForRealProfile are READ COMMITTED transactions.   *)
(* An UPDATE that matches rows by a condition is two steps: it takes a     *)
(* snapshot of the rows that match, and when no other open transaction     *)
(* holds one of them it locks those that still match; a row that started   *)
(* to match in between is missed.  The unique index on is_default waits    *)
(* for the open transactions that touch a flag and then refuses a second   *)
(* one.  A deadlock victim, a failed statement and a lost connection are   *)
(* Abandon.  Aliases, avatars and note counts do not bear on any of this:  *)
(* a refused alias is an abandoned request.                                *)
(***************************************************************************)
EXTENDS Integers, FiniteSets

CONSTANTS
    Personas,       \* ids of persona rows, in the order of created_at
    Requests,       \* request handlers running at the same time
    MaxActive,      \* maxPersonasPerAccount
    None            \* no persona

ASSUME PersonasAssumption ==
    /\ Personas \subseteq Nat
    /\ IsFiniteSet(Requests)
    /\ MaxActive \in Nat \ {0}
    /\ None \notin Personas

VARIABLES
    status,         \* personas.status; "absent" before the INSERT
    isDefault,      \* the rows whose is_default is true
    default,        \* users.default_persona_id
    req             \* the local state of each request handler

tables == <<status, isDefault, default>>
vars == <<tables, req>>

Statuses == {"absent", "active", "restricted", "archived"}

InTransaction == {"clear", "set", "commitDefault", "sweep", "commitSweep"}

Locations == {"idle", "insert", "reload", "archive", "archiveDefault",
              "listNext", "clearUser", "begin"} \union InTransaction

(***************************************************************************)
(* pc names the statement a handler runs next (archiveDefault: archive a   *)
(* persona that was read as the default), mine the persona it is about,    *)
(* seen the snapshot of an UPDATE, rows the rows its transaction has       *)
(* written and so holds.                                                   *)
(***************************************************************************)
Handler == [pc : Locations, mine : Personas \union {None},
            seen : SUBSET Personas, rows : SUBSET Personas]

Idle == [pc |-> "idle", mine |-> None, seen |-> {}, rows |-> {}]

TypeOK ==
    /\ status \in [Personas -> Statuses]
    /\ isDefault \in SUBSET Personas
    /\ default \in Personas \union {None}
    /\ req \in [Requests -> Handler]
    /\ \A h \in Requests : req[h].pc \notin InTransaction => req[h].rows = {}

Init ==
    /\ status = [p \in Personas |-> "absent"]
    /\ isDefault = {}
    /\ default = None
    /\ req = [h \in Requests |-> Idle]

-----------------------------------------------------------------------------
WithStatus(s) == {p \in Personas : status[p] = s}
Active == WithStatus("active")
Kept == {p \in Personas : status[p] \notin {"absent", "archived"}}

At(h, pc) == req[h].pc = pc
GoTo(h, pc) == req' = [req EXCEPT ![h].pc = pc]
Finish(h) == req' = [req EXCEPT ![h] = Idle]

\* The rows other open transactions have written.
HeldByOthers(h) == UNION {req[g].rows : g \in Requests \ {h}}

\* p is the first of S in the order of created_at.
FirstOf(p, S) == p \in S /\ \A q \in S : p <= q

-----------------------------------------------------------------------------
(***************************************************************************)
(* CreatePersona: count, insert, and make it the default if there is none. *)
(***************************************************************************)
CountUpToMax(h) ==
    /\ At(h, "idle")
    /\ Cardinality(Active) <= MaxActive
    /\ GoTo(h, "insert")
    /\ UNCHANGED tables

CountActivePersonas(h) ==
    /\ At(h, "idle")
    /\ Cardinality(Active) < MaxActive
    /\ GoTo(h, "insert")
    /\ UNCHANGED tables

InsertPersona(h) ==
    /\ At(h, "insert")
    /\ \E p \in Personas :
        /\ FirstOf(p, WithStatus("absent"))
        /\ status' = [status EXCEPT ![p] = "active"]
        /\ req' = [req EXCEPT ![h].pc = "reload", ![h].mine = p]
    /\ UNCHANGED <<isDefault, default>>

ReloadProfile(h) ==
    /\ At(h, "reload")
    /\ IF default = None THEN GoTo(h, "begin") ELSE Finish(h)
    /\ UNCHANGED tables

(***************************************************************************)
(* ArchivePersona, and setNextDefaultPersona when it was the default.      *)
(***************************************************************************)
ReadToArchive(h, p) ==
    /\ At(h, "idle")
    /\ p \in Kept
    /\ req' = [req EXCEPT ![h].pc = IF p \in isDefault THEN "archiveDefault" ELSE "archive",
                          ![h].mine = p]
    /\ UNCHANGED tables

ArchivePersona(h) ==
    /\ At(h, "archive") \/ At(h, "archiveDefault")
    /\ req[h].mine \notin HeldByOthers(h)
    /\ IF req[h].mine \notin Kept
       THEN /\ Finish(h)
            /\ UNCHANGED tables
       ELSE /\ status' = [status EXCEPT ![req[h].mine] = "archived"]
            /\ isDefault' = isDefault \ {req[h].mine}
            /\ IF At(h, "archiveDefault") THEN GoTo(h, "listNext") ELSE Finish(h)
            /\ UNCHANGED default

ListNext(h) ==
    /\ At(h, "listNext")
    /\ \/ Active = {} /\ GoTo(h, "clearUser")
       \/ \E p \in Personas :
            /\ FirstOf(p, Active)
            /\ req' = [req EXCEPT ![h].pc = "begin", ![h].mine = p]
    /\ UNCHANGED tables

ClearDefaultPersona(h) ==
    /\ At(h, "clearUser")
    /\ default' = None
    /\ Finish(h)
    /\ UNCHANGED <<status, isDefault>>

(***************************************************************************)
(* SetDefaultPersona: the service's read, then the transaction.            *)
(***************************************************************************)
ReadToSetDefault(h, p) ==
    /\ At(h, "idle")
    /\ p \in Active
    /\ req' = [req EXCEPT ![h].pc = "begin", ![h].mine = p]
    /\ UNCHANGED tables

\* UPDATE personas SET is_default = false WHERE is_default = true
SnapshotDefault(h) ==
    /\ At(h, "begin")
    /\ req' = [req EXCEPT ![h].pc = "clear", ![h].seen = isDefault]
    /\ UNCHANGED tables

ClearDefaultFlag(h) ==
    /\ At(h, "clear")
    /\ req[h].seen \intersect HeldByOthers(h) = {}
    /\ req' = [req EXCEPT ![h].pc = "set", ![h].rows = req[h].seen \intersect isDefault]
    /\ UNCHANGED tables

\* The rows whose flag the unique index sees beside the one being set.
Flagged(h) == isDefault \ (req[h].rows \union {req[h].mine})

\* The index waits: another transaction sets a flag, or touches a flagged row.
IndexBusy(h) ==
    \/ \E g \in Requests \ {h} : At(g, "commitDefault")
    \/ Flagged(h) \intersect HeldByOthers(h) # {}

\* The UPDATE of a table without idx_personas_default.
SetWithoutIndex(h) ==
    /\ At(h, "set")
    /\ req[h].mine \notin HeldByOthers(h)
    /\ IF req[h].mine \in Active
       THEN req' = [req EXCEPT ![h].pc = "commitDefault",
                               ![h].rows = req[h].rows \union {req[h].mine}]
       ELSE Finish(h)
    /\ UNCHANGED tables

\* An UPDATE by id alone, which trusts what the service read.
SetTrustingRead(h) ==
    /\ At(h, "set")
    /\ req[h].mine \notin HeldByOthers(h)
    /\ ~IndexBusy(h)
    /\ IF Flagged(h) = {}
       THEN req' = [req EXCEPT ![h].pc = "commitDefault",
                               ![h].rows = req[h].rows \union {req[h].mine}]
       ELSE Finish(h)
    /\ UNCHANGED tables

\* UPDATE personas SET is_default = true WHERE id = $1 AND status = 'active'
SetDefaultFlag(h) ==
    /\ At(h, "set")
    /\ req[h].mine \notin HeldByOthers(h)
    /\ req[h].mine \in Active => ~IndexBusy(h)
    /\ IF req[h].mine \in Active /\ Flagged(h) = {}
       THEN req' = [req EXCEPT ![h].pc = "commitDefault",
                               ![h].rows = req[h].rows \union {req[h].mine}]
       ELSE Finish(h)
    /\ UNCHANGED tables

\* A transaction that points the user row at the persona only if it has none.
CommitIfUnset(h) ==
    /\ At(h, "commitDefault")
    /\ isDefault' = (isDefault \ req[h].rows) \union {req[h].mine}
    /\ default' = IF default = None THEN req[h].mine ELSE default
    /\ Finish(h)
    /\ UNCHANGED status

CommitDefault(h) ==
    /\ At(h, "commitDefault")
    /\ isDefault' = (isDefault \ req[h].rows) \union {req[h].mine}
    /\ default' = req[h].mine
    /\ Finish(h)
    /\ UNCHANGED status

(***************************************************************************)
(* CleanupOnAccountDeletion: ArchiveAllPersonasForRealProfile.             *)
(***************************************************************************)
SnapshotAll(h) ==
    /\ At(h, "idle")
    /\ req' = [req EXCEPT ![h].pc = "sweep", ![h].seen = Kept]
    /\ UNCHANGED tables

ArchiveAll(h) ==
    /\ At(h, "sweep")
    /\ req[h].seen \intersect HeldByOthers(h) = {}
    /\ req' = [req EXCEPT ![h].pc = "commitSweep", ![h].rows = req[h].seen \intersect Kept]
    /\ UNCHANGED tables

CommitSweep(h) ==
    /\ At(h, "commitSweep")
    /\ status' = [p \in Personas |-> IF p \in req[h].rows THEN "archived" ELSE status[p]]
    /\ isDefault' = isDefault \ req[h].rows
    /\ default' = None
    /\ Finish(h)

(***************************************************************************)
(* A moderator's outcome: UpdatePersonaStatus writes whatever it finds.    *)
(***************************************************************************)
UpdatePersonaStatus(p) ==
    /\ status[p] # "absent"
    /\ \A h \in Requests : p \notin req[h].rows
    /\ status' = [status EXCEPT ![p] = "restricted"]
    /\ UNCHANGED <<isDefault, default, req>>

\* An error return without the deferred rollback.
AbandonWithoutRollback(h) ==
    /\ ~At(h, "idle")
    /\ GoTo(h, "idle")
    /\ UNCHANGED tables

\* A handler stops between two statements; an open transaction rolls back.
Abandon(h) ==
    /\ ~At(h, "idle")
    /\ Finish(h)
    /\ UNCHANGED tables

Next ==
    \/ \E h \in Requests :
        \/ CountActivePersonas(h) \/ InsertPersona(h) \/ ReloadProfile(h)
        \/ ArchivePersona(h) \/ ListNext(h) \/ ClearDefaultPersona(h)
        \/ SnapshotDefault(h) \/ ClearDefaultFlag(h) \/ SetDefaultFlag(h) \/ CommitDefault(h)
        \/ SnapshotAll(h) \/ ArchiveAll(h) \/ CommitSweep(h)
        \/ Abandon(h)
        \/ \E p \in Personas : ReadToArchive(h, p) \/ ReadToSetDefault(h, p)
    \/ \E p \in Personas : UpdatePersonaStatus(p)

Spec == Init /\ [][Next]_vars

-----------------------------------------------------------------------------
(***************************************************************************)
(* At most one row is flagged, however the transactions that move the flag *)
(* interleave: the one that missed the other's new default in its snapshot *)
(* is stopped by the unique index (repository.go:335).                     *)
(***************************************************************************)
OneDefault == \A p, q \in isDefault : p = q

(***************************************************************************)
(* An archived persona never carries the flag, although SetDefaultPersona  *)
(* reads the status before its transaction and archiving runs outside it.  *)
(***************************************************************************)
ArchivedNeverDefault == isDefault \intersect (WithStatus("archived") \union WithStatus("absent")) = {}

(***************************************************************************)
(* When the user row points at an active persona, that persona is the      *)
(* flagged one: readers of either column (GetMe, toPrivatePersona) agree.  *)
(***************************************************************************)
ActiveDefaultIsFlagged == default \in Active => default \in isDefault

(***************************************************************************)
(* The user row is only ever pointed at a persona that is active at that   *)
(* moment and that becomes the single flagged one in the same step.        *)
(***************************************************************************)
DefaultChosenActive ==
    [][default' \notin {default, None} => default' \in Active' /\ isDefault' = {default'}]_vars

(***************************************************************************)
(* CreatePersona counts and then inserts: the limit can be exceeded, but   *)
(* by fewer personas than there are requests at the same time, however     *)
(* many are made one after the other.                                      *)
(***************************************************************************)
OvershootBounded == Cardinality(Active) <= MaxActive - 1 + Cardinality(Requests)

(***************************************************************************)
(* What content-policy.md:45 and api-errors.md:71 promise: a profile never *)
(* has more than the maximum number of active personas.                    *)
(***************************************************************************)
MaxPersonasRespected == Cardinality(Active) <= MaxActive
=============================================================================
