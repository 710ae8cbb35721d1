-------------------------------- MODULE Cases --------------------------------
(***************************************************************************)
(* Reports and moderation cases (services/api/internal/moderation).        *)
(*                                                                         *)
(* A report is about a post, a comment or a persona.  A moderator opens a  *)
(* case on reports about one target, takes it under review and resolves it *)
(* with an outcome.  CreateCase is a transaction; UpdateCase runs its      *)
(* statements one by one, each by primary key: it reads the case, applies  *)
(* the outcome, resolves the reports, writes the row and then the audit    *)
(* entry.  A handler may stop after any of them.  The outcome is written   *)
(* to the target's row, the author's persona or the author's account; a    *)
(* target has one author, who is never reread and never changes.  What the *)
(* author does to the target meanwhile is in Content.  Categories, details *)
(* and the text of notes are left out; notes may prove too long.           *)
(***************************************************************************)
EXTENDS Integers, FiniteSets

CONSTANTS
    Reports, CaseIds,
    Notes, PersonaTargets,      \* posts and comments; personas
    Outcomes,                   \* the outcomes moderators choose here
    Requests,                   \* PATCH /moderation/cases/{caseId}, each made once
    None

Targets == Notes \union PersonaTargets

AllOutcomes == {"noAction", "warn", "hide", "remove", "restore",
                "restrictPersona", "suspendAccount", "banAccount"}

ASSUME CasesAssumption ==
    /\ Outcomes \subseteq AllOutcomes
    /\ Notes \cap PersonaTargets = {}
    /\ None \notin Targets \union CaseIds \union AllOutcomes

VARIABLES
    about,      \* reports: the target of each; None before the INSERT
    resolved,   \* reports: the ids whose status is resolved
    case,       \* moderation_cases
    links,      \* case_reports
    audit,      \* moderation_actions: <<case, action_type>>
    standing,   \* the rows outcomes are written to: <<target, part>>
    req,        \* the local state of each request
    applied     \* history: the outcomes that took effect, <<case, outcome>>

desk == <<about, resolved, case, links, audit, standing, applied>>
vars == <<desk, req>>

Parts == {"row", "persona", "account"}

Standings == {"as before", "published", "hidden", "deleted",
              "restricted", "suspended", "banned"}

Statuses == {"absent", "open", "underReview", "resolved"}

CaseRow == [target : Targets \union {None}, status : Statuses,
            outcome : AllOutcomes \union {None}]

NoCase == [target |-> None, status |-> "absent", outcome |-> None]

(***************************************************************************)
(* row: the case as the request will write it; read: the status it found.  *)
(* faulty, a history: another request was at work on a case of the target  *)
(* when it began, or it stopped or was refused after it had taken effect.  *)
(***************************************************************************)
Handler == [pc : {"new", "apply", "check", "markReports", "write", "audit", "done"},
            id : CaseIds \union {None}, row : CaseRow, read : Statuses, faulty : BOOLEAN]

Blank == [pc |-> "new", id |-> None, row |-> NoCase, read |-> "absent", faulty |-> FALSE]

TypeOK ==
    /\ about \in [Reports -> Targets \union {None}]
    /\ resolved \in SUBSET {p \in Reports : about[p] # None}
    /\ case \in [CaseIds -> CaseRow]
    /\ links \in [CaseIds -> SUBSET Reports]
    /\ audit \in SUBSET (CaseIds \X (AllOutcomes \union {"open", "underReview"}))
    /\ standing \in [Targets \X Parts -> Standings]
    /\ req \in [Requests -> Handler]
    /\ applied \in SUBSET (CaseIds \X AllOutcomes)
    /\ \A c \in CaseIds : case[c].outcome # None => case[c].status = "resolved"

Init ==
    /\ about = [p \in Reports |-> None]
    /\ resolved = {}
    /\ case = [c \in CaseIds |-> NoCase]
    /\ links = [c \in CaseIds |-> {}]
    /\ audit = {}
    /\ standing = [x \in Targets \X Parts |-> "as before"]
    /\ req = [r \in Requests |-> Blank]
    /\ applied = {}

-----------------------------------------------------------------------------
(***************************************************************************)
(* Statements.                                                             *)
(***************************************************************************)
InsertReport(p, t) ==
    /\ about[p] = None
    /\ about' = [about EXCEPT ![p] = t]

InsertCase(c, t, R) ==
    /\ case[c] = NoCase
    /\ case' = [case EXCEPT ![c] = [target |-> t, status |-> "open", outcome |-> None]]
    /\ links' = [links EXCEPT ![c] = R]

MarkReportsResolvedForCase(c) == resolved' = resolved \union links[c]

UpdateCaseRow(c, row) == case' = [case EXCEPT ![c] = row]

\* The CHECK on action_type knows no "remove": that entry is always refused.
Auditable(type) == type # "remove"

CreateAction(c, type) == audit' = audit \union {<<c, type>>}

CreateActionOrNot(c, type) ==
    \/ Auditable(type) /\ CreateAction(c, type)
    \/ UNCHANGED audit

UpdateNoteState(t, s) == standing' = [standing EXCEPT ![<<t, "row">>] = s]
UpdatePersonaStatus(t, s) == standing' = [standing EXCEPT ![<<t, "persona">>] = s]
UpdateUserStatus(t, s) == standing' = [standing EXCEPT ![<<t, "account">>] = s]

-----------------------------------------------------------------------------
(***************************************************************************)
(* POST /reports, and POST /moderation/cases on one or more reports that   *)
(* are about the target, whether or not they are open.                     *)
(***************************************************************************)
\* self: the reporter is the target's author.  Only a persona's owner is told
\* apart: for posts and comments a persona's id is compared with a user's.
ValidReport(t, self) == self => t \notin PersonaTargets

FileReport(p, t, self) ==
    /\ ValidReport(t, self)
    /\ InsertReport(p, t)
    /\ UNCHANGED <<resolved, case, links, audit, standing, applied, req>>

\* The reports exist; what they are about is not compared.
AboutAnything(R, t) == \A p \in R : about[p] # None

AllAbout(R, t) == \A p \in R : about[p] = t

CreateCase(c, t, R) ==
    /\ R # {}
    /\ AllAbout(R, t)
    /\ InsertCase(c, t, R)
    /\ CreateActionOrNot(c, "open")
    /\ UNCHANGED <<about, resolved, standing, applied, req>>

-----------------------------------------------------------------------------
(***************************************************************************)
(* PATCH /moderation/cases/{caseId}.                                       *)
(***************************************************************************)
At(r, pc) == req[r].pc = pc
GoTo(r, pc) == req' = [req EXCEPT ![r].pc = pc]
InFlight(r) == req[r].pc \notin {"new", "done"}

Busy(t) == \E q \in Requests : InFlight(q) /\ req[q].row.target = t

\* A case may be resolved again.
OpenToAny(c) == case[c].status # "absent"

OpenToUpdate(c) == case[c].status \notin {"absent", "resolved"}

ReadCase(r, c, status, outcome) ==
    /\ At(r, "new")
    /\ OpenToUpdate(c)
    /\ LET asked == [case[c] EXCEPT !.status = status, !.outcome = outcome]
       IN req' = [req EXCEPT ![r] = [pc |-> IF status = "resolved" THEN "apply" ELSE "check",
                                     id |-> c, row |-> asked, read |-> case[c].status,
                                     faulty |-> Busy(case[c].target)]]
    /\ UNCHANGED desk

RestrictAuthorPersona(t) == UpdatePersonaStatus(t, "restricted")

SuspendOrBanAuthorAccount(t, status) == UpdateUserStatus(t, status)

(***************************************************************************)
(* applyOutcome: what is written for outcome o on target t.  On a persona  *)
(* hide, remove and restore write nothing, and are resolutions none the    *)
(* less.                                                                   *)
(***************************************************************************)
Effect(t, o) ==
    CASE o = "hide" /\ t \in Notes -> UpdateNoteState(t, "hidden")
      [] o = "remove" /\ t \in Notes -> UpdateNoteState(t, "deleted")
      [] o = "restore" /\ t \in Notes -> UpdateNoteState(t, "published")
      [] o = "restrictPersona" -> RestrictAuthorPersona(t)
      [] o = "suspendAccount" -> SuspendOrBanAuthorAccount(t, "suspended")
      [] o = "banAccount" -> SuspendOrBanAuthorAccount(t, "banned")
      [] OTHER -> UNCHANGED standing

ApplyOutcome(r) ==
    /\ At(r, "apply")
    /\ Effect(req[r].row.target, req[r].row.outcome)
    /\ applied' = applied \union {<<req[r].id, req[r].row.outcome>>}
    /\ GoTo(r, "check")
    /\ UNCHANGED <<about, resolved, case, links, audit>>

\* The reports are resolved last, if at all.
WriteFirst(r) == "write"

AfterCheck(r) == IF req[r].row.status = "resolved" THEN "markReports" ELSE "write"

Leave(r, faulty) ==
    req' = [req EXCEPT ![r] = [Blank EXCEPT !.pc = "done", !.id = req[r].id,
                                            !.faulty = req[r].faulty \/ faulty]]

\* The outcome, if there is one, has taken effect.
HasActed(r) == req[r].row.status = "resolved" /\ ~At(r, "apply")

\* Notes are checked when the outcome has already been applied.
CheckNotes(r) ==
    /\ At(r, "check")
    /\ GoTo(r, AfterCheck(r)) \/ Leave(r, HasActed(r))
    /\ UNCHANGED desk

ResolveReports(r) ==
    /\ At(r, "markReports")
    /\ MarkReportsResolvedForCase(req[r].id)
    /\ GoTo(r, "write")
    /\ UNCHANGED <<about, case, links, audit, standing, applied>>

WriteCase(r) ==
    /\ At(r, "write")
    /\ UpdateCaseRow(req[r].id, req[r].row)
    /\ GoTo(r, "audit")
    /\ UNCHANGED <<about, resolved, links, audit, standing, applied>>

\* An entry that cannot be inserted is not missed.
WriteAudit(r) ==
    /\ At(r, "audit")
    /\ CreateActionOrNot(req[r].id, IF req[r].row.status = "resolved" THEN req[r].row.outcome
                                    ELSE req[r].row.status)
    /\ Leave(r, FALSE)
    /\ UNCHANGED <<about, resolved, case, links, standing, applied>>

\* A statement fails or the connection is lost: the rest is not done.
Stop(r) ==
    /\ InFlight(r) /\ ~At(r, "audit")
    /\ Leave(r, HasActed(r))
    /\ UNCHANGED desk

HandleReport ==
    \E p \in Reports, t \in Targets, self \in BOOLEAN : FileReport(p, t, self)

HandleCreateCase ==
    \E c \in CaseIds, t \in Targets, R \in SUBSET Reports : CreateCase(c, t, R)

HandleUpdateCase(r) ==
    \E c \in CaseIds :
        \/ ReadCase(r, c, "underReview", case[c].outcome)
        \/ \E o \in Outcomes : ReadCase(r, c, "resolved", o)

Next ==
    \/ HandleReport \/ HandleCreateCase
    \/ \E r \in Requests :
        \/ HandleUpdateCase(r)
        \/ ApplyOutcome(r) \/ CheckNotes(r) \/ ResolveReports(r)
        \/ WriteCase(r) \/ WriteAudit(r) \/ Stop(r)

Spec == Init /\ [][Next]_vars

-----------------------------------------------------------------------------
(***************************************************************************)
(* "resolved: An outcome has been applied" (domain-model.md:350): whatever *)
(* stops and whoever else is at work on the case, a case that says it is   *)
(* resolved names an outcome that took effect, and its reports are closed. *)
(***************************************************************************)
ResolvedWasApplied ==
    \A c \in CaseIds : case[c].status = "resolved" =>
        /\ <<c, case[c].outcome>> \in applied
        /\ links[c] \subseteq resolved

Undisturbed(c) == \A r \in Requests : req[r].id = c => ~req[r].faulty /\ ~InFlight(r)

(***************************************************************************)
(* The outcome is applied before the notes are checked and before the case *)
(* is written (service.go:399-418).  An outcome that took effect and that  *)
(* the case does not name goes back to a request that was refused after    *)
(* it, stopped, or worked on the case together with another one.           *)
(***************************************************************************)
EffectIsRecorded ==
    \A c \in CaseIds, o \in AllOutcomes :
        <<c, o>> \in applied /\ Undisturbed(c) => case[c].outcome = o

(***************************************************************************)
(* Conversely, when only one case was ever worked on, without such a       *)
(* fault, the state its outcome calls for is the state of the target or of *)
(* its author.                                                             *)
(***************************************************************************)
InForce(t, o) ==
    CASE o = "hide" /\ t \in Notes -> standing[<<t, "row">>] = "hidden"
      [] o = "remove" /\ t \in Notes -> standing[<<t, "row">>] = "deleted"
      [] o = "restore" /\ t \in Notes -> standing[<<t, "row">>] = "published"
      [] o = "restrictPersona" -> standing[<<t, "persona">>] = "restricted"
      [] o = "suspendAccount" -> standing[<<t, "account">>] = "suspended"
      [] o = "banAccount" -> standing[<<t, "account">>] = "banned"
      [] OTHER -> TRUE

RecordIsInForce ==
    \A c \in CaseIds :
        /\ case[c].status = "resolved"
        /\ Undisturbed(c)
        /\ \A r \in Requests : req[r].id \in {c, None}
        => InForce(case[c].target, case[c].outcome)

EffectAndRecordAgree == EffectIsRecorded /\ RecordIsInForce

(***************************************************************************)
(* UpdateCase refuses a resolved case, but writes by id what it had read   *)
(* (service.go:385, repository.go:472): a resolved case is opened again,   *)
(* or resolved anew, only by a request that had read it unresolved.        *)
(***************************************************************************)
ReopenedOnlyByStale ==
    [][\A c \in CaseIds :
          case[c].status = "resolved" /\ case'[c] # case[c] =>
              \E r \in Requests : /\ At(r, "write")
                                  /\ req[r].id = c
                                  /\ req[r].read # "resolved"]_vars

(***************************************************************************)
(* The cases implement the docket: reports are filed, decisions taken and  *)
(* reports closed, and nothing else that the handlers do shows.            *)
(***************************************************************************)
Desk == INSTANCE Docket
            WITH closed <- resolved,
                 decisions <- {<<case[d[1]].target, d[2]>> : d \in applied}

ImplementsDocket == Desk!DocketSpec
=============================================================================
