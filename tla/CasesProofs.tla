----------------------------- MODULE CasesProofs -----------------------------
(***************************************************************************)
(* Proofs about Cases for any sets of reports, cases, targets and          *)
(* requests.  UpdateCase holds no lock, so the inductive invariant says    *)
(* what the value a request carries still tells of the tables at each of   *)
(* its statements: that its outcome took effect, that its reports are      *)
(* closed, and, as long as no request on the case is faulty, that nobody   *)
(* else resolved the case since it was read.                               *)
(***************************************************************************)
EXTENDS Cases, TLAPS

Resolving(r) == req[r].row.status = "resolved"
BeforeWrite(r) == req[r].pc \in {"apply", "check", "markReports", "write"}

\* A request carries the id of an existing case and its target, and how the
\* case will be written; only one that resolves the case has an outcome.
WorkIsKnown ==
    \A r \in Requests :
        /\ InFlight(r) =>
            /\ req[r].id \in CaseIds
            /\ case[req[r].id].status # "absent"
            /\ req[r].row.target = case[req[r].id].target
            /\ req[r].row.status \in {"underReview", "resolved"}
            /\ req[r].read \in {"open", "underReview"}
            /\ Resolving(r) => req[r].row.outcome \in Outcomes
            /\ ~Resolving(r) => req[r].row.outcome = None
        /\ At(r, "apply") \/ At(r, "markReports") => Resolving(r)
        /\ At(r, "new") => req[r] = Blank
        /\ At(r, "done") => req[r].row = NoCase

\* An existing case has a target and reports, all of them about it.
CasesAreKnown ==
    \A c \in CaseIds :
        /\ case[c].status = "absent" => case[c] = NoCase
        /\ case[c].status # "absent" =>
            /\ case[c].target \in Targets
            /\ links[c] # {}
            /\ \A p \in links[c] : about[p] = case[c].target

AppliedToExisting == \A d \in applied : case[d[1]].status # "absent"

\* What a request carries is true of the tables when it comes to write.
ActedIsApplied ==
    \A r \in Requests :
        InFlight(r) /\ HasActed(r) => <<req[r].id, req[r].row.outcome>> \in applied

MarkedBeforeWrite ==
    \A r \in Requests :
        Resolving(r) /\ (At(r, "write") \/ At(r, "audit")) =>
            links[req[r].id] \subseteq resolved

\* Of two requests at work on one target, the later one is marked.
OverlapShows ==
    \A q, r \in Requests :
        /\ q # r
        /\ InFlight(q) /\ InFlight(r)
        /\ req[q].row.target = req[r].row.target
        => req[q].faulty \/ req[r].faulty

Clean(c) == \A r \in Requests : req[r].id = c => ~req[r].faulty

\* Without a fault the case is as unresolved as when it was read.
CleanIsUnresolved ==
    \A c \in CaseIds, r \in Requests :
        Clean(c) /\ req[r].id = c /\ BeforeWrite(r) => case[c].status # "resolved"

\* The outcome has taken effect and the case does not say so yet.
OnTheWay(r) == HasActed(r) /\ BeforeWrite(r)

Claims(c, o) ==
    \/ case[c].status = "resolved" /\ case[c].outcome = o
    \/ \E r \in Requests : req[r].id = c /\ OnTheWay(r) /\ req[r].row.outcome = o

EffectIsClaimed ==
    \A c \in CaseIds, o \in AllOutcomes :
        <<c, o>> \in applied /\ Clean(c) => Claims(c, o)

OnlyWorkedOn(c) == Clean(c) /\ \A r \in Requests : req[r].id \in {c, None}

\* What is claimed of the only case that was worked on is so.
ClaimIsInForce ==
    \A c \in CaseIds, t \in Targets, o \in AllOutcomes :
        OnlyWorkedOn(c) /\ case[c].target = t /\ Claims(c, o) => InForce(t, o)

IInv ==
    /\ TypeOK
    /\ WorkIsKnown
    /\ CasesAreKnown
    /\ AppliedToExisting
    /\ ActedIsApplied
    /\ MarkedBeforeWrite
    /\ ResolvedWasApplied
    /\ OverlapShows
    /\ CleanIsUnresolved
    /\ EffectIsClaimed
    /\ ClaimIsInForce

-----------------------------------------------------------------------------
(***************************************************************************)
(* What a statement does to the request that makes it.                     *)
(***************************************************************************)
PCs == {"new", "apply", "check", "markReports", "write", "audit", "done"}

Others(r) == \A q \in Requests : q # r => req'[q] = req[q]

LEMMA CaseRowFields ==
    ASSUME NEW x \in CaseRow
    PROVE  /\ x.target \in Targets \union {None}
           /\ x.status \in Statuses
           /\ x.outcome \in AllOutcomes \union {None}
BY DEF CaseRow

LEMMA HandlerFields ==
    ASSUME NEW h \in Handler
    PROVE  /\ h.pc \in PCs
           /\ h.id \in CaseIds \union {None}
           /\ h.row \in CaseRow
           /\ h.read \in Statuses
           /\ h.faulty \in BOOLEAN
BY DEF Handler, PCs

LEMMA NoCaseTyped ==
    /\ NoCase \in CaseRow
    /\ NoCase.target = None
    /\ NoCase.status = "absent"
    /\ NoCase.outcome = None
BY DEF NoCase, CaseRow, Statuses

LEMMA BlankTyped ==
    /\ Blank \in Handler
    /\ Blank.pc = "new"
    /\ Blank.id = None
    /\ Blank.row = NoCase
    /\ Blank.faulty = FALSE
BY NoCaseTyped DEF Blank, Handler, Statuses

\* A request goes on to its next statement with what it carries.
LEMMA GoingOn ==
    ASSUME TypeOK, NEW r \in Requests, NEW pc \in PCs, GoTo(r, pc)
    PROVE  /\ req' \in [Requests -> Handler]
           /\ Others(r)
           /\ req'[r].pc = pc
           /\ req'[r].id = req[r].id
           /\ req'[r].row = req[r].row
           /\ req'[r].read = req[r].read
           /\ req'[r].faulty = req[r].faulty
<1>1. req \in [Requests -> Handler] /\ req[r] \in Handler
  BY DEF TypeOK
<1>2. [req[r] EXCEPT !.pc = pc] \in Handler
  BY <1>1 DEF Handler, PCs
<1>3. req' = [req EXCEPT ![r] = [req[r] EXCEPT !.pc = pc]]
  BY DEF GoTo
<1>4. req' \in [Requests -> Handler] /\ Others(r) /\ req'[r] = [req[r] EXCEPT !.pc = pc]
  BY <1>1, <1>2, <1>3 DEF Others
<1>5. /\ [req[r] EXCEPT !.pc = pc].pc = pc
      /\ [req[r] EXCEPT !.pc = pc].id = req[r].id
      /\ [req[r] EXCEPT !.pc = pc].row = req[r].row
      /\ [req[r] EXCEPT !.pc = pc].read = req[r].read
      /\ [req[r] EXCEPT !.pc = pc].faulty = req[r].faulty
  BY <1>1 DEF Handler
<1> QED BY <1>4, <1>5

\* A request that ends keeps its id and its faults, and no case.
LEMMA Leaving ==
    ASSUME TypeOK, NEW r \in Requests, NEW f \in BOOLEAN, Leave(r, f)
    PROVE  /\ req' \in [Requests -> Handler]
           /\ Others(r)
           /\ req'[r].pc = "done"
           /\ req'[r].id = req[r].id
           /\ req'[r].row = NoCase
           /\ req'[r].faulty = (req[r].faulty \/ f)
<1> DEFINE last == [Blank EXCEPT !.pc = "done", !.id = req[r].id,
                                 !.faulty = req[r].faulty \/ f]
<1>1. req \in [Requests -> Handler] /\ req[r] \in Handler
  BY DEF TypeOK
<1>2. req[r].id \in CaseIds \union {None} /\ (req[r].faulty \/ f) \in BOOLEAN
  BY <1>1, HandlerFields
<1>3. /\ last \in Handler
      /\ last.pc = "done"
      /\ last.id = req[r].id
      /\ last.row = NoCase
      /\ last.faulty = (req[r].faulty \/ f)
  BY <1>2, NoCaseTyped DEF Blank, Handler, Statuses
<1>4. req' = [req EXCEPT ![r] = last]
  BY DEF Leave
<1> HIDE DEF last
<1> QED BY <1>1, <1>3, <1>4 DEF Others

-----------------------------------------------------------------------------
(***************************************************************************)
(* What is in force depends on the rows outcomes are written to alone, and *)
(* a write for one outcome puts that outcome in force.                     *)
(***************************************************************************)
LEMMA InForceKept ==
    ASSUME UNCHANGED standing, NEW t, NEW o, InForce(t, o)
    PROVE  InForce(t, o)'
BY DEF InForce

LEMMA EffectInForce ==
    ASSUME TypeOK, NEW t \in Targets, NEW o, Effect(t, o)
    PROVE  /\ InForce(t, o)'
           /\ standing' \in [Targets \X Parts -> Standings]
BY DEF TypeOK, Effect, InForce, Parts, Standings, UpdateNoteState, UpdatePersonaStatus,
   UpdateUserStatus, RestrictAuthorPersona, SuspendOrBanAuthorAccount

\* No new claim and no write to those rows: every claim stays in force.
LEMMA ClaimsKept ==
    ASSUME ClaimIsInForce, UNCHANGED standing,
           \A c \in CaseIds : OnlyWorkedOn(c)' => OnlyWorkedOn(c),
           \A c \in CaseIds, t \in Targets, o \in AllOutcomes :
               OnlyWorkedOn(c)' /\ (case[c].target = t)' /\ Claims(c, o)' =>
                   case[c].target = t /\ Claims(c, o)
    PROVE  ClaimIsInForce'
<1> SUFFICES ASSUME NEW c \in CaseIds, NEW t \in Targets, NEW o \in AllOutcomes,
                    OnlyWorkedOn(c)', (case[c].target = t)', Claims(c, o)'
             PROVE  InForce(t, o)'
  BY DEF ClaimIsInForce
<1>1. InForce(t, o)
  BY DEF ClaimIsInForce
<1> QED BY <1>1, InForceKept

-----------------------------------------------------------------------------
(***************************************************************************)
(* The inductive invariant holds initially, and each action keeps it.      *)
(***************************************************************************)
LEMMA InvInit == Init => IInv
<1> SUFFICES ASSUME Init PROVE IInv
  OBVIOUS
<1>1. TypeOK
  BY BlankTyped, NoCaseTyped DEF Init, TypeOK, Standings
<1>2. \A r \in Requests : req[r] = Blank
  BY DEF Init
<1>3. \A c \in CaseIds : case[c] = NoCase
  BY DEF Init
<1>4. WorkIsKnown
  BY <1>2, BlankTyped DEF WorkIsKnown, InFlight, At
<1>5. CasesAreKnown /\ ResolvedWasApplied
  BY <1>3, NoCaseTyped DEF CasesAreKnown, ResolvedWasApplied
<1>6. AppliedToExisting /\ EffectIsClaimed
  BY DEF Init, AppliedToExisting, EffectIsClaimed
<1>7. ActedIsApplied /\ OverlapShows
  BY <1>2, BlankTyped DEF ActedIsApplied, OverlapShows, InFlight
<1>8. MarkedBeforeWrite /\ CleanIsUnresolved
  BY <1>2, BlankTyped DEF MarkedBeforeWrite, CleanIsUnresolved, BeforeWrite, At
<1>9. ClaimIsInForce
  BY <1>2, <1>3, BlankTyped, NoCaseTyped DEF ClaimIsInForce, Claims, OnTheWay, BeforeWrite
<1> QED BY <1>1, <1>4, <1>5, <1>6, <1>7, <1>8, <1>9 DEF IInv

LEMMA InvFileReport ==
    ASSUME IInv, NEW p \in Reports, NEW t \in Targets, NEW self \in BOOLEAN,
           FileReport(p, t, self)
    PROVE  IInv'
<1>1. /\ UNCHANGED <<resolved, case, links, audit, standing, applied, req>>
      /\ about[p] = None
      /\ about' = [about EXCEPT ![p] = t]
  BY DEF FileReport, InsertReport
<1>2. TypeOK'
  BY <1>1 DEF IInv, TypeOK
<1>3. CasesAreKnown'
  <2>1. \A c \in CaseIds : case[c].status # "absent" => p \notin links[c]
    BY <1>1, CasesAssumption DEF IInv, CasesAreKnown
  <2> QED BY <1>1, <2>1 DEF IInv, TypeOK, CasesAreKnown
<1>4. WorkIsKnown' /\ ActedIsApplied' /\ OverlapShows'
  BY <1>1 DEF IInv, WorkIsKnown, ActedIsApplied, OverlapShows, Resolving, HasActed, InFlight, At
<1>5. AppliedToExisting' /\ MarkedBeforeWrite' /\ ResolvedWasApplied'
  BY <1>1 DEF IInv, AppliedToExisting, MarkedBeforeWrite, ResolvedWasApplied, Resolving, At
<1>6. CleanIsUnresolved' /\ EffectIsClaimed'
  BY <1>1 DEF IInv, CleanIsUnresolved, EffectIsClaimed, Claims, Clean, OnTheWay, BeforeWrite,
     HasActed, At
<1>7. \A c \in CaseIds : \A o : /\ Claims(c, o)' <=> Claims(c, o)
                                /\ OnlyWorkedOn(c)' <=> OnlyWorkedOn(c)
  BY <1>1 DEF Claims, OnlyWorkedOn, Clean, OnTheWay, BeforeWrite, HasActed, At
<1>8. ClaimIsInForce'
  BY <1>1, <1>7, ClaimsKept DEF IInv
<1> QED BY <1>2, <1>3, <1>4, <1>5, <1>6, <1>8 DEF IInv

LEMMA InvCreateCase ==
    ASSUME IInv, NEW c \in CaseIds, NEW t \in Targets, NEW R \in SUBSET Reports,
           CreateCase(c, t, R)
    PROVE  IInv'
<1> DEFINE opened == [target |-> t, status |-> "open", outcome |-> None]
<1>1. /\ UNCHANGED <<about, resolved, standing, applied, req>>
      /\ R # {} /\ \A p \in R : about[p] = t
      /\ case[c].status = "absent"
      /\ case' = [case EXCEPT ![c] = opened]
      /\ links' = [links EXCEPT ![c] = R]
      /\ CreateActionOrNot(c, "open")
  BY NoCaseTyped DEF CreateCase, InsertCase, AllAbout
<1>2. /\ opened \in CaseRow
      /\ opened.target = t /\ opened.status = "open" /\ opened.outcome = None
  BY DEF CaseRow, Statuses
<1> HIDE DEF opened
<1>3. /\ case' \in [CaseIds -> CaseRow] /\ links' \in [CaseIds -> SUBSET Reports]
      /\ case'[c] = opened /\ links'[c] = R
      /\ \A d \in CaseIds : d # c => case'[d] = case[d] /\ links'[d] = links[d]
  BY <1>1, <1>2 DEF IInv, TypeOK
<1>4. TypeOK'
  BY <1>1, <1>2, <1>3 DEF IInv, TypeOK, CreateActionOrNot, CreateAction
<1>5. \A r \in Requests : InFlight(r) => req[r].id \in CaseIds /\ req[r].id # c
  BY <1>1 DEF IInv, WorkIsKnown
<1>6. \A o : <<c, o>> \notin applied
  BY <1>1 DEF IInv, AppliedToExisting
<1>7. CasesAreKnown' /\ WorkIsKnown'
  BY <1>1, <1>2, <1>3, <1>5 DEF IInv, CasesAreKnown, WorkIsKnown, Resolving, InFlight, At
<1>8. AppliedToExisting'
  BY <1>1, <1>2, <1>3 DEF IInv, TypeOK, AppliedToExisting
<1>9. ActedIsApplied' /\ OverlapShows'
  BY <1>1 DEF IInv, ActedIsApplied, OverlapShows, HasActed, InFlight, At
<1>10. MarkedBeforeWrite'
  BY <1>1, <1>3, <1>5 DEF IInv, MarkedBeforeWrite, Resolving, InFlight, At
<1>11. ResolvedWasApplied'
  BY <1>1, <1>2, <1>3 DEF IInv, ResolvedWasApplied
<1>12. CleanIsUnresolved'
  BY <1>1, <1>2, <1>3 DEF IInv, CleanIsUnresolved, Clean, BeforeWrite
<1>13. \A d \in CaseIds : \A o : Claims(d, o)' <=> d # c /\ Claims(d, o)
  <2>1. ~ \E r \in Requests : req[r].id = c /\ OnTheWay(r)
    BY <1>5 DEF OnTheWay, BeforeWrite, InFlight
  <2> QED BY <1>1, <1>2, <1>3, <2>1 DEF Claims, OnTheWay, BeforeWrite, HasActed, At
<1>14. EffectIsClaimed'
  BY <1>1, <1>6, <1>13 DEF IInv, EffectIsClaimed, Clean
<1>15. ClaimIsInForce'
  <2>1. \A d \in CaseIds : OnlyWorkedOn(d)' => OnlyWorkedOn(d)
    BY <1>1 DEF OnlyWorkedOn, Clean
  <2> QED BY <1>1, <1>3, <1>13, <2>1, ClaimsKept DEF IInv
<1> QED BY <1>4, <1>7, <1>8, <1>9, <1>10, <1>11, <1>12, <1>14, <1>15 DEF IInv

\* Another request at work on the same case has the same target: one is faulty.
LEMMA AloneWhenClean ==
    ASSUME IInv, NEW r \in Requests, InFlight(r), Clean(req[r].id),
           NEW q \in Requests, InFlight(q), req[q].id = req[r].id
    PROVE  q = r
BY DEF IInv, WorkIsKnown, OverlapShows, Clean

LEMMA InvReadCase ==
    ASSUME IInv, NEW r \in Requests, NEW c \in CaseIds,
           NEW status, NEW outcome, ReadCase(r, c, status, outcome),
           \/ status = "underReview" /\ outcome = case[c].outcome
           \/ status = "resolved" /\ outcome \in Outcomes
    PROVE  IInv'
<1> DEFINE asked == [case[c] EXCEPT !.status = status, !.outcome = outcome]
           begun == [pc |-> IF status = "resolved" THEN "apply" ELSE "check",
                     id |-> c, row |-> asked, read |-> case[c].status,
                     faulty |-> Busy(case[c].target)]
<1>1. /\ req \in [Requests -> Handler] /\ case[c] \in CaseRow
      /\ req[r] = Blank
      /\ UNCHANGED desk
      /\ case[c].status \in {"open", "underReview"}
  <2>1. req \in [Requests -> Handler] /\ case[c] \in CaseRow
    BY DEF IInv, TypeOK
  <2>2. req[r] = Blank /\ UNCHANGED desk
    BY DEF IInv, WorkIsKnown, ReadCase
  <2> QED BY <2>1, <2>2, CaseRowFields DEF ReadCase, OpenToUpdate, Statuses
<1>2. /\ case[c].target \in Targets
      /\ outcome \in AllOutcomes \union {None}
      /\ status = "underReview" => outcome = None
      /\ status = "resolved" => outcome \in Outcomes
  BY <1>1, CaseRowFields, CasesAssumption DEF IInv, CasesAreKnown, TypeOK
<1>3. asked \in CaseRow
  BY <1>1, <1>2 DEF CaseRow, Statuses
<1>4. /\ asked.target = case[c].target
      /\ asked.status = status
      /\ asked.outcome = outcome
  BY <1>1 DEF CaseRow
<1> HIDE DEF asked
<1>5. /\ begun \in Handler
      /\ begun.pc = (IF status = "resolved" THEN "apply" ELSE "check")
      /\ begun.id = c
      /\ begun.row = asked
      /\ begun.read = case[c].status
      /\ begun.faulty = Busy(case[c].target)
  BY <1>1, <1>2, <1>3 DEF Handler, Statuses, Busy
<1>6. req' = [req EXCEPT ![r] = begun]
  BY DEF ReadCase, asked
<1> HIDE DEF begun
<1>7. req' \in [Requests -> Handler] /\ req'[r] = begun /\ Others(r)
  BY <1>1, <1>5, <1>6 DEF Others
<1>8. UNCHANGED <<about, resolved, case, links, audit, standing, applied>>
  BY <1>1 DEF desk
<1>9. TypeOK'
  BY <1>7, <1>8 DEF IInv, TypeOK
<1>10. /\ ~InFlight(r) /\ InFlight(r)' /\ ~HasActed(r)'
       /\ \A q \in Requests : q # r =>
           /\ InFlight(q)' <=> InFlight(q)
           /\ HasActed(q)' <=> HasActed(q)
  BY <1>1, <1>2, <1>4, <1>5, <1>7, BlankTyped, NoCaseTyped
     DEF InFlight, HasActed, At, Others
<1>11. WorkIsKnown'
  BY <1>1, <1>2, <1>4, <1>5, <1>7, <1>8, <1>10
     DEF IInv, WorkIsKnown, Others, Resolving, At, InFlight
<1>12. CasesAreKnown' /\ AppliedToExisting' /\ ResolvedWasApplied'
  BY <1>8 DEF IInv, CasesAreKnown, AppliedToExisting, ResolvedWasApplied
<1>13. ActedIsApplied'
  BY <1>7, <1>8, <1>10 DEF IInv, ActedIsApplied, Others
<1>14. MarkedBeforeWrite'
  BY <1>5, <1>7, <1>8 DEF IInv, MarkedBeforeWrite, Others, Resolving, At
<1>15. OverlapShows'
  <2>1. \A q \in Requests : q # r /\ InFlight(q) /\ req[q].row.target = case[c].target =>
            begun.faulty
    BY <1>5 DEF Busy
  <2> QED BY <1>4, <1>5, <1>7, <1>10, <2>1 DEF IInv, OverlapShows, Others
<1>16. \A d \in CaseIds : Clean(d)' => Clean(d)
  BY <1>1, <1>7, BlankTyped, CasesAssumption DEF Clean, Others
<1>17. CleanIsUnresolved'
  BY <1>1, <1>5, <1>7, <1>8, <1>16 DEF IInv, CleanIsUnresolved, BeforeWrite, Others
<1>18. \A d \in CaseIds : \A o : Claims(d, o)' <=> Claims(d, o)
  <2>1. ~OnTheWay(r) /\ ~OnTheWay(r)'
    BY <1>1, <1>10, BlankTyped DEF OnTheWay, BeforeWrite
  <2>2. \A q \in Requests : q # r => (OnTheWay(q)' <=> OnTheWay(q))
    BY <1>7, <1>10 DEF OnTheWay, BeforeWrite, Others
  <2> QED BY <1>7, <1>8, <2>1, <2>2 DEF Claims, Others
<1>19. EffectIsClaimed'
  BY <1>8, <1>16, <1>18 DEF IInv, EffectIsClaimed
<1>20. ClaimIsInForce'
  <2>1. \A d \in CaseIds : OnlyWorkedOn(d)' => OnlyWorkedOn(d)
    BY <1>1, <1>7, <1>16, BlankTyped DEF OnlyWorkedOn, Others
  <2> QED BY <1>8, <1>18, <2>1, ClaimsKept DEF IInv
<1> QED BY <1>9, <1>11, <1>12, <1>13, <1>14, <1>15, <1>17, <1>19, <1>20 DEF IInv

LEMMA InvApplyOutcome ==
    ASSUME IInv, NEW r \in Requests, ApplyOutcome(r)
    PROVE  IInv'
<1>0. /\ At(r, "apply") /\ InFlight(r) /\ Resolving(r)
      /\ req[r].id \in CaseIds
      /\ req[r].row.target \in Targets
      /\ req[r].row.outcome \in Outcomes
  BY DEF ApplyOutcome, At, InFlight, IInv, WorkIsKnown, CasesAreKnown
<1> PICK c \in CaseIds, t \in Targets, o \in Outcomes :
        c = req[r].id /\ t = req[r].row.target /\ o = req[r].row.outcome
  BY <1>0
<1>1. /\ At(r, "apply") /\ InFlight(r)
      /\ Effect(t, o)
      /\ applied' = applied \union {<<c, o>>}
      /\ GoTo(r, "check")
      /\ UNCHANGED <<about, resolved, case, links, audit>>
  BY <1>0 DEF ApplyOutcome
<1>2. case[c].status # "absent" /\ t = case[c].target /\ o \in AllOutcomes /\ Resolving(r)
  BY <1>0, CasesAssumption DEF IInv, WorkIsKnown
<1>3. /\ req' \in [Requests -> Handler] /\ Others(r)
      /\ req'[r].pc = "check" /\ req'[r].id = c /\ req'[r].row = req[r].row
      /\ req'[r].read = req[r].read /\ req'[r].faulty = req[r].faulty
  <2>1. "check" \in PCs
    BY DEF PCs
  <2> QED BY <1>1, <2>1, GoingOn DEF IInv
<1>4. InForce(t, o)' /\ standing' \in [Targets \X Parts -> Standings]
  BY <1>1, <1>2, EffectInForce DEF IInv
<1>5. TypeOK'
  BY <1>1, <1>2, <1>3, <1>4 DEF IInv, TypeOK
<1>6. /\ InFlight(r)' /\ HasActed(r)' /\ OnTheWay(r)' /\ ~HasActed(r)
      /\ \A q \in Requests : q # r =>
           /\ InFlight(q)' <=> InFlight(q)
           /\ HasActed(q)' <=> HasActed(q)
           /\ OnTheWay(q)' <=> OnTheWay(q)
  BY <1>1, <1>2, <1>3 DEF InFlight, HasActed, OnTheWay, BeforeWrite, At, Others, Resolving
<1>7. WorkIsKnown'
  BY <1>1, <1>3, <1>6 DEF IInv, WorkIsKnown, Others, Resolving, At
<1>8. CasesAreKnown' /\ AppliedToExisting' /\ ResolvedWasApplied'
  BY <1>1, <1>2 DEF IInv, CasesAreKnown, AppliedToExisting, ResolvedWasApplied
<1>9. ActedIsApplied'
  BY <1>1, <1>3, <1>6 DEF IInv, ActedIsApplied, Others
<1>10. MarkedBeforeWrite' /\ OverlapShows'
  BY <1>1, <1>3, <1>6 DEF IInv, MarkedBeforeWrite, OverlapShows, Others, Resolving, At
<1>11. \A d \in CaseIds : /\ Clean(d)' <=> Clean(d)
                          /\ OnlyWorkedOn(d)' <=> OnlyWorkedOn(d)
  BY <1>3 DEF Clean, OnlyWorkedOn, Others
<1>12. CleanIsUnresolved'
  BY <1>1, <1>3, <1>11 DEF IInv, CleanIsUnresolved, BeforeWrite, Others, At
<1>13. \A d \in CaseIds : \A x : Claims(d, x)' <=> Claims(d, x) \/ <<d, x>> = <<c, o>>
  BY <1>1, <1>3, <1>6 DEF Claims, OnTheWay, Others
<1>14. EffectIsClaimed'
  BY <1>1, <1>11, <1>13 DEF IInv, EffectIsClaimed
<1>15. ClaimIsInForce'
  \* Nothing else is claimed of the only case that was worked on.
  <2>1. OnlyWorkedOn(c) => \A x : ~Claims(c, x)
    <3>1. ASSUME OnlyWorkedOn(c) PROVE Clean(c) /\ case[c].status # "resolved"
      BY <1>1, <1>2, <3>1 DEF IInv, CleanIsUnresolved, OnlyWorkedOn, BeforeWrite, At
    <3>2. ASSUME OnlyWorkedOn(c), NEW q \in Requests, req[q].id = c, OnTheWay(q) PROVE q = r
      BY <1>1, <3>1, <3>2, AloneWhenClean DEF OnTheWay, BeforeWrite, InFlight
    <3> QED BY <1>6, <3>1, <3>2 DEF Claims, OnTheWay
  \* Of no other case is anything claimed: no request has its id.
  <2>2. ASSUME NEW d \in CaseIds, OnlyWorkedOn(d) PROVE d = c
    BY <1>2, <2>2, CasesAssumption DEF OnlyWorkedOn
  <2>3. SUFFICES ASSUME NEW d \in CaseIds, NEW u \in Targets, NEW x \in AllOutcomes,
                        OnlyWorkedOn(d)', (case[d].target = u)', Claims(d, x)'
                 PROVE  InForce(u, x)'
    BY DEF ClaimIsInForce
  <2>4. d = c /\ x = o /\ u = t
    BY <1>1, <1>2, <1>11, <1>13, <2>1, <2>2, <2>3
  <2> QED BY <1>4, <2>4
<1> QED BY <1>5, <1>7, <1>8, <1>9, <1>10, <1>12, <1>14, <1>15 DEF IInv

\* A request that ends after its outcome took effect is at its last statement
\* or leaves a fault behind.
LEMMA InvLeave ==
    ASSUME IInv, NEW r \in Requests, InFlight(r),
           NEW f \in BOOLEAN, Leave(r, f),
           HasActed(r) /\ ~At(r, "audit") => f,
           UNCHANGED <<about, resolved, case, links, standing, applied>>,
           audit' \in SUBSET (CaseIds \X (AllOutcomes \union {"open", "underReview"}))
    PROVE  IInv'
<1>1. /\ req' \in [Requests -> Handler] /\ Others(r)
      /\ req'[r].pc = "done" /\ req'[r].id = req[r].id /\ req'[r].row = NoCase
      /\ req'[r].faulty = (req[r].faulty \/ f)
  BY Leaving DEF IInv
<1>2. /\ ~InFlight(r)' /\ ~Resolving(r)' /\ ~HasActed(r)' /\ ~OnTheWay(r)' /\ ~BeforeWrite(r)'
      /\ \A q \in Requests : q # r =>
           /\ InFlight(q)' <=> InFlight(q)
           /\ HasActed(q)' <=> HasActed(q)
           /\ OnTheWay(q)' <=> OnTheWay(q)
  BY <1>1, NoCaseTyped DEF InFlight, HasActed, OnTheWay, BeforeWrite, At, Others, Resolving
<1>3. TypeOK'
  BY <1>1 DEF IInv, TypeOK
<1>4. WorkIsKnown'
  BY <1>1, <1>2 DEF IInv, WorkIsKnown, Others, Resolving, At
<1>5. CasesAreKnown' /\ AppliedToExisting' /\ ResolvedWasApplied'
  BY DEF IInv, CasesAreKnown, AppliedToExisting, ResolvedWasApplied
<1>6. ActedIsApplied' /\ OverlapShows'
  BY <1>1, <1>2 DEF IInv, ActedIsApplied, OverlapShows, Others
<1>7. MarkedBeforeWrite'
  BY <1>1, <1>2 DEF IInv, MarkedBeforeWrite, Others, Resolving, At
<1>8. \A d \in CaseIds : /\ Clean(d)' => Clean(d)
                         /\ Clean(d)' /\ d = req[r].id => ~f
                         /\ OnlyWorkedOn(d)' => OnlyWorkedOn(d)
  BY <1>1 DEF Clean, OnlyWorkedOn, Others
<1>9. CleanIsUnresolved'
  BY <1>1, <1>2, <1>8 DEF IInv, CleanIsUnresolved, BeforeWrite, Others
<1>10. \A d \in CaseIds : \A o : Clean(d)' => (Claims(d, o)' <=> Claims(d, o))
  <2>1. \A d \in CaseIds : Clean(d)' /\ OnTheWay(r) => d # req[r].id
    BY <1>8 DEF OnTheWay, BeforeWrite, At
  <2> QED BY <1>1, <1>2, <2>1 DEF Claims, Others
<1>11. EffectIsClaimed'
  BY <1>8, <1>10 DEF IInv, EffectIsClaimed
<1>12. ClaimIsInForce'
  BY <1>8, <1>10, ClaimsKept DEF IInv, OnlyWorkedOn
<1> QED BY <1>3, <1>4, <1>5, <1>6, <1>7, <1>9, <1>11, <1>12 DEF IInv

LEMMA InvStop ==
    ASSUME IInv, NEW r \in Requests, Stop(r)
    PROVE  IInv'
<1>1. HasActed(r) \in BOOLEAN
  BY DEF HasActed
<1>2. UNCHANGED <<about, resolved, case, links, audit, standing, applied>>
  BY DEF Stop, desk
<1>3. audit' \in SUBSET (CaseIds \X (AllOutcomes \union {"open", "underReview"}))
  BY <1>2 DEF IInv, TypeOK
<1> QED BY <1>1, <1>2, <1>3, InvLeave DEF Stop

LEMMA InvCheckNotes ==
    ASSUME IInv, NEW r \in Requests, CheckNotes(r)
    PROVE  IInv'
<1>1. At(r, "check") /\ InFlight(r) /\ ~At(r, "audit")
  BY DEF CheckNotes, At, InFlight
<1>2. UNCHANGED <<about, resolved, case, links, audit, standing, applied>>
  BY DEF CheckNotes, desk
<1>3. CASE Leave(r, HasActed(r))
  <2>1. HasActed(r) \in BOOLEAN
    BY DEF HasActed
  <2>2. audit' \in SUBSET (CaseIds \X (AllOutcomes \union {"open", "underReview"}))
    BY <1>2 DEF IInv, TypeOK
  <2> QED BY <1>1, <1>2, <1>3, <2>1, <2>2, InvLeave
<1>4. CASE GoTo(r, AfterCheck(r))
  <2>1. /\ req' \in [Requests -> Handler] /\ Others(r)
        /\ req'[r].pc = AfterCheck(r) /\ req'[r].id = req[r].id /\ req'[r].row = req[r].row
        /\ req'[r].read = req[r].read /\ req'[r].faulty = req[r].faulty
    <3>1. AfterCheck(r) \in PCs
      BY DEF PCs, AfterCheck
    <3> QED BY <1>4, <3>1, GoingOn DEF IInv
  <2>2. req'[r].pc = IF Resolving(r) THEN "markReports" ELSE "write"
    BY <2>1 DEF AfterCheck, Resolving
  <2>3. \A q \in Requests :
          /\ InFlight(q)' <=> InFlight(q)
          /\ HasActed(q)' <=> HasActed(q)
          /\ OnTheWay(q)' <=> OnTheWay(q)
    BY <1>1, <2>1, <2>2 DEF InFlight, HasActed, OnTheWay, BeforeWrite, At, Others, Resolving
  <2>4. TypeOK'
    BY <1>2, <2>1 DEF IInv, TypeOK
  <2>5. WorkIsKnown'
    BY <1>1, <1>2, <2>1, <2>2, <2>3 DEF IInv, WorkIsKnown, Others, Resolving, At
  <2>6. CasesAreKnown' /\ AppliedToExisting' /\ ResolvedWasApplied'
    BY <1>2 DEF IInv, CasesAreKnown, AppliedToExisting, ResolvedWasApplied
  <2>7. ActedIsApplied' /\ OverlapShows'
    BY <1>2, <2>1, <2>3 DEF IInv, ActedIsApplied, OverlapShows, Others
  <2>8. MarkedBeforeWrite'
    BY <1>2, <2>1, <2>2 DEF IInv, MarkedBeforeWrite, Others, Resolving, At
  <2>9. \A d \in CaseIds : /\ Clean(d)' <=> Clean(d)
                           /\ OnlyWorkedOn(d)' <=> OnlyWorkedOn(d)
    BY <2>1 DEF Clean, OnlyWorkedOn, Others
  <2>10. CleanIsUnresolved'
    BY <1>1, <1>2, <2>1, <2>9 DEF IInv, CleanIsUnresolved, BeforeWrite, Others, At
  <2>11. \A d \in CaseIds : \A o : Claims(d, o)' <=> Claims(d, o)
    BY <1>2, <2>1, <2>3 DEF Claims, Others
  <2>12. EffectIsClaimed'
    BY <1>2, <2>9, <2>11 DEF IInv, EffectIsClaimed
  <2>13. ClaimIsInForce'
    BY <1>2, <2>9, <2>11, ClaimsKept DEF IInv
  <2> QED BY <2>4, <2>5, <2>6, <2>7, <2>8, <2>10, <2>12, <2>13 DEF IInv
<1> QED BY <1>3, <1>4 DEF CheckNotes

LEMMA InvResolveReports ==
    ASSUME IInv, NEW r \in Requests, ResolveReports(r)
    PROVE  IInv'
<1>1. /\ At(r, "markReports") /\ InFlight(r) /\ Resolving(r)
      /\ resolved' = resolved \union links[req[r].id]
      /\ GoTo(r, "write")
      /\ UNCHANGED <<about, case, links, audit, standing, applied>>
  BY DEF ResolveReports, MarkReportsResolvedForCase, InFlight, At, IInv, WorkIsKnown
<1>2. /\ req' \in [Requests -> Handler] /\ Others(r)
      /\ req'[r].pc = "write" /\ req'[r].id = req[r].id /\ req'[r].row = req[r].row
      /\ req'[r].read = req[r].read /\ req'[r].faulty = req[r].faulty
  <2>1. "write" \in PCs
    BY DEF PCs
  <2> QED BY <1>1, <2>1, GoingOn DEF IInv
<1>3. \A q \in Requests :
        /\ InFlight(q)' <=> InFlight(q)
        /\ HasActed(q)' <=> HasActed(q)
        /\ OnTheWay(q)' <=> OnTheWay(q)
  BY <1>1, <1>2 DEF InFlight, HasActed, OnTheWay, BeforeWrite, At, Others
<1>4. TypeOK'
  <2>1. \A p \in links[req[r].id] : p \in Reports /\ about[p] # None
    BY <1>1, CasesAssumption DEF IInv, TypeOK, WorkIsKnown, CasesAreKnown
  <2> QED BY <1>1, <1>2, <2>1 DEF IInv, TypeOK
<1>5. WorkIsKnown'
  BY <1>1, <1>2, <1>3 DEF IInv, WorkIsKnown, Others, Resolving, At
<1>6. CasesAreKnown' /\ AppliedToExisting' /\ ResolvedWasApplied'
  BY <1>1 DEF IInv, CasesAreKnown, AppliedToExisting, ResolvedWasApplied
<1>7. ActedIsApplied' /\ OverlapShows'
  BY <1>1, <1>2, <1>3 DEF IInv, ActedIsApplied, OverlapShows, Others
<1>8. MarkedBeforeWrite'
  BY <1>1, <1>2 DEF IInv, MarkedBeforeWrite, Others, Resolving, At
<1>9. \A d \in CaseIds : /\ Clean(d)' <=> Clean(d)
                         /\ OnlyWorkedOn(d)' <=> OnlyWorkedOn(d)
  BY <1>2 DEF Clean, OnlyWorkedOn, Others
<1>10. CleanIsUnresolved'
  BY <1>1, <1>2, <1>9 DEF IInv, CleanIsUnresolved, BeforeWrite, Others, At
<1>11. \A d \in CaseIds : \A o : Claims(d, o)' <=> Claims(d, o)
  BY <1>1, <1>2, <1>3 DEF Claims, Others
<1>12. EffectIsClaimed'
  BY <1>1, <1>9, <1>11 DEF IInv, EffectIsClaimed
<1>13. ClaimIsInForce'
  BY <1>1, <1>9, <1>11, ClaimsKept DEF IInv
<1> QED BY <1>4, <1>5, <1>6, <1>7, <1>8, <1>10, <1>12, <1>13 DEF IInv

LEMMA InvWriteCase ==
    ASSUME IInv, NEW r \in Requests, WriteCase(r)
    PROVE  IInv'
<1> PICK c \in CaseIds : c = req[r].id
  BY DEF WriteCase, At, InFlight, IInv, WorkIsKnown
<1>1. /\ At(r, "write") /\ InFlight(r) /\ BeforeWrite(r)
      /\ case' = [case EXCEPT ![c] = req[r].row]
      /\ GoTo(r, "audit")
      /\ UNCHANGED <<about, resolved, links, audit, standing, applied>>
  BY DEF WriteCase, UpdateCaseRow, InFlight, BeforeWrite, At
<1>2. /\ req' \in [Requests -> Handler] /\ Others(r)
      /\ req'[r].pc = "audit" /\ req'[r].id = c /\ req'[r].row = req[r].row
      /\ req'[r].read = req[r].read /\ req'[r].faulty = req[r].faulty
  <2>1. "audit" \in PCs
    BY DEF PCs
  <2> QED BY <1>1, <2>1, GoingOn DEF IInv
<1>3. /\ req[r].row \in CaseRow
      /\ req[r].row.target = case[c].target
      /\ case[c].status # "absent"
      /\ req[r].row.status \in {"underReview", "resolved"}
      /\ ~Resolving(r) => req[r].row.outcome = None
      /\ Resolving(r) <=> req[r].row.status = "resolved"
  BY <1>1, HandlerFields DEF IInv, TypeOK, WorkIsKnown, Resolving
<1>4. /\ case' \in [CaseIds -> CaseRow]
      /\ case'[c] = req[r].row
      /\ \A d \in CaseIds : d # c => case'[d] = case[d]
      /\ \A d \in CaseIds : case'[d].target = case[d].target
  BY <1>1, <1>3 DEF IInv, TypeOK
<1>5. TypeOK'
  BY <1>1, <1>2, <1>3, <1>4 DEF IInv, TypeOK
<1>6. /\ InFlight(r)' /\ ~OnTheWay(r)' /\ (OnTheWay(r) <=> Resolving(r))
      /\ HasActed(r)' <=> HasActed(r)
      /\ \A q \in Requests : q # r =>
           /\ InFlight(q)' <=> InFlight(q)
           /\ HasActed(q)' <=> HasActed(q)
           /\ OnTheWay(q)' <=> OnTheWay(q)
  BY <1>1, <1>2 DEF InFlight, HasActed, OnTheWay, BeforeWrite, At, Others, Resolving
<1>7. WorkIsKnown'
  BY <1>1, <1>2, <1>3, <1>4, <1>6 DEF IInv, WorkIsKnown, Others, Resolving, At
<1>8. CasesAreKnown'
  BY <1>1, <1>3, <1>4 DEF IInv, CasesAreKnown
<1>9. AppliedToExisting'
  <2>1. \A d \in CaseIds : case[d].status # "absent" => case'[d].status # "absent"
    BY <1>3, <1>4
  <2> QED BY <1>1, <2>1 DEF IInv, TypeOK, AppliedToExisting
<1>10. ActedIsApplied' /\ OverlapShows'
  BY <1>1, <1>2, <1>6 DEF IInv, ActedIsApplied, OverlapShows, Others
<1>11. MarkedBeforeWrite'
  BY <1>1, <1>2 DEF IInv, MarkedBeforeWrite, Others, Resolving, At
<1>12. ResolvedWasApplied'
  <2>1. Resolving(r) => <<c, req[r].row.outcome>> \in applied /\ links[c] \subseteq resolved
    BY <1>1 DEF IInv, ActedIsApplied, MarkedBeforeWrite, HasActed, Resolving, At
  <2> QED BY <1>1, <1>3, <1>4, <2>1 DEF IInv, ResolvedWasApplied
<1>13. \A d \in CaseIds : /\ Clean(d)' <=> Clean(d)
                          /\ OnlyWorkedOn(d)' <=> OnlyWorkedOn(d)
  BY <1>2 DEF Clean, OnlyWorkedOn, Others
\* Without a fault no other request has the case.
<1>14. Clean(c) => \A q \in Requests : q # r /\ req[q].id = c => ~InFlight(q)
  BY <1>1, AloneWhenClean
<1>15. CleanIsUnresolved'
  BY <1>1, <1>2, <1>4, <1>13, <1>14
     DEF IInv, CleanIsUnresolved, BeforeWrite, Others, InFlight
<1>16. \A d \in CaseIds : \A o : Clean(d) => (Claims(d, o)' <=> Claims(d, o))
  <2>1. ASSUME Clean(c), NEW o PROVE Claims(c, o)' <=> Claims(c, o)
    <3>1. case[c].status # "resolved"
      BY <1>1, <2>1 DEF IInv, CleanIsUnresolved
    <3>2. \A q \in Requests : q # r /\ req[q].id = c => ~OnTheWay(q)
      BY <1>14, <2>1 DEF OnTheWay, BeforeWrite, InFlight
    <3>3. Claims(c, o) <=> Resolving(r) /\ req[r].row.outcome = o
      BY <1>6, <3>1, <3>2 DEF Claims
    <3>4. Claims(c, o)' <=> Resolving(r) /\ req[r].row.outcome = o
      BY <1>2, <1>3, <1>4, <1>6, <3>2 DEF Claims, Others
    <3> QED BY <3>3, <3>4
  <2>2. \A d \in CaseIds : \A o : d # c => (Claims(d, o)' <=> Claims(d, o))
    BY <1>2, <1>4, <1>6 DEF Claims, Others
  <2> QED BY <2>1, <2>2
<1>17. EffectIsClaimed'
  BY <1>1, <1>13, <1>16 DEF IInv, EffectIsClaimed
<1>18. ClaimIsInForce'
  <2>1. \A d \in CaseIds, t \in Targets, o \in AllOutcomes :
            OnlyWorkedOn(d)' /\ (case[d].target = t)' /\ Claims(d, o)' =>
                case[d].target = t /\ Claims(d, o)
    BY <1>4, <1>13, <1>16 DEF OnlyWorkedOn
  <2> QED BY <1>1, <1>13, <2>1, ClaimsKept DEF IInv
<1> QED BY <1>5, <1>7, <1>8, <1>9, <1>10, <1>11, <1>12, <1>15, <1>17, <1>18 DEF IInv

LEMMA InvWriteAudit ==
    ASSUME IInv, NEW r \in Requests, WriteAudit(r)
    PROVE  IInv'
<1>1. /\ At(r, "audit") /\ InFlight(r) /\ Leave(r, FALSE)
      /\ UNCHANGED <<about, resolved, case, links, standing, applied>>
  BY DEF WriteAudit, At, InFlight
<1>2. /\ req[r].id \in CaseIds
      /\ req[r].row.status = "resolved" => req[r].row.outcome \in AllOutcomes
      /\ req[r].row.status # "resolved" => req[r].row.status = "underReview"
  BY <1>1, CasesAssumption DEF IInv, WorkIsKnown, Resolving
<1>3. audit' \in SUBSET (CaseIds \X (AllOutcomes \union {"open", "underReview"}))
  BY <1>2 DEF IInv, TypeOK, WriteAudit, CreateActionOrNot, CreateAction
<1> QED BY <1>1, <1>3, InvLeave

LEMMA InvNext == IInv /\ [Next]_vars => IInv'
<1> SUFFICES ASSUME IInv, [Next]_vars PROVE IInv'
  OBVIOUS
<1>1. CASE HandleReport
  BY <1>1, InvFileReport DEF HandleReport
<1>2. CASE HandleCreateCase
  BY <1>2, InvCreateCase DEF HandleCreateCase
<1>3. ASSUME NEW r \in Requests, HandleUpdateCase(r) PROVE IInv'
  BY <1>3, InvReadCase DEF HandleUpdateCase
<1>4. ASSUME NEW r \in Requests,
             \/ ApplyOutcome(r) \/ CheckNotes(r) \/ ResolveReports(r)
             \/ WriteCase(r) \/ WriteAudit(r) \/ Stop(r)
      PROVE  IInv'
  BY <1>4, InvApplyOutcome, InvCheckNotes, InvResolveReports, InvWriteCase, InvWriteAudit,
     InvStop
<1>5. CASE UNCHANGED vars
  <2>1. UNCHANGED <<about, resolved, case, links, audit, standing, req, applied>>
    BY <1>5 DEF vars, desk
  <2>2. TypeOK' /\ WorkIsKnown' /\ CasesAreKnown' /\ AppliedToExisting' /\ ResolvedWasApplied'
    BY <2>1 DEF IInv, TypeOK, WorkIsKnown, CasesAreKnown, AppliedToExisting,
       ResolvedWasApplied, Resolving, InFlight, At
  <2>3. ActedIsApplied' /\ MarkedBeforeWrite' /\ OverlapShows'
    BY <2>1 DEF IInv, ActedIsApplied, MarkedBeforeWrite, OverlapShows, Resolving, HasActed,
       InFlight, At
  <2>4. \A d \in CaseIds : \A o : /\ Claims(d, o)' <=> Claims(d, o)
                                  /\ Clean(d)' <=> Clean(d)
                                  /\ OnlyWorkedOn(d)' <=> OnlyWorkedOn(d)
    BY <2>1 DEF Claims, Clean, OnlyWorkedOn, OnTheWay, BeforeWrite, HasActed, At
  <2>5. CleanIsUnresolved' /\ EffectIsClaimed'
    BY <2>1, <2>4 DEF IInv, CleanIsUnresolved, EffectIsClaimed, BeforeWrite
  <2>6. ClaimIsInForce'
    BY <2>1, <2>4, ClaimsKept DEF IInv
  <2> QED BY <2>2, <2>3, <2>5, <2>6 DEF IInv
<1> QED BY <1>1, <1>2, <1>3, <1>4, <1>5 DEF Next

-----------------------------------------------------------------------------
(***************************************************************************)
(* The inductive invariant, and what it implies.                           *)
(***************************************************************************)
\* In every reachable state the tables agree with what the requests carry.
THEOREM Invariance == Spec => []IInv
<1>1. IInv /\ [Next]_vars => IInv'
  BY InvNext
<1> QED BY InvInit, <1>1, PTL DEF Spec

\* Every table and every request keeps its type; no case that is not resolved
\* has an outcome.
THEOREM TypeCorrect == Spec => []TypeOK
<1>1. IInv => TypeOK
  BY DEF IInv
<1> QED BY Invariance, <1>1, PTL

\* A case that says it is resolved names an outcome that took effect, and its
\* reports are closed, whoever stopped or worked on it at the same time.
THEOREM ResolutionsHold == Spec => []ResolvedWasApplied
<1>1. IInv => ResolvedWasApplied
  BY DEF IInv
<1> QED BY Invariance, <1>1, PTL

\* Without a fault and at rest, an outcome that took effect is the one the case
\* names, and what the only case calls for is in force.
THEOREM EffectsHold == Spec => []EffectAndRecordAgree
<1>1. ASSUME IInv, NEW c \in CaseIds, Undisturbed(c)
      PROVE  /\ Clean(c)
             /\ \A o : Claims(c, o) => case[c].status = "resolved" /\ case[c].outcome = o
  BY <1>1 DEF Undisturbed, Clean, Claims, OnTheWay, BeforeWrite, InFlight
<1>2. IInv => EffectIsRecorded
  BY <1>1 DEF IInv, EffectIsClaimed, EffectIsRecorded
<1>3. IInv => RecordIsInForce
  <2> SUFFICES ASSUME IInv, NEW c \in CaseIds, case[c].status = "resolved", Undisturbed(c),
                      \A r \in Requests : req[r].id \in {c, None}
               PROVE  InForce(case[c].target, case[c].outcome)
    BY DEF RecordIsInForce
  <2>1. case[c].target \in Targets /\ case[c].outcome \in AllOutcomes
    BY DEF IInv, TypeOK, CasesAreKnown, ResolvedWasApplied
  <2>2. OnlyWorkedOn(c) /\ Claims(c, case[c].outcome)
    BY <1>1 DEF OnlyWorkedOn, Claims
  <2> QED BY <2>1, <2>2 DEF IInv, ClaimIsInForce
<1>4. IInv => EffectAndRecordAgree
  BY <1>2, <1>3 DEF EffectAndRecordAgree
<1> QED BY Invariance, <1>4, PTL

\* A resolved case is written again only by a request that had read it unresolved.
THEOREM ReopenedByStaleOnly == Spec => ReopenedOnlyByStale
<1> DEFINE StaleWrite == \A c \in CaseIds :
               case[c].status = "resolved" /\ case'[c] # case[c] =>
                   \E r \in Requests : /\ At(r, "write")
                                       /\ req[r].id = c
                                       /\ req[r].read # "resolved"
<1>1. IInv /\ [Next]_vars => [StaleWrite]_vars
  <2> SUFFICES ASSUME IInv, Next, NEW c \in CaseIds,
                      case[c].status = "resolved", case'[c] # case[c]
               PROVE  \E r \in Requests : /\ At(r, "write")
                                          /\ req[r].id = c
                                          /\ req[r].read # "resolved"
    OBVIOUS
  <2>1. CASE HandleReport
    BY <2>1 DEF HandleReport, FileReport
  <2>2. CASE HandleCreateCase
    BY <2>2, NoCaseTyped DEF HandleCreateCase, CreateCase, InsertCase, IInv, TypeOK
  <2>3. ASSUME NEW r \in Requests,
               \/ HandleUpdateCase(r) \/ ApplyOutcome(r) \/ CheckNotes(r)
               \/ ResolveReports(r) \/ WriteAudit(r) \/ Stop(r)
        PROVE  FALSE
    BY <2>3 DEF HandleUpdateCase, ReadCase, ApplyOutcome, CheckNotes, ResolveReports,
       WriteAudit, Stop, desk
  <2>4. ASSUME NEW r \in Requests, WriteCase(r)
        PROVE  At(r, "write") /\ req[r].id = c /\ req[r].read # "resolved"
    <3>1. At(r, "write") /\ req[r].id = c
      BY <2>4 DEF WriteCase, UpdateCaseRow, IInv, TypeOK
    <3>2. req[r].read \in {"open", "underReview"}
      BY <3>1 DEF IInv, WorkIsKnown, InFlight, At
    <3> QED BY <3>1, <3>2
  <2> QED BY <2>1, <2>2, <2>3, <2>4 DEF Next
<1> QED BY Invariance, <1>1, PTL DEF Spec, ReopenedOnlyByStale

-----------------------------------------------------------------------------
(***************************************************************************)
(* The cases implement the docket.                                         *)
(***************************************************************************)
Decisions == {<<case[d[1]].target, d[2]>> : d \in applied}

LEMMA DocketInitial == Init => Desk!DocketInit
BY DEF Init, Desk!DocketInit

LEMMA SameDecisions ==
    ASSUME TypeOK, UNCHANGED applied, \A d \in applied : case'[d[1]].target = case[d[1]].target
    PROVE  UNCHANGED Decisions
BY DEF Decisions

LEMMA DocketStep == IInv /\ [Next]_vars => [Desk!DocketNext]_Desk!docket
<1> SUFFICES ASSUME IInv, [Next]_vars PROVE [Desk!DocketNext]_Desk!docket
  OBVIOUS
<1> USE DEF Desk!DocketNext, Desk!docket
<1>1. ASSUME NEW p \in Reports, NEW t \in Targets, NEW self \in BOOLEAN, FileReport(p, t, self)
      PROVE  Desk!File(p, t)
  <2>1. about[p] = None /\ about' = [about EXCEPT ![p] = t] /\ UNCHANGED resolved
    BY <1>1 DEF FileReport, InsertReport
  <2>2. UNCHANGED Decisions
    BY <1>1, SameDecisions DEF FileReport, IInv
  <2> QED BY <2>1, <2>2 DEF Desk!File, Decisions
<1>2. ASSUME NEW c \in CaseIds, NEW t \in Targets, NEW R \in SUBSET Reports, CreateCase(c, t, R)
      PROVE  UNCHANGED Desk!docket
  <2>1. UNCHANGED <<about, resolved, applied>> /\ case[c].status = "absent"
    BY <1>2, NoCaseTyped DEF CreateCase, InsertCase
  <2>2. \A d \in applied : case'[d[1]].target = case[d[1]].target
    BY <1>2, <2>1 DEF IInv, TypeOK, AppliedToExisting, CreateCase, InsertCase
  <2>3. UNCHANGED Decisions
    BY <2>1, <2>2, SameDecisions DEF IInv
  <2> QED BY <2>1, <2>3 DEF Decisions
<1>3. ASSUME NEW r \in Requests,
             HandleUpdateCase(r) \/ CheckNotes(r) \/ WriteAudit(r) \/ Stop(r)
      PROVE  UNCHANGED Desk!docket
  <2>1. UNCHANGED <<about, resolved, applied, case>>
    BY <1>3 DEF HandleUpdateCase, ReadCase, CheckNotes, WriteAudit, Stop, desk
  <2>2. UNCHANGED Decisions
    BY <2>1, SameDecisions DEF IInv
  <2> QED BY <2>1, <2>2 DEF Decisions
<1>4. ASSUME NEW r \in Requests, ApplyOutcome(r)
      PROVE  \E t \in Targets, o \in Outcomes : Desk!Decide(t, o)
  <2>1. /\ req[r].id \in CaseIds /\ case[req[r].id].status # "absent"
        /\ req[r].row.target = case[req[r].id].target
        /\ req[r].row.outcome \in Outcomes
    BY <1>4 DEF ApplyOutcome, IInv, WorkIsKnown, InFlight, At
  <2> PICK c \in CaseIds, t \in Targets, o \in Outcomes :
          c = req[r].id /\ t = case[c].target /\ o = req[r].row.outcome
    BY <2>1 DEF IInv, CasesAreKnown
  <2>2. \E p \in Reports : about[p] = t
    BY <2>1 DEF IInv, TypeOK, CasesAreKnown
  <2>3. /\ applied' = applied \union {<<c, o>>}
        /\ UNCHANGED <<about, resolved, case>>
    BY <1>4 DEF ApplyOutcome
  <2>4. Decisions' = Decisions \union {<<t, o>>}
    <3>1. Decisions' = {<<case[d[1]].target, d[2]>> : d \in applied \union {<<c, o>>}}
      BY <2>3 DEF Decisions
    <3>2. <<c, o>>[1] = c /\ <<c, o>>[2] = o
      OBVIOUS
    <3>3. ASSUME NEW x \in Decisions' PROVE x \in Decisions \union {<<t, o>>}
      BY <3>1, <3>2 DEF Decisions
    <3>4. ASSUME NEW x \in Decisions \union {<<t, o>>} PROVE x \in Decisions'
      BY <3>1, <3>2 DEF Decisions
    <3> QED BY <3>3, <3>4
  <2> QED BY <2>2, <2>3, <2>4 DEF Desk!Decide, Decisions
<1>5. ASSUME NEW r \in Requests, ResolveReports(r)
      PROVE  \E R \in SUBSET Reports : Desk!Close(R)
  <2>1. /\ req[r].id \in CaseIds /\ case[req[r].id].status # "absent"
        /\ req[r].row.outcome \in Outcomes
        /\ <<req[r].id, req[r].row.outcome>> \in applied
    BY <1>5 DEF ResolveReports, IInv, WorkIsKnown, ActedIsApplied, HasActed, Resolving,
       InFlight, At
  <2> PICK c \in CaseIds, t \in Targets, o \in Outcomes :
          c = req[r].id /\ t = case[c].target /\ o = req[r].row.outcome
    BY <2>1 DEF IInv, CasesAreKnown
  <2>2. <<t, o>> \in Decisions
    BY <2>1 DEF Decisions
  <2>3. links[c] \in SUBSET Reports /\ \A p \in links[c] : about[p] = t
    BY <2>1 DEF IInv, TypeOK, CasesAreKnown
  <2>4. /\ resolved' = resolved \union links[c]
        /\ UNCHANGED <<about, case, applied>>
    BY <1>5 DEF ResolveReports, MarkReportsResolvedForCase
  <2>5. UNCHANGED Decisions
    BY <2>4, SameDecisions DEF IInv
  <2>6. Desk!Close(links[c])
    BY <2>2, <2>3, <2>4, <2>5 DEF Desk!Close, Decisions
  <2> QED BY <2>3, <2>6
<1>6. ASSUME NEW r \in Requests, WriteCase(r)
      PROVE  UNCHANGED Desk!docket
  <2>1. UNCHANGED <<about, resolved, applied>>
    BY <1>6 DEF WriteCase
  <2>2. /\ req[r].id \in CaseIds
        /\ req[r].row.target = case[req[r].id].target
        /\ case' = [case EXCEPT ![req[r].id] = req[r].row]
    BY <1>6 DEF WriteCase, UpdateCaseRow, IInv, WorkIsKnown, InFlight, At
  <2>3. \A d \in applied : case'[d[1]].target = case[d[1]].target
    BY <2>2 DEF IInv, TypeOK
  <2>4. UNCHANGED Decisions
    BY <2>1, <2>3, SameDecisions DEF IInv
  <2> QED BY <2>1, <2>4 DEF Decisions
<1>7. CASE UNCHANGED vars
  <2>1. UNCHANGED <<about, resolved, applied, case>>
    BY <1>7 DEF vars, desk
  <2>2. UNCHANGED Decisions
    BY <2>1, SameDecisions DEF IInv
  <2> QED BY <2>1, <2>2 DEF Decisions
<1> HIDE DEF Desk!docket
<1> QED BY <1>1, <1>2, <1>3, <1>4, <1>5, <1>6, <1>7 DEF Next, HandleReport, HandleCreateCase

\* What the handlers do to reports and targets is what the docket allows:
\* reports are closed after a decision on what they are about, and stay closed.
THEOREM DocketRefinement == Spec => ImplementsDocket
<1>1. IInv /\ [Next]_vars => [Desk!DocketNext]_Desk!docket
  BY DocketStep
<1> QED BY DocketInitial, Invariance, <1>1, PTL DEF Spec, ImplementsDocket, Desk!DocketSpec
=============================================================================
