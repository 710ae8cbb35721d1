------------------------- MODULE RegistrationProofs -------------------------
(***************************************************************************)
(* Proofs about Registration for any sets of codes, names, handlers and    *)
(* staff requests.  The inductive invariant adds to the checked properties *)
(* what the two locks of the transaction give: while a transaction is      *)
(* open no other one holds its name, and once it has updated its code row  *)
(* no other one holds that row; and what a revocation that has read its    *)
(* row still knows: the code is unused, or was used under its eyes.        *)
(***************************************************************************)
EXTENDS Registration, TLAPS

InTransaction(h) == reg[h].pc \in {"consume", "commit"}

\* What a registration works on exists.
WorkIsKnown ==
    \A h \in Handlers : ~At(h, "idle") =>
        reg[h].code \in Codes /\ reg[h].name \in Names

\* Codes that were not issued have no history, and rows are issued codes.
HistoryOfIssued ==
    /\ rows \subseteq issued
    /\ \A c \in Codes : c \notin issued => admits[c] = None /\ usedBy[c] = None

\* The unique index: the name of an open transaction is free and its alone.
NameIsReserved ==
    \A h \in Handlers : InTransaction(h) =>
        /\ reg[h].name \notin users
        /\ \A g \in Handlers : g # h /\ InTransaction(g) => reg[g].name # reg[h].name

\* The row lock: a code row is held by one transaction.
CodeIsHeldOnce ==
    \A h, g \in Handlers :
        At(h, "commit") /\ At(g, "commit") /\ h # g => reg[h].code # reg[g].code

\* A row names the user its code registered; nothing is said of lost rows.
RowsNameTheirUser == \A c \in rows : usedBy[c] = admits[c]

\* A revocation read its code unused: who used it since overtook it.
ReadBeforeUse ==
    \A a \in Staff : rev[a].pc = "delete" =>
        /\ rev[a].code \in Codes
        /\ admits[rev[a].code] # None => rev[a].code \in overtaken

IInv ==
    /\ TypeOK
    /\ WorkIsKnown
    /\ HistoryOfIssued
    /\ NameIsReserved
    /\ CodeIsHeldOnce
    /\ OneUserPerCode
    /\ RowsNameTheirUser
    /\ CommitIsValid
    /\ ReadBeforeUse
    /\ LostOnlyToOverlap

-----------------------------------------------------------------------------
(***************************************************************************)
(* Every value of the state has its type.                                  *)
(***************************************************************************)
LEMMA InitTypeOK == Init => TypeOK
BY RegistrationAssumption DEF Init, TypeOK, NoRegistration, NoRevocation,
   Registrations, Revocations, Answers, Never

LEMMA BegunRegistration ==
    ASSUME NEW r \in Registrations, NEW t \in Nat
    PROVE  [r EXCEPT !.pc = "insertUser", !.start = t] \in Registrations
BY DEF Registrations

LEMMA NextTypeOK == TypeOK /\ WorkIsKnown /\ [Next]_vars => TypeOK'
<1> SUFFICES ASSUME TypeOK, WorkIsKnown, [Next]_vars PROVE TypeOK'
  OBVIOUS
<1> USE RegistrationAssumption
<1> USE DEF TypeOK, codeVars, history, Admitted, At, Answer, NoRegistration, NoRevocation,
            Registrations, Revocations, Answers, Never
<1>1. CASE \E c \in Codes, e \in Expiries \union {Never} : CreateInviteCode(c, e)
  BY <1>1 DEF CreateInviteCode
<1>2. CASE \E h \in Handlers, n \in Names, c \in Codes : VerifyInviteCode(h, n, c)
  <2> PICK h \in Handlers, n \in Names, c \in Codes : VerifyInviteCode(h, n, c)
    BY <1>2
  <2>1. \/ \E a \in Answers : Answer(h, a)
        \/ reg' = [reg EXCEPT ![h] = [NoRegistration EXCEPT !.pc = "checkName",
                                        !.name = n, !.code = c]]
    BY DEF VerifyInviteCode
  <2>2. \A a \in Answers : [NoRegistration EXCEPT !.answer = a] \in Registrations
    OBVIOUS
  <2>3. [NoRegistration EXCEPT !.pc = "checkName", !.name = n, !.code = c]
            \in Registrations
    OBVIOUS
  <2>4. reg' \in [Handlers -> Registrations]
    <3> HIDE DEF NoRegistration, Registrations, Answers
    <3> QED BY <2>1, <2>2, <2>3
  <2> QED BY <2>4 DEF VerifyInviteCode
<1>3. ASSUME NEW h \in Handlers,
             \/ CheckName(h) \/ Begin(h) \/ InsertUser(h) \/ ConsumeInviteCode(h)
             \/ Commit(h) \/ CreateSession(h) \/ Abandon(h)
      PROVE  TypeOK'
  <2>1. CASE CheckName(h)
    BY <2>1 DEF CheckName
  <2>2. CASE InsertUser(h)
    <3>1. reg' \in [Handlers -> Registrations]
      <4>1. \/ Answer(h, "nameTaken")
            \/ reg' = [reg EXCEPT ![h].pc = "consume"]
        BY <2>2 DEF InsertUser
      <4>2. CASE Answer(h, "nameTaken")
        BY <4>2
      <4>3. CASE reg' = [reg EXCEPT ![h].pc = "consume"]
        BY <4>3
      <4> QED BY <4>1, <4>2, <4>3
    <3> QED BY <2>2, <3>1 DEF InsertUser
  <2>3. CASE ConsumeInviteCode(h)
    <3>1. reg' \in [Handlers -> Registrations]
      <4>1. \/ Answer(h, "codeUsed")
            \/ reg' = [reg EXCEPT ![h].pc = "commit"]
        BY <2>3 DEF ConsumeInviteCode
      <4>2. CASE Answer(h, "codeUsed")
        BY <4>2
      <4>3. CASE reg' = [reg EXCEPT ![h].pc = "commit"]
        BY <4>3
      <4> QED BY <4>1, <4>2, <4>3
    <3> QED BY <2>3, <3>1 DEF ConsumeInviteCode
  <2>4. CASE Commit(h)
    <3>1. reg[h].name \in Names /\ reg[h].code \in Codes
      BY <2>4 DEF Commit, WorkIsKnown
    <3> QED BY <2>4, <3>1 DEF Commit
  <2>5. CASE CreateSession(h)
    <3>1. reg[h].name \in Names
      BY <2>5 DEF CreateSession, WorkIsKnown
    <3> QED BY <2>5, <3>1 DEF CreateSession
  <2>6. CASE Abandon(h)
    BY <2>6 DEF Abandon
  <2>7. CASE Begin(h)
    <3>1. [reg[h] EXCEPT !.pc = "insertUser", !.start = now] \in Registrations
      BY BegunRegistration
    <3>2. reg' = [reg EXCEPT ![h] = [reg[h] EXCEPT !.pc = "insertUser", !.start = now]]
      BY <2>7 DEF Begin
    <3>3. reg' \in [Handlers -> Registrations]
      BY <3>1, <3>2
    <3> QED BY <2>7, <3>3 DEF Begin
  <2> QED BY <1>3, <2>1, <2>2, <2>3, <2>4, <2>5, <2>6, <2>7
<1>4. CASE \E a \in Staff, c \in Codes : RevokeLookup(a, c)
  BY <1>4 DEF RevokeLookup
<1>5. CASE \E a \in Staff : DeleteInviteCode(a) \/ RevokeFails(a)
  BY <1>5 DEF DeleteInviteCode, RevokeFails
<1>6. CASE Tick
  BY <1>6 DEF Tick
<1>7. CASE UNCHANGED vars
  BY <1>7 DEF vars
<1> QED BY <1>1, <1>2, <1>3, <1>4, <1>5, <1>6, <1>7 DEF Next
-----------------------------------------------------------------------------
(***************************************************************************)
(* The inductive invariant, action by action.  Most actions move one       *)
(* handler and leave the tables alone: MovesOnly collects what they share. *)
(***************************************************************************)
MovesOnly(h) ==
    /\ UNCHANGED <<codeVars, users, history, rev>>
    /\ \A g \in Handlers : g # h => reg'[g] = reg[g]

LEMMA InvInit == Init => IInv
<1> SUFFICES ASSUME Init PROVE IInv
  OBVIOUS
<1>1. TypeOK
  BY InitTypeOK
<1>2. WorkIsKnown /\ HistoryOfIssued /\ NameIsReserved /\ CodeIsHeldOnce /\ CommitIsValid
  BY DEF Init, WorkIsKnown, HistoryOfIssued, NameIsReserved, CodeIsHeldOnce,
         CommitIsValid, InTransaction, At, NoRegistration
<1>3. OneUserPerCode /\ RowsNameTheirUser
  BY DEF Init, OneUserPerCode, RowsNameTheirUser
<1>4. ReadBeforeUse /\ LostOnlyToOverlap
  BY DEF Init, ReadBeforeUse, LostOnlyToOverlap, NoRevocation
<1> QED BY <1>1, <1>2, <1>3, <1>4 DEF IInv

(***************************************************************************)
(* A handler that goes to or stays at a place outside the transaction      *)
(* disturbs nothing, as long as it works on a known code and name.         *)
(***************************************************************************)
LEMMA OutsideTransaction ==
    ASSUME IInv, TypeOK', NEW h \in Handlers, MovesOnly(h),
           reg'[h].pc \notin {"consume", "commit"},
           reg'[h].pc # "idle" => reg'[h].code \in Codes /\ reg'[h].name \in Names
    PROVE  IInv'
<1> USE DEF IInv, MovesOnly, codeVars, history, At, InTransaction
<1>1. WorkIsKnown'
  BY DEF WorkIsKnown
<1>2. HistoryOfIssued' /\ OneUserPerCode' /\ RowsNameTheirUser'
  BY DEF HistoryOfIssued, OneUserPerCode, RowsNameTheirUser
<1>3. NameIsReserved'
  BY DEF NameIsReserved
<1>4. CodeIsHeldOnce'
  BY DEF CodeIsHeldOnce
<1>5. CommitIsValid'
  BY DEF CommitIsValid, Consumable, Unexpired
<1>6. ReadBeforeUse' /\ LostOnlyToOverlap'
  BY DEF ReadBeforeUse, LostOnlyToOverlap
<1> QED BY <1>1, <1>2, <1>3, <1>4, <1>5, <1>6

LEMMA StepInsertUser ==
    ASSUME IInv, TypeOK', NEW h \in Handlers, InsertUser(h)
    PROVE  IInv'
<1>1. CASE reg[h].name \in users
  <2>1. MovesOnly(h) /\ reg'[h].pc = "idle"
    BY <1>1 DEF InsertUser, MovesOnly, Answer, NoRegistration, IInv, TypeOK
  <2> QED BY <2>1, OutsideTransaction
<1>2. CASE reg[h].name \notin users
  <2> USE DEF IInv, TypeOK, codeVars, history, At, InTransaction
  <2>1. /\ UNCHANGED <<codeVars, users, history, rev>>
        /\ reg' = [reg EXCEPT ![h].pc = "consume"]
        /\ reg[h].pc = "insertUser"
        /\ \A g \in Handlers : InTransaction(g) => reg[g].name # reg[h].name
    BY <1>2 DEF InsertUser, NameLocked
  <2>2. /\ reg'[h].pc = "consume" /\ reg'[h].name = reg[h].name
        /\ reg'[h].code = reg[h].code
        /\ \A g \in Handlers : g # h => reg'[g] = reg[g]
    BY <2>1
  <2>3. WorkIsKnown'
    BY <2>1, <2>2 DEF WorkIsKnown
  <2>4. HistoryOfIssued' /\ OneUserPerCode' /\ RowsNameTheirUser'
    BY <2>1 DEF HistoryOfIssued, OneUserPerCode, RowsNameTheirUser
  <2>5. NameIsReserved'
    BY <1>2, <2>1, <2>2 DEF NameIsReserved
  <2>6. CodeIsHeldOnce'
    BY <2>2 DEF CodeIsHeldOnce
  <2>7. CommitIsValid'
    BY <2>1, <2>2 DEF CommitIsValid, Consumable, Unexpired
  <2>8. ReadBeforeUse' /\ LostOnlyToOverlap'
    BY <2>1 DEF ReadBeforeUse, LostOnlyToOverlap
  <2> QED BY <2>3, <2>4, <2>5, <2>6, <2>7, <2>8
<1> QED BY <1>1, <1>2

LEMMA StepConsumeInviteCode ==
    ASSUME IInv, TypeOK', NEW h \in Handlers, ConsumeInviteCode(h)
    PROVE  IInv'
<1>1. CASE ~Consumable(reg[h].code, reg[h].start)
  <2>1. MovesOnly(h) /\ reg'[h].pc = "idle"
    BY <1>1 DEF ConsumeInviteCode, MovesOnly, Answer, NoRegistration, IInv, TypeOK
  <2> QED BY <2>1, OutsideTransaction
<1>2. CASE Consumable(reg[h].code, reg[h].start)
  <2> USE DEF IInv, TypeOK, codeVars, history, At, InTransaction
  <2>1. /\ UNCHANGED <<codeVars, users, history, rev>>
        /\ reg' = [reg EXCEPT ![h].pc = "commit"]
        /\ reg[h].pc = "consume"
        /\ \A g \in Handlers : reg[g].pc = "commit" => reg[g].code # reg[h].code
    BY <1>2 DEF ConsumeInviteCode, CodeLocked
  <2>2. /\ reg'[h].pc = "commit" /\ reg'[h].name = reg[h].name
        /\ reg'[h].code = reg[h].code /\ reg'[h].start = reg[h].start
        /\ \A g \in Handlers : g # h => reg'[g] = reg[g]
    BY <2>1
  <2>3. WorkIsKnown'
    BY <2>1, <2>2 DEF WorkIsKnown
  <2>4. HistoryOfIssued' /\ OneUserPerCode' /\ RowsNameTheirUser'
    BY <2>1 DEF HistoryOfIssued, OneUserPerCode, RowsNameTheirUser
  <2>5. NameIsReserved'
    BY <2>1, <2>2 DEF NameIsReserved
  <2>6. CodeIsHeldOnce'
    BY <2>1, <2>2 DEF CodeIsHeldOnce
  <2>7. CommitIsValid'
    BY <1>2, <2>1, <2>2 DEF CommitIsValid, Consumable, Unexpired, NameIsReserved
  <2>8. ReadBeforeUse' /\ LostOnlyToOverlap'
    BY <2>1 DEF ReadBeforeUse, LostOnlyToOverlap
  <2> QED BY <2>3, <2>4, <2>5, <2>6, <2>7, <2>8
<1> QED BY <1>1, <1>2

LEMMA StepCommit ==
    ASSUME IInv, TypeOK', NEW h \in Handlers, Commit(h)
    PROVE  IInv'
<1> USE DEF IInv, TypeOK, codeVars, history, At, InTransaction
<1> DEFINE n == reg[h].name
           c == reg[h].code
<1>1. /\ reg[h].pc = "commit"
      /\ n \in Names /\ c \in Codes /\ n # None
      /\ n \notin users
      /\ c \in rows /\ usedBy[c] = None /\ admits[c] = None
  BY RegistrationAssumption
     DEF Commit, WorkIsKnown, CommitIsValid, Consumable, RowsNameTheirUser
<1>2. /\ users' = users \union {n}
      /\ usedBy' = [usedBy EXCEPT ![c] = n]
      /\ admits' = [admits EXCEPT ![c] = n]
      /\ overtaken' = overtaken \union ({c} \cap {rev[a].code : a \in Staff})
      /\ UNCHANGED <<issued, rows, expiresAt, rev>>
      /\ reg'[h].pc = "session" /\ reg'[h].name = n /\ reg'[h].code = c
      /\ \A g \in Handlers : g # h => reg'[g] = reg[g]
  BY DEF Commit, Admitted
<1> HIDE DEF n, c
<1>3. WorkIsKnown'
  BY <1>1, <1>2 DEF WorkIsKnown
<1>4. HistoryOfIssued'
  BY <1>1, <1>2 DEF HistoryOfIssued
<1>5. \A d \in Codes : admits[d] # n
  BY <1>1 DEF OneUserPerCode
<1>6. OneUserPerCode'
  <2>1. \A d \in Codes : admits'[d] = IF d = c THEN n ELSE admits[d]
    BY <1>1, <1>2
  <2>2. \A d, e \in Codes : admits'[d] # None /\ admits'[d] = admits'[e] => d = e
    BY <1>5, <2>1 DEF OneUserPerCode
  <2>3. users' = {admits'[d] : d \in Codes} \ {None}
    BY <1>1, <1>2, <2>1 DEF OneUserPerCode
  <2> QED BY <2>2, <2>3 DEF OneUserPerCode
<1>7. RowsNameTheirUser'
  BY <1>1, <1>2 DEF RowsNameTheirUser
<1>8. ASSUME NEW g \in Handlers, InTransaction(g)'
      PROVE  g # h /\ InTransaction(g) /\ reg'[g] = reg[g] /\ reg[g].name # n
  BY <1>1, <1>2, <1>8 DEF NameIsReserved, n
<1>9. NameIsReserved'
  BY <1>2, <1>8 DEF NameIsReserved
<1>10. CodeIsHeldOnce'
  BY <1>8 DEF CodeIsHeldOnce
<1>11. CommitIsValid'
  <2> SUFFICES ASSUME NEW g \in Handlers, At(g, "commit")'
               PROVE  Consumable(reg[g].code, reg[g].start)' /\ reg'[g].name \notin users'
    BY DEF CommitIsValid
  <2>1. g # h /\ reg'[g] = reg[g] /\ reg[g].name # n
    BY <1>8
  <2>2. reg[g].code # c
    BY <1>1, <2>1 DEF CodeIsHeldOnce, c
  <2> QED BY <1>1, <1>2, <2>1, <2>2 DEF CommitIsValid, Consumable, Unexpired
\* Whoever has this code in hand is overtaken; the row itself stays.
<1>12. ReadBeforeUse'
  BY <1>1, <1>2 DEF ReadBeforeUse
<1>13. LostOnlyToOverlap'
  BY <1>1, <1>2 DEF LostOnlyToOverlap
<1> QED BY <1>3, <1>4, <1>6, <1>7, <1>9, <1>10, <1>11, <1>12, <1>13

LEMMA StepHandler ==
    ASSUME IInv, TypeOK', NEW h \in Handlers,
           \/ \E n \in Names, c \in Codes : VerifyInviteCode(h, n, c)
           \/ CheckName(h) \/ Begin(h) \/ CreateSession(h) \/ Abandon(h)
    PROVE  IInv'
<1> USE DEF IInv, TypeOK, Answer, NoRegistration, MovesOnly, history
<1>1. CASE \E n \in Names, c \in Codes : VerifyInviteCode(h, n, c)
  <2> PICK n \in Names, c \in Codes : VerifyInviteCode(h, n, c)
    BY <1>1
  <2>1. \/ \E a \in Answers : Answer(h, a)
        \/ reg' = [reg EXCEPT ![h] = [NoRegistration EXCEPT !.pc = "checkName",
                                        !.name = n, !.code = c]]
    BY DEF VerifyInviteCode, Answers
  <2>2. /\ \A g \in Handlers : g # h => reg'[g] = reg[g]
        /\ reg'[h].pc \in {"idle", "checkName"}
        /\ reg'[h].pc # "idle" => reg'[h].code = c /\ reg'[h].name = n
    <3>1. CASE \E a \in Answers : Answer(h, a)
      BY <3>1
    <3>2. CASE reg' = [reg EXCEPT ![h] = [NoRegistration EXCEPT !.pc = "checkName",
                                        !.name = n, !.code = c]]
      BY <3>2
    <3> QED BY <2>1, <3>1, <3>2
  <2>3. MovesOnly(h)
    BY <2>2 DEF VerifyInviteCode
  <2> QED BY <2>2, <2>3, OutsideTransaction
<1>2. CASE CheckName(h)
  <2>1. CASE reg[h].name \in users
    <3>1. MovesOnly(h) /\ reg'[h].pc = "idle"
      BY <1>2, <2>1 DEF CheckName
    <3> QED BY <3>1, OutsideTransaction
  <2>2. CASE reg[h].name \notin users
    <3>1. /\ UNCHANGED <<codeVars, users, history, rev>>
          /\ reg' = [reg EXCEPT ![h].pc = "begin"]
          /\ reg[h].pc = "checkName"
      BY <1>2, <2>2 DEF CheckName, At
    <3>2. /\ reg'[h].pc = "begin"
          /\ reg'[h].code = reg[h].code /\ reg'[h].name = reg[h].name
          /\ \A g \in Handlers : g # h => reg'[g] = reg[g]
      BY <3>1
    <3>3. reg[h].code \in Codes /\ reg[h].name \in Names
      BY <3>1 DEF WorkIsKnown, At
    <3> QED BY <3>1, <3>2, <3>3, OutsideTransaction
  <2> QED BY <2>1, <2>2
<1>3. CASE CreateSession(h)
  <2>1. MovesOnly(h) /\ reg'[h].pc = "idle"
    BY <1>3 DEF CreateSession
  <2> QED BY <2>1, OutsideTransaction
<1>4. CASE Abandon(h)
  <2>1. MovesOnly(h) /\ reg'[h].pc = "idle"
    BY <1>4 DEF Abandon
  <2> QED BY <2>1, OutsideTransaction
<1>5. CASE Begin(h)
  <2>1. /\ UNCHANGED <<codeVars, users, history, rev>>
        /\ reg' = [reg EXCEPT ![h].pc = "insertUser", ![h].start = now]
        /\ reg[h].pc = "begin"
    BY <1>5 DEF Begin, At
  <2>2. /\ reg'[h].pc = "insertUser"
        /\ reg'[h].code = reg[h].code /\ reg'[h].name = reg[h].name
        /\ \A g \in Handlers : g # h => reg'[g] = reg[g]
    BY <2>1
  <2>3. reg[h].code \in Codes /\ reg[h].name \in Names
    BY <2>1 DEF WorkIsKnown, At
  <2> QED BY <2>1, <2>2, <2>3, OutsideTransaction
<1> QED BY <1>1, <1>2, <1>3, <1>4, <1>5

LEMMA StepCreateInviteCode ==
    ASSUME IInv, TypeOK', NEW c \in Codes, NEW e, CreateInviteCode(c, e)
    PROVE  IInv'
<1> USE DEF IInv, TypeOK, history, At, InTransaction
<1>1. /\ c \notin issued /\ c \notin rows
      /\ issued' = issued \union {c} /\ rows' = rows \union {c}
      /\ UNCHANGED <<usedBy, users, admits, overtaken, reg, rev>>
      /\ \A d \in Codes : d # c => expiresAt'[d] = expiresAt[d]
  BY DEF CreateInviteCode, HistoryOfIssued
<1>2. WorkIsKnown' /\ NameIsReserved' /\ CodeIsHeldOnce' /\ OneUserPerCode'
  BY <1>1 DEF WorkIsKnown, NameIsReserved, CodeIsHeldOnce, OneUserPerCode
<1>3. HistoryOfIssued' /\ RowsNameTheirUser'
  BY <1>1 DEF HistoryOfIssued, RowsNameTheirUser
<1>4. CommitIsValid'
  BY <1>1 DEF CommitIsValid, Consumable, Unexpired
<1>5. ReadBeforeUse' /\ LostOnlyToOverlap'
  BY <1>1 DEF ReadBeforeUse, LostOnlyToOverlap
<1> QED BY <1>2, <1>3, <1>4, <1>5

\* The DELETE waits for the row lock, so no open transaction loses its row.
LEMMA StepDeleteInviteCode ==
    ASSUME IInv, TypeOK', NEW a \in Staff, DeleteInviteCode(a)
    PROVE  IInv'
<1> USE DEF IInv, TypeOK, history, At, InTransaction
<1>1. /\ rows' = rows \ {rev[a].code}
      /\ rev[a].pc = "delete"
      /\ rev' = [rev EXCEPT ![a] = NoRevocation]
      /\ UNCHANGED <<issued, usedBy, expiresAt, users, admits, overtaken, reg>>
      /\ \A h \in Handlers : reg[h].pc = "commit" => reg[h].code # rev[a].code
  BY DEF DeleteInviteCode, CodeLocked
<1>2. WorkIsKnown' /\ NameIsReserved' /\ CodeIsHeldOnce' /\ OneUserPerCode'
  BY <1>1 DEF WorkIsKnown, NameIsReserved, CodeIsHeldOnce, OneUserPerCode
<1>3. HistoryOfIssued' /\ RowsNameTheirUser'
  BY <1>1 DEF HistoryOfIssued, RowsNameTheirUser
<1>4. CommitIsValid'
  BY <1>1 DEF CommitIsValid, Consumable, Unexpired
<1>5. ReadBeforeUse'
  BY <1>1 DEF ReadBeforeUse, NoRevocation
\* The row is lost to a revocation that was overtaken, if the code was used.
<1>6. LostOnlyToOverlap'
  BY <1>1 DEF LostOnlyToOverlap, ReadBeforeUse
<1> QED BY <1>2, <1>3, <1>4, <1>5, <1>6

\* A revocation reads its code unused, so nobody was registered with it.
LEMMA StepRevokeLookup ==
    ASSUME IInv, TypeOK', NEW a \in Staff, NEW c \in Codes, RevokeLookup(a, c)
    PROVE  IInv'
<1> USE DEF IInv, TypeOK, codeVars, history, At, InTransaction
<1>1. /\ UNCHANGED <<codeVars, users, history, reg>>
      /\ admits[c] = None
      /\ rev' = [rev EXCEPT ![a] = [pc |-> "delete", code |-> c]]
  BY DEF RevokeLookup, RowsNameTheirUser
<1>2. /\ WorkIsKnown' /\ HistoryOfIssued' /\ NameIsReserved' /\ CodeIsHeldOnce'
      /\ OneUserPerCode' /\ RowsNameTheirUser' /\ CommitIsValid' /\ LostOnlyToOverlap'
  BY <1>1 DEF WorkIsKnown, HistoryOfIssued, NameIsReserved, CodeIsHeldOnce,
              OneUserPerCode, RowsNameTheirUser, CommitIsValid, Consumable, Unexpired,
              LostOnlyToOverlap
<1>3. ReadBeforeUse'
  BY <1>1 DEF ReadBeforeUse
<1> QED BY <1>2, <1>3

LEMMA StepElsewhere ==
    ASSUME IInv, TypeOK', UNCHANGED <<codeVars, users, history, reg>>,
           \A a \in Staff : rev'[a] = rev[a] \/ rev'[a].pc = "idle"
    PROVE  IInv'
BY DEF IInv, codeVars, history, ReadBeforeUse, LostOnlyToOverlap, WorkIsKnown, HistoryOfIssued, NameIsReserved, CodeIsHeldOnce,
       OneUserPerCode, RowsNameTheirUser, CommitIsValid, Consumable, Unexpired, At,
       InTransaction

LEMMA InvNext == IInv /\ [Next]_vars => IInv'
<1> SUFFICES ASSUME IInv, [Next]_vars PROVE IInv'
  OBVIOUS
<1> USE NextTypeOK DEF IInv
<1>1. CASE \E c \in Codes, e \in Expiries \union {Never} : CreateInviteCode(c, e)
  BY <1>1, StepCreateInviteCode
<1>2. CASE \E h \in Handlers, n \in Names, c \in Codes : VerifyInviteCode(h, n, c)
  BY <1>2, StepHandler
<1>3. ASSUME NEW h \in Handlers,
             \/ CheckName(h) \/ Begin(h) \/ InsertUser(h) \/ ConsumeInviteCode(h)
             \/ Commit(h) \/ CreateSession(h) \/ Abandon(h)
      PROVE  IInv'
  BY <1>3, StepHandler, StepInsertUser, StepConsumeInviteCode, StepCommit
<1>4. CASE \E a \in Staff, c \in Codes : RevokeLookup(a, c)
  BY <1>4, StepRevokeLookup
<1>5. CASE \E a \in Staff : DeleteInviteCode(a)
  BY <1>5, StepDeleteInviteCode
<1>6. CASE \E a \in Staff : RevokeFails(a)
  <2> PICK a \in Staff : RevokeFails(a)
    BY <1>6
  <2>1. \A b \in Staff : rev'[b] = rev[b] \/ rev'[b].pc = "idle"
    BY DEF RevokeFails, NoRevocation, TypeOK
  <2> QED BY <2>1, StepElsewhere DEF RevokeFails
<1>7. CASE Tick
  BY <1>7, StepElsewhere DEF Tick
<1>8. CASE UNCHANGED vars
  BY <1>8, StepElsewhere DEF vars
<1> QED BY <1>1, <1>2, <1>3, <1>4, <1>5, <1>6, <1>7, <1>8 DEF Next

-----------------------------------------------------------------------------
(***************************************************************************)
(* The inductive invariant holds in every reachable state.                 *)
(***************************************************************************)
THEOREM Invariance == Spec => []IInv
<1>1. IInv /\ [Next]_vars => IInv'
  BY InvNext
<1> QED BY InvInit, <1>1, PTL DEF Spec

(***************************************************************************)
(* The state of Registration always has its type.                          *)
(***************************************************************************)
THEOREM TypeCorrect == Spec => []TypeOK
<1>1. IInv => TypeOK
  BY DEF IInv
<1> QED BY Invariance, <1>1, PTL

(***************************************************************************)
(* Invite codes are single-use: however registrations, revocations and     *)
(* failures interleave, two users never share a code.                      *)
(***************************************************************************)
THEOREM SingleUse == Spec => []OneUserPerCode
<1>1. IInv => OneUserPerCode
  BY DEF IInv
<1> QED BY Invariance, <1>1, PTL

(***************************************************************************)
(* A used code loses its row only to a revocation that read it before its  *)
(* registration committed, whoever else registers, revokes, fails or waits *)
(* meanwhile: the refusal and the row lock leave this one way open.        *)
(***************************************************************************)
THEOREM UsedRowsLostToOverlap == Spec => []LostOnlyToOverlap
<1>1. IInv => LostOnlyToOverlap
  BY DEF IInv
<1> QED BY Invariance, <1>1, PTL

(***************************************************************************)
(* A transaction commits only over a code row that is there, unused, and   *)
(* unexpired when it began.                                                *)
(***************************************************************************)
THEOREM CommitValidity == Spec => []CommitIsValid
<1>1. IInv => CommitIsValid
  BY DEF IInv
<1> QED BY Invariance, <1>1, PTL

(***************************************************************************)
(* Every step of Registration is a step of the invite ledger or leaves the *)
(* ledger alone.                                                           *)
(***************************************************************************)
OpenCodes == {c \in rows : usedBy[c] = None}

LEMMA LedgerInitial == Init => Ledger!LedgerInit
BY DEF Init, Ledger!LedgerInit

LEMMA LedgerStep == IInv /\ [Next]_vars => [Ledger!LedgerNext]_Ledger!ledger
<1> SUFFICES ASSUME IInv, [Next]_vars
             PROVE  \/ Ledger!LedgerNext
                    \/ UNCHANGED <<issued, OpenCodes, admits>>
  BY DEF Ledger!ledger, OpenCodes
<1> USE DEF IInv, TypeOK, codeVars, history
<1>1. ASSUME NEW c \in Codes, NEW e, CreateInviteCode(c, e)
      PROVE  Ledger!Issue(c)
  <2>1. c \notin issued /\ c \notin rows /\ usedBy[c] = None
    BY <1>1 DEF CreateInviteCode, HistoryOfIssued
  <2> QED BY <1>1, <2>1 DEF CreateInviteCode, Ledger!Issue
<1>2. ASSUME NEW h \in Handlers, Commit(h)
      PROVE  \E c \in Codes, n \in Names : Ledger!Admit(c, n)
  <2>0. reg[h].code \in Codes /\ reg[h].name \in Names
    BY <1>2 DEF Commit, At, WorkIsKnown
  <2> PICK c \in Codes, n \in Names : c = reg[h].code /\ n = reg[h].name
    BY <2>0
  <2>1. /\ n \notin users
        /\ c \in rows /\ usedBy[c] = None /\ admits[c] = None
    BY <1>2 DEF Commit, At, CommitIsValid, Consumable, RowsNameTheirUser
  <2>2. \A d \in Codes : admits[d] # n
    BY <2>1, RegistrationAssumption DEF OneUserPerCode
  <2>3. /\ admits' = [admits EXCEPT ![c] = n]
        /\ OpenCodes' = OpenCodes \ {c}
        /\ UNCHANGED issued
    BY <1>2, <2>1, RegistrationAssumption DEF Commit, Admitted, OpenCodes
  <2>4. Ledger!Admit(c, n)
    BY <2>1, <2>2, <2>3 DEF Ledger!Admit, OpenCodes
  <2> QED BY <2>4
<1>3. ASSUME NEW a \in Staff, DeleteInviteCode(a)
      PROVE  \/ \E c \in Codes : Ledger!Withdraw(c)
             \/ UNCHANGED <<issued, OpenCodes, admits>>
  <2>1. /\ OpenCodes' = OpenCodes \ {rev[a].code}
        /\ UNCHANGED <<issued, admits>>
    BY <1>3 DEF DeleteInviteCode, OpenCodes
  <2>2. CASE rev[a].code \in OpenCodes
    <3> PICK c \in Codes : c = rev[a].code
      BY <2>2 DEF OpenCodes
    <3>1. Ledger!Withdraw(c)
      BY <2>1, <2>2 DEF Ledger!Withdraw, OpenCodes
    <3> QED BY <3>1
  <2>3. CASE rev[a].code \notin OpenCodes
    BY <2>1, <2>3
  <2> QED BY <2>2, <2>3
<1>4. ASSUME UNCHANGED <<codeVars, history>>
      PROVE  UNCHANGED <<issued, OpenCodes, admits>>
  BY <1>4 DEF OpenCodes
<1>5. CASE \E c \in Codes, e \in Expiries \union {Never} : CreateInviteCode(c, e)
  BY <1>1, <1>5 DEF Ledger!LedgerNext
<1>6. CASE \E h \in Handlers : Commit(h)
  BY <1>2, <1>6 DEF Ledger!LedgerNext
<1>7. CASE \E a \in Staff : DeleteInviteCode(a)
  BY <1>3, <1>7 DEF Ledger!LedgerNext
<1>8. CASE \/ \E h \in Handlers, n \in Names, c \in Codes : VerifyInviteCode(h, n, c)
           \/ \E h \in Handlers : \/ CheckName(h) \/ Begin(h) \/ InsertUser(h)
                                   \/ ConsumeInviteCode(h) \/ CreateSession(h)
                                   \/ Abandon(h)
           \/ \E a \in Staff, c \in Codes : RevokeLookup(a, c)
           \/ \E a \in Staff : RevokeFails(a)
           \/ Tick
           \/ UNCHANGED vars
  <2>1. UNCHANGED <<codeVars, history>>
    BY <1>8 DEF VerifyInviteCode, CheckName, Begin, InsertUser, ConsumeInviteCode,
                CreateSession, Abandon, RevokeLookup, RevokeFails, Tick, vars
  <2> QED BY <1>4, <2>1
<1> QED BY <1>5, <1>6, <1>7, <1>8 DEF Next

(***************************************************************************)
(* Registration implements the ledger: a code is issued once, admits at    *)
(* most one member or is withdrawn, and never opens again.                 *)
(***************************************************************************)
THEOREM LedgerRefinement == Spec => ImplementsLedger
<1>1. IInv /\ [Next]_vars => [Ledger!LedgerNext]_Ledger!ledger
  BY LedgerStep
<1> QED BY LedgerInitial, Invariance, <1>1, PTL DEF Spec, ImplementsLedger, Ledger!LedgerSpec
=============================================================================
