---------------------------- MODULE Registration ----------------------------
(***************************************************************************)
(* Registration by invite code (services/api/internal/auth): Register,     *)
(* CreateInviteCode and RevokeInviteCode over the users and invite_codes   *)
(* tables.                                                                 *)
(*                                                                         *)
(* Register checks the code and the name with two plain reads and then     *)
(* runs CreateUserAndConsumeInviteCode, a READ COMMITTED transaction of    *)
(* two statements.  Its locks are modelled: an INSERT waits for another    *)
(* open transaction that inserted the same name (unique index), an UPDATE  *)
(* or DELETE of a code row waits for the open transaction that updated it, *)
(* and both look at the committed row again once they stop waiting.        *)
(* Inside the transaction now() is the time the transaction began.         *)
(***************************************************************************)
EXTENDS Integers, FiniteSets

CONSTANTS
    Codes,          \* values of invite_codes.code; a random code never repeats
    Names,          \* normalized usernames
    Handlers,       \* POST /v1/auth/register requests running at the same time
    Staff,          \* DELETE /v1/invite-codes/{id} requests running at the same time
    Expiries,       \* the expiresAt values staff choose
    MaxTime,        \* bound: the clock stops here
    None            \* nobody, no code

ASSUME RegistrationAssumption ==
    /\ Expiries \subseteq Nat
    /\ MaxTime \in Nat
    /\ None \notin Names \union Codes

VARIABLES
    now,        \* the clock of the server and of the database
    issued,     \* the codes CreateInviteCode has inserted so far
    rows,       \* the codes that have a row in invite_codes
    usedBy,     \* invite_codes.used_by (used_at is set with it)
    expiresAt,  \* invite_codes.expires_at
    users,      \* the committed rows of users
    signedIn,   \* the users whose registration inserted a session
    admits,     \* history: the user that was registered with each code
    overtaken,  \* history: the codes a revocation had in hand when they were used
    reg,        \* the local state of each registration
    rev         \* the local state of each revocation

codeVars == <<issued, rows, usedBy, expiresAt>>
history == <<admits, overtaken>>
vars == <<now, codeVars, users, signedIn, history, reg, rev>>

Never == -1
Answers == {"none", "registered", "failed", "nameTaken",
            "codeInvalid", "codeUsed", "codeExpired"}

Registrations ==
    [pc : {"idle", "checkName", "begin", "insertUser", "consume", "commit", "session"},
     name : Names \union {None}, code : Codes \union {None},
     start : Nat, answer : Answers]

Revocations == [pc : {"idle", "delete"}, code : Codes \union {None}]

TypeOK ==
    /\ now \in Nat
    /\ issued \in SUBSET Codes
    /\ rows \in SUBSET Codes
    /\ usedBy \in [Codes -> Names \union {None}]
    /\ expiresAt \in [Codes -> Nat \union {Never}]
    /\ users \in SUBSET Names
    /\ signedIn \in SUBSET Names
    /\ admits \in [Codes -> Names \union {None}]
    /\ overtaken \in SUBSET Codes
    /\ reg \in [Handlers -> Registrations]
    /\ rev \in [Staff -> Revocations]

NoRegistration == [pc |-> "idle", name |-> None, code |-> None, start |-> 0,
                   answer |-> "none"]
NoRevocation == [pc |-> "idle", code |-> None]

Init ==
    /\ now = 0
    /\ issued = {}
    /\ rows = {}
    /\ usedBy = [c \in Codes |-> None]
    /\ expiresAt = [c \in Codes |-> Never]
    /\ users = {}
    /\ signedIn = {}
    /\ admits = [c \in Codes |-> None]
    /\ overtaken = {}
    /\ reg = [h \in Handlers |-> NoRegistration]
    /\ rev = [a \in Staff |-> NoRevocation]

-----------------------------------------------------------------------------
(***************************************************************************)
(* The tables and their locks.                                             *)
(***************************************************************************)
CreateInviteCode(c, e) ==
    /\ c \notin issued
    /\ issued' = issued \union {c}
    /\ rows' = rows \union {c}
    /\ expiresAt' = [expiresAt EXCEPT ![c] = e]
    /\ UNCHANGED <<now, usedBy, users, signedIn, history, reg, rev>>

\* expires_at IS NULL OR expires_at > t
Unexpired(c, t) == expiresAt[c] = Never \/ expiresAt[c] > t

Consumable(c, t) == c \in rows /\ usedBy[c] = None /\ Unexpired(c, t)

At(h, pc) == reg[h].pc = pc

\* The open transactions that inserted a name, and that updated a code row.
NameLocked(n) == \E h \in Handlers : reg[h].name = n /\ reg[h].pc \in {"consume", "commit"}

\* A lock taken on a second connection, which the holder waits for as well.
CodeLockedBySelf(c) ==
    \E h \in Handlers : reg[h].code = c /\ reg[h].pc \in {"consume", "commit"}

CodeLocked(c) == \E h \in Handlers : reg[h].code = c /\ reg[h].pc = "commit"

Answer(h, a) == reg' = [reg EXCEPT ![h] = [NoRegistration EXCEPT !.answer = a]]

(***************************************************************************)
(* verifyInviteCode: a read; an answer when the code cannot be used.       *)
(***************************************************************************)
VerifyInviteCode(h, n, c) ==
    /\ At(h, "idle")
    /\ IF c \notin rows THEN Answer(h, "codeInvalid")
       ELSE IF usedBy[c] # None THEN Answer(h, "codeUsed")
       ELSE IF expiresAt[c] # Never /\ expiresAt[c] < now THEN Answer(h, "codeExpired")
       ELSE reg' = [reg EXCEPT ![h] = [NoRegistration EXCEPT !.pc = "checkName",
                                          !.name = n, !.code = c]]
    /\ UNCHANGED <<now, codeVars, users, signedIn, history, rev>>

\* GetUserByUsername, and the password hash.
CheckName(h) ==
    /\ At(h, "checkName")
    /\ IF reg[h].name \in users
       THEN Answer(h, "nameTaken")
       ELSE reg' = [reg EXCEPT ![h].pc = "begin"]
    /\ UNCHANGED <<now, codeVars, users, signedIn, history, rev>>

\* BEGIN: the time that now() has in every statement of the transaction.
Begin(h) ==
    /\ At(h, "begin")
    /\ reg' = [reg EXCEPT ![h].pc = "insertUser", ![h].start = now]
    /\ UNCHANGED <<now, codeVars, users, signedIn, history, rev>>

\* INSERT INTO users: 23505 means the name is taken.
InsertUser(h) ==
    /\ At(h, "insertUser")
    /\ ~NameLocked(reg[h].name)
    /\ IF reg[h].name \in users
       THEN Answer(h, "nameTaken")
       ELSE reg' = [reg EXCEPT ![h].pc = "consume"]
    /\ UNCHANGED <<now, codeVars, users, signedIn, history, rev>>

\* An UPDATE that trusts verifyInviteCode and matches the code only.
ConsumeUnchecked(h) ==
    /\ At(h, "consume")
    /\ ~CodeLocked(reg[h].code)
    /\ reg' = [reg EXCEPT ![h].pc = "commit"]
    /\ UNCHANGED <<now, codeVars, users, signedIn, history, rev>>

\* UPDATE invite_codes: no row updated rolls the transaction back.
ConsumeInviteCode(h) ==
    /\ At(h, "consume")
    /\ ~CodeLocked(reg[h].code)
    /\ IF Consumable(reg[h].code, reg[h].start)
       THEN reg' = [reg EXCEPT ![h].pc = "commit"]
       ELSE Answer(h, "codeUsed")
    /\ UNCHANGED <<now, codeVars, users, signedIn, history, rev>>

\* The history of a commit.
Admitted(h) ==
    /\ admits' = [admits EXCEPT ![reg[h].code] = reg[h].name]
    /\ overtaken' = overtaken \union ({reg[h].code} \cap {rev[a].code : a \in Staff})

\* used_by set to the code: the UPDATE's placeholders swapped.
CommitSwapped(h) ==
    /\ At(h, "commit")
    /\ users' = users \union {reg[h].name}
    /\ usedBy' = [usedBy EXCEPT ![reg[h].code] = reg[h].code]
    /\ Admitted(h)
    /\ reg' = [reg EXCEPT ![h].pc = "session"]
    /\ UNCHANGED <<now, issued, rows, expiresAt, signedIn, rev>>

Commit(h) ==
    /\ At(h, "commit")
    /\ users' = users \union {reg[h].name}
    /\ usedBy' = [usedBy EXCEPT ![reg[h].code] = reg[h].name]
    /\ Admitted(h)
    /\ reg' = [reg EXCEPT ![h].pc = "session"]
    /\ UNCHANGED <<now, issued, rows, expiresAt, signedIn, rev>>

\* createSession, after the transaction.
CreateSession(h) ==
    /\ At(h, "session")
    /\ signedIn' = signedIn \union {reg[h].name}
    /\ Answer(h, "registered")
    /\ UNCHANGED <<now, codeVars, users, history, rev>>

\* A statement fails or the server stops: an open transaction rolls back.
Abandon(h) ==
    /\ ~At(h, "idle")
    /\ Answer(h, "failed")
    /\ UNCHANGED <<now, codeVars, users, signedIn, history, rev>>

(***************************************************************************)
(* RevokeInviteCode: read the row, refuse when it is used, then DELETE by  *)
(* id.                                                                     *)
(***************************************************************************)

\* The check of used_at is forgotten.
RevokeUnrefused(a, c) ==
    /\ rev[a].pc = "idle"
    /\ c \in rows
    /\ rev' = [rev EXCEPT ![a] = [pc |-> "delete", code |-> c]]
    /\ UNCHANGED <<now, codeVars, users, signedIn, history, reg>>

RevokeLookup(a, c) ==
    /\ rev[a].pc = "idle"
    /\ c \in rows
    /\ usedBy[c] = None
    /\ rev' = [rev EXCEPT ![a] = [pc |-> "delete", code |-> c]]
    /\ UNCHANGED <<now, codeVars, users, signedIn, history, reg>>

\* A DELETE that does not wait for the transaction holding the row.
DeleteUnlocked(a) ==
    /\ rev[a].pc = "delete"
    /\ rows' = rows \ {rev[a].code}
    /\ rev' = [rev EXCEPT ![a] = NoRevocation]
    /\ UNCHANGED <<now, issued, usedBy, expiresAt, users, signedIn, history, reg>>

DeleteInviteCode(a) ==
    /\ rev[a].pc = "delete"
    /\ ~CodeLocked(rev[a].code)
    /\ rows' = rows \ {rev[a].code}
    /\ rev' = [rev EXCEPT ![a] = NoRevocation]
    /\ UNCHANGED <<now, issued, usedBy, expiresAt, users, signedIn, history, reg>>

RevokeFails(a) ==
    /\ rev[a].pc = "delete"
    /\ rev' = [rev EXCEPT ![a] = NoRevocation]
    /\ UNCHANGED <<now, codeVars, users, signedIn, history, reg>>

Tick ==
    /\ now < MaxTime
    /\ now' = now + 1
    /\ UNCHANGED <<codeVars, users, signedIn, history, reg, rev>>

Next ==
    \/ \E c \in Codes, e \in Expiries \union {Never} : CreateInviteCode(c, e)
    \/ \E h \in Handlers, n \in Names, c \in Codes : VerifyInviteCode(h, n, c)
    \/ \E h \in Handlers :
          \/ CheckName(h)
          \/ Begin(h)
          \/ InsertUser(h)
          \/ ConsumeInviteCode(h)
          \/ Commit(h)
          \/ CreateSession(h)
          \/ Abandon(h)
    \/ \E a \in Staff, c \in Codes : RevokeLookup(a, c)
    \/ \E a \in Staff : DeleteInviteCode(a) \/ RevokeFails(a)
    \/ Tick

Spec == Init /\ [][Next]_vars

(***************************************************************************)
(* PostgreSQL queues the waiters of a lock, so a statement that can go on  *)
(* again and again does go on: strong fairness for the statements that     *)
(* wait, weak fairness for the others.  Clients owe nothing.               *)
(***************************************************************************)
FairSpec ==
    /\ Spec
    /\ \A h \in Handlers :
          /\ WF_vars(CheckName(h)) /\ WF_vars(Begin(h)) /\ SF_vars(InsertUser(h))
          /\ SF_vars(ConsumeInviteCode(h)) /\ WF_vars(Commit(h))
          /\ WF_vars(CreateSession(h))
    /\ \A a \in Staff : SF_vars(DeleteInviteCode(a))

-----------------------------------------------------------------------------
(***************************************************************************)
(* A code is single-use: two users were never registered with one code,    *)
(* nor one name with two codes, and each user was registered with a code.  *)
(***************************************************************************)
OneUserPerCode ==
    /\ \A c, d \in Codes : admits[c] # None /\ admits[c] = admits[d] => c = d
    /\ users = {admits[c] : c \in Codes} \ {None}

(***************************************************************************)
(* Revoking refuses a used code (service.go:258), but the refusal is of    *)
(* what was read, and the DELETE is by id.  A code that registered         *)
(* somebody loses its row only to a revocation that had read it unused     *)
(* and was still under way when the registration committed: never to one   *)
(* that came later, and never under an open transaction, which would       *)
(* register a user with a code that is no longer there.                    *)
(***************************************************************************)
LostOnlyToOverlap ==
    \A c \in Codes : admits[c] # None /\ c \notin rows => c \in overtaken

(***************************************************************************)
(* A transaction that is about to commit works on a row that is still      *)
(* there, unused, and unexpired when it began: nothing that other          *)
(* registrations and staff did since verifyInviteCode is overlooked.       *)
(***************************************************************************)
CommitIsValid ==
    \A h \in Handlers : At(h, "commit") =>
        Consumable(reg[h].code, reg[h].start) /\ reg[h].name \notin users

(***************************************************************************)
(* No two registrations and revocations wait for each other for ever:      *)
(* every registration ends with an answer.                                 *)
(***************************************************************************)
RegistrationAnswered == \A h \in Handlers : ~At(h, "idle") ~> At(h, "idle")

(***************************************************************************)
(* Registration implements the abstract ledger: issuing, registering and   *)
(* revoking are its steps, all the other steps leave it alone.             *)
(***************************************************************************)
Ledger == INSTANCE InviteLedger WITH open <- {c \in rows : usedBy[c] = None}

ImplementsLedger == Ledger!LedgerSpec

-----------------------------------------------------------------------------
(***************************************************************************)
(* "Revokes by DELETE; refuses when already used", which the code does not *)
(* keep: a code that registered somebody has its row.  A revocation that   *)
(* read the row before the registration committed deletes it after.        *)
(***************************************************************************)
UsedCodeIsKept == \A c \in Codes : admits[c] # None => c \in rows
=============================================================================
