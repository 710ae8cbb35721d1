----------------------------- MODULE RealProfile -----------------------------
(***************************************************************************)
(* The account root's own requests (services/api/internal/identity): the   *)
(* change of its e-mail address by a mailed code, and data exports with    *)
(* the job that makes them ready.                                          *)
(*                                                                         *)
(* No request runs in a transaction: each statement is a step, and any     *)
(* request may stop before one.  A code is looked up by address, not by    *)
(* who asked for it.  How often a code may be asked for is in RateLimits,  *)
(* the account's own life in Accounts.                                     *)
(***************************************************************************)
EXTENDS Integers, FiniteSets

CONSTANTS
    Users, Addresses,
    Requests,       \* request handlers; each serves one request
    MaxCodes, MaxExports,           \* bounds: rows of email_codes, data_exports
    MaxNow,                         \* bound: the clock
    MaxAttempts,
    CodeLife, Cooldown, GracePeriod,        \* 10 minutes, 30 days, 5 minutes
    None

ASSUME RealProfileAssumption ==
    /\ IsFiniteSet(Requests)
    /\ None \notin Users \union Addresses
    /\ {MaxCodes, MaxExports, MaxNow, CodeLife, Cooldown, GracePeriod} \subseteq Nat
    /\ MaxAttempts \in Nat \ {0}

VARIABLES
    now,
    address,        \* users.email_normalized; None: NULL
    codes,          \* rows of email_codes with purpose email_change, oldest first
    mailed,         \* the codes that reached their mailbox
    exports,        \* rows of data_exports, oldest first
    job,            \* ProcessPendingExports: the exports it still has to write
    req             \* the local state of each request

vars == <<now, address, codes, mailed, exports, job, req>>

Code == [email : Addresses, attempts : Nat, used : BOOLEAN, expires : Nat]

Export == [user : Users, requested : Nat, status : {"pending", "ready"}, readyAt : Nat]

(***************************************************************************)
(* guess: the code presented, 0: none that was ever mailed.  History:      *)
(* changed, the request changed the address; since, when it looked for the *)
(* latest export; lost, it stopped short of withdrawing an exhausted code. *)
(***************************************************************************)
Handler == [pc : {"new", "insert", "mail", "lookup", "miss", "exhaust", "spend", "update",
                  "export", "done"},
            user : Users \union {None}, email : Addresses \union {None},
            guess : 0..MaxCodes, code : 0..MaxCodes, export : 0..MaxExports,
            since : 0..MaxExports, changed : BOOLEAN, lost : BOOLEAN]

Blank == [pc |-> "new", user |-> None, email |-> None, guess |-> 0, code |-> 0, export |-> 0,
          since |-> 0, changed |-> FALSE, lost |-> FALSE]

TypeOK ==
    /\ now \in 0..MaxNow
    /\ address \in [Users -> Addresses \union {None}]
    /\ \E n \in 0..MaxCodes : codes \in [1..n -> Code]
    /\ mailed \subseteq DOMAIN codes
    /\ \E n \in 0..MaxExports : exports \in [1..n -> Export]
    /\ job \subseteq DOMAIN exports
    /\ req \in [Requests -> Handler]
    /\ \A u, v \in Users : address[u] = address[v] => u = v \/ address[u] = None

Init ==
    /\ now = 0
    /\ address = [u \in Users |-> None]
    /\ codes = << >>
    /\ mailed = {}
    /\ exports = << >>
    /\ job = {}
    /\ req = [r \in Requests |-> Blank]

-----------------------------------------------------------------------------
(***************************************************************************)
(* Statements.                                                             *)
(***************************************************************************)
Size(rows) == Cardinality(DOMAIN rows)
Appended(rows, row) == [i \in 1..Size(rows) + 1 |-> IF i \in DOMAIN rows THEN rows[i] ELSE row]

EmailExistsForOther(u, e) == \E v \in Users \ {u} : address[v] = e

CreateEmailCode(e) ==
    /\ Size(codes) < MaxCodes
    /\ codes' = Appended(codes, [email |-> e, attempts |-> 0, used |-> FALSE,
                                 expires |-> now + CodeLife])

Active(e) == {c \in DOMAIN codes : codes[c].email = e /\ ~codes[c].used /\ codes[c].expires > now}

\* The newest row; 0: none.
GetActiveEmailCode(e) ==
    IF Active(e) = {} THEN 0 ELSE CHOOSE c \in Active(e) : \A d \in Active(e) : d <= c

\* By id, whatever was read before.
MarkEmailCodeUsedAnyway(c) == codes' = [codes EXCEPT ![c].used = TRUE]

MarkEmailCodeUsed(c) ==
    /\ ~codes[c].used
    /\ codes' = [codes EXCEPT ![c].used = TRUE]

IncrementAttempts(c) == codes' = [codes EXCEPT ![c].attempts = @ + 1]

\* RETURNING attempts, max_attempts of the same UPDATE.
Exhausted(c) == codes[c].attempts + 1 >= MaxAttempts

\* As if the column were not UNIQUE.
UpdateEmailOfAny(u, e) == address' = [address EXCEPT ![u] = e]

UpdateEmail(u, e) ==
    /\ ~EmailExistsForOther(u, e)
    /\ address' = [address EXCEPT ![u] = e]

ExportsOf(u) == {x \in DOMAIN exports : exports[x].user = u}

\* 0: none.
GetLatestDataExport(u) ==
    IF ExportsOf(u) = {} THEN 0 ELSE CHOOSE x \in ExportsOf(u) : \A y \in ExportsOf(u) : y <= x

CreateDataExport(u) ==
    /\ Size(exports) < MaxExports
    /\ exports' = Appended(exports, [user |-> u, requested |-> now, status |-> "pending",
                                     readyAt |-> 0])

ListPendingDataExports(olderThan) ==
    {x \in DOMAIN exports : exports[x].status = "pending" /\ exports[x].requested <= olderThan}

UpdateDataExportReady(x) ==
    exports' = [exports EXCEPT ![x].status = "ready", ![x].readyAt = now]

-----------------------------------------------------------------------------
At(r, pc) == req[r].pc = pc
GoTo(r, pc) == req' = [req EXCEPT ![r].pc = pc]
InFlight(r) == req[r].pc \notin {"new", "done"}

(***************************************************************************)
(* POST /me/email-change-requests.  When the code cannot be mailed the     *)
(* request fails, and leaves a code that nobody knows.                     *)
(***************************************************************************)
RequestEmailChange(r, u, e) ==
    /\ At(r, "new")
    /\ address[u] # e
    /\ ~EmailExistsForOther(u, e)
    /\ req' = [req EXCEPT ![r].pc = "insert", ![r].user = u, ![r].email = e]
    /\ UNCHANGED <<now, address, codes, mailed, exports, job>>

StoreCode(r) ==
    /\ At(r, "insert")
    /\ CreateEmailCode(req[r].email)
    /\ req' = [req EXCEPT ![r].pc = "mail", ![r].code = Size(codes) + 1]
    /\ UNCHANGED <<now, address, mailed, exports, job>>

SendEmailCode(r) ==
    /\ At(r, "mail")
    /\ mailed' = mailed \union {req[r].code}
    /\ GoTo(r, "done")
    /\ UNCHANGED <<now, address, codes, exports, job>>

(***************************************************************************)
(* POST /me/email-change-confirmations with some code mailed to somebody,  *)
(* or with none.                                                           *)
(***************************************************************************)
ConfirmEmailChange(r, u, e, guess) ==
    /\ At(r, "new")
    /\ address[u] # e
    /\ req' = [req EXCEPT ![r].pc = "lookup", ![r].user = u, ![r].email = e, ![r].guess = guess]
    /\ UNCHANGED <<now, address, codes, mailed, exports, job>>

VerifyEmailCode(r) ==
    /\ At(r, "lookup")
    /\ LET c == GetActiveEmailCode(req[r].email)
       IN req' = [req EXCEPT ![r].code = c,
                             ![r].pc = CASE c = 0 -> "done"
                                         [] c # 0 /\ c = req[r].guess -> "spend"
                                         [] OTHER -> "miss"]
    /\ UNCHANGED <<now, address, codes, mailed, exports, job>>

CountAttempt(r) ==
    /\ At(r, "miss")
    /\ IncrementAttempts(req[r].code)
    /\ GoTo(r, IF Exhausted(req[r].code) THEN "exhaust" ELSE "done")
    /\ UNCHANGED <<now, address, mailed, exports, job>>

\* Of two requests one marks the code, and the other is refused.
Mark(r, next) ==
    /\ \/ MarkEmailCodeUsed(req[r].code) /\ GoTo(r, next)
       \/ codes[req[r].code].used /\ GoTo(r, "done") /\ UNCHANGED codes
    /\ UNCHANGED <<now, address, mailed, exports, job>>

WithdrawCode(r) == At(r, "exhaust") /\ Mark(r, "done")

SpendCode(r) == At(r, "spend") /\ Mark(r, "update")

\* The UNIQUE constraint may refuse the address when the code is spent.
ChangeEmail(r) ==
    /\ At(r, "update")
    /\ \/ /\ UpdateEmail(req[r].user, req[r].email)
          /\ req' = [req EXCEPT ![r].pc = "done", ![r].changed = TRUE]
       \/ /\ EmailExistsForOther(req[r].user, req[r].email)
          /\ GoTo(r, "done")
          /\ UNCHANGED address
    /\ UNCHANGED <<now, codes, mailed, exports, job>>

(***************************************************************************)
(* POST /me/export-requests: refused within the cooldown of the latest.    *)
(***************************************************************************)
RequestDataExport(r, u) ==
    /\ At(r, "new")
    /\ LET x == GetLatestDataExport(u)
       IN x # 0 => now - exports[x].requested >= Cooldown
    /\ req' = [req EXCEPT ![r].pc = "export", ![r].user = u, ![r].since = Size(exports)]
    /\ UNCHANGED <<now, address, codes, mailed, exports, job>>

InsertDataExport(r) ==
    /\ At(r, "export")
    /\ CreateDataExport(req[r].user)
    /\ req' = [req EXCEPT ![r].pc = "done", ![r].export = Size(exports) + 1]
    /\ UNCHANGED <<now, address, codes, mailed, job>>

(***************************************************************************)
(* ProcessPendingExports: the list, then one UPDATE by id for each.        *)
(***************************************************************************)
\* Without the grace period.
PickAllPending == job' = ListPendingDataExports(now)

PickPending == job' = ListPendingDataExports(now - GracePeriod)

ProcessPendingExports ==
    /\ job = {}
    /\ PickPending
    /\ job' # {}
    /\ UNCHANGED <<now, address, codes, mailed, exports, req>>

MarkReady ==
    /\ \E x \in job :
        /\ \A y \in job : x <= y
        /\ UpdateDataExportReady(x)
        /\ job' = job \ {x}
    /\ UNCHANGED <<now, address, codes, mailed, req>>

JobStops ==
    /\ job # {} /\ job' = {}
    /\ UNCHANGED <<now, address, codes, mailed, exports, req>>

Stop(r) ==
    /\ InFlight(r)
    /\ req' = [req EXCEPT ![r].pc = "done", ![r].lost = At(r, "exhaust")]
    /\ UNCHANGED <<now, address, codes, mailed, exports, job>>

Tick ==
    /\ now < MaxNow
    /\ now' = now + 1
    /\ UNCHANGED <<address, codes, mailed, exports, job, req>>

(***************************************************************************)
(* The HTTP handlers: who asks for what.                                   *)
(***************************************************************************)
HandleRequestEmailChange(r) == \E u \in Users, e \in Addresses : RequestEmailChange(r, u, e)

HandleConfirmEmailChange(r) ==
    \E u \in Users, e \in Addresses, guess \in mailed \union {0} : ConfirmEmailChange(r, u, e, guess)

HandleRequestDataExport(r) == \E u \in Users : RequestDataExport(r, u)

Next ==
    \/ Tick \/ ProcessPendingExports \/ MarkReady \/ JobStops
    \/ \E r \in Requests :
        \/ HandleRequestEmailChange(r) \/ HandleConfirmEmailChange(r) \/ HandleRequestDataExport(r)
        \/ StoreCode(r) \/ SendEmailCode(r)
        \/ VerifyEmailCode(r) \/ CountAttempt(r) \/ WithdrawCode(r)
        \/ SpendCode(r) \/ ChangeEmail(r) \/ InsertDataExport(r)
        \/ Stop(r)

Spec == Init /\ [][Next]_vars

-----------------------------------------------------------------------------
(***************************************************************************)
(* Whoever sends it and however often, a code changes one address at most, *)
(* and only to the address it was mailed to; a code whose attempts are up  *)
(* is withdrawn, unless a handler is, or was, stopped between the two      *)
(* statements of repository.go:325 (auth), so that it may still be spent.  *)
(***************************************************************************)
CodeSpentOnce ==
    \A r \in Requests : req[r].changed =>
        /\ req[r].code \in mailed
        /\ codes[req[r].code].email = req[r].email
        /\ \A q \in Requests \ {r} : req[q].changed => req[q].code # req[r].code

ExhaustedIsWithdrawn ==
    \A c \in DOMAIN codes : codes[c].attempts >= MaxAttempts =>
        \/ codes[c].used
        \/ \E r \in Requests : req[r].code = c /\ (At(r, "exhaust") \/ req[r].lost)

CodesHold == CodeSpentOnce /\ ExhaustedIsWithdrawn

(***************************************************************************)
(* RequestDataExport looks for the latest export in one statement and      *)
(* inserts in another (service.go:197, 210).  Two exports of one account   *)
(* closer than the cooldown were asked for by requests that overlapped,    *)
(* and none is ready before the grace period is over.                      *)
(***************************************************************************)
Overlapped(x, y) == \E r \in Requests : req[r].export = y /\ req[r].since < x

ExportsKeepTheirTime ==
    /\ \A x, y \in DOMAIN exports :
        /\ x < y /\ exports[x].user = exports[y].user
        /\ exports[y].requested - exports[x].requested < Cooldown
        => Overlapped(x, y)
    /\ \A x \in DOMAIN exports :
        exports[x].status = "ready" => exports[x].readyAt - exports[x].requested >= GracePeriod
=============================================================================
