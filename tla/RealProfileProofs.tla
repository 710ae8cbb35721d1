-------------------------- MODULE RealProfileProofs --------------------------
(***************************************************************************)
(* Proofs about RealProfile for any sets of users, addresses and requests, *)
(* any bounds and any periods.  No request runs in a transaction, so the   *)
(* inductive invariant says what a request may rely on from one statement  *)
(* to the next: the row it holds was mailed to the address it gives, a     *)
(* code that reached the UPDATE of users is marked and nobody else's, and  *)
(* the exports a request saw when it looked are older than the cooldown.   *)
(***************************************************************************)
EXTENDS RealProfile, FiniteSetTheorems, TLAPS

\* What a request works on exists, and history is written by its last step.
WorkIsKnown ==
    \A r \in Requests :
        /\ At(r, "new") => req[r] = Blank
        /\ req[r].changed \/ req[r].lost \/ req[r].export # 0 => At(r, "done")
        /\ ~At(r, "new") => req[r].user \in Users
        /\ req[r].pc \in {"insert", "mail", "lookup", "miss", "exhaust", "spend", "update"} =>
            req[r].email \in Addresses
        /\ req[r].pc \in {"mail", "miss", "exhaust", "spend", "update"} =>
            req[r].code \in DOMAIN codes
        /\ req[r].guess \in mailed \union {0}
        /\ req[r].since \in DOMAIN exports \union {0}

\* A request that has spent its code, and has or may yet use it.
HasSpent(r) == At(r, "update") \/ req[r].changed

\* A code in hand was mailed to the address that it is used for.
CodeInHand ==
    \A r \in Requests :
        /\ At(r, "spend") \/ HasSpent(r) =>
            req[r].code \in mailed /\ codes[req[r].code].email = req[r].email
        /\ HasSpent(r) => codes[req[r].code].used

SpentByOne ==
    \A q, r \in Requests : q # r /\ HasSpent(q) /\ HasSpent(r) => req[q].code # req[r].code

\* Exports are in the order they were asked for.
ExportsInOrder ==
    \A x, y \in DOMAIN exports :
        /\ exports[x].requested <= now
        /\ x <= y => exports[x].requested <= exports[y].requested

\* The exports a request saw are older than the cooldown, and so they stay.
CooldownSeen ==
    \A r \in Requests, x \in DOMAIN exports :
        /\ At(r, "export")
        /\ x <= req[r].since
        /\ exports[x].user = req[r].user
        => now - exports[x].requested >= Cooldown

JobIsDue == \A x \in job : now - exports[x].requested >= GracePeriod

IInv ==
    /\ TypeOK
    /\ WorkIsKnown
    /\ CodeInHand
    /\ SpentByOne
    /\ ExhaustedIsWithdrawn
    /\ ExportsInOrder
    /\ CooldownSeen
    /\ JobIsDue
    /\ ExportsKeepTheirTime

-----------------------------------------------------------------------------
(***************************************************************************)
(* Rows are numbered from 1, appended at the end, and have a newest one.   *)
(***************************************************************************)
LEMMA SizeOfRows ==
    ASSUME NEW n \in Nat, NEW S, NEW rows \in [1..n -> S]
    PROVE  Size(rows) = n
BY FS_Interval DEF Size

LEMMA AppendedRows ==
    ASSUME NEW n \in Nat, NEW S, NEW rows \in [1..n -> S], NEW row \in S
    PROVE  /\ Appended(rows, row) \in [1..n + 1 -> S]
           /\ Appended(rows, row)[n + 1] = row
           /\ \A i \in 1..n : Appended(rows, row)[i] = rows[i]
BY SizeOfRows DEF Appended

LEMMA NewestExists ==
    ASSUME NEW n \in Nat, NEW T \in SUBSET (1..n), T # {}
    PROVE  \E x \in T : \A y \in T : y <= x
<1> DEFINE D == {n - x : x \in T}
<1>1. D \subseteq Nat /\ D # {}
  <2>1. PICK t \in T : TRUE
    OBVIOUS
  <2>2. n - t \in D
    OBVIOUS
  <2>3. \A u \in T : n - u \in Nat
    OBVIOUS
  <2> QED BY <2>2, <2>3
<1> HIDE DEF D
<1>2. PICK d \in D : \A e \in D : ~(<<e, d>> \in OpToRel(<, Nat))
  BY <1>1, NatLessThanWellFounded, WFMin
<1>3. \A e \in D : ~(e < d)
  BY <1>1, <1>2 DEF OpToRel
<1>4. PICK x \in T : d = n - x
  BY DEF D
<1>5. \A y \in T : n - y \in D
  BY DEF D
<1> QED BY <1>3, <1>4, <1>5

LEMMA NewestActiveCode ==
    ASSUME TypeOK, NEW e
    PROVE  GetActiveEmailCode(e) \in Active(e) \union {0}
<1>1. PICK n \in 0..MaxCodes : codes \in [1..n -> Code]
  BY DEF TypeOK
<1>2. n \in Nat /\ Active(e) \in SUBSET (1..n)
  BY <1>1, RealProfileAssumption DEF Active
<1>3. CASE Active(e) # {}
  <2>1. \E c \in Active(e) : \A d \in Active(e) : d <= c
    BY <1>2, <1>3, NewestExists
  <2> QED BY <1>3, <2>1 DEF GetActiveEmailCode
<1> QED BY <1>3 DEF GetActiveEmailCode

LEMMA LatestExport ==
    ASSUME TypeOK, NEW u
    PROVE  \/ GetLatestDataExport(u) = 0 /\ ExportsOf(u) = {}
           \/ /\ GetLatestDataExport(u) \in ExportsOf(u)
              /\ \A y \in ExportsOf(u) : y <= GetLatestDataExport(u)
<1>1. PICK n \in 0..MaxExports : exports \in [1..n -> Export]
  BY DEF TypeOK
<1>2. n \in Nat /\ ExportsOf(u) \in SUBSET (1..n)
  BY <1>1, RealProfileAssumption DEF ExportsOf
<1>3. CASE ExportsOf(u) # {}
  <2>1. \E x \in ExportsOf(u) : \A y \in ExportsOf(u) : y <= x
    BY <1>2, <1>3, NewestExists
  <2> QED BY <1>3, <2>1 DEF GetLatestDataExport
<1> QED BY <1>3 DEF GetLatestDataExport

-----------------------------------------------------------------------------
(***************************************************************************)
(* What a statement does to the request that makes it.                     *)
(***************************************************************************)
PCs == {"new", "insert", "mail", "lookup", "miss", "exhaust", "spend", "update",
        "export", "done"}

Others(r) == \A q \in Requests : q # r => req'[q] = req[q]

\* It keeps what it is asked for and what it remembers.
Keeps(r) ==
    /\ req'[r].user = req[r].user
    /\ req'[r].email = req[r].email
    /\ req'[r].guess = req[r].guess
    /\ req'[r].export = req[r].export
    /\ req'[r].since = req[r].since

LEMMA BlankTyped ==
    /\ Blank \in Handler
    /\ Blank.pc = "new" /\ Blank.user = None /\ Blank.email = None
    /\ Blank.guess = 0 /\ Blank.code = 0 /\ Blank.export = 0 /\ Blank.since = 0
    /\ Blank.changed = FALSE /\ Blank.lost = FALSE
<1>1. 0 \in 0..MaxCodes /\ 0 \in 0..MaxExports
  BY RealProfileAssumption
<1> QED BY <1>1 DEF Blank, Handler

LEMMA HandlerFields ==
    ASSUME NEW h \in Handler
    PROVE  /\ h.pc \in PCs
           /\ h.user \in Users \union {None} /\ h.email \in Addresses \union {None}
           /\ h.guess \in 0..MaxCodes /\ h.code \in 0..MaxCodes
           /\ h.export \in 0..MaxExports /\ h.since \in 0..MaxExports
           /\ h.changed \in BOOLEAN /\ h.lost \in BOOLEAN
BY DEF Handler, PCs

LEMMA GoingOn ==
    ASSUME TypeOK, NEW r \in Requests, NEW pc \in PCs, GoTo(r, pc)
    PROVE  /\ req' \in [Requests -> Handler]
           /\ Others(r) /\ Keeps(r)
           /\ req'[r].pc = pc
           /\ req'[r].code = req[r].code
           /\ req'[r].changed = req[r].changed
           /\ req'[r].lost = req[r].lost
<1>1. req \in [Requests -> Handler] /\ req[r] \in Handler
  BY DEF TypeOK
<1> DEFINE next == [req[r] EXCEPT !.pc = pc]
<1>2. next \in Handler
  BY <1>1 DEF Handler, PCs
<1>3. /\ next.pc = pc
      /\ next.user = req[r].user /\ next.email = req[r].email /\ next.guess = req[r].guess
      /\ next.code = req[r].code /\ next.export = req[r].export /\ next.since = req[r].since
      /\ next.changed = req[r].changed /\ next.lost = req[r].lost
  BY <1>1 DEF Handler
<1>4. req' = [req EXCEPT ![r] = next]
  BY DEF GoTo
<1> HIDE DEF next
<1> QED BY <1>1, <1>2, <1>3, <1>4 DEF Others, Keeps

-----------------------------------------------------------------------------
(***************************************************************************)
(* Most actions touch one half of the state alone: what is known of the    *)
(* other half stays.                                                       *)
(***************************************************************************)
CodesKnown == CodeInHand /\ SpentByOne /\ ExhaustedIsWithdrawn

LEMMA CodesKept ==
    ASSUME CodesKnown, UNCHANGED <<codes, mailed>>,
           \A q \in Requests :
               /\ HasSpent(q)' => HasSpent(q)
               /\ At(q, "spend")' => At(q, "spend")
               /\ At(q, "spend")' \/ HasSpent(q)' =>
                   req'[q].code = req[q].code /\ req'[q].email = req[q].email
               /\ At(q, "exhaust") \/ req[q].lost =>
                   req'[q].code = req[q].code /\ (At(q, "exhaust")' \/ req'[q].lost)
    PROVE  CodesKnown'
<1>1. CodeInHand' /\ SpentByOne'
  BY DEF CodesKnown, CodeInHand, SpentByOne
<1>2. ExhaustedIsWithdrawn'
  BY DEF CodesKnown, ExhaustedIsWithdrawn
<1> QED BY <1>1, <1>2 DEF CodesKnown

ExportsKnown == ExportsInOrder /\ CooldownSeen /\ JobIsDue /\ ExportsKeepTheirTime

LEMMA ExportsKept ==
    ASSUME ExportsKnown, UNCHANGED <<now, exports, job>>,
           \A q \in Requests :
               /\ req'[q].export = req[q].export
               /\ req[q].export # 0 \/ At(q, "export")' => req'[q].since = req[q].since
               /\ At(q, "export")' => At(q, "export") /\ req'[q].user = req[q].user,
           \A x \in DOMAIN exports : x # 0
    PROVE  ExportsKnown'
<1>1. ExportsInOrder' /\ JobIsDue'
  BY DEF ExportsKnown, ExportsInOrder, JobIsDue
<1>2. CooldownSeen'
  BY DEF ExportsKnown, CooldownSeen
<1>3. \A x, y \in DOMAIN exports : Overlapped(x, y) => Overlapped(x, y)'
  BY DEF Overlapped
<1>4. ExportsKeepTheirTime'
  BY <1>3 DEF ExportsKnown, ExportsKeepTheirTime
<1> QED BY <1>1, <1>2, <1>4 DEF ExportsKnown

LEMMA InvParts == IInv <=> TypeOK /\ WorkIsKnown /\ CodesKnown /\ ExportsKnown
BY DEF IInv, CodesKnown, ExportsKnown

\* Rows of both tables are numbered from 1.
LEMMA RowsFrom1 ==
    ASSUME TypeOK
    PROVE  /\ \A c \in DOMAIN codes : c \in 1..MaxCodes /\ codes[c] \in Code
           /\ \A x \in DOMAIN exports : x \in 1..MaxExports /\ exports[x] \in Export
BY RealProfileAssumption DEF TypeOK

-----------------------------------------------------------------------------
(***************************************************************************)
(* The inductive invariant holds initially, and each action keeps it.      *)
(***************************************************************************)
LEMMA InvInit == Init => IInv
<1> SUFFICES ASSUME Init PROVE IInv
  OBVIOUS
<1>1. /\ \A r \in Requests : req[r] = Blank
      /\ req \in [Requests -> Handler]
  BY BlankTyped DEF Init
<1>2. DOMAIN codes = {} /\ DOMAIN exports = {} /\ mailed = {} /\ job = {} /\ now = 0
  BY DEF Init
<1>3. TypeOK
  <2>1. 0 \in 0..MaxCodes /\ 0 \in 0..MaxExports /\ 0 \in 0..MaxNow
    BY RealProfileAssumption
  <2>2. codes \in [1..0 -> Code] /\ exports \in [1..0 -> Export]
    BY DEF Init
  <2>3. /\ address \in [Users -> Addresses \union {None}]
        /\ \A u, v \in Users : address[u] = address[v] => u = v \/ address[u] = None
    BY DEF Init
  <2> QED BY <1>1, <1>2, <2>1, <2>2, <2>3 DEF TypeOK
<1>4. WorkIsKnown
  BY <1>1, <1>2, BlankTyped DEF WorkIsKnown, At
<1>5. CodesKnown
  BY <1>1, <1>2, BlankTyped
     DEF CodesKnown, CodeInHand, SpentByOne, ExhaustedIsWithdrawn, HasSpent, At
<1>6. ExportsKnown
  BY <1>1, <1>2 DEF ExportsKnown, ExportsInOrder, CooldownSeen, JobIsDue, ExportsKeepTheirTime
<1> QED BY <1>3, <1>4, <1>5, <1>6, InvParts

LEMMA InvRequestEmailChange ==
    ASSUME IInv, NEW r \in Requests, NEW u \in Users, NEW e \in Addresses,
           RequestEmailChange(r, u, e)
    PROVE  IInv'
<1> DEFINE next == [Blank EXCEPT !.pc = "insert", !.user = u, !.email = e]
<1>1. req \in [Requests -> Handler] /\ req[r] = Blank
  BY DEF RequestEmailChange, IInv, TypeOK, WorkIsKnown
<1>2. /\ next \in Handler /\ next.pc = "insert" /\ next.user = u /\ next.email = e
      /\ next.code = 0 /\ next.guess = 0 /\ next.export = 0 /\ next.since = 0
      /\ next.changed = FALSE /\ next.lost = FALSE
  BY BlankTyped DEF Handler, Blank
<1>3. req' = [req EXCEPT ![r] = next]
  BY <1>1 DEF RequestEmailChange
<1> HIDE DEF next
<1>4. req' \in [Requests -> Handler] /\ req'[r] = next /\ Others(r)
  BY <1>1, <1>2, <1>3 DEF Others
<1>5. UNCHANGED <<now, address, codes, mailed, exports, job>>
  BY DEF RequestEmailChange
<1>6. TypeOK'
  BY <1>4, <1>5 DEF IInv, TypeOK
<1>7. WorkIsKnown'
  BY <1>2, <1>4, <1>5 DEF IInv, WorkIsKnown, At, Others
<1>8. CodesKnown'
  BY <1>1, <1>2, <1>4, <1>5, BlankTyped, CodesKept, InvParts DEF HasSpent, At, Others
<1>9. ExportsKnown'
  BY <1>1, <1>2, <1>4, <1>5, BlankTyped, ExportsKept, InvParts, RowsFrom1 DEF At, Others
<1> QED BY <1>6, <1>7, <1>8, <1>9 DEF IInv, CodesKnown, ExportsKnown

LEMMA InvConfirmEmailChange ==
    ASSUME IInv, NEW r \in Requests, NEW u \in Users, NEW e \in Addresses,
           NEW guess \in mailed \union {0}, ConfirmEmailChange(r, u, e, guess)
    PROVE  IInv'
<1> DEFINE next == [Blank EXCEPT !.pc = "lookup", !.user = u, !.email = e, !.guess = guess]
<1>1. req \in [Requests -> Handler] /\ req[r] = Blank /\ guess \in 0..MaxCodes
  BY RowsFrom1, RealProfileAssumption DEF ConfirmEmailChange, IInv, TypeOK, WorkIsKnown
<1>2. /\ next \in Handler /\ next.pc = "lookup" /\ next.user = u /\ next.email = e
      /\ next.code = 0 /\ next.guess = guess /\ next.export = 0 /\ next.since = 0
      /\ next.changed = FALSE /\ next.lost = FALSE
  BY <1>1, BlankTyped DEF Handler, Blank
<1>3. req' = [req EXCEPT ![r] = next]
  BY <1>1 DEF ConfirmEmailChange
<1> HIDE DEF next
<1>4. req' \in [Requests -> Handler] /\ req'[r] = next /\ Others(r)
  BY <1>1, <1>2, <1>3 DEF Others
<1>5. UNCHANGED <<now, address, codes, mailed, exports, job>>
  BY DEF ConfirmEmailChange
<1>6. TypeOK'
  BY <1>4, <1>5 DEF IInv, TypeOK
<1>7. WorkIsKnown'
  BY <1>2, <1>4, <1>5 DEF IInv, WorkIsKnown, At, Others
<1>8. CodesKnown'
  BY <1>1, <1>2, <1>4, <1>5, BlankTyped, CodesKept, InvParts DEF HasSpent, At, Others
<1>9. ExportsKnown'
  BY <1>1, <1>2, <1>4, <1>5, BlankTyped, ExportsKept, InvParts, RowsFrom1 DEF At, Others
<1> QED BY <1>6, <1>7, <1>8, <1>9 DEF IInv, CodesKnown, ExportsKnown

LEMMA InvStoreCode ==
    ASSUME IInv, NEW r \in Requests, StoreCode(r)
    PROVE  IInv'
<1> PICK n \in 0..MaxCodes : codes \in [1..n -> Code]
  BY DEF IInv, TypeOK
<1> DEFINE row == [email |-> req[r].email, attempts |-> 0, used |-> FALSE,
                   expires |-> now + CodeLife]
           next == [req[r] EXCEPT !.pc = "mail", !.code = n + 1]
<1>1. /\ n \in Nat /\ Size(codes) = n /\ n < MaxCodes /\ n + 1 \in 0..MaxCodes
      /\ req \in [Requests -> Handler] /\ req[r] \in Handler
      /\ req[r].pc = "insert" /\ req[r].email \in Addresses /\ req[r].user \in Users
      /\ now \in Nat
  <2>1. n \in Nat /\ MaxCodes \in Nat
    BY RealProfileAssumption
  <2>2. Size(codes) = n
    BY <2>1, SizeOfRows
  <2>3. n < MaxCodes
    BY <2>2 DEF StoreCode, CreateEmailCode
  <2>4. /\ req \in [Requests -> Handler] /\ now \in Nat
        /\ req[r].pc = "insert" /\ req[r].email \in Addresses /\ req[r].user \in Users
    BY RealProfileAssumption DEF StoreCode, IInv, TypeOK, WorkIsKnown, At
  <2> QED BY <2>1, <2>2, <2>3, <2>4
<1>2. row \in Code /\ row.attempts = 0 /\ row.used = FALSE
  BY <1>1, RealProfileAssumption DEF Code
<1>3. /\ codes' \in [1..n + 1 -> Code]
      /\ codes'[n + 1].attempts = 0
      /\ \A c \in 1..n : codes'[c] = codes[c]
  <2>1. codes' = Appended(codes, row)
    BY DEF StoreCode, CreateEmailCode
  <2> HIDE DEF row
  <2>2. Appended(codes, row) \in [1..n + 1 -> Code] /\ Appended(codes, row)[n + 1] = row
    BY <1>1, <1>2, AppendedRows
  <2>3. ASSUME NEW i \in 1..n PROVE Appended(codes, row)[i] = codes[i]
    BY <1>1, <1>2, <2>2, AppendedRows
  <2> QED BY <1>2, <2>1, <2>2, <2>3
<1> HIDE DEF row
<1>4. /\ next \in Handler /\ next.pc = "mail" /\ next.code = n + 1
      /\ next.user = req[r].user /\ next.email = req[r].email /\ next.guess = req[r].guess
      /\ next.export = req[r].export /\ next.since = req[r].since
      /\ next.changed = req[r].changed /\ next.lost = req[r].lost
  BY <1>1 DEF Handler
<1>5. req' = [req EXCEPT ![r] = next]
  BY <1>1 DEF StoreCode
<1> HIDE DEF next
<1>6. req' \in [Requests -> Handler] /\ req'[r] = next /\ Others(r)
  BY <1>1, <1>4, <1>5 DEF Others
<1>7. UNCHANGED <<now, address, mailed, exports, job>>
  BY DEF StoreCode
<1>8. TypeOK'
  BY <1>1, <1>3, <1>6, <1>7 DEF IInv, TypeOK
<1>9. WorkIsKnown'
  BY <1>1, <1>3, <1>4, <1>6, <1>7 DEF IInv, WorkIsKnown, At, Others
<1>10. ~HasSpent(r)' /\ ~At(r, "spend")' /\ ~req[r].lost /\ ~At(r, "exhaust")
  BY <1>1, <1>4, <1>6 DEF IInv, WorkIsKnown, HasSpent, At
<1>11. \A q \in Requests : q # r => req'[q] = req[q] /\ (HasSpent(q)' <=> HasSpent(q))
  BY <1>6 DEF Others, HasSpent, At
<1>12. CodeInHand' /\ SpentByOne'
  <2>1. \A c \in mailed : codes'[c] = codes[c]
    BY <1>3 DEF IInv, TypeOK
  <2> QED BY <1>7, <1>10, <1>11, <2>1 DEF IInv, CodeInHand, SpentByOne, At
<1>13. ExhaustedIsWithdrawn'
  BY <1>1, <1>3, <1>10, <1>11, RealProfileAssumption DEF IInv, ExhaustedIsWithdrawn, At
<1>14. ExportsKnown'
  BY <1>1, <1>4, <1>6, <1>7, ExportsKept, InvParts, RowsFrom1 DEF At, Others
<1> QED BY <1>8, <1>9, <1>12, <1>13, <1>14 DEF IInv, CodesKnown, ExportsKnown

LEMMA InvSendEmailCode ==
    ASSUME IInv, NEW r \in Requests, SendEmailCode(r)
    PROVE  IInv'
<1>1. "done" \in PCs /\ req[r].pc = "mail" /\ req[r].code \in DOMAIN codes
  BY DEF PCs, SendEmailCode, At, IInv, WorkIsKnown
<1>2. /\ mailed' = mailed \union {req[r].code}
      /\ UNCHANGED <<now, address, codes, exports, job>>
      /\ GoTo(r, "done")
  BY DEF SendEmailCode
<1>3. /\ req' \in [Requests -> Handler] /\ Others(r) /\ Keeps(r)
      /\ req'[r].pc = "done" /\ req'[r].code = req[r].code
      /\ req'[r].changed = req[r].changed /\ req'[r].lost = req[r].lost
  BY <1>1, <1>2, GoingOn DEF IInv
<1>4. TypeOK'
  BY <1>1, <1>2, <1>3 DEF IInv, TypeOK
<1>5. WorkIsKnown'
  BY <1>1, <1>2, <1>3 DEF IInv, WorkIsKnown, At, Others, Keeps
<1>6. ~HasSpent(r) /\ ~HasSpent(r)' /\ ~At(r, "spend")' /\ ~req[r].lost /\ ~At(r, "exhaust")
  BY <1>1, <1>3 DEF IInv, WorkIsKnown, HasSpent, At
<1>7. \A q \in Requests : q # r => req'[q] = req[q] /\ (HasSpent(q)' <=> HasSpent(q))
  BY <1>3 DEF Others, HasSpent, At
<1>8. CodeInHand' /\ SpentByOne' /\ ExhaustedIsWithdrawn'
  BY <1>2, <1>6, <1>7 DEF IInv, CodeInHand, SpentByOne, ExhaustedIsWithdrawn, At
<1>9. ExportsKnown'
  BY <1>1, <1>2, <1>3, ExportsKept, InvParts, RowsFrom1 DEF At, Others, Keeps
<1> QED BY <1>4, <1>5, <1>8, <1>9 DEF IInv, CodesKnown, ExportsKnown

LEMMA InvVerifyEmailCode ==
    ASSUME IInv, NEW r \in Requests, VerifyEmailCode(r)
    PROVE  IInv'
<1> DEFINE c == GetActiveEmailCode(req[r].email)
           pc == CASE c = 0 -> "done"
                   [] c # 0 /\ c = req[r].guess -> "spend"
                   [] OTHER -> "miss"
           next == [req[r] EXCEPT !.code = c, !.pc = pc]
<1>1. /\ req \in [Requests -> Handler] /\ req[r] \in Handler
      /\ req[r].pc = "lookup" /\ req[r].email \in Addresses /\ req[r].user \in Users
      /\ req[r].guess \in mailed \union {0}
      /\ ~req[r].changed /\ ~req[r].lost
  BY DEF VerifyEmailCode, At, IInv, TypeOK, WorkIsKnown
<1>2. c # 0 => c \in DOMAIN codes /\ codes[c].email = req[r].email
  BY NewestActiveCode DEF Active, IInv
<1>3. c \in 0..MaxCodes
  BY <1>2, RowsFrom1, RealProfileAssumption DEF IInv
<1>4. UNCHANGED <<now, address, codes, mailed, exports, job>> /\ req' = [req EXCEPT ![r] = next]
  BY <1>1 DEF VerifyEmailCode
<1> HIDE DEF c
<1>5. /\ pc \in {"done", "spend", "miss"}
      /\ c = 0 => pc = "done"
      /\ pc = "spend" => c # 0 /\ c = req[r].guess
  <2>1. CASE c = 0
    BY <2>1, Zenon
  <2>2. CASE c # 0 /\ c = req[r].guess
    BY <2>2, Zenon
  <2>3. CASE c # 0 /\ c # req[r].guess
    BY <2>3, Zenon
  <2> QED BY <2>1, <2>2, <2>3
<1> HIDE DEF pc
<1>6. /\ next \in Handler /\ next.pc = pc /\ next.code = c
      /\ next.user = req[r].user /\ next.email = req[r].email /\ next.guess = req[r].guess
      /\ next.export = req[r].export /\ next.since = req[r].since
      /\ next.changed = req[r].changed /\ next.lost = req[r].lost
  BY <1>1, <1>3, <1>5 DEF Handler
<1> HIDE DEF next
<1>7. req' \in [Requests -> Handler] /\ req'[r] = next /\ Others(r)
  BY <1>1, <1>4, <1>6 DEF Others
<1>8. TypeOK'
  BY <1>4, <1>7 DEF IInv, TypeOK
<1>9. WorkIsKnown'
  BY <1>1, <1>2, <1>4, <1>5, <1>6, <1>7 DEF IInv, WorkIsKnown, At, Others
<1>10. ~HasSpent(r)' /\ ~At(r, "exhaust")
  BY <1>1, <1>5, <1>6, <1>7 DEF HasSpent, At
<1>11. \A q \in Requests : q # r => req'[q] = req[q] /\ (HasSpent(q)' <=> HasSpent(q))
  BY <1>7 DEF Others, HasSpent, At
<1>12. CodeInHand'
  <2>1. At(r, "spend")' => c \in mailed /\ codes[c].email = req[r].email
    BY <1>1, <1>2, <1>5, <1>6, <1>7 DEF At
  <2> QED BY <1>4, <1>6, <1>7, <1>10, <1>11, <2>1 DEF IInv, CodeInHand, At
<1>13. SpentByOne' /\ ExhaustedIsWithdrawn'
  BY <1>1, <1>4, <1>10, <1>11 DEF IInv, SpentByOne, ExhaustedIsWithdrawn, At
<1>14. ExportsKnown'
  BY <1>4, <1>5, <1>6, <1>7, ExportsKept, InvParts, RowsFrom1 DEF At, Others
<1> QED BY <1>8, <1>9, <1>12, <1>13, <1>14 DEF IInv, CodesKnown, ExportsKnown

\* An UPDATE of a row of email_codes keeps the address and everything but one field.
LEMMA UpdatedCode ==
    ASSUME TypeOK, NEW c \in DOMAIN codes
    PROVE  /\ MarkEmailCodeUsedAnyway(c) =>
                /\ \E n \in 0..MaxCodes : codes' \in [1..n -> Code]
                /\ DOMAIN codes' = DOMAIN codes
                /\ \A d \in DOMAIN codes : d # c => codes'[d] = codes[d]
                /\ codes'[c].used /\ codes'[c].email = codes[c].email
                /\ codes'[c].attempts = codes[c].attempts
           /\ IncrementAttempts(c) =>
                /\ \E n \in 0..MaxCodes : codes' \in [1..n -> Code]
                /\ DOMAIN codes' = DOMAIN codes
                /\ \A d \in DOMAIN codes : d # c => codes'[d] = codes[d]
                /\ codes'[c].used = codes[c].used /\ codes'[c].email = codes[c].email
                /\ codes'[c].attempts = codes[c].attempts + 1
<1> PICK n \in 0..MaxCodes : codes \in [1..n -> Code]
  BY DEF TypeOK
<1>1. codes[c] \in Code
  OBVIOUS
<1>2. ASSUME MarkEmailCodeUsedAnyway(c)
      PROVE  /\ codes' \in [1..n -> Code]
             /\ DOMAIN codes' = DOMAIN codes
             /\ \A d \in DOMAIN codes : d # c => codes'[d] = codes[d]
             /\ codes'[c].used /\ codes'[c].email = codes[c].email
             /\ codes'[c].attempts = codes[c].attempts
  <2> DEFINE row == [codes[c] EXCEPT !.used = TRUE]
  <2>1. /\ row \in Code /\ row.used
        /\ row.email = codes[c].email /\ row.attempts = codes[c].attempts
    BY <1>1 DEF Code
  <2>2. codes' = [codes EXCEPT ![c] = row]
    BY <1>2 DEF MarkEmailCodeUsedAnyway
  <2> HIDE DEF row
  <2> QED BY <2>1, <2>2
<1>3. ASSUME IncrementAttempts(c)
      PROVE  /\ codes' \in [1..n -> Code]
             /\ DOMAIN codes' = DOMAIN codes
             /\ \A d \in DOMAIN codes : d # c => codes'[d] = codes[d]
             /\ codes'[c].used = codes[c].used /\ codes'[c].email = codes[c].email
             /\ codes'[c].attempts = codes[c].attempts + 1
  <2> DEFINE row == [codes[c] EXCEPT !.attempts = @ + 1]
  <2>1. /\ row \in Code /\ row.used = codes[c].used /\ row.email = codes[c].email
        /\ row.attempts = codes[c].attempts + 1
    BY <1>1 DEF Code
  <2>2. codes' = [codes EXCEPT ![c] = row]
    BY <1>3 DEF IncrementAttempts
  <2> HIDE DEF row
  <2> QED BY <2>1, <2>2
<1> QED BY <1>2, <1>3

LEMMA InvCountAttempt ==
    ASSUME IInv, NEW r \in Requests, CountAttempt(r)
    PROVE  IInv'
<1> DEFINE c == req[r].code
           pc == IF Exhausted(c) THEN "exhaust" ELSE "done"
<1>1. /\ req[r].pc = "miss" /\ c \in DOMAIN codes
      /\ ~req[r].changed /\ ~req[r].lost
      /\ IncrementAttempts(c) /\ GoTo(r, pc)
      /\ UNCHANGED <<now, address, mailed, exports, job>>
  BY DEF CountAttempt, At, IInv, WorkIsKnown
<1>2. /\ req' \in [Requests -> Handler] /\ Others(r) /\ Keeps(r)
      /\ req'[r].pc = pc /\ req'[r].code = c
      /\ req'[r].changed = req[r].changed /\ req'[r].lost = req[r].lost
  <2>1. pc \in PCs
    BY DEF PCs
  <2> QED BY <1>1, <2>1, GoingOn DEF IInv
<1>3. /\ \E n \in 0..MaxCodes : codes' \in [1..n -> Code]
      /\ DOMAIN codes' = DOMAIN codes
      /\ \A d \in DOMAIN codes : d # c => codes'[d] = codes[d]
      /\ codes'[c].used = codes[c].used /\ codes'[c].email = codes[c].email
      /\ codes'[c].attempts = codes[c].attempts + 1
  BY <1>1, UpdatedCode DEF IInv
<1>4. codes'[c].attempts >= MaxAttempts => req'[r].pc = "exhaust"
  BY <1>2, <1>3 DEF Exhausted
<1>5. req'[r].pc \in {"exhaust", "done"}
  BY <1>2
<1> HIDE DEF c, pc
<1>6. TypeOK'
  BY <1>1, <1>2, <1>3 DEF IInv, TypeOK
<1>7. WorkIsKnown'
  BY <1>1, <1>2, <1>3, <1>5 DEF IInv, WorkIsKnown, At, Others, Keeps, c
<1>8. ~HasSpent(r)' /\ ~At(r, "spend")' /\ ~req[r].lost /\ ~At(r, "exhaust")
  BY <1>1, <1>2, <1>5 DEF HasSpent, At
<1>9. \A q \in Requests : q # r => req'[q] = req[q] /\ (HasSpent(q)' <=> HasSpent(q))
  BY <1>2 DEF Others, HasSpent, At
<1>10. CodeInHand' /\ SpentByOne'
  <2>1. \A d \in mailed : codes'[d].email = codes[d].email /\ codes'[d].used = codes[d].used
    BY <1>3 DEF IInv, TypeOK
  <2> QED BY <1>1, <1>8, <1>9, <2>1 DEF IInv, CodeInHand, SpentByOne, At
<1>11. ExhaustedIsWithdrawn'
  BY <1>2, <1>3, <1>4, <1>8, <1>9 DEF IInv, ExhaustedIsWithdrawn, At
<1>12. ExportsKnown'
  BY <1>1, <1>2, <1>5, ExportsKept, InvParts, RowsFrom1 DEF At, Others, Keeps
<1> QED BY <1>6, <1>7, <1>10, <1>11, <1>12 DEF IInv, CodesKnown, ExportsKnown

\* Whether it marks the code or finds it marked, it is marked afterwards.
LEMMA InvMark ==
    ASSUME IInv, NEW r \in Requests, NEW next \in {"done", "update"}, Mark(r, next),
           \/ At(r, "exhaust") /\ next = "done"
           \/ At(r, "spend") /\ next = "update"
    PROVE  IInv'
<1> DEFINE c == req[r].code
<1>1. /\ c \in DOMAIN codes /\ req[r].pc \in {"exhaust", "spend"}
      /\ ~req[r].changed /\ ~req[r].lost
      /\ UNCHANGED <<now, address, mailed, exports, job>>
  BY DEF Mark, At, IInv, WorkIsKnown
<1>2. PICK pc \in {"done", "update"} :
        /\ GoTo(r, pc)
        /\ pc = "update" => At(r, "spend") /\ ~codes[c].used
  BY DEF Mark, MarkEmailCodeUsed, At
<1>3. /\ req' \in [Requests -> Handler] /\ Others(r) /\ Keeps(r)
      /\ req'[r].pc = pc /\ req'[r].code = c
      /\ req'[r].changed = req[r].changed /\ req'[r].lost = req[r].lost
  <2>1. pc \in PCs
    BY DEF PCs
  <2> QED BY <1>2, <2>1, GoingOn DEF IInv
<1>4. /\ \E n \in 0..MaxCodes : codes' \in [1..n -> Code]
      /\ DOMAIN codes' = DOMAIN codes
      /\ \A d \in DOMAIN codes : d # c => codes'[d] = codes[d]
      /\ codes'[c].used /\ codes'[c].email = codes[c].email
      /\ codes'[c].attempts = codes[c].attempts
  <2>1. CASE codes[c].used /\ UNCHANGED codes
    BY <1>1, <2>1 DEF IInv, TypeOK
  <2>2. CASE MarkEmailCodeUsedAnyway(c)
    BY <1>1, <2>2, UpdatedCode DEF IInv
  <2> QED BY <2>1, <2>2 DEF Mark, MarkEmailCodeUsed, MarkEmailCodeUsedAnyway
<1> HIDE DEF c
<1>5. TypeOK'
  BY <1>1, <1>3, <1>4 DEF IInv, TypeOK
<1>6. WorkIsKnown'
  BY <1>1, <1>3, <1>4 DEF IInv, WorkIsKnown, At, Others, Keeps, c
<1>7. /\ ~HasSpent(r) /\ (HasSpent(r)' => At(r, "spend") /\ ~codes[c].used)
      /\ ~At(r, "spend")' /\ ~req[r].lost
  BY <1>1, <1>2, <1>3 DEF HasSpent, At
<1>8. \A q \in Requests : q # r => req'[q] = req[q] /\ (HasSpent(q)' <=> HasSpent(q))
  BY <1>3 DEF Others, HasSpent, At
<1>9. CodeInHand'
  <2>1. \A d \in mailed : /\ codes'[d].email = codes[d].email
                          /\ codes[d].used => codes'[d].used
    BY <1>4 DEF IInv, TypeOK
  <2>2. HasSpent(r)' => c \in mailed /\ codes[c].email = req[r].email
    BY <1>7 DEF IInv, CodeInHand, c
  <2> QED BY <1>1, <1>3, <1>4, <1>7, <1>8, <2>1, <2>2 DEF IInv, CodeInHand, At, Keeps
\* The holders of a code held it marked: the one that marks it is alone.
<1>10. SpentByOne'
  <2>1. \A q \in Requests : q # r /\ HasSpent(q) /\ HasSpent(r)' => req[q].code # c
    BY <1>7 DEF IInv, CodeInHand
  <2> QED BY <1>3, <1>8, <2>1 DEF IInv, SpentByOne
<1>11. ExhaustedIsWithdrawn'
  <2> SUFFICES ASSUME NEW d \in DOMAIN codes', codes'[d].attempts >= MaxAttempts
               PROVE  \/ codes'[d].used
                      \/ \E q \in Requests :
                            req'[q].code = d /\ (At(q, "exhaust")' \/ req'[q].lost)
    BY DEF ExhaustedIsWithdrawn
  <2>1. CASE d = c
    BY <1>4, <2>1
  <2>2. CASE d # c
    <3>1. codes'[d] = codes[d] /\ d \in DOMAIN codes
      BY <1>4, <2>2
    <3>2. CASE codes[d].used
      BY <3>1, <3>2
    <3>3. CASE \E q \in Requests : req[q].code = d /\ (At(q, "exhaust") \/ req[q].lost)
      <4> PICK q \in Requests : req[q].code = d /\ (At(q, "exhaust") \/ req[q].lost)
        BY <3>3
      <4>1. q # r
        BY <2>2 DEF c
      <4> QED BY <1>8, <4>1 DEF At
    <3> QED BY <3>1, <3>2, <3>3 DEF IInv, ExhaustedIsWithdrawn
  <2> QED BY <2>1, <2>2
<1>12. ExportsKnown'
  BY <1>1, <1>3, ExportsKept, InvParts, RowsFrom1 DEF At, Others, Keeps
<1> QED BY <1>5, <1>6, <1>9, <1>10, <1>11, <1>12 DEF IInv, CodesKnown, ExportsKnown

LEMMA InvChangeEmail ==
    ASSUME IInv, NEW r \in Requests, ChangeEmail(r)
    PROVE  IInv'
<1>1. /\ req \in [Requests -> Handler] /\ req[r] \in Handler
      /\ req[r].pc = "update" /\ req[r].user \in Users /\ req[r].email \in Addresses
      /\ ~req[r].lost /\ req[r].export = 0
      /\ UNCHANGED <<now, codes, mailed, exports, job>>
  BY DEF ChangeEmail, At, IInv, TypeOK, WorkIsKnown
<1>2. /\ req' \in [Requests -> Handler] /\ Others(r) /\ Keeps(r)
      /\ req'[r].pc = "done" /\ req'[r].code = req[r].code /\ req'[r].lost = req[r].lost
  <2>1. "done" \in PCs
    BY DEF PCs
  <2>2. CASE GoTo(r, "done")
    BY <2>1, <2>2, GoingOn DEF IInv
  <2>3. CASE req' = [req EXCEPT ![r].pc = "done", ![r].changed = TRUE]
    <3> DEFINE next == [req[r] EXCEPT !.pc = "done", !.changed = TRUE]
    <3>1. /\ next \in Handler /\ next.pc = "done" /\ next.code = req[r].code
          /\ next.user = req[r].user /\ next.email = req[r].email /\ next.guess = req[r].guess
          /\ next.export = req[r].export /\ next.since = req[r].since
          /\ next.lost = req[r].lost
      BY <1>1 DEF Handler
    <3>2. req' = [req EXCEPT ![r] = next]
      BY <1>1, <2>3
    <3> HIDE DEF next
    <3> QED BY <1>1, <3>1, <3>2 DEF Others, Keeps
  <2> QED BY <2>2, <2>3 DEF ChangeEmail
<1>3. /\ address' \in [Users -> Addresses \union {None}]
      /\ \A u, v \in Users : address'[u] = address'[v] => u = v \/ address'[u] = None
  <2>1. CASE UNCHANGED address
    BY <2>1 DEF IInv, TypeOK
  <2>2. CASE UpdateEmail(req[r].user, req[r].email)
    BY <1>1, <2>2 DEF IInv, TypeOK, UpdateEmail, EmailExistsForOther
  <2> QED BY <2>1, <2>2 DEF ChangeEmail
<1>4. TypeOK'
  BY <1>1, <1>2, <1>3 DEF IInv, TypeOK
<1>5. WorkIsKnown'
  BY <1>1, <1>2 DEF IInv, WorkIsKnown, At, Others, Keeps
<1>6. CodesKnown'
  BY <1>1, <1>2, CodesKept, InvParts DEF HasSpent, At, Others, Keeps
<1>7. ExportsKnown'
  BY <1>1, <1>2, ExportsKept, InvParts, RowsFrom1 DEF At, Others, Keeps
<1> QED BY <1>4, <1>5, <1>6, <1>7 DEF IInv, CodesKnown, ExportsKnown

LEMMA InvStop ==
    ASSUME IInv, NEW r \in Requests, Stop(r)
    PROVE  IInv'
<1> DEFINE next == [req[r] EXCEPT !.pc = "done", !.lost = At(r, "exhaust")]
<1>1. /\ req \in [Requests -> Handler] /\ req[r] \in Handler
      /\ req[r].pc \notin {"new", "done"} /\ ~req[r].changed /\ ~req[r].lost
      /\ req[r].export = 0 /\ req[r].user \in Users
      /\ UNCHANGED <<now, address, codes, mailed, exports, job>>
  BY DEF Stop, InFlight, At, IInv, TypeOK, WorkIsKnown
<1>2. /\ next \in Handler /\ next.pc = "done" /\ next.code = req[r].code
      /\ next.user = req[r].user /\ next.email = req[r].email /\ next.guess = req[r].guess
      /\ next.export = req[r].export /\ next.since = req[r].since
      /\ next.changed = req[r].changed /\ next.lost = (req[r].pc = "exhaust")
  BY <1>1 DEF Handler, At
<1>3. req' = [req EXCEPT ![r] = next]
  BY <1>1 DEF Stop
<1> HIDE DEF next
<1>4. req' \in [Requests -> Handler] /\ req'[r] = next /\ Others(r)
  BY <1>1, <1>2, <1>3 DEF Others
<1>5. TypeOK'
  BY <1>1, <1>4 DEF IInv, TypeOK
<1>6. WorkIsKnown'
  BY <1>1, <1>2, <1>4 DEF IInv, WorkIsKnown, At, Others
<1>7. CodesKnown'
  BY <1>1, <1>2, <1>4, CodesKept, InvParts DEF HasSpent, At, Others
<1>8. ExportsKnown'
  BY <1>1, <1>2, <1>4, ExportsKept, InvParts, RowsFrom1 DEF At, Others
<1> QED BY <1>5, <1>6, <1>7, <1>8 DEF IInv, CodesKnown, ExportsKnown

LEMMA InvRequestDataExport ==
    ASSUME IInv, NEW r \in Requests, NEW u \in Users, RequestDataExport(r, u)
    PROVE  IInv'
<1> PICK n \in 0..MaxExports : exports \in [1..n -> Export]
  BY DEF IInv, TypeOK
<1> DEFINE next == [Blank EXCEPT !.pc = "export", !.user = u, !.since = n]
<1>1. n \in Nat /\ Size(exports) = n
  <2>1. n \in Nat
    BY RealProfileAssumption
  <2> QED BY <2>1, SizeOfRows
<1>2. req \in [Requests -> Handler] /\ req[r] = Blank
  BY DEF RequestDataExport, IInv, TypeOK, WorkIsKnown
<1>3. /\ next \in Handler /\ next.pc = "export" /\ next.user = u /\ next.since = n
      /\ next.code = 0 /\ next.guess = 0 /\ next.export = 0
      /\ next.changed = FALSE /\ next.lost = FALSE
  BY BlankTyped DEF Handler, Blank
<1>4. req' = [req EXCEPT ![r] = next]
  BY <1>1, <1>2 DEF RequestDataExport
<1> HIDE DEF next
<1>5. req' \in [Requests -> Handler] /\ req'[r] = next /\ Others(r)
  BY <1>2, <1>3, <1>4 DEF Others
<1>6. UNCHANGED <<now, address, codes, mailed, exports, job>>
  BY DEF RequestDataExport
<1>7. TypeOK'
  BY <1>5, <1>6 DEF IInv, TypeOK
<1>8. WorkIsKnown'
  <2>1. n \in DOMAIN exports \union {0}
    BY <1>1
  <2> QED BY <1>3, <1>5, <1>6, <2>1 DEF IInv, WorkIsKnown, At, Others
<1>9. CodesKnown'
  BY <1>2, <1>3, <1>5, <1>6, BlankTyped, CodesKept, InvParts DEF HasSpent, At, Others
\* The latest export is older than the cooldown, and so are those before it.
<1>10. ASSUME NEW x \in DOMAIN exports, exports[x].user = u
       PROVE  now - exports[x].requested >= Cooldown
  <2> DEFINE last == GetLatestDataExport(u)
  <2>1. x \in ExportsOf(u)
    BY <1>10 DEF ExportsOf
  <2>2. last \in ExportsOf(u) /\ x <= last
    BY <2>1, LatestExport DEF IInv
  <2>3. last \in DOMAIN exports /\ last # 0
    BY <2>2, RowsFrom1 DEF ExportsOf, IInv
  <2>4. now - exports[last].requested >= Cooldown
    BY <2>3 DEF RequestDataExport
  <2>5. exports[x].requested <= exports[last].requested
    BY <1>10, <2>2, <2>3 DEF IInv, ExportsInOrder
  <2>6. exports[x].requested \in Nat /\ exports[last].requested \in Nat /\ now \in Nat
    BY <1>10, <2>3, RowsFrom1 DEF IInv, TypeOK, Export
  <2>7. Cooldown \in Nat
    BY RealProfileAssumption
  <2> HIDE DEF last
  <2> QED BY <2>4, <2>5, <2>6, <2>7
<1>11. ExportsKnown'
  <2>1. ExportsInOrder' /\ JobIsDue'
    BY <1>6 DEF IInv, ExportsInOrder, JobIsDue
  <2>2. CooldownSeen'
    BY <1>3, <1>5, <1>6, <1>10 DEF IInv, CooldownSeen, At, Others
  <2>3. \A x, y \in DOMAIN exports : Overlapped(x, y) => Overlapped(x, y)'
    BY <1>2, <1>5, BlankTyped, RowsFrom1 DEF IInv, Overlapped, Others
  <2>4. ExportsKeepTheirTime'
    BY <1>6, <2>3 DEF IInv, ExportsKeepTheirTime
  <2> QED BY <2>1, <2>2, <2>4 DEF ExportsKnown
<1> QED BY <1>7, <1>8, <1>9, <1>11 DEF IInv, CodesKnown, ExportsKnown

LEMMA InvInsertDataExport ==
    ASSUME IInv, NEW r \in Requests, InsertDataExport(r)
    PROVE  IInv'
<1> PICK n \in 0..MaxExports : exports \in [1..n -> Export]
  BY DEF IInv, TypeOK
<1> DEFINE row == [user |-> req[r].user, requested |-> now, status |-> "pending", readyAt |-> 0]
           next == [req[r] EXCEPT !.pc = "done", !.export = n + 1]
<1>1. /\ n \in Nat /\ Size(exports) = n /\ n + 1 \in 0..MaxExports
      /\ req \in [Requests -> Handler] /\ req[r] \in Handler
      /\ req[r].pc = "export" /\ req[r].user \in Users /\ req[r].export = 0
      /\ ~req[r].changed /\ ~req[r].lost
      /\ now \in Nat /\ Cooldown \in Nat
  <2>1. n \in Nat /\ MaxExports \in Nat /\ Cooldown \in Nat
    BY RealProfileAssumption
  <2>2. Size(exports) = n
    BY <2>1, SizeOfRows
  <2>3. n < MaxExports
    BY <2>2 DEF InsertDataExport, CreateDataExport
  <2>4. /\ req \in [Requests -> Handler] /\ now \in Nat
        /\ req[r].pc = "export" /\ req[r].user \in Users /\ req[r].export = 0
        /\ ~req[r].changed /\ ~req[r].lost
    BY RealProfileAssumption DEF InsertDataExport, IInv, TypeOK, WorkIsKnown, At
  <2> QED BY <2>1, <2>2, <2>3, <2>4
<1>2. row \in Export /\ row.user = req[r].user /\ row.requested = now /\ row.status = "pending"
  BY <1>1 DEF Export
<1>3. /\ exports' \in [1..n + 1 -> Export]
      /\ exports'[n + 1] = row
      /\ \A x \in 1..n : exports'[x] = exports[x]
  <2>1. exports' = Appended(exports, row)
    BY DEF InsertDataExport, CreateDataExport
  <2> HIDE DEF row
  <2>2. Appended(exports, row) \in [1..n + 1 -> Export] /\ Appended(exports, row)[n + 1] = row
    BY <1>1, <1>2, AppendedRows
  <2>3. ASSUME NEW i \in 1..n PROVE Appended(exports, row)[i] = exports[i]
    BY <1>1, <1>2, <2>2, AppendedRows
  <2> QED BY <2>1, <2>2, <2>3
<1> HIDE DEF row
<1>4. /\ next \in Handler /\ next.pc = "done" /\ next.export = n + 1
      /\ next.user = req[r].user /\ next.email = req[r].email /\ next.guess = req[r].guess
      /\ next.code = req[r].code /\ next.since = req[r].since
      /\ next.changed = req[r].changed /\ next.lost = req[r].lost
  BY <1>1 DEF Handler
<1>5. req' = [req EXCEPT ![r] = next]
  BY <1>1 DEF InsertDataExport
<1> HIDE DEF next
<1>6. req' \in [Requests -> Handler] /\ req'[r] = next /\ Others(r)
  BY <1>1, <1>4, <1>5 DEF Others
<1>7. UNCHANGED <<now, address, codes, mailed, job>>
  BY DEF InsertDataExport
<1>8. /\ DOMAIN exports = 1..n /\ DOMAIN exports' = 1..n + 1
      /\ \A x \in 1..n : exports[x].requested \in Nat
      /\ \A q \in Requests : req[q].since \in 0..n
  BY <1>1, <1>3 DEF IInv, WorkIsKnown, Export
<1>9. TypeOK'
  BY <1>1, <1>3, <1>6, <1>7, <1>8 DEF IInv, TypeOK
<1>10. WorkIsKnown'
  BY <1>1, <1>4, <1>6, <1>7, <1>8 DEF IInv, WorkIsKnown, At, Others
<1>11. CodesKnown'
  BY <1>1, <1>4, <1>6, <1>7, CodesKept, InvParts DEF HasSpent, At, Others
<1>12. ExportsInOrder'
  BY <1>1, <1>2, <1>3, <1>7, <1>8 DEF IInv, ExportsInOrder
<1>13. JobIsDue'
  BY <1>3, <1>7, <1>8 DEF IInv, TypeOK, JobIsDue
<1>14. CooldownSeen'
  BY <1>1, <1>3, <1>4, <1>6, <1>7, <1>8 DEF IInv, CooldownSeen, At, Others
<1>15. ExportsKeepTheirTime'
  <2>1. ASSUME NEW x \in DOMAIN exports', exports'[x].status = "ready"
        PROVE  exports'[x].readyAt - exports'[x].requested >= GracePeriod
    BY <1>2, <1>3, <1>8, <2>1 DEF IInv, ExportsKeepTheirTime
  <2>2. ASSUME NEW x \in DOMAIN exports', NEW y \in DOMAIN exports',
               x < y, exports'[x].user = exports'[y].user,
               exports'[y].requested - exports'[x].requested < Cooldown
        PROVE  Overlapped(x, y)'
    <3>1. CASE y = n + 1
      <4>1. x \in 1..n
        BY <1>1, <1>8, <2>2, <3>1
      <4>2. exports[x].user = req[r].user /\ ~(now - exports[x].requested >= Cooldown)
        BY <1>1, <1>2, <1>3, <1>8, <2>2, <3>1, <4>1
      <4>3. ~(x <= req[r].since)
        BY <1>1, <1>8, <4>1, <4>2 DEF IInv, CooldownSeen, At
      <4>4. req'[r].since < x /\ req'[r].export = y
        BY <1>4, <1>6, <1>8, <3>1, <4>1, <4>3
      <4> QED BY <4>4 DEF Overlapped
    <3>2. CASE y # n + 1
      <4>1. x \in 1..n /\ y \in 1..n
        BY <1>1, <1>8, <2>2, <3>2
      <4>2. Overlapped(x, y)
        BY <1>3, <1>8, <2>2, <4>1 DEF IInv, ExportsKeepTheirTime
      <4> QED BY <1>1, <1>6, <4>1, <4>2 DEF Overlapped, Others
    <3> QED BY <3>1, <3>2
  <2> QED BY <2>1, <2>2 DEF ExportsKeepTheirTime
<1> QED BY <1>9, <1>10, <1>11, <1>12, <1>13, <1>14, <1>15 DEF IInv, CodesKnown

LEMMA InvProcessPendingExports ==
    ASSUME IInv, ProcessPendingExports
    PROVE  IInv'
<1>1. UNCHANGED <<now, address, codes, mailed, exports, req>>
  BY DEF ProcessPendingExports
<1>2. job' \subseteq DOMAIN exports /\ \A x \in job' : exports[x].requested <= now - GracePeriod
  BY DEF ProcessPendingExports, PickPending, ListPendingDataExports
<1>3. JobIsDue'
  <2>1. now \in Nat /\ GracePeriod \in Nat
    BY RealProfileAssumption DEF IInv, TypeOK
  <2>2. \A x \in job' : exports[x].requested \in Nat
    BY <1>2, RowsFrom1 DEF IInv, Export
  <2> QED BY <1>1, <1>2, <2>1, <2>2 DEF JobIsDue
<1>4. TypeOK'
  BY <1>1, <1>2 DEF IInv, TypeOK
<1>5. WorkIsKnown'
  BY <1>1 DEF IInv, WorkIsKnown, At
<1>6. CodesKnown'
  BY <1>1, CodesKept, InvParts DEF HasSpent, At
<1>7. ExportsInOrder' /\ CooldownSeen' /\ ExportsKeepTheirTime'
  BY <1>1 DEF IInv, ExportsInOrder, CooldownSeen, ExportsKeepTheirTime, Overlapped, At
<1> QED BY <1>3, <1>4, <1>5, <1>6, <1>7 DEF IInv, CodesKnown

LEMMA InvMarkReady ==
    ASSUME IInv, MarkReady
    PROVE  IInv'
<1> PICK n \in 0..MaxExports : exports \in [1..n -> Export]
  BY DEF IInv, TypeOK
<1> PICK x \in job : UpdateDataExportReady(x) /\ job' = job \ {x}
  BY DEF MarkReady
<1> DEFINE row == [exports[x] EXCEPT !.status = "ready", !.readyAt = now]
<1>1. /\ UNCHANGED <<now, address, codes, mailed, req>>
      /\ x \in 1..n /\ exports[x] \in Export /\ now \in Nat
  BY RealProfileAssumption DEF MarkReady, IInv, TypeOK
<1>2. /\ row \in Export /\ row.user = exports[x].user /\ row.requested = exports[x].requested
      /\ row.status = "ready" /\ row.readyAt = now
  BY <1>1 DEF Export
<1>3. exports' = [exports EXCEPT ![x] = row]
  BY <1>1 DEF UpdateDataExportReady
<1> HIDE DEF row
<1>4. /\ exports' \in [1..n -> Export] /\ DOMAIN exports' = DOMAIN exports
      /\ exports'[x] = row
      /\ \A y \in DOMAIN exports : y # x => exports'[y] = exports[y]
      /\ \A y \in DOMAIN exports : /\ exports'[y].user = exports[y].user
                                   /\ exports'[y].requested = exports[y].requested
  BY <1>1, <1>2, <1>3
<1>5. TypeOK'
  BY <1>1, <1>4 DEF IInv, TypeOK
<1>6. WorkIsKnown'
  BY <1>1, <1>4 DEF IInv, WorkIsKnown, At
<1>7. CodesKnown'
  BY <1>1, CodesKept, InvParts DEF HasSpent, At
<1>8. ExportsInOrder' /\ CooldownSeen'
  BY <1>1, <1>4 DEF IInv, ExportsInOrder, CooldownSeen, At
<1>9. JobIsDue'
  BY <1>1, <1>4 DEF IInv, TypeOK, JobIsDue
<1>10. ExportsKeepTheirTime'
  <2>1. ASSUME NEW y \in DOMAIN exports', exports'[y].status = "ready"
        PROVE  exports'[y].readyAt - exports'[y].requested >= GracePeriod
    <3>1. CASE y = x
      BY <1>2, <1>4, <3>1 DEF IInv, JobIsDue
    <3>2. CASE y # x
      BY <1>4, <2>1, <3>2 DEF IInv, ExportsKeepTheirTime
    <3> QED BY <3>1, <3>2
  <2>2. \A y, z \in DOMAIN exports : Overlapped(y, z) => Overlapped(y, z)'
    BY <1>1 DEF Overlapped
  <2> QED BY <1>4, <2>1, <2>2 DEF IInv, ExportsKeepTheirTime
<1> QED BY <1>5, <1>6, <1>7, <1>8, <1>9, <1>10 DEF IInv, CodesKnown

LEMMA InvJobStops ==
    ASSUME IInv, JobStops
    PROVE  IInv'
<1>1. UNCHANGED <<now, address, codes, mailed, exports, req>> /\ job' = {}
  BY DEF JobStops
<1>2. TypeOK' /\ WorkIsKnown' /\ JobIsDue'
  BY <1>1 DEF IInv, TypeOK, WorkIsKnown, JobIsDue, At
<1>3. CodesKnown'
  BY <1>1, CodesKept, InvParts DEF HasSpent, At
<1>4. ExportsInOrder' /\ CooldownSeen' /\ ExportsKeepTheirTime'
  BY <1>1 DEF IInv, ExportsInOrder, CooldownSeen, ExportsKeepTheirTime, Overlapped, At
<1> QED BY <1>2, <1>3, <1>4 DEF IInv, CodesKnown

\* Time only adds to what has passed.
LEMMA InvTick ==
    ASSUME IInv, Tick
    PROVE  IInv'
<1>1. UNCHANGED <<address, codes, mailed, exports, job, req>> /\ now < MaxNow /\ now' = now + 1
  BY DEF Tick
<1>2. now \in Nat /\ MaxNow \in Nat /\ now' \in 0..MaxNow
  BY <1>1, RealProfileAssumption DEF IInv, TypeOK
<1>3. \A x \in DOMAIN exports : exports[x].requested \in Nat
  BY RowsFrom1 DEF IInv, Export
<1>4. Cooldown \in Nat /\ GracePeriod \in Nat
  BY RealProfileAssumption
<1>5. TypeOK' /\ WorkIsKnown'
  BY <1>1, <1>2 DEF IInv, TypeOK, WorkIsKnown, At
<1>6. CodesKnown'
  BY <1>1, CodesKept, InvParts DEF HasSpent, At
<1>7. ExportsInOrder'
  BY <1>1, <1>2, <1>3 DEF IInv, ExportsInOrder
<1>8. CooldownSeen'
  BY <1>1, <1>2, <1>3, <1>4 DEF IInv, CooldownSeen, At
<1>9. JobIsDue'
  BY <1>1, <1>2, <1>3, <1>4 DEF IInv, TypeOK, JobIsDue
<1>10. ExportsKeepTheirTime'
  BY <1>1 DEF IInv, ExportsKeepTheirTime, Overlapped
<1> QED BY <1>5, <1>6, <1>7, <1>8, <1>9, <1>10 DEF IInv, CodesKnown

LEMMA InvNext == IInv /\ [Next]_vars => IInv'
<1> SUFFICES ASSUME IInv, [Next]_vars PROVE IInv'
  OBVIOUS
<1>1. CASE Tick \/ ProcessPendingExports \/ MarkReady \/ JobStops
  BY <1>1, InvTick, InvProcessPendingExports, InvMarkReady, InvJobStops
<1>2. ASSUME NEW r \in Requests,
             \/ HandleRequestEmailChange(r) \/ HandleConfirmEmailChange(r)
             \/ HandleRequestDataExport(r)
      PROVE  IInv'
  BY <1>2, InvRequestEmailChange, InvConfirmEmailChange, InvRequestDataExport
     DEF HandleRequestEmailChange, HandleConfirmEmailChange, HandleRequestDataExport
<1>3. ASSUME NEW r \in Requests, WithdrawCode(r) \/ SpendCode(r) PROVE IInv'
  BY <1>3, InvMark DEF WithdrawCode, SpendCode
<1>4. ASSUME NEW r \in Requests,
             \/ StoreCode(r) \/ SendEmailCode(r) \/ VerifyEmailCode(r) \/ CountAttempt(r)
             \/ ChangeEmail(r) \/ InsertDataExport(r) \/ Stop(r)
      PROVE  IInv'
  BY <1>4, InvStoreCode, InvSendEmailCode, InvVerifyEmailCode, InvCountAttempt,
     InvChangeEmail, InvInsertDataExport, InvStop
<1>5. CASE UNCHANGED vars
  <2>1. UNCHANGED <<now, address, codes, mailed, exports, job, req>>
    BY <1>5 DEF vars
  <2>2. TypeOK' /\ WorkIsKnown'
    BY <2>1 DEF IInv, TypeOK, WorkIsKnown, At
  <2>3. CodesKnown'
    BY <2>1, CodesKept, InvParts DEF HasSpent, At
  <2>4. ExportsKnown'
    BY <2>1, ExportsKept, InvParts, RowsFrom1 DEF At, IInv
  <2> QED BY <2>2, <2>3, <2>4 DEF IInv, CodesKnown, ExportsKnown
<1> QED BY <1>1, <1>2, <1>3, <1>4, <1>5 DEF Next

-----------------------------------------------------------------------------
(***************************************************************************)
(* The inductive invariant, and what it implies.                           *)
(***************************************************************************)
\* In every reachable state the rows are as the requests at work rely on them.
THEOREM Invariance == Spec => []IInv
<1>1. IInv /\ [Next]_vars => IInv'
  BY InvNext
<1> QED BY InvInit, <1>1, PTL DEF Spec

\* Every table and request keeps its type, the bounds are kept, and no two
\* accounts ever have the same address.
THEOREM TypeCorrect == Spec => []TypeOK
<1>1. IInv => TypeOK
  BY DEF IInv
<1> QED BY Invariance, <1>1, PTL

\* A code changes one address at most, and only to the one it was mailed to;
\* a code whose attempts are up is withdrawn unless a handler stopped.
THEOREM CodesAreKept == Spec => []CodesHold
<1>1. IInv => CodeSpentOnce
  BY DEF IInv, CodeInHand, SpentByOne, HasSpent, CodeSpentOnce
<1>2. IInv => CodesHold
  BY <1>1 DEF IInv, CodesHold
<1> QED BY Invariance, <1>2, PTL

\* Exports of one account closer than the cooldown were asked for together, and
\* none is ready before the grace period is over, however many jobs stopped.
THEOREM ExportTimesHold == Spec => []ExportsKeepTheirTime
<1>1. IInv => ExportsKeepTheirTime
  BY DEF IInv
<1> QED BY Invariance, <1>1, PTL
=============================================================================
