---------------------------- MODULE InviteLedger ----------------------------
(***************************************************************************)
(* What registration by invite promises, without its tables, transactions  *)
(* and handlers: a code is issued once; while it is open it admits one new *)
(* member or is withdrawn, and it never opens again.                       *)
(***************************************************************************)
EXTENDS Integers

CONSTANTS Codes, Names, None

VARIABLES
    issued,     \* the codes that were ever issued
    open,       \* the codes that can still admit somebody
    admits      \* the member each code admitted

ledger == <<issued, open, admits>>

LedgerInit ==
    /\ issued = {}
    /\ open = {}
    /\ admits = [c \in Codes |-> None]

Issue(c) ==
    /\ c \notin issued
    /\ issued' = issued \union {c}
    /\ open' = open \union {c}
    /\ UNCHANGED admits

Admit(c, n) ==
    /\ c \in open
    /\ \A d \in Codes : admits[d] # n
    /\ admits[c] = None
    /\ admits' = [admits EXCEPT ![c] = n]
    /\ open' = open \ {c}
    /\ UNCHANGED issued

Withdraw(c) ==
    /\ c \in open
    /\ open' = open \ {c}
    /\ UNCHANGED <<issued, admits>>

LedgerNext ==
    \E c \in Codes :
        \/ Issue(c)
        \/ \E n \in Names : Admit(c, n)
        \/ Withdraw(c)

LedgerSpec == LedgerInit /\ [][LedgerNext]_ledger
=============================================================================
