------------------------------- MODULE Docket -------------------------------
(***************************************************************************)
(* What the moderation desk promises, without its tables and handlers: a   *)
(* report is filed once; it is closed only after a moderator has decided   *)
(* on what it is about, and it stays closed.                               *)
(***************************************************************************)
CONSTANTS Reports, Targets, Outcomes, None

VARIABLES
    about,      \* what each report is about; None: not filed
    closed,     \* the reports that are closed
    decisions   \* the decisions taken: <<target, outcome>>

docket == <<about, closed, decisions>>

DocketInit ==
    /\ about = [p \in Reports |-> None]
    /\ closed = {}
    /\ decisions = {}

File(p, t) ==
    /\ about[p] = None
    /\ about' = [about EXCEPT ![p] = t]
    /\ UNCHANGED <<closed, decisions>>

Decide(t, o) ==
    /\ \E p \in Reports : about[p] = t
    /\ decisions' = decisions \union {<<t, o>>}
    /\ UNCHANGED <<about, closed>>

Close(R) ==
    /\ \E t \in Targets, o \in Outcomes :
        /\ <<t, o>> \in decisions
        /\ \A p \in R : about[p] = t
    /\ closed' = closed \union R
    /\ UNCHANGED <<about, decisions>>

DocketNext ==
    \/ \E p \in Reports, t \in Targets : File(p, t)
    \/ \E t \in Targets, o \in Outcomes : Decide(t, o)
    \/ \E R \in SUBSET Reports : Close(R)

DocketSpec == DocketInit /\ [][DocketNext]_docket
=============================================================================
