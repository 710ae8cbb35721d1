----------------------------- MODULE RateLimits -----------------------------
(***************************************************************************)
(* The in-process rate limiter (services/api/internal/auth/limiter.go) and *)
(* the three limits that Register and Login apply one after the other: by  *)
(* username, by IP address and by device fingerprint.                      *)
(*                                                                         *)
(* Allow holds the limiter's mutex and is one step; requests interleave    *)
(* between their three calls, and time passes.  The timestamps of a key    *)
(* are kept as pairs <<request, time>>: a request calls Allow at most once *)
(* for each of its keys.  granted is the history of all the events that    *)
(* were let through; the code keeps the recent ones only.                  *)
(***************************************************************************)
EXTENDS Integers, FiniteSets

CONSTANTS
    Requests,                   \* requests; each is made once
    UserKeys, IPKeys, FPKeys,   \* the keys of the three scopes
    Count,                      \* RateLimit.Count of each key's scope
    Window,                     \* RateLimit.Window: ten minutes in each scope
    MaxTime,                    \* bound: the clock stops here
    NoKey

Keys == UserKeys \union IPKeys \union FPKeys

ASSUME RateLimitsAssumption ==
    /\ IsFiniteSet(Requests)
    /\ Count \in [Keys -> Nat]
    /\ Window \in Nat
    /\ MaxTime \in Nat

VARIABLES
    now,        \* time.Now() under the mutex
    entries,    \* limitEntry.timestamps of each key
    granted,    \* history: every event that Allow recorded
    pc,         \* the limit each request is checked against next
    refusal     \* the key a request was refused for, when, and the retryAfter

vars == <<now, entries, granted, pc, refusal>>

Events == Requests \X Nat
NoRefusal == [key |-> NoKey, at |-> 0, retryAfter |-> 0]

TypeOK ==
    /\ now \in Nat
    /\ entries \in [Keys -> SUBSET Events]
    /\ granted \in [Keys -> SUBSET Events]
    /\ pc \in [Requests -> {"username", "ip", "fingerprint", "admitted", "refused"}]
    /\ refusal \in [Requests -> [key : Keys \union {NoKey}, at : Nat, retryAfter : Nat]]

Init ==
    /\ now = 0
    /\ entries = [k \in Keys |-> {}]
    /\ granted = [k \in Keys |-> {}]
    /\ pc = [r \in Requests |-> "username"]
    /\ refusal = [r \in Requests |-> NoRefusal]

-----------------------------------------------------------------------------
\* No pruning at all.
CountedEver(k) == entries[k]

\* Pruning that drops an event as soon as it is a whole window old.
CountedStrictly(k) == {e \in entries[k] : e[2] > now - Window}

\* The events of a key that are not before the cutoff: the others are pruned.
Counted(k) == {e \in entries[k] : e[2] >= now - Window}

Full(k) == Count[k] > 0 /\ Cardinality(Counted(k)) >= Count[k]

\* The scan that keeps the latest timestamp instead of the earliest.
Newest(k) == {e \in Counted(k) : \A d \in Counted(k) : d[2] <= e[2]}

Oldest(k) == {e \in Counted(k) : \A d \in Counted(k) : e[2] <= d[2]}

KeysOf(limit) == CASE limit = "username" -> UserKeys
                   [] limit = "ip" -> IPKeys
                   [] limit = "fingerprint" -> FPKeys
                   [] OTHER -> {}

Following(limit) == CASE limit = "username" -> "ip"
                      [] limit = "ip" -> "fingerprint"
                      [] limit = "fingerprint" -> "admitted"

(***************************************************************************)
(* Allow returns true: the event is recorded, unless the limit is off.     *)
(***************************************************************************)
Admit(r, k) ==
    /\ k \in KeysOf(pc[r])
    /\ ~Full(k)
    /\ IF Count[k] = 0
       THEN UNCHANGED <<entries, granted>>
       ELSE /\ entries' = [entries EXCEPT ![k] = Counted(k) \union {<<r, now>>}]
            /\ granted' = [granted EXCEPT ![k] = @ \union {<<r, now>>}]
    /\ pc' = [pc EXCEPT ![r] = Following(@)]
    /\ UNCHANGED <<now, refusal>>

\* What a refused request is told: the time until the oldest event expires.
Answer(r, k) ==
    \E e \in Oldest(k) :
        refusal' = [refusal EXCEPT ![r] =
                      [key |-> k, at |-> now, retryAfter |-> Window - (now - e[2])]]

\* A refusal that takes a place in the window, as an attempt.
RefuseAndRecord(r, k) ==
    /\ k \in KeysOf(pc[r])
    /\ Full(k)
    /\ entries' = [entries EXCEPT ![k] = Counted(k) \union {<<r, now>>}]
    /\ Answer(r, k)
    /\ pc' = [pc EXCEPT ![r] = "refused"]
    /\ UNCHANGED <<now, granted>>

(***************************************************************************)
(* Allow returns false: the pruned events stay and nothing is recorded on  *)
(* this key; what the earlier limits of the request recorded stays too.    *)
(***************************************************************************)
Refuse(r, k) ==
    /\ k \in KeysOf(pc[r])
    /\ Full(k)
    /\ entries' = [entries EXCEPT ![k] = Counted(k)]
    /\ Answer(r, k)
    /\ pc' = [pc EXCEPT ![r] = "refused"]
    /\ UNCHANGED <<now, granted>>

Tick ==
    /\ now < MaxTime
    /\ now' = now + 1
    /\ UNCHANGED <<entries, granted, pc, refusal>>

Next ==
    \/ \E r \in Requests, k \in Keys : Admit(r, k) \/ Refuse(r, k)
    \/ Tick

Spec == Init /\ [][Next]_vars

-----------------------------------------------------------------------------
GrantedFrom(k, t) == {e \in granted[k] : t <= e[2] /\ e[2] <= t + Window}

(***************************************************************************)
(* "At most Count requests per Window": whatever instant a window starts   *)
(* at, a key was granted at most Count times in it, although the limiter   *)
(* forgets events as it goes.                                              *)
(***************************************************************************)
WindowBound ==
    \A k \in Keys, t \in 0..now : Count[k] > 0 =>
        Cardinality(GrantedFrom(k, t)) <= Count[k]

(***************************************************************************)
(* A request is refused only when Count requests really were granted on    *)
(* that key in the last Window: refused attempts and forgotten events do   *)
(* not lock a user out.                                                    *)
(***************************************************************************)
RefusedOnlyWhenFull ==
    \A r \in Requests : pc[r] = "refused" =>
        LET no == refusal[r]
        IN  Cardinality({e \in granted[no.key] :
                            no.at - Window <= e[2] /\ e[2] <= no.at}) >= Count[no.key]

(***************************************************************************)
(* retryAfter is exact: one of the events that filled the window leaves it *)
(* just after at + retryAfter, and none does earlier.                      *)
(***************************************************************************)
RetryAfterExact ==
    \A r \in Requests : pc[r] = "refused" =>
        LET no == refusal[r]
        IN  (now > no.at + no.retryAfter) <=>
                \E e \in granted[no.key] :
                    /\ no.at - Window <= e[2] /\ e[2] <= no.at
                    /\ e[2] < now - Window
=============================================================================
