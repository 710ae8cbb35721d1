-------------------------- MODULE RateLimitsProofs --------------------------
(***************************************************************************)
(* The window bound of RateLimits for every limit, window and number of    *)
(* requests.  The limiter decides from the events it kept; the invariant   *)
(* says that what it forgot is out of every window that is still open.     *)
(***************************************************************************)
EXTENDS RateLimits, FiniteSetTheorems, TLAPS

\* The limiter keeps granted events, and forgets only what is out of reach.
KeepsWhatCounts ==
    \A k \in Keys :
        /\ \A e \in granted[k] : e[2] <= now
        /\ entries[k] \subseteq granted[k]
        /\ \A e \in granted[k] : e[2] >= now - Window => e \in entries[k]

LimitInv ==
    /\ TypeOK
    /\ KeepsWhatCounts
    /\ WindowBound
    /\ RefusedOnlyWhenFull

-----------------------------------------------------------------------------
(***************************************************************************)
(* Two facts about cardinalities: a set of events up to an instant is      *)
(* finite, and one more element adds at most one.                          *)
(***************************************************************************)
LEMMA FiniteEvents ==
    ASSUME NEW R, IsFiniteSet(R), NEW n \in Nat
    PROVE  IsFiniteSet(R \X (0 .. n))
<1>1. IsFiniteSet(0 .. n)
  BY FS_Interval
<1> QED BY <1>1, FS_Product

LEMMA OneMore ==
    ASSUME NEW S, NEW x, IsFiniteSet(S)
    PROVE  /\ IsFiniteSet(S \union {x})
           /\ Cardinality(S \union {x}) <= Cardinality(S) + 1
<1>1. Cardinality(S) \in Nat
  BY FS_CardinalityType
<1>2. CASE x \in S
  <2> DEFINE T == S \union {x}
  <2>1. T = S
    BY <1>2
  <2>2. IsFiniteSet(T) /\ Cardinality(T) <= Cardinality(S) + 1
    <3> HIDE DEF T
    <3> QED BY <1>1, <2>1
  <2> QED BY <2>2
<1>3. CASE x \notin S
  <2>1. Cardinality(S \union {x}) = Cardinality(S) + 1 /\ IsFiniteSet(S \union {x})
    BY <1>3, FS_AddElement
  <2> QED BY <1>1, <2>1
<1> QED BY <1>2, <1>3

LEMMA TypeInit == Init => TypeOK
BY DEF Init, TypeOK, NoRefusal

LEMMA TypeNext == TypeOK /\ [Next]_vars => TypeOK'
<1> SUFFICES ASSUME TypeOK, [Next]_vars PROVE TypeOK'
  OBVIOUS
<1> USE RateLimitsAssumption DEF TypeOK
<1>1. \A k \in Keys : Counted(k) \subseteq Events
  BY DEF Counted
<1>2. ASSUME NEW r \in Requests, NEW k \in Keys, Admit(r, k)
      PROVE  TypeOK'
  <2>1. entries' \in [Keys -> SUBSET Events] /\ granted' \in [Keys -> SUBSET Events]
    BY <1>1, <1>2 DEF Admit, Events
  <2>2. Following(pc[r]) \in {"ip", "fingerprint", "admitted"}
    BY <1>2 DEF Admit, KeysOf, Following
  <2> QED BY <1>2, <2>1, <2>2 DEF Admit
<1>3. ASSUME NEW r \in Requests, NEW k \in Keys, Refuse(r, k)
      PROVE  TypeOK'
  <2>1. PICK e \in Oldest(k) :
           refusal' = [refusal EXCEPT ![r] =
                         [key |-> k, at |-> now, retryAfter |-> Window - (now - e[2])]]
    BY <1>3 DEF Refuse, Answer
  <2>2. Window - (now - e[2]) \in Nat
    BY <1>1 DEF Oldest, Counted, Events
  <2>3. refusal' \in [Requests -> [key : Keys \union {NoKey}, at : Nat, retryAfter : Nat]]
    BY <2>1, <2>2
  <2> QED BY <1>1, <1>3, <2>3 DEF Refuse
<1>4. CASE Tick
  BY <1>4 DEF Tick
<1>5. CASE UNCHANGED vars
  BY <1>5 DEF vars
<1> QED BY <1>2, <1>3, <1>4, <1>5 DEF Next

(***************************************************************************)
(* Every set of granted events is finite: nothing happens after now.       *)
(***************************************************************************)
LEMMA GrantedFinite ==
    ASSUME TypeOK, KeepsWhatCounts, NEW k \in Keys, NEW S \in SUBSET granted[k]
    PROVE  IsFiniteSet(S) /\ Cardinality(S) \in Nat
<1>1. IsFiniteSet(Requests \X (0 .. now))
  BY FiniteEvents, RateLimitsAssumption DEF TypeOK
<1>2. S \subseteq Requests \X (0 .. now)
  BY DEF TypeOK, KeepsWhatCounts, Events
<1> QED BY <1>1, <1>2, FS_Subset, FS_CardinalityType

LEMMA KeepsInit == Init => KeepsWhatCounts /\ WindowBound /\ RefusedOnlyWhenFull
<1> SUFFICES ASSUME Init PROVE KeepsWhatCounts /\ WindowBound /\ RefusedOnlyWhenFull
  OBVIOUS
<1>1. \A k \in Keys, t \in 0 .. now : GrantedFrom(k, t) = {}
  BY DEF Init, GrantedFrom
<1>2. WindowBound
  BY <1>1, FS_EmptySet, RateLimitsAssumption DEF WindowBound
<1> QED BY <1>2 DEF Init, KeepsWhatCounts, RefusedOnlyWhenFull

LEMMA StepAdmit ==
    ASSUME LimitInv, TypeOK', NEW r \in Requests, NEW k \in Keys, Admit(r, k)
    PROVE  KeepsWhatCounts' /\ WindowBound' /\ RefusedOnlyWhenFull'
<1> USE RateLimitsAssumption DEF LimitInv
<1>1. now \in Nat /\ now' = now /\ refusal' = refusal
  BY DEF Admit, TypeOK
<1>2. \A q \in Requests : pc'[q] = "refused" => pc[q] = "refused"
  <2>1. Following(pc[r]) # "refused"
    BY DEF Admit, KeysOf, Following
  <2> QED BY <2>1 DEF Admit, TypeOK
<1>3. CASE Count[k] = 0
  BY <1>1, <1>2, <1>3
     DEF Admit, KeepsWhatCounts, WindowBound, RefusedOnlyWhenFull, GrantedFrom
<1>4. CASE Count[k] # 0
  <2>1. /\ entries' = [entries EXCEPT ![k] = Counted(k) \union {<<r, now>>}]
        /\ granted' = [granted EXCEPT ![k] = @ \union {<<r, now>>}]
        /\ Cardinality(Counted(k)) < Count[k]
    <3>1. Counted(k) \in SUBSET granted[k]
      BY DEF Counted, KeepsWhatCounts
    <3>2. Cardinality(Counted(k)) \in Nat /\ Count[k] \in Nat
      BY <3>1, GrantedFinite
    <3> QED BY <1>4, <3>2 DEF Admit, Full
  <2>2. /\ entries \in [Keys -> SUBSET Events] /\ granted \in [Keys -> SUBSET Events]
        /\ \A e \in Events : e[2] \in Nat
    BY DEF TypeOK, Events
  <2>3. KeepsWhatCounts'
    BY <1>1, <2>1, <2>2 DEF KeepsWhatCounts, Counted
  <2>4. ASSUME NEW q \in Requests, pc'[q] = "refused"
        PROVE  Cardinality({e \in granted'[refusal[q].key] :
                   refusal[q].at - Window <= e[2] /\ e[2] <= refusal[q].at})
                     >= Count[refusal[q].key]
    <3> DEFINE key == refusal[q].key
               at == refusal[q].at
               Old == {e \in granted[key] : at - Window <= e[2] /\ e[2] <= at}
               New == {e \in granted'[key] : at - Window <= e[2] /\ e[2] <= at}
    <3>1. Cardinality(Old) >= Count[key]
      BY <1>2, <2>4 DEF RefusedOnlyWhenFull
    <3>2. CASE key = k
      <4>1. Old \subseteq New
        BY <2>1, <2>2, <3>2
      <4>2. IsFiniteSet(New) /\ Cardinality(New) \in Nat
        <5>1. TypeOK' /\ KeepsWhatCounts' /\ New \in SUBSET granted'[k]
          BY <2>3, <3>2
        <5>2. IsFiniteSet(Requests \X (0 .. now))
          BY <1>1, FiniteEvents
        <5>3. New \subseteq Requests \X (0 .. now)
          BY <1>1, <5>1 DEF TypeOK, KeepsWhatCounts, Events
        <5> QED BY <5>2, <5>3, FS_Subset, FS_CardinalityType
      <4>3. Cardinality(Old) <= Cardinality(New) /\ Cardinality(Old) \in Nat
        BY <4>1, <4>2, FS_Subset, FS_CardinalityType
      <4>4. Cardinality(New) >= Count[key]
        <5>1. Count[key] \in Nat
          BY <3>2
        <5> HIDE DEF Old, New, key
        <5> QED BY <3>1, <4>2, <4>3, <5>1
      <4> QED BY <4>4
    <3>3. CASE key # k
      <4>1. granted'[key] = granted[key]
        BY <2>1, <2>2, <3>3 DEF TypeOK
      <4> QED BY <3>1, <4>1
    <3> QED BY <3>2, <3>3
  <2>5. RefusedOnlyWhenFull'
    BY <1>1, <2>4 DEF RefusedOnlyWhenFull
  <2>6. ASSUME NEW j \in Keys, NEW t \in 0 .. now', Count[j] > 0
        PROVE  Cardinality(GrantedFrom(j, t)') <= Count[j]
    <3>1. Cardinality(GrantedFrom(j, t)) <= Count[j]
      BY <1>1, <2>6 DEF WindowBound
    <3>2. CASE j # k \/ now > t + Window
      <4>1. GrantedFrom(j, t)' = GrantedFrom(j, t)
        BY <1>1, <2>1, <2>2, <3>2 DEF GrantedFrom
      <4> QED BY <3>1, <4>1
    <3>3. CASE j = k /\ now <= t + Window
      <4>1. GrantedFrom(j, t)' \subseteq Counted(k) \union {<<r, now>>}
        BY <1>1, <2>1, <2>2, <3>3 DEF GrantedFrom, Counted, KeepsWhatCounts
      <4>2. IsFiniteSet(Counted(k)) /\ Cardinality(Counted(k)) \in Nat
        <5>1. Counted(k) \in SUBSET granted[k]
          BY DEF Counted, KeepsWhatCounts
        <5> QED BY <5>1, GrantedFinite
      <4>3. /\ IsFiniteSet(Counted(k) \union {<<r, now>>})
            /\ Cardinality(Counted(k) \union {<<r, now>>}) <= Cardinality(Counted(k)) + 1
        BY <4>2, OneMore
      <4>4. Cardinality(GrantedFrom(j, t)')
              <= Cardinality(Counted(k) \union {<<r, now>>})
        BY <4>1, <4>3, FS_Subset
      <4>5. /\ Cardinality(GrantedFrom(j, t)') \in Nat
            /\ Cardinality(Counted(k) \union {<<r, now>>}) \in Nat
        BY <4>1, <4>3, FS_Subset, FS_CardinalityType
      <4>6. Count[k] \in Nat
        OBVIOUS
      <4> QED BY <2>1, <3>3, <4>2, <4>3, <4>4, <4>5, <4>6
    <3> QED BY <1>1, <3>2, <3>3
  <2>7. WindowBound'
    BY <2>6 DEF WindowBound
  <2> QED BY <2>3, <2>5, <2>7
<1> QED BY <1>3, <1>4

LEMMA StepRefuse ==
    ASSUME LimitInv, TypeOK', NEW r \in Requests, NEW k \in Keys, Refuse(r, k)
    PROVE  KeepsWhatCounts' /\ WindowBound' /\ RefusedOnlyWhenFull'
<1> USE RateLimitsAssumption DEF LimitInv
<1>1. now \in Nat /\ now' = now /\ granted' = granted
  BY DEF Refuse, TypeOK
<1>2. KeepsWhatCounts'
  BY <1>1 DEF Refuse, KeepsWhatCounts, Counted, TypeOK
<1>3. WindowBound'
  BY <1>1 DEF WindowBound, GrantedFrom
<1>4. /\ pc' = [pc EXCEPT ![r] = "refused"]
      /\ \A q \in Requests : q # r => refusal'[q] = refusal[q]
      /\ refusal'[r].key = k /\ refusal'[r].at = now
  BY DEF Refuse, Answer, TypeOK
<1>5. Counted(k) = {e \in granted[k] : now - Window <= e[2] /\ e[2] <= now}
  BY <1>1 DEF Counted, KeepsWhatCounts, TypeOK, Events
<1>6. Cardinality({e \in granted'[k] : now - Window <= e[2] /\ e[2] <= now}) >= Count[k]
  BY <1>1, <1>5 DEF Refuse, Full
<1>7. RefusedOnlyWhenFull'
  BY <1>1, <1>4, <1>6 DEF RefusedOnlyWhenFull, TypeOK
<1> QED BY <1>2, <1>3, <1>7

LEMMA StepTick ==
    ASSUME LimitInv, Tick
    PROVE  KeepsWhatCounts' /\ WindowBound' /\ RefusedOnlyWhenFull'
<1> USE RateLimitsAssumption DEF LimitInv
<1>1. now \in Nat /\ now' = now + 1 /\ UNCHANGED <<entries, granted, pc, refusal>>
  BY DEF Tick, TypeOK
<1>2. \A k \in Keys : \A e \in granted[k] : e[2] \in Nat
  BY DEF TypeOK, Events
<1>3. KeepsWhatCounts'
  BY <1>1, <1>2 DEF KeepsWhatCounts
<1>4. RefusedOnlyWhenFull'
  BY <1>1 DEF RefusedOnlyWhenFull
<1>5. ASSUME NEW k \in Keys, NEW t \in 0 .. now', Count[k] > 0
      PROVE  Cardinality(GrantedFrom(k, t)') <= Count[k]
  <2>1. GrantedFrom(k, t)' = GrantedFrom(k, t)
    BY <1>1 DEF GrantedFrom
  <2>2. CASE t \in 0 .. now
    BY <1>5, <2>1, <2>2 DEF WindowBound
  <2>3. CASE t \notin 0 .. now
    <3>1. GrantedFrom(k, t) = {}
      BY <1>1, <1>2, <2>3 DEF GrantedFrom, KeepsWhatCounts
    <3> QED BY <1>5, <2>1, <3>1, FS_EmptySet
  <2> QED BY <2>2, <2>3
<1>6. WindowBound'
  BY <1>5 DEF WindowBound
<1> QED BY <1>3, <1>4, <1>6

LEMMA LimitInvNext == LimitInv /\ [Next]_vars => LimitInv'
<1> SUFFICES ASSUME LimitInv, [Next]_vars PROVE LimitInv'
  OBVIOUS
<1>1. TypeOK'
  BY TypeNext DEF LimitInv
<1>2. CASE UNCHANGED vars
  BY <1>1, <1>2 DEF LimitInv, vars, KeepsWhatCounts, WindowBound, GrantedFrom,
                    RefusedOnlyWhenFull
<1>3. CASE Next
  BY <1>1, <1>3, StepAdmit, StepRefuse, StepTick DEF Next, LimitInv
<1> QED BY <1>2, <1>3

LEMMA LimitInvariance == Spec => []LimitInv
<1>1. Init => LimitInv
  BY TypeInit, KeepsInit DEF LimitInv
<1> QED BY <1>1, LimitInvNext, PTL DEF Spec

(***************************************************************************)
(* Type correctness of the limiter.                                        *)
(***************************************************************************)
THEOREM TypeCorrect == Spec => []TypeOK
<1>1. LimitInv => TypeOK
  BY DEF LimitInv
<1> QED BY <1>1, LimitInvariance, PTL

(***************************************************************************)
(* At most Count events of a key in any window, for every Count and Window.*)
(***************************************************************************)
THEOREM AtMostCountPerWindow == Spec => []WindowBound
<1>1. LimitInv => WindowBound
  BY DEF LimitInv
<1> QED BY <1>1, LimitInvariance, PTL

(***************************************************************************)
(* Nobody is refused while the window has room.                            *)
(***************************************************************************)
THEOREM NoFalseRefusal == Spec => []RefusedOnlyWhenFull
<1>1. LimitInv => RefusedOnlyWhenFull
  BY DEF LimitInv
<1> QED BY <1>1, LimitInvariance, PTL

-----------------------------------------------------------------------------
(***************************************************************************)
(* The wait a refused request is told: the oldest event that filled the    *)
(* window is still known by its time, whatever is granted afterwards.      *)
(***************************************************************************)
FilledBy(r) == {e \in granted[refusal[r].key] :
                   refusal[r].at - Window <= e[2] /\ e[2] <= refusal[r].at}

ExpiryOf(r) == refusal[r].at + refusal[r].retryAfter - Window

OldestIsKnown ==
    \A r \in Requests : pc[r] = "refused" =>
        /\ refusal[r].key \in Keys
        /\ \E e \in FilledBy(r) : e[2] = ExpiryOf(r)
        /\ \A e \in FilledBy(r) : e[2] >= ExpiryOf(r)

LEMMA OldestNext == LimitInv /\ OldestIsKnown /\ [Next]_vars => OldestIsKnown'
<1> SUFFICES ASSUME LimitInv, OldestIsKnown, [Next]_vars PROVE OldestIsKnown'
  OBVIOUS
<1>1. TypeOK /\ TypeOK' /\ KeepsWhatCounts /\ now \in Nat /\ Window \in Nat
  BY TypeNext, RateLimitsAssumption DEF LimitInv, TypeOK
<1>2. \A k \in Keys : \A e \in granted[k] : e[2] \in Nat /\ e[2] <= now
  BY <1>1 DEF TypeOK, Events, KeepsWhatCounts
<1>3. \A r \in Requests : pc[r] = "refused" =>
          \E e \in FilledBy(r) : e[2] = ExpiryOf(r)
  BY DEF OldestIsKnown
<1>4. CASE UNCHANGED <<pc, granted, refusal>>
  BY <1>4 DEF OldestIsKnown, FilledBy, ExpiryOf
<1>5. ASSUME NEW r \in Requests, NEW k \in Keys, Admit(r, k)
      PROVE  OldestIsKnown'
  <2>1. /\ refusal' = refusal
        /\ \A j \in Keys : \/ granted'[j] = granted[j]
                           \/ granted'[j] = granted[j] \union {<<r, now>>}
    BY <1>1, <1>5 DEF Admit, TypeOK
  <2>2. \A q \in Requests : pc'[q] = "refused" => pc[q] = "refused"
    <3>1. Following(pc[r]) # "refused"
      BY <1>5 DEF Admit, KeysOf, Following
    <3> QED BY <1>1, <1>5, <3>1 DEF Admit, TypeOK
  <2>3. ASSUME NEW q \in Requests, pc'[q] = "refused"
        PROVE  /\ refusal'[q].key \in Keys
               /\ \E e \in FilledBy(q)' : e[2] = ExpiryOf(q)'
               /\ \A e \in FilledBy(q)' : e[2] >= ExpiryOf(q)'
    <3> DEFINE key == refusal[q].key
    <3>1. ExpiryOf(q)' = ExpiryOf(q)
      BY <2>1 DEF ExpiryOf
    <3> key \in Keys
      BY <2>2, <2>3 DEF OldestIsKnown
    <3>2. CASE granted'[key] = granted[key]
      <4>1. FilledBy(q)' = FilledBy(q)
        BY <2>1, <3>2 DEF FilledBy
      <4> QED BY <2>1, <2>2, <2>3, <3>1, <4>1 DEF OldestIsKnown
    <3>3. CASE granted'[key] = granted[key] \union {<<r, now>>}
      <4>1. FilledBy(q) \subseteq FilledBy(q)'
        BY <2>1, <3>3 DEF FilledBy
      <4>2. PICK m \in FilledBy(q) : m[2] = ExpiryOf(q)
        BY <1>3, <2>2, <2>3
      <4>3. m[2] \in Nat /\ m[2] <= now
        BY <1>2, <3>3, <4>2 DEF FilledBy
      <4>4. \A e \in FilledBy(q)' : e \in FilledBy(q) \/ e = <<r, now>>
        BY <2>1, <3>3 DEF FilledBy
      <4>5. \A e \in FilledBy(q)' : e[2] >= ExpiryOf(q)
        BY <2>2, <2>3, <4>2, <4>3, <4>4 DEF OldestIsKnown
      <4> QED BY <2>1, <3>1, <4>1, <4>2, <4>5
    <3> QED BY <2>1, <3>2, <3>3
  <2> QED BY <2>3 DEF OldestIsKnown
<1>6. ASSUME NEW r \in Requests, NEW k \in Keys, Refuse(r, k)
      PROVE  OldestIsKnown'
  <2>1. PICK m \in Oldest(k) :
           refusal' = [refusal EXCEPT ![r] =
                         [key |-> k, at |-> now, retryAfter |-> Window - (now - m[2])]]
    BY <1>6 DEF Refuse, Answer
  <2>2. granted' = granted /\ pc' = [pc EXCEPT ![r] = "refused"]
    BY <1>6 DEF Refuse
  <2>3. /\ refusal'[r].key = k /\ refusal'[r].at = now
        /\ refusal'[r].retryAfter = Window - (now - m[2])
        /\ \A q \in Requests : q # r => refusal'[q] = refusal[q] /\ pc'[q] = pc[q]
    BY <1>1, <2>1, <2>2 DEF TypeOK
  <2>4. Counted(k) = {e \in granted[k] : now - Window <= e[2] /\ e[2] <= now}
    BY <1>1, <1>2 DEF Counted, KeepsWhatCounts
  <2>5. FilledBy(r)' = Counted(k)
    BY <2>2, <2>3, <2>4 DEF FilledBy
  <2>6. m \in Counted(k) /\ m[2] \in Nat /\ \A e \in Counted(k) : m[2] <= e[2]
    BY <1>2, <2>4 DEF Oldest
  <2>7. ExpiryOf(r)' = m[2]
    BY <1>1, <2>3, <2>6 DEF ExpiryOf
  <2>8. /\ refusal'[r].key \in Keys
        /\ \E e \in FilledBy(r)' : e[2] = ExpiryOf(r)'
        /\ \A e \in FilledBy(r)' : e[2] >= ExpiryOf(r)'
    BY <1>2, <2>3, <2>4, <2>5, <2>6, <2>7
  <2>9. ASSUME NEW q \in Requests, q # r, pc'[q] = "refused"
        PROVE  /\ refusal'[q].key \in Keys
               /\ \E e \in FilledBy(q)' : e[2] = ExpiryOf(q)'
               /\ \A e \in FilledBy(q)' : e[2] >= ExpiryOf(q)'
    <3>1. FilledBy(q)' = FilledBy(q) /\ ExpiryOf(q)' = ExpiryOf(q) /\ pc[q] = "refused"
      BY <2>2, <2>3, <2>9 DEF FilledBy, ExpiryOf
    <3> QED BY <2>3, <2>9, <3>1 DEF OldestIsKnown
  <2> QED BY <2>8, <2>9 DEF OldestIsKnown
<1> QED BY <1>4, <1>5, <1>6 DEF Next, Tick, vars

LEMMA OldestInvariance == Spec => [](LimitInv /\ OldestIsKnown)
<1>1. Init => LimitInv /\ OldestIsKnown
  BY TypeInit, KeepsInit DEF LimitInv, Init, OldestIsKnown
<1> QED BY <1>1, LimitInvNext, OldestNext, PTL DEF Spec

(***************************************************************************)
(* retryAfter names the last instant at which the window is still full.    *)
(***************************************************************************)
THEOREM RetryAfterIsExact == Spec => []RetryAfterExact
<1>1. LimitInv /\ OldestIsKnown => RetryAfterExact
  <2> SUFFICES ASSUME LimitInv, OldestIsKnown, NEW r \in Requests, pc[r] = "refused"
               PROVE  (now > refusal[r].at + refusal[r].retryAfter) <=>
                          \E e \in FilledBy(r) : e[2] < now - Window
    BY DEF RetryAfterExact, FilledBy
  <2>1. now \in Nat /\ Window \in Nat /\ refusal[r].at \in Nat /\ refusal[r].retryAfter \in Nat
    BY RateLimitsAssumption DEF LimitInv, TypeOK
  <2>2. PICK m \in FilledBy(r) : m[2] = ExpiryOf(r)
    BY DEF OldestIsKnown
  <2>3. \A e \in FilledBy(r) : e[2] >= ExpiryOf(r)
    BY DEF OldestIsKnown
  <2>4. \A e \in FilledBy(r) : e[2] \in Nat
    BY DEF OldestIsKnown, LimitInv, TypeOK, FilledBy, Events
  <2>5. ASSUME now > refusal[r].at + refusal[r].retryAfter
        PROVE  \E e \in FilledBy(r) : e[2] < now - Window
    BY <2>1, <2>2, <2>5 DEF ExpiryOf
  <2>6. ASSUME NEW e \in FilledBy(r), e[2] < now - Window
        PROVE  now > refusal[r].at + refusal[r].retryAfter
    BY <2>1, <2>3, <2>4, <2>6 DEF ExpiryOf
  <2> QED BY <2>5, <2>6
<1> QED BY <1>1, OldestInvariance, PTL
=============================================================================
