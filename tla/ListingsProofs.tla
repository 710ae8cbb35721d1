---------------------------- MODULE ListingsProofs ----------------------------
(***************************************************************************)
(* Proofs about Listings for any rows, times, personas and limits.  The    *)
(* inductive invariant says where the rows are that a reader was given,    *)
(* and where those are that he was not: the former at or before the        *)
(* cursor, the latter behind it, in the page that is being answered, or    *)
(* at an instant at which a page was cut.  A page is the first rows of a   *)
(* finite total order, which the first lemmas are about.                   *)
(***************************************************************************)
EXTENDS Listings, FiniteSetTheorems, TLAPS

Present(x) == state[x] # "absent"

\* The rows the statement of this list can return to this reader.
InList(x) == IF list \in Reviewed THEN Visible(x) ELSE state[x] = "shown"

RowsBehind(c) == {x \in Rows : InList(x) /\ Behind(x, c)}

\* A row has a created_at from its INSERT on; only posts and comments have an
\* author, and only their authors are blocked.
RowsAreDated == \A x \in Rows : Present(x) => created[x] \in 1..MaxTime

BlocksAreReviewed ==
    list \notin Reviewed => blocked = {} /\ \A x \in Rows : owner[x] = None

BarredAreBlocked == pass.barred \subseteq blocked

\* What was given is not behind the cursor: no later page returns it.
GivenIsPassed ==
    \A x \in pass.listed :
        /\ Present(x)
        /\ pass.pc # "done" => ~Behind(x, pass.cursor)

StableIsListable ==
    \A x \in pass.stable : InList(x) /\ owner[x] \notin blocked

\* The pass begins at the beginning, having given nothing.
Beginning == pass.pc = "start" => pass.cursor = None /\ pass.stable = {}

\* The page that waits for its answer is behind the cursor and its next cursor
\* is behind neither what is in it nor what was given before.
PageIsBehind ==
    pass.pc = "page" =>
        /\ \A x \in pass.page : Present(x) /\ Behind(x, pass.cursor)
        /\ pass.next # None =>
            \A x \in pass.page \union pass.listed : ~Behind(x, pass.next)

\* A stable row the reader still misses is in the page or behind the next cursor.
PageMissesNone ==
    pass.pc = "page" =>
        \A x \in pass.stable :
            \/ x \in pass.listed \union pass.page
            \/ pass.next # None /\ Behind(x, pass.next)
            \/ list \in ByTime /\ created[x] \in pass.cuts
            \/ list \in ByTime /\ pass.next # None /\ created[x] = pass.next.time

IInv ==
    /\ TypeOK
    /\ RowsAreDated
    /\ BlocksAreReviewed
    /\ BarredAreBlocked
    /\ Beginning
    /\ GivenIsPassed
    /\ StableIsListable
    /\ PageIsBehind
    /\ PageMissesNone
    /\ ListedOnce

-----------------------------------------------------------------------------
(***************************************************************************)
(* The order of a list is total, and a row's rank in a set of rows is the  *)
(* number of rows before it.                                               *)
(***************************************************************************)
LEMMA RowsAreFinite ==
    ASSUME NEW S \in SUBSET Rows
    PROVE  IsFiniteSet(S) /\ Cardinality(S) \in Nat
BY ListingsAssumption, FS_Subset, FS_CardinalityType

LEMMA SoonerIsAnOrder ==
    ASSUME TypeOK
    PROVE  /\ \A x \in Rows : ~Sooner(x, x)
           /\ \A x, y \in Rows : x # y => Sooner(x, y) \/ Sooner(y, x)
           /\ \A x, y, z \in Rows : Sooner(x, y) /\ Sooner(y, z) => Sooner(x, z)
<1>1. \A x \in Rows : x \in Int /\ created[x] \in Nat
  <2>1. created \in [Rows -> 0..MaxTime] /\ MaxTime \in Nat /\ Rows \subseteq Int
    BY ListingsAssumption DEF TypeOK
  <2> QED BY <2>1
<1> QED BY <1>1 DEF Sooner, Above

Before(S, x) == {y \in S : Sooner(y, x)}
Rank(S, x) == Cardinality(Before(S, x))

LEMMA RankIsSmall ==
    ASSUME TypeOK, NEW S \in SUBSET Rows, NEW x \in S
    PROVE  Rank(S, x) \in Nat /\ Rank(S, x) < Cardinality(S)
<1>1. Before(S, x) \subseteq S \ {x}
  BY SoonerIsAnOrder DEF Before
<1>2. IsFiniteSet(S) /\ Cardinality(S) \in Nat
  BY RowsAreFinite
<1>3. IsFiniteSet(S \ {x}) /\ Cardinality(S \ {x}) = Cardinality(S) - 1
  BY <1>2, FS_RemoveElement
<1>4. Rank(S, x) \in Nat /\ Rank(S, x) <= Cardinality(S \ {x})
  BY <1>1, <1>3, FS_Subset, FS_CardinalityType DEF Rank
<1> QED BY <1>2, <1>3, <1>4

LEMMA RankGrows ==
    ASSUME TypeOK, NEW S \in SUBSET Rows, NEW x \in S, NEW y \in S, Sooner(x, y)
    PROVE  Rank(S, x) < Rank(S, y)
<1>1. Before(S, x) \subseteq Before(S, y) \ {x} /\ x \in Before(S, y)
  BY SoonerIsAnOrder DEF Before
<1>2. Before(S, y) \in SUBSET Rows
  BY DEF Before
<1>3. IsFiniteSet(Before(S, y)) /\ Rank(S, y) \in Nat
  BY <1>2, RowsAreFinite DEF Rank
<1>4. /\ IsFiniteSet(Before(S, y) \ {x})
      /\ Cardinality(Before(S, y) \ {x}) = Rank(S, y) - 1
  BY <1>1, <1>3, FS_RemoveElement DEF Rank
<1>5. Rank(S, x) \in Nat /\ Rank(S, x) <= Cardinality(Before(S, y) \ {x})
  BY <1>1, <1>4, FS_Subset, FS_CardinalityType DEF Rank
<1> QED BY <1>3, <1>4, <1>5

LEMMA FirstByRank ==
    ASSUME NEW S, NEW n
    PROVE  FirstOf(S, n) = {x \in S : Rank(S, x) < n}
BY DEF FirstOf, Rank, Before

\* The rows of a page come before those that are left.
LEMMA FirstAreFirst ==
    ASSUME TypeOK, NEW S \in SUBSET Rows, NEW n \in Nat,
           NEW x \in FirstOf(S, n), NEW y \in S \ FirstOf(S, n)
    PROVE  Sooner(x, y)
<1>1. x \in S /\ y \in S /\ x # y /\ Rank(S, x) < n /\ ~(Rank(S, y) < n)
  BY FirstByRank
<1>2. Rank(S, x) \in Nat /\ Rank(S, y) \in Nat
  BY <1>1, RankIsSmall
<1>3. ~Sooner(y, x)
  <2> SUFFICES ASSUME Sooner(y, x) PROVE FALSE
    OBVIOUS
  <2>1. Rank(S, y) < Rank(S, x)
    BY <1>1, RankGrows
  <2> QED BY <1>1, <1>2, <2>1
<1> QED BY <1>1, <1>3, SoonerIsAnOrder

\* A page of a short list is the list.
LEMMA FirstOfFew ==
    ASSUME TypeOK, NEW S \in SUBSET Rows, NEW n \in Nat, Cardinality(S) <= n
    PROVE  FirstOf(S, n) = S
<1>1. \A x \in S : Rank(S, x) < n
  <2> TAKE x \in S
  <2>1. Rank(S, x) \in Nat /\ Rank(S, x) < Cardinality(S) /\ Cardinality(S) \in Nat
    BY RankIsSmall, RowsAreFinite
  <2> QED BY <2>1
<1> QED BY <1>1, FirstByRank

\* Ranks are the numbers from 0 on: a page of a list that is long enough is full.
LEMMA FirstOfMany ==
    ASSUME TypeOK, NEW S \in SUBSET Rows, NEW n \in Nat, n <= Cardinality(S)
    PROVE  Cardinality(FirstOf(S, n)) = n
<1> DEFINE m == Cardinality(S)
           F == FirstOf(S, n)
           f == [x \in S |-> Rank(S, x)]
           g == [x \in F |-> Rank(S, x)]
<1>1. IsFiniteSet(S) /\ m \in Nat
  BY RowsAreFinite
<1>2. \A x \in S : Rank(S, x) \in 0..m - 1
  <2> TAKE x \in S
  <2>1. Rank(S, x) \in Nat /\ Rank(S, x) < m
    BY RankIsSmall
  <2> QED BY <1>1, <2>1
<1>3. \A x, y \in S : Rank(S, x) = Rank(S, y) => x = y
  <2> SUFFICES ASSUME NEW x \in S, NEW y \in S, Rank(S, x) = Rank(S, y), x # y PROVE FALSE
    OBVIOUS
  <2>1. Rank(S, x) \in Nat
    BY RankIsSmall
  <2>2. CASE Sooner(x, y)
    BY <2>1, <2>2, RankGrows
  <2>3. CASE Sooner(y, x)
    BY <2>1, <2>3, RankGrows
  <2> QED BY <2>2, <2>3, SoonerIsAnOrder
<1>4. IsFiniteSet(0..m - 1) /\ Cardinality(0..m - 1) = m
  <2> HIDE DEF m
  <2> QED BY <1>1, FS_Interval
<1>5. f \in Injection(S, 0..m - 1)
  BY <1>2, <1>3 DEF Injection, IsInjective
<1>6. f \in Surjection(S, 0..m - 1)
  <2> HIDE DEF f, m
  <2> QED BY <1>1, <1>4, <1>5, FS_Injection DEF m
<1>7. \A k \in 0..m - 1 : \E x \in S : Rank(S, x) = k
  BY <1>6 DEF Surjection
<1>8. F = {x \in S : Rank(S, x) < n}
  BY FirstByRank
<1>9. IsFiniteSet(0..n - 1) /\ Cardinality(0..n - 1) = n
  BY FS_Interval
<1> HIDE DEF m, F
<1>10. g \in Injection(F, 0..n - 1)
  <2>1. \A x \in F : x \in S /\ Rank(S, x) \in 0..n - 1
    BY <1>1, <1>2, <1>8
  <2> QED BY <1>3, <2>1 DEF Injection, IsInjective
<1>11. g \in Surjection(F, 0..n - 1)
  <2>1. ASSUME NEW k \in 0..n - 1 PROVE \E x \in F : g[x] = k
    <3>1. k \in 0..m - 1 /\ k < n
      BY <1>1 DEF m
    <3>2. PICK x \in S : Rank(S, x) = k
      BY <1>7, <3>1
    <3> QED BY <1>8, <3>1, <3>2
  <2>2. g \in [F -> 0..n - 1]
    BY <1>10 DEF Injection
  <2> HIDE DEF g
  <2> QED BY <2>1, <2>2 DEF Surjection
<1>12. Cardinality(F) = n
  <2> HIDE DEF g
  <2> QED BY <1>9, <1>10, <1>11, FS_Injection
<1> QED BY <1>12 DEF F

\* A page that is not empty has a last row.
LEMMA LastIsLast ==
    ASSUME TypeOK, NEW S \in SUBSET Rows, S # {}
    PROVE  LastOf(S) \in S /\ \A y \in S \ {LastOf(S)} : Sooner(y, LastOf(S))
<1> DEFINE m == Cardinality(S)
           D == {m - Rank(S, x) : x \in S}
<1>1. m \in Nat
  BY RowsAreFinite
<1>2. \A x \in S : Rank(S, x) \in Nat /\ m - Rank(S, x) \in Nat /\ m - Rank(S, x) \in D
  <2> TAKE x \in S
  <2>1. Rank(S, x) \in Nat /\ Rank(S, x) < m
    BY RankIsSmall
  <2> QED BY <1>1, <2>1
<1>3. D \subseteq Nat /\ D # {}
  BY <1>2
<1>4. \A d \in D : \E x \in S : d = m - Rank(S, x)
  OBVIOUS
<1> HIDE DEF D, m
<1>5. PICK d \in D : \A e \in D : ~(<<e, d>> \in OpToRel(<, Nat))
  BY <1>3, NatLessThanWellFounded, WFMin
<1>6. \A e \in D : ~(e < d)
  BY <1>3, <1>5 DEF OpToRel
<1>7. PICK x \in S : d = m - Rank(S, x)
  BY <1>4
<1>8. \A y \in S \ {x} : Sooner(y, x)
  <2> SUFFICES ASSUME NEW y \in S \ {x}, ~Sooner(y, x) PROVE FALSE
    OBVIOUS
  <2>1. Sooner(x, y)
    BY SoonerIsAnOrder
  <2>2. Rank(S, x) < Rank(S, y)
    BY <2>1, RankGrows
  <2>3. ~(m - Rank(S, y) < m - Rank(S, x))
    BY <1>2, <1>6, <1>7
  <2> QED BY <1>1, <1>2, <2>2, <2>3
<1> QED BY <1>8 DEF LastOf

-----------------------------------------------------------------------------
(***************************************************************************)
(* Cursors.  Behind(x, c) says which rows the next statement may return.   *)
(***************************************************************************)
LEMMA BehindByList ==
    ASSUME NEW x, NEW c
    PROVE  /\ list = "topics" => (Behind(x, c) <=> NewerThan(x, c))
           /\ list \in ByTime => (Behind(x, c) <=> OlderInTime(x, c))
           /\ list # "topics" /\ list \notin ByTime => (Behind(x, c) <=> OlderThan(x, c))
<1>1. "topics" \notin ByTime
  BY DEF ByTime
<1>2. CASE list = "topics"
  BY <1>1, <1>2, Zenon DEF Behind
<1>3. CASE list \in ByTime
  BY <1>1, <1>3, Zenon DEF Behind
<1>4. CASE list # "topics" /\ list \notin ByTime
  BY <1>4, Zenon DEF Behind
<1> QED BY <1>1, <1>2, <1>3, <1>4

LEMMA AllBehindNone ==
    ASSUME NEW x
    PROVE  Behind(x, None)
BY BehindByList DEF NewerThan, OlderInTime, OlderThan

LEMMA CursorFields ==
    ASSUME NEW y \in Rows, created[y] \in 1..MaxTime
    PROVE  /\ CursorOf(y) \in Cursors /\ CursorOf(y) # None
           /\ CursorOf(y).time = created[y] /\ CursorOf(y).id = y
<1>1. CursorOf(y) \in [time : 1..MaxTime, id : Rows]
  BY DEF CursorOf
<1>2. None \notin [time : 1..MaxTime, id : Rows]
  BY ListingsAssumption
<1> QED BY <1>1, <1>2 DEF CursorOf, Cursors

LEMMA NumbersTyped ==
    ASSUME TypeOK
    PROVE  /\ \A x \in Rows : x \in Int /\ created[x] \in Nat
           /\ \A c \in Cursors : c # None => c.time \in Nat /\ c.id \in Int
           /\ pass \in Pass /\ pass.cursor \in Cursors /\ pass.next \in Cursors
<1>1. created \in [Rows -> 0..MaxTime] /\ MaxTime \in Nat /\ Rows \subseteq Int
  BY ListingsAssumption DEF TypeOK
<1>2. \A x \in Rows : x \in Int /\ created[x] \in Nat
  BY <1>1
<1>3. ASSUME NEW c \in Cursors, c # None PROVE c.time \in Nat /\ c.id \in Int
  <2>1. c \in [time : 1..MaxTime, id : Rows]
    BY <1>3 DEF Cursors
  <2>2. c.time \in 1..MaxTime
    BY <2>1
  <2>3. c.id \in Rows
    BY <2>1
  <2>4. \A t \in 1..MaxTime : t \in Nat
    BY <1>1
  <2>5. c.id \in Int
    BY <1>1, <2>3
  <2> QED BY <2>2, <2>4, <2>5
<1>4. pass \in Pass
  BY DEF TypeOK
<1>5. pass.cursor \in Cursors /\ pass.next \in Cursors
  BY <1>4 DEF Pass
<1> QED BY <1>2, <1>3, <1>4, <1>5

\* Behind a row's cursor are the rows after it, of a cursor that is a time only
\* those of an earlier time.
LEMMA BehindIsAfter ==
    ASSUME TypeOK, NEW x \in Rows, NEW y \in Rows, created[y] \in 1..MaxTime
    PROVE  /\ list \notin ByTime => (Behind(x, CursorOf(y)) <=> Sooner(y, x))
           /\ list \in ByTime => (Behind(x, CursorOf(y)) <=> created[x] < created[y])
<1>1. /\ x \in Int /\ y \in Int /\ created[x] \in Nat /\ created[y] \in Nat
  BY NumbersTyped
<1>2. CursorOf(y) # None /\ CursorOf(y).time = created[y] /\ CursorOf(y).id = y
  BY CursorFields
<1>3. CASE list = "topics"
  <2>1. Behind(x, CursorOf(y)) <=> NewerThan(x, CursorOf(y))
    BY <1>3, BehindByList
  <2> QED BY <1>1, <1>2, <1>3, <2>1 DEF NewerThan, Sooner, Above, ByTime
<1>4. CASE list \in ByTime
  <2>1. Behind(x, CursorOf(y)) <=> OlderInTime(x, CursorOf(y))
    BY <1>4, BehindByList
  <2> QED BY <1>1, <1>2, <1>4, <2>1 DEF OlderInTime
<1>5. CASE list # "topics" /\ list \notin ByTime
  <2>1. Behind(x, CursorOf(y)) <=> OlderThan(x, CursorOf(y))
    BY <1>5, BehindByList
  <2> QED BY <1>1, <1>2, <1>5, <2>1 DEF OlderThan, Sooner, Above
<1> QED BY <1>3, <1>4, <1>5

\* A cursor behind a cursor leaves fewer rows behind it.
LEMMA BehindIsTransitive ==
    ASSUME TypeOK, NEW x \in Rows, NEW y \in Rows, created[y] \in 1..MaxTime,
           NEW c \in Cursors, Behind(y, c), Behind(x, CursorOf(y))
    PROVE  Behind(x, c)
<1>1. /\ x \in Int /\ y \in Int /\ created[x] \in Nat /\ created[y] \in Nat
      /\ c # None => c.time \in Nat /\ c.id \in Int
  BY NumbersTyped
<1>2. CursorOf(y) # None /\ CursorOf(y).time = created[y] /\ CursorOf(y).id = y
  BY CursorFields
<1>3. CASE list = "topics"
  <2>1. NewerThan(y, c) /\ NewerThan(x, CursorOf(y)) /\ (Behind(x, c) <=> NewerThan(x, c))
    BY <1>3, BehindByList
  <2> QED BY <1>1, <1>2, <2>1 DEF NewerThan
<1>4. CASE list \in ByTime
  <2>1. OlderInTime(y, c) /\ OlderInTime(x, CursorOf(y)) /\ (Behind(x, c) <=> OlderInTime(x, c))
    BY <1>4, BehindByList
  <2> QED BY <1>1, <1>2, <2>1 DEF OlderInTime
<1>5. CASE list # "topics" /\ list \notin ByTime
  <2>1. OlderThan(y, c) /\ OlderThan(x, CursorOf(y)) /\ (Behind(x, c) <=> OlderThan(x, c))
    BY <1>5, BehindByList
  <2> QED BY <1>1, <1>2, <2>1 DEF OlderThan
<1> QED BY <1>3, <1>4, <1>5

-----------------------------------------------------------------------------
(***************************************************************************)
(* What one page takes from the rows behind the cursor.                    *)
(***************************************************************************)
LEMMA PageOfRows ==
    ASSUME TypeOK, RowsAreDated, NEW c \in Cursors, NEW n \in Nat \ {0}
    PROVE  LET S == RowsBehind(c)
               page == FirstOf(S, n)
               next == NextCursor(S, n)
           IN  /\ page \subseteq S
               /\ Cardinality(page) <= n
               /\ next \in Cursors
               /\ next # None => Cardinality(page) = n
               /\ next # None => \A x \in page : ~Behind(x, next)
               /\ next # None => \A x \in Rows : ~Behind(x, c) => ~Behind(x, next)
               /\ \A x \in S : \/ x \in page
                               \/ next # None /\ Behind(x, next)
                               \/ next # None /\ list \in ByTime /\ created[x] = next.time
<1> DEFINE S == RowsBehind(c)
           page == FirstOf(S, n)
           next == NextCursor(S, n)
           last == LastOf(page)
<1>1. S \in SUBSET Rows /\ page \subseteq S /\ Cardinality(S) \in Nat
  BY RowsAreFinite DEF RowsBehind, FirstOf
<1>2. \A x \in S : created[x] \in 1..MaxTime /\ Behind(x, c)
  BY DEF RowsBehind, InList, Visible, RowsAreDated, Present
<1>3. CASE Cardinality(S) <= n
  <2>1. page = S
    BY <1>1, <1>3, FirstOfFew
  <2>2. next = None
    BY <1>1, <1>3 DEF NextCursor
  <2>3. None \in Cursors
    BY DEF Cursors
  <2> QED BY <1>1, <1>3, <2>1, <2>2, <2>3
<1>4. CASE Cardinality(S) > n
  <2> HIDE DEF S
  <2>1. Cardinality(page) = n
    BY <1>1, <1>4, FirstOfMany
  <2>2. next = CursorOf(last)
    BY <1>4 DEF NextCursor
  <2>3. page # {} /\ page \in SUBSET Rows
    BY <1>1, <2>1, FS_EmptySet
  <2>4. last \in page /\ \A y \in page \ {last} : Sooner(y, last)
    BY <2>3, LastIsLast
  <2>5. last \in S /\ last \in Rows /\ created[last] \in 1..MaxTime /\ Behind(last, c)
    BY <1>1, <1>2, <2>4
  <2>6. /\ CursorOf(last) \in Cursors /\ CursorOf(last) # None
        /\ CursorOf(last).time = created[last]
    BY <2>5, CursorFields
  <2> HIDE DEF page, next, last
  <2>7. ASSUME NEW x \in page PROVE ~Behind(x, CursorOf(last))
    <3>1. x \in Rows /\ (x = last \/ Sooner(x, last))
      BY <2>3, <2>4
    <3>2. ~Sooner(last, x)
      BY <2>5, <3>1, SoonerIsAnOrder
    <3>3. list \in ByTime => ~(created[x] < created[last])
      BY <2>5, <3>1, NumbersTyped DEF Sooner, Above, ByTime
    <3> QED BY <2>5, <3>1, <3>2, <3>3, BehindIsAfter
  <2>8. ASSUME NEW x \in Rows, ~Behind(x, c) PROVE ~Behind(x, CursorOf(last))
    BY <2>5, <2>8, BehindIsTransitive
  <2>9. ASSUME NEW x \in S, x \notin page
        PROVE  Behind(x, CursorOf(last)) \/ (list \in ByTime /\ created[x] = created[last])
    <3>1. Sooner(last, x) /\ x \in Rows
      BY <1>1, <2>4, <2>9, FirstAreFirst DEF page
    <3>2. list \in ByTime => created[x] < created[last] \/ created[x] = created[last]
      BY <2>5, <3>1, NumbersTyped DEF Sooner, Above, ByTime
    <3> QED BY <2>5, <3>1, <3>2, BehindIsAfter
  <2>10. Cardinality(page) <= n
    BY <2>1
  <2> USE DEF page, next, S
  <2> QED BY <1>1, <2>1, <2>2, <2>6, <2>7, <2>8, <2>9, <2>10
<1>5. Cardinality(S) <= n \/ Cardinality(S) > n
  BY <1>1
<1> QED BY <1>3, <1>4, <1>5

-----------------------------------------------------------------------------
(***************************************************************************)
(* The inductive invariant holds initially, and each action keeps it.      *)
(***************************************************************************)
LEMMA PassFields ==
    ASSUME NEW p \in Pass
    PROVE  /\ p.pc \in {"start", "idle", "page", "done"} /\ p.limit \in Nat
           /\ p.cursor \in Cursors /\ p.page \in SUBSET Rows /\ p.next \in Cursors
           /\ p.listed \in SUBSET Rows /\ p.twice \in SUBSET Rows
           /\ p.cuts \in SUBSET (1..MaxTime) /\ p.stable \in SUBSET Rows
           /\ p.barred \in SUBSET Personas /\ p.failed \in BOOLEAN
BY DEF Pass

LEMMA InvInit == Init => IInv
<1> SUFFICES ASSUME Init PROVE IInv
  OBVIOUS
<1>1. /\ pass.pc = "start" /\ pass.limit = 0 /\ pass.cursor = None /\ pass.page = {}
      /\ pass.next = None /\ pass.listed = {} /\ pass.twice = {} /\ pass.cuts = {}
      /\ pass.stable = {} /\ pass.barred = {}
  BY DEF Init
<1>2. pass \in Pass
  <2>1. None \in Cursors /\ 0 \in Nat
    BY DEF Cursors
  <2> QED BY <2>1 DEF Init, Pass
<1>3. TypeOK
  <2>1. 0 \in 0..MaxTime
    BY ListingsAssumption
  <2> QED BY <1>1, <1>2, <2>1 DEF Init, TypeOK, States
<1>4. RowsAreDated /\ BlocksAreReviewed /\ BarredAreBlocked
  BY <1>1 DEF Init, RowsAreDated, BlocksAreReviewed, BarredAreBlocked, Present
<1>5. Beginning /\ GivenIsPassed /\ StableIsListable /\ PageIsBehind /\ PageMissesNone
  BY <1>1 DEF Beginning, GivenIsPassed, StableIsListable, PageIsBehind, PageMissesNone
<1>6. ListedOnce
  BY <1>1 DEF ListedOnce, NoneTwice, StableAreListed
<1> QED BY <1>3, <1>4, <1>5, <1>6 DEF IInv

LEMMA LimitIsKept ==
    ASSUME NEW n \in Int
    PROVE  ParseLimit(n) \in 1..MaxLimit
BY ListingsAssumption DEF ParseLimit

\* The seven statements return the rows of their list behind the cursor.
LEMMA FetchesRowsBehind ==
    ASSUME TypeOK,
           \/ ListTopics \/ ListPosts \/ ListComments \/ ListReactions
           \/ ListBlocks \/ ListCases \/ ListInviteCodes
    PROVE  Fetch(list, RowsBehind(pass.cursor))
<1> DEFINE c == pass.cursor
<1>1. CASE ListTopics
  <2>1. list = "topics" /\ TopicRows(c) = RowsBehind(c)
    BY <1>1, BehindByList DEF ListTopics, Fetch, TopicRows, RowsBehind, InList, Reviewed
  <2> QED BY <1>1, <2>1 DEF ListTopics
<1>2. CASE ListPosts
  <2>1. list = "posts" /\ PostRows(c) = RowsBehind(c)
    BY <1>2, BehindByList DEF ListPosts, Fetch, PostRows, RowsBehind, InList, Reviewed, ByTime
  <2> QED BY <1>2, <2>1 DEF ListPosts
<1>3. CASE ListComments
  <2>1. list = "comments" /\ CommentRows(c) = RowsBehind(c)
    BY <1>3, BehindByList
       DEF ListComments, Fetch, CommentRows, RowsBehind, InList, Reviewed, ByTime
  <2> QED BY <1>3, <2>1 DEF ListComments
<1>4. CASE ListReactions
  <2>1. list = "reactions" /\ ReactionRows(c) = RowsBehind(c)
    BY <1>4, BehindByList
       DEF ListReactions, Fetch, ReactionRows, RowsBehind, InList, Reviewed, ByTime
  <2> QED BY <1>4, <2>1 DEF ListReactions
<1>5. CASE ListBlocks
  <2>1. list = "blocks" /\ BlockRows(c) = RowsBehind(c)
    BY <1>5, BehindByList DEF ListBlocks, Fetch, BlockRows, RowsBehind, InList, Reviewed, ByTime
  <2> QED BY <1>5, <2>1 DEF ListBlocks
<1>6. CASE ListCases
  <2>1. list = "cases" /\ CaseRows(c) = RowsBehind(c)
    BY <1>6, BehindByList DEF ListCases, Fetch, CaseRows, RowsBehind, InList, Reviewed, ByTime
  <2> QED BY <1>6, <2>1 DEF ListCases
<1>7. CASE ListInviteCodes
  <2>1. list = "inviteCodes" /\ InviteCodeRows(c) = RowsBehind(c)
    BY <1>7, BehindByList
       DEF ListInviteCodes, Fetch, InviteCodeRows, RowsBehind, InList, Reviewed, ByTime
  <2> QED BY <1>7, <2>1 DEF ListInviteCodes
<1> QED BY <1>1, <1>2, <1>3, <1>4, <1>5, <1>6, <1>7

LEMMA InvFetch ==
    ASSUME IInv, Fetch(list, RowsBehind(pass.cursor))
    PROVE  IInv'
<1> DEFINE c == pass.cursor
           S == RowsBehind(c)
<1> PICK n \in Asked :
        LET limit == IF pass.pc = "start" THEN ParseLimit(n) ELSE pass.limit
        IN pass' = [pass EXCEPT !.pc = "page", !.limit = limit,
                                !.page = FirstOf(S, limit), !.next = NextCursor(S, limit),
                                !.stable = IF pass.pc = "start"
                                           THEN {x \in S : owner[x] \notin blocked} ELSE @,
                                !.barred = blocked]
  BY DEF Fetch
<1> DEFINE limit == IF pass.pc = "start" THEN ParseLimit(n) ELSE pass.limit
           page == FirstOf(S, limit)
           next == NextCursor(S, limit)
           stable == IF pass.pc = "start" THEN {x \in S : owner[x] \notin blocked}
                     ELSE pass.stable
<1>1. /\ UNCHANGED <<list, state, created, owner, blocked>>
      /\ pass.pc \in {"start", "idle"}
      /\ pass \in Pass /\ c \in Cursors
      /\ S \in SUBSET Rows
  BY PassFields DEF Fetch, IInv, TypeOK, RowsBehind
<1>2. limit \in 1..MaxLimit /\ limit \in Nat \ {0}
  <2>1. n \in Int /\ MaxLimit \in Nat
    BY ListingsAssumption
  <2>2. ParseLimit(n) \in 1..MaxLimit
    BY <2>1, LimitIsKept
  <2>3. pass.pc # "start" => pass.limit \in 1..MaxLimit
    BY DEF IInv, TypeOK
  <2> QED BY <2>1, <2>2, <2>3
<1> HIDE DEF limit
<1>3. /\ page \subseteq S
      /\ Cardinality(page) <= limit
      /\ next \in Cursors
      /\ next # None => Cardinality(page) = limit
      /\ next # None => \A x \in page : ~Behind(x, next)
      /\ next # None => \A x \in Rows : ~Behind(x, c) => ~Behind(x, next)
      /\ \A x \in S : \/ x \in page
                      \/ next # None /\ Behind(x, next)
                      \/ next # None /\ list \in ByTime /\ created[x] = next.time
  BY <1>1, <1>2, PageOfRows DEF IInv
<1>4. pass' = [pass EXCEPT !.pc = "page", !.limit = limit, !.page = page, !.next = next,
                           !.stable = stable, !.barred = blocked]
  BY DEF limit
<1> HIDE DEF page, next, S
<1>5. stable \in SUBSET Rows
  BY <1>1, PassFields
<1> HIDE DEF stable
<1>6. blocked \in SUBSET Personas
  BY DEF IInv, TypeOK
<1>7. /\ pass' \in Pass
      /\ pass'.pc = "page" /\ pass'.limit = limit /\ pass'.page = page /\ pass'.next = next
      /\ pass'.stable = stable /\ pass'.barred = blocked
      /\ pass'.cursor = c /\ pass'.listed = pass.listed /\ pass'.twice = pass.twice
      /\ pass'.cuts = pass.cuts
  BY <1>1, <1>2, <1>3, <1>4, <1>5, <1>6 DEF Pass
<1> HIDE DEF c
<1>8. TypeOK'
  BY <1>1, <1>2, <1>3, <1>7 DEF IInv, TypeOK
<1>9. RowsAreDated' /\ BlocksAreReviewed' /\ BarredAreBlocked' /\ Beginning'
  BY <1>1, <1>7
     DEF IInv, RowsAreDated, BlocksAreReviewed, BarredAreBlocked, Beginning, Present
<1>10. \A x \in Rows : /\ InList(x)' <=> InList(x)
                       /\ Present(x)' <=> Present(x)
                       /\ \A d : Behind(x, d)' <=> Behind(x, d)
  <2>1. \A x \in Rows : (InList(x)' <=> InList(x)) /\ (Present(x)' <=> Present(x))
    BY <1>1 DEF InList, Visible, Present
  <2>2. \A x \in Rows : \A d : Behind(x, d)' <=> Behind(x, d)
    BY <1>1 DEF Behind, NewerThan, OlderInTime, OlderThan
  <2> QED BY <2>1, <2>2
<1>11. \A x \in S : Present(x) /\ InList(x) /\ Behind(x, c)
  BY DEF S, RowsBehind, InList, Visible, Present
<1>12. \A x \in pass.listed : x \in Rows /\ Present(x) /\ ~Behind(x, c)
  BY <1>1, PassFields DEF IInv, GivenIsPassed, c
<1>13. GivenIsPassed'
  BY <1>7, <1>10, <1>12 DEF GivenIsPassed, c
<1>14. StableIsListable'
  BY <1>1, <1>5, <1>7, <1>10, <1>11 DEF IInv, StableIsListable, stable
<1>15. PageIsBehind'
  BY <1>1, <1>3, <1>7, <1>10, <1>11, <1>12 DEF PageIsBehind, c
\* What is stable and not given was behind the cursor and is in S.
<1>16. \A x \in stable : \/ x \in S
                         \/ x \in pass.listed
                         \/ list \in ByTime /\ created[x] \in pass.cuts
  <2>1. CASE pass.pc = "start"
    BY <2>1 DEF stable
  <2>2. CASE pass.pc # "start"
    <3>1. ASSUME NEW x \in pass.stable, Behind(x, c) PROVE x \in S
      BY <1>1, <3>1, PassFields DEF IInv, StableIsListable, S, RowsBehind
    <3> QED BY <1>1, <2>2, <3>1 DEF stable, IInv, ListedOnce, StableAreListed, c
  <2> QED BY <2>1, <2>2
<1>17. PageMissesNone'
  <2>1. \A x \in stable : \/ x \in pass.listed \union page
                          \/ next # None /\ Behind(x, next)
                          \/ list \in ByTime /\ created[x] \in pass.cuts
                          \/ list \in ByTime /\ next # None /\ created[x] = next.time
    BY <1>3, <1>16
  <2> QED BY <1>1, <1>5, <1>7, <1>10, <2>1 DEF PageMissesNone
<1>18. ListedOnce'
  <2>1. NoneTwice'
    BY <1>7 DEF IInv, ListedOnce, NoneTwice
  <2>2. StableAreListed'
    BY <1>1, <1>5, <1>7, <1>10, <1>11, <1>16 DEF StableAreListed, c
  <2> QED BY <2>1, <2>2 DEF ListedOnce
<1> QED BY <1>8, <1>9, <1>13, <1>14, <1>15, <1>17, <1>18 DEF IInv

\* The page that is answered is the page that was cut, or what of it is by
\* authors who are not blocked.
LEMMA InvAnswer ==
    ASSUME IInv, pass.pc = "page", NEW page \in SUBSET pass.page, NEW failed \in BOOLEAN,
           \A x \in pass.page \ page : owner[x] \in blocked,
           Answer(page, failed)
    PROVE  IInv'
<1> DEFINE next == pass.next
<1>1. /\ UNCHANGED <<list, state, created, owner, blocked>>
      /\ pass \in Pass /\ next \in Cursors /\ page \in SUBSET Rows
  BY PassFields DEF Answer, IInv, TypeOK
<1> HIDE DEF next
<1>2. None \in Cursors /\ (next # None => next.time \in 1..MaxTime)
  <2>1. next # None => next \in [time : 1..MaxTime, id : Rows]
    BY <1>1 DEF Cursors
  <2> QED BY <2>1 DEF Cursors
<1>3. /\ pass'.pc = IF next = None THEN "done" ELSE "idle"
      /\ pass'.cursor = next
      /\ pass'.cuts = IF next = None THEN pass.cuts ELSE pass.cuts \union {next.time}
      /\ pass'.page = {} /\ pass'.next = None /\ pass'.barred = {} /\ pass'.failed = failed
      /\ pass'.listed = pass.listed \union page
      /\ pass'.twice = pass.twice \union (page \cap pass.listed)
      /\ pass'.limit = pass.limit /\ pass'.stable = pass.stable
      /\ DOMAIN pass' = DOMAIN pass
  BY <1>1 DEF Answer, Pass, next
<1>4. pass' \in Pass
  <2>1. /\ pass'.pc \in {"start", "idle", "page", "done"}
        /\ pass'.cursor \in Cursors /\ pass'.next \in Cursors
        /\ pass'.cuts \in SUBSET (1..MaxTime)
        /\ pass'.listed \in SUBSET Rows /\ pass'.twice \in SUBSET Rows
    BY <1>1, <1>2, <1>3, PassFields
  <2> QED BY <1>1, <2>1 DEF Answer, Pass, next
<1>5. TypeOK'
  <2>1. pass'.limit \in 1..MaxLimit /\ Cardinality(pass'.page) <= pass'.limit
    <3>1. Cardinality({}) = 0 /\ MaxLimit \in Nat
      BY FS_EmptySet, ListingsAssumption
    <3>2. pass.limit \in 1..MaxLimit
      BY DEF IInv, TypeOK
    <3> QED BY <1>3, <3>1, <3>2
  <2> QED BY <1>1, <1>3, <1>4, <2>1 DEF IInv, TypeOK
<1>6. RowsAreDated' /\ BlocksAreReviewed' /\ BarredAreBlocked' /\ Beginning'
  BY <1>1, <1>3
     DEF IInv, RowsAreDated, BlocksAreReviewed, BarredAreBlocked, Beginning, Present
<1>7. \A x : /\ InList(x)' <=> InList(x)
             /\ Present(x)' <=> Present(x)
             /\ \A d : Behind(x, d)' <=> Behind(x, d)
  <2>1. \A x : (InList(x)' <=> InList(x)) /\ (Present(x)' <=> Present(x))
    BY <1>1 DEF InList, Visible, Present
  <2>2. \A x, d : Behind(x, d)' <=> Behind(x, d)
    BY <1>1 DEF Behind, NewerThan, OlderInTime, OlderThan
  <2> QED BY <2>1, <2>2
<1>8. /\ \A x \in page : Present(x) /\ Behind(x, pass.cursor)
      /\ next # None => \A x \in page \union pass.listed : ~Behind(x, next)
  BY DEF IInv, PageIsBehind, next
<1>9. \A x \in pass.listed : Present(x) /\ ~Behind(x, pass.cursor)
  BY DEF IInv, GivenIsPassed
<1>10. GivenIsPassed'
  BY <1>3, <1>7, <1>8, <1>9 DEF GivenIsPassed
<1>11. StableIsListable'
  BY <1>1, <1>3, <1>7 DEF IInv, StableIsListable
<1>12. PageIsBehind' /\ PageMissesNone'
  BY <1>3 DEF PageIsBehind, PageMissesNone
<1>13. NoneTwice'
  BY <1>3, <1>8, <1>9 DEF IInv, ListedOnce, NoneTwice
\* A stable row of the page is not taken out: its author is not blocked.
<1>14. pass.stable \cap pass.page \subseteq page
  BY DEF IInv, StableIsListable
<1>15. ASSUME NEW x \in pass.stable
       PROVE  \/ x \in pass'.listed
              \/ pass'.pc # "done" /\ Behind(x, next)
              \/ list \in ByTime /\ created[x] \in pass'.cuts
  <2>1. \/ x \in pass.listed \union page
        \/ next # None /\ Behind(x, next)
        \/ list \in ByTime /\ created[x] \in pass.cuts
        \/ list \in ByTime /\ next # None /\ created[x] = next.time
    BY <1>14 DEF IInv, PageMissesNone, next
  <2> QED BY <1>3, <2>1
<1>16. StableAreListed'
  BY <1>1, <1>3, <1>7, <1>15 DEF StableAreListed
<1> QED BY <1>5, <1>6, <1>10, <1>11, <1>12, <1>13, <1>16 DEF IInv, ListedOnce

LEMMA InvRead ==
    ASSUME IInv, Read
    PROVE  IInv'
<1>1. ASSUME \/ ListTopics \/ ListPosts \/ ListComments \/ ListReactions
             \/ ListBlocks \/ ListCases \/ ListInviteCodes
      PROVE  IInv'
  BY <1>1, FetchesRowsBehind, InvFetch DEF IInv
<1>2. CASE AnswerPosts
  BY <1>2, InvAnswer DEF AnswerPosts, FilterBlockedAuthors
<1>3. CASE AnswerComments
  BY <1>3, InvAnswer DEF AnswerComments, FilterBlockedAuthorsOnComments
<1>4. CASE AnswerOthers
  BY <1>4, InvAnswer DEF AnswerOthers
<1> QED BY <1>1, <1>2, <1>3, <1>4 DEF Read

-----------------------------------------------------------------------------
(***************************************************************************)
(* Between the pages rows and blocks change.  What was given and what is   *)
(* stable is present, and a row that is present stays where it is.         *)
(***************************************************************************)
SamePage ==
    /\ pass'.pc = pass.pc /\ pass'.limit = pass.limit /\ pass'.cursor = pass.cursor
    /\ pass'.page = pass.page /\ pass'.next = pass.next /\ pass'.listed = pass.listed
    /\ pass'.twice = pass.twice /\ pass'.cuts = pass.cuts

LEMMA RowsStayInPlace ==
    ASSUME IInv, TypeOK', RowsAreDated', BlocksAreReviewed', BarredAreBlocked',
           StableIsListable', list' = list, SamePage, pass'.stable \subseteq pass.stable,
           \A x \in Rows : Present(x) => Present(x)' /\ created'[x] = created[x]
    PROVE  IInv'
<1>1. pass \in Pass /\ pass' \in Pass
  BY DEF IInv, TypeOK
<1>2. ASSUME NEW x \in Rows, Present(x)
      PROVE  Present(x)' /\ created'[x] = created[x] /\ \A c : Behind(x, c)' <=> Behind(x, c)
  <2>1. \A c : /\ NewerThan(x, c)' <=> NewerThan(x, c)
               /\ OlderInTime(x, c)' <=> OlderInTime(x, c)
               /\ OlderThan(x, c)' <=> OlderThan(x, c)
    BY <1>2 DEF NewerThan, OlderInTime, OlderThan
  <2>2. \A c : Behind(x, c)' <=> Behind(x, c)
    <3>1. "topics" \notin ByTime
      BY DEF ByTime
    <3>2. CASE list = "topics"
      BY <2>1, <3>1, <3>2, Zenon DEF Behind
    <3>3. CASE list \in ByTime
      BY <2>1, <3>1, <3>3, Zenon DEF Behind
    <3>4. CASE list # "topics" /\ list \notin ByTime
      BY <2>1, <3>4, Zenon DEF Behind
    <3> QED BY <3>1, <3>2, <3>3, <3>4
  <2> QED BY <1>2, <2>2
<1>3. \A x \in pass.listed : x \in Rows /\ Present(x)
  BY <1>1, PassFields DEF IInv, GivenIsPassed
<1>4. \A x \in pass.stable : x \in Rows /\ Present(x)
  BY <1>1, PassFields DEF IInv, StableIsListable, InList, Visible, Present
<1>5. pass.pc = "page" => \A x \in pass.page : x \in Rows /\ Present(x)
  BY <1>1, PassFields DEF IInv, PageIsBehind
<1>6. Beginning'
  BY DEF IInv, Beginning, SamePage
<1>7. GivenIsPassed'
  BY <1>2, <1>3 DEF IInv, GivenIsPassed, SamePage
<1>8. PageIsBehind'
  BY <1>2, <1>3, <1>5 DEF IInv, PageIsBehind, SamePage
<1>9. PageMissesNone'
  BY <1>2, <1>4 DEF IInv, PageMissesNone, SamePage
<1>10. ListedOnce'
  BY <1>2, <1>4 DEF IInv, ListedOnce, NoneTwice, StableAreListed, SamePage
<1> QED BY <1>6, <1>7, <1>8, <1>9, <1>10 DEF IInv

\* A row takes another state: it stays stable only when it stays in the list.
LEMMA RestateKeeps ==
    ASSUME IInv, NEW x \in Rows, NEW s \in States \ {"absent"}, NEW p, Restate(x, s, p),
           UNCHANGED <<list, blocked>>,
           created' \in [Rows -> 0..MaxTime], owner' \in [Rows -> Personas \union {None}],
           created'[x] \in 1..MaxTime, owner'[x] = p,
           \A y \in Rows : Present(y) \/ y # x =>
                              created'[y] = created[y] /\ owner'[y] = owner[y],
           list \notin Reviewed => s # "review" /\ p = None
    PROVE  IInv'
<1>1. /\ pass \in Pass /\ state \in [Rows -> States]
      /\ state' = [state EXCEPT ![x] = s]
  BY DEF IInv, TypeOK, Restate
<1>2. /\ pass' \in Pass /\ SamePage /\ pass'.barred = pass.barred
      /\ pass'.stable = IF s = "shown" \/ (s = "review" /\ p = Viewer)
                        THEN pass.stable ELSE pass.stable \ {x}
  <2> DEFINE stable == IF s = "shown" \/ (s = "review" /\ p = Viewer)
                       THEN pass.stable ELSE pass.stable \ {x}
  <2>1. stable \in SUBSET Rows /\ pass' = [pass EXCEPT !.stable = stable]
    BY <1>1, PassFields DEF Restate
  <2> HIDE DEF stable
  <2>2. /\ pass' \in Pass /\ SamePage /\ pass'.barred = pass.barred
        /\ pass'.stable = stable
    BY <1>1, <2>1 DEF Pass, SamePage
  <2> QED BY <2>2 DEF stable
<1>3. \A y \in Rows : state'[y] = IF y = x THEN s ELSE state[y]
  BY <1>1
<1>4. TypeOK'
  BY <1>1, <1>2 DEF IInv, TypeOK, SamePage
<1>5. RowsAreDated'
  BY <1>3 DEF IInv, RowsAreDated, Present
<1>6. BlocksAreReviewed' /\ BarredAreBlocked'
  BY <1>2 DEF IInv, BlocksAreReviewed, BarredAreBlocked
<1>7. StableIsListable'
  <2> SUFFICES ASSUME NEW y \in pass'.stable PROVE InList(y)' /\ owner'[y] \notin blocked'
    BY DEF StableIsListable
  <2>1. y \in pass.stable /\ y \in Rows /\ InList(y) /\ owner[y] \notin blocked
    BY <1>1, <1>2, PassFields DEF IInv, StableIsListable
  <2>2. Present(y)
    BY <2>1 DEF InList, Visible, Present
  <2>3. owner'[y] = owner[y]
    BY <2>1, <2>2
  <2>4. CASE y # x
    BY <1>3, <2>1, <2>3, <2>4 DEF InList, Visible
  <2>5. CASE y = x
    <3>1. s = "shown" \/ (s = "review" /\ p = Viewer)
      BY <1>2, <2>5
    <3> QED BY <1>3, <2>1, <2>3, <2>5, <3>1 DEF InList, Visible
  <2> QED BY <2>4, <2>5
<1>8. \A y \in Rows : Present(y) => Present(y)' /\ created'[y] = created[y]
  BY <1>3 DEF Present
<1>9. pass'.stable \subseteq pass.stable
  BY <1>2
<1> QED BY <1>2, <1>4, <1>5, <1>6, <1>7, <1>8, <1>9, RowsStayInPlace

LEMMA InvInsert ==
    ASSUME IInv, NEW x \in Rows, NEW t \in 1..MaxTime, NEW p \in Personas \union {None},
           Insert(x, t, p)
    PROVE  IInv'
<1> DEFINE s == IF list \in Reviewed THEN "review" ELSE "shown"
<1>1. /\ created \in [Rows -> 0..MaxTime] /\ owner \in [Rows -> Personas \union {None}]
      /\ MaxTime \in Nat
  BY ListingsAssumption DEF IInv, TypeOK
<1>2. t \in 0..MaxTime
  BY <1>1
<1>3. /\ created' \in [Rows -> 0..MaxTime] /\ created'[x] = t
      /\ owner' \in [Rows -> Personas \union {None}] /\ owner'[x] = p
      /\ \A y \in Rows : y # x => created'[y] = created[y] /\ owner'[y] = owner[y]
  BY <1>1, <1>2 DEF Insert
<1>4. ~Present(x) /\ Restate(x, s, p) /\ UNCHANGED <<list, blocked>>
      /\ (list \notin Reviewed => p = None)
  BY DEF Insert, Present
<1>5. s \in States \ {"absent"} /\ (list \notin Reviewed => s # "review")
  BY DEF States
<1> HIDE DEF s
<1> QED BY <1>3, <1>4, <1>5, RestateKeeps

\* The other changes of a row leave its created_at and its author alone.
LEMMA InvRestated ==
    ASSUME IInv, NEW x \in Rows, NEW s \in States \ {"absent"}, Restate(x, s, owner[x]),
           UNCHANGED <<list, created, owner, blocked>>, Present(x),
           s = "review" => list \in Reviewed
    PROVE  IInv'
<1>1. /\ created \in [Rows -> 0..MaxTime] /\ owner \in [Rows -> Personas \union {None}]
      /\ created[x] \in 1..MaxTime
      /\ list \notin Reviewed => owner[x] = None
  BY DEF IInv, TypeOK, RowsAreDated, BlocksAreReviewed
<1> QED BY <1>1, RestateKeeps

LEMMA InvReview ==
    ASSUME IInv, NEW x \in Rows, NEW s \in States, Review(x, s)
    PROVE  IInv'
BY InvRestated DEF Review, Present

LEMMA InvWithdraw ==
    ASSUME IInv, NEW x \in Rows, Withdraw(x)
    PROVE  IInv'
BY InvRestated DEF Withdraw, Present, States

LEMMA InvReturn ==
    ASSUME IInv, NEW x \in Rows, Return(x)
    PROVE  IInv'
<1>1. PICK s \in {"review", "shown"} :
        (s = "review" => list \in Reviewed) /\ Restate(x, s, owner[x])
  BY DEF Return
<1>2. s \in States \ {"absent"} /\ Present(x) /\ UNCHANGED <<list, created, owner, blocked>>
  BY DEF Return, Present, States
<1> QED BY <1>1, <1>2, InvRestated

LEMMA InvCreateBlock ==
    ASSUME IInv, NEW q \in Personas, CreateBlock(q)
    PROVE  IInv'
<1> DEFINE stable == {x \in pass.stable : owner[x] # q}
<1>1. /\ pass \in Pass /\ UNCHANGED <<list, state, created, owner>>
      /\ list \in Reviewed /\ blocked' = blocked \union {q} /\ q # Viewer
      /\ pass' = [pass EXCEPT !.stable = stable] /\ stable \in SUBSET Rows
      /\ stable \subseteq pass.stable
  BY PassFields DEF CreateBlock, InsertBlock, IInv, TypeOK
<1>2. \A x \in stable : owner[x] # q
  OBVIOUS
<1> HIDE DEF stable
<1>3. /\ pass' \in Pass /\ SamePage /\ pass'.barred = pass.barred /\ pass'.stable = stable
  BY <1>1 DEF Pass, SamePage
<1>4. TypeOK'
  BY <1>1, <1>3 DEF IInv, TypeOK, SamePage
<1>5. RowsAreDated' /\ BlocksAreReviewed' /\ BarredAreBlocked'
  BY <1>1, <1>3 DEF IInv, RowsAreDated, BlocksAreReviewed, BarredAreBlocked, Present
<1>6. StableIsListable'
  BY <1>1, <1>2, <1>3 DEF IInv, StableIsListable, InList, Visible
<1>7. \A x \in Rows : Present(x) => Present(x)' /\ created'[x] = created[x]
  BY <1>1 DEF Present
<1> QED BY <1>1, <1>3, <1>4, <1>5, <1>6, <1>7, RowsStayInPlace

LEMMA InvDeleteBlock ==
    ASSUME IInv, NEW q \in Personas, DeleteBlock(q)
    PROVE  IInv'
<1> DEFINE barred == pass.barred \ {q}
<1>1. /\ pass \in Pass /\ UNCHANGED <<list, state, created, owner>>
      /\ blocked' = blocked \ {q}
      /\ pass' = [pass EXCEPT !.barred = barred] /\ barred \in SUBSET Personas
  BY PassFields DEF DeleteBlock, IInv, TypeOK
<1>2. barred \subseteq blocked'
  BY <1>1 DEF IInv, BarredAreBlocked
<1> HIDE DEF barred
<1>3. pass' \in Pass /\ SamePage /\ pass'.barred = barred /\ pass'.stable = pass.stable
  BY <1>1 DEF Pass, SamePage
<1>4. TypeOK'
  BY <1>1, <1>3 DEF IInv, TypeOK, SamePage
<1>5. RowsAreDated' /\ BlocksAreReviewed' /\ BarredAreBlocked'
  BY <1>1, <1>2, <1>3 DEF IInv, RowsAreDated, BlocksAreReviewed, BarredAreBlocked, Present
<1>6. StableIsListable'
  BY <1>1, <1>3 DEF IInv, StableIsListable, InList, Visible
<1>7. \A x \in Rows : Present(x) => Present(x)' /\ created'[x] = created[x]
  BY <1>1 DEF Present
<1> QED BY <1>1, <1>3, <1>4, <1>5, <1>6, <1>7, RowsStayInPlace

LEMMA InvChange ==
    ASSUME IInv, Change
    PROVE  IInv'
<1>1. ASSUME NEW x \in Rows, NEW t \in 1..MaxTime, NEW p \in Personas \union {None},
             Insert(x, t, p)
      PROVE  IInv'
  BY <1>1, InvInsert
<1>2. ASSUME NEW x \in Rows, NEW s \in States, Review(x, s) PROVE IInv'
  BY <1>2, InvReview
<1>3. ASSUME NEW x \in Rows, Withdraw(x) PROVE IInv'
  BY <1>3, InvWithdraw
<1>4. ASSUME NEW x \in Rows, Return(x) PROVE IInv'
  BY <1>4, InvReturn
<1>5. ASSUME NEW q \in Personas, CreateBlock(q) PROVE IInv'
  BY <1>5, InvCreateBlock
<1>6. ASSUME NEW q \in Personas, DeleteBlock(q) PROVE IInv'
  BY <1>6, InvDeleteBlock
<1> QED BY <1>1, <1>2, <1>3, <1>4, <1>5, <1>6 DEF Change

LEMMA InvStutter ==
    ASSUME IInv, UNCHANGED vars
    PROVE  IInv'
<1>1. /\ UNCHANGED <<list, state, created, owner, blocked, pass>>
  BY DEF vars
<1>2. TypeOK' /\ BlocksAreReviewed' /\ BarredAreBlocked' /\ RowsAreDated' /\ StableIsListable'
  BY <1>1 DEF IInv, TypeOK, BlocksAreReviewed, BarredAreBlocked, RowsAreDated, Present,
              StableIsListable, InList, Visible
<1>3. \A x \in Rows : Present(x) => Present(x)' /\ created'[x] = created[x]
  BY <1>1 DEF Present
<1> QED BY <1>1, <1>2, <1>3, RowsStayInPlace DEF SamePage

LEMMA InvNext == IInv /\ [Next]_vars => IInv'
BY InvRead, InvChange, InvStutter DEF Next

-----------------------------------------------------------------------------
\* The inductive invariant holds in every state of every behaviour: a page is
\* always behind its cursor, and what was given never is.
THEOREM Invariance == Spec => []IInv
<1>1. Init => IInv
  BY InvInit
<1>2. IInv /\ [Next]_vars => IInv'
  BY InvNext
<1> QED BY <1>1, <1>2, PTL DEF Spec

\* Every list, cursor and page has its type, no page is longer than its limit,
\* and a page that has a next one is full before blocked authors are taken out.
THEOREM TypeCorrect == Spec => []TypeOK
<1>1. IInv => TypeOK
  BY DEF IInv
<1> QED BY <1>1, Invariance, PTL

\* However rows come and go between the pages, no row is given twice and none
\* that stayed in the list is passed over, but at an instant at which a page of
\* a list whose cursor is a time was cut.
THEOREM ListedOnceAlways == Spec => []ListedOnce
<1>1. IInv => ListedOnce
  BY DEF IInv
<1> QED BY <1>1, Invariance, PTL

\* An answer shows nothing of an author who was blocked since before its page was
\* read, unless the lookup of the blocks failed.
THEOREM BlockedStayUnseen == Spec => BlockedUnseen
<1> DEFINE Unseen ==
      \A x \in pass'.listed \ pass.listed : owner[x] \in pass.barred => pass'.failed
<1>1. ASSUME IInv, [Next]_vars PROVE [Unseen]_vars
  <2>1. pass \in Pass
    BY <1>1 DEF IInv, TypeOK
  <2>2. ASSUME NEW page \in SUBSET pass.page, NEW failed \in BOOLEAN, Answer(page, failed),
               failed \/ (\A x \in page : owner[x] \notin pass.barred)
        PROVE  Unseen
    <3>1. pass'.listed = pass.listed \union page /\ pass'.failed = failed
      BY <2>1, <2>2 DEF Answer, Pass
    <3> QED BY <2>2, <3>1
  <2>3. CASE AnswerPosts
    <3>1. \A x \in FilterBlockedAuthors(pass.page) : owner[x] \notin pass.barred
      BY <1>1 DEF IInv, BarredAreBlocked, FilterBlockedAuthors
    <3>2. FilterBlockedAuthors(pass.page) \subseteq pass.page
      BY DEF FilterBlockedAuthors
    <3> QED BY <2>2, <2>3, <3>1, <3>2 DEF AnswerPosts
  <2>4. CASE AnswerComments
    <3>1. \A x \in FilterBlockedAuthorsOnComments(pass.page) : owner[x] \notin pass.barred
      BY <1>1 DEF IInv, BarredAreBlocked, FilterBlockedAuthorsOnComments
    <3>2. FilterBlockedAuthorsOnComments(pass.page) \subseteq pass.page
      BY DEF FilterBlockedAuthorsOnComments
    <3> QED BY <2>2, <2>4, <3>1, <3>2 DEF AnswerComments
  <2>5. CASE AnswerOthers
    <3>1. pass.barred = {}
      BY <1>1, <2>5 DEF IInv, BarredAreBlocked, BlocksAreReviewed, AnswerOthers
    <3> QED BY <2>2, <2>5, <3>1 DEF AnswerOthers
  <2>6. ASSUME \/ ListTopics \/ ListPosts \/ ListComments \/ ListReactions
               \/ ListBlocks \/ ListCases \/ ListInviteCodes
        PROVE  pass'.listed = pass.listed
    <3>1. Fetch(list, RowsBehind(pass.cursor))
      BY <1>1, <2>6, FetchesRowsBehind DEF IInv
    <3> QED BY <2>1, <3>1 DEF Fetch, Pass
  <2>7. CASE Change
    <3>1. \A x, s, p : Restate(x, s, p) => pass'.listed = pass.listed
      BY <2>1 DEF Restate, Pass
    <3>2. ASSUME NEW x, NEW t, NEW p, Insert(x, t, p) PROVE pass'.listed = pass.listed
      BY <3>1, <3>2 DEF Insert
    <3>3. ASSUME NEW x, NEW s, Review(x, s) PROVE pass'.listed = pass.listed
      BY <3>1, <3>3 DEF Review
    <3>4. ASSUME NEW x, Withdraw(x) \/ Return(x) PROVE pass'.listed = pass.listed
      BY <3>1, <3>4 DEF Withdraw, Return
    <3>5. ASSUME NEW q, CreateBlock(q) \/ DeleteBlock(q) PROVE pass'.listed = pass.listed
      BY <2>1, <3>5 DEF CreateBlock, DeleteBlock, Pass
    <3>6. pass'.listed = pass.listed
      BY <2>7, <3>2, <3>3, <3>4, <3>5 DEF Change
    <3> QED BY <3>6
  <2>8. CASE UNCHANGED vars
    BY <2>8
  <2> QED BY <1>1, <2>3, <2>4, <2>5, <2>6, <2>7, <2>8 DEF Next, Read
<1> QED BY <1>1, Invariance, PTL DEF Spec, BlockedUnseen
=============================================================================
