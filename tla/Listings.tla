------------------------------ MODULE Listings ------------------------------
(***************************************************************************)
(* Lists read page by page while their rows come and go (ListTopics,       *)
(* ListPosts, ListComments, ListReactions of services/api/internal/        *)
(* content; ListBlocks and ListCases of moderation; ListInviteCodes of     *)
(* auth).                                                                  *)
(*                                                                         *)
(* A reader asks for one page after another, each from the cursor of the   *)
(* page before.  A page is one SELECT of limit + 1 rows, cut to limit; the *)
(* cursor names the last row kept.  Four lists go on from its created_at   *)
(* and id, three of them from its created_at alone.  In lists of posts and *)
(* comments the authors the reader has blocked are looked up in a second   *)
(* statement and taken out of the page after it was cut.  created_at is    *)
(* drawn when the INSERT begins, so rows need not appear in its order.     *)
(***************************************************************************)
EXTENDS Integers, FiniteSets

CONSTANTS
    Rows,               \* ids, in the order PostgreSQL compares them
    MaxTime,            \* bound: created_at ranges over 1..MaxTime
    Personas, Viewer,   \* Viewer: the reader's active persona
    Asked,              \* limits clients ask for
    DefaultLimit, MaxLimit,
    None

ASSUME ListingsAssumption ==
    /\ Rows \subseteq Int /\ IsFiniteSet(Rows)
    /\ MaxTime \in Nat /\ Asked \subseteq Int
    /\ Viewer \in Personas
    /\ None \notin Personas \union [time : 1..MaxTime, id : Rows]
    /\ MaxLimit \in Nat /\ DefaultLimit \in 1..MaxLimit

Lists == {"topics", "posts", "comments", "reactions", "blocks", "cases", "inviteCodes"}

\* The lists of items that are reviewed, and belong to a persona.
Reviewed == {"posts", "comments"}

\* The lists whose cursor is a created_at.
ByTime == {"blocks", "cases", "inviteCodes"}

VARIABLES
    list,       \* the list that is read
    state,      \* of each row: see States
    created,    \* created_at
    owner,      \* persona_id of a post or comment
    blocked,    \* the personas Viewer blocks
    pass        \* the reader, and what it was given

vars == <<list, state, created, owner, blocked, pass>>

\* review: seen by its owner only (pendingReview, hidden); out: not, or no
\* longer, in this list (deleted, or the topic or status is not the one asked for).
States == {"absent", "review", "shown", "out"}

Cursors == [time : 1..MaxTime, id : Rows] \union {None}

(***************************************************************************)
(* pc: idle, or page waits to be answered, or the list came to its end.    *)
(* History: listed, the rows given; twice, those given again; cuts, the    *)
(* times of the cursors; stable, the rows that were in the list and whose  *)
(* owner was not blocked ever since the pass began; barred, the personas   *)
(* that were blocked ever since the page was asked for; failed, a lookup   *)
(* of the blocks failed.                                                   *)
(***************************************************************************)
Pass == [pc : {"start", "idle", "page", "done"}, limit : Nat, cursor : Cursors,
         page : SUBSET Rows, next : Cursors, listed : SUBSET Rows, twice : SUBSET Rows,
         cuts : SUBSET (1..MaxTime), stable : SUBSET Rows, barred : SUBSET Personas,
         failed : BOOLEAN]

TypeOK ==
    /\ list \in Lists
    /\ state \in [Rows -> States]
    /\ created \in [Rows -> 0..MaxTime]
    /\ owner \in [Rows -> Personas \union {None}]
    /\ blocked \in SUBSET (Personas \ {Viewer})
    /\ pass \in Pass
    /\ pass.pc # "start" => Cardinality(pass.page) <= pass.limit /\ pass.limit \in 1..MaxLimit
    /\ pass.next # None => Cardinality(pass.page) = pass.limit

\* No rows yet, and a reader who holds no cursor.
Init ==
    /\ list \in Lists
    /\ state = [x \in Rows |-> "absent"]
    /\ created = [x \in Rows |-> 0]
    /\ owner = [x \in Rows |-> None]
    /\ blocked = {}
    /\ pass = [pc |-> "start", limit |-> 0, cursor |-> None, page |-> {}, next |-> None,
               listed |-> {}, twice |-> {}, cuts |-> {}, stable |-> {}, barred |-> {},
               failed |-> FALSE]

-----------------------------------------------------------------------------
(***************************************************************************)
(* The statements: WHERE ... AND (after the cursor).                       *)
(***************************************************************************)
OlderThan(x, c) ==
    c # None => created[x] < c.time \/ (created[x] = c.time /\ x < c.id)

NewerThan(x, c) ==
    c # None => created[x] > c.time \/ (created[x] = c.time /\ x > c.id)

\* The cursor's own row is read again.
NotNewerInTime(x, c) == c # None => created[x] <= c.time

OlderInTime(x, c) == c # None => created[x] < c.time

Visible(x) == state[x] = "shown" \/ (state[x] = "review" /\ owner[x] = Viewer)

TopicRows(c) == {x \in Rows : state[x] = "shown" /\ NewerThan(x, c)}
PostRows(c) == {x \in Rows : Visible(x) /\ OlderThan(x, c)}
CommentRows(c) == {x \in Rows : Visible(x) /\ OlderThan(x, c)}
ReactionRows(c) == {x \in Rows : state[x] = "shown" /\ OlderThan(x, c)}
BlockRows(c) == {x \in Rows : state[x] = "shown" /\ OlderInTime(x, c)}
CaseRows(c) == {x \in Rows : state[x] = "shown" /\ OlderInTime(x, c)}
InviteCodeRows(c) == {x \in Rows : state[x] = "shown" /\ OlderInTime(x, c)}

(***************************************************************************)
(* ORDER BY created_at, id: descending, but for topics.  LIMIT n.          *)
(***************************************************************************)
Above(x, y) == created[x] > created[y] \/ (created[x] = created[y] /\ x > y)

Sooner(x, y) == IF list = "topics" THEN Above(y, x) ELSE Above(x, y)

FirstOf(S, n) == {x \in S : Cardinality({y \in S : Sooner(y, x)}) < n}

LastOf(S) == CHOOSE x \in S : \A y \in S \ {x} : Sooner(y, x)

CursorOf(x) == [time |-> created[x], id |-> x]

\* The cursor is the row after the page, which the next page begins behind.
CursorOfFirstLeftOut(S, n) ==
    IF Cardinality(S) > n THEN CursorOf(LastOf(FirstOf(S, n + 1))) ELSE None

NextCursor(S, n) == IF Cardinality(S) > n THEN CursorOf(LastOf(FirstOf(S, n))) ELSE None

\* The limit is taken as it is asked for.
AnyLimit(n) == n

ParseLimit(n) == IF n < 1 THEN DefaultLimit ELSE IF n > MaxLimit THEN MaxLimit ELSE n

-----------------------------------------------------------------------------
(***************************************************************************)
(* One page.  S: the rows behind the cursor.                               *)
(***************************************************************************)
Fetch(l, S) ==
    /\ list = l
    /\ pass.pc \in {"start", "idle"}
    /\ \E n \in Asked :
        LET limit == IF pass.pc = "start" THEN ParseLimit(n) ELSE pass.limit
        IN pass' = [pass EXCEPT !.pc = "page", !.limit = limit,
                                !.page = FirstOf(S, limit), !.next = NextCursor(S, limit),
                                !.stable = IF pass.pc = "start"
                                           THEN {x \in S : owner[x] \notin blocked} ELSE @,
                                !.barred = blocked]
    /\ UNCHANGED <<list, state, created, owner, blocked>>

ListTopics == Fetch("topics", TopicRows(pass.cursor))
ListPosts == Fetch("posts", PostRows(pass.cursor))
ListComments == Fetch("comments", CommentRows(pass.cursor))
ListReactions == Fetch("reactions", ReactionRows(pass.cursor))
ListBlocks == Fetch("blocks", BlockRows(pass.cursor))
ListCases == Fetch("cases", CaseRows(pass.cursor))
ListInviteCodes == Fetch("inviteCodes", InviteCodeRows(pass.cursor))

\* The blocks are forgotten.
Unfiltered(page) == page

FilterBlockedAuthors(page) == {x \in page : owner[x] \notin blocked}
FilterBlockedAuthorsOnComments(page) == {x \in page : owner[x] \notin blocked}

\* A short, or even empty, page may have a next one.
Answer(page, failed) ==
    /\ pass' = [pass EXCEPT !.pc = IF pass.next = None THEN "done" ELSE "idle",
                            !.cursor = pass.next,
                            !.cuts = IF pass.next = None THEN @ ELSE @ \union {pass.next.time},
                            !.page = {}, !.next = None, !.barred = {}, !.failed = failed,
                            !.listed = @ \union page, !.twice = @ \union (page \cap pass.listed)]
    /\ UNCHANGED <<list, state, created, owner, blocked>>

\* When the blocks cannot be looked up the page is answered as it is.
AnswerPosts ==
    /\ pass.pc = "page" /\ list = "posts"
    /\ \/ Answer(FilterBlockedAuthors(pass.page), FALSE)
       \/ Answer(pass.page, TRUE)

AnswerComments ==
    /\ pass.pc = "page" /\ list = "comments"
    /\ \/ Answer(FilterBlockedAuthorsOnComments(pass.page), FALSE)
       \/ Answer(pass.page, TRUE)

AnswerOthers ==
    /\ pass.pc = "page" /\ list \notin Reviewed
    /\ Answer(pass.page, FALSE)

Read ==
    \/ ListTopics \/ ListPosts \/ ListComments \/ ListReactions
    \/ ListBlocks \/ ListCases \/ ListInviteCodes
    \/ AnswerPosts \/ AnswerComments \/ AnswerOthers

-----------------------------------------------------------------------------
(***************************************************************************)
(* What happens to the rows meanwhile; after the pass it does not matter.  *)
(***************************************************************************)
Restate(x, s, p) ==
    /\ state' = [state EXCEPT ![x] = s]
    /\ pass' = [pass EXCEPT !.stable =
                    IF s = "shown" \/ (s = "review" /\ p = Viewer) THEN @ ELSE @ \ {x}]

Insert(x, t, p) ==
    /\ state[x] = "absent"
    /\ p = None <=> list \notin Reviewed
    /\ Restate(x, IF list \in Reviewed THEN "review" ELSE "shown", p)
    /\ created' = [created EXCEPT ![x] = t]
    /\ owner' = [owner EXCEPT ![x] = p]
    /\ UNCHANGED <<list, blocked>>

\* A moderator publishes or hides it.
Review(x, s) ==
    /\ list \in Reviewed
    /\ state[x] \in {"review", "shown"}
    /\ s \in {"review", "shown"} \ {state[x]}
    /\ Restate(x, s, owner[x])
    /\ UNCHANGED <<list, created, owner, blocked>>

\* It is deleted, moved to another topic, or taken to another status.
Withdraw(x) ==
    /\ list # "topics"
    /\ state[x] \in {"review", "shown"}
    /\ Restate(x, "out", owner[x])
    /\ UNCHANGED <<list, created, owner, blocked>>

\* It is restored, or moved or taken back.  Other rows are never the same again.
Return(x) ==
    /\ list \in Reviewed \union {"cases"}
    /\ state[x] = "out"
    /\ \E s \in {"review", "shown"} :
        /\ s = "review" => list \in Reviewed
        /\ Restate(x, s, owner[x])
    /\ UNCHANGED <<list, created, owner, blocked>>

\* The CHECK blocks_no_self_block and the UNIQUE (blocker, blocked).
InsertBlock(q) ==
    /\ q # Viewer /\ q \notin blocked
    /\ blocked' = blocked \union {q}

CreateBlock(q) ==
    /\ list \in Reviewed
    /\ InsertBlock(q)
    /\ pass' = [pass EXCEPT !.stable = {x \in @ : owner[x] # q}]
    /\ UNCHANGED <<list, state, created, owner>>

DeleteBlock(q) ==
    /\ q \in blocked
    /\ blocked' = blocked \ {q}
    /\ pass' = [pass EXCEPT !.barred = @ \ {q}]
    /\ UNCHANGED <<list, state, created, owner>>

Change ==
    /\ pass.pc # "done"
    /\ \/ \E x \in Rows :
            \/ \E t \in 1..MaxTime, p \in Personas \union {None} : Insert(x, t, p)
            \/ \E s \in States : Review(x, s)
            \/ Withdraw(x) \/ Return(x)
       \/ \E q \in Personas : CreateBlock(q) \/ DeleteBlock(q)

Next == Read \/ Change

Spec == Init /\ [][Next]_vars /\ WF_vars(Read)

-----------------------------------------------------------------------------
(***************************************************************************)
(* "An absent or null nextCursor means there are no more pages" (domain-   *)
(* model.md:367).  However rows come and go between the pages, no row is   *)
(* given twice, and every row that was in the list ever since the pass     *)
(* began, by an author who was not blocked, has been given by the time the *)
(* cursor is behind it.  A cursor that is a time only may step over such a *)
(* row, but only one created in the very instant at which a page was cut.  *)
(***************************************************************************)
Behind(x, c) == CASE list = "topics" -> NewerThan(x, c)
                  [] list \in ByTime -> OlderInTime(x, c)
                  [] OTHER -> OlderThan(x, c)

NoneTwice == pass.twice = {}

StableAreListed ==
    \A x \in pass.stable :
        \/ x \in pass.listed
        \/ pass.pc # "done" /\ Behind(x, pass.cursor)
        \/ list \in ByTime /\ created[x] \in pass.cuts

ListedOnce == NoneTwice /\ StableAreListed

(***************************************************************************)
(* The blocks are read after the page (service.go:396): nothing is shown   *)
(* of an author who was blocked ever since the page was asked for, unless  *)
(* the lookup failed, in which case the whole page is shown.               *)
(***************************************************************************)
BlockedUnseen ==
    [][\A x \in pass'.listed \ pass.listed : owner[x] \in pass.barred => pass'.failed]_vars

(***************************************************************************)
(* A reader who keeps asking comes to the end of the list, though rows     *)
(* change behind and before the cursor and pages may be empty.             *)
(***************************************************************************)
EveryPassEnds == <>(pass.pc = "done")
=============================================================================
