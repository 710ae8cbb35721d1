---------------------------- MODULE ContentTables ----------------------------
(***************************************************************************)
(* The tables of services/api/internal/content, the statements of its      *)
(* repository, and the local state of the request handlers that run them.  *)
(*                                                                         *)
(* An item is a post or a comment; its container is the topic or the post  *)
(* whose counter (topics.note_count, posts.reply_count) counts it.  Each   *)
(* statement is atomic and by primary key; nothing runs in a transaction,  *)
(* so a handler is a chain of steps, one for each statement.  A handler    *)
(* may stop between two of them (the connection or the process is lost),   *)
(* and an update of a counter may fail on its own: its error is dropped.   *)
(* Texts, media, who may post how often and the personas' own states do    *)
(* not bear on any of this: a request they refuse changes nothing.  A run  *)
(* spans less than the day after which a stored response is forgotten.     *)
(***************************************************************************)
EXTENDS Integers, FiniteSets

CONSTANTS
    Topics, Posts, Comments,    \* ids
    Personas,
    Keys,                       \* Idempotency-Key headers sent with POST /posts
    Requests,                   \* request handlers; each serves one request
    MaxLost,                    \* bound: statements lost in a run
    Present,                    \* the items that are there at the start
    None

Items == Posts \union Comments
Containers == Topics \union Posts

ASSUME ContentAssumption ==
    /\ IsFiniteSet(Requests)
    /\ IsFiniteSet(Items)
    /\ Posts \cap Comments = {}
    /\ None \notin Items \union Containers \union Personas \union Keys
    /\ Present \subseteq Items
    /\ MaxLost \in Nat

VARIABLES
    state,      \* moderation_state; "absent" before the INSERT
    home,       \* posts.topic_id, comments.post_id
    author,     \* persona_id
    count,      \* topics.note_count, posts.reply_count
    likes,      \* the personas with a row in reactions, for each post
    shown,      \* posts.reaction_counts
    marks,      \* rows of saves and topic_follows: <<persona, post or topic>>
    stored,     \* idempotency_keys: the post in the stored response
    req,        \* the local state of each handler
    approved    \* history: items a moderator has published

tables == <<state, home, author, count, likes, shown, marks, stored, approved>>
vars == <<tables, req>>

States == {"absent", "pendingReview", "published", "hidden", "deleted"}

Faults == {"overlap", "uncount", "count", "stop", "removal"}

Ops == {"none", "create", "update", "delete", "like", "mark", "unmark", "moderate"}

(***************************************************************************)
(* pc: the statement a handler runs next.  from and to: the container an   *)
(* item is taken from and the one it is put in.  read, seen: the state and *)
(* the reaction counts it has read.  History: faults, what disturbed it:   *)
(* another at work on its item when it began, a counter's update lost, a   *)
(* stop, a moderator's removal or revival of a counted item; blind, the    *)
(* lookup of the key failed; late, the key had been answered before the    *)
(* lookup; answered, 201 was answered with this post.                      *)
(***************************************************************************)
Handler == [op : Ops,
            pc : {"new", "insert", "upsert", "uncount", "count", "write", "delete", "tally",
                  "writeTally", "save", "answer", "done"},
            who : Personas \union {None},
            item : Items \union Topics \union {None},
            from : Containers \union {None},
            to : Containers \union {None},
            key : Keys \union {None},
            read : States, seen : Nat,
            faults : SUBSET Faults, blind : BOOLEAN, late : BOOLEAN,
            answered : Posts \union {None}]

Blank == [op |-> "none", pc |-> "new", who |-> None, item |-> None, from |-> None,
          to |-> None, key |-> None, read |-> "absent", seen |-> 0,
          faults |-> {}, blind |-> FALSE, late |-> FALSE, answered |-> None]

At(r, pc) == req[r].pc = pc
GoTo(r, pc) == req' = [req EXCEPT ![r].pc = pc]
Done(h) == [h EXCEPT !.pc = "done", !.who = None, !.read = "absent", !.seen = 0]
Finish(r) == req' = [req EXCEPT ![r] = Done(@)]
InFlight(r) == req[r].pc \notin {"new", "done"}

\* Author's and moderator's requests write an item; reactions write its tally.
Writers == {"create", "update", "delete", "moderate"}

\* Another request of the same kind is at work on item i.
Busy(op, i) ==
    \E q \in Requests :
        /\ InFlight(q)
        /\ req[q].item = i
        /\ (op \in Writers) = (req[q].op \in Writers)

LostSoFar == {t \in Requests \X {"uncount", "count", "stop"} : t[2] \in req[t[1]].faults}
CanLose == Cardinality(LostSoFar) < MaxLost

Live(i) == state[i] \notin {"absent", "deleted"}

-----------------------------------------------------------------------------
(***************************************************************************)
(* Statements on posts and comments.                                       *)
(***************************************************************************)
\* A new row that needs no review.
InsertPublished(i, h, p) ==
    /\ state[i] = "absent"
    /\ state' = [state EXCEPT ![i] = "published"]
    /\ home' = [home EXCEPT ![i] = h]
    /\ author' = [author EXCEPT ![i] = p]

InsertPost(i, h, p) ==
    /\ state[i] = "absent"
    /\ state' = [state EXCEPT ![i] = "pendingReview"]
    /\ home' = [home EXCEPT ![i] = h]
    /\ author' = [author EXCEPT ![i] = p]

InsertComment(i, h, p) == InsertPost(i, h, p)

\* SELECT ... WHERE id = $1 AND persona_id = $2.
OwnPost(i, p) == i \in Posts /\ state[i] # "absent" /\ author[i] = p
OwnComment(i, p) == i \in Comments /\ state[i] # "absent" /\ author[i] = p

\* The whole row as it was read, the reaction counts with it.
SaveWholePost(i, h, s, seen) ==
    /\ home' = [home EXCEPT ![i] = h]
    /\ state' = [state EXCEPT ![i] = s]
    /\ shown' = [shown EXCEPT ![i] = seen]

\* Every edit goes to review again.
SendToReview(i, h, s, seen) ==
    /\ home' = [home EXCEPT ![i] = h]
    /\ state' = [state EXCEPT ![i] = "pendingReview"]
    /\ UNCHANGED shown

\* topic_id and moderation_state as the handler holds them; no other column.
UpdatePostRow(i, h, s, seen) ==
    /\ home' = [home EXCEPT ![i] = h]
    /\ state' = [state EXCEPT ![i] = s]
    /\ UNCHANGED shown

UpdateCommentRow(i, s) ==
    /\ state' = [state EXCEPT ![i] = s]
    /\ UNCHANGED <<home, shown>>

DeletePostRow(i) == state' = [state EXCEPT ![i] = "deleted"]
DeleteCommentRow(i) == state' = [state EXCEPT ![i] = "deleted"]

(***************************************************************************)
(* The counters: GREATEST(0, n + delta), or nothing when the update fails. *)
(***************************************************************************)
PlusUnclipped(n, delta) == n + delta

Plus(n, delta) == IF n + delta < 0 THEN 0 ELSE n + delta

IncrementTopicNoteCount(t, delta) == count' = [count EXCEPT ![t] = Plus(@, delta)]
IncrementPostReplyCount(i, delta) == count' = [count EXCEPT ![i] = Plus(@, delta)]

Increment(k, delta) == IF k \in Topics THEN IncrementTopicNoteCount(k, delta)
                       ELSE IncrementPostReplyCount(k, delta)

(***************************************************************************)
(* Reactions, saves and follows.  A DELETE that finds no row is an error.  *)
(***************************************************************************)
UpsertReaction(i, p) == likes' = [likes EXCEPT ![i] = @ \union {p}]

DeleteReactionRow(i, p) ==
    /\ p \in likes[i]
    /\ likes' = [likes EXCEPT ![i] = @ \ {p}]

Tally(i) == Cardinality(likes[i])

WriteTally(i, n) == shown' = [shown EXCEPT ![i] = n]

\* ON CONFLICT DO NOTHING whose row count nobody looks at.
InsertIgnoring(p, x) == marks' = marks \union {<<p, x>>}

InsertMark(p, x) ==
    /\ <<p, x>> \notin marks
    /\ marks' = marks \union {<<p, x>>}

DeleteMark(p, x) ==
    /\ <<p, x>> \in marks
    /\ marks' = marks \ {<<p, x>>}

CreateSave(p, i) == i \in Posts /\ InsertMark(p, i)
DeleteSave(p, i) == i \in Posts /\ DeleteMark(p, i)
InsertFollow(p, t) == t \in Topics /\ InsertMark(p, t)
DeleteFollow(p, t) == t \in Topics /\ DeleteMark(p, t)

(***************************************************************************)
(* idempotency_keys: ON CONFLICT the newer response replaces the older.    *)
(***************************************************************************)
StoredResponse(k) == stored[k]
StoreResponse(k, i) == stored' = [stored EXCEPT ![k] = i]
=============================================================================
