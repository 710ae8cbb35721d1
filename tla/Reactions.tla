------------------------------ MODULE Reactions ------------------------------
(***************************************************************************)
(* The requests of services/api/internal/content that mark a post: likes   *)
(* with their tally on the post, saves, and follows of a topic.            *)
(***************************************************************************)
EXTENDS ContentTables

Unliked == <<state, home, author, count, marks, stored, approved>>
Unmarked == <<state, home, author, count, likes, shown, stored, approved>>

-----------------------------------------------------------------------------
(***************************************************************************)
(* POST and DELETE /posts/{postId}/reactions: the row, then the tally,     *)
(* which is counted in one statement and written in another.               *)
(***************************************************************************)
TargetExists(i) == Live(i)

Begin(r, p, i, pc) ==
    req' = [req EXCEPT ![r].op = "like", ![r].who = p, ![r].item = i,
                       ![r].faults = IF Busy("like", i) THEN {"overlap"} ELSE {}, ![r].pc = pc]

CreateReactionRequest(r, p, i) ==
    /\ At(r, "new")
    /\ TargetExists(i)
    /\ Begin(r, p, i, "upsert")
    /\ UNCHANGED tables

CreateReaction(r) ==
    /\ At(r, "upsert")
    /\ UpsertReaction(req[r].item, req[r].who)
    /\ GoTo(r, "tally")
    /\ UNCHANGED <<Unliked, shown>>

DeleteReactionRequest(r, p, i) ==
    /\ At(r, "new")
    /\ DeleteReactionRow(i, p)
    /\ Begin(r, p, i, "tally")
    /\ UNCHANGED <<Unliked, shown>>

CountReactions(r) ==
    /\ At(r, "tally")
    /\ req' = [req EXCEPT ![r].seen = Tally(req[r].item), ![r].pc = "writeTally"]
    /\ UNCHANGED tables

WriteReactionCounts(r) ==
    /\ At(r, "writeTally")
    /\ WriteTally(req[r].item, req[r].seen)
    /\ Finish(r)
    /\ UNCHANGED <<Unliked, likes>>

(***************************************************************************)
(* POST and DELETE /posts/{postId}/saves and /topics/{topicId}/follow.     *)
(* One row; a second insert and a second delete are refused.               *)
(***************************************************************************)
Toggled(r, op, p, x) ==
    /\ At(r, "new")
    /\ req' = [req EXCEPT ![r].op = op, ![r].who = p, ![r].item = x, ![r].pc = "done"]
    /\ UNCHANGED Unmarked

SavePost(r, p, i) == state[i] # "absent" /\ CreateSave(p, i) /\ Toggled(r, "mark", p, i)
UnsavePost(r, p, i) == DeleteSave(p, i) /\ Toggled(r, "unmark", p, i)
FollowTopic(r, p, t) == InsertFollow(p, t) /\ Toggled(r, "mark", p, t)
UnfollowTopic(r, p, t) == DeleteFollow(p, t) /\ Toggled(r, "unmark", p, t)
=============================================================================
