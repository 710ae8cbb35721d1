-------------------------------- MODULE Posts --------------------------------
(***************************************************************************)
(* The requests that write posts and comments: an author's (services/api/  *)
(* internal/content) and a moderator's, who publishes, hides or removes an *)
(* item by its id (the outcome of a case: see Cases).  The action named    *)
(* ...Request reads and checks; the others run one statement each.         *)
(***************************************************************************)
EXTENDS ContentTables

Rows == <<state, home, author>>
Reacted == <<likes, shown, marks>>
Kept == <<stored, approved>>

-----------------------------------------------------------------------------
(***************************************************************************)
(* POST /posts.  A stored response is answered again; when there is none,  *)
(* or its lookup fails, the post is created and its response stored.       *)
(***************************************************************************)
Answered(k) == \E q \in Requests : req[q].key = k /\ req[q].answered # None

CreatePostRequest(r, p, t, k) ==
    /\ At(r, "new")
    /\ \E pc \in {"answer", "insert"} :
        /\ pc = "answer" => StoredResponse(k) # None
        /\ req' = [req EXCEPT ![r].op = "create", ![r].who = p, ![r].to = t, ![r].key = k,
                              ![r].late = Answered(k), ![r].pc = pc,
                              ![r].blind = (pc = "insert" /\ StoredResponse(k) # None)]
    /\ UNCHANGED tables

ReplayResponse(r) ==
    /\ At(r, "answer")
    /\ req' = [req EXCEPT ![r] = Done([@ EXCEPT !.answered = StoredResponse(req[r].key)])]
    /\ UNCHANGED tables

CreatePost(r) ==
    /\ At(r, "insert")
    /\ req[r].key # None
    /\ \E i \in Posts :
        /\ InsertPost(i, req[r].to, req[r].who)
        /\ req' = [req EXCEPT ![r].item = i, ![r].pc = "count"]
    /\ UNCHANGED <<count, Reacted, Kept>>

\* The response is sent whether or not it could be stored.
AnswerAnyway(r) ==
    /\ At(r, "save")
    /\ \/ StoreResponse(req[r].key, req[r].item)
       \/ UNCHANGED stored
    /\ req' = [req EXCEPT ![r] = Done([@ EXCEPT !.answered = req[r].item])]
    /\ UNCHANGED <<Rows, count, Reacted, approved>>

\* A response that cannot be stored is not sent: 500, although the post exists.
SaveIdempotencyResponse(r) ==
    /\ At(r, "save")
    /\ \/ /\ StoreResponse(req[r].key, req[r].item)
          /\ req' = [req EXCEPT ![r] = Done([@ EXCEPT !.answered = req[r].item])]
       \/ /\ Finish(r)
          /\ UNCHANGED stored
    /\ UNCHANGED <<Rows, count, Reacted, approved>>

(***************************************************************************)
(* POST /posts/{postId}/comments: under any post that is not deleted.      *)
(***************************************************************************)
CreateCommentRequest(r, p, i) ==
    /\ i \in Posts
    /\ Live(i)
    /\ At(r, "new")
    /\ req' = [req EXCEPT ![r].op = "create", ![r].who = p, ![r].to = i, ![r].pc = "insert"]
    /\ UNCHANGED tables

CreateComment(r) ==
    /\ At(r, "insert")
    /\ req[r].key = None
    /\ \E i \in Comments :
        /\ InsertComment(i, req[r].to, req[r].who)
        /\ req' = [req EXCEPT ![r].item = i, ![r].pc = "count"]
    /\ UNCHANGED <<count, Reacted, Kept>>

(***************************************************************************)
(* Changes of a counter.  The next step is the one after the call in       *)
(* CreatePost, CreateComment, UpdatePost, DeletePost or DeleteComment.     *)
(***************************************************************************)
AfterCount(r) == CASE req[r].op = "update" -> "write"
                   [] req[r].op = "create" /\ req[r].key # None -> "save"
                   [] OTHER -> "done"

AfterUncount(r) == IF req[r].op = "update" THEN "count" ELSE "done"

Advance(r, h, next) ==
    req' = [req EXCEPT ![r] = IF next = "done" THEN Done(h) ELSE [h EXCEPT !.pc = next]]

ChangeCount(r, k, delta, next) ==
    /\ \/ /\ Increment(k, delta)
          /\ Advance(r, req[r], next)
       \/ /\ CanLose
          /\ Advance(r, [req[r] EXCEPT !.faults = @ \union {req[r].pc}], next)
          /\ UNCHANGED count
    /\ UNCHANGED <<Rows, Reacted, Kept>>

CountIn(r) == At(r, "count") /\ ChangeCount(r, req[r].to, 1, AfterCount(r))

\* The new container is taken for the old one.
CountOutOfNew(r) == /\ At(r, "uncount")
                    /\ ChangeCount(r, IF req[r].op = "update" THEN req[r].to ELSE req[r].from,
                                   -1, AfterUncount(r))

CountOut(r) == At(r, "uncount") /\ ChangeCount(r, req[r].from, -1, AfterUncount(r))

(***************************************************************************)
(* PATCH: the state is read and checked, and written back by id at the     *)
(* end; a new topic is counted before the row has it.                      *)
(***************************************************************************)
Editable(i) == state[i] \in {"published", "pendingReview"}

\* The item as it was read, to be put into container k.
ReadItem(r, i, op, k, pc) ==
    req' = [req EXCEPT ![r].op = op, ![r].item = i, ![r].who = author[i],
                       ![r].from = home[i], ![r].to = k,
                       ![r].read = state[i], ![r].seen = shown[i],
                       ![r].faults = IF Busy(op, i) THEN {"overlap"} ELSE {}, ![r].pc = pc]

UpdatePostRequest(r, p, i) ==
    /\ At(r, "new")
    /\ OwnPost(i, p)
    /\ Editable(i)
    /\ \/ ReadItem(r, i, "update", home[i], "write")
       \/ \E t \in Topics : ReadItem(r, i, "update", t, "uncount")
    /\ UNCHANGED tables

UpdateCommentRequest(r, p, i) ==
    /\ At(r, "new")
    /\ OwnComment(i, p)
    /\ Editable(i)
    /\ ReadItem(r, i, "update", home[i], "write")
    /\ UNCHANGED tables

UpdatePost(r) ==
    /\ At(r, "write")
    /\ req[r].item \in Posts
    /\ UpdatePostRow(req[r].item, req[r].to, req[r].read, req[r].seen)
    /\ Finish(r)
    /\ UNCHANGED <<author, count, likes, marks, Kept>>

UpdateComment(r) ==
    /\ At(r, "write")
    /\ req[r].item \in Comments
    /\ UpdateCommentRow(req[r].item, req[r].read)
    /\ Finish(r)
    /\ UNCHANGED <<author, count, likes, marks, Kept>>

(***************************************************************************)
(* DELETE: an item that is read as not deleted is deleted by id, then      *)
(* taken off the counter of the container it was read in.                  *)
(***************************************************************************)
ReadToDelete(r, i) ==
    /\ At(r, "new")
    /\ state[i] # "deleted"
    /\ ReadItem(r, i, "delete", None, "delete")
    /\ UNCHANGED tables

DeletePostRequest(r, p, i) == OwnPost(i, p) /\ ReadToDelete(r, i)
DeleteCommentRequest(r, p, i) == OwnComment(i, p) /\ ReadToDelete(r, i)

DeletePost(r) ==
    /\ At(r, "delete")
    /\ req[r].item \in Posts
    /\ DeletePostRow(req[r].item)
    /\ GoTo(r, "uncount")
    /\ UNCHANGED <<home, author, count, Reacted, Kept>>

DeleteComment(r) ==
    /\ At(r, "delete")
    /\ req[r].item \in Comments
    /\ DeleteCommentRow(req[r].item)
    /\ GoTo(r, "uncount")
    /\ UNCHANGED <<home, author, count, Reacted, Kept>>

(***************************************************************************)
(* A moderator sets the state by id.  The counters are not told, so the    *)
(* request has a fault when the item becomes or ceases to be live.         *)
(***************************************************************************)
Moderate(r, i, s) ==
    /\ At(r, "new")
    /\ state[i] # "absent"
    /\ state' = [state EXCEPT ![i] = s]
    /\ approved' = IF s = "published" THEN approved \union {i} ELSE approved
    /\ req' = [req EXCEPT ![r].op = "moderate", ![r].item = i, ![r].from = home[i],
                          ![r].faults = IF Live(i) = (s # "deleted") THEN {} ELSE {"removal"},
                          ![r].pc = "done"]
    /\ UNCHANGED <<home, author, count, Reacted, stored>>

(***************************************************************************)
(* GET /posts/{postId}, /posts/{postId}/comments/{commentId}: what persona *)
(* p is shown.                                                             *)
(***************************************************************************)
GetPost(i, p) == Live(i) /\ (state[i] = "published" \/ author[i] = p)
GetComment(i, p) == Live(i) /\ (state[i] = "published" \/ author[i] = p)
=============================================================================
