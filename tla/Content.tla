------------------------------- MODULE Content -------------------------------
(***************************************************************************)
(* The content service: requests of authors, readers and moderators on the *)
(* same posts and comments, all interleaved, any of which may stop.        *)
(***************************************************************************)
EXTENDS Posts, Reactions

TypeOK ==
    /\ state \in [Items -> States]
    /\ home \in [Items -> Containers \union {None}]
    /\ author \in [Items -> Personas \union {None}]
    /\ count \in [Containers -> Nat]
    /\ likes \in [Posts -> SUBSET Personas]
    /\ shown \in [Items -> Nat]
    /\ marks \in SUBSET (Personas \X (Posts \union Topics))
    /\ stored \in [Keys -> Posts \union {None}]
    /\ req \in [Requests -> Handler]
    /\ approved \in SUBSET Items
    /\ \A i \in Items : state[i] = "absent" <=> author[i] = None

\* Where an item can be at the start: a post in a topic, a comment on a post.
FirstHomes(i) == IF i \notin Present THEN {None}
                 ELSE IF i \in Posts THEN Topics ELSE Posts \cap Present

(***************************************************************************)
(* The rows at the start are in any state an item that is not deleted can  *)
(* be in, counted in their containers and without reactions.               *)
(***************************************************************************)
Init ==
    /\ state \in {s \in [Items -> States] :
                    \A i \in Items : IF i \in Present
                                     THEN s[i] \in {"pendingReview", "published", "hidden"}
                                     ELSE s[i] = "absent"}
    /\ home \in {h \in [Items -> Containers \union {None}] :
                    \A i \in Items : h[i] \in FirstHomes(i)}
    /\ author \in {a \in [Items -> Personas \union {None}] :
                    \A i \in Items : a[i] = None <=> i \notin Present}
    /\ count = [k \in Containers |-> Cardinality({i \in Items : home[i] = k})]
    /\ likes = [i \in Posts |-> {}]
    /\ shown = [i \in Items |-> 0]
    /\ marks = {}
    /\ stored = [k \in Keys |-> None]
    /\ req = [r \in Requests |-> Blank]
    /\ approved = {i \in Items : state[i] = "published"}

(***************************************************************************)
(* The handler stops and loses what it had still to write.  Elsewhere a    *)
(* stop loses nothing: before its first write a request is as if it had    *)
(* not been made, and before its response is stored as if that failed.     *)
(***************************************************************************)
Stop(r) ==
    /\ CanLose
    /\ req[r].pc \in {"uncount", "count", "write", "tally", "writeTally"}
    /\ req' = [req EXCEPT ![r] = Done([req[r] EXCEPT !.faults = @ \union {"stop"}])]
    /\ UNCHANGED tables

(***************************************************************************)
(* The HTTP handlers: who asks for what.                                   *)
(***************************************************************************)
HandleCreatePost(r) ==
    \E p \in Personas, t \in Topics, k \in Keys : CreatePostRequest(r, p, t, k)
HandleUpdatePost(r) == \E p \in Personas, i \in Posts : UpdatePostRequest(r, p, i)
HandleDeletePost(r) == \E p \in Personas, i \in Posts : DeletePostRequest(r, p, i)
HandleCreateComment(r) == \E p \in Personas, i \in Posts : CreateCommentRequest(r, p, i)
HandleUpdateComment(r) == \E p \in Personas, i \in Comments : UpdateCommentRequest(r, p, i)
HandleDeleteComment(r) == \E p \in Personas, i \in Comments : DeleteCommentRequest(r, p, i)
HandleCreateReaction(r) == \E p \in Personas, i \in Posts : CreateReactionRequest(r, p, i)
HandleDeleteReaction(r) == \E p \in Personas, i \in Posts : DeleteReactionRequest(r, p, i)
HandleCreateSave(r) == \E p \in Personas, i \in Posts : SavePost(r, p, i)
HandleDeleteSave(r) == \E p \in Personas, i \in Posts : UnsavePost(r, p, i)
HandleFollowTopic(r) == \E p \in Personas, t \in Topics : FollowTopic(r, p, t)
HandleUnfollowTopic(r) == \E p \in Personas, t \in Topics : UnfollowTopic(r, p, t)
HandleModeration(r) ==
    \E i \in Items, s \in {"published", "hidden", "deleted"} : Moderate(r, i, s)

Arrive(r) ==
    \/ HandleCreatePost(r) \/ HandleUpdatePost(r) \/ HandleDeletePost(r)
    \/ HandleCreateComment(r) \/ HandleUpdateComment(r) \/ HandleDeleteComment(r)
    \/ HandleCreateReaction(r) \/ HandleDeleteReaction(r)
    \/ HandleCreateSave(r) \/ HandleDeleteSave(r)
    \/ HandleFollowTopic(r) \/ HandleUnfollowTopic(r)
    \/ HandleModeration(r)

GoOn(r) ==
    \/ ReplayResponse(r) \/ CreatePost(r) \/ SaveIdempotencyResponse(r)
    \/ CreateComment(r)
    \/ CountIn(r) \/ CountOut(r)
    \/ UpdatePost(r) \/ UpdateComment(r)
    \/ DeletePost(r) \/ DeleteComment(r)
    \/ CreateReaction(r) \/ CountReactions(r) \/ WriteReactionCounts(r)

Next == \E r \in Requests : Arrive(r) \/ GoOn(r) \/ Stop(r)

Spec == Init /\ [][Next]_vars

-----------------------------------------------------------------------------
Quiet(ops) == \A r \in Requests : req[r].op \in ops => ~InFlight(r)

LiveIn(k) == Cardinality({i \in Items : home[i] = k /\ Live(i)})

Distance(m, n) == IF m >= n THEN m - n ELSE n - m

(***************************************************************************)
(* The counters of topics and posts are kept by deltas in statements of    *)
(* their own (repository.go:335, 512).  Once the writers have finished, a  *)
(* counter is off by at most one for each fault of a request on one of its *)
(* items: a statement lost, another request at work on the same item, or a *)
(* moderator's removal.  Requests on other items never spoil it.           *)
(***************************************************************************)
Touched(i) == UNION {{req[r].from, req[r].to} : r \in {q \in Requests : req[q].item = i}}

FaultsOn(k) == {t \in Requests \X Faults : /\ req[t[1]].op \in Writers
                                            /\ k \in Touched(req[t[1]].item)
                                            /\ t[2] \in req[t[1]].faults}

DriftBounded ==
    Quiet(Writers) =>
        \A k \in Containers : Distance(count[k], LiveIn(k)) <= Cardinality(FaultsOn(k))

(***************************************************************************)
(* RecomputeReactionCounts (repository.go:780) counts in one statement and *)
(* writes in another.  Unless reactions on the post overlapped or stopped, *)
(* the tally it shows is right, whatever edits, deletions and moderation   *)
(* the post went through at the same time.                                 *)
(***************************************************************************)
TallyExact ==
    \A i \in Posts :
        (\A r \in Requests : req[r].op = "like" /\ req[r].item = i =>
                                 ~InFlight(r) /\ req[r].faults = {})
            => shown[i] = Cardinality(likes[i])

(***************************************************************************)
(* Moderation first: an item is shown to others than its author only after *)
(* a moderator has published it, although an edit writes back the state it *)
(* had read (service.go:318, repository.go:411).                           *)
(***************************************************************************)
ShownOnlyIfApproved ==
    \A i \in Items, p \in Personas :
        GetPost(i, p) \/ GetComment(i, p) => author[i] = p \/ i \in approved

(***************************************************************************)
(* UpdatePost and UpdateComment write by id, whatever happened since they  *)
(* read: what was hidden or deleted meanwhile comes back.  It comes back   *)
(* in no other way than by such an edit, in the state the edit had read,   *)
(* or by a moderator.                                                      *)
(***************************************************************************)
RestoredByModerator(i) == \E r \in Requests : At(r, "new") /\ req'[r].op = "moderate" /\ req'[r].item = i

ComesBackAsRead ==
    [][\A i \in Items :
          state[i] \in {"hidden", "deleted"} /\ state'[i] \notin {"hidden", "deleted"} =>
              \/ RestoredByModerator(i)
              \/ \E r \in Requests : At(r, "write") /\ req[r].item = i /\ req[r].read = state'[i]]_vars

(***************************************************************************)
(* "Replays with the same key return the cached response without side      *)
(* effects" (domain-model.md:356) holds for a retry made after an answer:  *)
(* when a key has been answered with 201, no request that looks it up      *)
(* later makes another post, unless its lookup fails.  Requests that       *)
(* overlap, or that retry a 500, do make a second one.                     *)
(***************************************************************************)
AnsweredKeyMakesNoPost ==
    \A r \in Requests : req[r].late /\ ~req[r].blind =>
        req[r].pc = "answer" \/ (req[r].pc = "done" /\ req[r].item = None)

(***************************************************************************)
(* Saving and following answer truly: for each persona and target, the     *)
(* inserts that succeeded and the deletes that succeeded alternate, and    *)
(* the row is there exactly when an insert came last, however many devices *)
(* send them (repository.go:304, 824).                                     *)
(***************************************************************************)
Times(op, p, x) == Cardinality({r \in Requests : req[r].op = op /\ req[r].who = p
                                                 /\ req[r].item = x})

MarksAnswered ==
    \A p \in Personas, x \in Posts \union Topics :
        Times("mark", p, x) = Times("unmark", p, x) + (IF <<p, x>> \in marks THEN 1 ELSE 0)
=============================================================================
