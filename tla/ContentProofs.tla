----------------------------- MODULE ContentProofs -----------------------------
(***************************************************************************)
(* Proofs about Content for any topics, posts, comments, personas, keys    *)
(* and requests.  The first part of the invariant says what a request      *)
(* holds at each of its statements; the others are one for each property.  *)
(***************************************************************************)
EXTENDS Content, FiniteSetTheorems, TLAPS

\* The statements a request of each kind still has before it.
InCourse(h) ==
    \/ h.op = "none" /\ h.pc = "new"
    \/ h.op = "create" /\ h.pc \in {"answer", "insert", "count", "save", "done"}
    \/ h.op = "update" /\ h.pc \in {"uncount", "count", "write", "done"}
    \/ h.op = "delete" /\ h.pc \in {"delete", "uncount", "done"}
    \/ h.op = "like" /\ h.pc \in {"upsert", "tally", "writeTally", "done"}
    \/ h.op \in {"mark", "unmark", "moderate"} /\ h.pc = "done"

\* A request that changes an item has one that exists, in a container.
AtItem == {"uncount", "count", "write", "delete"}

KnowsItem(h) ==
    /\ h.pc \in AtItem => h.item \in Items /\ state[h.item] # "absent"
    /\ h.pc \in {"answer", "insert"} => h.item = None
    /\ h.pc = "save" => h.item \in Posts
    /\ h.pc \in {"upsert", "tally", "writeTally"} => h.item \in Posts

KnowsOrigin(h) ==
    /\ h.op = "none" => h = Blank
    /\ h.pc = "insert" => h.who \in Personas /\ h.faults = {}
    /\ h.pc = "upsert" => h.who \in Personas
    /\ h.pc \in {"answer", "save"} => h.key \in Keys
    /\ h.op = "create" /\ h.pc = "count" /\ h.key # None => h.item \in Posts

\* Whence and where to it takes the item.
KnowsPlaces(h) ==
    /\ h.op = "create" => h.from = None /\ h.to \in Containers
    /\ h.op = "update" => h.from \in Containers /\ h.to \in Containers
    /\ h.op = "delete" => h.from \in Containers /\ h.to = None

\* What an edit will write back: a state it could edit, and published only
\* when a moderator has published it.
KnowsState(h) ==
    h.op = "update" /\ h.pc # "done" =>
        /\ h.read \in {"pendingReview", "published"}
        /\ h.read = "published" => h.item \in approved

Knows(h) ==
    InCourse(h) /\ KnowsItem(h) /\ KnowsOrigin(h) /\ KnowsPlaces(h) /\ KnowsState(h)

HandlersKnow == \A r \in Requests : Knows(req[r])

ItemsAreHoused == \A i \in Items : state[i] # "absent" => home[i] \in Containers

PublishedIsApproved == \A i \in Items : state[i] = "published" => i \in approved

LikesAreFinite == \A i \in Posts : IsFiniteSet(likes[i])

\* What was answered can be looked up.
AnswersAreStored ==
    \A r \in Requests :
        req[r].answered # None => req[r].key \in Keys /\ stored[req[r].key] # None

\* While no request on a post's reactions overlapped or stopped, there is one of
\* them at a time, and the tally it has counted is right.
Likes(i) == {r \in Requests : req[r].op = "like" /\ req[r].item = i}

TallyAt(i) ==
    (\A r \in Likes(i) : req[r].faults = {}) =>
        /\ \A r, q \in Likes(i) : InFlight(r) /\ InFlight(q) => r = q
        /\ \A r \in Likes(i) : At(r, "writeTally") => req[r].seen = Tally(i)
        /\ (\A r \in Likes(i) : ~InFlight(r)) => shown[i] = Tally(i)

TallyInTime == \A i \in Posts : TallyAt(i)

IInv ==
    /\ TypeOK
    /\ HandlersKnow
    /\ ItemsAreHoused
    /\ PublishedIsApproved
    /\ LikesAreFinite
    /\ AnswersAreStored
    /\ AnsweredKeyMakesNoPost
    /\ TallyInTime
    /\ MarksAnswered

-----------------------------------------------------------------------------
(***************************************************************************)
(* One step is a step of one request: r becomes h.                         *)
(***************************************************************************)
Goes(r, h) ==
    /\ req' \in [Requests -> Handler]
    /\ req'[r] = h
    /\ \A q \in Requests \ {r} : req'[q] = req[q]

LEMMA Becomes ==
    ASSUME TypeOK, NEW r \in Requests, NEW h \in Handler, req' = [req EXCEPT ![r] = h]
    PROVE  Goes(r, h)
BY DEF Goes, TypeOK

LEMMA HandlerFields ==
    ASSUME NEW h \in Handler
    PROVE  /\ h.op \in Ops /\ h.who \in Personas \union {None}
           /\ h.pc \in {"new", "insert", "upsert", "uncount", "count", "write", "delete",
                        "tally", "writeTally", "save", "answer", "done"}
           /\ h.item \in Items \union Topics \union {None}
           /\ h.from \in Containers \union {None} /\ h.to \in Containers \union {None}
           /\ h.key \in Keys \union {None} /\ h.read \in States /\ h.seen \in Nat
           /\ h.faults \in SUBSET Faults /\ h.blind \in BOOLEAN /\ h.late \in BOOLEAN
           /\ h.answered \in Posts \union {None}
BY DEF Handler

LEMMA BlankIsTyped == Blank \in Handler
BY DEF Blank, Handler, Ops, States

\* A request that is done keeps what it did and forgets what it held.
LEMMA DoneFields ==
    ASSUME NEW h \in Handler
    PROVE  /\ Done(h) \in Handler
           /\ Done(h).pc = "done" /\ Done(h).who = None
           /\ Done(h).op = h.op /\ Done(h).item = h.item /\ Done(h).from = h.from
           /\ Done(h).to = h.to /\ Done(h).key = h.key /\ Done(h).faults = h.faults
           /\ Done(h).blind = h.blind /\ Done(h).late = h.late
           /\ Done(h).answered = h.answered
BY DEF Done, Handler, States

-----------------------------------------------------------------------------
(***************************************************************************)
(* What one step of one request leaves as it was.                          *)
(***************************************************************************)
TablesOK ==
    /\ state \in [Items -> States]
    /\ home \in [Items -> Containers \union {None}]
    /\ author \in [Items -> Personas \union {None}]
    /\ count \in [Containers -> Nat]
    /\ likes \in [Posts -> SUBSET Personas]
    /\ shown \in [Items -> Nat]
    /\ marks \in SUBSET (Personas \X (Posts \union Topics))
    /\ stored \in [Keys -> Posts \union {None}]
    /\ approved \in SUBSET Items
    /\ \A i \in Items : state[i] = "absent" <=> author[i] = None

Sound == TablesOK /\ ItemsAreHoused /\ PublishedIsApproved /\ LikesAreFinite

LEMMA TablesKept ==
    ASSUME IInv, UNCHANGED tables
    PROVE  Sound'
<1>1. TablesOK'
  BY DEF IInv, TypeOK, TablesOK, tables
<1>2. ItemsAreHoused' /\ PublishedIsApproved' /\ LikesAreFinite'
  BY DEF IInv, ItemsAreHoused, PublishedIsApproved, LikesAreFinite, tables
<1> QED BY <1>1, <1>2 DEF Sound

LEMMA StillKnows ==
    ASSUME NEW h, Knows(h),
           \A i \in Items : state[i] # "absent" => state'[i] # "absent",
           approved \subseteq approved'
    PROVE  Knows(h)'
BY DEF Knows, InCourse, KnowsItem, KnowsOrigin, KnowsPlaces, KnowsState

LEMMA NoTally ==
    ASSUME IInv, NEW r \in Requests, NEW h \in Handler, Goes(r, h),
           req[r].op # "like", h.op # "like", UNCHANGED <<likes, shown>>
    PROVE  TallyInTime'
<1>1. ASSUME NEW i \in Posts
      PROVE  /\ Likes(i)' = Likes(i)
             /\ \A q \in Likes(i) : q \in Requests /\ req'[q] = req[q]
             /\ Tally(i)' = Tally(i)
  BY DEF Likes, Goes, Tally
<1> QED BY <1>1 DEF IInv, TallyInTime, TallyAt, InFlight, At

LEMMA NoMark ==
    ASSUME IInv, NEW r \in Requests, NEW h \in Handler, Goes(r, h),
           req[r].op \notin {"mark", "unmark"}, h.op \notin {"mark", "unmark"},
           UNCHANGED marks
    PROVE  MarksAnswered'
<1>1. ASSUME NEW op \in {"mark", "unmark"}, NEW p, NEW x
      PROVE  Times(op, p, x)' = Times(op, p, x)
  <2>1. \A q \in Requests : (req'[q].op = op /\ req'[q].who = p /\ req'[q].item = x)
                              <=> (req[q].op = op /\ req[q].who = p /\ req[q].item = x)
    BY DEF Goes
  <2> QED BY <2>1 DEF Times
<1> SUFFICES ASSUME NEW p \in Personas, NEW x \in Posts \union Topics
             PROVE  (Times("mark", p, x) = Times("unmark", p, x)
                                           + (IF <<p, x>> \in marks THEN 1 ELSE 0))'
  BY DEF MarksAnswered
<1>2. /\ Times("mark", p, x)' = Times("mark", p, x)
      /\ Times("unmark", p, x)' = Times("unmark", p, x)
  BY <1>1
<1>3. Times("mark", p, x) = Times("unmark", p, x) + (IF <<p, x>> \in marks THEN 1 ELSE 0)
  BY DEF IInv, MarksAnswered
<1> QED BY <1>2, <1>3

\* All that is to be shown of a step that r takes.
LEMMA StepKeeps ==
    ASSUME IInv, NEW r \in Requests, NEW h \in Handler, Goes(r, h), Sound',
           \A i \in Items : state[i] # "absent" => state'[i] # "absent",
           approved \subseteq approved',
           \A k \in Keys : stored[k] # None => stored'[k] # None,
           Knows(h)',
           h.answered # None => h.key \in Keys /\ stored'[h.key] # None,
           h.late /\ ~h.blind => h.pc = "answer" \/ (h.pc = "done" /\ h.item = None),
           TallyInTime', MarksAnswered'
    PROVE  IInv'
<1>1. TypeOK'
  BY DEF Sound, TablesOK, TypeOK, Goes
<1>2. HandlersKnow'
  <2>1. \A q \in Requests \ {r} : Knows(req[q])'
    <3> SUFFICES ASSUME NEW q \in Requests \ {r} PROVE Knows(req[q])'
      OBVIOUS
    <3>1. PICK g : g = req[q]
      OBVIOUS
    <3>2. Knows(g)'
      BY <3>1, StillKnows DEF IInv, HandlersKnow
    <3>3. g = req'[q]
      BY <3>1 DEF Goes
    <3> QED BY <3>2, <3>3 DEF Knows, InCourse, KnowsItem, KnowsOrigin, KnowsPlaces, KnowsState
  <2>2. Knows(req[r])'
    BY DEF Goes, Knows, InCourse, KnowsItem, KnowsOrigin, KnowsPlaces, KnowsState
  <2> QED BY <2>1, <2>2 DEF HandlersKnow
<1>3. AnswersAreStored'
  BY DEF IInv, AnswersAreStored, Goes
<1>4. AnsweredKeyMakesNoPost'
  BY DEF IInv, AnsweredKeyMakesNoPost, Goes
<1> QED BY <1>1, <1>2, <1>3, <1>4 DEF IInv, Sound

\* The same, of a step that changes nothing but requests.
LEMMA TablesKeep ==
    ASSUME IInv, NEW r \in Requests, NEW h \in Handler, Goes(r, h), UNCHANGED tables,
           Knows(h),
           h.answered # None => h.key \in Keys /\ stored[h.key] # None,
           h.late /\ ~h.blind => h.pc = "answer" \/ (h.pc = "done" /\ h.item = None),
           TallyInTime', MarksAnswered'
    PROVE  IInv'
<1>1. Sound'
  BY TablesKept
<1>2. /\ \A i \in Items : state[i] # "absent" => state'[i] # "absent"
      /\ approved \subseteq approved'
      /\ \A k \in Keys : stored[k] # None => stored'[k] # None
      /\ UNCHANGED stored
  BY DEF tables
<1>3. Knows(h)'
  BY <1>2, StillKnows
<1> QED BY <1>1, <1>2, <1>3, StepKeeps

LEMMA NewIsBlank ==
    ASSUME HandlersKnow, NEW r \in Requests, At(r, "new")
    PROVE  req[r] = Blank
BY DEF HandlersKnow, Knows, InCourse, KnowsOrigin, At

-----------------------------------------------------------------------------
(***************************************************************************)
(* Creations.                                                              *)
(***************************************************************************)
LEMMA CreateRequested ==
    ASSUME TypeOK, HandlersKnow, NEW r \in Requests,
           HandleCreatePost(r) \/ HandleCreateComment(r)
    PROVE  \E h \in Handler :
             /\ Goes(r, h) /\ UNCHANGED tables /\ req[r] = Blank
             /\ h.op = "create" /\ h.pc \in {"answer", "insert"}
             /\ h.who \in Personas /\ h.to \in Containers
             /\ h.item = None /\ h.from = None /\ h.faults = {} /\ h.answered = None
             /\ h.pc = "answer" => h.key \in Keys /\ stored[h.key] # None
             /\ h.late => h.key \in Keys /\ Answered(h.key)
             /\ h.pc = "insert" /\ h.key \in Keys => (h.blind <=> stored[h.key] # None)
<1>1. CASE HandleCreatePost(r)
  <2> PICK p \in Personas, t \in Topics, k \in Keys : CreatePostRequest(r, p, t, k)
    BY <1>1 DEF HandleCreatePost
  <2> PICK pc \in {"answer", "insert"} :
        /\ pc = "answer" => StoredResponse(k) # None
        /\ req' = [req EXCEPT ![r].op = "create", ![r].who = p, ![r].to = t, ![r].key = k,
                              ![r].late = Answered(k), ![r].pc = pc,
                              ![r].blind = (pc = "insert" /\ StoredResponse(k) # None)]
    BY DEF CreatePostRequest
  <2>1. UNCHANGED tables /\ req[r] = Blank /\ r \in Requests
    BY NewIsBlank DEF CreatePostRequest
  <2> PICK late \in BOOLEAN : late = Answered(k)
    BY DEF Answered
  <2> PICK blind \in BOOLEAN : blind = (pc = "insert" /\ StoredResponse(k) # None)
    OBVIOUS
  <2> DEFINE g == [Blank EXCEPT !.op = "create", !.who = p, !.to = t, !.key = k, !.pc = pc]
             h == [g EXCEPT !.late = late, !.blind = blind]
  <2>2. h \in Handler
    <3>1. g \in Handler
      BY BlankIsTyped DEF Handler, Ops, Containers
    <3>2. ASSUME NEW f \in Handler, NEW b \in BOOLEAN, NEW c \in BOOLEAN
          PROVE  [f EXCEPT !.late = b, !.blind = c] \in Handler
      BY DEF Handler
    <3> HIDE DEF g
    <3> QED BY <3>1, <3>2
  <2>3. /\ h.op = "create" /\ h.pc = pc /\ h.who = p /\ h.to = t /\ h.key = k
        /\ h.late = late /\ h.blind = blind /\ h.item = None /\ h.from = None
        /\ h.faults = {} /\ h.answered = None
    BY DEF Blank
  <2>4. req' = [req EXCEPT ![r] = h]
    BY <2>1 DEF TypeOK
  <2> HIDE DEF h
  <2>5. Goes(r, h)
    BY <2>2, <2>4, Becomes
  <2> QED BY <2>1, <2>2, <2>3, <2>5 DEF StoredResponse, Containers
<1>2. CASE HandleCreateComment(r)
  <2> PICK p \in Personas, i \in Posts : CreateCommentRequest(r, p, i)
    BY <1>2 DEF HandleCreateComment
  <2>1. UNCHANGED tables /\ req[r] = Blank
    BY NewIsBlank DEF CreateCommentRequest
  <2> DEFINE h == [Blank EXCEPT !.op = "create", !.who = p, !.to = i, !.pc = "insert"]
  <2>2. h \in Handler
    BY BlankIsTyped DEF Handler, Ops, Containers
  <2>3. /\ h.op = "create" /\ h.pc = "insert" /\ h.who = p /\ h.to = i /\ h.key = None
        /\ h.late = FALSE /\ h.blind = FALSE /\ h.item = None /\ h.from = None
        /\ h.faults = {} /\ h.answered = None
    BY DEF Blank
  <2>4. req' = [req EXCEPT ![r] = h]
    BY <2>1 DEF TypeOK, CreateCommentRequest
  <2> HIDE DEF h
  <2>5. Goes(r, h)
    BY <2>2, <2>4, Becomes
  <2>6. None \notin Keys
    BY ContentAssumption
  <2> QED BY <2>1, <2>2, <2>3, <2>5, <2>6 DEF Containers
<1> QED BY <1>1, <1>2

LEMMA InvCreateRequested ==
    ASSUME IInv, NEW r \in Requests, HandleCreatePost(r) \/ HandleCreateComment(r)
    PROVE  IInv'
<1> PICK h \in Handler :
             /\ Goes(r, h) /\ UNCHANGED tables /\ req[r] = Blank
             /\ h.op = "create" /\ h.pc \in {"answer", "insert"}
             /\ h.who \in Personas /\ h.to \in Containers
             /\ h.item = None /\ h.from = None /\ h.faults = {} /\ h.answered = None
             /\ h.pc = "answer" => h.key \in Keys /\ stored[h.key] # None
             /\ h.late => h.key \in Keys /\ Answered(h.key)
             /\ h.pc = "insert" /\ h.key \in Keys => (h.blind <=> stored[h.key] # None)
  BY CreateRequested DEF IInv
<1>1. Knows(h)
  BY DEF Knows, InCourse, KnowsItem, KnowsOrigin, KnowsPlaces, KnowsState, AtItem
<1>2. ASSUME h.late, ~h.blind PROVE h.pc = "answer"
  <2>1. stored[h.key] # None
    BY <1>2 DEF Answered, IInv, AnswersAreStored
  <2> QED BY <1>2, <2>1
<1>3. TallyInTime' /\ MarksAnswered'
  BY NoTally, NoMark DEF Blank, tables
<1> QED BY <1>1, <1>2, <1>3, TablesKeep

\* The request goes on: what it was asked for is the same.
Same(g, h) ==
    /\ h.op = g.op /\ h.from = g.from /\ h.to = g.to /\ h.key = g.key
    /\ h.blind = g.blind /\ h.late = g.late

LEMMA HandlerKnows ==
    ASSUME IInv, NEW r \in Requests
    PROVE  req[r] \in Handler /\ Knows(req[r])
BY DEF IInv, TypeOK, HandlersKnow

LEMMA SamePlaces ==
    ASSUME IInv, NEW r \in Requests, NEW h, Same(req[r], h)
    PROVE  KnowsPlaces(h)
BY HandlerKnows DEF Knows, KnowsPlaces, Same

LEMMA AnsweredFields ==
    ASSUME NEW g \in Handler, NEW a \in Posts \union {None}
    PROVE  LET h == Done([g EXCEPT !.answered = a])
           IN  /\ h \in Handler /\ Same(g, h) /\ h.pc = "done" /\ h.item = g.item
               /\ h.faults = g.faults /\ h.answered = a
<1> DEFINE f == [g EXCEPT !.answered = a]
<1>1. /\ f \in Handler /\ Same(g, f) /\ f.item = g.item /\ f.faults = g.faults
      /\ f.answered = a
  BY DEF Handler, Same
<1> HIDE DEF f
<1>2. /\ Done(f) \in Handler /\ Same(g, Done(f)) /\ Done(f).pc = "done" /\ Done(f).item = g.item
      /\ Done(f).faults = g.faults /\ Done(f).answered = a
  BY <1>1, DoneFields DEF Same
<1> QED BY <1>2 DEF f

LEMMA Replayed ==
    ASSUME IInv, NEW r \in Requests, ReplayResponse(r)
    PROVE  \E h \in Handler :
             /\ Goes(r, h) /\ UNCHANGED tables /\ At(r, "answer") /\ Same(req[r], h)
             /\ h.pc = "done" /\ h.item = None /\ h.faults = req[r].faults
             /\ h.key \in Keys /\ h.answered = stored[h.key]
<1> DEFINE g == req[r]
<1>1. /\ g \in Handler /\ At(r, "answer") /\ UNCHANGED tables
      /\ g.item = None /\ g.key \in Keys
  BY HandlerKnows DEF ReplayResponse, At, Knows, KnowsItem, KnowsOrigin
<1> PICK a \in Posts \union {None} : a = stored[g.key]
  BY <1>1 DEF IInv, TypeOK
<1> DEFINE h == Done([g EXCEPT !.answered = a])
<1>2. req' = [req EXCEPT ![r] = h]
  BY DEF ReplayResponse, StoredResponse, IInv, TypeOK
<1>3. /\ h \in Handler /\ Same(g, h) /\ h.pc = "done" /\ h.item = g.item
      /\ h.faults = g.faults /\ h.answered = a
  BY <1>1, AnsweredFields
<1> HIDE DEF h
<1>4. Goes(r, h)
  BY <1>2, <1>3, Becomes DEF IInv
<1> QED BY <1>1, <1>3, <1>4 DEF Same

LEMMA InvReplayed ==
    ASSUME IInv, NEW r \in Requests, ReplayResponse(r)
    PROVE  IInv'
<1> PICK h \in Handler :
             /\ Goes(r, h) /\ UNCHANGED tables /\ At(r, "answer") /\ Same(req[r], h)
             /\ h.pc = "done" /\ h.item = None /\ h.faults = req[r].faults
             /\ h.key \in Keys /\ h.answered = stored[h.key]
  BY Replayed
<1>1. req[r].op = "create" /\ h.op = "create"
  BY HandlerKnows DEF At, Knows, InCourse, Same
<1>2. Knows(h)
  BY <1>1, SamePlaces
     DEF Knows, InCourse, KnowsItem, KnowsOrigin, KnowsPlaces, KnowsState, AtItem
<1>3. TallyInTime' /\ MarksAnswered'
  BY <1>1, NoTally, NoMark DEF tables
<1> QED BY <1>2, <1>3, TablesKeep

LEMMA Saved ==
    ASSUME IInv, NEW r \in Requests, SaveIdempotencyResponse(r)
    PROVE  \E h \in Handler :
             /\ Goes(r, h) /\ At(r, "save") /\ Same(req[r], h)
             /\ UNCHANGED <<state, home, author, count, likes, shown, marks, approved>>
             /\ h.pc = "done" /\ h.item = req[r].item /\ h.item \in Posts /\ h.key \in Keys
             /\ h.faults = req[r].faults
             /\ \/ stored' = [stored EXCEPT ![h.key] = h.item]
                \/ stored' = stored /\ h.answered = req[r].answered
<1> DEFINE g == req[r]
<1>1. /\ g \in Handler /\ At(r, "save") /\ g.item \in Posts /\ g.key \in Keys
      /\ UNCHANGED <<state, home, author, count, likes, shown, marks, approved>>
  BY HandlerKnows DEF SaveIdempotencyResponse, At, Knows, KnowsItem, KnowsOrigin, Rows, Reacted
<1>2. CASE /\ StoreResponse(g.key, g.item)
           /\ req' = [req EXCEPT ![r] = Done([@ EXCEPT !.answered = g.item])]
  <2> DEFINE h == Done([g EXCEPT !.answered = g.item])
  <2>1. req' = [req EXCEPT ![r] = h]
    BY <1>2 DEF IInv, TypeOK
  <2>2. /\ h \in Handler /\ Same(g, h) /\ h.pc = "done" /\ h.item = g.item
        /\ h.faults = g.faults
    BY <1>1, AnsweredFields
  <2> HIDE DEF h
  <2>3. Goes(r, h)
    BY <2>1, <2>2, Becomes DEF IInv
  <2> QED BY <1>1, <1>2, <2>2, <2>3 DEF Same, StoreResponse
<1>3. CASE Finish(r) /\ UNCHANGED stored
  <2> DEFINE h == Done(g)
  <2>1. req' = [req EXCEPT ![r] = h]
    BY <1>3 DEF IInv, TypeOK, Finish
  <2>2. /\ h \in Handler /\ Same(g, h) /\ h.pc = "done" /\ h.item = g.item
        /\ h.faults = g.faults /\ h.answered = g.answered
    BY <1>1, DoneFields DEF Same
  <2> HIDE DEF h
  <2>3. Goes(r, h)
    BY <2>1, <2>2, Becomes DEF IInv
  <2> QED BY <1>1, <1>3, <2>2, <2>3 DEF Same
<1> QED BY <1>2, <1>3 DEF SaveIdempotencyResponse

LEMMA InvSaved ==
    ASSUME IInv, NEW r \in Requests, SaveIdempotencyResponse(r)
    PROVE  IInv'
<1> PICK h \in Handler :
             /\ Goes(r, h) /\ At(r, "save") /\ Same(req[r], h)
             /\ UNCHANGED <<state, home, author, count, likes, shown, marks, approved>>
             /\ h.pc = "done" /\ h.item = req[r].item /\ h.item \in Posts /\ h.key \in Keys
             /\ h.faults = req[r].faults
             /\ \/ stored' = [stored EXCEPT ![h.key] = h.item]
                \/ stored' = stored /\ h.answered = req[r].answered
  BY Saved
<1>1. req[r].op = "create" /\ h.op = "create" /\ req[r].pc = "save"
  BY HandlerKnows DEF At, Knows, InCourse, Same
<1>2. Knows(h)'
  BY <1>1, SamePlaces
     DEF Knows, InCourse, KnowsItem, KnowsOrigin, KnowsPlaces, KnowsState, AtItem
<1>3. TallyInTime' /\ MarksAnswered'
  BY <1>1, NoTally, NoMark
<1>4. None \notin Posts
  BY ContentAssumption DEF Containers
<1>5. stored' \in [Keys -> Posts \union {None}]
  BY DEF IInv, TypeOK
<1>6. Sound'
  <2>1. TablesOK'
    BY <1>5 DEF IInv, TypeOK, TablesOK
  <2>2. ItemsAreHoused' /\ PublishedIsApproved' /\ LikesAreFinite'
    BY DEF IInv, ItemsAreHoused, PublishedIsApproved, LikesAreFinite
  <2> QED BY <2>1, <2>2 DEF Sound
<1>7. /\ \A k \in Keys : stored[k] # None => stored'[k] # None
      /\ h.answered # None => stored'[h.key] # None
  <2>1. CASE stored' = [stored EXCEPT ![h.key] = h.item]
    BY <1>4, <2>1 DEF IInv, TypeOK
  <2>2. CASE stored' = stored /\ h.answered = req[r].answered
    BY <2>2 DEF IInv, AnswersAreStored, Same
  <2> QED BY <2>1, <2>2
\* A request whose key had been answered does not come here.
<1>8. ~(h.late /\ ~h.blind)
  BY <1>1 DEF IInv, AnsweredKeyMakesNoPost, Same
<1> QED BY <1>2, <1>3, <1>6, <1>7, <1>8, StepKeeps

\* A new row: the item was absent, and nothing refers to it yet.
LEMMA Inserted ==
    ASSUME IInv, NEW r \in Requests, CreatePost(r) \/ CreateComment(r)
    PROVE  \E h \in Handler, i \in Items :
             /\ Goes(r, h) /\ At(r, "insert") /\ Same(req[r], h)
             /\ h.pc = "count" /\ h.item = i /\ h.faults = {} /\ h.answered = req[r].answered
             /\ h.to \in Containers /\ (h.key # None => i \in Posts)
             /\ state[i] = "absent" /\ state' = [state EXCEPT ![i] = "pendingReview"]
             /\ home' = [home EXCEPT ![i] = h.to]
             /\ req[r].who \in Personas /\ author' = [author EXCEPT ![i] = req[r].who]
             /\ UNCHANGED <<count, likes, shown, marks, stored, approved>>
<1> DEFINE g == req[r]
<1>1. /\ g \in Handler /\ At(r, "insert")
      /\ g.who \in Personas /\ g.to \in Containers /\ g.faults = {}
      /\ UNCHANGED <<count, likes, shown, marks, stored, approved>>
  BY HandlerKnows
     DEF CreatePost, CreateComment, At, Knows, InCourse, KnowsOrigin, KnowsPlaces, Reacted, Kept
<1>2. PICK i \in Items :
        /\ g.key # None => i \in Posts
        /\ InsertPost(i, g.to, g.who)
        /\ req' = [req EXCEPT ![r].item = i, ![r].pc = "count"]
  BY DEF CreatePost, CreateComment, InsertComment, Items
<1> DEFINE h == [g EXCEPT !.item = i, !.pc = "count"]
<1>3. /\ h \in Handler /\ Same(g, h) /\ h.pc = "count" /\ h.item = i
      /\ h.faults = g.faults /\ h.answered = g.answered
  BY <1>1 DEF Handler, Same
<1>4. req' = [req EXCEPT ![r] = h]
  BY <1>2 DEF IInv, TypeOK
<1> HIDE DEF h
<1>5. Goes(r, h)
  BY <1>3, <1>4, Becomes DEF IInv
<1> QED BY <1>1, <1>2, <1>3, <1>5 DEF Same, InsertPost

LEMMA InvInserted ==
    ASSUME IInv, NEW r \in Requests, CreatePost(r) \/ CreateComment(r)
    PROVE  IInv'
<1> PICK h \in Handler, i \in Items :
             /\ Goes(r, h) /\ At(r, "insert") /\ Same(req[r], h)
             /\ h.pc = "count" /\ h.item = i /\ h.faults = {} /\ h.answered = req[r].answered
             /\ h.to \in Containers /\ (h.key # None => i \in Posts)
             /\ state[i] = "absent" /\ state' = [state EXCEPT ![i] = "pendingReview"]
             /\ home' = [home EXCEPT ![i] = h.to]
             /\ req[r].who \in Personas /\ author' = [author EXCEPT ![i] = req[r].who]
             /\ UNCHANGED <<count, likes, shown, marks, stored, approved>>
  BY Inserted
<1>1. req[r].op = "create" /\ h.op = "create" /\ req[r].pc = "insert"
  BY HandlerKnows DEF At, Knows, InCourse, Same
<1>2. TablesOK
  BY DEF IInv, TypeOK, TablesOK
<1>3. \A j \in Items : /\ state'[j] = IF j = i THEN "pendingReview" ELSE state[j]
                       /\ home'[j] = IF j = i THEN h.to ELSE home[j]
                       /\ author'[j] = IF j = i THEN req[r].who ELSE author[j]
  BY <1>2 DEF TablesOK
<1>4. Knows(h)'
  BY <1>1, <1>3, SamePlaces
     DEF Knows, InCourse, KnowsItem, KnowsOrigin, KnowsPlaces, KnowsState, AtItem
<1>5. TallyInTime' /\ MarksAnswered'
  BY <1>1, NoTally, NoMark
<1>6. TablesOK'
  <2>1. None \notin Personas /\ "pendingReview" \in States
    BY ContentAssumption DEF States
  <2> QED BY <1>2, <1>3, <2>1 DEF TablesOK
<1>7. ItemsAreHoused' /\ PublishedIsApproved' /\ LikesAreFinite'
  BY <1>3 DEF IInv, ItemsAreHoused, PublishedIsApproved, LikesAreFinite
<1>8. ~(h.late /\ ~h.blind)
  BY <1>1 DEF IInv, AnsweredKeyMakesNoPost, Same
<1>9. h.answered # None => h.key \in Keys /\ stored'[h.key] # None
  BY DEF IInv, AnswersAreStored, Same
<1>10. \A j \in Items : state[j] # "absent" => state'[j] # "absent"
  BY <1>3
<1> QED BY <1>4, <1>5, <1>6, <1>7, <1>8, <1>9, <1>10, StepKeeps DEF Sound

-----------------------------------------------------------------------------
(***************************************************************************)
(* Edits and deletions: a read, the counters, the row.                     *)
(***************************************************************************)
OverlapOf(op, i) == IF Busy(op, i) THEN {"overlap"} ELSE {}

LEMMA ItemRead ==
    ASSUME IInv, NEW r \in Requests, NEW i \in Items, NEW op \in {"update", "delete"},
           NEW k \in Containers \union {None}, NEW pc \in {"uncount", "write", "delete"},
           At(r, "new"), ReadItem(r, i, op, k, pc)
    PROVE  \E h \in Handler :
             /\ Goes(r, h) /\ req[r] = Blank
             /\ h.op = op /\ h.pc = pc /\ h.item = i /\ h.from = home[i] /\ h.to = k
             /\ h.read = state[i] /\ h.key = None /\ h.answered = None /\ ~h.late
             /\ h.faults = OverlapOf(op, i)
<1>1. req[r] = Blank
  BY NewIsBlank DEF IInv
<1> PICK f \in SUBSET Faults : f = OverlapOf(op, i)
  BY DEF Faults, OverlapOf
<1>2. /\ author[i] \in Personas \union {None} /\ home[i] \in Containers \union {None}
      /\ state[i] \in States /\ shown[i] \in Nat
  BY DEF IInv, TypeOK
<1> PICK p \in Personas \union {None}, l \in Containers \union {None}, s \in States, n \in Nat :
        p = author[i] /\ l = home[i] /\ s = state[i] /\ n = shown[i]
  BY <1>2
<1> DEFINE g == [Blank EXCEPT !.op = op, !.item = i, !.who = p, !.from = l, !.to = k]
           h == [g EXCEPT !.read = s, !.seen = n, !.faults = f, !.pc = pc]
<1>3. h \in Handler
  <2>1. g \in Handler
    BY BlankIsTyped DEF Handler, Ops
  <2>2. ASSUME NEW e \in Handler, NEW x \in States, NEW m \in Nat, NEW d \in SUBSET Faults,
               NEW z \in {"uncount", "write", "delete"}
        PROVE  [e EXCEPT !.read = x, !.seen = m, !.faults = d, !.pc = z] \in Handler
    BY DEF Handler
  <2> HIDE DEF g
  <2> QED BY <2>1, <2>2
<1>4. /\ h.op = op /\ h.pc = pc /\ h.item = i /\ h.from = l /\ h.to = k
      /\ h.read = s /\ h.key = None /\ h.answered = None /\ ~h.late
      /\ h.faults = f
  BY DEF Blank
<1>5. req' = [req EXCEPT ![r] = h]
  BY <1>1 DEF ReadItem, OverlapOf, IInv, TypeOK
<1> HIDE DEF h
<1>6. Goes(r, h)
  BY <1>3, <1>5, Becomes DEF IInv
<1> QED BY <1>1, <1>3, <1>4, <1>6

LEMMA EditRequested ==
    ASSUME IInv, NEW r \in Requests,
           \/ HandleUpdatePost(r) \/ HandleUpdateComment(r)
           \/ HandleDeletePost(r) \/ HandleDeleteComment(r)
    PROVE  \E h \in Handler, i \in Items :
             /\ Goes(r, h) /\ UNCHANGED tables /\ req[r] = Blank
             /\ h.item = i /\ h.from = home[i] /\ state[i] \notin {"absent", "deleted"}
             /\ \/ h.op = "update" /\ h.pc = "write" /\ h.to = home[i]
                \/ h.op = "update" /\ h.pc = "uncount" /\ i \in Posts /\ h.to \in Topics
                \/ h.op = "delete" /\ h.pc = "delete" /\ h.to = None
             /\ h.op = "update" => state[i] \in {"published", "pendingReview"}
             /\ h.read = state[i] /\ h.key = None /\ h.answered = None /\ ~h.late
             /\ h.faults = OverlapOf(h.op, i)
<1>1. ASSUME NEW i \in Items, Editable(i), At(r, "new"), UNCHANGED tables,
             \/ ReadItem(r, i, "update", home[i], "write")
             \/ i \in Posts /\ \E t \in Topics : ReadItem(r, i, "update", t, "uncount")
      PROVE  \E h \in Handler :
             /\ Goes(r, h) /\ UNCHANGED tables /\ req[r] = Blank
             /\ h.item = i /\ h.from = home[i] /\ state[i] \in {"published", "pendingReview"}
             /\ \/ h.op = "update" /\ h.pc = "write" /\ h.to = home[i]
                \/ h.op = "update" /\ h.pc = "uncount" /\ i \in Posts /\ h.to \in Topics
             /\ h.read = state[i] /\ h.key = None /\ h.answered = None /\ ~h.late
             /\ h.faults = OverlapOf(h.op, i)
  <2>1. state[i] \in {"published", "pendingReview"} /\ home[i] \in Containers
    BY <1>1 DEF Editable, IInv, ItemsAreHoused
  <2>2. CASE ReadItem(r, i, "update", home[i], "write")
    <3>1. PICK k \in Containers : k = home[i]
      BY <2>1
    <3>2. PICK h \in Handler :
             /\ Goes(r, h) /\ req[r] = Blank
             /\ h.op = "update" /\ h.pc = "write" /\ h.item = i /\ h.from = home[i] /\ h.to = k
             /\ h.read = state[i] /\ h.key = None /\ h.answered = None /\ ~h.late
             /\ h.faults = OverlapOf("update", i)
      BY <1>1, <2>2, <3>1, ItemRead
    <3> QED BY <1>1, <2>1, <3>1, <3>2
  <2>3. CASE i \in Posts /\ \E t \in Topics : ReadItem(r, i, "update", t, "uncount")
    <3>1. PICK t \in Topics : ReadItem(r, i, "update", t, "uncount")
      BY <2>3
    <3>2. PICK h \in Handler :
             /\ Goes(r, h) /\ req[r] = Blank
             /\ h.op = "update" /\ h.pc = "uncount" /\ h.item = i
             /\ h.from = home[i] /\ h.to = t
             /\ h.read = state[i] /\ h.key = None /\ h.answered = None /\ ~h.late
             /\ h.faults = OverlapOf("update", i)
      BY <1>1, <3>1, ItemRead DEF Containers
    <3> QED BY <1>1, <2>1, <2>3, <3>2
  <2> QED BY <1>1, <2>2, <2>3
<1>2. ASSUME NEW i \in Items, state[i] # "absent", ReadToDelete(r, i)
      PROVE  \E h \in Handler :
             /\ Goes(r, h) /\ UNCHANGED tables /\ req[r] = Blank
             /\ h.item = i /\ h.from = home[i] /\ state[i] \notin {"absent", "deleted"}
             /\ h.op = "delete" /\ h.pc = "delete" /\ h.to = None
             /\ h.read = state[i] /\ h.key = None /\ h.answered = None /\ ~h.late
             /\ h.faults = OverlapOf(h.op, i)
  <2>1. At(r, "new") /\ ReadItem(r, i, "delete", None, "delete") /\ UNCHANGED tables
        /\ state[i] # "deleted"
    BY <1>2 DEF ReadToDelete
  <2>2. PICK h \in Handler :
             /\ Goes(r, h) /\ req[r] = Blank
             /\ h.op = "delete" /\ h.pc = "delete" /\ h.item = i
             /\ h.from = home[i] /\ h.to = None
             /\ h.read = state[i] /\ h.key = None /\ h.answered = None /\ ~h.late
             /\ h.faults = OverlapOf("delete", i)
    BY <2>1, ItemRead
  <2> QED BY <1>2, <2>1, <2>2
<1>3. CASE HandleUpdatePost(r)
  <2> PICK p \in Personas, i \in Posts : UpdatePostRequest(r, p, i)
    BY <1>3 DEF HandleUpdatePost
  <2>1. i \in Items
    BY DEF Items
  <2>2. /\ Editable(i) /\ At(r, "new") /\ UNCHANGED tables
        /\ \/ ReadItem(r, i, "update", home[i], "write")
           \/ i \in Posts /\ \E t \in Topics : ReadItem(r, i, "update", t, "uncount")
    BY DEF UpdatePostRequest
  <2> QED BY <1>1, <2>1, <2>2
<1>4. CASE HandleUpdateComment(r)
  <2> PICK p \in Personas, i \in Comments : UpdateCommentRequest(r, p, i)
    BY <1>4 DEF HandleUpdateComment
  <2>1. i \in Items
    BY DEF Items
  <2>2. /\ Editable(i) /\ At(r, "new") /\ UNCHANGED tables
        /\ ReadItem(r, i, "update", home[i], "write")
    BY DEF UpdateCommentRequest
  <2> QED BY <1>1, <2>1, <2>2
<1>5. CASE HandleDeletePost(r)
  <2> PICK p \in Personas, i \in Posts : DeletePostRequest(r, p, i)
    BY <1>5 DEF HandleDeletePost
  <2>1. i \in Items /\ state[i] # "absent" /\ ReadToDelete(r, i)
    BY DEF Items, DeletePostRequest, OwnPost
  <2> QED BY <1>2, <2>1
<1>6. CASE HandleDeleteComment(r)
  <2> PICK p \in Personas, i \in Comments : DeleteCommentRequest(r, p, i)
    BY <1>6 DEF HandleDeleteComment
  <2>1. i \in Items /\ state[i] # "absent" /\ ReadToDelete(r, i)
    BY DEF Items, DeleteCommentRequest, OwnComment
  <2> QED BY <1>2, <2>1
<1> QED BY <1>3, <1>4, <1>5, <1>6

LEMMA InvEditRequested ==
    ASSUME IInv, NEW r \in Requests,
           \/ HandleUpdatePost(r) \/ HandleUpdateComment(r)
           \/ HandleDeletePost(r) \/ HandleDeleteComment(r)
    PROVE  IInv'
<1> PICK h \in Handler, i \in Items :
             /\ Goes(r, h) /\ UNCHANGED tables /\ req[r] = Blank
             /\ h.item = i /\ h.from = home[i] /\ state[i] \notin {"absent", "deleted"}
             /\ \/ h.op = "update" /\ h.pc = "write" /\ h.to = home[i]
                \/ h.op = "update" /\ h.pc = "uncount" /\ i \in Posts /\ h.to \in Topics
                \/ h.op = "delete" /\ h.pc = "delete" /\ h.to = None
             /\ h.op = "update" => state[i] \in {"published", "pendingReview"}
             /\ h.read = state[i] /\ h.key = None /\ h.answered = None /\ ~h.late
             /\ h.faults = OverlapOf(h.op, i)
  BY EditRequested
<1>1. Knows(h)
  <2>1. h.from \in Containers
    BY DEF IInv, ItemsAreHoused
  <2>2. Topics \subseteq Containers
    BY DEF Containers
  <2> QED BY <2>1, <2>2
          DEF Knows, InCourse, KnowsItem, KnowsOrigin, KnowsPlaces, KnowsState, AtItem, IInv,
              PublishedIsApproved
<1>2. TallyInTime' /\ MarksAnswered'
  BY NoTally, NoMark DEF Blank, tables
<1> QED BY <1>1, <1>2, TablesKeep

LEMMA NextAfterCount ==
    ASSUME NEW r
    PROVE  /\ req[r].op = "update" => AfterCount(r) = "write" /\ AfterUncount(r) = "count"
           /\ req[r].op # "update" => AfterUncount(r) = "done"
           /\ req[r].op = "create" /\ req[r].key # None => AfterCount(r) = "save"
           /\ req[r].op = "create" /\ req[r].key = None => AfterCount(r) = "done"
<1>1. AfterUncount(r) = IF req[r].op = "update" THEN "count" ELSE "done"
  BY DEF AfterUncount
<1>2. ASSUME req[r].op = "update" PROVE AfterCount(r) = "write"
  <2>1. req[r].op # "create"
    BY <1>2
  <2> QED BY <1>2, <2>1, Zenon DEF AfterCount
<1>3. ASSUME req[r].op = "create", req[r].key # None PROVE AfterCount(r) = "save"
  <2>1. req[r].op # "update"
    BY <1>3
  <2> QED BY <1>3, <2>1, Zenon DEF AfterCount
<1>4. ASSUME req[r].op = "create", req[r].key = None PROVE AfterCount(r) = "done"
  <2>1. req[r].op # "update"
    BY <1>4
  <2> QED BY <1>4, <2>1, Zenon DEF AfterCount
<1> QED BY <1>1, <1>2, <1>3, <1>4

\* A counter changes, or its update is lost; then the request goes on.
LEMMA CountChanged ==
    ASSUME IInv, NEW r \in Requests, NEW k, NEW delta,
           NEW next \in {"write", "save", "count", "done"},
           At(r, "count") \/ At(r, "uncount"), ChangeCount(r, k, delta, next)
    PROVE  \E h \in Handler :
             /\ Goes(r, h) /\ Same(req[r], h) /\ h.pc = next /\ h.item = req[r].item
             /\ h.answered = req[r].answered /\ (next # "done" => h.read = req[r].read)
             /\ UNCHANGED <<state, home, author, likes, shown, marks, stored, approved>>
             /\ \/ /\ count' = [count EXCEPT ![k] = Plus(@, delta)]
                   /\ h.faults = req[r].faults
                \/ count' = count /\ h.faults = req[r].faults \union {req[r].pc}
<1>1. req[r] \in Handler
  BY HandlerKnows
<1>2. PICK g \in Handler :
        /\ Same(req[r], g) /\ g.item = req[r].item /\ g.answered = req[r].answered
        /\ g.read = req[r].read /\ Advance(r, g, next)
        /\ \/ /\ count' = [count EXCEPT ![k] = Plus(@, delta)]
              /\ g.faults = req[r].faults
           \/ count' = count /\ g.faults = req[r].faults \union {req[r].pc}
  <2>1. CASE Increment(k, delta) /\ Advance(r, req[r], next)
    BY <1>1, <2>1 DEF Increment, IncrementTopicNoteCount, IncrementPostReplyCount, Same
  <2>2. CASE Advance(r, [req[r] EXCEPT !.faults = @ \union {req[r].pc}], next)
             /\ UNCHANGED count
    <3>1. req[r].faults \union {req[r].pc} \in SUBSET Faults
      BY <1>1 DEF At, Handler, Faults
    <3>2. PICK f \in SUBSET Faults : f = req[r].faults \union {req[r].pc}
      BY <3>1
    <3> DEFINE g == [req[r] EXCEPT !.faults = f]
    <3>3. /\ g \in Handler /\ Same(req[r], g) /\ g.item = req[r].item
          /\ g.answered = req[r].answered /\ g.read = req[r].read /\ g.faults = f
      BY <1>1 DEF Handler, Same
    <3>4. Advance(r, g, next)
      BY <2>2, <3>2
    <3> HIDE DEF g
    <3> QED BY <2>2, <3>2, <3>3, <3>4
  <2> QED BY <2>1, <2>2 DEF ChangeCount
<1>3. PICK h \in Handler :
        /\ req' = [req EXCEPT ![r] = h]
        /\ Same(g, h) /\ h.pc = next /\ h.item = g.item /\ h.faults = g.faults
        /\ h.answered = g.answered /\ (next # "done" => h.read = g.read)
  <2>1. CASE next = "done"
    <3>1. req' = [req EXCEPT ![r] = Done(g)]
      BY <1>2, <2>1 DEF Advance
    <3> QED BY <2>1, <3>1, DoneFields DEF Same
  <2>2. CASE next # "done"
    <3> DEFINE h == [g EXCEPT !.pc = next]
    <3>1. req' = [req EXCEPT ![r] = h]
      BY <1>2, <2>2 DEF Advance
    <3>2. /\ h \in Handler /\ Same(g, h) /\ h.pc = next /\ h.item = g.item
          /\ h.faults = g.faults /\ h.answered = g.answered /\ h.read = g.read
      BY DEF Handler, Same
    <3> HIDE DEF h
    <3> QED BY <3>1, <3>2
  <2> QED BY <2>1, <2>2
<1>4. Goes(r, h)
  BY <1>3, Becomes DEF IInv
<1>5. UNCHANGED <<state, home, author, likes, shown, marks, stored, approved>>
  BY DEF ChangeCount, Rows, Reacted, Kept
<1> QED BY <1>2, <1>3, <1>4, <1>5 DEF Same

LEMMA CountedIn ==
    ASSUME IInv, NEW r \in Requests, CountIn(r)
    PROVE  \E h \in Handler :
             /\ Goes(r, h) /\ Same(req[r], h) /\ At(r, "count") /\ h.item = req[r].item
             /\ h.answered = req[r].answered /\ (h.pc # "done" => h.read = req[r].read)
             /\ \/ h.op = "update" /\ h.pc = "write"
                \/ h.op = "create" /\ h.pc = "save" /\ h.key \in Keys
                \/ h.op = "create" /\ h.pc = "done"
             /\ UNCHANGED <<state, home, author, likes, shown, marks, stored, approved>>
             /\ \/ /\ count' = [count EXCEPT ![h.to] = Plus(@, 1)]
                   /\ h.faults = req[r].faults
                \/ count' = count /\ h.faults = req[r].faults \union {"count"}
<1>1. /\ At(r, "count") /\ ChangeCount(r, req[r].to, 1, AfterCount(r))
      /\ req[r].op \in {"create", "update"} /\ req[r].key \in Keys \union {None}
  BY HandlerKnows, HandlerFields DEF CountIn, At, Knows, InCourse
<1> PICK next \in {"write", "save", "count", "done"} : next = AfterCount(r)
  BY <1>1, NextAfterCount
<1> PICK k : k = req[r].to
  OBVIOUS
<1>2. ChangeCount(r, k, 1, next)
  BY <1>1
<1>3. PICK h \in Handler :
             /\ Goes(r, h) /\ Same(req[r], h) /\ h.pc = next /\ h.item = req[r].item
             /\ h.answered = req[r].answered /\ (next # "done" => h.read = req[r].read)
             /\ UNCHANGED <<state, home, author, likes, shown, marks, stored, approved>>
             /\ \/ /\ count' = [count EXCEPT ![k] = Plus(@, 1)]
                   /\ h.faults = req[r].faults
                \/ count' = count /\ h.faults = req[r].faults \union {req[r].pc}
  BY <1>1, <1>2, CountChanged
<1>4. h.op = req[r].op /\ h.to = k /\ h.key = req[r].key /\ req[r].pc = "count"
  BY <1>1, <1>3 DEF Same, At
<1> QED BY <1>1, <1>3, <1>4, NextAfterCount

LEMMA CountedOut ==
    ASSUME IInv, NEW r \in Requests, CountOut(r)
    PROVE  \E h \in Handler :
             /\ Goes(r, h) /\ Same(req[r], h) /\ At(r, "uncount") /\ h.item = req[r].item
             /\ h.answered = req[r].answered /\ (h.pc # "done" => h.read = req[r].read)
             /\ \/ h.op = "update" /\ h.pc = "count"
                \/ h.op = "delete" /\ h.pc = "done"
             /\ UNCHANGED <<state, home, author, likes, shown, marks, stored, approved>>
             /\ \/ /\ count' = [count EXCEPT ![h.from] = Plus(@, -1)]
                   /\ h.faults = req[r].faults
                \/ count' = count /\ h.faults = req[r].faults \union {"uncount"}
<1>1. /\ At(r, "uncount") /\ ChangeCount(r, req[r].from, -1, AfterUncount(r))
      /\ req[r].op \in {"delete", "update"}
  BY HandlerKnows DEF CountOut, At, Knows, InCourse
<1> PICK next \in {"write", "save", "count", "done"} : next = AfterUncount(r)
  BY NextAfterCount
<1> PICK k : k = req[r].from
  OBVIOUS
<1> PICK delta : delta = -1
  OBVIOUS
<1>2. ChangeCount(r, k, delta, next)
  BY <1>1
<1>3. PICK h \in Handler :
             /\ Goes(r, h) /\ Same(req[r], h) /\ h.pc = next /\ h.item = req[r].item
             /\ h.answered = req[r].answered /\ (next # "done" => h.read = req[r].read)
             /\ UNCHANGED <<state, home, author, likes, shown, marks, stored, approved>>
             /\ \/ /\ count' = [count EXCEPT ![k] = Plus(@, delta)]
                   /\ h.faults = req[r].faults
                \/ count' = count /\ h.faults = req[r].faults \union {req[r].pc}
  BY <1>1, <1>2, CountChanged
<1>4. h.op = req[r].op /\ h.from = k /\ req[r].pc = "uncount"
  BY <1>1, <1>3 DEF Same, At
<1> QED BY <1>1, <1>3, <1>4, NextAfterCount

LEMMA PlusIsNatural ==
    ASSUME NEW n \in Nat, NEW d \in Int
    PROVE  Plus(n, d) \in Nat
BY DEF Plus

\* What a request that only moved on has still to show.
LEMMA GoesOn ==
    ASSUME IInv, NEW r \in Requests, NEW h \in Handler, Goes(r, h), Same(req[r], h),
           h.answered = req[r].answered, req[r].pc \notin {"answer", "done"},
           UNCHANGED <<stored, approved>>, Sound', Knows(h)', TallyInTime', MarksAnswered',
           \A i \in Items : state[i] # "absent" => state'[i] # "absent"
    PROVE  IInv'
<1>1. ~(h.late /\ ~h.blind)
  BY DEF IInv, AnsweredKeyMakesNoPost, Same
<1>2. h.answered # None => h.key \in Keys /\ stored'[h.key] # None
  BY DEF IInv, AnswersAreStored, Same
<1> QED BY <1>1, <1>2, StepKeeps

LEMMA InvCounted ==
    ASSUME IInv, NEW r \in Requests, CountIn(r) \/ CountOut(r)
    PROVE  IInv'
<1>1. PICK h \in Handler :
             /\ Goes(r, h) /\ Same(req[r], h) /\ req[r].pc \in {"count", "uncount"}
             /\ h.item = req[r].item
             /\ h.answered = req[r].answered /\ (h.pc # "done" => h.read = req[r].read)
             /\ \/ h.op = "update" /\ h.pc \in {"count", "write"}
                \/ h.op = "create" /\ h.pc = "save" /\ h.key \in Keys
                \/ h.op \in {"create", "delete"} /\ h.pc = "done"
             /\ UNCHANGED <<state, home, author, likes, shown, marks, stored, approved>>
             /\ count' \in [Containers -> Nat]
  <2>1. count \in [Containers -> Nat]
    BY DEF IInv, TypeOK
  <2>2. ASSUME NEW k, NEW d \in Int
        PROVE  [count EXCEPT ![k] = Plus(@, d)] \in [Containers -> Nat]
    BY <2>1, PlusIsNatural
  <2>3. CASE CountIn(r)
    <3>1. PICK h \in Handler :
             /\ Goes(r, h) /\ Same(req[r], h) /\ At(r, "count") /\ h.item = req[r].item
             /\ h.answered = req[r].answered /\ (h.pc # "done" => h.read = req[r].read)
             /\ \/ h.op = "update" /\ h.pc = "write"
                \/ h.op = "create" /\ h.pc = "save" /\ h.key \in Keys
                \/ h.op = "create" /\ h.pc = "done"
             /\ UNCHANGED <<state, home, author, likes, shown, marks, stored, approved>>
             /\ \/ /\ count' = [count EXCEPT ![h.to] = Plus(@, 1)]
                   /\ h.faults = req[r].faults
                \/ count' = count /\ h.faults = req[r].faults \union {"count"}
      BY <2>3, CountedIn
    <3>2. count' \in [Containers -> Nat]
      BY <2>1, <2>2, <3>1
    <3> QED BY <3>1, <3>2 DEF At
  <2>4. CASE CountOut(r)
    <3>1. PICK h \in Handler :
             /\ Goes(r, h) /\ Same(req[r], h) /\ At(r, "uncount") /\ h.item = req[r].item
             /\ h.answered = req[r].answered /\ (h.pc # "done" => h.read = req[r].read)
             /\ \/ h.op = "update" /\ h.pc = "count"
                \/ h.op = "delete" /\ h.pc = "done"
             /\ UNCHANGED <<state, home, author, likes, shown, marks, stored, approved>>
             /\ \/ /\ count' = [count EXCEPT ![h.from] = Plus(@, -1)]
                   /\ h.faults = req[r].faults
                \/ count' = count /\ h.faults = req[r].faults \union {"uncount"}
      BY <2>4, CountedOut
    <3>2. count' \in [Containers -> Nat]
      BY <2>1, <2>2, <3>1
    <3> QED BY <3>1, <3>2 DEF At
  <2> QED BY <2>3, <2>4
<1>3. Sound'
  <2>1. TablesOK'
    BY <1>1 DEF IInv, TypeOK, TablesOK
  <2>2. ItemsAreHoused' /\ PublishedIsApproved' /\ LikesAreFinite'
    BY <1>1 DEF IInv, ItemsAreHoused, PublishedIsApproved, LikesAreFinite
  <2> QED BY <2>1, <2>2 DEF Sound
<1>4. Knows(req[r]) /\ h.op = req[r].op
  BY <1>1, HandlerKnows DEF Same
<1>5. Knows(h)
  <2>1. h.key # None /\ h.op = "create" => h.item \in Posts
    BY <1>1, <1>4 DEF Knows, InCourse, KnowsOrigin, Same
  <2>2. None \notin Keys
    BY ContentAssumption
  <2> QED BY <1>1, <1>4, <2>1, <2>2, SamePlaces
          DEF Knows, InCourse, KnowsItem, KnowsOrigin, KnowsPlaces, KnowsState, AtItem
<1>6. Knows(h)'
  BY <1>1, <1>5 DEF Knows, InCourse, KnowsItem, KnowsOrigin, KnowsPlaces, KnowsState
<1>7. req[r].op \notin {"like", "mark", "unmark"}
  BY <1>1, <1>4
<1>8. TallyInTime' /\ MarksAnswered'
  BY <1>1, <1>4, <1>7, NoTally, NoMark
<1> QED BY <1>1, <1>3, <1>6, <1>8, GoesOn

\* The edit writes back by id the state it has read.
LEMMA Edited ==
    ASSUME IInv, NEW r \in Requests, UpdatePost(r) \/ UpdateComment(r)
    PROVE  \E h \in Handler :
             /\ Goes(r, h) /\ Same(req[r], h) /\ At(r, "write") /\ req[r].op = "update"
             /\ h.pc = "done" /\ h.item = req[r].item /\ h.item \in Items
             /\ h.faults = req[r].faults /\ h.answered = req[r].answered
             /\ req[r].read \in {"pendingReview", "published"}
             /\ req[r].read = "published" => h.item \in approved
             /\ state[h.item] # "absent"
             /\ state' = [state EXCEPT ![h.item] = req[r].read]
             /\ \/ h.item \in Posts /\ home' = [home EXCEPT ![h.item] = h.to]
                \/ h.item \in Comments /\ home' = home
             /\ UNCHANGED <<author, count, likes, shown, marks, stored, approved>>
<1> DEFINE g == req[r]
           h == Done(g)
<1>1. /\ g \in Handler /\ At(r, "write") /\ Finish(r)
      /\ UNCHANGED <<author, count, likes, marks, stored, approved>>
  BY HandlerKnows DEF UpdatePost, UpdateComment, Kept
<1>2. /\ g.op = "update" /\ g.item \in Items /\ state[g.item] # "absent"
      /\ g.read \in {"pendingReview", "published"}
      /\ g.read = "published" => g.item \in approved
  BY <1>1, HandlerKnows DEF At, Knows, InCourse, KnowsItem, KnowsState, AtItem
<1>3. /\ state' = [state EXCEPT ![g.item] = g.read] /\ UNCHANGED shown
      /\ \/ g.item \in Posts /\ home' = [home EXCEPT ![g.item] = g.to]
         \/ g.item \in Comments /\ home' = home
  BY DEF UpdatePost, UpdateComment, UpdatePostRow, UpdateCommentRow
<1>4. req' = [req EXCEPT ![r] = h]
  BY <1>1 DEF Finish, IInv, TypeOK
<1>5. /\ h \in Handler /\ Same(g, h) /\ h.pc = "done" /\ h.item = g.item
      /\ h.faults = g.faults /\ h.answered = g.answered
  BY <1>1, DoneFields DEF Same
<1> HIDE DEF h
<1>6. Goes(r, h)
  BY <1>4, <1>5, Becomes DEF IInv
<1> QED BY <1>1, <1>2, <1>3, <1>5, <1>6 DEF Same

LEMMA InvEdited ==
    ASSUME IInv, NEW r \in Requests, UpdatePost(r) \/ UpdateComment(r)
    PROVE  IInv'
<1> PICK h \in Handler :
             /\ Goes(r, h) /\ Same(req[r], h) /\ At(r, "write") /\ req[r].op = "update"
             /\ h.pc = "done" /\ h.item = req[r].item /\ h.item \in Items
             /\ h.faults = req[r].faults /\ h.answered = req[r].answered
             /\ req[r].read \in {"pendingReview", "published"}
             /\ req[r].read = "published" => h.item \in approved
             /\ state[h.item] # "absent"
             /\ state' = [state EXCEPT ![h.item] = req[r].read]
             /\ \/ h.item \in Posts /\ home' = [home EXCEPT ![h.item] = h.to]
                \/ h.item \in Comments /\ home' = home
             /\ UNCHANGED <<author, count, likes, shown, marks, stored, approved>>
  BY Edited
<1>1. h.op = "update" /\ req[r].pc = "write"
  BY DEF Same, At
<1>2. TablesOK /\ h.to \in Containers \union {None}
  BY HandlerFields DEF IInv, TypeOK, TablesOK
<1>3. \A j \in Items : state'[j] = IF j = h.item THEN req[r].read ELSE state[j]
  BY <1>2 DEF TablesOK
<1>4. Knows(h)'
  BY <1>1, SamePlaces
     DEF Knows, InCourse, KnowsItem, KnowsOrigin, KnowsPlaces, KnowsState, AtItem
<1>5. TallyInTime' /\ MarksAnswered'
  BY <1>1, NoTally, NoMark
<1>6. TablesOK'
  <2>1. state' \in [Items -> States]
    BY <1>2 DEF TablesOK, States
  <2>2. home' \in [Items -> Containers \union {None}]
    BY <1>2 DEF TablesOK
  <2> QED BY <1>2, <1>3, <2>1, <2>2 DEF TablesOK
<1>7. ItemsAreHoused'
  <2>1. h.item \in Posts => h.to \in Containers
    BY HandlerKnows DEF Knows, KnowsPlaces, Same
  <2> QED BY <1>2, <1>3, <2>1 DEF IInv, ItemsAreHoused, TablesOK
<1>8. PublishedIsApproved' /\ LikesAreFinite'
  BY <1>3 DEF IInv, PublishedIsApproved, LikesAreFinite
<1>9. \A j \in Items : state[j] # "absent" => state'[j] # "absent"
  BY <1>3
<1> QED BY <1>1, <1>4, <1>5, <1>6, <1>7, <1>8, <1>9, GoesOn DEF Sound

LEMMA Deleted ==
    ASSUME IInv, NEW r \in Requests, DeletePost(r) \/ DeleteComment(r)
    PROVE  \E h \in Handler :
             /\ Goes(r, h) /\ Same(req[r], h) /\ At(r, "delete") /\ h.op = "delete"
             /\ h.pc = "uncount" /\ h.item = req[r].item /\ h.item \in Items
             /\ h.faults = req[r].faults /\ h.answered = req[r].answered
             /\ state[h.item] # "absent"
             /\ state' = [state EXCEPT ![h.item] = "deleted"]
             /\ UNCHANGED <<home, author, count, likes, shown, marks, stored, approved>>
<1> DEFINE g == req[r]
           h == [g EXCEPT !.pc = "uncount"]
<1>1. /\ g \in Handler /\ At(r, "delete") /\ GoTo(r, "uncount")
      /\ state' = [state EXCEPT ![g.item] = "deleted"]
      /\ UNCHANGED <<home, author, count, likes, shown, marks, stored, approved>>
  BY HandlerKnows DEF DeletePost, DeleteComment, DeletePostRow, DeleteCommentRow, Reacted, Kept
<1>2. /\ g.op = "delete" /\ g.item \in Items /\ state[g.item] # "absent"
  BY <1>1, HandlerKnows DEF At, Knows, InCourse, KnowsItem, AtItem
<1>3. req' = [req EXCEPT ![r] = h]
  BY <1>1 DEF GoTo, IInv, TypeOK
<1>4. /\ h \in Handler /\ Same(g, h) /\ h.pc = "uncount" /\ h.item = g.item
      /\ h.faults = g.faults /\ h.answered = g.answered /\ h.op = g.op
  BY <1>1 DEF Handler, Same
<1> HIDE DEF h
<1>5. Goes(r, h)
  BY <1>3, <1>4, Becomes DEF IInv
<1> QED BY <1>1, <1>2, <1>4, <1>5

LEMMA InvDeleted ==
    ASSUME IInv, NEW r \in Requests, DeletePost(r) \/ DeleteComment(r)
    PROVE  IInv'
<1> PICK h \in Handler :
             /\ Goes(r, h) /\ Same(req[r], h) /\ At(r, "delete") /\ h.op = "delete"
             /\ h.pc = "uncount" /\ h.item = req[r].item /\ h.item \in Items
             /\ h.faults = req[r].faults /\ h.answered = req[r].answered
             /\ state[h.item] # "absent"
             /\ state' = [state EXCEPT ![h.item] = "deleted"]
             /\ UNCHANGED <<home, author, count, likes, shown, marks, stored, approved>>
  BY Deleted
<1>1. req[r].op = "delete" /\ req[r].pc = "delete"
  BY DEF Same, At
<1>2. TablesOK
  BY DEF IInv, TypeOK, TablesOK
<1>3. \A j \in Items : state'[j] = IF j = h.item THEN "deleted" ELSE state[j]
  BY <1>2 DEF TablesOK
<1>4. Knows(h)'
  BY <1>1, <1>3, SamePlaces
     DEF Knows, InCourse, KnowsItem, KnowsOrigin, KnowsPlaces, KnowsState, AtItem
<1>5. TallyInTime' /\ MarksAnswered'
  BY <1>1, NoTally, NoMark
<1>6. Sound'
  <2>1. TablesOK'
    BY <1>2, <1>3 DEF TablesOK, States
  <2>2. ItemsAreHoused' /\ PublishedIsApproved' /\ LikesAreFinite'
    BY <1>3 DEF IInv, ItemsAreHoused, PublishedIsApproved, LikesAreFinite
  <2> QED BY <2>1, <2>2 DEF Sound
<1>7. \A j \in Items : state[j] # "absent" => state'[j] # "absent"
  BY <1>3
<1> QED BY <1>1, <1>4, <1>5, <1>6, <1>7, GoesOn

-----------------------------------------------------------------------------
(***************************************************************************)
(* Moderation: one statement, and the only one that approves.              *)
(***************************************************************************)
LEMMA Moderated ==
    ASSUME IInv, NEW r \in Requests, NEW i \in Items,
           NEW s \in {"published", "hidden", "deleted"}, Moderate(r, i, s)
    PROVE  \E h \in Handler :
             /\ Goes(r, h) /\ req[r] = Blank
             /\ h.op = "moderate" /\ h.pc = "done" /\ h.item = i /\ h.from = home[i]
             /\ h.to = None /\ h.key = None /\ h.answered = None /\ ~h.late
             /\ h.faults = IF Live(i) <=> s # "deleted" THEN {} ELSE {"removal"}
             /\ state[i] # "absent" /\ state' = [state EXCEPT ![i] = s]
             /\ approved' = IF s = "published" THEN approved \union {i} ELSE approved
             /\ UNCHANGED <<home, author, count, likes, shown, marks, stored>>
<1>1. /\ req[r] = Blank /\ state[i] # "absent" /\ state' = [state EXCEPT ![i] = s]
      /\ approved' = IF s = "published" THEN approved \union {i} ELSE approved
      /\ UNCHANGED <<home, author, count, likes, shown, marks, stored>>
  BY NewIsBlank DEF Moderate, IInv, Reacted
<1>2. PICK l \in Containers \union {None} : l = home[i]
  BY DEF IInv, TypeOK
<1>3. PICK f \in SUBSET Faults : f = IF Live(i) <=> s # "deleted" THEN {} ELSE {"removal"}
  BY DEF Faults
<1> DEFINE g == [Blank EXCEPT !.op = "moderate", !.item = i, !.from = l]
           h == [g EXCEPT !.faults = f, !.pc = "done"]
<1>4. h \in Handler
  <2>1. g \in Handler
    BY BlankIsTyped DEF Handler, Ops
  <2>2. ASSUME NEW e \in Handler, NEW d \in SUBSET Faults
        PROVE  [e EXCEPT !.faults = d, !.pc = "done"] \in Handler
    BY DEF Handler
  <2> HIDE DEF g
  <2> QED BY <2>1, <2>2
<1>5. /\ h.op = "moderate" /\ h.pc = "done" /\ h.item = i /\ h.from = l /\ h.to = None
      /\ h.key = None /\ h.answered = None /\ ~h.late /\ h.faults = f
  BY DEF Blank
<1>6. req' = [req EXCEPT ![r] = h]
  <2>1. f = IF Live(i) = (s # "deleted") THEN {} ELSE {"removal"}
    BY <1>3 DEF Live
  <2> QED BY <1>1, <1>2, <2>1 DEF Moderate, IInv, TypeOK
<1> HIDE DEF h
<1>7. Goes(r, h)
  BY <1>4, <1>6, Becomes DEF IInv
<1> QED BY <1>1, <1>2, <1>3, <1>4, <1>5, <1>7

LEMMA InvModerated ==
    ASSUME IInv, NEW r \in Requests, HandleModeration(r)
    PROVE  IInv'
<1> PICK i \in Items, s \in {"published", "hidden", "deleted"} : Moderate(r, i, s)
  BY DEF HandleModeration
<1> PICK h \in Handler :
             /\ Goes(r, h) /\ req[r] = Blank
             /\ h.op = "moderate" /\ h.pc = "done" /\ h.item = i /\ h.from = home[i]
             /\ h.to = None /\ h.key = None /\ h.answered = None /\ ~h.late
             /\ h.faults = IF Live(i) <=> s # "deleted" THEN {} ELSE {"removal"}
             /\ state[i] # "absent" /\ state' = [state EXCEPT ![i] = s]
             /\ approved' = IF s = "published" THEN approved \union {i} ELSE approved
             /\ UNCHANGED <<home, author, count, likes, shown, marks, stored>>
  BY Moderated
<1>1. TablesOK
  BY DEF IInv, TypeOK, TablesOK
<1>2. \A j \in Items : state'[j] = IF j = i THEN s ELSE state[j]
  BY <1>1 DEF TablesOK
<1>3. Knows(h)'
  BY DEF Knows, InCourse, KnowsItem, KnowsOrigin, KnowsPlaces, KnowsState, AtItem
<1>4. TallyInTime' /\ MarksAnswered'
  BY NoTally, NoMark DEF Blank
<1>5. Sound'
  <2>1. TablesOK'
    BY <1>1, <1>2 DEF TablesOK, States
  <2>2. ItemsAreHoused' /\ PublishedIsApproved' /\ LikesAreFinite'
    BY <1>2 DEF IInv, ItemsAreHoused, PublishedIsApproved, LikesAreFinite
  <2> QED BY <2>1, <2>2 DEF Sound
<1>6. /\ \A j \in Items : state[j] # "absent" => state'[j] # "absent"
      /\ approved \subseteq approved'
  BY <1>2
<1> QED BY <1>3, <1>4, <1>5, <1>6, StepKeeps

-----------------------------------------------------------------------------
(***************************************************************************)
(* Reactions.                                                              *)
(***************************************************************************)
\* A step on the reactions of post i: when no request has a fault, r alone is
\* under way there.
LEMMA TallyStep ==
    ASSUME IInv, NEW r \in Requests, NEW h \in Handler, Goes(r, h), NEW i \in Posts,
           h.op = "like", h.item = i, h.pc # "new",
           \/ req[r].op = "none"
           \/ req[r].op = "like" /\ req[r].item = i /\ req[r].faults \subseteq h.faults,
           \A j \in Posts \ {i} : likes'[j] = likes[j] /\ shown'[j] = shown[j],
           (\A q \in Likes(i) : req[q].faults = {}) /\ h.faults = {} =>
               /\ \A q \in Likes(i) \ {r} : ~InFlight(q)
               /\ h.pc = "writeTally" => h.seen = Tally(i)'
               /\ h.pc = "done" => shown'[i] = Tally(i)'
    PROVE  TallyInTime'
<1>1. ASSUME NEW j \in Posts \ {i} PROVE TallyAt(j)'
  <2>1. /\ Likes(j)' = Likes(j)
        /\ \A q \in Likes(j) : q \in Requests /\ req'[q] = req[q]
        /\ Tally(j)' = Tally(j) /\ shown'[j] = shown[j]
    BY DEF Likes, Goes, Tally
  <2> QED BY <2>1 DEF IInv, TallyInTime, TallyAt, InFlight, At
<1>2. TallyAt(i)'
  <2>1. /\ Likes(i)' = Likes(i) \union {r}
        /\ \A q \in Likes(i) \ {r} : q \in Requests /\ req'[q] = req[q]
        /\ req'[r] = h
    BY DEF Likes, Goes
  <2> SUFFICES ASSUME (\A q \in Likes(i) : req[q].faults = {})'
               PROVE  (/\ \A p, q \in Likes(i) : InFlight(p) /\ InFlight(q) => p = q
                       /\ \A q \in Likes(i) : At(q, "writeTally") => req[q].seen = Tally(i)
                       /\ (\A q \in Likes(i) : ~InFlight(q)) => shown[i] = Tally(i))'
    BY DEF TallyAt
  <2>2. h.faults = {}
    BY <2>1
  <2>3. \A q \in Likes(i) : req[q].faults = {}
    <3>1. r \in Likes(i) => req[r].faults = {}
      BY <2>2 DEF Likes
    <3> QED BY <2>1, <3>1
  <2>4. /\ \A q \in Likes(i) \ {r} : ~InFlight(q)
        /\ h.pc = "writeTally" => h.seen = Tally(i)'
        /\ h.pc = "done" => shown'[i] = Tally(i)'
    BY <2>2, <2>3
  <2>5. \A q \in Likes(i)' \ {r} : ~InFlight(q)'
    BY <2>1, <2>4 DEF InFlight
  <2>6. /\ InFlight(r)' <=> h.pc # "done"
        /\ At(r, "writeTally")' <=> h.pc = "writeTally"
    BY <2>1 DEF InFlight, At
  <2>7. \A q \in Likes(i)' \ {r} : ~At(q, "writeTally")'
    BY <2>5 DEF InFlight, At
  <2>8. (\A p, q \in Likes(i) : InFlight(p) /\ InFlight(q) => p = q)'
    BY <2>5
  <2>9. (\A q \in Likes(i) : At(q, "writeTally") => req[q].seen = Tally(i))'
    BY <2>1, <2>4, <2>6, <2>7
  <2>10. ((\A q \in Likes(i) : ~InFlight(q)) => shown[i] = Tally(i))'
    BY <2>1, <2>4, <2>6
  <2> QED BY <2>8, <2>9, <2>10
<1> QED BY <1>1, <1>2 DEF TallyInTime

\* While r is under way on post i and nothing has a fault, nobody else is.
LEMMA AloneThere ==
    ASSUME IInv, NEW r \in Requests, NEW i \in Posts, req[r].op = "like", req[r].item = i,
           InFlight(r), \A q \in Likes(i) : req[q].faults = {}
    PROVE  \A q \in Likes(i) \ {r} : ~InFlight(q)
BY DEF IInv, TallyInTime, TallyAt, Likes

LEMMA LikesStaySound ==
    ASSUME IInv, NEW i \in Posts, NEW p \in Personas,
           \/ likes' = likes
           \/ likes' = [likes EXCEPT ![i] = @ \union {p}]
           \/ likes' = [likes EXCEPT ![i] = @ \ {p}],
           shown' \in [Items -> Nat],
           UNCHANGED <<state, home, author, count, marks, stored, approved>>
    PROVE  Sound' /\ \A j \in Posts \ {i} : likes'[j] = likes[j]
<1>1. likes \in [Posts -> SUBSET Personas] /\ LikesAreFinite
  BY DEF IInv, TypeOK
<1>2. likes' \in [Posts -> SUBSET Personas] /\ \A j \in Posts \ {i} : likes'[j] = likes[j]
  BY <1>1
<1>3. LikesAreFinite'
  <2>1. IsFiniteSet(likes[i] \union {p}) /\ IsFiniteSet(likes[i] \ {p})
    BY <1>1, FS_AddElement, FS_RemoveElement DEF LikesAreFinite
  <2> QED BY <1>1, <2>1 DEF LikesAreFinite
<1>4. TablesOK' /\ ItemsAreHoused' /\ PublishedIsApproved'
  BY <1>2 DEF IInv, TypeOK, TablesOK, ItemsAreHoused, PublishedIsApproved
<1> QED BY <1>2, <1>3, <1>4 DEF Sound

LEMMA LikeRequested ==
    ASSUME IInv, NEW r \in Requests, HandleCreateReaction(r) \/ HandleDeleteReaction(r)
    PROVE  \E h \in Handler, i \in Posts, p \in Personas :
             /\ Goes(r, h) /\ req[r] = Blank
             /\ h.op = "like" /\ h.pc \in {"upsert", "tally"} /\ h.item = i /\ h.who = p
             /\ h.key = None /\ h.answered = None /\ ~h.late
             /\ h.faults = OverlapOf("like", i)
             /\ likes' = likes \/ likes' = [likes EXCEPT ![i] = @ \ {p}]
             /\ UNCHANGED <<state, home, author, count, shown, marks, stored, approved>>
<1>1. PICK i \in Posts, p \in Personas, pc \in {"upsert", "tally"} :
        /\ At(r, "new") /\ Begin(r, p, i, pc)
        /\ likes' = likes \/ likes' = [likes EXCEPT ![i] = @ \ {p}]
        /\ UNCHANGED <<state, home, author, count, shown, marks, stored, approved>>
  BY DEF HandleCreateReaction, HandleDeleteReaction, CreateReactionRequest,
         DeleteReactionRequest, DeleteReactionRow, Unliked, tables
<1>2. req[r] = Blank
  BY <1>1, NewIsBlank DEF IInv
<1>3. PICK f \in SUBSET Faults : f = OverlapOf("like", i)
  BY DEF Faults, OverlapOf
<1> DEFINE g == [Blank EXCEPT !.op = "like", !.who = p, !.item = i]
           h == [g EXCEPT !.faults = f, !.pc = pc]
<1>4. h \in Handler
  <2>1. g \in Handler
    BY BlankIsTyped DEF Handler, Ops, Items
  <2>2. ASSUME NEW e \in Handler, NEW d \in SUBSET Faults, NEW z \in {"upsert", "tally"}
        PROVE  [e EXCEPT !.faults = d, !.pc = z] \in Handler
    BY DEF Handler
  <2> HIDE DEF g
  <2> QED BY <2>1, <2>2
<1>5. /\ h.op = "like" /\ h.pc = pc /\ h.item = i /\ h.who = p
      /\ h.key = None /\ h.answered = None /\ ~h.late /\ h.faults = f
  BY DEF Blank
<1>6. req' = [req EXCEPT ![r] = h]
  BY <1>1, <1>2, <1>3 DEF Begin, OverlapOf, IInv, TypeOK
<1> HIDE DEF h
<1>7. Goes(r, h)
  BY <1>4, <1>6, Becomes DEF IInv
<1> QED BY <1>1, <1>2, <1>3, <1>4, <1>5, <1>7

LEMMA InvLikeRequested ==
    ASSUME IInv, NEW r \in Requests, HandleCreateReaction(r) \/ HandleDeleteReaction(r)
    PROVE  IInv'
<1> PICK h \in Handler, i \in Posts, p \in Personas :
             /\ Goes(r, h) /\ req[r] = Blank
             /\ h.op = "like" /\ h.pc \in {"upsert", "tally"} /\ h.item = i /\ h.who = p
             /\ h.key = None /\ h.answered = None /\ ~h.late
             /\ h.faults = OverlapOf("like", i)
             /\ likes' = likes \/ likes' = [likes EXCEPT ![i] = @ \ {p}]
             /\ UNCHANGED <<state, home, author, count, shown, marks, stored, approved>>
  BY LikeRequested
<1>1. Sound' /\ \A j \in Posts \ {i} : likes'[j] = likes[j]
  BY LikesStaySound DEF IInv, TypeOK
<1>2. Knows(h)'
  BY DEF Knows, InCourse, KnowsItem, KnowsOrigin, KnowsPlaces, KnowsState, AtItem
<1>3. h.faults = {} => \A q \in Likes(i) : ~InFlight(q)
  BY DEF OverlapOf, Busy, Likes, Writers
<1>4. TallyInTime'
  BY <1>1, <1>3, TallyStep DEF Blank
<1>5. MarksAnswered'
  BY NoMark DEF Blank
<1> QED BY <1>1, <1>2, <1>4, <1>5, StepKeeps

LEMMA Reacting ==
    ASSUME IInv, NEW r \in Requests,
           CreateReaction(r) \/ CountReactions(r) \/ WriteReactionCounts(r)
    PROVE  \E h \in Handler :
             /\ Goes(r, h) /\ Same(req[r], h) /\ h.op = "like" /\ InFlight(r)
             /\ h.item = req[r].item /\ h.item \in Posts
             /\ h.faults = req[r].faults /\ h.answered = req[r].answered
             /\ UNCHANGED <<state, home, author, count, marks, stored, approved>>
             /\ \/ /\ h.pc = "tally" /\ shown' = shown /\ req[r].who \in Personas
                   /\ likes' = [likes EXCEPT ![h.item] = @ \union {req[r].who}]
                \/ /\ h.pc = "writeTally" /\ h.seen = Tally(h.item)
                   /\ likes' = likes /\ shown' = shown
                \/ /\ h.pc = "done" /\ At(r, "writeTally") /\ likes' = likes
                   /\ shown' = [shown EXCEPT ![h.item] = req[r].seen]
<1> DEFINE g == req[r]
<1>1. g \in Handler /\ Knows(g)
  BY HandlerKnows
<1>2. CASE CreateReaction(r)
  <2> DEFINE h == [g EXCEPT !.pc = "tally"]
  <2>1. /\ g.op = "like" /\ g.item \in Posts /\ g.who \in Personas /\ InFlight(r)
        /\ shown' = shown /\ likes' = [likes EXCEPT ![g.item] = @ \union {g.who}]
        /\ UNCHANGED <<state, home, author, count, marks, stored, approved>>
    BY <1>1, <1>2 DEF CreateReaction, At, Knows, InCourse, KnowsItem, KnowsOrigin, InFlight,
                      UpsertReaction, Unliked
  <2>2. req' = [req EXCEPT ![r] = h]
    BY <1>2 DEF CreateReaction, GoTo, IInv, TypeOK
  <2>3. /\ h \in Handler /\ Same(g, h) /\ h.pc = "tally" /\ h.item = g.item /\ h.op = g.op
        /\ h.faults = g.faults /\ h.answered = g.answered
    BY <1>1 DEF Handler, Same
  <2> HIDE DEF h
  <2>4. Goes(r, h)
    BY <2>2, <2>3, Becomes DEF IInv
  <2> QED BY <2>1, <2>3, <2>4
<1>3. CASE CountReactions(r)
  <2>1. /\ g.op = "like" /\ g.item \in Posts /\ InFlight(r) /\ UNCHANGED tables
    BY <1>1, <1>3 DEF CountReactions, At, Knows, InCourse, KnowsItem, InFlight
  <2>2. Tally(g.item) \in Nat
    BY <2>1, FS_CardinalityType DEF IInv, LikesAreFinite, Tally
  <2>3. PICK n \in Nat : n = Tally(g.item)
    BY <2>2
  <2> DEFINE h == [g EXCEPT !.seen = n, !.pc = "writeTally"]
  <2>4. req' = [req EXCEPT ![r] = h]
    BY <1>3, <2>3 DEF CountReactions, IInv, TypeOK
  <2>5. /\ h \in Handler /\ Same(g, h) /\ h.pc = "writeTally" /\ h.item = g.item /\ h.op = g.op
        /\ h.faults = g.faults /\ h.answered = g.answered /\ h.seen = n
    BY <1>1 DEF Handler, Same
  <2> HIDE DEF h
  <2>6. Goes(r, h)
    BY <2>4, <2>5, Becomes DEF IInv
  <2> QED BY <2>1, <2>3, <2>5, <2>6 DEF tables
<1>4. CASE WriteReactionCounts(r)
  <2> DEFINE h == Done(g)
  <2>1. /\ g.op = "like" /\ g.item \in Posts /\ InFlight(r) /\ At(r, "writeTally")
        /\ likes' = likes /\ shown' = [shown EXCEPT ![g.item] = g.seen]
        /\ UNCHANGED <<state, home, author, count, marks, stored, approved>>
    BY <1>1, <1>4 DEF WriteReactionCounts, At, Knows, InCourse, KnowsItem, InFlight,
                      WriteTally, Unliked
  <2>2. req' = [req EXCEPT ![r] = h]
    BY <1>4 DEF WriteReactionCounts, Finish, IInv, TypeOK
  <2>3. /\ h \in Handler /\ Same(g, h) /\ h.pc = "done" /\ h.item = g.item /\ h.op = g.op
        /\ h.faults = g.faults /\ h.answered = g.answered
    BY <1>1, DoneFields DEF Same
  <2> HIDE DEF h
  <2>4. Goes(r, h)
    BY <2>2, <2>3, Becomes DEF IInv
  <2> QED BY <2>1, <2>3, <2>4
<1> QED BY <1>2, <1>3, <1>4

LEMMA InvReacting ==
    ASSUME IInv, NEW r \in Requests,
           CreateReaction(r) \/ CountReactions(r) \/ WriteReactionCounts(r)
    PROVE  IInv'
<1> PICK h \in Handler :
             /\ Goes(r, h) /\ Same(req[r], h) /\ h.op = "like" /\ InFlight(r)
             /\ h.item = req[r].item /\ h.item \in Posts
             /\ h.faults = req[r].faults /\ h.answered = req[r].answered
             /\ UNCHANGED <<state, home, author, count, marks, stored, approved>>
             /\ \/ /\ h.pc = "tally" /\ shown' = shown /\ req[r].who \in Personas
                   /\ likes' = [likes EXCEPT ![h.item] = @ \union {req[r].who}]
                \/ /\ h.pc = "writeTally" /\ h.seen = Tally(h.item)
                   /\ likes' = likes /\ shown' = shown
                \/ /\ h.pc = "done" /\ At(r, "writeTally") /\ likes' = likes
                   /\ shown' = [shown EXCEPT ![h.item] = req[r].seen]
  BY Reacting
<1>1. PICK i \in Posts : i = h.item
  OBVIOUS
<1>2. /\ req[r].op = "like" /\ req[r].item = i /\ i \in Items
      /\ shown \in [Items -> Nat] /\ req[r].seen \in Nat /\ likes \in [Posts -> SUBSET Personas]
  BY <1>1, HandlerFields DEF Same, Items, IInv, TypeOK
<1>3. Sound' /\ \A j \in Posts \ {i} : likes'[j] = likes[j]
  <2>1. shown' \in [Items -> Nat]
    BY <1>1, <1>2
  <2>2. CASE likes' = likes
    <3>1. TablesOK'
      BY <2>1, <2>2 DEF IInv, TypeOK, TablesOK
    <3>2. ItemsAreHoused' /\ PublishedIsApproved' /\ LikesAreFinite'
      BY <2>2 DEF IInv, ItemsAreHoused, PublishedIsApproved, LikesAreFinite
    <3> QED BY <2>2, <3>1, <3>2 DEF Sound
  <2>3. CASE likes' # likes
    <3>1. PICK p \in Personas : p = req[r].who
      BY <2>3
    <3>2. likes' = [likes EXCEPT ![i] = @ \union {p}]
      BY <1>1, <2>3, <3>1
    <3> QED BY <2>1, <3>2, LikesStaySound
  <2> QED BY <2>2, <2>3
<1>4. Knows(h)'
  BY <1>1, <1>2 DEF Knows, InCourse, KnowsItem, KnowsOrigin, KnowsPlaces, KnowsState, AtItem
<1>5. TallyInTime'
  <2>1. \A j \in Posts \ {i} : shown'[j] = shown[j]
    BY <1>1, <1>2 DEF Items
  <2>2. ASSUME \A q \in Likes(i) : req[q].faults = {}
        PROVE  /\ \A q \in Likes(i) \ {r} : ~InFlight(q)
               /\ h.pc = "writeTally" => h.seen = Tally(i)'
               /\ h.pc = "done" => shown'[i] = Tally(i)'
    <3>1. \A q \in Likes(i) \ {r} : ~InFlight(q)
      BY <1>2, <2>2, AloneThere
    <3>2. h.pc = "writeTally" => h.seen = Tally(i)'
      BY <1>1 DEF Tally
    <3>3. ASSUME h.pc = "done" PROVE shown'[i] = Tally(i)'
      <4>1. shown'[i] = req[r].seen /\ likes' = likes /\ At(r, "writeTally")
        BY <1>1, <1>2, <3>3
      <4>2. req[r].seen = Tally(i)
        BY <1>2, <2>2, <4>1 DEF IInv, TallyInTime, TallyAt, Likes
      <4> QED BY <4>1, <4>2 DEF Tally
    <3> QED BY <3>1, <3>2, <3>3
  <2>3. h.pc # "new"
    OBVIOUS
  <2> QED BY <1>1, <1>2, <1>3, <2>1, <2>2, <2>3, TallyStep
<1>6. MarksAnswered'
  BY <1>2, NoMark
<1>7. /\ req[r].pc \notin {"answer", "done"}
      /\ \A j \in Items : state[j] # "absent" => state'[j] # "absent"
  BY <1>2, HandlerKnows DEF InFlight, Knows, InCourse
<1> QED BY <1>3, <1>4, <1>5, <1>6, <1>7, GoesOn

-----------------------------------------------------------------------------
(***************************************************************************)
(* A stop leaves everything but the request as it was.                     *)
(***************************************************************************)
LEMMA Stopped ==
    ASSUME IInv, NEW r \in Requests, Stop(r)
    PROVE  \E h \in Handler :
             /\ Goes(r, h) /\ Same(req[r], h) /\ UNCHANGED tables
             /\ req[r].pc \in {"uncount", "count", "write", "tally", "writeTally"}
             /\ h.pc = "done" /\ h.item = req[r].item /\ h.answered = req[r].answered
             /\ h.faults = req[r].faults \union {"stop"}
<1> DEFINE g == req[r]
<1>1. /\ g \in Handler /\ UNCHANGED tables
      /\ g.pc \in {"uncount", "count", "write", "tally", "writeTally"}
  BY HandlerKnows DEF Stop
<1>2. PICK f \in SUBSET Faults : f = g.faults \union {"stop"}
  BY <1>1, HandlerFields DEF Faults
<1> DEFINE d == [g EXCEPT !.faults = f]
           h == Done(d)
<1>3. /\ d \in Handler /\ Same(g, d) /\ d.item = g.item /\ d.answered = g.answered
      /\ d.faults = f
  BY <1>1 DEF Handler, Same
<1>4. req' = [req EXCEPT ![r] = h]
  <2>1. req' = [req EXCEPT ![r] = Done([g EXCEPT !.faults = g.faults \union {"stop"}])]
    BY DEF Stop
  <2> QED BY <1>2, <2>1
<1> HIDE DEF d
<1>5. /\ h \in Handler /\ Same(g, h) /\ h.pc = "done" /\ h.item = g.item
      /\ h.faults = f /\ h.answered = g.answered
  BY <1>3, DoneFields DEF Same
<1> HIDE DEF h
<1>6. Goes(r, h)
  BY <1>4, <1>5, Becomes DEF IInv
<1> QED BY <1>1, <1>2, <1>5, <1>6

LEMMA InvStopped ==
    ASSUME IInv, NEW r \in Requests, Stop(r)
    PROVE  IInv'
<1> PICK h \in Handler :
             /\ Goes(r, h) /\ Same(req[r], h) /\ UNCHANGED tables
             /\ req[r].pc \in {"uncount", "count", "write", "tally", "writeTally"}
             /\ h.pc = "done" /\ h.item = req[r].item /\ h.answered = req[r].answered
             /\ h.faults = req[r].faults \union {"stop"}
  BY Stopped
<1>1. /\ Knows(req[r]) /\ h.op = req[r].op /\ req[r].op # "none"
      /\ req[r].op \notin {"mark", "unmark"}
  BY HandlerKnows DEF Same, Knows, InCourse
<1>2. Sound' /\ UNCHANGED <<likes, shown, marks, stored, approved, state>>
  BY TablesKept DEF tables
<1>3. Knows(h)'
  BY <1>1, SamePlaces
     DEF Knows, InCourse, KnowsItem, KnowsOrigin, KnowsPlaces, KnowsState, AtItem
<1>4. TallyInTime'
  <2>1. CASE req[r].op = "like"
    <3>1. req[r].item \in Posts
      BY <1>1, <2>1 DEF Knows, InCourse, KnowsItem
    <3>2. PICK i \in Posts : i = req[r].item
      BY <3>1
    <3> QED BY <1>1, <1>2, <2>1, <3>2, TallyStep
  <2>2. CASE req[r].op # "like"
    BY <1>1, <1>2, <2>2, NoTally
  <2> QED BY <2>1, <2>2
<1>5. MarksAnswered'
  BY <1>1, <1>2, NoMark
<1> QED BY <1>2, <1>3, <1>4, <1>5, GoesOn

-----------------------------------------------------------------------------
(***************************************************************************)
(* Saves and follows.                                                      *)
(***************************************************************************)
\* The requests counted by Times.
Named(op, p, x) == {r \in Requests : req[r].op = op /\ req[r].who = p /\ req[r].item = x}

LEMMA NamedAreFinite ==
    ASSUME NEW op, NEW p, NEW x
    PROVE  /\ IsFiniteSet(Named(op, p, x)) /\ Times(op, p, x) \in Nat
           /\ Times(op, p, x) = Cardinality(Named(op, p, x))
<1>1. IsFiniteSet(Named(op, p, x))
  BY ContentAssumption, FS_Subset DEF Named
<1> QED BY <1>1, FS_CardinalityType DEF Times, Named

\* The mark or the unmark of <<p, x>> that r makes is counted once more, and no
\* other is.
LEMMA Counted ==
    ASSUME IInv, NEW r \in Requests, NEW h \in Handler, Goes(r, h), req[r] = Blank,
           NEW op \in {"mark", "unmark"}, NEW q, NEW y
    PROVE  Times(op, q, y)' = Times(op, q, y)
                              + (IF h.op = op /\ h.who = q /\ h.item = y THEN 1 ELSE 0)
<1>1. r \notin Named(op, q, y)
  BY DEF Named, Blank
<1>2. CASE h.op = op /\ h.who = q /\ h.item = y
  <2>1. Named(op, q, y)' = Named(op, q, y) \union {r}
    BY <1>2 DEF Named, Goes
  <2>2. Cardinality(Named(op, q, y) \union {r}) = Cardinality(Named(op, q, y)) + 1
    BY <1>1, NamedAreFinite, FS_AddElement
  <2>3. Times(op, q, y)' = Cardinality(Named(op, q, y)')
    BY DEF Times, Named
  <2> QED BY <1>2, <2>1, <2>2, <2>3, NamedAreFinite
<1>3. CASE ~(h.op = op /\ h.who = q /\ h.item = y)
  <2>1. Named(op, q, y)' = Named(op, q, y)
    BY <1>1, <1>3 DEF Named, Goes
  <2>2. Times(op, q, y)' = Cardinality(Named(op, q, y)')
    BY DEF Times, Named
  <2> QED BY <1>3, <2>1, <2>2, NamedAreFinite
<1> QED BY <1>2, <1>3

LEMMA Marked ==
    ASSUME IInv, NEW r \in Requests,
           \/ HandleCreateSave(r) \/ HandleDeleteSave(r)
           \/ HandleFollowTopic(r) \/ HandleUnfollowTopic(r)
    PROVE  \E h \in Handler, p \in Personas, x \in Posts \union Topics :
             /\ Goes(r, h) /\ req[r] = Blank
             /\ h.pc = "done" /\ h.who = p /\ h.item = x
             /\ h.key = None /\ h.answered = None /\ ~h.late
             /\ \/ h.op = "mark" /\ <<p, x>> \notin marks /\ marks' = marks \union {<<p, x>>}
                \/ h.op = "unmark" /\ <<p, x>> \in marks /\ marks' = marks \ {<<p, x>>}
             /\ UNCHANGED <<state, home, author, count, likes, shown, stored, approved>>
<1>1. PICK p \in Personas, x \in Posts \union Topics, op \in {"mark", "unmark"} :
        /\ At(r, "new") /\ Toggled(r, op, p, x)
        /\ \/ op = "mark" /\ <<p, x>> \notin marks /\ marks' = marks \union {<<p, x>>}
           \/ op = "unmark" /\ <<p, x>> \in marks /\ marks' = marks \ {<<p, x>>}
  <2>1. CASE HandleCreateSave(r)
    BY <2>1 DEF HandleCreateSave, SavePost, CreateSave, InsertMark, Toggled
  <2>2. CASE HandleDeleteSave(r)
    BY <2>2 DEF HandleDeleteSave, UnsavePost, DeleteSave, DeleteMark, Toggled
  <2>3. CASE HandleFollowTopic(r)
    BY <2>3 DEF HandleFollowTopic, FollowTopic, InsertFollow, InsertMark, Toggled
  <2>4. CASE HandleUnfollowTopic(r)
    BY <2>4 DEF HandleUnfollowTopic, UnfollowTopic, DeleteFollow, DeleteMark, Toggled
  <2> QED BY <2>1, <2>2, <2>3, <2>4
<1>2. req[r] = Blank
  BY <1>1, NewIsBlank DEF IInv
<1> DEFINE h == [Blank EXCEPT !.op = op, !.who = p, !.item = x, !.pc = "done"]
<1>3. h \in Handler
  BY BlankIsTyped DEF Handler, Ops, Items
<1>4. /\ h.op = op /\ h.pc = "done" /\ h.who = p /\ h.item = x
      /\ h.key = None /\ h.answered = None /\ ~h.late
  BY DEF Blank
<1>5. req' = [req EXCEPT ![r] = h]
  BY <1>1, <1>2 DEF Toggled, IInv, TypeOK
<1> HIDE DEF h
<1>6. Goes(r, h)
  BY <1>3, <1>5, Becomes DEF IInv
<1>7. UNCHANGED <<state, home, author, count, likes, shown, stored, approved>>
  BY <1>1 DEF Toggled, Unmarked
<1> QED BY <1>1, <1>2, <1>3, <1>4, <1>6, <1>7

LEMMA InvMarked ==
    ASSUME IInv, NEW r \in Requests,
           \/ HandleCreateSave(r) \/ HandleDeleteSave(r)
           \/ HandleFollowTopic(r) \/ HandleUnfollowTopic(r)
    PROVE  IInv'
<1> PICK h \in Handler, p \in Personas, x \in Posts \union Topics :
             /\ Goes(r, h) /\ req[r] = Blank
             /\ h.pc = "done" /\ h.who = p /\ h.item = x
             /\ h.key = None /\ h.answered = None /\ ~h.late
             /\ \/ h.op = "mark" /\ <<p, x>> \notin marks /\ marks' = marks \union {<<p, x>>}
                \/ h.op = "unmark" /\ <<p, x>> \in marks /\ marks' = marks \ {<<p, x>>}
             /\ UNCHANGED <<state, home, author, count, likes, shown, stored, approved>>
  BY Marked
<1>1. Sound'
  <2>1. TablesOK'
    BY DEF IInv, TypeOK, TablesOK
  <2>2. ItemsAreHoused' /\ PublishedIsApproved' /\ LikesAreFinite'
    BY DEF IInv, ItemsAreHoused, PublishedIsApproved, LikesAreFinite
  <2> QED BY <2>1, <2>2 DEF Sound
<1>2. Knows(h)'
  BY DEF Knows, InCourse, KnowsItem, KnowsOrigin, KnowsPlaces, KnowsState, AtItem
<1>3. TallyInTime'
  BY NoTally DEF Blank
<1>4. MarksAnswered'
  <2> SUFFICES ASSUME NEW q \in Personas, NEW y \in Posts \union Topics
               PROVE  (Times("mark", q, y) = Times("unmark", q, y)
                                             + (IF <<q, y>> \in marks THEN 1 ELSE 0))'
    BY DEF MarksAnswered
  <2>1. Times("mark", q, y) = Times("unmark", q, y) + (IF <<q, y>> \in marks THEN 1 ELSE 0)
    BY DEF IInv, MarksAnswered
  <2>2. Times("mark", q, y) \in Nat /\ Times("unmark", q, y) \in Nat
    BY NamedAreFinite
  <2>3. /\ Times("mark", q, y)' = Times("mark", q, y)
             + (IF h.op = "mark" /\ p = q /\ x = y THEN 1 ELSE 0)
        /\ Times("unmark", q, y)' = Times("unmark", q, y)
             + (IF h.op = "unmark" /\ p = q /\ x = y THEN 1 ELSE 0)
    BY Counted
  <2>4. CASE p = q /\ x = y /\ h.op = "mark"
    <3>1. <<q, y>> \notin marks /\ <<q, y>> \in marks'
      BY <2>4
    <3>2. /\ Times("mark", q, y)' = Times("mark", q, y) + 1
          /\ Times("unmark", q, y)' = Times("unmark", q, y)
      BY <2>2, <2>3, <2>4
    <3> QED BY <2>1, <2>2, <3>1, <3>2
  <2>5. CASE p = q /\ x = y /\ h.op = "unmark"
    <3>1. <<q, y>> \in marks /\ <<q, y>> \notin marks'
      BY <2>5
    <3>2. /\ Times("mark", q, y)' = Times("mark", q, y)
          /\ Times("unmark", q, y)' = Times("unmark", q, y) + 1
      BY <2>2, <2>3, <2>5
    <3> QED BY <2>1, <2>2, <3>1, <3>2
  <2>6. CASE ~(p = q /\ x = y)
    <3>1. <<q, y>> \in marks' <=> <<q, y>> \in marks
      BY <2>6
    <3>2. /\ Times("mark", q, y)' = Times("mark", q, y)
          /\ Times("unmark", q, y)' = Times("unmark", q, y)
      BY <2>2, <2>3, <2>6
    <3> QED BY <2>1, <3>1, <3>2
  <2> QED BY <2>4, <2>5, <2>6
<1> QED BY <1>1, <1>2, <1>3, <1>4, StepKeeps

-----------------------------------------------------------------------------
(***************************************************************************)
(* The start.                                                              *)
(***************************************************************************)
LEMMA CountsAreNatural ==
    ASSUME NEW h
    PROVE  [k \in Containers |-> Cardinality({i \in Items : h[i] = k})] \in [Containers -> Nat]
BY ContentAssumption, FS_Subset, FS_CardinalityType

LEMMA InvInit == Init => IInv
<1> SUFFICES ASSUME Init PROVE IInv
  OBVIOUS
<1>1. \A r \in Requests : req[r] = Blank
  BY DEF Init
<1>2. TypeOK
  <2>1. /\ state \in [Items -> States] /\ home \in [Items -> Containers \union {None}]
        /\ author \in [Items -> Personas \union {None}]
        /\ likes \in [Posts -> SUBSET Personas] /\ shown \in [Items -> Nat]
        /\ marks \in SUBSET (Personas \X (Posts \union Topics))
        /\ stored \in [Keys -> Posts \union {None}]
        /\ approved \in SUBSET Items
    BY DEF Init
  <2>2. count \in [Containers -> Nat]
    BY CountsAreNatural DEF Init
  <2>3. req \in [Requests -> Handler]
    BY BlankIsTyped DEF Init
  <2>4. \A i \in Items : state[i] = "absent" <=> author[i] = None
    BY DEF Init
  <2> QED BY <2>1, <2>2, <2>3, <2>4 DEF TypeOK
<1>3. HandlersKnow
  <2>1. /\ InCourse(Blank) /\ KnowsPlaces(Blank) /\ KnowsState(Blank)
        /\ KnowsItem(Blank) /\ KnowsOrigin(Blank)
    BY DEF InCourse, KnowsItem, KnowsOrigin, KnowsPlaces, KnowsState, AtItem, Blank
  <2>2. Knows(Blank)
    BY <2>1 DEF Knows
  <2> QED BY <1>1, <2>2 DEF HandlersKnow
<1>4. ItemsAreHoused
  BY DEF ItemsAreHoused, Init, FirstHomes, Containers
<1>5. PublishedIsApproved
  BY DEF PublishedIsApproved, Init
<1>6. LikesAreFinite
  BY FS_EmptySet DEF LikesAreFinite, Init
<1>7. AnswersAreStored /\ AnsweredKeyMakesNoPost
  BY <1>1 DEF AnswersAreStored, AnsweredKeyMakesNoPost, Blank
<1>8. TallyInTime
  <2>1. \A i \in Posts : Likes(i) = {} /\ shown[i] = 0 /\ likes[i] = {}
    BY <1>1 DEF Likes, Blank, Init, Items
  <2> QED BY <2>1, FS_EmptySet DEF TallyInTime, TallyAt, Tally
<1>9. MarksAnswered
  <2>1. \A p, x : Named("mark", p, x) = {} /\ Named("unmark", p, x) = {}
    BY <1>1 DEF Named, Blank
  <2>2. \A p, x : Times("mark", p, x) = 0 /\ Times("unmark", p, x) = 0
    BY <2>1, NamedAreFinite, FS_EmptySet
  <2>3. marks = {}
    BY DEF Init
  <2> QED BY <2>2, <2>3 DEF MarksAnswered
<1> QED BY <1>2, <1>3, <1>4, <1>5, <1>6, <1>7, <1>8, <1>9 DEF IInv

-----------------------------------------------------------------------------
(***************************************************************************)
(* The theorems.                                                           *)
(***************************************************************************)
LEMMA InvNext == IInv /\ [Next]_vars => IInv'
<1> SUFFICES ASSUME IInv, [Next]_vars PROVE IInv'
  OBVIOUS
<1>1. CASE Next
  <2> PICK r \in Requests : Arrive(r) \/ GoOn(r) \/ Stop(r)
    BY <1>1 DEF Next
  <2>1. CASE HandleCreatePost(r) \/ HandleCreateComment(r)
    BY <2>1, InvCreateRequested
  <2>2. CASE \/ HandleUpdatePost(r) \/ HandleUpdateComment(r)
             \/ HandleDeletePost(r) \/ HandleDeleteComment(r)
    BY <2>2, InvEditRequested
  <2>3. CASE HandleCreateReaction(r) \/ HandleDeleteReaction(r)
    BY <2>3, InvLikeRequested
  <2>4. CASE \/ HandleCreateSave(r) \/ HandleDeleteSave(r)
             \/ HandleFollowTopic(r) \/ HandleUnfollowTopic(r)
    BY <2>4, InvMarked
  <2>5. CASE HandleModeration(r)
    BY <2>5, InvModerated
  <2>6. CASE ReplayResponse(r)
    BY <2>6, InvReplayed
  <2>7. CASE CreatePost(r) \/ CreateComment(r)
    BY <2>7, InvInserted
  <2>8. CASE SaveIdempotencyResponse(r)
    BY <2>8, InvSaved
  <2>9. CASE CountIn(r) \/ CountOut(r)
    BY <2>9, InvCounted
  <2>10. CASE UpdatePost(r) \/ UpdateComment(r)
    BY <2>10, InvEdited
  <2>11. CASE DeletePost(r) \/ DeleteComment(r)
    BY <2>11, InvDeleted
  <2>12. CASE CreateReaction(r) \/ CountReactions(r) \/ WriteReactionCounts(r)
    BY <2>12, InvReacting
  <2>13. CASE Stop(r)
    BY <2>13, InvStopped
  <2> QED BY <2>1, <2>2, <2>3, <2>4, <2>5, <2>6, <2>7, <2>8, <2>9, <2>10, <2>11, <2>12, <2>13
          DEF Arrive, GoOn
<1>2. CASE UNCHANGED vars
  <2>1. Sound' /\ UNCHANGED <<state, approved, likes, shown, marks, stored, req>>
    <3>1. UNCHANGED tables /\ UNCHANGED req
      BY <1>2 DEF vars
    <3> QED BY <3>1, TablesKept DEF tables
  <2>2. TypeOK'
    BY <2>1 DEF Sound, TablesOK, TypeOK, IInv
  <2>3. HandlersKnow'
    BY <2>1 DEF IInv, HandlersKnow, Knows, InCourse, KnowsItem, KnowsOrigin, KnowsPlaces,
                KnowsState
  <2>4. AnswersAreStored' /\ AnsweredKeyMakesNoPost'
    BY <2>1 DEF IInv, AnswersAreStored, AnsweredKeyMakesNoPost
  <2>5. TallyInTime'
    BY <2>1 DEF IInv, TallyInTime, TallyAt, Likes, InFlight, At, Tally
  <2>6. MarksAnswered'
    BY <2>1 DEF IInv, MarksAnswered, Times
  <2> QED BY <2>1, <2>2, <2>3, <2>4, <2>5, <2>6 DEF IInv, Sound
<1> QED BY <1>1, <1>2

\* The inductive invariant holds in every state of every run: whatever requests
\* arrive, however their statements interleave, and wherever they stop.
THEOREM Invariance == Spec => []IInv
BY InvInit, InvNext, PTL DEF Spec

\* Every table and every request under way keeps its type, for any requests.
THEOREM TypeCorrect == Spec => []TypeOK
<1>1. IInv => TypeOK
  BY DEF IInv
<1> QED BY <1>1, Invariance, PTL

\* Nobody but its author is shown an item no moderator has published, although an
\* edit writes back the state it had read (repository.go:411).
THEOREM ModerationComesFirst == Spec => []ShownOnlyIfApproved
<1>1. IInv => ShownOnlyIfApproved
  BY DEF IInv, PublishedIsApproved, ShownOnlyIfApproved, GetPost, GetComment
<1> QED BY <1>1, Invariance, PTL

\* A retry of a key that has been answered with 201 makes no second post, unless
\* the lookup of the key fails.
THEOREM RetriesMakeNoPost == Spec => []AnsweredKeyMakesNoPost
<1>1. IInv => AnsweredKeyMakesNoPost
  BY DEF IInv
<1> QED BY <1>1, Invariance, PTL

\* The inserts and the deletes of a save or a follow that succeed alternate, and
\* the row is there when an insert came last, however many requests race.
THEOREM MarksAreAnswered == Spec => []MarksAnswered
<1>1. IInv => MarksAnswered
  BY DEF IInv
<1> QED BY <1>1, Invariance, PTL

\* A post shows the number of its likes, unless reactions on it overlapped or
\* stopped, whatever edits, deletions and moderation it went through.
THEOREM TallyIsExact == Spec => []TallyExact
<1>1. IInv => TallyExact
  BY DEF IInv, TallyInTime, TallyAt, TallyExact, Likes, Tally
<1> QED BY <1>1, Invariance, PTL

\* A hidden or deleted item comes back only by a moderator, or by an edit that
\* writes the state it had read before.
THEOREM ComesBackOnlyAsRead == Spec => ComesBackAsRead
<1> DEFINE Restored(i) ==
             state[i] \in {"hidden", "deleted"} /\ state'[i] \notin {"hidden", "deleted"} =>
                 \/ RestoredByModerator(i)
                 \/ \E r \in Requests : At(r, "write") /\ req[r].item = i
                                        /\ req[r].read = state'[i]
<1>1. IInv /\ Next => \A i \in Items : Restored(i)
  <2> SUFFICES ASSUME IInv, Next, NEW i \in Items,
                      state[i] \in {"hidden", "deleted"},
                      state'[i] \notin {"hidden", "deleted"}
               PROVE  \/ RestoredByModerator(i)
                      \/ \E r \in Requests : At(r, "write") /\ req[r].item = i
                                             /\ req[r].read = state'[i]
    OBVIOUS
  <2> PICK r \in Requests : Arrive(r) \/ GoOn(r) \/ Stop(r)
    BY DEF Next
  <2>1. state \in [Items -> States] /\ state' # state
    BY DEF IInv, TypeOK
  <2>2. CASE HandleModeration(r)
    <3> PICK j \in Items, s \in {"published", "hidden", "deleted"} : Moderate(r, j, s)
      BY <2>2 DEF HandleModeration
    <3>1. At(r, "new")
      BY DEF Moderate
    <3>2. PICK h \in Handler :
            Goes(r, h) /\ h.op = "moderate" /\ h.item = j /\ state' = [state EXCEPT ![j] = s]
      BY Moderated
    <3>3. i = j
      BY <2>1, <3>2
    <3> QED BY <3>1, <3>2, <3>3 DEF RestoredByModerator, Goes
  <2>3. CASE UpdatePost(r) \/ UpdateComment(r)
    <3>1. PICK h \in Handler :
            /\ At(r, "write") /\ h.item = req[r].item
            /\ state' = [state EXCEPT ![h.item] = req[r].read]
      BY <2>3, Edited
    <3> QED BY <2>1, <3>1
  <2>4. CASE DeletePost(r) \/ DeleteComment(r)
    <3>1. PICK j : state' = [state EXCEPT ![j] = "deleted"]
      BY <2>4, Deleted
    <3> QED BY <2>1, <3>1
  <2>5. CASE CreatePost(r) \/ CreateComment(r)
    <3>1. PICK j \in Items :
            state[j] = "absent" /\ state' = [state EXCEPT ![j] = "pendingReview"]
      BY <2>5, Inserted
    <3> QED BY <2>1, <3>1
  <2>6. CASE HandleCreatePost(r) \/ HandleCreateComment(r)
    BY <2>1, <2>6, CreateRequested DEF IInv, tables
  <2>7. CASE \/ HandleUpdatePost(r) \/ HandleUpdateComment(r)
             \/ HandleDeletePost(r) \/ HandleDeleteComment(r)
    BY <2>1, <2>7, EditRequested DEF tables
  <2>8. CASE HandleCreateReaction(r) \/ HandleDeleteReaction(r)
    BY <2>1, <2>8, LikeRequested
  <2>9. CASE \/ HandleCreateSave(r) \/ HandleDeleteSave(r)
             \/ HandleFollowTopic(r) \/ HandleUnfollowTopic(r)
    BY <2>1, <2>9, Marked
  <2>10. CASE ReplayResponse(r)
    BY <2>1, <2>10, Replayed DEF tables
  <2>11. CASE SaveIdempotencyResponse(r)
    BY <2>1, <2>11, Saved
  <2>12. CASE CountIn(r) \/ CountOut(r)
    BY <2>1, <2>12, CountedIn, CountedOut
  <2>13. CASE CreateReaction(r) \/ CountReactions(r) \/ WriteReactionCounts(r)
    BY <2>1, <2>13, Reacting
  <2>14. CASE Stop(r)
    BY <2>1, <2>14, Stopped DEF tables
  <2> QED BY <2>2, <2>3, <2>4, <2>5, <2>6, <2>7, <2>8, <2>9, <2>10, <2>11, <2>12, <2>13, <2>14
          DEF Arrive, GoOn
<1>2. IInv /\ [Next]_vars => [\A i \in Items : Restored(i)]_vars
  BY <1>1
<1> QED BY <1>2, Invariance, PTL DEF Spec, ComesBackAsRead

-----------------------------------------------------------------------------
(***************************************************************************)
(* The counters.  A ledger explains what a counter says: bel, the place    *)
(* each item is counted in; over and under, for each fault of a request,   *)
(* the place that has one too many and the one that has one too few        *)
(* because of it.  While a request changes an item alone (it leads), the   *)
(* item is counted where its statements have got to; otherwise it is       *)
(* counted where it is, and what the others did is charged to their        *)
(* overlaps.                                                               *)
(***************************************************************************)
Places == Containers \union {None}
Pairs == Requests \X Faults

\* 1 if p is the place k.
One(p, k) == IF p = k THEN 1 ELSE 0

\* How many x of D the function f takes to k.
Fibre(f, D, k) == Cardinality({x \in D : f[x] = k})

Balanced(cnt, bel, over, under) ==
    \A k \in Containers :
        cnt[k] + Fibre(under, Pairs, k) = Fibre(bel, Items, k) + Fibre(over, Pairs, k)

LEMMA FibreType ==
    ASSUME NEW D, IsFiniteSet(D), NEW f, NEW k
    PROVE  /\ IsFiniteSet({x \in D : f[x] = k}) /\ Fibre(f, D, k) \in Nat
           /\ \A x \in D : f[x] = k => Fibre(f, D, k) # 0
<1>1. IsFiniteSet({x \in D : f[x] = k})
  BY FS_Subset
<1> QED BY <1>1, FS_CardinalityType, FS_EmptySet DEF Fibre

\* One element moves from one place to another.
ButFor(x, f, g, D) == \A y \in D \ {x} : g[y] = f[y]

LEMMA FibreMoves ==
    ASSUME NEW D, IsFiniteSet(D), NEW f, NEW g, NEW x \in D, ButFor(x, f, g, D), NEW k
    PROVE  Fibre(g, D, k) + One(f[x], k) = Fibre(f, D, k) + One(g[x], k)
<1> DEFINE R == {y \in D : y # x /\ f[y] = k}
<1>1. IsFiniteSet(R) /\ Cardinality(R) \in Nat /\ x \notin R
  BY FS_Subset, FS_CardinalityType
<1>2. ASSUME NEW e, ButFor(x, f, e, D)
      PROVE  Fibre(e, D, k) = Cardinality(R) + One(e[x], k)
  <2>1. CASE e[x] = k
    <3>1. {y \in D : e[y] = k} = R \union {x}
      BY <1>2, <2>1 DEF ButFor
    <3>2. Cardinality(R \union {x}) = Cardinality(R) + 1
      BY <1>1, FS_AddElement
    <3> QED BY <2>1, <3>1, <3>2 DEF Fibre, One
  <2>2. CASE e[x] # k
    <3>1. {y \in D : e[y] = k} = R
      BY <1>2, <2>2 DEF ButFor
    <3>2. Fibre(e, D, k) = Cardinality(R) /\ One(e[x], k) = 0
      BY <2>2, <3>1 DEF Fibre, One
    <3> HIDE DEF R
    <3> QED BY <1>1, <3>2
  <2> QED BY <2>1, <2>2
<1> HIDE DEF R
<1>3. Fibre(f, D, k) = Cardinality(R) + One(f[x], k)
  BY <1>2 DEF ButFor
<1>4. Fibre(g, D, k) = Cardinality(R) + One(g[x], k)
  BY <1>2
<1> QED BY <1>1, <1>3, <1>4 DEF One

LEMMA PairsAreFinite == IsFiniteSet(Pairs) /\ IsFiniteSet(Items)
<1>1. IsFiniteSet(Faults)
  <2>1. IsFiniteSet({"overlap"})
    BY FS_Singleton
  <2>2. IsFiniteSet({"overlap"} \union {"uncount"})
    BY <2>1, FS_AddElement
  <2>3. IsFiniteSet({"overlap"} \union {"uncount"} \union {"count"})
    BY <2>2, FS_AddElement
  <2>4. IsFiniteSet({"overlap"} \union {"uncount"} \union {"count"} \union {"stop"})
    BY <2>3, FS_AddElement
  <2>5. IsFiniteSet({"overlap"} \union {"uncount"} \union {"count"} \union {"stop"}
                    \union {"removal"})
    BY <2>4, FS_AddElement
  <2>6. Faults = {"overlap"} \union {"uncount"} \union {"count"} \union {"stop"}
                 \union {"removal"}
    BY DEF Faults
  <2> QED BY <2>5, <2>6
<1> QED BY <1>1, ContentAssumption, FS_Product DEF Pairs

\* One place changes in each of the four functions, so that the sums still agree.
LEMMA BalanceMoves ==
    ASSUME NEW cnt \in [Containers -> Nat], NEW cnt2 \in [Containers -> Nat],
           NEW bel \in [Items -> Places],
           NEW over \in [Pairs -> Places], NEW under \in [Pairs -> Places],
           Balanced(cnt, bel, over, under),
           NEW x \in Items, NEW s \in Pairs, NEW t \in Pairs,
           NEW b \in Places, NEW o \in Places, NEW u \in Places,
           \A k \in Containers :
               cnt2[k] + One(u, k) + One(bel[x], k) + One(over[s], k)
                 = cnt[k] + One(under[t], k) + One(b, k) + One(o, k)
    PROVE  Balanced(cnt2, [bel EXCEPT ![x] = b], [over EXCEPT ![s] = o],
                    [under EXCEPT ![t] = u])
<1> SUFFICES ASSUME NEW k \in Containers
             PROVE  cnt2[k] + Fibre([under EXCEPT ![t] = u], Pairs, k)
                      = Fibre([bel EXCEPT ![x] = b], Items, k)
                        + Fibre([over EXCEPT ![s] = o], Pairs, k)
  BY DEF Balanced
<1>1. PICK fu \in Nat, fb \in Nat, fo \in Nat, gu \in Nat, gb \in Nat, go \in Nat :
        /\ fu = Fibre(under, Pairs, k) /\ gu = Fibre([under EXCEPT ![t] = u], Pairs, k)
        /\ fb = Fibre(bel, Items, k) /\ gb = Fibre([bel EXCEPT ![x] = b], Items, k)
        /\ fo = Fibre(over, Pairs, k) /\ go = Fibre([over EXCEPT ![s] = o], Pairs, k)
  BY PairsAreFinite, FibreType
<1>2. /\ gu + One(under[t], k) = fu + One(u, k)
      /\ gb + One(bel[x], k) = fb + One(b, k)
      /\ go + One(over[s], k) = fo + One(o, k)
  <2> DEFINE under2 == [under EXCEPT ![t] = u]
             bel2 == [bel EXCEPT ![x] = b]
             over2 == [over EXCEPT ![s] = o]
  <2>1a. under2[t] = u /\ ButFor(t, under, under2, Pairs)
    BY DEF ButFor
  <2>1b. bel2[x] = b /\ ButFor(x, bel, bel2, Items)
    BY DEF ButFor
  <2>1c. over2[s] = o /\ ButFor(s, over, over2, Pairs)
    BY DEF ButFor
  <2>2. /\ gu = Fibre(under2, Pairs, k) /\ gb = Fibre(bel2, Items, k)
        /\ go = Fibre(over2, Pairs, k)
    BY <1>1
  <2> HIDE DEF under2, bel2, over2
  <2>3. Fibre(under2, Pairs, k) + One(under[t], k) = Fibre(under, Pairs, k) + One(under2[t], k)
    BY <2>1a, PairsAreFinite, FibreMoves
  <2>4. Fibre(bel2, Items, k) + One(bel[x], k) = Fibre(bel, Items, k) + One(bel2[x], k)
    BY <2>1b, PairsAreFinite, FibreMoves
  <2>5. Fibre(over2, Pairs, k) + One(over[s], k) = Fibre(over, Pairs, k) + One(over2[s], k)
    BY <2>1c, PairsAreFinite, FibreMoves
  <2> QED BY <1>1, <2>1a, <2>1b, <2>1c, <2>2, <2>3, <2>4, <2>5
<1>3. cnt[k] + fu = fb + fo
  BY <1>1 DEF Balanced
<1>4. cnt2[k] + One(u, k) + One(bel[x], k) + One(over[s], k)
        = cnt[k] + One(under[t], k) + One(b, k) + One(o, k)
  OBVIOUS
<1>5. cnt[k] \in Nat /\ cnt2[k] \in Nat
  OBVIOUS
<1>6. cnt2[k] + gu = gb + go
  BY <1>2, <1>3, <1>4, <1>5 DEF One
<1> QED BY <1>1, <1>6

\* Of a request's record: whether it leads, where its item is counted then,
\* where the item is if nobody else has written it, and whether it has still to
\* write the row (a deletion: to mark it).
Leads(h) == h.op \in Writers /\ h.pc \in AtItem /\ "overlap" \notin h.faults

CountedAt(h) == IF h.pc \in {"uncount", "delete"} THEN h.from
                ELSE IF h.pc = "write" THEN h.to ELSE None

LeftAt(h) == IF h.op = "create" THEN h.to
             ELSE IF h.op = "delete" /\ h.pc = "uncount" THEN None ELSE h.from

Open(h) == \/ h.op = "update" /\ h.pc # "done"
           \/ h.op = "delete" /\ h.pc = "delete"

FaultsFit(h) ==
    /\ h.pc \in {"delete", "uncount"} => "uncount" \notin h.faults
    /\ h.pc \in {"delete", "uncount", "count"} => "count" \notin h.faults
    /\ h.pc # "done" => "stop" \notin h.faults
    /\ h.op = "create" => "overlap" \notin h.faults
    /\ h.op \in Writers /\ h.faults # {} => h.item \in Items

\* A comment stays under its post.
StaysHome(h) ==
    h.op = "update" /\ h.pc \in AtItem /\ h.item \in Comments => home[h.item] = h.to

Location(i) == IF Live(i) THEN home[i] ELSE None

LeadsOn(r, i) == Leads(req[r]) /\ req[r].item = i

OneLeads == \A r, q \in Requests : \A i \in Items : LeadsOn(r, i) /\ LeadsOn(q, i) => r = q

FaultsInTime == \A r \in Requests : FaultsFit(req[r])

CommentsStay == \A r \in Requests : StaysHome(req[r])

HomesTouched ==
    \A r \in Requests : \A i \in Items :
        req[r].op \in Writers /\ req[r].item = i => home[i] \in Touched(i)

LeadInv == OneLeads /\ FaultsInTime /\ CommentsStay /\ HomesTouched

\* What a step of a request leaves of its record.
Keeps(g, h) ==
    \/ g = Blank
    \/ /\ h.op = g.op /\ h.from = g.from /\ h.to = g.to /\ g.faults \subseteq h.faults
       /\ h.item = g.item \/ (g.item = None /\ g.faults = {})

Faulty(t) == req[t[1]].op \in Writers /\ t[2] \in req[t[1]].faults

LEMMA TouchedMeans ==
    ASSUME NEW i
    PROVE  \A p : p \in Touched(i) <=>
                    \E q \in Requests : req[q].item = i /\ (p = req[q].from \/ p = req[q].to)
BY DEF Touched

LEMMA StepFacts ==
    ASSUME IInv, NEW r \in Requests, NEW h \in Handler, Goes(r, h), Keeps(req[r], h)
    PROVE  /\ \A t \in Pairs : Faulty(t) => Faulty(t)' /\ req'[t[1]].item = req[t[1]].item
           /\ \A i \in Items : Touched(i) \subseteq Touched(i)'
           /\ h.item \in Items => h.from \in Touched(h.item)' /\ h.to \in Touched(h.item)'
<1>1. ASSUME NEW t \in Pairs, Faulty(t)
      PROVE  Faulty(t)' /\ req'[t[1]].item = req[t[1]].item
  <2>1. CASE t[1] = r
    BY <1>1, <2>1 DEF Faulty, Goes, Keeps, Blank, Pairs
  <2>2. CASE t[1] # r
    BY <1>1, <2>2 DEF Faulty, Goes, Pairs
  <2> QED BY <2>1, <2>2
<1>2. ASSUME NEW i \in Items, NEW p \in Touched(i)
      PROVE  p \in Touched(i)'
  <2>1. PICK q \in Requests : req[q].item = i /\ (p = req[q].from \/ p = req[q].to)
    BY <1>2, TouchedMeans
  <2>2. None \notin Items
    BY ContentAssumption
  <2>3. req'[q].item = i /\ (p = req'[q].from \/ p = req'[q].to)
    BY <2>1, <2>2 DEF Goes, Keeps, Blank
  <2> QED BY <2>3 DEF Touched
<1>3. h.item \in Items => h.from \in Touched(h.item)' /\ h.to \in Touched(h.item)'
  BY DEF Touched, Goes
<1> QED BY <1>1, <1>2, <1>3

LEMMA LeadersItem ==
    ASSUME IInv, NEW r \in Requests, Leads(req[r])
    PROVE  req[r].item \in Items /\ state[req[r].item] # "absent"
BY HandlerKnows DEF Leads, Knows, KnowsItem

\* What is to be shown of a step for LeadInv.
LEMMA LeadStep ==
    ASSUME IInv, LeadInv, NEW r \in Requests, NEW h \in Handler, Goes(r, h), Keeps(req[r], h),
           FaultsFit(h), StaysHome(h)',
           Leads(h) => \A q \in Requests \ {r} : ~LeadsOn(q, h.item),
           \A j \in Comments : state[j] # "absent" => home'[j] = home[j],
           \A j \in Items : home'[j] = home[j] \/ home'[j] \in Touched(j)',
           h.op \in Writers /\ h.item \in Items => home'[h.item] \in Touched(h.item)'
    PROVE  LeadInv'
<1>1. OneLeads'
  BY DEF LeadInv, OneLeads, LeadsOn, Goes
<1>2. FaultsInTime'
  BY DEF LeadInv, FaultsInTime, Goes
<1>3. CommentsStay'
  <2> SUFFICES ASSUME NEW q \in Requests PROVE StaysHome(req[q])'
    BY DEF CommentsStay
  <2>1. CASE q = r
    BY <2>1 DEF Goes, StaysHome
  <2>2. CASE q # r
    <3>1. /\ StaysHome(req[q]) /\ req'[q] = req[q]
          /\ req[q].pc \in AtItem => state[req[q].item] # "absent"
      BY <2>2, HandlerKnows DEF LeadInv, CommentsStay, Goes, Knows, KnowsItem
    <3> QED BY <3>1 DEF StaysHome
  <2> QED BY <2>1, <2>2
<1>4. HomesTouched'
  <2> SUFFICES ASSUME NEW q \in Requests, NEW i \in Items,
                      req'[q].op \in Writers, req'[q].item = i
               PROVE  home'[i] \in Touched(i)'
    BY DEF HomesTouched
  <2>1. CASE q = r
    BY <2>1 DEF Goes
  <2>2. CASE q # r
    <3>1. home[i] \in Touched(i)
      BY <2>2 DEF LeadInv, HomesTouched, Goes
    <3> QED BY <3>1, StepFacts
  <2> QED BY <2>1, <2>2
<1> QED BY <1>1, <1>2, <1>3, <1>4 DEF LeadInv

\* The steps that concern no counter.
QuietStep(r) ==
    \/ HandleCreatePost(r) \/ HandleCreateComment(r)
    \/ HandleCreateReaction(r) \/ HandleDeleteReaction(r)
    \/ HandleCreateSave(r) \/ HandleDeleteSave(r)
    \/ HandleFollowTopic(r) \/ HandleUnfollowTopic(r)
    \/ ReplayResponse(r) \/ SaveIdempotencyResponse(r)
    \/ CreateReaction(r) \/ CountReactions(r) \/ WriteReactionCounts(r)
    \/ Stop(r) /\ req[r].op = "like"

LEMMA Quietly ==
    ASSUME IInv, LeadInv, NEW r \in Requests, QuietStep(r)
    PROVE  \E h \in Handler :
             /\ Goes(r, h) /\ Keeps(req[r], h) /\ UNCHANGED <<state, home, count>>
             /\ req[r].pc \notin AtItem /\ h.pc \notin AtItem
             /\ h.op \notin {"update", "delete"} /\ FaultsFit(h)
             /\ h.op \in Writers /\ h.item \in Items =>
                    req[r].op \in Writers /\ req[r].item = h.item
<1>1. None \notin Items
  BY ContentAssumption
<1>2. req[r] \in Handler /\ Knows(req[r]) /\ FaultsFit(req[r])
  BY HandlerKnows DEF LeadInv, FaultsInTime
<1>3. CASE HandleCreatePost(r) \/ HandleCreateComment(r)
  <2>1. PICK h \in Handler :
          /\ Goes(r, h) /\ UNCHANGED tables /\ req[r] = Blank /\ h.op = "create"
          /\ h.pc \in {"answer", "insert"} /\ h.item = None /\ h.faults = {}
    BY <1>3, CreateRequested DEF IInv
  <2> QED BY <1>1, <2>1 DEF Keeps, tables, AtItem, FaultsFit, Blank
<1>4. CASE HandleCreateReaction(r) \/ HandleDeleteReaction(r)
  <2>1. PICK h \in Handler, i \in Posts :
          /\ Goes(r, h) /\ UNCHANGED <<state, home, count>> /\ req[r] = Blank
          /\ h.op = "like" /\ h.pc \in {"upsert", "tally"} /\ h.faults = OverlapOf("like", i)
    BY <1>4, LikeRequested
  <2>2. h.faults \subseteq {"overlap"}
    BY <2>1 DEF OverlapOf
  <2> QED BY <2>1, <2>2 DEF Keeps, AtItem, FaultsFit, Blank, Writers
<1>5. CASE \/ HandleCreateSave(r) \/ HandleDeleteSave(r)
           \/ HandleFollowTopic(r) \/ HandleUnfollowTopic(r)
  <2>1. PICK h \in Handler :
          /\ Goes(r, h) /\ UNCHANGED <<state, home, count>> /\ req[r] = Blank
          /\ h.pc = "done" /\ h.op \in {"mark", "unmark"}
    BY <1>5, Marked
  <2> QED BY <2>1 DEF Keeps, AtItem, FaultsFit, Blank, Writers
<1>6. CASE ReplayResponse(r)
  <2>1. PICK h \in Handler :
          /\ Goes(r, h) /\ UNCHANGED tables /\ At(r, "answer") /\ Same(req[r], h)
          /\ h.pc = "done" /\ h.item = None /\ h.faults = req[r].faults
    BY <1>6, Replayed
  <2>2. req[r].op = "create" /\ req[r].item = None
    BY <1>2, <2>1 DEF At, Knows, InCourse, KnowsItem
  <2> QED BY <1>1, <1>2, <2>1, <2>2 DEF Keeps, AtItem, FaultsFit, Same, At, tables
<1>7. CASE SaveIdempotencyResponse(r)
  <2>1. PICK h \in Handler :
          /\ Goes(r, h) /\ UNCHANGED <<state, home, count>> /\ At(r, "save")
          /\ Same(req[r], h) /\ h.pc = "done" /\ h.item = req[r].item
          /\ h.faults = req[r].faults
    BY <1>7, Saved
  <2>2. req[r].op = "create"
    BY <1>2, <2>1 DEF At, Knows, InCourse
  <2> QED BY <1>2, <2>1, <2>2 DEF Keeps, AtItem, FaultsFit, Same, At
<1>8. CASE CreateReaction(r) \/ CountReactions(r) \/ WriteReactionCounts(r)
  <2>1. PICK h \in Handler :
          /\ Goes(r, h) /\ Same(req[r], h) /\ h.op = "like" /\ InFlight(r)
          /\ h.item = req[r].item /\ h.faults = req[r].faults
          /\ UNCHANGED <<state, home, count>>
          /\ h.pc \in {"tally", "writeTally", "done"}
    BY <1>8, Reacting
  <2>2. req[r].pc \notin AtItem
    BY <1>2, <2>1 DEF Knows, InCourse, AtItem, Same
  <2> QED BY <1>2, <2>1, <2>2 DEF Keeps, AtItem, FaultsFit, Same, Writers, InFlight
<1>9. CASE Stop(r) /\ req[r].op = "like"
  <2>1. PICK h \in Handler :
          /\ Goes(r, h) /\ Same(req[r], h) /\ UNCHANGED tables
          /\ h.pc = "done" /\ h.item = req[r].item /\ h.faults = req[r].faults \union {"stop"}
    BY <1>9, Stopped
  <2>2. req[r].pc \notin AtItem
    BY <1>2, <1>9 DEF Knows, InCourse, AtItem
  <2> QED BY <1>2, <1>9, <2>1, <2>2 DEF Keeps, AtItem, FaultsFit, Same, Writers, tables
<1> QED BY <1>3, <1>4, <1>5, <1>6, <1>7, <1>8, <1>9 DEF QuietStep

LEMMA LeadQuiet ==
    ASSUME IInv, LeadInv, NEW r \in Requests, QuietStep(r)
    PROVE  LeadInv'
<1> PICK h \in Handler :
             /\ Goes(r, h) /\ Keeps(req[r], h) /\ UNCHANGED <<state, home, count>>
             /\ req[r].pc \notin AtItem /\ h.pc \notin AtItem
             /\ h.op \notin {"update", "delete"} /\ FaultsFit(h)
             /\ h.op \in Writers /\ h.item \in Items =>
                    req[r].op \in Writers /\ req[r].item = h.item
  BY Quietly
<1>1. StaysHome(h)' /\ ~Leads(h)
  BY DEF StaysHome, Leads
<1>2. h.op \in Writers /\ h.item \in Items => home'[h.item] \in Touched(h.item)'
  BY StepFacts DEF LeadInv, HomesTouched
<1> QED BY <1>1, <1>2, LeadStep

\* The steps of writers on their item.
LEMMA LeadInserted ==
    ASSUME IInv, LeadInv, NEW r \in Requests, NEW h \in Handler, NEW i \in Items,
           Goes(r, h), At(r, "insert"), Same(req[r], h),
           h.pc = "count", h.item = i, h.faults = {}, h.to \in Containers,
           state[i] = "absent", home' = [home EXCEPT ![i] = h.to]
    PROVE  LeadInv' /\ Keeps(req[r], h) /\ Leads(h) /\ h.op = "create"
           /\ \A q \in Requests : ~LeadsOn(q, i)
<1>1. req[r].op = "create" /\ req[r].item = None /\ req[r].faults = {}
  BY HandlerKnows DEF At, Knows, InCourse, KnowsItem, KnowsOrigin
<1>2. Keeps(req[r], h) /\ h.op = "create" /\ Leads(h)
  BY <1>1 DEF Keeps, Same, Leads, AtItem, Writers
<1>3. \A q \in Requests : ~LeadsOn(q, i)
  BY LeadersItem DEF LeadsOn
<1>4. home \in [Items -> Places]
  BY DEF IInv, TypeOK, Places
<1>5. FaultsFit(h) /\ StaysHome(h)'
  BY <1>2 DEF FaultsFit, StaysHome
<1>6. /\ \A j \in Comments : state[j] # "absent" => home'[j] = home[j]
      /\ \A j \in Items : home'[j] = home[j] \/ home'[j] \in Touched(j)'
      /\ home'[h.item] \in Touched(h.item)'
  BY <1>2, <1>4, StepFacts DEF Items
<1> QED BY <1>2, <1>3, <1>5, <1>6, LeadStep

LEMMA LeadEditRequested ==
    ASSUME IInv, LeadInv, NEW r \in Requests, NEW h \in Handler, NEW i \in Items,
           Goes(r, h), req[r] = Blank, UNCHANGED tables, h.item = i, h.from = home[i],
           \/ h.op = "update" /\ h.pc = "write" /\ h.to = home[i]
           \/ h.op = "update" /\ h.pc = "uncount" /\ i \in Posts /\ h.to \in Topics
           \/ h.op = "delete" /\ h.pc = "delete" /\ h.to = None,
           h.faults = OverlapOf(h.op, i)
    PROVE  LeadInv' /\ (Leads(h) => \A q \in Requests : ~LeadsOn(q, i))
<1>1. Keeps(req[r], h) /\ home' = home
  BY DEF Keeps, tables
<1>2. "overlap" \notin h.faults => \A q \in Requests : ~LeadsOn(q, i)
  <2> SUFFICES ASSUME NEW q \in Requests, LeadsOn(q, i) PROVE "overlap" \in h.faults
    OBVIOUS
  <2>1. InFlight(q) /\ req[q].item = i /\ req[q].op \in Writers /\ h.op \in Writers
    BY DEF LeadsOn, Leads, InFlight, AtItem, Writers
  <2>2. Busy(h.op, i)
    BY <2>1 DEF Busy
  <2> QED BY <2>2 DEF OverlapOf
<1>3. FaultsFit(h)
  BY DEF FaultsFit, OverlapOf
<1>4. StaysHome(h)'
  <2>1. i \in Posts => i \notin Comments
    BY ContentAssumption
  <2> QED BY <1>1, <2>1 DEF StaysHome
<1>5. home'[h.item] \in Touched(h.item)'
  BY <1>1, StepFacts
<1>6. Leads(h) => \A q \in Requests : ~LeadsOn(q, i)
  BY <1>2 DEF Leads
<1> QED BY <1>1, <1>3, <1>4, <1>5, <1>6, LeadStep

LEMMA LeadEdited ==
    ASSUME IInv, LeadInv, NEW r \in Requests, NEW h \in Handler,
           Goes(r, h), Same(req[r], h), h.pc = "done", h.item = req[r].item, h.item \in Items,
           h.faults = req[r].faults, req[r].pc # "done",
           \/ h.item \in Posts /\ home' = [home EXCEPT ![h.item] = h.to]
           \/ h.item \in Comments /\ home' = home,
           h.op \in Writers
    PROVE  LeadInv' /\ Keeps(req[r], h)
<1>1. Keeps(req[r], h)
  BY DEF Keeps, Same
<1>2. home \in [Items -> Places]
  BY DEF IInv, TypeOK, Places
<1>3. FaultsFit(h) /\ StaysHome(h)' /\ ~Leads(h)
  <2>1. FaultsFit(req[r])
    BY DEF LeadInv, FaultsInTime
  <2> QED BY <2>1 DEF FaultsFit, StaysHome, AtItem, Leads, Same
<1>4. home[h.item] \in Touched(h.item)
  BY DEF LeadInv, HomesTouched, Same
<1>5. /\ \A j \in Comments : state[j] # "absent" => home'[j] = home[j]
      /\ \A j \in Items : home'[j] = home[j] \/ home'[j] \in Touched(j)'
      /\ home'[h.item] \in Touched(h.item)'
  <2>1. Posts \cap Comments = {}
    BY ContentAssumption
  <2> QED BY <1>1, <1>2, <1>4, <2>1, StepFacts DEF Items
<1> QED BY <1>1, <1>3, <1>5, LeadStep

LEMMA LeadGoesOn ==
    ASSUME IInv, LeadInv, NEW r \in Requests, NEW h \in Handler,
           Goes(r, h), Same(req[r], h), req[r].pc \in AtItem, home' = home,
           h.item = req[r].item, req[r].op \in Writers,
           \/ req[r].pc = "count" /\ h.pc \in {"write", "save", "done"}
              /\ h.faults \subseteq req[r].faults \union {"count"}
           \/ req[r].pc = "uncount" /\ h.pc \in {"count", "done"}
              /\ h.faults \subseteq req[r].faults \union {"uncount"}
           \/ req[r].pc = "delete" /\ h.pc = "uncount" /\ h.faults = req[r].faults
           \/ h.pc = "done" /\ h.faults = req[r].faults \union {"stop"},
           req[r].faults \subseteq h.faults
    PROVE  LeadInv' /\ Keeps(req[r], h)
<1>1. Keeps(req[r], h)
  BY DEF Keeps, Same
<1>2. FaultsFit(req[r]) /\ StaysHome(req[r])
  BY DEF LeadInv, FaultsInTime, CommentsStay
<1>3. FaultsFit(h)
  <2>1. h.item \in Items
    BY HandlerKnows DEF Knows, KnowsItem
  <2>2. req[r].pc = "count" => "stop" \notin h.faults \/ h.pc = "done"
    BY <1>2 DEF FaultsFit
  <2>3. req[r].pc = "uncount" => "stop" \notin h.faults \/ h.pc = "done"
    BY <1>2 DEF FaultsFit
  <2>4. req[r].pc = "uncount" => "count" \notin h.faults \/ h.pc = "done"
    BY <1>2 DEF FaultsFit
  <2>5. h.op = "create" => "overlap" \notin h.faults
    BY <1>2 DEF FaultsFit, Same
  <2> QED BY <1>2, <2>1, <2>2, <2>3, <2>4, <2>5 DEF FaultsFit
<1>4. StaysHome(h)'
  BY <1>2 DEF StaysHome, Same
<1>5. Leads(h) => \A q \in Requests \ {r} : ~LeadsOn(q, h.item)
  <2> SUFFICES ASSUME Leads(h), NEW q \in Requests \ {r}, LeadsOn(q, h.item) PROVE FALSE
    OBVIOUS
  <2>1. Leads(req[r])
    BY DEF Leads, Same
  <2> QED BY <2>1, LeadersItem DEF LeadInv, OneLeads, LeadsOn
<1>6. h.op \in Writers /\ h.item \in Items => home'[h.item] \in Touched(h.item)'
  BY <1>1, StepFacts DEF LeadInv, HomesTouched, Same
<1> QED BY <1>1, <1>3, <1>4, <1>5, <1>6, LeadStep

LEMMA LeadModerated ==
    ASSUME IInv, LeadInv, NEW r \in Requests, NEW h \in Handler, NEW i \in Items,
           Goes(r, h), req[r] = Blank, home' = home,
           h.op = "moderate", h.pc = "done", h.item = i, h.from = home[i]
    PROVE  LeadInv'
<1>1. Keeps(req[r], h)
  BY DEF Keeps
<1>2. FaultsFit(h) /\ StaysHome(h)' /\ ~Leads(h)
  BY DEF FaultsFit, StaysHome, AtItem, Leads
<1>3. home'[h.item] \in Touched(h.item)'
  BY <1>1, StepFacts
<1> QED BY <1>1, <1>2, <1>3, LeadStep

-----------------------------------------------------------------------------
(***************************************************************************)
(* What a ledger has to say.                                               *)
(***************************************************************************)
Overlap(r) == <<r, "overlap">>

\* Only faults are charged, at places their item was in or was meant for.
Charged(over, under) ==
    \A t \in Pairs :
        /\ over[t] \in Touched(req[t[1]].item) \union {None}
        /\ under[t] \in Touched(req[t[1]].item) \union {None}
        /\ ~Faulty(t) => over[t] = None /\ under[t] = None

\* Items are believed where their leader has counted them, or where they are.
Believed(bel) ==
    \A i \in Items :
        /\ \A r \in Requests : LeadsOn(r, i) => bel[i] = CountedAt(req[r])
        /\ (\A r \in Requests : ~LeadsOn(r, i)) => bel[i] = Location(i)

\* What a request that overlaps has counted so far is charged to its overlap.
OverlapsCharged(over, under) ==
    \A r \in Requests :
        "overlap" \in req[r].faults /\ req[r].op \in Writers =>
            /\ Open(req[r]) =>
                   over[Overlap(r)] = (IF req[r].pc = "write" THEN req[r].to ELSE None)
            /\ req[r].pc \in {"delete", "uncount"} => under[Overlap(r)] = None

\* A fault on item i that is charged with place p and whose charge may change.
Free(t) == Faulty(t) /\ (t[2] = "overlap" => ~Open(req[t[1]]))
FreeAt(over, i, p) == \E t \in Pairs : Free(t) /\ req[t[1]].item = i /\ over[t] = p

\* When others have moved a leader's item, a fault of theirs is charged with where it is.
LeftOrCharged(over) ==
    \A r \in Requests : \A i \in Items :
        LeadsOn(r, i) => Location(i) = LeftAt(req[r]) \/ FreeAt(over, i, Location(i))

Ledger(bel, over, under) ==
    /\ bel \in [Items -> Places] /\ over \in [Pairs -> Places] /\ under \in [Pairs -> Places]
    /\ Balanced(count, bel, over, under)
    /\ Charged(over, under)
    /\ Believed(bel)
    /\ OverlapsCharged(over, under)
    /\ LeftOrCharged(over)

Explained == \E bel, over, under : Ledger(bel, over, under)

LEMMA ChargesStay ==
    ASSUME IInv, LeadInv, NEW r \in Requests, NEW h \in Handler, Goes(r, h), Keeps(req[r], h),
           NEW over, NEW under, Charged(over, under)
    PROVE  Charged(over, under)'
<1> SUFFICES ASSUME NEW t \in Pairs
             PROVE  (/\ over[t] \in Touched(req[t[1]].item) \union {None}
                     /\ under[t] \in Touched(req[t[1]].item) \union {None}
                     /\ ~Faulty(t) => over[t] = None /\ under[t] = None)'
  BY DEF Charged
<1>1. PICK x : x = req'[t[1]].item
  OBVIOUS
<1>2. CASE ~Faulty(t)
  BY <1>2 DEF Charged
<1>3. CASE Faulty(t)
  <2>1. t[1] \in Requests /\ req[t[1]].op \in Writers /\ req[t[1]].faults # {}
    BY <1>3 DEF Faulty, Pairs
  <2>2. req[t[1]].item \in Items
    BY <2>1 DEF LeadInv, FaultsInTime, FaultsFit
  <2>3. /\ x = req[t[1]].item /\ Faulty(t)' /\ x \in Items
        /\ over[t] \in Touched(x) \union {None} /\ under[t] \in Touched(x) \union {None}
    BY <1>1, <1>3, <2>2, StepFacts DEF Charged
  <2> QED BY <1>1, <2>3, StepFacts
<1> QED BY <1>2, <1>3

\* What is free to be charged stays so.
LEMMA FreeStays ==
    ASSUME IInv, NEW r \in Requests, NEW h \in Handler, Goes(r, h), Keeps(req[r], h),
           NEW i, NEW p, NEW over, NEW over2, FreeAt(over, i, p),
           Open(h) => Open(req[r]) \/ req[r] = Blank,
           \A t \in Pairs : Free(t) /\ req[t[1]].item = i => over2[t] = over[t]
    PROVE  FreeAt(over2, i, p)'
<1>1. PICK t \in Pairs : Free(t) /\ req[t[1]].item = i /\ over[t] = p
  BY DEF FreeAt
<1>2. Faulty(t)' /\ req'[t[1]].item = i
  BY <1>1, StepFacts DEF Free
<1>3. t[2] = "overlap" => ~Open(req'[t[1]])
  <2>1. CASE t[1] = r
    <3>1. req[r] # Blank
      BY <1>1, <2>1 DEF Free, Faulty, Blank
    <3> QED BY <1>1, <2>1, <3>1 DEF Free, Goes
  <2>2. CASE t[1] # r
    BY <1>1, <2>2 DEF Free, Goes, Pairs
  <2> QED BY <2>1, <2>2
<1>4. Free(t)'
  BY <1>2, <1>3 DEF Free, Open
<1> QED BY <1>1, <1>2, <1>4 DEF FreeAt

\* A step on item i that changes only what faults on i are charged with.
LEMMA LedgerStep ==
    ASSUME IInv, LeadInv, NEW r \in Requests, NEW h \in Handler, Goes(r, h), Keeps(req[r], h),
           NEW i \in Items, h.item = i, h.op \in Writers,
           NEW bel, NEW over, NEW under, Ledger(bel, over, under),
           NEW b \in Places, NEW over2 \in [Pairs -> Places], NEW under2 \in [Pairs -> Places],
           Balanced(count', [bel EXCEPT ![i] = b], over2, under2),
           \A j \in Items \ {i} : Location(j)' = Location(j),
           \A t \in Pairs :
               \/ over2[t] = over[t]
               \/ /\ Faulty(t)' /\ req'[t[1]].item = i
                  /\ over2[t] \in Touched(i)' \union {None}
                  /\ t[1] = r \/ Free(t),
           \A t \in Pairs :
               \/ under2[t] = under[t]
               \/ under2[t] = None
               \/ Faulty(t)' /\ t[1] = r /\ under2[t] \in Touched(i)' \union {None},
           Leads(h) => b = CountedAt(h)
                       /\ (Location(i)' = LeftAt(h) \/ FreeAt(over2, i, Location(i))'),
           \A q \in Requests \ {r} :
               LeadsOn(q, i) => b = bel[i] /\ (\/ Location(i)' = LeftAt(req[q])
                                               \/ FreeAt(over2, i, Location(i))'),
           ~Leads(h) /\ (\A q \in Requests \ {r} : ~LeadsOn(q, i)) => b = Location(i)',
           "overlap" \in h.faults =>
               /\ Open(h) => over2[Overlap(r)] = (IF h.pc = "write" THEN h.to ELSE None)
               /\ h.pc \in {"delete", "uncount"} => under2[Overlap(r)] = None
    PROVE  Ledger([bel EXCEPT ![i] = b], over2, under2)'
<1> DEFINE bel2 == [bel EXCEPT ![i] = b]
<1>1. /\ bel \in [Items -> Places] /\ over \in [Pairs -> Places] /\ under \in [Pairs -> Places]
      /\ bel2 \in [Items -> Places]
  BY DEF Ledger
<1>2. /\ \A t \in Pairs : Faulty(t) => Faulty(t)' /\ req'[t[1]].item = req[t[1]].item
      /\ \A j \in Items : Touched(j) \subseteq Touched(j)'
  BY StepFacts
<1>3. None \notin Items
  BY ContentAssumption
<1>4. Charged(over2, under2)'
  <2> SUFFICES ASSUME NEW t \in Pairs
               PROVE  (/\ over2[t] \in Touched(req[t[1]].item) \union {None}
                       /\ under2[t] \in Touched(req[t[1]].item) \union {None}
                       /\ ~Faulty(t) => over2[t] = None /\ under2[t] = None)'
    BY DEF Charged
  <2>1. PICK x : x = req'[t[1]].item
    OBVIOUS
  <2>2. /\ over[t] \in Touched(x)' \union {None}
        /\ under[t] \in Touched(x)' \union {None}
        /\ ~Faulty(t)' => over[t] = None /\ under[t] = None
    <3>1. Charged(over, under)'
      BY ChargesStay DEF Ledger
    <3> QED BY <2>1, <3>1 DEF Charged
  <2>3. /\ over2[t] \in Touched(x)' \union {None}
        /\ under2[t] \in Touched(x)' \union {None}
        /\ ~Faulty(t)' => over2[t] = None /\ under2[t] = None
    <3>1. t[1] = r => x = i
      BY <2>1 DEF Goes
    <3> QED BY <2>1, <2>2, <3>1
  <2> QED BY <2>1, <2>3
<1>5. Believed(bel2)'
  <2> SUFFICES ASSUME NEW j \in Items
               PROVE  /\ \A q \in Requests : LeadsOn(q, j)' => bel2[j] = CountedAt(req'[q])
                      /\ (\A q \in Requests : ~LeadsOn(q, j)') => bel2[j] = Location(j)'
    BY DEF Believed, CountedAt
  <2>1. /\ \A q \in Requests : LeadsOn(q, j) => bel[j] = CountedAt(req[q])
        /\ (\A q \in Requests : ~LeadsOn(q, j)) => bel[j] = Location(j)
    BY DEF Ledger, Believed
  <2>2. \A q \in Requests \ {r} : req'[q] = req[q] /\ (LeadsOn(q, j)' <=> LeadsOn(q, j))
    BY DEF Goes, LeadsOn
  <2>3. req'[r] = h /\ (LeadsOn(r, j)' <=> Leads(h) /\ i = j)
    BY DEF Goes, LeadsOn
  <2>4. CASE j = i
    <3>1. bel2[j] = b
      BY <1>1, <2>4
    <3> QED BY <2>1, <2>2, <2>3, <2>4, <3>1
  <2>5. CASE j # i
    <3>1. bel2[j] = bel[j] /\ ~LeadsOn(r, j)' /\ Location(j)' = Location(j)
      BY <1>1, <2>3, <2>5
    <3>2. ~LeadsOn(r, j)
      BY <1>3, <2>5 DEF LeadsOn, Keeps, Blank
    <3> QED BY <2>1, <2>2, <3>1, <3>2
  <2> QED BY <2>4, <2>5
<1>6. OverlapsCharged(over2, under2)'
  <2> SUFFICES ASSUME NEW q \in Requests, "overlap" \in req'[q].faults, req'[q].op \in Writers
               PROVE  /\ Open(req'[q]) =>
                             over2[Overlap(q)]
                               = (IF req'[q].pc = "write" THEN req'[q].to ELSE None)
                      /\ req'[q].pc \in {"delete", "uncount"} => under2[Overlap(q)] = None
    BY DEF OverlapsCharged, Open, Overlap
  <2>1. CASE q = r
    BY <2>1 DEF Goes
  <2>2. CASE q # r
    <3>1. req'[q] = req[q]
      BY <2>2 DEF Goes
    <3>2. /\ Open(req[q]) => over[Overlap(q)]
                                = (IF req[q].pc = "write" THEN req[q].to ELSE None)
          /\ req[q].pc \in {"delete", "uncount"} => under[Overlap(q)] = None
      BY <3>1 DEF Ledger, OverlapsCharged
    <3>3. Overlap(q) \in Pairs /\ Overlap(q)[1] = q /\ Overlap(q)[2] = "overlap"
      BY DEF Overlap, Pairs, Faults
    <3>4. Open(req[q]) => over2[Overlap(q)] = over[Overlap(q)]
      BY <2>2, <3>3 DEF Free
    <3>5. under2[Overlap(q)] \in {under[Overlap(q)], None}
      BY <2>2, <3>3
    <3> QED BY <3>1, <3>2, <3>4, <3>5
  <2> QED BY <2>1, <2>2
<1>7. LeftOrCharged(over2)'
  <2> SUFFICES ASSUME NEW q \in Requests, NEW j \in Items, LeadsOn(q, j)'
               PROVE  Location(j)' = LeftAt(req'[q]) \/ FreeAt(over2, j, Location(j))'
    BY DEF LeftOrCharged, LeftAt
  <2>1. CASE q = r
    BY <2>1 DEF Goes, LeadsOn
  <2>2. CASE q # r /\ j = i
    BY <2>2 DEF Goes, LeadsOn
  <2>3. CASE q # r /\ j # i
    <3>1. LeadsOn(q, j) /\ req'[q] = req[q] /\ Location(j)' = Location(j)
      BY <2>3 DEF Goes, LeadsOn
    <3>2. ASSUME FreeAt(over, j, Location(j)) PROVE FreeAt(over2, j, Location(j))'
      <4>1. PICK t \in Pairs : Free(t) /\ req[t[1]].item = j /\ over[t] = Location(j)
        BY <3>2 DEF FreeAt
      <4>2. t[1] # r
        BY <1>3, <2>3, <4>1 DEF Keeps, Blank
      <4>3. req'[t[1]] = req[t[1]]
        BY <4>2 DEF Goes, Pairs
      <4>4. Free(t)'
        BY <4>1, <4>3 DEF Free, Faulty
      <4>5. over2[t] = over[t]
        BY <2>3, <4>1, <4>3
      <4> QED BY <3>1, <4>1, <4>3, <4>4, <4>5 DEF FreeAt
    <3> QED BY <3>1, <3>2 DEF Ledger, LeftOrCharged
  <2> QED BY <2>1, <2>2, <2>3
<1> HIDE DEF bel2
<1>8. Ledger(bel2, over2, under2)'
  BY <1>1, <1>4, <1>5, <1>6, <1>7 DEF Ledger, Balanced, bel2
<1> QED BY <1>8 DEF bel2

\* What a step of r on item i may change of the charges.
Recharges(over, over2, r, i) ==
    \A t \in Pairs :
        \/ over2[t] = over[t]
        \/ /\ Faulty(t)' /\ req'[t[1]].item = i
           /\ over2[t] \in Touched(i)' \union {None}
           /\ t[1] = r \/ Free(t)

Discharges(under, under2, r, i) ==
    \A t \in Pairs :
        \/ under2[t] = under[t]
        \/ under2[t] = None
        \/ Faulty(t)' /\ t[1] = r /\ under2[t] \in Touched(i)' \union {None}

OthersStay(i) == \A j \in Items \ {i} : Location(j)' = Location(j)

NoOtherLeads(r, i) == \A q \in Requests \ {r} : ~LeadsOn(q, i)

LEMMA NothingCharged ==
    ASSUME NEW over, NEW r, NEW i
    PROVE  Recharges(over, over, r, i) /\ Discharges(over, over, r, i)
BY DEF Recharges, Discharges

\* A step of a request that nobody else leads against.
LEMMA LeaderStep ==
    ASSUME IInv, LeadInv, NEW r \in Requests, NEW h \in Handler, Goes(r, h), Keeps(req[r], h),
           NEW i \in Items, h.item = i, h.op \in Writers,
           NEW bel, NEW over, NEW under, Ledger(bel, over, under),
           NEW b \in Places, NEW over2 \in [Pairs -> Places], NEW under2 \in [Pairs -> Places],
           Balanced(count', [bel EXCEPT ![i] = b], over2, under2),
           OthersStay(i), NoOtherLeads(r, i),
           Recharges(over, over2, r, i), Discharges(under, under2, r, i),
           NEW p, p = Location(i)',
           Leads(h) => b = CountedAt(h) /\ (p = LeftAt(h) \/ FreeAt(over2, i, p)'),
           ~Leads(h) => b = p,
           "overlap" \in h.faults =>
               /\ Open(h) => over2[Overlap(r)] = (IF h.pc = "write" THEN h.to ELSE None)
               /\ h.pc \in {"delete", "uncount"} => under2[Overlap(r)] = None
    PROVE  Ledger([bel EXCEPT ![i] = b], over2, under2)'
<1>1. FreeAt(over2, i, p)' => FreeAt(over2, i, Location(i))'
  BY DEF FreeAt
<1>2. Leads(h) => b = CountedAt(h)
                  /\ (Location(i)' = LeftAt(h) \/ FreeAt(over2, i, Location(i))')
  BY <1>1
<1>3. \A q \in Requests \ {r} :
        LeadsOn(q, i) => b = bel[i] /\ (\/ Location(i)' = LeftAt(req[q])
                                        \/ FreeAt(over2, i, Location(i))')
  BY DEF NoOtherLeads
<1>4. ~Leads(h) /\ (\A q \in Requests \ {r} : ~LeadsOn(q, i)) => b = Location(i)'
  OBVIOUS
<1>5. \A j \in Items \ {i} : Location(j)' = Location(j)
  BY DEF OthersStay
<1>6. \A t \in Pairs :
        \/ over2[t] = over[t]
        \/ /\ Faulty(t)' /\ req'[t[1]].item = i
           /\ over2[t] \in Touched(i)' \union {None}
           /\ t[1] = r \/ Free(t)
  BY DEF Recharges
<1>7. \A t \in Pairs :
        \/ under2[t] = under[t]
        \/ under2[t] = None
        \/ Faulty(t)' /\ t[1] = r /\ under2[t] \in Touched(i)' \union {None}
  BY DEF Discharges
<1> QED BY <1>2, <1>3, <1>4, <1>5, <1>6, <1>7, LedgerStep

\* A step that concerns no counter and no place.
LEMMA LedgerQuiet ==
    ASSUME IInv, LeadInv, NEW r \in Requests, QuietStep(r),
           NEW bel, NEW over, NEW under, Ledger(bel, over, under)
    PROVE  Ledger(bel, over, under)'
<1> PICK h \in Handler :
             /\ Goes(r, h) /\ Keeps(req[r], h) /\ UNCHANGED <<state, home, count>>
             /\ req[r].pc \notin AtItem /\ h.pc \notin AtItem
             /\ h.op \notin {"update", "delete"} /\ FaultsFit(h)
             /\ h.op \in Writers /\ h.item \in Items =>
                    req[r].op \in Writers /\ req[r].item = h.item
  BY Quietly
<1>1. \A j \in Items : Location(j)' = Location(j)
  BY DEF Location, Live
<1>2. \A q \in Requests, j \in Items : LeadsOn(q, j)' <=> LeadsOn(q, j)
  BY DEF LeadsOn, Leads, Goes
<1>3. \A q \in Requests, j \in Items : LeadsOn(q, j) => req'[q] = req[q]
  BY DEF LeadsOn, Leads, Goes
<1>4. Charged(over, under)'
  BY ChargesStay DEF Ledger
<1>5. Believed(bel)'
  BY <1>1, <1>2, <1>3 DEF Ledger, Believed
<1>6. OverlapsCharged(over, under)'
  <2> SUFFICES ASSUME NEW q \in Requests, "overlap" \in req'[q].faults, req'[q].op \in Writers
               PROVE  /\ Open(req'[q]) =>
                             over[Overlap(q)]
                               = (IF req'[q].pc = "write" THEN req'[q].to ELSE None)
                      /\ req'[q].pc \in {"delete", "uncount"} => under[Overlap(q)] = None
    BY DEF OverlapsCharged, Open, Overlap
  <2>1. CASE q = r
    BY <2>1 DEF Goes, Open, AtItem
  <2>2. CASE q # r
    BY <2>2 DEF Goes, Ledger, OverlapsCharged
  <2> QED BY <2>1, <2>2
<1>7. LeftOrCharged(over)'
  <2> SUFFICES ASSUME NEW q \in Requests, NEW j \in Items, LeadsOn(q, j)'
               PROVE  Location(j)' = LeftAt(req'[q]) \/ FreeAt(over, j, Location(j))'
    BY DEF LeftOrCharged, LeftAt
  <2>1. Location(j) = LeftAt(req[q]) \/ FreeAt(over, j, Location(j))
    BY <1>2 DEF Ledger, LeftOrCharged
  <2>2. PICK p : p = Location(j)
    OBVIOUS
  <2>3. FreeAt(over, j, p) => FreeAt(over, j, p)'
    BY FreeStays DEF Open
  <2> QED BY <1>1, <1>2, <1>3, <2>1, <2>2, <2>3 DEF FreeAt
<1> QED BY <1>4, <1>5, <1>6, <1>7 DEF Ledger, Balanced

\* A step of a request that does not lead, with every item where it was.
LEMMA FollowerStep ==
    ASSUME IInv, LeadInv, NEW r \in Requests, NEW h \in Handler, Goes(r, h), Keeps(req[r], h),
           NEW i \in Items, h.item = i, h.op \in Writers,
           ~Leads(req[r]), ~Leads(h), Open(h) => Open(req[r]) \/ req[r] = Blank,
           \A j \in Items : Location(j)' = Location(j),
           NEW bel, NEW over, NEW under, Ledger(bel, over, under),
           NEW over2 \in [Pairs -> Places], NEW under2 \in [Pairs -> Places],
           Balanced(count', bel, over2, under2),
           \A t \in Pairs :
               \/ over2[t] = over[t]
               \/ Faulty(t)' /\ t[1] = r /\ ~Free(t) /\ over2[t] \in Touched(i)' \union {None},
           \A t \in Pairs :
               \/ under2[t] = under[t]
               \/ Faulty(t)' /\ t[1] = r /\ under2[t] \in Touched(i)' \union {None},
           "overlap" \in h.faults =>
               /\ Open(h) => over2[Overlap(r)] = (IF h.pc = "write" THEN h.to ELSE None)
               /\ h.pc \in {"delete", "uncount"} => under2[Overlap(r)] = None
    PROVE  Ledger(bel, over2, under2)'
<1>1. bel \in [Items -> Places]
  BY DEF Ledger
<1>2. PICK b \in Places : b = bel[i]
  BY <1>1
<1>3. [bel EXCEPT ![i] = b] = bel
  BY <1>1, <1>2
<1>4. PICK p : p = Location(i)
  OBVIOUS
<1>5. FreeAt(over, i, p) => FreeAt(over2, i, p)'
  <2>1. \A t \in Pairs : Free(t) /\ req[t[1]].item = i => over2[t] = over[t]
    OBVIOUS
  <2> QED BY <2>1, FreeStays
<1>6. \A q \in Requests \ {r} :
        LeadsOn(q, i) => b = bel[i] /\ (\/ Location(i)' = LeftAt(req[q])
                                        \/ FreeAt(over2, i, Location(i))')
  BY <1>2, <1>4, <1>5 DEF Ledger, LeftOrCharged, FreeAt
<1>7. ~Leads(h) /\ (\A q \in Requests \ {r} : ~LeadsOn(q, i)) => b = Location(i)'
  BY <1>2 DEF Ledger, Believed, LeadsOn
<1>8. \A t \in Pairs : t[1] = r => req'[t[1]].item = i
  BY DEF Goes
<1>9. Ledger([bel EXCEPT ![i] = b], over2, under2)'
  BY <1>3, <1>6, <1>7, <1>8, LedgerStep
<1> QED BY <1>3, <1>9

LEMMA PairFacts ==
    ASSUME NEW r \in Requests, NEW f \in Faults
    PROVE  /\ <<r, f>> \in Pairs /\ <<r, f>>[1] = r /\ <<r, f>>[2] = f
           /\ \A t \in Pairs : t[1] = r /\ t[2] = f => t = <<r, f>>
           /\ Faulty(<<r, f>>) <=> req[r].op \in Writers /\ f \in req[r].faults
BY DEF Pairs, Faulty

\* What a fault that has not happened is charged with.
LEMMA NotYetCharged ==
    ASSUME NEW r \in Requests, NEW f \in Faults, NEW over, NEW under, Charged(over, under),
           f \notin req[r].faults
    PROVE  over[<<r, f>>] = None /\ under[<<r, f>>] = None
BY PairFacts DEF Charged

LEMMA PlacesOfItems ==
    ASSUME IInv, LeadInv, NEW i \in Items
    PROVE  /\ Location(i) \in Places /\ None \notin Containers
           /\ \A r \in Requests : req[r].op \in Writers /\ req[r].item = i =>
                  Location(i) \in Touched(i) \union {None}
           /\ state[i] # "absent" => home[i] \in Containers
<1>1. home[i] \in Places /\ None \notin Containers
  BY ContentAssumption DEF IInv, TypeOK, Places
<1> QED BY <1>1 DEF Location, LeadInv, HomesTouched, Places, IInv, ItemsAreHoused

LEMMA LedgerInserted ==
    ASSUME IInv, LeadInv, NEW r \in Requests, CreatePost(r) \/ CreateComment(r), Explained
    PROVE  Explained' /\ LeadInv'
<1> PICK bel, over, under : Ledger(bel, over, under)
  BY DEF Explained
<1> PICK h \in Handler, i \in Items :
             /\ Goes(r, h) /\ At(r, "insert") /\ Same(req[r], h)
             /\ h.pc = "count" /\ h.item = i /\ h.faults = {}
             /\ h.to \in Containers
             /\ state[i] = "absent" /\ state' = [state EXCEPT ![i] = "pendingReview"]
             /\ home' = [home EXCEPT ![i] = h.to]
             /\ UNCHANGED count
  BY Inserted
<1>1. /\ LeadInv' /\ Keeps(req[r], h) /\ Leads(h) /\ h.op = "create"
      /\ \A q \in Requests : ~LeadsOn(q, i)
  BY LeadInserted
<1>2. state \in [Items -> States] /\ home \in [Items -> Places]
  BY DEF IInv, TypeOK, Places
<1>3. /\ Location(i)' = h.to /\ Location(i) = None
      /\ \A j \in Items \ {i} : Location(j)' = Location(j)
  BY <1>2 DEF Location, Live
<1>4. /\ bel \in [Items -> Places] /\ over \in [Pairs -> Places] /\ under \in [Pairs -> Places]
      /\ Balanced(count, bel, over, under) /\ bel[i] = None
  BY <1>1, <1>3 DEF Ledger, Believed
<1>5. PICK b \in Places : b = bel[i]
  BY <1>4
<1>6. [bel EXCEPT ![i] = b] = bel
  BY <1>4, <1>5
<1>7. Balanced(count', bel, over, under)
  BY <1>4
<1>8. PICK p : p = Location(i)'
  OBVIOUS
<1>9. Ledger([bel EXCEPT ![i] = b], over, under)'
  <2>1. b = CountedAt(h) /\ p = LeftAt(h)
    BY <1>1, <1>3, <1>4, <1>5, <1>8 DEF CountedAt, LeftAt
  <2>2. OthersStay(i) /\ NoOtherLeads(r, i) /\ h.op \in Writers /\ "overlap" \notin h.faults
    BY <1>1, <1>3 DEF OthersStay, NoOtherLeads, Writers
  <2>3. Recharges(over, over, r, i) /\ Discharges(under, under, r, i)
    BY NothingCharged
  <2>4. Balanced(count', [bel EXCEPT ![i] = b], over, under)
    BY <1>6, <1>7
  <2> QED BY <1>1, <1>4, <1>8, <2>1, <2>2, <2>3, <2>4, LeaderStep
<1> QED BY <1>1, <1>9 DEF Explained

LEMMA LedgerEditRequested ==
    ASSUME IInv, LeadInv, NEW r \in Requests, Explained,
           \/ HandleUpdatePost(r) \/ HandleUpdateComment(r)
           \/ HandleDeletePost(r) \/ HandleDeleteComment(r)
    PROVE  Explained' /\ LeadInv'
<1> PICK bel, over, under : Ledger(bel, over, under)
  BY DEF Explained
<1> PICK h \in Handler, i \in Items :
             /\ Goes(r, h) /\ UNCHANGED tables /\ req[r] = Blank
             /\ h.item = i /\ h.from = home[i] /\ state[i] \notin {"absent", "deleted"}
             /\ \/ h.op = "update" /\ h.pc = "write" /\ h.to = home[i]
                \/ h.op = "update" /\ h.pc = "uncount" /\ i \in Posts /\ h.to \in Topics
                \/ h.op = "delete" /\ h.pc = "delete" /\ h.to = None
             /\ h.faults = OverlapOf(h.op, i)
  BY EditRequested
<1>1. LeadInv' /\ (Leads(h) => \A q \in Requests : ~LeadsOn(q, i))
  BY LeadEditRequested
<1>2. /\ Keeps(req[r], h) /\ h.op \in Writers /\ ~Leads(req[r])
      /\ \A j \in Items : Location(j)' = Location(j)
      /\ count' = count
  BY DEF Keeps, Writers, Leads, Blank, Location, Live, tables
<1>3. /\ bel \in [Items -> Places] /\ over \in [Pairs -> Places] /\ under \in [Pairs -> Places]
      /\ Balanced(count', bel, over, under)
  BY <1>2 DEF Ledger
<1>4. /\ Location(i) = home[i] /\ home[i] \in Containers /\ None \notin Containers
  BY PlacesOfItems DEF Location, Live
<1>5. CASE Leads(h)
  <2>1. \A q \in Requests : ~LeadsOn(q, i)
    BY <1>1, <1>5
  <2>2. PICK b \in Places : b = bel[i]
    BY <1>3
  <2>3. [bel EXCEPT ![i] = b] = bel
    BY <1>3, <2>2
  <2>4. b = CountedAt(h) /\ Location(i)' = LeftAt(h)
    BY <1>2, <1>4, <2>1, <2>2 DEF Ledger, Believed, CountedAt, LeftAt
  <2>5. "overlap" \notin h.faults
    BY <1>5 DEF Leads
  <2>6. PICK p : p = Location(i)'
    OBVIOUS
  <2>7. p = LeftAt(h) /\ OthersStay(i) /\ NoOtherLeads(r, i)
    BY <1>2, <2>1, <2>4, <2>6 DEF OthersStay, NoOtherLeads
  <2>8. Recharges(over, over, r, i) /\ Discharges(under, under, r, i)
    BY NothingCharged
  <2>9. Balanced(count', [bel EXCEPT ![i] = b], over, under)
    BY <1>3, <2>3
  <2>10. Ledger([bel EXCEPT ![i] = b], over, under)'
    BY <1>2, <1>3, <1>5, <2>4, <2>5, <2>6, <2>7, <2>8, <2>9, LeaderStep
  <2> QED BY <1>1, <2>10 DEF Explained
<1>6. CASE ~Leads(h)
  <2>1. "overlap" \in h.faults
    BY <1>2, <1>6 DEF Leads, AtItem
  <2>2. PICK t \in Pairs : t = Overlap(r)
    BY PairFacts DEF Overlap, Faults
  <2>3. /\ t[1] = r /\ ~Faulty(t) /\ Faulty(t)'
        /\ over[t] = None /\ under[t] = None
    BY <1>2, <2>1, <2>2 DEF Overlap, Faulty, Goes, Blank, Ledger, Charged
  <2>4. CASE h.pc = "write"
    <3> PICK l \in Places : l = home[i]
      BY <1>4 DEF Places
    <3> DEFINE over2 == [over EXCEPT ![t] = l]
               under2 == [under EXCEPT ![t] = l]
    <3>1. /\ over2 \in [Pairs -> Places] /\ under2 \in [Pairs -> Places]
          /\ over2[t] = l /\ under2[t] = l
          /\ \A s \in Pairs : s # t => over2[s] = over[s] /\ under2[s] = under[s]
      BY <1>3
    <3>2. Balanced(count', bel, over2, under2)
      <4>1. PICK b \in Places : b = bel[i]
        BY <1>3
      <4>2. [bel EXCEPT ![i] = b] = bel
        BY <1>3, <4>1
      <4>3. count \in [Containers -> Nat] /\ count' \in [Containers -> Nat]
        BY <1>2 DEF IInv, TypeOK
      <4>4. Balanced(count', [bel EXCEPT ![i] = b], over2, under2)
        <5>1. \A k \in Containers :
                count'[k] + One(l, k) + One(bel[i], k) + One(over[t], k)
                  = count'[k] + One(under[t], k) + One(b, k) + One(l, k)
          BY <2>3, <4>1, <4>3 DEF One
        <5> QED BY <1>3, <4>3, <5>1, BalanceMoves
      <4> QED BY <4>2, <4>4
    <3>3. h.to = l /\ l \in Touched(i)'
      BY <1>2, <2>4, StepFacts
    <3> HIDE DEF over2, under2
    <3>4. \A s \in Pairs :
            \/ over2[s] = over[s]
            \/ Faulty(s)' /\ s[1] = r /\ ~Free(s) /\ over2[s] \in Touched(i)' \union {None}
      BY <2>3, <3>1, <3>3 DEF Free
    <3>5. \A s \in Pairs :
            \/ under2[s] = under[s]
            \/ Faulty(s)' /\ s[1] = r /\ under2[s] \in Touched(i)' \union {None}
      BY <2>3, <3>1, <3>3
    <3>6. Ledger(bel, over2, under2)'
      BY <1>2, <1>6, <2>2, <2>4, <3>1, <3>2, <3>3, <3>4, <3>5, FollowerStep
    <3> QED BY <1>1, <3>6 DEF Explained
  <2>5. CASE h.pc # "write"
    <3>1. Ledger(bel, over, under)'
      BY <1>2, <1>3, <1>6, <2>2, <2>3, <2>5, FollowerStep
    <3> QED BY <1>1, <3>1 DEF Explained
  <2> QED BY <2>4, <2>5
<1> QED BY <1>5, <1>6

\* A step of a request on an item that another leads.
LEMMA ShadowStep ==
    ASSUME IInv, LeadInv, NEW r \in Requests, NEW h \in Handler, Goes(r, h), Keeps(req[r], h),
           NEW i \in Items, h.item = i, h.op \in Writers, ~Leads(h),
           NEW bel, NEW over, NEW under, Ledger(bel, over, under),
           NEW over2 \in [Pairs -> Places], NEW under2 \in [Pairs -> Places],
           Balanced(count', bel, over2, under2),
           OthersStay(i), ~NoOtherLeads(r, i),
           Recharges(over, over2, r, i), Discharges(under, under2, r, i),
           NEW p, p = Location(i)', FreeAt(over2, i, p)',
           "overlap" \in h.faults =>
               /\ Open(h) => over2[Overlap(r)] = (IF h.pc = "write" THEN h.to ELSE None)
               /\ h.pc \in {"delete", "uncount"} => under2[Overlap(r)] = None
    PROVE  Ledger(bel, over2, under2)'
<1>1. bel \in [Items -> Places]
  BY DEF Ledger
<1>2. PICK b \in Places : b = bel[i]
  BY <1>1
<1>3. [bel EXCEPT ![i] = b] = bel
  BY <1>1, <1>2
<1>4. FreeAt(over2, i, Location(i))'
  BY DEF FreeAt
<1>5. Leads(h) => b = CountedAt(h)
                  /\ (Location(i)' = LeftAt(h) \/ FreeAt(over2, i, Location(i))')
  OBVIOUS
<1>6. \A q \in Requests \ {r} :
        LeadsOn(q, i) => b = bel[i] /\ (\/ Location(i)' = LeftAt(req[q])
                                        \/ FreeAt(over2, i, Location(i))')
  BY <1>2, <1>4
<1>7. ~Leads(h) /\ (\A q \in Requests \ {r} : ~LeadsOn(q, i)) => b = Location(i)'
  BY DEF NoOtherLeads
<1>8. \A j \in Items \ {i} : Location(j)' = Location(j)
  BY DEF OthersStay
<1>9. \A t \in Pairs :
        \/ over2[t] = over[t]
        \/ /\ Faulty(t)' /\ req'[t[1]].item = i
           /\ over2[t] \in Touched(i)' \union {None}
           /\ t[1] = r \/ Free(t)
  BY DEF Recharges
<1>10. \A t \in Pairs :
        \/ under2[t] = under[t]
        \/ under2[t] = None
        \/ Faulty(t)' /\ t[1] = r /\ under2[t] \in Touched(i)' \union {None}
  BY DEF Discharges
<1>11. Balanced(count', [bel EXCEPT ![i] = b], over2, under2)
  BY <1>3
<1>12. Ledger([bel EXCEPT ![i] = b], over2, under2)'
  BY <1>5, <1>6, <1>7, <1>8, <1>9, <1>10, <1>11, LedgerStep
<1> QED BY <1>3, <1>12

\* One fault of r is charged anew.
LEMMA ChargeOne ==
    ASSUME IInv, LeadInv, NEW r \in Requests, NEW h \in Handler, Goes(r, h), Keeps(req[r], h),
           NEW i \in Items, h.item = i, h.op \in Writers,
           NEW over \in [Pairs -> Places], NEW t \in Pairs, t[1] = r, t[2] \in h.faults,
           NEW p \in Places, p \in Touched(i)' \union {None}
    PROVE  /\ [over EXCEPT ![t] = p] \in [Pairs -> Places]
           /\ Recharges(over, [over EXCEPT ![t] = p], r, i)
           /\ Discharges(over, [over EXCEPT ![t] = p], r, i)
<1> DEFINE over2 == [over EXCEPT ![t] = p]
<1>1. over2[t] = p /\ \A s \in Pairs : s # t => over2[s] = over[s]
  OBVIOUS
<1>2. over2 \in [Pairs -> Places]
  OBVIOUS
<1> HIDE DEF over2
<1>3. Faulty(t)' /\ req'[t[1]].item = i
  BY DEF Faulty, Goes
<1>4. Recharges(over, over2, r, i)
  BY <1>1, <1>3 DEF Recharges
<1>5. Discharges(over, over2, r, i)
  BY <1>1, <1>3 DEF Discharges
<1> QED BY <1>2, <1>4, <1>5 DEF over2

LEMMA LedgerEdited ==
    ASSUME IInv, LeadInv, NEW r \in Requests, UpdatePost(r) \/ UpdateComment(r), Explained
    PROVE  Explained' /\ LeadInv'
<1> PICK bel, over, under : Ledger(bel, over, under)
  BY DEF Explained
<1> PICK h \in Handler :
             /\ Goes(r, h) /\ Same(req[r], h) /\ At(r, "write") /\ req[r].op = "update"
             /\ h.pc = "done" /\ h.item = req[r].item /\ h.item \in Items
             /\ h.faults = req[r].faults
             /\ req[r].read \in {"pendingReview", "published"}
             /\ state[h.item] # "absent"
             /\ state' = [state EXCEPT ![h.item] = req[r].read]
             /\ \/ h.item \in Posts /\ home' = [home EXCEPT ![h.item] = h.to]
                \/ h.item \in Comments /\ home' = home
             /\ UNCHANGED count
  BY Edited
<1> PICK i \in Items : i = h.item
  OBVIOUS
<1>1. LeadInv' /\ Keeps(req[r], h) /\ h.op = "update" /\ h.op \in Writers /\ ~Leads(h)
  BY LeadEdited DEF At, Same, Writers, Leads, AtItem
<1>2. state \in [Items -> States] /\ home \in [Items -> Places]
  BY DEF IInv, TypeOK, Places
<1>3. h.to \in Containers /\ req[r].to = h.to /\ (h.item \in Comments => home[i] = h.to)
  BY <1>1, HandlerKnows DEF Knows, KnowsPlaces, Same, At, AtItem,
                             LeadInv, CommentsStay, StaysHome
<1>4. Location(i)' = h.to /\ OthersStay(i)
  BY <1>2, <1>3 DEF Location, Live, OthersStay
<1>5. PICK p \in Places : p = Location(i)' /\ p = h.to
  BY <1>3, <1>4 DEF Places
<1>6. /\ bel \in [Items -> Places] /\ over \in [Pairs -> Places] /\ under \in [Pairs -> Places]
      /\ Balanced(count, bel, over, under)
      /\ count \in [Containers -> Nat] /\ count' = count
  BY DEF Ledger, IInv, TypeOK
<1>7. ~Open(h)
  BY DEF Open
<1>8. CASE Leads(req[r])
  <2>1. bel[i] = p /\ NoOtherLeads(r, i) /\ "overlap" \notin h.faults
    BY <1>5, <1>8 DEF Ledger, Believed, LeadsOn, CountedAt, At, Same,
                      NoOtherLeads, LeadInv, OneLeads, Leads
  <2>2. [bel EXCEPT ![i] = p] = bel
    BY <1>6, <2>1
  <2>3. Recharges(over, over, r, i) /\ Discharges(under, under, r, i)
    BY NothingCharged
  <2>4. Balanced(count', [bel EXCEPT ![i] = p], over, under)
    BY <1>6, <2>2
  <2>5. Ledger([bel EXCEPT ![i] = p], over, under)'
    BY <1>1, <1>4, <1>5, <1>6, <2>1, <2>3, <2>4, LeaderStep
  <2> QED BY <1>1, <2>5 DEF Explained
<1>9. CASE ~Leads(req[r])
  <2>1. "overlap" \in req[r].faults /\ "overlap" \in h.faults
    BY <1>1, <1>9 DEF Leads, At, AtItem, Same
  <2>2. PICK t \in Pairs : t = Overlap(r)
    BY PairFacts DEF Overlap, Faults
  <2>3. /\ t[1] = r /\ t[2] = "overlap" /\ Faulty(t)' /\ req'[t[1]].item = i /\ over[t] = p
        /\ ~Open(req'[t[1]])
    BY <1>1, <1>3, <1>5, <1>7, <2>1, <2>2
       DEF Overlap, Faulty, Goes, Ledger, OverlapsCharged, Open, At
  <2>4. CASE NoOtherLeads(r, i)
    <3>1. PICK l \in Places : l = Location(i)
      BY PlacesOfItems
    <3>2. bel[i] = l
      BY <1>9, <2>4, <3>1 DEF Ledger, Believed, NoOtherLeads, LeadsOn
    <3>3. l \in Touched(i)' \union {None}
      BY <1>1, <3>1, PlacesOfItems, StepFacts DEF Same
    <3> DEFINE over2 == [over EXCEPT ![t] = l]
    <3>4. over2 \in [Pairs -> Places] /\ Recharges(over, over2, r, i)
      <4>1. t[2] \in h.faults /\ t[1] = r /\ t \in Pairs
        BY <2>1, <2>2, <2>3
      <4>2. /\ [over EXCEPT ![t] = l] \in [Pairs -> Places]
            /\ Recharges(over, [over EXCEPT ![t] = l], r, i)
        BY <1>1, <1>6, <3>1, <3>3, <4>1, ChargeOne
      <4> QED BY <4>2
    <3>5. Discharges(under, under, r, i)
      BY NothingCharged
    <3>6. Balanced(count', [bel EXCEPT ![i] = p], over2, [under EXCEPT ![t] = under[t]])
      <4>1. PICK u \in Places : u = under[t]
        BY <1>6
      <4>2. \A k \in Containers :
              count'[k] + One(u, k) + One(bel[i], k) + One(over[t], k)
                = count[k] + One(under[t], k) + One(p, k) + One(l, k)
        BY <1>6, <2>3, <3>2, <4>1 DEF One
      <4> QED BY <1>5, <1>6, <3>1, <4>1, <4>2, BalanceMoves
    <3>7. [under EXCEPT ![t] = under[t]] = under
      BY <1>6
    <3> HIDE DEF over2
    <3>8. Balanced(count', [bel EXCEPT ![i] = p], over2, under)
      BY <3>6, <3>7
    <3>9. Ledger([bel EXCEPT ![i] = p], over2, under)'
      BY <1>1, <1>4, <1>5, <1>6, <1>7, <2>4, <3>4, <3>5, <3>8, LeaderStep
    <3> QED BY <1>1, <3>9 DEF Explained
  <2>5. CASE ~NoOtherLeads(r, i)
    <3>1. FreeAt(over, i, p)'
      BY <2>3 DEF FreeAt, Free, Open
    <3>2. Recharges(over, over, r, i) /\ Discharges(under, under, r, i)
      BY NothingCharged
    <3>3. Ledger(bel, over, under)'
      BY <1>1, <1>4, <1>5, <1>6, <1>7, <2>5, <3>1, <3>2, ShadowStep
    <3> QED BY <1>1, <3>3 DEF Explained
  <2> QED BY <2>4, <2>5
<1> QED BY <1>8, <1>9

LEMMA LedgerDeleted ==
    ASSUME IInv, LeadInv, NEW r \in Requests, DeletePost(r) \/ DeleteComment(r), Explained
    PROVE  Explained' /\ LeadInv'
<1> PICK bel, over, under : Ledger(bel, over, under)
  BY DEF Explained
<1> PICK h \in Handler :
             /\ Goes(r, h) /\ Same(req[r], h) /\ At(r, "delete") /\ h.op = "delete"
             /\ h.pc = "uncount" /\ h.item = req[r].item /\ h.item \in Items
             /\ h.faults = req[r].faults
             /\ state[h.item] # "absent"
             /\ state' = [state EXCEPT ![h.item] = "deleted"]
             /\ UNCHANGED <<home, count>>
  BY Deleted
<1> PICK i \in Items : i = h.item
  OBVIOUS
<1>1. LeadInv' /\ Keeps(req[r], h)
  <2>1. req[r].op \in Writers /\ req[r].pc \in AtItem /\ req[r].pc = "delete"
    BY DEF Writers, AtItem, At, Same
  <2> QED BY <2>1, LeadGoesOn
<1>2. state \in [Items -> States] /\ h.op \in Writers
  BY DEF IInv, TypeOK, Writers
<1>3. Location(i)' = None /\ OthersStay(i)
  BY <1>2 DEF Location, Live, OthersStay
<1>4. PICK p \in Places : p = Location(i)' /\ p = None
  BY <1>3 DEF Places
<1>5. /\ bel \in [Items -> Places] /\ over \in [Pairs -> Places] /\ under \in [Pairs -> Places]
      /\ Balanced(count, bel, over, under)
      /\ count \in [Containers -> Nat] /\ count' = count
  BY DEF Ledger, IInv, TypeOK
<1>6. ~Open(h)
  BY DEF Open
<1>7. CASE Leads(req[r])
  <2>1. /\ bel[i] = req[r].from /\ NoOtherLeads(r, i) /\ "overlap" \notin h.faults
        /\ Leads(h) /\ CountedAt(h) = req[r].from /\ LeftAt(h) = None
    BY <1>7 DEF Ledger, Believed, LeadsOn, CountedAt, At, Same, LeftAt, AtItem,
                NoOtherLeads, LeadInv, OneLeads, Leads
  <2>2. PICK b \in Places : b = bel[i]
    BY <1>5
  <2>3. [bel EXCEPT ![i] = b] = bel
    BY <1>5, <2>2
  <2>4. Recharges(over, over, r, i) /\ Discharges(under, under, r, i)
    BY NothingCharged
  <2>5. Balanced(count', [bel EXCEPT ![i] = b], over, under)
    BY <1>5, <2>3
  <2>6. Ledger([bel EXCEPT ![i] = b], over, under)'
    BY <1>1, <1>2, <1>3, <1>4, <1>5, <2>1, <2>2, <2>4, <2>5, LeaderStep
  <2> QED BY <1>1, <2>6 DEF Explained
<1>8. CASE ~Leads(req[r])
  <2>1. "overlap" \in req[r].faults /\ "overlap" \in h.faults /\ ~Leads(h)
    BY <1>2, <1>8 DEF Leads, At, AtItem, Same
  <2>2. PICK t \in Pairs : t = Overlap(r)
    BY PairFacts DEF Overlap, Faults
  <2>3. /\ t[1] = r /\ t[2] = "overlap" /\ t[2] \in h.faults
        /\ Faulty(t)' /\ req'[t[1]].item = i
        /\ over[t] = None /\ under[t] = None /\ ~Open(req'[t[1]])
    BY <1>2, <1>6, <2>1, <2>2
       DEF Overlap, Faulty, Goes, Ledger, OverlapsCharged, Open, At, Same
  <2>4. CASE NoOtherLeads(r, i)
    <3>1. PICK l \in Places : l = Location(i)
      BY PlacesOfItems
    <3>2. bel[i] = l
      BY <1>8, <2>4, <3>1 DEF Ledger, Believed, NoOtherLeads, LeadsOn
    <3>3. l \in Touched(i)' \union {None}
      BY <1>1, <1>2, <3>1, PlacesOfItems, StepFacts DEF Same
    <3> DEFINE over2 == [over EXCEPT ![t] = l]
    <3>4. over2 \in [Pairs -> Places] /\ Recharges(over, over2, r, i)
      <4>1. t[2] \in h.faults /\ t[1] = r /\ t \in Pairs
        BY <2>2, <2>3
      <4>2. /\ [over EXCEPT ![t] = l] \in [Pairs -> Places]
            /\ Recharges(over, [over EXCEPT ![t] = l], r, i)
        BY <1>1, <1>2, <1>5, <3>1, <3>3, <4>1, ChargeOne
      <4> QED BY <4>2
    <3>5. Discharges(under, under, r, i)
      BY NothingCharged
    <3>6. Balanced(count', [bel EXCEPT ![i] = p], over2, [under EXCEPT ![t] = p])
      <4>1. \A k \in Containers :
              count'[k] + One(p, k) + One(bel[i], k) + One(over[t], k)
                = count[k] + One(under[t], k) + One(p, k) + One(l, k)
        BY <1>4, <1>5, <2>3, <3>2 DEF One
      <4>2. /\ p \in Places /\ l \in Places /\ t \in Pairs
            /\ count' \in [Containers -> Nat] /\ Balanced(count, bel, over, under)
        BY <1>4, <1>5, <2>2, <3>1
      <4> QED BY <1>5, <4>1, <4>2, BalanceMoves
    <3>7. [under EXCEPT ![t] = p] = under
      BY <1>4, <1>5, <2>3
    <3> HIDE DEF over2
    <3>8. Balanced(count', [bel EXCEPT ![i] = p], over2, under)
      BY <3>6, <3>7
    <3>9. under[Overlap(r)] = None
      BY <2>2, <2>3
    <3>10. Ledger([bel EXCEPT ![i] = p], over2, under)'
      BY <1>1, <1>2, <1>3, <1>4, <1>5, <1>6, <2>1, <2>4, <3>4, <3>5, <3>8, <3>9, LeaderStep
    <3> QED BY <1>1, <3>10 DEF Explained
  <2>5. CASE ~NoOtherLeads(r, i)
    <3>1. FreeAt(over, i, p)'
      BY <1>4, <2>2, <2>3 DEF FreeAt, Free, Open
    <3>2. Recharges(over, over, r, i) /\ Discharges(under, under, r, i)
      BY NothingCharged
    <3>3. under[Overlap(r)] = None /\ Balanced(count', bel, over, under)
      BY <1>5, <2>2, <2>3
    <3>4. Ledger(bel, over, under)'
      BY <1>1, <1>2, <1>3, <1>4, <1>5, <1>6, <2>1, <2>5, <3>1, <3>2, <3>3, ShadowStep
    <3> QED BY <1>1, <3>4 DEF Explained
  <2> QED BY <2>4, <2>5
<1> QED BY <1>7, <1>8

\* The item is charged to a removal or a revival where it was, if nobody leads, and
\* where it is now, if somebody does.
LEMMA LedgerModerated ==
    ASSUME IInv, LeadInv, NEW r \in Requests, HandleModeration(r), Explained
    PROVE  Explained' /\ LeadInv'
<1> PICK bel, over, under : Ledger(bel, over, under)
  BY DEF Explained
<1> PICK i \in Items, s \in {"published", "hidden", "deleted"} : Moderate(r, i, s)
  BY DEF HandleModeration
<1> PICK h \in Handler :
             /\ Goes(r, h) /\ req[r] = Blank
             /\ h.op = "moderate" /\ h.pc = "done" /\ h.item = i /\ h.from = home[i]
             /\ h.faults = IF Live(i) <=> s # "deleted" THEN {} ELSE {"removal"}
             /\ state[i] # "absent" /\ state' = [state EXCEPT ![i] = s]
             /\ UNCHANGED <<home, count>>
  BY Moderated
<1>1. /\ LeadInv' /\ Keeps(req[r], h) /\ h.op \in Writers /\ ~Leads(h) /\ ~Leads(req[r])
      /\ "overlap" \notin h.faults /\ ~Open(h)
  <2>1. LeadInv'
    BY LeadModerated
  <2> QED BY <2>1 DEF Keeps, Writers, Leads, AtItem, Blank, Open
<1>2. state \in [Items -> States] /\ home \in [Items -> Places]
  BY DEF IInv, TypeOK, Places
<1>3. OthersStay(i)
  BY <1>2 DEF Location, Live, OthersStay
<1>4. Location(i) \in {home[i], None} /\ Location(i)' \in {home[i], None}
  BY <1>2 DEF Location
<1>5. /\ bel \in [Items -> Places] /\ over \in [Pairs -> Places] /\ under \in [Pairs -> Places]
      /\ Balanced(count, bel, over, under)
      /\ count \in [Containers -> Nat] /\ count' = count
  BY DEF Ledger, IInv, TypeOK
<1>6. home[i] \in Touched(i)'
  BY <1>1, StepFacts
<1>7. PICK l \in Places : l = Location(i)
  BY PlacesOfItems
<1>8. PICK p \in Places : p = Location(i)'
  BY <1>2, <1>4 DEF Places
<1>9. l \in Touched(i)' \union {None} /\ p \in Touched(i)' \union {None}
  BY <1>4, <1>6, <1>7, <1>8
<1>10. CASE Live(i) <=> s # "deleted"
  <2>1. Location(i)' = Location(i)
    BY <1>2, <1>10 DEF Location, Live
  <2>2. \A j \in Items : Location(j)' = Location(j)
    BY <1>3, <2>1 DEF OthersStay
  <2>3. Balanced(count', bel, over, under)
    BY <1>5
  <2>4. Ledger(bel, over, under)'
    BY <1>1, <1>5, <2>2, <2>3, FollowerStep
  <2> QED BY <1>1, <2>4 DEF Explained
<1>11. CASE ~(Live(i) <=> s # "deleted")
  <2>1. PICK t \in Pairs : t = <<r, "removal">>
    BY PairFacts DEF Faults
  <2>2. /\ t[1] = r /\ t[2] = "removal" /\ t[2] \in h.faults
        /\ Faulty(t)' /\ req'[t[1]].item = i
        /\ over[t] = None /\ under[t] = None
    BY <1>1, <1>11, <2>1 DEF Faulty, Goes, Ledger, Charged, Blank
  <2> DEFINE under2 == [under EXCEPT ![t] = p]
  <2>3. under2 \in [Pairs -> Places] /\ Discharges(under, under2, r, i)
    <3>1. t[2] \in h.faults /\ t[1] = r /\ t \in Pairs
      BY <2>1, <2>2
    <3>2. /\ [under EXCEPT ![t] = p] \in [Pairs -> Places]
          /\ Discharges(under, [under EXCEPT ![t] = p], r, i)
      BY <1>1, <1>5, <1>8, <1>9, <3>1, ChargeOne
    <3> QED BY <3>2
  <2>4. CASE NoOtherLeads(r, i)
    <3>1. bel[i] = l
      BY <1>1, <1>7, <2>4 DEF Ledger, Believed, NoOtherLeads, LeadsOn
    <3> DEFINE over2 == [over EXCEPT ![t] = l]
    <3>2. over2 \in [Pairs -> Places] /\ Recharges(over, over2, r, i)
      <4>1. t[2] \in h.faults /\ t[1] = r /\ t \in Pairs
        BY <2>1, <2>2
      <4>2. /\ [over EXCEPT ![t] = l] \in [Pairs -> Places]
            /\ Recharges(over, [over EXCEPT ![t] = l], r, i)
        BY <1>1, <1>5, <1>7, <1>9, <4>1, ChargeOne
      <4> QED BY <4>2
    <3>3. Balanced(count', [bel EXCEPT ![i] = p], over2, under2)
      <4>1. \A k \in Containers :
              count'[k] + One(p, k) + One(bel[i], k) + One(over[t], k)
                = count[k] + One(under[t], k) + One(p, k) + One(l, k)
        BY <1>5, <2>2, <3>1 DEF One
      <4>2. /\ p \in Places /\ l \in Places /\ t \in Pairs
            /\ count' \in [Containers -> Nat] /\ Balanced(count, bel, over, under)
        BY <1>5, <1>7, <1>8, <2>1
      <4> QED BY <1>5, <4>1, <4>2, BalanceMoves
    <3> HIDE DEF over2, under2
    <3>4. Ledger([bel EXCEPT ![i] = p], over2, under2)'
      BY <1>1, <1>3, <1>8, <2>3, <2>4, <3>2, <3>3, LeaderStep
    <3> QED BY <1>1, <3>4 DEF Explained
  <2>5. CASE ~NoOtherLeads(r, i)
    <3> DEFINE over2 == [over EXCEPT ![t] = p]
    <3>1. over2 \in [Pairs -> Places] /\ Recharges(over, over2, r, i)
      <4>1. t[2] \in h.faults /\ t[1] = r /\ t \in Pairs
        BY <2>1, <2>2
      <4>2. /\ [over EXCEPT ![t] = p] \in [Pairs -> Places]
            /\ Recharges(over, [over EXCEPT ![t] = p], r, i)
        BY <1>1, <1>5, <1>8, <1>9, <4>1, ChargeOne
      <4> QED BY <4>2
    <3>2. Balanced(count', bel, over2, under2)
      <4>1. PICK b \in Places : b = bel[i]
        BY <1>5
      <4>2. \A k \in Containers :
              count'[k] + One(p, k) + One(bel[i], k) + One(over[t], k)
                = count[k] + One(under[t], k) + One(b, k) + One(p, k)
        BY <1>5, <2>2, <4>1 DEF One
      <4>3. Balanced(count', [bel EXCEPT ![i] = b], over2, under2)
        <5>1. /\ p \in Places /\ b \in Places /\ t \in Pairs
              /\ count' \in [Containers -> Nat] /\ Balanced(count, bel, over, under)
          BY <1>5, <1>8, <2>1, <4>1
        <5> QED BY <1>5, <4>2, <5>1, BalanceMoves
      <4>4. [bel EXCEPT ![i] = b] = bel
        BY <1>5, <4>1
      <4> QED BY <4>3, <4>4
    <3>3. FreeAt(over2, i, p)'
      <4>1. over2[t] = p
        BY <1>5
      <4> QED BY <2>1, <2>2, <4>1 DEF FreeAt, Free
    <3> HIDE DEF over2, under2
    <3>4. Ledger(bel, over2, under2)'
      BY <1>1, <1>3, <1>8, <2>3, <2>5, <3>1, <3>2, <3>3, ShadowStep
    <3> QED BY <1>1, <3>4 DEF Explained
  <2> QED BY <2>4, <2>5
<1> QED BY <1>10, <1>11

\* What a request that stops had counted is charged to its stop.
LEMMA LedgerStopped ==
    ASSUME IInv, LeadInv, NEW r \in Requests, Stop(r), req[r].op # "like", Explained
    PROVE  Explained' /\ LeadInv'
<1> PICK bel, over, under : Ledger(bel, over, under)
  BY DEF Explained
<1> PICK h \in Handler :
             /\ Goes(r, h) /\ Same(req[r], h) /\ UNCHANGED tables
             /\ req[r].pc \in {"uncount", "count", "write", "tally", "writeTally"}
             /\ h.pc = "done" /\ h.item = req[r].item
             /\ h.faults = req[r].faults \union {"stop"}
  BY Stopped
<1>1. req[r].op \in Writers /\ req[r].pc \in {"uncount", "count", "write"}
  BY HandlerKnows DEF Knows, InCourse, Writers
<1>2. LeadInv' /\ Keeps(req[r], h)
  BY <1>1, LeadGoesOn DEF AtItem, tables
<1>3. h.op \in Writers /\ ~Leads(h) /\ ~Open(h)
  BY <1>1 DEF Same, Leads, AtItem, Open
<1>4. PICK i \in Items : i = h.item
  BY <1>1, HandlerKnows DEF Knows, KnowsItem, AtItem
<1>5. \A j \in Items : Location(j)' = Location(j)
  BY DEF Location, Live, tables
<1>6. /\ bel \in [Items -> Places] /\ over \in [Pairs -> Places] /\ under \in [Pairs -> Places]
      /\ Balanced(count, bel, over, under)
      /\ count \in [Containers -> Nat] /\ count' = count
  BY DEF Ledger, IInv, TypeOK, tables
<1>7. CASE ~Leads(req[r])
  <2>1. Balanced(count', bel, over, under)
    BY <1>6
  <2>2. Ledger(bel, over, under)'
    BY <1>2, <1>3, <1>4, <1>5, <1>6, <1>7, <2>1, FollowerStep
  <2> QED BY <1>2, <2>2 DEF Explained
<1>8. CASE Leads(req[r])
  <2>1. NoOtherLeads(r, i) /\ "overlap" \notin h.faults
    BY <1>4, <1>8 DEF LeadsOn, NoOtherLeads, LeadInv, OneLeads, Leads
  <2>2. PICK t \in Pairs : t = <<r, "stop">>
    BY PairFacts DEF Faults
  <2>3. t[1] = r /\ t[2] = "stop" /\ t[2] \in h.faults
    BY <2>2
  <2>4. over[t] = None /\ under[t] = None
    <3>1. FaultsFit(req[r])
      BY DEF LeadInv, FaultsInTime
    <3>2. "stop" \notin req[r].faults
      BY <1>1, <3>1 DEF FaultsFit
    <3> QED BY <2>2, <3>2, NotYetCharged DEF Ledger, Faults
  <2>5. PICK l \in Places : l = Location(i)
    BY PlacesOfItems
  <2>6. PICK c \in Places : c = bel[i]
    BY <1>6
  <2>7. l \in Touched(i)' \union {None}
    BY <1>1, <1>2, <1>4, <2>5, PlacesOfItems, StepFacts
  <2>8. c \in Touched(i)' \union {None}
    <3>1. c = CountedAt(req[r])
      BY <1>4, <1>8, <2>6 DEF Ledger, Believed, LeadsOn
    <3>2. c \in {h.from, h.to, None}
      BY <3>1 DEF CountedAt, Same
    <3> QED BY <1>2, <1>4, <3>2, StepFacts
  <2> DEFINE over2 == [over EXCEPT ![t] = c]
             under2 == [under EXCEPT ![t] = l]
  <2>9. over2 \in [Pairs -> Places] /\ Recharges(over, over2, r, i)
    <3>1. /\ [over EXCEPT ![t] = c] \in [Pairs -> Places]
          /\ Recharges(over, [over EXCEPT ![t] = c], r, i)
      BY <1>2, <1>3, <1>4, <1>6, <2>3, <2>6, <2>8, ChargeOne
    <3> QED BY <3>1
  <2>10. under2 \in [Pairs -> Places] /\ Discharges(under, under2, r, i)
    <3>1. /\ [under EXCEPT ![t] = l] \in [Pairs -> Places]
          /\ Discharges(under, [under EXCEPT ![t] = l], r, i)
      BY <1>2, <1>3, <1>4, <1>6, <2>3, <2>5, <2>7, ChargeOne
    <3> QED BY <3>1
  <2>11. Balanced(count', [bel EXCEPT ![i] = l], over2, under2)
    <3>1. \A k \in Containers :
            count'[k] + One(l, k) + One(bel[i], k) + One(over[t], k)
              = count[k] + One(under[t], k) + One(l, k) + One(c, k)
      BY <1>6, <2>4, <2>6 DEF One
    <3>2. /\ c \in Places /\ l \in Places /\ t \in Pairs /\ i \in Items
          /\ count' \in [Containers -> Nat] /\ Balanced(count, bel, over, under)
      BY <1>4, <1>6, <2>2, <2>5, <2>6
    <3> QED BY <1>6, <3>1, <3>2, BalanceMoves
  <2> HIDE DEF over2, under2
  <2>12. OthersStay(i)
    BY <1>5 DEF OthersStay
  <2>13. Ledger([bel EXCEPT ![i] = l], over2, under2)'
    BY <1>2, <1>3, <1>4, <1>5, <2>1, <2>5, <2>9, <2>10, <2>11, <2>12, LeaderStep
  <2> QED BY <1>2, <2>13 DEF Explained
<1> QED BY <1>7, <1>8

LEMMA LedgerStutters ==
    ASSUME UNCHANGED vars, LeadInv, Explained
    PROVE  Explained' /\ LeadInv'
<1> PICK bel, over, under : Ledger(bel, over, under)
  BY DEF Explained
<1>1. UNCHANGED <<state, home, count, req>>
  BY DEF vars, tables
<1>2. LeadInv'
  BY <1>1 DEF LeadInv, OneLeads, LeadsOn, FaultsInTime, CommentsStay, StaysHome, HomesTouched,
              Touched
<1>3. /\ \A i : Touched(i)' = Touched(i) /\ Location(i)' = Location(i)
      /\ \A t : Faulty(t)' <=> Faulty(t)
      /\ \A q, i : LeadsOn(q, i)' <=> LeadsOn(q, i)
  BY <1>1 DEF Touched, Location, Live, Faulty, LeadsOn
<1>4. Charged(over, under)'
  BY <1>1, <1>3 DEF Ledger, Charged
<1>5. Believed(bel)'
  BY <1>1, <1>3 DEF Ledger, Believed
<1>6. OverlapsCharged(over, under)'
  BY <1>1 DEF Ledger, OverlapsCharged
<1>7. LeftOrCharged(over)'
  BY <1>1, <1>3 DEF Ledger, LeftOrCharged, FreeAt, Free
<1>8. Ledger(bel, over, under)'
  BY <1>1, <1>4, <1>5, <1>6, <1>7 DEF Ledger, Balanced
<1> QED BY <1>2, <1>8 DEF Explained

LEMMA LedgerInit == Init => LeadInv /\ Explained
<1> SUFFICES ASSUME Init PROVE LeadInv /\ Explained
  OBVIOUS
<1>1. \A r \in Requests : req[r] = Blank
  BY DEF Init
<1>2. \A r \in Requests : req[r].op \notin Writers /\ req[r].faults = {} /\ req[r].pc = "new"
                          /\ req[r].op = "none"
  BY <1>1 DEF Blank, Writers
<1>3. LeadInv
  BY <1>2 DEF LeadInv, OneLeads, LeadsOn, Leads, FaultsInTime, FaultsFit, CommentsStay,
              StaysHome, HomesTouched
<1>4. /\ count \in [Containers -> Nat] /\ home \in [Items -> Places]
      /\ \A k \in Containers : count[k] = Cardinality({i \in Items : home[i] = k})
      /\ \A i \in Items : Location(i) = home[i]
  <2>1. count \in [Containers -> Nat] /\ home \in [Items -> Places]
    BY CountsAreNatural DEF Init, Places
  <2>2. \A k \in Containers : count[k] = Cardinality({i \in Items : home[i] = k})
    BY DEF Init
  <2>3. \A i \in Items : Location(i) = home[i]
    BY DEF Init, Location, Live, FirstHomes
  <2> QED BY <2>1, <2>2, <2>3
<1> DEFINE none == [t \in Pairs |-> None]
<1>5. none \in [Pairs -> Places] /\ \A t \in Pairs : none[t] = None
  BY DEF Places
<1> HIDE DEF none
<1>6. Balanced(count, home, none, none)
  <2> SUFFICES ASSUME NEW k \in Containers
               PROVE  count[k] + Fibre(none, Pairs, k)
                        = Fibre(home, Items, k) + Fibre(none, Pairs, k)
    BY DEF Balanced
  <2>1. count[k] = Fibre(home, Items, k) /\ count[k] \in Nat
    BY <1>4 DEF Fibre
  <2>2. Fibre(none, Pairs, k) \in Nat
    BY PairsAreFinite, FibreType
  <2> QED BY <2>1, <2>2
<1>7. Charged(none, none) /\ Believed(home) /\ OverlapsCharged(none, none)
      /\ LeftOrCharged(none)
  BY <1>2, <1>4, <1>5 DEF Charged, Believed, OverlapsCharged, LeftOrCharged, LeadsOn, Leads
<1>8. Ledger(home, none, none)
  BY <1>4, <1>5, <1>6, <1>7 DEF Ledger
<1> QED BY <1>3, <1>8 DEF Explained

\* A leader's step on a counter: the item is counted at c from now on; when it
\* leads no more and the item is elsewhere, another's fault takes the difference.
FreeKept(over, over2) == \A t \in Pairs : Free(t) => over2[t] = over[t]

LEMMA LeaderCounts ==
    ASSUME IInv, LeadInv, NEW r \in Requests, NEW h \in Handler, Goes(r, h), Keeps(req[r], h),
           NEW i \in Items, h.item = i, h.op \in Writers, LeadsOn(r, i),
           "overlap" \notin h.faults, Open(h) => Open(req[r]),
           \A j \in Items : Location(j)' = Location(j),
           NEW bel, NEW over, NEW under, Ledger(bel, over, under),
           NEW c \in Places, c \in Touched(i)' \union {None},
           Leads(h) => c = CountedAt(h) /\ LeftAt(h) = LeftAt(req[r]),
           ~Leads(h) => c = LeftAt(req[r]),
           NEW over2 \in [Pairs -> Places], NEW under2 \in [Pairs -> Places],
           Recharges(over, over2, r, i), Discharges(under, under2, r, i), FreeKept(over, over2),
           count' \in [Containers -> Nat],
           Balanced(count', [bel EXCEPT ![i] = c], over2, under2)
    PROVE  Explained'
<1>1. PICK p \in Places : p = Location(i)
  BY PlacesOfItems
<1>2. p = Location(i)' /\ OthersStay(i)
  BY <1>1 DEF OthersStay
<1>3. NoOtherLeads(r, i)
  BY DEF NoOtherLeads, LeadInv, OneLeads
<1>4. p = LeftAt(req[r]) \/ FreeAt(over, i, p)
  BY <1>1 DEF Ledger, LeftOrCharged
<1>5. CASE Leads(h)
  <2>1. FreeAt(over, i, p) => FreeAt(over2, i, p)'
    <3>1. \A t \in Pairs : Free(t) /\ req[t[1]].item = i => over2[t] = over[t]
      BY DEF FreeKept
    <3> QED BY <3>1, FreeStays
  <2>2. c = CountedAt(h) /\ (p = LeftAt(h) \/ FreeAt(over2, i, p)')
    BY <1>4, <1>5, <2>1
  <2>3. Ledger([bel EXCEPT ![i] = c], over2, under2)'
    BY <1>2, <1>3, <1>5, <2>2, LeaderStep
  <2> QED BY <2>3 DEF Explained
<1>6. CASE ~Leads(h) /\ p = c
  <2>1. Ledger([bel EXCEPT ![i] = c], over2, under2)'
    BY <1>2, <1>3, <1>6, LeaderStep
  <2> QED BY <2>1 DEF Explained
<1>7. CASE ~Leads(h) /\ p # c
  <2>1. PICK t \in Pairs : Free(t) /\ req[t[1]].item = i /\ over[t] = p
    BY <1>4, <1>7 DEF FreeAt
  <2>2. over2[t] = p
    BY <2>1 DEF FreeKept
  <2>3. Faulty(t)' /\ req'[t[1]].item = i
    BY <2>1, StepFacts DEF Free
  <2>4. PICK bel2 \in [Items -> Places] : bel2 = [bel EXCEPT ![i] = c]
    BY DEF Ledger
  <2>5. bel \in [Items -> Places]
    BY DEF Ledger
  <2>6. bel2[i] = c /\ [bel2 EXCEPT ![i] = p] = [bel EXCEPT ![i] = p]
    BY <1>1, <2>4, <2>5
  <2>7. PICK u \in Places : u = under2[t]
    BY <2>1
  <2> DEFINE over3 == [over2 EXCEPT ![t] = c]
  <2>8. Balanced(count', [bel2 EXCEPT ![i] = p], over3, [under2 EXCEPT ![t] = u])
    <3>1. \A k \in Containers :
            count'[k] + One(u, k) + One(bel2[i], k) + One(over2[t], k)
              = count'[k] + One(under2[t], k) + One(p, k) + One(c, k)
      BY <2>2, <2>6, <2>7 DEF One
    <3>2. /\ p \in Places /\ c \in Places /\ t \in Pairs /\ i \in Items /\ u \in Places
          /\ bel2 \in [Items -> Places] /\ Balanced(count', bel2, over2, under2)
      BY <1>1, <2>1, <2>4, <2>7
    <3> QED BY <3>1, <3>2, BalanceMoves
  <2>9. [under2 EXCEPT ![t] = u] = under2
    BY <2>7
  <2>10. over3 \in [Pairs -> Places] /\ over3[t] = c
         /\ \A s \in Pairs : s # t => over3[s] = over2[s]
    BY <2>1
  <2> HIDE DEF over3
  <2>11. Recharges(over, over3, r, i)
    BY <2>1, <2>3, <2>10 DEF Recharges
  <2>12. Balanced(count', [bel EXCEPT ![i] = p], over3, under2)
    BY <2>6, <2>8, <2>9
  <2>13. Ledger([bel EXCEPT ![i] = p], over3, under2)'
    BY <1>1, <1>2, <1>3, <1>7, <2>10, <2>11, <2>12, LeaderStep
  <2> QED BY <2>13 DEF Explained
<1> QED BY <1>5, <1>6, <1>7

LEMMA CountsMove ==
    ASSUME IInv, NEW c \in Containers, NEW d \in {-1, 1},
           count' = [count EXCEPT ![c] = Plus(@, d)]
    PROVE  /\ count' \in [Containers -> Nat]
           /\ d = 1 => \A k \in Containers : count'[k] = count[k] + One(c, k)
           /\ d = -1 /\ count[c] # 0 => \A k \in Containers : count'[k] + One(c, k) = count[k]
           /\ d = -1 /\ count[c] = 0 => count' = count
<1>1. count \in [Containers -> Nat]
  BY DEF IInv, TypeOK
<1>2. PICK n \in Nat : n = count[c]
  BY <1>1
<1>3. PICK m : m = Plus(n, d)
  OBVIOUS
<1>4. m \in Nat /\ (d = 1 => m = n + 1) /\ (d = -1 /\ n # 0 => m + 1 = n)
      /\ (d = -1 /\ n = 0 => m = n)
  BY <1>2, <1>3 DEF Plus
<1>5. count' = [count EXCEPT ![c] = m]
  BY <1>2, <1>3
<1>6. count' \in [Containers -> Nat] /\ count'[c] = m
      /\ \A k \in Containers : k # c => count'[k] = count[k]
  BY <1>1, <1>4, <1>5
<1>7. \A k \in Containers : One(c, k) = (IF k = c THEN 1 ELSE 0)
  BY DEF One
<1>8. d = -1 /\ n = 0 => count' = count
  BY <1>1, <1>2, <1>4, <1>5
<1> QED BY <1>1, <1>2, <1>4, <1>6, <1>7, <1>8

\* A place that is counted is charged as missing when its counter is at zero.
LEMMA ZeroIsCharged ==
    ASSUME NEW bel, NEW over, NEW under, Balanced(count, bel, over, under),
           NEW i \in Items, NEW c \in Containers, bel[i] = c, count[c] = 0
    PROVE  \E t \in Pairs : under[t] = c
<1>1. /\ Fibre(bel, Items, c) \in Nat /\ Fibre(over, Pairs, c) \in Nat
      /\ Fibre(bel, Items, c) # 0
  BY PairsAreFinite, FibreType
<1>2. 0 + Fibre(under, Pairs, c) = Fibre(bel, Items, c) + Fibre(over, Pairs, c)
  BY DEF Balanced
<1>3. Fibre(under, Pairs, c) \in Nat
  BY PairsAreFinite, FibreType
<1>4. Fibre(under, Pairs, c) # 0
  BY <1>1, <1>2, <1>3
<1> SUFFICES ASSUME \A t \in Pairs : under[t] # c PROVE FALSE
  OBVIOUS
<1>5. {t \in Pairs : under[t] = c} = {}
  OBVIOUS
<1> QED BY <1>4, <1>5, FS_EmptySet DEF Fibre

\* A follower's step off a counter is charged to its overlap.
LEMMA FollowerCountedOut ==
    ASSUME IInv, LeadInv, NEW r \in Requests, CountOut(r), ~Leads(req[r]), Explained
    PROVE  Explained' /\ LeadInv'
<1> PICK bel, over, under : Ledger(bel, over, under)
  BY DEF Explained
<1> PICK h \in Handler :
             /\ Goes(r, h) /\ Same(req[r], h) /\ At(r, "uncount") /\ h.item = req[r].item
             /\ \/ h.op = "update" /\ h.pc = "count"
                \/ h.op = "delete" /\ h.pc = "done"
             /\ UNCHANGED <<state, home>>
             /\ \/ /\ count' = [count EXCEPT ![h.from] = Plus(@, -1)]
                   /\ h.faults = req[r].faults
                \/ count' = count /\ h.faults = req[r].faults \union {"uncount"}
  BY CountedOut
<1>1. req[r].op \in Writers /\ req[r].pc \in AtItem /\ req[r].pc = "uncount" /\ h.op \in Writers
  BY DEF At, Same, AtItem, Writers
<1>2. LeadInv' /\ Keeps(req[r], h)
  BY <1>1, LeadGoesOn
<1>3. PICK i \in Items : i = h.item
  BY <1>1, HandlerKnows DEF Knows, KnowsItem, AtItem
<1>4. \A j \in Items : Location(j)' = Location(j)
  BY DEF Location, Live
<1>5. /\ bel \in [Items -> Places] /\ over \in [Pairs -> Places] /\ under \in [Pairs -> Places]
      /\ Balanced(count, bel, over, under) /\ count \in [Containers -> Nat]
  BY DEF Ledger, IInv, TypeOK
<1>6. "overlap" \in req[r].faults /\ "overlap" \in h.faults /\ ~Leads(h)
      /\ (Open(h) => Open(req[r]) /\ h.pc # "write" /\ req[r].pc # "write")
      /\ h.pc \notin {"delete", "uncount"}
  BY <1>1 DEF Leads, Same, Open, At
<1>7. PICK t \in Pairs : t = Overlap(r)
  BY PairFacts DEF Overlap, Faults
<1>8. /\ t[1] = r /\ t[2] = "overlap" /\ t[2] \in h.faults /\ Faulty(t)'
      /\ under[t] = None /\ (Open(h) => over[t] = None)
  BY <1>1, <1>6, <1>7 DEF Overlap, Faulty, Goes, Ledger, OverlapsCharged
<1>9. PICK c \in Containers : c = h.from
  <2>1. h.from = req[r].from
    BY DEF Same
  <2> QED BY <1>1, <2>1, HandlerKnows DEF Knows, KnowsPlaces, InCourse, Same
<1>10. c \in Touched(i)' /\ c \in Places
  BY <1>2, <1>3, <1>9, StepFacts DEF Places
<1>11. CASE count' = count
  <2>1. Balanced(count', bel, over, under)
    BY <1>5, <1>11
  <2>2. Ledger(bel, over, under)'
    BY <1>1, <1>2, <1>3, <1>4, <1>5, <1>6, <1>7, <1>8, <2>1, FollowerStep
  <2> QED BY <1>2, <2>2 DEF Explained
<1>12. CASE count' # count
  <2>1. /\ count' \in [Containers -> Nat]
        /\ \A k \in Containers : count'[k] + One(c, k) = count[k]
    BY <1>9, <1>12, CountsMove
  <2> DEFINE under2 == [under EXCEPT ![t] = c]
  <2>2. Balanced(count', bel, over, under2)
    <3>1. PICK b \in Places : b = bel[i]
      BY <1>3, <1>5
    <3>2. PICK o \in Places : o = over[t]
      BY <1>5
    <3>3. \A k \in Containers :
            count'[k] + One(c, k) + One(bel[i], k) + One(over[t], k)
              = count[k] + One(under[t], k) + One(b, k) + One(o, k)
      <4>1. None \notin Containers
        BY ContentAssumption
      <4>2. \A k \in Containers : One(under[t], k) = 0 /\ count[k] \in Nat /\ count'[k] \in Nat
        BY <1>5, <1>8, <2>1, <4>1 DEF One
      <4> QED BY <2>1, <3>1, <3>2, <4>2 DEF One
    <3>4. /\ b \in Places /\ o \in Places /\ c \in Places /\ t \in Pairs /\ i \in Items
          /\ count' \in [Containers -> Nat] /\ Balanced(count, bel, over, under)
      BY <1>3, <1>5, <1>7, <1>10, <2>1, <3>1, <3>2
    <3>5. Balanced(count', [bel EXCEPT ![i] = b], [over EXCEPT ![t] = o], under2)
      BY <1>5, <3>3, <3>4, BalanceMoves
    <3>6. [bel EXCEPT ![i] = b] = bel /\ [over EXCEPT ![t] = o] = over
      BY <1>5, <3>1, <3>2
    <3> QED BY <3>5, <3>6
  <2>3. under2 \in [Pairs -> Places] /\ under2[t] = c
        /\ \A s \in Pairs : s # t => under2[s] = under[s]
    BY <1>5, <1>7, <1>10
  <2> HIDE DEF under2
  <2>4. \A s \in Pairs :
          \/ under2[s] = under[s]
          \/ Faulty(s)' /\ s[1] = r /\ under2[s] \in Touched(i)' \union {None}
    BY <1>8, <1>10, <2>3
  <2>5. Ledger(bel, over, under2)'
    BY <1>1, <1>2, <1>3, <1>4, <1>5, <1>6, <1>7, <1>8, <2>2, <2>3, <2>4, FollowerStep
  <2> QED BY <1>2, <2>5 DEF Explained
<1> QED BY <1>11, <1>12

\* A follower's step onto a counter is charged to its overlap, and one that is lost
\* to the loss as well.
LEMMA FollowerCountedIn ==
    ASSUME IInv, LeadInv, NEW r \in Requests, CountIn(r), ~Leads(req[r]), Explained
    PROVE  Explained' /\ LeadInv'
<1> PICK bel, over, under : Ledger(bel, over, under)
  BY DEF Explained
<1> PICK h \in Handler :
             /\ Goes(r, h) /\ Same(req[r], h) /\ At(r, "count") /\ h.item = req[r].item
             /\ \/ h.op = "update" /\ h.pc = "write"
                \/ h.op = "create" /\ h.pc = "save" /\ h.key \in Keys
                \/ h.op = "create" /\ h.pc = "done"
             /\ UNCHANGED <<state, home>>
             /\ \/ /\ count' = [count EXCEPT ![h.to] = Plus(@, 1)]
                   /\ h.faults = req[r].faults
                \/ count' = count /\ h.faults = req[r].faults \union {"count"}
  BY CountedIn
<1>1. req[r].op \in Writers /\ req[r].pc \in AtItem /\ req[r].pc = "count" /\ h.op \in Writers
  BY DEF At, Same, AtItem, Writers
<1>2. LeadInv' /\ Keeps(req[r], h)
  BY <1>1, LeadGoesOn
<1>3. PICK i \in Items : i = h.item
  BY <1>1, HandlerKnows DEF Knows, KnowsItem, AtItem
<1>4. \A j \in Items : Location(j)' = Location(j)
  BY DEF Location, Live
<1>5. /\ bel \in [Items -> Places] /\ over \in [Pairs -> Places] /\ under \in [Pairs -> Places]
      /\ Balanced(count, bel, over, under) /\ count \in [Containers -> Nat]
  BY DEF Ledger, IInv, TypeOK
<1>6. FaultsFit(req[r])
  BY DEF LeadInv, FaultsInTime
<1>7. "overlap" \in req[r].faults /\ "overlap" \in h.faults /\ ~Leads(h)
  BY <1>1 DEF Leads, Same
<1>8. h.op = "update" /\ req[r].op = "update" /\ h.pc = "write" /\ Open(req[r])
  BY <1>1, <1>6, <1>7 DEF FaultsFit, Same, Open
<1>9. PICK t \in Pairs : t = Overlap(r)
  BY PairFacts DEF Overlap, Faults
<1>10. /\ t[1] = r /\ t[2] = "overlap" /\ t[2] \in h.faults /\ Faulty(t)' /\ ~Free(t)
       /\ over[t] = None
  BY <1>1, <1>7, <1>8, <1>9 DEF Overlap, Faulty, Goes, Ledger, OverlapsCharged, Free
<1>11. PICK c \in Containers : c = h.to
  <2>1. h.to = req[r].to
    BY DEF Same
  <2> QED BY <1>8, <2>1, HandlerKnows DEF Knows, KnowsPlaces
<1>12. c \in Touched(i)' /\ c \in Places /\ None \notin Containers
  BY <1>2, <1>3, <1>11, StepFacts, ContentAssumption DEF Places
<1> DEFINE over2 == [over EXCEPT ![t] = c]
<1>13. over2 \in [Pairs -> Places] /\ over2[t] = c
       /\ \A s \in Pairs : s # t => over2[s] = over[s]
  BY <1>5, <1>9, <1>12
<1>14. PICK b \in Places : b = bel[i]
  BY <1>3, <1>5
<1>15. [bel EXCEPT ![i] = b] = bel
  BY <1>5, <1>14
<1>16. \A k \in Containers : One(over[t], k) = 0 /\ count[k] \in Nat
  BY <1>5, <1>10, <1>12 DEF One
<1>17. \A s \in Pairs :
         \/ over2[s] = over[s]
         \/ Faulty(s)' /\ s[1] = r /\ ~Free(s) /\ over2[s] \in Touched(i)' \union {None}
  BY <1>10, <1>12, <1>13
<1>18. over2[Overlap(r)] = (IF h.pc = "write" THEN h.to ELSE None)
       /\ h.pc \notin {"delete", "uncount"} /\ (Open(h) => Open(req[r]))
  BY <1>8, <1>9, <1>11, <1>13
<1>19. CASE count' = [count EXCEPT ![h.to] = Plus(@, 1)]
  <2>1. /\ count' \in [Containers -> Nat]
        /\ \A k \in Containers : count'[k] = count[k] + One(c, k)
    BY <1>11, <1>19, CountsMove
  <2>2. Balanced(count', bel, over2, under)
    <3>1. PICK u \in Places : u = under[t]
      BY <1>5
    <3>2. \A k \in Containers :
            count'[k] + One(u, k) + One(bel[i], k) + One(over[t], k)
              = count[k] + One(under[t], k) + One(b, k) + One(c, k)
      BY <1>14, <1>16, <2>1, <3>1 DEF One
    <3>3. /\ b \in Places /\ u \in Places /\ c \in Places /\ t \in Pairs /\ i \in Items
          /\ count' \in [Containers -> Nat] /\ Balanced(count, bel, over, under)
      BY <1>3, <1>5, <1>9, <1>12, <1>14, <2>1, <3>1
    <3>4. Balanced(count', [bel EXCEPT ![i] = b], over2, [under EXCEPT ![t] = u])
      BY <1>5, <3>2, <3>3, BalanceMoves
    <3>5. [under EXCEPT ![t] = u] = under
      BY <1>5, <3>1
    <3> QED BY <1>15, <3>4, <3>5
  <2> HIDE DEF over2
  <2>3. Ledger(bel, over2, under)'
    BY <1>1, <1>2, <1>3, <1>4, <1>5, <1>7, <1>13, <1>17, <1>18, <2>2, FollowerStep
  <2> QED BY <1>2, <2>3 DEF Explained
<1>20. CASE count' = count /\ h.faults = req[r].faults \union {"count"}
  <2>1. PICK s \in Pairs : s = <<r, "count">>
    BY PairFacts DEF Faults
  <2>2. s[1] = r /\ s[2] = "count" /\ Faulty(s)'
    BY <1>1, <1>20, <2>1 DEF Faulty, Goes
  <2>3. under[s] = None
    <3>1. "count" \notin req[r].faults
      BY <1>1, <1>6 DEF FaultsFit
    <3> QED BY <2>1, <3>1, NotYetCharged DEF Ledger, Faults
  <2> DEFINE under2 == [under EXCEPT ![s] = c]
  <2>4. Balanced(count', bel, over2, under2)
    <3>1. \A k \in Containers : One(under[s], k) = 0
      BY <1>12, <2>3 DEF One
    <3>2. \A k \in Containers :
            count'[k] + One(c, k) + One(bel[i], k) + One(over[t], k)
              = count[k] + One(under[s], k) + One(b, k) + One(c, k)
      BY <1>14, <1>16, <1>20, <3>1 DEF One
    <3>3. /\ b \in Places /\ c \in Places /\ t \in Pairs /\ i \in Items /\ s \in Pairs
          /\ count' \in [Containers -> Nat] /\ Balanced(count, bel, over, under)
      BY <1>3, <1>5, <1>9, <1>12, <1>14, <1>20, <2>1
    <3>4. Balanced(count', [bel EXCEPT ![i] = b], over2, under2)
      BY <1>5, <3>2, <3>3, BalanceMoves
    <3> QED BY <1>15, <3>4
  <2>5. under2 \in [Pairs -> Places] /\ under2[s] = c
        /\ \A x \in Pairs : x # s => under2[x] = under[x]
    BY <1>5, <1>12, <2>1
  <2> HIDE DEF over2, under2
  <2>6. \A x \in Pairs :
          \/ under2[x] = under[x]
          \/ Faulty(x)' /\ x[1] = r /\ under2[x] \in Touched(i)' \union {None}
    BY <1>12, <2>2, <2>5
  <2>7. Ledger(bel, over2, under2)'
    BY <1>1, <1>2, <1>3, <1>4, <1>5, <1>7, <1>13, <1>17, <1>18, <2>4, <2>5, <2>6, FollowerStep
  <2> QED BY <1>2, <2>7 DEF Explained
<1> QED BY <1>19, <1>20

LEMMA LeaderCountedOut ==
    ASSUME IInv, LeadInv, NEW r \in Requests, CountOut(r), Leads(req[r]), Explained
    PROVE  Explained' /\ LeadInv'
<1> PICK bel, over, under : Ledger(bel, over, under)
  BY DEF Explained
<1> PICK h \in Handler :
             /\ Goes(r, h) /\ Same(req[r], h) /\ At(r, "uncount") /\ h.item = req[r].item
             /\ \/ h.op = "update" /\ h.pc = "count"
                \/ h.op = "delete" /\ h.pc = "done"
             /\ UNCHANGED <<state, home>>
             /\ \/ /\ count' = [count EXCEPT ![h.from] = Plus(@, -1)]
                   /\ h.faults = req[r].faults
                \/ count' = count /\ h.faults = req[r].faults \union {"uncount"}
  BY CountedOut
<1>1. req[r].op \in Writers /\ req[r].pc \in AtItem /\ req[r].pc = "uncount" /\ h.op \in Writers
  BY DEF At, Same, AtItem, Writers
<1>2. LeadInv' /\ Keeps(req[r], h)
  BY <1>1, LeadGoesOn
<1>3. PICK i \in Items : i = h.item
  BY <1>1, HandlerKnows DEF Knows, KnowsItem, AtItem
<1>4. \A j \in Items : Location(j)' = Location(j)
  BY DEF Location, Live
<1>5. /\ bel \in [Items -> Places] /\ over \in [Pairs -> Places] /\ under \in [Pairs -> Places]
      /\ Balanced(count, bel, over, under) /\ count \in [Containers -> Nat]
  BY DEF Ledger, IInv, TypeOK
<1>6. /\ LeadsOn(r, i) /\ "overlap" \notin h.faults /\ (Open(h) => Open(req[r]))
      /\ (Leads(h) => None = CountedAt(h) /\ LeftAt(h) = LeftAt(req[r]))
      /\ (~Leads(h) => None = LeftAt(req[r]))
  BY <1>1, <1>3 DEF LeadsOn, Leads, Same, Open, CountedAt, LeftAt, AtItem
<1>7. PICK c \in Containers : c = h.from
  <2>1. h.from = req[r].from
    BY DEF Same
  <2> QED BY <1>1, <2>1, HandlerKnows DEF Knows, KnowsPlaces, InCourse, Same
<1>8. c \in Touched(i)' /\ c \in Places /\ None \notin Containers
  BY <1>2, <1>3, <1>7, StepFacts, ContentAssumption DEF Places
<1>9. bel[i] = c
  BY <1>1, <1>6, <1>7 DEF Ledger, Believed, CountedAt, Same
<1>10. PICK n \in Places : n = None
  BY DEF Places
<1>11. n \in Touched(i)' \union {None}
  BY <1>10
<1>12. /\ Recharges(over, over, r, i) /\ Discharges(under, under, r, i) /\ FreeKept(over, over)
  BY NothingCharged DEF FreeKept
<1>13. \A k \in Containers : One(n, k) = 0
  BY <1>8, <1>10 DEF One
<1>14. CASE count' = [count EXCEPT ![h.from] = Plus(@, -1)] /\ count[c] # 0
  <2>1. /\ count' \in [Containers -> Nat]
        /\ \A k \in Containers : count'[k] + One(c, k) = count[k]
    BY <1>7, <1>14, CountsMove
  <2>2. PICK t \in Pairs : t = Overlap(r)
    BY PairFacts DEF Overlap, Faults
  <2>3. Balanced(count', [bel EXCEPT ![i] = n], over, under)
    <3>1. PICK u \in Places, o \in Places : u = under[t] /\ o = over[t]
      BY <1>5, <2>2
    <3>2. \A k \in Containers :
            count'[k] + One(u, k) + One(bel[i], k) + One(over[t], k)
              = count[k] + One(under[t], k) + One(n, k) + One(o, k)
      BY <1>5, <1>9, <1>13, <2>1, <3>1 DEF One
    <3>3. /\ n \in Places /\ u \in Places /\ o \in Places /\ t \in Pairs /\ i \in Items
          /\ count' \in [Containers -> Nat] /\ Balanced(count, bel, over, under)
      BY <1>3, <1>5, <1>10, <2>1, <2>2, <3>1
    <3>4. Balanced(count', [bel EXCEPT ![i] = n], [over EXCEPT ![t] = o],
                   [under EXCEPT ![t] = u])
      BY <1>5, <3>2, <3>3, BalanceMoves
    <3>5. [under EXCEPT ![t] = u] = under /\ [over EXCEPT ![t] = o] = over
      BY <1>5, <3>1
    <3> QED BY <3>4, <3>5
  <2>4. Explained'
    BY <1>1, <1>2, <1>3, <1>4, <1>5, <1>6, <1>10, <1>11, <1>12, <2>1, <2>3, LeaderCounts
  <2> QED BY <1>2, <2>4
<1>15. CASE count' = [count EXCEPT ![h.from] = Plus(@, -1)] /\ count[c] = 0
  <2>1. count' = count
    BY <1>7, <1>15, CountsMove
  <2>2. PICK t \in Pairs : under[t] = c
    BY <1>3, <1>5, <1>9, <1>15, ZeroIsCharged
  <2> DEFINE under2 == [under EXCEPT ![t] = n]
  <2>3. Balanced(count', [bel EXCEPT ![i] = n], over, under2)
    <3>1. PICK o \in Places : o = over[t]
      BY <1>5, <2>2
    <3>2. \A k \in Containers :
            count'[k] + One(n, k) + One(bel[i], k) + One(over[t], k)
              = count[k] + One(under[t], k) + One(n, k) + One(o, k)
      BY <1>5, <1>9, <2>1, <2>2, <3>1 DEF One
    <3>3. /\ n \in Places /\ o \in Places /\ t \in Pairs /\ i \in Items
          /\ count' \in [Containers -> Nat] /\ Balanced(count, bel, over, under)
      BY <1>3, <1>5, <1>10, <2>1, <2>2, <3>1
    <3>4. Balanced(count', [bel EXCEPT ![i] = n], [over EXCEPT ![t] = o], under2)
      BY <1>5, <3>2, <3>3, BalanceMoves
    <3>5. [over EXCEPT ![t] = o] = over
      BY <1>5, <3>1
    <3> QED BY <3>4, <3>5
  <2>4. under2 \in [Pairs -> Places] /\ under2[t] = None
        /\ \A s \in Pairs : s # t => under2[s] = under[s]
    BY <1>5, <1>10, <2>2
  <2> HIDE DEF under2
  <2>5. Discharges(under, under2, r, i)
    BY <2>4 DEF Discharges
  <2>6. count' \in [Containers -> Nat]
    BY <1>5, <2>1
  <2>7. Explained'
    BY <1>1, <1>2, <1>3, <1>4, <1>5, <1>6, <1>10, <1>11, <1>12, <2>3, <2>4, <2>5, <2>6,
       LeaderCounts
  <2> QED BY <1>2, <2>7
<1>16. CASE count' = count /\ h.faults = req[r].faults \union {"uncount"}
  <2>1. PICK t \in Pairs : t = <<r, "uncount">>
    BY PairFacts DEF Faults
  <2>2. t[1] = r /\ t[2] \in h.faults /\ "uncount" \notin req[r].faults
    <3>1. FaultsFit(req[r])
      BY DEF LeadInv, FaultsInTime
    <3> QED BY <1>1, <1>16, <2>1, <3>1 DEF FaultsFit
  <2>3. over[t] = None /\ ~Faulty(t)
    BY <2>1, <2>2, NotYetCharged DEF Ledger, Faults, Faulty
  <2> DEFINE over2 == [over EXCEPT ![t] = c]
  <2>4. over2 \in [Pairs -> Places] /\ Recharges(over, over2, r, i)
    <3>1. /\ [over EXCEPT ![t] = c] \in [Pairs -> Places]
          /\ Recharges(over, [over EXCEPT ![t] = c], r, i)
      BY <1>1, <1>2, <1>3, <1>5, <1>8, <2>2, ChargeOne
    <3> QED BY <3>1
  <2>5. Balanced(count', [bel EXCEPT ![i] = n], over2, under)
    <3>1. PICK u \in Places : u = under[t]
      BY <1>5, <2>1
    <3>2. \A k \in Containers :
            count'[k] + One(u, k) + One(bel[i], k) + One(over[t], k)
              = count[k] + One(under[t], k) + One(n, k) + One(c, k)
      BY <1>5, <1>9, <1>10, <1>16, <2>3, <3>1 DEF One
    <3>3. /\ n \in Places /\ u \in Places /\ c \in Places /\ t \in Pairs /\ i \in Items
          /\ count' \in [Containers -> Nat] /\ Balanced(count, bel, over, under)
      BY <1>3, <1>5, <1>8, <1>10, <1>16, <2>1, <3>1
    <3>4. Balanced(count', [bel EXCEPT ![i] = n], over2, [under EXCEPT ![t] = u])
      BY <1>5, <3>2, <3>3, BalanceMoves
    <3>5. [under EXCEPT ![t] = u] = under
      BY <1>5, <3>1
    <3> QED BY <3>4, <3>5
  <2>6. FreeKept(over, over2)
    <3>1. \A s \in Pairs : s # t => over2[s] = over[s]
      BY <1>5
    <3> QED BY <2>3, <3>1 DEF FreeKept, Free
  <2> HIDE DEF over2
  <2>7. count' \in [Containers -> Nat]
    BY <1>5, <1>16
  <2>8. Explained'
    BY <1>1, <1>2, <1>3, <1>4, <1>5, <1>6, <1>10, <1>11, <1>12, <2>4, <2>5, <2>6, <2>7,
       LeaderCounts
  <2> QED BY <1>2, <2>8
<1> QED BY <1>14, <1>15, <1>16

LEMMA LeaderCountedIn ==
    ASSUME IInv, LeadInv, NEW r \in Requests, CountIn(r), Leads(req[r]), Explained
    PROVE  Explained' /\ LeadInv'
<1> PICK bel, over, under : Ledger(bel, over, under)
  BY DEF Explained
<1> PICK h \in Handler :
             /\ Goes(r, h) /\ Same(req[r], h) /\ At(r, "count") /\ h.item = req[r].item
             /\ \/ h.op = "update" /\ h.pc = "write"
                \/ h.op = "create" /\ h.pc = "save" /\ h.key \in Keys
                \/ h.op = "create" /\ h.pc = "done"
             /\ UNCHANGED <<state, home>>
             /\ \/ /\ count' = [count EXCEPT ![h.to] = Plus(@, 1)]
                   /\ h.faults = req[r].faults
                \/ count' = count /\ h.faults = req[r].faults \union {"count"}
  BY CountedIn
<1>1. req[r].op \in Writers /\ req[r].pc \in AtItem /\ req[r].pc = "count" /\ h.op \in Writers
  BY DEF At, Same, AtItem, Writers
<1>2. LeadInv' /\ Keeps(req[r], h)
  BY <1>1, LeadGoesOn
<1>3. PICK i \in Items : i = h.item
  BY <1>1, HandlerKnows DEF Knows, KnowsItem, AtItem
<1>4. \A j \in Items : Location(j)' = Location(j)
  BY DEF Location, Live
<1>5. /\ bel \in [Items -> Places] /\ over \in [Pairs -> Places] /\ under \in [Pairs -> Places]
      /\ Balanced(count, bel, over, under) /\ count \in [Containers -> Nat]
  BY DEF Ledger, IInv, TypeOK
<1>6. PICK c \in Containers : c = h.to
  <2>1. h.to = req[r].to
    BY DEF Same
  <2> QED BY <1>1, <2>1, HandlerKnows DEF Knows, KnowsPlaces, InCourse, Same
<1>7. /\ LeadsOn(r, i) /\ "overlap" \notin h.faults /\ (Open(h) => Open(req[r]))
      /\ (Leads(h) => c = CountedAt(h) /\ LeftAt(h) = LeftAt(req[r]))
      /\ (~Leads(h) => c = LeftAt(req[r]))
  BY <1>1, <1>3, <1>6 DEF LeadsOn, Leads, Same, Open, CountedAt, LeftAt, AtItem
<1>8. c \in Touched(i)' \union {None} /\ c \in Places /\ None \notin Containers
  BY <1>2, <1>3, <1>6, StepFacts, ContentAssumption DEF Places
<1>9. bel[i] = None
  BY <1>1, <1>7 DEF Ledger, Believed, CountedAt
<1>10. \A k \in Containers : One(bel[i], k) = 0
  BY <1>8, <1>9 DEF One
<1>11. /\ Recharges(over, over, r, i) /\ Discharges(under, under, r, i) /\ FreeKept(over, over)
  BY NothingCharged DEF FreeKept
<1>12. CASE count' = [count EXCEPT ![h.to] = Plus(@, 1)]
  <2>1. /\ count' \in [Containers -> Nat]
        /\ \A k \in Containers : count'[k] = count[k] + One(c, k)
    BY <1>6, <1>12, CountsMove
  <2>2. PICK t \in Pairs : t = Overlap(r)
    BY PairFacts DEF Overlap, Faults
  <2>3. Balanced(count', [bel EXCEPT ![i] = c], over, under)
    <3>1. PICK u \in Places, o \in Places : u = under[t] /\ o = over[t]
      BY <1>5, <2>2
    <3>2. \A k \in Containers :
            count'[k] + One(u, k) + One(bel[i], k) + One(over[t], k)
              = count[k] + One(under[t], k) + One(c, k) + One(o, k)
      BY <1>5, <1>10, <2>1, <3>1 DEF One
    <3>3. /\ u \in Places /\ o \in Places /\ t \in Pairs /\ i \in Items
          /\ count' \in [Containers -> Nat] /\ Balanced(count, bel, over, under)
      BY <1>3, <1>5, <2>1, <2>2, <3>1
    <3>4. Balanced(count', [bel EXCEPT ![i] = c], [over EXCEPT ![t] = o],
                   [under EXCEPT ![t] = u])
      BY <1>5, <1>8, <3>2, <3>3, BalanceMoves
    <3>5. [under EXCEPT ![t] = u] = under /\ [over EXCEPT ![t] = o] = over
      BY <1>5, <3>1
    <3> QED BY <3>4, <3>5
  <2>4. Explained'
    BY <1>1, <1>2, <1>3, <1>4, <1>5, <1>7, <1>8, <1>11, <2>1, <2>3, LeaderCounts
  <2> QED BY <1>2, <2>4
<1>13. CASE count' = count /\ h.faults = req[r].faults \union {"count"}
  <2>1. PICK t \in Pairs : t = <<r, "count">>
    BY PairFacts DEF Faults
  <2>2. t[1] = r /\ t[2] \in h.faults /\ "count" \notin req[r].faults
    <3>1. FaultsFit(req[r])
      BY DEF LeadInv, FaultsInTime
    <3> QED BY <1>1, <1>13, <2>1, <3>1 DEF FaultsFit
  <2>3. under[t] = None
    BY <2>1, <2>2, NotYetCharged DEF Ledger, Faults
  <2> DEFINE under2 == [under EXCEPT ![t] = c]
  <2>4. under2 \in [Pairs -> Places] /\ Discharges(under, under2, r, i)
    <3>1. /\ [under EXCEPT ![t] = c] \in [Pairs -> Places]
          /\ Discharges(under, [under EXCEPT ![t] = c], r, i)
      BY <1>1, <1>2, <1>3, <1>5, <1>8, <2>2, ChargeOne
    <3> QED BY <3>1
  <2>5. Balanced(count', [bel EXCEPT ![i] = c], over, under2)
    <3>1. PICK o \in Places : o = over[t]
      BY <1>5, <2>1
    <3>2. \A k \in Containers :
            count'[k] + One(c, k) + One(bel[i], k) + One(over[t], k)
              = count[k] + One(under[t], k) + One(c, k) + One(o, k)
      BY <1>5, <1>9, <1>13, <2>3, <3>1 DEF One
    <3>3. /\ o \in Places /\ t \in Pairs /\ i \in Items
          /\ count' \in [Containers -> Nat] /\ Balanced(count, bel, over, under)
      BY <1>3, <1>5, <1>13, <2>1, <3>1
    <3>4. Balanced(count', [bel EXCEPT ![i] = c], [over EXCEPT ![t] = o], under2)
      BY <1>5, <1>8, <3>2, <3>3, BalanceMoves
    <3>5. [over EXCEPT ![t] = o] = over
      BY <1>5, <3>1
    <3> QED BY <3>4, <3>5
  <2> HIDE DEF under2
  <2>6. count' \in [Containers -> Nat]
    BY <1>5, <1>13
  <2>7. Explained'
    BY <1>1, <1>2, <1>3, <1>4, <1>5, <1>7, <1>8, <1>11, <2>4, <2>5, <2>6, LeaderCounts
  <2> QED BY <1>2, <2>7
<1> QED BY <1>12, <1>13

LEMMA LedgerNext ==
    ASSUME IInv, LeadInv, Explained, [Next]_vars
    PROVE  Explained' /\ LeadInv'
<1>1. CASE Next
  <2> PICK r \in Requests : Arrive(r) \/ GoOn(r) \/ Stop(r)
    BY <1>1 DEF Next
  <2>1. CASE QuietStep(r)
    <3>1. PICK bel, over, under : Ledger(bel, over, under)
      BY DEF Explained
    <3>2. Ledger(bel, over, under)' /\ LeadInv'
      BY <2>1, <3>1, LedgerQuiet, LeadQuiet
    <3> QED BY <3>2 DEF Explained
  <2>2. CASE \/ HandleUpdatePost(r) \/ HandleUpdateComment(r)
             \/ HandleDeletePost(r) \/ HandleDeleteComment(r)
    BY <2>2, LedgerEditRequested
  <2>3. CASE HandleModeration(r)
    BY <2>3, LedgerModerated
  <2>4. CASE CreatePost(r) \/ CreateComment(r)
    BY <2>4, LedgerInserted
  <2>5. CASE CountIn(r)
    BY <2>5, LeaderCountedIn, FollowerCountedIn
  <2>6. CASE CountOut(r)
    BY <2>6, LeaderCountedOut, FollowerCountedOut
  <2>7. CASE UpdatePost(r) \/ UpdateComment(r)
    BY <2>7, LedgerEdited
  <2>8. CASE DeletePost(r) \/ DeleteComment(r)
    BY <2>8, LedgerDeleted
  <2>9. CASE Stop(r) /\ req[r].op # "like"
    BY <2>9, LedgerStopped
  <2> QED BY <2>1, <2>2, <2>3, <2>4, <2>5, <2>6, <2>7, <2>8, <2>9 DEF Arrive, GoOn, QuietStep
<1>2. CASE UNCHANGED vars
  BY <1>2, LedgerStutters
<1> QED BY <1>1, <1>2

\* Two counts that differ by counts of faults on k.
LEMMA ChargesAreFaults ==
    ASSUME IInv, NEW over, NEW under, Charged(over, under), NEW k \in Containers,
           NEW f \in {over, under}
    PROVE  /\ IsFiniteSet(FaultsOn(k)) /\ Cardinality(FaultsOn(k)) \in Nat
           /\ Fibre(f, Pairs, k) \in Nat /\ Fibre(f, Pairs, k) <= Cardinality(FaultsOn(k))
<1>1. None # k
  BY ContentAssumption
<1>2. \A t \in Pairs : f[t] = k => Faulty(t) /\ k \in Touched(req[t[1]].item)
  BY <1>1 DEF Charged
<1>3. {t \in Pairs : f[t] = k} \subseteq FaultsOn(k)
  BY <1>2 DEF FaultsOn, Faulty, Pairs
<1>4. FaultsOn(k) \subseteq Pairs
  BY DEF FaultsOn, Pairs
<1>5. IsFiniteSet(FaultsOn(k))
  BY <1>4, PairsAreFinite, FS_Subset
<1>6. Cardinality(FaultsOn(k)) \in Nat /\ Cardinality({t \in Pairs : f[t] = k}) \in Nat
      /\ Cardinality({t \in Pairs : f[t] = k}) <= Cardinality(FaultsOn(k))
  BY <1>3, <1>5, FS_Subset, FS_CardinalityType
<1> QED BY <1>5, <1>6 DEF Fibre

\* The ledger holds in every state: what a counter says is explained by the items
\* in it and by the faults of the requests on them.
THEOREM CountersAreExplained == Spec => [](Explained /\ LeadInv)
<1>1. Init => Explained /\ LeadInv
  BY LedgerInit
<1>2. IInv /\ (Explained /\ LeadInv) /\ [Next]_vars => (Explained /\ LeadInv)'
  BY LedgerNext
<1> QED BY <1>1, <1>2, Invariance, PTL DEF Spec

\* Once the writers have finished, a counter of a topic or a post is off by at most
\* one for each lost statement, overlap, stop or removal on one of its items, for
\* any items, containers and requests (repository.go:335, 512).
THEOREM DriftIsBounded == Spec => []DriftBounded
<1>1. IInv /\ Explained /\ LeadInv => DriftBounded
  <2> SUFFICES ASSUME IInv, Explained, LeadInv, Quiet(Writers), NEW k \in Containers
               PROVE  Distance(count[k], LiveIn(k)) <= Cardinality(FaultsOn(k))
    BY DEF DriftBounded
  <2> PICK bel, over, under : Ledger(bel, over, under)
    BY DEF Explained
  <2>1. \A i \in Items : bel[i] = Location(i)
    BY DEF Quiet, InFlight, Ledger, Believed, LeadsOn, Leads, AtItem
  <2>2. Fibre(bel, Items, k) = LiveIn(k)
    <3>1. None # k
      BY ContentAssumption
    <3>2. \A i \in Items : bel[i] = k <=> home[i] = k /\ Live(i)
      BY <2>1, <3>1 DEF Location
    <3>3. {i \in Items : bel[i] = k} = {i \in Items : home[i] = k /\ Live(i)}
      BY <3>2
    <3> QED BY <3>3 DEF Fibre, LiveIn
  <2>3. PICK n \in Nat, m \in Nat, u \in Nat, o \in Nat, x \in Nat :
          /\ n = count[k] /\ m = Fibre(bel, Items, k)
          /\ u = Fibre(under, Pairs, k) /\ o = Fibre(over, Pairs, k)
          /\ x = Cardinality(FaultsOn(k)) /\ u <= x /\ o <= x
    <3>1. Charged(over, under) /\ count[k] \in Nat
      BY DEF Ledger, IInv, TypeOK
    <3>2. Fibre(bel, Items, k) \in Nat
      BY PairsAreFinite, FibreType
    <3> QED BY <3>1, <3>2, ChargesAreFaults
  <2>4. n + u = m + o
    BY <2>3 DEF Ledger, Balanced
  <2>5. Distance(n, m) <= x
    BY <2>3, <2>4 DEF Distance
  <2> QED BY <2>2, <2>3, <2>5
<1> QED BY <1>1, Invariance, CountersAreExplained, PTL
=============================================================================
