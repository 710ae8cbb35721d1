# TLA+ models of the anonymous social network

The repository is a small social network in which one real, password-protected
profile speaks through several personas: a Go API over PostgreSQL
(`services/api`), an Android client (`apps/android`), a moderation console
(`apps/admin`), an OpenAPI contract and documents. This directory holds TLA+
models of the parts of it where the order of steps matters, the TLC
configurations that check them, and proofs checked by TLAPS. Every definition is
translated from the code; the line ranges are in `PROJECT.json` under `map`.

All paths below are relative to the repository (`internal/...` stands for
`services/api/internal/...`).

## 1. The system

### How the parts fit

`cmd/api/main.go` builds one process: a chi router, a pgx connection pool, and
the four services auth, identity, content and moderation, each with a handler, a
service and a PostgreSQL repository. Handlers run concurrently, one goroutine a
request, and share nothing in memory but the rate limiter. **Everything they
share otherwise is in PostgreSQL**, and most operations are several SQL
statements *outside* a transaction: read, decide, write. Four repository
functions are transactions (registration, the default persona, archiving all
personas, opening a case with its reports), at READ COMMITTED. So the hard
behaviour is the interleaving of statements of different requests, and requests that stop between two
statements; there is no message passing.

The services call each other through small interfaces: auth calls identity's
`CleanupOnAccountDeletion` when an account is deleted; moderation writes the
tables of the other three (`users.status`, `personas.status`,
`posts.moderation_state`); content reads identity's personas and moderation's
blocks.

### Inventory

| part | state | operations | what is hard | what makes it correct | model |
|---|---|---|---|---|---|
| **accounts and sessions** `internal/auth/service.go` | `users.status`, `deletion_grace_period_ends_at`; `sessions` (hash, expiry, `revoked_at`) | Login, RefreshSession, Logout, RequestAccountDeletion, PurgeDeletedAccounts | a refresh is lookup, INSERT, UPDATE; a deletion is mark, cleanup, sweep; access tokens are never looked up; the purge marks from a list | a rotated token is dead before its successor is out; a deletion is answered after the sweep; nobody is purged early | `Accounts` |
| **registration and invite codes** `internal/auth` | `users`, `invite_codes` | Register, CreateInviteCode, RevokeInviteCode | check, then a transaction with row and unique-index locks; revoking is read then DELETE | one user per code; only a code that is there, unused and unexpired registers; a used code's row is lost only to a revocation already under way; nobody waits for ever | `Registration`, `InviteLedger` |
| **rate limiter** `internal/auth/limiter.go` | in-process map of timestamps | Allow; the three limits of Register and Login | pruning, window boundary, three calls a request that interleave | at most Count per Window, nobody locked out, an exact retryAfter | `RateLimits` |
| **personas** `internal/identity` | `personas.status`, `is_default`; `users.default_persona_id` | CreatePersona, ArchivePersona, SetDefaultPersona, CleanupOnAccountDeletion, moderation's restriction | one fact in two tables; two-statement transactions at READ COMMITTED; a count before an INSERT | one default, never archived, the same in both tables; a bounded number of personas | `Personas` |
| **e-mail codes, e-mail change, data export** `internal/auth`, `internal/identity` | `email_codes` with attempts, `users.email`, `data_exports` | Request/ConfirmEmailChange, RequestDataExport, ProcessPendingExports | a code is spent before the UPDATE that may fail; attempts are counted after the comparison; a limit is checked before an INSERT | a code changes one address; an exhausted code is dead; exports keep their distance | `RealProfile` |
| **posts, comments, reactions, topics** `internal/content` | `posts`, `comments`, `reactions`, `saves`, `topic_follows`, counters, `idempotency_keys` | CreatePost, UpdatePost, DeletePost, the same for comments, reactions, saves, follows | read-modify-write of the moderation state and of counters; a tally in two statements; a replay check before the create | nothing is public that no moderator approved; a replay creates nothing; counters are off only by what went wrong | `ContentTables`, `Posts`, `Reactions`, `Content` |
| **lists** `internal/content`, `internal/moderation`, `internal/auth` | cursors held by clients | ListTopics, ListPosts (of a topic, of a persona), ListComments, ListReactions, ListBlocks, ListCases, ListInviteCodes | pages are cut while rows change; cursors by time alone; blocks are read after the page | every row that stays is listed once; blocked authors are not shown; a reader comes to the end | `Listings` |
| **reports, cases, outcomes** `internal/moderation` | `reports`, `moderation_cases`, `case_reports`, `moderation_actions` | CreateReport, CreateCase, UpdateCase, applyOutcome | the outcome is applied before the notes are checked and the case is written; two moderators; writes by id into other services' tables | what a resolved case says has happened; reports close after a decision | `Cases`, `Docket`; outcomes on others' rows also in `Content`, `Accounts`, `Personas` |
| **blocks** `internal/moderation` | `blocks` | CreateBlock, DeleteBlock | single statements behind a unique index; their effect on a page already read | a blocked author is not shown | `Listings` |
| **media** `internal/content` | an upload intent | UploadMedia | none: a placeholder | — | not modelled |
| **tokens, middleware** `internal/auth`, `internal/platform` | — | sign, validate, authenticate | what validation does *not* look at | — | the expiry check, in `Accounts` |
| **feed and post detail** `apps/android` | UI state, cursor | load, refresh, loadMore, selectTopic, like, comment | overlapping coroutines over one state; optimistic updates | a list shows its own topic, once | not modelled |
| **session store, network, screens** `apps/android` | DataStore | one atomic edit | none: nothing refreshes in the background | — | not modelled |
| **admin console** `apps/admin` | React state | forms over the moderation endpoints | a filter change during a load, as in the feed | — | not modelled |
| **platform** `internal/platform`, `cmd` | pool, Redis ping | readiness, configuration | no state is kept | — | not modelled |
| **schema** `services/api/migrations` | unique indexes, checks | — | what the code leaves to them | — | inside the models that rely on it |

`PROJECT.json` lists the same parts under `components` and, under `hazards`,
every place where something can go wrong that a test would hardly reach.

## 2. What is modelled

Conventions of all the models. A *request handler* is a process: a record in a
function from a set `Requests` (`Handlers`, `Staff`) with `pc`, the statement it
runs next, and the locals it carries from one statement to the next; a value
read early and used late is carried in these locals, and that is where the
staleness comes from. One SQL statement is one step. A handler may stop at any
point (`Abandon`: an error, a cancelled context, a crash of the process); an
open transaction then rolls back. A request that is refused without any change
is a stuttering step and is not written. Restarts need nothing more: handlers
keep no state of their own, and a restarted process is one in which every
handler was abandoned. In `Content`, `Cases` and `RealProfile` each handler serves
one request and the action is called `Stop`. The limiter is the exception: its map is lost, which is
not modelled (section 6).

### `Accounts` — `internal/auth/service.go:287-535`, `repository.go`

| definition | code |
|---|---|
| `status`, `graceEnds` | `users.status`, `users.deletion_grace_period_ends_at` |
| `created`, `owner`, `expires`, `revoked` | the rows of `sessions` |
| `held`, `access` | what reached a client: refresh tokens, access tokens with their expiry |
| `parent`, `since`, `promised` | history, for the properties: the rotated session, the status at the login a session stems from, the last date told to the user |
| `LoginLookup`, `LoginInsert`, `AnswerTokens` | Login, createSession |
| `RefreshLookup`, `RotateInsert`, `RotateRevoke`, `AnswerTokens` | RefreshSession |
| `LogoutBegin`, `Logout` | the middleware and Logout |
| `DeleteCheck`, `DeleteMark`, `IdentityCleanup`, `DeleteSweep`, `DeleteAnswer` | RequestAccountDeletion |
| `PurgeList`, `PurgeMark`, `PurgeFail` | PurgeDeletedAccounts |
| `UpdateUserStatus` | moderation's outcomes suspendAccount and banAccount |

A session stands for its refresh token (the hash is unique) and for the access
token signed with it. Password checks, hashing and addresses are left out: a
wrong password is a request that changes nothing. Time is a counter of ticks;
the three durations are constants.

### `Registration` and `InviteLedger` — `service.go:158-268`, `repository.go:460-590`

`VerifyInviteCode`, `CheckName`, `Begin`, `InsertUser`, `ConsumeInviteCode`,
`Commit`, `CreateSession` are the steps of Register;
`CreateUserAndConsumeInviteCode` is the middle four. The locks are part of the
model: the unique index makes `InsertUser` wait for an open transaction with the
same name (`NameLocked`), the row lock makes `ConsumeInviteCode` and
`DeleteInviteCode` wait (`CodeLocked`), and a statement that waited looks at the
committed row again. Inside the transaction `now()` is the time of `Begin`.
Revocation is `RevokeLookup` and `DeleteInviteCode`. Two variables are history:
`admits`, the user each code registered (which outlives the code's row), and
`overtaken`, the codes that a revocation had read and not yet deleted when their
registration committed.

`InviteLedger` is the abstract specification: codes are issued once, an open
code admits one new member or is withdrawn, and never opens again.
`Registration` implements it with `open <- {c \in rows : usedBy[c] = None}`.

### `RateLimits` — `internal/auth/limiter.go`, `service.go:158-190`

`Admit` and `Refuse` are the two outcomes of Allow, one step under the mutex,
with the pruning both of them do; `pc` is the limit a request meets next:
username, address, fingerprint, as in Register and Login (an address or
fingerprint is a key; the order and the early return are the code's). `granted`
is the history of everything ever let through; the code forgets what it prunes,
and the properties are about `granted`.

### `Personas` — `internal/identity/service.go:215-415`, `repository.go`

The rows of one real profile: profiles never write each other's rows. An UPDATE
with a condition is two steps, as READ COMMITTED runs it: a snapshot of the rows
that match, then, once no other open transaction holds one of them, the rows
that *still* match. A row that began to match in between is missed.
`SnapshotDefault`, `ClearDefaultFlag`, `SetDefaultFlag`, `CommitDefault` are
`SetDefaultPersona`'s transaction with the unique index on `is_default`, which
waits and then refuses; `SnapshotAll`, `ArchiveAll`, `CommitSweep` are
`ArchiveAllPersonasForRealProfile`. `CountActivePersonas`, `InsertPersona`,
`ReloadProfile` are CreatePersona, `ReadToArchive`, `ArchivePersona`,
`ListNext`, `ClearDefaultPersona` are ArchivePersona with its choice of a next
default, and `UpdatePersonaStatus` is moderation's restriction.

### `ContentTables`, `Posts`, `Reactions`, `Content` — `internal/content`

Four modules of one specification. `ContentTables` has the variables, one
operator for each statement of `repository.go`, and the handlers' local state;
`Posts` and `Reactions` have the steps of the service's requests; `Content` puts
them together with the HTTP handlers, the initial states and the properties.

| definition | code |
|---|---|
| `state`, `home`, `author` | `moderation_state`, `topic_id` or `post_id`, `persona_id` of posts and comments (an *item*) |
| `count` | `topics.note_count`, `posts.reply_count` |
| `likes`, `shown` | the rows of `reactions`, `posts.reaction_counts` |
| `marks` | the rows of `saves` and `topic_follows` |
| `stored` | `idempotency_keys`: the post of the stored response |
| `CreatePostRequest`, `ReplayResponse`, `CreatePost`, `CountIn`, `SaveIdempotencyResponse` | POST /posts |
| `UpdatePostRequest`, `CountOut`, `CountIn`, `UpdatePost` | PATCH; the counters only when the topic is given |
| `DeletePostRequest`, `DeletePost`, `CountOut` | DELETE |
| `CreateCommentRequest` ... `DeleteComment` | the same for comments |
| `Moderate` | the outcomes hide, remove and restore of a case |
| `CreateReactionRequest`, `CreateReaction`, `CountReactions`, `WriteReactionCounts`, `DeleteReactionRequest` | reactions and RecomputeReactionCounts |
| `SavePost`, `UnsavePost`, `FollowTopic`, `UnfollowTopic` | one statement each |

An update of a counter has two outcomes, because its error is dropped. `faults`
and `approved` are history; they are what the properties excuse and count.

### `Cases` and `Docket` — `internal/moderation`

`FileReport` and `CreateCase` are one step each (the second is a transaction);
UpdateCase is `ReadCase`, `ApplyOutcome`, `CheckNotes`, `ResolveReports`,
`WriteCase`, `WriteAudit`, in the order of the code, and `Effect` is applyOutcome.
`standing` stands for the rows of other services that outcomes are written to:
the target itself, its author's persona, its author's account. `applied` is
history. `Docket` is the abstract specification: reports are filed, decisions
are taken on reported targets, and reports are closed once there is a decision on
what they are about. `Cases` implements it with `closed <- resolved` and
`decisions` read off `applied`.

### `Listings` — the lists of content, moderation and auth

One list is read by one reader. `list` says which; the seven actions `ListTopics`
... `ListInviteCodes` differ in the rows they select (`TopicRows` ...) and share
`Fetch`: order, limit + 1, cut, next cursor. Posts and comments are filtered by
`FilterBlockedAuthors` in a step of its own, with the lookup that may fail;
the lists of a topic and of a persona are ListPosts with a filter, and a row
that leaves the filter is `out`. Meanwhile rows are inserted with a time that may
be older than what was read (now() is taken when the statement begins), reviewed,
withdrawn, brought back, and personas are blocked. A reader without a persona is
a `Viewer` that owns and blocks nothing.

### `RealProfile` — `internal/identity/service.go:107-214, 417-436`, `internal/auth/repository.go:256-341`

RequestEmailChange is `RequestEmailChange`, `StoreCode`, `SendEmailCode`;
ConfirmEmailChange is `ConfirmEmailChange`, `VerifyEmailCode`, then `SpendCode` and
`ChangeEmail` for the right code, `CountAttempt` and perhaps `WithdrawCode` for a
wrong one. RequestDataExport is `RequestDataExport` and `InsertDataExport`, the job
`ProcessPendingExports` and `MarkReady` for each row of its list. A client may
present any code that was mailed, to whomever, or none of them.

Each model also defines a few operators that no action uses, placed before the
operator they resemble and commented as what they are (`SetWithoutIndex`,
`RefuseAndRecord`, ...): variants with a plausible slip. `PROJECT.json` pairs
each with a property under `mutants`; with the variant in place TLC finds the
property violated, so no property holds by the shape of the model.

## 3. The runs

| run | question | instance | states |
|---|---|---|---|
| `accounts` | Do rotation, deletion and purge keep their promises in every interleaving? | 1 user, 2 session rows, 2 handlers, clock 0..1, all durations 1 | 1.7 M |
| `registration` | Are codes single-use, and which used rows can be lost? Does it implement the ledger? | 2 codes, 2 names, 2 registrations, 2 staff requests, clock 0..2 | 255 k |
| `registration_live` | Is every registration answered, locks notwithstanding? | the same with 1 staff request, clock stopped, no expiry | 48 k |
| `rate_limits` | Do three limits in a row keep their bounds while requests interleave? | 4 requests, 2 names, 1 address, 1 fingerprint with its limit off, clock 0..6, window 2 | 917 k |
| `personas` | Is there one default, active when chosen, the same in both tables? | 4 rows, 2 handlers, limit 2 | 880 k |
| `content` | How wrong can counters, tallies, edits and retries go? | 3 requests, up to 3 posts and 1 comment, 2 topics, 2 personas, 1 key, 1 lost statement | 980 k |
| `cases` | Do cases, reports and outcomes tell one story? Do they implement the docket? | 2 reports, 2 cases, 3 updates, a note and a persona, outcomes remove and banAccount | 2.0 M |
| `listings` | What does a reader get while the list changes? | each of 7 lists, 3 rows, 2 times, 2 personas, pages of 1 or 2 | 1.6 M |
| `real_profile` | Are codes single-use and exports apart? | 4 requests, 2 users, 2 addresses, 2 codes, 2 exports, clock 0..2 | 915 k |
| `deletion_vs_refresh` | Does a deletion end every login? (no) | 1 user, 3 sessions, 2 handlers, clock stopped | stops at the violation |
| `used_code_kept` | Does a used code keep its row? (no) | 1 code, 1 name, 1 handler, 1 staff request | stops at the violation |
| `persona_limit` | Is the limit of personas respected? (no) | 3 rows, 2 handlers, limit 2 | stops at the violation |

### What the passing runs show

- `accounts`. **RotatedTokenIsDead**: when the token of a rotated session is out,
  the token it came from is revoked, though two handlers may exchange the same
  token and either may stop halfway. **DeletionAnsweredAfterSweep**: a deletion is
  only answered when every session of the account at the mark is revoked.
  **PurgedOnlyAfterGrace**: the purge works from a list read earlier and marks by
  id, yet never marks an account whose stored grace period is running.
  **GraceNotProlonged**: deleting again from another device, or after a
  suspension, never moves the stored date past one the user was told.
- `registration`. **OneUserPerCode** (also for the request that is repeated after
  its first try stopped between commit and session), **LostOnlyToOverlap** (the
  row of a used code is deleted, if at all, by a revocation that had read it
  unused and was overtaken by the registration; the refusal and the row lock
  leave no other way, and `used_code_kept` shows this one), **CommitIsValid**
  (nothing that happened since the first check is overlooked),
  **ImplementsLedger**.
- `registration_live`. **RegistrationAnswered**: no deadlock and no starvation
  between name locks, code locks and the revocation's DELETE.
- `rate_limits`. **WindowBound** (no window, wherever it starts, holds more than
  Count grants, though the limiter forgets), **RefusedOnlyWhenFull** (a refused
  attempt does not take a place), **RetryAfterExact**.
- `personas`. **OneDefault**, **ArchivedNeverDefault**, **ActiveDefaultIsFlagged** (the
  two tables agree about an active default), **DefaultChosenActive** (an action
  property), **OvershootBounded** (how far the limit can be exceeded).
- `content`. **DriftBounded**: a counter is off by at most one for each fault of a
  request on one of its items (a lost statement, another writer at work on the
  same item, a moderator's removal), and never by what happens to other items.
  **TallyExact**: reactions that do not overlap leave the right tally, whatever
  else happens to the post. **ShownOnlyIfApproved**: nobody but its author is
  shown an item that no moderator ever published. **ComesBackAsRead**: a hidden or
  deleted item comes back only through a moderator or through an edit that had
  read it before, and then in the state it had read. **AnsweredKeyMakesNoPost**:
  a retry of an answered request makes no post unless the lookup fails.
  **MarksAnswered**: what saves and follows answered adds up to the row.
- `cases`. **ResolvedWasApplied**: a case that says resolved names an outcome that
  took effect, and its reports are closed. **EffectAndRecordAgree**: an outcome
  that took effect is the one on record, and the one on record is in force, unless
  a request on the case was refused or stopped after it had acted or overlapped
  with another. **ReopenedOnlyByStale**: a resolved case changes only through a
  request that had read it unresolved. **ImplementsDocket**.
- `listings`. **ListedOnce**: no row is given twice in a pass, and a row that was in
  the list all along is given, except, in the three lists whose cursor is a time,
  a row of the same time as a cursor. **BlockedUnseen**: nothing is shown of an
  author blocked since before the page was asked for, unless the lookup failed.
  **EveryPassEnds**: a reader who keeps asking comes to the end.
- `real_profile`. **CodesHold**: a code changes one address at most, the one it was
  mailed to, and an exhausted code is withdrawn unless the handler is, or was, stopped
  between counting and withdrawing. **ExportsKeepTheirTime**: two exports of one
  account closer than the cooldown come from overlapping requests, and none is
  ready before its grace period is over.

### Bounds, and why they are enough

The properties relate at most two handlers that race and one clock. Two
handlers give every pairwise race; moderation and the purge are further actors
without a bound. In `accounts` one user is enough because no statement touches
two users' rows; the proofs cover any number. Two session rows are one rotation
or two logins; the violated run needs a third. Clock bound 1 with durations of
1 lets every date lie in the past, the present and the future. In
`registration` three instants put a code's expiry before, at and after the
check. In `rate_limits` the clock passes three windows, so that events are
pruned and a key fills again. In `personas` four rows allow three actives over
a limit of two and one more after an archive. `MaxTime` is the only bound
written into guards (`Tick`). Every bound is a constant of the module and
disappears in the proofs, `MaxTime` included: it is any natural number there.

In `content` three requests are two that race and a moderator, or a creation, an
edit and a deletion of one item; one lost statement at a time (`MaxLost`) keeps
the faults apart. Two topics allow a move; two more posts than are there at the
start allow a creation and its unwanted repetition. In `cases` two cases may be
about one target, and three updates are two moderators and one who comes later;
of the outcomes, remove has no audit entry and banAccount writes elsewhere than
to the target, and the others write as these two do. In `listings` three rows over
pages of one or two are a page boundary inside a group of equal times; limits 0
and 9 are replaced by the default and the maximum. In `real_profile` two codes
for one address have a newest and an older one, two attempts are the first and
the last, and three instants put a code's expiry and the cooldown before, at and
after. `MaxLost`, `MaxCodes`, `MaxExports` and `MaxNow` are bounds in guards.

Symmetry is used over sets whose elements no definition tells apart (users,
sessions, handlers, codes, names, staff); persona ids are not symmetric, because
their order is `created_at`, and the liveness run uses none.

The runs `content`, `cases` and `real_profile` also use symmetry over items not there
at the start, topics, personas, reports, cases, users and addresses; `listings`
uses none, because ids are ordered and it checks liveness.

`CHECK_DEADLOCK FALSE` is set in the runs in which each request is made once
(`rate_limits`, `content`, `cases`, `real_profile`), and in `listings`, which ends
with the list: the end of the run is a state without a successor. Everywhere else TLC also shows that some request can always go on.

### Fairness

`Registration` (`FairSpec`) and `Listings` state fairness. In `Listings` it is weak
fairness of `Read`: the reader asks again and is answered. It is the premise of
EveryPassEnds, which is about readers who do, and nothing is assumed of the rows,
of the moderators or of the lookup of blocks. `Content`, `Cases` and `RealProfile`
promise no progress: a request may stop anywhere, nobody retries for it, and
nothing in the program calls ProcessPendingExports.

In `Registration` a handler's own next statement
is weakly fair: goroutines are scheduled and the database answers. The
statements that wait for a lock (`InsertUser`, `ConsumeInviteCode`,
`DeleteInviteCode`) are strongly fair: PostgreSQL queues the waiters of a lock, so
one that can go on again and again does go on. Nothing is owed by clients or
staff: that a request is made, or that the clock moves, is not assumed, and
failure (`Abandon`) is never assumed either, so a registration is not answered
*by* failing.

## 4. Where code and documents disagree

The three runs that expect a violation, each with the line it contradicts:

- **deletion_vs_refresh** — a refresh that found its session before the sweep
  inserts the next session after it, and that one stays alive
  (`internal/auth/service.go:439`). The build plan says "deleting an account
  revokes every session" (`docs/superpowers/plans/2026-07-10-anonymous-social-android-rebuild.md:178`).
- **used_code_kept** — a revocation that read a code as unused deletes the row of
  a code used since (`service.go:263`); the invite specification says
  "revokes by DELETE; refuses when already used".
- **persona_limit** — CreatePersona counts and inserts in two statements
  (`internal/identity/service.go:244`), so two requests pass the limit that
  `docs/architecture/content-policy.md:45` states. `OvershootBounded` says by how much.

Seen while modelling, true of the models, or of the code they leave out, and not
given a run of their own:

*auth.* One refresh token can be exchanged twice by two requests at once, and
both succeed. A deletion that stops between the mark and the sweep leaves its
sessions alive, and the retry is refused as already pending. Login does not
cancel a pending deletion, which `contracts/openapi/openapi.yaml:212` says; a
suspension takes an account off the purge list for good, although it was to be
deleted (`docs/architecture/domain-model.md:288`); banned and deleted users can
log in, against `domain-model.md:300-301`; logout does not end the access token,
against `openapi.yaml:181`; the date a deletion answers is counted from the
answer, the stored one from the first mark. An expired or revoked code can be
answered as used (when the UPDATE finds it so), and a failing createSession
answers an error after the code is spent. `Retry-After` is cut to whole seconds
(`internal/auth/handler.go:522`), and a retry at exactly `retryAfter` is still
refused.

*identity.* A stop between archiving the default persona and choosing the next
leaves the user row at the archived one; clearing the default can overtake the
creation of a new active persona; a persona inserted after the sweep's snapshot
survives the deletion of its account; a moderator's restriction turns an
archived persona into a restricted one; `max_personas` of the schema is unused.

*content.* UpdatePost writes back the moderation state it read, so that an edit
undoes a hide or a delete in between, and the topic it read, so that an edit of
the text undoes a move; two deletions of one post take two from the topic's note
count, and a count clipped at zero is one too high for ever after; a moderator's
removal and restoring are not counted at all, and hiding a deleted post makes it a
hidden one. The older of two recomputed reaction counts can land last. Two
requests with one Idempotency-Key at once, and a retry after a 500, both create,
although "replays with the same key return the cached response without side
effects" (`domain-model.md:356`); the key is not scoped to the principal
(`domain-model.md:355`); every other POST, PATCH and DELETE requires a key and
never looks it up, UploadMedia among them. `follower_count` is never written;
comments' reactions have no route; UpdateComment and DeleteComment ignore the post
in the path.

*moderation.* Two moderators can both apply an outcome to one case, and a late
"under review" reopens a resolved one; the outcome is applied before the notes
are checked (`internal/moderation/service.go:399, 403`); restore publishes a deleted
post. A removal is never in the audit list: the CHECK on `action_type` does not know
"remove" and the error is dropped (`service.go:434`). Reporting one's own post or
comment is not refused, although `docs/architecture/api-errors.md:134` has an error
for it: the author's persona is compared with the reporter's user
(`service.go:257, 268`). CreateBlock answers an error if the persona cannot be read
after the INSERT. Blocks hide in one direction.

*lists.* Cursors by `created_at` alone skip rows with equal times. A page whose
block lookup fails is shown unfiltered; a filtered page may be empty although
there is a next one.

*export and e-mail.* The monthly export limit is checked before an INSERT; an
e-mail code is spent although the address turns out to be taken; it is looked up
by address and not by who asked for it; a handler that stops between counting the
last attempt and withdrawing the code leaves it usable until the next wrong guess.
PurgeDeletedAccounts and ProcessPendingExports are scheduled by nobody.

*Android.* loadMore called twice appends a page twice; selectTopic during a load
shows the other topic's posts; a failed like restores an older state.

## 5. What is proved

Every safety invariant, every action property and both refinements that the runs
check are theorems. The proofs are in eight modules, one for each component
(`AccountsProofs`, `RegistrationProofs`, `RateLimitsProofs`, `PersonasProofs`,
`ContentProofs`, `CasesProofs`, `ListingsProofs`, `RealProfileProofs`); each holds
for every value of the constants that meets the component's named assumption:
durations, bounds and `MaxTime` are naturals, `None` is none of the rows, Count maps
keys to naturals, posts are not comments, a page's default limit lies between 1 and
the maximum, a code allows one attempt or more, and `Requests`, `Items` and `Rows`
are finite where they are counted. TLC evaluates the same assumptions in every run.

| theorem | says | rests on |
|---|---|---|
| `TypeCorrect`, one in each module | types | handlers' records; in the last four modules `IInv` |
| `RotationSafe`, `SweepBeforeAnswer` | RotatedTokenIsDead, DeletionAnsweredAfterSweep | `SessionInv` |
| `PurgeWaits`, `GraceIsFixed` | PurgedOnlyAfterGrace, GraceNotProlonged | `GraceInv` over `SessionInv` |
| `RegistrationProofs!SingleUse`, `UsedRowsLostToOverlap`, `CommitValidity` | the safety invariants | `IInv` |
| `LedgerRefinement` | Registration implements InviteLedger | `IInv`, one lemma a step |
| `RateLimitsProofs!AtMostCountPerWindow`, `NoFalseRefusal`, `RetryAfterIsExact` | the three properties | `LimitInv` |
| `PersonasProofs!SingleDefault`, `ArchivedUnflagged`, `DefaultsAgree`, `ChosenActive` | default persona | `FlagInv` |
| `OvershootIsBounded` | OvershootBounded | `CountInv` |
| `ContentProofs!ModerationComesFirst`, `RetriesMakeNoPost`, `MarksAreAnswered`, `TallyIsExact` | ShownOnlyIfApproved, AnsweredKeyMakesNoPost, MarksAnswered, TallyExact | `IInv` |
| `ComesBackOnlyAsRead` | ComesBackAsRead | `IInv`, one step a lemma |
| `CountersAreExplained`, `DriftIsBounded` | the ledger of the counters; DriftBounded | `Explained`, `LeadInv` over `IInv` |
| `CasesProofs!ResolutionsHold`, `EffectsHold`, `ReopenedByStaleOnly` | ResolvedWasApplied, EffectAndRecordAgree, ReopenedOnlyByStale | `IInv` |
| `DocketRefinement` | Cases implements Docket | `IInv`, one lemma a step |
| `ListingsProofs!ListedOnceAlways`, `BlockedStayUnseen` | ListedOnce, BlockedUnseen | `IInv` |
| `RealProfileProofs!CodesAreKept`, `ExportTimesHold` | CodesHold, ExportsKeepTheirTime | `IInv` |

None of the checked invariants is inductive as it stands:

- `SessionInv` adds what a handler knows at each `pc` (`HandlerKnows`): the
  session about to be answered exists and its parent is revoked already; the
  sessions seen at the mark belong to the account; and that owner and parent of a
  row never change.
- `GraceInv` adds that a user whom a handler has marked, or whom the purge has
  listed, has a stored date, that it is never later than a future answer, and
  that a listed date is over: COALESCE makes the date a write-once value, and
  this is what keeps a stale purge list right.
- `IInv` of Registration adds what the locks give: the name of an open
  transaction is free and its alone (`NameIsReserved`), a code row that is about
  to be marked is held by one transaction (`CodeIsHeldOnce`). For LostOnlyToOverlap
  it adds what a revocation that is about to delete still knows: its code is unused,
  or was used since it read the row (`ReadBeforeUse`). That a row names the user its
  code registered (`RowsNameTheirUser`) is a step of these proofs, no result.
- `LimitInv` adds `KeepsWhatCounts`: what the limiter keeps of a key contains
  every granted event that a present or later window can still count. The rest is
  counting, with the library's facts on finite sets.
- `FlagInv` says who may hold which row: a row written by an open transaction is
  held by one handler, a transaction about to commit a default has found every
  other flag cleared by itself, and nobody else is about to commit one. `CountInv`
  counts: active rows plus handlers about to insert never exceed
  `MaxActive - 1` plus the number of handlers.

- `IInv` of Content says what a request knows at each statement (`Knows`: the item
  it works on exists and has a container, the state an edit will write back is one
  it could edit, and "published" only if a moderator had published it). Beyond
  that, published items are approved, an answered key has its response stored
  (`AnswersAreStored`), and as long as no reaction on a post overlapped or stopped
  there is one of them at a time, with a tally that is still right when it is
  written (`TallyInTime`).
- DriftBounded needs an account of every counter in every state, not only when the
  writers have finished, and `Ledger` gives it: `bel` is the place where each item
  is counted, `over` and `under` charge each fault of a request with at most one
  place that has one too many and one that has one too few, and for every container
  count + charges under = items believed there + charges over (`Balanced`). A writer
  that found nobody else at work on its item *leads* it; there is one leader at most
  (`OneLeads`), and while it is at work the item is believed where its statements
  have got to. What others do to the item meanwhile is charged to their overlap or
  removal; when the leader ends and the item is not where it left it, one of those
  faults takes the difference (`LeftOrCharged`, `LeaderCounts`). A counter clipped at
  zero has a charge under it that the clipping pays off (`ZeroIsCharged`). The
  ledger is quantified existentially in `Explained`, so that it is no state of the
  program; the lemmas `Ledger...`, `Leader...` and `Follower...` give the new ledger
  for each step, and all the counting is in `FibreMoves` and `BalanceMoves`: the
  sums change by one when one value of a function changes. When nobody is at work
  everything is believed where it is, and a counter differs from its live items by
  charges only, of which there is at most one a fault.
- `IInv` of Cases adds what a request on a case carries from its read to its write
  (`WorkIsKnown`, `ActedIsApplied`, `MarkedBeforeWrite`), that of two requests at work
  on one target the later is marked (`OverlapShows`), and, for a case without a
  fault, that an outcome in force is either on record or claimed by one request that
  has still to record it (`EffectIsClaimed`, `ClaimIsInForce`).
- `IInv` of Listings says where a pass is: what was given is not behind the cursor
  (`GivenIsPassed`), the page that waits for its answer is (`PageIsBehind`), and a
  stable row still missing is in that page or behind the next cursor
  (`PageMissesNone`). That a page is cut without loss is a fact about the first rows
  of an ordered set (`FirstOfMany`, `PageOfRows`), proved once for all seven lists.
- `IInv` of RealProfile says who may still use a code: a code in hand was mailed to
  the address it is used for (`CodeInHand`), one request spends it (`SpentByOne`), and
  exports are in the order of their requests, with those a request saw older than
  the cooldown (`ExportsInOrder`, `CooldownSeen`).

Only model-checked: `RegistrationAnswered` and `EveryPassEnds`, because liveness under
fairness is beyond the prover. Out of its reach in general, should later models need
them: ENABLED, induction over recursive data, and RECURSIVE operators, which these
modules avoid.

## 6. What is not modelled, and why

- Cryptography, password rules, alias rules and filters, mail, Turnstile, object
  storage: pure functions or services outside the repository.
- The loss of the limiter's map on a restart, and several API processes with a map
  each: the bound is per process and per run, as the code says ("in-process").
- PostgreSQL's deadlock detector: a victim's statement fails, which is `Abandon`.
- Reads that change nothing, handlers' formatting, logging, the HTTP layer, the
  screens of the clients, generated code and the reverse-engineering notes.
- In `Content`: texts, media references, the limits on posts and comments (as in
  `RateLimits`), and the state of the persona that writes, which is checked before
  the first statement and may change before the last. The state "rejected" is in
  the schema and no code writes it. Stored responses are forgotten after a day; a run
  is shorter.
- In `Cases`: categories, details and notes beyond being accepted or not, and the
  author's own requests on the target, which are in `Content`.
- The view models of the Android client (`FeedViewModel`, `PostDetailViewModel`): the
  races the hazards name are of view state in one process; the pages and counts
  they show are in `Listings` and `Content`.

## 7. Plan

1. Every safety and action property is proved; the two liveness properties stay with
   TLC. What is worth proving next says more than the runs check: see 2.
2. For `Accounts`: that a deletion stopped halfway, or a refresh under way, is the only
   way to a live session of a deleting account.
3. The composition of `Cases` with `Posts`, in place of `standing` and `Moderate`, and
   the feed of the client over `Listings`.

## 8. Running it

    tlc -workers 2 -config MCAccounts.cfg MCAccounts.tla
    tlapm AccountsProofs.tla

and likewise for the other modules; `PROJECT.json` names the module and the
configuration of each run.
